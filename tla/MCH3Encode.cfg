SPECIFICATION FairSpec
CONSTANTS
  Executions = {c1, c2, b1}
  Background = {b1}
  Lifetimes = {4}
  THRESHOLD = 3
  AUTH_TIMEOUT = 1
  REQUEST_TIME = 2
  MaxSize = 2
  a = a
  aNear = aNear
  b = b
  c = c
  ring = ring
  Coords = {a, aNear, b, c}
  Rings = {ring}
  Batches <- MCBatches
  KeyOf <- MCKeyOf
  None = None
INVARIANTS
  TypeOK
  TrustedTokensAreValid
  RenewalGoesOn
  AnswersBelong
  KeepsTheRecent
PROPERTIES
  StaysValid
