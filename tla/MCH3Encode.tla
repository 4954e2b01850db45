------------------------------ MODULE MCH3Encode ------------------------------
(* An instance of H3Encode for TLC. *)
EXTENDS H3Encode

CONSTANTS a, aNear, b, c, ring

\* Two coordinates with keys of their own, one beside a kRing operation, and two with
\* the same key in one batch.
MCBatches == {<<a, b>>, <<ring, c>>, <<aNear, a>>}

MCKeyOf == [x \in Coords |-> IF x = aNear THEN a ELSE x]
=============================================================================
