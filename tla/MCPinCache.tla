------------------------------- MODULE MCPinCache -------------------------------
(* Two executions on the PIN of one trip, one PIN being wrong for the other. *)
EXTENDS PinCache, TLC

Symmetry == Permutations(Calls) \cup Permutations(Pins)
=============================================================================
