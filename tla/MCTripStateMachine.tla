--------------------------- MODULE MCTripStateMachine ---------------------------
(* TripStateMachine on the drivers and payment intents of its configuration. *)
EXTENDS TripStateMachine
=============================================================================
