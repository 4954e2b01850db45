----------------------------- MODULE MCTripLifecycle -----------------------------
(* Instances of TripLifecycle, and so of TripUseCases, for TLC. *)
EXTENDS TripLifecycle, TLC

\* Drivers, PINs, intents and tasks are interchangeable.
Symmetry ==
  Permutations(Drivers) \cup Permutations(Pins) \cup Permutations(Intents)
    \cup Permutations(Tasks)
=============================================================================
