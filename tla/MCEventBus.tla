------------------------------- MODULE MCEventBus -------------------------------
EXTENDS EventBus, TLC

Symmetry == Permutations(Processes) \cup Permutations(Ticks)
=============================================================================
