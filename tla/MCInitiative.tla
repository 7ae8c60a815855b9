---------------------------- MODULE MCInitiative ----------------------------
(* An instance of Initiative for TLC: one worker, two watches, two states.  *)
EXTENDS Initiative

CONSTANTS p1, first, moved

OneWorker == {p1}
TwoWatches == {1, 2}
TwoStates == {first, moved}
Deadlines == [w \in TwoWatches |-> [s \in TwoStates |-> 3]]

MCFairSpec == InitiativeSpec /\ Fairness
=============================================================================
