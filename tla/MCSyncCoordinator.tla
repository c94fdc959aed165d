-------------------------- MODULE MCSyncCoordinator --------------------------
(* SyncCoordinator for TLC: the coroutines are interchangeable.            *)
EXTENDS SyncCoordinator, TLC

TaskSymmetry == Permutations(Tasks)
=============================================================================
