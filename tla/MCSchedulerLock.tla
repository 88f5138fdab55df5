-------------------------- MODULE MCSchedulerLock --------------------------
(* Two processes contend for one job; each runs it at most once at a time.   *)
EXTENDS SchedulerLock, TLC

CONSTANTS p1, p2

MCInstances == {p1, p2}
MCOwnerOf   == [i \in MCInstances |-> i]

Symmetry == Permutations(MCInstances)
=============================================================================
