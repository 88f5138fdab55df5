------------------------------ MODULE JobLock ------------------------------
(***************************************************************************)
(* What run_locked promises to a scheduled job: one body at a time, and a  *)
(* body begins only after the one before it has ended, been cancelled or   *)
(* died with its process.                                                  *)
(***************************************************************************)
CONSTANT Instances      \* run_locked coroutines of one job, over all processes

VARIABLE inside         \* those that run the job's body

Init == inside = {}

Enter(i) == inside = {} /\ inside' = {i}

Leave(i) == inside = {i} /\ inside' = {}

Next == \E i \in Instances : Enter(i) \/ Leave(i)

Spec == Init /\ [][Next]_inside
=============================================================================
