------------------------ MODULE SchedulerLockProofs ------------------------
(***************************************************************************)
(* Proofs about the scheduler lease, for every set of processes, every     *)
(* setting the validator accepts and every bound.                          *)
(***************************************************************************)
EXTENDS SchedulerLock, TLAPS

USE DEF Working, NetworkOps, PCs

-----------------------------------------------------------------------------
(* Type correctness *)

LEMMA AbandonType ==
    ASSUME TypeOK, NEW S \in SUBSET Instances, Abandon(S)
    PROVE  /\ req' \in [Instances -> Request \cup {None}]
           /\ reply' \in [Instances -> {"none", "ok", "wrongRevision"}]
           /\ abandoned' \subseteq Request
BY DEF Abandon, TypeOK

LEMMA DropLocalsType ==
    ASSUME TypeOK, NEW S \in SUBSET Instances, DropLocals(S)
    PROVE  /\ now' \in [Instances -> Nat]
           /\ seen' \in [Instances -> Entry \cup {None}]
           /\ deadline' \in [Instances -> Nat]
           /\ attempts' \in [Instances -> Nat]
BY DEF DropLocals, TypeOK

LEMMA SendType ==
    ASSUME TypeOK, NEW i \in Instances, NEW op \in {"create", "takeover", "renew", "delete"},
           NEW rev \in Nat, NEW exp \in Nat, Send(i, op, rev, exp)
    PROVE  /\ req' \in [Instances -> Request \cup {None}]
           /\ reply' \in [Instances -> {"none", "ok", "wrongRevision"}]
BY OwnersAssumption DEF Send, TypeOK, Request

LEMMA ApplyType ==
    ASSUME TypeOK, NEW q \in Request, Apply(q)
    PROVE  kv' \in Entry
<1>1. CASE ~Succeeds(q)
  BY <1>1 DEF Apply, TypeOK
<1>2. CASE Succeeds(q)
  <2>1. kv' = [live |-> q.op # "delete", rev |-> kv.rev + 1, owner |-> q.owner, exp |-> q.exp]
    BY <1>2 DEF Apply
  <2>2. (q.op # "delete") \in BOOLEAN /\ kv.rev + 1 \in Nat /\ q.owner \in Owners /\ q.exp \in Nat
    BY DEF TypeOK, Request, Entry
  <2> QED BY <2>1, <2>2, Zenon DEF Entry
<1> QED BY <1>1, <1>2

(* Each step of a coroutine, of the server, of a process or of the clock    *)
(* leaves every variable in its type.                                       *)
LEMMA TypeStep == TypeOK /\ [Next]_vars => TypeOK'
<1> SUFFICES ASSUME TypeOK, [Next]_vars PROVE TypeOK'
  OBVIOUS
<1> USE SettingsAssumption, OwnersAssumption
<1>1. ASSUME NEW i \in Instances, RunLocked(i) PROVE TypeOK'
  BY <1>1 DEF RunLocked, AcquireRound, TypeOK
<1>2. ASSUME NEW i \in Instances, AcquireSkips(i) PROVE TypeOK'
  BY <1>2, DropLocalsType DEF DropLocals, AcquireSkips, TypeOK
<1>3. ASSUME NEW i \in Instances, AcquireSends(i) PROVE TypeOK'
  <2>1. kv.rev \in Nat /\ now[i] + Lease \in Nat
    BY DEF TypeOK, Entry
  <2>2. /\ req' \in [Instances -> Request \cup {None}]
        /\ reply' \in [Instances -> {"none", "ok", "wrongRevision"}]
    BY <1>3, <2>1, SendType DEF AcquireSends
  <2> QED BY <1>3, <2>2 DEF AcquireSends, TypeOK
<1>4. ASSUME NEW i \in Instances, AcquireGranted(i) PROVE TypeOK'
  BY <1>4 DEF AcquireGranted, TypeOK
<1>5. ASSUME NEW i \in Instances, AcquireConflict(i) PROVE TypeOK'
  <2>1. CASE attempts[i] < MaxAttempts
    BY <1>5, <2>1 DEF AcquireConflict, AcquireRound, TypeOK
  <2>2. CASE ~(attempts[i] < MaxAttempts)
    BY <1>5, <2>2, DropLocalsType DEF DropLocals, AcquireConflict, TypeOK
  <2> QED BY <2>1, <2>2
<1>6. ASSUME NEW i \in Instances, AcquireFails(i) PROVE TypeOK'
  BY <1>6, DropLocalsType, AbandonType DEF DropLocals, AcquireFails, TypeOK
<1>7. ASSUME NEW i \in Instances, RenewStarts(i) PROVE TypeOK'
  BY <1>7 DEF RenewStarts, TypeOK
<1>8. ASSUME NEW i \in Instances, RenewReads(i) PROVE TypeOK'
  BY <1>8 DEF RenewReads, TypeOK
<1>9. ASSUME NEW i \in Instances, RenewSends(i) PROVE TypeOK'
  <2>1. seen[i].rev \in Nat /\ clock + Lease \in Nat
    BY <1>9, NoneAssumption DEF RenewSends, StillHeld, TypeOK, Entry
  <2>2. /\ req' \in [Instances -> Request \cup {None}]
        /\ reply' \in [Instances -> {"none", "ok", "wrongRevision"}]
    BY <1>9, <2>1, SendType DEF RenewSends
  <2> QED BY <1>9, <2>2 DEF RenewSends, TypeOK
<1>10. ASSUME NEW i \in Instances, RenewGranted(i) PROVE TypeOK'
  BY <1>10 DEF RenewGranted, TypeOK
<1>11. ASSUME NEW i \in Instances, RenewFails(i) PROVE TypeOK'
  BY <1>11, DropLocalsType, AbandonType DEF DropLocals, RenewFails, TypeOK
<1>12. ASSUME NEW i \in Instances, JobEnds(i) PROVE TypeOK'
  BY <1>12, AbandonType DEF JobEnds, StartRelease, TypeOK
<1>13. ASSUME NEW i \in Instances, JobUnwound(i) PROVE TypeOK'
  BY <1>13 DEF JobUnwound, StartRelease, TypeOK
<1>14. ASSUME NEW i \in Instances, ReleaseSends(i) PROVE TypeOK'
  <2>1. kv.rev \in Nat
    BY DEF TypeOK, Entry
  <2>2. /\ req' \in [Instances -> Request \cup {None}]
        /\ reply' \in [Instances -> {"none", "ok", "wrongRevision"}]
    BY <1>14, <2>1, SendType DEF ReleaseSends
  <2> QED BY <1>14, <2>2 DEF ReleaseSends, TypeOK
<1>15. ASSUME NEW i \in Instances, ReleaseEnds(i) PROVE TypeOK'
  BY <1>15, DropLocalsType, AbandonType DEF DropLocals, ReleaseEnds, TypeOK
<1>16. ASSUME NEW i \in Instances, ServerAnswers(i) PROVE TypeOK'
  <2>1. req[i] \in Request
    BY <1>16 DEF ServerAnswers, TypeOK
  <2>2. kv' \in Entry
    BY <1>16, <2>1, ApplyType DEF ServerAnswers
  <2> QED BY <1>16, <2>2 DEF ServerAnswers, TypeOK
<1>17. ASSUME NEW q \in abandoned, ServerAppliesLate(q) PROVE TypeOK'
  <2>1. q \in Request
    BY DEF TypeOK
  <2>2. kv' \in Entry
    BY <1>17, <2>1, ApplyType DEF ServerAppliesLate
  <2> QED BY <1>17, <2>2 DEF ServerAppliesLate, TypeOK
<1>18. ASSUME NEW o \in Owners, Crash(o) PROVE TypeOK'
  BY <1>18, DropLocalsType, AbandonType DEF DropLocals, Crash, TypeOK
<1>19. CASE Tick
  BY <1>19 DEF Tick, TypeOK
<1>20. CASE UNCHANGED vars
  BY <1>20 DEF vars, TypeOK
<1> QED
  BY <1>1, <1>2, <1>3, <1>4, <1>5, <1>6, <1>7, <1>8, <1>9, <1>10, <1>11, <1>12,
     <1>13, <1>14, <1>15, <1>16, <1>17, <1>18, <1>19, <1>20 DEF Next, Step

(* Every reachable state of the lease protocol is well typed.               *)
THEOREM TypeCorrect == Spec => []TypeOK
<1>1. Init => TypeOK
  BY OwnersAssumption DEF Init, TypeOK, Entry
<1> QED
  BY <1>1, TypeStep, PTL DEF Spec

-----------------------------------------------------------------------------
(* Mutual exclusion *)

\* A coroutine that gives up moves its own write, and nothing else, to the
\* abandoned ones.
LEMMA AbandonFacts ==
    ASSUME TypeOK, NEW S \in SUBSET Instances, Abandon(S)
    PROVE  /\ \A j \in Instances : j \in S => req'[j] = None /\ reply'[j] = "none"
           /\ \A j \in Instances : j \notin S => req'[j] = req[j] /\ reply'[j] = reply[j]
           /\ \A q \in abandoned' : q \in abandoned \/ \E j \in S : q = req[j] /\ req[j] # None
BY DEF Abandon, TypeOK

\* What a write that takes effect does to the entry.
LEMMA ApplyFacts ==
    ASSUME TypeOK, NEW q \in Request, Apply(q)
    PROVE  \/ ~Succeeds(q) /\ kv' = kv
           \/ /\ Succeeds(q)
              /\ kv'.rev = kv.rev + 1 /\ kv'.owner = q.owner /\ kv'.exp = q.exp
              /\ kv'.live = (q.op # "delete")
<1>1. CASE Succeeds(q)
  <2> DEFINE new == [live |-> q.op # "delete", rev |-> kv.rev + 1, owner |-> q.owner, exp |-> q.exp]
  <2>1. kv' = new
    BY <1>1 DEF Apply
  <2>2. /\ new.rev = kv.rev + 1 /\ new.owner = q.owner /\ new.exp = q.exp
        /\ new.live = (q.op # "delete")
    BY Zenon
  <2> HIDE DEF new
  <2> QED BY <1>1, <2>1, <2>2
<1>2. CASE ~Succeeds(q)
  BY <1>2 DEF Apply
<1> QED BY <1>1, <1>2

\* Every step keeps the timers ahead of the clock and every read-then-write
\* sound, whatever the settings and however many instances share a process.
LEMMA WriteProtocolStep ==
    ASSUME TypeOK, WriteProtocol, [Next]_vars
    PROVE  WriteProtocol'
<1> USE SettingsAssumption, OwnersAssumption, NoneAssumption
<1> USE DEF TypeOK, WriteProtocol, TimersPending, AcquireLocals, RequestsOwned,
            OwnRequest, WritesSound, Sound, RecoveryBound, Entry, Request
<1>1. ASSUME NEW i \in Instances, RunLocked(i) PROVE WriteProtocol'
  BY <1>1 DEF RunLocked, AcquireRound
<1>2. ASSUME NEW i \in Instances, AcquireSkips(i) PROVE WriteProtocol'
  BY <1>2 DEF AcquireSkips, DropLocals
<1>3. ASSUME NEW i \in Instances, AcquireSends(i) PROVE WriteProtocol'
  BY <1>3 DEF AcquireSends, Send
<1>4. ASSUME NEW i \in Instances, AcquireGranted(i) PROVE WriteProtocol'
  BY <1>4 DEF AcquireGranted, Answered
<1>5. ASSUME NEW i \in Instances, AcquireConflict(i) PROVE WriteProtocol'
  BY <1>5 DEF AcquireConflict, AcquireRound, DropLocals, Answered
<1>6. ASSUME NEW i \in Instances, AcquireFails(i) PROVE WriteProtocol'
  BY <1>6, AbandonFacts DEF AcquireFails, DropLocals
<1>7. ASSUME NEW i \in Instances, RenewStarts(i) PROVE WriteProtocol'
  BY <1>7 DEF RenewStarts
<1>8. ASSUME NEW i \in Instances, RenewReads(i) PROVE WriteProtocol'
  BY <1>8 DEF RenewReads
<1>9. ASSUME NEW i \in Instances, RenewSends(i) PROVE WriteProtocol'
  BY <1>9 DEF RenewSends, StillHeld, Send
<1>10. ASSUME NEW i \in Instances, RenewGranted(i) PROVE WriteProtocol'
  BY <1>10 DEF RenewGranted, Answered
<1>11. ASSUME NEW i \in Instances, RenewFails(i) PROVE WriteProtocol'
  BY <1>11, AbandonFacts DEF RenewFails, DropLocals
<1>12. ASSUME NEW i \in Instances, JobEnds(i) PROVE WriteProtocol'
  BY <1>12, AbandonFacts DEF JobEnds, StartRelease
<1>13. ASSUME NEW i \in Instances, JobUnwound(i) PROVE WriteProtocol'
  BY <1>13 DEF JobUnwound, StartRelease
<1>14. ASSUME NEW i \in Instances, ReleaseSends(i) PROVE WriteProtocol'
  BY <1>14 DEF ReleaseSends, Send
<1>15. ASSUME NEW i \in Instances, ReleaseEnds(i) PROVE WriteProtocol'
  BY <1>15, AbandonFacts DEF ReleaseEnds, DropLocals
<1>16. ASSUME NEW i \in Instances, ServerAnswers(i) PROVE WriteProtocol'
  <2>1. req[i] \in Request
    BY <1>16 DEF ServerAnswers
  <2>2. RecoveryBound'
    BY <1>16, <2>1, ApplyFacts DEF ServerAnswers, Succeeds
  <2>3. WritesSound'
    BY <1>16, <2>1, ApplyFacts DEF ServerAnswers
  <2>4. TimersPending' /\ AcquireLocals' /\ RequestsOwned'
    BY <1>16, <2>1 DEF ServerAnswers
  <2> QED BY <2>2, <2>3, <2>4
<1>17. ASSUME NEW q \in abandoned, ServerAppliesLate(q) PROVE WriteProtocol'
  <2>1. q \in Request /\ Sound(q)
    OBVIOUS
  <2>2. RecoveryBound'
    BY <1>17, <2>1, ApplyFacts DEF ServerAppliesLate, Succeeds
  <2>3. WritesSound'
    BY <1>17, <2>1, ApplyFacts DEF ServerAppliesLate
  <2>4. TimersPending' /\ AcquireLocals' /\ RequestsOwned'
    BY <1>17 DEF ServerAppliesLate
  <2> QED BY <2>2, <2>3, <2>4
<1>18. ASSUME NEW o \in Owners, Crash(o) PROVE WriteProtocol'
  BY <1>18, AbandonFacts DEF Crash, DropLocals
<1>19. CASE Tick
  BY <1>19 DEF Tick
<1>20. CASE UNCHANGED vars
  BY <1>20 DEF vars
<1> QED
  BY <1>1, <1>2, <1>3, <1>4, <1>5, <1>6, <1>7, <1>8, <1>9, <1>10, <1>11, <1>12,
     <1>13, <1>14, <1>15, <1>16, <1>17, <1>18, <1>19, <1>20 DEF Next, Step

\* A lease that its holder's timer does not outlive can only be touched by the
\* holder itself.
LEMMA HoldersStep ==
    ASSUME OneInstancePerProcess, SafeTiming, TypeOK, WriteProtocol, HoldersSafe, [Next]_vars
    PROVE  HoldersSafe'
<1> USE SettingsAssumption, OwnersAssumption, NoneAssumption
<1> USE DEF TypeOK, WriteProtocol, TimersPending, AcquireLocals, RequestsOwned,
            OwnRequest, WritesSound, Sound, RecoveryBound, HoldersSafe, Holder, Granted,
            Running, LeaseOutlivesTimer, Entry, Request
<1>1. ASSUME NEW i \in Instances, RunLocked(i) PROVE HoldersSafe'
  BY <1>1 DEF RunLocked, AcquireRound
<1>2. ASSUME NEW i \in Instances, AcquireSkips(i) PROVE HoldersSafe'
  BY <1>2 DEF AcquireSkips, DropLocals
<1>3. ASSUME NEW i \in Instances, AcquireSends(i) PROVE HoldersSafe'
  BY <1>3 DEF AcquireSends, Send
<1>4. ASSUME NEW i \in Instances, AcquireGranted(i) PROVE HoldersSafe'
  BY <1>4 DEF AcquireGranted, Answered, SafeTiming
<1>5. ASSUME NEW i \in Instances, AcquireConflict(i) PROVE HoldersSafe'
  BY <1>5 DEF AcquireConflict, AcquireRound, DropLocals, Answered
<1>6. ASSUME NEW i \in Instances, AcquireFails(i) PROVE HoldersSafe'
  BY <1>6, AbandonFacts DEF AcquireFails, DropLocals, OneInstancePerProcess
<1>7. ASSUME NEW i \in Instances, RenewStarts(i) PROVE HoldersSafe'
  BY <1>7 DEF RenewStarts
<1>8. ASSUME NEW i \in Instances, RenewReads(i) PROVE HoldersSafe'
  BY <1>8 DEF RenewReads
<1>9. ASSUME NEW i \in Instances, RenewSends(i) PROVE HoldersSafe'
  BY <1>9 DEF RenewSends, StillHeld, Send
<1>10. ASSUME NEW i \in Instances, RenewGranted(i) PROVE HoldersSafe'
  BY <1>10 DEF RenewGranted, Answered, SafeTiming
<1>11. ASSUME NEW i \in Instances, RenewFails(i) PROVE HoldersSafe'
  BY <1>11, AbandonFacts DEF RenewFails, DropLocals, OneInstancePerProcess
<1>12. ASSUME NEW i \in Instances, JobEnds(i) PROVE HoldersSafe'
  BY <1>12, AbandonFacts DEF JobEnds, StartRelease, OneInstancePerProcess
<1>13. ASSUME NEW i \in Instances, JobUnwound(i) PROVE HoldersSafe'
  BY <1>13 DEF JobUnwound, StartRelease
<1>14. ASSUME NEW i \in Instances, ReleaseSends(i) PROVE HoldersSafe'
  BY <1>14 DEF ReleaseSends, Send
<1>15. ASSUME NEW i \in Instances, ReleaseEnds(i) PROVE HoldersSafe'
  BY <1>15, AbandonFacts DEF ReleaseEnds, DropLocals, OneInstancePerProcess
<1>16. ASSUME NEW i \in Instances, ServerAnswers(i) PROVE HoldersSafe'
  <2> DEFINE q == req[i]
  <2>1. q \in Request /\ q # None
    BY <1>16 DEF ServerAnswers
  <2>2. \/ ~Succeeds(q) /\ kv' = kv
        \/ /\ Succeeds(q)
           /\ kv'.rev = kv.rev + 1 /\ kv'.owner = q.owner /\ kv'.exp = q.exp
           /\ kv'.live = (q.op # "delete")
    BY <1>16, <2>1, ApplyFacts DEF ServerAnswers
  <2>3. CASE ~Succeeds(q) /\ kv' = kv
    BY <1>16, <2>1, <2>3 DEF ServerAnswers
  <2>4. CASE Succeeds(q)
    <3>1. /\ kv'.rev = kv.rev + 1 /\ kv'.owner = OwnerOf[i] /\ kv'.exp = q.exp
          /\ kv'.live = (q.op # "delete")
      BY <2>1, <2>2, <2>4
    <3>2. ASSUME NEW j \in Instances, j # i, Holder(j)'
          PROVE  FALSE
      <4>1. Holder(j) /\ LeaseOutlivesTimer(j) /\ clock <= deadline[j]
        BY <1>16, <3>2 DEF ServerAnswers
      <4>2. q.op \in {"renew", "delete"} /\ kv.owner = q.owner
        BY <2>1, <2>4, <4>1 DEF Succeeds
      <4> QED BY <2>1, <3>2, <4>1, <4>2 DEF OneInstancePerProcess
    <3>3. ASSUME Holder(i)' PROVE LeaseOutlivesTimer(i)'
      <4>1. pc[i] \in {"acquireAwait", "renewAwait"} /\ q.op # "delete"
        BY <1>16, <2>1, <3>3 DEF ServerAnswers
      <4>2. kv'.live
        BY <3>1, <4>1, Zenon
      <4>3. deadline'[i] < kv'.exp /\ deadline'[i] + Lease <= kv'.exp + OpTimeout
        <5>1. deadline[i] + Lease <= q.exp + OpTimeout
          BY <2>1, <4>1
        <5>2. deadline' = deadline /\ deadline[i] \in Nat /\ q.exp \in Nat
          BY <1>16, <2>1 DEF ServerAnswers
        <5> HIDE DEF q
        <5> QED BY <3>1, <5>1, <5>2
      <4>4. \A r \in abandoned' : r.rev < kv'.rev
        BY <1>16, <3>1 DEF ServerAnswers
      <4> QED BY <1>16, <3>1, <4>1, <4>2, <4>4, <4>3 DEF ServerAnswers
    <3> QED BY <3>2, <3>3
  <2> QED BY <2>2, <2>3, <2>4
<1>17. ASSUME NEW q \in abandoned, ServerAppliesLate(q) PROVE HoldersSafe'
  BY <1>17, ApplyFacts DEF ServerAppliesLate, Succeeds
<1>18. ASSUME NEW o \in Owners, Crash(o) PROVE HoldersSafe'
  BY <1>18, AbandonFacts DEF Crash, DropLocals, OneInstancePerProcess
<1>19. CASE Tick
  BY <1>19 DEF Tick
<1>20. CASE UNCHANGED vars
  BY <1>20 DEF vars
<1> QED
  BY <1>1, <1>2, <1>3, <1>4, <1>5, <1>6, <1>7, <1>8, <1>9, <1>10, <1>11, <1>12,
     <1>13, <1>14, <1>15, <1>16, <1>17, <1>18, <1>19, <1>20 DEF Next, Step

LEMMA InitProtocol == Init => TypeOK /\ LeaseProtocol
BY OwnersAssumption, SettingsAssumption
   DEF Init, TypeOK, Entry, LeaseProtocol, WriteProtocol, TimersPending, AcquireLocals,
       RequestsOwned, WritesSound, RecoveryBound, HoldersSafe, Holder, Granted, Running

(* Whatever the settings and however many instances share a process: no     *)
(* lease on the server reaches further than one lease ahead, so a dead      *)
(* owner is waited for that long at most.                                   *)
THEOREM RecoveryIsBounded == Spec => []RecoveryBound
<1>1. Init => TypeOK /\ WriteProtocol
  BY InitProtocol DEF LeaseProtocol
<1>2. TypeOK /\ WriteProtocol /\ [Next]_vars => (TypeOK /\ WriteProtocol)'
  BY TypeStep, WriteProtocolStep
<1>3. TypeOK /\ WriteProtocol => RecoveryBound
  BY DEF WriteProtocol
<1> QED
  BY <1>1, <1>2, <1>3, PTL DEF Spec

(* Whatever the settings: an unexpired lease changes hands only by its      *)
(* owner's doing, late writes and conflicts included.                       *)
THEOREM LeaseIsNotStolen == Spec => LeaseNotStolen
<1>1. Init => TypeOK /\ WriteProtocol
  BY InitProtocol DEF LeaseProtocol
<1>2. TypeOK /\ WriteProtocol /\ [Next]_vars => (TypeOK /\ WriteProtocol)'
  BY TypeStep, WriteProtocolStep
<1>3. ASSUME TypeOK, WriteProtocol, [Next]_vars, kv.live, clock < kv.exp, kv' # kv
      PROVE  kv'.owner = kv.owner
  <2>1. PICK q \in Request : Sound(q) /\ Apply(q)
    <3>1. ASSUME NEW i \in Instances, ServerAnswers(i)
          PROVE  req[i] \in Request /\ Sound(req[i]) /\ Apply(req[i])
      BY <1>3, <3>1 DEF ServerAnswers, TypeOK, WriteProtocol, WritesSound
    <3>2. ASSUME NEW q \in abandoned, ServerAppliesLate(q)
          PROVE  q \in Request /\ Sound(q) /\ Apply(q)
      BY <1>3, <3>2 DEF ServerAppliesLate, TypeOK, WriteProtocol, WritesSound
    <3>3. \/ \E i \in Instances : ServerAnswers(i)
          \/ \E q \in abandoned : ServerAppliesLate(q)
      BY <1>3 DEF Next, Step, vars, RunLocked, AcquireSkips, AcquireSends, AcquireGranted,
         AcquireConflict, AcquireFails, RenewStarts, RenewReads, RenewSends, RenewGranted,
         RenewFails, JobEnds, JobUnwound, StartRelease, ReleaseSends, ReleaseEnds, Crash, Tick
    <3> QED BY <3>1, <3>2, <3>3
  <2>2. Succeeds(q) /\ kv'.owner = q.owner
    BY <1>3, <2>1, ApplyFacts
  <2> QED BY <1>3, <2>1, <2>2 DEF Sound, Succeeds, TypeOK, Entry, Request
<1>4. TypeOK /\ WriteProtocol /\ [Next]_vars
        => [kv.live /\ clock < kv.exp /\ kv' # kv => kv'.owner = kv.owner]_vars
  BY <1>3
<1> QED
  BY <1>1, <1>2, <1>4, PTL DEF Spec, LeaseNotStolen

(* With one instance per process and settings in which an acquisition and a *)
(* renewal that both take their whole timeout still fit in the lease, the   *)
(* inductive invariant of the protocol holds in every reachable state.      *)
THEOREM ProtocolInvariant ==
    ASSUME OneInstancePerProcess, SafeTiming
    PROVE  Spec => [](TypeOK /\ LeaseProtocol)
<1>1. TypeOK /\ LeaseProtocol /\ [Next]_vars => (TypeOK /\ LeaseProtocol)'
  BY TypeStep, WriteProtocolStep, HoldersStep DEF LeaseProtocol
<1> QED
  BY <1>1, InitProtocol, PTL DEF Spec

(* Under the same conditions the job body of run_locked only ever runs      *)
(* under an unexpired lease of its own process.                             *)
THEOREM RunningIsCovered ==
    ASSUME OneInstancePerProcess, SafeTiming
    PROVE  Spec => []RunningHoldsLiveLease
<1>1. TypeOK /\ LeaseProtocol => RunningHoldsLiveLease
  BY DEF TypeOK, Entry, LeaseProtocol, WriteProtocol, TimersPending, HoldersSafe, Holder,
         LeaseOutlivesTimer, RunningHoldsLiveLease, Running
<1> QED
  BY <1>1, ProtocolInvariant, PTL

(* Under the same conditions no two processes ever run the job at once.     *)
THEOREM JobsExclude ==
    ASSUME OneInstancePerProcess, SafeTiming
    PROVE  Spec => []MutualExclusion
<1>1. RunningHoldsLiveLease => MutualExclusion
  BY DEF RunningHoldsLiveLease, MutualExclusion, OneInstancePerProcess
<1> QED
  BY <1>1, RunningIsCovered, PTL

(* The bodies that run change only when a grant is taken up, and when a body *)
(* ends, loses its lease or dies.                                            *)
LEMMA LockStep ==
    ASSUME OneInstancePerProcess, TypeOK, MutualExclusion, MutualExclusion', [Next]_vars
    PROVE  [Lock!Next]_{i \in Instances : Running(i)}
<1> DEFINE In == {i \in Instances : Running(i)}
<1>1. \A i, j \in In : i = j
  BY DEF MutualExclusion
<1>2. \A i, j \in In' : i = j
  BY DEF MutualExclusion
<1>3. In' \subseteq In \/ In \subseteq In'
  <2>1. ASSUME NEW o \in Owners, Crash(o) PROVE In' \subseteq In
    BY <2>1 DEF Crash, Running
  <2>2. ASSUME NEW i \in Instances, Step(i) PROVE In' \subseteq In \/ In \subseteq In'
    BY <2>2 DEF Step, RunLocked, AcquireRound, AcquireSkips, AcquireSends, AcquireGranted,
       AcquireConflict, AcquireFails, RenewStarts, RenewReads, RenewSends, RenewGranted,
       RenewFails, JobEnds, JobUnwound, StartRelease, ReleaseSends, ReleaseEnds,
       ServerAnswers, TypeOK, Running
  <2>3. CASE pc' = pc
    BY <2>3 DEF Running
  <2> QED BY <2>1, <2>2, <2>3 DEF Next, ServerAppliesLate, Tick, vars
<1>4. CASE In' = In
  BY <1>4
<1>5. CASE In' # In
  <2>1. In = {} \/ In' = {}
    BY <1>1, <1>2, <1>3, <1>5
  <2>2. CASE In = {}
    <3>1. PICK i \in Instances : In' = {i}
      BY <1>2, <1>5, <2>2
    <3> QED BY <2>2, <3>1 DEF Lock!Next, Lock!Enter
  <2>3. CASE In' = {}
    <3>1. PICK i \in Instances : In = {i}
      BY <1>1, <1>5, <2>3
    <3> QED BY <2>3, <3>1 DEF Lock!Next, Lock!Leave
  <2> QED BY <2>1, <2>2, <2>3
<1> QED BY <1>4, <1>5

(* Under the same conditions run_locked implements the abstract lock JobLock. *)
THEOREM LockImplemented ==
    ASSUME OneInstancePerProcess, SafeTiming
    PROVE  Spec => ImplementsLock
<1>1. Init => Lock!Init
  BY DEF Init, Lock!Init, Running
<1>2. TypeOK /\ MutualExclusion /\ MutualExclusion' /\ [Next]_vars
        => [Lock!Next]_{i \in Instances : Running(i)}
  BY LockStep
<1> QED
  BY <1>1, <1>2, JobsExclude, TypeCorrect, PTL DEF Spec, ImplementsLock, Lock!Spec
=============================================================================
