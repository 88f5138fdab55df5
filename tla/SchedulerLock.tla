--------------------------- MODULE SchedulerLock ---------------------------
(***************************************************************************)
(* The distributed lease that protects every scheduled job                 *)
(* (app/scheduler_lock.py, SchedulerLockManager.run_locked).               *)
(*                                                                         *)
(* An instance is one run_locked coroutine for ONE job id.  Instances of   *)
(* the same process share the owner id that SchedulerLockManager.__init__  *)
(* draws.  The lease lives in one NATS key-value entry; get, create,       *)
(* update and delete are round trips, update and delete are compare-and-   *)
(* set on the revision, and a request whose caller has given up may still  *)
(* be applied by the server later.                                         *)
(*                                                                         *)
(* Time is the wall clock the lease is stamped with.  asyncio timers are   *)
(* taken to fire on time: the clock does not pass a pending deadline.      *)
(***************************************************************************)
EXTENDS Integers, FiniteSets

CONSTANTS
    Instances,      \* run_locked coroutines of one job, over all processes
    Owners,         \* owner ids, one per process
    OwnerOf,        \* [Instances -> Owners]
    Lease,          \* scheduler_lock_settings.lease_seconds
    Renew,          \* scheduler_lock_settings.renew_interval
    OpTimeout,      \* scheduler_lock_settings.operation_timeout
    MaxAttempts,    \* the compare-and-set loop of acquire (8 in the code)
    None,           \* no request in flight, no entry read
    MaxClock,       \* bound: the clock stops here
    MaxRevision,    \* bound: the server applies no write past this revision
    MaxAbandoned    \* bound: abandoned requests that can still reach the server

ASSUME OwnersAssumption == OwnerOf \in [Instances -> Owners]

(* The field constraints and validate_renew_interval of the settings class. *)
ASSUME SettingsAssumption ==
    /\ Lease \in Nat \ {0} /\ Renew \in Nat \ {0} /\ OpTimeout \in Nat \ {0}
    /\ MaxAttempts \in Nat \ {0}
    /\ Renew + OpTimeout < Lease

ASSUME BoundsAssumption ==
    MaxClock \in Nat /\ MaxRevision \in Nat /\ MaxAbandoned \in Nat

VARIABLES
    clock,      \* wall clock
    kv,         \* the entry of the job's key; ~live: absent or deleted
    pc,         \* where each run_locked coroutine is
    now,        \* the clock sample taken by acquire
    seen,       \* the entry the coroutine last read
    deadline,   \* when its wait_for or sleep ends
    attempts,   \* rounds of the compare-and-set loop so far
    req,        \* the write a coroutine awaits the answer of
    reply,      \* the answer, once the server has it
    abandoned   \* writes in flight that nobody waits for any more

vars == <<clock, kv, pc, now, seen, deadline, attempts, req, reply, abandoned>>

-----------------------------------------------------------------------------
(* State space *)

Working    == {"sleep", "renewGet", "renewSend", "renewAwait"}
NetworkOps == {"acquireGet", "acquireAwait", "releaseGet", "releaseAwait"}
PCs        == {"idle", "cancelling", "dead"} \cup Working \cup NetworkOps

\* The job body runs from the moment acquire returns until it ends or the
\* lease is reported lost.
Running(i) == pc[i] \in Working

Entry   == [live : BOOLEAN, rev : Nat, owner : Owners, exp : Nat]
Request == [op : {"create", "takeover", "renew", "delete"},
            rev : Nat, owner : Owners, exp : Nat]

ASSUME NoneAssumption == None \notin Request /\ None \notin Entry

TypeOK ==
    /\ clock \in Nat
    /\ kv \in Entry
    /\ pc \in [Instances -> PCs]
    /\ now \in [Instances -> Nat]
    /\ seen \in [Instances -> Entry \cup {None}]
    /\ \A i \in Instances : pc[i] = "renewSend" => seen[i] \in Entry
    /\ deadline \in [Instances -> Nat]
    /\ attempts \in [Instances -> Nat]
    /\ req \in [Instances -> Request \cup {None}]
    /\ reply \in [Instances -> {"none", "ok", "wrongRevision"}]
    /\ abandoned \subseteq Request

Init ==
    /\ clock = 0
    /\ \E o \in Owners : kv = [live |-> FALSE, rev |-> 0, owner |-> o, exp |-> 0]
    /\ seen = [i \in Instances |-> None]
    /\ pc = [i \in Instances |-> "idle"]
    /\ now = [i \in Instances |-> 0]
    /\ deadline = [i \in Instances |-> 0]
    /\ attempts = [i \in Instances |-> 0]
    /\ req = [i \in Instances |-> None]
    /\ reply = [i \in Instances |-> "none"]
    /\ abandoned = {}

-----------------------------------------------------------------------------
(* Requests *)

Send(i, op, rev, exp) ==
    /\ req' = [req EXCEPT ![i] = [op |-> op, rev |-> rev,
                                  owner |-> OwnerOf[i], exp |-> exp]]
    /\ reply' = [reply EXCEPT ![i] = "none"]

\* The coroutines in S stop waiting: each write they sent is lost or stays in
\* flight.
Abandon(S) ==
    /\ \E lost \in SUBSET S :
          LET kept == {req[i] : i \in S \ lost} \ {None}
          IN /\ kept = {} \/ Cardinality(abandoned \cup kept) <= MaxAbandoned
             /\ abandoned' = abandoned \cup kept
    /\ req' = [i \in Instances |-> IF i \in S THEN None ELSE req[i]]
    /\ reply' = [i \in Instances |-> IF i \in S THEN "none" ELSE reply[i]]

\* The coroutines in S are back in idle, or dead: their locals are gone.
DropLocals(S) ==
    /\ now' = [i \in Instances |-> IF i \in S THEN 0 ELSE now[i]]
    /\ seen' = [i \in Instances |-> IF i \in S THEN None ELSE seen[i]]
    /\ deadline' = [i \in Instances |-> IF i \in S THEN 0 ELSE deadline[i]]
    /\ attempts' = [i \in Instances |-> IF i \in S THEN 0 ELSE attempts[i]]

Answered(i, answer) == reply[i] = answer

\* create succeeds on an absent or deleted key, update and delete on the
\* revision that was read.
Succeeds(q) == IF q.op = "create" THEN ~kv.live ELSE kv.live /\ kv.rev = q.rev

Apply(q) ==
    IF Succeeds(q)
    THEN /\ kv.rev < MaxRevision
         /\ kv' = [live |-> q.op # "delete", rev |-> kv.rev + 1,
                   owner |-> q.owner, exp |-> q.exp]
    ELSE kv' = kv

ServerAnswers(i) ==
    /\ req[i] # None
    /\ Apply(req[i])
    /\ reply' = [reply EXCEPT ![i] = IF Succeeds(req[i]) THEN "ok" ELSE "wrongRevision"]
    /\ req' = [req EXCEPT ![i] = None]
    /\ UNCHANGED <<clock, pc, now, seen, deadline, attempts, abandoned>>

ServerAppliesLate(q) ==
    /\ q \in abandoned
    /\ Apply(q)
    /\ abandoned' = abandoned \ {q}
    /\ UNCHANGED <<clock, pc, now, seen, deadline, attempts, req, reply>>

-----------------------------------------------------------------------------
(* acquire *)

AcquireRound(i, n) ==
    /\ pc' = [pc EXCEPT ![i] = "acquireGet"]
    /\ now' = [now EXCEPT ![i] = clock]
    /\ attempts' = [attempts EXCEPT ![i] = n]

\* Mutant of RunLocked: the timeout is subtracted.
RunLocked_DeadlineBehind(i) ==
    /\ pc[i] = "idle"
    /\ AcquireRound(i, 1)
    /\ deadline' = [deadline EXCEPT ![i] = clock - OpTimeout]
    /\ UNCHANGED <<clock, kv, seen, req, reply, abandoned>>

RunLocked(i) ==
    /\ pc[i] = "idle"
    /\ AcquireRound(i, 1)
    /\ deadline' = [deadline EXCEPT ![i] = clock + OpTimeout]
    /\ UNCHANGED <<clock, kv, seen, req, reply, abandoned>>

\* An unexpired lease, whoever owns it: the job is skipped.
AcquireSkips(i) ==
    /\ pc[i] = "acquireGet"
    /\ kv.live /\ kv.exp > now[i]
    /\ pc' = [pc EXCEPT ![i] = "idle"]
    /\ DropLocals({i})
    /\ UNCHANGED <<clock, kv, req, reply, abandoned>>

\* Mutant of AcquireSends: an unexpired lease is taken over.
AcquireSends_NoExpiryCheck(i) ==
    /\ pc[i] = "acquireGet"
    /\ pc' = [pc EXCEPT ![i] = "acquireAwait"]
    /\ Send(i, IF kv.live THEN "takeover" ELSE "create", kv.rev, now[i] + Lease)
    /\ now' = [now EXCEPT ![i] = 0]
    /\ UNCHANGED <<clock, kv, seen, deadline, attempts, abandoned>>

AcquireSends(i) ==
    /\ pc[i] = "acquireGet"
    /\ ~kv.live \/ kv.exp <= now[i]
    /\ pc' = [pc EXCEPT ![i] = "acquireAwait"]
    /\ Send(i, IF kv.live THEN "takeover" ELSE "create", kv.rev, now[i] + Lease)
    /\ now' = [now EXCEPT ![i] = 0]
    /\ UNCHANGED <<clock, kv, seen, deadline, attempts, abandoned>>

\* Mutant of AcquireGranted: the first sleep lasts as long as the lease.
AcquireGranted_LateRenewal(i) ==
    /\ pc[i] = "acquireAwait" /\ Answered(i, "ok")
    /\ pc' = [pc EXCEPT ![i] = "sleep"]
    /\ deadline' = [deadline EXCEPT ![i] = clock + Lease]
    /\ attempts' = [attempts EXCEPT ![i] = 0]
    /\ reply' = [reply EXCEPT ![i] = "none"]
    /\ UNCHANGED <<clock, kv, now, seen, req, abandoned>>

\* The lease is granted: the job and _renew_until_done start.
AcquireGranted(i) ==
    /\ pc[i] = "acquireAwait" /\ Answered(i, "ok")
    /\ pc' = [pc EXCEPT ![i] = "sleep"]
    /\ deadline' = [deadline EXCEPT ![i] = clock + Renew]
    /\ attempts' = [attempts EXCEPT ![i] = 0]
    /\ reply' = [reply EXCEPT ![i] = "none"]
    /\ UNCHANGED <<clock, kv, now, seen, req, abandoned>>

AcquireConflict(i) ==
    /\ pc[i] = "acquireAwait" /\ Answered(i, "wrongRevision")
    /\ IF attempts[i] < MaxAttempts
       THEN AcquireRound(i, attempts[i] + 1) /\ UNCHANGED <<seen, deadline>>
       ELSE pc' = [pc EXCEPT ![i] = "idle"] /\ DropLocals({i})
    /\ reply' = [reply EXCEPT ![i] = "none"]
    /\ UNCHANGED <<clock, kv, req, abandoned>>

\* Timeout or error: run_locked fails closed and skips the job.
AcquireFails(i) ==
    /\ pc[i] \in {"acquireGet", "acquireAwait"}
    /\ pc' = [pc EXCEPT ![i] = "idle"]
    /\ Abandon({i}) /\ DropLocals({i})
    /\ UNCHANGED <<clock, kv>>

-----------------------------------------------------------------------------
(* _renew_until_done and renew *)

RenewStarts(i) ==
    /\ pc[i] = "sleep" /\ clock = deadline[i]
    /\ pc' = [pc EXCEPT ![i] = "renewGet"]
    /\ deadline' = [deadline EXCEPT ![i] = clock + OpTimeout]
    /\ UNCHANGED <<clock, kv, now, seen, attempts, req, reply, abandoned>>

RenewReads(i) ==
    /\ pc[i] = "renewGet"
    /\ pc' = [pc EXCEPT ![i] = "renewSend"]
    /\ seen' = [seen EXCEPT ![i] = kv]
    /\ UNCHANGED <<clock, kv, now, deadline, attempts, req, reply, abandoned>>

\* The owner and expiry test of renew, on the entry read earlier and the clock now.
StillHeld(i) == seen[i].live /\ seen[i].owner = OwnerOf[i] /\ seen[i].exp > clock

\* Mutant of RenewSends: the lease is extended instead of restarted.
RenewSends_Extends(i) ==
    /\ pc[i] = "renewSend" /\ StillHeld(i)
    /\ pc' = [pc EXCEPT ![i] = "renewAwait"]
    /\ Send(i, "renew", seen[i].rev, seen[i].exp + Lease)
    /\ seen' = [seen EXCEPT ![i] = None]
    /\ UNCHANGED <<clock, kv, now, deadline, attempts, abandoned>>

RenewSends(i) ==
    /\ pc[i] = "renewSend" /\ StillHeld(i)
    /\ pc' = [pc EXCEPT ![i] = "renewAwait"]
    /\ Send(i, "renew", seen[i].rev, clock + Lease)
    /\ seen' = [seen EXCEPT ![i] = None]
    /\ UNCHANGED <<clock, kv, now, deadline, attempts, abandoned>>

RenewGranted(i) ==
    /\ pc[i] = "renewAwait" /\ Answered(i, "ok")
    /\ pc' = [pc EXCEPT ![i] = "sleep"]
    /\ deadline' = [deadline EXCEPT ![i] = clock + Renew]
    /\ reply' = [reply EXCEPT ![i] = "none"]
    /\ UNCHANGED <<clock, kv, now, seen, attempts, req, abandoned>>

\* Refused, failed or timed out: lost is set and run_locked cancels the job.
RenewFails(i) ==
    /\ pc[i] \in {"renewGet", "renewSend", "renewAwait"}
    /\ pc' = [pc EXCEPT ![i] = "cancelling"]
    /\ Abandon({i}) /\ DropLocals({i})
    /\ UNCHANGED <<clock, kv>>

-----------------------------------------------------------------------------
(* The end of the job, and release *)

StartRelease(i) ==
    /\ pc' = [pc EXCEPT ![i] = "releaseGet"]
    /\ deadline' = [deadline EXCEPT ![i] = clock + OpTimeout]
    /\ seen' = [seen EXCEPT ![i] = None]
    /\ UNCHANGED <<clock, kv, now, attempts>>

\* The job returns or raises; the renew task is cancelled wherever it is.
JobEnds(i) == Running(i) /\ StartRelease(i) /\ Abandon({i})

\* The cancelled job has unwound; how long that takes is the job's affair.
JobUnwound(i) ==
    /\ pc[i] = "cancelling"
    /\ StartRelease(i)
    /\ UNCHANGED <<req, reply, abandoned>>

\* Mutant of ReleaseSends: release deletes whatever lease it finds.
ReleaseSends_NoOwnerCheck(i) ==
    /\ pc[i] = "releaseGet"
    /\ kv.live
    /\ pc' = [pc EXCEPT ![i] = "releaseAwait"]
    /\ Send(i, "delete", kv.rev, 0)
    /\ UNCHANGED <<clock, kv, now, seen, deadline, attempts, abandoned>>

ReleaseSends(i) ==
    /\ pc[i] = "releaseGet"
    /\ kv.live /\ kv.owner = OwnerOf[i]
    /\ pc' = [pc EXCEPT ![i] = "releaseAwait"]
    /\ Send(i, "delete", kv.rev, 0)
    /\ UNCHANGED <<clock, kv, now, seen, deadline, attempts, abandoned>>

\* Nothing of ours to delete, the answer (either one), an error, the timeout.
ReleaseEnds(i) ==
    /\ pc[i] \in {"releaseGet", "releaseAwait"}
    /\ pc' = [pc EXCEPT ![i] = "idle"]
    /\ Abandon({i}) /\ DropLocals({i})
    /\ UNCHANGED <<clock, kv>>

-----------------------------------------------------------------------------
(* Environment *)

\* A process dies with all its coroutines; a restart draws a new owner id.
Crash(o) ==
    LET dying == {i \in Instances : OwnerOf[i] = o}
    IN /\ \E i \in dying : pc[i] # "dead"
       /\ pc' = [i \in Instances |-> IF i \in dying THEN "dead" ELSE pc[i]]
       /\ Abandon(dying) /\ DropLocals(dying)
       /\ UNCHANGED <<clock, kv>>

Tick ==
    /\ clock < MaxClock
    /\ \A i \in Instances : pc[i] \in Working \cup NetworkOps => clock < deadline[i]
    /\ clock' = clock + 1
    /\ UNCHANGED <<kv, pc, now, seen, deadline, attempts, req, reply, abandoned>>

Step(i) ==
    \/ RunLocked(i) \/ AcquireSkips(i) \/ AcquireSends(i) \/ AcquireGranted(i)
    \/ AcquireConflict(i) \/ AcquireFails(i)
    \/ RenewStarts(i) \/ RenewReads(i) \/ RenewSends(i) \/ RenewGranted(i) \/ RenewFails(i)
    \/ JobEnds(i) \/ JobUnwound(i) \/ ReleaseSends(i) \/ ReleaseEnds(i)
    \/ ServerAnswers(i)

Next ==
    \/ \E i \in Instances : Step(i)
    \/ \E q \in abandoned : ServerAppliesLate(q)
    \/ \E o \in Owners : Crash(o)
    \/ Tick

Spec == Init /\ [][Next]_vars

-----------------------------------------------------------------------------
(* Properties *)

\* The timing the design relies on: an acquisition may use up a whole
\* operation timeout before the first renewal is even scheduled, and that
\* renewal may use up another.  Stronger than SettingsAssumption.
SafeTiming == Renew + 2 * OpTimeout < Lease

\* Every instance is in a process of its own, as when the job is registered
\* with max_instances = 1.
OneInstancePerProcess == \A i, j \in Instances : OwnerOf[i] = OwnerOf[j] => i = j

(* run_locked never runs the body of one job in two processes at a time,     *)
(* whatever requests are delayed, lost or applied after their caller timed   *)
(* out, and whichever process dies.                                          *)
MutualExclusion == \A i, j \in Instances : Running(i) /\ Running(j) => i = j

(* While run_locked runs the job body, the entry on the server is a lease of *)
(* that process that has not expired: renewal happens before expiry.         *)
RunningHoldsLiveLease ==
    \A i \in Instances :
        Running(i) => kv.live /\ kv.owner = OwnerOf[i] /\ clock < kv.exp

(* Nobody waits for a dead owner longer than one lease: neither acquire nor  *)
(* renew, even when applied late, stamps an expiry further ahead.            *)
RecoveryBound == kv.live => kv.exp <= clock + Lease

(* A lease that has not expired is replaced or deleted only by its owner:    *)
(* acquire, renew and release respect it through their revision checks even  *)
(* when the write reaches the server long after the read it was based on.    *)
LeaseNotStolen ==
    [][kv.live /\ clock < kv.exp /\ kv' # kv => kv'.owner = kv.owner]_vars

\* The coroutines that run the job, as the abstract lock sees them.
Lock == INSTANCE JobLock WITH inside <- {i \in Instances : Running(i)}

(* run_locked implements the abstract lock: no step, of the coroutines, the  *)
(* server, a crash or the clock, lets a body begin while another runs, or    *)
(* hands the job from one process to the next without a pause in between.    *)
ImplementsLock == Lock!Spec

-----------------------------------------------------------------------------
(* Why the lease is safe *)

\* A coroutine with a pending timer has not missed it.
TimersPending ==
    \A i \in Instances : pc[i] \in Working \cup NetworkOps => clock <= deadline[i]

\* Each acquire or renew stamps an expiry that covers its own timeout.
AcquireLocals ==
    \A i \in Instances :
        /\ pc[i] \in {"acquireGet", "acquireAwait", "renewGet", "renewSend", "renewAwait"}
              => deadline[i] <= clock + OpTimeout
        /\ pc[i] = "acquireGet" => now[i] <= clock /\ deadline[i] <= now[i] + OpTimeout

\* A write in flight belongs to the coroutine that awaits it.
OwnRequest(i) ==
    /\ req[i].owner = OwnerOf[i]
    /\ \/ pc[i] = "acquireAwait" /\ req[i].op \in {"create", "takeover"}
       \/ pc[i] = "renewAwait" /\ req[i].op = "renew"
       \/ pc[i] = "releaseAwait" /\ req[i].op = "delete"
    /\ req[i].op # "delete" => deadline[i] + Lease <= req[i].exp + OpTimeout

RequestsOwned ==
    \A i \in Instances :
        /\ req[i] # None => OwnRequest(i) /\ reply[i] = "none"
        /\ reply[i] # "none" => pc[i] \in {"acquireAwait", "renewAwait", "releaseAwait"}

\* What a write of revision q.rev may find when it reaches the server: a later
\* revision, or the entry it was decided on.
Sound(q) ==
    /\ q.rev <= kv.rev
    /\ q.op # "delete" => q.exp <= clock + Lease
    /\ kv.live /\ kv.rev = q.rev =>
          /\ q.op = "takeover" => kv.exp <= clock
          /\ q.op \in {"renew", "delete"} => kv.owner = q.owner

WritesSound ==
    /\ \A i \in Instances : req[i] # None => Sound(req[i])
    /\ \A q \in abandoned : Sound(q)
    /\ \A i \in Instances :
          seen[i] # None =>
             /\ seen[i].rev <= kv.rev
             /\ kv.live /\ kv.rev = seen[i].rev => kv.owner = seen[i].owner

\* The holder is the running job, or the one whose grant is on its way.
Granted(i) == pc[i] \in {"acquireAwait", "renewAwait"} /\ reply[i] = "ok"
Holder(i) == Running(i) \/ Granted(i)

\* The lease outlives the timer the holder is waiting on, and no write that a
\* former run of the holder left behind can still touch it.
LeaseOutlivesTimer(i) ==
    /\ kv.live /\ kv.owner = OwnerOf[i]
    /\ deadline[i] < kv.exp
    /\ pc[i] = "sleep" => deadline[i] + OpTimeout < kv.exp
    /\ Granted(i) => deadline[i] + Lease <= kv.exp + OpTimeout
    /\ \A q \in abandoned :
          q.op \in {"renew", "delete"} /\ q.owner = OwnerOf[i] => q.rev < kv.rev

HoldersSafe == \A i \in Instances : Holder(i) => LeaseOutlivesTimer(i)

\* Holds for any timing and any number of instances in a process.
WriteProtocol ==
    TimersPending /\ AcquireLocals /\ RequestsOwned /\ WritesSound /\ RecoveryBound

(* The inductive invariant behind MutualExclusion: every read-then-write of  *)
(* acquire, renew and release is either decided on the entry the server      *)
(* still has or doomed to a revision conflict, and the holder's lease always *)
(* expires after the timer that would take the job away from it.             *)
LeaseProtocol == WriteProtocol /\ HoldersSafe
=============================================================================
