--------------------------- MODULE UserLifecycle ---------------------------
(***************************************************************************)
(* The life of one user: the review jobs, the periodic reset, the admin's  *)
(* requests, the traffic recorder and the nodes that serve the user.       *)
(*                                                                         *)
(* An actor is a job (each runs in one place at a time, see SchedulerLock) *)
(* or a request of an admin.  It loads the user's row, changes the copy    *)
(* and commits: the flush writes the columns whose value differs from the  *)
(* loaded one, keyed by the id alone.  Only the traffic recorder and the   *)
(* status updates of the jobs are single SQL statements.  An actor then    *)
(* refreshes its copy and sends to the nodes what the copy says.           *)
(***************************************************************************)
EXTENDS Integers, Sequences

CONSTANTS
    Jobs,           \* the scheduled jobs that run
    Admins,         \* requests of admins that can be in progress
    Created,        \* rows that create_user may store
    Requests,       \* what admins ask for
    Payloads,       \* UserModify bodies an admin may send
    None,           \* NULL, or a field that a payload leaves out
    Overlap,        \* may actors work at the same time?
    CanFail,        \* may an actor stop half-way (an error, a crash)?
    MaxClock,       \* bound: time stops here
    MaxMetered,     \* bound: traffic
    MaxLimit,       \* bound: no plan is attached above this data limit
    MaxQueue        \* bound: updates on their way to the nodes

AllJobs == {"expire", "limit", "activate", "reset"}
AllRequests == {"disable", "enable", "resetUsage", "nextPlan", "modify"}
Actors  == Jobs \cup Admins

Statuses == {"active", "on_hold", "limited", "expired", "disabled"}

\* A next plan: its own, or its template's, values; duration 0 is unlimited.
\* Only a template can put the user on hold; it is taken to set no timeout.
\* A plan with neither a limit nor a template makes the request raise (Fails).
Plan == [limit : Nat, duration : Nat, hold : BOOLEAN, addRemaining : BOOLEAN]

\* The columns of users that decide its status; online tells whether traffic
\* was seen never, before the last edit, or since.
Row == [status : Statuses, expire : Int \cup {None}, limit : Int \cup {None}, used : Nat,
        duration : Nat \cup {None}, timeout : Nat \cup {None}, plan : Plan \cup {None},
        online : {"never", "before", "since"}]

Payload == [status : {None, "active", "on_hold", "disabled"}, expire : Nat \cup {None},
            limit : Nat \cup {None}, duration : Nat \cup {None}, timeout : Nat \cup {None},
            plan : Plan \cup {None}]

\* serialize_user: who gets inbounds on the nodes.
Serves(status) == status \in {"active", "on_hold"}

\* UserValidator.validate_status.
ValidPayload(p) == p.status = "on_hold" => p.duration \notin {None, 0} /\ p.expire \in {None, 0}

ASSUME NoneAssumption ==
    /\ None \notin Int /\ None \notin Plan /\ None \notin Row /\ None \notin Payload
    /\ None \notin Statuses

ASSUME InputsAssumption ==
    /\ Jobs \subseteq AllJobs /\ Requests \subseteq AllRequests /\ Jobs \cap Admins = {}
    /\ Created \subseteq Row
    /\ \A r \in Created : Serves(r.status) /\ (r.status = "on_hold" => r.duration # None)
    /\ Payloads \subseteq Payload
    /\ \A p \in Payloads : ValidPayload(p)
    /\ Overlap \in BOOLEAN /\ CanFail \in BOOLEAN
    /\ MaxClock \in Nat /\ MaxMetered \in Nat /\ MaxLimit \in Nat /\ MaxQueue \in Nat

VARIABLES
    clock,      \* time
    user,       \* the row
    logged,     \* sum of used_traffic_at_reset over the user's reset logs
    metered,    \* traffic the recorder has added
    nodes,      \* do the nodes serve the user?
    queue,      \* updates on their way to them
    pc,         \* where each actor is
    task,       \* what an admin's request does
    row,        \* the copy it works on
    body,       \* the payload of a modify request
    unsent      \* an actor stopped, and no update was sent since (history)

vars == <<clock, user, logged, metered, nodes, queue, pc, task, row, body, unsent>>

TypeOK ==
    /\ clock \in Nat
    /\ user \in Row
    /\ logged \in Nat /\ metered \in Nat
    /\ nodes \in BOOLEAN /\ queue \in Seq(BOOLEAN)
    /\ pc \in [Actors -> {"idle", "write", "review", "plan", "refresh", "sync"}]
    /\ task \in [Actors -> AllJobs \cup AllRequests \cup {None}]
    /\ row \in [Actors -> Row \cup {None}]
    /\ body \in [Actors -> Payload \cup {None}]
    /\ unsent \in BOOLEAN

Init ==
    /\ clock = 0
    /\ user \in Created
    /\ logged = 0 /\ metered = user.used
    /\ nodes = Serves(user.status) /\ queue = <<>>
    /\ pc = [a \in Actors |-> "idle"]
    /\ task = [a \in Actors |-> None]
    /\ row = [a \in Actors |-> None]
    /\ body = [a \in Actors |-> None]
    /\ unsent = FALSE

-----------------------------------------------------------------------------
(* What the row says *)

IsExpired(r) == r.expire # None /\ r.expire <= clock
IsLimited(r) == r.limit # None /\ r.limit > 0 /\ r.limit <= r.used
BecomeOnline(r) ==
    \/ r.online = "since"
    \/ r.online = "never" /\ r.timeout # None /\ r.timeout <= clock

\* _resolve_enabled_user_status.
ResolveEnabled(r) ==
    CASE IsExpired(r) -> "expired"
      [] ~IsExpired(r) /\ IsLimited(r) -> "limited"
      [] ~IsExpired(r) /\ ~IsLimited(r) /\ r.duration # None -> "on_hold"
      [] OTHER -> "active"

\* The flush: columns whose value was changed, over the row as stored now.
Changed(old, new, stored) == IF new = old THEN stored ELSE new
Flush(old, new, stored) ==
    [status   |-> Changed(old.status, new.status, stored.status),
     expire   |-> Changed(old.expire, new.expire, stored.expire),
     limit    |-> Changed(old.limit, new.limit, stored.limit),
     used     |-> Changed(old.used, new.used, stored.used),
     duration |-> Changed(old.duration, new.duration, stored.duration),
     timeout  |-> Changed(old.timeout, new.timeout, stored.timeout),
     plan     |-> Changed(old.plan, new.plan, stored.plan),
     online   |-> stored.online]

-----------------------------------------------------------------------------
(* What the handlers make of it *)

\* modify_user: the status, then the expiry, then the data limit decide.
ModifiedStatus(r, p) ==
    CASE p.status = None -> r.status
      [] p.status = "active" /\ r.status = "disabled" -> ResolveEnabled(r)
      [] OTHER -> p.status

\* Mutant of ExpiryStatus: taking the expiry away does not reactivate.
ExpiryStatus_KeepsExpired(status, p) ==
    CASE p.status = "on_hold" \/ p.expire \in {None, 0} -> status
      [] OTHER -> IF status \notin {"active", "expired"} THEN status
                  ELSE IF p.expire > clock THEN "active" ELSE "expired"

ExpiryStatus(status, p) ==
    CASE p.status = "on_hold" \/ p.expire = None -> status
      [] p.status # "on_hold" /\ p.expire = 0 -> IF status = "expired" THEN "active" ELSE status
      [] OTHER -> IF status \notin {"active", "expired"} THEN status
                  ELSE IF p.expire > clock THEN "active" ELSE "expired"

LimitStatus(status, r, p) ==
    CASE p.limit = None \/ status \in {"expired", "disabled"} -> status
      [] p.limit # None /\ status \notin {"expired", "disabled"} ->
            IF p.limit = 0 \/ r.used < p.limit
            THEN IF status = "on_hold" THEN status ELSE "active"
            ELSE "limited"

Given(value, stored) ==
    CASE value = None -> stored
      [] value = 0    -> None
      [] OTHER        -> value

\* Mutant of Modified: the duration of the hold is left out.
Modified_NoDuration(r, p) ==
    [r EXCEPT !.status   = LimitStatus(ExpiryStatus(ModifiedStatus(r, p), p), r, p),
              !.expire   = IF p.status = "on_hold" THEN None ELSE Given(p.expire, @),
              !.limit    = Given(p.limit, @),
              !.timeout  = Given(p.timeout, @),
              !.plan     = p.plan]

Modified(r, p) ==
    [r EXCEPT !.status   = LimitStatus(ExpiryStatus(ModifiedStatus(r, p), p), r, p),
              !.expire   = IF p.status = "on_hold" THEN None ELSE Given(p.expire, @),
              !.limit    = Given(p.limit, @),
              !.duration = IF p.duration = None THEN @ ELSE p.duration,
              !.timeout  = Given(p.timeout, @),
              !.plan     = p.plan]

Remaining(r) == (IF r.limit = None THEN 0 ELSE r.limit) - r.used

\* Mutant of Reset: only the allowance is taken off.
Reset_Deducts(r) == [r EXCEPT !.used = -Remaining(r), !.plan = None,
                              !.status = IF @ = "limited" THEN "active" ELSE @]

\* reset_user_data_usage.
Reset(r) == [r EXCEPT !.used = 0, !.plan = None,
                      !.status = IF @ = "limited" THEN "active" ELSE @]

\* reset_user_by_next.
NextPlanned(r) ==
    [r EXCEPT !.limit    = r.plan.limit + (IF r.plan.addRemaining THEN Remaining(r) ELSE 0),
              !.expire   = IF r.plan.hold \/ r.plan.duration = 0 THEN None
                           ELSE clock + r.plan.duration,
              !.duration = IF r.plan.hold THEN r.plan.duration ELSE @,
              !.timeout  = IF r.plan.hold THEN None ELSE @,
              !.used     = 0,
              !.plan     = None,
              !.status   = "active"]

\* _predict_next_plan_budget_payload: what the admin is charged for.
Predicted(r) ==
    [status |-> IF r.plan.hold THEN "on_hold" ELSE "active",
     limit  |-> r.plan.limit + (IF r.plan.addRemaining /\ Remaining(r) > 0
                                THEN Remaining(r) ELSE 0)]

\* start_users_expire; _safe_on_hold_expire_duration takes no duration of 0.
Activated(r) == [r EXCEPT !.expire = IF r.duration \in {None, 0} THEN None ELSE clock + r.duration,
                          !.duration = None, !.timeout = None, !.status = "active"]

-----------------------------------------------------------------------------
(* Requests and jobs load the row *)

Loads(a, what) ==
    /\ pc[a] = "idle"
    /\ Overlap \/ \A b \in Actors : pc[b] = "idle"
    /\ pc' = [pc EXCEPT ![a] = "write"]
    /\ task' = [task EXCEPT ![a] = what]
    /\ row' = [row EXCEPT ![a] = user]
    /\ UNCHANGED <<clock, user, logged, metered, nodes, queue, unsent>>

\* Mutant of Due: a user is limited only once it is over its limit.
Due_OverLimit(job) ==
    \/ job = "expire" /\ user.status = "active" /\ IsExpired(user)
    \/ job = "limit" /\ user.status = "active" /\ IsLimited(user) /\ user.limit < user.used
    \/ job = "activate" /\ user.status = "on_hold" /\ BecomeOnline(user)
    \/ job = "reset" /\ user.status \in {"active", "limited"}

\* The users each job selects; whose reset is due is left open.
Due(job) ==
    \/ job = "expire" /\ user.status = "active" /\ IsExpired(user)
    \/ job = "limit" /\ user.status = "active" /\ IsLimited(user)
    \/ job = "activate" /\ user.status = "on_hold" /\ BecomeOnline(user)
    \/ job = "reset" /\ user.status \in {"active", "limited"}

JobReads(job) ==
    /\ Due(job)
    /\ Loads(job, job)
    /\ UNCHANGED body

AdminReads(a) ==
    \E what \in Requests :
        /\ Loads(a, what)
        /\ what = "nextPlan" => user.plan # None
        /\ IF what = "modify"
           THEN \E p \in {q \in Payloads : q.plan = None \/ user.limit = None
                                                        \/ user.limit <= MaxLimit} :
                   body' = [body EXCEPT ![a] = p]
           ELSE UNCHANGED body

-----------------------------------------------------------------------------
(* Commits *)

Goto(a, label) == pc' = [pc EXCEPT ![a] = label]

\* update_users_status: an UPDATE that does not look at the status again.
StatusWrites(a) ==
    /\ pc[a] = "write" /\ task[a] \in {"expire", "limit"}
    /\ user' = [user EXCEPT !.status = IF task[a] = "expire" THEN "expired" ELSE "limited"]
    /\ Goto(a, "review")
    /\ UNCHANGED <<clock, logged, metered, nodes, queue, task, row, body, unsent>>

\* start_users_expire: the values come from the loaded copy.
ActivateWrites(a) ==
    /\ pc[a] = "write" /\ task[a] = "activate"
    /\ LET new == Activated(row[a])
       IN user' = [user EXCEPT !.expire = new.expire, !.duration = None,
                               !.timeout = None, !.status = "active"]
    /\ Goto(a, "refresh")
    /\ UNCHANGED <<clock, logged, metered, nodes, queue, task, row, body, unsent>>

\* change_status, on the refreshed copy: is there a next plan?
Reviews(a) ==
    /\ pc[a] = "review"
    /\ row' = [row EXCEPT ![a] = user]
    /\ Goto(a, IF user.plan # None THEN "plan" ELSE "sync")
    /\ UNCHANGED <<clock, user, logged, metered, nodes, queue, task, body, unsent>>

\* The admin's budget does not cover the next plan.
PlanRefused(a) ==
    /\ pc[a] = "plan"
    /\ Goto(a, "sync")
    /\ UNCHANGED <<clock, user, logged, metered, nodes, queue, task, row, body, unsent>>

\* Mutant of PlanWrites: the log keeps the whole lifetime.
PlanWrites_LogsAll(a) ==
    /\ \/ pc[a] = "plan"
       \/ pc[a] = "write" /\ task[a] = "nextPlan"
    /\ user' = Flush(row[a], NextPlanned(row[a]), user)
    /\ logged' = logged + row[a].used + logged
    /\ Goto(a, "refresh")
    /\ UNCHANGED <<clock, metered, nodes, queue, task, row, body, unsent>>

PlanWrites(a) ==
    /\ \/ pc[a] = "plan"
       \/ pc[a] = "write" /\ task[a] = "nextPlan"
    /\ user' = Flush(row[a], NextPlanned(row[a]), user)
    /\ logged' = logged + row[a].used
    /\ Goto(a, "refresh")
    /\ UNCHANGED <<clock, metered, nodes, queue, task, row, body, unsent>>

ResetWrites(a) ==
    /\ pc[a] = "write" /\ task[a] \in {"reset", "resetUsage"}
    /\ user' = Flush(row[a], Reset(row[a]), user)
    /\ logged' = logged + row[a].used
    /\ Goto(a, "refresh")
    /\ UNCHANGED <<clock, metered, nodes, queue, task, row, body, unsent>>

\* The edit is stamped: earlier traffic no longer ends a hold.
ModifyWrites(a) ==
    /\ pc[a] = "write" /\ task[a] = "modify"
    /\ user' = [Flush(row[a], Modified(row[a], body[a]), user)
                   EXCEPT !.online = IF @ = "since" THEN "before" ELSE @]
    /\ body' = [body EXCEPT ![a] = None]
    /\ Goto(a, "refresh")
    /\ UNCHANGED <<clock, logged, metered, nodes, queue, task, row, unsent>>

\* _set_user_disabled: the copy is not refreshed.
ToggleWrites(a) ==
    /\ pc[a] = "write" /\ task[a] \in {"disable", "enable"}
    /\ LET new == [row[a] EXCEPT !.status = IF task[a] = "disable" THEN "disabled"
                                            ELSE ResolveEnabled(row[a])]
       IN /\ user' = Flush(row[a], new, user)
          /\ row' = [row EXCEPT ![a] = new]
    /\ Goto(a, "sync")
    /\ UNCHANGED <<clock, logged, metered, nodes, queue, task, body, unsent>>

\* Mutant of Refreshes: the copy that was loaded first is sent to the nodes.
Refreshes_NoRead(a) ==
    /\ pc[a] = "refresh"
    /\ Goto(a, "sync")
    /\ UNCHANGED <<clock, user, logged, metered, nodes, queue, task, row, body, unsent>>

Refreshes(a) ==
    /\ pc[a] = "refresh"
    /\ row' = [row EXCEPT ![a] = user]
    /\ Goto(a, "sync")
    /\ UNCHANGED <<clock, user, logged, metered, nodes, queue, task, body, unsent>>

-----------------------------------------------------------------------------
(* The nodes, and the traffic they report *)

Forgets(a) ==
    /\ pc' = [pc EXCEPT ![a] = "idle"]
    /\ task' = [task EXCEPT ![a] = None]
    /\ row' = [row EXCEPT ![a] = None]
    /\ body' = [body EXCEPT ![a] = None]

\* sync_user: the update is dispatched as a task of its own.
SyncUser(a) ==
    /\ pc[a] = "sync" /\ Len(queue) < MaxQueue
    /\ queue' = Append(queue, Serves(row[a].status))
    /\ Forgets(a) /\ unsent' = FALSE
    /\ UNCHANGED <<clock, user, logged, metered, nodes>>

NodesUpdate ==
    /\ queue # <<>>
    /\ nodes' = Head(queue)
    /\ queue' = Tail(queue)
    /\ UNCHANGED <<clock, user, logged, metered, pc, task, row, body, unsent>>

\* record_user_usages: used_traffic = used_traffic + value, online_at = now.
RecordUsage ==
    /\ metered < MaxMetered
    /\ \E value \in 1..(MaxMetered - metered) :
          /\ user' = [user EXCEPT !.used = @ + value, !.online = "since"]
          /\ metered' = metered + value
    /\ UNCHANGED <<clock, logged, nodes, queue, pc, task, row, body, unsent>>

\* An error or a crash: what was committed stays, nothing is sent.
Fails(a) ==
    /\ CanFail /\ pc[a] # "idle"
    /\ Forgets(a) /\ unsent' = TRUE
    /\ UNCHANGED <<clock, user, logged, metered, nodes, queue>>

Tick ==
    /\ clock < MaxClock
    /\ clock' = clock + 1
    /\ UNCHANGED <<user, logged, metered, nodes, queue, pc, task, row, body, unsent>>

Continues(a) ==
    \/ StatusWrites(a) \/ ActivateWrites(a) \/ Reviews(a) \/ PlanRefused(a) \/ PlanWrites(a)
    \/ ResetWrites(a) \/ ModifyWrites(a) \/ ToggleWrites(a) \/ Refreshes(a) \/ SyncUser(a)

Next ==
    \/ \E job \in Jobs : JobReads(job)
    \/ \E a \in Admins : AdminReads(a)
    \/ \E a \in Actors : Continues(a) \/ Fails(a)
    \/ NodesUpdate \/ RecordUsage \/ Tick

Spec == Init /\ [][Next]_vars

\* The scheduler runs every job again and again, the event loop runs on what
\* was started, and updates reach the nodes.  A dispatched task waits for
\* nobody, so MaxQueue must not hold an actor back forever.
FairSpec ==
    /\ Spec
    /\ \A job \in Jobs : WF_vars(JobReads(job))
    /\ \A a \in Actors : WF_vars(Continues(a)) /\ SF_vars(SyncUser(a))
    /\ WF_vars(NodesUpdate)

-----------------------------------------------------------------------------
(* Properties *)

Quiet == queue = <<>> /\ \A a \in Actors : pc[a] = "idle"

(* Once no request or job is at work and all updates have arrived, the nodes *)
(* serve the user exactly if the panel shows it active or on hold; after an  *)
(* actor stopped half-way, from the next update that is sent on.             *)
NodesFollow == Quiet /\ ~unsent => nodes = Serves(user.status)

(* A user on hold has the duration it will get when it comes online: no      *)
(* sequence of edits, toggles, plans and reviews leaves a hold without one.  *)
OnHoldHasDuration == user.status = "on_hold" => user.duration # None

(* lifetime_used_traffic never claims traffic that was not metered, also     *)
(* when the recorder adds some while a reset is under way.                   *)
NeverOvercounted == user.used + logged <= metered

(* A user that is cut off is past its expiry or its data limit: no sequence  *)
(* of edits that move either, toggles, resets, plans and reviews leaves a    *)
(* user expired or limited without the reason the status names.              *)
CutOffForReason ==
    /\ user.status = "expired" => IsExpired(user)
    /\ user.status = "limited" => IsLimited(user)

(* A user past its expiry or its data limit does not stay active, and one on *)
(* hold that came online does not stay on hold, whatever else goes on.       *)
ReviewsHappen ==
    /\ "expire" \in Jobs => (user.status = "active" /\ IsExpired(user))
                                ~> ~(user.status = "active" /\ IsExpired(user))
    /\ "limit" \in Jobs => (user.status = "active" /\ IsLimited(user))
                                ~> ~(user.status = "active" /\ IsLimited(user))
    /\ "activate" \in Jobs => (user.status = "on_hold" /\ BecomeOnline(user))
                                ~> ~(user.status = "on_hold" /\ BecomeOnline(user))

-----------------------------------------------------------------------------
(* Why: what each actor knows of the row *)

\* What an actor needs for its next step has been loaded.
CopiesComplete ==
    \A a \in Actors :
        /\ pc[a] # "idle" => row[a] # None
        /\ pc[a] = "plan" \/ (pc[a] = "write" /\ task[a] = "nextPlan") => row[a].plan # None
        /\ pc[a] = "write" /\ task[a] = "modify" => body[a] \in Payloads

OneAtATime == \A a, b \in Actors : pc[a] # "idle" /\ pc[b] # "idle" => a = b

\* Equal but for traffic recorded since.
SameColumns(r, q) ==
    /\ r.status = q.status /\ r.expire = q.expire /\ r.limit = q.limit
    /\ r.duration = q.duration /\ r.timeout = q.timeout /\ r.plan = q.plan
    /\ r.used <= q.used

\* The copy an actor writes from is the row, the copy it sends has its status.
CopiesCurrent ==
    \A a \in Actors :
        /\ pc[a] \in {"write", "plan"} => SameColumns(row[a], user)
        /\ pc[a] = "sync" => row[a].status = user.status

\* What a job found due still is when it writes.
JobsOnDue ==
    \A a \in Actors :
        /\ pc[a] = "write" /\ task[a] = "expire" => IsExpired(user)
        /\ pc[a] = "write" /\ task[a] = "limit" => IsLimited(user)

\* What the nodes will serve once all updates have arrived.
LastSent == IF queue = <<>> THEN nodes ELSE queue[Len(queue)]

SentFollows == (\A a \in Actors : pc[a] = "idle") /\ ~unsent => LastSent = Serves(user.status)

(* With actors that do not overlap: the one at work writes from the row as   *)
(* it is, and what it leaves behind is valid, counted once and sent.         *)
RowProtocol ==
    /\ CopiesComplete /\ OneAtATime /\ CopiesCurrent /\ JobsOnDue /\ SentFollows
    /\ OnHoldHasDuration /\ NeverOvercounted /\ CutOffForReason

-----------------------------------------------------------------------------
(* What the panel's own words promise *)

(* A next plan leads to the status and the data limit the admin was charged *)
(* for when it was activated.                                                *)
PlanAsPredicted ==
    [][\A a \in Actors : PlanWrites(a) =>
          user'.status = Predicted(row[a]).status /\ user'.limit = Predicted(row[a]).limit]_vars
=============================================================================
