------------------------ MODULE UserLifecycleProofs ------------------------
(***************************************************************************)
(* Proofs about a user's life, for any jobs, admins, rows, payloads, plans *)
(* and bounds, with actors that stop half-way.                             *)
(***************************************************************************)
EXTENDS UserLifecycle, SequenceTheorems, TLAPS

-----------------------------------------------------------------------------
(* What the handlers make of a row is a row *)

LEMMA FlushType ==
    ASSUME NEW old \in Row, NEW new \in Row, NEW stored \in Row
    PROVE  Flush(old, new, stored) \in Row
  BY DEF Flush, Changed, Row

LEMMA ServesType == ASSUME NEW s PROVE Serves(s) \in BOOLEAN
  BY DEF Serves

LEMMA ResolveType ==
    ASSUME NEW r \in Row
    PROVE  ResolveEnabled(r) \in {"active", "on_hold", "limited", "expired"}
  BY DEF ResolveEnabled

LEMMA ModifiedType ==
    ASSUME NEW r \in Row, NEW p \in Payload
    PROVE  Modified(r, p) \in Row
<1>1. ModifiedStatus(r, p) \in Statuses
  BY ResolveType DEF ModifiedStatus, Row, Payload, Statuses
<1>2. ExpiryStatus(ModifiedStatus(r, p), p) \in Statuses
  BY <1>1 DEF ExpiryStatus, Statuses
<1> DEFINE s == LimitStatus(ExpiryStatus(ModifiedStatus(r, p), p), r, p)
           e == IF p.status = "on_hold" THEN None ELSE Given(p.expire, r.expire)
           l == Given(p.limit, r.limit)
           d == IF p.duration = None THEN r.duration ELSE p.duration
           t == Given(p.timeout, r.timeout)
<1>3. s \in Statuses
  BY <1>2 DEF LimitStatus, Statuses
<1>4. e \in Int \cup {None} /\ l \in Int \cup {None}
  BY DEF Given, Row, Payload
<1>5. d \in Nat \cup {None} /\ t \in Nat \cup {None} /\ p.plan \in Plan \cup {None}
  BY DEF Given, Row, Payload
<1>6. Modified(r, p) = [r EXCEPT !.status = s, !.expire = e, !.limit = l, !.duration = d,
                                 !.timeout = t, !.plan = p.plan]
  BY DEF Modified
<1> HIDE DEF s, e, l, d, t
<1>7. [r EXCEPT !.status = s, !.expire = e, !.limit = l, !.duration = d,
                !.timeout = t, !.plan = p.plan] \in Row
  BY <1>3, <1>4, <1>5 DEF Row
<1> QED
  BY <1>6, <1>7

LEMMA ResetType == ASSUME NEW r \in Row PROVE Reset(r) \in Row
<1> DEFINE s == IF r.status = "limited" THEN "active" ELSE r.status
<1>1. s \in Statuses
  BY DEF Row, Statuses
<1>2. Reset(r) = [r EXCEPT !.used = 0, !.plan = None, !.status = s]
  BY DEF Reset
<1> HIDE DEF s
<1>3. [r EXCEPT !.used = 0, !.plan = None, !.status = s] \in Row
  BY <1>1 DEF Row
<1> QED
  BY <1>2, <1>3

LEMMA NextPlannedType ==
    ASSUME NEW r \in Row, r.plan # None, clock \in Nat
    PROVE  NextPlanned(r) \in Row
<1>1. r.plan \in Plan /\ r.limit \in Int \cup {None} /\ r.used \in Nat
  BY DEF Row
<1>2. Remaining(r) \in Int
  BY <1>1 DEF Remaining
<1>3. r.plan.limit \in Nat /\ r.plan.duration \in Nat
  BY <1>1 DEF Plan
<1> DEFINE l == r.plan.limit + (IF r.plan.addRemaining THEN Remaining(r) ELSE 0)
           e == IF r.plan.hold \/ r.plan.duration = 0 THEN None ELSE clock + r.plan.duration
           d == IF r.plan.hold THEN r.plan.duration ELSE r.duration
           t == IF r.plan.hold THEN None ELSE r.timeout
<1>4. l \in Int /\ e \in Int \cup {None}
  BY <1>2, <1>3
<1>5. d \in Nat \cup {None} /\ t \in Nat \cup {None}
  BY <1>3 DEF Row
<1>6. NextPlanned(r) = [r EXCEPT !.limit = l, !.expire = e, !.duration = d, !.timeout = t,
                                 !.used = 0, !.plan = None, !.status = "active"]
  BY DEF NextPlanned
<1> HIDE DEF l, e, d, t
<1>7. [r EXCEPT !.limit = l, !.expire = e, !.duration = d, !.timeout = t,
                                 !.used = 0, !.plan = None, !.status = "active"] \in Row
  BY <1>4, <1>5 DEF Row, Statuses
<1> QED
  BY <1>6, <1>7

LEMMA ActivatedType == ASSUME NEW r \in Row, clock \in Nat PROVE Activated(r) \in Row
<1> DEFINE e == IF r.duration \in {None, 0} THEN None ELSE clock + r.duration
<1>1. e \in Int \cup {None}
  BY DEF Row
<1>2. Activated(r) = [r EXCEPT !.expire = e, !.duration = None, !.timeout = None, !.status = "active"]
  BY DEF Activated
<1> HIDE DEF e
<1>3. [r EXCEPT !.expire = e, !.duration = None, !.timeout = None, !.status = "active"] \in Row
  BY <1>1 DEF Row, Statuses
<1> QED
  BY <1>2, <1>3

-----------------------------------------------------------------------------
(* Type correctness *)

\* Types, and that nobody works on a copy that is not there.
Typed == TypeOK /\ CopiesComplete

LEMMA TypeInit == Init => Typed
<1> SUFFICES ASSUME Init PROVE Typed
  OBVIOUS
<1>1. user \in Row /\ user.used \in Nat
  BY InputsAssumption DEF Init, Row
<1>2. nodes \in BOOLEAN /\ unsent \in BOOLEAN
  BY ServesType DEF Init
<1>3. task \in [Actors -> AllJobs \cup AllRequests \cup {None}]
      /\ row \in [Actors -> Row \cup {None}] /\ body \in [Actors -> Payload \cup {None}]
  BY DEF Init
<1>4. CopiesComplete
  BY DEF Init, CopiesComplete
<1> QED
  BY <1>1, <1>2, <1>3, <1>4 DEF Init, Typed, TypeOK

LEMMA TypeStep == Typed /\ [Next]_vars => Typed'
<1> SUFFICES ASSUME Typed, [Next]_vars PROVE Typed'
  OBVIOUS
<1> USE InputsAssumption, NoneAssumption DEF Typed, TypeOK, CopiesComplete, Actors
<1>1. ASSUME NEW job \in Jobs, JobReads(job) PROVE Typed'
  BY <1>1 DEF JobReads, Loads, AllJobs
<1>2. ASSUME NEW a \in Admins, AdminReads(a) PROVE Typed'
  <2>1. PICK what \in Requests :
           /\ Loads(a, what)
           /\ what = "nextPlan" => user.plan # None
           /\ IF what = "modify" THEN \E p \in Payloads : body' = [body EXCEPT ![a] = p]
                                 ELSE UNCHANGED body
    BY <1>2 DEF AdminReads
  <2>2. body' \in [Actors -> Payload \cup {None}]
        /\ (what = "modify" => body'[a] \in Payloads)
        /\ \A b \in Actors \ {a} : body'[b] = body[b]
    BY <2>1
  <2>3. TypeOK'
    BY <2>1, <2>2 DEF Loads
  <2>4. CopiesComplete'
    BY <2>1, <2>2 DEF Loads
  <2> QED BY <2>3, <2>4
<1>3. ASSUME NEW a \in Actors, StatusWrites(a) PROVE Typed'
  BY <1>3, ZenonT(40) DEF StatusWrites, Goto, Row, Statuses
<1>4. ASSUME NEW a \in Actors, ActivateWrites(a) PROVE Typed'
  BY <1>4, ActivatedType, ZenonT(40) DEF ActivateWrites, Goto, Row, Statuses
<1>5. ASSUME NEW a \in Actors, Reviews(a) PROVE Typed'
  BY <1>5 DEF Reviews, Goto
<1>6. ASSUME NEW a \in Actors, PlanRefused(a) PROVE Typed'
  BY <1>6 DEF PlanRefused, Goto
<1>7. ASSUME NEW a \in Actors, PlanWrites(a) PROVE Typed'
  <2>1. row[a] \in Row /\ row[a].used \in Nat /\ row[a].plan # None
    BY <1>7 DEF PlanWrites, Row
  <2>2. NextPlanned(row[a]) \in Row
    BY <2>1, NextPlannedType
  <2>3. user' \in Row
    BY <1>7, <2>1, <2>2, FlushType DEF PlanWrites
  <2>4. logged' \in Nat
    BY <1>7, <2>1 DEF PlanWrites
  <2> QED BY <1>7, <2>3, <2>4 DEF PlanWrites, Goto
<1>8. ASSUME NEW a \in Actors, ResetWrites(a) PROVE Typed'
  <2>1. row[a] \in Row /\ row[a].used \in Nat
    BY <1>8 DEF ResetWrites, Row
  <2>2. Reset(row[a]) \in Row
    BY <2>1, ResetType
  <2>3. user' \in Row
    BY <1>8, <2>1, <2>2, FlushType DEF ResetWrites
  <2>4. logged' \in Nat
    BY <1>8, <2>1 DEF ResetWrites
  <2> QED BY <1>8, <2>3, <2>4 DEF ResetWrites, Goto
<1>9. ASSUME NEW a \in Actors, ModifyWrites(a) PROVE Typed'
  <2>1. row[a] \in Row /\ body[a] \in Payload
    BY <1>9 DEF ModifyWrites
  <2> DEFINE f == Flush(row[a], Modified(row[a], body[a]), user)
  <2>2. f \in Row
    BY <2>1, ModifiedType, FlushType
  <2> HIDE DEF f
  <2> DEFINE o == IF f.online = "since" THEN "before" ELSE f.online
             g == [f EXCEPT !.online = o]
  <2>o. o \in {"never", "before", "since"}
    BY <2>2 DEF Row
  <2>g. user' = g
    BY <1>9 DEF ModifyWrites, f
  <2> HIDE DEF o
  <2>3. g \in Row
    BY <2>2, <2>o DEF Row
  <2>4. user' \in Row
    BY <2>3, <2>g
  <2>5. TypeOK'
    BY <1>9, <2>4 DEF ModifyWrites, Goto
  <2>6. CopiesComplete'
    BY <1>9 DEF ModifyWrites, Goto
  <2> QED BY <2>5, <2>6
<1>10. ASSUME NEW a \in Actors, ToggleWrites(a) PROVE Typed'
  <2>1. row[a] \in Row
    BY <1>10 DEF ToggleWrites
  <2> DEFINE st == IF task[a] = "disable" THEN "disabled" ELSE ResolveEnabled(row[a])
             new == [row[a] EXCEPT !.status = st]
  <2>2. st \in Statuses
    BY <2>1, ResolveType DEF Statuses
  <2>3. user' = Flush(row[a], new, user) /\ row' = [row EXCEPT ![a] = new]
    BY <1>10 DEF ToggleWrites
  <2> HIDE DEF st
  <2>4. new \in Row
    BY <2>1, <2>2 DEF Row
  <2> HIDE DEF new
  <2>5. user' \in Row
    BY <2>1, <2>3, <2>4, FlushType
  <2> QED BY <1>10, <2>3, <2>4, <2>5, SMTT(40) DEF ToggleWrites, Goto
<1>11. ASSUME NEW a \in Actors, Refreshes(a) PROVE Typed'
  BY <1>11 DEF Refreshes, Goto
<1>12. ASSUME NEW a \in Actors, SyncUser(a) PROVE Typed'
  <2>1. Serves(row[a].status) \in BOOLEAN
    BY ServesType
  <2>2. queue' \in Seq(BOOLEAN)
    BY <1>12, <2>1 DEF SyncUser
  <2>3. TypeOK'
    BY <1>12, <2>2 DEF SyncUser, Forgets
  <2>4. CopiesComplete'
    BY <1>12 DEF SyncUser, Forgets
  <2> QED BY <2>3, <2>4
<1>13. ASSUME NEW a \in Actors, Fails(a) PROVE Typed'
  BY <1>13 DEF Fails, Forgets
<1>14. ASSUME NodesUpdate PROVE Typed'
  BY <1>14 DEF NodesUpdate
<1>15. ASSUME RecordUsage PROVE Typed'
  <2>1. PICK value \in 1..(MaxMetered - metered) :
           /\ user' = [user EXCEPT !.used = @ + value, !.online = "since"]
           /\ metered' = metered + value
    BY <1>15 DEF RecordUsage
  <2>2. user.used + value \in Nat /\ metered' \in Nat
    BY <2>1, SMTT(40) DEF Row
  <2>3. user' \in Row
    BY <2>1, <2>2 DEF Row
  <2> QED BY <1>15, <2>2, <2>3 DEF RecordUsage
<1>16. ASSUME Tick PROVE Typed'
  BY <1>16 DEF Tick
<1>17. ASSUME UNCHANGED vars PROVE Typed'
  BY <1>17 DEF vars
<1> QED
  BY <1>1, <1>2, <1>3, <1>4, <1>5, <1>6, <1>7, <1>8, <1>9, <1>10, <1>11, <1>12, <1>13, <1>14,
     <1>15, <1>16, <1>17 DEF Next, Continues

(* The user's row and every copy of it stay well typed, however actors       *)
(* overlap and wherever they stop.                                           *)
THEOREM TypeCorrect == Spec => []TypeOK
  BY TypeInit, TypeStep, PTL DEF Spec, Typed

-----------------------------------------------------------------------------
(* Actors that do not overlap *)

\* An edit leaves no hold without a duration: it asks for a hold and brings one,
\* or keeps or resolves to a hold that has one.
LEMMA ModifiedHold ==
    ASSUME NEW r \in Row, NEW p \in Payload, ValidPayload(p),
           r.status = "on_hold" => r.duration # None
    PROVE  Modified(r, p).status = "on_hold" => Modified(r, p).duration # None
<1> DEFINE m == ModifiedStatus(r, p)
           e == ExpiryStatus(m, p)
<1>1. LimitStatus(e, r, p) = "on_hold" => e = "on_hold"
  BY DEF LimitStatus
<1>2. e = "on_hold" => m = "on_hold"
  BY DEF ExpiryStatus
<1>3. m = "on_hold" => p.status = "on_hold" \/ r.duration # None
  BY DEF ModifiedStatus, ResolveEnabled
<1>4. p.status = "on_hold" => p.duration # None
  BY DEF ValidPayload
<1>5. /\ Modified(r, p).status = LimitStatus(e, r, p)
      /\ Modified(r, p).duration = IF p.duration = None THEN r.duration ELSE p.duration
  BY DEF Modified, Row
<1> QED
  BY <1>1, <1>2, <1>3, <1>4, <1>5

\* A second actor does not start before the first has finished.
LEMMA OneStep ==
    ASSUME Typed, RowProtocol, ~Overlap, [Next]_vars
    PROVE  OneAtATime'
<1> USE InputsAssumption, NoneAssumption DEF RowProtocol, Typed, TypeOK, Actors, OneAtATime
<1>1. ASSUME NEW job \in Jobs, JobReads(job) PROVE OneAtATime'
  BY <1>1 DEF JobReads, Loads
<1>2. ASSUME NEW a \in Admins, AdminReads(a) PROVE OneAtATime'
  BY <1>2 DEF AdminReads, Loads
<1>3. ASSUME NEW a \in Actors, StatusWrites(a) PROVE OneAtATime'
  BY <1>3 DEF StatusWrites, Goto
<1>4. ASSUME NEW a \in Actors, ActivateWrites(a) PROVE OneAtATime'
  BY <1>4 DEF ActivateWrites, Goto
<1>5. ASSUME NEW a \in Actors, Reviews(a) PROVE OneAtATime'
  BY <1>5 DEF Reviews, Goto
<1>6. ASSUME NEW a \in Actors, PlanRefused(a) PROVE OneAtATime'
  BY <1>6 DEF PlanRefused, Goto
<1>7. ASSUME NEW a \in Actors, PlanWrites(a) PROVE OneAtATime'
  BY <1>7 DEF PlanWrites, Goto
<1>8. ASSUME NEW a \in Actors, ResetWrites(a) PROVE OneAtATime'
  BY <1>8 DEF ResetWrites, Goto
<1>9. ASSUME NEW a \in Actors, ModifyWrites(a) PROVE OneAtATime'
  BY <1>9 DEF ModifyWrites, Goto
<1>10. ASSUME NEW a \in Actors, ToggleWrites(a) PROVE OneAtATime'
  BY <1>10 DEF ToggleWrites, Goto
<1>11. ASSUME NEW a \in Actors, Refreshes(a) PROVE OneAtATime'
  BY <1>11 DEF Refreshes, Goto
<1>12. ASSUME NEW a \in Actors, SyncUser(a) PROVE OneAtATime'
  BY <1>12 DEF SyncUser, Forgets
<1>13. ASSUME NEW a \in Actors, Fails(a) PROVE OneAtATime'
  BY <1>13 DEF Fails, Forgets
<1>14. ASSUME NodesUpdate PROVE OneAtATime'
  BY <1>14 DEF NodesUpdate
<1>15. ASSUME RecordUsage PROVE OneAtATime'
  BY <1>15 DEF RecordUsage
<1>16. ASSUME Tick PROVE OneAtATime'
  BY <1>16 DEF Tick
<1>17. ASSUME UNCHANGED vars PROVE OneAtATime'
  BY <1>17 DEF vars
<1> QED
  BY <1>1, <1>2, <1>3, <1>4, <1>5, <1>6, <1>7, <1>8, <1>9,
     <1>10, <1>11, <1>12, <1>13, <1>14, <1>15, <1>16, <1>17 DEF Next, Continues

\* Time and traffic only add to the reason for which a job selected the user.
LEMMA JobsStep ==
    ASSUME Typed, RowProtocol, ~Overlap, [Next]_vars
    PROVE  JobsOnDue'
<1> USE InputsAssumption, NoneAssumption DEF RowProtocol, Typed, TypeOK, Actors, OneAtATime, JobsOnDue
<1>1. ASSUME NEW job \in Jobs, JobReads(job) PROVE JobsOnDue'
  <2>1. (job = "expire" => IsExpired(user)) /\ (job = "limit" => IsLimited(user))
    BY <1>1 DEF JobReads, Due
  <2> QED BY <1>1, <2>1 DEF JobReads, Loads, IsExpired, IsLimited
<1>2. ASSUME NEW a \in Admins, AdminReads(a) PROVE JobsOnDue'
  BY <1>2 DEF AdminReads, Loads, AllRequests, IsExpired, IsLimited
<1>3. ASSUME NEW a \in Actors, StatusWrites(a) PROVE JobsOnDue'
  BY <1>3 DEF StatusWrites, Goto
<1>4. ASSUME NEW a \in Actors, ActivateWrites(a) PROVE JobsOnDue'
  BY <1>4 DEF ActivateWrites, Goto
<1>5. ASSUME NEW a \in Actors, Reviews(a) PROVE JobsOnDue'
  BY <1>5 DEF Reviews, Goto, IsExpired, IsLimited
<1>6. ASSUME NEW a \in Actors, PlanRefused(a) PROVE JobsOnDue'
  BY <1>6 DEF PlanRefused, Goto, IsExpired, IsLimited
<1>7. ASSUME NEW a \in Actors, PlanWrites(a) PROVE JobsOnDue'
  BY <1>7 DEF PlanWrites, Goto
<1>8. ASSUME NEW a \in Actors, ResetWrites(a) PROVE JobsOnDue'
  BY <1>8 DEF ResetWrites, Goto
<1>9. ASSUME NEW a \in Actors, ModifyWrites(a) PROVE JobsOnDue'
  BY <1>9 DEF ModifyWrites, Goto
<1>10. ASSUME NEW a \in Actors, ToggleWrites(a) PROVE JobsOnDue'
  BY <1>10 DEF ToggleWrites, Goto
<1>11. ASSUME NEW a \in Actors, Refreshes(a) PROVE JobsOnDue'
  BY <1>11 DEF Refreshes, Goto, IsExpired, IsLimited
<1>12. ASSUME NEW a \in Actors, SyncUser(a) PROVE JobsOnDue'
  BY <1>12 DEF SyncUser, Forgets, IsExpired, IsLimited
<1>13. ASSUME NEW a \in Actors, Fails(a) PROVE JobsOnDue'
  BY <1>13 DEF Fails, Forgets, IsExpired, IsLimited
<1>14. ASSUME NodesUpdate PROVE JobsOnDue'
  BY <1>14 DEF NodesUpdate, IsExpired, IsLimited
<1>15. ASSUME RecordUsage PROVE JobsOnDue'
  BY <1>15 DEF RecordUsage, IsExpired, IsLimited, Row
<1>16. ASSUME Tick PROVE JobsOnDue'
  BY <1>16 DEF Tick, Row, IsExpired, IsLimited
<1>17. ASSUME UNCHANGED vars PROVE JobsOnDue'
  BY <1>17 DEF vars, IsExpired, IsLimited
<1> QED
  BY <1>1, <1>2, <1>3, <1>4, <1>5, <1>6, <1>7, <1>8, <1>9,
     <1>10, <1>11, <1>12, <1>13, <1>14, <1>15, <1>16, <1>17 DEF Next, Continues

\* Nobody but the recorder changes the row under an actor's copy.
LEMMA CopiesStep ==
    ASSUME Typed, RowProtocol, ~Overlap, [Next]_vars
    PROVE  CopiesCurrent'
<1> USE InputsAssumption, NoneAssumption DEF RowProtocol, Typed, TypeOK, Actors, OneAtATime, CopiesCurrent, CopiesComplete
<1>1. ASSUME NEW job \in Jobs, JobReads(job) PROVE CopiesCurrent'
  BY <1>1 DEF JobReads, Loads, SameColumns, Row
<1>2. ASSUME NEW a \in Admins, AdminReads(a) PROVE CopiesCurrent'
  BY <1>2 DEF AdminReads, Loads, SameColumns, Row
<1>3. ASSUME NEW a \in Actors, StatusWrites(a) PROVE CopiesCurrent'
  BY <1>3 DEF StatusWrites, Goto
<1>4. ASSUME NEW a \in Actors, ActivateWrites(a) PROVE CopiesCurrent'
  BY <1>4 DEF ActivateWrites, Goto
<1>5. ASSUME NEW a \in Actors, Reviews(a) PROVE CopiesCurrent'
  BY <1>5 DEF Reviews, Goto, SameColumns, Row
<1>6. ASSUME NEW a \in Actors, PlanRefused(a) PROVE CopiesCurrent'
  BY <1>6 DEF PlanRefused, Goto, SameColumns
<1>7. ASSUME NEW a \in Actors, PlanWrites(a) PROVE CopiesCurrent'
  BY <1>7 DEF PlanWrites, Goto
<1>8. ASSUME NEW a \in Actors, ResetWrites(a) PROVE CopiesCurrent'
  BY <1>8 DEF ResetWrites, Goto
<1>9. ASSUME NEW a \in Actors, ModifyWrites(a) PROVE CopiesCurrent'
  BY <1>9 DEF ModifyWrites, Goto
<1>10. ASSUME NEW a \in Actors, ToggleWrites(a) PROVE CopiesCurrent'
  BY <1>10 DEF ToggleWrites, Goto, SameColumns, Flush, Changed, Row
<1>11. ASSUME NEW a \in Actors, Refreshes(a) PROVE CopiesCurrent'
  BY <1>11 DEF Refreshes, Goto
<1>12. ASSUME NEW a \in Actors, SyncUser(a) PROVE CopiesCurrent'
  BY <1>12 DEF SyncUser, Forgets
<1>13. ASSUME NEW a \in Actors, Fails(a) PROVE CopiesCurrent'
  BY <1>13 DEF Fails, Forgets
<1>14. ASSUME NodesUpdate PROVE CopiesCurrent'
  BY <1>14 DEF NodesUpdate
<1>15. ASSUME RecordUsage PROVE CopiesCurrent'
  <2>1. PICK value \in 1..(MaxMetered - metered) :
           user' = [user EXCEPT !.used = @ + value, !.online = "since"]
    BY <1>15 DEF RecordUsage
  <2>2. user.used \in Nat /\ value \in Nat
    BY DEF Row
  <2>3. /\ user'.used = user.used + value /\ user'.status = user.status /\ user'.expire = user.expire
        /\ user'.limit = user.limit /\ user'.duration = user.duration
        /\ user'.timeout = user.timeout /\ user'.plan = user.plan
    BY <2>1 DEF Row
  <2>4. pc' = pc /\ row' = row
    BY <1>15 DEF RecordUsage
  <2>5. ASSUME NEW a \in Actors, pc[a] \in {"write", "plan"} PROVE SameColumns(row[a], user)'
    <3>1. SameColumns(row[a], user) /\ row[a].used \in Nat
      BY <2>5 DEF Row
    <3> QED BY <2>2, <2>3, <2>4, <3>1 DEF SameColumns
  <2> QED
    BY <2>3, <2>4, <2>5
<1>16. ASSUME Tick PROVE CopiesCurrent'
  BY <1>16 DEF Tick
<1>17. ASSUME UNCHANGED vars PROVE CopiesCurrent'
  BY <1>17 DEF vars
<1> QED
  BY <1>1, <1>2, <1>3, <1>4, <1>5, <1>6, <1>7, <1>8, <1>9,
     <1>10, <1>11, <1>12, <1>13, <1>14, <1>15, <1>16, <1>17 DEF Next, Continues

\* A reset logs what it takes off, and takes off no more than it has seen.
LEMMA CountStep ==
    ASSUME Typed, RowProtocol, ~Overlap, [Next]_vars
    PROVE  NeverOvercounted'
<1> USE InputsAssumption, NoneAssumption DEF RowProtocol, Typed, TypeOK, Actors, NeverOvercounted, CopiesCurrent, CopiesComplete
<1>1. ASSUME NEW job \in Jobs, JobReads(job) PROVE NeverOvercounted'
  BY <1>1 DEF JobReads, Loads
<1>2. ASSUME NEW a \in Admins, AdminReads(a) PROVE NeverOvercounted'
  BY <1>2 DEF AdminReads, Loads
<1>3. ASSUME NEW a \in Actors, StatusWrites(a) PROVE NeverOvercounted'
  BY <1>3 DEF StatusWrites, Goto, Row
<1>4. ASSUME NEW a \in Actors, ActivateWrites(a) PROVE NeverOvercounted'
  BY <1>4 DEF ActivateWrites, Goto, Row
<1>5. ASSUME NEW a \in Actors, Reviews(a) PROVE NeverOvercounted'
  BY <1>5 DEF Reviews, Goto
<1>6. ASSUME NEW a \in Actors, PlanRefused(a) PROVE NeverOvercounted'
  BY <1>6 DEF PlanRefused, Goto
<1>7. ASSUME NEW a \in Actors, PlanWrites(a) PROVE NeverOvercounted'
  BY <1>7 DEF PlanWrites, Goto, SameColumns, Flush, Changed, NextPlanned, Row
<1>8. ASSUME NEW a \in Actors, ResetWrites(a) PROVE NeverOvercounted'
  BY <1>8 DEF ResetWrites, Goto, SameColumns, Flush, Changed, Reset, Row
<1>9. ASSUME NEW a \in Actors, ModifyWrites(a) PROVE NeverOvercounted'
  BY <1>9 DEF ModifyWrites, Goto, Flush, Changed, Modified, Row, SameColumns
<1>10. ASSUME NEW a \in Actors, ToggleWrites(a) PROVE NeverOvercounted'
  BY <1>10 DEF ToggleWrites, Goto, SameColumns, Flush, Changed, Row
<1>11. ASSUME NEW a \in Actors, Refreshes(a) PROVE NeverOvercounted'
  BY <1>11 DEF Refreshes, Goto
<1>12. ASSUME NEW a \in Actors, SyncUser(a) PROVE NeverOvercounted'
  BY <1>12 DEF SyncUser, Forgets
<1>13. ASSUME NEW a \in Actors, Fails(a) PROVE NeverOvercounted'
  BY <1>13 DEF Fails, Forgets
<1>14. ASSUME NodesUpdate PROVE NeverOvercounted'
  BY <1>14 DEF NodesUpdate
<1>15. ASSUME RecordUsage PROVE NeverOvercounted'
  BY <1>15 DEF RecordUsage, Row
<1>16. ASSUME Tick PROVE NeverOvercounted'
  BY <1>16 DEF Tick
<1>17. ASSUME UNCHANGED vars PROVE NeverOvercounted'
  BY <1>17 DEF vars
<1> QED
  BY <1>1, <1>2, <1>3, <1>4, <1>5, <1>6, <1>7, <1>8, <1>9,
     <1>10, <1>11, <1>12, <1>13, <1>14, <1>15, <1>16, <1>17 DEF Next, Continues

\* Whatever puts a user on hold sets its duration, or has found one.
LEMMA HoldStep ==
    ASSUME Typed, RowProtocol, ~Overlap, [Next]_vars
    PROVE  OnHoldHasDuration'
<1> USE InputsAssumption, NoneAssumption DEF RowProtocol, Typed, TypeOK, Actors, OnHoldHasDuration, CopiesCurrent, CopiesComplete
<1>1. ASSUME NEW job \in Jobs, JobReads(job) PROVE OnHoldHasDuration'
  BY <1>1 DEF JobReads, Loads
<1>2. ASSUME NEW a \in Admins, AdminReads(a) PROVE OnHoldHasDuration'
  BY <1>2 DEF AdminReads, Loads
<1>3. ASSUME NEW a \in Actors, StatusWrites(a) PROVE OnHoldHasDuration'
  BY <1>3 DEF StatusWrites, Goto, Row
<1>4. ASSUME NEW a \in Actors, ActivateWrites(a) PROVE OnHoldHasDuration'
  BY <1>4 DEF ActivateWrites, Goto, Row
<1>5. ASSUME NEW a \in Actors, Reviews(a) PROVE OnHoldHasDuration'
  BY <1>5 DEF Reviews, Goto
<1>6. ASSUME NEW a \in Actors, PlanRefused(a) PROVE OnHoldHasDuration'
  BY <1>6 DEF PlanRefused, Goto
<1>7. ASSUME NEW a \in Actors, PlanWrites(a) PROVE OnHoldHasDuration'
  BY <1>7 DEF PlanWrites, Goto, SameColumns, Flush, Changed, NextPlanned, Row
<1>8. ASSUME NEW a \in Actors, ResetWrites(a) PROVE OnHoldHasDuration'
  BY <1>8 DEF ResetWrites, Goto, SameColumns, Flush, Changed, Reset, Row
<1>9. ASSUME NEW a \in Actors, ModifyWrites(a) PROVE OnHoldHasDuration'
  <2> DEFINE new == Modified(row[a], body[a])
  <2>1. row[a] \in Row /\ body[a] \in Payload /\ ValidPayload(body[a]) /\ SameColumns(row[a], user)
    BY <1>9 DEF ModifyWrites
  <2>2. new.status = "on_hold" => new.duration # None
    BY <2>1, ModifiedHold DEF SameColumns
  <2> HIDE DEF new
  <2>3. user'.status = new.status /\ user'.duration = new.duration
    BY <1>9, <2>1 DEF ModifyWrites, new, Flush, Changed, SameColumns
  <2> QED BY <2>2, <2>3
<1>10. ASSUME NEW a \in Actors, ToggleWrites(a) PROVE OnHoldHasDuration'
  BY <1>10 DEF ToggleWrites, Goto, SameColumns, Flush, Changed, Row, ResolveEnabled
<1>11. ASSUME NEW a \in Actors, Refreshes(a) PROVE OnHoldHasDuration'
  BY <1>11 DEF Refreshes, Goto
<1>12. ASSUME NEW a \in Actors, SyncUser(a) PROVE OnHoldHasDuration'
  BY <1>12 DEF SyncUser, Forgets
<1>13. ASSUME NEW a \in Actors, Fails(a) PROVE OnHoldHasDuration'
  BY <1>13 DEF Fails, Forgets
<1>14. ASSUME NodesUpdate PROVE OnHoldHasDuration'
  BY <1>14 DEF NodesUpdate
<1>15. ASSUME RecordUsage PROVE OnHoldHasDuration'
  BY <1>15 DEF RecordUsage, Row
<1>16. ASSUME Tick PROVE OnHoldHasDuration'
  BY <1>16 DEF Tick
<1>17. ASSUME UNCHANGED vars PROVE OnHoldHasDuration'
  BY <1>17 DEF vars
<1> QED
  BY <1>1, <1>2, <1>3, <1>4, <1>5, <1>6, <1>7, <1>8, <1>9,
     <1>10, <1>11, <1>12, <1>13, <1>14, <1>15, <1>16, <1>17 DEF Next, Continues

\* An edit cuts off for the expiry and the limit it stores, or lifts the cut-off;
\* traffic recorded since the row was loaded only adds to the reason.
LEMMA ModifiedReason ==
    ASSUME NEW r \in Row, NEW p \in Payload, NEW used \in Nat, r.used <= used, clock \in Nat,
           r.status = "expired" => IsExpired(r),
           r.status = "limited" => r.limit # None /\ r.limit > 0 /\ r.limit <= used
    PROVE  LET n == Modified(r, p)
           IN  /\ n.status = "expired" => IsExpired(n)
               /\ n.status = "limited" => n.limit # None /\ n.limit > 0 /\ n.limit <= used
<1> USE NoneAssumption
<1> DEFINE m == ModifiedStatus(r, p)
           e == ExpiryStatus(m, p)
           l == LimitStatus(e, r, p)
           x == IF p.status = "on_hold" THEN None ELSE Given(p.expire, r.expire)
           y == Given(p.limit, r.limit)
<1>1. /\ Modified(r, p).status = l /\ Modified(r, p).expire = x /\ Modified(r, p).limit = y
  BY DEF Modified, Row
<1>2. /\ p.expire \in Nat \cup {None} /\ p.limit \in Nat \cup {None} /\ r.used \in Nat
      /\ r.limit \in Int \cup {None} /\ p.status \in {None, "active", "on_hold", "disabled"}
      /\ None # "on_hold"
  BY DEF Payload, Row, Statuses
<1>3. ResolveEnabled(r) = "expired" => IsExpired(r)
  BY DEF ResolveEnabled
<1>4. ResolveEnabled(r) = "limited" => r.limit # None /\ r.limit > 0 /\ r.limit <= used
  BY <1>2 DEF ResolveEnabled, IsLimited
<1>5. m = "expired" => p.status # "on_hold" /\ IsExpired(r)
  BY <1>2, <1>3 DEF ModifiedStatus
<1>6. m = "limited" => r.limit # None /\ r.limit > 0 /\ r.limit <= used
  BY <1>2, <1>4 DEF ModifiedStatus
<1> HIDE DEF m
<1>7. e = "expired" => x # None /\ x <= clock
  BY <1>2, <1>5 DEF ExpiryStatus, Given, IsExpired
<1>8. e = "limited" => m = "limited"
  BY DEF ExpiryStatus
<1> HIDE DEF e, x
<1>9. l = "expired" => e = "expired"
  BY DEF LimitStatus
<1>10. l = "limited" => y # None /\ y > 0 /\ y <= used
  <2>1. CASE p.limit = None
    BY <2>1, <1>6, <1>8 DEF LimitStatus, Given
  <2>2. CASE p.limit # None
    BY <2>2, <1>2 DEF LimitStatus, Given
  <2> QED BY <2>1, <2>2
<1> QED
  BY <1>1, <1>7, <1>9, <1>10 DEF IsExpired

\* Whatever cuts a user off has found the reason, and whatever takes the reason
\* away lifts the cut-off.
LEMMA CutOffStep ==
    ASSUME Typed, RowProtocol, ~Overlap, [Next]_vars
    PROVE  CutOffForReason'
<1> USE InputsAssumption, NoneAssumption DEF RowProtocol, Typed, TypeOK, Actors, CutOffForReason, CopiesCurrent, CopiesComplete, JobsOnDue,
            IsExpired, IsLimited
<1>1. ASSUME NEW job \in Jobs, JobReads(job) PROVE CutOffForReason'
  BY <1>1 DEF JobReads, Loads
<1>2. ASSUME NEW a \in Admins, AdminReads(a) PROVE CutOffForReason'
  BY <1>2 DEF AdminReads, Loads
<1>3. ASSUME NEW a \in Actors, StatusWrites(a) PROVE CutOffForReason'
  BY <1>3 DEF StatusWrites, Goto, Row
<1>4. ASSUME NEW a \in Actors, ActivateWrites(a) PROVE CutOffForReason'
  BY <1>4 DEF ActivateWrites, Goto, Row
<1>5. ASSUME NEW a \in Actors, Reviews(a) PROVE CutOffForReason'
  BY <1>5 DEF Reviews, Goto
<1>6. ASSUME NEW a \in Actors, PlanRefused(a) PROVE CutOffForReason'
  BY <1>6 DEF PlanRefused, Goto
<1>7. ASSUME NEW a \in Actors, PlanWrites(a) PROVE CutOffForReason'
  BY <1>7 DEF PlanWrites, Goto, SameColumns, Flush, Changed, NextPlanned, Row
<1>8. ASSUME NEW a \in Actors, ResetWrites(a) PROVE CutOffForReason'
  BY <1>8 DEF ResetWrites, Goto, SameColumns, Flush, Changed, Reset, Row
<1>9. ASSUME NEW a \in Actors, ModifyWrites(a) PROVE CutOffForReason'
  <2> DEFINE new == Modified(row[a], body[a])
  <2>1. /\ row[a] \in Row /\ body[a] \in Payload /\ SameColumns(row[a], user)
        /\ user.used \in Nat /\ row[a].used <= user.used
    BY <1>9 DEF ModifyWrites, SameColumns, Row
  <2>2. /\ row[a].status = "expired" => IsExpired(row[a])
        /\ row[a].status = "limited" =>
              row[a].limit # None /\ row[a].limit > 0 /\ row[a].limit <= user.used
    BY <2>1 DEF SameColumns
  <2> HIDE DEF IsExpired
  <2>3. /\ new.status = "expired" => IsExpired(new)
        /\ new.status = "limited" => new.limit # None /\ new.limit > 0 /\ new.limit <= user.used
    BY <2>1, <2>2, ModifiedReason
  <2>4. new.used = row[a].used
    BY <2>1 DEF Modified, Row
  <2> HIDE DEF new
  <2>5. /\ user'.status = new.status /\ user'.expire = new.expire /\ user'.limit = new.limit
        /\ user'.used = user.used /\ clock' = clock
    BY <1>9, <2>1, <2>4 DEF ModifyWrites, new, Flush, Changed, SameColumns
  <2> QED BY <2>3, <2>5 DEF IsExpired
<1>10. ASSUME NEW a \in Actors, ToggleWrites(a) PROVE CutOffForReason'
  <2> DEFINE st == IF task[a] = "disable" THEN "disabled" ELSE ResolveEnabled(row[a])
  <2>1. row[a] \in Row /\ SameColumns(row[a], user) /\ user.used \in Nat
    BY <1>10 DEF ToggleWrites, Row
  <2>2. /\ st = "expired" => row[a].expire # None /\ row[a].expire <= clock
        /\ st = "limited" => row[a].limit # None /\ row[a].limit > 0 /\ row[a].limit <= row[a].used
    BY DEF ResolveEnabled
  <2>3. user' = Flush(row[a], [row[a] EXCEPT !.status = st], user) /\ clock' = clock
    BY <1>10 DEF ToggleWrites
  <2> HIDE DEF st
  <2>4. /\ user'.status = st /\ user'.expire = user.expire /\ user'.limit = user.limit
        /\ user'.used = user.used
    BY <2>1, <2>3 DEF Flush, Changed, SameColumns, Row
  <2>5. row[a].limit \in Int \cup {None} /\ row[a].used \in Nat
    BY <2>1 DEF Row
  <2> QED
    BY <2>1, <2>2, <2>3, <2>4, <2>5 DEF SameColumns
<1>11. ASSUME NEW a \in Actors, Refreshes(a) PROVE CutOffForReason'
  BY <1>11 DEF Refreshes, Goto
<1>12. ASSUME NEW a \in Actors, SyncUser(a) PROVE CutOffForReason'
  BY <1>12 DEF SyncUser, Forgets
<1>13. ASSUME NEW a \in Actors, Fails(a) PROVE CutOffForReason'
  BY <1>13 DEF Fails, Forgets
<1>14. ASSUME NodesUpdate PROVE CutOffForReason'
  BY <1>14 DEF NodesUpdate
<1>15. ASSUME RecordUsage PROVE CutOffForReason'
  BY <1>15 DEF RecordUsage, Row
<1>16. ASSUME Tick PROVE CutOffForReason'
  BY <1>16 DEF Tick, Row
<1>17. ASSUME UNCHANGED vars PROVE CutOffForReason'
  BY <1>17 DEF vars
<1> QED
  BY <1>1, <1>2, <1>3, <1>4, <1>5, <1>6, <1>7, <1>8, <1>9,
     <1>10, <1>11, <1>12, <1>13, <1>14, <1>15, <1>16, <1>17 DEF Next, Continues

\* Taking the first update leaves the last one, or it was the last.
LEMMA TailKeepsLast ==
    ASSUME NEW S, NEW q \in Seq(S), q # <<>>
    PROVE  IF Tail(q) = <<>> THEN Head(q) = q[Len(q)] ELSE Tail(q)[Len(Tail(q))] = q[Len(q)]
<1> DEFINE t == Tail(q)
<1>1. Len(q) \in Nat \ {0} /\ Head(q) = q[1]
  BY EmptySeq
<1>2. t \in Seq(S) /\ Len(t) = Len(q) - 1 /\ \A i \in 1..Len(t) : t[i] = q[i + 1]
  BY HeadTailProperties
<1> HIDE DEF t
<1>3. t = <<>> => Len(q) = 1
  BY <1>1, <1>2
<1>4. t # <<>> => Len(t) \in Nat \ {0}
  BY <1>2, EmptySeq
<1>5. t # <<>> => t[Len(t)] = q[Len(q)]
  BY <1>1, <1>2, <1>4
<1> QED
  BY <1>1, <1>3, <1>5 DEF t

\* The last update on its way says what the row says.
LEMMA SentStep ==
    ASSUME Typed, RowProtocol, ~Overlap, [Next]_vars
    PROVE  SentFollows'
<1> USE InputsAssumption, NoneAssumption DEF RowProtocol, Typed, TypeOK, Actors, OneAtATime, CopiesCurrent, SentFollows
<1>1. ASSUME NEW job \in Jobs, JobReads(job) PROVE SentFollows'
  BY <1>1 DEF JobReads, Loads
<1>2. ASSUME NEW a \in Admins, AdminReads(a) PROVE SentFollows'
  BY <1>2 DEF AdminReads, Loads
<1>3. ASSUME NEW a \in Actors, StatusWrites(a) PROVE SentFollows'
  BY <1>3 DEF StatusWrites, Goto
<1>4. ASSUME NEW a \in Actors, ActivateWrites(a) PROVE SentFollows'
  BY <1>4 DEF ActivateWrites, Goto
<1>5. ASSUME NEW a \in Actors, Reviews(a) PROVE SentFollows'
  BY <1>5 DEF Reviews, Goto
<1>6. ASSUME NEW a \in Actors, PlanRefused(a) PROVE SentFollows'
  BY <1>6 DEF PlanRefused, Goto
<1>7. ASSUME NEW a \in Actors, PlanWrites(a) PROVE SentFollows'
  BY <1>7 DEF PlanWrites, Goto
<1>8. ASSUME NEW a \in Actors, ResetWrites(a) PROVE SentFollows'
  BY <1>8 DEF ResetWrites, Goto
<1>9. ASSUME NEW a \in Actors, ModifyWrites(a) PROVE SentFollows'
  BY <1>9 DEF ModifyWrites, Goto
<1>10. ASSUME NEW a \in Actors, ToggleWrites(a) PROVE SentFollows'
  BY <1>10 DEF ToggleWrites, Goto
<1>11. ASSUME NEW a \in Actors, Refreshes(a) PROVE SentFollows'
  BY <1>11 DEF Refreshes, Goto
<1>12. ASSUME NEW a \in Actors, SyncUser(a) PROVE SentFollows'
  BY <1>12, ServesType DEF SyncUser, Forgets, LastSent
<1>13. ASSUME NEW a \in Actors, Fails(a) PROVE SentFollows'
  BY <1>13 DEF Fails, Forgets, LastSent
<1>14. ASSUME NodesUpdate PROVE SentFollows'
  <2>1. queue # <<>> /\ nodes' = Head(queue) /\ queue' = Tail(queue)
    BY <1>14 DEF NodesUpdate
  <2>2. LastSent' = LastSent
    BY <2>1, TailKeepsLast DEF LastSent
  <2> QED BY <1>14, <2>2 DEF NodesUpdate
<1>15. ASSUME RecordUsage PROVE SentFollows'
  BY <1>15 DEF RecordUsage, LastSent, Row
<1>16. ASSUME Tick PROVE SentFollows'
  BY <1>16 DEF Tick, LastSent
<1>17. ASSUME UNCHANGED vars PROVE SentFollows'
  BY <1>17 DEF vars, LastSent
<1> QED
  BY <1>1, <1>2, <1>3, <1>4, <1>5, <1>6, <1>7, <1>8, <1>9,
     <1>10, <1>11, <1>12, <1>13, <1>14, <1>15, <1>16, <1>17 DEF Next, Continues

LEMMA ProtocolInit == Init => RowProtocol
<1> SUFFICES ASSUME Init PROVE RowProtocol
  OBVIOUS
<1>1. user \in Row /\ (user.status = "on_hold" => user.duration # None)
  BY InputsAssumption DEF Init
<1>2. NeverOvercounted
  BY <1>1 DEF Init, NeverOvercounted, Row
<1>3. SentFollows
  BY DEF Init, SentFollows, LastSent
<1>4. CutOffForReason
  BY InputsAssumption DEF Init, CutOffForReason, Serves
<1> QED
  BY <1>1, <1>2, <1>3, <1>4 DEF Init, RowProtocol, CopiesComplete, OneAtATime, CopiesCurrent, JobsOnDue,
     OnHoldHasDuration

(* When actors do not overlap, each writes from the row as it is: the        *)
(* inductive invariant behind the theorems below.                            *)
THEOREM ProtocolHolds == ASSUME ~Overlap PROVE Spec => [](Typed /\ RowProtocol)
<1>1. Init => Typed /\ RowProtocol
  BY TypeInit, ProtocolInit
<1>2. Typed /\ RowProtocol /\ [Next]_vars => (Typed /\ RowProtocol)'
  BY TypeStep, OneStep, JobsStep, CopiesStep, CountStep, HoldStep, CutOffStep, SentStep DEF Typed, RowProtocol
<1> QED
  BY <1>1, <1>2, PTL DEF Spec

(* No sequence of edits, toggles, plans, resets and reviews leaves a user on *)
(* hold without the duration that start_users_expire will give it.           *)
THEOREM HoldsHaveDuration == ASSUME ~Overlap PROVE Spec => []OnHoldHasDuration
<1>1. RowProtocol => OnHoldHasDuration
  BY DEF RowProtocol
<1> QED
  BY <1>1, ProtocolHolds, PTL

(* lifetime_used_traffic never exceeds what was metered, although the        *)
(* recorder adds traffic between the load and the commit of a reset.         *)
THEOREM TrafficNotOvercounted == ASSUME ~Overlap PROVE Spec => []NeverOvercounted
<1>1. RowProtocol => NeverOvercounted
  BY DEF RowProtocol
<1> QED
  BY <1>1, ProtocolHolds, PTL

(* Once everything has been sent and applied, the nodes serve exactly the    *)
(* users that the panel shows active or on hold.                             *)
THEOREM NodesFollowRow == ASSUME ~Overlap PROVE Spec => []NodesFollow
<1>1. RowProtocol => NodesFollow
  BY DEF RowProtocol, SentFollows, LastSent, NodesFollow, Quiet
<1> QED
  BY <1>1, ProtocolHolds, PTL

(* No sequence of edits, toggles, plans, resets and reviews leaves a user    *)
(* expired before its expiry or limited below its data limit, while time     *)
(* passes and traffic is recorded between any two steps.                     *)
THEOREM CutOffsHaveReason == ASSUME ~Overlap PROVE Spec => []CutOffForReason
<1>1. RowProtocol => CutOffForReason
  BY DEF RowProtocol
<1> QED
  BY <1>1, ProtocolHolds, PTL
=============================================================================
