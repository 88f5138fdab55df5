# HPXPANEL: TLA+ models and proofs

HPXPANEL is a proxy management panel. A FastAPI backend keeps users, admins,
nodes and shop orders in a SQL database, pushes users to proxy nodes over gRPC,
meters their traffic, runs some thirty scheduled jobs, and sells plans through a
Telegram bot. It can run as one process or as several (backend, node worker,
scheduler) that share NATS. A React dashboard (`dashboard/`) is the admins' way
in; most of it is forms, but its editor of core configurations keeps drafts,
snapshots and timers of its own.

Most of what is hard in the backend is the same thing three times: a coroutine
loads something, awaits, and writes on the strength of what it loaded. Nothing
is locked; the only conditional writes are the compare-and-set of the
scheduler's lease and a few unique constraints. In the dashboard it is a draft
that lives beside a cached copy of the server's data, with answers that arrive
when the draft has moved on. The modules below are about who can come in between.

## Modules

| module | models | checked by |
|---|---|---|
| `JobLock` | what the lease promises a job: an atomic lock | implemented by `SchedulerLock` |
| `SchedulerLock` | the lease that keeps a scheduled job to one process | `MCSchedulerLock`, 1 run |
| `SchedulerLockProofs` | its theorems | tlapm |
| `ShopOrder` | orders, wallet, referral reward and revenue of the shop | `MCShopOrder`, 4 runs |
| `ShopOrderProofs`, `ShopSerialProofs` | its theorems: for any requests, and for requests that do not overlap | tlapm |
| `UserLifecycle` | one user's row under jobs, admins and traffic, and the nodes | `MCUserLifecycle`, 3 runs |
| `UserLifecycleProofs` | its theorems | tlapm |
| `CoreEditor` | the dashboard's editor of a core: store, JSON pane, loading, saving | `MCCoreEditor`, 2 runs |
| `CoreEditorProofs` | its theorems | tlapm |
| `XraySections` | the tables and dialogs of the editor's Xray lists | `MCXraySections`, 2 runs |
| `XraySectionsProofs` | its theorems | tlapm |

`CoreEditor` and `XraySections` are two views of one thing: what `XraySections`
calls `profile` is `ed.draft` of `CoreEditor`, each change of it is an
`EditDraft` there, and its `Refetch` is `FollowServer` there.

Definitions whose name ends in `_Something` after the name of another
definition (`Due_OverLimit`) are mutants: the same code with a plausible mistake,
kept beside the original to show that a property notices it. `PROJECT.json`
lists which property each one breaks, and gives the source lines of every
definition.

To run: `tlc -workers 2 -config SchedulerLock.cfg MCSchedulerLock`, and so on;
`tlapm SchedulerLockProofs.tla`, and so on for the modules named `...Proofs`.

## Inventory

| component | state | operations | meets | hard behaviour | what makes it correct |
|---|---|---|---|---|---|
| Scheduler lease (`app/scheduler_lock.py`) | one NATS key per job: owner, expiry, revision | acquire, renew, release, run_locked | NATS, every job | writes applied after their caller timed out, crashes, timing | one process runs a job; a dead owner blocks it for one lease at most |
| Shop (`app/operation/shop.py`, `app/db/crud/shop*.py`, `app/routers/shop.py`) | orders, wallet and its ledger, revenue ledger, referral flag | order, pay (four ways), approve, reject, expire, credit | gateways, Telegram, users | repeated and overlapping callbacks, several commits per request | money before service, service before revenue, each order served once, no money made by lost updates |
| User lifecycle (`app/db/crud/user.py`, `app/jobs/review_users.py`) | status, expiry, limit, usage, hold, next plan | review, reset, activate, enable, disable, modify, next plan | nodes, recorder, admins | stale copies, partial failure of a batch | nodes serve whom the panel shows; a disable lasts; usage is not counted twice |
| Usage recording (`app/jobs/record_usages.py`) | counters on nodes, buckets in SQL | collect, upsert, retry | nodes, users, admins | counters are reset when read; separate transactions | traffic is booked once or dropped |
| Notification queues (`app/notification`, `app/jobs/send_notifications.py`) | in-memory or JetStream queues | enqueue, dequeue, send, requeue | webhooks, Telegram, Discord | crash between dequeue and requeue, retries | at most `recurrent` tries, nothing lost while running |
| Nodes (`app/node`, `app/jobs/node_checker.py`) | connections, node status, users on the node | connect, health check, reconnect, sync | users, cores | reconnect racing updates, order of updates | a connected node converges to the database |
| HPX Tunnel, HPX Pulse (`app/operation/hpx_*.py`, `app/services/hpx_*`) | tunnels, endpoints, agents, queued commands | heartbeat, heal, fail over, restart | agents (shell scripts) | agents that poll, lost acknowledgements, flapping | one active endpoint, no command lost or run twice, cooldowns |
| WireGuard / OpenVPN allocation (`app/db/crud/wireguard.py`) | addresses per interface | allocate, release | users, cores | concurrent allocation | no address twice |
| Create budget (`app/utils/admin_create_budget.py`) | an admin's budget and its ledger | quote, charge, refund | users | concurrent charges | never below zero; the ledger adds up |
| Temporary keys, device limits (`app/db/crud/temp_key.py`, `hwid.py`) | keys, devices | issue, use, register | login, subscriptions | use twice, limit at its boundary | used once; limit kept |
| Rate limiting (`app/rate_limit.py`) | windows per key | hit | routers | boundary of the window | limit kept |
| Cores, hosts (`app/core`) | configurations in memory and in NATS | update, reload | nodes, subscriptions | stale copies in other processes | processes converge |
| Dashboard: core editor (`dashboard/src/features/core-editor/state`, `routes`) | draft and baseline per kind, snapshot, JSON text, two timers, query cache | load, edit, type JSON, switch kind, discard, save, refetch | API, Xray sections | late answers, debounced writes, another admin's saves | nothing unsaved is called saved; no background step loses an edit |
| Dashboard: Xray list sections (`.../components/xray`, `.../shared`) | rows of the draft, one dialog, ticks by index, observation draft | add, edit in place, import, commit, cancel, remove, tick, reorder | core editor | lists replaced under an open dialog, stale indices | tags unique, required rows and sources stay, selectors follow |
| Dashboard: list caches, other pages | cached lists, one form each | patch, submit | API | an old answer after a patch | not modelled |
| Admins, roles, API keys; Backup; NATS transport; Subscriptions; Telegram; Copilot; Importing; Observability; CLI, scripts, migrations | | | | | not modelled, reasons in `PROJECT.json` |

How they meet: every job runs inside `run_locked` of the lease. Jobs and
requests change rows through `app/db/crud`, then `app/operation` dispatches an
update to the nodes as a task of its own (`app/node/sync.py`) and enqueues
notifications. The recorder reads the nodes' counters and adds to the users'
rows. The shop creates users through the same operation as an admin does.

## SchedulerLock

An *instance* is one `run_locked` coroutine for one job id; `OwnerOf` says which
process it is in. `kv` is the NATS entry. `pc` follows the coroutine through
acquire (`acquireGet`, `acquireAwait`), the job body with its renewal task
(`sleep`, `renewGet`, `renewSend`, `renewAwait`), cancellation and release. A
write is a message: `req` while its caller waits, `abandoned` once the caller
has timed out, was cancelled or died. The server applies a write only if its
revision is the current one (`Succeeds`, external), at any time, also long after
it was abandoned; or never, if it was lost. `Tick` advances the wall clock but
not past a pending timer: asyncio's timers are taken to fire on time.

`scheduler_lock` (two processes, Lease 4, Renew 1, OpTimeout 1, so
`Renew + 2*OpTimeout < Lease`; 7 time units, 4 revisions and 1 abandoned write,
enough for a lease to expire, be taken over and meet a late write of its former
owner; the clock's bound is why the run may stop) checks

- `MutualExclusion`: one process at a time runs the job;
- `RunningHoldsLiveLease`: it does so under an unexpired lease of its own;
- `RecoveryBound`: no lease ever expires more than `Lease` from now;
- `LeaseNotStolen`: only its owner replaces or deletes an unexpired lease;
- `LeaseProtocol`: the inductive invariant of the proofs;
- `ImplementsLock`: seen from the job bodies alone the protocol is `JobLock`,
  whose `inside` is the set of instances that run their body (`Lock`, an
  `INSTANCE ... WITH`). It says more than mutual exclusion: no step hands the
  job from one instance to another, and none lets two in at once.

`validate_renew_interval` asks for `renew + timeout < lease` only, which is not
enough for `RunningHoldsLiveLease`: the expiry is stamped when acquire begins,
so an acquisition that uses its timeout has spent part of the lease before the
first renewal is scheduled. With Lease 4, Renew 1 and OpTimeout 2, which it
accepts, TLC finds a job that outlives its lease. The default settings
(30 + 2*6 < 120) satisfy the stronger condition.

Simplifications: a job body that is being cancelled because its lease is lost
no longer counts as running, although it may still be cleaning up; and that
`run_locked` itself is cancelled from outside (`scheduler_lock.py:192-212`, as in
a shutdown) is not modelled. It would release the lease while the job's task,
which nobody cancels then, goes on.

**Proved** (`SchedulerLockProofs`, any number of processes, any bounds):
`TypeCorrect`, `RecoveryIsBounded` and `LeaseIsNotStolen` from the settings
alone; `ProtocolInvariant`, `RunningIsCovered`, `JobsExclude` and
`LockImplemented` (the refinement, step by step) under two assumptions stated in the theorems, `OneInstancePerProcess` (a job does not
overlap itself within a process) and `SafeTiming`. `MutualExclusion` is not
inductive: a coroutine that is *about* to hold a lease, and a write that nobody
waits for, matter. `LeaseProtocol` says of every write in flight that it was
decided on the entry the server still has, or will meet a later revision and
fail (`Sound`); of every timer that it has not been missed; and of the holder
that its lease expires after the timer it waits on, with no write of an earlier
run left that could touch it (`LeaseOutlivesTimer`). Two holders would then be
the owner of one entry.

## ShopOrder

A *session* is one request: an admin's approve or reject, a gateway callback
(`NowpaymentsIpn`, `StripeWebhook`), a browser's return (`PaymentReturn`), a
wallet checkout, an admin's credit, a sweep of unpaid orders. Every commit is a
step of its own, because another session may commit in between, and a session
decides on the row it loaded. `served` counts the users created or renewed for
an order. `confirmed` and `debited` record where the money came from. `Dies`
ends a request after any commit.

- `shop_serial` (one session, one order of each payment method; `FairSpec`: a
  request that has begun is run to its end): `ServedOnce`, `SettledStays`,
  `RewardedOnce`, `RevenueComplete`, their inductive invariant
  `SerialProtocol`, and that a recorded payment does not leave its order waiting
  (`PaidLeavesAwaiting`).
- `shop_concurrent` (two sessions over two wallet orders and a callback order,
  requests may die; symmetric in the sessions and in the wallet orders):
  `ServedWasPaid`, `BookedWasServed`, `NoMoneyMade`, and the inductive invariant
  `OrderProtocol`. `credit_wallet` stores a balance computed from the one it
  loaded, so overlapping credits, debits and rewards lose each other's updates
  and the ledger does not add up to the balance. `NoMoneyMade` says how far that
  can go: the balance never exceeds what the ledger says was given, and only what
  an admin took back, never a purchase, brings it below zero. The second half
  rests on the purchase being tested against the very balance it is taken from.
  Its mutant is the obvious repair of the lost update, `balance = balance + amount`
  in the database with the test left where it is: two checkouts then overdraw.
- `shop_duplicate_callback`: `ServedOnce`, which a docstring promises, fails
  when two callbacks overlap. So do `RewardedOnce`, when two orders of an
  invited buyer are approved at once, and `SettledStays`.
- `shop_redirect`: an order whose payment `payment_return` has verified is not
  fulfilled, since the handler looks for the status `pending` and gateway orders
  have `awaiting_payment`; the sweep then expires it.

Bounds: an order is served at most twice (`MaxServed`; the wallet orders of
`shop_concurrent`, of which there are two, once each) and the admin credits
once, or twice where two credits overlap (`MaxCredits`): two of each is where a
duplicate shows.

**Proved** (`ShopOrderProofs`, any orders, sessions and amounts, requests that
overlap and die): `TypeCorrect`; `MoneyFirst`, an order not paid by card is
served only after its money was seen; `ServiceFirst`, nothing is approved or
booked before its user exists; `LostUpdatesMakeNoMoney`, the wallet stays within
its ledger's bounds. `OrderProtocol` strengthens them with what each
session knows at each step: that an order marked paid is backed, that an order
up for approval is paid or a card order, that a session about to approve or
book has served, and that a balance a session holds was stored once and covers
what it is held for (`CopiesWithinLedger`: the bounds only widen, so a stale copy
is still within them) (`OrdersKeepProtocol`).

`ShopSerialProofs` is about requests that do not overlap (`OneRequest`: there is
one session), for any orders and amounts. What the code then still owes to the
absence of crashes is visible in the hypotheses. `SettledOrdersStay` needs
nothing more: a request that dies forgets what it read. `OrdersServedOnce`,
`ReferrerRewardedOnce` and `RevenueIsComplete` also assume `~CanDie`, since the
effect and the row that records it are two commits. `SerialProtocol`
(`SerialHolds`) says why each is safe: an order still has the status on which its
session decided (`StatusKnown`), and a service, a reward or a sale that is not recorded yet is
about to be, by the session at work (`ServiceRecorded`, `RewardRecorded`,
`SaleRecorded`). None of the four is inductive by itself: each allows a state in
which a session has decided on what is no longer so, and its next step breaks it.

Simplifications: one wallet, that of the referrer; age of unpaid orders is left
open; the renewal's modify and reset count as one service; the re-check of the
balance before a debit sees the loaded row (`expire_on_commit=False`), so it
cannot fail and is left out; the unique constraint on the revenue row's order
(`models.py:1460`) is taken as given, `sales` being the set of orders that have
one, and a conflict on it ends the request; a credit of 0 writes nothing and is
left out.
Discount codes, the referral reward in data and support tickets are left out.

## UserLifecycle

One row of `users`: users do not interact, and an error on another user in a
job's batch is `Fails`. An *actor* is a job or a request. It loads the row
(`JobReads`, `AdminReads`), commits, refreshes its copy, and sends to the nodes
what the copy says (`SyncUser`). `Flush` is SQLAlchemy's: columns whose value
differs from the loaded one are written over the row as it is now.
`update_users_status` and the traffic recorder are single SQL statements. The
status decisions of `modify_user` (`ModifiedStatus`, `ExpiryStatus`,
`LimitStatus`), of enabling (`ResolveEnabled`) and of next plans
(`NextPlanned`) keep all branches of the code.

- `user_lifecycle` (all jobs and requests, one at a time, each of which may stop
  after any commit): `NodesFollow`, the nodes serve the user exactly if the
  panel shows it active or on hold, once all is quiet and unless an actor
  stopped between its last commit and its update (`unsent`, which the next
  update clears); `OnHoldHasDuration`; `NeverOvercounted` (resets log no traffic
  that was not metered, also when the recorder comes in between);
  `CutOffForReason`, a user that is expired is past its expiry and one that is
  limited is at or over its data limit, after any sequence of edits that move
  either, toggles, resets, plans and reviews; and the inductive invariant
  `RowProtocol`.
- `user_reviews` (three review jobs and a toggling admin overlap):
  `ReviewsHappen`. `FairSpec`: the scheduler runs each job again and again, the
  event loop continues what has begun, updates reach the nodes. Sending is
  strongly fair because the bound on the queue, which the code does not have,
  must not hold an actor back for ever.
- `user_next_plan`: `PlanAsPredicted`, a next plan leaves the user with the
  status and data limit that `_predict_next_plan_budget_payload` charged the
  admin for, fails: a template on hold is activated at once, and traffic over
  the limit is deducted where the prediction clamps it at zero.

Bounds: times 0..2, traffic 0..2 against limits of 1 and 2, so
that a user is under, at and over its limit; one update on its way to the nodes;
a plan is attached only below `MaxLimit`, else limits would grow for ever.

Simplifications: whose reset is due is left open; the budget of a next plan is a
choice (`PlanRefused`); a dispatched update arrives, and in order
(`NodesUpdate`; in the code `update_user` may raise in its task and is not
retried); a template on hold sets no timeout; a next plan has a data limit, its
own or its template's (without one `reset_user_by_next` raises before its commit,
which is `Fails`); an admin whose users are cut off, group quotas, reminders, WireGuard
addresses, creation, deletion and bulk edits are left out.

**Proved** (`UserLifecycleProofs`, any admins, jobs, payloads, users to begin
with, bounds and length of the queue): `TypeCorrect` for any actors, overlapping
or not; under `~Overlap`, `HoldsHaveDuration`, `TrafficNotOvercounted`,
`NodesFollowRow` and `CutOffsHaveReason`, with failures after any commit and the
recorder at any moment. The properties speak of the row, the steps write from
copies of it, so the invariant `RowProtocol` (`ProtocolHolds`) relates the two:
one actor is at work (`OneAtATime`); the copy it will write from is the row but
for traffic recorded since, and the copy it will send has the row's status
(`CopiesCurrent`); what a job found due is due when it writes, since time and
traffic only grow (`JobsOnDue`); and the last update
sent, wherever it is in the queue, is what the row says unless an actor stopped
before sending (`SentFollows`). That an edit keeps `CutOffForReason` is
`ModifiedReason`: each of its three decisions either names a reason that the
stored expiry and limit bear out, or lifts the cut-off.

With overlapping actors (`Overlap = TRUE` in `UserLifecycle.cfg`) TLC refutes
`NodesFollow`, `OnHoldHasDuration`, `NeverOvercounted` and `CutOffForReason`, and
no document claims them there: an UPDATE keyed by the id alone overwrites what
came in between.

## CoreEditor

The store (`ed`, `snapshot`), the page (`page`, `failed`), the query cache
(`coreData`, `fetch`), a save under way (`save`) and the core in the database
(`server`), which another administrator may change. A configuration is a token:
`Normal` ones are what the editor writes, `Foreign` ones are JSON from elsewhere,
`Import` is what the adapters make of them, any function that leaves the normal
ones alone. Each kind keeps a draft of its own in the code; every reader selects
by the kind and every change of kind writes the new draft, so the model keeps
one. `applyTimer` and `syncTimer` are the two debounced functions of
`useCoreDraftMonacoSync`; `Rearm` says after every change of the store what its
effects do to them. `known` is history: the draft the server last had as far as
this editor was told.

`core_editor` (kinds xray and wg, two normal and two foreign configurations, one
of which cannot be imported, text that is not JSON) checks

- `CleanMeansSaved`: with "All changes saved" in the save bar, what is shown is
  what the server is known to have, whatever was loaded, typed, refused, saved
  or discarded before;
- `EditsSurvive`, `TypedTextSurvives`: no timer, refetch or late answer replaces
  a draft with unsaved edits, or typed text that is not merged yet;
- `TypedIsMerged`: valid JSON is merged once typing stops, also when an error
  page has come and gone. `FairSpec` is weak fairness of the merge's timer: a
  browser's timer that is neither cancelled nor restarted fires;
- `EditorProtocol`: the inductive invariant of the proofs.

Three constants restrict the user in this run, and each marks something the code
gets wrong without the restriction: `EditsWhileSaving` (edits made while a save
is under way are marked clean with its answer: run `core_editor_saved`),
`SwitchesBack` (the kind switched away and back leaves a blank draft that counts
as unchanged), `LeavesJsonEarly` (leaving the pane or saving within 420 ms
cancels the merge). `TagSets` has one member in the pass run, to keep it small;
two in the other.

**Proved** (`CoreEditorProofs`, any names, tags, configurations and texts, any
`Import` that leaves normal configurations alone, any cores that others save):
`TypeCorrect` with no restriction on the user; `SaveBarIsRight`, `EditsAreKept`
and `TypedTextIsKept` for a user who keeps to the three restrictions (`Careful`).
`CleanMeansSaved` compares the draft with what the server is known to have, while
`selectCoreEditorHasActualChanges` compares it with the baseline of its kind, and
kind, name and tags with the snapshot; `EditorProtocol` (`ProtocolHolds`) connects
them. Baseline and snapshot are what is known (`BaselineKnown`), a save under way
is of the draft as it is, with no typed text outstanding (`SaveIsDraft`), so that
`markClean` marks what was sent; a core just created has no edits before it is
loaded (`CreatedIsClean`), since while `isNew` is still set the page takes over
what arrives whether or not the draft has changes; and a merge is pending only with typed text in a mounted pane
(`TimerHasText`).

## XraySections

The tables of inbounds, outbounds, balancers and routing rules, of which one is
mounted at a time, with one dialog that adds a row or edits one, and the dialog
of the observation sources. An edit goes into the profile with every key
(`Patch`); a new row is kept in the dialog until it is committed. A row is its
tag and one trait: whether an outbound can be observed, whether a balancer is
leastPing. `checked` is history: no tag was written to the row that the
uniqueness check had not passed. Ticks are indices, as in the code.

`xray_sections` (outbounds and balancers, two tags, at most two outbounds and
one balancer, symmetric in the tags; the server's profiles are closed under
renaming tags) checks

- `TagsUnique`: rows whose tags were all checked do not collide, across the
  lists, and after refetches under an open dialog;
- `LastRowStays`: no removal takes the last outbound, also with stale ticks;
- `ObservationKept`: on the balancers' page a balancer has a source;
- `SelectorsFollow`: a source that observes every outbound goes on doing so;
- `DialogProtocol`: what the proof of `TagsUnique` needs to know of a dialog.

`Refetch` may happen whenever the draft is equal to some profile of the server:
every one of them can have been saved, so that the draft counts as clean.
`Picks` and `TraitSections` bound which selectors the user chooses (the empty
one, the case that differs) and where traits change. `xray_discard` (inbounds
and rules): the question before an edit is discarded says that modifications
will be lost; they are in the profile already, and stay.

Simplifications, all of inbounds: the code awaits the form's validation between
the check of the tag and the write (`xray-inbounds-section.tsx:1694-1713`,
`1721-1834`), here one step, so that a refetch between the two is not seen; the
generated tag of a new inbound is written to form and draft again at every
change of protocol, port or transport (`1327-1343`), here when the dialog opens,
the commit checking whatever tag it then finds; and switching the protocol of an
inbound sets the tag of the form (`2699`), which here the user types.

**Proved** (`XraySectionsProofs`, any tags, any of the four sections, lists of any
length, any selectors): `TypeCorrect`, `MinimumIsKept`, `BalancersAreObserved` and
`SelectorsAreKept` without further assumptions; `ConfirmedTagsDiffer` under
`NobodyElse`. The assumption is empty unless inbounds are among the sections, and
marks a gap in the code: `commitAddInbound` checks the tag in the form and
appends the draft, whose tag is an older one when the typed tag was refused. As
long as the profile does not change under the dialog the older tag is still free
(`AddedIsForm`); a refetch of what somebody else saved can make it a duplicate.
The other sections append or check what the form shows and need no assumption.

`TypeOK` and `LastRowStays` are proved together (`Typed` in the proof module: a
dialog that edits has a row number, lists keep their minimum). The proofs rest on
lemmas about the list operators: a list without some rows is as long as the
number of rows left and its rows are distinct rows of the old one in their order
(`DropRowsFacts`, by counting, which is why `DropRows` is written with
cardinalities), moving a row permutes the list (`arrayMoveFacts`,
`arrayMoveSet`), so both preserve that tags differ (`UniqInject`), while a row
that is set or appended does if its tag is free (`UniqSet`, `UniqAppend`).
`TagsUnique` alone is not inductive: a tag may be in the profile unchecked, and
a later commit confirms it on the strength of the form, so that `DialogProtocol`
must say that the form of a balancer shows the tag that was written
(`UncheckedIsShown`).

## Only model-checked

Liveness (`PaidLeavesAwaiting`, `ReviewsHappen`, `TypedIsMerged`): the prover has
no rules for fairness. Every invariant and every action property of the passing
runs is stated by a theorem, the assumptions of which (no overlap, no deaths, the
editor's three restrictions, nobody else at the inbounds) are those of its run or
weaker. Of the properties that the other runs refute, `ServedOnce` and
`CleanMeansSaved` are theorems under such assumptions; `ConfirmedNotExpired`,
`PlanAsPredicted` and `DiscardedEditsAreLost` are not true of the code.

## Not modelled

`PROJECT.json` lists every component that is left out, with the reason. By
lines, most of the repository is the dashboard: a generated API client (18,000
lines), and pages, dialogs and charts whose lines are layout, wording and the
validation of single fields. A model of those would be a list of fields. What has
state and timing there is the core editor, and the share of the dashboard that
the models translate (about 2 %) is accordingly small; the backend's core, in
Python, is where the other modules are. Left out of the core editor itself:
what the forms of each protocol and transport edit within a row, the DNS
section, the adapters' treatment of single settings, the Reality scanner and the
latency test.

Met while reading, outside what the modules state: a plain-function job goes on
in its thread after its lease is lost (`scheduler_lock.py:218`), and leases of
hosts with skewed clocks are compared as they are (`:92`); a webhook after the
sweep marks an expired order paid and no more (`routers/shop.py:368`); an edit of
a user that does not repeat the next plan deletes it (`crud/user.py:1206`); a
notification that does not parse requeues the previous one
(`send_notifications.py:89`); a save of a core carries no version, so the last
one wins (`core-editor-page.tsx:422`); a WireGuard configuration that does not
parse is replaced by a new draft, which a save of the new name then stores
(`core-editor-store.ts:314`); a tag edited in the JSON tab of an outbound is
undone by Modify on the form tab (`xray-outbounds-section.tsx:820`); a new
inbound is appended with its draft's tag after the form's was checked
(`xray-inbounds-section.tsx:1693`); removing an outbound leaves the rules that
name it (`xray-outbounds-section.tsx:897`); a list fetched before a mutation
undoes the patch of the cache (`utils/usersCache.ts`).

## Plan

1. Model more: `UsageRecording` (counters, transactions, retries, with the
   user's row), `NotificationQueue` (dequeue, send, requeue, crash), `NodeSync`
   (connect, health, reconnect, updates out of order), `HpxTunnel` (failover and
   cooldown), `HpxPulse` (commands to polling agents), `CreateBudget`
   (concurrent charges), `AddressPool` (WireGuard). `NodeSync` composes with
   `UserLifecycle` in place of its queue.
2. Abstract specifications: a ledger that wallet and budget implement, an
   at-most-n-tries channel for notifications.
3. Proofs: that `XraySections` implements the edits `CoreEditor` allows (its
   profile as the draft); what is left of `NodesFollow` and `NeverOvercounted`
   when actors overlap but none writes from a stale copy.
4. Runs: two instances of one job in a process (`max_instances=30`), discount
   codes of the shop.
