-------------------------- MODULE MCUserLifecycle --------------------------
(* Instances of the user's life.                                             *)
EXTENDS UserLifecycle

CONSTANTS admin

Fresh == [status |-> "active", expire |-> None, limit |-> 1, used |-> 0, duration |-> None,
          timeout |-> None, plan |-> None, online |-> "never"]
Held  == [Fresh EXCEPT !.status = "on_hold", !.duration = 1, !.timeout = 1]

MCCreated == {[Fresh EXCEPT !.expire = 1], Held}

TopUp    == [limit |-> 1, duration |-> 0, hold |-> FALSE, addRemaining |-> TRUE]
HoldPlan == [limit |-> 1, duration |-> 1, hold |-> TRUE, addRemaining |-> FALSE]

Empty == [status |-> None, expire |-> None, limit |-> None, duration |-> None,
          timeout |-> None, plan |-> None]
PutOnHold == [Empty EXCEPT !.status = "on_hold", !.duration = 1]
Activate  == [Empty EXCEPT !.status = "active", !.expire = 2]
Unlimit   == [Empty EXCEPT !.limit = 0, !.expire = 0]
Disable   == [Empty EXCEPT !.status = "disabled"]
Postpone  == [Empty EXCEPT !.expire = 2]
Extend    == [Empty EXCEPT !.limit = 2]
Attach(p) == [Empty EXCEPT !.limit = 1, !.plan = p]

MCPayloads == {PutOnHold, Activate, Unlimit, Disable, Postpone, Extend,
               Attach(TopUp), Attach(HoldPlan)}

\* For the run in which actors overlap: a user with a plan, and one on hold.
Reviewed == {[Fresh EXCEPT !.expire = 1, !.plan = TopUp], Held}
NoPayloads == {}

\* For the run about next plans.
NextPlans == {Attach(TopUp), Attach(HoldPlan)}
=============================================================================
