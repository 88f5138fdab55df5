----------------------------- MODULE ShopOrder -----------------------------
(***************************************************************************)
(* Orders, wallet and revenue of the Telegram shop, as the request         *)
(* handlers of several processes see them.                                 *)
(*                                                                         *)
(* A session is one request (an AsyncSession): an admin's approve or       *)
(* reject, a gateway callback, a browser return, a wallet checkout, an     *)
(* admin's wallet credit or a sweep of unpaid orders.  A session works on  *)
(* the row it loaded; no row is locked, an UPDATE names only the columns   *)
(* that changed and is keyed by the id alone, and a row already in the     *)
(* session is read from the database again only by refresh.  So a step     *)
(* below is what happens between two points at which another session can   *)
(* commit, and a session decides on what it loaded, not on what is stored. *)
(***************************************************************************)
EXTENDS Integers, FiniteSets

CONSTANTS
    Sessions,       \* requests that can be in progress at the same time
    Orders,         \* ids of orders that may be placed
    MethodOf,       \* payment method: "card", "wallet", or a gateway
    Purchases,      \* orders that create a user; the others renew one
    Invited,        \* orders of the buyer that the wallet's owner referred
    Price,          \* of an order paid by wallet
    Reward,         \* referral_reward_toman
    Adjustments,    \* amounts an admin credits (or takes); 0 writes nothing
    CanDie,         \* may a request be cut short (crash, lost database)?
    MaxServed,      \* bound: times each order is served
    MaxCredits      \* bound: wallet credits by the admin

Gateways == {"ipn", "webhook", "redirect"}
Methods  == {"card", "wallet"} \cup Gateways

ASSUME OrdersAssumption ==
    /\ MethodOf \in [Orders -> Methods]
    /\ Purchases \subseteq Orders
    /\ Invited \subseteq Orders

ASSUME AmountsAssumption ==
    /\ Price \in Nat \ {0} /\ Reward \in Nat \ {0}
    /\ Adjustments \subseteq Int \ {0}
    /\ CanDie \in BOOLEAN
    /\ MaxServed \in [Orders -> Nat] /\ MaxCredits \in Nat

VARIABLES
    order,      \* the shop_orders rows: status and payment_paid
    confirmed,  \* orders whose payment the gateway has confirmed to the panel
    served,     \* how often each order created, or renewed, its user
    sales,      \* orders with a row in shop_revenue_ledger
    balance,    \* balance_toman of the wallet
    ledger,     \* its shop_wallet_ledger rows that are no purchase, added up by sign
    debited,    \* orders with a purchase row there
    rewards,    \* referral rows there
    credits,    \* adjust rows there
    rewarded,   \* referral_rewarded of the invited buyer's profile
    pc,         \* where each session is
    job,        \* the order it works on
    rows,       \* the unpaid orders a sweep has loaded
    wallet,     \* the balance it has loaded
    amount,     \* what it adds to that
    purpose     \* and why

database == <<order, confirmed, served, sales, balance, ledger, debited, rewards,
              credits, rewarded>>
vars == <<database, pc, job, rows, wallet, amount, purpose>>

-----------------------------------------------------------------------------
(* State space *)

Statuses == {"none", "awaiting", "pending", "approved", "rejected", "expired"}
PCs == {"idle", "expiring", "rejecting", "markPaid", "reload", "toPending", "create",
        "approve", "sale", "saleInsert", "reward", "creditRead", "creditWrite",
        "flag", "walletOrder", "walletPaid"}

TypeOK ==
    /\ order \in [Orders -> [status : Statuses, paid : BOOLEAN]]
    /\ confirmed \subseteq Orders
    /\ served \in [Orders -> Nat]
    /\ sales \subseteq Orders
    /\ balance \in Int
    /\ ledger \in [given : Nat, taken : Nat]
    /\ debited \subseteq Orders
    /\ rewards \in Nat /\ credits \in Nat
    /\ rewarded \in BOOLEAN
    /\ pc \in [Sessions -> PCs]
    /\ job \in [Sessions -> Orders]
    /\ rows \in [Sessions -> SUBSET Orders]
    /\ wallet \in [Sessions -> Int] /\ amount \in [Sessions -> Int]
    /\ purpose \in [Sessions -> {"none", "adjust", "referral", "purchase"}]

Init ==
    /\ order = [o \in Orders |-> [status |-> "none", paid |-> FALSE]]
    /\ confirmed = {} /\ sales = {} /\ debited = {}
    /\ served = [o \in Orders |-> 0]
    /\ balance = 0 /\ rewards = 0 /\ credits = 0
    /\ ledger = [given |-> 0, taken |-> 0]
    /\ rewarded = FALSE
    /\ pc = [s \in Sessions |-> "idle"]
    /\ \E o \in Orders : job = [s \in Sessions |-> o]
    /\ rows = [s \in Sessions |-> {}]
    /\ wallet = [s \in Sessions |-> 0] /\ amount = [s \in Sessions |-> 0]
    /\ purpose = [s \in Sessions |-> "none"]

-----------------------------------------------------------------------------
(* Helpers *)

Goto(s, label) == pc' = [pc EXCEPT ![s] = label]
Starts(s, o, label) ==
    /\ pc[s] = "idle"
    /\ Goto(s, label)
    /\ job' = [job EXCEPT ![s] = o]
    /\ UNCHANGED <<rows, wallet, amount, purpose>>

SetStatus(o, status) == order' = [order EXCEPT ![o].status = status]
SetPaid(o) == order' = [order EXCEPT ![o].paid = TRUE]

\* Mutant of InitialStatus: every new order is up for review.
InitialStatus_Pending(o) == "pending"

\* create_shop_order: nothing but a card receipt is reviewed unpaid.
InitialStatus(o) == IF MethodOf[o] = "card" THEN "pending" ELSE "awaiting"

\* Mutant of FulfilFrom: an approved order is not recognised.
FulfilFrom_Again(row) ==
    CASE row.status \in {"rejected", "expired"} -> "idle"
      [] row.status \notin {"rejected", "expired"} /\ ~row.paid -> "markPaid"
      [] row.status = "awaiting" /\ row.paid -> "toPending"
      [] OTHER -> "create"

\* fulfill_paid_order, from the row the session holds to its first write.
FulfilFrom(row) ==
    CASE row.status \notin {"pending", "awaiting"} -> "idle"
      [] row.status \in {"pending", "awaiting"} /\ ~row.paid -> "markPaid"
      [] row.status = "awaiting" /\ row.paid -> "toPending"
      [] OTHER -> "create"

-----------------------------------------------------------------------------
(* Requests that place an order or take a payment *)

\* A buyer uploads a card receipt, or is sent to a gateway.
CreateOrder(o) ==
    /\ MethodOf[o] # "wallet" /\ order[o].status = "none"
    /\ SetStatus(o, InitialStatus(o))
    /\ UNCHANGED <<confirmed, served, sales, balance, ledger, debited, rewards, credits,
                   rewarded, pc, job, rows, wallet, amount, purpose>>

\* nowpayments_ipn with a paid status; sent once per status change of a payment.
NowpaymentsIpn(s, o) ==
    /\ MethodOf[o] = "ipn" /\ order[o].status # "none"
    /\ Starts(s, o, FulfilFrom(order[o]))
    /\ confirmed' = confirmed \cup {o}
    /\ UNCHANGED <<order, served, sales, balance, ledger, debited, rewards, credits, rewarded>>

\* stripe_webhook marks the order paid whatever its status, then fulfils it.
StripeWebhook(s, o) ==
    /\ MethodOf[o] = "webhook" /\ order[o].status # "none"
    /\ Starts(s, o, "markPaid")
    /\ confirmed' = confirmed \cup {o}
    /\ UNCHANGED <<order, served, sales, balance, ledger, debited, rewards, credits, rewarded>>

\* payment_return: a redirect gateway confirms here, the others count as paid
\* when their callback has said so; only a pending order is fulfilled.
PaymentReturn(s, o) ==
    /\ MethodOf[o] \in Gateways /\ order[o].status # "none"
    /\ MethodOf[o] # "redirect" => order[o].paid
    /\ Starts(s, o, IF order[o].status = "pending" THEN FulfilFrom(order[o]) ELSE "idle")
    /\ confirmed' = IF MethodOf[o] = "redirect" THEN confirmed \cup {o} ELSE confirmed
    /\ UNCHANGED <<order, served, sales, balance, ledger, debited, rewards, credits, rewarded>>

\* continue_wallet_checkout: the wallet is loaded once and covers the price.
WalletCheckout(s) ==
    /\ pc[s] = "idle" /\ balance >= Price
    /\ \E o \in Orders : MethodOf[o] = "wallet" /\ order[o].status = "none"
    /\ Goto(s, "walletOrder")
    /\ wallet' = [wallet EXCEPT ![s] = balance]
    /\ UNCHANGED <<database, job, rows, amount, purpose>>

\* The order row; debit_wallet then tests the balance already loaded.
WalletOrder(s, o) ==
    /\ pc[s] = "walletOrder"
    /\ MethodOf[o] = "wallet" /\ order[o].status = "none"
    /\ Goto(s, "creditWrite")
    /\ job' = [job EXCEPT ![s] = o]
    /\ amount' = [amount EXCEPT ![s] = -Price]
    /\ purpose' = [purpose EXCEPT ![s] = "purchase"]
    /\ SetStatus(o, InitialStatus(o))
    /\ UNCHANGED <<confirmed, served, sales, balance, ledger, debited, rewards, credits,
                   rewarded, rows, wallet>>

WalletPaid(s) ==
    /\ pc[s] = "walletPaid"
    /\ Goto(s, "reload")
    /\ SetPaid(job[s])
    /\ UNCHANGED <<confirmed, served, sales, balance, ledger, debited, rewards, credits,
                   rewarded, job, rows, wallet, amount, purpose>>

-----------------------------------------------------------------------------
(* credit_wallet: a balance is loaded, changed and stored *)

\* credit_wallet_payload: any amount, of either sign.
AdminCredits(s) ==
    /\ pc[s] = "idle" /\ credits < MaxCredits
    /\ Goto(s, "creditWrite")
    /\ wallet' = [wallet EXCEPT ![s] = balance]
    /\ \E a \in Adjustments : amount' = [amount EXCEPT ![s] = a]
    /\ purpose' = [purpose EXCEPT ![s] = "adjust"]
    /\ UNCHANGED <<database, job, rows>>

CreditRead(s) ==
    /\ pc[s] = "creditRead"
    /\ Goto(s, "creditWrite")
    /\ wallet' = [wallet EXCEPT ![s] = balance]
    /\ UNCHANGED <<database, job, rows, amount, purpose>>

\* The ledger with a row of this kind and amount: what the shop gives (a
\* referral, an admin's credit) or an admin takes back.
LedgerWith(kind, a) ==
    CASE kind = "purchase"            -> ledger
      [] kind # "purchase" /\ a > 0   -> [ledger EXCEPT !.given = @ + a]
      [] kind # "purchase" /\ a <= 0  -> [ledger EXCEPT !.taken = @ - a]

\* Mutant of CreditWrite: the database adds the amount to what is stored now,
\* while the purchase was tested against what was loaded.
CreditWrite_AddsToStored(s) ==
    /\ pc[s] = "creditWrite"
    /\ Goto(s, CASE purpose[s] = "adjust"   -> "idle"
                 [] purpose[s] = "referral" -> "flag"
                 [] OTHER                   -> "walletPaid")
    /\ balance' = balance + amount[s]
    /\ ledger' = LedgerWith(purpose[s], amount[s])
    /\ debited' = IF purpose[s] = "purchase" THEN debited \cup {job[s]} ELSE debited
    /\ rewards' = IF purpose[s] = "referral" THEN rewards + 1 ELSE rewards
    /\ credits' = IF purpose[s] = "adjust" THEN credits + 1 ELSE credits
    /\ wallet' = [wallet EXCEPT ![s] = 0]
    /\ amount' = [amount EXCEPT ![s] = 0]
    /\ purpose' = [purpose EXCEPT ![s] = "none"]
    /\ UNCHANGED <<order, confirmed, served, sales, rewarded, job, rows>>

CreditWrite(s) ==
    /\ pc[s] = "creditWrite"
    /\ Goto(s, CASE purpose[s] = "adjust"   -> "idle"
                 [] purpose[s] = "referral" -> "flag"
                 [] OTHER                   -> "walletPaid")
    /\ balance' = wallet[s] + amount[s]
    /\ ledger' = LedgerWith(purpose[s], amount[s])
    /\ debited' = IF purpose[s] = "purchase" THEN debited \cup {job[s]} ELSE debited
    /\ rewards' = IF purpose[s] = "referral" THEN rewards + 1 ELSE rewards
    /\ credits' = IF purpose[s] = "adjust" THEN credits + 1 ELSE credits
    /\ wallet' = [wallet EXCEPT ![s] = 0]
    /\ amount' = [amount EXCEPT ![s] = 0]
    /\ purpose' = [purpose EXCEPT ![s] = "none"]
    /\ UNCHANGED <<order, confirmed, served, sales, rewarded, job, rows>>

-----------------------------------------------------------------------------
(* fulfill_paid_order and approve_order *)

MarkPaid(s) ==
    /\ pc[s] = "markPaid"
    /\ Goto(s, "reload")
    /\ SetPaid(job[s])
    /\ UNCHANGED <<confirmed, served, sales, balance, ledger, debited, rewards, credits,
                   rewarded, job, rows, wallet, amount, purpose>>

\* Mutant of Reload: an order still awaiting payment is left to the admin.
Reload_KeepsAwaiting(s) ==
    /\ pc[s] = "reload"
    /\ Goto(s, IF order[job[s]].status = "pending" THEN "create" ELSE "idle")
    /\ UNCHANGED <<database, job, rows, wallet, amount, purpose>>

\* refresh after a commit, and the checks on the row that follow it.
Reload(s) ==
    /\ pc[s] = "reload"
    /\ Goto(s, CASE order[job[s]].status = "awaiting" -> "toPending"
                 [] order[job[s]].status = "pending"  -> "create"
                 [] OTHER                             -> "idle")
    /\ UNCHANGED <<database, job, rows, wallet, amount, purpose>>

\* Mutant of ToPending: a status the enumeration does not have.
ToPending_PaidStatus(s) ==
    /\ pc[s] = "toPending"
    /\ Goto(s, "reload")
    /\ SetStatus(job[s], "paid")
    /\ UNCHANGED <<confirmed, served, sales, balance, ledger, debited, rewards, credits,
                   rewarded, job, rows, wallet, amount, purpose>>

ToPending(s) ==
    /\ pc[s] = "toPending"
    /\ Goto(s, "reload")
    /\ SetStatus(job[s], "pending")
    /\ UNCHANGED <<confirmed, served, sales, balance, ledger, debited, rewards, credits,
                   rewarded, job, rows, wallet, amount, purpose>>

\* approve_order by an admin.
ApproveOrder(s, o) ==
    /\ order[o].status = "pending"
    /\ Starts(s, o, "create")
    /\ UNCHANGED database

\* _approve_purchase_order or _approve_renewal_order up to the user's commit.
CreateUser(s) ==
    /\ pc[s] = "create" /\ served[job[s]] < MaxServed[job[s]]
    /\ Goto(s, "approve")
    /\ served' = [served EXCEPT ![job[s]] = @ + 1]
    /\ UNCHANGED <<order, confirmed, sales, balance, ledger, debited, rewards, credits,
                   rewarded, job, rows, wallet, amount, purpose>>

\* Mutant of CreateFails: the error is logged and the approval goes on.
CreateFails_Swallowed(s) ==
    /\ pc[s] = "create"
    /\ Goto(s, "approve")
    /\ UNCHANGED <<database, job, rows, wallet, amount, purpose>>

\* The plan, the group, the user to renew is gone, or the user is refused.
CreateFails(s) ==
    /\ pc[s] = "create"
    /\ Goto(s, "idle")
    /\ UNCHANGED <<database, job, rows, wallet, amount, purpose>>

MarkApproved(s) ==
    /\ pc[s] = "approve"
    /\ Goto(s, "sale")
    /\ SetStatus(job[s], "approved")
    /\ UNCHANGED <<confirmed, served, sales, balance, ledger, debited, rewards, credits,
                   rewarded, job, rows, wallet, amount, purpose>>

-----------------------------------------------------------------------------
(* record_shop_sale and apply_referral_reward *)

AfterSale(s) == IF job[s] \in Purchases \cap Invited THEN "reward" ELSE "idle"

\* Mutant of SaleCheck: renewals book no revenue.
SaleCheck_PurchasesOnly(s) ==
    /\ pc[s] = "sale"
    /\ Goto(s, IF job[s] \in sales \/ job[s] \notin Purchases THEN AfterSale(s) ELSE "saleInsert")
    /\ UNCHANGED <<database, job, rows, wallet, amount, purpose>>

SaleCheck(s) ==
    /\ pc[s] = "sale"
    /\ Goto(s, IF job[s] \in sales THEN AfterSale(s) ELSE "saleInsert")
    /\ UNCHANGED <<database, job, rows, wallet, amount, purpose>>

\* The unique constraint on order_id refuses a second row; the rollback leaves
\* the order unloaded, which the remaining steps do not survive.
SaleInsert(s) ==
    /\ pc[s] = "saleInsert"
    /\ Goto(s, IF job[s] \in sales THEN "idle" ELSE AfterSale(s))
    /\ sales' = sales \cup {job[s]}
    /\ UNCHANGED <<order, confirmed, served, balance, ledger, debited, rewards, credits,
                   rewarded, job, rows, wallet, amount, purpose>>

RewardCheck(s) ==
    /\ pc[s] = "reward"
    /\ IF rewarded
       THEN Goto(s, "idle") /\ UNCHANGED <<amount, purpose>>
       ELSE /\ Goto(s, "creditRead")
            /\ amount' = [amount EXCEPT ![s] = Reward]
            /\ purpose' = [purpose EXCEPT ![s] = "referral"]
    /\ UNCHANGED <<database, job, rows, wallet>>

\* Mutant of RewardFlag: the profile is not marked.
RewardFlag_NotSet(s) ==
    /\ pc[s] = "flag"
    /\ Goto(s, "idle")
    /\ UNCHANGED <<database, job, rows, wallet, amount, purpose>>

RewardFlag(s) ==
    /\ pc[s] = "flag"
    /\ Goto(s, "idle")
    /\ rewarded' = TRUE
    /\ UNCHANGED <<order, confirmed, served, sales, balance, ledger, debited, rewards,
                   credits, job, rows, wallet, amount, purpose>>

-----------------------------------------------------------------------------
(* reject_order, and the sweep of unpaid orders *)

RejectOrder(s, o) ==
    /\ order[o].status = "pending"
    /\ Starts(s, o, "rejecting")
    /\ UNCHANGED database

MarkRejected(s) ==
    /\ pc[s] = "rejecting"
    /\ Goto(s, "idle")
    /\ SetStatus(job[s], "rejected")
    /\ UNCHANGED <<confirmed, served, sales, balance, ledger, debited, rewards, credits,
                   rewarded, job, rows, wallet, amount, purpose>>

\* Mutant of ExpireReads: every unpaid order is swept, whatever its status.
ExpireReads_AnyStatus(s) ==
    /\ pc[s] = "idle"
    /\ \E old \in SUBSET {o \in Orders : order[o].status # "none" /\ ~order[o].paid} :
          old # {} /\ rows' = [rows EXCEPT ![s] = old]
    /\ Goto(s, "expiring")
    /\ UNCHANGED <<database, job, wallet, amount, purpose>>

\* expire_unpaid_shop_orders; which of the unpaid orders are old enough is left open.
ExpireReads(s) ==
    /\ pc[s] = "idle"
    /\ \E old \in SUBSET {o \in Orders : order[o].status = "awaiting" /\ ~order[o].paid} :
          old # {} /\ rows' = [rows EXCEPT ![s] = old]
    /\ Goto(s, "expiring")
    /\ UNCHANGED <<database, job, wallet, amount, purpose>>

ExpireWrites(s) ==
    /\ pc[s] = "expiring"
    /\ Goto(s, "idle")
    /\ order' = [o \in Orders |-> IF o \in rows[s] THEN [order[o] EXCEPT !.status = "expired"]
                                                   ELSE order[o]]
    /\ rows' = [rows EXCEPT ![s] = {}]
    /\ UNCHANGED <<confirmed, served, sales, balance, ledger, debited, rewards, credits,
                   rewarded, job, wallet, amount, purpose>>

-----------------------------------------------------------------------------
(* The process dies, or the database goes away: what was committed stays. *)
Dies(s) ==
    /\ CanDie /\ pc[s] # "idle"
    /\ Goto(s, "idle")
    /\ rows' = [rows EXCEPT ![s] = {}]
    /\ wallet' = [wallet EXCEPT ![s] = 0]
    /\ amount' = [amount EXCEPT ![s] = 0]
    /\ purpose' = [purpose EXCEPT ![s] = "none"]
    /\ UNCHANGED <<database, job>>

Request(s) ==
    \/ \E o \in Orders : \/ NowpaymentsIpn(s, o) \/ StripeWebhook(s, o) \/ PaymentReturn(s, o)
                         \/ ApproveOrder(s, o) \/ RejectOrder(s, o)
    \/ WalletCheckout(s) \/ AdminCredits(s) \/ ExpireReads(s)

Continue(s) ==
    \/ \E o \in Orders : WalletOrder(s, o)
    \/ WalletPaid(s) \/ CreditRead(s) \/ CreditWrite(s)
    \/ MarkPaid(s) \/ Reload(s) \/ ToPending(s) \/ CreateUser(s) \/ CreateFails(s)
    \/ MarkApproved(s) \/ SaleCheck(s) \/ SaleInsert(s) \/ RewardCheck(s) \/ RewardFlag(s)
    \/ MarkRejected(s) \/ ExpireWrites(s)

Next ==
    \/ \E o \in Orders : CreateOrder(o)
    \/ \E s \in Sessions : Request(s) \/ Continue(s) \/ Dies(s)

Spec == Init /\ [][Next]_vars

\* A request that has begun is run to its end by the event loop.
FairSpec == Spec /\ \A s \in Sessions : WF_vars(Continue(s))

-----------------------------------------------------------------------------
(* Properties that hold whatever requests overlap and whenever one dies *)

\* The money behind a payment_paid flag.
Backed(o) == IF MethodOf[o] = "wallet" THEN o \in debited ELSE o \in confirmed

(* An order that is not paid by card gets its user only after its money was  *)
(* seen: the gateway confirmed it, or the wallet was debited.  Orders on the *)
(* way there cannot be approved early by an admin, a callback or a return.   *)
ServedWasPaid ==
    \A o \in Orders : MethodOf[o] # "card" /\ served[o] > 0 => order[o].paid /\ Backed(o)

(* The shop never tells a buyer that an order is approved, and never books   *)
(* revenue for it, before the user it pays for exists.                       *)
BookedWasServed ==
    \A o \in Orders : order[o].status = "approved" \/ o \in sales => served[o] > 0

\* Between all that admins ever took back and all that was ever given.
WithinLedger(b) == -ledger.taken <= b /\ b <= ledger.given

(* Overlapping credits, debits and rewards overwrite each other's balance,   *)
(* and the ledger no longer adds up to it; but they make no money: the       *)
(* wallet never holds more than its ledger says was given, and no purchase   *)
(* overdraws it, since it is tested against the balance it is taken from.    *)
NoMoneyMade == WithinLedger(balance)

-----------------------------------------------------------------------------
(* Why: what each session knows about its order and its wallet *)

\* Only an order with money behind it is marked paid.
PaymentsBacked ==
    /\ \A o \in Orders : order[o].paid => Backed(o)
    /\ \A s \in Sessions :
          /\ pc[s] = "markPaid" => MethodOf[job[s]] # "wallet" /\ job[s] \in confirmed
          /\ pc[s] = "walletPaid" => MethodOf[job[s]] = "wallet" /\ job[s] \in debited
          /\ pc[s] = "creditRead" => purpose[s] = "referral"
          /\ pc[s] = "creditWrite" =>
                \/ purpose[s] \in {"adjust", "referral"}
                \/ purpose[s] = "purchase" /\ MethodOf[job[s]] = "wallet"

\* Nothing but a card order is up for approval, or served, unpaid.
ApprovalsPaid ==
    /\ \A o \in Orders :
          MethodOf[o] # "card" /\ (order[o].status \in {"pending", "approved"} \/ served[o] > 0)
             => order[o].paid
    /\ \A s \in Sessions :
          /\ pc[s] \in {"reload", "toPending", "create", "approve"}
          /\ MethodOf[job[s]] # "card"
          => order[job[s]].paid

\* The user exists before anything is written that says so.
ServedFirst ==
    \A s \in Sessions : pc[s] \in {"approve", "sale", "saleInsert"} => served[job[s]] > 0

\* A balance that was loaded was stored once, and covers what it is loaded for.
CopiesWithinLedger ==
    \A s \in Sessions :
        /\ pc[s] \in {"walletOrder", "creditWrite"} => WithinLedger(wallet[s])
        /\ pc[s] = "walletOrder" => wallet[s] >= Price
        /\ pc[s] = "creditWrite" /\ purpose[s] = "purchase" =>
              wallet[s] >= Price /\ amount[s] = -Price
        /\ purpose[s] = "referral" => amount[s] = Reward

(* The inductive invariant behind ServedWasPaid, BookedWasServed and         *)
(* NoMoneyMade.                                                              *)
OrderProtocol ==
    /\ PaymentsBacked /\ ApprovalsPaid /\ ServedFirst /\ BookedWasServed
    /\ CopiesWithinLedger /\ NoMoneyMade

-----------------------------------------------------------------------------
(* Properties that hold when requests do not overlap and none dies *)

(* Callbacks that a gateway repeats, a browser return and an admin's approve *)
(* of the same order create one user between them.                           *)
ServedOnce == \A o \in Orders : served[o] <= 1

(* An approved, rejected or expired order keeps that status: no late         *)
(* callback, return or sweep reopens or overturns it.                        *)
SettledStays ==
    [][\A o \in Orders : order[o].status \in {"approved", "rejected", "expired"}
          => order'[o].status = order[o].status]_vars

(* The referrer is credited once for an invited buyer.                       *)
RewardedOnce == rewards <= 1

(* Once the request that approved an order is over, its revenue is booked,   *)
(* and that of no other order is.                                            *)
RevenueComplete ==
    (\A s \in Sessions : pc[s] = "idle") =>
        \A o \in Orders : o \in sales <=> order[o].status = "approved"

(* A payment that was recorded does not leave its order waiting for payment. *)
PaidLeavesAwaiting ==
    \A o \in Orders : (order[o].status = "awaiting" /\ order[o].paid)
                          ~> order[o].status # "awaiting"

-----------------------------------------------------------------------------
(* Why: what a request knows when no other can come in between *)

OneRequest == \A s, t \in Sessions : s = t

\* An order still has the status on which its session decided.
StatusKnown ==
    \A s \in Sessions :
        /\ pc[s] = "toPending" => order[job[s]].status = "awaiting"
        /\ pc[s] \in {"create", "approve", "rejecting"} => order[job[s]].status = "pending"
        /\ pc[s] \in {"sale", "saleInsert"} => order[job[s]].status = "approved"
        /\ pc[s] = "expiring" => \A o \in rows[s] : order[o].status = "awaiting"

\* A service, a reward and a sale are each written down by the step after.
ServiceRecorded ==
    \A o \in Orders : served[o] > 0 =>
        order[o].status = "approved" \/ \E s \in Sessions : pc[s] = "approve" /\ job[s] = o

RewardRecorded ==
    /\ rewards > 0 => rewarded \/ \E s \in Sessions : pc[s] = "flag"
    /\ \A s \in Sessions :
          pc[s] = "creditRead" \/ (pc[s] = "creditWrite" /\ purpose[s] = "referral") => ~rewarded

SaleRecorded ==
    \A o \in Orders :
        /\ o \in sales => order[o].status = "approved"
        /\ order[o].status = "approved" =>
              o \in sales \/ \E s \in Sessions : pc[s] \in {"sale", "saleInsert"} /\ job[s] = o

(* The inductive invariant of requests that do not overlap and do not die.   *)
SerialProtocol ==
    /\ StatusKnown
    /\ ServiceRecorded /\ ServedOnce /\ RewardRecorded /\ RewardedOnce /\ SaleRecorded

-----------------------------------------------------------------------------
(* What the shop's own words promise *)

(* expire_unpaid_shop_orders expires orders that were not paid.              *)
ConfirmedNotExpired == \A o \in confirmed : order[o].status # "expired"
=============================================================================
