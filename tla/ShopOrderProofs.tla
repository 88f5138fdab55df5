-------------------------- MODULE ShopOrderProofs --------------------------
(***************************************************************************)
(* Proofs about the shop, for any number of orders and of overlapping      *)
(* requests, with requests that die anywhere.                              *)
(***************************************************************************)
EXTENDS ShopOrder, TLAPS

USE DEF Goto, PCs, Statuses, Gateways, Methods

-----------------------------------------------------------------------------
(* Type correctness *)

LEMMA TypeStep == TypeOK /\ [Next]_vars => TypeOK'
<1> SUFFICES ASSUME TypeOK, [Next]_vars PROVE TypeOK'
  OBVIOUS
<1> USE OrdersAssumption, AmountsAssumption DEF TypeOK
<1>1. ASSUME NEW o \in Orders, CreateOrder(o) PROVE TypeOK'
  BY <1>1 DEF CreateOrder, SetStatus, InitialStatus
<1>2. ASSUME NEW s \in Sessions, NEW o \in Orders, NowpaymentsIpn(s, o) PROVE TypeOK'
  BY <1>2 DEF NowpaymentsIpn, Starts, FulfilFrom
<1>3. ASSUME NEW s \in Sessions, NEW o \in Orders, StripeWebhook(s, o) PROVE TypeOK'
  BY <1>3 DEF StripeWebhook, Starts
<1>4. ASSUME NEW s \in Sessions, NEW o \in Orders, PaymentReturn(s, o) PROVE TypeOK'
  BY <1>4 DEF PaymentReturn, Starts, FulfilFrom
<1>5. ASSUME NEW s \in Sessions, NEW o \in Orders, ApproveOrder(s, o) PROVE TypeOK'
  BY <1>5 DEF ApproveOrder, Starts, database
<1>6. ASSUME NEW s \in Sessions, NEW o \in Orders, RejectOrder(s, o) PROVE TypeOK'
  BY <1>6 DEF RejectOrder, Starts, database
<1>7. ASSUME NEW s \in Sessions, NEW o \in Orders, WalletOrder(s, o) PROVE TypeOK'
  BY <1>7, SMTT(40) DEF WalletOrder, SetStatus, InitialStatus
<1>8. ASSUME NEW s \in Sessions, WalletCheckout(s) PROVE TypeOK'
  BY <1>8 DEF WalletCheckout, database
<1>9. ASSUME NEW s \in Sessions, AdminCredits(s) PROVE TypeOK'
  BY <1>9 DEF AdminCredits, database
<1>10. ASSUME NEW s \in Sessions, ExpireReads(s) PROVE TypeOK'
  BY <1>10 DEF ExpireReads, database
<1>11. ASSUME NEW s \in Sessions, WalletPaid(s) PROVE TypeOK'
  BY <1>11 DEF WalletPaid, SetPaid
<1>12. ASSUME NEW s \in Sessions, CreditRead(s) PROVE TypeOK'
  BY <1>12 DEF CreditRead, database
<1>13. ASSUME NEW s \in Sessions, CreditWrite(s) PROVE TypeOK'
  <2>1. ledger' \in [given : Nat, taken : Nat]
    <3> DEFINE a == amount[s]
    <3>1. a \in Int /\ ledger.given \in Nat /\ ledger.taken \in Nat
      OBVIOUS
    <3>2. a > 0 => ledger.given + a \in Nat
      BY <3>1
    <3>3. ~(a > 0) => ledger.taken - a \in Nat
      BY <3>1
    <3>4. \/ ledger' = [ledger EXCEPT !.given = @ + a] /\ a > 0
          \/ ledger' = [ledger EXCEPT !.taken = @ - a] /\ ~(a > 0)
          \/ ledger' = ledger
      BY <1>13, <3>1 DEF CreditWrite, LedgerWith
    <3> HIDE DEF a
    <3> QED
      BY <3>2, <3>3, <3>4
  <2> QED
    BY <1>13, <2>1 DEF CreditWrite
<1>14. ASSUME NEW s \in Sessions, MarkPaid(s) PROVE TypeOK'
  BY <1>14 DEF MarkPaid, SetPaid
<1>15. ASSUME NEW s \in Sessions, Reload(s) PROVE TypeOK'
  BY <1>15 DEF Reload, database
<1>16. ASSUME NEW s \in Sessions, ToPending(s) PROVE TypeOK'
  BY <1>16, SMTT(40) DEF ToPending, SetStatus
<1>17. ASSUME NEW s \in Sessions, CreateUser(s) PROVE TypeOK'
  BY <1>17 DEF CreateUser
<1>18. ASSUME NEW s \in Sessions, CreateFails(s) PROVE TypeOK'
  BY <1>18 DEF CreateFails, database
<1>19. ASSUME NEW s \in Sessions, MarkApproved(s) PROVE TypeOK'
  BY <1>19, SMTT(40) DEF MarkApproved, SetStatus
<1>20. ASSUME NEW s \in Sessions, SaleCheck(s) PROVE TypeOK'
  BY <1>20 DEF SaleCheck, AfterSale, database
<1>21. ASSUME NEW s \in Sessions, SaleInsert(s) PROVE TypeOK'
  BY <1>21 DEF SaleInsert, AfterSale
<1>22. ASSUME NEW s \in Sessions, RewardCheck(s) PROVE TypeOK'
  <2>1. CASE rewarded
    BY <1>22, <2>1 DEF RewardCheck, database
  <2>2. CASE ~rewarded
    <3>1. Reward \in Int
      BY DEF AmountsAssumption
    <3>2. amount' = [amount EXCEPT ![s] = Reward] /\ purpose' = [purpose EXCEPT ![s] = "referral"]
      BY <1>22, <2>2 DEF RewardCheck
    <3>3. amount' \in [Sessions -> Int] /\ purpose' \in [Sessions -> {"none", "adjust", "referral", "purchase"}]
      BY <3>1, <3>2
    <3>4. pc' = [pc EXCEPT ![s] = "creditRead"] /\ UNCHANGED <<database, job, rows, wallet>>
      BY <1>22, <2>2 DEF RewardCheck
    <3> QED BY <3>3, <3>4 DEF database
  <2> QED BY <2>1, <2>2
<1>23. ASSUME NEW s \in Sessions, RewardFlag(s) PROVE TypeOK'
  BY <1>23 DEF RewardFlag
<1>24. ASSUME NEW s \in Sessions, MarkRejected(s) PROVE TypeOK'
  BY <1>24, SMTT(40) DEF MarkRejected, SetStatus
<1>25. ASSUME NEW s \in Sessions, ExpireWrites(s) PROVE TypeOK'
  BY <1>25 DEF ExpireWrites
<1>26. ASSUME NEW s \in Sessions, Dies(s) PROVE TypeOK'
  BY <1>26 DEF Dies, database
<1>27. CASE UNCHANGED vars
  BY <1>27 DEF vars, database
<1> QED
  BY <1>1, <1>2, <1>3, <1>4, <1>5, <1>6, <1>7, <1>8, <1>9,
     <1>10, <1>11, <1>12, <1>13, <1>14, <1>15, <1>16, <1>17, <1>18,
     <1>19, <1>20, <1>21, <1>22, <1>23, <1>24, <1>25, <1>26, <1>27 DEF Next, Request, Continue

LEMMA TypeInit == Init => TypeOK
<1> SUFFICES ASSUME Init PROVE TypeOK
  OBVIOUS
<1>1. [status |-> "none", paid |-> FALSE] \in [status : Statuses, paid : BOOLEAN]
  BY Zenon
<1>2. order \in [Orders -> [status : Statuses, paid : BOOLEAN]]
  BY <1>1, Zenon DEF Init
<1>3. rewarded \in BOOLEAN
  BY Zenon DEF Init
<1> QED
  BY <1>2, <1>3 DEF Init, TypeOK

(* Every reachable state of the shop is well typed.                         *)
THEOREM TypeCorrect == Spec => []TypeOK
  BY TypeInit, TypeStep, PTL DEF Spec

-----------------------------------------------------------------------------
(* Money before service, service before revenue *)

\* No step of any session serves, approves or books an order out of order.
LEMMA MoneyStep ==
    ASSUME TypeOK, OrderProtocol, [Next]_vars
    PROVE  PaymentsBacked' /\ ApprovalsPaid' /\ ServedFirst' /\ BookedWasServed'
<1> USE OrdersAssumption, AmountsAssumption
<1> DEFINE Goal == PaymentsBacked' /\ ApprovalsPaid' /\ ServedFirst' /\ BookedWasServed'
<1> USE DEF TypeOK, OrderProtocol, PaymentsBacked, ApprovalsPaid, ServedFirst,
            BookedWasServed, Backed
<1>1. ASSUME NEW o \in Orders, CreateOrder(o) PROVE Goal
  BY <1>1 DEF CreateOrder, SetStatus, InitialStatus
<1>2. ASSUME NEW s \in Sessions, NEW o \in Orders, NowpaymentsIpn(s, o) PROVE Goal
  BY <1>2 DEF NowpaymentsIpn, Starts, FulfilFrom
<1>3. ASSUME NEW s \in Sessions, NEW o \in Orders, StripeWebhook(s, o) PROVE Goal
  BY <1>3 DEF StripeWebhook, Starts
<1>4. ASSUME NEW s \in Sessions, NEW o \in Orders, PaymentReturn(s, o) PROVE Goal
  BY <1>4 DEF PaymentReturn, Starts, FulfilFrom
<1>5. ASSUME NEW s \in Sessions, NEW o \in Orders, ApproveOrder(s, o) PROVE Goal
  BY <1>5 DEF ApproveOrder, Starts, database
<1>6. ASSUME NEW s \in Sessions, NEW o \in Orders, RejectOrder(s, o) PROVE Goal
  BY <1>6 DEF RejectOrder, Starts, database
<1>7. ASSUME NEW s \in Sessions, NEW o \in Orders, WalletOrder(s, o) PROVE Goal
  BY <1>7 DEF WalletOrder, SetStatus, InitialStatus
<1>8. ASSUME NEW s \in Sessions, WalletCheckout(s) PROVE Goal
  BY <1>8 DEF WalletCheckout, database
<1>9. ASSUME NEW s \in Sessions, AdminCredits(s) PROVE Goal
  BY <1>9 DEF AdminCredits, database
<1>10. ASSUME NEW s \in Sessions, ExpireReads(s) PROVE Goal
  BY <1>10 DEF ExpireReads, database
<1>11. ASSUME NEW s \in Sessions, WalletPaid(s) PROVE Goal
  BY <1>11 DEF WalletPaid, SetPaid
<1>12. ASSUME NEW s \in Sessions, CreditRead(s) PROVE Goal
  BY <1>12 DEF CreditRead, database
<1>13. ASSUME NEW s \in Sessions, CreditWrite(s) PROVE Goal
  BY <1>13 DEF CreditWrite
<1>14. ASSUME NEW s \in Sessions, MarkPaid(s) PROVE Goal
  BY <1>14 DEF MarkPaid, SetPaid
<1>15. ASSUME NEW s \in Sessions, Reload(s) PROVE Goal
  BY <1>15 DEF Reload, database
<1>16. ASSUME NEW s \in Sessions, ToPending(s) PROVE Goal
  BY <1>16 DEF ToPending, SetStatus
<1>17. ASSUME NEW s \in Sessions, CreateUser(s) PROVE Goal
  BY <1>17 DEF CreateUser
<1>18. ASSUME NEW s \in Sessions, CreateFails(s) PROVE Goal
  BY <1>18 DEF CreateFails, database
<1>19. ASSUME NEW s \in Sessions, MarkApproved(s) PROVE Goal
  BY <1>19 DEF MarkApproved, SetStatus
<1>20. ASSUME NEW s \in Sessions, SaleCheck(s) PROVE Goal
  BY <1>20 DEF SaleCheck, AfterSale, database
<1>21. ASSUME NEW s \in Sessions, SaleInsert(s) PROVE Goal
  BY <1>21 DEF SaleInsert, AfterSale
<1>22. ASSUME NEW s \in Sessions, RewardCheck(s) PROVE Goal
  BY <1>22 DEF RewardCheck, database
<1>23. ASSUME NEW s \in Sessions, RewardFlag(s) PROVE Goal
  BY <1>23 DEF RewardFlag
<1>24. ASSUME NEW s \in Sessions, MarkRejected(s) PROVE Goal
  BY <1>24 DEF MarkRejected, SetStatus
<1>25. ASSUME NEW s \in Sessions, ExpireWrites(s) PROVE Goal
  BY <1>25 DEF ExpireWrites
<1>26. ASSUME NEW s \in Sessions, Dies(s) PROVE Goal
  BY <1>26 DEF Dies, database
<1>27. ASSUME UNCHANGED vars PROVE Goal
  BY <1>27 DEF vars, database
<1> QED
  BY <1>1, <1>2, <1>3, <1>4, <1>5, <1>6, <1>7, <1>8, <1>9,
     <1>10, <1>11, <1>12, <1>13, <1>14, <1>15, <1>16, <1>17, <1>18,
     <1>19, <1>20, <1>21, <1>22, <1>23, <1>24, <1>25, <1>26, <1>27 DEF Next, Request, Continue

\* No step of any session stores or loads a balance out of the ledger's bounds.
LEMMA WalletStep ==
    ASSUME TypeOK, OrderProtocol, [Next]_vars
    PROVE  CopiesWithinLedger' /\ NoMoneyMade'
<1> USE OrdersAssumption, AmountsAssumption
<1> USE DEF TypeOK, OrderProtocol, PaymentsBacked, CopiesWithinLedger, NoMoneyMade, WithinLedger
<1> DEFINE Goal == CopiesWithinLedger' /\ NoMoneyMade'
<1>1. ASSUME NEW o \in Orders, CreateOrder(o) PROVE Goal
  BY <1>1 DEF CreateOrder, SetStatus, InitialStatus
<1>2. ASSUME NEW s \in Sessions, NEW o \in Orders, NowpaymentsIpn(s, o) PROVE Goal
  BY <1>2 DEF NowpaymentsIpn, Starts, FulfilFrom
<1>3. ASSUME NEW s \in Sessions, NEW o \in Orders, StripeWebhook(s, o) PROVE Goal
  BY <1>3 DEF StripeWebhook, Starts
<1>4. ASSUME NEW s \in Sessions, NEW o \in Orders, PaymentReturn(s, o) PROVE Goal
  BY <1>4 DEF PaymentReturn, Starts, FulfilFrom
<1>5. ASSUME NEW s \in Sessions, NEW o \in Orders, ApproveOrder(s, o) PROVE Goal
  BY <1>5 DEF ApproveOrder, Starts, database
<1>6. ASSUME NEW s \in Sessions, NEW o \in Orders, RejectOrder(s, o) PROVE Goal
  BY <1>6 DEF RejectOrder, Starts, database
<1>7. ASSUME NEW s \in Sessions, NEW o \in Orders, WalletOrder(s, o) PROVE Goal
  BY <1>7 DEF WalletOrder, SetStatus, InitialStatus
<1>8. ASSUME NEW s \in Sessions, WalletCheckout(s) PROVE Goal
  BY <1>8 DEF WalletCheckout, database
<1>9. ASSUME NEW s \in Sessions, AdminCredits(s) PROVE Goal
  BY <1>9 DEF AdminCredits, database
<1>10. ASSUME NEW s \in Sessions, ExpireReads(s) PROVE Goal
  BY <1>10 DEF ExpireReads, database
<1>11. ASSUME NEW s \in Sessions, WalletPaid(s) PROVE Goal
  BY <1>11 DEF WalletPaid, SetPaid
<1>12. ASSUME NEW s \in Sessions, CreditRead(s) PROVE Goal
  BY <1>12 DEF CreditRead, database
<1>13. ASSUME NEW s \in Sessions, CreditWrite(s) PROVE Goal
  <2> DEFINE a == amount[s]
  <2>1. /\ wallet[s] \in Int /\ a \in Int /\ ledger.given \in Nat /\ ledger.taken \in Nat
        /\ WithinLedger(wallet[s])
    BY <1>13 DEF CreditWrite
  <2>2. /\ ledger'.given \in Nat /\ ledger'.taken \in Nat
        /\ ledger'.given >= ledger.given /\ ledger'.taken >= ledger.taken
    BY <1>13, <2>1 DEF CreditWrite, LedgerWith
  <2>3. ASSUME purpose[s] = "purchase" PROVE NoMoneyMade'
    <3>1. a = -Price /\ wallet[s] >= Price
      BY <1>13, <2>3 DEF CreditWrite
    <3>2. balance' = wallet[s] - Price
      BY <1>13, <3>1 DEF CreditWrite
    <3> QED
      BY <2>1, <2>2, <3>1, <3>2
  <2>4. ASSUME purpose[s] # "purchase" /\ a > 0 PROVE NoMoneyMade'
    <3>1. ledger'.given = ledger.given + a
      BY <1>13, <2>4 DEF CreditWrite, LedgerWith
    <3>2. balance' = wallet[s] + a
      BY <1>13 DEF CreditWrite
    <3> QED
      BY <2>1, <2>2, <2>4, <3>1, <3>2
  <2>5. ASSUME purpose[s] # "purchase" /\ ~(a > 0) PROVE NoMoneyMade'
    <3>1. ledger'.taken = ledger.taken - a
      BY <1>13, <2>1, <2>5 DEF CreditWrite, LedgerWith
    <3>2. balance' = wallet[s] + a
      BY <1>13 DEF CreditWrite
    <3> QED
      BY <2>1, <2>2, <2>5, <3>1, <3>2
  <2>6. NoMoneyMade'
    BY <2>3, <2>4, <2>5
  <2>7. ASSUME NEW t \in Sessions, t # s
        PROVE  /\ pc'[t] = pc[t] /\ wallet'[t] = wallet[t] /\ amount'[t] = amount[t]
               /\ purpose'[t] = purpose[t]
    BY <1>13, <2>7 DEF CreditWrite
  <2>8. pc'[s] \notin {"walletOrder", "creditWrite"} /\ purpose'[s] = "none"
    BY <1>13 DEF CreditWrite
  <2>9. ASSUME NEW t \in Sessions, WithinLedger(wallet[t]) PROVE WithinLedger(wallet[t])'
    <3>1. t # s => wallet'[t] = wallet[t]
      BY <2>7
    <3>2. t = s => wallet'[t] = 0
      BY <1>13 DEF CreditWrite
    <3>3. wallet[t] \in Int
      OBVIOUS
    <3> QED
      BY <2>1, <2>2, <2>9, <3>1, <3>2, <3>3
  <2>10. CopiesWithinLedger'
    <3> SUFFICES ASSUME NEW t \in Sessions
                 PROVE  /\ pc'[t] \in {"walletOrder", "creditWrite"} => WithinLedger(wallet[t])'
                        /\ pc'[t] = "walletOrder" => wallet'[t] >= Price
                        /\ pc'[t] = "creditWrite" /\ purpose'[t] = "purchase" =>
                              wallet'[t] >= Price /\ amount'[t] = -Price
                        /\ purpose'[t] = "referral" => amount'[t] = Reward
      BY DEF CopiesWithinLedger
    <3>1. CASE t = s
      BY <2>8, <3>1
    <3>2. CASE t # s
      BY <2>7, <2>9, <3>2
    <3> QED
      BY <3>1, <3>2
  <2> QED
    BY <2>6, <2>10
<1>14. ASSUME NEW s \in Sessions, MarkPaid(s) PROVE Goal
  BY <1>14 DEF MarkPaid, SetPaid
<1>15. ASSUME NEW s \in Sessions, Reload(s) PROVE Goal
  BY <1>15 DEF Reload, database
<1>16. ASSUME NEW s \in Sessions, ToPending(s) PROVE Goal
  BY <1>16 DEF ToPending, SetStatus
<1>17. ASSUME NEW s \in Sessions, CreateUser(s) PROVE Goal
  BY <1>17 DEF CreateUser
<1>18. ASSUME NEW s \in Sessions, CreateFails(s) PROVE Goal
  BY <1>18 DEF CreateFails, database
<1>19. ASSUME NEW s \in Sessions, MarkApproved(s) PROVE Goal
  BY <1>19 DEF MarkApproved, SetStatus
<1>20. ASSUME NEW s \in Sessions, SaleCheck(s) PROVE Goal
  BY <1>20 DEF SaleCheck, AfterSale, database
<1>21. ASSUME NEW s \in Sessions, SaleInsert(s) PROVE Goal
  BY <1>21 DEF SaleInsert, AfterSale
<1>22. ASSUME NEW s \in Sessions, RewardCheck(s) PROVE Goal
  BY <1>22 DEF RewardCheck, database
<1>23. ASSUME NEW s \in Sessions, RewardFlag(s) PROVE Goal
  BY <1>23 DEF RewardFlag
<1>24. ASSUME NEW s \in Sessions, MarkRejected(s) PROVE Goal
  BY <1>24 DEF MarkRejected, SetStatus
<1>25. ASSUME NEW s \in Sessions, ExpireWrites(s) PROVE Goal
  BY <1>25 DEF ExpireWrites
<1>26. ASSUME NEW s \in Sessions, Dies(s) PROVE Goal
  BY <1>26 DEF Dies, database
<1>27. ASSUME UNCHANGED vars PROVE Goal
  BY <1>27 DEF vars, database
<1> QED
  BY <1>1, <1>2, <1>3, <1>4, <1>5, <1>6, <1>7, <1>8, <1>9,
     <1>10, <1>11, <1>12, <1>13, <1>14, <1>15, <1>16, <1>17, <1>18,
     <1>19, <1>20, <1>21, <1>22, <1>23, <1>24, <1>25, <1>26, <1>27 DEF Next, Request, Continue

LEMMA ProtocolStep ==
    ASSUME TypeOK, OrderProtocol, [Next]_vars
    PROVE  OrderProtocol'
BY MoneyStep, WalletStep DEF OrderProtocol

LEMMA ProtocolInvariant == Spec => [](TypeOK /\ OrderProtocol)
<1>1. Init => TypeOK /\ OrderProtocol
  BY TypeInit DEF Init, OrderProtocol, PaymentsBacked, ApprovalsPaid, ServedFirst, BookedWasServed,
         CopiesWithinLedger, NoMoneyMade, WithinLedger
<1>2. TypeOK /\ OrderProtocol /\ [Next]_vars => (TypeOK /\ OrderProtocol)'
  BY TypeStep, ProtocolStep
<1> QED
  BY <1>1, <1>2, PTL DEF Spec

(* Where an order stands tells what happened to it before: money, approval, *)
(* service and revenue come in this order, in every interleaving.           *)
THEOREM OrdersKeepProtocol == Spec => []OrderProtocol
BY ProtocolInvariant, PTL

(* However requests overlap and wherever they die, an order paid online or  *)
(* by wallet is served only after its money was seen.                       *)
THEOREM MoneyFirst == Spec => []ServedWasPaid
<1>1. TypeOK /\ OrderProtocol => ServedWasPaid
  BY DEF OrderProtocol, PaymentsBacked, ApprovalsPaid, ServedWasPaid
<1> QED
  BY <1>1, ProtocolInvariant, PTL

(* However requests overlap and wherever they die, no order is reported     *)
(* approved and no revenue is booked before the user exists.                *)
THEOREM ServiceFirst == Spec => []BookedWasServed
<1>1. OrderProtocol => BookedWasServed
  BY DEF OrderProtocol
<1> QED
  BY <1>1, ProtocolInvariant, PTL

(* However credits, debits and rewards of one wallet overlap and wherever    *)
(* they die, its balance stays between what admins took back and what was    *)
(* ever given: updates get lost, but none makes money, and no purchase       *)
(* overdraws the wallet.                                                     *)
THEOREM LostUpdatesMakeNoMoney == Spec => []NoMoneyMade
<1>1. OrderProtocol => NoMoneyMade
  BY DEF OrderProtocol
<1> QED
  BY <1>1, ProtocolInvariant, PTL
=============================================================================
