-------------------------- MODULE ShopSerialProofs --------------------------
(***************************************************************************)
(* Proofs about the shop when no two requests overlap, for any orders,     *)
(* methods and amounts.  What needs no more than that is proved with       *)
(* requests that die anywhere; the rest assumes that none does.            *)
(***************************************************************************)
EXTENDS ShopOrderProofs

USE DEF Goto, PCs, Statuses, Gateways, Methods

-----------------------------------------------------------------------------
(* With requests that may die *)

\* Nobody changes the status on which a session decides.
LEMMA StatusStep ==
    ASSUME TypeOK, OneRequest, StatusKnown, [Next]_vars
    PROVE  StatusKnown'
<1> USE OrdersAssumption, AmountsAssumption DEF TypeOK, OneRequest, StatusKnown
<1>1. ASSUME NEW o \in Orders, CreateOrder(o) PROVE StatusKnown'
  BY <1>1 DEF CreateOrder, SetStatus, InitialStatus
<1>2. ASSUME NEW s \in Sessions, NEW o \in Orders, NowpaymentsIpn(s, o) PROVE StatusKnown'
  BY <1>2 DEF NowpaymentsIpn, Starts, FulfilFrom
<1>3. ASSUME NEW s \in Sessions, NEW o \in Orders, StripeWebhook(s, o) PROVE StatusKnown'
  BY <1>3 DEF StripeWebhook, Starts
<1>4. ASSUME NEW s \in Sessions, NEW o \in Orders, PaymentReturn(s, o) PROVE StatusKnown'
  BY <1>4 DEF PaymentReturn, Starts, FulfilFrom
<1>5. ASSUME NEW s \in Sessions, NEW o \in Orders, ApproveOrder(s, o) PROVE StatusKnown'
  BY <1>5 DEF ApproveOrder, Starts, database
<1>6. ASSUME NEW s \in Sessions, NEW o \in Orders, RejectOrder(s, o) PROVE StatusKnown'
  BY <1>6 DEF RejectOrder, Starts, database
<1>7. ASSUME NEW s \in Sessions, NEW o \in Orders, WalletOrder(s, o) PROVE StatusKnown'
  BY <1>7 DEF WalletOrder, SetStatus, InitialStatus
<1>8. ASSUME NEW s \in Sessions, WalletCheckout(s) PROVE StatusKnown'
  BY <1>8 DEF WalletCheckout, database
<1>9. ASSUME NEW s \in Sessions, AdminCredits(s) PROVE StatusKnown'
  BY <1>9 DEF AdminCredits, database
<1>10. ASSUME NEW s \in Sessions, ExpireReads(s) PROVE StatusKnown'
  BY <1>10 DEF ExpireReads, database
<1>11. ASSUME NEW s \in Sessions, WalletPaid(s) PROVE StatusKnown'
  BY <1>11 DEF WalletPaid, SetPaid
<1>12. ASSUME NEW s \in Sessions, CreditRead(s) PROVE StatusKnown'
  BY <1>12 DEF CreditRead, database
<1>13. ASSUME NEW s \in Sessions, CreditWrite(s) PROVE StatusKnown'
  BY <1>13 DEF CreditWrite
<1>14. ASSUME NEW s \in Sessions, MarkPaid(s) PROVE StatusKnown'
  BY <1>14 DEF MarkPaid, SetPaid
<1>15. ASSUME NEW s \in Sessions, Reload(s) PROVE StatusKnown'
  BY <1>15 DEF Reload, database
<1>16. ASSUME NEW s \in Sessions, ToPending(s) PROVE StatusKnown'
  BY <1>16 DEF ToPending, SetStatus
<1>17. ASSUME NEW s \in Sessions, CreateUser(s) PROVE StatusKnown'
  BY <1>17 DEF CreateUser
<1>18. ASSUME NEW s \in Sessions, CreateFails(s) PROVE StatusKnown'
  BY <1>18 DEF CreateFails, database
<1>19. ASSUME NEW s \in Sessions, MarkApproved(s) PROVE StatusKnown'
  BY <1>19 DEF MarkApproved, SetStatus
<1>20. ASSUME NEW s \in Sessions, SaleCheck(s) PROVE StatusKnown'
  BY <1>20 DEF SaleCheck, AfterSale, database
<1>21. ASSUME NEW s \in Sessions, SaleInsert(s) PROVE StatusKnown'
  BY <1>21 DEF SaleInsert, AfterSale
<1>22. ASSUME NEW s \in Sessions, RewardCheck(s) PROVE StatusKnown'
  BY <1>22 DEF RewardCheck, database
<1>23. ASSUME NEW s \in Sessions, RewardFlag(s) PROVE StatusKnown'
  BY <1>23 DEF RewardFlag
<1>24. ASSUME NEW s \in Sessions, MarkRejected(s) PROVE StatusKnown'
  BY <1>24 DEF MarkRejected, SetStatus
<1>25. ASSUME NEW s \in Sessions, ExpireWrites(s) PROVE StatusKnown'
  BY <1>25 DEF ExpireWrites
<1>26. ASSUME NEW s \in Sessions, Dies(s) PROVE StatusKnown'
  BY <1>26 DEF Dies, database
<1>27. ASSUME UNCHANGED vars PROVE StatusKnown'
  BY <1>27 DEF vars, database
<1> QED
  BY <1>1, <1>2, <1>3, <1>4, <1>5, <1>6, <1>7, <1>8, <1>9,
     <1>10, <1>11, <1>12, <1>13, <1>14, <1>15, <1>16, <1>17, <1>18,
     <1>19, <1>20, <1>21, <1>22, <1>23, <1>24, <1>25, <1>26, <1>27 DEF Next, Request, Continue

LEMMA StatusInvariant == ASSUME OneRequest PROVE Spec => []StatusKnown
<1>1. Init => StatusKnown
  BY DEF Init, StatusKnown
<1>2. TypeOK /\ StatusKnown /\ [Next]_vars => StatusKnown'
  BY StatusStep
<1> QED
  BY <1>1, <1>2, TypeCorrect, PTL DEF Spec

(* When requests do not overlap, no late callback, return, approval,         *)
(* rejection or sweep overturns an order that is approved, rejected or       *)
(* expired, also after requests that died half-way.                          *)
THEOREM SettledOrdersStay == ASSUME OneRequest PROVE Spec => SettledStays
<1> DEFINE Kept == \A o \in Orders : order[o].status \in {"approved", "rejected", "expired"}
                                        => order'[o].status = order[o].status
<1>1. ASSUME TypeOK, StatusKnown, [Next]_vars PROVE [Kept]_vars
  <2> USE <1>1 DEF TypeOK, StatusKnown
  <2>1. ASSUME NEW o \in Orders, CreateOrder(o) PROVE Kept
    BY <2>1 DEF CreateOrder, SetStatus
  <2>2. ASSUME NEW s \in Sessions, NEW o \in Orders, WalletOrder(s, o) PROVE Kept
    BY <2>2 DEF WalletOrder, SetStatus
  <2>3. ASSUME NEW s \in Sessions, WalletPaid(s) \/ MarkPaid(s) PROVE Kept
    BY <2>3, SMTT(40) DEF WalletPaid, MarkPaid, SetPaid
  <2>4. ASSUME NEW s \in Sessions, ToPending(s) \/ MarkApproved(s) \/ MarkRejected(s) PROVE Kept
    BY <2>4 DEF ToPending, MarkApproved, MarkRejected, SetStatus
  <2>5. ASSUME NEW s \in Sessions, ExpireWrites(s) PROVE Kept
    BY <2>5 DEF ExpireWrites
  <2>6. CASE order' = order
    BY <2>6
  <2> QED
    BY <2>1, <2>2, <2>3, <2>4, <2>5, <2>6 DEF Next, Request, Continue, vars, database, NowpaymentsIpn,
       StripeWebhook, PaymentReturn, ApproveOrder, RejectOrder, WalletCheckout, AdminCredits, ExpireReads,
       CreditRead, CreditWrite, Reload, CreateUser, CreateFails, SaleCheck, SaleInsert, RewardCheck,
       RewardFlag, Dies
<1> QED
  BY <1>1, TypeCorrect, StatusInvariant, PTL DEF Spec, SettledStays

-----------------------------------------------------------------------------
(* With requests that run to their end *)

\* An order is served while it is pending, and approved by the next step.
LEMMA ServiceStep ==
    ASSUME TypeOK, OneRequest, ~CanDie, StatusKnown, ServiceRecorded, ServedOnce, [Next]_vars
    PROVE  ServiceRecorded' /\ ServedOnce'
<1> USE OrdersAssumption, AmountsAssumption DEF TypeOK, OneRequest, StatusKnown, ServiceRecorded, ServedOnce
<1> DEFINE Goal == ServiceRecorded' /\ ServedOnce'
<1>1. ASSUME NEW o \in Orders, CreateOrder(o) PROVE Goal
  BY <1>1 DEF CreateOrder, SetStatus, InitialStatus
<1>2. ASSUME NEW s \in Sessions, NEW o \in Orders, NowpaymentsIpn(s, o) PROVE Goal
  BY <1>2 DEF NowpaymentsIpn, Starts, FulfilFrom
<1>3. ASSUME NEW s \in Sessions, NEW o \in Orders, StripeWebhook(s, o) PROVE Goal
  BY <1>3 DEF StripeWebhook, Starts
<1>4. ASSUME NEW s \in Sessions, NEW o \in Orders, PaymentReturn(s, o) PROVE Goal
  BY <1>4 DEF PaymentReturn, Starts, FulfilFrom
<1>5. ASSUME NEW s \in Sessions, NEW o \in Orders, ApproveOrder(s, o) PROVE Goal
  BY <1>5 DEF ApproveOrder, Starts, database
<1>6. ASSUME NEW s \in Sessions, NEW o \in Orders, RejectOrder(s, o) PROVE Goal
  BY <1>6 DEF RejectOrder, Starts, database
<1>7. ASSUME NEW s \in Sessions, NEW o \in Orders, WalletOrder(s, o) PROVE Goal
  BY <1>7 DEF WalletOrder, SetStatus, InitialStatus
<1>8. ASSUME NEW s \in Sessions, WalletCheckout(s) PROVE Goal
  BY <1>8 DEF WalletCheckout, database
<1>9. ASSUME NEW s \in Sessions, AdminCredits(s) PROVE Goal
  BY <1>9 DEF AdminCredits, database
<1>10. ASSUME NEW s \in Sessions, ExpireReads(s) PROVE Goal
  BY <1>10 DEF ExpireReads, database
<1>11. ASSUME NEW s \in Sessions, WalletPaid(s) PROVE Goal
  BY <1>11 DEF WalletPaid, SetPaid
<1>12. ASSUME NEW s \in Sessions, CreditRead(s) PROVE Goal
  BY <1>12 DEF CreditRead, database
<1>13. ASSUME NEW s \in Sessions, CreditWrite(s) PROVE Goal
  BY <1>13 DEF CreditWrite
<1>14. ASSUME NEW s \in Sessions, MarkPaid(s) PROVE Goal
  BY <1>14 DEF MarkPaid, SetPaid
<1>15. ASSUME NEW s \in Sessions, Reload(s) PROVE Goal
  BY <1>15 DEF Reload, database
<1>16. ASSUME NEW s \in Sessions, ToPending(s) PROVE Goal
  BY <1>16 DEF ToPending, SetStatus
<1>17. ASSUME NEW s \in Sessions, CreateUser(s) PROVE Goal
  BY <1>17 DEF CreateUser
<1>18. ASSUME NEW s \in Sessions, CreateFails(s) PROVE Goal
  BY <1>18 DEF CreateFails, database
<1>19. ASSUME NEW s \in Sessions, MarkApproved(s) PROVE Goal
  BY <1>19 DEF MarkApproved, SetStatus
<1>20. ASSUME NEW s \in Sessions, SaleCheck(s) PROVE Goal
  BY <1>20 DEF SaleCheck, AfterSale, database
<1>21. ASSUME NEW s \in Sessions, SaleInsert(s) PROVE Goal
  BY <1>21 DEF SaleInsert, AfterSale
<1>22. ASSUME NEW s \in Sessions, RewardCheck(s) PROVE Goal
  BY <1>22 DEF RewardCheck, database
<1>23. ASSUME NEW s \in Sessions, RewardFlag(s) PROVE Goal
  BY <1>23 DEF RewardFlag
<1>24. ASSUME NEW s \in Sessions, MarkRejected(s) PROVE Goal
  BY <1>24 DEF MarkRejected, SetStatus
<1>25. ASSUME NEW s \in Sessions, ExpireWrites(s) PROVE Goal
  BY <1>25 DEF ExpireWrites
<1>26. ASSUME NEW s \in Sessions, Dies(s) PROVE Goal
  BY <1>26 DEF Dies, database
<1>27. ASSUME UNCHANGED vars PROVE Goal
  BY <1>27 DEF vars, database
<1> QED
  BY <1>1, <1>2, <1>3, <1>4, <1>5, <1>6, <1>7, <1>8, <1>9,
     <1>10, <1>11, <1>12, <1>13, <1>14, <1>15, <1>16, <1>17, <1>18,
     <1>19, <1>20, <1>21, <1>22, <1>23, <1>24, <1>25, <1>26, <1>27 DEF Next, Request, Continue

\* A reward is paid while the profile is not marked, which the next step does.
LEMMA RewardStep ==
    ASSUME TypeOK, OneRequest, ~CanDie, OrderProtocol, RewardRecorded, RewardedOnce, [Next]_vars
    PROVE  RewardRecorded' /\ RewardedOnce'
<1> USE OrdersAssumption, AmountsAssumption DEF TypeOK, OneRequest, OrderProtocol, PaymentsBacked, RewardRecorded, RewardedOnce
<1> DEFINE Goal == RewardRecorded' /\ RewardedOnce'
<1>1. ASSUME NEW o \in Orders, CreateOrder(o) PROVE Goal
  BY <1>1 DEF CreateOrder, SetStatus, InitialStatus
<1>2. ASSUME NEW s \in Sessions, NEW o \in Orders, NowpaymentsIpn(s, o) PROVE Goal
  BY <1>2 DEF NowpaymentsIpn, Starts, FulfilFrom
<1>3. ASSUME NEW s \in Sessions, NEW o \in Orders, StripeWebhook(s, o) PROVE Goal
  BY <1>3 DEF StripeWebhook, Starts
<1>4. ASSUME NEW s \in Sessions, NEW o \in Orders, PaymentReturn(s, o) PROVE Goal
  BY <1>4 DEF PaymentReturn, Starts, FulfilFrom
<1>5. ASSUME NEW s \in Sessions, NEW o \in Orders, ApproveOrder(s, o) PROVE Goal
  BY <1>5 DEF ApproveOrder, Starts, database
<1>6. ASSUME NEW s \in Sessions, NEW o \in Orders, RejectOrder(s, o) PROVE Goal
  BY <1>6 DEF RejectOrder, Starts, database
<1>7. ASSUME NEW s \in Sessions, NEW o \in Orders, WalletOrder(s, o) PROVE Goal
  BY <1>7 DEF WalletOrder, SetStatus, InitialStatus
<1>8. ASSUME NEW s \in Sessions, WalletCheckout(s) PROVE Goal
  BY <1>8 DEF WalletCheckout, database
<1>9. ASSUME NEW s \in Sessions, AdminCredits(s) PROVE Goal
  BY <1>9 DEF AdminCredits, database
<1>10. ASSUME NEW s \in Sessions, ExpireReads(s) PROVE Goal
  BY <1>10 DEF ExpireReads, database
<1>11. ASSUME NEW s \in Sessions, WalletPaid(s) PROVE Goal
  BY <1>11 DEF WalletPaid, SetPaid
<1>12. ASSUME NEW s \in Sessions, CreditRead(s) PROVE Goal
  BY <1>12 DEF CreditRead, database
<1>13. ASSUME NEW s \in Sessions, CreditWrite(s) PROVE Goal
  BY <1>13 DEF CreditWrite
<1>14. ASSUME NEW s \in Sessions, MarkPaid(s) PROVE Goal
  BY <1>14 DEF MarkPaid, SetPaid
<1>15. ASSUME NEW s \in Sessions, Reload(s) PROVE Goal
  BY <1>15 DEF Reload, database
<1>16. ASSUME NEW s \in Sessions, ToPending(s) PROVE Goal
  BY <1>16 DEF ToPending, SetStatus
<1>17. ASSUME NEW s \in Sessions, CreateUser(s) PROVE Goal
  BY <1>17 DEF CreateUser
<1>18. ASSUME NEW s \in Sessions, CreateFails(s) PROVE Goal
  BY <1>18 DEF CreateFails, database
<1>19. ASSUME NEW s \in Sessions, MarkApproved(s) PROVE Goal
  BY <1>19 DEF MarkApproved, SetStatus
<1>20. ASSUME NEW s \in Sessions, SaleCheck(s) PROVE Goal
  BY <1>20 DEF SaleCheck, AfterSale, database
<1>21. ASSUME NEW s \in Sessions, SaleInsert(s) PROVE Goal
  BY <1>21 DEF SaleInsert, AfterSale
<1>22. ASSUME NEW s \in Sessions, RewardCheck(s) PROVE Goal
  BY <1>22 DEF RewardCheck, database
<1>23. ASSUME NEW s \in Sessions, RewardFlag(s) PROVE Goal
  BY <1>23 DEF RewardFlag
<1>24. ASSUME NEW s \in Sessions, MarkRejected(s) PROVE Goal
  BY <1>24 DEF MarkRejected, SetStatus
<1>25. ASSUME NEW s \in Sessions, ExpireWrites(s) PROVE Goal
  BY <1>25 DEF ExpireWrites
<1>26. ASSUME NEW s \in Sessions, Dies(s) PROVE Goal
  BY <1>26 DEF Dies, database
<1>27. ASSUME UNCHANGED vars PROVE Goal
  BY <1>27 DEF vars, database
<1> QED
  BY <1>1, <1>2, <1>3, <1>4, <1>5, <1>6, <1>7, <1>8, <1>9,
     <1>10, <1>11, <1>12, <1>13, <1>14, <1>15, <1>16, <1>17, <1>18,
     <1>19, <1>20, <1>21, <1>22, <1>23, <1>24, <1>25, <1>26, <1>27 DEF Next, Request, Continue

\* An approval is followed by the revenue row, and nothing else is.
LEMMA SaleStep ==
    ASSUME TypeOK, OneRequest, ~CanDie, StatusKnown, SaleRecorded, [Next]_vars
    PROVE  SaleRecorded'
<1> USE OrdersAssumption, AmountsAssumption DEF TypeOK, OneRequest, StatusKnown, SaleRecorded
<1>1. ASSUME NEW o \in Orders, CreateOrder(o) PROVE SaleRecorded'
  BY <1>1 DEF CreateOrder, SetStatus, InitialStatus
<1>2. ASSUME NEW s \in Sessions, NEW o \in Orders, NowpaymentsIpn(s, o) PROVE SaleRecorded'
  BY <1>2 DEF NowpaymentsIpn, Starts, FulfilFrom
<1>3. ASSUME NEW s \in Sessions, NEW o \in Orders, StripeWebhook(s, o) PROVE SaleRecorded'
  BY <1>3 DEF StripeWebhook, Starts
<1>4. ASSUME NEW s \in Sessions, NEW o \in Orders, PaymentReturn(s, o) PROVE SaleRecorded'
  BY <1>4 DEF PaymentReturn, Starts, FulfilFrom
<1>5. ASSUME NEW s \in Sessions, NEW o \in Orders, ApproveOrder(s, o) PROVE SaleRecorded'
  BY <1>5 DEF ApproveOrder, Starts, database
<1>6. ASSUME NEW s \in Sessions, NEW o \in Orders, RejectOrder(s, o) PROVE SaleRecorded'
  BY <1>6 DEF RejectOrder, Starts, database
<1>7. ASSUME NEW s \in Sessions, NEW o \in Orders, WalletOrder(s, o) PROVE SaleRecorded'
  BY <1>7, SMTT(40) DEF WalletOrder, SetStatus, InitialStatus
<1>8. ASSUME NEW s \in Sessions, WalletCheckout(s) PROVE SaleRecorded'
  BY <1>8 DEF WalletCheckout, database
<1>9. ASSUME NEW s \in Sessions, AdminCredits(s) PROVE SaleRecorded'
  BY <1>9 DEF AdminCredits, database
<1>10. ASSUME NEW s \in Sessions, ExpireReads(s) PROVE SaleRecorded'
  BY <1>10 DEF ExpireReads, database
<1>11. ASSUME NEW s \in Sessions, WalletPaid(s) PROVE SaleRecorded'
  BY <1>11 DEF WalletPaid, SetPaid
<1>12. ASSUME NEW s \in Sessions, CreditRead(s) PROVE SaleRecorded'
  BY <1>12 DEF CreditRead, database
<1>13. ASSUME NEW s \in Sessions, CreditWrite(s) PROVE SaleRecorded'
  BY <1>13 DEF CreditWrite
<1>14. ASSUME NEW s \in Sessions, MarkPaid(s) PROVE SaleRecorded'
  BY <1>14 DEF MarkPaid, SetPaid
<1>15. ASSUME NEW s \in Sessions, Reload(s) PROVE SaleRecorded'
  BY <1>15 DEF Reload, database
<1>16. ASSUME NEW s \in Sessions, ToPending(s) PROVE SaleRecorded'
  BY <1>16 DEF ToPending, SetStatus
<1>17. ASSUME NEW s \in Sessions, CreateUser(s) PROVE SaleRecorded'
  BY <1>17 DEF CreateUser
<1>18. ASSUME NEW s \in Sessions, CreateFails(s) PROVE SaleRecorded'
  BY <1>18 DEF CreateFails, database
<1>19. ASSUME NEW s \in Sessions, MarkApproved(s) PROVE SaleRecorded'
  BY <1>19 DEF MarkApproved, SetStatus
<1>20. ASSUME NEW s \in Sessions, SaleCheck(s) PROVE SaleRecorded'
  BY <1>20 DEF SaleCheck, AfterSale, database
<1>21. ASSUME NEW s \in Sessions, SaleInsert(s) PROVE SaleRecorded'
  BY <1>21 DEF SaleInsert, AfterSale
<1>22. ASSUME NEW s \in Sessions, RewardCheck(s) PROVE SaleRecorded'
  BY <1>22 DEF RewardCheck, database
<1>23. ASSUME NEW s \in Sessions, RewardFlag(s) PROVE SaleRecorded'
  BY <1>23 DEF RewardFlag
<1>24. ASSUME NEW s \in Sessions, MarkRejected(s) PROVE SaleRecorded'
  BY <1>24 DEF MarkRejected, SetStatus
<1>25. ASSUME NEW s \in Sessions, ExpireWrites(s) PROVE SaleRecorded'
  BY <1>25 DEF ExpireWrites
<1>26. ASSUME NEW s \in Sessions, Dies(s) PROVE SaleRecorded'
  BY <1>26 DEF Dies, database
<1>27. ASSUME UNCHANGED vars PROVE SaleRecorded'
  BY <1>27 DEF vars, database
<1> QED
  BY <1>1, <1>2, <1>3, <1>4, <1>5, <1>6, <1>7, <1>8, <1>9,
     <1>10, <1>11, <1>12, <1>13, <1>14, <1>15, <1>16, <1>17, <1>18,
     <1>19, <1>20, <1>21, <1>22, <1>23, <1>24, <1>25, <1>26, <1>27 DEF Next, Request, Continue

(* The inductive invariant of requests that neither overlap nor die.         *)
THEOREM SerialHolds == ASSUME OneRequest, ~CanDie PROVE Spec => []SerialProtocol
<1>1. Init => SerialProtocol
  BY DEF Init, SerialProtocol, StatusKnown, ServiceRecorded, ServedOnce,
         RewardRecorded, RewardedOnce, SaleRecorded
<1>2. TypeOK /\ OrderProtocol /\ SerialProtocol /\ [Next]_vars => SerialProtocol'
  BY StatusStep, ServiceStep, RewardStep, SaleStep DEF SerialProtocol
<1> QED
  BY <1>1, <1>2, ProtocolInvariant, PTL DEF Spec

(* Repeated callbacks, a browser return and an admin's approve of one order  *)
(* create one user between them, if they come one after the other.           *)
THEOREM OrdersServedOnce == ASSUME OneRequest, ~CanDie PROVE Spec => []ServedOnce
<1>1. SerialProtocol => ServedOnce
  BY DEF SerialProtocol
<1> QED
  BY <1>1, SerialHolds, PTL

(* The referrer is credited once, however many orders the invited buyer      *)
(* places one after the other.                                               *)
THEOREM ReferrerRewardedOnce == ASSUME OneRequest, ~CanDie PROVE Spec => []RewardedOnce
<1>1. SerialProtocol => RewardedOnce
  BY DEF SerialProtocol
<1> QED
  BY <1>1, SerialHolds, PTL

(* Between requests, exactly the approved orders have their revenue booked.  *)
THEOREM RevenueIsComplete == ASSUME OneRequest, ~CanDie PROVE Spec => []RevenueComplete
<1>1. SerialProtocol => RevenueComplete
  BY DEF SerialProtocol, SaleRecorded, RevenueComplete
<1> QED
  BY <1>1, SerialHolds, PTL
=============================================================================
