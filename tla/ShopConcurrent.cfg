SPECIFICATION Spec
CONSTANTS
    s1 = s1
    s2 = s2
    card = card
    wallet1 = wallet1
    wallet2 = wallet2
    ipn = ipn
    ipn2 = ipn2
    webhook = webhook
    redirect = redirect
    Sessions = {s1, s2}
    Orders = {wallet1, wallet2, ipn}
    MethodOf <- MCMethodOf
    Purchases <- MCPurchases
    Invited <- MCInvited
    Price = 2
    Reward = 1
    Adjustments <- MCAdjustments
    CanDie = TRUE
    MaxServed <- MCServedOnceByWallet
    MaxCredits = 1
INVARIANTS
    ServedWasPaid
    BookedWasServed
    NoMoneyMade
    OrderProtocol
SYMMETRY Symmetry
