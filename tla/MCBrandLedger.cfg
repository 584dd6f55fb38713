CONSTANTS
    i1 = i1
    h1 = h1
    h2 = h2
    a1 = a1
    a2 = a2
    Invoices = {i1}
    Handlers = {h1, h2}
    Admins = {a1, a2}
    AmountPaid <- MCPaid
    SplitsFor <- MCSplits
    RefundSteps <- MCNoRefunds
    RefundHandlers = {h1}
    Referred = {i1}
    PayoutSizes = {2}
    MaxFaults = 2
SPECIFICATION FairSpec
INVARIANTS
    CreditMatchesLedger
    PaymentNotLost
    OverdrawIsBounded
PROPERTY PaymentIsSettled
