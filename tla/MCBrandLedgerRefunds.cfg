CONSTANTS
    i1 = i1
    h1 = h1
    h2 = h2
    a1 = a1
    a2 = a2
    Invoices = {i1}
    Handlers = {h1, h2}
    Admins = {}
    AmountPaid <- MCPaid
    SplitsFor <- MCOneSplit
    RefundSteps <- MCRefunds
    RefundHandlers = {h1, h2}
    Referred = {}
    PayoutSizes = {2}
    MaxFaults = 1
SPECIFICATION Spec
INVARIANTS
    RefundIsCovered
    OverReversalIsBounded
    TypeOK
PROPERTY ImplementsInvoiceBook
