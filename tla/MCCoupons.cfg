CONSTANTS
    u1 = u1
    u2 = u2
    c1 = c1
    c2 = c2
    h1 = h1
    h2 = h2
    Users = {u1}
    Codes = {c1, c2}
    Requests = {h1, h2}
    Hooks = {h2}
    Percent = {c1}
    Cycles <- MCCycles
    Supply <- MCSupply
    MaxRequests = 3
    MaxCharges = 2
    MaxFaults = 1
CHECK_DEADLOCK FALSE
SPECIFICATION FairSpec
INVARIANTS
    TypeOK
    OneLiveDiscount
    TallyCoversRedemptions
 
