CONSTANTS
    u1 = u1
    u2 = u2
    c1 = c1
    c2 = c2
    h1 = h1
    h2 = h2
    Users = {u1, u2}
    Codes = {c1}
    Requests = {h1}
    Hooks = {}
    Percent = {}
    Cycles <- MCCycles
    Supply <- MCSupply
    MaxRequests = 3
    MaxCharges = 2
    MaxFaults = 0
CHECK_DEADLOCK FALSE
SPECIFICATION Spec
INVARIANT NotOversold
