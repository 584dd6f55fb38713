CONSTANTS
    w1 = w1
    w2 = w2
    Requests = {w1}
    Hooks = {}
    Alloc = 2
    CallMinutes = {1, 3}
    MaxCalls = 3
    MaxChanges = 0
    MaxFaults = 0
SPECIFICATION Spec
INVARIANT ClaimsArePaid
