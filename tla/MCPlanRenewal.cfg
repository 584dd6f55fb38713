CONSTANTS
    w1 = w1
    w2 = w2
    Requests = {w1, w2}
    Hooks = {}
    Alloc = 2
    CallMinutes = {1, 3}
    MaxCalls = 2
    MaxChanges = 1
    MaxFaults = 1
SPECIFICATION Spec
INVARIANTS
    OneClaimPerCall
    OneChargePerPeriod
PROPERTIES CancelStopsRenewal ImplementsEarlyRenewal
