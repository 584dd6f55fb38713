CONSTANTS
    w1 = w1
    w2 = w2
    Requests = {w1}
    Hooks = {w2}
    Alloc = 2
    CallMinutes = {5}
    MaxCalls = 2
    MaxChanges = 1
    MaxFaults = 1
SPECIFICATION FairSpec
PROPERTIES
    ExhaustedIsResolved
    PaidIsUnblocked
