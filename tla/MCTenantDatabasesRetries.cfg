CONSTANTS
    b1 = b1
    b2 = b2
    e1 = e1
    e2 = e2
    w1 = w1
    w2 = w2
    Brands = {b1}
    Emails = {e1}
    NoBrand = NoBrand
    NoEmail = NoEmail
    Handlers = {w1, w2}
    Target = 0
    MaxProjects = 2
    MaxCodes = 1
    MaxStarts = 1
    MaxRemovals = 1
    MaxFaults = 1
SPECIFICATION FairSpec
INVARIANT DatabaseIsRecorded
PROPERTIES SetupIsRetried DueIsRemoved
CHECK_DEADLOCK FALSE
