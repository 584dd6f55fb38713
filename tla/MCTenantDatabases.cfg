CONSTANTS
    b1 = b1
    b2 = b2
    e1 = e1
    e2 = e2
    w1 = w1
    w2 = w2
    Brands = {b1, b2}
    Emails = {e1, e2}
    NoBrand = NoBrand
    NoEmail = NoEmail
    Handlers = {w1, w2}
    Target = 1
    MaxProjects = 2
    MaxCodes = 2
    MaxStarts = 2
    MaxRemovals = 1
    MaxFaults = 0
SPECIFICATION Spec
INVARIANTS OneAccountPerEmail SweepKeepsPlans
PROPERTY KeepsTenantsApart
CHECK_DEADLOCK FALSE
SYMMETRY Symmetry
