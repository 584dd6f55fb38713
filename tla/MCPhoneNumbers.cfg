CONSTANTS
    u1 = u1
    u2 = u2
    n1 = n1
    n2 = n2
    w1 = w1
    w2 = w2
    Users = {u1, u2}
    Numbers = {n1, n2}
    NoUser = NoUser
    NoNumber = NoNumber
    HeldAtFirst <- OneHeld
    Handlers = {w1, w2}
    Target = 1
    MaxRequests = 2
    MaxLapses = 1
    MaxFaults = 1
SPECIFICATION FairSpec
INVARIANTS
    NumberIsReserved
    OnTheBooks
    Agreement
    PoolWithinTarget
PROPERTY ReservationEnds
CHECK_DEADLOCK FALSE
