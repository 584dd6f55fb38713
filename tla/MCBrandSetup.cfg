CONSTANTS
    r1 = r1
    r2 = r2
    w1 = w1
    w2 = w2
    d1 = d1
    Requests = {r1}
    Handlers = {w1, w2}
    Domains = {d1}
    NoDomain = NoDomain
    NoRequest = NoRequest
    MaxClaims = 2
    MaxFaults = 1
SPECIFICATION FairSpec
INVARIANTS
    TypeOK
    OneSetupAtATime
    PromotedOnce
    VerifiedIsProven
    PromotionClosesRequest
PROPERTY AwaitingIsPromoted
