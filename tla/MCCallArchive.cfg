CONSTANTS
    c1 = c1
    m1 = m1
    m2 = m2
    h1 = h1
    h2 = h2
    Calls = {c1}
    Months = {m1, m2}
    MonthOf <- LastMonth
    NoCall = NoCall
    NoMonth = NoMonth
    Handlers = {h1, h2}
    MaxFaults = 1
SPECIFICATION FairSpec
INVARIANTS
    TypeOK
    RetainedIsWhole
    TranslationIsServed
    NoObjectLeft
PROPERTY ExpiredGoes
