SPECIFICATION FairSpec
CONSTANTS
    Users = {u1, u2}
    Workers = {w1, w2}
    Nobody = Nobody
    FirstAdmin = u1
    BreakGlass = u2
    Ops = {}
INVARIANTS
    SomeActiveAdmin
PROPERTIES
    RequestsEnd
    ImplementsRoster
CHECK_DEADLOCK FALSE
