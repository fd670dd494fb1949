SPECIFICATION Spec
CONSTANTS
    Users = {u1, u2}
    Sso = {u2}
    BreakGlass = u2
    DevUser = u2
    Passwords = {p1, p2}
    EnvPassword = env
    NoPassword = NoPassword
    FirstUser = u1
    FirstPassword = p1
    Workers = {w1, w2}
    States = {s1, s2}
    Configs = {{"oidc", "clock"}, {"oidc", "revocations"}, {"oidc", "restarts", "unseeded"},
               {"revocations", "rehash"}, {"clock"}, {"bypass", "unseeded"}}
    TTL = 3
    Throttle = 2
    CacheTTL = 1
    MaxSessions = 2
    MaxTime = 3
    MaxKeys = 1
    MaxRevocations = 2
    MaxRestarts = 1
SYMMETRY WorkerSymmetry
CONSTRAINT SecondStateIsForKeys
INVARIANTS
    TypeOK
    SessionsFollowCredentials
    UsedSessionsLast
PROPERTIES
    RevokedStayOut
    UsedStatesAreRefused
    RotationIsPickedUp
CHECK_DEADLOCK FALSE
