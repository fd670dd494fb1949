SPECIFICATION FairSpec
CONSTANTS
    Tokens = {t1}
    Apps = {a, b}
    NoApp = NoApp
    Clients = {c1, c2}
    Backends = {"memory", "redis"}
    TTL = 1
    MaxTime = 2
    MaxRestarts = 1
    Workers = {w1, w2}
    App = a
    Roles = {"recruiter", "viewer"}
    Configs = {{"overlap", "decisions"}, {"overlap", "breaks"}, {"decisions", "undo", "patch"},
               {"decisions", "undo", "clock", "breaks"}, {"retries", "viewers", "decisions"}}
    MaxSteps = 2
    MaxCalls = 2
    MaxAttempts = 2
    MaxTurns = 2
    MaxWrites = 4
INVARIANTS
    TypeOK
    HistoryReplays
PROPERTIES
    ImplementsOneShot
    UndoRestores
    NotesAreKept
    ViewersWriteNothing
    TurnsEnd
CHECK_DEADLOCK FALSE
