SPECIFICATION Spec
CONSTANTS
    Users = {u1, u2}
    Recruiters = {u1}
    Templates = {t1}
    Default = t0
    Baseline = {}
    Probes = {}
    Notes = {}
    Workers = {w1}
    MaxRounds = 2
    Ops = {"reopen", "tracks", "panel"}
INVARIANTS
    FeedbackHasItsKit
    NobodyIsStranded
    FirstRoundIsWorkedOn
PROPERTIES
    RoundsCloseWhenComplete
    ImplementsRecord
CHECK_DEADLOCK FALSE
