SPECIFICATION FairSpec
CONSTANTS
    Users = {u1, u2}
    Recruiters = {u1}
    Templates = {}
    Default = t0
    Baseline = {}
    Probes = {p1}
    Notes = {}
    Workers = {w1, w2}
    MaxRounds = 1
    Ops = {"panel", "activation", "patch_kit", "generate", "stale", "no_llm"}
PROPERTIES
    FeedbackStays
    GenerationKeepsAnswers
    FrozenKitsKeepQuestions
    GenerationEnds
CHECK_DEADLOCK FALSE
