SPECIFICATION Spec
CONSTANTS
    Apps = {a1}
    Workers = {w1, w2}
    NoWorker = NoWorker
    Texts = {t1}
    NoText = NoText
    Ops = {"retry", "patch", "notify", "re_enrich"}
    Enrichment = {TRUE, FALSE}
    MaxCriteria = 1
    MaxTokens = 0
    MaxMails = 1
    MaxCrashes = 0
SYMMETRY WorkerSymmetry
VIEW NoHistory
INVARIANTS
    TypeOK
    LateStagesWereInvited
    TrailIsComplete
    LockIsHeldByARun
PROPERTIES
    ImplementsFunnel
CHECK_DEADLOCK FALSE
