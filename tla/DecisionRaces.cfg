SPECIFICATION Spec
CONSTANTS
    Apps = {a1}
    Workers = {w1, w2}
    NoWorker = NoWorker
    Texts = {t1}
    NoText = NoText
    Ops = {"patch", "notify", "chat"}
    Enrichment = {FALSE}
    MaxCriteria = 1
    MaxTokens = 1
    MaxMails = 2
    MaxCrashes = 1
SYMMETRY WorkerSymmetry
INVARIANTS
    MailsAreRecorded
PROPERTIES
    ImplementsFunnel
CHECK_DEADLOCK FALSE
