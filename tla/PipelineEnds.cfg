SPECIFICATION FairSpec
CONSTANTS
    Apps = {a1}
    Workers = {w1, w2}
    NoWorker = NoWorker
    Texts = {t1}
    NoText = NoText
    Ops = {"retry", "paste", "linkedin", "empty", "criteria", "no_llm"}
    Enrichment = {TRUE, FALSE}
    MaxCriteria = 2
    MaxTokens = 0
    MaxMails = 0
    MaxCrashes = 1
INVARIANTS
    NoSilentStall
PROPERTIES
    CoroutinesEnd
CHECK_DEADLOCK FALSE
