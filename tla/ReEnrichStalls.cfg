SPECIFICATION Spec
CONSTANTS
    Apps = {a1}
    Workers = {w1}
    NoWorker = NoWorker
    Texts = {t1}
    NoText = NoText
    Ops = {"re_enrich"}
    Enrichment = {TRUE}
    MaxCriteria = 1
    MaxTokens = 0
    MaxMails = 0
    MaxCrashes = 0
INVARIANTS
    ReEnrichmentRestores
CHECK_DEADLOCK FALSE
