SPECIFICATION FairSpec
CONSTANTS
    Accounts = {a1, a2}
    EnvCookie = env
    ApifyKeys = {k1}
    SmtpPasswords = {q1, q2}
    None = None
    Workers = {w1, w2}
    Configs = {{"linkedin", "rekeys"}, {"linkedin", "env", "apify"}, {"saves", "rekeys"}}
    MaxRekeys = 1
INVARIANTS
    TypeOK
    LastDecisionHolds
PROPERTIES
    SecretsChangeByName
    RequestsEnd
CHECK_DEADLOCK FALSE
