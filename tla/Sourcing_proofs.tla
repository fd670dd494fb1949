-------------------------- MODULE Sourcing_proofs --------------------------
(***************************************************************************)
(* Proofs about Sourcing, for any number of accounts, secrets, requests    *)
(* and changes of the settings key.                                        *)
(***************************************************************************)
EXTENDS Sourcing, TLAPS

\* What a request in flight relies on: a reconnect and a save have read a row, which is
\* never deleted; a reconnect has an email, a save that retains a password has one.
RowsWereRead ==
    \A w \in Workers :
        /\ At(w, "scrape", "login") => settings.there /\ workers[w].copy.email # None
        /\ At(w, "save", "commit") =>
              settings.there /\ (workers[w].named.smtp = "blank" => workers[w].copy.smtp.v # None)

SourcingInv == TypeOK /\ RowsWereRead /\ LastDecisionHolds

-----------------------------------------------------------------------------
(* Records.                                                                *)

LEMMA RequestRecords ==
    /\ Idle \in Worker
    /\ \A f \in BOOLEAN : Reconnecting(f) \in Worker
    /\ \A f \in BOOLEAN, c \in Accounts \cup {EnvCookie} : Fetching(f, c) \in Worker
  BY DEF Worker, Scrape, Reconnecting, Fetching

\* The kind and the place of a request tell its fields.
LEMMA RecordAt ==
    ASSUME NEW r \in Worker
    PROVE  /\ r.kind = "scrape" /\ r.pc = "reconnect" =>
                r \in [kind : {"scrape"}, pc : {"reconnect"}, fetched : BOOLEAN]
           /\ r.kind = "scrape" /\ r.pc = "login" =>
                r \in [kind : {"scrape"}, pc : {"login"}, fetched : BOOLEAN, there : {TRUE},
                       copy : Access]
           /\ r.kind = "scrape" /\ r.pc = "fetch" =>
                r \in [kind : {"scrape"}, pc : {"fetch"}, fetched : BOOLEAN,
                       li_at : Accounts \cup {EnvCookie}]
           /\ r.kind = "decide" /\ r.pc = "browser" =>
                r \in [kind : {"decide"}, pc : {"browser"}, wish : Wish]
           /\ r.kind = "decide" /\ r.pc = "saving" =>
                r \in [kind : {"decide"}, pc : {"saving"}, wish : Wish, there : BOOLEAN,
                       copy : Access]
           /\ r.kind = "save" /\ r.pc = "commit" =>
                r \in [kind : {"save"}, pc : {"commit"}, named : Named, copy : Secrets]
           /\ r.kind = "get" => r \in [kind : {"get"}, pc : {"read", "create"}]
           /\ r.kind = "save" /\ r.pc \in {"read", "create"} =>
                r \in [kind : {"save"}, pc : {"read", "create"}, named : Named]
<1>1. /\ r.kind = "scrape" => r \in Scrape
      /\ r.kind = "decide" => r \in Decide
      /\ r.kind \in {"get", "save"} => r \in Save
  <2>1. \A x \in Scrape : x.kind = "scrape"
    BY DEF Scrape
  <2>2. \A x \in Decide : x.kind = "decide"
    BY DEF Decide
  <2>3. \A x \in Save : x.kind \in {"get", "save"}
    BY DEF Save
  <2> QED
    BY <2>1, <2>2, <2>3 DEF Worker, Idle
<1>2. CASE r.kind = "scrape"
  BY <1>1, <1>2 DEF Scrape
<1>3. CASE r.kind = "decide"
  BY <1>1, <1>3 DEF Decide
<1>4. CASE r.kind \in {"get", "save"}
  BY <1>1, <1>4 DEF Save
<1> QED
  BY <1>2, <1>3, <1>4

LEMMA FieldsAt ==
    ASSUME TypeOK, NEW w \in Workers
    PROVE  /\ At(w, "scrape", "reconnect") => workers[w].fetched \in BOOLEAN
           /\ At(w, "scrape", "login") =>
                workers[w].fetched \in BOOLEAN /\ workers[w].copy \in Access
           /\ At(w, "decide", "browser") => workers[w].wish \in Wish
           /\ At(w, "decide", "saving") =>
                /\ workers[w].wish \in Wish /\ workers[w].there \in BOOLEAN
                /\ workers[w].copy \in Access
           /\ At(w, "save", "commit") =>
                workers[w].named \in Named /\ workers[w].copy \in Secrets
<1>1. workers[w] \in Worker
  BY DEF TypeOK
<1>2. At(w, "scrape", "reconnect") => workers[w].fetched \in BOOLEAN
  <2>1. \A r \in [kind : {"scrape"}, pc : {"reconnect"}, fetched : BOOLEAN] : r.fetched \in BOOLEAN
    OBVIOUS
  <2> QED
    BY <1>1, <2>1, RecordAt DEF At
<1>3. At(w, "scrape", "login") => workers[w].fetched \in BOOLEAN /\ workers[w].copy \in Access
  <2>1. \A r \in [kind : {"scrape"}, pc : {"login"}, fetched : BOOLEAN, there : {TRUE},
                  copy : Access] : r.fetched \in BOOLEAN /\ r.copy \in Access
    OBVIOUS
  <2> QED
    BY <1>1, <2>1, RecordAt DEF At
<1>4. At(w, "decide", "browser") => workers[w].wish \in Wish
  <2>1. \A r \in [kind : {"decide"}, pc : {"browser"}, wish : Wish] : r.wish \in Wish
    OBVIOUS
  <2> QED
    BY <1>1, <2>1, RecordAt DEF At
<1>5. At(w, "decide", "saving") =>
        /\ workers[w].wish \in Wish /\ workers[w].there \in BOOLEAN
        /\ workers[w].copy \in Access
  <2>1. \A r \in [kind : {"decide"}, pc : {"saving"}, wish : Wish, there : BOOLEAN,
                  copy : Access] : r.wish \in Wish /\ r.there \in BOOLEAN /\ r.copy \in Access
    OBVIOUS
  <2> QED
    BY <1>1, <2>1, RecordAt DEF At
<1>6. At(w, "save", "commit") => workers[w].named \in Named /\ workers[w].copy \in Secrets
  <2>1. \A r \in [kind : {"save"}, pc : {"commit"}, named : Named, copy : Secrets] :
            r.named \in Named /\ r.copy \in Secrets
    OBVIOUS
  <2> QED
    BY <1>1, <2>1, RecordAt DEF At
<1> QED
  BY <1>2, <1>3, <1>4, <1>5, <1>6

LEMMA BecomesType ==
    ASSUME TypeOK, NEW w \in Workers, NEW rec \in Worker, Becomes(w, rec)
    PROVE  /\ workers' \in [Workers -> Worker]
           /\ workers'[w] = rec
           /\ \A v \in Workers \ {w} : workers'[v] = workers[v]
  BY DEF Becomes, TypeOK

LEMMA SealType ==
    ASSUME TypeOK, NEW Values, NEW v \in Values
    PROVE  Seal(v) \in Sealed(Values)
  BY DEF TypeOK, Seal, Sealed

LEMMA NullType == ASSUME NEW Values PROVE Null \in Sealed(Values)
  BY DEF Null, Sealed

LEMMA SettingsType ==
    ASSUME TypeOK
    PROVE  /\ settings \in [there : BOOLEAN, access : Access, secrets : Secrets]
           /\ settings.there => settings \in Row
           /\ ~settings.there => settings = NoRow
<1>1. NoAccess \in Access /\ NoSecrets \in Secrets
  BY NullType DEF NoAccess, NoSecrets, Access, Secrets
<1>2. NoRow.there = FALSE /\ NoRow \in [there : BOOLEAN, access : Access, secrets : Secrets]
  BY <1>1 DEF NoRow
<1>3. \A r \in Row : r.there = TRUE /\ r \in [there : BOOLEAN, access : Access, secrets : Secrets]
  BY DEF Row
<1>4. settings \in Row \/ settings = NoRow
  BY DEF TypeOK
<1> QED
  BY <1>2, <1>3, <1>4

\* The columns that any commit leaves.
LEMMA SealedColumnType ==
    ASSUME NEW Values, NEW new \in Sealed(Values), NEW seen, NEW stored \in Sealed(Values)
    PROVE  SealedColumn(new, seen, stored) \in Sealed(Values)
  BY DEF SealedColumn

LEMMA InitType == Init => TypeOK
<1> SUFFICES ASSUME Init PROVE TypeOK
  OBVIOUS
<1>1. NoSecrets \in Secrets /\ NoAccess \in Access
  BY NullType DEF NoSecrets, NoAccess, Secrets, Access
<1>2. BlankRow \in Row
  BY <1>1 DEF BlankRow, NoRow, Row
<1>3. \A k \in ApifyKeys : [BlankRow EXCEPT !.secrets.apify = Seal(k)] \in Row
  <2> TAKE k \in ApifyKeys
  <2>1. Seal(k) \in Sealed(ApifyKeys)
    BY ConstantsAssumption DEF Init, Seal, Sealed
  <2> QED
    BY <2>1, <1>1 DEF BlankRow, NoRow, Row, Secrets
<1>4. settings \in Row \cup {NoRow}
  BY <1>2, <1>3 DEF Init
<1> QED
  BY <1>4, RequestRecords, ConstantsAssumption DEF Init, TypeOK, Wish, Disconnected

LEMMA InitInv == Init => SourcingInv
<1> SUFFICES ASSUME Init PROVE SourcingInv
  OBVIOUS
<1>1. RowsWereRead
  BY DEF Init, RowsWereRead, At, Idle
<1>2. settings.access = NoAccess
  <2>1. BlankRow.access = NoAccess
    BY DEF BlankRow, NoRow
  <2>2. \A k : [BlankRow EXCEPT !.secrets.apify = k].access = BlankRow.access
    OBVIOUS
  <2>3. NoRow.access = NoAccess
    BY DEF NoRow
  <2> QED
    BY <2>1, <2>2, <2>3 DEF Init
<1>3. LastDecisionHolds
  BY <1>2 DEF Init, LastDecisionHolds, Disconnected
<1> QED
  BY <1>1, <1>3, InitType DEF SourcingInv

-----------------------------------------------------------------------------
(* Steps that write nothing.                                               *)

\* What RowsWereRead asks of the record a request becomes.
IsFounded(r) ==
    /\ r.kind = "scrape" /\ r.pc = "login" => settings.there /\ r.copy.email # None
    /\ r.kind = "save" /\ r.pc = "commit" =>
          settings.there /\ (r.named.smtp = "blank" => r.copy.smtp.v # None)

LEMMA RowsStayRead ==
    ASSUME SourcingInv, NEW w \in Workers, NEW rec \in Worker, Becomes(w, rec), IsFounded(rec),
           settings.there => settings'.there
    PROVE  RowsWereRead'
<1>1. workers'[w] = rec /\ \A v \in Workers \ {w} : workers'[v] = workers[v]
  BY BecomesType DEF SourcingInv
<1>2. ASSUME NEW v \in Workers
      PROVE  /\ At(v, "scrape", "login")' => settings'.there /\ workers'[v].copy.email # None
             /\ At(v, "save", "commit")' =>
                    settings'.there /\
                    (workers'[v].named.smtp = "blank" => workers'[v].copy.smtp.v # None)
  <2>1. CASE v = w
    BY <1>1, <2>1 DEF IsFounded, At
  <2>2. CASE v # w
    BY <1>1, <2>2 DEF SourcingInv, RowsWereRead, At
  <2> QED
    BY <2>1, <2>2
<1> QED
  BY <1>2 DEF RowsWereRead

LEMMA QuietInv ==
    ASSUME SourcingInv, NEW w \in Workers, NEW rec \in Worker, Becomes(w, rec), IsFounded(rec),
           UNCHANGED <<config, key, settings, history>>
    PROVE  SourcingInv'
<1>1. TypeOK'
  BY BecomesType DEF SourcingInv, TypeOK, history
<1>2. RowsWereRead'
  BY RowsStayRead
<1>3. LastDecisionHolds'
  BY DEF SourcingInv, LastDecisionHolds, history
<1> QED
  BY <1>1, <1>2, <1>3 DEF SourcingInv

LEMMA EndsInv ==
    ASSUME SourcingInv, NEW w \in Workers, Ends(w), UNCHANGED <<config, key, settings, history>>
    PROVE  SourcingInv'
<1>1. IsFounded(Idle)
  BY DEF IsFounded, Idle
<1> QED
  BY <1>1, QuietInv, RequestRecords DEF Ends

LEMMA ScrapeQuietInv ==
    ASSUME SourcingInv, NEW w \in Workers,
           StartScrape(w) \/ ApifyAnswers(w) \/ ResolvesCookie(w) \/ FetchAnswers(w)
    PROVE  SourcingInv'
<1>1. UNCHANGED <<config, key, settings, history>>
  BY DEF StartScrape, ApifyAnswers, ResolvesCookie, FetchAnswers
<1>2. \A pc \in {"apify", "resolve"} :
        LET r == [kind |-> "scrape", pc |-> pc] IN r \in Worker /\ IsFounded(r)
  BY DEF Worker, Scrape, IsFounded
<1>3. \A f \in BOOLEAN : Reconnecting(f) \in Worker /\ IsFounded(Reconnecting(f))
  BY RequestRecords DEF Reconnecting, IsFounded
<1>4. \A f \in BOOLEAN, c \in Accounts \cup {EnvCookie} :
        Fetching(f, c) \in Worker /\ IsFounded(Fetching(f, c))
  BY RequestRecords DEF Fetching, IsFounded
<1>5. CASE StartScrape(w)
  <2>1. \E pc \in {"apify", "resolve"} : Becomes(w, [kind |-> "scrape", pc |-> pc])
    BY <1>5 DEF StartScrape
  <2> QED
    BY <2>1, <1>1, <1>2, QuietInv
<1>6. CASE ApifyAnswers(w)
  BY <1>6, <1>1, <1>2, QuietInv, EndsInv DEF ApifyAnswers
<1>7. CASE ResolvesCookie(w)
  <2>1. Opens(settings.access.cookie) => settings.access.cookie.v \in Accounts
    BY SettingsType, ConstantsAssumption DEF SourcingInv, Opens, Access, Sealed
  <2>2. \/ Becomes(w, Reconnecting(FALSE))
        \/ \E c \in Accounts \cup {EnvCookie} : Becomes(w, Fetching(FALSE, c))
    BY <1>7, <2>1 DEF ResolvesCookie
  <2> QED
    BY <2>2, <1>1, <1>3, <1>4, QuietInv
<1>8. CASE FetchAnswers(w)
  <2>1. Ends(w) \/ Becomes(w, Reconnecting(TRUE))
    BY <1>8 DEF FetchAnswers, Refused, Ends
  <2> QED
    BY <2>1, <1>1, <1>3, QuietInv, EndsInv
<1> QED
  BY <1>5, <1>6, <1>7, <1>8

LEMMA ReconnectsInv == ASSUME SourcingInv, NEW w \in Workers, Reconnects(w) PROVE SourcingInv'
<1>1. CASE settings.there /\ HasCredentials(settings.access)
  <2> DEFINE r == [kind |-> "scrape", pc |-> "login", fetched |-> workers[w].fetched,
                   there |-> TRUE, copy |-> settings.access]
  <2>1. workers[w].fetched \in BOOLEAN
    BY FieldsAt DEF SourcingInv, Reconnects
  <2>2. r \in Worker
    BY <2>1, SettingsType DEF SourcingInv, Worker, Scrape
  <2>3. IsFounded(r)
    BY <1>1 DEF IsFounded, HasCredentials
  <2> QED
    BY <1>1, <2>2, <2>3, QuietInv DEF Reconnects
<1>2. CASE ~(settings.there /\ HasCredentials(settings.access))
  BY <1>2, EndsInv DEF Reconnects
<1> QED
  BY <1>1, <1>2

LEMMA DecisionQuietInv ==
    ASSUME SourcingInv, NEW w \in Workers,
           \/ \E wish \in Wish : StartDecision(w, wish)
           \/ BrowserFails(w) \/ DecisionReads(w) \/ RowIsTaken(w) \/ Raises(w)
    PROVE  SourcingInv'
<1>1. CASE BrowserFails(w) \/ RowIsTaken(w) \/ Raises(w)
  BY <1>1, EndsInv DEF BrowserFails, RowIsTaken, Raises
<1>2. ASSUME NEW wish \in Wish, StartDecision(w, wish) PROVE SourcingInv'
  <2> DEFINE r == [kind |-> "decide", pc |-> "browser", wish |-> wish]
  <2>1. r \in Worker
    BY DEF Worker, Decide
  <2>2. IsFounded(r)
    BY DEF IsFounded
  <2> QED
    BY <1>2, <2>1, <2>2, QuietInv DEF StartDecision
<1>3. CASE DecisionReads(w)
  <2> DEFINE r == [kind |-> "decide", pc |-> "saving", wish |-> workers[w].wish,
                   there |-> settings.there, copy |-> settings.access]
  <2>1. workers[w].wish \in Wish
    BY <1>3, FieldsAt DEF SourcingInv, DecisionReads
  <2>2. r \in Worker
    BY <2>1, SettingsType DEF SourcingInv, Worker, Decide
  <2>3. IsFounded(r)
    BY DEF IsFounded
  <2>4. Ends(w) \/ Becomes(w, r)
    BY <1>3 DEF DecisionReads
  <2> QED
    BY <1>3, <2>2, <2>3, <2>4, QuietInv, EndsInv DEF DecisionReads
<1> QED
  BY <1>1, <1>2, <1>3

LEMMA SaveQuietInv ==
    ASSUME SourcingInv, NEW w \in Workers, StartSave(w) \/ SettingsRead(w)
    PROVE  SourcingInv'
<1>1. ASSUME NEW r \in Save, Becomes(w, r), r.pc # "commit",
             UNCHANGED <<config, key, settings, history>>
      PROVE  SourcingInv'
  <2>1. r \in Worker /\ r.kind # "scrape"
    BY DEF Worker, Save
  <2> QED
    BY <1>1, <2>1, QuietInv DEF IsFounded
<1>2. CASE StartSave(w)
  <2>1. [kind |-> "get", pc |-> "read"] \in Save
    BY DEF Save
  <2>2. \A named \in Named : [kind |-> "save", pc |-> "read", named |-> named] \in Save
    BY DEF Save
  <2>3. CASE Becomes(w, [kind |-> "get", pc |-> "read"])
    BY <1>2, <2>1, <2>3, <1>1 DEF StartSave
  <2>4. CASE \E named \in Named : Becomes(w, [kind |-> "save", pc |-> "read", named |-> named])
    BY <1>2, <2>2, <2>4, <1>1 DEF StartSave
  <2> QED
    BY <1>2, <2>3, <2>4 DEF StartSave
<1>3. CASE SettingsRead(w)
  <2> DEFINE creating == [workers[w] EXCEPT !.pc = "create"]
             saving == [kind |-> "save", pc |-> "commit", named |-> workers[w].named,
                        copy |-> settings.secrets]
  <2>1. UNCHANGED <<config, key, settings, history>>
    BY <1>3 DEF SettingsRead
  <2>2. workers[w] \in [kind : {"get"}, pc : {"read", "create"}]
          \/ workers[w] \in [kind : {"save"}, pc : {"read", "create"}, named : Named]
    BY <1>3, RecordAt DEF SourcingInv, TypeOK, SettingsRead
  <2>3. creating \in Save /\ creating.pc # "commit"
    BY <2>2 DEF Save
  <2>4. CASE ~settings.there
    BY <1>3, <2>1, <2>3, <2>4, <1>1 DEF SettingsRead
  <2>5. CASE Ends(w)
    BY <2>1, <2>5, EndsInv
  <2>6. CASE settings.there /\ ~Ends(w)
    <3>1. workers[w].kind # "get" /\ ~LacksPassword(workers[w].named) /\ Becomes(w, saving)
      BY <1>3, <2>6 DEF SettingsRead
    <3>2. workers[w].named \in Named
      BY <2>2, <3>1
    <3>3. saving \in Worker
      BY <3>2, SettingsType DEF SourcingInv, Worker, Save
    <3>4. IsFounded(saving)
      BY <2>6, <3>1 DEF IsFounded, LacksPassword, Opens
    <3> QED
      BY <2>1, <3>1, <3>3, <3>4, QuietInv
  <2> QED
    BY <2>4, <2>5, <2>6
<1> QED
  BY <1>2, <1>3

-----------------------------------------------------------------------------
(* Steps that write.                                                       *)

LEMMA EndsFounded ==
    ASSUME SourcingInv, NEW w \in Workers, Ends(w), settings.there => settings'.there
    PROVE  workers' \in [Workers -> Worker] /\ RowsWereRead'
<1>1. IsFounded(Idle)
  BY DEF IsFounded, Idle
<1> QED
  BY <1>1, RequestRecords, BecomesType, RowsStayRead DEF SourcingInv, Ends

\* A reconnect that succeeds sets the cookie to that of the stored credentials.
LEMMA LoginSucceedsInv ==
    ASSUME SourcingInv, NEW w \in Workers, LoginSucceeds(w) PROVE SourcingInv'
<1> DEFINE copy == workers[w].copy
           c == Seal(copy.email)
<1>1. settings.there /\ copy.email # None /\ copy \in Access /\ workers[w].fetched \in BOOLEAN
  BY FieldsAt DEF SourcingInv, RowsWereRead, LoginSucceeds
<1>2. copy.email \in Accounts
  BY <1>1 DEF Access
<1>3. c \in Sealed(Accounts) /\ c.v = copy.email
  BY <1>2, SealType DEF SourcingInv, Seal
<1>4. settings' = [settings EXCEPT !.access = [settings.access EXCEPT !.cookie = c]]
  BY DEF LoginSucceeds
<1>5. settings.access \in Access /\ settings \in Row
  BY <1>1, SettingsType DEF SourcingInv, Row
<1>6. /\ [settings.access EXCEPT !.cookie = c] \in Access
      /\ settings'.access = [settings.access EXCEPT !.cookie = c]
  BY <1>3, <1>4, <1>5 DEF Access, Row
<1>7. settings' \in Row /\ settings'.there
  BY <1>4, <1>5, <1>6 DEF Row
<1>8. /\ settings'.access.cookie = c
      /\ settings'.access.email = settings.access.email
      /\ settings'.access.password = settings.access.password
  BY <1>5, <1>6 DEF Access
<1>9. TypeOK' /\ RowsWereRead'
  <2> DEFINE rec == Fetching(workers[w].fetched, copy.email)
  <2>1. rec \in Worker
    BY <1>1, <1>2, RequestRecords
  <2>2. IsFounded(rec)
    BY DEF IsFounded, Fetching
  <2>3. Becomes(w, rec)
    BY DEF LoginSucceeds
  <2>4. RowsWereRead'
    BY <1>7, <2>1, <2>2, <2>3, RowsStayRead
  <2>5. workers' \in [Workers -> Worker]
    BY <2>1, <2>3, BecomesType DEF SourcingInv
  <2>6. settled' \in BOOLEAN /\ UNCHANGED <<config, key, decision>>
    BY DEF LoginSucceeds, SourcingInv, TypeOK, IsCurrent
  <2> QED
    BY <1>7, <2>4, <2>5, <2>6 DEF SourcingInv, TypeOK
<1>10. LastDecisionHolds'
  <2> SUFFICES ASSUME settled' PROVE LastDecisionHolds'
    BY DEF LastDecisionHolds
  <2>1. settled /\ copy = settings.access /\ decision' = decision
    BY DEF LoginSucceeds, IsCurrent
  <2>2. copy.email = copy.password.v
    BY DEF LoginSucceeds, MaySucceed
  <2>3. Null.v = None /\ NoAccess.email = None
    BY DEF Null, NoAccess
  <2>4. CASE decision.kind = "disconnect"
    BY <2>1, <2>3, <2>4, <1>1 DEF SourcingInv, LastDecisionHolds
  <2>5. CASE decision.kind = "remember"
    <3>1. settings.access.email = decision.who /\ settings.access.password.v = decision.who
      BY <2>1, <2>5 DEF SourcingInv, LastDecisionHolds
    <3> QED
      BY <3>1, <2>1, <2>5, <1>3, <1>8 DEF LastDecisionHolds
  <2>6. CASE decision.kind \notin {"disconnect", "remember"}
    BY <2>1, <2>6, <1>1 DEF SourcingInv, LastDecisionHolds
  <2> QED
    BY <2>4, <2>5, <2>6
<1> QED
  BY <1>9, <1>10 DEF SourcingInv

\* A reconnect that fails clears the cookie, and only it.
LEMMA LoginFailsInv ==
    ASSUME SourcingInv, NEW w \in Workers, LoginFails(w) PROVE SourcingInv'
<1> DEFINE copy == workers[w].copy
           c == SealedColumn(Null, copy.cookie, settings.access.cookie)
<1>1. settings.there /\ copy.email # None /\ copy \in Access
  BY FieldsAt DEF SourcingInv, RowsWereRead, LoginFails
<1>2. settings.access \in Access /\ settings \in Row
  BY <1>1, SettingsType DEF SourcingInv, Row
<1>3. c \in Sealed(Accounts)
  BY <1>2, NullType, SealedColumnType DEF Access
<1>4. settings' = [settings EXCEPT !.access = [settings.access EXCEPT !.cookie = c]]
  BY DEF LoginFails
<1>5. /\ [settings.access EXCEPT !.cookie = c] \in Access
      /\ settings'.access = [settings.access EXCEPT !.cookie = c]
  BY <1>2, <1>3, <1>4 DEF Access, Row
<1>6. settings' \in Row /\ settings'.there
  BY <1>2, <1>4, <1>5 DEF Row
<1>7. /\ settings'.access.cookie = c
      /\ settings'.access.email = settings.access.email
      /\ settings'.access.password = settings.access.password
  BY <1>2, <1>5 DEF Access
<1>8. workers' \in [Workers -> Worker] /\ RowsWereRead'
  BY <1>6, EndsFounded DEF LoginFails
<1>9. TypeOK'
  <2>1. settled' \in BOOLEAN /\ UNCHANGED <<config, key, decision>>
    BY DEF LoginFails, SourcingInv, TypeOK, IsCurrent
  <2> QED
    BY <1>6, <1>8, <2>1 DEF SourcingInv, TypeOK
<1>10. LastDecisionHolds'
  <2> SUFFICES ASSUME settled' PROVE LastDecisionHolds'
    BY DEF LastDecisionHolds
  <2>1. settled /\ copy = settings.access /\ decision' = decision
    BY DEF LoginFails, IsCurrent
  <2>2. c = Null /\ Null.v = None /\ NoAccess.email = None
    BY <2>1 DEF Null, NoAccess, SealedColumn
  <2>3. CASE decision.kind = "disconnect"
    BY <2>1, <2>2, <2>3, <1>1 DEF SourcingInv, LastDecisionHolds
  <2>4. CASE decision.kind = "remember"
    <3>1. settings.access.email = decision.who /\ settings.access.password.v = decision.who
      BY <2>1, <2>4 DEF SourcingInv, LastDecisionHolds
    <3> QED
      BY <3>1, <2>1, <2>2, <2>4, <1>7 DEF LastDecisionHolds
  <2>5. CASE decision.kind \notin {"disconnect", "remember"}
    BY <2>1, <2>5, <1>1 DEF SourcingInv, LastDecisionHolds
  <2> QED
    BY <2>3, <2>4, <2>5
<1> QED
  BY <1>8, <1>9, <1>10 DEF SourcingInv

LEMMA WishTypes ==
    ASSUME NEW wish \in Wish
    PROVE  \/ wish.kind \in {"remember", "cookie"} /\ wish.who \in Accounts /\ wish # Disconnected
           \/ wish = Disconnected /\ wish.kind = "disconnect"
  BY DEF Wish, Disconnected

LEMMA WishedType ==
    ASSUME TypeOK, NEW wish \in Wish
    PROVE  Wished(wish) \in Access
<1>1. Wished(wish).cookie \in Sealed(Accounts)
  BY WishTypes, SealType, NullType DEF Wished
<1>2. Wished(wish).email \in Accounts \cup {None}
  BY WishTypes DEF Wished, Disconnected
<1>3. Wished(wish).password \in Sealed(Accounts)
  BY WishTypes, SealType, NullType DEF Wished, Disconnected
<1> QED
  BY <1>1, <1>2, <1>3 DEF Wished, Access

\* A decision over a fresh copy leaves what was wished.
LEMMA DecisionCommitsInv ==
    ASSUME SourcingInv, NEW w \in Workers, DecisionCommits(w) PROVE SourcingInv'
<1> DEFINE wish == workers[w].wish
           new == Wished(wish)
           seen == workers[w].copy
           old == settings.access
           col == [cookie |-> SealedColumn(new.cookie, seen.cookie, old.cookie),
                   email |-> PlainColumn(new.email, seen.email, old.email),
                   password |-> SealedColumn(new.password, seen.password, old.password)]
<1>1. wish \in Wish /\ seen \in Access
  BY FieldsAt DEF SourcingInv, DecisionCommits
<1>2. new \in Access /\ old \in Access
  BY <1>1, WishedType, SettingsType DEF SourcingInv
<1>3. col \in Access
  <2>1. /\ col.cookie \in Sealed(Accounts)
        /\ col.password \in Sealed(Accounts)
    BY <1>2, SealedColumnType DEF Access
  <2>2. col.email \in Accounts \cup {None}
    BY <1>2 DEF Access, PlainColumn
  <2> QED
    BY <2>1, <2>2 DEF Access
<1>4. settings' = [settings EXCEPT !.there = TRUE, !.access = col]
  BY DEF DecisionCommits
<1>5. settings' \in Row /\ settings'.there /\ settings'.access = col
  BY <1>3, <1>4, SettingsType DEF SourcingInv, Row
<1>6. workers' \in [Workers -> Worker] /\ RowsWereRead'
  BY <1>5, EndsFounded DEF DecisionCommits
<1>7. TypeOK'
  <2>1. settled' \in BOOLEAN /\ decision' \in Wish /\ UNCHANGED <<config, key>>
    BY <1>1 DEF DecisionCommits, IsCurrent
  <2> QED
    BY <1>5, <1>6, <2>1 DEF SourcingInv, TypeOK
<1>8. LastDecisionHolds'
  <2> SUFFICES ASSUME settled' PROVE LastDecisionHolds'
    BY DEF LastDecisionHolds
  <2>1. seen = old /\ decision' = wish
    BY DEF DecisionCommits, IsCurrent
  <2>2. col = new
    <3>1. SealedColumn(new.cookie, old.cookie, old.cookie) = new.cookie
      BY DEF SealedColumn
    <3>2. SealedColumn(new.password, old.password, old.password) = new.password
      BY DEF SealedColumn
    <3>3. PlainColumn(new.email, old.email, old.email) = new.email
      BY DEF PlainColumn
    <3> QED
      BY <2>1, <3>1, <3>2, <3>3, <1>2 DEF Access
  <2>3. settings'.access = Wished(decision')
    BY <2>1, <2>2, <1>5
  <2>4. CASE wish = Disconnected
    <3>1. Wished(wish) = NoAccess
      BY <2>4 DEF Wished, NoAccess, Disconnected
    <3> QED
      BY <2>1, <2>3, <2>4, <3>1 DEF LastDecisionHolds, Disconnected
  <2>5. CASE wish # Disconnected
    <3>1. /\ wish.kind \in {"remember", "cookie"}
          /\ Wished(wish).cookie.v = wish.who
          /\ wish.kind = "remember" =>
                Wished(wish).email = wish.who /\ Wished(wish).password.v = wish.who
          /\ wish.kind = "cookie" => Wished(wish).email = None /\ Wished(wish).password = Null
      BY <1>1, <2>5, WishTypes DEF Wished, Seal
    <3> QED
      BY <2>1, <2>3, <3>1 DEF LastDecisionHolds
  <2> QED
    BY <2>4, <2>5
<1> QED
  BY <1>6, <1>7, <1>8 DEF SourcingInv

LEMMA SettingsCreatedInv ==
    ASSUME SourcingInv, NEW w \in Workers, SettingsCreated(w) PROVE SourcingInv'
<1>1. settings' = [settings EXCEPT !.there = TRUE]
  BY DEF SettingsCreated
<1>2. settings' \in Row /\ settings'.there /\ settings'.access = settings.access
  BY <1>1, SettingsType DEF SourcingInv, Row
<1>3. CASE Ends(w)
  BY <1>2, <1>3, EndsFounded DEF SourcingInv, TypeOK, LastDecisionHolds, SettingsCreated, history
<1>4. CASE ~Ends(w)
  <2> DEFINE r == [workers[w] EXCEPT !.pc = "read"]
  <2>1. workers[w] \in [kind : {"get"}, pc : {"read", "create"}]
          \/ workers[w] \in [kind : {"save"}, pc : {"read", "create"}, named : Named]
    BY RecordAt DEF SourcingInv, TypeOK, SettingsCreated
  <2>2. r \in Save /\ r.pc = "read"
    BY <2>1 DEF Save
  <2>3. r \in Worker /\ IsFounded(r)
    BY <2>2 DEF Worker, IsFounded
  <2>4. Becomes(w, r)
    BY <1>4 DEF SettingsCreated
  <2>5. workers' \in [Workers -> Worker] /\ RowsWereRead'
    BY <1>2, <2>3, <2>4, BecomesType, RowsStayRead DEF SourcingInv
  <2> QED
    BY <1>2, <2>5 DEF SourcingInv, TypeOK, LastDecisionHolds, SettingsCreated, history
<1> QED
  BY <1>3, <1>4

LEMMA SavedType ==
    ASSUME TypeOK, NEW named \in Named, NEW seen \in Secrets, NEW stored \in Secrets,
           named.smtp = "blank" => seen.smtp.v # None
    PROVE  Saved(named, seen, stored) \in Secrets
<1> DEFINE s == Saved(named, seen, stored)
<1>1. s.apify \in Sealed(ApifyKeys)
  <2>1. named.apify \in {"omitted", "blank"} \cup ApifyKeys /\ stored.apify \in Sealed(ApifyKeys)
    BY DEF Named, Secrets
  <2>2. SealedColumn(Null, seen.apify, stored.apify) \in Sealed(ApifyKeys)
    BY <2>1, NullType, SealedColumnType
  <2>3. named.apify \in ApifyKeys => Seal(named.apify) \in Sealed(ApifyKeys)
    BY SealType
  <2> QED
    BY <2>1, <2>2, <2>3 DEF Saved
<1>2. s.smtp \in Sealed(SmtpPasswords)
  <2>1. /\ named.smtp \in {"omitted", "blank"} \cup SmtpPasswords
        /\ stored.smtp \in Sealed(SmtpPasswords) /\ seen.smtp \in Sealed(SmtpPasswords)
    BY DEF Named, Secrets
  <2>2. named.smtp = "blank" => seen.smtp.v \in SmtpPasswords
    BY <2>1 DEF Sealed
  <2>3. named.smtp = "blank" => Seal(seen.smtp.v) \in Sealed(SmtpPasswords)
    BY <2>2, SealType
  <2>4. named.smtp \in SmtpPasswords => Seal(named.smtp) \in Sealed(SmtpPasswords)
    BY SealType
  <2> QED
    BY <2>1, <2>3, <2>4 DEF Saved
<1> QED
  BY <1>1, <1>2 DEF Saved, Secrets

LEMMA SaveCommitsInv ==
    ASSUME SourcingInv, NEW w \in Workers, SaveCommits(w) PROVE SourcingInv'
<1> DEFINE new == Saved(workers[w].named, workers[w].copy, settings.secrets)
<1>1. /\ settings.there /\ workers[w].named \in Named /\ workers[w].copy \in Secrets
      /\ workers[w].named.smtp = "blank" => workers[w].copy.smtp.v # None
  BY FieldsAt DEF SourcingInv, RowsWereRead, SaveCommits
<1>2. settings \in Row /\ settings.secrets \in Secrets
  BY <1>1, SettingsType DEF SourcingInv, Row
<1>3. new \in Secrets
  BY <1>1, <1>2, SavedType DEF SourcingInv
<1>4. settings' = [settings EXCEPT !.secrets = new]
  BY DEF SaveCommits
<1>5. settings' \in Row /\ settings'.there /\ settings'.access = settings.access
  BY <1>2, <1>3, <1>4 DEF Row
<1>6. workers' \in [Workers -> Worker] /\ RowsWereRead'
  BY <1>5, EndsFounded DEF SaveCommits
<1> QED
  BY <1>5, <1>6 DEF SourcingInv, TypeOK, LastDecisionHolds, SaveCommits, history

LEMMA RekeyInv == SourcingInv /\ Rekey => SourcingInv'
<1> SUFFICES ASSUME SourcingInv, Rekey PROVE SourcingInv'
  OBVIOUS
<1>1. key' \in 0..MaxRekeys
  BY ConstantsAssumption DEF Rekey, SourcingInv, TypeOK
<1>2. workers' \in [Workers -> Worker] /\ \A w \in Workers : workers'[w] = Idle
  BY RequestRecords DEF Rekey
<1>3. RowsWereRead'
  BY <1>2 DEF RowsWereRead, At, Idle
<1> QED
  BY <1>1, <1>2, <1>3 DEF SourcingInv, TypeOK, LastDecisionHolds, Rekey, history

LEMMA StepInv == SourcingInv /\ [Next]_vars => SourcingInv'
<1> SUFFICES ASSUME SourcingInv, [Next]_vars PROVE SourcingInv'
  OBVIOUS
<1>1. ASSUME NEW w \in Workers, StartScrape(w) \/ ScrapeStep(w) PROVE SourcingInv'
  BY <1>1, ScrapeQuietInv, ReconnectsInv, LoginSucceedsInv, LoginFailsInv DEF ScrapeStep
<1>2. ASSUME NEW w \in Workers, (\E wish \in Wish : StartDecision(w, wish)) \/ DecisionStep(w) \/ Raises(w)
      PROVE  SourcingInv'
  BY <1>2, DecisionQuietInv, DecisionCommitsInv DEF DecisionStep
<1>3. ASSUME NEW w \in Workers, StartSave(w) \/ SaveStep(w) PROVE SourcingInv'
  BY <1>3, SaveQuietInv, SettingsCreatedInv, SaveCommitsInv DEF SaveStep
<1>4. CASE Rekey
  BY <1>4, RekeyInv
<1>5. CASE UNCHANGED vars
  <2>1. TypeOK'
    BY <1>5 DEF vars, SourcingInv, TypeOK
  <2>2. RowsWereRead'
    BY <1>5 DEF vars, SourcingInv, RowsWereRead, At
  <2> QED
    BY <1>5, <2>1, <2>2 DEF vars, SourcingInv, LastDecisionHolds
<1> QED
  BY <1>1, <1>2, <1>3, <1>4, <1>5 DEF Next, Step

-----------------------------------------------------------------------------
\* Every step keeps what SourcingInv says.
LEMMA Invariant == Spec => []SourcingInv
  BY InitInv, StepInv, PTL DEF Spec

\* Every variable stays in its type; no reconnect and no save of an optional password works
\* on a row or a secret that is not there.
THEOREM TypeCorrect == Spec => []TypeOK
<1>1. SourcingInv => TypeOK
  BY DEF SourcingInv
<1> QED
  BY <1>1, Invariant, PTL

\* However connects, pastes, disconnects and the reconnects of scrapes overlap, the row has
\* the access the last decision asked for until someone commits from a stale copy
\* (api/sourcing.py, api/candidates.py:281-330).
THEOREM LastDecisionIsKept == Spec => []LastDecisionHolds
<1>1. SourcingInv => LastDecisionHolds
  BY DEF SourcingInv
<1> QED
  BY <1>1, Invariant, PTL

-----------------------------------------------------------------------------
(* Secrets.                                                                *)

\* The body of SecretsChangeByName.
OnlyByName ==
    LET Saver(w) == At(w, "save", "commit") /\ workers'[w] = Idle
    IN  /\ settings'.secrets.apify # settings.secrets.apify =>
                \E w \in Workers : Saver(w) /\ workers[w].named.apify # "omitted"
        /\ settings'.secrets.smtp.v # settings.secrets.smtp.v =>
                \E w \in Workers : Saver(w) /\
                    \/ workers[w].named.smtp \in SmtpPasswords
                    \/ /\ workers[w].named.smtp = "blank"
                       /\ workers[w].copy.smtp # settings.secrets.smtp

\* No other step touches the secrets.
LEMMA OthersLeaveSecrets ==
    ASSUME SourcingInv, Next, \A w \in Workers : ~SaveCommits(w)
    PROVE  settings'.secrets = settings.secrets
<1>1. settings \in [there : BOOLEAN, access : Access, secrets : Secrets]
  BY SettingsType DEF SourcingInv
<1>2. \A t, a : /\ [settings EXCEPT !.there = t, !.access = a].secrets = settings.secrets
                /\ [settings EXCEPT !.access = a].secrets = settings.secrets
                /\ [settings EXCEPT !.there = t].secrets = settings.secrets
  BY <1>1
<1>3. ASSUME NEW w \in Workers, StartScrape(w) \/ ScrapeStep(w)
      PROVE  settings'.secrets = settings.secrets
  <2>1. CASE StartScrape(w) \/ ApifyAnswers(w) \/ ResolvesCookie(w) \/ Reconnects(w) \/ FetchAnswers(w)
    BY <2>1 DEF StartScrape, ApifyAnswers, ResolvesCookie, Reconnects, FetchAnswers
  <2>2. CASE LoginSucceeds(w)
    <3>1. \E a : settings' = [settings EXCEPT !.access = a]
      BY <2>2 DEF LoginSucceeds
    <3> QED
      BY <3>1, <1>2
  <2>3. CASE LoginFails(w)
    <3>1. \E a : settings' = [settings EXCEPT !.access = a]
      BY <2>3 DEF LoginFails
    <3> QED
      BY <3>1, <1>2
  <2> QED
    BY <1>3, <2>1, <2>2, <2>3 DEF ScrapeStep
<1>4. ASSUME NEW w \in Workers, (\E wish \in Wish : StartDecision(w, wish)) \/ DecisionStep(w) \/ Raises(w)
      PROVE  settings'.secrets = settings.secrets
  <2>1. CASE DecisionCommits(w)
    <3>1. \E a : settings' = [settings EXCEPT !.there = TRUE, !.access = a]
      BY <2>1 DEF DecisionCommits
    <3> QED
      BY <3>1, <1>2
  <2>2. CASE ~DecisionCommits(w)
    BY <1>4, <2>2 DEF StartDecision, DecisionStep, BrowserFails, DecisionReads, RowIsTaken, Raises
  <2> QED
    BY <2>1, <2>2
<1>5. ASSUME NEW w \in Workers, StartSave(w) \/ SaveStep(w)
      PROVE  settings'.secrets = settings.secrets
  <2>1. CASE StartSave(w) \/ SettingsRead(w)
    BY <2>1 DEF StartSave, SettingsRead
  <2>2. CASE SettingsCreated(w)
    <3>1. settings' = [settings EXCEPT !.there = TRUE]
      BY <2>2 DEF SettingsCreated
    <3> QED
      BY <3>1, <1>2
  <2> QED
    BY <1>5, <2>1, <2>2 DEF SaveStep
<1>6. CASE Rekey
  BY <1>6 DEF Rekey
<1> QED
  BY <1>3, <1>4, <1>5, <1>6 DEF Next, Step

LEMMA SecretsStep == SourcingInv /\ [Next]_vars => [OnlyByName]_vars
<1> SUFFICES ASSUME SourcingInv, Next PROVE OnlyByName
  OBVIOUS
<1>1. ASSUME NEW w \in Workers, SaveCommits(w) PROVE OnlyByName
  <2> DEFINE named == workers[w].named
             seen == workers[w].copy
             new == Saved(named, seen, settings.secrets)
  <2>1. /\ settings.there /\ named \in Named /\ seen \in Secrets
        /\ named.smtp = "blank" => seen.smtp.v # None
    BY <1>1, FieldsAt DEF SourcingInv, RowsWereRead, SaveCommits
  <2>2. settings \in Row /\ settings.secrets \in Secrets
    BY <2>1, SettingsType DEF SourcingInv, Row
  <2>3. settings'.secrets = new
    BY <1>1, <2>2 DEF SaveCommits, Row
  <2>4. At(w, "save", "commit") /\ workers'[w] = Idle
    BY <1>1, BecomesType, RequestRecords DEF SaveCommits, Ends, SourcingInv
  <2>5. new.apify # settings.secrets.apify => named.apify # "omitted"
    BY DEF Saved
  <2>6. new.smtp.v # settings.secrets.smtp.v =>
            \/ named.smtp \in SmtpPasswords
            \/ named.smtp = "blank" /\ seen.smtp # settings.secrets.smtp
    <3>1. named.smtp \in {"omitted", "blank"} \cup SmtpPasswords
      BY <2>1 DEF Named
    <3>2. CASE named.smtp = "blank"
      BY <3>2 DEF Saved, Seal
    <3>3. CASE named.smtp = "omitted"
      BY <3>3 DEF Saved
    <3> QED
      BY <3>1, <3>2, <3>3
  <2> QED
    BY <2>3, <2>4, <2>5, <2>6 DEF OnlyByName
<1>2. CASE \A w \in Workers : ~SaveCommits(w)
  BY <1>2, OthersLeaveSecrets DEF OnlyByName
<1> QED
  BY <1>1, <1>2

\* However saves of the settings overlap, with each other and with everything that writes the
\* same row, none but those that name a secret change it (api/settings.py:75-130).
THEOREM SecretsAreKept == Spec => SecretsChangeByName
  BY Invariant, SecretsStep, PTL DEF Spec, SecretsChangeByName, OnlyByName
=============================================================================
