------------------------------ MODULE Sourcing ------------------------------
(***************************************************************************)
(* The settings row and the LinkedIn access kept in it: the admin's        *)
(* connect, pasted cookie and disconnect (api/sourcing.py), the fetch of a *)
(* profile with its providers and its auto-reconnect (api/candidates.py),  *)
(* and the saves of the settings with their secrets (api/settings.py).     *)
(*                                                                         *)
(* A worker is one request with a database session of its own.  It reads   *)
(* the row into a copy and at its commit writes the columns it set to      *)
(* another value than the copy's.  A secret is sealed with a fresh nonce,  *)
(* so setting one always writes it; setting NULL over a NULL, or an email  *)
(* over the same email, writes nothing, whatever the row has become.       *)
(* A reconnect holds its copy during a whole browser login.                *)
(***************************************************************************)
EXTENDS Integers, FiniteSets

CONSTANTS
    Accounts,       \* LinkedIn accounts
    EnvCookie,      \* the value of RECRUITER_LINKEDIN_LI_AT
    ApifyKeys,      \* API tokens; they stand for every secret of _apply_secret
    SmtpPasswords,
    None,           \* NULL
    Workers,        \* slots for requests in flight
    Configs,        \* deployments with what happens in them: sets of features
    MaxRekeys       \* bound: restarts with another RECRUITER_SETTINGS_KEY

ASSUME ConstantsAssumption ==
    /\ None \notin Accounts \cup ApifyKeys \cup SmtpPasswords
    /\ EnvCookie \notin Accounts
    /\ Configs \subseteq SUBSET {"linkedin", "env", "apify", "saves", "rekeys"}
    /\ MaxRekeys \in Nat

VARIABLES
    config,         \* the features of this deployment
    key,            \* the settings key in force
    settings,       \* the settings row, as committed
    workers,        \* the requests in flight
    decision,       \* history: the last connect, paste or disconnect committed
    settled         \* history: no commit since then, nor that one, had a stale copy

vars == <<config, key, settings, workers, decision, settled>>
history == <<decision, settled>>

-----------------------------------------------------------------------------
(* The row.                                                                *)

Sealed(Values) == [v : Values, key : 0..MaxRekeys] \cup {[v |-> None, key |-> 0]}
Null == [v |-> None, key |-> 0]
Seal(v) == [v |-> v, key |-> key]
\* decrypt: a secret sealed under another key raises ValueError.
Opens(secret) == secret.v # None /\ secret.key = key

\* linkedin_li_at_enc (with linkedin_li_at_set_at), linkedin_email, linkedin_password_enc:
\* each names the account it belongs to.
Access == [cookie : Sealed(Accounts), email : Accounts \cup {None}, password : Sealed(Accounts)]
NoAccess == [cookie |-> Null, email |-> None, password |-> Null]

\* apify_api_key_enc, and smtp_config_enc as far as its password.
Secrets == [apify : Sealed(ApifyKeys), smtp : Sealed(SmtpPasswords)]
NoSecrets == [apify |-> Null, smtp |-> Null]

Row == [there : {TRUE}, access : Access, secrets : Secrets]
NoRow == [there |-> FALSE, access |-> NoAccess, secrets |-> NoSecrets]
BlankRow == [NoRow EXCEPT !.there = TRUE]

\* What a commit leaves in a column set to new by a request that had seen another value.
PlainColumn(new, seen, stored) == IF new = seen THEN stored ELSE new
SealedColumn(new, seen, stored) == IF new = Null /\ seen = Null THEN stored ELSE new

-----------------------------------------------------------------------------
(* Requests.                                                               *)

\* What an admin asks for: a connect with `remember'; a cookie only, by a connect without
\* it or by a paste, which write the same columns; a disconnect.
Wish == [kind : {"remember", "cookie"}, who : Accounts]
            \cup {[kind |-> "disconnect", who |-> None]}
Disconnected == [kind |-> "disconnect", who |-> None]

\* What a save names of the secrets: nothing, "" (revoke; or keep the password), a value.
Named == [apify : {"omitted", "blank"} \cup ApifyKeys, smtp : {"omitted", "blank"} \cup SmtpPasswords]

Idle == [kind |-> "idle"]
\* fetched: this scrape has already presented a cookie.
Scrape == [kind : {"scrape"}, pc : {"apify", "resolve"}]
            \cup [kind : {"scrape"}, pc : {"reconnect"}, fetched : BOOLEAN]
            \cup [kind : {"scrape"}, pc : {"login"}, fetched : BOOLEAN, there : {TRUE}, copy : Access]
            \cup [kind : {"scrape"}, pc : {"fetch"}, fetched : BOOLEAN,
                  li_at : Accounts \cup {EnvCookie}]
Decide == [kind : {"decide"}, pc : {"browser"}, wish : Wish]
            \cup [kind : {"decide"}, pc : {"saving"}, wish : Wish, there : BOOLEAN, copy : Access]
Save == [kind : {"get"}, pc : {"read", "create"}]
            \cup [kind : {"save"}, pc : {"read", "create"}, named : Named]
            \cup [kind : {"save"}, pc : {"commit"}, named : Named, copy : Secrets]
Worker == {Idle} \cup Scrape \cup Decide \cup Save

IsIdle(w) == workers[w] = Idle
At(w, kind, pc) == workers[w].kind = kind /\ workers[w].pc = pc
Becomes(w, rec) == workers' = [workers EXCEPT ![w] = rec]
Ends(w) == Becomes(w, Idle)

Init ==
    /\ config \in Configs
    /\ key = 0
    /\ settings \in IF "apify" \in config
                   THEN {[BlankRow EXCEPT !.secrets.apify = Seal(k)] : k \in ApifyKeys}
                   ELSE {NoRow, BlankRow}
    /\ workers = [w \in Workers |-> Idle]
    /\ decision = Disconnected
    /\ settled = TRUE

-----------------------------------------------------------------------------
(* _fetch_linkedin: provider, cookie, reconnect, and at most a second try. *)

\* _resolve_apify_key: no key and a key that does not open are the same.
StartScrape(w) ==
    /\ "linkedin" \in config
    /\ IsIdle(w)
    /\ Becomes(w, [kind |-> "scrape",
                   pc |-> IF Opens(settings.secrets.apify) THEN "apify" ELSE "resolve"])
    /\ UNCHANGED <<config, key, settings, history>>

\* fetch_profile_via_apify returns the profile or raises ApifyError, always within its
\* timeout: the run's budget is less than the wait.
ApifyAnswers(w) ==
    /\ At(w, "scrape", "apify")
    /\ \/ Ends(w)
       \/ Becomes(w, [kind |-> "scrape", pc |-> "resolve"])
    /\ UNCHANGED <<config, key, settings, history>>

Fetching(fetched, li_at) == [kind |-> "scrape", pc |-> "fetch", fetched |-> fetched, li_at |-> li_at]
Reconnecting(fetched) == [kind |-> "scrape", pc |-> "reconnect", fetched |-> fetched]

\* _resolve_linkedin_cookie: the environment's cookie goes before the stored one.
ResolvesCookie(w) ==
    /\ At(w, "scrape", "resolve")
    /\ Becomes(w, IF "env" \in config THEN Fetching(FALSE, EnvCookie)
                  ELSE IF Opens(settings.access.cookie)
                       THEN Fetching(FALSE, settings.access.cookie.v)
                       ELSE Reconnecting(FALSE))
    /\ UNCHANGED <<config, key, settings, history>>

HasCredentials(access) == access.email # None /\ Opens(access.password)

\* _attempt_auto_reconnect up to the login: without credentials the scrape ends, with
\* the stub or with what its fetch had returned.
Reconnects(w) ==
    /\ At(w, "scrape", "reconnect")
    /\ IF settings.there /\ HasCredentials(settings.access)
       THEN Becomes(w, [kind |-> "scrape", pc |-> "login", fetched |-> workers[w].fetched,
                        there |-> TRUE, copy |-> settings.access])
       ELSE Ends(w)
    /\ UNCHANGED <<config, key, settings, history>>

\* Whether what this request commits is still about the row it has read.
IsCurrent(w) ==
    workers[w].there = settings.there /\ workers[w].copy = settings.access

\* linkedin.com takes an email only with its own password.
MaySucceed(w) == workers[w].copy.email = workers[w].copy.password.v

LoginSucceeds(w) ==
    /\ At(w, "scrape", "login")
    /\ MaySucceed(w)
    /\ settings' = [settings EXCEPT !.access.cookie = Seal(workers[w].copy.email)]
    /\ Becomes(w, Fetching(workers[w].fetched, workers[w].copy.email))
    /\ settled' = (settled /\ IsCurrent(w))
    /\ UNCHANGED <<config, key, decision>>

\* Rejected or challenged: the cookie goes, the credentials stay.
LoginFails(w) ==
    /\ At(w, "scrape", "login")
    /\ settings' = [settings EXCEPT !.access.cookie = SealedColumn(Null, workers[w].copy.cookie, @)]
    /\ Ends(w)
    /\ settled' = (settled /\ IsCurrent(w))
    /\ UNCHANGED <<config, key, decision>>

\* A reconnect after every refused cookie.
RefusedForever(fetched) == Reconnecting(TRUE)

\* After the first refused cookie a reconnect, after the second the answer.
Refused(fetched) == IF fetched THEN Idle ELSE Reconnecting(TRUE)

\* fetch_linkedin_playwright: a text, or one of its other failures, is the answer;
\* a redirect to the login means the cookie is refused.
FetchAnswers(w) ==
    /\ At(w, "scrape", "fetch")
    /\ \/ Ends(w)
       \/ Becomes(w, Refused(workers[w].fetched))
    /\ UNCHANGED <<config, key, settings, history>>

-----------------------------------------------------------------------------
(* connect, connect-cookie and disconnect.                                 *)

\* A connect drives the browser, a paste validates its cookie or skips that.
StartDecision(w, wish) ==
    /\ "linkedin" \in config
    /\ IsIdle(w)
    /\ Becomes(w, [kind |-> "decide", pc |-> "browser", wish |-> wish])
    /\ UNCHANGED <<config, key, settings, history>>

\* Refused by linkedin.com: nothing is written.
BrowserFails(w) ==
    /\ At(w, "decide", "browser")
    /\ workers[w].wish # Disconnected
    /\ Ends(w)
    /\ UNCHANGED <<config, key, settings, history>>

\* The row is read, after the browser; a disconnect of no row is over.
DecisionReads(w) ==
    /\ At(w, "decide", "browser")
    /\ IF workers[w].wish = Disconnected /\ ~settings.there
       THEN Ends(w)
       ELSE Becomes(w, [kind |-> "decide", pc |-> "saving", wish |-> workers[w].wish,
                        there |-> settings.there, copy |-> settings.access])
    /\ UNCHANGED <<config, key, settings, history>>

\* Without the opt-out: a cookie leaves the credentials of an earlier connect.
WishedOverOld(wish) ==
    [cookie |-> IF wish = Disconnected THEN Null ELSE Seal(wish.who),
     email |-> CASE wish.kind = "remember" -> wish.who
                 [] wish.kind = "cookie" -> settings.access.email
                 [] OTHER -> None,
     password |-> CASE wish.kind = "remember" -> Seal(wish.who)
                    [] wish.kind = "cookie" -> settings.access.password
                    [] OTHER -> Null]

\* The columns as the handlers set them.
Wished(wish) ==
    [cookie |-> IF wish = Disconnected THEN Null ELSE Seal(wish.who),
     email |-> IF wish.kind = "remember" THEN wish.who ELSE None,
     password |-> IF wish.kind = "remember" THEN Seal(wish.who) ELSE Null]

\* _get_or_create_settings inserts the row it has not seen: if it is there by now, the
\* primary key refuses it and the request fails.
DecisionCommits(w) ==
    LET new == Wished(workers[w].wish)
        seen == workers[w].copy
        old == settings.access
    IN  /\ At(w, "decide", "saving")
        /\ workers[w].there = settings.there
        /\ settings' = [settings EXCEPT !.there = TRUE,
                !.access = [cookie |-> SealedColumn(new.cookie, seen.cookie, old.cookie),
                            email |-> PlainColumn(new.email, seen.email, old.email),
                            password |-> SealedColumn(new.password, seen.password, old.password)]]
        /\ Ends(w)
        /\ decision' = workers[w].wish
        /\ settled' = IsCurrent(w)
        /\ UNCHANGED <<config, key>>

RowIsTaken(w) ==
    /\ At(w, "decide", "saving")
    /\ workers[w].there # settings.there
    /\ Ends(w)
    /\ UNCHANGED <<config, key, settings, history>>

-----------------------------------------------------------------------------
(* GET and PUT of the settings.                                            *)

StartSave(w) ==
    /\ "saves" \in config
    /\ IsIdle(w)
    /\ \/ Becomes(w, [kind |-> "get", pc |-> "read"])
       \/ \E named \in Named : Becomes(w, [kind |-> "save", pc |-> "read", named |-> named])
    /\ UNCHANGED <<config, key, settings, history>>

\* Without the check of update_settings.
LacksNothing(named) == FALSE

\* A password may be left out only where one is stored that opens: 422, or the error of decrypt.
LacksPassword(named) == named.smtp = "blank" /\ ~Opens(settings.secrets.smtp)

\* _load_or_create, first half; a save has its copy when the row is there.
SettingsRead(w) ==
    /\ workers[w].kind \in {"get", "save"} /\ workers[w].pc = "read"
    /\ IF ~settings.there
       THEN Becomes(w, [workers[w] EXCEPT !.pc = "create"])
       ELSE IF workers[w].kind = "get" \/ LacksPassword(workers[w].named)
       THEN Ends(w)
       ELSE Becomes(w, [kind |-> "save", pc |-> "commit", named |-> workers[w].named,
                        copy |-> settings.secrets])
    /\ UNCHANGED <<config, key, settings, history>>

\* _load_or_create, second half: the commit of the new row and its refresh; a row that
\* another request has committed first fails the insert, and the request.
SettingsCreated(w) ==
    /\ workers[w].kind \in {"get", "save"} /\ workers[w].pc = "create"
    /\ IF settings.there THEN Ends(w) ELSE Becomes(w, [workers[w] EXCEPT !.pc = "read"])
    /\ settings' = [settings EXCEPT !.there = TRUE]
    /\ UNCHANGED <<config, key, history>>

\* The copy's other columns written back with the named ones.
SavedWhole(named, seen, stored) ==
    [apify |-> CASE named.apify = "omitted" -> seen.apify
                 [] named.apify = "blank" -> Null
                 [] OTHER -> Seal(named.apify),
     smtp |-> CASE named.smtp = "omitted" -> seen.smtp
                [] named.smtp = "blank" -> Seal(seen.smtp.v)
                [] OTHER -> Seal(named.smtp)]

\* update_settings: a secret left out is not touched, a blank one is revoked; the SMTP
\* blob is one column, so a blank password is the copy's.
Saved(named, seen, stored) ==
    [apify |-> CASE named.apify = "omitted" -> stored.apify
                 [] named.apify = "blank" -> SealedColumn(Null, seen.apify, stored.apify)
                 [] OTHER -> Seal(named.apify),
     smtp |-> CASE named.smtp = "omitted" -> stored.smtp
                [] named.smtp = "blank" -> Seal(seen.smtp.v)
                [] OTHER -> Seal(named.smtp)]

SaveCommits(w) ==
    /\ At(w, "save", "commit")
    /\ settings' = [settings EXCEPT !.secrets = Saved(workers[w].named, workers[w].copy, @)]
    /\ Ends(w)
    /\ UNCHANGED <<config, key, history>>

-----------------------------------------------------------------------------
(* Failures.                                                               *)

\* A browser that does not start, or dies, raises out of the request.
Raises(w) ==
    /\ \/ workers[w].kind = "scrape" /\ workers[w].pc \in {"login", "fetch"}
       \/ At(w, "decide", "browser")
    /\ Ends(w)
    /\ UNCHANGED <<config, key, settings, history>>

\* The process restarts with another settings key: every request in flight is gone.
Rekey ==
    /\ "rekeys" \in config
    /\ key < MaxRekeys
    /\ key' = key + 1
    /\ workers' = [w \in Workers |-> Idle]
    /\ UNCHANGED <<config, settings, history>>

-----------------------------------------------------------------------------
ScrapeStep(w) ==
    \/ ApifyAnswers(w) \/ ResolvesCookie(w) \/ Reconnects(w)
    \/ LoginSucceeds(w) \/ LoginFails(w) \/ FetchAnswers(w)

DecisionStep(w) ==
    \/ BrowserFails(w) \/ DecisionReads(w) \/ DecisionCommits(w) \/ RowIsTaken(w)

SaveStep(w) == SettingsRead(w) \/ SettingsCreated(w) \/ SaveCommits(w)

Step(w) == ScrapeStep(w) \/ DecisionStep(w) \/ SaveStep(w) \/ Raises(w)

Next ==
    \/ \E w \in Workers :
        \/ StartScrape(w) \/ StartSave(w)
        \/ \E wish \in Wish : StartDecision(w, wish)
        \/ Step(w)
    \/ Rekey

Spec == Init /\ [][Next]_vars

\* Every call of a request has a timeout or ends in the database, except a script that the
\* browser evaluates in the page, which is taken to end; asyncio comes back to each request.
Fairness == \A w \in Workers : WF_vars(Step(w))
FairSpec == Spec /\ Fairness

-----------------------------------------------------------------------------
(* Properties.                                                             *)

TypeOK ==
    /\ config \in Configs
    /\ key \in 0..MaxRekeys
    /\ settings \in Row \cup {NoRow}
    /\ workers \in [Workers -> Worker]
    /\ decision \in Wish
    /\ settled \in BOOLEAN

(* The LinkedIn access in the row is what the last admin decided, as long as nothing has  *)
(* been committed from a copy the row had left behind: after a disconnect nothing         *)
(* lingers, a pasted cookie is not joined by credentials of another account, credentials  *)
(* are a pair of one account and only kept on request, and reconnects bring no cookie but *)
(* theirs (api/sourcing.py:200, 250, 270; api/candidates.py:324).                         *)
LastDecisionHolds ==
    settled =>
        LET a == settings.access
            who == decision.who
        IN CASE decision.kind = "disconnect" -> a = NoAccess
             [] decision.kind = "remember" ->
                    a.email = who /\ a.password.v = who /\ a.cookie.v \in {who, None}
             [] OTHER -> a.cookie.v = who /\ a.email = None /\ a.password = Null

(* A stored secret changes only by a save that names it, however saves overlap; the       *)
(* SMTP password, which shares its column with the host, also by a save whose copy of it  *)
(* is stale (settings.py:75 "saving unrelated settings never clobbers a key").            *)
SecretsChangeByName ==
    [][ LET Saver(w) == At(w, "save", "commit") /\ workers'[w] = Idle
        IN  /\ settings'.secrets.apify # settings.secrets.apify =>
                    \E w \in Workers : Saver(w) /\ workers[w].named.apify # "omitted"
            /\ settings'.secrets.smtp.v # settings.secrets.smtp.v =>
                    \E w \in Workers : Saver(w) /\
                        \/ workers[w].named.smtp \in SmtpPasswords
                        \/ /\ workers[w].named.smtp = "blank"
                           /\ workers[w].copy.smtp # settings.secrets.smtp ]_vars

(* Every request is answered: however often linkedin.com refuses its cookies, a scrape    *)
(* reconnects at most twice and fetches at most twice (candidates.py:289-299).            *)
RequestsEnd == \A w \in Workers : workers[w] # Idle ~> workers[w] = Idle
=============================================================================
