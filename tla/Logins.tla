------------------------------- MODULE Logins -------------------------------
(***************************************************************************)
(* Logins and sessions: password and break-glass login, the OIDC callback, *)
(* change of password and logout (api/auth.py), the session rows           *)
(* (auth/sessions.py), the revocations by an admin (api/users.py), the     *)
(* resolution of a request's user (api/deps.py, auth/dev_bypass.py) and    *)
(* the JWKS cache of the OIDC client (auth/oidc.py).                       *)
(*                                                                         *)
(* A worker is one request with a database session of its own.  A login    *)
(* reads the user, commits, and inserts the session row in a second        *)
(* transaction; a revocation deletes the session rows it can see and       *)
(* commits later.  The row lock an UPDATE of users takes is held from the  *)
(* flush to the commit; the insert of a session row does not wait for it.  *)
(***************************************************************************)
EXTENDS Integers, FiniteSets

CONSTANTS
    Users,          \* rows the users table may have
    Sso,            \* those with an identity at the OIDC provider
    BreakGlass,     \* the row of RECRUITER_DEFAULT_ACCOUNT_EMAIL
    DevUser,        \* the row of RECRUITER_DEV_AUTH_BYPASS
    Passwords,      \* passwords people choose
    EnvPassword,    \* RECRUITER_DEFAULT_ACCOUNT_PASSWORD
    NoPassword,     \* password_hash is NULL
    FirstUser,      \* an active admin with a password, there from the start
    FirstPassword,
    Workers,        \* slots for requests in flight
    States,         \* OIDC states issued by /login
    Configs,        \* deployments with what happens in them: sets of features
    TTL,            \* session_ttl_days, in ticks of the clock
    Throttle,       \* _IDLE_BUMP_THRESHOLD
    CacheTTL,       \* _CACHE_TTL_SECONDS
    MaxSessions,    \* bound: sessions opened
    MaxTime,        \* bound: ticks
    MaxKeys,        \* bound: rotations of the provider's keys
    MaxRevocations, \* bound: resets, changes, (de)activations
    MaxRestarts     \* bound: restarts of the process

ASSUME ConstantsAssumption ==
    /\ Sso \subseteq Users /\ {BreakGlass, DevUser, FirstUser} \subseteq Users
    /\ FirstPassword \in Passwords
    /\ Configs \subseteq SUBSET {"oidc", "bypass", "revocations", "rehash", "clock",
                                 "restarts", "unseeded"}
    /\ \A c \in Configs : ~({"oidc", "bypass"} \subseteq c)
    /\ NoPassword \notin Passwords \cup {EnvPassword}
    /\ TTL \in Nat /\ Throttle \in Nat \ {0} /\ CacheTTL \in Nat
    /\ MaxSessions \in Nat /\ MaxTime \in Nat /\ MaxKeys \in Nat
    /\ MaxRevocations \in Nat /\ MaxRestarts \in Nat

VARIABLES
    config,         \* the features of this deployment
    users,          \* the users table, as committed
    sessions,       \* the auth_sessions rows, with what their login rested on
    states,         \* the oauth_states rows
    exchanged,      \* states whose code the provider has exchanged
    keys,           \* the provider's signing key, and when it began to use it
    cache,          \* _jwks_cache
    now,            \* the clock
    reverted,       \* users whose password a rehash has put back
    revocations,    \* revocations so far
    restarts,       \* restarts so far
    workers         \* the requests in flight

vars == <<config, users, sessions, states, exchanged, keys, cache, now, reverted,
          revocations, restarts, workers>>
provider == <<states, exchanged, keys, cache>>
bounds == <<config, now, restarts>>

-----------------------------------------------------------------------------
(* Rows and workers.                                                       *)

\* old: the stored hash needs a rehash.
Row == [there : BOOLEAN, active : BOOLEAN, admin : BOOLEAN,
        pw : Passwords \cup {NoPassword}, old : BOOLEAN]
Absent == [there |-> FALSE, active |-> FALSE, admin |-> FALSE, pw |-> NoPassword, old |-> FALSE]
NewUser(admin) == [Absent EXCEPT !.there = TRUE, !.active = TRUE, !.admin = admin]

Vias == {"password", "sso", "breakglass"}
Tokens == 1..MaxSessions

\* A session row, and three histories: the login it came from, whether that login
\* had been overtaken by a revocation, and its last use that left it bumped or
\* with no bump due.
Live == [user : Users, seen : 0..MaxTime, expires : Nat, via : Vias,
         pw : Passwords \cup {NoPassword}, late : BOOLEAN, used : 0..MaxTime]
Unused == [user |-> "none"]
Gone == [user |-> "gone"]
IsLive(t) == sessions[t] \notin {Unused, Gone}

\* drawn is history: when the provider answered with the document.
NoCache == [full |-> FALSE, version |-> 0, at |-> 0, drawn |-> 0]

Idle == [kind |-> "idle"]
\* Between the read and the opening of a session.
Opening == [kind : {"login"}, pc : {"verified", "breakglass", "upsert", "stamped"},
            user : Users, seen : Row, typed : Passwords \cup {NoPassword}, via : Vias]
Callback == [kind : {"callback"}, pc : {"holding", "exchanging"}, state : States]
                \cup [kind : {"callback"}, pc : {"signed", "fetching", "answered", "decoding"},
                      state : States, signed : 0..MaxKeys, key : 0..MaxKeys,
                      drawn : 0..MaxTime]
Request == [kind : {"request"}, pc : {"found", "in"}, token : Tokens \cup {0}, user : Users,
            seen : Row]
Revoking == [kind : {"revoke"}, user : Users, row : Row, pending : SUBSET Tokens,
             kept : Tokens \cup {0}]
Worker == {Idle} \cup Opening \cup Callback \cup Request \cup Revoking

IsIdle(w) == workers[w] = Idle
At(w, kind, pc) == workers[w].kind = kind /\ workers[w].pc = pc
Becomes(w, rec) == workers' = [workers EXCEPT ![w] = rec]
Goes(w, pc) == workers' = [workers EXCEPT ![w].pc = pc]
Ends(w) == Becomes(w, Idle)

\* The users row is locked by a revocation between its flush and its commit.
Revokers(u) == {w \in Workers : workers[w].kind = "revoke" /\ workers[w].user = u}
RowIsFree(u) == Revokers(u) = {}
SessionIsFree(t) == \A w \in Workers : workers[w].kind = "revoke" => t \notin workers[w].pending

SessionsOf(u) == {t \in Tokens : IsLive(t) /\ sessions[t].user = u}
Without(gone) == [t \in Tokens |-> IF t \in gone THEN Gone ELSE sessions[t]]

-----------------------------------------------------------------------------
(* _seed_default_user: the row is made at start-up, or on the first login. *)
Seeded(table, ok) ==
    IF ok /\ ~table[BreakGlass].there THEN [table EXCEPT ![BreakGlass] = NewUser(TRUE)] ELSE table

Init ==
    /\ config \in Configs
    /\ users = Seeded([u \in Users |->
                         IF u = FirstUser
                         THEN [NewUser(TRUE) EXCEPT !.pw = FirstPassword,
                                                    !.old = "rehash" \in config]
                         ELSE Absent],
                      "unseeded" \notin config)
    /\ sessions = [t \in Tokens |-> Unused]
    /\ states = [s \in States |-> "unused"]
    /\ exchanged = {}
    /\ keys = [version |-> 0, since |-> 0]
    /\ cache \in {NoCache, [NoCache EXCEPT !.full = "oidc" \in config]}
    /\ now = 0
    /\ reverted = {}
    /\ revocations = 0
    /\ restarts = 0
    /\ workers = [w \in Workers |-> Idle]

-----------------------------------------------------------------------------
(* login_password.                                                         *)

\* verify_password, over the hash of an active user only.
Verifies(row, typed) == row.active /\ row.pw # NoPassword /\ row.pw = typed

\* A wrong password of everybody else ends in 401 and changes nothing.
LoginReads(w, u, typed) ==
    /\ IsIdle(w)
    /\ \/ /\ Verifies(users[u], typed)
          /\ Becomes(w, [kind |-> "login", pc |-> "verified", user |-> u, seen |-> users[u],
                         typed |-> typed, via |-> "password"])
       \/ /\ ~Verifies(users[u], typed) /\ u = BreakGlass /\ typed = EnvPassword
          /\ Becomes(w, [kind |-> "login", pc |-> "breakglass", user |-> u, seen |-> users[u],
                         typed |-> NoPassword, via |-> "breakglass"])
    /\ UNCHANGED <<users, sessions, provider, reverted, revocations, bounds>>

\* The commit of last_login_at takes the new hash along, if there is one.
Rehashed(row, typed, seen) ==
    IF seen.old THEN [row EXCEPT !.pw = typed, !.old = FALSE] ELSE row

LoginCommits(w) ==
    LET u == workers[w].user
        row == Rehashed(users[u], workers[w].typed, workers[w].seen)
    IN  /\ At(w, "login", "verified") /\ RowIsFree(u)
        /\ users' = [users EXCEPT ![u] = row]
        /\ reverted' = IF row.pw # users[u].pw THEN reverted \cup {u} ELSE reverted
        /\ Goes(w, "stamped")
        /\ UNCHANGED <<sessions, provider, revocations, bounds>>

\* _resolve_break_glass_admin: an INSERT that another request was faster with
\* fails on the unique index; an UPDATE writes what differs from the copy.
BreakGlassCommits(w) ==
    LET u == workers[w].user
        seen == workers[w].seen
    IN  /\ At(w, "login", "breakglass") /\ RowIsFree(u)
        /\ IF seen.there
           THEN users' = [users EXCEPT ![u].active = @ \/ ~seen.active,
                                       ![u].admin = @ \/ ~seen.admin]
           ELSE users' = [users EXCEPT ![u] = IF @.there THEN @ ELSE NewUser(TRUE)]
        /\ IF seen.there \/ ~users[u].there THEN Goes(w, "stamped") ELSE Ends(w)
        /\ UNCHANGED <<sessions, provider, reverted, revocations, bounds>>

\* Whether what a login read still holds, with no revocation past its flush.
Overtaken(u, typed, via) ==
    \/ ~users[u].active
    \/ via = "password" /\ users[u].pw # typed
    \/ ~RowIsFree(u)

\* Mutant: stamped by a clock that is ahead.
NewSessionAhead(u, typed, via) ==
    [user |-> u, seen |-> now + 1, expires |-> now + TTL, via |-> via, pw |-> typed,
     late |-> Overtaken(u, typed, via), used |-> now]

NewSession(u, typed, via) ==
    [user |-> u, seen |-> now, expires |-> now + TTL, via |-> via, pw |-> typed,
     late |-> Overtaken(u, typed, via), used |-> now]

\* create_session, a transaction of its own.
OpensSession(w, t) ==
    LET login == workers[w]
    IN  /\ At(w, "login", "stamped") /\ sessions[t] = Unused
        /\ sessions' = [sessions EXCEPT ![t] = NewSession(login.user, login.typed, login.via)]
        /\ Ends(w)
        /\ UNCHANGED <<users, provider, reverted, revocations, bounds>>

-----------------------------------------------------------------------------
(* login and callback.                                                     *)

\* The state is committed before the discovery, which may fail and leaves it.
StartSso(s) ==
    /\ "oidc" \in config /\ states[s] = "unused"
    /\ states' = [states EXCEPT ![s] = "fresh"]
    /\ UNCHANGED <<users, sessions, exchanged, keys, cache, reverted, revocations, bounds, workers>>

\* Ten minutes pass.
StateAges(s) ==
    /\ states[s] = "fresh"
    /\ states' = [states EXCEPT ![s] = "old"]
    /\ UNCHANGED <<users, sessions, exchanged, keys, cache, reverted, revocations, bounds, workers>>

\* An old state is deleted and refused; one that is not there is refused.
CallbackReads(w, s) ==
    /\ IsIdle(w) /\ "oidc" \in config
    /\ \/ /\ states[s] = "fresh"
          /\ Becomes(w, [kind |-> "callback", pc |-> "holding", state |-> s])
          /\ UNCHANGED states
       \/ /\ states[s] = "old"
          /\ states' = [states EXCEPT ![s] = "spent"]
          /\ UNCHANGED workers
    /\ UNCHANGED <<users, sessions, exchanged, keys, cache, reverted, revocations, bounds>>

\* Mutant: the row is left for the end of the login.
CallbackKeeps(w) ==
    /\ At(w, "callback", "holding")
    /\ Goes(w, "exchanging")
    /\ UNCHANGED <<users, sessions, provider, reverted, revocations, bounds>>

\* The state is deleted and committed before its code is used.  A second callback
\* that read the row too deletes nothing, which the ORM only warns about.
CallbackSpends(w) ==
    /\ At(w, "callback", "holding")
    /\ states' = [states EXCEPT ![workers[w].state] = "spent"]
    /\ Goes(w, "exchanging")
    /\ UNCHANGED <<users, sessions, exchanged, keys, cache, reverted, revocations, bounds>>

\* exchange_code: the provider answers once for a code, with a token signed by
\* its key of the moment.
CallbackExchanges(w) ==
    LET s == workers[w].state
    IN  /\ At(w, "callback", "exchanging")
        /\ exchanged' = exchanged \cup {s}
        /\ IF s \in exchanged THEN Ends(w)
           ELSE Becomes(w, [kind |-> "callback", pc |-> "signed", state |-> s,
                            signed |-> keys.version, key |-> 0, drawn |-> 0])
        /\ UNCHANGED <<users, sessions, states, keys, cache, reverted, revocations, bounds>>

\* Mutant: a cached document does not age.
CachedForEver == cache.full

\* A cached document is good for CacheTTL after it was fetched.
CacheIsFresh == cache.full /\ now - cache.at < CacheTTL

\* get_jwks, which decode_id_token calls: a fresh document is used as it is.
CallbackChecksCache(w) ==
    /\ At(w, "callback", "signed")
    /\ Becomes(w, IF CacheIsFresh THEN [workers[w] EXCEPT !.pc = "decoding", !.key = cache.version]
                  ELSE [workers[w] EXCEPT !.pc = "fetching"])
    /\ UNCHANGED <<users, sessions, provider, reverted, revocations, bounds>>

\* The provider answers with its keys of the moment, and the answer is under way;
\* or the request fails, and the login with it.
ProviderAnswers(w) ==
    /\ At(w, "callback", "fetching")
    /\ \/ Becomes(w, [workers[w] EXCEPT !.pc = "answered", !.key = keys.version, !.drawn = now])
       \/ Ends(w)
    /\ UNCHANGED <<users, sessions, provider, reverted, revocations, bounds>>

\* The answer is stored with the time of its arrival, over whatever another
\* callback has stored meanwhile.
CallbackStoresKeys(w) ==
    LET me == workers[w]
    IN  /\ At(w, "callback", "answered")
        /\ cache' = [full |-> TRUE, version |-> me.key, at |-> now, drawn |-> me.drawn]
        /\ Goes(w, "decoding")
        /\ UNCHANGED <<users, sessions, states, exchanged, keys, reverted, revocations, bounds>>

\* What an id token may have wrong: validate_id_token_claims, then the allowlist.
Checks == {"issuer", "audience", "expiry", "nonce", "email_verified", "email_and_sub", "domain"}
Faults == {{}} \cup {{c} : c \in Checks}
ClaimsAreValid(faults) == faults = {}

\* A document has the keys up to its version.  The user is looked up by (issuer, sub).
CallbackDecodes(w, u) ==
    /\ At(w, "callback", "decoding")
    /\ \E faults \in Faults :
         IF workers[w].signed <= workers[w].key /\ ClaimsAreValid(faults)
         THEN Becomes(w, [kind |-> "login", pc |-> "upsert", user |-> u, seen |-> users[u],
                          typed |-> NoPassword, via |-> "sso"])
         ELSE Ends(w)
    /\ UNCHANGED <<users, sessions, provider, reverted, revocations, bounds>>

\* The first login of an identity makes a recruiter; later ones update the
\* profile, whatever is_active says.
UpsertCommits(w) ==
    LET u == workers[w].user
        seen == workers[w].seen
    IN  /\ At(w, "login", "upsert") /\ RowIsFree(u)
        /\ users' = IF seen.there \/ users[u].there THEN users
                    ELSE [users EXCEPT ![u] = NewUser(FALSE)]
        /\ IF seen.there \/ ~users[u].there THEN Goes(w, "stamped") ELSE Ends(w)
        /\ UNCHANGED <<sessions, provider, reverted, revocations, bounds>>

RotateKeys ==
    /\ "oidc" \in config /\ keys.version < MaxKeys
    /\ keys' = [version |-> keys.version + 1, since |-> now]
    /\ UNCHANGED <<users, sessions, states, exchanged, cache, reverted, revocations, bounds, workers>>

-----------------------------------------------------------------------------
(* maybe_user and what an authenticated request may do.                    *)

Found(w, t, u) ==
    Becomes(w, [kind |-> "request", pc |-> "found", token |-> t, user |-> u, seen |-> users[u]])

\* lookup_session, and the user behind it if active.
Authenticates(w, t) ==
    /\ IsIdle(w) /\ "bypass" \notin config
    /\ IsLive(t) /\ sessions[t].expires > now /\ users[sessions[t].user].active
    /\ Found(w, t, sessions[t].user)
    /\ UNCHANGED <<users, sessions, provider, reverted, revocations, bounds>>

\* dev_bypass: the synthetic admin is found, or made by the first request.
AuthenticatesByBypass(w) ==
    /\ IsIdle(w) /\ "bypass" \in config
    /\ users[DevUser].there => users[DevUser].active
    /\ users' = IF users[DevUser].there THEN users ELSE [users EXCEPT ![DevUser] = NewUser(TRUE)]
    /\ Becomes(w, [kind |-> "request", pc |-> "in", token |-> 0, user |-> DevUser,
                   seen |-> users'[DevUser]])
    /\ UNCHANGED <<sessions, provider, reverted, revocations, bounds>>

\* Mutant: off by one at the threshold.
TouchedTooLate(row) ==
    [row EXCEPT !.seen = IF now - row.seen <= Throttle THEN @ ELSE now,
                !.expires = IF now - row.seen <= Throttle THEN @ ELSE now + TTL,
                !.used = now]

\* At most one bump in Throttle.
Touched(row) ==
    [row EXCEPT !.seen = IF now - row.seen < Throttle THEN @ ELSE now,
                !.expires = IF now - row.seen < Throttle THEN @ ELSE now + TTL,
                !.used = now]

\* Mutant: the copy is merged, so that a deleted row is inserted again.
TouchMerges(w) ==
    LET t == workers[w].token
    IN  /\ At(w, "request", "found") /\ SessionIsFree(t)
        /\ sessions' = [sessions EXCEPT ![t] =
                            Touched(IF IsLive(t) THEN @ ELSE NewSession(workers[w].user, NoPassword, "sso"))]
        /\ Goes(w, "in")
        /\ UNCHANGED <<users, provider, reverted, revocations, bounds>>

BumpIsDue(t) == IsLive(t) /\ now - sessions[t].seen >= Throttle

\* touch_session: the UPDATE of a row deleted meanwhile fails, any other bump may
\* fail, and maybe_user logs the failure and lets the request in.
Touch(w) ==
    LET t == workers[w].token
    IN  /\ At(w, "request", "found")
        /\ \/ /\ SessionIsFree(t)
              /\ sessions' = IF IsLive(t) THEN [sessions EXCEPT ![t] = Touched(@)] ELSE sessions
           \/ BumpIsDue(t) /\ UNCHANGED sessions
        /\ Goes(w, "in")
        /\ UNCHANGED <<users, provider, reverted, revocations, bounds>>

\* The request ends with nothing done to users or sessions.
RequestEnds(w) ==
    /\ At(w, "request", "in")
    /\ Ends(w)
    /\ UNCHANGED <<users, sessions, provider, reverted, revocations, bounds>>

\* logout needs the cookie only.
Logout(t) ==
    /\ IsLive(t) /\ SessionIsFree(t)
    /\ sessions' = Without({t})
    /\ UNCHANGED <<users, provider, reverted, revocations, bounds, workers>>

\* The flush of the users row, which takes its lock, and the DELETE of the
\* sessions committed by then; kept is the session that is spared.
Revokes(w, u, row, kept) ==
    /\ At(w, "request", "in") /\ RowIsFree(u)
    /\ "revocations" \in config
    /\ revocations < MaxRevocations /\ revocations' = revocations + 1
    /\ Becomes(w, [kind |-> "revoke", user |-> u, row |-> row, kept |-> kept,
                   pending |-> SessionsOf(u) \ {kept}])
    /\ UNCHANGED <<users, sessions, provider, reverted, bounds>>

\* change_own_password: the current one is verified against the request's copy.
ChangePassword(w, pw) ==
    /\ workers[w].kind = "request" /\ workers[w].seen.pw # NoPassword
    /\ Revokes(w, workers[w].user, [users[workers[w].user] EXCEPT !.pw = pw, !.old = FALSE],
               workers[w].token)

IsAdmin(w) == workers[w].kind = "request" /\ workers[w].seen.admin

\* Mutant: the sessions are left to expire.
ResetOnly(w, u, pw) ==
    /\ IsAdmin(w) /\ users[u].there
    /\ At(w, "request", "in") /\ RowIsFree(u)
    /\ "revocations" \in config
    /\ revocations < MaxRevocations /\ revocations' = revocations + 1
    /\ Becomes(w, [kind |-> "revoke", user |-> u, kept |-> 0, pending |-> {},
                   row |-> [users[u] EXCEPT !.pw = pw, !.old = FALSE]])
    /\ UNCHANGED <<users, sessions, provider, reverted, bounds>>

\* reset_password by an admin.
ResetPassword(w, u, pw) ==
    /\ IsAdmin(w) /\ users[u].there
    /\ Revokes(w, u, [users[u] EXCEPT !.pw = pw, !.old = FALSE], 0)

\* update_user, without the count of admins, which UserAdmin has.
Deactivate(w, u) ==
    /\ IsAdmin(w) /\ users[u].there /\ u # workers[w].user
    /\ Revokes(w, u, [users[u] EXCEPT !.active = FALSE], 0)

Reactivate(w, u) ==
    /\ IsAdmin(w) /\ At(w, "request", "in") /\ users[u].there /\ ~users[u].active /\ RowIsFree(u)
    /\ "revocations" \in config
    /\ revocations < MaxRevocations /\ revocations' = revocations + 1
    /\ users' = [users EXCEPT ![u].active = TRUE]
    /\ Ends(w)
    /\ UNCHANGED <<sessions, provider, reverted, bounds>>

\* The session that is spared rests on the new password from now on.
RevokeCommits(w) ==
    LET r == workers[w]
    IN  /\ r.kind = "revoke"
        /\ users' = [users EXCEPT ![r.user] = r.row]
        /\ reverted' = IF r.row.pw # users[r.user].pw THEN reverted \ {r.user} ELSE reverted
        /\ sessions' = [t \in Tokens |->
                IF t \in r.pending THEN Gone
                ELSE IF t = r.kept /\ IsLive(t) THEN [sessions[t] EXCEPT !.pw = r.row.pw]
                ELSE sessions[t]]
        /\ Ends(w)
        /\ UNCHANGED <<provider, revocations, bounds>>

-----------------------------------------------------------------------------
Tick ==
    /\ "clock" \in config /\ now < MaxTime
    /\ now' = now + 1
    /\ UNCHANGED <<config, restarts, users, sessions, provider, reverted, revocations, workers>>

\* Requests in flight are rolled back, the cache is empty, and the seeding is
\* tried again.
Restart ==
    /\ "restarts" \in config
    /\ restarts < MaxRestarts /\ restarts' = restarts + 1
    /\ workers' = [w \in Workers |-> Idle]
    /\ cache' = NoCache
    /\ \E ok \in BOOLEAN : users' = Seeded(users, ok)
    /\ UNCHANGED <<config, now, sessions, states, exchanged, keys, reverted, revocations>>

-----------------------------------------------------------------------------
Login(w) ==
    \/ \E u \in Users, typed \in Passwords \cup {EnvPassword} : LoginReads(w, u, typed)
    \/ LoginCommits(w) \/ BreakGlassCommits(w) \/ UpsertCommits(w)
    \/ \E t \in Tokens : OpensSession(w, t)

SsoStep(w) ==
    \/ \E s \in States : CallbackReads(w, s)
    \/ CallbackSpends(w) \/ CallbackExchanges(w)
    \/ CallbackChecksCache(w) \/ ProviderAnswers(w) \/ CallbackStoresKeys(w)
    \/ \E u \in Sso : CallbackDecodes(w, u)

RequestStep(w) ==
    \/ \E t \in Tokens : Authenticates(w, t)
    \/ AuthenticatesByBypass(w) \/ Touch(w) \/ RequestEnds(w)
    \/ \E pw \in Passwords : ChangePassword(w, pw)
    \/ \E u \in Users, pw \in Passwords : ResetPassword(w, u, pw)
    \/ \E u \in Users : Deactivate(w, u) \/ Reactivate(w, u)
    \/ RevokeCommits(w)

Next ==
    \/ \E w \in Workers : Login(w) \/ SsoStep(w) \/ RequestStep(w)
    \/ \E s \in States : StartSso(s) \/ StateAges(s)
    \/ \E t \in Tokens : Logout(t)
    \/ RotateKeys \/ Tick \/ Restart

Spec == Init /\ [][Next]_vars

-----------------------------------------------------------------------------
(* Properties.                                                             *)

\* Every variable stays in its type; a request holds the fields of its kind.
TypeOK ==
    /\ config \in Configs
    /\ users \in [Users -> Row]
    /\ sessions \in [Tokens -> Live \cup {Unused, Gone}]
    /\ states \in [States -> {"unused", "fresh", "old", "spent"}]
    /\ exchanged \subseteq States
    /\ keys \in [version : 0..MaxKeys, since : 0..MaxTime]
    /\ cache \in [full : BOOLEAN, version : 0..MaxKeys, at : 0..MaxTime, drawn : 0..MaxTime]
    /\ now \in 0..MaxTime
    /\ reverted \subseteq Users
    /\ revocations \in 0..MaxRevocations /\ restarts \in 0..MaxRestarts
    /\ workers \in [Workers -> Worker]

\* A session never outlives what its login rested on: after a reset, a change or
\* a deactivation has committed, no session of the user is left that was opened
\* with the old password or while the account was active, except one whose login
\* was overtaken (it had read the user before, and opened the session after the
\* revocation looked for sessions), and except where a login with the old
\* password put it back by rehashing it.
SessionsFollowCredentials ==
    \A t \in Tokens : IsLive(t) /\ ~sessions[t].late =>
        LET s == sessions[t]
        IN  /\ users[s.user].active
            /\ s.via = "password" => users[s.user].pw = s.pw \/ s.user \in reverted

\* A session that was deleted, by logout or by a revocation, never comes back,
\* whatever copies of its row the requests in flight hold.
RevokedStayOut ==
    [][\A t \in Tokens : sessions[t] = Gone => sessions'[t] = Gone]_sessions

\* Who uses a session stays logged in: throttling the bump costs at most Throttle
\* of the window, so a request within TTL - Throttle of the last one is in time.
\* Only a use whose due bump failed does not count: maybe_user swallows the failure,
\* and the session lasts as long as the use before it had made it last.
UsedSessionsLast ==
    \A t \in Tokens : IsLive(t) => sessions[t].expires > sessions[t].used + TTL - Throttle

\* An OIDC state works once: no callback is let past the check of its state when
\* the code of that state has been used, even if that login failed later on.
UsedStatesAreRefused ==
    [][\A w \in Workers : IsIdle(w) /\ (At(w, "callback", "holding"))' =>
            workers'[w].state \notin exchanged]_vars

\* A key the provider has rotated is missing from the document a login decodes
\* with only while a document the provider drew up before the rotation may be in
\* use: for CacheTTL after the rotation, and for the time its answer was under
\* way, since get_jwks dates a document by its arrival.
RotationIsPickedUp ==
    [][\A w \in Workers : ~At(w, "callback", "decoding") /\ (At(w, "callback", "decoding"))' =>
            \/ workers'[w].key >= workers[w].signed
            \/ now - keys.since < CacheTTL + (cache'.at - cache'.drawn)]_vars
=============================================================================
