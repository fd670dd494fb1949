---------------------------- MODULE Logins_proofs ----------------------------
(***************************************************************************)
(* Proofs about Logins, for any number of users, passwords, requests,      *)
(* sessions, OIDC states, rotations, revocations and restarts.             *)
(***************************************************************************)
EXTENDS Logins, TLAPS

-----------------------------------------------------------------------------
(* Records.                                                                *)

\* The kind of a request tells its fields.
LEMMA KindOf ==
    ASSUME NEW r \in Worker
    PROVE  /\ r.kind = "login" => r \in Opening
           /\ r.kind = "callback" => r \in Callback
           /\ r.kind = "request" => r \in Request
           /\ r.kind = "revoke" => r \in Revoking
<1>1. \A x \in Opening : x.kind = "login"
  BY DEF Opening
<1>2. \A x \in Callback : x.kind = "callback"
  BY DEF Callback
<1>3. \A x \in Request : x.kind = "request"
  BY DEF Request
<1>4. \A x \in Revoking : x.kind = "revoke"
  BY DEF Revoking
<1> QED
  BY <1>1, <1>2, <1>3, <1>4 DEF Worker, Idle

Fetching == {"signed", "fetching", "answered", "decoding"}
Signed == [kind : {"callback"}, pc : Fetching, state : States, signed : 0..MaxKeys,
           key : 0..MaxKeys, drawn : 0..MaxTime]
Document == [full : BOOLEAN, version : 0..MaxKeys, at : 0..MaxTime, drawn : 0..MaxTime]

LEMMA RecordFields ==
    /\ \A r \in Opening : r.user \in Users /\ r.seen \in Row /\ r.via \in Vias
                            /\ r.typed \in Passwords \cup {NoPassword}
    /\ \A r \in Callback : r.state \in States
    /\ \A r \in Callback : r.pc \in Fetching => r \in Signed
    /\ \A r \in Signed : r.signed \in 0..MaxKeys /\ r.key \in 0..MaxKeys
                            /\ r.drawn \in 0..MaxTime /\ r \in Callback
    /\ \A r \in Request : r.token \in Tokens \cup {0} /\ r.user \in Users /\ r.seen \in Row
    /\ \A r \in Revoking : r.user \in Users /\ r.row \in Row /\ r.kept \in Tokens \cup {0}
                            /\ r.pending \in SUBSET Tokens
<1>1. \A r \in Opening : r.user \in Users /\ r.seen \in Row /\ r.via \in Vias
                            /\ r.typed \in Passwords \cup {NoPassword}
  BY DEF Opening
<1>2. \A r \in Callback : r.state \in States
  BY DEF Callback
<1>3. \A r \in Callback : r.pc \in Fetching => r \in Signed
  BY DEF Callback, Signed, Fetching
<1>4. \A r \in Signed : r.signed \in 0..MaxKeys /\ r.key \in 0..MaxKeys
                            /\ r.drawn \in 0..MaxTime /\ r \in Callback
  BY DEF Callback, Signed, Fetching
<1>5. \A r \in Request : r.token \in Tokens \cup {0} /\ r.user \in Users /\ r.seen \in Row
  BY DEF Request
<1>6. \A r \in Revoking : r.user \in Users /\ r.row \in Row /\ r.kept \in Tokens \cup {0}
                            /\ r.pending \in SUBSET Tokens
  BY DEF Revoking
<1> QED
  BY <1>1, <1>2, <1>3, <1>4, <1>5, <1>6

LEMMA WorkerFields ==
    ASSUME TypeOK, NEW w \in Workers
    PROVE  /\ workers[w].kind = "login" => workers[w] \in Opening
           /\ workers[w].kind = "callback" => workers[w] \in Callback
           /\ workers[w].kind = "request" => workers[w] \in Request
           /\ workers[w].kind = "revoke" => workers[w] \in Revoking
<1>1. workers[w] \in Worker
  BY DEF TypeOK
<1> QED
  BY <1>1, KindOf

LEMMA RowFields ==
    \A r \in Row : /\ r.there \in BOOLEAN /\ r.active \in BOOLEAN /\ r.admin \in BOOLEAN
                   /\ r.old \in BOOLEAN /\ r.pw \in Passwords \cup {NoPassword}
  BY DEF Row

LEMMA NewUserRow ==
    ASSUME NEW admin \in BOOLEAN
    PROVE  /\ NewUser(admin) \in Row /\ NewUser(admin).there /\ NewUser(admin).active
           /\ NewUser(admin).pw = NoPassword
  BY DEF NewUser, Absent, Row

\* What the requests write into a row.
LEMMA PasswordRow ==
    ASSUME NEW r \in Row, NEW pw \in Passwords \cup {NoPassword}
    PROVE  LET x == [r EXCEPT !.pw = pw, !.old = FALSE]
           IN  x \in Row /\ x.pw = pw /\ x.there = r.there /\ x.active = r.active
<1> DEFINE x == [[r EXCEPT !.pw = pw] EXCEPT !.old = FALSE]
<1>1. [r EXCEPT !.pw = pw, !.old = FALSE] = x
  OBVIOUS
<1>2. x \in Row /\ x.pw = pw /\ x.there = r.there /\ x.active = r.active
  BY DEF Row
<1> QED
  BY <1>1, <1>2

LEMMA ActiveRow ==
    ASSUME NEW r \in Row, NEW b \in BOOLEAN
    PROVE  LET x == [r EXCEPT !.active = b]
           IN  x \in Row /\ x.pw = r.pw /\ x.there = r.there /\ x.active = b
  BY DEF Row

\* The moves of a worker.
LEMMA WorkerMoves ==
    ASSUME workers \in [Workers -> Worker], NEW w \in Workers, NEW rec \in Worker,
           workers' = [workers EXCEPT ![w] = rec]
    PROVE  /\ workers' \in [Workers -> Worker]
           /\ workers'[w] = rec
           /\ \A v \in Workers \ {w} : workers'[v] = workers[v]
  OBVIOUS

LEMMA EndsType ==
    ASSUME TypeOK, NEW w \in Workers, Ends(w)
    PROVE  /\ workers' \in [Workers -> Worker]
           /\ workers'[w] = Idle
           /\ \A v \in Workers \ {w} : workers'[v] = workers[v]
<1>1. Idle \in Worker
  BY DEF Worker
<1> QED
  BY <1>1, WorkerMoves DEF Ends, Becomes, TypeOK

LEMMA LoginGoes ==
    ASSUME TypeOK, NEW w \in Workers, workers[w].kind = "login", Goes(w, "stamped")
    PROVE  /\ workers' \in [Workers -> Worker]
           /\ workers'[w].kind = "login" /\ workers'[w].user = workers[w].user
           /\ workers'[w].seen = workers[w].seen
           /\ \A v \in Workers \ {w} : workers'[v] = workers[v]
<1> DEFINE rec == [workers[w] EXCEPT !.pc = "stamped"]
<1>1. workers[w] \in Opening
  BY WorkerFields
<1>2. rec \in Opening /\ rec.kind = "login" /\ rec.user = workers[w].user /\ rec.seen = workers[w].seen
  BY <1>1 DEF Opening
<1>3. workers' = [workers EXCEPT ![w] = rec] /\ rec \in Worker
  BY <1>2 DEF Goes, Worker
<1> HIDE DEF rec
<1> QED
  BY <1>2, <1>3, WorkerMoves DEF TypeOK

LEMMA CallbackGoes ==
    ASSUME TypeOK, NEW w \in Workers, At(w, "callback", "holding"), Goes(w, "exchanging")
    PROVE  /\ workers' \in [Workers -> Worker]
           /\ workers'[w].kind = "callback" /\ workers'[w].pc = "exchanging"
           /\ workers'[w].state = workers[w].state
           /\ \A v \in Workers \ {w} : workers'[v] = workers[v]
<1> DEFINE rec == [workers[w] EXCEPT !.pc = "exchanging"]
<1>1. workers[w] \in [kind : {"callback"}, pc : {"holding", "exchanging"}, state : States]
  <2>1. workers[w] \in Callback /\ workers[w].pc = "holding"
    BY WorkerFields DEF At
  <2> QED
    BY <2>1 DEF Callback
<1>2. /\ rec \in [kind : {"callback"}, pc : {"holding", "exchanging"}, state : States]
      /\ rec.kind = "callback" /\ rec.pc = "exchanging" /\ rec.state = workers[w].state
  BY <1>1
<1>3. workers' = [workers EXCEPT ![w] = rec] /\ rec \in Worker
  BY <1>2 DEF Goes, Worker, Callback
<1> HIDE DEF rec
<1> QED
  BY <1>2, <1>3, WorkerMoves DEF TypeOK

LEMMA RequestGoes ==
    ASSUME TypeOK, NEW w \in Workers, At(w, "request", "found"), Goes(w, "in")
    PROVE  /\ workers' \in [Workers -> Worker]
           /\ workers'[w].kind = "request" /\ workers'[w].user = workers[w].user
           /\ workers'[w].token = workers[w].token
           /\ \A v \in Workers \ {w} : workers'[v] = workers[v]
<1> DEFINE rec == [workers[w] EXCEPT !.pc = "in"]
<1>1. workers[w] \in Request
  BY WorkerFields DEF At
<1>2. rec \in Request /\ rec.kind = "request" /\ rec.user = workers[w].user
        /\ rec.token = workers[w].token
  BY <1>1 DEF Request
<1>3. workers' = [workers EXCEPT ![w] = rec] /\ rec \in Worker
  BY <1>2 DEF Goes, Worker
<1> HIDE DEF rec
<1> QED
  BY <1>2, <1>3, WorkerMoves DEF TypeOK

\* The steps of get_jwks, and what one of them does.
Fetches(w) == CallbackChecksCache(w) \/ ProviderAnswers(w) \/ CallbackStoresKeys(w)

FetchMoves(w) ==
    \/ workers'[w] = Idle /\ cache' = cache
    \/ /\ workers'[w].kind = "callback" /\ workers'[w].signed = workers[w].signed
       /\ \/ /\ At(w, "callback", "signed") /\ CacheIsFresh /\ cache' = cache
             /\ workers'[w].pc = "decoding" /\ workers'[w].key = cache.version
          \/ /\ At(w, "callback", "signed") /\ cache' = cache
             /\ workers'[w].pc = "fetching"
          \/ /\ At(w, "callback", "fetching") /\ cache' = cache
             /\ workers'[w].pc = "answered"
             /\ workers'[w].key = keys.version /\ workers'[w].drawn = now
          \/ /\ At(w, "callback", "answered")
             /\ cache' = [full |-> TRUE, version |-> workers[w].key, at |-> now,
                          drawn |-> workers[w].drawn]
             /\ workers'[w].pc = "decoding" /\ workers'[w].key = workers[w].key

LEMMA FetchGoes ==
    ASSUME TypeOK, NEW w \in Workers, Fetches(w)
    PROVE  /\ workers' \in [Workers -> Worker] /\ cache' \in Document
           /\ workers'[w] \in Callback \/ workers'[w] = Idle
           /\ \A v \in Workers \ {w} : workers'[v] = workers[v]
           /\ FetchMoves(w)
<1> DEFINE me == workers[w]
<1>1. me.kind = "callback" /\ me \in Signed /\ workers \in [Workers -> Worker]
        /\ cache \in Document /\ now \in 0..MaxTime /\ keys.version \in 0..MaxKeys
  BY WorkerFields, RecordFields
     DEF Fetches, CallbackChecksCache, ProviderAnswers, CallbackStoresKeys, At, TypeOK, Document,
         Fetching
<1>2. \A r \in Signed : r \in Worker /\ r \in Callback
  BY RecordFields DEF Worker
<1>3. ASSUME NEW pc \in Fetching, NEW k \in 0..MaxKeys, NEW d \in 0..MaxTime,
             workers' = [workers EXCEPT ![w] = [[[me EXCEPT !.pc = pc] EXCEPT !.key = k]
                                                  EXCEPT !.drawn = d]]
      PROVE  /\ workers' \in [Workers -> Worker] /\ workers'[w] \in Callback
             /\ \A v \in Workers \ {w} : workers'[v] = workers[v]
             /\ workers'[w].kind = "callback" /\ workers'[w].pc = pc
             /\ workers'[w].key = k /\ workers'[w].drawn = d
             /\ workers'[w].signed = workers[w].signed
  <2> DEFINE rec == [[[me EXCEPT !.pc = pc] EXCEPT !.key = k] EXCEPT !.drawn = d]
  <2>1. rec \in Signed /\ rec.kind = "callback" /\ rec.pc = pc /\ rec.key = k /\ rec.drawn = d
          /\ rec.signed = me.signed
    BY <1>1, <1>3 DEF Signed
  <2>2. workers' = [workers EXCEPT ![w] = rec]
    BY <1>3
  <2> HIDE DEF rec
  <2> QED
    BY <1>1, <1>2, <2>1, <2>2, WorkerMoves
<1>4. me.key \in 0..MaxKeys /\ me.drawn \in 0..MaxTime
  BY <1>1, RecordFields
<1>5. CASE CallbackChecksCache(w)
  <2>1. At(w, "callback", "signed") /\ cache' = cache
    BY <1>5 DEF CallbackChecksCache, provider
  <2>2. CASE CacheIsFresh
    <3>1. workers' = [workers EXCEPT ![w] = [me EXCEPT !.pc = "decoding", !.key = cache.version]]
      BY <1>5, <2>2 DEF CallbackChecksCache, Becomes
    <3>2. [me EXCEPT !.pc = "decoding", !.key = cache.version]
            = [[[me EXCEPT !.pc = "decoding"] EXCEPT !.key = cache.version] EXCEPT !.drawn = me.drawn]
      BY <1>1 DEF Signed
    <3>3. cache.version \in 0..MaxKeys /\ "decoding" \in Fetching
      BY <1>1 DEF Document, Fetching
    <3>4. workers' = [workers EXCEPT ![w] = [[[me EXCEPT !.pc = "decoding"]
                                                EXCEPT !.key = cache.version]
                                               EXCEPT !.drawn = me.drawn]]
      BY <3>1, <3>2
    <3>5. /\ workers' \in [Workers -> Worker] /\ workers'[w] \in Callback
          /\ \A v \in Workers \ {w} : workers'[v] = workers[v]
          /\ workers'[w].kind = "callback" /\ workers'[w].pc = "decoding"
          /\ workers'[w].key = cache.version /\ workers'[w].signed = workers[w].signed
      BY ONLY <1>3, <1>4, <3>3, <3>4
    <3> QED
      BY <1>1, <2>1, <2>2, <3>5 DEF FetchMoves
  <2>3. CASE ~CacheIsFresh
    <3>1. workers' = [workers EXCEPT ![w] = [me EXCEPT !.pc = "fetching"]]
      BY <1>5, <2>3 DEF CallbackChecksCache, Becomes
    <3>2. [me EXCEPT !.pc = "fetching"]
            = [[[me EXCEPT !.pc = "fetching"] EXCEPT !.key = me.key] EXCEPT !.drawn = me.drawn]
      BY <1>1 DEF Signed
    <3>3. "fetching" \in Fetching
      BY DEF Fetching
    <3>4. workers' = [workers EXCEPT ![w] = [[[me EXCEPT !.pc = "fetching"] EXCEPT !.key = me.key]
                                               EXCEPT !.drawn = me.drawn]]
      BY <3>1, <3>2
    <3>5. /\ workers' \in [Workers -> Worker] /\ workers'[w] \in Callback
          /\ \A v \in Workers \ {w} : workers'[v] = workers[v]
          /\ workers'[w].kind = "callback" /\ workers'[w].pc = "fetching"
          /\ workers'[w].signed = workers[w].signed
      BY ONLY <1>3, <1>4, <3>3, <3>4
    <3> QED
      BY <1>1, <2>1, <3>5 DEF FetchMoves
  <2> QED
    BY <2>2, <2>3
<1>6. CASE ProviderAnswers(w)
  <2>1. At(w, "callback", "fetching") /\ cache' = cache
    BY <1>6 DEF ProviderAnswers, provider
  <2>2. CASE Ends(w)
    BY <1>1, <2>1, <2>2, EndsType DEF FetchMoves
  <2>3. CASE workers' = [workers EXCEPT ![w] = [me EXCEPT !.pc = "answered", !.key = keys.version,
                                                          !.drawn = now]]
    <3>1. [me EXCEPT !.pc = "answered", !.key = keys.version, !.drawn = now]
            = [[[me EXCEPT !.pc = "answered"] EXCEPT !.key = keys.version] EXCEPT !.drawn = now]
      OBVIOUS
    <3>2. "answered" \in Fetching /\ keys.version \in 0..MaxKeys /\ now \in 0..MaxTime
      BY <1>1 DEF Fetching
    <3>3. workers' = [workers EXCEPT ![w] = [[[me EXCEPT !.pc = "answered"]
                                                EXCEPT !.key = keys.version]
                                               EXCEPT !.drawn = now]]
      BY <2>3, <3>1
    <3>4. /\ workers' \in [Workers -> Worker] /\ workers'[w] \in Callback
          /\ \A v \in Workers \ {w} : workers'[v] = workers[v]
          /\ workers'[w].kind = "callback" /\ workers'[w].pc = "answered"
          /\ workers'[w].key = keys.version /\ workers'[w].drawn = now
          /\ workers'[w].signed = workers[w].signed
      BY ONLY <1>3, <3>2, <3>3
    <3> QED
      BY <1>1, <2>1, <3>4 DEF FetchMoves
  <2> QED
    BY <1>6, <2>2, <2>3 DEF ProviderAnswers, Becomes
<1>7. CASE CallbackStoresKeys(w)
  <2>1. /\ At(w, "callback", "answered")
        /\ cache' = [full |-> TRUE, version |-> me.key, at |-> now, drawn |-> me.drawn]
        /\ workers' = [workers EXCEPT ![w] = [me EXCEPT !.pc = "decoding"]]
    BY <1>1, <1>7 DEF CallbackStoresKeys, Goes
  <2>2. [me EXCEPT !.pc = "decoding"]
          = [[[me EXCEPT !.pc = "decoding"] EXCEPT !.key = me.key] EXCEPT !.drawn = me.drawn]
    BY <1>1 DEF Signed
  <2>3. cache' \in Document /\ "decoding" \in Fetching
    BY <1>1, <1>4, <2>1 DEF Document, Fetching
  <2>4. workers' = [workers EXCEPT ![w] = [[[me EXCEPT !.pc = "decoding"] EXCEPT !.key = me.key]
                                             EXCEPT !.drawn = me.drawn]]
    BY <2>1, <2>2
  <2>5. /\ workers' \in [Workers -> Worker] /\ workers'[w] \in Callback
        /\ \A v \in Workers \ {w} : workers'[v] = workers[v]
        /\ workers'[w].kind = "callback" /\ workers'[w].pc = "decoding"
        /\ workers'[w].key = workers[w].key /\ workers'[w].signed = workers[w].signed
    BY ONLY <1>3, <1>4, <2>3, <2>4
  <2> QED
    BY <1>1, <2>1, <2>3, <2>5 DEF FetchMoves
<1> QED
  BY <1>5, <1>6, <1>7 DEF Fetches

-----------------------------------------------------------------------------
(* Types, action by action.                                                *)

LEMMA SeededType ==
    ASSUME NEW table \in [Users -> Row], NEW ok \in BOOLEAN
    PROVE  /\ Seeded(table, ok) \in [Users -> Row]
           /\ \A u \in Users : \/ Seeded(table, ok)[u] = table[u]
                               \/ ~table[u].there /\ Seeded(table, ok)[u] = NewUser(TRUE)
  BY NewUserRow, ConstantsAssumption DEF Seeded

LEMMA NewSessionType ==
    ASSUME TypeOK, NEW u \in Users, NEW typed \in Passwords \cup {NoPassword}, NEW via \in Vias
    PROVE  /\ NewSession(u, typed, via) \in Live
           /\ NewSession(u, typed, via).user = u /\ NewSession(u, typed, via).via = via
           /\ NewSession(u, typed, via).pw = typed
           /\ NewSession(u, typed, via).late = Overtaken(u, typed, via)
           /\ NewSession(u, typed, via).seen = now /\ NewSession(u, typed, via).used = now
           /\ NewSession(u, typed, via).expires = now + TTL
<1>1. now \in 0..MaxTime /\ now + TTL \in Nat
  BY ConstantsAssumption DEF TypeOK
<1>2. Overtaken(u, typed, via) \in BOOLEAN
  BY DEF Overtaken
<1> HIDE DEF Overtaken
<1> QED
  BY <1>1, <1>2 DEF NewSession, Live

LEMMA TouchedType ==
    ASSUME TypeOK, NEW s \in Live
    PROVE  /\ Touched(s) \in Live /\ Touched(s).user = s.user /\ Touched(s).via = s.via
           /\ Touched(s).pw = s.pw /\ Touched(s).late = s.late /\ Touched(s).used = now
           /\ \/ now - s.seen < Throttle /\ Touched(s).seen = s.seen /\ Touched(s).expires = s.expires
              \/ Touched(s).seen = now /\ Touched(s).expires = now + TTL
<1>1. now \in 0..MaxTime /\ now + TTL \in Nat
  BY ConstantsAssumption DEF TypeOK
<1> DEFINE seen == IF now - s.seen < Throttle THEN s.seen ELSE now
           expires == IF now - s.seen < Throttle THEN s.expires ELSE now + TTL
           x == [[[s EXCEPT !.seen = seen] EXCEPT !.expires = expires] EXCEPT !.used = now]
<1>2. Touched(s) = x
  BY DEF Touched
<1>3. s.seen \in 0..MaxTime /\ s.expires \in Nat
  BY DEF Live
<1>4. seen \in 0..MaxTime /\ expires \in Nat
  BY <1>1, <1>3
<1>5. \/ now - s.seen < Throttle /\ seen = s.seen /\ expires = s.expires
      \/ seen = now /\ expires = now + TTL
  OBVIOUS
<1> HIDE DEF seen, expires
<1>6. /\ x \in Live /\ x.user = s.user /\ x.via = s.via /\ x.pw = s.pw /\ x.late = s.late
      /\ x.used = now /\ x.seen = seen /\ x.expires = expires
  BY <1>1, <1>4 DEF Live
<1> QED
  BY <1>2, <1>5, <1>6

LEMMA LiveType ==
    ASSUME TypeOK, NEW t \in Tokens
    PROVE  IsLive(t) <=> sessions[t] \in Live
<1>1. Unused \notin Live /\ Gone \notin Live
  BY DEF Unused, Gone, Live
<1> QED
  BY <1>1 DEF TypeOK, IsLive

\* The logins.
LEMMA LoginReadsType ==
    ASSUME TypeOK, NEW w \in Workers, NEW u \in Users, NEW typed \in Passwords \cup {EnvPassword},
           LoginReads(w, u, typed)
    PROVE  /\ TypeOK'
           /\ workers'[w].kind = "login" /\ workers'[w].user = u /\ workers'[w].seen = users[u]
           /\ \A v \in Workers \ {w} : workers'[v] = workers[v]
<1>1. users[u] \in Row /\ users[u].pw \in Passwords \cup {NoPassword} /\ workers \in [Workers -> Worker]
  BY RowFields DEF TypeOK
<1> DEFINE first == [kind |-> "login", pc |-> "verified", user |-> u, seen |-> users[u],
                     typed |-> typed, via |-> "password"]
           second == [kind |-> "login", pc |-> "breakglass", user |-> u, seen |-> users[u],
                      typed |-> NoPassword, via |-> "breakglass"]
<1>2. Verifies(users[u], typed) => typed \in Passwords \cup {NoPassword}
  BY <1>1 DEF Verifies
<1>3. (Verifies(users[u], typed) => first \in Opening) /\ second \in Opening
  BY <1>1, <1>2 DEF Opening, Vias
<1>4. \E rec \in Opening : /\ workers' = [workers EXCEPT ![w] = rec]
                           /\ rec.kind = "login" /\ rec.user = u /\ rec.seen = users[u]
  BY <1>3 DEF LoginReads, Becomes
<1>5. /\ workers' \in [Workers -> Worker]
      /\ workers'[w].kind = "login" /\ workers'[w].user = u /\ workers'[w].seen = users[u]
      /\ \A v \in Workers \ {w} : workers'[v] = workers[v]
  BY <1>1, <1>4, WorkerMoves DEF Worker
<1> QED
  BY <1>5 DEF LoginReads, TypeOK, provider, bounds

LEMMA LoginCommitsType ==
    ASSUME TypeOK, NEW w \in Workers, LoginCommits(w)
    PROVE  /\ TypeOK'
           /\ LET u == workers[w].user
              IN  /\ u \in Users /\ users'[u].there = users[u].there
                  /\ users'[u].active = users[u].active
                  /\ users'[u].pw = users[u].pw \/ u \in reverted'
                  /\ \A x \in Users \ {u} : users'[x] = users[x]
           /\ reverted \subseteq reverted'
<1> DEFINE u == workers[w].user
           row == Rehashed(users[u], workers[w].typed, workers[w].seen)
<1>1. /\ workers[w].kind = "login" /\ u \in Users /\ workers[w].seen \in Row
      /\ workers[w].typed \in Passwords \cup {NoPassword} /\ users[u] \in Row
  BY WorkerFields, RecordFields DEF LoginCommits, At, TypeOK
<1>2. row \in Row /\ row.there = users[u].there /\ row.active = users[u].active
  BY <1>1, PasswordRow DEF Rehashed
<1>3. /\ users' = [users EXCEPT ![u] = row]
      /\ reverted' = IF row.pw # users[u].pw THEN reverted \cup {u} ELSE reverted
      /\ Goes(w, "stamped")
      /\ UNCHANGED <<config, sessions, states, exchanged, keys, cache, now, revocations, restarts>>
  BY DEF LoginCommits, provider, bounds
<1>4. workers' \in [Workers -> Worker]
  BY <1>1, <1>3, LoginGoes
<1> HIDE DEF row
<1>5. users' \in [Users -> Row] /\ users'[u] = row /\ \A x \in Users \ {u} : users'[x] = users[x]
  BY <1>1, <1>2, <1>3 DEF TypeOK
<1>6. reverted' \subseteq Users /\ reverted \subseteq reverted' /\ (row.pw # users[u].pw => u \in reverted')
  BY <1>1, <1>3 DEF TypeOK
<1>7. TypeOK'
  BY <1>3, <1>4, <1>5, <1>6 DEF TypeOK
<1> QED
  BY <1>1, <1>2, <1>5, <1>6, <1>7

LEMMA BreakGlassCommitsType ==
    ASSUME TypeOK, NEW w \in Workers, BreakGlassCommits(w)
    PROVE  /\ TypeOK'
           /\ LET u == workers[w].user
              IN  /\ u \in Users
                  /\ \A x \in Users \ {u} : users'[x] = users[x]
                  /\ \/ users'[u] = users[u]
                     \/ ~users[u].there /\ users'[u] = NewUser(TRUE)
                     \/ /\ workers[w].seen.there
                        /\ users'[u].there = users[u].there /\ users'[u].pw = users[u].pw
                        /\ users[u].active => users'[u].active
           /\ \/ workers'[w] = Idle
              \/ /\ workers'[w].kind = "login" /\ workers'[w].user = workers[w].user
                 /\ workers'[w].seen = workers[w].seen
           /\ \A v \in Workers \ {w} : workers'[v] = workers[v]
<1> DEFINE u == workers[w].user
           seen == workers[w].seen
<1>1. workers[w].kind = "login" /\ u \in Users /\ seen \in Row /\ users[u] \in Row
        /\ users \in [Users -> Row]
  BY WorkerFields, RecordFields DEF BreakGlassCommits, At, TypeOK
<1>2. UNCHANGED <<config, sessions, states, exchanged, keys, cache, now, reverted, revocations, restarts>>
  BY DEF BreakGlassCommits, provider, bounds
<1>3. /\ users' \in [Users -> Row]
      /\ \A x \in Users \ {u} : users'[x] = users[x]
      /\ \/ users'[u] = users[u]
         \/ ~users[u].there /\ users'[u] = NewUser(TRUE)
         \/ /\ seen.there
            /\ users'[u].there = users[u].there /\ users'[u].pw = users[u].pw
            /\ users[u].active => users'[u].active
  <2>1. CASE seen.there
    <3> DEFINE row == [[users[u] EXCEPT !.active = users[u].active \/ ~seen.active]
                          EXCEPT !.admin = users[u].admin \/ ~seen.admin]
    <3>1. users' = [users EXCEPT ![u] = row]
      BY <1>1, <2>1 DEF BreakGlassCommits
    <3>2. row \in Row /\ row.there = users[u].there /\ row.pw = users[u].pw
            /\ row.active = (users[u].active \/ ~seen.active)
      <4> DEFINE active == users[u].active \/ ~seen.active
                 admin == users[u].admin \/ ~seen.admin
      <4>1. active \in BOOLEAN /\ admin \in BOOLEAN
        OBVIOUS
      <4>2. row = [[users[u] EXCEPT !.active = active] EXCEPT !.admin = admin]
        OBVIOUS
      <4> HIDE DEF active, admin, row
      <4>3. row \in Row /\ row.there = users[u].there /\ row.pw = users[u].pw /\ row.active = active
        BY <1>1, <4>1, <4>2 DEF Row
      <4> QED
        BY <4>3 DEF active
    <3> HIDE DEF row
    <3> QED
      BY <1>1, <2>1, <3>1, <3>2
  <2>2. CASE ~seen.there
    <3>1. users' = [users EXCEPT ![u] = IF users[u].there THEN users[u] ELSE NewUser(TRUE)]
      BY <1>1, <2>2 DEF BreakGlassCommits
    <3> QED
      BY <1>1, <3>1, NewUserRow
  <2> QED
    BY <2>1, <2>2
<1>4. Goes(w, "stamped") \/ Ends(w)
  BY DEF BreakGlassCommits
<1>5. /\ workers' \in [Workers -> Worker]
      /\ \/ workers'[w] = Idle
         \/ workers'[w].kind = "login" /\ workers'[w].user = u /\ workers'[w].seen = seen
      /\ \A v \in Workers \ {w} : workers'[v] = workers[v]
  BY <1>1, <1>4, LoginGoes, EndsType
<1>6. TypeOK'
  BY <1>2, <1>3, <1>5 DEF TypeOK
<1> QED
  BY <1>1, <1>3, <1>5, <1>6

LEMMA UpsertCommitsType ==
    ASSUME TypeOK, NEW w \in Workers, UpsertCommits(w)
    PROVE  /\ TypeOK'
           /\ LET u == workers[w].user
              IN  /\ u \in Users
                  /\ \A x \in Users \ {u} : users'[x] = users[x]
                  /\ \/ users'[u] = users[u]
                     \/ ~users[u].there /\ users'[u] = NewUser(FALSE)
           /\ \/ workers'[w] = Idle
              \/ /\ workers'[w].kind = "login" /\ workers'[w].user = workers[w].user
                 /\ workers'[w].seen = workers[w].seen
           /\ \A v \in Workers \ {w} : workers'[v] = workers[v]
<1> DEFINE u == workers[w].user
           seen == workers[w].seen
<1>1. workers[w].kind = "login" /\ u \in Users /\ users \in [Users -> Row]
  BY WorkerFields, RecordFields DEF UpsertCommits, At, TypeOK
<1>2. UNCHANGED <<config, sessions, states, exchanged, keys, cache, now, reverted, revocations, restarts>>
  BY DEF UpsertCommits, provider, bounds
<1>3. /\ users' \in [Users -> Row]
      /\ \A x \in Users \ {u} : users'[x] = users[x]
      /\ \/ users'[u] = users[u]
         \/ ~users[u].there /\ users'[u] = NewUser(FALSE)
  <2>1. \/ users' = users
        \/ ~users[u].there /\ users' = [users EXCEPT ![u] = NewUser(FALSE)]
    BY DEF UpsertCommits
  <2> QED
    BY <1>1, <2>1, NewUserRow
<1>4. Goes(w, "stamped") \/ Ends(w)
  BY DEF UpsertCommits
<1>5. /\ workers' \in [Workers -> Worker]
      /\ \/ workers'[w] = Idle
         \/ workers'[w].kind = "login" /\ workers'[w].user = u /\ workers'[w].seen = seen
      /\ \A v \in Workers \ {w} : workers'[v] = workers[v]
  BY <1>1, <1>4, LoginGoes, EndsType
<1>6. TypeOK'
  BY <1>2, <1>3, <1>5 DEF TypeOK
<1> QED
  BY <1>1, <1>3, <1>5, <1>6

LEMMA OpensSessionType ==
    ASSUME TypeOK, NEW w \in Workers, NEW t \in Tokens, OpensSession(w, t)
    PROVE  /\ TypeOK'
           /\ sessions[t] = Unused
           /\ \E u \in Users, typed \in Passwords \cup {NoPassword}, via \in Vias :
                    sessions'[t] = NewSession(u, typed, via)
           /\ \A x \in Tokens \ {t} : sessions'[x] = sessions[x]
<1> DEFINE new == NewSession(workers[w].user, workers[w].typed, workers[w].via)
<1>1. /\ workers[w].user \in Users /\ workers[w].typed \in Passwords \cup {NoPassword}
      /\ workers[w].via \in Vias
  BY WorkerFields, RecordFields DEF OpensSession, At
<1>2. new \in Live
  BY <1>1, NewSessionType
<1>3. sessions' = [sessions EXCEPT ![t] = new] /\ sessions[t] = Unused /\ Ends(w)
        /\ UNCHANGED <<config, users, states, exchanged, keys, cache, now, reverted, revocations, restarts>>
  BY DEF OpensSession, provider, bounds
<1> HIDE DEF new
<1>4. /\ sessions' \in [Tokens -> Live \cup {Unused, Gone}]
      /\ sessions'[t] = new /\ \A x \in Tokens \ {t} : sessions'[x] = sessions[x]
  BY <1>2, <1>3 DEF TypeOK
<1>5. workers' \in [Workers -> Worker]
  BY <1>3, EndsType
<1>6. TypeOK'
  BY <1>3, <1>4, <1>5 DEF TypeOK
<1> QED
  BY <1>1, <1>3, <1>4, <1>6 DEF new


\* The callback.
LEMMA SsoStepType ==
    ASSUME TypeOK, NEW w \in Workers, SsoStep(w)
    PROVE  /\ TypeOK'
           /\ UNCHANGED <<users, sessions, reverted>>
           /\ \/ workers'[w] \in Callback \/ workers'[w] = Idle
              \/ workers'[w].kind = "login" /\ workers'[w].user \in Users
                    /\ workers'[w].seen = users[workers'[w].user]
           /\ \A v \in Workers \ {w} : workers'[v] = workers[v]
<1>1. workers \in [Workers -> Worker] /\ keys.version \in 0..MaxKeys /\ 0 \in 0..MaxKeys
        /\ states \in [States -> {"unused", "fresh", "old", "spent"}] /\ users \in [Users -> Row]
  BY ConstantsAssumption DEF TypeOK
<1>2. ASSUME NEW s \in States, CallbackReads(w, s)
      PROVE  /\ workers' \in [Workers -> Worker]
             /\ workers'[w] \in Callback \/ workers'[w] = workers[w]
             /\ \A v \in Workers \ {w} : workers'[v] = workers[v]
             /\ states' \in [States -> {"unused", "fresh", "old", "spent"}]
  <2> DEFINE rec == [kind |-> "callback", pc |-> "holding", state |-> s]
  <2>1. rec \in Callback /\ rec \in Worker
    BY DEF Callback, Worker
  <2>2. \/ workers' = [workers EXCEPT ![w] = rec] /\ states' = states
        \/ workers' = workers /\ states' = [states EXCEPT ![s] = "spent"]
    BY <1>2 DEF CallbackReads, Becomes
  <2> HIDE DEF rec
  <2> QED
    BY <1>1, <2>1, <2>2, WorkerMoves
<1>3. ASSUME CallbackSpends(w)
      PROVE  /\ workers' \in [Workers -> Worker]
             /\ workers'[w] \in Callback
             /\ \A v \in Workers \ {w} : workers'[v] = workers[v]
             /\ states' \in [States -> {"unused", "fresh", "old", "spent"}]
  <2>1. At(w, "callback", "holding") /\ Goes(w, "exchanging")
          /\ states' = [states EXCEPT ![workers[w].state] = "spent"]
    BY <1>3 DEF CallbackSpends
  <2>2. workers' \in [Workers -> Worker] /\ workers'[w].kind = "callback"
          /\ \A v \in Workers \ {w} : workers'[v] = workers[v]
    BY <2>1, CallbackGoes
  <2> QED
    BY <1>1, <2>1, <2>2, KindOf
<1>4. ASSUME CallbackExchanges(w)
      PROVE  /\ workers' \in [Workers -> Worker]
             /\ workers'[w] \in Callback \/ workers'[w] = Idle
             /\ \A v \in Workers \ {w} : workers'[v] = workers[v]
             /\ exchanged' \subseteq States
  <2> DEFINE s == workers[w].state
             rec == [kind |-> "callback", pc |-> "signed", state |-> s, signed |-> keys.version,
                     key |-> 0, drawn |-> 0]
  <2>1. s \in States
    BY <1>4, WorkerFields, RecordFields DEF CallbackExchanges, At
  <2>2. rec \in Callback /\ rec \in Worker
    <3>1. 0 \in 0..MaxKeys /\ 0 \in 0..MaxTime /\ keys.version \in 0..MaxKeys
      BY ConstantsAssumption DEF TypeOK
    <3> QED
      BY <2>1, <3>1 DEF Callback, Worker
  <2>3. /\ exchanged' = exchanged \cup {s}
        /\ Ends(w) \/ workers' = [workers EXCEPT ![w] = rec]
    BY <1>4 DEF CallbackExchanges, Becomes
  <2> HIDE DEF rec
  <2>4. exchanged' \subseteq States
    BY <2>1, <2>3 DEF TypeOK
  <2> QED
    BY <1>1, <2>2, <2>3, <2>4, WorkerMoves, EndsType
<1>5. ASSUME Fetches(w)
      PROVE  /\ workers' \in [Workers -> Worker]
             /\ workers'[w] \in Callback \/ workers'[w] = Idle
             /\ \A v \in Workers \ {w} : workers'[v] = workers[v]
             /\ cache' \in Document
  BY <1>5, FetchGoes
<1>6. ASSUME NEW u \in Sso, CallbackDecodes(w, u)
      PROVE  /\ workers' \in [Workers -> Worker]
             /\ \/ workers'[w] = Idle
                \/ workers'[w].kind = "login" /\ workers'[w].user = u /\ workers'[w].seen = users[u]
             /\ \A v \in Workers \ {w} : workers'[v] = workers[v]
  <2> DEFINE rec == [kind |-> "login", pc |-> "upsert", user |-> u, seen |-> users[u],
                     typed |-> NoPassword, via |-> "sso"]
  <2>1. u \in Users /\ users[u] \in Row
    BY <1>1, ConstantsAssumption
  <2>2. rec \in Opening /\ rec \in Worker /\ rec.kind = "login" /\ rec.user = u /\ rec.seen = users[u]
    BY <2>1 DEF Opening, Vias, Worker
  <2>3. Ends(w) \/ workers' = [workers EXCEPT ![w] = rec]
    BY <1>6 DEF CallbackDecodes, Becomes
  <2> HIDE DEF rec
  <2> QED
    BY <1>1, <2>2, <2>3, WorkerMoves, EndsType
<1>7. UNCHANGED <<config, users, sessions, keys, now, reverted, revocations, restarts>>
  BY DEF SsoStep, CallbackReads, CallbackSpends, CallbackExchanges, CallbackChecksCache,
         ProviderAnswers, CallbackStoresKeys, CallbackDecodes, provider, bounds
<1>8. /\ (\E s \in States : CallbackReads(w, s)) \/ CallbackSpends(w) =>
            UNCHANGED <<exchanged, cache>>
      /\ CallbackExchanges(w) => UNCHANGED <<states, cache>>
      /\ Fetches(w) => UNCHANGED <<states, exchanged>>
      /\ (\E u \in Sso : CallbackDecodes(w, u)) => UNCHANGED <<states, exchanged, cache>>
  BY DEF CallbackReads, CallbackSpends, CallbackExchanges, Fetches, CallbackChecksCache,
         ProviderAnswers, CallbackStoresKeys, CallbackDecodes, provider
<1>9. \A s \in States : CallbackReads(w, s) => workers[w] = Idle
  BY DEF CallbackReads, IsIdle
<1>10. /\ workers' \in [Workers -> Worker]
       /\ \A v \in Workers \ {w} : workers'[v] = workers[v]
       /\ states' \in [States -> {"unused", "fresh", "old", "spent"}]
       /\ exchanged' \subseteq States
       /\ cache' \in Document
  BY <1>2, <1>3, <1>4, <1>5, <1>6, <1>8 DEF SsoStep, Fetches, TypeOK, Document
<1>11. \/ workers'[w] \in Callback \/ workers'[w] = Idle
       \/ workers'[w].kind = "login" /\ workers'[w].user \in Users
             /\ workers'[w].seen = users[workers'[w].user]
  BY <1>2, <1>3, <1>4, <1>5, <1>6, <1>9, ConstantsAssumption DEF SsoStep, Fetches
<1>12. TypeOK'
  BY <1>7, <1>10 DEF TypeOK, Document
<1> QED
  BY <1>7, <1>10, <1>11, <1>12

\* Authenticated requests.
LEMMA AuthenticatesType ==
    ASSUME TypeOK, NEW w \in Workers, NEW t \in Tokens, Authenticates(w, t)
    PROVE  /\ TypeOK'
           /\ UNCHANGED <<users, sessions, reverted>>
           /\ workers'[w].kind = "request" /\ workers'[w].token = t
           /\ workers'[w].user = sessions[t].user
           /\ IsLive(t) /\ sessions[t].user \in Users /\ users[sessions[t].user].active
           /\ \A v \in Workers \ {w} : workers'[v] = workers[v]
<1> DEFINE u == sessions[t].user
           rec == [kind |-> "request", pc |-> "found", token |-> t, user |-> u, seen |-> users[u]]
<1>1. IsLive(t) /\ users[u].active /\ workers' = [workers EXCEPT ![w] = rec]
        /\ UNCHANGED <<config, users, sessions, states, exchanged, keys, cache, now, reverted,
                       revocations, restarts>>
  BY DEF Authenticates, Found, Becomes, provider, bounds
<1>2. u \in Users
  BY <1>1, LiveType DEF Live
<1>3. rec \in Request /\ rec.kind = "request" /\ rec.token = t /\ rec.user = u
  BY <1>2 DEF TypeOK, Request
<1> HIDE DEF rec
<1>4. /\ workers' \in [Workers -> Worker] /\ workers'[w] = rec
      /\ \A v \in Workers \ {w} : workers'[v] = workers[v]
  BY <1>1, <1>3, WorkerMoves DEF TypeOK, Worker
<1>5. TypeOK'
  BY <1>1, <1>4 DEF TypeOK
<1> QED
  BY <1>1, <1>2, <1>3, <1>4, <1>5

LEMMA BypassType ==
    ASSUME TypeOK, NEW w \in Workers, AuthenticatesByBypass(w)
    PROVE  /\ TypeOK'
           /\ UNCHANGED <<sessions, reverted>>
           /\ DevUser \in Users
           /\ \A x \in Users \ {DevUser} : users'[x] = users[x]
           /\ \/ users[DevUser].there /\ users'[DevUser] = users[DevUser]
              \/ ~users[DevUser].there /\ users'[DevUser] = NewUser(TRUE)
           /\ workers'[w].kind = "request" /\ workers'[w].token = 0 /\ workers'[w].user = DevUser
           /\ \A v \in Workers \ {w} : workers'[v] = workers[v]
<1> DEFINE rec == [kind |-> "request", pc |-> "in", token |-> 0, user |-> DevUser,
                   seen |-> users'[DevUser]]
<1>1. /\ users' = IF users[DevUser].there THEN users ELSE [users EXCEPT ![DevUser] = NewUser(TRUE)]
      /\ workers' = [workers EXCEPT ![w] = rec]
      /\ UNCHANGED <<config, sessions, states, exchanged, keys, cache, now, reverted,
                     revocations, restarts>>
  BY DEF AuthenticatesByBypass, Becomes, provider, bounds
<1>2. DevUser \in Users
  BY ConstantsAssumption
<1>3. /\ users' \in [Users -> Row]
      /\ \A x \in Users \ {DevUser} : users'[x] = users[x]
      /\ \/ users[DevUser].there /\ users'[DevUser] = users[DevUser]
         \/ ~users[DevUser].there /\ users'[DevUser] = NewUser(TRUE)
  BY <1>1, <1>2, NewUserRow DEF TypeOK
<1>4. rec \in Request /\ rec.kind = "request" /\ rec.token = 0 /\ rec.user = DevUser
  BY <1>2, <1>3 DEF Request
<1> HIDE DEF rec
<1>5. /\ workers' \in [Workers -> Worker] /\ workers'[w] = rec
      /\ \A v \in Workers \ {w} : workers'[v] = workers[v]
  BY <1>1, <1>4, WorkerMoves DEF TypeOK, Worker
<1>6. TypeOK'
  BY <1>1, <1>3, <1>5 DEF TypeOK
<1> QED
  BY <1>1, <1>2, <1>3, <1>4, <1>5, <1>6

LEMMA TouchTypes ==
    ASSUME TypeOK, NEW w \in Workers, Touch(w)
    PROVE  /\ TypeOK'
           /\ UNCHANGED <<users, reverted>>
           /\ \A t \in Tokens : \/ sessions'[t] = sessions[t]
                                \/ sessions[t] \in Live /\ sessions'[t] = Touched(sessions[t])
           /\ workers'[w].kind = "request" /\ workers'[w].token = workers[w].token
           /\ workers'[w].user = workers[w].user /\ workers[w].kind = "request"
           /\ \A v \in Workers \ {w} : workers'[v] = workers[v]
<1> DEFINE t == workers[w].token
<1>1. /\ At(w, "request", "found") /\ Goes(w, "in")
      /\ \/ sessions' = IF IsLive(t) THEN [sessions EXCEPT ![t] = Touched(sessions[t])] ELSE sessions
         \/ sessions' = sessions
      /\ UNCHANGED <<config, users, states, exchanged, keys, cache, now, reverted, revocations, restarts>>
  BY DEF Touch, provider, bounds
<1>2. t \in Tokens => (IsLive(t) <=> sessions[t] \in Live)
  BY LiveType
<1>3. \A s \in Live : Touched(s) \in Live
  BY TouchedType
<1>4. /\ sessions' \in [Tokens -> Live \cup {Unused, Gone}]
      /\ \A x \in Tokens : \/ sessions'[x] = sessions[x]
                           \/ sessions[x] \in Live /\ sessions'[x] = Touched(sessions[x])
  <2>1. CASE IsLive(t) /\ sessions' = [sessions EXCEPT ![t] = Touched(sessions[t])]
    BY <1>2, <1>3, <2>1 DEF TypeOK
  <2>2. CASE sessions' = sessions
    BY <2>2 DEF TypeOK
  <2> QED
    BY <1>1, <2>1, <2>2
<1>5. /\ workers' \in [Workers -> Worker]
      /\ workers'[w].kind = "request" /\ workers'[w].token = t
      /\ workers'[w].user = workers[w].user
      /\ \A v \in Workers \ {w} : workers'[v] = workers[v]
  BY <1>1, RequestGoes
<1>6. TypeOK'
  BY <1>1, <1>4, <1>5 DEF TypeOK
<1> QED
  BY <1>1, <1>4, <1>5, <1>6 DEF At


LEMMA RevokesType ==
    ASSUME TypeOK, NEW w \in Workers, NEW u \in Users, NEW row \in Row,
           NEW kept \in Tokens \cup {0}, Revokes(w, u, row, kept)
    PROVE  /\ TypeOK'
           /\ UNCHANGED <<users, sessions, reverted>>
           /\ RowIsFree(u)
           /\ workers'[w] = [kind |-> "revoke", user |-> u, row |-> row, kept |-> kept,
                             pending |-> SessionsOf(u) \ {kept}]
           /\ \A v \in Workers \ {w} : workers'[v] = workers[v]
<1> DEFINE rec == [kind |-> "revoke", user |-> u, row |-> row, kept |-> kept,
                   pending |-> SessionsOf(u) \ {kept}]
<1>1. /\ RowIsFree(u) /\ workers' = [workers EXCEPT ![w] = rec]
      /\ revocations < MaxRevocations /\ revocations' = revocations + 1
      /\ UNCHANGED <<config, users, sessions, states, exchanged, keys, cache, now, reverted, restarts>>
  BY DEF Revokes, Becomes, provider, bounds
<1>2. rec \in Revoking
  BY DEF Revoking, SessionsOf
<1>3. revocations' \in 0..MaxRevocations
  BY <1>1, ConstantsAssumption DEF TypeOK
<1>4. rec \in Worker
  BY <1>2 DEF Worker
<1> HIDE DEF rec
<1>5. /\ workers' \in [Workers -> Worker] /\ workers'[w] = rec
      /\ \A v \in Workers \ {w} : workers'[v] = workers[v]
  BY <1>1, <1>4, WorkerMoves DEF TypeOK
<1>6. TypeOK'
  BY <1>1, <1>3, <1>5 DEF TypeOK
<1> QED
  BY <1>1, <1>5, <1>6 DEF rec

\* A change of password, a reset and a deactivation are such revocations.
LEMMA RevocationsRevoke ==
    ASSUME TypeOK, NEW w \in Workers,
           \/ \E pw \in Passwords : ChangePassword(w, pw)
           \/ \E u \in Users, pw \in Passwords : ResetPassword(w, u, pw)
           \/ \E u \in Users : Deactivate(w, u)
    PROVE  \E u \in Users, row \in Row, kept \in Tokens \cup {0} :
                /\ Revokes(w, u, row, kept)
                /\ row.there = users[u].there
                /\ \/ workers[w].kind = "request" /\ u = workers[w].user /\ kept = workers[w].token
                                                  /\ row.active = users[u].active
                   \/ users[u].there /\ kept = 0
<1>1. users \in [Users -> Row]
  BY DEF TypeOK
<1>2. ASSUME NEW pw \in Passwords, ChangePassword(w, pw)
      PROVE  LET u == workers[w].user
                 row == [users[u] EXCEPT !.pw = pw, !.old = FALSE]
             IN  /\ u \in Users /\ row \in Row /\ workers[w].token \in Tokens \cup {0}
                 /\ Revokes(w, u, row, workers[w].token)
                 /\ row.there = users[u].there /\ row.active = users[u].active
                 /\ workers[w].kind = "request"
  <2>1. /\ workers[w].kind = "request"
        /\ Revokes(w, workers[w].user, [users[workers[w].user] EXCEPT !.pw = pw, !.old = FALSE],
                   workers[w].token)
    BY <1>2 DEF ChangePassword
  <2>2. workers[w].user \in Users /\ workers[w].token \in Tokens \cup {0}
    BY <2>1, WorkerFields, RecordFields
  <2> QED
    BY <1>1, <2>1, <2>2, PasswordRow
<1>3. ASSUME NEW u \in Users, NEW pw \in Passwords, ResetPassword(w, u, pw)
      PROVE  LET row == [users[u] EXCEPT !.pw = pw, !.old = FALSE]
             IN  row \in Row /\ row.there = users[u].there /\ users[u].there /\ Revokes(w, u, row, 0)
  BY <1>1, <1>3, PasswordRow DEF ResetPassword
<1>4. ASSUME NEW u \in Users, Deactivate(w, u)
      PROVE  LET row == [users[u] EXCEPT !.active = FALSE]
             IN  row \in Row /\ row.there = users[u].there /\ users[u].there /\ Revokes(w, u, row, 0)
  BY <1>1, <1>4, ActiveRow DEF Deactivate
<1> QED
  BY <1>2, <1>3, <1>4

LEMMA ReactivateType ==
    ASSUME TypeOK, NEW w \in Workers, NEW u \in Users, Reactivate(w, u)
    PROVE  /\ TypeOK'
           /\ UNCHANGED <<sessions, reverted>>
           /\ RowIsFree(u) /\ users[u].there
           /\ users'[u].there /\ users'[u].pw = users[u].pw /\ users'[u].active
           /\ \A x \in Users \ {u} : users'[x] = users[x]
           /\ workers'[w] = Idle
           /\ \A v \in Workers \ {w} : workers'[v] = workers[v]
<1> DEFINE row == [users[u] EXCEPT !.active = TRUE]
<1>1. /\ RowIsFree(u) /\ users[u].there /\ users' = [users EXCEPT ![u] = row] /\ Ends(w)
      /\ revocations < MaxRevocations /\ revocations' = revocations + 1
      /\ UNCHANGED <<config, sessions, states, exchanged, keys, cache, now, reverted, restarts>>
  BY DEF Reactivate, provider, bounds
<1>2. users \in [Users -> Row] /\ row \in Row /\ row.pw = users[u].pw
        /\ row.there = users[u].there /\ row.active = TRUE
  BY ActiveRow DEF TypeOK
<1>3. revocations' \in 0..MaxRevocations
  BY <1>1, ConstantsAssumption DEF TypeOK
<1> HIDE DEF row
<1>4. users' \in [Users -> Row] /\ users'[u] = row /\ \A x \in Users \ {u} : users'[x] = users[x]
  BY <1>1, <1>2
<1>5. /\ workers' \in [Workers -> Worker] /\ workers'[w] = Idle
      /\ \A v \in Workers \ {w} : workers'[v] = workers[v]
  BY <1>1, EndsType
<1>6. TypeOK'
  BY <1>1, <1>3, <1>4, <1>5 DEF TypeOK
<1> QED
  BY <1>1, <1>2, <1>4, <1>5, <1>6

LEMMA RevokeCommitsType ==
    ASSUME TypeOK, NEW w \in Workers, RevokeCommits(w)
    PROVE  /\ TypeOK'
           /\ workers[w] \in Revoking
           /\ users'[workers[w].user] = workers[w].row
           /\ \A x \in Users \ {workers[w].user} : users'[x] = users[x]
           /\ workers[w].row.pw = users[workers[w].user].pw => reverted' = reverted
           /\ reverted \ {workers[w].user} \subseteq reverted'
           /\ \A t \in Tokens :
                \/ t \in workers[w].pending /\ sessions'[t] = Gone
                \/ /\ t \notin workers[w].pending /\ t = workers[w].kept /\ sessions[t] \in Live
                   /\ sessions'[t] = [sessions[t] EXCEPT !.pw = workers[w].row.pw]
                \/ /\ t \notin workers[w].pending /\ ~(t = workers[w].kept /\ sessions[t] \in Live)
                   /\ sessions'[t] = sessions[t]
           /\ workers'[w] = Idle
           /\ \A v \in Workers \ {w} : workers'[v] = workers[v]
<1> DEFINE r == workers[w]
<1>1. r \in Revoking /\ r.user \in Users /\ r.row \in Row /\ r.row.pw \in Passwords \cup {NoPassword}
  BY WorkerFields, RecordFields, RowFields DEF RevokeCommits
<1>2. /\ users' = [users EXCEPT ![r.user] = r.row]
      /\ reverted' = IF r.row.pw # users[r.user].pw THEN reverted \ {r.user} ELSE reverted
      /\ sessions' = [t \in Tokens |->
                IF t \in r.pending THEN Gone
                ELSE IF t = r.kept /\ IsLive(t) THEN [sessions[t] EXCEPT !.pw = r.row.pw]
                ELSE sessions[t]]
      /\ Ends(w)
      /\ UNCHANGED <<config, states, exchanged, keys, cache, now, revocations, restarts>>
  BY DEF RevokeCommits, provider, bounds
<1>3. users' \in [Users -> Row] /\ users'[r.user] = r.row /\ \A x \in Users \ {r.user} : users'[x] = users[x]
  BY <1>1, <1>2 DEF TypeOK
<1>4. /\ reverted' \subseteq Users
      /\ r.row.pw = users[r.user].pw => reverted' = reverted
      /\ reverted \ {r.user} \subseteq reverted'
  BY <1>2 DEF TypeOK
<1>5. \A s \in Live : [s EXCEPT !.pw = r.row.pw] \in Live
  <2>1. \A s \in Live, pw \in Passwords \cup {NoPassword} : [s EXCEPT !.pw = pw] \in Live
    BY DEF Live
  <2> QED
    BY <1>1, <2>1
<1>6. \A t \in Tokens :
                \/ t \in r.pending /\ sessions'[t] = Gone
                \/ /\ t \notin r.pending /\ t = r.kept /\ sessions[t] \in Live
                   /\ sessions'[t] = [sessions[t] EXCEPT !.pw = r.row.pw]
                \/ /\ t \notin r.pending /\ ~(t = r.kept /\ sessions[t] \in Live)
                   /\ sessions'[t] = sessions[t]
  BY <1>2, LiveType
<1>7. sessions' \in [Tokens -> Live \cup {Unused, Gone}]
  <2>1. ASSUME NEW t \in Tokens PROVE sessions'[t] \in Live \cup {Unused, Gone}
    <3>1. sessions[t] \in Live \cup {Unused, Gone}
      BY DEF TypeOK
    <3>2. CASE sessions'[t] = [sessions[t] EXCEPT !.pw = r.row.pw] /\ sessions[t] \in Live
      BY <1>5, <3>2
    <3> QED
      BY <1>6, <3>1, <3>2
  <2>2. sessions' = [t \in Tokens |-> sessions'[t]]
    BY <1>2
  <2> QED
    BY <2>1, <2>2
<1>8. /\ workers' \in [Workers -> Worker] /\ workers'[w] = Idle
      /\ \A v \in Workers \ {w} : workers'[v] = workers[v]
  BY <1>2, EndsType
<1>9. TypeOK'
  BY <1>2, <1>3, <1>4, <1>7, <1>8 DEF TypeOK
<1> QED
  BY <1>1, <1>3, <1>4, <1>6, <1>8, <1>9

LEMMA LogoutType ==
    ASSUME TypeOK, NEW t \in Tokens, Logout(t)
    PROVE  /\ TypeOK'
           /\ UNCHANGED <<users, reverted, workers>>
           /\ \A x \in Tokens : sessions'[x] = sessions[x] \/ sessions'[x] = Gone
<1>1. sessions' = [x \in Tokens |-> IF x \in {t} THEN Gone ELSE sessions[x]]
        /\ UNCHANGED <<config, users, states, exchanged, keys, cache, now, reverted, revocations,
                       restarts, workers>>
  BY DEF Logout, Without, provider, bounds
<1>2. sessions' \in [Tokens -> Live \cup {Unused, Gone}]
        /\ \A x \in Tokens : sessions'[x] = sessions[x] \/ sessions'[x] = Gone
  BY <1>1 DEF TypeOK
<1> QED
  BY <1>1, <1>2 DEF TypeOK

\* What happens without a request of the backend, or ends all of them.
LEMMA AroundType ==
    ASSUME TypeOK,
           (\E s \in States : StartSso(s) \/ StateAges(s)) \/ RotateKeys \/ Tick
    PROVE  TypeOK' /\ UNCHANGED <<users, sessions, reverted, workers>>
<1>1. ASSUME NEW s \in States, StartSso(s) \/ StateAges(s)
      PROVE  TypeOK' /\ UNCHANGED <<users, sessions, reverted, workers>>
  <2>1. states' \in [States -> {"unused", "fresh", "old", "spent"}]
    BY <1>1 DEF StartSso, StateAges, TypeOK
  <2>2. UNCHANGED <<config, users, sessions, exchanged, keys, cache, now, reverted, revocations,
                    restarts, workers>>
    BY <1>1 DEF StartSso, StateAges, bounds
  <2> QED
    BY <2>1, <2>2 DEF TypeOK
<1>2. ASSUME RotateKeys PROVE TypeOK' /\ UNCHANGED <<users, sessions, reverted, workers>>
  <2>1. keys' \in [version : 0..MaxKeys, since : 0..MaxTime]
    BY <1>2, ConstantsAssumption DEF RotateKeys, TypeOK
  <2>2. UNCHANGED <<config, users, sessions, states, exchanged, cache, now, reverted, revocations,
                    restarts, workers>>
    BY <1>2 DEF RotateKeys, bounds
  <2> QED
    BY <2>1, <2>2 DEF TypeOK
<1>3. ASSUME Tick PROVE TypeOK' /\ UNCHANGED <<users, sessions, reverted, workers>>
  <2>1. now' \in 0..MaxTime
    BY <1>3, ConstantsAssumption DEF Tick, TypeOK
  <2>2. UNCHANGED <<config, users, sessions, states, exchanged, keys, cache, reverted, revocations,
                    restarts, workers>>
    BY <1>3 DEF Tick, provider
  <2> QED
    BY <2>1, <2>2 DEF TypeOK
<1> QED
  BY <1>1, <1>2, <1>3

LEMMA RestartType ==
    ASSUME TypeOK, Restart
    PROVE  /\ TypeOK'
           /\ UNCHANGED <<sessions, reverted>>
           /\ \A u \in Users : users'[u] = users[u] \/ (~users[u].there /\ users'[u] = NewUser(TRUE))
           /\ \A w \in Workers : workers'[w] = Idle
<1>1. PICK ok \in BOOLEAN : users' = Seeded(users, ok)
  BY DEF Restart
<1>2. /\ users' \in [Users -> Row]
      /\ \A u \in Users : users'[u] = users[u] \/ (~users[u].there /\ users'[u] = NewUser(TRUE))
  BY <1>1, SeededType DEF TypeOK
<1>3. cache' \in [full : BOOLEAN, version : 0..MaxKeys, at : 0..MaxTime, drawn : 0..MaxTime]
  BY ConstantsAssumption DEF Restart, NoCache
<1>4. workers' \in [Workers -> Worker] /\ \A w \in Workers : workers'[w] = Idle
  BY DEF Restart, Worker
<1>5. restarts' \in 0..MaxRestarts
  BY ConstantsAssumption DEF Restart, TypeOK
<1>6. UNCHANGED <<config, now, sessions, states, exchanged, keys, reverted, revocations>>
  BY DEF Restart
<1> QED
  BY <1>2, <1>3, <1>4, <1>5, <1>6 DEF TypeOK

LEMMA RequestEndsType ==
    ASSUME TypeOK, NEW w \in Workers, RequestEnds(w)
    PROVE  /\ TypeOK'
           /\ UNCHANGED <<users, sessions, reverted>>
           /\ workers'[w] = Idle
           /\ \A v \in Workers \ {w} : workers'[v] = workers[v]
<1>1. Ends(w) /\ UNCHANGED <<config, users, sessions, states, exchanged, keys, cache, now, reverted,
                             revocations, restarts>>
  BY DEF RequestEnds, provider, bounds
<1>2. /\ workers' \in [Workers -> Worker] /\ workers'[w] = Idle
      /\ \A v \in Workers \ {w} : workers'[v] = workers[v]
  BY <1>1, EndsType
<1> QED
  BY <1>1, <1>2 DEF TypeOK

LEMMA InitType == Init => TypeOK
<1> SUFFICES ASSUME Init PROVE TypeOK
  OBVIOUS
<1> DEFINE table == [u \in Users |->
                        IF u = FirstUser
                        THEN [NewUser(TRUE) EXCEPT !.pw = FirstPassword, !.old = "rehash" \in config]
                        ELSE Absent]
<1>1. users = Seeded(table, "unseeded" \notin config) /\ ("unseeded" \notin config) \in BOOLEAN
  BY DEF Init
<1>2. table \in [Users -> Row]
  <2>1. Absent \in Row
    BY DEF Absent, Row
  <2>2. [NewUser(TRUE) EXCEPT !.pw = FirstPassword, !.old = "rehash" \in config] \in Row
    <3> DEFINE old == "rehash" \in config
    <3>1. old \in BOOLEAN
      OBVIOUS
    <3> HIDE DEF old
    <3>2. [[NewUser(TRUE) EXCEPT !.pw = FirstPassword] EXCEPT !.old = old] \in Row
      BY <3>1, NewUserRow, ConstantsAssumption DEF Row
    <3> QED
      BY <3>2 DEF old
  <2> QED
    BY <2>1, <2>2
<1>3. users \in [Users -> Row]
  BY <1>1, <1>2, SeededType
<1>4. keys \in [version : 0..MaxKeys, since : 0..MaxTime]
  BY ConstantsAssumption DEF Init
<1>5. cache \in [full : BOOLEAN, version : 0..MaxKeys, at : 0..MaxTime, drawn : 0..MaxTime]
  <2> DEFINE full == "oidc" \in config
  <2>1. full \in BOOLEAN
    OBVIOUS
  <2>2. cache = NoCache \/ cache = [full |-> full, version |-> 0, at |-> 0, drawn |-> 0]
    BY DEF Init, NoCache
  <2>3. 0 \in 0..MaxKeys /\ 0 \in 0..MaxTime
    BY ConstantsAssumption
  <2> HIDE DEF full
  <2>4. \A b \in BOOLEAN : [full |-> b, version |-> 0, at |-> 0, drawn |-> 0]
             \in [full : BOOLEAN, version : 0..MaxKeys, at : 0..MaxTime, drawn : 0..MaxTime]
    BY <2>3
  <2>5. NoCache = [full |-> FALSE, version |-> 0, at |-> 0, drawn |-> 0]
    BY DEF NoCache
  <2> QED
    BY ONLY <2>1, <2>2, <2>4, <2>5, Zenon
<1>6. now \in 0..MaxTime /\ revocations \in 0..MaxRevocations /\ restarts \in 0..MaxRestarts
  BY ConstantsAssumption DEF Init
<1>7. workers \in [Workers -> Worker] /\ sessions \in [Tokens -> Live \cup {Unused, Gone}]
        /\ states \in [States -> {"unused", "fresh", "old", "spent"}]
  BY DEF Init, Worker
<1>8. config \in Configs /\ exchanged \subseteq States /\ reverted \subseteq Users
  BY DEF Init
<1> QED
  BY <1>3, <1>4, <1>5, <1>6, <1>7, <1>8 DEF TypeOK

-----------------------------------------------------------------------------
(* Type correctness.                                                       *)

LEMMA TypeStep == TypeOK /\ [Next]_vars => TypeOK'
<1> SUFFICES ASSUME TypeOK, [Next]_vars PROVE TypeOK'
  OBVIOUS
<1>1. ASSUME NEW w \in Workers, Login(w) PROVE TypeOK'
  BY <1>1, LoginReadsType, LoginCommitsType, BreakGlassCommitsType, UpsertCommitsType,
     OpensSessionType DEF Login
<1>2. ASSUME NEW w \in Workers, SsoStep(w) PROVE TypeOK'
  BY <1>2, SsoStepType
<1>3. ASSUME NEW w \in Workers, RequestStep(w) PROVE TypeOK'
  <2>1. CASE \/ \E pw \in Passwords : ChangePassword(w, pw)
             \/ \E u \in Users, pw \in Passwords : ResetPassword(w, u, pw)
             \/ \E u \in Users : Deactivate(w, u)
    BY <2>1, RevocationsRevoke, RevokesType
  <2>2. CASE \E u \in Users : Reactivate(w, u)
    BY <2>2, ReactivateType
  <2>3. CASE \E t \in Tokens : Authenticates(w, t)
    BY <2>3, AuthenticatesType
  <2>4. CASE AuthenticatesByBypass(w) \/ Touch(w) \/ RequestEnds(w) \/ RevokeCommits(w)
    BY <2>4, BypassType, TouchTypes, RequestEndsType, RevokeCommitsType
  <2> QED
    BY <1>3, <2>1, <2>2, <2>3, <2>4 DEF RequestStep
<1>4. ASSUME NEW t \in Tokens, Logout(t) PROVE TypeOK'
  BY <1>4, LogoutType
<1>5. CASE (\E s \in States : StartSso(s) \/ StateAges(s)) \/ RotateKeys \/ Tick
  BY <1>5, AroundType
<1>6. CASE Restart
  BY <1>6, RestartType
<1>7. CASE UNCHANGED vars
  BY <1>7 DEF TypeOK, vars
<1> QED
  BY <1>1, <1>2, <1>3, <1>4, <1>5, <1>6, <1>7 DEF Next

\* Every variable of the logins keeps its type: a request in flight has the fields
\* of what it does, and a session row those its login gave it.
THEOREM TypeCorrect == Spec => []TypeOK
<1> QED
  BY InitType, TypeStep, PTL DEF Spec

-----------------------------------------------------------------------------
(* The sessions.                                                           *)

\* What a step may do to a session row.
SessionMoves(t) ==
    \/ sessions'[t] = sessions[t]
    \/ sessions'[t] = Gone
    \/ sessions[t] \in Live /\ sessions'[t] = Touched(sessions[t])
    \/ /\ sessions[t] \in Live
       /\ \E pw \in Passwords \cup {NoPassword} : sessions'[t] = [sessions[t] EXCEPT !.pw = pw]
    \/ /\ sessions[t] = Unused
       /\ \E u \in Users, typed \in Passwords \cup {NoPassword}, via \in Vias :
                sessions'[t] = NewSession(u, typed, via)

LEMMA SessionsMove ==
    ASSUME TypeOK, [Next]_vars, NEW t \in Tokens
    PROVE  SessionMoves(t)
<1>1. ASSUME NEW w \in Workers, Login(w) PROVE SessionMoves(t)
  <2>1. CASE \E x \in Tokens : OpensSession(w, x)
    BY <2>1, OpensSessionType DEF SessionMoves
  <2>2. CASE sessions' = sessions
    BY <2>2 DEF SessionMoves
  <2> QED
    BY <1>1, <2>1, <2>2 DEF Login, LoginReads, LoginCommits, BreakGlassCommits, UpsertCommits
<1>2. ASSUME NEW w \in Workers, RequestStep(w) PROVE SessionMoves(t)
  <2>1. CASE Touch(w)
    BY <2>1, TouchTypes DEF SessionMoves
  <2>2. CASE RevokeCommits(w)
    <3>1. workers[w].row.pw \in Passwords \cup {NoPassword}
      BY <2>2, RevokeCommitsType, RecordFields, RowFields
    <3> QED
      BY <2>2, <3>1, RevokeCommitsType DEF SessionMoves
  <2>3. CASE sessions' = sessions
    BY <2>3 DEF SessionMoves
  <2> QED
    BY <1>2, <2>1, <2>2, <2>3 DEF RequestStep, Authenticates, AuthenticatesByBypass, RequestEnds,
       ChangePassword, ResetPassword, Deactivate, Reactivate, Revokes
<1>3. ASSUME NEW x \in Tokens, Logout(x) PROVE SessionMoves(t)
  BY <1>3, LogoutType DEF SessionMoves
<1>4. CASE \/ \E w \in Workers : SsoStep(w)
           \/ \E s \in States : StartSso(s) \/ StateAges(s)
           \/ RotateKeys \/ Tick
  BY <1>4, SsoStepType, AroundType DEF SessionMoves
<1>5. CASE Restart \/ UNCHANGED vars
  BY <1>5 DEF Restart, vars, SessionMoves
<1> QED
  BY <1>1, <1>2, <1>3, <1>4, <1>5 DEF Next

\* A session that a logout or a revocation deleted is not written again, whatever
\* copy of its row a request in flight holds.
THEOREM RevokedSessionsStayOut == Spec => RevokedStayOut
<1>1. TypeOK /\ [Next]_vars => [\A t \in Tokens : sessions[t] = Gone => sessions'[t] = Gone]_sessions
  <2> SUFFICES ASSUME TypeOK, [Next]_vars, NEW t \in Tokens, sessions[t] = Gone
               PROVE  sessions'[t] = Gone
    OBVIOUS
  <2>1. Gone \notin Live /\ Gone # Unused
    BY DEF Gone, Unused, Live
  <2> QED
    BY <2>1, SessionsMove DEF SessionMoves
<1> QED
  BY <1>1, TypeCorrect, PTL DEF Spec, RevokedStayOut

\* A session expires TTL after it was last bumped, and was last used within
\* Throttle of that.
SessionsAreBumped ==
    \A t \in Tokens : sessions[t] \in Live =>
        /\ sessions[t].expires = sessions[t].seen + TTL
        /\ sessions[t].used < sessions[t].seen + Throttle

LEMMA BumpedStep ==
    ASSUME TypeOK, SessionsAreBumped, [Next]_vars
    PROVE  SessionsAreBumped'
<1> SUFFICES ASSUME NEW t \in Tokens, sessions'[t] \in Live
             PROVE  /\ sessions'[t].expires = sessions'[t].seen + TTL
                    /\ sessions'[t].used < sessions'[t].seen + Throttle
  BY DEF SessionsAreBumped
<1>1. SessionMoves(t)
  BY SessionsMove
<1>2. now \in Nat /\ TTL \in Nat /\ Throttle \in Nat \ {0} /\ Gone \notin Live
  BY ConstantsAssumption DEF TypeOK, Gone, Live
<1>3. CASE sessions'[t] = sessions[t]
  BY <1>3 DEF SessionsAreBumped
<1>4. CASE sessions[t] \in Live /\ sessions'[t] = Touched(sessions[t])
  <2> DEFINE s == sessions[t]
  <2>1. /\ Touched(s).used = now
        /\ \/ now - s.seen < Throttle /\ Touched(s).seen = s.seen /\ Touched(s).expires = s.expires
           \/ Touched(s).seen = now /\ Touched(s).expires = now + TTL
    BY <1>4, TouchedType
  <2>2. s.expires = s.seen + TTL /\ s.seen \in Nat
    BY <1>4 DEF SessionsAreBumped, Live
  <2> QED
    BY <1>2, <1>4, <2>1, <2>2
<1>5. CASE /\ sessions[t] \in Live
           /\ \E pw \in Passwords \cup {NoPassword} : sessions'[t] = [sessions[t] EXCEPT !.pw = pw]
  <2>1. /\ sessions'[t].expires = sessions[t].expires /\ sessions'[t].seen = sessions[t].seen
        /\ sessions'[t].used = sessions[t].used
    BY <1>5 DEF Live
  <2> QED
    BY <1>5, <2>1 DEF SessionsAreBumped
<1>6. CASE \E u \in Users, typed \in Passwords \cup {NoPassword}, via \in Vias :
                sessions'[t] = NewSession(u, typed, via)
  BY <1>2, <1>6, NewSessionType
<1> QED
  BY <1>1, <1>2, <1>3, <1>4, <1>5, <1>6 DEF SessionMoves

\* Throttling the bump costs a session at most Throttle of its window.
THEOREM SessionsLast == Spec => []UsedSessionsLast
<1>1. Init => SessionsAreBumped
  <2>1. Unused \notin Live
    BY DEF Unused, Live
  <2> QED
    BY <2>1 DEF Init, SessionsAreBumped
<1>2. TypeOK /\ SessionsAreBumped /\ [Next]_vars => SessionsAreBumped'
  BY BumpedStep
<1>3. TypeOK /\ SessionsAreBumped => UsedSessionsLast
  <2> SUFFICES ASSUME TypeOK, SessionsAreBumped, NEW t \in Tokens, IsLive(t)
               PROVE  sessions[t].expires > sessions[t].used + TTL - Throttle
    BY DEF UsedSessionsLast
  <2>1. sessions[t] \in Live
    BY LiveType
  <2>2. sessions[t].seen \in Nat /\ sessions[t].used \in Nat /\ TTL \in Nat /\ Throttle \in Nat
    BY <2>1, ConstantsAssumption DEF Live
  <2> QED
    BY <2>1, <2>2 DEF SessionsAreBumped
<1> QED
  BY <1>1, <1>2, <1>3, TypeCorrect, PTL DEF Spec

-----------------------------------------------------------------------------
(* The callback: its state and its keys.                                   *)

\* A step which is none of the callback's leaves every callback where it is.
LEMMA OnlyTheCallback ==
    ASSUME TypeOK, [Next]_vars, \A v \in Workers : ~SsoStep(v)
    PROVE  /\ \A w \in Workers : \/ workers'[w] = workers[w]
                                 \/ workers'[w].kind # "callback"
           /\ \A s \in States : states[s] = "spent" => states'[s] = "spent"
           /\ exchanged' = exchanged
           /\ (keys' = keys /\ now' = now /\ cache' \in {cache, NoCache})
                \/ RotateKeys \/ Tick
<1> DEFINE Still(w) == workers'[w] = workers[w] \/ workers'[w].kind # "callback"
<1>1. Idle.kind # "callback"
  BY DEF Idle
<1>2. ASSUME NEW w \in Workers, Login(w)
      PROVE  (\A v \in Workers : Still(v)) /\ UNCHANGED <<states, exchanged, keys, cache, now>>
  <2>1. UNCHANGED <<states, exchanged, keys, cache, now>>
    BY <1>2 DEF Login, LoginReads, LoginCommits, BreakGlassCommits, UpsertCommits, OpensSession,
       provider, bounds
  <2>2. CASE \E u \in Users, typed \in Passwords \cup {EnvPassword} : LoginReads(w, u, typed)
    <3>1. workers'[w].kind = "login" /\ \A v \in Workers \ {w} : workers'[v] = workers[v]
      BY <2>2, LoginReadsType
    <3> QED
      BY <2>1, <3>1
  <2>3. CASE LoginCommits(w) \/ BreakGlassCommits(w) \/ UpsertCommits(w) \/ \E t \in Tokens : OpensSession(w, t)
    <3>1. /\ workers[w].kind = "login"
          /\ Goes(w, "stamped") \/ Ends(w)
      BY <2>3 DEF LoginCommits, BreakGlassCommits, UpsertCommits, OpensSession, At
    <3> QED
      BY <1>1, <2>1, <3>1, LoginGoes, EndsType
  <2> QED
    BY <1>2, <2>2, <2>3 DEF Login
<1>3. ASSUME NEW w \in Workers, RequestStep(w)
      PROVE  (\A v \in Workers : Still(v)) /\ UNCHANGED <<states, exchanged, keys, cache, now>>
  <2>1. UNCHANGED <<states, exchanged, keys, cache, now>>
    BY <1>3 DEF RequestStep, Authenticates, AuthenticatesByBypass, Touch, RequestEnds,
       ChangePassword, ResetPassword, Deactivate, Reactivate, Revokes, RevokeCommits, provider, bounds
  <2>2. CASE \/ \E pw \in Passwords : ChangePassword(w, pw)
             \/ \E u \in Users, pw \in Passwords : ResetPassword(w, u, pw)
             \/ \E u \in Users : Deactivate(w, u)
    <3>1. PICK u \in Users, row \in Row, kept \in Tokens \cup {0} : Revokes(w, u, row, kept)
      BY <2>2, RevocationsRevoke
    <3>2. /\ workers'[w] = [kind |-> "revoke", user |-> u, row |-> row, kept |-> kept,
                             pending |-> SessionsOf(u) \ {kept}]
          /\ \A v \in Workers \ {w} : workers'[v] = workers[v]
      BY <3>1, RevokesType
    <3>3. workers'[w].kind = "revoke"
      BY <3>2
    <3> QED
      BY <2>1, <3>2, <3>3
  <2>3. CASE \E u \in Users : Reactivate(w, u)
    BY <1>1, <2>1, <2>3, ReactivateType
  <2>4. CASE \E t \in Tokens : Authenticates(w, t)
    <3>1. workers'[w].kind = "request" /\ \A v \in Workers \ {w} : workers'[v] = workers[v]
      BY <2>4, AuthenticatesType
    <3> QED
      BY <2>1, <3>1
  <2>5. CASE AuthenticatesByBypass(w) \/ Touch(w)
    <3>1. workers'[w].kind = "request" /\ \A v \in Workers \ {w} : workers'[v] = workers[v]
      BY <2>5, BypassType, TouchTypes
    <3> QED
      BY <2>1, <3>1
  <2>6. CASE RequestEnds(w) \/ RevokeCommits(w)
    BY <1>1, <2>1, <2>6, RequestEndsType, RevokeCommitsType
  <2> QED
    BY <1>3, <2>2, <2>3, <2>4, <2>5, <2>6 DEF RequestStep
<1>4. ASSUME NEW s \in States, StartSso(s) \/ StateAges(s)
      PROVE  /\ UNCHANGED <<workers, exchanged, keys, cache, now>>
             /\ \A x \in States : states[x] = "spent" => states'[x] = "spent"
  <2>1. states \in [States -> {"unused", "fresh", "old", "spent"}]
    BY DEF TypeOK
  <2> QED
    BY <1>4, <2>1 DEF StartSso, StateAges, bounds
<1>5. ASSUME NEW t \in Tokens, Logout(t) PROVE UNCHANGED <<workers, states, exchanged, keys, cache, now>>
  BY <1>5 DEF Logout, provider, bounds
<1>6. RotateKeys \/ Tick => UNCHANGED <<workers, states, exchanged>>
  BY DEF RotateKeys, Tick, provider
<1>7. CASE Restart
  <2>1. UNCHANGED <<states, exchanged, keys, now>> /\ cache' = NoCache
          /\ \A w \in Workers : workers'[w] = Idle
    BY <1>7 DEF Restart
  <2> QED
    BY <1>1, <2>1
<1>8. CASE UNCHANGED vars
  BY <1>8 DEF vars
<1> QED
  BY <1>2, <1>3, <1>4, <1>5, <1>6, <1>7, <1>8 DEF Next

\* What the steps of a callback do to the states, the codes and the keys.
LEMMA CallbackMoves ==
    ASSUME TypeOK, NEW w \in Workers, SsoStep(w)
    PROVE  /\ keys' = keys /\ now' = now
           /\ \A v \in Workers \ {w} : workers'[v] = workers[v]
           /\ \A s \in States : states[s] = "spent" => states'[s] = "spent"
           /\ \/ /\ workers' = workers \/ workers'[w].kind # "callback"
                 /\ cache' = cache
                 /\ exchanged' = exchanged
                        \/ (At(w, "callback", "exchanging") /\ exchanged' = exchanged \cup {workers[w].state})
              \/ /\ exchanged' = exchanged /\ cache' = cache
                 /\ workers'[w].kind = "callback" /\ workers'[w].pc = "holding"
                 /\ workers'[w].state \in States /\ states[workers'[w].state] = "fresh"
              \/ /\ exchanged' = exchanged /\ cache' = cache
                 /\ workers'[w].kind = "callback" /\ workers'[w].pc = "exchanging"
                 /\ workers'[w].state \in States /\ states'[workers'[w].state] = "spent"
              \/ /\ cache' = cache /\ At(w, "callback", "exchanging")
                 /\ exchanged' = exchanged \cup {workers[w].state}
                 /\ workers'[w].kind = "callback" /\ workers'[w].pc = "signed"
                 /\ workers'[w].signed = keys.version
              \/ /\ exchanged' = exchanged /\ FetchMoves(w)
                 /\ workers'[w].kind = "callback"
                 /\ workers'[w].pc \in {"fetching", "answered", "decoding"}
<1>1. /\ keys' = keys /\ now' = now
      /\ \A v \in Workers \ {w} : workers'[v] = workers[v]
  BY SsoStepType DEF SsoStep, CallbackReads, CallbackSpends, CallbackExchanges,
     CallbackChecksCache, ProviderAnswers, CallbackStoresKeys, CallbackDecodes, provider, bounds
<1>2. /\ workers \in [Workers -> Worker]
      /\ states \in [States -> {"unused", "fresh", "old", "spent"}]
      /\ Idle.kind # "callback"
  BY DEF TypeOK, Idle
<1>3. ASSUME NEW s \in States, CallbackReads(w, s)
      PROVE  /\ exchanged' = exchanged /\ cache' = cache
             /\ \A x \in States : states[x] = "spent" => states'[x] = "spent"
             /\ \/ workers' = workers
                \/ /\ workers'[w].kind = "callback" /\ workers'[w].pc = "holding"
                   /\ workers'[w].state = s /\ states[s] = "fresh"
  BY <1>2, <1>3 DEF CallbackReads, Becomes, provider
<1>4. ASSUME CallbackSpends(w)
      PROVE  /\ exchanged' = exchanged /\ cache' = cache
             /\ \A x \in States : states[x] = "spent" => states'[x] = "spent"
             /\ workers'[w].kind = "callback" /\ workers'[w].pc = "exchanging"
             /\ workers'[w].state \in States /\ states'[workers'[w].state] = "spent"
  <2>1. At(w, "callback", "holding") /\ Goes(w, "exchanging")
          /\ states' = [states EXCEPT ![workers[w].state] = "spent"]
          /\ exchanged' = exchanged /\ cache' = cache
    BY <1>4 DEF CallbackSpends
  <2>2. workers[w].state \in States
    BY <2>1, WorkerFields, RecordFields DEF At
  <2> QED
    BY <1>2, <2>1, <2>2, CallbackGoes
<1>5. ASSUME CallbackExchanges(w)
      PROVE  /\ states' = states /\ cache' = cache /\ At(w, "callback", "exchanging")
             /\ exchanged' = exchanged \cup {workers[w].state}
             /\ \/ workers'[w].kind # "callback"
                \/ /\ workers'[w].kind = "callback" /\ workers'[w].pc = "signed"
                   /\ workers'[w].signed = keys.version
  <2>1. /\ states' = states /\ cache' = cache /\ At(w, "callback", "exchanging")
        /\ exchanged' = exchanged \cup {workers[w].state}
        /\ \/ Ends(w)
           \/ workers' = [workers EXCEPT ![w] = [kind |-> "callback", pc |-> "signed",
                                    state |-> workers[w].state, signed |-> keys.version, key |-> 0,
                                    drawn |-> 0]]
    BY <1>5 DEF CallbackExchanges, Becomes
  <2> QED
    BY <1>2, <2>1, EndsType
<1>6. ASSUME Fetches(w)
      PROVE  /\ states' = states /\ exchanged' = exchanged /\ FetchMoves(w)
             /\ \/ workers'[w] = Idle /\ cache' = cache
                \/ /\ workers'[w].kind = "callback"
                   /\ workers'[w].pc \in {"fetching", "answered", "decoding"}
  <2>1. states' = states /\ exchanged' = exchanged
    BY <1>6 DEF Fetches, CallbackChecksCache, ProviderAnswers, CallbackStoresKeys, provider
  <2>2. FetchMoves(w)
    BY <1>6, FetchGoes
  <2> QED
    BY <2>1, <2>2 DEF FetchMoves
<1>7. ASSUME NEW u \in Sso, CallbackDecodes(w, u)
      PROVE  /\ states' = states /\ exchanged' = exchanged /\ cache' = cache
             /\ workers'[w].kind # "callback"
  <2>1. /\ states' = states /\ exchanged' = exchanged /\ cache' = cache
        /\ \/ Ends(w)
           \/ workers' = [workers EXCEPT ![w] = [kind |-> "login", pc |-> "upsert", user |-> u,
                                     seen |-> users[u], typed |-> NoPassword, via |-> "sso"]]
    BY <1>7 DEF CallbackDecodes, Becomes, provider
  <2> QED
    BY <1>2, <2>1, EndsType
<1>8. \/ \E s \in States : CallbackReads(w, s)
      \/ CallbackSpends(w) \/ CallbackExchanges(w) \/ Fetches(w)
      \/ \E u \in Sso : CallbackDecodes(w, u)
  BY DEF SsoStep, Fetches
<1>9. CASE \E s \in States : CallbackReads(w, s)
  BY <1>1, <1>3, <1>9
<1>10. CASE CallbackSpends(w)
  BY <1>1, <1>4, <1>10
<1>11. CASE CallbackExchanges(w)
  BY <1>1, <1>5, <1>11
<1>12. CASE Fetches(w)
  BY <1>1, <1>2, <1>6, <1>12
<1>13. CASE \E u \in Sso : CallbackDecodes(w, u)
  BY <1>1, <1>7, <1>13
<1> QED
  BY <1>8, <1>9, <1>10, <1>11, <1>12, <1>13

\* A code that was exchanged, or is about to be, has a spent state.
CodesAreSpent ==
    /\ \A s \in exchanged : states[s] = "spent"
    /\ \A w \in Workers : At(w, "callback", "exchanging") => states[workers[w].state] = "spent"

LEMMA SpentStep ==
    ASSUME TypeOK, CodesAreSpent, [Next]_vars
    PROVE  CodesAreSpent'
<1>1. CASE \A v \in Workers : ~SsoStep(v)
  <2>1. /\ \A w \in Workers : workers'[w] = workers[w] \/ workers'[w].kind # "callback"
        /\ \A s \in States : states[s] = "spent" => states'[s] = "spent"
        /\ exchanged' = exchanged
    BY <1>1, OnlyTheCallback
  <2>2. exchanged \subseteq States
    BY DEF TypeOK
  <2>3. ASSUME NEW w \in Workers, workers'[w].kind = "callback" /\ workers'[w].pc = "exchanging"
        PROVE  states'[workers'[w].state] = "spent"
    <3>1. workers'[w] = workers[w]
      BY <2>1, <2>3
    <3>2. workers[w].state \in States /\ states[workers[w].state] = "spent"
      BY <2>3, <3>1, WorkerFields, RecordFields DEF CodesAreSpent, At
    <3> QED
      BY <2>1, <3>1, <3>2
  <2> QED
    BY <2>1, <2>2, <2>3 DEF CodesAreSpent, At
<1>2. ASSUME NEW v \in Workers, SsoStep(v) PROVE CodesAreSpent'
  <2>1. /\ \A w \in Workers \ {v} : workers'[w] = workers[w]
        /\ \A s \in States : states[s] = "spent" => states'[s] = "spent"
    BY <1>2, CallbackMoves
  <2>2. exchanged' = exchanged
            \/ (At(v, "callback", "exchanging") /\ exchanged' = exchanged \cup {workers[v].state})
    BY <1>2, CallbackMoves
  <2>3. \/ workers'[v] = workers[v]
        \/ ~(workers'[v].kind = "callback" /\ workers'[v].pc = "exchanging")
        \/ states'[workers'[v].state] = "spent"
    BY <1>2, CallbackMoves
  <2>4. \A w \in Workers : At(w, "callback", "exchanging") =>
                workers[w].state \in States /\ states[workers[w].state] = "spent"
    BY WorkerFields, RecordFields DEF CodesAreSpent, At
  <2>5. \A s \in exchanged' : states'[s] = "spent"
    BY <1>2, <2>1, <2>2, <2>4 DEF CodesAreSpent, TypeOK
  <2>6. ASSUME NEW w \in Workers, workers'[w].kind = "callback" /\ workers'[w].pc = "exchanging"
        PROVE  states'[workers'[w].state] = "spent"
    <3>1. CASE workers'[w] = workers[w]
      BY <2>1, <2>4, <2>6, <3>1 DEF At
    <3> QED
      BY <2>1, <2>3, <2>6, <3>1
  <2> QED
    BY <2>5, <2>6 DEF CodesAreSpent, At
<1> QED
  BY <1>1, <1>2

\* An OIDC state works once: the callback that is let past it has a code nobody used.
THEOREM StatesWorkOnce == Spec => UsedStatesAreRefused
<1>1. Init => CodesAreSpent
  BY DEF Init, CodesAreSpent, At, Idle
<1>2. TypeOK /\ CodesAreSpent /\ [Next]_vars => CodesAreSpent'
  BY SpentStep
<1>3. TypeOK /\ CodesAreSpent /\ [Next]_vars =>
        [\A w \in Workers : IsIdle(w) /\ (At(w, "callback", "holding"))' =>
                workers'[w].state \notin exchanged]_vars
  <2> SUFFICES ASSUME TypeOK, CodesAreSpent, [Next]_vars, NEW w \in Workers, IsIdle(w),
                      workers'[w].kind = "callback" /\ workers'[w].pc = "holding"
               PROVE  workers'[w].state \notin exchanged
    BY DEF At
  <2>1. workers[w].kind # "callback" /\ workers'[w] # workers[w]
    BY DEF IsIdle, Idle
  <2>2. SsoStep(w)
    <3>1. PICK v \in Workers : SsoStep(v)
      BY <2>1, OnlyTheCallback
    <3> QED
      BY <2>1, <3>1, CallbackMoves
  <2>3. states[workers'[w].state] = "fresh"
    BY <2>1, <2>2, CallbackMoves DEF At
  <2> QED
    BY <2>3 DEF CodesAreSpent
<1> QED
  BY <1>1, <1>2, <1>3, TypeCorrect, PTL DEF Spec, UsedStatesAreRefused

\* A document that lacks the key of the moment was drawn up before it was rotated
\* in, and so was one that is still under way; a callback is answered with its key.
KeyArrives(w) ==
    /\ At(w, "callback", "signed") \/ At(w, "callback", "fetching") =>
            workers[w].signed <= keys.version
    /\ At(w, "callback", "answered") =>
            /\ workers[w].signed <= workers[w].key /\ workers[w].key <= keys.version
            /\ workers[w].drawn <= now
            /\ workers[w].key < keys.version => workers[w].drawn <= keys.since

CacheFollowsKeys ==
    /\ cache.at <= now /\ cache.drawn <= cache.at
    /\ cache.version < keys.version => cache.drawn <= keys.since
    /\ \A w \in Workers : KeyArrives(w)

LEMMA KeysStep ==
    ASSUME TypeOK, CacheFollowsKeys, [Next]_vars
    PROVE  CacheFollowsKeys'
<1>1. /\ cache.at \in Int /\ cache.drawn \in Int /\ cache.version \in Int /\ now \in Int
      /\ keys.version \in Int /\ keys.since \in Int
  BY DEF TypeOK
<1>2. \A w \in Workers : workers[w].kind = "callback" /\ workers[w].pc \in Fetching =>
            workers[w].signed \in Int /\ workers[w].key \in Int /\ workers[w].drawn \in Int
  BY WorkerFields, RecordFields
<1>3. /\ NoCache.at <= now /\ NoCache.drawn <= NoCache.at
      /\ NoCache.version < keys.version => NoCache.drawn <= keys.since
  BY DEF NoCache, TypeOK
<1>4. \/ keys' = keys /\ now' = now
      \/ /\ cache' = cache /\ now' = now /\ keys'.version = keys.version + 1 /\ keys'.since = now
      \/ cache' = cache /\ now' = now + 1 /\ keys' = keys
  <2>1. RotateKeys => /\ cache' = cache /\ now' = now
                      /\ keys'.version = keys.version + 1 /\ keys'.since = now
    BY DEF RotateKeys, bounds
  <2>2. Tick => cache' = cache /\ now' = now + 1 /\ keys' = keys
    BY DEF Tick, provider
  <2> QED
    BY <2>1, <2>2, OnlyTheCallback, CallbackMoves
<1>5. ASSUME NEW w \in Workers, workers'[w] = workers[w] \/ workers'[w].kind # "callback"
      PROVE  KeyArrives(w)'
  <2>1. CASE workers'[w].kind # "callback"
    BY <2>1 DEF KeyArrives, At
  <2>2. CASE workers'[w] = workers[w]
    <3>1. KeyArrives(w)
      BY DEF CacheFollowsKeys
    <3>2. CASE At(w, "callback", "signed") \/ At(w, "callback", "fetching")
      <4>1. workers[w].signed \in Int /\ workers[w].signed <= keys.version
        BY <1>2, <3>1, <3>2 DEF KeyArrives, At, Fetching
      <4>2. workers[w].signed <= keys'.version
        BY <1>1, <1>4, <4>1
      <4> QED
        BY <2>2, <3>2, <4>2 DEF KeyArrives, At
    <3>3. CASE At(w, "callback", "answered")
      <4>1. /\ workers[w].signed \in Int /\ workers[w].key \in Int /\ workers[w].drawn \in Int
            /\ workers[w].signed <= workers[w].key /\ workers[w].key <= keys.version
            /\ workers[w].drawn <= now
            /\ workers[w].key < keys.version => workers[w].drawn <= keys.since
        BY <1>2, <3>1, <3>3 DEF KeyArrives, At, Fetching
      <4>2. /\ workers[w].key <= keys'.version /\ workers[w].drawn <= now'
            /\ workers[w].key < keys'.version => workers[w].drawn <= keys'.since
        BY <1>1, <1>4, <4>1
      <4> QED
        BY <2>2, <3>3, <4>1, <4>2 DEF KeyArrives, At
    <3> QED
      BY <2>2, <3>2, <3>3 DEF KeyArrives, At
  <2> QED
    BY <1>5, <2>1, <2>2
<1>6. CASE \A v \in Workers : ~SsoStep(v)
  <2>1. \A w \in Workers : KeyArrives(w)'
    BY <1>5, <1>6, OnlyTheCallback
  <2>2. /\ cache'.at <= now' /\ cache'.drawn <= cache'.at
        /\ cache'.version < keys'.version => cache'.drawn <= keys'.since
    <3>1. CASE keys' = keys /\ now' = now /\ cache' \in {cache, NoCache}
      BY <1>3, <3>1 DEF CacheFollowsKeys
    <3>2. CASE RotateKeys \/ Tick
      <4>1. \/ /\ cache' = cache /\ now' = now /\ keys'.version = keys.version + 1 /\ keys'.since = now
            \/ cache' = cache /\ now' = now + 1 /\ keys' = keys
        BY <3>2 DEF RotateKeys, Tick, bounds, provider
      <4> QED
        BY <1>1, <4>1 DEF CacheFollowsKeys
    <3> QED
      BY <1>6, <3>1, <3>2, OnlyTheCallback
  <2> QED
    BY <2>1, <2>2 DEF CacheFollowsKeys
<1>7. ASSUME NEW v \in Workers, SsoStep(v) PROVE CacheFollowsKeys'
  <2>1. keys' = keys /\ now' = now /\ \A w \in Workers \ {v} : workers'[w] = workers[w]
    BY <1>7, CallbackMoves
  <2>2. \A w \in Workers \ {v} : KeyArrives(w)'
    BY <1>5, <2>1
  <2>3. CASE FetchMoves(v)
    <3>1. KeyArrives(v)
      BY DEF CacheFollowsKeys
    <3>2. CASE workers'[v] = Idle /\ cache' = cache
      BY <1>5, <2>1, <2>2, <3>2 DEF Idle, CacheFollowsKeys
    <3>3. CASE workers'[v].pc = "decoding" /\ cache' = cache
      BY <2>1, <2>2, <3>3 DEF CacheFollowsKeys, KeyArrives, At
    <3>4. CASE /\ At(v, "callback", "signed") /\ cache' = cache
               /\ workers'[v].signed = workers[v].signed /\ workers'[v].pc = "fetching"
      BY <2>1, <2>2, <3>1, <3>4 DEF CacheFollowsKeys, KeyArrives, At
    <3>5. CASE /\ At(v, "callback", "fetching") /\ cache' = cache
               /\ workers'[v].signed = workers[v].signed /\ workers'[v].pc = "answered"
               /\ workers'[v].key = keys.version /\ workers'[v].drawn = now
      <4>1. workers[v].signed <= keys.version
        BY <3>1, <3>5 DEF KeyArrives
      <4>2. KeyArrives(v)'
        BY <1>1, <2>1, <3>5, <4>1 DEF KeyArrives, At
      <4> QED
        BY <2>1, <2>2, <3>5, <4>2 DEF CacheFollowsKeys
    <3>6. CASE /\ At(v, "callback", "answered") /\ workers'[v].pc = "decoding"
               /\ cache' = [full |-> TRUE, version |-> workers[v].key, at |-> now,
                            drawn |-> workers[v].drawn]
      <4>1. /\ workers[v].drawn <= now
            /\ workers[v].key < keys.version => workers[v].drawn <= keys.since
        BY <3>1, <3>6 DEF KeyArrives
      <4>2. /\ cache'.at = now /\ cache'.drawn = workers[v].drawn
            /\ cache'.version = workers[v].key
        BY <3>6
      <4>3. KeyArrives(v)'
        BY <3>6 DEF KeyArrives, At
      <4> QED
        BY <1>1, <2>1, <2>2, <4>1, <4>2, <4>3 DEF CacheFollowsKeys
    <3> QED
      BY <2>3, <3>2, <3>3, <3>4, <3>5, <3>6 DEF FetchMoves
  <2>4. CASE /\ cache' = cache
             /\ \/ workers' = workers
                \/ workers'[v].kind # "callback"
                \/ workers'[v].pc \in {"holding", "exchanging"}
                \/ workers'[v].pc = "signed" /\ workers'[v].signed = keys.version
    <3>1. KeyArrives(v)'
      <4>1. CASE workers' = workers \/ workers'[v].kind # "callback"
        BY <1>5, <4>1
      <4>2. CASE workers'[v].pc \in {"holding", "exchanging"}
        BY <4>2 DEF KeyArrives, At
      <4>3. CASE workers'[v].pc = "signed" /\ workers'[v].signed = keys.version
        BY <1>1, <2>1, <4>3 DEF KeyArrives, At
      <4> QED
        BY <2>4, <4>1, <4>2, <4>3
    <3> QED
      BY <2>1, <2>2, <2>4, <3>1 DEF CacheFollowsKeys
  <2> QED
    BY <1>7, <2>3, <2>4, CallbackMoves
<1> QED
  BY <1>6, <1>7

\* A key is missing from the document a login decodes with for CacheTTL, and for
\* what the document in use took to arrive.
THEOREM RotatedKeysAreFetched == Spec => RotationIsPickedUp
<1>1. Init => CacheFollowsKeys
  BY DEF Init, CacheFollowsKeys, KeyArrives, At, Idle, NoCache
<1>2. TypeOK /\ CacheFollowsKeys /\ [Next]_vars => CacheFollowsKeys'
  BY KeysStep
<1>3. TypeOK /\ CacheFollowsKeys /\ [Next]_vars =>
        [\A w \in Workers : ~At(w, "callback", "decoding") /\ (At(w, "callback", "decoding"))' =>
            \/ workers'[w].key >= workers[w].signed
            \/ now - keys.since < CacheTTL + (cache'.at - cache'.drawn)]_vars
  <2> SUFFICES ASSUME TypeOK, CacheFollowsKeys, [Next]_vars, NEW w \in Workers,
                      ~(workers[w].kind = "callback" /\ workers[w].pc = "decoding"),
                      workers'[w].kind = "callback" /\ workers'[w].pc = "decoding"
               PROVE  \/ workers'[w].key >= workers[w].signed
                      \/ now - keys.since < CacheTTL + (cache'.at - cache'.drawn)
    BY DEF At
  <2>1. workers'[w] # workers[w]
    OBVIOUS
  <2>2. FetchMoves(w)
    <3>1. PICK v \in Workers : SsoStep(v)
      BY <2>1, OnlyTheCallback
    <3>2. v = w
      BY <2>1, <3>1, CallbackMoves
    <3> QED
      BY <2>1, <3>1, <3>2, CallbackMoves
  <2>3. KeyArrives(w)
    BY DEF CacheFollowsKeys
  <2>4. CASE /\ At(w, "callback", "signed") /\ CacheIsFresh /\ cache' = cache
             /\ workers'[w].key = cache.version
    <3>1. /\ cache.at \in Int /\ cache.version \in Int /\ now \in Int /\ CacheTTL \in Int
          /\ keys.version \in Int /\ keys.since \in Int /\ cache.drawn \in Int
          /\ workers[w].signed \in Int
      BY <2>4, WorkerFields, RecordFields, ConstantsAssumption DEF TypeOK, At, Fetching
    <3>2. workers[w].signed <= keys.version /\ now - cache.at < CacheTTL
      BY <2>3, <2>4 DEF KeyArrives, CacheIsFresh
    <3>3. cache.version < keys.version => cache.drawn <= keys.since
      BY DEF CacheFollowsKeys
    <3> QED
      BY <2>4, <3>1, <3>2, <3>3
  <2>5. CASE /\ At(w, "callback", "answered") /\ workers'[w].key = workers[w].key
    <3>1. workers[w].signed \in Int /\ workers[w].key \in Int
      BY <2>5, WorkerFields, RecordFields DEF At, Fetching
    <3>2. workers[w].signed <= workers[w].key
      BY <2>3, <2>5 DEF KeyArrives
    <3> QED
      BY <2>5, <3>1, <3>2
  <2> QED
    BY <2>2, <2>4, <2>5 DEF FetchMoves, Idle
<1> QED
  BY <1>1, <1>2, <1>3, TypeCorrect, PTL DEF Spec, RotationIsPickedUp

-----------------------------------------------------------------------------
(* Sessions and credentials.                                               *)

\* A session that was opened, and is still of this user if it is live.
OwnedBy(t, u) == sessions[t] # Unused /\ (sessions[t] \in Live => sessions[t].user = u)

\* The credentials a session that is not late rests on hold.
Rests(s) ==
    /\ users[s.user].active
    /\ s.via = "password" => users[s.user].pw = s.pw \/ s.user \in reverted

\* A revocation in flight is the only one of its user, whose row it holds the lock
\* of, and has all the sessions of the user in its hands: those opened since are late.
RevokerHolds(w) ==
    LET r == workers[w]
    IN  r.kind = "revoke" =>
            /\ users[r.user].there /\ r.row.there
            /\ r.kept # 0 => /\ users[r.user].active => r.row.active
                             /\ OwnedBy(r.kept, r.user)
            /\ \A t \in Tokens : sessions[t] \in Live /\ sessions[t].user = r.user =>
                    t \in r.pending \/ t = r.kept \/ sessions[t].late
            /\ \A v \in Workers : workers[v].kind = "revoke" /\ workers[v].user = r.user => v = w

\* A request acts for a user who is there, with a session of that user.
RequestIsOwned(w) ==
    LET r == workers[w]
    IN  r.kind = "request" => users[r.user].there /\ (r.token # 0 => OwnedBy(r.token, r.user))

\* A user a login has read does not go away.
LoginReadThem(w) ==
    LET r == workers[w]
    IN  r.kind = "login" /\ r.seen.there => users[r.user].there

Credentials ==
    /\ \A u \in Users : users[u].active => users[u].there
    /\ \A t \in Tokens : sessions[t] \in Live /\ ~sessions[t].late => Rests(sessions[t])
    /\ \A w \in Workers : RevokerHolds(w) /\ RequestIsOwned(w) /\ LoginReadThem(w)

\* What every step but a revocation and its commit does to a user, a session and
\* a request.
UserMoves(u) ==
    \/ users'[u] = users[u]
    \/ ~users[u].there /\ users'[u].there /\ users'[u].active
    \/ /\ RowIsFree(u)
       /\ users'[u].there = users[u].there
       /\ users'[u].active => users'[u].there
       /\ users[u].active => users'[u].active
       /\ users'[u].pw = users[u].pw \/ u \in reverted'

SessionStays(t) ==
    \/ sessions'[t] = sessions[t]
    \/ sessions'[t] = Gone
    \/ /\ sessions[t] \in Live /\ sessions'[t] \in Live
       /\ sessions'[t].user = sessions[t].user /\ sessions'[t].via = sessions[t].via
       /\ sessions'[t].pw = sessions[t].pw /\ sessions'[t].late = sessions[t].late

SessionOpens(t) ==
    /\ sessions[t] = Unused /\ sessions'[t] \in Live /\ users' = users
    /\ sessions'[t].late \/ (RowIsFree(sessions'[t].user) /\ Rests(sessions'[t]))

WorkerArrives(w) ==
    LET r == workers'[w]
    IN  \/ workers'[w] = workers[w]
        \/ r.kind \notin {"login", "request", "revoke"}
        \/ r.kind = "login" /\ (r.seen.there => users'[r.user].there)
        \/ r.kind = "request" /\ users'[r.user].there /\ (r.token # 0 => OwnedBy(r.token, r.user))

LEMMA OwnedStays ==
    ASSUME NEW t \in Tokens, NEW u, SessionStays(t) \/ SessionOpens(t), OwnedBy(t, u)
    PROVE  OwnedBy(t, u)'
<1>1. Gone # Unused /\ Gone \notin Live /\ Unused \notin Live
  BY DEF Gone, Unused, Live
<1> QED
  BY <1>1 DEF OwnedBy, SessionStays, SessionOpens

LEMMA Steady ==
    ASSUME TypeOK, TypeOK', Credentials, reverted \subseteq reverted',
           \A u \in Users : UserMoves(u),
           \A t \in Tokens : SessionStays(t) \/ SessionOpens(t),
           \A w \in Workers : WorkerArrives(w)
    PROVE  Credentials'
<1>1. Gone # Unused /\ Gone \notin Live /\ Unused \notin Live
  BY DEF Gone, Unused, Live
<1>2. \A u \in Users : users[u].there => users'[u].there
  BY DEF UserMoves
<1>3. \A u \in Users : users'[u].active => users'[u].there
  BY DEF UserMoves, Credentials
<1>4. \A s \in Live : s.user \in Users
  BY DEF Live
<1>5. ASSUME NEW t \in Tokens, sessions'[t] \in Live, ~sessions'[t].late
      PROVE  Rests(sessions[t])'
  <2>1. CASE SessionStays(t)
    <3> DEFINE u == sessions[t].user
    <3>1. /\ sessions[t] \in Live /\ sessions'[t].user = u /\ sessions'[t].via = sessions[t].via
          /\ sessions'[t].pw = sessions[t].pw /\ ~sessions[t].late
      BY <1>1, <1>5, <2>1 DEF SessionStays
    <3>2. Rests(sessions[t]) /\ u \in Users /\ UserMoves(u)
      BY <1>4, <3>1 DEF Credentials
    <3>3. users[u].there
      BY <3>2 DEF Credentials, Rests
    <3>4. /\ users[u].active => users'[u].active
          /\ users'[u].pw = users[u].pw \/ u \in reverted'
      BY <3>2, <3>3 DEF UserMoves
    <3> QED
      BY <3>1, <3>2, <3>4 DEF Rests
  <2>2. CASE SessionOpens(t)
    <3>1. users' = users /\ Rests(sessions'[t])
      BY <1>5, <2>2 DEF SessionOpens
    <3> QED
      BY <3>1 DEF Rests
  <2> QED
    BY <2>1, <2>2
<1>6. ASSUME NEW w \in Workers, workers'[w].kind = "revoke"
      PROVE  workers'[w] = workers[w]
  BY <1>6 DEF WorkerArrives
<1>7. ASSUME NEW w \in Workers PROVE RevokerHolds(w)'
  <2> SUFFICES ASSUME workers'[w].kind = "revoke" PROVE RevokerHolds(w)'
    BY DEF RevokerHolds
  <2>0. PICK r : r = workers'[w]
    OBVIOUS
  <2>1. workers'[w] = r /\ workers[w] = r /\ r.kind = "revoke"
    BY <1>6, <2>0
  <2>2. r.user \in Users /\ r.row \in Row /\ r.kept \in Tokens \cup {0}
    BY <2>1, WorkerFields, RecordFields
  <2>3. RevokerHolds(w)
    BY DEF Credentials
  <2>4. ~RowIsFree(r.user)
    BY <2>1 DEF RowIsFree, Revokers
  <2>5. users'[r.user] = users[r.user] /\ users[r.user].there
    BY <2>1, <2>2, <2>3, <2>4 DEF UserMoves, RevokerHolds
  <2>6. r.kept # 0 => (users'[r.user].active => r.row.active) /\ OwnedBy(r.kept, r.user)'
    BY <2>1, <2>2, <2>3, <2>5, OwnedStays DEF RevokerHolds
  <2>7. ASSUME NEW t \in Tokens, sessions'[t] \in Live, sessions'[t].user = r.user
        PROVE  t \in r.pending \/ t = r.kept \/ sessions'[t].late
    <3>1. CASE SessionStays(t)
      <4>1. sessions[t] \in Live /\ sessions[t].user = r.user /\ sessions'[t].late = sessions[t].late
        BY <1>1, <2>7, <3>1 DEF SessionStays
      <4> QED
        BY <2>1, <2>3, <4>1 DEF RevokerHolds
    <3>2. CASE SessionOpens(t)
      BY <2>4, <2>7, <3>2 DEF SessionOpens
    <3> QED
      BY <3>1, <3>2
  <2>8. ASSUME NEW v \in Workers, workers'[v].kind = "revoke", workers'[v].user = r.user
        PROVE  v = w
    BY <1>6, <2>1, <2>3, <2>8 DEF RevokerHolds
  <2>9. users'[r.user].there /\ r.row.there
    BY <2>1, <2>3, <2>5 DEF RevokerHolds
  <2> QED
    BY <2>1, <2>6, <2>7, <2>8, <2>9 DEF RevokerHolds, OwnedBy
<1>8. ASSUME NEW w \in Workers PROVE RequestIsOwned(w)'
  <2> SUFFICES ASSUME workers'[w].kind = "request" PROVE RequestIsOwned(w)'
    BY DEF RequestIsOwned
  <2>0. PICK r : r = workers'[w]
    OBVIOUS
  <2>1. r.user \in Users /\ r.token \in Tokens \cup {0} /\ r.kind = "request"
    <3>1. r \in Worker
      BY <2>0 DEF TypeOK
    <3> QED
      BY <2>0, <3>1, KindOf, RecordFields
  <2>2. users'[r.user].there /\ (r.token # 0 => OwnedBy(r.token, r.user))
    <3>1. CASE workers'[w] = workers[w]
      BY <1>2, <2>0, <2>1, <3>1 DEF Credentials, RequestIsOwned
    <3> QED
      BY <2>0, <2>1, <3>1 DEF WorkerArrives
  <2>3. r.token # 0 => OwnedBy(r.token, r.user)'
    BY <2>1, <2>2, OwnedStays DEF OwnedBy
  <2> QED
    BY <2>0, <2>2, <2>3 DEF RequestIsOwned, OwnedBy
<1>9. ASSUME NEW w \in Workers PROVE LoginReadThem(w)'
  <2> SUFFICES ASSUME workers'[w].kind = "login", workers'[w].seen.there
               PROVE  users'[workers'[w].user].there
    BY DEF LoginReadThem
  <2>1. workers'[w].user \in Users
    <3>1. workers'[w] \in Worker
      BY DEF TypeOK
    <3> QED
      BY <3>1, KindOf, RecordFields
  <2>2. CASE workers'[w] = workers[w]
    BY <1>2, <2>1, <2>2 DEF Credentials, LoginReadThem
  <2> QED
    BY <2>2 DEF WorkerArrives
<1> QED
  BY <1>3, <1>5, <1>7, <1>8, <1>9 DEF Credentials


\* A worker that did not move arrives nowhere.
LEMMA OthersArrive ==
    ASSUME NEW w \in Workers, WorkerArrives(w),
           \A v \in Workers \ {w} : workers'[v] = workers[v]
    PROVE  \A v \in Workers : WorkerArrives(v)
  BY DEF WorkerArrives

LEMMA IdleArrives ==
    ASSUME NEW w \in Workers, workers'[w] = Idle
    PROVE  WorkerArrives(w)
<1>1. Idle.kind \notin {"login", "request", "revoke"}
  BY DEF Idle
<1> QED
  BY <1>1 DEF WorkerArrives

\* A login that commits writes its own user only.
LEMMA LoginWrites ==
    ASSUME TypeOK, TypeOK', Credentials, NEW w \in Workers,
           workers[w].kind = "login", UserMoves(workers[w].user),
           \A x \in Users \ {workers[w].user} : users'[x] = users[x],
           reverted \subseteq reverted', sessions' = sessions,
           \/ workers'[w] = Idle
           \/ /\ workers'[w].kind = "login" /\ workers'[w].user = workers[w].user
              /\ workers'[w].seen = workers[w].seen,
           \A v \in Workers \ {w} : workers'[v] = workers[v]
    PROVE  Credentials'
<1> DEFINE u == workers[w].user
<1>1. u \in Users /\ (workers[w].seen.there => users[u].there)
  BY WorkerFields, RecordFields DEF Credentials, LoginReadThem
<1>2. \A x \in Users : UserMoves(x)
  BY DEF UserMoves
<1>3. \A t \in Tokens : SessionStays(t)
  BY DEF SessionStays
<1>4. WorkerArrives(w)
  <2>1. users[u].there => users'[u].there
    BY DEF UserMoves
  <2> QED
    BY <1>1, <2>1, IdleArrives DEF WorkerArrives
<1>5. \A v \in Workers : WorkerArrives(v)
  BY <1>4, OthersArrive
<1> QED
  BY <1>2, <1>3, <1>5, Steady

LEMMA LoginKeepsCredentials ==
    ASSUME TypeOK, TypeOK', Credentials, NEW w \in Workers, Login(w)
    PROVE  Credentials'
<1> DEFINE u == workers[w].user
<1>1. /\ workers[w].kind = "login" => u \in Users /\ (workers[w].seen.there => users[u].there)
      /\ u \in Users => (users[u].active => users[u].there)
  BY WorkerFields, RecordFields DEF Credentials, LoginReadThem
<1>2. ASSUME NEW x \in Users, NEW typed \in Passwords \cup {EnvPassword}, LoginReads(w, x, typed)
      PROVE  Credentials'
  <2>1. UNCHANGED <<users, sessions, reverted>>
    BY <1>2 DEF LoginReads
  <2>2. WorkerArrives(w) /\ \A v \in Workers \ {w} : workers'[v] = workers[v]
    BY <1>2, <2>1, LoginReadsType DEF WorkerArrives
  <2>3. \A v \in Workers : WorkerArrives(v)
    BY <2>2, OthersArrive
  <2> QED
    BY <2>1, <2>3, Steady DEF UserMoves, SessionStays
<1>3. CASE LoginCommits(w)
  <2>1. workers[w].kind = "login" /\ RowIsFree(u) /\ sessions' = sessions /\ Goes(w, "stamped")
    BY <1>3 DEF LoginCommits, At
  <2>2. UserMoves(u)
    BY <1>1, <1>3, <2>1, LoginCommitsType DEF UserMoves
  <2> QED
    BY <1>3, <2>1, <2>2, LoginCommitsType, LoginGoes, LoginWrites
<1>4. CASE BreakGlassCommits(w)
  <2>1. workers[w].kind = "login" /\ RowIsFree(u) /\ sessions' = sessions /\ reverted' = reverted
    BY <1>4 DEF BreakGlassCommits, At
  <2>2. NewUser(TRUE).there /\ NewUser(TRUE).active
    BY NewUserRow
  <2>3. UserMoves(u)
    BY <1>1, <1>4, <2>1, <2>2, BreakGlassCommitsType DEF UserMoves
  <2> QED
    BY <1>4, <2>1, <2>3, BreakGlassCommitsType, LoginWrites
<1>5. CASE UpsertCommits(w)
  <2>1. workers[w].kind = "login" /\ sessions' = sessions /\ reverted' = reverted
    BY <1>5 DEF UpsertCommits, At
  <2>2. NewUser(FALSE).there /\ NewUser(FALSE).active
    BY NewUserRow
  <2>3. UserMoves(u)
    BY <1>5, <2>1, <2>2, UpsertCommitsType DEF UserMoves
  <2> QED
    BY <1>5, <2>1, <2>3, UpsertCommitsType, LoginWrites
<1>6. ASSUME NEW t \in Tokens, OpensSession(w, t)
      PROVE  Credentials'
  <2> DEFINE new == NewSession(u, workers[w].typed, workers[w].via)
  <2>1. /\ At(w, "login", "stamped") /\ sessions[t] = Unused /\ Ends(w)
        /\ sessions' = [sessions EXCEPT ![t] = new]
        /\ UNCHANGED <<users, reverted>>
    BY <1>6 DEF OpensSession
  <2>2. /\ u \in Users /\ workers[w].typed \in Passwords \cup {NoPassword}
        /\ workers[w].via \in Vias
    BY <2>1, WorkerFields, RecordFields DEF At
  <2>3. /\ new \in Live /\ new.user = u /\ new.via = workers[w].via /\ new.pw = workers[w].typed
        /\ new.late = Overtaken(u, workers[w].typed, workers[w].via)
    BY <2>2, NewSessionType
  <2> HIDE DEF new
  <2>4. sessions'[t] = new /\ \A x \in Tokens \ {t} : sessions'[x] = sessions[x]
    BY <2>1 DEF TypeOK
  <2>5. ~new.late => RowIsFree(new.user) /\ Rests(new)
    BY <2>3 DEF Overtaken, Rests
  <2>6. \A x \in Tokens : SessionStays(x) \/ SessionOpens(x)
    BY <2>1, <2>3, <2>4, <2>5 DEF SessionStays, SessionOpens
  <2>7. \A v \in Workers : WorkerArrives(v)
    BY <2>1, EndsType, IdleArrives, OthersArrive
  <2> QED
    BY <2>1, <2>6, <2>7, Steady DEF UserMoves
<1> QED
  BY <1>2, <1>3, <1>4, <1>5, <1>6 DEF Login

\* The requests but for the revocations.
LEMMA RequestKeepsCredentials ==
    ASSUME TypeOK, TypeOK', Credentials, NEW w \in Workers,
           \/ \E t \in Tokens : Authenticates(w, t)
           \/ AuthenticatesByBypass(w) \/ Touch(w) \/ RequestEnds(w)
           \/ \E u \in Users : Reactivate(w, u)
    PROVE  Credentials'
<1>1. ASSUME NEW t \in Tokens, Authenticates(w, t) PROVE Credentials'
  <2>1. /\ UNCHANGED <<users, sessions, reverted>>
        /\ workers'[w].kind = "request" /\ workers'[w].token = t
        /\ workers'[w].user = sessions[t].user
        /\ IsLive(t) /\ sessions[t].user \in Users /\ users[sessions[t].user].active
        /\ \A v \in Workers \ {w} : workers'[v] = workers[v]
    BY <1>1, AuthenticatesType
  <2>2. users[sessions[t].user].there /\ OwnedBy(t, sessions[t].user)
    BY <2>1 DEF Credentials, OwnedBy, IsLive
  <2>3. WorkerArrives(w)
    BY <2>1, <2>2 DEF WorkerArrives
  <2>4. \A v \in Workers : WorkerArrives(v)
    BY <2>1, <2>3, OthersArrive
  <2> QED
    BY <2>1, <2>4, Steady DEF UserMoves, SessionStays
<1>2. CASE AuthenticatesByBypass(w)
  <2>1. NewUser(TRUE).there /\ NewUser(TRUE).active
    BY NewUserRow
  <2>2. \A u \in Users : UserMoves(u)
    BY <1>2, <2>1, BypassType DEF UserMoves
  <2>3. users'[DevUser].there
    BY <1>2, <2>1, BypassType
  <2>4. WorkerArrives(w)
    BY <1>2, <2>3, BypassType DEF WorkerArrives
  <2>5. \A v \in Workers : WorkerArrives(v)
    BY <1>2, <2>4, BypassType, OthersArrive
  <2> QED
    BY <1>2, <2>2, <2>5, BypassType, Steady DEF SessionStays
<1>3. CASE Touch(w)
  <2>1. /\ UNCHANGED <<users, reverted>>
        /\ workers'[w].kind = "request" /\ workers'[w].token = workers[w].token
        /\ workers'[w].user = workers[w].user /\ workers[w].kind = "request"
        /\ \A v \in Workers \ {w} : workers'[v] = workers[v]
    BY <1>3, TouchTypes
  <2>2. \A t \in Tokens : SessionStays(t)
    BY <1>3, TouchTypes, TouchedType DEF SessionStays
  <2>3. WorkerArrives(w)
    BY <2>1 DEF Credentials, RequestIsOwned, WorkerArrives
  <2>4. \A v \in Workers : WorkerArrives(v)
    BY <2>1, <2>3, OthersArrive
  <2> QED
    BY <2>1, <2>2, <2>4, Steady DEF UserMoves
<1>4. CASE RequestEnds(w)
  <2>1. \A v \in Workers : WorkerArrives(v)
    BY <1>4, RequestEndsType, IdleArrives, OthersArrive
  <2> QED
    BY <1>4, <2>1, RequestEndsType, Steady DEF UserMoves, SessionStays
<1>5. ASSUME NEW u \in Users, Reactivate(w, u) PROVE Credentials'
  <2>1. \A v \in Workers : WorkerArrives(v)
    BY <1>5, ReactivateType, IdleArrives, OthersArrive
  <2>2. \A x \in Users : UserMoves(x)
    BY <1>5, ReactivateType DEF UserMoves
  <2> QED
    BY <1>5, <2>1, <2>2, ReactivateType, Steady DEF SessionStays
<1> QED
  BY <1>1, <1>2, <1>3, <1>4, <1>5


\* A revocation takes the sessions of its user, but for the one it keeps.
LEMMA RevokesKeepsCredentials ==
    ASSUME TypeOK, Credentials, NEW w \in Workers, NEW u \in Users, NEW row \in Row,
           NEW kept \in Tokens \cup {0}, Revokes(w, u, row, kept),
           users[u].there, row.there,
           kept # 0 => (users[u].active => row.active) /\ OwnedBy(kept, u)
    PROVE  Credentials'
<1> DEFINE rec == [kind |-> "revoke", user |-> u, row |-> row, kept |-> kept,
                   pending |-> SessionsOf(u) \ {kept}]
<1>1. /\ UNCHANGED <<users, sessions, reverted>>
      /\ RowIsFree(u) /\ workers'[w] = rec
      /\ \A v \in Workers \ {w} : workers'[v] = workers[v]
  BY RevokesType
<1>2. rec.kind = "revoke" /\ rec.user = u /\ rec.row = row /\ rec.kept = kept
        /\ rec.pending = SessionsOf(u) \ {kept}
  OBVIOUS
<1> HIDE DEF rec
<1>3. \A v \in Workers : workers[v].kind = "revoke" => workers[v].user # u
  BY <1>1 DEF RowIsFree, Revokers
<1>4. RevokerHolds(w)'
  <2>1. \A t \in Tokens : sessions[t] \in Live /\ sessions[t].user = u => t \in rec.pending \/ t = kept
    BY <1>2, LiveType DEF SessionsOf
  <2>2. \A v \in Workers : workers'[v].kind = "revoke" /\ workers'[v].user = u => v = w
    BY <1>1, <1>3
  <2> QED
    BY <1>1, <1>2, <2>1, <2>2 DEF RevokerHolds, OwnedBy
<1>5. ASSUME NEW v \in Workers \ {w} PROVE RevokerHolds(v)' /\ RequestIsOwned(v)' /\ LoginReadThem(v)'
  <2>1. RevokerHolds(v) /\ RequestIsOwned(v) /\ LoginReadThem(v) /\ workers'[v] = workers[v]
    BY <1>1 DEF Credentials
  <2>2. RequestIsOwned(v)' /\ LoginReadThem(v)'
    BY <1>1, <2>1 DEF RequestIsOwned, LoginReadThem, OwnedBy
  <2>3. ASSUME workers[v].kind = "revoke"
        PROVE  \A x \in Workers : workers'[x].kind = "revoke" /\ workers'[x].user = workers[v].user => x = v
    BY <1>1, <1>2, <1>3, <2>1, <2>3 DEF RevokerHolds
  <2>4. RevokerHolds(v)'
    BY <1>1, <2>1, <2>3 DEF RevokerHolds, OwnedBy
  <2> QED
    BY <2>2, <2>4
<1>6. RequestIsOwned(w)' /\ LoginReadThem(w)'
  BY <1>1, <1>2 DEF RequestIsOwned, LoginReadThem
<1> QED
  BY <1>1, <1>4, <1>5, <1>6 DEF Credentials, Rests

LEMMA RevocationsKeepCredentials ==
    ASSUME TypeOK, Credentials, NEW w \in Workers,
           \/ \E pw \in Passwords : ChangePassword(w, pw)
           \/ \E u \in Users, pw \in Passwords : ResetPassword(w, u, pw)
           \/ \E u \in Users : Deactivate(w, u)
    PROVE  Credentials'
<1>1. PICK u \in Users, row \in Row, kept \in Tokens \cup {0} :
                /\ Revokes(w, u, row, kept)
                /\ row.there = users[u].there
                /\ \/ workers[w].kind = "request" /\ u = workers[w].user /\ kept = workers[w].token
                                                  /\ row.active = users[u].active
                   \/ users[u].there /\ kept = 0
  BY RevocationsRevoke
<1>2. RequestIsOwned(w)
  BY DEF Credentials
<1>3. users[u].there /\ (kept # 0 => (users[u].active => row.active) /\ OwnedBy(kept, u))
  BY <1>1, <1>2 DEF RequestIsOwned
<1> QED
  BY <1>1, <1>3, RevokesKeepsCredentials

\* Its commit leaves the user with that session and late ones.
LEMMA CommitKeepsCredentials ==
    ASSUME TypeOK, TypeOK', Credentials, NEW w \in Workers, RevokeCommits(w)
    PROVE  Credentials'
<1>0. PICK r : r = workers[w]
  OBVIOUS
<1>1. /\ r.kind = "revoke" /\ r \in Revoking
      /\ r.user \in Users /\ r.row \in Row /\ r.kept \in Tokens \cup {0} /\ r.pending \subseteq Tokens
  BY <1>0, RevokeCommitsType, RecordFields DEF RevokeCommits
<1>2. /\ users'[r.user] = r.row
      /\ \A x \in Users \ {r.user} : users'[x] = users[x]
      /\ r.row.pw = users[r.user].pw => reverted' = reverted
      /\ reverted \ {r.user} \subseteq reverted'
      /\ workers'[w] = Idle
      /\ \A v \in Workers \ {w} : workers'[v] = workers[v]
  BY <1>0, RevokeCommitsType
<1>3. \A t \in Tokens :
        \/ t \in r.pending /\ sessions'[t] = Gone
        \/ /\ t \notin r.pending /\ t = r.kept /\ sessions[t] \in Live
           /\ sessions'[t] = [sessions[t] EXCEPT !.pw = r.row.pw]
        \/ /\ t \notin r.pending /\ ~(t = r.kept /\ sessions[t] \in Live)
           /\ sessions'[t] = sessions[t]
  BY <1>0, RevokeCommitsType
<1>4. /\ users[r.user].there /\ r.row.there
      /\ r.kept # 0 => (users[r.user].active => r.row.active) /\ OwnedBy(r.kept, r.user)
      /\ \A t \in Tokens : sessions[t] \in Live /\ sessions[t].user = r.user =>
                    t \in r.pending \/ t = r.kept \/ sessions[t].late
      /\ \A v \in Workers : workers[v].kind = "revoke" /\ workers[v].user = r.user => v = w
  BY <1>0, <1>1 DEF Credentials, RevokerHolds
<1>5. Gone # Unused /\ Gone \notin Live /\ Unused \notin Live
        /\ \A s \in Live : s.user \in Users
  BY DEF Gone, Unused, Live
\* What is live now was before, with the same owner.
<1>6. ASSUME NEW t \in Tokens, sessions'[t] \in Live
      PROVE  /\ sessions[t] \in Live /\ t \notin r.pending
             /\ sessions'[t].user = sessions[t].user /\ sessions'[t].via = sessions[t].via
             /\ sessions'[t].late = sessions[t].late
             /\ IF t = r.kept THEN sessions'[t].pw = r.row.pw ELSE sessions'[t].pw = sessions[t].pw
  <2>1. \A s \in Live, pw \in Passwords \cup {NoPassword} :
            LET x == [s EXCEPT !.pw = pw]
            IN  x.user = s.user /\ x.via = s.via /\ x.late = s.late /\ x.pw = pw
    BY DEF Live
  <2>2. r.row.pw \in Passwords \cup {NoPassword}
    BY <1>1, RowFields
  <2>3. CASE t = r.kept /\ sessions[t] \in Live
    <3> DEFINE x == [sessions[t] EXCEPT !.pw = r.row.pw]
    <3>1. sessions'[t] = x /\ t \notin r.pending
      BY <1>3, <1>5, <1>6, <2>3
    <3>2. x.user = sessions[t].user /\ x.via = sessions[t].via /\ x.late = sessions[t].late
            /\ x.pw = r.row.pw
      BY <2>1, <2>2, <2>3
    <3> HIDE DEF x
    <3> QED
      BY <2>3, <3>1, <3>2
  <2>4. CASE ~(t = r.kept /\ sessions[t] \in Live)
    <3>1. sessions'[t] = sessions[t] /\ t \notin r.pending
      BY <1>3, <1>5, <1>6, <2>4
    <3> QED
      BY <1>6, <2>4, <3>1
  <2> QED
    BY <2>3, <2>4
<1>7. \A u \in Users : (users'[u].active => users'[u].there) /\ (users[u].there => users'[u].there)
  BY <1>2, <1>4 DEF Credentials
<1>8. ASSUME NEW t \in Tokens, sessions'[t] \in Live, ~sessions'[t].late
      PROVE  Rests(sessions[t])'
  <2>1. sessions[t] \in Live /\ ~sessions[t].late /\ Rests(sessions[t]) /\ sessions[t].user \in Users
    BY <1>5, <1>6, <1>8 DEF Credentials
  <2>2. CASE sessions[t].user = r.user
    <3>1. t = r.kept /\ r.kept # 0
      BY <1>4, <1>6, <1>8, <2>1, <2>2 DEF Tokens
    <3>2. users'[r.user].active /\ users'[r.user].pw = r.row.pw /\ sessions'[t].pw = r.row.pw
      BY <1>2, <1>4, <1>6, <1>8, <2>1, <2>2, <3>1 DEF Rests
    <3> QED
      BY <1>6, <1>8, <2>2, <3>2 DEF Rests
  <2>3. CASE sessions[t].user # r.user
    <3>1. t # r.kept
      BY <1>4, <1>1, <2>1, <2>3 DEF OwnedBy, Tokens
    <3>2. users'[sessions[t].user] = users[sessions[t].user]
            /\ (sessions[t].user \in reverted => sessions[t].user \in reverted')
      BY <1>2, <2>1, <2>3
    <3> QED
      BY <1>6, <1>8, <2>1, <3>1, <3>2 DEF Rests
  <2> QED
    BY <2>2, <2>3
<1>9. ASSUME NEW t \in Tokens, NEW u, OwnedBy(t, u) PROVE OwnedBy(t, u)'
  <2>1. sessions'[t] # Unused
    <3>1. \A s \in Live : [s EXCEPT !.pw = r.row.pw] # Unused
      <4>1. \A s \in Live, pw \in Passwords \cup {NoPassword} : [s EXCEPT !.pw = pw] \in Live
        <5>1. ASSUME NEW s \in Live, NEW pw \in Passwords \cup {NoPassword} PROVE [s EXCEPT !.pw = pw] \in Live
          BY DEF Live
        <5> QED
          BY <5>1
      <4> QED
        BY <1>1, <1>5, <4>1, RowFields
    <3> QED
      BY <1>3, <1>5, <1>9, <3>1 DEF OwnedBy
  <2>2. sessions'[t] \in Live => sessions'[t].user = u
    BY <1>6, <1>9 DEF OwnedBy
  <2> QED
    BY <2>1, <2>2 DEF OwnedBy
<1>10. ASSUME NEW v \in Workers PROVE RevokerHolds(v)'
  <2> SUFFICES ASSUME workers'[v].kind = "revoke" PROVE RevokerHolds(v)'
    BY DEF RevokerHolds
  <2>0. PICK q : q = workers'[v]
    OBVIOUS
  <2>1. v # w /\ workers[v] = q /\ q.kind = "revoke"
    BY <1>2, <2>0 DEF Idle
  <2>2. q.user \in Users /\ q.kept \in Tokens \cup {0} /\ RevokerHolds(v) /\ q.user # r.user
    BY <1>4, <2>1, WorkerFields, RecordFields DEF Credentials
  <2>3. /\ users'[q.user] = users[q.user] /\ users[q.user].there /\ q.row.there
        /\ q.kept # 0 => (users[q.user].active => q.row.active) /\ OwnedBy(q.kept, q.user)
    BY <1>2, <2>1, <2>2 DEF RevokerHolds
  <2>4. q.kept # 0 => OwnedBy(q.kept, q.user)'
    BY <1>9, <2>2, <2>3
  <2>5. \A t \in Tokens : sessions'[t] \in Live /\ sessions'[t].user = q.user =>
                    t \in q.pending \/ t = q.kept \/ sessions'[t].late
    BY <1>6, <2>1, <2>2 DEF RevokerHolds
  <2>6. \A x \in Workers : workers'[x].kind = "revoke" /\ workers'[x].user = q.user => x = v
    BY <1>2, <2>1, <2>2 DEF RevokerHolds, Idle
  <2> QED
    BY <2>0, <2>3, <2>4, <2>5, <2>6 DEF RevokerHolds, OwnedBy
<1>11. ASSUME NEW v \in Workers PROVE RequestIsOwned(v)' /\ LoginReadThem(v)'
  <2>1. CASE v = w
    BY <1>2, <2>1 DEF RequestIsOwned, LoginReadThem, Idle
  <2>2. CASE v # w
    <3>1. workers'[v] = workers[v] /\ RequestIsOwned(v) /\ LoginReadThem(v)
      BY <1>2, <2>2 DEF Credentials
    <3>2. LoginReadThem(v)'
      BY <1>7, <3>1, WorkerFields, RecordFields DEF LoginReadThem
    <3>3. PICK q : q = workers[v]
      OBVIOUS
    <3>4. q.kind = "request" => /\ q.user \in Users /\ q.token \in Tokens \cup {0}
                                /\ users'[q.user].there
                                /\ (q.token # 0 => OwnedBy(q.token, q.user)')
      BY <1>7, <1>9, <3>1, <3>3, WorkerFields, RecordFields DEF RequestIsOwned
    <3>5. RequestIsOwned(v)'
      BY <3>1, <3>3, <3>4 DEF RequestIsOwned, OwnedBy
    <3> QED
      BY <3>2, <3>5
  <2> QED
    BY <2>1, <2>2
<1> QED
  BY <1>7, <1>8, <1>10, <1>11 DEF Credentials

LEMMA CredentialsStep == TypeOK /\ Credentials /\ [Next]_vars => Credentials'
<1> SUFFICES ASSUME TypeOK, Credentials, [Next]_vars PROVE Credentials'
  OBVIOUS
<1>1. TypeOK'
  BY TypeStep
<1>2. ASSUME NEW w \in Workers, Login(w) PROVE Credentials'
  BY <1>1, <1>2, LoginKeepsCredentials
<1>3. ASSUME NEW w \in Workers, SsoStep(w) PROVE Credentials'
  <2>1. \A r \in Callback : r.kind = "callback"
    BY DEF Callback
  <2>2. WorkerArrives(w)
    BY <1>3, <2>1, SsoStepType, IdleArrives DEF WorkerArrives
  <2>3. \A v \in Workers : WorkerArrives(v)
    BY <1>3, <2>2, SsoStepType, OthersArrive
  <2> QED
    BY <1>1, <1>3, <2>3, SsoStepType, Steady DEF UserMoves, SessionStays
<1>4. ASSUME NEW w \in Workers, RequestStep(w) PROVE Credentials'
  BY <1>1, <1>4, RequestKeepsCredentials, RevocationsKeepCredentials, CommitKeepsCredentials
     DEF RequestStep
<1>5. ASSUME NEW t \in Tokens, Logout(t) PROVE Credentials'
  BY <1>1, <1>5, LogoutType, Steady DEF UserMoves, SessionStays, WorkerArrives
<1>6. CASE (\E s \in States : StartSso(s) \/ StateAges(s)) \/ RotateKeys \/ Tick
  BY <1>1, <1>6, AroundType, Steady DEF UserMoves, SessionStays, WorkerArrives
<1>7. CASE Restart
  <2>1. NewUser(TRUE).there /\ NewUser(TRUE).active
    BY NewUserRow
  <2>2. \A u \in Users : UserMoves(u)
    BY <1>7, <2>1, RestartType DEF UserMoves
  <2>3. \A w \in Workers : WorkerArrives(w)
    BY <1>7, RestartType, IdleArrives
  <2> QED
    BY <1>1, <1>7, <2>2, <2>3, RestartType, Steady DEF SessionStays
<1>8. CASE UNCHANGED vars
  BY <1>1, <1>8, Steady DEF vars, UserMoves, SessionStays, WorkerArrives
<1> QED
  BY <1>2, <1>3, <1>4, <1>5, <1>6, <1>7, <1>8 DEF Next

LEMMA CredentialsInit == Init => Credentials
<1> SUFFICES ASSUME Init PROVE Credentials
  OBVIOUS
<1> DEFINE table == [u \in Users |->
                        IF u = FirstUser
                        THEN [NewUser(TRUE) EXCEPT !.pw = FirstPassword, !.old = "rehash" \in config]
                        ELSE Absent]
<1>1. users = Seeded(table, "unseeded" \notin config)
  BY DEF Init
<1>2. \A u \in Users : table[u].active => table[u].there
  <2>1. ~Absent.active /\ NewUser(TRUE).there
    BY NewUserRow DEF Absent
  <2>2. [NewUser(TRUE) EXCEPT !.pw = FirstPassword, !.old = "rehash" \in config].there = NewUser(TRUE).there
    BY NewUserRow DEF Row
  <2> QED
    BY <2>1, <2>2
<1>3. \A u \in Users : users[u].active => users[u].there
  <2>1. DOMAIN table = Users /\ NewUser(TRUE).there
    BY NewUserRow
  <2> HIDE DEF table
  <2>2. users = table \/ users = [table EXCEPT ![BreakGlass] = NewUser(TRUE)]
    BY <1>1 DEF Seeded
  <2> QED
    BY <1>2, <2>1, <2>2
<1>4. Unused \notin Live /\ Idle.kind \notin {"login", "request", "revoke"}
  BY DEF Unused, Live, Idle
<1>5. \A w \in Workers : workers[w] = Idle
  BY DEF Init
<1> QED
  BY <1>3, <1>4, <1>5 DEF Init, Credentials, RevokerHolds, RequestIsOwned, LoginReadThem

\* A session does not outlive the credentials its login rested on, unless the login
\* was overtaken by the revocation or a login put the old password back.
THEOREM SessionsAreRevoked == Spec => []SessionsFollowCredentials
<1>1. TypeOK /\ Credentials => SessionsFollowCredentials
  BY LiveType DEF Credentials, Rests, SessionsFollowCredentials
<1> QED
  BY <1>1, CredentialsInit, CredentialsStep, TypeCorrect, PTL DEF Spec

=============================================================================
