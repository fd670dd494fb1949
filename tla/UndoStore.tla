------------------------------ MODULE UndoStore ------------------------------
(***************************************************************************)
(* The two undo stores of agent/undo.py.  The one in memory serves the     *)
(* requests of its process under a lock and forgets everything with it;    *)
(* the one in Redis is shared by the processes of several pods, reads a    *)
(* token, checks it, and takes it with a second command.                   *)
(*                                                                         *)
(* A token's body is written once; the payload it carries for undo is the  *)
(* business of AgentChat.                                                  *)
(***************************************************************************)
EXTENDS Integers, Sequences

CONSTANTS
    Tokens, Apps, NoApp,
    Clients,        \* requests that may be redeeming a token
    Backends,       \* what get_default_undo_store may have chosen
    TTL,            \* ttl_seconds, in ticks of the clock
    MaxTime,        \* bound: ticks
    MaxRestarts     \* bound: restarts

ASSUME StoreAssumption ==
    /\ NoApp \notin Apps
    /\ Backends \subseteq {"memory", "redis"}
    /\ TTL \in Nat \ {0}
    /\ MaxTime \in Nat /\ MaxRestarts \in Nat

VARIABLES
    backend,
    entries,        \* _entries, or the keys in Redis
    body,           \* what is stored under a token
    peeks,          \* the tokens read by GET and not yet taken, with what was asked for
    handed,         \* for each token, the requests that got its payload (history)
    now,            \* the clock
    restarts        \* restarts so far

storeVars == <<backend, entries, body, peeks, handed, now, restarts>>

NoBody == [app |-> NoApp, at |-> 0]
Body == [app : Apps \cup {NoApp}, at : 0..MaxTime]
NoPeek == [token |-> "none"]
Peek == [token : Tokens, app : Apps]

StoreInit ==
    /\ backend \in Backends
    /\ entries = {}
    /\ body = [t \in Tokens |-> NoBody]
    /\ peeks = [c \in Clients |-> NoPeek]
    /\ handed = [t \in Tokens |-> <<>>]
    /\ now = 0
    /\ restarts = 0

\* issue: token_urlsafe never repeats.
Issue(t, a) ==
    /\ body[t] = NoBody
    /\ body' = [body EXCEPT ![t] = [app |-> a, at |-> now]]
    /\ entries' = entries \cup {t}
    /\ UNCHANGED <<backend, peeks, handed, now, restarts>>

\* An entry of age TTL is fresh in memory; Redis has deleted its key by then.
IsFresh(t) == t \in entries /\ now - body[t].at <= TTL

Hands(t, a) == handed' = [handed EXCEPT ![t] = Append(@, a)]

\* InMemoryUndoStore.consume, under its lock: an old entry is popped, one of
\* another application stays.
MemoryConsumes(t, a) ==
    /\ backend = "memory"
    /\ IF IsFresh(t) /\ body[t].app # a
       THEN UNCHANGED <<entries, handed>>
       ELSE /\ entries' = entries \ {t}
            /\ IF IsFresh(t) THEN Hands(t, a) ELSE handed' = handed
    /\ UNCHANGED <<backend, body, peeks, now, restarts>>

\* RedisUndoStore.consume up to the guard.
RedisPeeks(c, t, a) ==
    /\ backend = "redis" /\ peeks[c] = NoPeek
    /\ IF t \in entries /\ body[t].app = a
       THEN peeks' = [peeks EXCEPT ![c] = [token |-> t, app |-> a]]
       ELSE peeks' = peeks
    /\ UNCHANGED <<backend, entries, body, handed, now, restarts>>

\* Mutant: DELETE after GET, whatever the DELETE found.
RedisDeletes(c) ==
    LET t == peeks[c].token
    IN  /\ peeks[c] # NoPeek
        /\ peeks' = [peeks EXCEPT ![c] = NoPeek]
        /\ entries' = entries \ {t}
        /\ Hands(t, peeks[c].app)
        /\ UNCHANGED <<backend, body, now, restarts>>

\* GETDEL: of two requests that both read the token, one takes it.
RedisTakes(c) ==
    LET t == peeks[c].token
    IN  /\ peeks[c] # NoPeek
        /\ peeks' = [peeks EXCEPT ![c] = NoPeek]
        /\ entries' = entries \ {t}
        /\ IF t \in entries THEN Hands(t, peeks[c].app) ELSE handed' = handed
        /\ UNCHANGED <<backend, body, now, restarts>>

\* SETEX: Redis deletes the keys of age TTL.
Expired(time) == IF backend = "redis" THEN {t \in entries : time - body[t].at >= TTL} ELSE {}

Tick ==
    /\ now < MaxTime /\ now' = now + 1
    /\ entries' = entries \ Expired(now')
    /\ UNCHANGED <<backend, body, peeks, handed, restarts>>

\* The processes restart, Redis does not.
StoreRestarts ==
    /\ restarts < MaxRestarts /\ restarts' = restarts + 1
    /\ entries' = IF backend = "memory" THEN {} ELSE entries
    /\ peeks' = [c \in Clients |-> NoPeek]
    /\ UNCHANGED <<backend, body, handed, now>>

StoreNext ==
    \/ \E t \in Tokens, a \in Apps :
         \/ Issue(t, a) \/ MemoryConsumes(t, a)
         \/ \E c \in Clients : RedisPeeks(c, t, a)
    \/ \E c \in Clients : RedisTakes(c)
    \/ Tick \/ StoreRestarts

StoreSpec == StoreInit /\ [][StoreNext]_storeVars

-----------------------------------------------------------------------------
StoreTypeOK ==
    /\ backend \in Backends
    /\ entries \subseteq Tokens
    /\ body \in [Tokens -> Body]
    /\ peeks \in [Clients -> Peek \cup {NoPeek}]
    /\ handed \in [Tokens -> Seq(Apps)]
    /\ now \in 0..MaxTime
    /\ restarts \in 0..MaxRestarts

\* What can still be redeemed: in Redis every key, in memory the fresh entries.
Redeemable == {t \in entries : backend = "redis" \/ IsFresh(t)}

OneShot == INSTANCE OneShotTokens WITH live <- Redeemable, answered <- handed

\* Both stores keep the promise of OneShotTokens: no two requests get one token's
\* payload however their commands interleave, none gets the payload of another
\* application, and asking for it does not take the token away from its owner.
ImplementsOneShot == OneShot!Spec
=============================================================================
