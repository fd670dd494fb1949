---------------------------- MODULE OneShotTokens ----------------------------
(***************************************************************************)
(* What an undo store promises (agent/undo.py, the module's docstring): a  *)
(* token is redeemed at most once, for the application it was issued for,  *)
(* and while it is live; a request that names another application leaves   *)
(* the token to its owner.  A token stops being live when it is redeemed,  *)
(* when its time is over, or with a restart, and for no other reason.      *)
(***************************************************************************)
EXTENDS Integers, Sequences

CONSTANTS Tokens, Apps, NoApp, TTL

VARIABLES
    body,           \* the application a token was issued for, and when
    live,           \* tokens that can be redeemed
    answered,       \* for each token, the requests that got its payload
    now,
    restarts

vars == <<body, live, answered, now, restarts>>

NoBody == [app |-> NoApp, at |-> 0]

Init ==
    /\ body = [t \in Tokens |-> NoBody]
    /\ live = {}
    /\ answered = [t \in Tokens |-> <<>>]
    /\ now = 0
    /\ restarts = 0

Issue(t, a) ==
    /\ body[t] = NoBody
    /\ body' = [body EXCEPT ![t] = [app |-> a, at |-> now]]
    /\ live' = live \cup {t}
    /\ UNCHANGED <<answered, now, restarts>>

\* A request for the application a gets the payload of t.
Redeem(t, a) ==
    /\ t \in live /\ body[t].app = a
    /\ live' = live \ {t}
    /\ answered' = [answered EXCEPT ![t] = Append(@, a)]
    /\ UNCHANGED <<body, now, restarts>>

\* A token of age TTL may be dead already or live still, which the backends
\* decide differently.
Tick ==
    /\ now' = now + 1
    /\ live' \subseteq live
    /\ \A t \in live : IF t \in live' THEN now' - body[t].at <= TTL ELSE now' - body[t].at >= TTL
    /\ UNCHANGED <<body, answered, restarts>>

Restart ==
    /\ restarts' = restarts + 1
    /\ live' \in {live, {}}
    /\ UNCHANGED <<body, answered, now>>

Next ==
    \/ \E t \in Tokens, a \in Apps : Issue(t, a) \/ Redeem(t, a)
    \/ Tick \/ Restart

Spec == Init /\ [][Next]_vars
=============================================================================
