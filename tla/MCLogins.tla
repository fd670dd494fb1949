------------------------------- MODULE MCLogins -------------------------------
(* The instances of Logins that TLC checks. *)
EXTENDS Logins, TLC

\* Requests in flight are interchangeable, and so are the states.
WorkerSymmetry == Permutations(Workers) \cup Permutations(States)

\* A second state is for the keys: two callbacks that fetch a document each,
\* which needs the clock and no session.
SecondStateIsForKeys ==
    \/ Cardinality({s \in States : states[s] # "unused"}) <= 1
    \/ "clock" \in config /\ \A t \in Tokens : sessions[t] = Unused
=============================================================================
