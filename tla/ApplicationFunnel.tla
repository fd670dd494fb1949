-------------------------- MODULE ApplicationFunnel --------------------------
(***************************************************************************)
(* What the late stages of an application promise, whoever moves the row:  *)
(* an application is invited only after a mail, goes on one stage at a     *)
(* time, each with its date, and may drop out at any moment.  It can come  *)
(* back without a new invitation, but only to a stage it has been in.      *)
(*                                                                         *)
(* The stages before the invitation and after a rejection are one here,    *)
(* "outside".  Scores, copies, coroutines, tokens and restarts are not     *)
(* seen.                                                                   *)
(***************************************************************************)
EXTENDS Naturals

CONSTANT Apps

VARIABLES
    stage,          \* the late stage of each application, or "outside"
    dates,          \* the late stages that have a date
    mails           \* invitation mails sent

vars == <<stage, dates, mails>>

After == [invited |-> "scheduled", scheduled |-> "interviewed",
          interviewed |-> "offer", offer |-> "hired"]
Late == {"invited", "scheduled", "interviewed", "offer", "hired"}

\* The date that shows an application has been in a stage: the one of the
\* interview goes when another round is opened.
DatedBy(s) == IF s = "interviewed" THEN "scheduled" ELSE s

-----------------------------------------------------------------------------
Init ==
    /\ stage = [a \in Apps |-> "outside"]
    /\ dates = [a \in Apps |-> {}]
    /\ mails = [a \in Apps |-> 0]

Moves(a, s) == stage' = [stage EXCEPT ![a] = s]
Dated(a, s) == dates' = [dates EXCEPT ![a] = @ \cup {s}]

Mail(a) ==
    /\ mails' = [mails EXCEPT ![a] = @ + 1]
    /\ UNCHANGED <<stage, dates>>

\* The only way in, from wherever the application is by then.
Invite(a) ==
    /\ mails[a] > 0
    /\ Moves(a, "invited") /\ Dated(a, "invited")
    /\ UNCHANGED mails

Advance(a) ==
    /\ stage[a] \in DOMAIN After
    /\ Moves(a, After[stage[a]]) /\ Dated(a, After[stage[a]])
    /\ UNCHANGED mails

\* Another round: it is no longer interviewed.
Reopen(a) ==
    /\ stage[a] = "interviewed"
    /\ Moves(a, "scheduled")
    /\ dates' = [dates EXCEPT ![a] = (@ \ {"interviewed"}) \cup {"scheduled"}]
    /\ UNCHANGED mails

\* A rejection, a run or a re-enrichment.
Leave(a) ==
    /\ Moves(a, "outside")
    /\ UNCHANGED <<dates, mails>>

\* A re-enrichment puts back the stage it found.
Return(a, s) ==
    /\ DatedBy(s) \in dates[a]
    /\ Moves(a, s)
    /\ UNCHANGED <<dates, mails>>

Next ==
    \E a \in Apps :
        \/ Mail(a) \/ Invite(a) \/ Advance(a) \/ Reopen(a) \/ Leave(a)
        \/ \E s \in Late : Return(a, s)

Spec == Init /\ [][Next]_vars
=============================================================================
