--------------------------- MODULE InterviewRecord ---------------------------
(***************************************************************************)
(* What the interviews of an application keep, whoever works on them       *)
(* meanwhile: the sheets of every round and the tracks they are on.        *)
(*                                                                         *)
(* What an interviewer has written stays on its track until it is          *)
(* submitted and for good afterwards; only the draft of a deactivated      *)
(* author may be taken off the panel.  Tracks and people who have not      *)
(* written may be rearranged at any time, with everyone on some track.     *)
(* The round closes with the change that completes it.  The next round     *)
(* begins with the same people on empty sheets, and the last one rests.    *)
(*                                                                         *)
(* Questions, generations and edits of a kit, and whatever is in flight,   *)
(* are not seen here.                                                      *)
(***************************************************************************)
EXTENDS Naturals

CONSTANTS
    Users, Recruiters, Tracks, Rounds,
    Default,        \* the track of a blank row
    Contents        \* what a sheet may hold

VARIABLES
    round,
    stage,
    tracks,         \* the tracks of each round
    sheets,         \* for each round and user, the sheet
    active          \* accounts that may work

vars == <<round, stage, tracks, sheets, active>>

NoSheet == [state |-> "absent", track |-> Default, content |-> {}]
Draft(t, content) == [state |-> "draft", track |-> t, content |-> content]
Submitted(t, content) == [state |-> "submitted", track |-> t, content |-> content]

sheet(u) == sheets[round][u]
IsThere(s) == s.state # "absent"
IsSubmitted(s) == s.state = "submitted"
IsWritten(s) == IsSubmitted(s) \/ s.content # {}

\* Every track has somebody, and everybody has submitted.
Complete(ts, ss) ==
    /\ ts # {} /\ \E u \in Users : IsThere(ss[u])
    /\ \A t \in ts : \E u \in Users : IsThere(ss[u]) /\ ss[u].track = t
    /\ \A u \in Users : IsThere(ss[u]) => IsSubmitted(ss[u])

ClosesIfComplete ==
    stage' = IF stage = "scheduled" /\ Complete(tracks'[round], sheets'[round])
             THEN "interviewed" ELSE stage

\* Nothing but the live round changes.
LiveRoundOnly ==
    /\ tracks' = [tracks EXCEPT ![round] = tracks'[round]]
    /\ sheets' = [sheets EXCEPT ![round] = sheets'[round]]

-----------------------------------------------------------------------------
Init ==
    /\ round = 1
    /\ stage = "other"
    /\ tracks = [r \in Rounds |-> {}]
    /\ sheets = [r \in Rounds |-> [u \in Users |-> NoSheet]]
    /\ active = Users

\* A sheet of the live round that nobody has written on may go, come or move;
\* one that is written stays, unless its author is gone and has not submitted.
Moves(u) ==
    \/ sheet(u)' = sheet(u)
    \/ /\ ~IsWritten(sheet(u))
       /\ sheet(u)' = NoSheet \/ \E t \in Tracks : sheet(u)' = Draft(t, {})
    \/ ~IsSubmitted(sheet(u)) /\ u \notin active /\ sheet(u)' = NoSheet

\* Tracks and panel of the live round change, and everybody is on a track.
Rearranges ==
    /\ LiveRoundOnly
    /\ tracks[round] # {} => tracks'[round] # {}
    /\ \A u \in Users :
        /\ Moves(u)
        /\ IsThere(sheet(u)') /\ ~IsThere(sheet(u)) => u \in active
        /\ IsThere(sheet(u)') /\ tracks'[round] # {} => sheet(u)'.track \in tracks'[round]
    /\ UNCHANGED <<round, active>>

ChangePanel == Rearranges /\ ClosesIfComplete

\* Scheduling invites nobody and takes nothing away that is written.
Schedule ==
    /\ stage = "other" /\ stage' = "scheduled"
    /\ Rearranges
    /\ tracks'[round] # {}
    /\ \A u \in Users : /\ IsThere(sheet(u)') => IsThere(sheet(u))
                        /\ IsWritten(sheet(u)) => sheet(u)' = sheet(u)

\* The panel of the tracks that go on begins the next round on empty sheets.
Reopen(chosen) ==
    LET carried(s) == IsThere(s) /\ (chosen = {} \/ s.track \in chosen \cap tracks[round])
    IN  /\ stage = "interviewed" /\ stage' = "scheduled"
        /\ chosen = {} => tracks[round] = {}
        /\ round + 1 \in Rounds /\ round' = round + 1
        /\ tracks' = [tracks EXCEPT ![round + 1] = chosen]
        /\ sheets' = [sheets EXCEPT ![round + 1] =
               [u \in Users |-> IF carried(sheet(u)) THEN Draft(sheet(u).track, {}) ELSE NoSheet]]
        /\ UNCHANGED active

Close ==
    /\ stage = "scheduled" /\ stage' = "interviewed"
    /\ UNCHANGED <<round, tracks, sheets, active>>

Leave ==
    /\ stage # "other" /\ stage' = "other"
    /\ UNCHANGED <<round, tracks, sheets, active>>

\* A sheet is written by its owner, and by a recruiter who takes a track that
\* nobody is on.
MayWrite(u, t) ==
    /\ u \in active /\ t \in tracks[round]
    /\ IF IsThere(sheet(u))
       THEN ~IsSubmitted(sheet(u)) /\ sheet(u).track = t
       ELSE u \in Recruiters /\ \A v \in Users : IsThere(sheet(v)) => sheet(v).track # t

Write(u, t, content) ==
    /\ MayWrite(u, t)
    /\ sheets' = [sheets EXCEPT ![round][u] = Draft(t, content)]
    /\ UNCHANGED <<round, stage, tracks, active>>

Submit(u, t) ==
    /\ MayWrite(u, t)
    /\ sheets' = [sheets EXCEPT ![round][u] = Submitted(t, sheet(u).content)]
    /\ ClosesIfComplete
    /\ UNCHANGED <<round, tracks, active>>

SetActive(u) ==
    /\ active' = IF u \in active THEN active \ {u} ELSE active \cup {u}
    /\ UNCHANGED <<round, stage, tracks, sheets>>

Next ==
    \/ ChangePanel \/ Schedule \/ Close \/ Leave
    \/ \E chosen \in SUBSET Tracks : Reopen(chosen)
    \/ \E u \in Users, t \in Tracks :
           Submit(u, t) \/ \E content \in SUBSET Contents : Write(u, t, content)
    \/ \E u \in Users : SetActive(u)

Spec == Init /\ [][Next]_vars
=============================================================================
