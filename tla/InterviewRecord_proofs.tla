------------------------ MODULE InterviewRecord_proofs ------------------------
(***************************************************************************)
(* InterviewRounds implements InterviewRecord: each of its steps is a step *)
(* of the record, or leaves the record alone.                              *)
(*                                                                         *)
(* The tracks of the record are those that have a kit, its sheets are the  *)
(* rows.  That a row is only ever moved while nothing is written on it,    *)
(* and that everybody is on a track afterwards, rests on the invariant     *)
(* RoundsInv: adoption moves people whose track has no kit, and those have *)
(* written nothing.                                                        *)
(***************************************************************************)
EXTENDS InterviewRounds_proofs

\* Record and rounds mean the same by their words.
LEMMA RecordWords ==
    /\ Record!NoSheet = NoSheet
    /\ \A t : Record!Draft(t, {}) = EmptySheet(t)
    /\ \A s : /\ Record!IsThere(s) <=> s.state # "absent"
              /\ Record!IsSubmitted(s) <=> IsSubmitted(s)
              /\ Record!IsWritten(s) <=> IsWritten(s)
    /\ \A u : Record!sheet(u) = panel[u]
  BY DEF Record!NoSheet, NoSheet, Record!Draft, EmptySheet, Record!IsThere,
         Record!IsSubmitted, IsSubmitted, Record!IsWritten, IsWritten, Record!sheet, panel

LEMMA RecordCompleteness ==
    ASSUME NEW ks, NEW rs
    PROVE  Record!Complete(TracksOf(ks), rs) <=> RoundComplete(ks, rs)
  BY DEF Record!Complete, RoundComplete, Panel, PanelOf, Record!IsThere,
         Record!IsSubmitted, IsSubmitted

LEMMA ClosesTheRecord ==
    ASSUME TypeOK, round' = round, ClosesStep
    PROVE  Record!ClosesIfComplete
  <1>1. round \in Rounds
    BY DEF TypeOK
  <1>2. Record!Complete(TracksOf(kits'[round]), rows'[round])
            <=> RoundComplete(kits'[round], rows'[round])
    BY RecordCompleteness
  <1>3. [r \in Rounds |-> TracksOf(kits'[r])][round] = TracksOf(kits'[round])
    BY <1>1
  <1>4. QED BY <1>2, <1>3 DEF ClosesStep, Record!ClosesIfComplete

-----------------------------------------------------------------------------
(* Changes of the panel and of the tracks.                                 *)

\* What a request may make of the row old of user u.
MayBecome(u, old, new) ==
    /\ \/ new = old
       \/ /\ ~IsWritten(old)
          /\ new = NoSheet \/ \E t \in Tracks : new = EmptySheet(t)
       \/ ~IsSubmitted(old) /\ u \notin active /\ new = NoSheet
    /\ new.state # "absent" /\ old.state = "absent" => u \in active

LEMMA LeavingIsAbsence == NoSheet.state = "absent" /\ ~IsWritten(NoSheet)
  BY BlankIsNotWritten DEF NoSheet

LEMMA Rearrangement ==
    ASSUME TypeOK, RoundsInv, OrderlyStep, active' = active,
           \A u \in Users : MayBecome(u, panel[u], rows'[round][u]),
           TracksOf(live) # {} => TracksOf(kits'[round]) # {}
    PROVE  Record!Rearranges
  <1>1. PICK ks \in [Tracks -> Kit], rs \in [Users -> Sheet] :
          /\ round' = round
          /\ kits' = [kits EXCEPT ![round] = ks] /\ rows' = [rows EXCEPT ![round] = rs]
          /\ InOrder(ks, rs)
    BY DEF OrderlyStep
  <1>2. round \in Rounds /\ kits'[round] = ks /\ rows'[round] = rs
    BY <1>1 DEF TypeOK
  <1>3. \A r \in Rounds : r # round => kits'[r] = kits[r]
    BY <1>1 DEF TypeOK
  <1>4. Record!LiveRoundOnly
    <2>1. [r \in Rounds |-> TracksOf(kits'[r])] =
              [[r \in Rounds |-> TracksOf(kits[r])] EXCEPT
                  ![round] = [r \in Rounds |-> TracksOf(kits'[r])][round]]
      BY <1>3
    <2>2. rows' = [rows EXCEPT ![round] = rows'[round]]
      BY <1>1, <1>2
    <2>3. QED BY <2>1, <2>2 DEF Record!LiveRoundOnly
  <1>5. /\ [r \in Rounds |-> TracksOf(kits[r])][round] = TracksOf(live)
        /\ [r \in Rounds |-> TracksOf(kits'[r])][round] = TracksOf(ks)
    BY <1>2 DEF live
  <1>6. ASSUME NEW u \in Users
        PROVE  /\ Record!Moves(u)
               /\ rs[u].state # "absent" /\ panel[u].state = "absent" => u \in active
               /\ rs[u].state # "absent" /\ TracksOf(ks) # {} => rs[u].track \in TracksOf(ks)
    <2>1. MayBecome(u, panel[u], rs[u])
      BY <1>2
    <2>2. Record!sheet(u) = panel[u] /\ Record!sheet(u)' = rs[u]
      BY <1>1, <1>2 DEF Record!sheet, panel
    <2>3. Record!Moves(u)
      BY <2>1, <2>2, RecordWords DEF MayBecome, Record!Moves
    <2>4. QED BY <1>1, <2>1, <2>3 DEF MayBecome, InOrder, PanelOf
  <1>7. \A u \in Users : Record!sheet(u) = panel[u] /\ Record!sheet(u)' = rs[u]
    BY <1>1, <1>2 DEF Record!sheet, panel
  <1>8. QED
    BY <1>1, <1>2, <1>4, <1>5, <1>6, <1>7 DEF Record!Rearranges, Record!IsThere

\* A row on which nothing is written is an empty sheet, and stays one if it moves.
LEMMA UnwrittenIsEmpty ==
    ASSUME NEW s \in Sheet, ~IsWritten(s), s.state # "absent"
    PROVE  /\ s = EmptySheet(s.track)
           /\ \A t \in Tracks : [s EXCEPT !.track = t] = EmptySheet(t)
  <1>1. s.state = "draft" /\ s.content = {}
    BY DEF Sheet, IsWritten, IsSubmitted
  <1>2. QED BY <1>1 DEF Sheet, EmptySheet

LEMMA AdoptionMoves ==
    ASSUME NEW ks, NEW rs \in [Users -> Sheet], NEW first \in TracksOf(ks), NEW u \in Users
    PROVE  \/ AdoptOrphanRows(ks, rs, first)[u] = rs[u]
           \/ /\ rs[u].state # "absent" /\ rs[u].track \notin TracksOf(ks)
              /\ ~IsWritten(rs[u]) => AdoptOrphanRows(ks, rs, first)[u] = EmptySheet(first)
  <1>1. rs[u] \in Sheet /\ first \in Tracks
    BY DEF TracksOf
  <1>2. QED BY <1>1, UnwrittenIsEmpty DEF AdoptOrphanRows

\* Adoption among the rows of the live round.
LEMMA AdoptionMayHappen ==
    ASSUME TypeOK, RoundsInv, NEW ks, NEW first \in TracksOf(ks),
           TracksOf(live) \subseteq TracksOf(ks),
           rows'[round] = AdoptOrphanRows(ks, panel, first)
    PROVE  \A u \in Users : MayBecome(u, panel[u], rows'[round][u])
  <1> SUFFICES ASSUME NEW u \in Users
               PROVE  MayBecome(u, panel[u], AdoptOrphanRows(ks, panel, first)[u])
    OBVIOUS
  <1>1. IsWritten(panel[u]) => panel[u].track \in TracksOf(ks)
    BY WrittenIsThere
  <1>2. panel \in [Users -> Sheet] /\ first \in Tracks
    BY LiveType DEF TracksOf
  <1> DEFINE new == AdoptOrphanRows(ks, panel, first)[u]
  <1>3. \/ new = panel[u]
        \/ /\ panel[u].state # "absent" /\ panel[u].track \notin TracksOf(ks)
           /\ ~IsWritten(panel[u]) => new = EmptySheet(first)
    BY <1>2, AdoptionMoves
  <1> HIDE DEF new
  <1>4. MayBecome(u, panel[u], new)
    BY <1>1, <1>2, <1>3 DEF MayBecome
  <1>5. QED BY <1>4 DEF new

LEMMA AddTrackIsRecorded ==
    ASSUME TypeOK, RoundsInv, NEW w \in Workers, NEW t \in Tracks, AddTrack(w, t)
    PROVE  Record!ChangePanel
  <1> DEFINE ks == [live EXCEPT ![t] = NewKit]
  <1>1. TracksOf(ks) = TracksOf(live) \cup {t} /\ ks \in [Tracks -> Kit]
    BY LiveType, KitsOfTheActions DEF TracksOf, NewKit
  <1>2. PICK first \in TracksOf(ks) :
          /\ kits' = [kits EXCEPT ![round] = ks]
          /\ rows' = [rows EXCEPT ![round] = AdoptOrphanRows(ks, panel, first)]
    BY DEF AddTrack
  <1> HIDE DEF ks
  <1>3. TracksOf(kits'[round]) = TracksOf(live) \cup {t}
    BY <1>1, <1>2 DEF TypeOK
  <1>4. rows'[round] = AdoptOrphanRows(ks, panel, first)
    BY <1>2 DEF TypeOK
  <1>5. \A u \in Users : MayBecome(u, panel[u], rows'[round][u])
    BY <1>1, <1>4, AdoptionMayHappen
  <1>6. round' = round /\ active' = active
    BY DEF AddTrack
  <1>7. Record!Rearranges
    BY <1>3, <1>5, <1>6, AddTrackIsOrderly, Rearrangement
  <1>8. Record!ClosesIfComplete
    BY <1>6, AddTrackCloses, ClosesTheRecord
  <1>9. QED BY <1>7, <1>8 DEF Record!ChangePanel

LEMMA RemoveTrackIsRecorded ==
    ASSUME TypeOK, RoundsInv, NEW t \in Tracks, RemoveTrack(t)
    PROVE  Record!ChangePanel
  <1>1. \A u \in Users : rows'[round][u] = IF panel[u].track = t THEN NoSheet ELSE panel[u]
    BY DEF RemoveTrack, TypeOK
  <1>2. ASSUME NEW u \in Users, IsWritten(panel[u])
        PROVE  panel[u].track # t
    <2>1. u \in PanelOf(panel)
      BY <1>2, WrittenIsThere
    <2>2. QED BY <1>2, <2>1 DEF RemoveTrack, HasFeedback, Panel
  <1>3. \A u \in Users : MayBecome(u, panel[u], rows'[round][u])
    BY <1>1, <1>2, LeavingIsAbsence DEF MayBecome
  <1>4. kits'[round] = [live EXCEPT ![t] = NoKit]
    BY DEF RemoveTrack, TypeOK, live
  <1>5. TracksOf(kits'[round]) = TracksOf(live) \ {t}
    BY <1>4, LiveType DEF TracksOf, NoKit
  <1>6. TracksOf(live) # {t} /\ round' = round /\ active' = active
    BY DEF RemoveTrack
  <1>7. Record!Rearranges
    BY <1>3, <1>5, <1>6, RemoveTrackIsOrderly, Rearrangement
  <1>8. Record!ClosesIfComplete
    BY <1>6, RemoveTrackCloses, ClosesTheRecord
  <1>9. QED BY <1>7, <1>8 DEF Record!ChangePanel

\* Putting the same panel again changes nothing.
LEMMA PutInterviewersIsRecorded ==
    ASSUME TypeOK, RoundsInv, NEW t \in Tracks, NEW wanted \in SUBSET Users,
           PutInterviewers(t, wanted)
    PROVE  Record!ChangePanel \/ UNCHANGED Record!vars
  <1> DEFINE removed == Panel(panel, t) \ wanted
             added == wanted \ Panel(panel, t)
  <1>1. \A u \in Users :
            rows'[round][u] = IF u \in removed THEN NoSheet
                              ELSE IF u \in added THEN EmptySheet(t) ELSE panel[u]
    BY DEF PutInterviewers, TypeOK
  <1>2. /\ \A u \in removed : ~IsSubmitted(panel[u]) /\ (u \in active => panel[u].content = {})
        /\ added \subseteq active
        /\ \A u \in added : u \notin PanelOf(panel)
        /\ round' = round /\ active' = active /\ kits' = kits
    BY DEF PutInterviewers, Removable
  <1> HIDE DEF removed, added
  <1>3. ASSUME NEW u \in Users
        PROVE  MayBecome(u, panel[u], rows'[round][u])
    <2>1. CASE u \in removed
      BY <1>1, <1>2, <2>1, LeavingIsAbsence DEF MayBecome, IsWritten
    <2>2. CASE u \notin removed /\ u \in added
      <3>1. ~IsWritten(panel[u])
        BY <1>2, <2>2, WrittenIsThere
      <3>2. QED BY <1>1, <1>2, <2>2, <3>1 DEF MayBecome
    <2>3. CASE u \notin removed /\ u \notin added
      BY <1>1, <2>3 DEF MayBecome
    <2>4. QED BY <2>1, <2>2, <2>3
  <1>4. Record!Rearranges
    BY <1>2, <1>3, PutInterviewersIsOrderly, Rearrangement DEF live
  <1>5. ClosesStep \/ UNCHANGED <<rows, stage>>
    BY PutInterviewersCloses
  <1>6. CASE ClosesStep
    BY <1>2, <1>4, <1>6, ClosesTheRecord DEF Record!ChangePanel
  <1>7. CASE UNCHANGED <<rows, stage>>
    BY <1>2, <1>7 DEF Record!vars
  <1>8. QED BY <1>5, <1>6, <1>7

\* Asking for a kit makes the first track of a round, or changes nothing here.
LEMMA GenerateKitIsRecorded ==
    ASSUME TypeOK, RoundsInv, NEW w \in Workers, NEW t \in Tracks, GenerateKit(w, t)
    PROVE  Record!ChangePanel \/ UNCHANGED Record!vars
  <1>1. UNCHANGED <<round, stage, active>>
    BY DEF GenerateKit
  <1>2. \/ TracksOf(live) = {} /\ ClosesStep
        \/ /\ TracksOf(kits'[round]) = TracksOf(live)
           /\ rows' = rows /\ stage' = stage
    BY GenerateKitCloses
  <1>3. CASE TracksOf(live) = {} /\ ClosesStep
    <2>1. kits'[round] = [live EXCEPT ![t] = NewKit]
      BY <1>3 DEF GenerateKit, TypeOK, live
    <2>2. rows'[round] = AdoptOrphanRows([live EXCEPT ![t] = NewKit], panel, t)
      BY <1>3 DEF GenerateKit, TypeOK
    <2>3. TracksOf(kits'[round]) = {t}
      BY <1>3, <2>1, LiveType DEF TracksOf, NewKit
    <2>4. \A u \in Users : MayBecome(u, panel[u], rows'[round][u])
      BY <1>3, <2>1, <2>2, <2>3, AdoptionMayHappen
    <2>5. Record!Rearranges
      BY <1>1, <1>3, <2>4, GenerateKitIsOrderly, Rearrangement
    <2>6. QED BY <1>1, <1>3, <2>5, ClosesTheRecord DEF Record!ChangePanel
  <1>4. CASE /\ TracksOf(kits'[round]) = TracksOf(live)
             /\ rows' = rows /\ stage' = stage
    <2>1. \A r \in Rounds : r # round => kits'[r] = kits[r]
      BY DEF GenerateKit, TypeOK
    <2>2. [r \in Rounds |-> TracksOf(kits'[r])] = [r \in Rounds |-> TracksOf(kits[r])]
      BY <1>4, <2>1 DEF live
    <2>3. QED BY <1>1, <1>4, <2>2 DEF Record!vars
  <1>5. QED BY <1>2, <1>3, <1>4

\* Tracks that are given up have nothing written on them, so scheduling takes
\* empty sheets away or moves them, and no others.
LEMMA StartRoundIsRecorded ==
    ASSUME TypeOK, RoundsInv, NEW w \in Workers, NEW choices \in SUBSET Tracks,
           StartRound(w, choices)
    PROVE  Record!Schedule
  <1> DEFINE ks == [t \in Tracks |-> StartedKit(t, choices)]
             gone == TracksOf(live) \ TracksOf(ks)
             left == [u \in Users |-> IF panel[u].track \in gone THEN NoSheet ELSE panel[u]]
  <1>1. \A t \in Tracks : StartedKit(t, choices) \in Kit
    BY LiveType, KitsOfTheActions DEF StartedKit
  <1>2. ks \in [Tracks -> Kit] /\ left \in [Users -> Sheet]
    BY <1>1, LiveType, SheetsOfTheActions
  <1>3. ASSUME NEW u \in Users, IsWritten(panel[u])
        PROVE  panel[u].track \in TracksOf(ks)
    <2>1. panel[u].track \in TracksOf(live) /\ u \in PanelOf(panel)
      BY <1>3, WrittenIsThere
    <2>2. HasFeedback(panel, panel[u].track)
      BY <1>3, <2>1 DEF HasFeedback, Panel
    <2>3. live[panel[u].track].status # "absent" /\ panel[u].track \in Tracks
      BY <2>1 DEF TracksOf
    <2>4. StartedKit(panel[u].track, choices).status # "absent"
      BY <2>2, <2>3, LiveType DEF StartedKit, Kit
    <2>5. QED BY <2>3, <2>4 DEF TracksOf
  <1>4. \A u \in Users : /\ left[u] = NoSheet \/ left[u] = panel[u]
                         /\ IsWritten(panel[u]) => left[u] = panel[u]
    BY <1>3
  <1>5. PICK first \in TracksOf(ks) :
          /\ kits' = [kits EXCEPT ![round] = ks]
          /\ rows' = [rows EXCEPT ![round] = AdoptOrphanRows(ks, left, first)]
    BY DEF StartRound
  <1> HIDE DEF ks, left, gone
  <1>6. TracksOf(kits'[round]) = TracksOf(ks)
    BY <1>5 DEF TypeOK
  <1>7. rows'[round] = AdoptOrphanRows(ks, left, first) /\ first \in Tracks
    BY <1>5 DEF TypeOK, TracksOf
  <1>8. ASSUME NEW u \in Users
        PROVE  /\ MayBecome(u, panel[u], rows'[round][u])
               /\ rows'[round][u].state # "absent" => panel[u].state # "absent"
               /\ IsWritten(panel[u]) => rows'[round][u] = panel[u]
    <2>1. \/ rows'[round][u] = left[u]
          \/ /\ left[u].state # "absent" /\ left[u].track \notin TracksOf(ks)
             /\ ~IsWritten(left[u]) => rows'[round][u] = EmptySheet(first)
      BY <1>2, <1>7, AdoptionMoves
    <2>2. NoSheet.state = "absent" /\ ~IsWritten(NoSheet)
      BY LeavingIsAbsence
    <2>3. CASE IsWritten(panel[u])
      BY <1>3, <1>4, <2>1, <2>3, WrittenIsThere DEF MayBecome
    <2>4. CASE ~IsWritten(panel[u])
      <3>1. \/ rows'[round][u] = NoSheet \/ rows'[round][u] = panel[u]
            \/ panel[u].state # "absent" /\ rows'[round][u] = EmptySheet(first)
        BY <1>4, <2>1, <2>2, <2>4
      <3>2. QED BY <1>7, <2>2, <2>4, <3>1 DEF MayBecome
    <2>5. QED BY <2>3, <2>4
  <1>9. /\ round' = round /\ active' = active
         /\ stage = "other" /\ stage' = "scheduled"
    BY DEF StartRound
  <1>10. TracksOf(kits'[round]) # {}
    BY <1>6
  <1>11. Record!Rearranges
    BY <1>8, <1>9, <1>10, StartRoundIsOrderly, Rearrangement
  <1>12. [r \in Rounds |-> TracksOf(kits'[r])][round] # {}
    BY <1>10 DEF TypeOK
  <1>13. \A u \in Users : Record!sheet(u) = panel[u] /\ Record!sheet(u)' = rows'[round][u]
    BY <1>9 DEF Record!sheet, panel
  <1>14. QED
    BY <1>8, <1>9, <1>11, <1>12, <1>13, RecordWords DEF Record!Schedule

-----------------------------------------------------------------------------
(* Sheets and rounds.                                                      *)

\* Whoever has a sheet to write on may write on it.
LEMMA TargetsMayBeWritten ==
    ASSUME TypeOK, RoundsInv, NEW u \in Users, u \in active,
           NEW row \in SheetTargets(u), ~IsSubmitted(row)
    PROVE  /\ row.track \in Tracks /\ Record!MayWrite(u, row.track)
           /\ row = [state |-> "draft", track |-> row.track, content |-> panel[u].content]
  <1>1. row \in Sheet /\ row.track \in TracksOf(live) /\ row.state # "absent"
    BY SheetTargetsType
  <1>2. row.track \in Tracks /\ round \in Rounds
    BY <1>1 DEF Sheet, TypeOK
  <1>3. [r \in Rounds |-> TracksOf(kits[r])][round] = TracksOf(live)
    BY <1>2 DEF live
  <1>4. row.state = "draft"
    BY <1>1 DEF Sheet, IsSubmitted
  <1>5. \A v \in Users : Record!sheet(v) = panel[v]
    BY RecordWords
  <1>6. CASE u \in PanelOf(panel)
    <2>1. row = panel[u] /\ panel[u].state # "absent"
      BY <1>6 DEF SheetTargets, PanelOf
    <2>2. Record!MayWrite(u, row.track)
      BY <1>1, <1>3, <1>5, <2>1, RecordWords DEF Record!MayWrite
    <2>3. QED BY <1>1, <1>2, <1>4, <2>1, <2>2 DEF Sheet
  <1>7. CASE u \notin PanelOf(panel)
    <2>1. panel[u].state = "absent" /\ panel[u] = NoSheet
      BY <1>7, LiveIsInOrder DEF PanelOf, InOrder
    <2>2. PICK t \in TracksOf(live) :
            row = EmptySheet(t) /\ u \in Recruiters /\ Panel(panel, t) = {}
      BY <1>7 DEF SheetTargets
    <2>3. row.track = t
      BY <2>2 DEF EmptySheet
    <2>4. \A v \in Users : panel[v].state # "absent" => panel[v].track # t
      BY <2>2 DEF Panel, PanelOf
    <2>5. Record!MayWrite(u, row.track)
      BY <1>1, <1>3, <1>5, <2>1, <2>2, <2>3, <2>4, RecordWords DEF Record!MayWrite
    <2>6. row = [state |-> "draft", track |-> row.track, content |-> panel[u].content]
      BY <2>1, <2>2, <2>3 DEF EmptySheet, NoSheet
    <2>7. QED BY <1>2, <2>5, <2>6
  <1>8. QED BY <1>6, <1>7

LEMMA PatchSheetIsRecorded ==
    ASSUME TypeOK, RoundsInv, NEW u \in Users,
           NEW content \in SUBSET (Questions \cup Notes), PatchSheet(u, content)
    PROVE  \E t \in Tracks : Record!Write(u, t, content)
  <1>1. PICK row \in SheetTargets(u) :
          /\ u \in active /\ ~IsSubmitted(row)
          /\ rows' = [rows EXCEPT ![round][u] = [row EXCEPT !.content = content]]
          /\ UNCHANGED <<round, stage, kits, active>>
    BY DEF PatchSheet
  <1>2. /\ row.track \in Tracks /\ Record!MayWrite(u, row.track)
        /\ row = [state |-> "draft", track |-> row.track, content |-> panel[u].content]
    BY <1>1, TargetsMayBeWritten
  <1>3. [row EXCEPT !.content = content] = Record!Draft(row.track, content)
    BY <1>2 DEF Record!Draft
  <1>4. [r \in Rounds |-> TracksOf(kits'[r])] = [r \in Rounds |-> TracksOf(kits[r])]
    BY <1>1
  <1>5. Record!Write(u, row.track, content)
    BY <1>1, <1>2, <1>3, <1>4 DEF Record!Write
  <1>6. QED BY <1>2, <1>5

LEMMA SubmitSheetIsRecorded ==
    ASSUME TypeOK, RoundsInv, NEW u \in Users, SubmitSheet(u)
    PROVE  \E t \in Tracks : Record!Submit(u, t)
  <1>1. PICK row \in SheetTargets(u) :
          /\ u \in active /\ ~IsSubmitted(row)
          /\ rows' = [rows EXCEPT ![round][u] = [row EXCEPT !.state = "submitted"]]
    BY DEF SubmitSheet
  <1>2. UNCHANGED <<round, kits, active>> /\ CloseRoundIfComplete(live, rows'[round])
    BY DEF SubmitSheet
  <1>3. /\ row.track \in Tracks /\ Record!MayWrite(u, row.track)
        /\ row = [state |-> "draft", track |-> row.track, content |-> panel[u].content]
    BY <1>1, TargetsMayBeWritten
  <1>4. [row EXCEPT !.state = "submitted"] = Record!Submitted(row.track, Record!sheet(u).content)
    BY <1>3, RecordWords DEF Record!Submitted
  <1>5. [r \in Rounds |-> TracksOf(kits'[r])] = [r \in Rounds |-> TracksOf(kits[r])]
    BY <1>2
  <1>6. kits'[round] = live
    BY <1>2 DEF live
  <1>7. ClosesStep
    BY <1>2, <1>6 DEF CloseRoundIfComplete, ClosesStep
  <1>8. Record!ClosesIfComplete
    BY <1>2, <1>7, ClosesTheRecord
  <1>9. Record!Submit(u, row.track)
    BY <1>1, <1>2, <1>3, <1>4, <1>5, <1>8 DEF Record!Submit
  <1>10. QED BY <1>3, <1>9

\* The next round was blank, so what it holds is what the request has put there.
LEMMA OpenNextRoundIsRecorded ==
    ASSUME TypeOK, RoundsInv, NEW w \in Workers, NEW choices \in SUBSET Tracks,
           OpenNextRound(w, choices)
    PROVE  \E chosen \in SUBSET Tracks : Record!Reopen(chosen)
  <1> DEFINE next == round + 1
             fresh == choices \ TracksOf(live)
             ks == [t \in Tracks |-> IF t \notin choices THEN NoKit
                                     ELSE IF t \in fresh THEN NewKit ELSE live[t]]
             noKitYet == TracksOf(live) = {} /\ choices = {Default}
             tr == [r \in Rounds |-> TracksOf(kits[r])]
             ntr == [r \in Rounds |-> TracksOf(kits'[r])]
  <1>1. /\ round \in Rounds /\ next \in Rounds /\ round' = next
        /\ stage = "interviewed" /\ stage' = "scheduled" /\ active' = active /\ choices # {}
    BY ConstantsAssumption DEF OpenNextRound, TypeOK, Rounds
  <1>2. tr[round] = TracksOf(live) /\ tr[next] = {}
    <2>1. TracksOf(kits[next]) = {}
      BY <1>1 DEF RoundsInv, FutureIsBlank, Rounds
    <2>2. QED BY <1>1, <2>1 DEF live
  <1>3. \A u \in Users : Record!sheet(u) = panel[u]
    BY RecordWords
  <1>4. \A u \in Users : CarriedRow(panel[u]) =
            IF Record!IsThere(panel[u]) THEN Record!Draft(panel[u].track, {}) ELSE Record!NoSheet
    BY RecordWords DEF CarriedRow
  <1>5. CASE noKitYet
    <2>1. rows' = [rows EXCEPT ![next] = [u \in Users |-> CarriedRow(panel[u])]] /\ kits' = kits
      BY <1>5 DEF OpenNextRound
    <2>2. ntr = tr /\ tr = [tr EXCEPT ![next] = {}]
      BY <1>2, <2>1
    <2> HIDE DEF tr, ntr
    <2>3. [u \in Users |-> CarriedRow(panel[u])] =
              [u \in Users |-> IF Record!IsThere(Record!sheet(u))
                               THEN Record!Draft(Record!sheet(u).track, {}) ELSE Record!NoSheet]
      BY <1>3, <1>4
    <2>4. Record!Reopen({})
      BY <1>1, <1>2, <1>5, <2>1, <2>2, <2>3 DEF Record!Reopen, tr, ntr
    <2>5. QED BY <2>4
  <1>6. CASE ~noKitYet
    <2>1. /\ kits' = [kits EXCEPT ![next] = ks]
          /\ rows' = [rows EXCEPT ![next] =
                 [u \in Users |-> IF panel[u].track \in choices \cap TracksOf(live)
                                  THEN CarriedRow(panel[u]) ELSE NoSheet]]
      BY <1>6 DEF OpenNextRound
    <2>2. TracksOf(ks) = choices /\ ks \in [Tracks -> Kit]
      BY LiveType, KitsOfTheActions DEF TracksOf, NoKit, NewKit
    <2>3. TracksOf(kits'[next]) = choices
      BY <1>1, <2>1, <2>2 DEF TypeOK
    <2>4. \A r \in Rounds : r # next => kits'[r] = kits[r]
      BY <2>1 DEF TypeOK
    <2>5. ntr = [tr EXCEPT ![next] = choices]
      BY <2>3, <2>4
    <2> HIDE DEF tr, ntr, ks
    <2>6. \A u \in Users :
              (IF panel[u].track \in choices \cap TracksOf(live)
               THEN CarriedRow(panel[u]) ELSE NoSheet) =
              IF /\ Record!IsThere(Record!sheet(u))
                 /\ choices = {} \/ Record!sheet(u).track \in choices \cap tr[round]
              THEN Record!Draft(Record!sheet(u).track, {}) ELSE Record!NoSheet
      BY <1>1, <1>2, <1>3, <1>4, RecordWords
    <2>7. rows' = [rows EXCEPT ![next] =
              [u \in Users |->
                  IF /\ Record!IsThere(Record!sheet(u))
                     /\ choices = {} \/ Record!sheet(u).track \in choices \cap tr[round]
                  THEN Record!Draft(Record!sheet(u).track, {}) ELSE Record!NoSheet]]
      BY <2>1, <2>6
    <2>8. Record!Reopen(choices)
      BY <1>1, <2>5, <2>7 DEF Record!Reopen, tr, ntr
    <2>9. QED BY <2>8
  <1>7. QED BY <1>5, <1>6

-----------------------------------------------------------------------------
\* Generations and edits of a kit leave the record alone.
LEMMA KitContentIsNotRecorded ==
    ASSUME TypeOK, NEW w \in Workers,
           \/ \E u \in Users, t \in Tracks, sent \in SUBSET Questions : PatchKitReads(w, u, t, sent)
           \/ PatchKitCommits(w)
           \/ Generation(w)
    PROVE  UNCHANGED Record!vars
  <1>1. UNCHANGED <<round, stage, rows, active>>
    BY DEF PatchKitReads, PatchKitCommits, Generation, Dispatches, GenerationLoads,
           GenerationStores
  <1>2. \A r \in Rounds : TracksOf(kits'[r]) = TracksOf(kits[r])
    BY PatchKitTracks, GenerationTracks
  <1>3. QED BY <1>1, <1>2 DEF Record!vars

LEMMA RecordInit == Init => Record!Init
  <1> SUFFICES ASSUME Init PROVE Record!Init
    OBVIOUS
  <1>1. \A r \in Rounds : TracksOf(kits[r]) = {}
    BY DEF Init, TracksOf, NoKit
  <1>2. QED BY <1>1 DEF Init, Record!Init, NoSheet, Record!NoSheet

LEMMA RecordStep == TypeOK /\ RoundsInv /\ [Next]_vars => [Record!Next]_(Record!vars)
  <1> SUFFICES ASSUME TypeOK, RoundsInv, [Next]_vars
               PROVE  Record!Next \/ UNCHANGED Record!vars
    OBVIOUS
  <1>1. CASE UNCHANGED vars
    BY <1>1 DEF vars, Record!vars
  <1>2. CASE Scheduling
    <2>1. ASSUME NEW w \in Workers, NEW choices \in SUBSET Tracks, StartRound(w, choices)
          PROVE  Record!Next
      BY <2>1, StartRoundIsRecorded DEF Record!Next
    <2>2. ASSUME NEW w \in Workers, NEW choices \in SUBSET Tracks, OpenNextRound(w, choices)
          PROVE  Record!Next
      BY <2>2, OpenNextRoundIsRecorded DEF Record!Next
    <2>3. CASE CloseByHand
      BY <2>3 DEF CloseByHand, Record!Close, Record!Next
    <2>4. CASE LeaveInterview
      BY <2>4 DEF LeaveInterview, Record!Leave, Record!Next
    <2>5. ASSUME NEW w \in Workers, NEW t \in Tracks, AddTrack(w, t)
          PROVE  Record!Next
      BY <2>5, AddTrackIsRecorded DEF Record!Next
    <2>6. ASSUME NEW t \in Tracks, RemoveTrack(t)
          PROVE  Record!Next
      BY <2>6, RemoveTrackIsRecorded DEF Record!Next
    <2>7. QED BY <1>2, <2>1, <2>2, <2>3, <2>4, <2>5, <2>6 DEF Scheduling
  <1>3. CASE PanelWork
    <2>1. ASSUME NEW t \in Tracks, NEW wanted \in SUBSET Users, PutInterviewers(t, wanted)
          PROVE  Record!Next \/ UNCHANGED Record!vars
      BY <2>1, PutInterviewersIsRecorded DEF Record!Next
    <2>2. ASSUME NEW u \in Users, SetActive(u)
          PROVE  Record!Next
      BY <2>2 DEF SetActive, Record!SetActive, Record!Next
    <2>3. ASSUME NEW u \in Users, NEW content \in SUBSET (Questions \cup Notes),
                 PatchSheet(u, content)
          PROVE  Record!Next
      BY <2>3, PatchSheetIsRecorded DEF Record!Next
    <2>4. ASSUME NEW u \in Users, SubmitSheet(u)
          PROVE  Record!Next
      BY <2>4, SubmitSheetIsRecorded DEF Record!Next
    <2>5. QED BY <1>3, <2>1, <2>2, <2>3, <2>4 DEF PanelWork
  <1>4. ASSUME NEW w \in Workers, NEW t \in Tracks, GenerateKit(w, t)
        PROVE  Record!Next \/ UNCHANGED Record!vars
    BY <1>4, GenerateKitIsRecorded DEF Record!Next
  <1>5. CASE KitWork
    BY <1>4, <1>5, KitContentIsNotRecorded DEF KitWork
  <1>6. ASSUME NEW ws \in SUBSET Workers, Cut(ws)
        PROVE  UNCHANGED Record!vars
    BY <1>6 DEF Cut, Record!vars
  <1>7. QED BY <1>1, <1>2, <1>3, <1>5, <1>6, KitContentIsNotRecorded, NextCuts

\* However requests, generations and edits of kits interleave, the interviews of
\* an application are a behaviour of the record: written sheets stay, people and
\* tracks move around them, rounds close when complete and open one by one.
THEOREM RoundsImplementRecord == Spec => ImplementsRecord
  <1>1. TypeOK /\ RoundsInv /\ [Next]_vars => [Record!Next]_(Record!vars)
    BY RecordStep
  <1>2. QED BY <1>1, RecordInit, RoundsInvariant, PTL DEF Spec, ImplementsRecord, Record!Spec
=============================================================================
