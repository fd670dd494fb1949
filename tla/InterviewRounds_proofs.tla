------------------------ MODULE InterviewRounds_proofs ------------------------
(***************************************************************************)
(* Proofs about InterviewRounds, for any panel, any tracks, any number of  *)
(* rounds and of coroutines.                                               *)
(***************************************************************************)
EXTENDS InterviewRounds, TLAPS

\* The kind of a coroutine tells which record it is.
LEMMA WorkerOfKind ==
    ASSUME NEW rec \in Worker
    PROVE  /\ rec.kind \in {"scheduled", "added"} => rec \in Requested
           /\ rec.kind = "queued" => rec \in Queued
           /\ rec.kind = "running" => rec \in Running
           /\ rec.kind = "patch" => rec \in Patches
  BY DEF Worker, Idle, Requested, Queued, Running, Patches

\* What requests ask a worker for.
LEMMA AskedFor ==
    ASSUME NEW todo \in SUBSET Tracks, NEW r \in Rounds
    PROVE  /\ Scheduled(todo, r) \in Worker
           /\ [kind |-> "added", todo |-> todo, round |-> r] \in Worker
           /\ [kind |-> "queued", todo |-> todo] \in Worker
           /\ Scheduled(todo, r).todo = todo
  BY DEF Worker, Requested, Queued, Scheduled

\* The records of kits and sheets the actions make are kits and sheets.
LEMMA KitsOfTheActions ==
    /\ NoKit \in Kit /\ NewKit \in Kit
    /\ \A kit \in Kit, s \in {"generating", "ready", "error"} : [kit EXCEPT !.status = s] \in Kit
    /\ \A kit \in Kit, qs \in SUBSET Questions : [kit EXCEPT !.questions = qs] \in Kit
  BY DEF Kit, NoKit, NewKit

LEMMA SheetsOfTheActions ==
    /\ NoSheet \in Sheet
    /\ \A t \in Tracks : EmptySheet(t) \in Sheet
    /\ \A sheet \in Sheet, t \in Tracks : [sheet EXCEPT !.track = t] \in Sheet
    /\ \A sheet \in Sheet, c \in SUBSET (Questions \cup Notes) :
           [sheet EXCEPT !.content = c] \in Sheet
    /\ \A sheet \in Sheet : [sheet EXCEPT !.state = "submitted"] \in Sheet
  BY DEF Sheet, NoSheet, EmptySheet, Tracks

\* A session that loses the kit it read stays the coroutine it was.
LEMMA WithoutKitsType ==
    ASSUME NEW rec \in Worker, NEW ts
    PROVE  WithoutKits(rec, ts) \in Worker
  <1>1. CASE rec.kind \in {"running", "patch"}
    <2>1. rec \in Running \/ rec \in Patches
      BY <1>1, WorkerOfKind
    <2>2. [rec EXCEPT !.there = FALSE] \in Worker
      BY <2>1 DEF Running, Patches, Worker
    <2>3. QED BY <2>2 DEF WithoutKits
  <1>2. CASE rec.kind \notin {"running", "patch"}
    BY <1>2 DEF WithoutKits
  <1>3. QED BY <1>1, <1>2

LEMMA AsksType ==
    ASSUME TypeOK, NEW w \in Workers, NEW rec \in Worker, NEW gone, Asks(w, rec, gone)
    PROVE  workers' \in [Workers -> Worker] /\ cut' \subseteq Tracks
  <1>1. \A v \in Workers : WithoutKits(workers[v], gone) \in Worker
    BY WithoutKitsType DEF TypeOK
  <1>2. QED BY <1>1 DEF Asks, TypeOK

LEMMA FailedType ==
    ASSUME NEW ks \in [Tracks -> Kit], NEW failed
    PROVE  Failed(ks, failed) \in [Tracks -> Kit]
  BY KitsOfTheActions DEF Failed

\* A track that has failed still is a track of its round.
LEMMA FailedTracks ==
    ASSUME NEW ks \in [Tracks -> Kit], NEW failed \in SUBSET TracksOf(ks)
    PROVE  TracksOf(Failed(ks, failed)) = TracksOf(ks)
  BY DEF Failed, TracksOf, Kit

LEMMA AdoptType ==
    ASSUME NEW ks, NEW rs \in [Users -> Sheet], NEW first \in Tracks
    PROVE  AdoptOrphanRows(ks, rs, first) \in [Users -> Sheet]
  BY SheetsOfTheActions DEF AdoptOrphanRows

LEMMA SheetTargetsType ==
    ASSUME TypeOK, NEW u \in Users, NEW row \in SheetTargets(u)
    PROVE  row \in Sheet /\ row.track \in TracksOf(live) /\ row.state # "absent"
  <1>1. panel[u] \in Sheet
    BY DEF TypeOK, panel
  <1>2. QED BY <1>1, SheetsOfTheActions DEF SheetTargets, TracksOf, EmptySheet, PanelOf

LEMMA LiveType ==
    ASSUME TypeOK
    PROVE  /\ live \in [Tracks -> Kit] /\ panel \in [Users -> Sheet]
           /\ round \in Rounds
  BY DEF TypeOK, live, panel

-----------------------------------------------------------------------------
LEMMA InitType == Init => TypeOK
  BY ConstantsAssumption, KitsOfTheActions, SheetsOfTheActions
     DEF Init, TypeOK, Rounds, Stages, Worker

\* The kits and the rows that start_round makes of the live ones.
LEMMA StartRoundType ==
    ASSUME TypeOK, NEW w \in Workers, NEW choices \in SUBSET Tracks, StartRound(w, choices)
    PROVE  TypeOK'
  <1> DEFINE ks == [t \in Tracks |-> StartedKit(t, choices)]
             gone == TracksOf(live) \ TracksOf(ks)
             left == [u \in Users |-> IF panel[u].track \in gone THEN NoSheet ELSE panel[u]]
             todo == {t \in choices : ks[t].status = "generating"}
  <1>1. \A t \in Tracks : StartedKit(t, choices) \in Kit
    BY LiveType, KitsOfTheActions DEF StartedKit
  <1>2. ks \in [Tracks -> Kit]
    BY <1>1
  <1>3. left \in [Users -> Sheet]
    BY LiveType, SheetsOfTheActions
  <1> HIDE DEF ks, left
  <1>4. PICK first \in TracksOf(ks) :
          /\ kits' = [kits EXCEPT ![round] = ks]
          /\ rows' = [rows EXCEPT ![round] = AdoptOrphanRows(ks, left, first)]
          /\ Asks(w, Scheduled(todo, round), gone)
          /\ stage' = "scheduled"
          /\ UNCHANGED <<round, active>>
    BY DEF StartRound, ks, left
  <1>5. Scheduled(todo, round) \in Worker
    BY LiveType, AskedFor
  <1>6. AdoptOrphanRows(ks, left, first) \in [Users -> Sheet]
    BY <1>3, AdoptType DEF TracksOf
  <1>7. workers' \in [Workers -> Worker] /\ cut' \subseteq Tracks
    BY <1>4, <1>5, AsksType
  <1>8. QED BY <1>2, <1>4, <1>6, <1>7 DEF TypeOK, Stages

LEMMA OpenNextRoundType ==
    ASSUME TypeOK, NEW w \in Workers, NEW choices \in SUBSET Tracks, OpenNextRound(w, choices)
    PROVE  TypeOK'
  <1> DEFINE fresh == choices \ TracksOf(live)
             ks == [t \in Tracks |-> IF t \notin choices THEN NoKit
                                     ELSE IF t \in fresh THEN NewKit ELSE live[t]]
             carried == [u \in Users |-> CarriedRow(panel[u])]
             chosen == [u \in Users |-> IF panel[u].track \in choices \cap TracksOf(live)
                                        THEN CarriedRow(panel[u]) ELSE NoSheet]
  <1>1. round \in Rounds /\ round + 1 \in Rounds
    BY ConstantsAssumption DEF OpenNextRound, TypeOK, Rounds
  <1>2. ks \in [Tracks -> Kit]
    BY LiveType, KitsOfTheActions
  <1>3. \A u \in Users : CarriedRow(panel[u]) \in Sheet
    BY LiveType, SheetsOfTheActions DEF CarriedRow, Sheet
  <1>4. carried \in [Users -> Sheet] /\ chosen \in [Users -> Sheet]
    BY <1>3, SheetsOfTheActions
  <1>5. \/ rows' = [rows EXCEPT ![round + 1] = carried] /\ UNCHANGED <<kits, workers, cut>>
        \/ /\ kits' = [kits EXCEPT ![round + 1] = ks]
           /\ rows' = [rows EXCEPT ![round + 1] = chosen]
           /\ Asks(w, Scheduled(fresh, round + 1), {})
    BY DEF OpenNextRound
  <1>6. round' = round + 1 /\ stage' = "scheduled" /\ UNCHANGED active
    BY DEF OpenNextRound
  <1> HIDE DEF ks, carried, chosen
  <1>7. CASE rows' = [rows EXCEPT ![round + 1] = carried] /\ UNCHANGED <<kits, workers, cut>>
    BY <1>1, <1>4, <1>6, <1>7 DEF TypeOK, Stages
  <1>8. CASE /\ kits' = [kits EXCEPT ![round + 1] = ks]
             /\ rows' = [rows EXCEPT ![round + 1] = chosen]
             /\ Asks(w, Scheduled(fresh, round + 1), {})
    <2>1. workers' \in [Workers -> Worker] /\ cut' \subseteq Tracks
      BY <1>1, <1>8, AskedFor, AsksType
    <2>2. QED BY <1>1, <1>2, <1>4, <1>6, <1>8, <2>1 DEF TypeOK, Stages
  <1>9. QED BY <1>5, <1>7, <1>8

LEMMA AddTrackType ==
    ASSUME TypeOK, NEW w \in Workers, NEW t \in Tracks, AddTrack(w, t)
    PROVE  TypeOK'
  <1> DEFINE ks == [live EXCEPT ![t] = NewKit]
  <1>1. ks \in [Tracks -> Kit]
    BY LiveType, KitsOfTheActions
  <1>2. PICK first \in TracksOf(ks) :
          /\ kits' = [kits EXCEPT ![round] = ks]
          /\ rows' = [rows EXCEPT ![round] = AdoptOrphanRows(ks, panel, first)]
    BY DEF AddTrack
  <1>3. /\ Asks(w, [kind |-> "added", todo |-> {t}, round |-> round], {})
        /\ UNCHANGED <<round, stage, active>>
    BY DEF AddTrack
  <1> HIDE DEF ks
  <1>4. AdoptOrphanRows(ks, panel, first) \in [Users -> Sheet]
    BY LiveType, AdoptType DEF TracksOf
  <1>5. workers' \in [Workers -> Worker] /\ cut' \subseteq Tracks
    BY <1>3, LiveType, AskedFor, AsksType
  <1>6. QED BY <1>1, <1>2, <1>3, <1>4, <1>5 DEF TypeOK

LEMMA RemoveTrackType ==
    ASSUME TypeOK, NEW t \in Tracks, RemoveTrack(t)
    PROVE  TypeOK'
  <1>1. \A w \in Workers : WithoutKits(workers[w], {t}) \in Worker
    BY WithoutKitsType DEF TypeOK
  <1>2. [u \in Users |-> IF panel[u].track = t THEN NoSheet ELSE panel[u]] \in [Users -> Sheet]
    BY LiveType, SheetsOfTheActions
  <1>3. stage' \in Stages
    BY DEF RemoveTrack, CloseRoundIfComplete, TypeOK, Stages
  <1>4. kits' \in [Rounds -> [Tracks -> Kit]]
    BY KitsOfTheActions DEF RemoveTrack, TypeOK
  <1>5. QED BY <1>1, <1>2, <1>3, <1>4 DEF RemoveTrack, TypeOK

LEMMA PutInterviewersType ==
    ASSUME TypeOK, NEW t \in Tracks, NEW wanted \in SUBSET Users, PutInterviewers(t, wanted)
    PROVE  TypeOK'
  <1> DEFINE removed == Panel(panel, t) \ wanted
             added == wanted \ Panel(panel, t)
             rs == [u \in Users |-> IF u \in removed THEN NoSheet
                                    ELSE IF u \in added THEN EmptySheet(t) ELSE panel[u]]
  <1>1. rs \in [Users -> Sheet]
    BY LiveType, SheetsOfTheActions
  <1>2. rows' = [rows EXCEPT ![round] = rs] /\ UNCHANGED <<round, kits, active, workers, cut>>
    BY DEF PutInterviewers
  <1>3. stage' \in Stages
    BY DEF PutInterviewers, CloseRoundIfComplete, TypeOK, Stages
  <1> HIDE DEF rs
  <1>4. QED BY <1>1, <1>2, <1>3 DEF TypeOK

LEMMA SheetsType ==
    ASSUME TypeOK, NEW u \in Users,
           \/ \E content \in SUBSET (Questions \cup Notes) : PatchSheet(u, content)
           \/ SubmitSheet(u)
    PROVE  TypeOK'
  <1>1. ASSUME NEW content \in SUBSET (Questions \cup Notes), PatchSheet(u, content)
        PROVE  TypeOK'
    <2>1. PICK row \in SheetTargets(u) :
            /\ rows' = [rows EXCEPT ![round][u] = [row EXCEPT !.content = content]]
            /\ UNCHANGED <<round, stage, kits, active, workers, cut>>
      BY <1>1 DEF PatchSheet
    <2>2. [row EXCEPT !.content = content] \in Sheet
      BY SheetTargetsType, SheetsOfTheActions
    <2>3. QED BY <2>1, <2>2 DEF TypeOK
  <1>2. ASSUME SubmitSheet(u)
        PROVE  TypeOK'
    <2>1. PICK row \in SheetTargets(u) :
            rows' = [rows EXCEPT ![round][u] = [row EXCEPT !.state = "submitted"]]
      BY <1>2 DEF SubmitSheet
    <2>2. [row EXCEPT !.state = "submitted"] \in Sheet
      BY SheetTargetsType, SheetsOfTheActions
    <2>3. stage' \in Stages /\ UNCHANGED <<round, kits, active, workers, cut>>
      BY <1>2 DEF SubmitSheet, CloseRoundIfComplete, TypeOK, Stages
    <2>4. QED BY <2>1, <2>2, <2>3 DEF TypeOK
  <1>3. QED BY <1>1, <1>2

LEMMA PatchKitType ==
    ASSUME TypeOK, NEW w \in Workers,
           \/ \E u \in Users, t \in Tracks, sent \in SUBSET Questions : PatchKitReads(w, u, t, sent)
           \/ PatchKitCommits(w)
    PROVE  TypeOK'
  <1>1. ASSUME NEW u \in Users, NEW t \in Tracks, NEW sent \in SUBSET Questions,
               PatchKitReads(w, u, t, sent)
        PROVE  TypeOK'
    <2>1. live[t].questions \subseteq Questions
      BY LiveType DEF Kit
    <2>2. [kind |-> "patch", round |-> round, track |-> t, there |-> TRUE,
           seen |-> live[t].questions, sent |-> sent] \in Worker
      BY <2>1, LiveType DEF Worker, Patches
    <2>3. QED BY <1>1, <2>2 DEF PatchKitReads, Becomes, TypeOK
  <1>2. ASSUME PatchKitCommits(w)
        PROVE  TypeOK'
    <2>1. workers[w] \in Patches
      BY <1>2, WorkerOfKind DEF PatchKitCommits, TypeOK
    <2>2. kits' \in [Rounds -> [Tracks -> Kit]]
      <3>1. /\ workers[w].round \in Rounds /\ workers[w].track \in Tracks
            /\ workers[w].sent \in SUBSET Questions
        BY <2>1 DEF Patches
      <3>2. [kits[workers[w].round][workers[w].track] EXCEPT !.questions = workers[w].sent] \in Kit
        BY <3>1, KitsOfTheActions DEF TypeOK
      <3>3. QED BY <1>2, <3>1, <3>2 DEF PatchKitCommits, TypeOK
    <2>3. QED BY <1>2, <2>2 DEF PatchKitCommits, Becomes, TypeOK, Worker
  <1>3. QED BY <1>1, <1>2

LEMMA GenerateKitType ==
    ASSUME TypeOK, NEW w \in Workers, NEW t \in Tracks, GenerateKit(w, t)
    PROVE  TypeOK'
  <1> DEFINE first == TracksOf(live) = {}
             ks == [live EXCEPT ![t] = IF first THEN NewKit ELSE [@ EXCEPT !.status = "generating"]]
             rs == IF first THEN AdoptOrphanRows(ks, panel, t) ELSE panel
  <1>1. ks \in [Tracks -> Kit]
    BY LiveType, KitsOfTheActions
  <1>2. rs \in [Users -> Sheet]
    BY LiveType, AdoptType
  <1>3. \/ /\ kits' = [kits EXCEPT ![round][t].status = "ready"]
           /\ UNCHANGED <<rows, workers, cut>>
        \/ /\ kits' = [kits EXCEPT ![round] = ks] /\ rows' = [rows EXCEPT ![round] = rs]
           /\ Asks(w, [kind |-> "queued", todo |-> {t}], {})
    BY DEF GenerateKit
  <1>4. UNCHANGED <<round, stage, active>>
    BY DEF GenerateKit
  <1> HIDE DEF ks, rs
  <1>5. CASE /\ kits' = [kits EXCEPT ![round][t].status = "ready"]
             /\ UNCHANGED <<rows, workers, cut>>
    <2>1. [kits[round][t] EXCEPT !.status = "ready"] \in Kit
      BY KitsOfTheActions DEF TypeOK
    <2>2. QED BY <1>4, <1>5, <2>1 DEF TypeOK
  <1>6. CASE /\ kits' = [kits EXCEPT ![round] = ks] /\ rows' = [rows EXCEPT ![round] = rs]
             /\ Asks(w, [kind |-> "queued", todo |-> {t}], {})
    <2>1. workers' \in [Workers -> Worker] /\ cut' \subseteq Tracks
      BY <1>6, LiveType, AskedFor, AsksType
    <2>2. QED BY <1>1, <1>2, <1>4, <1>6, <2>1 DEF TypeOK
  <1>7. QED BY <1>3, <1>5, <1>6

\* What a run makes of the copy it read, and what its session then writes, is a
\* kit that exists.
LEMMA GeneratedKitType ==
    ASSUME NEW seen \in Kit, NEW rs, NEW t, NEW fails \in BOOLEAN,
           NEW fixed \in SUBSET Baseline, NEW generated \in SUBSET Probes
    PROVE  /\ GeneratedKit(seen, rs, t, fails, fixed, generated) \in Kit
           /\ GeneratedKit(seen, rs, t, fails, fixed, generated).status # "absent"
  <1>1. seen.questions \subseteq Questions
    BY DEF Kit
  <1>2. MergeRegenerated(seen.questions, AnsweredIds(rs, t), fixed, generated)
            \subseteq Questions
    BY <1>1 DEF MergeRegenerated, Questions
  <1>3. fixed \cup generated \subseteq Questions
    BY DEF Questions
  <1>4. /\ [seen EXCEPT !.status = "ready"] \in Kit
        /\ [seen EXCEPT !.status = "ready"].status = "ready"
    BY DEF Kit
  <1>5. \A qs \in SUBSET Questions, st \in {"ready", "error"} :
            [status |-> st, questions |-> qs] \in Kit
    BY DEF Kit
  <1>6. QED BY <1>1, <1>2, <1>3, <1>4, <1>5 DEF GeneratedKit

LEMMA WrittenType ==
    ASSUME NEW cur \in Kit, NEW seen \in Kit, NEW new \in Kit,
           cur.status # "absent", new.status # "absent"
    PROVE  Written(cur, seen, new) \in Kit /\ Written(cur, seen, new).status # "absent"
  BY DEF Written, Kit

\* The step that stores a result changes one kit of the live round, if any.
LEMMA GenerationStoresKit ==
    ASSUME TypeOK, NEW w \in Workers, NEW fails \in BOOLEAN,
           NEW fixed \in SUBSET Baseline, NEW generated \in SUBSET Probes,
           GenerationStores(w, fails, fixed, generated)
    PROVE  \/ kits' = kits
           \/ \E t \in TracksOf(live), kit \in Kit :
                  kit.status # "absent" /\ kits' = [kits EXCEPT ![round][t] = kit]
  <1>1. workers[w] \in Running
    BY WorkerOfKind DEF GenerationStores, TypeOK
  <1> DEFINE me == workers[w]
             copy == IF me.there THEN me.seen ELSE live[me.track]
             new == GeneratedKit(me.seen, panel, me.track, fails, fixed, generated)
  <1>2. me.seen \in Kit /\ me.track \in Tracks
    BY <1>1 DEF Running
  <1>3. copy \in Kit
    BY <1>2, LiveType
  <1>4. new \in Kit /\ new.status # "absent"
    BY <1>2, GeneratedKitType
  <1>5. \/ kits' = kits
        \/ /\ me.track \in TracksOf(live)
           /\ kits' = [kits EXCEPT ![round][me.track] = Written(kits[round][me.track], copy, new)]
    BY DEF GenerationStores
  <1> HIDE DEF me, copy, new
  <1>6. CASE /\ me.track \in TracksOf(live)
             /\ kits' = [kits EXCEPT ![round][me.track] = Written(kits[round][me.track], copy, new)]
    <2>1. kits[round][me.track] \in Kit /\ kits[round][me.track].status # "absent"
      BY <1>6, LiveType DEF live, TracksOf
    <2>2. /\ Written(kits[round][me.track], copy, new) \in Kit
          /\ Written(kits[round][me.track], copy, new).status # "absent"
      BY <1>3, <1>4, <2>1, WrittenType
    <2>3. QED BY <1>6, <2>2
  <1>7. QED BY <1>5, <1>6

\* A dispatch writes the kits of one round that has begun or been asked for.
LEMMA DispatchedRound ==
    ASSUME TypeOK, NEW w \in Workers, Dispatches(w)
    PROVE  \E r \in Rounds \cap DispatchRounds(workers[w]) :
               \E failed \in MayFail(workers[w].todo) :
                   /\ kits' = [kits EXCEPT ![r] = Failed(@, failed \cap TracksOf(@))]
                   /\ Continues(w, (workers[w].todo \ failed) \cap TracksOf(kits[r]))
  <1>1. workers[w] \in Requested
    BY WorkerOfKind DEF Dispatches, TypeOK
  <1>2. workers[w].round \in Rounds /\ round \in Rounds
    BY <1>1 DEF Requested, TypeOK
  <1>3. DispatchRounds(workers[w]) \subseteq Rounds
    BY <1>2, ConstantsAssumption DEF DispatchRounds, Rounds
  <1>4. QED BY <1>3 DEF Dispatches

LEMMA GenerationType ==
    ASSUME TypeOK, NEW w \in Workers, Generation(w)
    PROVE  TypeOK'
  <1>1. ASSUME NEW t \in Tracks, GenerationLoads(w, t)
        PROVE  TypeOK'
    <2>1. workers[w] \in Queued
      BY <1>1, WorkerOfKind DEF GenerationLoads, TypeOK
    <2>2. workers[w].todo \ {t} \subseteq Tracks
      BY <2>1 DEF Queued
    <2>3. [kind |-> "running", todo |-> workers[w].todo \ {t}, round |-> round,
           track |-> t, there |-> t \in TracksOf(live), seen |-> live[t]] \in Worker
      BY <2>2, LiveType DEF Worker, Running
    <2>4. QED BY <1>1, <2>3 DEF GenerationLoads, Becomes, TypeOK
  <1>2. ASSUME NEW fails \in BOOLEAN, NEW fixed \in SUBSET Baseline,
               NEW generated \in SUBSET Probes, GenerationStores(w, fails, fixed, generated)
        PROVE  TypeOK'
    <2>1. kits' \in [Rounds -> [Tracks -> Kit]]
      <3>1. \/ kits' = kits
            \/ \E t \in TracksOf(live), kit \in Kit :
                  kit.status # "absent" /\ kits' = [kits EXCEPT ![round][t] = kit]
        BY <1>2, GenerationStoresKit
      <3>2. TracksOf(live) \subseteq Tracks
        BY DEF TracksOf
      <3>3. ASSUME NEW t \in TracksOf(live), NEW kit \in Kit,
                   kits' = [kits EXCEPT ![round][t] = kit]
            PROVE  kits' \in [Rounds -> [Tracks -> Kit]]
        <4>1. t \in Tracks /\ round \in Rounds /\ kits \in [Rounds -> [Tracks -> Kit]]
          BY <3>2 DEF TypeOK
        <4>2. [kits[round] EXCEPT ![t] = kit] \in [Tracks -> Kit]
          BY <4>1
        <4>3. QED BY <3>3, <4>1, <4>2
      <3>4. QED BY <3>1, <3>3 DEF TypeOK
    <2>2. workers[w] \in Running
      BY <1>2, WorkerOfKind DEF GenerationStores, TypeOK
    <2>3. [kind |-> "queued", todo |-> workers[w].todo] \in Worker /\ Idle \in Worker
      BY <2>2 DEF Running, Worker, Queued
    <2>4. workers' \in [Workers -> Worker]
      BY <1>2, <2>3 DEF GenerationStores, Continues, Becomes, TypeOK
    <2>5. UNCHANGED <<round, stage, rows, active, cut>>
      BY <1>2 DEF GenerationStores
    <2>6. QED BY <2>1, <2>4, <2>5 DEF TypeOK
  <1>3. ASSUME Dispatches(w) PROVE TypeOK'
    <2>1. PICK r \in Rounds :
            \E failed \in MayFail(workers[w].todo) :
                kits' = [kits EXCEPT ![r] = Failed(@, failed \cap TracksOf(@))]
      BY <1>3, DispatchedRound
    <2>2. kits' \in [Rounds -> [Tracks -> Kit]]
      BY <2>1, FailedType DEF TypeOK
    <2>3. workers[w].todo \subseteq Tracks
      BY <1>3, WorkerOfKind DEF Dispatches, TypeOK, Requested
    <2>4. \A todo \in SUBSET Tracks : [kind |-> "queued", todo |-> todo] \in Worker
      BY DEF Worker, Queued
    <2>5. PICK todo \in SUBSET Tracks : Continues(w, todo)
      BY <1>3, <2>3 DEF Dispatches
    <2>6. workers' \in [Workers -> Worker]
      BY <2>4, <2>5 DEF Continues, Becomes, TypeOK, Worker
    <2>7. QED BY <1>3, <2>2, <2>6 DEF Dispatches, TypeOK
  <1>4. QED BY <1>1, <1>2, <1>3 DEF Generation

\* What breaks and what a restart takes is cut short.
LEMMA NextCuts ==
    ASSUME Next
    PROVE  \/ Scheduling \/ PanelWork \/ KitWork
           \/ \E w \in Workers : Generation(w)
           \/ \E ws \in SUBSET Workers : Cut(ws)
  BY DEF Next, Breaks, Restart

LEMMA NextType == TypeOK /\ [Next]_vars => TypeOK'
  <1> SUFFICES ASSUME TypeOK, [Next]_vars PROVE TypeOK'
    OBVIOUS
  <1>1. CASE CloseByHand \/ LeaveInterview
    BY <1>1 DEF CloseByHand, LeaveInterview, TypeOK, Stages
  <1>2. ASSUME NEW u \in Users, SetActive(u) PROVE TypeOK'
    BY <1>2 DEF SetActive, TypeOK
  <1>3. CASE UNCHANGED vars
    BY <1>3 DEF vars, TypeOK
  <1>4. CASE Scheduling
    BY <1>1, <1>4, StartRoundType, OpenNextRoundType, AddTrackType, RemoveTrackType
       DEF Scheduling
  <1>5. CASE PanelWork
    BY <1>2, <1>5, PutInterviewersType, SheetsType DEF PanelWork
  <1>6. CASE KitWork
    BY <1>6, PatchKitType, GenerateKitType DEF KitWork
  <1>7. ASSUME NEW ws \in SUBSET Workers, Cut(ws) PROVE TypeOK'
    BY <1>7 DEF Cut, TypeOK, Worker
  <1>8. QED
    BY <1>3, <1>4, <1>5, <1>6, <1>7, GenerationType, NextCuts

\* Rounds, kits, sheets and coroutines stay in their types.
THEOREM TypeCorrect == Spec => []TypeOK
  BY InitType, NextType, PTL DEF Spec

-----------------------------------------------------------------------------
(* What is written keeps its kit.                                          *)
(*                                                                         *)
(* A step changes either the live round or the one after it.  What a       *)
(* written sheet needs of such a step is stated once, in LiveStep, for the *)
(* rows rs and the kits ks it leaves the live round with.                  *)

\* A row that is not there is blank, and so are the rounds to come.
AbsentIsBlank ==
    \A r \in Rounds, u \in Users : rows[r][u].state = "absent" => rows[r][u] = NoSheet
FutureIsBlank ==
    \A r \in Rounds : r > round =>
        TracksOf(kits[r]) = {} /\ \A u \in Users : rows[r][u] = NoSheet

RoundsInv == FeedbackHasItsKit /\ NobodyIsStranded /\ AbsentIsBlank /\ FutureIsBlank

\* The rows and kits of one round are in order.
InOrder(ks, rs) ==
    /\ \A u \in Users : rs[u].state = "absent" => rs[u] = NoSheet
    /\ \A u \in Users : IsWritten(rs[u]) => rs[u].track \in TracksOf(ks)
    /\ TracksOf(ks) # {} => \A u \in PanelOf(rs) : rs[u].track \in TracksOf(ks)

LEMMA LiveIsInOrder ==
    ASSUME TypeOK, RoundsInv
    PROVE  InOrder(live, panel)
  BY DEF TypeOK, RoundsInv, InOrder, FeedbackHasItsKit, NobodyIsStranded, AbsentIsBlank,
         live, panel

LEMMA BlankIsNotWritten == ~IsWritten(NoSheet) /\ \A t : ~IsWritten(EmptySheet(t))
  BY DEF IsWritten, IsSubmitted, NoSheet, EmptySheet

LEMMA LiveStep ==
    ASSUME TypeOK, RoundsInv, NEW ks \in [Tracks -> Kit], NEW rs \in [Users -> Sheet],
           round' = round,
           kits' = [kits EXCEPT ![round] = ks], rows' = [rows EXCEPT ![round] = rs],
           InOrder(ks, rs)
    PROVE  RoundsInv'
  <1>1. round \in Rounds /\ live' = ks /\ panel' = rs
    BY DEF TypeOK, live, panel
  <1>2. \A r \in Rounds : r # round => kits'[r] = kits[r] /\ rows'[r] = rows[r]
    BY DEF TypeOK
  <1>3. kits'[round] = ks /\ rows'[round] = rs
    BY <1>1 DEF TypeOK
  <1>4. FeedbackHasItsKit'
    BY <1>2, <1>3 DEF FeedbackHasItsKit, RoundsInv, InOrder
  <1>5. NobodyIsStranded'
    BY <1>1 DEF NobodyIsStranded, InOrder
  <1>6. AbsentIsBlank'
    BY <1>2, <1>3 DEF AbsentIsBlank, RoundsInv, InOrder
  <1>7. FutureIsBlank'
    BY <1>1, <1>2 DEF FutureIsBlank, RoundsInv, Rounds
  <1>8. QED BY <1>4, <1>5, <1>6, <1>7 DEF RoundsInv

\* A step that moves no row and neither makes nor deletes a kit.
LEMMA QuietStep ==
    ASSUME TypeOK, RoundsInv, round' = round, rows' = rows,
           \A r \in Rounds : TracksOf(kits'[r]) = TracksOf(kits[r])
    PROVE  RoundsInv'
  <1>1. live' = kits'[round] /\ panel' = panel /\ round \in Rounds
    BY DEF live, panel, TypeOK
  <1>2. FeedbackHasItsKit'
    BY DEF FeedbackHasItsKit, RoundsInv
  <1>3. NobodyIsStranded'
    BY <1>1 DEF NobodyIsStranded, RoundsInv, live
  <1>4. AbsentIsBlank' /\ FutureIsBlank'
    BY DEF AbsentIsBlank, FutureIsBlank, RoundsInv
  <1>5. QED BY <1>2, <1>3, <1>4 DEF RoundsInv

\* Adoption moves only rows without a kit, and leaves none.
LEMMA AdoptInOrder ==
    ASSUME NEW ks, NEW rs \in [Users -> Sheet], NEW first \in TracksOf(ks),
           \A u \in Users : rs[u].state = "absent" => rs[u] = NoSheet,
           \A u \in Users : IsWritten(rs[u]) => rs[u].track \in TracksOf(ks)
    PROVE  /\ InOrder(ks, AdoptOrphanRows(ks, rs, first))
           /\ \A u \in Users : IsWritten(rs[u]) => AdoptOrphanRows(ks, rs, first)[u] = rs[u]
           /\ \A u \in Users : AdoptOrphanRows(ks, rs, first)[u].state = rs[u].state
  <1> DEFINE adopted == AdoptOrphanRows(ks, rs, first)
  <1>1. \A u \in Users : rs[u] \in Sheet
    OBVIOUS
  <1>2. ASSUME NEW u \in Users
        PROVE  \/ /\ adopted[u] = rs[u]
                  /\ rs[u].state = "absent" \/ rs[u].track \in TracksOf(ks)
               \/ /\ rs[u].state # "absent" /\ rs[u].track \notin TracksOf(ks)
                  /\ adopted[u] = [rs[u] EXCEPT !.track = first]
    BY DEF AdoptOrphanRows
  <1>3. ASSUME NEW u \in Users
        PROVE  /\ [rs[u] EXCEPT !.track = first].state = rs[u].state
               /\ [rs[u] EXCEPT !.track = first].content = rs[u].content
               /\ [rs[u] EXCEPT !.track = first].track = first
    BY <1>1 DEF Sheet
  <1>4. ASSUME NEW u \in Users
        PROVE  /\ IsWritten(rs[u]) => adopted[u] = rs[u]
               /\ adopted[u].state = rs[u].state
               /\ adopted[u].state = "absent" => adopted[u] = NoSheet
               /\ IsWritten(adopted[u]) => adopted[u].track \in TracksOf(ks)
               /\ adopted[u].state # "absent" => adopted[u].track \in TracksOf(ks)
    <2> HIDE DEF adopted
    <2>1. QED BY <1>2, <1>3 DEF IsWritten, IsSubmitted
  <1> HIDE DEF adopted
  <1>5. InOrder(ks, adopted)
    BY <1>4 DEF InOrder, PanelOf
  <1>6. QED BY <1>4, <1>5 DEF adopted

-----------------------------------------------------------------------------
(* One lemma per action of the live round: it leaves the round in order    *)
(* and keeps its feedback.                                                 *)

KeepsFeedback(rs) ==
    \A u \in Users :
        /\ IsSubmitted(panel[u]) => rs[u] = panel[u]
        /\ IsWritten(panel[u]) /\ rs[u].state = "absent" => u \notin active

OrderlyStep ==
    \E ks \in [Tracks -> Kit], rs \in [Users -> Sheet] :
        /\ round' = round
        /\ kits' = [kits EXCEPT ![round] = ks]
        /\ rows' = [rows EXCEPT ![round] = rs]
        /\ InOrder(ks, rs) /\ KeepsFeedback(rs)

LEMMA WrittenIsThere ==
    ASSUME TypeOK, RoundsInv, NEW u \in Users, IsWritten(panel[u])
    PROVE  /\ panel[u].state # "absent" /\ u \in PanelOf(panel)
           /\ panel[u].track \in TracksOf(live)
  BY LiveIsInOrder, BlankIsNotWritten DEF InOrder, PanelOf

LEMMA StartRoundIsOrderly ==
    ASSUME TypeOK, RoundsInv, NEW w \in Workers, NEW choices \in SUBSET Tracks,
           StartRound(w, choices)
    PROVE  OrderlyStep
  <1> DEFINE ks == [t \in Tracks |-> StartedKit(t, choices)]
             gone == TracksOf(live) \ TracksOf(ks)
             left == [u \in Users |-> IF panel[u].track \in gone THEN NoSheet ELSE panel[u]]
  <1>1. \A t \in Tracks : StartedKit(t, choices) \in Kit
    BY LiveType, KitsOfTheActions DEF StartedKit
  <1>2. ks \in [Tracks -> Kit] /\ left \in [Users -> Sheet]
    BY <1>1, LiveType, SheetsOfTheActions
  <1>3. ASSUME NEW u \in Users, IsWritten(panel[u])
        PROVE  panel[u].track \in TracksOf(ks)
    <2>1. panel[u].track \in TracksOf(live) /\ u \in PanelOf(panel)
      BY <1>3, WrittenIsThere
    <2>2. HasFeedback(panel, panel[u].track)
      BY <1>3, <2>1 DEF HasFeedback, Panel
    <2>3. live[panel[u].track].status # "absent" /\ panel[u].track \in Tracks
      BY <2>1 DEF TracksOf
    <2>4. StartedKit(panel[u].track, choices).status # "absent"
      BY <2>2, <2>3, LiveType DEF StartedKit, Kit
    <2>5. QED BY <2>3, <2>4 DEF TracksOf
  <1>4. \A u \in Users : IsWritten(panel[u]) => left[u] = panel[u]
    BY <1>3
  <1>5. \A u \in Users : left[u] = NoSheet \/ left[u] = panel[u]
    OBVIOUS
  <1>6. PICK first \in TracksOf(ks) :
          /\ kits' = [kits EXCEPT ![round] = ks]
          /\ rows' = [rows EXCEPT ![round] = AdoptOrphanRows(ks, left, first)]
    BY DEF StartRound
  <1> HIDE DEF ks, left, gone
  <1>7. \A u \in Users : left[u].state = "absent" => left[u] = NoSheet
    BY <1>5, LiveIsInOrder DEF InOrder
  <1>8. \A u \in Users : IsWritten(left[u]) => left[u] = panel[u] /\ left[u].track \in TracksOf(ks)
    BY <1>3, <1>5, BlankIsNotWritten
  <1> DEFINE rs == AdoptOrphanRows(ks, left, first)
  <1>9. /\ InOrder(ks, rs)
         /\ \A u \in Users : IsWritten(left[u]) => rs[u] = left[u]
    BY <1>2, <1>7, <1>8, AdoptInOrder
  <1>10. rs \in [Users -> Sheet]
    BY <1>2, AdoptType DEF TracksOf
  <1>11. KeepsFeedback(rs)
    <2>1. \A u \in Users : IsWritten(panel[u]) => rs[u] = panel[u]
      BY <1>4, <1>9
    <2>2. \A u \in Users : IsWritten(panel[u]) => panel[u].state # "absent"
      BY WrittenIsThere
    <2>3. QED BY <2>1, <2>2 DEF KeepsFeedback, IsWritten
  <1>12. round' = round
    BY DEF StartRound
  <1> HIDE DEF rs
  <1>13. QED BY <1>2, <1>6, <1>9, <1>10, <1>11, <1>12 DEF OrderlyStep, rs

LEMMA AddTrackIsOrderly ==
    ASSUME TypeOK, RoundsInv, NEW w \in Workers, NEW t \in Tracks, AddTrack(w, t)
    PROVE  OrderlyStep
  <1> DEFINE ks == [live EXCEPT ![t] = NewKit]
  <1>1. ks \in [Tracks -> Kit]
    BY LiveType, KitsOfTheActions
  <1>2. TracksOf(ks) = TracksOf(live) \cup {t}
    BY LiveType DEF TracksOf, NewKit
  <1>3. PICK first \in TracksOf(ks) :
          /\ kits' = [kits EXCEPT ![round] = ks]
          /\ rows' = [rows EXCEPT ![round] = AdoptOrphanRows(ks, panel, first)]
    BY DEF AddTrack
  <1> HIDE DEF ks
  <1> DEFINE rs == AdoptOrphanRows(ks, panel, first)
  <1>4. /\ InOrder(ks, rs)
        /\ \A u \in Users : IsWritten(panel[u]) => rs[u] = panel[u]
    <2>1. panel \in [Users -> Sheet]
      BY LiveType
    <2>2. /\ \A u \in Users : panel[u].state = "absent" => panel[u] = NoSheet
          /\ \A u \in Users : IsWritten(panel[u]) => panel[u].track \in TracksOf(ks)
      BY <1>2, LiveIsInOrder DEF InOrder
    <2>3. QED BY <2>1, <2>2, AdoptInOrder
  <1>5. rs \in [Users -> Sheet]
    BY LiveType, AdoptType DEF TracksOf
  <1>6. KeepsFeedback(rs)
    <2>1. \A u \in Users : IsWritten(panel[u]) => panel[u].state # "absent"
      BY WrittenIsThere
    <2>2. QED BY <1>4, <2>1 DEF KeepsFeedback, IsWritten
  <1>7. round' = round
    BY DEF AddTrack
  <1> HIDE DEF rs
  <1>8. QED BY <1>1, <1>3, <1>4, <1>5, <1>6, <1>7 DEF OrderlyStep, rs

LEMMA RemoveTrackIsOrderly ==
    ASSUME TypeOK, RoundsInv, NEW t \in Tracks, RemoveTrack(t)
    PROVE  OrderlyStep
  <1> DEFINE ks == [live EXCEPT ![t] = NoKit]
             rs == [u \in Users |-> IF panel[u].track = t THEN NoSheet ELSE panel[u]]
  <1>1. ks \in [Tracks -> Kit] /\ rs \in [Users -> Sheet]
    BY LiveType, KitsOfTheActions, SheetsOfTheActions
  <1>2. TracksOf(ks) = TracksOf(live) \ {t} /\ t \in TracksOf(live)
    BY LiveType DEF TracksOf, NoKit, RemoveTrack
  <1>3. ASSUME NEW u \in Users, IsWritten(panel[u])
        PROVE  panel[u].track # t /\ panel[u].state # "absent"
    <2>1. u \in PanelOf(panel) /\ panel[u].state # "absent"
      BY <1>3, WrittenIsThere
    <2>2. QED BY <1>3, <2>1 DEF RemoveTrack, HasFeedback, Panel
  <1>4. InOrder(ks, rs)
    <2>1. InOrder(live, panel)
      BY LiveIsInOrder
    <2>2. \A u \in Users : /\ rs[u].state = "absent" => rs[u] = NoSheet
                           /\ IsWritten(rs[u]) => rs[u].track \in TracksOf(ks)
                           /\ rs[u].state # "absent" => rs[u].track \in TracksOf(ks)
      BY <1>2, <2>1, BlankIsNotWritten DEF InOrder, PanelOf, NoSheet
    <2> HIDE DEF rs, ks
    <2>3. QED BY <2>2 DEF InOrder, PanelOf
  <1>5. KeepsFeedback(rs)
    BY <1>3 DEF KeepsFeedback, IsWritten
  <1>6. /\ kits' = [kits EXCEPT ![round] = ks] /\ rows' = [rows EXCEPT ![round] = rs]
        /\ round' = round
    BY DEF RemoveTrack, live
  <1> HIDE DEF ks, rs
  <1>7. QED BY <1>1, <1>4, <1>5, <1>6 DEF OrderlyStep

LEMMA PutInterviewersIsOrderly ==
    ASSUME TypeOK, RoundsInv, NEW t \in Tracks, NEW wanted \in SUBSET Users,
           PutInterviewers(t, wanted)
    PROVE  OrderlyStep
  <1> DEFINE removed == Panel(panel, t) \ wanted
             added == wanted \ Panel(panel, t)
             rs == [u \in Users |-> IF u \in removed THEN NoSheet
                                    ELSE IF u \in added THEN EmptySheet(t) ELSE panel[u]]
  <1>1. rs \in [Users -> Sheet] /\ live \in [Tracks -> Kit]
    BY LiveType, SheetsOfTheActions
  <1>2. /\ rows' = [rows EXCEPT ![round] = rs] /\ round' = round
        /\ kits' = [kits EXCEPT ![round] = live]
    BY DEF PutInterviewers, TypeOK, live
  <1>3. InOrder(live, panel)
    BY LiveIsInOrder
  <1>4. TracksOf(live) # {} => t \in TracksOf(live)
    BY DEF PutInterviewers, TargetTracks
  <1>5. \A u \in removed : ~IsSubmitted(panel[u]) /\ (u \in active => panel[u].content = {})
    BY DEF PutInterviewers, Removable
  <1>6. \A u \in added : u \notin PanelOf(panel)
    BY DEF PutInterviewers
  <1>7. \A u \in Users : IsWritten(panel[u]) => u \in PanelOf(panel) /\ panel[u].state # "absent"
    BY WrittenIsThere
  <1>8. EmptySheet(t).state = "draft" /\ EmptySheet(t).track = t /\ NoSheet.state = "absent"
    BY DEF EmptySheet, NoSheet
  <1>9. ASSUME NEW u \in Users
        PROVE  \/ u \in removed /\ rs[u] = NoSheet
               \/ u \in added /\ u \notin removed /\ rs[u] = EmptySheet(t)
               \/ rs[u] = panel[u]
    OBVIOUS
  <1> HIDE DEF rs, removed, added
  <1>10. ASSUME NEW u \in Users
         PROVE  /\ rs[u].state = "absent" => rs[u] = NoSheet
                /\ IsWritten(rs[u]) => rs[u].track \in TracksOf(live)
                /\ TracksOf(live) # {} /\ rs[u].state # "absent" => rs[u].track \in TracksOf(live)
    BY <1>3, <1>4, <1>8, <1>9, BlankIsNotWritten DEF InOrder, PanelOf
  <1>11. InOrder(live, rs)
    BY <1>10 DEF InOrder, PanelOf
  <1>12. KeepsFeedback(rs)
    <2>1. ASSUME NEW u \in Users, IsSubmitted(panel[u]) PROVE rs[u] = panel[u]
      BY <1>5, <1>6, <1>7, <1>9, <2>1 DEF IsWritten
    <2>2. ASSUME NEW u \in Users, IsWritten(panel[u]), rs[u].state = "absent" PROVE u \notin active
      <3>1. u \in removed
        BY <1>7, <1>8, <1>9, <2>2
      <3>2. QED BY <1>5, <2>2, <3>1 DEF IsWritten
    <2>3. QED BY <2>1, <2>2 DEF KeepsFeedback
  <1>13. QED BY <1>1, <1>2, <1>11, <1>12 DEF OrderlyStep

\* Writing on one's own sheet, or on the new one of a track nobody is on.
LEMMA WritingIsOrderly ==
    ASSUME TypeOK, RoundsInv, NEW u \in Users, NEW row \in SheetTargets(u), ~IsSubmitted(row),
           NEW written \in Sheet, written.track = row.track, written.state # "absent",
           round' = round, kits' = kits, rows' = [rows EXCEPT ![round][u] = written]
    PROVE  OrderlyStep
  <1> DEFINE rs == [panel EXCEPT ![u] = written]
  <1>1. rs \in [Users -> Sheet] /\ live \in [Tracks -> Kit]
    BY LiveType
  <1>2. rows' = [rows EXCEPT ![round] = rs] /\ kits' = [kits EXCEPT ![round] = live]
    BY DEF TypeOK, live, panel
  <1>3. row.track \in TracksOf(live)
    BY SheetTargetsType
  <1>4. rs[u] = written /\ \A v \in Users : v # u => rs[v] = panel[v]
    BY LiveType
  <1>5. InOrder(live, panel)
    BY LiveIsInOrder
  <1>6. ~IsSubmitted(panel[u])
    <2>1. CASE u \in PanelOf(panel)
      BY <2>1 DEF SheetTargets
    <2>2. CASE u \notin PanelOf(panel)
      BY <2>2 DEF PanelOf, IsSubmitted
    <2>3. QED BY <2>1, <2>2
  <1> HIDE DEF rs
  <1>7. InOrder(live, rs)
    BY <1>3, <1>4, <1>5 DEF InOrder, PanelOf
  <1>8. KeepsFeedback(rs)
    BY <1>4, <1>6, WrittenIsThere DEF KeepsFeedback
  <1>9. QED BY <1>1, <1>2, <1>7, <1>8 DEF OrderlyStep

LEMMA SheetsAreOrderly ==
    ASSUME TypeOK, RoundsInv, NEW u \in Users,
           \/ \E content \in SUBSET (Questions \cup Notes) : PatchSheet(u, content)
           \/ SubmitSheet(u)
    PROVE  OrderlyStep
  <1>1. ASSUME NEW content \in SUBSET (Questions \cup Notes), PatchSheet(u, content)
        PROVE  OrderlyStep
    <2>1. PICK row \in SheetTargets(u) :
            /\ ~IsSubmitted(row)
            /\ rows' = [rows EXCEPT ![round][u] = [row EXCEPT !.content = content]]
            /\ round' = round /\ kits' = kits
      BY <1>1 DEF PatchSheet
    <2>2. row \in Sheet /\ row.state # "absent"
      BY SheetTargetsType
    <2>3. /\ [row EXCEPT !.content = content] \in Sheet
          /\ [row EXCEPT !.content = content].track = row.track
          /\ [row EXCEPT !.content = content].state = row.state
      BY <2>2, SheetsOfTheActions DEF Sheet
    <2>4. QED BY <2>1, <2>2, <2>3, WritingIsOrderly
  <1>2. ASSUME SubmitSheet(u)
        PROVE  OrderlyStep
    <2>1. PICK row \in SheetTargets(u) :
            /\ ~IsSubmitted(row)
            /\ rows' = [rows EXCEPT ![round][u] = [row EXCEPT !.state = "submitted"]]
            /\ round' = round /\ kits' = kits
      BY <1>2 DEF SubmitSheet
    <2>2. row \in Sheet
      BY SheetTargetsType
    <2>3. /\ [row EXCEPT !.state = "submitted"] \in Sheet
          /\ [row EXCEPT !.state = "submitted"].track = row.track
          /\ [row EXCEPT !.state = "submitted"].state = "submitted"
      BY <2>2, SheetsOfTheActions DEF Sheet
    <2>4. QED BY <2>1, <2>3, WritingIsOrderly
  <1>3. QED BY <1>1, <1>2

LEMMA GenerateKitIsOrderly ==
    ASSUME TypeOK, RoundsInv, NEW w \in Workers, NEW t \in Tracks, GenerateKit(w, t)
    PROVE  OrderlyStep
  <1> DEFINE first == TracksOf(live) = {}
             ks == [live EXCEPT ![t] = IF first THEN NewKit ELSE [@ EXCEPT !.status = "generating"]]
             ready == [live EXCEPT ![t] = [@ EXCEPT !.status = "ready"]]
             rs == IF first THEN AdoptOrphanRows(ks, panel, t) ELSE panel
  <1>1. /\ live \in [Tracks -> Kit] /\ panel \in [Users -> Sheet]
        /\ ks \in [Tracks -> Kit] /\ ready \in [Tracks -> Kit]
    BY LiveType, KitsOfTheActions
  <1>2. /\ TracksOf(ks) = TracksOf(live) \cup {t}
        /\ t \in TracksOf(live) => TracksOf(ready) = TracksOf(live)
    BY LiveType DEF TracksOf, NewKit, Kit
  <1>3. InOrder(live, panel) /\ KeepsFeedback(panel)
    BY LiveIsInOrder, WrittenIsThere DEF KeepsFeedback
  <1>4. first \/ t \in TracksOf(live)
    BY DEF GenerateKit
  <1>5. \/ /\ ~first /\ kits' = [kits EXCEPT ![round] = ready]
           /\ rows' = [rows EXCEPT ![round] = panel]
        \/ kits' = [kits EXCEPT ![round] = ks] /\ rows' = [rows EXCEPT ![round] = rs]
    BY DEF GenerateKit, TypeOK, live, panel
  <1>6. round' = round
    BY DEF GenerateKit
  <1> HIDE DEF ks, ready
  <1>7. CASE /\ ~first /\ kits' = [kits EXCEPT ![round] = ready]
             /\ rows' = [rows EXCEPT ![round] = panel]
    <2>1. InOrder(ready, panel)
      BY <1>2, <1>3, <1>4, <1>7 DEF InOrder
    <2>2. QED BY <1>1, <1>3, <1>6, <1>7, <2>1 DEF OrderlyStep
  <1>8. CASE kits' = [kits EXCEPT ![round] = ks] /\ rows' = [rows EXCEPT ![round] = rs]
    <2>1. CASE first
      <3>1. t \in TracksOf(ks)
        BY <1>2
      <3>2. /\ \A u \in Users : panel[u].state = "absent" => panel[u] = NoSheet
            /\ \A u \in Users : IsWritten(panel[u]) => panel[u].track \in TracksOf(ks)
        BY <1>2, <1>3 DEF InOrder
      <3>3. /\ InOrder(ks, AdoptOrphanRows(ks, panel, t))
            /\ \A u \in Users : IsWritten(panel[u]) =>
                   AdoptOrphanRows(ks, panel, t)[u] = panel[u]
        BY <1>1, <3>1, <3>2, AdoptInOrder
      <3>4. KeepsFeedback(AdoptOrphanRows(ks, panel, t))
        BY <3>3, WrittenIsThere DEF KeepsFeedback, IsWritten
      <3>5. AdoptOrphanRows(ks, panel, t) \in [Users -> Sheet]
        BY <1>1, AdoptType
      <3>6. QED BY <1>1, <1>6, <1>8, <2>1, <3>3, <3>4, <3>5 DEF OrderlyStep
    <2>2. CASE ~first
      <3>1. TracksOf(ks) = TracksOf(live)
        BY <1>2, <1>4, <2>2
      <3>2. InOrder(ks, panel)
        BY <1>3, <3>1 DEF InOrder
      <3>3. QED BY <1>1, <1>3, <1>6, <1>8, <2>2, <3>2 DEF OrderlyStep
    <2>3. QED BY <2>1, <2>2
  <1>9. QED BY <1>5, <1>7, <1>8

-----------------------------------------------------------------------------
(* Every step keeps the invariant and the feedback.                        *)

\* What FeedbackStays says of a step.
StaysStep ==
    \A r \in Rounds, u \in Users :
        /\ IsSubmitted(rows[r][u]) \/ (r < round /\ IsWritten(rows[r][u])) =>
               rows'[r][u] = rows[r][u]
        /\ IsWritten(rows[r][u]) /\ rows'[r][u].state = "absent" => u \notin active

LEMMA OrderlyStepIsFine ==
    ASSUME TypeOK, RoundsInv, OrderlyStep
    PROVE  RoundsInv' /\ StaysStep
  <1>1. PICK ks \in [Tracks -> Kit], rs \in [Users -> Sheet] :
          /\ round' = round
          /\ kits' = [kits EXCEPT ![round] = ks] /\ rows' = [rows EXCEPT ![round] = rs]
          /\ InOrder(ks, rs) /\ KeepsFeedback(rs)
    BY DEF OrderlyStep
  <1>2. RoundsInv'
    BY <1>1, LiveStep
  <1>3. round \in Rounds /\ rows'[round] = rs /\ rows[round] = panel
    BY <1>1 DEF TypeOK, panel
  <1>4. \A r \in Rounds : r # round => rows'[r] = rows[r]
    BY <1>1 DEF TypeOK
  <1>5. \A r \in Rounds, u \in Users : IsWritten(rows[r][u]) => rows[r][u].state # "absent"
    BY BlankIsNotWritten DEF RoundsInv, AbsentIsBlank
  <1>6. StaysStep
    BY <1>1, <1>3, <1>4, <1>5 DEF StaysStep, KeepsFeedback, Rounds
  <1>7. QED BY <1>2, <1>6

LEMMA QuietStepIsFine ==
    ASSUME TypeOK, RoundsInv, round' = round, rows' = rows,
           \A r \in Rounds : TracksOf(kits'[r]) = TracksOf(kits[r])
    PROVE  RoundsInv' /\ StaysStep
  <1>1. RoundsInv'
    BY QuietStep
  <1>2. \A r \in Rounds, u \in Users : IsWritten(rows[r][u]) => rows[r][u].state # "absent"
    BY BlankIsNotWritten DEF RoundsInv, AbsentIsBlank
  <1>3. StaysStep
    BY <1>2 DEF StaysStep
  <1>4. QED BY <1>1, <1>3

\* Changing kits that are there makes and deletes none.
LEMMA OneKitChanged ==
    ASSUME TypeOK, NEW q \in Rounds, NEW t \in Tracks, NEW kit, kit.status # "absent",
           kits[q][t].status # "absent", kits' = [kits EXCEPT ![q][t] = kit]
    PROVE  \A r \in Rounds : TracksOf(kits'[r]) = TracksOf(kits[r])
  <1>1. kits \in [Rounds -> [Tracks -> Kit]]
    BY DEF TypeOK
  <1>2. /\ kits'[q] = [kits[q] EXCEPT ![t] = kit]
        /\ \A r \in Rounds : r # q => kits'[r] = kits[r]
    BY <1>1
  <1>3. TracksOf(kits'[q]) = TracksOf(kits[q])
    BY <1>1, <1>2 DEF TracksOf
  <1>4. QED BY <1>2, <1>3

\* PATCH interview-kit and the runs make and delete no kit.
LEMMA PatchKitTracks ==
    ASSUME TypeOK, NEW w \in Workers,
           \/ \E u \in Users, t \in Tracks, sent \in SUBSET Questions : PatchKitReads(w, u, t, sent)
           \/ PatchKitCommits(w)
    PROVE  \A r \in Rounds : TracksOf(kits'[r]) = TracksOf(kits[r])
  <1>1. CASE PatchKitCommits(w)
    <2>1. workers[w] \in Patches
      BY <1>1, WorkerOfKind DEF PatchKitCommits, TypeOK
    <2>2. workers[w].round \in Rounds /\ workers[w].track \in Tracks
      BY <2>1 DEF Patches
    <2>3. \A kit \in Kit : [kit EXCEPT !.questions = workers[w].sent].status = kit.status
      BY DEF Kit
    <2>4. \A r \in Rounds, t \in Tracks : kits'[r][t].status = kits[r][t].status
      BY <1>1, <2>2, <2>3 DEF PatchKitCommits, TypeOK
    <2>5. QED BY <2>4 DEF TracksOf
  <1>2. CASE ~PatchKitCommits(w)
    BY <1>2 DEF PatchKitReads
  <1>3. QED BY <1>1, <1>2

LEMMA GenerationTracks ==
    ASSUME TypeOK, NEW w \in Workers, Generation(w)
    PROVE  \A r \in Rounds : TracksOf(kits'[r]) = TracksOf(kits[r])
  <1>1. \/ kits' = kits
        \/ \E t \in TracksOf(live), kit \in Kit :
               kit.status # "absent" /\ kits' = [kits EXCEPT ![round][t] = kit]
        \/ Dispatches(w)
    BY GenerationStoresKit DEF Generation, GenerationLoads
  <1>2. ASSUME NEW t \in TracksOf(live), NEW kit \in Kit, kit.status # "absent",
               kits' = [kits EXCEPT ![round][t] = kit]
        PROVE  \A r \in Rounds : TracksOf(kits'[r]) = TracksOf(kits[r])
    <2>1. t \in Tracks /\ kits[round][t].status # "absent" /\ round \in Rounds
      BY LiveType DEF TracksOf, live
    <2>2. QED BY <1>2, <2>1, OneKitChanged
  <1>3. ASSUME Dispatches(w)
        PROVE  \A r \in Rounds : TracksOf(kits'[r]) = TracksOf(kits[r])
    <2>1. PICK r \in Rounds : \E failed \in MayFail(workers[w].todo) :
              kits' = [kits EXCEPT ![r] = Failed(@, failed \cap TracksOf(@))]
      BY <1>3, DispatchedRound
    <2>2. PICK failed : kits' = [kits EXCEPT ![r] = Failed(@, failed \cap TracksOf(@))]
      BY <2>1
    <2>3. kits[r] \in [Tracks -> Kit]
      BY DEF TypeOK
    <2>4. TracksOf(Failed(kits[r], failed \cap TracksOf(kits[r]))) = TracksOf(kits[r])
      BY <2>3, FailedTracks
    <2>5. /\ kits'[r] = Failed(kits[r], failed \cap TracksOf(kits[r]))
          /\ \A q \in Rounds : q # r => kits'[q] = kits[q]
      BY <2>2 DEF TypeOK
    <2>6. QED BY <2>4, <2>5
  <1>4. QED BY <1>1, <1>2, <1>3

\* Neither do they touch a row.
LEMMA KitContentIsFine ==
    ASSUME TypeOK, RoundsInv, NEW w \in Workers,
           \/ \E u \in Users, t \in Tracks, sent \in SUBSET Questions : PatchKitReads(w, u, t, sent)
           \/ PatchKitCommits(w)
           \/ Generation(w)
    PROVE  RoundsInv' /\ StaysStep
  <1>1. round' = round /\ rows' = rows
    BY DEF PatchKitReads, PatchKitCommits, Generation, Dispatches, GenerationLoads,
           GenerationStores
  <1>2. \A r \in Rounds : TracksOf(kits'[r]) = TracksOf(kits[r])
    BY PatchKitTracks, GenerationTracks
  <1>3. QED BY <1>1, <1>2, QuietStepIsFine

\* The next round was blank: nothing written is in it before or after it opens,
\* and whoever is carried is on a track that is carried.
LEMMA OpenNextRoundIsFine ==
    ASSUME TypeOK, RoundsInv, NEW w \in Workers, NEW choices \in SUBSET Tracks,
           OpenNextRound(w, choices)
    PROVE  RoundsInv' /\ StaysStep
  <1> DEFINE next == round + 1
             fresh == choices \ TracksOf(live)
             carriedTracks == choices \cap TracksOf(live)
             ks == [t \in Tracks |-> IF t \notin choices THEN NoKit
                                     ELSE IF t \in fresh THEN NewKit ELSE live[t]]
             carried == [u \in Users |-> CarriedRow(panel[u])]
             chosen == [u \in Users |-> IF panel[u].track \in carriedTracks
                                        THEN CarriedRow(panel[u]) ELSE NoSheet]
             nks == kits'[next]
             nrs == rows'[next]
  <1>1. round \in Rounds /\ next \in Rounds /\ round' = next
    BY ConstantsAssumption DEF OpenNextRound, TypeOK, Rounds
  <1>2. ks \in [Tracks -> Kit]
    BY LiveType, KitsOfTheActions
  <1>3. \A u \in Users : CarriedRow(panel[u]) \in {NoSheet, EmptySheet(panel[u].track)}
    BY DEF CarriedRow
  <1>4. TracksOf(ks) = choices
    BY LiveType DEF TracksOf, NoKit, NewKit
  <1>5. \/ /\ rows' = [rows EXCEPT ![next] = carried] /\ kits' = kits
        \/ /\ kits' = [kits EXCEPT ![next] = ks]
           /\ rows' = [rows EXCEPT ![next] = chosen]
    BY DEF OpenNextRound
  <1>6. TracksOf(kits[next]) = {} /\ \A u \in Users : rows[next][u] = NoSheet
    BY <1>1 DEF RoundsInv, FutureIsBlank, Rounds
  <1>7. NoSheet.state = "absent" /\ \A t : EmptySheet(t).state = "draft" /\ EmptySheet(t).track = t
    BY DEF NoSheet, EmptySheet
  <1>8. \A r \in Rounds : r # next => kits'[r] = kits[r] /\ rows'[r] = rows[r]
    BY <1>5 DEF TypeOK
  <1>9. \A u \in Users : nrs[u] \in {NoSheet, EmptySheet(panel[u].track)}
    <2>1. nrs = carried \/ nrs = chosen
      BY <1>1, <1>5 DEF TypeOK
    <2>2. \A u \in Users : carried[u] = CarriedRow(panel[u])
      OBVIOUS
    <2>3. \A u \in Users : chosen[u] = CarriedRow(panel[u]) \/ chosen[u] = NoSheet
      OBVIOUS
    <2> HIDE DEF carried, chosen, nrs
    <2>4. QED BY <1>3, <2>1, <2>2, <2>3
  <1>10. TracksOf(nks) # {} => \A u \in Users : nrs[u].state # "absent" => nrs[u].track \in TracksOf(nks)
    <2>1. CASE rows' = [rows EXCEPT ![next] = carried] /\ kits' = kits
      BY <1>6, <2>1
    <2>2. CASE /\ kits' = [kits EXCEPT ![next] = ks]
               /\ rows' = [rows EXCEPT ![next] = chosen]
      <3>1. nks = ks /\ nrs = chosen
        BY <1>1, <2>2 DEF TypeOK
      <3>2. TracksOf(nks) = choices
        BY <1>4, <3>1
      <3>3. \A u \in Users : chosen[u].state # "absent" => panel[u].track \in choices
        BY <1>7
      <3> HIDE DEF chosen, ks
      <3>4. QED BY <1>7, <1>9, <3>1, <3>2, <3>3
    <2>3. QED BY <1>5, <2>1, <2>2
  <1> HIDE DEF ks, carried, chosen, nks, nrs
  <1>11. \A u \in Users : ~IsWritten(nrs[u]) /\ (nrs[u].state = "absent" => nrs[u] = NoSheet)
    BY <1>7, <1>9, BlankIsNotWritten
  <1>12. FeedbackHasItsKit'
    BY <1>8, <1>11 DEF FeedbackHasItsKit, RoundsInv, nrs
  <1>13. NobodyIsStranded'
    BY <1>1, <1>10 DEF NobodyIsStranded, live, panel, PanelOf, nks, nrs
  <1>14. AbsentIsBlank'
    BY <1>8, <1>11 DEF AbsentIsBlank, RoundsInv, nrs
  <1>15. FutureIsBlank'
    BY <1>1, <1>8 DEF FutureIsBlank, RoundsInv, Rounds
  <1>16. \A r \in Rounds, u \in Users : IsWritten(rows[r][u]) =>
             rows'[r][u] = rows[r][u] /\ rows[r][u].state # "absent"
    BY <1>6, <1>8, BlankIsNotWritten DEF RoundsInv, AbsentIsBlank
  <1>17. StaysStep
    BY <1>16 DEF StaysStep, IsWritten
  <1>18. QED BY <1>12, <1>13, <1>14, <1>15, <1>17 DEF RoundsInv

LEMMA RoundsInvInit == Init => RoundsInv
  <1> SUFFICES ASSUME Init PROVE RoundsInv
    OBVIOUS
  <1>1. \A r \in Rounds : TracksOf(kits[r]) = {}
    BY DEF Init, TracksOf, NoKit
  <1>2. \A r \in Rounds, u \in Users : rows[r][u] = NoSheet
    BY DEF Init
  <1>3. round \in Rounds
    BY ConstantsAssumption DEF Init, Rounds
  <1>4. FeedbackHasItsKit
    BY <1>2, BlankIsNotWritten DEF FeedbackHasItsKit
  <1>5. NobodyIsStranded
    BY <1>1, <1>3 DEF NobodyIsStranded, live
  <1>6. AbsentIsBlank /\ FutureIsBlank
    BY <1>1, <1>2 DEF AbsentIsBlank, FutureIsBlank
  <1>7. QED BY <1>4, <1>5, <1>6 DEF RoundsInv

LEMMA RoundsStep == TypeOK /\ RoundsInv /\ [Next]_vars => RoundsInv' /\ [StaysStep]_vars
  <1> SUFFICES ASSUME TypeOK, RoundsInv, [Next]_vars PROVE RoundsInv' /\ (StaysStep \/ UNCHANGED vars)
    OBVIOUS
  <1>1. CASE CloseByHand \/ LeaveInterview \/ \E u \in Users : SetActive(u)
    <2>1. round' = round /\ rows' = rows /\ kits' = kits
      BY <1>1 DEF CloseByHand, LeaveInterview, SetActive
    <2>2. QED BY <2>1, QuietStepIsFine
  <1>2. CASE UNCHANGED vars
    BY <1>2, QuietStep DEF vars
  <1>3. CASE Scheduling
    BY <1>1, <1>3, StartRoundIsOrderly, OpenNextRoundIsFine, AddTrackIsOrderly,
       RemoveTrackIsOrderly, OrderlyStepIsFine DEF Scheduling
  <1>4. CASE PanelWork
    BY <1>1, <1>4, PutInterviewersIsOrderly, SheetsAreOrderly, OrderlyStepIsFine DEF PanelWork
  <1>5. CASE KitWork
    BY <1>5, KitContentIsFine, GenerateKitIsOrderly, OrderlyStepIsFine DEF KitWork
  <1>6. ASSUME NEW ws \in SUBSET Workers, Cut(ws) PROVE RoundsInv' /\ StaysStep
    BY <1>6, QuietStepIsFine DEF Cut
  <1>7. QED BY <1>2, <1>3, <1>4, <1>5, <1>6, KitContentIsFine, NextCuts

LEMMA RoundsInvariant == Spec => [](TypeOK /\ RoundsInv)
  <1>1. TypeOK /\ RoundsInv /\ [Next]_vars => RoundsInv'
    BY RoundsStep
  <1>2. QED BY <1>1, InitType, NextType, RoundsInvInit, PTL DEF Spec

\* Whatever is written is on a track that has a kit: rescheduling and removing a
\* track spare the tracks with feedback, and generation neither makes nor deletes
\* a kit that a sheet depends on.
THEOREM FeedbackKeepsItsKit == Spec => []FeedbackHasItsKit
  <1>1. RoundsInv => FeedbackHasItsKit
    BY DEF RoundsInv
  <1>2. QED BY <1>1, RoundsInvariant, PTL

\* Nobody on the panel of the live round is on a track without a kit once it has
\* one, whoever was picked before it had any.
THEOREM NobodyStranded == Spec => []NobodyIsStranded
  <1>1. RoundsInv => NobodyIsStranded
    BY DEF RoundsInv
  <1>2. QED BY <1>1, RoundsInvariant, PTL

\* Submitted sheets and those of earlier rounds never change, and a draft with
\* content only goes when its author has been deactivated.
THEOREM FeedbackIsKept == Spec => FeedbackStays
  <1>1. TypeOK /\ RoundsInv /\ [Next]_vars => [StaysStep]_vars
    BY RoundsStep
  <1>2. QED BY <1>1, RoundsInvariant, PTL DEF Spec, FeedbackStays, StaysStep

-----------------------------------------------------------------------------
(* A round closes when it becomes complete.                                *)

\* What RoundsCloseWhenComplete says of a step.
CloseStep ==
    stage = "scheduled" /\ round' = round =>
        /\ RoundComplete(kits'[round], rows'[round]) /\ ~RoundComplete(live, panel) =>
               stage' = "interviewed"
        /\ stage' = "interviewed" =>
               CloseByHand \/ RoundComplete(kits'[round], rows'[round])

\* The step closes the round if it is complete, and only then.
ClosesStep ==
    stage' = IF stage = "scheduled" /\ RoundComplete(kits'[round], rows'[round])
             THEN "interviewed" ELSE stage

\* Completeness looks at the kits only for the tracks there are.
LEMMA SameTracksSameCompleteness ==
    ASSUME NEW ks, NEW js, NEW rs, TracksOf(ks) = TracksOf(js)
    PROVE  RoundComplete(ks, rs) <=> RoundComplete(js, rs)
  BY DEF RoundComplete

LEMMA QuietClose ==
    ASSUME rows' = rows, TracksOf(kits'[round]) = TracksOf(live),
           stage' # "interviewed" \/ stage' = stage
    PROVE  CloseStep
  <1>1. RoundComplete(kits'[round], rows'[round]) <=> RoundComplete(live, panel)
    BY SameTracksSameCompleteness DEF panel
  <1>2. QED BY <1>1 DEF CloseStep

LEMMA StillOpen ==
    ASSUME stage' = stage, ~RoundComplete(kits'[round], rows'[round])
    PROVE  CloseStep /\ ClosesStep
  BY DEF CloseStep, ClosesStep

\* The first kit of a round completes nothing: nobody has submitted without one.
LEMMA FirstKitIsIncomplete ==
    ASSUME TypeOK, RoundsInv, TracksOf(live) = {}, NEW ks, NEW first \in TracksOf(ks)
    PROVE  ~RoundComplete(ks, AdoptOrphanRows(ks, panel, first))
  <1> DEFINE rs == AdoptOrphanRows(ks, panel, first)
  <1>1. \A u \in Users : ~IsWritten(panel[u]) /\ (panel[u].state = "absent" => panel[u] = NoSheet)
    BY LiveIsInOrder DEF InOrder
  <1>2. \A u \in Users : rs[u].state = panel[u].state
    BY <1>1, LiveType, AdoptInOrder
  <1> HIDE DEF rs
  <1>3. \A u \in Users : ~IsSubmitted(rs[u])
    BY <1>1, <1>2 DEF IsWritten, IsSubmitted
  <1>4. ~RoundComplete(ks, rs)
    BY <1>3 DEF RoundComplete, PanelOf
  <1>5. QED BY <1>4 DEF rs

LEMMA AddTrackCloses ==
    ASSUME TypeOK, RoundsInv, NEW w \in Workers, NEW t \in Tracks, AddTrack(w, t)
    PROVE  CloseStep /\ ClosesStep
  <1> DEFINE ks == [live EXCEPT ![t] = NewKit]
  <1>1. TracksOf(ks) = TracksOf(live) \cup {t} /\ t \notin TracksOf(live)
    BY LiveType DEF TracksOf, NewKit, AddTrack
  <1>2. ks \in [Tracks -> Kit]
    BY LiveType, KitsOfTheActions
  <1>3. PICK first \in TracksOf(ks) :
          /\ kits' = [kits EXCEPT ![round] = ks]
          /\ rows' = [rows EXCEPT ![round] = AdoptOrphanRows(ks, panel, first)]
    BY DEF AddTrack
  <1> HIDE DEF ks
  <1> DEFINE rs == AdoptOrphanRows(ks, panel, first)
  <1>4. kits'[round] = ks /\ rows'[round] = rs
    BY <1>3 DEF TypeOK
  <1>5. ~RoundComplete(ks, rs)
    <2>1. CASE TracksOf(live) = {}
      BY <2>1, FirstKitIsIncomplete
    <2>2. CASE TracksOf(live) # {}
      <3>1. \A u \in Users : panel[u].state = "absent" \/ panel[u].track \in TracksOf(live)
        BY <2>2, LiveIsInOrder DEF InOrder, PanelOf
      <3>2. \A u \in Users : rs[u] = panel[u]
        BY <1>1, <3>1 DEF AdoptOrphanRows
      <3>3. Panel(rs, t) = {}
        BY <1>1, <3>1, <3>2 DEF Panel, PanelOf
      <3> HIDE DEF rs
      <3>4. QED BY <1>1, <3>3 DEF RoundComplete
    <2>3. QED BY <2>1, <2>2
  <1>6. ~RoundComplete(kits'[round], rows'[round])
    BY <1>4, <1>5
  <1>7. stage' = stage
    BY DEF AddTrack
  <1>8. QED BY <1>6, <1>7, StillOpen

LEMMA RemoveTrackCloses ==
    ASSUME NEW t \in Tracks, RemoveTrack(t)
    PROVE  CloseStep /\ ClosesStep
  BY DEF RemoveTrack, CloseRoundIfComplete, CloseStep, ClosesStep

LEMMA PutInterviewersCloses ==
    ASSUME TypeOK, NEW t \in Tracks, NEW wanted \in SUBSET Users, PutInterviewers(t, wanted)
    PROVE  CloseStep /\ (ClosesStep \/ UNCHANGED <<rows, stage>>)
  <1> DEFINE removed == Panel(panel, t) \ wanted
             added == wanted \ Panel(panel, t)
             rs == [u \in Users |-> IF u \in removed THEN NoSheet
                                    ELSE IF u \in added THEN EmptySheet(t) ELSE panel[u]]
  <1>1. kits' = kits /\ rows' = [rows EXCEPT ![round] = rs]
    BY DEF PutInterviewers
  <1>2. IF removed # {} THEN CloseRoundIfComplete(live, rows'[round]) ELSE UNCHANGED stage
    BY DEF PutInterviewers
  <1>3. CASE removed # {}
    <2> HIDE DEF rs, removed
    <2>1. CloseRoundIfComplete(live, rows'[round])
      BY <1>2, <1>3
    <2>2. kits'[round] = live
      BY <1>1 DEF live
    <2>3. ClosesStep
      BY <2>1, <2>2 DEF CloseRoundIfComplete, ClosesStep
    <2>4. QED BY <2>3 DEF ClosesStep, CloseStep
  <1>4. CASE removed = {} /\ added = {}
    <2>1. rs = [u \in Users |-> panel[u]]
      BY <1>4
    <2>2. rs = panel
      BY <2>1, LiveType
    <2> HIDE DEF rs
    <2>3. rows' = rows
      BY <1>1, <2>2 DEF TypeOK, panel
    <2>4. QED BY <1>1, <1>2, <1>4, <2>3, QuietClose DEF live
  <1>5. CASE removed = {} /\ added # {}
    <2>1. PICK u \in added : TRUE
      BY <1>5
    <2>2. u \in Users /\ rs[u] = EmptySheet(t)
      BY <1>5, <2>1
    <2>3. rows'[round] = rs
      BY <1>1 DEF TypeOK
    <2> HIDE DEF rs
    <2>4. u \in PanelOf(rs) /\ ~IsSubmitted(rs[u])
      BY <2>2 DEF PanelOf, IsSubmitted, EmptySheet
    <2>5. ~RoundComplete(kits'[round], rows'[round])
      BY <2>3, <2>4 DEF RoundComplete
    <2>6. QED BY <1>2, <1>5, <2>5, StillOpen
  <1>6. QED BY <1>3, <1>4, <1>5

LEMMA SheetsClose ==
    ASSUME TypeOK, NEW u \in Users,
           \/ \E content \in SUBSET (Questions \cup Notes) : PatchSheet(u, content)
           \/ SubmitSheet(u)
    PROVE  CloseStep
  <1>1. ASSUME NEW content \in SUBSET (Questions \cup Notes), PatchSheet(u, content)
        PROVE  CloseStep
    <2>1. PICK row \in SheetTargets(u) :
            /\ ~IsSubmitted(row) /\ stage' = stage
            /\ rows' = [rows EXCEPT ![round][u] = [row EXCEPT !.content = content]]
      BY <1>1 DEF PatchSheet
    <2>2. row \in Sheet /\ row.state # "absent"
      BY SheetTargetsType
    <2>3. rows'[round][u] = [row EXCEPT !.content = content]
      BY <2>1 DEF TypeOK
    <2>4. rows'[round][u].state = row.state
      BY <2>2, <2>3 DEF Sheet
    <2>5. ~RoundComplete(kits'[round], rows'[round])
      BY <2>1, <2>2, <2>4 DEF RoundComplete, PanelOf, IsSubmitted
    <2>6. QED BY <2>1, <2>5, StillOpen
  <1>2. CASE SubmitSheet(u)
    BY <1>2 DEF SubmitSheet, CloseRoundIfComplete, CloseStep, live
  <1>3. QED BY <1>1, <1>2

LEMMA GenerateKitCloses ==
    ASSUME TypeOK, RoundsInv, NEW w \in Workers, NEW t \in Tracks, GenerateKit(w, t)
    PROVE  /\ CloseStep
           /\ \/ TracksOf(live) = {} /\ ClosesStep
              \/ /\ TracksOf(kits'[round]) = TracksOf(live)
                 /\ rows' = rows /\ stage' = stage
  <1> DEFINE first == TracksOf(live) = {}
             ks == [live EXCEPT ![t] = IF first THEN NewKit ELSE [@ EXCEPT !.status = "generating"]]
             ready == [live EXCEPT ![t] = [@ EXCEPT !.status = "ready"]]
             rs == IF first THEN AdoptOrphanRows(ks, panel, t) ELSE panel
  <1>1. /\ TracksOf(ks) = TracksOf(live) \cup {t}
        /\ t \in TracksOf(live) => TracksOf(ready) = TracksOf(live)
    BY LiveType DEF TracksOf, NewKit, Kit
  <1>2. first \/ t \in TracksOf(live)
    BY DEF GenerateKit
  <1>3. \/ /\ ~first /\ kits' = [kits EXCEPT ![round] = ready]
           /\ rows' = [rows EXCEPT ![round] = panel]
        \/ kits' = [kits EXCEPT ![round] = ks] /\ rows' = [rows EXCEPT ![round] = rs]
    BY DEF GenerateKit, TypeOK, live, panel
  <1>4. stage' = stage
    BY DEF GenerateKit
  <1> HIDE DEF ks, ready
  <1>5. CASE first
    <2>1. kits'[round] = ks /\ rows'[round] = AdoptOrphanRows(ks, panel, t)
      BY <1>3, <1>5 DEF TypeOK
    <2>2. ~RoundComplete(ks, AdoptOrphanRows(ks, panel, t))
      BY <1>1, <1>5, FirstKitIsIncomplete
    <2>3. QED BY <1>4, <1>5, <2>1, <2>2, StillOpen
  <1>6. CASE ~first
    <2>1. TracksOf(kits'[round]) = TracksOf(live)
      BY <1>1, <1>2, <1>3, <1>6 DEF TypeOK
    <2>2. rows' = rows
      BY <1>3, <1>6 DEF TypeOK, panel
    <2>3. QED BY <1>4, <2>1, <2>2, QuietClose
  <1>7. QED BY <1>5, <1>6

LEMMA CloseStepOfNext == TypeOK /\ RoundsInv /\ [Next]_vars => [CloseStep]_vars
  <1> SUFFICES ASSUME TypeOK, RoundsInv, Next PROVE CloseStep
    OBVIOUS
  <1>1. ASSUME NEW w \in Workers, NEW choices \in SUBSET Tracks,
               StartRound(w, choices) \/ OpenNextRound(w, choices)
        PROVE  CloseStep
    BY <1>1 DEF StartRound, OpenNextRound, CloseStep
  <1>2. CASE CloseByHand
    BY <1>2 DEF CloseByHand, CloseStep, live, panel
  <1>3. CASE LeaveInterview \/ \E u \in Users : SetActive(u)
    BY <1>3, QuietClose DEF LeaveInterview, SetActive, live
  <1>4. CASE Scheduling
    BY <1>1, <1>2, <1>3, <1>4, AddTrackCloses, RemoveTrackCloses DEF Scheduling
  <1>5. CASE PanelWork
    BY <1>3, <1>5, PutInterviewersCloses, SheetsClose DEF PanelWork
  <1>6. ASSUME NEW w \in Workers, Generation(w) PROVE CloseStep
    <2>1. rows' = rows /\ stage' = stage
      BY <1>6 DEF Generation, Dispatches, GenerationLoads, GenerationStores
    <2>2. QED BY <1>6, <2>1, GenerationTracks, LiveType, QuietClose DEF live
  <1>7. ASSUME NEW w \in Workers,
               \/ \E u \in Users, t \in Tracks, sent \in SUBSET Questions :
                      PatchKitReads(w, u, t, sent)
               \/ PatchKitCommits(w)
        PROVE  CloseStep
    <2>1. rows' = rows /\ stage' = stage
      BY <1>7 DEF PatchKitReads, PatchKitCommits
    <2>2. QED BY <1>7, <2>1, PatchKitTracks, LiveType, QuietClose DEF live
  <1>8. CASE KitWork
    BY <1>7, <1>8, GenerateKitCloses DEF KitWork
  <1>9. ASSUME NEW ws \in SUBSET Workers, Cut(ws) PROVE CloseStep
    BY <1>9, QuietClose DEF Cut, live
  <1>10. QED BY <1>4, <1>5, <1>6, <1>8, <1>9, NextCuts

\* A scheduled round is closed by the step that completes it, be it a submitted
\* sheet, a removed interviewer or a removed track, and by nothing else but the
\* recruiter's own decision.
THEOREM RoundsClose == Spec => RoundsCloseWhenComplete
  <1>1. TypeOK /\ RoundsInv /\ [Next]_vars => [CloseStep]_vars
    BY CloseStepOfNext
  <1>2. QED BY <1>1, RoundsInvariant, PTL DEF Spec, RoundsCloseWhenComplete, CloseStep

-----------------------------------------------------------------------------
(* What is answered is kept.  No invariant is needed: whatever the copy a   *)
(* generation works from, what it makes of it holds the answered questions  *)
(* of that copy, and what its session does not write stays in the kit.      *)

\* Answered questions of the copy survive every way a generation can end.
LEMMA GeneratedKeepsAnswers ==
    ASSUME NEW seen \in Kit, NEW rs, NEW t, NEW fails \in BOOLEAN,
           NEW fixed \in SUBSET Baseline, NEW generated \in SUBSET Probes
    PROVE  seen.questions \cap AnsweredIds(rs, t)
               \subseteq GeneratedKit(seen, rs, t, fails, fixed, generated).questions
  <1>1. [seen EXCEPT !.status = "ready"].questions = seen.questions
    BY DEF Kit
  <1>2. seen.questions \cap AnsweredIds(rs, t)
            \subseteq MergeRegenerated(seen.questions, AnsweredIds(rs, t), fixed, generated)
    BY DEF MergeRegenerated
  <1>3. QED BY <1>1, <1>2 DEF GeneratedKit

\* What GenerationKeepsAnswers says of a step.
KeepStep ==
    \A w \in Workers :
        workers[w].kind = "running" /\ workers'[w].kind # "running"
            /\ workers[w].round = round =>
        workers[w].seen.questions \cap live[workers[w].track].questions
            \cap AnsweredIds(panel, workers[w].track)
            \subseteq kits'[round][workers[w].track].questions

LEMMA StoringKeepsAnswers ==
    ASSUME TypeOK, NEW w \in Workers, NEW fails \in BOOLEAN, NEW fixed \in SUBSET Baseline,
           NEW generated \in SUBSET Probes, GenerationStores(w, fails, fixed, generated),
           workers[w].round = round
    PROVE  workers[w].seen.questions \cap live[workers[w].track].questions
               \cap AnsweredIds(panel, workers[w].track)
               \subseteq kits'[round][workers[w].track].questions
  <1>1. workers[w] \in Running
    BY WorkerOfKind DEF GenerationStores, TypeOK
  <1>2. PICK me \in Running : me = workers[w]
    BY <1>1
  <1>3. PICK t \in Tracks : t = me.track
    BY DEF Running
  <1>4. me.seen \in Kit
    BY DEF Running
  <1> DEFINE copy == IF me.there THEN me.seen ELSE live[t]
             new == GeneratedKit(me.seen, panel, t, fails, fixed, generated)
             answered == AnsweredIds(panel, t)
  <1>5. me.seen.questions \cap answered \subseteq new.questions
    BY <1>4, GeneratedKeepsAnswers
  <1>6. \/ kits' = kits
        \/ kits' = [kits EXCEPT ![round][t] = Written(kits[round][t], copy, new)]
    BY <1>2, <1>3 DEF GenerationStores
  <1> HIDE DEF copy, new
  <1>7. \/ Written(kits[round][t], copy, new).questions = live[t].questions
        \/ Written(kits[round][t], copy, new).questions = new.questions
    BY DEF Written, live
  <1> HIDE DEF answered
  <1>8. \/ kits'[round][t].questions = live[t].questions
        \/ kits'[round][t].questions = new.questions
    BY <1>6, <1>7 DEF TypeOK, live
  <1>9. me.seen.questions \cap live[t].questions \cap answered
            \subseteq kits'[round][t].questions
    BY <1>5, <1>8
  <1>10. QED BY <1>2, <1>3, <1>9 DEF answered

\* The deletion of kits leaves a running generation running.
LEMMA WithoutKitsKeeps ==
    ASSUME NEW rec \in Worker, NEW ts
    PROVE  /\ WithoutKits(rec, ts).kind = rec.kind
           /\ rec.kind \in Working => WithoutKits(rec, ts).todo = rec.todo
           /\ rec.kind \in Working \ {"queued"} => WithoutKits(rec, ts).round = rec.round
           /\ rec.kind = "running" =>
                /\ WithoutKits(rec, ts).track = rec.track
                /\ WithoutKits(rec, ts).seen = rec.seen
                /\ WithoutKits(rec, ts).there => rec.there
  <1>1. CASE rec.kind = "running"
    BY <1>1, WorkerOfKind DEF WithoutKits, Running, Working
  <1>2. CASE rec.kind = "patch"
    BY <1>2, WorkerOfKind DEF WithoutKits, Patches, Working
  <1>3. CASE rec.kind \notin {"running", "patch"}
    BY <1>3 DEF WithoutKits
  <1>4. QED BY <1>1, <1>2, <1>3

\* What a request does to the coroutines: it asks one in an idle slot to dispatch
\* or to generate, takes kits away from those under way, or is an edit of a kit.
LEMMA RequestsAsk ==
    ASSUME TypeOK, Scheduling \/ PanelWork \/ KitWork
    PROVE  \/ \E w \in Workers, rec \in Worker : \E gone :
                 /\ Asks(w, rec, gone) /\ rec.kind \in Working \ {"running"}
                 /\ rec.kind # "queued" => rec.round = round'
           \/ \E t \in Tracks :
                 workers' = [w \in Workers |-> WithoutKits(workers[w], {t})] /\ cut' = cut
           \/ \E w \in Workers, rec \in {Idle} \cup Patches :
                 /\ workers[w].kind \notin Working
                 /\ Becomes(w, rec) /\ cut' = cut
           \/ UNCHANGED <<workers, cut>>
  <1> DEFINE Asked == \E w \in Workers, rec \in Worker : \E gone :
                          /\ Asks(w, rec, gone) /\ rec.kind \in Working \ {"running"}
                          /\ rec.kind # "queued" => rec.round = round'
  <1>1. \A todo, r : /\ Scheduled(todo, r).kind = "scheduled"
                     /\ Scheduled(todo, r).round = r
    BY DEF Scheduled
  <1>2. ASSUME NEW w \in Workers, NEW choices \in SUBSET Tracks, StartRound(w, choices)
        PROVE  Asked
    <2> DEFINE todo == {t \in choices : [x \in Tracks |-> StartedKit(x, choices)][t].status
                                            = "generating"}
    <2>1. PICK gone : Asks(w, Scheduled(todo, round), gone)
      BY <1>2 DEF StartRound
    <2>2. Scheduled(todo, round) \in Worker
      BY LiveType, AskedFor
    <2>3. round' = round
      BY <1>2 DEF StartRound
    <2> HIDE DEF todo
    <2>4. QED BY <1>1, <2>1, <2>2, <2>3 DEF Working
  <1>3. ASSUME NEW w \in Workers, NEW choices \in SUBSET Tracks, OpenNextRound(w, choices)
        PROVE  Asked \/ UNCHANGED <<workers, cut>>
    <2> DEFINE todo == choices \ TracksOf(live)
    <2>1. \/ Asks(w, Scheduled(todo, round + 1), {})
          \/ UNCHANGED <<workers, cut>>
      BY <1>3 DEF OpenNextRound
    <2>2. round' = round + 1 /\ round + 1 \in Rounds
      BY <1>3, ConstantsAssumption DEF OpenNextRound, TypeOK, Rounds
    <2>3. Scheduled(todo, round + 1) \in Worker
      BY <2>2, AskedFor
    <2> HIDE DEF todo
    <2>4. QED BY <1>1, <2>1, <2>2, <2>3 DEF Working
  <1>4. ASSUME NEW w \in Workers, NEW t \in Tracks, AddTrack(w, t)
        PROVE  Asked
    <2>1. [kind |-> "added", todo |-> {t}, round |-> round] \in Worker
      BY LiveType, AskedFor
    <2>2. round' = round
      BY <1>4 DEF AddTrack
    <2>3. QED BY <1>4, <2>1, <2>2 DEF AddTrack, Working
  <1>5. ASSUME NEW w \in Workers, NEW t \in Tracks, GenerateKit(w, t)
        PROVE  Asked \/ UNCHANGED <<workers, cut>>
    <2>1. [kind |-> "queued", todo |-> {t}] \in Worker
      BY LiveType, AskedFor
    <2>2. QED BY <1>5, <2>1 DEF GenerateKit, Working
  <1>6. ASSUME NEW w \in Workers, PatchKitCommits(w)
                 \/ \E u \in Users, t \in Tracks, sent \in SUBSET Questions :
                        PatchKitReads(w, u, t, sent)
        PROVE  \E rec \in {Idle} \cup Patches :
                   workers[w].kind \notin Working /\ Becomes(w, rec) /\ cut' = cut
    <2>1. CASE PatchKitCommits(w)
      BY <2>1 DEF PatchKitCommits, Working
    <2>2. ASSUME NEW u \in Users, NEW t \in Tracks, NEW sent \in SUBSET Questions,
                 PatchKitReads(w, u, t, sent)
          PROVE  \E rec \in {Idle} \cup Patches :
                     workers[w].kind \notin Working /\ Becomes(w, rec) /\ cut' = cut
      <3>1. live[t].questions \subseteq Questions
        BY LiveType DEF Kit
      <3>2. [kind |-> "patch", round |-> round, track |-> t, there |-> TRUE,
             seen |-> live[t].questions, sent |-> sent] \in Patches
        BY <3>1, LiveType DEF Patches
      <3>3. workers[w].kind \notin Working
        BY <2>2 DEF PatchKitReads, IsIdle, Idle, Working
      <3>4. QED BY <2>2, <3>2, <3>3 DEF PatchKitReads
    <2>3. QED BY <1>6, <2>1, <2>2
  <1>7. ASSUME NEW t \in Tracks, RemoveTrack(t)
        PROVE  workers' = [w \in Workers |-> WithoutKits(workers[w], {t})] /\ cut' = cut
    BY <1>7 DEF RemoveTrack
  <1>8. CASE PanelWork \/ CloseByHand \/ LeaveInterview
    BY <1>8 DEF PanelWork, PutInterviewers, SetActive, PatchSheet, SubmitSheet, CloseByHand,
           LeaveInterview
  <1> HIDE DEF Asked
  <1>9. CASE Scheduling
    BY <1>2, <1>3, <1>4, <1>7, <1>8, <1>9 DEF Scheduling, Asked
  <1>10. CASE KitWork
    BY <1>5, <1>6, <1>10 DEF KitWork, Asked
  <1>11. QED BY <1>8, <1>9, <1>10

\* No request ends a generation, or what comes before one: it starts in an idle
\* slot and at most takes a kit away from those under way.
LEMMA RequestsSpareGenerations ==
    ASSUME TypeOK, Scheduling \/ PanelWork \/ KitWork, NEW w \in Workers,
           workers[w].kind \in Working
    PROVE  \/ workers'[w] = workers[w]
           \/ \E ts : workers'[w] = WithoutKits(workers[w], ts)
  <1>1. workers \in [Workers -> Worker] /\ ~IsIdle(w)
    BY DEF TypeOK, IsIdle, Idle, Working
  <1>2. ASSUME NEW v \in Workers, NEW rec, NEW gone, Asks(v, rec, gone)
        PROVE  workers'[w] = WithoutKits(workers[w], gone)
    BY <1>1, <1>2 DEF Asks
  <1>3. ASSUME NEW v \in Workers, NEW rec, workers[v].kind \notin Working, Becomes(v, rec)
        PROVE  workers'[w] = workers[w]
    BY <1>1, <1>3 DEF Becomes
  <1>4. QED BY <1>2, <1>3, RequestsAsk

LEMMA KeepStepOfNext == TypeOK /\ [Next]_vars => [KeepStep]_vars
  <1> SUFFICES ASSUME TypeOK, [Next]_vars, NEW w \in Workers,
                      workers[w].kind = "running", workers'[w].kind # "running",
                      workers[w].round = round
               PROVE  workers[w].seen.questions \cap live[workers[w].track].questions
                          \cap AnsweredIds(panel, workers[w].track)
                          \subseteq kits'[round][workers[w].track].questions
    BY DEF KeepStep
  <1>1. workers \in [Workers -> Worker]
    BY DEF TypeOK
  <1>2. ~(Scheduling \/ PanelWork \/ KitWork)
    BY <1>1, RequestsSpareGenerations, WithoutKitsKeeps DEF Working
  <1>3. ~UNCHANGED vars
    BY DEF vars
  <1>4. ASSUME NEW ws \in SUBSET Workers, Cut(ws)
        PROVE  live[workers[w].track].questions \subseteq kits'[round][workers[w].track].questions
    BY <1>4 DEF Cut, live
  <1>5. ASSUME NEW v \in Workers, Generation(v)
        PROVE  v = w /\ ~Dispatches(w) /\ ~\E t \in Tracks : GenerationLoads(w, t)
    BY <1>1, <1>5 DEF Generation, Dispatches, GenerationLoads, GenerationStores, Continues,
           Becomes
  <1>6. ASSUME Generation(w), ~Dispatches(w), ~\E t \in Tracks : GenerationLoads(w, t)
        PROVE  workers[w].seen.questions \cap live[workers[w].track].questions
                   \cap AnsweredIds(panel, workers[w].track)
                   \subseteq kits'[round][workers[w].track].questions
    BY <1>6, StoringKeepsAnswers DEF Generation
  <1>7. QED BY <1>2, <1>3, <1>4, <1>5, <1>6, NextCuts

\* A regeneration loses no question that someone has answered while the model
\* was working, whatever copy it started from and whoever edited the kit since.
THEOREM AnswersAreKept == Spec => GenerationKeepsAnswers
  <1>1. TypeOK /\ [Next]_vars => [KeepStep]_vars
    BY KeepStepOfNext
  <1>2. QED BY <1>1, TypeCorrect, PTL DEF Spec, GenerationKeepsAnswers, KeepStep

-----------------------------------------------------------------------------
(* A frozen kit keeps its questions.  A submitted sheet is on a track with  *)
(* a kit, so nothing that makes a kit anew makes this one; what removes one *)
(* asks for feedback; and a generation looks at the freeze as it stores.    *)

\* A writer that does not know of the freeze.
Unaware(rec, t) ==
    /\ \/ rec.kind = "patch"
       \/ rec.kind = "running" /\ (rec.there => rec.seen.questions = {})
    /\ rec.round = round /\ rec.track = t

FreezeStep ==
    \A t \in Tracks :
        round' = round /\ IsFrozen(panel, t) =>
            \/ live[t].questions \subseteq kits'[round][t].questions
            \/ \E w \in Workers :
                  LET me == workers[w]
                  IN  /\ \/ me.kind = "patch"
                         \/ me.kind = "running" /\ (me.there => me.seen.questions = {})
                      /\ me.round = round /\ me.track = t
                      /\ workers'[w].kind # me.kind

LEMMA FrozenIsThere ==
    ASSUME TypeOK, RoundsInv, NEW t \in Tracks, IsFrozen(panel, t)
    PROVE  t \in TracksOf(live) /\ HasFeedback(panel, t)
  <1>1. PICK u \in Panel(panel, t) : IsSubmitted(panel[u])
    BY DEF IsFrozen
  <1>2. u \in Users /\ panel[u].track = t /\ IsWritten(panel[u])
    BY <1>1 DEF Panel, PanelOf, IsWritten
  <1>3. QED BY <1>1, <1>2, WrittenIsThere DEF HasFeedback

\* Changing the status of a kit changes none of its questions.
LEMMA StatusOnly ==
    ASSUME NEW ks \in [Tracks -> Kit], NEW failed
    PROVE  /\ \A kit \in Kit : \A s : [kit EXCEPT !.status = s].questions = kit.questions
           /\ \A t \in Tracks : Failed(ks, failed)[t].questions = ks[t].questions
  BY DEF Failed, Kit

LEMMA RequestsKeepFrozen ==
    ASSUME TypeOK, RoundsInv, NEW t \in Tracks, IsFrozen(panel, t), round' = round,
           \/ Scheduling \/ PanelWork
           \/ \E w \in Workers, s \in Tracks : GenerateKit(w, s)
    PROVE  live[t].questions \subseteq kits'[round][t].questions
  <1>1. /\ kits \in [Rounds -> [Tracks -> Kit]] /\ round \in Rounds
        /\ live \in [Tracks -> Kit] /\ live = kits[round]
    BY LiveType DEF TypeOK, live
  <1>2. t \in TracksOf(live) /\ live[t].status # "absent" /\ HasFeedback(panel, t)
    BY FrozenIsThere DEF TracksOf
  <1>3. ASSUME NEW w \in Workers, NEW choices \in SUBSET Tracks, StartRound(w, choices)
        PROVE  kits'[round][t].questions = live[t].questions
    <2> DEFINE ks == [s \in Tracks |-> StartedKit(s, choices)]
    <2>1. \A s \in Tracks : StartedKit(s, choices) \in Kit
      BY LiveType, KitsOfTheActions DEF StartedKit
    <2>2. kits' = [kits EXCEPT ![round] = ks]
      BY <1>3 DEF StartRound
    <2>3. StartedKit(t, choices).questions = live[t].questions
      BY <1>1, <1>2, StatusOnly DEF StartedKit
    <2>4. kits'[round] = ks
      BY <1>1, <2>2
    <2>5. QED BY <2>3, <2>4
  <1>4. ASSUME NEW w \in Workers, NEW s \in Tracks, AddTrack(w, s)
        PROVE  kits'[round][t].questions = live[t].questions
    <2> DEFINE ks == [live EXCEPT ![s] = NewKit]
    <2>1. ks \in [Tracks -> Kit] /\ ks[t] = live[t]
      BY <1>1, <1>2, <1>4, KitsOfTheActions DEF AddTrack
    <2>2. kits' = [kits EXCEPT ![round] = ks]
      BY <1>4 DEF AddTrack
    <2>3. kits'[round] = ks
      BY <1>1, <2>2
    <2>4. QED BY <2>1, <2>3
  <1>5. ASSUME NEW s \in Tracks, RemoveTrack(s)
        PROVE  kits'[round][t] = live[t]
    <2>1. s # t /\ kits' = [kits EXCEPT ![round][s] = NoKit]
      BY <1>2, <1>5 DEF RemoveTrack
    <2>2. QED BY <1>1, <2>1
  <1>6. ASSUME NEW w \in Workers, NEW s \in Tracks, GenerateKit(w, s)
        PROVE  kits'[round][t].questions = live[t].questions
    <2>1. TracksOf(live) # {}
      BY <1>2
    <2>2. \/ kits' = [kits EXCEPT ![round][s].status = "ready"]
          \/ kits' = [kits EXCEPT ![round] =
                         [live EXCEPT ![s] = [@ EXCEPT !.status = "generating"]]]
      BY <1>6, <2>1 DEF GenerateKit
    <2>3. \/ kits'[round][t] = live[t]
          \/ kits'[round][t] = [live[t] EXCEPT !.status = "ready"]
          \/ kits'[round][t] = [live[t] EXCEPT !.status = "generating"]
      BY <1>1, <2>2
    <2>4. live[t] \in Kit
      BY <1>1
    <2>5. /\ [live[t] EXCEPT !.status = "ready"].questions = live[t].questions
          /\ [live[t] EXCEPT !.status = "generating"].questions = live[t].questions
      BY <2>4 DEF Kit
    <2>6. QED BY <2>3, <2>5
  <1>7. CASE Scheduling
    <2>1. ~\E w \in Workers, choices \in SUBSET Tracks : OpenNextRound(w, choices)
      <3>1. round + 1 # round
        BY <1>1, ConstantsAssumption DEF Rounds
      <3>2. QED BY <3>1 DEF OpenNextRound
    <2>2. CASE CloseByHand \/ LeaveInterview
      BY <1>1, <2>2 DEF CloseByHand, LeaveInterview
    <2>3. QED BY <1>3, <1>4, <1>5, <1>7, <2>1, <2>2 DEF Scheduling
  <1>8. CASE PanelWork
    BY <1>1, <1>8 DEF PanelWork, PutInterviewers, SetActive, PatchSheet, SubmitSheet
  <1>9. QED BY <1>6, <1>7, <1>8

\* What an edit or a generation writes on the kit of another track or round does
\* not matter, nor what a generation stores over the questions it has read.
LEMMA CoroutinesKeepFrozen ==
    ASSUME TypeOK, NEW t \in Tracks, IsFrozen(panel, t), NEW w \in Workers,
           \/ \E u \in Users, s \in Tracks, sent \in SUBSET Questions : PatchKitReads(w, u, s, sent)
           \/ PatchKitCommits(w)
           \/ Generation(w)
    PROVE  \/ live[t].questions \subseteq kits'[round][t].questions
           \/ Unaware(workers[w], t) /\ workers'[w].kind # workers[w].kind
  <1>1. /\ kits \in [Rounds -> [Tracks -> Kit]] /\ round \in Rounds
        /\ live = kits[round] /\ workers \in [Workers -> Worker]
    BY DEF TypeOK, live
  <1>2. CASE kits' = kits
    BY <1>1, <1>2
  <1>3. CASE PatchKitCommits(w)
    <2>1. workers[w] \in Patches
      BY <1>3, WorkerOfKind DEF PatchKitCommits, TypeOK
    <2>2. PICK me \in Patches : me = workers[w]
      BY <2>1
    <2>3. me.round \in Rounds /\ me.track \in Tracks
      BY DEF Patches
    <2>4. workers'[w].kind = "idle" /\ me.kind = "patch"
      BY <1>1, <1>3, <2>2 DEF PatchKitCommits, Becomes, Idle
    <2>5. CASE me.round = round /\ me.track = t
      BY <2>2, <2>4, <2>5 DEF Unaware
    <2>6. CASE ~(me.round = round /\ me.track = t)
      <3>1. kits'[round][t] = kits[round][t]
        BY <1>1, <1>3, <2>2, <2>3, <2>6 DEF PatchKitCommits
      <3>2. QED BY <1>1, <3>1
    <2>7. QED BY <2>5, <2>6
  <1>4. ASSUME NEW fails \in BOOLEAN, NEW fixed \in SUBSET Baseline,
               NEW generated \in SUBSET Probes, GenerationStores(w, fails, fixed, generated),
               kits' # kits
        PROVE  \/ live[t].questions \subseteq kits'[round][t].questions
               \/ Unaware(workers[w], t) /\ workers'[w].kind # workers[w].kind
    <2>1. workers[w] \in Running
      BY <1>4, WorkerOfKind DEF GenerationStores, TypeOK
    <2>2. PICK me \in Running : me = workers[w]
      BY <2>1
    <2>3. PICK s \in Tracks : s = me.track
      BY DEF Running
    <2>4. me.seen \in Kit /\ me.kind = "running"
      BY DEF Running
    <2> DEFINE copy == IF me.there THEN me.seen ELSE live[s]
               new == GeneratedKit(me.seen, panel, s, fails, fixed, generated)
    <2>5. /\ me.round = round /\ s \in TracksOf(live)
          /\ kits' = [kits EXCEPT ![round][s] = Written(kits[round][s], copy, new)]
      BY <1>4, <2>2, <2>3 DEF GenerationStores
    <2>6. workers'[w].kind \in {"idle", "queued"}
      BY <1>1, <1>4 DEF GenerationStores, Continues, Becomes, Idle
    <2>7. CASE s = t /\ (me.there => me.seen.questions = {})
      BY <2>2, <2>3, <2>4, <2>5, <2>6, <2>7 DEF Unaware
    <2>8. CASE s = t /\ me.there /\ me.seen.questions # {}
      <3>1. new = [me.seen EXCEPT !.status = "ready"]
        BY <2>8 DEF GeneratedKit
      <3>2. new.questions = me.seen.questions
        BY <2>4, <3>1 DEF Kit
      <3>3. copy = me.seen
        BY <2>8
      <3>4. Written(kits[round][s], copy, new).questions = kits[round][s].questions
        BY <3>2, <3>3 DEF Written
      <3> HIDE DEF copy, new
      <3>5. kits'[round][t].questions = kits[round][t].questions
        BY <1>1, <2>5, <2>8, <3>4
      <3>6. QED BY <1>1, <3>5
    <2>9. CASE s # t
      <3>1. kits'[round][t] = kits[round][t]
        BY <1>1, <2>5, <2>9
      <3>2. QED BY <1>1, <3>1
    <2>10. QED BY <2>7, <2>8, <2>9
  <1>5. ASSUME Dispatches(w)
        PROVE  kits'[round][t].questions = live[t].questions
    <2>1. PICK r \in Rounds : \E failed \in MayFail(workers[w].todo) :
              kits' = [kits EXCEPT ![r] = Failed(@, failed \cap TracksOf(@))]
      BY <1>5, DispatchedRound
    <2>2. PICK failed : kits' = [kits EXCEPT ![r] = Failed(@, failed \cap TracksOf(@))]
      BY <2>1
    <2>3. CASE r = round
      <3>1. kits'[round] = Failed(live, failed \cap TracksOf(live)) /\ live \in [Tracks -> Kit]
        BY <1>1, <2>2, <2>3
      <3>2. QED BY <3>1, StatusOnly
    <2>4. CASE r # round
      BY <1>1, <2>2, <2>4
    <2>5. QED BY <2>3, <2>4
  <1>6. QED BY <1>2, <1>3, <1>4, <1>5 DEF PatchKitReads, Generation, GenerationLoads

LEMMA FreezeStepOfNext == TypeOK /\ RoundsInv /\ [Next]_vars => [FreezeStep]_vars
  <1> SUFFICES ASSUME TypeOK, RoundsInv, Next, NEW t \in Tracks, round' = round,
                      IsFrozen(panel, t)
               PROVE  \/ live[t].questions \subseteq kits'[round][t].questions
                      \/ \E w \in Workers :
                            Unaware(workers[w], t) /\ workers'[w].kind # workers[w].kind
    BY DEF FreezeStep, Unaware
  <1>1. CASE Scheduling \/ PanelWork
    BY <1>1, RequestsKeepFrozen
  <1>2. CASE KitWork
    BY <1>2, RequestsKeepFrozen, CoroutinesKeepFrozen DEF KitWork
  <1>3. ASSUME NEW w \in Workers, Generation(w)
        PROVE  \/ live[t].questions \subseteq kits'[round][t].questions
               \/ Unaware(workers[w], t) /\ workers'[w].kind # workers[w].kind
    BY <1>3, CoroutinesKeepFrozen
  <1>4. ASSUME NEW ws \in SUBSET Workers, Cut(ws)
        PROVE  live[t].questions \subseteq kits'[round][t].questions
    BY <1>4 DEF Cut, live
  <1>5. QED BY <1>1, <1>2, <1>3, <1>4, NextCuts

\* Once a sheet of a track is submitted no rescheduling, removal or regeneration
\* takes a question out of its kit; only an edit in flight can, and a generation
\* that knew none of its questions.
THEOREM FrozenKitsKeep == Spec => FrozenKitsKeepQuestions
  <1>1. TypeOK /\ RoundsInv /\ [Next]_vars => [FreezeStep]_vars
    BY FreezeStepOfNext
  <1>2. QED BY <1>1, RoundsInvariant, PTL DEF Spec, FrozenKitsKeepQuestions, FreezeStep

-----------------------------------------------------------------------------
(* No generation is waited for in vain.  That some run works on a kit that  *)
(* is generating is not inductive: a run that read the kit ready, and makes *)
(* it ready, writes no status and leaves it generating.  There must be a    *)
(* run that has not read the kit yet, or read it generating, or whose copy  *)
(* is of a row that has gone, since that one will write the status; or it   *)
(* was there, and has been cut short.                                       *)

Resolves(rec, t) ==
    \/ rec.kind \in Working /\ t \in rec.todo
    \/ /\ rec.kind = "running" /\ rec.track = t
       /\ rec.there => rec.seen.status = "generating"

\* Somebody will write the status of the kit, or was cut short before he had.
IsAttended(t) == t \in cut \/ \E w \in Workers : Resolves(workers[w], t)
Attended == \A t \in Tracks : Generating(t) => IsAttended(t)

\* A dispatch and a run are for a round that has begun.
RunsAreForPastRounds ==
    \A w \in Workers : workers[w].kind \in Working \ {"queued"} => workers[w].round <= round

ResolveInv == (round = 1 => Attended) /\ RunsAreForPastRounds

LEMMA ResolvesStays ==
    ASSUME NEW rec \in Worker, NEW t \in Tracks, NEW ts, Resolves(rec, t)
    PROVE  Resolves(WithoutKits(rec, ts), t)
  BY WithoutKitsKeeps DEF Resolves, Working

\* What a request leaves generating is in the list of the slot it took.
LEMMA AskingAttends ==
    ASSUME NEW w \in Workers, NEW rec, NEW gone, Asks(w, rec, gone), rec.kind \in Working,
           NEW t \in rec.todo
    PROVE  IsAttended(t)'
  <1>1. workers'[w] = rec
    BY DEF Asks
  <1>2. Resolves(workers'[w], t)
    BY <1>1 DEF Resolves
  <1>3. QED BY <1>2 DEF IsAttended, Resolves

\* No request takes a track from whoever attends it.
LEMMA RequestsKeepAttendance ==
    ASSUME TypeOK, Scheduling \/ PanelWork \/ KitWork, NEW t \in Tracks, IsAttended(t)
    PROVE  IsAttended(t)'
  <1>1. workers \in [Workers -> Worker]
    BY DEF TypeOK
  <1>2. ASSUME NEW w \in Workers, Resolves(workers[w], t)
        PROVE  Resolves(workers'[w], t)
    <2>1. workers[w].kind \in Working
      BY <1>2 DEF Resolves, Working
    <2>2. QED BY <1>1, <1>2, <2>1, RequestsSpareGenerations, ResolvesStays
  <1>3. CASE \E w \in Workers : Resolves(workers[w], t)
    BY <1>2, <1>3 DEF IsAttended, Resolves
  <1>4. CASE t \in cut
    <2>1. CASE cut' = cut
      BY <1>4, <2>1 DEF IsAttended
    <2>2. ASSUME NEW w \in Workers, NEW rec \in Worker, NEW gone, Asks(w, rec, gone),
                 rec.kind \in Working
          PROVE  IsAttended(t)'
      <3>1. CASE t \in rec.todo
        BY <2>2, <3>1, AskingAttends
      <3>2. CASE t \notin rec.todo
        BY <1>4, <2>2, <3>2 DEF Asks, IsAttended
      <3>3. QED BY <3>1, <3>2
    <2>3. QED BY <2>1, <2>2, RequestsAsk
  <1>5. QED BY <1>3, <1>4 DEF IsAttended

\* Tracks that fail for want of a model are not generating.
LEMMA FailedIsNotGenerating ==
    ASSUME NEW ks \in [Tracks -> Kit], NEW failed, NEW t \in Tracks,
           Failed(ks, failed)[t].status = "generating"
    PROVE  t \notin failed /\ ks[t].status = "generating"
  BY DEF Failed, Kit

LEMMA SchedulingAttends ==
    ASSUME TypeOK, Scheduling, round' = round, NEW t \in Tracks, Generating(t)'
    PROVE  Generating(t) \/ IsAttended(t)'
  <1>1. /\ live \in [Tracks -> Kit] /\ round \in Rounds
        /\ kits \in [Rounds -> [Tracks -> Kit]]
    BY LiveType DEF TypeOK
  <1>2. kits'[round][t].status = "generating"
    BY DEF Generating, live
  <1>3. ASSUME NEW w \in Workers, NEW choices \in SUBSET Tracks, StartRound(w, choices)
        PROVE  Generating(t) \/ IsAttended(t)'
    <2> DEFINE ks == [x \in Tracks |-> StartedKit(x, choices)]
               todo == {x \in choices : ks[x].status = "generating"}
    <2>1. /\ kits' = [kits EXCEPT ![round] = ks]
          /\ \E gone : Asks(w, Scheduled(todo, round), gone)
      BY <1>3 DEF StartRound
    <2>2. ks[t] = StartedKit(t, choices) /\ ks[t].status = "generating"
      BY <1>1, <1>2, <2>1
    <2> HIDE DEF ks
    <2>3. CASE t \in choices
      <3>1. /\ Scheduled(todo, round).kind \in Working
            /\ t \in Scheduled(todo, round).todo
        BY <2>2, <2>3 DEF Scheduled, Working
      <3> HIDE DEF todo
      <3>2. QED BY <2>1, <3>1, AskingAttends
    <2>4. CASE t \notin choices
      BY <2>2, <2>4 DEF StartedKit, NoKit, Generating
    <2>5. QED BY <2>3, <2>4
  <1>4. ASSUME NEW w \in Workers, NEW s \in Tracks, AddTrack(w, s)
        PROVE  Generating(t) \/ IsAttended(t)'
    <2> DEFINE rec == [kind |-> "added", todo |-> {s}, round |-> round]
    <2>1. kits' = [kits EXCEPT ![round] = [live EXCEPT ![s] = NewKit]] /\ Asks(w, rec, {})
      BY <1>4 DEF AddTrack
    <2>2. rec.kind \in Working /\ rec.todo = {s}
      BY DEF Working
    <2> HIDE DEF rec
    <2>3. CASE t = s
      BY <2>1, <2>2, <2>3, AskingAttends
    <2>4. CASE t # s
      BY <1>1, <1>2, <2>1, <2>4 DEF Generating
    <2>5. QED BY <2>3, <2>4
  <1>5. ASSUME NEW s \in Tracks, RemoveTrack(s)
        PROVE  Generating(t)
    BY <1>1, <1>2, <1>5 DEF RemoveTrack, NoKit, Generating, live
  <1>6. ASSUME CloseByHand \/ LeaveInterview
        PROVE  Generating(t)
    BY <1>2, <1>6 DEF CloseByHand, LeaveInterview, Generating, live
  <1>7. ASSUME NEW w \in Workers, NEW choices \in SUBSET Tracks
        PROVE  ~OpenNextRound(w, choices)
    BY <1>1 DEF OpenNextRound, Rounds
  <1>8. QED BY <1>3, <1>4, <1>5, <1>6, <1>7 DEF Scheduling

LEMMA KitWorkAttends ==
    ASSUME TypeOK, KitWork, NEW t \in Tracks, Generating(t)'
    PROVE  Generating(t) \/ IsAttended(t)'
  <1>1. /\ live \in [Tracks -> Kit] /\ round \in Rounds /\ panel \in [Users -> Sheet]
        /\ kits \in [Rounds -> [Tracks -> Kit]]
    BY LiveType DEF TypeOK
  <1>2. round' = round
    BY DEF KitWork, PatchKitReads, PatchKitCommits, GenerateKit
  <1>3. kits'[round][t].status = "generating"
    BY <1>2 DEF Generating, live
  <1>4. ASSUME NEW w \in Workers, PatchKitCommits(w)
        PROVE  Generating(t)
    <2>1. workers[w] \in Patches
      BY <1>4, WorkerOfKind DEF PatchKitCommits, TypeOK
    <2>2. workers[w].round \in Rounds /\ workers[w].track \in Tracks
      BY <2>1 DEF Patches
    <2>3. \A kit \in Kit : [kit EXCEPT !.questions = workers[w].sent].status = kit.status
      BY DEF Kit
    <2>4. kits'[round][t].status = kits[round][t].status
      BY <1>1, <1>4, <2>2, <2>3 DEF PatchKitCommits
    <2>5. QED BY <1>3, <2>4 DEF Generating, live
  <1>5. ASSUME NEW w \in Workers, NEW u \in Users, NEW s \in Tracks,
               NEW sent \in SUBSET Questions, PatchKitReads(w, u, s, sent)
        PROVE  Generating(t)
    BY <1>3, <1>5 DEF PatchKitReads, Generating, live
  <1>6. ASSUME NEW w \in Workers, NEW s \in Tracks, GenerateKit(w, s)
        PROVE  Generating(t) \/ IsAttended(t)'
    <2> DEFINE rec == [kind |-> "queued", todo |-> {s}]
               kit == IF TracksOf(live) = {} THEN NewKit
                      ELSE [live[s] EXCEPT !.status = "generating"]
    <2>1. \/ kits' = [kits EXCEPT ![round][s].status = "ready"]
          \/ kits' = [kits EXCEPT ![round] = [live EXCEPT ![s] = kit]] /\ Asks(w, rec, {})
      BY <1>1, <1>6 DEF GenerateKit
    <2>2. rec.kind \in Working /\ rec.todo = {s}
      BY DEF Working
    <2> HIDE DEF kit, rec
    <2>3. CASE kits' = [kits EXCEPT ![round][s].status = "ready"]
      <3>1. kits[round][s] \in Kit
        BY <1>1
      <3>2. [kits[round][s] EXCEPT !.status = "ready"].status = "ready"
        BY <3>1 DEF Kit
      <3>3. t # s
        BY <1>1, <1>3, <2>3, <3>2
      <3>4. kits'[round][t] = kits[round][t]
        BY <1>1, <2>3, <3>3
      <3>5. QED BY <1>3, <3>4 DEF Generating, live
    <2>4. CASE kits' = [kits EXCEPT ![round] = [live EXCEPT ![s] = kit]] /\ Asks(w, rec, {})
      <3>1. CASE t = s
        BY <2>2, <2>4, <3>1, AskingAttends
      <3>2. CASE t # s
        <4>1. kits'[round][t] = live[t]
          BY <1>1, <2>4, <3>2
        <4>2. QED BY <1>3, <4>1 DEF Generating
      <3>3. QED BY <3>1, <3>2
    <2>5. QED BY <2>1, <2>3, <2>4
  <1>7. QED BY <1>4, <1>5, <1>6 DEF KitWork

\* The run that reads a kit generating is the one that will resolve it.
LEMMA LoadingAttends ==
    ASSUME TypeOK, Attended, NEW w \in Workers, NEW s \in Tracks, GenerationLoads(w, s)
    PROVE  Attended'
  <1>1. workers \in [Workers -> Worker]
    BY DEF TypeOK
  <1>2. PICK rec \in Queued : rec = workers[w]
    BY <1>1, WorkerOfKind DEF GenerationLoads
  <1>3. /\ workers'[w] = [kind |-> "running", todo |-> rec.todo \ {s}, round |-> round,
                          track |-> s, there |-> s \in TracksOf(live), seen |-> live[s]]
        /\ \A v \in Workers \ {w} : workers'[v] = workers[v]
    BY <1>1, <1>2 DEF GenerationLoads, Becomes
  <1>4. live' = live /\ cut' = cut
    BY DEF GenerationLoads, live
  <1>5. ASSUME NEW t \in Tracks, Generating(t)', t \notin cut
        PROVE  \E v \in Workers : Resolves(workers'[v], t)
    <2>1. live[t].status = "generating"
      BY <1>4, <1>5 DEF Generating
    <2>2. PICK v \in Workers : Resolves(workers[v], t)
      BY <1>5, <2>1 DEF Attended, IsAttended, Generating
    <2>3. CASE v # w
      BY <1>3, <2>2, <2>3
    <2>4. CASE v = w
      <3>1. t \in rec.todo
        BY <1>2, <2>2, <2>4 DEF Resolves, Queued
      <3>2. CASE t = s
        BY <1>3, <2>1, <3>2 DEF Resolves
      <3>3. CASE t # s
        BY <1>3, <3>1, <3>3 DEF Resolves, Working
      <3>4. QED BY <3>2, <3>3
    <2>5. QED BY <2>3, <2>4
  <1>6. QED BY <1>4, <1>5 DEF Attended, IsAttended, Resolves

\* What a dispatch leaves generating it has queued.
LEMMA DispatchAttends ==
    ASSUME TypeOK, Attended, RunsAreForPastRounds, round = 1, NEW w \in Workers, Dispatches(w)
    PROVE  Attended'
  <1>1. /\ workers \in [Workers -> Worker] /\ kits \in [Rounds -> [Tracks -> Kit]]
        /\ live = kits[round]
    BY DEF TypeOK, live
  <1>2. PICK me \in Requested : me = workers[w]
    BY <1>1, WorkerOfKind DEF Dispatches
  <1>3. me.round <= 1 /\ me.round \in Nat
    BY <1>2 DEF RunsAreForPastRounds, Requested, Rounds, Working
  <1>4. PICK r \in Rounds \cap DispatchRounds(me) : \E failed \in MayFail(me.todo) :
            /\ kits' = [kits EXCEPT ![r] = Failed(@, failed \cap TracksOf(@))]
            /\ Continues(w, (me.todo \ failed) \cap TracksOf(kits[r]))
    BY <1>2, DispatchedRound
  <1>5. r = round
    BY <1>3, <1>4 DEF DispatchRounds, Rounds
  <1>6. PICK failed :
            /\ kits'[round] = Failed(live, failed \cap TracksOf(live))
            /\ Continues(w, (me.todo \ failed) \cap TracksOf(live))
    BY <1>1, <1>4, <1>5
  <1>7. live' = kits'[round] /\ cut' = cut
    BY DEF Dispatches, live
  <1>8. ASSUME NEW t \in Tracks, Generating(t)'
        PROVE  t \in TracksOf(live) \ failed /\ Generating(t)
    <2>1. Failed(live, failed \cap TracksOf(live))[t].status = "generating"
      BY <1>6, <1>7, <1>8 DEF Generating
    <2>2. live \in [Tracks -> Kit]
      BY <1>1, LiveType
    <2>3. t \notin failed \cap TracksOf(live) /\ live[t].status = "generating"
      BY <2>1, <2>2, FailedIsNotGenerating
    <2>4. QED BY <2>3 DEF TracksOf, Generating
  <1>9. ASSUME NEW t \in Tracks, Generating(t)', t \notin cut
        PROVE  \E v \in Workers : Resolves(workers'[v], t)
    <2>1. PICK v \in Workers : Resolves(workers[v], t)
      BY <1>8, <1>9 DEF Attended, IsAttended
    <2>2. CASE v # w
      <3>1. workers'[v] = workers[v]
        BY <1>1, <1>6, <2>2 DEF Continues, Becomes
      <3>2. QED BY <2>1, <3>1
    <2>3. CASE v = w
      <3>1. t \in (me.todo \ failed) \cap TracksOf(live)
        BY <1>2, <1>8, <1>9, <2>1, <2>3 DEF Resolves, Requested
      <3>2. workers'[w] = [kind |-> "queued", todo |-> (me.todo \ failed) \cap TracksOf(live)]
        BY <1>1, <1>6, <3>1 DEF Continues, Becomes
      <3>3. QED BY <3>1, <3>2 DEF Resolves, Working
    <2>4. QED BY <2>2, <2>3
  <1>10. QED BY <1>7, <1>9 DEF Attended, IsAttended, Resolves

\* Whoever attended a kit is there still, or cut short.
LEMMA CutsAttend ==
    ASSUME Attended, TypeOK, NEW ws \in SUBSET Workers, Cut(ws)
    PROVE  Attended'
  <1>1. ASSUME NEW t \in Tracks, Generating(t)', t \notin cut'
        PROVE  \E v \in Workers : Resolves(workers'[v], t)
    <2>1. Generating(t) /\ t \notin cut
      BY <1>1 DEF Cut, Generating, live
    <2>2. PICK v \in Workers : Resolves(workers[v], t)
      BY <2>1 DEF Attended, IsAttended
    <2>3. WorksOn(v, t)
      BY <2>2 DEF Resolves, WorksOn
    <2>4. v \notin ws
      BY <1>1, <2>3 DEF Cut
    <2>5. QED BY <2>2, <2>4 DEF Cut
  <1>2. QED BY <1>1 DEF Attended, IsAttended, Resolves

\* The run that would resolve a kit does, when it stores what it made.
LEMMA StoringAttends ==
    ASSUME TypeOK, Attended, RunsAreForPastRounds, round = 1, NEW w \in Workers,
           NEW fails \in BOOLEAN, NEW fixed \in SUBSET Baseline,
           NEW generated \in SUBSET Probes, GenerationStores(w, fails, fixed, generated)
    PROVE  Attended'
  <1>1. /\ workers \in [Workers -> Worker] /\ kits \in [Rounds -> [Tracks -> Kit]]
        /\ round \in Rounds
    BY DEF TypeOK
  <1>2. PICK me \in Running : me = workers[w]
    BY <1>1, WorkerOfKind DEF GenerationStores
  <1>3. PICK s \in Tracks : s = me.track
    BY DEF Running
  <1>4. me.round = round /\ me.seen \in Kit
    BY <1>2 DEF RunsAreForPastRounds, Running, Rounds, Working
  <1>5. /\ workers'[w] = IF me.todo = {} THEN Idle ELSE [kind |-> "queued", todo |-> me.todo]
        /\ \A v \in Workers \ {w} : workers'[v] = workers[v]
    BY <1>1, <1>2 DEF GenerationStores, Continues, Becomes
  <1> DEFINE copy == IF me.there THEN me.seen ELSE live[s]
             new == GeneratedKit(me.seen, panel, s, fails, fixed, generated)
  <1>6. new.status \in {"ready", "error"}
    <2>1. [me.seen EXCEPT !.status = "ready"].status = "ready"
      BY <1>4 DEF Kit
    <2>2. QED BY <2>1 DEF GeneratedKit
  <1>7. IF s \in TracksOf(live)
        THEN kits' = [kits EXCEPT ![round][s] = Written(kits[round][s], copy, new)]
        ELSE kits' = kits
    BY <1>2, <1>3, <1>4 DEF GenerationStores
  <1>8. round' = round /\ cut' = cut
    BY DEF GenerationStores
  <1> HIDE DEF copy, new
  <1>9. ASSUME NEW t \in Tracks, Generating(t)'
        PROVE  Generating(t) /\ (Resolves(me, t) => t \in me.todo)
    <2>1. kits'[round][t].status = "generating"
      BY <1>8, <1>9 DEF Generating, live
    <2>2. CASE t # s
      <3>1. kits'[round][t] = kits[round][t]
        BY <1>1, <1>7, <2>2
      <3>2. QED BY <1>3, <2>1, <2>2, <3>1 DEF Generating, live, Resolves
    <2>3. CASE t = s /\ s \notin TracksOf(live)
      <3>1. live[t].status = "generating"
        BY <1>7, <2>1, <2>3 DEF live
      <3>2. QED BY <2>3, <3>1 DEF TracksOf
    <2>4. CASE t = s /\ s \in TracksOf(live)
      <3>1. Written(kits[round][s], copy, new).status = "generating"
        BY <1>1, <1>7, <2>1, <2>4
      <3>2. new.status = copy.status /\ live[s].status = "generating"
        BY <1>6, <3>1 DEF Written, live
      <3>3. me.there /\ me.seen.status # "generating"
        BY <1>6, <3>2 DEF copy
      <3>4. QED BY <2>4, <3>2, <3>3 DEF Generating, Resolves
    <2>5. QED BY <2>2, <2>3, <2>4
  <1>10. ASSUME NEW t \in Tracks, Generating(t)', t \notin cut
         PROVE  \E v \in Workers : Resolves(workers'[v], t)
    <2>1. PICK v \in Workers : Resolves(workers[v], t)
      BY <1>9, <1>10 DEF Attended, IsAttended
    <2>2. CASE v # w
      BY <1>5, <2>1, <2>2
    <2>3. CASE v = w
      <3>1. t \in me.todo
        BY <1>2, <1>9, <1>10, <2>1, <2>3
      <3>2. QED BY <1>5, <3>1 DEF Resolves, Working
    <2>4. QED BY <2>2, <2>3
  <1>11. QED BY <1>8, <1>10 DEF Attended, IsAttended, Resolves

\* Rounds only begin, one after the other.
LEMMA RoundGrows ==
    ASSUME TypeOK, [Next]_vars
    PROVE  round' = round \/ round' = round + 1
  <1>1. CASE Scheduling \/ PanelWork \/ KitWork
    BY <1>1 DEF Scheduling, PanelWork, KitWork, StartRound, OpenNextRound, CloseByHand,
           LeaveInterview, AddTrack, RemoveTrack, PutInterviewers, SetActive, PatchSheet,
           SubmitSheet, PatchKitReads, PatchKitCommits, GenerateKit
  <1>2. ASSUME NEW w \in Workers, Generation(w) PROVE round' = round
    BY <1>2 DEF Generation, Dispatches, GenerationLoads, GenerationStores
  <1>3. ASSUME NEW ws \in SUBSET Workers, Cut(ws) PROVE round' = round
    BY <1>3 DEF Cut
  <1>4. QED BY <1>1, <1>2, <1>3, NextCuts DEF vars

LEMMA RunsStayForPastRounds ==
    ASSUME TypeOK, RunsAreForPastRounds, [Next]_vars
    PROVE  RunsAreForPastRounds'
  <1>1. round \in Nat /\ workers \in [Workers -> Worker]
    BY DEF TypeOK, Rounds
  <1>2. round' = round \/ round' = round + 1
    BY RoundGrows
  <1> DEFINE Kinds == Working \ {"queued"}
  <1>3. ASSUME NEW w \in Workers, workers'[w].kind \in Kinds
        PROVE  \/ workers[w].kind \in Kinds /\ workers'[w].round = workers[w].round
               \/ workers'[w].round = round \/ workers'[w].round = round'
    <2>1. CASE UNCHANGED <<workers, cut>>
      BY <1>3, <2>1
    <2>2. ASSUME NEW ts, workers'[w] = WithoutKits(workers[w], ts)
          PROVE  workers[w].kind \in Kinds /\ workers'[w].round = workers[w].round
      BY <1>1, <1>3, <2>2, WithoutKitsKeeps
    <2>3. ASSUME NEW v \in Workers, NEW rec \in Worker, NEW gone, Asks(v, rec, gone),
                 rec.kind # "queued" => rec.round = round'
          PROVE  \/ workers'[w] = WithoutKits(workers[w], gone)
                 \/ workers'[w].round = round'
      BY <1>3, <2>3 DEF Asks
    <2>4. ASSUME NEW v \in Workers, NEW rec \in {Idle} \cup Patches, Becomes(v, rec)
          PROVE  workers'[w] = workers[w]
      BY <1>1, <1>3, <2>4 DEF Becomes, Idle, Patches, Working
    <2>5. CASE Scheduling \/ PanelWork \/ KitWork
      BY <1>3, <2>1, <2>2, <2>3, <2>4, <2>5, RequestsAsk
    <2>6. ASSUME NEW v \in Workers, Generation(v)
          PROVE  workers'[w] = workers[w] \/ workers'[w].round = round
      <3>1. ASSUME NEW todo, Continues(v, todo) PROVE workers'[w] = workers[w]
        BY <1>1, <1>3, <3>1 DEF Continues, Becomes, Idle, Working
      <3>2. ASSUME NEW t \in Tracks, GenerationLoads(v, t)
            PROVE  workers'[w] = workers[w] \/ workers'[w].round = round
        BY <1>1, <3>2 DEF GenerationLoads, Becomes
      <3>3. QED BY <2>6, <3>1, <3>2 DEF Generation, Dispatches, GenerationStores
    <2>7. ASSUME NEW ws \in SUBSET Workers, Cut(ws)
          PROVE  workers'[w] = workers[w]
      BY <1>1, <1>3, <2>7 DEF Cut, Idle, Working
    <2>8. QED BY <1>3, <2>1, <2>5, <2>6, <2>7, NextCuts DEF vars
  <1>4. \A w \in Workers : workers[w].kind \in Kinds => workers[w].round \in Nat
    BY <1>1, WorkerOfKind DEF Running, Requested, Rounds, Working
  <1>5. \A w \in Workers : workers'[w].kind \in Kinds => workers'[w].round <= round'
    BY <1>1, <1>2, <1>3, <1>4 DEF RunsAreForPastRounds
  <1>6. QED BY <1>5 DEF RunsAreForPastRounds

LEMMA ResolveInvNext == TypeOK /\ ResolveInv /\ [Next]_vars => ResolveInv'
  <1> SUFFICES ASSUME TypeOK, ResolveInv, [Next]_vars PROVE ResolveInv'
    OBVIOUS
  <1>1. RunsAreForPastRounds'
    BY RunsStayForPastRounds DEF ResolveInv
  <1>2. ASSUME round' = 1 PROVE Attended'
    <2>1. round \in Nat \ {0}
      BY DEF TypeOK, Rounds
    <2>2. round = 1
      BY <1>2, <2>1, RoundGrows
    <2>3. Attended /\ RunsAreForPastRounds
      BY <2>2 DEF ResolveInv
    <2>4. CASE Scheduling \/ PanelWork \/ KitWork
      <3>1. ASSUME NEW t \in Tracks, Generating(t)'
            PROVE  Generating(t) \/ IsAttended(t)'
        <4>1. CASE Scheduling
          BY <1>2, <2>2, <3>1, <4>1, SchedulingAttends
        <4>2. CASE PanelWork
          <5>1. live' = live
            BY <4>2 DEF PanelWork, PutInterviewers, SetActive, PatchSheet, SubmitSheet, live
          <5>2. QED BY <3>1, <5>1 DEF Generating
        <4>3. CASE KitWork
          BY <3>1, <4>3, KitWorkAttends
        <4>4. QED BY <2>4, <4>1, <4>2, <4>3
      <3>2. ASSUME NEW t \in Tracks, Generating(t)'
            PROVE  IsAttended(t)'
        BY <2>3, <2>4, <3>1, <3>2, RequestsKeepAttendance DEF Attended
      <3>3. QED BY <3>2 DEF Attended
    <2>5. ASSUME NEW w \in Workers, Generation(w) PROVE Attended'
      BY <2>2, <2>3, <2>5, DispatchAttends, LoadingAttends, StoringAttends DEF Generation
    <2>6. ASSUME NEW ws \in SUBSET Workers, Cut(ws) PROVE Attended'
      BY <2>3, <2>6, CutsAttend
    <2>7. CASE UNCHANGED vars
      BY <2>3, <2>7 DEF Attended, IsAttended, Generating, live, Resolves, vars
    <2>8. QED BY <2>4, <2>5, <2>6, <2>7, NextCuts
  <1>3. QED BY <1>1, <1>2 DEF ResolveInv

\* However generations, the commits that ask for them, edits and reschedulings of
\* the first round interleave, a kit that is generating is being generated, or
\* will be, unless a restart or an exception has cut that coroutine short.
THEOREM FirstRoundWorkedOn == Spec => []FirstRoundIsWorkedOn
  <1>1. Init => ResolveInv
    <2> SUFFICES ASSUME Init PROVE ResolveInv
      OBVIOUS
    <2>1. \A t \in Tracks : ~Generating(t)
      BY ConstantsAssumption DEF Init, Generating, live, NoKit, Rounds
    <2>2. QED BY <2>1 DEF Init, ResolveInv, Attended, RunsAreForPastRounds, Idle, Working
  <1>2. ResolveInv => FirstRoundIsWorkedOn
    BY DEF ResolveInv, Attended, IsAttended, FirstRoundIsWorkedOn, Resolves, WorksOn
  <1>3. QED BY <1>1, <1>2, ResolveInvNext, TypeCorrect, PTL DEF Spec
=============================================================================
