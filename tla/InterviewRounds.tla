--------------------------- MODULE InterviewRounds ---------------------------
(***************************************************************************)
(* The interview rounds of one application: its tracks and their kits of   *)
(* questions (api/round_tracks.py, api/interview_tracks.py,                *)
(* pipeline/kit_store.py), its panel (api/interviewers.py), the sheets of  *)
(* the interviewers and the generation of kits (api/interview.py,          *)
(* pipeline/interview_sheets.py, pipeline/interview_kit.py).               *)
(*                                                                         *)
(* Every handler that holds the applications row locked from its read to   *)
(* its commit is one atomic step.  The dispatch of generations after that  *)
(* commit is a step of its own, with a commit of its own.  Two writers are *)
(* not atomic either: PATCH interview-kit takes no lock, and a generation  *)
(* reads the kit, waits for the model and only then locks.  Both write     *)
(* from the copy their session read, as described in ApplicationPipeline.  *)
(* Any of these coroutines may be cut short between two of its steps.      *)
(*                                                                         *)
(* A question is its id, a sheet the ids it answers; texts, order and      *)
(* timestamps are left out.                                                *)
(***************************************************************************)
EXTENDS Naturals, FiniteSets

CONSTANTS
    Users,          \* accounts, any of which may be put on a panel
    Recruiters,     \* those with role admin or recruiter
    Templates,      \* interview templates; none is ever deleted
    Default,        \* the track without a template
    Baseline,       \* ids of the questions of the job and its templates
    Probes,         \* ids of generated questions and of those users add
    Notes,          \* what a sheet holds besides answers: its verdict
    Workers,        \* slots for coroutines in flight
    MaxRounds,      \* bound: rounds of the application
    Ops             \* requests the users of this instance send

ASSUME ConstantsAssumption ==
    /\ Recruiters \subseteq Users
    /\ Default \notin Templates
    /\ Baseline \cap Probes = {}
    /\ MaxRounds \in Nat \ {0}

VARIABLES
    round,          \* applications.interview_round
    stage,          \* applications.stage, as far as rounds depend on it
    kits,           \* interview_kits, by round and track
    rows,           \* interview_assignments with their sheets, by round and user
    active,         \* users with is_active
    workers,        \* the coroutines in flight
    cut             \* history: tracks a coroutine was cut short for, until their
                    \* generation is asked for anew

vars == <<round, stage, kits, rows, active, workers, cut>>

-----------------------------------------------------------------------------
(* Rows and workers.                                                       *)

Rounds == 1..MaxRounds
Tracks == Templates \cup {Default}
Questions == Baseline \cup Probes
\* "other" is every stage besides the two of an interview under way; a round
\* is scheduled from one of them, invited.
Stages == {"other", "scheduled", "interviewed"}

Kit == [status : {"absent", "generating", "ready", "error"}, questions : SUBSET Questions]
NoKit == [status |-> "absent", questions |-> {}]
NewKit == [status |-> "generating", questions |-> {}]

Sheet == [state : {"absent", "draft", "submitted"}, track : Tracks,
          content : SUBSET (Questions \cup Notes)]
NoSheet == [state |-> "absent", track |-> Default, content |-> {}]
EmptySheet(t) == [state |-> "draft", track |-> t, content |-> {}]

Idle == [kind |-> "idle"]
\* A request between the commit that marked its tracks and their dispatch:
\* PATCH ("scheduled") or add_track ("added").
Requested == [kind : {"scheduled", "added"}, todo : SUBSET Tracks, round : Rounds]
\* Generations a request has dispatched and that run one after the other.
Queued == [kind : {"queued"}, todo : SUBSET Tracks]
\* The generation of a kit that waits for the model. there: the row that was
\* read still exists; a kit removed and made again is another row.
Running == [kind : {"running"}, todo : SUBSET Tracks, round : Rounds, track : Tracks,
            there : BOOLEAN, seen : Kit]
Patches == [kind : {"patch"}, round : Rounds, track : Tracks, there : BOOLEAN,
            seen : SUBSET Questions, sent : SUBSET Questions]
Worker == {Idle} \cup Requested \cup Queued \cup Running \cup Patches

IsIdle(w) == workers[w] = Idle
Becomes(w, rec) == workers' = [workers EXCEPT ![w] = rec]
\* Mutant: the loop over the tracks of a request ends with the first.
ContinuesOnlyOnce(w, todo) == Becomes(w, Idle)

\* The next generation of a request, or its end.
Continues(w, todo) ==
    Becomes(w, IF todo = {} THEN Idle ELSE [kind |-> "queued", todo |-> todo])

-----------------------------------------------------------------------------
(* Reading one round: ks are its kits by track, rs its rows by user.       *)

TracksOf(ks) == {t \in Tracks : ks[t].status # "absent"}
PanelOf(rs) == {u \in Users : rs[u].state # "absent"}
Panel(rs, t) == {u \in PanelOf(rs) : rs[u].track = t}
IsSubmitted(sheet) == sheet.state = "submitted"
\* A sheet nobody may silently lose: sheet_has_content, or submitted.
IsWritten(sheet) == IsSubmitted(sheet) \/ sheet.content # {}
IsFrozen(rs, t) == \E u \in Panel(rs, t) : IsSubmitted(rs[u])
\* Somebody on the track has written.
HasFeedback(rs, t) == \E u \in Panel(rs, t) : IsWritten(rs[u])
AnsweredIds(rs, t) == UNION {rs[u].content \cap Questions : u \in Panel(rs, t)}

RoundComplete(ks, rs) ==
    /\ TracksOf(ks) # {} /\ PanelOf(rs) # {}
    /\ \A t \in TracksOf(ks) : Panel(rs, t) # {}
    /\ \A u \in PanelOf(rs) : IsSubmitted(rs[u])

\* Mutant: rows picked before the round had a kit stay where they were.
AdoptNobody(ks, rs, first) == rs

\* adopt_orphan_rows: rows on a track without a kit join the round's first.
AdoptOrphanRows(ks, rs, first) ==
    [u \in Users |-> IF rs[u].state # "absent" /\ rs[u].track \notin TracksOf(ks)
                     THEN [rs[u] EXCEPT !.track = first] ELSE rs[u]]

live == kits[round]
panel == rows[round]

\* Mutant: the rows are looked at as they were before the request.
CloseRoundIfCompleteUnflushed(ks, rs) ==
    stage' = IF stage = "scheduled" /\ RoundComplete(live, panel) THEN "interviewed" ELSE stage

CloseRoundIfComplete(ks, rs) ==
    stage' = IF stage = "scheduled" /\ RoundComplete(ks, rs) THEN "interviewed" ELSE stage

\* Deleting kit rows of the live round: sessions that read one have lost it.
WithoutKits(rec, ts) ==
    IF rec.kind \in {"running", "patch"} /\ rec.round = round /\ rec.track \in ts
    THEN [rec EXCEPT !.there = FALSE] ELSE rec

\* A request has committed tracks as generating, so that a worker is to
\* dispatch them or, for generate_kit, has queued the task; kits of the tracks
\* gone have been deleted.
Asks(w, rec, gone) ==
    /\ rec.todo # {} => IsIdle(w)
    /\ workers' = [v \in Workers |-> IF v = w /\ rec.todo # {} THEN rec
                                     ELSE WithoutKits(workers[v], gone)]
    /\ cut' = cut \ rec.todo
Scheduled(todo, r) == [kind |-> "scheduled", todo |-> todo, round |-> r]

-----------------------------------------------------------------------------
Init ==
    /\ round = 1
    /\ stage = "other"
    /\ kits = [r \in Rounds |-> [t \in Tracks |-> NoKit]]
    /\ rows = [r \in Rounds |-> [u \in Users |-> NoSheet]]
    /\ active = Users
    /\ workers = [w \in Workers |-> Idle]
    /\ cut = {}

-----------------------------------------------------------------------------
(* Scheduling (patch_application, api/round_tracks.py).                    *)

\* What start_round does with the kit of a track.
StartedKit(t, choices) ==
    IF t \in choices
    THEN IF live[t].status = "absent" THEN NewKit
         ELSE IF IsFrozen(panel, t) /\ live[t].questions # {}
         THEN [live[t] EXCEPT !.status = "ready"]
         ELSE [live[t] EXCEPT !.status = "generating"]
    ELSE IF HasFeedback(panel, t) THEN live[t] ELSE NoKit

\* Scheduling the live round, for the first time or again.
StartRound(w, choices) ==
    LET ks == [t \in Tracks |-> StartedKit(t, choices)]
        gone == TracksOf(live) \ TracksOf(ks)
        left == [u \in Users |-> IF panel[u].track \in gone THEN NoSheet ELSE panel[u]]
        todo == {t \in choices : ks[t].status = "generating"}
    IN  /\ stage = "other" /\ choices # {}
        /\ kits' = [kits EXCEPT ![round] = ks]
        /\ \E first \in TracksOf(ks) :
               rows' = [rows EXCEPT ![round] = AdoptOrphanRows(ks, left, first)]
        /\ Asks(w, Scheduled(todo, round), gone)
        /\ stage' = "scheduled"
        /\ UNCHANGED <<round, active>>

\* Mutant: the row is carried over as it is.
CarriedRowWithSheet(row) == row

\* Carried rows start on empty sheets.
CarriedRow(row) == IF row.state = "absent" THEN NoSheet ELSE EmptySheet(row.track)

\* Reopening an interviewed application: a chosen track the closing round also
\* had is carried forward with its panel, any other starts afresh.
OpenNextRound(w, choices) ==
    LET fresh == choices \ TracksOf(live)
        ks == [t \in Tracks |-> IF t \notin choices THEN NoKit
                                ELSE IF t \in fresh THEN NewKit ELSE live[t]]
        noKitYet == TracksOf(live) = {} /\ choices = {Default}
    IN  /\ "reopen" \in Ops
        /\ stage = "interviewed" /\ round < MaxRounds /\ choices # {}
        /\ IF noKitYet
           THEN /\ rows' = [rows EXCEPT ![round + 1] = [u \in Users |-> CarriedRow(panel[u])]]
                /\ UNCHANGED <<kits, workers, cut>>
           ELSE /\ kits' = [kits EXCEPT ![round + 1] = ks]
                /\ rows' = [rows EXCEPT ![round + 1] =
                       [u \in Users |-> IF panel[u].track \in choices \cap TracksOf(live)
                                        THEN CarriedRow(panel[u]) ELSE NoSheet]]
                /\ Asks(w, Scheduled(fresh, round + 1), {})
        /\ round' = round + 1
        /\ stage' = "scheduled"
        /\ UNCHANGED active

\* The recruiter closes the round by hand.
CloseByHand ==
    /\ stage = "scheduled"
    /\ stage' = "interviewed"
    /\ UNCHANGED <<round, kits, rows, active, workers, cut>>

\* Rejection, an offer, a re-enrichment, or a chat undo.
LeaveInterview ==
    /\ stage # "other"
    /\ stage' = "other"
    /\ UNCHANGED <<round, kits, rows, active, workers, cut>>

-----------------------------------------------------------------------------
(* Tracks of a scheduled round (api/interview_tracks.py).                  *)

AddTrack(w, t) ==
    LET ks == [live EXCEPT ![t] = NewKit]
    IN  /\ "tracks" \in Ops
        /\ stage = "scheduled" /\ t \notin TracksOf(live)
        /\ kits' = [kits EXCEPT ![round] = ks]
        /\ \E first \in TracksOf(ks) :
               rows' = [rows EXCEPT ![round] = AdoptOrphanRows(ks, panel, first)]
        /\ Asks(w, [kind |-> "added", todo |-> {t}, round |-> round], {})
        /\ UNCHANGED <<round, stage, active>>

\* A track nobody has written in goes with its panel; the last track stays.
RemoveTrack(t) ==
    /\ "tracks" \in Ops
    /\ stage = "scheduled"
    /\ t \in TracksOf(live) /\ TracksOf(live) # {t}
    /\ ~HasFeedback(panel, t)
    /\ kits' = [kits EXCEPT ![round][t] = NoKit]
    /\ rows' = [rows EXCEPT ![round] =
           [u \in Users |-> IF panel[u].track = t THEN NoSheet ELSE panel[u]]]
    /\ workers' = [w \in Workers |-> WithoutKits(workers[w], {t})]
    /\ CloseRoundIfComplete(kits'[round], rows'[round])
    /\ UNCHANGED <<round, active, cut>>

-----------------------------------------------------------------------------
(* The panel (api/interviewers.py).                                        *)

\* target_track: before the round has a kit, a panel is picked on `default`.
TargetTracks == IF TracksOf(live) = {} THEN {Default} ELSE TracksOf(live)

\* Mutant: the author of a draft is not asked after.
RemovableDrafts(u) == ~IsSubmitted(panel[u])

\* A submitted sheet is never removable, a draft with content only once its
\* author is deactivated.
Removable(u) == ~IsSubmitted(panel[u]) /\ (u \in active => panel[u].content = {})

PutInterviewers(t, wanted) ==
    LET onTrack == Panel(panel, t)
        added == wanted \ onTrack
        removed == onTrack \ wanted
    IN  /\ "panel" \in Ops
        /\ t \in TargetTracks
        /\ wanted \cap (PanelOf(panel) \ onTrack) = {}
        /\ added \subseteq active
        /\ \A u \in removed : Removable(u)
        /\ rows' = [rows EXCEPT ![round] =
               [u \in Users |-> IF u \in removed THEN NoSheet
                                ELSE IF u \in added THEN EmptySheet(t) ELSE panel[u]]]
        /\ IF removed # {} THEN CloseRoundIfComplete(live, rows'[round]) ELSE UNCHANGED stage
        /\ UNCHANGED <<round, kits, active, workers, cut>>

\* PATCH /users/{id}, as far as panels look at it.
SetActive(u) ==
    /\ "activation" \in Ops
    /\ active' = IF u \in active THEN active \ {u} ELSE active \cup {u}
    /\ UNCHANGED <<round, stage, kits, rows, workers, cut>>

-----------------------------------------------------------------------------
(* Sheets (api/interview.py).                                              *)

\* Mutant: a row is written on whether or not its track has a kit.
SheetTargetsWithoutKit(u) ==
    IF u \in PanelOf(panel) THEN {panel[u]}
    ELSE {EmptySheet(t) : t \in {t \in TracksOf(live) : u \in Recruiters /\ Panel(panel, t) = {}}}

\* _sheet_target: the caller's row, or a new one for a recruiter who takes a
\* track nobody is on; without a kit there is nothing to write on.
SheetTargets(u) ==
    IF u \in PanelOf(panel)
    THEN {row \in {panel[u]} : row.track \in TracksOf(live)}
    ELSE {EmptySheet(t) : t \in {t \in TracksOf(live) : u \in Recruiters /\ Panel(panel, t) = {}}}

\* Answers to questions that are not in the kit any more are pruned.
PatchSheet(u, content) ==
    \E row \in SheetTargets(u) :
        /\ u \in active /\ ~IsSubmitted(row)
        /\ content \subseteq live[row.track].questions \cup Notes
        /\ rows' = [rows EXCEPT ![round][u] = [row EXCEPT !.content = content]]
        /\ UNCHANGED <<round, stage, kits, active, workers, cut>>

SubmitSheet(u) ==
    \E row \in SheetTargets(u) :
        /\ u \in active /\ ~IsSubmitted(row)
        /\ rows' = [rows EXCEPT ![round][u] = [row EXCEPT !.state = "submitted"]]
        /\ CloseRoundIfComplete(live, rows'[round])
        /\ UNCHANGED <<round, kits, active, workers, cut>>

-----------------------------------------------------------------------------
(* PATCH interview-kit, which takes no lock.                               *)

\* The kit, the rows and the checks.  An interviewer may only append, to the
\* own track; a frozen kit must keep its questions.
PatchKitReads(w, u, t, sent) ==
    LET stored == live[t].questions
    IN  /\ "patch_kit" \in Ops /\ IsIdle(w)
        /\ u \in active /\ t \in TracksOf(live)
        /\ u \in Recruiters \/ u \in Panel(panel, t)
        /\ u \notin Recruiters => stored \subseteq sent
        /\ IsFrozen(panel, t) => stored \subseteq sent
        /\ Becomes(w, [kind |-> "patch", round |-> round, track |-> t, there |-> TRUE,
                       seen |-> stored, sent |-> sent])
        /\ UNCHANGED <<round, stage, kits, rows, active, cut>>

\* The UPDATE writes the questions if they differ from the copy, and fails if
\* the row has gone.
PatchKitCommits(w) ==
    LET me == workers[w]
    IN  /\ me.kind = "patch"
        /\ kits' = IF me.there /\ me.sent # me.seen
                   THEN [kits EXCEPT ![me.round][me.track].questions = me.sent]
                   ELSE kits
        /\ Becomes(w, Idle)
        /\ UNCHANGED <<round, stage, rows, active, cut>>

-----------------------------------------------------------------------------
(* Generation (generate_kit, run_generate_kit, merge_regenerated).         *)

\* A kit that is generating is left alone unless its run is taken for dead,
\* 90 seconds after it began; a frozen kit with questions is not regenerated,
\* only recovered.
GenerateKit(w, t) ==
    LET first == TracksOf(live) = {}
        ks == [live EXCEPT ![t] = IF first THEN NewKit ELSE [@ EXCEPT !.status = "generating"]]
    IN  /\ "generate" \in Ops
        /\ first \/ t \in TracksOf(live)
        /\ IF IsFrozen(panel, t) /\ live[t].questions # {} /\ ~first
           THEN /\ live[t].status # "ready"
                /\ kits' = [kits EXCEPT ![round][t].status = "ready"]
                /\ UNCHANGED <<rows, workers, cut>>
           ELSE /\ live[t].status = "generating" => "stale" \in Ops
                /\ kits' = [kits EXCEPT ![round] = ks]
                /\ rows' = [rows EXCEPT ![round] =
                       IF first THEN AdoptOrphanRows(ks, panel, t) ELSE panel]
                /\ Asks(w, [kind |-> "queued", todo |-> {t}], {})
        /\ UNCHANGED <<round, stage, active>>

\* A track that needs a model when none is configured has failed.
MayFail(todo) == IF "no_llm" \in Ops THEN SUBSET todo ELSE {{}}

\* Mutant: without a model a track is passed over.
FailedInSilence(ks, failed) == ks

Failed(ks, failed) ==
    [t \in Tracks |-> IF t \in failed THEN [ks[t] EXCEPT !.status = "error"] ELSE ks[t]]

\* The round dispatch_generation looks for the kits in: PATCH has refreshed the
\* application since its commit, add_track has not.
DispatchRounds(me) == IF me.kind = "scheduled" THEN me.round..round ELSE {me.round}

\* dispatch_generation: a generation is queued for every kit that is still
\* there, except those that have failed, which a second commit says.
Dispatches(w) ==
    LET me == workers[w]
    IN  /\ me.kind \in {"scheduled", "added"}
        /\ \E r \in DispatchRounds(me), failed \in MayFail(me.todo) :
               /\ kits' = [kits EXCEPT ![r] = Failed(@, failed \cap TracksOf(@))]
               /\ Continues(w, (me.todo \ failed) \cap TracksOf(kits[r]))
        /\ UNCHANGED <<round, stage, rows, active, cut>>

\* The run opens its session and reads the application and the kit.
GenerationLoads(w, t) ==
    /\ workers[w].kind = "queued" /\ t \in workers[w].todo
    /\ Becomes(w, [kind |-> "running", todo |-> workers[w].todo \ {t}, round |-> round,
                   track |-> t, there |-> t \in TracksOf(live), seen |-> live[t]])
    /\ UNCHANGED <<round, stage, kits, rows, active, cut>>

\* Mutant: regeneration replaces every question.
MergeDropsAnswers(seen, answered, fixed, generated) == fixed \cup generated

\* merge_regenerated: answered questions stay, the fixed ones are taken anew,
\* the other probes are replaced if there is anything to replace them with.
MergeRegenerated(seen, answered, fixed, generated) ==
    (seen \cap answered) \cup fixed
        \cup (IF generated = {} THEN (seen \cap Probes) \ answered ELSE generated)

\* Mutant: a failure is looked at before the freeze, and empties the kit.
GeneratedKitLostInFailure(seen, rs, t, fails, fixed, generated) ==
    IF fails THEN [status |-> "error", questions |-> {}]
    ELSE IF IsFrozen(rs, t) /\ seen.questions # {} THEN [seen EXCEPT !.status = "ready"]
    ELSE [status |-> "ready", questions |-> fixed \cup generated]

\* The kit a run has made of the copy it read.
GeneratedKit(seen, rs, t, fails, fixed, generated) ==
    IF IsFrozen(rs, t) /\ seen.questions # {}
    THEN [seen EXCEPT !.status = "ready"]
    ELSE IF fails THEN [status |-> "error", questions |-> seen.questions]
    ELSE IF seen.questions # {}
    THEN [status |-> "ready",
          questions |-> MergeRegenerated(seen.questions, AnsweredIds(rs, t), fixed, generated)]
    ELSE [status |-> "ready", questions |-> fixed \cup generated]

\* A session writes the attributes that differ from its copy.
Written(cur, seen, new) ==
    [status |-> IF new.status = seen.status THEN cur.status ELSE new.status,
     questions |-> IF new.questions = seen.questions THEN cur.questions ELSE new.questions]

\* Ids of questions no kit, sheet or coroutine knows of.
Known ==
    UNION {kits[r][t].questions : r \in Rounds, t \in Tracks}
        \cup UNION {rows[r][u].content : r \in Rounds, u \in Users}
        \cup UNION {workers[w].seen.questions : w \in {v \in Workers : workers[v].kind = "running"}}
        \cup UNION {workers[w].seen \cup workers[w].sent :
                        w \in {v \in Workers : workers[v].kind = "patch"}}

\* The model has answered, or failed, and the application row is locked: the
\* result is dropped if the round has moved or the track is gone.
GenerationStores(w, fails, fixed, generated) ==
    LET me == workers[w]
        t == me.track
        copy == IF me.there THEN me.seen ELSE live[t]
    IN  /\ me.kind = "running"
        /\ generated \cap Known = {}
        /\ fails => fixed = {} /\ generated = {}
        /\ kits' = IF me.round # round \/ t \notin TracksOf(live) THEN kits
                   ELSE [kits EXCEPT ![round][t] = Written(@, copy,
                            GeneratedKit(me.seen, panel, t, fails, fixed, generated))]
        /\ Continues(w, me.todo)
        /\ UNCHANGED <<round, stage, rows, active, cut>>

-----------------------------------------------------------------------------
(* Coroutines that do not reach their end.                                 *)

Working == {"scheduled", "added", "queued", "running"}
WorksOn(w, t) ==
    \/ workers[w].kind \in Working /\ t \in workers[w].todo
    \/ workers[w].kind = "running" /\ workers[w].track = t

\* These coroutines are gone, with all they had still to do, and their
\* transactions rolled back; the kits they leave generating stay so until
\* somebody asks again, 90 seconds later.
Cut(ws) ==
    /\ workers' = [w \in Workers |-> IF w \in ws THEN Idle ELSE workers[w]]
    /\ cut' = cut \cup {t \in Tracks : \E w \in ws : WorksOn(w, t)}
    /\ UNCHANGED <<round, stage, kits, rows, active>>

\* A statement of a coroutine raises where nothing catches it.  The tasks of a
\* response run one after the other, so none follows one that raised.
Breaks(w) == ~IsIdle(w) /\ Cut({w})

\* The process restarts: nobody resumes what was in flight.
Restart == (\E w \in Workers : ~IsIdle(w)) /\ Cut(Workers)

-----------------------------------------------------------------------------
Scheduling ==
    \/ \E w \in Workers, choices \in SUBSET Tracks :
           StartRound(w, choices) \/ OpenNextRound(w, choices)
    \/ CloseByHand
    \/ LeaveInterview
    \/ \E w \in Workers, t \in Tracks : AddTrack(w, t)
    \/ \E t \in Tracks : RemoveTrack(t)

PanelWork ==
    \/ \E t \in Tracks, wanted \in SUBSET Users : PutInterviewers(t, wanted)
    \/ \E u \in Users : SetActive(u)
    \/ \E u \in Users, content \in SUBSET (Questions \cup Notes) : PatchSheet(u, content)
    \/ \E u \in Users : SubmitSheet(u)

KitWork ==
    \/ \E w \in Workers, u \in Users, t \in Tracks, sent \in SUBSET Questions :
           PatchKitReads(w, u, t, sent)
    \/ \E w \in Workers : PatchKitCommits(w)
    \/ \E w \in Workers, t \in Tracks : GenerateKit(w, t)

Generation(w) ==
    \/ Dispatches(w)
    \/ \E t \in Tracks : GenerationLoads(w, t)
    \/ \E fails \in BOOLEAN, fixed \in SUBSET Baseline, generated \in SUBSET Probes :
           GenerationStores(w, fails, fixed, generated)

Next ==
    \/ Scheduling \/ PanelWork \/ KitWork
    \/ \E w \in Workers : Generation(w) \/ Breaks(w)
    \/ Restart

Spec == Init /\ [][Next]_vars

\* The event loop schedules every coroutine again and again, and a model call
\* ends with an answer or an exception.  Breaks and Restart may still come first.
FairSpec == Spec /\ \A w \in Workers : WF_vars(Generation(w))

-----------------------------------------------------------------------------
(* Properties.                                                             *)

TypeOK ==
    /\ round \in Rounds
    /\ stage \in Stages
    /\ kits \in [Rounds -> [Tracks -> Kit]]
    /\ rows \in [Rounds -> [Users -> Sheet]]
    /\ active \subseteq Users
    /\ workers \in [Workers -> Worker]
    /\ cut \subseteq Tracks

\* Whatever an interviewer has written is on a track that has a kit, in every
\* round: no removal or rescheduling of a track (remove_track, start_round)
\* separates a sheet from the questions it answers.
FeedbackHasItsKit ==
    \A r \in Rounds, u \in Users :
        IsWritten(rows[r][u]) => rows[r][u].track \in TracksOf(kits[r])

\* Once the live round has a kit, everybody on its panel has one: nobody picked
\* early is stranded (adopt_orphan_rows).
NobodyIsStranded ==
    TracksOf(live) # {} => \A u \in PanelOf(panel) : panel[u].track \in TracksOf(live)

\* Feedback is kept: a submitted sheet, or one of an earlier round, is never
\* changed again, and a draft with content only disappears when its author can
\* not come back to it (put_interviewers, remove_track, start_round).
FeedbackStays ==
    [][\A r \in Rounds, u \in Users :
          /\ IsSubmitted(rows[r][u]) \/ (r < round /\ IsWritten(rows[r][u])) =>
                 rows'[r][u] = rows[r][u]
          /\ IsWritten(rows[r][u]) /\ rows'[r][u].state = "absent" => u \notin active]_vars

\* The step that completes a scheduled round closes it, and no other step does
\* but the recruiter's (close_round_if_complete, mark_interviewed).
RoundsCloseWhenComplete ==
    [][stage = "scheduled" /\ round' = round =>
          /\ RoundComplete(kits'[round], rows'[round]) /\ ~RoundComplete(live, panel) =>
                 stage' = "interviewed"
          /\ stage' = "interviewed" =>
                 CloseByHand \/ RoundComplete(kits'[round], rows'[round])]_vars

\* A regeneration keeps every question it has read that is still there and that
\* someone has answered by the time it stores its result, submitted or not
\* (merge_regenerated, run_generate_kit).
GenerationKeepsAnswers ==
    [][\A w \in Workers :
          workers[w].kind = "running" /\ workers'[w].kind # "running"
              /\ workers[w].round = round =>
          workers[w].seen.questions \cap live[workers[w].track].questions
              \cap AnsweredIds(panel, workers[w].track)
              \subseteq kits'[round][workers[w].track].questions]_vars

\* What is_frozen is for: once a sheet of a track is submitted its questions must
\* not lose rows, by no rescheduling, removal or regeneration, failed or not.  Two
\* writers are outside of it, since nothing tells them of the freeze: an edit in
\* flight, which takes no lock, and a generation that began without questions or
\* with those of a kit that has gone since and was made again.
FrozenKitsKeepQuestions ==
    [][\A t \in Tracks :
          round' = round /\ IsFrozen(panel, t) =>
              \/ live[t].questions \subseteq kits'[round][t].questions
              \/ \E w \in Workers :
                    LET me == workers[w]
                    IN  /\ \/ me.kind = "patch"
                           \/ me.kind = "running" /\ (me.there => me.seen.questions = {})
                        /\ me.round = round /\ me.track = t
                        /\ workers'[w].kind # me.kind]_vars

Generating(t) == live[t].status = "generating"

\* dispatch_generation leaves no track "stuck at `generating` with no task ever
\* coming to resolve it": a kit of the first round that is generating is being
\* generated, or about to be, unless a restart or an exception has cut a coroutine
\* short that had it to do, and nobody has asked again.  (The kits of a later
\* round may have been carried over, generating, from another.)
FirstRoundIsWorkedOn ==
    round = 1 => \A t \in Tracks :
        Generating(t) => t \in cut \/ \E w \in Workers : WorksOn(w, t)

\* A kit of the first round does not stay "generating" for good, unless the
\* coroutine at work on it is cut short.
GenerationEnds ==
    \A t \in Tracks : round = 1 /\ Generating(t) ~> round # 1 \/ ~Generating(t) \/ t \in cut

\* Every request is one change of the record of interviews or leaves it alone,
\* and no generation or edit of a kit touches it, at whatever moment it commits:
\* what is written stays where it is, a round closes when it is complete, and
\* the next one begins with its people on empty sheets.
Record == INSTANCE InterviewRecord
    WITH sheets <- rows, tracks <- [r \in Rounds |-> TracksOf(kits[r])],
         Contents <- Questions \cup Notes
ImplementsRecord == Record!Spec
=============================================================================
