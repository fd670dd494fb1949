------------------------- MODULE ApplicationPipeline -------------------------
(***************************************************************************)
(* The life of an application row: the background runs that extract,       *)
(* enrich and score a candidate (pipeline/orchestrator.py), and the        *)
(* requests that move the row meanwhile (api/applications.py,              *)
(* api/candidates.py, api/jobs.py, api/notifications.py, agent/tools.py,   *)
(* api/chat.py).                                                           *)
(*                                                                         *)
(* A worker is one coroutine with a database session of its own.  Only     *)
(* PATCH locks the applications row from its read to its commit, so it is  *)
(* one atomic step.  Every other handler reads the row in one step and     *)
(* commits in a later one, from the copy it read: sessions are opened with *)
(* expire_on_commit=False, so a copy is never refreshed, and a commit      *)
(* writes only the attributes that differ from that copy.                  *)
(***************************************************************************)
EXTENDS Naturals, FiniteSets

CONSTANTS
    Apps,           \* applications of one job, each with a candidate of its own
    Workers,        \* slots for coroutines in flight
    NoWorker,       \* owner of a free lock
    Texts,          \* raw candidate texts
    NoText,         \* an empty or absent raw text
    Ops,            \* requests the users of this instance send
    Enrichment,     \* values settings.enrichment_enabled may be read as
    MaxCriteria,    \* bound: versions of job.criteria
    MaxTokens,      \* bound: undo tokens issued
    MaxMails,       \* bound: invitation mails per application
    MaxCrashes      \* bound: restarts of the process

ASSUME ConstantsAssumption ==
    /\ IsFiniteSet(Workers) /\ NoWorker \notin Workers
    /\ NoText \notin Texts
    /\ Enrichment \subseteq BOOLEAN
    /\ MaxCriteria \in Nat \ {0}
    /\ MaxTokens \in Nat /\ MaxMails \in Nat /\ MaxCrashes \in Nat

VARIABLES
    app,        \* the applications rows
    raw,        \* candidates.raw_extracted, as committed
    lock,       \* the worker holding the candidates row lock
    event,      \* type of the newest event_logs row of each application
    criteria,   \* version of job.criteria
    tokens,     \* live undo tokens
    issued,     \* undo tokens issued so far
    mails,      \* invitation mails handed to the SMTP server
    receipts,   \* notifications rows
    workers,    \* the coroutines in flight
    crashes,    \* restarts so far
    lost,       \* history: applications a coroutine was cut short for, until a
                \* run of theirs ends by itself
    unrecorded  \* history: mails whose request ended before its commit

vars == <<app, raw, lock, event, criteria, tokens, issued, mails, receipts,
          workers, crashes, lost, unrecorded>>

-----------------------------------------------------------------------------
(* Rows and workers.                                                       *)

Late == {"invited", "scheduled", "interviewed", "offer", "hired"}
Stages == {"absent", "extracting", "enriching", "scored", "validated", "rejected"}
              \cup Late
\* The stages an ApplicationUpdate may ask for.
PatchTargets == {"scored", "validated", "rejected",
                 "scheduled", "interviewed", "offer", "hired"}
\* The <stage>_at columns; a member of row.stamps is one that is not NULL.
Decisions == {"validated", "rejected"}
Stamps == Decisions \cup Late
\* The stages an undo token may carry, which are those the tools start from.
UndoStages == {"scored", "validated", "rejected"}

NoScore == 0
\* A score is represented by the version of the criteria it was computed from;
\* linkedin says whether the candidate's source_url is a LinkedIn one.
Row == [stage : Stages, score : 0..MaxCriteria, bundle : BOOLEAN,
        stamps : SUBSET Stamps, linkedin : BOOLEAN]

RawText == [text : Texts \cup {NoText}, structured : BOOLEAN]
Events == {"none", "application.scored", "application.enriched",
           "enrichment.failed", "extract.failed", "score.failed"}
\* _HALTING_FAILURE_EVENT_TYPES: what last_error surfaces.
HaltingEvents == {"extract.failed", "score.failed"}

\* What a session keeps of a row it has read, as far as it is used later: the
\* attributes that decide a branch or that a commit compares with.
Copy == [stage : Stages, scored : BOOLEAN, bundle : BOOLEAN]

\* A copy that a tool may start from.
DecidableCopy == {c \in Copy : c.stage \in UndoStages}

Token == [id : Nat, app : Apps, stage : UndoStages,
          stamps : SUBSET Decisions]

Idle == [kind |-> "idle"]
Runs == [kind : {"process"}, pc : {"queued", "flush", "extract", "enrich", "score"},
         app : Apps, seen : Copy, crit : 0..MaxCriteria, text : Texts \cup {NoText}]
Searches == [kind : {"github"}, app : Apps]
ReEnrichments == [kind : {"reenrich"}, pc : {"endpoint", "queued", "loaded", "enrich"},
                  app : Apps, seen : Copy]
Rescores == [kind : {"rescore"}, pc : {"queued", "score"}, crit : 0..MaxCriteria,
             todo : SUBSET Apps]
ToolCalls == [kind : {"tool"}, app : Apps, seen : DecidableCopy, stamps : SUBSET Decisions,
              target : Decisions]
Undos == [kind : {"undo"}, app : Apps, seen : Copy, stamps : SUBSET Decisions,
          token : Token]
Notifies == [kind : {"notify"}, pc : {"loaded", "sent"}, app : Apps,
             seen : {c \in Copy : c.stage = "validated"}]

Worker == {Idle} \cup Runs \cup Searches \cup ReEnrichments \cup Rescores
              \cup ToolCalls \cup Undos \cup Notifies

NoRow == [stage |-> "absent", score |-> NoScore, bundle |-> FALSE,
          stamps |-> {}, linkedin |-> FALSE]

CopyOf(row) == [stage |-> row.stage, scored |-> row.score # NoScore, bundle |-> row.bundle]

InFlight(kind) == {w \in Workers : workers[w].kind = kind}
IsIdle(w) == workers[w] = Idle
At(w, kind, pc) == workers[w].kind = kind /\ workers[w].pc = pc

\* A worker starts on, continues with, or ends its coroutine.
Becomes(w, rec) == workers' = [workers EXCEPT ![w] = rec]
Goes(w, pc) == workers' = [workers EXCEPT ![w].pc = pc]
Ends(w) == Becomes(w, Idle)

\* The unit of work writes an attribute only if its new value differs from the
\* one the session read (or wrote) last; otherwise the column keeps what others
\* have put there since.
Dirty(cur, seen, new) == IF new = seen THEN cur ELSE new
DirtyStage(a, seen, new) == [app EXCEPT ![a].stage = Dirty(@, seen, new)]

Run(a, text) == [kind |-> "process", pc |-> "queued", app |-> a, seen |-> CopyOf(NoRow),
                 crit |-> 0, text |-> text]

\* A commit of worker w's session ends its hold on the candidates row and, if
\* it had one, makes the raw text it flushed visible.
Released(w, a) == [lock EXCEPT ![a] = IF @ = w THEN NoWorker ELSE @]
Persisted(w, a, structured) ==
    IF lock[a] = w
    THEN [raw EXCEPT ![a] = [text |-> workers[w].text, structured |-> structured]]
    ELSE raw

-----------------------------------------------------------------------------
Init ==
    /\ app = [a \in Apps |-> NoRow]
    /\ raw = [a \in Apps |-> [text |-> NoText, structured |-> FALSE]]
    /\ lock = [a \in Apps |-> NoWorker]
    /\ event = [a \in Apps |-> "none"]
    /\ criteria = 1
    /\ tokens = {} /\ issued = 0
    /\ mails = [a \in Apps |-> 0] /\ receipts = [a \in Apps |-> 0]
    /\ workers = [w \in Workers |-> Idle]
    /\ crashes = 0 /\ lost = {} /\ unrecorded = [a \in Apps |-> 0]

-----------------------------------------------------------------------------
(* Requests that start a run.                                              *)

\* A document without text and an empty paste are accepted too.
SubmittedTexts == Texts \cup {t \in {NoText} : "empty" \in Ops}

\* add_candidate, upload_resume: the row is committed, then the run is queued.
AddCandidate(w, a) ==
    /\ IsIdle(w) /\ app[a].stage = "absent"
    /\ \E linkedin \in {FALSE} \cup {"linkedin" \in Ops} :
            app' = [app EXCEPT ![a].stage = "extracting", ![a].linkedin = linkedin]
    /\ \E t \in SubmittedTexts : Becomes(w, Run(a, t))
    /\ UNCHANGED <<raw, lock, event, criteria, tokens, issued, mails, receipts, crashes, lost, unrecorded>>

\* add_candidate for a LinkedIn URL that yields no text: look on GitHub instead.
AddLinkedInCandidate(w, a) ==
    /\ "linkedin" \in Ops
    /\ IsIdle(w) /\ app[a].stage = "absent"
    /\ app' = [app EXCEPT ![a].stage = "extracting", ![a].linkedin = TRUE]
    /\ Becomes(w, [kind |-> "github", app |-> a])
    /\ UNCHANGED <<raw, lock, event, criteria, tokens, issued, mails, receipts, crashes, lost, unrecorded>>

\* enrich_linkedin_candidate_via_github: a match runs the pipeline, whatever has
\* become of the application since; no match leaves it awaiting a paste.
GitHubAnswers(w) ==
    /\ workers[w].kind = "github"
    /\ \/ \E t \in Texts : Becomes(w, Run(workers[w].app, t))
       \/ Ends(w)
    /\ UNCHANGED <<app, raw, lock, event, criteria, tokens, issued, mails, receipts, crashes, lost, unrecorded>>

\* retry_application: the saved raw text is read with the row.
Retry(w, a) ==
    /\ "retry" \in Ops
    /\ IsIdle(w) /\ app[a].stage = "extracting"
    /\ Becomes(w, Run(a, raw[a].text))
    /\ UNCHANGED <<app, raw, lock, event, criteria, tokens, issued, mails, receipts, crashes, lost, unrecorded>>

\* paste_content
Paste(w, a) ==
    /\ "paste" \in Ops
    /\ IsIdle(w) /\ app[a].stage = "extracting"
    /\ \E t \in SubmittedTexts : Becomes(w, Run(a, t))
    /\ UNCHANGED <<app, raw, lock, event, criteria, tokens, issued, mails, receipts, crashes, lost, unrecorded>>

-----------------------------------------------------------------------------
(* process_application.                                                    *)

\* session.get of the application and its job.  The first flush has nothing to
\* write when the row already holds this raw text, as after a failed extraction.
RunLoads(w) ==
    LET a == workers[w].app
        t == workers[w].text
        clean == raw[a] = [text |-> t, structured |-> FALSE]
    IN  /\ At(w, "process", "queued")
        /\ Becomes(w, [workers[w] EXCEPT !.pc = IF clean THEN "extract" ELSE "flush",
                                         !.seen = CopyOf(app[a]), !.crit = criteria])
        /\ UNCHANGED <<app, raw, lock, event, criteria, tokens, issued, mails, receipts, crashes, lost, unrecorded>>

\* The UPDATE of candidates.raw_extracted waits for the row lock and keeps it,
\* uncommitted, while the model extracts.
RunFlushes(w) ==
    /\ At(w, "process", "flush")
    /\ lock[workers[w].app] = NoWorker
    /\ lock' = [lock EXCEPT ![workers[w].app] = w]
    /\ Goes(w, "extract")
    /\ UNCHANGED <<app, raw, event, criteria, tokens, issued, mails, receipts, crashes, lost, unrecorded>>

\* Mutant: the error path returns without committing.
RunFailsToExtractUncommitted(w) ==
    /\ At(w, "process", "extract") /\ workers[w].text # NoText
    /\ event' = [event EXCEPT ![workers[w].app] = "extract.failed"]
    /\ lost' = lost \ {workers[w].app}
    /\ Ends(w)
    /\ UNCHANGED <<app, raw, lock, criteria, tokens, issued, mails, receipts, crashes, unrecorded>>

\* Extraction fails; the stage stays what it was.  Empty text cannot fail: it
\* gives an empty candidate without asking the model.
RunFailsToExtract(w) ==
    LET a == workers[w].app
    IN  /\ At(w, "process", "extract") /\ workers[w].text # NoText
        /\ raw' = Persisted(w, a, FALSE)
        /\ lock' = Released(w, a)
        /\ event' = [event EXCEPT ![a] = "extract.failed"]
        /\ lost' = lost \ {a}
        /\ Ends(w)
        /\ UNCHANGED <<app, criteria, tokens, issued, mails, receipts, crashes, unrecorded>>

\* The second flush needs the candidates row as well; if it raises, see Breaks.
CanFlush(w) == lock[workers[w].app] \in {w, NoWorker}

\* Extraction succeeds and the bundle read at the start does not serve: ENRICHING
\* is committed, and with it the candidate.
RunStartsEnriching(w) ==
    LET a == workers[w].app
    IN  /\ At(w, "process", "extract") /\ CanFlush(w)
        /\ TRUE \in Enrichment /\ ~workers[w].seen.bundle
        /\ app' = DirtyStage(a, workers[w].seen.stage, "enriching")
        /\ raw' = [raw EXCEPT ![a] = [text |-> workers[w].text, structured |-> TRUE]]
        /\ lock' = Released(w, a)
        /\ Becomes(w, [workers[w] EXCEPT !.pc = "enrich", !.seen.stage = "enriching"])
        /\ UNCHANGED <<event, criteria, tokens, issued, mails, receipts, crashes, lost, unrecorded>>

\* Enrichment is disabled, or the bundle is fresh: straight on to scoring, with
\* nothing committed and the candidates row locked.
RunSkipsEnriching(w) ==
    /\ At(w, "process", "extract") /\ CanFlush(w)
    /\ FALSE \in Enrichment \/ workers[w].seen.bundle
    /\ lock' = [lock EXCEPT ![workers[w].app] = w]
    /\ Goes(w, "score")
    /\ UNCHANGED <<app, raw, event, criteria, tokens, issued, mails, receipts, crashes, lost, unrecorded>>

\* Enrichment ends; a failure is logged and scoring proceeds.
RunEnriches(w) ==
    LET a == workers[w].app
    IN  /\ At(w, "process", "enrich")
        /\ \/ /\ app' = [app EXCEPT ![a].bundle = TRUE]
              /\ event' = [event EXCEPT ![a] = "application.enriched"]
           \/ /\ event' = [event EXCEPT ![a] = "enrichment.failed"]
              /\ UNCHANGED app
        /\ Goes(w, "score")
        /\ UNCHANGED <<raw, lock, criteria, tokens, issued, mails, receipts, crashes, lost, unrecorded>>

\* Mutant: a failed scoring commits no event.
RunFailsToScoreSilently(w) ==
    LET a == workers[w].app
    IN  /\ At(w, "process", "score")
        /\ raw' = Persisted(w, a, TRUE)
        /\ lock' = Released(w, a)
        /\ lost' = lost \ {a}
        /\ Ends(w)
        /\ UNCHANGED <<app, event, criteria, tokens, issued, mails, receipts, crashes, unrecorded>>

RunFailsToScore(w) ==
    LET a == workers[w].app
    IN  /\ At(w, "process", "score")
        /\ raw' = Persisted(w, a, TRUE)
        /\ lock' = Released(w, a)
        /\ event' = [event EXCEPT ![a] = "score.failed"]
        /\ lost' = lost \ {a}
        /\ Ends(w)
        /\ UNCHANGED <<app, criteria, tokens, issued, mails, receipts, crashes, unrecorded>>

\* Scoring succeeds, against the criteria read when the run began; SCORED is
\* written whatever the stage has become since.
RunScores(w) ==
    LET a == workers[w].app
    IN  /\ At(w, "process", "score")
        /\ app' = [app EXCEPT ![a].score = workers[w].crit,
                              ![a].stage = Dirty(@, workers[w].seen.stage, "scored")]
        /\ raw' = Persisted(w, a, TRUE)
        /\ lock' = Released(w, a)
        /\ event' = [event EXCEPT ![a] = "application.scored"]
        /\ lost' = lost \ {a}
        /\ Ends(w)
        /\ UNCHANGED <<criteria, tokens, issued, mails, receipts, crashes, unrecorded>>

-----------------------------------------------------------------------------
(* re_enrich_application: the endpoint, then the background task.          *)

ReEnrichReads(w, a) ==
    /\ "re_enrich" \in Ops
    /\ IsIdle(w) /\ app[a].stage # "absent"
    /\ Becomes(w, [kind |-> "reenrich", pc |-> "endpoint", app |-> a,
                    seen |-> CopyOf(app[a])])
    /\ UNCHANGED <<app, raw, lock, event, criteria, tokens, issued, mails, receipts, crashes, lost, unrecorded>>

\* The endpoint clears the bundle and flips the stage, from any stage.
ReEnrichFlips(w) ==
    LET a == workers[w].app
        seen == workers[w].seen
    IN  /\ At(w, "reenrich", "endpoint")
        /\ app' = [app EXCEPT ![a].bundle = Dirty(@, seen.bundle, FALSE),
                              ![a].stage = Dirty(@, seen.stage, "enriching")]
        /\ Becomes(w, [workers[w] EXCEPT !.pc = "queued", !.seen = CopyOf(NoRow)])
        /\ UNCHANGED <<raw, lock, event, criteria, tokens, issued, mails, receipts, crashes, lost, unrecorded>>

\* The task reads the row anew; its prior_stage is the one it finds there.
ReEnrichLoads(w) ==
    /\ At(w, "reenrich", "queued")
    /\ Becomes(w, [workers[w] EXCEPT !.pc = "loaded", !.seen = CopyOf(app[workers[w].app])])
    /\ UNCHANGED <<app, raw, lock, event, criteria, tokens, issued, mails, receipts, crashes, lost, unrecorded>>

\* Enrichment is disabled: restore the stage, SCORED if the prior was ENRICHING.
ReEnrichIsDisabled(w) ==
    LET prior == workers[w].seen.stage
    IN  /\ At(w, "reenrich", "loaded") /\ FALSE \in Enrichment
        /\ app' = DirtyStage(workers[w].app, prior,
                             IF prior = "enriching" THEN "scored" ELSE prior)
        /\ Ends(w)
        /\ UNCHANGED <<raw, lock, event, criteria, tokens, issued, mails, receipts, crashes, lost, unrecorded>>

ReEnrichStarts(w) ==
    /\ At(w, "reenrich", "loaded") /\ TRUE \in Enrichment
    /\ app' = DirtyStage(workers[w].app, workers[w].seen.stage, "enriching")
    /\ Goes(w, "enrich")
    /\ UNCHANGED <<raw, lock, event, criteria, tokens, issued, mails, receipts, crashes, lost, unrecorded>>

\* SCORED if the row read had a score, else the prior stage.
ReEnrichRestored(seen) == IF seen.scored THEN "scored" ELSE seen.stage

ReEnrichEnds(w) ==
    LET a == workers[w].app
        restored == Dirty(app[a].stage, "enriching", ReEnrichRestored(workers[w].seen))
    IN  /\ At(w, "reenrich", "enrich")
        /\ \/ /\ app' = [app EXCEPT ![a].stage = restored, ![a].bundle = TRUE]
              /\ event' = [event EXCEPT ![a] = "application.enriched"]
           \/ /\ app' = [app EXCEPT ![a].stage = restored]
              /\ event' = [event EXCEPT ![a] = "enrichment.failed"]
        /\ Ends(w)
        /\ UNCHANGED <<raw, lock, criteria, tokens, issued, mails, receipts, crashes, lost, unrecorded>>

-----------------------------------------------------------------------------
(* update_job with new criteria, and rescore_applications_for_job.         *)

\* Without a configured model the criteria change and nothing is rescored.
UpdateCriteria(w) ==
    /\ "criteria" \in Ops
    /\ IsIdle(w) /\ criteria < MaxCriteria
    /\ criteria' = criteria + 1
    /\ \/ Becomes(w, [kind |-> "rescore", pc |-> "queued", crit |-> 0, todo |-> {}])
       \/ "no_llm" \in Ops /\ UNCHANGED workers
    /\ UNCHANGED <<app, raw, lock, event, tokens, issued, mails, receipts, crashes, lost, unrecorded>>

ToRescore == {a \in Apps : app[a].score # NoScore}

RescoreContinues(w, crit, todo) ==
    IF todo = {} THEN Ends(w)
    ELSE Becomes(w, [kind |-> "rescore", pc |-> "score", crit |-> crit, todo |-> todo])

RescoreLoads(w) ==
    /\ At(w, "rescore", "queued")
    /\ RescoreContinues(w, criteria, ToRescore)
    /\ UNCHANGED <<app, raw, lock, event, criteria, tokens, issued, mails, receipts, crashes, lost, unrecorded>>

\* One application after the other, each committed on its own; a failure is
\* logged and the next one follows.
RescoresOne(w, a) ==
    /\ At(w, "rescore", "score") /\ a \in workers[w].todo
    /\ \/ /\ app' = [app EXCEPT ![a].score = workers[w].crit]
          /\ event' = [event EXCEPT ![a] = "application.scored"]
       \/ /\ event' = [event EXCEPT ![a] = "score.failed"]
          /\ UNCHANGED app
    /\ RescoreContinues(w, workers[w].crit, workers[w].todo \ {a})
    /\ UNCHANGED <<raw, lock, criteria, tokens, issued, mails, receipts, crashes, lost, unrecorded>>

-----------------------------------------------------------------------------
(* patch_application: one step, under SELECT ... FOR UPDATE.               *)

ForwardStageAfter(s) ==
    CASE s = "invited" -> "scheduled"
      [] s = "scheduled" -> "interviewed"
      [] s = "interviewed" -> "offer"
      [] s = "offer" -> "hired"
HasForwardStage == {"invited", "scheduled", "interviewed", "offer"}
RequiredPredecessor(s) == CHOOSE p \in HasForwardStage : ForwardStageAfter(p) = s
HasPredecessor == {"scheduled", "interviewed", "offer", "hired"}

\* Mutant: without the table of required predecessors.
ValidTransitionForwardOnly(current, target) ==
    /\ current \notin {"absent", "hired"}
    /\ \/ current = "interviewed" /\ target = "scheduled"
       \/ /\ current \in HasForwardStage /\ target # "rejected" => target = ForwardStageAfter(current)
          /\ target = "scored" => current \in {"validated", "rejected"}
          /\ target = "validated" => current = "scored"
          /\ target = "rejected" => current # "rejected"

\* Mutant: an offer need not wait for the interview.
ValidTransitionOfferEarly(current, target) ==
    /\ current \notin {"absent", "hired"}
    /\ \/ current = "interviewed" /\ target = "scheduled"
       \/ current = "scheduled" /\ target = "offer"
       \/ /\ target \in HasPredecessor => current = RequiredPredecessor(target)
          /\ target = "scored" => current \in {"validated", "rejected"}
          /\ target = "validated" => current = "scored"
          /\ target = "rejected" => current # "rejected"

ValidTransition(current, target) ==
    /\ current \notin {"absent", "hired"}
    /\ \/ current = "interviewed" /\ target = "scheduled"
       \/ /\ current \in HasForwardStage /\ target # "rejected" => target = ForwardStageAfter(current)
          /\ target \in HasPredecessor => current = RequiredPredecessor(target)
          /\ target = "scored" => current \in {"validated", "rejected"}
          /\ target = "validated" => current = "scored"
          /\ target = "rejected" => current # "rejected"

\* Mutant: every target stamps a column of its own.
PatchedAlwaysStamped(row, target) ==
    [row EXCEPT !.stage = target, !.stamps = @ \cup {target}]

\* open_next_round: scheduled again after an interview, it is no longer interviewed.
Reopened(row, target) ==
    IF row.stage = "interviewed" /\ target = "scheduled" THEN {"interviewed"} ELSE {}

\* What the handler assigns: scored clears, every other stage stamps its column.
Patched(row, target) ==
    [row EXCEPT !.stage = target,
                !.stamps = IF target = "scored" THEN @ \ Decisions
                           ELSE (@ \ Reopened(row, target)) \cup {target}]

PatchStage(a, target) ==
    /\ "patch" \in Ops
    /\ ValidTransition(app[a].stage, target)
    /\ app' = [app EXCEPT ![a] = Patched(@, target)]
    /\ UNCHANGED <<raw, lock, event, criteria, tokens, issued, mails, receipts, workers, crashes, lost, unrecorded>>

-----------------------------------------------------------------------------
(* The chat agent's write tools, and the undo of what they did.            *)

\* _validate_application, _reject_application: both start from the same stages.
ToolReads(w, a) ==
    /\ "chat" \in Ops
    /\ IsIdle(w) /\ app[a].stage \in UndoStages
    /\ issued + Cardinality(InFlight("tool")) < MaxTokens
    /\ \E target \in Decisions :
            Becomes(w, [kind |-> "tool", app |-> a, seen |-> CopyOf(app[a]),
                        stamps |-> app[a].stamps \cap Decisions, target |-> target])
    /\ UNCHANGED <<app, raw, lock, event, criteria, tokens, issued, mails, receipts, crashes, lost, unrecorded>>

\* The commit, then undo_store.issue with what the tool had read.
ToolCommits(w) ==
    LET a == workers[w].app
        seen == workers[w].seen
        target == workers[w].target
    IN  /\ workers[w].kind = "tool"
        /\ app' = [app EXCEPT ![a].stage = Dirty(@, seen.stage, target),
                              ![a].stamps = @ \cup {target}]
        /\ issued' = issued + 1
        /\ tokens' = tokens \cup {[id |-> issued + 1, app |-> a, stage |-> seen.stage,
                                   stamps |-> workers[w].stamps]}
        /\ Ends(w)
        /\ UNCHANGED <<raw, lock, event, criteria, mails, receipts, crashes, lost, unrecorded>>

\* post_undo: the token is consumed before the row is read.
UndoConsumes(w, t) ==
    /\ IsIdle(w)
    /\ tokens' = tokens \ {t}
    /\ Becomes(w, [kind |-> "undo", app |-> t.app, seen |-> CopyOf(app[t.app]),
                   stamps |-> app[t.app].stamps \cap Decisions, token |-> t])
    /\ UNCHANGED <<app, raw, lock, event, criteria, issued, mails, receipts, crashes, lost, unrecorded>>

\* Mutant: every timestamp goes back to the snapshot.
UndoneStampsAll(cur, seen, snapshot) == snapshot

\* validated_at and rejected_at go back to the snapshot, attribute by attribute.
UndoneStamps(cur, seen, snapshot) ==
    {s \in Stamps : IF s \in Decisions /\ (s \in seen) # (s \in snapshot)
                    THEN s \in snapshot ELSE s \in cur}

\* The previous stage is assigned whatever the stage is now.
UndoCommits(w) ==
    LET a == workers[w].app
        seen == workers[w].seen
        t == workers[w].token
    IN  /\ workers[w].kind = "undo"
        /\ app' = [app EXCEPT ![a].stage = Dirty(@, seen.stage, t.stage),
                              ![a].stamps = UndoneStamps(@, workers[w].stamps, t.stamps)]
        /\ Ends(w)
        /\ UNCHANGED <<raw, lock, event, criteria, tokens, issued, mails, receipts, crashes, lost, unrecorded>>

TokenExpires(t) ==
    /\ tokens' = tokens \ {t}
    /\ UNCHANGED <<app, raw, lock, event, criteria, issued, mails, receipts, workers, crashes, lost, unrecorded>>

-----------------------------------------------------------------------------
(* notify_endpoint.                                                        *)

NotifyReads(w, a) ==
    /\ "notify" \in Ops
    /\ IsIdle(w) /\ app[a].stage = "validated"
    /\ mails[a] + Cardinality(InFlight("notify")) < MaxMails
    /\ Becomes(w, [kind |-> "notify", pc |-> "loaded", app |-> a, seen |-> CopyOf(app[a])])
    /\ UNCHANGED <<app, raw, lock, event, criteria, tokens, issued, mails, receipts, crashes, lost, unrecorded>>

\* send_invitation delivers, or raises and ends the request: before the server
\* has accepted the mail, or after that (its reply is lost, QUIT fails).
NotifySends(w) ==
    LET a == workers[w].app
    IN  /\ At(w, "notify", "loaded")
        /\ \/ /\ mails' = [mails EXCEPT ![a] = @ + 1]
              /\ Goes(w, "sent")
              /\ UNCHANGED unrecorded
           \/ /\ Ends(w)
              /\ UNCHANGED <<mails, unrecorded>>
           \/ /\ mails' = [mails EXCEPT ![a] = @ + 1]
              /\ unrecorded' = [unrecorded EXCEPT ![a] = @ + 1]
              /\ Ends(w)
        /\ UNCHANGED <<app, raw, lock, event, criteria, tokens, issued, receipts, crashes, lost>>

\* Mutant: the stage moves without its timestamp.
NotifyCommitsUnstamped(w) ==
    LET a == workers[w].app
    IN  /\ At(w, "notify", "sent")
        /\ receipts' = [receipts EXCEPT ![a] = @ + 1]
        /\ app' = DirtyStage(a, workers[w].seen.stage, "invited")
        /\ Ends(w)
        /\ UNCHANGED <<raw, lock, event, criteria, tokens, issued, mails, crashes, lost, unrecorded>>

\* Mutant: the receipt is not added to the session.
NotifyCommitsWithoutReceipt(w) ==
    LET a == workers[w].app
    IN  /\ At(w, "notify", "sent")
        /\ app' = [app EXCEPT ![a].stage = Dirty(@, workers[w].seen.stage, "invited"),
                              ![a].stamps = @ \cup {"invited"}]
        /\ Ends(w)
        /\ UNCHANGED <<raw, lock, event, criteria, tokens, issued, mails, receipts, crashes, lost, unrecorded>>

\* The notification row and INVITED are one commit, after the mail has gone.
NotifyCommits(w) ==
    LET a == workers[w].app
    IN  /\ At(w, "notify", "sent")
        /\ receipts' = [receipts EXCEPT ![a] = @ + 1]
        /\ app' = [app EXCEPT ![a].stage = Dirty(@, workers[w].seen.stage, "invited"),
                              ![a].stamps = @ \cup {"invited"}]
        /\ Ends(w)
        /\ UNCHANGED <<raw, lock, event, criteria, tokens, issued, mails, crashes, lost, unrecorded>>

-----------------------------------------------------------------------------
(* Coroutines that do not reach their end.                                 *)

\* The coroutines that may still move application a out of EXTRACTING or ENRICHING.
Pending(a) == {w \in Workers : workers[w].kind \in {"process", "github", "reenrich"}
                                 /\ workers[w].app = a}

\* The requests between the mail of application a and its commit.
Sent(a) == {w \in InFlight("notify") : workers[w].app = a /\ workers[w].pc = "sent"}

\* These coroutines are gone and their transactions rolled back.
Cut(ws) ==
    /\ workers' = [w \in Workers |-> IF w \in ws THEN Idle ELSE workers[w]]
    /\ lock' = [a \in Apps |-> IF lock[a] \in ws THEN NoWorker ELSE lock[a]]
    /\ lost' = lost \cup {a \in Apps : Pending(a) \cap ws # {}}
    /\ unrecorded' = [a \in Apps |-> unrecorded[a] + Cardinality(Sent(a) \cap ws)]

\* A statement of a coroutine's session raises where no handler catches it, or
\* where the handler's own commit then raises: a flush or commit of text that
\* does not fit its column, a lost connection.
Breaks(w) ==
    /\ ~IsIdle(w)
    /\ Cut({w})
    /\ UNCHANGED <<app, raw, event, criteria, tokens, issued, mails, receipts, crashes>>

\* The process restarts.  Undo tokens are lost with the in-memory store and kept
\* by Redis.
Crash ==
    /\ crashes < MaxCrashes
    /\ crashes' = crashes + 1
    /\ Cut(Workers)
    /\ tokens' \in {{}, tokens}
    /\ UNCHANGED <<app, raw, event, criteria, issued, mails, receipts>>

-----------------------------------------------------------------------------
\* A request arrives.
Request(w) ==
    \/ \E a \in Apps : \/ AddCandidate(w, a) \/ AddLinkedInCandidate(w, a)
                       \/ Retry(w, a) \/ Paste(w, a) \/ ReEnrichReads(w, a)
                       \/ ToolReads(w, a) \/ NotifyReads(w, a)
    \/ UpdateCriteria(w)
    \/ \E t \in tokens : UndoConsumes(w, t)

\* A coroutine in flight goes on.
Step(w) ==
    \/ GitHubAnswers(w)
    \/ RunLoads(w) \/ RunFlushes(w) \/ RunFailsToExtract(w) \/ RunStartsEnriching(w)
    \/ RunSkipsEnriching(w) \/ RunEnriches(w) \/ RunFailsToScore(w) \/ RunScores(w)
    \/ ReEnrichFlips(w) \/ ReEnrichLoads(w) \/ ReEnrichIsDisabled(w)
    \/ ReEnrichStarts(w) \/ ReEnrichEnds(w)
    \/ RescoreLoads(w) \/ (\E a \in Apps : RescoresOne(w, a))
    \/ ToolCommits(w) \/ UndoCommits(w)
    \/ NotifySends(w) \/ NotifyCommits(w)

Next ==
    \/ \E w \in Workers : Request(w) \/ Step(w) \/ Breaks(w)
    \/ \E a \in Apps, target \in PatchTargets : PatchStage(a, target)
    \/ \E t \in tokens : TokenExpires(t)
    \/ Crash

Spec == Init /\ [][Next]_vars

\* Every await in a coroutine ends (LLM and HTTP clients have timeouts), and
\* PostgreSQL queues the waiters of a row lock, so none is overtaken for ever.
FairSpec == Spec /\ \A w \in Workers : SF_vars(Step(w))

-----------------------------------------------------------------------------
(* Properties.                                                             *)

\* Every variable stays in its type; in particular a stamp is a real column and
\* a coroutine holds the fields of its kind.
TypeOK ==
    /\ app \in [Apps -> Row]
    /\ raw \in [Apps -> RawText]
    /\ lock \in [Apps -> Workers \cup {NoWorker}]
    /\ event \in [Apps -> Events]
    /\ criteria \in 1..MaxCriteria
    /\ tokens \subseteq Token /\ issued \in Nat
    /\ mails \in [Apps -> Nat] /\ receipts \in [Apps -> Nat]
    /\ workers \in [Workers -> Worker]
    /\ crashes \in 0..MaxCrashes
    /\ lost \subseteq Apps /\ unrecorded \in [Apps -> Nat]

\* No candidate reaches a stage past the invitation without an invitation mail
\* having been sent to them: the only way into INVITED is notify_endpoint's
\* commit, and _validate_transition lets no other stage into the late ones,
\* whatever stale commits of runs, tools and undos did to the row in between.
LateStagesWereInvited ==
    \A a \in Apps : app[a].stage \in Late => mails[a] > 0

\* The column a late stage can rely on: interviewed_at goes when a round is
\* reopened, and a re-enrichment may put INTERVIEWED back after that.
DatedBy(stage) == IF stage = "interviewed" THEN "scheduled" ELSE stage

\* The timestamps tell how a late stage was reached: its own column is set, and
\* no column of the funnel is set without those before it that are never cleared,
\* so reports find no hire without an offer, a date and an invitation.
TrailIsComplete ==
    \A a \in Apps :
        /\ app[a].stage \in Late => DatedBy(app[a].stage) \in app[a].stamps
        /\ "hired" \in app[a].stamps => "offer" \in app[a].stamps
        /\ {"offer", "interviewed"} \cap app[a].stamps # {} => "scheduled" \in app[a].stamps
        /\ "scheduled" \in app[a].stamps => "invited" \in app[a].stamps

\* Every mail has its notifications row, is about to get it, or is one whose
\* request ended after the server had accepted the mail and before the commit:
\* by an exception, a failed commit or a restart.  There is no other way to lose
\* a receipt, whatever overlaps, and none to have one without a mail.
MailsAreRecorded ==
    \A a \in Apps : mails[a] = receipts[a] + unrecorded[a] + Cardinality(Sent(a))

\* The candidates row is locked only by a run that is still going to commit it.
LockIsHeldByARun ==
    \A a \in Apps : lock[a] # NoWorker =>
        LET w == workers[lock[a]]
        IN  w.kind = "process" /\ w.app = a /\ w.pc \in {"extract", "score"}

Stalled(a) == app[a].stage \in {"extracting", "enriching"} /\ Pending(a) = {}

\* _to_read's awaiting_paste, once the card is 90 seconds old.
AwaitsPaste(a) == app[a].stage = "extracting" /\ app[a].linkedin

\* A card that stopped short of SCORED says so: once no run is in flight, an
\* application left in EXTRACTING or ENRICHING shows last_error or asks for a
\* paste, unless the newest thing that happened to it is a score (of a rescore,
\* or of a run that had read SCORED and so did not write it), or its last run
\* was cut short by a restart or by an exception that no handler catches.
NoSilentStall ==
    \A a \in Apps : Stalled(a) =>
        \/ event[a] \in HaltingEvents
        \/ AwaitsPaste(a)
        \/ event[a] = "application.scored" /\ app[a].score # NoScore
        \/ a \in lost

\* What re_enrich_application says of itself: it restores the stage to SCORED on
\* success, or back to whatever it was on failure.  So a card whose newest event
\* is a re-enrichment's does not stay in ENRICHING once nothing is in flight and
\* nothing was cut short.  The code does not keep this: the endpoint has written
\* ENRICHING before the task reads the stage to go back to.
ReEnrichmentRestores ==
    \A a \in Apps :
        app[a].stage = "enriching" /\ event[a] \in {"application.enriched", "enrichment.failed"}
            => Pending(a) # {} \/ a \in lost

\* No coroutine waits for ever: the lock a run holds across its model calls is
\* let go on every path out of it.
CoroutinesEnd == \A w \in Workers : workers[w] # Idle ~> workers[w] = Idle

\* Whatever overlaps, the late stages are those of the funnel: an application is
\* in one only by an invitation that was mailed and the validated steps from it,
\* dated one by one, no stale commit takes a date away, and a re-enrichment
\* brings it back to no stage it has not been in.
Funnel == INSTANCE ApplicationFunnel
    WITH stage <- [a \in Apps |-> IF app[a].stage \in Late THEN app[a].stage ELSE "outside"],
         dates <- [a \in Apps |-> app[a].stamps \cap Late]
ImplementsFunnel == Funnel!Spec
=============================================================================
