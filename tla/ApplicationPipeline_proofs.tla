---------------------- MODULE ApplicationPipeline_proofs ----------------------
(***************************************************************************)
(* Proofs about ApplicationPipeline, for any number of applications,       *)
(* workers and texts and any bounds.                                       *)
(***************************************************************************)
EXTENDS ApplicationPipeline, FiniteSetTheorems, TLAPS

\* A record of each kind of coroutine is a worker.
LEMMA KindsAreWorkers ==
    /\ Idle \in Worker
    /\ Runs \subseteq Worker /\ Searches \subseteq Worker /\ ReEnrichments \subseteq Worker
    /\ Rescores \subseteq Worker /\ ToolCalls \subseteq Worker /\ Undos \subseteq Worker
    /\ Notifies \subseteq Worker
  BY DEF Worker

\* The kind of a worker tells which record it is.
LEMMA WorkerOfKind ==
    ASSUME NEW rec \in Worker
    PROVE  /\ rec.kind = "process" => rec \in Runs
           /\ rec.kind = "github" => rec \in Searches
           /\ rec.kind = "reenrich" => rec \in ReEnrichments
           /\ rec.kind = "rescore" => rec \in Rescores
           /\ rec.kind = "tool" => rec \in ToolCalls
           /\ rec.kind = "undo" => rec \in Undos
           /\ rec.kind = "notify" => rec \in Notifies
  BY DEF Worker, Idle, Runs, Searches, ReEnrichments, Rescores, ToolCalls, Undos, Notifies

\* Starting, continuing or ending a coroutine keeps the table of workers typed.
LEMMA BecomesType ==
    ASSUME workers \in [Workers -> Worker], NEW w \in Workers, NEW rec \in Worker,
           Becomes(w, rec)
    PROVE  /\ workers' \in [Workers -> Worker]
           /\ workers'[w] = rec
           /\ \A v \in Workers \ {w} : workers'[v] = workers[v]
  BY DEF Becomes

LEMMA CopyType ==
    ASSUME NEW row \in Row
    PROVE  CopyOf(row) \in Copy
  BY DEF Row, Copy, CopyOf, NoScore

LEMMA NoRowType == NoRow \in Row
  BY ConstantsAssumption DEF NoRow, Row, Stages, NoScore

LEMMA RunType ==
    ASSUME NEW a \in Apps, NEW t \in Texts \cup {NoText}
    PROVE  Run(a, t) \in Runs
  BY CopyType, NoRowType, ConstantsAssumption DEF Run, Runs

\* Writing a stage into one row keeps the table of applications typed.
LEMMA StageType ==
    ASSUME app \in [Apps -> Row], NEW a \in Apps, NEW s \in Stages
    PROVE  [app EXCEPT ![a].stage = s] \in [Apps -> Row]
  BY DEF Row

\* A row for a new application, whatever its source.
LEMMA NewRowType ==
    ASSUME app \in [Apps -> Row], NEW a \in Apps, NEW l \in BOOLEAN
    PROVE  [app EXCEPT ![a].stage = "extracting", ![a].linkedin = l] \in [Apps -> Row]
  BY DEF Row, Stages

\* Adding a candidate writes a row of that form.
LEMMA NewRow ==
    ASSUME NEW w \in Workers, NEW a \in Apps, AddCandidate(w, a) \/ AddLinkedInCandidate(w, a)
    PROVE  \E l \in BOOLEAN :
                app' = [app EXCEPT ![a].stage = "extracting", ![a].linkedin = l]
  <1>1. CASE AddCandidate(w, a)
    <2>1. {FALSE} \cup {"linkedin" \in Ops} \subseteq BOOLEAN
      OBVIOUS
    <2>2. PICK l \in {FALSE} \cup {"linkedin" \in Ops} :
              app' = [app EXCEPT ![a].stage = "extracting", ![a].linkedin = l]
      BY <1>1 DEF AddCandidate
    <2>3. QED BY <2>1, <2>2
  <1>2. CASE AddLinkedInCandidate(w, a)
    <2>1. app' = [app EXCEPT ![a].stage = "extracting", ![a].linkedin = TRUE]
      BY <1>2 DEF AddLinkedInCandidate
    <2>2. QED BY <2>1
  <1>3. QED BY <1>1, <1>2

\* Writing a stage and timestamps into one row.
LEMMA DatedType ==
    ASSUME app \in [Apps -> Row], NEW a \in Apps, NEW s \in Stages,
           NEW stamps \in SUBSET Stamps
    PROVE  [app EXCEPT ![a].stage = s, ![a].stamps = stamps] \in [Apps -> Row]
  <1>1. [[app[a] EXCEPT !.stage = s] EXCEPT !.stamps = stamps] \in Row
    BY DEF Row
  <1>2. QED BY <1>1

LEMMA PatchedType ==
    ASSUME NEW row \in Row, NEW target \in PatchTargets
    PROVE  Patched(row, target) \in Row
  BY DEF Patched, Reopened, Row, PatchTargets, Stages, Late, Stamps, Decisions

LEMMA InitType == Init => TypeOK
  BY NoRowType, KindsAreWorkers, ConstantsAssumption
     DEF Init, TypeOK, RawText, Events

-----------------------------------------------------------------------------
\* Each request keeps the types.
LEMMA RequestType ==
    ASSUME TypeOK, NEW w \in Workers, Request(w)
    PROVE  TypeOK'
  <1> USE KindsAreWorkers, ConstantsAssumption
  <1>1. ASSUME NEW a \in Apps, AddCandidate(w, a) PROVE TypeOK'
    <2>1. app' \in [Apps -> Row]
      <3>1. PICK l \in BOOLEAN :
                app' = [app EXCEPT ![a].stage = "extracting", ![a].linkedin = l]
        BY <1>1, NewRow
      <3>2. app \in [Apps -> Row]
        BY DEF TypeOK
      <3>3. QED BY <3>1, <3>2, NewRowType
    <2>2. workers' \in [Workers -> Worker]
      BY <1>1, RunType, BecomesType DEF AddCandidate, SubmittedTexts, TypeOK
    <2>3. QED BY <1>1, <2>1, <2>2 DEF AddCandidate, TypeOK
  <1>2. ASSUME NEW a \in Apps, AddLinkedInCandidate(w, a) PROVE TypeOK'
    <2>1. app' \in [Apps -> Row]
      <3>1. PICK l \in BOOLEAN :
                app' = [app EXCEPT ![a].stage = "extracting", ![a].linkedin = l]
        BY <1>2, NewRow
      <3>2. app \in [Apps -> Row]
        BY DEF TypeOK
      <3>3. QED BY <3>1, <3>2, NewRowType
    <2>2. [kind |-> "github", app |-> a] \in Worker
      BY DEF Searches
    <2>3. workers' \in [Workers -> Worker]
      BY <1>2, <2>2, BecomesType DEF AddLinkedInCandidate, TypeOK
    <2>4. QED BY <1>2, <2>1, <2>3 DEF AddLinkedInCandidate, TypeOK
  <1>3. ASSUME NEW a \in Apps, Retry(w, a) PROVE TypeOK'
    <2>1. raw[a].text \in Texts \cup {NoText}
      BY DEF TypeOK, RawText
    <2>2. workers' \in [Workers -> Worker]
      BY <1>3, <2>1, RunType, BecomesType DEF Retry, TypeOK
    <2>3. QED BY <1>3, <2>2 DEF Retry, TypeOK
  <1>4. ASSUME NEW a \in Apps, Paste(w, a) PROVE TypeOK'
    <2>1. workers' \in [Workers -> Worker]
      BY <1>4, RunType, BecomesType DEF Paste, SubmittedTexts, TypeOK
    <2>2. QED BY <1>4, <2>1 DEF Paste, TypeOK
  <1>5. ASSUME NEW a \in Apps, ReEnrichReads(w, a) PROVE TypeOK'
    <2>1. [kind |-> "reenrich", pc |-> "endpoint", app |-> a, seen |-> CopyOf(app[a])] \in Worker
      BY CopyType DEF TypeOK, ReEnrichments
    <2>2. workers' \in [Workers -> Worker]
      BY <1>5, <2>1, BecomesType DEF ReEnrichReads, TypeOK
    <2>3. QED BY <1>5, <2>2 DEF ReEnrichReads, TypeOK
  <1>6. ASSUME NEW a \in Apps, ToolReads(w, a) PROVE TypeOK'
    <2>1. PICK target \in Decisions :
              Becomes(w, [kind |-> "tool", app |-> a, seen |-> CopyOf(app[a]),
                          stamps |-> app[a].stamps \cap Decisions, target |-> target])
      BY <1>6 DEF ToolReads
    <2>2. CopyOf(app[a]) \in DecidableCopy
      BY <1>6, CopyType DEF ToolReads, CopyOf, DecidableCopy, TypeOK
    <2>3. [kind |-> "tool", app |-> a, seen |-> CopyOf(app[a]),
           stamps |-> app[a].stamps \cap Decisions, target |-> target] \in Worker
      BY <2>2 DEF ToolCalls
    <2>4. workers' \in [Workers -> Worker]
      BY <2>1, <2>3, BecomesType DEF TypeOK
    <2>5. QED BY <1>6, <2>4 DEF ToolReads, TypeOK
  <1>7. ASSUME NEW a \in Apps, NotifyReads(w, a) PROVE TypeOK'
    <2>1. CopyOf(app[a]) \in Copy /\ CopyOf(app[a]).stage = "validated"
      BY <1>7, CopyType DEF NotifyReads, CopyOf, TypeOK
    <2>2. [kind |-> "notify", pc |-> "loaded", app |-> a, seen |-> CopyOf(app[a])] \in Worker
      BY <2>1 DEF Notifies
    <2>3. workers' \in [Workers -> Worker]
      BY <1>7, <2>2, BecomesType DEF NotifyReads, TypeOK
    <2>4. QED BY <1>7, <2>3 DEF NotifyReads, TypeOK
  <1>8. ASSUME UpdateCriteria(w) PROVE TypeOK'
    <2>1. [kind |-> "rescore", pc |-> "queued", crit |-> 0, todo |-> {}] \in Worker
      BY DEF Rescores
    <2>2. workers' \in [Workers -> Worker]
      BY <1>8, <2>1, BecomesType DEF UpdateCriteria, TypeOK
    <2>3. criteria' \in 1..MaxCriteria
      BY <1>8 DEF UpdateCriteria, TypeOK
    <2>4. QED BY <1>8, <2>2, <2>3 DEF UpdateCriteria, TypeOK
  <1>9. ASSUME NEW t \in tokens, UndoConsumes(w, t) PROVE TypeOK'
    <2>1. t \in Token /\ t.app \in Apps
      BY DEF TypeOK, Token
    <2>2. [kind |-> "undo", app |-> t.app, seen |-> CopyOf(app[t.app]),
           stamps |-> app[t.app].stamps \cap Decisions, token |-> t] \in Worker
      BY <2>1, CopyType DEF TypeOK, Undos
    <2>3. workers' \in [Workers -> Worker]
      BY <1>9, <2>2, BecomesType DEF UndoConsumes, TypeOK
    <2>4. QED BY <1>9, <2>3 DEF UndoConsumes, TypeOK
  <1>10. QED
    BY <1>1, <1>2, <1>3, <1>4, <1>5, <1>6, <1>7, <1>8, <1>9 DEF Request

-----------------------------------------------------------------------------
\* A row update that writes members of their types keeps the table typed.
LEMMA RowType ==
    ASSUME NEW row \in Row, NEW s \in Stages, NEW n \in 0..MaxCriteria,
           NEW b \in BOOLEAN, NEW st \in SUBSET Stamps
    PROVE  /\ [row EXCEPT !.stage = s] \in Row
           /\ [row EXCEPT !.score = n] \in Row
           /\ [row EXCEPT !.bundle = b] \in Row
           /\ [row EXCEPT !.stamps = st] \in Row
  BY DEF Row

LEMMA BundleType ==
    ASSUME app \in [Apps -> Row], NEW a \in Apps
    PROVE  [app EXCEPT ![a].bundle = TRUE] \in [Apps -> Row]
  BY DEF Row

LEMMA DirtyStageType ==
    ASSUME app \in [Apps -> Row], NEW a \in Apps, NEW seen, NEW new \in Stages
    PROVE  DirtyStage(a, seen, new) \in [Apps -> Row]
  BY DEF DirtyStage, Dirty, Row

\* A coroutine that only goes on to its next step stays of its kind.
LEMMA GoesType ==
    ASSUME workers \in [Workers -> Worker], NEW w \in Workers, NEW pc, Goes(w, pc),
           [workers[w] EXCEPT !.pc = pc] \in Worker
    PROVE  workers' \in [Workers -> Worker]
  BY DEF Goes

LEMMA RunGoesType ==
    ASSUME workers \in [Workers -> Worker], NEW w \in Workers, workers[w].kind = "process",
           NEW pc \in {"queued", "flush", "extract", "enrich", "score"}, Goes(w, pc)
    PROVE  workers' \in [Workers -> Worker]
  <1>1. workers[w] \in Runs
    BY WorkerOfKind
  <1>2. [workers[w] EXCEPT !.pc = pc] \in Runs
    BY <1>1 DEF Runs
  <1>3. QED BY <1>2, KindsAreWorkers, GoesType

LEMMA EndsType ==
    ASSUME workers \in [Workers -> Worker], NEW w \in Workers, Ends(w)
    PROVE  workers' \in [Workers -> Worker]
  BY KindsAreWorkers, BecomesType DEF Ends

\* A commit of a run leaves the lock and the raw texts typed.
LEMMA CommitType ==
    ASSUME TypeOK, NEW w \in Workers, workers[w].kind = "process", NEW b \in BOOLEAN
    PROVE  /\ workers[w] \in Runs
           /\ workers[w].app \in Apps /\ workers[w].crit \in 0..MaxCriteria
           /\ workers[w].text \in Texts \cup {NoText}
           /\ workers[w].seen \in Copy
           /\ Persisted(w, workers[w].app, b) \in [Apps -> RawText]
           /\ Released(w, workers[w].app) \in [Apps -> Workers \cup {NoWorker}]
  <1>1. workers[w] \in Runs
    BY WorkerOfKind DEF TypeOK
  <1>2. /\ workers[w].app \in Apps /\ workers[w].crit \in 0..MaxCriteria
        /\ workers[w].text \in Texts \cup {NoText}
        /\ workers[w].seen \in Copy
    BY <1>1 DEF Runs
  <1>3. Persisted(w, workers[w].app, b) \in [Apps -> RawText]
    BY <1>2 DEF Persisted, RawText, TypeOK
  <1>4. Released(w, workers[w].app) \in [Apps -> Workers \cup {NoWorker}]
    BY <1>2 DEF Released, TypeOK
  <1>5. QED BY <1>1, <1>2, <1>3, <1>4

\* Each step of process_application keeps the types.
LEMMA RunStepType ==
    ASSUME TypeOK, NEW w \in Workers,
           \/ GitHubAnswers(w) \/ RunLoads(w) \/ RunFlushes(w) \/ RunFailsToExtract(w)
           \/ RunStartsEnriching(w) \/ RunSkipsEnriching(w) \/ RunEnriches(w)
           \/ RunFailsToScore(w) \/ RunScores(w)
    PROVE  TypeOK'
  <1> DEFINE a == workers[w].app
  <1> USE KindsAreWorkers, ConstantsAssumption
  <1>0. /\ app \in [Apps -> Row] /\ raw \in [Apps -> RawText]
        /\ lock \in [Apps -> Workers \cup {NoWorker}] /\ event \in [Apps -> Events]
        /\ criteria \in 1..MaxCriteria /\ workers \in [Workers -> Worker]
    BY DEF TypeOK
  <1>1. CASE GitHubAnswers(w)
    <2>1. a \in Apps
      BY <1>1, <1>0, WorkerOfKind DEF GitHubAnswers, Searches
    <2>2. workers' \in [Workers -> Worker]
      BY <1>1, <1>0, <2>1, RunType, BecomesType, EndsType DEF GitHubAnswers
    <2>3. QED BY <1>1, <2>2 DEF GitHubAnswers, TypeOK
  <1>2. CASE RunLoads(w)
    <2>1. workers[w] \in Runs /\ a \in Apps
      BY <1>2, CommitType DEF RunLoads, At
    <2>2. CopyOf(app[a]) \in Copy /\ criteria \in 0..MaxCriteria
      BY <1>0, <2>1, CopyType
    <2>3. \A pc \in {"extract", "flush"} :
            [workers[w] EXCEPT !.pc = pc, !.seen = CopyOf(app[a]), !.crit = criteria] \in Runs
      BY <2>1, <2>2 DEF Runs
    <2>4. workers' \in [Workers -> Worker]
      BY <1>0, <1>2, <2>3, BecomesType DEF RunLoads
    <2>5. QED BY <1>2, <2>4 DEF RunLoads, TypeOK
  <1>3. CASE RunFlushes(w)
    <2>1. workers' \in [Workers -> Worker]
      BY <1>0, <1>3, RunGoesType DEF RunFlushes, At
    <2>2. lock' \in [Apps -> Workers \cup {NoWorker}]
      BY <1>0, <1>3 DEF RunFlushes
    <2>3. QED BY <1>3, <2>1, <2>2 DEF RunFlushes, TypeOK
  <1>4. CASE RunFailsToExtract(w)
    <2>1. /\ raw' \in [Apps -> RawText]
          /\ lock' \in [Apps -> Workers \cup {NoWorker}]
          /\ workers' \in [Workers -> Worker]
      BY <1>0, <1>4, CommitType, EndsType DEF RunFailsToExtract, At
    <2>2. event' \in [Apps -> Events]
      BY <1>0, <1>4 DEF RunFailsToExtract, Events
    <2>3. QED BY <1>4, <2>1, <2>2 DEF RunFailsToExtract, TypeOK
  <1>5. CASE RunStartsEnriching(w)
    <2>1. /\ workers[w] \in Runs /\ a \in Apps
          /\ workers[w].text \in Texts \cup {NoText} /\ workers[w].seen \in Copy
      BY <1>5, CommitType DEF RunStartsEnriching, At
    <2>2. app' \in [Apps -> Row]
      BY <1>0, <1>5, <2>1, DirtyStageType DEF RunStartsEnriching, Stages
    <2>3. /\ raw' \in [Apps -> RawText]
          /\ lock' \in [Apps -> Workers \cup {NoWorker}]
      BY <1>0, <1>5, <2>1, CommitType DEF RunStartsEnriching, At, RawText
    <2>4. [workers[w] EXCEPT !.pc = "enrich", !.seen.stage = "enriching"] \in Runs
      BY <2>1 DEF Runs, Copy, Stages
    <2>5. workers' \in [Workers -> Worker]
      BY <1>0, <1>5, <2>4, BecomesType DEF RunStartsEnriching
    <2>6. QED BY <1>5, <2>2, <2>3, <2>5 DEF RunStartsEnriching, TypeOK
  <1>6. CASE RunSkipsEnriching(w)
    <2>1. workers' \in [Workers -> Worker]
      BY <1>0, <1>6, RunGoesType DEF RunSkipsEnriching, At
    <2>2. lock' \in [Apps -> Workers \cup {NoWorker}]
      BY <1>0, <1>6 DEF RunSkipsEnriching
    <2>3. QED BY <1>6, <2>1, <2>2 DEF RunSkipsEnriching, TypeOK
  <1>7. CASE RunEnriches(w)
    <2>1. workers' \in [Workers -> Worker]
      BY <1>0, <1>7, RunGoesType DEF RunEnriches, At
    <2>2. a \in Apps
      BY <1>7, CommitType DEF RunEnriches, At
    <2>3. app' \in [Apps -> Row]
      BY <1>0, <1>7, <2>2, BundleType DEF RunEnriches
    <2>4. event' \in [Apps -> Events]
      BY <1>0, <1>7 DEF RunEnriches, Events
    <2>5. QED BY <1>7, <2>1, <2>3, <2>4 DEF RunEnriches, TypeOK
  <1>8. CASE RunFailsToScore(w)
    <2>1. /\ raw' \in [Apps -> RawText]
          /\ lock' \in [Apps -> Workers \cup {NoWorker}]
          /\ workers' \in [Workers -> Worker]
      BY <1>0, <1>8, CommitType, EndsType DEF RunFailsToScore, At
    <2>2. event' \in [Apps -> Events]
      BY <1>0, <1>8 DEF RunFailsToScore, Events
    <2>3. QED BY <1>8, <2>1, <2>2 DEF RunFailsToScore, TypeOK
  <1>9. CASE RunScores(w)
    <2>1. a \in Apps /\ workers[w].crit \in 0..MaxCriteria
      BY <1>9, CommitType DEF RunScores, At
    <2>2. /\ raw' \in [Apps -> RawText]
          /\ lock' \in [Apps -> Workers \cup {NoWorker}]
          /\ workers' \in [Workers -> Worker]
      BY <1>0, <1>9, CommitType, EndsType DEF RunScores, At
    <2>3. event' \in [Apps -> Events]
      BY <1>0, <1>9 DEF RunScores, Events
    <2>4. app' \in [Apps -> Row]
      BY <1>0, <1>9, <2>1 DEF RunScores, Row, Dirty, Stages
    <2>5. QED BY <1>9, <2>2, <2>3, <2>4 DEF RunScores, TypeOK
  <1>10. QED
    BY <1>1, <1>2, <1>3, <1>4, <1>5, <1>6, <1>7, <1>8, <1>9

-----------------------------------------------------------------------------
\* Each step of re_enrich_application keeps the types.
LEMMA ReEnrichStepType ==
    ASSUME TypeOK, NEW w \in Workers,
           \/ ReEnrichFlips(w) \/ ReEnrichLoads(w) \/ ReEnrichIsDisabled(w)
           \/ ReEnrichStarts(w) \/ ReEnrichEnds(w)
    PROVE  TypeOK'
  <1> DEFINE a == workers[w].app
  <1> USE KindsAreWorkers, ConstantsAssumption
  <1>1. /\ app \in [Apps -> Row] /\ event \in [Apps -> Events]
        /\ workers \in [Workers -> Worker]
    BY DEF TypeOK
  <1>2. workers[w].kind = "reenrich"
    BY DEF ReEnrichFlips, ReEnrichLoads, ReEnrichIsDisabled, ReEnrichStarts, ReEnrichEnds, At
  <1>3. workers[w] \in ReEnrichments
    BY <1>1, <1>2, WorkerOfKind
  <1>4. a \in Apps /\ workers[w].seen \in Copy /\ workers[w].seen.stage \in Stages
    BY <1>3 DEF ReEnrichments, Copy
  <1>5. \A pc \in {"queued", "loaded", "enrich"} :
            /\ [workers[w] EXCEPT !.pc = pc] \in Worker
            /\ \A seen \in Copy : [workers[w] EXCEPT !.pc = pc, !.seen = seen] \in Worker
    BY <1>3 DEF ReEnrichments
  <1>6. CASE ReEnrichFlips(w)
    <2>1. /\ Dirty(app[a].bundle, workers[w].seen.bundle, FALSE) \in BOOLEAN
          /\ Dirty(app[a].stage, workers[w].seen.stage, "enriching") \in Stages
      BY <1>1, <1>4 DEF Dirty, Row, Stages
    <2>2. \A b \in BOOLEAN, s \in Stages :
              [app EXCEPT ![a].bundle = b, ![a].stage = s] \in [Apps -> Row]
      BY <1>1, <1>4 DEF Row
    <2>3. app' \in [Apps -> Row]
      BY <1>6, <2>1, <2>2 DEF ReEnrichFlips
    <2>4. CopyOf(NoRow) \in Copy
      BY NoRowType, CopyType
    <2>5. workers' \in [Workers -> Worker]
      BY <1>1, <1>5, <1>6, <2>4, BecomesType DEF ReEnrichFlips
    <2>6. QED BY <1>6, <2>3, <2>5 DEF ReEnrichFlips, TypeOK
  <1>7. CASE ReEnrichLoads(w)
    <2>1. CopyOf(app[a]) \in Copy
      BY <1>1, <1>4, CopyType
    <2>2. workers' \in [Workers -> Worker]
      BY <1>1, <1>5, <1>7, <2>1, BecomesType DEF ReEnrichLoads
    <2>3. QED BY <1>7, <2>2 DEF ReEnrichLoads, TypeOK
  <1>8. CASE ReEnrichIsDisabled(w)
    <2>1. app' \in [Apps -> Row]
      BY <1>1, <1>4, <1>8, DirtyStageType DEF ReEnrichIsDisabled, Stages
    <2>2. workers' \in [Workers -> Worker]
      BY <1>1, <1>8, EndsType DEF ReEnrichIsDisabled
    <2>3. QED BY <1>8, <2>1, <2>2 DEF ReEnrichIsDisabled, TypeOK
  <1>9. CASE ReEnrichStarts(w)
    <2>1. app' \in [Apps -> Row]
      BY <1>1, <1>4, <1>9, DirtyStageType DEF ReEnrichStarts, Stages
    <2>2. workers' \in [Workers -> Worker]
      BY <1>1, <1>5, <1>9, GoesType DEF ReEnrichStarts
    <2>3. QED BY <1>9, <2>1, <2>2 DEF ReEnrichStarts, TypeOK
  <1>10. CASE ReEnrichEnds(w)
    <2>1. Dirty(app[a].stage, "enriching", ReEnrichRestored(workers[w].seen)) \in Stages
      BY <1>1, <1>4 DEF Dirty, ReEnrichRestored, Row, Stages
    <2>2. app' \in [Apps -> Row]
      BY <1>1, <1>4, <1>10, <2>1 DEF ReEnrichEnds, Row
    <2>3. event' \in [Apps -> Events]
      BY <1>1, <1>10 DEF ReEnrichEnds, Events
    <2>4. workers' \in [Workers -> Worker]
      BY <1>1, <1>10, EndsType DEF ReEnrichEnds
    <2>5. QED BY <1>10, <2>2, <2>3, <2>4 DEF ReEnrichEnds, TypeOK
  <1>11. QED
    BY <1>6, <1>7, <1>8, <1>9, <1>10

\* Rescores, tools, undos and invitations keep the types.
LEMMA OtherStepType ==
    ASSUME TypeOK, NEW w \in Workers,
           \/ RescoreLoads(w) \/ (\E a \in Apps : RescoresOne(w, a))
           \/ ToolCommits(w) \/ UndoCommits(w) \/ NotifySends(w) \/ NotifyCommits(w)
    PROVE  TypeOK'
  <1> USE KindsAreWorkers, ConstantsAssumption
  <1>1. /\ app \in [Apps -> Row] /\ event \in [Apps -> Events]
        /\ workers \in [Workers -> Worker] /\ criteria \in 1..MaxCriteria
        /\ tokens \subseteq Token /\ issued \in Nat
        /\ mails \in [Apps -> Nat] /\ receipts \in [Apps -> Nat]
    BY DEF TypeOK
  <1>2. ASSUME NEW crit \in 0..MaxCriteria, NEW todo \in SUBSET Apps,
               RescoreContinues(w, crit, todo)
        PROVE  workers' \in [Workers -> Worker]
    <2>1. [kind |-> "rescore", pc |-> "score", crit |-> crit, todo |-> todo] \in Rescores
      BY DEF Rescores
    <2>2. QED BY <1>1, <1>2, <2>1, BecomesType, EndsType DEF RescoreContinues
  <1>3. CASE RescoreLoads(w)
    <2>1. criteria \in 0..MaxCriteria /\ ToRescore \in SUBSET Apps
      BY <1>1 DEF ToRescore
    <2>2. workers' \in [Workers -> Worker]
      BY <1>2, <1>3, <2>1 DEF RescoreLoads
    <2>3. QED BY <1>3, <2>2 DEF RescoreLoads, TypeOK
  <1>4. ASSUME NEW a \in Apps, RescoresOne(w, a) PROVE TypeOK'
    <2>1. workers[w] \in Rescores
      BY <1>1, <1>4, WorkerOfKind DEF RescoresOne, At
    <2>2. workers[w].crit \in 0..MaxCriteria /\ workers[w].todo \ {a} \in SUBSET Apps
      BY <2>1 DEF Rescores
    <2>3. workers' \in [Workers -> Worker]
      BY <1>2, <1>4, <2>2 DEF RescoresOne
    <2>4. app' \in [Apps -> Row]
      BY <1>1, <1>4, <2>2 DEF RescoresOne, Row
    <2>5. event' \in [Apps -> Events]
      BY <1>1, <1>4 DEF RescoresOne, Events
    <2>6. QED BY <1>4, <2>3, <2>4, <2>5 DEF RescoresOne, TypeOK
  <1>5. CASE ToolCommits(w)
    <2>1. workers[w] \in ToolCalls
      BY <1>1, <1>5, WorkerOfKind DEF ToolCommits
    <2>2. /\ workers[w].app \in Apps /\ workers[w].seen \in Copy
          /\ workers[w].stamps \in SUBSET Decisions /\ workers[w].target \in Decisions
      BY <2>1 DEF ToolCalls, DecidableCopy
    <2>3. app' \in [Apps -> Row]
      <3> DEFINE a == workers[w].app
                 s == Dirty(app[a].stage, workers[w].seen.stage, workers[w].target)
                 stamps == app[a].stamps \cup {workers[w].target}
      <3>1. app[a] \in Row
        BY <1>1, <2>2
      <3>2. s \in Stages /\ stamps \in SUBSET Stamps
        BY <2>2, <3>1 DEF Dirty, Row, Stages, Decisions, Stamps
      <3>3. [[app[a] EXCEPT !.stage = s] EXCEPT !.stamps = stamps] \in Row
        BY <3>1, <3>2 DEF Row
      <3>4. app' = [app EXCEPT ![a] = [[app[a] EXCEPT !.stage = s] EXCEPT !.stamps = stamps]]
        BY <1>1, <1>5, <2>2 DEF ToolCommits
      <3>5. QED BY <1>1, <2>2, <3>3, <3>4
    <2>4. workers' \in [Workers -> Worker]
      BY <1>1, <1>5, EndsType DEF ToolCommits
    <2>5. workers[w].seen.stage \in UndoStages
      BY <2>1 DEF ToolCalls, DecidableCopy
    <2>6. tokens' \subseteq Token /\ issued' \in Nat
      BY <1>1, <1>5, <2>2, <2>5 DEF ToolCommits, Token
    <2>7. QED BY <1>5, <2>3, <2>4, <2>6 DEF ToolCommits, TypeOK
  <1>6. CASE UndoCommits(w)
    <2>1. workers[w] \in Undos
      BY <1>1, <1>6, WorkerOfKind DEF UndoCommits
    <2>2. workers[w].app \in Apps /\ workers[w].token \in Token
      BY <2>1 DEF Undos
    <2>3. workers[w].token.stage \in Stages
      BY <2>2 DEF Token, UndoStages, Stages
    <2>4. \A cur, seen, snapshot : UndoneStamps(cur, seen, snapshot) \in SUBSET Stamps
      BY DEF UndoneStamps
    <2>5. app' \in [Apps -> Row]
      <3> DEFINE a == workers[w].app
                 s == Dirty(app[a].stage, workers[w].seen.stage, workers[w].token.stage)
                 stamps == UndoneStamps(app[a].stamps, workers[w].stamps, workers[w].token.stamps)
      <3>1. s \in Stages /\ stamps \in SUBSET Stamps
        BY <1>1, <2>2, <2>3, <2>4 DEF Dirty, Row
      <3>2. app' = [app EXCEPT ![a].stage = s, ![a].stamps = stamps]
        BY <1>1, <1>6, <2>2 DEF UndoCommits
      <3> HIDE DEF s, stamps
      <3>3. QED BY <1>1, <2>2, <3>1, <3>2, DatedType
    <2>6. workers' \in [Workers -> Worker]
      BY <1>1, <1>6, EndsType DEF UndoCommits
    <2>7. QED BY <1>6, <2>5, <2>6 DEF UndoCommits, TypeOK
  <1>7. CASE NotifySends(w)
    <2>1. workers[w] \in Notifies
      BY <1>1, <1>7, WorkerOfKind DEF NotifySends, At
    <2>2. [workers[w] EXCEPT !.pc = "sent"] \in Worker
      BY <2>1 DEF Notifies
    <2>3. workers' \in [Workers -> Worker]
      BY <1>1, <1>7, <2>2, GoesType, EndsType DEF NotifySends
    <2>4. mails' \in [Apps -> Nat] /\ unrecorded' \in [Apps -> Nat]
      BY <1>1, <1>7 DEF NotifySends, TypeOK
    <2>5. QED BY <1>7, <2>3, <2>4 DEF NotifySends, TypeOK
  <1>8. CASE NotifyCommits(w)
    <2>1. workers[w] \in Notifies
      BY <1>1, <1>8, WorkerOfKind DEF NotifyCommits, At
    <2>2. workers[w].app \in Apps
      BY <2>1 DEF Notifies
    <2>3. app' \in [Apps -> Row]
      BY <1>1, <1>8, <2>2 DEF NotifyCommits, Row, Dirty, Stages, Late, Stamps
    <2>4. receipts' \in [Apps -> Nat]
      BY <1>1, <1>8, <2>2 DEF NotifyCommits
    <2>5. workers' \in [Workers -> Worker]
      BY <1>1, <1>8, EndsType DEF NotifyCommits
    <2>6. QED BY <1>8, <2>3, <2>4, <2>5 DEF NotifyCommits, TypeOK
  <1>9. QED
    BY <1>3, <1>4, <1>5, <1>6, <1>7, <1>8

-----------------------------------------------------------------------------
(* Coroutines that are cut short.                                           *)

\* Being between the mail and the commit, as a fact about one slot.
HasSent(rec, a) == rec.kind = "notify" /\ rec.app = a /\ rec.pc = "sent"

LEMMA SentIsFinite ==
    ASSUME NEW a \in Apps
    PROVE  /\ IsFiniteSet(Sent(a)) /\ Cardinality(Sent(a)) \in Nat
           /\ Sent(a) = {w \in Workers : HasSent(workers[w], a)}
  <1>1. Sent(a) \subseteq Workers
    BY DEF Sent, InFlight
  <1>2. QED
    BY <1>1, ConstantsAssumption, FS_Subset, FS_CardinalityType DEF Sent, InFlight, HasSent

\* Those cut are idle, the others as they were, and nothing changes its type.
LEMMA CutType ==
    ASSUME TypeOK, NEW ws \in SUBSET Workers, Cut(ws)
    PROVE  /\ workers' \in [Workers -> Worker]
           /\ \A w \in ws : workers'[w] = Idle
           /\ \A w \in Workers \ ws : workers'[w] = workers[w]
           /\ lock' \in [Apps -> Workers \cup {NoWorker}]
           /\ lost' \subseteq Apps
           /\ unrecorded' \in [Apps -> Nat]
  <1>1. \A a \in Apps : Cardinality(Sent(a) \cap ws) \in Nat
    BY SentIsFinite, FS_Intersection, FS_CardinalityType
  <1>2. unrecorded' \in [Apps -> Nat]
    BY <1>1 DEF Cut, TypeOK
  <1>3. QED BY <1>2, KindsAreWorkers DEF Cut, TypeOK

\* A coroutine that breaks and a restart are cuts.
LEMMA CutsAreCuts ==
    ASSUME Crash \/ \E w \in Workers : Breaks(w)
    PROVE  /\ \E ws \in SUBSET Workers : Cut(ws)
           /\ UNCHANGED <<app, raw, event, criteria, issued, mails, receipts>>
  BY DEF Crash, Breaks

LEMMA NextType == TypeOK /\ [Next]_vars => TypeOK'
  <1> SUFFICES ASSUME TypeOK, [Next]_vars PROVE TypeOK'
    OBVIOUS
  <1>1. ASSUME NEW w \in Workers, Step(w) PROVE TypeOK'
    BY <1>1, RunStepType, ReEnrichStepType, OtherStepType DEF Step
  <1>2. ASSUME NEW a \in Apps, NEW target \in PatchTargets, PatchStage(a, target)
        PROVE  TypeOK'
    <2>1. Patched(app[a], target) \in Row
      BY PatchedType DEF TypeOK
    <2>2. app' \in [Apps -> Row]
      BY <1>2, <2>1 DEF PatchStage, TypeOK
    <2>3. QED BY <1>2, <2>2 DEF PatchStage, TypeOK
  <1>3. ASSUME NEW t \in tokens, TokenExpires(t) PROVE TypeOK'
    BY <1>3 DEF TokenExpires, TypeOK
  <1>4. CASE Crash \/ \E w \in Workers : Breaks(w)
    <2>1. PICK ws \in SUBSET Workers : Cut(ws)
      BY <1>4, CutsAreCuts
    <2>2. UNCHANGED <<app, raw, event, criteria, issued, mails, receipts>>
      BY <1>4, CutsAreCuts
    <2>3. tokens' \subseteq Token /\ crashes' \in 0..MaxCrashes
      <3>1. CASE Crash
        <4>1. tokens' \subseteq Token
          BY <3>1 DEF Crash, TypeOK
        <4>2. crashes \in 0..MaxCrashes /\ crashes < MaxCrashes /\ crashes' = crashes + 1
          BY <3>1 DEF Crash, TypeOK
        <4>3. QED BY <4>1, <4>2, ConstantsAssumption
      <3>2. CASE \E w \in Workers : Breaks(w)
        BY <3>2 DEF Breaks, TypeOK
      <3>3. QED BY <1>4, <3>1, <3>2
    <2>4. QED BY <2>1, <2>2, <2>3, CutType DEF TypeOK
  <1>5. CASE UNCHANGED vars
    BY <1>5 DEF vars, TypeOK
  <1>6. QED
    BY <1>1, <1>2, <1>3, <1>4, <1>5, RequestType DEF Next

\* Every row, copy, token and coroutine stays in its type whatever the
\* coroutines, requests and restarts do to each other.
THEOREM TypeCorrect == Spec => []TypeOK
  BY InitType, NextType, PTL DEF Spec

-----------------------------------------------------------------------------
(* Safety of the stages.  LateStagesWereInvited and TrailIsComplete are     *)
(* not inductive alone: a re-enrichment remembers the stage it found and    *)
(* writes it back when it fails, and notify_endpoint writes INVITED after   *)
(* the mail.  What those two coroutines hold must be justified by the row   *)
(* at every moment between their read and their commit.                     *)

\* What a coroutine remembers is still true of the row's history: the stage a
\* re-enrichment may restore, the mail a commit of INVITED stands for.
Justified(rec) ==
    /\ rec.kind = "reenrich" /\ rec.seen.stage \in Late =>
            DatedBy(rec.seen.stage) \in app[rec.app].stamps /\ mails[rec.app] > 0
    /\ rec.kind = "notify" /\ rec.pc = "sent" => mails[rec.app] > 0

CoroutinesAreJustified == \A w \in Workers : Justified(workers[w])

StageInv == LateStagesWereInvited /\ TrailIsComplete /\ CoroutinesAreJustified

\* No mail is unsent and no timestamp of a late stage is erased, but for the one
\* that goes when a round is reopened.
HistoryGrows ==
    \A a \in Apps : /\ mails'[a] >= mails[a]
                    /\ \A s \in Late \ {"interviewed"} :
                            s \in app[a].stamps => s \in app'[a].stamps

\* A step that neither enters a late stage nor stamps one.
Quiet ==
    \A a \in Apps : /\ app'[a].stage \in Late => app'[a].stage = app[a].stage
                    /\ \A s \in Late : s \in app'[a].stamps <=> s \in app[a].stamps
                    /\ mails'[a] >= mails[a]

LEMMA QuietKeepsRows ==
    ASSUME TypeOK, TypeOK', LateStagesWereInvited, TrailIsComplete, Quiet
    PROVE  LateStagesWereInvited' /\ TrailIsComplete' /\ HistoryGrows
  <1>1. mails \in [Apps -> Nat] /\ mails' \in [Apps -> Nat]
    BY DEF TypeOK
  <1>2. LateStagesWereInvited'
    BY <1>1 DEF LateStagesWereInvited, Quiet
  <1>3. TrailIsComplete'
    BY DEF TrailIsComplete, Quiet, Late, DatedBy
  <1>4. HistoryGrows
    BY DEF HistoryGrows, Quiet
  <1>5. QED BY <1>2, <1>3, <1>4

\* The kinds of worker records, as far as Justified looks at them.
LEMMA JustifiedApp ==
    ASSUME TypeOK, NEW w \in Workers
    PROVE  /\ workers[w].kind = "reenrich" => workers[w].app \in Apps
           /\ workers[w].kind = "notify" => workers[w].app \in Apps
  BY WorkerOfKind DEF TypeOK, ReEnrichments, Notifies

\* While history only grows, a coroutine that did not move stays justified.
LEMMA JustifiedStays ==
    ASSUME TypeOK, TypeOK', HistoryGrows, CoroutinesAreJustified,
           NEW v \in Workers, workers'[v] = workers[v]
    PROVE  Justified(workers[v])'
  <1>1. mails \in [Apps -> Nat] /\ mails' \in [Apps -> Nat]
    BY DEF TypeOK
  <1>2. Justified(workers[v])
    BY DEF CoroutinesAreJustified
  <1>3. QED
    BY <1>1, <1>2, JustifiedApp DEF Justified, HistoryGrows, DatedBy, Late

\* So only the coroutine that moved has to be looked at.
LEMMA JustifiedStep ==
    ASSUME TypeOK, TypeOK', HistoryGrows, CoroutinesAreJustified, NEW w \in Workers,
           \A v \in Workers \ {w} : workers'[v] = workers[v],
           Justified(workers[w])'
    PROVE  CoroutinesAreJustified'
  BY JustifiedStays DEF CoroutinesAreJustified

LEMMA StageInvInit == Init => StageInv
  BY DEF Init, StageInv, LateStagesWereInvited, TrailIsComplete, CoroutinesAreJustified,
         Justified, NoRow, Late, Idle

\* Starting a coroutine: a re-enrichment copies the row it may restore.
LEMMA RequestStageInv ==
    ASSUME TypeOK, TypeOK', StageInv, NEW w \in Workers, Request(w)
    PROVE  StageInv'
  <1>1. app \in [Apps -> Row] /\ mails \in [Apps -> Nat] /\ workers \in [Workers -> Worker]
    BY DEF TypeOK
  <1>2. Quiet
    <2>1. ASSUME NEW a \in Apps, AddCandidate(w, a) \/ AddLinkedInCandidate(w, a)
          PROVE  Quiet
      <3>1. PICK l \in BOOLEAN :
                app' = [app EXCEPT ![a].stage = "extracting", ![a].linkedin = l]
        BY <2>1, NewRow
      <3>2. UNCHANGED mails
        BY <2>1 DEF AddCandidate, AddLinkedInCandidate
      <3>3. QED BY <1>1, <3>1, <3>2 DEF Quiet, Late, Row
    <2>2. CASE UNCHANGED <<app, mails>>
      BY <1>1, <2>2 DEF Quiet
    <2>3. QED
      BY <2>1, <2>2 DEF Request, Retry, Paste, ReEnrichReads, ToolReads, NotifyReads,
             UpdateCriteria, UndoConsumes
  <1>3. \A v \in Workers \ {w} : workers'[v] = workers[v]
    BY <1>1 DEF Request, AddCandidate, AddLinkedInCandidate, Retry, Paste, ReEnrichReads,
           ToolReads, NotifyReads, UpdateCriteria, UndoConsumes, Becomes
  <1>4. Justified(workers[w])'
    <2>1. ASSUME NEW a \in Apps, ReEnrichReads(w, a)
          PROVE  Justified(workers[w])'
      BY <1>1, <2>1 DEF ReEnrichReads, Becomes, Justified, CopyOf, StageInv,
             LateStagesWereInvited, TrailIsComplete
    <2>2. ASSUME NEW a \in Apps,
                 \/ AddCandidate(w, a) \/ AddLinkedInCandidate(w, a) \/ Retry(w, a)
                 \/ Paste(w, a) \/ ToolReads(w, a) \/ NotifyReads(w, a)
          PROVE  Justified(workers[w])'
      BY <1>1, <2>2 DEF AddCandidate, AddLinkedInCandidate, Retry, Paste, ToolReads,
             NotifyReads, Becomes, Run, Justified
    <2>3. ASSUME UpdateCriteria(w) \/ \E t \in tokens : UndoConsumes(w, t)
          PROVE  Justified(workers[w])'
      BY <1>1, <2>3 DEF UpdateCriteria, UndoConsumes, IsIdle, Idle, Becomes, Justified
    <2>4. QED BY <2>1, <2>2, <2>3 DEF Request
  <1>5. QED
    BY <1>2, <1>3, <1>4, QuietKeepsRows, JustifiedStep DEF StageInv

\* Writing one row's stage, stamps and other columns: the step is quiet if the
\* stage it leaves is the one before or none of the late ones.
LEMMA QuietWrite ==
    ASSUME app \in [Apps -> Row], NEW a \in Apps, mails \in [Apps -> Nat],
           app' \in [Apps -> Row], mails' = mails,
           \A b \in Apps \ {a} : app'[b] = app[b],
           app'[a].stage = app[a].stage \/ app'[a].stage \notin Late,
           \A s \in Late : s \in app'[a].stamps <=> s \in app[a].stamps
    PROVE  Quiet
  BY DEF Quiet

\* The steps of a run: it writes ENRICHING and SCORED only.
LEMMA RunStageInv ==
    ASSUME TypeOK, TypeOK', StageInv, NEW w \in Workers,
           \/ GitHubAnswers(w) \/ RunLoads(w) \/ RunFlushes(w) \/ RunFailsToExtract(w)
           \/ RunStartsEnriching(w) \/ RunSkipsEnriching(w) \/ RunEnriches(w)
           \/ RunFailsToScore(w) \/ RunScores(w)
    PROVE  StageInv'
  <1> DEFINE a == workers[w].app
  <1>1. /\ app \in [Apps -> Row] /\ app' \in [Apps -> Row]
        /\ mails \in [Apps -> Nat] /\ workers \in [Workers -> Worker]
    BY DEF TypeOK
  <1>2. mails' = mails
    BY DEF GitHubAnswers, RunLoads, RunFlushes, RunFailsToExtract, RunStartsEnriching,
           RunSkipsEnriching, RunEnriches, RunFailsToScore, RunScores
  <1>3. Quiet
    <2>1. CASE RunStartsEnriching(w)
      <3>1. a \in Apps
        BY <2>1, CommitType DEF RunStartsEnriching, At
      <3>2. app' = [app EXCEPT ![a].stage = Dirty(@, workers[w].seen.stage, "enriching")]
        BY <2>1 DEF RunStartsEnriching, DirtyStage
      <3>3. QED BY <1>1, <1>2, <3>1, <3>2, QuietWrite DEF Dirty, Late, Row
    <2>2. CASE RunEnriches(w)
      <3>1. a \in Apps
        BY <2>2, CommitType DEF RunEnriches, At
      <3>2. app' = [app EXCEPT ![a].bundle = TRUE] \/ app' = app
        BY <2>2 DEF RunEnriches
      <3>3. QED BY <1>1, <1>2, <3>1, <3>2, QuietWrite DEF Row
    <2>3. CASE RunScores(w)
      <3>1. a \in Apps
        BY <2>3, CommitType DEF RunScores, At
      <3>2. app' = [app EXCEPT ![a].score = workers[w].crit,
                               ![a].stage = Dirty(@, workers[w].seen.stage, "scored")]
        BY <2>3 DEF RunScores
      <3>3. QED BY <1>1, <1>2, <3>1, <3>2, QuietWrite DEF Dirty, Late, Row
    <2>4. CASE UNCHANGED app
      BY <1>1, <1>2, <2>4 DEF Quiet
    <2>5. QED
      BY <2>1, <2>2, <2>3, <2>4
         DEF GitHubAnswers, RunLoads, RunFlushes, RunFailsToExtract, RunSkipsEnriching,
             RunFailsToScore
  <1>4. \A v \in Workers \ {w} : workers'[v] = workers[v]
    BY <1>1 DEF GitHubAnswers, RunLoads, RunFlushes, RunFailsToExtract, RunStartsEnriching,
           RunSkipsEnriching, RunEnriches, RunFailsToScore, RunScores, Becomes, Goes, Ends
  <1>5. workers'[w].kind \in {"process", "idle"}
    <2>1. CASE GitHubAnswers(w)
      BY <1>1, <2>1 DEF GitHubAnswers, Becomes, Ends, Run, Idle
    <2>2. CASE RunFailsToExtract(w) \/ RunFailsToScore(w) \/ RunScores(w)
      <3>1. Ends(w)
        BY <2>2 DEF RunFailsToExtract, RunFailsToScore, RunScores
      <3>2. QED BY <1>1, <3>1 DEF Becomes, Ends, Idle
    <2>3. CASE RunFlushes(w) \/ RunSkipsEnriching(w) \/ RunEnriches(w)
      <3>1. workers[w] \in Runs
        BY <2>3, CommitType DEF RunFlushes, RunSkipsEnriching, RunEnriches, At
      <3>2. \E pc : workers' = [workers EXCEPT ![w].pc = pc]
        BY <2>3 DEF RunFlushes, RunSkipsEnriching, RunEnriches, Goes
      <3>3. QED BY <1>1, <3>1, <3>2 DEF Runs
    <2>4. CASE RunLoads(w) \/ RunStartsEnriching(w)
      <3>1. workers[w] \in Runs
        BY <2>4, CommitType DEF RunLoads, RunStartsEnriching, At
      <3>2. \A pc, seen, crit :
                [workers[w] EXCEPT !.pc = pc, !.seen = seen, !.crit = crit].kind = "process"
        BY <3>1 DEF Runs
      <3>3. \A pc, stage :
                [workers[w] EXCEPT !.pc = pc, !.seen.stage = stage].kind = "process"
        BY <3>1 DEF Runs
      <3>4. CASE RunLoads(w)
        BY <1>1, <3>2, <3>4 DEF RunLoads, Becomes
      <3>5. CASE RunStartsEnriching(w)
        BY <1>1, <3>3, <3>5 DEF RunStartsEnriching, Becomes
      <3>6. QED BY <2>4, <3>4, <3>5
    <2>5. QED BY <2>1, <2>2, <2>3, <2>4
  <1>6. Justified(workers[w])'
    BY <1>5 DEF Justified
  <1>7. QED
    BY <1>3, <1>4, <1>6, QuietKeepsRows, JustifiedStep DEF StageInv

\* The steps of a re-enrichment: the stage it restores was reached before.
LEMMA ReEnrichStageInv ==
    ASSUME TypeOK, TypeOK', StageInv, NEW w \in Workers,
           \/ ReEnrichFlips(w) \/ ReEnrichLoads(w) \/ ReEnrichIsDisabled(w)
           \/ ReEnrichStarts(w) \/ ReEnrichEnds(w)
    PROVE  StageInv'
  <1> DEFINE a == workers[w].app
  <1> DEFINE seen == workers[w].seen
  <1>1. /\ app \in [Apps -> Row] /\ app' \in [Apps -> Row]
        /\ mails \in [Apps -> Nat] /\ workers \in [Workers -> Worker]
    BY DEF TypeOK
  <1>2. mails' = mails
    BY DEF ReEnrichFlips, ReEnrichLoads, ReEnrichIsDisabled, ReEnrichStarts, ReEnrichEnds
  <1>3. workers[w].kind = "reenrich"
    BY DEF ReEnrichFlips, ReEnrichLoads, ReEnrichIsDisabled, ReEnrichStarts, ReEnrichEnds, At
  <1>4. workers[w] \in ReEnrichments
    BY <1>1, <1>3, WorkerOfKind
  <1>5. a \in Apps
    BY <1>4 DEF ReEnrichments
  <1>6. seen.stage \in Late => DatedBy(seen.stage) \in app[a].stamps /\ mails[a] > 0
    BY <1>3 DEF StageInv, CoroutinesAreJustified, Justified
  <1>7. \A v \in Workers \ {w} : workers'[v] = workers[v]
    BY <1>1 DEF ReEnrichFlips, ReEnrichLoads, ReEnrichIsDisabled, ReEnrichStarts,
           ReEnrichEnds, Becomes, Goes, Ends
  <1>8. CASE ReEnrichFlips(w)
    <2>1. app' = [app EXCEPT ![a].bundle = Dirty(@, seen.bundle, FALSE),
                             ![a].stage = Dirty(@, seen.stage, "enriching")]
      BY <1>8 DEF ReEnrichFlips
    <2>2. Quiet
      BY <1>1, <1>2, <1>5, <2>1, QuietWrite DEF Dirty, Late, Row
    <2>3. workers'[w] = [workers[w] EXCEPT !.pc = "queued", !.seen = CopyOf(NoRow)]
      BY <1>1, <1>8 DEF ReEnrichFlips, Becomes
    <2>4. workers'[w].kind = "reenrich" /\ workers'[w].seen.stage \notin Late
      BY <1>4, <2>3 DEF ReEnrichments, CopyOf, NoRow, Late
    <2>5. Justified(workers[w])'
      BY <2>4 DEF Justified
    <2>6. QED BY <1>7, <2>2, <2>5, QuietKeepsRows, JustifiedStep DEF StageInv
  <1>9. CASE ReEnrichLoads(w)
    <2>1. Quiet /\ app' = app
      BY <1>1, <1>9 DEF ReEnrichLoads, Quiet
    <2>2. workers'[w] = [workers[w] EXCEPT !.pc = "loaded", !.seen = CopyOf(app[a])]
      BY <1>1, <1>9 DEF ReEnrichLoads, Becomes
    <2>3. /\ workers'[w].kind = "reenrich" /\ workers'[w].app = a
          /\ workers'[w].seen.stage = app[a].stage
      BY <1>4, <2>2 DEF ReEnrichments, CopyOf
    <2>4. Justified(workers[w])'
      BY <1>2, <1>5, <2>1, <2>3 DEF Justified, StageInv, LateStagesWereInvited, TrailIsComplete
    <2>5. QED BY <1>7, <2>1, <2>4, QuietKeepsRows, JustifiedStep DEF StageInv
  <1>10. CASE ReEnrichIsDisabled(w)
    <2>1. app' = [app EXCEPT ![a].stage =
                     Dirty(@, seen.stage, IF seen.stage = "enriching" THEN "scored" ELSE seen.stage)]
      BY <1>10 DEF ReEnrichIsDisabled, DirtyStage
    <2>2. Quiet
      BY <1>1, <1>2, <1>5, <2>1, QuietWrite DEF Dirty, Late, Row
    <2>3. Justified(workers[w])'
      BY <1>1, <1>10 DEF ReEnrichIsDisabled, Ends, Becomes, Justified, Idle
    <2>4. QED BY <1>7, <2>2, <2>3, QuietKeepsRows, JustifiedStep DEF StageInv
  <1>11. CASE ReEnrichStarts(w)
    <2>1. app' = [app EXCEPT ![a].stage = Dirty(@, seen.stage, "enriching")]
      BY <1>11 DEF ReEnrichStarts, DirtyStage
    <2>2. Quiet
      BY <1>1, <1>2, <1>5, <2>1, QuietWrite DEF Dirty, Late, Row
    <2>3. workers'[w] = [workers[w] EXCEPT !.pc = "enrich"]
      BY <1>1, <1>11 DEF ReEnrichStarts, Goes
    <2>4. workers'[w].kind = "reenrich" /\ workers'[w].app = a /\ workers'[w].seen = seen
      BY <1>4, <2>3 DEF ReEnrichments
    <2>5. HistoryGrows
      BY <2>2, QuietKeepsRows DEF StageInv
    <2>6. Justified(workers[w])'
      BY <1>2, <1>5, <1>6, <2>4, <2>5 DEF Justified, HistoryGrows, DatedBy, Late
    <2>7. QED BY <1>7, <2>2, <2>6, QuietKeepsRows, JustifiedStep DEF StageInv
  <1>12. CASE ReEnrichEnds(w)
    <2> DEFINE restored == Dirty(app[a].stage, "enriching", ReEnrichRestored(seen))
    <2>1. /\ app'[a].stage = restored /\ app'[a].stamps = app[a].stamps
          /\ \A b \in Apps \ {a} : app'[b] = app[b]
      BY <1>1, <1>5, <1>12 DEF ReEnrichEnds, Row
    <2>2. restored \in Late => DatedBy(restored) \in app[a].stamps /\ mails[a] > 0
      BY <1>5, <1>6 DEF Dirty, ReEnrichRestored, Late, StageInv, LateStagesWereInvited,
             TrailIsComplete
    <2>3. LateStagesWereInvited'
      BY <1>2, <2>1, <2>2 DEF StageInv, LateStagesWereInvited
    <2>4. TrailIsComplete'
      BY <2>1, <2>2 DEF StageInv, TrailIsComplete
    <2>5. HistoryGrows
      BY <1>1, <1>2, <2>1 DEF HistoryGrows
    <2>6. Justified(workers[w])'
      BY <1>1, <1>12 DEF ReEnrichEnds, Ends, Becomes, Justified, Idle
    <2>7. QED BY <1>7, <2>3, <2>4, <2>5, <2>6, JustifiedStep DEF StageInv
  <1>13. QED
    BY <1>8, <1>9, <1>10, <1>11, <1>12

\* Rescores touch no stage, tools and undos none of the late ones; the commit
\* of INVITED follows its mail.
LEMMA OtherStageInv ==
    ASSUME TypeOK, TypeOK', StageInv, NEW w \in Workers,
           \/ RescoreLoads(w) \/ (\E a \in Apps : RescoresOne(w, a))
           \/ ToolCommits(w) \/ UndoCommits(w) \/ NotifySends(w) \/ NotifyCommits(w)
    PROVE  StageInv'
  <1> DEFINE a == workers[w].app
  <1>1. /\ app \in [Apps -> Row] /\ app' \in [Apps -> Row]
        /\ mails \in [Apps -> Nat] /\ workers \in [Workers -> Worker]
    BY DEF TypeOK
  <1>2. \A v \in Workers \ {w} : workers'[v] = workers[v]
    BY <1>1 DEF RescoreLoads, RescoresOne, RescoreContinues, ToolCommits, UndoCommits,
           NotifySends, NotifyCommits, Becomes, Goes, Ends
  <1>3. Ends(w) => Justified(workers[w])'
    BY <1>1 DEF Ends, Becomes, Justified, Idle
  <1>4. CASE RescoreLoads(w)
    <2>1. Quiet
      BY <1>1, <1>4 DEF RescoreLoads, Quiet
    <2>2. Justified(workers[w])'
      BY <1>1, <1>3, <1>4 DEF RescoreLoads, RescoreContinues, Becomes, Justified
    <2>3. QED BY <1>2, <2>1, <2>2, QuietKeepsRows, JustifiedStep DEF StageInv
  <1>5. ASSUME NEW b \in Apps, RescoresOne(w, b) PROVE StageInv'
    <2>1. /\ app' = [app EXCEPT ![b].score = workers[w].crit] \/ app' = app
          /\ mails' = mails
      BY <1>5 DEF RescoresOne
    <2>2. Quiet
      <3>1. CASE app' = [app EXCEPT ![b].score = workers[w].crit]
        <4>1. /\ app'[b].stage = app[b].stage /\ app'[b].stamps = app[b].stamps
              /\ \A c \in Apps \ {b} : app'[c] = app[c]
          BY <1>1, <3>1 DEF Row
        <4>2. QED BY <1>1, <2>1, <4>1, QuietWrite
      <3>2. CASE app' = app
        BY <1>1, <2>1, <3>2, QuietWrite
      <3>3. QED BY <2>1, <3>1, <3>2
    <2>3. Justified(workers[w])'
      BY <1>1, <1>3, <1>5 DEF RescoresOne, RescoreContinues, Becomes, Justified
    <2>4. QED BY <1>2, <2>2, <2>3, QuietKeepsRows, JustifiedStep DEF StageInv
  <1>6. CASE ToolCommits(w)
    <2>1. workers[w] \in ToolCalls
      BY <1>1, <1>6, WorkerOfKind DEF ToolCommits
    <2>2. a \in Apps /\ workers[w].target \in Decisions
      BY <2>1 DEF ToolCalls
    <2>3. /\ app' = [app EXCEPT ![a].stage = Dirty(@, workers[w].seen.stage, workers[w].target),
                                ![a].stamps = @ \cup {workers[w].target}]
          /\ mails' = mails
      BY <1>6 DEF ToolCommits
    <2>4. Quiet
      BY <1>1, <2>2, <2>3, QuietWrite DEF Dirty, Decisions, Late, Row
    <2>5. Justified(workers[w])'
      BY <1>3, <1>6 DEF ToolCommits
    <2>6. QED BY <1>2, <2>4, <2>5, QuietKeepsRows, JustifiedStep DEF StageInv
  <1>7. CASE UndoCommits(w)
    <2> DEFINE t == workers[w].token
    <2>1. workers[w] \in Undos
      BY <1>1, <1>7, WorkerOfKind DEF UndoCommits
    <2>2. a \in Apps /\ t.stage \in UndoStages
      BY <2>1 DEF Undos, Token
    <2>3. /\ app' = [app EXCEPT ![a].stage = Dirty(@, workers[w].seen.stage, t.stage),
                                ![a].stamps = UndoneStamps(@, workers[w].stamps, t.stamps)]
          /\ mails' = mails
      BY <1>7 DEF UndoCommits
    <2>4. \A s \in Late : s \in UndoneStamps(app[a].stamps, workers[w].stamps, t.stamps)
                            <=> s \in app[a].stamps
      BY <1>1, <2>2 DEF UndoneStamps, Stamps, Decisions, Late
    <2>5. /\ app'[a].stage \in {app[a].stage, t.stage}
          /\ app'[a].stamps = UndoneStamps(app[a].stamps, workers[w].stamps, t.stamps)
          /\ \A b \in Apps \ {a} : app'[b] = app[b]
      BY <1>1, <2>2, <2>3 DEF Dirty, Row
    <2>6. Quiet
      <3>1. t.stage \notin Late
        BY <2>2 DEF UndoStages, Late
      <3>2. \A s \in Late : s \in app'[a].stamps <=> s \in app[a].stamps
        BY <2>4, <2>5
      <3>3. app'[a].stage = app[a].stage \/ app'[a].stage \notin Late
        BY <2>5, <3>1
      <3>4. QED BY <1>1, <2>2, <2>3, <2>5, <3>2, <3>3, QuietWrite
    <2>7. Justified(workers[w])'
      BY <1>3, <1>7 DEF UndoCommits
    <2>8. QED BY <1>2, <2>6, <2>7, QuietKeepsRows, JustifiedStep DEF StageInv
  <1>8. CASE NotifySends(w)
    <2>1. workers[w] \in Notifies /\ a \in Apps
      BY <1>1, <1>8, WorkerOfKind DEF NotifySends, At, Notifies
    <2>2. app' = app /\ \A b \in Apps : mails'[b] >= mails[b]
      BY <1>1, <1>8, <2>1 DEF NotifySends
    <2>3. Quiet
      BY <2>2 DEF Quiet
    <2>4. ASSUME mails' = [mails EXCEPT ![a] = @ + 1], Goes(w, "sent")
          PROVE  Justified(workers[w])'
      <3>1. workers'[w].kind = "notify" /\ workers'[w].app = a
        BY <1>1, <2>1, <2>4 DEF Goes, Notifies
      <3>2. mails'[a] > 0
        BY <1>1, <2>1, <2>4
      <3>3. QED BY <3>1, <3>2 DEF Justified
    <2>5. Justified(workers[w])'
      BY <1>3, <1>8, <2>4 DEF NotifySends
    <2>6. QED BY <1>2, <2>3, <2>5, QuietKeepsRows, JustifiedStep DEF StageInv
  <1>9. CASE NotifyCommits(w)
    <2>1. workers[w] \in Notifies /\ a \in Apps
      BY <1>1, <1>9, WorkerOfKind DEF NotifyCommits, At, Notifies
    <2>2. mails[a] > 0
      BY <1>9 DEF NotifyCommits, At, StageInv, CoroutinesAreJustified, Justified
    <2>3. /\ app'[a].stage = app[a].stage \/ app'[a].stage = "invited"
          /\ app'[a].stamps = app[a].stamps \cup {"invited"}
          /\ \A b \in Apps \ {a} : app'[b] = app[b]
          /\ mails' = mails
      BY <1>1, <1>9, <2>1 DEF NotifyCommits, Dirty, Row
    <2>4. LateStagesWereInvited'
      BY <2>2, <2>3 DEF StageInv, LateStagesWereInvited
    <2>5. TrailIsComplete'
      BY <2>3 DEF StageInv, TrailIsComplete, DatedBy
    <2>6. HistoryGrows
      BY <1>1, <2>3 DEF HistoryGrows
    <2>7. Justified(workers[w])'
      BY <1>3, <1>9 DEF NotifyCommits
    <2>8. QED BY <1>2, <2>4, <2>5, <2>6, <2>7, JustifiedStep DEF StageInv
  <1>10. QED
    BY <1>4, <1>5, <1>6, <1>7, <1>8, <1>9

\* The transition table reads backwards as it does forwards.
LEMMA PredecessorIsBefore ==
    /\ \A t \in HasPredecessor : /\ RequiredPredecessor(t) \in HasForwardStage
                                 /\ ForwardStageAfter(RequiredPredecessor(t)) = t
    /\ \A t \in PatchTargets \cap Late : t \in HasPredecessor
  <1>1. \A t \in HasPredecessor : \E s \in HasForwardStage : ForwardStageAfter(s) = t
    BY DEF HasPredecessor, HasForwardStage, ForwardStageAfter
  <1>2. \A t \in HasPredecessor : /\ RequiredPredecessor(t) \in HasForwardStage
                                  /\ ForwardStageAfter(RequiredPredecessor(t)) = t
    BY <1>1 DEF RequiredPredecessor
  <1>3. QED BY <1>2 DEF HasPredecessor, PatchTargets, Late

\* PATCH enters a late stage from its predecessor only, which was invited and
\* has its timestamps.
LEMMA PatchStageInv ==
    ASSUME TypeOK, TypeOK', StageInv, NEW a \in Apps, NEW target \in PatchTargets,
           PatchStage(a, target)
    PROVE  StageInv'
  <1>1. /\ app \in [Apps -> Row] /\ app' \in [Apps -> Row] /\ mails \in [Apps -> Nat]
    BY DEF TypeOK
  <1>2. /\ ValidTransition(app[a].stage, target)
        /\ mails' = mails /\ workers' = workers
    BY DEF PatchStage
  <1>3. app' = [app EXCEPT ![a] = Patched(@, target)]
    BY DEF PatchStage
  <1>4. /\ app'[a].stage = target
        /\ \A b \in Apps \ {a} : app'[b] = app[b]
        /\ \A s \in Late \ {"interviewed"} :
                s \in app'[a].stamps <=> s \in app[a].stamps \/ s = target
        /\ "interviewed" \in app'[a].stamps =>
                "interviewed" \in app[a].stamps \/ target = "interviewed"
    BY <1>1, <1>3 DEF Patched, Reopened, Row, Decisions, Late
  <1>5. target \in Late =>
            /\ app[a].stage \in Late
            /\ target = "scheduled" => app[a].stage \in {"invited", "interviewed"}
            /\ target = "interviewed" => app[a].stage = "scheduled"
            /\ target = "offer" => app[a].stage = "interviewed"
            /\ target = "hired" => app[a].stage = "offer"
            /\ target # "invited"
    <2>1. \A s \in HasForwardStage :
            /\ ForwardStageAfter(s) = "scheduled" => s = "invited"
            /\ ForwardStageAfter(s) = "interviewed" => s = "scheduled"
            /\ ForwardStageAfter(s) = "offer" => s = "interviewed"
            /\ ForwardStageAfter(s) = "hired" => s = "offer"
      BY DEF ForwardStageAfter, HasForwardStage
    <2>2. QED BY <1>2, <2>1, PredecessorIsBefore DEF ValidTransition, Late, HasPredecessor
  <1>6. LateStagesWereInvited'
    BY <1>2, <1>4, <1>5 DEF StageInv, LateStagesWereInvited
  <1>7. TrailIsComplete'
    <2>1. ASSUME NEW b \in Apps \ {a}
          PROVE  app'[b] = app[b]
      BY <1>4
    <2>2. app[a].stage \in Late => DatedBy(app[a].stage) \in app[a].stamps
      BY DEF StageInv, TrailIsComplete
    <2>3. QED BY <1>4, <1>5, <2>2 DEF StageInv, TrailIsComplete, Late, DatedBy
  <1>8. HistoryGrows
    BY <1>1, <1>2, <1>4 DEF HistoryGrows
  <1>9. CoroutinesAreJustified'
    <2>1. ASSUME NEW v \in Workers PROVE Justified(workers[v])'
      BY <1>2, <1>8, JustifiedStays DEF StageInv
    <2>2. QED BY <2>1 DEF CoroutinesAreJustified
  <1>10. QED BY <1>6, <1>7, <1>9 DEF StageInv

LEMMA StageInvNext == TypeOK /\ TypeOK' /\ StageInv /\ [Next]_vars => StageInv'
  <1> SUFFICES ASSUME TypeOK, TypeOK', StageInv, [Next]_vars PROVE StageInv'
    OBVIOUS
  <1>1. ASSUME NEW w \in Workers, Step(w) PROVE StageInv'
    BY <1>1, RunStageInv, ReEnrichStageInv, OtherStageInv DEF Step
  <1>2. ASSUME app' = app, mails' = mails, workers' = workers PROVE StageInv'
    BY <1>2 DEF StageInv, LateStagesWereInvited, TrailIsComplete, CoroutinesAreJustified,
           Justified
  <1>3. ASSUME NEW t \in tokens, TokenExpires(t) PROVE StageInv'
    BY <1>2, <1>3 DEF TokenExpires
  <1>4. CASE Crash \/ \E w \in Workers : Breaks(w)
    <2>1. /\ app' = app /\ mails' = mails
          /\ \A w \in Workers : workers'[w] \in {Idle, workers[w]}
      BY <1>4, CutsAreCuts, CutType
    <2>2. QED
      BY <2>1 DEF StageInv, LateStagesWereInvited, TrailIsComplete, CoroutinesAreJustified,
             Justified, Idle
  <1>5. CASE UNCHANGED vars
    BY <1>2, <1>5 DEF vars
  <1>6. QED
    BY <1>1, <1>3, <1>4, <1>5, RequestStageInv, PatchStageInv DEF Next

\* No stale commit of a run, a tool, an undo or a re-enrichment brings an
\* application into a stage past the invitation without an invitation mail.
THEOREM InvitedBeforeLate == Spec => []LateStagesWereInvited
  <1>1. TypeOK /\ StageInv /\ [Next]_vars => TypeOK' /\ StageInv'
    BY NextType, StageInvNext
  <1>2. StageInv => LateStagesWereInvited
    BY DEF StageInv
  <1>3. QED BY <1>1, <1>2, InitType, StageInvInit, PTL DEF Spec

\* The timestamps of every application tell the whole way to its late stage.
THEOREM CompleteTrail == Spec => []TrailIsComplete
  <1>1. TypeOK /\ StageInv /\ [Next]_vars => TypeOK' /\ StageInv'
    BY NextType, StageInvNext
  <1>2. StageInv => TrailIsComplete
    BY DEF StageInv
  <1>3. QED BY <1>1, <1>2, InitType, StageInvInit, PTL DEF Spec

-----------------------------------------------------------------------------
(* The candidates row lock.  LockIsHeldByARun is inductive.                 *)

\* A coroutine that is not inside a run's locked section holds no lock, so
\* whatever it becomes, the lock is still held by a run.
LEMMA LockUntouched ==
    ASSUME TypeOK, LockIsHeldByARun, NEW w \in Workers, lock' = lock,
           \A v \in Workers \ {w} : workers'[v] = workers[v],
           ~(workers[w].kind = "process" /\ workers[w].pc \in {"extract", "score"})
    PROVE  LockIsHeldByARun'
  <1>1. \A a \in Apps : lock[a] # NoWorker => lock[a] \in Workers \ {w}
    BY DEF LockIsHeldByARun, TypeOK
  <1>2. QED BY <1>1 DEF LockIsHeldByARun

\* A commit in the locked section lets go of the only lock the run can hold.
LEMMA LockReleased ==
    ASSUME TypeOK, LockIsHeldByARun, NEW w \in Workers, workers[w].kind = "process",
           lock' = Released(w, workers[w].app),
           \A v \in Workers \ {w} : workers'[v] = workers[v]
    PROVE  LockIsHeldByARun'
  <1>1. lock \in [Apps -> Workers \cup {NoWorker}]
    BY DEF TypeOK
  <1>2. \A a \in Apps : lock'[a] # NoWorker => lock[a] = lock'[a] /\ lock[a] \in Workers \ {w}
    BY <1>1 DEF LockIsHeldByARun, Released
  <1>3. QED BY <1>2 DEF LockIsHeldByARun

\* A run that goes on with the row locked is at one of the two locked points.
LEMMA LockTaken ==
    ASSUME TypeOK, LockIsHeldByARun, NEW w \in Workers, workers[w].kind = "process",
           NEW pc \in {"extract", "score"}, Goes(w, pc),
           lock' = [lock EXCEPT ![workers[w].app] = w]
    PROVE  LockIsHeldByARun'
  <1>1. /\ lock \in [Apps -> Workers \cup {NoWorker}] /\ workers \in [Workers -> Worker]
        /\ workers[w] \in Runs
    BY CommitType DEF TypeOK
  <1>2. workers'[w].kind = "process" /\ workers'[w].app = workers[w].app /\ workers'[w].pc = pc
    BY <1>1 DEF Goes, Runs
  <1>3. \A v \in Workers \ {w} : workers'[v] = workers[v]
    BY <1>1 DEF Goes
  <1>4. ASSUME NEW a \in Apps, lock'[a] # NoWorker
        PROVE  /\ workers'[lock'[a]].kind = "process" /\ workers'[lock'[a]].app = a
               /\ workers'[lock'[a]].pc \in {"extract", "score"}
    <2>1. CASE a = workers[w].app
      BY <1>1, <1>2, <2>1
    <2>2. CASE a # workers[w].app
      <3>1. lock'[a] = lock[a] /\ lock[a] \in Workers
        BY <1>1, <1>4, <2>2
      <3>2. lock[a] # w
        BY <1>4, <2>2, <3>1 DEF LockIsHeldByARun
      <3>3. QED BY <1>3, <1>4, <3>1, <3>2 DEF LockIsHeldByARun
    <2>3. QED BY <2>1, <2>2
  <1>5. QED BY <1>4 DEF LockIsHeldByARun

LEMMA LockStep ==
    ASSUME TypeOK, LockIsHeldByARun, NEW w \in Workers, Request(w) \/ Step(w)
    PROVE  LockIsHeldByARun'
  <1>1. workers \in [Workers -> Worker]
    BY DEF TypeOK
  <1>2. CASE Request(w)
    <2>1. lock' = lock /\ workers[w] = Idle
      BY <1>2 DEF Request, AddCandidate, AddLinkedInCandidate, Retry, Paste, ReEnrichReads,
             ToolReads, NotifyReads, UpdateCriteria, UndoConsumes, IsIdle
    <2>2. \A v \in Workers \ {w} : workers'[v] = workers[v]
      BY <1>1, <1>2 DEF Request, AddCandidate, AddLinkedInCandidate, Retry, Paste,
             ReEnrichReads, ToolReads, NotifyReads, UpdateCriteria, UndoConsumes, Becomes
    <2>3. QED BY <2>1, <2>2, LockUntouched DEF Idle
  <1>3. CASE \/ GitHubAnswers(w) \/ RunLoads(w) \/ RunEnriches(w)
             \/ ReEnrichFlips(w) \/ ReEnrichLoads(w) \/ ReEnrichIsDisabled(w)
             \/ ReEnrichStarts(w) \/ ReEnrichEnds(w)
             \/ RescoreLoads(w) \/ (\E a \in Apps : RescoresOne(w, a))
             \/ ToolCommits(w) \/ UndoCommits(w) \/ NotifySends(w) \/ NotifyCommits(w)
    <2>1. lock' = lock
      BY <1>3 DEF GitHubAnswers, RunLoads, RunEnriches, ReEnrichFlips, ReEnrichLoads,
             ReEnrichIsDisabled, ReEnrichStarts, ReEnrichEnds, RescoreLoads, RescoresOne,
             ToolCommits, UndoCommits, NotifySends, NotifyCommits
    <2>2. ~(workers[w].kind = "process" /\ workers[w].pc \in {"extract", "score"})
      BY <1>3 DEF GitHubAnswers, RunLoads, RunEnriches, ReEnrichFlips, ReEnrichLoads,
             ReEnrichIsDisabled, ReEnrichStarts, ReEnrichEnds, RescoreLoads, RescoresOne,
             ToolCommits, UndoCommits, NotifySends, NotifyCommits, At
    <2>3. \A v \in Workers \ {w} : workers'[v] = workers[v]
      BY <1>1, <1>3 DEF GitHubAnswers, RunLoads, RunEnriches, ReEnrichFlips, ReEnrichLoads,
             ReEnrichIsDisabled, ReEnrichStarts, ReEnrichEnds, RescoreLoads, RescoresOne,
             ToolCommits, UndoCommits, NotifySends, NotifyCommits, RescoreContinues,
             Becomes, Goes, Ends
    <2>4. QED BY <2>1, <2>2, <2>3, LockUntouched
  <1>4. CASE RunFlushes(w) \/ RunSkipsEnriching(w)
    <2>1. \E pc \in {"extract", "score"} : Goes(w, pc)
      BY <1>4 DEF RunFlushes, RunSkipsEnriching
    <2>2. QED BY <1>4, <2>1, LockTaken DEF RunFlushes, RunSkipsEnriching, At
  <1>5. CASE \/ RunFailsToExtract(w) \/ RunStartsEnriching(w)
             \/ RunFailsToScore(w) \/ RunScores(w)
    <2>1. workers[w].kind = "process" /\ lock' = Released(w, workers[w].app)
      BY <1>5 DEF RunFailsToExtract, RunStartsEnriching, RunFailsToScore, RunScores, At
    <2>2. \A v \in Workers \ {w} : workers'[v] = workers[v]
      BY <1>1, <1>5 DEF RunFailsToExtract, RunStartsEnriching, RunFailsToScore, RunScores,
             Becomes, Ends
    <2>3. QED BY <2>1, <2>2, LockReleased
  <1>6. QED BY <1>2, <1>3, <1>4, <1>5 DEF Step

\* No path out of a run leaves the candidates row locked behind it, whatever
\* fails, so a later retry or paste is never kept waiting by a dead run.
THEOREM LockIsNotLeaked == Spec => []LockIsHeldByARun
  <1>1. Init => LockIsHeldByARun
    BY DEF Init, LockIsHeldByARun
  <1>2. TypeOK /\ LockIsHeldByARun /\ [Next]_vars => LockIsHeldByARun'
    <2> SUFFICES ASSUME TypeOK, LockIsHeldByARun, [Next]_vars PROVE LockIsHeldByARun'
      OBVIOUS
    <2>1. CASE UNCHANGED <<lock, workers>>
      BY <2>1 DEF LockIsHeldByARun
    <2>2. CASE Crash \/ \E w \in Workers : Breaks(w)
      <3>1. PICK ws \in SUBSET Workers : Cut(ws)
        BY <2>2, CutsAreCuts
      <3>2. \A a \in Apps : lock'[a] # NoWorker =>
                lock'[a] = lock[a] /\ lock[a] \in Workers \ ws
        BY <3>1 DEF Cut, TypeOK
      <3>3. QED BY <3>1, <3>2, CutType DEF LockIsHeldByARun
    <2>3. QED
      BY <2>1, <2>2, LockStep DEF Next, PatchStage, TokenExpires, vars
  <1>3. QED BY <1>1, <1>2, TypeCorrect, PTL DEF Spec

-----------------------------------------------------------------------------
(* What a step does to the table of coroutines: one slot moves, and it goes *)
(* on as the kind it was, ends, or turns from a search into a run.          *)

LEMMA OthersStay ==
    ASSUME TypeOK, NEW w \in Workers, Request(w) \/ Step(w)
    PROVE  \A v \in Workers \ {w} : workers'[v] = workers[v]
  <1>1. workers \in [Workers -> Worker]
    BY DEF TypeOK
  <1>2. CASE Request(w)
    BY <1>1, <1>2 DEF Request, AddCandidate, AddLinkedInCandidate, Retry, Paste,
           ReEnrichReads, ToolReads, NotifyReads, UpdateCriteria, UndoConsumes, Becomes
  <1>3. CASE \/ GitHubAnswers(w) \/ RunLoads(w) \/ RunFlushes(w) \/ RunFailsToExtract(w)
             \/ RunStartsEnriching(w) \/ RunSkipsEnriching(w) \/ RunEnriches(w)
             \/ RunFailsToScore(w) \/ RunScores(w)
    BY <1>1, <1>3 DEF GitHubAnswers, RunLoads, RunFlushes, RunFailsToExtract,
           RunStartsEnriching, RunSkipsEnriching, RunEnriches, RunFailsToScore, RunScores,
           Becomes, Goes, Ends
  <1>4. CASE \/ ReEnrichFlips(w) \/ ReEnrichLoads(w) \/ ReEnrichIsDisabled(w)
             \/ ReEnrichStarts(w) \/ ReEnrichEnds(w)
             \/ RescoreLoads(w) \/ (\E a \in Apps : RescoresOne(w, a))
             \/ ToolCommits(w) \/ UndoCommits(w) \/ NotifySends(w) \/ NotifyCommits(w)
    BY <1>1, <1>4 DEF ReEnrichFlips, ReEnrichLoads, ReEnrichIsDisabled, ReEnrichStarts,
           ReEnrichEnds, RescoreLoads, RescoresOne, RescoreContinues, ToolCommits,
           UndoCommits, NotifySends, NotifyCommits, Becomes, Goes, Ends
  <1>5. QED BY <1>2, <1>3, <1>4 DEF Step

\* A coroutine that ends leaves its slot idle.
LEMMA EndsIdle ==
    ASSUME TypeOK, NEW w \in Workers, Ends(w)
    PROVE  workers'[w] = Idle
  BY DEF TypeOK, Ends, Becomes

\* A run goes on as a run of the same application.
LEMMA RunMoves ==
    ASSUME TypeOK, NEW w \in Workers,
           \/ RunLoads(w) \/ RunFlushes(w) \/ RunFailsToExtract(w) \/ RunStartsEnriching(w)
           \/ RunSkipsEnriching(w) \/ RunEnriches(w) \/ RunFailsToScore(w) \/ RunScores(w)
    PROVE  /\ workers[w] \in Runs
           /\ \/ workers'[w] = Idle
              \/ workers'[w].kind = "process" /\ workers'[w].app = workers[w].app
  <1>1. workers \in [Workers -> Worker] /\ workers[w].kind = "process"
    BY DEF TypeOK, RunLoads, RunFlushes, RunFailsToExtract, RunStartsEnriching,
           RunSkipsEnriching, RunEnriches, RunFailsToScore, RunScores, At
  <1>2. workers[w] \in Runs
    BY <1>1, WorkerOfKind
  <1>3. \A pc, seen, crit : LET r == [workers[w] EXCEPT !.pc = pc, !.seen = seen, !.crit = crit]
                            IN  r.kind = "process" /\ r.app = workers[w].app
    BY <1>2 DEF Runs
  <1>4. \A pc, stage : LET r == [workers[w] EXCEPT !.pc = pc, !.seen.stage = stage]
                       IN  r.kind = "process" /\ r.app = workers[w].app
    BY <1>2 DEF Runs
  <1>5. CASE RunFailsToExtract(w) \/ RunFailsToScore(w) \/ RunScores(w)
    BY <1>2, <1>5, EndsIdle DEF RunFailsToExtract, RunFailsToScore, RunScores
  <1>6. CASE RunFlushes(w) \/ RunSkipsEnriching(w) \/ RunEnriches(w)
    <2>1. \E pc : workers' = [workers EXCEPT ![w].pc = pc]
      BY <1>6 DEF RunFlushes, RunSkipsEnriching, RunEnriches, Goes
    <2>2. QED BY <1>1, <1>2, <2>1 DEF Runs
  <1>7. CASE RunLoads(w)
    BY <1>1, <1>2, <1>3, <1>7 DEF RunLoads, Becomes
  <1>8. CASE RunStartsEnriching(w)
    BY <1>1, <1>2, <1>4, <1>8 DEF RunStartsEnriching, Becomes
  <1>9. QED BY <1>5, <1>6, <1>7, <1>8

-----------------------------------------------------------------------------
(* Mails and receipts.  A mail is ahead of its notifications row by the     *)
(* requests that have sent and not committed; a request that ends there, in *)
(* whatever way, moves from those to the unrecorded.  MailsAreRecorded is   *)
(* inductive.                                                               *)

\* A step of a coroutine that neither sends nor commits an invitation.
LEMMA SentStays ==
    ASSUME TypeOK, MailsAreRecorded, NEW w \in Workers, UNCHANGED <<mails, receipts, unrecorded>>,
           \A v \in Workers \ {w} : workers'[v] = workers[v],
           \A a \in Apps : ~HasSent(workers[w], a) /\ ~HasSent(workers'[w], a)
    PROVE  MailsAreRecorded'
  <1>1. ASSUME NEW a \in Apps PROVE Sent(a)' = Sent(a)
    BY <1>1 DEF Sent, InFlight, HasSent
  <1>2. QED BY <1>1 DEF MailsAreRecorded

LEMMA RequestSendsNothing ==
    ASSUME TypeOK, NEW w \in Workers, Request(w), NEW a \in Apps
    PROVE  /\ UNCHANGED <<mails, receipts, unrecorded>>
           /\ ~HasSent(workers[w], a) /\ ~HasSent(workers'[w], a)
  <1>1. workers \in [Workers -> Worker]
    BY DEF TypeOK
  <1>2. workers[w] = Idle /\ UNCHANGED <<mails, receipts, unrecorded>>
    BY DEF Request, AddCandidate, AddLinkedInCandidate, Retry, Paste, ReEnrichReads,
           ToolReads, NotifyReads, UpdateCriteria, UndoConsumes, IsIdle
  <1>3. ASSUME NEW b \in Apps, NotifyReads(w, b) PROVE ~HasSent(workers'[w], a)
    BY <1>1, <1>3 DEF NotifyReads, Becomes, HasSent
  <1>4. ASSUME NEW b \in Apps,
               \/ AddCandidate(w, b) \/ AddLinkedInCandidate(w, b) \/ Retry(w, b)
               \/ Paste(w, b) \/ ToolReads(w, b) \/ ReEnrichReads(w, b)
        PROVE  ~HasSent(workers'[w], a)
    BY <1>1, <1>4 DEF AddCandidate, AddLinkedInCandidate, Retry, Paste, ToolReads,
           ReEnrichReads, Becomes, Run, HasSent
  <1>5. ASSUME UpdateCriteria(w) \/ \E t \in tokens : UndoConsumes(w, t)
        PROVE  ~HasSent(workers'[w], a)
    BY <1>1, <1>5 DEF UpdateCriteria, UndoConsumes, IsIdle, Idle, Becomes, HasSent
  <1>6. QED
    BY <1>2, <1>3, <1>4, <1>5 DEF Request, Idle, HasSent

LEMMA OtherStepsSendNothing ==
    ASSUME TypeOK, NEW w \in Workers, Step(w), ~NotifySends(w), ~NotifyCommits(w),
           NEW a \in Apps
    PROVE  /\ UNCHANGED <<mails, receipts, unrecorded>>
           /\ ~HasSent(workers[w], a) /\ ~HasSent(workers'[w], a)
  <1>1. workers \in [Workers -> Worker]
    BY DEF TypeOK
  <1>2. ~HasSent(Idle, a)
    BY DEF HasSent, Idle
  <1>3. CASE \/ RunLoads(w) \/ RunFlushes(w) \/ RunFailsToExtract(w) \/ RunStartsEnriching(w)
             \/ RunSkipsEnriching(w) \/ RunEnriches(w) \/ RunFailsToScore(w) \/ RunScores(w)
    <2>1. UNCHANGED <<mails, receipts, unrecorded>>
      BY <1>3 DEF RunLoads, RunFlushes, RunFailsToExtract, RunStartsEnriching,
             RunSkipsEnriching, RunEnriches, RunFailsToScore, RunScores
    <2>2. workers[w].kind = "process"
      BY <1>3, RunMoves DEF Runs
    <2>3. workers'[w] = Idle \/ workers'[w].kind = "process"
      BY <1>3, RunMoves
    <2>4. QED BY <1>2, <2>1, <2>2, <2>3 DEF HasSent
  <1>4. CASE GitHubAnswers(w)
    BY <1>1, <1>2, <1>4 DEF GitHubAnswers, Becomes, Ends, Run, HasSent
  <1>5. CASE \/ ReEnrichFlips(w) \/ ReEnrichLoads(w) \/ ReEnrichIsDisabled(w)
             \/ ReEnrichStarts(w) \/ ReEnrichEnds(w)
    <2>1. workers[w].kind = "reenrich" /\ UNCHANGED <<mails, receipts, unrecorded>>
      BY <1>5 DEF ReEnrichFlips, ReEnrichLoads, ReEnrichIsDisabled, ReEnrichStarts,
             ReEnrichEnds, At
    <2>2. workers[w] \in ReEnrichments
      BY <1>1, <2>1, WorkerOfKind
    <2>3. \A pc, seen : [workers[w] EXCEPT !.pc = pc, !.seen = seen].kind = "reenrich"
      BY <2>2 DEF ReEnrichments
    <2>4. \A pc : [workers[w] EXCEPT !.pc = pc].kind = "reenrich"
      BY <2>2 DEF ReEnrichments
    <2>5. workers'[w] = Idle \/ workers'[w].kind = "reenrich"
      <3>1. CASE ReEnrichFlips(w) \/ ReEnrichLoads(w)
        <4>1. \/ Becomes(w, [workers[w] EXCEPT !.pc = "queued", !.seen = CopyOf(NoRow)])
              \/ Becomes(w, [workers[w] EXCEPT !.pc = "loaded",
                                             !.seen = CopyOf(app[workers[w].app])])
          BY <3>1 DEF ReEnrichFlips, ReEnrichLoads
        <4>2. QED BY <1>1, <2>2, <4>1 DEF Becomes, ReEnrichments
      <3>2. CASE ReEnrichStarts(w)
        BY <1>1, <2>4, <3>2 DEF ReEnrichStarts, Goes
      <3>3. CASE ReEnrichIsDisabled(w) \/ ReEnrichEnds(w)
        BY <3>3, EndsIdle DEF ReEnrichIsDisabled, ReEnrichEnds
      <3>4. QED BY <1>5, <3>1, <3>2, <3>3
    <2>6. QED BY <1>2, <2>1, <2>5 DEF HasSent
  <1>6. CASE RescoreLoads(w) \/ \E b \in Apps : RescoresOne(w, b)
    BY <1>1, <1>2, <1>6 DEF RescoreLoads, RescoresOne, RescoreContinues, Becomes, Ends, At,
           HasSent
  <1>7. CASE ToolCommits(w) \/ UndoCommits(w)
    BY <1>1, <1>2, <1>7 DEF ToolCommits, UndoCommits, Becomes, Ends, HasSent
  <1>8. QED BY <1>3, <1>4, <1>5, <1>6, <1>7 DEF Step

\* The mail goes out and the request joins those that owe a receipt, or it ends
\* with the mail unrecorded, or nothing is sent.
LEMMA MailsSends ==
    ASSUME TypeOK, MailsAreRecorded, NEW w \in Workers, NotifySends(w)
    PROVE  MailsAreRecorded'
  <1>1. /\ workers \in [Workers -> Worker] /\ mails \in [Apps -> Nat]
        /\ receipts \in [Apps -> Nat] /\ unrecorded \in [Apps -> Nat]
    BY DEF TypeOK
  <1>0. workers[w] \in Notifies /\ workers[w].pc = "loaded"
    BY <1>1, WorkerOfKind DEF NotifySends, At
  <1>2. PICK a \in Apps : a = workers[w].app
    BY <1>0 DEF Notifies
  <1>3. \A v \in Workers \ {w} : workers'[v] = workers[v]
    BY OthersStay DEF Step
  <1>4. UNCHANGED receipts
    BY DEF NotifySends
  <1>5. CASE mails' = [mails EXCEPT ![a] = @ + 1] /\ Goes(w, "sent") /\ UNCHANGED unrecorded
    <2>1. workers'[w] = [workers[w] EXCEPT !.pc = "sent"]
      BY <1>1, <1>5 DEF Goes
    <2>2. HasSent(workers'[w], a)
      BY <1>0, <1>2, <2>1 DEF HasSent, Notifies
    <2>3. \A b \in Apps \ {a} : ~HasSent(workers[w], b) /\ ~HasSent(workers'[w], b)
      BY <1>0, <1>2, <2>2 DEF HasSent
    <2>4. \A b \in Apps \ {a} : Sent(b)' = Sent(b)
      BY <1>3, <2>3 DEF Sent, InFlight, HasSent
    <2>5. \A b \in Apps : b = a => Sent(b)' = Sent(b) \cup {w} /\ w \notin Sent(b)
      BY <1>0, <1>2, <1>3, <2>2 DEF Sent, InFlight, HasSent
    <2>6. \A b \in Apps : b = a => Cardinality(Sent(b)') = Cardinality(Sent(b)) + 1
      <3>1. \A b \in Apps : b = a =>
               Cardinality(Sent(b) \cup {w}) = Cardinality(Sent(b)) + 1
        BY <2>5, SentIsFinite, FS_AddElement
      <3>2. QED BY <2>5, <3>1, Zenon
    <2>7. /\ mails'[a] = mails[a] + 1
          /\ \A b \in Apps \ {a} : mails'[b] = mails[b]
      BY <1>1, <1>2, <1>5
    <2>8. ASSUME NEW b \in Apps
          PROVE  mails'[b] = receipts[b] + unrecorded[b] + Cardinality(Sent(b)')
      <3>1. CASE b = a
        <4>1. /\ receipts[b] \in Nat /\ mails[b] \in Nat /\ unrecorded[b] \in Nat
              /\ Cardinality(Sent(b)) \in Nat
          BY <1>1, SentIsFinite
        <4>2. mails[b] = receipts[b] + unrecorded[b] + Cardinality(Sent(b))
          BY DEF MailsAreRecorded
        <4>3. Cardinality(Sent(b)') = Cardinality(Sent(b)) + 1 /\ mails'[b] = mails[b] + 1
          BY <2>6, <2>7, <3>1
        <4>4. QED BY <4>1, <4>2, <4>3
      <3>2. CASE b # a
        BY <2>4, <2>7, <3>2 DEF MailsAreRecorded
      <3>3. QED BY <3>1, <3>2
    <2>9. QED BY <1>4, <1>5, <2>8 DEF MailsAreRecorded
  <1>6. CASE Ends(w)
    <2>1. \A b \in Apps : ~HasSent(workers[w], b) /\ ~HasSent(workers'[w], b)
      BY <1>0, <1>6, EndsIdle DEF HasSent, Idle
    <2>2. \A b \in Apps : Sent(b)' = Sent(b)
      BY <1>3, <2>1 DEF Sent, InFlight, HasSent
    <2>3. CASE UNCHANGED <<mails, unrecorded>>
      BY <1>4, <2>2, <2>3 DEF MailsAreRecorded
    <2>4. CASE /\ mails' = [mails EXCEPT ![a] = @ + 1]
               /\ unrecorded' = [unrecorded EXCEPT ![a] = @ + 1]
      <3>1. \A b \in Apps :
               \/ (mails'[b] = mails[b] /\ unrecorded'[b] = unrecorded[b])
               \/ (mails'[b] = mails[b] + 1 /\ unrecorded'[b] = unrecorded[b] + 1)
        BY <1>1, <2>4
      <3>2. ASSUME NEW b \in Apps
            PROVE  mails'[b] = receipts[b] + unrecorded'[b] + Cardinality(Sent(b))
        <4>1. /\ receipts[b] \in Nat /\ mails[b] \in Nat /\ unrecorded[b] \in Nat
              /\ Cardinality(Sent(b)) \in Nat
          BY <1>1, SentIsFinite
        <4>2. mails[b] = receipts[b] + unrecorded[b] + Cardinality(Sent(b))
          BY DEF MailsAreRecorded
        <4>3. CASE mails'[b] = mails[b] /\ unrecorded'[b] = unrecorded[b]
          BY <4>2, <4>3
        <4>4. CASE mails'[b] = mails[b] + 1 /\ unrecorded'[b] = unrecorded[b] + 1
          BY <4>1, <4>2, <4>4
        <4>5. QED BY <3>1, <4>3, <4>4
      <3>3. QED BY <1>4, <2>2, <3>2 DEF MailsAreRecorded
    <2>5. QED BY <1>2, <1>6, <2>3, <2>4, <1>1, <1>0, EndsIdle DEF NotifySends, Goes, Notifies, Idle
  <1>7. QED BY <1>2, <1>5, <1>6 DEF NotifySends

\* The commit adds the receipt of the one request that leaves.
LEMMA MailsCommits ==
    ASSUME TypeOK, MailsAreRecorded, NEW w \in Workers, NotifyCommits(w)
    PROVE  MailsAreRecorded'
  <1>1. /\ workers \in [Workers -> Worker] /\ mails \in [Apps -> Nat]
        /\ receipts \in [Apps -> Nat] /\ unrecorded \in [Apps -> Nat]
    BY DEF TypeOK
  <1>0. workers[w] \in Notifies /\ workers[w].pc = "sent"
    BY <1>1, WorkerOfKind DEF NotifyCommits, At
  <1>2. PICK a \in Apps : a = workers[w].app
    BY <1>0 DEF Notifies
  <1>3. \A v \in Workers \ {w} : workers'[v] = workers[v]
    BY OthersStay DEF Step
  <1>4. /\ UNCHANGED <<mails, unrecorded>> /\ workers'[w] = Idle
        /\ receipts' = [receipts EXCEPT ![a] = @ + 1]
    BY <1>2, EndsIdle DEF NotifyCommits
  <1>5. HasSent(workers[w], a) /\ \A b \in Apps : ~HasSent(workers'[w], b)
    BY <1>0, <1>2, <1>4 DEF HasSent, Notifies, Idle
  <1>6. \A b \in Apps \ {a} : Sent(b)' = Sent(b)
    BY <1>3, <1>5 DEF Sent, InFlight, HasSent
  <1>7. \A b \in Apps : b = a => Sent(b)' = Sent(b) \ {w} /\ w \in Sent(b)
    BY <1>2, <1>3, <1>5 DEF Sent, InFlight, HasSent
  <1>8. \A b \in Apps : b = a => Cardinality(Sent(b)') = Cardinality(Sent(b)) - 1
    <2>1. \A b \in Apps : b = a => Cardinality(Sent(b) \ {w}) = Cardinality(Sent(b)) - 1
      BY <1>7, SentIsFinite, FS_RemoveElement
    <2>2. QED BY <1>7, <2>1, Zenon
  <1>9. /\ receipts'[a] = receipts[a] + 1
        /\ \A b \in Apps \ {a} : receipts'[b] = receipts[b]
    BY <1>1, <1>2, <1>4
  <1>10. ASSUME NEW b \in Apps
         PROVE  mails[b] = receipts'[b] + unrecorded[b] + Cardinality(Sent(b)')
    <2>1. CASE b = a
      <3>1. /\ receipts[b] \in Nat /\ mails[b] \in Nat /\ unrecorded[b] \in Nat
            /\ Cardinality(Sent(b)) \in Nat
        BY <1>1, SentIsFinite
      <3>2. mails[b] = receipts[b] + unrecorded[b] + Cardinality(Sent(b))
        BY DEF MailsAreRecorded
      <3>3. Cardinality(Sent(b)') = Cardinality(Sent(b)) - 1 /\ receipts'[b] = receipts[b] + 1
        BY <1>8, <1>9, <2>1
      <3>4. QED BY <3>1, <3>2, <3>3
    <2>2. CASE b # a
      BY <1>6, <1>9, <2>2 DEF MailsAreRecorded
    <2>3. QED BY <2>1, <2>2
  <1>11. QED BY <1>4, <1>10 DEF MailsAreRecorded

LEMMA MailsNext == TypeOK /\ MailsAreRecorded /\ [Next]_vars => MailsAreRecorded'
  <1> SUFFICES ASSUME TypeOK, MailsAreRecorded, [Next]_vars PROVE MailsAreRecorded'
    OBVIOUS
  <1>1. ASSUME NEW w \in Workers, Request(w) \/ Step(w) PROVE MailsAreRecorded'
    <2>1. CASE NotifySends(w) \/ NotifyCommits(w)
      BY <2>1, MailsSends, MailsCommits
    <2>2. CASE Request(w) \/ (Step(w) /\ ~NotifySends(w) /\ ~NotifyCommits(w))
      <3>1. \A v \in Workers \ {w} : workers'[v] = workers[v]
        BY <2>2, OthersStay
      <3>2. \A a \in Apps : /\ UNCHANGED <<mails, receipts, unrecorded>>
                            /\ ~HasSent(workers[w], a) /\ ~HasSent(workers'[w], a)
        BY <2>2, RequestSendsNothing, OtherStepsSendNothing
      <3>3. CASE Apps = {}
        BY <3>3 DEF MailsAreRecorded
      <3>4. QED BY <3>1, <3>2, <3>3, SentStays
    <2>3. QED BY <1>1, <2>1, <2>2
  <1>2. CASE UNCHANGED <<mails, receipts, workers, unrecorded>>
    BY <1>2 DEF MailsAreRecorded, Sent, InFlight
  <1>3. CASE Crash \/ \E w \in Workers : Breaks(w)
    <2>1. PICK ws \in SUBSET Workers : Cut(ws)
      BY <1>3, CutsAreCuts
    <2>2. UNCHANGED <<mails, receipts>>
      BY <1>3, CutsAreCuts
    <2>3. ASSUME NEW a \in Apps
          PROVE  mails[a] = receipts[a] + unrecorded'[a] + Cardinality(Sent(a)')
      <3>1. Sent(a)' = Sent(a) \ ws
        BY <2>1, CutType DEF Sent, InFlight, Idle
      <3>2. /\ IsFiniteSet(Sent(a) \cap ws) /\ IsFiniteSet(Sent(a) \ ws)
            /\ Cardinality(Sent(a) \cap ws) \in Nat /\ Cardinality(Sent(a) \ ws) \in Nat
        BY SentIsFinite, FS_Intersection, FS_Difference, FS_CardinalityType
      <3>3. /\ Cardinality(Sent(a) \ ws) = Cardinality(Sent(a)) - Cardinality(Sent(a) \cap ws)
            /\ Cardinality(Sent(a)) \in Nat
        BY SentIsFinite, FS_Difference
      <3>4. unrecorded'[a] = unrecorded[a] + Cardinality(Sent(a) \cap ws)
        BY <2>1 DEF Cut
      <3>5. mails[a] = receipts[a] + unrecorded[a] + Cardinality(Sent(a))
        BY DEF MailsAreRecorded
      <3>6. receipts[a] \in Nat /\ unrecorded[a] \in Nat
        BY DEF TypeOK
      <3>7. QED BY <3>1, <3>2, <3>3, <3>4, <3>5, <3>6
    <2>4. QED BY <2>2, <2>3 DEF MailsAreRecorded
  <1>4. QED
    BY <1>1, <1>2, <1>3 DEF Next, PatchStage, TokenExpires, vars

\* However invitations, restarts, failing sends and failing commits overlap, the
\* mails of an application are its notifications rows, the mails about to get one
\* and those whose request ended in between.
THEOREM MailsRecorded == Spec => []MailsAreRecorded
  <1>1. Init => MailsAreRecorded
    <2> SUFFICES ASSUME Init PROVE MailsAreRecorded
      OBVIOUS
    <2>1. \A a \in Apps : /\ Sent(a) = {} /\ mails[a] = 0
                          /\ receipts[a] = 0 /\ unrecorded[a] = 0
      BY DEF Init, Sent, InFlight, Idle
    <2>2. QED BY <2>1, FS_EmptySet DEF MailsAreRecorded
  <1>2. QED BY <1>1, MailsNext, TypeCorrect, PTL DEF Spec

-----------------------------------------------------------------------------
(* No silent stall.  The newest event tells what became of the last run: an *)
(* event of enrichment stands only while a run is on its way from it to     *)
(* scoring, and one of scoring stands for a score.  Neither depends on the  *)
(* stage, which other coroutines overwrite, so the invariant is about       *)
(* events, not stages.  A re-enrichment logs the events of enrichment with  *)
(* nothing to follow, and it does leave applications stalled (the run       *)
(* ReEnrichStalls), so the result is for a system whose users do not ask    *)
(* for one.                                                                 *)

EnrichmentEvents == {"application.enriched", "enrichment.failed"}

\* A run of application a, and one between enrichment and its last commit.
Running(rec, a) == rec.kind = "process" /\ rec.app = a
Scoring(rec, a) == Running(rec, a) /\ rec.pc = "score"

\* What the event of a row says is so; a row without one waits for its run or
\* for a paste, unless its run was cut short.
EventIsTrue(a) ==
    /\ event[a] \in EnrichmentEvents =>
            a \in lost \/ \E w \in Workers : Scoring(workers[w], a)
    /\ event[a] = "application.scored" => app[a].score # NoScore
    /\ event[a] = "none" /\ app[a].stage \in {"extracting", "enriching"} =>
            \/ a \in lost \/ AwaitsPaste(a)
            \/ \E w \in Workers : Running(workers[w], a)

\* A coroutine that may score has read the criteria it scores against.
HasCriteria(rec) ==
    /\ rec.kind # "reenrich"
    /\ rec.kind = "process" /\ rec.pc # "queued" => rec.crit # 0
    /\ rec.kind = "rescore" /\ rec.pc = "score" => rec.crit # 0

EventInv ==
    /\ \A a \in Apps : EventIsTrue(a)
    /\ \A w \in Workers : HasCriteria(workers[w])

\* Scores are replaced, never taken away.
ScoresStay == \A a \in Apps : app[a].score # NoScore => app'[a].score # NoScore

\* A row without an event goes on as it was, is worked on, or needs no event.
SilentRowsStay(w) ==
    \A a \in Apps : event'[a] = "none" =>
        /\ Running(workers[w], a) => Running(workers'[w], a)
        /\ \/ Running(workers'[w], a)
           \/ app'[a].stage \notin {"extracting", "enriching"}
           \/ app'[a].stage = "extracting" /\ app'[a].linkedin
           \/ app'[a].stage = app[a].stage /\ app'[a].linkedin = app[a].linkedin

\* A step of one coroutine keeps the events true if the event it writes is, and
\* if a run that gives up leaves an event of its own.
LEMMA EventsStay ==
    ASSUME TypeOK, EventInv, ScoresStay, NEW w \in Workers, SilentRowsStay(w),
           \A v \in Workers \ {w} : workers'[v] = workers[v],
           HasCriteria(workers'[w]),
           \A a \in Apps : \/ event'[a] = event[a]
                           \/ event'[a] \in HaltingEvents
                           \/ event'[a] = "application.scored" /\ app'[a].score # NoScore
                           \/ event'[a] \in EnrichmentEvents /\ Scoring(workers'[w], a),
           \A a \in Apps : Scoring(workers[w], a) =>
                \/ Scoring(workers'[w], a)
                \/ event'[a] \in HaltingEvents \cup {"application.scored"},
           \A a \in lost : \/ a \in lost'
                          \/ event'[a] \in HaltingEvents \cup {"application.scored"}
    PROVE  EventInv'
  <1>1. ASSUME NEW a \in Apps PROVE EventIsTrue(a)'
    <2>1. ASSUME event'[a] \in EnrichmentEvents
          PROVE  a \in lost' \/ \E v \in Workers : Scoring(workers'[v], a)
      <3>1. CASE ~Scoring(workers'[w], a)
        <4>1. event'[a] = event[a] /\ ~Scoring(workers[w], a)
          BY <2>1, <3>1 DEF EnrichmentEvents, HaltingEvents
        <4>2. a \in lost \/ \E v \in Workers \ {w} : Scoring(workers[v], a)
          BY <2>1, <4>1 DEF EventInv, EventIsTrue
        <4>3. a \in lost => a \in lost'
          BY <2>1 DEF EnrichmentEvents, HaltingEvents
        <4>4. QED BY <4>2, <4>3
      <3>2. QED BY <3>1
    <2>2. event'[a] = "application.scored" => app'[a].score # NoScore
      BY DEF EventIsTrue, EventInv, ScoresStay, HaltingEvents, EnrichmentEvents
    <2>3. ASSUME event'[a] = "none", app'[a].stage \in {"extracting", "enriching"}
          PROVE  \/ a \in lost' \/ AwaitsPaste(a)'
                 \/ \E v \in Workers : Running(workers'[v], a)
      <3>1. event[a] = "none" /\ (a \in lost => a \in lost')
        BY <2>3 DEF EnrichmentEvents, HaltingEvents
      <3>2. CASE Running(workers'[w], a)
        BY <3>2
      <3>3. CASE app'[a].stage = "extracting" /\ app'[a].linkedin
        BY <3>3 DEF AwaitsPaste
      <3>4. CASE /\ app'[a].stage = app[a].stage /\ app'[a].linkedin = app[a].linkedin
                 /\ ~Running(workers'[w], a)
        <4>1. ~Running(workers[w], a)
          BY <2>3, <3>4 DEF SilentRowsStay
        <4>2. a \in lost \/ AwaitsPaste(a) \/ \E v \in Workers \ {w} : Running(workers[v], a)
          BY <2>3, <3>1, <3>4, <4>1 DEF EventInv, EventIsTrue
        <4>3. QED BY <3>1, <3>4, <4>2 DEF AwaitsPaste
      <3>5. QED BY <2>3, <3>2, <3>3, <3>4 DEF SilentRowsStay
    <2>4. QED BY <2>1, <2>2, <2>3 DEF EventIsTrue
  <1>2. \A v \in Workers : HasCriteria(workers'[v])
    BY DEF EventInv
  <1>3. QED BY <1>1, <1>2 DEF EventInv, HasCriteria

\* A request starts a coroutine and writes at most a stage.
LEMMA EventRequest ==
    ASSUME "re_enrich" \notin Ops, TypeOK, EventInv, NEW w \in Workers, Request(w)
    PROVE  EventInv'
  <1>1. app \in [Apps -> Row] /\ workers \in [Workers -> Worker]
    BY DEF TypeOK
  <1>2. workers[w] = Idle /\ UNCHANGED <<event, lost>>
    BY DEF Request, AddCandidate, AddLinkedInCandidate, Retry, Paste, ReEnrichReads,
           ToolReads, NotifyReads, UpdateCriteria, UndoConsumes, IsIdle
  <1>3. ScoresStay
    <2>1. ASSUME NEW a \in Apps, AddCandidate(w, a) \/ AddLinkedInCandidate(w, a)
          PROVE  ScoresStay
      <3>1. PICK l \in BOOLEAN :
                app' = [app EXCEPT ![a].stage = "extracting", ![a].linkedin = l]
        BY <2>1, NewRow
      <3>2. QED BY <1>1, <3>1 DEF ScoresStay, Row
    <2>2. CASE app' = app
      BY <2>2 DEF ScoresStay
    <2>3. QED
      BY <2>1, <2>2 DEF Request, Retry, Paste, ReEnrichReads, ToolReads, NotifyReads,
             UpdateCriteria, UndoConsumes
  <1>4. HasCriteria(workers'[w])
    <2>1. ASSUME NEW b \in Apps,
                 \/ AddCandidate(w, b) \/ AddLinkedInCandidate(w, b) \/ Retry(w, b)
                 \/ Paste(w, b) \/ ToolReads(w, b) \/ NotifyReads(w, b)
          PROVE  HasCriteria(workers'[w])
      BY <1>1, <2>1 DEF AddCandidate, AddLinkedInCandidate, Retry, Paste, ToolReads,
             NotifyReads, Becomes, Run, HasCriteria
    <2>2. ASSUME UpdateCriteria(w) \/ \E t \in tokens : UndoConsumes(w, t)
          PROVE  HasCriteria(workers'[w])
      BY <1>1, <2>2 DEF UpdateCriteria, UndoConsumes, IsIdle, Idle, Becomes, HasCriteria
    <2>3. QED BY <2>1, <2>2 DEF Request, ReEnrichReads
  <1>5. \A a \in Apps : ~Running(workers[w], a)
    BY <1>2 DEF Running, Idle
  <1>6. SilentRowsStay(w)
    <2>1. ASSUME NEW a \in Apps, AddCandidate(w, a) PROVE SilentRowsStay(w)
      <3>1. Running(workers'[w], a)
        BY <1>1, <2>1 DEF AddCandidate, Becomes, Run, Running
      <3>2. PICK l \in BOOLEAN :
                app' = [app EXCEPT ![a].stage = "extracting", ![a].linkedin = l]
        BY <2>1, NewRow
      <3>3. QED BY <1>1, <1>5, <3>1, <3>2 DEF SilentRowsStay
    <2>2. ASSUME NEW a \in Apps, AddLinkedInCandidate(w, a) PROVE SilentRowsStay(w)
      <3>1. app' = [app EXCEPT ![a].stage = "extracting", ![a].linkedin = TRUE]
        BY <2>2 DEF AddLinkedInCandidate
      <3>2. QED BY <1>1, <1>5, <3>1 DEF SilentRowsStay, Row
    <2>3. CASE app' = app
      BY <1>5, <2>3 DEF SilentRowsStay
    <2>4. QED
      BY <2>1, <2>2, <2>3 DEF Request, Retry, Paste, ReEnrichReads, ToolReads, NotifyReads,
             UpdateCriteria, UndoConsumes
  <1>7. QED BY <1>2, <1>3, <1>4, <1>5, <1>6, OthersStay, EventsStay DEF Scoring

\* A run that goes on, up to scoring.
LEMMA EventRunGoesOn ==
    ASSUME TypeOK, EventInv, NEW w \in Workers,
           \/ RunLoads(w) \/ RunFlushes(w) \/ RunStartsEnriching(w) \/ RunSkipsEnriching(w)
    PROVE  EventInv'
  <1>1. app \in [Apps -> Row] /\ workers \in [Workers -> Worker] /\ workers[w] \in Runs
    BY RunMoves DEF TypeOK
  <1>2. workers[w].pc \in {"queued", "flush", "extract"} /\ UNCHANGED <<event, lost>>
    BY DEF RunLoads, RunFlushes, RunStartsEnriching, RunSkipsEnriching, At
  <1>3. ScoresStay
    <2>1. CASE RunStartsEnriching(w)
      BY <1>1, <2>1 DEF RunStartsEnriching, DirtyStage, ScoresStay, Row
    <2>2. QED BY <2>1 DEF ScoresStay, RunLoads, RunFlushes, RunSkipsEnriching
  <1>4. HasCriteria(workers'[w]) /\ workers'[w].kind = "process"
    <2>1. workers[w].pc # "queued" => workers[w].crit # 0
      BY <1>1 DEF EventInv, HasCriteria, Runs
    <2>2. CASE RunLoads(w)
      <3>1. PICK pc, seen : workers'[w] = [workers[w] EXCEPT !.pc = pc, !.seen = seen,
                                                             !.crit = criteria]
        BY <1>1, <2>2 DEF RunLoads, Becomes
      <3>2. workers'[w].kind = "process" /\ workers'[w].crit = criteria
        BY <1>1, <3>1 DEF Runs
      <3>3. QED BY <3>2 DEF HasCriteria, TypeOK
    <2>3. CASE RunFlushes(w) \/ RunSkipsEnriching(w)
      <3>1. PICK pc : workers'[w] = [workers[w] EXCEPT !.pc = pc]
        BY <1>1, <2>3 DEF RunFlushes, RunSkipsEnriching, Goes
      <3>2. workers'[w].kind = "process" /\ workers'[w].crit = workers[w].crit
        BY <1>1, <3>1 DEF Runs
      <3>3. QED BY <2>1, <2>3, <3>2 DEF HasCriteria, RunFlushes, RunSkipsEnriching, At
    <2>4. CASE RunStartsEnriching(w)
      <3>1. workers'[w] = [workers[w] EXCEPT !.pc = "enrich", !.seen.stage = "enriching"]
        BY <1>1, <2>4 DEF RunStartsEnriching, Becomes
      <3>2. workers'[w].kind = "process" /\ workers'[w].crit = workers[w].crit
        BY <1>1, <3>1 DEF Runs
      <3>3. QED BY <2>1, <2>4, <3>2 DEF HasCriteria, RunStartsEnriching, At
    <2>5. QED BY <2>2, <2>3, <2>4
  <1>5. \A a \in Apps : ~Scoring(workers[w], a)
    BY <1>2 DEF Scoring
  <1>6. SilentRowsStay(w)
    <2>1. workers'[w] # Idle
      BY <1>4 DEF Idle
    <2>2. \A a \in Apps : Running(workers[w], a) => Running(workers'[w], a)
      BY <2>1, RunMoves DEF Running
    <2>3. \A a \in Apps : Running(workers[w], a) \/ app'[a] = app[a]
      BY <1>1 DEF RunLoads, RunFlushes, RunStartsEnriching, RunSkipsEnriching, DirtyStage,
             Running, Runs
    <2>4. QED BY <2>2, <2>3 DEF SilentRowsStay
  <1>7. QED BY <1>2, <1>3, <1>4, <1>5, <1>6, OthersStay, EventsStay DEF Step

\* The run that logs an event of enrichment is the one that goes on to score.
LEMMA EventRunEnriches ==
    ASSUME TypeOK, EventInv, NEW w \in Workers, RunEnriches(w)
    PROVE  EventInv'
  <1>1. /\ app \in [Apps -> Row] /\ workers \in [Workers -> Worker] /\ workers[w] \in Runs
        /\ event \in [Apps -> Events]
    BY RunMoves DEF TypeOK
  <1>2. PICK a \in Apps : a = workers[w].app
    BY <1>1 DEF Runs
  <1>3. workers[w].pc = "enrich" /\ lost' = lost
    BY DEF RunEnriches, At
  <1>4. ScoresStay
    BY <1>1 DEF RunEnriches, ScoresStay, Row
  <1>5. workers'[w] = [workers[w] EXCEPT !.pc = "score"]
    BY <1>1 DEF RunEnriches, Goes
  <1>6. Scoring(workers'[w], a) /\ HasCriteria(workers'[w])
    BY <1>1, <1>2, <1>3, <1>5 DEF Scoring, Running, HasCriteria, EventInv, Runs
  <1>7. event'[a] \in EnrichmentEvents /\ \A b \in Apps \ {a} : event'[b] = event[b]
    BY <1>1, <1>2 DEF RunEnriches, EnrichmentEvents
  <1>8. \A b \in Apps : ~Scoring(workers[w], b)
    BY <1>3 DEF Scoring
  <1>9. SilentRowsStay(w)
    <2>1. \A b \in Apps \ {a} : app'[b] = app[b] /\ ~Running(workers[w], b)
      BY <1>1, <1>2 DEF RunEnriches, Running
    <2>2. QED BY <1>6, <2>1 DEF SilentRowsStay, Scoring
  <1>10. QED BY <1>3, <1>4, <1>6, <1>7, <1>8, <1>9, OthersStay, EventsStay DEF Step

\* A run that ends logs how.
LEMMA EventRunEnds ==
    ASSUME TypeOK, EventInv, NEW w \in Workers,
           RunFailsToExtract(w) \/ RunFailsToScore(w) \/ RunScores(w)
    PROVE  EventInv'
  <1>1. /\ app \in [Apps -> Row] /\ workers \in [Workers -> Worker] /\ workers[w] \in Runs
        /\ event \in [Apps -> Events]
    BY RunMoves DEF TypeOK
  <1>2. PICK a \in Apps : a = workers[w].app
    BY <1>1 DEF Runs
  <1>3. workers'[w] = Idle /\ HasCriteria(workers'[w]) /\ lost' = lost \ {a}
    <2>1. Ends(w) /\ lost' = lost \ {a}
      BY <1>2 DEF RunFailsToExtract, RunFailsToScore, RunScores
    <2>2. QED BY <2>1, EndsIdle DEF HasCriteria, Idle
  <1>4. \A b \in Apps \ {a} : /\ event'[b] = event[b] /\ app'[b] = app[b]
                             /\ ~Running(workers[w], b)
    BY <1>1, <1>2 DEF RunFailsToExtract, RunFailsToScore, RunScores, Running
  <1>5. /\ ScoresStay
        /\ \/ event'[a] \in HaltingEvents
           \/ event'[a] = "application.scored" /\ app'[a].score # NoScore
    <2>1. CASE RunFailsToExtract(w) \/ RunFailsToScore(w)
      BY <1>1, <1>2, <2>1 DEF RunFailsToExtract, RunFailsToScore, ScoresStay, HaltingEvents
    <2>2. CASE RunScores(w)
      <3>1. app' = [app EXCEPT ![a].score = workers[w].crit,
                               ![a].stage = Dirty(@, workers[w].seen.stage, "scored")]
        BY <1>2, <2>2 DEF RunScores
      <3>2. workers[w].crit # NoScore
        BY <2>2 DEF RunScores, At, EventInv, HasCriteria, NoScore
      <3>3. /\ app'[a].score = workers[w].crit
            /\ \A b \in Apps \ {a} : app'[b] = app[b]
        BY <1>1, <3>1 DEF Row
      <3>4. event'[a] = "application.scored"
        BY <1>1, <1>2, <2>2 DEF RunScores
      <3>5. QED BY <3>2, <3>3, <3>4 DEF ScoresStay
    <2>3. QED BY <2>1, <2>2
  <1>6. SilentRowsStay(w)
    BY <1>4, <1>5 DEF SilentRowsStay, HaltingEvents
  <1>7. QED
    BY <1>3, <1>4, <1>5, <1>6, OthersStay, EventsStay DEF Step, Scoring

\* Rescores log scores or failures, each for the application they took it from.
LEMMA EventRescore ==
    ASSUME TypeOK, EventInv, NEW w \in Workers,
           RescoreLoads(w) \/ \E b \in Apps : RescoresOne(w, b)
    PROVE  EventInv'
  <1>1. /\ app \in [Apps -> Row] /\ workers \in [Workers -> Worker]
        /\ event \in [Apps -> Events] /\ criteria \in Nat \ {0}
    BY ConstantsAssumption DEF TypeOK
  <1>2. workers[w].kind = "rescore" /\ lost' = lost
    BY DEF RescoreLoads, RescoresOne, At
  <1>3. \A b \in Apps : ~Scoring(workers[w], b) /\ ~Running(workers[w], b)
    BY <1>2 DEF Scoring, Running
  <1>8. SilentRowsStay(w)
    <2>1. \A b \in Apps : app'[b].stage = app[b].stage /\ app'[b].linkedin = app[b].linkedin
      <3>1. ASSUME NEW c \in Apps, app' = [app EXCEPT ![c].score = workers[w].crit], NEW b \in Apps
            PROVE  app'[b].stage = app[b].stage /\ app'[b].linkedin = app[b].linkedin
        BY <1>1, <3>1 DEF Row
      <3>2. app' = app \/ \E c \in Apps : app' = [app EXCEPT ![c].score = workers[w].crit]
        BY DEF RescoreLoads, RescoresOne
      <3>3. QED BY <3>1, <3>2
    <2>2. QED BY <1>3, <2>1 DEF SilentRowsStay
  <1>4. ASSUME NEW crit, NEW todo, crit # 0, RescoreContinues(w, crit, todo)
        PROVE  HasCriteria(workers'[w])
    BY <1>1, <1>4 DEF RescoreContinues, Becomes, Ends, Idle, HasCriteria
  <1>5. CASE RescoreLoads(w)
    <2>1. UNCHANGED <<app, event>> /\ RescoreContinues(w, criteria, ToRescore)
      BY <1>5 DEF RescoreLoads
    <2>2. HasCriteria(workers'[w]) /\ ScoresStay
      BY <1>1, <1>4, <2>1 DEF ScoresStay
    <2>3. QED BY <1>2, <1>3, <1>5, <1>8, <2>1, <2>2, OthersStay, EventsStay DEF Step
  <1>6. ASSUME NEW b \in Apps, RescoresOne(w, b) PROVE EventInv'
    <2>1. workers[w].crit # 0
      BY <1>6 DEF RescoresOne, At, EventInv, HasCriteria
    <2>2. HasCriteria(workers'[w])
      BY <1>4, <1>6, <2>1 DEF RescoresOne
    <2>3. /\ ScoresStay
          /\ \/ event'[b] \in HaltingEvents
             \/ event'[b] = "application.scored" /\ app'[b].score # NoScore
          /\ \A a \in Apps \ {b} : event'[a] = event[a]
      BY <1>1, <1>6, <2>1 DEF RescoresOne, ScoresStay, HaltingEvents, Row, NoScore
    <2>4. QED BY <1>2, <1>3, <1>6, <1>8, <2>2, <2>3, OthersStay, EventsStay DEF Step
  <1>7. QED BY <1>5, <1>6

\* Searches, tools, undos and invitations leave events and scores alone.
LEMMA EventOther ==
    ASSUME TypeOK, EventInv, NEW w \in Workers,
           \/ GitHubAnswers(w) \/ ToolCommits(w) \/ UndoCommits(w)
           \/ NotifySends(w) \/ NotifyCommits(w)
    PROVE  EventInv'
  <1>1. app \in [Apps -> Row] /\ workers \in [Workers -> Worker]
    BY DEF TypeOK
  <1>2. UNCHANGED <<event, lost>>
    BY DEF GitHubAnswers, ToolCommits, UndoCommits, NotifySends, NotifyCommits
  <1>3. \A a \in Apps : ~Scoring(workers[w], a) /\ ~Running(workers[w], a)
    BY DEF GitHubAnswers, ToolCommits, UndoCommits, NotifySends, NotifyCommits, At, Scoring,
           Running
  <1>4. ScoresStay
    BY <1>1 DEF GitHubAnswers, ToolCommits, UndoCommits, NotifySends, NotifyCommits,
           ScoresStay, Row
  <1>5. HasCriteria(Idle)
    BY DEF HasCriteria, Idle
  <1>6. HasCriteria(workers'[w])
    <2>1. CASE GitHubAnswers(w)
      BY <1>1, <1>5, <2>1 DEF GitHubAnswers, Becomes, Ends, Run, HasCriteria
    <2>2. CASE NotifySends(w)
      <3>1. workers[w] \in Notifies
        BY <1>1, <2>2, WorkerOfKind DEF NotifySends, At
      <3>2. [workers[w] EXCEPT !.pc = "sent"].kind = "notify"
        BY <3>1 DEF Notifies
      <3>3. workers'[w] = Idle \/ workers'[w] = [workers[w] EXCEPT !.pc = "sent"]
        BY <1>1, <2>2, EndsIdle DEF NotifySends, Goes
      <3>4. QED BY <1>5, <3>2, <3>3 DEF HasCriteria
    <2>3. CASE ToolCommits(w) \/ UndoCommits(w) \/ NotifyCommits(w)
      BY <1>5, <2>3, EndsIdle DEF ToolCommits, UndoCommits, NotifyCommits
    <2>4. QED BY <2>1, <2>2, <2>3
  <1>7. SilentRowsStay(w)
    <2>1. CASE GitHubAnswers(w) \/ NotifySends(w)
      BY <1>3, <2>1 DEF SilentRowsStay, GitHubAnswers, NotifySends
    <2>2. CASE ToolCommits(w) \/ UndoCommits(w) \/ NotifyCommits(w)
      <3>1. PICK a, s, st :
                /\ s \notin {"extracting", "enriching"}
                /\ app' = [app EXCEPT ![a].stage = Dirty(@, workers[w].seen.stage, s),
                                      ![a].stamps = st]
        <4>1. CASE ToolCommits(w)
          <5>1. workers[w].target \in Decisions
            BY <1>1, <4>1, WorkerOfKind DEF ToolCommits, ToolCalls
          <5>2. QED BY <4>1, <5>1 DEF ToolCommits, Decisions
        <4>2. CASE UndoCommits(w)
          <5>1. workers[w].token.stage \in UndoStages
            BY <1>1, <4>2, WorkerOfKind DEF UndoCommits, Undos, Token
          <5>2. QED BY <4>2, <5>1 DEF UndoCommits, UndoStages
        <4>3. CASE NotifyCommits(w)
          BY <4>3 DEF NotifyCommits
        <4>4. QED BY <2>2, <4>1, <4>2, <4>3
      <3>2. \A b \in Apps : /\ app'[b].linkedin = app[b].linkedin
                            /\ app'[b].stage \in {app[b].stage, s}
        BY <1>1, <3>1 DEF Row, Dirty
      <3>3. QED BY <1>3, <3>1, <3>2 DEF SilentRowsStay
    <2>3. QED BY <2>1, <2>2
  <1>8. QED BY <1>2, <1>3, <1>4, <1>6, <1>7, OthersStay, EventsStay DEF Step

LEMMA EventInvNext ==
    ASSUME "re_enrich" \notin Ops, TypeOK, EventInv, [Next]_vars
    PROVE  EventInv'
  <1>1. app \in [Apps -> Row]
    BY DEF TypeOK
  <1>2. ASSUME NEW w \in Workers, Step(w) PROVE EventInv'
    <2>1. workers[w].kind # "reenrich"
      BY DEF EventInv, HasCriteria
    <2>2. ~(\/ ReEnrichFlips(w) \/ ReEnrichLoads(w) \/ ReEnrichIsDisabled(w)
            \/ ReEnrichStarts(w) \/ ReEnrichEnds(w))
      BY <2>1 DEF ReEnrichFlips, ReEnrichLoads, ReEnrichIsDisabled, ReEnrichStarts,
             ReEnrichEnds, At
    <2>3. QED
      BY <1>2, <2>2, EventRunGoesOn, EventRunEnriches, EventRunEnds, EventRescore,
         EventOther DEF Step
  <1>3. ASSUME NEW a \in Apps, NEW target \in PatchTargets, PatchStage(a, target)
        PROVE  EventInv'
    <2>1. /\ UNCHANGED <<event, workers, lost>>
          /\ app' = [app EXCEPT ![a] = Patched(@, target)]
      BY <1>3 DEF PatchStage
    <2>2. \A b \in Apps : /\ app'[b].score = app[b].score
                          /\ \/ app'[b] = app[b]
                             \/ app'[b].stage \notin {"extracting", "enriching"}
      BY <1>1, <2>1 DEF Patched, Row, PatchTargets
    <2>3. QED BY <2>1, <2>2 DEF EventInv, EventIsTrue, HasCriteria, Scoring, Running, AwaitsPaste
  <1>4. CASE UNCHANGED <<app, event, workers, lost>>
    BY <1>4 DEF EventInv, EventIsTrue, HasCriteria, Scoring, Running, AwaitsPaste
  <1>5. CASE Crash \/ \E w \in Workers : Breaks(w)
    <2>1. PICK ws \in SUBSET Workers : Cut(ws)
      BY <1>5, CutsAreCuts
    <2>2. UNCHANGED <<app, event>>
      BY <1>5, CutsAreCuts
    <2>3. /\ \A w \in Workers : workers'[w] = Idle \/ workers'[w] = workers[w]
          /\ \A w \in Workers \ ws : workers'[w] = workers[w]
      BY <2>1, CutType
    <2>4. lost \subseteq lost'
      BY <2>1 DEF Cut
    <2>5. ASSUME NEW a \in Apps, NEW w \in Workers, Running(workers[w], a), a \notin lost'
          PROVE  workers'[w] = workers[w]
      <3>1. w \in Pending(a)
        BY <2>5 DEF Running, Pending
      <3>2. w \notin ws
        BY <2>1, <2>5, <3>1 DEF Cut
      <3>3. QED BY <2>3, <3>2
    <2>6. ASSUME NEW a \in Apps PROVE EventIsTrue(a)'
      <3>1. EventIsTrue(a)
        BY DEF EventInv
      <3>2. QED
        BY <2>2, <2>4, <2>5, <3>1 DEF EventIsTrue, Scoring, AwaitsPaste, Running
    <2>7. \A w \in Workers : HasCriteria(workers'[w])
      BY <2>3 DEF EventInv, HasCriteria, Idle
    <2>8. QED BY <2>6, <2>7 DEF EventInv, HasCriteria
  <1>6. QED
    BY <1>2, <1>3, <1>4, <1>5, EventRequest DEF Next, TokenExpires, vars

\* However many runs, retries, pastes, rescores, decisions and undos overlap, an
\* application that no run will move any more and that stopped in EXTRACTING or
\* ENRICHING shows why, asks for a paste, carries a score, or lost its last run
\* to a restart or to an exception outside the handlers of the run.
THEOREM NoStallIsSilent ==
    ASSUME "re_enrich" \notin Ops
    PROVE  Spec => []NoSilentStall
  <1>1. Init => EventInv
    BY DEF Init, EventInv, EventIsTrue, EnrichmentEvents, HasCriteria, Idle, NoRow
  <1>2. TypeOK /\ EventInv /\ [Next]_vars => EventInv'
    BY EventInvNext
  <1>3. TypeOK /\ EventInv => NoSilentStall
    <2> SUFFICES ASSUME TypeOK, EventInv, NEW a \in Apps, Stalled(a)
                 PROVE  \/ event[a] \in HaltingEvents
                        \/ AwaitsPaste(a)
                        \/ event[a] = "application.scored" /\ app[a].score # NoScore
                        \/ a \in lost
      BY DEF NoSilentStall
    <2>1. event[a] \in Events
      BY DEF TypeOK
    <2>2. \A w \in Workers : ~Running(workers[w], a)
      BY DEF Stalled, Pending, Running
    <2>3. QED
      BY <2>1, <2>2
         DEF EventInv, EventIsTrue, Events, HaltingEvents, EnrichmentEvents, Stalled, Scoring
  <1>4. QED BY <1>1, <1>2, <1>3, TypeCorrect, PTL DEF Spec

-----------------------------------------------------------------------------
(* The funnel.  Every commit writes the stage and the late dates of one     *)
(* row at most, so each step is one of the funnel's for that row, or none.  *)

\* The stage and the dates of a row, as the funnel has them.
FunnelStage(row) == IF row.stage \in Late THEN row.stage ELSE "outside"
FunnelDates(row) == row.stamps \cap Late

\* The stage and the late dates of the other rows stay.
OneRow(a) ==
    \A b \in Apps \ {a} : /\ FunnelStage(app'[b]) = FunnelStage(app[b])
                          /\ FunnelDates(app'[b]) = FunnelDates(app[b])

\* The words of the funnel, under the mapping.
LEMMA FunnelWords ==
    ASSUME NEW a \in Apps, OneRow(a)
    PROVE  /\ \A s : FunnelStage(app'[a]) = s => Funnel!Moves(a, s)
           /\ \A s : FunnelDates(app'[a]) = FunnelDates(app[a]) \cup {s} => Funnel!Dated(a, s)
           /\ FunnelDates(app'[a]) = FunnelDates(app[a]) =>
                [b \in Apps |-> app'[b].stamps \cap Late] = [b \in Apps |-> app[b].stamps \cap Late]
           /\ FunnelStage(app'[a]) = FunnelStage(app[a]) =>
                [b \in Apps |-> IF app'[b].stage \in Late THEN app'[b].stage ELSE "outside"]
                  = [b \in Apps |-> IF app[b].stage \in Late THEN app[b].stage ELSE "outside"]
  <1>1. ASSUME NEW s, FunnelStage(app'[a]) = s
        PROVE  Funnel!Moves(a, s)
    BY <1>1 DEF OneRow, FunnelStage, Funnel!Moves
  <1>2. ASSUME NEW s, FunnelDates(app'[a]) = FunnelDates(app[a]) \cup {s}
        PROVE  Funnel!Dated(a, s)
    BY <1>2 DEF OneRow, FunnelDates, Funnel!Dated
  <1>3. ASSUME FunnelDates(app'[a]) = FunnelDates(app[a])
        PROVE  [b \in Apps |-> app'[b].stamps \cap Late] = [b \in Apps |-> app[b].stamps \cap Late]
    BY <1>3 DEF OneRow, FunnelDates
  <1>4. ASSUME FunnelStage(app'[a]) = FunnelStage(app[a])
        PROVE  [b \in Apps |-> IF app'[b].stage \in Late THEN app'[b].stage ELSE "outside"]
                 = [b \in Apps |-> IF app[b].stage \in Late THEN app[b].stage ELSE "outside"]
    BY <1>4 DEF OneRow, FunnelStage
  <1>5. QED BY <1>1, <1>2, <1>3, <1>4

\* A commit that neither enters a late stage nor dates one.
LEMMA QuietRowIsFunnel ==
    ASSUME NEW a \in Apps, OneRow(a), mails' = mails,
           app'[a].stage = app[a].stage \/ app'[a].stage \notin Late,
           FunnelDates(app'[a]) = FunnelDates(app[a])
    PROVE  [Funnel!Next]_(Funnel!vars)
  <1>1. CASE FunnelStage(app'[a]) = FunnelStage(app[a])
    BY <1>1, FunnelWords DEF Funnel!vars
  <1>2. CASE app'[a].stage \notin Late
    <2>1. FunnelStage(app'[a]) = "outside"
      BY <1>2 DEF FunnelStage
    <2>2. Funnel!Leave(a)
      BY <2>1, FunnelWords DEF Funnel!Leave
    <2>3. QED BY <2>2 DEF Funnel!Next
  <1>3. QED BY <1>1, <1>2 DEF FunnelStage

\* A step that leaves rows and mails alone.
LEMMA NothingIsFunnel ==
    ASSUME UNCHANGED <<app, mails>>
    PROVE  [Funnel!Next]_(Funnel!vars)
  BY DEF Funnel!vars

LEMMA InitIsFunnel == Init => Funnel!Init
  BY DEF Init, NoRow, Late, Funnel!Init

\* New rows, runs and rescores.
LEMMA RunIsFunnel ==
    ASSUME TypeOK, TypeOK', NEW w \in Workers, Request(w) \/ Step(w),
           ~ReEnrichEnds(w), ~NotifySends(w), ~NotifyCommits(w)
    PROVE  [Funnel!Next]_(Funnel!vars)
  <1>1. /\ app \in [Apps -> Row] /\ app' \in [Apps -> Row] /\ workers \in [Workers -> Worker]
    BY DEF TypeOK
  <1>2. CASE UNCHANGED <<app, mails>>
    BY <1>2, NothingIsFunnel
  <1>3. ASSUME NEW a \in Apps, mails' = mails,
               \A b \in Apps \ {a} : app'[b] = app[b],
               app'[a].stage = app[a].stage \/ app'[a].stage \notin Late,
               FunnelDates(app'[a]) = FunnelDates(app[a])
        PROVE  [Funnel!Next]_(Funnel!vars)
    BY <1>3, QuietRowIsFunnel DEF OneRow
  <1>4. ASSUME NEW a \in Apps, AddCandidate(w, a) \/ AddLinkedInCandidate(w, a)
        PROVE  [Funnel!Next]_(Funnel!vars)
    <2>1. PICK l \in BOOLEAN :
              app' = [app EXCEPT ![a].stage = "extracting", ![a].linkedin = l]
      BY <1>4, NewRow
    <2>2. mails' = mails
      BY <1>4 DEF AddCandidate, AddLinkedInCandidate
    <2>3. QED BY <1>1, <1>3, <2>1, <2>2 DEF Row, Late, FunnelDates
  <1>5. ASSUME RunStartsEnriching(w) \/ RunEnriches(w) \/ RunScores(w)
        PROVE  [Funnel!Next]_(Funnel!vars)
    <2> DEFINE a == workers[w].app
    <2>1. a \in Apps
      BY <1>5, CommitType DEF RunStartsEnriching, RunEnriches, RunScores, At, Runs
    <2>2. CASE RunStartsEnriching(w)
      <3>1. app' = [app EXCEPT ![a].stage = Dirty(@, workers[w].seen.stage, "enriching")]
            /\ mails' = mails
        BY <2>2 DEF RunStartsEnriching, DirtyStage
      <3>2. QED BY <1>1, <1>3, <2>1, <3>1 DEF Row, Late, FunnelDates, Dirty
    <2>3. CASE RunEnriches(w)
      <3>1. (app' = [app EXCEPT ![a].bundle = TRUE] \/ app' = app) /\ mails' = mails
        BY <2>3 DEF RunEnriches
      <3>2. QED BY <1>1, <1>3, <2>1, <3>1 DEF Row, FunnelDates
    <2>4. CASE RunScores(w)
      <3>1. app' = [app EXCEPT ![a].score = workers[w].crit,
                               ![a].stage = Dirty(@, workers[w].seen.stage, "scored")]
            /\ mails' = mails
        BY <2>4 DEF RunScores
      <3>2. QED BY <1>1, <1>3, <2>1, <3>1 DEF Row, Late, FunnelDates, Dirty
    <2>5. QED BY <1>5, <2>2, <2>3, <2>4
  <1>6. ASSUME ReEnrichFlips(w) \/ ReEnrichIsDisabled(w) \/ ReEnrichStarts(w)
        PROVE  [Funnel!Next]_(Funnel!vars)
    <2> DEFINE a == workers[w].app
               seen == workers[w].seen
    <2>1. a \in Apps
      <3>1. workers[w].kind = "reenrich"
        BY <1>6 DEF ReEnrichFlips, ReEnrichIsDisabled, ReEnrichStarts, At
      <3>2. QED BY <3>1, WorkerOfKind DEF TypeOK, ReEnrichments
    <2>2. CASE ReEnrichFlips(w)
      <3>1. app' = [app EXCEPT ![a].bundle = Dirty(@, seen.bundle, FALSE),
                               ![a].stage = Dirty(@, seen.stage, "enriching")]
            /\ mails' = mails
        BY <2>2 DEF ReEnrichFlips
      <3>2. QED BY <1>1, <1>3, <2>1, <3>1 DEF Row, Late, FunnelDates, Dirty
    <2>3. CASE ReEnrichIsDisabled(w)
      <3>1. app' = [app EXCEPT ![a].stage =
                      Dirty(@, seen.stage,
                            IF seen.stage = "enriching" THEN "scored" ELSE seen.stage)]
            /\ mails' = mails
        BY <2>3 DEF ReEnrichIsDisabled, DirtyStage
      <3>2. QED BY <1>1, <1>3, <2>1, <3>1 DEF Row, Late, FunnelDates, Dirty
    <2>4. CASE ReEnrichStarts(w)
      <3>1. app' = [app EXCEPT ![a].stage = Dirty(@, seen.stage, "enriching")]
            /\ mails' = mails
        BY <2>4 DEF ReEnrichStarts, DirtyStage
      <3>2. QED BY <1>1, <1>3, <2>1, <3>1 DEF Row, Late, FunnelDates, Dirty
    <2>5. QED BY <1>6, <2>2, <2>3, <2>4
  <1>7. ASSUME NEW a \in Apps, RescoresOne(w, a) PROVE [Funnel!Next]_(Funnel!vars)
    <2>1. (app' = [app EXCEPT ![a].score = workers[w].crit] \/ app' = app) /\ mails' = mails
      BY <1>7 DEF RescoresOne
    <2>2. QED BY <1>1, <1>3, <2>1 DEF Row, FunnelDates
  <1>8. CASE ToolCommits(w)
    <2> DEFINE a == workers[w].app
               target == workers[w].target
    <2>1. a \in Apps /\ target \in Decisions
      BY <1>8, WorkerOfKind DEF ToolCommits, TypeOK, ToolCalls
    <2>2. app' = [app EXCEPT ![a].stage = Dirty(@, workers[w].seen.stage, target),
                             ![a].stamps = @ \cup {target}]
          /\ mails' = mails
      BY <1>8 DEF ToolCommits
    <2>3. /\ app'[a].stage = Dirty(app[a].stage, workers[w].seen.stage, target)
          /\ app'[a].stamps = app[a].stamps \cup {target}
          /\ \A b \in Apps \ {a} : app'[b] = app[b]
      BY <1>1, <2>1, <2>2 DEF Row
    <2>4. FunnelDates(app'[a]) = FunnelDates(app[a])
      BY <2>1, <2>3 DEF FunnelDates, Late, Decisions
    <2>5. app'[a].stage = app[a].stage \/ app'[a].stage \notin Late
      BY <2>1, <2>3 DEF Dirty, Late, Decisions
    <2>6. QED BY <1>3, <2>1, <2>2, <2>3, <2>4, <2>5
  <1>9. CASE UndoCommits(w)
    <2> DEFINE a == workers[w].app
               t == workers[w].token
    <2>1. a \in Apps /\ t.stage \in UndoStages
      BY <1>9, WorkerOfKind DEF UndoCommits, TypeOK, Undos, Token
    <2>2. app' = [app EXCEPT ![a].stage = Dirty(@, workers[w].seen.stage, t.stage),
                             ![a].stamps = UndoneStamps(@, workers[w].stamps, t.stamps)]
          /\ mails' = mails
      BY <1>9 DEF UndoCommits
    <2>3. UndoneStamps(app[a].stamps, workers[w].stamps, t.stamps) \cap Late
            = app[a].stamps \cap Late
      BY <1>1, <2>1 DEF UndoneStamps, Stamps, Decisions, Late
    <2>4. /\ app'[a].stage \in {app[a].stage, t.stage}
          /\ app'[a].stamps = UndoneStamps(app[a].stamps, workers[w].stamps, t.stamps)
          /\ \A b \in Apps \ {a} : app'[b] = app[b]
      BY <1>1, <2>1, <2>2 DEF Dirty, Row
    <2>5. t.stage \notin Late
      BY <2>1 DEF UndoStages, Late
    <2>6. QED BY <1>3, <2>1, <2>2, <2>3, <2>4, <2>5 DEF FunnelDates
  <1>10. QED
    BY <1>2, <1>4, <1>5, <1>6, <1>7, <1>8, <1>9
       DEF Request, Step, Retry, Paste, ReEnrichReads, ToolReads, NotifyReads, UpdateCriteria,
           UndoConsumes, GitHubAnswers, RunLoads, RunFlushes, RunFailsToExtract,
           RunSkipsEnriching, RunFailsToScore, ReEnrichLoads, RescoreLoads

\* A re-enrichment puts back a stage that the row is dated for, or leaves.
LEMMA ReEnrichmentIsFunnel ==
    ASSUME TypeOK, TypeOK', StageInv, NEW w \in Workers, ReEnrichEnds(w)
    PROVE  [Funnel!Next]_(Funnel!vars)
  <1>1. app \in [Apps -> Row] /\ app' \in [Apps -> Row]
    BY DEF TypeOK
  <1> PICK a \in Apps : a = workers[w].app
    BY WorkerOfKind DEF ReEnrichEnds, At, TypeOK, ReEnrichments
  <1> PICK seen : seen = workers[w].seen
    OBVIOUS
  <1> PICK restored : restored = Dirty(app[a].stage, "enriching", ReEnrichRestored(seen))
    OBVIOUS
  <1>2. workers[w].kind = "reenrich"
    BY DEF ReEnrichEnds, At
  <1>3. /\ app'[a].stage = restored /\ app'[a].stamps = app[a].stamps
        /\ \A b \in Apps \ {a} : app'[b] = app[b]
        /\ mails' = mails
    BY <1>1, <1>2 DEF ReEnrichEnds, Row
  <1>4. OneRow(a) /\ FunnelDates(app'[a]) = FunnelDates(app[a])
    BY <1>3 DEF OneRow, FunnelDates
  <1>5. CASE restored \notin Late \/ restored = app[a].stage
    BY <1>2, <1>3, <1>4, <1>5, QuietRowIsFunnel
  <1>6. CASE restored \in Late /\ restored # app[a].stage
    <2>1. restored = seen.stage
      BY <1>6 DEF Dirty, ReEnrichRestored, Late
    <2>2. DatedBy(restored) \in app[a].stamps
      BY <1>2, <1>6, <2>1 DEF StageInv, CoroutinesAreJustified, Justified
    <2>3. FunnelStage(app'[a]) = restored
      BY <1>3, <1>6 DEF FunnelStage
    <2>4. Funnel!DatedBy(restored) \in [b \in Apps |-> app[b].stamps \cap Late][a]
      BY <1>2, <1>6, <2>2 DEF Funnel!DatedBy, DatedBy, Late
    <2>5. Funnel!Return(a, restored)
      BY <1>2, <1>3, <1>4, <2>3, <2>4, FunnelWords DEF Funnel!Return
    <2>6. restored \in Funnel!Late
      BY <1>6 DEF Late, Funnel!Late
    <2>7. QED BY <1>2, <2>5, <2>6 DEF Funnel!Next
  <1>7. QED BY <1>5, <1>6

\* An invitation: the mail first, then the commit that it justifies.
LEMMA NotificationIsFunnel ==
    ASSUME TypeOK, TypeOK', StageInv, NEW w \in Workers, NotifySends(w) \/ NotifyCommits(w)
    PROVE  [Funnel!Next]_(Funnel!vars)
  <1> PICK a \in Apps : a = workers[w].app
    BY WorkerOfKind DEF NotifySends, NotifyCommits, At, TypeOK, Notifies
  <1>1. /\ app \in [Apps -> Row] /\ app' \in [Apps -> Row] /\ mails \in [Apps -> Nat]
    BY DEF TypeOK
  <1>2. workers[w].kind = "notify" /\ workers[w].seen.stage = "validated"
    BY WorkerOfKind DEF NotifySends, NotifyCommits, At, TypeOK, Notifies
  <1>3. CASE NotifySends(w)
    <2>1. CASE UNCHANGED <<app, mails>>
      BY <2>1, NothingIsFunnel
    <2>2. CASE mails' = [mails EXCEPT ![a] = @ + 1] /\ app' = app
      <3>1. Funnel!Mail(a)
        BY <2>2 DEF Funnel!Mail
      <3>2. QED BY <1>2, <3>1 DEF Funnel!Next
    <2>3. QED BY <1>3, <2>1, <2>2 DEF NotifySends
  <1>4. CASE NotifyCommits(w)
    <2>1. mails[a] > 0
      BY <1>2, <1>4 DEF NotifyCommits, At, StageInv, CoroutinesAreJustified, Justified
    <2>2. /\ app'[a].stage = "invited"
          /\ app'[a].stamps = app[a].stamps \cup {"invited"}
          /\ \A b \in Apps \ {a} : app'[b] = app[b]
          /\ mails' = mails
      BY <1>1, <1>2, <1>4 DEF NotifyCommits, Dirty, Row
    <2>3. /\ OneRow(a) /\ FunnelStage(app'[a]) = "invited"
          /\ FunnelDates(app'[a]) = FunnelDates(app[a]) \cup {"invited"}
      BY <2>2 DEF OneRow, FunnelStage, FunnelDates, Late
    <2>4. Funnel!Invite(a)
      BY <1>2, <2>1, <2>2, <2>3, FunnelWords DEF Funnel!Invite
    <2>5. QED BY <1>2, <2>4 DEF Funnel!Next
  <1>5. QED BY <1>3, <1>4

\* PATCH goes on by one stage, reopens a round, or leaves.
LEMMA PatchIsFunnel ==
    ASSUME TypeOK, NEW a \in Apps, NEW target \in PatchTargets, PatchStage(a, target)
    PROVE  [Funnel!Next]_(Funnel!vars)
  <1>1. app \in [Apps -> Row]
    BY DEF TypeOK
  <1>2. /\ ValidTransition(app[a].stage, target) /\ mails' = mails
        /\ app' = [app EXCEPT ![a] = Patched(@, target)]
    BY DEF PatchStage
  <1>3. /\ app'[a].stage = target
        /\ app'[a].stamps = Patched(app[a], target).stamps
        /\ \A b \in Apps \ {a} : app'[b] = app[b]
    BY <1>1, <1>2 DEF Patched, Row
  <1>4. /\ Patched(app[a], target).stamps =
             IF target = "scored" THEN app[a].stamps \ Decisions
             ELSE (app[a].stamps \ Reopened(app[a], target)) \cup {target}
    BY <1>1 DEF Patched, Row
  <1>5. OneRow(a)
    BY <1>3 DEF OneRow
  <1>6. CASE target \notin Late
    <2>1. FunnelDates(app'[a]) = FunnelDates(app[a])
      BY <1>3, <1>4, <1>6 DEF FunnelDates, Decisions, Late, Reopened
    <2>2. QED BY <1>2, <1>3, <1>5, <1>6, <2>1, QuietRowIsFunnel
  <1>7. CASE target \in Late
    <2>1. FunnelStage(app'[a]) = target
      BY <1>3, <1>7 DEF FunnelStage
    <2>2. CASE app[a].stage = "interviewed" /\ target = "scheduled"
      <3>1. FunnelDates(app'[a]) = (FunnelDates(app[a]) \ {"interviewed"}) \cup {"scheduled"}
        BY <1>3, <1>4, <2>2 DEF FunnelDates, Late, Reopened
      <3>2. [b \in Apps |-> app'[b].stamps \cap Late]
              = [[b \in Apps |-> app[b].stamps \cap Late] EXCEPT
                    ![a] = (@ \ {"interviewed"}) \cup {"scheduled"}]
        BY <1>5, <3>1 DEF OneRow, FunnelDates
      <3>3. [b \in Apps |-> IF app[b].stage \in Late THEN app[b].stage ELSE "outside"][a]
              = "interviewed"
        BY <2>2 DEF Late
      <3>4. Funnel!Reopen(a)
        BY <1>2, <1>5, <2>1, <2>2, <3>2, <3>3, FunnelWords DEF Funnel!Reopen
      <3>5. QED BY <3>4 DEF Funnel!Next
    <2>3. CASE ~(app[a].stage = "interviewed" /\ target = "scheduled")
      <3>1. app[a].stage \in HasForwardStage /\ ForwardStageAfter(app[a].stage) = target
        BY <1>2, <1>7, <2>3, PredecessorIsBefore DEF ValidTransition
      <3>2. /\ app[a].stage \in Late /\ app[a].stage \in DOMAIN Funnel!After
            /\ Funnel!After[app[a].stage] = target
        BY <3>1 DEF HasForwardStage, ForwardStageAfter, Funnel!After, Late
      <3>3. FunnelDates(app'[a]) = FunnelDates(app[a]) \cup {target}
        BY <1>3, <1>4, <1>7, <2>3 DEF FunnelDates, Late, Reopened
      <3>4. [b \in Apps |-> IF app[b].stage \in Late THEN app[b].stage ELSE "outside"][a]
              = app[a].stage
        BY <3>2
      <3>5. Funnel!Moves(a, target) /\ Funnel!Dated(a, target)
        BY <1>5, <2>1, <3>3, FunnelWords
      <3>6. Funnel!Advance(a)
        <4>1. Funnel!After[[b \in Apps |-> IF app[b].stage \in Late THEN app[b].stage
                                           ELSE "outside"][a]] = target
          BY <3>2, <3>4
        <4>2. QED
          BY <1>2, <3>2, <3>4, <3>5, <4>1 DEF Funnel!Advance, Funnel!Moves, Funnel!Dated
      <3>7. QED BY <3>6 DEF Funnel!Next
    <2>4. QED BY <2>2, <2>3
  <1>8. QED BY <1>6, <1>7

LEMMA StepIsFunnel ==
    TypeOK /\ TypeOK' /\ StageInv /\ [Next]_vars => [Funnel!Next]_(Funnel!vars)
  <1> SUFFICES ASSUME TypeOK, TypeOK', StageInv, [Next]_vars
               PROVE  [Funnel!Next]_(Funnel!vars)
    OBVIOUS
  <1>1. ASSUME NEW w \in Workers, Request(w) \/ Step(w)
        PROVE  [Funnel!Next]_(Funnel!vars)
    BY <1>1, RunIsFunnel, ReEnrichmentIsFunnel, NotificationIsFunnel
  <1>2. CASE UNCHANGED <<app, mails>>
    BY <1>2, NothingIsFunnel
  <1>3. QED
    BY <1>1, <1>2, PatchIsFunnel, CutsAreCuts DEF Next, TokenExpires, vars

\* However runs, tools, undos, invitations, re-enrichments and PATCH overlap, the
\* late stages and their dates are a behaviour of the funnel.
THEOREM PipelineImplementsFunnel == Spec => ImplementsFunnel
  <1>1. TypeOK /\ StageInv /\ [Next]_vars =>
            TypeOK' /\ StageInv' /\ [Funnel!Next]_(Funnel!vars)
    BY NextType, StageInvNext, StepIsFunnel
  <1>2. QED
    BY <1>1, InitType, StageInvInit, InitIsFunnel, PTL DEF Spec, ImplementsFunnel, Funnel!Spec
=============================================================================
