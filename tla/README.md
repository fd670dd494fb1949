# Recruiter Agent: TLA+ models, checks and proofs

Recruiter Agent is an applicant-tracking backend (FastAPI, SQLAlchemy on PostgreSQL) with a React
frontend. Requests and background tasks are coroutines of one event loop, each with a database session
of its own; a second process may run beside it in a deployment. What makes the backend hard to test is
that its rules live in one application row, while the coroutines that write this row read it long
before: an LLM call, an HTTP fetch or a mail lies between the read and the commit.

Paths below are relative to `src/src/recruiter/`.

## 1. Inventory

| component | state | operations | hard behaviours | what makes it correct |
|---|---|---|---|---|
| pipeline orchestrator (`pipeline/orchestrator.py`) | application stage, score, enrichment; candidate fields and `raw_extracted`; `event_logs` | `process_application`, `re_enrich_application`, `rescore_applications_for_job` | model calls between reads and commits, a row lock held across one, failures of each step, a flush outside of any `try`, restarts | nothing stalls silently, locks end with their run, scores match the criteria |
| application requests (`api/applications.py`) | stage, `*_at` columns, reason, notes | PATCH, retry, re-enrich | the transition rules against everyone who does not apply them | the funnel is entered only by its door and its timestamps are complete |
| candidate intake (`api/candidates.py`) | candidates, applications | add (text, URL, upload), paste, LinkedIn fetch chain | empty texts, fallback to GitHub, cookie renewal | every card gets a run, or says it awaits a paste |
| jobs (`api/jobs.py`) | criteria, title, description | create, update, suggest | rescore against a run in flight | scores follow the criteria |
| invitations (`api/notifications.py`, `notifications/`) | `notifications` rows | draft, notify | mail and commit are not atomic, a send may raise after the mail was accepted | no receipt is lost in any other way, every late stage was invited |
| chat agent (`agent/`, `api/chat.py`) | `chat_messages`, undo tokens | turn, tools, undo | tools and undo decide from old reads; turns broken off at any await or commit; Redis or in-memory tokens | one-shot undo, history replays, turns end |
| users and roles (`api/users.py`) | `users` | create, update, reset password | concurrent demotions under row locks | never without an active admin |
| logins and sessions (`api/auth.py`, `auth/`) | `auth_sessions`, OIDC states, the JWKS cache | OIDC, password, break-glass, logout, change of password | session created after revocation, bump of a deleted row, a bump that fails, rotated keys fetched across awaits | sessions fall with what they rest on, a state works once |
| interview rounds (`api/round_tracks.py`, `kit_tracks.py`, `interview_tracks.py`, `interviewers.py`) | round number, tracks, assignments | open, close, reopen, add and remove track, set interviewers | last two submits, reopening under a generation | nobody is left without a kit, a round closes once, past rounds do not change |
| kits and sheets (`api/interview.py`, `pipeline/interview_*.py`, `kit_store.py`) | kit per track, sheets | generate, edit, answer, submit | generation against edits and submits, a process that dies before or during one | submitted sheets never change |
| event bus (`events.py`, `api/events.py`) | listeners, queues | publish, subscribe | slow or failing listener | delivery in order to those subscribed |
| LLM clients (`llm/`) | none | complete, chat with tools | retries, timeouts | bounded retries |
| enrichment (`enrichment/`) | bundle with a TTL | discover, query, consolidate | concurrent providers, partial failure | a failing provider costs only its own results |
| LinkedIn access (`api/sourcing.py`, `sourcing/`, `api/candidates.py`) | cookie and credentials in `settings` | connect, paste, disconnect, fetch, reconnect | a browser login between the read and the commit | the row has what the admin decided last |
| settings (`api/settings.py`, `crypto.py`) | secrets in `settings` | get, save | partial saves, one blob for the mail account, a changed key | a secret changes only by name |
| guards (`api/deps.py`, `api/guards.py`, `auth/dev_bypass.py`) | rate-limit windows | permission checks | - | viewers write nothing |
| frontend | caches | pages | - | not modelled: every rule is the backend's |

The components meet in the `applications` row. `api/*` handlers and background tasks call each other
only through `BackgroundTasks`; the bus carries notifications for the browser and no decision depends
on it. Only PATCH and the interview endpoints lock the application row (`SELECT ... FOR UPDATE`); the
runs, the chat tools, undo, notify and re-enrich do not.

`PROJECT.json` lists the components with their source files, the hazards with the line where each
bites and the properties aimed at it, and the source lines each definition translates.

## 2. Modules

### ApplicationPipeline
The application row and everything that moves it: 4 kinds of background coroutine, 4 kinds of request
that read first and commit later, and PATCH, which is atomic because it holds the row lock.

*State.* `app[a]` is the row: `stage`, `score` (the version of the criteria it was computed from; 0 is
none), `bundle` (a fresh enrichment is stored), `stamps` (the `*_at` columns that are not
NULL). `raw[a]` is `candidates.raw_extracted` as committed, `lock[a]` the owner of the candidates row
lock, `event[a]` the newest `event_logs` row that matters, `criteria` the version of `job.criteria`,
`tokens` the live undo tokens, `mails` and `receipts` the mails sent and the `notifications` rows. Two are
histories that no guard reads: `lost`, the applications a coroutine was cut short for until a later run
writes its event, and `unrecorded`, the mails whose request ended between the server's acceptance and the commit.
`workers[w]` is a coroutine with its program counter and `seen`, its session's copy of the row.

*Stale copies.* Sessions use `expire_on_commit=False`, so a copy is never refreshed, and an UPDATE
writes only attributes whose new value differs from the copy. `Dirty(cur, seen, new)` is that rule. It
decides real cases: a second `SCORED` over a copy that says SCORED writes no stage and leaves another
request's decision alone, while over any other copy it overwrites it.

*Locks.* The first flush of a run takes the candidates row and keeps it, uncommitted, during the
extraction (`RunFlushes`); `Released` and `Persisted` say what any commit of that session does.

*Actions.* Each action is one stretch of a handler between two points where others may interleave:
`RunLoads`, `RunFlushes`, `RunFailsToExtract`, `RunStartsEnriching`, `RunSkipsEnriching`,
`RunEnriches`, `RunFailsToScore`, `RunScores` for `process_application`; `ReEnrichReads`, `...Flips`,
`...Loads`, `...IsDisabled`, `...Starts`, `...Ends` for re-enrichment, endpoint first; `UpdateCriteria`,
`RescoreLoads`, `RescoresOne`; `PatchStage`; `ToolReads`, `ToolCommits`; `UndoConsumes`, `UndoCommits`,
`TokenExpires`; `NotifyReads`, `NotifySends`, `NotifyCommits`; `Breaks`, `Crash`. A round that closes by itself
(`close_round_if_complete`, called by `submit_sheet`, `put_interviewers` and `remove_track` under the
row lock) changes this row exactly as `PatchStage(a, "interviewed")` does.

*What no handler catches.* `Breaks(w)` ends a coroutine between any two of its steps with its transaction rolled
back: the flush of the extracted fields (`pipeline/orchestrator.py:249`), which puts strings of the model into
columns of 64, 255 and 512 characters outside of any `try`, or a commit that finds the connection gone.
`Crash` does so to all of them. `NotifySends` has three outcomes, the third being a send that raises after the
server has accepted the mail.

*Left out.* Notes, `rejection_reason`, bus messages, the texts of answers, expiry of a stored bundle,
title and description edits, and the kits a PATCH to SCHEDULED opens, which InterviewRounds has.

`MCApplicationPipeline` adds the symmetry of workers and the view `NoHistory` (section 3).

### ApplicationFunnel
What ApplicationPipeline promises of the late stages, without who does it: an application is invited only after
a mail (`Mail`, `Invite`), goes on one stage at a time, each with its date (`Advance`), may have another round
(`Reopen`, which takes the date of the interview away) and may drop out at any moment (`Leave`). It comes
back without an invitation only to a stage it has been in (`Return`), which the date of that stage shows, for
INTERVIEWED that of the round before. The mapping is `stage <-` the stage if it is a late one and
`"outside"` if not, `dates <- stamps \cap Late` and the mails as they are. Scores, sessions' copies, coroutines,
tokens and restarts are not seen; most commits are stutters, and the others are one of its steps however stale
the copy they come from.

### UserAdmin
Roles and activation, at the level of row locks under READ COMMITTED. `_lock_active_admin_ids` takes
its snapshot in one step (`TakeSnapshot`), locks the rows of the snapshot one at a time in any order
(`LockRow`; the query has no ORDER BY) and counts a row only if its newest version still qualifies,
which is what PostgreSQL re-checks. The guard (`CheckLastAdmin`), the commit (`CommitUpdate`) and the
deadlock abort follow. The acting admin's row is read by `require_role` and not read again
(`LoadUser`), as in the session's identity map. The break-glass login reads without a lock and writes
what differs from its copy. Left out: passwords, sessions and email changes.

### UserRoster
The users table as the design describes it: a new account (`Create`), and a demotion or deactivation as one
step with the guard of the last admin on the table as it is then (`Demote`). UserAdmin implements it
where nobody is promoted; snapshot, locks, guard and aborts are stutters, and a commit is the step.

### InterviewRounds
The rounds of one application: tracks and their kits, the panel, the sheets, and generations.

*State.* `kits[r][t]` is the `interview_kits` row of round `r` and track `t`: its status and the ids of
its questions. `rows[r][u]` is the `interview_assignments` row with its sheet: the track, whether it is a
draft or submitted, and what it holds, the ids it answers and possibly more (`Notes`: the verdict). `round`
and `stage` are columns of the application row; `stage` tells apart SCHEDULED, INTERVIEWED and the rest.
`active` is `users.is_active`. `workers[w]` is a coroutine in flight: a request between the commit that marks
tracks as generating and its `dispatch_generation`, the tasks it has queued, a generation
that waits for the model with the kit it read, or a PATCH of a kit between its reads and its commit. `cut` is a history: the
tracks a coroutine was cut short for, until their generation is asked for again.

*Actions.* `StartRound`, `OpenNextRound`, `CloseByHand`, `LeaveInterview` are PATCH on the application
(with `start_round` and `open_next_round`); `AddTrack`, `RemoveTrack`, `PutInterviewers`, `PatchSheet`,
`SubmitSheet` and `GenerateKit` are the endpoints of their names. All of these hold the application row
from their read to their commit, so each is one step. What comes after the commit is `Dispatches`: the kits are
looked for again, those that need a model when there is none are failed by a second commit, and tasks are queued
for the others; only `generate_kit` queues its task at once. `Breaks` and `Restart` end one coroutine or all
between any two steps, with whatever they had still to do: the death of a process that
`pipeline/interview_kit.py:15` and `:75` speak of, and an exception nothing catches. `PatchKitReads`/`PatchKitCommits` are the one endpoint without the lock, and
`GenerationLoads`/`GenerationStores` a background run on both sides of its model call. A kit row that is
deleted and made again under a coroutine is another row (`there`): an unlocked PATCH then fails and a
generation writes to the new one.

*Abstractions.* Where the code takes the first of several kits for the people to be moved
(`adopt_orphan_rows`), the model takes any. The in-flight window of 90 seconds is a choice: with
"stale" in `Ops` it may be over at any time. A generation yields any questions nobody has seen before,
since their ids are fresh UUIDs, or fails; the fixed questions come from the snapshot in the kit. Left
out: texts, order, rewording, `closed_at` and other timestamps, what a reader may see. Templates are
never deleted in the model. Stages other than the two above are one, and scheduling from any of them is
allowed, which is more than `_validate_transition` allows.

*Composition.* ApplicationPipeline has the stage with its timestamps and every other writer of it;
InterviewRounds sees those as `LeaveInterview` and `StartRound`. The two meet in
`close_round_if_complete`, which is `PatchStage(a, "interviewed")` there.

### InterviewRecord
What InterviewRounds promises, without how: an abstract specification of the interviews of one application.
It knows the sheets of every round and the tracks they are on, and says which changes are possible: a
written sheet stays on its track until it is submitted and for good afterwards (`Moves`; a deactivated
author's draft may go), everything else may be rearranged as long as everybody is on a track
(`ChangePanel`, `Schedule`), a round closes with the change that completes it (`ClosesIfComplete`), and
the next one begins with the same people on empty sheets (`Reopen`). The one action `ChangePanel` stands for
adding and removing tracks, setting interviewers and the first kit of a round. The mapping is `sheets <- rows` and, for
`tracks`, the tracks that have a kit. Questions, statuses, generations and edits of kits are stutters of it,
whenever they commit.

### Logins
Every way into the application and every way out. A worker is one request. A login of any kind reads the
user, commits in one transaction (`LoginCommits`, `BreakGlassCommits`, `UpsertCommits`) and inserts the
session in another (`OpensSession`); a reset, change of password or deactivation (`Revokes`) flushes the users row, which
locks it, deletes the sessions it can see and commits later (`RevokeCommits`).

*State.* `users` and `sessions` are the tables, `states` the `oauth_states` rows, `exchanged` the states
whose code the provider has answered for, `keys` and `cache` the provider's signing key and
`_jwks_cache`, `now` a clock. A session row also carries histories: what its login rested on, whether
that login was overtaken by a revocation (`late`), when it was last used (a use whose due bump failed is not counted). `reverted` holds the users
whose old password a rehash wrote back.

*Actions.* `LoginReads` is `login_password` up to its commit; `StartSso`, `CallbackReads`,
`CallbackSpends`, `CallbackExchanges`, `CallbackChecksCache`, `ProviderAnswers`, `CallbackStoresKeys`,
`CallbackDecodes`, `UpsertCommits` are the OIDC login and callback, `get_jwks` on each side of its awaits: the
provider draws up its answer at one moment (`drawn`), and it is stored, and dated, at a later one.
`Authenticates`, `Touch` are `maybe_user` with the throttled bump, which may fail without the request failing, or
`AuthenticatesByBypass`; `ChangePassword`, `ResetPassword`, `Deactivate`, `Reactivate`, `Logout` the
endpoints. `Restart` loses the cache and the requests in flight, and seeds the default account, which may fail.

*Abstractions.* Verifying a hash is equality, what may be wrong with a token is a set of `Faults`, ten minutes are
`StateAges`. PKCE, cookies and redirects are left out; so is the count of admins, which UserAdmin has.

### UndoStore and OneShotTokens
`OneShotTokens` is the promise: a token is redeemed at most once, for its application, while it lives.
`UndoStore` has both backends: the one in memory consumes under its lock (`MemoryConsumes`), the one in
Redis with GET (`RedisPeeks`), then GETDEL (`RedisTakes`), with TTLs and restarts, which only the first forgets. The
mapping is `live <- Redeemable`, `answered <- handed`: an old entry in memory is still stored and no
longer live.

### AgentChat
The chat of one application over an embedded UndoStore. A turn (`turns[w]`) is the stream of POST /chat:
`PostChat`, `SavesUserMessage`, `Loads`, then up to `MaxSteps` questions to the LLM, each answered by
a text or by calls, which run one after another. `LlmRetries` is the client's loop over
429 and 5xx. A tool that writes reads the row when it is called (`ToolReads`), commits (`SavesNote`, `Decides`), issues a
token (`IssuesToken`), and its result is a message of its own. An undo consumes its token, reads the row and writes the token's
snapshot back (`PostUndo`, `UndoTakes`, `UndoReads`, `UndoCommits`).

*State.* `row` is the application with its stage, two stamps and notes, numbered by the writes that
made them, so that a test of restoration is exact. `replay` is what the provider would see of
`chat_messages`: calls still without result, and whether a message ever stood in a result's place. `made`
`BreaksOff` is a client that goes away at any await, or a commit that fails:
nothing in `run_turn` rolls the session back, so a tool that raises at its commit is followed by a message that
can not be committed, and the guard of `post_chat` ends the stream with the call open. So does a call whose id or name is longer
than its column. `disturbed` is the history of it. `Restart` is the process.

*Abstractions.* Texts and the tools that only read (`CallWritesNothing`, as is every refusal); `Patch`
stands for every other writer of the row, whose interleavings ApplicationPipeline has.

### Sourcing
The settings row with the LinkedIn access and the secrets in it. A worker is one request: a scrape of a profile
(`StartScrape`, `ApifyAnswers`, `ResolvesCookie`, `Reconnects`, `LoginSucceeds`, `LoginFails`,
`FetchAnswers`), a decision of the admin (connect with or without `remember`, pasted cookie,
disconnect: `StartDecision`, `DecisionReads`, `DecisionCommits`), or a GET or save of the settings
(`StartSave`, `SettingsRead`, `SettingsCreated`, `SaveCommits`).

*State.* `settings` is the row; a sealed value knows the key it was sealed with, and `Rekey` is a
restart with another one. `decision` is the last committed decision and `settled` says that nobody has
committed from a stale copy since. `SealedColumn` and `PlainColumn` are the rule of the session: a column set to what the
copy has is not written, and ciphertext, with its nonce, always differs.

*Abstractions.* A cookie or password is the account it belongs to. The API key stands for every secret
of `_apply_secret`. Decrypting under another key raises `ValueError`, which the LinkedIn path catches
and takes for unset, and which GET and the saves that need it do not catch.

## 3. Runs

| run | question | answer |
|---|---|---|
| PipelineRaces | runs, retries, re-enrichments, invitations and PATCH on one row | types; late stages were invited; timestamps complete; locks owned; all of it is a behaviour of the funnel |
| DecisionRaces | chat tools, undo, overlapping invitations, PATCH and a restart on one row | mails recorded, or broken off after they were accepted; all of it is a behaviour of the funnel |
| PipelineEnds | runs, retries, pastes, GitHub fallback, rescores, failures, caught or not, and a restart, under fairness | a stalled card has a score or an error to show, awaits a paste or lost its run; every coroutine ends |
| AdminRaces | two updates and break-glass logins | the count holds until the commit; a counted update leaves an admin |
| AdminDemotions | demotions only, locks in any order, under fairness | always an active admin; each update is one step at its commit; every request ends |
| RoundRaces | rescheduling, reopening, tracks and panels of two rounds, between drafts and submissions, with restarts | feedback keeps its kit; nobody stranded; a generating kit is being generated or was cut short; a round closes when complete; all of it is a behaviour of the record |
| SheetRaces | panels, deactivations, unlocked edits and repeated generations, with and without a model, with restarts, under fairness | feedback is kept; answered and frozen questions stay; a generation ends or is cut short |
| LoginRaces | logins of every kind, revocations, bumps, a clock, rotated keys and a restart | sessions fall with what they rest on, stay gone, last while used; states work once; new keys are picked up |
| ChatRaces | turns and undos over both stores, with breaks, a restart, retries and PATCH, under fairness | one token, one undo, which restores; notes survive; viewers write nothing; the history replays; turns end |
| SourcingRaces | connects, pastes, disconnects, scrapes with reconnects and saves, with a changed key, under fairness | the last decision holds; secrets change by name; every request ends |
| LastAdmin | an admin promoted while another is demoted | refuted, section 5 |
| ReEnrichStalls | a card without a score is re-enriched | refuted, section 5 |

*Bounds.* Two coroutines are enough for every race here: a stale commit needs one that is stale and one
that made it so, and PATCH needs no worker. One application: rows meet only in the loop of a rescore,
which commits them one by one. Two mails let two invitations overlap. One undo token at a time, since
two undos write back what a tool read just as one does; the theorems have no such bound. Two users let
two admins be demoted by each other, and the third comes with the theorems. One restart, at any point.
Two versions of the criteria, so that a run may hold the old one. InterviewRounds has two users, so that one
can complete a round another is in, two tracks, two rounds where reopening matters and one elsewhere, and
two coroutines: a generation against an edit, or against a second generation. SheetRaces has one
track and one generated question, which is enough for a kit to have it and lose it; RoundRaces has two tracks
and no questions. A kit that is made again under a generation of questions is in neither: for that
there are the theorems, which have no bound.
`Ops` selects the requests of an
instance so that each run stays small; between them the runs fire every action.

The three later modules choose a set of features (`Configs`) in their initial state, so that one run covers several
deployments. LoginRaces: two users (one with an SSO identity, who also is the break-glass account), two requests,
two sessions, two OIDC states, two revocations, one restart, one rotation; a session lives 3 ticks, is bumped after 2, the key
document lives 1, and 3 ticks pass, so that each of the three bounds is crossed. The second state is for two callbacks
that fetch a document each, so that an old one is stored over a new one: the constraint `SecondStateIsForKeys` lets it
be used where there is a clock and no session yet, since sessions and keys meet in nothing. Requests are
interchangeable and so are states (`WorkerSymmetry`; the run checks no liveness). ChatRaces: two turns
that overlap, two steps and two calls a turn, two attempts, four writes of the row, one token, two
clients that undo, two ticks against a TTL of 1. One token suffices: the stores treat tokens separately, and a
second tool finds no token, which the theorem, without the bound, does not need. SourcingRaces: two
accounts, so that access of one can be joined by that of the other, two SMTP passwords, one API key, two
requests, one changed key; its scrapes, decisions and saves are unbounded.

*View.* PipelineRaces compares states without the histories `lost` and `unrecorded` (`NoHistory`): no guard and none
of its five properties reads them, so states that differ in them only have the same future as far as the run asks.
DecisionRaces and PipelineEnds, which do ask, use no view.

*Deadlock checking is off* in every run: with the bounds used up the system rests, and so does the
program.

*Fairness.* Strong fairness of `Step(w)` for each coroutine, used by PipelineEnds and AdminDemotions.
Every await ends because the LLM and HTTP clients have timeouts and database calls return; the fairness
is strong because a coroutine that waits for a row lock is enabled again and again, and PostgreSQL
queues the waiters of a row, so none is overtaken for ever. SheetRaces assumes weak
fairness of `Generation(w)`: a request that has committed goes on to its dispatch and a task to its end, as
the event loop comes back to each, and the model call ends; unless `Breaks` or `Restart` comes first, which
`GenerationEnds` excepts and nothing forbids.
ChatRaces assumes it of `TurnStep(w)`: the database answers, and each request to the LLM ends with an answer
or the client's timeout; the breaks are not fair, nor is the store. SourcingRaces assumes it of `Step(w)`: the
navigations of the browser, Apify and the database end within their timeouts. Playwright's `page.evaluate`
(`pipeline/fetchers/linkedin_playwright.py:176`) has none of its own: that a script in the page returns is assumed. Requests are not fair: no one has to ask.

## 4. Proofs

Each module of a component has a module of theorems, named after it with `_proofs`, which also has the
refinement of ApplicationFunnel, UserRoster or OneShotTokens; that of InterviewRecord is in InterviewRecord_proofs. They hold for all
values of the constants that satisfy the module's assumption: any number of applications, coroutines,
tokens, mails, restarts, users, sessions, requests, tracks, rounds, turns, calls and accounts.

**TypeCorrect** (in each of them): `TypeOK` is inductive, in AgentChat with `Room` (below); one step per action,
with lemmas on what a worker of a kind looks like. No run checks the types of UserAdmin and InterviewRounds, which are proved.

**InvitedBeforeLate**, **CompleteTrail**. Neither invariant is inductive: a re-enrichment carries the
stage it read, possibly a late one, through arbitrary changes of the row and then writes it back, and
`NotifyCommits` writes INVITED on the word of an earlier step. The strengthening `StageInv` adds
`CoroutinesAreJustified`: a late stage remembered by a re-enrichment is one whose application was
mailed and whose timestamps are there, and a notify past its sending has a mail. It is preserved since
mails and the timestamps a late stage relies on only grow (`HistoryGrows`). For INTERVIEWED the trail
relies on `scheduled_at`: `interviewed_at` is cleared when a round is reopened, and a re-enrichment may
put INTERVIEWED back after that.

**LockIsNotLeaked**: `LockIsHeldByARun` is inductive given `TypeOK`.

**MailsRecorded**. `MailsAreRecorded` is an equation at every moment: mails are receipts, mails whose
request ended after the server accepted them, and requests in between (`Sent`). It is inductive given `TypeOK`.
`NotifySends` and `NotifyCommits` move one request in and out of the set, `Breaks` and `Crash` move a part of it to
`unrecorded`; each needs the set to be finite, which is why `ConstantsAssumption` takes `Workers`
finite, as the coroutines of a process are.

**NoStallIsSilent**. Nothing about the stages of the row is inductive here, since overlapping runs write
them over each other in any order. What is, is about the newest event: it is a failure that shows, or that of an
enrichment behind which a run still has to score or was cut short, or the score is there; and a row without any event
is worked on, awaits a paste or has lost its run (`EventInv`). Scores are replaced
and never taken away. The theorem is for instances without re-enrichment; with it the property is false, for
which the run ReEnrichStalls has the shortest case. The property accepts a row in ENRICHING that carries
a score and nobody works on: three coroutines suffice for one, the first scoring over a copy that says
SCORED and so writing no stage.

**PipelineImplementsFunnel**. It rests on `StageInv` and the types, one of which is that the copy of an
invitation in flight says VALIDATED. A commit writes the late stages and dates of one row, so each case is
about that row: it is quiet (`QuietRowIsFunnel`), leaves the funnel, enters it by an invitation with
a mail behind it, or returns to a stage that `CoroutinesAreJustified` says is dated. PATCH is the one step that reads
the row it writes; what `ValidTransition` lets pass is the next stage, another round or a way out
(`PredecessorIsBefore`). Nothing of it says that a stage that was decided stays: `Leave` and `Return`
are there because runs and re-enrichments do overwrite decisions.

**CountIsStable**: a row that a request has counted is locked by it, every writer of that row needs the
lock, so it stays an active admin until the request ends.
**CountedUpdateIsSafe**: with it, `CheckedBeforeCommit` (a request at its commit that counted admins
counted one besides its target, or its target is not one of them) carries the guard's decision to the
commit.
**NeverZeroAdmins**, under `NobodyIsPromoted` (no promotion, no break-glass login in the instance):
without those the snapshot cannot miss an admin it needs to count (`TargetsAreCounted`). The assumption
is not a convenience: the run LastAdmin shows the property false without it.
**UpdatesImplementRoster**, under the same assumption: at a commit the guard of `Demote` holds on the table as it
is, since an admin the request counted besides its target is still one (`CountedAdminsStay`,
`CheckedBeforeCommit`), and a target that is an active admin was counted (`TargetsAreCounted`). The columns are those
asked for or those that are there (`WrittenAsAsked`): an UPDATE leaves out what the copy already
says, so a stale copy brings back nothing somebody else has changed. With promotions a commit need not leave an admin,
as the same run shows.

**FeedbackKeepsItsKit**, **NobodyStranded**, **FeedbackIsKept**, **RoundsClose**. The two invariants need
each other: rescheduling keeps a track because somebody on it has written, which says something only if
the writer's track has a kit, and adoption moves the people without a kit, which is harmless only if none
of them has written. `RoundsInv` adds that a row that is not there is blank (`AbsentIsBlank`), and that
rounds to come are (`FutureIsBlank`), so that reopening finds neither kit nor row. Every request of the
live round is shown to be an `OrderlyStep`: it leaves the round `InOrder` and `KeepsFeedback`; from these
two facts the invariant and `FeedbackStays` follow once for all of them. Generations and edits touch no
row and make or delete no kit (`QuietStep`). For **RoundsClose** the steps that do not ask whether the
round is complete are shown not to complete it: a new track has nobody on it, an added interviewer and a
draft are not submitted, and the first kit of a round comes before anyone has submitted
(`FirstKitIsIncomplete`).

**AnswersAreKept**: a generation stores under the row lock, reading rows and kit again, so the theorem
needs only the types and the fact that the rows do not change meanwhile; what its copy of the kit said
before the model call does not enter.
**FrozenKitsKeep**: a submitted sheet is written, so its track has a kit (`RoundsInv`) and is spared by whatever
makes or removes one; regeneration looks at the freeze under the lock. The proof is where the last of
the three exceptions came from: `CoroutinesKeepFrozen` does not go through for a kit that was made again, and TLC
then found the trace with two tracks, two generations and a removal.
**FirstRoundWorkedOn**. That a generating kit has a generation on its way is not inductive: one that read the
kit when it was ready writes no status at its end, so it cannot be the one that is counted on. `Attended`
asks for a worker that `Resolves` the status: about to dispatch it, queued, or with a copy that says generating or is of a kit row
that has gone. A generation that is overtaken by another request leaves that request's own.
`DispatchAttends` shows that nobody is dropped between the commit and the tasks, and `CutsAttend` that whatever a
restart or exception drops is in `cut`.

**RoundsImplementRecord** (InterviewRecord_proofs): every step of InterviewRounds is a step of
InterviewRecord or a stutter. It rests on `RoundsInv`: that adoption only moves rows nobody has written on,
and that rescheduling takes nothing written away, hold in reachable states only. Each request that moves
people is shown to be a `Rearranges` from facts about single rows (`Rearrangement`), and those that do not ask
whether the round is complete leave the stage as `ClosesIfComplete` would (`ClosesStep`), for the reasons
given for RoundsClose.

**StoresImplementOneShot** (UndoStore_proofs): the refinement, step by step. The mapping needs that a
token's payload is answered at most once while it is stored (an entry handed out is out of the store), that
what is stored was issued (`EntriesAreIssued`), that only Redis has a request between its two commands
(`PeeksAreRedis`), and that what it peeked at belongs to the application it named (`PeeksAreOwned`); a tick
may expire any number of entries in one step of the abstract clock. **ChatTokensAreOneShot** carries it over
to AgentChat: each of its steps is a step of the store or leaves the store alone.

**AgentChat.** `TypeOK` says that writes stay within their bound, so its proof has to show that the guard
`RoomToWrite` leaves room for everything in flight: `Room` counts the tools and undos that will write, by
cardinalities, which is why the constants are assumed finite.
**ViewersDoNotWrite**, **CallsKeepNotes** rest on `FairTools` (a tool about to write was called by somebody
who may, on a copy as old as its call) and on `RowFrame`, which names the only steps that change the row.
**HistoryCanBeReplayed**: `HistoryReplays` speaks of the moments when nothing is in flight;
`Conversation` adds what holds in between: one turn at most, and as many open calls in the history as the
turn has left to answer. **UndoBringsBack**: the columns an undo writes are those where its copy differs from
the token's snapshot, so the result is the snapshot only if the copy is the row. `StampsFit` and `UndosFit`
show both: a copy as old as the last decision has that decision, at every step between the read of the tool
and the commit of the undo, because each decision has a number of its own.

**LastDecisionIsKept**, **SecretsAreKept** (Sourcing_proofs): `SourcingInv` adds `RowsWereRead`: a reconnect
or a save in flight has read a row, which is never deleted, a reconnect has an email, and a save that
retains a password found one, so a commit that fits its copy leaves what the decision said.

**SessionsAreRevoked** (Logins_proofs): what a session rests on can go only at the commit of a revocation,
so the invariant `Credentials` says what such a revocation holds in the meantime (`RevokerHolds`): it is the
only one of its user, since the flush takes the lock of the row; every live session of the user is in its
hands, is the one it spares, or was opened since and is late; and the one it spares belongs to the user,
because a request keeps the user of its session (`RequestIsOwned`). An active user is there and a user a
login has read stays there, so that neither the seeding nor a first login overwrites a row with sessions.
Every other step is shown to move users, sessions and requests in one of few ways, and `Steady` takes the
invariant through all of them at once.
**RevokedSessionsStayOut** and **SessionsLast** follow from what a step may do to a row (`SessionMoves`),
the second with `SessionsAreBumped`: a row expires TTL after its last bump and was used less than Throttle
after it, a use with a failed bump aside, which needs the code's threshold to be positive. **StatesWorkOnce**: `CodesAreSpent`, the state of
a code that was exchanged or is about to be is spent, and stays so. **RotatedKeysAreFetched**:
`CacheFollowsKeys`, a document without the key of the moment, cached or on its way to a callback, was
drawn up before the rotation. The bound is `CacheTTL` and the time between drawing up and storing: without that term
the run finds a document that was stored late and is used too long.

Only model-checked: `CoroutinesEnd`, `RequestsEnd` (UserAdmin and Sourcing), `GenerationEnds` and `TurnsEnd`,
which are liveness under fairness and out of the prover's reach, and the refuted statements, of which there
is nothing to prove.

## 5. Where the code and its words part

**LastAdmin** (run): the users-and-roles design says there are never zero active admins. An admin promoted after the
snapshot of a concurrent demotion is not counted by it, and two demotions leave nobody.

**ReEnrichStalls** (run): `pipeline/orchestrator.py:52` says a re-enrichment puts the stage back to what it was, and
`:100` that unscored candidates keep their prior stage. The endpoint commits ENRICHING before the task reads
`prior_stage` (`:67`), so without a score what is put back is ENRICHING, on success and on failure.

The models contain the following too; the properties leave them out by name or do not state them. Read from the code:

*Application.*
- `pipeline/orchestrator.py:123` says a card still on its way to a score will be scored against the current
  criteria. Its run scores against those it loaded at its start (`:288`), and the rescore of the edit
  passes over cards without a score.
- `api/applications.py:318` calls HIRED fully terminal; re-enrich (`:571`) moves it to ENRICHING and on to SCORED.
- The raw text is flushed and not committed before the extraction (`pipeline/orchestrator.py:231`), so a
  retry during the first run reads none.
- Two runs of one application may leave it in ENRICHING with a score: the last to write SCORED has a copy that says
  so already and writes no stage (`pipeline/orchestrator.py:307`).
- `agent/chat.py:69` says reversible until an invitation is sent, and the chat design
  (`docs/superpowers/specs/2026-05-01-plan-d-chat-panel-design.md:292`) that undo refuses with 409 if the
  state has drifted; undo assigns the old stage whatever the stage is (`api/chat.py:106`), and neither it nor
  the tools touch `rejection_reason`.

- `notifications/smtp.py:60` may raise after the server has accepted the mail, when its reply or the QUIT at the end of the
  `with` fails. `notify_endpoint` then ends with no `notifications` row and the stage at VALIDATED
  (`api/notifications.py:129`), and a second attempt mails again: `unrecorded`.
- `pipeline/orchestrator.py:249` flushes what the model wrote into columns of bounded length with nothing to catch
  the error. The run is lost, no event says so, and the card stays in EXTRACTING: `lost`. A failure
  of the commits on the error paths (`:244`, `:284`, `:300`) does the same.

*Rounds.*
- `pipeline/interview_sheets.py:30` says that once a sheet is submitted the question list must not lose rows. A
  PATCH of the kit checks this without the row lock and may commit after the submission
  (`api/interview.py:463`). So may a generation that began when the kit had no questions and is overtaken by
  another one (`:312`), or one whose kit was removed with its track and made again: it restores the
  questions of the kit it read (`:325`). `FrozenKitsKeepQuestions` excepts these three and nothing else.
- A reopened round carries over a kit that says "generating" (`api/round_tracks.py:139`), and the run that made it drops its
  result since the round has moved. It stays so until somebody asks again, which `FirstRoundIsWorkedOn`
  and `GenerationEnds` leave aside by speaking of the first round.

- A process that dies between the commit of a generating kit and its task, or during the model call, leaves the kit
  generating (`pipeline/interview_kit.py:75` says so), although `api/interview.py:346` speaks of no track left stuck; until
  somebody asks again, 90 seconds later: `cut`.

*Logins.*
- A login that has read the user before a reset or deactivation, and opens its session after the
  sessions were deleted, leaves a session (`api/auth.py:263`): `late`. The session of a deactivated user
  is refused at each request, and works again after a reactivation.
- A login whose hash needs a rehash writes it with the old password after a reset (`api/auth.py:381`): `reverted`.
- A bump that fails is logged and passed over (`api/deps.py:69`), so a session used in its last hours may end
  although it was in use.
- A JWKS document is dated by its arrival (`auth/oidc.py:140`) and stored over whatever is there: one drawn up before a rotation
  may outlive `_CACHE_TTL_SECONDS` from it, and may replace one that has the new key.
- The OIDC callback does not ask `is_active` before it opens a session.
- Two callbacks with one state may both pass its check; the provider then refuses the second code.
- The first two requests with the dev bypass may both insert the synthetic admin, and one fails, although
  `maybe_user` is said never to raise.
- A break-glass login whose copy already was an active admin writes nothing (`api/auth.py:338`), so a
  demotion committed meanwhile stands.

*Chat.*
- A turn that breaks off between its calls and their results (`agent/chat.py:178` to `:200`) leaves a history that a
  provider refuses from then on: the client goes away, or the commit of a tool or of its message fails and the guard of
  `api/chat.py:76` ends the stream. So do overlapping turns: `disturbed`.
- A failure to load the context leaves the user's message without an answer.

*LinkedIn access and settings.*
- A reconnect in flight puts a cookie back after a disconnect, of which `api/sourcing.py:270` says that
  nothing lingers, or clears one that was set meanwhile (`api/candidates.py:327`).
- `api/candidates.py:307` speaks of a definitive failure; timeouts and browser errors clear the cookie too (`:323`).
- A refused cookie of the environment makes a failed reconnect clear the stored cookie nobody had tried.
- A failed reconnect keeps the credentials, so each later scrape logs in again.
- Two pastes or connects that overlap may mix their columns (`api/sourcing.py:250`).
- A save that leaves the SMTP password out writes its copy's password back (`api/settings.py:126`); a
  revocation that saw no key does not revoke the one set meanwhile.
- Under a changed settings key GET and the saves of the mail account fail with 500.
- Two requests that create the settings row at once: one fails.

## 6. Not modelled

- *Event bus and SSE* (`events.py`, `api/events.py`): a list of callbacks and a queue per browser. No
  decision of the backend reads it, so nothing it loses shows in the state.
- *Enrichment and its providers*: stateless, a gather of HTTP queries that answer or fail. The pipeline sees a
  bundle or an exception.
- *LLM steps*: prompts, schemas and parsing; the models take every outcome. The Anthropic SDK retries inside itself.
- *Search, query suggestion, templates, rate limits, the origin check*: they change no state that the
  properties are about, or refuse requests.
- *Errors of Redis* other than an absent key and, in the chat, a token that can not be stored; and several processes sharing the store in memory, which the
  deployment is not meant to do.
- *Titles, descriptions, the text of notes, candidate profile edits*: no rule depends on them.
- *The frontend*: every rule is the backend's.

## 7. Plan

Done: ApplicationPipeline with the funnel, UserAdmin with the roster, InterviewRounds with the record,
UndoStore with the one-shot store, AgentChat, Sourcing and Logins, and theorems for every property but those of
liveness. Left, each with its refinement in the module of proofs of its component:

- the sessions of a user as an abstract specification (opened, used, gone, nothing in between) that Logins
  implements, with revocation as one step;
- connections and secrets as registers written by their owners' decisions, which Sourcing implements.
