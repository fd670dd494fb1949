------------------------------ MODULE AgentChat ------------------------------
(***************************************************************************)
(* The chat agent of one application: the turns of POST /chat              *)
(* (api/chat.py, agent/chat.py) with the tools they call (agent/tools.py)  *)
(* and the LLM client's retries (llm/), and the undo of what the tools did *)
(* (POST /undo) over the store of UndoStore.                               *)
(*                                                                         *)
(* A turn is a stream with a database session of its own, broken off at    *)
(* any await by a client that disconnects, a commit that fails or a        *)
(* restart.  The messages are kept as what a replay of them sees: the      *)
(* calls that have no result yet, and whether a message stands where a     *)
(* result should.                                                          *)
(***************************************************************************)
EXTENDS UndoStore, FiniteSets

CONSTANTS
    Workers,        \* slots for turns in flight
    App,            \* the application that is talked about
    Roles,          \* roles of the users
    Configs,        \* what happens in an instance: sets of features
    MaxSteps,       \* max_steps
    MaxCalls,       \* bound: calls in one answer of the LLM
    MaxAttempts,    \* _MAX_ATTEMPTS
    MaxTurns,       \* bound: turns where they may overlap, one turn elsewhere
    MaxWrites       \* bound: writes of the application's row

ASSUME ChatAssumption ==
    /\ App \in Apps
    /\ Roles \subseteq {"admin", "recruiter", "viewer"}
    /\ Configs \subseteq SUBSET {"overlap", "decisions", "undo", "patch", "breaks", "retries",
                                 "clock", "viewers"}
    /\ IsFiniteSet(Workers) /\ IsFiniteSet(Clients)
    /\ MaxSteps \in Nat \ {0} /\ MaxAttempts \in Nat \ {0} /\ MaxTurns \in Nat \ {0}
    /\ MaxCalls \in Nat /\ MaxWrites \in Nat

VARIABLES
    config,         \* the features of this instance
    row,            \* the application's row, as committed
    replay,         \* what a replay of chat_messages sees
    turns,          \* the turns in flight
    tool,           \* the write tool each of them is in
    undos,          \* the undo requests in flight
    made,           \* the decision each token undoes
    started,        \* turns so far
    disturbed       \* whether turns overlapped or one broke off in its calls (history)

chatVars == <<config, row, replay, turns, tool, undos, made, started, disturbed>>
vars == <<storeVars, chatVars>>

-----------------------------------------------------------------------------
(* The rows.                                                               *)

\* A stamp is the number of the write that made it, 0 for none; so is a note.
\* last is the last write of the decision.
Stages == {"scored", "validated", "rejected", "invited"}
Writes == 0..MaxWrites
Decision == [stage : Stages, validated : Writes, rejected : Writes]
Row == [decision : Decision, notes : SUBSET Writes, writes : Writes, last : Writes]

Replay == [open : 0..MaxCalls, broken : BOOLEAN]

WriteTools == {"save_note", "validate_application", "reject_application"}
DecidesFrom == {"scored", "validated", "rejected"}
UndoAllowedStages == {"scored", "validated", "rejected"}

\* loaded is the row as the system prompt's query saw it.
Turn == [pc : {"accepted", "loading", "asking", "calling", "writing", "issuing", "resulting",
               "stopping"},
         role : Roles, step : 1..MaxSteps, attempt : 1..MaxAttempts, calls : 0..MaxCalls,
         loaded : Row]
Idle == [pc |-> "idle"]

\* The row as a tool read it, and the notes there were when the call began.
Writing == [name : WriteTools, seen : Row, since : SUBSET Writes]
\* What a token carries, and two histories: the decision it undoes as it was, and
\* whether the tool had seen it.
Made == [snapshot : Decision, before : Decision, fresh : BOOLEAN, write : Writes]
None == [name |-> "none"]

Undo == [pc : {"reading", "writing"}, token : Tokens, role : Roles, seen : Decision]
NoUndo == [pc |-> "idle"]

NewRow == [decision |-> [stage |-> "scored", validated |-> 0, rejected |-> 0],
           notes |-> {}, writes |-> 0, last |-> 0]

Init ==
    /\ StoreInit
    /\ config \in Configs
    /\ row = NewRow
    /\ replay = [open |-> 0, broken |-> FALSE]
    /\ turns = [w \in Workers |-> Idle]
    /\ tool = [w \in Workers |-> None]
    /\ undos = [c \in Clients |-> NoUndo]
    /\ made = [t \in Tokens |-> None]
    /\ started = 0
    /\ disturbed = FALSE

At(w, pc) == turns[w].pc = pc
Goes(w, pc) == turns' = [turns EXCEPT ![w].pc = pc]
Ends(w) == turns' = [turns EXCEPT ![w] = Idle]
InCalls(w) == turns[w].pc \in {"calling", "writing", "issuing", "resulting"}

\* The turn ends where it is, with the messages committed so far.
Breaks(w) ==
    /\ Ends(w)
    /\ tool' = [tool EXCEPT ![w] = None]
    /\ disturbed' = (disturbed \/ InCalls(w))
    /\ UNCHANGED replay

\* A message of a user or of the assistant, with n calls.
Says(n) == replay' = [open |-> n, broken |-> replay.broken \/ replay.open > 0]

-----------------------------------------------------------------------------
(* viewer_readonly_guard: chat is the one of these routes a viewer has.    *)
Permitted(role, route) == role = "viewer" => route = "chat"

\* post_chat: extracted applications only, and all of Stages are.
PostChat(w, role) ==
    /\ turns[w] = Idle
    /\ Permitted(role, "chat") /\ role = "viewer" => "viewers" \in config
    /\ started < IF "overlap" \in config THEN MaxTurns ELSE 1
    /\ started' = started + 1
    /\ turns' = [turns EXCEPT ![w] = [pc |-> "accepted", role |-> role, step |-> 1, attempt |-> 1,
                                      calls |-> 0, loaded |-> NewRow]]
    /\ disturbed' = (disturbed \/ \E other \in Workers : turns[other] # Idle)
    /\ UNCHANGED <<storeVars, config, row, replay, tool, undos, made>>

\* The user's message is committed, then the context and the history are read.
SavesUserMessage(w) ==
    /\ At(w, "accepted")
    /\ Says(0) /\ Goes(w, "loading")
    /\ UNCHANGED <<storeVars, config, row, tool, undos, made, started, disturbed>>

Loads(w) ==
    /\ At(w, "loading")
    /\ turns' = [turns EXCEPT ![w].pc = "asking", ![w].loaded = row]
    /\ UNCHANGED <<storeVars, config, row, replay, tool, undos, made, started, disturbed>>

LoadFails(w) ==
    /\ At(w, "loading")
    /\ Ends(w)
    /\ UNCHANGED <<storeVars, config, row, replay, tool, undos, made, started, disturbed>>

-----------------------------------------------------------------------------
(* llm.chat_with_tools.                                                    *)

\* Mutant: off by one at the last attempt.
LlmRetriesOnceMore(w) ==
    /\ "retries" \in config
    /\ At(w, "asking") /\ turns[w].attempt <= MaxAttempts
    /\ turns' = [turns EXCEPT ![w].attempt = @ + 1]
    /\ UNCHANGED <<storeVars, config, row, replay, tool, undos, made, started, disturbed>>

\* OpenAICompatLLMClient._post: a 429 or a 5xx is tried again.
LlmRetries(w) ==
    /\ "retries" \in config
    /\ At(w, "asking") /\ turns[w].attempt < MaxAttempts
    /\ turns' = [turns EXCEPT ![w].attempt = @ + 1]
    /\ UNCHANGED <<storeVars, config, row, replay, tool, undos, made, started, disturbed>>

\* The turn ends with a text, or with an error for one: any other refusal, that of
\* the last attempt, a lost connection.
LlmEndsTurn(w) ==
    /\ At(w, "asking")
    /\ Says(0) /\ Ends(w)
    /\ UNCHANGED <<storeVars, config, row, tool, undos, made, started, disturbed>>

LlmCallsTools(w, n) ==
    /\ At(w, "asking")
    /\ Says(n)
    /\ turns' = [turns EXCEPT ![w].pc = "calling", ![w].calls = n]
    /\ UNCHANGED <<storeVars, config, row, tool, undos, made, started, disturbed>>

-----------------------------------------------------------------------------
(* The bounds on writes and tokens leave room for what is in flight.       *)

UndoIsIdle(c) == undos[c] = NoUndo /\ peeks[c] = NoPeek
RoomToWrite == row.writes + Cardinality({w \in Workers : At(w, "writing")})
                          + Cardinality({c \in Clients : ~UndoIsIdle(c)}) < MaxWrites

Deciding(w) ==
    \/ At(w, "writing") /\ tool[w].name # "save_note"
    \/ At(w, "issuing")
TokensLeft == Cardinality({t \in Tokens : body[t] = NoBody})
                > Cardinality({w \in Workers : Deciding(w)})

-----------------------------------------------------------------------------
(* The calls of one answer, one after the other.                           *)

\* Mutant: the loop has no end.
NextStepUncounted(turn) == [turn EXCEPT !.pc = "asking", !.attempt = 1]

\* After the last call the LLM is asked again, MaxSteps times in all.
NextStep(turn) ==
    IF turn.step = MaxSteps THEN [turn EXCEPT !.pc = "stopping"]
    ELSE [turn EXCEPT !.pc = "asking", !.attempt = 1, !.step = @ + 1]

\* The tool's message is committed, with an error for a result if the tool raised;
\* where that fails, the turn breaks off.
Results(w) ==
    LET turn == [turns[w] EXCEPT !.calls = @ - 1, !.pc = "calling"]
    IN  /\ turns' = [turns EXCEPT ![w] = IF turn.calls = 0 THEN NextStep(turn) ELSE turn]
        /\ tool' = [tool EXCEPT ![w] = None]
        /\ replay' = IF replay.open > 0 THEN [replay EXCEPT !.open = @ - 1]
                     ELSE [replay EXCEPT !.broken = TRUE]
        /\ UNCHANGED disturbed

\* Mutant: the exception of a tool is logged, and its call left without a message.
CallIsDropped(w) ==
    LET turn == [turns[w] EXCEPT !.calls = @ - 1]
    IN  /\ At(w, "calling")
        /\ turns' = [turns EXCEPT ![w] = IF turn.calls = 0 THEN NextStep(turn) ELSE turn]
        /\ UNCHANGED <<storeVars, config, row, replay, tool, undos, made, started, disturbed>>

\* A tool that only reads, one that is not there, and every refusal of the others.
CallWritesNothing(w) ==
    /\ At(w, "calling")
    /\ Results(w)
    /\ UNCHANGED <<storeVars, config, row, undos, made, started>>

\* Mutant: tools_for is trusted.
MayWriteIfOffered(role) == role \in Roles

\* Each handler asks for the role again, whatever tools_for offered the LLM.
MayWrite(role) == role # "viewer"

CallStarts(w, name) ==
    /\ At(w, "calling") /\ MayWrite(turns[w].role)
    /\ RoomToWrite
    /\ name # "save_note" => "decisions" \in config /\ TokensLeft

\* Mutant: the row the prompt was made of serves the tools too.
ToolReadsLoaded(w, name) ==
    /\ CallStarts(w, name)
    /\ name # "save_note" => turns[w].loaded.decision.stage \in DecidesFrom
    /\ tool' = [tool EXCEPT ![w] = [name |-> name, seen |-> turns[w].loaded, since |-> row.notes]]
    /\ Goes(w, "writing")
    /\ UNCHANGED <<storeVars, config, row, replay, undos, made, started, disturbed>>

\* The row is read for each call: nothing keeps the session's copy alive between.
ToolReads(w, name) ==
    /\ CallStarts(w, name)
    /\ name # "save_note" => row.decision.stage \in DecidesFrom
    /\ tool' = [tool EXCEPT ![w] = [name |-> name, seen |-> row, since |-> row.notes]]
    /\ Goes(w, "writing")
    /\ UNCHANGED <<storeVars, config, row, replay, undos, made, started, disturbed>>

\* The UPDATE sets the columns that differ from the copy.
Decided(decision, name, seen, n) ==
    IF name = "validate_application"
    THEN [decision EXCEPT !.stage = IF seen.stage # "validated" THEN "validated" ELSE @,
                          !.validated = n]
    ELSE [decision EXCEPT !.stage = IF seen.stage # "rejected" THEN "rejected" ELSE @,
                          !.rejected = n]

\* A rejection is always noted, a validation if the call has a text.
WithNote(notes, seen, n, noted) == IF noted THEN seen \cup {n} ELSE notes

SavesNote(w) ==
    LET n == row.writes + 1
    IN  /\ At(w, "writing") /\ tool[w].name = "save_note"
        /\ row' = [row EXCEPT !.writes = n, !.notes = WithNote(@, tool[w].seen.notes, n, TRUE)]
        /\ Goes(w, "resulting")
        /\ UNCHANGED <<storeVars, config, replay, tool, undos, made, started, disturbed>>

Decides(w, noted) ==
    LET n == row.writes + 1
        name == tool[w].name
        seen == tool[w].seen
    IN  /\ At(w, "writing") /\ name # "save_note"
        /\ name = "reject_application" => noted
        /\ row' = [decision |-> Decided(row.decision, name, seen.decision, n),
                   notes |-> WithNote(row.notes, seen.notes, n, noted),
                   writes |-> n, last |-> n]
        /\ tool' = [tool EXCEPT ![w] = [snapshot |-> seen.decision, before |-> row.decision,
                                        fresh |-> seen.last = row.last, write |-> n]]
        /\ Goes(w, "issuing")
        /\ UNCHANGED <<storeVars, config, replay, undos, made, started, disturbed>>

\* The token is issued after the commit, and given away in the result, if that is
\* committed.
IssuesToken(w, t) ==
    /\ At(w, "issuing")
    /\ Issue(t, App)
    /\ made' = [made EXCEPT ![t] = tool[w]]
    /\ Results(w) \/ ("breaks" \in config /\ Breaks(w))
    /\ UNCHANGED <<config, row, undos, started>>

\* A note has no token, and a decision none if Redis fails to store it.
EndsWithoutToken(w) ==
    /\ \/ At(w, "resulting")
       \/ At(w, "issuing") /\ backend = "redis" /\ "breaks" \in config
    /\ Results(w)
    /\ UNCHANGED <<storeVars, config, row, undos, made, started>>

\* "max iterations reached"
Stops(w) ==
    /\ At(w, "stopping")
    /\ Says(0) /\ Ends(w)
    /\ UNCHANGED <<storeVars, config, row, tool, undos, made, started, disturbed>>

-----------------------------------------------------------------------------
(* post_undo.                                                              *)

\* The store's answer: a payload, or 410.
Proceeds(c, t, a, role) ==
    undos' = IF handed' # handed /\ a = App
             THEN [undos EXCEPT ![c] = [pc |-> "reading", token |-> t, role |-> role,
                                        seen |-> NewRow.decision]]
             ELSE undos

PostUndo(c, t, a, role) ==
    /\ "undo" \in config
    /\ UndoIsIdle(c) /\ RoomToWrite
    /\ Permitted(role, "undo") /\ body[t] # NoBody
    /\ \/ MemoryConsumes(t, a) /\ Proceeds(c, t, a, role)
       \/ RedisPeeks(c, t, a) /\ undos' = undos
    /\ UNCHANGED <<config, row, replay, turns, tool, made, started, disturbed>>

UndoTakes(c, role) ==
    /\ RedisTakes(c) /\ Permitted(role, "undo")
    /\ Proceeds(c, peeks[c].token, peeks[c].app, role)
    /\ UNCHANGED <<config, row, replay, turns, tool, made, started, disturbed>>

UndoReads(c) ==
    /\ undos[c].pc = "reading"
    /\ undos' = IF made[undos[c].token].snapshot.stage \in UndoAllowedStages
                THEN [undos EXCEPT ![c].pc = "writing", ![c].seen = row.decision]
                ELSE [undos EXCEPT ![c] = NoUndo]
    /\ UNCHANGED <<storeVars, config, row, replay, turns, tool, made, started, disturbed>>

\* Mutant: the stamp of the other decision is left alone.
UndoneStage(decision, seen, old) ==
    [decision EXCEPT !.stage = IF seen.stage # old.stage THEN old.stage ELSE @,
                     !.validated = IF seen.validated # old.validated THEN old.validated ELSE @]

\* The columns that differ from the copy take the token's values.
Undone(decision, seen, old) ==
    [decision EXCEPT !.stage = IF seen.stage # old.stage THEN old.stage ELSE @,
                     !.validated = IF seen.validated # old.validated THEN old.validated ELSE @,
                     !.rejected = IF seen.rejected # old.rejected THEN old.rejected ELSE @]

UndoCommits(c) ==
    LET n == row.writes + 1
    IN  /\ undos[c].pc = "writing"
        /\ row' = [row EXCEPT !.writes = n, !.last = n,
                              !.decision = Undone(@, undos[c].seen, made[undos[c].token].snapshot)]
        /\ undos' = [undos EXCEPT ![c] = NoUndo]
        /\ UNCHANGED <<storeVars, config, replay, turns, tool, made, started, disturbed>>

-----------------------------------------------------------------------------
(* What goes on around the chat.                                           *)

\* patch_application and the invitation, each in one step here.
Patched(decision, target, n) ==
    CASE target = "scored"    -> [stage |-> target, validated |-> 0, rejected |-> 0]
      [] target = "validated" -> [decision EXCEPT !.stage = target, !.validated = n]
      [] target = "rejected"  -> [decision EXCEPT !.stage = target, !.rejected = n]
      [] target = "invited"   -> [decision EXCEPT !.stage = target]

ValidTransition(current, target) ==
    CASE target = "scored"    -> current \in {"validated", "rejected"}
      [] target = "validated" -> current = "scored"
      [] target = "rejected"  -> current # "rejected"
      [] target = "invited"   -> current = "validated"

Patch(target) ==
    LET n == row.writes + 1
    IN  /\ "patch" \in config /\ RoomToWrite
        /\ ValidTransition(row.decision.stage, target)
        /\ row' = [row EXCEPT !.writes = n, !.last = n, !.decision = Patched(@, target, n)]
        /\ UNCHANGED <<storeVars, config, replay, turns, tool, undos, made, started, disturbed>>

\* The chat of another application.
IssuesElsewhere(t, a) ==
    /\ "undo" \in config /\ a # App
    /\ TokensLeft
    /\ Issue(t, a)
    /\ UNCHANGED chatVars

TimePasses ==
    /\ "clock" \in config
    /\ Tick
    /\ UNCHANGED chatVars

\* The client goes away and the stream is cancelled where it waits; or a commit
\* fails, and the guard of post_chat ends the stream.  When the commit is a tool's
\* own, that of the tool's message fails after it: nothing has rolled back the
\* session in between.  So does that of a call whose id is too long for its column.
BreaksOff(w) ==
    /\ "breaks" \in config /\ turns[w] # Idle
    /\ Breaks(w)
    /\ UNCHANGED <<storeVars, config, row, undos, made, started>>

Restart ==
    /\ "breaks" \in config
    /\ StoreRestarts
    /\ turns' = [w \in Workers |-> Idle]
    /\ tool' = [w \in Workers |-> None]
    /\ undos' = [c \in Clients |-> NoUndo]
    /\ disturbed' = (disturbed \/ \E w \in Workers : InCalls(w))
    /\ UNCHANGED <<config, row, replay, made, started>>

-----------------------------------------------------------------------------
Asks(w) == LlmRetries(w) \/ LlmEndsTurn(w) \/ \E n \in 1..MaxCalls : LlmCallsTools(w, n)

Calls(w) ==
    \/ CallWritesNothing(w)
    \/ \E name \in WriteTools : ToolReads(w, name)
    \/ SavesNote(w) \/ EndsWithoutToken(w)
    \/ \E noted \in BOOLEAN : Decides(w, noted)
    \/ \E t \in Tokens : IssuesToken(w, t)

TurnStep(w) ==
    \/ SavesUserMessage(w) \/ Loads(w) \/ LoadFails(w)
    \/ Asks(w) \/ Calls(w) \/ Stops(w)

UndoStep(c) ==
    \/ \E t \in Tokens, a \in Apps, role \in Roles : PostUndo(c, t, a, role)
    \/ \E role \in Roles : UndoTakes(c, role)
    \/ UndoReads(c) \/ UndoCommits(c)

Next ==
    \/ \E w \in Workers : (\E role \in Roles : PostChat(w, role)) \/ TurnStep(w) \/ BreaksOff(w)
    \/ \E c \in Clients : UndoStep(c)
    \/ \E target \in Stages : Patch(target)
    \/ \E t \in Tokens, a \in Apps : IssuesElsewhere(t, a)
    \/ TimePasses \/ Restart

Spec == Init /\ [][Next]_vars

\* A turn's next step is due to happen: the database answers, and every request to
\* the LLM ends, by an answer or by the client's timeout.
FairSpec == Spec /\ \A w \in Workers : WF_vars(TurnStep(w))

-----------------------------------------------------------------------------
(* Properties.                                                             *)

\* Every variable stays in its type.
TypeOK ==
    /\ StoreTypeOK
    /\ config \in Configs
    /\ row \in Row
    /\ replay \in Replay
    /\ turns \in [Workers -> Turn \cup {Idle}]
    /\ tool \in [Workers -> Writing \cup Made \cup {None}]
    /\ undos \in [Clients -> Undo \cup {NoUndo}]
    /\ made \in [Tokens -> Made \cup {None}]
    /\ started \in 0..MaxTurns
    /\ disturbed \in BOOLEAN

\* Undoing the last decision brings back the one before it, stage and both stamps
\* as they were, if the tool had seen what it replaced and nobody has decided
\* since.
UndoRestores ==
    [][\A c \in Clients :
        LET m == made[undos[c].token]
        IN  undos[c].pc = "writing" /\ undos'[c] = NoUndo /\ row' # row =>
                (m.fresh /\ row.last = m.write => row'.decision = m.before)]_vars

\* A call loses no note that was in the row when the call began: the time the LLM
\* takes for its answers is no part of the window in which notes can be lost.
NotesAreKept ==
    [][\A n \in row.notes \ row'.notes :
            \E w \in Workers : At(w, "writing") /\ ~At(w, "writing")' /\ n \notin tool[w].since]_vars

\* The conversation can be replayed to the provider, every call followed by its
\* result, once no turn is in flight, whatever the tools refused and raised, unless
\* turns have overlapped or one broke off in the middle of its calls: its client went
\* away, the process restarted, or a commit failed.
HistoryReplays ==
    (\A w \in Workers : turns[w] = Idle) /\ ~disturbed => replay = [open |-> 0, broken |-> FALSE]

\* A viewer may talk, and nothing of the talk reaches the row, whichever tools the
\* LLM names; nor does a viewer's undo.
ViewersWriteNothing ==
    [][row' # row =>
        /\ \A w \in Workers : turns[w] # Idle /\ turns'[w] # turns[w] => turns[w].role # "viewer"
        /\ \A c \in Clients : undos[c] # NoUndo /\ undos'[c] # undos[c] => undos[c].role # "viewer"]_vars

\* Every turn ends: the LLM is asked MaxSteps times at most, each time with
\* MaxAttempts at most, and no tool waits for another turn.
TurnsEnd == \A w \in Workers : turns[w] # Idle ~> turns[w] = Idle
=============================================================================
