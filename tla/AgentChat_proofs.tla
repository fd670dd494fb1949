-------------------------- MODULE AgentChat_proofs --------------------------
(***************************************************************************)
(* Proofs about AgentChat, for any number of turns, undos, tokens, calls,  *)
(* steps, attempts and writes.                                             *)
(***************************************************************************)
EXTENDS AgentChat, UndoStore_proofs, FiniteSetTheorems

-----------------------------------------------------------------------------
(* The store under the chat.                                               *)

\* Every step of the chat is one of the store, or leaves the store alone.
LEMMA ChatStepsOfStore == [Next]_vars => [StoreNext]_storeVars
<1> SUFFICES ASSUME [Next]_vars PROVE [StoreNext]_storeVars
  OBVIOUS
<1>1. ASSUME NEW w \in Workers, NEW role \in Roles, PostChat(w, role)
      PROVE  UNCHANGED storeVars
  BY <1>1 DEF PostChat
<1>2. ASSUME NEW w \in Workers, TurnStep(w) PROVE [StoreNext]_storeVars
  <2>1. CASE SavesUserMessage(w) \/ Loads(w) \/ LoadFails(w) \/ Asks(w) \/ Stops(w)
    BY <2>1 DEF SavesUserMessage, Loads, LoadFails, Asks, LlmRetries, LlmEndsTurn, LlmCallsTools,
                Stops
  <2>2. CASE Calls(w)
    <3>1. ASSUME NEW t \in Tokens, IssuesToken(w, t) PROVE StoreNext
      BY <3>1, ChatAssumption DEF IssuesToken, StoreNext
    <3> QED
      BY <2>2, <3>1 DEF Calls, CallWritesNothing, ToolReads, SavesNote, EndsWithoutToken, Decides
  <2> QED
    BY <1>2, <2>1, <2>2 DEF TurnStep
<1>3. ASSUME NEW w \in Workers, BreaksOff(w) PROVE UNCHANGED storeVars
  BY <1>3 DEF BreaksOff
<1>4. ASSUME NEW c \in Clients, UndoStep(c) PROVE [StoreNext]_storeVars
  <2>1. ASSUME NEW t \in Tokens, NEW a \in Apps, NEW role \in Roles, PostUndo(c, t, a, role)
        PROVE  StoreNext
    BY <2>1 DEF PostUndo, StoreNext
  <2>2. ASSUME NEW role \in Roles, UndoTakes(c, role) PROVE StoreNext
    BY <2>2 DEF UndoTakes, StoreNext
  <2> QED
    BY <1>4, <2>1, <2>2 DEF UndoStep, UndoReads, UndoCommits
<1>5. ASSUME NEW target \in Stages, Patch(target) PROVE UNCHANGED storeVars
  BY <1>5 DEF Patch
<1>6. ASSUME NEW t \in Tokens, NEW a \in Apps, IssuesElsewhere(t, a) PROVE StoreNext
  BY <1>6 DEF IssuesElsewhere, StoreNext
<1>7. CASE TimePasses \/ Restart
  BY <1>7 DEF TimePasses, Restart, StoreNext
<1>8. CASE UNCHANGED vars
  BY <1>8 DEF vars
<1> QED
  BY <1>1, <1>2, <1>3, <1>4, <1>5, <1>6, <1>7, <1>8 DEF Next

\* The tokens of the chat keep the promise of OneShotTokens, whatever turns, undos, breaks and
\* restarts do to the store (agent/tools.py:347, api/chat.py:85).
THEOREM ChatTokensAreOneShot == Spec => ImplementsOneShot
<1>1. Init => StoreInit
  BY DEF Init
<1>2. Spec => StoreSpec
  BY <1>1, ChatStepsOfStore, PTL DEF Spec, StoreSpec
<1> QED
  BY <1>2, StoresImplementOneShot

-----------------------------------------------------------------------------
(* Types.                                                                  *)

\* A turn that writes or issues is in a tool that fits.
ToolsFit ==
    \A w \in Workers :
        /\ At(w, "writing") => tool[w] \in Writing
        /\ At(w, "issuing") => tool[w] \in Made

\* The writes to come have room within the bound.
WritingNow == {w \in Workers : At(w, "writing")}
UndoingNow == {c \in Clients : ~UndoIsIdle(c)}
Room == row.writes + Cardinality(WritingNow) + Cardinality(UndoingNow) <= MaxWrites

\* A request that has its token's payload has nothing more to take.
UndosHaveTaken == \A c \in Clients : undos[c] # NoUndo => peeks[c] = NoPeek

\* A turn among its calls has one left.
CallsLeft == \A w \in Workers : InCalls(w) => turns[w].calls > 0

Turns == turns \in [Workers -> Turn \cup {Idle}]
Types == StoreInv /\ TypeOK /\ ToolsFit /\ CallsLeft /\ Room /\ UndosHaveTaken

LEMMA NewRowType == NewRow \in Row
<1>1. 0 \in Writes /\ {} \in SUBSET Writes
  BY ChatAssumption DEF Writes
<1>2. NewRow.decision \in Decision
  BY <1>1 DEF NewRow, Decision, Stages
<1> QED
  BY <1>1, <1>2 DEF NewRow, Row

LEMMA TurnMoves ==
    ASSUME Turns, NEW w \in Workers, NEW rec \in Turn \cup {Idle},
           turns' = [turns EXCEPT ![w] = rec]
    PROVE  /\ Turns'
           /\ turns'[w] = rec
           /\ \A v \in Workers \ {w} : turns'[v] = turns[v]
  BY DEF Turns

TurnPcs == {"accepted", "loading", "asking", "calling", "writing", "issuing", "resulting",
            "stopping"}

LEMMA TurnFields ==
    ASSUME Turns, NEW w \in Workers, turns[w] # Idle
    PROVE  /\ turns[w] \in Turn
           /\ turns[w].pc \in TurnPcs /\ turns[w].role \in Roles
           /\ turns[w].step \in 1..MaxSteps /\ turns[w].attempt \in 1..MaxAttempts
           /\ turns[w].calls \in 0..MaxCalls /\ turns[w].loaded \in Row
<1>1. turns[w] \in Turn
  BY DEF Turns
<1> QED
  BY <1>1 DEF Turn, TurnPcs

\* A turn at a place of its own is a turn.
LEMMA AtTurn ==
    ASSUME NEW w \in Workers, NEW pc \in TurnPcs, At(w, pc)
    PROVE  turns[w] # Idle
  BY DEF At, Idle, TurnPcs

LEMMA GoesType ==
    ASSUME Turns, NEW w \in Workers, turns[w] # Idle, NEW pc \in TurnPcs, Goes(w, pc)
    PROVE  /\ Turns'
           /\ turns'[w] = [turns[w] EXCEPT !.pc = pc] /\ turns'[w] \in Turn
           /\ turns'[w].pc = pc /\ turns'[w].role = turns[w].role
           /\ turns'[w].calls = turns[w].calls
           /\ \A v \in Workers \ {w} : turns'[v] = turns[v]
<1> DEFINE rec == [turns[w] EXCEPT !.pc = pc]
<1>1. turns[w] \in Turn
  BY DEF Turns
<1>2. rec \in Turn /\ rec.pc = pc /\ rec.role = turns[w].role /\ rec.calls = turns[w].calls
  BY <1>1 DEF Turn, TurnPcs
<1>3. turns' = [turns EXCEPT ![w] = rec]
  BY DEF Goes
<1>4. /\ Turns' /\ turns'[w] = rec
      /\ \A v \in Workers \ {w} : turns'[v] = turns[v]
  BY <1>2, <1>3, TurnMoves
<1> QED
  BY <1>2, <1>4

LEMMA SaysType ==
    ASSUME replay \in Replay, NEW n \in 0..MaxCalls, Says(n)
    PROVE  replay' \in Replay /\ replay'.open = n
  BY DEF Replay, Says

\* After a result: one call less, and with the last of them the next step.
LEMMA ResultsType ==
    ASSUME Turns, replay \in Replay, NEW w \in Workers, InCalls(w), turns[w].calls > 0, Results(w)
    PROVE  /\ Turns' /\ replay' \in Replay
           /\ turns'[w] \in Turn /\ turns'[w].role = turns[w].role
           /\ \/ turns'[w].pc = "calling" /\ turns'[w].calls = turns[w].calls - 1
                                          /\ turns'[w].calls > 0
              \/ turns'[w].pc \in {"asking", "stopping"} /\ turns[w].calls = 1
           /\ \A v \in Workers \ {w} : turns'[v] = turns[v]
           /\ replay.open > 0 => replay'.open = replay.open - 1 /\ replay'.broken = replay.broken
<1> DEFINE turn == [turns[w] EXCEPT !.calls = @ - 1, !.pc = "calling"]
           rec == IF turn.calls = 0 THEN NextStep(turn) ELSE turn
<1>1. turns[w] # Idle
  BY DEF InCalls, Idle
<1>2. turns[w] \in Turn /\ turns[w].calls \in 0..MaxCalls
  BY <1>1, TurnFields
<1>3. turn \in Turn /\ turn.role = turns[w].role /\ turn.calls = turns[w].calls - 1
          /\ turn.pc = "calling" /\ turn.step \in 1..MaxSteps
  <2>1. turns[w].calls - 1 \in 0..MaxCalls
    BY <1>2, ChatAssumption
  <2>2. \A r \in Turn, n \in 0..MaxCalls :
            LET x == [r EXCEPT !.calls = n, !.pc = "calling"]
            IN  x \in Turn /\ x.role = r.role /\ x.calls = n /\ x.pc = "calling"
                        /\ x.step \in 1..MaxSteps
    BY DEF Turn
  <2> QED
    BY <1>2, <2>1, <2>2
<1>4. NextStep(turn) \in Turn /\ NextStep(turn).role = turn.role
          /\ NextStep(turn).pc \in {"asking", "stopping"}
  <2>1. CASE turn.step = MaxSteps
    BY <1>3, <2>1 DEF NextStep, Turn
  <2>2. CASE turn.step # MaxSteps
    <3>1. turn.step + 1 \in 1..MaxSteps /\ 1 \in 1..MaxAttempts
      BY <1>3, <2>2, ChatAssumption
    <3> QED
      BY <1>3, <2>2, <3>1 DEF NextStep, Turn
  <2> QED
    BY <2>1, <2>2
<1>5. rec \in Turn /\ rec.role = turns[w].role
  BY <1>3, <1>4
<1>6. turns' = [turns EXCEPT ![w] = rec]
  BY DEF Results
<1>7. /\ Turns' /\ turns'[w] = rec
      /\ \A v \in Workers \ {w} : turns'[v] = turns[v]
  BY <1>5, <1>6, TurnMoves
<1>8. \/ rec.pc = "calling" /\ rec.calls = turns[w].calls - 1 /\ rec.calls > 0
      \/ rec.pc \in {"asking", "stopping"} /\ turns[w].calls = 1
  BY <1>2, <1>3, <1>4, ChatAssumption
<1>9. /\ replay' \in Replay
      /\ replay.open > 0 => replay'.open = replay.open - 1 /\ replay'.broken = replay.broken
  <2>1. replay.open \in 0..MaxCalls /\ replay.broken \in BOOLEAN
    BY DEF Replay
  <2>2. CASE replay.open > 0
    <3>1. replay' = [replay EXCEPT !.open = replay.open - 1]
      BY <2>2 DEF Results
    <3>2. replay.open - 1 \in 0..MaxCalls
      BY <2>1, <2>2, ChatAssumption
    <3> QED
      BY <3>1, <3>2 DEF Replay
  <2>3. CASE ~(replay.open > 0)
    <3>1. replay' = [replay EXCEPT !.broken = TRUE]
      BY <2>3 DEF Results
    <3> QED
      BY <2>3, <3>1 DEF Replay
  <2> QED
    BY <2>2, <2>3
<1> QED
  BY <1>5, <1>7, <1>8, <1>9

LEMMA PendingAreFinite ==
    ASSUME Types
    PROVE  /\ IsFiniteSet(WritingNow) /\ Cardinality(WritingNow) \in Nat
           /\ IsFiniteSet(UndoingNow) /\ Cardinality(UndoingNow) \in Nat
           /\ row.writes \in Nat
<1>1. WritingNow \in SUBSET Workers /\ UndoingNow \in SUBSET Clients
  BY DEF WritingNow, UndoingNow
<1>2. IsFiniteSet(WritingNow) /\ IsFiniteSet(UndoingNow)
  BY <1>1, FS_Subset, ChatAssumption
<1>3. row.writes \in Nat
  BY ChatAssumption DEF Types, TypeOK, Row, Writes
<1> QED
  BY <1>2, <1>3, FS_CardinalityType

\* Room is left when no request joins those that will write.
LEMMA RoomStays ==
    ASSUME Types, row' = row,
           WritingNow' \subseteq WritingNow, UndoingNow' \subseteq UndoingNow
    PROVE  Room'
<1>1. /\ IsFiniteSet(WritingNow') /\ Cardinality(WritingNow') <= Cardinality(WritingNow)
      /\ IsFiniteSet(UndoingNow') /\ Cardinality(UndoingNow') <= Cardinality(UndoingNow)
  BY PendingAreFinite, FS_Subset
<1>2. Cardinality(WritingNow') \in Nat /\ Cardinality(UndoingNow') \in Nat
  BY <1>1, FS_CardinalityType
<1> QED
  BY <1>1, <1>2, PendingAreFinite, ChatAssumption DEF Types, Room

\* One request joins where RoomToWrite has asked for it.
LEMMA RoomIsTaken ==
    ASSUME Types, RoomToWrite, row' = row, NEW x,
           \/ WritingNow' \subseteq WritingNow \cup {x} /\ UndoingNow' \subseteq UndoingNow
           \/ WritingNow' \subseteq WritingNow /\ UndoingNow' \subseteq UndoingNow \cup {x}
    PROVE  Room'
<1>1. /\ IsFiniteSet(WritingNow \cup {x}) /\ Cardinality(WritingNow \cup {x}) <= Cardinality(WritingNow) + 1
      /\ IsFiniteSet(UndoingNow \cup {x}) /\ Cardinality(UndoingNow \cup {x}) <= Cardinality(UndoingNow) + 1
      /\ Cardinality(WritingNow \cup {x}) \in Nat /\ Cardinality(UndoingNow \cup {x}) \in Nat
  <2>1. ASSUME NEW S, IsFiniteSet(S), Cardinality(S) \in Nat
        PROVE  /\ IsFiniteSet(S \cup {x}) /\ Cardinality(S \cup {x}) <= Cardinality(S) + 1
               /\ Cardinality(S \cup {x}) \in Nat
    <3>1. /\ IsFiniteSet(S \cup {x})
          /\ Cardinality(S \cup {x}) = IF x \in S THEN Cardinality(S) ELSE Cardinality(S) + 1
      BY <2>1, FS_AddElement
    <3> QED
      BY <2>1, <3>1
  <2> QED
    BY <2>1, PendingAreFinite
<1>2. row.writes + Cardinality(WritingNow) + Cardinality(UndoingNow) < MaxWrites
  BY DEF RoomToWrite, WritingNow, UndoingNow
<1>3. CASE WritingNow' \subseteq WritingNow \cup {x} /\ UndoingNow' \subseteq UndoingNow
  <2>1. /\ IsFiniteSet(WritingNow') /\ Cardinality(WritingNow') <= Cardinality(WritingNow \cup {x})
        /\ IsFiniteSet(UndoingNow') /\ Cardinality(UndoingNow') <= Cardinality(UndoingNow)
    BY <1>1, <1>3, PendingAreFinite, FS_Subset
  <2>2. Cardinality(WritingNow') \in Nat /\ Cardinality(UndoingNow') \in Nat
    BY <2>1, FS_CardinalityType
  <2> QED
    BY <1>1, <1>2, <2>1, <2>2, PendingAreFinite, ChatAssumption DEF Room
<1>4. CASE WritingNow' \subseteq WritingNow /\ UndoingNow' \subseteq UndoingNow \cup {x}
  <2>1. /\ IsFiniteSet(WritingNow') /\ Cardinality(WritingNow') <= Cardinality(WritingNow)
        /\ IsFiniteSet(UndoingNow') /\ Cardinality(UndoingNow') <= Cardinality(UndoingNow \cup {x})
    BY <1>1, <1>4, PendingAreFinite, FS_Subset
  <2>2. Cardinality(WritingNow') \in Nat /\ Cardinality(UndoingNow') \in Nat
    BY <2>1, FS_CardinalityType
  <2> QED
    BY <1>1, <1>2, <2>1, <2>2, PendingAreFinite, ChatAssumption DEF Room
<1> QED
  BY <1>3, <1>4

\* A request that will write has room for one write, and gives it up with it.
LEMMA RoomIsUsed ==
    ASSUME Types, NEW x,
           \/ x \in WritingNow /\ WritingNow' \subseteq WritingNow \ {x} /\ UndoingNow' \subseteq UndoingNow
           \/ x \in UndoingNow /\ WritingNow' \subseteq WritingNow /\ UndoingNow' \subseteq UndoingNow \ {x}
    PROVE  /\ row.writes + 1 \in Writes
           /\ row'.writes = row.writes + 1 => Room'
<1>1. /\ IsFiniteSet(WritingNow \ {x}) /\ Cardinality(WritingNow \ {x}) \in Nat
      /\ IsFiniteSet(UndoingNow \ {x}) /\ Cardinality(UndoingNow \ {x}) \in Nat
      /\ x \in WritingNow => Cardinality(WritingNow \ {x}) = Cardinality(WritingNow) - 1
      /\ x \in UndoingNow => Cardinality(UndoingNow \ {x}) = Cardinality(UndoingNow) - 1
  BY PendingAreFinite, FS_RemoveElement, FS_CardinalityType
<1>2. row.writes + Cardinality(WritingNow) + Cardinality(UndoingNow) <= MaxWrites
  BY DEF Types, Room
<1>3. CASE x \in WritingNow /\ WritingNow' \subseteq WritingNow \ {x} /\ UndoingNow' \subseteq UndoingNow
  <2>1. /\ IsFiniteSet(WritingNow') /\ Cardinality(WritingNow') <= Cardinality(WritingNow \ {x})
        /\ IsFiniteSet(UndoingNow') /\ Cardinality(UndoingNow') <= Cardinality(UndoingNow)
    BY <1>1, <1>3, PendingAreFinite, FS_Subset
  <2>2. Cardinality(WritingNow') \in Nat /\ Cardinality(UndoingNow') \in Nat
    BY <2>1, FS_CardinalityType
  <2> QED
    BY <1>1, <1>2, <1>3, <2>1, <2>2, PendingAreFinite, ChatAssumption DEF Room, Writes
<1>4. CASE x \in UndoingNow /\ WritingNow' \subseteq WritingNow /\ UndoingNow' \subseteq UndoingNow \ {x}
  <2>1. /\ IsFiniteSet(WritingNow') /\ Cardinality(WritingNow') <= Cardinality(WritingNow)
        /\ IsFiniteSet(UndoingNow') /\ Cardinality(UndoingNow') <= Cardinality(UndoingNow \ {x})
    BY <1>1, <1>4, PendingAreFinite, FS_Subset
  <2>2. Cardinality(WritingNow') \in Nat /\ Cardinality(UndoingNow') \in Nat
    BY <2>1, FS_CardinalityType
  <2> QED
    BY <1>1, <1>2, <1>4, <2>1, <2>2, PendingAreFinite, ChatAssumption DEF Room, Writes
<1> QED
  BY <1>3, <1>4

-----------------------------------------------------------------------------
(* Types are kept, action by action.                                       *)

\* A step of one turn that neither is about to write nor has written.
LEMMA TurnKeepsTypes ==
    ASSUME Types, StoreInv', NEW w \in Workers,
           Turns', \A v \in Workers \ {w} : turns'[v] = turns[v],
           turns'[w].pc \notin {"writing", "issuing"}, InCalls(w)' => turns'[w].calls > 0,
           tool' = tool \/ tool' = [tool EXCEPT ![w] = None],
           replay' \in Replay, made' \in [Tokens -> Made \cup {None}],
           started' \in 0..MaxTurns, disturbed' \in BOOLEAN,
           UNCHANGED <<config, row, undos, peeks>>
    PROVE  Types'
<1>1. tool' \in [Workers -> Writing \cup Made \cup {None}]
          /\ \A v \in Workers \ {w} : tool'[v] = tool[v]
  BY DEF Types, TypeOK
<1>2. TypeOK'
  BY <1>1 DEF Types, TypeOK, StoreInv, Turns
<1>3. ToolsFit'
  BY <1>1 DEF Types, ToolsFit, At
<1>4. CallsLeft'
  BY DEF Types, CallsLeft, InCalls
<1>5. Room'
  <2>1. WritingNow' \subseteq WritingNow
    BY DEF WritingNow, At
  <2>2. UndoingNow' \subseteq UndoingNow
    BY DEF UndoingNow, UndoIsIdle
  <2> QED
    BY <2>1, <2>2, RoomStays
<1>6. UndosHaveTaken'
  BY DEF Types, UndosHaveTaken
<1> QED
  BY <1>2, <1>3, <1>4, <1>5, <1>6 DEF Types

LEMMA PostChatTypes ==
    ASSUME Types, StoreInv', NEW w \in Workers, NEW role \in Roles, PostChat(w, role)
    PROVE  Types'
<1> DEFINE rec == [pc |-> "accepted", role |-> role, step |-> 1, attempt |-> 1, calls |-> 0,
                   loaded |-> NewRow]
<1>1. rec \in Turn
  BY NewRowType, ChatAssumption DEF Turn
<1>2. turns' = [turns EXCEPT ![w] = rec]
  BY DEF PostChat
<1>3. /\ Turns' /\ turns'[w] = rec
      /\ \A v \in Workers \ {w} : turns'[v] = turns[v]
  BY <1>1, <1>2, TurnMoves DEF Types, TypeOK, Turns
<1>4. started' \in 0..MaxTurns
  BY ChatAssumption DEF PostChat, Types, TypeOK
<1>5. turns'[w].pc \notin {"writing", "issuing"} /\ ~InCalls(w)'
  BY <1>3 DEF InCalls
<1>6. disturbed' \in BOOLEAN
  BY DEF PostChat, Types, TypeOK
<1>7. UNCHANGED <<config, row, undos, peeks, tool, replay, made>>
  BY DEF PostChat, storeVars
<1> QED
  BY <1>3, <1>4, <1>5, <1>6, <1>7, TurnKeepsTypes DEF Types, TypeOK

LEMMA TurnEndsTypes ==
    ASSUME Types, StoreInv', NEW w \in Workers, Ends(w),
           tool' = tool \/ tool' = [tool EXCEPT ![w] = None],
           replay' \in Replay, disturbed' \in BOOLEAN,
           UNCHANGED <<config, row, undos, peeks, made, started>>
    PROVE  Types'
<1>1. /\ Turns' /\ turns'[w] = Idle
      /\ \A v \in Workers \ {w} : turns'[v] = turns[v]
  BY TurnMoves DEF Types, TypeOK, Turns, Ends
<1>2. turns'[w].pc \notin {"writing", "issuing"} /\ ~InCalls(w)'
  BY <1>1 DEF InCalls, Idle
<1> QED
  BY <1>1, <1>2, TurnKeepsTypes DEF Types, TypeOK

\* From the message of the user to the answer of the LLM.
LEMMA AskingTypes ==
    ASSUME Types, StoreInv', NEW w \in Workers,
           SavesUserMessage(w) \/ Loads(w) \/ LoadFails(w) \/ Asks(w) \/ Stops(w)
    PROVE  Types'
<1> USE DEF TurnPcs
<1>1. Turns /\ replay \in Replay /\ row \in Row /\ disturbed \in BOOLEAN
  BY DEF Types, TypeOK, Turns
<1>2. 0 \in 0..MaxCalls
  BY ChatAssumption
<1>3. CASE SavesUserMessage(w)
  <2>1. replay' \in Replay
    BY <1>1, <1>2, <1>3, SaysType DEF SavesUserMessage
  <2>2. /\ Turns' /\ turns'[w].pc = "loading"
        /\ \A v \in Workers \ {w} : turns'[v] = turns[v]
    BY <1>1, <1>3, AtTurn, GoesType DEF SavesUserMessage
  <2>3. ~InCalls(w)'
    BY <2>2 DEF InCalls
  <2>4. UNCHANGED <<config, row, undos, peeks, tool, made, started, disturbed>>
    BY <1>3 DEF SavesUserMessage, storeVars
  <2> QED
    BY <2>1, <2>2, <2>3, <2>4, TurnKeepsTypes DEF Types, TypeOK
<1>4. CASE Loads(w)
  <2> DEFINE rec == [[turns[w] EXCEPT !.pc = "asking"] EXCEPT !.loaded = row]
  <2>1. turns[w] \in Turn
    BY <1>1, <1>4, AtTurn, TurnFields DEF Loads
  <2>2. rec \in Turn /\ rec.pc = "asking"
    BY <1>1, <2>1 DEF Turn
  <2>3. turns' = [turns EXCEPT ![w] = rec]
    BY <1>1, <1>4 DEF Loads, Turns
  <2>4. /\ Turns' /\ turns'[w] = rec
        /\ \A v \in Workers \ {w} : turns'[v] = turns[v]
    BY <1>1, <2>2, <2>3, TurnMoves
  <2>5. turns'[w].pc \notin {"writing", "issuing"} /\ ~InCalls(w)'
    BY <2>2, <2>4 DEF InCalls
  <2>6. UNCHANGED <<config, row, undos, peeks, tool, replay, made, started, disturbed>>
    BY <1>4 DEF Loads, storeVars
  <2> QED
    BY <2>4, <2>5, <2>6, TurnKeepsTypes DEF Types, TypeOK
<1>5. CASE LoadFails(w)
  <2>1. UNCHANGED <<config, row, undos, peeks, tool, replay, made, started, disturbed>>
    BY <1>5 DEF LoadFails, storeVars
  <2> QED
    BY <1>1, <1>5, <2>1, TurnEndsTypes DEF LoadFails
<1>6. CASE LlmRetries(w)
  <2> DEFINE rec == [turns[w] EXCEPT !.attempt = @ + 1]
  <2>1. turns[w] \in Turn /\ turns[w].attempt \in 1..MaxAttempts /\ turns[w].pc = "asking"
    BY <1>1, <1>6, AtTurn, TurnFields DEF LlmRetries, At
  <2>2. turns[w].attempt + 1 \in 1..MaxAttempts
    BY <1>6, <2>1, ChatAssumption DEF LlmRetries
  <2>3. rec \in Turn /\ rec.pc = "asking"
    BY <2>1, <2>2 DEF Turn
  <2>4. turns' = [turns EXCEPT ![w] = rec]
    BY <1>6 DEF LlmRetries
  <2>5. /\ Turns' /\ turns'[w] = rec
        /\ \A v \in Workers \ {w} : turns'[v] = turns[v]
    BY <1>1, <2>3, <2>4, TurnMoves
  <2>6. turns'[w].pc \notin {"writing", "issuing"} /\ ~InCalls(w)'
    BY <2>3, <2>5 DEF InCalls
  <2>7. UNCHANGED <<config, row, undos, peeks, tool, replay, made, started, disturbed>>
    BY <1>6 DEF LlmRetries, storeVars
  <2> QED
    BY <2>5, <2>6, <2>7, TurnKeepsTypes DEF Types, TypeOK
<1>7. CASE LlmEndsTurn(w) \/ Stops(w)
  <2>1. replay' \in Replay
    BY <1>1, <1>2, <1>7, SaysType DEF LlmEndsTurn, Stops
  <2>2. UNCHANGED <<config, row, undos, peeks, tool, made, started, disturbed>>
    BY <1>7 DEF LlmEndsTurn, Stops, storeVars
  <2> QED
    BY <1>1, <1>7, <2>1, <2>2, TurnEndsTypes DEF LlmEndsTurn, Stops
<1>8. ASSUME NEW n \in 1..MaxCalls, LlmCallsTools(w, n) PROVE Types'
  <2> DEFINE rec == [[turns[w] EXCEPT !.pc = "calling"] EXCEPT !.calls = n]
  <2>1. turns[w] \in Turn
    BY <1>1, <1>8, AtTurn, TurnFields DEF LlmCallsTools
  <2>2. n \in 0..MaxCalls /\ n > 0
    BY <1>8, ChatAssumption
  <2>3. rec \in Turn /\ rec.pc = "calling" /\ rec.calls = n
    BY <2>1, <2>2 DEF Turn
  <2>4. turns' = [turns EXCEPT ![w] = rec]
    BY <1>1, <1>8 DEF LlmCallsTools, Turns
  <2>5. /\ Turns' /\ turns'[w] = rec
        /\ \A v \in Workers \ {w} : turns'[v] = turns[v]
    BY <1>1, <2>3, <2>4, TurnMoves
  <2>6. turns'[w].pc \notin {"writing", "issuing"} /\ turns'[w].calls > 0
    BY <2>2, <2>3, <2>5
  <2>7. replay' \in Replay
    BY <1>1, <1>8, <2>2, SaysType DEF LlmCallsTools
  <2>8. UNCHANGED <<config, row, undos, peeks, tool, made, started, disturbed>>
    BY <1>8 DEF LlmCallsTools, storeVars
  <2> QED
    BY <2>5, <2>6, <2>7, <2>8, TurnKeepsTypes DEF Types, TypeOK
<1> QED
  BY <1>3, <1>4, <1>5, <1>6, <1>7, <1>8 DEF Asks

\* A result is written and the calls go on.
LEMMA ResultTypes ==
    ASSUME Types, StoreInv', NEW w \in Workers,
           CallWritesNothing(w) \/ EndsWithoutToken(w) \/ \E t \in Tokens : IssuesToken(w, t)
    PROVE  Types'
<1>1. InCalls(w) /\ turns[w].calls > 0
  BY DEF Types, CallsLeft, InCalls, CallWritesNothing, EndsWithoutToken, IssuesToken, At
<1>2. (Results(w) \/ Breaks(w)) /\ UNCHANGED <<config, row, undos, peeks, started>>
  BY DEF CallWritesNothing, EndsWithoutToken, IssuesToken, Issue, storeVars
<1>3. /\ Turns' /\ replay' \in Replay
      /\ turns'[w].pc \in {"calling", "asking", "stopping", "idle"}
      /\ turns'[w].pc = "calling" => turns'[w].calls > 0
      /\ \A v \in Workers \ {w} : turns'[v] = turns[v]
      /\ tool' = [tool EXCEPT ![w] = None] /\ disturbed' \in BOOLEAN
  <2>1. CASE Results(w)
    <3>1. tool' = [tool EXCEPT ![w] = None] /\ disturbed' = disturbed
      BY <2>1 DEF Results
    <3> QED
      BY <1>1, <2>1, <3>1, ResultsType DEF Types, TypeOK, Turns
  <2>2. CASE Breaks(w)
    <3>1. /\ Ends(w) /\ replay' = replay /\ disturbed' \in BOOLEAN
          /\ tool' = [tool EXCEPT ![w] = None]
      BY <2>2 DEF Breaks, Types, TypeOK
    <3>2. /\ Turns' /\ turns'[w] = Idle
          /\ \A v \in Workers \ {w} : turns'[v] = turns[v]
      BY <3>1, TurnMoves DEF Types, TypeOK, Turns, Ends
    <3>3. turns'[w].pc = "idle"
      BY <3>2 DEF Idle
    <3> QED
      BY <3>1, <3>2, <3>3 DEF Types, TypeOK
  <2> QED
    BY <1>2, <2>1, <2>2
<1>4. turns'[w].pc \notin {"writing", "issuing"} /\ (InCalls(w)' => turns'[w].calls > 0)
  BY <1>3 DEF InCalls
<1>5. made' \in [Tokens -> Made \cup {None}]
  <2>1. CASE CallWritesNothing(w) \/ EndsWithoutToken(w)
    BY <2>1 DEF CallWritesNothing, EndsWithoutToken, Types, TypeOK
  <2>2. ASSUME NEW t \in Tokens, IssuesToken(w, t) PROVE made' \in [Tokens -> Made \cup {None}]
    <3>1. tool[w] \in Made
      BY <2>2 DEF Types, ToolsFit, IssuesToken
    <3> QED
      BY <2>2, <3>1 DEF IssuesToken, Types, TypeOK
  <2> QED
    BY <2>1, <2>2
<1>6. started' \in 0..MaxTurns
  BY <1>2 DEF Types, TypeOK
<1> QED
  BY <1>2, <1>3, <1>4, <1>5, <1>6, TurnKeepsTypes

\* A tool moves on within its call.
LEMMA ToolKeepsTypes ==
    ASSUME Types, StoreInv', NEW w \in Workers, NEW pc \in {"writing", "issuing", "resulting"},
           InCalls(w), Goes(w, pc), NEW call \in Writing \cup Made \cup {None},
           tool' = [tool EXCEPT ![w] = call],
           pc = "writing" => call \in Writing, pc = "issuing" => call \in Made,
           row' \in Row, Room', peeks' = peeks,
           UNCHANGED <<config, replay, undos, made, started, disturbed>>
    PROVE  Types'
<1>1. turns[w] # Idle /\ turns[w].calls > 0
  BY DEF InCalls, Idle, Types, CallsLeft
<1>2. /\ Turns' /\ turns'[w].pc = pc /\ turns'[w].calls = turns[w].calls
      /\ \A v \in Workers \ {w} : turns'[v] = turns[v]
  BY <1>1, GoesType DEF TurnPcs, Types, TypeOK, Turns
<1>3. /\ tool' \in [Workers -> Writing \cup Made \cup {None}]
      /\ tool'[w] = call /\ \A v \in Workers \ {w} : tool'[v] = tool[v]
  BY DEF Types, TypeOK
<1>4. TypeOK'
  BY <1>2, <1>3 DEF Types, TypeOK, StoreInv, Turns
<1>5. ToolsFit'
  BY <1>2, <1>3 DEF Types, ToolsFit, At
<1>6. CallsLeft'
  BY <1>1, <1>2 DEF Types, CallsLeft, InCalls
<1>7. UndosHaveTaken'
  BY DEF Types, UndosHaveTaken
<1> QED
  BY <1>4, <1>5, <1>6, <1>7 DEF Types

LEMMA ToolReadsTypes ==
    ASSUME Types, StoreInv', NEW w \in Workers, NEW name \in WriteTools, ToolReads(w, name)
    PROVE  Types'
<1> DEFINE call == [name |-> name, seen |-> row, since |-> row.notes]
<1>1. row \in Row /\ row.notes \in SUBSET Writes
  BY DEF Types, TypeOK, Row
<1>2. call \in Writing
  BY <1>1 DEF Writing
<1>3. /\ InCalls(w) /\ Goes(w, "writing") /\ RoomToWrite
      /\ tool' = [tool EXCEPT ![w] = call]
      /\ UNCHANGED <<config, row, replay, undos, peeks, made, started, disturbed>>
  BY DEF ToolReads, CallStarts, InCalls, At, storeVars
<1>4. Room'
  <2>1. \A v \in Workers \ {w} : turns'[v] = turns[v]
    <3>1. turns[w] # Idle /\ "writing" \in TurnPcs
      BY <1>3 DEF TurnPcs, InCalls, Idle
    <3>2. Turns
      BY DEF Types, TypeOK, Turns
    <3> QED
      BY <1>3, <3>1, <3>2, GoesType
  <2>2. WritingNow' \subseteq WritingNow \cup {w} /\ UndoingNow' \subseteq UndoingNow
    BY <1>3, <2>1 DEF WritingNow, UndoingNow, UndoIsIdle, At
  <2> QED
    BY <1>3, <2>2, RoomIsTaken
<1> QED
  BY <1>1, <1>2, <1>3, <1>4, ToolKeepsTypes

\* The decision of a tool has the types of its row.
LEMMA DecidedType ==
    ASSUME NEW d \in Decision, NEW name, NEW seen, NEW n \in Writes
    PROVE  Decided(d, name, seen, n) \in Decision
<1>1. \A st \in Stages : /\ [[d EXCEPT !.stage = st] EXCEPT !.validated = n] \in Decision
                         /\ [[d EXCEPT !.stage = st] EXCEPT !.rejected = n] \in Decision
  BY DEF Decision
<1>2. d.stage \in Stages /\ "validated" \in Stages /\ "rejected" \in Stages
  BY DEF Decision, Stages
<1>3. CASE name = "validate_application"
  <2> DEFINE st == IF seen.stage # "validated" THEN "validated" ELSE d.stage
  <2>1. Decided(d, name, seen, n) = [[d EXCEPT !.stage = st] EXCEPT !.validated = n]
    BY <1>3 DEF Decided
  <2> QED
    BY <1>1, <1>2, <2>1
<1>4. CASE name # "validate_application"
  <2> DEFINE st == IF seen.stage # "rejected" THEN "rejected" ELSE d.stage
  <2>1. Decided(d, name, seen, n) = [[d EXCEPT !.stage = st] EXCEPT !.rejected = n]
    BY <1>4 DEF Decided
  <2> QED
    BY <1>1, <1>2, <2>1
<1> QED
  BY <1>3, <1>4

\* A tool leaves the requests that will write when it has written.
LEMMA ToolWrites ==
    ASSUME Types, NEW w \in Workers, At(w, "writing"), NEW pc \in TurnPcs \ {"writing"},
           Goes(w, pc), UNCHANGED <<undos, peeks>>
    PROVE  /\ w \in WritingNow /\ WritingNow' \subseteq WritingNow \ {w}
           /\ UndoingNow' \subseteq UndoingNow
           /\ row.writes + 1 \in Writes
           /\ row'.writes = row.writes + 1 => Room'
<1>1. turns'[w].pc = pc /\ \A v \in Workers \ {w} : turns'[v] = turns[v]
  <2>1. turns[w] # Idle
    BY DEF At, Idle
  <2>2. Turns
    BY DEF Types, TypeOK, Turns
  <2> QED
    BY <2>1, <2>2, GoesType
<1>2. /\ w \in WritingNow /\ WritingNow' \subseteq WritingNow \ {w}
      /\ UndoingNow' \subseteq UndoingNow
  BY <1>1 DEF WritingNow, UndoingNow, UndoIsIdle, At
<1> QED
  BY <1>2, RoomIsUsed

LEMMA SavesNoteTypes ==
    ASSUME Types, StoreInv', NEW w \in Workers, SavesNote(w) PROVE Types'
<1> DEFINE n == row.writes + 1
           notes == WithNote(row.notes, tool[w].seen.notes, n, TRUE)
<1>1. At(w, "writing") /\ InCalls(w) /\ Goes(w, "resulting")
        /\ UNCHANGED <<config, replay, tool, undos, peeks, made, started, disturbed>>
  BY DEF SavesNote, At, InCalls, storeVars
<1>2. tool[w] \in Writing /\ tool[w].seen \in Row /\ tool[w].seen.notes \in SUBSET Writes
  <2>1. tool[w] \in Writing
    BY <1>1 DEF Types, ToolsFit
  <2>2. \A t \in Writing : t.seen \in Row
    BY DEF Writing
  <2>3. \A r \in Row : r.notes \in SUBSET Writes
    BY DEF Row
  <2> QED
    BY <2>1, <2>2, <2>3
<1>3. n \in Writes /\ (row'.writes = n => Room')
  BY <1>1, ToolWrites DEF TurnPcs
<1>4. notes \in SUBSET Writes
  BY <1>2, <1>3 DEF WithNote
<1>5. row' = [[row EXCEPT !.writes = n] EXCEPT !.notes = notes] /\ row \in Row
  BY DEF SavesNote, Types, TypeOK, Row
<1>6. row' \in Row /\ row'.writes = n
  BY <1>3, <1>4, <1>5 DEF Row
<1>7. tool' = [tool EXCEPT ![w] = tool[w]]
  BY <1>1 DEF Types, TypeOK
<1> QED
  BY <1>1, <1>2, <1>3, <1>6, <1>7, ToolKeepsTypes

LEMMA DecidesTypes ==
    ASSUME Types, StoreInv', NEW w \in Workers, NEW noted \in BOOLEAN, Decides(w, noted)
    PROVE  Types'
<1> DEFINE n == row.writes + 1
           seen == tool[w].seen
           d == Decided(row.decision, tool[w].name, seen.decision, n)
           notes == WithNote(row.notes, seen.notes, n, noted)
           call == [snapshot |-> seen.decision, before |-> row.decision,
                    fresh |-> seen.last = row.last, write |-> n]
<1>1. At(w, "writing") /\ InCalls(w) /\ Goes(w, "issuing")
        /\ UNCHANGED <<config, replay, undos, peeks, made, started, disturbed>>
  BY DEF Decides, At, InCalls, storeVars
<1>2. /\ tool[w] \in Writing /\ seen \in Row
      /\ seen.notes \in SUBSET Writes /\ seen.decision \in Decision
  <2>1. tool[w] \in Writing
    BY <1>1 DEF Types, ToolsFit
  <2>2. \A t \in Writing : t.seen \in Row
    BY DEF Writing
  <2>3. \A r \in Row : r.notes \in SUBSET Writes /\ r.decision \in Decision
    BY DEF Row
  <2> QED
    BY <2>1, <2>2, <2>3
<1>3. n \in Writes /\ (row'.writes = n => Room')
  BY <1>1, ToolWrites DEF TurnPcs
<1>4. row.decision \in Decision /\ row.notes \in SUBSET Writes
  BY DEF Types, TypeOK, Row
<1>5. notes \in SUBSET Writes /\ d \in Decision
  BY <1>2, <1>3, <1>4, DecidedType DEF WithNote
<1>6. row' = [decision |-> d, notes |-> notes, writes |-> n, last |-> n]
  BY DEF Decides
<1>7. row' \in Row /\ row'.writes = n
  BY <1>3, <1>5, <1>6 DEF Row
<1>8. call \in Made /\ tool' = [tool EXCEPT ![w] = call]
  BY <1>2, <1>3, <1>4 DEF Decides, Made
<1> QED
  BY <1>1, <1>3, <1>7, <1>8, ToolKeepsTypes

LEMMA BreaksOffTypes ==
    ASSUME Types, StoreInv', NEW w \in Workers, BreaksOff(w) PROVE Types'
<1>1. /\ Ends(w) /\ tool' = [tool EXCEPT ![w] = None]
      /\ UNCHANGED <<config, row, undos, peeks, made, started, replay>>
  BY DEF BreaksOff, Breaks, storeVars
<1>2. disturbed' \in BOOLEAN /\ replay' \in Replay
  BY <1>1 DEF BreaksOff, Breaks, Types, TypeOK
<1> QED
  BY <1>1, <1>2, TurnEndsTypes

\* Steps of an undo, and of what goes on around the chat, leave the turns alone.
LEMMA TurnsUntouchedTypes ==
    ASSUME Types, StoreInv', UNCHANGED <<config, replay, turns, tool, made, started, disturbed>>,
           row' \in Row, undos' \in [Clients -> Undo \cup {NoUndo}], Room', UndosHaveTaken'
    PROVE  Types'
<1>1. TypeOK'
  BY DEF Types, TypeOK, StoreInv
<1>2. ToolsFit' /\ CallsLeft'
  BY DEF Types, ToolsFit, CallsLeft, At, InCalls
<1> QED
  BY <1>1, <1>2 DEF Types

\* What an undo becomes with the answer of the store.
LEMMA ProceedsType ==
    ASSUME Types, NEW c \in Clients, NEW t \in Tokens, NEW a, NEW role \in Roles,
           Proceeds(c, t, a, role)
    PROVE  /\ undos' \in [Clients -> Undo \cup {NoUndo}]
           /\ \A d \in Clients \ {c} : undos'[d] = undos[d]
<1> DEFINE rec == [pc |-> "reading", token |-> t, role |-> role, seen |-> NewRow.decision]
<1>1. rec \in Undo
  BY NewRowType DEF Undo, Row
<1> QED
  BY <1>1 DEF Proceeds, Types, TypeOK

LEMMA PostUndoTypes ==
    ASSUME Types, StoreInv', NEW c \in Clients, NEW t \in Tokens, NEW a \in Apps,
           NEW role \in Roles, PostUndo(c, t, a, role)
    PROVE  Types'
<1>1. /\ undos[c] = NoUndo /\ peeks[c] = NoPeek /\ RoomToWrite
      /\ UNCHANGED <<config, row, replay, turns, tool, made, started, disturbed>>
  BY DEF PostUndo, UndoIsIdle
<1>2. /\ undos' \in [Clients -> Undo \cup {NoUndo}]
      /\ \A d \in Clients \ {c} : undos'[d] = undos[d] /\ peeks'[d] = peeks[d]
      /\ undos'[c] # NoUndo => peeks'[c] = NoPeek
  <2>1. CASE MemoryConsumes(t, a) /\ Proceeds(c, t, a, role)
    BY <1>1, <2>1, ProceedsType DEF MemoryConsumes
  <2>2. CASE RedisPeeks(c, t, a) /\ undos' = undos
    BY <1>1, <2>2 DEF RedisPeeks, Types, TypeOK, StoreTypeOK
  <2> QED
    BY <2>1, <2>2 DEF PostUndo
<1>3. Room'
  <2>1. WritingNow' \subseteq WritingNow /\ UndoingNow' \subseteq UndoingNow \cup {c}
    BY <1>1, <1>2 DEF WritingNow, UndoingNow, UndoIsIdle, At
  <2> QED
    BY <1>1, <2>1, RoomIsTaken
<1>4. UndosHaveTaken'
  BY <1>2 DEF Types, UndosHaveTaken
<1>5. row' \in Row
  BY <1>1 DEF Types, TypeOK
<1> QED
  BY <1>1, <1>2, <1>3, <1>4, <1>5, TurnsUntouchedTypes

LEMMA UndoTakesTypes ==
    ASSUME Types, StoreInv', NEW c \in Clients, NEW role \in Roles, UndoTakes(c, role)
    PROVE  Types'
<1>1. /\ peeks[c] # NoPeek /\ peeks' = [peeks EXCEPT ![c] = NoPeek]
      /\ Proceeds(c, peeks[c].token, peeks[c].app, role)
      /\ UNCHANGED <<config, row, replay, turns, tool, made, started, disturbed>>
  BY DEF UndoTakes, RedisTakes
<1>2. peeks[c].token \in Tokens /\ peeks \in [Clients -> Peek \cup {NoPeek}]
  BY <1>1 DEF Types, TypeOK, StoreTypeOK, Peek
<1>3. /\ undos' \in [Clients -> Undo \cup {NoUndo}]
      /\ \A d \in Clients \ {c} : undos'[d] = undos[d] /\ peeks'[d] = peeks[d]
      /\ peeks'[c] = NoPeek
  BY <1>1, <1>2, ProceedsType
<1>4. Room'
  <2>1. WritingNow' \subseteq WritingNow /\ UndoingNow' \subseteq UndoingNow
    BY <1>1, <1>3 DEF WritingNow, UndoingNow, UndoIsIdle, At
  <2> QED
    BY <1>1, <2>1, RoomStays
<1>5. UndosHaveTaken'
  BY <1>3 DEF Types, UndosHaveTaken
<1>6. row' \in Row
  BY <1>1 DEF Types, TypeOK
<1> QED
  BY <1>1, <1>3, <1>4, <1>5, <1>6, TurnsUntouchedTypes

LEMMA UndoReadsTypes ==
    ASSUME Types, StoreInv', NEW c \in Clients, UndoReads(c) PROVE Types'
<1>1. /\ undos[c].pc = "reading" /\ undos[c] # NoUndo
      /\ UNCHANGED <<peeks, config, row, replay, turns, tool, made, started, disturbed>>
  BY DEF UndoReads, storeVars, NoUndo
<1>2. undos[c] \in Undo /\ row.decision \in Decision
  BY <1>1 DEF Types, TypeOK, Row
<1>3. \/ undos' = [undos EXCEPT ![c] = [[undos[c] EXCEPT !.pc = "writing"] EXCEPT !.seen = row.decision]]
      \/ undos' = [undos EXCEPT ![c] = NoUndo]
  BY <1>2 DEF UndoReads, Types, TypeOK
<1>4. [[undos[c] EXCEPT !.pc = "writing"] EXCEPT !.seen = row.decision] \in Undo
  BY <1>2 DEF Undo
<1>5. /\ undos' \in [Clients -> Undo \cup {NoUndo}]
      /\ \A d \in Clients \ {c} : undos'[d] = undos[d]
  BY <1>3, <1>4 DEF Types, TypeOK
<1>6. Room'
  <2>1. WritingNow' \subseteq WritingNow /\ UndoingNow' \subseteq UndoingNow
    BY <1>1, <1>5 DEF WritingNow, UndoingNow, UndoIsIdle, At
  <2> QED
    BY <1>1, <2>1, RoomStays
<1>7. UndosHaveTaken'
  BY <1>1, <1>5 DEF Types, UndosHaveTaken
<1>8. row' \in Row
  BY <1>1 DEF Types, TypeOK
<1> QED
  BY <1>1, <1>5, <1>6, <1>7, <1>8, TurnsUntouchedTypes

LEMMA UndoneType ==
    ASSUME NEW d \in Decision, NEW seen, NEW old \in Decision
    PROVE  Undone(d, seen, old) \in Decision
<1> DEFINE st == IF seen.stage # old.stage THEN old.stage ELSE d.stage
           va == IF seen.validated # old.validated THEN old.validated ELSE d.validated
           re == IF seen.rejected # old.rejected THEN old.rejected ELSE d.rejected
<1>1. st \in Stages /\ va \in Writes /\ re \in Writes
  BY DEF Decision
<1>2. Undone(d, seen, old) =
        [[[d EXCEPT !.stage = st] EXCEPT !.validated = va] EXCEPT !.rejected = re]
  BY DEF Undone, Decision
<1> HIDE DEF st, va, re
<1> QED
  BY <1>1, <1>2 DEF Decision

\* The tokens issued for this application carry a decision, and so do those being undone.
OwnTokens ==
    /\ \A t \in Tokens : body[t].app = App => made[t] \in Made
    /\ \A c \in Clients : undos[c] # NoUndo => made[undos[c].token] \in Made

LEMMA UndoCommitsTypes ==
    ASSUME Types, OwnTokens, StoreInv', NEW c \in Clients, UndoCommits(c) PROVE Types'
<1> DEFINE n == row.writes + 1
           d == Undone(row.decision, undos[c].seen, made[undos[c].token].snapshot)
<1>1. /\ undos[c].pc = "writing" /\ undos[c] # NoUndo
      /\ undos' = [undos EXCEPT ![c] = NoUndo]
      /\ UNCHANGED <<peeks, config, replay, turns, tool, made, started, disturbed>>
  BY DEF UndoCommits, storeVars, NoUndo
<1>2. /\ undos' \in [Clients -> Undo \cup {NoUndo}]
      /\ undos'[c] = NoUndo /\ \A e \in Clients \ {c} : undos'[e] = undos[e]
  BY <1>1 DEF Types, TypeOK
<1>3. peeks[c] = NoPeek
  BY <1>1 DEF Types, UndosHaveTaken
<1>4. /\ c \in UndoingNow /\ WritingNow' \subseteq WritingNow
      /\ UndoingNow' \subseteq UndoingNow \ {c}
  BY <1>1, <1>2, <1>3 DEF WritingNow, UndoingNow, UndoIsIdle, At
<1>5. n \in Writes /\ (row'.writes = n => Room')
  BY <1>4, RoomIsUsed
<1>6. made[undos[c].token].snapshot \in Decision
  <2>1. \A m \in Made : m.snapshot \in Decision
    BY DEF Made
  <2> QED
    BY <1>1, <2>1 DEF OwnTokens
<1>7. row \in Row /\ row.decision \in Decision
  BY DEF Types, TypeOK, Row
<1>8. d \in Decision
  BY <1>6, <1>7, UndoneType
<1>9. row' = [[[row EXCEPT !.writes = n] EXCEPT !.last = n] EXCEPT !.decision = d]
  BY <1>7 DEF UndoCommits, Row
<1>10. row' \in Row /\ row'.writes = n
  <2> HIDE DEF d, n
  <2> QED
    BY <1>5, <1>7, <1>8, <1>9 DEF Row
<1>11. UndosHaveTaken'
  BY <1>1, <1>2 DEF Types, UndosHaveTaken
<1> QED
  BY <1>1, <1>2, <1>5, <1>10, <1>11, TurnsUntouchedTypes

LEMMA PatchedType ==
    ASSUME NEW d \in Decision, NEW target \in Stages, NEW n \in Writes
    PROVE  Patched(d, target, n) \in Decision
<1>1. 0 \in Writes
  BY ChatAssumption DEF Writes
<1>2. CASE target = "scored"
  BY <1>1, <1>2 DEF Patched, Decision
<1>3. CASE target = "validated"
  BY <1>3 DEF Patched, Decision
<1>4. CASE target = "rejected"
  BY <1>4 DEF Patched, Decision
<1>5. CASE target = "invited"
  BY <1>5 DEF Patched, Decision
<1> QED
  BY <1>2, <1>3, <1>4, <1>5 DEF Stages

LEMMA PatchTypes ==
    ASSUME Types, StoreInv', NEW target \in Stages, Patch(target) PROVE Types'
<1> DEFINE n == row.writes + 1
           d == Patched(row.decision, target, n)
<1>1. RoomToWrite /\ UNCHANGED <<config, replay, undos, peeks, turns, tool, made, started, disturbed>>
  BY DEF Patch, storeVars
<1>2. row.writes + Cardinality(WritingNow) + Cardinality(UndoingNow) < MaxWrites
  BY <1>1 DEF RoomToWrite, WritingNow, UndoingNow
<1>3. n \in Writes
  BY <1>2, PendingAreFinite, ChatAssumption DEF Writes
<1>4. row \in Row /\ row.decision \in Decision
  BY DEF Types, TypeOK, Row
<1>5. d \in Decision
  BY <1>3, <1>4, PatchedType
<1>6. row' = [[[row EXCEPT !.writes = n] EXCEPT !.last = n] EXCEPT !.decision = d]
  BY <1>4 DEF Patch, Row
<1>7. row' \in Row /\ row'.writes = n
  <2> HIDE DEF d, n
  <2> QED
    BY <1>3, <1>4, <1>5, <1>6 DEF Row
<1>8. WritingNow' = WritingNow /\ UndoingNow' = UndoingNow
  BY <1>1 DEF WritingNow, UndoingNow, UndoIsIdle, At
<1>9. Room'
  BY <1>2, <1>7, <1>8, PendingAreFinite, ChatAssumption DEF Room
<1>10. UndosHaveTaken' /\ undos' \in [Clients -> Undo \cup {NoUndo}]
  BY <1>1 DEF Types, TypeOK, UndosHaveTaken
<1> QED
  BY <1>1, <1>7, <1>9, <1>10, TurnsUntouchedTypes

LEMMA AroundTypes ==
    ASSUME Types, StoreInv',
           TimePasses \/ \E t \in Tokens, a \in Apps : IssuesElsewhere(t, a)
    PROVE  Types'
<1>1. UNCHANGED chatVars /\ peeks' = peeks
  BY DEF TimePasses, IssuesElsewhere, Tick, Issue
<1>2. WritingNow' = WritingNow /\ UndoingNow' = UndoingNow
  BY <1>1 DEF chatVars, WritingNow, UndoingNow, UndoIsIdle, At
<1>3. Room' /\ UndosHaveTaken'
  BY <1>1, <1>2, RoomStays DEF chatVars, Types, UndosHaveTaken
<1> QED
  BY <1>1, <1>3, TurnsUntouchedTypes DEF chatVars, Types, TypeOK

LEMMA RestartTypes == ASSUME Types, StoreInv', Restart PROVE Types'
<1>1. /\ turns' = [w \in Workers |-> Idle] /\ tool' = [w \in Workers |-> None]
      /\ undos' = [c \in Clients |-> NoUndo] /\ peeks' = [c \in Clients |-> NoPeek]
      /\ UNCHANGED <<config, row, replay, made, started>>
  BY DEF Restart, StoreRestarts
<1>2. disturbed' \in BOOLEAN
  BY DEF Restart, Types, TypeOK
<1>3. TypeOK'
  BY <1>1, <1>2 DEF Types, TypeOK, StoreInv
<1>4. ToolsFit' /\ CallsLeft' /\ UndosHaveTaken'
  BY <1>1 DEF ToolsFit, CallsLeft, UndosHaveTaken, At, InCalls, Idle
<1>5. WritingNow' = {} /\ UndoingNow' = {}
  BY <1>1 DEF WritingNow, UndoingNow, UndoIsIdle, At, Idle
<1>6. Room'
  BY <1>1, <1>5, RoomStays
<1> QED
  BY <1>3, <1>4, <1>6 DEF Types

LEMMA StutterTypes == ASSUME Types, UNCHANGED vars PROVE Types'
<1>1. StoreInv'
  BY DEF vars, storeVars, Types, StoreInv, StoreTypeOK, EntriesAreIssued, PeeksAreRedis, PeeksAreOwned
<1>2. WritingNow' = WritingNow /\ UndoingNow' = UndoingNow
  BY DEF vars, storeVars, chatVars, WritingNow, UndoingNow, UndoIsIdle, At
<1>3. Room' /\ UndosHaveTaken'
  BY <1>2, RoomStays DEF vars, storeVars, chatVars, Types, UndosHaveTaken
<1> QED
  BY <1>1, <1>3, TurnsUntouchedTypes DEF vars, chatVars, Types, TypeOK

LEMMA InitTypes == Init => Types /\ OwnTokens
<1> SUFFICES ASSUME Init PROVE Types /\ OwnTokens
  OBVIOUS
<1>1. StoreInv
  BY StoreInitInv DEF Init
<1>2. TypeOK
  <2>1. row \in Row
    BY NewRowType DEF Init
  <2>2. replay \in Replay
    BY ChatAssumption DEF Init, Replay
  <2>3. started \in 0..MaxTurns /\ config \in Configs /\ disturbed \in BOOLEAN
    <3>1. started = 0 /\ 0 \in 0..MaxTurns
      BY ChatAssumption DEF Init
    <3> QED
      BY <3>1 DEF Init
  <2>4. /\ turns \in [Workers -> Turn \cup {Idle}]
        /\ tool \in [Workers -> Writing \cup Made \cup {None}]
        /\ undos \in [Clients -> Undo \cup {NoUndo}]
        /\ made \in [Tokens -> Made \cup {None}]
    BY DEF Init
  <2> QED
    BY <1>1, <2>1, <2>2, <2>3, <2>4 DEF TypeOK, StoreInv
<1>3. ToolsFit /\ CallsLeft /\ UndosHaveTaken
  BY DEF Init, ToolsFit, CallsLeft, UndosHaveTaken, At, InCalls, Idle
<1>4. WritingNow = {} /\ UndoingNow = {}
  BY DEF Init, StoreInit, WritingNow, UndoingNow, UndoIsIdle, At, Idle
<1>5. Room
  BY <1>4, FS_EmptySet, ChatAssumption DEF Init, Room, NewRow
<1>6. OwnTokens
  <2>1. ASSUME NEW t \in Tokens PROVE body[t].app # App
    BY StoreAssumption, ChatAssumption DEF Init, StoreInit, NoBody
  <2>2. ASSUME NEW c \in Clients PROVE undos[c] = NoUndo
    BY DEF Init
  <2> QED
    BY <2>1, <2>2 DEF OwnTokens
<1> QED
  BY <1>1, <1>2, <1>3, <1>5, <1>6 DEF Types

-----------------------------------------------------------------------------
(* Whose tokens they are.                                                  *)

\* A step that issues nothing and starts no undo.
LEMMA TokensUntouched ==
    ASSUME OwnTokens, UNCHANGED <<body, made>>,
           \A c \in Clients : undos'[c] # NoUndo =>
                undos[c] # NoUndo /\ undos'[c].token = undos[c].token
    PROVE  OwnTokens'
  BY DEF OwnTokens

LEMMA IssuesTokenOwn ==
    ASSUME Types, OwnTokens, NEW w \in Workers, NEW t \in Tokens, IssuesToken(w, t)
    PROVE  OwnTokens'
<1>1. tool[w] \in Made /\ made' = [made EXCEPT ![t] = tool[w]] /\ made \in [Tokens -> Made \cup {None}]
  BY DEF Types, TypeOK, ToolsFit, IssuesToken
<1>2. body' = [body EXCEPT ![t] = [app |-> App, at |-> now]] /\ undos' = undos
        /\ body \in [Tokens -> Body]
  BY DEF IssuesToken, Issue, Types, TypeOK, StoreTypeOK
<1>3. undos \in [Clients -> Undo \cup {NoUndo}]
  BY DEF Types, TypeOK
<1>4. \A c \in Clients : undos[c] # NoUndo => undos[c].token \in Tokens
  BY <1>3 DEF Undo
<1> QED
  BY <1>1, <1>2, <1>4 DEF OwnTokens

LEMMA IssuesElsewhereOwn ==
    ASSUME Types, OwnTokens, NEW t \in Tokens, NEW a \in Apps, IssuesElsewhere(t, a)
    PROVE  OwnTokens'
<1>1. body' = [body EXCEPT ![t] = [app |-> a, at |-> now]] /\ a # App
        /\ body \in [Tokens -> Body] /\ UNCHANGED <<made, undos>>
  BY DEF IssuesElsewhere, Issue, Types, TypeOK, StoreTypeOK, chatVars
<1> QED
  BY <1>1 DEF OwnTokens

\* The store hands a token to its own application only.
LEMMA UndoStartsOwn ==
    ASSUME Types, OwnTokens, NEW c \in Clients, NEW t \in Tokens, NEW a, NEW role \in Roles,
           Proceeds(c, t, a, role), UNCHANGED <<body, made>>,
           handed' # handed => body[t].app = a
    PROVE  OwnTokens'
<1>1. undos \in [Clients -> Undo \cup {NoUndo}]
  BY DEF Types, TypeOK
<1>2. CASE handed' # handed /\ a = App
  BY <1>1, <1>2 DEF Proceeds, OwnTokens
<1>3. CASE ~(handed' # handed /\ a = App)
  BY <1>3, TokensUntouched DEF Proceeds
<1> QED
  BY <1>2, <1>3

LEMMA UndoStepOwn ==
    ASSUME Types, OwnTokens, NEW c \in Clients, UndoStep(c) PROVE OwnTokens'
<1>1. ASSUME NEW t \in Tokens, NEW a \in Apps, NEW role \in Roles, PostUndo(c, t, a, role)
      PROVE  OwnTokens'
  <2>1. CASE MemoryConsumes(t, a) /\ Proceeds(c, t, a, role)
    <3>1. handed' # handed => body[t].app = a
      BY <2>1 DEF MemoryConsumes
    <3>2. UNCHANGED <<body, made>>
      BY <1>1, <2>1 DEF PostUndo, MemoryConsumes
    <3> QED
      BY <2>1, <3>1, <3>2, UndoStartsOwn
  <2>2. CASE RedisPeeks(c, t, a) /\ undos' = undos
    BY <1>1, <2>2, TokensUntouched DEF PostUndo, RedisPeeks
  <2> QED
    BY <1>1, <2>1, <2>2 DEF PostUndo
<1>2. ASSUME NEW role \in Roles, UndoTakes(c, role) PROVE OwnTokens'
  <2>1. peeks[c] # NoPeek /\ peeks[c].token \in Tokens
    BY <1>2 DEF UndoTakes, RedisTakes, Types, TypeOK, StoreTypeOK, Peek
  <2>2. body[peeks[c].token].app = peeks[c].app
    BY <2>1 DEF Types, StoreInv, PeeksAreOwned
  <2>3. Proceeds(c, peeks[c].token, peeks[c].app, role) /\ UNCHANGED <<body, made>>
    BY <1>2 DEF UndoTakes, RedisTakes
  <2> QED
    BY <2>1, <2>2, <2>3, UndoStartsOwn
<1>3. CASE UndoReads(c) \/ UndoCommits(c)
  <2>1. undos \in [Clients -> Undo \cup {NoUndo}]
    BY DEF Types, TypeOK
  <2>2. undos[c] # NoUndo /\ UNCHANGED <<body, made>>
    BY <1>3 DEF UndoReads, UndoCommits, storeVars, NoUndo
  <2>3. \/ undos' = [undos EXCEPT ![c] = NoUndo]
        \/ undos' = [undos EXCEPT ![c] = [[undos[c] EXCEPT !.pc = "writing"] EXCEPT !.seen = row.decision]]
    BY <1>3, <2>1 DEF UndoReads, UndoCommits
  <2>4. undos[c] \in Undo
    BY <2>1, <2>2
  <2>5. [[undos[c] EXCEPT !.pc = "writing"] EXCEPT !.seen = row.decision].token = undos[c].token
    BY <2>4 DEF Undo
  <2> QED
    BY <2>1, <2>2, <2>3, <2>5, TokensUntouched
<1> QED
  BY <1>1, <1>2, <1>3 DEF UndoStep

\* The whole of it.
ChatTyped == Types /\ OwnTokens

LEMMA TypedStep == ChatTyped /\ [Next]_vars => ChatTyped'
<1> SUFFICES ASSUME ChatTyped, [Next]_vars PROVE ChatTyped'
  OBVIOUS
<1>1. StoreInv'
  BY ChatStepsOfStore, StoreStepInv DEF ChatTyped, Types
<1> USE DEF ChatTyped
<1>2. ASSUME NEW w \in Workers, NEW role \in Roles, PostChat(w, role) PROVE ChatTyped'
  BY <1>1, <1>2, PostChatTypes, TokensUntouched DEF PostChat, storeVars
<1>3. ASSUME NEW w \in Workers,
             SavesUserMessage(w) \/ Loads(w) \/ LoadFails(w) \/ Asks(w) \/ Stops(w)
      PROVE  ChatTyped'
  <2>1. UNCHANGED <<body, made, undos>>
    BY <1>3 DEF SavesUserMessage, Loads, LoadFails, Asks, LlmRetries, LlmEndsTurn, LlmCallsTools,
                Stops, storeVars
  <2> QED
    BY <1>1, <1>3, <2>1, AskingTypes, TokensUntouched
<1>4. ASSUME NEW w \in Workers, Calls(w) PROVE ChatTyped'
  <2>1. CASE CallWritesNothing(w) \/ EndsWithoutToken(w)
    BY <1>1, <2>1, ResultTypes, TokensUntouched DEF CallWritesNothing, EndsWithoutToken, storeVars
  <2>2. ASSUME NEW t \in Tokens, IssuesToken(w, t) PROVE ChatTyped'
    BY <1>1, <2>2, ResultTypes, IssuesTokenOwn
  <2>3. ASSUME NEW name \in WriteTools, ToolReads(w, name) PROVE ChatTyped'
    BY <1>1, <2>3, ToolReadsTypes, TokensUntouched DEF ToolReads, storeVars
  <2>4. CASE SavesNote(w)
    BY <1>1, <2>4, SavesNoteTypes, TokensUntouched DEF SavesNote, storeVars
  <2>5. ASSUME NEW noted \in BOOLEAN, Decides(w, noted) PROVE ChatTyped'
    BY <1>1, <2>5, DecidesTypes, TokensUntouched DEF Decides, storeVars
  <2> QED
    BY <1>4, <2>1, <2>2, <2>3, <2>4, <2>5 DEF Calls
<1>5. ASSUME NEW w \in Workers, BreaksOff(w) PROVE ChatTyped'
  BY <1>1, <1>5, BreaksOffTypes, TokensUntouched DEF BreaksOff, storeVars
<1>6. ASSUME NEW c \in Clients, UndoStep(c) PROVE ChatTyped'
  BY <1>1, <1>6, PostUndoTypes, UndoTakesTypes, UndoReadsTypes, UndoCommitsTypes, UndoStepOwn
     DEF UndoStep
<1>7. ASSUME NEW target \in Stages, Patch(target) PROVE ChatTyped'
  BY <1>1, <1>7, PatchTypes, TokensUntouched DEF Patch, storeVars
<1>8. ASSUME NEW t \in Tokens, NEW a \in Apps, IssuesElsewhere(t, a) PROVE ChatTyped'
  BY <1>1, <1>8, AroundTypes, IssuesElsewhereOwn
<1>9. CASE TimePasses
  BY <1>1, <1>9, AroundTypes, TokensUntouched DEF TimePasses, Tick, chatVars
<1>10. CASE Restart
  <2>1. UNCHANGED <<body, made>> /\ undos' = [c \in Clients |-> NoUndo]
    BY <1>10 DEF Restart, StoreRestarts
  <2> QED
    BY <1>1, <1>10, <2>1, RestartTypes, TokensUntouched
<1>11. CASE UNCHANGED vars
  BY <1>11, StutterTypes, TokensUntouched DEF vars, storeVars, chatVars
<1> QED
  BY <1>2, <1>3, <1>4, <1>5, <1>6, <1>7, <1>8, <1>9, <1>10, <1>11 DEF Next, TurnStep

LEMMA AlwaysTyped == Spec => []ChatTyped
<1>1. Init => ChatTyped
  BY InitTypes DEF ChatTyped
<1> QED
  BY <1>1, TypedStep, PTL DEF Spec

\* Every variable stays in its type, and writes and steps within their bounds.
THEOREM TypeCorrect == Spec => []TypeOK
<1>1. ChatTyped => TypeOK
  BY DEF ChatTyped, Types
<1> QED
  BY <1>1, AlwaysTyped, PTL

-----------------------------------------------------------------------------
(* Who changes what.                                                       *)

LEMMA TurnFrame ==
    ASSUME Types, NEW w \in Workers,
           (\E role \in Roles : PostChat(w, role)) \/ TurnStep(w) \/ BreaksOff(w)
    PROVE  /\ \A v \in Workers \ {w} : turns'[v] = turns[v] /\ tool'[v] = tool[v]
           /\ At(w, "writing")' => \E name \in WriteTools : ToolReads(w, name)
           /\ At(w, "issuing")' => \E noted \in BOOLEAN : Decides(w, noted)
           /\ undos' = undos
<1>1. Turns /\ replay \in Replay /\ tool \in [Workers -> Writing \cup Made \cup {None}]
  BY DEF Types, TypeOK, Turns
<1> DEFINE Others == \A v \in Workers \ {w} : turns'[v] = turns[v] /\ tool'[v] = tool[v]
           Elsewhere == turns'[w].pc \notin {"writing", "issuing"}
<1>2. CASE (\E role \in Roles : PostChat(w, role)) \/ LoadFails(w) \/ LlmEndsTurn(w) \/ Stops(w)
              \/ BreaksOff(w)
  <2>1. \E rec : turns' = [turns EXCEPT ![w] = rec] /\ rec.pc \notin {"writing", "issuing"}
    BY <1>2 DEF PostChat, LoadFails, LlmEndsTurn, Stops, BreaksOff, Breaks, Ends, Idle
  <2>2. tool' = tool \/ tool' = [tool EXCEPT ![w] = None]
    BY <1>2 DEF PostChat, LoadFails, LlmEndsTurn, Stops, BreaksOff, Breaks
  <2>3. Others /\ Elsewhere
    BY <1>1, <2>1, <2>2 DEF Turns
  <2>4. undos' = undos
    BY <1>2 DEF PostChat, LoadFails, LlmEndsTurn, Stops, BreaksOff, Breaks
  <2> QED
    BY <2>3, <2>4 DEF At
<1>3. CASE SavesUserMessage(w) \/ Loads(w) \/ LlmRetries(w) \/ \E n \in 1..MaxCalls : LlmCallsTools(w, n)
  <2>1. turns[w] \in Turn /\ turns[w].pc \in {"accepted", "loading", "asking"}
    BY <1>1, <1>3, TurnFields, AtTurn
       DEF SavesUserMessage, Loads, LlmRetries, LlmCallsTools, At, TurnPcs, Idle
  <2>2. UNCHANGED <<tool, undos>>
    BY <1>3 DEF SavesUserMessage, Loads, LlmRetries, LlmCallsTools
  <2>3. turns'[w].pc \in {"accepted", "loading", "asking", "calling"}
            /\ \A v \in Workers \ {w} : turns'[v] = turns[v]
    <3>1. CASE SavesUserMessage(w)
      BY <1>1, <2>1, <3>1 DEF SavesUserMessage, Goes, Turns, Turn
    <3>2. CASE Loads(w)
      <4>1. turns' = [turns EXCEPT ![w] = [[turns[w] EXCEPT !.pc = "asking"] EXCEPT !.loaded = row]]
        BY <1>1, <3>2 DEF Loads, Turns
      <4>2. [[turns[w] EXCEPT !.pc = "asking"] EXCEPT !.loaded = row].pc = "asking"
        BY <2>1 DEF Turn
      <4> QED
        BY <1>1, <4>1, <4>2 DEF Turns
    <3>3. CASE LlmRetries(w)
      <4>1. turns' = [turns EXCEPT ![w] = [turns[w] EXCEPT !.attempt = @ + 1]]
        BY <3>3 DEF LlmRetries
      <4>2. [turns[w] EXCEPT !.attempt = @ + 1].pc = turns[w].pc
        BY <2>1 DEF Turn
      <4> QED
        BY <1>1, <2>1, <4>1, <4>2 DEF Turns
    <3>4. ASSUME NEW n \in 1..MaxCalls, LlmCallsTools(w, n)
          PROVE  turns'[w].pc = "calling" /\ \A v \in Workers \ {w} : turns'[v] = turns[v]
      <4>1. turns' = [turns EXCEPT ![w] = [[turns[w] EXCEPT !.pc = "calling"] EXCEPT !.calls = n]]
        BY <1>1, <3>4 DEF LlmCallsTools, Turns
      <4>2. [[turns[w] EXCEPT !.pc = "calling"] EXCEPT !.calls = n].pc = "calling"
        BY <2>1 DEF Turn
      <4> QED
        BY <1>1, <4>1, <4>2 DEF Turns
    <3> QED
      BY <1>3, <3>1, <3>2, <3>3, <3>4
  <2> QED
    BY <2>2, <2>3 DEF At
<1>4. CASE CallWritesNothing(w) \/ EndsWithoutToken(w) \/ \E t \in Tokens : IssuesToken(w, t)
  <2>1. InCalls(w) /\ turns[w].calls > 0
    BY <1>4 DEF Types, CallsLeft, InCalls, CallWritesNothing, EndsWithoutToken, IssuesToken, At
  <2>2. undos' = undos
    BY <1>4 DEF CallWritesNothing, EndsWithoutToken, IssuesToken
  <2>3. CASE Results(w)
    <3>1. turns'[w].pc \in {"calling", "asking", "stopping"}
            /\ \A v \in Workers \ {w} : turns'[v] = turns[v]
      BY <1>1, <2>1, <2>3, ResultsType
    <3>2. tool' = [tool EXCEPT ![w] = None]
      BY <2>3 DEF Results
    <3> QED
      BY <1>1, <2>2, <3>1, <3>2 DEF At
  <2>4. CASE Breaks(w)
    <3>1. turns' = [turns EXCEPT ![w] = Idle] /\ tool' = [tool EXCEPT ![w] = None]
      BY <2>4 DEF Breaks, Ends
    <3>2. turns'[w].pc = "idle" /\ \A v \in Workers \ {w} : turns'[v] = turns[v]
      BY <1>1, <3>1 DEF Turns, Idle
    <3> QED
      BY <1>1, <2>2, <3>1, <3>2 DEF At
  <2> QED
    BY <1>4, <2>3, <2>4 DEF CallWritesNothing, EndsWithoutToken, IssuesToken
<1>5. CASE SavesNote(w) \/ (\E name \in WriteTools : ToolReads(w, name))
                        \/ (\E noted \in BOOLEAN : Decides(w, noted))
  <2>1. turns[w] # Idle
    BY <1>5 DEF SavesNote, ToolReads, CallStarts, Decides, At, Idle
  <2>2. undos' = undos /\ (tool' = tool \/ \E call : tool' = [tool EXCEPT ![w] = call])
    BY <1>5 DEF SavesNote, ToolReads, Decides
  <2>3. \E pc \in {"resulting", "writing", "issuing"} :
            /\ Goes(w, pc)
            /\ pc = "writing" => \E name \in WriteTools : ToolReads(w, name)
            /\ pc = "issuing" => \E noted \in BOOLEAN : Decides(w, noted)
    <3>1. CASE SavesNote(w)
      BY <3>1 DEF SavesNote
    <3>2. ASSUME NEW name \in WriteTools, ToolReads(w, name) PROVE Goes(w, "writing")
      BY <3>2 DEF ToolReads
    <3>3. ASSUME NEW noted \in BOOLEAN, Decides(w, noted) PROVE Goes(w, "issuing")
      BY <3>3 DEF Decides
    <3> QED
      BY <1>5, <3>1, <3>2, <3>3
  <2>4. PICK pc \in {"resulting", "writing", "issuing"} :
            /\ Goes(w, pc)
            /\ pc = "writing" => \E name \in WriteTools : ToolReads(w, name)
            /\ pc = "issuing" => \E noted \in BOOLEAN : Decides(w, noted)
    BY <2>3
  <2>5. turns'[w].pc = pc /\ \A v \in Workers \ {w} : turns'[v] = turns[v]
    BY <1>1, <2>1, <2>4, GoesType DEF TurnPcs
  <2>6. \A v \in Workers \ {w} : tool'[v] = tool[v]
    BY <1>1, <2>2
  <2> QED
    BY <2>2, <2>4, <2>5, <2>6 DEF At
<1> QED
  BY <1>2, <1>3, <1>4, <1>5 DEF TurnStep, Asks, Calls

LEMMA AroundFrame ==
    ASSUME \/ \E c \in Clients : UndoStep(c)
           \/ \E target \in Stages : Patch(target)
           \/ \E t \in Tokens, a \in Apps : IssuesElsewhere(t, a)
           \/ TimePasses \/ UNCHANGED vars
    PROVE  UNCHANGED <<turns, tool, made, replay, disturbed>>
  BY DEF UndoStep, PostUndo, UndoTakes, UndoReads, UndoCommits, Patch, IssuesElsewhere, TimePasses,
         vars, chatVars

LEMMA RestartFrame ==
    ASSUME Restart
    PROVE  /\ \A w \in Workers : turns'[w] = Idle
           /\ \A c \in Clients : undos'[c] = NoUndo
           /\ UNCHANGED <<row, made, replay>>
  BY DEF Restart

\* The row is written by a tool, an undo or a request that is not of the chat.
LEMMA RowFrame ==
    ASSUME [Next]_vars, row' # row
    PROVE  \/ \E w \in Workers : SavesNote(w) \/ \E noted \in BOOLEAN : Decides(w, noted)
           \/ \E c \in Clients : UndoCommits(c)
           \/ \E target \in Stages : Patch(target)
<1>1. CASE UNCHANGED vars
  BY <1>1 DEF vars, chatVars
<1>2. ASSUME NEW w \in Workers, (\E role \in Roles : PostChat(w, role)) \/ TurnStep(w) \/ BreaksOff(w)
      PROVE  SavesNote(w) \/ \E noted \in BOOLEAN : Decides(w, noted)
  BY <1>2 DEF PostChat, BreaksOff, TurnStep, SavesUserMessage, Loads, LoadFails, Asks, LlmRetries,
              LlmEndsTurn, LlmCallsTools, Stops, Calls, CallWritesNothing, ToolReads, EndsWithoutToken,
              IssuesToken
<1>3. ASSUME NEW c \in Clients, UndoStep(c) PROVE UndoCommits(c)
  BY <1>3 DEF UndoStep, PostUndo, UndoTakes, UndoReads
<1>4. ~TimePasses /\ ~Restart /\ ~\E t \in Tokens, a \in Apps : IssuesElsewhere(t, a)
  BY DEF TimePasses, Restart, IssuesElsewhere, chatVars
<1> QED
  BY <1>1, <1>2, <1>3, <1>4 DEF Next

-----------------------------------------------------------------------------
(* Who writes, and what is written over.                                   *)

\* A tool about to write was called by somebody who may write, and its copy of the row is
\* that of the moment its call began; no viewer is in an undo.
FairTools ==
    /\ \A w \in Workers :
            At(w, "writing") => turns[w].role # "viewer" /\ tool[w].since = tool[w].seen.notes
    /\ \A c \in Clients : undos[c] # NoUndo => undos[c].role # "viewer"

LEMMA FairTurnStep ==
    ASSUME Types, FairTools, NEW w \in Workers,
           (\E role \in Roles : PostChat(w, role)) \/ TurnStep(w) \/ BreaksOff(w)
    PROVE  FairTools'
<1>1. Turns /\ tool \in [Workers -> Writing \cup Made \cup {None}]
  BY DEF Types, TypeOK, Turns
<1>2. ASSUME At(w, "writing")'
      PROVE  turns'[w].role # "viewer" /\ tool'[w].since = tool'[w].seen.notes
  <2>1. PICK name \in WriteTools : ToolReads(w, name)
    BY <1>2, TurnFrame
  <2>2. turns'[w].role = turns[w].role
    BY <1>1, <2>1, AtTurn, GoesType DEF ToolReads, CallStarts, TurnPcs
  <2>3. tool' = [tool EXCEPT ![w] = [name |-> name, seen |-> row, since |-> row.notes]]
            /\ turns[w].role # "viewer"
    BY <2>1 DEF ToolReads, CallStarts, MayWrite
  <2> QED
    BY <1>1, <2>2, <2>3
<1>3. ASSUME NEW v \in Workers \ {w}, At(v, "writing")'
      PROVE  turns'[v].role # "viewer" /\ tool'[v].since = tool'[v].seen.notes
  <2>1. turns'[v] = turns[v] /\ tool'[v] = tool[v]
    BY TurnFrame
  <2> QED
    BY <1>3, <2>1 DEF FairTools, At
<1>4. undos' = undos
  BY TurnFrame
<1> QED
  BY <1>2, <1>3, <1>4 DEF FairTools

LEMMA FairUndoStep ==
    ASSUME Types, FairTools, NEW c \in Clients, UndoStep(c)
    PROVE  FairTools'
<1>1. undos \in [Clients -> Undo \cup {NoUndo}]
  BY DEF Types, TypeOK
<1>2. UNCHANGED <<turns, tool>>
  BY AroundFrame
<1>3. \E x : undos' = [undos EXCEPT ![c] = x] /\ (x = NoUndo \/ x.role # "viewer")
  <2>1. undos[c] = NoUndo \/ undos[c].role # "viewer"
    BY DEF FairTools
  <2>2. undos' = undos => undos' = [undos EXCEPT ![c] = undos[c]]
    BY <1>1
  <2>3. ASSUME NEW t, NEW a, NEW role \in Roles, Permitted(role, "undo"), Proceeds(c, t, a, role)
        PROVE  undos' = undos \/ \E x : undos' = [undos EXCEPT ![c] = x] /\ x.role # "viewer"
    <3> DEFINE rec == [pc |-> "reading", token |-> t, role |-> role, seen |-> NewRow.decision]
    <3>1. rec.role # "viewer"
      BY <2>3 DEF Permitted
    <3>2. undos' = undos \/ undos' = [undos EXCEPT ![c] = rec]
      BY <2>3 DEF Proceeds
    <3> HIDE DEF rec
    <3> QED
      BY <3>1, <3>2
  <2>4. CASE \E t \in Tokens, a \in Apps, role \in Roles : PostUndo(c, t, a, role)
    BY <2>1, <2>2, <2>3, <2>4 DEF PostUndo
  <2>5. CASE \E role \in Roles : UndoTakes(c, role)
    BY <2>1, <2>2, <2>3, <2>5 DEF UndoTakes
  <2>6. CASE UndoReads(c)
    <3>1. undos[c] # NoUndo
      BY <2>6 DEF UndoReads, NoUndo
    <3>2. undos[c] \in Undo
      BY <1>1, <3>1
    <3> DEFINE rec == [[undos[c] EXCEPT !.pc = "writing"] EXCEPT !.seen = row.decision]
    <3>3. rec.role = undos[c].role
      BY <3>2 DEF Undo
    <3>4. undos' = [undos EXCEPT ![c] = rec] \/ undos' = [undos EXCEPT ![c] = NoUndo]
      BY <1>1, <2>6 DEF UndoReads
    <3> HIDE DEF rec
    <3> QED
      BY <2>1, <3>1, <3>3, <3>4
  <2>7. CASE UndoCommits(c)
    BY <2>7 DEF UndoCommits
  <2> QED
    BY <2>4, <2>5, <2>6, <2>7 DEF UndoStep
<1> QED
  BY <1>1, <1>2, <1>3 DEF FairTools, At

LEMMA FairStep == Types /\ FairTools /\ [Next]_vars => FairTools'
<1> SUFFICES ASSUME Types, FairTools, [Next]_vars PROVE FairTools'
  OBVIOUS
<1>1. CASE Restart
  BY <1>1, RestartFrame DEF FairTools, At, Idle
<1>2. CASE UNCHANGED <<turns, tool, undos>>
  BY <1>2 DEF FairTools, At
<1>3. (\E target \in Stages : Patch(target)) \/ (\E t \in Tokens, a \in Apps : IssuesElsewhere(t, a))
        \/ TimePasses \/ UNCHANGED vars => UNCHANGED <<turns, tool, undos>>
  BY DEF Patch, IssuesElsewhere, TimePasses, vars, chatVars
<1> QED
  BY <1>1, <1>2, <1>3, FairTurnStep, FairUndoStep DEF Next

LEMMA AlwaysFair == Spec => [](Types /\ FairTools)
<1>1. Init => FairTools
  BY DEF Init, FairTools, At, Idle, NoUndo
<1>2. ChatTyped => Types
  BY DEF ChatTyped
<1> QED
  BY <1>1, <1>2, AlwaysTyped, FairStep, PTL DEF Spec

\* What a step that writes the row leaves to the others.
LEMMA WriteFrame ==
    ASSUME Types, NEW w \in Workers,
           SavesNote(w) \/ (\E noted \in BOOLEAN : Decides(w, noted))
    PROVE  /\ \A v \in Workers \ {w} : turns'[v] = turns[v]
           /\ turns[w].pc = "writing"
           /\ turns'[w].pc # "writing"
           /\ undos' = undos
<1>1. TurnStep(w) /\ turns[w].pc = "writing"
  BY DEF TurnStep, Calls, SavesNote, Decides, At
<1>2. turns'[w].pc # "writing"
  <2>1. ASSUME NEW name \in WriteTools PROVE ~ToolReads(w, name)
    BY <1>1 DEF ToolReads, CallStarts, At
  <2> QED
    BY <1>1, <2>1, TurnFrame DEF At
<1>3. (\A v \in Workers \ {w} : turns'[v] = turns[v]) /\ undos' = undos
  BY <1>1, TurnFrame
<1> QED
  BY <1>1, <1>2, <1>3

\* Nothing a viewer says in the chat reaches the row, whichever tools the LLM names: each
\* write tool checks the role again (agent/tools.py:299), and the guard of the routes keeps a
\* viewer out of POST /undo (api/deps.py:104).
THEOREM ViewersDoNotWrite == Spec => ViewersWriteNothing
<1> DEFINE Kept ==
        row' # row =>
            /\ \A w \in Workers : turns[w] # Idle /\ turns'[w] # turns[w] => turns[w].role # "viewer"
            /\ \A c \in Clients : undos[c] # NoUndo /\ undos'[c] # undos[c] => undos[c].role # "viewer"
<1>1. Types /\ FairTools /\ [Next]_vars => Kept
  <2> SUFFICES ASSUME Types, FairTools, [Next]_vars, row' # row PROVE Kept
    OBVIOUS
  <2>1. ASSUME NEW w \in Workers, SavesNote(w) \/ \E noted \in BOOLEAN : Decides(w, noted)
        PROVE  Kept
    <3>1. /\ \A v \in Workers \ {w} : turns'[v] = turns[v]
          /\ turns[w].pc = "writing" /\ undos' = undos
      BY <2>1, WriteFrame
    <3>2. turns[w].role # "viewer"
      BY <3>1 DEF FairTools, At
    <3> QED
      BY <3>1, <3>2
  <2>2. ASSUME NEW c \in Clients, UndoCommits(c) PROVE Kept
    BY <2>2 DEF FairTools, UndoCommits
  <2>3. ASSUME NEW target \in Stages, Patch(target) PROVE Kept
    BY <2>3 DEF Patch
  <2> QED
    BY <2>1, <2>2, <2>3, RowFrame
<1> QED
  BY <1>1, AlwaysFair, PTL DEF Spec, ViewersWriteNothing

\* A call can only lose notes that were saved while it ran: its copy of the row is read when
\* the call begins, not when the turn did (agent/tools.py:310).
THEOREM CallsKeepNotes == Spec => NotesAreKept
<1> DEFINE Kept ==
        \A n \in row.notes \ row'.notes :
            \E w \in Workers : At(w, "writing") /\ ~At(w, "writing")' /\ n \notin tool[w].since
<1>1. Types /\ FairTools /\ [Next]_vars => Kept
  <2> SUFFICES ASSUME Types, FairTools, [Next]_vars, NEW n \in row.notes \ row'.notes
               PROVE  \E w \in Workers : At(w, "writing") /\ ~At(w, "writing")' /\ n \notin tool[w].since
    OBVIOUS
  <2>1. row \in Row /\ row' # row
    BY DEF Types, TypeOK
  <2>2. ASSUME NEW w \in Workers, SavesNote(w) \/ \E noted \in BOOLEAN : Decides(w, noted)
        PROVE  At(w, "writing") /\ ~At(w, "writing")' /\ n \notin tool[w].since
    <3>1. At(w, "writing") /\ ~At(w, "writing")' /\ tool[w].since = tool[w].seen.notes
      <4>1. turns[w].pc = "writing" /\ turns'[w].pc # "writing"
        BY <2>2, WriteFrame
      <4> QED
        BY <4>1 DEF FairTools, At
    <3>2. \E noted \in BOOLEAN :
              row'.notes = WithNote(row.notes, tool[w].seen.notes, row.writes + 1, noted)
      <4>1. CASE SavesNote(w)
        BY <2>1, <4>1 DEF SavesNote, Row
      <4>2. ASSUME NEW noted \in BOOLEAN, Decides(w, noted)
            PROVE  row'.notes = WithNote(row.notes, tool[w].seen.notes, row.writes + 1, noted)
        BY <4>2 DEF Decides
      <4> QED
        BY <2>2, <4>1, <4>2
    <3> QED
      BY <3>1, <3>2 DEF WithNote
  <2>3. ASSUME NEW c \in Clients, UndoCommits(c) PROVE row'.notes = row.notes
    BY <2>1, <2>3 DEF UndoCommits, Row
  <2>4. ASSUME NEW target \in Stages, Patch(target) PROVE row'.notes = row.notes
    BY <2>1, <2>4 DEF Patch, Row
  <2> QED
    BY <2>1, <2>2, <2>3, <2>4, RowFrame
<1> QED
  BY <1>1, AlwaysFair, PTL DEF Spec, NotesAreKept

-----------------------------------------------------------------------------
(* The conversation.                                                       *)

\* The open calls are those the turn has left.
Replays(w) ==
    /\ replay.broken = FALSE
    /\ replay.open = IF InCalls(w) THEN turns[w].calls ELSE 0

\* Unless turns overlapped or one broke off in its calls, one turn at most is in flight, and
\* what is open is what it has yet to answer.
Conversation ==
    ~disturbed =>
        /\ \A v, w \in Workers : turns[v] # Idle /\ turns[w] # Idle => v = w
        /\ \A w \in Workers : turns[w] # Idle => Replays(w)
        /\ (\A w \in Workers : turns[w] = Idle) => replay = [open |-> 0, broken |-> FALSE]

LEMMA TalkGoesOn ==
    ASSUME Conversation, NEW w \in Workers, turns[w] # Idle,
           \A v \in Workers \ {w} : turns'[v] = turns[v],
           ~disturbed' => ~disturbed, ~disturbed' /\ Replays(w) => Replays(w)',
           replay' \in Replay
    PROVE  Conversation'
<1> SUFFICES ASSUME ~disturbed' PROVE Conversation'
  BY DEF Conversation
<1>1. \A v \in Workers \ {w} : turns[v] = Idle /\ turns'[v] = Idle
  BY DEF Conversation
<1>2. Replays(w)'
  BY DEF Conversation
<1>3. ASSUME turns'[w] = Idle PROVE replay' = [open |-> 0, broken |-> FALSE]
  <2>1. replay'.open = 0 /\ replay'.broken = FALSE
    BY <1>2, <1>3 DEF Replays, InCalls, Idle
  <2> QED
    BY <2>1 DEF Replay
<1> QED
  BY <1>1, <1>2, <1>3 DEF Conversation

LEMMA SaysInTurn ==
    ASSUME replay.broken = FALSE, replay.open = 0, NEW n, Says(n)
    PROVE  replay'.open = n /\ replay'.broken = FALSE
<1>1. (replay.broken \/ replay.open > 0) = FALSE
  <2>1. ~(0 > 0)
    OBVIOUS
  <2> QED
    BY <2>1
<1>2. replay' = [open |-> n, broken |-> FALSE]
  BY <1>1 DEF Says
<1> QED
  BY <1>2

LEMMA TalkTurnStep ==
    ASSUME Types, Conversation, NEW w \in Workers, TurnStep(w), replay' \in Replay
    PROVE  Conversation'
<1>1. Turns /\ replay \in Replay
  BY DEF Types, TypeOK, Turns
<1>2. SUFFICES ASSUME ~disturbed' PROVE Conversation'
  BY DEF Conversation
<1>8. /\ \A v \in Workers \ {w} : turns'[v] = turns[v]
      /\ disturbed' = disturbed
  <2>1. \A v \in Workers \ {w} : turns'[v] = turns[v]
    BY TurnFrame
  <2>2. disturbed' = disturbed \/ \E t \in Tokens : IssuesToken(w, t)
    BY DEF TurnStep, SavesUserMessage, Loads, LoadFails, Asks, LlmRetries, LlmEndsTurn,
           LlmCallsTools, Stops, Calls, CallWritesNothing, ToolReads, SavesNote,
           EndsWithoutToken, Decides, Results
  <2>3. ASSUME NEW t \in Tokens, IssuesToken(w, t) PROVE disturbed' = disturbed
    <3>1. CASE Results(w)
      BY <3>1 DEF Results
    <3>2. CASE Breaks(w)
      BY <1>2, <2>3, <3>2 DEF Breaks, IssuesToken, Issue, InCalls, At, Types, TypeOK
    <3> QED
      BY <2>3, <3>1, <3>2 DEF IssuesToken
  <2> QED
    BY <2>1, <2>2, <2>3
<1>3. CASE SavesUserMessage(w) \/ LlmEndsTurn(w) \/ Stops(w)
  <2>1. turns[w] # Idle /\ ~InCalls(w)
    BY <1>3 DEF SavesUserMessage, LlmEndsTurn, Stops, At, Idle, InCalls
  <2>2. ~InCalls(w)'
    <3>1. CASE SavesUserMessage(w)
      <4>1. turns'[w].pc = "loading"
        BY <1>1, <2>1, <3>1, GoesType DEF SavesUserMessage, TurnPcs
      <4> QED
        BY <4>1 DEF InCalls
    <3>2. CASE Ends(w)
      BY <1>1, <3>2 DEF Ends, Turns, InCalls, Idle
    <3> QED
      BY <1>3, <3>1, <3>2 DEF LlmEndsTurn, Stops
  <2>3. Says(0)
    BY <1>3 DEF SavesUserMessage, LlmEndsTurn, Stops
  <2>4. Replays(w) => Replays(w)'
    BY <2>1, <2>2, <2>3, SaysInTurn DEF Replays
  <2> QED
    BY <1>8, <2>1, <2>4, TalkGoesOn
<1>4. CASE Loads(w) \/ LoadFails(w) \/ LlmRetries(w)
  <2>1. turns[w] # Idle /\ ~InCalls(w)
    BY <1>4 DEF Loads, LoadFails, LlmRetries, At, Idle, InCalls
  <2>2. ~InCalls(w)'
    <3>1. turns[w] \in Turn
      BY <1>1, <2>1 DEF Turns
    <3>2. CASE Loads(w)
      <4>1. turns' = [turns EXCEPT ![w] = [[turns[w] EXCEPT !.pc = "asking"] EXCEPT !.loaded = row]]
        BY <1>1, <3>2 DEF Loads, Turns
      <4>2. [[turns[w] EXCEPT !.pc = "asking"] EXCEPT !.loaded = row].pc = "asking"
        BY <3>1 DEF Turn
      <4> QED
        BY <1>1, <4>1, <4>2 DEF Turns, InCalls
    <3>3. CASE LoadFails(w)
      BY <1>1, <3>3 DEF LoadFails, Ends, Turns, InCalls, Idle
    <3>4. CASE LlmRetries(w)
      <4>1. turns' = [turns EXCEPT ![w] = [turns[w] EXCEPT !.attempt = @ + 1]]
        BY <3>4 DEF LlmRetries
      <4>2. [turns[w] EXCEPT !.attempt = @ + 1].pc = turns[w].pc
        BY <3>1 DEF Turn
      <4> QED
        BY <1>1, <2>1, <4>1, <4>2 DEF Turns, InCalls
    <3> QED
      BY <1>4, <3>2, <3>3, <3>4
  <2>3. replay' = replay
    BY <1>4 DEF Loads, LoadFails, LlmRetries
  <2>4. Replays(w) => Replays(w)'
    BY <2>1, <2>2, <2>3 DEF Replays
  <2> QED
    BY <1>8, <2>1, <2>4, TalkGoesOn
<1>5. ASSUME NEW n \in 1..MaxCalls, LlmCallsTools(w, n) PROVE Conversation'
  <2> DEFINE rec == [[turns[w] EXCEPT !.pc = "calling"] EXCEPT !.calls = n]
  <2>1. turns[w] # Idle /\ ~InCalls(w)
    BY <1>5 DEF LlmCallsTools, At, Idle, InCalls
  <2>2. rec.pc = "calling" /\ rec.calls = n
    <3>1. turns[w] \in Turn
      BY <1>1, <2>1 DEF Turns
    <3> QED
      BY <3>1 DEF Turn
  <2>3. turns' = [turns EXCEPT ![w] = rec]
    BY <1>1, <1>5 DEF LlmCallsTools, Turns
  <2>4. turns'[w].pc = "calling" /\ turns'[w].calls = n
    BY <1>1, <2>2, <2>3 DEF Turns
  <2>5. Says(n)
    BY <1>5 DEF LlmCallsTools
  <2>6. Replays(w) => Replays(w)'
    BY <2>1, <2>4, <2>5, SaysInTurn DEF Replays, InCalls
  <2> QED
    BY <1>8, <2>1, <2>6, TalkGoesOn
<1>6. CASE CallWritesNothing(w) \/ EndsWithoutToken(w) \/ \E t \in Tokens : IssuesToken(w, t)
  <2>1. InCalls(w) /\ turns[w].calls > 0
    BY <1>6 DEF Types, CallsLeft, InCalls, CallWritesNothing, EndsWithoutToken, IssuesToken, At
  <2>6. CASE Breaks(w)
    BY <1>2, <2>1, <2>6 DEF Breaks
  <2>7. CASE Results(w)
    <3>1. turns[w] # Idle
      BY <2>1 DEF InCalls, Idle
    <3>2. turns[w].calls \in Nat
      BY <1>1, <3>1, TurnFields, ChatAssumption
    <3>3. /\ \/ turns'[w].pc = "calling" /\ turns'[w].calls = turns[w].calls - 1
             \/ turns'[w].pc \in {"asking", "stopping"} /\ turns[w].calls = 1
          /\ replay.open > 0 => replay'.open = replay.open - 1 /\ replay'.broken = replay.broken
      BY <1>1, <2>1, <2>7, ResultsType
    <3>4. Replays(w) => Replays(w)'
      BY <2>1, <3>2, <3>3 DEF Replays, InCalls
    <3> QED
      BY <1>8, <3>1, <3>4, TalkGoesOn
  <2> QED
    BY <1>6, <2>6, <2>7 DEF CallWritesNothing, EndsWithoutToken, IssuesToken
<1>7. CASE SavesNote(w) \/ (\E name \in WriteTools : ToolReads(w, name))
                        \/ (\E noted \in BOOLEAN : Decides(w, noted))
  <2>1. turns[w] # Idle /\ InCalls(w)
    BY <1>7 DEF SavesNote, ToolReads, CallStarts, Decides, At, Idle, InCalls
  <2>2. \E pc \in {"resulting", "writing", "issuing"} : Goes(w, pc)
    BY <1>7 DEF SavesNote, ToolReads, Decides
  <2>3. InCalls(w)' /\ turns'[w].calls = turns[w].calls
    BY <1>1, <2>1, <2>2, GoesType DEF TurnPcs, InCalls
  <2>4. replay' = replay
    BY <1>7 DEF SavesNote, ToolReads, Decides
  <2>5. Replays(w) => Replays(w)'
    BY <2>1, <2>3, <2>4 DEF Replays
  <2> QED
    BY <1>8, <2>1, <2>5, TalkGoesOn
<1> QED
  BY <1>3, <1>4, <1>5, <1>6, <1>7 DEF TurnStep, Asks, Calls

LEMMA TalkStep == ChatTyped /\ Conversation /\ [Next]_vars => Conversation'
<1> SUFFICES ASSUME ChatTyped, Conversation, [Next]_vars PROVE Conversation'
  OBVIOUS
<1>1. Types /\ Turns /\ replay \in Replay /\ replay' \in Replay
  BY TypedStep DEF ChatTyped, Types, TypeOK, Turns
<1>2. ASSUME NEW w \in Workers, NEW role \in Roles, PostChat(w, role) PROVE Conversation'
  <2>1. turns'[w].pc = "accepted" /\ turns'[w] # Idle
            /\ \A v \in Workers \ {w} : turns'[v] = turns[v]
    BY <1>1, <1>2 DEF PostChat, Turns, Idle
  <2>2. turns[w] = Idle /\ disturbed' = (disturbed \/ \E v \in Workers : turns[v] # Idle)
            /\ replay' = replay
    BY <1>2 DEF PostChat
  <2>3. SUFFICES ASSUME ~disturbed' PROVE Conversation'
    BY DEF Conversation
  <2>4. (\A v \in Workers : turns[v] = Idle) /\ replay = [open |-> 0, broken |-> FALSE]
    BY <2>2, <2>3 DEF Conversation
  <2>5. Replays(w)'
    BY <2>1, <2>2, <2>4 DEF Replays, InCalls
  <2> QED
    BY <2>1, <2>4, <2>5 DEF Conversation
<1>3. ASSUME NEW w \in Workers, BreaksOff(w) PROVE Conversation'
  <2>1. turns[w] # Idle /\ turns'[w] = Idle /\ replay' = replay
            /\ \A v \in Workers \ {w} : turns'[v] = turns[v]
    BY <1>1, <1>3 DEF BreaksOff, Breaks, Ends, Turns
  <2>2. ~InCalls(w)'
    BY <2>1 DEF InCalls, Idle
  <2>3. ~disturbed' => ~disturbed /\ ~InCalls(w)
    BY <1>3 DEF BreaksOff, Breaks
  <2>4. ~disturbed' /\ Replays(w) => Replays(w)'
    BY <2>1, <2>2, <2>3 DEF Replays
  <2> QED
    BY <1>1, <2>1, <2>3, <2>4, TalkGoesOn
<1>4. CASE Restart
  <2>1. /\ ~disturbed' => ~disturbed /\ \A w \in Workers : ~InCalls(w)
        /\ replay' = replay
        /\ \A w \in Workers : turns'[w] = Idle
    BY <1>4 DEF Restart
  <2>2. SUFFICES ASSUME ~disturbed' PROVE Conversation'
    BY DEF Conversation
  <2>3. ASSUME NEW w \in Workers, turns[w] # Idle PROVE replay = [open |-> 0, broken |-> FALSE]
    <3>1. Replays(w) /\ ~InCalls(w)
      BY <2>1, <2>2, <2>3 DEF Conversation
    <3> QED
      BY <1>1, <3>1 DEF Replays, Replay
  <2>4. replay = [open |-> 0, broken |-> FALSE]
    BY <2>1, <2>2, <2>3 DEF Conversation
  <2> QED
    BY <2>1, <2>4 DEF Conversation
<1>5. CASE UNCHANGED <<turns, replay, disturbed>>
  BY <1>5 DEF Conversation, Replays, InCalls
<1> QED
  BY <1>1, <1>2, <1>3, <1>4, <1>5, TalkTurnStep, AroundFrame DEF Next

\* Once nothing is in flight, every call in chat_messages is followed by its result, unless
\* turns overlapped or one broke off in its calls (run_turn, agent/chat.py:94).
THEOREM HistoryCanBeReplayed == Spec => []HistoryReplays
<1>1. Init => Conversation
  BY DEF Init, Conversation
<1>2. Conversation => HistoryReplays
  BY DEF Conversation, HistoryReplays
<1> QED
  BY <1>1, <1>2, AlwaysTyped, TalkStep, PTL DEF Spec

-----------------------------------------------------------------------------
(* What an undo brings back.                                               *)

\* A copy of the row that is as old as the last decision has that decision.
CopyFits(copy, current) ==
    copy.last <= current.writes /\ (copy.last = current.last => copy.decision = current.decision)

\* A tool that had seen what it replaced keeps that for its undo.
MadeFits(m, current) == m.write <= current.writes /\ (m.fresh => m.snapshot = m.before)

StampsFit ==
    /\ row.last <= row.writes
    /\ \A w \in Workers : At(w, "writing") => CopyFits(tool[w].seen, row)
    /\ \A w \in Workers : At(w, "issuing") => MadeFits(tool[w], row)
    /\ \A t \in Tokens : made[t] \in Made => MadeFits(made[t], row)

\* An undo has read the decision it was for, if nobody has decided since.
UndosFit ==
    /\ \A c \in Clients : undos[c] # NoUndo => body[undos[c].token].app = App
    /\ \A c \in Clients :
            undos[c].pc = "writing" /\ row.last = made[undos[c].token].write =>
                undos[c].seen = row.decision

Moves ==
    \/ row' = row
    \/ /\ row'.writes = row.writes + 1
       /\ \/ row'.last = row.last /\ row'.decision = row.decision
          \/ row'.last = row.writes + 1

LEMMA RowMoves == Types /\ [Next]_vars => Moves
<1> SUFFICES ASSUME Types, [Next]_vars, row' # row PROVE Moves
  BY DEF Moves
<1>1. row \in Row
  BY DEF Types, TypeOK
<1>2. ASSUME NEW w \in Workers, SavesNote(w) PROVE Moves
  <2> DEFINE notes == WithNote(row.notes, tool[w].seen.notes, row.writes + 1, TRUE)
  <2>1. row' = [[row EXCEPT !.writes = row.writes + 1] EXCEPT !.notes = notes]
    BY <1>1, <1>2 DEF SavesNote, Row
  <2> HIDE DEF notes
  <2> QED
    BY <1>1, <2>1 DEF Moves, Row
<1>3. ASSUME NEW w \in Workers, NEW noted \in BOOLEAN, Decides(w, noted) PROVE Moves
  BY <1>3 DEF Decides, Moves
<1>4. ASSUME NEW c \in Clients, UndoCommits(c) PROVE Moves
  <2> DEFINE d == Undone(row.decision, undos[c].seen, made[undos[c].token].snapshot)
  <2>1. row' = [[[row EXCEPT !.writes = row.writes + 1] EXCEPT !.last = row.writes + 1] EXCEPT !.decision = d]
    BY <1>1, <1>4 DEF UndoCommits, Row
  <2> HIDE DEF d
  <2> QED
    BY <1>1, <2>1 DEF Moves, Row
<1>5. ASSUME NEW target \in Stages, Patch(target) PROVE Moves
  <2> DEFINE d == Patched(row.decision, target, row.writes + 1)
  <2>1. row' = [[[row EXCEPT !.writes = row.writes + 1] EXCEPT !.last = row.writes + 1] EXCEPT !.decision = d]
    BY <1>1, <1>5 DEF Patch, Row
  <2> HIDE DEF d
  <2> QED
    BY <1>1, <2>1 DEF Moves, Row
<1> QED
  BY <1>2, <1>3, <1>4, <1>5, RowFrame

LEMMA RowNumbers ==
    ASSUME Types, NEW r \in Row
    PROVE  r.last \in Nat /\ r.writes \in Nat
  BY ChatAssumption DEF Row, Writes

LEMMA FitsOn ==
    ASSUME Types, Moves, row.last <= row.writes
    PROVE  /\ row'.last <= row'.writes
           /\ \A copy \in Row : CopyFits(copy, row) => CopyFits(copy, row')
           /\ \A m \in Made : MadeFits(m, row) => MadeFits(m, row')
<1>1. row \in Row /\ row.last \in Nat /\ row.writes \in Nat
  BY RowNumbers DEF Types, TypeOK
<1>2. row'.last <= row'.writes
  BY <1>1 DEF Moves
<1>3. ASSUME NEW copy \in Row, CopyFits(copy, row) PROVE CopyFits(copy, row')
  <2>1. copy.last \in Nat /\ copy.last <= row.writes
    BY <1>3, RowNumbers DEF CopyFits
  <2> QED
    BY <1>1, <1>3, <2>1 DEF Moves, CopyFits
<1>4. ASSUME NEW m \in Made, MadeFits(m, row) PROVE MadeFits(m, row')
  <2>1. m.write \in Nat
    BY ChatAssumption DEF Made, Writes
  <2>2. m.write <= row'.writes
    BY <1>1, <1>4, <2>1 DEF Moves, MadeFits
  <2> QED
    BY <1>4, <2>2 DEF MadeFits
<1> QED
  BY <1>2, <1>3, <1>4

\* What a tool keeps for the undo of its decision.
LEMMA DecidesFits ==
    ASSUME Types, StampsFit, NEW w \in Workers, NEW noted \in BOOLEAN, Decides(w, noted)
    PROVE  MadeFits(tool'[w], row')
<1> DEFINE n == row.writes + 1
           rec == [snapshot |-> tool[w].seen.decision, before |-> row.decision,
                   fresh |-> tool[w].seen.last = row.last, write |-> n]
<1>1. tool' = [tool EXCEPT ![w] = rec] /\ row'.writes = n
  BY DEF Decides
<1>2. tool'[w] = rec
  BY <1>1 DEF Types, TypeOK
<1>3. CopyFits(tool[w].seen, row)
  BY DEF Decides, StampsFit
<1>4. rec.fresh => rec.snapshot = rec.before
  BY <1>3 DEF CopyFits
<1>5. rec.write <= n
  <2>1. n \in Nat
    BY RowNumbers DEF Types, TypeOK
  <2> QED
    BY <2>1
<1> HIDE DEF rec
<1> QED
  BY <1>1, <1>2, <1>4, <1>5 DEF MadeFits

LEMMA MadeFrame ==
    ASSUME [Next]_vars, made' # made
    PROVE  \E w \in Workers, t \in Tokens : IssuesToken(w, t)
<1>1. ASSUME NEW w \in Workers, (\E role \in Roles : PostChat(w, role)) \/ TurnStep(w) \/ BreaksOff(w)
      PROVE  \E t \in Tokens : IssuesToken(w, t)
  BY <1>1 DEF PostChat, BreaksOff, TurnStep, SavesUserMessage, Loads, LoadFails, Asks, LlmRetries,
              LlmEndsTurn, LlmCallsTools, Stops, Calls, CallWritesNothing, ToolReads, EndsWithoutToken,
              SavesNote, Decides
<1> QED
  BY <1>1, AroundFrame, RestartFrame DEF Next

LEMMA StampsStep == Types /\ StampsFit /\ [Next]_vars => StampsFit'
<1> SUFFICES ASSUME Types, StampsFit, [Next]_vars PROVE StampsFit'
  OBVIOUS
<1>1. /\ tool \in [Workers -> Writing \cup Made \cup {None}] /\ Turns
      /\ made \in [Tokens -> Made \cup {None}] /\ row \in Row
  BY DEF Types, TypeOK, Turns
<1>2. /\ row'.last <= row'.writes
      /\ \A copy \in Row : CopyFits(copy, row) => CopyFits(copy, row')
      /\ \A m \in Made : MadeFits(m, row) => MadeFits(m, row')
  BY RowMoves, FitsOn DEF StampsFit
<1>3. ASSUME NEW w \in Workers, turns'[w] = turns[w], tool'[w] = tool[w]
      PROVE  /\ At(w, "writing")' => CopyFits(tool'[w].seen, row')
             /\ At(w, "issuing")' => MadeFits(tool'[w], row')
  <2>1. CASE turns[w].pc = "writing"
    <3>1. tool[w] \in Writing /\ CopyFits(tool[w].seen, row)
      BY <2>1 DEF Types, ToolsFit, StampsFit, At
    <3>2. tool[w].seen \in Row
      BY <3>1 DEF Writing
    <3> QED
      BY <1>2, <1>3, <2>1, <3>1, <3>2 DEF At
  <2>2. CASE turns[w].pc = "issuing"
    <3>1. tool[w] \in Made /\ MadeFits(tool[w], row)
      BY <2>2 DEF Types, ToolsFit, StampsFit, At
    <3> QED
      BY <1>2, <1>3, <2>2, <3>1 DEF At
  <2> QED
    BY <1>3, <2>1, <2>2 DEF At
<1>4. ASSUME NEW w \in Workers
      PROVE  /\ At(w, "writing")' => CopyFits(tool'[w].seen, row')
             /\ At(w, "issuing")' => MadeFits(tool'[w], row')
  <2>1. CASE (\E role \in Roles : PostChat(w, role)) \/ TurnStep(w) \/ BreaksOff(w)
    <3>1. ASSUME NEW name \in WriteTools, ToolReads(w, name) PROVE CopyFits(tool'[w].seen, row')
      <4>1. tool'[w].seen = row /\ row' = row
        BY <1>1, <3>1 DEF ToolReads
      <4> QED
        BY <4>1 DEF CopyFits, StampsFit
    <3>2. ASSUME NEW noted \in BOOLEAN, Decides(w, noted) PROVE MadeFits(tool'[w], row')
      BY <3>2, DecidesFits
    <3> QED
      BY <2>1, <3>1, <3>2, TurnFrame
  <2>2. ASSUME NEW v \in Workers, v # w,
               (\E role \in Roles : PostChat(v, role)) \/ TurnStep(v) \/ BreaksOff(v)
        PROVE  turns'[w] = turns[w] /\ tool'[w] = tool[w]
    BY <2>2, TurnFrame
  <2>3. CASE Restart
    BY <2>3, RestartFrame DEF At, Idle
  <2>4. CASE UNCHANGED <<turns, tool>>
    BY <1>3, <2>4
  <2> QED
    BY <1>3, <2>1, <2>2, <2>3, <2>4, AroundFrame DEF Next
<1>5. ASSUME NEW t \in Tokens, made'[t] \in Made PROVE MadeFits(made'[t], row')
  <2>1. CASE made'[t] = made[t]
    BY <1>2, <1>5, <2>1 DEF StampsFit
  <2>2. CASE made'[t] # made[t]
    <3>1. PICK w \in Workers, u \in Tokens : IssuesToken(w, u)
      BY <2>2, MadeFrame
    <3>2. made' = [made EXCEPT ![u] = tool[w]] /\ At(w, "issuing") /\ row' = row
      BY <3>1 DEF IssuesToken
    <3>3. made'[t] = tool[w]
      BY <1>1, <2>2, <3>2
    <3> QED
      BY <3>2, <3>3 DEF StampsFit
  <2> QED
    BY <2>1, <2>2
<1> QED
  BY <1>2, <1>4, <1>5 DEF StampsFit

\* What is stored for a token of this application stays.
LEMMA BodyStays ==
    ASSUME Types, [Next]_vars, NEW t \in Tokens, body[t].app = App
    PROVE  body'[t].app = App
<1>1. body \in [Tokens -> Body]
  BY DEF Types, TypeOK, StoreTypeOK
<1>2. body[t] # NoBody
  BY StoreAssumption, ChatAssumption DEF NoBody
<1>3. [StoreNext]_storeVars
  BY ChatStepsOfStore
<1>4. ASSUME NEW u \in Tokens, NEW a \in Apps, Issue(u, a) PROVE body'[t] = body[t]
  BY <1>1, <1>2, <1>4 DEF Issue
<1>5. CASE UNCHANGED body
  BY <1>5
<1> QED
  BY <1>3, <1>4, <1>5 DEF StoreNext, MemoryConsumes, RedisPeeks, RedisTakes, Tick, StoreRestarts,
                          storeVars

\* An undo in flight is as it was, or has just got its token's payload, or has just read
\* the row.
LEMMA UndoFrame ==
    ASSUME Types, [Next]_vars, NEW c \in Clients, undos'[c] # NoUndo
    PROVE  \/ undos'[c] = undos[c]
           \/ undos'[c].pc = "reading" /\ body'[undos'[c].token].app = App
           \/ /\ undos[c] # NoUndo
              /\ undos'[c].token = undos[c].token /\ undos'[c].seen = row.decision
              /\ UNCHANGED <<row, made>>
<1>1. undos \in [Clients -> Undo \cup {NoUndo}]
  BY DEF Types, TypeOK
<1>2. ASSUME NEW t \in Tokens, NEW a \in Apps, NEW role \in Roles,
             PostUndo(c, t, a, role), undos'[c] # undos[c]
      PROVE  undos'[c].pc = "reading" /\ body'[undos'[c].token].app = App
  <2> DEFINE rec == [pc |-> "reading", token |-> t, role |-> role, seen |-> NewRow.decision]
  <2>1. MemoryConsumes(t, a) /\ handed' # handed /\ a = App /\ undos' = [undos EXCEPT ![c] = rec]
    BY <1>2 DEF PostUndo, Proceeds
  <2>2. body[t].app = a /\ body' = body
    BY <2>1 DEF MemoryConsumes
  <2>3. undos'[c] = rec
    BY <1>1, <2>1
  <2> QED
    BY <2>1, <2>2, <2>3
<1>3. ASSUME NEW role \in Roles, UndoTakes(c, role), undos'[c] # undos[c]
      PROVE  undos'[c].pc = "reading" /\ body'[undos'[c].token].app = App
  <2> DEFINE t == peeks[c].token
             rec == [pc |-> "reading", token |-> t, role |-> role, seen |-> NewRow.decision]
  <2>1. RedisTakes(c) /\ peeks[c].app = App /\ undos' = [undos EXCEPT ![c] = rec]
    BY <1>3 DEF UndoTakes, Proceeds
  <2>2. body[t].app = peeks[c].app /\ body' = body
    BY <2>1 DEF RedisTakes, Types, StoreInv, PeeksAreOwned
  <2>3. undos'[c] = rec
    BY <1>1, <2>1
  <2> QED
    BY <2>1, <2>2, <2>3
<1>4. ASSUME UndoReads(c)
      PROVE  /\ undos[c] # NoUndo
             /\ undos'[c].token = undos[c].token /\ undos'[c].seen = row.decision
             /\ UNCHANGED <<row, made>>
  <2> DEFINE rec == [[undos[c] EXCEPT !.pc = "writing"] EXCEPT !.seen = row.decision]
  <2>1. undos[c] \in Undo /\ undos[c] # NoUndo
    BY <1>1, <1>4 DEF UndoReads, NoUndo
  <2>2. rec.token = undos[c].token /\ rec.seen = row.decision
    BY <2>1 DEF Undo
  <2>3. undos' = [undos EXCEPT ![c] = rec] \/ undos' = [undos EXCEPT ![c] = NoUndo]
    BY <1>1, <1>4 DEF UndoReads
  <2> HIDE DEF rec
  <2>4. undos'[c] = rec
    BY <1>1, <2>3
  <2>5. UNCHANGED <<row, made>>
    BY <1>4 DEF UndoReads
  <2> QED
    BY <2>1, <2>2, <2>4, <2>5
<1>5. CASE UndoCommits(c)
  BY <1>1, <1>5 DEF UndoCommits
<1>6. CASE UndoStep(c)
  BY <1>2, <1>3, <1>4, <1>5, <1>6 DEF UndoStep
<1>7. ASSUME NEW e \in Clients, e # c, UndoStep(e) PROVE undos'[c] = undos[c]
  BY <1>1, <1>7 DEF UndoStep, PostUndo, UndoTakes, Proceeds, UndoReads, UndoCommits
<1>8. ~Restart
  BY RestartFrame
<1>9. ASSUME NEW w \in Workers, (\E role \in Roles : PostChat(w, role)) \/ TurnStep(w) \/ BreaksOff(w)
      PROVE  undos' = undos
  BY <1>9, TurnFrame
<1>10. (\E target \in Stages : Patch(target)) \/ (\E t \in Tokens, a \in Apps : IssuesElsewhere(t, a))
         \/ TimePasses \/ UNCHANGED vars => undos' = undos
  BY DEF Patch, IssuesElsewhere, TimePasses, vars, chatVars
<1> QED
  BY <1>6, <1>7, <1>8, <1>9, <1>10 DEF Next

LEMMA UndosStep == ChatTyped /\ StampsFit /\ UndosFit /\ [Next]_vars => UndosFit'
<1> SUFFICES ASSUME ChatTyped, StampsFit, UndosFit, [Next]_vars PROVE UndosFit'
  OBVIOUS
<1>1. /\ Types /\ Moves /\ row \in Row
      /\ undos \in [Clients -> Undo \cup {NoUndo}] /\ undos' \in [Clients -> Undo \cup {NoUndo}]
      /\ made \in [Tokens -> Made \cup {None}]
  BY RowMoves, TypedStep DEF ChatTyped, Types, TypeOK
<1>2. ASSUME NEW c \in Clients, undos[c] # NoUndo
      PROVE  undos[c].token \in Tokens /\ made[undos[c].token] \in Made
                /\ made'[undos[c].token] = made[undos[c].token]
  <2>1. undos[c].token \in Tokens
    BY <1>1, <1>2 DEF Undo
  <2>2. body[undos[c].token].app = App
    BY <1>2 DEF UndosFit
  <2>3. ASSUME NEW w \in Workers, NEW t \in Tokens, IssuesToken(w, t)
        PROVE  made'[undos[c].token] = made[undos[c].token]
    <3>1. body[t] = NoBody /\ made' = [made EXCEPT ![t] = tool[w]]
      BY <2>3 DEF IssuesToken, Issue
    <3>2. t # undos[c].token
      BY <2>2, <3>1, StoreAssumption, ChatAssumption DEF NoBody
    <3> QED
      BY <1>1, <2>1, <3>1, <3>2
  <2>4. made'[undos[c].token] = made[undos[c].token]
    BY <2>3, MadeFrame
  <2> QED
    BY <1>2, <2>1, <2>4 DEF ChatTyped, OwnTokens
<1>3. ASSUME NEW c \in Clients, undos'[c] # NoUndo PROVE body'[undos'[c].token].app = App
  <2>1. undos[c] # NoUndo => body'[undos[c].token].app = App
    BY <1>1, <1>2, BodyStays DEF UndosFit
  <2> QED
    BY <1>1, <1>3, <2>1, UndoFrame
<1>4. ASSUME NEW c \in Clients, undos'[c].pc = "writing",
             row'.last = made'[undos'[c].token].write
      PROVE  undos'[c].seen = row'.decision
  <2>1. undos'[c] # NoUndo
    BY <1>4 DEF NoUndo
  <2>2. CASE undos'[c] = undos[c]
    <3> DEFINE m == made[undos[c].token]
    <3>1. m \in Made /\ row'.last = m.write /\ MadeFits(m, row)
      BY <1>2, <1>4, <2>1, <2>2 DEF StampsFit
    <3>2. m.write \in Nat /\ m.write <= row.writes /\ row.writes \in Nat
      BY <1>1, <3>1, RowNumbers, ChatAssumption DEF MadeFits, Made, Writes
    <3>3. row'.last = row.last /\ row'.decision = row.decision
      BY <3>1, <3>2, <1>1 DEF Moves
    <3> QED
      BY <1>4, <2>2, <3>1, <3>3 DEF UndosFit
  <2>3. CASE undos'[c].seen = row.decision /\ UNCHANGED <<row, made>>
    BY <2>3
  <2> QED
    BY <1>1, <1>4, <2>1, <2>2, <2>3, UndoFrame
<1> QED
  BY <1>3, <1>4 DEF UndosFit

LEMMA AlwaysStamped == Spec => [](ChatTyped /\ StampsFit /\ UndosFit)
<1>1. Init => StampsFit /\ UndosFit
  <2> SUFFICES ASSUME Init PROVE StampsFit /\ UndosFit
    OBVIOUS
  <2>1. \A t \in Tokens : made[t] \notin Made
    BY DEF Init, None, Made
  <2>2. row.last <= row.writes
    BY DEF Init, NewRow
  <2>3. UndosFit
    BY DEF Init, UndosFit, NoUndo
  <2> QED
    BY <2>1, <2>2, <2>3 DEF Init, StampsFit, At, Idle
<1>2. ChatTyped => Types
  BY DEF ChatTyped
<1> QED
  BY <1>1, <1>2, TypedStep, InitTypes, StampsStep, UndosStep, PTL DEF Spec, ChatTyped

LEMMA UndoneIsOld ==
    ASSUME NEW d \in Decision, NEW old \in Decision
    PROVE  Undone(d, d, old) = old
<1> DEFINE new == Undone(d, d, old)
<1>1. new \in [stage : {old.stage}, validated : {old.validated}, rejected : {old.rejected}]
  BY DEF Undone, Decision
<1> HIDE DEF new
<1>2. old \in [stage : {old.stage}, validated : {old.validated}, rejected : {old.rejected}]
  BY DEF Decision
<1>3. new = old
  BY <1>1, <1>2
<1> QED
  BY <1>3 DEF new

\* If the tool had seen what it replaced and nobody has decided since, the undo brings back
\* the stage and both stamps as they were (agent/tools.py:334, post_undo, api/chat.py:85).
THEOREM UndoBringsBack == Spec => UndoRestores
<1> DEFINE Restores ==
        \A c \in Clients :
            LET m == made[undos[c].token]
            IN  undos[c].pc = "writing" /\ undos'[c] = NoUndo /\ row' # row =>
                    (m.fresh /\ row.last = m.write => row'.decision = m.before)
<1>1. ChatTyped /\ StampsFit /\ UndosFit /\ [Next]_vars => Restores
  <2> SUFFICES ASSUME ChatTyped, StampsFit, UndosFit, [Next]_vars, NEW c \in Clients,
                      undos[c].pc = "writing", undos'[c] = NoUndo, row' # row,
                      made[undos[c].token].fresh, row.last = made[undos[c].token].write
               PROVE  row'.decision = made[undos[c].token].before
    OBVIOUS
  <2> DEFINE m == made[undos[c].token]
  <2>1. Types /\ row \in Row /\ undos \in [Clients -> Undo \cup {NoUndo}] /\ undos[c] # NoUndo
    BY DEF ChatTyped, Types, TypeOK, NoUndo
  <2>2. undos[c].token \in Tokens /\ m \in Made
    BY <2>1 DEF ChatTyped, OwnTokens, Undo
  <2>3. m.snapshot = m.before /\ undos[c].seen = row.decision
    BY <2>2 DEF StampsFit, MadeFits, UndosFit
  <2>4. m.snapshot \in Decision /\ row.decision \in Decision
    BY <2>1, <2>2 DEF Made, Row
  <2>5. UndoCommits(c)
    <3>1. undos'[c] # undos[c]
      BY <2>1
    <3>2. ASSUME NEW w \in Workers, SavesNote(w) \/ \E noted \in BOOLEAN : Decides(w, noted)
          PROVE  FALSE
      BY <2>1, <3>1, <3>2, WriteFrame
    <3>3. ASSUME NEW e \in Clients, UndoCommits(e) PROVE e = c
      BY <2>1, <3>1, <3>3 DEF UndoCommits
    <3>4. ASSUME NEW target \in Stages, Patch(target) PROVE FALSE
      BY <3>1, <3>4 DEF Patch
    <3> QED
      BY <3>2, <3>3, <3>4, RowFrame
  <2>6. row'.decision = Undone(row.decision, undos[c].seen, m.snapshot)
    BY <2>1, <2>5 DEF UndoCommits, Row
  <2> QED
    BY <2>3, <2>4, <2>6, UndoneIsOld
<1> QED
  BY <1>1, AlwaysStamped, PTL DEF Spec, UndoRestores
=============================================================================
