-------------------------- MODULE UndoStore_proofs --------------------------
(* The undo stores implement OneShotTokens, for every number of tokens,     *)
(* applications and clients.                                                *)
EXTENDS UndoStore, TLAPS

\* What a request has peeked at is a token of the application it asks for.
PeeksAreOwned ==
    \A c \in Clients : peeks[c] # NoPeek => peeks[c].app = body[peeks[c].token].app

PeeksAreRedis == \A c \in Clients : peeks[c] # NoPeek => backend = "redis"

EntriesAreIssued == \A t \in entries : body[t] # NoBody

StoreInv == StoreTypeOK /\ EntriesAreIssued /\ PeeksAreRedis /\ PeeksAreOwned

USE DEF NoBody, NoPeek, Body, Peek, IsFresh, Hands, Expired

LEMMA StoreInitInv == StoreInit => StoreInv
<1> SUFFICES ASSUME StoreInit PROVE StoreInv
  OBVIOUS
<1>1. StoreTypeOK
  BY StoreAssumption DEF StoreInit, StoreTypeOK
<1>2. EntriesAreIssued /\ PeeksAreRedis /\ PeeksAreOwned
  BY DEF StoreInit, EntriesAreIssued, PeeksAreRedis, PeeksAreOwned
<1> QED
  BY <1>1, <1>2 DEF StoreInv

LEMMA IssueInv == ASSUME StoreInv, NEW t \in Tokens, NEW a \in Apps, Issue(t, a) PROVE StoreInv'
<1>1. StoreTypeOK'
  BY DEF StoreInv, StoreTypeOK, Issue
<1>2. EntriesAreIssued'
  BY StoreAssumption DEF StoreInv, StoreTypeOK, EntriesAreIssued, Issue
<1>3. PeeksAreRedis'
  BY DEF StoreInv, PeeksAreRedis, Issue
<1>4. PeeksAreOwned'
  <2> SUFFICES ASSUME NEW c \in Clients, peeks[c] # NoPeek
               PROVE  peeks[c].app = body'[peeks[c].token].app
    BY DEF PeeksAreOwned, Issue
  <2>1. peeks[c] \in Peek /\ peeks[c].app = body[peeks[c].token].app
    BY DEF StoreInv, StoreTypeOK, PeeksAreOwned
  <2>2. peeks[c].token # t
    BY <2>1, StoreAssumption DEF Issue
  <2> QED
    BY <2>1, <2>2 DEF StoreInv, StoreTypeOK, Issue
<1> QED
  BY <1>1, <1>2, <1>3, <1>4 DEF StoreInv

LEMMA HandsTyped ==
    ASSUME StoreTypeOK, NEW t \in Tokens, NEW a \in Apps, Hands(t, a)
    PROVE  handed' \in [Tokens -> Seq(Apps)]
  BY DEF StoreTypeOK

LEMMA MemoryConsumesInv ==
    ASSUME StoreInv, NEW t \in Tokens, NEW a \in Apps, MemoryConsumes(t, a) PROVE StoreInv'
<1>1. handed' \in [Tokens -> Seq(Apps)]
  BY HandsTyped DEF StoreInv, StoreTypeOK, MemoryConsumes
<1>2. StoreTypeOK'
  BY <1>1 DEF StoreInv, StoreTypeOK, MemoryConsumes
<1>3. EntriesAreIssued' /\ PeeksAreRedis' /\ PeeksAreOwned'
  BY DEF StoreInv, EntriesAreIssued, PeeksAreRedis, PeeksAreOwned, MemoryConsumes
<1> QED
  BY <1>2, <1>3 DEF StoreInv

LEMMA RedisPeeksInv ==
    ASSUME StoreInv, NEW c \in Clients, NEW t \in Tokens, NEW a \in Apps, RedisPeeks(c, t, a)
    PROVE  StoreInv'
<1> DEFINE peek == [token |-> t, app |-> a]
<1>1. CASE peeks' = peeks
  BY <1>1 DEF StoreInv, StoreTypeOK, EntriesAreIssued, PeeksAreRedis, PeeksAreOwned, RedisPeeks
<1>2. CASE peeks' = [peeks EXCEPT ![c] = peek] /\ body[t].app = a
  <2>1. peek \in Peek /\ peek.token = t /\ peek.app = a
    OBVIOUS
  <2> HIDE DEF peek
  <2>2. StoreTypeOK'
    BY <1>2, <2>1 DEF StoreInv, StoreTypeOK, RedisPeeks
  <2>3. EntriesAreIssued' /\ PeeksAreRedis'
    BY <1>2 DEF StoreInv, StoreTypeOK, EntriesAreIssued, PeeksAreRedis, RedisPeeks
  <2>4. PeeksAreOwned'
    BY <1>2, <2>1 DEF StoreInv, StoreTypeOK, PeeksAreOwned, RedisPeeks
  <2> QED
    BY <2>2, <2>3, <2>4 DEF StoreInv
<1> QED
  BY <1>1, <1>2 DEF RedisPeeks

LEMMA RedisTakesInv ==
    ASSUME StoreInv, NEW c \in Clients, RedisTakes(c) PROVE StoreInv'
<1>1. peeks[c] \in Peek
  BY DEF StoreInv, StoreTypeOK, RedisTakes
<1>2. handed' \in [Tokens -> Seq(Apps)]
  BY <1>1, HandsTyped DEF StoreInv, StoreTypeOK, RedisTakes
<1>3. StoreTypeOK'
  BY <1>2 DEF StoreInv, StoreTypeOK, RedisTakes
<1>4. EntriesAreIssued'
  BY DEF StoreInv, EntriesAreIssued, RedisTakes
<1>5. PeeksAreRedis' /\ PeeksAreOwned'
  BY DEF StoreInv, StoreTypeOK, PeeksAreRedis, PeeksAreOwned, RedisTakes
<1> QED
  BY <1>3, <1>4, <1>5 DEF StoreInv

LEMMA TickInv == StoreInv /\ Tick => StoreInv'
  BY StoreAssumption DEF StoreInv, StoreTypeOK, EntriesAreIssued, PeeksAreRedis, PeeksAreOwned, Tick

LEMMA RestartInv == StoreInv /\ StoreRestarts => StoreInv'
  BY StoreAssumption DEF StoreInv, StoreTypeOK, EntriesAreIssued, PeeksAreRedis, PeeksAreOwned, StoreRestarts

LEMMA StoreStepInv == StoreInv /\ [StoreNext]_storeVars => StoreInv'
<1> SUFFICES ASSUME StoreInv, [StoreNext]_storeVars PROVE StoreInv'
  OBVIOUS
<1>1. ASSUME NEW t \in Tokens, NEW a \in Apps, Issue(t, a) PROVE StoreInv'
  BY <1>1, IssueInv
<1>2. ASSUME NEW t \in Tokens, NEW a \in Apps, MemoryConsumes(t, a) PROVE StoreInv'
  BY <1>2, MemoryConsumesInv
<1>3. ASSUME NEW t \in Tokens, NEW a \in Apps, NEW c \in Clients, RedisPeeks(c, t, a) PROVE StoreInv'
  BY <1>3, RedisPeeksInv
<1>4. ASSUME NEW c \in Clients, RedisTakes(c) PROVE StoreInv'
  BY <1>4, RedisTakesInv
<1>5. CASE Tick
  BY <1>5, TickInv
<1>6. CASE StoreRestarts
  BY <1>6, RestartInv
<1>7. CASE UNCHANGED storeVars
  BY <1>7 DEF storeVars, StoreInv, StoreTypeOK, EntriesAreIssued, PeeksAreRedis, PeeksAreOwned
<1> QED
  BY <1>1, <1>2, <1>3, <1>4, <1>5, <1>6, <1>7 DEF StoreNext

-----------------------------------------------------------------------------
(* Each step of a store is a step of OneShotTokens, or a stutter.           *)

USE DEF Redeemable

LEMMA InitRefines == StoreInit => OneShot!Init
  BY DEF StoreInit, OneShot!Init, OneShot!NoBody

LEMMA IssueRefines ==
    ASSUME StoreInv, NEW t \in Tokens, NEW a \in Apps, Issue(t, a) PROVE OneShot!Issue(t, a)
<1>1. Redeemable' = Redeemable \cup {t}
  <2>1. body'[t].at = now /\ \A u \in Tokens \ {t} : body'[u] = body[u]
    BY DEF StoreInv, StoreTypeOK, Issue
  <2>2. now - now <= TTL /\ entries \subseteq Tokens
    BY StoreAssumption DEF StoreInv, StoreTypeOK
  <2> QED
    BY <2>1, <2>2, StoreAssumption DEF StoreInv, StoreTypeOK, EntriesAreIssued, Issue
<1> QED
  BY <1>1 DEF OneShot!Issue, OneShot!NoBody, Issue

LEMMA MemoryConsumesRefines ==
    ASSUME StoreInv, NEW t \in Tokens, NEW a \in Apps, MemoryConsumes(t, a)
    PROVE  OneShot!Redeem(t, a) \/ UNCHANGED OneShot!vars
<1>1. CASE IsFresh(t) /\ body[t].app = a
  <2>1. Redeemable' = Redeemable \ {t}
    BY <1>1 DEF MemoryConsumes
  <2> QED
    BY <1>1, <2>1 DEF MemoryConsumes, OneShot!Redeem
<1>2. CASE ~(IsFresh(t) /\ body[t].app = a)
  <2>1. Redeemable' = Redeemable
    BY <1>2 DEF MemoryConsumes
  <2> QED
    BY <1>2, <2>1 DEF MemoryConsumes, OneShot!vars
<1> QED
  BY <1>1, <1>2

LEMMA RedisTakesRefines ==
    ASSUME StoreInv, NEW c \in Clients, RedisTakes(c)
    PROVE  (\E t \in Tokens, a \in Apps : OneShot!Redeem(t, a)) \/ UNCHANGED OneShot!vars
<1>1. PICK t \in Tokens, a \in Apps : t = peeks[c].token /\ a = peeks[c].app
  BY DEF StoreInv, StoreTypeOK, RedisTakes
<1>2. a = body[t].app /\ backend = "redis"
  BY <1>1 DEF StoreInv, PeeksAreOwned, PeeksAreRedis, RedisTakes
<1>3. CASE t \in entries
  <2>1. Redeemable' = Redeemable \ {t} /\ t \in Redeemable
    BY <1>1, <1>2, <1>3 DEF RedisTakes
  <2>2. OneShot!Redeem(t, a)
    BY <1>1, <1>2, <1>3, <2>1 DEF RedisTakes, OneShot!Redeem
  <2> QED
    BY <2>2
<1>4. CASE t \notin entries
  <2>1. Redeemable' = Redeemable
    BY <1>1, <1>4 DEF RedisTakes
  <2> QED
    BY <1>1, <1>4, <2>1 DEF RedisTakes, OneShot!vars
<1> QED
  BY <1>3, <1>4

LEMMA TickRefines == StoreInv /\ Tick => OneShot!Tick
<1> SUFFICES ASSUME StoreInv, Tick PROVE OneShot!Tick
  OBVIOUS
<1>1. now \in Nat /\ now' = now + 1 /\ body' = body /\ backend' = backend
  BY StoreAssumption DEF StoreInv, StoreTypeOK, Tick
<1>2. \A t \in entries : t \in Tokens /\ body[t].at \in Nat
  BY StoreAssumption DEF StoreInv, StoreTypeOK
<1>3. Redeemable' \subseteq Redeemable
  BY <1>1, <1>2, StoreAssumption DEF Tick
<1>4. ASSUME NEW t \in Redeemable
      PROVE  IF t \in Redeemable' THEN now' - body[t].at <= TTL ELSE now' - body[t].at >= TTL
  <2>1. CASE backend = "redis"
    BY <1>1, <1>2, <2>1, StoreAssumption DEF Tick
  <2>2. CASE backend # "redis"
    BY <1>1, <1>2, <2>2, StoreAssumption DEF Tick
  <2> QED
    BY <2>1, <2>2
<1> QED
  BY <1>1, <1>3, <1>4 DEF Tick, OneShot!Tick

LEMMA RestartRefines == StoreInv /\ StoreRestarts => OneShot!Restart
<1> SUFFICES ASSUME StoreInv, StoreRestarts PROVE OneShot!Restart
  OBVIOUS
<1>1. Redeemable' \in {Redeemable, {}}
  BY DEF StoreRestarts
<1> QED
  BY <1>1 DEF StoreRestarts, OneShot!Restart

LEMMA StoreStepRefines == StoreInv /\ [StoreNext]_storeVars => [OneShot!Next]_OneShot!vars
<1> SUFFICES ASSUME StoreInv, [StoreNext]_storeVars
             PROVE  OneShot!Next \/ UNCHANGED OneShot!vars
  OBVIOUS
<1>1. ASSUME NEW t \in Tokens, NEW a \in Apps, Issue(t, a) PROVE OneShot!Next
  BY <1>1, IssueRefines DEF OneShot!Next
<1>2. ASSUME NEW t \in Tokens, NEW a \in Apps, MemoryConsumes(t, a)
      PROVE  OneShot!Next \/ UNCHANGED OneShot!vars
  BY <1>2, MemoryConsumesRefines DEF OneShot!Next
<1>3. ASSUME NEW t \in Tokens, NEW a \in Apps, NEW c \in Clients, RedisPeeks(c, t, a)
      PROVE  UNCHANGED OneShot!vars
  BY <1>3 DEF RedisPeeks, OneShot!vars
<1>4. ASSUME NEW c \in Clients, RedisTakes(c)
      PROVE  OneShot!Next \/ UNCHANGED OneShot!vars
  BY <1>4, RedisTakesRefines DEF OneShot!Next
<1>5. CASE Tick
  BY <1>5, TickRefines DEF OneShot!Next
<1>6. CASE StoreRestarts
  BY <1>6, RestartRefines DEF OneShot!Next
<1>7. CASE UNCHANGED storeVars
  BY <1>7 DEF storeVars, OneShot!vars
<1> QED
  BY <1>1, <1>2, <1>3, <1>4, <1>5, <1>6, <1>7 DEF StoreNext

\* The two stores, whatever they are asked in whatever order, let a token be
\* redeemed once, by its owner, and lose it with time or a restart only.
THEOREM StoresImplementOneShot == StoreSpec => ImplementsOneShot
<1>1. StoreInit => StoreInv /\ OneShot!Init
  BY StoreInitInv, InitRefines
<1>2. StoreInv /\ [StoreNext]_storeVars => StoreInv' /\ [OneShot!Next]_OneShot!vars
  BY StoreStepInv, StoreStepRefines
<1> QED
  BY <1>1, <1>2, PTL DEF StoreSpec, ImplementsOneShot, OneShot!Spec
=============================================================================
