--------------------------- MODULE UserAdmin_proofs ---------------------------
(***************************************************************************)
(* Proofs about UserAdmin, for any number of users and requests.           *)
(***************************************************************************)
EXTENDS UserAdmin, TLAPS

\* The kind of a request tells which record it is.
LEMMA WorkerOfKind ==
    ASSUME NEW rec \in Worker
    PROVE  /\ rec.kind = "update" => rec \in Updates
           /\ rec.kind = "breakglass" => rec \in Logins
  BY DEF Worker, Idle, Updates, Logins

\* The end of a request changes its own slot and the rows it held, no others.
LEMMA EndsKeeps ==
    ASSUME TypeOK, NEW w \in Workers, Ends(w)
    PROVE  /\ lock' \in [Users -> Workers \cup {Nobody}]
           /\ workers' \in [Workers -> Worker]
           /\ workers'[w] = Idle
           /\ \A v \in Workers \ {w} : workers'[v] = workers[v]
           /\ \A u \in Users : lock[u] # w => lock'[u] = lock[u]
  BY DEF Ends, Becomes, TypeOK, Worker

LEMMA WrittenType ==
    ASSUME NEW cur \in Row, NEW seen \in Row, NEW new \in Row
    PROVE  Written(cur, seen, new) \in Row
  BY DEF Written, Row

LEMMA AssignedType ==
    ASSUME NEW seen \in Row, NEW payload \in Payload
    PROVE  Assigned(seen, payload) \in Row
  BY DEF Assigned, Row, Payload, Roles

\* A commit that assigns what the session read leaves the row alone.
LEMMA WrittenClean ==
    ASSUME NEW cur \in Row, NEW seen \in Row
    PROVE  Written(cur, seen, seen) = cur
  BY DEF Written, Row

\* What the requests of kind "update" hold, as the later proofs use it.
LEMMA UpdateFields ==
    ASSUME TypeOK, NEW w \in Workers, workers[w].kind = "update"
    PROVE  /\ workers[w] \in Updates
           /\ workers[w].user \in Users /\ workers[w].actor \in Users
           /\ workers[w].seen \in Row /\ workers[w].payload \in Payload
           /\ workers[w].pending \subseteq Users /\ workers[w].locked \subseteq Users
  <1>1. workers[w] \in Updates
    BY WorkerOfKind DEF TypeOK
  <1>2. QED BY <1>1 DEF Updates

-----------------------------------------------------------------------------
LEMMA InitType == Init => TypeOK
  BY DEF Init, TypeOK, Row, Roles, Absent, Worker

\* Each step of update_user keeps the types.
LEMMA UpdateType ==
    ASSUME TypeOK, NEW w \in Workers,
           \/ LoadUser(w) \/ TakeSnapshot(w) \/ (\E u \in Users : LockRow(w, u))
           \/ CheckLastAdmin(w) \/ CommitUpdate(w)
    PROVE  TypeOK'
  <1>1. /\ rows \in [Users -> Row] /\ lock \in [Users -> Workers \cup {Nobody}]
        /\ workers \in [Workers -> Worker]
    BY DEF TypeOK
  <1>2. workers[w].kind = "update"
    BY DEF LoadUser, TakeSnapshot, LockRow, CheckLastAdmin, CommitUpdate, Updating
  <1>3. /\ workers[w] \in Updates
        /\ workers[w].user \in Users /\ workers[w].actor \in Users
        /\ workers[w].seen \in Row /\ workers[w].payload \in Payload
        /\ workers[w].pending \subseteq Users /\ workers[w].locked \subseteq Users
    BY <1>2, UpdateFields
  <1>4. CASE LoadUser(w)
    <2>1. \A seen \in Row, pc \in {"loaded", "commit"} :
            [workers[w] EXCEPT !.seen = seen, !.pc = pc] \in Worker
      BY <1>3 DEF Updates, Worker
    <2>2. CASE Exists(workers[w].user)
      <3>1. (IF workers[w].user = workers[w].actor THEN workers[w].seen
             ELSE rows[workers[w].user]) \in Row
        BY <1>1, <1>3
      <3>2. workers' \in [Workers -> Worker]
        BY <1>1, <1>4, <2>1, <2>2, <3>1 DEF LoadUser, Becomes
      <3>3. QED BY <1>1, <1>4, <2>2, <3>2 DEF LoadUser, TypeOK
    <2>3. CASE ~Exists(workers[w].user)
      BY <1>1, <1>4, <2>3, EndsKeeps DEF LoadUser, TypeOK
    <2>4. QED BY <2>2, <2>3
  <1>5. CASE TakeSnapshot(w)
    <2>1. [workers[w] EXCEPT !.pc = "locking", !.pending = ActiveAdmins] \in Worker
      BY <1>3 DEF Updates, Worker, ActiveAdmins
    <2>2. QED BY <1>1, <1>5, <2>1 DEF TakeSnapshot, Becomes, TypeOK
  <1>6. ASSUME NEW u \in Users, LockRow(w, u) PROVE TypeOK'
    <2>1. \A pending, locked \in SUBSET Users :
            [workers[w] EXCEPT !.pending = pending, !.locked = locked] \in Worker
      BY <1>3 DEF Updates, Worker
    <2>2. workers' \in [Workers -> Worker]
      BY <1>1, <1>3, <1>6, <2>1 DEF LockRow, Becomes
    <2>3. lock' \in [Users -> Workers \cup {Nobody}]
      BY <1>1, <1>6 DEF LockRow
    <2>4. QED BY <1>1, <1>6, <2>2, <2>3 DEF LockRow, TypeOK
  <1>7. CASE CheckLastAdmin(w)
    <2>1. [workers[w] EXCEPT !.pc = "commit"] \in Worker
      BY <1>3 DEF Updates, Worker
    <2>2. QED BY <1>1, <1>7, <2>1, EndsKeeps DEF CheckLastAdmin, Becomes, TypeOK
  <1>8. CASE CommitUpdate(w)
    <2>1. Written(rows[workers[w].user], workers[w].seen,
                  Assigned(workers[w].seen, workers[w].payload)) \in Row
      BY <1>1, <1>3, WrittenType, AssignedType
    <2>2. rows' \in [Users -> Row]
      BY <1>1, <1>8, <2>1 DEF CommitUpdate
    <2>3. QED BY <1>8, <2>2, EndsKeeps DEF CommitUpdate, TypeOK
  <1>9. QED BY <1>4, <1>5, <1>6, <1>7, <1>8

LEMMA NextType == TypeOK /\ [Next]_vars => TypeOK'
  <1> SUFFICES ASSUME TypeOK, [Next]_vars PROVE TypeOK'
    OBVIOUS
  <1>1. /\ rows \in [Users -> Row] /\ lock \in [Users -> Workers \cup {Nobody}]
        /\ workers \in [Workers -> Worker]
    BY DEF TypeOK
  <1>2. ASSUME NEW u \in Users, NEW role \in Roles, CreateUser(u, role) PROVE TypeOK'
    <2>1. [role |-> role, active |-> TRUE] \in Row
      BY DEF Row
    <2>2. QED BY <1>1, <1>2, <2>1 DEF CreateUser, TypeOK
  <1>3. ASSUME NEW w \in Workers, NEW actor \in Users, NEW u \in Users,
               NEW payload \in Payload, RequestUpdate(w, actor, u, payload)
        PROVE  TypeOK'
    <2>1. [kind |-> "update", pc |-> "authenticated", actor |-> actor, user |-> u,
           seen |-> rows[actor], payload |-> payload, pending |-> {}, locked |-> {}] \in Worker
      BY <1>1 DEF Worker, Updates
    <2>2. QED BY <1>1, <1>3, <2>1 DEF RequestUpdate, Becomes, TypeOK
  <1>4. ASSUME NEW w \in Workers, BreakGlassReads(w) PROVE TypeOK'
    <2>1. [kind |-> "breakglass", seen |-> rows[BreakGlass]] \in Worker
      BY <1>1, ConstantsAssumption DEF Worker, Logins
    <2>2. QED BY <1>1, <1>4, <2>1 DEF BreakGlassReads, Becomes, TypeOK
  <1>5. ASSUME NEW w \in Workers, BreakGlassCommits(w) PROVE TypeOK'
    <2>1. workers[w].seen \in Row
      BY <1>1, <1>5, WorkerOfKind DEF BreakGlassCommits, Logins
    <2>2. [role |-> "admin", active |-> TRUE] \in Row
      BY DEF Row, Roles
    <2>3. Written(rows[BreakGlass], workers[w].seen, [role |-> "admin", active |-> TRUE]) \in Row
      BY <1>1, <2>1, <2>2, WrittenType, ConstantsAssumption
    <2>4. rows' \in [Users -> Row]
      BY <1>1, <1>5, <2>3 DEF BreakGlassCommits
    <2>5. QED BY <1>5, <2>4, EndsKeeps DEF BreakGlassCommits, TypeOK
  <1>6. ASSUME NEW w \in Workers, DeadlockAborts(w) PROVE TypeOK'
    BY <1>1, <1>6, EndsKeeps DEF DeadlockAborts, TypeOK
  <1>7. CASE UNCHANGED vars
    BY <1>7 DEF vars, TypeOK
  <1>8. QED
    BY <1>2, <1>3, <1>4, <1>5, <1>6, <1>7, UpdateType DEF Next, Step

\* Rows, row locks and requests stay in their types; no row loses its role.
THEOREM TypeCorrect == Spec => []TypeOK
  BY InitType, NextType, PTL DEF Spec

-----------------------------------------------------------------------------
(* The ids that a request has counted stay true.                           *)

\* A step of request w that leaves alone the slots of the others and the rows
\* they hold has to answer for its own count only.
LEMMA CountedByTheOthers ==
    ASSUME TypeOK, CountedAdminsStay, NEW w \in Workers,
           \A v \in Workers \ {w} : workers'[v] = workers[v],
           \A u \in Users : lock[u] \notin {w, Nobody} =>
                lock'[u] = lock[u] /\ rows'[u] = rows[u],
           workers'[w].kind = "update" =>
                \A u \in workers'[w].locked : lock'[u] = w /\ u \in ActiveAdmins'
    PROVE  CountedAdminsStay'
  <1> SUFFICES ASSUME NEW v \in Workers, workers'[v].kind = "update",
                      NEW u \in workers'[v].locked
               PROVE  lock'[u] = v /\ u \in ActiveAdmins'
    BY DEF CountedAdminsStay
  <1>1. CASE v = w
    BY <1>1
  <1>2. CASE v # w
    <2>1. lock[u] = v /\ u \in ActiveAdmins
      BY <1>2 DEF CountedAdminsStay
    <2>2. u \in Users /\ lock[u] \notin {w, Nobody}
      BY <1>2, <2>1, ConstantsAssumption DEF ActiveAdmins
    <2>3. QED BY <2>1, <2>2 DEF ActiveAdmins
  <1>3. QED BY <1>1, <1>2

\* update_user's commit changes no row that another request holds.
LEMMA CommitWritesItsOwnRow ==
    ASSUME TypeOK, NEW w \in Workers, CommitUpdate(w)
    PROVE  /\ Ends(w)
           /\ \A u \in Users : lock[u] \notin {w, Nobody} => rows'[u] = rows[u]
  <1>1. rows \in [Users -> Row]
    BY DEF TypeOK
  <1>2. workers[w].user \in Users /\ workers[w].seen \in Row /\ workers[w].payload \in Payload
    BY UpdateFields DEF CommitUpdate, Updating
  <1> DEFINE u == workers[w].user
             seen == workers[w].seen
             new == Assigned(seen, workers[w].payload)
  <1>3. rows' = [rows EXCEPT ![u] = Written(rows[u], seen, new)]
        /\ (new # seen => lock[u] \in {w, Nobody}) /\ Ends(w)
    BY DEF CommitUpdate
  <1>4. CASE new = seen
    <2>1. Written(rows[u], seen, new) = rows[u]
      BY <1>1, <1>2, <1>4, WrittenClean
    <2> HIDE DEF new, seen
    <2>2. QED BY <1>1, <1>3, <2>1
  <1>5. CASE new # seen
    <2> HIDE DEF new, seen
    <2>1. QED BY <1>1, <1>3, <1>5
  <1>6. QED BY <1>4, <1>5

\* The break-glass login changes its row only where no request holds it.
LEMMA BreakGlassWritesAFreeRow ==
    ASSUME TypeOK, NEW w \in Workers, BreakGlassCommits(w)
    PROVE  /\ Ends(w)
           /\ \A u \in Users : lock[u] \notin {w, Nobody} => rows'[u] = rows[u]
  <1>1. rows \in [Users -> Row]
    BY DEF TypeOK
  <1>2. workers[w].seen \in Row
    BY WorkerOfKind DEF BreakGlassCommits, TypeOK, Logins
  <1> DEFINE seen == workers[w].seen
             new == [role |-> "admin", active |-> TRUE]
  <1>3. /\ Ends(w) /\ (seen # new => lock[BreakGlass] = Nobody)
        /\ \/ rows' = rows
           \/ rows' = [rows EXCEPT ![BreakGlass] = Written(rows[BreakGlass], seen, new)]
    BY DEF BreakGlassCommits
  <1>4. CASE seen = new
    <2>1. Written(rows[BreakGlass], seen, new) = rows[BreakGlass]
      BY <1>1, <1>2, <1>4, WrittenClean, ConstantsAssumption
    <2> HIDE DEF new, seen
    <2>2. QED BY <1>1, <1>3, <2>1
  <1>5. CASE seen # new
    <2> HIDE DEF new, seen
    <2>1. QED BY <1>1, <1>3, <1>5
  <1>6. QED BY <1>4, <1>5

LEMMA InitCounts == Init => CountedAdminsStay
  BY DEF Init, CountedAdminsStay, Idle

LEMMA NextCounts == TypeOK /\ CountedAdminsStay /\ [Next]_vars => CountedAdminsStay'
  <1> SUFFICES ASSUME TypeOK, CountedAdminsStay, [Next]_vars PROVE CountedAdminsStay'
    OBVIOUS
  <1>1. /\ rows \in [Users -> Row] /\ lock \in [Users -> Workers \cup {Nobody}]
        /\ workers \in [Workers -> Worker]
    BY DEF TypeOK
  <1>2. ASSUME NEW u \in Users, NEW role \in Roles, CreateUser(u, role)
        PROVE  CountedAdminsStay'
    <2>1. u \notin ActiveAdmins /\ \A x \in Users \ {u} : rows'[x] = rows[x]
      BY <1>1, <1>2 DEF CreateUser, Exists, ActiveAdmins, IsActiveAdmin
    <2>2. ActiveAdmins \subseteq ActiveAdmins'
      BY <2>1 DEF ActiveAdmins
    <2>3. QED BY <1>2, <2>2 DEF CreateUser, CountedAdminsStay
  <1>3. ASSUME NEW w \in Workers, NEW actor \in Users, NEW u \in Users,
               NEW payload \in Payload, RequestUpdate(w, actor, u, payload)
        PROVE  CountedAdminsStay'
    <2>1. workers'[w].locked = {}
      BY <1>1, <1>3 DEF RequestUpdate, Becomes
    <2>2. \A v \in Workers \ {w} : workers'[v] = workers[v]
      BY <1>1, <1>3 DEF RequestUpdate, Becomes
    <2>3. QED BY <1>3, <2>1, <2>2, CountedByTheOthers DEF RequestUpdate
  \* The steps that free the locks of their request and end it.
  <1>4. ASSUME NEW w \in Workers, Ends(w),
               \A u \in Users : lock[u] \notin {w, Nobody} => rows'[u] = rows[u]
        PROVE  CountedAdminsStay'
    <2>1. workers'[w].kind # "update"
      BY <1>4, EndsKeeps DEF Idle
    <2>2. QED BY <1>4, <2>1, EndsKeeps, CountedByTheOthers
  \* The steps of update_user that neither lock nor free.
  <1>5. ASSUME NEW w \in Workers, workers[w].kind = "update", UNCHANGED <<rows, lock>>,
               \A v \in Workers \ {w} : workers'[v] = workers[v],
               workers'[w].locked = workers[w].locked
        PROVE  CountedAdminsStay'
    <2>1. \A u \in workers'[w].locked : lock'[u] = w /\ u \in ActiveAdmins'
      BY <1>5 DEF CountedAdminsStay, ActiveAdmins
    <2>2. QED BY <1>5, <2>1, CountedByTheOthers
  <1>6. ASSUME NEW w \in Workers, LoadUser(w) PROVE CountedAdminsStay'
    <2>1. CASE Exists(workers[w].user)
      <3>1. workers[w] \in Updates
        BY <1>6, UpdateFields DEF LoadUser, Updating
      <3>2. workers'[w].locked = workers[w].locked
        BY <1>1, <1>6, <2>1, <3>1 DEF LoadUser, Becomes, Updates
      <3>3. \A v \in Workers \ {w} : workers'[v] = workers[v]
        BY <1>1, <1>6, <2>1 DEF LoadUser, Becomes
      <3>4. QED BY <1>5, <1>6, <2>1, <3>2, <3>3 DEF LoadUser, Updating
    <2>2. CASE ~Exists(workers[w].user)
      BY <1>4, <1>6, <2>2 DEF LoadUser
    <2>3. QED BY <2>1, <2>2
  <1>7. ASSUME NEW w \in Workers, TakeSnapshot(w) PROVE CountedAdminsStay'
    <2>1. workers[w] \in Updates
      BY <1>7, UpdateFields DEF TakeSnapshot, Updating
    <2>2. workers'[w].locked = workers[w].locked
      BY <1>1, <1>7, <2>1 DEF TakeSnapshot, Becomes, Updates
    <2>3. \A v \in Workers \ {w} : workers'[v] = workers[v]
      BY <1>1, <1>7 DEF TakeSnapshot, Becomes
    <2>4. QED BY <1>5, <1>7, <2>2, <2>3 DEF TakeSnapshot, Updating
  <1>8. ASSUME NEW w \in Workers, NEW u \in Users, LockRow(w, u)
        PROVE  CountedAdminsStay'
    <2>1. workers[w] \in Updates /\ workers[w].locked \subseteq Users
      BY <1>8, UpdateFields DEF LockRow, Updating
    <2>2. workers'[w].locked = IF u \in ActiveAdmins THEN workers[w].locked \cup {u}
                               ELSE workers[w].locked
      BY <1>1, <1>8, <2>1 DEF LockRow, Becomes, Updates
    <2>3. \A v \in Workers \ {w} : workers'[v] = workers[v]
      BY <1>1, <1>8 DEF LockRow, Becomes
    <2>4. lock' = [lock EXCEPT ![u] = w] /\ rows' = rows /\ lock[u] \in {w, Nobody}
      BY <1>8 DEF LockRow
    <2>5. ASSUME NEW x \in workers'[w].locked PROVE lock'[x] = w /\ x \in ActiveAdmins'
      <3>1. ActiveAdmins' = ActiveAdmins
        BY <2>4 DEF ActiveAdmins
      <3>2. CASE x = u /\ u \in ActiveAdmins
        BY <1>1, <2>4, <3>1, <3>2
      <3>3. CASE x \in workers[w].locked
        <4>1. lock[x] = w /\ x \in ActiveAdmins
          BY <1>8, <3>3 DEF CountedAdminsStay, LockRow, Updating
        <4>2. QED BY <1>1, <2>1, <2>4, <3>1, <3>3, <4>1
      <3>4. QED BY <2>2, <2>5, <3>2, <3>3
    <2>6. \A x \in Users : lock[x] \notin {w, Nobody} =>
                lock'[x] = lock[x] /\ rows'[x] = rows[x]
      BY <1>1, <2>4
    <2>7. QED BY <2>3, <2>5, <2>6, CountedByTheOthers
  <1>9. ASSUME NEW w \in Workers, CheckLastAdmin(w) PROVE CountedAdminsStay'
    <2>1. CASE IsLastAdmin(workers[w].user, workers[w].locked)
      BY <1>4, <1>9, <2>1 DEF CheckLastAdmin
    <2>2. CASE ~IsLastAdmin(workers[w].user, workers[w].locked)
      <3>1. workers[w] \in Updates
        BY <1>9, UpdateFields DEF CheckLastAdmin, Updating
      <3>2. workers'[w].locked = workers[w].locked
        BY <1>1, <1>9, <2>2, <3>1 DEF CheckLastAdmin, Becomes, Updates
      <3>3. \A v \in Workers \ {w} : workers'[v] = workers[v]
        BY <1>1, <1>9, <2>2 DEF CheckLastAdmin, Becomes
      <3>4. QED BY <1>5, <1>9, <2>2, <3>2, <3>3 DEF CheckLastAdmin, Updating
    <2>3. QED BY <2>1, <2>2
  <1>10. ASSUME NEW w \in Workers, CommitUpdate(w) PROVE CountedAdminsStay'
    BY <1>4, <1>10, CommitWritesItsOwnRow
  <1>11. ASSUME NEW w \in Workers, DeadlockAborts(w) PROVE CountedAdminsStay'
    BY <1>4, <1>11 DEF DeadlockAborts
  <1>12. ASSUME NEW w \in Workers, BreakGlassReads(w) PROVE CountedAdminsStay'
    <2>1. workers'[w].kind # "update"
      BY <1>1, <1>12 DEF BreakGlassReads, Becomes
    <2>2. \A v \in Workers \ {w} : workers'[v] = workers[v]
      BY <1>1, <1>12 DEF BreakGlassReads, Becomes
    <2>3. QED BY <1>12, <2>1, <2>2, CountedByTheOthers DEF BreakGlassReads
  <1>13. ASSUME NEW w \in Workers, BreakGlassCommits(w) PROVE CountedAdminsStay'
    BY <1>4, <1>13, BreakGlassWritesAFreeRow
  <1>14. CASE UNCHANGED vars
    BY <1>14 DEF vars, CountedAdminsStay, ActiveAdmins
  <1>15. QED
    BY <1>2, <1>3, <1>6, <1>7, <1>8, <1>9, <1>10, <1>11, <1>12, <1>13, <1>14 DEF Next, Step

\* What _lock_active_admin_ids returned to a request stays true until that request
\* commits: nobody else changes the rows it counted.
THEOREM CountIsStable == Spec => []CountedAdminsStay
  BY InitType, NextType, InitCounts, NextCounts, PTL DEF Spec

-----------------------------------------------------------------------------
(* A request that counted an admin leaves one.                             *)

\* A request has counted nobody before its snapshot, and reaches its commit only
\* past the guard.
CheckedBeforeCommit ==
    \A w \in Workers : workers[w].kind = "update" =>
        /\ workers[w].pc \in {"authenticated", "loaded"} => workers[w].locked = {}
        /\ workers[w].pc = "commit" => ~IsLastAdmin(workers[w].user, workers[w].locked)

LEMMA InitChecked == Init => CheckedBeforeCommit
  BY DEF Init, CheckedBeforeCommit, Idle

LEMMA NextChecked == TypeOK /\ CheckedBeforeCommit /\ [Next]_vars => CheckedBeforeCommit'
  <1> SUFFICES ASSUME TypeOK, CheckedBeforeCommit, [Next]_vars PROVE CheckedBeforeCommit'
    OBVIOUS
  <1> DEFINE Checked(rec) ==
        rec.kind = "update" =>
            /\ rec.pc \in {"authenticated", "loaded"} => rec.locked = {}
            /\ rec.pc = "commit" => ~IsLastAdmin(rec.user, rec.locked)
  <1>1. workers \in [Workers -> Worker]
    BY DEF TypeOK
  <1>2. \A w \in Workers : Checked(workers[w])
    BY DEF CheckedBeforeCommit
  <1>3. SUFFICES \A w \in Workers : Checked(workers'[w])
    BY DEF CheckedBeforeCommit
  <1>4. ASSUME NEW w \in Workers, NEW rec, Becomes(w, rec), Checked(rec)
        PROVE  \A v \in Workers : Checked(workers'[v])
    BY <1>1, <1>2, <1>4 DEF Becomes
  <1>5. Checked(Idle)
    BY DEF Idle
  <1>6. ASSUME NEW w \in Workers, Ends(w) PROVE \A v \in Workers : Checked(workers'[v])
    BY <1>4, <1>5, <1>6 DEF Ends
  <1>7. ASSUME NEW w \in Workers, NEW actor \in Users, NEW u \in Users,
               NEW payload \in Payload, RequestUpdate(w, actor, u, payload)
        PROVE  \A v \in Workers : Checked(workers'[v])
    BY <1>4, <1>7 DEF RequestUpdate
  <1>8. ASSUME NEW w \in Workers, LoadUser(w)
        PROVE  \A v \in Workers : Checked(workers'[v])
    <2>1. workers[w] \in Updates /\ workers[w].locked = {}
      BY <1>2, <1>8, UpdateFields DEF LoadUser, Updating
    <2>2. ASSUME NEW seen \in Row, NEW pc \in {"loaded", "commit"}
          PROVE  Checked([workers[w] EXCEPT !.seen = seen, !.pc = pc])
      BY <2>1 DEF Updates, IsLastAdmin
    <2>3. CASE Exists(workers[w].user)
      <3>1. (IF workers[w].user = workers[w].actor THEN workers[w].seen
             ELSE rows[workers[w].user]) \in Row
        BY <2>1 DEF TypeOK, Updates
      <3> HIDE DEF Checked
      <3>2. QED BY <1>4, <1>8, <2>2, <2>3, <3>1 DEF LoadUser
    <2>4. CASE ~Exists(workers[w].user)
      BY <1>6, <1>8, <2>4 DEF LoadUser
    <2>5. QED BY <2>3, <2>4
  <1>9. ASSUME NEW w \in Workers, TakeSnapshot(w)
        PROVE  \A v \in Workers : Checked(workers'[v])
    <2>1. workers[w] \in Updates
      BY <1>9, UpdateFields DEF TakeSnapshot, Updating
    <2>2. Checked([workers[w] EXCEPT !.pc = "locking", !.pending = ActiveAdmins])
      BY <2>1 DEF Updates
    <2>3. QED BY <1>4, <1>9, <2>2 DEF TakeSnapshot
  <1>10. ASSUME NEW w \in Workers, NEW u \in Users, LockRow(w, u)
         PROVE  \A v \in Workers : Checked(workers'[v])
    <2>1. workers[w] \in Updates /\ workers[w].pc = "locking"
      BY <1>10, UpdateFields DEF LockRow, Updating
    <2>2. ASSUME NEW pending, NEW locked
          PROVE  Checked([workers[w] EXCEPT !.pending = pending, !.locked = locked])
      BY <2>1 DEF Updates
    <2> HIDE DEF Checked
    <2>3. QED BY <1>4, <1>10, <2>2 DEF LockRow
  <1>11. ASSUME NEW w \in Workers, CheckLastAdmin(w)
         PROVE  \A v \in Workers : Checked(workers'[v])
    <2>1. workers[w] \in Updates
      BY <1>11, UpdateFields DEF CheckLastAdmin, Updating
    <2>2. CASE IsLastAdmin(workers[w].user, workers[w].locked)
      BY <1>6, <1>11, <2>2 DEF CheckLastAdmin
    <2>3. CASE ~IsLastAdmin(workers[w].user, workers[w].locked)
      <3>1. Checked([workers[w] EXCEPT !.pc = "commit"])
        BY <2>1, <2>3 DEF Updates
      <3>2. QED BY <1>4, <1>11, <2>3, <3>1 DEF CheckLastAdmin
    <2>4. QED BY <2>2, <2>3
  <1>12. ASSUME NEW w \in Workers, BreakGlassReads(w)
         PROVE  \A v \in Workers : Checked(workers'[v])
    BY <1>4, <1>12 DEF BreakGlassReads
  <1>13. CASE UNCHANGED workers
    BY <1>2, <1>13
  <1>14. QED
    BY <1>6, <1>7, <1>8, <1>9, <1>10, <1>11, <1>12, <1>13
       DEF Next, Step, CreateUser, CommitUpdate, DeadlockAborts, BreakGlassCommits, vars

\* Another admin than the one it is about to change was counted, if any was.
LEMMA CountedSomeoneElse ==
    ASSUME CheckedBeforeCommit, NEW w \in Workers, Updating(w, "commit"),
           workers[w].locked # {}
    PROVE  \E x \in workers[w].locked : x # workers[w].user
  BY DEF CheckedBeforeCommit, Updating, IsLastAdmin

LEMMA StepLeavesAnAdmin ==
    ASSUME TypeOK, CountedAdminsStay, CheckedBeforeCommit, [Next]_vars,
           NEW w \in Workers, Updating(w, "commit"), workers[w].locked # {},
           workers'[w] = Idle
    PROVE  ActiveAdmins' # {}
  <1>1. PICK x \in workers[w].locked : x # workers[w].user
    BY CountedSomeoneElse
  <1>2. x \in ActiveAdmins /\ x \in Users
    BY DEF CountedAdminsStay, Updating, ActiveAdmins
  <1>3. workers[w] # Idle
    BY DEF Updating, Idle
  <1>4. SUFFICES rows'[x] = rows[x]
    BY <1>2 DEF ActiveAdmins
  <1>5. ASSUME NEW v \in Workers, Ends(v), v # w PROVE FALSE
    BY <1>3, <1>5, EndsKeeps
  <1>6. ASSUME NEW v \in Workers, CommitUpdate(v) PROVE rows'[x] = rows[x]
    <2>1. v = w
      BY <1>5, <1>6 DEF CommitUpdate
    <2>2. QED BY <1>1, <1>2, <1>6, <2>1 DEF CommitUpdate, TypeOK
  <1>7. ASSUME NEW v \in Workers, BreakGlassCommits(v) PROVE rows'[x] = rows[x]
    <2>1. v = w
      BY <1>5, <1>7 DEF BreakGlassCommits
    <2>2. QED BY <1>7, <2>1 DEF BreakGlassCommits, Updating
  <1>8. ASSUME NEW u \in Users, NEW role \in Roles, CreateUser(u, role)
        PROVE  rows'[x] = rows[x]
    BY <1>3, <1>8 DEF CreateUser
  <1>9. CASE UNCHANGED rows
    BY <1>9
  <1>10. QED
    BY <1>6, <1>7, <1>8, <1>9
       DEF Next, Step, RequestUpdate, LoadUser, TakeSnapshot, LockRow, CheckLastAdmin,
           DeadlockAborts, BreakGlassReads, vars

\* A demotion or deactivation whose guard counted an admin leaves an active admin,
\* whatever the other requests commit between its guard and its commit.
THEOREM CountedUpdateIsSafe == Spec => CountedUpdateLeavesAnAdmin
  <1>1. TypeOK /\ CountedAdminsStay /\ CheckedBeforeCommit /\ [Next]_vars
          => [\A w \in Workers :
                Updating(w, "commit") /\ workers[w].locked # {} /\ workers'[w] = Idle
                    => ActiveAdmins' # {}]_vars
    BY StepLeavesAnAdmin
  <1>2. QED
    BY <1>1, InitType, NextType, InitCounts, NextCounts, InitChecked, NextChecked, PTL
       DEF Spec, CountedUpdateLeavesAnAdmin

-----------------------------------------------------------------------------
(* Where nobody is promoted, there always is an active admin.              *)

\* Only new accounts become admins in this instance.
NobodyIsPromoted == "promote" \notin Ops /\ "breakglass" \notin Ops

\* While nobody is promoted, a request that may take an admin away has its user
\* among the rows it counts, unless that user is no admin any more.
TargetIsCounted(rec) ==
    /\ rec.kind # "breakglass"
    /\ rec.kind = "update" =>
        /\ rec.payload.role # "admin" /\ rec.payload.active # "yes"
        /\ rec.pc # "authenticated" => Exists(rec.user)
        /\ rec.pc = "locking" /\ rec.user \in ActiveAdmins =>
                rec.user \in rec.pending \cup rec.locked
        /\ rec.pc = "commit" /\ WantsToLeaveAdmin(rec.payload) /\ rec.user \in ActiveAdmins =>
                rec.user \in rec.locked

TargetsAreCounted == \A w \in Workers : TargetIsCounted(workers[w])

\* Without a role "admin" or an activation in the payload, a commit makes no admin
\* and deletes nobody.
LEMMA DemotionsOnly ==
    ASSUME NEW cur \in Row, NEW seen \in Row, NEW payload \in Payload,
           payload.role # "admin", payload.active # "yes"
    PROVE  LET row == Written(cur, seen, Assigned(seen, payload))
           IN  /\ IsActiveAdmin(row) => IsActiveAdmin(cur)
               /\ cur.role # "absent" => row.role # "absent"
               /\ ~WantsToLeaveAdmin(payload) => row = cur
  BY DEF Row, Payload, Roles, Written, Assigned, IsActiveAdmin, WantsToLeaveAdmin

\* No step makes an admin of a user who exists and is none.
LEMMA ExistingUsersAreNotPromoted ==
    ASSUME TypeOK, TargetsAreCounted, [Next]_vars, NEW u \in Users, Exists(u)
    PROVE  Exists(u)' /\ (u \in ActiveAdmins' => u \in ActiveAdmins)
  <1>1. rows \in [Users -> Row]
    BY DEF TypeOK
  <1>2. CASE UNCHANGED rows
    BY <1>2 DEF Exists, ActiveAdmins
  <1>3. ASSUME NEW x \in Users, NEW role \in Roles, CreateUser(x, role)
        PROVE  Exists(u)' /\ (u \in ActiveAdmins' => u \in ActiveAdmins)
    BY <1>1, <1>3 DEF CreateUser, Exists, ActiveAdmins
  <1>4. ASSUME NEW w \in Workers, CommitUpdate(w)
        PROVE  Exists(u)' /\ (u \in ActiveAdmins' => u \in ActiveAdmins)
    <2>1. /\ workers[w].user \in Users /\ workers[w].seen \in Row
          /\ workers[w].payload \in Payload
          /\ workers[w].payload.role # "admin" /\ workers[w].payload.active # "yes"
      BY <1>4, UpdateFields DEF CommitUpdate, Updating, TargetsAreCounted, TargetIsCounted
    <2> DEFINE row == Written(rows[workers[w].user], workers[w].seen,
                              Assigned(workers[w].seen, workers[w].payload))
    <2>2. rows' = [rows EXCEPT ![workers[w].user] = row]
      BY <1>4 DEF CommitUpdate
    <2>3. /\ IsActiveAdmin(row) => IsActiveAdmin(rows[workers[w].user])
          /\ rows[workers[w].user].role # "absent" => row.role # "absent"
      BY <1>1, <2>1, DemotionsOnly
    <2> HIDE DEF row
    <2>4. QED BY <1>1, <2>1, <2>2, <2>3 DEF Exists, ActiveAdmins
  <1>5. ASSUME NEW w \in Workers, BreakGlassCommits(w) PROVE FALSE
    BY <1>5 DEF BreakGlassCommits, TargetsAreCounted, TargetIsCounted
  <1>6. QED
    BY <1>2, <1>3, <1>4, <1>5
       DEF Next, Step, RequestUpdate, LoadUser, TakeSnapshot, LockRow, CheckLastAdmin,
           DeadlockAborts, BreakGlassReads, vars

LEMMA InitTargets == Init => TargetsAreCounted
  BY DEF Init, TargetsAreCounted, TargetIsCounted, Idle

LEMMA NextTargets ==
    ASSUME NobodyIsPromoted, TypeOK, TargetsAreCounted, [Next]_vars
    PROVE  TargetsAreCounted'
  <1>1. workers \in [Workers -> Worker] /\ rows \in [Users -> Row]
    BY DEF TypeOK
  \* A slot that the step leaves alone.
  <1>2. ASSUME NEW w \in Workers, workers'[w] = workers[w]
        PROVE  TargetIsCounted(workers[w])'
    <2>1. TargetIsCounted(workers[w])
      BY DEF TargetsAreCounted
    <2>2. CASE workers[w].kind # "update"
      BY <1>2, <2>1, <2>2 DEF TargetIsCounted
    <2>3. CASE workers[w].kind = "update"
      <3>1. workers[w].user \in Users
        BY <2>3, UpdateFields
      <3>2. Exists(workers[w].user) =>
                /\ Exists(workers[w].user)'
                /\ workers[w].user \in ActiveAdmins' => workers[w].user \in ActiveAdmins
        <4> DEFINE u == workers[w].user
        <4>1. u \in Users
          BY <3>1
        <4>2. Exists(u) => (rows'[u].role # "absent"
                             /\ (u \in ActiveAdmins' => u \in ActiveAdmins))
          <5> HIDE DEF u
          <5>1. QED BY <4>1, ExistingUsersAreNotPromoted DEF Exists
        <4>3. QED BY <1>2, <4>2 DEF Exists
      <3>3. QED BY <1>2, <2>1, <3>2 DEF TargetIsCounted, Exists
    <2>4. QED BY <2>2, <2>3
  <1>3. ASSUME NEW w \in Workers, NEW rec, Becomes(w, rec), TargetIsCounted(workers[w])'
        PROVE  TargetsAreCounted'
    <2>1. \A v \in Workers \ {w} : workers'[v] = workers[v]
      BY <1>1, <1>3 DEF Becomes
    <2>2. \A v \in Workers \ {w} : TargetIsCounted(workers[v])'
      BY <1>2, <2>1
    <2>3. QED BY <1>3, <2>2 DEF TargetsAreCounted
  <1>4. ASSUME NEW w \in Workers, Ends(w) PROVE TargetsAreCounted'
    <2>1. workers'[w] = Idle
      BY <1>4, EndsKeeps
    <2>2. TargetIsCounted(workers[w])'
      BY <2>1 DEF TargetIsCounted, Idle
    <2>3. QED BY <1>3, <1>4, <2>2 DEF Ends
  <1>5. ASSUME UNCHANGED workers PROVE TargetsAreCounted'
    BY <1>2, <1>5 DEF TargetsAreCounted
  <1>6. ASSUME NEW w \in Workers, NEW actor \in Users, NEW u \in Users,
               NEW payload \in Payload, RequestUpdate(w, actor, u, payload)
        PROVE  TargetsAreCounted'
    <2>1. /\ workers'[w].kind = "update" /\ workers'[w].pc = "authenticated"
          /\ workers'[w].payload = payload
      BY <1>1, <1>6 DEF RequestUpdate, Becomes
    <2>2. payload.role # "admin" /\ payload.active # "yes"
      BY <1>6 DEF RequestUpdate, NobodyIsPromoted
    <2>3. TargetIsCounted(workers[w])'
      BY <2>1, <2>2 DEF TargetIsCounted
    <2>4. QED BY <1>3, <1>6, <2>3 DEF RequestUpdate
  <1>7. ASSUME NEW w \in Workers, LoadUser(w) PROVE TargetsAreCounted'
    <2>1. workers[w] \in Updates /\ workers[w].kind = "update"
      BY <1>7, UpdateFields DEF LoadUser, Updating
    <2>2. CASE Exists(workers[w].user)
      <3>1. /\ workers'[w].kind = "update" /\ workers'[w].user = workers[w].user
            /\ workers'[w].payload = workers[w].payload
            /\ workers'[w].pc \in {"loaded", "commit"}
            /\ workers'[w].pc = "commit" => ~WantsToLeaveAdmin(workers[w].payload)
            /\ rows' = rows
        BY <1>1, <1>7, <2>1, <2>2 DEF LoadUser, Becomes, Updates
      <3>2. TargetIsCounted(workers[w])'
        BY <2>1, <2>2, <3>1 DEF TargetIsCounted, TargetsAreCounted, Exists
      <3>3. QED BY <1>3, <1>7, <2>2, <3>2 DEF LoadUser
    <2>3. CASE ~Exists(workers[w].user)
      BY <1>4, <1>7, <2>3 DEF LoadUser
    <2>4. QED BY <2>2, <2>3
  <1>8. ASSUME NEW w \in Workers, TakeSnapshot(w) PROVE TargetsAreCounted'
    <2>1. workers[w] \in Updates /\ workers[w].kind = "update" /\ workers[w].pc = "loaded"
      BY <1>8, UpdateFields DEF TakeSnapshot, Updating
    <2>2. /\ workers'[w].kind = "update" /\ workers'[w].user = workers[w].user
          /\ workers'[w].payload = workers[w].payload
          /\ workers'[w].pc = "locking" /\ workers'[w].pending = ActiveAdmins
          /\ rows' = rows
      BY <1>1, <1>8, <2>1 DEF TakeSnapshot, Becomes, Updates
    <2>3. TargetIsCounted(workers[w])'
      BY <2>1, <2>2 DEF TargetIsCounted, TargetsAreCounted, Exists, ActiveAdmins
    <2>4. QED BY <1>3, <1>8, <2>3 DEF TakeSnapshot
  <1>9. ASSUME NEW w \in Workers, NEW u \in Users, LockRow(w, u) PROVE TargetsAreCounted'
    <2>1. workers[w] \in Updates /\ workers[w].kind = "update" /\ workers[w].pc = "locking"
      BY <1>9, UpdateFields DEF LockRow, Updating
    <2>2. /\ workers'[w].kind = "update" /\ workers'[w].user = workers[w].user
          /\ workers'[w].payload = workers[w].payload
          /\ workers'[w].pc = "locking" /\ workers'[w].pending = workers[w].pending \ {u}
          /\ workers'[w].locked = IF u \in ActiveAdmins THEN workers[w].locked \cup {u}
                                  ELSE workers[w].locked
          /\ rows' = rows
      BY <1>1, <1>9, <2>1 DEF LockRow, Becomes, Updates
    <2>3. ActiveAdmins' = ActiveAdmins
      BY <2>2 DEF ActiveAdmins
    <2>4. TargetIsCounted(workers[w])'
      BY <2>1, <2>2, <2>3 DEF TargetIsCounted, TargetsAreCounted, Exists
    <2>5. QED BY <1>3, <1>9, <2>4 DEF LockRow
  <1>10. ASSUME NEW w \in Workers, CheckLastAdmin(w) PROVE TargetsAreCounted'
    <2>1. /\ workers[w] \in Updates /\ workers[w].kind = "update"
          /\ workers[w].pc = "locking" /\ workers[w].pending = {}
      BY <1>10, UpdateFields DEF CheckLastAdmin, Updating
    <2>2. CASE IsLastAdmin(workers[w].user, workers[w].locked)
      BY <1>4, <1>10, <2>2 DEF CheckLastAdmin
    <2>3. CASE ~IsLastAdmin(workers[w].user, workers[w].locked)
      <3>1. /\ workers'[w].kind = "update" /\ workers'[w].user = workers[w].user
            /\ workers'[w].payload = workers[w].payload
            /\ workers'[w].pc = "commit" /\ workers'[w].locked = workers[w].locked
            /\ rows' = rows
        BY <1>1, <1>10, <2>1, <2>3 DEF CheckLastAdmin, Becomes, Updates
      <3>2. ActiveAdmins' = ActiveAdmins
        BY <3>1 DEF ActiveAdmins
      <3>3. TargetIsCounted(workers[w])'
        BY <2>1, <3>1, <3>2 DEF TargetIsCounted, TargetsAreCounted, Exists
      <3>4. QED BY <1>3, <1>10, <2>3, <3>3 DEF CheckLastAdmin
    <2>4. QED BY <2>2, <2>3
  <1>11. ASSUME NEW w \in Workers, BreakGlassCommits(w) PROVE FALSE
    BY <1>11 DEF BreakGlassCommits, TargetsAreCounted, TargetIsCounted
  <1>12. ASSUME NEW w \in Workers, BreakGlassReads(w) PROVE FALSE
    BY <1>12 DEF BreakGlassReads, NobodyIsPromoted
  <1>13. QED
    BY <1>4, <1>5, <1>6, <1>7, <1>8, <1>9, <1>10, <1>11, <1>12
       DEF Next, Step, CreateUser, CommitUpdate, DeadlockAborts, vars

LEMMA InitAdmin == Init => SomeActiveAdmin
  BY ConstantsAssumption DEF Init, SomeActiveAdmin, ActiveAdmins, IsActiveAdmin

LEMMA NextAdmin ==
    ASSUME NobodyIsPromoted, TypeOK, CountedAdminsStay, CheckedBeforeCommit,
           TargetsAreCounted, SomeActiveAdmin, [Next]_vars
    PROVE  SomeActiveAdmin'
  <1>1. rows \in [Users -> Row]
    BY DEF TypeOK
  <1>2. CASE UNCHANGED rows
    BY <1>2 DEF SomeActiveAdmin, ActiveAdmins
  <1>3. ASSUME NEW u \in Users, NEW role \in Roles, CreateUser(u, role)
        PROVE  SomeActiveAdmin'
    <2>1. PICK x \in ActiveAdmins : TRUE
      BY DEF SomeActiveAdmin
    <2>2. x # u
      BY <1>3, <2>1 DEF CreateUser, Exists, ActiveAdmins, IsActiveAdmin
    <2>3. x \in ActiveAdmins'
      BY <1>1, <1>3, <2>1, <2>2 DEF CreateUser, ActiveAdmins
    <2>4. QED BY <2>3 DEF SomeActiveAdmin
  <1>4. ASSUME NEW w \in Workers, CommitUpdate(w) PROVE SomeActiveAdmin'
    <2> DEFINE u == workers[w].user
    <2>1. /\ Updating(w, "commit") /\ workers[w].kind = "update" /\ workers[w].pc = "commit"
          /\ u \in Users /\ workers[w].seen \in Row /\ workers[w].payload \in Payload
          /\ TargetIsCounted(workers[w])
      BY <1>4, UpdateFields DEF CommitUpdate, Updating, TargetsAreCounted
    <2>2. \A x \in Users \ {u} : rows'[x] = rows[x]
      BY <1>1, <1>4 DEF CommitUpdate
    <2>3. CASE \E x \in ActiveAdmins : x # u
      BY <2>2, <2>3 DEF SomeActiveAdmin, ActiveAdmins
    <2>4. CASE ActiveAdmins \subseteq {u}
      <3>1. u \in ActiveAdmins
        BY <2>4 DEF SomeActiveAdmin
      <3>2. ~WantsToLeaveAdmin(workers[w].payload)
        <4>1. SUFFICES ASSUME WantsToLeaveAdmin(workers[w].payload) PROVE FALSE
          OBVIOUS
        <4>2. u \in workers[w].locked
          BY <2>1, <3>1, <4>1 DEF TargetIsCounted
        <4>3. PICK x \in workers[w].locked : x # u
          BY <2>1, <4>2, CountedSomeoneElse
        <4>4. x \in ActiveAdmins
          BY <2>1, <4>3 DEF CountedAdminsStay
        <4>5. QED BY <2>4, <4>3, <4>4
      <3>3. Written(rows[u], workers[w].seen, Assigned(workers[w].seen, workers[w].payload))
              = rows[u]
        BY <1>1, <2>1, <3>2, DemotionsOnly DEF TargetIsCounted
      <3>4. rows'[u] = rows[u]
        BY <1>1, <1>4, <2>1, <3>3 DEF CommitUpdate
      <3>5. QED BY <3>1, <3>4 DEF SomeActiveAdmin, ActiveAdmins
    <2>5. QED BY <2>3, <2>4
  <1>5. ASSUME NEW w \in Workers, BreakGlassCommits(w) PROVE FALSE
    BY <1>5 DEF BreakGlassCommits, TargetsAreCounted, TargetIsCounted
  <1>6. QED
    BY <1>2, <1>3, <1>4, <1>5
       DEF Next, Step, RequestUpdate, LoadUser, TakeSnapshot, LockRow, CheckLastAdmin,
           DeadlockAborts, BreakGlassReads, vars

\* "Never zero active admins": as long as no existing account is promoted or made
\* active again, by update_user or by the break-glass login, the demotions,
\* deactivations and new accounts of any number of concurrent requests leave one.
THEOREM NeverZeroAdmins ==
    ASSUME NobodyIsPromoted
    PROVE  Spec => []SomeActiveAdmin
  <1>1. TypeOK /\ CountedAdminsStay /\ CheckedBeforeCommit /\ TargetsAreCounted
          /\ SomeActiveAdmin /\ [Next]_vars => TargetsAreCounted' /\ SomeActiveAdmin'
    BY NextTargets, NextAdmin
  <1>2. QED
    BY <1>1, InitType, NextType, InitCounts, NextCounts, InitChecked, NextChecked,
       InitTargets, InitAdmin, PTL DEF Spec

-----------------------------------------------------------------------------
(* The roster.  A commit of update_user is a step of the roster, everything *)
(* before it none: its guard still holds for what it counted, and its user  *)
(* is among the counted or is no active admin.                              *)

\* A commit that the guard has let pass leaves its user an active admin, or
\* another one.
LEMMA CommitLeavesAnAdmin ==
    ASSUME TypeOK, CountedAdminsStay, CheckedBeforeCommit, TargetsAreCounted,
           NEW w \in Workers, CommitUpdate(w), NEW u \in Users, u = workers[w].user,
           u \in ActiveAdmins, NEW row,
           row = Written(rows[u], workers[w].seen, Assigned(workers[w].seen, workers[w].payload))
    PROVE  IsActiveAdmin(row) \/ \E v \in Users \ {u} : IsActiveAdmin(rows[v])
  <1>1. /\ Updating(w, "commit") /\ workers[w].kind = "update" /\ workers[w].pc = "commit"
        /\ workers[w].seen \in Row /\ workers[w].payload \in Payload /\ rows[u] \in Row
        /\ TargetIsCounted(workers[w])
    BY UpdateFields DEF CommitUpdate, Updating, TargetsAreCounted, TypeOK
  <1>2. CASE WantsToLeaveAdmin(workers[w].payload)
    <2>1. u \in workers[w].locked
      BY <1>1, <1>2 DEF TargetIsCounted
    <2>2. PICK v \in workers[w].locked : v # u
      BY <1>1, <2>1, CountedSomeoneElse
    <2>3. v \in ActiveAdmins
      BY <1>1, <2>2 DEF CountedAdminsStay
    <2>4. QED BY <2>2, <2>3 DEF ActiveAdmins
  <1>3. CASE ~WantsToLeaveAdmin(workers[w].payload)
    <2>1. row = rows[u]
      BY <1>1, <1>3, DemotionsOnly DEF TargetIsCounted
    <2>2. QED BY <2>1 DEF ActiveAdmins
  <1>4. QED BY <1>2, <1>3

\* What is written is what was asked, or what was there.
LEMMA WrittenAsAsked ==
    ASSUME NEW cur \in Row, NEW seen \in Row, NEW payload \in Payload,
           payload.role # "admin", payload.active # "yes"
    PROVE  LET row == Written(cur, seen, Assigned(seen, payload))
           IN  /\ row = [role |-> row.role, active |-> row.active]
               /\ row.role \in {cur.role, "recruiter", "viewer"}
               /\ row.active \in {cur.active, FALSE}
  BY DEF Row, Payload, Roles, Written, Assigned

LEMMA CommitIsRostered ==
    ASSUME TypeOK, CountedAdminsStay, CheckedBeforeCommit, TargetsAreCounted,
           NEW w \in Workers, CommitUpdate(w)
    PROVE  [Roster!Next]_rows
  <1>1. /\ workers[w].user \in Users /\ workers[w].seen \in Row
        /\ workers[w].payload \in Payload
        /\ workers[w].payload.role # "admin" /\ workers[w].payload.active # "yes"
        /\ Exists(workers[w].user)
    BY UpdateFields DEF CommitUpdate, Updating, TargetsAreCounted, TargetIsCounted
  <1>2. PICK u \in Users : u = workers[w].user
    BY <1>1
  <1>3. PICK row : row = Written(rows[u], workers[w].seen,
                                 Assigned(workers[w].seen, workers[w].payload))
    OBVIOUS
  <1>4. rows[u] \in Row /\ rows' = [rows EXCEPT ![u] = row]
    BY <1>2, <1>3 DEF CommitUpdate, TypeOK
  <1>5. /\ row = [role |-> row.role, active |-> row.active]
        /\ row.role \in {rows[u].role, "recruiter", "viewer"}
        /\ row.active \in {rows[u].active, FALSE}
    BY <1>1, <1>3, <1>4, WrittenAsAsked
  <1>6. u \in ActiveAdmins =>
            IsActiveAdmin(row) \/ \E v \in Users \ {u} : IsActiveAdmin(rows[v])
    BY <1>2, <1>3, CommitLeavesAnAdmin
  <1>7. rows[u].role \in Roles /\ rows[u].active \in BOOLEAN
    BY <1>1, <1>2, <1>4 DEF Row, Exists
  <1>8. Roster!Demote(u, row.role, row.active)
    BY <1>1, <1>2, <1>4, <1>5, <1>6
       DEF Roster!Demote, Roster!LeavesAnAdmin, Roster!IsActiveAdmin, Roster!Exists,
           IsActiveAdmin, ActiveAdmins, Exists
  <1>9. row.role \in Roster!Roles /\ row.active \in BOOLEAN
    BY <1>5, <1>7 DEF Roles, Roster!Roles
  <1>10. QED BY <1>8, <1>9 DEF Roster!Next

LEMMA StepIsRostered ==
    ASSUME TypeOK, CountedAdminsStay, CheckedBeforeCommit, TargetsAreCounted, [Next]_vars
    PROVE  [Roster!Next]_rows
  <1>1. ASSUME NEW u \in Users, NEW role \in Roles, CreateUser(u, role)
        PROVE  [Roster!Next]_rows
    <2>1. Roster!Create(u, role)
      BY <1>1 DEF CreateUser, Roster!Create, Roster!Exists, Exists
    <2>2. QED BY <2>1 DEF Roster!Next, Roster!Roles, Roles
  <1>2. ASSUME NEW w \in Workers, BreakGlassCommits(w) PROVE FALSE
    BY <1>2 DEF BreakGlassCommits, TargetsAreCounted, TargetIsCounted
  <1>3. QED
    BY <1>1, <1>2, CommitIsRostered
       DEF Next, Step, RequestUpdate, LoadUser, TakeSnapshot, LockRow, CheckLastAdmin,
           DeadlockAborts, BreakGlassReads, vars

\* As long as nobody is promoted or made active again, updates of users, from any
\* number of concurrent requests, behave as single steps that never take the last
\* active admin away.
THEOREM UpdatesImplementRoster ==
    ASSUME NobodyIsPromoted
    PROVE  Spec => ImplementsRoster
  <1>1. Init => Roster!Init
    BY DEF Init, Roster!Init, Absent, Roster!Absent
  <1>2. TypeOK /\ CountedAdminsStay /\ CheckedBeforeCommit /\ TargetsAreCounted
          /\ [Next]_vars => TargetsAreCounted' /\ [Roster!Next]_rows
    BY NextTargets, StepIsRostered
  <1>3. QED
    BY <1>1, <1>2, InitType, NextType, InitCounts, NextCounts, InitChecked, NextChecked,
       InitTargets, PTL DEF Spec, ImplementsRoster, Roster!Spec
=============================================================================
