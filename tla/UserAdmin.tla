------------------------------ MODULE UserAdmin ------------------------------
(***************************************************************************)
(* Roles and activation of the users table (api/users.py), with the other  *)
(* writers of those columns: the break-glass login and the first OIDC      *)
(* login (api/auth.py).  The guard of the last active admin is modelled    *)
(* at the level of PostgreSQL's row locks under READ COMMITTED:            *)
(* SELECT ... FOR UPDATE takes its snapshot in one step, locks the rows of *)
(* the snapshot one by one as they come free, and drops those that no      *)
(* longer qualify when it re-checks them.  Passwords and sessions, which   *)
(* the guard does not look at, are left out.                               *)
(***************************************************************************)
EXTENDS FiniteSets

CONSTANTS
    Users,          \* rows the users table may have
    Workers,        \* slots for requests in flight
    Nobody,         \* owner of a free row lock
    FirstAdmin,     \* the admin the migration seeds
    BreakGlass,     \* the user of RECRUITER_DEFAULT_ACCOUNT_EMAIL
    Ops             \* requests of this instance

ASSUME ConstantsAssumption ==
    /\ Nobody \notin Workers
    /\ FirstAdmin \in Users /\ BreakGlass \in Users

VARIABLES
    rows,           \* the users table, as committed
    lock,           \* the request holding the row lock of each user
    workers         \* the requests in flight

vars == <<rows, lock, workers>>

-----------------------------------------------------------------------------
Roles == {"admin", "recruiter", "viewer"}
Row == [role : Roles \cup {"absent"}, active : BOOLEAN]
Absent == [role |-> "absent", active |-> FALSE]

\* A UserUpdate: "keep" is an attribute the payload does not send.
Payload == [role : Roles \cup {"keep"}, active : {"keep", "yes", "no"}]

Idle == [kind |-> "idle"]
Updates == [kind : {"update"}, pc : {"authenticated", "loaded", "locking", "commit"},
            actor : Users, user : Users, seen : Row, payload : Payload,
            pending : SUBSET Users, locked : SUBSET Users]
Logins == [kind : {"breakglass"}, seen : Row]
Worker == {Idle} \cup Updates \cup Logins

Exists(u) == rows[u].role # "absent"
IsActiveAdmin(row) == row.role = "admin" /\ row.active
ActiveAdmins == {u \in Users : IsActiveAdmin(rows[u])}
IsIdle(w) == workers[w] = Idle
Updating(w, pc) == workers[w].kind = "update" /\ workers[w].pc = pc

Becomes(w, rec) == workers' = [workers EXCEPT ![w] = rec]
\* The end of a request's transaction, by commit or rollback, frees its rows.
Ends(w) ==
    /\ Becomes(w, Idle)
    /\ lock' = [u \in Users |-> IF lock[u] = w THEN Nobody ELSE lock[u]]

\* Mutant: the UPDATE writes every column, as the copy has it.
WrittenWhole(cur, seen, new) == new

\* Attributes equal to the session's copy are not written; see ApplicationPipeline.
Written(cur, seen, new) ==
    [role |-> IF new.role = seen.role THEN cur.role ELSE new.role,
     active |-> IF new.active = seen.active THEN cur.active ELSE new.active]

\* What update_user assigns to its copy of the row.
Assigned(seen, payload) ==
    [role |-> IF payload.role = "keep" THEN seen.role ELSE payload.role,
     active |-> IF payload.active = "keep" THEN seen.active ELSE payload.active = "yes"]

\* wants_to_leave_admin
WantsToLeaveAdmin(payload) == payload.role \notin {"keep", "admin"} \/ payload.active = "no"

-----------------------------------------------------------------------------
Init ==
    /\ rows = [u \in Users |-> IF u = FirstAdmin THEN [role |-> "admin", active |-> TRUE]
                               ELSE Absent]
    /\ lock = [u \in Users |-> Nobody]
    /\ workers = [w \in Workers |-> Idle]

\* create_user by an admin, and the first OIDC login, which makes a recruiter.
CreateUser(u, role) ==
    /\ ~Exists(u)
    /\ role = "recruiter" \/ ActiveAdmins # {}
    /\ rows' = [rows EXCEPT ![u] = [role |-> role, active |-> TRUE]]
    /\ UNCHANGED <<lock, workers>>

-----------------------------------------------------------------------------
(* update_user.                                                            *)

\* require_role(ADMIN) loads the acting admin; no admin deactivates themselves.
\* Without "promote" no payload makes or revives an admin.
RequestUpdate(w, actor, u, payload) ==
    /\ IsIdle(w) /\ actor \in ActiveAdmins
    /\ ~(payload.active = "no" /\ u = actor)
    /\ payload.role = "admin" \/ payload.active = "yes" => "promote" \in Ops
    /\ Becomes(w, [kind |-> "update", pc |-> "authenticated", actor |-> actor, user |-> u,
                   seen |-> rows[actor], payload |-> payload, pending |-> {}, locked |-> {}])
    /\ UNCHANGED <<rows, lock>>

\* session.get(User, user_id): the acting admin's own row is in the session
\* already and is not read again.  Only a payload that may take an admin away
\* goes through the lock.
LoadUser(w) ==
    LET u == workers[w].user
    IN  /\ Updating(w, "authenticated")
        /\ IF Exists(u)
           THEN /\ Becomes(w, [workers[w] EXCEPT
                    !.seen = IF u = workers[w].actor THEN @ ELSE rows[u],
                    !.pc = IF WantsToLeaveAdmin(workers[w].payload) THEN "loaded" ELSE "commit"])
                /\ UNCHANGED <<rows, lock>>
           ELSE Ends(w) /\ UNCHANGED rows

\* _lock_active_admin_ids: the snapshot of the statement.
TakeSnapshot(w) ==
    /\ Updating(w, "loaded")
    /\ Becomes(w, [workers[w] EXCEPT !.pc = "locking", !.pending = ActiveAdmins])
    /\ UNCHANGED <<rows, lock>>

\* Mutant: a SELECT without FOR UPDATE.
LockRowUnlocked(w, u) ==
    /\ Updating(w, "locking") /\ u \in workers[w].pending
    /\ lock[u] \in {w, Nobody}
    /\ Becomes(w, [workers[w] EXCEPT
            !.pending = @ \ {u},
            !.locked = IF u \in ActiveAdmins THEN @ \cup {u} ELSE @])
    /\ UNCHANGED <<rows, lock>>

\* A row of the snapshot is locked when it is free, and counted if its newest
\* version still is an active admin.
LockRow(w, u) ==
    /\ Updating(w, "locking") /\ u \in workers[w].pending
    /\ lock[u] \in {w, Nobody}
    /\ lock' = [lock EXCEPT ![u] = w]
    /\ Becomes(w, [workers[w] EXCEPT
            !.pending = @ \ {u},
            !.locked = IF u \in ActiveAdmins THEN @ \cup {u} ELSE @])
    /\ UNCHANGED rows

\* Mutant: any other user would do as the remaining admin.
IsLastAdminAnyUser(user, locked) == user \in locked /\ Users \ {user} = {}

IsLastAdmin(user, locked) == user \in locked /\ locked \ {user} = {}

\* Mutant: the refusal leaves its transaction open.
CheckLastAdminKeepsLocks(w) ==
    /\ Updating(w, "locking") /\ workers[w].pending = {}
    /\ IF IsLastAdmin(workers[w].user, workers[w].locked)
       THEN Becomes(w, Idle)
       ELSE Becomes(w, [workers[w] EXCEPT !.pc = "commit"])
    /\ UNCHANGED <<rows, lock>>

\* The guard of the last active admin, once every row is locked: 409 or go on.
CheckLastAdmin(w) ==
    /\ Updating(w, "locking") /\ workers[w].pending = {}
    /\ IF IsLastAdmin(workers[w].user, workers[w].locked)
       THEN Ends(w)
       ELSE Becomes(w, [workers[w] EXCEPT !.pc = "commit"]) /\ UNCHANGED lock
    /\ UNCHANGED rows

\* The UPDATE, if there is anything to write, needs the row; then the commit.
CommitUpdate(w) ==
    LET u == workers[w].user
        seen == workers[w].seen
        new == Assigned(seen, workers[w].payload)
    IN  /\ Updating(w, "commit")
        /\ new # seen => lock[u] \in {w, Nobody}
        /\ rows' = [rows EXCEPT ![u] = Written(@, seen, new)]
        /\ Ends(w)

\* Requests each of which waits for a row another of them holds.
WaitsOnly(w, S) ==
    \/ /\ Updating(w, "locking") /\ workers[w].pending # {}
       /\ \A u \in workers[w].pending : lock[u] \in S \ {w}
    \/ /\ Updating(w, "commit") /\ lock[workers[w].user] \in S \ {w}
       /\ Assigned(workers[w].seen, workers[w].payload) # workers[w].seen

\* FOR UPDATE orders nothing, so two requests may lock each other out:
\* PostgreSQL notices and aborts one, which answers 500.
DeadlockAborts(w) ==
    /\ \E S \in SUBSET Workers : w \in S /\ \A v \in S : WaitsOnly(v, S)
    /\ Ends(w)
    /\ UNCHANGED rows

-----------------------------------------------------------------------------
(* _resolve_break_glass_admin.                                             *)

BreakGlassReads(w) ==
    /\ "breakglass" \in Ops /\ IsIdle(w)
    /\ Becomes(w, [kind |-> "breakglass", seen |-> rows[BreakGlass]])
    /\ UNCHANGED <<rows, lock>>

\* The row is made, or made an active admin where the copy read is not one; an
\* INSERT fails on the unique email if the row has come into being meanwhile.
BreakGlassCommits(w) ==
    LET seen == workers[w].seen
        new == [role |-> "admin", active |-> TRUE]
    IN  /\ workers[w].kind = "breakglass"
        /\ seen # new => lock[BreakGlass] = Nobody
        /\ rows' = IF seen = Absent /\ Exists(BreakGlass) THEN rows
                   ELSE [rows EXCEPT ![BreakGlass] = Written(@, seen, new)]
        /\ Ends(w)

-----------------------------------------------------------------------------
Step(w) ==
    \/ LoadUser(w) \/ TakeSnapshot(w) \/ (\E u \in Users : LockRow(w, u))
    \/ CheckLastAdmin(w) \/ CommitUpdate(w) \/ DeadlockAborts(w)
    \/ BreakGlassCommits(w)

Next ==
    \/ \E u \in Users, role \in Roles : CreateUser(u, role)
    \/ \E w \in Workers :
         \/ \E actor, u \in Users, payload \in Payload : RequestUpdate(w, actor, u, payload)
         \/ BreakGlassReads(w)
         \/ Step(w)

Spec == Init /\ [][Next]_vars

\* Queries return, and PostgreSQL serves the waiters of a row lock in order.
FairSpec == Spec /\ \A w \in Workers : SF_vars(Step(w))

-----------------------------------------------------------------------------
(* Properties.                                                             *)

\* Every variable stays in its type; an existing user has a role of the three.
TypeOK ==
    /\ rows \in [Users -> Row]
    /\ lock \in [Users -> Workers \cup {Nobody}]
    /\ workers \in [Workers -> Worker]

\* "Never zero active admins" (users-and-roles design).
SomeActiveAdmin == ActiveAdmins # {}

\* What _lock_active_admin_ids returned is still true when the request commits:
\* every id it counted is an active admin whose row nobody else can change.
CountedAdminsStay ==
    \A w \in Workers : workers[w].kind = "update" =>
        \A u \in workers[w].locked : lock[u] = w /\ u \in ActiveAdmins

\* A request that counted at least one active admin leaves one, whatever the
\* other requests did between its guard and its commit.
CountedUpdateLeavesAnAdmin ==
    [][\A w \in Workers :
            Updating(w, "commit") /\ workers[w].locked # {} /\ workers'[w] = Idle
                => ActiveAdmins' # {}]_vars

\* No request waits for ever on the rows of the others.
RequestsEnd == \A w \in Workers : workers[w] # Idle ~> workers[w] = Idle

\* Where nobody is promoted, an update is one step on the table as it is at its
\* commit: it changes its own user, as asked, and leaves an active admin, although
\* it decided from a snapshot, from locks taken one by one and from its own copy.
Roster == INSTANCE UserRoster
ImplementsRoster == Roster!Spec
=============================================================================
