------------------------------ MODULE UserRoster ------------------------------
(***************************************************************************)
(* What the users-and-roles design promises of demotions and               *)
(* deactivations: each is one step on the table as it then is, it changes  *)
(* one user, and it is refused to whoever is the last active admin by      *)
(* then.  Locks, snapshots, requests in flight and refusals are not seen.  *)
(***************************************************************************)
CONSTANTS
    Users,
    FirstAdmin      \* the admin the migration seeds

VARIABLE rows       \* the users table

Roles == {"admin", "recruiter", "viewer"}
Absent == [role |-> "absent", active |-> FALSE]
IsActiveAdmin(row) == row.role = "admin" /\ row.active
Exists(u) == rows[u].role # "absent"

Init ==
    rows = [u \in Users |-> IF u = FirstAdmin THEN [role |-> "admin", active |-> TRUE]
                            ELSE Absent]

\* A new account, active and in any role.
Create(u, role) ==
    /\ ~Exists(u)
    /\ rows' = [rows EXCEPT ![u] = [role |-> role, active |-> TRUE]]

\* "Any change that would demote or deactivate the last active admin" is refused.
LeavesAnAdmin(u, row) ==
    IsActiveAdmin(rows[u]) =>
        IsActiveAdmin(row) \/ \E v \in Users \ {u} : IsActiveAdmin(rows[v])

\* Nobody becomes an admin or active again; what is not asked for stays.
Demote(u, role, active) ==
    /\ Exists(u)
    /\ role \in {rows[u].role, "recruiter", "viewer"}
    /\ active \in {rows[u].active, FALSE}
    /\ LeavesAnAdmin(u, [role |-> role, active |-> active])
    /\ rows' = [rows EXCEPT ![u] = [role |-> role, active |-> active]]

Next ==
    \E u \in Users, role \in Roles :
        Create(u, role) \/ \E active \in BOOLEAN : Demote(u, role, active)

Spec == Init /\ [][Next]_rows
=============================================================================
