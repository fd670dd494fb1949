SPECIFICATION Spec
CONSTANTS
    Users = {u1, u2}
    Workers = {w1, w2}
    Nobody = Nobody
    FirstAdmin = u1
    BreakGlass = u2
    Ops = {"promote", "breakglass"}
SYMMETRY WorkerSymmetry
INVARIANTS
    CountedAdminsStay
PROPERTIES
    CountedUpdateLeavesAnAdmin
CHECK_DEADLOCK FALSE
