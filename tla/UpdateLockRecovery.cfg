SPECIFICATION Spec
CONSTANTS
    Procs = {p1, p2}
    Gone = gone
    MaxCalls = 3
    Left = {"lock", "recovery"}
    RecovererDies = TRUE
    Nil = Nil
SYMMETRY ProcSymmetry
INVARIANTS LockInvariant NoLockLeftBehind
CHECK_DEADLOCK FALSE
