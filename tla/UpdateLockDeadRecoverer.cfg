SPECIFICATION Spec
CONSTANTS
    Procs = {p1, p2, p3}
    Gone = gone
    MaxCalls = 1
    Left = {"lock", "recovery"}
    RecovererDies = FALSE
    Nil = Nil
SYMMETRY ProcSymmetry
INVARIANT MutualExclusion

