SPECIFICATION Spec
CONSTANTS
    Procs = {p1, p2}
    MaxCalls = 1
    Faults = {"crash"}
SYMMETRY ProcSymmetry
INVARIANT ProtectedChildKeepsLock
