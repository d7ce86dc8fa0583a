SPECIFICATION Spec
CONSTANTS
    Procs = {p1, p2, p3}
    MaxCalls = 1
    Faults = {"crash"}
SYMMETRY ProcSymmetry
PROPERTY ReleaseSparesOthers
