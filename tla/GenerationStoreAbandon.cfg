SPECIFICATION Spec
CONSTANTS
    Procs = {p1}
    Hashes = {a, b}
    Configs = {c1}
    Nil = Nil
    Serial = TRUE
    Faults = {"io"}
    MaxFaults = 1
SYMMETRY StoreSymmetry
INVARIANT AbandonLeavesIndexServed
