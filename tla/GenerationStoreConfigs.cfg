SPECIFICATION Spec
CONSTANTS
    Procs = {p1}
    Hashes = {a, b}
    Configs = {c1, c2}
    Nil = Nil
    Serial = TRUE
    Faults = {"crash"}
    MaxFaults = 1
SYMMETRY StoreSymmetry
INVARIANT CurrentIntact
