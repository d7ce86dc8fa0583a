SPECIFICATION Spec
CONSTANTS
    Procs = {p1, p2}
    Hashes = {a, b}
    Configs = {c1}
    Nil = Nil
    Serial = FALSE
    Faults = {}
    MaxFaults = 0
SYMMETRY StoreSymmetry
PROPERTY StaleWriterLoses
