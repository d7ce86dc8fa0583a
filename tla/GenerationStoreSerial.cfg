SPECIFICATION Spec
CONSTANTS
    Procs = {p1}
    Hashes = {a, b, c}
    Configs = {c1}
    Nil = Nil
    Serial = TRUE
    Faults = {"crash", "io", "damage"}
    MaxFaults = 2
SYMMETRY StoreSymmetry
INVARIANTS TypeOK StoreInvariant CommittedIsPublished RetentionHolds ReaderOutlivesOnePublish
PROPERTIES ImplementsRegister RecoveryRestoresMirror
