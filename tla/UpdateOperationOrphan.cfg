SPECIFICATION Spec
CONSTANTS
    Procs = {p1, p2}
    Projects = {r1}
    MaxVersion = 3
    MaxOps = 3
    Nil = Nil
INVARIANT RollbackUndoesUpdateAlways
PROPERTY NoDowngradeOutsideRollback
CHECK_DEADLOCK FALSE
