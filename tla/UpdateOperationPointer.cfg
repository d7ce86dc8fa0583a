SPECIFICATION Spec
CONSTANTS
    Procs = {p1}
    Projects = {r1}
    MaxVersion = 3
    MaxOps = 4
    Nil = Nil
PROPERTY PointerMovesForward
CHECK_DEADLOCK FALSE
