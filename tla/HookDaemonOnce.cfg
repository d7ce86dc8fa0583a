SPECIFICATION Spec
CONSTANTS
    h1 = h1
    h2 = h2
    Clients = {c1, c2}
    HookOf <- OwnHook
    Deduped = {h1, h2}
    Daemons = {d1}
    Standing = {}
    Gone = gone
    MaxInstalls = 0
    MaxMarkers = 0
    Faults = {"throw"}
    MaxFaults = 1
    Nil = Nil
INVARIANT SingleHookNotDuplicate
CHECK_DEADLOCK FALSE
