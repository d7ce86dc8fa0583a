SPECIFICATION FairSpec
CONSTANTS
    h1 = h1
    h2 = h2
    Clients = {c1, c2}
    HookOf <- SameHook
    Deduped = {h1}
    Daemons = {d1}
    Standing = {d1}
    Gone = gone
    MaxInstalls = 1
    MaxMarkers = 0
    Faults = {"crash"}
    MaxFaults = 1
    Nil = Nil
PROPERTIES HookAnswered StaleRetires
CHECK_DEADLOCK FALSE
