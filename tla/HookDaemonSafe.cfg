SPECIFICATION Spec
CONSTANTS
    h1 = h1
    h2 = h2
    Clients = {c1, c2}
    HookOf <- SameHook
    Deduped = {h1}
    Daemons = {d1, d2}
    Standing = {}
    Gone = gone
    MaxInstalls = 1
    MaxMarkers = 0
    Faults = {"crash", "throw", "late", "unclaimed"}
    MaxFaults = 1
    Nil = Nil
SYMMETRY DaemonSymmetry
INVARIANTS DaemonInvariant RepeatedOnlyAfterExpiry DecisionLostOnlyWithEvaluation
CHECK_DEADLOCK FALSE
