SPECIFICATION FairSpec
CONSTANTS
    Procs = {p1, p2}
    MaxCalls = 1
    Faults = {"crash", "writefail", "rmfail"}
INVARIANTS TypeOK MutualExclusion
PROPERTIES CallEnds AbandonedReclaimed
