SPECIFICATION FairSpec
CONSTANTS
    NumPatches = 2
    NumFiles = 2
    Existing = {1}
    Kinds = {"write", "replace", "protected"}
    Domains = {{}, {1, 2}}
    MaxRuns = 2
    Faults = {"crash", "io"}
    MaxFaults = 1
INVARIANTS HandoffInvariant LocksOnlyFromFailure
PROPERTY HandoffEnds
CHECK_DEADLOCK FALSE
