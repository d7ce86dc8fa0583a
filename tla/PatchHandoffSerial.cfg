SPECIFICATION Spec
CONSTANTS
    NumPatches = 3
    NumFiles = 2
    Existing = {1}
    Kinds = {"write", "replace", "add"}
    Domains = {{}}
    MaxRuns = 1
    Faults = {"io"}
    MaxFaults = 1
INVARIANTS HandoffInvariant OkMeansSerial RollbackRestores
CHECK_DEADLOCK FALSE
