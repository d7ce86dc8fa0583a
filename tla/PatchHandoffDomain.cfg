SPECIFICATION Spec
CONSTANTS
    NumPatches = 2
    NumFiles = 2
    Existing = {1}
    Kinds = {"write", "replace", "add", "protected"}
    Domains = {{1, 2}}
    MaxRuns = 1
    Faults = {}
    MaxFaults = 0
INVARIANT DomainBlocksByDefault
CHECK_DEADLOCK FALSE
