SPECIFICATION Spec
CONSTANTS
    s1 = s1
    s2 = s2
    s3 = s3
    f1 = f1
    f2 = f2
    x = x
    Slices = {s1, s2, s3}
    FollowUps = {f1, f2}
    Deps <- MCDeps
    Writes <- MCWrites
    Slots = {w1, w2}
    MaxExpansion = 2
    MaxReport = 2
    RefillDelay = TRUE
    Faults = {"callback", "dispatch", "throw"}
INVARIANT WriteLeasesDisjoint
