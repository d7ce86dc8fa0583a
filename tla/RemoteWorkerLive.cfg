SPECIFICATION FairSpec
CONSTANTS
    c1 = c1
    c2 = c2
    c3 = c3
    k1 = k1
    k2 = k2
    s1 = s1
    s2 = s2
    Workers = {w1}
    Commands <- MCCommands
    Key <- MCKey
    CmdId <- MCCmdId
    Session <- MCSession
    Effectful <- MCCommands
    MaxEntries = 1
    MaxEvents = 1
    Batch = 1
    MaxSends = 3
    NoCommand = NoCommand
INVARIANT NoSilentSkip
PROPERTIES EventReachesWatcher OrphanExits
CHECK_DEADLOCK FALSE
