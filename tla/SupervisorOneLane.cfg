CONSTANTS
    Hosts = {h1}
    FirstHost = h1
    Lanes = {l1}
    None = None
    MaxEpoch = 1
    MaxRefusals = 1
    MaxFaults = 1
    MaxRetargets = 1
    BackupMayGarble = TRUE
    OutageIsMet = FALSE
SPECIFICATION Spec
INVARIANTS
    LoopAgrees
    NoSleepThrough
PROPERTIES
    BodyKeepsItsClient
    WaitIsHonest
    KeepsPromise
