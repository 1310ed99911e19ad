CONSTANTS
    Hosts = {h1}
    FirstHost = h1
    Lanes = {l1, l2}
    None = None
    MaxEpoch = 2
    MaxRefusals = 1
    MaxFaults = 0
    MaxRetargets = 0
    BackupMayGarble = FALSE
    OutageIsMet = FALSE
SPECIFICATION Spec
SYMMETRY LaneSymmetry
INVARIANTS
    NoSleepThrough
PROPERTIES
    WaitIsHonest
