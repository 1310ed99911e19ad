CONSTANTS
    Hosts = {h1}
    FirstHost = h1
    Lanes = {l1}
    None = None
    MaxEpoch = 1
    MaxRefusals = 1
    MaxFaults = 1
    MaxRetargets = 0
    BackupMayGarble = FALSE
    OutageIsMet = TRUE
SPECIFICATION FairSpec
PROPERTIES
    Recovers
    WaitsReturn
