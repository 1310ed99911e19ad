CONSTANTS
    Hosts = {h1}
    FirstHost = h1
    Lanes = {}
    None = None
    MaxEpoch = 1
    MaxRefusals = 1
    MaxFaults = 0
    MaxRetargets = 0
    BackupMayGarble = TRUE
    OutageIsMet = TRUE
SPECIFICATION FairSpec
PROPERTIES
    Recovers
