CONSTANTS
    Hosts = {h1, h2}
    FirstHost = h1
    Lanes = {}
    None = None
    MaxEpoch = 1
    MaxRefusals = 1
    MaxFaults = 0
    MaxRetargets = 1
    BackupMayGarble = FALSE
    OutageIsMet = TRUE
SPECIFICATION FairSpec
PROPERTIES
    RetargetLands
