CONSTANTS
    Writers = {w1}
    Modes = {"pcm", "sdm"}
    Lists <- MCLists
    Junk = {1}
    Edits <- MCEdits
    Presets <- MCPresets
    ListReads = 2
    BootMode = "pcm"
    None = None
    MaxBatches = 1
    MaxResyncs = 0
    MaxRescans = 1
    MaxFlips = 1
    MaxMoves = 0
    MaxLosses = 1
    MaxIgnored = 1
SPECIFICATION FairSpec
PROPERTIES
    NoSilentLoss
    ListsFollow
    TasksReturn
