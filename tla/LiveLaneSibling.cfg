CONSTANTS
    Writers = {w1}
    Modes = {"pcm", "sdm"}
    Lists <- MCLists
    Junk = {1}
    Edits <- MCEdits
    Presets <- MCPresets
    ListReads = 2
    BootMode = "pcm"
    None = None
    MaxBatches = 2
    MaxResyncs = 0
    MaxRescans = 0
    MaxFlips = 0
    MaxMoves = 1
    MaxLosses = 0
    MaxIgnored = 0
SPECIFICATION Spec
PROPERTIES
    SiblingKeptAlways
