CONSTANTS
    Writers = {w1}
    Modes = {"pcm", "sdm"}
    Lists <- MCLists
    Junk = {1, 2}
    Edits <- MCEdits
    Presets <- MCPresets
    ListReads = 2
    BootMode = "pcm"
    None = None
    MaxBatches = 2
    MaxResyncs = 1
    MaxRescans = 0
    MaxFlips = 0
    MaxMoves = 1
    MaxLosses = 0
    MaxIgnored = 0
SPECIFICATION Spec
INVARIANTS
    HandChoiceStands
    HeldIsPlayed
PROPERTIES
    NamedIsPlayed
    SiblingKept
