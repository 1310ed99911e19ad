CONSTANTS
    Presets <- MCPresets
    First = "plain"
    None = None
    Choices <- MCSwitch
    Others <- MCFixed
    Lines = {1, 2}
    MaxMoves = 3
    MaxEvents = 1
SPECIFICATION FairSpec

INVARIANTS
    NoChangeLost
    NothingIdle
PROPERTIES
    PinIsConfirmed
    PageFollows
