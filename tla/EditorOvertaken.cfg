CONSTANTS
    Presets <- MCPresets
    First = "plain"
    None = None
    Choices <- MCBoth
    Others <- MCFixed
    Lines = {1, 2}
    MaxMoves = 2
    MaxEvents = 0
SPECIFICATION Spec
INVARIANTS
    NoEditOvertaken
