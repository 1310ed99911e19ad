CONSTANTS
    Presets <- MCPresets
    First = "plain"
    None = None
    Choices <- MCBoth
    Others <- MCFixed
    Lines = {1, 2}
    MaxMoves = 4
    MaxEvents = 0
SPECIFICATION Spec
PROPERTIES
    DropsAreCurrent
