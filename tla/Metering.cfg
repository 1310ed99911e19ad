CONSTANTS
    Layouts = {g1, g2}
    Contents <- MCContents
    WINDOW_BLOCKS = 1
    GAP_BLOCKS = 1
    Mains = {hires}
    SPUR_FAMILIES = {hires}
    None = None
    MaxBlocks = 3
    MaxTurns = 1
    MaxBreaks = 1
    MaxStops = 1
SPECIFICATION FairSpec
CHECK_DEADLOCK FALSE
INVARIANTS
    RunStandsOnBlocks
PROPERTIES
    LetGo
    Listens
