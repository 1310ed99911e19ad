CONSTANTS
    Pages = {p1, p2}
    Geometries = {g1, g2}
    STRIDE <- MCStride
    QUEUE_DEPTH = 3
    Absent = Absent
    MaxFrames = 5
    MaxConnections = 2
    MaxVisits = 3
SPECIFICATION FeedSpec
CHECK_DEADLOCK FALSE
INVARIANTS
    OneStream
    GeometryAhead
