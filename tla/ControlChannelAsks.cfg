CONSTANTS
    Tasks = {t1, t2}
    Clients = {c1, c2}
    Values = {a, b}
    Initial = a
    None = None
    MaxAsks = 2
    CanCancel = FALSE
SPECIFICATION Spec
SYMMETRY TaskSymmetry
INVARIANTS
    AnswersItsCommand
PROPERTIES
    VerifiedMeansHeld
