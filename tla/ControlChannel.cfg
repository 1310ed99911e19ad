CONSTANTS
    Tasks = {t1, t2}
    Clients = {c1, c2}
    Values = {a, b}
    Initial = a
    None = None
    MaxAsks = 1
    CanCancel = TRUE
SPECIFICATION FairSpec
INVARIANTS
    AnswersItsCommand
PROPERTIES
    VerifiedMeansHeld
    CommandsReturn
