CONSTANTS
    Tasks = {t1, t2, t3}
    Clients = {c1}
    Values = {a}
    Initial = a
    None = None
    MaxAsks = 1
    CanCancel = TRUE
SPECIFICATION FairSpec
INVARIANTS
    LockIsHolders
    QueueAgrees
PROPERTIES
    CommandsReturn
