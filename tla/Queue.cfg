SPECIFICATION LiveQueueSpec
CONSTANTS
    Items = {m1, m2}
    Getters = {g1, g2}
    NoItem = NoItem
    MaxItems = 3
    MaxBroadcasts = 3
INVARIANTS
    QueueTypeOK
    NoneStranded
PROPERTIES
    ImplementsFifo
    GetterReturns
