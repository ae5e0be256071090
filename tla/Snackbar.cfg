SPECIFICATION LiveSpec
CONSTANTS
    Items = {m1, m2}
    Getters = {g1, g2}
    NoItem = NoItem
    MaxItems = 2
    MaxBroadcasts = 3
    Stoppers = {s1, s2}
    MaxSent = 2
CHECK_DEADLOCK FALSE
INVARIANTS
    DisplayInOrder
PROPERTIES
    MessagesShown
    TapEnds
