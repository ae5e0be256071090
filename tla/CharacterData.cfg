SPECIFICATION Spec
CONSTANTS
    i1 = i1
    i2 = i2
    n1 = n1
    n2 = n2
    Items <- MCItems
    Notifiers <- MCNotifiers
    Limit <- MCLimit
    TwoLabels <- MCTwoLabels
    Auctions <- MCAuctions
INVARIANTS
    HashStandsForRows
PROPERTIES
    TellsOnce
    RowsConverge
    NewsIsTold
