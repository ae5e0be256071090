SPECIFICATION Spec
CONSTANTS
    c1 = c1
    c2 = c2
    Callers = {c1, c2}
    Objects <- MCObjects
    Names <- MCNames
    Mentions <- MCMentions
    Requests <- MCRequests
    MaxFaults = 1
CHECK_DEADLOCK FALSE
INVARIANTS
    FlightsAreExclusive
    WritesRefer
    PartialTypesHaveCause
PROPERTIES
    RequestsSucceed
