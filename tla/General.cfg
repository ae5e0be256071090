SPECIFICATION LiveSpec
CONSTANTS
    Sections = {s1}
    Callers = {c1, c2}
    Contents = {d1, d2}
    NoSection = NoSection
    NoCaller = NoCaller
    NoContent = NoContent
    Lenient = {s1}
    Torn = Torn
    MaxFailures = 1
    MaxEvents = 1
INVARIANTS
    StatusIsTrue
    RowShowsLatestRun
PROPERTIES
    DataArrives
    StatusHeals
