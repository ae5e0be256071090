SPECIFICATION Spec
CONSTANTS
    a = a
    b = b
    None = None
    Characters = {a, b}
    Limit <- MCLimit
SYMMETRY Symmetry
CHECK_DEADLOCK FALSE
INVARIANTS
    PagesAreUpToDate
    ChoiceIsFollowed
    TasksAreSeparate
