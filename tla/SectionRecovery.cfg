SPECIFICATION LiveSpec
CONSTANTS
    Keys = {k1}
    Callers = {c1}
    Contents = {d1, d2}
    NoKey = NoKey
    NoCaller = NoCaller
    NoContent = NoContent
    PostSteps = {k1}
    Lenient = {k1}
    Edited = {k1}
    Torn = Torn
    MaxFailures = 2
    MaxRestarts = 2
    MaxChanges = 1
    MaxClears = 0
    MaxEdits = 1
PROPERTIES
    ChangeArrives
    RunningClears
