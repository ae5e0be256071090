SPECIFICATION LiveSpec
CONSTANTS
    Keys = {k1}
    Callers = {c1, c2}
    Contents = {d1}
    NoKey = NoKey
    NoCaller = NoCaller
    NoContent = NoContent
    PostSteps = {k1}
    Lenient = {}
    Edited = {}
    Torn = Torn
    MaxFailures = 1
    MaxRestarts = 0
    MaxChanges = 0
    MaxClears = 1
    MaxEdits = 0
PROPERTIES
    CallsReturn
    ErrorClears
    CacheHeals
