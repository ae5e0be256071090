SPECIFICATION Spec
CONSTANTS
    Keys = {k1}
    Callers = {c1, c2}
    Contents = {d1, d2}
    NoKey = NoKey
    NoCaller = NoCaller
    NoContent = NoContent
    PostSteps = {}
    Lenient = {k1}
    Edited = {k1}
    Torn = Torn
    MaxFailures = 1
    MaxRestarts = 1
    MaxChanges = 1
    MaxClears = 1
    MaxEdits = 1
SYMMETRY Symmetries
INVARIANTS
    TypeOK
    SingleRun
    HashDescribesStore
    RunningHasOwner
    CacheCoherent
    ChangeReported
