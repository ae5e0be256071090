SPECIFICATION Spec
CONSTANTS
    u1 = u1
    u2 = u2
    Users = {u1, u2}
    None = None
    Statements <- TwoMigrations
    MaxVersion = 1
    MaxTime = 2
    MaxFaults = 2
CHECK_DEADLOCK FALSE
INVARIANTS
    MigrationsFit
    CopiesAgree
    AnswersAreLatest
