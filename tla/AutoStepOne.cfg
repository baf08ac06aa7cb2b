\* One session of two threads.
SPECIFICATION FairSpec
CONSTANTS
    Sessions = {s1}
    Threads = {t1, t2}
    NoAuto = NoAuto
    kStepInBudget = 2
    kStepOutBudget = 1
    MaxCommands = 3
INVARIANTS
    TypeOK
    BudgetHolds
    GivesUpOnlyWhenSpent
PROPERTIES
    LandingIsKept
    ComesToRest
CHECK_DEADLOCK FALSE
