\* Two debug sessions at once.
SPECIFICATION Spec
CONSTANTS
    Sessions = {s1, s2}
    Threads = {t1}
    NoAuto = NoAuto
    kStepInBudget = 1
    kStepOutBudget = 1
    MaxCommands = 2
INVARIANT BudgetHolds
CHECK_DEADLOCK FALSE
