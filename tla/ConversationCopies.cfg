SPECIFICATION SpecCopies
CONSTANTS
    Lanes = {l1, l2}
    None = None
    Gone = Gone
    Budgets <- MCBudgets
    Steps = 1
INVARIANTS
    ProgressSurvives
CHECK_DEADLOCK FALSE
