CONSTANTS
    MaxExact = 4
    MaxFloat = 64
    MaxPlain = 56
    Programs <- MCPrograms
    Inputs <- MCInputs
    Limits <- MCLimits
SPECIFICATION Spec
INVARIANTS TypeOK ValidationIsExact BudgetsAreExact StoredProgramsAgree
CHECK_DEADLOCK FALSE
