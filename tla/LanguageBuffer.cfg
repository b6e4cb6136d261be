SPECIFICATION FairSpec
CONSTANTS
    Languages = {rust, markdown}
    NoLanguage = none
    Budgets <- MCBudgets
INVARIANT
    IdleMeansParsed
PROPERTIES
    CleanMeansOnDisk
    OnlySelectionsForget
    SettlesDown
\* With the operations used up the buffer is at rest.
CHECK_DEADLOCK FALSE
