SPECIFICATION Spec
CONSTANTS
    Actions <- MCActions
    Flows <- MCFlows
INVARIANTS
    NeverStuck
CHECK_DEADLOCK FALSE
