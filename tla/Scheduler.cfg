SPECIFICATION Spec
CONSTANTS
    Actions <- MCActions
    Flows <- MCFlows
INVARIANTS
    ValidationExact
    JoinRespected
    OrderedNeverStuck
    NothingEligibleWaits
\* A run that ended or was refused is at rest.
CHECK_DEADLOCK FALSE
