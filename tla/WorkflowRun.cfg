SPECIFICATION FairSpec
CONSTANTS
    RootIds <- MCRootIds
    Flows <- MCFlows
    MaxItems = 2
INVARIANTS
    FailureNotSwallowed
    StatusMatchesOutcome
    NothingOutlivesItsContainer
    IterationsIsolated
    InputsReadable
PROPERTIES
    RunEnds
    RootIsScheduled
\* A run that has its result is at rest.
CHECK_DEADLOCK FALSE
