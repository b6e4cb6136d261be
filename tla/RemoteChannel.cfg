SPECIFICATION FairSpec
CONSTANT
    Loads <- MCLoads
INVARIANT
    LossNeedsOverlap
PROPERTIES
    CaughtUpAfterResync
    AllRequestsAnswered
\* With all bounded sends made and answered nothing is left to do.
CHECK_DEADLOCK FALSE
