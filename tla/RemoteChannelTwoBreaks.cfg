SPECIFICATION Spec
CONSTANT
    Loads <- MCLossLoads
INVARIANT
    NoMessageLost
\* With all bounded sends made and answered nothing is left to do.
CHECK_DEADLOCK FALSE
