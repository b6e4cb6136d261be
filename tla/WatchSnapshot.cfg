SPECIFICATION FairSpec
CONSTANTS
    Receivers = {r1, r2}
    MaxSends = 2
INVARIANTS
    NoLostWakeup
    ClosureHidesNothing
PROPERTIES
    ImplementsContract
    WaitEnds
\* The sender and all receivers may be dropped; nothing happens afterwards.
CHECK_DEADLOCK FALSE
