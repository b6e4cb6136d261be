SPECIFICATION Spec
CONSTANTS
    Receivers = {r1, r2}
    MaxSends = 2
    MaxPolls = 3
INVARIANTS
    NoLostWakeup
    NoWakerLeak
    CurrentVersionMeansCurrentValue
PROPERTIES
    ImplementsContract
\* The sender and all receivers may be dropped; nothing happens afterwards.
CHECK_DEADLOCK FALSE
