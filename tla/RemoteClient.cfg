SPECIFICATION FairConnectionSpec
CONSTANTS
    MAX_MISSED_HEARTBEATS = 5
    MAX_RECONNECT_ATTEMPTS = 3
INVARIANTS
    HeartbeatCountAgrees
    OneConnectionOwner
PROPERTIES
    GaveUpForGood
    ReconnectingEnds
    MonitoredDeathNoticed
\* A client that was shut down, gave up or was never connected is at rest.
CHECK_DEADLOCK FALSE
