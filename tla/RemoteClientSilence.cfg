SPECIFICATION FairConnectionSpec
CONSTANTS
    MAX_MISSED_HEARTBEATS = 2
    MAX_RECONNECT_ATTEMPTS = 3
PROPERTY
    SilenceNoticed
\* A client that was shut down, gave up or was never connected is at rest.
CHECK_DEADLOCK FALSE
