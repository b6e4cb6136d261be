SPECIFICATION FairSpec
CONSTANTS
    Requests = {r1}
    Streams = {s1}
    INCOMING_BUFFER_SIZE = 1
    MaxSent = 3
INVARIANT
    NoSilentTruncation
PROPERTIES
    SeenInOrder
    NobodyLeftWaiting
\* A connection that is closed, with nobody waiting on it, is at rest.
CHECK_DEADLOCK FALSE
