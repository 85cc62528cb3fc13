SPECIFICATION FairSpec
CONSTANTS
    OpenAttempts = 2
    Expansion = 3
    Notices = {TRUE, FALSE}
    Lines = {"meta", "delta", "tool", "done", "head", "sep", "error", "huge"}
    MaxLines = 3
CHECK_DEADLOCK FALSE
INVARIANTS
    UpstreamIsReleased
    ClientIsTold
PROPERTIES
    StreamIsCommitted
    ReplaysAreSafe
    RequestEnds
