CONSTANTS
    Requests = {r1, r2}
    WebRequests = {}
    Shutdowns = {s1}
    Watchers = {}
    MaxTransports = 1
    NoRequest = NoRequest
SPECIFICATION FairSpec
INVARIANTS
    ShutdownReachesActive
    DrainedIsFinal
PROPERTIES
    ShutdownEnds
