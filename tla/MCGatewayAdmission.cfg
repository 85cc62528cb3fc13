CONSTANTS
    Requests = {r1}
    WebRequests = {r1}
    Shutdowns = {s1}
    Watchers = {w1}
    MaxTransports = 2
    NoRequest = NoRequest
SPECIFICATION Spec
INVARIANTS
    CancellationReaches
    NoFalseUpstreamError
