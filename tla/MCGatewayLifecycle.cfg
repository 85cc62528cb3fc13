SPECIFICATION Spec
CONSTANTS
    ta = ta
    tb = tb
    desktop = desktop
    cli = cli
    Threads = {ta, tb}
    Apps = {desktop, cli}
    AppOf <- TwoApps
    Pids = {p1, p2}
    Bundles = {b1, b2}
    None = None
    Error = Error
    MaxProcs = 2
    MaxCalls = 2
    MaxFaults = 1
SYMMETRY Symmetry
CHECK_DEADLOCK FALSE
INVARIANTS
    IdentitiesNameGateways
    StoppedMeansGone
    SingleGateway
PROPERTIES
    SparesLiveGateways
