SPECIFICATION Spec
CONSTANTS
    h1 = h1
    h2 = h2
    c1 = c1
    c2 = c2
    t1 = t1
    t2 = t2
    x = x
    m1 = m1
    m2 = m2
    Handlers = {h1, h2}
    Calls = {c1, c2}
    Collab = {c2}
    Interrupts = {c2}
    Turns = {t1, t2}
    ThreadOf <- OneThread
    TurnOf <- FirstTurn
    Models = {m1, m2}
    Inputs <- SixRequests
    Capacity = 2
    None = None
    MaxRequests = 3
    MaxChanges = 1
SYMMETRY Symmetry
CHECK_DEADLOCK FALSE
INVARIANT
    NothingStaysInFlight
PROPERTIES
    ForwardedOnce
    RevokedForGood
