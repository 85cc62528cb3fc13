CONSTANTS
    Writers = {w1, w2}
    Readers = {r1, r2}
    Phases = {starting, stopping}
    Nobody = Nobody
    MaxTransactions = 3
    MaxGateFaults = 2
SPECIFICATION GateFairSpec
INVARIANTS
    GateExcludes
    RunningPhaseIsPublished
PROPERTIES
    HeldPhaseIsActive
    InspectionEnds
