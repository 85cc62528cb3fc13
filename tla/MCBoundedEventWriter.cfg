CONSTANTS
    Producers = {p1, p2}
    Sizes = {1, 2}
    MaxRecords = 2
    MaxBytes = 3
    BatchMaxRecords = 2
    BatchMaxBytes = 2
    MaxEnqueues = 3
    MaxRotations = 1
    MaxShutdowns = 1
SPECIFICATION FairSpec
CHECK_DEADLOCK FALSE
INVARIANTS
    NoSilentLoss
    SinkIsQuiet
PROPERTIES
    DrainedIsHonest
    AcceptedIsProcessed
