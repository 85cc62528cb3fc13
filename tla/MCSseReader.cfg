CONSTANTS
    Lines = 3
    Capacity = 2
SPECIFICATION FairSseSpec
INVARIANTS
    QueueIsGenuine
PROPERTIES
    NothingLeaks
    CancelEndsConsumer
