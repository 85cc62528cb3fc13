SPECIFICATION FairSpec
CONSTANTS
    r1 = r1
    y1 = y1
    None = None
    Procs = {r1, y1}
    LangOf <- MCLangOf
    Records = {"protocol", "legacy", "unknown"}
    MaxInodes = 3
    MaxCrashes = 1
    MaxRemovals = 1
INVARIANTS
    OneOwner
    LegacyIsRespected
    NothingOutlivesItsCall
    CreatesOnlyOnce
PROPERTIES
    CallEnds
