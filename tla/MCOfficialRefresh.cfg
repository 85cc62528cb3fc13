SPECIFICATION FairSpec
CONSTANTS
    a1 = a1
    a2 = a2
    None = None
    Apps = {a1, a2}
    MaxSnapshot = 2
    MaxChanges = 2
    MaxFaults = 1
    MaxRestoreFaults = 1
    MaxCrashes = 1
INVARIANTS
    SnapshotIsSafe
    SettingsSurvive
    RestartIsDisclosed
PROPERTIES
    Recovers
