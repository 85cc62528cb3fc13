SPECIFICATION Spec
CONSTANTS
    Chunks <- MCChunks
    Indices = {0, 1}
    CallIds = {idX, idY}
    Normal <- MCNormal
    CallsIn <- MCCallsIn
    Declared = {nameG, nameH}
    NewLine = NewLine
    Done = Done
    None = None
    MaxChunks = 4
    f1 = f1
    f2 = f2
    r1 = r1
    r2 = r2
    a1 = a1
    a2 = a2
    idX = idX
    idY = idY
    nameG = nameG
    nameH = nameH
    aliasG = aliasG
INVARIANTS
    StreamIsWellFormed
    SameAsBuffered
    RoundTrip
