CONSTANTS
    NChn = 3
    NBits = 3
    NWorkers = 2
    NrCycle = 2
    MaxEvents = 5
    src = src
    v1 = v1
    v2 = v2
    v3 = v3
    away = away
    Addr = {src, v1, v2, v3, away}
    Mapped = {src, v1, v2, v3}
    Data = {zero, word}
    Zero = zero
    PowerOn = {{}, {1}}
    PowerOnDesc <- OneDesc
    NCtx = 4
    Src = src
    Val <- ValOf3
SPECIFICATION MCSpec
INVARIANTS
    ReadSuccess
    AssertHolds
PROPERTIES
    SomeAppEnds
