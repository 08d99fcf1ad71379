CONSTANTS
    XLEN = 16
    Field <- FieldOf
    Program <- ProgramRun
    Start <- StartRun
    NrCtx = 3
    CtxIdReg = 8
    PutcReg = 20
    DebugWrites <- DebugRun
    MaxTicks = 3
SPECIFICATION Spec
CHECK_DEADLOCK FALSE
INVARIANTS
    Parked
PROPERTIES
    RunsAsHart
