CONSTANTS
    XLEN = 16
    Field <- FieldOf
    Program <- ProgramRun
    Start <- StartRun
    WireSets = {{}, {7, 9}}
    MaxSteps = 2
SPECIFICATION Spec
CHECK_DEADLOCK FALSE
INVARIANTS
    TypeOK
    SaveRestore
    OddOnlyByReturn
    
    EncodingsAgree
    
PROPERTIES
    PreciseTrap
    SupervisorConfined
