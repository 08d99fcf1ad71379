CONSTANTS
    MInts = {"mti"}
    SWired = {}
    SSoft = {"ssi"}
    Rank <- RankOf
    Exceptions = {"illegal"}
    EcallU = "ecall_u"
    EcallS = "ecall_s"
    EcallM = "ecall_m"
    MedelegWrites = {{}, {"illegal", "ecall_u", "ecall_m"}}
    PCs = {"mtvec", "stvec"}
    MTVec = "mtvec"
    STVec = "stvec"
    NoInt = NoInt
    NoFrame = NoFrame
SPECIFICATION Spec
INVARIANTS
    FramesPreserved
    MprvOnlyInM
    InterruptDecision
PROPERTIES
    PrivilegeGate
    MachineStateProtected
