CONSTANTS
    NrSource = 2
    NrContext = 2
    Others = {2}
    MaxPriority = 2
    MaxRx = 1
    MaxTx = 1
SPECIFICATION FairSpec
INVARIANTS
    LatchedClaimIsCurrent
PROPERTIES
    ReceiveInterruptDelivered
