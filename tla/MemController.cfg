CONSTANTS
    NChn = 2
    NBits = 2
    NWorkers = 2
    NrCycle = 1
    MaxEvents = 3
    a = a
    Addr = {a}
    Mapped = {a}
    Data = {zero}
    Zero = zero
    PowerOn = {{}, {1}}
    PowerOnDesc <- OneDesc
SPECIFICATION FairSpec
INVARIANTS
    TypeOK
    EventsConserved
PROPERTIES
    
    TransfersDone
CHECK_DEADLOCK FALSE
