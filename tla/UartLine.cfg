CONSTANTS
    CyclesPerBit = 40
    ClkPerBit = 40
    PayloadBits = 8
    Messages <- MessagesRun
    Delays = {0, 1}
    MaxDrift = 2
    MaxRounds = 2
    MaxTx = 1
SPECIFICATION FairSpec
INVARIANTS
    LineDelivers
PROPERTIES
    LineFinishes
