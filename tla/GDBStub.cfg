CONSTANTS
    Pcs = {0, 1, 2}
    StepTo <- StepToRun
    Commands = {"?", "g", "qSupported", "m", "m unmapped", "", "vCont?", "G", "G odd", "G few", "M", "M unmapped", "M long", "Z0", "Z2", "z0", "z2", "p", "c", "c addr"}
    MaxCommands = 2
    MaxRetries = 1
    MaxNoise = 2
SPECIFICATION FairSpec
CHECK_DEADLOCK FALSE
INVARIANTS
    EffectsInOrder
    BothWaitOnlyAfterWrites
    EndsForACause
PROPERTIES
    EveryCommandEnds
