CONSTANTS
    Ranges <- MCRanges
    PCs <- MCPCs
    Leaves <- MCLeaves
    Envs <- MCEnvs
    Memory <- MCMemory
    NoPTE = NoPTE
    NoReq = NoReq
    NoResv = NoResv
    NoLR = NoLR
SPECIFICATION Spec
INVARIANTS
    FetchAssertion
PROPERTIES
    AccessDecision
    
    
