SPECIFICATION Spec
CONSTANTS
    Options <- MCOptions
    Simulated <- MCSimulated
    Granules = {8, 9, 10}
    Values = {0, 1}
    PCs = {96, 104}
    ld_text_base = 96
    Rands <- MCRands
    myrand <- MCRandom
    mysrand = 0
    MaxWork = 2
    MaxWait = 1
INVARIANTS
    AcceptedRuns
    TrafficConserved
PROPERTIES
    ImplementsMemory
    NoEarlyData
    FetchProgress
CHECK_DEADLOCK FALSE
