SPECIFICATION Spec
CONSTANTS
    Code          <- CodeLoop
    Entry         = 1
    Classes       = {"2bit", "Opcode"}
    Updates       = {"ID", "WB", "CT"}
    MaxInFlight   = 3
    bimod_size    = 1
    l1size        = 1
    l2size        = 2
    meta_size     = 1
    histories     = 2
    xor           = TRUE
    btb_sets      = 1
    btb_assoc     = 2
    retstack_size = 2
    BitXor           <- XorBits
INVARIANTS
    PipeBtbWellFormed
    DirectPredictions
    TosFollowsPath
PROPERTIES
    TrainsOnPath
