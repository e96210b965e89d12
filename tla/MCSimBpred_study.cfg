SPECIFICATION FairSpec
CONSTANTS
    Code          <- CodeNest
    Entry         = 1
    Classes       = {"Comb", "2Level", "2bit", "Taken", "NotTaken", "Opcode", "OpcodeComb"}
    bimod_size    = 2
    l1size        = 1
    l2size        = 4
    meta_size     = 1
    histories     = 2
    xor           = TRUE
    btb_sets      = 2
    btb_assoc     = 2
    retstack_size = 2
    BitXor           <- XorBits
INVARIANTS
    RasHoldsCalls
PROPERTIES
    BtbKeepsRecent
    CombFollows
    Learns
