SPECIFICATION Spec
CONSTANTS
    nsets = 1
    assoc = 3
    hsize = 0
    policy = "LRU"
    Words = {0}
    Values = {0}
    Blocks = {1, 2, 3, 4}
INVARIANTS
    LastHitValid
PROPERTIES
    KeepsOrder
