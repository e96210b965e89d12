SPECIFICATION Spec
CONSTANTS
    nsets = 2
    assoc = 2
    hsize = 2
    policy = "Random"
    Words = {0}
    Values = {0, 1}
    Blocks = {1, 5, 7}
PROPERTIES
    ImplementsMemory
