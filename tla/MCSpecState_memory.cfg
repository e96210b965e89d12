SPECIFICATION Spec
CONSTANTS
    TARGET = "PISA"
    MD_NUM_IREGS = 1
    MD_NUM_FREGS = 2
    Programs = {{"R"}, {"D"}, {"M"}}
    Accesses <- MixedAccesses
    Values = {0, 1}
    Bytes = {0, 1}
    MAX_BYTES = 2
    STORE_HASH_SIZE = 2
    MD_PAGE_SIZE = 2
    MEM_PTAB_SIZE = 1
    WORD = 2
    ld_text_base = 0
    ld_text_size = 1
    ld_data_base = 4
    ld_stack_base = 7
    bugcompat_mode = FALSE
INVARIANTS
    TablesSound
PROPERTIES
    ImplementsPrecise
CHECK_DEADLOCK FALSE
