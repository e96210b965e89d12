SPECIFICATION FairSpec
CONSTANTS
    Code               <- CodeTraps
    Entry              = 1
    Regs               = {"r1", "r31"}
    RUU_size           = 4
    LSQ_size           = 2
    fu_config          <- Pool
    ruu_ifq_size       = 2
    ruu_decode_width   = 2
    ruu_issue_width    = 2
    ruu_commit_width   = 2
    fetch_speed        = 1
    ruu_branch_penalty = 1
    ruu_inorder_issue  = TRUE
    ruu_include_spec   = TRUE
    pred_perfect       = FALSE
    bugcompat_mode     = TRUE
    max_insts          = 0
    MAX_RS_LINKS       = 16
    MAX_STD_UNKNOWNS   = 2
    Addrs              = {0, 4}
    LoadLats           = {3}
    ForwardLats        = {1}
    FetchMissLats      = {1}
INVARIANTS
    OneWaiter
PROPERTIES
    EventuallyHalts
