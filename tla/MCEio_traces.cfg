CONSTANTS
    BLOB_TAIL_SIZE = 2
    MD_PAGE_SIZE = 8
    Jobs <- McJobs
    Answers <- McAnswers
    Dumps <- McDumps
SPECIFICATION Spec
INVARIANTS
    Reproducible
    ReplayAccepted
    OutputReplayed
    Retraced
CHECK_DEADLOCK FALSE
