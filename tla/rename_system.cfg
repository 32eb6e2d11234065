SPECIFICATION ImmSpec
CONSTANTS
    REGFILE_SIZE = 2
    ENTRY_ROB_SIZE = 3
    PRF_SIZE = 5
    CSR_STAGES = 2
    Val = {0}
    Eval <- Zero
    Decoded <- ImmKinds
    IMM_BUF_SIZE = 2
INVARIANTS
    OperandsCorrect
    ImmediatesKept
CHECK_DEADLOCK FALSE
VIEW ImmLiveState
