SPECIFICATION Spec
CONSTANTS
    REGFILE_SIZE = 2
    ENTRY_ROB_SIZE = 3
    PRF_SIZE = 5
    CSR_STAGES = 1
    Val = {0}
    Eval <- Zero
    Decoded <- EveryKind
INVARIANTS
    TypeOK
    Lockstep
    Window
    RegistersConserved
    DestInQueue
    FrontMapCorrect
    OperandsCorrect
CHECK_DEADLOCK FALSE
VIEW LiveState
