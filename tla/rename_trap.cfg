SPECIFICATION Spec
CONSTANTS
    REGFILE_SIZE = 2
    ENTRY_ROB_SIZE = 3
    PRF_SIZE = 5
    CSR_STAGES = 2
    Val = {0}
    Eval <- Zero
    Decoded <- FewKinds
PROPERTY TrapRetiresNothing
CHECK_DEADLOCK FALSE
