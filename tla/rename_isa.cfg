SPECIFICATION Spec
CONSTANTS
    REGFILE_SIZE = 3
    ENTRY_ROB_SIZE = 4
    PRF_SIZE = 7
    CSR_STAGES = 2
    Val = {0, 1}
    Eval <- Mix
    Decoded <- ISAKinds
PROPERTY ImplementsISA
VIEW LiveState
