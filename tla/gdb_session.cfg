SPECIFICATION Spec
CONSTANTS
    XLEN = 64
    Code = {0, 1}
    PGSIZE = 2
    LEVELS = 1
    Roots = {2, 3}
    MemInit <- TwoSpaces
    MStatusInit <- UserPaged
    NTRIG = 1
    RECV_CAP = 4
    Packets <- SessionPackets
    BUDGET = 4
    Duplicates = FALSE
INVARIANTS
    TypeOK
    
    
PROPERTIES
    ProgramStable
    ResumeFaithful
    RepliesTrue
