CONSTANTS
    LEVELS = 2
    IDXBITS = 1
    Vpns = {0, 3, 6}
    Roots = {4, 5}
    MemPages = {0, 1, 2, 3, 4, 5, 6}
    TLB_ENTRIES = 2
    NTRIGGERS = 2
    PageTables <- Tables
    Programs <- Software
SPECIFICATION HartSpec
INVARIANTS TlbFaithful WatchedAccessStops
PROPERTIES ReturnRestores 
