SPECIFICATION FairSpec
CONSTANTS
    MEMQ_SIZE = 2
    ENTRY_ROB_SIZE = 3
    Loc <- OneLoc
    Cell <- TwoCells
    Cells <- CellsOf
    Dword <- OneDword
    Val = {0}
    Packets <- AllPackets
    DCACHE_SIZE = 1
PROPERTY HeadLeaves

    
    
