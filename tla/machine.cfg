SPECIFICATION MachineSpec
CONSTANTS
    NPROCS = 2
    INTERLEAVE = 2
    TICKS = 1
    MaxTime = 2
    Words = {100, 101}
    RunCounts = {1}
    BaseInsns <- Base
    ExtensionInsns <- Extra
    InsnWords = {0, 1, 2, 3, 4, 5, 6, 7, 10, 18, 22, 26}
    OPCODE_CACHE_SIZE = 3
    Lines = {0, 1, 2, 3}
    FaWays = 1
    Sets <- SetsOf
    Ways <- WaysOf
    Tasks <- RamTasks
    MaxTasks = 3
    DRAM = 4096
    RecvSize = 20
    SendSize = 16
    Requests <- Asked
    MaxRequests = 4
    Code <- Codes
INVARIANTS ScAtomic TimerTrue DirtyKept ProgramsExecute WireFaithful
PROPERTIES MostSpecific EveryHartRuns
CHECK_DEADLOCK FALSE
