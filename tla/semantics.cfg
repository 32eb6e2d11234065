SPECIFICATION SemanticsSpec
CONSTANTS XLEN = 16  IMM = 4  UIMM = 4  NREG = 4  MEMWORDS = 2  QMAX = 2
          MaxSteps = 8  DIVU0 = 65535
          Programs <- Exercises
          F32 <- Single
          F64 <- Double
          N32 = 5  N64 = 10  RB = 2
          Groups <- Calls
          Followers <- Next2
          REG = 8  Suites <- Tests
INVARIANTS HistoryKept
           ResultsExact FpStateCurrent
PROPERTIES IssImplementsRV DumpExact 
CHECK_DEADLOCK FALSE
