SPECIFICATION FairSpec
CONSTANTS
    k1 = k1
    k2 = k2
    Cols = {1}
    Kernels <- OneKernel
    Initial <- NoKernels
    Sizes <- LongRun
    Banks = 1
    Contended <- Executing
    Slow <- Executing
    ClearAnytime = FALSE
    Rows = 2
    WordsPerPE = 2
    CONF_SIZE = 16
    CONF_STRIDE = 4
    OFFSET_RANGE = 64
    FIFO_DEPTH = 4
    WORST_MEM_LATENCY = 2
    PATH_SLOTS = 2
INVARIANTS
    TypeOK
    RoomForEveryRead
    OutputsExact
PROPERTIES
    RunCompletes
