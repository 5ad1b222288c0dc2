SPECIFICATION Spec
CONSTANTS
    k1 = k1
    k2 = k2
    Cols = {1}
    Kernels <- OneKernel
    Initial <- NoKernels
    Sizes <- OneSize
    Banks = 1
    Contended <- Always
    Slow <- Never
    ClearAnytime = FALSE
    Rows = 2
    WordsPerPE = 2
    CONF_SIZE = 16
    CONF_STRIDE = 4
    OFFSET_RANGE = 32
    FIFO_DEPTH = 4
    WORST_MEM_LATENCY = 2
    PATH_SLOTS = 2
INVARIANTS
    ConfigExact
