SPECIFICATION FairSpec
CONSTANTS
    k1 = k1
    k2 = k2
    Cols = {1, 2}
    Kernels <- TwoKernels
    Initial <- Second
    Sizes <- TwoSizes
    Banks = 2
    Contended <- Never
    Slow <- Never
    ClearAnytime = FALSE
    Rows = 2
    WordsPerPE = 2
    CONF_SIZE = 16
    CONF_STRIDE = 4
    OFFSET_RANGE = 32
    FIFO_DEPTH = 4
    WORST_MEM_LATENCY = 2
    PATH_SLOTS = 2
INVARIANTS
    PhasesAgree
    ConfigExact
    OutputsExact
    NothingLeftBehind
    DoneMeansIdle
PROPERTIES
    ImplementsRun
    RunCompletes
