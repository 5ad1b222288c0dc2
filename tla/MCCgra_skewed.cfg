SPECIFICATION Spec
CONSTANTS
    Jobs <- SkewedJobs
    Cells <- SkewedCells
    MaxStalls <- SkewedStalls
PROPERTIES
    ImplementsKernel
