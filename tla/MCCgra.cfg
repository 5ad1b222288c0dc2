SPECIFICATION FairSpec
CONSTANTS
    Jobs <- MCJobs
    Cells <- MCCells
    MaxStalls <- MCMaxStalls
INVARIANTS
    TypeOK
    NoTokenLost
PROPERTIES
    ImplementsKernel
    AllDelivered
