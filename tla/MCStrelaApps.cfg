SPECIFICATION FairSpec
CONSTANTS
    SIZE = 4
    TEST = 2
    Given <- MCGiven
    Running <- MCApps
CHECK_DEADLOCK FALSE
INVARIANTS
    TypeOK
    ResultsExact
    KernelIsCurrent
    StreamsBalance
    CountersExact
PROPERTIES
    NoOverwrite
    HandsOffDuringRun
    ProgramEnds
