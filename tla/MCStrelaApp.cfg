SPECIFICATION FairSpec
CONSTANTS
    Lines <- MCLines
    Strela = "strela"
    Others <- TwoOthers
    Modes <- BothModes
INVARIANTS
    GoesOnAfterRun
    ServedOnce
PROPERTIES
    PollEnds
    CalmWaitEnds
