SPECIFICATION FairSpec
CONSTANTS
    Lines <- MCLines
    Strela = "strela"
    Others <- NoOthers
    Modes <- BothModes
PROPERTIES
    WaitEnds
