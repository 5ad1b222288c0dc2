SPECIFICATION FairSpec
CONSTANTS
    Lines <- MCLines
    Strela = "strela"
    Others <- TwoOthers
    Modes <- BothModes
PROPERTIES
    ClearIsSelective
