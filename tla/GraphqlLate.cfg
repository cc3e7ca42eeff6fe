SPECIFICATION FairSpec
CONSTANTS
    Field <- Paths
    Index <- Positions
    Depth <- Depths
    Execs = 1
CHECK_DEADLOCK FALSE
PROPERTIES EveryFieldFinished
