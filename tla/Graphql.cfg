SPECIFICATION Spec
CONSTANTS
    Field <- Paths
    Index <- Positions
    Depth <- Depths
    Execs = 2
CHECK_DEADLOCK FALSE
INVARIANTS FollowsQuery RunsInOpenSpan
PROPERTIES NestedFields ErrorsShow
