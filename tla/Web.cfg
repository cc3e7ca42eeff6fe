SPECIFICATION Spec
CONSTANTS
    c1 = c1
    c2 = c2
    m1 = m1
    m2 = m2
    root = root
    Call <- Calls
    Mounted <- PathCalls
    Root = root
CHECK_DEADLOCK FALSE
INVARIANTS NoOrphans OwnSpan RouteInStep
PROPERTIES NestedSpans
SYMMETRY Symmetric
