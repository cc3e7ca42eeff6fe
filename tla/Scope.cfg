SPECIFICATION Spec
CONSTANTS
    root = root
    p1 = p1
    h1 = h1
    h2 = h2
    s1 = s1
    s2 = s2
    NoSpan = NoSpan
    Id <- Ids
    Root = root
    Early <- OnlyRoot
    Promise <- Promises
    Handle <- Handles
    Span <- Spans
    KeepAliveBug = TRUE
    Thenables = FALSE
    MaxDepth = 2
    MaxNesting = 2
SYMMETRY Symmetry
CHECK_DEADLOCK FALSE
INVARIANTS Bookkeeping ActiveIsInnermost
PROPERTIES KeepsContext
