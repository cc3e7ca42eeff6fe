SPECIFICATION Spec
CONSTANTS
    p1 = p1
    p2 = p2
    p3 = p3
    r1 = r1
    r2 = r2
    x1 = x1
    h1 = h1
    h2 = h2
    i1 = i1
    a = a
    b = b
    Part <- Parts
    Request <- Requests
    Foreign <- Contexts
    Headers <- HeadersObjects
    Item <- Items
    Value <- Values
    Absent = Absent
    Zero = Zero
INVARIANTS OneDecision Linked
PROPERTY ItemsArrive
SYMMETRY Symmetric
CHECK_DEADLOCK FALSE
