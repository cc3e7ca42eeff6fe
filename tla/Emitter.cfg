SPECIFICATION Spec
CONSTANTS
    f1 = f1
    f2 = f2
    s1 = s1
    none = none
    Listener <- Listeners
    ScopeSpan <- Spans
    Current = Current
    Nobody = Nobody
    MaxMade = 3
INVARIANT TablesAgree
PROPERTY ActsAsList
SYMMETRY Symmetric
