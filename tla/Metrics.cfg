SPECIFICATION Spec
CONSTANTS
    s1 = s1
    s2 = s2
    s3 = s3
    n1 = n1
    n2 = n2
    t1 = t1
    Span <- Spans3
    Name <- Names
    NameOf <- NamesOf
    Tag <- Tags
    SizeOf <- Sizes
    Limit = 4
    Width = 8
    MaxTurns = 2
    MaxPauses = 2
    MaxCount = 1
    MaxLookups = 1
INVARIANTS SpansCounted NamesInTotals CountedOnce Packed
SYMMETRY Symmetric
CHECK_DEADLOCK FALSE
