SPECIFICATION Spec
CONSTANTS
    s1 = s1
    s2 = s2
    s3 = s3
    t1 = t1
    t2 = t2
    r1 = r1
    y1 = y1
    Span <- TwoSpans
    Trace <- WithRemote
    Remote <- OnlyRemote
    Synthesized <- OnlyMadeUp
    Zipkin = FALSE
    HasScheduler = FALSE
    SampleRate = "fraction"
    MaxSize = 2
    SpanBytes = 2
    AppTags <- DropTag
    AppResumes = TRUE
    MaxFlushes = 0
CHECK_DEADLOCK FALSE
INVARIANTS TraceObjects OnePriority
PROPERTIES ExportIsWhole
SYMMETRY Symmetric
