SPECIFICATION Spec
CONSTANTS
    s1 = s1
    s2 = s2
    s3 = s3
    t1 = t1
    t2 = t2
    r1 = r1
    y1 = y1
    Span <- ThreeSpans
    Trace <- TwoTraces
    Remote <- None
    Synthesized <- None
    Zipkin = TRUE
    HasScheduler = TRUE
    SampleRate = "one"
    MaxSize = 2
    SpanBytes = 2
    AppTags <- None
    AppResumes = FALSE
    MaxFlushes = 1
CHECK_DEADLOCK FALSE
INVARIANTS TypeOK OnePlace SentOnce DeliveredOnce BufferBound FlushTakesAll GracefulExit
PROPERTIES ReportsSpans
SYMMETRY Symmetric
