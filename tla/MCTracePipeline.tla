---- MODULE MCTracePipeline ----
\* Small instances of TracePipeline.  s1, s2 and s3 are spans; t1 and t2 are
\* traces that start here, r1 came with a remote context, y1 was made up for
\* a request that came without one.
EXTENDS TracePipeline, TLC

CONSTANTS s1, s2, s3, t1, t2, r1, y1

TwoSpans   == {s1, s2}
ThreeSpans == {s1, s2, s3}
TwoTraces  == {t1, t2}
WithRemote == {t1, r1, y1}
OnlyRemote == {r1}
OnlyMadeUp == {y1}
None       == {}
DropTag    == {ManualDrop}

\* Spans are interchangeable, and so are the traces that start here: for the
\* runs that check safety only.
Symmetric == Permutations(Span) \cup Permutations(Trace \ (Remote \cup Synthesized))
====
