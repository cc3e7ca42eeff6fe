---- MODULE TracePipelineProofs ----
(***************************************************************************)
(* Theorems of TracePipeline, for any number of spans and traces, either   *)
(* writer and any configuration.                                           *)
(***************************************************************************)
EXTENDS TracePipeline, FiniteSetTheorems, TLAPS

----------------------------------------------------------------------------
\* The samplers.

\* Whatever the tags and the rate, sampling a trace ends in a decision.
LEMMA SampledType ==
    ASSUME NEW p \in Priorities \cup {Undecided}, NEW g, NEW r \in Rates
    PROVE  Sampled(p, g, r) \subseteq Priorities
BY DEF Sampled, Decisions, ManualPriority, IsSampled, Priorities, Undecided, Rates,
       USER_REJECT, AUTO_REJECT, AUTO_KEEP, USER_KEEP

\* Setting a tag that the samplers know leaves a set of such tags.
LEMMA WithTagType ==
    ASSUME NEW T \in SUBSET SamplingTags, NEW g \in SamplingTags
    PROVE  WithTag(T, g) \in SUBSET SamplingTags
BY DEF WithTag, SamplingTags, PriorityKeep, PriorityReject

----------------------------------------------------------------------------
\* Encoded traces and the writer: types.

LEMMA ChunkSpans ==
    ASSUME NEW c \in Chunk
    PROVE  SpansOf(c) \in SUBSET Span
BY DEF Chunk, SpansOf

LEMMA QueueSpans ==
    ASSUME NEW q \in Seq(Chunk)
    PROVE  QueuedSpans(q) \in SUBSET Span
<1>1. \A i \in DOMAIN q : q[i] \in Chunk
  OBVIOUS
<1> QED BY <1>1, ChunkSpans DEF QueuedSpans

LEMMA RequestedSpans ==
    ASSUME NEW w \in Writer
    PROVE  Requested(w) \in SUBSET Span
<1>1. ASSUME NEW r \in w.requests
      PROVE  SpansIn(r) \in SUBSET Span
  BY QueueSpans DEF Writer, Request, SpansIn
<1> QED BY <1>1 DEF Requested

LEMMA FormattedType ==
    ASSUME TypeOK, NEW S \in SUBSET Span, NEW p \in Priorities
    PROVE  /\ Formatted(S, p) \in Chunk
           /\ SpansOf(Formatted(S, p)) = S
<1>1. [s \in S |-> tags[s]] \in [S -> SUBSET SamplingTags]
  BY DEF TypeOK
<1> QED BY <1>1 DEF Formatted, Chunk, SpansOf

\* The length of an encoded trace is a natural number.
LEMMA LengthType ==
    ASSUME NEW c \in Chunk
    PROVE  EncodedLength(c) \in Nat
<1>1. Cardinality(SpansOf(c)) \in Nat
  BY ChunkSpans, PipelineAssumption, FS_Subset, FS_CardinalityType
<1>2. CASE Zipkin
  BY <1>1, <1>2 DEF EncodedLength
<1>3. CASE ~Zipkin
  BY <1>1, <1>3, PipelineAssumption DEF EncodedLength
<1> QED BY <1>2, <1>3

LEMMA FlushedType ==
    ASSUME NEW w \in Writer
    PROVE  Flushed(w) \in Writer
<1> DEFINE request == [chunks |-> w.queue, arrived |-> FALSE]
<1>1. w.queue \in Seq(Chunk) /\ w.requests \in SUBSET Request
  BY DEF Writer
<1>2. request \in Request
  BY <1>1 DEF Request
<1> HIDE DEF request
<1>3. w.requests \cup {request} \in SUBSET Request
  BY <1>1, <1>2
<1>4. [queue |-> <<>>, size |-> 0, requests |-> w.requests \cup {request}] \in Writer
  BY <1>3 DEF Writer
<1> QED BY <1>4 DEF Flushed, request

LEMMA AppendedType ==
    ASSUME NEW w \in Writer, NEW c \in Chunk
    PROVE  Appended(w, c) \in Writer
<1> DEFINE room == IF EncodedLength(c) + w.size > MaxSize THEN Flushed(w) ELSE w
<1>1. room \in Writer
  BY FlushedType
<1> HIDE DEF room
<1>2. [queue |-> Append(room.queue, c), size |-> room.size + EncodedLength(c),
       requests |-> room.requests] \in Writer
  BY <1>1, LengthType DEF Writer
<1> QED BY <1>2 DEF Appended, room

LEMMA RecordedType ==
    ASSUME NEW w \in Writer
    PROVE  Recorded(w) \in Writer
BY FlushedType DEF Recorded

----------------------------------------------------------------------------
\* Type correctness.

LEMMA InitType == Init => TypeOK
<1> SUFFICES ASSUME Init PROVE TypeOK
  OBVIOUS
<1>1. writer \in Writer
  BY DEF Init, Writer
<1>2. priority \in [Trace -> Priorities \cup {Undecided}]
  BY DEF Init
<1> QED BY <1>1, <1>2, PipelineAssumption DEF Init, TypeOK, Rates, SamplingTags

\* A span is put in a trace, or is a noop or non-reporting span.
LEMMA HomesType ==
    ASSUME TypeOK, NEW ref \in References, NEW b \in BOOLEAN
    PROVE  Homes(ref, b) \subseteq Trace \cup {"noop", "silent"}
<1>1. CASE ref \in Span
  <2>1. traceOf[ref] \in Trace \cup {"noop", "silent"}
    BY <1>1, PipelineAssumption DEF TypeOK, References
  <2>2. ref # "root" /\ ref \notin Synthesized
    BY <1>1, PipelineAssumption
  <2> QED BY <1>1, <2>1, <2>2, PipelineAssumption DEF Homes
<1>2. CASE ref \notin Span
  <2>1. ref \in {"root", "noopRef", "silentRef"} \cup Trace
    BY <1>2, PipelineAssumption DEF References
  <2> QED BY <1>2, <2>1, PipelineAssumption DEF Homes
<1> QED BY <1>1, <1>2

LEMMA TypeStep == TypeOK /\ [Next]_vars => TypeOK'
<1> SUFFICES ASSUME TypeOK, [Next]_vars PROVE TypeOK'
  OBVIOUS
<1> USE DEF app, sampling, agent
<1>1. ASSUME NEW s \in Span, StartSpan(s)
      PROVE  TypeOK'
  <2>1. PICK ref \in References, b \in IsSampled(SampleRate) :
           \E t \in Homes(ref, b) :
              /\ traceOf' = [traceOf EXCEPT ![s] = t]
              /\ started' = [u \in Trace |-> IF u = t THEN started[u] \cup {s}
                                                      ELSE started[u]]
    BY <1>1 DEF StartSpan
  <2>2. b \in BOOLEAN
    BY <2>1 DEF IsSampled
  <2>3. PICK t \in Trace \cup {"noop", "silent"} :
              /\ traceOf' = [traceOf EXCEPT ![s] = t]
              /\ started' = [u \in Trace |-> IF u = t THEN started[u] \cup {s}
                                                      ELSE started[u]]
    BY <2>1, <2>2, HomesType
  <2>4. started' \in [Trace -> SUBSET Span]
    BY <2>3 DEF TypeOK
  <2>5. traceOf' \in [Span -> Trace \cup {"absent", "noop", "silent"}]
    BY <2>3 DEF TypeOK
  <2>6. ended' \subseteq {r \in Span : traceOf'[r] # "absent"}
    BY <1>1, <2>3, PipelineAssumption DEF TypeOK, StartSpan
  <2> QED BY <1>1, <2>4, <2>5, <2>6 DEF TypeOK, StartSpan
<1>2. ASSUME NEW s \in Span, NEW g \in AppTags, SetTag(s, g)
      PROVE  TypeOK'
  <2>1. g \in SamplingTags
    BY PipelineAssumption
  <2>2. tags' \in [Span -> SUBSET SamplingTags]
    BY <1>2, <2>1, WithTagType DEF TypeOK, SetTag
  <2> QED BY <1>2, <2>2 DEF TypeOK, SetTag
<1>3. ASSUME NEW s \in Span, DropTrace(s)
      PROVE  TypeOK'
  BY <1>3 DEF TypeOK, DropTrace
<1>4. ASSUME NEW s \in Span, Inject(s)
      PROVE  TypeOK'
  <2> DEFINE t == traceOf[s]
  <2>1. t \in Trace /\ priority[t] \in Priorities \cup {Undecided}
    BY <1>4 DEF TypeOK, Inject, Reporting
  <2>2. PICK p \in Priorities : /\ priority' = [priority EXCEPT ![t] = p]
                                /\ injected' = [injected EXCEPT ![t] = @ \cup {p}]
    BY <1>4, <2>1, SampledType DEF Inject, TypeOK
  <2> QED BY <1>4, <2>1, <2>2 DEF TypeOK, Inject
<1>5. ASSUME NEW s \in Span, FinishEarly(s)
      PROVE  TypeOK'
  <2>1. writer' \in Writer
    BY <1>5, RecordedType DEF FinishEarly, TypeOK
  <2>2. finished' \in [Trace -> SUBSET Span]
    BY <1>5 DEF FinishEarly, TypeOK
  <2> QED BY <1>5, <2>1, <2>2 DEF FinishEarly, TypeOK
<1>6. ASSUME NEW s \in Span, FinishTrace(s)
      PROVE  TypeOK'
  <2> DEFINE t == traceOf[s]
             S == finished[t] \cup {s}
  <2>1. t \in Trace /\ S \in SUBSET Span /\ priority[t] \in Priorities \cup {Undecided}
    BY <1>6 DEF TypeOK, FinishTrace, Reporting
  <2>2. PICK p \in Priorities :
           /\ priority' = [priority EXCEPT ![t] = p]
           /\ \/ /\ writer'  = Recorded(writer)
                 /\ outcome' = [r \in Span |-> IF r \in S THEN "dropped" ELSE outcome[r]]
              \/ /\ writer'  = Recorded(Appended(writer, Formatted(S, p)))
                 /\ outcome' = outcome
    BY <1>6, <2>1, SampledType DEF FinishTrace, TypeOK
  <2>3. writer' \in Writer
    BY <2>1, <2>2, RecordedType, AppendedType, FormattedType DEF TypeOK
  <2>4. outcome' \in [Span -> {"none", "dropped", "ok", "failed", "stalled"}]
    BY <2>2 DEF TypeOK
  <2>5. /\ started' \in [Trace -> SUBSET Span]
        /\ finished' \in [Trace -> SUBSET Span]
        /\ tags' \in [Span -> SUBSET SamplingTags]
    BY <1>6 DEF FinishTrace, Erase, TypeOK
  <2>6. ended' \subseteq {r \in Span : traceOf'[r] # "absent"}
    BY <1>6, <2>1, PipelineAssumption DEF FinishTrace, TypeOK
  <2> QED BY <1>6, <2>2, <2>3, <2>4, <2>5, <2>6 DEF FinishTrace, TypeOK
<1>7. ASSUME Tick
      PROVE  TypeOK'
  BY <1>7, FlushedType DEF Tick, TypeOK
<1>8. ASSUME CallFlush
      PROVE  TypeOK'
  <2>1. writer' \in Writer
    BY <1>8, FlushedType DEF CallFlush, TypeOK
  <2>2. Queued \in SUBSET Span /\ InFlight \in SUBSET Span
    BY QueueSpans, RequestedSpans DEF TypeOK, Writer, Queued, InFlight
  <2>3. Awaited(writer) \in SUBSET Span
    <3>1. Flushed(writer) \in Writer
      BY FlushedType DEF TypeOK
    <3>2. Requested(Flushed(writer)) \in SUBSET Span
      BY <3>1, RequestedSpans
    <3>3. Awaited(writer) \subseteq Requested(Flushed(writer))
      BY DEF Awaited, Requested
    <3> QED BY <3>2, <3>3
  <2>4. calls' \subseteq [awaits : SUBSET Span, unsent : SUBSET Span, earlier : SUBSET Span]
    BY <1>8, <2>2, <2>3 DEF CallFlush, TypeOK
  <2> QED BY <1>8, <2>1, <2>4 DEF CallFlush, TypeOK
<1>9. ASSUME BeforeExit
      PROVE  TypeOK'
  BY <1>9, FlushedType DEF BeforeExit, AtExit, TypeOK
<1>10. ASSUME Exit \/ Kill
       PROVE  TypeOK'
  BY <1>10 DEF Exit, Kill, TypeOK
<1>11. ASSUME NEW r \in writer.requests, Arrive(r)
       PROVE  TypeOK'
  <2>1. r \in Request /\ [r EXCEPT !.arrived = TRUE] \in Request
    BY DEF TypeOK, Writer, Request
  <2>2. writer' \in Writer
    BY <1>11, <2>1 DEF Arrive, TypeOK, Writer
  <2>3. received' \in [Span -> Nat]
    BY <1>11 DEF Arrive, TypeOK
  <2> QED BY <1>11, <2>2, <2>3 DEF Arrive, TypeOK
<1>12. ASSUME NEW r \in writer.requests, Conclude(r)
       PROVE  TypeOK'
  <2>1. PICK fate \in {"ok", "failed", "stalled"} : Concluded(r, fate)
    BY <1>12 DEF Conclude, Succeed, Fail, Stall
  <2>2. writer' \in Writer
    BY <2>1 DEF Concluded, TypeOK, Writer
  <2>3. outcome' \in [Span -> {"none", "dropped", "ok", "failed", "stalled"}]
    BY <2>1 DEF Concluded, TypeOK
  <2>4. rate' \in Rates
    BY <1>12 DEF Conclude, Succeed, Fail, Stall, TypeOK
  <2> QED BY <1>12, <2>2, <2>3, <2>4 DEF Conclude, Succeed, Fail, Stall, TypeOK
<1>13. CASE UNCHANGED vars
  BY <1>13 DEF vars, TypeOK
<1> QED
  BY <1>1, <1>2, <1>3, <1>4, <1>5, <1>6, <1>7, <1>8, <1>9, <1>10, <1>11, <1>12, <1>13
     DEF Next

\* Every reachable state of the pipeline is well typed; in particular no
\* trace is ever buffered without a sampling decision.
THEOREM TypeCorrect == Spec => []TypeOK
<1> QED BY InitType, TypeStep, PTL DEF Spec

----------------------------------------------------------------------------
\* The writer's operations keep every span where it is found once.

\* What SentOnce and the middle of OnePlace say of a writer.
WriterOK(w) ==
    /\ w \in Writer
    /\ NoTwins(w.queue)
    /\ \A r \in w.requests : NoTwins(r.chunks)
    /\ NoTwinRequests(w.requests)
    /\ QueuedSpans(w.queue) \cap Requested(w) = {}

\* The spans that a writer holds.
Held(w) == QueuedSpans(w.queue) \cup Requested(w)

\* A flush moves the spans of the queue into a request.
LEMMA FlushedSpans ==
    ASSUME NEW w \in Writer
    PROVE  /\ QueuedSpans(Flushed(w).queue) = {}
           /\ Requested(Flushed(w)) = Held(w)
<1>1. QueuedSpans(<<>>) = {}
  BY DEF QueuedSpans
<1>2. CASE w.queue = <<>>
  BY <1>1, <1>2 DEF Flushed, Held
<1>3. CASE w.queue # <<>>
  <2> DEFINE request == [chunks |-> w.queue, arrived |-> FALSE]
  <2>1. SpansIn(request) = QueuedSpans(w.queue)
    BY DEF SpansIn
  <2>2. /\ Flushed(w).queue = <<>>
        /\ Flushed(w).requests = w.requests \cup {request}
    BY <1>3 DEF Flushed
  <2> HIDE DEF request
  <2> QED BY <1>1, <2>1, <2>2 DEF Requested, Held
<1> QED BY <1>2, <1>3

LEMMA FlushedOK ==
    ASSUME NEW w, WriterOK(w)
    PROVE  WriterOK(Flushed(w))
<1>1. CASE w.queue = <<>>
  BY <1>1 DEF Flushed
<1>2. CASE w.queue # <<>>
  <2> DEFINE request == [chunks |-> w.queue, arrived |-> FALSE]
  <2>1. /\ Flushed(w).queue = <<>>
        /\ Flushed(w).requests = w.requests \cup {request}
    BY <1>2 DEF Flushed
  <2>2. request.chunks = w.queue
    OBVIOUS
  <2> HIDE DEF request
  <2>3. Flushed(w) \in Writer
    BY FlushedType DEF WriterOK
  <2>4. NoTwins(Flushed(w).queue)
    BY <2>1 DEF NoTwins
  <2>5. \A r \in Flushed(w).requests : NoTwins(r.chunks)
    BY <2>1, <2>2 DEF WriterOK
  <2>6. \A r \in w.requests : SpansIn(r) \cap SpansIn(request) = {}
    BY <2>2 DEF WriterOK, Requested, SpansIn
  <2>7. NoTwinRequests(Flushed(w).requests)
    BY <2>1, <2>6 DEF WriterOK, NoTwinRequests
  <2>8. QueuedSpans(Flushed(w).queue) \cap Requested(Flushed(w)) = {}
    BY FlushedSpans DEF WriterOK
  <2> QED BY <2>3, <2>4, <2>5, <2>7, <2>8 DEF WriterOK
<1> QED BY <1>1, <1>2

LEMMA AppendSpans ==
    ASSUME NEW q \in Seq(Chunk), NEW c \in Chunk
    PROVE  QueuedSpans(Append(q, c)) = QueuedSpans(q) \cup SpansOf(c)
<1> DEFINE a == Append(q, c)
<1>1. /\ DOMAIN a = 1 .. Len(q) + 1 /\ DOMAIN q = 1 .. Len(q) /\ Len(q) \in Nat
      /\ a[Len(q) + 1] = c
      /\ \A i \in DOMAIN q : a[i] = q[i]
  OBVIOUS
<1> HIDE DEF a
<1>2. DOMAIN a = DOMAIN q \cup {Len(q) + 1}
  BY <1>1
<1>3. QueuedSpans(a) = QueuedSpans(q) \cup SpansOf(c)
  BY <1>1, <1>2 DEF QueuedSpans
<1> QED BY <1>3 DEF a

\* A chunk joins the queue of a writer that does not hold its spans.
LEMMA AppendTwins ==
    ASSUME NEW q \in Seq(Chunk), NEW c \in Chunk, NoTwins(q),
           SpansOf(c) \cap QueuedSpans(q) = {}
    PROVE  NoTwins(Append(q, c))
<1> DEFINE a == Append(q, c)
<1>1. /\ DOMAIN a = 1 .. Len(q) + 1 /\ DOMAIN q = 1 .. Len(q) /\ Len(q) \in Nat
      /\ a[Len(q) + 1] = c
      /\ \A i \in DOMAIN q : a[i] = q[i]
  OBVIOUS
<1> HIDE DEF a
<1>2. \A i \in DOMAIN q : SpansOf(a[i]) \cap SpansOf(c) = {}
  BY <1>1 DEF QueuedSpans
<1>3. NoTwins(a)
  BY <1>1, <1>2 DEF NoTwins
<1> QED BY <1>3 DEF a

LEMMA AppendedOK ==
    ASSUME NEW w, WriterOK(w), NEW c \in Chunk, SpansOf(c) \cap Held(w) = {}
    PROVE  /\ WriterOK(Appended(w, c))
           /\ Held(Appended(w, c)) = Held(w) \cup SpansOf(c)
<1> DEFINE room == IF EncodedLength(c) + w.size > MaxSize THEN Flushed(w) ELSE w
<1>1. WriterOK(room)
  BY FlushedOK
<1>2. Held(room) = Held(w)
  BY FlushedSpans DEF WriterOK, Held
<1>3. /\ Appended(w, c).queue = Append(room.queue, c)
      /\ Appended(w, c).requests = room.requests
  BY DEF Appended
<1>4. Appended(w, c) \in Writer
  BY AppendedType DEF WriterOK
<1> HIDE DEF room
<1>5. room.queue \in Seq(Chunk)
  BY <1>1 DEF WriterOK, Writer
<1>6. QueuedSpans(Appended(w, c).queue) = QueuedSpans(room.queue) \cup SpansOf(c)
  BY <1>3, <1>5, AppendSpans
<1>7. Requested(Appended(w, c)) = Requested(room)
  BY <1>3 DEF Requested
<1>8. NoTwins(Appended(w, c).queue)
  BY <1>1, <1>2, <1>3, <1>5, AppendTwins DEF WriterOK, Held
<1>9. WriterOK(Appended(w, c))
  BY <1>1, <1>2, <1>3, <1>4, <1>6, <1>7, <1>8 DEF WriterOK, Held
<1> QED BY <1>2, <1>6, <1>7, <1>9 DEF Held

LEMMA RecordedOK ==
    ASSUME NEW w, WriterOK(w)
    PROVE  /\ WriterOK(Recorded(w))
           /\ Held(Recorded(w)) = Held(w)
BY FlushedOK, FlushedSpans DEF Recorded, WriterOK, Held

----------------------------------------------------------------------------
\* Every finished span is in one place.

\* The inductive invariant.  TraceObjects is what makes the spans that a
\* trace hands over the ones that it kept; WriterOK is SentOnce with the
\* disjointness of queue and requests.
SpanInv ==
    /\ TypeOK
    /\ TraceObjects
    /\ WriterOK(writer)
    /\ Reporting \cap ended = Kept \cup Held(writer) \cup Done
    /\ Kept \cap Held(writer) = {} /\ Kept \cap Done = {} /\ Held(writer) \cap Done = {}

LEMMA SpanInvImplies == SpanInv => OnePlace /\ SentOnce /\ TraceObjects
BY DEF SpanInv, OnePlace, SentOnce, WriterOK, Held, Queued, InFlight

LEMMA SpanInvInit == Init => SpanInv
<1> SUFFICES ASSUME Init PROVE SpanInv
  OBVIOUS
<1>1. TypeOK
  BY InitType
<1>2. QueuedSpans(writer.queue) = {} /\ Requested(writer) = {}
  BY DEF Init, QueuedSpans, Requested
<1>3. WriterOK(writer)
  BY <1>1, <1>2 DEF Init, WriterOK, NoTwins, NoTwinRequests, TypeOK
<1>4. Kept = {} /\ Done = {} /\ ended = {}
  BY DEF Init, Kept, Done
<1>5. TraceObjects
  BY PipelineAssumption DEF Init, TraceObjects
<1> QED BY <1>1, <1>2, <1>3, <1>4, <1>5 DEF SpanInv, Held

\* What a step that leaves the spans and the trace objects alone has to keep.
LEMMA SpanInvUnchanged ==
    ASSUME SpanInv, TypeOK', UNCHANGED app,
           WriterOK(writer)', (Held(writer) \cup Done)' = Held(writer) \cup Done,
           (Held(writer) \cap Done)' = {}
    PROVE  SpanInv'
<1>1. Kept' = Kept /\ Reporting' = Reporting /\ ended' = ended
  BY DEF app, Kept, Reporting
<1>2. TraceObjects'
  BY DEF app, TraceObjects, SpanInv
<1> QED BY <1>1, <1>2 DEF SpanInv

LEMMA SpanInvStep == SpanInv /\ [Next]_vars => SpanInv'
<1> SUFFICES ASSUME SpanInv, [Next]_vars PROVE SpanInv'
  OBVIOUS
<1>0. TypeOK /\ TypeOK'
  BY TypeStep DEF SpanInv
<1>w. writer \in Writer /\ WriterOK(writer)
  BY DEF SpanInv, TypeOK
<1>1. ASSUME NEW s \in Span, StartSpan(s)
      PROVE  SpanInv'
  <2>1. PICK t \in Trace \cup {"noop", "silent"} :
              /\ traceOf' = [traceOf EXCEPT ![s] = t]
              /\ started' = [u \in Trace |-> IF u = t THEN started[u] \cup {s}
                                                      ELSE started[u]]
    <3>1. PICK ref \in References, b \in IsSampled(SampleRate) :
             \E t \in Homes(ref, b) :
                /\ traceOf' = [traceOf EXCEPT ![s] = t]
                /\ started' = [u \in Trace |-> IF u = t THEN started[u] \cup {s}
                                                        ELSE started[u]]
      BY <1>1 DEF StartSpan
    <3>2. b \in BOOLEAN
      BY <3>1 DEF IsSampled
    <3> QED BY <1>0, <3>1, <3>2, HomesType
  <2>2. s \notin ended /\ s \notin Reporting
    BY <1>0, <1>1, PipelineAssumption DEF StartSpan, TypeOK, Reporting
  <2>3. /\ ended' = ended /\ finished' = finished /\ writer' = writer /\ outcome' = outcome
        /\ Kept' = Kept /\ Held(writer)' = Held(writer) /\ Done' = Done
    BY <1>1 DEF StartSpan, agent, Kept, Held, Done
  <2>4. (Reporting \cap ended)' = Reporting \cap ended
    BY <1>0, <2>1, <2>2, <2>3 DEF Reporting, TypeOK
  <2>5. TraceObjects'
    <3> SUFFICES ASSUME NEW u \in Trace
                 PROVE  /\ \A r \in started'[u] : traceOf'[r] = u
                        /\ finished'[u] = started'[u] \cap ended'
                        /\ \A r \in Span \ ended' : traceOf'[r] = u => r \in started'[u]
      BY DEF TraceObjects
    <3>1. /\ \A r \in started[u] : traceOf[r] = u
          /\ finished[u] = started[u] \cap ended
          /\ \A r \in Span \ ended : traceOf[r] = u => r \in started[u]
      BY DEF SpanInv, TraceObjects
    <3>2. s \notin started[u]
      BY <2>2, <3>1 DEF Reporting
    <3> QED BY <1>0, <2>1, <2>2, <2>3, <3>1, <3>2 DEF TypeOK
  <2> QED BY <1>0, <1>w, <2>3, <2>4, <2>5 DEF SpanInv
<1>2. ASSUME NEW s \in Span, NEW g \in AppTags, SetTag(s, g)
      PROVE  SpanInv'
  <2>1. /\ Kept' = Kept /\ Reporting' = Reporting /\ ended' = ended /\ writer' = writer
        /\ Done' = Done
    BY <1>2 DEF SetTag, agent, Kept, Reporting, Done
  <2>2. TraceObjects'
    BY <1>2 DEF SetTag, TraceObjects, SpanInv
  <2> QED BY <1>0, <2>1, <2>2 DEF SpanInv
<1>3. ASSUME NEW s \in Span, DropTrace(s) \/ Inject(s)
      PROVE  SpanInv'
  <2>1. UNCHANGED <<app, writer, outcome>>
    BY <1>3 DEF DropTrace, Inject, agent
  <2>2. Held(writer)' = Held(writer) /\ Done' = Done /\ WriterOK(writer)'
    BY <1>w, <2>1 DEF Done
  <2> QED BY <1>0, <2>1, <2>2, SpanInvUnchanged DEF SpanInv
<1>5. ASSUME NEW s \in Span, FinishEarly(s)
      PROVE  SpanInv'
  <2>1. /\ UNCHANGED <<traceOf, started, outcome>>
        /\ ended' = ended \cup {s}
        /\ s \notin ended /\ traceOf[s] # "absent"
    BY <1>5 DEF FinishEarly, agent
  <2>2. WriterOK(writer)' /\ Held(writer)' = Held(writer)
    BY <1>5, <1>w, RecordedOK DEF FinishEarly
  <2>3. Reporting' = Reporting /\ Done' = Done
    BY <2>1 DEF Reporting, Done
  <2>4. CASE s \notin Reporting
    <3>1. finished' = finished
      BY <1>5, <2>4 DEF FinishEarly
    <3>2. Kept' = Kept /\ (Reporting \cap ended)' = Reporting \cap ended
      BY <2>1, <2>3, <2>4, <3>1 DEF Kept
    <3>3. \A t \in Trace : s \notin started[t] /\ traceOf[s] # t
      BY <2>4 DEF Reporting, SpanInv, TraceObjects
    <3>4. TraceObjects'
      BY <2>1, <3>1, <3>3 DEF SpanInv, TraceObjects
    <3> QED BY <1>0, <2>2, <2>3, <3>2, <3>4 DEF SpanInv
  <2>5. CASE s \in Reporting
    <3> DEFINE t == traceOf[s]
    <3>1. t \in Trace /\ finished' = [finished EXCEPT ![t] = @ \cup {s}]
      BY <1>5, <2>5 DEF FinishEarly, Reporting
    <3>2. finished' = [u \in Trace |-> IF u = t THEN finished[u] \cup {s} ELSE finished[u]]
      BY <1>0, <3>1 DEF TypeOK
    <3> HIDE DEF t
    <3>3. Kept' = Kept \cup {s}
      BY <3>1, <3>2 DEF Kept
    <3>4. s \in started[t] /\ \A u \in Trace : s \in started[u] => u = t
      BY <2>1, <3>1 DEF SpanInv, TraceObjects, t
    <3>5. TraceObjects'
      BY <2>1, <3>1, <3>2, <3>4 DEF SpanInv, TraceObjects
    <3>6. s \notin Kept \cup Held(writer) \cup Done
      BY <2>1 DEF SpanInv
    <3> QED BY <1>0, <2>1, <2>2, <2>3, <2>5, <3>3, <3>5, <3>6 DEF SpanInv
  <2> QED BY <2>4, <2>5
<1>6. ASSUME NEW s \in Span, FinishTrace(s)
      PROVE  SpanInv'
  <2> DEFINE t == traceOf[s]
             S == finished[t] \cup {s}
  <2>1. /\ t \in Trace /\ s \in Reporting /\ s \notin ended
        /\ S \in SUBSET Span
        /\ priority[t] \in Priorities \cup {Undecided}
    BY <1>0, <1>6 DEF TypeOK, FinishTrace, Reporting
  <2>2. /\ ended' = ended \cup {s} /\ traceOf' = traceOf
        /\ started' = [u \in Trace |-> IF u = t THEN {} ELSE started[u]]
        /\ finished' = [u \in Trace |-> IF u = t THEN {} ELSE finished[u]]
        /\ Complete(t, S)
    BY <1>0, <1>6 DEF FinishTrace, Erase, TypeOK
  <2>3. PICK p \in Priorities :
           \/ /\ writer'  = Recorded(writer)
              /\ outcome' = [r \in Span |-> IF r \in S THEN "dropped" ELSE outcome[r]]
           \/ /\ writer'  = Recorded(Appended(writer, Formatted(S, p)))
              /\ outcome' = outcome
    BY <1>0, <1>6, <2>1, SampledType DEF FinishTrace, TypeOK
  <2>4. Formatted(S, p) \in Chunk /\ SpansOf(Formatted(S, p)) = S
    BY <1>0, <2>1, <2>3, FormattedType
  <2>5. /\ \A u \in Trace : u # t => finished[u] \cap S = {}
        /\ finished[t] \subseteq S
    BY <2>1 DEF SpanInv, TraceObjects
  <2>6. S = started[t]
    <3>1. S \subseteq started[t]
      BY <2>1 DEF SpanInv, TraceObjects
    <3>2. IsFiniteSet(started[t])
      BY <1>0, <2>1, PipelineAssumption, FS_Subset DEF TypeOK
    <3> QED BY <2>2, <3>1, <3>2, FS_Subset DEF Complete
  <2>7. \A r \in S : traceOf[r] = t
    BY <2>1 DEF SpanInv, TraceObjects
  <2>8. s \notin Kept \cup Held(writer) \cup Done
    BY <2>1 DEF SpanInv
  <2>9. finished[t] \subseteq Kept
    BY <2>1 DEF Kept
  <2>10. S \cap (Held(writer) \cup Done) = {}
    BY <2>8, <2>9 DEF SpanInv
  <2> HIDE DEF t, S
  <2>11. Kept' = Kept \ S
    BY <2>1, <2>2, <2>5, <2>8 DEF Kept
  <2>12. (Reporting \cap ended)' = (Reporting \cap ended) \cup {s}
    BY <2>1, <2>2 DEF Reporting
  <2>13. TraceObjects'
    <3>1. \A r \in Span \ ended' : traceOf[r] # t
      BY <2>1, <2>2, <2>6 DEF SpanInv, TraceObjects, S
    <3> QED BY <2>1, <2>2, <2>6, <2>7, <3>1 DEF SpanInv, TraceObjects, S
  <2>14. s \in S /\ S \subseteq Kept \cup {s}
    BY <2>9 DEF S
  <2>15. CASE /\ writer'  = Recorded(writer)
              /\ outcome' = [r \in Span |-> IF r \in S THEN "dropped" ELSE outcome[r]]
    <3>1. WriterOK(writer)' /\ Held(writer)' = Held(writer)
      BY <1>w, <2>15, RecordedOK
    <3>2. Done' = Done \cup S
      BY <2>1, <2>15 DEF Done, S
    <3> QED BY <1>0, <2>8, <2>10, <2>11, <2>12, <2>13, <2>14, <3>1, <3>2 DEF SpanInv
  <2>16. CASE /\ writer'  = Recorded(Appended(writer, Formatted(S, p)))
              /\ outcome' = outcome
    <3> DEFINE w == Appended(writer, Formatted(S, p))
    <3>1. WriterOK(w) /\ Held(w) = Held(writer) \cup S
      BY <1>w, <2>4, <2>10, AppendedOK
    <3> HIDE DEF w
    <3>2. WriterOK(writer)' /\ Held(writer)' = Held(writer) \cup S
      BY <2>16, <3>1, RecordedOK DEF w
    <3>3. Done' = Done
      BY <2>16 DEF Done
    <3> QED BY <1>0, <2>8, <2>10, <2>11, <2>12, <2>13, <2>14, <3>2, <3>3 DEF SpanInv
  <2> QED BY <2>3, <2>15, <2>16
<1>7. ASSUME Tick \/ CallFlush \/ BeforeExit
      PROVE  SpanInv'
  <2>1. UNCHANGED <<app, outcome>> /\ writer' \in {writer, Flushed(writer)}
    BY <1>7 DEF Tick, CallFlush, BeforeExit, AtExit, agent
  <2>2. WriterOK(writer)' /\ Held(writer)' = Held(writer)
    BY <1>w, <2>1, FlushedOK, FlushedSpans DEF Held
  <2>3. Done' = Done
    BY <2>1 DEF Done
  <2> QED BY <1>0, <2>1, <2>2, <2>3, SpanInvUnchanged DEF SpanInv
<1>8. ASSUME Exit \/ Kill \/ UNCHANGED vars
      PROVE  SpanInv'
  <2>1. UNCHANGED <<app, writer, outcome>>
    BY <1>8 DEF Exit, Kill, vars, agent
  <2>2. WriterOK(writer)' /\ Held(writer)' = Held(writer) /\ Done' = Done
    BY <1>w, <2>1 DEF Done
  <2> QED BY <1>0, <2>1, <2>2, SpanInvUnchanged DEF SpanInv
<1>9. ASSUME NEW r \in writer.requests, Arrive(r)
      PROVE  SpanInv'
  <2> DEFINE arrived == [r EXCEPT !.arrived = TRUE]
  <2>1. /\ writer'.queue = writer.queue
        /\ writer'.requests = (writer.requests \ {r}) \cup {arrived}
        /\ UNCHANGED <<app, outcome>>
    BY <1>9, <1>w DEF Arrive, Writer
  <2>2. arrived.chunks = r.chunks
    BY <1>w DEF Writer, Request
  <2> HIDE DEF arrived
  <2>3. SpansIn(arrived) = SpansIn(r)
    BY <2>2 DEF SpansIn
  <2>4. Requested(writer)' = Requested(writer)
    BY <2>1, <2>3 DEF Requested
  <2>5. NoTwinRequests(writer.requests)'
    BY <1>w, <2>1, <2>3 DEF WriterOK, NoTwinRequests
  <2>6. WriterOK(writer)'
    BY <1>0, <1>w, <2>1, <2>2, <2>4, <2>5 DEF WriterOK, TypeOK
  <2>7. Held(writer)' = Held(writer) /\ Done' = Done
    BY <2>1, <2>4 DEF Held, Done
  <2> QED BY <1>0, <2>1, <2>6, <2>7, SpanInvUnchanged DEF SpanInv
<1>10. ASSUME NEW r \in writer.requests, Conclude(r)
       PROVE  SpanInv'
  <2>1. PICK fate \in {"ok", "failed", "stalled"} : Concluded(r, fate)
    BY <1>10 DEF Conclude, Succeed, Fail, Stall
  <2>2. UNCHANGED app
    BY <1>10 DEF Conclude, Succeed, Fail, Stall
  <2>3. /\ writer'.queue = writer.queue
        /\ writer'.requests = writer.requests \ {r}
        /\ outcome' = [s \in Span |-> IF s \in SpansIn(r) THEN fate ELSE outcome[s]]
    BY <1>w, <2>1 DEF Concluded, Writer
  <2>4. Requested(writer)' = Requested(writer) \ SpansIn(r) /\ SpansIn(r) \subseteq Requested(writer)
    BY <1>w, <2>3 DEF Requested, WriterOK, NoTwinRequests
  <2>5. WriterOK(writer)'
    BY <1>0, <1>w, <2>3, <2>4 DEF WriterOK, NoTwinRequests, TypeOK
  <2>6. SpansIn(r) \subseteq Span
    BY <1>w, <2>4, RequestedSpans
  <2>7. Done' = Done \cup SpansIn(r)
    BY <2>1, <2>3, <2>6 DEF Done
  <2>8. Held(writer)' = Held(writer) \ SpansIn(r) /\ SpansIn(r) \subseteq Held(writer)
    BY <1>w, <2>3, <2>4 DEF Held, WriterOK
  <2> QED BY <1>0, <2>2, <2>5, <2>7, <2>8, SpanInvUnchanged DEF SpanInv
<1> QED
  BY <1>1, <1>2, <1>3, <1>5, <1>6, <1>7, <1>8, <1>9, <1>10 DEF Next

\* From finish() to the end of its request every span is in one place: no
\* reported span is forgotten, for any number of spans, traces and requests.
THEOREM FinishedOnce == Spec => []OnePlace
<1> QED BY SpanInvInit, SpanInvStep, SpanInvImplies, PTL DEF Spec

\* The two lists of a trace object never drift apart from its spans, so that
\* append's comparison of their lengths asks the right question.
THEOREM ListsAgree == Spec => []TraceObjects
<1> QED BY SpanInvInit, SpanInvStep, SpanInvImplies, PTL DEF Spec

\* No span is ever buffered or submitted twice.
THEOREM NeverTwice == Spec => []SentOnce
<1> QED BY SpanInvInit, SpanInvStep, SpanInvImplies, PTL DEF Spec

----------------------------------------------------------------------------
(***************************************************************************)
(* What the writer holds and what the agent gets of it.                    *)
(***************************************************************************)

\* What the last finish() of a trace does, where SpanInv holds: the spans that
\* leave are all that the trace has, and the writer holds none of them.
Leaves(s, t, p, S) ==
    /\ t = traceOf[s] /\ s \notin ended /\ s \in S
    /\ S \in SUBSET Span /\ S = finished[t] \cup {s} /\ S = started[t]
    /\ \A r \in S : traceOf[r] = t
    /\ S \cap Held(writer) = {} /\ S \cap Done = {}
    /\ Formatted(S, p) \in Chunk /\ SpansOf(Formatted(S, p)) = S
    /\ p \in Sampled(priority[t], tags[s], rate)
    /\ priority' = [priority EXCEPT ![t] = p]
    /\ ended' = ended \cup {s}
    /\ UNCHANGED <<traceOf, drop, rate, injected, received, calls, phase>>
    /\ \/ /\ drop[t]
          /\ writer' = Recorded(writer)
          /\ outcome' = [r \in Span |-> IF r \in S THEN "dropped" ELSE outcome[r]]
       \/ /\ ~drop[t]
          /\ writer' = Recorded(Appended(writer, Formatted(S, p)))
          /\ outcome' = outcome

LEMMA TraceLeaves ==
    ASSUME SpanInv, NEW s \in Span, FinishTrace(s)
    PROVE  \E t \in Trace, p \in Priorities, S \in SUBSET Span : Leaves(s, t, p, S)
<1> DEFINE t == traceOf[s]
           S == finished[t] \cup {s}
<1>0. TypeOK /\ TraceObjects
  BY DEF SpanInv
<1>1. /\ t \in Trace /\ s \in Reporting /\ s \notin ended /\ S \in SUBSET Span
      /\ priority[t] \in Priorities \cup {Undecided} /\ rate \in Rates
  BY <1>0 DEF TypeOK, FinishTrace, Reporting
<1>2. PICK p \in Sampled(priority[t], tags[s], rate) :
        /\ priority' = [priority EXCEPT ![t] = p]
        /\ \/ /\ drop[t]
              /\ writer' = Recorded(writer)
              /\ outcome' = [r \in Span |-> IF r \in S THEN "dropped" ELSE outcome[r]]
           \/ /\ ~drop[t]
              /\ writer' = Recorded(Appended(writer, Formatted(S, p)))
              /\ outcome' = outcome
  BY DEF FinishTrace
<1>3. p \in Priorities
  BY <1>1, <1>2, SampledType
<1>4. S = started[t]
  <2>1. S \subseteq started[t]
    BY <1>0, <1>1 DEF TraceObjects
  <2>2. IsFiniteSet(started[t])
    BY <1>0, <1>1, PipelineAssumption, FS_Subset DEF TypeOK
  <2> QED BY <2>1, <2>2, FS_Subset DEF FinishTrace, Complete
<1>5. \A r \in S : traceOf[r] = t
  BY <1>0, <1>1, <1>4 DEF TraceObjects
<1>6. S \cap Held(writer) = {} /\ S \cap Done = {}
  <2>1. s \notin Held(writer) \cup Done
    BY <1>1 DEF SpanInv
  <2>2. finished[t] \subseteq Kept
    BY <1>1 DEF Kept
  <2> QED BY <2>1, <2>2 DEF SpanInv
<1>7. Formatted(S, p) \in Chunk /\ SpansOf(Formatted(S, p)) = S
  BY <1>0, <1>1, <1>3, FormattedType
<1>8. /\ ended' = ended \cup {s}
      /\ UNCHANGED <<traceOf, drop, rate, injected, received, calls, phase>>
  BY DEF FinishTrace
<1>9. Leaves(s, t, p, S)
  BY <1>1, <1>2, <1>4, <1>5, <1>6, <1>7, <1>8 DEF Leaves
<1> QED BY <1>1, <1>3, <1>9

\* The steps, by what they do to the writer.
LEMMA Steps ==
    ASSUME SpanInv, [Next]_vars
    PROVE  \/ writer' = writer /\ received' = received /\ outcome' = outcome
           \/ (\E s \in Span : FinishEarly(s)) \/ Tick \/ CallFlush \/ BeforeExit
           \/ \E s \in Span, t \in Trace, p \in Priorities, S \in SUBSET Span :
                Leaves(s, t, p, S)
           \/ \E r \in writer.requests : Arrive(r) \/ Conclude(r)
<1>1. ASSUME NEW s \in Span,
             StartSpan(s) \/ DropTrace(s) \/ Inject(s) \/ \E g \in AppTags : SetTag(s, g)
      PROVE  writer' = writer /\ received' = received /\ outcome' = outcome
  BY <1>1 DEF StartSpan, DropTrace, Inject, SetTag, agent
<1>2. ASSUME Exit \/ Kill \/ UNCHANGED vars
      PROVE  writer' = writer /\ received' = received /\ outcome' = outcome
  BY <1>2 DEF Exit, Kill, vars, agent
<1> QED BY <1>1, <1>2, TraceLeaves DEF Next

----------------------------------------------------------------------------
\* The size of the buffer.

Unit == IF Zipkin THEN 1 ELSE SpanBytes

Sized(w) ==
    /\ w.size = Unit * Cardinality(QueuedSpans(w.queue))
    /\ w.size <= MaxSize \/ Len(w.queue) = 1

\* An empty queue takes nothing.
LEMMA EmptySized == ASSUME NEW w, w.queue = <<>>, w.size = 0 PROVE Sized(w)
<1>1. QueuedSpans(<<>>) = {}
  BY DEF QueuedSpans
<1>2. Cardinality(QueuedSpans(w.queue)) = 0
  BY <1>1, FS_EmptySet
<1>3. Unit \in Nat /\ MaxSize \in Nat
  BY PipelineAssumption DEF Unit
<1>4. Unit * 0 = 0
  BY <1>3
<1> QED BY <1>2, <1>3, <1>4 DEF Sized

LEMMA FlushedSized ==
    ASSUME NEW w \in Writer, Sized(w)
    PROVE  Sized(Flushed(w))
<1>1. CASE w.queue = <<>>
  BY <1>1 DEF Flushed
<1>2. CASE w.queue # <<>>
  <2>1. Flushed(w).queue = <<>> /\ Flushed(w).size = 0
    BY <1>2 DEF Flushed
  <2> QED BY <2>1, EmptySized
<1> QED BY <1>1, <1>2

LEMMA AppendedSized ==
    ASSUME NEW w, WriterOK(w), Sized(w), NEW c \in Chunk, SpansOf(c) \cap Held(w) = {}
    PROVE  Sized(Appended(w, c))
<1> DEFINE room == IF EncodedLength(c) + w.size > MaxSize THEN Flushed(w) ELSE w
<1>1. w \in Writer /\ room \in Writer /\ Sized(room)
  BY FlushedSized, FlushedType DEF WriterOK
<1>2. QueuedSpans(room.queue) \subseteq Held(w)
  BY <1>1, FlushedSpans DEF Held
<1>3. /\ Appended(w, c).queue = Append(room.queue, c)
      /\ Appended(w, c).size = room.size + EncodedLength(c)
  BY DEF Appended
<1>4. room.queue = <<>> \/ EncodedLength(c) + room.size <= MaxSize
  <2>1. Flushed(w).queue = <<>>
    BY DEF Flushed
  <2>2. EncodedLength(c) \in Nat /\ w.size \in Nat /\ MaxSize \in Nat
    BY <1>1, LengthType, PipelineAssumption DEF Writer
  <2>3. CASE EncodedLength(c) + w.size > MaxSize
    BY <2>1, <2>3
  <2>4. CASE ~(EncodedLength(c) + w.size > MaxSize)
    BY <2>2, <2>4
  <2> QED BY <2>3, <2>4
<1> HIDE DEF room
<1>5. room.queue \in Seq(Chunk)
  BY <1>1 DEF Writer
<1> DEFINE Q == QueuedSpans(room.queue)
           C == SpansOf(c)
<1>6. Q \in SUBSET Span /\ C \in SUBSET Span
  BY <1>5, QueueSpans, ChunkSpans
<1>7. IsFiniteSet(Q) /\ IsFiniteSet(C)
  BY <1>6, PipelineAssumption, FS_Subset
<1>8. /\ Cardinality(Q) \in Nat /\ Cardinality(C) \in Nat
      /\ Cardinality(Q \cup C) = Cardinality(Q) + Cardinality(C)
  <2>1. Q \cap C = {}
    BY <1>2
  <2>2. Cardinality(Q \cap C) = 0
    BY <2>1, FS_EmptySet
  <2>3. Cardinality(Q) \in Nat /\ Cardinality(C) \in Nat
    BY <1>7, FS_CardinalityType
  <2> HIDE DEF Q, C
  <2>4. Cardinality(Q \cup C) = Cardinality(Q) + Cardinality(C) - Cardinality(Q \cap C)
    BY <1>7, FS_Union
  <2> QED BY <2>2, <2>3, <2>4
<1>9. QueuedSpans(Appended(w, c).queue) = Q \cup C
  BY <1>3, <1>5, AppendSpans
<1>10. EncodedLength(c) = Unit * Cardinality(C) /\ room.size = Unit * Cardinality(Q)
  BY <1>1 DEF EncodedLength, Unit, Sized
<1> HIDE DEF Q, C
<1>11. Appended(w, c).size = Unit * (Cardinality(Q) + Cardinality(C))
  <2>1. Unit \in Nat
    BY PipelineAssumption DEF Unit
  <2>2. \A u, a, b \in Nat : u * a + u * b = u * (a + b)
    OBVIOUS
  <2> QED BY <1>3, <1>8, <1>10, <2>1, <2>2
<1>12. Appended(w, c).size <= MaxSize \/ Len(Appended(w, c).queue) = 1
  <2>1. CASE room.queue = <<>>
    BY <1>3, <2>1
  <2>2. CASE EncodedLength(c) + room.size <= MaxSize
    BY <1>1, <1>3, <2>2, LengthType DEF Writer
  <2> QED BY <1>4, <2>1, <2>2
<1> QED BY <1>8, <1>9, <1>11, <1>12 DEF Sized

LEMMA RecordedSized ==
    ASSUME NEW w \in Writer, Sized(w)
    PROVE  Sized(Recorded(w))
BY FlushedSized DEF Recorded

LEMMA SizedStep == SpanInv /\ Sized(writer) /\ [Next]_vars => Sized(writer)'
<1> SUFFICES ASSUME SpanInv, Sized(writer), [Next]_vars PROVE Sized(writer)'
  OBVIOUS
<1>w. writer \in Writer /\ WriterOK(writer)
  BY DEF SpanInv, TypeOK
<1>1. CASE writer' = writer
  BY <1>1
<1>2. CASE (\E s \in Span : FinishEarly(s)) \/ Tick \/ CallFlush \/ BeforeExit
  <2>1. writer' \in {writer, Flushed(writer)}
    BY <1>2 DEF FinishEarly, Recorded, Tick, CallFlush, BeforeExit, AtExit
  <2> QED BY <1>w, <2>1, FlushedSized
<1>3. ASSUME NEW s \in Span, NEW t \in Trace, NEW p \in Priorities, NEW S \in SUBSET Span,
             Leaves(s, t, p, S)
      PROVE  Sized(writer)'
  <2> DEFINE c == Formatted(S, p)
  <2>1. c \in Chunk /\ SpansOf(c) \cap Held(writer) = {}
    BY <1>3 DEF Leaves
  <2>2. writer' = Recorded(writer) \/ writer' = Recorded(Appended(writer, c))
    BY <1>3 DEF Leaves
  <2> HIDE DEF c
  <2>3. Appended(writer, c) \in Writer /\ Sized(Appended(writer, c))
    BY <1>w, <2>1, AppendedType, AppendedSized
  <2> QED BY <1>w, <2>2, <2>3, RecordedSized
<1>4. ASSUME NEW r \in writer.requests, Arrive(r) \/ Conclude(r)
      PROVE  Sized(writer)'
  <2>1. writer'.queue = writer.queue /\ writer'.size = writer.size
    BY <1>w, <1>4 DEF Arrive, Conclude, Succeed, Fail, Stall, Concluded, Writer
  <2> QED BY <2>1 DEF Sized
<1> QED BY <1>1, <1>2, <1>3, <1>4, Steps

\* _size never drifts from what is queued, and append keeps it within
\* MAX_SIZE but for one trace that is larger by itself, for any sizes.
THEOREM BufferBounded == Spec => []BufferBound
<1>1. Init => Sized(writer)
  BY EmptySized DEF Init
<1>2. Sized(writer) => BufferBound
  BY DEF Sized, BufferBound, Unit, Queued
<1> QED BY <1>1, <1>2, SizedStep, SpanInvInit, SpanInvStep, PTL DEF Spec

----------------------------------------------------------------------------
\* What is exported.

\* The chunks that a writer has, so that Exported is those of the writer.
Chunks(w) ==
    {w.queue[i] : i \in DOMAIN w.queue}
        \cup UNION {{r.chunks[i] : i \in DOMAIN r.chunks} : r \in w.requests}

LEMMA FlushedChunks ==
    ASSUME NEW w \in Writer
    PROVE  Chunks(Flushed(w)) = Chunks(w)
<1>1. CASE w.queue = <<>>
  BY <1>1 DEF Flushed
<1>2. CASE w.queue # <<>>
  <2> DEFINE request == [chunks |-> w.queue, arrived |-> FALSE]
  <2>1. /\ Flushed(w).queue = <<>>
        /\ Flushed(w).requests = w.requests \cup {request}
    BY <1>2 DEF Flushed
  <2>2. request.chunks = w.queue
    OBVIOUS
  <2>3. {(<<>>)[i] : i \in DOMAIN <<>>} = {}
    OBVIOUS
  <2> HIDE DEF request
  <2> QED BY <2>1, <2>2, <2>3 DEF Chunks
<1> QED BY <1>1, <1>2

LEMMA AppendedChunks ==
    ASSUME NEW w \in Writer, NEW c \in Chunk
    PROVE  Chunks(Appended(w, c)) = Chunks(w) \cup {c}
<1> DEFINE room == IF EncodedLength(c) + w.size > MaxSize THEN Flushed(w) ELSE w
<1>1. room \in Writer /\ Chunks(room) = Chunks(w)
  BY FlushedType, FlushedChunks
<1>2. /\ Appended(w, c).queue = Append(room.queue, c)
      /\ Appended(w, c).requests = room.requests
  BY DEF Appended
<1> HIDE DEF room
<1> DEFINE a == Append(room.queue, c)
           q == room.queue
<1>3. /\ DOMAIN a = 1 .. Len(q) + 1 /\ DOMAIN q = 1 .. Len(q) /\ Len(q) \in Nat
      /\ a[Len(q) + 1] = c
      /\ \A i \in DOMAIN q : a[i] = q[i]
  BY <1>1 DEF Writer
<1>4. Appended(w, c).queue = a /\ room.queue = q
  BY <1>2
<1> HIDE DEF a, q
<1>5. DOMAIN a = DOMAIN q \cup {Len(q) + 1}
  BY <1>3
<1>6. {a[i] : i \in DOMAIN a} = {q[i] : i \in DOMAIN q} \cup {c}
  BY <1>3, <1>5
<1> QED BY <1>1, <1>2, <1>4, <1>6 DEF Chunks

LEMMA RecordedChunks ==
    ASSUME NEW w \in Writer
    PROVE  Chunks(Recorded(w)) = Chunks(w)
BY FlushedChunks DEF Recorded

\* Only the last finish() of a trace adds a chunk.
LEMMA ChunksStep ==
    ASSUME SpanInv, [Next]_vars
    PROVE  \/ Chunks(writer)' \subseteq Chunks(writer)
           \/ \E s \in Span, t \in Trace, p \in Priorities, S \in SUBSET Span :
                /\ Leaves(s, t, p, S) /\ ~drop[t]
                /\ Chunks(writer)' = Chunks(writer) \cup {Formatted(S, p)}
<1>w. writer \in Writer
  BY DEF SpanInv, TypeOK
<1>1. CASE writer' = writer
  BY <1>1
<1>2. CASE (\E s \in Span : FinishEarly(s)) \/ Tick \/ CallFlush \/ BeforeExit
  <2>1. writer' \in {writer, Flushed(writer)}
    BY <1>2 DEF FinishEarly, Recorded, Tick, CallFlush, BeforeExit, AtExit
  <2> QED BY <1>w, <2>1, FlushedChunks
<1>3. ASSUME NEW s \in Span, NEW t \in Trace, NEW p \in Priorities, NEW S \in SUBSET Span,
             Leaves(s, t, p, S)
      PROVE  \/ Chunks(writer)' = Chunks(writer)
             \/ ~drop[t] /\ Chunks(writer)' = Chunks(writer) \cup {Formatted(S, p)}
  <2>1. CASE writer' = Recorded(writer)
    BY <1>w, <2>1, RecordedChunks
  <2>2. CASE ~drop[t] /\ writer' = Recorded(Appended(writer, Formatted(S, p)))
    <3> DEFINE c == Formatted(S, p)
    <3>1. c \in Chunk
      BY <1>3 DEF Leaves
    <3>2. writer' = Recorded(Appended(writer, c))
      BY <2>2
    <3> HIDE DEF c
    <3>3. /\ Appended(writer, c) \in Writer
          /\ Chunks(Appended(writer, c)) = Chunks(writer) \cup {c}
      BY <1>w, <3>1, AppendedType, AppendedChunks
    <3>4. Chunks(writer)' = Chunks(writer) \cup {c}
      BY <3>2, <3>3, RecordedChunks
    <3> QED BY <2>2, <3>4 DEF c
  <2> QED BY <1>3, <2>1, <2>2 DEF Leaves
<1>4. ASSUME NEW r \in writer.requests, Arrive(r) \/ Conclude(r)
      PROVE  Chunks(writer)' \subseteq Chunks(writer)
  <2> DEFINE arrived == [r EXCEPT !.arrived = TRUE]
  <2>1. /\ writer'.queue = writer.queue
        /\ writer'.requests \subseteq writer.requests \cup {arrived}
    BY <1>w, <1>4 DEF Arrive, Conclude, Succeed, Fail, Stall, Concluded, Writer
  <2>2. arrived.chunks = r.chunks
    BY <1>w DEF Writer, Request
  <2> HIDE DEF arrived
  <2> QED BY <2>1, <2>2 DEF Chunks
<1> QED BY <1>1, <1>2, <1>3, <1>4, Steps

\* A trace is exported whole and as it was, with the tags that its spans had,
\* and nothing of it is open.
THEOREM WholeTraces == Spec => ExportIsWhole
<1> DEFINE Whole == \A c \in Exported' \ Exported :
                        \E t \in Trace :
                            /\ ~drop[t]
                            /\ SpansOf(c) = started[t]
                            /\ \A s \in Span : traceOf[s] = t => s \in ended'
                            /\ \A s \in SpansOf(c) : c.tags[s] = tags[s]
<1>1. SpanInv /\ [Next]_vars => [Whole]_vars
  <2> SUFFICES ASSUME SpanInv, [Next]_vars, NEW c \in Exported' \ Exported
               PROVE  \E t \in Trace :
                            /\ ~drop[t]
                            /\ SpansOf(c) = started[t]
                            /\ \A s \in Span : traceOf[s] = t => s \in ended'
                            /\ \A s \in SpansOf(c) : c.tags[s] = tags[s]
    OBVIOUS
  <2>1. c \in Chunks(writer)' /\ c \notin Chunks(writer)
    BY DEF Exported, Chunks
  <2>2. PICK s \in Span, t \in Trace, p \in Priorities, S \in SUBSET Span :
           Leaves(s, t, p, S) /\ ~drop[t] /\ c = Formatted(S, p)
    BY <2>1, ChunksStep
  <2>3. SpansOf(c) = S /\ S = started[t] /\ ended' = ended \cup {s} /\ s \in S
    BY <2>2 DEF Leaves
  <2>4. \A r \in Span : traceOf[r] = t => r \in ended'
    <3> SUFFICES ASSUME NEW r \in Span, traceOf[r] = t, r \notin ended PROVE r = s
      BY <2>3
    <3>1. r \in started[t] /\ finished[t] = started[t] \cap ended
      BY DEF SpanInv, TraceObjects
    <3>2. S = finished[t] \cup {s}
      BY <2>2 DEF Leaves
    <3> QED BY <2>3, <3>1, <3>2
  <2>5. \A r \in S : c.tags[r] = tags[r]
    BY <2>2 DEF Formatted
  <2> QED BY <2>2, <2>3, <2>4, <2>5
<1> QED BY <1>1, SpanInvInit, SpanInvStep, PTL DEF Spec, ExportIsWhole

\* What was told of the priority of a trace, to services and to the agent.
Told ==
    /\ \A t \in Trace : injected[t] \subseteq {priority[t]}
    /\ \A c \in Chunks(writer) : \A s \in SpansOf(c) : c.priority = priority[traceOf[s]]

LEMMA ToldImplies == Told => OnePriority
<1> SUFFICES ASSUME Told PROVE OnePriority
  OBVIOUS
<1>1. \A i \in DOMAIN writer.queue : writer.queue[i] \in Chunks(writer)
  BY DEF Chunks
<1>2. \A r \in writer.requests : \A i \in DOMAIN r.chunks : r.chunks[i] \in Chunks(writer)
  BY DEF Chunks
<1> QED BY <1>1, <1>2 DEF Told, OnePriority

\* The spans of a chunk are held, so that they are finished spans of a trace.
LEMMA ChunkHeld ==
    ASSUME SpanInv, NEW c \in Chunks(writer), NEW s \in SpansOf(c)
    PROVE  /\ s \in Span /\ traceOf[s] \in Trace /\ s \in ended
           /\ c.priority \in Priorities
<1>1. s \in Held(writer)
  BY DEF Chunks, Held, QueuedSpans, Requested, SpansIn
<1>2. c \in Chunk
  BY DEF SpanInv, TypeOK, Writer, Request, Chunks
<1> QED BY <1>1, <1>2 DEF SpanInv, Reporting, Chunk

LEMMA ToldStep == SpanInv /\ Told /\ [Next]_vars => Told'
<1> SUFFICES ASSUME SpanInv, Told, [Next]_vars PROVE Told'
  OBVIOUS
<1>0. TypeOK
  BY DEF SpanInv
\* Undecided is no priority, so that whoever was told was told after it.
<1>1. Undecided \notin Priorities
  BY DEF Undecided, Priorities, USER_REJECT, AUTO_REJECT, AUTO_KEEP, USER_KEEP
<1>2. \A t \in Trace : priority'[t] = priority[t] \/ priority[t] = Undecided
  <2>1. ASSUME NEW s \in Span, Inject(s)
        PROVE  \A t \in Trace : priority'[t] = priority[t] \/ priority[t] = Undecided
    BY <1>0, <2>1 DEF Inject, Sampled, TypeOK, Reporting
  <2>2. ASSUME NEW s \in Span, FinishTrace(s)
        PROVE  \A t \in Trace : priority'[t] = priority[t] \/ priority[t] = Undecided
    BY <1>0, <2>2 DEF FinishTrace, Sampled, TypeOK, Reporting
  <2>3. ASSUME NEW s \in Span,
               StartSpan(s) \/ DropTrace(s) \/ FinishEarly(s) \/ \E g \in AppTags : SetTag(s, g)
        PROVE  priority' = priority
    BY <2>3 DEF StartSpan, DropTrace, FinishEarly, SetTag, sampling
  <2>4. ASSUME NEW r \in writer.requests, Arrive(r) \/ Conclude(r)
        PROVE  priority' = priority
    BY <2>4 DEF Arrive, Conclude, Succeed, Fail, Stall, sampling
  <2>5. ASSUME Tick \/ CallFlush \/ BeforeExit \/ Exit \/ Kill \/ UNCHANGED vars
        PROVE  priority' = priority
    BY <2>5 DEF Tick, CallFlush, BeforeExit, Exit, Kill, vars, sampling
  <2> QED BY <2>1, <2>2, <2>3, <2>4, <2>5 DEF Next
<1>3. \A s \in Span : traceOf[s] \in Trace => traceOf'[s] = traceOf[s]
  <2>1. ASSUME NEW s \in Span, StartSpan(s)
        PROVE  \A r \in Span : traceOf[r] \in Trace => traceOf'[r] = traceOf[r]
    BY <1>0, <2>1, PipelineAssumption DEF StartSpan, TypeOK
  <2>2. ASSUME NEW s \in Span,
               \/ DropTrace(s) \/ Inject(s) \/ FinishEarly(s) \/ FinishTrace(s)
               \/ \E g \in AppTags : SetTag(s, g)
        PROVE  traceOf' = traceOf
    BY <2>2 DEF DropTrace, Inject, FinishEarly, FinishTrace, SetTag, app
  <2>3. ASSUME NEW r \in writer.requests, Arrive(r) \/ Conclude(r)
        PROVE  traceOf' = traceOf
    BY <2>3 DEF Arrive, Conclude, Succeed, Fail, Stall, app
  <2>4. ASSUME Tick \/ CallFlush \/ BeforeExit \/ Exit \/ Kill \/ UNCHANGED vars
        PROVE  traceOf' = traceOf
    BY <2>4 DEF Tick, CallFlush, BeforeExit, Exit, Kill, vars, app
  <2> QED BY <2>1, <2>2, <2>3, <2>4 DEF Next
<1>4. \A t \in Trace : injected'[t] \subseteq {priority'[t]}
  <2>1. ASSUME NEW s \in Span, Inject(s)
        PROVE  \A t \in Trace : injected'[t] \subseteq {priority'[t]}
    <3>1. PICK p : /\ priority' = [priority EXCEPT ![traceOf[s]] = p]
                   /\ injected' = [injected EXCEPT ![traceOf[s]] = @ \cup {p}]
      BY <2>1 DEF Inject
    <3>2. \A t \in Trace : injected[t] \subseteq Priorities
      BY <1>0 DEF TypeOK
    <3>3. \A t \in Trace : injected[t] = {} \/ priority'[t] = priority[t]
      BY <1>1, <1>2, <3>2 DEF Told
    <3> QED BY <1>0, <3>1, <3>3 DEF TypeOK, Told
  <2>2. CASE injected' = injected
    <3>1. \A t \in Trace : injected[t] \subseteq Priorities
      BY <1>0 DEF TypeOK
    <3> QED BY <1>1, <1>2, <2>2, <3>1 DEF Told
  <2>3. ASSUME NEW s \in Span,
               \/ StartSpan(s) \/ DropTrace(s) \/ FinishEarly(s) \/ FinishTrace(s)
               \/ \E g \in AppTags : SetTag(s, g)
        PROVE  injected' = injected
    BY <2>3 DEF StartSpan, DropTrace, FinishEarly, FinishTrace, SetTag, sampling
  <2>4. ASSUME NEW r \in writer.requests, Arrive(r) \/ Conclude(r)
        PROVE  injected' = injected
    BY <2>4 DEF Arrive, Conclude, Succeed, Fail, Stall, sampling
  <2>5. ASSUME Tick \/ CallFlush \/ BeforeExit \/ Exit \/ Kill \/ UNCHANGED vars
        PROVE  injected' = injected
    BY <2>5 DEF Tick, CallFlush, BeforeExit, Exit, Kill, vars, sampling
  <2> QED BY <2>1, <2>2, <2>3, <2>4, <2>5 DEF Next
<1>5. ASSUME NEW c \in Chunks(writer), NEW s \in SpansOf(c)
      PROVE  c.priority = priority'[traceOf'[s]]
  BY <1>1, <1>2, <1>3, ChunkHeld DEF Told
<1>6. ASSUME NEW s \in Span, NEW t \in Trace, NEW p \in Priorities, NEW S \in SUBSET Span,
             Leaves(s, t, p, S)
      PROVE  \A r \in SpansOf(Formatted(S, p)) :
                Formatted(S, p).priority = priority'[traceOf'[r]]
  BY <1>0, <1>6 DEF Leaves, Formatted, TypeOK
<1>7. \A c \in Chunks(writer)' : \A s \in SpansOf(c) : c.priority = priority'[traceOf'[s]]
  BY <1>5, <1>6, ChunksStep
<1> QED BY <1>4, <1>7 DEF Told

\* Services and the agent are told one priority of a trace, whoever decides it
\* and whatever happens to tags and rates afterwards.
THEOREM DecidedOnce == Spec => []OnePriority
<1>1. Init => Told
  BY DEF Init, Told, Chunks
<1> QED BY <1>1, ToldImplies, ToldStep, SpanInvInit, SpanInvStep, PTL DEF Spec

----------------------------------------------------------------------------
\* What the agent gets.

\* Between writers w and v new requests are made, none with a span of an old.
Sends(w, v) ==
    /\ w.requests \subseteq v.requests
    /\ \A r \in v.requests \ w.requests : ~r.arrived /\ SpansIn(r) \cap Requested(w) = {}

LEMMA SendsFlushed ==
    ASSUME NEW w, WriterOK(w)
    PROVE  Sends(w, Flushed(w))
<1>1. CASE w.queue = <<>>
  BY <1>1 DEF Flushed, Sends
<1>2. CASE w.queue # <<>>
  <2> DEFINE request == [chunks |-> w.queue, arrived |-> FALSE]
  <2>1. Flushed(w).requests = w.requests \cup {request}
    BY <1>2 DEF Flushed
  <2>2. ~request.arrived /\ SpansIn(request) = QueuedSpans(w.queue)
    BY DEF SpansIn
  <2> HIDE DEF request
  <2> QED BY <2>1, <2>2 DEF WriterOK, Sends
<1> QED BY <1>1, <1>2

LEMMA SendsAfter ==
    ASSUME NEW w, NEW v, NEW u, Sends(w, v), Sends(v, u)
    PROVE  Sends(w, u)
<1>1. Requested(w) \subseteq Requested(v)
  BY DEF Sends, Requested
<1> QED BY <1>1 DEF Sends

LEMMA SendsRecorded ==
    ASSUME NEW w, WriterOK(w)
    PROVE  Sends(w, Recorded(w))
<1>1. Sends(w, w)
  BY DEF Sends
<1> QED BY <1>1, SendsFlushed DEF Recorded

LEMMA SendsAppended ==
    ASSUME NEW w, WriterOK(w), NEW c \in Chunk
    PROVE  Sends(w, Appended(w, c))
<1> DEFINE room == IF EncodedLength(c) + w.size > MaxSize THEN Flushed(w) ELSE w
<1>1. Sends(w, room)
  <2>1. Sends(w, w)
    BY DEF Sends
  <2> QED BY <2>1, SendsFlushed
<1>2. Appended(w, c).requests = room.requests
  BY DEF Appended
<1> HIDE DEF room
<1> QED BY <1>1, <1>2 DEF Sends

\* How often the agent has got a span, by where the span is.
Got ==
    /\ \A s \in Span \ (Requested(writer) \cup Done) : received[s] = 0
    /\ \A r \in writer.requests : \A s \in SpansIn(r) : received[s] = IF r.arrived THEN 1 ELSE 0
    /\ \A s \in Done : /\ received[s] \in {0, 1}
                       /\ outcome[s] = "ok" => received[s] = 1
                       /\ outcome[s] = "dropped" => received[s] = 0

LEMMA GotImplies == SpanInv /\ Got => DeliveredOnce
<1> SUFFICES ASSUME SpanInv, Got, NEW s \in Span
             PROVE  /\ received[s] <= 1
                    /\ outcome[s] = "ok" => received[s] = 1
                    /\ outcome[s] = "dropped" => received[s] = 0
  BY DEF DeliveredOnce
<1>1. received[s] \in {0, 1}
  <2>1. CASE s \in Requested(writer)
    BY <2>1 DEF Got, Requested
  <2>2. CASE s \notin Requested(writer)
    BY <2>2 DEF Got
  <2> QED BY <2>1, <2>2
<1>2. outcome[s] # "none" => s \in Done
  BY DEF Done
<1> QED BY <1>1, <1>2 DEF Got

\* A step that makes requests, and may drop spans that are in none.
LEMMA GotSends ==
    ASSUME SpanInv, SpanInv', Got, received' = received, Sends(writer, writer'),
           NEW S \in SUBSET Span, S \cap Held(writer) = {}, S \cap Done = {},
           outcome' = [r \in Span |-> IF r \in S THEN "dropped" ELSE outcome[r]]
    PROVE  Got'
<1>1. Requested(writer) \subseteq Requested(writer)'
  BY DEF Sends, Requested
<1>2. Done' = Done \cup S
  BY DEF Done
<1>3. \A s \in Span \ (Requested(writer) \cup Done)' : received'[s] = 0
  BY <1>1, <1>2 DEF Got
<1>4. ASSUME NEW r \in writer'.requests, NEW s \in SpansIn(r)
      PROVE  received'[s] = IF r.arrived THEN 1 ELSE 0
  <2>1. CASE r \in writer.requests
    BY <1>4, <2>1 DEF Got
  <2>2. CASE r \notin writer.requests
    <3>1. ~r.arrived /\ s \notin Requested(writer)
      BY <2>2 DEF Sends
    <3>2. s \in Requested(writer)' /\ s \in Span
      <4>1. s \in Requested(writer)'
        BY DEF Requested
      <4> QED BY <4>1, RequestedSpans DEF SpanInv, TypeOK
    <3>3. s \notin Done
      BY <1>2, <3>2 DEF SpanInv, Held
    <3> QED BY <3>1, <3>2, <3>3 DEF Got
  <2> QED BY <2>1, <2>2
<1>5. ASSUME NEW s \in Done'
      PROVE  /\ received'[s] \in {0, 1}
             /\ outcome'[s] = "ok" => received'[s] = 1
             /\ outcome'[s] = "dropped" => received'[s] = 0
  <2>1. s \in Span
    BY <1>2 DEF Done
  <2>2. CASE s \in S
    <3>1. s \notin Requested(writer) /\ s \notin Done
      BY <2>2 DEF Held
    <3> QED BY <2>1, <2>2, <3>1 DEF Got
  <2>3. CASE s \notin S
    BY <1>2, <2>1, <2>3 DEF Got
  <2> QED BY <2>2, <2>3
<1> QED BY <1>3, <1>4, <1>5 DEF Got

LEMMA GotStep == SpanInv /\ Got /\ [Next]_vars => Got'
<1> SUFFICES ASSUME SpanInv, Got, [Next]_vars PROVE Got'
  OBVIOUS
<1>0. TypeOK /\ SpanInv'
  BY SpanInvStep DEF SpanInv
<1>w. writer \in Writer /\ WriterOK(writer)
  BY DEF SpanInv, TypeOK
<1>1. CASE writer' = writer /\ received' = received /\ outcome' = outcome
  BY <1>1 DEF Got, Done
<1>2. CASE (\E s \in Span : FinishEarly(s)) \/ Tick \/ CallFlush \/ BeforeExit
  <2>1. writer' \in {writer, Flushed(writer)} /\ received' = received /\ outcome' = outcome
    BY <1>2 DEF FinishEarly, Recorded, Tick, CallFlush, BeforeExit, AtExit, agent
  <2>2. Sends(writer, writer')
    <3>1. Sends(writer, writer)
      BY DEF Sends
    <3> QED BY <1>w, <2>1, <3>1, SendsFlushed
  <2>3. outcome' = [r \in Span |-> IF r \in {} THEN "dropped" ELSE outcome[r]]
    BY <1>0, <2>1 DEF TypeOK
  <2>4. {} \in SUBSET Span /\ {} \cap Held(writer) = {} /\ {} \cap Done = {}
    OBVIOUS
  <2>5. received' = received
    BY <2>1
  <2> QED BY <1>0, <2>2, <2>3, <2>4, <2>5, GotSends
<1>3. ASSUME NEW s \in Span, NEW t \in Trace, NEW p \in Priorities, NEW S \in SUBSET Span,
             Leaves(s, t, p, S)
      PROVE  Got'
  <2> DEFINE c == Formatted(S, p)
  <2>1. /\ c \in Chunk /\ SpansOf(c) \cap Held(writer) = {}
        /\ received' = received /\ S \cap Held(writer) = {} /\ S \cap Done = {}
    BY <1>3 DEF Leaves
  <2>2. CASE writer' = Recorded(writer)
             /\ outcome' = [r \in Span |-> IF r \in S THEN "dropped" ELSE outcome[r]]
    BY <1>0, <1>w, <2>1, <2>2, SendsRecorded, GotSends
  <2>3. CASE writer' = Recorded(Appended(writer, c)) /\ outcome' = outcome
    <3>1. outcome' = [r \in Span |-> IF r \in {} THEN "dropped" ELSE outcome[r]]
      BY <1>0, <2>3 DEF TypeOK
    <3> HIDE DEF c
    <3>2. WriterOK(Appended(writer, c))
      BY <1>w, <2>1, AppendedOK
    <3>3. Sends(writer, Appended(writer, c)) /\ Sends(Appended(writer, c), writer')
      BY <1>w, <2>1, <2>3, <3>2, SendsAppended, SendsRecorded
    <3>4. Sends(writer, writer')
      BY <3>3, SendsAfter
    <3> QED BY <1>0, <2>1, <3>1, <3>4, GotSends
  <2> QED BY <1>3, <2>2, <2>3 DEF Leaves
<1>4. ASSUME NEW r \in writer.requests, Arrive(r)
      PROVE  Got'
  <2> DEFINE arrived == [r EXCEPT !.arrived = TRUE]
  <2>1. /\ writer'.requests = (writer.requests \ {r}) \cup {arrived}
        /\ ~r.arrived /\ outcome' = outcome
        /\ received' = [s \in Span |-> IF s \in SpansIn(r) THEN received[s] + 1 ELSE received[s]]
    BY <1>w, <1>4 DEF Arrive, Writer
  <2>2. arrived.chunks = r.chunks /\ arrived.arrived
    BY <1>w DEF Writer, Request
  <2> HIDE DEF arrived
  <2>3. SpansIn(arrived) = SpansIn(r)
    BY <2>2 DEF SpansIn
  <2>4. Requested(writer)' = Requested(writer) /\ Done' = Done
    BY <2>1, <2>3 DEF Requested, Done
  <2>5. SpansIn(r) \subseteq Requested(writer) /\ Requested(writer) \cap Done = {}
        /\ Requested(writer) \subseteq Span
    <3>1. SpansIn(r) \subseteq Requested(writer)
      BY DEF Requested
    <3>2. Requested(writer) \cap Done = {}
      BY DEF SpanInv, Held
    <3> QED BY <1>w, <3>1, <3>2, RequestedSpans
  <2>6. \A s \in Span \ (Requested(writer) \cup Done)' : received'[s] = 0
    BY <2>1, <2>4, <2>5 DEF Got
  <2>7. ASSUME NEW x \in writer'.requests, NEW s \in SpansIn(x)
        PROVE  received'[s] = IF x.arrived THEN 1 ELSE 0
    <3>0. x \in writer.requests \/ SpansIn(x) = SpansIn(r)
      BY <2>1, <2>3
    <3>1. s \in Span
      BY <2>5, <3>0 DEF Requested
    <3>2. CASE s \in SpansIn(r)
      <4>1. received'[s] = 1
        BY <2>1, <3>1, <3>2 DEF Got
      <4>2. x = arrived
        BY <1>w, <2>1, <3>2 DEF WriterOK, NoTwinRequests
      <4> QED BY <2>2, <4>1, <4>2
    <3>3. CASE s \notin SpansIn(r)
      <4>1. x \in writer.requests
        BY <2>1, <2>3, <3>3
      <4> QED BY <2>1, <3>1, <3>3, <4>1 DEF Got
    <3> QED BY <3>2, <3>3
  <2>8. ASSUME NEW s \in Done'
        PROVE  /\ received'[s] \in {0, 1}
               /\ outcome'[s] = "ok" => received'[s] = 1
               /\ outcome'[s] = "dropped" => received'[s] = 0
    <3>1. s \in Done /\ s \in Span /\ s \notin SpansIn(r)
      BY <2>4, <2>5 DEF Done
    <3> QED BY <2>1, <3>1 DEF Got
  <2> QED BY <2>6, <2>7, <2>8 DEF Got
<1>5. ASSUME NEW r \in writer.requests, Conclude(r)
      PROVE  Got'
  <2>1. PICK fate \in {"ok", "failed", "stalled"} :
           Concluded(r, fate) /\ (fate = "ok" => r.arrived)
    BY <1>5 DEF Conclude, Succeed, Fail, Stall
  <2>2. /\ received' = received
        /\ writer'.requests = writer.requests \ {r}
        /\ outcome' = [s \in Span |-> IF s \in SpansIn(r) THEN fate ELSE outcome[s]]
    BY <1>w, <1>5, <2>1 DEF Conclude, Succeed, Fail, Stall, Concluded, Writer
  <2>3. SpansIn(r) \subseteq Requested(writer) /\ Requested(writer) \subseteq Span
    <3>1. SpansIn(r) \subseteq Requested(writer)
      BY DEF Requested
    <3> QED BY <1>w, <3>1, RequestedSpans
  <2>4. Requested(writer) \subseteq Requested(writer)' \cup SpansIn(r)
    BY <2>2 DEF Requested
  <2>5. Done' = Done \cup SpansIn(r)
    BY <2>1, <2>2, <2>3 DEF Done
  <2>6. \A s \in Span \ (Requested(writer) \cup Done)' : received'[s] = 0
    BY <2>2, <2>4, <2>5 DEF Got
  <2>7. \A x \in writer'.requests : \A s \in SpansIn(x) :
            received'[s] = IF x.arrived THEN 1 ELSE 0
    BY <2>2 DEF Got
  <2>8. ASSUME NEW s \in Done'
        PROVE  /\ received'[s] \in {0, 1}
               /\ outcome'[s] = "ok" => received'[s] = 1
               /\ outcome'[s] = "dropped" => received'[s] = 0
    <3>1. s \in Span
      BY DEF Done
    <3>2. CASE s \in SpansIn(r)
      BY <2>1, <2>2, <3>1, <3>2 DEF Got
    <3>3. CASE s \notin SpansIn(r)
      BY <2>2, <2>5, <3>1, <3>3 DEF Got
    <3> QED BY <3>2, <3>3
  <2> QED BY <2>6, <2>7, <2>8 DEF Got
<1> QED BY <1>1, <1>2, <1>3, <1>4, <1>5, Steps

\* The agent gets a span at most once, whatever becomes of requests, answers
\* and timeouts, and one whose request succeeded it did get.
THEOREM AtMostOnce == Spec => []DeliveredOnce
<1>1. Init => Got
  BY DEF Init, Got, Done
<1> QED BY <1>1, GotImplies, GotStep, SpanInvInit, SpanInvStep, PTL DEF Spec

----------------------------------------------------------------------------
\* The promise of flush(), and the end of the process.

\* What a call of flush() found has left the buffer for good: it is in a
\* request or done with, and it is in the request that the promise stands for
\* unless it was in flight before.
Flushes ==
    \A c \in calls : /\ c.unsent \subseteq Requested(writer) \cup Done
                     /\ c.unsent \subseteq c.earlier \cup c.awaits

LEMMA FlushesImply == SpanInv /\ Flushes => FlushTakesAll
<1> SUFFICES ASSUME SpanInv, Flushes, NEW c \in calls
             PROVE  /\ c.unsent \cap Queued = {}
                    /\ Settled(c) => c.unsent \cap InFlight \subseteq c.earlier
  BY DEF FlushTakesAll
<1>1. OnePlace
  BY SpanInvImplies
<1>2. c.unsent \cap Queued = {}
  BY <1>1 DEF Flushes, OnePlace, InFlight
<1>3. ASSUME Settled(c), NEW s \in c.unsent \cap InFlight
      PROVE  s \in c.earlier
  <2>1. s \in Span
    BY <1>3, RequestedSpans DEF SpanInv, TypeOK, InFlight
  <2>2. s \in c.awaits => s \in Done
    BY <1>3, <2>1 DEF Settled, Done
  <2>3. s \notin Done
    BY <1>1, <1>3 DEF OnePlace
  <2> QED BY <1>3, <2>2, <2>3 DEF Flushes
<1> QED BY <1>2, <1>3

\* What is in a request stays there until it is done with.
LEMMA StaysSent ==
    ASSUME SpanInv, [Next]_vars
    PROVE  Requested(writer) \cup Done \subseteq Requested(writer)' \cup Done'
<1>w. writer \in Writer /\ WriterOK(writer)
  BY DEF SpanInv, TypeOK
<1>1. CASE writer' = writer /\ outcome' = outcome
  BY <1>1 DEF Done
<1>2. ASSUME Sends(writer, writer'), Done \subseteq Done'
      PROVE  Requested(writer) \cup Done \subseteq Requested(writer)' \cup Done'
  BY <1>2 DEF Sends, Requested
<1>3. CASE (\E s \in Span : FinishEarly(s)) \/ Tick \/ CallFlush \/ BeforeExit
  <2>1. writer' \in {writer, Recorded(writer), Flushed(writer)} /\ outcome' = outcome
    BY <1>3 DEF FinishEarly, Tick, CallFlush, BeforeExit, AtExit, agent
  <2>2. Sends(writer, writer)
    BY DEF Sends
  <2>3. Sends(writer, writer')
    BY <1>w, <2>1, <2>2, SendsRecorded, SendsFlushed
  <2> QED BY <1>2, <2>1, <2>3 DEF Done
<1>4. ASSUME NEW s \in Span, NEW t \in Trace, NEW p \in Priorities, NEW S \in SUBSET Span,
             Leaves(s, t, p, S)
      PROVE  Requested(writer) \cup Done \subseteq Requested(writer)' \cup Done'
  <2>1. Formatted(S, p) \in Chunk /\ SpansOf(Formatted(S, p)) \cap Held(writer) = {}
    BY <1>4 DEF Leaves
  <2>2. CASE writer' = Recorded(writer)
                /\ outcome' = [r \in Span |-> IF r \in S THEN "dropped" ELSE outcome[r]]
    <3>1. Sends(writer, writer')
      BY <1>w, <2>2, SendsRecorded
    <3>2. Done \subseteq Done'
      BY <2>2 DEF Done
    <3> QED BY <1>2, <3>1, <3>2
  <2>3. CASE writer' = Recorded(Appended(writer, Formatted(S, p))) /\ outcome' = outcome
    <3>1. Sends(writer, Appended(writer, Formatted(S, p)))
      BY <1>w, <2>1, SendsAppended
    <3>2. WriterOK(Appended(writer, Formatted(S, p)))
      BY <1>w, <2>1, AppendedOK
    <3>3. Sends(writer, writer')
      BY <2>3, <3>1, <3>2, SendsRecorded, SendsAfter
    <3> QED BY <1>2, <2>3, <3>3 DEF Done
  <2> QED BY <1>4, <2>2, <2>3 DEF Leaves
<1>5. ASSUME NEW r \in writer.requests, Arrive(r)
      PROVE  Requested(writer) \cup Done \subseteq Requested(writer)' \cup Done'
  <2> DEFINE got == [r EXCEPT !.arrived = TRUE]
  <2>1. /\ writer'.requests = (writer.requests \ {r}) \cup {got} /\ outcome' = outcome
    BY <1>w, <1>5 DEF Arrive, Writer
  <2>2. SpansIn(got) = SpansIn(r)
    BY <1>w DEF SpansIn, Writer, Request
  <2> HIDE DEF got
  <2> QED BY <2>1, <2>2 DEF Requested, Done
<1>6. ASSUME NEW r \in writer.requests, Conclude(r)
      PROVE  Requested(writer) \cup Done \subseteq Requested(writer)' \cup Done'
  <2>1. PICK fate \in {"ok", "failed", "stalled"} : Concluded(r, fate)
    BY <1>6 DEF Conclude, Succeed, Fail, Stall
  <2>2. /\ writer'.requests = writer.requests \ {r}
        /\ outcome' = [s \in Span |-> IF s \in SpansIn(r) THEN fate ELSE outcome[s]]
    BY <1>w, <2>1 DEF Concluded, Writer
  <2>3. SpansIn(r) \subseteq Span
    <3>1. SpansIn(r) \subseteq Requested(writer)
      BY DEF Requested
    <3> QED BY <1>w, <3>1, RequestedSpans
  <2>4. Done' = Done \cup SpansIn(r)
    BY <2>1, <2>2, <2>3 DEF Done
  <2>5. Requested(writer) \subseteq Requested(writer)' \cup SpansIn(r)
    BY <2>2 DEF Requested
  <2> QED BY <2>4, <2>5
<1> QED BY <1>1, <1>3, <1>4, <1>5, <1>6, Steps

LEMMA FlushesStep == SpanInv /\ Flushes /\ [Next]_vars => Flushes'
<1> SUFFICES ASSUME SpanInv, Flushes, [Next]_vars PROVE Flushes'
  OBVIOUS
<1>w. writer \in Writer /\ WriterOK(writer)
  BY DEF SpanInv, TypeOK
<1>1. Requested(writer) \cup Done \subseteq Requested(writer)' \cup Done'
  BY StaysSent
<1>2. CASE calls' = calls
  BY <1>1, <1>2 DEF Flushes
<1>3. CASE CallFlush
  <2> DEFINE new == [awaits |-> Awaited(writer), unsent |-> Queued \cup InFlight,
                     earlier |-> InFlight]
  <2>1. calls' = calls \cup {new} /\ writer' = Flushed(writer)
    BY <1>3 DEF CallFlush
  <2>2. /\ new.unsent = Queued \cup InFlight /\ new.earlier = InFlight
        /\ new.awaits = Awaited(writer)
    OBVIOUS
  <2> HIDE DEF new
  <2>3. Requested(writer)' = Held(writer) /\ Requested(writer)' = Requested(Flushed(writer))
    BY <1>w, <2>1, FlushedSpans
  <2>4. new.unsent \subseteq Requested(writer)'
    BY <2>2, <2>3 DEF Held, Queued, InFlight
  <2>5. new.unsent \subseteq new.earlier \cup new.awaits
    <3> SUFFICES ASSUME NEW s \in Requested(Flushed(writer)), s \notin Requested(writer)
                 PROVE  s \in Awaited(writer)
      BY <2>2, <2>3, <2>4 DEF InFlight
    <3>1. PICK r \in Flushed(writer).requests : s \in SpansIn(r)
      BY DEF Requested
    <3>2. r \notin writer.requests
      BY <3>1 DEF Requested
    <3> QED BY <3>1, <3>2 DEF Awaited
  <2> QED BY <1>1, <2>1, <2>4, <2>5 DEF Flushes
<1>4. ASSUME NEW s \in Span,
             \/ StartSpan(s) \/ DropTrace(s) \/ Inject(s) \/ FinishEarly(s) \/ FinishTrace(s)
             \/ \E g \in AppTags : SetTag(s, g)
      PROVE  calls' = calls
  BY <1>4 DEF StartSpan, DropTrace, Inject, FinishEarly, FinishTrace, SetTag
<1>5. ASSUME NEW r \in writer.requests, Arrive(r) \/ Conclude(r)
      PROVE  calls' = calls
  BY <1>5 DEF Arrive, Conclude, Succeed, Fail, Stall
<1>6. CASE Tick \/ BeforeExit \/ Exit \/ Kill \/ UNCHANGED vars
  BY <1>2, <1>6 DEF Tick, BeforeExit, Exit, Kill, vars
<1> QED BY <1>2, <1>3, <1>4, <1>5, <1>6 DEF Next

\* What was unsent when tracer.flush() was called is not buffered again, and
\* what is still on its way once the promise is settled was so at the call.
THEOREM FlushTakes == Spec => []FlushTakesAll
<1>1. Init => Flushes
  BY DEF Init, Flushes
<1> QED BY <1>1, FlushesImply, FlushesStep, SpanInvInit, SpanInvStep, PTL DEF Spec

\* Nothing stays in the buffer without an interval, nor from the exit listener
\* on if the application has no more work.
Drained ==
    /\ ~HasScheduler => writer.queue = <<>>
    /\ phase \in {"exiting", "exited"} => writer.queue = <<>>

LEMMA DrainedStep ==
    ASSUME ~AppResumes, TypeOK, Drained, [Next]_vars
    PROVE  Drained'
<1>w. writer \in Writer /\ phase \in {"running", "exiting", "exited", "killed"}
  BY DEF TypeOK
<1>1. \A w : (~HasScheduler => Recorded(w).queue = <<>>) /\ Flushed(w).queue = <<>>
  BY DEF Recorded, Flushed
<1>2. ASSUME NEW s \in Span, FinishEarly(s) \/ FinishTrace(s)
      PROVE  Drained'
  <2>1. phase' = phase /\ phase = "running"
    BY <1>2 DEF FinishEarly, FinishTrace, Running
  <2>2. writer' = writer \/ \E w : writer' = Recorded(w)
    BY <1>2 DEF FinishEarly, FinishTrace
  <2> QED BY <1>1, <2>1, <2>2 DEF Drained
<1>3. ASSUME NEW s \in Span,
             StartSpan(s) \/ DropTrace(s) \/ Inject(s) \/ \E g \in AppTags : SetTag(s, g)
      PROVE  Drained'
  BY <1>3 DEF StartSpan, DropTrace, Inject, SetTag, Drained
<1>4. CASE Tick \/ CallFlush
  BY <1>1, <1>4 DEF Tick, CallFlush, Drained
<1>5. CASE BeforeExit
  BY <1>1, <1>5 DEF BeforeExit, AtExit, Drained
<1>6. CASE Exit \/ Kill \/ UNCHANGED vars
  BY <1>6 DEF Exit, Kill, vars, Drained
<1>7. ASSUME NEW r \in writer.requests, Arrive(r) \/ Conclude(r)
      PROVE  Drained'
  <2>1. writer'.queue = writer.queue /\ phase' = phase
    BY <1>w, <1>7 DEF Arrive, Conclude, Succeed, Fail, Stall, Concluded, Writer
  <2> QED BY <2>1 DEF Drained
<1> QED BY <1>2, <1>3, <1>4, <1>5, <1>6, <1>7 DEF Next

\* A process that ends because nothing is left to do leaves nothing in the
\* buffer, if the application starts no work when it is told of the end.
THEOREM NothingLeftBehind ==
    ASSUME ~AppResumes
    PROVE  Spec => []GracefulExit
<1>1. Init => Drained
  BY DEF Init, Drained
<1>2. TypeOK /\ Drained /\ [Next]_vars => Drained'
  BY DrainedStep
<1>3. Drained => GracefulExit
  BY DEF Drained, GracefulExit
<1> QED BY <1>1, <1>2, <1>3, InitType, TypeStep, PTL DEF Spec

----------------------------------------------------------------------------
(***************************************************************************)
(* TracePipeline implements SpanReporting.                                 *)
(***************************************************************************)

\* Without an interval every record flushes, so that nothing is ever queued.
Immediate == ~HasScheduler => writer.queue = <<>>

LEMMA ImmediateStep == TypeOK /\ Immediate /\ [Next]_vars => Immediate'
<1> SUFFICES ASSUME TypeOK, Immediate, [Next]_vars PROVE Immediate'
  OBVIOUS
<1>w. writer \in Writer
  BY DEF TypeOK
<1>1. \A w : (~HasScheduler => Recorded(w).queue = <<>>) /\ Flushed(w).queue = <<>>
  BY DEF Recorded, Flushed
<1>2. ASSUME NEW s \in Span, FinishEarly(s) \/ FinishTrace(s)
      PROVE  Immediate'
  <2>1. writer' = writer \/ \E w : writer' = Recorded(w)
    BY <1>2 DEF FinishEarly, FinishTrace
  <2> QED BY <1>1, <2>1 DEF Immediate
<1>3. ASSUME NEW s \in Span,
             StartSpan(s) \/ DropTrace(s) \/ Inject(s) \/ \E g \in AppTags : SetTag(s, g)
      PROVE  Immediate'
  BY <1>3 DEF StartSpan, DropTrace, Inject, SetTag, Immediate
<1>4. CASE Tick \/ CallFlush \/ BeforeExit
  BY <1>1, <1>4 DEF Tick, CallFlush, BeforeExit, AtExit, Immediate
<1>5. CASE Exit \/ Kill \/ UNCHANGED vars
  BY <1>5 DEF Exit, Kill, vars, Immediate
<1>6. ASSUME NEW r \in writer.requests, Arrive(r) \/ Conclude(r)
      PROVE  Immediate'
  <2>1. writer'.queue = writer.queue
    BY <1>w, <1>6 DEF Arrive, Conclude, Succeed, Fail, Stall, Concluded, Writer
  <2> QED BY <2>1 DEF Immediate
<1> QED BY <1>2, <1>3, <1>4, <1>5, <1>6 DEF Next

----------------------------------------------------------------------------
\* The stage of a span is known by where it is.

Places ==
    \A s \in Span :
        /\ s \notin Reporting => Stage(s) = "absent"
        /\ s \in Reporting \ ended => Stage(s) = "open"
        /\ s \in Kept => Stage(s) = "finished"
        /\ s \in Queued => Stage(s) = "queued"
        /\ s \in InFlight => Stage(s) = "sent"
        /\ s \in Done => Stage(s) = IF outcome[s] = "dropped" THEN "dropped" ELSE "settled"
        /\ s \in Reporting \cap ended <=> s \in Kept \cup Queued \cup InFlight \cup Done

LEMMA PlacesNow == SpanInv => Places
<1> SUFFICES ASSUME SpanInv PROVE Places
  OBVIOUS
<1>1. \A s \in Span : outcome[s] \in {"none", "dropped", "ok", "failed", "stalled"}
  BY DEF SpanInv, TypeOK
<1>2. Held(writer) = Queued \cup InFlight /\ Queued \cap InFlight = {}
  BY DEF Held, Queued, InFlight, SpanInv, WriterOK
<1>3. /\ Reporting \cap ended = Kept \cup Queued \cup InFlight \cup Done
      /\ Kept \cap (Queued \cup InFlight) = {} /\ Kept \cap Done = {}
      /\ (Queued \cup InFlight) \cap Done = {}
  BY <1>2 DEF SpanInv
<1> QED BY <1>1, <1>2, <1>3 DEF Places, Stage, Done

LEMMA PlacesNext == SpanInv' => Places'
<1> SUFFICES ASSUME SpanInv' PROVE Places'
  OBVIOUS
<1>1. \A s \in Span : outcome'[s] \in {"none", "dropped", "ok", "failed", "stalled"}
  BY DEF SpanInv, TypeOK
<1>2. Held(writer)' = Queued' \cup InFlight' /\ Queued' \cap InFlight' = {}
  BY DEF Held, Queued, InFlight, SpanInv, WriterOK
<1>3. /\ Reporting' \cap ended' = Kept' \cup Queued' \cup InFlight' \cup Done'
      /\ Kept' \cap (Queued' \cup InFlight') = {} /\ Kept' \cap Done' = {}
      /\ (Queued' \cup InFlight') \cap Done' = {}
  BY <1>2 DEF SpanInv
<1> QED BY <1>1, <1>2, <1>3 DEF Places, Stage, Done

\* The mapped variables.
Life == [s \in Span |-> Stage(s)]
Home == [s \in Span |-> IF s \in Reporting THEN traceOf[s] ELSE "absent"]

LEMMA SameStages ==
    ASSUME Reporting' = Reporting, (Reporting \cap ended)' = Reporting \cap ended,
           outcome' = outcome, Queued' = Queued, InFlight' = InFlight
    PROVE  Life' = Life
BY DEF Life, Stage

\* A step that moves a set of spans from the queue to a request, or none.
LEMMA FlushMoves ==
    ASSUME SpanInv, UNCHANGED <<app, outcome>>, writer' \in {writer, Flushed(writer)}, SpanInv'
    PROVE  Promise!Submit \/ UNCHANGED <<Life, Home>>
<1>0. writer \in Writer
  BY DEF SpanInv, TypeOK
<1>1. Home' = Home /\ Reporting' = Reporting /\ ended' = ended /\ Kept' = Kept /\ Done' = Done
  BY DEF app, Home, Reporting, Kept, Done
<1>2. CASE writer' = writer
  <2>1. Queued' = Queued /\ InFlight' = InFlight
    BY <1>2 DEF Queued, InFlight
  <2> QED BY <1>1, <2>1, SameStages
<1>3. CASE writer' = Flushed(writer)
  <2>1. Queued' = {} /\ InFlight' = Queued \cup InFlight
    BY <1>0, <1>3, FlushedSpans DEF Queued, InFlight, Held
  <2>2. Life' = [r \in Span |-> IF Life[r] = "queued" THEN "sent" ELSE Life[r]]
    BY <1>1, <2>1, PlacesNow, PlacesNext DEF Places, Life
  <2> QED BY <1>1, <2>2 DEF Promise!Submit, Life, Home
<1> QED BY <1>2, <1>3

----------------------------------------------------------------------------
\* The steps of the application.

LEMMA StartsBegin ==
    ASSUME SpanInv, SpanInv', NEW s \in Span, StartSpan(s)
    PROVE  Promise!Begin(s) \/ UNCHANGED <<Life, Home>>
<1>0. TypeOK
  BY DEF SpanInv
<1>1. PICK t \in Trace \cup {"noop", "silent"} : traceOf' = [traceOf EXCEPT ![s] = t]
  <2>1. PICK ref \in References, b \in IsSampled(SampleRate) :
           \E t \in Homes(ref, b) : traceOf' = [traceOf EXCEPT ![s] = t]
    BY DEF StartSpan
  <2>2. b \in BOOLEAN
    BY <2>1 DEF IsSampled
  <2> QED BY <1>0, <2>1, <2>2, HomesType
<1>2. /\ traceOf[s] = "absent" /\ s \notin Reporting /\ s \notin ended
      /\ ended' = ended /\ writer' = writer /\ outcome' = outcome /\ finished' = finished
      /\ Queued' = Queued /\ InFlight' = InFlight
  BY <1>0, PipelineAssumption DEF StartSpan, agent, Queued, InFlight, Reporting, TypeOK
<1>3. CASE t \in Trace
  <2>1. Reporting' = Reporting \cup {s}
    BY <1>0, <1>1, <1>2, <1>3 DEF Reporting, TypeOK
  <2>2. Life[s] = "absent" /\ Life' = [Life EXCEPT ![s] = "open"]
    <3>1. \A r \in Span : r # s => Stage(r)' = Stage(r)
      BY <1>2, <2>1 DEF Stage
    <3>2. s \in Reporting' \ ended'
      BY <1>2, <2>1
    <3>3. Stage(s) = "absent" /\ Stage(s)' = "open"
      BY <1>2, <3>2, PlacesNow, PlacesNext DEF Places
    <3> QED BY <3>1, <3>3 DEF Life
  <2>3. Home' = [Home EXCEPT ![s] = t]
    BY <1>0, <1>1, <1>2, <1>3, <2>1 DEF Home, TypeOK
  <2> QED BY <1>3, <2>2, <2>3 DEF Promise!Begin, Life, Home
<1>4. CASE t \in {"noop", "silent"}
  <2>1. t \notin Trace
    BY <1>4, PipelineAssumption
  <2>2. Reporting' = Reporting
    BY <1>0, <1>1, <1>2, <2>1 DEF Reporting, TypeOK
  <2>3. Life' = Life
    BY <1>2, <2>2, SameStages
  <2>4. Home' = Home
    BY <1>0, <1>1, <1>2, <2>2 DEF Home, TypeOK
  <2> QED BY <2>3, <2>4
<1> QED BY <1>1, <1>3, <1>4

LEMMA EarlyEnds ==
    ASSUME SpanInv, SpanInv', Immediate, NEW s \in Span, FinishEarly(s)
    PROVE  Promise!End(s) \/ UNCHANGED <<Life, Home>>
<1>0. TypeOK
  BY DEF SpanInv
<1>1. /\ traceOf' = traceOf /\ outcome' = outcome /\ s \notin ended /\ ended' = ended \cup {s}
      /\ Reporting' = Reporting /\ Home' = Home
  BY DEF FinishEarly, agent, Reporting, Home
<1>2. writer' = writer
  BY DEF FinishEarly, Recorded, Immediate, Flushed
<1>3. Queued' = Queued /\ InFlight' = InFlight
  BY <1>2 DEF Queued, InFlight
<1>4. CASE s \notin Reporting
  <2>1. (Reporting \cap ended)' = Reporting \cap ended
    BY <1>1, <1>4
  <2> QED BY <1>1, <1>3, <2>1, SameStages
<1>5. CASE s \in Reporting
  <2> DEFINE t == traceOf[s]
  <2>1. t \in Trace /\ ~Complete(t, finished[t] \cup {s})
    BY <1>5 DEF FinishEarly, Reporting
  <2>2. /\ \A r \in started[t] : traceOf[r] = t
        /\ finished[t] = started[t] \cap ended
        /\ s \in started[t] /\ started[t] \subseteq Span
    BY <1>0, <1>1, <2>1 DEF SpanInv, TraceObjects, TypeOK
  <2>3. PICK r \in started[t] : r \notin finished[t] \cup {s}
    <3>1. finished[t] \cup {s} \subseteq started[t]
      BY <2>2
    <3>2. finished[t] \cup {s} # started[t]
      BY <2>1 DEF Complete
    <3> QED BY <3>1, <3>2
  <2>4. Life[r] = "open" /\ Home[r] = Home[s] /\ r # s /\ r \in Span
    <3>1. r \in Span /\ r \in Reporting \ ended /\ traceOf[r] = t
      BY <2>1, <2>2, <2>3 DEF Reporting
    <3> QED BY <1>5, <2>3, <3>1, PlacesNow DEF Places, Life, Home
  <2>5. Life[s] = "open" /\ Life' = [Life EXCEPT ![s] = "finished"]
    <3>1. \A q \in Span : q # s => Stage(q)' = Stage(q)
      BY <1>1, <1>3 DEF Stage
    <3>2. s \notin Kept \cup Queued \cup InFlight \cup Done /\ Stage(s) = "open"
      BY <1>1, <1>5, PlacesNow DEF Places
    <3>3. Done' = Done /\ s \in (Reporting \cap ended)'
      BY <1>1, <1>5 DEF Done
    <3>4. Stage(s)' = "finished"
      BY <1>3, <3>2, <3>3, PlacesNext DEF Places
    <3> QED BY <3>1, <3>2, <3>4 DEF Life
  <2> QED BY <1>1, <2>4, <2>5 DEF Promise!End, Promise!LastOpen, Promise!At, Life, Home
<1> QED BY <1>4, <1>5

LEMMA ConcludeSettles ==
    ASSUME SpanInv, SpanInv', NEW r \in writer.requests, Conclude(r)
    PROVE  Promise!Settle
<1>0. writer \in Writer /\ WriterOK(writer)
  BY DEF SpanInv, TypeOK
<1>1. PICK fate \in {"ok", "failed", "stalled"} : Concluded(r, fate)
  BY DEF Conclude, Succeed, Fail, Stall
<1>2. UNCHANGED app
  BY DEF Conclude, Succeed, Fail, Stall
<1>3. /\ writer'.queue = writer.queue /\ writer'.requests = writer.requests \ {r}
      /\ outcome' = [s \in Span |-> IF s \in SpansIn(r) THEN fate ELSE outcome[s]]
      /\ Queued' = Queued /\ Home' = Home /\ Reporting' = Reporting /\ ended' = ended
  BY <1>0, <1>1, <1>2 DEF Concluded, Writer, Queued, app, Home, Reporting
<1>4. SpansIn(r) \subseteq InFlight /\ InFlight \subseteq Span
  BY <1>0, RequestedSpans DEF InFlight, Requested
<1>5. InFlight' = InFlight \ SpansIn(r)
  BY <1>0, <1>3 DEF InFlight, Requested, WriterOK, NoTwinRequests
<1>6. \A s \in Span : Stage(s)' = IF s \in SpansIn(r) THEN "settled" ELSE Stage(s)
  <2>1. ASSUME NEW s \in Span, s \in SpansIn(r)
        PROVE  Stage(s)' = "settled"
    <3>1. s \in Done' /\ outcome'[s] # "dropped"
      BY <1>1, <1>3, <2>1 DEF Done
    <3> QED BY <3>1, PlacesNext DEF Places
  <2>2. ASSUME NEW s \in Span, s \notin SpansIn(r)
        PROVE  Stage(s)' = Stage(s)
    BY <1>3, <1>5, <2>2 DEF Stage
  <2> QED BY <2>1, <2>2
<1>7. SpansIn(r) \subseteq {s \in Span : Life[s] = "sent"}
  BY <1>4, PlacesNow DEF Places, Life
<1>8. Life' = [s \in Span |-> IF s \in SpansIn(r) THEN "settled" ELSE Life[s]]
  BY <1>6 DEF Life
<1> QED BY <1>3, <1>7, <1>8 DEF Promise!Settle, Promise!At, Life, Home

\* The last finish() of a trace: its chunk is dropped, or joins the queue, or
\* is sent with it; in the first two cases what was queued may stay.
LEMMA ChunkMoves ==
    ASSUME SpanInv, Immediate, NEW s \in Span, NEW t \in Trace, NEW p \in Priorities,
           NEW S \in SUBSET Span, Leaves(s, t, p, S)
    PROVE  \/ Queued' = Queued /\ InFlight' = InFlight
              /\ outcome' = [r \in Span |-> IF r \in S THEN "dropped" ELSE outcome[r]]
           \/ /\ outcome' = outcome
              /\ \/ Queued' = Queued \cup S /\ InFlight' = InFlight
                 \/ Queued' = S /\ InFlight' = InFlight \cup Queued
                 \/ Queued' = {} /\ InFlight' = InFlight \cup Queued \cup S
<1>0. writer \in Writer /\ WriterOK(writer)
  BY DEF SpanInv, TypeOK
<1>1. CASE /\ writer' = Recorded(writer)
           /\ outcome' = [r \in Span |-> IF r \in S THEN "dropped" ELSE outcome[r]]
  <2>1. writer' = writer
    BY <1>1 DEF Recorded, Immediate, Flushed
  <2> QED BY <1>1, <2>1 DEF Queued, InFlight
<1>2. CASE writer' = Recorded(Appended(writer, Formatted(S, p))) /\ outcome' = outcome
  <2> DEFINE c == Formatted(S, p)
             room == IF EncodedLength(c) + writer.size > MaxSize THEN Flushed(writer) ELSE writer
             w == Appended(writer, c)
  <2>1. c \in Chunk /\ SpansOf(c) = S /\ writer' = Recorded(w)
    BY <1>2 DEF Leaves
  <2>2. w.queue = Append(room.queue, c) /\ w.requests = room.requests
    BY DEF Appended
  <2>3. \/ QueuedSpans(room.queue) = Queued /\ Requested(room) = InFlight
        \/ QueuedSpans(room.queue) = {} /\ Requested(room) = InFlight \cup Queued
    BY <1>0, FlushedSpans DEF Queued, InFlight, Held
  <2>4. room.queue \in Seq(Chunk)
    BY <1>0, FlushedType DEF Writer
  <2>5. w \in Writer
    BY <1>0, <2>1, AppendedType
  <2> HIDE DEF c, room, w
  <2>6. QueuedSpans(w.queue) = QueuedSpans(room.queue) \cup S /\ Requested(w) = Requested(room)
    BY <2>1, <2>2, <2>4, AppendSpans DEF Requested
  <2>7. CASE HasScheduler
    BY <1>2, <2>1, <2>3, <2>6, <2>7 DEF Recorded, Queued, InFlight
  <2>8. CASE ~HasScheduler
    <3>1. Queued' = {} /\ InFlight' = Held(w)
      BY <2>1, <2>5, <2>8, FlushedSpans DEF Recorded, Queued, InFlight
    <3> QED BY <1>2, <2>3, <2>6, <3>1 DEF Held
  <2> QED BY <2>7, <2>8
<1> QED BY <1>1, <1>2 DEF Leaves

LEMMA TraceEndsLast ==
    ASSUME SpanInv, SpanInv', Immediate, NEW s \in Span, FinishTrace(s)
    PROVE  Promise!EndLast(s)
<1>0. PICK t \in Trace, p \in Priorities, S \in SUBSET Span : Leaves(s, t, p, S)
  BY TraceLeaves
<1>1. /\ t = traceOf[s] /\ s \notin ended /\ s \in S /\ S = finished[t] \cup {s} /\ S = started[t]
      /\ \A r \in S : traceOf[r] = t
      /\ S \cap Held(writer) = {} /\ S \cap Done = {}
      /\ ended' = ended \cup {s} /\ traceOf' = traceOf
  BY <1>0 DEF Leaves
<1>2. /\ s \in Reporting /\ S \subseteq Reporting
      /\ Reporting' = Reporting /\ Home' = Home
  BY <1>0, <1>1 DEF Reporting, Home
<1>3. finished[t] \subseteq ended /\ \A r \in Span \ ended : traceOf[r] = t => r \in S
  BY <1>0, <1>1 DEF SpanInv, TraceObjects
<1>4. Life[s] = "open"
  BY <1>1, <1>2, PlacesNow DEF Places, Life
<1>5. \A r \in Span : Life[r] = "open" /\ Home[r] = Home[s] => r = s
  <2> SUFFICES ASSUME NEW r \in Span, Life[r] = "open", Home[r] = Home[s] PROVE r = s
    OBVIOUS
  <2>1. r \in Reporting \ ended
    BY PlacesNow DEF Places, Life
  <2>2. traceOf[r] = t
    BY <1>1, <1>2, <2>1 DEF Home
  <2> QED BY <1>1, <1>3, <2>1, <2>2
<1>6. S = {s} \cup {r \in {q \in Span : Life[q] = "finished"} : Home[r] = Home[s]}
  <2>1. ASSUME NEW r \in finished[t]
        PROVE  r \in Span /\ Life[r] = "finished" /\ Home[r] = Home[s]
    <3>1. r \in S /\ r \in Kept
      BY <1>0, <1>1 DEF Kept
    <3> QED BY <1>1, <1>2, <3>1, PlacesNow DEF Places, Life, Home
  <2>2. ASSUME NEW r \in Span, Life[r] = "finished", Home[r] = Home[s]
        PROVE  r \in finished[t]
    <3>1. r \in Kept /\ r \in Reporting
      BY <2>2, PlacesNow DEF Places, Life
    <3>2. traceOf[r] = t
      BY <1>1, <1>2, <2>2, <3>1 DEF Home
    <3>3. PICK u \in Trace : r \in finished[u]
      BY <3>1 DEF Kept
    <3>4. traceOf[r] = u
      BY <3>3 DEF SpanInv, TraceObjects
    <3> QED BY <3>2, <3>3, <3>4
  <2> QED BY <1>1, <2>1, <2>2
<1>7. /\ \A r \in S : r \in (Reporting \cap ended)'
      /\ \A r \in Span \ S : r \in (Reporting \cap ended)' <=> r \in Reporting \cap ended
  BY <1>1, <1>2, <1>3
<1>8. S \cap (Queued \cup InFlight) = {}
  BY <1>1 DEF Held, Queued, InFlight
<1> DEFINE Moved(chunk, older) ==
        Life' = [r \in Span |-> IF r \in S THEN chunk
                                ELSE IF Life[r] = "queued" THEN older ELSE Life[r]]
<1>9. \/ Moved("dropped", "queued") \/ Moved("queued", "queued")
      \/ Moved("queued", "sent") \/ Moved("sent", "sent")
  <2>1. CASE /\ Queued' = Queued /\ InFlight' = InFlight
             /\ outcome' = [r \in Span |-> IF r \in S THEN "dropped" ELSE outcome[r]]
    <3>1. \A r \in S : Stage(r)' = "dropped"
      BY <2>1, PlacesNext DEF Places, Done
    <3>2. \A r \in Span \ S : Stage(r)' = Stage(r)
      BY <1>1, <1>2, <2>1 DEF Stage
    <3> QED BY <3>1, <3>2 DEF Life
  <2>2. CASE outcome' = outcome /\ Queued' = Queued \cup S /\ InFlight' = InFlight
    <3>1. \A r \in S : Stage(r)' = "queued"
      BY <2>2, PlacesNext DEF Places
    <3>2. \A r \in Span \ S : Stage(r)' = Stage(r)
      BY <1>1, <1>2, <2>2 DEF Stage
    <3> QED BY <3>1, <3>2 DEF Life
  <2>3. CASE outcome' = outcome /\ Queued' = S /\ InFlight' = InFlight \cup Queued
    <3>1. \A r \in S : Stage(r)' = "queued"
      BY <2>3, PlacesNext DEF Places
    <3>2. \A r \in Span \ S : Stage(r)' = IF Stage(r) = "queued" THEN "sent" ELSE Stage(r)
      BY <1>1, <1>2, <1>7, <2>3, PlacesNow, PlacesNext DEF Places, Done
    <3> QED BY <3>1, <3>2 DEF Life
  <2>4. CASE outcome' = outcome /\ Queued' = {} /\ InFlight' = InFlight \cup Queued \cup S
    <3>1. \A r \in S : Stage(r)' = "sent"
      BY <2>4, PlacesNext DEF Places
    <3>2. \A r \in Span \ S : Stage(r)' = IF Stage(r) = "queued" THEN "sent" ELSE Stage(r)
      BY <1>1, <1>2, <1>7, <2>4, PlacesNow, PlacesNext DEF Places, Done
    <3> QED BY <3>1, <3>2 DEF Life
  <2> QED BY <1>0, <2>1, <2>2, <2>3, <2>4, ChunkMoves
<1>10. Promise!Chunk(s) = S /\ Promise!LastOpen(s)
  BY <1>5, <1>6 DEF Promise!Chunk, Promise!LastOpen, Promise!At, Life, Home
<1> QED BY <1>2, <1>4, <1>9, <1>10 DEF Promise!EndLast, Life, Home

----------------------------------------------------------------------------

LEMMA InitPromise == Init => Promise!Init
<1> SUFFICES ASSUME Init PROVE Promise!Init
  OBVIOUS
<1>1. Reporting = {}
  BY PipelineAssumption DEF Init, Reporting
<1>2. \A s \in Span : Stage(s) = "absent"
  BY <1>1, SpanInvInit, PlacesNow DEF Places
<1> QED BY <1>1, <1>2 DEF Promise!Init

LEMMA StepPromise ==
    ASSUME SpanInv, Immediate, [Next]_vars
    PROVE  [Promise!Next]_Promise!vars
<1>0. SpanInv' /\ TypeOK
  BY SpanInvStep DEF SpanInv
<1>s. Promise!vars = <<Life, Home>> /\ Promise!vars' = <<Life, Home>>'
  BY DEF Promise!vars, Life, Home
<1>1. ASSUME NEW s \in Span, StartSpan(s)
      PROVE  [Promise!Next]_Promise!vars
  BY <1>0, <1>s, <1>1, StartsBegin DEF Promise!Next
<1>2. ASSUME NEW s \in Span, FinishEarly(s)
      PROVE  [Promise!Next]_Promise!vars
  BY <1>0, <1>s, <1>2, EarlyEnds DEF Promise!Next
<1>3. ASSUME NEW s \in Span, FinishTrace(s)
      PROVE  [Promise!Next]_Promise!vars
  BY <1>0, <1>3, TraceEndsLast DEF Promise!Next
<1>4. ASSUME Tick \/ CallFlush \/ BeforeExit
      PROVE  [Promise!Next]_Promise!vars
  <2>1. UNCHANGED <<app, outcome>> /\ writer' \in {writer, Flushed(writer)}
    BY <1>4 DEF Tick, CallFlush, BeforeExit, AtExit, agent
  <2> QED BY <1>0, <1>s, <2>1, FlushMoves DEF Promise!Next
<1>5. ASSUME NEW r \in writer.requests, Conclude(r)
      PROVE  [Promise!Next]_Promise!vars
  BY <1>0, <1>5, ConcludeSettles DEF Promise!Next
<1>6. ASSUME UNCHANGED <<traceOf, ended, outcome>>, Queued' = Queued, InFlight' = InFlight
      PROVE  [Promise!Next]_Promise!vars
  <2>1. Reporting' = Reporting /\ Home' = Home
    BY <1>6 DEF Reporting, Home
  <2> QED BY <1>s, <1>6, <2>1, SameStages
<1>7. ASSUME NEW s \in Span, DropTrace(s) \/ Inject(s) \/ \E g \in AppTags : SetTag(s, g)
      PROVE  [Promise!Next]_Promise!vars
  <2>1. UNCHANGED <<traceOf, ended, outcome, writer>>
    BY <1>7 DEF DropTrace, Inject, SetTag, app, agent
  <2> QED BY <1>6, <2>1 DEF Queued, InFlight
<1>8. ASSUME Exit \/ Kill \/ UNCHANGED vars
      PROVE  [Promise!Next]_Promise!vars
  <2>1. UNCHANGED <<traceOf, ended, outcome, writer>>
    BY <1>8 DEF Exit, Kill, vars, app, agent
  <2> QED BY <1>6, <2>1 DEF Queued, InFlight
<1>9. ASSUME NEW r \in writer.requests, Arrive(r)
      PROVE  [Promise!Next]_Promise!vars
  <2> DEFINE arrived == [r EXCEPT !.arrived = TRUE]
  <2>1. /\ writer'.queue = writer.queue
        /\ writer'.requests = (writer.requests \ {r}) \cup {arrived}
        /\ UNCHANGED <<traceOf, ended, outcome>>
    BY <1>0, <1>9 DEF Arrive, TypeOK, Writer, app
  <2>2. arrived.chunks = r.chunks
    BY <1>0 DEF TypeOK, Writer, Request
  <2> HIDE DEF arrived
  <2>3. Queued' = Queued /\ InFlight' = InFlight
    BY <2>1, <2>2 DEF Queued, InFlight, Requested, SpansIn
  <2> QED BY <1>6, <2>1, <2>3
<1> QED BY <1>1, <1>2, <1>3, <1>4, <1>5, <1>7, <1>8, <1>9 DEF Next

\* The pipeline does what SpanReporting promises: every span goes its way
\* once and in one direction, and a trace leaves only as a whole.
THEOREM Implements == Spec => ReportsSpans
<1>1. Init => Immediate
  BY DEF Init, Immediate
<1>2. SpanInv => TypeOK
  BY DEF SpanInv
<1>3. SpanInv /\ Immediate /\ [Next]_vars => [Promise!Next]_Promise!vars
  BY StepPromise
<1> QED
  BY <1>1, <1>2, <1>3, ImmediateStep, SpanInvInit, SpanInvStep, InitPromise, PTL
     DEF Spec, ReportsSpans, Promise!Spec
====
