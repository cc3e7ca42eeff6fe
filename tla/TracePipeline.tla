---- MODULE TracePipeline ----
(***************************************************************************)
(* From tracer.startSpan to the agent: the tracer (opentracing/tracer.js), *)
(* its spans (opentracing/span.js, nonreporting_span.js, noop), the        *)
(* recorder, the scheduler, the two writers (writer.js, zipkin/writer.js), *)
(* the HTTP request that carries a batch (platform/node/request.js) and    *)
(* the exit hook (platform/node/index.js).                                 *)
(*                                                                         *)
(* JavaScript runs each callback to its end, so an action is one whole     *)
(* callback: span.finish() records, appends, and flushes before anything   *)
(* else happens.  What interleaves is the application, the timer, the      *)
(* answers of the agent and the end of the process.                        *)
(*                                                                         *)
(* A span's context shares _trace and _sampling with its parent, so both   *)
(* objects are known here by the trace they belong to.                     *)
(***************************************************************************)
EXTENDS Integers, FiniteSets, Sequences, PrioritySampler

CONSTANTS
    Span,           \* the spans the application starts
    Trace,          \* the trace objects, one per root span or remote context
    Remote,         \* those that came with an extracted remote context
    Synthesized,    \* those of a context made up for a request without one
    Zipkin,         \* config.zipkin: which writer is used
    HasScheduler,   \* config.flushInterval > 0
    SampleRate,     \* config.sampleRate
    MaxSize,        \* MAX_SIZE of writer.js
    SpanBytes,      \* bytes that one span takes in the msgpack encoding
    AppTags,        \* the tags the application sets
    AppResumes,     \* the application starts work from its own exit listener
    MaxFlushes      \* bound: calls of tracer.flush() in one behaviour

ASSUME PipelineAssumption ==
    /\ IsFiniteSet(Span)
    /\ Remote \subseteq Trace
    /\ Synthesized \subseteq Trace
    /\ Remote \cap Synthesized = {}
    /\ {"absent", "noop", "silent"} \cap Trace = {}
    /\ {"root", "noopRef", "silentRef"} \cap (Trace \cup Span) = {}
    /\ Span \cap Trace = {}
    /\ Zipkin \in BOOLEAN /\ HasScheduler \in BOOLEAN /\ AppResumes \in BOOLEAN
    /\ SampleRate \in Rates
    /\ MaxSize \in Nat /\ SpanBytes \in Nat \ {0} /\ MaxFlushes \in Nat
    /\ AppTags \subseteq SamplingTags

VARIABLES
    traceOf,     \* the trace object of each span, or "absent", "noop", "silent"
    ended,       \* the spans whose _duration is defined
    started,     \* _trace.started
    finished,    \* _trace.finished
    tags,        \* _tags of each span
    priority,    \* _sampling.priority
    drop,        \* _sampling.drop
    rate,        \* what the agent made the priority sampler's rate
    writer,      \* _queue and _size of the writer, and its requests in flight
    outcome,     \* how the request that carried a span ended
    received,    \* how many times the agent got a span
    injected,    \* priorities that _inject wrote for a trace (history)
    calls,       \* the promises of tracer.flush()
    phase        \* the life of the process

app     == <<traceOf, ended, started, finished, tags>>
sampling == <<priority, drop, rate, injected>>
agent   == <<outcome, received>>
vars    == <<app, sampling, writer, agent, calls, phase>>

----------------------------------------------------------------------------
\* Encoded traces and the writer.

\* An entry of the queue: the spans of a trace as they were formatted.
Chunk == [tags : UNION {[S -> SUBSET SamplingTags] : S \in SUBSET Span},
          priority : Priorities]

SpansOf(chunk) == DOMAIN chunk.tags

QueuedSpans(q) == UNION {SpansOf(q[i]) : i \in DOMAIN q}

\* A request in flight: its chunks, and whether the agent has got them.
Request == [chunks : Seq(Chunk), arrived : BOOLEAN]

SpansIn(r) == QueuedSpans(r.chunks)

Requested(w) == UNION {SpansIn(r) : r \in w.requests}

\* _queue and _size of a writer, and its requests that are not concluded.
Writer == [queue : Seq(Chunk), size : Nat, requests : SUBSET Request]

Queued == QueuedSpans(writer.queue)

InFlight == Requested(writer)

\* buffer.length: the msgpack bytes of a trace, or the number of its spans
\* when the Zipkin writer's encode hands the array through.
EncodedLength(chunk) ==
    (IF Zipkin THEN 1 ELSE SpanBytes) * Cardinality(SpansOf(chunk))

\* Mutants of Flushed: the queue is not reset; only its head is sent.
FlushedTwice(w) ==
    [w EXCEPT !.requests = @ \cup {[chunks |-> w.queue, arrived |-> FALSE]}]

FlushedHead(w) ==
    IF w.queue = <<>> THEN w
    ELSE [queue    |-> Tail(w.queue),
          size     |-> w.size - EncodedLength(Head(w.queue)),
          requests |-> w.requests \cup {[chunks |-> <<Head(w.queue)>>, arrived |-> FALSE]}]

\* flush: one request for the whole queue, none for an empty one.
Flushed(w) ==
    IF w.queue = <<>> THEN w
    ELSE [queue    |-> <<>>,
          size     |-> 0,
          requests |-> w.requests \cup {[chunks |-> w.queue, arrived |-> FALSE]}]

\* Mutant of Appended: nobody makes room.
AppendedBlindly(w, chunk) ==
    [w EXCEPT !.queue = Append(@, chunk), !.size = @ + EncodedLength(chunk)]

\* The end of append: room is made first, then the buffer is pushed.
Appended(w, chunk) ==
    LET room == IF EncodedLength(chunk) + w.size > MaxSize THEN Flushed(w) ELSE w
    IN  [queue    |-> Append(room.queue, chunk),
         size     |-> room.size + EncodedLength(chunk),
         requests |-> room.requests]

\* record, after append: without a scheduler every record flushes.
Recorded(w) == IF HasScheduler THEN w ELSE Flushed(w)

\* Mutant of Formatted: the tags are gone when they are formatted.
FormattedLate(spans, p) == [tags |-> [s \in spans |-> {}], priority |-> p]

\* format, applied to the finished spans of a trace.
Formatted(spans, p) == [tags |-> [s \in spans |-> tags[s]], priority |-> p]

\* append's test, with the spans that are finished once the caller is.
Complete(t, spans) == Cardinality(started[t]) = Cardinality(spans)

\* Mutant of Erase: _trace.finished is not reset.
EraseStarted(t, spans) ==
    /\ started' = [started EXCEPT ![t] = {}]
    /\ tags'    = [r \in Span |-> IF r \in spans THEN {} ELSE tags[r]]
    /\ finished' = [finished EXCEPT ![t] = spans]

\* _erase: the spans lose their tags, the trace starts over.
Erase(t, spans) ==
    /\ started'  = [started EXCEPT ![t] = {}]
    /\ finished' = [finished EXCEPT ![t] = {}]
    /\ tags'     = [r \in Span |-> IF r \in spans THEN {} ELSE tags[r]]

----------------------------------------------------------------------------
\* The application starts and finishes spans.

Running == phase = "running" \/ (AppResumes /\ phase = "exiting")

Used(t) == \E s \in Span : traceOf[s] = t

\* The spans whose finish() reaches the recorder.
Reporting == {s \in Span : traceOf[s] \in Trace}

\* Where _startSpan may put a span with this reference: a trace, "noop" or
\* "silent" (NonReportingSpan).  "root" is no reference, "noopRef" one of
\* type noop, "silentRef" the span of withNonReportingScope; of the others a
\* trace is an extracted or made up context and a span is a parent.
Homes(ref, sampled) ==
    LET parent == IF ref \in Span THEN traceOf[ref] ELSE ref
    IN  CASE parent \in {"silentRef", "silent"} -> {"silent"}
          [] parent \in {"noopRef", "noop"} -> {"noop"}
          [] ref \in Synthesized \cup {"root"} /\ ~sampled -> {"noop"}
          [] ref = "root" /\ sampled ->
                {t \in Trace \ (Remote \cup Synthesized) : ~Used(t)}
          [] OTHER -> {parent}

\* The references a startSpan call may carry: the non-reporting span is
\* active only around the Zipkin writer's own requests.
References ==
    {"root", "noopRef"} \cup Remote \cup Synthesized
        \cup {p \in Span : traceOf[p] # "absent"}
        \cup {r \in {"silentRef"} : Zipkin /\ writer.requests # {}}

\* tracer.startSpan
StartSpan(s) ==
    /\ Running
    /\ traceOf[s] = "absent"
    /\ \E ref \in References, sampled \in IsSampled(SampleRate) :
          \E t \in Homes(ref, sampled) :
             /\ traceOf' = [traceOf EXCEPT ![s] = t]
             /\ started' = [u \in Trace |-> IF u = t THEN started[u] \cup {s}
                                                      ELSE started[u]]
    /\ UNCHANGED <<ended, finished, tags, sampling, writer, agent, calls, phase>>

\* span.setTag and addTags; a finished span takes tags like any other.
SetTag(s, g) ==
    /\ Running
    /\ s \in Reporting
    /\ tags' = [tags EXCEPT ![s] = WithTag(@, g)]
    /\ UNCHANGED <<traceOf, ended, started, finished, sampling, writer, agent, calls, phase>>

\* The web plugins mark the trace of a request that config.filter refuses.
DropTrace(s) ==
    /\ Running
    /\ s \in Reporting \ ended
    /\ drop' = [drop EXCEPT ![traceOf[s]] = TRUE]
    /\ UNCHANGED <<app, priority, rate, injected, writer, agent, calls, phase>>

\* tracer.inject of a span's context: the priority is decided here if the
\* trace has none, and travels with the request.
Inject(s) ==
    /\ Running
    /\ s \in Reporting
    /\ LET t == traceOf[s]
       IN  \E p \in Sampled(priority[t], tags[s], rate) :
              /\ priority' = [priority EXCEPT ![t] = p]
              /\ injected' = [injected EXCEPT ![t] = @ \cup {p}]
    /\ UNCHANGED <<app, drop, rate, writer, agent, calls, phase>>

\* finish() of a span that is not the last open one of its trace, or that
\* reports nothing: append does nothing, but record may flush.
FinishEarly(s) ==
    /\ Running
    /\ traceOf[s] # "absent" /\ s \notin ended
    /\ ended' = ended \cup {s}
    /\ \/ /\ s \notin Reporting
          /\ UNCHANGED <<finished, writer>>
       \/ /\ s \in Reporting
          /\ LET t == traceOf[s]
             IN  /\ ~Complete(t, finished[t] \cup {s})
                 /\ finished' = [finished EXCEPT ![t] = @ \cup {s}]
          /\ writer' = Recorded(writer)
    /\ UNCHANGED <<traceOf, started, tags, sampling, agent, calls, phase>>

\* finish() of the last open span of its trace: sample, format, erase, and
\* then drop the trace or buffer it.
FinishTrace(s) ==
    /\ Running
    /\ s \in Reporting \ ended
    /\ ended' = ended \cup {s}
    /\ LET t     == traceOf[s]
           spans == finished[t] \cup {s}
       IN  /\ Complete(t, spans)
           /\ Erase(t, spans)
           /\ \E p \in Sampled(priority[t], tags[s], rate) :
                /\ priority' = [priority EXCEPT ![t] = p]
                /\ \/ /\ drop[t]
                      /\ writer'  = Recorded(writer)
                      /\ outcome' = [r \in Span |-> IF r \in spans THEN "dropped"
                                                    ELSE outcome[r]]
                   \/ /\ ~drop[t]
                      /\ writer'  = Recorded(Appended(writer, Formatted(spans, p)))
                      /\ UNCHANGED outcome
    /\ UNCHANGED <<traceOf, drop, rate, injected, received, calls, phase>>

----------------------------------------------------------------------------
\* Flushing: the timer, the application, the end of the process.

\* Mutant of Tick: the scheduler was never started.
TickNever == FALSE /\ UNCHANGED vars

\* The interval timer of the scheduler fires.
Tick ==
    /\ HasScheduler
    /\ phase \in {"running", "exiting"}
    /\ writer' = Flushed(writer)
    /\ UNCHANGED <<app, sampling, agent, calls, phase>>

\* Mutant of Awaited: flush does not return the request.
AwaitedNothing(w) == {}

\* What the promise that flush returns stands for: the request it made, if
\* it made one; tracer.flush() makes a resolved promise of the other case.
Awaited(w) == UNION {SpansIn(r) : r \in Flushed(w).requests \ w.requests}

\* tracer.flush() by the application.  unsent and earlier are history: what
\* had not been reported at the call, and what was in flight already.
CallFlush ==
    /\ Running
    /\ Cardinality(calls) < MaxFlushes
    /\ writer' = Flushed(writer)
    /\ calls' = calls \cup {[awaits |-> Awaited(writer),
                             unsent |-> Queued \cup InFlight,
                             earlier |-> InFlight]}
    /\ UNCHANGED <<app, sampling, agent, phase>>

\* Mutant of AtExit: the exit listener is not registered.
AtExitNothing(w) == w

\* The listeners of the platform's exit event: the scheduler's, if any.
AtExit(w) == IF HasScheduler THEN Flushed(w) ELSE w

\* The event loop runs empty for the first time: no request keeps it alive,
\* the timer does not count, and the once-listener of beforeExit flushes.
BeforeExit ==
    /\ phase = "running"
    /\ writer.requests = {}
    /\ phase' = "exiting"
    /\ writer' = AtExit(writer)
    /\ UNCHANGED <<app, sampling, agent, calls>>

\* It runs empty again, and nobody listens any more.
Exit ==
    /\ phase = "exiting"
    /\ writer.requests = {}
    /\ phase' = "exited"
    /\ UNCHANGED <<app, sampling, writer, agent, calls>>

\* process.exit() or a signal: beforeExit is never emitted.
Kill ==
    /\ phase \in {"running", "exiting"}
    /\ phase' = "killed"
    /\ UNCHANGED <<app, sampling, writer, agent, calls>>

----------------------------------------------------------------------------
\* The request and the agent at its other end.

Alive == phase \in {"running", "exiting"}

\* The promise of request r is settled, or given up, and r is no more.
Concluded(r, fate) ==
    /\ writer' = [writer EXCEPT !.requests = @ \ {r}]
    /\ outcome' = [s \in Span |-> IF s \in SpansIn(r) THEN fate ELSE outcome[s]]

\* The body of a request reaches the agent.
Arrive(r) ==
    /\ Alive
    /\ ~r.arrived
    /\ writer' = [writer EXCEPT !.requests = (@ \ {r}) \cup {[r EXCEPT !.arrived = TRUE]}]
    /\ received' = [s \in Span |-> IF s \in SpansIn(r) THEN received[s] + 1 ELSE received[s]]
    /\ UNCHANGED <<app, sampling, outcome, calls, phase>>

\* A 2xx answer ends.  The agent's answer to the msgpack writer holds the
\* rates of the services; one that does not parse changes none.
Succeed(r) ==
    /\ Alive
    /\ r.arrived
    /\ Concluded(r, "ok")
    /\ IF Zipkin THEN UNCHANGED rate ELSE rate' \in Rates
    /\ UNCHANGED <<app, priority, drop, injected, received, calls, phase>>

\* Mutant of Fail: a failed request is sent again.
FailAndRetry(r) ==
    /\ Alive
    /\ writer' = [writer EXCEPT !.requests = (@ \ {r}) \cup {[r EXCEPT !.arrived = FALSE]}]
    /\ UNCHANGED <<app, sampling, agent, calls, phase>>

\* Another status, a network error, or the abort after two idle seconds
\* before any answer: the rejection is logged and the batch is gone.
Fail(r) ==
    /\ Alive
    /\ Concluded(r, "failed")
    /\ UNCHANGED <<app, sampling, received, calls, phase>>

\* The abort comes after the answer has begun: neither 'end' nor 'error' is
\* emitted, and the promise stays pending.
Stall(r) ==
    /\ Alive
    /\ r.arrived
    /\ Concluded(r, "stalled")
    /\ UNCHANGED <<app, sampling, received, calls, phase>>

----------------------------------------------------------------------------

Init ==
    /\ traceOf  = [s \in Span |-> "absent"]
    /\ ended    = {}
    /\ started  = [t \in Trace |-> {}]
    /\ finished = [t \in Trace |-> {}]
    /\ tags     = [s \in Span |-> {}]
    /\ priority \in {p \in [Trace -> Priorities \cup {Undecided}] :
                        \A t \in Trace \ Remote : p[t] = Undecided}
    /\ drop     = [t \in Trace |-> FALSE]
    /\ rate     = "one"
    /\ writer   = [queue |-> <<>>, size |-> 0, requests |-> {}]
    /\ outcome  = [s \in Span |-> "none"]
    /\ received = [s \in Span |-> 0]
    /\ injected = [t \in Trace |-> {}]
    /\ calls    = {}
    /\ phase    = "running"

Conclude(r) == Succeed(r) \/ Fail(r) \/ Stall(r)

Next ==
    \/ \E s \in Span : \/ StartSpan(s) \/ DropTrace(s) \/ Inject(s)
                       \/ FinishEarly(s) \/ FinishTrace(s)
                       \/ \E g \in AppTags : SetTag(s, g)
    \/ Tick \/ CallFlush \/ BeforeExit \/ Exit \/ Kill
    \/ \E r \in writer.requests : Arrive(r) \/ Conclude(r)

Spec == Init /\ [][Next]_vars

\* The interval timer keeps firing while the process lives, an idle socket is
\* aborted after two seconds so that every request is concluded, and a process
\* with nothing left to do ends.
Fairness ==
    /\ WF_vars(Tick)
    /\ WF_vars(Exit)
    /\ \A s \in Span : WF_vars(\E r \in writer.requests : s \in SpansIn(r) /\ Conclude(r))

FairSpec == Spec /\ Fairness

----------------------------------------------------------------------------
\* Properties.

\* Every variable has its type: in particular what the writer holds are
\* formatted traces, each with a decided priority.
TypeOK ==
    /\ traceOf \in [Span -> Trace \cup {"absent", "noop", "silent"}]
    /\ ended \subseteq {s \in Span : traceOf[s] # "absent"}
    /\ started \in [Trace -> SUBSET Span]
    /\ finished \in [Trace -> SUBSET Span]
    /\ tags \in [Span -> SUBSET SamplingTags]
    /\ priority \in [Trace -> Priorities \cup {Undecided}]
    /\ drop \in [Trace -> BOOLEAN]
    /\ rate \in Rates
    /\ writer \in Writer
    /\ outcome \in [Span -> {"none", "dropped", "ok", "failed", "stalled"}]
    /\ received \in [Span -> Nat]
    /\ injected \in [Trace -> SUBSET Priorities]
    /\ calls \subseteq [awaits : SUBSET Span, unsent : SUBSET Span, earlier : SUBSET Span]
    /\ phase \in {"running", "exiting", "exited", "killed"}

\* Where a finished span can be: with its trace, in the writer's queue, in a
\* request, or done with.
Kept == UNION {finished[t] : t \in Trace}

Done == {s \in Span : outcome[s] # "none"}

\* A span that was finished is in one of those places and in one only, and
\* no other span is in any: nothing is forgotten on the way from finish() to
\* the end of its request, and nothing is buffered again.
OnePlace ==
    /\ Reporting \cap ended = Kept \cup Queued \cup InFlight \cup Done
    /\ Kept \cap Queued = {} /\ Kept \cap InFlight = {} /\ Kept \cap Done = {}
    /\ Queued \cap InFlight = {} /\ Queued \cap Done = {} /\ InFlight \cap Done = {}

NoTwins(q) ==
    \A i, j \in DOMAIN q : i # j => SpansOf(q[i]) \cap SpansOf(q[j]) = {}

NoTwinRequests(requests) ==
    \A r1, r2 \in requests : r1 # r2 => SpansIn(r1) \cap SpansIn(r2) = {}

\* No span is in two buffered traces, in two traces of one request, or in
\* two requests: what erase, the queue reset of flush and the guard of
\* finish() prevent together.
SentOnce ==
    /\ NoTwins(writer.queue)
    /\ \A r \in writer.requests : NoTwins(r.chunks)
    /\ NoTwinRequests(writer.requests)

\* The agent gets a span at most once, whatever becomes of requests and
\* answers, and a request that succeeded did reach it.
DeliveredOnce ==
    \A s \in Span : /\ received[s] <= 1
                    /\ outcome[s] = "ok" => received[s] = 1
                    /\ outcome[s] = "dropped" => received[s] = 0

\* _size is what the queue holds, and append keeps it within MAX_SIZE, except
\* for one trace that is larger than that by itself.
BufferBound ==
    /\ writer.size = (IF Zipkin THEN 1 ELSE SpanBytes) * Cardinality(Queued)
    /\ writer.size <= MaxSize \/ Len(writer.queue) = 1

\* Every buffered trace and every carrier that left with a trace's context
\* has the priority that the trace has now: it was decided once.
OnePriority ==
    /\ \A t \in Trace : injected[t] \subseteq {priority[t]}
    /\ \A i \in DOMAIN writer.queue : \A s \in SpansOf(writer.queue[i]) :
          writer.queue[i].priority = priority[traceOf[s]]
    /\ \A r \in writer.requests : \A i \in DOMAIN r.chunks : \A s \in SpansOf(r.chunks[i]) :
          r.chunks[i].priority = priority[traceOf[s]]

\* A trace object holds the spans of its trace that started since it was
\* erased, and no others: all that are open, and finished those that ended.
TraceObjects ==
    \A t \in Trace :
        /\ \A s \in started[t] : traceOf[s] = t
        /\ finished[t] = started[t] \cap ended
        /\ \A s \in Span \ ended : traceOf[s] = t => s \in started[t]

\* The chunks that left the traces so far and are not concluded.
Exported ==
    {writer.queue[i] : i \in DOMAIN writer.queue}
        \cup UNION {{r.chunks[i] : i \in DOMAIN r.chunks} : r \in writer.requests}

\* A trace is exported whole and as it was: one trace that was not dropped,
\* all that was started of it, with no span of it left open, each span with
\* the tags it had and not with what erase leaves.
ExportIsWhole ==
    [][\A c \in Exported' \ Exported :
         \E t \in Trace :
            /\ ~drop[t]
            /\ SpansOf(c) = started[t]
            /\ \A s \in Span : traceOf[s] = t => s \in ended'
            /\ \A s \in SpansOf(c) : c.tags[s] = tags[s]]_vars

\* The promise of a call of flush() is settled: the request succeeded, or its
\* failure was logged.
Settled(c) == \A s \in c.awaits : outcome[s] \in {"ok", "failed"}

\* What was unsent at a call of tracer.flush() is never in the buffer again,
\* and once the promise is settled no more of it is on its way than what was
\* in flight at the call, whoever flushed before and after.
FlushTakesAll ==
    \A c \in calls : /\ c.unsent \cap Queued = {}
                     /\ Settled(c) => c.unsent \cap InFlight \subseteq c.earlier

\* When the process ends because nothing is left to do, nothing is left in
\* the buffer (for an application without work of its own at exit).
GracefulExit == phase = "exited" => writer.queue = <<>>

\* What the tracer reports, as SpanReporting states it.
Stage(s) ==
    CASE s \notin Reporting -> "absent"
      [] s \in Reporting \ ended -> "open"
      [] outcome[s] = "dropped" -> "dropped"
      [] outcome[s] \in {"ok", "failed", "stalled"} -> "settled"
      [] s \in Queued -> "queued"
      [] s \in InFlight -> "sent"
      [] OTHER -> "finished"

Promise == INSTANCE SpanReporting
    WITH life    <- [s \in Span |-> Stage(s)],
         traceOf <- [s \in Span |-> IF s \in Reporting THEN traceOf[s] ELSE "absent"],
         NoTrace <- "absent"

\* The pipeline does what SpanReporting promises.
ReportsSpans == Promise!Spec

\* What is buffered leaves: it is dropped, answered, failed or stalled,
\* unless the process ends first.
BufferDrains ==
    \A s \in Span : (s \in Queued \cup InFlight)
                        ~> (outcome[s] # "none" \/ ~Alive)

\* "reports every span" of README.md: a span that is finished is eventually
\* reported, given up or dropped, unless the process ends first.
EverySpanReported ==
    \A s \in Span : (s \in Reporting \cap ended) ~> (outcome[s] # "none" \/ ~Alive)

\* The application finishes each span that it started.
TidyApplication == \A s \in Span : WF_vars(FinishEarly(s) \/ FinishTrace(s))

\* It does report every span of an application that finishes all it starts; and
\* whatever the application does, what is buffered leaves.
TidyReported == BufferDrains /\ (TidyApplication => EverySpanReported)

----------------------------------------------------------------------------
\* What documents and comments say, and the code does not do.

\* "Report any unsent traces before pausing": after flush() has resolved,
\* nothing that was finished before the call is still on its way.
FlushReportsUnsent ==
    \A c \in calls : Settled(c) => \A s \in c.unsent : outcome[s] # "none"

\* "8MB": the buffered traces take at most MAX_SIZE bytes, but for a single
\* trace that takes more by itself.
BufferWithinBytes ==
    \/ SpanBytes * Cardinality(Queued) <= MaxSize
    \/ Len(writer.queue) = 1
====
