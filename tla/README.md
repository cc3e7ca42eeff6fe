# A verification of the SignalFx Tracing Library for Node.js

TLA+ modules for the parts of `signalfx-nodejs-tracing` that decide whether a
span reaches the agent, under which parent a span is made, and in which span the
code of the application runs. TLC checks the modules on small instances. TLAPS
proves theorems about them for every value of their constants. `PROJECT.json`
names, for each definition, the lines of the source that it stands for.

## The system

| component | state | operations | interacts with |
|---|---|---|---|
| tracer, spans (`opentracing/tracer.js`, `span.js`) | per span `_duration`, `_tags`; per trace the `started` and `finished` lists, `_sampling` | `startSpan`, `setTag`, `inject`, `finish`, `flush` | calls the samplers and the recorder |
| samplers (`sampler.js`, `priority_sampler.js`) | the rates the agent sent | `isSampled`, `sample`, `update` | `startSpan`, `inject`, `append`, the agent's answers |
| recorder, scheduler (`recorder.js`, `scheduler.js`) | the interval timer | `record`, timer, exit listener | writer |
| writers (`writer.js`, `zipkin/writer.js`) | `_queue`, `_size`, requests in flight | `append`, `flush` | the HTTP request, the scope (Zipkin) |
| request (`platform/node/request.js`) | one promise and one timeout per batch | answer, error, abort | the agent |
| scope manager (`scope/new/scope.js`) | `_spans`, `_types`, `_weaks`, a metric | `activate`, `active`, hooks `init`, `destroy`, `promiseResolve` | `async_hooks` |
| scope binding (`scope/new/base.js`) | listeners by event and by listener | `bind` of functions, emitters, promises | the plugins |
| instrumenter (`instrumenter.js`) | plugins, instrumented modules | `use`, `patch`, `unpatch`, `hookModule` | the plugins, `require` |
| tracer API (`tracer.js`, `proxy.js`, `noop/`) | which tracer is behind the proxy | `trace`, `wrap`, `init` | pipeline and scope |
| web requests (`plugins/util/web.js`, router, express, koa) | per request a stack of middleware spans and of paths, `finished` | middleware enter and leave, `end` of the response | pipeline and scope |
| http client (`plugins/http/client.js`) | one span per request | inject, response, end, error, abort, close | pipeline; traces the writer's own requests |
| library plugins (`plugins/*.js` with `util/tx.js`, `promise.js`, `redis.js`) | per call a span and a bound callback | wrap a call, its callback, promise, events | pipeline and scope |
| graphql (`plugins/graphql.js`) | per context value a map from path to resolver span | execute, resolve | pipeline and scope |
| metrics (`platform/node/metrics.js`, `dogstatsd.js`, `native/metrics`) | counters, a datagram buffer, handles of spans | track, finish, collect, flush | spans, garbage collection |
| propagation (`opentracing/propagation`) | none | inject, extract | headers |
| config, logging, ids | none to speak of | read options, make ids | all |

JavaScript runs one callback to its end, so no two of these operations are ever
half done at once. What makes them hard is the order of callbacks: the
application finishes spans of one trace in any order and starts more after the
trace was exported; timer, `tracer.flush()`, a full buffer and the end of the
process all flush the one queue; answers of the agent are late, lost or in
another order; the process may end between any two callbacks; and the scope
keeps one table entry per asynchronous resource that nested and throwing
`activate` calls overwrite and restore, while hooks insert and delete.

What makes the modelled components correct:

* pipeline: a finished span is held in exactly one place until its request is
  over; it is sent at most once; a trace leaves whole, with the tags it had, when
  nothing of it is open; its priority is decided once; the buffer is bounded; an
  orderly end leaves nothing behind.
* web request: whatever ends its layers, and in whatever order, each span of a
  middleware is ended, and not before those below it.
* instrumenter: a plugin is applied once to each module, or to none when it fails.
* graphql: the spans of fields follow the query, whatever the order of resolvers, none is
  finished before those below it, and a field that failed says so.
* library calls: the code of the application runs with the span of the code that caused
  it, wherever the library calls it; when it learns of an outcome the span of the call is
  finished and says the same; the requests of the writer make no spans.
* bound emitter: it acts as a list of listeners that run in their spans, and its table has
  only functions that Node's list has.
* propagation: all services keep a trace or all drop it; a request is continued below its
  own span, with the baggage that it was sent with.
* metrics: no counter of spans goes below zero; what is counted is reported once; the
  messages of a report arrive whole in datagrams within the limit.
* scope: `active()` is the span of the innermost `activate`, or the one that was
  active where the running resource was created, whatever other callbacks did
  in between; the table has entries for nothing that is over.

`PROJECT.json` lists under `hazards` the lines where this is most likely to go
wrong, and which property watches each.

## The modules

**PrioritySampler** has the two samplers as operators. A rate is known by what
the coin can do with it (`zero`, `fraction`, `one`), tags by the keys the sampler
reads. The rates that the agent sends per service are one rate.

**TracePipeline** is the path from `startSpan` to the agent. One action is one
whole callback. `FinishTrace` is `_finish` of the last open span of a trace with
all it calls: `record`, `append`, `sample`, `format`, `_erase`, the drop test, the
room made by `flush` when the buffer is full, and the flush of a recorder without
a scheduler. `FinishEarly` is the other finish. The spans of one trace share
`_trace` and `_sampling` with their parent, so these are variables indexed by
trace object; a remote context brings its own, with a priority or without, and
`plugins/util/web.js` makes one up (`isSynthesized`) for a request that has none.
A span that `_startSpan` answers with the no-op span or with a
`NonReportingSpan` has the trace `"noop"` or `"silent"`. `writer` is a record of
`_queue`, `_size` and the requests whose promise is not settled, each with its
batch. `Zipkin` chooses the writer, and with it what the length of a buffer
means; `HasScheduler` is `flushInterval > 0`.

`Arrive`, `Succeed`, `Fail` and `Stall` are the other end: a body may arrive and
its answer be lost, an answer may be an error, and the two second timeout may come
before or after the head of an answer. `BeforeExit`, `Exit` and `Kill` end the
process: Node emits `beforeExit` when the loop is empty, and the platform
listens to it once. `injected`, `received`, `outcome` and `calls` are history that
only properties read; of a call of `flush` it has the spans that its promise stands for, those that
were not sent yet, and those in flight.

**SpanReporting** is the abstract specification: each span goes from `absent`
through `open`, `finished`, `queued` and `sent` to `settled`, or is dropped, and
a trace leaves only as a whole. `ReportsSpans` says that TracePipeline implements
it under the mapping `Stage`.

**ScopeManager** is `scope/new/scope.js`. `spans`, `types`, `weak` and `count` are
`_spans`, `_types`, `_weaks` and `async.resources`. `Init_`, `Destroy` and
`Resolve` are the hooks, `Activate` and `Leave` the two halves of `_activate`
around its callback. `Leave` restores, tags the span if an exception leaves, and
passes it on. Node is modelled as the environment that the hooks' documentation
allows: `Run` and `Return` of resources nested in one another, promises resolved by
what runs or by their own reaction, a handle that gets a second id without a
destroy (`KeepAliveBug`). `Thenables` lets promises be resolved with thenables.

**AsyncContext** is its abstract specification: each resource captures the active
span when it is created, and `activate` lasts for its extent. There is no table.
`KeepsContext` says that ScopeManager implements it; the span a resource captured
is read from its table entry or, while that is overwritten, from the local
variable of the outermost `activate`.

**WebRequest** is one request in `plugins/util/web.js`. `middleware`, `paths` and
`finished` are the fields of `req._datadog`. `Handle` is a layer's call with
`wrapMiddleware`, and `Leave` its end, by `next()` (`wrapNext` in `router.js`) or by a
promise (`koa.js`); both end the span on top of the stack, whosever it is. `Throw` is a layer
of express that throws before it returns: express catches that and goes on with a `next` that is
not wrapped, so that neither the span nor the path is taken away. `Skipped` is a layer that
matches and is not called, such as an error handler when there is no error: its path is pushed
by `processParams`. `matched` is the `path` of the layers, which serve all requests:
`TriedElsewhere` is another request that overwrites or unsets it, and `wrapNext` reads it when
the layer is done. `End` is the wrapped `res.end()`, which may fail. Layers overlap, express lets a layer call
`next()` again, and layers run on after the response. `running` and `done` are
the framework's side of the same calls; `orderly`, `thrown`, `taken` and `stray` are history. That the plugin's
pattern (`_datadog_matchers`) matches when express does, and that a layer without a path of
its own matches none, is assumed.

**Instrumenter** is `instrumenter.js` with `init` and `use` of `proxy.js`. `config` is
`_plugins`, `instrumented` is `_instrumented` and `layers` counts what shimmer has
wrapped. `Set` is `_set` with `_load`, `HookModule` is `hookModule` with `_validate`,
`_patch` and `_fail`; the plugins of one call do not share instrumentations, so they
are handled together. Which modules do not have the expected API (`unfit`), and
which packages miss a file (`lacks`), is any choice at the start.
`require-in-the-middle` is external: its newest hook shows each module once, also
one that was loaded before.

**GraphqlExecution** is `plugins/graphql.js` from `executeWithTrace` to `finish`. A field is
its path; `fields` is `_datadog_graphql.fields` of a context value that several executions
may share, of which `owner` is the one that has the span. `Resolve` is `resolveWithTrace` up
to the call of the resolver, with `assertField` and `getParentField`; `order` is the order in which
the keys of `fields` were added. `Settle` is what `call`
does when the resolver has returned, thrown or been settled; `refused` is an outcome that graphql
makes an error of and `updateField` is not told of, such as null for a field that is not
nullable, or a rejection with nothing. `Finish` is the callback of the
execution with `finishResolvers`, which calls `finish()` for the fields in the reverse of their
order (`Closing`) and for the execution last; `ended` is the sequence of these calls. graphql itself is external: it calls a resolver when
those above it have given a value, and has its result when all are through, or as soon as an
error of a non-null field has taken all the data away while other resolvers go on. The fields
are those with a resolver of their own that `wrapFields` reaches, which a second execution
traces too.

**LibraryCall** is a call of a traced library, of which several may be nested or under way.
What runs is a stack of frames, each with the span that is active in it. `Start` is the wrapper
of a plugin: it starts a span below the active one (`SpanFor`, with the rules of `_startSpan`
for the no-op span), binds the callback (`Bound`) and calls the library. `Return`, `Throw` and
`Deliver` are what the library does, each with what the plugin makes of it (`Tell`). A failure is an
Error (`error`, `throw`) or, where the plugin tells them apart, another value (`value`,
`throwValue`). Some plugins take the callback to wrap from a queue of the library (`queue`): a
query that `pg` has refused is not in it, and then the wrapper rides on the callback of an older
call (`rides`), and ends with it. A library
calls back from the loop with any span active, because a connection may be an older call's, or
before it has returned. `Build` is a query that is put together in one context and run in
another (knex). `Enter`, `Resume` and `Leave` are the application's own turns. `caller`,
`known` and `outcome`, which is what was known when the span was finished, are history.

**LibraryPlugins** has the operations: for each wrapper of `tracer.js` and of the plugins a
record that says whether the library runs with the span active, how its callback is run,
whether it may answer at once, what it may tell, and which of that finishes the span or is
recorded as an error. A wrapper like another one is named as that. `TracedUnbound`,
`TracedForgetful`, `TracedErrorsOnly`, `TracedQuiet` and `TracedGuarded` list those that keep less, or more, than the
others: see below. In most plugins any failure is an error, and `error` stands for all; a
falsy one is none to any plugin. `Picky` is the test `error instanceof Error` of `tracer.js` and
`cassandra-driver.js`.

**BoundEmitter** is `bind` of an emitter in `scope/new/base.js` over Node's emitter. A
registration has a number; `list` is what Node has, `table` what `_events` of the scope finds
for `removeListener`. `Emit`, `Run` and `Done` are Node's: a copy of the list is called one by
one, and the wrapper of `once()` removes itself through the wrapped `removeListener`. A function
that `listeners()` gave back and that is added again is left out: `base.js:121` adds it as it is.
**ListenerList** is its abstract specification, a list of registrations without wrapped
functions; `ActsAsList` says that BoundEmitter implements it. **EmitterProperties** declares the
state of BoundEmitter and has its two properties.

**RuntimeMetrics** is `platform/node/metrics.js` with the C++ of `native/metrics` and
`dogstatsd.js`. `Track`, `Finish` and `Collect` are the tracker of spans, whose counters wrap
at `Width`. The interval is three steps, `TickNative`, `ReadTotals` and `ReadNames`, because it
allocates while it reads, so that the collector may pause the process or free spans in between;
without the native module it is one, `Tick`. `ReadNames` reads the names at once; the code reads one
after the other (`SpanTracker.cpp:16-22`), which can only make the later ones smaller. `Written`, `Enqueued` and `Datagrams` are the
StatsD client, and `Lookup` the answer for its host. `turned`, `paused` and `gone` are history.

**Propagation** is a trace that goes through several services. A part is what one service does
for one request; its spans share decision and baggage. `Send` is `requestTrace` of the http
client with `inject` of either text map, into a headers object that the application may use for
another request, too; `Receive` is `extract` and the span of the server, for a request that may
come twice or never. `Outside` is a request from a service with another tracer: a context of
`Foreign` may come to several services, or several times to one, with one decision or without.
`entry` is history: the part that an undecided one of them came to. The origin of the
Datadog headers is data that nothing here reads.

The **MC** modules give the constants their values. **TracePipelineProofs**,
**ScopeManagerProofs**, **InstrumenterProofs**, **WebRequestProofs**, **LibraryCallProofs**,
**GraphqlExecutionProofs**, **MetricsAndEmitterProofs** and **PropagationProofs** have the theorems.

## The runs

| run | instance | what it shows |
|---|---|---|
| `pipeline_zipkin` | 3 spans, 2 traces, room for 2 spans, 1 call of `flush` | `TypeOK`, `OnePlace`, `SentOnce`, `DeliveredOnce`, `BufferBound`, `FlushTakesAll`, `GracefulExit`, and the refinement `ReportsSpans` |
| `pipeline_agent` | 2 spans, a local, a remote and a synthesized trace, no interval, a manual tag, sampling and rates that vary, work at exit | `TraceObjects`, `OnePriority`, `ExportIsWhole` |
| `pipeline_live` | 2 spans, 2 traces, fairness | `TidyReported` |
| `scope` | 4 ids (script, promise, a handle's two), 2 spans | `Bookkeeping`, `ActiveIsInnermost`, and the refinement `KeepsContext` |
| `web` | 4 calls, 2 of them mounted, express and koa | `NoOrphans`, `OwnSpan`, `RouteInStep`, `NestedSpans` |
| `instrumenter` | 2 plugins, 3 instrumentations, 3 modules, one of them Node's | `TypeOK`, `WrappedOnce`, `NothingLeft`, `SeenIsPatched`, `FailsAlone` |
| `graphql` | 2 executions of 4 fields, a list of 2 items, with or without collapse, depth -1, 0 or 2 | `FollowsQuery`, `RunsInOpenSpan`, `NestedFields`, `ErrorsShow` |
| `graphql_late` | as `graphql` with 1 execution, under fairness | violated: "reports every span" |
| `calls` | 2 calls of any operation, 1 span of the application, the writer's | `CallersContext`, `OutcomeOnSpan`, `SilentUpload` |
| `emitter` | 2 listeners, 3 registrations, 2 spans | `TablesAgree`, and the refinement `ActsAsList` |
| `metrics` | 3 spans of 2 names, 1 counter, 2 turns, 2 pauses, datagrams of 4 bytes | `SpansCounted`, `NamesInTotals`, `CountedOnce`, `Packed` |
| `propagation` | 3 parts, 2 requests, 1 context of another tracer, 2 headers objects, 1 item of 2 values, both kinds of headers | `OneDecision`, `Linked`, `ItemsArrive` |

A type invariant is a conjunct of `Bookkeeping`, `NoOrphans`, `FollowsQuery` and
`OutcomeOnSpan` in their modules; that of Propagation is proved. `TidyReported` has two
parts: what is buffered leaves (`BufferDrains`), and an application that finishes every span it
starts has all of them reported.

### Where code and documents disagree

`graphql_late` is one of the disagreements. The other four have no run of their own; the
configurations named here show them:

```
tlc -config InstrumentDisabled.cfg MCInstrumenter    \* "should not patch disabled plugins"
tlc -config PipelineFlushDoc.cfg MCTracePipeline     \* "report any unsent traces before pausing"
tlc -config PipelineSizeDoc.cfg MCTracePipeline      \* the buffer's "8MB"
tlc -config ScopeThenable.cfg MCScopeManager         \* the context of an asynchronous callback
```

* `use(name, false)` after `init()` patches the modules of the plugin that are loaded
  already: `_load` does not read `config.enabled`, and the test has a module that is
  loaded later. `SeenIsPatched` is what does hold of the hook.
* A resolver that graphql calls after the execution has failed, or for a second
  execution with the same context value, gets a span that nobody finishes. `writer.js:29`
  then keeps its whole trace in memory unreported. What does hold: `NestedFields` of the
  resolvers that were running, and `TidyReported` of the pipeline: an application that
  finishes every span it starts has all of them reported.
* `tracer.flush()` stands for the queue at the call. A batch that the interval
  took a moment before is still in flight when the promise is resolved, so "ready
  to suspend" may come too early. `FlushTakesAll` is what does hold: nothing that was unsent at
  the call is in the buffer again, and once the promise is settled nothing of it is on its way but what
  was in flight at the call.
* The Zipkin writer's `encode` hands the array of spans through, so `_size` counts
  spans and `MAX_SIZE` is eight million of them. `BufferBound` holds in that unit.
* A promise that is resolved with a thenable is destroyed at that moment, though
  its thenable's `then` is still to be called as that promise; it finds no span.
  Without thenables `KeepsContext` holds.

### What the properties leave out

These the code does otherwise than a user may expect; the models have them, and the
properties are stated so as to say where they do not hold:

* `tracer.wrap`, `dns`, a query of `mysql` without a callback, a query that `pg` refuses, an
  `elasticsearch` call with the callback in the place of its options, and the driver's own
  callbacks of `cassandra-driver` run their callback wherever the library calls it
  (`TracedUnbound`).
* A query that `pg` refuses while no other is queued, that call of `elasticsearch`, `parse` of
  graphql for a document without an operation, and a query of knex whose driver throws at once
  leave their span open (`TracedForgetful`), and with it the trace. A query that `pg` refuses while
  another is queued is finished with the outcome of that one (`pg.js:29`). A wrapper that is not
  in `TracedGuarded` leaves its span open when the library throws instead of calling back.
* `trace()` and `wrap()`, and the operations of `cassandra-driver`, record a failure only if it is an
  Error (`TracedErrorsOnly`, `tracer.js:104`): a call that is rejected with a string has a span
  without an error. A query of `mysql` without a callback, and a rejection without a message in
  knex, record none (`TracedQuiet`); the latter throws in `addError`, so that neither the
  span is finished nor the application's promise settled (`knex.js:88`).
* A layer of express that throws before it returns leaves its span on the stack (`router.js:112`).
  The layer that ends next, or the end of the response, ends that span; after that end nobody does, and
  the trace is not reported. Its path stays in the route, as does that of a layer that called
  `next(err)`, was matched and not called, or was tried by another request meanwhile
  (`router.js:95`). `NoOrphans`, `OwnSpan` and `RouteInStep` say what holds beside these.
* Where another tracer's context comes in without a decision to two services, or twice, each
  decides for itself (`priority_sampler.js:37-50`). `OneDecision` is of those that go back to one
  entry.
* A headers object that the application uses for two requests has the context of the first when
  the second is signed for AWS, or has the no-op span under B3. `Linked` is of requests
  that inject. Baggage of the first that the second does not set stays in the object and arrives with
  it; `ItemsArrive` says that nothing else does.
* On a bound emitter, `removeListener` does not find a listener that was added with `once()`.
  `removeAllListeners()` without an event forgets the listeners and removes none, because
  Node counts arguments and is given one that is undefined; `docs/API.md:180-182` promises no
  more than that listeners are bound. A bound function that is added again (`base.js:121`) is twice in
  the list of Node and once in the table, so that `removeListener` takes one of the two.
* A pause of the collector between reading its histogram and resetting it is in no report.
  `CountedOnce` says that none is in two.

Bounds. Three spans in two traces are the fewest with a buffered trace, an open
one and a late child at once; one call of `flush` can meet a batch of the interval
and a full buffer. `MaxSize = 2` makes the buffer overflow with the second trace, and
a trace of three spans is larger than the buffer by itself. The agent run has
two spans because the choices of the samplers multiply; parent and child, with
inject before and after the export, are enough for every clash of priorities. In
the scope, `MaxDepth = 2` puts a resource inside another one and
`MaxNesting = 2` an activation inside another one of the same resource, so that what is
restored is once the inherited span and once an activated one. In the web run four calls are
enough for a stack of two with an overlap and a late call; two mounted ones make
the order of paths matter, with one more call to be skipped, to throw or to come late. In the instrumenter run one plugin has two modules, so
that it can fail with the second after the first is patched, while the other has a
module that `require.cache` does not show. In the graphql run two items of a list with a field each are the fewest that
collapse into one span, and the third level makes a field whose direct parent is missing. In the run of calls two are the
fewest that nest, follow each other in a callback and share a connection, and every operation may
be either. In the emitter run three registrations make one listener that is added twice beside
another one. In the metrics run a message of a name is longer than a datagram and two others fill one;
`Width = 8` is more than the spans, so that a counter below zero shows. In the propagation run three
parts and two requests are the fewest with one request below another, one received twice and two
with the same headers, and a context of another tracer that comes twice has one part left behind it; a second value of the item tells a later setting from an earlier one.
The bounds are `MaxFlushes`, `MaxDepth`, `MaxNesting`, `MaxMade`, `MaxTurns`, `MaxPauses`, `MaxCount`
and `MaxLookups`. `SYMMETRY` is
used in runs of safety properties only. `CHECK_DEADLOCK FALSE` because the
systems may really stop: a process exits, a script may have nothing to run, a
request is over.

Fairness (`FairSpec`). The interval timer fires again and again while the process
lives. Each request is concluded: an idle socket is aborted after two seconds. The
process ends when nothing is left to do. The promises of resolvers
are settled and graphql goes on with what they gave. Nothing is assumed of the
application, so `TidyReported` has the assumption that it finishes its spans in its
own statement.

## What is proved

`TracePipelineProofs` proves for all sets of spans and traces, both writers, any
rates, sizes and bounds that satisfy `PipelineAssumption`:

* `TypeCorrect`: `Spec => []TypeOK`. In particular every buffered trace has a
  decided priority.
* `FinishedOnce`: `Spec => []OnePlace`.
* `ListsAgree`: `Spec => []TraceObjects`.
* `NeverTwice`: `Spec => []SentOnce`.

`OnePlace` is not inductive: nothing in it says that the spans of a complete trace
are not also in the queue. The inductive invariant is `SpanInv`, that is `TypeOK`,
`TraceObjects` (the lists of a trace hold its own spans, all that are open and the
finished ones that were not exported), `WriterOK` (queue and requests are
pairwise disjoint) and the partition of the finished spans over traces, writer
and done. The lemmas before it say what `Flushed`, `Appended` and `Recorded` do to
the spans that a writer holds. `SpanInvStep` has one step per action.

The second half of the module proves the other properties of the pipeline on top of `SpanInv`:

* `AtMostOnce` (`DeliveredOnce`). `Got` says how often the agent has got a span by where it is:
  once in a request that has arrived, not before it was sent. That a new request has
  no span of another (`Sends`) comes from `SpanInv`.
* `DecidedOnce` (`OnePriority`). A priority changes only while it is undefined, and then
  nobody was told of it: a chunk has a decided one, by the types.
* `WholeTraces` (`ExportIsWhole`). Only the last `finish()` adds a chunk (`ChunksStep`), and what
  it exports are all the started spans of its trace (`Leaves`), because the lists agree.
* `BufferBounded` (`BufferBound`), where `EncodedLength` of disjoint traces adds up, and
  `FlushTakes` (`FlushTakesAll`): what was unsent at a call has been requested since, and
  is in the batch of the call unless it was in flight before (`Flushes`).
* `NothingLeftBehind` (`GracefulExit`), for an application that starts no work at exit. With such
  work the property is false, which is why the run of the agent does not have it.
* `Implements` (`ReportsSpans`): every step of the pipeline is one of SpanReporting or leaves the
  mapped variables alone. `Places` reads the stage of a span off the place where it is. A step
  like `FinishEarly` that finishes one span could also flush older ones; that it does not,
  without an interval, is `Immediate`: then nothing is ever queued.

`ScopeManagerProofs` proves for any finite set of resources and any spans `TableIsKept`
(`Bookkeeping`), `ActiveIsRight` (`ActiveIsInnermost`) and the refinement `KeepsEverySpan`
(`KeepsContext`). The entry of a resource in the table is the only thing that is read, and the
resources share it with the `activate()` calls that are pending, each of which has a copy in a
local. `Chained` ties them together: the entry is the span of the last pending call, each call has
kept the span of the one before, and the first what the resource was created under, which
therefore comes back whatever returns or throws. `Placed` says that a resource is on the stack at
most once and is not over while it is there; `Used` that the ids which the scope manager keeps
elsewhere were initialised. From this `HeldIs` reads what AsyncContext says a resource holds off the table, or off the first local
while `activate()` has overwritten it. The refinement has the hypothesis `~Thenables`: a promise that
is resolved with a thenable does lose its span (`ScopeThenable.cfg`), so that without it there is
nothing to prove.

`InstrumenterProofs` proves for any plugins, instrumentations and modules
`NeverWrappedTwice` (`WrappedOnce`), `FailsWholly` (`NothingLeft`), `FailsOnItsOwn`
(`FailsAlone`), `HookCovers` (`SeenIsPatched`) and `TypeCorrect`. The invariant `IInv` adds two
facts. `Kept`: what is remembered is wrapped, so that a module that `_patch` leaves
alone is patched. `Hooks`: from the first hook on every registered plugin is in
`_names`, so that no module is shown to `hookModule` in vain. `PatchedKeeps` says what
`_patch` with `_fail` does to these, and `SetKeeps` and `HookKeeps` carry it to the two
callers.

`WebRequestProofs` proves for any finite set of calls, mounted or not, and both frameworks
`InnermostFirst` (`NestedSpans`) and `NoMoreThanRun` (`NoOrphans`). The span that `Finish` takes
is on top of the stack, and the invariant `Stacked` says that a span on the stack has its parent
right below it. As the stack has no span twice, the one on top is the parent of none. That a
call which runs is not on the stack already needs `Known`: a call with a span is running or was
done. `Enough` counts: a call that is done takes one span off a stack that may be empty, and at most
one call with a span out of those that run, so the stack stays the shorter of the two. A call that
throws to express takes no span and is counted among `Unended` from then on.

`EndsItsOwnSpan` (`OwnSpan`) and `RouteOfLayers` (`RouteInStep`) are of the same module. Both say
that a stack keeps the calls that run, of a set of them, in their order (`Keeps`), and they are proved
together by what starting and ending a call do to it (`KeepsPush`, `KeepsPop`). What others left
there, a span of a call that threw or the path of a layer that failed, may lie in between, so
that an ending call may take such a span and not its own: then its own stays, which `Keeps`
allows and the second conjunct, without throws, does not. The end of the response takes
the whole stack, but the calls run on, and later ones push spans again; `Below` is what keeps
those in line: below a call whose span it took there is none whose span it left. `Passed` says
where the paths come from, and `Apart` that no call runs twice.

`LibraryCallProofs` proves for any calls, spans and operations that satisfy `CallAssumption`,
`TableAssumption` and `FinishAssumption` `CallbacksInContext` (`CallersContext`),
`NothingOfTheWriter` (`SilentUpload`) and `OutcomeReachesSpan` (`OutcomeOnSpan`). TLC evaluates the
assumptions on the operations of LibraryPlugins. The latter two say what a wrapper owes: it binds
the callback unless it is known not to, activates only a span, and has every final event of
the library end the span, and every failure that it owes (`Owed`) recorded, unless it is one of the
exceptions. These are about one event each. What is left to prove is that this is enough in
whatever order return, throw, callback and promise come, several of them, of calls that are nested
and of queries that ride on another's callback: `Told` says of each call that what was
told of it and ends its span has ended it, and that its span has an error just if what it heard
until then has one that is recorded, so that no error comes too late and none from another call;
`Within` that it heard nothing but what its operation tells. For the other two `IInv` adds that of
the bound spans (`Kept`): what the callback of a call was bound to is what its caller belongs to.
Without it nothing is known of a callback that is run when its caller's frame is gone.

`PropagationProofs` proves for any parts, requests, headers objects and baggage that satisfy
`PropagationAssumption`, and both kinds of headers, `OneDecisionEverywhere` (`OneDecision`),
`RequestsLink` (`Linked`), `BaggageArrives` (`ItemsArrive`) and `TypeCorrect`. `OneDecision` is of
parts, but a decision travels in headers that are under way or in an object that is used again,
so `Agree` says it of all who know of a trace (`Holds`), and of a trace that another tracer began
without deciding, of all who have it from the same part. A part that has not decided is the first to have it
there, and the only one (`Sole`), and nobody knows of a trace that is still to begin (`Fresh`),
so that a decision made now has none to agree with. `Imported` says that a decision of another
tracer came in somewhere, `ForeignDecisions` that it sends no two. `Dropped` is needed because all no-op spans
share a trace. `Links` ties what was sent to its sender, for the other two properties, and `Carried`
says that the items of a headers object are of requests that it was used for.

`GraphqlExecutionProofs` proves for any fields, depths and number of executions `OpenWhileRunning`
(`RunsInOpenSpan`), `FinishedTogether` (`NestedFields`), `ErrorsAreKept` (`ErrorsShow`),
`TypeCorrect`, and `TreeOfTheQuery` (`FollowsQuery`). The invariant ties the three records of a
resolver together: `Called` says that it has a field and that those above it have returned,
`Started` that a field has the errors of all resolvers that share it, and `Closed` that spans are
finished only when the execution that owns them has no resolver left or has failed. `ParentFirst`
is why `FinishedTogether` holds: a field was added to the object after the one its span is below, so
that in the reverse order it is finished before it. `AboveIs` says
that `getParentField` finds the nearest field. It stays the nearest only because no field is
started later between the two, and this is what graphql's order gives, if the items of a list are
alike (`LikeItems`): if one of them has a traced resolver at some path, so has each other one that
has anything below. The code does not ensure that. `wrapFields` does not reach the types of a union,
and a list may hold items of which some have a resolver that is traced and others one that is not. Then,
with `collapse`, the span of `friends.*.pets.name` may be started for one item before that of
`friends.*.pets` for another, and stays beside it. TLC shows it when
`<<"friends", "1", "pets">>` is left out of `Paths`. So the theorem has `LikeItems` as its
hypothesis, and `Paths` has it, too.

`MetricsAndEmitterProofs` has the theorems of the two components whose steps are loops. Of
RuntimeMetrics it proves for any finite sets of spans and names, any tags, any sizes of messages
and any limit:

* `CountersAreRight` (`SpansCounted`): what a step adds to a counter it adds to the set that the
  counter is of (`Tracks`), and no set is as large as `Width`, so that nothing wraps.
* `EachCountedOnce` (`CountedOnce`), `NamesAreWithinTotals` (`NamesInTotals`) and
  `ReportsArePacked` (`Packed`). Their invariant `RInv` adds to the counters what the interval
  has read (`Readings`) and what a batch is (`Batches`). The totals that were read are at least the
  spans that are there now, because between them and the names nothing but the collector
  runs, and it only takes spans away. `read.pauses <= pauses` until the pauses are reset is
  why a pause may be lost with the reset and is never reported twice. `ReportRight` reads sums
  and names off a report, `CapturedRight` and `LookupStep` carry them into the batches and out.

These are about sums, flattened sequences and a client that writes in a loop. The induction
theorems of the library have an operator as parameter, which the prover cannot instantiate;
`Induct` is induction over an interval for a *set* of numbers instead, proved from the least
element of a finite set of numbers, and `Recursion` says that a function which is defined by
its previous value exists. From these come `Totals`, `TotalConcat`, `TotalWithout`,
`FlattenAppend` and `DatagramsRight` for sequences of any length.

Of BoundEmitter, which it takes as an instance on the state that EmitterProperties declares, it
proves for any listeners, any spans, finitely many or not, and any number of registrations:

* `TablesAlwaysAgree` (`TablesAgree`) and `EmitterActsAsList` (`ActsAsList`). `removeListener`
  takes what its table has out of the list of Node, one function at a time, each the last that is
  meant; `AllRemoved` says by induction over that loop that what is left is the list without them,
  in its order (`Left`). The invariant `EInv` adds that no registration is in the list
  twice (`Numbered`), so that the last that is meant is the only one; that what an emit has
  still to call is the same function as in the list, if it is there (`Same`), so that a
  wrapper of `once()` which removes itself removes no other; and that the table has only functions
  that are bound to a span (`Bound`), so that a listener from before the emitter was bound
  is none of them. With these each action is the one of ListenerList (`BindStep` to `DoneStep`).
  Both rest on `EmitterAssumption`: the markers for "unbound" and for "the active span" are not spans.

Only model-checked is the liveness property `TidyReported`: fairness is out of the prover's reach.

## What is not modelled

* Data that no property reads: ids, names, logs, timestamps, tags other than those of
  sampling and errors, and the layout of formatted spans. `format` and `encode` are taken
  to succeed. The names of baggage items are in lower case, as HTTP makes them.
* A promise chain's extra ticks are not steps of their own: `flush`'s promise is known by the
  requests it stands for.
* `bindPromise` of the scope binds the two functions of `then()` and keeps nothing; the
  promise plugins, which do the same, are `PromiseThen` of LibraryPlugins. Emitting an event
  from a listener of the same event is left out of BoundEmitter.
* `stop()` of the metrics, which nothing in `src/` calls, and the gauges of memory, heap and
  processor, which are read and written in one step.
* The propagators for logs and for binary carriers: the one copies two ids, the other is empty.
* hapi, restify and adonis, which put layers over `web.js`; `createGuardsFn` of nest; the
  log injection of bunyan, pino and winston, which adds two ids to a record.
* The shims for `async_hooks`, which choose between Node's and a package; configuration,
  logging, the clock; the vendored t-digest.

## Plan

Done: the pipeline and its abstract specification, the scope with its own, the web request, the
instrumenter, graphql, library calls, the bound emitter with its abstract specification, the
metrics and propagation.

All safety properties and refinements of the runs are proved; `TidyReported` stays with TLC.

Left: web requests over the pipeline, so that `NestedSpans` gives the assumption of
`TidyReported`, and the layers of restify and hapi over the web request.
