---- MODULE LibraryPlugins ----
(***************************************************************************)
(* The operations that the tracer's API and the plugins put a span around, *)
(* as LibraryCall reads them.  A wrapper that differs from the common ones *)
(* names what it does otherwise.                                           *)
(***************************************************************************)

\* To most plugins any failure is an error, and "error" stands for all.
Answer == {"ok", "error"}
Thrown == {"throw", "throwValue"}
NotError == {"value", "throwValue"}

\* The callback is wrapped before the call, in the caller's context: tx.wrap,
\* or scope.bind to the span that was active.
Called == [span |-> "child", active |-> TRUE, callback |-> "bound", early |-> TRUE,
           queue |-> "none", events |-> Answer, final |-> Answer, ends |-> Answer,
           tags |-> {"error"}]

\* The outcome is wrapped after the call, and no library tells it before: the
\* promise that was returned, or a callback that is still in a queue.
Settled == [Called EXCEPT !.early = FALSE]

\* The span is that of the call itself, with try, catch and finally.
Enclosed == [Settled EXCEPT !.callback = "silent", !.events = {}, !.final = {},
                            !.ends = {"return"} \cup Thrown, !.tags = Thrown]

\* Only the callback is wrapped; there is no span.
Lent == [Called EXCEPT !.span = "none", !.active = FALSE, !.ends = {}, !.tags = {}]

Catching(o) == [o EXCEPT !.ends = @ \cup Thrown, !.tags = @ \cup Thrown]

\* Only an Error is recorded; a failure with another value ends the span.
Picky(o) ==
    LET also == IF o.events = {} THEN {} ELSE {"value"}
    IN [o EXCEPT !.events = @ \cup also, !.final = @ \cup also, !.ends = @ \cup also,
                 !.tags = @ \ NotError]

----------------------------------------------------------------------------
\* tracer.trace, for a function that returns, one that returns a promise, and
\* one that is given done; tracer.wrap of a function with a callback, which
\* runs wherever the function calls it.

TraceSync == Picky(Enclosed)
TracePromise == Picky(Catching(Settled))
TraceDone == [Picky(Catching(Called)) EXCEPT !.callback = "silent"]
WrapCallback == [Picky(Catching(Called)) EXCEPT !.callback = "unbound"]

\* then() of bluebird, q and when.
PromiseThen == [Lent EXCEPT !.early = FALSE]

----------------------------------------------------------------------------
\* Databases and caches.

\* The callback is taken from the command that the library has queued.  A
\* query without one is over when it emits 'end', and has no listener for
\* its error.
MysqlQuery == Settled
MysqlStream == [Settled EXCEPT !.callback = "unbound", !.events = {"error", "end"},
                               !.final = {"end"}, !.ends = {"end"}, !.tags = {}]
MysqlGetConnection == Lent
Mysql2Query == MysqlQuery
Mysql2Stream == MysqlStream

\* The query is the last in the queue or the active one.  A query that the
\* client has refused is neither: its span ends with an older call's query,
\* whose callback is wrapped once more, or stays open if there is none.
PgQuery == [Settled EXCEPT !.queue = "own"]
PgRefused == [Settled EXCEPT !.callback = "unbound", !.queue = "other",
                             !.events = {"error"}, !.final = {"error"}]

RedisInternalSendCommand == Called
RedisSendCommand == Called
IoredisSendCommand == Settled

\* The parent is taken at the call, the callback from what the compiler of the
\* query returns during it.
MemcachedCommand == Called

MongodbOperation == Called
MongodbNext == Called

ElasticsearchCallback == Called

ElasticsearchPromise == Settled

\* The callback in the place of the options, which a function of three
\* parameters is given as it is.
ElasticsearchOptions == [Called EXCEPT !.callback = "unbound", !.ends = {}, !.tags = {}]

\* The plugin's own finish() records an Error only, tx.wrap anything.
CassandraInnerExecute == Picky(Called)
CassandraExecute == Settled
CassandraBatch == [Catching(Called) EXCEPT !.tags = @ \ {"throwValue"}]
CassandraBatchPromise == [Catching(Settled) EXCEPT !.tags = @ \ {"throwValue"}]

\* The driver's own callbacks: the plugin reads the connection in them.
CassandraStart == [Lent EXCEPT !.callback = "unbound"]
CassandraSend == [Lent EXCEPT !.callback = "unbound"]

\* The builder keeps the active span for the runner.
KnexQuery == [Settled EXCEPT !.span = "built"]

\* A driver that throws at once makes new Promise reject: the span stays open.
KnexThrown == [KnexQuery EXCEPT !.events = {"error"}, !.final = {"error"}, !.ends = {}, !.tags = {}]

\* A rejection without a message throws in addError, and nothing is settled.
KnexUnsettled == [KnexQuery EXCEPT !.callback = "silent", !.events = {"value"},
                                   !.final = {}, !.ends = {}, !.tags = {}]

GenericPoolAcquire == Lent

----------------------------------------------------------------------------
\* Network.

\* The callback is wrapped when it is called, with what is active there.
DnsLookup == [Called EXCEPT !.callback = "unbound"]
DnsLookupService == DnsLookup
DnsResolve == DnsLookup
DnsResolver == DnsLookup
DnsReverse == DnsLookup

\* The first of four events ends the span, and removes the listeners of all.
NetConnect ==
    LET first == {"connect", "error", "close", "timeout"}
    IN [Settled EXCEPT !.span = "connected", !.callback = "silent",
                       !.events = first, !.final = first, !.ends = first]

\* emit of the request is wrapped.  Several of its events may end the span;
\* "close" is also "abort", which does the same.
HttpRequest == [Settled EXCEPT !.events = {"response", "end", "error", "close"},
                               !.final  = {"end", "close"},
                               !.ends   = {"end", "error", "close"}]

\* A URL that is filtered out, as that of the agent is.
HttpFiltered == [HttpRequest EXCEPT !.span = "noop"]

AmqplibSend == Enclosed
AmqplibDispatch == [Enclosed EXCEPT !.span = "root"]

\* send() of amqp10 returns a promise or, once it is settled, nothing.  A
\* frame is received with a span if it is the last of its message.
Amqp10Send == [Catching(Settled) EXCEPT !.span = "root"]
Amqp10Sent == [Enclosed EXCEPT !.span = "root"]
Amqp10Received == [Enclosed EXCEPT !.span = "root", !.ends = {"return"}, !.tags = {}]
Amqp10Partial == [Enclosed EXCEPT !.span = "none", !.active = FALSE, !.ends = {}, !.tags = {}]

----------------------------------------------------------------------------
\* Frameworks: functions of the application or of the framework, each with a
\* span for the time it runs.

SocketEmit == Enclosed
SailsAction == Enclosed
NestCreate == Enclosed
NestRequest == Enclosed
NestHandler == Enclosed
NestIntercept == Enclosed
NestPipes == Enclosed

\* tryActivate of the guards.
NestGuards == Enclosed

\* parse() runs without its span, and leaves it open for a document without
\* an operation.
GraphqlParse == [Enclosed EXCEPT !.active = FALSE]
GraphqlSchema == [GraphqlParse EXCEPT !.ends = Thrown]

----------------------------------------------------------------------------

Traced == {
    TraceSync, TracePromise, TraceDone, WrapCallback, PromiseThen,
    MysqlQuery, MysqlStream, MysqlGetConnection, Mysql2Query, Mysql2Stream,
    PgQuery, PgRefused, RedisInternalSendCommand, RedisSendCommand,
    IoredisSendCommand, MemcachedCommand, MongodbOperation, MongodbNext,
    ElasticsearchCallback, ElasticsearchPromise, ElasticsearchOptions,
    CassandraInnerExecute, CassandraExecute, CassandraBatch,
    CassandraBatchPromise, CassandraStart, CassandraSend, KnexQuery,
    KnexThrown, KnexUnsettled, GenericPoolAcquire, DnsLookup, DnsLookupService, DnsResolve, DnsResolver,
    DnsReverse, NetConnect, HttpRequest, HttpFiltered, AmqplibSend,
    AmqplibDispatch, Amqp10Send, Amqp10Sent, Amqp10Received, Amqp10Partial,
    SocketEmit, SailsAction, NestCreate, NestRequest, NestHandler,
    NestIntercept, NestPipes, NestGuards, GraphqlParse, GraphqlSchema}

\* What is known to keep less than the others do.
TracedUnbound == {WrapCallback, MysqlStream, PgRefused, ElasticsearchOptions,
              CassandraStart, DnsLookup}
TracedForgetful == {PgRefused, ElasticsearchOptions, GraphqlSchema, KnexThrown}
TracedErrorsOnly == {TraceSync, TracePromise, TraceDone, WrapCallback,
              CassandraInnerExecute, CassandraBatch, CassandraBatchPromise}
TracedQuiet == {MysqlStream, KnexUnsettled}
TracedGuarded == {TraceSync, TracePromise, TraceDone, WrapCallback, CassandraBatch,
              CassandraBatchPromise, AmqplibSend, AmqplibDispatch, Amqp10Send,
              Amqp10Sent, GraphqlParse, GraphqlSchema}
====
