---- MODULE WebRequest ----
(***************************************************************************)
(* One request served by the web plugins (plugins/util/web.js with         *)
(* http/server.js, express.js, router.js and koa.js): its root span, the   *)
(* stack of the spans of its middleware, the stack of the paths its route  *)
(* is made of, and the end of its response.                                *)
(*                                                                         *)
(* A span is known by the call of the layer that it stands for.  The       *)
(* plugin does not know which call says that it is done: whoever does, the *)
(* span on top of the stack is finished.                                   *)
(***************************************************************************)
EXTENDS Naturals, FiniteSets, Sequences, SequencesExt

CONSTANTS
    Call,      \* calls of the middleware and handlers of the application
    Mounted,   \* those of layers that are mounted at a path of their own
    Root       \* the span of the request

ASSUME WebAssumption ==
    /\ IsFiniteSet(Call)
    /\ Mounted \subseteq Call
    /\ Root \notin Call

VARIABLES
    koa,           \* the framework: koa with koa-router, or express
    instrumented,  \* req._datadog.span is set, and res.end is wrapped
    middleware,    \* req._datadog.middleware
    paths,         \* req._datadog.paths
    finished,      \* req._datadog.finished
    parent,        \* childOf of each span that was started
    ended,         \* the spans that were finished
    traced,        \* the calls that have a span and a wrapped next
    running,       \* the calls that are not done, in the order they came
    done,          \* the calls that said so: next, or a settled promise
    matched,       \* the layers of express that have a path now: layer.path
    orderly,       \* each call was done once, and the last one first (history)
    thrown,        \* the calls with a span that threw to express (history)
    taken,         \* the spans that the end of the response took (history)
    stray          \* the path of a layer was left behind (history)

request == <<instrumented, middleware, paths, finished>>
calls   == <<traced, running, done>>
history == <<orderly, thrown, taken, stray>>
vars    == <<koa, request, parent, ended, calls, matched, history>>

Spans == Call \cup {Root}

\* web.active, for an instrumented request.
Active == IF middleware = <<>> THEN Root ELSE Last(middleware)

----------------------------------------------------------------------------

\* web.instrument: the server, express or koa starts the span of the request;
\* another one of them that comes later only renames it.
Instrument ==
    /\ ~instrumented
    /\ instrumented' = TRUE
    /\ UNCHANGED <<koa, middleware, paths, finished, parent, ended, calls, matched, history>>

\* The path of a layer: the router of express pushes it when the layer
\* matches, the one of koa puts it in the place of the last one.
Entered(c) ==
    IF c \notin Mounted \/ ~instrumented THEN paths
    ELSE Append(IF koa /\ paths # <<>> THEN Front(paths) ELSE paths, c)

\* The router of express writes the path that matched into the layer, which
\* serves all requests.
Matched(c) == IF koa THEN matched ELSE matched \cup ({c} \cap Mounted)

New(c) == c \notin done /\ ~Contains(running, c)

\* A layer is called: wrapMiddleware starts its span, or calls the layer as
\* it is when the request has no span yet, which koa's first layer sees to.
Handle(c) ==
    /\ New(c)
    /\ koa => instrumented
    /\ running' = Append(running, c)
    /\ paths' = Entered(c)
    /\ matched' = Matched(c)
    /\ IF instrumented
       THEN /\ traced' = traced \cup {c}
            /\ parent' = [parent EXCEPT ![c] = Active]
            /\ middleware' = Append(middleware, c)
       ELSE UNCHANGED <<traced, parent, middleware>>
    /\ UNCHANGED <<koa, instrumented, finished, ended, done, history>>

\* Express has matched a layer and does not call it: a parameter of its path
\* is refused, or it handles errors and there is none, or the other way round.
Skipped(c) ==
    /\ ~koa /\ New(c) /\ c \in Mounted
    /\ done' = done \cup {c}
    /\ paths' = Entered(c)
    /\ matched' = Matched(c)
    /\ stray' = (stray \/ instrumented)
    /\ UNCHANGED <<koa, instrumented, middleware, finished, parent, ended,
                   traced, running, orderly, thrown, taken>>

\* Another request tries a layer that this one came to, and its path matches
\* or does not.
TriedElsewhere(c) ==
    /\ ~koa /\ c \in traced \cap Mounted
    /\ matched' \in {matched \cup {c}, matched \ {c}}
    /\ UNCHANGED <<koa, request, parent, ended, calls, history>>

\* Mutant of Leaves: every layer takes a path away.
LeavesAny(c, error) == ~koa /\ ~error

\* Whether next() of layer c takes a path away: an error keeps the path it
\* came from, and the router of koa takes none away.
Leaves(c, error) == ~koa /\ ~error /\ c \in Mounted \cap matched

\* Mutants of Finish: the oldest span goes; nothing is done after the end.
FinishOldest ==
    IF middleware = <<>> THEN UNCHANGED <<middleware, ended>>
    ELSE /\ middleware' = Tail(middleware)
         /\ ended' = ended \cup {Head(middleware)}

FinishUntilEnd ==
    IF middleware = <<>> \/ finished THEN UNCHANGED <<middleware, ended>>
    ELSE /\ middleware' = Front(middleware)
         /\ ended' = ended \cup {Last(middleware)}

\* web.finish: the span on top of the stack, if there is one.
Finish ==
    IF middleware = <<>> THEN UNCHANGED <<middleware, ended>>
    ELSE /\ middleware' = Front(middleware)
         /\ ended' = ended \cup {Last(middleware)}

\* Call c is no longer running.
Stops(c) ==
    \E i \in DOMAIN running : running[i] = c /\ running' = RemoveAt(running, i)

\* The history of a call that is done: was it the last one that came?
Ordered(c) == orderly' = (orderly /\ running # <<>> /\ Last(running) = c)

\* Call c is done: it calls next, which nothing keeps it from doing again, or
\* its promise is settled, which happens once.
Leave(c, error) ==
    /\ \/ Stops(c)
       \/ c \in done /\ c \in traced /\ ~koa /\ UNCHANGED running
    /\ done' = done \cup {c}
    /\ Ordered(c)
    /\ IF c \in traced
       THEN /\ Finish
            /\ paths' = IF Leaves(c, error) /\ paths # <<>> THEN Front(paths) ELSE paths
            /\ stray' = (stray \/ (~koa /\ c \in Mounted /\ ~Leaves(c, error)))
       ELSE UNCHANGED <<middleware, ended, paths, stray>>
    /\ UNCHANGED <<koa, instrumented, finished, parent, traced, matched, thrown, taken>>

\* Call c throws before it returns.  The layer of express catches that and goes
\* on with a next of its own: the span stays on the stack, and the path in the
\* route.  (The layers of koa are ended like those that are rejected.)
Throw(c) ==
    /\ ~koa /\ Stops(c)
    /\ done' = done \cup {c}
    /\ Ordered(c)
    /\ thrown' = thrown \cup ({c} \cap traced)
    /\ stray' = (stray \/ c \in traced \cap Mounted)
    /\ UNCHANGED <<koa, request, parent, ended, traced, matched, taken>>

\* Mutant of Closed: the middleware spans are left open.
ClosedNothing == ended

\* finishMiddleware: all that is on the stack.
Closed == ended \cup ToSet(middleware)

\* res.end(), for the first time or after one that failed.  It fails when it,
\* or the application's hook, throws: the root span is still open then, and a
\* later res.end() will finish it.
End(fails) ==
    /\ instrumented /\ ~finished
    /\ middleware' = <<>>
    /\ ended' = Closed \cup (IF fails THEN {} ELSE {Root})
    /\ finished' = ~fails
    /\ taken' = taken \cup ToSet(middleware)
    /\ UNCHANGED <<koa, instrumented, paths, parent, calls, matched, orderly, thrown, stray>>

----------------------------------------------------------------------------

Init ==
    /\ koa \in BOOLEAN
    /\ instrumented = FALSE
    /\ middleware = <<>> /\ paths = <<>>
    /\ finished = FALSE
    /\ parent = [c \in Call |-> Root]
    /\ ended = {} /\ traced = {} /\ done = {}
    /\ running = <<>> /\ matched = {}
    /\ orderly = TRUE /\ thrown = {} /\ taken = {} /\ stray = FALSE

Next ==
    \/ Instrument
    \/ \E fails \in BOOLEAN : End(fails)
    \/ \E c \in Call : \/ Handle(c) \/ Skipped(c) \/ TriedElsewhere(c) \/ Throw(c)
                       \/ \E error \in BOOLEAN : Leave(c, error)

Spec == Init /\ [][Next]_vars

----------------------------------------------------------------------------
\* Properties.

\* Every variable has its type, and the stack holds the spans of middleware
\* that are open, each once.
TypeOK ==
    /\ koa \in BOOLEAN /\ instrumented \in BOOLEAN /\ finished \in BOOLEAN
    /\ orderly \in BOOLEAN /\ stray \in BOOLEAN
    /\ thrown \subseteq traced \cap done /\ taken \subseteq traced \cap ended
    /\ middleware \in Seq(Call) /\ paths \in Seq(Mounted) /\ running \in Seq(Call)
    /\ done \subseteq Call /\ traced \subseteq Call /\ matched \subseteq Mounted
    /\ parent \in [Call -> Spans]
    /\ IsInjective(middleware)
    /\ ToSet(middleware) = traced \ ended

\* A span is finished only when no span below it is open, in whatever order
\* the application ends its layers and the response: so the end of a request
\* leaves its trace complete, and it is exported then.
NestedSpans ==
    [][\A s \in ended' \ ended : \A c \in traced : parent[c] = s => c \in ended']_vars

\* The calls with a span that nobody else is known to have ended: they are not
\* done, or they threw to express, and the end of the response came before.
Unended == {c \in traced : Contains(running, c) \/ c \in thrown} \ taken

\* There are never more open middleware spans than such calls, also after the
\* end of the response and with calls that are done twice: once all are done,
\* and none threw since the end, the trace is complete.
NoOrphans == TypeOK /\ Len(middleware) <= Cardinality(Unended)

\* Sequence p has the elements of q that are in S, each once and in the order
\* they have there, and it may have others.
Keeps(p, q, S) ==
    /\ IsInjective(p) /\ ToSet(q) \cap S \subseteq ToSet(p)
    /\ \A i, j \in DOMAIN p : \A k, l \in DOMAIN q :
          i < j /\ p[i] = q[k] /\ p[j] = q[l] => k < l

\* As long as the application ends its layers in order, none of them loses its
\* span before it is done, but to the end of the response, and when none has
\* thrown to express the stack is that of the calls that are not done.
OwnSpan ==
    orderly => /\ Keeps(middleware, running, traced \ taken)
               /\ thrown = {} => ToSet(middleware) \subseteq ToSet(running)

\* And the route of express has the paths of the layers that the request is in,
\* in their order, and only those if no path was left behind by a layer that
\* failed, was not called, or was tried by another request meanwhile.
RouteInStep ==
    orderly /\ ~koa => /\ Keeps(paths, running, traced \cap Mounted)
                       /\ ~stray => ToSet(paths) \subseteq ToSet(running)
====
