---- MODULE LibraryCall ----
(***************************************************************************)
(* Calls of libraries that are traced: tracer.trace and tracer.wrap, and   *)
(* the plugins that put a span around a database, cache, queue or network  *)
(* call (LibraryPlugins).  A plugin starts a span below the active one,    *)
(* calls the library with that span active, and finishes it when the       *)
(* library returns, throws, calls back, settles a promise or emits an      *)
(* event, before the application learns of it.                             *)
(*                                                                         *)
(* An operation says which of these its plugin does.  What runs is a stack *)
(* of frames, each with the span that is active in it; activate and bind   *)
(* restore, so that a frame keeps its span until it is left (ScopeManager).*)
(***************************************************************************)
EXTENDS FiniteSets, Sequences, SequencesExt

CONSTANTS
    Call,        \* calls; a call with a span of its own is that span
    Root,        \* spans that the application makes by itself
    None, Noop,  \* no span; the no-op span
    Anyone,         \* no promise is made about a frame's span
    Operations,  \* what is called: an operation of some plugin
    Unbound,     \* those whose callback runs wherever the library calls it
    Forgetful,   \* those that leave their span open
    Guarded,     \* those whose span is finished when the library throws
    ErrorsOnly,  \* those that may miss a failure that is not an Error
    Quiet        \* those that may miss any failure

\* A call fails with an Error or, where the plugin tells them apart, with
\* another value that is true, as a string.
Event   == {"ok", "error", "value", "response", "end", "close", "connect", "timeout"}
Thrown  == {"throw", "throwValue"}
Failure == {"error", "value"} \cup Thrown
Outcome == Event \cup Thrown \cup {"return"}

Operation == [
    span     : {"child", "connected", "built", "root", "noop", "none"},
    active   : BOOLEAN,          \* the library runs with the span active
    callback : {"bound", "unbound", "silent"},
    early    : BOOLEAN,          \* it may answer before it has returned
    queue    : {"none", "own", "other"},  \* whose callback is wrapped, in a
                                          \* queue of the library
    events   : SUBSET Event,     \* what it may tell, and what comes last
    final    : SUBSET Event,
    ends     : SUBSET Outcome,   \* what finishes the span
    tags     : SUBSET Outcome]   \* what is recorded on it as an error

Spans == Call \cup Root \cup {None, Noop}

ASSUME CallAssumption ==
    /\ IsFiniteSet(Call)
    /\ Call \cap (Root \cup {None, Noop, Anyone}) = {}
    /\ Root \cap {None, Noop, Anyone} = {}
    /\ None # Noop /\ Anyone \notin {None, Noop}
    /\ Operations \subseteq Operation
    /\ Unbound \subseteq Operations /\ Forgetful \subseteq Operations
    /\ Guarded \subseteq Operations /\ ErrorsOnly \subseteq Operations
    /\ Quiet \subseteq Operations

\* Only those in Unbound leave the callback to the library, and what is made
\* active is a span.
ASSUME TableAssumption == \A o \in Operations :
    /\ o.callback = "unbound" => o \in Unbound
    /\ o.active => o.span # "none"

\* The failures that the plugin of operation o owes to the span.
Owed(o) == {"error"} \cup (IF o \in Guarded THEN {"throw"} ELSE {})
                     \cup (IF o \in ErrorsOnly THEN {} ELSE {"value"})

\* What a wrapper does: whatever ends the call ends its span, except for those
\* in Forgetful, and nothing but a failure is taken for an error.
ASSUME FinishAssumption == \A o \in Operations :
    /\ o.tags \subseteq Failure
    /\ o.span # "none" /\ o \notin Forgetful =>
          /\ o.final \subseteq o.ends
          /\ o.events = {} => "return" \in o.ends
          /\ o \in Guarded => Thrown \subseteq o.ends
          /\ o \notin Quiet => (o.events \cup Thrown) \cap Owed(o) \subseteq o.tags
          /\ o.queue # "other"

VARIABLES
    stack,    \* the frames that run, the innermost last
    op,       \* the operation of each call, a set of at most one
    phase,    \* new, built, inside, pending, over
    span,     \* the span that the plugin started for the call
    parent,   \* the span that a query was built in, until the query runs
    saved,    \* the span that the callback was bound to
    caller,   \* the span that the calling code belongs to (history)
    rides,    \* the call whose callback was wrapped in the place of its own
    known,    \* what the library has told so far
    outcome,  \* what it had told when the span was finished
    erred     \* the spans with an error

vars == <<stack, op, phase, span, parent, saved, caller, rides, known, outcome, erred>>

Frame == [of : Call \cup {None}, part : {"app", "inside", "callback"},
          span : Spans, cause : Spans \cup {Anyone}]

Top    == Last(stack)
Active == Top.span
Is(c, o) == op[c] = {o}
Ended(c) == outcome[c] # {}

----------------------------------------------------------------------------

\* Mutant of SpanFor: only a reference of the no-op kind makes the no-op span.
SpanForReference(c, o, below) ==
    CASE o.span = "none" -> None
      [] o.span = "noop" \/ (o.span = "connected" /\ below = None) -> Noop
      [] OTHER -> c

\* startSpan of the plugin, below the span that is active: a reference of the
\* no-op kind and a parent that is the no-op span give the no-op span.
SpanFor(c, o, below) ==
    CASE o.span = "none" -> None
      [] o.span = "root" -> c
      [] \/ o.span = "noop" \/ below = Noop
         \/ o.span = "connected" /\ below = None -> Noop
      [] OTHER -> c

\* The application runs: a request in the span of its own, a timer without
\* one, or the writer's request in the span of no report.
Enter(s) ==
    /\ stack = <<>>
    /\ stack' = <<[of |-> None, part |-> "app", span |-> s, cause |-> s]>>
    /\ UNCHANGED <<op, phase, span, parent, saved, caller, rides, known, outcome, erred>>

\* What a call left behind runs on with its span, as scope.activate has it.
Resume(c) ==
    /\ stack = <<>>
    /\ phase[c] \in {"pending", "over"}
    /\ \E o \in op[c] : o.active
    /\ stack' = <<[of |-> c, part |-> "app", span |-> span[c], cause |-> span[c]]>>
    /\ UNCHANGED <<op, phase, span, parent, saved, caller, rides, known, outcome, erred>>

\* A callback, or what Enter and Resume started, is done.
Leave ==
    /\ stack # <<>> /\ Top.part # "inside"
    /\ stack' = Front(stack)
    /\ UNCHANGED <<op, phase, span, parent, saved, caller, rides, known, outcome, erred>>

\* A query is built, and keeps the span that is active for when it runs.
Build(c, o) ==
    /\ stack # <<>> /\ phase[c] = "new" /\ o.span = "built"
    /\ op' = [op EXCEPT ![c] = {o}]
    /\ phase' = [phase EXCEPT ![c] = "built"]
    /\ parent' = [parent EXCEPT ![c] = Active]
    /\ UNCHANGED <<stack, span, saved, caller, rides, known, outcome, erred>>

\* Mutant of Bound: the wrapper is made when the span is active already.
BoundInside(c, o, s) == IF o.active THEN s ELSE Active

\* The span that a callback of operation o is bound to: the active one.
Bound(c, o, s) == Active

\* The wrapped function is called, and calls the library.
Start(c, o) ==
    /\ stack # <<>>
    /\ IF o.span = "built" THEN phase[c] = "built" /\ Is(c, o) ELSE phase[c] = "new"
    /\ LET below == IF o.span = "built" THEN parent[c] ELSE Active
           s     == SpanFor(c, o, below)
       IN /\ parent' = [parent EXCEPT ![c] = None]
          /\ span' = [span EXCEPT ![c] = s]
          /\ saved' = [saved EXCEPT ![c] = Bound(c, o, s)]
          /\ caller' = [caller EXCEPT ![c] = Top.cause]
          /\ stack' = Append(stack, [of    |-> c,
                                     part  |-> "inside",
                                     span  |-> IF o.active THEN s ELSE Active,
                                     cause |-> IF o.active THEN s ELSE Top.cause])
    /\ op' = [op EXCEPT ![c] = {o}]
    /\ phase' = [phase EXCEPT ![c] = "inside"]
    /\ UNCHANGED <<rides, known, outcome, erred>>

\* Call c's span follows what the library tells of call d: that of c itself,
\* or of the one in the queue when c returned.
Hears(c, d) ==
    IF \E o \in op[c] : o.queue = "other" THEN d \in rides[c] ELSE c = d

\* The calls with a span that is open and that follows call d.
Hearing(d) == {c \in Call : span[c] = c /\ ~Ended(c) /\ Hears(c, d)}

EndedBy(d, e)  == {c \in Hearing(d) : \E o \in op[c] : e \in o.ends}
TaggedBy(d, e) == {c \in Hearing(d) : \E o \in op[c] : e \in o.tags}

\* Mutant of Tell: the span is finished first, and the error comes too late.
TellFinished(d, e) ==
    /\ known' = [known EXCEPT ![d] = @ \cup {e}]
    /\ outcome' = [c \in Call |-> IF c \in EndedBy(d, e) THEN known'[d] ELSE outcome[c]]
    /\ erred' = erred \cup (TaggedBy(d, e) \ EndedBy(d, e))

\* What is done when the library tells e of call d: an error is recorded on
\* the span, and the span is finished, where it is not finished already.
Tell(d, e) ==
    /\ known' = [known EXCEPT ![d] = @ \cup {e}]
    /\ outcome' = [c \in Call |-> IF c \in EndedBy(d, e) THEN known'[d] ELSE outcome[c]]
    /\ erred' = erred \cup TaggedBy(d, e)

InsideOf(c) == stack # <<>> /\ Top.of = c /\ Top.part = "inside"

Answered(c, o) == known[c] \cap o.final # {}

\* A query of an older call that the library still has in its queue.
Queued(d) ==
    phase[d] = "pending" /\ \E o \in op[d] : o.queue = "own" /\ ~Answered(d, o)

Return(c) ==
    /\ InsideOf(c)
    /\ \E o \in op[c] :
        /\ phase' = [phase EXCEPT ![c] =
                        IF o.events = {} \/ Answered(c, o) THEN "over" ELSE "pending"]
        /\ IF o.queue = "other"
           THEN \E q \in {{}} \cup {{d} : d \in {d \in Call : Queued(d)}} :
                    rides' = [rides EXCEPT ![c] = q]
           ELSE UNCHANGED rides
    /\ Tell(c, "return")
    /\ stack' = Front(stack)
    /\ UNCHANGED <<op, span, parent, saved, caller>>

Throw(c) ==
    /\ InsideOf(c)
    /\ \E o \in op[c], e \in Thrown :
        /\ e = "throwValue" => o \in ErrorsOnly
        /\ Tell(c, e)
    /\ phase' = [phase EXCEPT ![c] = "over"]
    /\ stack' = Front(stack)
    /\ UNCHANGED <<op, span, parent, saved, caller, rides>>

\* The frame of the application's callback: a bound one runs with what it is
\* bound to, another one with what is active where the library calls it.
Callback(c, o, where) ==
    [of    |-> c,
     part  |-> "callback",
     span  |-> IF o.callback = "bound" THEN saved[c] ELSE where,
     cause |-> IF o \in Unbound THEN Anyone ELSE caller[c]]

\* The library tells e, in the loop with any span active (its connection may
\* be an older call's), or before it has returned.  What is active there is
\* seen by a callback that is not bound only.
Deliver(c, e, where) ==
    /\ \E o \in op[c] :
        /\ \/ /\ phase[c] = "pending" /\ stack = <<>>
              /\ where = None \/ o.callback = "unbound"
           \/ phase[c] = "inside" /\ o.early /\ InsideOf(c)
              /\ where = Active /\ ~Answered(c, o)
        /\ e \in o.events \ known[c]
        /\ where \in Root \cup {None, Noop} \cup {span[d] : d \in Call}
        /\ e = "end" /\ "response" \in o.events => "response" \in known[c]
        /\ phase' = IF phase[c] = "pending" /\ e \in o.final
                    THEN [phase EXCEPT ![c] = "over"] ELSE phase
        /\ stack' = IF o.callback = "silent" THEN stack
                    ELSE Append(stack, Callback(c, o, where))
    /\ Tell(c, e)
    /\ UNCHANGED <<op, span, parent, saved, caller, rides>>

----------------------------------------------------------------------------

Init ==
    /\ stack = <<>>
    /\ op = [c \in Call |-> {}]
    /\ phase = [c \in Call |-> "new"]
    /\ span = [c \in Call |-> None] /\ parent = [c \in Call |-> None]
    /\ saved = [c \in Call |-> None] /\ caller = [c \in Call |-> None]
    /\ rides = [c \in Call |-> {}] /\ known = [c \in Call |-> {}] /\ outcome = [c \in Call |-> {}]
    /\ erred = {}

Next ==
    \/ \E s \in Root \cup {None, Noop} : Enter(s)
    \/ Leave
    \/ \E c \in Call :
        \/ /\ phase[c] \in {"new", "built"} /\ stack # <<>>
           /\ \E o \in Operations : Build(c, o) \/ Start(c, o)
        \/ Return(c) \/ Throw(c) \/ Resume(c)
        \/ \E o \in op[c] : \E e \in o.events, where \in Spans : Deliver(c, e, where)

Spec == Init /\ [][Next]_vars

----------------------------------------------------------------------------
\* Properties.

TypeOK ==
    /\ stack \in Seq(Frame)
    /\ \A c \in Call : op[c] \subseteq Operations /\ Cardinality(op[c]) <= 1
    /\ phase \in [Call -> {"new", "built", "inside", "pending", "over"}]
    /\ span \in [Call -> Call \cup {None, Noop}] /\ parent \in [Call -> Spans]
    /\ saved \in [Call -> Spans] /\ caller \in [Call -> Spans \cup {Anyone}]
    /\ rides \in [Call -> SUBSET Call]
    /\ known \in [Call -> SUBSET Outcome] /\ outcome \in [Call -> SUBSET Outcome]
    /\ erred \subseteq Call

\* All code runs with the span of the code that caused it: a callback, however
\* late and in whatever span the library calls it, with that of the caller.
CallersContext ==
    \A i \in DOMAIN stack : stack[i].cause # Anyone => stack[i].span = stack[i].cause

\* What the span of a call was told when it was finished, or so far.
Heard(c) == IF Ended(c) THEN outcome[c] ELSE known[c]

\* When the application is told how a call ended, the span of the call is
\* finished.  It has an error only if it was told of a failure before that,
\* and has one if it was told of a failure that the plugin owes to it.
OutcomeOnSpan ==
    TypeOK /\ \A c \in Call : \A o \in op[c] :
        span[c] = c =>
        /\ \/ Answered(c, o)
           \/ o.events = {} /\ "return" \in known[c]
           \/ o \in Guarded /\ known[c] \cap Thrown # {}
           => Ended(c) \/ o \in Forgetful
        /\ o \notin Forgetful =>
              /\ c \in erred => Heard(c) \cap Failure # {}
              /\ Heard(c) \cap Owed(o) # {} => c \in erred \/ o \in Quiet

\* What the writer's request does, which runs below the no-op span, makes no
\* span that would have to be sent in its turn: neither the calls in it nor
\* their callbacks, on whatever connection they come.
SilentUpload ==
    \A c \in Call : caller[c] = Noop =>
        span[c] # c \/ \E o \in op[c] : o.span \in {"root", "built"}
====
