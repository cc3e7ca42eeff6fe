---- MODULE ScopeManager ----
(***************************************************************************)
(* The scope manager of the tracer (scope/new/scope.js): one table from    *)
(* asynchronous ids to spans, kept by the init, destroy and promiseResolve *)
(* hooks of async_hooks and overwritten by activate().                     *)
(*                                                                         *)
(* The runtime at the other end of the hooks is Node's and not part of     *)
(* this repository.  It is modelled by the order in which it can emit      *)
(* them: a resource is initialised by what runs, or by Node when nothing   *)
(* does; runs, and not inside itself; and is destroyed when nothing runs.  *)
(* A promise is resolved by what runs, or by its own reaction when that    *)
(* returns, and runs its reaction when nothing else runs.  A handle gets   *)
(* its next id when its previous one does not run.                         *)
(***************************************************************************)
EXTENDS Integers, FiniteSets, Sequences, SequencesExt

CONSTANTS
    Id,            \* asynchronous ids
    Root,          \* the one of the main script
    Early,         \* resources created before the hook was enabled, Root too
    Promise,       \* the ids of promises
    Handle,        \* the ids given one after the other to one TCP or parser handle
    Span, NoSpan,
    KeepAliveBug,  \* Node is too old to emit destroy for a handle that is reused
    Thenables,     \* promises are resolved with thenables of the application
    MaxDepth,      \* bound: resources that run inside one another
    MaxNesting     \* bound: activate() inside activate() within one resource

ASSUME ScopeAssumption ==
    /\ IsFiniteSet(Id)
    /\ Root \in Early /\ Early \subseteq Id
    /\ Promise \subseteq Id \ Early /\ Handle \subseteq Id \ Early
    /\ Promise \cap Handle = {}
    /\ NoSpan \notin Span
    /\ KeepAliveBug \in BOOLEAN /\ Thenables \in BOOLEAN
    /\ MaxDepth \in Nat /\ MaxNesting \in Nat

VARIABLES
    spans,     \* _spans: the span of each id that has an entry
    types,     \* the ids that have an entry in _types
    weak,      \* _weaks: the last id of the handle, as a set
    count,     \* the metric async.resources
    stack,     \* what runs, each with its pending activate() calls
    throwing,  \* an exception is on its way up
    tagged,    \* the spans that carry sfx.error tags
    node       \* what Node has done with each id

table == <<spans, types, weak, count>>
vars  == <<table, stack, throwing, tagged, node>>

Top == Last(stack)

\* executionAsyncId(); asked only while something runs.
eid == Top.id

OnStack(id) == \E i \in DOMAIN stack : stack[i].id = id

Get(f, id) == IF id \in DOMAIN f THEN f[id] ELSE NoSpan

Put(f, id, span) == [i \in DOMAIN f \cup {id} |-> IF i = id THEN span ELSE f[i]]

Drop(f, ids) == [i \in DOMAIN f \ ids |-> f[i]]

\* scope.active()
Active == IF stack = <<>> THEN NoSpan ELSE Get(spans, eid)

----------------------------------------------------------------------------
\* The hooks.

\* Mutant of Uncounted: the metric goes down for every destroy.
UncountedAlways(ids) == count - Cardinality(ids)

\* The metric after the destroy of some ids: it counts those with a type.
Uncounted(ids) == count - Cardinality(ids \cap types)

\* _destroy, for one id or for none.
Destroyed(ids) ==
    /\ spans' = Drop(spans, ids)
    /\ types' = types \ ids
    /\ count' = Uncounted(ids)

\* _init: the new resource inherits the active span.  For a handle that Node
\* reuses without a destroy, the entry of its previous id goes.
Init_(id) ==
    /\ ~throwing
    /\ node[id] = "unused"
    /\ LET stale == IF KeepAliveBug /\ id \in Handle THEN weak ELSE {}
       IN  /\ \A old \in weak : id \in Handle => ~OnStack(old)
           /\ spans' = Drop(Put(spans, id, Active), stale)
           /\ types' = (types \cup {id}) \ stale
           /\ count' = count + 1 - Cardinality(stale \cap types)
           /\ node' = [i \in Id |-> IF i = id THEN "alive"
                                    ELSE IF i \in stale THEN "gone" ELSE node[i]]
    /\ weak' = IF KeepAliveBug /\ id \in Handle THEN {id} ELSE weak
    /\ UNCHANGED <<stack, throwing, tagged>>

\* A resource that is not on the stack is destroyed; Node emits that while
\* nothing runs.  For a promise it comes after its resolution, if ever.
Destroy(id) ==
    /\ stack = <<>>
    /\ node[id] \in (IF id \in Promise THEN {"alive", "settled"} ELSE {"alive"})
    /\ id # Root
    /\ Destroyed({id})
    /\ node' = [node EXCEPT ![id] = "gone"]
    /\ UNCHANGED <<weak, stack, throwing, tagged>>

\* What runs resolves a promise, which has no more use unless it was
\* resolved with a thenable, whose then is called later as that promise.
Resolve(p) ==
    /\ stack # <<>> /\ ~throwing
    /\ node[p] = "alive" /\ ~OnStack(p)
    /\ Destroyed({p})
    /\ \E state \in {"settled"} \cup {x \in {"resolved"} : Thenables} :
          node' = [node EXCEPT ![p] = state]
    /\ UNCHANGED <<weak, stack, throwing, tagged>>

----------------------------------------------------------------------------
\* Execution.

\* Node runs the callback of a resource: from the event loop, or inside
\* another one for a resource that is not a promise.
Run(id) ==
    /\ ~throwing
    /\ Len(stack) < MaxDepth
    /\ ~OnStack(id)
    /\ node[id] \in {"alive", "resolved"}
    /\ id \in Promise => stack = <<>>
    /\ stack' = Append(stack, [id |-> id, calls |-> <<>>])
    /\ UNCHANGED <<table, throwing, tagged, node>>

\* It returns, or an exception leaves it.  A promise's reaction resolves the
\* promise, with whatever it returned or threw.
Return ==
    /\ stack # <<>> /\ Top.calls = <<>>
    /\ stack' = Front(stack)
    /\ IF eid \in Promise
       THEN /\ Destroyed({eid})
            /\ node' = [node EXCEPT ![eid] = "settled"]
            /\ throwing' = FALSE
       ELSE /\ throwing' = (throwing /\ Len(stack) > 1)
            /\ UNCHANGED <<spans, types, count, node>>
    /\ UNCHANGED <<weak, tagged>>

WithTop(frame) == Append(Front(stack), frame)

\* activate(span, callback), up to the call of callback.
Activate(span) ==
    /\ stack # <<>> /\ ~throwing
    /\ Len(Top.calls) < MaxNesting
    /\ stack' = WithTop([Top EXCEPT !.calls = Append(@, [span |-> span, old |-> Active])])
    /\ spans' = Put(spans, eid, span)
    /\ UNCHANGED <<types, weak, count, throwing, tagged, node>>

\* Mutant of Restored: the entry is always deleted.
RestoredToNothing(call) == Drop(spans, {eid})

\* The finally block of activate().
Restored(call) ==
    IF call.old # NoSpan THEN Put(spans, eid, call.old) ELSE Drop(spans, {eid})

\* The callback of activate() returns or throws; an error is noted on the
\* span, and thrown on.
Leave ==
    /\ stack # <<>> /\ Top.calls # <<>>
    /\ LET call == Last(Top.calls)
       IN  /\ spans' = Restored(call)
           /\ tagged' = IF throwing THEN tagged \cup ({call.span} \ {NoSpan}) ELSE tagged
    /\ stack' = WithTop([Top EXCEPT !.calls = Front(@)])
    /\ UNCHANGED <<types, weak, count, throwing, node>>

\* The application throws inside an activate() call, or catches.
Throw ==
    /\ stack # <<>> /\ ~throwing /\ Top.calls # <<>>
    /\ throwing' = TRUE
    /\ UNCHANGED <<table, stack, tagged, node>>

Catch ==
    /\ throwing
    /\ throwing' = FALSE
    /\ UNCHANGED <<table, stack, tagged, node>>

----------------------------------------------------------------------------

Init ==
    /\ spans = [i \in {} |-> NoSpan]
    /\ types = {}
    /\ weak = {}
    /\ count = 0
    /\ stack = <<[id |-> Root, calls |-> <<>>]>>
    /\ throwing = FALSE
    /\ tagged = {}
    /\ node = [i \in Id |-> IF i \in Early THEN "alive" ELSE "unused"]

Next ==
    \/ \E id \in Id : Init_(id) \/ Destroy(id) \/ Run(id)
    \/ \E p \in Promise : Resolve(p)
    \/ \E span \in Span \cup {NoSpan} : Activate(span)
    \/ Return \/ Leave \/ Throw \/ Catch

Spec == Init /\ [][Next]_vars

----------------------------------------------------------------------------
\* Properties.

\* Every variable has its type.
TypeOK ==
    /\ DOMAIN spans \subseteq Id
    /\ \A i \in DOMAIN spans : spans[i] \in Span \cup {NoSpan}
    /\ types \subseteq Id /\ weak \subseteq Handle
    /\ count \in Nat
    /\ stack \in Seq([id : Id, calls : Seq([span : Span \cup {NoSpan}, old : Span \cup {NoSpan}])])
    /\ throwing \in BOOLEAN
    /\ tagged \subseteq Span
    /\ node \in [Id -> {"unused", "alive", "resolved", "settled", "gone"}]

\* The table has entries only for the resources that can still run and for
\* those that have an activate() call pending, so that it does not grow with
\* the callbacks that were served; and the metric counts what it says, each
\* resource once, though a promise is destroyed twice.
Bookkeeping ==
    /\ TypeOK
    /\ types = {i \in Id \ Early : node[i] = "alive"}
    /\ DOMAIN spans \subseteq types
          \cup {stack[k].id : k \in {k \in DOMAIN stack : stack[k].calls # <<>>}}
    /\ count = Cardinality(types)

Frame(id) == CHOOSE k \in DOMAIN stack : stack[k].id = id

\* The span that id was created under, read back from the table or, while
\* activate() has overwritten it there, from the local of the outermost call.
Captured(id) ==
    IF OnStack(id) /\ stack[Frame(id)].calls # <<>>
    THEN stack[Frame(id)].calls[1].old
    ELSE Get(spans, id)

Context == INSTANCE AsyncContext
    WITH captured <- [id \in Id |-> Captured(id)],
         over     <- {id \in Id : node[id] \in {"settled", "gone"}},
         stack    <- [k \in DOMAIN stack |->
                        [id     |-> stack[k].id,
                         active |-> [c \in DOMAIN stack[k].calls |-> stack[k].calls[c].span]]]

\* The one entry of the table that active() reads is the span of the
\* innermost pending activate() of what runs, or else the span that its
\* resource was created under.
ActiveIsInnermost == Active = Context!Active

\* The table does what AsyncContext promises: no step of any callback
\* changes the span another one will run with.
KeepsContext == Context!Spec
====
