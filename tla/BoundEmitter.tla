---- MODULE BoundEmitter ----
(***************************************************************************)
(* scope.bind(emitter): addListener, on, prependListener, removeListener,  *)
(* off and removeAllListeners of the emitter are replaced, each listener   *)
(* by a function that runs it in a span, and a table on the emitter finds  *)
(* those functions when the listener is removed.  Node's emitter below     *)
(* keeps a list of functions and removes one at a time; its once() adds a  *)
(* wrapper of its own that removes itself with removeListener.             *)
(*                                                                         *)
(* The listeners of one event; emit is not called again from a listener,   *)
(* and the functions that listeners() gives back are not added again.      *)
(***************************************************************************)
EXTENDS EmitterProperties, Sequences, SequencesExt, FiniteSetsExt

vars == <<bound, list, table, due, spent, active, origin, made>>

\* A function in the list of Node: a listener, a wrapper of once() around it,
\* or what the scope has bound either of them to, span, unless it is Current.
Function == [n : 1 .. MaxMade, of : Listener, once : BOOLEAN, span : ScopeSpan \cup {Current}]

\* The span that bind() gives a listener that is added now.
SpanOrActive == IF bound = Current THEN active ELSE bound

Init ==
    /\ bound = Nobody /\ list = <<>> /\ table = {} /\ due = <<>> /\ spent = {}
    /\ active \in ScopeSpan /\ origin = {} /\ made = 0

BindEmitter ==
    /\ bound = Nobody
    /\ bound' \in ScopeSpan \cup {Current}
    /\ UNCHANGED <<list, table, due, spent, active, origin, made>>

\* on and addListener, prependListener and their once variants, for a listener:
\* a function that is bound already would be added as it is, with no entry.
AddListener(f, once, where) ==
    LET fn == [n |-> made + 1, of |-> f, once |-> once,
               span |-> IF bound = Nobody THEN Current ELSE SpanOrActive]
    IN /\ made < MaxMade
       /\ made' = made + 1
       /\ list' = IF where = "last" THEN Append(list, fn) ELSE <<fn>> \o list
       /\ table' = IF bound = Nobody THEN table ELSE table \cup {fn}
       /\ UNCHANGED <<bound, due, spent, active, origin>>

\* Node's removeListener: the last of the functions that are meant.
NodeRemoved(l, meant) ==
    LET at == {i \in DOMAIN l : l[i] \in meant}
    IN IF at = {} THEN l ELSE RemoveAt(l, Max(at))

Plain == {list[i] : i \in {i \in DOMAIN list : list[i].span = Current}}

\* Mutant of Popped: the last function only, as Node has it.
PoppedLast(under) == {fn \in under : \A other \in under : other.n <= fn.n}

\* What the loop over the entry of the table takes out.
Popped(under) == under

\* removeListener of what the table has the functions in "under" for, and what
\* is in the list as "itself" if it was added before the emitter was bound.
Removed(under, itself) ==
    LET fns == SetToSeq(Popped(under))
        after[i \in 0 .. Len(fns)] ==
            IF i = 0 THEN list ELSE NodeRemoved(after[i - 1], {fns[i]})
    IN /\ table' = table \ Popped(under)
       /\ list' = NodeRemoved(after[Len(fns)], itself)

RemoveListener(f) ==
    /\ Removed({fn \in table : fn.of = f /\ ~fn.once}, {fn \in Plain : fn.of = f})
    /\ UNCHANGED <<bound, due, spent, active, origin, made>>

\* Mutant of Cleared: the table is left to removeListener.
ClearedNever == table

Cleared == {}

RemoveAllListeners ==
    /\ table' = Cleared
    /\ list' = <<>>
    /\ UNCHANGED <<bound, due, spent, active, origin, made>>

\* Without an event: Node is given one argument, which is undefined, and takes
\* it for the name of an event.
RemoveAllEvents ==
    /\ table' = Cleared
    /\ list' = IF bound = Nobody THEN <<>> ELSE list
    /\ UNCHANGED <<bound, due, spent, active, origin, made>>

\* Other code runs.
Move ==
    /\ origin = {}
    /\ active' \in ScopeSpan
    /\ UNCHANGED <<bound, list, table, due, spent, origin, made>>

\* Node emits to a copy of the list.
Emit ==
    /\ origin = {}
    /\ due' = list /\ origin' = {active}
    /\ UNCHANGED <<bound, list, table, spent, active, made>>

\* The next function is called; the wrapper of once() removes itself and
\* remembers that it has.
Run ==
    /\ due # <<>>
    /\ due' = Tail(due)
    /\ LET fn == Head(due)
       IN /\ IF fn.span = Current THEN active' \in origin ELSE active' = fn.span
          /\ IF fn.once /\ fn.n \notin spent
             THEN /\ Removed(table \cap {fn}, Plain \cap {fn})
                  /\ spent' = spent \cup {fn.n}
             ELSE UNCHANGED <<list, table, spent>>
    /\ UNCHANGED <<bound, origin, made>>

\* emit returns, or a listener throws.
Done ==
    /\ origin # {}
    /\ active' \in origin /\ origin' = {} /\ due' = <<>>
    /\ UNCHANGED <<bound, list, table, spent, made>>

Next ==
    \/ BindEmitter \/ RemoveAllListeners \/ RemoveAllEvents \/ Move \/ Emit \/ Run \/ Done
    \/ \E f \in Listener :
        \/ RemoveListener(f)
        \/ \E once \in BOOLEAN, where \in {"first", "last"} : AddListener(f, once, where)

Spec == Init /\ [][Next]_vars
====
