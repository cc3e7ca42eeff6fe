---- MODULE ListenerList ----
(***************************************************************************)
(* What an event emitter that was bound with scope.bind promises for the   *)
(* listeners of one event: a list of registrations that run in its order,  *)
(* each in the span it was made for, and no functions that wrap others.    *)
(* BoundEmitter implements it.                                             *)
(*                                                                         *)
(* Naming a listener takes back all its registrations that are known.  Not *)
(* known are those made with once(), and all those made before             *)
(* removeAllListeners() was called for all events of a bound emitter,      *)
(* which takes none away.                                                  *)
(***************************************************************************)
EXTENDS Naturals, Sequences, Functions

CONSTANTS
    Listener, Span,
    Number,    \* names of registrations
    Current,   \* in place of a span: the active one
    Nobody     \* the emitter is not bound

VARIABLES
    bound,    \* what the emitter was bound to: Nobody, Current or a span
    regs,     \* the registrations, by number
    known,    \* those that naming their listener takes back
    due,      \* those that the emit under way has not called yet
    spent,    \* the once registrations that have run
    active,   \* the span that is active
    origin    \* what was active where emit was called, a set of at most one

vars == <<bound, regs, known, due, spent, active, origin>>

\* The span of a registration that is made now; Current for one that runs in
\* whatever span the event is emitted.
SpanNow == CASE bound = Nobody -> Current [] bound = Current -> active [] OTHER -> bound

Runs(r) == IF r.span = Current THEN CHOOSE s \in origin : TRUE ELSE r.span

Init ==
    /\ bound = Nobody /\ regs = <<>> /\ known = {} /\ due = <<>> /\ spent = {}
    /\ active \in Span /\ origin = {}

Bind ==
    /\ bound = Nobody
    /\ bound' \in Span \cup {Current}
    /\ UNCHANGED <<regs, known, due, spent, active, origin>>

Add(f, once, n) ==
    LET r == [n |-> n, of |-> f, once |-> once, span |-> SpanNow]
    IN /\ \A i \in DOMAIN regs : regs[i].n # n
       /\ regs' \in {Append(regs, r), <<r>> \o regs}
       /\ known' = IF bound # Nobody /\ ~once THEN known \cup {n} ELSE known
       /\ UNCHANGED <<bound, due, spent, active, origin>>

\* What is left of the registrations without some, in their order.  No
\* registration is in the list twice, so there is only one such q.
Left(q, p, gone) ==
    /\ Range(q) = {r \in Range(p) : r.n \notin gone}
    /\ \A i, j \in DOMAIN q : i < j =>
            \E k, l \in DOMAIN p : k < l /\ p[k] = q[i] /\ p[l] = q[j]

\* Those of f that are known go, and the last one that was made before the
\* emitter was bound.
Remove(f) ==
    LET plain == {i \in DOMAIN regs : regs[i].of = f /\ regs[i].span = Current}
        gone  == {r.n : r \in {regs[i] : i \in {i \in DOMAIN regs :
                    \/ regs[i].of = f /\ regs[i].n \in known
                    \/ i \in plain /\ \A j \in plain : j <= i}}}
    IN /\ Left(regs', regs, gone)
       /\ known' = known \ gone
       /\ UNCHANGED <<bound, due, spent, active, origin>>

RemoveAll ==
    /\ regs' = <<>> /\ known' = {}
    /\ UNCHANGED <<bound, due, spent, active, origin>>

RemoveAllEvents ==
    /\ known' = {}
    /\ regs' = IF bound = Nobody THEN <<>> ELSE regs
    /\ UNCHANGED <<bound, due, spent, active, origin>>

Move ==
    /\ origin = {}
    /\ active' \in Span
    /\ UNCHANGED <<bound, regs, known, due, spent, origin>>

Emit ==
    /\ origin = {}
    /\ due' = regs /\ origin' = {active}
    /\ UNCHANGED <<bound, regs, known, spent, active>>

\* The next one runs.  One made with once() does so once, and has then gone or
\* stays in the list for nothing.
Run ==
    /\ due # <<>>
    /\ due' = Tail(due)
    /\ active' = Runs(Head(due))
    /\ IF Head(due).once
       THEN /\ spent' = spent \cup {Head(due).n}
            /\ regs' = regs \/ Left(regs', regs, {Head(due).n})
       ELSE UNCHANGED <<spent, regs>>
    /\ UNCHANGED <<bound, known, origin>>

\* All have run, or one has thrown.
Done ==
    /\ origin # {}
    /\ active' \in origin /\ origin' = {} /\ due' = <<>>
    /\ UNCHANGED <<bound, regs, known, spent>>

Next ==
    \/ Bind \/ RemoveAll \/ RemoveAllEvents \/ Move \/ Emit \/ Run \/ Done
    \/ \E f \in Listener :
        \/ Remove(f)
        \/ \E once \in BOOLEAN, n \in Number : Add(f, once, n)

Spec == Init /\ [][Next]_vars
====
