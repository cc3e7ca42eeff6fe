---- MODULE AsyncContext ----
(***************************************************************************)
(* What scope() promises about the active span, without the table that     *)
(* implements it: a callback runs with the span that was active where its  *)
(* asynchronous resource was created; activate() replaces it for the       *)
(* synchronous extent of its function and no longer, however that function *)
(* ends; and nothing that other callbacks do in between matters.           *)
(***************************************************************************)
EXTENDS Sequences, SequencesExt

CONSTANTS Id, Span,
          NoSpan,   \* no span, not one of Span
          Root      \* the resource of the main script, one of Id

VARIABLES
    captured,   \* the span each resource was created under
    over,       \* the resources that will never run again
    stack,      \* what runs: resources, each with its pending activations
    tagged      \* the spans that carry the tags of an error

vars == <<captured, over, stack, tagged>>

Top == Last(stack)

Active ==
    IF stack = <<>> THEN NoSpan
    ELSE IF Top.active = <<>> THEN captured[Top.id]
    ELSE Last(Top.active)

WithTop(frame) == Append(Front(stack), frame)

OnStack(id) == \E i \in DOMAIN stack : stack[i].id = id

Init == /\ captured = [i \in Id |-> NoSpan]
        /\ over = {}
        /\ stack = <<[id |-> Root, active |-> <<>>]>>
        /\ tagged = {}

\* A resource is created: it captures the active span.  It may take the
\* place of another one, which is over.
Create(id, replaced) ==
    /\ captured' = [i \in Id |-> IF i = id THEN Active
                                 ELSE IF i \in replaced THEN NoSpan ELSE captured[i]]
    /\ over' = over \cup replaced
    /\ \A i \in replaced : ~OnStack(i)
    /\ UNCHANGED <<stack, tagged>>

Run(id) ==
    /\ id \notin over
    /\ ~OnStack(id)
    /\ stack' = Append(stack, [id |-> id, active |-> <<>>])
    /\ UNCHANGED <<captured, over, tagged>>

\* The running resource returns; for some that is the end.
Return(ends) ==
    /\ stack # <<>>
    /\ Top.active = <<>>
    /\ stack' = Front(stack)
    /\ over' = IF ends THEN over \cup {Top.id} ELSE over
    /\ captured' = IF ends THEN [captured EXCEPT ![Top.id] = NoSpan] ELSE captured
    /\ UNCHANGED tagged

Activate(span) ==
    /\ stack # <<>>
    /\ stack' = WithTop([Top EXCEPT !.active = Append(@, span)])
    /\ UNCHANGED <<captured, over, tagged>>

\* activate() is left; an error that leaves it is noted on its span.
Leave(error) ==
    /\ stack # <<>>
    /\ Top.active # <<>>
    /\ stack' = WithTop([Top EXCEPT !.active = Front(@)])
    /\ tagged' = IF error THEN tagged \cup ({Active} \ {NoSpan}) ELSE tagged
    /\ UNCHANGED <<captured, over>>

\* A resource that is not running is over.
End(id) ==
    /\ ~OnStack(id)
    /\ over' = over \cup {id}
    /\ captured' = [captured EXCEPT ![id] = NoSpan]
    /\ UNCHANGED <<stack, tagged>>

Next ==
    \/ \E id \in Id : \/ Run(id) \/ End(id)
                      \/ \E replaced \in {{}} \cup {{i} : i \in Id \ {id}} :
                              Create(id, replaced)
    \/ \E span \in Span \cup {NoSpan} : Activate(span)
    \/ \E b \in BOOLEAN : Return(b) \/ Leave(b)

Spec == Init /\ [][Next]_vars
====
