---- MODULE Propagation ----
(***************************************************************************)
(* A trace that goes from service to service: the http client injects the  *)
(* context of its span into the headers of a request, and the server that  *)
(* is given them extracts it.  A request may be lost, or come twice.       *)
(*                                                                         *)
(* A part of a trace is what one service does for one request.  Its spans  *)
(* share the sampling decision and the baggage.  The headers are an object *)
(* of the application, which may use it for more than one request: the     *)
(* client does not copy it.                                                *)
(*                                                                         *)
(* A part whose decision nothing has asked for yet is decided when it is   *)
(* injected; that finishing its spans may decide it, too, and that neither *)
(* changes what the other decided, is OnePriority of TracePipeline.        *)
(***************************************************************************)
EXTENDS Integers

CONSTANTS
    Part, Request,   \* also the ids of their spans, and of traces
    Foreign,         \* contexts of another tracer, also the ids of their traces
    Headers,         \* headers objects
    Item, Value,     \* baggage; names are in lower case, as HTTP has them
    Absent, Zero     \* no value; the id of the no-op span

Priority == {-1, 0, 1, 2}   \* USER_REJECT, AUTO_REJECT, AUTO_KEEP, USER_KEEP

Trace == Part \cup Request \cup Foreign \cup {Zero}

ASSUME PropagationAssumption ==
    /\ Part \cap Request = {} /\ Foreign \cap (Part \cup Request) = {}
    /\ Zero \notin Part \cup Request \cup Foreign
    /\ Absent \notin Trace \cup Priority \cup Headers

VARIABLES
    b3,       \* the headers are those of B3, else of Datadog
    part,     \* the parts of traces
    headers,  \* what the headers objects have
    sent      \* the headers of each request as they were sent

vars == <<b3, part, headers, sent>>

NoItems == [i \in {} |-> Absent]

\* entry is a history: the part that was given, without a decision, the context
\* of another tracer that this one goes back to.
Empty == [trace |-> Absent, span |-> Absent, keep |-> Absent, items |-> NoItems,
          entry |-> Absent]
Unopened == [kind |-> "none", trace |-> Absent, from |-> Absent, via |-> Absent,
             priority |-> Absent, items |-> NoItems, entry |-> Absent]

Init ==
    /\ b3 \in BOOLEAN
    /\ part = [p \in Part |-> Unopened]
    /\ headers = [h \in Headers |-> Empty]
    /\ sent = [r \in Request |-> [by |-> Absent, with |-> Absent, signed |-> FALSE,
                                  items |-> NoItems, headers |-> Empty]]

\* A part that is the first of its trace; a span that the sampler leaves out is
\* the no-op span, and the spans of the writer's own work are not reported.
Root(p, kind, via) ==
    part' = [part EXCEPT ![p] = [Unopened EXCEPT
                !.kind = kind, !.trace = IF kind = "noop" THEN Zero ELSE p, !.via = via,
                !.priority = IF kind = "noop" THEN -1 ELSE Absent]]

Open(p) ==
    /\ part[p].kind = "none"
    /\ \E kind \in {"reported", "noop", "quiet"} : Root(p, kind, Absent)
    /\ UNCHANGED <<b3, headers, sent>>

\* The decisions that the other tracer may send with context x: one, whoever
\* is told of it.
ForeignDecisions(x) ==
    {d \in IF b3 THEN {0, 1, 2} ELSE Priority :
        \A q \in Part : part[q].from = x /\ part[q].entry = Absent => part[q].priority = d}

\* A request from a service with another tracer, which may have no decision, or
\* the flag for debugging, which is USER_KEEP.  Another request of its trace,
\* or the same one again, may go to any service.
Outside(p, x) ==
    /\ part[p].kind = "none"
    /\ \E d \in {Absent} \cup ForeignDecisions(x) :
        part' = [part EXCEPT ![p] = [Unopened EXCEPT
                    !.kind = "reported", !.trace = x, !.from = x, !.priority = d,
                    !.entry = IF d = Absent THEN p ELSE Absent]]
    /\ UNCHANGED <<b3, headers, sent>>

SetBaggageItem(p, i, v) ==
    /\ part[p].kind = "reported"
    /\ part' = [part EXCEPT ![p].items = [j \in DOMAIN @ \cup {i} |-> IF j = i THEN v ELSE @[j]]]
    /\ UNCHANGED <<b3, headers, sent>>

----------------------------------------------------------------------------
\* The context of the span of request r, which is made below part p.
Context(p, r) ==
    CASE part[p].kind = "reported" ->
            [trace |-> part[p].trace, span |-> r, priority |-> part[p].priority,
             items |-> part[p].items, entry |-> part[p].entry]
      [] part[p].kind = "quiet" ->
            [trace |-> r, span |-> r, priority |-> Absent, items |-> NoItems, entry |-> Absent]
      [] part[p].kind = "noop" ->
            [trace |-> Zero, span |-> Zero, priority |-> -1, items |-> NoItems, entry |-> Absent]

\* What the sampler may decide of a context: nothing once it is decided.
Decisions(c) == IF c.priority = Absent THEN Priority ELSE {c.priority}

\* Mutant of Sampled: only what the user has kept.
SampledByUser(d) == IF d = 2 THEN 1 ELSE 0

\* The B3 header for a decision.
Sampled(d) == IF d \in {1, 2} THEN 1 ELSE 0

\* Mutant of WithItems: an item that the headers have is left.
WithItemsKept(had, items) == [i \in DOMAIN had \cup DOMAIN items |->
                                IF i \in DOMAIN had THEN had[i] ELSE items[i]]

\* Items are added to those that the headers have.
WithItems(had, items) == [i \in DOMAIN had \cup DOMAIN items |->
                            IF i \in DOMAIN items THEN items[i] ELSE had[i]]

\* Mutant of Injected: headers that have a trace are left as they are.
InjectedOnce(had, c, d) ==
    IF had.trace # Absent \/ (b3 /\ c.trace = Zero) THEN had
    ELSE [trace |-> c.trace, span |-> c.span, keep |-> IF b3 THEN Sampled(d) ELSE d,
          items |-> WithItems(had.items, c.items), entry |-> c.entry]

\* inject() into headers: the B3 propagator adds nothing for the no-op span.
Injected(had, c, d) ==
    IF b3 /\ c.trace = Zero THEN had
    ELSE [trace |-> c.trace, span |-> c.span, keep |-> IF b3 THEN Sampled(d) ELSE d,
          items |-> WithItems(had.items, c.items), entry |-> c.entry]

\* Request r is made below part p with headers h; nothing is injected if the
\* request is signed for AWS.
Send(p, r, h, signed) ==
    /\ part[p].kind # "none" /\ sent[r].by = Absent
    /\ LET c == Context(p, r)
       IN \E d \in Decisions(c) :
        LET out == IF signed THEN headers[h] ELSE Injected(headers[h], c, d)
        IN /\ headers' = [headers EXCEPT ![h] = out]
           /\ sent' = [sent EXCEPT ![r] = [by |-> p, with |-> h, signed |-> signed,
                                           items |-> c.items, headers |-> out]]
           /\ part' = IF part[p].kind = "reported" /\ ~signed
                      THEN [part EXCEPT ![p].priority = d] ELSE part
           /\ UNCHANGED b3

----------------------------------------------------------------------------

\* The server extracts the context of request r, if it has one, and starts its
\* span below it.
Receive(r, q) ==
    /\ sent[r].by # Absent /\ part[q].kind = "none"
    /\ LET in == sent[r].headers
       IN IF in.trace = Absent
          THEN \E kind \in {"reported", "noop"} : Root(q, kind, r)
          ELSE part' = [part EXCEPT ![q] =
                [kind |-> "reported", trace |-> in.trace, from |-> in.span, via |-> r,
                 priority |-> in.keep, items |-> in.items, entry |-> in.entry]]
    /\ UNCHANGED <<b3, headers, sent>>

Next ==
    \/ \E p \in Part :
        \/ Open(p)
        \/ \E x \in Foreign : Outside(p, x)
        \/ \E i \in Item, v \in Value : SetBaggageItem(p, i, v)
        \/ \E r \in Request, h \in Headers, signed \in BOOLEAN : Send(p, r, h, signed)
    \/ \E r \in Request, q \in Part : Receive(r, q)

Spec == Init /\ [][Next]_vars

----------------------------------------------------------------------------
\* Properties.

Baggage == UNION {[S -> Value] : S \in SUBSET Item}
Carrier == [trace : Trace \cup {Absent}, span : Trace \cup {Absent},
            keep : Priority \cup {Absent}, items : Baggage, entry : Part \cup {Absent}]

TypeOK ==
    /\ b3 \in BOOLEAN
    /\ part \in [Part -> [kind : {"none", "reported", "noop", "quiet"},
                          trace : Trace \cup {Absent}, from : Trace \cup {Absent},
                          via : Request \cup {Absent}, priority : Priority \cup {Absent},
                          items : Baggage, entry : Part \cup {Absent}]]
    /\ headers \in [Headers -> Carrier]
    /\ sent \in [Request -> [by : Part \cup {Absent}, with : Headers \cup {Absent},
                             signed : BOOLEAN, items : Baggage, headers : Carrier]]

Reported(r) == sent[r].by # Absent /\ part[sent[r].by].kind = "reported" /\ ~sent[r].signed

Kept(d) == d \in {1, 2}

\* All services keep a trace or all drop it, whichever decided, and whatever
\* headers the requests were sent with.  Only where another tracer's context
\* came in undecided, each service that was given it decides for itself, and
\* for those behind it.
OneDecision ==
    \A p, q \in Part :
        /\ part[p].kind = "reported" /\ part[q].kind = "reported"
        /\ part[p].trace = part[q].trace /\ part[p].entry = part[q].entry
        /\ part[q].priority # Absent /\ part[p].priority # Absent
        => Kept(part[p].priority) = Kept(part[q].priority)

\* What a service does for a request is in the trace of the request and below
\* its span, also when the headers have been used for another one.
Linked ==
    \A q \in Part : LET r == part[q].via IN
        r # Absent /\ Reported(r) =>
            part[q].trace = part[sent[r].by].trace /\ part[q].from = r

\* The baggage that a request was sent with arrives, with the values that it
\* had then, whatever the headers were used for before and whatever is set
\* while the request is under way; and nothing more arrives than what requests
\* with the same headers object were sent with.
ItemsArrive ==
    [][\A q \in Part : LET r == part'[q].via IN
        part[q].kind = "none" /\ r # Absent /\ Reported(r) =>
            /\ \A i \in DOMAIN sent[r].items :
                i \in DOMAIN part'[q].items /\ part'[q].items[i] = sent[r].items[i]
            /\ \A i \in DOMAIN part'[q].items : \E x \in Request :
                /\ sent[x].with = sent[r].with
                /\ i \in DOMAIN sent[x].items /\ part'[q].items[i] = sent[x].items[i]]_vars
====
