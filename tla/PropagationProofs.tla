---- MODULE PropagationProofs ----
(***************************************************************************)
(* What services are told of a trace, for any number of services, requests *)
(* and headers objects.                                                    *)
(***************************************************************************)
EXTENDS Propagation, TLAPS

\* Somebody knows decision d of trace t, as it came in at part n if another
\* tracer began it and did not decide: a part that reports, or headers that may
\* be used again or are under way.
Holds(t, n, d) ==
    \/ \E p \in Part : /\ part[p].kind = "reported" /\ part[p].trace = t
                       /\ part[p].entry = n /\ part[p].priority = d
    \/ \E h \in Headers : headers[h].trace = t /\ headers[h].entry = n /\ headers[h].keep = d
    \/ \E r \in Request : LET had == sent[r].headers IN
            had.trace = t /\ had.entry = n /\ had.keep = d

Known == Priority \cup {Absent}
Entries == Part \cup {Absent}

\* Headers with a trace have its decision.
Carriers ==
    /\ \A h \in Headers : headers[h].trace # Absent => headers[h].keep # Absent
    /\ \A r \in Request : sent[r].headers.trace # Absent => sent[r].headers.keep # Absent

\* Nobody knows of a trace that is still to begin, or to come in.
Fresh ==
    \A t \in Trace, n \in Entries, d \in Known : Holds(t, n, d) =>
        /\ t \in Part => part[t].kind # "none"
        /\ t \in Request => sent[t].by # Absent
        /\ n \in Part => part[n].kind # "none"

Agree ==
    \A t \in Trace, n \in Entries, d, e \in Priority :
        Holds(t, n, d) /\ Holds(t, n, e) => Kept(d) = Kept(e)

\* Part p is the first of its trace, or was given it undecided.
First(p) == \/ part[p].trace = p /\ part[p].entry = Absent
            \/ part[p].trace \in Foreign /\ part[p].entry = p

\* A part that has not decided is the first, and nobody else knows of the trace.
Sole ==
    \A p \in Part : part[p].kind = "reported" /\ part[p].priority = Absent =>
        First(p) /\ \A d \in Priority : ~Holds(part[p].trace, part[p].entry, d)

\* The trace of the no-op span is dropped, and B3 headers never have it.
Dropped ==
    \A n \in Entries, d \in Known : Holds(Zero, n, d) => ~b3 /\ ~Kept(d)

\* A context that another tracer has decided was given to a part first.
Imported ==
    \A x \in Foreign, d \in Known : Holds(x, Absent, d) =>
        \E q \in Part : /\ part[q].kind = "reported" /\ part[q].trace = x
                       /\ part[q].from = x /\ part[q].entry = Absent

\* What was sent is from somebody, and has the trace of its sender.
Links ==
    /\ \A r \in Request : sent[r].by # Absent => part[sent[r].by].kind # "none"
    /\ \A r \in Request : Reported(r) =>
        /\ sent[r].headers.trace = part[sent[r].by].trace /\ sent[r].headers.span = r
        /\ \A i \in DOMAIN sent[r].items :
            i \in DOMAIN sent[r].headers.items /\ sent[r].headers.items[i] = sent[r].items[i]
    /\ \A q \in Part : part[q].via # Absent => sent[part[q].via].by # Absent
    /\ \A p \in Part : part[p].kind = "reported" => part[p].trace # Absent
    /\ \A p \in Part : part[p].kind = "none" => part[p].via = Absent

IInv ==
    TypeOK /\ Carriers /\ Fresh /\ Agree /\ Sole /\ Dropped /\ Imported /\ Links /\ Linked

LEMMA NoBaggage == NoItems \in Baggage
<1>1. {} \in SUBSET Item OBVIOUS
<1>2. NoItems \in [{} -> Value] BY DEF NoItems
<1>3. QED BY <1>1, <1>2 DEF Baggage

LEMMA WithItemsType ==
    ASSUME NEW had \in Baggage, NEW items \in Baggage
    PROVE /\ WithItems(had, items) \in Baggage
          /\ \A i \in DOMAIN items : /\ i \in DOMAIN WithItems(had, items)
                                     /\ WithItems(had, items)[i] = items[i]
<1>1. PICK S \in SUBSET Item : had \in [S -> Value] BY DEF Baggage
<1>2. PICK T \in SUBSET Item : items \in [T -> Value] BY DEF Baggage
<1>3. WithItems(had, items) \in [S \cup T -> Value] BY <1>1, <1>2 DEF WithItems
<1>4. S \cup T \in SUBSET Item OBVIOUS
<1>5. WithItems(had, items) \in Baggage BY <1>3, <1>4 DEF Baggage
<1>6. QED BY <1>5 DEF WithItems

LEMMA SetItemType ==
    ASSUME NEW had \in Baggage, NEW i \in Item, NEW v \in Value
    PROVE [j \in DOMAIN had \cup {i} |-> IF j = i THEN v ELSE had[j]] \in Baggage
<1>1. PICK S \in SUBSET Item : had \in [S -> Value] BY DEF Baggage
<1>2. [j \in DOMAIN had \cup {i} |-> IF j = i THEN v ELSE had[j]] \in [S \cup {i} -> Value]
  BY <1>1
<1>3. S \cup {i} \in SUBSET Item OBVIOUS
<1>4. QED BY <1>2, <1>3 DEF Baggage

LEMMA InitIInv == Init => IInv
<1> SUFFICES ASSUME Init PROVE IInv
    OBVIOUS
<1>1. TypeOK
  BY NoBaggage DEF Init, TypeOK, Unopened, Empty, Carrier
<1>2. \A t \in Trace : \A n, d : ~Holds(t, n, d)
  BY PropagationAssumption DEF Init, Holds, Unopened, Empty
<1>3. Carriers BY DEF Init, Carriers, Empty
<1>4. Fresh BY <1>2 DEF Fresh
<1>5. Agree BY <1>2 DEF Agree, Known
<1>6. Sole BY DEF Init, Sole, Unopened
<1>7. Dropped BY <1>2 DEF Dropped, Trace
<1>8. Links BY DEF Init, Links, Unopened, Reported
<1>9. Linked BY DEF Init, Linked, Unopened
<1>10. Imported BY <1>2 DEF Imported, Trace
<1>11. QED BY <1>1, <1>3, <1>4, <1>5, <1>6, <1>7, <1>8, <1>9, <1>10 DEF IInv

----------------------------------------------------------------------------
\* A part is opened.

Parts == [kind : {"none", "reported", "noop", "quiet"},
          trace : Trace \cup {Absent}, from : Trace \cup {Absent},
          via : Request \cup {Absent}, priority : Priority \cup {Absent}, items : Baggage,
          entry : Part \cup {Absent}]

\* A new part begins a trace or continues one, as the request that it is for
\* tells it.
LEMMA OpenKeeps ==
    ASSUME IInv, NEW p \in Part, NEW new \in Parts,
           part[p].kind = "none", new.kind # "none",
           part' = [part EXCEPT ![p] = new], UNCHANGED <<b3, headers, sent>>,
           new.via # Absent =>
               /\ sent[new.via].by # Absent
               /\ Reported(new.via) => /\ new.trace = part[sent[new.via].by].trace
                                       /\ new.from = new.via,
           new.kind = "reported" =>
               \/ new.trace = p /\ new.entry = Absent
               \/ new.trace \in Foreign /\ new.entry = p
               \/ /\ new.trace \in Foreign /\ new.entry = Absent /\ new.from = new.trace
                  /\ new.priority \in Priority
                  /\ \A e \in Priority :
                        Holds(new.trace, Absent, e) => Kept(e) = Kept(new.priority)
               \/ /\ new.trace \in Trace /\ new.priority # Absent
                  /\ Holds(new.trace, new.entry, new.priority)
    PROVE IInv'
<1>1. TypeOK' BY DEF IInv, TypeOK, Parts
<1>2. part'[p] = new /\ \A q \in Part : q # p => part'[q] = part[q]
  BY DEF IInv, TypeOK
<1>3. Carriers' BY DEF IInv, Carriers
<1> DEFINE begins == new.trace = p /\ new.entry = Absent
           enters == new.trace \in Foreign /\ new.entry = p
           decided == /\ new.trace \in Foreign /\ new.entry = Absent /\ new.from = new.trace
                      /\ new.priority \in Priority
                      /\ \A e \in Priority :
                            Holds(new.trace, Absent, e) => Kept(e) = Kept(new.priority)
           goes_on == /\ new.trace \in Trace /\ new.priority \in Priority
                      /\ Holds(new.trace, new.entry, new.priority)
<1>a. /\ new.kind = "reported" => begins \/ enters \/ decided \/ goes_on
      /\ new.entry \in Entries /\ new.priority \in Known
  BY DEF Parts, Known, Entries
<1> HIDE DEF begins, enters, decided, goes_on
<1>4. \A t, n, d : Holds(t, n, d)' =>
        \/ Holds(t, n, d)
        \/ new.kind = "reported" /\ t = new.trace /\ n = new.entry /\ d = new.priority
  BY <1>2 DEF Holds
<1>5. begins \/ enters => \A d \in Known : ~Holds(new.trace, new.entry, d)
  BY PropagationAssumption DEF IInv, Fresh, Trace, Entries, begins, enters
<1>b. ASSUME new.kind = "reported", NEW e \in Priority, Holds(new.trace, new.entry, e)
      PROVE  new.priority \in Priority /\ Kept(e) = Kept(new.priority)
  <2>1. CASE begins \/ enters
    BY <1>b, <1>5, <2>1 DEF Known
  <2>2. CASE decided
    BY <1>b, <2>2 DEF decided
  <2>3. CASE goes_on
    BY <1>a, <1>b, <2>3 DEF goes_on, IInv, Agree
  <2>4. QED BY <1>a, <1>b, <2>1, <2>2, <2>3
<1>6. Fresh'
  <2> SUFFICES ASSUME NEW t \in Trace, NEW n \in Entries, NEW d \in Known, Holds(t, n, d)'
               PROVE  /\ t \in Part => part'[t].kind # "none"
                      /\ t \in Request => sent[t].by # Absent
                      /\ n \in Part => part'[n].kind # "none"
    BY DEF Fresh
  <2>1. CASE Holds(t, n, d)
    BY <2>1, <1>2 DEF IInv, Fresh
  <2>2. CASE new.kind = "reported" /\ t = new.trace /\ n = new.entry /\ d = new.priority
    <3>1. CASE begins \/ enters \/ decided
      <4>1. (t = p \/ t \in Foreign) /\ (n = p \/ n = Absent)
        BY <2>2, <3>1 DEF begins, enters, decided
      <4>2. part'[p].kind # "none" BY <1>2
      <4>3. QED BY <4>1, <4>2, PropagationAssumption DEF Trace
    <3>2. CASE goes_on
      <4>1. Holds(t, n, d) BY <2>2, <3>2 DEF goes_on
      <4>2. QED BY <2>1, <4>1
    <3>3. QED BY <1>a, <2>2, <3>1, <3>2
  <2>3. QED BY <1>4, <2>1, <2>2
<1>7. Agree'
  <2> SUFFICES ASSUME NEW t \in Trace, NEW n \in Entries, NEW d \in Priority, NEW e \in Priority,
                      Holds(t, n, d)', Holds(t, n, e)'
               PROVE Kept(d) = Kept(e)
    BY DEF Agree
  <2>1. CASE new.kind = "reported" /\ t = new.trace /\ n = new.entry
    <3>1. ASSUME NEW f \in Priority, Holds(t, n, f)' PROVE Kept(f) = Kept(new.priority)
      <4>1. Holds(t, n, f) \/ f = new.priority BY <1>4, <3>1
      <4>2. QED BY <1>b, <2>1, <4>1
    <3>2. QED BY <3>1
  <2>2. CASE ~(new.kind = "reported" /\ t = new.trace /\ n = new.entry)
    <3>1. Holds(t, n, d) /\ Holds(t, n, e) BY <2>2, <1>4
    <3>2. QED BY <3>1 DEF IInv, Agree
  <2>3. QED BY <2>1, <2>2
<1>8. Sole'
  <2> SUFFICES ASSUME NEW q \in Part, part'[q].kind = "reported", part'[q].priority = Absent
               PROVE First(q)' /\ \A d \in Priority : ~Holds(part[q].trace, part[q].entry, d)'
    BY DEF Sole
  <2>1. CASE q = p
    <3>1. new.kind = "reported" /\ new.priority = Absent
      BY <2>1, <1>2
    <3>2. begins \/ enters
      BY <1>a, <3>1, PropagationAssumption DEF decided, goes_on
    <3>3. First(p)'
      BY <1>2, <3>2 DEF First, begins, enters
    <3>4. \A d \in Priority : ~Holds(part[p].trace, part[p].entry, d)'
      BY <1>2, <1>4, <1>5, <3>1, <3>2, PropagationAssumption DEF Known
    <3>5. QED BY <2>1, <3>3, <3>4
  <2>2. CASE q # p
    <3>1. /\ part'[q] = part[q] /\ First(q)
          /\ \A d \in Priority : ~Holds(part[q].trace, part[q].entry, d)
      BY <2>2, <1>2 DEF IInv, Sole
    <3>2. new.kind = "reported" /\ part[q].trace = new.trace /\ part[q].entry = new.entry
          => goes_on
      BY <1>a, <2>2, <3>1, PropagationAssumption DEF First, begins, enters, decided, Trace
    <3>3. ASSUME NEW d \in Priority, Holds(part[q].trace, part[q].entry, d)' PROVE FALSE
      <4>1. /\ new.kind = "reported" /\ part[q].trace = new.trace
            /\ part[q].entry = new.entry
        BY <1>4, <3>1, <3>3
      <4>2. QED BY <3>1, <3>2, <4>1 DEF goes_on
    <3>4. QED BY <3>1, <3>3 DEF First
  <2>3. QED BY <2>1, <2>2
<1>9. Dropped' /\ Imported'
  <2>1. ASSUME NEW n \in Entries, NEW d \in Known, Holds(Zero, n, d)' PROVE Holds(Zero, n, d)
    <3>1. CASE new.kind = "reported" /\ Zero = new.trace /\ n = new.entry /\ d = new.priority
      BY <1>a, <3>1, PropagationAssumption DEF begins, enters, decided, goes_on
    <3>2. QED BY <1>4, <2>1, <3>1
  <2>2. Dropped'
    BY <2>1 DEF IInv, Dropped
  <2>3. ASSUME NEW x \in Foreign, NEW d \in Known, Holds(x, Absent, d)'
        PROVE \E q \in Part : /\ part'[q].kind = "reported" /\ part'[q].trace = x
                             /\ part'[q].from = x /\ part'[q].entry = Absent
    <3>1. CASE Holds(x, Absent, d)
      <4>1. PICK q \in Part : /\ part[q].kind = "reported" /\ part[q].trace = x
                             /\ part[q].from = x /\ part[q].entry = Absent
        BY <3>1 DEF IInv, Imported
      <4>2. q # p BY <4>1
      <4>3. QED BY <1>2, <4>1, <4>2
    <3>2. CASE new.kind = "reported" /\ x = new.trace /\ Absent = new.entry /\ d = new.priority
      <4>1. decided \/ goes_on
        BY <1>a, <3>2, PropagationAssumption DEF begins, enters, Trace
      <4>2. CASE decided
        BY <1>2, <3>2, <4>2 DEF decided
      <4>3. CASE goes_on
        <5>1. Holds(x, Absent, d) BY <3>2, <4>3 DEF goes_on
        <5>2. QED BY <3>1, <5>1
      <4>4. QED BY <4>1, <4>2, <4>3
    <3>3. QED BY <1>4, <2>3, <3>1, <3>2
  <2>4. QED BY <2>2, <2>3 DEF Imported
<1>10. \A r \in Request : sent[r].by # Absent => sent[r].by \in Part /\ sent[r].by # p
  BY DEF IInv, TypeOK, Links
<1>11. \A r \in Request : Reported(r)' <=> Reported(r)
  BY <1>2, <1>10 DEF Reported
<1>12. Links'
  <2>1. \A r \in Request : sent'[r].by # Absent => part'[sent'[r].by].kind # "none"
    BY <1>2, <1>10 DEF IInv, Links
  <2>2. \A r \in Request : Reported(r)' =>
            sent[r].by \in Part /\ part'[sent[r].by] = part[sent[r].by]
    BY <1>2, <1>10, <1>11 DEF Reported
  <2>3. \A q \in Part : part'[q].via # Absent => sent'[part'[q].via].by # Absent
    BY <1>2 DEF IInv, Links
  <2>4. \A q \in Part : part'[q].kind = "reported" => part'[q].trace # Absent
    BY <1>2, PropagationAssumption DEF IInv, Links, Trace
  <2>5. \A q \in Part : part'[q].kind = "none" => part'[q].via = Absent
    BY <1>2 DEF IInv, Links
  <2>6. QED BY <2>1, <2>2, <2>3, <2>4, <2>5, <1>11 DEF IInv, Links
<1>13. Linked'
  <2> SUFFICES ASSUME NEW q \in Part, part'[q].via # Absent, Reported(part[q].via)'
               PROVE /\ part'[q].trace = part'[sent'[part'[q].via].by].trace
                     /\ part'[q].from = part'[q].via
    BY DEF Linked
  <2>1. part'[q].via \in Request
    <3>1. part'[q] \in Parts BY <1>1 DEF TypeOK, Parts
    <3>2. QED BY <3>1 DEF Parts
  <2>2. Reported(part'[q].via) /\ part'[sent[part'[q].via].by] = part[sent[part'[q].via].by]
    BY <2>1, <1>2, <1>10, <1>11 DEF Reported
  <2>3. CASE q = p
    BY <2>2, <2>3, <1>2
  <2>4. CASE q # p
    BY <2>2, <2>4, <1>2 DEF IInv, Linked
  <2>5. QED BY <2>3, <2>4
<1>14. QED BY <1>1, <1>3, <1>6, <1>7, <1>8, <1>9, <1>12, <1>13 DEF IInv

LEMMA RootKeeps ==
    ASSUME IInv, NEW p \in Part, NEW kind \in {"reported", "noop", "quiet"},
           NEW via \in Request \cup {Absent},
           part[p].kind = "none", Root(p, kind, via), UNCHANGED <<b3, headers, sent>>,
           via # Absent => sent[via].by # Absent /\ ~Reported(via)
    PROVE IInv'
<1> DEFINE new == [Unopened EXCEPT
                !.kind = kind, !.trace = IF kind = "noop" THEN Zero ELSE p, !.via = via,
                !.priority = IF kind = "noop" THEN -1 ELSE Absent]
<1>1. part' = [part EXCEPT ![p] = new] BY DEF Root
<1>2. /\ new \in Parts /\ new.kind = kind /\ new.via = via
      /\ new.entry = Absent /\ (kind = "reported" => new.trace = p)
  BY NoBaggage DEF Unopened, Parts, Trace, Priority
<1> HIDE DEF new
<1>3. QED BY <1>1, <1>2, OpenKeeps

LEMMA OutsideKeeps ==
    ASSUME IInv, NEW p \in Part, NEW x \in Foreign, Outside(p, x) PROVE IInv'
<1>1. PICK d \in {Absent} \cup ForeignDecisions(x) :
        part' = [part EXCEPT ![p] = [Unopened EXCEPT
                    !.kind = "reported", !.trace = x, !.from = x, !.priority = d,
                    !.entry = IF d = Absent THEN p ELSE Absent]]
  BY DEF Outside
<1> DEFINE new == [Unopened EXCEPT
                    !.kind = "reported", !.trace = x, !.from = x, !.priority = d,
                    !.entry = IF d = Absent THEN p ELSE Absent]
<1>2. d \in Known
  BY DEF ForeignDecisions, Known, Priority
<1>3. /\ new \in Parts /\ new.kind = "reported" /\ new.trace = x /\ new.via = Absent
      /\ new.from = x /\ new.priority = d /\ new.entry = IF d = Absent THEN p ELSE Absent
  BY <1>2, NoBaggage DEF Unopened, Parts, Trace, Known
<1>4. part[p].kind = "none" /\ UNCHANGED <<b3, headers, sent>> BY DEF Outside
<1>5. part' = [part EXCEPT ![p] = new] BY <1>1
<1>6. ASSUME d # Absent, NEW e \in Priority, Holds(x, Absent, e) PROVE Kept(e) = Kept(d)
  <2>1. PICK q \in Part : /\ part[q].kind = "reported" /\ part[q].trace = x
                         /\ part[q].from = x /\ part[q].entry = Absent
    BY <1>6 DEF IInv, Imported, Known
  <2>2. part[q].priority = d /\ d \in Priority
    BY <1>2, <1>6, <2>1 DEF ForeignDecisions, Known
  <2>3. Holds(x, Absent, d)
    BY <2>1, <2>2 DEF Holds
  <2>4. x \in Trace /\ Absent \in Entries BY DEF Trace, Entries
  <2>5. QED BY <1>6, <2>2, <2>3, <2>4 DEF IInv, Agree
<1> HIDE DEF new
<1>7. QED BY <1>2, <1>3, <1>4, <1>5, <1>6, OpenKeeps DEF Known

LEMMA ReceiveKeeps ==
    ASSUME IInv, NEW r \in Request, NEW q \in Part, Receive(r, q) PROVE IInv'
<1> DEFINE in == sent[r].headers
<1>1. /\ sent[r].by # Absent /\ part[q].kind = "none"
      /\ UNCHANGED <<b3, headers, sent>>
  BY DEF Receive
<1>2. /\ in \in Carrier
      /\ Reported(r) => in.trace = part[sent[r].by].trace /\ in.span = r
  BY DEF IInv, TypeOK, Links
<1>3. CASE in.trace = Absent
  <2>1. PICK kind \in {"reported", "noop"} : Root(q, kind, r)
    BY <1>3 DEF Receive
  <2>2. ~Reported(r)
    <3> SUFFICES ASSUME Reported(r) PROVE FALSE
        OBVIOUS
    <3>1. sent[r].by \in Part /\ part[sent[r].by].kind = "reported"
      BY <1>1 DEF Reported, IInv, TypeOK
    <3>2. QED BY <3>1, <1>2, <1>3 DEF IInv, Links
  <2>3. QED BY <2>1, <2>2, <1>1, RootKeeps
<1>4. CASE in.trace # Absent
  <2> DEFINE new == [kind |-> "reported", trace |-> in.trace, from |-> in.span, via |-> r,
                     priority |-> in.keep, items |-> in.items, entry |-> in.entry]
  <2>1. part' = [part EXCEPT ![q] = new] BY <1>4 DEF Receive
  <2>2. new \in Parts BY <1>2 DEF Parts, Carrier
  <2>3. /\ new.kind = "reported" /\ new.via = r
        /\ new.trace = in.trace /\ new.from = in.span /\ new.priority = in.keep
        /\ new.entry = in.entry
    OBVIOUS
  <2> HIDE DEF new
  <2>4. in.trace \in Trace /\ in.keep # Absent /\ Holds(in.trace, in.entry, in.keep)
    BY <1>2, <1>4 DEF IInv, Carriers, Carrier, Holds
  <2>5. new.via # Absent =>
               /\ sent[new.via].by # Absent
               /\ Reported(new.via) => /\ new.trace = part[sent[new.via].by].trace
                                       /\ new.from = new.via
    BY <2>3, <1>1, <1>2
  <2> HIDE DEF in
  <2>6. QED BY <2>1, <2>2, <2>3, <2>4, <2>5, <1>1, OpenKeeps
<1>5. QED BY <1>3, <1>4

----------------------------------------------------------------------------
\* A part stays what it is.

LEMMA BaggageKeeps ==
    ASSUME IInv, NEW p \in Part, NEW i \in Item, NEW v \in Value, SetBaggageItem(p, i, v)
    PROVE IInv'
<1> DEFINE its == [j \in DOMAIN part[p].items \cup {i} |->
                     IF j = i THEN v ELSE part[p].items[j]]
<1>1. part' = [part EXCEPT ![p].items = its] /\ UNCHANGED <<b3, headers, sent>>
  BY DEF SetBaggageItem
<1>2. its \in Baggage
  <2>1. part[p] \in Parts BY DEF IInv, TypeOK, Parts
  <2>2. part[p].items \in Baggage BY <2>1 DEF Parts
  <2>3. QED BY <2>2, SetItemType
<1> HIDE DEF its
<1>3. TypeOK'
  <2>1. part[p] \in Parts BY DEF IInv, TypeOK, Parts
  <2>2. [part[p] EXCEPT !.items = its] \in Parts BY <2>1, <1>2 DEF Parts
  <2>3. part' = [part EXCEPT ![p] = [part[p] EXCEPT !.items = its]] BY <1>1
  <2>4. part' \in [Part -> Parts] BY <2>2, <2>3 DEF IInv, TypeOK, Parts
  <2>5. QED BY <2>4, <1>1 DEF IInv, TypeOK, Parts
<1>4. \A q \in Part : /\ part'[q].kind = part[q].kind /\ part'[q].trace = part[q].trace
                      /\ part'[q].from = part[q].from /\ part'[q].via = part[q].via
                      /\ part'[q].priority = part[q].priority
                      /\ part'[q].entry = part[q].entry
  BY <1>1 DEF IInv, TypeOK
<1>5. \A t, n, d : Holds(t, n, d)' <=> Holds(t, n, d)
  BY <1>1, <1>4 DEF Holds
<1>6. Carriers' BY <1>1 DEF IInv, Carriers
<1>7. Fresh' BY <1>1, <1>4, <1>5 DEF IInv, Fresh
<1>8. Agree' BY <1>5 DEF IInv, Agree
<1>9. Sole' BY <1>4, <1>5 DEF IInv, Sole, First
<1>10. Dropped' /\ Imported'
  <2>1. Dropped' BY <1>1, <1>5 DEF IInv, Dropped
  <2>2. Imported' BY <1>4, <1>5 DEF IInv, Imported
  <2>3. QED BY <2>1, <2>2
<1>11. \A r \in Request : sent[r].by # Absent => sent[r].by \in Part
  BY DEF IInv, TypeOK
<1>12. \A r \in Request : Reported(r)' <=> Reported(r)
  BY <1>1, <1>4, <1>11 DEF Reported
<1>13. Links'
  <2>1. \A r \in Request : Reported(r)' =>
            part'[sent[r].by].trace = part[sent[r].by].trace
    BY <1>4, <1>11, <1>12 DEF Reported
  <2>2. QED BY <2>1, <1>1, <1>4, <1>11, <1>12 DEF IInv, Links
<1>14. Linked'
  <2>1. \A q \in Part : part[q].via # Absent => part[q].via \in Request
    <3>1. \A q \in Part : part[q] \in Parts BY DEF IInv, TypeOK, Parts
    <3>2. QED BY <3>1 DEF Parts
  <2>2. QED BY <2>1, <1>1, <1>4, <1>11, <1>12 DEF IInv, Linked, Reported
<1>15. QED BY <1>3, <1>6, <1>7, <1>8, <1>9, <1>10, <1>13, <1>14 DEF IInv

----------------------------------------------------------------------------
\* A request is sent.

LEMMA ContextFacts ==
    ASSUME IInv, NEW p \in Part, NEW r \in Request, part[p].kind # "none"
    PROVE /\ Context(p, r).trace \in Trace /\ Context(p, r).span \in Trace
          /\ Context(p, r).items \in Baggage /\ Context(p, r).entry \in Entries
          /\ Decisions(Context(p, r)) \subseteq Priority
          /\ part[p].kind = "reported" => Context(p, r) =
                [trace |-> part[p].trace, span |-> r, priority |-> part[p].priority,
                 items |-> part[p].items, entry |-> part[p].entry]
          /\ part[p].kind = "quiet" => Context(p, r).trace = r
          /\ part[p].kind = "noop" => Context(p, r).trace = Zero /\ Context(p, r).priority = -1
<1>1. part[p] \in Parts BY DEF IInv, TypeOK, Parts
<1>2. part[p].kind \in {"reported", "quiet", "noop"} BY <1>1 DEF Parts
<1>3. part[p].kind = "reported" => part[p].trace \in Trace
  BY <1>1 DEF Parts, IInv, Links
<1>4. CASE part[p].kind = "reported"
  <2>1. Context(p, r) =
                [trace |-> part[p].trace, span |-> r, priority |-> part[p].priority,
                 items |-> part[p].items, entry |-> part[p].entry]
    BY <1>4 DEF Context
  <2>2. QED BY <2>1, <1>1, <1>3, <1>4 DEF Parts, Decisions, Trace, Entries
<1>5. CASE part[p].kind = "quiet"
  <2>1. Context(p, r) = [trace |-> r, span |-> r, priority |-> Absent, items |-> NoItems,
                         entry |-> Absent]
    BY <1>5 DEF Context
  <2>2. QED BY <2>1, <1>5, NoBaggage DEF Decisions, Trace, Entries
<1>6. CASE part[p].kind = "noop"
  <2>1. Context(p, r) = [trace |-> Zero, span |-> Zero, priority |-> -1, items |-> NoItems,
                         entry |-> Absent]
    BY <1>6 DEF Context
  <2>2. QED
    BY <2>1, <1>6, NoBaggage, PropagationAssumption DEF Decisions, Trace, Priority, Entries
<1>7. QED BY <1>2, <1>4, <1>5, <1>6

\* Whoever knows of the trace of a context has decided as the sampler may now.
LEMMA Decided ==
    ASSUME IInv, NEW p \in Part, NEW r \in Request,
           part[p].kind # "none", sent[r].by = Absent,
           NEW d \in Decisions(Context(p, r)), NEW e \in Priority,
           Holds(Context(p, r).trace, Context(p, r).entry, e)
    PROVE Kept(e) = Kept(d)
<1> DEFINE c == Context(p, r)
<1>1. part[p] \in Parts BY DEF IInv, TypeOK, Parts
<1>2. part[p].kind \in {"reported", "quiet", "noop"} BY <1>1 DEF Parts
<1>3. CASE part[p].kind = "reported"
  <2>1. /\ c.trace = part[p].trace /\ c.priority = part[p].priority
        /\ c.entry = part[p].entry
    BY <1>3, ContextFacts
  <2>2. c.trace \in Trace /\ c.entry \in Entries BY ContextFacts
  <2>3. part[p].priority # Absent
    BY <2>1, <1>3 DEF IInv, Sole
  <2>4. d = part[p].priority /\ d \in Priority
    BY <2>1, <2>3, <1>1 DEF Decisions, Parts
  <2>5. Holds(c.trace, c.entry, d)
    BY <2>1, <2>4, <1>3 DEF Holds
  <2>6. QED BY <2>2, <2>4, <2>5 DEF IInv, Agree
<1>4. CASE part[p].kind = "quiet"
  <2>1. c.trace = r /\ c.entry \in Entries BY <1>4, ContextFacts
  <2>2. QED BY <2>1 DEF IInv, Fresh, Trace, Known
<1>5. CASE part[p].kind = "noop"
  <2>1. c.trace = Zero /\ d = -1 /\ c.entry \in Entries
    BY <1>5, ContextFacts, PropagationAssumption DEF Decisions, Priority
  <2>2. ~Kept(e) BY <2>1 DEF IInv, Dropped, Known
  <2>3. QED BY <2>1, <2>2 DEF Kept
<1>6. QED BY <1>2, <1>3, <1>4, <1>5

\* What is sent to a service tells it what the part that sends it tells.
LEMMA SendKeeps ==
    ASSUME IInv, NEW p \in Part, NEW r \in Request, NEW h \in Headers,
           NEW signed \in BOOLEAN, Send(p, r, h, signed)
    PROVE IInv'
<1> DEFINE c == Context(p, r)
<1>1. part[p].kind # "none" /\ sent[r].by = Absent /\ b3' = b3 BY DEF Send
<1>2. PICK d \in Decisions(c) :
        LET out == IF signed THEN headers[h] ELSE Injected(headers[h], c, d)
        IN /\ headers' = [headers EXCEPT ![h] = out]
           /\ sent' = [sent EXCEPT ![r] = [by |-> p, with |-> h, signed |-> signed,
                                           items |-> c.items, headers |-> out]]
           /\ part' = IF part[p].kind = "reported" /\ ~signed
                      THEN [part EXCEPT ![p].priority = d] ELSE part
  BY DEF Send
<1> DEFINE out == IF signed THEN headers[h] ELSE Injected(headers[h], c, d)
           told == ~signed /\ ~(b3 /\ c.trace = Zero)
           k == IF b3 THEN Sampled(d) ELSE d
<1>3. /\ c.trace \in Trace /\ c.span \in Trace /\ c.items \in Baggage
      /\ c.entry \in Entries /\ d \in Priority /\ k \in Priority /\ Kept(k) = Kept(d)
  BY <1>1, ContextFacts DEF Sampled, Kept, Priority
<1>4. headers[h] \in Carrier /\ headers[h].items \in Baggage
  BY DEF IInv, TypeOK, Carrier
<1>5. ~told => out = headers[h]
  BY DEF Injected
<1>6. told => out = [trace |-> c.trace, span |-> c.span, keep |-> k,
                     items |-> WithItems(headers[h].items, c.items), entry |-> c.entry]
  BY DEF Injected
<1>7. out \in Carrier /\ (out.trace # Absent => out.keep # Absent)
  <2>1. CASE told
    BY <2>1, <1>3, <1>4, <1>6, WithItemsType, PropagationAssumption DEF Carrier, Entries
  <2>2. CASE ~told
    BY <2>2, <1>4, <1>5 DEF IInv, Carriers
  <2>3. QED BY <2>1, <2>2
<1>8. /\ headers' = [headers EXCEPT ![h] = out]
      /\ sent' = [sent EXCEPT ![r] = [by |-> p, with |-> h, signed |-> signed,
                                      items |-> c.items, headers |-> out]]
  BY <1>2
<1>9. /\ part' = [part EXCEPT ![p] = part'[p]]
      /\ part'[p] \in Parts
      /\ part'[p].kind = part[p].kind /\ part'[p].trace = part[p].trace
      /\ part'[p].from = part[p].from /\ part'[p].via = part[p].via
      /\ part'[p].entry = part[p].entry
      /\ part'[p].priority = IF part[p].kind = "reported" /\ ~signed
                             THEN d ELSE part[p].priority
  <2>1. part \in [Part -> Parts] BY DEF IInv, TypeOK, Parts
  <2>2. CASE part[p].kind = "reported" /\ ~signed
    <3>1. part' = [part EXCEPT ![p] = [part[p] EXCEPT !.priority = d]] BY <1>2, <2>2
    <3>2. part'[p] = [part[p] EXCEPT !.priority = d] BY <2>1, <3>1
    <3>3. [part[p] EXCEPT !.priority = d] \in Parts BY <2>1, <1>3 DEF Parts
    <3>4. part' = [part EXCEPT ![p] = part'[p]] BY <3>1, <3>2
    <3>5. QED BY <2>1, <2>2, <3>2, <3>3, <3>4 DEF Parts
  <2>3. CASE ~(part[p].kind = "reported" /\ ~signed)
    BY <2>1, <2>3, <1>2
  <2>4. QED BY <2>2, <2>3
<1>10. part[p].kind = "reported" =>
          (told <=> ~signed) /\ c.trace = part[p].trace /\ c.entry = part[p].entry
  <2> SUFFICES ASSUME part[p].kind = "reported"
               PROVE (told <=> ~signed) /\ c.trace = part[p].trace /\ c.entry = part[p].entry
      OBVIOUS
  <2>1. c.trace = part[p].trace /\ c.entry = part[p].entry BY <1>1, ContextFacts
  <2>2. part[p].priority \in Known
    <3>1. part[p] \in Parts BY DEF IInv, TypeOK, Parts
    <3>2. QED BY <3>1 DEF Parts, Known
  <2>3. Holds(c.trace, c.entry, part[p].priority) BY <2>1 DEF Holds
  <2>4. c.trace = Zero => ~b3 BY <1>3, <2>2, <2>3 DEF IInv, Dropped
  <2>5. QED BY <2>1, <2>4
<1> HIDE DEF c, k, out
<1>11. \A q \in Part : q # p => part'[q] = part[q]
  BY <1>9 DEF IInv, TypeOK
<1>12. \A q \in Part : part'[q].kind = part[q].kind /\ part'[q].trace = part[q].trace
                       /\ part'[q].from = part[q].from /\ part'[q].via = part[q].via
                       /\ part'[q].entry = part[q].entry
  BY <1>9, <1>11
<1>13. /\ headers'[h] = out /\ \A g \in Headers : g # h => headers'[g] = headers[g]
       /\ sent'[r] = [by |-> p, with |-> h, signed |-> signed, items |-> c.items,
                      headers |-> out]
       /\ \A x \in Request : x # r => sent'[x] = sent[x]
  BY <1>8 DEF IInv, TypeOK
<1>14. \A t, n, e : Holds(t, n, e)' =>
          Holds(t, n, e) \/ (told /\ t = c.trace /\ n = c.entry /\ e \in {d, k})
  <2> SUFFICES ASSUME NEW t, NEW n, NEW e, Holds(t, n, e)'
               PROVE Holds(t, n, e) \/ (told /\ t = c.trace /\ n = c.entry /\ e \in {d, k})
      OBVIOUS
  <2>1. out.trace = t /\ out.entry = n /\ out.keep = e =>
            Holds(t, n, e) \/ (told /\ t = c.trace /\ n = c.entry /\ e \in {d, k})
    BY <1>5, <1>6 DEF Holds
  <2>2. CASE \E q \in Part : /\ part'[q].kind = "reported" /\ part'[q].trace = t
                             /\ part'[q].entry = n /\ part'[q].priority = e
    BY <2>2, <1>9, <1>10, <1>11 DEF Holds
  <2>3. CASE \E g \in Headers : /\ headers'[g].trace = t /\ headers'[g].entry = n
                                /\ headers'[g].keep = e
    BY <2>1, <2>3, <1>13 DEF Holds
  <2>4. CASE \E x \in Request : /\ sent'[x].headers.trace = t /\ sent'[x].headers.entry = n
                                /\ sent'[x].headers.keep = e
    BY <2>1, <2>4, <1>13 DEF Holds
  <2>5. QED BY <2>2, <2>3, <2>4 DEF Holds
<1>15. \A e \in Priority : Holds(c.trace, c.entry, e) => Kept(e) = Kept(d)
  BY <1>1, Decided DEF c
<1>16. TypeOK'
  <2>1. part' \in [Part -> Parts] BY <1>9 DEF IInv, TypeOK, Parts
  <2>2. headers' \in [Headers -> Carrier] BY <1>7, <1>8 DEF IInv, TypeOK
  <2>3. [by |-> p, with |-> h, signed |-> signed, items |-> c.items, headers |-> out]
          \in [by : Part \cup {Absent}, with : Headers \cup {Absent}, signed : BOOLEAN,
               items : Baggage, headers : Carrier]
    BY <1>3, <1>7
  <2>4. sent' \in [Request -> [by : Part \cup {Absent}, with : Headers \cup {Absent},
                               signed : BOOLEAN, items : Baggage, headers : Carrier]]
    BY <2>3, <1>8 DEF IInv, TypeOK
  <2>5. QED BY <2>1, <2>2, <2>4, <1>1 DEF IInv, TypeOK, Parts
<1>17. Carriers'
  BY <1>7, <1>13 DEF IInv, Carriers
<1>a. part[p].kind \in {"reported", "quiet", "noop"} /\ part[p].priority \in Known
  <2>1. part[p] \in Parts BY DEF IInv, TypeOK, Parts
  <2>2. QED BY <2>1, <1>1 DEF Parts, Known
<1>b. /\ part[p].kind = "quiet" => c.trace = r /\ c.entry = Absent
      /\ part[p].kind = "noop" => c.trace = Zero /\ c.entry = Absent
  BY <1>1, ContextFacts DEF c, Context
<1>c. part[p].kind = "reported" => Holds(c.trace, c.entry, part[p].priority)
  BY <1>10 DEF Holds
<1>18. Fresh'
  <2> SUFFICES ASSUME NEW t \in Trace, NEW n \in Entries, NEW e \in Known, Holds(t, n, e)'
               PROVE /\ t \in Part => part'[t].kind # "none"
                     /\ t \in Request => sent'[t].by # Absent
                     /\ n \in Part => part'[n].kind # "none"
    BY DEF Fresh
  <2>0. \A x \in Request : sent[x].by # Absent => sent'[x].by # Absent
    BY <1>13, PropagationAssumption DEF Trace
  <2>1. CASE \E f \in Known : Holds(t, n, f)
    BY <2>0, <2>1, <1>12 DEF IInv, Fresh
  <2>2. CASE t = c.trace /\ n = c.entry /\ part[p].kind = "reported"
    BY <1>a, <1>c, <2>1, <2>2
  <2>3. CASE t = c.trace /\ n = c.entry /\ part[p].kind = "quiet"
    BY <1>b, <2>3, <1>13, PropagationAssumption DEF Trace
  <2>4. CASE t = c.trace /\ n = c.entry /\ part[p].kind = "noop"
    BY <1>b, <2>4, PropagationAssumption DEF Trace
  <2>5. QED BY <1>a, <2>1, <2>2, <2>3, <2>4, <1>14
<1>19. Agree'
  <2> SUFFICES ASSUME NEW t \in Trace, NEW n \in Entries, NEW e \in Priority, NEW f \in Priority,
                      Holds(t, n, e)', Holds(t, n, f)'
               PROVE Kept(e) = Kept(f)
    BY DEF Agree
  <2>1. CASE t = c.trace /\ n = c.entry
    <3>1. \A x \in Priority : Holds(t, n, x)' => Kept(x) = Kept(d)
      BY <2>1, <1>3, <1>14, <1>15
    <3>2. QED BY <3>1
  <2>2. CASE ~(t = c.trace /\ n = c.entry)
    <3>1. Holds(t, n, e) /\ Holds(t, n, f) BY <2>2, <1>14
    <3>2. QED BY <3>1 DEF IInv, Agree
  <2>3. QED BY <2>1, <2>2
<1>20. Sole'
  <2> SUFFICES ASSUME NEW q \in Part, part'[q].kind = "reported", part'[q].priority = Absent
               PROVE First(q)' /\ \A e \in Priority : ~Holds(part[q].trace, part[q].entry, e)'
    BY DEF Sole
  <2>1. part[q].kind = "reported" /\ part[q].priority = Absent /\ (told => q # p)
    <3>1. told /\ q = p => part'[p].priority = d BY <1>9, <1>10, <1>12
    <3>2. d # Absent BY <1>3, PropagationAssumption
    <3>3. QED BY <3>1, <3>2, <1>9, <1>11, <1>12
  <2>2. First(q) /\ \A e \in Priority : ~Holds(part[q].trace, part[q].entry, e)
    BY <2>1 DEF IInv, Sole
  <2>3. told => ~(part[q].trace = c.trace /\ part[q].entry = c.entry)
    <3> SUFFICES ASSUME told, part[q].trace = c.trace, part[q].entry = c.entry PROVE FALSE
        OBVIOUS
    <3>1. CASE part[p].kind = "reported" /\ part[p].priority = Absent
      <4>1. First(p) BY <3>1 DEF IInv, Sole
      <4>2. part[p].trace = part[q].trace /\ part[p].entry = part[q].entry
        BY <1>10, <3>1
      <4>3. QED BY <2>1, <2>2, <4>1, <4>2, PropagationAssumption DEF First, Trace
    <3>2. CASE part[p].kind = "reported" /\ part[p].priority # Absent
      BY <1>a, <1>c, <2>2, <3>2 DEF Known
    <3>3. CASE part[p].kind \in {"quiet", "noop"}
      BY <1>b, <2>2, <3>3, PropagationAssumption DEF First
    <3>4. QED BY <1>a, <3>1, <3>2, <3>3
  <2>4. part'[q].trace = part[q].trace /\ part'[q].entry = part[q].entry
    BY <1>12
  <2>5. First(q)'
    BY <2>2, <2>4 DEF First
  <2>6. ASSUME NEW e \in Priority, Holds(part[q].trace, part[q].entry, e)' PROVE FALSE
    BY <1>14, <2>2, <2>3, <2>4, <2>6
  <2>7. QED BY <2>5, <2>6
<1>21. Dropped' /\ Imported'
  <2>1. ASSUME NEW n \in Entries, NEW e \in Known, Holds(Zero, n, e)' PROVE ~b3 /\ ~Kept(e)
    <3>1. CASE Holds(Zero, n, e)
      BY <3>1 DEF IInv, Dropped
    <3>2. CASE told /\ Zero = c.trace /\ n = c.entry /\ e \in {d, k}
      <4>1. ~b3 BY <3>2
      <4>2. e = d BY <3>2, <4>1 DEF k
      <4>3. CASE part[p].kind = "noop"
        BY <4>1, <4>2, <4>3, <1>1, ContextFacts, PropagationAssumption
        DEF c, Decisions, Kept, Priority
      <4>4. CASE part[p].kind = "quiet"
        BY <1>b, <3>2, <4>4, PropagationAssumption
      <4>5. CASE part[p].kind = "reported"
        <5>1. part[p].trace = Zero BY <3>2, <4>5, <1>10
        <5>2. part[p].priority \in Priority
          BY <1>a, <5>1, <4>5, PropagationAssumption DEF IInv, Sole, First, Known
        <5>3. Holds(Zero, c.entry, part[p].priority) BY <1>c, <3>2, <4>5
        <5>4. ~Kept(part[p].priority) BY <1>3, <5>2, <5>3 DEF IInv, Dropped, Known
        <5>5. Kept(part[p].priority) = Kept(d) BY <3>2, <5>2, <5>3, <1>15
        <5>6. QED BY <4>1, <4>2, <5>4, <5>5
      <4>6. QED BY <1>a, <4>3, <4>4, <4>5
    <3>3. QED BY <2>1, <3>1, <3>2, <1>14
  <2>2. Dropped'
    BY <1>1, <2>1 DEF Dropped
  <2>3. ASSUME NEW x \in Foreign, NEW e \in Known, Holds(x, Absent, e)'
        PROVE \E q \in Part : /\ part'[q].kind = "reported" /\ part'[q].trace = x
                             /\ part'[q].from = x /\ part'[q].entry = Absent
    <3>1. \E f \in Known : Holds(x, Absent, f)
      <4>1. CASE told /\ x = c.trace /\ Absent = c.entry
        BY <1>a, <1>b, <1>c, <4>1, PropagationAssumption
      <4>2. QED BY <1>14, <2>3, <4>1
    <3>2. QED BY <1>12, <3>1 DEF IInv, Imported
  <2>4. QED BY <2>2, <2>3 DEF Imported
<1>22. \A x \in Request : x # r =>
          /\ Reported(x)' <=> Reported(x)
          /\ Reported(x) => sent[x].by \in Part
  BY <1>12, <1>13 DEF Reported, IInv, TypeOK
<1>23. Reported(r)' => /\ out.trace = part[p].trace /\ out.span = r
                       /\ out.items = WithItems(headers[h].items, c.items)
  <2> SUFFICES ASSUME Reported(r)' PROVE /\ out.trace = part[p].trace /\ out.span = r
                       /\ out.items = WithItems(headers[h].items, c.items)
      OBVIOUS
  <2>1. part[p].kind = "reported" /\ ~signed
    BY <1>12, <1>13 DEF Reported
  <2>2. told /\ c.trace = part[p].trace BY <2>1, <1>10
  <2>3. c.span = r BY <2>1, <1>1, ContextFacts DEF c
  <2>4. QED BY <2>2, <2>3, <1>6
<1>24. Links'
  <2>1. \A x \in Request : sent'[x].by # Absent => part'[sent'[x].by].kind # "none"
    BY <1>1, <1>12, <1>13 DEF IInv, Links, TypeOK
  <2>2. \A x \in Request : Reported(x)' =>
          /\ sent'[x].headers.trace = part'[sent'[x].by].trace /\ sent'[x].headers.span = x
          /\ \A i \in DOMAIN sent'[x].items :
               /\ i \in DOMAIN sent'[x].headers.items
               /\ sent'[x].headers.items[i] = sent'[x].items[i]
    <3> SUFFICES ASSUME NEW x \in Request, Reported(x)'
                 PROVE /\ sent'[x].headers.trace = part'[sent'[x].by].trace
                       /\ sent'[x].headers.span = x
                       /\ \A i \in DOMAIN sent'[x].items :
                            /\ i \in DOMAIN sent'[x].headers.items
                            /\ sent'[x].headers.items[i] = sent'[x].items[i]
        OBVIOUS
    <3>1. CASE x = r
      BY <3>1, <1>3, <1>4, <1>12, <1>13, <1>23, WithItemsType
    <3>2. CASE x # r
      BY <3>2, <1>12, <1>13, <1>22 DEF IInv, Links
    <3>3. QED BY <3>1, <3>2
  <2>3. \A q \in Part : part'[q].via # Absent => sent'[part'[q].via].by # Absent
    <3>1. \A q \in Part : part[q] \in Parts BY DEF IInv, TypeOK, Parts
    <3>2. \A q \in Part : part[q].via # Absent => part[q].via \in Request
      BY <3>1 DEF Parts
    <3>3. p # Absent BY PropagationAssumption DEF Trace
    <3>4. QED BY <3>2, <3>3, <1>12, <1>13 DEF IInv, Links
  <2>4. \A q \in Part : part'[q].kind = "reported" => part'[q].trace # Absent
    BY <1>12 DEF IInv, Links
  <2>5. \A q \in Part : part'[q].kind = "none" => part'[q].via = Absent
    BY <1>12 DEF IInv, Links
  <2>6. QED BY <2>1, <2>2, <2>3, <2>4, <2>5 DEF Links
<1>25. Linked'
  <2> SUFFICES ASSUME NEW q \in Part, part'[q].via # Absent, Reported(part[q].via)'
               PROVE /\ part'[q].trace = part'[sent'[part'[q].via].by].trace
                     /\ part'[q].from = part'[q].via
    BY DEF Linked
  <2> DEFINE v == part[q].via
  <2>1. v # Absent /\ v \in Request /\ part'[q].via = v
    <3>1. part[q] \in Parts BY DEF IInv, TypeOK, Parts
    <3>2. QED BY <3>1, <1>12 DEF Parts
  <2>2. v # r BY <2>1, <1>1 DEF IInv, Links
  <2>3. Reported(v)' <=> (sent'[v].by # Absent /\ part'[sent'[v].by].kind = "reported"
                          /\ ~sent'[v].signed)
    BY <2>1 DEF Reported
  <2>4. Reported(v) /\ sent'[v].by = sent[v].by /\ sent[v].by \in Part
    BY <2>1, <2>2, <1>13, <1>22 DEF Reported
  <2>5. QED BY <2>1, <2>4, <1>12 DEF IInv, Linked
<1>26. QED
  BY <1>16, <1>17, <1>18, <1>19, <1>20, <1>21, <1>24, <1>25 DEF IInv

----------------------------------------------------------------------------

LEMMA StutterKeeps == ASSUME IInv, UNCHANGED vars PROVE IInv'
<1>1. b3' = b3 /\ part' = part /\ headers' = headers /\ sent' = sent BY DEF vars
<1>2. TypeOK' /\ Carriers' /\ Fresh' /\ Agree'
  BY <1>1 DEF IInv, TypeOK, Carriers, Fresh, Agree, Holds
<1>3. Sole' /\ Dropped' /\ Imported'
  BY <1>1 DEF IInv, Sole, Dropped, Imported, Holds, First
<1>4. Links' /\ Linked' BY <1>1 DEF IInv, Links, Linked, Reported
<1>5. QED BY <1>2, <1>3, <1>4 DEF IInv

LEMMA NextKeeps == ASSUME IInv, [Next]_vars PROVE IInv'
<1>1. ASSUME NEW p \in Part, Open(p) PROVE IInv'
  BY <1>1, RootKeeps DEF Open
<1>2. ASSUME NEW p \in Part, NEW x \in Foreign, Outside(p, x) PROVE IInv'
  BY <1>2, OutsideKeeps
<1>3. ASSUME NEW p \in Part, NEW i \in Item, NEW v \in Value, SetBaggageItem(p, i, v)
      PROVE IInv'
  BY <1>3, BaggageKeeps
<1>4. ASSUME NEW p \in Part, NEW r \in Request, NEW h \in Headers,
             NEW signed \in BOOLEAN, Send(p, r, h, signed)
      PROVE IInv'
  BY <1>4, SendKeeps
<1>5. ASSUME NEW r \in Request, NEW q \in Part, Receive(r, q) PROVE IInv'
  BY <1>5, ReceiveKeeps
<1>6. CASE UNCHANGED vars
  BY <1>6, StutterKeeps
<1>7. QED BY <1>1, <1>2, <1>3, <1>4, <1>5, <1>6 DEF Next

THEOREM Invariance == Spec => []IInv
<1>1. Init => IInv BY InitIInv
<1>2. IInv /\ [Next]_vars => IInv' BY NextKeeps
<1>3. QED BY <1>1, <1>2, PTL DEF Spec

\* The variables of the services have their types.
THEOREM TypeCorrect == Spec => []TypeOK
<1>1. IInv => TypeOK BY DEF IInv
<1>2. QED BY <1>1, Invariance, PTL

\* However many services a trace goes through, and whatever its requests are
\* sent with, they all keep it or all drop it; of a trace that another tracer
\* began and left undecided, all that go back to one service that was given it.
THEOREM OneDecisionEverywhere == Spec => []OneDecision
<1>1. IInv => OneDecision
  <2> SUFFICES ASSUME IInv, NEW p \in Part, NEW q \in Part,
                      part[p].kind = "reported", part[q].kind = "reported",
                      part[p].trace = part[q].trace, part[p].entry = part[q].entry,
                      part[q].priority # Absent, part[p].priority # Absent
               PROVE Kept(part[p].priority) = Kept(part[q].priority)
    BY DEF OneDecision
  <2>1. part[p] \in Parts /\ part[q] \in Parts BY DEF IInv, TypeOK, Parts
  <2>2. part[p].priority \in Priority /\ part[q].priority \in Priority BY <2>1 DEF Parts
  <2>3. part[p].trace \in Trace /\ part[p].entry \in Entries
    BY <2>1 DEF Parts, Entries, IInv, Links
  <2>4. /\ Holds(part[p].trace, part[p].entry, part[p].priority)
        /\ Holds(part[p].trace, part[p].entry, part[q].priority)
    BY DEF Holds
  <2>5. QED BY <2>2, <2>3, <2>4 DEF IInv, Agree
<1>2. QED BY <1>1, Invariance, PTL

\* A service continues the trace of the request that it is given, below the
\* span of that request.
THEOREM RequestsLink == Spec => []Linked
<1>1. IInv => Linked BY DEF IInv
<1>2. QED BY <1>1, Invariance, PTL

----------------------------------------------------------------------------
\* Where items come from.

Has(h, i, v) ==
    \E x \in Request :
        sent[x].with = h /\ i \in DOMAIN sent[x].items /\ sent[x].items[i] = v

\* Headers objects have the items of the requests that they were used for.
Carried ==
    /\ \A h \in Headers : \A i \in DOMAIN headers[h].items : Has(h, i, headers[h].items[i])
    /\ \A r \in Request :
        /\ sent[r].by = Absent => sent[r].with = Absent /\ sent[r].headers = Empty
        /\ sent[r].by # Absent => sent[r].with \in Headers
        /\ \A i \in DOMAIN sent[r].headers.items :
              Has(sent[r].with, i, sent[r].headers.items[i])

LEMMA CarriedInit == Init => Carried
  BY DEF Init, Carried, Empty, NoItems

LEMMA InjectedItems ==
    ASSUME NEW had \in Carrier, NEW c, NEW d, NEW i \in DOMAIN Injected(had, c, d).items
    PROVE  \/ i \in DOMAIN had.items /\ Injected(had, c, d).items[i] = had.items[i]
           \/ i \in DOMAIN c.items /\ Injected(had, c, d).items[i] = c.items[i]
<1>1. CASE b3 /\ c.trace = Zero
  BY <1>1 DEF Injected
<1>2. CASE ~(b3 /\ c.trace = Zero)
  <2>1. Injected(had, c, d).items = WithItems(had.items, c.items)
    BY <1>2 DEF Injected
  <2>2. i \in DOMAIN had.items \cup DOMAIN c.items
    BY <2>1 DEF WithItems
  <2>3. WithItems(had.items, c.items)[i] = IF i \in DOMAIN c.items THEN c.items[i] ELSE had.items[i]
    BY <2>2 DEF WithItems
  <2>4. QED BY <2>1, <2>2, <2>3
<1>3. QED BY <1>1, <1>2

LEMMA CarriedKeeps == ASSUME IInv, Carried, [Next]_vars PROVE Carried'
<1>1. CASE headers' = headers /\ sent' = sent
  BY <1>1 DEF Carried, Has
<1>2. ASSUME NEW p \in Part, NEW r \in Request, NEW h \in Headers,
             NEW signed \in BOOLEAN, Send(p, r, h, signed)
      PROVE Carried'
  <2>1. PICK o, its :
          /\ headers' = [headers EXCEPT ![h] = o]
          /\ sent' = [sent EXCEPT ![r] = [by |-> p, with |-> h, signed |-> signed,
                                          items |-> its, headers |-> o]]
          /\ \A i \in DOMAIN o.items :
                \/ i \in DOMAIN headers[h].items /\ o.items[i] = headers[h].items[i]
                \/ i \in DOMAIN its /\ o.items[i] = its[i]
    <3>1. PICK c : c = Context(p, r)
      OBVIOUS
    <3>2. PICK d :
            LET out == IF signed THEN headers[h] ELSE Injected(headers[h], c, d)
            IN /\ headers' = [headers EXCEPT ![h] = out]
               /\ sent' = [sent EXCEPT ![r] = [by |-> p, with |-> h, signed |-> signed,
                                               items |-> c.items, headers |-> out]]
      BY <1>2, <3>1 DEF Send
    <3>3. PICK o, its :
            o = (IF signed THEN headers[h] ELSE Injected(headers[h], c, d)) /\ its = c.items
      OBVIOUS
    <3>4. headers[h] \in Carrier BY DEF IInv, TypeOK
    <3>5. \A i \in DOMAIN o.items :
              \/ i \in DOMAIN headers[h].items /\ o.items[i] = headers[h].items[i]
              \/ i \in DOMAIN its /\ o.items[i] = its[i]
      BY <3>3, <3>4, InjectedItems
    <3>6. /\ headers' = [headers EXCEPT ![h] = o]
          /\ sent' = [sent EXCEPT ![r] = [by |-> p, with |-> h, signed |-> signed,
                                          items |-> its, headers |-> o]]
      BY <3>2, <3>3
    <3>7. QED BY <3>5, <3>6
  <2>2. /\ headers'[h] = o /\ (\A g \in Headers : g # h => headers'[g] = headers[g])
        /\ sent'[r] = [by |-> p, with |-> h, signed |-> signed, items |-> its, headers |-> o]
        /\ (\A x \in Request : x # r => sent'[x] = sent[x])
    BY <2>1 DEF IInv, TypeOK
  <2>3. sent[r].with = Absent /\ p # Absent /\ h # Absent
    BY <1>2, PropagationAssumption DEF Send, Carried, Trace
  <2>4. ASSUME NEW g, NEW i, NEW v, g # Absent, Has(g, i, v) PROVE Has(g, i, v)'
    <3>1. PICK x \in Request :
            sent[x].with = g /\ i \in DOMAIN sent[x].items /\ sent[x].items[i] = v
      BY <2>4 DEF Has
    <3>2. sent'[x] = sent[x] BY <2>2, <2>3, <2>4, <3>1
    <3>3. QED BY <3>1, <3>2 DEF Has
  <2>5. ASSUME NEW i \in DOMAIN o.items, NEW v, v = o.items[i] PROVE Has(h, i, v)'
    <3>1. CASE i \in DOMAIN headers[h].items /\ v = headers[h].items[i]
      BY <2>3, <2>4, <3>1 DEF Carried
    <3>2. CASE i \in DOMAIN its /\ v = its[i]
      BY <2>2, <3>2 DEF Has
    <3>3. QED BY <2>1, <2>5, <3>1, <3>2
  <2>6. ASSUME NEW g \in Headers, NEW i, i \in DOMAIN headers'[g].items
        PROVE  Has(g, i, headers[g].items[i])'
    <3>1. PICK v : v = headers'[g].items[i] OBVIOUS
    <3>2. Has(g, i, v)'
      <4>1. CASE g = h BY <2>2, <2>5, <2>6, <3>1, <4>1
      <4>2. CASE g # h
        <5>1. headers'[g] = headers[g] BY <2>2, <4>2
        <5>2. Has(g, i, v) BY <2>6, <3>1, <5>1 DEF Carried
        <5>3. QED BY <2>4, <5>2, PropagationAssumption
      <4>3. QED BY <4>1, <4>2
    <3>3. QED BY <3>1, <3>2 DEF Has
  <2>7. ASSUME NEW x \in Request
        PROVE  /\ sent'[x].by = Absent => sent'[x].with = Absent /\ sent'[x].headers = Empty
               /\ sent'[x].by # Absent => sent'[x].with \in Headers
               /\ \A i \in DOMAIN sent'[x].headers.items :
                     Has(sent[x].with, i, sent[x].headers.items[i])'
    <3>1. CASE x = r
      <4>1. ASSUME NEW i, i \in DOMAIN sent'[r].headers.items
            PROVE  Has(sent[r].with, i, sent[r].headers.items[i])'
        <5>1. PICK v : v = o.items[i] OBVIOUS
        <5>2. Has(h, i, v)' BY <2>2, <2>5, <4>1, <5>1
        <5>3. sent'[r].with = h /\ sent'[r].headers = o BY <2>2
        <5>4. QED BY <5>1, <5>2, <5>3 DEF Has
      <4>2. QED BY <2>2, <2>3, <3>1, <4>1
    <3>2. CASE x # r
      <4>1. sent'[x] = sent[x] BY <2>2, <3>2
      <4>2. ASSUME NEW i, i \in DOMAIN sent'[x].headers.items
            PROVE  Has(sent[x].with, i, sent[x].headers.items[i])'
        <5>1. PICK g, v : g = sent[x].with /\ v = sent[x].headers.items[i] OBVIOUS
        <5>2. Has(g, i, v) BY <4>1, <4>2, <5>1 DEF Carried
        <5>3. g # Absent
          BY <4>1, <4>2, <5>1, PropagationAssumption DEF Carried, Empty, NoItems
        <5>4. Has(g, i, v)' BY <2>4, <5>2, <5>3
        <5>5. QED BY <4>1, <5>1, <5>4 DEF Has
      <4>3. QED BY <4>1, <4>2 DEF Carried
    <3>3. QED BY <3>1, <3>2
  <2>8. QED BY <2>6, <2>7 DEF Carried
<1>3. ASSUME Next PROVE Carried' \/ (headers' = headers /\ sent' = sent)
  BY <1>2, <1>3 DEF Next, Open, Outside, SetBaggageItem, Receive
<1>4. QED BY <1>1, <1>3 DEF vars

\* And it has the baggage that was set when the request was sent, and nothing
\* but what was set for requests with the same headers object.
THEOREM BaggageArrives == Spec => ItemsArrive
<1> DEFINE Arrive ==
        \A q \in Part : LET r == part'[q].via IN
            part[q].kind = "none" /\ r # Absent /\ Reported(r) =>
                /\ \A i \in DOMAIN sent[r].items :
                    i \in DOMAIN part'[q].items /\ part'[q].items[i] = sent[r].items[i]
                /\ \A i \in DOMAIN part'[q].items : \E x \in Request :
                    /\ sent[x].with = sent[r].with
                    /\ i \in DOMAIN sent[x].items /\ part'[q].items[i] = sent[x].items[i]
<1>1. IInv /\ Carried /\ [Next]_vars => [Arrive]_vars
  <2> SUFFICES ASSUME IInv, Carried, Next, NEW q \in Part, NEW r, r = part'[q].via,
                      part[q].kind = "none", r # Absent, Reported(r)
               PROVE /\ \A i \in DOMAIN sent[r].items :
                           i \in DOMAIN part'[q].items /\ part'[q].items[i] = sent[r].items[i]
                     /\ \A i \in DOMAIN part'[q].items : \E z \in Request :
                           /\ sent[z].with = sent[r].with
                           /\ i \in DOMAIN sent[z].items /\ part'[q].items[i] = sent[z].items[i]
    OBVIOUS
  <2>1. part[q].via = Absent /\ part \in [Part -> Parts]
    BY DEF IInv, Links, TypeOK, Parts
  <2>2. r \in Request /\ part'[q].via # part[q].via
    <3>1. part' \in [Part -> Parts]
      BY NextKeeps DEF IInv, TypeOK, Parts
    <3>2. QED BY <3>1, <2>1 DEF Parts
  <2>3. ASSUME NEW p \in Part, Open(p) \/ \E x \in Foreign : Outside(p, x) PROVE FALSE
    <3>1. CASE Open(p)
      <4>1. PICK kind \in {"reported", "noop", "quiet"} : Root(p, kind, Absent)
        BY <3>1 DEF Open
      <4>2. part'[p].via = Absent /\ (q # p => part'[q] = part[q])
        BY <2>1, <4>1 DEF Root, Unopened
      <4>3. QED BY <2>1, <2>2, <4>2
    <3>2. CASE \E x \in Foreign : Outside(p, x)
      <4>0. PICK x \in Foreign : Outside(p, x) BY <3>2
      <4>1. PICK d, n : part' = [part EXCEPT ![p] = [Unopened EXCEPT
                !.kind = "reported", !.trace = x, !.from = x, !.priority = d, !.entry = n]]
        BY <4>0 DEF Outside
      <4>2. part'[p].via = Absent /\ (q # p => part'[q] = part[q])
        BY <2>1, <4>1 DEF Unopened
      <4>3. QED BY <2>1, <2>2, <4>2
    <3>3. QED BY <2>3, <3>1, <3>2
  <2>4. ASSUME NEW p \in Part, NEW i \in Item, NEW v \in Value, SetBaggageItem(p, i, v)
        PROVE FALSE
    BY <2>1, <2>2, <2>4 DEF SetBaggageItem, Parts
  <2>5. ASSUME NEW p \in Part, NEW x \in Request, NEW h \in Headers,
               NEW signed \in BOOLEAN, Send(p, x, h, signed)
        PROVE FALSE
    BY <2>1, <2>2, <2>5 DEF Send, Parts
  <2>6. ASSUME NEW x \in Request, NEW y \in Part, Receive(x, y)
        PROVE /\ \A i \in DOMAIN sent[r].items :
                    i \in DOMAIN part'[q].items /\ part'[q].items[i] = sent[r].items[i]
              /\ \A i \in DOMAIN part'[q].items : \E z \in Request :
                    /\ sent[z].with = sent[r].with
                    /\ i \in DOMAIN sent[z].items /\ part'[q].items[i] = sent[z].items[i]
    <3>1. y = q
      BY <2>1, <2>2, <2>6 DEF Receive, Root
    <3>2. CASE sent[x].headers.trace = Absent
      <4>1. x = r
        BY <2>1, <2>6, <3>1, <3>2 DEF Receive, Root, Unopened
      <4>2. sent[r].by \in Part /\ part[sent[r].by].kind = "reported"
        BY <2>2 DEF Reported, IInv, TypeOK
      <4>3. QED BY <4>1, <4>2, <3>2 DEF IInv, Links
    <3>3. CASE sent[x].headers.trace # Absent
      <4>1. /\ part'[q].via = x /\ part'[q].items = sent[x].headers.items
        BY <2>1, <2>6, <3>1, <3>3 DEF Receive
      <4>2. x = r /\ part'[q].items = sent[r].headers.items BY <4>1
      <4>3. \A i \in DOMAIN sent[r].items :
              i \in DOMAIN part'[q].items /\ part'[q].items[i] = sent[r].items[i]
        BY <4>2, <2>2 DEF IInv, Links
      <4>4. \A i \in DOMAIN part'[q].items : Has(sent[r].with, i, part'[q].items[i])
        BY <4>2, <2>2 DEF Carried
      <4>5. QED BY <4>3, <4>4 DEF Has
    <3>4. QED BY <3>2, <3>3
  <2>7. QED BY <2>3, <2>4, <2>5, <2>6 DEF Next
<1>2. QED
  BY <1>1, InitIInv, NextKeeps, CarriedInit, CarriedKeeps, PTL DEF ItemsArrive, Spec
====
