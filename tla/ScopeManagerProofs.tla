---- MODULE ScopeManagerProofs ----
(***************************************************************************)
(* The table of the scope manager, for any resources and spans: what it    *)
(* holds, what active() reads in it, and that it implements AsyncContext.  *)
(***************************************************************************)
EXTENDS ScopeManager, FiniteSetTheorems, SequenceTheorems, TLAPS

----------------------------------------------------------------------------
\* Sequences.

LEMMA Appended ==
    ASSUME NEW S, NEW q \in Seq(S), NEW e \in S
    PROVE  /\ Append(q, e) \in Seq(S) /\ Append(q, e) # <<>>
           /\ Len(q) \in Nat /\ Len(Append(q, e)) = Len(q) + 1
           /\ DOMAIN q = 1 .. Len(q) /\ DOMAIN Append(q, e) = 1 .. Len(q) + 1
           /\ Append(q, e)[Len(q) + 1] = e
           /\ \A i \in 1 .. Len(q) : Append(q, e)[i] = q[i]
BY DEF Last

LEMMA Shortened ==
    ASSUME NEW S, NEW q \in Seq(S), q # <<>>
    PROVE  /\ Front(q) \in Seq(S) /\ Last(q) \in S /\ Last(q) = q[Len(q)]
           /\ Len(q) \in Nat /\ Len(q) > 0 /\ Len(Front(q)) = Len(q) - 1
           /\ DOMAIN q = 1 .. Len(q) /\ DOMAIN Front(q) = 1 .. Len(q) - 1
           /\ \A i \in 1 .. Len(q) - 1 : Front(q)[i] = q[i]
<1>1. Len(q) \in Nat /\ Len(q) > 0 /\ DOMAIN q = 1 .. Len(q)
  OBVIOUS
<1>2. /\ Front(q) \in Seq(S) /\ Len(Front(q)) = Len(q) - 1
      /\ \A i \in 1 .. Len(q) - 1 : Front(q)[i] = q[i]
  BY <1>1 DEF Front
<1>3. DOMAIN Front(q) = 1 .. Len(Front(q))
  BY <1>2
<1>4. Last(q) = q[Len(q)] /\ Last(q) \in S
  BY <1>1 DEF Last
<1> QED BY <1>1, <1>2, <1>3, <1>4

LEMMA Replaced ==
    ASSUME NEW S, NEW q \in Seq(S), q # <<>>, NEW e \in S
    PROVE  LET r == Append(Front(q), e) IN
           /\ r \in Seq(S) /\ r # <<>> /\ Len(r) = Len(q) /\ DOMAIN r = DOMAIN q
           /\ Len(q) \in DOMAIN q /\ r[Len(q)] = e
           /\ \A i \in DOMAIN q : i # Len(q) => r[i] = q[i]
<1>1. /\ Front(q) \in Seq(S) /\ Len(q) \in Nat /\ Len(q) > 0
      /\ Len(Front(q)) = Len(q) - 1 /\ DOMAIN q = 1 .. Len(q)
      /\ \A i \in 1 .. Len(q) - 1 : Front(q)[i] = q[i]
  BY Shortened
<1>2. /\ Append(Front(q), e) \in Seq(S) /\ Append(Front(q), e) # <<>>
      /\ Len(Append(Front(q), e)) = Len(q)
      /\ DOMAIN Append(Front(q), e) = 1 .. Len(q)
      /\ Append(Front(q), e)[Len(q)] = e
      /\ \A i \in 1 .. Len(q) - 1 : Append(Front(q), e)[i] = Front(q)[i]
  BY <1>1, Appended, (Len(q) - 1) + 1 = Len(q)
<1> QED BY <1>1, <1>2

----------------------------------------------------------------------------
\* The table.

LEMMA PutReads ==
    ASSUME NEW f, NEW id, NEW s
    PROVE  /\ DOMAIN Put(f, id, s) = DOMAIN f \cup {id}
           /\ \A i : Get(Put(f, id, s), i) = IF i = id THEN s ELSE Get(f, i)
BY DEF Get, Put

LEMMA DropReads ==
    ASSUME NEW f, NEW ids
    PROVE  /\ DOMAIN Drop(f, ids) = DOMAIN f \ ids
           /\ \A i : Get(Drop(f, ids), i) = IF i \in ids THEN NoSpan ELSE Get(f, i)
BY DEF Get, Drop

MaybeSpan == Span \cup {NoSpan}
Pending   == [span : MaybeSpan, old : MaybeSpan]
Frames    == [id : Id, calls : Seq(Pending)]

\* The ids with an activate() call under way.
Busy == {stack[k].id : k \in {k \in DOMAIN stack : stack[k].calls # <<>>}}

\* What an entry of the table holds while calls are pending: the span of the
\* last call, each of which has kept that of the one before; and the first
\* one has kept a span only from an entry that a living resource has.
Chain(calls, span, id, living) ==
    calls # <<>> =>
        /\ span = calls[Len(calls)].span
        /\ \A j \in 2 .. Len(calls) : calls[j].old = calls[j - 1].span
        /\ calls[1].old # NoSpan => id \in living

LEMMA ChainGrows ==
    ASSUME NEW calls \in Seq(Pending), NEW old \in MaybeSpan, NEW span \in MaybeSpan,
           NEW id, NEW living, Chain(calls, old, id, living),
           calls = <<>> /\ old # NoSpan => id \in living
    PROVE  LET more == Append(calls, [span |-> span, old |-> old]) IN
           /\ more \in Seq(Pending) /\ more # <<>> /\ Chain(more, span, id, living)
           /\ more[1].old = IF calls = <<>> THEN old ELSE calls[1].old
           /\ more[Len(more)].span = span
<1> DEFINE call == [span |-> span, old |-> old]
           more == Append(calls, call)
           n    == Len(calls)
<1>1. call \in Pending /\ call.span = span /\ call.old = old
  BY DEF Pending
<1> HIDE DEF call
<1>2. /\ more \in Seq(Pending) /\ more # <<>> /\ n \in Nat /\ Len(more) = n + 1
      /\ more[n + 1] = call /\ \A i \in 1 .. n : more[i] = calls[i]
  BY <1>1, Appended
<1>3. calls = <<>> <=> n = 0
  OBVIOUS
<1> HIDE DEF more, n
<1>4. more[1].old = IF calls = <<>> THEN old ELSE calls[1].old
  BY <1>1, <1>2, <1>3
<1>5. more[Len(more)].span = span
  BY <1>1, <1>2
<1>6. ASSUME NEW j \in 2 .. n + 1
      PROVE  more[j].old = more[j - 1].span
  <2>1. CASE j = n + 1
    <3>1. n # 0 /\ calls # <<>> /\ n \in 1 .. n
      BY <1>2, <1>3, <1>6, <2>1
    <3>2. old = calls[n].span
      BY <3>1 DEF Chain, n
    <3> QED BY <1>1, <1>2, <2>1, <3>1, <3>2
  <2>2. CASE j # n + 1
    <3>1. j \in 2 .. n /\ j \in 1 .. n /\ j - 1 \in 1 .. n /\ calls # <<>>
      BY <1>2, <1>3, <1>6, <2>2
    <3>2. calls[j].old = calls[j - 1].span
      BY <3>1 DEF Chain, n
    <3> QED BY <1>2, <3>1, <3>2
  <2> QED BY <2>1, <2>2
<1>7. more[1].old # NoSpan => id \in living
  BY <1>4 DEF Chain
<1>8. Chain(more, span, id, living)
  BY <1>2, <1>5, <1>6, <1>7 DEF Chain
<1> QED BY <1>2, <1>4, <1>5, <1>8 DEF more, call

LEMMA ChainShrinks ==
    ASSUME NEW calls \in Seq(Pending), calls # <<>>,
           NEW span, NEW id, NEW living, Chain(calls, span, id, living)
    PROVE  /\ Front(calls) \in Seq(Pending) /\ Last(calls) \in Pending
           /\ Last(calls).span = span
           /\ Chain(Front(calls), Last(calls).old, id, living)
           /\ Front(calls) = <<>> =>
                  calls[1].old = Last(calls).old /\ (Last(calls).old # NoSpan => id \in living)
           /\ Front(calls) # <<>> => Front(calls)[1] = calls[1]
<1> DEFINE n == Len(calls)
           less == Front(calls)
<1>1. /\ less \in Seq(Pending) /\ Last(calls) \in Pending /\ Last(calls) = calls[n]
      /\ n \in Nat /\ n > 0 /\ Len(less) = n - 1
      /\ \A i \in 1 .. n - 1 : less[i] = calls[i]
  BY Shortened
<1>2. less = <<>> <=> n = 1
  BY <1>1
<1>3. /\ span = calls[n].span /\ \A j \in 2 .. n : calls[j].old = calls[j - 1].span
      /\ calls[1].old # NoSpan => id \in living
  BY DEF Chain
<1> HIDE DEF less, n
<1>4. less # <<>> => less[1] = calls[1]
  BY <1>1, <1>2
<1>5. Chain(less, calls[n].old, id, living)
  <2> SUFFICES ASSUME less # <<>> PROVE Chain(less, calls[n].old, id, living)
    BY DEF Chain
  <2>1. n \in 2 .. n /\ n - 1 \in 1 .. n - 1
    BY <1>1, <1>2
  <2>2. calls[n].old = less[Len(less)].span
    BY <1>1, <1>3, <2>1
  <2>3. ASSUME NEW j \in 2 .. n - 1 PROVE less[j].old = less[j - 1].span
    <3>1. j \in 2 .. n /\ j \in 1 .. n - 1 /\ j - 1 \in 1 .. n - 1
      BY <1>1, <2>3
    <3> QED BY <1>1, <1>3, <3>1
  <2> QED BY <1>1, <1>3, <1>4, <2>2, <2>3 DEF Chain
<1> QED BY <1>1, <1>2, <1>3, <1>4, <1>5 DEF less, n

----------------------------------------------------------------------------
\* The inductive invariant.

\* A resource is on the stack once, and while it is, it is not over.
Placed ==
    /\ \A i, j \in DOMAIN stack : stack[i].id = stack[j].id => i = j
    /\ \A i \in DOMAIN stack : node[stack[i].id] \in {"alive", "resolved"}

\* The entry of what runs is that of its pending calls.
Chained ==
    \A k \in DOMAIN stack :
        Chain(stack[k].calls, Get(spans, stack[k].id), stack[k].id, types)

\* _weaks has one id of the handle, which was initialised before.
Used ==
    /\ weak = {} \/ \E h \in Handle : weak = {h}
    /\ \A i \in Early \cup weak : node[i] # "unused"

IInv == Bookkeeping /\ Placed /\ Chained /\ Used

LEMMA Types ==
    ASSUME TypeOK
    PROVE  /\ stack \in Seq(Frames) /\ DOMAIN stack = 1 .. Len(stack) /\ Len(stack) \in Nat
           /\ \A k \in DOMAIN stack : stack[k] \in Frames
           /\ \A i : Get(spans, i) \in MaybeSpan
           /\ Active \in MaybeSpan
           /\ IsFiniteSet(types) /\ IsFiniteSet(Id)
<1>1. stack \in Seq(Frames)
  BY DEF TypeOK, Frames, Pending, MaybeSpan
<1>2. DOMAIN stack = 1 .. Len(stack) /\ Len(stack) \in Nat
      /\ \A k \in DOMAIN stack : stack[k] \in Frames
  BY <1>1
<1>3. \A i : Get(spans, i) \in MaybeSpan
  BY DEF TypeOK, Get, MaybeSpan
<1>4. IsFiniteSet(types) /\ IsFiniteSet(Id)
  BY ScopeAssumption, FS_Subset DEF TypeOK
<1>5. Active \in MaybeSpan
  BY <1>3 DEF Active, MaybeSpan
<1> QED BY <1>1, <1>2, <1>3, <1>4, <1>5

\* What makes the table and its metric well-typed after a step.
LEMMA TableTyped ==
    ASSUME TypeOK, types' \subseteq Id, count' = Cardinality(types'),
           DOMAIN spans' \subseteq Id, \A i : Get(spans', i) \in MaybeSpan,
           weak' \subseteq Handle, stack' \in Seq(Frames),
           throwing' \in BOOLEAN, tagged' \subseteq Span,
           node' \in [Id -> {"unused", "alive", "resolved", "settled", "gone"}]
    PROVE  TypeOK'
<1>1. \A i \in DOMAIN spans' : spans'[i] \in Span \cup {NoSpan}
  BY DEF Get, MaybeSpan
<1>2. count' \in Nat
  BY ScopeAssumption, FS_Subset, FS_CardinalityType
<1> QED BY <1>1, <1>2 DEF TypeOK, Frames, Pending, MaybeSpan

\* The metric goes down by the ids that had a type.
LEMMA Recounted ==
    ASSUME NEW T, IsFiniteSet(T), NEW ids, ids = {} \/ \E x : ids = {x}
    PROVE  /\ Cardinality(T \ ids) = Cardinality(T) - Cardinality(ids \cap T)
           /\ Cardinality(T) \in Nat /\ Cardinality(ids \cap T) \in Nat
<1>1. Cardinality(T) \in Nat
  BY FS_CardinalityType
<1>2. CASE ids = {}
  BY <1>1, <1>2, FS_EmptySet, T \ {} = T, {} \cap T = {}
<1>3. ASSUME NEW x, ids = {x}
      PROVE  Cardinality(T \ ids) = Cardinality(T) - Cardinality(ids \cap T)
             /\ Cardinality(ids \cap T) \in Nat
  <2>1. CASE x \in T
    <3>1. ids \cap T = {x} /\ T \ ids = T \ {x}
      BY <1>3, <2>1
    <3>2. Cardinality({x}) = 1
      BY FS_Singleton
    <3>3. Cardinality(T \ {x}) = Cardinality(T) - 1
      BY <2>1, FS_RemoveElement
    <3> QED BY <1>1, <3>1, <3>2, <3>3
  <2>2. CASE x \notin T
    <3>1. ids \cap T = {} /\ T \ ids = T
      BY <1>3, <2>2
    <3>2. Cardinality({}) = 0
      BY FS_EmptySet
    <3> QED BY <1>1, <3>1, <3>2
  <2> QED BY <2>1, <2>2
<1> QED BY <1>1, <1>2, <1>3

LEMMA InitInv == Init => IInv
<1> SUFFICES ASSUME Init PROVE IInv
  OBVIOUS
<1> DEFINE frame == [id |-> Root, calls |-> <<>>]
<1>1. frame \in Frames /\ frame.calls = <<>>
  BY ScopeAssumption DEF Frames
<1> HIDE DEF frame
<1>2. stack = <<frame>> /\ stack \in Seq(Frames) /\ DOMAIN stack = {1} /\ stack[1] = frame
  BY <1>1 DEF Init, frame
<1>3. DOMAIN spans = {}
  BY DEF Init
<1>4. TypeOK
  BY <1>2, <1>3 DEF Init, TypeOK, Frames, Pending, MaybeSpan
<1>5. Bookkeeping
  BY <1>3, <1>4, FS_EmptySet DEF Init, Bookkeeping
<1>6. Placed
  BY <1>2, ScopeAssumption DEF Init, Placed, frame
<1>7. Chained
  BY <1>1, <1>2 DEF Chained, Chain
<1>8. Used
  BY ScopeAssumption DEF Init, Used
<1> QED BY <1>5, <1>6, <1>7, <1>8 DEF IInv

----------------------------------------------------------------------------
\* The hooks.

\* What the destruction of id leaves, if id has no call pending.
LEMMA DestroyedLeaves ==
    ASSUME IInv, NEW id \in Id, Destroyed({id}), id \notin Busy
    PROVE  /\ types' = types \ {id} /\ count' = Cardinality(types')
           /\ DOMAIN spans' = DOMAIN spans \ {id}
           /\ \A i : Get(spans', i) = IF i = id THEN NoSpan ELSE Get(spans, i)
           /\ \A i : Get(spans', i) \in MaybeSpan
           /\ DOMAIN spans' \subseteq types' \cup Busy
<1>1. /\ types' = types \ {id} /\ spans' = Drop(spans, {id})
      /\ count' = count - Cardinality({id} \cap types) /\ count = Cardinality(types)
  BY DEF Destroyed, Uncounted, IInv, Bookkeeping
<1>2. IsFiniteSet(types) /\ \A i : Get(spans, i) \in MaybeSpan
  BY Types DEF IInv, Bookkeeping
<1>3. count' = Cardinality(types')
  BY <1>1, <1>2, Recounted
<1>4. /\ DOMAIN spans' = DOMAIN spans \ {id}
      /\ \A i : Get(spans', i) = IF i \in {id} THEN NoSpan ELSE Get(spans, i)
  BY <1>1, DropReads
<1>5. DOMAIN spans \subseteq types \cup Busy
  BY DEF IInv, Bookkeeping, Busy
<1> QED BY <1>1, <1>2, <1>3, <1>4, <1>5 DEF MaybeSpan

\* A resource that does not run is over.
LEMMA EndInv ==
    ASSUME IInv, NEW id \in Id, ~OnStack(id), Destroyed({id}), node[id] # "unused",
           NEW state \in {"settled", "resolved", "gone"},
           node' = [node EXCEPT ![id] = state],
           UNCHANGED <<weak, stack, throwing, tagged>>
    PROVE  IInv'
<1>1. \A k \in DOMAIN stack : stack[k].id # id
  BY DEF OnStack
<1>2. id \notin Busy /\ Busy' = Busy
  BY <1>1 DEF Busy
<1>3. /\ types' = types \ {id} /\ count' = Cardinality(types')
      /\ DOMAIN spans' = DOMAIN spans \ {id}
      /\ \A i : Get(spans', i) = IF i = id THEN NoSpan ELSE Get(spans, i)
      /\ \A i : Get(spans', i) \in MaybeSpan
      /\ DOMAIN spans' \subseteq types' \cup Busy
  BY <1>2, DestroyedLeaves
<1>4. /\ node' \in [Id -> {"unused", "alive", "resolved", "settled", "gone"}]
      /\ \A i \in Id : node'[i] = IF i = id THEN state ELSE node[i]
  BY DEF IInv, Bookkeeping, TypeOK
<1>5. TypeOK'
  BY <1>3, <1>4, TableTyped, Types DEF IInv, Bookkeeping, TypeOK
<1>6. types' = {i \in Id \ Early : node'[i] = "alive"}
  BY <1>3, <1>4 DEF IInv, Bookkeeping
<1>7. Bookkeeping'
  BY <1>2, <1>3, <1>5, <1>6 DEF Bookkeeping, Busy
<1>8. Placed'
  BY <1>1, <1>4, Types DEF IInv, Bookkeeping, Placed, Frames
<1>9. Chained'
  BY <1>1, <1>3 DEF IInv, Chained, Chain
<1>10. Used'
  BY <1>4, ScopeAssumption DEF IInv, Bookkeeping, TypeOK, Used
<1> QED BY <1>7, <1>8, <1>9, <1>10 DEF IInv

LEMMA DestroyInv ==
    ASSUME IInv, NEW id \in Id, Destroy(id)
    PROVE  IInv'
<1>1. /\ Destroyed({id}) /\ node' = [node EXCEPT ![id] = "gone"]
      /\ UNCHANGED <<weak, stack, throwing, tagged>>
      /\ node[id] # "unused"
  BY DEF Destroy
<1>2. ~OnStack(id)
  BY DEF Destroy, OnStack
<1> QED BY <1>1, <1>2, EndInv

LEMMA ResolveInv ==
    ASSUME IInv, NEW p \in Promise, Resolve(p)
    PROVE  IInv'
BY EndInv, ScopeAssumption DEF Resolve

\* The ids that _init destroys for a handle that is used again.
Stale(id) == IF KeepAliveBug /\ id \in Handle THEN weak ELSE {}

\* A new resource has no entry, does not run and is not the old id of the
\* handle, whose entry goes and whom nothing can run or resolve any more.
LEMMA InitLeaves ==
    ASSUME IInv, NEW id \in Id, Init_(id)
    PROVE  /\ ~OnStack(id) /\ id \notin Stale(id) /\ id \notin types
           /\ id \notin Early /\ Stale(id) \subseteq Handle
           /\ Stale(id) = {} \/ \E h \in Handle : Stale(id) = {h}
           /\ \A k \in DOMAIN stack : stack[k].id # id /\ stack[k].id \notin Stale(id)
           /\ types' = (types \cup {id}) \ Stale(id) /\ count' = Cardinality(types')
           /\ DOMAIN spans' = (DOMAIN spans \cup {id}) \ Stale(id)
           /\ \A i : Get(spans', i) = IF i = id THEN Active
                                      ELSE IF i \in Stale(id) THEN NoSpan ELSE Get(spans, i)
           /\ \A i \in Id : node'[i] = IF i = id THEN "alive"
                                       ELSE IF i \in Stale(id) THEN "gone" ELSE node[i]
<1> DEFINE stale == Stale(id)
<1>1. /\ node[id] = "unused" /\ \A old \in weak : id \in Handle => ~OnStack(old)
      /\ spans' = Drop(Put(spans, id, Active), stale)
      /\ types' = (types \cup {id}) \ stale
      /\ count' = count + 1 - Cardinality(stale \cap types)
      /\ node' = [i \in Id |-> IF i = id THEN "alive"
                               ELSE IF i \in stale THEN "gone" ELSE node[i]]
  BY DEF Init_, Stale
<1>2. /\ stale = {} \/ \E h \in Handle : stale = {h}
      /\ \A i \in Early \cup stale : node[i] # "unused"
  BY DEF IInv, Used, Stale
<1>3. id \notin stale /\ id \notin Early /\ id \notin types
  BY <1>1, <1>2 DEF IInv, Bookkeeping
<1>4. \A k \in DOMAIN stack : stack[k].id # id /\ stack[k].id \notin stale
  BY <1>1 DEF IInv, Placed, OnStack, Stale
<1> HIDE DEF stale
<1>5. count' = Cardinality(types')
  <2>1. IsFiniteSet(types) /\ count = Cardinality(types)
    BY Types DEF IInv, Bookkeeping
  <2>2. /\ IsFiniteSet(types \cup {id})
        /\ Cardinality(types \cup {id}) = Cardinality(types) + 1
    BY <1>3, <2>1, FS_AddElement
  <2>3. stale \cap (types \cup {id}) = stale \cap types
    BY <1>3
  <2>4. Cardinality(types') = Cardinality(types \cup {id}) - Cardinality(stale \cap types)
    BY <1>1, <1>2, <2>2, <2>3, Recounted
  <2>5. Cardinality(types) \in Nat /\ Cardinality(stale \cap types) \in Nat
    BY <1>2, <2>1, Recounted
  <2> QED BY <1>1, <2>1, <2>2, <2>4, <2>5
<1>6. /\ DOMAIN spans' = (DOMAIN spans \cup {id}) \ stale
      /\ \A i : Get(spans', i) = IF i = id THEN Active
                                 ELSE IF i \in stale THEN NoSpan ELSE Get(spans, i)
  <2> DEFINE more == Put(spans, id, Active)
  <2>1. /\ DOMAIN more = DOMAIN spans \cup {id}
        /\ \A i : Get(more, i) = IF i = id THEN Active ELSE Get(spans, i)
    BY DEF Put, Get
  <2> HIDE DEF more
  <2>2. /\ DOMAIN Drop(more, stale) = DOMAIN more \ stale
        /\ \A i : Get(Drop(more, stale), i) = IF i \in stale THEN NoSpan ELSE Get(more, i)
    BY DropReads
  <2>3. spans' = Drop(more, stale)
    BY <1>1 DEF more
  <2> QED BY <1>3, <2>1, <2>2, <2>3
<1> QED BY <1>1, <1>2, <1>3, <1>4, <1>5, <1>6 DEF stale, OnStack

LEMMA InitHookInv ==
    ASSUME IInv, NEW id \in Id, Init_(id)
    PROVE  IInv'
<1> DEFINE stale == Stale(id)
<1>1. /\ ~OnStack(id) /\ id \notin stale /\ id \notin types
      /\ id \notin Early /\ stale \subseteq Handle
      /\ stale = {} \/ \E h \in Handle : stale = {h}
      /\ \A k \in DOMAIN stack : stack[k].id # id /\ stack[k].id \notin stale
      /\ types' = (types \cup {id}) \ stale /\ count' = Cardinality(types')
      /\ DOMAIN spans' = (DOMAIN spans \cup {id}) \ stale
      /\ \A i : Get(spans', i) = IF i = id THEN Active
                                 ELSE IF i \in stale THEN NoSpan ELSE Get(spans, i)
      /\ \A i \in Id : node'[i] = IF i = id THEN "alive"
                                  ELSE IF i \in stale THEN "gone" ELSE node[i]
  BY InitLeaves
<1>2. /\ UNCHANGED <<stack, throwing, tagged>> /\ Busy' = Busy
      /\ weak' = IF KeepAliveBug /\ id \in Handle THEN {id} ELSE weak
      /\ node' = [i \in Id |-> node'[i]]
  BY DEF Init_, Busy
<1> HIDE DEF stale
<1>3. \A i : Get(spans', i) \in MaybeSpan
  BY <1>1, Types DEF IInv, Bookkeeping, MaybeSpan
<1>4. node' \in [Id -> {"unused", "alive", "resolved", "settled", "gone"}]
  BY <1>1, <1>2 DEF IInv, Bookkeeping, TypeOK
<1>5. weak' \subseteq Handle /\ types' \subseteq Id /\ DOMAIN spans' \subseteq Id
  BY <1>1, <1>2 DEF IInv, Bookkeeping, TypeOK
<1>6. stack' \in Seq(Frames)
  BY <1>2, Types DEF IInv, Bookkeeping
<1>7. TypeOK'
  BY <1>1, <1>2, <1>3, <1>4, <1>5, <1>6, TableTyped DEF IInv, Bookkeeping, TypeOK
<1>8. types' = {i \in Id \ Early : node'[i] = "alive"}
  BY <1>1 DEF IInv, Bookkeeping
<1>9. DOMAIN spans' \subseteq types' \cup Busy
  BY <1>1 DEF IInv, Bookkeeping, Busy
<1>10. Bookkeeping'
  BY <1>1, <1>2, <1>7, <1>8, <1>9 DEF Bookkeeping, Busy
<1>11. Placed'
  BY <1>1, <1>2, Types DEF IInv, Bookkeeping, Placed, Frames
<1>12. Chained'
  BY <1>1, <1>2 DEF IInv, Chained, Chain
<1>13. Used'
  <2>1. Early \cup weak' \subseteq Id
    BY <1>5, ScopeAssumption
  <2>2. \A i \in Early \cup weak' : node'[i] # "unused"
    BY <1>1, <1>2, <2>1 DEF IInv, Used
  <2> QED BY <1>2, <2>2 DEF IInv, Used
<1> QED BY <1>10, <1>11, <1>12, <1>13 DEF IInv

----------------------------------------------------------------------------
\* Execution.

LEMMA TopFacts ==
    ASSUME TypeOK, stack # <<>>
    PROVE  /\ Len(stack) \in DOMAIN stack /\ Top = stack[Len(stack)] /\ Top \in Frames
           /\ eid = Top.id /\ eid \in Id /\ Top.calls \in Seq(Pending)
           /\ Active = Get(spans, eid)
<1>1. stack \in Seq(Frames)
  BY Types
<1>2. /\ Len(stack) \in Nat /\ Len(stack) > 0 /\ DOMAIN stack = 1 .. Len(stack)
      /\ Top = stack[Len(stack)] /\ Top \in Frames
  BY <1>1, Shortened DEF Top
<1> QED BY <1>2 DEF eid, Active, Frames

\* The frame on top gets other calls, and the table another entry for it.
LEMMA TopInv ==
    ASSUME IInv, stack # <<>>, NEW calls \in Seq(Pending),
           stack' = WithTop([Top EXCEPT !.calls = calls]),
           UNCHANGED <<types, weak, count, node>>, throwing' \in BOOLEAN, tagged' \subseteq Span,
           DOMAIN spans' \subseteq DOMAIN spans \cup {eid},
           eid \in DOMAIN spans' => calls # <<>> \/ eid \in types,
           \A i : i # eid => Get(spans', i) = Get(spans, i), Get(spans', eid) \in MaybeSpan,
           Chain(calls, Get(spans', eid), eid, types)
    PROVE  IInv'
<1> DEFINE frame == [Top EXCEPT !.calls = calls]
           n     == Len(stack)
<1>1. /\ stack \in Seq(Frames) /\ n \in DOMAIN stack /\ Top = stack[n] /\ Top \in Frames
      /\ eid = Top.id /\ eid \in Id
  BY Types, TopFacts DEF IInv, Bookkeeping
<1>2. frame \in Frames /\ frame.id = eid /\ frame.calls = calls
  BY <1>1 DEF Frames
<1> HIDE DEF frame
<1>3. /\ stack' \in Seq(Frames) /\ DOMAIN stack' = DOMAIN stack /\ stack'[n] = frame
      /\ \A i \in DOMAIN stack : i # n => stack'[i] = stack[i]
  BY <1>1, <1>2, Replaced DEF WithTop, frame
<1> HIDE DEF n
<1>4. \A i \in DOMAIN stack : stack'[i].id = stack[i].id
  BY <1>1, <1>2, <1>3
<1>5. \A i \in DOMAIN stack : i # n => stack[i].id # eid
  BY <1>1 DEF IInv, Placed
<1>6. DOMAIN spans' \subseteq types \cup Busy'
  <2> SUFFICES ASSUME NEW i \in DOMAIN spans', i \notin types PROVE i \in Busy'
    OBVIOUS
  <2>1. CASE i = eid
    BY <1>1, <1>2, <1>3, <2>1 DEF Busy
  <2>2. CASE i # eid
    <3>1. i \in Busy
      BY <2>2 DEF IInv, Bookkeeping, Busy
    <3>2. PICK k \in DOMAIN stack : stack[k].id = i /\ stack[k].calls # <<>>
      BY <3>1 DEF Busy
    <3>3. k # n
      BY <1>1, <2>2, <3>2
    <3> QED BY <1>3, <3>2, <3>3 DEF Busy
  <2> QED BY <2>1, <2>2
<1>7. /\ DOMAIN spans' \subseteq Id /\ \A i : Get(spans', i) \in MaybeSpan
      /\ count' = Cardinality(types') /\ types' \subseteq Id
  BY <1>1, Types DEF IInv, Bookkeeping, TypeOK
<1>8. TypeOK'
  BY <1>3, <1>7, TableTyped DEF IInv, Bookkeeping, TypeOK
<1>9. Bookkeeping'
  BY <1>6, <1>8 DEF IInv, Bookkeeping, Busy
<1>10. Placed'
  BY <1>3, <1>4 DEF IInv, Placed
<1>11. Chained'
  <2> SUFFICES ASSUME NEW k \in DOMAIN stack
               PROVE  Chain(stack'[k].calls, Get(spans', stack'[k].id), stack'[k].id, types)
    BY <1>3 DEF Chained
  <2>1. CASE k = n
    BY <1>2, <1>3, <2>1
  <2>2. CASE k # n
    BY <1>3, <1>5, <2>2 DEF IInv, Chained
  <2> QED BY <2>1, <2>2
<1> QED BY <1>9, <1>10, <1>11 DEF IInv, Used

\* What activate() does to the table and the calls of what runs.
Activates(span, call) ==
    /\ call \in Pending /\ call = [span |-> span, old |-> Active]
    /\ Append(Top.calls, call) \in Seq(Pending) /\ Append(Top.calls, call) # <<>>
    /\ Append(Top.calls, call)[Len(Append(Top.calls, call))].span = span
    /\ Append(Top.calls, call)[1].old = IF Top.calls = <<>> THEN Active ELSE Top.calls[1].old
    /\ Chain(Append(Top.calls, call), span, eid, types)
    /\ stack' = WithTop([Top EXCEPT !.calls = Append(Top.calls, call)])
    /\ spans' = Put(spans, eid, span)
    /\ DOMAIN spans' = DOMAIN spans \cup {eid}
    /\ \A i : Get(spans', i) = IF i = eid THEN span ELSE Get(spans, i)

LEMMA ActivateDoes ==
    ASSUME IInv, NEW span \in Span \cup {NoSpan}, Activate(span)
    PROVE  Activates(span, [span |-> span, old |-> Active])
<1> DEFINE call == [span |-> span, old |-> Active]
           n    == Len(stack)
<1>1. /\ n \in DOMAIN stack /\ Top = stack[n] /\ eid = Top.id /\ eid \in Id
      /\ Top.calls \in Seq(Pending) /\ Active = Get(spans, eid)
  BY TopFacts DEF IInv, Bookkeeping, Activate
<1>2. Active \in MaybeSpan /\ span \in MaybeSpan
  BY Types DEF IInv, Bookkeeping, MaybeSpan
<1>3. Chain(Top.calls, Active, eid, types)
  BY <1>1 DEF IInv, Chained
<1>4. Top.calls = <<>> /\ Active # NoSpan => eid \in types
  <2> SUFFICES ASSUME Top.calls = <<>>, Active # NoSpan PROVE eid \in types
    OBVIOUS
  <2>1. eid \in DOMAIN spans
    BY <1>1 DEF Get
  <2>2. \A k \in DOMAIN stack : stack[k].id = eid => k = n
    BY <1>1 DEF IInv, Placed
  <2>3. eid \notin Busy
    BY <1>1, <2>2 DEF Busy
  <2> QED BY <2>1, <2>3 DEF IInv, Bookkeeping, Busy
<1>5. /\ Append(Top.calls, call) \in Seq(Pending) /\ Append(Top.calls, call) # <<>>
      /\ Chain(Append(Top.calls, call), span, eid, types)
      /\ Append(Top.calls, call)[1].old = IF Top.calls = <<>> THEN Active ELSE Top.calls[1].old
      /\ Append(Top.calls, call)[Len(Append(Top.calls, call))].span = span
  BY <1>1, <1>2, <1>3, <1>4, ChainGrows
<1>6. call \in Pending
  BY <1>2 DEF Pending
<1>7. /\ stack' = WithTop([Top EXCEPT !.calls = Append(@, call)])
      /\ spans' = Put(spans, eid, span)
  BY DEF Activate
<1>8. /\ DOMAIN spans' = DOMAIN spans \cup {eid}
      /\ \A i : Get(spans', i) = IF i = eid THEN span ELSE Get(spans, i)
  BY <1>7 DEF Put, Get
<1>9. [Top EXCEPT !.calls = Append(@, call)] = [Top EXCEPT !.calls = Append(Top.calls, call)]
  OBVIOUS
<1> QED BY <1>5, <1>6, <1>7, <1>8, <1>9 DEF Activates

LEMMA ActivateInv ==
    ASSUME IInv, NEW span \in Span \cup {NoSpan}, Activate(span)
    PROVE  IInv'
<1> DEFINE calls == Append(Top.calls, [span |-> span, old |-> Active])
<1>1. Activates(span, [span |-> span, old |-> Active])
  BY ActivateDoes
<1>2. /\ calls \in Seq(Pending) /\ calls # <<>> /\ Chain(calls, span, eid, types)
      /\ stack' = WithTop([Top EXCEPT !.calls = calls])
      /\ DOMAIN spans' = DOMAIN spans \cup {eid}
      /\ \A i : Get(spans', i) = IF i = eid THEN span ELSE Get(spans, i)
  BY <1>1 DEF Activates
<1> HIDE DEF calls
<1>3. /\ stack # <<>> /\ UNCHANGED <<types, weak, count, node>>
      /\ throwing' \in BOOLEAN /\ tagged' \subseteq Span
  BY DEF Activate, IInv, Bookkeeping, TypeOK
<1>4. Get(spans', eid) = span /\ span \in MaybeSpan
  BY <1>2 DEF MaybeSpan
<1> QED BY <1>2, <1>3, <1>4, TopInv

\* What the end of an activate() call does: the entry is what it was before.
Leaves(call, calls) ==
    /\ call \in Pending /\ calls \in Seq(Pending)
    /\ Top.calls # <<>> /\ call = Last(Top.calls) /\ calls = Front(Top.calls)
    /\ call.span = Active
    /\ stack' = WithTop([Top EXCEPT !.calls = calls])
    /\ Chain(calls, call.old, eid, types)
    /\ calls = <<>> => /\ Top.calls[1].old = call.old
                       /\ call.old # NoSpan => eid \in types
    /\ calls # <<>> => calls[1] = Top.calls[1]
    /\ eid \in DOMAIN spans' => call.old # NoSpan
    /\ DOMAIN spans' \subseteq DOMAIN spans \cup {eid}
    /\ \A i : Get(spans', i) = IF i = eid THEN call.old ELSE Get(spans, i)

LEMMA LeaveDoes ==
    ASSUME IInv, Leave
    PROVE  Leaves(Last(Top.calls), Front(Top.calls))
<1> DEFINE call == Last(Top.calls)
           calls == Front(Top.calls)
<1>1. /\ Len(stack) \in DOMAIN stack /\ Top = stack[Len(stack)] /\ eid = Top.id /\ eid \in Id
      /\ Top.calls \in Seq(Pending) /\ Active = Get(spans, eid) /\ Top.calls # <<>>
  BY TopFacts DEF IInv, Bookkeeping, Leave
<1>2. Chain(Top.calls, Active, eid, types)
  BY <1>1 DEF IInv, Chained
<1>3. /\ calls \in Seq(Pending) /\ call \in Pending /\ call.span = Active
      /\ Chain(calls, call.old, eid, types)
      /\ calls = <<>> => Top.calls[1].old = call.old /\ (call.old # NoSpan => eid \in types)
      /\ calls # <<>> => calls[1] = Top.calls[1]
  BY <1>1, <1>2, ChainShrinks
<1>4. /\ stack' = WithTop([Top EXCEPT !.calls = Front(@)])
      /\ spans' = Restored(call)
  BY DEF Leave
<1>5. [Top EXCEPT !.calls = Front(@)] = [Top EXCEPT !.calls = calls]
  OBVIOUS
<1> HIDE DEF call, calls
<1>6. /\ eid \in DOMAIN spans' => call.old # NoSpan
      /\ DOMAIN spans' \subseteq DOMAIN spans \cup {eid}
      /\ \A i : Get(spans', i) = IF i = eid THEN call.old ELSE Get(spans, i)
  <2>1. CASE call.old # NoSpan
    <3>1. spans' = Put(spans, eid, call.old)
      BY <1>4, <2>1 DEF Restored
    <3> QED BY <2>1, <3>1 DEF Put, Get
  <2>2. CASE call.old = NoSpan
    <3>1. spans' = Drop(spans, {eid})
      BY <1>4, <2>2 DEF Restored
    <3> QED BY <2>2, <3>1 DEF Drop, Get
  <2> QED BY <2>1, <2>2
<1> QED BY <1>1, <1>3, <1>4, <1>5, <1>6 DEF Leaves, call, calls

LEMMA LeaveInv ==
    ASSUME IInv, Leave
    PROVE  IInv'
<1> DEFINE call == Last(Top.calls)
           calls == Front(Top.calls)
<1>1. Leaves(call, calls)
  BY LeaveDoes
<1> HIDE DEF call, calls
<1>2. /\ call.span \in Span \cup {NoSpan} /\ call.old \in MaybeSpan
  BY <1>1 DEF Leaves, Pending, MaybeSpan
<1>3. /\ stack # <<>> /\ UNCHANGED <<types, weak, count, node>>
      /\ throwing' \in BOOLEAN /\ tagged' \subseteq Span
  BY <1>2 DEF Leave, IInv, Bookkeeping, TypeOK, call
<1>4. eid \in DOMAIN spans' => calls # <<>> \/ eid \in types
  BY <1>1 DEF Leaves
<1>5. Get(spans', eid) = call.old
  BY <1>1 DEF Leaves
<1> QED BY <1>1, <1>2, <1>3, <1>4, <1>5, TopInv DEF Leaves

LEMMA RunInv ==
    ASSUME IInv, NEW id \in Id, Run(id)
    PROVE  IInv'
<1> DEFINE frame == [id |-> id, calls |-> <<>>]
           n     == Len(stack)
<1>1. frame \in Frames /\ frame.id = id /\ frame.calls = <<>>
  BY DEF Frames
<1> HIDE DEF frame
<1>2. /\ ~OnStack(id) /\ node[id] \in {"alive", "resolved"}
      /\ stack' = Append(stack, frame) /\ UNCHANGED <<table, throwing, tagged, node>>
  BY DEF Run, frame
<1>3. /\ stack' \in Seq(Frames) /\ n \in Nat
      /\ DOMAIN stack = 1 .. n /\ DOMAIN stack' = 1 .. n + 1
      /\ stack'[n + 1] = frame /\ \A i \in 1 .. n : stack'[i] = stack[i]
  BY <1>1, <1>2, Types, Appended DEF IInv, Bookkeeping
<1> HIDE DEF n
<1>4. \A i \in 1 .. n + 1 : i = n + 1 \/ (i \in 1 .. n /\ stack[i].id # id)
  BY <1>2, <1>3 DEF OnStack
<1>5. Busy' = Busy
  BY <1>1, <1>3, <1>4, \A i \in 1 .. n : i \in 1 .. n + 1 DEF Busy
<1>6. TypeOK'
  BY <1>2, <1>3 DEF IInv, Bookkeeping, TypeOK, Frames, Pending, MaybeSpan, table
<1>7. Bookkeeping'
  BY <1>2, <1>5, <1>6 DEF IInv, Bookkeeping, Busy, table
<1>8. Placed'
  BY <1>1, <1>2, <1>3, <1>4 DEF IInv, Placed
<1>9. Chained'
  <2> SUFFICES ASSUME NEW k \in 1 .. n + 1
               PROVE  Chain(stack'[k].calls, Get(spans, stack'[k].id), stack'[k].id, types)
    BY <1>2, <1>3 DEF Chained, table
  <2>1. CASE k = n + 1
    BY <1>1, <1>3, <2>1 DEF Chain
  <2>2. CASE k # n + 1
    BY <1>3, <1>4, <2>2 DEF IInv, Chained
  <2> QED BY <2>1, <2>2
<1>10. Used'
  BY <1>2 DEF IInv, Used, table
<1> QED BY <1>7, <1>8, <1>9, <1>10 DEF IInv

\* The frames below the one that returns.
LEMMA ReturnLeaves ==
    ASSUME IInv, Return
    PROVE  /\ stack' \in Seq(Frames) /\ DOMAIN stack' \subseteq DOMAIN stack
           /\ \A k \in DOMAIN stack' : stack'[k] = stack[k] /\ stack[k].id # eid
           /\ \A k \in DOMAIN stack : k \in DOMAIN stack' \/ stack[k] = Top
           /\ eid \in Id /\ eid \notin Busy /\ Busy' = Busy
           /\ node[eid] \in {"alive", "resolved"}
<1> DEFINE n == Len(stack)
<1>1. stack # <<>> /\ Top.calls = <<>> /\ stack' = Front(stack) /\ stack \in Seq(Frames)
  BY Types DEF Return, IInv, Bookkeeping
<1>2. n \in DOMAIN stack /\ Top = stack[n] /\ eid = Top.id /\ eid \in Id
  BY <1>1, TopFacts DEF IInv, Bookkeeping
<1>3. /\ stack' \in Seq(Frames) /\ n \in Nat /\ n > 0
      /\ DOMAIN stack = 1 .. n /\ DOMAIN stack' = 1 .. n - 1
      /\ \A i \in 1 .. n - 1 : stack'[i] = stack[i]
  BY <1>1, Shortened
<1> HIDE DEF n
<1>4. /\ \A i \in 1 .. n - 1 : i \in 1 .. n /\ i # n
      /\ \A i \in 1 .. n : i \in 1 .. n - 1 \/ i = n
  BY <1>3
<1>5. \A i \in 1 .. n - 1 : stack[i].id # eid
  BY <1>2, <1>3, <1>4 DEF IInv, Placed
<1>6. eid \notin Busy
  BY <1>1, <1>2, <1>3, <1>4, <1>5 DEF Busy
<1>7. Busy' = Busy
  BY <1>1, <1>2, <1>3, <1>4 DEF Busy
<1>8. node[eid] \in {"alive", "resolved"}
  BY <1>2 DEF IInv, Placed
<1> QED BY <1>2, <1>3, <1>4, <1>5, <1>6, <1>7, <1>8

LEMMA ReturnInv ==
    ASSUME IInv, Return
    PROVE  IInv'
<1>1. /\ stack' \in Seq(Frames) /\ DOMAIN stack' \subseteq DOMAIN stack
      /\ \A k \in DOMAIN stack' : stack'[k] = stack[k] /\ stack[k].id # eid
      /\ eid \in Id /\ eid \notin Busy /\ Busy' = Busy
      /\ node[eid] \in {"alive", "resolved"}
  BY ReturnLeaves
<1>2. UNCHANGED <<weak, tagged>>
  BY DEF Return
<1>3. CASE eid \in Promise
  <2>1. /\ Destroyed({eid}) /\ node' = [node EXCEPT ![eid] = "settled"]
        /\ throwing' = FALSE
    BY <1>3 DEF Return
  <2>2. /\ types' = types \ {eid} /\ count' = Cardinality(types')
        /\ DOMAIN spans' = DOMAIN spans \ {eid}
        /\ \A i : Get(spans', i) = IF i = eid THEN NoSpan ELSE Get(spans, i)
        /\ \A i : Get(spans', i) \in MaybeSpan
        /\ DOMAIN spans' \subseteq types' \cup Busy
    BY <1>1, <2>1, DestroyedLeaves
  <2>3. /\ node' \in [Id -> {"unused", "alive", "resolved", "settled", "gone"}]
        /\ \A i \in Id : node'[i] = IF i = eid THEN "settled" ELSE node[i]
    BY <1>1, <2>1 DEF IInv, Bookkeeping, TypeOK
  <2>4. TypeOK'
    BY <1>1, <1>2, <2>1, <2>2, <2>3, TableTyped DEF IInv, Bookkeeping, TypeOK
  <2>5. types' = {i \in Id \ Early : node'[i] = "alive"}
    BY <2>2, <2>3 DEF IInv, Bookkeeping
  <2>6. Bookkeeping'
    BY <1>1, <2>2, <2>4, <2>5 DEF Bookkeeping, Busy
  <2>7. Placed'
    <3>1. \A k \in DOMAIN stack' : stack'[k].id \in Id
      BY <1>1, Types DEF IInv, Bookkeeping, Frames
    <3> QED BY <1>1, <2>3, <3>1 DEF IInv, Placed
  <2>8. Chained'
    BY <1>1, <2>2 DEF IInv, Chained, Chain
  <2>9. Used'
    <3>1. Early \cup weak \subseteq Id
      BY ScopeAssumption DEF IInv, Bookkeeping, TypeOK
    <3> QED BY <1>2, <2>3, <3>1 DEF IInv, Used
  <2> QED BY <2>6, <2>7, <2>8, <2>9 DEF IInv
<1>4. CASE eid \notin Promise
  <2>1. /\ UNCHANGED <<spans, types, count, node>>
        /\ throwing' = (throwing /\ Len(stack) > 1)
    BY <1>4 DEF Return
  <2>2. throwing' \in BOOLEAN
    BY <2>1
  <2>3. TypeOK'
    BY <1>1, <1>2, <2>1, <2>2 DEF IInv, Bookkeeping, TypeOK, Frames, Pending, MaybeSpan
  <2>4. Bookkeeping'
    BY <1>1, <2>1, <2>3 DEF IInv, Bookkeeping, Busy
  <2>5. Placed' /\ Chained'
    BY <1>1, <2>1 DEF IInv, Placed, Chained
  <2>6. Used'
    BY <1>2, <2>1 DEF IInv, Used
  <2> QED BY <2>4, <2>5, <2>6 DEF IInv
<1> QED BY <1>3, <1>4

LEMMA NextInv ==
    ASSUME IInv, [Next]_vars
    PROVE  IInv'
<1>1. CASE Throw \/ Catch \/ UNCHANGED vars
  <2>1. UNCHANGED <<table, stack, tagged, node>> /\ throwing' \in BOOLEAN
    BY <1>1 DEF Throw, Catch, vars, IInv, Bookkeeping, TypeOK
  <2>2. TypeOK'
    BY <2>1 DEF IInv, Bookkeeping, TypeOK, table
  <2>3. Bookkeeping' /\ Placed'
    BY <2>1, <2>2 DEF IInv, Bookkeeping, Placed, table
  <2>4. Chained' /\ Used'
    BY <2>1 DEF IInv, Chained, Used, table
  <2> QED BY <2>3, <2>4 DEF IInv
<1> QED BY <1>1, InitHookInv, DestroyInv, ResolveInv, RunInv, ReturnInv, ActivateInv, LeaveInv
        DEF Next

THEOREM Inductive == Spec => []IInv
<1> QED BY InitInv, NextInv, PTL DEF Spec

\* The table holds entries only for what can still run or has an activate()
\* call pending, and the metric counts the resources that are alive.
THEOREM TableIsKept == Spec => []Bookkeeping
<1>1. IInv => Bookkeeping
  BY DEF IInv
<1> QED BY <1>1, Inductive, PTL

----------------------------------------------------------------------------
\* The refinement.  Its stack is that of the table's, frame by frame and call
\* by call.
Image(q, g) == [i \in DOMAIN q |-> g[q[i]]]

Shown(calls) == [c \in DOMAIN calls |-> calls[c].span]

OfCall  == [call \in Pending |-> call.span]
OfFrame == [frame \in Frames |-> [id |-> frame.id, active |-> Shown(frame.calls)]]

ContextStack == [k \in DOMAIN stack |->
                    [id     |-> stack[k].id,
                     active |-> [c \in DOMAIN stack[k].calls |-> stack[k].calls[c].span]]]

LEMMA ImageTyped ==
    ASSUME NEW S, NEW T, NEW g \in [S -> T], NEW q \in Seq(S)
    PROVE  Image(q, g) \in Seq(T)
<1>1. Len(q) \in Nat /\ DOMAIN q = 1 .. Len(q) /\ \A i \in 1 .. Len(q) : q[i] \in S
  OBVIOUS
<1> QED BY <1>1 DEF Image

LEMMA ImageFacts ==
    ASSUME NEW S, NEW q \in Seq(S), NEW g, NEW T, Image(q, g) \in Seq(T)
    PROVE  /\ Len(Image(q, g)) = Len(q)
           /\ Image(q, g) = <<>> <=> q = <<>>
           /\ q # <<>> => Last(Image(q, g)) = g[Last(q)]
<1>1. Len(q) \in Nat /\ DOMAIN q = 1 .. Len(q) /\ DOMAIN Image(q, g) = DOMAIN q
  BY DEF Image
<1>2. Len(Image(q, g)) = Len(q)
  BY <1>1
<1>3. q # <<>> => Len(q) \in 1 .. Len(q)
  BY <1>1
<1>4. q # <<>> => Last(Image(q, g)) = g[Last(q)]
  BY <1>1, <1>2, <1>3 DEF Last, Image
<1> QED BY <1>2, <1>4

LEMMA ImageAppend ==
    ASSUME NEW S, NEW T, NEW g \in [S -> T], NEW q \in Seq(S), NEW e \in S
    PROVE  Image(Append(q, e), g) = Append(Image(q, g), g[e])
<1> DEFINE n == Len(q)
           r == Append(q, e)
<1>1. /\ r \in Seq(S) /\ n \in Nat /\ Len(r) = n + 1 /\ r[n + 1] = e
      /\ DOMAIN q = 1 .. n /\ DOMAIN r = 1 .. n + 1
      /\ \A i \in 1 .. n : r[i] = q[i]
  BY Appended
<1>2. Image(q, g) \in Seq(T) /\ Len(Image(q, g)) = Len(q)
  BY ImageTyped, ImageFacts
<1>3. /\ Append(Image(q, g), g[e]) \in Seq(T) /\ Len(Append(Image(q, g), g[e])) = n + 1
      /\ Append(Image(q, g), g[e])[n + 1] = g[e]
      /\ \A i \in 1 .. n : Append(Image(q, g), g[e])[i] = Image(q, g)[i]
  BY <1>2, Appended
<1> HIDE DEF n, r
<1>4. Image(r, g) \in Seq(T) /\ Len(Image(r, g)) = n + 1
  <2>1. Image(r, g) \in Seq(T) /\ Len(Image(r, g)) = Len(r)
    BY <1>1, ImageTyped, ImageFacts
  <2> QED BY <1>1, <2>1
<1>5. \A i \in 1 .. n + 1 : Image(r, g)[i] = Append(Image(q, g), g[e])[i]
  <2>1. ASSUME NEW i \in 1 .. n + 1 PROVE Image(r, g)[i] = Append(Image(q, g), g[e])[i]
    <3>1. i = n + 1 \/ i \in 1 .. n
      BY <1>1, <2>1
    <3>2. Image(r, g)[i] = g[r[i]] /\ (i \in 1 .. n => Image(q, g)[i] = g[q[i]])
      BY <1>1 DEF Image
    <3> QED BY <1>1, <1>3, <3>1, <3>2
  <2> QED BY <2>1
<1> QED BY <1>1, <1>3, <1>4, <1>5, SeqEqual DEF r

LEMMA ImageFront ==
    ASSUME NEW S, NEW T, NEW g \in [S -> T], NEW q \in Seq(S), q # <<>>
    PROVE  Image(Front(q), g) = Front(Image(q, g))
<1> DEFINE n == Len(q)
           r == Front(q)
<1>1. /\ r \in Seq(S) /\ n \in Nat /\ n > 0 /\ Len(r) = n - 1
      /\ DOMAIN q = 1 .. n /\ DOMAIN r = 1 .. n - 1
      /\ \A i \in 1 .. n - 1 : r[i] = q[i]
  BY Shortened
<1>2. Image(q, g) \in Seq(T) /\ Len(Image(q, g)) = Len(q) /\ Image(q, g) # <<>>
  BY ImageTyped, ImageFacts
<1>3. /\ Front(Image(q, g)) \in Seq(T) /\ Len(Front(Image(q, g))) = n - 1
      /\ \A i \in 1 .. n - 1 : Front(Image(q, g))[i] = Image(q, g)[i]
  BY <1>2, Shortened
<1> HIDE DEF n, r
<1>4. Image(r, g) \in Seq(T) /\ Len(Image(r, g)) = n - 1
  <2>1. Image(r, g) \in Seq(T) /\ Len(Image(r, g)) = Len(r)
    BY <1>1, ImageTyped, ImageFacts
  <2> QED BY <1>1, <2>1
<1>5. \A i \in 1 .. n - 1 : Image(r, g)[i] = Front(Image(q, g))[i]
  BY <1>1, <1>3 DEF Image
<1> QED BY <1>3, <1>4, <1>5, SeqEqual DEF r

Entry == [id : Id, active : Seq(MaybeSpan)]

LEMMA Mappings ==
    /\ OfCall \in [Pending -> MaybeSpan] /\ OfFrame \in [Frames -> Entry]
    /\ \A calls \in Seq(Pending) : Shown(calls) = Image(calls, OfCall)
<1>1. OfCall \in [Pending -> MaybeSpan]
  BY DEF OfCall, Pending
<1>2. ASSUME NEW calls \in Seq(Pending)
      PROVE  Shown(calls) = Image(calls, OfCall)
  <2>1. \A i \in DOMAIN calls : calls[i] \in Pending
    OBVIOUS
  <2> QED BY <2>1 DEF Shown, Image, OfCall
<1>3. ASSUME NEW frame \in Frames
      PROVE  [id |-> frame.id, active |-> Shown(frame.calls)] \in Entry
  <2>1. frame.id \in Id /\ frame.calls \in Seq(Pending)
    BY DEF Frames
  <2>2. Shown(frame.calls) \in Seq(MaybeSpan)
    BY <1>1, <1>2, <2>1, ImageTyped
  <2> QED BY <2>1, <2>2 DEF Entry
<1>4. OfFrame \in [Frames -> Entry]
  BY <1>3 DEF OfFrame
<1> QED BY <1>1, <1>2, <1>4

Mapped == stack \in Seq(Frames) /\ ContextStack = Image(stack, OfFrame)

LEMMA MappedNow == TypeOK => Mapped
<1> SUFFICES ASSUME TypeOK PROVE Mapped
  OBVIOUS
<1>1. stack \in Seq(Frames) /\ \A k \in DOMAIN stack : stack[k] \in Frames
  BY Types
<1>2. \A k \in DOMAIN stack : OfFrame[stack[k]] =
            [id |-> stack[k].id, active |-> [c \in DOMAIN stack[k].calls |-> stack[k].calls[c].span]]
  BY <1>1 DEF OfFrame, Shown
<1> QED BY <1>1, <1>2 DEF Mapped, ContextStack, Image

\* AsyncContext's own copies of the operators of SequencesExt.
LEMMA SameEnds ==
    /\ \A q : Context!Last(q) = Last(q)
    /\ \A q : Context!Front(q) = Front(q)
BY DEF Last, Front, Context!Last, Context!Front

LEMMA MappedNext == TypeOK' => Mapped'
BY MappedNow, PTL

\* The frames that run, as the refinement sees them.
LEMMA ContextTop ==
    ASSUME TypeOK, stack # <<>>
    PROVE  /\ ContextStack # <<>> /\ Top.calls \in Seq(Pending)
           /\ Last(ContextStack) = [id |-> eid, active |-> Shown(Top.calls)]
           /\ Shown(Top.calls) = <<>> <=> Top.calls = <<>>
           /\ Top.calls # <<>> => Last(Shown(Top.calls)) = Last(Top.calls).span
<1>1. /\ stack \in Seq(Frames) /\ ContextStack = Image(stack, OfFrame)
  BY MappedNow DEF Mapped
<1>2. Image(stack, OfFrame) \in Seq(Entry)
  BY <1>1, Mappings, ImageTyped
<1>3. ContextStack # <<>> /\ Last(ContextStack) = OfFrame[Top]
  BY <1>1, <1>2, ImageFacts DEF Top
<1>4. Top \in Frames /\ Top.calls \in Seq(Pending) /\ eid = Top.id
  BY TopFacts
<1>5. OfFrame[Top] = [id |-> eid, active |-> Shown(Top.calls)]
  BY <1>4 DEF OfFrame
<1>6. Shown(Top.calls) = Image(Top.calls, OfCall) /\ Image(Top.calls, OfCall) \in Seq(MaybeSpan)
  BY <1>4, Mappings, ImageTyped
<1>7. /\ Shown(Top.calls) = <<>> <=> Top.calls = <<>>
      /\ Top.calls # <<>> => Last(Shown(Top.calls)) = OfCall[Last(Top.calls)]
  BY <1>4, <1>6, ImageFacts
<1>8. Top.calls # <<>> => Last(Top.calls) \in Pending
  BY <1>4, Shortened
<1>9. Top.calls # <<>> => OfCall[Last(Top.calls)] = Last(Top.calls).span
  BY <1>8 DEF OfCall
<1> QED BY <1>3, <1>4, <1>5, <1>7, <1>9

LEMMA ContextPush ==
    ASSUME TypeOK, TypeOK', NEW frame \in Frames, stack' = Append(stack, frame)
    PROVE  ContextStack' = Append(ContextStack, [id |-> frame.id, active |-> Shown(frame.calls)])
<1>1. /\ stack \in Seq(Frames) /\ ContextStack = Image(stack, OfFrame)
      /\ ContextStack' = Image(stack', OfFrame)
  BY MappedNow, MappedNext DEF Mapped
<1>2. Image(Append(stack, frame), OfFrame) = Append(Image(stack, OfFrame), OfFrame[frame])
  BY <1>1, Mappings, ImageAppend
<1> QED BY <1>1, <1>2 DEF OfFrame

LEMMA ContextPop ==
    ASSUME TypeOK, TypeOK', stack # <<>>, stack' = Front(stack)
    PROVE  ContextStack' = Front(ContextStack)
<1>1. /\ stack \in Seq(Frames) /\ ContextStack = Image(stack, OfFrame)
      /\ ContextStack' = Image(stack', OfFrame)
  BY MappedNow, MappedNext DEF Mapped
<1>2. Image(Front(stack), OfFrame) = Front(Image(stack, OfFrame))
  BY <1>1, Mappings, ImageFront
<1> QED BY <1>1, <1>2

LEMMA ContextReplace ==
    ASSUME TypeOK, TypeOK', stack # <<>>, NEW calls \in Seq(Pending),
           stack' = WithTop([Top EXCEPT !.calls = calls])
    PROVE  ContextStack' = Append(Front(ContextStack), [id |-> eid, active |-> Shown(calls)])
<1> DEFINE frame == [Top EXCEPT !.calls = calls]
<1>1. /\ stack \in Seq(Frames) /\ ContextStack = Image(stack, OfFrame)
      /\ ContextStack' = Image(stack', OfFrame)
  BY MappedNow, MappedNext DEF Mapped
<1>2. Image(Front(stack), OfFrame) = Front(Image(stack, OfFrame)) /\ Front(stack) \in Seq(Frames)
  BY <1>1, Mappings, ImageFront, Shortened
<1>3. frame \in Frames /\ frame.id = eid /\ frame.calls = calls
  BY TopFacts DEF Frames
<1> HIDE DEF frame
<1>4. Image(Append(Front(stack), frame), OfFrame)
          = Append(Image(Front(stack), OfFrame), OfFrame[frame])
  BY <1>2, <1>3, Mappings, ImageAppend
<1>5. OfFrame[frame] = [id |-> eid, active |-> Shown(calls)]
  BY <1>3 DEF OfFrame
<1> QED BY <1>1, <1>2, <1>4, <1>5 DEF WithTop, frame

\* The spans that the resources were created under.
Held == [id \in Id |-> Captured(id)]

Over == {id \in Id : node[id] \in {"settled", "gone"}}

HeldIs ==
    /\ \A id \in Id : ~OnStack(id) => Held[id] = Get(spans, id)
    /\ \A k \in DOMAIN stack :
          Held[stack[k].id] = IF stack[k].calls = <<>> THEN Get(spans, stack[k].id)
                              ELSE stack[k].calls[1].old

LEMMA HeldNow == IInv => HeldIs
<1> SUFFICES ASSUME IInv PROVE HeldIs
  OBVIOUS
<1>1. \A id \in Id : ~OnStack(id) => Held[id] = Get(spans, id)
  BY DEF Held, Captured
<1>2. ASSUME NEW k \in DOMAIN stack
      PROVE  Held[stack[k].id] = IF stack[k].calls = <<>> THEN Get(spans, stack[k].id)
                                 ELSE stack[k].calls[1].old
  <2>1. stack[k].id \in Id /\ OnStack(stack[k].id)
    BY Types DEF IInv, Bookkeeping, Frames, OnStack
  <2>2. Frame(stack[k].id) = k
    BY DEF Frame, IInv, Placed
  <2> QED BY <2>1, <2>2 DEF Held, Captured
<1> QED BY <1>1, <1>2 DEF HeldIs

LEMMA HeldNext == IInv' => HeldIs'
BY HeldNow, PTL

\* active() is what the promise says, whatever overwrote the table before.
LEMMA ActiveNow == IInv => ActiveIsInnermost
<1> SUFFICES ASSUME IInv PROVE Active = Context!Active
  BY DEF ActiveIsInnermost
<1>0. TypeOK
  BY DEF IInv, Bookkeeping
<1>1. CASE stack = <<>>
  <2>1. ContextStack = <<>>
    BY <1>1 DEF ContextStack
  <2> QED BY <1>1, <2>1 DEF Active, Context!Active, ContextStack
<1>2. CASE stack # <<>>
  <2>1. /\ ContextStack # <<>> /\ Last(ContextStack) = [id |-> eid, active |-> Shown(Top.calls)]
        /\ Shown(Top.calls) = <<>> <=> Top.calls = <<>>
        /\ Top.calls # <<>> => Last(Shown(Top.calls)) = Last(Top.calls).span
    BY <1>0, <1>2, ContextTop
  <2>2. Context!Active = IF Top.calls = <<>> THEN Held[eid] ELSE Last(Top.calls).span
    BY <2>1, SameEnds DEF Context!Active, Context!Top, ContextStack, Held
  <2>3. /\ Len(stack) \in DOMAIN stack /\ Top = stack[Len(stack)] /\ eid = Top.id
        /\ Top.calls \in Seq(Pending) /\ Active = Get(spans, eid)
    BY <1>0, <1>2, TopFacts
  <2>4. Top.calls = <<>> => Held[eid] = Active
    BY <2>3, HeldNow DEF HeldIs
  <2>5. Top.calls # <<>> => Last(Top.calls).span = Active
    BY <2>3 DEF IInv, Chained, Chain, Last
  <2> QED BY <2>2, <2>4, <2>5
<1> QED BY <1>1, <1>2

\* The one entry of the table that active() reads is the span of the
\* innermost pending activate() of what runs, or the one it was created under.
THEOREM ActiveIsRight == Spec => []ActiveIsInnermost
BY ActiveNow, Inductive, PTL

----------------------------------------------------------------------------
\* Every step is one of the promise, or a stutter.

LEMMA SameRunning ==
    ASSUME TypeOK
    PROVE  \A id : Context!OnStack(id) <=> OnStack(id)
<1>1. DOMAIN ContextStack = DOMAIN stack /\ \A k \in DOMAIN stack : ContextStack[k].id = stack[k].id
  BY DEF ContextStack
<1> QED BY <1>1 DEF Context!OnStack, OnStack, ContextStack

\* The resources whose frame and entry a step leaves keep their span.
LEMMA KeepsHeld ==
    ASSUME IInv, IInv', NEW others, \A i \in others : Get(spans', i) = Get(spans, i),
           \A k \in DOMAIN stack' : stack'[k].id \in others =>
               k \in DOMAIN stack /\ stack'[k] = stack[k],
           \A k \in DOMAIN stack : stack[k].id \in others =>
               stack[k].calls = <<>> \/ (k \in DOMAIN stack' /\ stack'[k] = stack[k])
    PROVE  \A i \in Id : i \in others => Held'[i] = Held[i]
<1> SUFFICES ASSUME NEW i \in Id, i \in others PROVE Held'[i] = Held[i]
  OBVIOUS
<1>1. HeldIs /\ HeldIs'
  BY HeldNow, HeldNext
<1>2. ASSUME NEW k \in DOMAIN stack', stack'[k].id = i
      PROVE  Held'[i] = Held[i]
  <2>1. k \in DOMAIN stack /\ stack'[k] = stack[k]
    BY <1>2
  <2> QED BY <1>1, <1>2, <2>1 DEF HeldIs
<1>3. CASE \A k \in DOMAIN stack' : stack'[k].id # i
  <2>1. Held'[i] = Get(spans, i)
    BY <1>1, <1>3 DEF HeldIs, OnStack
  <2>2. ASSUME NEW k \in DOMAIN stack, stack[k].id = i
        PROVE  Held[i] = Get(spans, i)
    <3>1. stack[k].calls = <<>>
      BY <1>3, <2>2
    <3> QED BY <1>1, <2>2, <3>1 DEF HeldIs
  <2>3. (\A k \in DOMAIN stack : stack[k].id # i) => Held[i] = Get(spans, i)
    BY <1>1 DEF HeldIs, OnStack
  <2> QED BY <2>1, <2>2, <2>3
<1> QED BY <1>2, <1>3

\* A step that leaves the table's entries, the stack and the resources.
LEMMA SameContext ==
    ASSUME UNCHANGED <<spans, stack, node>>
    PROVE  UNCHANGED <<Held, Over, ContextStack>>
BY DEF Held, Over, ContextStack, Captured, Frame, OnStack, Get

LEMMA CreateStep ==
    ASSUME IInv, IInv', NEW id \in Id, Init_(id)
    PROVE  Context!Next
<1>1. /\ ~OnStack(id) /\ id \notin Stale(id) /\ Stale(id) \subseteq Handle
      /\ Stale(id) = {} \/ \E h \in Handle : Stale(id) = {h}
      /\ \A k \in DOMAIN stack : stack[k].id # id /\ stack[k].id \notin Stale(id)
      /\ \A i : Get(spans', i) = IF i = id THEN Active
                                 ELSE IF i \in Stale(id) THEN NoSpan ELSE Get(spans, i)
      /\ \A i \in Id : node'[i] = IF i = id THEN "alive"
                                  ELSE IF i \in Stale(id) THEN "gone" ELSE node[i]
  BY InitLeaves
<1>2. UNCHANGED <<stack, tagged>> /\ node[id] = "unused"
  BY DEF Init_
<1>3. PICK replaced \in {{}} \cup {{i} : i \in Id \ {id}} : replaced = Stale(id)
  BY <1>1, ScopeAssumption
<1>4. \A i \in Id : i \in Id \ (Stale(id) \cup {id}) => Held'[i] = Held[i]
  <2>1. \A i \in Id \ (Stale(id) \cup {id}) : Get(spans', i) = Get(spans, i)
    BY <1>1
  <2>2. \A k \in DOMAIN stack : k \in DOMAIN stack' /\ stack'[k] = stack[k]
    BY <1>2
  <2> QED BY <1>2, <2>1, <2>2, KeepsHeld
<1>5. HeldIs' /\ Active = Context!Active
  BY HeldNext, ActiveNow DEF ActiveIsInnermost
<1>6. /\ Held'[id] = Context!Active
      /\ \A i \in Stale(id) : i \in Id /\ Held'[i] = NoSpan
  BY <1>1, <1>2, <1>5, ScopeAssumption DEF HeldIs, OnStack
<1>7. Held' = [i \in Id |-> IF i = id THEN Context!Active
                            ELSE IF i \in Stale(id) THEN NoSpan ELSE Held[i]]
  BY <1>4, <1>6 DEF Held
<1>8. Over' = Over \cup Stale(id)
  BY <1>1, <1>2, ScopeAssumption DEF Over
<1>9. ContextStack' = ContextStack
  BY <1>2 DEF ContextStack
<1>10. \A i \in Stale(id) : ~Context!OnStack(i)
  <2>1. TypeOK
    BY DEF IInv, Bookkeeping
  <2> QED BY <1>1, <2>1, SameRunning DEF OnStack
<1>11. Context!Create(id, replaced)
  BY <1>2, <1>3, <1>7, <1>8, <1>9, <1>10 DEF Context!Create, Held, Over, ContextStack
<1> QED BY <1>11 DEF Context!Next

\* What Destroy and Resolve have in common.
LEMMA EndStep ==
    ASSUME IInv, IInv', NEW id \in Id, ~OnStack(id), Destroyed({id}),
           NEW state \in {"settled", "gone"}, node' = [node EXCEPT ![id] = state],
           UNCHANGED <<stack, tagged>>
    PROVE  Context!Next
<1>1. \A i : Get(spans', i) = IF i \in {id} THEN NoSpan ELSE Get(spans, i)
  <2>1. spans' = Drop(spans, {id})
    BY DEF Destroyed
  <2> QED BY <2>1, DropReads
<1>2. \A i \in Id : i \in Id \ {id} => Held'[i] = Held[i]
  <2>1. \A i \in Id \ {id} : Get(spans', i) = Get(spans, i)
    BY <1>1
  <2>2. \A k \in DOMAIN stack : k \in DOMAIN stack' /\ stack'[k] = stack[k]
    OBVIOUS
  <2> QED BY <2>1, <2>2, KeepsHeld
<1>3. Held'[id] = NoSpan
  BY <1>1, HeldNext DEF HeldIs, OnStack
<1>4. Held' = [Held EXCEPT ![id] = NoSpan]
  BY <1>2, <1>3 DEF Held
<1>5. Over' = Over \cup {id}
  BY DEF Over, IInv, Bookkeeping, TypeOK
<1>6. ContextStack' = ContextStack
  BY DEF ContextStack
<1>7. ~Context!OnStack(id)
  BY SameRunning DEF IInv, Bookkeeping
<1>8. Context!End(id)
  BY <1>4, <1>5, <1>6, <1>7 DEF Context!End, Held, Over, ContextStack
<1> QED BY <1>8 DEF Context!Next

LEMMA RunStep ==
    ASSUME IInv, IInv', NEW id \in Id, Run(id)
    PROVE  Context!Next
<1> DEFINE frame == [id |-> id, calls |-> <<>>]
           n     == Len(stack)
<1>0. TypeOK /\ TypeOK'
  BY DEF IInv, Bookkeeping
<1>1. /\ ~OnStack(id) /\ node[id] \in {"alive", "resolved"} /\ stack' = Append(stack, frame)
      /\ UNCHANGED <<spans, tagged, node>> /\ frame \in Frames /\ stack \in Seq(Frames)
  BY <1>0, Types DEF Run, table, Frames
<1>2. /\ n \in Nat /\ DOMAIN stack = 1 .. n /\ DOMAIN stack' = 1 .. n + 1
      /\ stack'[n + 1] = frame /\ \A i \in 1 .. n : stack'[i] = stack[i]
  BY <1>1, Appended
<1>3. ContextStack' = Append(ContextStack, [id |-> id, active |-> <<>>])
  <2>1. ContextStack' = Append(ContextStack, [id |-> frame.id, active |-> Shown(frame.calls)])
    BY <1>0, <1>1, ContextPush
  <2>2. Shown(<<>>) = <<>>
    BY DEF Shown
  <2> QED BY <2>1, <2>2
<1>4. /\ \A k \in 1 .. n + 1 : k = n + 1 \/ k \in 1 .. n
      /\ \A k \in 1 .. n : k \in 1 .. n + 1
  BY <1>2
<1>5. Held' = Held
  <2>1. \A i \in Id : i \in Id \ {id} => Held'[i] = Held[i]
    <3>1. \A k \in DOMAIN stack' : stack'[k].id \in Id \ {id} =>
              k \in DOMAIN stack /\ stack'[k] = stack[k]
      BY <1>2, <1>4
    <3>2. \A k \in DOMAIN stack : k \in DOMAIN stack' /\ stack'[k] = stack[k]
      BY <1>2, <1>4
    <3>3. \A i \in Id \ {id} : Get(spans', i) = Get(spans, i)
      BY <1>1
    <3> QED BY <3>1, <3>2, <3>3, KeepsHeld
  <2>2. Held[id] = Get(spans, id)
    BY <1>1, HeldNow DEF HeldIs
  <2>3. n + 1 \in DOMAIN stack' /\ stack'[n + 1].id = id /\ stack'[n + 1].calls = <<>>
    BY <1>2
  <2>4. Held'[id] = Get(spans, id)
    BY <1>1, <2>3, HeldNext DEF HeldIs
  <2> QED BY <2>1, <2>2, <2>4 DEF Held
<1>6. Over' = Over /\ id \notin Over
  BY <1>1 DEF Over
<1>7. ~Context!OnStack(id)
  BY <1>0, <1>1, SameRunning
<1>8. Context!Run(id)
  BY <1>1, <1>3, <1>5, <1>6, <1>7 DEF Context!Run, Held, Over, ContextStack
<1> QED BY <1>8 DEF Context!Next

LEMMA ReturnStep ==
    ASSUME IInv, IInv', Return
    PROVE  Context!Next
<1>0. TypeOK /\ TypeOK' /\ stack # <<>> /\ Top.calls = <<>> /\ stack' = Front(stack)
      /\ tagged' = tagged
  BY DEF Return, IInv, Bookkeeping
<1>1. /\ \A k \in DOMAIN stack' : stack'[k] = stack[k] /\ stack[k].id # eid
      /\ DOMAIN stack' \subseteq DOMAIN stack
      /\ \A k \in DOMAIN stack : k \in DOMAIN stack' \/ stack[k] = Top
      /\ eid \in Id /\ node[eid] \in {"alive", "resolved"}
  BY ReturnLeaves
<1>2. /\ ContextStack # <<>> /\ Last(ContextStack) = [id |-> eid, active |-> Shown(Top.calls)]
      /\ Shown(Top.calls) = <<>>
  BY <1>0, ContextTop
<1>3. Context!Top.active = <<>> /\ Context!Top.id = eid
  BY <1>2, SameEnds DEF Context!Top, ContextStack
<1>4. ContextStack' = Front(ContextStack)
  BY <1>0, ContextPop
<1>5. (\A i \in Id \ {eid} : Get(spans', i) = Get(spans, i)) =>
          \A i \in Id : i \in Id \ {eid} => Held'[i] = Held[i]
  BY <1>0, <1>1, KeepsHeld
<1>6. Held'[eid] = Get(spans', eid)
  BY <1>1, HeldNext DEF HeldIs, OnStack
<1>7. CASE eid \in Promise
  <2>1. Destroyed({eid}) /\ node' = [node EXCEPT ![eid] = "settled"]
    BY <1>7 DEF Return
  <2>2. \A i : Get(spans', i) = IF i \in {eid} THEN NoSpan ELSE Get(spans, i)
    BY <2>1 DEF Destroyed, Drop, Get
  <2>3. Held' = [Held EXCEPT ![eid] = NoSpan]
    BY <1>1, <1>5, <1>6, <2>2 DEF Held
  <2>4. Over' = Over \cup {eid}
    BY <1>0, <1>1, <2>1 DEF Over, TypeOK
  <2>5. Context!Return(TRUE)
    BY <1>0, <1>2, <1>3, <1>4, <2>3, <2>4, SameEnds DEF Context!Return, Held, Over, ContextStack
  <2> QED BY <2>5 DEF Context!Next
<1>8. CASE eid \notin Promise
  <2>1. UNCHANGED <<spans, node>>
    BY <1>8 DEF Return
  <2>2. Held[eid] = Get(spans, eid)
    <3>1. Len(stack) \in DOMAIN stack /\ Top = stack[Len(stack)] /\ eid = Top.id
      BY <1>0, TopFacts
    <3> QED BY <1>0, <3>1, HeldNow DEF HeldIs
  <2>3. Held' = Held
    BY <1>1, <1>5, <1>6, <2>1, <2>2 DEF Held
  <2>4. Over' = Over
    BY <2>1 DEF Over
  <2>5. Context!Return(FALSE)
    BY <1>0, <1>2, <1>3, <1>4, <2>3, <2>4, SameEnds DEF Context!Return, Held, Over, ContextStack
  <2> QED BY <2>5 DEF Context!Next
<1> QED BY <1>7, <1>8

\* The frame on top gets other calls, and its resource keeps its span.
LEMMA TopKeepsHeld ==
    ASSUME IInv, IInv', stack # <<>>, NEW calls \in Seq(Pending),
           stack' = WithTop([Top EXCEPT !.calls = calls]),
           \A i : i # eid => Get(spans', i) = Get(spans, i),
           Held[eid] = IF calls = <<>> THEN Get(spans', eid) ELSE calls[1].old
    PROVE  Held' = Held
<1> DEFINE frame == [Top EXCEPT !.calls = calls]
           n     == Len(stack)
<1>1. /\ stack \in Seq(Frames) /\ n \in DOMAIN stack /\ Top = stack[n] /\ Top \in Frames
      /\ eid = Top.id /\ eid \in Id
  BY Types, TopFacts DEF IInv, Bookkeeping
<1>2. frame \in Frames /\ frame.id = eid /\ frame.calls = calls
  BY <1>1 DEF Frames
<1> HIDE DEF frame
<1>3. /\ DOMAIN stack' = DOMAIN stack /\ stack'[n] = frame
      /\ \A i \in DOMAIN stack : i # n => stack'[i] = stack[i]
  BY <1>1, <1>2, Replaced DEF WithTop, frame
<1> HIDE DEF n
<1>4. \A i \in Id : i \in Id \ {eid} => Held'[i] = Held[i]
  <2>1. \A k \in DOMAIN stack' : stack'[k].id \in Id \ {eid} =>
            k \in DOMAIN stack /\ stack'[k] = stack[k]
    BY <1>2, <1>3
  <2>2. \A k \in DOMAIN stack : stack[k].id \in Id \ {eid} =>
            k \in DOMAIN stack' /\ stack'[k] = stack[k]
    BY <1>1, <1>3
  <2>3. \A i \in Id \ {eid} : Get(spans', i) = Get(spans, i)
    OBVIOUS
  <2> QED BY <2>1, <2>2, <2>3, KeepsHeld
<1>5. Held'[eid] = IF calls = <<>> THEN Get(spans', eid) ELSE calls[1].old
  <2>1. n \in DOMAIN stack' /\ stack'[n].id = eid /\ stack'[n].calls = calls
    BY <1>1, <1>2, <1>3
  <2> QED BY <2>1, HeldNext DEF HeldIs
<1> QED BY <1>1, <1>4, <1>5 DEF Held

\* The span of what runs, before a step.
LEMMA TopHeld ==
    ASSUME IInv, stack # <<>>
    PROVE  Held[eid] = IF Top.calls = <<>> THEN Active ELSE Top.calls[1].old
<1>1. /\ Len(stack) \in DOMAIN stack /\ Top = stack[Len(stack)] /\ eid = Top.id
      /\ Active = Get(spans, eid)
  BY TopFacts DEF IInv, Bookkeeping
<1> QED BY <1>1, HeldNow DEF HeldIs

LEMMA ActivateStep ==
    ASSUME IInv, IInv', NEW span \in Span \cup {NoSpan}, Activate(span)
    PROVE  Context!Next
<1> DEFINE call  == [span |-> span, old |-> Active]
           calls == Append(Top.calls, call)
<1>0. TypeOK /\ TypeOK' /\ stack # <<>> /\ UNCHANGED <<node, tagged>>
  BY DEF Activate, IInv, Bookkeeping
<1>1. Activates(span, call)
  BY ActivateDoes
<1>2. /\ call \in Pending /\ call.span = span
      /\ calls \in Seq(Pending) /\ calls # <<>>
      /\ calls[1].old = IF Top.calls = <<>> THEN Active ELSE Top.calls[1].old
      /\ stack' = WithTop([Top EXCEPT !.calls = calls])
      /\ \A i : i # eid => Get(spans', i) = Get(spans, i)
  BY <1>1 DEF Activates
<1>3. Shown(calls) = Append(Shown(Top.calls), span)
  <2>1. Top.calls \in Seq(Pending)
    BY <1>0, ContextTop
  <2>2. call \in Pending /\ OfCall \in [Pending -> MaybeSpan]
    BY <1>2, Mappings
  <2> HIDE DEF call
  <2>3. Image(calls, OfCall) = Append(Image(Top.calls, OfCall), OfCall[call])
    BY <2>1, <2>2, ImageAppend
  <2>4. OfCall[call] = span
    BY <1>2 DEF OfCall
  <2>5. Shown(calls) = Image(calls, OfCall) /\ Shown(Top.calls) = Image(Top.calls, OfCall)
    BY <1>2, <2>1, Mappings
  <2> QED BY <2>3, <2>4, <2>5
<1> HIDE DEF call, calls
<1>4. /\ ContextStack # <<>>
      /\ Last(ContextStack) = [id |-> eid, active |-> Shown(Top.calls)]
  BY <1>0, ContextTop
<1>5. [Last(ContextStack) EXCEPT !.active = Append(@, span)] = [id |-> eid, active |-> Shown(calls)]
  <2>1. \A S, T : [[id |-> eid, active |-> S] EXCEPT !.active = T] = [id |-> eid, active |-> T]
    OBVIOUS
  <2>2. Last(ContextStack).active = Shown(Top.calls)
    BY <1>4
  <2>3. Append(Last(ContextStack).active, span) = Shown(calls)
    BY <1>3, <2>2
  <2>4. [Last(ContextStack) EXCEPT !.active = Shown(calls)] = [id |-> eid, active |-> Shown(calls)]
    BY <1>4, <2>1
  <2> QED BY <2>3, <2>4
<1>6. ContextStack' = Append(Front(ContextStack), [id |-> eid, active |-> Shown(calls)])
  BY <1>0, <1>2, ContextReplace
<1>7. Held' = Held
  BY <1>0, <1>2, TopHeld, TopKeepsHeld
<1>8. Over' = Over
  BY <1>0 DEF Over
<1>9. Context!Activate(span)
  BY <1>0, <1>4, <1>5, <1>6, <1>7, <1>8, SameEnds
     DEF Context!Activate, Context!WithTop, Context!Top, Held, Over, ContextStack
<1> QED BY <1>9 DEF Context!Next

LEMMA LeaveStep ==
    ASSUME IInv, IInv', Leave
    PROVE  Context!Next
<1> DEFINE call  == Last(Top.calls)
           calls == Front(Top.calls)
<1>0. TypeOK /\ TypeOK' /\ stack # <<>> /\ node' = node /\ throwing \in BOOLEAN
  BY DEF Leave, IInv, Bookkeeping, TypeOK
<1>1. Leaves(call, calls)
  BY LeaveDoes
<1>2. Shown(calls) = Front(Shown(Top.calls))
  <2>1. Top.calls \in Seq(Pending) /\ Top.calls # <<>> /\ calls \in Seq(Pending)
    BY <1>0, <1>1, ContextTop DEF Leaves
  <2>2. Image(calls, OfCall) = Front(Image(Top.calls, OfCall))
    BY <2>1, Mappings, ImageFront
  <2> QED BY <2>1, <2>2, Mappings
<1>3. tagged' = IF throwing THEN tagged \cup ({Active} \ {NoSpan}) ELSE tagged
  BY <1>1 DEF Leave, Leaves
<1> HIDE DEF call, calls
<1>4. /\ ContextStack # <<>>
      /\ Last(ContextStack) = [id |-> eid, active |-> Shown(Top.calls)]
      /\ Shown(Top.calls) # <<>>
  BY <1>0, <1>1, ContextTop DEF Leaves
<1>5. /\ [Last(ContextStack) EXCEPT !.active = Front(@)] = [id |-> eid, active |-> Shown(calls)]
      /\ Last(ContextStack).active # <<>>
  BY <1>2, <1>4
<1>6. ContextStack' = Append(Front(ContextStack), [id |-> eid, active |-> Shown(calls)])
  BY <1>0, <1>1, ContextReplace DEF Leaves
<1>7. Held' = Held
  <2>1. Held[eid] = Top.calls[1].old
    BY <1>0, <1>1, TopHeld DEF Leaves
  <2>2. Held[eid] = IF calls = <<>> THEN Get(spans', eid) ELSE calls[1].old
    BY <1>1, <2>1 DEF Leaves
  <2>3. /\ calls \in Seq(Pending) /\ stack' = WithTop([Top EXCEPT !.calls = calls])
        /\ \A i : i # eid => Get(spans', i) = Get(spans, i)
    BY <1>1 DEF Leaves
  <2> QED BY <1>0, <2>2, <2>3, TopKeepsHeld
<1>8. Over' = Over
  BY <1>0 DEF Over
<1>9. tagged' = IF throwing THEN tagged \cup ({Context!Active} \ {NoSpan}) ELSE tagged
  BY <1>3, ActiveNow DEF ActiveIsInnermost
<1>10. /\ ContextStack' = Context!WithTop([Context!Top EXCEPT !.active = Context!Front(@)])
       /\ Context!Top.active # <<>>
  BY <1>5, <1>6, SameEnds DEF Context!WithTop, Context!Top, ContextStack
<1>11. PICK error \in BOOLEAN : error = throwing
  BY <1>0
<1>12. Context!Leave(error)
  BY <1>4, <1>7, <1>8, <1>9, <1>10, <1>11 DEF Context!Leave, Held, Over, ContextStack
<1> QED BY <1>12 DEF Context!Next

LEMMA InitContext == Init => Context!Init
<1> SUFFICES ASSUME Init PROVE Context!Init
  OBVIOUS
<1> DEFINE frame == [id |-> Root, calls |-> <<>>]
<1>1. stack = <<frame>> /\ DOMAIN stack = {1} /\ stack[1].id = Root /\ stack[1].calls = <<>>
  BY DEF Init
<1>2. ContextStack = <<[id |-> Root, active |-> <<>>]>>
  BY <1>1 DEF ContextStack
<1>3. HeldIs
  BY InitInv, HeldNow
<1>4. \A i : Get(spans, i) = NoSpan
  BY DEF Init, Get
<1>5. Held = [i \in Id |-> NoSpan]
  <2>1. \A i \in Id : Held[i] = NoSpan
    BY <1>1, <1>3, <1>4 DEF HeldIs, OnStack
  <2> QED BY <2>1 DEF Held
<1>6. Over = {}
  BY DEF Init, Over
<1> QED BY <1>2, <1>5, <1>6 DEF Init, Context!Init, Held, Over, ContextStack

LEMMA StepContext ==
    ASSUME IInv, IInv', ~Thenables, [Next]_vars
    PROVE  [Context!Next]_Context!vars
<1>1. ASSUME NEW id \in Id, Destroy(id)
      PROVE  Context!Next
  <2>1. /\ Destroyed({id}) /\ node' = [node EXCEPT ![id] = "gone"]
        /\ UNCHANGED <<stack, tagged>> /\ ~OnStack(id)
    BY <1>1 DEF Destroy, OnStack
  <2> QED BY <2>1, EndStep
<1>2. ASSUME NEW p \in Promise, Resolve(p)
      PROVE  Context!Next
  <2>1. /\ Destroyed({p}) /\ node' = [node EXCEPT ![p] = "settled"]
        /\ UNCHANGED <<stack, tagged>> /\ ~OnStack(p) /\ p \in Id
    BY <1>2, ScopeAssumption DEF Resolve
  <2> QED BY <2>1, EndStep
<1>3. ASSUME Throw \/ Catch \/ UNCHANGED vars
      PROVE  UNCHANGED Context!vars
  <2>1. UNCHANGED <<spans, stack, tagged, node>>
    BY <1>3 DEF Throw, Catch, vars, table
  <2>2. UNCHANGED <<Held, Over, ContextStack>>
    BY <2>1, SameContext
  <2> QED BY <2>1, <2>2 DEF Context!vars, Held, Over, ContextStack
<1> QED BY <1>1, <1>2, <1>3, CreateStep, RunStep, ReturnStep, ActivateStep, LeaveStep DEF Next

\* No callback changes the span another one runs with, if promises are not
\* resolved with thenables: one that is loses its span before its then runs.
THEOREM KeepsEverySpan ==
    ASSUME ~Thenables
    PROVE  Spec => KeepsContext
<1>1. IInv /\ IInv' /\ [Next]_vars => [Context!Next]_Context!vars
  BY StepContext
<1> QED BY <1>1, Inductive, InitContext, PTL DEF Spec, KeepsContext, Context!Spec
====
