---- MODULE MetricsAndEmitterProofs ----
(***************************************************************************)
(* Theorems of the two components whose steps are loops: RuntimeMetrics    *)
(* and BoundEmitter.                                                       *)
(*                                                                         *)
(* Of RuntimeMetrics, for any spans, names and tags and any sizes of       *)
(* messages: the counters of spans, what a report says of them, that turns *)
(* and pauses are reported once, and how reports are packed.               *)
(*                                                                         *)
(* Of BoundEmitter, for any listeners, spans and number of registrations:  *)
(* that its table agrees with the list of Node, and that it implements     *)
(* ListenerList.                                                           *)
(*                                                                         *)
(* What holds of a loop is proved by induction over the numbers of its     *)
(* steps, which Induct has for a set of numbers in place of a property,    *)
(* and which both components share.                                        *)
(***************************************************************************)
EXTENDS RuntimeMetrics, EmitterProperties, FiniteSetTheorems, SequenceTheorems, WellFoundedInduction, TLAPS

----------------------------------------------------------------------------
\* Counters.

\* A counter stays within its range, as there are fewer spans than that.
LEMMA InRange ==
    ASSUME NEW S \in SUBSET Span
    PROVE  /\ IsFiniteSet(S) /\ Cardinality(S) \in Nat
           /\ Width \in Nat /\ Cardinality(S) < Width
           /\ Cardinality(S) % Width = Cardinality(S)
<1>1. IsFiniteSet(S) /\ Cardinality(S) \in Nat /\ Cardinality(Span) \in Nat
      /\ Cardinality(S) <= Cardinality(Span)
  BY MetricsAssumption, FS_Subset, FS_CardinalityType
<1>2. Width \in Nat /\ Cardinality(Span) < Width
  BY MetricsAssumption
<1>3. \A c \in Nat : c < Width => c % Width = c
  BY <1>2
<1> QED BY <1>1, <1>2, <1>3

\* How a set changes with its counter.
Tracks(S, T, s, by) ==
    \/ by = 0 /\ T = S
    \/ by = 1 /\ s \notin S /\ T = S \cup {s}
    \/ by = -1 /\ s \in S /\ T = S \ {s}

\* A counter that is changed with its set is what the set has.
LEMMA CounterTracks ==
    ASSUME NEW S \in SUBSET Span, NEW T, NEW s \in Span, NEW by, Tracks(S, T, s, by)
    PROVE  (Cardinality(S) + by) % Width = Cardinality(T)
<1>1. (Cardinality(S) + 0) % Width = Cardinality(S)
  <2>1. Cardinality(S) + 0 = Cardinality(S)
    BY InRange
  <2> QED BY <2>1, InRange
<1>2. ASSUME s \notin S PROVE (Cardinality(S) + 1) % Width = Cardinality(S \cup {s})
  <2>1. Cardinality(S \cup {s}) = Cardinality(S) + 1
    BY <1>2, InRange, FS_AddElement
  <2>2. S \cup {s} \in SUBSET Span
    OBVIOUS
  <2> QED BY <2>1, <2>2, InRange
<1>3. ASSUME s \in S PROVE (Cardinality(S) + -1) % Width = Cardinality(S \ {s})
  <2>1. Cardinality(S \ {s}) = Cardinality(S) - 1
    BY <1>3, InRange, FS_RemoveElement
  <2>2. S \ {s} \in SUBSET Span
    OBVIOUS
  <2>3. Cardinality(S) + -1 = Cardinality(S) - 1
    BY InRange
  <2> QED BY <2>1, <2>2, <2>3, InRange
<1> QED BY <1>1, <1>2, <1>3 DEF Tracks

----------------------------------------------------------------------------
\* The inductive invariant: the counters are of the kinds and of the names,
\* and are what the collector has left.

Handled == handle \in [Span -> {"none", "noop", "unfinished", "finished", "freed"}]

Counters == total \in [Kind -> Nat] /\ byName \in [Name -> [Kind -> Nat]]

IInv == Handled /\ Counters /\ SpansCounted

\* The spans of a kind that have a name.
Named(k, n) == {s \in Spans(k) : NameOf[s] = n}

\* If the kinds change as the counters do, these are right after.
LEMMA CountedRight ==
    ASSUME IInv, NEW s \in Span, NEW change \in [Kind -> {-1, 0, 1}], Counted(s, change),
           \A k \in Kind : Tracks(Spans(k), Spans(k)', s, change[k])
    PROVE  Counters' /\ SpansCounted'
<1>1. total \in [Kind -> Nat] /\ byName \in [Name -> [Kind -> Nat]]
      /\ NameOf \in [Span -> Name] /\ Width \in Nat
  BY MetricsAssumption DEF IInv, Counters
<1>2. total' = [k \in Kind |-> (total[k] + change[k]) % Width]
      /\ byName' = [byName EXCEPT ![NameOf[s]] = [k \in Kind |-> (@[k] + change[k]) % Width]]
  BY DEF Counted
<1>3. ASSUME NEW k \in Kind PROVE total'[k] = Cardinality(Spans(k))' /\ total'[k] \in Nat
  <2>1. Spans(k) \in SUBSET Span /\ Spans(k)' \in SUBSET Span
    BY DEF Spans
  <2>2. total[k] = Cardinality(Spans(k))
    BY DEF IInv, SpansCounted
  <2>3. (Cardinality(Spans(k)) + change[k]) % Width = Cardinality(Spans(k)')
    <3>1. PICK T : T = Spans(k)'
      OBVIOUS
    <3>2. Tracks(Spans(k), T, s, change[k])
      BY <3>1
    <3> QED BY <2>1, <3>1, <3>2, CounterTracks
  <2>4. Cardinality(Spans(k)') \in Nat
    BY <2>1, InRange
  <2> QED BY <1>2, <2>2, <2>3, <2>4
<1>4. ASSUME NEW k \in Kind, NEW n \in Name
      PROVE  byName'[n][k] = Cardinality(Named(k, n))' /\ byName'[n][k] \in Nat
  <2>1. Named(k, n) \in SUBSET Span /\ Named(k, n)' \in SUBSET Span
    BY DEF Named, Spans
  <2>2. byName[n][k] = Cardinality(Named(k, n))
    BY DEF IInv, SpansCounted, Named
  <2>3. CASE n = NameOf[s]
    <3>1. byName'[n][k] = (byName[n][k] + change[k]) % Width
      BY <1>1, <1>2, <2>3
    <3>2. Tracks(Named(k, n), Named(k, n)', s, change[k])
      BY <2>3 DEF Tracks, Named
    <3>3. (Cardinality(Named(k, n)) + change[k]) % Width = Cardinality(Named(k, n)')
      <4>1. PICK T : T = Named(k, n)'
        OBVIOUS
      <4>2. Tracks(Named(k, n), T, s, change[k])
        BY <3>2, <4>1
      <4> QED BY <2>1, <4>1, <4>2, CounterTracks
    <3> QED BY <2>1, <2>2, <3>1, <3>3, InRange
  <2>4. CASE n # NameOf[s]
    <3>1. byName'[n][k] = byName[n][k]
      BY <1>1, <1>2, <2>4
    <3>2. Named(k, n)' = Named(k, n)
      BY <2>4 DEF Tracks, Named
    <3> QED BY <2>1, <2>2, <3>1, <3>2, InRange
  <2> QED BY <2>3, <2>4
<1>5. Counters'
  <2>1. total' \in [Kind -> Nat]
    BY <1>2, <1>3
  <2>2. byName' \in [Name -> [Kind -> Nat]]
    <3>1. ASSUME NEW n \in Name PROVE byName'[n] \in [Kind -> Nat]
      <4>1. byName'[n] = [k \in Kind |-> byName'[n][k]]
        BY <1>1, <1>2
      <4> QED BY <4>1, <1>4
    <3>2. byName' = [n \in Name |-> byName'[n]]
      BY <1>1, <1>2
    <3> QED BY <3>1, <3>2
  <2> QED BY <2>1, <2>2 DEF Counters
<1> QED BY <1>3, <1>4, <1>5 DEF SpansCounted, Named

----------------------------------------------------------------------------
\* The steps.

LEMMA InitInv == Init => IInv
<1> SUFFICES ASSUME Init PROVE IInv
  OBVIOUS
<1>1. \A k \in Kind : Spans(k) = {}
  BY DEF Init, Spans, Kind
<1>2. Cardinality({}) = 0
  BY FS_EmptySet
<1>3. Handled /\ Counters
  BY DEF Init, None, Handled, Counters
<1>4. SpansCounted
  <2>1. ASSUME NEW k \in Kind, NEW n \in Name
        PROVE  total[k] = 0 /\ byName[n][k] = 0 /\ {s \in Spans(k) : NameOf[s] = n} = {}
    BY <1>1 DEF Init, None
  <2>2. ASSUME NEW k \in Kind, NEW n \in Name
        PROVE  byName[n][k] = Cardinality({s \in Spans(k) : NameOf[s] = n})
    BY <2>1, <1>2
  <2>3. \A k \in Kind : total[k] = Cardinality(Spans(k))
    BY <1>1, <1>2 DEF Init, None
  <2> QED BY <2>2, <2>3 DEF SpansCounted
<1> QED BY <1>3, <1>4 DEF IInv

\* Spans of a kind are counted when they become so, and no longer after.
LEMMA TrackerStep ==
    ASSUME IInv, NEW s \in Span, Track(s) \/ Finish(s) \/ Collect(s)
    PROVE  IInv'
<1>0. Handled
  BY DEF IInv
<1>1. CASE Track(s) /\ ~native
  <2>1. handle[s] = "none" /\ handle' = [handle EXCEPT ![s] = "noop"]
        /\ UNCHANGED <<total, byName>>
    BY <1>1 DEF Track
  <2>2. Handled'
    BY <1>0, <2>1 DEF Handled
  <2>3. \A k \in Kind : Spans(k)' = Spans(k)
    BY <1>0, <2>1 DEF Handled, Spans, Kind
  <2>4. \A k \in Kind, n \in Name :
          {r \in Spans(k) : NameOf[r] = n}' = {r \in Spans(k) : NameOf[r] = n}
    BY <2>3
  <2> QED BY <2>1, <2>2, <2>3, <2>4 DEF IInv, Counters, SpansCounted
<1>2. CASE Track(s) /\ native
  <2> DEFINE change == [finished |-> 0, unfinished |-> 1]
  <2>1. handle[s] = "none" /\ handle' = [handle EXCEPT ![s] = "unfinished"]
        /\ Counted(s, change)
    BY <1>2 DEF Track
  <2>2. Handled'
    BY <1>0, <2>1 DEF Handled
  <2>3. change \in [Kind -> {-1, 0, 1}]
    BY DEF Kind
  <2>4. \A k \in Kind : Tracks(Spans(k), Spans(k)', s, change[k])
    BY <1>0, <2>1 DEF Handled, Spans, Kind, Tracks
  <2> HIDE DEF change
  <2> QED BY <2>1, <2>2, <2>3, <2>4, CountedRight DEF IInv
<1>3. CASE Finish(s)
  <2> DEFINE change == [finished |-> 1, unfinished |-> -1]
  <2>1. handle[s] = "unfinished" /\ handle' = [handle EXCEPT ![s] = "finished"]
        /\ Counted(s, change)
    BY <1>3 DEF Finish
  <2>2. Handled'
    BY <1>0, <2>1 DEF Handled
  <2>3. change \in [Kind -> {-1, 0, 1}]
    BY DEF Kind
  <2>4. \A k \in Kind : Tracks(Spans(k), Spans(k)', s, change[k])
    BY <1>0, <2>1 DEF Handled, Spans, Kind, Tracks
  <2> HIDE DEF change
  <2> QED BY <2>1, <2>2, <2>3, <2>4, CountedRight DEF IInv
<1>4. CASE Collect(s)
  <2> DEFINE change == [k \in Kind |-> IF k = Collected(s) THEN -1 ELSE 0]
  <2>1. handle[s] \in Kind /\ handle' = [handle EXCEPT ![s] = "freed"] /\ Counted(s, change)
    BY <1>4 DEF Collect
  <2>2. Handled'
    BY <1>0, <2>1 DEF Handled
  <2>3. change \in [Kind -> {-1, 0, 1}]
    OBVIOUS
  <2>4. \A k \in Kind : Tracks(Spans(k), Spans(k)', s, change[k])
    BY <1>0, <2>1 DEF Handled, Spans, Kind, Tracks, Collected
  <2> HIDE DEF change
  <2> QED BY <2>1, <2>2, <2>3, <2>4, CountedRight DEF IInv
<1> QED BY <1>1, <1>2, <1>3, <1>4

LEMMA InvStep == IInv /\ [Next]_vars => IInv'
<1> SUFFICES ASSUME IInv, [Next]_vars PROVE IInv'
  OBVIOUS
<1>1. ASSUME UNCHANGED tracker PROVE IInv'
  <2>1. UNCHANGED <<handle, total, byName>>
    BY <1>1 DEF tracker
  <2>2. \A k \in Kind : Spans(k)' = Spans(k)
    BY <2>1 DEF Spans
  <2>3. \A k \in Kind, n \in Name :
          {r \in Spans(k) : NameOf[r] = n}' = {r \in Spans(k) : NameOf[r] = n}
    BY <2>2
  <2> QED BY <2>1, <2>2, <2>3 DEF IInv, Handled, Counters, SpansCounted
<1>2. CASE \E s \in Span : Track(s) \/ Finish(s) \/ Collect(s)
  BY <1>2, TrackerStep
<1>3. CASE Turn \/ Pause \/ (\E t \in Tag, by \in {1, -1} : Count(t, by))
  BY <1>1, <1>3 DEF Turn, Pause, Count
<1>4. CASE Tick \/ TickNative \/ ReadTotals \/ ReadNames
  BY <1>1, <1>4 DEF Tick, TickNative, ReadTotals, ReadNames
<1>5. CASE \E i \in DOMAIN lookups : Lookup(i)
  BY <1>1, <1>5 DEF Lookup
<1>6. CASE UNCHANGED vars
  BY <1>1, <1>6 DEF vars, tracker
<1> QED BY <1>2, <1>3, <1>4, <1>5, <1>6 DEF Next

\* The native counters are what the collector has left of the spans: however
\* tracking, finishing and collecting fall, none is counted twice and no
\* unsigned counter goes below zero.
THEOREM CountersAreRight == Spec => []SpansCounted
<1>1. IInv => SpansCounted
  BY DEF IInv
<1> QED BY InitInv, InvStep, <1>1, PTL DEF Spec

----------------------------------------------------------------------------
\* Sums.

LEMMA Smallest ==
    ASSUME NEW b \in Nat, NEW S \in SUBSET (0 .. b), S # {}
    PROVE  \E n \in S : \A m \in S : n <= m
<1> DEFINE T == {0 .. n : n \in S}
<1>1. T \subseteq FiniteSubsetsOf(0 .. b) /\ T # {}
  <2>1. \A n \in S : 0 .. n \in SUBSET (0 .. b) /\ IsFiniteSet(0 .. n)
    BY FS_Interval
  <2> QED BY <2>1 DEF FiniteSubsetsOf
<1>2. PICK X \in T : \A Y \in T : ~ (<<Y, X>> \in StrictSubsetOrdering(0 .. b))
  <2> HIDE DEF T
  <2> QED BY <1>1, FS_StrictSubsetOrderingWellFounded, WFMin
<1>3. PICK n \in S : X = 0 .. n
  OBVIOUS
<1>4. ASSUME NEW m \in S PROVE n <= m
  <2>1. SUFFICES ASSUME m < n PROVE FALSE
    OBVIOUS
  <2>2. 0 .. m \subseteq 0 .. n /\ n \in (0 .. n) \ (0 .. m)
    BY <2>1
  <2>3. 0 .. m \in SUBSET (0 .. b) /\ 0 .. n \in SUBSET (0 .. b) /\ 0 .. m # 0 .. n
    BY <2>2
  <2>4. <<0 .. m, 0 .. n>> \in StrictSubsetOrdering(0 .. b)
    BY <2>2, <2>3 DEF StrictSubsetOrdering
  <2> QED BY <2>4, <1>2, <1>3
<1> QED BY <1>4

\* Induction over an interval, for a set that stands for what is to be shown.
LEMMA Induct ==
    ASSUME NEW n \in Nat, NEW S, 0 \in S, \A i \in 1 .. n : i - 1 \in S => i \in S
    PROVE  \A i \in 0 .. n : i \in S
<1> SUFFICES ASSUME NEW j \in 0 .. n, j \notin S PROVE FALSE
  OBVIOUS
<1> DEFINE T == {i \in 0 .. n : i \notin S}
<1>1. T \in SUBSET (0 .. n) /\ T # {}
  OBVIOUS
<1>2. PICK k \in T : \A m \in T : k <= m
  <2> HIDE DEF T
  <2> QED BY <1>1, Smallest
<1>3. k \in 1 .. n
  BY <1>2
<1>4. k - 1 \in 0 .. n /\ k - 1 \notin T
  BY <1>2, <1>3
<1> QED BY <1>2, <1>3, <1>4

\* Values of V that each come from the one before.
Steps(op, n, V) == op \in [1 .. n -> [V -> V]]

Follows(f, base, op, n, V) ==
    f \in [0 .. n -> V] /\ f[0] = base /\ \A i \in 1 .. n : f[i] = op[i][f[i - 1]]

LEMMA Recursion ==
    ASSUME NEW n \in Nat, NEW V, NEW base \in V, NEW op, Steps(op, n, V)
    PROVE  \E f : Follows(f, base, op, n, V)
<1> DEFINE S == {m \in 0 .. n : \E f : Follows(f, base, op, m, V)}
<1>1. 0 \in S
  <2> DEFINE f == [j \in 0 .. 0 |-> base]
  <2>1. f \in [0 .. 0 -> V] /\ f[0] = base /\ 1 .. 0 = {}
    OBVIOUS
  <2> HIDE DEF f
  <2>2. Follows(f, base, op, 0, V)
    BY <2>1 DEF Follows
  <2> QED BY <2>2
<1>2. ASSUME NEW i \in 1 .. n, i - 1 \in S PROVE i \in S
  <2>1. PICK f : Follows(f, base, op, i - 1, V)
    BY <1>2
  <2> DEFINE g == [j \in 0 .. i |-> IF j = i THEN op[i][f[i - 1]] ELSE f[j]]
  <2>2. f[i - 1] \in V /\ op[i] \in [V -> V] /\ op[i][f[i - 1]] \in V
    BY <2>1 DEF Follows, Steps
  <2>3. ASSUME NEW j \in 0 .. i PROVE (IF j = i THEN op[i][f[i - 1]] ELSE f[j]) \in V
    BY <2>1, <2>2 DEF Follows
  <2>4. g \in [0 .. i -> V]
    BY <2>3
  <2>5. Follows(g, base, op, i, V)
    BY <2>1, <2>4 DEF Follows
  <2> HIDE DEF g
  <2> QED BY <2>5
<1>3. n \in S
  <2> HIDE DEF S
  <2>1. \A i \in 1 .. n : i - 1 \in S => i \in S
    BY <1>2
  <2>2. \A i \in 0 .. n : i \in S
    BY <1>1, <2>1, Induct
  <2> QED BY <2>2
<1> QED BY <1>3

\* The sums of the first numbers of a sequence.
SumsOf(f, s, n) ==
    f \in [0 .. n -> Nat] /\ f[0] = 0 /\ \A i \in 1 .. n : f[i] = f[i - 1] + s[i]

LEMMA Totals ==
    ASSUME NEW s \in Seq(Nat)
    PROVE  \E f : SumsOf(f, s, Len(s)) /\ Total(s) = f[Len(s)]
<1> DEFINE Sums(g) == g = [i \in 0 .. Len(s) |-> IF i = 0 THEN 0 ELSE g[i - 1] + s[i]]
           f == CHOOSE g : Sums(g)
<1>1. PICK n \in Nat : n = Len(s) /\ \A i \in 1 .. n : s[i] \in Nat
  BY ElementOfSeq, LenProperties
<1>2. \E g : Sums(g)
  <2>1. PICK op \in [1 .. n -> [Nat -> Nat]] :
          \A i \in 1 .. n : \A v \in Nat : op[i][v] = v + s[i]
    <3> DEFINE plus == [i \in 1 .. n |-> [v \in Nat |-> v + s[i]]]
    <3>1. ASSUME NEW i \in 1 .. n PROVE [v \in Nat |-> v + s[i]] \in [Nat -> Nat]
      BY <1>1
    <3>2. plus \in [1 .. n -> [Nat -> Nat]]
      BY <3>1
    <3> QED BY <3>2
  <2>2. PICK g : Follows(g, 0, op, n, Nat)
    <3>1. Steps(op, n, Nat)
      BY DEF Steps
    <3>2. PICK base \in Nat : base = 0
      OBVIOUS
    <3> QED BY <3>1, <3>2, Recursion
  <2>3. g \in [0 .. n -> Nat] /\ g[0] = 0 /\ \A i \in 1 .. n : g[i] = op[i][g[i - 1]]
    BY <2>2 DEF Follows
  <2>4. ASSUME NEW i \in 1 .. n PROVE g[i] = g[i - 1] + s[i]
    <3>1. i - 1 \in 0 .. n
      OBVIOUS
    <3>2. g[i - 1] \in Nat
      BY <2>3, <3>1
    <3> QED BY <2>1, <2>3, <3>2
  <2>5. g = [i \in 0 .. n |-> g[i]] /\ g[0] = 0
    BY <2>3
  <2>6. \A i \in 0 .. n : g[i] = IF i = 0 THEN 0 ELSE g[i - 1] + s[i]
    <3>1. ASSUME NEW i \in 0 .. n, i # 0 PROVE i \in 1 .. n
      BY <3>1
    <3> QED BY <2>4, <2>5, <3>1
  <2>7. g = [i \in 0 .. n |-> IF i = 0 THEN 0 ELSE g[i - 1] + s[i]]
    BY <2>5, <2>6
  <2>8. Sums(g)
    BY <1>1, <2>7
  <2> HIDE DEF Sums
  <2> QED BY <2>8
<1>3. Total(s) = f[n]
  BY <1>1 DEF Total
<1>4. Sums(f)
  <2> HIDE DEF Sums
  <2> QED BY <1>2
<1>5. f = [i \in 0 .. n |-> IF i = 0 THEN 0 ELSE f[i - 1] + s[i]]
  BY <1>1, <1>4
<1> HIDE DEF f
<1>6. f[0] = 0 /\ \A i \in 1 .. n : f[i] = f[i - 1] + s[i]
  BY <1>5
<1>7. \A i \in 0 .. n : f[i] \in Nat
  <2> DEFINE S == {i \in 0 .. n : f[i] \in Nat}
  <2>1. 0 \in S
    BY <1>6
  <2>2. ASSUME NEW i \in 1 .. n, i - 1 \in S PROVE i \in S
    BY <1>1, <1>6, <2>2
  <2> HIDE DEF S
  <2>3. \A i \in 0 .. n : i \in S
    BY <2>1, <2>2, Induct
  <2> QED BY <2>3 DEF S
<1>8. f \in [0 .. n -> Nat]
  BY <1>5, <1>7
<1> QED BY <1>1, <1>3, <1>6, <1>8 DEF SumsOf

\* Sequences that begin alike have the same sums.
Alike(r, s, n) == \A i \in 1 .. n : r[i] = s[i]

LEMMA SameSums ==
    ASSUME NEW m \in Nat, NEW n \in 0 .. m, NEW f, NEW g, NEW r, NEW s,
           SumsOf(f, r, m), SumsOf(g, s, n), Alike(r, s, n)
    PROVE  f[n] = g[n]
<1> DEFINE S == {i \in 0 .. n : f[i] = g[i]}
<1>1. 0 \in S
  BY DEF SumsOf
<1>2. ASSUME NEW i \in 1 .. n, i - 1 \in S PROVE i \in S
  BY <1>2 DEF SumsOf, Alike
<1> HIDE DEF S
<1>3. n \in Nat
  OBVIOUS
<1>4. \A i \in 0 .. n : i \in S
  BY <1>1, <1>2, <1>3, Induct
<1> QED BY <1>3, <1>4 DEF S

\* What follows in the longer sequence is added.
Follow(r, l, s, m) == \A i \in 1 .. m : r[l + i] = s[i] /\ s[i] \in Nat

LEMMA SumsAfter ==
    ASSUME NEW l \in Nat, NEW m \in Nat, NEW k \in Nat, k = l + m,
           NEW f, NEW g, NEW r, NEW s,
           SumsOf(f, r, k), SumsOf(g, s, m), Follow(r, l, s, m)
    PROVE  f[k] = f[l] + g[m]
<1> DEFINE S == {i \in 0 .. m : f[l + i] = f[l] + g[i]}
<1>1. f[l] \in Nat /\ \A i \in 0 .. m : g[i] \in Nat
  BY DEF SumsOf
<1>2. 0 \in S
  BY <1>1 DEF SumsOf
<1>3. ASSUME NEW i \in 1 .. m, i - 1 \in S PROVE i \in S
  <2>1. l + i \in 1 .. k /\ (l + i) - 1 = l + (i - 1) /\ i - 1 \in 0 .. m
    OBVIOUS
  <2>2. f[l + i] = f[(l + i) - 1] + r[l + i] /\ g[i] = g[i - 1] + s[i]
    BY <2>1 DEF SumsOf
  <2>3. f[l + (i - 1)] = f[l] + g[i - 1] /\ g[i - 1] \in Nat /\ s[i] \in Nat /\ r[l + i] = s[i]
    BY <1>1, <1>3, <2>1 DEF Follow
  <2>4. f[l + i] = f[l] + g[i]
    BY <1>1, <2>1, <2>2, <2>3
  <2> QED BY <2>4
<1> HIDE DEF S
<1>4. \A i \in 0 .. m : i \in S
  BY <1>2, <1>3, Induct
<1> QED BY <1>4 DEF S

\* The sum of two sequences, one after the other.
Joined(r, s, t) ==
    /\ Len(r) = Len(s) + Len(t)
    /\ Alike(r, s, Len(s))
    /\ \A i \in 1 .. Len(t) : r[Len(s) + i] = t[i]

LEMMA TotalConcat ==
    ASSUME NEW r \in Seq(Nat), NEW s \in Seq(Nat), NEW t \in Seq(Nat), Joined(r, s, t)
    PROVE  Total(r) = Total(s) + Total(t)
<1>1. PICK l \in Nat, m \in Nat, k \in Nat : l = Len(s) /\ m = Len(t) /\ k = Len(r)
  BY LenProperties
<1>2. PICK f : SumsOf(f, r, k) /\ Total(r) = f[k]
  BY <1>1, Totals
<1>3. PICK g : SumsOf(g, s, l) /\ Total(s) = g[l]
  BY <1>1, Totals
<1>4. PICK h : SumsOf(h, t, m) /\ Total(t) = h[m]
  BY <1>1, Totals
<1>5. k = l + m /\ Alike(r, s, l)
  BY <1>1 DEF Joined
<1>6. Follow(r, l, t, m)
  <2>1. \A i \in 1 .. m : t[i] \in Nat
    BY <1>1, ElementOfSeq
  <2> QED BY <1>1, <2>1 DEF Joined, Follow
<1>7. f[l] = g[l]
  <2>1. SumsOf(f, r, k) /\ l \in 0 .. k
    BY <1>2, <1>5
  <2> QED BY <1>3, <1>5, <2>1, SameSums
<1>8. f[k] = f[l] + h[m]
  BY <1>2, <1>4, <1>5, <1>6, SumsAfter
<1> QED BY <1>2, <1>3, <1>4, <1>7, <1>8

LEMMA TotalType ==
    ASSUME NEW s \in Seq(Nat)
    PROVE  Total(s) \in Nat /\ (Len(s) = 0 => Total(s) = 0) /\ (Len(s) = 1 => Total(s) = s[1])
<1>1. Len(s) \in Nat /\ \A i \in 1 .. Len(s) : s[i] \in Nat
  BY LenProperties, ElementOfSeq
<1>2. PICK f : SumsOf(f, s, Len(s)) /\ Total(s) = f[Len(s)]
  BY Totals
<1>3. f \in [0 .. Len(s) -> Nat] /\ f[0] = 0
  BY <1>2 DEF SumsOf
<1>4. ASSUME Len(s) = 1 PROVE Total(s) = s[1]
  <2>1. f[1] = f[1 - 1] + s[1] /\ 1 - 1 = 0 /\ s[1] \in Nat
    BY <1>1, <1>2, <1>4 DEF SumsOf
  <2> QED BY <1>2, <1>3, <1>4, <2>1
<1> QED BY <1>1, <1>2, <1>3, <1>4

\* A number added at the end.
Added(r, s, x) == Len(r) = Len(s) + 1 /\ Alike(r, s, Len(s)) /\ r[Len(s) + 1] = x

LEMMA TotalAppend ==
    ASSUME NEW r \in Seq(Nat), NEW s \in Seq(Nat), NEW x \in Nat, Added(r, s, x)
    PROVE  Total(r) = Total(s) + x
<1> DEFINE u == <<x>>
<1>1. PICK t \in Seq(Nat) : Len(t) = 1 /\ t[1] = x
  <2>1. u \in Seq(Nat) /\ Len(u) = 1 /\ u[1] = x
    OBVIOUS
  <2> HIDE DEF u
  <2> QED BY <2>1
<1>2. Joined(r, s, t)
  <2>1. \A i \in 1 .. Len(t) : i = 1
    BY <1>1
  <2> QED BY <1>1, <2>1 DEF Joined, Added
<1>3. Total(r) = Total(s) + Total(t)
  BY <1>2, TotalConcat
<1> QED BY <1>1, <1>3, TotalType

\* A number is taken out of the middle.
Without(r, s, i) ==
    Len(r) = Len(s) - 1 /\ \A j \in 1 .. Len(r) : r[j] = IF j < i THEN s[j] ELSE s[j + 1]

LEMMA TotalWithout ==
    ASSUME NEW s \in Seq(Nat), NEW r \in Seq(Nat), NEW i \in 1 .. Len(s), Without(r, s, i)
    PROVE  Total(s) = Total(r) + s[i]
<1>1. PICK a \in Nat, b \in Nat : i = a + 1 /\ Len(s) = (a + 1) + b /\ Len(r) = a + b
  <2>1. Len(s) \in Nat /\ i - 1 \in Nat /\ Len(s) - i \in Nat
    BY LenProperties
  <2>2. i = (i - 1) + 1 /\ Len(s) = ((i - 1) + 1) + (Len(s) - i) /\ Len(r) = (i - 1) + (Len(s) - i)
    BY <2>1 DEF Without
  <2> QED BY <2>1, <2>2
<1>2. \A j \in 1 .. Len(s) : s[j] \in Nat
  BY ElementOfSeq
<1>3. PICK p \in Seq(Nat) : Len(p) = a /\ \A j \in 1 .. a : p[j] = s[j]
  <2> DEFINE p == [j \in 1 .. a |-> s[j]]
  <2>1. p \in Seq(Nat) /\ Len(p) = a /\ \A j \in 1 .. a : p[j] = s[j]
    BY <1>1, <1>2
  <2> HIDE DEF p
  <2> QED BY <2>1
<1>4. PICK q \in Seq(Nat) : Len(q) = a + 1 /\ \A j \in 1 .. a + 1 : q[j] = s[j]
  <2> DEFINE q == [j \in 1 .. a + 1 |-> s[j]]
  <2>1. q \in Seq(Nat) /\ Len(q) = a + 1 /\ \A j \in 1 .. a + 1 : q[j] = s[j]
    BY <1>1, <1>2
  <2> HIDE DEF q
  <2> QED BY <2>1
<1>5. PICK t \in Seq(Nat) : Len(t) = b /\ \A j \in 1 .. b : t[j] = s[(a + 1) + j]
  <2> DEFINE t == [j \in 1 .. b |-> s[(a + 1) + j]]
  <2>0. ASSUME NEW j \in 1 .. b PROVE s[(a + 1) + j] \in Nat
    <3>1. (a + 1) + j \in 1 .. Len(s)
      BY <1>1
    <3> QED BY <1>2, <3>1
  <2>1. t \in Seq(Nat) /\ Len(t) = b /\ \A j \in 1 .. b : t[j] = s[(a + 1) + j]
    BY <2>0
  <2> HIDE DEF t
  <2> QED BY <2>1
<1>6. Total(q) = Total(p) + s[i]
  <2>1. PICK x \in Nat : x = s[i]
    BY <1>2
  <2>2. Added(q, p, x)
    BY <1>1, <1>3, <1>4, <2>1 DEF Added, Alike
  <2> QED BY <2>1, <2>2, TotalAppend
<1>7. Total(s) = Total(q) + Total(t)
  <2>1. Joined(s, q, t)
    BY <1>1, <1>4, <1>5 DEF Joined, Alike
  <2> QED BY <2>1, TotalConcat
<1>8. Total(r) = Total(p) + Total(t)
  <2>1. ASSUME NEW j \in 1 .. a PROVE r[j] = p[j]
    BY <1>1, <1>3 DEF Without
  <2>2. ASSUME NEW j \in 1 .. b PROVE r[a + j] = t[j]
    <3>1. a + j \in 1 .. Len(r) /\ ~(a + j < i) /\ (a + j) + 1 = (a + 1) + j
      BY <1>1, <1>5
    <3>2. r[a + j] = s[(a + j) + 1]
      BY <3>1 DEF Without
    <3> QED BY <1>5, <3>1, <3>2
  <2>3. Joined(r, p, t)
    BY <1>1, <1>3, <1>5, <2>1, <2>2 DEF Joined, Alike
  <2> QED BY <2>3, TotalConcat
<1>9. Total(p) \in Nat /\ Total(q) \in Nat /\ Total(t) \in Nat /\ s[i] \in Nat
  BY <1>2, TotalType
<1> QED BY <1>6, <1>7, <1>8, <1>9

\* Nothing but zeros.
LEMMA TotalZero ==
    ASSUME NEW s \in Seq(Nat), \A i \in 1 .. Len(s) : s[i] = 0
    PROVE  Total(s) = 0
<1>1. PICK n \in Nat : n = Len(s)
  BY LenProperties
<1>2. PICK f : SumsOf(f, s, n) /\ Total(s) = f[n]
  BY <1>1, Totals
<1> DEFINE S == {i \in 0 .. n : f[i] = 0}
<1>3. 0 \in S
  BY <1>2 DEF SumsOf
<1>4. ASSUME NEW i \in 1 .. n, i - 1 \in S PROVE i \in S
  BY <1>1, <1>2, <1>4 DEF SumsOf
<1> HIDE DEF S
<1>5. \A i \in 0 .. n : i \in S
  BY <1>3, <1>4, Induct
<1> QED BY <1>2, <1>5 DEF S

----------------------------------------------------------------------------
\* Datagrams.

\* The first sequences of a sequence, one after the other.
Flattens(f, q, n, A) ==
    f \in [0 .. n -> Seq(A)] /\ f[0] = <<>> /\ \A i \in 1 .. n : f[i] = f[i - 1] \o q[i]

LEMMA Flattened ==
    ASSUME NEW A, NEW q \in Seq(Seq(A))
    PROVE  \E f : Flattens(f, q, Len(q), A) /\ FlattenSeq(q) = f[Len(q)]
<1> DEFINE Flat(g) == g = [i \in 1 .. Len(q) |-> IF i = 1 THEN q[i] ELSE g[i - 1] \o q[i]]
           flat == CHOOSE g : Flat(g)
<1>1. PICK n \in Nat : n = Len(q) /\ \A i \in 1 .. n : q[i] \in Seq(A)
  BY ElementOfSeq, LenProperties
<1>2. PICK V : V = Seq(A) /\ <<>> \in V
  <2>1. <<>> \in Seq(A)
    BY EmptySeq
  <2> QED BY <2>1
<1>3. PICK op : Steps(op, n, V) /\ \A i \in 1 .. n : \A v \in V : op[i][v] = v \o q[i]
  <2> DEFINE op == [i \in 1 .. n |-> [v \in V |-> v \o q[i]]]
  <2>1. ASSUME NEW i \in 1 .. n, NEW v \in V PROVE v \o q[i] \in V
    <3>1. v \in Seq(A) /\ q[i] \in Seq(A)
      BY <1>1, <1>2
    <3> QED BY <1>2, <3>1, ConcatProperties
  <2>2. ASSUME NEW i \in 1 .. n PROVE [v \in V |-> v \o q[i]] \in [V -> V]
    BY <2>1
  <2>3. op \in [1 .. n -> [V -> V]]
    BY <2>2
  <2>4. \A i \in 1 .. n : \A v \in V : op[i][v] = v \o q[i]
    OBVIOUS
  <2> HIDE DEF op
  <2> QED BY <2>3, <2>4 DEF Steps
<1>4. PICK f : Follows(f, <<>>, op, n, V)
  <2>1. PICK base \in V : base = <<>>
    BY <1>2
  <2> QED BY <1>3, <2>1, Recursion
<1>5. f \in [0 .. n -> V] /\ f[0] = <<>> /\ \A i \in 1 .. n : f[i] = f[i - 1] \o q[i]
  <2>1. ASSUME NEW i \in 1 .. n PROVE f[i] = f[i - 1] \o q[i]
    <3>1. i - 1 \in 0 .. n
      OBVIOUS
    <3>2. f[i - 1] \in V /\ f[i] = op[i][f[i - 1]]
      BY <1>4, <3>1 DEF Follows
    <3> QED BY <1>3, <3>2
  <2> QED BY <1>4, <2>1 DEF Follows
<1>6. Flattens(f, q, n, A)
  BY <1>2, <1>5 DEF Flattens
<1>7. ASSUME n # 0 PROVE FlattenSeq(q) = f[n]
  <2>1. \E g : Flat(g)
    <3> DEFINE g == [i \in 1 .. n |-> f[i]]
    <3>1. ASSUME NEW i \in 1 .. n
          PROVE  f[i] = IF i = 1 THEN q[i] ELSE g[i - 1] \o q[i]
      <4>1. CASE i = 1
        <5>1. 1 \in 1 .. n /\ 1 - 1 = 0
          BY <4>1
        <5>2. f[1] = f[1 - 1] \o q[1] /\ q[1] \in Seq(A)
          BY <1>1, <1>5, <5>1
        <5>3. f[1] = <<>> \o q[1]
          BY <1>5, <5>1, <5>2
        <5> QED BY <4>1, <5>2, <5>3, ConcatEmptySeq
      <4>2. CASE i # 1
        <5>1. i - 1 \in 1 .. n
          BY <4>2
        <5>2. g[i - 1] = f[i - 1]
          BY <5>1
        <5> QED BY <1>5, <4>2, <5>2
      <4> QED BY <4>1, <4>2
    <3>2. g = [i \in 1 .. n |-> IF i = 1 THEN q[i] ELSE g[i - 1] \o q[i]]
      BY <3>1
    <3> HIDE DEF g
    <3>3. Flat(g)
      BY <1>1, <3>2
    <3> HIDE DEF Flat
    <3> QED BY <3>3
  <2>2. FlattenSeq(q) = flat[n]
    BY <1>1, <1>7 DEF FlattenSeq
  <2>3. Flat(flat)
    <3> HIDE DEF Flat
    <3> QED BY <2>1
  <2>4. flat = [i \in 1 .. n |-> IF i = 1 THEN q[i] ELSE flat[i - 1] \o q[i]]
    BY <1>1, <2>3
  <2> HIDE DEF flat
  <2> DEFINE S == {i \in 0 .. n : i # 0 => flat[i] = f[i]}
  <2>5. 0 \in S
    OBVIOUS
  <2>6. ASSUME NEW i \in 1 .. n, i - 1 \in S PROVE i \in S
    <3>1. CASE i = 1
      <4>1. 1 \in 1 .. n /\ 1 - 1 = 0
        BY <3>1
      <4>3. f[1] = f[1 - 1] \o q[1] /\ q[1] \in Seq(A)
        BY <1>1, <1>5, <4>1
      <4>4. f[1] = <<>> \o q[1] /\ flat[1] = q[1]
        BY <1>5, <2>4, <4>1, <4>3
      <4>2. flat[i] = f[i]
        BY <3>1, <4>3, <4>4, ConcatEmptySeq
      <4> QED BY <4>2
    <3>2. CASE i # 1
      <4>1. flat[i] = flat[i - 1] \o q[i] /\ f[i] = f[i - 1] \o q[i]
        BY <1>5, <2>4, <3>2
      <4>2. flat[i - 1] = f[i - 1]
        BY <2>6, <3>2
      <4>3. flat[i] = f[i]
        BY <4>1, <4>2
      <4> QED BY <4>3
    <3> QED BY <3>1, <3>2
  <2> HIDE DEF S
  <2>7. \A i \in 0 .. n : i \in S
    BY <2>5, <2>6, Induct
  <2>8. flat[n] = f[n]
    BY <1>7, <2>7 DEF S
  <2> QED BY <2>2, <2>8
<1>8. ASSUME n = 0 PROVE FlattenSeq(q) = f[n]
  <2>1. FlattenSeq(q) = q
    BY <1>1, <1>8 DEF FlattenSeq
  <2>2. q = <<>>
    BY <1>1, <1>8, EmptySeq
  <2> QED BY <1>5, <1>8, <2>1, <2>2
<1> QED BY <1>1, <1>6, <1>7, <1>8

LEMMA FlattenType ==
    ASSUME NEW A, NEW q \in Seq(Seq(A))
    PROVE  FlattenSeq(q) \in Seq(A) /\ FlattenSeq(<<>>) = <<>>
<1>1. PICK f : Flattens(f, q, Len(q), A) /\ FlattenSeq(q) = f[Len(q)]
  BY Flattened
<1>2. Len(q) \in 0 .. Len(q)
  BY LenProperties
<1>3. FlattenSeq(<<>>) = <<>>
  BY DEF FlattenSeq
<1> QED BY <1>1, <1>2, <1>3 DEF Flattens

LEMMA FlattenAppend ==
    ASSUME NEW A, NEW q \in Seq(Seq(A)), NEW b \in Seq(A)
    PROVE  FlattenSeq(Append(q, b)) = FlattenSeq(q) \o b
<1>1. PICK n \in Nat : n = Len(q)
  BY LenProperties
<1>2. PICK r \in Seq(Seq(A)) : r = Append(q, b) /\ Len(r) = n + 1 /\ r[n + 1] = b
                               /\ \A i \in 1 .. n : r[i] = q[i]
  <2>1. PICK V : V = Seq(A)
    OBVIOUS
  <2>2. q \in Seq(V) /\ b \in V
    BY <2>1
  <2>3. /\ Append(q, b) \in Seq(V) /\ Len(Append(q, b)) = Len(q) + 1
        /\ Append(q, b)[Len(q) + 1] = b /\ \A i \in 1 .. Len(q) : Append(q, b)[i] = q[i]
    BY <2>2, AppendProperties
  <2> QED BY <1>1, <2>1, <2>3
<1>3. PICK f : Flattens(f, q, n, A) /\ FlattenSeq(q) = f[n]
  BY <1>1, Flattened
<1>4. PICK g : Flattens(g, r, n + 1, A) /\ FlattenSeq(r) = g[n + 1]
  BY <1>2, Flattened
<1> DEFINE S == {i \in 0 .. n : f[i] = g[i]}
<1>5. 0 \in S
  BY <1>3, <1>4 DEF Flattens
<1>6. ASSUME NEW i \in 1 .. n, i - 1 \in S PROVE i \in S
  <2>0. i \in 1 .. n + 1
    OBVIOUS
  <2>1. f[i] = f[i - 1] \o q[i] /\ g[i] = g[i - 1] \o r[i]
    BY <1>3, <1>4, <2>0 DEF Flattens
  <2>3. r[i] = q[i] /\ f[i - 1] = g[i - 1]
    BY <1>2, <1>6
  <2>2. f[i] = g[i]
    BY <2>1, <2>3
  <2> QED BY <2>2
<1> HIDE DEF S
<1>7. \A i \in 0 .. n : i \in S
  BY <1>5, <1>6, Induct
<1>8. f[n] = g[n]
  BY <1>7 DEF S
<1>9. g[n + 1] = g[n] \o r[n + 1]
  <2>1. n + 1 \in 1 .. n + 1 /\ (n + 1) - 1 = n
    OBVIOUS
  <2>2. g[n + 1] = g[(n + 1) - 1] \o r[n + 1]
    BY <1>4, <2>1 DEF Flattens
  <2> QED BY <2>1, <2>2
<1> QED BY <1>2, <1>3, <1>4, <1>8, <1>9

\* What is written: numbers, and the counters of names.
Messages ==
    [stat : Stat \ {"name"}, of : Tag \cup Kind \cup {"sum"}, value : Nat]
        \cup [stat : {"name"}, of : Name, value : [Kind -> Nat]]

LEMMA MessageType ==
    ASSUME NEW m \in Messages
    PROVE  /\ m.stat \in Stat /\ SizeOf[m.stat] \in Nat
           /\ m.stat # "name" => m.value \in Nat
           /\ m.stat = "name" => m.value \in [Kind -> Nat]
<1>1. m.stat \in Stat /\ (m.stat # "name" => m.value \in Nat)
      /\ (m.stat = "name" => m.value \in [Kind -> Nat])
  BY DEF Messages, Stat
<1>2. SizeOf[m.stat] \in Nat
  BY <1>1, MetricsAssumption
<1> QED BY <1>1, <1>2

\* Messages that each have a number.
Weight(w, messages) == Total([i \in DOMAIN messages |-> w[messages[i]]])

LEMMA Weighed ==
    ASSUME NEW w \in [Messages -> Nat], NEW a \in Seq(Messages)
    PROVE  \E s \in Seq(Nat) : /\ Len(s) = Len(a) /\ \A i \in 1 .. Len(a) : s[i] = w[a[i]]
                              /\ Weight(w, a) = Total(s)
<1> DEFINE s == [i \in 1 .. Len(a) |-> w[a[i]]]
<1>1. Len(a) \in Nat /\ DOMAIN a = 1 .. Len(a) /\ \A i \in 1 .. Len(a) : a[i] \in Messages
  BY LenProperties, ElementOfSeq
<1>2. \A i \in 1 .. Len(a) : w[a[i]] \in Nat
  BY <1>1
<1>3. s \in Seq(Nat) /\ Len(s) = Len(a) /\ \A i \in 1 .. Len(a) : s[i] = w[a[i]]
  BY <1>1, <1>2
<1>4. Weight(w, a) = Total(s)
  BY <1>1 DEF Weight
<1> HIDE DEF s
<1> QED BY <1>3, <1>4

LEMMA WeightType ==
    ASSUME NEW w \in [Messages -> Nat], NEW a \in Seq(Messages)
    PROVE  Weight(w, a) \in Nat
<1>1. PICK s \in Seq(Nat) : Weight(w, a) = Total(s)
  BY Weighed
<1> QED BY <1>1, TotalType

LEMMA WeightConcat ==
    ASSUME NEW w \in [Messages -> Nat], NEW a \in Seq(Messages), NEW b \in Seq(Messages)
    PROVE  a \o b \in Seq(Messages) /\ Weight(w, a \o b) = Weight(w, a) + Weight(w, b)
<1>1. PICK c \in Seq(Messages) : /\ c = a \o b /\ Len(c) = Len(a) + Len(b)
                                 /\ \A i \in 1 .. Len(a) + Len(b) :
                                     c[i] = IF i <= Len(a) THEN a[i] ELSE b[i - Len(a)]
  <2>1. /\ a \o b \in Seq(Messages) /\ Len(a \o b) = Len(a) + Len(b)
        /\ \A i \in 1 .. Len(a) + Len(b) :
              (a \o b)[i] = IF i <= Len(a) THEN a[i] ELSE b[i - Len(a)]
    BY ConcatProperties
  <2> QED BY <2>1
<1>2. PICK l \in Nat, m \in Nat : l = Len(a) /\ m = Len(b)
  BY LenProperties
<1>3. PICK s \in Seq(Nat) : /\ Len(s) = l /\ \A i \in 1 .. l : s[i] = w[a[i]]
                            /\ Weight(w, a) = Total(s)
  BY <1>2, Weighed
<1>4. PICK t \in Seq(Nat) : /\ Len(t) = m /\ \A i \in 1 .. m : t[i] = w[b[i]]
                            /\ Weight(w, b) = Total(t)
  BY <1>2, Weighed
<1>5. PICK r \in Seq(Nat) : /\ Len(r) = l + m /\ \A i \in 1 .. l + m : r[i] = w[c[i]]
                            /\ Weight(w, c) = Total(r)
  BY <1>1, <1>2, Weighed
<1>6. ASSUME NEW i \in 1 .. l PROVE r[i] = s[i]
  <2>1. i \in 1 .. l + m /\ i <= l
    OBVIOUS
  <2> QED BY <1>1, <1>2, <1>3, <1>5, <2>1
<1>7. ASSUME NEW i \in 1 .. m PROVE r[l + i] = t[i]
  <2>1. l + i \in 1 .. l + m /\ ~(l + i <= l) /\ (l + i) - l = i
    OBVIOUS
  <2>2. c[l + i] = b[i]
    BY <1>1, <1>2, <2>1
  <2> QED BY <1>4, <1>5, <2>1, <2>2
<1>8. Joined(r, s, t)
  BY <1>3, <1>4, <1>5, <1>6, <1>7 DEF Joined, Alike
<1>9. Total(r) = Total(s) + Total(t)
  BY <1>8, TotalConcat
<1> QED BY <1>1, <1>3, <1>4, <1>5, <1>9

LEMMA WeightOne ==
    ASSUME NEW w \in [Messages -> Nat], NEW m \in Messages
    PROVE  <<m>> \in Seq(Messages) /\ Weight(w, <<m>>) = w[m]
<1> DEFINE u == <<m>>
<1>1. u \in Seq(Messages) /\ Len(u) = 1 /\ u[1] = m
  OBVIOUS
<1> HIDE DEF u
<1>2. PICK s \in Seq(Nat) : /\ Len(s) = Len(u) /\ \A i \in 1 .. Len(u) : s[i] = w[u[i]]
                            /\ Weight(w, u) = Total(s)
  BY <1>1, Weighed
<1>3. Len(s) = 1 /\ s[1] = w[m]
  BY <1>1, <1>2
<1> QED BY <1>1, <1>2, <1>3, TotalType DEF u

LEMMA WeightNone ==
    ASSUME NEW w \in [Messages -> Nat], NEW a \in Seq(Messages),
           \A i \in 1 .. Len(a) : w[a[i]] = 0
    PROVE  Weight(w, a) = 0
<1>1. PICK s \in Seq(Nat) : /\ Len(s) = Len(a) /\ \A i \in 1 .. Len(a) : s[i] = w[a[i]]
                            /\ Weight(w, a) = Total(s)
  BY Weighed
<1>2. \A i \in 1 .. Len(s) : s[i] = 0
  BY <1>1
<1> QED BY <1>1, <1>2, TotalZero

LEMMA BytesAppend ==
    ASSUME NEW b \in Seq(Messages), NEW m \in Messages
    PROVE  /\ Bytes(b) \in Nat /\ Bytes(<<>>) = 0
           /\ Bytes(Append(b, m)) = Bytes(b) + SizeOf[m.stat]
<1> DEFINE size == [n \in Messages |-> SizeOf[n.stat]]
<1>1. PICK w \in [Messages -> Nat] : \A n \in Messages : w[n] = SizeOf[n.stat]
  <2>1. size \in [Messages -> Nat]
    BY MessageType
  <2> QED BY <2>1
<1>2. ASSUME NEW a \in Seq(Messages) PROVE Bytes(a) = Weight(w, a)
  <2>1. \A i \in DOMAIN a : a[i] \in Messages
    BY LenProperties, ElementOfSeq
  <2>2. [i \in DOMAIN a |-> SizeOf[a[i].stat]] = [i \in DOMAIN a |-> w[a[i]]]
    BY <1>1, <2>1
  <2> QED BY <2>2 DEF Bytes, Weight
<1>3. ASSUME NEW a \in Seq(Messages) PROVE Weight(w, a) \in Nat
  BY WeightType
<1>4. Append(b, m) = b \o <<m>> /\ <<m>> \in Seq(Messages) /\ b \o <<m>> \in Seq(Messages)
  BY AppendIsConcat, WeightOne, WeightConcat
<1>5. Weight(w, b \o <<m>>) = Weight(w, b) + w[m]
  <2>1. PICK u \in Seq(Messages) : u = <<m>>
    BY <1>4
  <2>2. Weight(w, b \o u) = Weight(w, b) + Weight(w, u)
    BY WeightConcat
  <2>3. Weight(w, <<m>>) = w[m]
    BY WeightOne
  <2> QED BY <2>1, <2>2, <2>3
<1>6. <<>> \in Seq(Messages) /\ Len(<<>>) = 0
  BY EmptySeq
<1>7. Weight(w, <<>>) = 0
  <2>1. PICK e \in Seq(Messages) : e = <<>> /\ Len(e) = 0
    BY <1>6
  <2>2. \A i \in 1 .. Len(e) : w[e[i]] = 0
    BY <2>1
  <2> QED BY <2>1, <2>2, WeightNone
<1> QED BY <1>1, <1>2, <1>3, <1>4, <1>5, <1>6, <1>7

\* The client.
Clients == [queue : Seq(Seq(Messages)), buffer : Seq(Messages)]

\* A datagram that may leave.
Fits(d) == d \in Seq(Messages) /\ (Bytes(d) <= Limit \/ Len(d) = 1)

\* A client that has written the first i messages.
Holds(c, messages, i) ==
    /\ c \in Clients
    /\ Alike(messages, FlattenSeq(c.queue) \o c.buffer, i)
    /\ Len(FlattenSeq(c.queue) \o c.buffer) = i
    /\ \A j \in 1 .. Len(c.queue) : Fits(c.queue[j])
    /\ c.buffer # <<>> => Fits(c.buffer)

LEMMA EnqueuedHolds ==
    ASSUME NEW messages, NEW i \in Nat, NEW c, Holds(c, messages, i)
    PROVE  Holds(Enqueued(c), messages, i) /\ Enqueued(c).buffer = <<>>
<1>1. CASE c.buffer = <<>>
  BY <1>1 DEF Enqueued
<1>2. CASE c.buffer # <<>>
  <2>1. PICK q \in Seq(Seq(Messages)), b \in Seq(Messages) : q = c.queue /\ b = c.buffer
    BY DEF Holds, Clients
  <2>2. Enqueued(c) = [queue |-> Append(q, b), buffer |-> <<>>]
    BY <1>2, <2>1 DEF Enqueued
  <2>3. PICK V : V = Seq(Messages)
    OBVIOUS
  <2>4. q \in Seq(V) /\ b \in V
    BY <2>3
  <2>5. /\ Append(q, b) \in Seq(V) /\ Len(Append(q, b)) = Len(q) + 1
        /\ Append(q, b)[Len(q) + 1] = b /\ \A j \in 1 .. Len(q) : Append(q, b)[j] = q[j]
    BY <2>4, AppendProperties
  <2>6. FlattenSeq(Append(q, b)) = FlattenSeq(q) \o b
    BY FlattenAppend
  <2>7. FlattenSeq(q) \o b \in Seq(Messages)
    BY FlattenType, ConcatProperties
  <2>8. (FlattenSeq(q) \o b) \o <<>> = FlattenSeq(q) \o b
    BY <2>7, ConcatEmptySeq
  <2>9. Enqueued(c) \in Clients
    BY <2>2, <2>3, <2>5, EmptySeq DEF Clients
  <2>10. Fits(b) /\ \A j \in 1 .. Len(q) : Fits(q[j])
    BY <1>2, <2>1 DEF Holds
  <2>11. ASSUME NEW j \in 1 .. Len(Append(q, b)) PROVE Fits(Append(q, b)[j])
    <3>1. Len(q) \in Nat
      BY LenProperties
    <3>2. j \in 1 .. Len(q) \/ j = Len(q) + 1
      BY <2>5, <3>1
    <3> QED BY <2>5, <2>10, <3>2
  <2>12. Enqueued(c).queue = Append(q, b) /\ Enqueued(c).buffer = <<>>
    BY <2>2
  <2>13. /\ Alike(messages, FlattenSeq(q) \o b, i) /\ Len(FlattenSeq(q) \o b) = i
    BY <2>1 DEF Holds
  <2> QED BY <2>6, <2>8, <2>9, <2>11, <2>12, <2>13 DEF Holds
<1> QED BY <1>1, <1>2

LEMMA WrittenType ==
    ASSUME NEW c \in Clients, NEW m \in Messages
    PROVE  Written(c, m) \in Clients
<1>1. PICK e : e = (IF Bytes(c.buffer) + SizeOf[m.stat] > Limit THEN Enqueued(c) ELSE c)
  OBVIOUS
<1>2. e \in Clients
  <2>1. Enqueued(c) \in Clients
    <3>1. CASE c.buffer = <<>>
      BY <3>1 DEF Enqueued
    <3>2. CASE c.buffer # <<>>
      <4>1. PICK V : V = Seq(Messages)
        OBVIOUS
      <4>2. c.queue \in Seq(V) /\ c.buffer \in V
        BY <4>1 DEF Clients
      <4>3. Append(c.queue, c.buffer) \in Seq(Seq(Messages)) /\ <<>> \in Seq(Messages)
        BY <4>1, <4>2, AppendProperties, EmptySeq
      <4> QED BY <3>2, <4>3 DEF Enqueued, Clients
    <3> QED BY <3>1, <3>2
  <2> QED BY <1>1, <2>1
<1>3. Written(c, m) = [e EXCEPT !.buffer = Append(e.buffer, m)]
  BY <1>1 DEF Written
<1>4. Append(e.buffer, m) \in Seq(Messages)
  BY <1>2, AppendProperties DEF Clients
<1> QED BY <1>2, <1>3, <1>4 DEF Clients

LEMMA WrittenHolds ==
    ASSUME NEW messages, NEW i \in Nat, NEW c, Holds(c, messages, i),
           NEW m \in Messages, messages[i + 1] = m
    PROVE  Holds(Written(c, m), messages, i + 1)
<1> DEFINE over == Bytes(c.buffer) + SizeOf[m.stat] > Limit
<1>1. PICK e : e = (IF over THEN Enqueued(c) ELSE c)
  OBVIOUS
<1>2. Holds(e, messages, i)
  BY <1>1, EnqueuedHolds
<1>3. PICK q \in Seq(Seq(Messages)), b \in Seq(Messages) :
        e = [queue |-> q, buffer |-> b]
  BY <1>2 DEF Holds, Clients
<1>4. Written(c, m).queue = q /\ Written(c, m).buffer = Append(b, m)
  <2>1. Written(c, m) = [e EXCEPT !.buffer = Append(e.buffer, m)]
    BY <1>1 DEF Written
  <2>2. e.buffer = b /\ e.queue = q
    BY <1>3
  <2>3. PICK x : x = Append(b, m)
    OBVIOUS
  <2>4. e \in [queue : Seq(Seq(Messages)), buffer : Seq(Messages)]
    BY <1>3
  <2>5. [e EXCEPT !.buffer = x].queue = e.queue /\ [e EXCEPT !.buffer = x].buffer = x
    BY <2>4
  <2> QED BY <2>1, <2>2, <2>3, <2>5
<1>5. Append(b, m) \in Seq(Messages) /\ Append(b, m) # <<>>
      /\ Append(b, m) = b \o <<m>> /\ <<m>> \in Seq(Messages)
  BY AppendProperties, AppendIsConcat
<1>6. PICK f \in Seq(Messages) : f = FlattenSeq(q) \o b
  BY FlattenType, ConcatProperties
<1>7. FlattenSeq(q) \o Append(b, m) = Append(f, m)
  <2>1. FlattenSeq(q) \o (b \o <<m>>) = (FlattenSeq(q) \o b) \o <<m>>
    BY <1>5, FlattenType, ConcatAssociative
  <2>2. Append(f, m) = f \o <<m>>
    BY AppendIsConcat
  <2> QED BY <1>5, <1>6, <2>1, <2>2
<1>8. Len(f) = i /\ Alike(messages, f, i)
  BY <1>2, <1>3, <1>6 DEF Holds
<1>9. Len(Append(f, m)) = i + 1 /\ Alike(messages, Append(f, m), i + 1)
  <2>1. /\ Len(Append(f, m)) = Len(f) + 1 /\ Append(f, m)[Len(f) + 1] = m
        /\ \A j \in 1 .. Len(f) : Append(f, m)[j] = f[j]
    BY AppendProperties
  <2>2. ASSUME NEW j \in 1 .. i + 1 PROVE messages[j] = Append(f, m)[j]
    <3>1. j \in 1 .. i \/ j = i + 1
      OBVIOUS
    <3> QED BY <1>8, <2>1, <3>1 DEF Alike
  <2> QED BY <1>8, <2>1, <2>2 DEF Alike
<1>10. Fits(Append(b, m))
  <2>1. Bytes(b) \in Nat /\ SizeOf[m.stat] \in Nat /\ Bytes(Append(b, m)) = Bytes(b) + SizeOf[m.stat]
    BY BytesAppend, MessageType
  <2>2. CASE over
    <3>0. e = Enqueued(c) /\ e.buffer = b
      BY <1>1, <1>3, <2>2
    <3>1. b = <<>>
      BY <3>0, EnqueuedHolds
    <3>2. Len(Append(b, m)) = 1
      BY <3>1
    <3> QED BY <1>5, <3>2 DEF Fits
  <2>3. CASE ~over
    <3>1. Bytes(b) + SizeOf[m.stat] <= Limit
      <4>1. c.buffer = b
        BY <1>1, <1>3, <2>3
      <4> QED BY <2>1, <2>3, <4>1, MetricsAssumption
    <3> QED BY <1>5, <2>1, <3>1 DEF Fits
  <2> QED BY <2>2, <2>3
<1>11. Written(c, m) \in Clients
  BY <1>2, WrittenType DEF Holds
<1>12. \A j \in 1 .. Len(q) : Fits(q[j])
  BY <1>2, <1>3 DEF Holds
<1> QED BY <1>4, <1>7, <1>9, <1>10, <1>11, <1>12 DEF Holds

\* The datagrams of a report hold its messages, and each may leave.
LEMMA DatagramsRight ==
    ASSUME NEW messages \in Seq(Messages)
    PROVE  /\ Datagrams(messages) \in Seq(Seq(Messages))
           /\ FlattenSeq(Datagrams(messages)) = messages
           /\ \A j \in 1 .. Len(Datagrams(messages)) : Fits(Datagrams(messages)[j])
<1> DEFINE empty == [queue |-> <<>>, buffer |-> <<>>]
           After(g) == g = [i \in 0 .. Len(messages) |->
                               IF i = 0 THEN empty ELSE Written(g[i - 1], messages[i])]
           after == CHOOSE g : After(g)
           Right(i) == {c \in Clients : Holds(c, messages, i)}
<1>1. PICK n \in Nat : n = Len(messages) /\ \A i \in 1 .. n : messages[i] \in Messages
  BY ElementOfSeq, LenProperties
<1>2. Holds(empty, messages, 0)
  <2>1. empty \in Clients
    BY EmptySeq DEF Clients
  <2>2. FlattenSeq(empty.queue) = <<>> /\ <<>> \o <<>> = <<>> /\ Len(<<>>) = 0
    BY <2>1, FlattenType, EmptySeq, ConcatEmptySeq DEF Clients
  <2> QED BY <2>1, <2>2 DEF Holds, Alike
<1>3. PICK V : V = Clients /\ empty \in V
  BY <1>2 DEF Holds
<1> HIDE DEF empty
<1>4. PICK op : Steps(op, n, V) /\ \A i \in 1 .. n : \A v \in V : op[i][v] = Written(v, messages[i])
  <2> DEFINE op == [i \in 1 .. n |-> [v \in V |-> Written(v, messages[i])]]
  <2>1. ASSUME NEW i \in 1 .. n, NEW v \in V PROVE Written(v, messages[i]) \in V
    BY <1>1, <1>3, WrittenType
  <2>2. ASSUME NEW i \in 1 .. n PROVE [v \in V |-> Written(v, messages[i])] \in [V -> V]
    BY <2>1
  <2>3. op \in [1 .. n -> [V -> V]]
    BY <2>2
  <2>4. \A i \in 1 .. n : \A v \in V : op[i][v] = Written(v, messages[i])
    OBVIOUS
  <2> HIDE DEF op
  <2> QED BY <2>3, <2>4 DEF Steps
<1>5. PICK f : Follows(f, empty, op, n, V)
  BY <1>3, <1>4, Recursion
<1>6. \E g : After(g)
  <2>1. ASSUME NEW i \in 1 .. n PROVE f[i] = Written(f[i - 1], messages[i])
    <3>1. i - 1 \in 0 .. n
      OBVIOUS
    <3>2. f[i - 1] \in V /\ f[i] = op[i][f[i - 1]]
      BY <1>5, <3>1 DEF Follows
    <3> QED BY <1>4, <3>2
  <2>2. f = [i \in 0 .. n |-> f[i]] /\ f[0] = empty
    BY <1>5 DEF Follows
  <2>3. \A i \in 0 .. n : f[i] = IF i = 0 THEN empty ELSE Written(f[i - 1], messages[i])
    <3>1. ASSUME NEW i \in 0 .. n, i # 0 PROVE i \in 1 .. n
      BY <3>1
    <3> QED BY <2>1, <2>2, <3>1
  <2>4. f = [i \in 0 .. n |-> IF i = 0 THEN empty ELSE Written(f[i - 1], messages[i])]
    BY <2>2, <2>3
  <2>5. After(f)
    BY <1>1, <2>4
  <2> HIDE DEF After
  <2> QED BY <2>5
<1>7. Datagrams(messages) = Enqueued(after[n]).queue
  BY <1>1 DEF Datagrams, empty
<1>8. After(after)
  <2> HIDE DEF After
  <2> QED BY <1>6
<1>9. after = [i \in 0 .. n |-> IF i = 0 THEN empty ELSE Written(after[i - 1], messages[i])]
  BY <1>1, <1>8
<1> HIDE DEF after
<1> DEFINE S == {i \in 0 .. n : Holds(after[i], messages, i)}
<1>10. 0 \in S
  <2>1. after[0] = empty
    BY <1>9
  <2> QED BY <1>2, <2>1
<1>11. ASSUME NEW i \in 1 .. n, i - 1 \in S PROVE i \in S
  <2>1. PICK j \in Nat, m \in Messages : i = j + 1 /\ j \in 0 .. n /\ m = messages[j + 1]
    <3>1. i - 1 \in Nat /\ i = (i - 1) + 1 /\ i - 1 \in 0 .. n /\ messages[i] \in Messages
      BY <1>1
    <3> QED BY <3>1
  <2>2. Holds(after[j], messages, j)
    <3>1. i - 1 = j
      BY <2>1
    <3> QED BY <1>11, <3>1
  <2>3. after[i] = Written(after[j], m)
    <3>1. i # 0 /\ i \in 0 .. n /\ i - 1 = j
      BY <2>1
    <3> QED BY <1>9, <2>1, <3>1
  <2>4. Holds(Written(after[j], m), messages, j + 1)
    BY <2>1, <2>2, WrittenHolds
  <2> QED BY <2>1, <2>3, <2>4
<1> HIDE DEF S
<1>12. \A i \in 0 .. n : i \in S
  BY <1>10, <1>11, Induct
<1>13. Holds(after[n], messages, n)
  BY <1>12 DEF S
<1>14. PICK e : e = Enqueued(after[n]) /\ Holds(e, messages, n) /\ e.buffer = <<>>
  BY <1>13, EnqueuedHolds
<1>15. PICK q \in Seq(Seq(Messages)) : q = e.queue /\ q = Datagrams(messages)
  BY <1>7, <1>14 DEF Holds, Clients
<1>16. FlattenSeq(q) \in Seq(Messages) /\ FlattenSeq(q) \o <<>> = FlattenSeq(q)
  BY FlattenType, ConcatEmptySeq
<1>17. Len(FlattenSeq(q)) = n /\ Alike(messages, FlattenSeq(q), n)
  BY <1>14, <1>15, <1>16 DEF Holds
<1>18. FlattenSeq(q) = messages
  BY <1>1, <1>16, <1>17, SeqEqual DEF Alike
<1>19. \A j \in 1 .. Len(q) : Fits(q[j])
  BY <1>14, <1>15 DEF Holds
<1> QED BY <1>15, <1>18, <1>19

----------------------------------------------------------------------------
\* Reports.

\* The weights that the properties add up.
ValueOf(stat) == [m \in Messages |-> IF m.stat = stat THEN m.value ELSE 0]

NamedOf(k) == [m \in Messages |-> IF m.stat = "name" THEN m.value[k] ELSE 0]

LEMMA Weights ==
    /\ \A stat \in {"turns", "pauses"} : ValueOf(stat) \in [Messages -> Nat]
    /\ \A k \in Kind : NamedOf(k) \in [Messages -> Nat]
<1>1. ASSUME NEW stat \in {"turns", "pauses"}, NEW m \in Messages
      PROVE  (IF m.stat = stat THEN m.value ELSE 0) \in Nat
  BY MessageType
<1>2. ASSUME NEW k \in Kind, NEW m \in Messages
      PROVE  (IF m.stat = "name" THEN m.value[k] ELSE 0) \in Nat
  BY MessageType
<1> QED BY <1>1, <1>2 DEF ValueOf, NamedOf

LEMMA SumIsWeight ==
    ASSUME NEW a \in Seq(Messages), NEW stat \in {"turns", "pauses"}
    PROVE  SumOf(stat, a) = Weight(ValueOf(stat), a) /\ SumOf(stat, a) \in Nat
<1>1. \A i \in DOMAIN a : a[i] \in Messages
  BY LenProperties, ElementOfSeq
<1>2. [i \in DOMAIN a |-> IF a[i].stat = stat THEN a[i].value ELSE 0]
        = [i \in DOMAIN a |-> ValueOf(stat)[a[i]]]
  BY <1>1 DEF ValueOf
<1>3. SumOf(stat, a) = Weight(ValueOf(stat), a)
  BY <1>2 DEF SumOf, Weight
<1>4. Weight(ValueOf(stat), a) \in Nat
  <2>1. PICK w \in [Messages -> Nat] : w = ValueOf(stat)
    BY Weights
  <2> QED BY <2>1, WeightType
<1> QED BY <1>3, <1>4

\* A set as a sequence.
LEMMA AsSequence ==
    ASSUME NEW S, IsFiniteSet(S)
    PROVE  /\ Cardinality(S) \in Nat /\ SetToSeq(S) \in [1 .. Cardinality(S) -> S]
           /\ \A i, j \in 1 .. Cardinality(S) : SetToSeq(S)[i] = SetToSeq(S)[j] => i = j
<1>1. Cardinality(S) \in Nat /\ ExistsBijection(1 .. Cardinality(S), S)
  BY FS_CardinalityType
<1>2. \E f \in [1 .. Cardinality(S) -> S] : IsInjective(f)
  BY <1>1 DEF ExistsBijection, Bijection, Injection, IsInjective
<1>3. SetToSeq(S) \in [1 .. Cardinality(S) -> S] /\ IsInjective(SetToSeq(S))
  BY <1>2 DEF SetToSeq
<1> QED BY <1>1, <1>3 DEF IsInjective

\* The counters of async resources.
CountersOfTags ==
    /\ IsFiniteSet(DOMAIN counters) /\ DOMAIN counters \subseteq Tag
    /\ \A t \in DOMAIN counters : counters[t] \in Nat

LEMMA CounterPart ==
    ASSUME CountersOfTags
    PROVE  CounterMessages \in Seq({m \in Messages : m.stat = "counter"})
<1> DEFINE n == Cardinality(DOMAIN counters)
           q == SetToSeq(DOMAIN counters)
<1>1. n \in Nat /\ q \in [1 .. n -> DOMAIN counters]
  BY AsSequence DEF CountersOfTags
<1>2. ASSUME NEW i \in 1 .. n
      PROVE  Message("counter", q[i], counters[q[i]]) \in {m \in Messages : m.stat = "counter"}
  <2>1. q[i] \in Tag /\ counters[q[i]] \in Nat
    BY <1>1 DEF CountersOfTags
  <2> QED BY <2>1 DEF Message, Messages, Stat
<1>3. CounterMessages = [i \in 1 .. n |-> Message("counter", q[i], counters[q[i]])]
  BY DEF CounterMessages
<1> HIDE DEF n, q
<1> QED BY <1>1, <1>2, <1>3

LEMMA EachPart ==
    ASSUME NEW S, IsFiniteSet(S), NEW stat, NEW value, NEW M,
           \A x \in S : Message(stat, x, value[x]) \in M
    PROVE  /\ Each(stat, S, value) \in Seq(M) /\ Len(Each(stat, S, value)) = Cardinality(S)
           /\ \A i \in 1 .. Cardinality(S) : Each(stat, S, value)[i]
                    = Message(stat, SetToSeq(S)[i], value[SetToSeq(S)[i]])
<1> DEFINE n == Cardinality(S)
           q == SetToSeq(S)
<1>1. n \in Nat /\ q \in [1 .. n -> S]
  BY AsSequence
<1>2. Each(stat, S, value) = [i \in 1 .. n |-> Message(stat, q[i], value[q[i]])]
  BY DEF Each
<1>3. ASSUME NEW i \in 1 .. n PROVE Message(stat, q[i], value[q[i]]) \in M
  BY <1>1
<1> HIDE DEF n, q
<1>4. /\ Each(stat, S, value) \in Seq(M) /\ Len(Each(stat, S, value)) = n
      /\ \A i \in 1 .. n : Each(stat, S, value)[i] = Message(stat, q[i], value[q[i]])
  BY <1>1, <1>2, <1>3
<1> QED BY <1>4 DEF n, q

LEMMA KindIsFinite == IsFiniteSet(Kind)
<1>1. IsFiniteSet({"finished"})
  BY FS_Singleton
<1>2. IsFiniteSet({"finished"} \cup {"unfinished"})
  BY <1>1, FS_AddElement
<1>3. Kind = {"finished"} \cup {"unfinished"}
  BY DEF Kind
<1> QED BY <1>2, <1>3

\* The names of a report are those of different spans.
LEMMA NamesPart ==
    ASSUME IInv, NEW k \in Kind
    PROVE  /\ Each("name", Name, [n \in Name |-> byName[n]]) \in Seq({m \in Messages : m.stat = "name"})
           /\ Weight(NamedOf(k), Each("name", Name, [n \in Name |-> byName[n]])) <= Cardinality(Spans(k))
           /\ Cardinality(Spans(k)) \in Nat
<1> DEFINE e == Each("name", Name, [n \in Name |-> byName[n]])
           q == SetToSeq(Name)
<1>1. /\ byName \in [Name -> [Kind -> Nat]] /\ IsFiniteSet(Name)
      /\ [n \in Name |-> byName[n]] = byName
  BY MetricsAssumption DEF IInv, Counters
<1>2. PICK c \in Nat : /\ c = Cardinality(Name) /\ q \in [1 .. c -> Name]
                       /\ \A i, j \in 1 .. c : q[i] = q[j] => i = j
  BY <1>1, AsSequence
<1>3. PICK M : M = {m \in Messages : m.stat = "name"}
  OBVIOUS
<1>4. ASSUME NEW n \in Name PROVE Message("name", n, byName[n]) \in M
  BY <1>1, <1>3 DEF Message, Messages
<1>5. /\ e \in Seq(M) /\ Len(e) = c
      /\ \A i \in 1 .. c : e[i] = Message("name", q[i], byName[q[i]])
  BY <1>1, <1>2, <1>4, EachPart
<1> HIDE DEF e, q
<1>6. PICK w \in [Messages -> Nat] : w = NamedOf(k)
  BY Weights
<1>7. e \in Seq(Messages)
  <2>1. M \subseteq Messages
    BY <1>3
  <2> QED BY <1>5, <2>1, SeqMonotonic
<1>8. ASSUME NEW i \in 1 .. c PROVE w[e[i]] = byName[q[i]][k]
  <2>1. e[i] \in Messages /\ q[i] \in Name
    BY <1>2, <1>5, <1>7, ElementOfSeq
  <2>2. e[i] = Message("name", q[i], byName[q[i]])
    BY <1>5
  <2>3. e[i].stat = "name" /\ e[i].value = byName[q[i]]
    BY <2>2 DEF Message
  <2> QED BY <1>6, <2>1, <2>3 DEF NamedOf
<1>9. PICK s \in Seq(Nat) : /\ Len(s) = c /\ \A i \in 1 .. c : s[i] = w[e[i]]
                            /\ Weight(w, e) = Total(s)
  BY <1>5, <1>7, Weighed
<1>10. PICK f : SumsOf(f, s, c) /\ Total(s) = f[c]
  BY <1>9, Totals
<1> DEFINE Until(i) == {x \in Spans(k) : \E j \in 1 .. i : NameOf[x] = q[j]}
           S == {i \in 0 .. c : f[i] = Cardinality(Until(i))}
<1>11. \A i \in 0 .. c : Until(i) \in SUBSET Span
  BY DEF Spans
<1>12. 0 \in S
  <2>1. Until(0) = {}
    OBVIOUS
  <2> HIDE DEF Until
  <2>2. f[0] = 0 /\ Cardinality({}) = 0
    BY <1>10, FS_EmptySet DEF SumsOf
  <2>3. f[0] = Cardinality(Until(0))
    BY <2>1, <2>2
  <2>4. 0 \in 0 .. c
    BY <1>2
  <2> QED BY <2>3, <2>4
<1>13. ASSUME NEW i \in 1 .. c, i - 1 \in S PROVE i \in S
  <2>1. i - 1 \in 0 .. c /\ f[i] = f[i - 1] + s[i]
    BY <1>10 DEF SumsOf
  <2>2. q[i] \in Name /\ s[i] = byName[q[i]][k]
    BY <1>2, <1>8, <1>9
  <2>3. byName[q[i]][k] = Cardinality(Named(k, q[i])) /\ Named(k, q[i]) \in SUBSET Span
    BY <2>2 DEF IInv, SpansCounted, Named, Spans
  <2>4. Until(i) = Until(i - 1) \cup Named(k, q[i])
    BY DEF Named
  <2>5. Until(i - 1) \cap Named(k, q[i]) = {}
    <3>1. \A j \in 1 .. i - 1 : q[j] # q[i]
      BY <1>2
    <3> QED BY <3>1 DEF Named
  <2>6. PICK A \in SUBSET Span, B \in SUBSET Span : A = Until(i - 1) /\ B = Named(k, q[i])
    BY <1>11, <2>1, <2>3
  <2>7. f[i - 1] = Cardinality(A)
    BY <1>13, <2>6
  <2> HIDE DEF S, Until
  <2>8. /\ IsFiniteSet(A) /\ IsFiniteSet(B) /\ Cardinality(A) \in Nat /\ Cardinality(B) \in Nat
    BY InRange
  <2>9. Cardinality(A \cup B) = Cardinality(A) + Cardinality(B) - Cardinality(A \cap B)
    BY <2>8, FS_Union
  <2>10. Cardinality(A \cap B) = 0
    BY <2>5, <2>6, FS_EmptySet
  <2>11. f[i] = Cardinality(A \cup B)
    BY <2>1, <2>2, <2>3, <2>6, <2>7, <2>8, <2>9, <2>10
  <2>12. f[i] = Cardinality(Until(i))
    BY <2>4, <2>6, <2>11
  <2> QED BY <2>12 DEF S
<1>14. \A i \in 0 .. c : i \in S
  <2> HIDE DEF S
  <2> QED BY <1>12, <1>13, Induct
<1>15. f[c] = Cardinality(Until(c))
  BY <1>14
<1>16. Cardinality(Until(c)) <= Cardinality(Spans(k)) /\ Cardinality(Spans(k)) \in Nat
  <2>1. PICK A \in SUBSET Span : A = Spans(k)
    BY DEF Spans
  <2>2. Until(c) \in SUBSET A
    BY <2>1
  <2> HIDE DEF Until
  <2>3. IsFiniteSet(A) /\ Cardinality(A) \in Nat
    BY InRange
  <2>4. Cardinality(Until(c)) <= Cardinality(A)
    BY <2>2, <2>3, FS_Subset
  <2> QED BY <2>1, <2>3, <2>4
<1>17. Weight(NamedOf(k), e) = f[c]
  BY <1>6, <1>9, <1>10
<1>18. Weight(NamedOf(k), e) <= Cardinality(Spans(k))
  BY <1>15, <1>16, <1>17
<1> QED BY <1>3, <1>5, <1>16, <1>18 DEF e

\* What the interval writes with the native module.
Turns == Message("turns", "sum", read.turns)

Paused == Message("pauses", "sum", read.pauses)

KindTotals == Each("total", Kind, read.total)

Names == Each("name", Name, [n \in Name |-> byName[n]])

Report == CounterMessages \o <<Turns, Paused>> \o KindTotals \o Names

Reading == read \in [turns : Nat, pauses : Nat, total : [Kind -> Nat]]

\* Messages of a total have what was read.
AsRead == {m \in Messages : \A k \in Kind : m.stat = "total" /\ m.of = k => m.value = read.total[k]}

\* The messages of a statistic.
Of(A, stat) == {m \in A : m.stat = stat}

LEMMA ReportParts ==
    ASSUME IInv, CountersOfTags, Reading
    PROVE  /\ CounterMessages \in Seq(Of(AsRead, "counter"))
           /\ Turns \in AsRead /\ Turns.stat = "turns" /\ Turns.value = read.turns
           /\ Paused \in AsRead /\ Paused.stat = "pauses" /\ Paused.value = read.pauses
           /\ KindTotals \in Seq(Of(AsRead, "total"))
           /\ Names \in Seq(Of(AsRead, "name"))
<1>1. {m \in Messages : m.stat = "counter"} = Of(AsRead, "counter")
  BY DEF AsRead, Of
<1>2. {m \in Messages : m.stat = "name"} = Of(AsRead, "name")
  BY DEF AsRead, Of
<1>3. CounterMessages \in Seq(Of(AsRead, "counter"))
  BY <1>1, CounterPart
<1>4. Names \in Seq(Of(AsRead, "name"))
  <2>1. "finished" \in Kind
    BY DEF Kind
  <2>2. Names \in Seq({m \in Messages : m.stat = "name"})
    BY <2>1, NamesPart DEF Names
  <2> QED BY <1>2, <2>2
<1>5. /\ Turns \in AsRead /\ Turns.stat = "turns" /\ Turns.value = read.turns
      /\ Paused \in AsRead /\ Paused.stat = "pauses" /\ Paused.value = read.pauses
  BY DEF Turns, Paused, Message, AsRead, Messages, Stat, Reading
<1>6. KindTotals \in Seq(Of(AsRead, "total"))
  <2>1. PICK M : M = Of(AsRead, "total")
    OBVIOUS
  <2>2. ASSUME NEW k \in Kind PROVE Message("total", k, read.total[k]) \in M
    <3>1. Message("total", k, read.total[k]) \in Messages
      BY DEF Message, Messages, Stat, Reading
    <3>2. Message("total", k, read.total[k]) \in AsRead
      BY <3>1 DEF Message, AsRead
    <3> QED BY <2>1, <3>2 DEF Message, Of
  <2>3. KindTotals \in Seq(M)
    BY <2>2, EachPart, KindIsFinite DEF KindTotals
  <2> QED BY <2>1, <2>3
<1> QED BY <1>3, <1>4, <1>5, <1>6

LEMMA ReportWeight ==
    ASSUME IInv, CountersOfTags, Reading, NEW w \in [Messages -> Nat]
    PROVE  /\ Report \in Seq(AsRead) /\ Report \in Seq(Messages)
           /\ Weight(w, Report) = Weight(w, CounterMessages) + w[Turns] + w[Paused]
                                    + Weight(w, KindTotals) + Weight(w, Names)
<1>1. PICK A : A = AsRead /\ A \subseteq Messages
  BY DEF AsRead
<1>2. PICK a \in Seq(A), d \in Seq(A), e \in Seq(A) :
        a = CounterMessages /\ d = KindTotals /\ e = Names
  <2>1. \A stat : Of(AsRead, stat) \subseteq A
    BY <1>1 DEF Of
  <2> QED BY <2>1, ReportParts, SeqMonotonic
<1>3. PICK x \in A, y \in A : x = Turns /\ y = Paused
  BY <1>1, ReportParts
<1>4. PICK u \in Seq(A) : u = <<x, y>> /\ u = <<x>> \o <<y>>
  <2>1. <<x, y>> \in Seq(A)
    OBVIOUS
  <2>2. Append(<<x>>, y) = <<x>> \o <<y>>
    <3>1. PICK p \in Seq(A) : p = <<x>>
      <4>1. <<x>> \in Seq(A)
        OBVIOUS
      <4> QED BY <4>1
    <3> QED BY <3>1, AppendIsConcat
  <2>3. <<x, y>> = Append(<<x>>, y)
    OBVIOUS
  <2> QED BY <2>1, <2>2, <2>3
<1>5. PICK v \in Seq(A) : v = a \o u
  BY ConcatProperties
<1>6. PICK t \in Seq(A) : t = v \o d
  BY ConcatProperties
<1>7. PICK r \in Seq(A) : r = t \o e
  BY ConcatProperties
<1>8. r = Report
  BY <1>2, <1>3, <1>4, <1>5, <1>6, <1>7 DEF Report
<1>9. /\ a \in Seq(Messages) /\ d \in Seq(Messages) /\ e \in Seq(Messages) /\ u \in Seq(Messages)
      /\ v \in Seq(Messages) /\ t \in Seq(Messages) /\ r \in Seq(Messages)
  BY <1>1, SeqMonotonic
<1>10. Weight(w, u) = w[x] + w[y]
  <2>1. PICK p \in Seq(Messages), q \in Seq(Messages) :
          p = <<x>> /\ q = <<y>> /\ Weight(w, p) = w[x] /\ Weight(w, q) = w[y]
    BY <1>1, WeightOne
  <2>2. Weight(w, p \o q) = Weight(w, p) + Weight(w, q)
    BY WeightConcat
  <2> QED BY <1>4, <2>1, <2>2
<1>11. Weight(w, v) = Weight(w, a) + Weight(w, u)
  BY <1>5, <1>9, WeightConcat
<1>12. Weight(w, t) = Weight(w, v) + Weight(w, d)
  BY <1>6, <1>9, WeightConcat
<1>13. Weight(w, r) = Weight(w, t) + Weight(w, e)
  BY <1>7, <1>9, WeightConcat
<1>14. /\ Weight(w, a) \in Nat /\ Weight(w, d) \in Nat /\ Weight(w, e) \in Nat
       /\ w[x] \in Nat /\ w[y] \in Nat
  <2>1. /\ Weight(w, a) \in Nat /\ Weight(w, d) \in Nat /\ Weight(w, e) \in Nat
    BY <1>9, WeightType
  <2>2. w[x] \in Nat /\ w[y] \in Nat
    BY <1>1
  <2> QED BY <2>1, <2>2
<1>15. Weight(w, r) = Weight(w, a) + w[x] + w[y] + Weight(w, d) + Weight(w, e)
  BY <1>10, <1>11, <1>12, <1>13, <1>14
<1> QED BY <1>1, <1>2, <1>3, <1>8, <1>9, <1>15

\* What weighs nothing.
Light(w, stat) == \A m \in Messages : m.stat = stat => w[m] = 0

LEMMA LightPart ==
    ASSUME NEW w \in [Messages -> Nat], NEW A \in SUBSET Messages, NEW stat, Light(w, stat),
           NEW a \in Seq(Of(A, stat))
    PROVE  Weight(w, a) = 0
<1>1. \A i \in 1 .. Len(a) : a[i] \in Of(A, stat)
  BY ElementOfSeq
<1>2. \A i \in 1 .. Len(a) : w[a[i]] = 0
  BY <1>1 DEF Light, Of
<1>3. Of(A, stat) \subseteq Messages
  BY DEF Of
<1>4. a \in Seq(Messages)
  BY <1>3, SeqMonotonic
<1> QED BY <1>2, <1>4, WeightNone

\* The names of a report are within each of its totals.
NamesWithin(messages) ==
    \A k \in Kind : \A j \in DOMAIN messages :
        messages[j].stat = "total" /\ messages[j].of = k
            => Weight(NamedOf(k), messages) <= messages[j].value

LEMMA ReportRight ==
    ASSUME IInv, CountersOfTags, Reading, \A k \in Kind : Cardinality(Spans(k)) <= read.total[k]
    PROVE  /\ Report \in Seq(Messages) /\ NamesWithin(Report)
           /\ SumOf("turns", Report) = read.turns /\ SumOf("pauses", Report) = read.pauses
<1>1. PICK A \in SUBSET Messages : A = AsRead
  BY DEF AsRead
<1> USE <1>1, ReportParts
<1>2. Report \in Seq(A) /\ Report \in Seq(Messages)
  BY <1>1, Weights, ReportWeight
<1>3. PICK a, d, e : /\ a = CounterMessages /\ d = KindTotals /\ e = Names
                     /\ a \in Seq(Of(A, "counter"))
                     /\ d \in Seq(Of(A, "total"))
                     /\ e \in Seq(Of(A, "name"))
  OBVIOUS
<1>4. read.turns \in Nat /\ read.pauses \in Nat /\ read.total \in [Kind -> Nat]
  BY DEF Reading
<1>5. SumOf("turns", Report) = read.turns
  <2>1. PICK w \in [Messages -> Nat] : w = ValueOf("turns")
    BY Weights
  <2>2. Light(w, "counter") /\ Light(w, "total") /\ Light(w, "name")
    BY <2>1 DEF Light, ValueOf
  <2>3. w[Turns] = read.turns /\ w[Paused] = 0
    BY <1>1, <2>1 DEF ValueOf
  <2>4. Weight(w, CounterMessages) = 0 /\ Weight(w, KindTotals) = 0 /\ Weight(w, Names) = 0
    BY <1>3, <2>2, LightPart
  <2>5. Weight(w, Report) = 0 + read.turns + 0 + 0 + 0
    BY <2>3, <2>4, ReportWeight
  <2> QED BY <1>2, <1>4, <2>1, <2>5, SumIsWeight
<1>6. SumOf("pauses", Report) = read.pauses
  <2>1. PICK w \in [Messages -> Nat] : w = ValueOf("pauses")
    BY Weights
  <2>2. Light(w, "counter") /\ Light(w, "total") /\ Light(w, "name")
    BY <2>1 DEF Light, ValueOf
  <2>3. w[Turns] = 0 /\ w[Paused] = read.pauses
    BY <1>1, <2>1 DEF ValueOf
  <2>4. Weight(w, CounterMessages) = 0 /\ Weight(w, KindTotals) = 0 /\ Weight(w, Names) = 0
    BY <1>3, <2>2, LightPart
  <2>5. Weight(w, Report) = 0 + 0 + read.pauses + 0 + 0
    BY <2>3, <2>4, ReportWeight
  <2> QED BY <1>2, <1>4, <2>1, <2>5, SumIsWeight
<1>7. ASSUME NEW k \in Kind, NEW j \in DOMAIN Report,
             Report[j].stat = "total", Report[j].of = k
      PROVE  Weight(NamedOf(k), Report) <= Report[j].value
  <2>1. PICK w \in [Messages -> Nat] : w = NamedOf(k)
    BY Weights
  <2>2. Light(w, "counter") /\ Light(w, "total") /\ w[Turns] = 0 /\ w[Paused] = 0
    BY <1>1, <2>1 DEF Light, NamedOf
  <2>3. Weight(w, CounterMessages) = 0 /\ Weight(w, KindTotals) = 0
    BY <1>3, <2>2, LightPart
  <2>4. Weight(w, Names) <= Cardinality(Spans(k)) /\ Cardinality(Spans(k)) \in Nat
    BY <2>1, NamesPart DEF Names
  <2>5. Weight(w, Names) \in Nat
    <3>1. Of(A, "name") \subseteq Messages
      BY DEF Of
    <3>2. Names \in Seq(Messages)
      BY <1>1, <3>1, SeqMonotonic
    <3> QED BY <3>2, WeightType
  <2>6. Weight(w, Report) = 0 + 0 + 0 + 0 + Weight(w, Names)
    BY <2>2, <2>3, ReportWeight
  <2>7. Report[j] \in A
    BY <1>2, LenProperties, ElementOfSeq
  <2>8. Report[j].value = read.total[k]
    BY <1>1, <1>7, <2>7 DEF AsRead
  <2>9. Cardinality(Spans(k)) <= read.total[k] /\ read.total[k] \in Nat
    BY <1>4
  <2> QED BY <2>1, <2>4, <2>5, <2>6, <2>8, <2>9
<1> QED BY <1>2, <1>5, <1>6, <1>7 DEF NamesWithin

----------------------------------------------------------------------------
\* The inductive invariant of the interval: what was read is of the spans that
\* were there, and each batch is a report that was packed.

Batches ==
    {b \in [messages : Seq(Messages), datagrams : Seq(Seq(Messages))] :
        /\ FlattenSeq(b.datagrams) = b.messages
        /\ \A j \in 1 .. Len(b.datagrams) : Fits(b.datagrams[j])
        /\ NamesWithin(b.messages)}

Histograms ==
    /\ loop \in Nat /\ pauses \in Nat /\ turned \in Nat /\ paused \in Nat
    /\ gone \in [turns : Nat, pauses : Nat]

Readings ==
    /\ step \in {"idle", "pauses", "names"} /\ Reading
    /\ step = "idle" => read = Unread
    /\ step = "pauses" => read.pauses <= pauses
    /\ step = "names" => \A k \in Kind : Cardinality(Spans(k)) <= read.total[k]

RInv ==
    /\ IInv /\ CountersOfTags /\ Histograms /\ Readings
    /\ lookups \in Seq(Batches) /\ CountedOnce

LEMMA ReadInit == Init => RInv
<1> SUFFICES ASSUME Init PROVE RInv
  OBVIOUS
<1>1. IInv
  BY InitInv
<1>2. CountersOfTags
  <2>1. counters = <<>> /\ DOMAIN <<>> = {}
    BY DEF Init
  <2> QED BY <2>1, FS_EmptySet DEF CountersOfTags
<1>3. Histograms /\ Readings
  BY DEF Init, Histograms, Readings, Reading, Unread, None
<1>4. lookups \in Seq(Batches) /\ lookups = <<>>
  <2>1. lookups = <<>>
    BY DEF Init
  <2> QED BY <2>1, EmptySeq
<1>5. ASSUME NEW stat PROVE Reported(stat) = 0
  <2>1. PICK e \in Seq(Nat) : e = <<>> /\ Len(e) = 0
    BY EmptySeq
  <2>2. [i \in DOMAIN lookups |-> SumOf(stat, FlattenSeq(lookups[i].datagrams))] = e
    BY <1>4, <2>1
  <2> QED BY <2>1, <2>2, TotalType DEF Reported
<1>6. CountedOnce
  BY <1>5 DEF Init, Unread, CountedOnce
<1> QED BY <1>1, <1>2, <1>3, <1>4, <1>6 DEF RInv

\* What the batches of a sequence report.
BatchSum(stat, q) == Total([i \in DOMAIN q |-> SumOf(stat, FlattenSeq(q[i].datagrams))])

Sums(s, stat, q) ==
    /\ Len(s) = Len(q)
    /\ \A i \in 1 .. Len(q) : s[i] = SumOf(stat, q[i].messages)
    /\ BatchSum(stat, q) = Total(s)

LEMMA BatchSums ==
    ASSUME NEW stat \in {"turns", "pauses"}, NEW q \in Seq(Batches)
    PROVE  /\ \E s \in Seq(Nat) : Sums(s, stat, q)
           /\ BatchSum(stat, q) \in Nat
<1> DEFINE s == [i \in 1 .. Len(q) |-> SumOf(stat, q[i].messages)]
<1>1. Len(q) \in Nat /\ DOMAIN q = 1 .. Len(q) /\ \A i \in 1 .. Len(q) : q[i] \in Batches
  BY LenProperties, ElementOfSeq
<1>2. \A b \in Batches : b.messages \in Seq(Messages) /\ FlattenSeq(b.datagrams) = b.messages
  BY DEF Batches
<1>3. \A i \in 1 .. Len(q) : SumOf(stat, q[i].messages) \in Nat
  BY <1>1, <1>2, SumIsWeight
<1>4. s \in Seq(Nat) /\ Len(s) = Len(q)
      /\ \A i \in 1 .. Len(q) : s[i] = SumOf(stat, q[i].messages)
  BY <1>1, <1>3
<1>5. BatchSum(stat, q) = Total(s)
  <2>1. [i \in DOMAIN q |-> SumOf(stat, FlattenSeq(q[i].datagrams))] = s
    BY <1>1, <1>2
  <2> QED BY <2>1 DEF BatchSum
<1> HIDE DEF s
<1> QED BY <1>4, <1>5, TotalType DEF Sums

LEMMA BatchAppend ==
    ASSUME NEW stat \in {"turns", "pauses"}, NEW q \in Seq(Batches), NEW b \in Batches
    PROVE  /\ Append(q, b) \in Seq(Batches)
           /\ BatchSum(stat, Append(q, b)) = BatchSum(stat, q) + SumOf(stat, b.messages)
<1>1. PICK r \in Seq(Batches) : /\ r = Append(q, b) /\ Len(r) = Len(q) + 1
                                /\ r[Len(q) + 1] = b /\ \A i \in 1 .. Len(q) : r[i] = q[i]
  <2>1. /\ Append(q, b) \in Seq(Batches) /\ Len(Append(q, b)) = Len(q) + 1
        /\ Append(q, b)[Len(q) + 1] = b /\ \A i \in 1 .. Len(q) : Append(q, b)[i] = q[i]
    BY AppendProperties
  <2> QED BY <2>1
<1>2. PICK n \in Nat : n = Len(q)
  BY LenProperties
<1>3. PICK s \in Seq(Nat) : Sums(s, stat, q)
  BY BatchSums
<1>4. PICK t \in Seq(Nat) : Sums(t, stat, r)
  BY BatchSums
<1>5. SumOf(stat, b.messages) \in Nat
  BY SumIsWeight DEF Batches
<1>6. ASSUME NEW i \in 1 .. n PROVE t[i] = s[i]
  <2>1. i \in 1 .. n + 1
    OBVIOUS
  <2> QED BY <1>1, <1>2, <1>3, <1>4, <2>1 DEF Sums
<1>7. t[n + 1] = SumOf(stat, b.messages)
  <2>1. n + 1 \in 1 .. n + 1
    OBVIOUS
  <2> QED BY <1>1, <1>2, <1>4, <2>1 DEF Sums
<1>8. Added(t, s, SumOf(stat, b.messages))
  BY <1>1, <1>2, <1>3, <1>4, <1>6, <1>7 DEF Sums, Added, Alike
<1>9. Total(t) = Total(s) + SumOf(stat, b.messages)
  BY <1>5, <1>8, TotalAppend
<1> QED BY <1>1, <1>3, <1>4, <1>9 DEF Sums

LEMMA RemoveAtIs ==
    ASSUME NEW C, NEW q \in Seq(C), NEW i \in 1 .. Len(q)
    PROVE  RemoveAt(q, i) \in Seq(C) /\ Without(RemoveAt(q, i), q, i)
<1> DEFINE n == Len(q)
           a == SubSeq(q, 1, i - 1)
           b == SubSeq(q, i + 1, n)
           r == RemoveAt(q, i)
<1>1. i \in Int /\ n \in Nat /\ i >= 1 /\ i <= n
  OBVIOUS
<1>2. a \in Seq(C) /\ Len(a) = i - 1 /\ \A j \in 1 .. i - 1 : a[j] = q[j]
  BY <1>1
<1>3. b \in Seq(C) /\ Len(b) = n - i /\ \A j \in 1 .. n - i : b[j] = q[i + j]
  BY <1>1
<1>4. r = a \o b
  BY DEF RemoveAt
<1> HIDE DEF a, b, r, n
<1>5. /\ r \in Seq(C) /\ Len(r) = Len(a) + Len(b)
      /\ \A k \in 1 .. Len(a) + Len(b) : r[k] = IF k <= Len(a) THEN a[k] ELSE b[k - Len(a)]
  BY <1>2, <1>3, <1>4, ConcatProperties
<1>6. Len(r) = n - 1
  BY <1>1, <1>2, <1>3, <1>5
<1>7. ASSUME NEW k \in 1 .. n - 1 PROVE r[k] = IF k < i THEN q[k] ELSE q[k + 1]
  <2>1. r[k] = IF k <= i - 1 THEN a[k] ELSE b[k - (i - 1)]
    BY <1>1, <1>2, <1>3, <1>5
  <2>2. CASE k < i
    BY <1>1, <1>2, <2>1, <2>2
  <2>3. CASE ~(k < i)
    <3>1. k - (i - 1) \in 1 .. n - i /\ i + (k - (i - 1)) = k + 1 /\ ~(k <= i - 1)
      BY <1>1, <2>3
    <3> QED BY <1>3, <2>1, <2>3, <3>1
  <2> QED BY <2>2, <2>3
<1> QED BY <1>5, <1>6, <1>7 DEF Without, r, n

LEMMA BatchWithout ==
    ASSUME NEW stat \in {"turns", "pauses"}, NEW q \in Seq(Batches), NEW i \in 1 .. Len(q)
    PROVE  BatchSum(stat, q) = BatchSum(stat, RemoveAt(q, i)) + SumOf(stat, q[i].messages)
<1>1. PICK r \in Seq(Batches) : r = RemoveAt(q, i) /\ Without(r, q, i)
  BY RemoveAtIs
<1>2. PICK n \in Nat : n = Len(q)
  BY LenProperties
<1>3. PICK s \in Seq(Nat) : Sums(s, stat, q)
  BY BatchSums
<1>4. PICK t \in Seq(Nat) : Sums(t, stat, r)
  BY BatchSums
<1>5. Len(r) = n - 1 /\ Len(t) = n - 1 /\ Len(s) = n
  BY <1>1, <1>2, <1>3, <1>4 DEF Sums, Without
<1>6. ASSUME NEW j \in 1 .. n - 1 PROVE t[j] = IF j < i THEN s[j] ELSE s[j + 1]
  <2>1. j \in 1 .. n /\ j + 1 \in 1 .. n
    OBVIOUS
  <2>2. r[j] = IF j < i THEN q[j] ELSE q[j + 1]
    BY <1>1, <1>5 DEF Without
  <2>3. t[j] = SumOf(stat, r[j].messages)
    BY <1>4, <1>5 DEF Sums
  <2>4. s[j] = SumOf(stat, q[j].messages) /\ s[j + 1] = SumOf(stat, q[j + 1].messages)
    BY <1>2, <1>3, <2>1 DEF Sums
  <2> QED BY <2>2, <2>3, <2>4
<1>7. Without(t, s, i)
  BY <1>5, <1>6 DEF Without
<1>8. Total(s) = Total(t) + s[i]
  BY <1>2, <1>5, <1>7, TotalWithout
<1> QED BY <1>1, <1>3, <1>4, <1>8 DEF Sums

LEMMA ReportedIs == \A stat : Reported(stat) = BatchSum(stat, lookups)
BY DEF Reported, BatchSum

LEMMA ReportedType ==
    ASSUME lookups \in Seq(Batches)
    PROVE  Reported("turns") \in Nat /\ Reported("pauses") \in Nat
BY ReportedIs, BatchSums

\* A report that is captured becomes a batch, if it is not empty.
LEMMA CapturedRight ==
    ASSUME lookups \in Seq(Batches), NEW messages \in Seq(Messages), NamesWithin(messages),
           Captured(messages)
    PROVE  /\ lookups' \in Seq(Batches)
           /\ \A stat \in {"turns", "pauses"} :
                Reported(stat)' = Reported(stat) + SumOf(stat, messages)
<1>1. CASE messages = <<>>
  <2>1. lookups' = lookups
    BY <1>1 DEF Captured
  <2>2. ASSUME NEW stat \in {"turns", "pauses"}
        PROVE  SumOf(stat, messages) = 0 /\ Reported(stat) \in Nat
    <3>1. PICK w \in [Messages -> Nat] : w = ValueOf(stat)
      BY Weights
    <3>2. Weight(w, messages) = 0
      <4>1. \A i \in 1 .. Len(messages) : w[messages[i]] = 0
        BY <1>1
      <4> QED BY <4>1, WeightNone
    <3> QED BY <3>1, <3>2, SumIsWeight, ReportedType
  <2>3. \A stat : Reported(stat)' = Reported(stat)
    BY <2>1 DEF Reported
  <2> QED BY <2>1, <2>2, <2>3
<1>2. CASE messages # <<>>
  <2>1. PICK d : d = Datagrams(messages)
    OBVIOUS
  <2>2. PICK b \in Batches : b = [messages |-> messages, datagrams |-> d]
    <3>1. /\ d \in Seq(Seq(Messages)) /\ FlattenSeq(d) = messages
          /\ \A j \in 1 .. Len(d) : Fits(d[j])
      BY <2>1, DatagramsRight
    <3> QED BY <3>1 DEF Batches
  <2>3. lookups' = Append(lookups, b)
    BY <1>2, <2>1, <2>2 DEF Captured
  <2>4. \A stat \in {"turns", "pauses"} :
          /\ Append(lookups, b) \in Seq(Batches)
          /\ BatchSum(stat, Append(lookups, b)) = BatchSum(stat, lookups) + SumOf(stat, messages)
    BY <2>2, BatchAppend
  <2>5. \A stat : Reported(stat)' = BatchSum(stat, lookups')
    BY DEF Reported, BatchSum
  <2> QED BY <2>3, <2>4, <2>5, ReportedIs
<1> QED BY <1>1, <1>2

\* The counters alone.
LEMMA CountersRight ==
    ASSUME CountersOfTags
    PROVE  /\ CounterMessages \in Seq(Messages) /\ NamesWithin(CounterMessages)
           /\ SumOf("turns", CounterMessages) = 0 /\ SumOf("pauses", CounterMessages) = 0
<1>1. CounterMessages \in Seq(Of(Messages, "counter"))
  BY CounterPart DEF Of
<1>2. CounterMessages \in Seq(Messages)
  <2>1. Of(Messages, "counter") \subseteq Messages
    BY DEF Of
  <2> QED BY <1>1, <2>1, SeqMonotonic
<1>3. ASSUME NEW stat \in {"turns", "pauses"} PROVE SumOf(stat, CounterMessages) = 0
  <2>1. PICK w \in [Messages -> Nat] : w = ValueOf(stat)
    BY Weights
  <2>2. Light(w, "counter")
    BY <2>1 DEF Light, ValueOf
  <2>3. Messages \in SUBSET Messages
    OBVIOUS
  <2> QED BY <1>1, <1>2, <2>1, <2>2, <2>3, LightPart, SumIsWeight
<1>4. NamesWithin(CounterMessages)
  <2>1. \A j \in DOMAIN CounterMessages : CounterMessages[j] \in Of(Messages, "counter")
    BY <1>1, LenProperties, ElementOfSeq
  <2> QED BY <2>1 DEF NamesWithin, Of
<1> QED BY <1>2, <1>3, <1>4

----------------------------------------------------------------------------
\* The steps of the interval, of the collector and of the client.

Kept == UNCHANGED <<counters, loop, pauses, turned, paused, gone, lookups>>

LEMMA KeptRight ==
    ASSUME RInv, Kept
    PROVE  /\ CountersOfTags' /\ Histograms' /\ lookups' \in Seq(Batches)
           /\ UNCHANGED <<step, read>> => CountedOnce'
<1>1. CountersOfTags'
  BY DEF RInv, Kept, CountersOfTags
<1>2. Histograms'
  BY DEF RInv, Kept, Histograms
<1>3. \A stat : Reported(stat)' = Reported(stat)
  BY DEF Kept, Reported
<1>4. ASSUME UNCHANGED <<step, read>> PROVE CountedOnce'
  BY <1>3, <1>4 DEF RInv, Kept, CountedOnce
<1> QED BY <1>1, <1>2, <1>4 DEF RInv, Kept

\* Spans are started, finished or collected: between the reading of the totals
\* and of the names they are only collected.
LEMMA SpanReadStep ==
    ASSUME RInv, NEW s \in Span, Track(s) \/ Finish(s) \/ Collect(s)
    PROVE  RInv'
<1>1. IInv /\ IInv'
  BY TrackerStep DEF RInv
<1>2. Kept /\ UNCHANGED <<step, read>>
  BY DEF Track, Finish, Collect, Kept, client
<1>3. Readings'
  <2>1. Readings
    BY DEF RInv
  <2>2. ASSUME step = "names", NEW k \in Kind
        PROVE  (Cardinality(Spans(k)) <= read.total[k])'
    <3>1. Collect(s)
      BY <2>2 DEF Track, Finish
    <3>2. Spans(k)' \subseteq Spans(k)
      BY <1>1, <3>1 DEF Collect, Spans, IInv, Handled, Kind
    <3>3. PICK A \in SUBSET Span, B \in SUBSET Span : B \subseteq A /\ A = Spans(k) /\ B = Spans(k)'
      BY <3>2 DEF Spans
    <3>4. IsFiniteSet(A) /\ Cardinality(A) \in Nat /\ Cardinality(B) \in Nat
      BY <3>3, InRange
    <3>5. Cardinality(B) <= Cardinality(A)
      BY <3>3, <3>4, FS_Subset
    <3>6. Cardinality(A) <= read.total[k] /\ read.total[k] \in Nat
      BY <2>1, <2>2, <3>3 DEF Readings, Reading
    <3> QED BY <1>2, <3>3, <3>4, <3>5, <3>6
  <2> QED BY <1>2, <2>1, <2>2 DEF Readings, Reading, Kept
<1> QED BY <1>1, <1>2, <1>3, KeptRight DEF RInv

\* When the spans are left alone, so is what was read of them.
LEMMA ReadingsKept ==
    ASSUME Readings, UNCHANGED <<handle, step, read>>, pauses' \in Nat, pauses \in Nat,
           pauses <= pauses'
    PROVE  Readings'
<1>1. \A k \in Kind : Spans(k)' = Spans(k)
  BY DEF Spans
<1>2. \A k \in Kind : Cardinality(Spans(k))' = Cardinality(Spans(k))
  BY <1>1
<1> QED BY <1>2 DEF Readings, Reading

LEMMA TurnStep ==
    ASSUME RInv, Turn \/ Pause \/ (\E t \in Tag, by \in {1, -1} : Count(t, by))
    PROVE  RInv'
<1>1. IInv'
  BY InvStep DEF RInv, Next
<1>2. /\ loop \in Nat /\ pauses \in Nat /\ turned \in Nat /\ paused \in Nat
      /\ gone.turns \in Nat /\ gone.pauses \in Nat
      /\ read.turns \in Nat /\ read.pauses \in Nat
      /\ Reported("turns") \in Nat /\ Reported("pauses") \in Nat
  BY ReportedType DEF RInv, Histograms, Readings, Reading
<1>3. UNCHANGED <<handle, step, read, lookups, gone>>
  BY DEF Turn, Pause, Count, tracker, client
<1>4. \A stat : Reported(stat)' = Reported(stat)
  BY <1>3 DEF Reported
<1>5. CASE Turn
  <2>1. turned' = turned + 1 /\ loop' = loop + 1 /\ UNCHANGED <<counters, pauses, paused>>
    BY <1>5 DEF Turn
  <2>2. CountersOfTags' /\ Histograms'
    BY <1>3, <2>1 DEF RInv, CountersOfTags, Histograms
  <2>3. Readings'
    BY <1>2, <1>3, <2>1, ReadingsKept DEF RInv
  <2>4. CountedOnce'
    <3>1. turned = loop + read.turns + Reported("turns") + gone.turns
      BY DEF RInv, CountedOnce
    <3>2. turned + 1 = (loop + 1) + read.turns + Reported("turns") + gone.turns
      BY <1>2, <3>1
    <3>3. turned' = loop' + read.turns + Reported("turns") + gone.turns
      BY <2>1, <3>2
    <3> QED BY <1>3, <1>4, <2>1, <3>3 DEF RInv, CountedOnce
  <2> QED BY <1>1, <1>3, <2>2, <2>3, <2>4 DEF RInv
<1>6. CASE Pause
  <2>1. paused' = paused + 1 /\ pauses' = pauses + 1 /\ UNCHANGED <<counters, loop, turned>>
    BY <1>6 DEF Pause
  <2>2. CountersOfTags' /\ Histograms'
    BY <1>3, <2>1 DEF RInv, CountersOfTags, Histograms
  <2>3. Readings'
    BY <1>2, <1>3, <2>1, ReadingsKept DEF RInv
  <2>4. CountedOnce'
    <3>1. Reported("pauses") + gone.pauses
            + (IF step = "names" THEN read.pauses + pauses ELSE pauses) <= paused
      BY DEF RInv, CountedOnce
    <3>2. Reported("pauses") + gone.pauses
            + (IF step = "names" THEN read.pauses + (pauses + 1) ELSE pauses + 1) <= paused + 1
      BY <1>2, <3>1
    <3>3. Reported("pauses") + gone.pauses
            + (IF step = "names" THEN read.pauses + pauses' ELSE pauses') <= paused'
      BY <2>1, <3>2
    <3> QED BY <1>3, <1>4, <2>1, <3>3 DEF RInv, CountedOnce
  <2> QED BY <1>1, <1>3, <2>2, <2>3, <2>4 DEF RInv
<1>7. CASE \E t \in Tag, by \in {1, -1} : Count(t, by)
  <2>1. PICK t \in Tag, by \in {1, -1} : Count(t, by)
    BY <1>7
  <2>2. UNCHANGED <<loop, pauses, turned, paused>>
    BY <2>1 DEF Count
  <2>3. CountersOfTags'
    <3> DEFINE old == IF t \in DOMAIN counters THEN counters[t] ELSE 0
    <3>1. MaxCount \in Nat
      BY MetricsAssumption
    <3>2. /\ old + by \in 0 .. MaxCount
          /\ counters' = [u \in DOMAIN counters \cup {t} |->
                            IF u = t THEN old + by ELSE counters[u]]
      BY <2>1 DEF Count
    <3>3. old + by \in Nat
      BY <3>1, <3>2
    <3> HIDE DEF old
    <3>4. IsFiniteSet(DOMAIN counters \cup {t})
      BY FS_AddElement DEF RInv, CountersOfTags
    <3> QED BY <3>2, <3>3, <3>4 DEF RInv, CountersOfTags
  <2>4. Histograms'
    BY <1>3, <2>2 DEF RInv, Histograms
  <2>5. Readings'
    BY <1>2, <1>3, <2>2, ReadingsKept DEF RInv
  <2>6. CountedOnce'
    BY <1>3, <1>4, <2>2 DEF RInv, CountedOnce
  <2> QED BY <1>1, <1>3, <2>3, <2>4, <2>5, <2>6 DEF RInv
<1> QED BY <1>5, <1>6, <1>7

\* The interval reads: the pauses that come after they were read are reset too.
LEMMA ReadStep ==
    ASSUME RInv, TickNative \/ ReadTotals
    PROVE  RInv'
<1>1. IInv /\ IInv'
  BY InvStep DEF RInv, Next
<1>2. /\ loop \in Nat /\ pauses \in Nat /\ turned \in Nat /\ paused \in Nat
      /\ gone.turns \in Nat /\ gone.pauses \in Nat /\ Reading
      /\ Reported("turns") \in Nat /\ Reported("pauses") \in Nat
  BY ReportedType DEF RInv, Histograms, Readings
<1>3. UNCHANGED <<handle, total, counters, turned, paused, lookups, gone>>
  BY DEF TickNative, ReadTotals, tracker, client
<1>4. \A stat : Reported(stat)' = Reported(stat)
  BY <1>3 DEF Reported
<1>5. CountersOfTags'
  BY <1>3 DEF RInv, CountersOfTags
<1>6. CASE TickNative
  <2>1. /\ step = "idle" /\ step' = "pauses" /\ loop' = 0 /\ pauses' = pauses
        /\ read' = [read EXCEPT !.turns = loop, !.pauses = pauses]
    BY <1>6 DEF TickNative
  <2>2. /\ read'.turns = loop /\ read'.pauses = pauses /\ Reading' /\ read.turns = 0
    <3>1. read = Unread
      BY <2>1 DEF RInv, Readings
    <3>2. read'.turns = loop /\ read'.pauses = pauses /\ Reading'
      BY <1>2, <2>1 DEF Reading
    <3> QED BY <3>1, <3>2 DEF Unread
  <2>3. Histograms'
    BY <1>3, <2>1 DEF RInv, Histograms
  <2>4. Readings'
    BY <1>2, <2>1, <2>2 DEF Readings
  <2>5. CountedOnce'
    <3>1. turned = 0 + loop + Reported("turns") + gone.turns
      BY <1>2, <2>2 DEF RInv, CountedOnce
    <3>2. Reported("pauses") + gone.pauses + pauses <= paused
      BY <2>1 DEF RInv, CountedOnce
    <3> QED BY <1>3, <1>4, <2>1, <2>2, <3>1, <3>2 DEF CountedOnce
  <2> QED BY <1>1, <1>3, <1>5, <2>3, <2>4, <2>5 DEF RInv
<1>7. CASE ReadTotals
  <2>1. /\ step = "pauses" /\ step' = "names" /\ loop' = loop /\ pauses' = 0
        /\ read' = [read EXCEPT !.total = total]
    BY <1>7 DEF ReadTotals, Reset
  <2>2. /\ read'.turns = read.turns /\ read'.pauses = read.pauses /\ read'.total = total
        /\ Reading'
    BY <1>1, <1>2, <2>1 DEF Reading, IInv, Counters
  <2>3. Histograms'
    BY <1>3, <2>1 DEF RInv, Histograms
  <2>4. Readings'
    <3>1. \A k \in Kind : Spans(k)' = Spans(k)
      BY <1>3 DEF Spans
    <3>2. \A k \in Kind : Cardinality(Spans(k))' = total[k] /\ total[k] \in Nat
      BY <1>1, <3>1 DEF IInv, Counters, SpansCounted
    <3>3. \A k \in Kind : Cardinality(Spans(k))' <= read'.total[k]
      BY <2>2, <3>2
    <3> QED BY <2>1, <2>2, <3>3 DEF Readings
  <2>5. CountedOnce'
    <3>1. Reported("pauses") + gone.pauses + pauses <= paused
      BY <2>1 DEF RInv, CountedOnce
    <3>2. read.pauses <= pauses /\ read.pauses \in Nat
      BY <1>2, <2>1 DEF RInv, Readings, Reading
    <3>3. Reported("pauses") + gone.pauses + (read.pauses + 0) <= paused
      BY <1>2, <3>1, <3>2
    <3>4. turned = loop + read.turns + Reported("turns") + gone.turns
      BY DEF RInv, CountedOnce
    <3> QED BY <1>3, <1>4, <2>1, <2>2, <3>3, <3>4 DEF CountedOnce
  <2> QED BY <1>1, <1>3, <1>5, <2>3, <2>4, <2>5 DEF RInv
<1> QED BY <1>6, <1>7

\* What was read is reported, or the counters alone.
LEMMA ReportStep ==
    ASSUME RInv, Tick \/ ReadNames
    PROVE  RInv'
<1>1. IInv /\ IInv' /\ CountersOfTags /\ lookups \in Seq(Batches)
  BY InvStep DEF RInv, Next
<1>2. /\ loop \in Nat /\ pauses \in Nat /\ turned \in Nat /\ paused \in Nat
      /\ gone.turns \in Nat /\ gone.pauses \in Nat /\ Reading
      /\ read.turns \in Nat /\ read.pauses \in Nat
      /\ Reported("turns") \in Nat /\ Reported("pauses") \in Nat
  BY ReportedType DEF RInv, Histograms, Readings, Reading
<1>3. UNCHANGED <<handle, counters, loop, pauses, turned, paused, gone>>
  BY DEF Tick, ReadNames, tracker
<1>4. CountersOfTags' /\ Histograms'
  BY <1>3 DEF RInv, CountersOfTags, Histograms
<1>5. CASE Tick
  <2>1. Captured(CounterMessages) /\ UNCHANGED <<step, read>>
    BY <1>5 DEF Tick
  <2>2. /\ lookups' \in Seq(Batches)
        /\ Reported("turns")' = Reported("turns") + 0
        /\ Reported("pauses")' = Reported("pauses") + 0
    <3>1. PICK m \in Seq(Messages) : /\ m = CounterMessages /\ NamesWithin(m)
                                     /\ SumOf("turns", m) = 0 /\ SumOf("pauses", m) = 0
      BY <1>1, CountersRight
    <3> QED BY <1>1, <2>1, <3>1, CapturedRight
  <2>3. Readings'
    BY <1>2, <1>3, <2>1, ReadingsKept DEF RInv
  <2>4. Reported("turns")' = Reported("turns") /\ Reported("pauses")' = Reported("pauses")
    BY <1>2, <2>2
  <2>5. CountedOnce'
    BY <1>3, <2>1, <2>4 DEF RInv, CountedOnce
  <2> QED BY <1>1, <1>4, <2>2, <2>3, <2>5 DEF RInv
<1>6. CASE ReadNames
  <2>1. Captured(Report) /\ step = "names" /\ step' = "idle" /\ read' = Unread
    BY <1>6 DEF ReadNames, Report, Turns, Paused, KindTotals, Names
  <2>2. /\ lookups' \in Seq(Batches)
        /\ Reported("turns")' = Reported("turns") + read.turns
        /\ Reported("pauses")' = Reported("pauses") + read.pauses
    <3>1. \A k \in Kind : Cardinality(Spans(k)) <= read.total[k]
      BY <2>1 DEF RInv, Readings
    <3>2. PICK m \in Seq(Messages) :
            /\ m = Report /\ NamesWithin(m)
            /\ SumOf("turns", m) = read.turns /\ SumOf("pauses", m) = read.pauses
      BY <1>1, <1>2, <3>1, ReportRight
    <3> QED BY <1>1, <2>1, <3>2, CapturedRight
  <2>3. Readings' /\ read'.turns = 0
    BY <2>1 DEF Readings, Reading, Unread, None
  <2>4. CountedOnce'
    <3>1. turned = loop + 0 + (Reported("turns") + read.turns) + gone.turns
      BY <1>2 DEF RInv, CountedOnce
    <3>2. Reported("pauses") + gone.pauses + (read.pauses + pauses) <= paused
      BY <2>1 DEF RInv, CountedOnce
    <3>3. (Reported("pauses") + read.pauses) + gone.pauses + pauses <= paused
      BY <1>2, <3>2
    <3> QED BY <1>3, <2>1, <2>2, <2>3, <3>1, <3>3 DEF CountedOnce
  <2> QED BY <1>1, <1>4, <2>2, <2>3, <2>4 DEF RInv
<1> QED BY <1>5, <1>6

\* A batch is sent or lost.
LEMMA LookupStep ==
    ASSUME RInv, NEW i \in DOMAIN lookups, Lookup(i)
    PROVE  RInv'
<1>1. IInv' /\ lookups \in Seq(Batches) /\ i \in 1 .. Len(lookups)
  BY InvStep, LenProperties DEF RInv, Next
<1>2. /\ loop \in Nat /\ pauses \in Nat /\ turned \in Nat /\ paused \in Nat
      /\ gone.turns \in Nat /\ gone.pauses \in Nat
      /\ read.turns \in Nat /\ read.pauses \in Nat
  BY DEF RInv, Histograms, Readings, Reading
<1>3. PICK b \in Batches : b = lookups[i] /\ b.messages \in Seq(Messages)
                           /\ FlattenSeq(b.datagrams) = b.messages
  <2>1. lookups[i] \in Batches
    BY <1>1, ElementOfSeq
  <2> QED BY <2>1 DEF Batches
<1>4. PICK a \in Nat, c \in Nat : a = SumOf("turns", b.messages) /\ c = SumOf("pauses", b.messages)
  BY <1>3, SumIsWeight
<1>5. /\ UNCHANGED <<handle, counters, loop, pauses, step, read, turned, paused>>
      /\ lookups' = RemoveAt(lookups, i)
      /\ gone' = [turns |-> gone.turns + a, pauses |-> gone.pauses + c]
  BY <1>3, <1>4 DEF Lookup, tracker
<1>6. lookups' \in Seq(Batches)
  BY <1>1, <1>5, RemoveAtIs
<1>7. CountersOfTags' /\ Histograms' /\ Readings'
  <2>1. CountersOfTags'
    BY <1>5 DEF RInv, CountersOfTags
  <2>2. Histograms'
    BY <1>2, <1>5 DEF RInv, Histograms
  <2>3. Readings'
    BY <1>2, <1>5, ReadingsKept DEF RInv
  <2> QED BY <2>1, <2>2, <2>3
<1>8. /\ Reported("turns") = Reported("turns")' + a
      /\ Reported("pauses") = Reported("pauses")' + c
  <2>1. \A stat : Reported(stat)' = BatchSum(stat, lookups')
    BY DEF Reported, BatchSum
  <2>2. /\ BatchSum("turns", lookups) = BatchSum("turns", RemoveAt(lookups, i)) + a
        /\ BatchSum("pauses", lookups) = BatchSum("pauses", RemoveAt(lookups, i)) + c
    BY <1>1, <1>3, <1>4, BatchWithout
  <2> QED BY <1>5, <2>1, <2>2, ReportedIs
<1>9. Reported("turns")' \in Nat /\ Reported("pauses")' \in Nat
  <2>1. \A stat : Reported(stat)' = BatchSum(stat, lookups')
    BY DEF Reported, BatchSum
  <2> QED BY <1>6, <2>1, BatchSums
<1>10. CountedOnce'
  <2>1. PICK x \in Nat, y \in Nat : x = Reported("turns")' /\ y = Reported("pauses")'
    BY <1>9
  <2>2. /\ turned = loop + read.turns + (x + a) + gone.turns
        /\ (y + c) + gone.pauses
            + (IF step = "names" THEN read.pauses + pauses ELSE pauses) <= paused
    BY <1>8, <2>1 DEF RInv, CountedOnce
  <2>3. turned = loop + read.turns + x + (gone.turns + a)
    BY <1>2, <2>2
  <2>4. y + (gone.pauses + c)
            + (IF step = "names" THEN read.pauses + pauses ELSE pauses) <= paused
    BY <1>2, <2>2
  <2> QED BY <1>5, <2>1, <2>3, <2>4 DEF CountedOnce
<1> QED BY <1>1, <1>6, <1>7, <1>10 DEF RInv

LEMMA ReadInvStep == RInv /\ [Next]_vars => RInv'
<1> SUFFICES ASSUME RInv, [Next]_vars PROVE RInv'
  OBVIOUS
<1>1. CASE \E s \in Span : Track(s) \/ Finish(s) \/ Collect(s)
  BY <1>1, SpanReadStep
<1>2. CASE Turn \/ Pause \/ (\E t \in Tag, by \in {1, -1} : Count(t, by))
  BY <1>2, TurnStep
<1>3. CASE TickNative \/ ReadTotals
  BY <1>3, ReadStep
<1>4. CASE Tick \/ ReadNames
  BY <1>4, ReportStep
<1>5. CASE \E i \in DOMAIN lookups : Lookup(i)
  BY <1>5, LookupStep
<1>6. CASE UNCHANGED vars
  <2>1. Kept /\ UNCHANGED <<handle, step, read, pauses>>
    BY <1>6 DEF vars, Kept
  <2>2. IInv'
    BY InvStep DEF RInv
  <2>3. Readings'
    BY <2>1, ReadingsKept DEF RInv, Histograms
  <2> QED BY <2>1, <2>2, <2>3, KeptRight DEF RInv
<1> QED BY <1>1, <1>2, <1>3, <1>4, <1>5, <1>6 DEF Next

LEMMA ReadAlways == Spec => []RInv
BY ReadInit, ReadInvStep, PTL DEF Spec

\* Each turn of the event loop is in the histogram, or was read, or is in one
\* report, and no pause of the collector is in two, wherever in an interval
\* they fall and however many lookups are under way.
THEOREM EachCountedOnce == Spec => []CountedOnce
<1>1. RInv => CountedOnce
  BY DEF RInv
<1> QED BY ReadAlways, <1>1, PTL

\* The datagrams of a report hold its messages in their order, and none is over
\* the limit but one that is a single message.
THEOREM ReportsArePacked == Spec => []Packed
<1>1. ASSUME RInv PROVE Packed
  <2>1. \A i \in DOMAIN lookups : lookups[i] \in Batches
    BY <1>1, LenProperties, ElementOfSeq DEF RInv
  <2>2. ASSUME NEW i \in DOMAIN lookups
        PROVE  /\ FlattenSeq(lookups[i].datagrams) = lookups[i].messages
               /\ \A j \in DOMAIN lookups[i].datagrams :
                    \/ Bytes(lookups[i].datagrams[j]) <= Limit
                    \/ Len(lookups[i].datagrams[j]) = 1
    BY <2>1, LenProperties DEF Batches, Fits
  <2> QED BY <2>2 DEF Packed
<1> QED BY ReadAlways, <1>1, PTL

\* A report names no more spans of a kind than its totals have, though the
\* collector may free spans between the reading of the two.
THEOREM NamesAreWithinTotals == Spec => []NamesInTotals
<1>1. ASSUME RInv PROVE NamesInTotals
  <2>1. \A i \in DOMAIN lookups : lookups[i] \in Batches
    BY <1>1, LenProperties, ElementOfSeq DEF RInv
  <2>2. ASSUME NEW messages \in Seq(Messages), NEW k \in Kind
        PROVE  Weight(NamedOf(k), messages)
                = Total([j \in DOMAIN messages |->
                            IF messages[j].stat = "name" THEN messages[j].value[k] ELSE 0])
    <3>1. \A j \in DOMAIN messages : messages[j] \in Messages
      BY LenProperties, ElementOfSeq
    <3>2. [j \in DOMAIN messages |-> NamedOf(k)[messages[j]]]
            = [j \in DOMAIN messages |->
                IF messages[j].stat = "name" THEN messages[j].value[k] ELSE 0]
      BY <3>1 DEF NamedOf
    <3> QED BY <3>2 DEF Weight
  <2>3. ASSUME NEW i \in DOMAIN lookups
        PROVE  lookups[i].messages \in Seq(Messages) /\ NamesWithin(lookups[i].messages)
    BY <2>1 DEF Batches
  <2> QED BY <2>2, <2>3 DEF NamesInTotals, NamesWithin
<1> QED BY ReadAlways, <1>1, PTL

----------------------------------------------------------------------------
\* The bound emitter, an instance on the state of EmitterProperties.

Emitter == INSTANCE BoundEmitter

Functions == Emitter!Function

\* No registration is in a list twice.
Numbered(q) == \A i, j \in DOMAIN q : q[i].n = q[j].n => i = j

\* What is left in a list, in its order.
Left(q, p, out) == List!Left(q, p, out)

LEMMA LeftIs ==
    ASSUME NEW q, NEW p, NEW out
    PROVE  Left(q, p, out) <=>
            /\ \A i \in DOMAIN q : \E k \in DOMAIN p : p[k] = q[i] /\ p[k].n \notin out
            /\ \A k \in DOMAIN p : p[k].n \notin out => \E i \in DOMAIN q : q[i] = p[k]
            /\ \A i, j \in DOMAIN q : i < j =>
                    \E k, l \in DOMAIN p : k < l /\ p[k] = q[i] /\ p[l] = q[j]
BY DEF Left, List!Left, List!Range

LEMMA LeftNumbered ==
    ASSUME NEW q \in Seq(Functions), NEW p \in Seq(Functions), NEW out,
           Left(q, p, out), Numbered(p)
    PROVE  Numbered(q)
<1>1. SUFFICES ASSUME NEW i \in DOMAIN q, NEW j \in DOMAIN q, q[i].n = q[j].n, i < j
               PROVE  FALSE
  <2>1. DOMAIN q \subseteq Nat
    BY LenProperties
  <2> QED BY <2>1 DEF Numbered
<1>2. PICK k \in DOMAIN p, l \in DOMAIN p : k < l /\ p[k] = q[i] /\ p[l] = q[j]
  BY <1>1, LeftIs
<1>3. k = l /\ k \in Nat
  <2>1. DOMAIN p \subseteq Nat
    BY LenProperties
  <2> QED BY <1>1, <1>2, <2>1 DEF Numbered
<1> QED BY <1>2, <1>3

LEMMA LeftTwice ==
    ASSUME NEW q \in Seq(Functions), NEW p \in Seq(Functions), NEW r \in Seq(Functions),
           NEW out, NEW more, NEW all, all = out \cup more, Left(q, p, out), Left(r, q, more)
    PROVE  Left(r, p, all)
<1>0. DOMAIN p \subseteq Nat /\ DOMAIN q \subseteq Nat /\ DOMAIN r \subseteq Nat
  BY LenProperties
<1>1. ASSUME NEW i \in DOMAIN r
      PROVE  \E k \in DOMAIN p : p[k] = r[i] /\ p[k].n \notin all
  <2>1. PICK j \in DOMAIN q : q[j] = r[i] /\ q[j].n \notin more
    BY LeftIs
  <2>2. PICK k \in DOMAIN p : p[k] = q[j] /\ p[k].n \notin out
    BY LeftIs
  <2> QED BY <2>1, <2>2
<1>2. ASSUME NEW k \in DOMAIN p, p[k].n \notin all PROVE \E i \in DOMAIN r : r[i] = p[k]
  <2>1. PICK j \in DOMAIN q : q[j] = p[k]
    BY <1>2, LeftIs
  <2>2. PICK i \in DOMAIN r : r[i] = q[j]
    BY <1>2, <2>1, LeftIs
  <2> QED BY <2>1, <2>2
<1>3. ASSUME NEW i \in DOMAIN r, NEW j \in DOMAIN r, i < j
      PROVE  \E k, l \in DOMAIN p : k < l /\ p[k] = r[i] /\ p[l] = r[j]
  <2>1. PICK s \in DOMAIN q, t \in DOMAIN q : s < t /\ q[s] = r[i] /\ q[t] = r[j]
    BY <1>3, LeftIs
  <2>2. PICK k \in DOMAIN p, l \in DOMAIN p : k < l /\ p[k] = q[s] /\ p[l] = q[t]
    BY <2>1, LeftIs
  <2> QED BY <2>1, <2>2
<1> QED BY <1>1, <1>2, <1>3, LeftIs

\* Nothing is left out of a list that has none of them.
LEMMA LeftAlone ==
    ASSUME NEW q \in Seq(Functions), NEW out, \A i \in DOMAIN q : q[i].n \notin out
    PROVE  Left(q, q, out)
BY LeftIs

\* An element that is removed is left out.
LEMMA LeftRemoved ==
    ASSUME NEW q \in Seq(Functions), Numbered(q), NEW i \in DOMAIN q
    PROVE  RemoveAt(q, i) \in Seq(Functions) /\ Left(RemoveAt(q, i), q, {q[i].n})
<1>1. PICK n \in Nat : n = Len(q) /\ DOMAIN q = 1 .. n
  BY LenProperties
<1>2. PICK r \in Seq(Functions) : r = RemoveAt(q, i) /\ Without(r, q, i)
  BY <1>1, RemoveAtIs
<1>3. DOMAIN r = 1 .. n - 1 /\ \A k \in 1 .. n - 1 : r[k] = IF k < i THEN q[k] ELSE q[k + 1]
  BY <1>1, <1>2, LenProperties DEF Without
<1>4. ASSUME NEW k \in DOMAIN r
      PROVE  \E j \in DOMAIN q : j = (IF k < i THEN k ELSE k + 1) /\ q[j] = r[k] /\ j # i
  <2>1. CASE k < i
    BY <1>1, <1>3, <2>1
  <2>2. CASE ~(k < i)
    BY <1>1, <1>3, <2>2
  <2> QED BY <2>1, <2>2
<1>5. ASSUME NEW k \in DOMAIN r
      PROVE  \E j \in DOMAIN q : q[j] = r[k] /\ q[j].n \notin {q[i].n}
  BY <1>4 DEF Numbered
<1>6. ASSUME NEW j \in DOMAIN q, q[j].n \notin {q[i].n} PROVE \E k \in DOMAIN r : r[k] = q[j]
  <2>1. j # i
    BY <1>6
  <2>2. CASE j < i
    <3>1. j \in 1 .. n - 1
      BY <1>1, <2>2
    <3> QED BY <1>3, <2>2, <3>1
  <2>3. CASE j > i
    <3>1. j - 1 \in 1 .. n - 1 /\ ~(j - 1 < i) /\ (j - 1) + 1 = j
      BY <1>1, <2>3
    <3> QED BY <1>3, <3>1
  <2> QED BY <1>1, <2>1, <2>2, <2>3
<1>7. ASSUME NEW k \in DOMAIN r, NEW l \in DOMAIN r, k < l
      PROVE  \E s, t \in DOMAIN q : s < t /\ q[s] = r[k] /\ q[t] = r[l]
  <2>1. PICK s \in DOMAIN q : s = (IF k < i THEN k ELSE k + 1) /\ q[s] = r[k]
    BY <1>4
  <2>2. PICK t \in DOMAIN q : t = (IF l < i THEN l ELSE l + 1) /\ q[t] = r[l]
    BY <1>4
  <2>3. s < t
    BY <1>1, <1>3, <1>7, <2>1, <2>2
  <2> QED BY <2>1, <2>2, <2>3
<1>8. PICK out : out = {q[i].n}
  OBVIOUS
<1>9. Left(r, q, out)
  BY <1>5, <1>6, <1>7, <1>8, LeftIs
<1> QED BY <1>2, <1>8, <1>9

\* What the instance has of other modules is what this module has.
LEMMA SameCardinality ==
    ASSUME NEW S
    PROVE  Emitter!Cardinality(S) = Cardinality(S)
BY DEF Emitter!Cardinality, Cardinality

LEMMA SameRemoveAt ==
    ASSUME NEW q, NEW i
    PROVE  Emitter!RemoveAt(q, i) = RemoveAt(q, i)
BY DEF Emitter!RemoveAt, RemoveAt

LEMMA SameSetToSeq ==
    ASSUME NEW S
    PROVE  Emitter!SetToSeq(S) = SetToSeq(S)
<1>1. Emitter!Cardinality(S) = Cardinality(S)
  BY SameCardinality
<1> QED BY <1>1 DEF Emitter!SetToSeq, SetToSeq, Emitter!IsInjective, IsInjective

LEMMA Largest ==
    ASSUME NEW b \in Nat, NEW S \in SUBSET (0 .. b), S # {}
    PROVE  Emitter!Max(S) \in S /\ \A m \in S : m <= Emitter!Max(S)
<1> DEFINE T == {b - m : m \in S}
<1>1. T \in SUBSET (0 .. b) /\ T # {}
  <2>1. ASSUME NEW m \in S PROVE b - m \in 0 .. b
    <3>1. m \in 0 .. b
      OBVIOUS
    <3> QED BY <3>1
  <2> QED BY <2>1
<1>2. PICK k \in T : \A m \in T : k <= m
  <2> HIDE DEF T
  <2> QED BY <1>1, Smallest
<1>3. PICK n \in S : k = b - n
  OBVIOUS
<1>4. ASSUME NEW m \in S PROVE n >= m
  <2>1. b - m \in T
    OBVIOUS
  <2>2. b - n <= b - m
    BY <1>2, <1>3, <2>1
  <2> QED BY <2>2
<1>5. \E x \in S : \A y \in S : x >= y
  BY <1>4
<1>6. Emitter!Max(S) \in S /\ \A y \in S : Emitter!Max(S) >= y
  <2>1. Emitter!Max(S) = CHOOSE x \in S : \A y \in S : x >= y
    BY DEF Emitter!Max
  <2> QED BY <1>5, <2>1
<1>7. \A y \in S : y \in Int
  OBVIOUS
<1> QED BY <1>6, <1>7

\* Position i is the last that is meant.
LastOf(q, meant, i) ==
    i \in DOMAIN q /\ q[i] \in meant /\ \A j \in DOMAIN q : q[j] \in meant => j <= i

LEMMA NodeRemovedIs ==
    ASSUME NEW q \in Seq(Functions), NEW meant
    PROVE  /\ Emitter!NodeRemoved(q, meant) \in Seq(Functions)
           /\ \/ /\ Emitter!NodeRemoved(q, meant) = q
                 /\ \A i \in DOMAIN q : q[i] \notin meant
              \/ \E i : /\ LastOf(q, meant, i)
                        /\ Emitter!NodeRemoved(q, meant) = RemoveAt(q, i)
<1> DEFINE at == {i \in DOMAIN q : q[i] \in meant}
<1>1. PICK n \in Nat : n = Len(q) /\ DOMAIN q = 1 .. n
  BY LenProperties
<1>2. Emitter!NodeRemoved(q, meant) = IF at = {} THEN q ELSE RemoveAt(q, Emitter!Max(at))
  BY SameRemoveAt DEF Emitter!NodeRemoved
<1>3. CASE at = {}
  BY <1>2, <1>3
<1>4. CASE at # {}
  <2>1. at \in SUBSET (0 .. n)
    BY <1>1
  <2>2. Emitter!Max(at) \in at /\ \A m \in at : m <= Emitter!Max(at)
    <3> HIDE DEF at
    <3> QED BY <1>4, <2>1, Largest
  <2>3. PICK i \in DOMAIN q : i = Emitter!Max(at) /\ LastOf(q, meant, i)
    BY <2>2 DEF LastOf
  <2>4. RemoveAt(q, i) \in Seq(Functions)
    BY <1>1, RemoveAtIs
  <2> QED BY <1>2, <1>4, <2>3, <2>4
<1> QED BY <1>3, <1>4

\* One function is removed from a list that has it.
LEMMA OneRemoved ==
    ASSUME NEW q \in Seq(Functions), Numbered(q), NEW i \in DOMAIN q
    PROVE  /\ Emitter!NodeRemoved(q, {q[i]}) \in Seq(Functions)
           /\ Left(Emitter!NodeRemoved(q, {q[i]}), q, {q[i].n})
<1>1. PICK meant : meant = {q[i]}
  OBVIOUS
<1>2. PICK j : LastOf(q, meant, j) /\ Emitter!NodeRemoved(q, meant) = RemoveAt(q, j)
  BY <1>1, NodeRemovedIs
<1>3. j \in DOMAIN q /\ q[j] = q[i]
  BY <1>1, <1>2 DEF LastOf
<1>4. RemoveAt(q, j) \in Seq(Functions) /\ Left(RemoveAt(q, j), q, {q[j].n})
  BY <1>3, LeftRemoved
<1> QED BY <1>1, <1>2, <1>3, <1>4

\* Functions are removed one after the other from a list that has them.
LEMMA AllRemoved ==
    ASSUME NEW under, Emitter!Popped(under) = under, list \in Seq(Functions), Numbered(list),
           \A fn \in under : \E i \in DOMAIN list : list[i] = fn,
           NEW itself, Emitter!Removed(under, itself)
    PROVE  \E q \in Seq(Functions) :
                /\ Left(q, list, {fn.n : fn \in under})
                /\ list' = Emitter!NodeRemoved(q, itself) /\ table' = table \ under
                /\ under = {} => q = list
<1> DEFINE fns == SetToSeq(under)
           After(g) == g = [i \in 0 .. Len(fns) |->
                               IF i = 0 THEN list ELSE Emitter!NodeRemoved(g[i - 1], {fns[i]})]
           after == CHOOSE g : After(g)
<1>0. IsFiniteSet(under)
  <2> DEFINE S == {list[i] : i \in DOMAIN list}
  <2>1. PICK m \in Nat : DOMAIN list = 1 .. m /\ m = Len(list)
    BY LenProperties
  <2>2. list \in Seq(S)
    <3>1. list = [i \in 1 .. m |-> list[i]]
      BY <2>1
    <3>2. \A i \in 1 .. m : list[i] \in S
      BY <2>1
    <3> HIDE DEF S
    <3>3. [i \in 1 .. m |-> list[i]] \in Seq(S)
      BY <3>2
    <3> QED BY <3>1, <3>3
  <2>3. IsFiniteSet(S)
    BY <2>1, <2>2 DEF IsFiniteSet
  <2>4. under \subseteq S
    OBVIOUS
  <2> HIDE DEF S
  <2> QED BY <2>3, <2>4, FS_Subset
<1>1. PICK n \in Nat : /\ n = Cardinality(under) /\ fns \in [1 .. n -> under]
                       /\ \A i, j \in 1 .. n : fns[i] = fns[j] => i = j
  BY <1>0, AsSequence
<1> HIDE DEF fns
<1>2. Len(fns) = n
  BY <1>1
<1>3. \A fn \in under : \E i \in 1 .. n : fns[i] = fn
  <2>1. fns \in Injection(1 .. n, under)
    BY <1>1 DEF Injection, IsInjective
  <2>2. Cardinality(1 .. n) = n
    BY FS_Interval
  <2>3. fns \in Surjection(1 .. n, under)
    BY <1>0, <1>1, <2>1, <2>2, FS_Injection
  <2> QED BY <2>3 DEF Surjection
<1>4. PICK V : V = Seq(Functions) /\ list \in V
  OBVIOUS
<1>5. PICK op : Steps(op, n, V)
                /\ \A i \in 1 .. n : \A v \in V : op[i][v] = Emitter!NodeRemoved(v, {fns[i]})
  <2> DEFINE op == [i \in 1 .. n |-> [v \in V |-> Emitter!NodeRemoved(v, {fns[i]})]]
  <2>1. ASSUME NEW i \in 1 .. n, NEW v \in V PROVE Emitter!NodeRemoved(v, {fns[i]}) \in V
    BY <1>4, NodeRemovedIs
  <2>2. ASSUME NEW i \in 1 .. n PROVE [v \in V |-> Emitter!NodeRemoved(v, {fns[i]})] \in [V -> V]
    BY <2>1
  <2>3. op \in [1 .. n -> [V -> V]]
    BY <2>2
  <2>4. \A i \in 1 .. n : \A v \in V : op[i][v] = Emitter!NodeRemoved(v, {fns[i]})
    OBVIOUS
  <2> HIDE DEF op
  <2> QED BY <2>3, <2>4 DEF Steps
<1>6. PICK f : Follows(f, list, op, n, V)
  BY <1>4, <1>5, Recursion
<1>7. \E g : After(g)
  <2>1. ASSUME NEW i \in 1 .. n PROVE f[i] = Emitter!NodeRemoved(f[i - 1], {fns[i]})
    <3>1. i - 1 \in 0 .. n
      OBVIOUS
    <3>2. f[i - 1] \in V /\ f[i] = op[i][f[i - 1]]
      BY <1>6, <3>1 DEF Follows
    <3> QED BY <1>5, <3>2
  <2>2. f = [i \in 0 .. n |-> f[i]] /\ f[0] = list
    BY <1>6 DEF Follows
  <2>3. \A i \in 0 .. n : f[i] = IF i = 0 THEN list ELSE Emitter!NodeRemoved(f[i - 1], {fns[i]})
    <3>1. ASSUME NEW i \in 0 .. n, i # 0 PROVE i \in 1 .. n
      BY <3>1
    <3> QED BY <2>1, <2>2, <3>1
  <2>4. f = [i \in 0 .. n |-> IF i = 0 THEN list ELSE Emitter!NodeRemoved(f[i - 1], {fns[i]})]
    BY <2>2, <2>3
  <2>5. After(f)
    BY <1>2, <2>4
  <2> HIDE DEF After
  <2> QED BY <2>5
<1>8. list' = Emitter!NodeRemoved(after[n], itself) /\ table' = table \ under
  BY <1>2, SameSetToSeq DEF Emitter!Removed, fns
<1>9. After(after)
  <2> HIDE DEF After
  <2> QED BY <1>7
<1>10. after = [i \in 0 .. n |-> IF i = 0 THEN list ELSE Emitter!NodeRemoved(after[i - 1], {fns[i]})]
  BY <1>2, <1>9
<1> HIDE DEF after
<1> DEFINE Before(i) == {fns[j].n : j \in 1 .. i}
           S == {i \in 0 .. n : after[i] \in Seq(Functions) /\ Left(after[i], list, Before(i))}
<1>11. 0 \in S
  <2>1. after[0] = list
    BY <1>10
  <2>2. Left(list, list, Before(0))
    BY LeftAlone
  <2> QED BY <2>1, <2>2
<1>12. under = {} => after[n] = list
  <2>1. Cardinality({}) = 0
    BY FS_EmptySet
  <2>2. under = {} => n = 0
    BY <1>1, <2>1
  <2> QED BY <1>10, <2>2
<1>13. ASSUME NEW i \in 1 .. n, i - 1 \in S PROVE i \in S
  <2>1. after[i] = Emitter!NodeRemoved(after[i - 1], {fns[i]})
    <3>1. i # 0 /\ i \in 0 .. n
      OBVIOUS
    <3> QED BY <1>10, <3>1
  <2>2. PICK q \in Seq(Functions) : q = after[i - 1] /\ Left(q, list, Before(i - 1))
    BY <1>13
  <2>3. PICK k \in DOMAIN list : list[k] = fns[i]
    BY <1>1
  <2>4. list[k].n \notin Before(i - 1)
    <3>1. ASSUME NEW j \in 1 .. i - 1 PROVE fns[j].n # list[k].n
      <4>1. PICK l \in DOMAIN list : list[l] = fns[j]
        BY <1>1
      <4>2. l # k
        BY <1>1, <2>3, <4>1
      <4> QED BY <2>3, <4>1, <4>2 DEF Numbered
    <3> QED BY <3>1
  <2>5. PICK m \in DOMAIN q : q[m] = fns[i]
    <3> HIDE DEF Before
    <3> QED BY <2>2, <2>3, <2>4, LeftIs
  <2>6. Numbered(q)
    <3> HIDE DEF Before
    <3> QED BY <2>2, LeftNumbered
  <2>7. PICK r \in Seq(Functions) : r = after[i] /\ Left(r, q, {fns[i].n})
    BY <2>1, <2>2, <2>5, <2>6, OneRemoved
  <2>8. PICK b, c, d : b = Before(i - 1) /\ c = {fns[i].n} /\ d = Before(i) /\ d = b \cup c
    <3>1. \A j : j \in 1 .. i <=> j \in 1 .. i - 1 \/ j = i
      OBVIOUS
    <3>2. Before(i) = Before(i - 1) \cup {fns[i].n}
      BY <3>1
    <3> HIDE DEF Before
    <3> QED BY <3>2
  <2> HIDE DEF Before
  <2>9. Left(r, list, d)
    BY <2>2, <2>7, <2>8, LeftTwice
  <2>10. Left(after[i], list, Before(i)) /\ after[i] \in Seq(Functions) /\ i \in 0 .. n
    BY <2>7, <2>8, <2>9
  <2> QED BY <2>10
<1> HIDE DEF S
<1>14. \A i \in 0 .. n : i \in S
  BY <1>11, <1>13, Induct
<1>15. after[n] \in Seq(Functions) /\ Left(after[n], list, Before(n))
  <2>1. n \in S
    BY <1>14
  <2> HIDE DEF Before
  <2> QED BY <2>1 DEF S
<1>16. Before(n) = {fn.n : fn \in under}
  BY <1>1, <1>3
<1> HIDE DEF Before
<1> QED BY <1>8, <1>15, <1>16, <1>12

\* What goes with the functions of the table: the last function of the list
\* that is meant as itself, or none.
LastTaken(q, itself, more) ==
    \/ more = {} /\ \A i \in DOMAIN q : q[i] \notin itself
    \/ \E i : LastOf(q, itself, i) /\ more = {q[i].n}

\* What is last in the rest of a list is last in the list.
LEMMA LastTakenLater ==
    ASSUME NEW p \in Seq(Functions), NEW q \in Seq(Functions), NEW out, NEW itself, NEW more,
           Numbered(p), Left(q, p, out), LastTaken(q, itself, more),
           \A k \in DOMAIN p : p[k] \in itself => p[k].n \notin out
    PROVE  LastTaken(p, itself, more)
<1>0. DOMAIN p \subseteq Nat /\ DOMAIN q \subseteq Nat
  BY LenProperties
<1>1. CASE more = {} /\ \A i \in DOMAIN q : q[i] \notin itself
  <2>1. ASSUME NEW k \in DOMAIN p, p[k] \in itself PROVE FALSE
    <3>1. PICK i \in DOMAIN q : q[i] = p[k]
      BY <2>1, LeftIs
    <3> QED BY <1>1, <2>1, <3>1
  <2> QED BY <1>1, <2>1 DEF LastTaken
<1>2. ASSUME NEW j, LastOf(q, itself, j), more = {q[j].n} PROVE LastTaken(p, itself, more)
  <2>1. j \in DOMAIN q /\ q[j] \in itself /\ \A m \in DOMAIN q : q[m] \in itself => m <= j
    BY <1>2 DEF LastOf
  <2>2. PICK i \in DOMAIN p : p[i] = q[j]
    BY <2>1, LeftIs
  <2>3. ASSUME NEW k \in DOMAIN p, p[k] \in itself PROVE k <= i
    <3>1. PICK m \in DOMAIN q : q[m] = p[k]
      BY <2>3, LeftIs
    <3>2. m <= j /\ m \in Nat /\ j \in Nat
      BY <1>0, <2>1, <2>3, <3>1
    <3>3. CASE m = j
      <4>1. k = i
        BY <2>2, <3>1, <3>3 DEF Numbered
      <4> QED BY <1>0, <4>1
    <3>4. CASE m < j
      <4>1. PICK a \in DOMAIN p, b \in DOMAIN p : a < b /\ p[a] = q[m] /\ p[b] = q[j]
        BY <2>1, <3>4, LeftIs
      <4>2. a = k /\ b = i
        BY <2>2, <3>1, <4>1 DEF Numbered
      <4> QED BY <1>0, <4>1, <4>2
    <3> QED BY <3>2, <3>3, <3>4
  <2>4. LastOf(p, itself, i)
    BY <2>1, <2>2, <2>3 DEF LastOf
  <2> QED BY <1>2, <2>2, <2>4 DEF LastTaken
<1> QED BY <1>1, <1>2 DEF LastTaken

\* The functions of a table are in a list.
Has(q, fns) == \A fn \in fns : \E i \in DOMAIN q : q[i] = fn

\* What removeListener does to a list and to a table.
LEMMA RemovedRight ==
    ASSUME NEW under, NEW itself, list \in Seq(Functions), Numbered(list), Has(list, under),
           \A fn \in under : fn \notin itself, Emitter!Removed(under, itself)
    PROVE  \E more : /\ LastTaken(list, itself, more)
                     /\ list' \in Seq(Functions)
                     /\ Left(list', list, {fn.n : fn \in under} \cup more)
                     /\ table' = table \ under
                     /\ under = {} /\ more = {} => list' = list
<1>0. Emitter!Popped(under) = under
  BY DEF Emitter!Popped
<1>1. PICK p \in Seq(Functions) : p = list
  OBVIOUS
<1>2. PICK out : out = {fn.n : fn \in under}
  OBVIOUS
<1>3. \A fn \in under : \E i \in DOMAIN list : list[i] = fn
  BY DEF Has
<1>4. PICK q \in Seq(Functions) : /\ Left(q, p, out)
                                  /\ list' = Emitter!NodeRemoved(q, itself)
                                  /\ table' = table \ under
                                  /\ under = {} => q = p
  <2>1. PICK q \in Seq(Functions) : /\ Left(q, list, {fn.n : fn \in under})
                                    /\ list' = Emitter!NodeRemoved(q, itself)
                                    /\ table' = table \ under
                                    /\ under = {} => q = list
    BY <1>0, <1>3, AllRemoved
  <2> QED BY <1>1, <1>2, <2>1
<1>5. Numbered(p)
  BY <1>1
<1>6. Numbered(q)
  BY <1>4, <1>5, LeftNumbered
<1>7. ASSUME NEW k \in DOMAIN p, p[k] \in itself PROVE p[k].n \notin out
  <2>1. SUFFICES ASSUME NEW fn \in under, fn.n = p[k].n PROVE FALSE
    BY <1>2
  <2>2. PICK i \in DOMAIN p : p[i] = fn
    BY <1>1, <1>3
  <2>3. i = k
    BY <1>5, <2>1, <2>2 DEF Numbered
  <2> QED BY <1>7, <2>2, <2>3
<1>8. ASSUME Emitter!NodeRemoved(q, itself) = q, \A i \in DOMAIN q : q[i] \notin itself
      PROVE  LastTaken(p, itself, {}) /\ Left(list', p, out \cup {}) /\ list' = q
  <2>1. PICK none : none = {}
    OBVIOUS
  <2>2. LastTaken(q, itself, none)
    BY <1>8, <2>1 DEF LastTaken
  <2>3. LastTaken(p, itself, none)
    BY <1>4, <1>5, <1>7, <2>2, LastTakenLater
  <2>4. out \cup {} = out
    OBVIOUS
  <2> QED BY <1>4, <1>8, <2>1, <2>3, <2>4
<1>9. ASSUME NEW i, LastOf(q, itself, i), Emitter!NodeRemoved(q, itself) = RemoveAt(q, i)
      PROVE  \E more : /\ LastTaken(p, itself, more) /\ Left(list', p, out \cup more) /\ more # {}
                       /\ list' \in Seq(Functions)
  <2>1. i \in DOMAIN q
    BY <1>9 DEF LastOf
  <2>2. PICK more : more = {q[i].n}
    OBVIOUS
  <2>3. PICK r \in Seq(Functions) : r = list' /\ Left(r, q, more)
    BY <1>4, <1>6, <1>9, <2>1, <2>2, LeftRemoved
  <2>4. LastTaken(q, itself, more)
    BY <1>9, <2>2 DEF LastTaken
  <2>5. LastTaken(p, itself, more)
    BY <1>4, <1>5, <1>7, <2>4, LastTakenLater
  <2>6. PICK all : all = out \cup more
    OBVIOUS
  <2>7. Left(r, p, all)
    BY <1>4, <2>3, <2>6, LeftTwice
  <2> QED BY <2>2, <2>3, <2>5, <2>6, <2>7
<1>10. CASE Emitter!NodeRemoved(q, itself) = q /\ \A i \in DOMAIN q : q[i] \notin itself
  BY <1>1, <1>2, <1>4, <1>8, <1>10
<1>11. CASE \E i : LastOf(q, itself, i) /\ Emitter!NodeRemoved(q, itself) = RemoveAt(q, i)
  BY <1>1, <1>2, <1>4, <1>9, <1>11
<1> QED BY <1>10, <1>11, NodeRemovedIs

\* The registrations of a list have been made, and two lists that have the
\* same registration have the same function for it.
Earlier(q, m) == \A i \in DOMAIN q : q[i].n <= m

Same(q, p) == \A i \in DOMAIN q : \A j \in DOMAIN p : q[i].n = p[j].n => q[i] = p[j]

\* Functions of a table are bound to a span, and are not spent.
Bound(fns, out) == \A fn \in fns : fn.span # Current /\ fn.n \notin out

EmitterTypes ==
    /\ bound \in {Nobody, Current} \cup ScopeSpan /\ active \in ScopeSpan /\ origin \subseteq ScopeSpan
    /\ made \in Nat /\ spent \subseteq 1 .. made
    /\ list \in Seq(Functions) /\ due \in Seq(Functions)

\* The inductive invariant of the bound emitter.
EInv ==
    /\ EmitterTypes
    /\ Numbered(list) /\ Earlier(list, made)
    /\ Numbered(due) /\ Earlier(due, made) /\ Same(due, list)
    /\ Has(list, table) /\ Bound(table, spent)
    /\ \A s, t \in origin : s = t
    /\ due # <<>> => origin # {}

LEMMA EmitterInit == Emitter!Init => EInv
<1> SUFFICES ASSUME Emitter!Init PROVE EInv
  OBVIOUS
<1> USE DEF Emitter!Init
<1>1. EmitterTypes
  BY DEF EmitterTypes
<1>2. DOMAIN list = {} /\ DOMAIN due = {}
  OBVIOUS
<1>3. Numbered(list) /\ Earlier(list, made) /\ Numbered(due) /\ Earlier(due, made) /\ Same(due, list)
  BY <1>2 DEF Numbered, Earlier, Same
<1>4. Has(list, table) /\ Bound(table, spent)
  BY DEF Has, Bound
<1> QED BY <1>1, <1>3, <1>4 DEF EInv

\* A list that gets longer by one function.
LEMMA Longer ==
    ASSUME NEW p \in Seq(Functions), NEW x \in Functions, NEW q, NEW m \in Nat,
           q = Append(p, x) \/ q = <<x>> \o p, Numbered(p), Earlier(p, m), x.n = m + 1
    PROVE  /\ q \in Seq(Functions) /\ Numbered(q) /\ Earlier(q, m + 1)
           /\ \A i \in DOMAIN q : q[i] = x \/ \E k \in DOMAIN p : p[k] = q[i]
           /\ \A k \in DOMAIN p : \E i \in DOMAIN q : q[i] = p[k]
           /\ \E i \in DOMAIN q : q[i] = x
<1>1. PICK n \in Nat : n = Len(p) /\ DOMAIN p = 1 .. n
  BY LenProperties
<1>2. \A k \in 1 .. n : p[k].n # x.n /\ p[k].n <= m + 1
  <2>1. ASSUME NEW k \in 1 .. n PROVE p[k].n # x.n /\ p[k].n <= m + 1
    <3>1. p[k].n <= m /\ p[k] \in Functions
      BY <1>1 DEF Earlier
    <3>2. p[k].n \in Nat
      BY <3>1 DEF Functions, Emitter!Function
    <3>3. PICK a \in Nat : a = p[k].n
      BY <3>2
    <3> QED BY <3>1, <3>3
  <2> QED BY <2>1
<1>3. x.n <= m + 1
  OBVIOUS
<1>4. CASE q = Append(p, x)
  <2>1. /\ q \in Seq(Functions) /\ DOMAIN q = 1 .. n + 1
        /\ q[n + 1] = x /\ \A k \in 1 .. n : q[k] = p[k]
    BY <1>1, <1>4
  <2>2. \A k : k \in 1 .. n + 1 <=> k \in 1 .. n \/ k = n + 1
    OBVIOUS
  <2>3. Numbered(q)
    BY <1>1, <1>2, <2>1, <2>2 DEF Numbered
  <2>4. Earlier(q, m + 1)
    BY <1>2, <1>3, <2>1, <2>2 DEF Earlier
  <2> QED BY <1>1, <2>1, <2>2, <2>3, <2>4
<1>5. CASE q = <<x>> \o p
  <2>1. /\ q \in Seq(Functions) /\ DOMAIN q = 1 .. n + 1
        /\ q[1] = x /\ \A k \in 1 .. n : q[k + 1] = p[k]
    BY <1>1, <1>5
  <2>2. \A k \in 1 .. n + 1 : k = 1 \/ (k - 1 \in 1 .. n /\ q[k] = p[k - 1])
    <3>1. ASSUME NEW k \in 1 .. n + 1, k # 1 PROVE k - 1 \in 1 .. n /\ q[k] = p[k - 1]
      <4>1. k - 1 \in 1 .. n /\ (k - 1) + 1 = k
        BY <3>1
      <4> QED BY <2>1, <4>1
    <3> QED BY <3>1
  <2>3. \A k \in 1 .. n : k + 1 \in 1 .. n + 1
    OBVIOUS
  <2>4. Numbered(q)
    <3>1. SUFFICES ASSUME NEW i \in 1 .. n + 1, NEW j \in 1 .. n + 1, q[i].n = q[j].n PROVE i = j
      BY <2>1 DEF Numbered
    <3>2. CASE i = 1
      BY <1>2, <2>1, <2>2, <3>1, <3>2
    <3>3. CASE j = 1
      BY <1>2, <2>1, <2>2, <3>1, <3>3
    <3>4. CASE i # 1 /\ j # 1
      <4>1. i - 1 \in DOMAIN p /\ j - 1 \in DOMAIN p /\ p[i - 1].n = p[j - 1].n
        BY <1>1, <2>2, <3>1, <3>4
      <4>2. i - 1 = j - 1
        BY <4>1 DEF Numbered
      <4> QED BY <4>2
    <3> QED BY <3>2, <3>3, <3>4
  <2>5. Earlier(q, m + 1)
    BY <1>2, <1>3, <2>1, <2>2 DEF Earlier
  <2>6. 1 \in DOMAIN q
    BY <2>1
  <2> QED BY <1>1, <2>1, <2>2, <2>3, <2>4, <2>5, <2>6
<1> QED BY <1>4, <1>5

\* A list of which something is left out.
LEMMA Shorter ==
    ASSUME NEW p \in Seq(Functions), NEW q \in Seq(Functions), NEW out, NEW fns, NEW d, NEW m,
           Left(q, p, out), Numbered(p), Earlier(p, m), Same(d, p),
           Has(p, fns), \A fn \in fns : fn.n \notin out
    PROVE  Numbered(q) /\ Earlier(q, m) /\ Same(d, q) /\ Has(q, fns)
<1>1. Numbered(q)
  BY LeftNumbered
<1>2. Earlier(q, m)
  BY LeftIs DEF Earlier
<1>3. Same(d, q)
  BY LeftIs DEF Same
<1>4. ASSUME NEW fn \in fns PROVE \E i \in DOMAIN q : q[i] = fn
  <2>1. PICK k \in DOMAIN p : p[k] = fn
    BY DEF Has
  <2>2. PICK i \in DOMAIN q : q[i] = p[k]
    BY <2>1, LeftIs
  <2> QED BY <2>1, <2>2
<1>5. Has(q, fns)
  BY <1>4 DEF Has
<1> QED BY <1>1, <1>2, <1>3, <1>5

\* What removeListener leaves of the table is what it leaves of the list.
LEMMA RemovedKeeps ==
    ASSUME NEW under \in SUBSET table, NEW itself, EInv, Emitter!Removed(under, itself),
           \A fn \in itself : fn.span = Current
    PROVE  \E more : /\ LastTaken(list, itself, more)
                     /\ list' \in Seq(Functions)
                     /\ Left(list', list, {fn.n : fn \in under} \cup more)
                     /\ table' = table \ under
                     /\ under = {} /\ more = {} => list' = list
                     /\ \A fn \in table' : fn.n \notin {g.n : g \in under} \cup more
                     /\ Numbered(list') /\ Earlier(list', made) /\ Same(due, list')
                     /\ Has(list', table')
<1>1. /\ list \in Seq(Functions) /\ Numbered(list) /\ Has(list, table)
      /\ Earlier(list, made) /\ Same(due, list)
  BY DEF EInv, EmitterTypes
<1>2. \A fn \in table : fn.span # Current
  BY DEF EInv, Bound
<1>3. Has(list, under) /\ \A fn \in under : fn \notin itself
  BY <1>1, <1>2 DEF Has
<1>4. PICK more : /\ LastTaken(list, itself, more)
                  /\ list' \in Seq(Functions)
                  /\ Left(list', list, {fn.n : fn \in under} \cup more)
                  /\ table' = table \ under
                  /\ under = {} /\ more = {} => list' = list
  BY <1>1, <1>3, RemovedRight
<1>5. ASSUME NEW fn \in table' PROVE fn.n \notin {g.n : g \in under} \cup more
  <2>1. fn \in table /\ fn \notin under
    BY <1>4
  <2>2. PICK k \in DOMAIN list : list[k] = fn
    BY <1>1, <2>1 DEF Has
  <2>3. ASSUME NEW g \in under, g.n = fn.n PROVE FALSE
    <3>1. PICK l \in DOMAIN list : list[l] = g
      BY <1>3 DEF Has
    <3>2. l = k
      BY <1>1, <2>2, <2>3, <3>1 DEF Numbered
    <3> QED BY <2>1, <2>2, <3>1, <3>2
  <2>4. ASSUME NEW i, LastOf(list, itself, i), list[i].n = fn.n PROVE FALSE
    <3>1. i \in DOMAIN list /\ list[i] \in itself
      BY <2>4 DEF LastOf
    <3>2. i = k
      BY <1>1, <2>2, <2>4, <3>1 DEF Numbered
    <3> QED BY <1>2, <2>1, <2>2, <3>1, <3>2
  <2> QED BY <1>4, <2>3, <2>4 DEF LastTaken
<1>6. PICK p \in Seq(Functions), q \in Seq(Functions) : p = list /\ q = list'
  BY <1>1, <1>4
<1>7. PICK out, fns, d, m : /\ out = {fn.n : fn \in under} \cup more /\ fns = table'
                            /\ d = due /\ m = made
  OBVIOUS
<1>8. Has(p, fns)
  BY <1>1, <1>4, <1>6, <1>7 DEF Has
<1>9. Left(q, p, out) /\ Numbered(p) /\ Earlier(p, m) /\ Same(d, p)
  BY <1>1, <1>4, <1>6, <1>7
<1>10. \A fn \in fns : fn.n \notin out
  BY <1>5, <1>7
<1>11. Numbered(q) /\ Earlier(q, m) /\ Same(d, q) /\ Has(q, fns)
  BY <1>8, <1>9, <1>10, Shorter
<1> QED BY <1>4, <1>5, <1>6, <1>7, <1>11

\* Each action preserves the invariant and is an action of ListenerList.
LEMMA BindStep ==
    ASSUME EInv, Emitter!BindEmitter
    PROVE  EInv' /\ List!Bind
<1> USE DEF Emitter!BindEmitter
<1>1. EmitterTypes'
  BY DEF EInv, EmitterTypes
<1>2. EInv'
  BY <1>1 DEF EInv, Numbered, Earlier, Same, Has, Bound
<1> QED BY <1>2 DEF List!Bind

LEMMA AddStep ==
    ASSUME EInv, NEW f \in Listener, NEW once \in BOOLEAN,
           NEW where \in {"first", "last"}, Emitter!AddListener(f, once, where)
    PROVE  EInv' /\ \E n \in 1 .. MaxMade : List!Add(f, once, n)
<1> DEFINE wrap == IF bound = Nobody THEN Current ELSE Emitter!SpanOrActive
<1>0. /\ EmitterTypes /\ Numbered(list) /\ Earlier(list, made) /\ Same(due, list)
      /\ Numbered(due) /\ Earlier(due, made) /\ Has(list, table) /\ Bound(table, spent)
  BY DEF EInv
<1>1. made \in Nat /\ made + 1 \in 1 .. MaxMade
  <2>1. made \in Nat /\ made < MaxMade /\ MaxMade \in Nat
    BY <1>0, EmitterAssumption DEF Emitter!AddListener, EmitterTypes
  <2> QED BY <2>1
<1>2. wrap \in ScopeSpan \cup {Current} /\ (bound # Nobody => wrap # Current)
  BY <1>0, EmitterAssumption DEF Emitter!SpanOrActive, EmitterTypes
<1>3. wrap = List!SpanNow
  BY EmitterAssumption DEF List!SpanNow, Emitter!SpanOrActive
<1> HIDE DEF wrap
<1>4. PICK x : x = [n |-> made + 1, of |-> f, once |-> once, span |-> wrap]
  OBVIOUS
<1>5. x \in Functions /\ x.n = made + 1 /\ x.span = wrap /\ x.once = once
  BY <1>1, <1>2, <1>4 DEF Functions, Emitter!Function
<1>6. /\ made' = made + 1
      /\ list' = Append(list, x) \/ list' = <<x>> \o list
      /\ table' = IF bound = Nobody THEN table ELSE table \cup {x}
      /\ UNCHANGED <<bound, due, spent, active, origin>>
  BY <1>4 DEF Emitter!AddListener, wrap
<1>7. PICK q : q = list'
  OBVIOUS
<1>8. PICK p \in Seq(Functions), m \in Nat : p = list /\ m = made
  BY <1>0, <1>1 DEF EmitterTypes
<1>9. /\ q \in Seq(Functions) /\ Numbered(q) /\ Earlier(q, m + 1)
      /\ \A i \in DOMAIN q : q[i] = x \/ \E k \in DOMAIN p : p[k] = q[i]
      /\ \A k \in DOMAIN p : \E i \in DOMAIN q : q[i] = p[k]
      /\ \E i \in DOMAIN q : q[i] = x
  BY <1>0, <1>5, <1>6, <1>8, <1>7, Longer
<1>10. EmitterTypes'
  <2>1. spent \subseteq 1 .. made
    BY <1>0 DEF EmitterTypes
  <2>2. spent \subseteq 1 .. made + 1
    BY <1>1, <2>1
  <2> QED BY <1>0, <1>1, <1>6, <1>8, <1>9, <1>7, <2>2 DEF EmitterTypes
<1>11. \A i \in DOMAIN due : due[i].n # made + 1 /\ due[i].n <= made + 1
  <2>1. ASSUME NEW i \in DOMAIN due PROVE due[i].n # made + 1 /\ due[i].n <= made + 1
    <3>1. due[i] \in Functions /\ due[i].n <= made
      BY <1>0 DEF EmitterTypes, Earlier
    <3>2. PICK a \in Nat, b \in Nat : a = due[i].n /\ b = made
      BY <1>1, <3>1 DEF Functions, Emitter!Function
    <3> QED BY <3>1, <3>2
  <2> QED BY <2>1
<1>12. Earlier(due, made + 1)
  BY <1>11 DEF Earlier
<1>13. Same(due, q)
  BY <1>0, <1>5, <1>8, <1>9, <1>11 DEF Same
<1>14. Has(q, table') /\ Has(q, table)
  BY <1>0, <1>6, <1>8, <1>9 DEF Has
<1>15. made + 1 \notin spent
  <2>1. spent \subseteq 1 .. made
    BY <1>0 DEF EmitterTypes
  <2> QED BY <1>1, <2>1
<1>16. Bound(table', spent)
  BY <1>0, <1>2, <1>5, <1>6, <1>15 DEF Bound
<1>17. EInv'
  <2>1. Numbered(list') /\ Earlier(list', made') /\ Numbered(due') /\ Earlier(due', made')
        /\ Same(due', list') /\ Has(list', table') /\ Bound(table', spent')
    BY <1>0, <1>6, <1>8, <1>9, <1>12, <1>13, <1>14, <1>16, <1>7
  <2>2. (\A s, t \in origin' : s = t) /\ (due' # <<>> => origin' # {})
    BY <1>6 DEF EInv
  <2> QED BY <1>10, <2>1, <2>2 DEF EInv, Numbered, Earlier, Same, Has, Bound
<1>18. \A i \in DOMAIN list : list[i].n # made + 1
  <2>1. ASSUME NEW i \in DOMAIN list PROVE list[i].n # made + 1
    <3>1. list[i] \in Functions /\ list[i].n <= made
      BY <1>0 DEF EmitterTypes, Earlier
    <3>2. PICK a \in Nat, b \in Nat : a = list[i].n /\ b = made
      BY <1>1, <3>1 DEF Functions, Emitter!Function
    <3> QED BY <3>1, <3>2
  <2> QED BY <2>1
<1>19. List!Add(f, once, m + 1)
  <2>1. bound # Nobody /\ ~once =>
            {fn.n : fn \in {fn \in table' : ~fn.once}} = {fn.n : fn \in {fn \in table : ~fn.once}} \cup {made + 1}
    BY <1>5, <1>6
  <2>2. bound = Nobody \/ once =>
            {fn.n : fn \in {fn \in table' : ~fn.once}} = {fn.n : fn \in {fn \in table : ~fn.once}}
    BY <1>5, <1>6
  <2>3. x = [n |-> made + 1, of |-> f, once |-> once, span |-> List!SpanNow]
    BY <1>3, <1>4
  <2> QED BY <1>6, <1>8, <1>18, <2>1, <2>2, <2>3 DEF List!Add
<1>20. m + 1 \in 1 .. MaxMade
  BY <1>1, <1>8
<1> QED BY <1>17, <1>19, <1>20

LEMMA RemoveAllStep ==
    ASSUME EInv, Emitter!RemoveAllListeners
    PROVE  EInv' /\ List!RemoveAll
<1> USE DEF Emitter!RemoveAllListeners, Emitter!Cleared
<1>1. EmitterTypes' /\ DOMAIN (list') = {}
  BY DEF EInv, EmitterTypes
<1>2. EInv'
  BY <1>1 DEF EInv, Numbered, Earlier, Same, Has, Bound
<1> QED BY <1>2 DEF List!RemoveAll

LEMMA RemoveAllEventsStep ==
    ASSUME EInv, Emitter!RemoveAllEvents
    PROVE  EInv' /\ List!RemoveAllEvents
<1> USE DEF Emitter!RemoveAllEvents, Emitter!Cleared
<1>1. EmitterTypes' /\ (DOMAIN (list') = {} \/ list' = list)
  BY DEF EInv, EmitterTypes
<1>2. EInv'
  BY <1>1 DEF EInv, Numbered, Earlier, Same, Has, Bound
<1> QED BY <1>2 DEF List!RemoveAllEvents

LEMMA MoveStep ==
    ASSUME EInv, Emitter!Move
    PROVE  EInv' /\ List!Move
<1> USE DEF Emitter!Move
<1>1. EmitterTypes'
  BY DEF EInv, EmitterTypes
<1>2. EInv'
  BY <1>1 DEF EInv, Numbered, Earlier, Same, Has, Bound
<1> QED BY <1>2 DEF List!Move

LEMMA EmitStep ==
    ASSUME EInv, Emitter!Emit
    PROVE  EInv' /\ List!Emit
<1> USE DEF Emitter!Emit
<1>1. EmitterTypes'
  BY DEF EInv, EmitterTypes
<1>2. EInv'
  BY <1>1 DEF EInv, Numbered, Earlier, Same, Has, Bound
<1> QED BY <1>2 DEF List!Emit

LEMMA DoneStep ==
    ASSUME EInv, Emitter!Done
    PROVE  EInv' /\ List!Done
<1> USE DEF Emitter!Done
<1>1. EmitterTypes' /\ DOMAIN (due') = {}
  BY DEF EInv, EmitterTypes
<1>2. EInv'
  BY <1>1 DEF EInv, Numbered, Earlier, Same, Has, Bound
<1> QED BY <1>2 DEF List!Done

LEMMA RemoveStep ==
    ASSUME EInv, NEW f \in Listener, Emitter!RemoveListener(f)
    PROVE  EInv' /\ List!Remove(f)
<1> DEFINE under  == {fn \in table : fn.of = f /\ ~fn.once}
           itself == {fn \in Emitter!Plain : fn.of = f}
           plain  == {i \in DOMAIN list : list[i].of = f /\ list[i].span = Current}
           known  == {fn.n : fn \in {fn \in table : ~fn.once}}
           taken  == {i \in DOMAIN list : \/ list[i].of = f /\ list[i].n \in known
                                          \/ i \in plain /\ \A j \in plain : j <= i}
           out    == {r.n : r \in {list[i] : i \in taken}}
<1>0. /\ EmitterTypes /\ Numbered(list) /\ Has(list, table) /\ Bound(table, spent)
      /\ Numbered(due) /\ Earlier(due, made) /\ (\A s, t \in origin : s = t)
      /\ (due # <<>> => origin # {})
  BY DEF EInv
<1>1. Emitter!Removed(under, itself) /\ UNCHANGED <<bound, due, spent, active, origin, made>>
  BY DEF Emitter!RemoveListener
<1>2. \A i \in DOMAIN list : list[i] \in itself <=> i \in plain
  BY DEF Emitter!Plain
<1>3. \A fn \in itself : fn.span = Current
  BY DEF Emitter!Plain
<1>4. PICK more : /\ LastTaken(list, itself, more)
                  /\ list' \in Seq(Functions)
                  /\ Left(list', list, {fn.n : fn \in under} \cup more)
                  /\ table' = table \ under
                  /\ under = {} /\ more = {} => list' = list
                  /\ \A fn \in table' : fn.n \notin {g.n : g \in under} \cup more
                  /\ Numbered(list') /\ Earlier(list', made) /\ Same(due, list')
                  /\ Has(list', table')
  <2>1. under \in SUBSET table
    OBVIOUS
  <2> HIDE DEF under, itself
  <2> QED BY <1>1, <1>3, <2>1, RemovedKeeps
<1>5. EInv'
  <2>1. EmitterTypes'
    BY <1>0, <1>1, <1>4 DEF EmitterTypes
  <2>2. Bound(table', spent')
    BY <1>0, <1>1, <1>4 DEF Bound
  <2> HIDE DEF under, itself
  <2> QED BY <1>0, <1>1, <1>4, <2>1, <2>2 DEF EInv, Numbered, Earlier, Same, Has, Bound
<1>6. ASSUME NEW i \in DOMAIN list
      PROVE  list[i].of = f /\ list[i].n \in known <=> \E fn \in under : fn.n = list[i].n
  <2>1. ASSUME NEW fn \in table, fn.n = list[i].n PROVE fn = list[i]
    <3>1. PICK k \in DOMAIN list : list[k] = fn
      BY <1>0 DEF Has
    <3>2. k = i
      BY <1>0, <2>1, <3>1 DEF Numbered
    <3> QED BY <3>1, <3>2
  <2> QED BY <2>1
<1>7. ASSUME NEW i \in DOMAIN list
      PROVE  list[i].n \in more <=> i \in plain /\ \A j \in plain : j <= i
  <2>0. DOMAIN list \subseteq Nat
    BY <1>0, LenProperties DEF EmitterTypes
  <2>1. CASE more = {} /\ \A j \in DOMAIN list : list[j] \notin itself
    BY <1>2, <2>1
  <2>2. ASSUME NEW l, LastOf(list, itself, l), more = {list[l].n}
        PROVE  list[i].n \in more <=> i \in plain /\ \A j \in plain : j <= i
    <3>1. l \in DOMAIN list /\ l \in plain /\ \A j \in DOMAIN list : j \in plain => j <= l
      <4> HIDE DEF itself
      <4> QED BY <1>2, <2>2 DEF LastOf
    <3>2. list[i].n \in more => i = l
      BY <1>0, <2>2, <3>1 DEF Numbered
    <3>3. i \in plain /\ (\A j \in plain : j <= i) => i = l
      <4> HIDE DEF plain
      <4> QED BY <2>0, <3>1
    <3>4. \A j \in plain : j <= l
      BY <3>1
    <3> QED BY <2>2, <3>1, <3>2, <3>3, <3>4
  <2> HIDE DEF itself, plain
  <2> QED BY <1>4, <2>1, <2>2 DEF LastTaken
<1>8. \A x \in more : \E i \in DOMAIN list : list[i].n = x
  BY <1>4 DEF LastTaken, LastOf
<1>9. out = {fn.n : fn \in under} \cup more
  <2>1. \A fn \in under : \E i \in DOMAIN list : list[i].n = fn.n
    BY <1>0 DEF Has
  <2> DEFINE both == {fn.n : fn \in under} \cup more
  <2>2. \A i \in DOMAIN list : i \in taken <=> list[i].n \in both
    BY <1>6, <1>7
  <2>3. \A x \in both : \E i \in DOMAIN list : list[i].n = x
    BY <1>8, <2>1
  <2>4. \A x \in out : \E i \in taken : list[i].n = x
    OBVIOUS
  <2>5. \A i \in taken : i \in DOMAIN list /\ list[i].n \in out
    OBVIOUS
  <2> HIDE DEF both, taken, out
  <2> QED BY <2>2, <2>3, <2>4, <2>5 DEF both
<1>10. {fn.n : fn \in {fn \in table' : ~fn.once}} = known \ out
  <2>1. \A fn \in table' : fn \in table /\ fn.n \notin out
    <3> HIDE DEF out
    <3> QED BY <1>4, <1>9
  <2>2. ASSUME NEW fn \in table, ~fn.once, fn.n \notin out PROVE fn \in table'
    <3>1. fn \notin under
      <4> HIDE DEF under, out
      <4> QED BY <1>9, <2>2
    <3> QED BY <1>4, <3>1
  <2> HIDE DEF out
  <2> QED BY <2>1, <2>2
<1>11. Left(list', list, out)
  <2> HIDE DEF under, out
  <2> QED BY <1>4, <1>9
<1>12. List!Remove(f)
  BY <1>1, <1>10, <1>11 DEF List!Remove, Left
<1> QED BY <1>5, <1>12

LEMMA RunStep ==
    ASSUME EInv, Emitter!Run
    PROVE  EInv' /\ List!Run
<1> DEFINE x == Head(due)
           known(t) == {fn.n : fn \in {fn \in t : ~fn.once}}
<1>0. /\ EmitterTypes /\ Numbered(list) /\ Earlier(list, made) /\ Same(due, list)
      /\ Numbered(due) /\ Earlier(due, made) /\ Has(list, table) /\ Bound(table, spent)
      /\ (\A s, t \in origin : s = t) /\ (due # <<>> => origin # {})
  BY DEF EInv
<1>1. PICK d \in Seq(Functions), n \in Nat : d = due /\ n = Len(d) /\ DOMAIN d = 1 .. n
  BY <1>0, LenProperties DEF EmitterTypes
<1>2. /\ due # <<>> /\ due' = Tail(due) /\ UNCHANGED <<bound, origin, made>>
      /\ IF x.span = Current THEN active' \in origin ELSE active' = x.span
      /\ IF x.once /\ x.n \notin spent
         THEN /\ Emitter!Removed(table \cap {x}, Emitter!Plain \cap {x})
              /\ spent' = spent \cup {x.n}
         ELSE UNCHANGED <<list, table, spent>>
  BY DEF Emitter!Run
<1>3. /\ 1 \in DOMAIN due /\ due[1] = x /\ x \in Functions
      /\ due' \in Seq(Functions) /\ DOMAIN (due') = 1 .. n - 1
      /\ \A i \in 1 .. n - 1 : i + 1 \in DOMAIN due /\ due'[i] = due[i + 1]
  BY <1>1, <1>2
<1>4. Numbered(due') /\ Earlier(due', made) /\ Same(due', list)
  <2>1. Numbered(due')
    <3>1. SUFFICES ASSUME NEW i \in 1 .. n - 1, NEW j \in 1 .. n - 1, due'[i].n = due'[j].n
                   PROVE  i = j
      BY <1>3 DEF Numbered
    <3>2. i + 1 = j + 1
      BY <1>0, <1>3, <3>1 DEF Numbered
    <3> QED BY <3>2
  <2>2. Earlier(due', made)
    BY <1>0, <1>3 DEF Earlier
  <2>3. Same(due', list)
    BY <1>0, <1>3 DEF Same
  <2> QED BY <2>1, <2>2, <2>3
<1>5. active' \in ScopeSpan
  BY <1>0, <1>2, <1>3 DEF EmitterTypes, Functions, Emitter!Function
<1>6. active' = List!Runs(x)
  BY <1>0, <1>2 DEF List!Runs
<1>7. x.n \in 1 .. made
  <2>1. x.n \in 1 .. MaxMade /\ x.n <= made /\ made \in Nat
    BY <1>0, <1>3 DEF EmitterTypes, Functions, Emitter!Function, Earlier
  <2>2. PICK a, b \in Nat : a = x.n /\ b = made
    BY <2>1
  <2> QED BY <2>1, <2>2
<1>8. CASE x.once /\ x.n \notin spent
  <2> DEFINE under == table \cap {x}
             itself == Emitter!Plain \cap {x}
  <2>1. under \in SUBSET table /\ (\A fn \in itself : fn.span = Current) /\ Emitter!Removed(under, itself)
    BY <1>2, <1>8 DEF Emitter!Plain
  <2>2. PICK more : /\ LastTaken(list, itself, more)
                    /\ list' \in Seq(Functions)
                    /\ Left(list', list, {fn.n : fn \in under} \cup more)
                    /\ table' = table \ under
                    /\ under = {} /\ more = {} => list' = list
                    /\ \A fn \in table' : fn.n \notin {g.n : g \in under} \cup more
                    /\ Numbered(list') /\ Earlier(list', made) /\ Same(due, list')
                    /\ Has(list', table')
    <3> HIDE DEF under, itself, x
    <3> QED BY <2>1, RemovedKeeps
  <2>3. spent' = spent \cup {x.n}
    BY <1>2, <1>8
  <2>4. EmitterTypes'
    BY <1>0, <1>2, <1>3, <1>5, <1>7, <2>2, <2>3 DEF EmitterTypes
  <2>5. Same(due', list')
    BY <1>3, <2>2 DEF Same
  <2>6. ASSUME NEW fn \in table' PROVE fn.n # x.n
    <3>1. fn \in table /\ fn # x
      BY <2>2
    <3>2. PICK k \in DOMAIN list : list[k] = fn
      BY <1>0, <3>1 DEF Has
    <3>3. due[1].n = list[k].n => due[1] = list[k]
      BY <1>0, <1>3 DEF Same
    <3> QED BY <1>3, <3>1, <3>2, <3>3
  <2>7. Bound(table', spent')
    BY <1>0, <2>2, <2>3, <2>6 DEF Bound
  <2>8. EInv'
    BY <1>0, <1>2, <1>4, <2>2, <2>4, <2>5, <2>7 DEF EInv, Numbered, Earlier, Same, Has, Bound
  <2>9. more = {} \/ (more = {x.n} /\ x \in itself)
    BY <2>2 DEF LastTaken, LastOf
  <2>10. \A fn \in itself : fn \notin table
    BY <1>0, <2>1 DEF Bound
  <2>11. list' = list \/ Left(list', list, {x.n})
    <3>1. CASE under = {} /\ more = {}
      BY <2>2, <3>1
    <3>2. CASE ~(under = {} /\ more = {})
      <4>1. {fn.n : fn \in under} \cup more = {x.n}
        BY <2>9, <2>10, <3>2
      <4> QED BY <2>2, <4>1
    <3> QED BY <3>1, <3>2
  <2>12. known(table') = known(table)
    BY <1>8, <2>2
  <2> QED BY <1>2, <1>6, <1>8, <2>3, <2>8, <2>11, <2>12 DEF List!Run, Left
<1>9. CASE ~(x.once /\ x.n \notin spent)
  <2>1. list' = list /\ table' = table /\ spent' = spent
    BY <1>2, <1>9
  <2>2. EmitterTypes'
    BY <1>0, <1>2, <1>3, <1>5, <2>1 DEF EmitterTypes
  <2>3. EInv'
    BY <1>0, <1>2, <1>4, <2>1, <2>2 DEF EInv, Numbered, Earlier, Same, Has, Bound
  <2>4. x.once => spent' = spent \cup {x.n}
    BY <1>9, <2>1
  <2> QED BY <1>2, <1>6, <2>1, <2>3, <2>4 DEF List!Run
<1> QED BY <1>8, <1>9

LEMMA EmitterStep ==
    EInv /\ [Emitter!Next]_Emitter!vars => EInv' /\ [List!Next]_List!vars
<1> SUFFICES ASSUME EInv, [Emitter!Next]_Emitter!vars
             PROVE  EInv' /\ [List!Next]_List!vars
  OBVIOUS
<1>1. CASE Emitter!BindEmitter
  BY <1>1, BindStep DEF List!Next
<1>2. CASE Emitter!RemoveAllListeners
  BY <1>2, RemoveAllStep DEF List!Next
<1>3. CASE Emitter!RemoveAllEvents
  BY <1>3, RemoveAllEventsStep DEF List!Next
<1>4. CASE Emitter!Move
  BY <1>4, MoveStep DEF List!Next
<1>5. CASE Emitter!Emit
  BY <1>5, EmitStep DEF List!Next
<1>6. CASE Emitter!Run
  BY <1>6, RunStep DEF List!Next
<1>7. CASE Emitter!Done
  BY <1>7, DoneStep DEF List!Next
<1>8. ASSUME NEW f \in Listener, Emitter!RemoveListener(f)
      PROVE  EInv' /\ List!Next
  BY <1>8, RemoveStep DEF List!Next
<1>9. ASSUME NEW f \in Listener, NEW once \in BOOLEAN, NEW where \in {"first", "last"},
             Emitter!AddListener(f, once, where)
      PROVE  EInv' /\ List!Next
  <2>1. EInv' /\ \E n \in 1 .. MaxMade : List!Add(f, once, n)
    BY <1>9, AddStep
  <2>2. \E o \in BOOLEAN, n \in 1 .. MaxMade : List!Add(f, o, n)
    BY <2>1
  <2> QED BY <2>1, <2>2 DEF List!Next
<1>10. CASE UNCHANGED Emitter!vars
  <2>1. EInv'
    BY <1>10 DEF Emitter!vars, EInv, EmitterTypes, Numbered, Earlier, Same, Has, Bound
  <2> QED BY <1>10, <2>1 DEF Emitter!vars, List!vars
<1> QED BY <1>1, <1>2, <1>3, <1>4, <1>5, <1>6, <1>7, <1>8, <1>9, <1>10 DEF Emitter!Next

LEMMA EmitterAlways == Emitter!Spec => []EInv
BY EmitterInit, EmitterStep, PTL DEF Emitter!Spec

\* The list of Node has each function of the table once, and none of the table
\* is a once function that has run.
THEOREM TablesAlwaysAgree == Emitter!Spec => []TablesAgree
<1>1. EInv => TablesAgree
  <2> SUFFICES ASSUME EInv PROVE TablesAgree
    OBVIOUS
  <2>1. ASSUME NEW fn \in table
        PROVE  Cardinality({i \in DOMAIN list : list[i] = fn}) = 1
    <3>1. PICK k \in DOMAIN list : list[k] = fn
      BY DEF EInv, Has
    <3>2. {i \in DOMAIN list : list[i] = fn} = {k}
      BY <3>1 DEF EInv, Numbered
    <3>3. Cardinality({k}) = 1
      BY FS_Singleton
    <3> QED BY <3>2, <3>3
  <2>2. \A fn \in table : fn.n \notin spent
    BY DEF EInv, Bound
  <2> QED BY <2>1, <2>2 DEF TablesAgree
<1> QED BY <1>1, EmitterAlways, PTL

\* The bound emitter does what ListenerList promises.
THEOREM EmitterActsAsList == Emitter!Spec => ActsAsList
<1>1. Emitter!Init => List!Init
  BY DEF Emitter!Init, List!Init
<1>2. EInv /\ [Emitter!Next]_Emitter!vars => [List!Next]_List!vars
  BY EmitterStep
<1> QED BY <1>1, <1>2, EmitterAlways, PTL DEF Emitter!Spec, ActsAsList, List!Spec
====
