---- MODULE GraphqlExecutionProofs ----
(***************************************************************************)
(* Theorems of GraphqlExecution, for any query, any number of executions   *)
(* that share a context value, and any configuration.                      *)
(***************************************************************************)
EXTENDS GraphqlExecution, SequenceTheorems, FiniteSetTheorems,
        WellFoundedInduction, TLAPS

----------------------------------------------------------------------------
\* The inductive invariant.

\* A resolver that was called has its field, unless that is ignored, and those
\* above it have returned.
Called ==
    \A e \in Exec, f \in Field : results[e][f] # "none" =>
        /\ Ignored(Path(f)) \/ Path(f) \in DOMAIN fields
        /\ \A n \in 1..(Len(f) - 1) : Prefix(f, n) \in Field => results[e][Prefix(f, n)] = "ok"

\* A field was started by a resolver, and has the errors of all its resolvers.
Started ==
    \A p \in DOMAIN fields :
        /\ ~Ignored(p)
        /\ \E e \in Exec, f \in Field : Path(f) = p /\ results[e][f] # "none"
        /\ fields[p].error <=> \E e \in Exec, f \in Field : Path(f) = p /\ results[e][f] = "failed"

\* Spans are finished with the execution that owns them, and how that ended
\* says which resolvers there still are.
Closed ==
    /\ ended # <<>> => owner # 0 /\ exec[owner] \in {"over", "failed", "threw"}
    /\ \A e \in Exec :
        /\ exec[e] = "over"   => \A f \in Field : results[e][f] # "running"
        /\ exec[e] = "failed" => Failed(e)
        /\ exec[e] = "threw"  => \A f \in Field : results[e][f] = "none"

\* A field was added after the one that its span is below.
ParentFirst ==
    \A m \in DOMAIN order :
        \/ fields[order[m]].parent = Top
        \/ \E j \in 1..(m - 1) : order[j] = fields[order[m]].parent

IInv == TypeOK /\ Called /\ Started /\ Closed /\ ParentFirst

\* Items of a list are alike: if one of them has a resolver at some path, then
\* so has each other one that has anything below it.
LikeItems ==
    \A f, g \in Field :
        (/\ Len(f) < Len(g)
         /\ \A i \in 1..Len(f) : f[i] = g[i] \/ {f[i], g[i]} \subseteq Index)
        => Prefix(g, Len(f)) \in Field

----------------------------------------------------------------------------
\* Paths.

\* The keys of a path, and the star of collapsed positions.
Key == STRING \cup {"*"}

\* A set of numbers up to b has a largest: the one from which to b are the
\* fewest.
LEMMA Largest ==
    ASSUME NEW b \in Nat, NEW S \in SUBSET (0..b), S # {}
    PROVE  \E n \in S : \A m \in S : n >= m
<1> DEFINE T == {n..b : n \in S}
<1>1. T \subseteq FiniteSubsetsOf(0..b) /\ T # {}
  <2>1. \A n \in S : n..b \in SUBSET (0..b) /\ IsFiniteSet(n..b)
    BY FS_Interval
  <2> QED BY <2>1 DEF FiniteSubsetsOf
<1>2. PICK X \in T : \A Y \in T : ~ (<<Y, X>> \in StrictSubsetOrdering(0..b))
  <2> HIDE DEF T
  <2> QED BY <1>1, FS_StrictSubsetOrderingWellFounded, WFMin
<1>3. PICK n \in S : X = n..b
  OBVIOUS
<1>4. ASSUME NEW m \in S PROVE n >= m
  <2>1. SUFFICES ASSUME m > n PROVE FALSE
    OBVIOUS
  <2>2. m..b \subseteq n..b /\ n \in (n..b) \ (m..b)
    BY <2>1
  <2>3. m..b \in SUBSET (0..b) /\ n..b \in SUBSET (0..b) /\ m..b # n..b
    BY <2>2
  <2>4. <<m..b, n..b>> \in StrictSubsetOrdering(0..b)
    BY <2>2, <2>3 DEF StrictSubsetOrdering
  <2> QED BY <2>4, <1>2, <1>3
<1> QED BY <1>4

\* The path of a field is a sequence of its length, with stars for positions.
LEMMA PathType ==
    ASSUME NEW f \in Field
    PROVE  /\ f \in Seq(Key) /\ Len(f) \in Nat \ {0}
           /\ Path(f) \in Seq(Key) /\ Len(Path(f)) = Len(f) /\ Path(f) # Top
           /\ \A i \in 1..Len(f) : /\ f[i] \in STRING \ {"*"}
                                   /\ Path(f)[i] = IF collapse /\ f[i] \in Index THEN "*" ELSE f[i]
<1>1. f \in Seq(STRING \ {"*"}) /\ f # <<>>
  BY GraphqlAssumption
<1>2. Len(f) \in Nat /\ DOMAIN f = 1..Len(f) /\ \A i \in 1..Len(f) : f[i] \in STRING \ {"*"}
  BY <1>1, LenProperties, ElementOfSeq
<1>3. Len(f) # 0
  BY <1>1, EmptySeq
<1>4. f \in Seq(Key)
  <2>1. STRING \ {"*"} \subseteq Key
    BY DEF Key
  <2> QED BY <1>1, <2>1, SeqMonotonic
<1>5. Path(f) \in Seq(Key) /\ Len(Path(f)) = Len(f)
      /\ \A i \in 1..Len(f) : Path(f)[i] = IF collapse /\ f[i] \in Index THEN "*" ELSE f[i]
  <2>1. CASE collapse
    <3> DEFINE g == [i \in 1..Len(f) |-> IF f[i] \in Index THEN "*" ELSE f[i]]
    <3>1. Path(f) = g
      BY <2>1, <1>2 DEF Path
    <3>2. \A i \in 1..Len(f) : g[i] \in Key
      BY <1>2 DEF Key
    <3>3. g \in Seq(Key) /\ Len(g) = Len(f)
      BY <3>2, <1>2, IsASeq
    <3> QED BY <3>1, <3>3, <2>1
  <2>2. CASE ~collapse
    BY <2>2, <1>4 DEF Path
  <2> QED BY <2>1, <2>2
<1>6. Path(f) # Top
  BY <1>5, <1>3, <1>2 DEF Top
<1> QED BY <1>1, <1>2, <1>3, <1>4, <1>5, <1>6

\* The beginning of a path.
LEMMA PrefixType ==
    ASSUME NEW p \in Seq(Key), NEW n \in 0..Len(p)
    PROVE  /\ Prefix(p, n) \in Seq(Key) /\ Len(Prefix(p, n)) = n
           /\ \A i \in 1..n : Prefix(p, n)[i] = p[i]
<1>1. Len(p) \in Nat
  BY LenProperties
<1>2. 1 \in 1..(Len(p) + 1) /\ n \in (1 - 1)..Len(p)
  BY <1>1
<1>3. \A i \in 1..(n - 1 + 1) : Prefix(p, n)[i] = p[1 + i - 1]
  BY <1>2, SubSeqProperties DEF Prefix
<1>4. Prefix(p, n) \in Seq(Key) /\ Len(Prefix(p, n)) = n - 1 + 1
  BY <1>2, SubSeqProperties DEF Prefix
<1> QED BY <1>1, <1>3, <1>4

\* getParentField finds the nearest field above, or the execution.
LEMMA AboveIs ==
    ASSUME NEW p \in Seq(Key), p # Top
    PROVE  /\ Above(p) \in DOMAIN fields \cup {Top}
           /\ Len(Above(p)) < Len(p) /\ Above(p) = Prefix(p, Len(Above(p)))
           /\ \A n \in (Len(Above(p)) + 1)..(Len(p) - 1) : Prefix(p, n) \notin DOMAIN fields
<1> DEFINE found == {n \in 1..(Len(p) - 1) : Prefix(p, n) \in DOMAIN fields}
<1>1. Len(p) \in Nat \ {0}
  BY EmptySeq, LenProperties DEF Top
<1>2. CASE found = {}
  <2>1. Above(p) = Top
    BY <1>2 DEF Above
  <2>2. Len(Above(p)) = 0
    BY <2>1 DEF Top
  <2>3. Prefix(p, 0) = Top
    <3>1. Prefix(p, 0) \in Seq(Key) /\ Len(Prefix(p, 0)) = 0
      BY PrefixType, <1>1
    <3> QED BY <3>1, EmptySeq DEF Top
  <2>4. \A n \in (0 + 1)..(Len(p) - 1) : Prefix(p, n) \notin DOMAIN fields
    BY <1>2, <1>1
  <2> QED BY <2>1, <2>2, <2>3, <2>4, <1>1
<1>3. CASE found # {}
  <2>1. found \in SUBSET (0..(Len(p) - 1)) /\ Len(p) - 1 \in Nat
    BY <1>1
  <2>2. \E n \in found : \A m \in found : n >= m
    <3> HIDE DEF found
    <3> QED BY <2>1, <1>3, Largest
  <2> DEFINE top == CHOOSE n \in found : \A m \in found : n >= m
  <2>3. top \in found /\ \A m \in found : top >= m
    <3> HIDE DEF found
    <3> QED BY <2>2
  <2>4. Above(p) = Prefix(p, top)
    BY <1>3 DEF Above
  <2> HIDE DEF top
  <2>5. top \in 1..(Len(p) - 1) /\ Prefix(p, top) \in DOMAIN fields
    BY <2>3
  <2>6. Len(Above(p)) = top
    BY <2>4, <2>5, <1>1, PrefixType
  <2>7. ASSUME NEW n \in (top + 1)..(Len(p) - 1), Prefix(p, n) \in DOMAIN fields
        PROVE  FALSE
    <3>1. n \in found /\ n > top
      BY <2>7, <2>5, <1>1
    <3> QED BY <3>1, <2>3, <2>5, <1>1
  <2> QED BY <2>4, <2>5, <2>6, <2>7, <1>1
<1> QED BY <1>2, <1>3

\* If items are alike, a field that lies above another is that of a resolver
\* which graphql called before.
LEMMA AlikeAbove ==
    ASSUME LikeItems, collapse \in BOOLEAN, NEW f \in Field, NEW g \in Field,
           NEW n \in 1..(Len(Path(g)) - 1), Path(f) = Prefix(Path(g), n)
    PROVE  /\ n \in 1..(Len(g) - 1) /\ Prefix(g, n) \in Field
           /\ Path(Prefix(g, n)) = Path(f)
<1>1. Len(Path(g)) = Len(g) /\ Len(g) \in Nat /\ n \in 1..(Len(g) - 1) /\ n \in 0..Len(g)
  BY PathType
<1>2. Len(f) = n /\ \A i \in 1..n : Path(f)[i] = Path(g)[i]
  <2>1. Path(g) \in Seq(Key) /\ n \in 0..Len(Path(g))
    BY <1>1, PathType
  <2>2. Len(Prefix(Path(g), n)) = n /\ \A i \in 1..n : Prefix(Path(g), n)[i] = Path(g)[i]
    BY <2>1, PrefixType
  <2>3. Len(f) = Len(Path(f))
    BY PathType
  <2> QED BY <2>2, <2>3
<1>3. ASSUME NEW i \in 1..n PROVE f[i] = g[i] \/ {f[i], g[i]} \subseteq Index
  <2>1. i \in 1..Len(f) /\ i \in 1..Len(g)
    BY <1>1, <1>2
  <2> QED BY <2>1, <1>2, PathType
<1>4. Prefix(g, n) \in Field
  BY <1>1, <1>2, <1>3 DEF LikeItems
<1>5. Len(Prefix(g, n)) = n /\ \A i \in 1..n : Prefix(g, n)[i] = g[i]
  BY PathType, PrefixType, <1>1
<1>6. ASSUME NEW i \in 1..n PROVE Path(Prefix(g, n))[i] = Path(f)[i]
  <2>1. i \in 1..Len(g) /\ i \in 1..Len(Prefix(g, n))
    BY <1>1, <1>5
  <2>2. Path(g)[i] = IF collapse /\ g[i] \in Index THEN "*" ELSE g[i]
    BY <2>1, PathType
  <2>3. Path(Prefix(g, n))[i] = IF collapse /\ g[i] \in Index THEN "*" ELSE g[i]
    BY <2>1, <1>4, <1>5, PathType
  <2> QED BY <2>2, <2>3, <1>2
<1>7. Path(Prefix(g, n)) = Path(f)
  <2>1. Path(Prefix(g, n)) \in Seq(Key) /\ Len(Path(Prefix(g, n))) = n
    BY <1>4, <1>5, PathType
  <2>2. Path(f) \in Seq(Key) /\ Len(Path(f)) = n
    BY <1>2, PathType
  <2> QED BY <2>1, <2>2, <1>6, SeqEqual
<1> QED BY <1>1, <1>4, <1>7

----------------------------------------------------------------------------
\* Sequences.

LEMMA AppendFacts ==
    ASSUME NEW S, NEW q \in Seq(S), NEW x
    PROVE  /\ Append(q, x) \in Seq(S \cup {x}) /\ Len(q) \in Nat
           /\ DOMAIN q = 1..Len(q) /\ DOMAIN Append(q, x) = 1..(Len(q) + 1)
           /\ Len(Append(q, x)) = Len(q) + 1 /\ Append(q, x)[Len(q) + 1] = x
           /\ \A i \in 1..Len(q) : Append(q, x)[i] = q[i]
<1>1. q \in Seq(S \cup {x}) /\ x \in S \cup {x}
  BY SeqMonotonic
<1> QED BY <1>1

\* The elements of a sequence stay different if a new one is added.
LEMMA AppendNew ==
    ASSUME NEW S, NEW q \in Seq(S), NEW x, ToSet(q) = S, IsInjective(q), x \notin S
    PROVE  ToSet(Append(q, x)) = S \cup {x} /\ IsInjective(Append(q, x))
<1>1. /\ Len(q) \in Nat /\ DOMAIN q = 1..Len(q) /\ DOMAIN Append(q, x) = 1..(Len(q) + 1)
      /\ Append(q, x)[Len(q) + 1] = x
      /\ \A i \in 1..Len(q) : Append(q, x)[i] = q[i] /\ q[i] \in S
  BY AppendFacts
<1>2. \A i \in 1..(Len(q) + 1) : i \in 1..Len(q) \/ i = Len(q) + 1
  BY <1>1
<1>3. 1..Len(q) \subseteq 1..(Len(q) + 1) /\ Len(q) + 1 \in 1..(Len(q) + 1)
  BY <1>1
<1>4. ToSet(Append(q, x)) = S \cup {x}
  <2>1. \A e : e \in ToSet(Append(q, x)) <=> \E i \in 1..(Len(q) + 1) : e = Append(q, x)[i]
    BY <1>1 DEF ToSet
  <2>2. \A e : e \in S <=> \E i \in 1..Len(q) : e = q[i]
    BY <1>1 DEF ToSet
  <2>3. ASSUME NEW e \in ToSet(Append(q, x)) PROVE e \in S \cup {x}
    <3>1. PICK i \in 1..(Len(q) + 1) : e = Append(q, x)[i]
      BY <2>1, <2>3
    <3> QED BY <3>1, <1>1, <1>2
  <2>4. ASSUME NEW e \in S PROVE e \in ToSet(Append(q, x))
    <3>1. PICK i \in 1..Len(q) : e = q[i]
      BY <2>2, <2>4
    <3> QED BY <3>1, <1>1, <1>3, <2>1
  <2>5. x \in ToSet(Append(q, x))
    BY <1>1, <1>3, <2>1
  <2> QED BY <2>3, <2>4, <2>5
<1>5. ASSUME NEW i \in 1..(Len(q) + 1), NEW j \in 1..(Len(q) + 1),
             Append(q, x)[i] = Append(q, x)[j]
      PROVE  i = j
  BY <1>1, <1>2, <1>5 DEF IsInjective
<1> QED BY <1>1, <1>4, <1>5 DEF IsInjective

LEMMA ReverseFacts ==
    ASSUME NEW S, NEW q \in Seq(S)
    PROVE  /\ Reverse(q) \in Seq(S) /\ Len(Reverse(q)) = Len(q)
           /\ \A i \in 1..Len(q) : Reverse(q)[i] = q[Len(q) - i + 1]
           /\ ToSet(Reverse(q)) = ToSet(q)
<1>1. Len(q) \in Nat /\ DOMAIN q = 1..Len(q) /\ \A i \in 1..Len(q) : q[i] \in S
  OBVIOUS
<1>2. \A i \in 1..Len(q) : Len(q) - i + 1 \in 1..Len(q) /\ Len(q) - (Len(q) - i + 1) + 1 = i
  BY <1>1
<1>3. /\ Reverse(q) \in Seq(S) /\ Len(Reverse(q)) = Len(q)
      /\ DOMAIN Reverse(q) = 1..Len(q)
      /\ \A i \in 1..Len(q) : Reverse(q)[i] = q[Len(q) - i + 1]
  BY <1>1, <1>2 DEF Reverse
<1>4. \A e : (\E i \in 1..Len(q) : e = Reverse(q)[i]) <=> \E i \in 1..Len(q) : e = q[i]
  BY <1>2, <1>3
<1> QED BY <1>1, <1>3, <1>4 DEF ToSet

----------------------------------------------------------------------------
\* What the steps do.

\* What a field that is started is.
NewField(p) == [parent |-> Above(p), timed |-> FALSE, error |-> FALSE]

\* What a resolver comes to, and what is known of it.
Outcomes == {"ok", "failed", "refused"}
Results  == {"none", "running", "ok", "failed", "refused"}

\* The three things that a step does to fields and results; else it does not
\* change them.
LEMMA Steps ==
    ASSUME [Next]_vars
    PROVE  \/ /\ UNCHANGED <<config, fields, results>>
              /\ order' = order
              /\ \/ UNCHANGED <<owner, ended, marked, exec>>
                 \/ \E e \in Exec : Execute(e)
                 \/ \E e \in Exec, how \in {"over", "failed", "threw"} : Finish(e, how)
           \/ \E e \in Exec, f \in Field : Resolve(e, f)
           \/ \E e \in Exec, f \in Field, r \in Outcomes : Settle(e, f, r)
<1>1. CASE \E e \in Exec : Execute(e)
  BY <1>1 DEF Execute
<1>2. CASE \E e \in Exec, how \in {"over", "failed", "threw"} : Finish(e, how)
  BY <1>2 DEF Finish
<1>3. CASE UNCHANGED vars
  BY <1>3 DEF vars
<1> QED BY <1>1, <1>2, <1>3 DEF Next, Outcomes

\* A path, what is ignored and what a field is look at the configuration alone.
LEMMA SameConfig ==
    ASSUME UNCHANGED config
    PROVE  /\ \A f : Path(f)' = Path(f)
           /\ \A p : Ignored(p)' = Ignored(p)
  BY DEF config, Path, Ignored, DepthOf

LEMMA InitInv == Init => IInv
<1> SUFFICES ASSUME Init PROVE IInv
  OBVIOUS
<1>1. DOMAIN fields = {}
  BY DEF Init
<1>2. TypeOK /\ ParentFirst
  <2>1. <<>> \in Seq({}) /\ <<>> \in Seq({} \cup {Top}) /\ DOMAIN <<>> = {}
    OBVIOUS
  <2>2. ToSet(<<>>) = {} /\ IsInjective(<<>>)
    BY <2>1 DEF ToSet, IsInjective
  <2>3. Listed /\ ended \in Seq(DOMAIN fields \cup {Top}) /\ marked \subseteq Finished
    BY <1>1, <2>1, <2>2 DEF Init, Listed
  <2> QED BY <1>1, <2>1, <2>3 DEF Init, TypeOK, ParentFirst
<1>3. \A e \in Exec, f \in Field : results[e][f] = "none"
  BY DEF Init
<1>4. \A e \in Exec : exec[e] = "none"
  BY DEF Init
<1> QED BY <1>1, <1>2, <1>3, <1>4 DEF Init, IInv, Called, Started, Closed

\* A resolver is called, of a field that was not started.
LEMMA ResolveNew ==
    ASSUME IInv, NEW e \in Exec, NEW f \in Field, Resolve(e, f),
           ~Ignored(Path(f)), Path(f) \notin DOMAIN fields
    PROVE  /\ DOMAIN fields' = DOMAIN fields \cup {Path(f)}
           /\ \A q \in DOMAIN fields : fields'[q] = fields[q]
           /\ fields'[Path(f)] = NewField(Path(f))
           /\ order' = Append(order, Path(f))
  BY DEF Resolve, NewField

\* Or else the fields stay as they are.
LEMMA ResolveKnown ==
    ASSUME IInv, NEW e \in Exec, NEW f \in Field, Resolve(e, f),
           Ignored(Path(f)) \/ Path(f) \in DOMAIN fields
    PROVE  fields' = fields /\ order' = order
  BY DEF Resolve

\* A resolver has an outcome; it was called, so that its field is there.
LEMMA SettleKnown ==
    ASSUME IInv, NEW e \in Exec, NEW f \in Field, NEW r \in Outcomes, Settle(e, f, r)
    PROVE  /\ DOMAIN fields' = DOMAIN fields
           /\ \A q \in DOMAIN fields :
                fields'[q] = IF q = Path(f) /\ ~Ignored(q)
                             THEN Updated(fields[q], r = "failed") ELSE fields[q]
  BY DEF Settle

\* The results after a step of one resolver.
LEMMA ResultsType ==
    ASSUME TypeOK, NEW e \in Exec, NEW f \in Field, NEW r \in Results,
           results' = [results EXCEPT ![e][f] = r]
    PROVE  results' \in [Exec -> [Field -> Results]]
  BY DEF TypeOK, Results

LEMMA ResolveResults ==
    ASSUME TypeOK, NEW e \in Exec, NEW f \in Field, Resolve(e, f)
    PROVE  \A d \in Exec, g \in Field :
             results'[d][g] = IF d = e /\ g = f THEN "running" ELSE results[d][g]
<1>1. results' = [results EXCEPT ![e][f] = "running"]
  BY DEF Resolve
<1> QED BY <1>1 DEF TypeOK

LEMMA SettleResults ==
    ASSUME TypeOK, NEW e \in Exec, NEW f \in Field, NEW r \in Outcomes, Settle(e, f, r)
    PROVE  \A d \in Exec, g \in Field :
             results'[d][g] = IF d = e /\ g = f THEN r ELSE results[d][g]
<1>1. results' = [results EXCEPT ![e][f] = r]
  BY DEF Settle
<1> QED BY <1>1 DEF TypeOK

\* The callback of the execution that owns the spans finishes all fields, from
\* the last to the first, and then the span of the execution.
LEMMA FinishIs ==
    ASSUME IInv, NEW e \in Exec, NEW how \in {"over", "failed", "threw"}, Finish(e, how), e = owner
    PROVE  /\ ended' \in Seq(DOMAIN fields \cup {Top}) /\ Len(ended) \in Nat /\ Len(order) \in Nat
           /\ Len(ended') = Len(ended) + Len(order) + 1
           /\ \A i \in 1..Len(ended) : ended'[i] = ended[i]
           /\ \A k \in 1..Len(order) : ended'[Len(ended) + k] = order[Len(order) - k + 1]
           /\ ended'[Len(ended) + Len(order) + 1] = Top
           /\ Finished' = Finished \cup DOMAIN fields \cup {Top}
           /\ marked' = marked \cup {p \in DOMAIN fields : fields[p].error}
                               \cup (IF how = "threw" \/ Failed(e) THEN {Top} ELSE {})
<1> DEFINE S == DOMAIN fields \cup {Top}
           t == Append(Closing, Top)
<1>1. ended \in Seq(S) /\ order \in Seq(DOMAIN fields) /\ ToSet(order) = DOMAIN fields
  BY DEF IInv, TypeOK, Listed
<1>2. /\ Closing \in Seq(DOMAIN fields) /\ Len(Closing) = Len(order)
      /\ \A k \in 1..Len(order) : Closing[k] = order[Len(order) - k + 1]
      /\ ToSet(Closing) = DOMAIN fields
  BY <1>1, ReverseFacts DEF Closing
<1>3. /\ t \in Seq(S) /\ Len(t) = Len(order) + 1 /\ t[Len(order) + 1] = Top
      /\ \A k \in 1..Len(order) : t[k] = order[Len(order) - k + 1]
  BY <1>2, AppendFacts
<1> HIDE DEF S, t
<1>4. ended' = ended \o t
      /\ marked' = marked \cup {p \in DOMAIN fields : fields[p].error}
                          \cup (IF how = "threw" \/ Failed(e) THEN {Top} ELSE {})
  BY <1>2 DEF Finish, t
<1>5. Len(ended) \in Nat /\ DOMAIN ended = 1..Len(ended) /\ Len(order) \in Nat
      /\ DOMAIN order = 1..Len(order)
  BY <1>1
<1>6. /\ ended' \in Seq(S) /\ Len(ended') = Len(ended) + (Len(order) + 1)
      /\ \A i \in 1..(Len(ended) + (Len(order) + 1)) :
            ended'[i] = IF i <= Len(ended) THEN ended[i] ELSE t[i - Len(ended)]
  <2>1. /\ ended \o t \in Seq(S) /\ Len(ended \o t) = Len(ended) + Len(t)
        /\ \A i \in 1..(Len(ended) + Len(t)) :
              (ended \o t)[i] = IF i <= Len(ended) THEN ended[i] ELSE t[i - Len(ended)]
    <3>1. ended \in Seq(S) /\ t \in Seq(S)
      BY <1>1, <1>3
    <3> QED BY ONLY <3>1, ConcatProperties
  <2> QED BY ONLY <2>1, <1>3, <1>4
<1>7. /\ \A i \in 1..Len(ended) : ended'[i] = ended[i]
      /\ ended'[Len(ended) + Len(order) + 1] = Top
  BY <1>3, <1>5, <1>6
<1>8. ASSUME NEW k \in 1..Len(order)
      PROVE  ended'[Len(ended) + k] = order[Len(order) - k + 1]
  <2>1. /\ Len(ended) + k \in 1..(Len(ended) + (Len(order) + 1))
        /\ ~(Len(ended) + k <= Len(ended)) /\ Len(ended) + k - Len(ended) = k
    BY <1>5
  <2>2. PICK i \in 1..(Len(ended) + (Len(order) + 1)) : i = Len(ended) + k
    BY <2>1
  <2>3. ended'[i] = t[i - Len(ended)] /\ i - Len(ended) = k
    BY <2>1, <2>2, <1>6
  <2> QED BY <2>2, <2>3, <1>3
<1>9. Finished' = Finished \cup DOMAIN fields \cup {Top}
  <2>1. DOMAIN ended' = 1..Len(ended')
    BY <1>6
  <2>2. \A x : x \in Finished' <=> \E i \in 1..Len(ended') : x = ended'[i]
    BY <2>1 DEF Finished, ToSet
  <2>3. \A x : x \in Finished <=> \E i \in 1..Len(ended) : x = ended[i]
    BY <1>5 DEF Finished, ToSet
  <2>4. \A x : x \in DOMAIN fields <=> \E m \in 1..Len(order) : x = order[m]
    BY <1>1, <1>5 DEF ToSet
  <2>5. ASSUME NEW x \in Finished' PROVE x \in Finished \cup DOMAIN fields \cup {Top}
    <3>1. PICK i \in 1..Len(ended') : x = ended'[i]
      BY <2>2, <2>5
    <3>2. CASE i <= Len(ended)
      <4>1. i \in 1..Len(ended)
        BY <3>2, <1>5, <1>6
      <4> QED BY <4>1, <3>1, <1>7, <2>3
    <3>3. CASE i = Len(ended) + Len(order) + 1
      BY <3>1, <3>3, <1>7
    <3>4. CASE i > Len(ended) /\ i < Len(ended) + Len(order) + 1
      <4>0. PICK a \in Nat, n \in Nat : a = Len(ended) /\ n = Len(order)
        BY <1>5
      <4>1. PICK k \in 1..n : i = a + k
        <5>1. i \in Nat /\ i > a /\ i < a + n + 1
          BY <3>1, <3>4, <4>0
        <5>2. i - a \in 1..n /\ i = a + (i - a)
          BY <4>0, <5>1
        <5> QED BY <5>2
      <4>2. n - k + 1 \in 1..n
        BY <4>0, <4>1
      <4> QED BY <4>0, <4>1, <4>2, <3>1, <1>8, <2>4
    <3>5. i \in Nat
      BY <3>1
    <3> QED BY <3>2, <3>3, <3>4, <3>5, <1>5, <1>6
  <2>6. ASSUME NEW x \in Finished PROVE x \in Finished'
    <3>1. PICK i \in 1..Len(ended) : x = ended[i]
      BY <2>3, <2>6
    <3>2. i \in 1..Len(ended')
      BY <3>1, <1>5, <1>6
    <3> QED BY <3>1, <3>2, <1>7, <2>2
  <2>7. ASSUME NEW x \in DOMAIN fields PROVE x \in Finished'
    <3>1. PICK m \in 1..Len(order) : x = order[m]
      BY <2>4, <2>7
    <3>2. PICK k \in 1..Len(order) : m = Len(order) - k + 1
      <4>1. Len(order) - m + 1 \in 1..Len(order) /\ m = Len(order) - (Len(order) - m + 1) + 1
        BY <3>1, <1>5
      <4> QED BY <4>1
    <3>3. Len(ended) + k \in 1..Len(ended') /\ ended'[Len(ended) + k] = order[m]
      BY <3>2, <1>5, <1>6, <1>8
    <3> QED BY <3>1, <3>3, <2>2
  <2>8. Top \in Finished'
    <3>1. Len(ended) + Len(order) + 1 \in 1..Len(ended')
      BY <1>5, <1>6
    <3> QED BY <3>1, <1>7, <2>2
  <2> QED BY <2>5, <2>6, <2>7, <2>8
<1> QED BY <1>4, <1>5, <1>6, <1>7, <1>8, <1>9 DEF S

\* An execution that does not own the spans finishes none.
LEMMA FinishOther ==
    ASSUME NEW e, NEW how, Finish(e, how), e # owner
    PROVE  UNCHANGED <<ended, marked>>
  BY DEF Finish

----------------------------------------------------------------------------
\* Each part of the invariant is kept.

LEMMA ListedStep == IInv /\ [Next]_vars => Listed'
<1> SUFFICES ASSUME IInv, [Next]_vars PROVE Listed'
  OBVIOUS
<1>0. Listed
  BY DEF IInv, TypeOK
<1>1. CASE UNCHANGED <<fields, order>>
  BY <1>0, <1>1 DEF Listed
<1>2. ASSUME NEW e \in Exec, NEW f \in Field, Resolve(e, f)
      PROVE  Listed'
  <2>1. CASE Ignored(Path(f)) \/ Path(f) \in DOMAIN fields
    BY <1>0, <1>2, <2>1, ResolveKnown DEF Listed
  <2>2. CASE ~Ignored(Path(f)) /\ Path(f) \notin DOMAIN fields
    <3>1. DOMAIN fields' = DOMAIN fields \cup {Path(f)} /\ order' = Append(order, Path(f))
      BY <1>2, <2>2, ResolveNew
    <3>2. order' \in Seq(DOMAIN fields')
      BY <1>0, <3>1, AppendFacts DEF Listed
    <3>3. ToSet(order') = DOMAIN fields' /\ IsInjective(order')
      BY <1>0, <2>2, <3>1, AppendNew DEF Listed
    <3> QED BY <3>2, <3>3 DEF Listed
  <2> QED BY <2>1, <2>2
<1>3. ASSUME NEW e \in Exec, NEW f \in Field, NEW r \in Outcomes, Settle(e, f, r)
      PROVE  Listed'
  <2>1. DOMAIN fields' = DOMAIN fields /\ order' = order
    BY <1>3, SettleKnown DEF Settle
  <2> QED BY <1>0, <2>1 DEF Listed
<1> QED BY <1>1, <1>2, <1>3, Steps

LEMMA EndedStep ==
    IInv /\ [Next]_vars => ended' \in Seq(DOMAIN fields' \cup {Top}) /\ marked' \subseteq Finished'
<1> SUFFICES ASSUME IInv, [Next]_vars
             PROVE  ended' \in Seq(DOMAIN fields' \cup {Top}) /\ marked' \subseteq Finished'
  OBVIOUS
<1>0. ended \in Seq(DOMAIN fields \cup {Top}) /\ marked \subseteq Finished
  BY DEF IInv, TypeOK
<1>1. CASE UNCHANGED <<ended, marked>>
  <2>1. DOMAIN fields \subseteq DOMAIN fields'
    BY Steps, ResolveNew, ResolveKnown, SettleKnown
  <2>2. ended \in Seq(DOMAIN fields' \cup {Top})
    BY <1>0, <2>1, SeqMonotonic
  <2> QED BY <1>0, <1>1, <2>2 DEF Finished
<1>2. ASSUME NEW e \in Exec, NEW how \in {"over", "failed", "threw"}, Finish(e, how), e = owner
      PROVE  ended' \in Seq(DOMAIN fields' \cup {Top}) /\ marked' \subseteq Finished'
  <2>1. fields' = fields
    BY <1>2 DEF Finish
  <2> QED BY <1>0, <1>2, <2>1, FinishIs
<1>3. UNCHANGED <<ended, marked>>
      \/ \E e \in Exec, how \in {"over", "failed", "threw"} : Finish(e, how) /\ e = owner
  BY Steps, FinishOther DEF Execute, Resolve, Settle
<1> QED BY <1>1, <1>2, <1>3

LEMMA TypeStep == IInv /\ [Next]_vars => TypeOK'
<1> SUFFICES ASSUME IInv, [Next]_vars PROVE TypeOK'
  OBVIOUS
<1>0. TypeOK
  BY DEF IInv
<1>00. Listed' /\ ended' \in Seq(DOMAIN fields' \cup {Top}) /\ marked' \subseteq Finished'
  BY ListedStep, EndedStep
<1>1. CASE UNCHANGED <<config, fields, results, owner, exec>>
  <2>1. UNCHANGED config
    BY <1>1
  <2>2. \A f : Path(f)' = Path(f)
    BY <2>1, SameConfig
  <2> QED BY <1>0, <1>00, <1>1, <2>2 DEF TypeOK, config
<1>2. ASSUME NEW e \in Exec, Execute(e)
      PROVE  TypeOK'
  <2>1. \A f : Path(f)' = Path(f)
    BY <1>2, SameConfig DEF Execute
  <2>2. owner' \in Exec \cup {0} /\ exec' \in [Exec -> {"none", "running", "over", "failed", "threw"}]
    BY <1>0, <1>2 DEF Execute, TypeOK
  <2> QED BY <1>0, <1>00, <1>2, <2>1, <2>2 DEF Execute, TypeOK, config
<1>3. ASSUME NEW e \in Exec, NEW how \in {"over", "failed", "threw"}, Finish(e, how)
      PROVE  TypeOK'
  <2>1. \A f : Path(f)' = Path(f)
    BY <1>3, SameConfig DEF Finish
  <2>2. exec' \in [Exec -> {"none", "running", "over", "failed", "threw"}]
    BY <1>0, <1>3 DEF Finish, TypeOK
  <2> QED BY <1>0, <1>00, <1>3, <2>1, <2>2 DEF Finish, TypeOK, config
<1>4. ASSUME NEW e \in Exec, NEW f \in Field, Resolve(e, f)
      PROVE  TypeOK'
  <2>1. \A g : Path(g)' = Path(g)
    BY <1>4, SameConfig DEF Resolve
  <2>2. results' \in [Exec -> [Field -> Results]]
    BY <1>0, <1>4, ResultsType DEF Resolve, Results
  <2>3. CASE Ignored(Path(f)) \/ Path(f) \in DOMAIN fields
    <3>1. fields' = fields
      BY <1>4, <2>3, ResolveKnown
    <3> QED BY <1>0, <1>00, <1>4, <2>1, <2>2, <3>1 DEF Resolve, TypeOK, Results, config
  <2>4. CASE ~Ignored(Path(f)) /\ Path(f) \notin DOMAIN fields
    <3>1. /\ DOMAIN fields' = DOMAIN fields \cup {Path(f)}
          /\ \A q \in DOMAIN fields : fields'[q] = fields[q]
          /\ fields'[Path(f)] = NewField(Path(f))
      BY <1>4, <2>4, ResolveNew
    <3>2. Above(Path(f)) \in DOMAIN fields \cup {Top}
      BY PathType, AboveIs
    <3>3. ASSUME NEW p \in DOMAIN fields'
          PROVE  fields'[p] \in [parent : DOMAIN fields' \cup {Top}, timed : BOOLEAN, error : BOOLEAN]
      <4>1. CASE p = Path(f)
        <5>1. NewField(Path(f)) \in [parent : DOMAIN fields' \cup {Top}, timed : BOOLEAN,
                                      error : BOOLEAN]
          BY <3>1, <3>2 DEF NewField
        <5> QED BY <3>1, <4>1, <5>1
      <4>2. CASE p \in DOMAIN fields
        <5>1. fields[p] \in [parent : DOMAIN fields \cup {Top}, timed : BOOLEAN, error : BOOLEAN]
          BY <1>0, <4>2 DEF TypeOK
        <5> QED BY <3>1, <4>2, <5>1
      <4> QED BY <3>1, <4>1, <4>2
    <3>4. DOMAIN fields' \subseteq {Path(g) : g \in Field}
      BY <1>0, <3>1 DEF TypeOK
    <3>5. UNCHANGED <<collapse, depth, owner, exec>>
      BY <1>4 DEF Resolve, config
    <3> QED BY <1>0, <1>00, <2>1, <2>2, <3>3, <3>4, <3>5 DEF TypeOK, Results
  <2> QED BY <2>3, <2>4
<1>5. ASSUME NEW e \in Exec, NEW f \in Field, NEW r \in Outcomes, Settle(e, f, r)
      PROVE  TypeOK'
  <2>1. \A g : Path(g)' = Path(g)
    BY <1>5, SameConfig DEF Settle
  <2>2. results' \in [Exec -> [Field -> Results]]
    BY <1>0, <1>5, ResultsType DEF Settle, Results, Outcomes
  <2>3. DOMAIN fields' = DOMAIN fields
        /\ \A q \in DOMAIN fields :
             fields'[q] = IF q = Path(f) /\ ~Ignored(q)
                             THEN Updated(fields[q], r = "failed") ELSE fields[q]
    BY <1>5, SettleKnown
  <2>4. ASSUME NEW q \in DOMAIN fields
        PROVE  fields'[q] \in [parent : DOMAIN fields \cup {Top}, timed : BOOLEAN, error : BOOLEAN]
    <3>1. fields[q] \in [parent : DOMAIN fields \cup {Top}, timed : BOOLEAN, error : BOOLEAN]
      BY <1>0 DEF TypeOK
    <3> QED BY <2>3, <3>1 DEF Updated
  <2> QED BY <1>0, <1>00, <1>5, <2>1, <2>2, <2>3, <2>4 DEF Settle, TypeOK, Results, config
<1> QED BY <1>0, <1>1, <1>2, <1>3, <1>4, <1>5, Steps

LEMMA CalledStep == IInv /\ [Next]_vars => Called'
<1> SUFFICES ASSUME IInv, [Next]_vars PROVE Called'
  OBVIOUS
<1>0. TypeOK /\ Called /\ UNCHANGED config
  <2>1. TypeOK /\ Called
    BY DEF IInv
  <2> QED BY <2>1, Steps DEF Resolve, Settle
<1>1. (\A f : Path(f)' = Path(f)) /\ (\A p : Ignored(p)' = Ignored(p))
  BY <1>0, SameConfig
<1>2. CASE UNCHANGED <<config, fields, results>>
  BY <1>0, <1>1, <1>2 DEF Called
<1>3. ASSUME NEW e \in Exec, NEW f \in Field, Resolve(e, f)
      PROVE  Called'
  <2>1. \A d \in Exec, g \in Field :
          results'[d][g] = IF d = e /\ g = f THEN "running" ELSE results[d][g]
    BY <1>0, <1>3, ResolveResults
  <2>2. results[e][f] = "none"
        /\ \A n \in 1..(Len(f) - 1) : Prefix(f, n) \in Field => results[e][Prefix(f, n)] = "ok"
    BY <1>3 DEF Resolve, MayResolve
  <2>3. DOMAIN fields \subseteq DOMAIN fields' /\ (Ignored(Path(f)) \/ Path(f) \in DOMAIN fields')
    BY <1>3, ResolveNew, ResolveKnown
  <2>4. ASSUME NEW d \in Exec, NEW g \in Field, results'[d][g] # "none"
        PROVE  /\ Ignored(Path(g)) \/ Path(g) \in DOMAIN fields'
               /\ \A n \in 1..(Len(g) - 1) :
                    Prefix(g, n) \in Field => results'[d][Prefix(g, n)] = "ok"
    <3>1. CASE d = e /\ g = f
      BY <3>1, <2>1, <2>2, <2>3
    <3>2. CASE ~(d = e /\ g = f)
      <4>1. results[d][g] # "none"
        BY <3>2, <2>1, <2>4
      <4>2. /\ Ignored(Path(g)) \/ Path(g) \in DOMAIN fields
            /\ \A n \in 1..(Len(g) - 1) : Prefix(g, n) \in Field => results[d][Prefix(g, n)] = "ok"
        BY <4>1, <1>0 DEF Called
      <4> QED BY <4>2, <2>1, <2>2, <2>3
    <3> QED BY <3>1, <3>2
  <2> QED BY <2>4, <1>1 DEF Called
<1>4. ASSUME NEW e \in Exec, NEW f \in Field, NEW r \in Outcomes, Settle(e, f, r)
      PROVE  Called'
  <2>1. \A d \in Exec, g \in Field :
          results'[d][g] = IF d = e /\ g = f THEN r
                           ELSE results[d][g]
    BY <1>0, <1>4, SettleResults
  <2>2. results[e][f] = "running" /\ DOMAIN fields' = DOMAIN fields
    BY <1>4, SettleKnown DEF Settle
  <2> QED BY <2>1, <2>2, <1>0, <1>1 DEF Called
<1> QED BY <1>0, <1>2, <1>3, <1>4, Steps

LEMMA StartedStep == IInv /\ [Next]_vars => Started'
<1> SUFFICES ASSUME IInv, [Next]_vars PROVE Started'
  OBVIOUS
<1>0. TypeOK /\ Called /\ Started /\ UNCHANGED config
  <2>1. TypeOK /\ Called /\ Started
    BY DEF IInv
  <2> QED BY <2>1, Steps DEF Resolve, Settle
<1>1. (\A f : Path(f)' = Path(f)) /\ (\A p : Ignored(p)' = Ignored(p))
  BY <1>0, SameConfig
<1>2. CASE UNCHANGED <<config, fields, results>>
  BY <1>0, <1>1, <1>2 DEF Started
<1>3. ASSUME NEW e \in Exec, NEW f \in Field, Resolve(e, f)
      PROVE  Started'
  <2>1. \A d \in Exec, g \in Field :
          results'[d][g] = IF d = e /\ g = f THEN "running" ELSE results[d][g]
    BY <1>0, <1>3, ResolveResults
  <2>2. results[e][f] = "none"
    BY <1>3 DEF Resolve, MayResolve
  <2>3. \A q : (\E d \in Exec, g \in Field : Path(g) = q /\ results'[d][g] = "failed")
                 <=> \E d \in Exec, g \in Field : Path(g) = q /\ results[d][g] = "failed"
    BY <2>1, <2>2
  <2>4. ASSUME NEW q \in DOMAIN fields, fields'[q] = fields[q]
        PROVE  /\ ~Ignored(q)
               /\ \E d \in Exec, g \in Field : Path(g) = q /\ results'[d][g] # "none"
               /\ fields'[q].error
                    <=> \E d \in Exec, g \in Field : Path(g) = q /\ results'[d][g] = "failed"
    <3>1. /\ ~Ignored(q)
          /\ \E d \in Exec, g \in Field : Path(g) = q /\ results[d][g] # "none"
          /\ fields[q].error
               <=> \E d \in Exec, g \in Field : Path(g) = q /\ results[d][g] = "failed"
      BY <1>0 DEF Started
    <3>2. \E d \in Exec, g \in Field : Path(g) = q /\ results'[d][g] # "none"
      BY <3>1, <2>1
    <3> QED BY <3>1, <3>2, <2>3, <2>4
  <2>5. CASE Ignored(Path(f)) \/ Path(f) \in DOMAIN fields
    <3>1. fields' = fields
      BY <1>3, <2>5, ResolveKnown
    <3> QED BY <3>1, <2>4, <1>1 DEF Started
  <2>6. CASE ~Ignored(Path(f)) /\ Path(f) \notin DOMAIN fields
    <3>1. /\ DOMAIN fields' = DOMAIN fields \cup {Path(f)}
          /\ \A q \in DOMAIN fields : fields'[q] = fields[q]
          /\ fields'[Path(f)] = NewField(Path(f))
      BY <1>3, <2>6, ResolveNew
    <3>2. ~fields'[Path(f)].error
      BY <3>1 DEF NewField
    <3>3. ~ \E d \in Exec, g \in Field : Path(g) = Path(f) /\ results[d][g] = "failed"
      BY <1>0, <2>6 DEF Called
    <3>4. \E d \in Exec, g \in Field : Path(g) = Path(f) /\ results'[d][g] # "none"
      BY <2>1
    <3>5. ASSUME NEW q \in DOMAIN fields'
          PROVE  /\ ~Ignored(q)
                 /\ \E d \in Exec, g \in Field : Path(g) = q /\ results'[d][g] # "none"
                 /\ fields'[q].error
                      <=> \E d \in Exec, g \in Field : Path(g) = q /\ results'[d][g] = "failed"
      <4>1. CASE q = Path(f)
        BY <4>1, <3>2, <3>3, <3>4, <2>3, <2>6
      <4>2. CASE q \in DOMAIN fields
        BY <4>2, <3>1, <2>4
      <4> QED BY <4>1, <4>2, <3>1
    <3> QED BY <3>5, <1>1 DEF Started
  <2> QED BY <2>5, <2>6
<1>4. ASSUME NEW e \in Exec, NEW f \in Field, NEW r \in Outcomes, Settle(e, f, r)
      PROVE  Started'
  <2>1. \A d \in Exec, g \in Field :
          results'[d][g] = IF d = e /\ g = f THEN r
                           ELSE results[d][g]
    BY <1>0, <1>4, SettleResults
  <2>2. results[e][f] = "running"
    BY <1>4 DEF Settle
  <2>3. DOMAIN fields' = DOMAIN fields
        /\ \A q \in DOMAIN fields :
             fields'[q] = IF q = Path(f) /\ ~Ignored(q)
                             THEN Updated(fields[q], r = "failed") ELSE fields[q]
    BY <1>4, SettleKnown
  <2>4. ASSUME NEW q \in DOMAIN fields
        PROVE  /\ ~Ignored(q)
               /\ \E d \in Exec, g \in Field : Path(g) = q /\ results'[d][g] # "none"
               /\ fields'[q].error
                    <=> \E d \in Exec, g \in Field : Path(g) = q /\ results'[d][g] = "failed"
    <3>1. /\ ~Ignored(q)
          /\ \E d \in Exec, g \in Field : Path(g) = q /\ results[d][g] # "none"
          /\ fields[q].error
               <=> \E d \in Exec, g \in Field : Path(g) = q /\ results[d][g] = "failed"
      BY <1>0 DEF Started
    <3>2. \E d \in Exec, g \in Field : Path(g) = q /\ results'[d][g] # "none"
      BY <3>1, <2>1 DEF Outcomes
    <3>3. fields[q] \in [parent : DOMAIN fields \cup {Top}, timed : BOOLEAN, error : BOOLEAN]
      BY <1>0 DEF TypeOK
    <3>4. fields'[q].error <=> fields[q].error \/ (q = Path(f) /\ r = "failed")
      BY <3>1, <3>3, <2>3 DEF Updated
    <3>5. (\E d \in Exec, g \in Field : Path(g) = q /\ results'[d][g] = "failed")
            <=> \/ q = Path(f) /\ r = "failed"
                \/ \E d \in Exec, g \in Field : Path(g) = q /\ results[d][g] = "failed"
      BY <2>1, <2>2
    <3> QED BY <3>1, <3>2, <3>4, <3>5
  <2> QED BY <2>3, <2>4, <1>1 DEF Started
<1> QED BY <1>0, <1>2, <1>3, <1>4, Steps

LEMMA ClosedStep == IInv /\ [Next]_vars => Closed'
<1> SUFFICES ASSUME IInv, [Next]_vars PROVE Closed'
  OBVIOUS
<1>0. TypeOK /\ Closed
  BY DEF IInv
<1>1. CASE UNCHANGED <<results, owner, ended, exec>>
  BY <1>0, <1>1 DEF Closed, Failed
<1>2. ASSUME NEW e \in Exec, Execute(e)
      PROVE  Closed'
  <2>1. exec[e] = "none" /\ UNCHANGED <<results, ended>>
        /\ \A d \in Exec : exec'[d] = IF d = e THEN "running" ELSE exec[d]
    BY <1>0, <1>2 DEF Execute, TypeOK
  <2>2. ended # <<>> => owner # 0 /\ owner' = owner /\ owner \in Exec /\ owner # e
    BY <1>0, <1>2, <2>1 DEF Execute, Closed, TypeOK
  <2> QED BY <1>0, <2>1, <2>2 DEF Closed, Failed
<1>3. ASSUME NEW e \in Exec, NEW how \in {"over", "failed", "threw"}, Finish(e, how)
      PROVE  Closed'
  <2>1. HasResult(e, how) /\ UNCHANGED <<owner, results>>
        /\ \A d \in Exec : exec'[d] = IF d = e THEN how ELSE exec[d]
    BY <1>0, <1>3 DEF Finish, TypeOK
  <2>2. /\ how = "over"   => \A f \in Field : results[e][f] # "running"
        /\ how = "failed" => Failed(e)
        /\ how = "threw"  => \A f \in Field : results[e][f] = "none"
    BY <2>1 DEF HasResult
  <2>3. ended' # <<>> => owner # 0 /\ exec'[owner] \in {"over", "failed", "threw"}
    <3>1. CASE e = owner
      <4>1. owner # 0
        BY <3>1 DEF Exec
      <4> QED BY <3>1, <4>1, <2>1
    <3>2. CASE e # owner
      <4>1. ended' = ended /\ owner \in Exec \cup {0}
        BY <1>0, <1>3, <3>2, FinishOther DEF TypeOK
      <4> QED BY <3>2, <4>1, <2>1, <1>0 DEF Closed
    <3> QED BY <3>1, <3>2
  <2> QED BY <1>0, <2>1, <2>2, <2>3 DEF Closed, Failed
<1>4. ASSUME NEW e \in Exec, NEW f \in Field, Resolve(e, f)
      PROVE  Closed'
  <2>1. \A d \in Exec, g \in Field :
          results'[d][g] = IF d = e /\ g = f THEN "running" ELSE results[d][g]
    BY <1>0, <1>4, ResolveResults
  <2>2. results[e][f] = "none" /\ exec[e] \in {"running", "failed"}
        /\ UNCHANGED <<owner, exec, ended>>
    BY <1>4 DEF Resolve, MayResolve
  <2> QED BY <1>0, <2>1, <2>2 DEF Closed, Failed
<1>5. ASSUME NEW e \in Exec, NEW f \in Field, NEW r \in Outcomes, Settle(e, f, r)
      PROVE  Closed'
  <2>1. \A d \in Exec, g \in Field :
          results'[d][g] = IF d = e /\ g = f THEN r
                           ELSE results[d][g]
    BY <1>0, <1>5, SettleResults
  <2>2. results[e][f] = "running" /\ UNCHANGED <<owner, exec, ended>>
    BY <1>5 DEF Settle
  <2> QED BY <1>0, <2>1, <2>2 DEF Closed, Failed
<1> QED BY <1>0, <1>1, <1>2, <1>3, <1>4, <1>5, Steps

LEMMA ParentStep == IInv /\ [Next]_vars => ParentFirst'
<1> SUFFICES ASSUME IInv, [Next]_vars PROVE ParentFirst'
  OBVIOUS
<1>0. /\ ParentFirst /\ order \in Seq(DOMAIN fields) /\ ToSet(order) = DOMAIN fields
      /\ Len(order) \in Nat /\ DOMAIN order = 1..Len(order)
      /\ \A m \in DOMAIN order : order[m] \in DOMAIN fields
  <2>1. ParentFirst /\ order \in Seq(DOMAIN fields) /\ ToSet(order) = DOMAIN fields
    BY DEF IInv, TypeOK, Listed
  <2> QED BY <2>1
<1>1. CASE UNCHANGED <<fields, order>>
  BY <1>0, <1>1 DEF ParentFirst
<1>2. ASSUME NEW e \in Exec, NEW f \in Field, Resolve(e, f)
      PROVE  ParentFirst'
  <2>1. CASE Ignored(Path(f)) \/ Path(f) \in DOMAIN fields
    BY <1>0, <1>2, <2>1, ResolveKnown DEF ParentFirst
  <2>2. CASE ~Ignored(Path(f)) /\ Path(f) \notin DOMAIN fields
    <3>1. /\ \A q \in DOMAIN fields : fields'[q] = fields[q]
          /\ fields'[Path(f)] = NewField(Path(f))
          /\ order' = Append(order, Path(f))
      BY <1>2, <2>2, ResolveNew
    <3>10. fields'[Path(f)].parent = Above(Path(f))
      BY <3>1 DEF NewField
    <3>2. /\ DOMAIN order' = 1..(Len(order) + 1) /\ order'[Len(order) + 1] = Path(f)
          /\ \A i \in 1..Len(order) : order'[i] = order[i]
      BY <1>0, <3>1, AppendFacts
    <3>3. Above(Path(f)) = Top \/ \E j \in 1..Len(order) : order[j] = Above(Path(f))
      <4>1. Above(Path(f)) \in DOMAIN fields \cup {Top}
        BY PathType, AboveIs
      <4> QED BY <4>1, <1>0 DEF ToSet
    <3>4. ASSUME NEW m \in 1..(Len(order) + 1)
          PROVE  \/ fields'[order'[m]].parent = Top
                 \/ \E j \in 1..(m - 1) : order'[j] = fields'[order'[m]].parent
      <4>1. CASE m = Len(order) + 1
        <5>1. m - 1 = Len(order) /\ fields'[order'[m]].parent = Above(Path(f))
          BY <1>0, <3>1, <3>10, <3>2, <4>1
        <5> QED BY <5>1, <3>2, <3>3
      <4>2. CASE m \in 1..Len(order)
        <5>1. order'[m] = order[m] /\ fields'[order[m]] = fields[order[m]]
          BY <1>0, <3>1, <3>2, <4>2
        <5>2. \A j \in 1..(m - 1) : order'[j] = order[j]
          <6>1. \A j \in 1..(m - 1) : j \in 1..Len(order)
            BY <1>0, <4>2
          <6> QED BY <6>1, <3>2
        <5>3. \/ fields[order[m]].parent = Top
              \/ \E j \in 1..(m - 1) : order[j] = fields[order[m]].parent
          BY <1>0, <4>2 DEF ParentFirst
        <5> QED BY <5>1, <5>2, <5>3
      <4> QED BY <1>0, <4>1, <4>2
    <3> QED BY <3>2, <3>4 DEF ParentFirst
  <2> QED BY <2>1, <2>2
<1>3. ASSUME NEW e \in Exec, NEW f \in Field, NEW r \in Outcomes, Settle(e, f, r)
      PROVE  ParentFirst'
  <2>1. \A q \in DOMAIN fields : fields'[q].parent = fields[q].parent
    <3>1. ASSUME NEW q \in DOMAIN fields PROVE fields'[q].parent = fields[q].parent
      <4>1. fields[q] \in [parent : DOMAIN fields \cup {Top}, timed : BOOLEAN, error : BOOLEAN]
        BY DEF IInv, TypeOK
      <4> QED BY <1>3, <4>1, SettleKnown DEF Updated
    <3> QED BY <3>1
  <2>2. order' = order
    BY <1>3 DEF Settle
  <2> QED BY <1>0, <2>1, <2>2 DEF ParentFirst
<1> QED BY <1>1, <1>2, <1>3, Steps

\* The invariant holds of every behaviour.
LEMMA Inductive == Spec => []IInv
<1>1. IInv /\ [Next]_vars => IInv'
  BY TypeStep, CalledStep, StartedStep, ClosedStep, ParentStep DEF IInv
<1> QED BY InitInv, <1>1, PTL DEF Spec

----------------------------------------------------------------------------
\* The properties.

\* Every variable keeps its type, and only spans that were started are finished.
THEOREM TypeCorrect == Spec => []TypeOK
<1>1. IInv => TypeOK
  BY DEF IInv
<1> QED BY Inductive, <1>1, PTL

\* The parent of a field is the nearest one above it.
Nearest(p) ==
    LET above == fields[p].parent IN
    /\ Len(above) < Len(p) /\ above = Prefix(p, Len(above))
    /\ \A n \in (Len(above) + 1)..(Len(p) - 1) : Prefix(p, n) \notin DOMAIN fields

LEMMA FollowsStep == LikeItems /\ IInv /\ FollowsQuery /\ [Next]_vars => FollowsQuery'
<1> SUFFICES ASSUME LikeItems, IInv, FollowsQuery, [Next]_vars
             PROVE  FollowsQuery'
  OBVIOUS
<1>0. TypeOK' /\ \A p \in DOMAIN fields : Nearest(p)
  BY TypeStep DEF FollowsQuery, Nearest
<1> SUFFICES \A p \in DOMAIN fields' : Nearest(p)'
  BY <1>0 DEF FollowsQuery, Nearest
<1>1. CASE UNCHANGED <<config, fields, results>>
  BY <1>0, <1>1 DEF Nearest
<1>2. ASSUME NEW e \in Exec, NEW f \in Field, NEW r \in Outcomes, Settle(e, f, r)
      PROVE  \A p \in DOMAIN fields' : Nearest(p)'
  <2>1. DOMAIN fields' = DOMAIN fields
        /\ \A q \in DOMAIN fields :
             fields'[q] = IF q = Path(f) /\ ~Ignored(q)
                             THEN Updated(fields[q], r = "failed") ELSE fields[q]
    BY <1>2, SettleKnown
  <2>2. ASSUME NEW q \in DOMAIN fields PROVE fields'[q].parent = fields[q].parent
    <3>1. fields[q] \in [parent : DOMAIN fields \cup {Top}, timed : BOOLEAN, error : BOOLEAN]
      BY DEF FollowsQuery, TypeOK
    <3> QED BY <2>1, <3>1 DEF Updated
  <2> QED BY <2>1, <2>2, <1>0 DEF Nearest
<1>3. ASSUME NEW e \in Exec, NEW f \in Field, Resolve(e, f)
      PROVE  \A p \in DOMAIN fields' : Nearest(p)'
  <2>1. CASE Ignored(Path(f)) \/ Path(f) \in DOMAIN fields
    <3>1. fields' = fields
      BY <1>3, <2>1, ResolveKnown
    <3> QED BY <1>0, <3>1 DEF Nearest
  <2>2. CASE ~Ignored(Path(f)) /\ Path(f) \notin DOMAIN fields
    <3>1. /\ DOMAIN fields' = DOMAIN fields \cup {Path(f)}
          /\ \A q \in DOMAIN fields : fields'[q] = fields[q]
          /\ fields'[Path(f)] = NewField(Path(f))
      BY <1>3, <2>2, ResolveNew
    <3>2. ASSUME NEW p, p = Path(f) PROVE Nearest(p)'
      <4>1. fields'[Path(f)].parent = Above(Path(f))
        BY <3>1 DEF NewField
      <4>2. /\ Len(Above(Path(f))) < Len(Path(f))
            /\ Above(Path(f)) = Prefix(Path(f), Len(Above(Path(f))))
            /\ \A n \in (Len(Above(Path(f))) + 1)..(Len(Path(f)) - 1) :
                 Prefix(Path(f), n) \notin DOMAIN fields
        BY PathType, AboveIs
      <4>3. ASSUME NEW n \in (Len(Above(Path(f))) + 1)..(Len(Path(f)) - 1)
            PROVE  Prefix(Path(f), n) # Path(f)
        <5>1. Len(Path(f)) \in Nat /\ Path(f) \in Seq(Key) /\ Len(Above(Path(f))) \in Nat
          <6>1. Above(Path(f)) \in {Path(g) : g \in Field} \cup {Top}
            BY PathType, AboveIs DEF IInv, TypeOK
          <6> QED BY <6>1, PathType DEF Top
        <5>2. n \in 0..Len(Path(f)) /\ n < Len(Path(f))
          BY <5>1
        <5> QED BY <5>1, <5>2, PrefixType
      <4> QED BY <4>1, <4>2, <4>3, <3>1, <3>2 DEF Nearest
    \* Nothing that was started lies below: graphql would have called the
    \* resolver of f, or one like it, before.
    <3>3. ASSUME NEW q \in DOMAIN fields PROVE Nearest(q)'
      <4>1. Nearest(q) /\ fields'[q] = fields[q]
        BY <1>0, <3>1
      <4>2. PICK d \in Exec, g \in Field : Path(g) = q /\ results[d][g] # "none"
        BY DEF IInv, Started
      <4>3. Len(q) \in Nat /\ Len(fields[q].parent) \in Nat
        <5>1. q \in {Path(h) : h \in Field} /\ fields[q].parent \in {Path(h) : h \in Field} \cup {Top}
          BY DEF IInv, TypeOK
        <5> QED BY <5>1, PathType DEF Top
      <4>4. ASSUME NEW n \in (Len(fields[q].parent) + 1)..(Len(q) - 1)
            PROVE  Prefix(q, n) # Path(f)
        <5> SUFFICES ASSUME Prefix(q, n) = Path(f) PROVE FALSE
          OBVIOUS
        <5>1. n \in 1..(Len(Path(g)) - 1) /\ Path(f) = Prefix(Path(g), n)
          BY <4>2, <4>3
        <5>2. collapse \in BOOLEAN
          BY DEF IInv, TypeOK
        <5>3. /\ n \in 1..(Len(g) - 1) /\ Prefix(g, n) \in Field
              /\ Path(Prefix(g, n)) = Path(f)
          BY <5>1, <5>2, AlikeAbove
        <5>4. results[d][Prefix(g, n)] = "ok"
          BY <4>2, <5>3 DEF IInv, Called
        <5>5. Ignored(Path(f)) \/ Path(f) \in DOMAIN fields
          BY <5>3, <5>4 DEF IInv, Called
        <5> QED BY <5>5, <2>2
      <4> QED BY <4>1, <4>4, <3>1 DEF Nearest
    <3> QED BY <3>1, <3>2, <3>3
  <2> QED BY <2>1, <2>2
<1> QED BY <1>1, <1>2, <1>3, Steps DEF FollowsQuery

\* The spans follow the query, in whatever order the resolvers are called: a
\* field never comes after one below it, if the items of lists are alike.
THEOREM TreeOfTheQuery == ASSUME LikeItems PROVE Spec => []FollowsQuery
<1>1. Init => FollowsQuery
  <2> SUFFICES ASSUME Init PROVE FollowsQuery
    OBVIOUS
  <2>1. TypeOK /\ DOMAIN fields = {}
    BY InitInv DEF IInv, Init
  <2> QED BY <2>1 DEF FollowsQuery
<1>2. LikeItems
  OBVIOUS
<1>3. IInv /\ FollowsQuery /\ [Next]_vars => FollowsQuery'
  BY <1>2, FollowsStep
<1> QED BY Inductive, <1>1, <1>3, PTL DEF Spec

\* The resolvers of an execution that has not failed run in a span that is
\* open, for what finishes the spans waits for them.
THEOREM OpenWhileRunning == Spec => []RunsInOpenSpan
<1>1. IInv => RunsInOpenSpan
  <2> SUFFICES ASSUME IInv, NEW f \in Field, owner # 0, results[owner][f] = "running",
                      ~Failed(owner)
               PROVE  SpanOf(Path(f)) \in (DOMAIN fields \cup {Top}) \ Finished
    BY DEF RunsInOpenSpan
  <2>1. owner \in Exec
    BY DEF IInv, TypeOK
  <2>2. Finished = {}
    <3>1. ended = <<>>
      BY <2>1 DEF IInv, Closed
    <3> QED BY <3>1 DEF Finished, ToSet
  <2>3. SpanOf(Path(f)) \in DOMAIN fields \cup {Top}
    <3>1. CASE Ignored(Path(f))
      <4>1. Above(Path(f)) \in DOMAIN fields \cup {Top}
        BY PathType, AboveIs
      <4> QED BY <3>1, <4>1 DEF SpanOf
    <3>2. CASE ~Ignored(Path(f))
      <4>1. Path(f) \in DOMAIN fields
        BY <2>1, <3>2 DEF IInv, Called
      <4> QED BY <3>2, <4>1 DEF SpanOf
    <3> QED BY <3>1, <3>2
  <2> QED BY <2>2, <2>3
<1> QED BY Inductive, <1>1, PTL

\* What finishes a span is the callback of the execution that owns the spans.
LEMMA OwnerFinishes ==
    ASSUME IInv, [Next]_vars, ended' # ended
    PROVE  /\ \E e \in Exec, how \in {"over", "failed", "threw"} : Finish(e, how) /\ e = owner
           /\ UNCHANGED results /\ \A p : Path(p)' = Path(p)
<1>1. PICK e \in Exec, how \in {"over", "failed", "threw"} : Finish(e, how)
  BY Steps DEF Resolve, Settle, Execute
<1>2. e = owner /\ UNCHANGED <<results, config>>
  BY <1>1, FinishOther DEF Finish
<1> QED BY <1>1, <1>2, SameConfig

\* The calls of finish() go from the fields below to those above, and to the
\* execution in the end: a field comes after the one above it in the object,
\* and they are finished from the last to the first.
THEOREM FinishedTogether == Spec => NestedFields
<1>1. IInv /\ [Next]_vars =>
        [\A i \in (Len(ended) + 1)..Len(ended') : \A p \in DOMAIN fields :
           fields[p].parent = ended'[i] => \E j \in 1..(i - 1) : ended'[j] = p]_vars
  <2> SUFFICES ASSUME IInv, [Next]_vars, NEW i \in (Len(ended) + 1)..Len(ended'),
                      NEW p \in DOMAIN fields, fields[p].parent = ended'[i]
               PROVE  \E j \in 1..(i - 1) : ended'[j] = p
    OBVIOUS
  <2>1. Len(ended) \in Nat
    BY DEF IInv, TypeOK
  <2>2. ended' # ended
    BY <2>1
  <2>3. PICK e \in Exec, how \in {"over", "failed", "threw"} : Finish(e, how) /\ e = owner
    BY <2>2, OwnerFinishes
  <2>4. /\ Len(order) \in Nat /\ Len(ended') = Len(ended) + Len(order) + 1
        /\ \A k \in 1..Len(order) : ended'[Len(ended) + k] = order[Len(order) - k + 1]
        /\ ended'[Len(ended) + Len(order) + 1] = Top
    BY <2>3, FinishIs
  <2>5. /\ ToSet(order) = DOMAIN fields /\ IsInjective(order) /\ DOMAIN order = 1..Len(order)
        /\ Top \notin DOMAIN fields /\ ParentFirst
    <3>1. order \in Seq(DOMAIN fields) /\ ToSet(order) = DOMAIN fields /\ IsInjective(order)
      BY DEF IInv, TypeOK, Listed
    <3>2. Top \notin DOMAIN fields
      BY PathType DEF IInv, TypeOK
    <3> QED BY <3>1, <3>2 DEF IInv
  <2>6. PICK a \in Nat, n \in Nat : a = Len(ended) /\ n = Len(order)
    BY <2>1, <2>4
  <2>7. PICK m \in 1..n : order[m] = p
    BY <2>5, <2>6 DEF ToSet
  <2>8. ended'[a + (n - m + 1)] = p
    <3>1. n - m + 1 \in 1..n /\ n - (n - m + 1) + 1 = m
      BY <2>6, <2>7
    <3> QED BY <3>1, <2>4, <2>6, <2>7
  <2>9. n - m + 1 < i - a
    <3>1. i \in (a + 1)..(a + n + 1)
      BY <2>4, <2>6
    <3>2. CASE i = a + n + 1
      BY <2>6, <2>7, <3>2
    <3>3. CASE i # a + n + 1
      <4>1. PICK k \in 1..n : i = a + k
        <5>1. i - a \in 1..n /\ i = a + (i - a)
          BY <2>6, <3>1, <3>3
        <5> QED BY <5>1
      <4>2. n - k + 1 \in 1..n /\ ended'[i] = order[n - k + 1]
        BY <2>4, <2>6, <4>1
      <4>3. order[n - k + 1] \in DOMAIN fields
        BY <2>5, <2>6, <4>2 DEF ToSet
      <4>4. PICK j \in 1..(m - 1) : order[j] = order[n - k + 1]
        BY <2>5, <2>6, <2>7, <4>2, <4>3 DEF ParentFirst
      <4>5. j \in 1..n
        BY <2>6, <2>7, <4>4
      <4>6. j = n - k + 1
        BY <2>5, <2>6, <4>2, <4>4, <4>5 DEF IsInjective
      <4> QED BY <2>6, <2>7, <4>1, <4>4, <4>6
    <3> QED BY <3>2, <3>3
  <2>10. a + (n - m + 1) \in 1..(i - 1)
    BY <2>6, <2>7, <2>9
  <2> QED BY <2>8, <2>10
<1> QED BY Inductive, <1>1, PTL DEF Spec, NestedFields

\* A field has an error exactly if one of its resolvers had thrown one.
THEOREM ErrorsAreKept == Spec => ErrorsShow
<1>1. IInv /\ [Next]_vars =>
        [\A p \in (Finished' \ Finished) \ {Top} :
           p \in marked' <=> \E e \in Exec, f \in Field : Path(f) = p /\ results[e][f] = "failed"]_vars
  <2> SUFFICES ASSUME IInv, [Next]_vars, NEW p \in (Finished' \ Finished) \ {Top}
               PROVE  p \in marked'
                        <=> \E e \in Exec, f \in Field : Path(f) = p /\ results[e][f] = "failed"
    OBVIOUS
  <2>1. ended' # ended
    BY DEF Finished
  <2>2. PICK e \in Exec, how \in {"over", "failed", "threw"} : Finish(e, how) /\ e = owner
    BY <2>1, OwnerFinishes
  <2>3. /\ Finished' = Finished \cup DOMAIN fields \cup {Top}
        /\ marked' = marked \cup {q \in DOMAIN fields : fields[q].error}
                            \cup (IF how = "threw" \/ Failed(e) THEN {Top} ELSE {})
    BY <2>2, FinishIs
  <2>4. marked \subseteq Finished
    BY DEF IInv, TypeOK
  <2>5. p \in DOMAIN fields /\ p \notin Finished /\ p # Top
    BY <2>3
  <2>6. p \in marked' <=> fields[p].error
    BY <2>3, <2>4, <2>5
  <2> QED BY <2>5, <2>6 DEF IInv, Started
<1> QED BY Inductive, <1>1, PTL DEF Spec, ErrorsShow
====
