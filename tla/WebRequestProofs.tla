---- MODULE WebRequestProofs ----
(***************************************************************************)
(* The spans of a request, for any calls of any layers.                    *)
(***************************************************************************)
EXTENDS WebRequest, FiniteSetTheorems, SequenceTheorems, TLAPS

----------------------------------------------------------------------------
\* Sequences.

LEMMA AppendFacts ==
    ASSUME NEW S, NEW q \in Seq(S), NEW e \in S
    PROVE  /\ Append(q, e) \in Seq(S) /\ Len(q) \in Nat
           /\ Len(Append(q, e)) = Len(q) + 1 /\ Append(q, e)[Len(q) + 1] = e
           /\ DOMAIN q = 1 .. Len(q) /\ DOMAIN Append(q, e) = 1 .. Len(q) + 1
           /\ \A i \in 1 .. Len(q) : Append(q, e)[i] = q[i]
           /\ q # <<>> => Last(q) = q[Len(q)] /\ Len(q) > 0 /\ Last(q) \in S
BY DEF Last

LEMMA FrontFacts ==
    ASSUME NEW S, NEW q \in Seq(S), q # <<>>
    PROVE  /\ Front(q) \in Seq(S) /\ Len(q) \in Nat /\ Len(q) > 0
           /\ Len(Front(q)) = Len(q) - 1
           /\ DOMAIN q = 1 .. Len(q) /\ DOMAIN Front(q) = 1 .. Len(q) - 1
           /\ \A i \in 1 .. Len(q) - 1 : Front(q)[i] = q[i]
           /\ Last(q) = q[Len(q)] /\ Last(q) \in S
<1>1. Len(q) \in Nat /\ Len(q) > 0 /\ DOMAIN q = 1 .. Len(q)
  OBVIOUS
<1>2. /\ Front(q) \in Seq(S) /\ Len(Front(q)) = Len(q) - 1
      /\ \A i \in 1 .. Len(q) - 1 : Front(q)[i] = q[i]
  BY <1>1 DEF Front
<1>3. DOMAIN Front(q) = 1 .. Len(Front(q))
  BY <1>2
<1>4. Last(q) = q[Len(q)] /\ Last(q) \in S
  BY <1>1 DEF Last
<1> QED BY <1>1, <1>2, <1>3, <1>4

LEMMA RemoveAtFacts ==
    ASSUME NEW S, NEW q \in Seq(S), NEW i \in 1 .. Len(q)
    PROVE  /\ RemoveAt(q, i) \in Seq(S)
           /\ \A e : Contains(q, e) /\ e # q[i] => Contains(RemoveAt(q, i), e)
<1>1. i \in Int /\ Len(q) \in Nat /\ i >= 1 /\ i <= Len(q)
  OBVIOUS
<1> DEFINE a == SubSeq(q, 1, i - 1)
           b == SubSeq(q, i + 1, Len(q))
<1>2. /\ a \in Seq(S) /\ Len(a) = i - 1 /\ \A j \in 1 .. i - 1 : a[j] = q[j]
  BY <1>1
<1>3. /\ b \in Seq(S) /\ Len(b) = Len(q) - i
      /\ \A j \in 1 .. Len(q) - i : b[j] = q[i + j]
  BY <1>1
<1> HIDE DEF a, b
<1>4. /\ a \o b \in Seq(S) /\ Len(a \o b) = Len(a) + Len(b)
      /\ \A k \in 1 .. Len(a) + Len(b) :
             (a \o b)[k] = IF k <= Len(a) THEN a[k] ELSE b[k - Len(a)]
  BY <1>2, <1>3, ConcatProperties
<1>5. ASSUME NEW j \in 1 .. Len(q), j # i
      PROVE  \E k \in 1 .. Len(a \o b) : (a \o b)[k] = q[j]
  <2>1. CASE j < i
    <3>1. j \in 1 .. i - 1 /\ j \in 1 .. Len(a) + Len(b) /\ j <= Len(a)
      BY <1>1, <1>2, <1>3, <2>1
    <3>2. (a \o b)[j] = a[j] /\ a[j] = q[j]
      BY <1>2, <1>4, <3>1
    <3> QED BY <1>4, <3>1, <3>2
  <2>2. CASE j > i
    <3>1. /\ j - i \in 1 .. Len(q) - i /\ i + (j - i) = j
          /\ j - 1 \in 1 .. Len(a) + Len(b) /\ ~(j - 1 <= Len(a))
          /\ (j - 1) - Len(a) = j - i
      BY <1>1, <1>2, <1>3, <2>2
    <3>2. (a \o b)[j - 1] = b[j - i] /\ b[j - i] = q[j]
      BY <1>3, <1>4, <3>1
    <3> QED BY <1>4, <3>1, <3>2
  <2> QED BY <1>1, <1>5, <2>1, <2>2
<1>6. RemoveAt(q, i) = a \o b
  BY DEF RemoveAt, a, b
<1> QED BY <1>4, <1>5, <1>6 DEF Contains

----------------------------------------------------------------------------
\* The inductive invariant: each span of the stack is the parent of the next,
\* a call with a span is not new, and no other span was finished.
Stacked ==
    \A i \in DOMAIN middleware :
        parent[middleware[i]] = IF i = 1 THEN Root ELSE middleware[i - 1]

Known ==
    /\ \A c \in traced : c \in done \/ Contains(running, c)
    /\ ended \subseteq traced \cup {Root}

Enough == Len(middleware) <= Cardinality(Unended)

IInv == TypeOK /\ Stacked /\ Known /\ Enough

LEMMA InitInv == Init => IInv
<1> SUFFICES ASSUME Init PROVE IInv
  OBVIOUS
<1>1. /\ <<>> \in Seq(Call) /\ <<>> \in Seq(Mounted)
      /\ Len(<<>>) = 0 /\ DOMAIN <<>> = {}
  OBVIOUS
<1>2. IsInjective(<<>>) /\ ToSet(<<>>) = {}
  BY <1>1 DEF IsInjective, ToSet
<1>3. TypeOK
  BY <1>1, <1>2 DEF Init, TypeOK, Spans
<1>4. Unended = {} /\ Cardinality({}) = 0
  BY FS_EmptySet DEF Init, Unended
<1>5. Enough
  BY <1>1, <1>4 DEF Init, Enough
<1>6. Stacked
  BY <1>1 DEF Init, Stacked
<1> QED BY <1>3, <1>5, <1>6 DEF Init, IInv, Known

\* The set of the calls that run is finite, and it loses what one call takes.
LEMMA OneLess ==
    ASSUME NEW R \in SUBSET Call, NEW T \in SUBSET Call, NEW c, T \ {c} \subseteq R
    PROVE  /\ Cardinality(R) \in Nat /\ Cardinality(T) \in Nat
           /\ Cardinality(T) - 1 <= Cardinality(R)
           /\ c \notin T => Cardinality(T) <= Cardinality(R)
<1>1. IsFiniteSet(R) /\ IsFiniteSet(T)
  BY WebAssumption, FS_Subset
<1>2. IsFiniteSet(T \ {c}) /\ Cardinality(T \ {c}) <= Cardinality(R)
  BY <1>1, FS_Subset
<1>3. Cardinality(T \ {c}) = IF c \in T THEN Cardinality(T) - 1 ELSE Cardinality(T)
  BY <1>1, FS_RemoveElement
<1>4. Cardinality(R) \in Nat /\ Cardinality(T) \in Nat
  BY <1>1, FS_CardinalityType
<1> QED BY <1>2, <1>3, <1>4

----------------------------------------------------------------------------
\* The paths.

LEMMA PathsEnter ==
    ASSUME TypeOK, NEW c \in Call
    PROVE  Entered(c) \in Seq(Mounted)
<1>1. CASE c \notin Mounted \/ ~instrumented
  BY <1>1 DEF TypeOK, Entered
<1>2. CASE c \in Mounted /\ instrumented
  <2> DEFINE p == IF koa /\ paths # <<>> THEN Front(paths) ELSE paths
  <2>1. p \in Seq(Mounted)
    BY FrontFacts DEF TypeOK
  <2>2. Entered(c) = Append(p, c)
    BY <1>2 DEF Entered
  <2> HIDE DEF p
  <2> QED BY <1>2, <2>1, <2>2, AppendFacts
<1> QED BY <1>1, <1>2

LEMMA PathsLeave ==
    ASSUME TypeOK, NEW c \in Call, NEW error \in BOOLEAN, Leave(c, error)
    PROVE  paths' \in Seq(Mounted)
<1>1. paths # <<>> => Front(paths) \in Seq(Mounted)
  BY FrontFacts DEF TypeOK
<1> QED BY <1>1 DEF TypeOK, Leave

LEMMA MatchedType ==
    ASSUME TypeOK, NEW c \in Call
    PROVE  Matched(c) \subseteq Mounted
BY DEF TypeOK, Matched

----------------------------------------------------------------------------
\* The stack under the steps that change it.

\* A call that is new has no span, so it is not on the stack.
LEMMA Pushed ==
    ASSUME IInv, NEW c \in Call, Handle(c), instrumented
    PROVE  TypeOK' /\ Stacked'
<1>1. c \notin traced /\ c \notin ended
  BY WebAssumption DEF IInv, Known, Handle, New
<1>2. middleware \in Seq(Call) /\ middleware' = Append(middleware, c)
  BY DEF IInv, TypeOK, Handle
<1> DEFINE n == Len(middleware)
<1>3. /\ middleware' \in Seq(Call) /\ n \in Nat /\ DOMAIN middleware = 1 .. n
      /\ DOMAIN middleware' = 1 .. n + 1 /\ middleware'[n + 1] = c
      /\ \A i \in 1 .. n : middleware'[i] = middleware[i]
  BY <1>2, AppendFacts
<1>4. Active \in Spans /\ Active = IF n = 0 THEN Root ELSE middleware[n]
  <2>1. CASE middleware = <<>>
    BY <2>1 DEF Active, Spans
  <2>2. CASE middleware # <<>>
    BY <1>2, <2>2, AppendFacts DEF Active, Spans
  <2> QED BY <2>1, <2>2
<1> HIDE DEF n
<1>5. \A i \in 1 .. n : middleware[i] \in traced \ ended /\ middleware[i] # c
  BY <1>1, <1>3 DEF IInv, TypeOK, ToSet
<1>6. /\ parent' \in [Call -> Spans] /\ parent'[c] = Active
      /\ \A d \in Call : d # c => parent'[d] = parent[d]
  BY <1>4 DEF IInv, TypeOK, Handle
<1>7. IsInjective(middleware')
  <2>1. \A i, j \in 1 .. n : middleware[i] = middleware[j] => i = j
    BY <1>3 DEF IInv, TypeOK, IsInjective
  <2>2. SUFFICES ASSUME NEW i \in 1 .. n + 1, NEW j \in 1 .. n + 1,
                        middleware'[i] = middleware'[j]
                 PROVE  i = j
    BY <1>3 DEF IsInjective
  <2>3. \A k \in 1 .. n + 1 : k = n + 1 \/ k \in 1 .. n
    BY <1>3
  <2> QED BY <1>3, <1>5, <2>1, <2>2, <2>3
<1>8. ToSet(middleware') = traced' \ ended'
  <2>1. \A k \in 1 .. n + 1 : k = n + 1 \/ k \in 1 .. n
    BY <1>3
  <2>2. n + 1 \in 1 .. n + 1 /\ \A k \in 1 .. n : k \in 1 .. n + 1
    BY <1>3
  <2>3. {middleware'[k] : k \in 1 .. n + 1} = {middleware[k] : k \in 1 .. n} \cup {c}
    BY <1>3, <2>1, <2>2
  <2>4. {middleware[k] : k \in 1 .. n} = traced \ ended
    BY <1>3 DEF IInv, TypeOK, ToSet
  <2> QED BY <1>1, <1>3, <2>3, <2>4 DEF Handle, ToSet
<1>9. running' \in Seq(Call) /\ paths' \in Seq(Mounted)
  <2>1. running' \in Seq(Call)
    BY AppendFacts DEF IInv, TypeOK, Handle
  <2>2. paths' \in Seq(Mounted)
    BY PathsEnter DEF IInv, Handle
  <2> QED BY <2>1, <2>2
<1>10. TypeOK'
  BY <1>3, <1>6, <1>7, <1>8, <1>9, MatchedType DEF IInv, TypeOK, Handle, history
<1>11. Stacked'
  <2>1. SUFFICES ASSUME NEW i \in 1 .. n + 1
                 PROVE  parent'[middleware'[i]] =
                            IF i = 1 THEN Root ELSE middleware'[i - 1]
    BY <1>3 DEF Stacked
  <2>2. CASE i = n + 1
    BY <1>3, <1>4, <1>6, <2>2
  <2>3. CASE i # n + 1
    <3>1. i \in 1 .. n /\ (i # 1 => i - 1 \in 1 .. n)
      BY <1>3, <2>1, <2>3
    <3>2. parent[middleware[i]] = IF i = 1 THEN Root ELSE middleware[i - 1]
      BY <1>3, <3>1 DEF IInv, Stacked
    <3>3. middleware[i] \in Call /\ parent'[middleware[i]] = parent[middleware[i]]
      BY <1>5, <1>6, <3>1 DEF IInv, TypeOK
    <3> QED BY <1>3, <3>1, <3>2, <3>3
  <2> QED BY <2>2, <2>3
<1> QED BY <1>10, <1>11
\* The span that is finished is the last one of the stack.
LEMMA Popped ==
    ASSUME IInv, Finish, UNCHANGED <<traced, parent>>
    PROVE  /\ middleware' \in Seq(Call) /\ IsInjective(middleware')
           /\ ToSet(middleware') = traced' \ ended'
           /\ Stacked' /\ ended' \subseteq traced' \cup {Root}
           /\ Len(middleware') \in Nat /\ Len(middleware) \in Nat
           /\ Len(middleware') = IF middleware = <<>> THEN 0 ELSE Len(middleware) - 1
<1>1. middleware \in Seq(Call)
  BY DEF IInv, TypeOK
<1>2. CASE middleware = <<>>
  <2>1. UNCHANGED <<middleware, ended, traced, parent>>
    BY <1>2 DEF Finish
  <2>2. Len(<<>>) = 0
    OBVIOUS
  <2> QED BY <1>2, <2>1, <2>2 DEF IInv, TypeOK, Stacked, Known
<1>3. CASE middleware # <<>>
  <2> DEFINE n == Len(middleware)
  <2>1. /\ middleware' = Front(middleware)
        /\ ended' = ended \cup {Last(middleware)}
    BY <1>3 DEF Finish
  <2>2. /\ middleware' \in Seq(Call) /\ n \in Nat /\ n > 0 /\ Len(middleware') = n - 1
        /\ DOMAIN middleware = 1 .. n /\ DOMAIN middleware' = 1 .. n - 1
        /\ \A i \in 1 .. n - 1 : middleware'[i] = middleware[i]
        /\ Last(middleware) = middleware[n]
    BY <1>1, <1>3, <2>1, FrontFacts
  <2> HIDE DEF n
  <2>3. /\ \A i \in 1 .. n - 1 : i \in 1 .. n /\ i # n
        /\ \A i \in 1 .. n : i = n \/ i \in 1 .. n - 1
        /\ n \in 1 .. n
    BY <2>2
  <2>4. \A i, j \in 1 .. n : middleware[i] = middleware[j] => i = j
    BY <2>2 DEF IInv, TypeOK, IsInjective
  <2>5. {middleware[i] : i \in 1 .. n} = traced \ ended
    BY <2>2 DEF IInv, TypeOK, ToSet
  <2>6. IsInjective(middleware')
    BY <2>2, <2>3, <2>4 DEF IsInjective
  <2>7. {middleware'[i] : i \in 1 .. n - 1} =
            {middleware[i] : i \in 1 .. n} \ {middleware[n]}
    BY <2>2, <2>3, <2>4
  <2>8. ToSet(middleware') = traced' \ ended'
    BY <2>1, <2>2, <2>5, <2>7 DEF ToSet
  <2>9. Stacked'
    <3>1. SUFFICES ASSUME NEW i \in 1 .. n - 1
                   PROVE  parent[middleware'[i]] =
                              IF i = 1 THEN Root ELSE middleware'[i - 1]
      BY <2>2 DEF Stacked
    <3>2. i \in 1 .. n /\ (i # 1 => i - 1 \in 1 .. n - 1)
      BY <2>2, <3>1
    <3>3. parent[middleware[i]] = IF i = 1 THEN Root ELSE middleware[i - 1]
      BY <2>2, <3>2 DEF IInv, Stacked
    <3> QED BY <2>2, <3>2, <3>3
  <2>10. ended' \subseteq traced' \cup {Root}
    BY <2>1, <2>2, <2>3, <2>5 DEF IInv, Known
  <2> QED BY <1>3, <2>2, <2>6, <2>8, <2>9, <2>10 DEF n, Known
<1> QED BY <1>2, <1>3

\* The end of the response takes all of the stack.
LEMMA EndInv ==
    ASSUME IInv, NEW fails \in BOOLEAN, End(fails)
    PROVE  IInv'
<1>1. /\ <<>> \in Seq(Call) /\ Len(<<>>) = 0 /\ DOMAIN <<>> = {}
  OBVIOUS
<1>2. /\ middleware' = <<>>
      /\ UNCHANGED <<koa, instrumented, paths, parent, calls, matched, orderly, thrown, stray>>
      /\ finished' \in BOOLEAN
      /\ taken' = taken \cup (traced \ ended)
      /\ Closed \subseteq ended' /\ ended' \subseteq Closed \cup {Root}
  BY DEF IInv, TypeOK, End
<1>3. Closed = ended \cup (traced \ ended)
  BY DEF IInv, TypeOK, Closed
<1>4. traced' \ ended' = {} /\ ended' \subseteq traced' \cup {Root} /\ ended \subseteq ended'
  BY <1>2, <1>3 DEF IInv, Known, calls
<1>5. IsInjective(<<>>) /\ ToSet(<<>>) = {}
  BY <1>1 DEF IsInjective, ToSet
<1>6. taken' \subseteq traced' \cap ended'
  BY <1>2, <1>4 DEF IInv, TypeOK, calls
<1>7. TypeOK'
  BY <1>1, <1>2, <1>4, <1>5, <1>6 DEF IInv, TypeOK, calls
<1>8. Stacked'
  BY <1>1, <1>2 DEF Stacked
<1>9. Known'
  BY <1>2, <1>4 DEF IInv, Known, calls
<1>10. Enough'
  <2>1. Unended' \in SUBSET Call
    BY <1>2 DEF IInv, TypeOK, Unended, calls
  <2>2. Cardinality(Unended') \in Nat
    BY <2>1, OneLess
  <2> QED BY <1>1, <1>2, <2>2 DEF Enough
<1> QED BY <1>7, <1>8, <1>9, <1>10 DEF IInv
----------------------------------------------------------------------------
\* The invariant, action by action.

LEMMA HandleInv ==
    ASSUME IInv, NEW c \in Call, Handle(c)
    PROVE  IInv'
<1>1. /\ c \notin traced /\ c \notin Unended
      /\ c \notin taken /\ c \notin thrown
      /\ Unended \in SUBSET Call /\ running \in Seq(Call)
  BY DEF IInv, TypeOK, Known, Handle, New, Unended
<1>2. \A d : Contains(running', d) <=> d = c \/ Contains(running, d)
  <2>1. /\ Len(running) \in Nat /\ Len(running') = Len(running) + 1
        /\ running'[Len(running) + 1] = c
        /\ \A i \in 1 .. Len(running) : running'[i] = running[i]
    BY <1>1, AppendFacts DEF Handle
  <2>2. /\ \A i \in 1 .. Len(running) + 1 : i = Len(running) + 1 \/ i \in 1 .. Len(running)
        /\ \A i \in 1 .. Len(running) : i \in 1 .. Len(running) + 1
        /\ Len(running) + 1 \in 1 .. Len(running) + 1
    BY <2>1
  <2> QED BY <2>1, <2>2 DEF Contains
<1>3. Known'
  BY <1>2 DEF IInv, Known, Handle
<1>4. CASE instrumented
  <2>1. Unended' = Unended \cup {c}
    BY <1>1, <1>2, <1>4 DEF Handle, Unended, history
  <2>2. Cardinality(Unended') = Cardinality(Unended) + 1
    BY <1>1, <2>1, WebAssumption, FS_Subset, FS_AddElement
  <2>3. Len(middleware') = Len(middleware) + 1 /\ Len(middleware) \in Nat
    BY <1>4, AppendFacts DEF IInv, TypeOK, Handle
  <2>4. Cardinality(Unended) \in Nat
    BY <1>1, OneLess
  <2>5. Enough'
    BY <2>2, <2>3, <2>4 DEF IInv, Enough
  <2> QED BY <1>3, <1>4, <2>5, Pushed DEF IInv
<1>5. CASE ~instrumented
  <2>1. UNCHANGED <<koa, instrumented, middleware, finished, parent, ended,
                    traced, done, orderly, thrown, taken, stray>>
    BY <1>5 DEF Handle, history
  <2>2. running' \in Seq(Call) /\ paths' \in Seq(Mounted) /\ matched' \subseteq Mounted
    BY <1>1, AppendFacts, PathsEnter, MatchedType DEF IInv, Handle
  <2>3. TypeOK'
    BY <2>1, <2>2 DEF IInv, TypeOK
  <2>4. Unended' = Unended
    BY <1>1, <1>2, <2>1 DEF Unended
  <2> QED BY <1>3, <2>1, <2>3, <2>4 DEF IInv, Stacked, Enough
<1> QED BY <1>4, <1>5

\* A call that stops is the only one that may be missing then.
LEMMA OthersRun ==
    ASSUME NEW q \in Seq(Call), NEW r, NEW c,
           \/ \E i \in DOMAIN q : q[i] = c /\ r = RemoveAt(q, i)
           \/ r = q
    PROVE  r \in Seq(Call) /\ \A e : Contains(q, e) /\ e # c => Contains(r, e)
<1>1. CASE r = q
  BY <1>1
<1>2. CASE \E i \in DOMAIN q : q[i] = c /\ r = RemoveAt(q, i)
  <2>1. PICK i \in 1 .. Len(q) : q[i] = c /\ r = RemoveAt(q, i)
    BY <1>2
  <2> QED BY <2>1, RemoveAtFacts
<1> QED BY <1>1, <1>2

\* A call that is done with its span takes it, or another one, off the stack:
\* so the stack loses one span whenever the calls that run lose one that has
\* a span, and it may be empty by then.
LEMMA LeaveInv ==
    ASSUME IInv, NEW c \in Call, NEW error \in BOOLEAN, Leave(c, error)
    PROVE  IInv'
<1>1. Unended \in SUBSET Call /\ running \in Seq(Call)
  BY DEF IInv, TypeOK, Unended
<1>2. /\ running' \in Seq(Call)
      /\ \A e : Contains(running, e) /\ e # c => Contains(running', e)
  BY <1>1, OthersRun DEF Leave, Stops
<1>3. UNCHANGED <<koa, instrumented, finished, parent, traced, matched, thrown, taken>>
  BY DEF Leave
<1>4. Unended' \in SUBSET Call /\ Unended \ {c} \subseteq Unended'
  BY <1>1, <1>2, <1>3 DEF IInv, TypeOK, Unended
<1>5. /\ Cardinality(Unended') \in Nat /\ Cardinality(Unended) \in Nat
      /\ Cardinality(Unended) - 1 <= Cardinality(Unended')
      /\ c \notin Unended => Cardinality(Unended) <= Cardinality(Unended')
  BY <1>1, <1>4, OneLess
<1>6. \A d \in traced : d \in done' \/ Contains(running', d)
  BY <1>2 DEF IInv, Known, Leave
<1>7. orderly' \in BOOLEAN /\ stray' \in BOOLEAN /\ done' \subseteq Call /\ done \subseteq done'
  BY DEF IInv, TypeOK, Leave, Ordered, Leaves
<1>8. paths' \in Seq(Mounted)
  BY PathsLeave DEF IInv
<1>9. CASE c \in traced
  <2>1. Finish
    BY <1>9 DEF Leave
  <2>2. ended \subseteq ended'
    BY <2>1 DEF Finish
  <2>3. /\ middleware' \in Seq(Call) /\ IsInjective(middleware')
        /\ ToSet(middleware') = traced' \ ended'
        /\ Stacked' /\ ended' \subseteq traced' \cup {Root}
        /\ Len(middleware') \in Nat /\ Len(middleware) \in Nat
        /\ Len(middleware') = IF middleware = <<>> THEN 0 ELSE Len(middleware) - 1
    BY <1>3, <2>1, Popped
  <2>4. TypeOK'
    BY <1>2, <1>3, <1>7, <1>8, <2>2, <2>3 DEF IInv, TypeOK
  <2>5. Enough'
    BY <1>5, <2>3 DEF IInv, Enough
  <2> QED BY <1>3, <1>6, <2>3, <2>4, <2>5 DEF IInv, Known
<1>10. CASE c \notin traced
  <2>1. UNCHANGED <<koa, instrumented, middleware, finished, parent, ended, traced>>
    BY <1>10 DEF Leave
  <2>2. c \notin Unended
    BY <1>10 DEF Unended
  <2>3. TypeOK'
    BY <1>2, <1>3, <1>7, <1>8, <2>1 DEF IInv, TypeOK
  <2>4. Len(middleware) \in Nat
    BY DEF IInv, TypeOK
  <2>5. Enough'
    BY <1>5, <2>1, <2>2, <2>4 DEF IInv, Enough
  <2> QED BY <1>6, <2>1, <2>3, <2>5 DEF IInv, Stacked, Known
<1> QED BY <1>9, <1>10

\* A call that throws leaves its span behind, and it is counted from then on
\* among those that threw.
LEMMA ThrowInv ==
    ASSUME IInv, NEW c \in Call, Throw(c)
    PROVE  IInv'
<1>1. Unended \in SUBSET Call /\ running \in Seq(Call)
  BY DEF IInv, TypeOK, Unended
<1>2. /\ running' \in Seq(Call)
      /\ \A e : Contains(running, e) /\ e # c => Contains(running', e)
  BY <1>1, OthersRun DEF Throw, Stops
<1>3. /\ UNCHANGED <<koa, instrumented, middleware, paths, finished, parent, ended,
                     traced, matched, taken>>
      /\ thrown' = thrown \cup ({c} \cap traced) /\ done' = done \cup {c}
      /\ orderly' \in BOOLEAN /\ stray' \in BOOLEAN
  BY DEF IInv, TypeOK, Throw, Ordered, request
<1>4. TypeOK'
  BY <1>2, <1>3 DEF IInv, TypeOK
<1>5. Known'
  BY <1>2, <1>3 DEF IInv, Known
<1>6. Unended' \in SUBSET Call /\ Unended \subseteq Unended'
  BY <1>1, <1>2, <1>3 DEF IInv, TypeOK, Unended
<1>7. Enough'
  <2>1. Cardinality(Unended) <= Cardinality(Unended')
    BY <1>6, WebAssumption, FS_Subset
  <2>2. Cardinality(Unended) \in Nat /\ Cardinality(Unended') \in Nat
    BY <1>1, <1>6, OneLess
  <2>3. Len(middleware) \in Nat
    BY DEF IInv, TypeOK
  <2> QED BY <1>3, <2>1, <2>2, <2>3 DEF IInv, Enough
<1> QED BY <1>3, <1>4, <1>5, <1>7 DEF IInv, Stacked

LEMMA NextInv ==
    ASSUME IInv, [Next]_vars
    PROVE  IInv'
<1>1. CASE Instrument
  BY <1>1 DEF IInv, TypeOK, Stacked, Known, Enough, Unended, Instrument, calls, history
<1>2. ASSUME NEW c \in Call, Skipped(c)
      PROVE  IInv'
  <2>1. paths' \in Seq(Mounted) /\ matched' \subseteq Mounted
    BY <1>2, PathsEnter, MatchedType DEF IInv, Skipped
  <2>2. TypeOK'
    BY <1>2, <2>1 DEF IInv, TypeOK, Skipped
  <2> QED BY <1>2, <2>2 DEF IInv, Stacked, Known, Enough, Unended, Skipped
<1>3. ASSUME NEW c \in Call, TriedElsewhere(c)
      PROVE  IInv'
  <2>1. UNCHANGED <<koa, request, parent, ended, calls, history>> /\ matched' \subseteq Mounted
    BY <1>3 DEF IInv, TypeOK, TriedElsewhere
  <2>2. TypeOK'
    BY <2>1 DEF IInv, TypeOK, request, calls, history
  <2> QED BY <2>1, <2>2 DEF IInv, Stacked, Known, Enough, Unended, request, calls, history
<1>4. CASE UNCHANGED vars
  BY <1>4 DEF IInv, TypeOK, Stacked, Known, Enough, Unended, vars, request, calls, history
<1> QED BY <1>1, <1>2, <1>3, <1>4, HandleInv, LeaveInv, ThrowInv, EndInv DEF Next

THEOREM Inductive == Spec => []IInv
<1> QED BY InitInv, NextInv, PTL DEF Spec

\* There are never more open spans of middleware than calls with a span that
\* are not done, or threw to express, and began after the response ended last.
THEOREM NoMoreThanRun == Spec => []NoOrphans
<1>1. IInv => NoOrphans
  BY DEF IInv, Enough, NoOrphans
<1> QED BY <1>1, Inductive, PTL

----------------------------------------------------------------------------
\* A span on the stack has its parent below it there, and each span is there
\* once: what the span on top is the parent of is finished.
LEMMA FinishesInnermost ==
    ASSUME IInv, Finish, NEW s \in ended' \ ended, NEW c \in traced, parent[c] = s
    PROVE  c \in ended'
<1>1. middleware \in Seq(Call) /\ middleware # <<>>
  BY DEF IInv, TypeOK, Finish
<1> DEFINE n == Len(middleware)
<1>2. /\ n \in Nat /\ n > 0 /\ DOMAIN middleware = 1 .. n
      /\ s = middleware[n] /\ s \in Call /\ ended \subseteq ended'
  BY <1>1, FrontFacts DEF Finish
<1> HIDE DEF n
<1>3. SUFFICES ASSUME c \notin ended PROVE FALSE
  BY <1>2
<1>4. PICK j \in 1 .. n : middleware[j] = c
  BY <1>2, <1>3 DEF IInv, TypeOK, ToSet
<1>5. s = IF j = 1 THEN Root ELSE middleware[j - 1]
  BY <1>2, <1>4 DEF IInv, Stacked
<1>6. j # 1 /\ j - 1 \in 1 .. n /\ n \in 1 .. n /\ j - 1 # n
  BY <1>2, <1>4, <1>5, WebAssumption
<1>7. middleware[j - 1] = middleware[n]
  BY <1>2, <1>5, <1>6
<1> QED BY <1>2, <1>6, <1>7 DEF IInv, TypeOK, IsInjective

\* A span is finished only when no span below it is open.
THEOREM InnermostFirst == Spec => NestedSpans
<1> DEFINE Nested ==
        \A s \in ended' \ ended : \A c \in traced : parent[c] = s => c \in ended'
<1>1. ASSUME IInv, Next PROVE Nested
  <2>1. CASE ended' = ended
    BY <2>1
  <2>2. CASE Finish
    BY <1>1, <2>2, FinishesInnermost
  <2>3. CASE \E fails \in BOOLEAN : End(fails)
    <3>1. Closed = ended \cup (traced \ ended)
      BY <1>1 DEF IInv, TypeOK, Closed
    <3>2. Closed \subseteq ended'
      BY <2>3 DEF End
    <3> QED BY <3>1, <3>2
  <2> QED
    BY <1>1, <2>1, <2>2, <2>3
       DEF Next, Instrument, Handle, Skipped, TriedElsewhere, Throw, Leave
<1>2. IInv /\ [Next]_vars => [Nested]_vars
  BY <1>1
<1> QED BY <1>2, Inductive, PTL DEF Spec, NestedSpans

----------------------------------------------------------------------------
\* What a sequence keeps of another one of which each element is there once.

\* The same, for sequences of which the domains are known.
Kept(p, q, S, D, E) ==
    /\ \A i, j \in D : p[i] = p[j] => i = j
    /\ \A k \in E : q[k] \in S => \E i \in D : p[i] = q[k]
    /\ \A i, j \in D : \A k, l \in E : i < j /\ p[i] = q[k] /\ p[j] = q[l] => k < l

Within(q, T, S) == \A k \in DOMAIN q : q[k] \in T => q[k] \in S

LEMMA InToSet ==
    ASSUME NEW q, NEW D, D = DOMAIN q
    PROVE  \A e : e \in ToSet(q) <=> \E k \in D : q[k] = e
BY DEF ToSet

LEMMA KeepsKept ==
    ASSUME NEW p, NEW q, NEW S, NEW D, NEW E, D = DOMAIN p, E = DOMAIN q
    PROVE  Keeps(p, q, S) <=> Kept(p, q, S, D, E)
<1>1. (ToSet(q) \cap S \subseteq ToSet(p))
          <=> \A k \in E : q[k] \in S => \E i \in D : p[i] = q[k]
  <2>1. ASSUME ToSet(q) \cap S \subseteq ToSet(p), NEW k \in E, q[k] \in S
        PROVE  \E i \in D : p[i] = q[k]
    <3>1. q[k] \in ToSet(q)
      BY DEF ToSet
    <3> QED BY <2>1, <3>1, InToSet
  <2>2. ASSUME \A k \in E : q[k] \in S => \E i \in D : p[i] = q[k], NEW e \in ToSet(q) \cap S
        PROVE  e \in ToSet(p)
    <3>1. PICK k \in E : q[k] = e
      BY DEF ToSet
    <3> QED BY <2>2, <3>1, InToSet
  <2> QED BY <2>1, <2>2
<1> QED BY <1>1 DEF Keeps, Kept, IsInjective

LEMMA KeepsSame ==
    ASSUME NEW p, NEW q, NEW S, NEW T, Keeps(p, q, S), Within(q, T, S)
    PROVE  Keeps(p, q, T)
<1>1. Kept(p, q, S, DOMAIN p, DOMAIN q)
  BY KeepsKept
<1>2. Kept(p, q, T, DOMAIN p, DOMAIN q)
  BY <1>1 DEF Kept, Within
<1> QED BY <1>2, KeepsKept

\* A call that comes after the others goes on both, or on one of them.
LEMMA KeepsPush ==
    ASSUME NEW C, NEW p \in Seq(C), NEW q \in Seq(C), NEW c \in C, NEW S, NEW T,
           Keeps(p, q, S), Within(q, T, S),
           \A i \in DOMAIN p : p[i] # c, \A k \in DOMAIN q : q[k] # c
    PROVE  /\ Keeps(Append(p, c), Append(q, c), T)
           /\ Keeps(Append(p, c), q, T)
           /\ c \notin T => Keeps(p, Append(q, c), T)
<1> DEFINE m == Len(p)
           n == Len(q)
           x == Append(p, c)
           y == Append(q, c)
<1>1. /\ m \in Nat /\ DOMAIN p = 1 .. m /\ DOMAIN x = 1 .. m + 1 /\ x[m + 1] = c
      /\ \A i \in 1 .. m : x[i] = p[i]
  BY AppendFacts
<1>2. /\ n \in Nat /\ DOMAIN q = 1 .. n /\ DOMAIN y = 1 .. n + 1 /\ y[n + 1] = c
      /\ \A k \in 1 .. n : y[k] = q[k]
  BY AppendFacts
<1>3. Keeps(p, q, T)
  BY KeepsSame
<1> HIDE DEF m, n, x, y
<1>4. Kept(p, q, T, 1 .. m, 1 .. n)
  BY <1>1, <1>2, <1>3, KeepsKept
<1>5. /\ \A i, j \in 1 .. m : p[i] = p[j] => i = j
      /\ \A k \in 1 .. n : q[k] \in T => \E i \in 1 .. m : p[i] = q[k]
      /\ \A i, j \in 1 .. m : \A k, l \in 1 .. n :
             i < j /\ p[i] = q[k] /\ p[j] = q[l] => k < l
  BY <1>4 DEF Kept
<1>6. /\ \A k \in 1 .. n + 1 : k = n + 1 \/ k \in 1 .. n
      /\ \A k \in 1 .. n : k \in 1 .. n + 1 /\ k < n + 1
      /\ n + 1 \in 1 .. n + 1
      /\ \A i \in 1 .. m + 1 : i = m + 1 \/ i \in 1 .. m
      /\ \A i \in 1 .. m : i \in 1 .. m + 1 /\ ~(m + 1 < i)
      /\ m + 1 \in 1 .. m + 1 /\ ~(m + 1 < m + 1)
  BY <1>1, <1>2
<1>7. (\A k \in 1 .. n : q[k] # c) /\ (\A i \in 1 .. m : p[i] # c)
  BY <1>1, <1>2
<1>8. \A i, j \in 1 .. m + 1 : x[i] = x[j] => i = j
  BY <1>1, <1>5, <1>6, <1>7
<1>9. Keeps(x, y, T)
  <2>1. ASSUME NEW k \in 1 .. n + 1, y[k] \in T
        PROVE  \E i \in 1 .. m + 1 : x[i] = y[k]
    <3>1. CASE k = n + 1
      BY <1>1, <1>2, <1>6, <3>1
    <3>2. CASE k \in 1 .. n
      <4>1. PICK i \in 1 .. m : p[i] = q[k]
        BY <1>2, <1>5, <2>1, <3>2
      <4> QED BY <1>1, <1>2, <1>6, <3>2, <4>1
    <3> QED BY <1>6, <3>1, <3>2
  <2>2. ASSUME NEW i \in 1 .. m + 1, NEW j \in 1 .. m + 1,
               NEW k \in 1 .. n + 1, NEW l \in 1 .. n + 1,
               i < j, x[i] = y[k], x[j] = y[l]
        PROVE  k < l
    <3>1. i \in 1 .. m
      BY <1>1, <2>2
    <3>2. k \in 1 .. n /\ p[i] = q[k]
      BY <1>1, <1>2, <1>6, <1>7, <2>2, <3>1
    <3>3. CASE j = m + 1
      <4>1. l = n + 1
        BY <1>1, <1>2, <1>6, <1>7, <2>2, <3>3
      <4> QED BY <1>6, <3>2, <4>1
    <3>4. CASE j \in 1 .. m
      <4>1. l \in 1 .. n /\ p[j] = q[l]
        BY <1>1, <1>2, <1>6, <1>7, <2>2, <3>4
      <4> QED BY <1>5, <2>2, <3>1, <3>2, <3>4, <4>1
    <3> QED BY <1>6, <3>3, <3>4
  <2>3. Kept(x, y, T, 1 .. m + 1, 1 .. n + 1)
    BY <1>8, <2>1, <2>2 DEF Kept
  <2> QED BY <1>1, <1>2, <2>3, KeepsKept
<1>10. Keeps(x, q, T)
  <2>1. ASSUME NEW k \in 1 .. n, q[k] \in T
        PROVE  \E i \in 1 .. m + 1 : x[i] = q[k]
    <3>1. PICK i \in 1 .. m : p[i] = q[k]
      BY <1>5, <2>1
    <3> QED BY <1>1, <1>6, <3>1
  <2>2. ASSUME NEW i \in 1 .. m + 1, NEW j \in 1 .. m + 1,
               NEW k \in 1 .. n, NEW l \in 1 .. n,
               i < j, x[i] = q[k], x[j] = q[l]
        PROVE  k < l
    <3>1. i \in 1 .. m /\ j \in 1 .. m /\ p[i] = q[k] /\ p[j] = q[l]
      BY <1>1, <1>6, <1>7, <2>2
    <3> QED BY <1>5, <2>2, <3>1
  <2>3. Kept(x, q, T, 1 .. m + 1, 1 .. n)
    BY <1>8, <2>1, <2>2 DEF Kept
  <2> QED BY <1>1, <1>2, <2>3, KeepsKept
<1>11. ASSUME c \notin T PROVE Keeps(p, y, T)
  <2>1. ASSUME NEW k \in 1 .. n + 1, y[k] \in T
        PROVE  \E i \in 1 .. m : p[i] = y[k]
    <3>1. k \in 1 .. n /\ q[k] \in T /\ y[k] = q[k]
      BY <1>2, <1>6, <1>11, <2>1
    <3> QED BY <1>5, <3>1
  <2>2. ASSUME NEW i \in 1 .. m, NEW j \in 1 .. m,
               NEW k \in 1 .. n + 1, NEW l \in 1 .. n + 1,
               i < j, p[i] = y[k], p[j] = y[l]
        PROVE  k < l
    <3>1. k \in 1 .. n /\ l \in 1 .. n /\ p[i] = q[k] /\ p[j] = q[l]
      BY <1>2, <1>6, <1>7, <2>2
    <3> QED BY <1>5, <2>2, <3>1
  <2>3. Kept(p, y, T, 1 .. m, 1 .. n + 1)
    BY <1>5, <2>1, <2>2 DEF Kept
  <2> QED BY <1>1, <1>2, <2>3, KeepsKept
<1> QED BY <1>9, <1>10, <1>11 DEF x, y

\* The call that came last is gone.  What is kept of the others stays when one
\* element is taken off the end, if the last call was kept or none of them is.
LEMMA KeepsPop ==
    ASSUME NEW C, NEW p \in Seq(C), NEW q \in Seq(C), NEW S, NEW T, q # <<>>,
           Keeps(p, q, S), IsInjective(q), Within(Front(q), T, S)
    PROVE  /\ Keeps(p, Front(q), T)
           /\ Last(q) \in S => p # <<>>
           /\ p # <<>> /\ (Last(q) \in S \/ \A k \in DOMAIN Front(q) : Front(q)[k] \notin T)
                  => Keeps(Front(p), Front(q), T)
           /\ ToSet(p) \subseteq ToSet(q) =>
                  /\ Last(q) \in S => ToSet(Front(p)) \subseteq ToSet(Front(q))
                  /\ Last(q) \notin ToSet(p) => ToSet(p) \subseteq ToSet(Front(q))
<1> DEFINE m == Len(p)
           n == Len(q)
           x == Front(p)
           y == Front(q)
<1>1. /\ n \in Nat /\ n > 0 /\ DOMAIN q = 1 .. n /\ DOMAIN y = 1 .. n - 1
      /\ Last(q) = q[n] /\ \A k \in 1 .. n - 1 : y[k] = q[k]
  BY FrontFacts
<1>2. m \in Nat /\ DOMAIN p = 1 .. m /\ (p # <<>> <=> m # 0)
  OBVIOUS
<1>3. p # <<>> => DOMAIN x = 1 .. m - 1 /\ \A i \in 1 .. m - 1 : x[i] = p[i]
  BY FrontFacts
<1> HIDE DEF m, n, x, y
<1>4. Kept(p, q, S, 1 .. m, 1 .. n)
  BY <1>1, <1>2, KeepsKept
<1>5. /\ \A i, j \in 1 .. m : p[i] = p[j] => i = j
      /\ \A k \in 1 .. n : q[k] \in S => \E i \in 1 .. m : p[i] = q[k]
      /\ \A i, j \in 1 .. m : \A k, l \in 1 .. n :
             i < j /\ p[i] = q[k] /\ p[j] = q[l] => k < l
      /\ \A k, l \in 1 .. n : q[k] = q[l] => k = l
  BY <1>1, <1>4 DEF Kept, IsInjective
<1>6. \A k \in 1 .. n - 1 : q[k] \in T => q[k] \in S
  BY <1>1 DEF Within, y
<1>7. /\ \A k \in 1 .. n : k = n \/ k \in 1 .. n - 1
      /\ \A k \in 1 .. n - 1 : k \in 1 .. n /\ k < n /\ k # n
      /\ n \in 1 .. n /\ \A k \in 1 .. n : ~(n < k)
      /\ \A i \in 1 .. m : i = m \/ i \in 1 .. m - 1
      /\ \A i \in 1 .. m - 1 : i \in 1 .. m /\ i < m /\ i # m
      /\ m # 0 => m \in 1 .. m
  BY <1>1, <1>2
<1>8. Keeps(p, y, T)
  <2>1. \A k \in 1 .. n - 1 : y[k] \in T => \E i \in 1 .. m : p[i] = y[k]
    BY <1>1, <1>5, <1>6, <1>7
  <2>2. \A i, j \in 1 .. m : \A k, l \in 1 .. n - 1 :
            i < j /\ p[i] = y[k] /\ p[j] = y[l] => k < l
    BY <1>1, <1>5, <1>7
  <2>3. Kept(p, y, T, 1 .. m, 1 .. n - 1)
    BY <1>5, <2>1, <2>2 DEF Kept
  <2> QED BY <1>1, <1>2, <2>3, KeepsKept
<1>9. ASSUME q[n] \in S
      PROVE  /\ p # <<>> /\ m \in 1 .. m
             /\ \A k \in 1 .. n - 1 : p[m] # q[k]
             /\ \A k \in 1 .. n : p[m] = q[k] => k = n
  <2>1. PICK i \in 1 .. m : p[i] = q[n]
    BY <1>5, <1>7, <1>9
  <2>2. m # 0 /\ m \in 1 .. m /\ (i = m \/ i < m)
    BY <1>2, <2>1
  <2>3. ASSUME NEW k \in 1 .. n - 1, p[m] = q[k]
        PROVE  FALSE
    <3>1. k \in 1 .. n /\ k # n /\ k < n
      BY <1>7
    <3>2. i # m
      BY <1>5, <1>7, <2>1, <2>3, <3>1
    <3>3. n < k
      BY <1>5, <1>7, <2>1, <2>2, <2>3, <3>1, <3>2
    <3> QED BY <1>7, <3>1, <3>3
  <2> QED BY <1>2, <1>7, <2>2, <2>3
<1>10. ASSUME p # <<>>, q[n] \in S \/ \A k \in 1 .. n - 1 : y[k] \notin T
       PROVE  Keeps(x, y, T)
  <2>1. \A i, j \in 1 .. m - 1 : x[i] = x[j] => i = j
    BY <1>3, <1>5, <1>7, <1>10
  <2>2. ASSUME NEW k \in 1 .. n - 1, y[k] \in T
        PROVE  \E i \in 1 .. m - 1 : x[i] = y[k]
    <3>1. q[n] \in S /\ y[k] = q[k] /\ q[k] \in S /\ k \in 1 .. n
      BY <1>1, <1>6, <1>7, <1>10, <2>2
    <3>2. PICK i \in 1 .. m : p[i] = q[k]
      BY <1>5, <3>1
    <3>3. i \in 1 .. m - 1
      BY <1>7, <1>9, <3>1, <3>2
    <3> QED BY <1>3, <1>10, <3>1, <3>2, <3>3
  <2>3. ASSUME NEW i \in 1 .. m - 1, NEW j \in 1 .. m - 1,
               NEW k \in 1 .. n - 1, NEW l \in 1 .. n - 1,
               i < j, x[i] = y[k], x[j] = y[l]
        PROVE  k < l
    <3>1. p[i] = q[k] /\ p[j] = q[l]
      BY <1>1, <1>3, <1>10, <2>3
    <3>2. i \in 1 .. m /\ j \in 1 .. m /\ k \in 1 .. n /\ l \in 1 .. n
      BY <1>7
    <3> QED BY <1>5, <2>3, <3>1, <3>2
  <2>4. Kept(x, y, T, 1 .. m - 1, 1 .. n - 1)
    BY <2>1, <2>2, <2>3 DEF Kept
  <2>5. 1 .. m - 1 = DOMAIN x /\ 1 .. n - 1 = DOMAIN y
    BY <1>1, <1>3, <1>10
  <2> QED BY <2>4, <2>5, KeepsKept
<1>11. ASSUME ToSet(p) \subseteq ToSet(q), NEW i \in 1 .. m
       PROVE  p[i] \in ToSet(p) /\ \E k \in 1 .. n : q[k] = p[i]
  <2>1. p[i] \in ToSet(p)
    BY <1>2, InToSet
  <2> QED BY <1>1, <1>11, <2>1, InToSet
<1>12. ASSUME ToSet(p) \subseteq ToSet(q), q[n] \in S
       PROVE  ToSet(x) \subseteq ToSet(y)
  <2>1. SUFFICES ASSUME NEW e \in ToSet(x) PROVE e \in ToSet(y)
    OBVIOUS
  <2>2. p # <<>> /\ m \in 1 .. m /\ \A k \in 1 .. n : p[m] = q[k] => k = n
    BY <1>9, <1>12
  <2>3. PICK i \in 1 .. m - 1 : x[i] = e
    BY <1>3, <2>1, <2>2, InToSet
  <2>4. p[i] = e /\ i \in 1 .. m /\ i # m
    BY <1>3, <1>7, <2>2, <2>3
  <2>5. PICK k \in 1 .. n : q[k] = p[i]
    BY <1>11, <1>12, <2>4
  <2>6. PICK h \in 1 .. n : q[h] = p[m]
    BY <1>11, <1>12, <2>2
  <2>7. k # n
    BY <1>5, <2>2, <2>4, <2>5, <2>6
  <2>8. k \in 1 .. n - 1 /\ y[k] = e
    BY <1>1, <1>7, <2>4, <2>5, <2>7
  <2> QED BY <1>1, <2>8, InToSet
<1>13. ASSUME ToSet(p) \subseteq ToSet(q), q[n] \notin ToSet(p)
       PROVE  ToSet(p) \subseteq ToSet(y)
  <2>1. SUFFICES ASSUME NEW e \in ToSet(p) PROVE e \in ToSet(y)
    OBVIOUS
  <2>2. PICK k \in 1 .. n : q[k] = e
    BY <1>1, <1>13, <2>1, InToSet
  <2>3. k \in 1 .. n - 1 /\ y[k] = e
    BY <1>1, <1>7, <1>13, <2>1, <2>2
  <2> QED BY <1>1, <2>3, InToSet
<1>14. Last(q) \in S => p # <<>>
  BY <1>1, <1>9
<1>15. ASSUME p # <<>>, Last(q) \in S \/ \A k \in DOMAIN Front(q) : Front(q)[k] \notin T
       PROVE  Keeps(Front(p), Front(q), T)
  <2>1. q[n] \in S \/ \A k \in 1 .. n - 1 : y[k] \notin T
    BY <1>1, <1>15 DEF y
  <2> QED BY <1>10, <1>15, <2>1 DEF x, y
<1>16. ASSUME ToSet(p) \subseteq ToSet(q)
       PROVE  /\ Last(q) \in S => ToSet(Front(p)) \subseteq ToSet(Front(q))
              /\ Last(q) \notin ToSet(p) => ToSet(p) \subseteq ToSet(Front(q))
  BY <1>1, <1>12, <1>13, <1>16 DEF x, y
<1>17. Keeps(p, Front(q), T)
  BY <1>8 DEF y
<1> QED BY <1>14, <1>15, <1>16, <1>17

LEMMA RemoveAtIs ==
    ASSUME NEW C, NEW q \in Seq(C), NEW i \in 1 .. Len(q)
    PROVE  /\ Len(q) \in Nat /\ DOMAIN RemoveAt(q, i) = 1 .. Len(q) - 1
           /\ \A k \in 1 .. Len(q) - 1 : RemoveAt(q, i)[k] = IF k < i THEN q[k] ELSE q[k + 1]
           /\ i = Len(q) => RemoveAt(q, i) = Front(q)
<1> DEFINE n == Len(q)
           a == SubSeq(q, 1, i - 1)
           b == SubSeq(q, i + 1, n)
           r == RemoveAt(q, i)
<1>1. i \in Int /\ n \in Nat /\ i >= 1 /\ i <= n
  OBVIOUS
<1>2. a \in Seq(C) /\ Len(a) = i - 1 /\ \A j \in 1 .. i - 1 : a[j] = q[j]
  BY <1>1
<1>3. b \in Seq(C) /\ Len(b) = n - i /\ \A j \in 1 .. n - i : b[j] = q[i + j]
  BY <1>1
<1>4. r = a \o b
  BY DEF RemoveAt
<1>5. q # <<>> /\ Front(q) \in Seq(C) /\ Len(Front(q)) = n - 1
      /\ \A j \in 1 .. n - 1 : Front(q)[j] = q[j]
  BY <1>1, FrontFacts
<1> HIDE DEF a, b, r, n
<1>6. /\ r \in Seq(C) /\ Len(r) = Len(a) + Len(b)
      /\ \A k \in 1 .. Len(a) + Len(b) : r[k] = IF k <= Len(a) THEN a[k] ELSE b[k - Len(a)]
  BY <1>2, <1>3, <1>4, ConcatProperties
<1>7. Len(r) = n - 1 /\ DOMAIN r = 1 .. n - 1
  BY <1>1, <1>2, <1>3, <1>6
<1>8. ASSUME NEW k \in 1 .. n - 1
      PROVE  r[k] = IF k < i THEN q[k] ELSE q[k + 1]
  <2>1. r[k] = IF k <= i - 1 THEN a[k] ELSE b[k - (i - 1)]
    BY <1>1, <1>2, <1>3, <1>6
  <2>2. CASE k < i
    BY <1>1, <1>2, <2>1, <2>2
  <2>3. CASE ~(k < i)
    <3>1. k - (i - 1) \in 1 .. n - i /\ i + (k - (i - 1)) = k + 1 /\ ~(k <= i - 1)
      BY <1>1, <2>3
    <3> QED BY <1>3, <2>1, <2>3, <3>1
  <2> QED BY <2>2, <2>3
<1>9. ASSUME i = n
      PROVE  r = Front(q)
  <2>1. \A k \in 1 .. n - 1 : r[k] = Front(q)[k]
    BY <1>1, <1>5, <1>8, <1>9
  <2> QED BY <1>5, <1>6, <1>7, <2>1, SeqEqual
<1> QED BY <1>1, <1>7, <1>8, <1>9 DEF r, n

----------------------------------------------------------------------------
\* Whose span is finished, as long as the layers end in order.

\* A call runs once and not after it is done.
Apart == IsInjective(running) /\ \A i \in DOMAIN running : running[i] \notin done

\* The end of the response took the spans of the first calls: below a call
\* whose span it took there is none whose span it left.
Below ==
    orderly => \A k, l \in DOMAIN running :
        k < l /\ running[l] \in taken /\ running[k] \in traced => running[k] \in taken

\* A path is of a layer with a span, or one that is done.
Passed ==
    \A i \in DOMAIN paths :
        paths[i] \in done \/ (paths[i] \in traced /\ Contains(running, paths[i]))

OInv == IInv /\ Apart /\ Below /\ Passed /\ OwnSpan /\ RouteInStep

LEMMA OwnInit == Init => OInv
<1> SUFFICES ASSUME Init PROVE OInv
  OBVIOUS
<1>1. running = <<>> /\ middleware = <<>> /\ paths = <<>> /\ DOMAIN <<>> = {}
  BY DEF Init
<1>2. \A S : Keeps(<<>>, <<>>, S)
  BY <1>1 DEF Keeps, IsInjective, ToSet
<1>3. Apart /\ Below /\ Passed
  BY <1>1 DEF Apart, Below, Passed, IsInjective
<1>4. OwnSpan /\ RouteInStep
  BY <1>1, <1>2 DEF OwnSpan, RouteInStep
<1> QED BY <1>3, <1>4, InitInv DEF OInv

LEMMA RunningAt ==
    ASSUME OInv
    PROVE  /\ running \in Seq(Call) /\ middleware \in Seq(Call) /\ paths \in Seq(Call)
           /\ Len(running) \in Nat /\ DOMAIN running = 1 .. Len(running)
           /\ \A i \in DOMAIN running : running[i] \in Call
           /\ \A c : Contains(running, c) <=> \E k \in DOMAIN running : running[k] = c
           /\ \A c \in Call : New(c) => /\ c \notin traced /\ c \notin ended /\ c \notin done
                                        /\ \A k \in DOMAIN running : running[k] # c
                                        /\ \A i \in DOMAIN middleware : middleware[i] # c
                                        /\ \A i \in DOMAIN paths : paths[i] # c
<1>1. running \in Seq(Call) /\ middleware \in Seq(Call) /\ paths \in Seq(Call)
  BY WebAssumption DEF OInv, IInv, TypeOK
<1>2. Len(running) \in Nat /\ DOMAIN running = 1 .. Len(running)
      /\ \A i \in DOMAIN running : running[i] \in Call
  BY <1>1
<1>3. \A c : Contains(running, c) <=> \E k \in DOMAIN running : running[k] = c
  BY <1>2 DEF Contains
<1>4. ASSUME NEW c \in Call, New(c)
      PROVE  /\ c \notin traced /\ c \notin ended /\ c \notin done
             /\ \A k \in DOMAIN running : running[k] # c
             /\ \A i \in DOMAIN middleware : middleware[i] # c
             /\ \A i \in DOMAIN paths : paths[i] # c
  <2>1. c \notin done /\ ~Contains(running, c)
    BY <1>4 DEF New
  <2>2. c \notin traced /\ c \notin ended
    BY <2>1, WebAssumption DEF OInv, IInv, Known
  <2>3. \A k \in DOMAIN running : running[k] # c
    BY <1>3, <2>1
  <2>4. \A i \in DOMAIN middleware : middleware[i] # c
    BY <2>2 DEF OInv, IInv, TypeOK, ToSet
  <2>5. \A i \in DOMAIN paths : paths[i] # c
    BY <2>1, <2>2 DEF OInv, Passed
  <2> QED BY <2>1, <2>2, <2>3, <2>4, <2>5
<1> QED BY <1>1, <1>2, <1>3, <1>4

LEMMA ToSetAppend ==
    ASSUME NEW C, NEW q \in Seq(C), NEW c \in C
    PROVE  ToSet(Append(q, c)) = ToSet(q) \cup {c}
<1> DEFINE n == Len(q)
           y == Append(q, c)
<1>1. /\ n \in Nat /\ DOMAIN q = 1 .. n /\ DOMAIN y = 1 .. n + 1 /\ y[n + 1] = c
      /\ \A k \in 1 .. n : y[k] = q[k]
  BY AppendFacts
<1> HIDE DEF n, y
<1>2. /\ \A k \in 1 .. n + 1 : k = n + 1 \/ k \in 1 .. n
      /\ \A k \in 1 .. n : k \in 1 .. n + 1
      /\ n + 1 \in 1 .. n + 1
  BY <1>1
<1>3. \A e : (\E k \in 1 .. n + 1 : y[k] = e) <=> e = c \/ \E k \in 1 .. n : q[k] = e
  BY <1>1, <1>2
<1>4. \A e : e \in ToSet(y) <=> e = c \/ e \in ToSet(q)
  BY <1>1, <1>3 DEF ToSet
<1> QED BY <1>4 DEF y

LEMMA HandleOwn ==
    ASSUME OInv, NEW c \in Call, Handle(c)
    PROVE  OInv'
<1> DEFINE n == Len(running)
<1>1. /\ c \notin traced /\ c \notin ended /\ c \notin done
      /\ \A k \in DOMAIN running : running[k] # c
      /\ \A i \in DOMAIN middleware : middleware[i] # c
      /\ \A i \in DOMAIN paths : paths[i] # c
      /\ running \in Seq(Call) /\ middleware \in Seq(Call) /\ paths \in Seq(Call)
  BY RunningAt DEF Handle
<1>2. /\ running' = Append(running, c) /\ ToSet(running') = ToSet(running) \cup {c}
      /\ n \in Nat /\ DOMAIN running = 1 .. n /\ DOMAIN running' = 1 .. n + 1
      /\ running'[n + 1] = c /\ \A k \in 1 .. n : running'[k] = running[k]
  BY <1>1, AppendFacts, ToSetAppend DEF Handle
<1> HIDE DEF n
<1>3. /\ UNCHANGED <<koa, instrumented, ended, done, orderly, thrown, taken, stray>>
      /\ traced' = IF instrumented THEN traced \cup {c} ELSE traced
      /\ middleware' = IF instrumented THEN Append(middleware, c) ELSE middleware
      /\ paths' = Entered(c)
  BY DEF Handle, history
<1>4. c \notin taken
  BY <1>1 DEF OInv, IInv, TypeOK
<1>5. \A k \in 1 .. n + 1 : k = n + 1 \/ k \in 1 .. n
  BY <1>2
<1>6. Apart'
  <2>1. \A i, j \in 1 .. n : running[i] = running[j] => i = j
    BY <1>2 DEF OInv, Apart, IsInjective
  <2>2. \A i \in 1 .. n : running[i] # c /\ running[i] \notin done
    BY <1>1, <1>2 DEF OInv, Apart
  <2>3. \A i, j \in 1 .. n + 1 : running'[i] = running'[j] => i = j
    BY <1>2, <1>5, <2>1, <2>2
  <2>4. \A i \in 1 .. n + 1 : running'[i] \notin done
    BY <1>1, <1>2, <1>5, <2>2
  <2> QED BY <1>2, <1>3, <2>3, <2>4 DEF Apart, IsInjective
<1>7. Below'
  <2> SUFFICES ASSUME orderly, NEW k \in 1 .. n + 1, NEW l \in 1 .. n + 1, k < l,
                      running'[l] \in taken, running'[k] \in traced'
               PROVE  running'[k] \in taken
    BY <1>2, <1>3 DEF Below
  <2>1. l \in 1 .. n
    BY <1>2, <1>4, <1>5
  <2>2. k \in 1 .. n /\ running'[k] = running[k] /\ running'[l] = running[l]
    <3>1. n \in Nat
      BY <1>2
    <3>2. k \in 1 .. n
      BY <2>1, <3>1
    <3> QED BY <1>2, <2>1, <3>2
  <2>0. running[k] # c
    BY <1>1, <1>2, <2>2
  <2>3. running[l] \in taken /\ running[k] \in traced /\ l \in DOMAIN running /\ k \in DOMAIN running
    BY <1>2, <1>3, <2>0, <2>1, <2>2
  <2>4. running[k] \in taken
    BY <2>3 DEF OInv, Below
  <2> QED BY <2>2, <2>4
<1>8. \A e : Contains(running', e) <=> e = c \/ Contains(running, e)
  <2>1. \A e : Contains(running, e) <=> e \in ToSet(running)
    BY RunningAt, InToSet
  <2>2. \A e : Contains(running', e) <=> e \in ToSet(running')
    <3>1. running' \in Seq(Call) /\ Len(running') = n + 1
      BY <1>1, <1>2, AppendFacts DEF n
    <3> QED BY <1>2, <3>1, InToSet DEF Contains
  <2> QED BY <1>2, <2>1, <2>2
<1>9. ASSUME instrumented, c \in Mounted
      PROVE  Passed' /\ RouteInStep'
  <2> DEFINE p == IF koa /\ paths # <<>> THEN Front(paths) ELSE paths
  <2>1. paths' = Append(p, c)
    BY <1>3, <1>9 DEF Entered
  <2>2. p \in Seq(Call) /\ \A i \in DOMAIN p : i \in DOMAIN paths /\ p[i] = paths[i]
    <3>1. CASE koa /\ paths # <<>>
      <4>1. p = Front(paths)
        BY <3>1
      <4>2. /\ Front(paths) \in Seq(Call) /\ Len(paths) \in Nat
            /\ DOMAIN paths = 1 .. Len(paths) /\ DOMAIN Front(paths) = 1 .. Len(paths) - 1
            /\ \A i \in 1 .. Len(paths) - 1 : Front(paths)[i] = paths[i]
        BY <1>1, <3>1, FrontFacts
      <4>3. \A i \in 1 .. Len(paths) - 1 : i \in 1 .. Len(paths)
        BY <4>2
      <4> QED BY <4>1, <4>2, <4>3
    <3>2. CASE ~(koa /\ paths # <<>>)
      BY <1>1, <3>2
    <3> QED BY <3>1, <3>2
  <2>3. ~koa => p = paths
    OBVIOUS
  <2> HIDE DEF p
  <2>4. /\ Len(p) \in Nat /\ DOMAIN p = 1 .. Len(p) /\ DOMAIN paths' = 1 .. Len(p) + 1
        /\ paths'[Len(p) + 1] = c /\ \A i \in 1 .. Len(p) : paths'[i] = p[i]
        /\ ToSet(paths') = ToSet(p) \cup {c}
    BY <2>1, <2>2, AppendFacts, ToSetAppend
  <2>5. Passed'
    <3> SUFFICES ASSUME NEW i \in 1 .. Len(p) + 1
                 PROVE  paths'[i] \in done \/ (paths'[i] \in traced' /\ Contains(running', paths'[i]))
      BY <1>3, <2>4 DEF Passed
    <3>1. CASE i = Len(p) + 1
      BY <1>3, <1>8, <1>9, <2>4, <3>1
    <3>2. CASE i \in 1 .. Len(p)
      <4>1. i \in DOMAIN paths /\ paths'[i] = paths[i]
        BY <2>2, <2>4, <3>2
      <4>2. paths[i] \in done \/ (paths[i] \in traced /\ Contains(running, paths[i]))
        BY <4>1 DEF OInv, Passed
      <4> QED BY <1>3, <1>8, <4>1, <4>2
    <3> QED BY <2>4, <3>1, <3>2
  <2>6. RouteInStep'
    <3> SUFFICES ASSUME orderly, ~koa
                 PROVE  /\ Keeps(paths', running', traced' \cap Mounted)
                        /\ ~stray => ToSet(paths') \subseteq ToSet(running')
      BY <1>3 DEF RouteInStep
    <3>1. /\ Keeps(paths, running, traced \cap Mounted)
          /\ ~stray => ToSet(paths) \subseteq ToSet(running)
      BY DEF OInv, RouteInStep
    <3>2. Within(running, traced' \cap Mounted, traced \cap Mounted)
      BY <1>1, <1>3 DEF Within
    <3>3. Keeps(paths', running', traced' \cap Mounted)
      BY <1>1, <1>2, <2>1, <2>3, <3>1, <3>2, KeepsPush
    <3>4. ~stray => ToSet(paths') \subseteq ToSet(running')
      <4>1. ToSet(paths') = ToSet(paths) \cup {c}
        BY <2>3, <2>4
      <4> QED BY <1>2, <3>1, <4>1
    <3> QED BY <3>3, <3>4
  <2> QED BY <2>5, <2>6
<1>10. ASSUME ~(instrumented /\ c \in Mounted)
       PROVE  Passed' /\ RouteInStep'
  <2>1. paths' = paths
    BY <1>3, <1>10 DEF Entered
  <2>2. Passed'
    BY <1>3, <1>8, <2>1 DEF OInv, Passed
  <2>3. RouteInStep'
    <3> SUFFICES ASSUME orderly, ~koa
                 PROVE  /\ Keeps(paths, running', traced' \cap Mounted)
                        /\ ~stray => ToSet(paths) \subseteq ToSet(running')
      BY <1>3, <2>1 DEF RouteInStep
    <3>1. /\ Keeps(paths, running, traced \cap Mounted)
          /\ ~stray => ToSet(paths) \subseteq ToSet(running)
      BY DEF OInv, RouteInStep
    <3>2. Within(running, traced' \cap Mounted, traced \cap Mounted)
      BY <1>1, <1>3 DEF Within
    <3>3. c \notin traced' \cap Mounted
      BY <1>1, <1>3, <1>10
    <3>4. Keeps(paths, running', traced' \cap Mounted)
      BY <1>1, <1>2, <3>1, <3>2, <3>3, KeepsPush
    <3>5. ~stray => ToSet(paths) \subseteq ToSet(running')
      BY <1>2, <3>1
    <3> QED BY <3>4, <3>5
  <2> QED BY <2>2, <2>3
<1>11. OwnSpan'
  <2> SUFFICES ASSUME orderly
               PROVE  /\ Keeps(middleware', running', traced' \ taken)
                      /\ thrown = {} => ToSet(middleware') \subseteq ToSet(running')
    BY <1>3 DEF OwnSpan
  <2>1. /\ Keeps(middleware, running, traced \ taken)
        /\ thrown = {} => ToSet(middleware) \subseteq ToSet(running)
    BY DEF OInv, OwnSpan
  <2>2. Within(running, traced' \ taken, traced \ taken)
    BY <1>1, <1>3 DEF Within
  <2>3. CASE instrumented
    <3>1. middleware' = Append(middleware, c)
      BY <1>3, <2>3
    <3>2. Keeps(middleware', running', traced' \ taken)
      BY <1>1, <1>2, <2>1, <2>2, <3>1, KeepsPush
    <3>3. ToSet(middleware') = ToSet(middleware) \cup {c}
      BY <1>1, <3>1, ToSetAppend
    <3> QED BY <1>2, <2>1, <3>2, <3>3
  <2>4. CASE ~instrumented
    <3>1. middleware' = middleware /\ c \notin traced' \ taken
      BY <1>1, <1>3, <2>4
    <3>2. Keeps(middleware, running', traced' \ taken)
      BY <1>1, <1>2, <2>1, <2>2, <3>1, KeepsPush
    <3> QED BY <1>2, <2>1, <3>1, <3>2
  <2> QED BY <2>3, <2>4
<1> QED BY <1>6, <1>7, <1>9, <1>10, <1>11, HandleInv DEF OInv

\* Of the calls that run, one is gone: the last one, if this was in order.
LEMMA LeavesRunning ==
    ASSUME OInv, NEW c \in Call, Stops(c) \/ (c \in done /\ UNCHANGED running),
           done' = done \cup {c}, Ordered(c)
    PROVE  /\ Apart'
           /\ \A e : Contains(running, e) => e \in done' \/ Contains(running', e)
           /\ orderly' => /\ orderly /\ running # <<>> /\ Last(running) = c
                          /\ running' = Front(running)
<1> DEFINE n == Len(running)
<1>1. /\ n \in Nat /\ DOMAIN running = 1 .. n /\ running \in Seq(Call)
      /\ \A i, j \in 1 .. n : running[i] = running[j] => i = j
      /\ \A i \in 1 .. n : running[i] \notin done
  BY RunningAt DEF OInv, Apart, IsInjective
<1>2. orderly' => orderly /\ running # <<>> /\ Last(running) = c
  BY DEF Ordered
<1>3. running # <<>> => Last(running) = running[n] /\ n \in 1 .. n
  <2> SUFFICES ASSUME running # <<>> PROVE Last(running) = running[n] /\ n \in 1 .. n
    OBVIOUS
  <2>1. Last(running) = running[n] /\ n \in Nat /\ n > 0
    BY <1>1, FrontFacts
  <2> QED BY <2>1
<1>4. \A e : Contains(running, e) => e \in done' \/ Contains(running', e)
  BY <1>1, OthersRun DEF Stops
<1>5. CASE c \in done /\ running' = running
  <2>1. ~orderly'
    BY <1>1, <1>2, <1>3, <1>5
  <2>2. done' = done
    BY <1>5
  <2> QED BY <1>4, <1>5, <2>1, <2>2 DEF OInv, Apart
<1>6. ASSUME NEW i \in 1 .. n, running[i] = c, running' = RemoveAt(running, i)
      PROVE  Apart' /\ (orderly' => running' = Front(running))
  <2>1. /\ DOMAIN running' = 1 .. n - 1
        /\ \A k \in 1 .. n - 1 : running'[k] = IF k < i THEN running[k] ELSE running[k + 1]
        /\ i = n => running' = Front(running)
    BY <1>1, <1>6, RemoveAtIs
  <2> HIDE DEF n
  <2>2. \A k \in 1 .. n - 1 : k \in 1 .. n /\ k + 1 \in 1 .. n /\ k \in Int
    BY <1>1
  <2>3. ASSUME NEW j \in 1 .. n - 1, NEW k \in 1 .. n - 1, running'[j] = running'[k]
        PROVE  j = k
    <3>1. (IF j < i THEN j ELSE j + 1) = (IF k < i THEN k ELSE k + 1)
      BY <1>1, <2>1, <2>2, <2>3
    <3> QED BY <1>1, <2>2, <3>1
  <2>4. ASSUME NEW k \in 1 .. n - 1
        PROVE  running'[k] \notin done'
    <3>1. (IF k < i THEN k ELSE k + 1) # i
      BY <1>1, <2>2
    <3>2. running'[k] # c /\ running'[k] \notin done
      BY <1>1, <1>6, <2>1, <2>2, <3>1
    <3> QED BY <3>2
  <2>5. Apart'
    BY <2>1, <2>3, <2>4 DEF Apart, IsInjective
  <2>6. orderly' => i = n
    BY <1>1, <1>2, <1>3, <1>6
  <2> QED BY <2>1, <2>5, <2>6
<1> QED BY <1>1, <1>2, <1>4, <1>5, <1>6 DEF Stops

\* What is left when the last call is done in order: what concerned the calls
\* that run concerns fewer of them.
LEMMA InOrder ==
    ASSUME OInv, NEW c \in Call, running # <<>>, Last(running) = c,
           running' = Front(running), orderly, UNCHANGED <<traced, taken>>
    PROVE  /\ Below'
           /\ \A S : Within(running', S, S)
           /\ IsInjective(running)
           /\ c \in taken => \A k \in DOMAIN running' : running'[k] \notin traced \ taken
<1> DEFINE n == Len(running)
<1>1. /\ n \in Nat /\ n > 0 /\ DOMAIN running = 1 .. n /\ running[n] = c
      /\ DOMAIN running' = 1 .. n - 1 /\ \A k \in 1 .. n - 1 : running'[k] = running[k]
  BY RunningAt, FrontFacts
<1> HIDE DEF n
<1>2. /\ \A k \in 1 .. n - 1 : k \in 1 .. n /\ k < n
      /\ n \in 1 .. n
  BY <1>1
<1>3. \A k, l \in 1 .. n : k < l /\ running[l] \in taken /\ running[k] \in traced
                              => running[k] \in taken
  BY <1>1 DEF OInv, Below
<1>4. Below'
  <2> SUFFICES ASSUME NEW k \in 1 .. n - 1, NEW l \in 1 .. n - 1, k < l,
                      running'[l] \in taken, running'[k] \in traced
               PROVE  running'[k] \in taken
    BY <1>1 DEF Below
  <2> QED BY <1>1, <1>2, <1>3
<1>5. ASSUME c \in taken, NEW k \in 1 .. n - 1
      PROVE  running'[k] \notin traced \ taken
  BY <1>1, <1>2, <1>3, <1>5
<1> QED BY <1>1, <1>4, <1>5 DEF OInv, Apart, Within

\* The paths after a call that is done.
LEMMA PassedStays ==
    ASSUME OInv, NEW c \in Call, Stops(c) \/ (c \in done /\ UNCHANGED running),
           done' = done \cup {c}, Ordered(c), UNCHANGED traced,
           paths' = paths \/ (paths # <<>> /\ paths' = Front(paths))
    PROVE  Passed'
<1>1. \A i \in DOMAIN paths' : i \in DOMAIN paths /\ paths'[i] = paths[i]
  <2>1. CASE paths' = paths
    BY <2>1
  <2>2. CASE paths # <<>> /\ paths' = Front(paths)
    <3>1. /\ Len(paths) \in Nat /\ DOMAIN paths = 1 .. Len(paths)
          /\ DOMAIN paths' = 1 .. Len(paths) - 1
          /\ \A i \in 1 .. Len(paths) - 1 : paths'[i] = paths[i]
      BY <2>2, RunningAt, FrontFacts
    <3>2. \A i \in 1 .. Len(paths) - 1 : i \in 1 .. Len(paths)
      BY <3>1
    <3> QED BY <3>1, <3>2
  <2> QED BY <2>1, <2>2
<1>2. \A e : Contains(running, e) => e \in done' \/ Contains(running', e)
  BY LeavesRunning
<1>3. SUFFICES ASSUME NEW i \in DOMAIN paths'
               PROVE  paths'[i] \in done' \/ (paths'[i] \in traced' /\ Contains(running', paths'[i]))
  BY DEF Passed
<1>4. paths[i] \in done \/ (paths[i] \in traced /\ Contains(running, paths[i]))
  BY <1>1, <1>3 DEF OInv, Passed
<1> QED BY <1>1, <1>2, <1>3, <1>4

\* A call without a path of its own is not in the route.
LEMMA NoPath ==
    ASSUME OInv, running # <<>>, Last(running) \notin traced \cap Mounted
    PROVE  Last(running) \notin ToSet(paths)
<1>1. Len(running) \in DOMAIN running /\ Last(running) = running[Len(running)]
  <2>1. Len(running) \in Nat /\ Len(running) > 0 /\ Last(running) = running[Len(running)]
    BY RunningAt, FrontFacts
  <2> QED BY <2>1, RunningAt
<1>2. Last(running) \notin done
  BY <1>1 DEF OInv, Apart
<1>3. ASSUME NEW i \in DOMAIN paths, paths[i] = Last(running)
      PROVE  FALSE
  <2>1. paths[i] \in Mounted
    BY DEF OInv, IInv, TypeOK
  <2>2. paths[i] \in traced
    BY <1>2, <1>3 DEF OInv, Passed
  <2> QED BY <1>3, <2>1, <2>2
<1> QED BY <1>3 DEF ToSet

\* In order, the span on top is that of the call that leaves, or of one that
\* threw, or there is none.
LEMMA LeaveOwn ==
    ASSUME OInv, NEW c \in Call, NEW error \in BOOLEAN, Leave(c, error)
    PROVE  OInv'
<1>1. /\ running \in Seq(Call) /\ middleware \in Seq(Call) /\ paths \in Seq(Call)
      /\ UNCHANGED <<koa, traced, taken, thrown>> /\ done' = done \cup {c} /\ Ordered(c)
      /\ Stops(c) \/ (c \in done /\ UNCHANGED running)
  BY RunningAt DEF Leave
<1>2. /\ Apart'
      /\ orderly' => /\ orderly /\ running # <<>> /\ Last(running) = c
                     /\ running' = Front(running)
  BY <1>1, LeavesRunning
<1>3. IInv'
  BY LeaveInv DEF OInv
<1>4. Passed'
  <2>1. paths' = paths \/ (paths # <<>> /\ paths' = Front(paths))
    BY DEF Leave
  <2> QED BY <1>1, <2>1, PassedStays
<1>5. CASE ~orderly'
  BY <1>2, <1>3, <1>4, <1>5 DEF OInv, Below, OwnSpan, RouteInStep
<1>6. CASE orderly'
  <2>1. orderly /\ running # <<>> /\ Last(running) = c /\ running' = Front(running)
    BY <1>2, <1>6
  <2>2. /\ Below' /\ IsInjective(running) /\ \A S : Within(Front(running), S, S)
        /\ c \in taken => \A k \in DOMAIN Front(running) : Front(running)[k] \notin traced \ taken
    BY <1>1, <2>1, InOrder
  <2>3. /\ Keeps(middleware, running, traced \ taken)
        /\ thrown = {} => ToSet(middleware) \subseteq ToSet(running)
    BY <2>1 DEF OInv, OwnSpan
  <2>4. Within(Front(running), traced \ taken, traced \ taken)
    BY <2>2
  <2>5. OwnSpan'
    <3>1. CASE c \notin traced
      <4>1. middleware' = middleware /\ c \notin traced \ taken
        BY <3>1 DEF Leave
      <4>2. c \notin ToSet(middleware)
        BY <3>1 DEF OInv, IInv, TypeOK
      <4>3. /\ Keeps(middleware, Front(running), traced \ taken)
            /\ ToSet(middleware) \subseteq ToSet(running) => ToSet(middleware) \subseteq ToSet(Front(running))
        BY <1>1, <2>1, <2>2, <2>3, <2>4, <4>2, KeepsPop
      <4> QED BY <1>1, <2>1, <2>3, <4>1, <4>3 DEF OwnSpan
    <3>2. CASE c \in traced /\ middleware = <<>>
      <4>1. middleware' = middleware
        BY <3>2 DEF Leave, Finish
      <4>2. Keeps(middleware, Front(running), traced \ taken)
        BY <1>1, <2>1, <2>2, <2>3, <2>4, KeepsPop
      <4>3. ToSet(middleware) = {}
        BY <3>2 DEF ToSet
      <4> QED BY <1>1, <2>1, <4>1, <4>2, <4>3 DEF OwnSpan
    <3>3. CASE c \in traced /\ middleware # <<>>
      <4>1. middleware' = Front(middleware)
        BY <3>3 DEF Leave, Finish
      <4>2. c \in traced \ taken \/ \A k \in DOMAIN Front(running) : Front(running)[k] \notin traced \ taken
        BY <2>2, <3>3
      <4>3. Keeps(Front(middleware), Front(running), traced \ taken)
        BY <1>1, <2>1, <2>2, <2>3, <2>4, <3>3, <4>2, KeepsPop
      <4>4. ASSUME thrown = {}
            PROVE  ToSet(Front(middleware)) \subseteq ToSet(Front(running))
        <5>1. ToSet(middleware) \subseteq ToSet(running)
          BY <2>3, <4>4
        <5>2. CASE c \in traced \ taken
          BY <1>1, <2>1, <2>2, <2>3, <2>4, <5>1, <5>2, KeepsPop
        <5>3. CASE c \notin traced \ taken
          <6>1. c \notin ToSet(middleware)
            BY <3>3, <5>3 DEF OInv, IInv, TypeOK
          <6>2. ToSet(middleware) \subseteq ToSet(Front(running))
            BY <1>1, <2>1, <2>2, <2>3, <2>4, <5>1, <6>1, KeepsPop
          <6>3. /\ Len(middleware) \in Nat
                /\ DOMAIN middleware = 1 .. Len(middleware)
                /\ DOMAIN Front(middleware) = 1 .. Len(middleware) - 1
                /\ \A i \in 1 .. Len(middleware) - 1 : Front(middleware)[i] = middleware[i]
            BY <1>1, <3>3, FrontFacts
          <6>4. \A i \in 1 .. Len(middleware) - 1 : i \in 1 .. Len(middleware)
            BY <6>3
          <6>5. ToSet(Front(middleware)) \subseteq ToSet(middleware)
            BY <6>3, <6>4 DEF ToSet
          <6> QED BY <6>2, <6>5
        <5> QED BY <5>2, <5>3
      <4> QED BY <1>1, <2>1, <4>1, <4>3, <4>4 DEF OwnSpan
    <3> QED BY <3>1, <3>2, <3>3
  <2>6. RouteInStep'
    <3> DEFINE T == traced \cap Mounted
    <3> SUFFICES ASSUME ~koa
                 PROVE  /\ Keeps(paths', running', T)
                        /\ ~stray' => ToSet(paths') \subseteq ToSet(running')
      BY <1>1 DEF RouteInStep
    <3>1. Keeps(paths, running, T) /\ (~stray => ToSet(paths) \subseteq ToSet(running))
      BY <2>1 DEF OInv, RouteInStep
    <3>2. Within(Front(running), T, T)
      BY <2>2
    <3>3. c \in T <=> c \in traced /\ c \in Mounted
      OBVIOUS
    <3> HIDE DEF T
    <3>4. Keeps(paths, Front(running), T) /\ (c \in T => paths # <<>>)
      BY <1>1, <2>1, <2>2, <3>1, <3>2, KeepsPop
    <3>5. CASE c \in T /\ Leaves(c, error)
      <4>1. paths # <<>> /\ paths' = Front(paths) /\ (stray => stray')
        BY <3>3, <3>4, <3>5 DEF Leave
      <4>2. Keeps(Front(paths), Front(running), T)
        BY <1>1, <2>1, <2>2, <3>1, <3>2, <3>5, <4>1, KeepsPop
      <4>3. ToSet(paths) \subseteq ToSet(running) => ToSet(Front(paths)) \subseteq ToSet(Front(running))
        BY <1>1, <2>1, <2>2, <3>1, <3>2, <3>5, KeepsPop
      <4> QED BY <2>1, <3>1, <4>1, <4>2, <4>3
    <3>6. CASE c \in T /\ ~Leaves(c, error)
      <4>1. paths' = paths /\ stray'
        BY <3>3, <3>6 DEF Leave
      <4> QED BY <2>1, <3>4, <4>1
    <3>7. CASE c \notin T
      <4>1. paths' = paths /\ (stray => stray')
        BY <3>3, <3>7 DEF Leave, Leaves
      <4>2. c \notin ToSet(paths)
        BY <2>1, <3>7, NoPath DEF T
      <4>3. ToSet(paths) \subseteq ToSet(running) => ToSet(paths) \subseteq ToSet(Front(running))
        BY <1>1, <2>1, <2>2, <3>1, <3>2, <4>2, KeepsPop
      <4> QED BY <2>1, <3>1, <3>4, <4>1, <4>3
    <3> QED BY <3>5, <3>6, <3>7
  <2> QED BY <1>2, <1>3, <1>4, <2>2, <2>5, <2>6 DEF OInv
<1> QED BY <1>5, <1>6

\* A call that throws leaves the stack and the route as they are.
LEMMA ThrowOwn ==
    ASSUME OInv, NEW c \in Call, Throw(c)
    PROVE  OInv'
<1>1. /\ running \in Seq(Call) /\ middleware \in Seq(Call) /\ paths \in Seq(Call)
      /\ UNCHANGED <<koa, middleware, paths, traced, taken>>
      /\ thrown' = thrown \cup ({c} \cap traced)
      /\ stray' = (stray \/ c \in traced \cap Mounted)
      /\ done' = done \cup {c} /\ Ordered(c) /\ Stops(c)
  BY RunningAt DEF Throw, request
<1>2. /\ Apart'
      /\ orderly' => /\ orderly /\ running # <<>> /\ Last(running) = c
                     /\ running' = Front(running)
  BY <1>1, LeavesRunning
<1>3. Passed'
  BY <1>1, PassedStays
<1>4. CASE ~orderly'
  BY <1>2, <1>3, <1>4, ThrowInv DEF OInv, Below, OwnSpan, RouteInStep
<1>5. CASE orderly'
  <2>1. orderly /\ running # <<>> /\ Last(running) = c /\ running' = Front(running)
    BY <1>2, <1>5
  <2>2. Below' /\ IsInjective(running) /\ \A S : Within(Front(running), S, S)
    BY <1>1, <2>1, InOrder
  <2>3. OwnSpan'
    <3>1. /\ Keeps(middleware, running, traced \ taken)
          /\ thrown = {} => ToSet(middleware) \subseteq ToSet(running)
      BY <2>1 DEF OInv, OwnSpan
    <3>2. Within(Front(running), traced \ taken, traced \ taken)
      BY <2>2
    <3>3. Keeps(middleware, Front(running), traced \ taken)
      BY <1>1, <2>1, <2>2, <3>1, <3>2, KeepsPop
    <3>4. ASSUME thrown' = {}
          PROVE  ToSet(middleware) \subseteq ToSet(Front(running))
      <4>1. thrown = {} /\ c \notin traced
        BY <1>1, <3>4
      <4>2. c \notin ToSet(middleware)
        BY <4>1 DEF OInv, IInv, TypeOK
      <4> QED BY <1>1, <2>1, <2>2, <3>1, <3>2, <4>1, <4>2, KeepsPop
    <3> QED BY <1>1, <2>1, <3>3, <3>4 DEF OwnSpan
  <2>4. RouteInStep'
    <3> DEFINE T == traced \cap Mounted
    <3> SUFFICES ASSUME ~koa
                 PROVE  /\ Keeps(paths, Front(running), T)
                        /\ ~stray' => ToSet(paths) \subseteq ToSet(Front(running))
      BY <1>1, <2>1 DEF RouteInStep
    <3>1. Keeps(paths, running, T) /\ (~stray => ToSet(paths) \subseteq ToSet(running))
      BY <2>1 DEF OInv, RouteInStep
    <3>2. Within(Front(running), T, T)
      BY <2>2
    <3>3. Keeps(paths, Front(running), T)
      BY <1>1, <2>1, <2>2, <3>1, <3>2, KeepsPop
    <3>4. ASSUME ~stray'
          PROVE  ToSet(paths) \subseteq ToSet(Front(running))
      <4>1. ~stray /\ c \notin traced \cap Mounted
        BY <1>1, <3>4
      <4>2. c \notin ToSet(paths)
        BY <2>1, <4>1, NoPath
      <4> QED BY <1>1, <2>1, <2>2, <3>1, <3>2, <4>1, <4>2, KeepsPop
    <3> QED BY <3>3, <3>4
  <2> QED BY <1>2, <1>3, <2>2, <2>3, <2>4, ThrowInv DEF OInv
<1> QED BY <1>4, <1>5

\* A layer that is matched and not called adds a path, at most.
LEMMA SkippedOwn ==
    ASSUME OInv, NEW c \in Call, Skipped(c)
    PROVE  OInv'
<1>1. /\ running \in Seq(Call) /\ middleware \in Seq(Call) /\ paths \in Seq(Call)
      /\ c \notin traced /\ \A k \in DOMAIN running : running[k] # c
      /\ \A i \in DOMAIN paths : paths[i] # c
  BY RunningAt DEF Skipped
<1>2. /\ UNCHANGED <<koa, middleware, ended, traced, running, orderly, thrown, taken>>
      /\ done' = done \cup {c} /\ stray' = (stray \/ instrumented) /\ ~koa
      /\ paths' = IF instrumented THEN Append(paths, c) ELSE paths
  BY DEF Skipped, Entered
<1>3. Apart' /\ Below' /\ OwnSpan'
  BY <1>1, <1>2 DEF OInv, Apart, Below, OwnSpan
<1>4. CASE ~instrumented
  <2>1. Passed' /\ RouteInStep'
    BY <1>2, <1>4 DEF OInv, Passed, RouteInStep
  <2> QED BY <1>3, <2>1, NextInv DEF OInv, Next
<1>5. CASE instrumented
  <2>1. /\ Len(paths) \in Nat /\ DOMAIN paths = 1 .. Len(paths)
        /\ DOMAIN paths' = 1 .. Len(paths) + 1 /\ paths'[Len(paths) + 1] = c
        /\ \A i \in 1 .. Len(paths) : paths'[i] = paths[i]
    BY <1>1, <1>2, <1>5, AppendFacts
  <2>2. \A i \in 1 .. Len(paths) + 1 : i = Len(paths) + 1 \/ i \in 1 .. Len(paths)
    BY <2>1
  <2>3. Passed'
    BY <1>2, <2>1, <2>2 DEF OInv, Passed
  <2>4. RouteInStep'
    <3> SUFFICES ASSUME orderly PROVE Keeps(paths', running, traced \cap Mounted)
      BY <1>2, <1>5 DEF RouteInStep
    <3>1. Keeps(paths, running, traced \cap Mounted)
      BY <1>2 DEF OInv, RouteInStep
    <3>2. Within(running, traced \cap Mounted, traced \cap Mounted)
      BY DEF Within
    <3> QED BY <1>1, <1>2, <1>5, <3>1, <3>2, KeepsPush
  <2> QED BY <1>3, <2>3, <2>4, NextInv DEF OInv, Next
<1> QED BY <1>4, <1>5

LEMMA EndOwn ==
    ASSUME OInv, NEW fails \in BOOLEAN, End(fails)
    PROVE  OInv'
<1>1. /\ middleware' = <<>> /\ taken' = taken \cup ToSet(middleware)
      /\ UNCHANGED <<koa, paths, running, traced, done, orderly, thrown, stray>>
  BY DEF End, calls
<1>2. DOMAIN <<>> = {} /\ ToSet(<<>>) = {}
  BY DEF ToSet
<1>3. orderly => \A k \in DOMAIN running : running[k] \in traced => running[k] \in taken'
  <2> SUFFICES ASSUME orderly, NEW k \in DOMAIN running, running[k] \in traced, running[k] \notin taken
               PROVE  running[k] \in ToSet(middleware)
    BY <1>1
  <2>1. Keeps(middleware, running, traced \ taken)
    BY DEF OInv, OwnSpan
  <2>2. running[k] \in ToSet(running) \cap (traced \ taken)
    BY DEF ToSet
  <2> QED BY <2>1, <2>2 DEF Keeps
<1>4. OwnSpan'
  <2> SUFFICES ASSUME orderly PROVE Keeps(<<>>, running, traced \ taken')
    BY <1>1, <1>2 DEF OwnSpan
  <2>1. Kept(<<>>, running, traced \ taken', {}, DOMAIN running)
    BY <1>3 DEF Kept
  <2> QED BY <1>2, <2>1, KeepsKept
<1>5. Below' /\ Apart' /\ Passed' /\ RouteInStep'
  BY <1>1, <1>3 DEF OInv, Below, Apart, Passed, RouteInStep
<1> QED BY <1>4, <1>5, EndInv DEF OInv

LEMMA OwnStep ==
    ASSUME OInv, [Next]_vars
    PROVE  OInv'
<1>1. IInv'
  BY NextInv DEF OInv
<1>2. ASSUME Instrument \/ UNCHANGED vars \/ \E c \in Call : TriedElsewhere(c)
      PROVE  OInv'
  <2>1. UNCHANGED <<koa, middleware, paths, ended, traced, running, done,
                    orderly, thrown, taken, stray>>
    BY <1>2 DEF Instrument, TriedElsewhere, vars, request, calls, history
  <2> QED BY <1>1, <2>1 DEF OInv, Apart, Below, Passed, OwnSpan, RouteInStep
<1> QED BY <1>2, HandleOwn, LeaveOwn, ThrowOwn, SkippedOwn, EndOwn DEF Next

LEMMA Orderly == Spec => []OInv
BY OwnInit, OwnStep, PTL DEF Spec

\* As long as the layers end in order, none loses its span before it is done
\* but to the end of the response, and each ends its own while none has thrown.
THEOREM EndsItsOwnSpan == Spec => []OwnSpan
<1>1. OInv => OwnSpan
  BY DEF OInv
<1> QED BY <1>1, Orderly, PTL

\* And the route has the paths of the layers that the request is in, and no
\* others while none was left behind.
THEOREM RouteOfLayers == Spec => []RouteInStep
<1>1. OInv => RouteInStep
  BY DEF OInv
<1> QED BY <1>1, Orderly, PTL
====
