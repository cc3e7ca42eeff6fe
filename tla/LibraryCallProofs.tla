---- MODULE LibraryCallProofs ----
(***************************************************************************)
(* The context of callbacks, for any set of calls and any operations whose *)
(* wrappers bind their callbacks before the library is called.             *)
(***************************************************************************)
EXTENDS LibraryCall, FiniteSetTheorems, TLAPS

\* The frames, and the spans that are kept from frame to frame.
Frames ==
    /\ stack \in Seq(Frame)
    /\ \A i \in 1 .. Len(stack) : stack[i].cause # Anyone => stack[i].span = stack[i].cause

Kept ==
    /\ op \in [Call -> SUBSET Operations]
    /\ span \in [Call -> Spans] /\ parent \in [Call -> Spans]
    /\ saved \in [Call -> Spans] /\ caller \in [Call -> Spans \cup {Anyone}]
    /\ \A c \in Call : caller[c] # Anyone => saved[c] = caller[c]

IInv == Frames /\ Kept /\ SilentUpload

LEMMA FramesInit == Init => IInv
<1> SUFFICES ASSUME Init PROVE IInv
    OBVIOUS
<1>1. Frames BY DEF Init, Frames
<1>2. Kept BY DEF Init, Kept, Spans
<1>3. SilentUpload
  BY CallAssumption DEF Init, SilentUpload
<1>4. QED BY <1>1, <1>2, <1>3 DEF IInv

LEMMA AppendFacts ==
    ASSUME NEW F, NEW q \in Seq(F), NEW f \in F
    PROVE /\ Append(q, f) \in Seq(F) /\ Len(Append(q, f)) = Len(q) + 1
          /\ \A i \in 1 .. Len(q) : Append(q, f)[i] = q[i]
          /\ Append(q, f)[Len(q) + 1] = f
          /\ <<f>> \in Seq(F) /\ Len(<<f>>) = 1 /\ <<f>>[1] = f
  OBVIOUS

LEMMA FrontFacts ==
    ASSUME NEW F, NEW q \in Seq(F), q # <<>>
    PROVE /\ Front(q) \in Seq(F) /\ Len(Front(q)) \in Nat /\ Len(Front(q)) <= Len(q)
          /\ \A i \in 1 .. Len(Front(q)) : Front(q)[i] = q[i]
          /\ Last(q) \in F /\ Len(q) \in 1 .. Len(q)
<1>1. Len(q) \in Nat /\ Len(q) > 0 OBVIOUS
<1>2. QED BY <1>1 DEF Front, Last

\* A step that only leaves the innermost frame, or enters one that is true to
\* its cause, keeps the frames.
LEMMA Push ==
    ASSUME Frames, NEW f \in Frame,
           f.cause # Anyone => f.span = f.cause,
           stack' = Append(stack, f) \/ stack' = <<f>>
    PROVE Frames'
<1>1. CASE stack' = Append(stack, f)
  BY <1>1, AppendFacts DEF Frames
<1>2. CASE stack' = <<f>>
  BY <1>2, AppendFacts DEF Frames
<1>3. QED BY <1>1, <1>2

LEMMA Pop == ASSUME Frames, stack # <<>>, stack' = Front(stack) PROVE Frames'
  BY FrontFacts DEF Frames

LEMMA Innermost ==
    ASSUME Frames, stack # <<>>
    PROVE /\ Active \in Spans /\ Top.cause \in Spans \cup {Anyone}
          /\ Top.cause # Anyone => Active = Top.cause
<1>1. Top \in Frame /\ Len(stack) \in 1 .. Len(stack)
  BY FrontFacts DEF Frames, Top
<1>2. QED BY <1>1 DEF Frames, Active, Top, Last, Frame

LEMMA SpanForType ==
    ASSUME NEW c \in Call, NEW o \in Operations, NEW below \in Spans
    PROVE /\ SpanFor(c, o, below) \in Spans
          /\ below = Noop /\ o.span # "root" => SpanFor(c, o, below) # c
  BY CallAssumption DEF SpanFor, Spans

LEMMA StartKeeps ==
    ASSUME IInv, NEW c \in Call, NEW o \in Operations, Start(c, o)
    PROVE IInv'
<1> DEFINE below == IF o.span = "built" THEN parent[c] ELSE Active
           s     == SpanFor(c, o, below)
           f     == [of |-> c, part |-> "inside", span |-> IF o.active THEN s ELSE Active,
                     cause |-> IF o.active THEN s ELSE Top.cause]
<1>1. /\ stack # <<>>
      /\ parent' = [parent EXCEPT ![c] = None] /\ span' = [span EXCEPT ![c] = s]
      /\ saved' = [saved EXCEPT ![c] = Active] /\ caller' = [caller EXCEPT ![c] = Top.cause]
      /\ stack' = Append(stack, f) /\ op' = [op EXCEPT ![c] = {o}]
  BY DEF Start, Bound
<1>2. /\ Active \in Spans /\ Top.cause \in Spans \cup {Anyone}
      /\ Top.cause # Anyone => Active = Top.cause
  BY <1>1, Innermost DEF IInv
<1>3. below \in Spans
  BY <1>2 DEF IInv, Kept
<1>4. /\ s \in Spans
      /\ below = Noop /\ o.span # "root" => s # c
  BY <1>3, SpanForType
<1> HIDE DEF below, s
<1>5. Frames'
  <2>1. f \in Frame
    BY <1>2, <1>4 DEF Frame
  <2>2. f.cause # Anyone => f.span = f.cause
    BY <1>2
  <2> HIDE DEF f
  <2>3. QED BY <1>1, <2>1, <2>2, Push DEF IInv
<1>6. Kept'
  BY <1>1, <1>2, <1>4 DEF IInv, Kept, Spans
<1>7. SilentUpload'
  <2> SUFFICES ASSUME NEW d \in Call, caller'[d] = Noop
               PROVE span'[d] # d \/ \E q \in op'[d] : q.span \in {"root", "built"}
    BY DEF SilentUpload
  <2>1. CASE d # c
    BY <1>1, <2>1 DEF IInv, SilentUpload, Kept
  <2>2. CASE d = c /\ o.span \in {"root", "built"}
    BY <1>1, <2>2 DEF IInv, Kept
  <2>3. CASE d = c /\ o.span \notin {"root", "built"}
    <3>1. Top.cause = Noop BY <1>1, <2>3 DEF IInv, Kept
    <3>2. Active = Noop BY <3>1, <1>2, CallAssumption
    <3>3. below = Noop BY <3>2, <2>3 DEF below
    <3>4. s # c BY <3>3, <1>4, <2>3
    <3>5. span'[c] = s BY <1>1 DEF IInv, Kept
    <3>6. QED BY <3>4, <3>5, <2>3
  <2>4. QED BY <2>1, <2>2, <2>3
<1>8. QED BY <1>5, <1>6, <1>7 DEF IInv

LEMMA DeliverKeeps ==
    ASSUME IInv,
           NEW c \in Call, NEW e, NEW where \in Spans, Deliver(c, e, where)
    PROVE IInv'
<1>1. PICK o \in op[c] :
        stack' = IF o.callback = "silent" THEN stack
                 ELSE Append(stack, Callback(c, o, where))
  BY DEF Deliver
<1>2. o \in Operations
  BY DEF IInv, Kept
<1>3. UNCHANGED <<op, span, parent, saved, caller>>
  BY DEF Deliver
<1>4. Kept' /\ SilentUpload'
  BY <1>3 DEF IInv, Kept, SilentUpload
<1>5. Frames'
  <2> DEFINE f == Callback(c, o, where)
  <2>1. CASE o.callback = "silent"
    BY <1>1, <2>1 DEF IInv, Frames
  <2>2. CASE o.callback # "silent"
    <3>1. f \in Frame
      BY DEF Callback, IInv, Kept, Frame
    <3>2. f.cause # Anyone => f.span = f.cause
      <4> SUFFICES ASSUME f.cause # Anyone PROVE f.span = f.cause
          OBVIOUS
      <4>1. o \notin Unbound /\ f.cause = caller[c] BY DEF Callback
      <4>2. o.callback \in {"bound", "unbound", "silent"}
        BY <1>2, CallAssumption DEF Operation
      <4>3. o.callback = "bound" BY <4>1, <4>2, <2>2, <1>2, TableAssumption
      <4>4. f.span = saved[c] BY <4>3 DEF Callback
      <4>5. QED BY <4>1, <4>4 DEF IInv, Kept
    <3>3. stack' = Append(stack, f) BY <1>1, <2>2
    <3> HIDE DEF f
    <3>4. QED BY <3>1, <3>2, <3>3, Push DEF IInv
  <2>3. QED BY <2>1, <2>2
<1>6. QED BY <1>4, <1>5 DEF IInv

LEMMA StepKeeps ==
    ASSUME IInv, [Next]_vars PROVE IInv'
<1> DEFINE Same == UNCHANGED <<op, span, parent, saved, caller>>
<1>0. Same => Kept' /\ SilentUpload'
  BY DEF IInv, Kept, SilentUpload
<1>1. CASE UNCHANGED vars
  <2>1. Same /\ stack' = stack BY <1>1 DEF vars
  <2>2. QED BY <2>1, <1>0 DEF IInv, Frames
<1>2. ASSUME NEW s \in Root \cup {None, Noop}, Enter(s) PROVE IInv'
  <2> DEFINE f == [of |-> None, part |-> "app", span |-> s, cause |-> s]
  <2>1. Same /\ stack' = <<f>> BY <1>2 DEF Enter
  <2>2. f \in Frame
    BY DEF Spans, Frame
  <2>3. f.span = f.cause OBVIOUS
  <2> HIDE DEF f
  <2>4. Frames' BY <2>1, <2>2, <2>3, Push DEF IInv
  <2>5. QED BY <2>1, <2>4, <1>0 DEF IInv
<1>3. CASE Leave
  <2>1. Same /\ stack # <<>> /\ stack' = Front(stack) BY <1>3 DEF Leave
  <2>2. QED BY <2>1, <1>0, Pop DEF IInv
<1>4. ASSUME NEW c \in Call, NEW o \in Operations, Build(c, o) PROVE IInv'
  <2>1. /\ stack # <<>> /\ stack' = stack
        /\ op' = [op EXCEPT ![c] = {o}] /\ parent' = [parent EXCEPT ![c] = Active]
        /\ UNCHANGED <<span, saved, caller>>
        /\ o.span = "built"
    BY <1>4 DEF Build
  <2>2. Active \in Spans BY <2>1, Innermost DEF IInv
  <2>3. Frames' BY <2>1 DEF IInv, Frames
  <2>4. Kept' BY <2>1, <2>2 DEF IInv, Kept
  <2>5. SilentUpload'
    <3> SUFFICES ASSUME NEW d \in Call, caller'[d] = Noop
                 PROVE span'[d] # d \/ \E q \in op'[d] : q.span \in {"root", "built"}
      BY DEF SilentUpload
    <3>1. CASE d # c
      BY <2>1, <3>1 DEF IInv, SilentUpload, Kept
    <3>2. CASE d = c
      <4>1. op'[d] = {o} BY <2>1, <3>2 DEF IInv, Kept
      <4>2. QED BY <4>1, <2>1
    <3>3. QED BY <3>1, <3>2
  <2>6. QED BY <2>3, <2>4, <2>5 DEF IInv
<1>5. ASSUME NEW c \in Call, NEW o \in Operations, Start(c, o) PROVE IInv'
  BY <1>5, StartKeeps
<1>6. ASSUME NEW c \in Call, Return(c) \/ Throw(c) PROVE IInv'
  <2>1. Same /\ stack # <<>> /\ stack' = Front(stack)
    BY <1>6 DEF Return, Throw, InsideOf
  <2>2. QED BY <2>1, <1>0, Pop DEF IInv
<1>7. ASSUME NEW c \in Call, Resume(c) PROVE IInv'
  <2> DEFINE f == [of |-> c, part |-> "app", span |-> span[c], cause |-> span[c]]
  <2>1. Same /\ stack' = <<f>> BY <1>7 DEF Resume
  <2>2. f \in Frame
    BY DEF IInv, Kept, Frame
  <2>3. f.span = f.cause OBVIOUS
  <2> HIDE DEF f
  <2>4. Frames' BY <2>1, <2>2, <2>3, Push DEF IInv
  <2>5. QED BY <2>1, <2>4, <1>0 DEF IInv
<1>8. ASSUME NEW c \in Call, NEW e, NEW where \in Spans, Deliver(c, e, where)
      PROVE IInv'
  BY <1>8, DeliverKeeps
<1>9. QED BY <1>1, <1>2, <1>3, <1>4, <1>5, <1>6, <1>7, <1>8 DEF Next

\* Whatever a library does with its callbacks, the code behind a bound one
\* runs with the span of the code that made the call.
THEOREM CallbacksInContext ==
    Spec => []CallersContext
<1>1. Init => IInv BY FramesInit
<1>2. IInv /\ [Next]_vars => IInv' BY StepKeeps
<1>3. IInv => CallersContext
  BY DEF IInv, Frames, CallersContext
<1>4. QED BY <1>1, <1>2, <1>3, PTL DEF Spec

\* And nothing that the writer's request does makes a span to be sent.
THEOREM NothingOfTheWriter ==
    Spec => []SilentUpload
<1>1. Init => IInv BY FramesInit
<1>2. IInv /\ [Next]_vars => IInv' BY StepKeeps
<1>3. IInv => SilentUpload BY DEF IInv
<1>4. QED BY <1>1, <1>2, <1>3, PTL DEF Spec

----------------------------------------------------------------------------
\* How calls end.

\* A span that follows its own call: it is finished by the first outcome that
\* ends it, and has an error just if it heard of one that its plugin records.
Finishes(c, o) ==
    span[c] = c =>
        /\ o.span # "none"
        /\ o.queue # "other" =>
              /\ known[c] \cap o.ends # {} => Ended(c)
              /\ c \in erred <=> Heard(c) \cap o.tags # {}

\* What operation o can tell.
Tells(o) == o.events \cup Thrown \cup {"return"}

\* A call is of one operation, nothing is known of it before it is made, and
\* what was told of it and finishes its span has finished it.
Told ==
    \A c \in Call :
        /\ op[c] = {} \/ \E o \in Operations : op[c] = {o}
        /\ phase[c] \in {"new", "built"} =>
              known[c] = {} /\ outcome[c] = {} /\ span[c] = None /\ c \notin erred
        /\ \A o \in op[c] : Finishes(c, o)

\* What a span heard is what its operation tells.
Within ==
    \A c \in Call : \A o \in op[c] :
        known[c] \subseteq Tells(o) /\ (o.queue # "other" => outcome[c] \subseteq Tells(o))

OInv == IInv /\ TypeOK /\ Told /\ Within

LEMMA OneOperation ==
    ASSUME NEW S, S = {} \/ \E o \in Operations : S = {o}
    PROVE  S \subseteq Operations /\ Cardinality(S) <= 1
<1>1. CASE S = {}
  BY <1>1, FS_EmptySet
<1>2. ASSUME NEW o \in Operations, S = {o}
      PROVE  S \subseteq Operations /\ Cardinality(S) <= 1
  <2>1. Cardinality({o}) = 1
    BY FS_Singleton
  <2> QED BY <1>2, <2>1
<1> QED BY <1>1, <1>2

\* A step that tells nothing and starts no span.
LEMMA QuietStep ==
    ASSUME OInv, IInv', UNCHANGED <<op, phase, span, parent, saved, caller, rides, known, outcome, erred>>
    PROVE  OInv'
<1>1. TypeOK'
  BY DEF OInv, TypeOK, IInv, Frames
<1>2. Told'
  BY DEF OInv, Told, Finishes, Ended, Heard
<1>3. Within'
  BY DEF OInv, Within
<1> QED BY <1>1, <1>2, <1>3 DEF OInv

LEMMA OutcomeInit == Init => OInv
<1> SUFFICES ASSUME Init PROVE OInv
  OBVIOUS
<1>1. IInv
  BY FramesInit
<1>2. TypeOK
  BY <1>1, FS_EmptySet DEF Init, TypeOK, IInv, Frames, Spans
<1>3. Told
  BY DEF Init, Told
<1>4. Within
  BY DEF Init, Within
<1> QED BY <1>1, <1>2, <1>3, <1>4 DEF OInv

LEMMA BuildOutcome ==
    ASSUME OInv, IInv', NEW c \in Call, NEW o \in Operations, Build(c, o)
    PROVE  OInv'
<1>1. /\ phase[c] = "new" /\ op' = [op EXCEPT ![c] = {o}]
      /\ phase' = [phase EXCEPT ![c] = "built"]
      /\ UNCHANGED <<span, saved, caller, rides, known, outcome, erred>>
  BY DEF Build
<1>2. \A d \in Call : /\ op'[d] = IF d = c THEN {o} ELSE op[d]
                      /\ phase'[d] = IF d = c THEN "built" ELSE phase[d]
  BY <1>1 DEF OInv, IInv, Kept, TypeOK
<1>3. span[c] = None /\ None # c /\ known[c] = {} /\ outcome[c] = {}
  BY <1>1, CallAssumption DEF OInv, Told
<1>4. Told' /\ Within'
  BY <1>1, <1>2, <1>3 DEF OInv, Told, Within, Finishes, Ended, Heard
<1>5. TypeOK'
  <2>1. \A d \in Call : op'[d] \subseteq Operations /\ Cardinality(op'[d]) <= 1
    BY <1>4, OneOperation DEF Told
  <2>2. parent' \in [Call -> Spans] /\ stack' \in Seq(Frame)
    BY DEF IInv, Kept, Frames
  <2>3. phase' \in [Call -> {"new", "built", "inside", "pending", "over"}]
    BY <1>1 DEF OInv, TypeOK
  <2> QED BY <1>1, <2>1, <2>2, <2>3 DEF OInv, TypeOK
<1> QED BY <1>4, <1>5 DEF OInv

LEMMA StartOutcome ==
    ASSUME OInv, IInv', NEW c \in Call, NEW o \in Operations, Start(c, o)
    PROVE  OInv'
<1>1. PICK below, s :
         /\ s = SpanFor(c, o, below) /\ span' = [span EXCEPT ![c] = s]
         /\ phase[c] \in {"new", "built"}
         /\ op' = [op EXCEPT ![c] = {o}] /\ phase' = [phase EXCEPT ![c] = "inside"]
         /\ UNCHANGED <<rides, known, outcome, erred>>
  BY DEF Start
<1>2. s \in {c, None, Noop} /\ (s = c => o.span # "none")
  BY <1>1, CallAssumption DEF SpanFor
<1>3. \A d \in Call : /\ op'[d] = IF d = c THEN {o} ELSE op[d]
                      /\ phase'[d] = IF d = c THEN "inside" ELSE phase[d]
                      /\ span'[d] = IF d = c THEN s ELSE span[d]
  BY <1>1 DEF OInv, IInv, Kept, TypeOK
<1>4. known[c] = {} /\ outcome[c] = {} /\ c \notin erred
  BY <1>1 DEF OInv, Told
<1>5. Told' /\ Within'
  BY <1>1, <1>2, <1>3, <1>4 DEF OInv, Told, Within, Finishes, Ended, Heard
<1>6. TypeOK'
  <2>1. \A d \in Call : op'[d] \subseteq Operations /\ Cardinality(op'[d]) <= 1
    BY <1>5, OneOperation DEF Told
  <2>2. /\ stack' \in Seq(Frame) /\ parent' \in [Call -> Spans]
        /\ saved' \in [Call -> Spans] /\ caller' \in [Call -> Spans \cup {Anyone}]
    BY DEF IInv, Kept, Frames
  <2>3. phase' \in [Call -> {"new", "built", "inside", "pending", "over"}]
    BY <1>1 DEF OInv, TypeOK
  <2>4. span' \in [Call -> Call \cup {None, Noop}]
    BY <1>1, <1>2 DEF OInv, TypeOK
  <2> QED BY <1>1, <2>1, <2>2, <2>3, <2>4 DEF OInv, TypeOK
<1> QED BY <1>5, <1>6 DEF OInv

\* What Return, Throw and Deliver have in common.
LEMMA TellOutcome ==
    ASSUME OInv, IInv', NEW d \in Call, NEW o \in op[d], NEW e \in Outcome, Tell(d, e),
           e \in Tells(o),
           NEW next \in {"inside", "pending", "over"}, phase' = [phase EXCEPT ![d] = next],
           rides' \in [Call -> SUBSET Call],
           UNCHANGED <<op, span, parent, saved, caller>>
    PROVE  OInv'
<1>1. op[d] = {o} /\ o \in Operations
  BY DEF OInv, Told
<1>2. /\ known' \in [Call -> SUBSET Outcome]
      /\ \A c \in Call : known'[c] = IF c = d THEN known[d] \cup {e} ELSE known[c]
      /\ \A c \in Call : phase'[c] = IF c = d THEN next ELSE phase[c]
  BY DEF Tell, OInv, TypeOK
<1>3. /\ outcome' \in [Call -> SUBSET Outcome]
      /\ \A c \in Call : outcome'[c] = IF c \in EndedBy(d, e) THEN known'[d] ELSE outcome[c]
  BY <1>2 DEF Tell, OInv, TypeOK
<1>4. erred' = erred \cup TaggedBy(d, e) /\ TaggedBy(d, e) \subseteq Call
  BY DEF Tell, TaggedBy, Hearing
<1>5. ASSUME NEW c \in Call, c \notin Hearing(d)
      PROVE  outcome'[c] = outcome[c] /\ (c \in erred' <=> c \in erred)
  BY <1>3, <1>4, <1>5 DEF EndedBy, TaggedBy
<1>6. ASSUME NEW c \in Call, NEW q \in op[c], q.queue # "other", c \in Hearing(d)
      PROVE  c = d /\ q = o /\ ~Ended(c)
  <2>1. op[c] = {q}
    BY DEF OInv, Told
  <2>2. Hears(c, d) /\ ~Ended(c)
    BY <1>6 DEF Hearing
  <2>3. c = d
    BY <1>6, <2>1, <2>2 DEF Hears
  <2> QED BY <1>1, <2>2, <2>3
<1>7. Finishes(d, o)'
  <2> SUFFICES ASSUME span[d] = d, o.queue # "other" PROVE Finishes(d, o)'
    BY DEF OInv, Told, Finishes
  <2>1. /\ o.span # "none" /\ (known[d] \cap o.ends # {} => Ended(d))
        /\ d \in erred <=> Heard(d) \cap o.tags # {}
    BY DEF OInv, Told, Finishes
  <2>2. CASE Ended(d)
    <3>1. d \notin Hearing(d)
      BY <2>2 DEF Hearing
    <3>2. outcome'[d] = outcome[d] /\ (d \in erred' <=> d \in erred)
      BY <1>5, <3>1
    <3> QED BY <2>1, <2>2, <3>2 DEF Finishes, Ended, Heard
  <2>3. CASE ~Ended(d)
    <3>1. Hears(d, d)
      BY <1>1 DEF Hears
    <3>2. d \in Hearing(d)
      BY <2>3, <3>1 DEF Hearing
    <3>3. (d \in EndedBy(d, e) <=> e \in o.ends) /\ (d \in TaggedBy(d, e) <=> e \in o.tags)
      BY <1>1, <3>2 DEF EndedBy, TaggedBy
    <3>4. /\ known'[d] = known[d] \cup {e}
          /\ outcome'[d] = IF e \in o.ends THEN known'[d] ELSE {}
      BY <1>2, <1>3, <2>3, <3>3 DEF Ended
    <3>5. Heard(d) = known[d] /\ Heard(d)' = known'[d]
      BY <2>3, <3>4 DEF Heard, Ended
    <3>6. d \in erred' <=> d \in erred \/ e \in o.tags
      BY <1>4, <3>3
    <3>7. d \in erred' <=> Heard(d)' \cap o.tags # {}
      BY <2>1, <3>4, <3>5, <3>6
    <3>8. known'[d] \cap o.ends # {} => Ended(d)'
      BY <2>1, <2>3, <3>4 DEF Ended
    <3> QED BY <2>1, <3>7, <3>8 DEF Finishes
  <2> QED BY <2>2, <2>3
<1>8. Told'
  <2> SUFFICES ASSUME NEW c \in Call
               PROVE  /\ op[c] = {} \/ \E q \in Operations : op[c] = {q}
                      /\ phase'[c] \in {"new", "built"} =>
                            known'[c] = {} /\ outcome'[c] = {} /\ span[c] = None /\ c \notin erred'
                      /\ \A q \in op[c] : Finishes(c, q)'
    BY DEF Told
  <2>1. CASE c = d
    BY <1>1, <1>2, <1>7, <2>1
  <2>2. CASE c # d
    <3>1. phase'[c] = phase[c] /\ known'[c] = known[c]
      BY <1>2, <2>2
    <3>2. span[c] = None => c \notin Hearing(d)
      BY CallAssumption DEF Hearing
    <3>3. ASSUME NEW q \in op[c] PROVE Finishes(c, q)'
      <4>1. Finishes(c, q)
        BY DEF OInv, Told
      <4>2. CASE q.queue = "other"
        BY <4>1, <4>2 DEF Finishes
      <4>3. CASE q.queue # "other"
        <5>1. outcome'[c] = outcome[c] /\ (c \in erred' <=> c \in erred)
          BY <1>5, <1>6, <2>2, <4>3
        <5> QED BY <3>1, <4>1, <5>1 DEF Finishes, Ended, Heard
      <4> QED BY <4>2, <4>3
    <3> QED BY <1>5, <3>1, <3>2, <3>3 DEF OInv, Told
  <2> QED BY <2>1, <2>2
<1>9. Within'
  <2> SUFFICES ASSUME NEW c \in Call, NEW q \in op[c]
               PROVE  /\ known'[c] \subseteq Tells(q)
                      /\ q.queue # "other" => outcome'[c] \subseteq Tells(q)
    BY DEF Within
  <2>1. /\ known[c] \subseteq Tells(q)
        /\ q.queue # "other" => outcome[c] \subseteq Tells(q)
    BY DEF OInv, Within
  <2>2. known'[c] \subseteq Tells(q)
    BY <1>1, <1>2, <2>1
  <2>3. ASSUME q.queue # "other" PROVE outcome'[c] \subseteq Tells(q)
    <3>1. CASE c \notin Hearing(d)
      BY <1>5, <2>1, <2>3, <3>1
    <3>2. CASE c \in Hearing(d)
      BY <1>3, <1>6, <2>1, <2>2, <2>3, <3>2
    <3> QED BY <3>1, <3>2
  <2> QED BY <2>2, <2>3
<1>10. TypeOK'
  <2>1. phase' \in [Call -> {"new", "built", "inside", "pending", "over"}]
    BY DEF OInv, TypeOK
  <2>2. erred' \subseteq Call
    BY <1>4 DEF OInv, TypeOK
  <2>3. stack' \in Seq(Frame)
    BY DEF IInv, Frames
  <2> QED BY <1>2, <1>3, <2>1, <2>2, <2>3 DEF OInv, TypeOK
<1> QED BY <1>8, <1>9, <1>10 DEF OInv

LEMMA OutcomeStep ==
    ASSUME OInv, [Next]_vars
    PROVE  OInv'
<1>0. IInv'
  BY StepKeeps DEF OInv
<1>1. ASSUME NEW c \in Call, Resume(c)
      PROVE  OInv'
  <2>1. UNCHANGED <<op, phase, span, parent, saved, caller, rides, known, outcome, erred>>
    BY <1>1 DEF Resume
  <2> QED BY <1>0, <2>1, QuietStep
<1>2. ASSUME Leave \/ UNCHANGED vars \/ \E s \in Root \cup {None, Noop} : Enter(s)
      PROVE  OInv'
  <2>1. UNCHANGED <<op, phase, span, parent, saved, caller, rides, known, outcome, erred>>
    BY <1>2 DEF Leave, vars, Enter
  <2> QED BY <1>0, <2>1, QuietStep
<1>3. ASSUME NEW c \in Call, Return(c)
      PROVE  OInv'
  <2>1. PICK o \in op[c] :
           /\ phase' = [phase EXCEPT ![c] =
                           IF o.events = {} \/ Answered(c, o) THEN "over" ELSE "pending"]
           /\ IF o.queue = "other"
              THEN \E q \in {{}} \cup {{d} : d \in {d \in Call : Queued(d)}} :
                       rides' = [rides EXCEPT ![c] = q]
              ELSE UNCHANGED rides
    BY <1>3 DEF Return
  <2>2. /\ UNCHANGED <<op, span, parent, saved, caller>> /\ Tell(c, "return")
        /\ "return" \in Outcome /\ "return" \in Tells(o)
    BY <1>3 DEF Return, Outcome, Tells
  <2>3. rides' \in [Call -> SUBSET Call]
    BY <2>1 DEF OInv, TypeOK
  <2> QED BY <1>0, <2>1, <2>2, <2>3, TellOutcome
<1>4. ASSUME NEW c \in Call, Throw(c)
      PROVE  OInv'
  <2>1. PICK o \in op[c], e \in Thrown : Tell(c, e)
    BY <1>4 DEF Throw
  <2>2. /\ UNCHANGED <<op, span, parent, saved, caller, rides>> /\ e \in Outcome
        /\ phase' = [phase EXCEPT ![c] = "over"] /\ e \in Tells(o)
    BY <1>4 DEF Throw, Outcome, Tells
  <2>3. rides' \in [Call -> SUBSET Call]
    BY <2>2 DEF OInv, TypeOK
  <2> QED BY <1>0, <2>1, <2>2, <2>3, TellOutcome
<1>5. ASSUME NEW c \in Call, NEW e, NEW where \in Spans, Deliver(c, e, where)
      PROVE  OInv'
  <2>1. PICK o \in op[c] :
           /\ phase[c] \in {"pending", "inside"} /\ e \in o.events /\ e \in Tells(o)
           /\ phase' = IF phase[c] = "pending" /\ e \in o.final
                       THEN [phase EXCEPT ![c] = "over"] ELSE phase
    BY <1>5 DEF Deliver, Tells
  <2>2. UNCHANGED <<op, span, parent, saved, caller, rides>> /\ Tell(c, e)
    BY <1>5 DEF Deliver
  <2>5. e \in Outcome
    BY <2>1, CallAssumption DEF OInv, IInv, Kept, Operation, Outcome
  <2>3. PICK next \in {"inside", "pending", "over"} : phase' = [phase EXCEPT ![c] = next]
    BY <2>1 DEF OInv, TypeOK
  <2>4. rides' \in [Call -> SUBSET Call]
    BY <2>2 DEF OInv, TypeOK
  <2> QED BY <1>0, <2>1, <2>2, <2>3, <2>4, <2>5, TellOutcome
<1>6. ASSUME NEW c \in Call, NEW o \in Operations, Build(c, o) \/ Start(c, o)
      PROVE  OInv'
  BY <1>0, <1>6, BuildOutcome, StartOutcome
<1> QED BY <1>1, <1>2, <1>3, <1>4, <1>5, <1>6 DEF Next

\* When the application learns how a call ended its span is finished; and what
\* is on a span as an error is a failure that it heard of while it was open,
\* and every one that its plugin owes to it, for any calls under way together.
THEOREM OutcomeReachesSpan ==
    Spec => []OutcomeOnSpan
<1>1. OInv => OutcomeOnSpan
  <2> SUFFICES ASSUME OInv, NEW c \in Call, NEW o \in op[c], span[c] = c, o \notin Forgetful
               PROVE  /\ \/ Answered(c, o)
                         \/ o.events = {} /\ "return" \in known[c]
                         \/ o \in Guarded /\ known[c] \cap Thrown # {}
                         => Ended(c)
                      /\ c \in erred => Heard(c) \cap Failure # {}
                      /\ Heard(c) \cap Owed(o) # {} => c \in erred \/ o \in Quiet
    BY DEF OutcomeOnSpan, OInv
  <2>1. o \in Operations /\ o.span # "none"
    BY DEF OInv, Told, Finishes
  <2>2. /\ o.tags \subseteq Failure /\ o.final \subseteq o.ends
        /\ (o.events = {} => "return" \in o.ends)
        /\ (o \in Guarded => Thrown \subseteq o.ends)
        /\ (o \notin Quiet => (o.events \cup Thrown) \cap Owed(o) \subseteq o.tags)
        /\ o.queue # "other"
    BY <2>1, FinishAssumption
  <2>3. /\ known[c] \cap o.ends # {} => Ended(c)
        /\ c \in erred <=> Heard(c) \cap o.tags # {}
    BY <2>2 DEF OInv, Told, Finishes
  <2>4. Heard(c) \subseteq Tells(o)
    BY <2>2 DEF OInv, Within, Heard
  <2>5. ASSUME \/ Answered(c, o)
               \/ o.events = {} /\ "return" \in known[c]
               \/ o \in Guarded /\ known[c] \cap Thrown # {}
        PROVE  Ended(c)
    <3>1. known[c] \cap o.ends # {}
      BY <2>2, <2>5 DEF Answered
    <3> QED BY <2>3, <3>1
  <2>6. c \in erred => Heard(c) \cap Failure # {}
    BY <2>2, <2>3
  <2>7. ASSUME o \notin Quiet, Heard(c) \cap Owed(o) # {} PROVE c \in erred
    <3>1. PICK e \in Heard(c) : e \in Owed(o)
      BY <2>7
    <3>2. e # "return"
      BY <3>1 DEF Owed
    <3>3. e \in (o.events \cup Thrown) \cap Owed(o)
      BY <2>4, <3>1, <3>2 DEF Tells
    <3> QED BY <2>2, <2>3, <2>7, <3>1, <3>3
  <2> QED BY <2>5, <2>6, <2>7
<1> QED BY <1>1, OutcomeInit, OutcomeStep, PTL DEF Spec
====
