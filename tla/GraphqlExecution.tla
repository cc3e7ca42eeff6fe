---- MODULE GraphqlExecution ----
(***************************************************************************)
(* The spans of GraphQL executions that share a context value               *)
(* (plugins/graphql.js): one span for the execution that comes first, and   *)
(* one for each field that is resolved, which is started when its first     *)
(* resolver is called and finished when the execution is over.              *)
(*                                                                          *)
(* A field is known by its path, a sequence of keys; the span of the        *)
(* execution has the empty path.                                            *)
(***************************************************************************)
EXTENDS Integers, Sequences, FiniteSets, SequencesExt

CONSTANTS
    Field,     \* paths that have a wrapped resolver, before collapsing
    Index,     \* the keys that are positions in a list
    Depth,     \* values of the option depth; -1 is no limit
    Execs      \* how many executions share the context value

ASSUME GraphqlAssumption ==
    /\ Field \subseteq Seq(STRING \ {"*"}) \ {<<>>} /\ IsFiniteSet(Field)
    /\ Index \subseteq STRING
    /\ Depth \subseteq Nat \cup {-1}
    /\ Execs \in Nat

VARIABLES
    collapse, depth,   \* the configuration
    owner,     \* the execution that _datadog_graphql belongs to, or 0
    fields,    \* _datadog_graphql.fields: parent, finishTime and error of each
    order,     \* the keys of that object, in the order they were added
    ended,     \* the spans that were finished, in the order of the calls
    marked,    \* those that were finished with an error
    exec,      \* the executions: none, running, over, failed, or threw
    results    \* the resolver calls: none, running, ok, failed, or refused

config == <<collapse, depth>>
vars   == <<config, owner, fields, order, ended, marked, exec, results>>

Exec  == 1..Execs
Top   == <<>>
Prefix(p, n) == SubSeq(p, 1, n)

\* The spans that are no longer open.
Finished == ToSet(ended)

\* pathToArray, with withCollapse.
Path(f) ==
    IF collapse THEN [i \in DOMAIN f |-> IF f[i] \in Index THEN "*" ELSE f[i]] ELSE f

\* How deep a path is: a position is a number, and a star a string.
DepthOf(p) == Cardinality({i \in DOMAIN p : p[i] \notin Index})

Ignored(p) == depth >= 0 /\ depth < DepthOf(p)

\* Mutant of Above: the first from the top.
AboveFromTop(p) ==
    LET found == {n \in 1..(Len(p) - 1) : Prefix(p, n) \in DOMAIN fields}
    IN IF found = {} THEN Top
       ELSE Prefix(p, CHOOSE n \in found : \A m \in found : n <= m)

\* getParentField: the nearest field above that has a span.
Above(p) ==
    LET found == {n \in 1..(Len(p) - 1) : Prefix(p, n) \in DOMAIN fields}
    IN IF found = {} THEN Top
       ELSE Prefix(p, CHOOSE n \in found : \A m \in found : n >= m)

\* The span that a resolver runs in.
SpanOf(p) == IF Ignored(p) THEN Above(p) ELSE p

----------------------------------------------------------------------------

\* Mutant of Execute: the callback of call() does not wait for the promise.
ExecuteAndFinish(e) ==
    /\ exec[e] = "none"
    /\ exec' = [exec EXCEPT ![e] = "running"]
    /\ owner' = IF owner = 0 THEN e ELSE owner
    /\ ended' = IF owner = 0 THEN Append(ended, Top) ELSE ended
    /\ UNCHANGED <<config, fields, order, marked, results>>

\* executeWithTrace: only the first execution of a context value is traced, but
\* the resolvers of all of them are wrapped.
Execute(e) ==
    /\ exec[e] = "none"
    /\ exec' = [exec EXCEPT ![e] = "running"]
    /\ owner' = IF owner = 0 THEN e ELSE owner
    /\ UNCHANGED <<config, fields, order, ended, marked, results>>

\* graphql calls a resolver when those above it have returned, also after the
\* execution has failed.
MayResolve(e, f) ==
    /\ exec[e] \in {"running", "failed"} /\ results[e][f] = "none"
    /\ \A n \in 1..(Len(f) - 1) : Prefix(f, n) \in Field => results[e][Prefix(f, n)] = "ok"

\* resolveWithTrace, with assertField: items of a collapsed list share a span,
\* and so do executions of a context value.
Resolve(e, f) ==
    LET p == Path(f) IN
    /\ MayResolve(e, f)
    /\ results' = [results EXCEPT ![e][f] = "running"]
    /\ IF Ignored(p) \/ p \in DOMAIN fields
       THEN UNCHANGED <<fields, order>>
       ELSE /\ fields' = [q \in DOMAIN fields \cup {p} |->
                             IF q = p THEN [parent |-> Above(p), timed |-> FALSE, error |-> FALSE]
                                      ELSE fields[q]]
            /\ order' = Append(order, p)
    /\ UNCHANGED <<config, owner, ended, marked, exec>>

\* Mutant of Updated: the last item decides.
UpdatedByLast(field, error) == [field EXCEPT !.timed = TRUE, !.error = error]

\* updateField.
Updated(field, error) == [field EXCEPT !.timed = TRUE, !.error = @ \/ error]

\* A resolver has returned or thrown, or its promise is settled.  It is refused
\* if what it threw was nothing, such as undefined, or if graphql does not take
\* what it returned, such as null for a field that is not nullable: no error
\* reaches updateField, but graphql makes one of it for the result.
Settle(e, f, outcome) ==
    LET p == Path(f) IN
    /\ results[e][f] = "running"
    /\ results' = [results EXCEPT ![e][f] = outcome]
    /\ fields' = IF Ignored(p) THEN fields
                 ELSE [fields EXCEPT ![p] = Updated(@, outcome = "failed")]
    /\ UNCHANGED <<config, owner, order, ended, marked, exec>>

\* Mutant of Closing: in the order in which they were started.
ClosingInOrder == order

\* finishResolvers: every field that was started, whether its resolver is still
\* running or not, the last one first.
Closing == Reverse(order)

\* graphql has an error for the result.
Failed(e) == \E f \in Field : results[e][f] \in {"failed", "refused"}

\* When graphql has the result of an execution: its resolvers are through; or an
\* error took all the data away, while others go on; or it threw before them.
HasResult(e, how) ==
    CASE how = "over"   -> \A f \in Field : results[e][f] # "running" /\ ~MayResolve(e, f)
      [] how = "failed" -> Failed(e)
      [] how = "threw"  -> \A f \in Field : results[e][f] = "none"

\* The callback of call() for an execution.
Finish(e, how) ==
    /\ exec[e] = "running" /\ HasResult(e, how)
    /\ exec' = [exec EXCEPT ![e] = how]
    /\ IF e = owner
       THEN /\ ended' = ended \o Append(Closing, Top)
            /\ marked' = marked \cup {p \in ToSet(Closing) : fields[p].error}
                                \cup (IF how = "threw" \/ Failed(e) THEN {Top} ELSE {})
       ELSE UNCHANGED <<ended, marked>>
    /\ UNCHANGED <<config, owner, fields, order, results>>

----------------------------------------------------------------------------

Init ==
    /\ collapse \in BOOLEAN /\ depth \in Depth
    /\ owner = 0
    /\ fields = [p \in {} |-> Top]
    /\ order = <<>> /\ ended = <<>> /\ marked = {}
    /\ exec = [e \in Exec |-> "none"]
    /\ results = [e \in Exec |-> [f \in Field |-> "none"]]

Next ==
    \E e \in Exec :
        \/ Execute(e)
        \/ \E f \in Field : Resolve(e, f)
        \/ \E f \in Field, outcome \in {"ok", "failed", "refused"} : Settle(e, f, outcome)
        \/ \E how \in {"over", "failed", "threw"} : Finish(e, how)

\* Promises are settled, and graphql goes on with what they gave.
FairSpec == Init /\ [][Next]_vars /\ WF_vars(Next)

Spec == Init /\ [][Next]_vars

----------------------------------------------------------------------------
\* Properties.

\* order lists the fields, each of them once.
Listed == order \in Seq(DOMAIN fields) /\ ToSet(order) = DOMAIN fields /\ IsInjective(order)

\* Every variable has its type, each field was added once, and only started
\* spans are finished.
TypeOK ==
    /\ collapse \in BOOLEAN /\ depth \in Depth
    /\ owner \in Exec \cup {0}
    /\ DOMAIN fields \subseteq {Path(f) : f \in Field}
    /\ \A p \in DOMAIN fields :
           fields[p] \in [parent : DOMAIN fields \cup {Top}, timed : BOOLEAN, error : BOOLEAN]
    /\ Listed
    /\ ended \in Seq(DOMAIN fields \cup {Top}) /\ marked \subseteq Finished
    /\ exec \in [Exec -> {"none", "running", "over", "failed", "threw"}]
    /\ results \in [Exec -> [Field -> {"none", "running", "ok", "failed", "refused"}]]

\* The spans are a tree that follows the query: each field is below the nearest
\* one above it that has a span, in whatever order resolvers of executions and
\* of list items come, if items of a list have resolvers at the same paths.
FollowsQuery ==
    /\ TypeOK
    /\ \A p \in DOMAIN fields :
        LET above == fields[p].parent IN
        /\ Len(above) < Len(p) /\ above = Prefix(p, Len(above))
        /\ \A n \in (Len(above) + 1)..(Len(p) - 1) : Prefix(p, n) \notin DOMAIN fields

\* When a span is finished, each field that was started below it has been
\* finished before it, in that order of calls, though some of their resolvers
\* may be running when the execution fails.
NestedFields ==
    [][\A i \in (Len(ended) + 1)..Len(ended') : \A p \in DOMAIN fields :
           fields[p].parent = ended'[i] => \E j \in 1..(i - 1) : ended'[j] = p]_vars

\* While nothing has failed, the resolvers of the traced execution run in a span
\* that is open: one that many items share is not finished by the first of them.
RunsInOpenSpan ==
    \A f \in Field :
        /\ owner # 0 /\ results[owner][f] = "running"
        /\ ~Failed(owner)
        => SpanOf(Path(f)) \in (DOMAIN fields \cup {Top}) \ Finished

\* A field is finished with an error exactly if one of its resolvers had thrown
\* one by then, whatever came before and after it for other items.
ErrorsShow ==
    [][\A p \in (Finished' \ Finished) \ {Top} :
           p \in marked' <=> \E e \in Exec, f \in Field : Path(f) = p /\ results[e][f] = "failed"]_vars

\* What README.md says, "reports every span": every span that was started is
\* finished in the end.
EveryFieldFinished == []<>(DOMAIN fields \subseteq Finished)
====
