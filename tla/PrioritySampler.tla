---- MODULE PrioritySampler ----
(***************************************************************************)
(* The two samplers of the tracer as operators: Sampler (sampler.js), a    *)
(* biased coin, and PrioritySampler (priority_sampler.js), which decides   *)
(* once per trace which priority the trace is exported and propagated      *)
(* with.  A rate is known only by what the coin can do with it; a tag set  *)
(* is known only by the keys that the samplers read.                       *)
(***************************************************************************)

Rates == {"zero", "fraction", "one"}

USER_REJECT == "USER_REJECT"
AUTO_REJECT == "AUTO_REJECT"
AUTO_KEEP   == "AUTO_KEEP"
USER_KEEP   == "USER_KEEP"

Priorities == {USER_REJECT, AUTO_REJECT, AUTO_KEEP, USER_KEEP}

\* _sampling.priority before anyone has decided it.
Undecided == "undefined"

ManualKeep     == "manual.keep"
ManualDrop     == "manual.drop"
PriorityKeep   == "sampling.priority=1"
PriorityReject == "sampling.priority=0"

SamplingTags == {ManualKeep, ManualDrop, PriorityKeep, PriorityReject}

\* What setting tag g does to a span's tags: the two sampling.priority
\* values share a key, so one replaces the other.
WithTag(tags, g) ==
    IF g \in {PriorityKeep, PriorityReject}
    THEN (tags \ {PriorityKeep, PriorityReject}) \cup {g}
    ELSE tags \cup {g}

\* The answers Sampler.isSampled may give.
IsSampled(rate) ==
    {b \in BOOLEAN : (rate = "one" => b) /\ (rate = "zero" => ~b)}

\* _getPriority: what the user asked for in the tags, manual.keep first.
ManualPriority(tags) ==
    CASE ManualKeep \in tags -> USER_KEEP
      [] ManualKeep \notin tags /\ ManualDrop \in tags -> USER_REJECT
      [] tags \cap {ManualKeep, ManualDrop} = {} /\ PriorityKeep \in tags -> USER_KEEP
      [] tags \cap {ManualKeep, ManualDrop} = {} /\ PriorityReject \in tags -> USER_REJECT
      [] OTHER -> Undecided

\* Mutant of Decisions: the answer of _getPriority is not validated.
DecisionsUnchecked(tags, rate) == {ManualPriority(tags)}

\* The decision for a context that has none yet.
Decisions(tags, rate) ==
    IF ManualPriority(tags) \in Priorities
    THEN {ManualPriority(tags)}
    ELSE {IF b THEN AUTO_KEEP ELSE AUTO_REJECT : b \in IsSampled(rate)}

\* Mutant of Sampled: a decision can be taken again.
SampledAgain(priority, tags, rate) == Decisions(tags, rate)

\* sample: the first decision about a trace stands.
Sampled(priority, tags, rate) ==
    IF priority # Undecided THEN {priority} ELSE Decisions(tags, rate)
====
