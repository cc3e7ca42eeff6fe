---- MODULE SpanReporting ----
(***************************************************************************)
(* What the tracer promises about the spans it records, without queues,    *)
(* sizes, timers, tags or the agent: every span of a local trace goes      *)
(* through                                                                 *)
(*   absent -> open -> finished -> queued -> sent -> settled               *)
(* (or finished -> dropped), never backwards and never twice; a trace      *)
(* leaves the process only as a whole, when none of its spans is open; and *)
(* a submission takes everything that is queued.                           *)
(***************************************************************************)
CONSTANTS Span, Trace,
          NoTrace   \* not one of Trace

VARIABLES life,     \* where each span is on that path
          traceOf   \* the local trace of each span

vars == <<life, traceOf>>

Stages == {"absent", "open", "finished", "queued", "sent", "settled", "dropped"}

At(stage) == {s \in Span : life[s] = stage}

Init == /\ life = [s \in Span |-> "absent"]
        /\ traceOf = [s \in Span |-> NoTrace]

\* A span starts in some trace.
Begin(s) ==
    /\ life[s] = "absent"
    /\ life' = [life EXCEPT ![s] = "open"]
    /\ \E t \in Trace : traceOf' = [traceOf EXCEPT ![s] = t]

\* The spans of s's trace that s finds finished when it finishes, and s.
Chunk(s) == {s} \cup {r \in At("finished") : traceOf[r] = traceOf[s]}

LastOpen(s) == \A r \in At("open") : traceOf[r] = traceOf[s] => r = s

\* A span finishes while another span of its trace is still open.
End(s) ==
    /\ life[s] = "open"
    /\ ~LastOpen(s)
    /\ life' = [life EXCEPT ![s] = "finished"]
    /\ UNCHANGED traceOf

\* The last open span of a trace finishes: its chunk is dropped, or it
\* joins the queue, or it is sent; what was queued may be sent before it
\* and must be if the chunk is.
EndLast(s) ==
    /\ life[s] = "open"
    /\ LastOpen(s)
    /\ \E chunk \in {"dropped", "queued", "sent"}, older \in {"queued", "sent"} :
         /\ chunk = "sent" => older = "sent"
         /\ life' = [r \in Span |-> IF r \in Chunk(s) THEN chunk
                                    ELSE IF life[r] = "queued" THEN older
                                    ELSE life[r]]
    /\ UNCHANGED traceOf

\* A submission takes the whole queue.
Submit ==
    /\ life' = [r \in Span |-> IF life[r] = "queued" THEN "sent" ELSE life[r]]
    /\ UNCHANGED traceOf

\* The fate of some sent spans is known, or given up.
Settle ==
    /\ \E S \in SUBSET At("sent") :
          life' = [r \in Span |-> IF r \in S THEN "settled" ELSE life[r]]
    /\ UNCHANGED traceOf

Next == \/ \E s \in Span : Begin(s) \/ End(s) \/ EndLast(s)
        \/ Submit
        \/ Settle

Spec == Init /\ [][Next]_vars
====
