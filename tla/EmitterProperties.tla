---- MODULE EmitterProperties ----
(***************************************************************************)
(* What BoundEmitter has to ensure, on its state, for its runs and for the *)
(* theorems about it.                                                      *)
(***************************************************************************)
EXTENDS Naturals, FiniteSets

CONSTANTS
    Listener,
    ScopeSpan,   \* the spans that may be active
    Current,     \* in place of a span: the active one
    Nobody,      \* the emitter is not bound
    MaxMade      \* bound on the registrations

\* The markers are not spans.
ASSUME EmitterAssumption ==
    Current \notin ScopeSpan /\ Nobody \notin ScopeSpan \cup {Current} /\ MaxMade \in Nat

VARIABLES
    bound, active, origin,   \* as in ListenerList
    list, due, spent,        \* Node's functions, those still to call, the once functions that ran
    table,                   \* the functions that the scope finds on the emitter
    made                     \* the registrations so far

\* Every function that the table of the emitter has is in Node's list, once,
\* and is not a once function that has run: or removing a listener would take
\* away another, or none, and the table would grow with every event.
TablesAgree ==
    \A fn \in table : /\ Cardinality({i \in DOMAIN list : list[i] = fn}) = 1
                      /\ fn.n \notin spent

\* The wrapped emitter does what ListenerList says, in every step: a listener
\* that is removed is removed with all the functions that were made for it,
\* the others keep their order, and each runs in its own span.
List == INSTANCE ListenerList WITH
    Span <- ScopeSpan,
    Number <- 1 .. MaxMade,
    regs <- list,
    known <- {fn.n : fn \in {fn \in table : ~fn.once}}

ActsAsList == List!Spec
====
