---- MODULE MCBoundEmitter ----
\* A small instance of BoundEmitter: two listeners, a span and none.
EXTENDS BoundEmitter

CONSTANTS f1, f2, s1, none

Listeners == {f1, f2}
Spans == {s1, none}

Symmetric == Permutations(Listeners) \cup Permutations(Spans)
====
