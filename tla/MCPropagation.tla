---- MODULE MCPropagation ----
\* A small instance of Propagation: three parts, two requests that may use the
\* same headers object, one context of another tracer, and one item of baggage.
EXTENDS Propagation, TLC

CONSTANTS p1, p2, p3, r1, r2, x1, h1, h2, i1, a, b

Parts == {p1, p2, p3}
Requests == {r1, r2}
Contexts == {x1}
HeadersObjects == {h1, h2}
Items == {i1}
Values == {a, b}

Symmetric == Permutations(Parts) \cup Permutations(Requests)
             \cup Permutations(HeadersObjects) \cup Permutations(Values)
====
