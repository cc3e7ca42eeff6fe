---- MODULE MCWebRequest ----
\* A small instance of WebRequest: four calls, two of them of layers that
\* are mounted at a path.
EXTENDS WebRequest

CONSTANTS c1, c2, m1, m2, root

Calls     == {c1, c2, m1, m2}
PathCalls == {m1, m2}

Symmetric == Permutations(PathCalls) \cup Permutations({c1, c2})
====
