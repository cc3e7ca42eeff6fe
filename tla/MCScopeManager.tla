---- MODULE MCScopeManager ----
\* A small instance of ScopeManager: the main script, a promise, and
\* two ids of one handle.
EXTENDS ScopeManager

CONSTANTS root, p1, h1, h2, s1, s2

Ids       == {root, p1, h1, h2}
OnlyRoot  == {root}
Promises  == {p1}
Handles   == {h1, h2}
Spans     == {s1, s2}

\* Without reused handles: the instance for promises and their thenables.
FewIds    == {root, p1}
NoHandles == {}
OneSpan   == {s1}

Symmetry  == Permutations(Handles) \cup Permutations(Spans)
====
