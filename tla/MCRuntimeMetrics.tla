---- MODULE MCRuntimeMetrics ----
\* A small instance of RuntimeMetrics: three spans with two names, one counter
\* tag, and messages of names that are longer than a datagram.
EXTENDS RuntimeMetrics

CONSTANTS s1, s2, s3, n1, n2, t1

Spans3 == {s1, s2, s3}
Names == {n1, n2}
NamesOf == [s \in Spans3 |-> IF s = s3 THEN n2 ELSE n1]
Tags == {t1}
Sizes == [stat \in Stat |-> IF stat = "name" THEN 5 ELSE 2]

Symmetric == Permutations({s1, s2})
====
