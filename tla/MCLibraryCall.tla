---- MODULE MCLibraryCall ----
\* A small instance of LibraryCall with the operations of all plugins: two
\* calls, one span of the application.
EXTENDS LibraryCall

CONSTANTS c1, c2, r1

P == INSTANCE LibraryPlugins

Calls == {c1, c2}
Roots == {r1}

AllOperations == P!Traced
UnboundOperations == P!TracedUnbound
ForgetfulOperations == P!TracedForgetful
GuardedOperations == P!TracedGuarded
ErrorsOnlyOperations == P!TracedErrorsOnly
QuietOperations == P!TracedQuiet

Symmetric == Permutations(Calls)
====
