---- MODULE MCGraphqlExecution ----
\* A small instance of GraphqlExecution: a list of two items with a field each,
\* one of which has a field of its own, and executions that share the context.
EXTENDS GraphqlExecution

Positions == {"0", "1"}
Paths     == {<<"friends">>, <<"friends", "0", "pets">>, <<"friends", "1", "pets">>,
              <<"friends", "1", "pets", "name">>}
Depths    == {-1, 0, 2}
====
