--------------------------- MODULE MCGraphRuntime ---------------------------
\* Small templates for GraphRuntime: node 1 comes first in template order.
EXTENDS GraphRuntime

\* Two independent nodes and one that needs both.
JoinDeps == [n \in 1..3 |-> IF n = 3 THEN {1, 2} ELSE {}]
\* The third refers to the outputs of the first, and only waits for the second.
JoinRefs == [n \in 1..3 |-> IF n = 3 THEN {1} ELSE {}]

\* Two nodes that need the third, listed before it.
ForkDeps == [n \in 1..3 |-> IF n = 3 THEN {} ELSE {3}]

\* A node and another that refers to its outputs.
PairDeps == [n \in 1..2 |-> IF n = 2 THEN {1} ELSE {}]

OnceEach3 == [n \in 1..3 |-> 1]
TwiceFirst3 == [n \in 1..3 |-> IF n = 1 THEN 2 ELSE 1]
Once2 == [n \in 1..2 |-> 1]
Twice2 == [n \in 1..2 |-> 2]
=============================================================================
