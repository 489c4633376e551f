---------------------------- MODULE MCStopChain ----------------------------
\* One node, or two that may run side by side.
EXTENDS StopChain

Free1 == [n \in 1..1 |-> {}]
Once1 == [n \in 1..1 |-> 1]
Free2 == [n \in 1..2 |-> {}]
Once2 == [n \in 1..2 |-> 1]
=============================================================================
