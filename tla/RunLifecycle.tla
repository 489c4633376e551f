---------------------------- MODULE RunLifecycle ----------------------------
(***************************************************************************)
(* What a graph run promises to whoever reads its rows in the store,       *)
(* whatever crashes, cancels and retries happen: a node becomes active     *)
(* only when all it depends on is done, what is done stays done, and a     *)
(* run gets its verdict only when nothing is active, nothing could still   *)
(* become active, and the verdict is the one its nodes deserve.            *)
(***************************************************************************)
CONSTANTS Node, Deps

VARIABLES
  phase,      \* "waiting", "active", "done" or "dead", of each node
  verdict     \* "open", "paused" or the verdict of a closed run

lifecycle == <<phase, verdict>>

Verdict == {"succeeded", "partially_succeeded", "failed", "cancelled"}

DepsDone(n) == \A d \in Deps[n] : phase[d] = "done"

Init ==
  /\ phase = [n \in Node |-> "waiting"]
  /\ verdict = "open"

Activate(n) ==
  /\ verdict = "open"
  /\ phase[n] = "waiting" /\ DepsDone(n)
  /\ phase' = [phase EXCEPT ![n] = "active"]
  /\ UNCHANGED verdict

\* An active node is done, dead, or waits for its next attempt.
Retire(n) ==
  /\ verdict = "open"
  /\ phase[n] = "active"
  /\ \E p \in {"done", "dead", "waiting"} : phase' = [phase EXCEPT ![n] = p]
  /\ UNCHANGED verdict

\* Somebody asks for one more try of a dead node.
Revive(n) ==
  /\ phase[n] = "dead"
  /\ phase' = [phase EXCEPT ![n] = "waiting"]
  /\ UNCHANGED verdict

Pause ==
  /\ verdict = "open"
  /\ verdict' = "paused"
  /\ UNCHANGED phase

Reopen ==
  /\ verdict # "open"
  /\ verdict' = "open"
  /\ UNCHANGED phase

\* A run closes when it can go no further: as succeeded exactly when all
\* its nodes are done, as partially succeeded exactly when only some are.
Close ==
  /\ verdict = "open"
  /\ \A n \in Node : phase[n] # "active"
  /\ \A n \in Node : phase[n] = "waiting" => ~DepsDone(n)
  /\ LET done == {n \in Node : phase[n] = "done"}
     IN  verdict' \in IF done = {} THEN {"failed", "cancelled"}
                      ELSE IF done = Node THEN {"succeeded"}
                      ELSE {"partially_succeeded"}
  /\ UNCHANGED phase

Next ==
  \/ \E n \in Node : Activate(n) \/ Retire(n) \/ Revive(n)
  \/ Pause \/ Reopen \/ Close

Spec == Init /\ [][Next]_lifecycle
=============================================================================
