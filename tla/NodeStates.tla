----------------------------- MODULE NodeStates -----------------------------
(***************************************************************************)
(* The node and run state machines of runtime/states.py: the two enums,    *)
(* the sets of terminal states, the table of legal node transitions and    *)
(* the verdict a finished run gets from the states of its nodes.           *)
(***************************************************************************)

NodeState == {"pending", "ready", "running", "repairing", "succeeded",
              "failed", "blocked", "skipped", "cancelled"}

RunState == {"created", "validated", "running", "paused", "succeeded",
             "failed", "cancelled", "partially_succeeded"}

TerminalNodeStates == {"succeeded", "failed", "blocked", "skipped", "cancelled"}

TerminalRunStates == {"succeeded", "failed", "cancelled", "partially_succeeded"}

AllowedNodeTransitions ==
  [pending   |-> {"ready", "blocked", "skipped", "cancelled"},
   ready     |-> {"running", "skipped", "cancelled"},
   running   |-> {"succeeded", "failed", "repairing", "ready", "cancelled"},
   repairing |-> {"ready", "failed", "cancelled"},
   succeeded |-> {},
   failed    |-> {"pending"},
   blocked   |-> {"pending"},
   skipped   |-> {},
   cancelled |-> {"pending"}]

CanTransition(source, target) == target \in AllowedNodeTransitions[source]

\* The verdict on a run whose nodes' final states form the set `states`.
DetermineRunStatus(states) ==
  CASE states = {}             -> "failed"
    [] states = {"succeeded"}  -> "succeeded"
    [] "succeeded" \notin states /\ "cancelled" \in states -> "cancelled"
    [] "succeeded" \in states /\ states # {"succeeded"}    -> "partially_succeeded"
    [] OTHER                   -> "failed"
=============================================================================
