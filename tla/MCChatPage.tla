----------------------------- MODULE MCChatPage -----------------------------
(***************************************************************************)
(* Small instances of ChatPage: the server has s1 and s2.                  *)
(***************************************************************************)
EXTENDS ChatPage, FiniteSets

CONSTANTS s1, s2

\* The first message may need an approval.
FirstResearch == <<{"demo", "research"}, {"demo"}>>

\* What the user has done.
Done == clicks + Cardinality({n \in Messages : message[n].st # "unborn"})

\* Once a page is in disorder, or the method was changed, little more is done with it.
Bounded ==
    /\ disturbed \/ misfiled => Done <= 2
    /\ method # [accuracy |-> "custom", inputs |-> Blank] => Done \in 1 .. 3
=================================
