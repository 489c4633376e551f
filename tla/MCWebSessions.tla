--------------------------- MODULE MCWebSessions ---------------------------
(***************************************************************************)
(* Small instances of WebSessions.  Sessions are interchangeable, so the   *)
(* first request that names one may be taken to name s1.                   *)
(***************************************************************************)
EXTENDS WebSessions

CONSTANT s1

FirstIsS1 ==
    requests # <<>> => requests[1].session \in {s1, Everywhere}
=============================================================================
