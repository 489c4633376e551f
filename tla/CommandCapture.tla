-------------------------- MODULE CommandCapture ---------------------------
(***************************************************************************)
(* How a tool gets the answer of a command: _call_cmd of                   *)
(* tools/definitions.py runs a function of cli.py with sys.stdout and      *)
(* sys.stderr redirected to two buffers of its own, and then looks for     *)
(* JSON in the command's output file and in the buffers.                   *)
(*                                                                         *)
(* Tools run in threads (registry.call), and sys.stdout is one variable of *)
(* the whole process: redirect_stdout saves what it finds and puts that    *)
(* back at its end, whoever has changed it meanwhile.  stdout and stderr   *)
(* are changed one right after the other; here they change together, and   *)
(* a payload says on which of the two it is printed.                       *)
(***************************************************************************)
EXTENDS Naturals

CONSTANTS
    Callers,    \* those who may call a command, each one call at a time
    Payloads,   \* what commands print: records with fields by and ok
    Console,    \* the streams the process was started with
    Dead,       \* the buffers of a call that is over
    Nothing     \* no payload: neither a file nor JSON in the buffers

ASSUME CaptureAssumption ==
    /\ Console \notin Callers /\ Dead \notin Callers
    /\ Nothing \notin Payloads

VARIABLES
    target,     \* where sys.stdout and sys.stderr lead
    saved,      \* where they led when a call redirected them
    heard,      \* the payloads in the buffers of a caller's call
    written,    \* the JSON in a caller's output file
    inside,     \* those whose call has redirected and not yet restored
    mixed       \* history: those whose call another one has overlapped

captureVars == <<target, saved, heard, written, inside, mixed>>

Streams == Callers \cup {Console, Dead}

CaptureTypeOK ==
    /\ target \in Streams
    /\ saved \in [Callers -> Streams]
    /\ heard \in [Callers -> SUBSET Payloads]
    /\ written \in [Callers -> Payloads \cup {Nothing}]
    /\ inside \subseteq Callers
    /\ mixed \subseteq Callers

CaptureInit ==
    /\ target = Console
    /\ saved = [c \in Callers |-> Console]
    /\ heard = [c \in Callers |-> {}]
    /\ written = [c \in Callers |-> Nothing]
    /\ inside = {}
    /\ mixed = {}

\* Mutant: a caller who finds the streams redirected leaves them alone.
Redirect_IfAtConsole(c) ==
    /\ c \notin inside
    /\ saved' = [saved EXCEPT ![c] = target]
    /\ target' = IF target = Console THEN c ELSE target
    /\ heard' = [heard EXCEPT ![c] = {}]
    /\ inside' = inside \cup {c}
    /\ mixed' = IF inside = {} THEN mixed ELSE mixed \cup inside \cup {c}
    /\ UNCHANGED written

\* Entering the with statement, with new buffers.
Redirect(c) ==
    /\ c \notin inside
    /\ saved' = [saved EXCEPT ![c] = target]
    /\ target' = c
    /\ heard' = [heard EXCEPT ![c] = {}]
    /\ inside' = inside \cup {c}
    /\ mixed' = IF inside = {} THEN mixed ELSE mixed \cup inside \cup {c}
    /\ UNCHANGED written

\* The command prints; what reaches the console or a dead buffer is lost.
Say(c, payload) ==
    /\ c \in inside
    /\ heard' = IF target \in Callers
                THEN [heard EXCEPT ![target] = @ \cup {payload}]
                ELSE heard
    /\ UNCHANGED <<target, saved, written, inside, mixed>>

\* _write_output with a path: JSON goes to the file and not to the streams.
Write(c, payload) ==
    /\ c \in inside
    /\ written' = [written EXCEPT ![c] = payload]
    /\ UNCHANGED <<target, saved, heard, inside, mixed>>

\* Leaving the with statement.  Whoever saved the buffers of this call will
\* put them back when nobody reads them any more (so they are emptied here).
Restore(c) ==
    /\ c \in inside
    /\ target' = saved[c]
    /\ saved' = [d \in Callers |-> IF d = c THEN Console
                                   ELSE IF saved[d] = c THEN Dead ELSE saved[d]]
    /\ heard' = [heard EXCEPT ![c] = {}]
    /\ inside' = inside \ {c}
    /\ mixed' = mixed \ {c}
    /\ UNCHANGED written

\* What a call answers: its output file if there is one with JSON in it,
\* however old; else the largest object on stdout, which may be any of them;
\* else one on stderr.
Answers(c, reads_file) ==
    LET results == {p \in heard[c] : p.ok}
        errors == heard[c] \ results
    IN  IF reads_file /\ written[c] # Nothing THEN {written[c]}
        ELSE IF results # {} THEN results
        ELSE IF errors # {} THEN errors
        ELSE {Nothing}

CaptureNext ==
    \E c \in Callers :
        \/ Redirect(c)
        \/ \E p \in Payloads : p.by = c /\ (Say(c, p) \/ Write(c, p))
        \/ Restore(c)

CaptureSpec == CaptureInit /\ [][CaptureNext]_captureVars

-----------------------------------------------------------------------------

\* A call that no other has overlapped hears itself and nobody else, whatever
\* calls before it have left sys.stdout pointing at.  (redirect_stdout in
\* _call_cmd, with the tools in threads.)
SoloCallIsExact ==
    \A c \in inside \ mixed :
        /\ inside = {c}
        /\ target = c
        /\ \A p \in heard[c] : p.by = c
=============================================================================
