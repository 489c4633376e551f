------------------------------ MODULE ChatPage ------------------------------
(***************************************************************************)
(* The page of the web frontend (web/frontend/chat.js and workspace.js)    *)
(* with what the server answers it (web/__init__.py).                      *)
(*                                                                         *)
(* The page has one thread: a handler runs alone up to its next await.     *)
(* What it awaits is here a member of `asks', answered in any order or     *)
(* never, or the stream of a message, read event by event.  sessionId and  *)
(* localStorage's "dftforge_session" are set together and are one          *)
(* variable.  A transcript, a drawing, an attachment and a list of files   *)
(* are represented by the session they are of, and a method by what is     *)
(* chosen for the accuracy and what is typed beside it.  A turn may be     *)
(* stopped, may fail, and draws at most once.                              *)
(***************************************************************************)
EXTENDS Naturals

CONSTANTS
    Sessions,       \* session ids, those that are still to be made included
    Kept,           \* the sessions the server has when the page is opened
    Uploaded,       \* those of them with an attachment
    Drawn,          \* those of them whose latest answer came with a structure
    NoSession,
    MaxMessages,    \* bound: messages the user submits
    KindsOf,        \* what each of them may be
    Accuracies,     \* what the accuracy may be set to
    Inputs, Blank,  \* what may be typed where it is "custom"
    MaxClicks       \* bound: what the user does beside sending

ASSUME PageAssumption ==
    /\ Kept \subseteq Sessions /\ Uploaded \subseteq Kept /\ Drawn \subseteq Kept
    /\ NoSession \notin Sessions
    /\ MaxMessages \in Nat /\ MaxClicks \in Nat
    /\ Blank \in Inputs
    /\ KindsOf \in [1 .. MaxMessages -> SUBSET {"talk", "demo", "research"}]

VARIABLES
    sessionId,          \* the session the page is in, or NoSession
    transcript,         \* #chat: the session loaded into it, and messages sent since
    figure,             \* the viewer: whose structure it draws, and for which message
    attachedStructure,  \* whose upload is attached
    files,              \* whose artifacts and runs are listed
    listings,           \* the sessions whose lists were asked for and are not here
    methodDlg,          \* the dialog: open or not, and what it shows
    method,             \* the accuracy that is chosen, and the custom inputs
    pendingApproval,    \* the message whose promise the dialog would settle, or 0
    busy,               \* sendBtn.disabled
    stops,              \* the messages with a handler on the stop button
    stopShown,
    asks,               \* what was fetched and has not been answered
    message,            \* every message the user submits
    owed,               \* the messages with a drawing that the page has not read
    running,            \* the server's WEB_ACTIVE_RUNS: the message a session works on
    uploads,            \* the server's sessions with an attachment
    latest,             \* the server's sessions whose latest answer has a structure
    listed,             \* the server's sessions with messages
    used,               \* the ids that were ever made
    clicks,
    left,               \* history: messages whose dialog was left with Escape
    misfiled,           \* history: a list of another session was out, or one failed
    disturbed           \* history: something landed where it was not asked for

lists == <<files, listings, misfiled>>
page == <<sessionId, transcript, figure, attachedStructure, lists>>
dialog == <<methodDlg, pendingApproval, method>>
controls == <<busy, stops, stopShown>>
server == <<owed, running, uploads, latest, listed, used>>
vars == <<page, dialog, controls, asks, message, server, clicks, left, disturbed>>

Messages == 1 .. MaxMessages
Anywhere == Sessions \cup {NoSession}
Nothing == [of |-> NoSession, by |-> 0]

Ask(kind, s) == [kind |-> kind, of |-> s, by |-> {}, calm |-> TRUE]
Loads == {a \in asks : a.kind \in {"load", "firstload"}}

Underway == {n \in Messages : message[n].st \in {"posted", "open", "reading"}}
Sent == {n \in Messages : message[n].st \notin {"unborn", "waiting", "dropped"}}

\* Nothing is under way, on the page or, after a lost connection, at the server.
Working(n) == message[n].turn # NoSession /\ running[message[n].turn] = n
AtRest == Underway = {} /\ \A n \in Messages : ~Working(n)
Quiet == asks = {} /\ AtRest

\* Mutant: the dialog is not modal.
ClickPage_Modeless == clicks < MaxClicks /\ clicks' = clicks + 1

\* A modal dialog keeps everything else from being clicked.
ClickPage ==
    /\ ~methodDlg.open
    /\ clicks < MaxClicks /\ clicks' = clicks + 1

-----------------------------------------------------------------------------
(* The lists of files and runs *)

\* refreshWorkspace up to its await; without a session empty lists are drawn at
\* once.
Refresh(s) ==
    /\ IF s = NoSession
       THEN files' = NoSession /\ UNCHANGED listings
       ELSE listings' = listings \cup {s} /\ UNCHANGED files
    /\ UNCHANGED misfiled

\* An answer is taken, and another one may still be out.
Taken(s) == s \in listings /\ listings' \in {listings, listings \ {s}}

\* refreshWorkspace after it, whatever session the page is in by then.
Listed(s) ==
    /\ Taken(s)
    /\ files' = s
    /\ UNCHANGED <<sessionId, transcript, figure, attachedStructure, dialog, controls, asks,
                   message, server, clicks, left, misfiled, disturbed>>

ListFails(s) ==
    /\ Taken(s)
    /\ misfiled' = TRUE
    /\ UNCHANGED <<sessionId, transcript, figure, attachedStructure, files, dialog, controls,
                   asks, message, server, clicks, left, disturbed>>

-----------------------------------------------------------------------------
(* Choosing a session *)

\* loadSession up to its await.
ClickSession(s) ==
    /\ ClickPage /\ s \in listed
    /\ sessionId' = s
    /\ asks' = asks \cup {Ask("load", s)}
    /\ disturbed' = ~Quiet
    /\ misfiled' = (listings \ {s} # {})
    /\ UNCHANGED <<transcript, figure, attachedStructure, files, listings, dialog, controls,
                   message, server, left>>

\* Mutant: what is attached stays.
Cleared_Keeps(attached) == attached

\* clearWorkspace forgets the attachment.
Cleared(attached) == NoSession

\* newSession: everything is emptied at once.
StartAnew ==
    /\ sessionId' = NoSession
    /\ transcript' = [of |-> NoSession, cards |-> {}, welcome |-> TRUE]
    /\ figure' = Nothing
    /\ attachedStructure' = Cleared(attachedStructure)
    /\ files' = NoSession /\ UNCHANGED listings
    /\ misfiled' = (listings # {})

NewSession ==
    /\ ClickPage
    /\ StartAnew
    /\ disturbed' = ~Quiet
    /\ UNCHANGED <<dialog, controls, asks, message, server, left>>

\* restoreAttachment: a session without one leaves the attachment as it is.
RestoreAttachment(s) == IF s \in uploads THEN s ELSE attachedStructure

\* restoreFigures: an answer without a structure leaves the viewer as it is.
RestoreFigures(s) == IF s \in latest THEN [of |-> s, by |-> 0] ELSE figure

\* loadSession after its await.
SessionLoaded(a) ==
    /\ a \in Loads
    /\ transcript' = [of |-> a.of, cards |-> {}, welcome |-> a.of \notin listed]
    /\ figure' = RestoreFigures(a.of)
    /\ attachedStructure' = RestoreAttachment(a.of)
    /\ Refresh(a.of)
    /\ asks' = asks \ {a}
    /\ UNCHANGED <<sessionId, dialog, controls, message, server, clicks, left, disturbed>>

\* Nothing comes back.  Only the load of the page's opening is caught.
AskFails(a) ==
    /\ a \in Loads
    /\ asks' = asks \ {a}
    /\ disturbed' = TRUE
    /\ IF a.kind = "firstload"
       THEN StartAnew
       ELSE UNCHANGED page
    /\ UNCHANGED <<dialog, controls, message, server, clicks, left>>

\* The other ways to the file panel: a tab, the refresh button.
OpenFiles ==
    /\ ClickPage
    /\ Refresh(sessionId)
    /\ UNCHANGED <<sessionId, transcript, figure, attachedStructure, dialog, controls, asks,
                   message, server, left, disturbed>>

-----------------------------------------------------------------------------
(* Deletions, uploads and run actions *)

DeleteSession(s) ==
    /\ ClickPage /\ s \in listed
    /\ asks' = asks \cup {Ask("delete", s)}
    /\ UNCHANGED <<page, dialog, controls, message, server, left, disturbed>>

\* delete_session, and what the page does about its answer: it leaves the
\* session if it is in it by then.
SessionDeleted(a) ==
    /\ a \in asks /\ a.kind = "delete"
    /\ asks' = asks \ {a}
    /\ IF running[a.of] # 0
       THEN UNCHANGED <<page, server, disturbed>>
       ELSE /\ uploads' = uploads \ {a.of}
            /\ latest' = latest \ {a.of}
            /\ listed' = listed \ {a.of}
            /\ IF sessionId = a.of
               THEN StartAnew /\ disturbed' = (asks' # {} \/ ~AtRest)
               ELSE /\ disturbed' = (disturbed \/ \E n \in Underway : message[n].to = a.of)
                    /\ UNCHANGED page
            /\ UNCHANGED <<owed, running, used>>
    /\ UNCHANGED <<dialog, controls, message, clicks, left>>

\* uploadStructure up to its await; ensureSessionId makes an id when there is none.
UploadStructure ==
    /\ ClickPage
    /\ \E s \in Sessions :
          /\ IF sessionId = NoSession THEN s \notin used ELSE s = sessionId
          /\ sessionId' = s
          /\ used' = used \cup {s}
          /\ asks' = asks \cup {Ask("upload", s)}
    /\ disturbed' = (disturbed \/ (sessionId = NoSession /\ ~Quiet))
    /\ UNCHANGED <<transcript, figure, attachedStructure, lists, dialog, controls,
                   message, owed, running, uploads, latest, listed, left>>

\* upload_structure and the rest of uploadStructure, which draws and attaches
\* what came back in whichever session the page is by now.
StructureUploaded(a) ==
    /\ a \in asks /\ a.kind = "upload"
    /\ uploads' = uploads \cup {a.of}
    /\ attachedStructure' = a.of
    /\ figure' = [of |-> a.of, by |-> 0]
    /\ Refresh(a.of)
    /\ asks' = asks \ {a}
    /\ UNCHANGED <<sessionId, transcript, dialog, controls, message, owed, running, latest,
                   listed, used, clicks, left, disturbed>>

\* The server cannot read the file, and says so.
UploadRefused(a) ==
    /\ a \in asks /\ a.kind = "upload"
    /\ asks' = asks \ {a}
    /\ UNCHANGED <<page, dialog, controls, message, server, clicks, left, disturbed>>

\* runAction and its answer, after which the files of its own session are asked for.
RunAction ==
    /\ ClickPage /\ sessionId # NoSession
    /\ asks' = asks \cup {Ask("action", sessionId)}
    /\ UNCHANGED <<page, dialog, controls, message, server, left, disturbed>>

ActionAnswered(a) ==
    /\ a \in asks /\ a.kind = "action"
    /\ Refresh(a.of)
    /\ asks' = asks \ {a}
    /\ UNCHANGED <<sessionId, transcript, figure, attachedStructure, dialog, controls,
                   message, server, clicks, left, disturbed>>

-----------------------------------------------------------------------------
(* Sending a message *)

NoMethod == [accuracy |-> "none", inputs |-> Blank]
NoView == [of |-> 0, structure |-> NoSession, session |-> NoSession, method |-> NoMethod,
           edited |-> FALSE, quiet |-> TRUE]
Unborn == [st |-> "unborn", kind |-> "talk", to |-> NoSession, turn |-> NoSession,
           structure |-> NoSession, config |-> NoMethod, owned |-> FALSE, calm |-> FALSE,
           seen |-> NoView, drew |-> FALSE, stopped |-> FALSE]

\* A text that looks like a calculation has to be approved in research mode.
Kinds == {"talk", "demo", "research"}

\* Mutant: the viewer keeps its drawing.
OnPost_Keeps(f) == f

\* clearViewer.
OnPost(f) == Nothing

\* requestContext: what looks like a calculation carries the attachment.
Carried(kind) == IF kind = "talk" THEN NoSession ELSE attachedStructure

\* currentRunConfig: the inputs count only where the accuracy is "custom".
CurrentRunConfig ==
    IF method.accuracy = "custom" THEN method ELSE [method EXCEPT !.inputs = Blank]

RunConfig(kind) == IF kind = "talk" THEN NoMethod ELSE CurrentRunConfig

\* send from approveRequest's answer to its fetch.
Post(n, rec) ==
    /\ message' = [message EXCEPT ![n] =
           [rec EXCEPT !.st = "posted", !.to = sessionId,
                       !.structure = Carried(rec.kind),
                       !.config = RunConfig(rec.kind),
                       !.owned = sessionId \in uploads,
                       !.calm = Quiet /\ ~disturbed]]
    /\ figure' = OnPost(figure)
    /\ transcript' = [transcript EXCEPT !.welcome = FALSE, !.cards = @ \cup {n}]
    /\ busy' = TRUE
    /\ stopShown' = TRUE
    /\ stops' = stops \cup {n}
    /\ disturbed' = (disturbed \/ Loads # {} \/ Underway # {})

\* What renderMethodSummary shows of a message (0: "the next calculation").
View(n) == [of |-> n, structure |-> attachedStructure, session |-> sessionId,
            method |-> CurrentRunConfig, edited |-> FALSE, quiet |-> Quiet]

\* The send button, which `busy' disables, or a suggestion of the welcome.
Submit(n, kind) ==
    /\ ~methodDlg.open
    /\ ~busy \/ transcript.welcome
    /\ message[n].st = "unborn" /\ \A m \in 1 .. (n - 1) : message[m].st # "unborn"
    /\ IF kind = "research"
       THEN /\ message' = [message EXCEPT ![n].st = "waiting", ![n].kind = kind]
            /\ methodDlg' = [open |-> TRUE, view |-> View(n)]
            /\ pendingApproval' = n
            /\ UNCHANGED <<figure, transcript, method, controls, disturbed>>
       ELSE /\ Post(n, [message[n] EXCEPT !.kind = kind])
            /\ UNCHANGED dialog
    /\ UNCHANGED <<sessionId, attachedStructure, lists, asks, server, clicks,
                   left>>

\* The accuracy is chosen on the page itself.
ChooseAccuracy ==
    /\ ClickPage
    /\ \E accuracy \in Accuracies \ {method.accuracy} :
          method' = [method EXCEPT !.accuracy = accuracy]
    /\ UNCHANGED <<page, methodDlg, pendingApproval, controls, asks, message, server, left,
                   disturbed>>

\* The inputs of a custom accuracy are in the dialog; its rows are not drawn again.
EditInputs ==
    /\ methodDlg.open /\ method.accuracy = "custom"
    /\ \E inputs \in Inputs : method' = [method EXCEPT !.inputs = inputs]
    /\ methodDlg' = [methodDlg EXCEPT !.view.edited = TRUE]
    /\ UNCHANGED <<page, pendingApproval, controls, asks, message, server, clicks, left,
                   disturbed>>

\* The method button.
OpenMethod ==
    /\ ClickPage
    /\ methodDlg' = [open |-> TRUE, view |-> View(0)]
    /\ UNCHANGED <<page, pendingApproval, method, controls, asks, message, server, left,
                   disturbed>>

Closed == [open |-> FALSE, view |-> NoView]

\* settleApproval(true): the message that waits goes out.
Confirm ==
    /\ methodDlg.open
    /\ methodDlg' = Closed
    /\ pendingApproval' = 0
    /\ IF pendingApproval = 0
       THEN UNCHANGED <<figure, transcript, controls, message, disturbed>>
       ELSE Post(pendingApproval, [message[pendingApproval] EXCEPT !.seen = methodDlg.view])
    /\ UNCHANGED <<sessionId, attachedStructure, lists, method, asks, server, clicks, left>>

\* settleApproval(false): the cancel button and the cross.
Dismiss ==
    /\ methodDlg.open
    /\ methodDlg' = Closed
    /\ pendingApproval' = 0
    /\ message' = IF pendingApproval = 0 THEN message
                  ELSE [message EXCEPT ![pendingApproval].st = "dropped"]
    /\ UNCHANGED <<page, method, controls, asks, server, clicks, left, disturbed>>

\* The browser closes a dialog on Escape; nothing listens.
Escape ==
    /\ methodDlg.open
    /\ methodDlg' = Closed
    /\ left' = left \cup {pendingApproval}
    /\ UNCHANGED <<page, pendingApproval, method, controls, asks, message, server, clicks,
                   disturbed>>

-----------------------------------------------------------------------------
(* The server's side of a message *)

Target(n) == IF message[n].to = NoSession THEN Sessions \ used ELSE {message[n].to}

\* Mutant: any path is taken.
Admits_Any(n, s) == running[s] = 0

\* chat_stream: one turn per session at a time, and a structure that is a file
\* of the session (_inside_session).
Admits(n, s) ==
    /\ running[s] = 0
    /\ message[n].structure = NoSession \/ (message[n].structure = s /\ s \in uploads)

StreamOpens(n) ==
    /\ message[n].st = "posted"
    /\ \E s \in Target(n) :
          /\ Admits(n, s)
          /\ running' = [running EXCEPT ![s] = n]
          /\ used' = used \cup {s}
          /\ message' = [message EXCEPT ![n].st = "open", ![n].turn = s]
    /\ UNCHANGED <<page, dialog, controls, asks, owed, uploads, latest, listed, clicks, left,
                   disturbed>>

\* The worker's end.  A stopped turn is followed by a notice without results; one
\* that an exception ends keeps nothing.  A drawing of the turn may still be in
\* the queue that the page reads.
TurnEnds(n) ==
    LET s == message[n].turn IN
    /\ Working(n)
    /\ running' = [running EXCEPT ![s] = 0]
    /\ \/ UNCHANGED owed
       \/ n \in Underway /\ ~message[n].drew /\ owed' = owed \cup {n}
    /\ \/ /\ listed' = listed \cup {s}
          /\ latest' = IF (message[n].drew \/ n \in owed') /\ ~message[n].stopped
                       THEN latest \cup {s} ELSE latest \ {s}
       \/ UNCHANGED <<listed, latest>>
    /\ UNCHANGED <<page, dialog, controls, asks, message, uploads, used, clicks, left,
                   disturbed>>

-----------------------------------------------------------------------------
(* The page's side of a stream *)

\* "start": the page is now in the stream's session.
StreamStarts(n) ==
    /\ message[n].st = "open"
    /\ sessionId' = message[n].turn
    /\ message' = [message EXCEPT ![n].st = "reading"]
    /\ Refresh(message[n].turn)
    /\ UNCHANGED <<transcript, figure, attachedStructure, dialog, controls, asks, server,
                   clicks, left, disturbed>>

\* "figure": a step of the turn has a structure, which is drawn whatever the page
\* shows.
FigureArrives(n) ==
    /\ message[n].st = "reading" /\ ~message[n].drew
    /\ Working(n) \/ n \in owed
    /\ figure' = [of |-> message[n].turn, by |-> n]
    /\ message' = [message EXCEPT ![n].drew = TRUE]
    /\ owed' = owed \ {n}
    /\ UNCHANGED <<sessionId, transcript, attachedStructure, lists, dialog, controls, asks,
                   running, uploads, latest, listed, used, clicks, left, disturbed>>

\* Mutant: only one button comes back.
Finish_HalfWay(n) ==
    /\ busy' = FALSE /\ stops' = stops \ {n} /\ UNCHANGED stopShown

\* Mutant: the handler stays.
Finish_KeepsHandler(n) ==
    /\ busy' = FALSE /\ stopShown' = FALSE /\ UNCHANGED stops

\* finish: the send button comes back and the stop button goes.
Finish(n) ==
    /\ busy' = FALSE
    /\ stops' = stops \ {n}
    /\ stopShown' = FALSE

Over(n, st) ==
    /\ message' = [message EXCEPT ![n].st = st, ![n].calm = @ /\ ~disturbed]
    /\ Finish(n)
    /\ Refresh(sessionId)
    /\ UNCHANGED <<sessionId, transcript, figure, attachedStructure, dialog, asks, server,
                   clicks, left>>

\* "done" and the end of the stream, after all that is in the queue.
StreamEnds(n) ==
    /\ message[n].st = "reading" /\ ~Working(n) /\ n \notin owed
    /\ Over(n, "done")
    /\ UNCHANGED disturbed

\* The server answers 409 or 400.
Refused(n) ==
    /\ message[n].st = "posted" /\ Target(n) # {}
    /\ \A s \in Target(n) : ~Admits(n, s)
    /\ Over(n, "refused")
    /\ UNCHANGED disturbed

\* The connection is lost, before or after the server has taken the message.
StreamBreaks(n) ==
    /\ n \in Underway
    /\ Over(n, "broken")
    /\ disturbed' = TRUE

-----------------------------------------------------------------------------
(* The stop button *)

\* Every handler on the button cancels the session the page is in; without a
\* session nothing happens.  The button is disabled until the answer.
StopPressed ==
    /\ ClickPage /\ stopShown /\ \A a \in asks : a.kind # "cancel"
    /\ sessionId # NoSession
    /\ asks' = asks \cup {[kind |-> "cancel", of |-> sessionId, by |-> stops,
                           calm |-> ~disturbed]}
    /\ UNCHANGED <<page, dialog, controls, message, server, left, disturbed>>

\* cancel_session.
CancelArrives(a) ==
    /\ a \in asks /\ a.kind = "cancel"
    /\ asks' = asks \ {a}
    /\ message' = IF running[a.of] = 0 THEN message
                  ELSE [message EXCEPT ![running[a.of]].stopped = TRUE]
    /\ UNCHANGED <<page, dialog, controls, server, clicks, left, disturbed>>

-----------------------------------------------------------------------------

\* The page is opened with the id that localStorage or the address holds.
Init ==
    /\ sessionId \in Kept \cup {NoSession}
    /\ asks = IF sessionId = NoSession THEN {}
              ELSE {Ask("firstload", sessionId)}
    /\ transcript = [of |-> NoSession, cards |-> {}, welcome |-> sessionId = NoSession]
    /\ figure = Nothing
    /\ attachedStructure = NoSession
    /\ files = NoSession /\ listings = {sessionId} \ {NoSession} /\ misfiled = FALSE
    /\ methodDlg = Closed /\ pendingApproval = 0
    /\ method \in [accuracy : Accuracies, inputs : {Blank}]
    /\ busy = FALSE /\ stops = {} /\ stopShown = FALSE
    /\ message = [n \in Messages |-> Unborn]
    /\ owed = {} /\ running = [s \in Sessions |-> 0]
    /\ uploads = Uploaded /\ latest = Drawn /\ listed = Kept /\ used = Kept
    /\ clicks = 0 /\ left = {} /\ disturbed = FALSE

ByUser ==
    \/ NewSession \/ OpenFiles \/ UploadStructure \/ RunAction \/ StopPressed
    \/ ChooseAccuracy \/ EditInputs \/ OpenMethod \/ Confirm \/ Dismiss \/ Escape
    \/ \E s \in Sessions : ClickSession(s) \/ DeleteSession(s)
    \/ \E n \in Messages : \E kind \in KindsOf[n] : Submit(n, kind)

Answered ==
    \/ \E a \in asks :
          \/ SessionLoaded(a) \/ SessionDeleted(a) \/ StructureUploaded(a)
          \/ UploadRefused(a) \/ ActionAnswered(a) \/ CancelArrives(a) \/ AskFails(a)
    \/ \E s \in listings : Listed(s) \/ ListFails(s)

Streaming ==
    \E n \in Messages :
       \/ StreamOpens(n) \/ TurnEnds(n) \/ Refused(n)
       \/ StreamStarts(n) \/ FigureArrives(n) \/ StreamEnds(n) \/ StreamBreaks(n)

Next == ByUser \/ Answered \/ Streaming

Spec == Init /\ [][Next]_vars

-----------------------------------------------------------------------------
(* Properties *)

AskKinds == {"load", "firstload", "delete", "upload", "action", "cancel"}
Requests == [kind : AskKinds, of : Sessions, by : SUBSET Messages, calm : BOOLEAN]
States == {"unborn", "waiting", "dropped", "posted", "open", "reading", "done", "refused",
           "broken"}
Methods == [accuracy : Accuracies \cup {"none"}, inputs : Inputs]
Views == [of : 0 .. MaxMessages, structure : Anywhere, session : Anywhere, method : Methods,
          edited : BOOLEAN, quiet : BOOLEAN]
Records == [st : States, kind : Kinds, to : Anywhere, turn : Anywhere, structure : Anywhere,
            config : Methods, owned : BOOLEAN, calm : BOOLEAN, seen : Views, drew : BOOLEAN,
            stopped : BOOLEAN]

TypeOK ==
    /\ {sessionId, attachedStructure, files} \subseteq Anywhere
    /\ transcript \in [of : Anywhere, cards : SUBSET Messages, welcome : BOOLEAN]
    /\ figure \in [of : Anywhere, by : 0 .. MaxMessages]
    /\ listings \subseteq Sessions /\ misfiled \in BOOLEAN
    /\ methodDlg \in [open : BOOLEAN, view : Views] /\ method \in Methods
    /\ pendingApproval \in 0 .. MaxMessages
    /\ busy \in BOOLEAN /\ stopShown \in BOOLEAN /\ stops \subseteq Messages
    /\ asks \subseteq Requests
    /\ message \in [Messages -> Records]
    /\ owed \subseteq Messages /\ running \in [Sessions -> 0 .. MaxMessages]
    /\ uploads \subseteq Sessions /\ latest \subseteq Sessions
    /\ listed \subseteq Sessions /\ used \subseteq Sessions
    /\ clicks \in 0 .. MaxClicks
    /\ left \subseteq 0 .. MaxMessages /\ disturbed \in BOOLEAN

\* Unless a session was chosen while something was under way, a message was sent
\* into a load or beside another one, or an answer was lost, all that is on a
\* page at rest is of the session the page is in (chat.js:276-302, workspace.js:
\* 185-199, 235-249).  Three things of the session before may be seen: its files,
\* where their list was still out when the session was left or the new list
\* failed (refreshWorkspace draws whatever comes, workspace.js:191-197); its
\* drawing, where the latest answer of the new session has none, until a message
\* is sent (restoreFigures does not clear, chat.js:224-237); its attachment,
\* where the new session has no upload.
PageIsOfOneSession ==
    Quiet /\ ~disturbed =>
       /\ transcript.of \in {NoSession, sessionId}
       /\ \A n \in transcript.cards : message[n].turn \in {NoSession, sessionId}
       /\ listings = {} /\ ~misfiled =>
             \/ files = sessionId
             \/ files = NoSession /\ sessionId \notin listed \cup uploads
       /\ \/ figure.of \in {NoSession, sessionId}
          \/ transcript.cards = {} /\ sessionId \in Sessions \ latest
       /\ \/ attachedStructure \in {NoSession, sessionId}
          \/ sessionId \in Sessions \ uploads

\* "A figure belongs to the current request" (chat.js:329): on a page that nothing
\* overtook, what a message has drawn is not seen beside a later one under way.
FigureIsOfTheRequest ==
    figure.by # 0 /\ ~disturbed => \A n \in Underway : figure.by = n

\* No turn works on another session's upload (chat_stream's check), and a message
\* that was sent from a page at rest is refused only where the page carries what
\* it has kept of another session, or of a deleted one, into one that has no
\* upload (workspace.js:235).
StructuresStayHome ==
    \A n \in Messages :
       /\ message[n].turn # NoSession =>
             message[n].structure \in {NoSession, message[n].turn}
       /\ message[n].st = "refused" /\ message[n].calm =>
             /\ message[n].to # NoSession /\ ~message[n].owned
             /\ message[n].structure # NoSession

\* What goes out in research mode is what its dialog showed: the method, but for
\* custom inputs that were edited in the dialog under its rows (workspace.js:56-80,
\* 93), and, unless something was under way when it opened, structure and session.
\* A dialog that showed something else approves only messages whose own was left
\* with Escape (workspace.js:82-102).
ApprovedAsSeen ==
    \A n \in Sent :
       message[n].kind = "research" =>
          LET seen == message[n].seen IN
          IF seen.of = n
          THEN /\ message[n].config.accuracy = seen.method.accuracy
               /\ seen.edited \/ message[n].config = seen.method
               /\ seen.quiet => /\ seen.structure = message[n].structure
                                /\ seen.session = message[n].to
          ELSE n \in left

\* The send button comes back and the stop button goes when no message is under
\* way; while one is, it can be stopped and nothing else sent, unless two of them
\* overlap (chat.js:333-387).
ControlsMatch ==
    /\ Underway = {} => ~busy /\ ~stopShown /\ stops = {}
    /\ ~disturbed /\ Underway # {} => busy /\ stopShown /\ stops = Underway

\* A stop names the session of the message whose button was pressed (chat.js:359),
\* unless the page was in disorder by then.
StopNamesItsTurn ==
    \A a \in asks :
       a.kind = "cancel" /\ a.calm =>
          \A n \in a.by : {message[n].turn, message[n].to} \subseteq {NoSession, a.of}

=============================================================================
