--------------------------- MODULE ChatPageProofs ---------------------------
(***************************************************************************)
(* Proofs about ChatPage: all its properties, for any number of sessions,  *)
(* messages and clicks.                                                    *)
(***************************************************************************)
EXTENDS ChatPage, TLAPS

\* A turn is that of a message that was sent, in the session it named if any,
\* and on a structure of that session.
MessageInv ==
    \A n \in Messages :
       /\ message[n].turn # NoSession =>
             /\ message[n].st \in {"open", "reading", "done", "broken"}
             /\ message[n].to \in {NoSession, message[n].turn}
             /\ message[n].structure \in {NoSession, message[n].turn}
             /\ message[n].turn \in used
       /\ message[n].st \in {"unborn", "waiting", "dropped"} => message[n].to = NoSession
       /\ message[n].st \in {"open", "reading"} => message[n].turn # NoSession
       /\ message[n].drew => message[n].st \notin {"posted", "open"} /\ message[n].turn # NoSession

ServerInv ==
    /\ listed \cup uploads \cup {a.of : a \in {b \in asks : b.kind = "upload"}} \subseteq used
    /\ \A s \in Sessions : running[s] # 0 => message[running[s]].turn = s

\* A promise is that of a waiting message, and a dialog that is not its own can
\* settle it only after its own was left with Escape.
PendingInv ==
    pendingApproval # 0 =>
       /\ message[pendingApproval].st = "waiting"
       /\ message[pendingApproval].kind = "research"
       /\ \/ methodDlg.open /\ methodDlg.view.of = pendingApproval
          \/ pendingApproval \in left

\* Under an open dialog only its own inputs change.
MethodInv ==
    methodDlg.open =>
       /\ methodDlg.view.method.accuracy = method.accuracy
       /\ methodDlg.view.edited \/ methodDlg.view.method = CurrentRunConfig

\* Nothing at all happens under one that was opened on a page at rest.
DialogInv ==
    methodDlg.open /\ methodDlg.view.quiet =>
       /\ Quiet
       /\ methodDlg.view.structure = attachedStructure
       /\ methodDlg.view.session = sessionId

ControlsInv ==
    /\ ControlsMatch
    /\ stops \subseteq Underway
    /\ ~disturbed => \A m, n \in Underway : m = n

\* An orderly page: whatever is under way is of the session the page is in, the
\* lists of files as long as none was left out or lost.
AsksAreOfThePage ==
    /\ \A a \in asks : a.kind # "delete" => a.of = sessionId
    /\ Loads # {} => Underway = {}

MessagesAreOfThePage ==
    /\ \A n \in Underway :
          /\ message[n].st = "reading" => message[n].turn = sessionId
          /\ message[n].st # "reading" => message[n].to = sessionId
    /\ \A n \in Messages : Working(n) => n \in Underway

TranscriptIsOfThePage ==
    Loads = {} =>
       /\ transcript.of \in {NoSession, sessionId}
       /\ \A n \in transcript.cards :
             \/ message[n].turn \in {NoSession, sessionId}
             \/ message[n].st = "open" /\ sessionId = NoSession

FilesAreOfThePage ==
    ~misfiled =>
       /\ listings \subseteq {sessionId}
       /\ Loads = {} /\ listings = {} =>
             \/ files = sessionId
             \/ files = NoSession /\ (sessionId \notin listed \cup uploads \/ Underway # {})

FigureIsOfThePage ==
    /\ Loads = {} => \/ figure.of \in {NoSession, sessionId}
                     \/ transcript.cards = {} /\ sessionId \in Sessions \ latest
    /\ \A n \in Underway :
          /\ figure.of \in {NoSession, sessionId} /\ figure.by \in {0, n}
          /\ message[n].drew => figure.of = message[n].turn

AttachmentIsOfThePage ==
    /\ Loads = {} => \/ attachedStructure \in {NoSession, sessionId}
                     \/ sessionId \in Sessions \ uploads
    /\ \A n \in Messages :
          message[n].st = "posted" /\ message[n].calm =>
             /\ message[n].to = NoSession => message[n].structure = NoSession
             /\ message[n].owned => /\ message[n].structure \in {NoSession, message[n].to}
                                   /\ message[n].to \in uploads

Orderly ==
    ~disturbed =>
       /\ AsksAreOfThePage
       /\ MessagesAreOfThePage
       /\ TranscriptIsOfThePage
       /\ FilesAreOfThePage
       /\ FigureIsOfThePage
       /\ AttachmentIsOfThePage

\* A calm stop was pressed in the session of the messages it is for.
StopInv ==
    \A a \in asks :
       a.kind = "cancel" /\ a.calm =>
          \A n \in a.by : \/ message[n].to = a.of
                          \/ message[n].to = NoSession /\ message[n].turn = a.of

PageInv ==
    /\ TypeOK
    /\ MessageInv
    /\ ServerInv
    /\ PendingInv
    /\ DialogInv
    /\ MethodInv
    /\ ApprovedAsSeen
    /\ ControlsInv
    /\ Orderly
    /\ StructuresStayHome
    /\ StopInv

-----------------------------------------------------------------------------

\* Types.

LEMMA InitType == Init => TypeOK
<1>1. Closed \in [open : BOOLEAN, view : Views] /\ Unborn \in Records
  <2>1. NoMethod \in Methods
    BY PageAssumption DEF NoMethod, Methods
  <2>2. NoView \in Views
    BY <2>1, PageAssumption DEF NoView, Views, Anywhere
  <2>3. QED
    BY <2>1, <2>2, PageAssumption DEF Closed, Unborn, Records, States, Kinds, Anywhere
<1>2. Nothing \in [of : Anywhere, by : 0 .. MaxMessages]
  BY PageAssumption DEF Nothing, Anywhere
<1>3. \A s \in Sessions : Ask("firstload", s) \in Requests
  BY DEF Ask, Requests, AskKinds
<1> SUFFICES ASSUME Init PROVE TypeOK
  OBVIOUS
<1>4. transcript \in [of : Anywhere, cards : SUBSET Messages, welcome : BOOLEAN]
  BY DEF Init, Anywhere
<1>5. asks \subseteq Requests
  BY <1>3, PageAssumption DEF Init
<1>6. /\ {sessionId, attachedStructure, files} \subseteq Anywhere
      /\ listings \subseteq Sessions /\ misfiled \in BOOLEAN
  BY PageAssumption DEF Init, Anywhere
<1>7. message \in [Messages -> Records]
  BY <1>1 DEF Init
<1>8. figure \in [of : Anywhere, by : 0 .. MaxMessages]
  BY <1>2 DEF Init
<1>9. methodDlg \in [open : BOOLEAN, view : Views] /\ method \in Methods
  BY <1>1, PageAssumption DEF Init, Methods
<1>10. /\ pendingApproval \in 0 .. MaxMessages /\ clicks \in 0 .. MaxClicks
       /\ running \in [Sessions -> 0 .. MaxMessages] /\ owed \subseteq Messages
  BY PageAssumption DEF Init
<1>11. /\ uploads \subseteq Sessions /\ latest \subseteq Sessions
       /\ listed \subseteq Sessions /\ used \subseteq Sessions
  BY PageAssumption DEF Init
<1>12. /\ busy \in BOOLEAN /\ stopShown \in BOOLEAN /\ stops \subseteq Messages
       /\ left \subseteq 0 .. MaxMessages /\ disturbed \in BOOLEAN
  BY DEF Init
<1>13. QED
  BY <1>4, <1>5, <1>6, <1>7, <1>8, <1>9, <1>10, <1>11, <1>12 DEF TypeOK

\* What is read from the inputs is a method.
LEMMA MethodType ==
  ASSUME TypeOK
  PROVE  /\ CurrentRunConfig \in Methods /\ CurrentRunConfig.accuracy = method.accuracy
         /\ \A kind \in Kinds : RunConfig(kind) \in Methods
<1>1. method \in Methods /\ Blank \in Inputs
  BY PageAssumption DEF TypeOK
<1>2. CurrentRunConfig \in Methods /\ CurrentRunConfig.accuracy = method.accuracy
  BY <1>1 DEF CurrentRunConfig, Methods
<1>3. NoMethod \in Methods
  BY <1>1 DEF NoMethod, Methods
<1>4. QED
  BY <1>2, <1>3 DEF RunConfig

LEMMA PostType ==
  ASSUME TypeOK, NEW n \in Messages, NEW rec \in Records, Post(n, rec)
  PROVE  /\ message' \in [Messages -> Records]
         /\ figure' \in [of : Anywhere, by : 0 .. MaxMessages]
         /\ transcript' \in [of : Anywhere, cards : SUBSET Messages, welcome : BOOLEAN]
         /\ busy' \in BOOLEAN /\ stopShown' \in BOOLEAN /\ stops' \subseteq Messages
         /\ disturbed' \in BOOLEAN
<1> USE PageAssumption
<1>1. Carried(rec.kind) \in Anywhere
  BY DEF TypeOK, Carried, Anywhere
<1>2. [rec EXCEPT !.st = "posted", !.to = sessionId,
                  !.structure = Carried(rec.kind), !.config = RunConfig(rec.kind),
                  !.owned = sessionId \in uploads,
                  !.calm = Quiet /\ ~disturbed] \in Records
  <2> DEFINE R(a, b) == [rec EXCEPT !.st = "posted", !.to = sessionId,
                                     !.structure = Carried(rec.kind),
                                     !.config = RunConfig(rec.kind),
                                     !.owned = a, !.calm = b]
  <2>1. \A a, b \in BOOLEAN : R(a, b) \in Records
    <3>1. RunConfig(rec.kind) \in Methods
      BY MethodType DEF Records
    <3>2. QED
      BY <1>1, <3>1 DEF Records, States, TypeOK
  <2>2. PICK a \in BOOLEAN : a = (sessionId \in uploads)
    <3>1. CASE sessionId \in uploads
      BY <3>1, Zenon
    <3>2. CASE ~(sessionId \in uploads)
      <4>1. (sessionId \in uploads) = FALSE
        BY <3>2
      <4>2. QED
        BY <4>1, Zenon
    <3>3. QED
      BY <3>1, <3>2
  <2>3. PICK b \in BOOLEAN : b = (Quiet /\ ~disturbed)
    BY Zenon
  <2>4. R(a, b) \in Records
    BY <2>1, Zenon
  <2>5. QED
    BY <2>2, <2>3, <2>4, Zenon
<1>3. message' \in [Messages -> Records]
  BY <1>2 DEF Post, TypeOK
<1>4. figure' \in [of : Anywhere, by : 0 .. MaxMessages]
  BY DEF Post, OnPost, Nothing, Anywhere
<1>5. transcript' \in [of : Anywhere, cards : SUBSET Messages, welcome : BOOLEAN]
  BY DEF Post, TypeOK
<1>6. disturbed' \in BOOLEAN
  BY Zenon DEF Post, TypeOK
<1>7. QED
  BY <1>3, <1>4, <1>5, <1>6 DEF Post, TypeOK

LEMMA AskType == \A kind \in AskKinds, s \in Sessions : Ask(kind, s) \in Requests
BY DEF Ask, Requests

LEMMA ClosedType == Closed \in [open : BOOLEAN, view : Views]
BY PageAssumption DEF Closed, NoView, NoMethod, Views, Methods, Anywhere

LEMMA Updates ==
  ASSUME NEW m \in Records
  PROVE  /\ \A st \in States : [m EXCEPT !.st = st] \in Records
         /\ \A kind \in Kinds : /\ [m EXCEPT !.kind = kind] \in Records
                               /\ [m EXCEPT !.st = "waiting", !.kind = kind] \in Records
         /\ \A s \in Sessions : [m EXCEPT !.st = "open", !.turn = s] \in Records
         /\ \A v \in Views : [m EXCEPT !.seen = v] \in Records
         /\ [m EXCEPT !.stopped = TRUE] \in Records
         /\ [m EXCEPT !.drew = TRUE] \in Records
         /\ \A st \in States, b \in BOOLEAN : [m EXCEPT !.st = st, !.calm = b] \in Records
<1>1. \A st \in States : [m EXCEPT !.st = st] \in Records
  BY DEF Records
<1>2. \A kind \in Kinds : [m EXCEPT !.kind = kind] \in Records
  BY DEF Records
<1>3. \A kind \in Kinds : [m EXCEPT !.st = "waiting", !.kind = kind] \in Records
  BY DEF Records, States
<1>4. \A s \in Sessions : [m EXCEPT !.st = "open", !.turn = s] \in Records
  BY DEF Records, States, Anywhere
<1>5. \A v \in Views : [m EXCEPT !.seen = v] \in Records
  BY DEF Records
<1>6. [m EXCEPT !.stopped = TRUE] \in Records /\ [m EXCEPT !.drew = TRUE] \in Records
  BY DEF Records
<1>7. \A st \in States, b \in BOOLEAN : [m EXCEPT !.st = st, !.calm = b] \in Records
  BY DEF Records
<1>8. QED
  BY <1>1, <1>2, <1>3, <1>4, <1>5, <1>6, <1>7, Zenon

LEMMA MessageType ==
  ASSUME TypeOK
  PROVE  \A n \in Messages : message[n] \in Records
BY DEF TypeOK

LEMMA StateNames == "dropped" \in States /\ "reading" \in States
BY DEF States

LEMMA StartAnewType ==
  ASSUME StartAnew
  PROVE  /\ sessionId' \in Anywhere /\ attachedStructure' \in Anywhere /\ files' \in Anywhere
         /\ transcript' \in [of : Anywhere, cards : SUBSET Messages, welcome : BOOLEAN]
         /\ figure' \in [of : Anywhere, by : 0 .. MaxMessages]
<1>1. 0 \in 0 .. MaxMessages
  BY PageAssumption
<1>2. QED
  BY <1>1 DEF StartAnew, Cleared, Nothing, Anywhere

LEMMA ViewType ==
  ASSUME TypeOK
  PROVE  \A n \in 0 .. MaxMessages :
            [open |-> TRUE, view |-> View(n)] \in [open : BOOLEAN, view : Views]
<1> SUFFICES ASSUME NEW n \in 0 .. MaxMessages
             PROVE  View(n) \in Views
  OBVIOUS
<1>1. \A b \in BOOLEAN : [of |-> n, structure |-> attachedStructure, session |-> sessionId,
                          method |-> CurrentRunConfig, edited |-> FALSE, quiet |-> b]
                          \in Views
  BY MethodType DEF TypeOK, Views
<1>2. PICK b \in BOOLEAN : b = Quiet
  BY Zenon DEF Quiet
<1>3. QED
  BY <1>1, <1>2, Zenon DEF View

LEMMA OverType ==
  ASSUME TypeOK, NEW n \in Messages, NEW st \in States, Over(n, st)
  PROVE  /\ message' \in [Messages -> Records]
         /\ busy' \in BOOLEAN /\ stopShown' \in BOOLEAN /\ stops' \subseteq Messages
         /\ files' \in Anywhere /\ Refresh(sessionId)
         /\ UNCHANGED <<sessionId, transcript, figure, attachedStructure, methodDlg,
                        pendingApproval, method, asks, running, uploads, latest, listed, used,
                        clicks, left>>
<1>1. message[n] \in Records /\ message[n].calm \in BOOLEAN
  BY DEF TypeOK, Records
<1>2. PICK b \in BOOLEAN : b = (message[n].calm /\ ~disturbed)
  BY <1>1, Zenon
<1>3. message' = [message EXCEPT ![n] = [message[n] EXCEPT !.st = st, !.calm = b]]
  BY <1>2 DEF Over
<1>4. [message[n] EXCEPT !.st = st, !.calm = b] \in Records
  BY <1>1, Updates, Zenon
<1>5. message' \in [Messages -> Records]
  BY <1>3, <1>4 DEF TypeOK
<1>6. Finish(n) /\ Refresh(sessionId)
  BY Zenon DEF Over
<1>7. /\ busy' \in BOOLEAN /\ stopShown' \in BOOLEAN /\ stops' \subseteq Messages
      /\ files' \in Anywhere
  BY <1>6 DEF Finish, Refresh, Anywhere, TypeOK
<1>8. UNCHANGED <<sessionId, transcript, figure, attachedStructure, dialog, asks, server,
                  clicks, left>>
  BY Zenon DEF Over
<1>9. QED
  BY <1>5, <1>6, <1>7, <1>8 DEF dialog, server

LEMMA RefreshType ==
  ASSUME TypeOK, NEW s \in Anywhere, Refresh(s)
  PROVE  files' \in Anywhere /\ listings' \subseteq Sessions /\ misfiled' = misfiled
BY DEF TypeOK, Refresh, Anywhere

\* The lists, the method and the queues.
LEMMA ListsType ==
  ASSUME TypeOK, [Next]_vars
  PROVE  /\ listings' \subseteq Sessions /\ misfiled' \in BOOLEAN
         /\ method' \in Methods /\ owed' \subseteq Messages
<1>1. /\ listings \subseteq Sessions /\ misfiled \in BOOLEAN
      /\ method \in Methods /\ owed \subseteq Messages
  BY DEF TypeOK
<1>2. CASE NewSession \/ \E s \in Sessions : ClickSession(s)
  <2>1. UNCHANGED <<listings, method, owed>>
    BY <1>2 DEF NewSession, ClickSession, StartAnew, dialog, server
  <2>2. misfiled' \in BOOLEAN
    BY <1>2, Zenon DEF NewSession, ClickSession, StartAnew
  <2>3. QED
    BY <1>1, <2>1, <2>2
<1>3. CASE OpenFiles
  <2>1. Refresh(sessionId) /\ sessionId \in Anywhere /\ UNCHANGED <<method, owed>>
    BY <1>3 DEF OpenFiles, dialog, server, TypeOK
  <2>2. QED
    BY <1>1, <2>1, RefreshType
<1>4. CASE ChooseAccuracy \/ EditInputs
  <2>1. UNCHANGED <<listings, misfiled, owed>>
    BY <1>4 DEF ChooseAccuracy, EditInputs, page, lists, server
  <2>2. method' \in Methods
    BY <1>1, <1>4 DEF ChooseAccuracy, EditInputs, Methods
  <2>3. QED
    BY <1>1, <2>1, <2>2
<1>5. CASE \/ UploadStructure \/ RunAction \/ StopPressed \/ OpenMethod \/ Confirm
           \/ Dismiss \/ Escape \/ \E s \in Sessions : DeleteSession(s)
           \/ \E n \in Messages : \E kind \in KindsOf[n] : Submit(n, kind)
           \/ UNCHANGED vars
  BY <1>1, <1>5
     DEF UploadStructure, RunAction, StopPressed, OpenMethod, Confirm, Dismiss, Escape,
         DeleteSession, Submit, page, lists, dialog, server, vars
<1>6. ASSUME NEW a \in asks, SessionLoaded(a) \/ StructureUploaded(a) \/ ActionAnswered(a)
      PROVE  /\ listings' \subseteq Sessions /\ misfiled' \in BOOLEAN
             /\ UNCHANGED <<method, owed>>
  <2>1. Refresh(a.of) /\ UNCHANGED <<method, owed>>
    BY <1>6 DEF SessionLoaded, StructureUploaded, ActionAnswered, dialog, server
  <2>2. a.of \in Anywhere
    BY DEF TypeOK, Requests, Anywhere
  <2>3. QED
    BY <1>1, <2>1, <2>2, RefreshType
<1>7. ASSUME NEW a \in asks,
             SessionDeleted(a) \/ UploadRefused(a) \/ CancelArrives(a) \/ AskFails(a)
      PROVE  UNCHANGED <<listings, method, owed>> /\ misfiled' \in BOOLEAN
  <2>1. UNCHANGED <<listings, method, owed>>
    BY <1>7
       DEF SessionDeleted, UploadRefused, CancelArrives, AskFails, StartAnew, page, lists,
           dialog, server
  <2>2. misfiled' = misfiled \/ misfiled' = (listings # {})
    BY <1>7 DEF SessionDeleted, UploadRefused, CancelArrives, AskFails, StartAnew, page, lists
  <2>3. QED
    BY <1>1, <2>1, <2>2
<1>8. ASSUME NEW s \in listings, Listed(s) \/ ListFails(s)
      PROVE  /\ listings' \subseteq Sessions /\ misfiled' \in BOOLEAN
             /\ UNCHANGED <<method, owed>>
  BY <1>1, <1>8 DEF Listed, ListFails, Taken, dialog, server
<1>9. ASSUME NEW n \in Messages, StreamStarts(n)
      PROVE  /\ listings' \subseteq Sessions /\ misfiled' \in BOOLEAN
             /\ UNCHANGED <<method, owed>>
  <2>1. Refresh(message[n].turn) /\ UNCHANGED <<method, owed>>
    BY <1>9 DEF StreamStarts, dialog, server
  <2>2. message[n].turn \in Anywhere
    BY DEF TypeOK, Records
  <2>3. QED
    BY <1>1, <2>1, <2>2, RefreshType
<1>10. ASSUME NEW n \in Messages, Refused(n) \/ StreamEnds(n) \/ StreamBreaks(n)
       PROVE  /\ listings' \subseteq Sessions /\ misfiled' \in BOOLEAN
              /\ UNCHANGED <<method, owed>>
  <2>1. Refresh(sessionId) /\ UNCHANGED <<method, owed>> /\ sessionId \in Anywhere
    BY <1>10 DEF Refused, StreamEnds, StreamBreaks, Over, dialog, server, TypeOK
  <2>2. QED
    BY <1>1, <2>1, RefreshType
<1>11. ASSUME NEW n \in Messages, StreamOpens(n) \/ TurnEnds(n) \/ FigureArrives(n)
       PROVE  UNCHANGED <<listings, misfiled, method>> /\ owed' \subseteq Messages
  BY <1>1, <1>11 DEF StreamOpens, TurnEnds, FigureArrives, page, lists, dialog
<1>12. QED
  BY <1>1, <1>2, <1>3, <1>4, <1>5, <1>6, <1>7, <1>8, <1>9, <1>10, <1>11
     DEF Next, ByUser, Answered, Streaming

LEMMA TypeStep == TypeOK /\ [Next]_vars => TypeOK'
<1> USE PageAssumption
<1> SUFFICES ASSUME TypeOK, [Next]_vars PROVE TypeOK'
  OBVIOUS
<1>0. /\ listings' \subseteq Sessions /\ misfiled' \in BOOLEAN
      /\ method' \in Methods /\ owed' \subseteq Messages
  BY ListsType
<1> USE <1>0
<1>1. CASE NewSession
  <2>1. UNCHANGED <<methodDlg, pendingApproval, busy, stops, stopShown, asks, message,
                      running, uploads, latest, listed, used, left>>
    BY <1>1 DEF NewSession, dialog, controls, server
  <2>2. /\ sessionId' \in Anywhere
         /\ attachedStructure' \in Anywhere
         /\ files' \in Anywhere
         /\ transcript' \in [of : Anywhere, cards : SUBSET Messages, welcome : BOOLEAN]
         /\ figure' \in [of : Anywhere, by : 0 .. MaxMessages]
    BY <1>1 DEF TypeOK, NewSession, StartAnew, Cleared, Nothing, Anywhere
  <2>3. clicks' \in 0 .. MaxClicks
    BY <1>1 DEF TypeOK, NewSession, ClickPage
  <2>4. disturbed' \in BOOLEAN
    BY <1>1, Zenon DEF TypeOK, NewSession
  <2>5. QED
    BY <2>1, <2>2, <2>3, <2>4 DEF TypeOK
<1>2. CASE OpenFiles
  <2>1. UNCHANGED <<sessionId, transcript, figure, attachedStructure, methodDlg,
                      pendingApproval, busy, stops, stopShown, asks, message, running,
                      uploads, latest, listed, used, left, disturbed>>
    BY <1>2 DEF OpenFiles, dialog, controls, server
  <2>2. files' \in Anywhere
    BY <1>2, RefreshType DEF TypeOK, OpenFiles
  <2>3. clicks' \in 0 .. MaxClicks
    BY <1>2 DEF TypeOK, OpenFiles, ClickPage
  <2>4. QED
    BY <2>1, <2>2, <2>3 DEF TypeOK
<1>3. CASE UploadStructure
  <2>1. UNCHANGED <<transcript, figure, attachedStructure, files, methodDlg,
                      pendingApproval, busy, stops, stopShown, message, running, uploads,
                      latest, listed, left>>
    BY <1>3 DEF UploadStructure, lists, dialog, controls
  <2>2. sessionId' \in Anywhere /\ used' \subseteq Sessions /\ asks' \subseteq Requests
    <3>1. PICK s \in Sessions : /\ sessionId' = s /\ used' = used \cup {s}
                                /\ asks' = asks \cup {Ask("upload", s)}
      BY <1>3, Zenon DEF UploadStructure
    <3>2. Ask("upload", s) \in Requests
      BY AskType DEF AskKinds
    <3>3. QED
      BY <3>1, <3>2 DEF TypeOK, Anywhere
  <2>3. clicks' \in 0 .. MaxClicks
    BY <1>3 DEF TypeOK, UploadStructure, ClickPage
  <2>4. disturbed' \in BOOLEAN
    BY <1>3, Zenon DEF TypeOK, UploadStructure
  <2>5. QED
    BY <2>1, <2>2, <2>3, <2>4 DEF TypeOK
<1>4. CASE RunAction
  <2>1. UNCHANGED <<sessionId, transcript, figure, attachedStructure, files, methodDlg,
                      pendingApproval, busy, stops, stopShown, message, running, uploads,
                      latest, listed, used, left, disturbed>>
    BY <1>4 DEF RunAction, page, lists, dialog, controls, server
  <2>2. asks' \subseteq Requests
    <3>1. sessionId \in Sessions
      BY <1>4 DEF TypeOK, RunAction, Anywhere
    <3>2. Ask("action", sessionId) \in Requests
      BY <3>1, AskType DEF AskKinds
    <3>3. QED
      BY <1>4, <3>2 DEF TypeOK, RunAction
  <2>3. clicks' \in 0 .. MaxClicks
    BY <1>4 DEF TypeOK, RunAction, ClickPage
  <2>4. QED
    BY <2>1, <2>2, <2>3 DEF TypeOK
<1>5. CASE StopPressed
  <2>1. UNCHANGED <<sessionId, transcript, figure, attachedStructure, files, methodDlg,
                      pendingApproval, busy, stops, stopShown, message, running, uploads,
                      latest, listed, used, left, disturbed>>
    BY <1>5 DEF StopPressed, page, lists, dialog, controls, server
  <2>2. asks' \subseteq Requests
    <3>1. sessionId \in Sessions
      BY <1>5 DEF TypeOK, StopPressed, Anywhere
    <3>2. \A b \in BOOLEAN :
             [kind |-> "cancel", of |-> sessionId, by |-> stops, calm |-> b] \in Requests
      BY <3>1 DEF TypeOK, Requests, AskKinds
    <3>3. PICK b \in BOOLEAN : b = ~disturbed
      BY Zenon DEF TypeOK
    <3>4. asks' = asks \cup {[kind |-> "cancel", of |-> sessionId, by |-> stops, calm |-> b]}
      BY <1>5, <3>3, Zenon DEF StopPressed
    <3>5. asks \subseteq Requests
      BY DEF TypeOK
    <3>6. QED
      BY <3>2, <3>4, <3>5
  <2>3. clicks' \in 0 .. MaxClicks
    BY <1>5 DEF TypeOK, StopPressed, ClickPage
  <2>4. QED
    BY <2>1, <2>2, <2>3 DEF TypeOK
<1>6. CASE OpenMethod
  <2>1. UNCHANGED <<sessionId, transcript, figure, attachedStructure, files,
                      pendingApproval, busy, stops, stopShown, asks, message, running,
                      uploads, latest, listed, used, left, disturbed>>
    BY <1>6 DEF OpenMethod, page, lists, controls, server
  <2>2. methodDlg' \in [open : BOOLEAN, view : Views]
    <3>1. 0 \in 0 .. MaxMessages
      OBVIOUS
    <3>2. QED
      BY <1>6, <3>1, ViewType DEF OpenMethod
  <2>3. clicks' \in 0 .. MaxClicks
    BY <1>6 DEF TypeOK, OpenMethod, ClickPage
  <2>4. QED
    BY <2>1, <2>2, <2>3 DEF TypeOK
<1>7. CASE Confirm
  <2>1. UNCHANGED <<sessionId, attachedStructure, files, asks, running, uploads, latest,
                      listed, used, clicks, left>>
    BY <1>7 DEF Confirm, lists, controls, server
  <2>2. methodDlg' \in [open : BOOLEAN, view : Views] /\ pendingApproval' \in 0 .. MaxMessages
    BY <1>7, ClosedType DEF Confirm
  <2>3. /\ message' \in [Messages -> Records]
         /\ figure' \in [of : Anywhere, by : 0 .. MaxMessages]
         /\ transcript' \in [of : Anywhere, cards : SUBSET Messages, welcome : BOOLEAN]
         /\ busy' \in BOOLEAN /\ stopShown' \in BOOLEAN /\ stops' \subseteq Messages
         /\ disturbed' \in BOOLEAN
    <3>1. CASE pendingApproval = 0
      BY <1>7, <3>1 DEF TypeOK, Confirm, controls
    <3>2. CASE pendingApproval # 0
      <4> DEFINE rec == [message[pendingApproval] EXCEPT !.seen = methodDlg.view]
      <4>1. pendingApproval \in Messages
        BY <3>2 DEF TypeOK, Messages
      <4>2. rec \in Records
        <5>1. methodDlg.view \in Views
          BY DEF TypeOK
        <5>2. QED
          BY <4>1, <5>1, MessageType, Updates, Zenon
      <4>3. Post(pendingApproval, rec)
        BY <1>7, <3>2, Zenon DEF Confirm
      <4> HIDE DEF rec
      <4>4. QED
        BY <4>1, <4>2, <4>3, PostType
    <3>3. QED
      BY <3>1, <3>2
  <2>4. QED
    BY <2>1, <2>2, <2>3 DEF TypeOK
<1>8. CASE Dismiss
  <2>1. UNCHANGED <<sessionId, transcript, figure, attachedStructure, files, busy, stops,
                      stopShown, asks, running, uploads, latest, listed, used, clicks,
                      left, disturbed>>
    BY <1>8 DEF Dismiss, page, lists, controls, server
  <2>2. methodDlg' \in [open : BOOLEAN, view : Views] /\ pendingApproval' \in 0 .. MaxMessages
    BY <1>8, ClosedType DEF Dismiss
  <2>3. message' \in [Messages -> Records]
    <3>1. \A n \in Messages : [message[n] EXCEPT !.st = "dropped"] \in Records
      BY MessageType, StateNames, Updates, Zenon
    <3>2. pendingApproval # 0 => pendingApproval \in Messages
      BY DEF Messages, TypeOK
    <3>3. message \in [Messages -> Records]
      BY DEF TypeOK
    <3>4. QED
      BY <1>8, <3>1, <3>2, <3>3 DEF Dismiss
  <2>4. QED
    BY <2>1, <2>2, <2>3 DEF TypeOK
<1>9. CASE Escape
  <2>1. UNCHANGED <<sessionId, transcript, figure, attachedStructure, files,
                      pendingApproval, busy, stops, stopShown, asks, message, running,
                      uploads, latest, listed, used, clicks, disturbed>>
    BY <1>9 DEF Escape, page, lists, controls, server
  <2>2. methodDlg' \in [open : BOOLEAN, view : Views] /\ left' \subseteq 0 .. MaxMessages
    BY <1>9, ClosedType DEF TypeOK, Escape
  <2>3. QED
    BY <2>1, <2>2 DEF TypeOK
<1>10. ASSUME NEW s \in Sessions, ClickSession(s) PROVE TypeOK'
  <2>1. UNCHANGED <<transcript, figure, attachedStructure, files, methodDlg,
                      pendingApproval, busy, stops, stopShown, message, running, uploads,
                      latest, listed, used, left>>
    BY <1>10 DEF ClickSession, dialog, controls, server
  <2>2. sessionId' \in Anywhere
    BY <1>10 DEF TypeOK, ClickSession, Anywhere
  <2>3. asks' \subseteq Requests
    <3>2. Ask("load", s) \in Requests
      BY AskType DEF AskKinds
    <3>3. QED
      BY <1>10, <3>2 DEF TypeOK, ClickSession
  <2>4. clicks' \in 0 .. MaxClicks
    BY <1>10 DEF TypeOK, ClickSession, ClickPage
  <2>5. disturbed' \in BOOLEAN
    BY <1>10, Zenon DEF TypeOK, ClickSession
  <2>6. QED
    BY <2>1, <2>2, <2>3, <2>4, <2>5 DEF TypeOK
<1>11. ASSUME NEW s \in Sessions, DeleteSession(s) PROVE TypeOK'
  <2>1. UNCHANGED <<sessionId, transcript, figure, attachedStructure, files, methodDlg,
                      pendingApproval, busy, stops, stopShown, message, running, uploads,
                      latest, listed, used, left, disturbed>>
    BY <1>11 DEF DeleteSession, page, lists, dialog, controls, server
  <2>2. asks' \subseteq Requests
    <3>2. Ask("delete", s) \in Requests
      BY AskType DEF AskKinds
    <3>3. QED
      BY <1>11, <3>2 DEF TypeOK, DeleteSession
  <2>3. clicks' \in 0 .. MaxClicks
    BY <1>11 DEF TypeOK, DeleteSession, ClickPage
  <2>4. QED
    BY <2>1, <2>2, <2>3 DEF TypeOK
<1>12. ASSUME NEW n \in Messages, NEW kind \in KindsOf[n], Submit(n, kind) PROVE TypeOK'
  <2>1. UNCHANGED <<sessionId, attachedStructure, files, asks, running, uploads, latest,
                      listed, used, clicks, left>>
    BY <1>12 DEF Submit, lists, dialog, controls, server
  <2>2. kind \in Kinds
    BY DEF Messages, Kinds
  <2>3. /\ message' \in [Messages -> Records]
         /\ figure' \in [of : Anywhere, by : 0 .. MaxMessages]
         /\ transcript' \in [of : Anywhere, cards : SUBSET Messages, welcome : BOOLEAN]
         /\ busy' \in BOOLEAN /\ stopShown' \in BOOLEAN /\ stops' \subseteq Messages
         /\ disturbed' \in BOOLEAN
         /\ methodDlg' \in [open : BOOLEAN, view : Views]
         /\ pendingApproval' \in 0 .. MaxMessages
    <3>1. CASE kind = "research"
      <4>1. [message[n] EXCEPT !.st = "waiting", !.kind = kind] \in Records
        BY <2>2, MessageType, Updates, Zenon
      <4>2. message' = [message EXCEPT ![n] = [message[n] EXCEPT !.st = "waiting", !.kind = kind]]
        BY <1>12, <3>1 DEF TypeOK, Submit
      <4>3. message' \in [Messages -> Records]
        BY <4>1, <4>2 DEF TypeOK
      <4>4. /\ UNCHANGED <<figure, transcript, busy, stops, stopShown, disturbed>>
            /\ methodDlg' = [open |-> TRUE, view |-> View(n)]
            /\ pendingApproval' = n
        BY <1>12, <3>1 DEF Submit, controls
      <4>5. n \in 0 .. MaxMessages
        BY DEF Messages
      <4>6. methodDlg' \in [open : BOOLEAN, view : Views]
        BY <4>4, <4>5, ViewType
      <4>7. QED
        BY <4>3, <4>4, <4>5, <4>6 DEF TypeOK
    <3>2. CASE kind # "research"
      <4> DEFINE rec == [message[n] EXCEPT !.kind = kind]
      <4>1. rec \in Records
        BY <2>2, MessageType, Updates, Zenon
      <4>2. Post(n, rec) /\ UNCHANGED <<methodDlg, pendingApproval>>
        BY <1>12, <3>2 DEF Submit, dialog
      <4> HIDE DEF rec
      <4>3. QED
        BY <4>1, <4>2, PostType DEF TypeOK
    <3>3. QED
      BY <3>1, <3>2
  <2>4. QED
    BY <2>1, <2>2, <2>3 DEF TypeOK
<1>13. ASSUME NEW a \in asks, SessionLoaded(a) PROVE TypeOK'
  <2>1. UNCHANGED <<sessionId, methodDlg, pendingApproval, busy, stops, stopShown, message,
                      running, uploads, latest, listed, used, clicks, left, disturbed>>
    BY <1>13 DEF SessionLoaded, dialog, controls, server
  <2>2. /\ transcript' \in [of : Anywhere, cards : SUBSET Messages, welcome : BOOLEAN]
         /\ attachedStructure' \in Anywhere
         /\ files' \in Anywhere
         /\ asks' \subseteq Requests
    BY <1>13, RefreshType DEF TypeOK, SessionLoaded, RestoreAttachment, Anywhere, Requests
  <2>3. figure' \in [of : Anywhere, by : 0 .. MaxMessages]
    BY <1>13 DEF TypeOK, SessionLoaded, RestoreFigures, Anywhere, Requests
  <2>4. QED
    BY <2>1, <2>2, <2>3 DEF TypeOK
<1>14. ASSUME NEW a \in asks, SessionDeleted(a) PROVE TypeOK'
  <2>1. UNCHANGED <<methodDlg, pendingApproval, busy, stops, stopShown, message, clicks,
                      left>>
    BY <1>14 DEF SessionDeleted, page, lists, dialog, controls, server
  <2>2. CASE running[a.of] # 0
    <3>1. /\ UNCHANGED <<sessionId, transcript, figure, attachedStructure, files,
                       running, uploads, latest, listed, used, disturbed>>
          /\ asks' = asks \ {a}
      BY <1>14, <2>2 DEF SessionDeleted, page, lists, server
    <3>2. QED
      BY <2>1, <3>1 DEF TypeOK
  <2>3. CASE running[a.of] = 0
    <3>1. /\ asks' = asks \ {a} /\ UNCHANGED <<running, used>>
          /\ uploads' = uploads \ {a.of} /\ latest' = latest \ {a.of}
          /\ listed' = listed \ {a.of}
      BY <1>14, <2>3 DEF SessionDeleted
    <3>2. CASE sessionId = a.of
      <4>1. /\ sessionId' \in Anywhere /\ attachedStructure' \in Anywhere /\ files' \in Anywhere
            /\ transcript' \in [of : Anywhere, cards : SUBSET Messages, welcome : BOOLEAN]
            /\ figure' \in [of : Anywhere, by : 0 .. MaxMessages]
        BY <1>14, <2>3, <3>2, StartAnewType DEF SessionDeleted
      <4>2. disturbed' \in BOOLEAN
        BY <1>14, <2>3, <3>2, Zenon DEF SessionDeleted
      <4>3. QED
        BY <2>1, <3>1, <4>1, <4>2 DEF TypeOK
    <3>3. CASE sessionId # a.of
      <4>1. UNCHANGED <<sessionId, transcript, figure, attachedStructure, files>>
        BY <1>14, <2>3, <3>3 DEF SessionDeleted, page, lists
      <4>2. disturbed' \in BOOLEAN
        BY <1>14, <2>3, <3>3, Zenon DEF SessionDeleted
      <4>3. QED
        BY <2>1, <3>1, <4>1, <4>2 DEF TypeOK
    <3>4. QED
      BY <3>2, <3>3
  <2>4. QED
    BY <2>1, <2>2, <2>3 DEF TypeOK
<1>15. ASSUME NEW a \in asks, StructureUploaded(a) PROVE TypeOK'
  <2>1. UNCHANGED <<sessionId, transcript, methodDlg, pendingApproval, busy, stops,
                      stopShown, message, running, latest, listed, used, clicks, left,
                      disturbed>>
    BY <1>15 DEF StructureUploaded, dialog, controls
  <2>2. /\ uploads' \subseteq Sessions
         /\ attachedStructure' \in Anywhere
         /\ files' \in Anywhere
         /\ asks' \subseteq Requests
    BY <1>15, RefreshType DEF TypeOK, StructureUploaded, Anywhere, Requests
  <2>3. figure' \in [of : Anywhere, by : 0 .. MaxMessages]
    BY <1>15 DEF TypeOK, StructureUploaded, Anywhere, Requests
  <2>4. QED
    BY <2>1, <2>2, <2>3 DEF TypeOK
<1>16. ASSUME NEW a \in asks, UploadRefused(a) PROVE TypeOK'
  <2>1. UNCHANGED <<sessionId, transcript, figure, attachedStructure, files, methodDlg,
                      pendingApproval, busy, stops, stopShown, message, running, uploads,
                      latest, listed, used, clicks, left, disturbed>>
    BY <1>16 DEF UploadRefused, page, lists, dialog, controls, server
  <2>2. asks' \subseteq Requests
    BY <1>16 DEF TypeOK, UploadRefused
  <2>3. QED
    BY <2>1, <2>2 DEF TypeOK
<1>17. ASSUME NEW a \in asks, ActionAnswered(a) PROVE TypeOK'
  <2>1. UNCHANGED <<sessionId, transcript, figure, attachedStructure, methodDlg,
                      pendingApproval, busy, stops, stopShown, message, running, uploads,
                      latest, listed, used, clicks, left, disturbed>>
    BY <1>17 DEF ActionAnswered, dialog, controls, server
  <2>2. /\ files' \in Anywhere
         /\ asks' \subseteq Requests
    BY <1>17, RefreshType DEF TypeOK, ActionAnswered, Anywhere, Requests
  <2>3. QED
    BY <2>1, <2>2 DEF TypeOK
<1>18. ASSUME NEW a \in asks, CancelArrives(a) PROVE TypeOK'
  <2>1. UNCHANGED <<sessionId, transcript, figure, attachedStructure, files, methodDlg,
                      pendingApproval, busy, stops, stopShown, running, uploads, latest,
                      listed, used, clicks, left, disturbed>>
    BY <1>18 DEF CancelArrives, page, lists, dialog, controls, server
  <2>2. asks' \subseteq Requests
    BY <1>18 DEF TypeOK, CancelArrives
  <2>3. message' \in [Messages -> Records]
    <3>1. \A n \in Messages : [message[n] EXCEPT !.stopped = TRUE] \in Records
      BY MessageType, Updates, Zenon
    <3>2. running[a.of] # 0 => running[a.of] \in Messages
      BY DEF TypeOK, Requests, Messages
    <3>3. message \in [Messages -> Records]
      BY DEF TypeOK
    <3>4. QED
      BY <1>18, <3>1, <3>2, <3>3 DEF CancelArrives
  <2>4. QED
    BY <2>1, <2>2, <2>3 DEF TypeOK
<1>19. ASSUME NEW a \in asks, AskFails(a) PROVE TypeOK'
  <2>1. UNCHANGED <<methodDlg, pendingApproval, busy, stops, stopShown, message, running,
                      uploads, latest, listed, used, clicks, left>>
    BY <1>19 DEF AskFails, page, lists, dialog, controls, server
  <2>2. asks' \subseteq Requests /\ disturbed' \in BOOLEAN
    BY <1>19 DEF TypeOK, AskFails
  <2>3. /\ sessionId' \in Anywhere /\ attachedStructure' \in Anywhere /\ files' \in Anywhere
         /\ transcript' \in [of : Anywhere, cards : SUBSET Messages, welcome : BOOLEAN]
         /\ figure' \in [of : Anywhere, by : 0 .. MaxMessages]
    <3>1. CASE a.kind = "firstload"
      BY <1>19, <3>1, StartAnewType DEF AskFails
    <3>2. CASE a.kind # "firstload"
      <4>1. UNCHANGED <<sessionId, transcript, figure, attachedStructure, files>>
        BY <1>19, <3>2 DEF AskFails, page, lists
      <4>2. QED
        BY <4>1 DEF TypeOK
    <3>3. QED
      BY <3>1, <3>2
  <2>4. QED
    BY <2>1, <2>2, <2>3 DEF TypeOK
<1>20. ASSUME NEW n \in Messages, StreamOpens(n) PROVE TypeOK'
  <2>1. UNCHANGED <<sessionId, transcript, figure, attachedStructure, files, methodDlg,
                      pendingApproval, busy, stops, stopShown, asks, uploads, latest,
                      listed, clicks, left, disturbed>>
    BY <1>20 DEF StreamOpens, page, lists, dialog, controls
  <2>2. /\ message' \in [Messages -> Records] /\ used' \subseteq Sessions
         /\ running' \in [Sessions -> 0 .. MaxMessages]
    <3>1. PICK s \in Target(n) :
             /\ running' = [running EXCEPT ![s] = n]
             /\ used' = used \cup {s}
             /\ message' = [message EXCEPT ![n].st = "open", ![n].turn = s]
      BY <1>20, Zenon DEF StreamOpens
    <3>2. s \in Sessions
      BY <1>20 DEF Target, TypeOK, Records, Anywhere
    <3>3. [message[n] EXCEPT !.st = "open", !.turn = s] \in Records
      BY <3>2, MessageType, Updates, Zenon
    <3>4. message \in [Messages -> Records] /\ used \subseteq Sessions
      BY DEF TypeOK
    <3>5. message' \in [Messages -> Records] /\ used' \subseteq Sessions
      BY <3>1, <3>2, <3>3, <3>4
    <3>6. n \in 0 .. MaxMessages /\ running \in [Sessions -> 0 .. MaxMessages]
      BY DEF TypeOK, Messages
    <3>7. QED
      BY <3>1, <3>5, <3>6
  <2>3. QED
    BY <2>1, <2>2 DEF TypeOK
<1>21. ASSUME NEW n \in Messages, TurnEnds(n) PROVE TypeOK'
  <2>1. UNCHANGED <<sessionId, transcript, figure, attachedStructure, files, methodDlg,
                      pendingApproval, busy, stops, stopShown, asks, message, uploads,
                      used, clicks, left, disturbed>>
    BY <1>21 DEF TurnEnds, page, lists, dialog, controls
  <2>2. running' \in [Sessions -> 0 .. MaxMessages]
    <3>1. running' = [running EXCEPT ![message[n].turn] = 0]
      BY <1>21 DEF TurnEnds
    <3>2. 0 \in 0 .. MaxMessages /\ running \in [Sessions -> 0 .. MaxMessages]
      BY DEF TypeOK
    <3>3. QED
      BY <3>1, <3>2
  <2>3. listed' \subseteq Sessions /\ latest' \subseteq Sessions
    <3>1. message[n].turn \in Sessions
      BY <1>21 DEF TurnEnds, Working, TypeOK, Records, Anywhere
    <3>2. QED
      BY <1>21, <3>1 DEF TypeOK, TurnEnds
  <2>4. QED
    BY <2>1, <2>2, <2>3 DEF TypeOK
<1>22. ASSUME NEW n \in Messages, Refused(n) PROVE TypeOK'
  <2>1. Over(n, "refused") /\ "refused" \in States
    BY <1>22 DEF Refused, States
  <2>2. disturbed' \in BOOLEAN
    BY <1>22 DEF TypeOK, Refused
  <2>3. QED
    BY <2>1, <2>2, OverType DEF TypeOK
<1>23. ASSUME NEW n \in Messages, StreamStarts(n) PROVE TypeOK'
  <2>1. UNCHANGED <<transcript, figure, attachedStructure, methodDlg, pendingApproval,
                      busy, stops, stopShown, asks, running, uploads, latest, listed, used,
                      clicks, left, disturbed>>
    BY <1>23 DEF StreamStarts, dialog, controls, server
  <2>2. sessionId' \in Anywhere /\ files' \in Anywhere
    <3>1. message[n].turn \in Anywhere
      BY DEF TypeOK, Records
    <3>2. QED
      BY <1>23, <3>1, RefreshType DEF StreamStarts
  <2>3. message' \in [Messages -> Records]
    <3>1. [message[n] EXCEPT !.st = "reading"] \in Records
      BY MessageType, StateNames, Updates, Zenon
    <3>2. message \in [Messages -> Records]
      BY DEF TypeOK
    <3>3. QED
      BY <1>23, <3>1, <3>2 DEF StreamStarts
  <2>4. QED
    BY <2>1, <2>2, <2>3 DEF TypeOK
<1>24. ASSUME NEW n \in Messages, FigureArrives(n) PROVE TypeOK'
  <2>1. UNCHANGED <<sessionId, transcript, attachedStructure, files, methodDlg,
                      pendingApproval, busy, stops, stopShown, asks, running, uploads,
                      latest, listed, used, clicks, left, disturbed>>
    BY <1>24 DEF FigureArrives, lists, dialog, controls, server
  <2>2. message' \in [Messages -> Records]
    <3>1. [message[n] EXCEPT !.drew = TRUE] \in Records
      BY MessageType, Updates, Zenon
    <3>2. message \in [Messages -> Records]
      BY DEF TypeOK
    <3>3. QED
      BY <1>24, <3>1, <3>2 DEF FigureArrives
  <2>3. figure' \in [of : Anywhere, by : 0 .. MaxMessages]
    <3>1. message[n].turn \in Anywhere /\ n \in 0 .. MaxMessages
      BY DEF TypeOK, Records, Messages
    <3>2. QED
      BY <1>24, <3>1 DEF FigureArrives
  <2>4. QED
    BY <2>1, <2>2, <2>3 DEF TypeOK
<1>25. ASSUME NEW n \in Messages, StreamEnds(n) PROVE TypeOK'
  <2>1. Over(n, "done") /\ "done" \in States
    BY <1>25 DEF StreamEnds, States
  <2>2. disturbed' \in BOOLEAN
    BY <1>25 DEF TypeOK, StreamEnds
  <2>3. QED
    BY <2>1, <2>2, OverType DEF TypeOK
<1>26. ASSUME NEW n \in Messages, StreamBreaks(n) PROVE TypeOK'
  <2>1. Over(n, "broken") /\ "broken" \in States
    BY <1>26 DEF StreamBreaks, States
  <2>2. disturbed' \in BOOLEAN
    BY <1>26 DEF TypeOK, StreamBreaks
  <2>3. QED
    BY <2>1, <2>2, OverType DEF TypeOK
<1>27. CASE UNCHANGED vars
  BY <1>27 DEF TypeOK, vars, page, lists, dialog, controls, server
<1>28. CASE ChooseAccuracy \/ EditInputs
  <2>1. UNCHANGED <<sessionId, transcript, figure, attachedStructure, files,
                      pendingApproval, busy, stops, stopShown, asks, message, running,
                      uploads, latest, listed, used, left, disturbed>>
    BY <1>28 DEF ChooseAccuracy, EditInputs, page, lists, controls, server
  <2>2. methodDlg' \in [open : BOOLEAN, view : Views] /\ clicks' \in 0 .. MaxClicks
    <3>1. CASE ChooseAccuracy
      BY <1>28, <3>1 DEF TypeOK, ChooseAccuracy, ClickPage
    <3>2. CASE EditInputs
      <4>1. methodDlg' = [methodDlg EXCEPT !.view.edited = TRUE] /\ clicks' = clicks
        BY <3>2 DEF EditInputs
      <4>2. methodDlg \in [open : BOOLEAN, view : Views] /\ clicks \in 0 .. MaxClicks
        BY DEF TypeOK
      <4>3. [methodDlg.view EXCEPT !.edited = TRUE] \in Views
        BY <4>2 DEF Views
      <4>4. QED
        BY <4>1, <4>2, <4>3
    <3>3. QED
      BY <1>28, <3>1, <3>2
  <2>3. QED
    BY <2>1, <2>2 DEF TypeOK
<1>29. ASSUME NEW s \in listings, Listed(s) \/ ListFails(s) PROVE TypeOK'
  <2>1. UNCHANGED <<sessionId, transcript, figure, attachedStructure, methodDlg,
                      pendingApproval, busy, stops, stopShown, asks, message, running,
                      uploads, latest, listed, used, clicks, left, disturbed>>
    BY <1>29 DEF Listed, ListFails, dialog, controls, server
  <2>2. files' \in Anywhere
    BY <1>29 DEF TypeOK, Listed, ListFails, Anywhere
  <2>3. QED
    BY <2>1, <2>2 DEF TypeOK
<1>30. QED
  BY <1>1, <1>2, <1>3, <1>4, <1>5, <1>6, <1>7, <1>8, <1>9, <1>10, <1>11, <1>12,
     <1>13, <1>14, <1>15, <1>16, <1>17, <1>18, <1>19, <1>20, <1>21, <1>22, <1>23, <1>24,
     <1>25, <1>26, <1>27, <1>28, <1>29
     DEF Next, ByUser, Answered, Streaming

-----------------------------------------------------------------------------

\* What the steps that touch a message do to it.

LEMMA PostEffect ==
  ASSUME TypeOK, NEW n \in Messages, NEW rec \in Records, Post(n, rec)
  PROVE  /\ \A m \in Messages : m # n => message'[m] = message[m]
         /\ message'[n].st = "posted" /\ message'[n].to = sessionId
         /\ message'[n].structure = Carried(rec.kind)
         /\ message'[n].config = RunConfig(rec.kind)
         /\ message'[n].owned => sessionId \in uploads
         /\ message'[n].calm => Quiet /\ ~disturbed
         /\ message'[n].turn = rec.turn /\ message'[n].drew = rec.drew
         /\ message'[n].kind = rec.kind /\ message'[n].seen = rec.seen
         /\ figure' = Nothing
         /\ transcript'.of = transcript.of /\ transcript'.cards = transcript.cards \cup {n}
         /\ busy' = TRUE /\ stopShown' = TRUE /\ stops' = stops \cup {n}
         /\ ~disturbed' => ~disturbed /\ Loads = {} /\ Underway = {}
<1>1. /\ \A m \in Messages : m # n => message'[m] = message[m]
      /\ message'[n].st = "posted" /\ message'[n].to = sessionId
      /\ message'[n].structure = Carried(rec.kind)
      /\ message'[n].config = RunConfig(rec.kind)
      /\ message'[n].turn = rec.turn /\ message'[n].drew = rec.drew
      /\ message'[n].kind = rec.kind /\ message'[n].seen = rec.seen
  BY DEF TypeOK, Post, Records
<1>2. message'[n].owned = (sessionId \in uploads)
  BY DEF TypeOK, Post, Records
<1>3. message'[n].calm = (Quiet /\ ~disturbed)
  BY DEF TypeOK, Post, Records
<1>4. /\ figure' = Nothing
      /\ transcript'.of = transcript.of /\ transcript'.cards = transcript.cards \cup {n}
      /\ busy' = TRUE /\ stopShown' = TRUE /\ stops' = stops \cup {n}
  BY DEF TypeOK, Post, OnPost
<1>5. ~disturbed' => ~disturbed /\ Loads = {} /\ Underway = {}
  BY DEF Post
<1>6. QED
  BY <1>1, <1>2, <1>3, <1>4, <1>5

LEMMA OverEffect ==
  ASSUME TypeOK, NEW n \in Messages, NEW st \in States, Over(n, st)
  PROVE  /\ \A m \in Messages : m # n => message'[m] = message[m]
         /\ message'[n].st = st
         /\ message'[n].calm => message[n].calm /\ ~disturbed
         /\ message'[n].turn = message[n].turn /\ message'[n].drew = message[n].drew
         /\ message'[n].kind = message[n].kind /\ message'[n].seen = message[n].seen
         /\ message'[n].to = message[n].to /\ message'[n].owned = message[n].owned
         /\ message'[n].structure = message[n].structure
         /\ message'[n].config = message[n].config
<1>1. message[n].calm \in BOOLEAN /\ message[n] \in Records
  BY DEF TypeOK, Records
<1>2. message'[n].calm = (message[n].calm /\ ~disturbed)
  BY DEF TypeOK, Over, Records
<1>3. /\ \A m \in Messages : m # n => message'[m] = message[m]
      /\ message'[n].st = st
      /\ message'[n].turn = message[n].turn /\ message'[n].drew = message[n].drew
      /\ message'[n].kind = message[n].kind /\ message'[n].seen = message[n].seen
      /\ message'[n].to = message[n].to /\ message'[n].owned = message[n].owned
      /\ message'[n].structure = message[n].structure
      /\ message'[n].config = message[n].config
  BY DEF TypeOK, Over, Records
<1>4. QED
  BY <1>2, <1>3

\* A list that is answered changes nothing but the lists.
ListStep == \E s \in listings : Listed(s) \/ ListFails(s)

LEMMA ListEffect ==
  ListStep => UNCHANGED <<sessionId, transcript, figure, attachedStructure, methodDlg,
                          pendingApproval, method, busy, stops, stopShown, asks, message,
                          running, uploads, latest, listed, used, clicks, left, disturbed>>
BY DEF ListStep, Listed, ListFails, dialog, controls, server

\* The other fields of a message whose state changes stay as they are.
Steady(n) ==
    /\ \A m \in Messages : m # n => message'[m] = message[m]
    /\ message'[n].kind = message[n].kind /\ message'[n].seen = message[n].seen
    /\ message'[n].to = message[n].to /\ message'[n].owned = message[n].owned
    /\ message'[n].structure = message[n].structure /\ message'[n].calm = message[n].calm
    /\ message'[n].config = message[n].config

LEMMA StreamOpensEffect ==
  ASSUME TypeOK, NEW n \in Messages, StreamOpens(n)
  PROVE  \E s \in Sessions :
            /\ s \in Target(n) /\ Admits(n, s)
            /\ running' = [running EXCEPT ![s] = n]
            /\ used' = used \cup {s}
            /\ Steady(n)
            /\ message'[n].st = "open" /\ message'[n].turn = s
            /\ message'[n].drew = message[n].drew
<1>1. PICK s \in Target(n) :
         /\ Admits(n, s)
         /\ running' = [running EXCEPT ![s] = n]
         /\ used' = used \cup {s}
         /\ message' = [message EXCEPT ![n].st = "open", ![n].turn = s]
  BY Zenon DEF StreamOpens
<1>2. s \in Sessions
  BY DEF StreamOpens, Target, TypeOK, Records, Anywhere
<1>3. /\ Steady(n)
      /\ message'[n].st = "open" /\ message'[n].turn = s
      /\ message'[n].drew = message[n].drew
  BY <1>1 DEF TypeOK, Steady, Records
<1>4. QED
  BY <1>1, <1>2, <1>3

LEMMA StreamStartsEffect ==
  ASSUME TypeOK, NEW n \in Messages, StreamStarts(n)
  PROVE  /\ Steady(n) /\ message'[n].st = "reading"
         /\ message'[n].turn = message[n].turn /\ message'[n].drew = message[n].drew
BY DEF TypeOK, StreamStarts, Steady, Records

LEMMA FigureArrivesEffect ==
  ASSUME TypeOK, NEW n \in Messages, FigureArrives(n)
  PROVE  /\ Steady(n) /\ message'[n].st = message[n].st
         /\ message'[n].turn = message[n].turn /\ message'[n].drew = TRUE
BY DEF TypeOK, FigureArrives, Steady, Records

LEMMA CancelEffect ==
  ASSUME TypeOK, NEW a \in asks, CancelArrives(a)
  PROVE  \A m \in Messages :
            /\ message'[m].kind = message[m].kind /\ message'[m].seen = message[m].seen
            /\ message'[m].to = message[m].to /\ message'[m].owned = message[m].owned
            /\ message'[m].structure = message[m].structure
            /\ message'[m].config = message[m].config
            /\ message'[m].calm = message[m].calm /\ message'[m].st = message[m].st
            /\ message'[m].turn = message[m].turn /\ message'[m].drew = message[m].drew
BY DEF TypeOK, CancelArrives, Records

LEMMA DismissEffect ==
  ASSUME TypeOK, Dismiss
  PROVE  /\ pendingApproval = 0 => message' = message
         /\ pendingApproval # 0 =>
               /\ pendingApproval \in Messages
               /\ Steady(pendingApproval) /\ message'[pendingApproval].st = "dropped"
               /\ message'[pendingApproval].turn = message[pendingApproval].turn
               /\ message'[pendingApproval].drew = message[pendingApproval].drew
<1>1. pendingApproval # 0 => pendingApproval \in Messages
  BY PageAssumption DEF TypeOK, Messages
<1>2. QED
  BY <1>1 DEF TypeOK, Dismiss, Steady, Records

\* A message goes out, from a state in which it has not been out yet.
Posts(n) ==
    /\ message[n].st \in {"unborn", "waiting"}
    /\ \A m \in Messages : m # n => message'[m] = message[m]
    /\ message'[n].st = "posted" /\ message'[n].to = sessionId
    /\ message'[n].structure = Carried(message'[n].kind)
    /\ message'[n].config = RunConfig(message'[n].kind)
    /\ message'[n].owned => sessionId \in uploads
    /\ message'[n].calm => Quiet /\ ~disturbed
    /\ message'[n].turn = message[n].turn /\ message'[n].drew = message[n].drew
    /\ figure' = Nothing
    /\ transcript'.of = transcript.of /\ transcript'.cards = transcript.cards \cup {n}
    /\ busy' = TRUE /\ stopShown' = TRUE /\ stops' = stops \cup {n}
    /\ ~disturbed' => ~disturbed /\ Loads = {} /\ Underway = {}
    /\ UNCHANGED <<sessionId, attachedStructure, lists, method, asks, running, uploads, latest,
                   listed, used, left>>

\* A message begins to wait for its approval.
Waits(n) ==
    /\ message[n].st = "unborn"
    /\ \A m \in Messages : m # n => message'[m] = message[m]
    /\ message'[n].st = "waiting" /\ message'[n].kind = "research"
    /\ message'[n].to = message[n].to /\ message'[n].turn = message[n].turn
    /\ message'[n].structure = message[n].structure /\ message'[n].drew = message[n].drew
    /\ methodDlg' = [open |-> TRUE, view |-> View(n)] /\ pendingApproval' = n
    /\ UNCHANGED <<sessionId, transcript, figure, attachedStructure, lists, method, busy, stops,
                   stopShown, asks, running, uploads, latest, listed, used, left, disturbed>>

LEMMA SubmitEffect ==
  ASSUME TypeOK, NEW n \in Messages, NEW kind \in KindsOf[n], Submit(n, kind)
  PROVE  \/ Waits(n)
         \/ /\ Posts(n) /\ message'[n].kind # "research"
            /\ UNCHANGED <<methodDlg, pendingApproval>>
<1>1. kind \in Kinds
  BY PageAssumption DEF Messages, Kinds
<1>2. CASE kind = "research"
  BY <1>2 DEF TypeOK, Submit, Waits, Records, controls, server
<1>3. CASE kind # "research"
  <2> DEFINE rec == [message[n] EXCEPT !.kind = kind]
  <2>1. rec \in Records
    BY <1>1, MessageType, Updates, Zenon
  <2>2. /\ rec.turn = message[n].turn /\ rec.drew = message[n].drew /\ rec.kind = kind
        /\ message[n].st = "unborn"
    BY MessageType DEF Records, Submit
  <2>3. /\ Post(n, rec)
        /\ UNCHANGED <<sessionId, attachedStructure, lists, asks, running, uploads, latest,
                       listed, used, left, methodDlg, pendingApproval, method>>
    BY <1>3 DEF Submit, dialog, server
  <2> HIDE DEF rec
  <2>4. Posts(n) /\ message'[n].kind = kind
    BY <2>1, <2>2, <2>3, PostEffect DEF Posts
  <2>5. QED
    BY <1>3, <2>3, <2>4
<1>4. QED
  BY <1>2, <1>3

LEMMA ConfirmEffect ==
  ASSUME TypeOK, PendingInv, Confirm
  PROVE  /\ methodDlg.open /\ methodDlg' = Closed /\ pendingApproval' = 0
         /\ pendingApproval = 0 =>
               UNCHANGED <<sessionId, transcript, figure, attachedStructure, lists, busy, stops,
                           stopShown, asks, message, running, uploads, latest, listed, used,
                           left, disturbed>>
         /\ pendingApproval # 0 =>
               /\ pendingApproval \in Messages /\ Posts(pendingApproval)
               /\ message'[pendingApproval].kind = "research"
               /\ message'[pendingApproval].seen = methodDlg.view
<1>1. methodDlg.open /\ methodDlg' = Closed /\ pendingApproval' = 0
  BY DEF Confirm
<1>2. CASE pendingApproval = 0
  BY <1>1, <1>2 DEF Confirm, controls, server
<1>3. CASE pendingApproval # 0
  <2> DEFINE p == pendingApproval
             rec == [message[p] EXCEPT !.seen = methodDlg.view]
  <2>1. p \in Messages /\ methodDlg.view \in Views
    BY <1>3, PageAssumption DEF TypeOK, Messages
  <2>2. rec \in Records
    BY <2>1, MessageType, Updates, Zenon
  <2>3. /\ rec.turn = message[p].turn /\ rec.drew = message[p].drew
        /\ rec.kind = "research" /\ rec.seen = methodDlg.view /\ message[p].st = "waiting"
    BY <1>3, <2>1, MessageType DEF Records, PendingInv
  <2>4. /\ Post(p, rec)
        /\ UNCHANGED <<sessionId, attachedStructure, lists, method, asks, running, uploads,
                       latest, listed, used, left>>
    BY <1>3 DEF Confirm, server
  <2> HIDE DEF rec
  <2>5. Posts(p) /\ message'[p].kind = "research" /\ message'[p].seen = methodDlg.view
    BY <2>1, <2>2, <2>3, <2>4, PostEffect DEF Posts
  <2>6. QED
    BY <1>1, <1>3, <2>1, <2>5
<1>4. QED
  BY <1>2, <1>3

-----------------------------------------------------------------------------

\* What is known of the messages and of the server.

LEMMA PostsMessage ==
  ASSUME TypeOK, MessageInv, NEW n \in Messages, Posts(n)
  PROVE  MessageInv'
BY DEF Posts, MessageInv

LEMMA OverMessage ==
  ASSUME TypeOK, MessageInv, NEW n \in Messages, NEW st \in {"done", "refused", "broken"},
         Over(n, st), message[n].turn = NoSession \/ st # "refused",
         message[n].drew => st # "refused",
         n \in Underway
  PROVE  MessageInv'
<1>1. st \in States
  BY DEF States
<1>2. used' = used
  BY OverType, <1>1
<1>3. QED
  BY <1>1, <1>2, OverEffect DEF MessageInv, Underway

LEMMA MessageStep ==
  ASSUME TypeOK, MessageInv, PendingInv, [Next]_vars
  PROVE  MessageInv'
<1>1. CASE message' = message /\ used \subseteq used'
  BY <1>1 DEF MessageInv
<1>2. ASSUME NEW n \in Messages, NEW kind \in KindsOf[n], Submit(n, kind) PROVE MessageInv'
  <2>1. CASE Waits(n)
    BY <2>1 DEF Waits, MessageInv
  <2>2. QED
    BY <1>2, <2>1, SubmitEffect, PostsMessage
<1>3. CASE Confirm
  BY <1>1, <1>3, ConfirmEffect, PostsMessage
<1>4. CASE Dismiss
  <2>1. used' = used
    BY <1>4 DEF Dismiss, server
  <2>2. QED
    BY <1>1, <1>4, <2>1, DismissEffect DEF MessageInv, PendingInv, Steady
<1>5. ASSUME NEW n \in Messages, StreamOpens(n) PROVE MessageInv'
  <2>1. PICK s \in Sessions :
           /\ s \in Target(n) /\ Admits(n, s) /\ used' = used \cup {s}
           /\ Steady(n) /\ message'[n].st = "open" /\ message'[n].turn = s
           /\ message'[n].drew = message[n].drew
    BY <1>5, StreamOpensEffect
  <2>2. message[n].st = "posted" /\ message[n].to \in {NoSession, s}
    BY <1>5, <2>1 DEF StreamOpens, Target
  <2>3. message[n].structure \in {NoSession, s}
    BY <2>1 DEF Admits
  <2>4. QED
    BY <2>1, <2>2, <2>3, PageAssumption DEF MessageInv, Steady
<1>6. ASSUME NEW n \in Messages, StreamStarts(n) PROVE MessageInv'
  <2>1. message[n].st = "open" /\ used' = used
    BY <1>6 DEF StreamStarts, server
  <2>2. QED
    BY <1>6, <2>1, StreamStartsEffect DEF MessageInv, Steady
<1>7. ASSUME NEW n \in Messages, FigureArrives(n) PROVE MessageInv'
  <2>1. message[n].st = "reading" /\ used' = used
    BY <1>7 DEF FigureArrives, server
  <2>2. \A m \in Messages :
           /\ message'[m].st = message[m].st /\ message'[m].turn = message[m].turn
           /\ message'[m].to = message[m].to /\ message'[m].structure = message[m].structure
           /\ m # n => message'[m].drew = message[m].drew
    BY <1>7, FigureArrivesEffect DEF Steady
  <2>3. message[n].turn # NoSession
    BY <2>1 DEF MessageInv
  <2>4. QED
    BY <2>1, <2>2, <2>3 DEF MessageInv
<1>8. ASSUME NEW n \in Messages, Refused(n) \/ StreamEnds(n) \/ StreamBreaks(n)
      PROVE  MessageInv'
  <2>1. CASE Refused(n)
    BY <2>1, OverMessage DEF Refused, Underway, MessageInv
  <2>2. CASE StreamEnds(n)
    BY <2>2, OverMessage DEF StreamEnds, Underway
  <2>3. CASE StreamBreaks(n)
    BY <2>3, OverMessage DEF StreamBreaks
  <2>4. QED
    BY <1>8, <2>1, <2>2, <2>3
<1>9. ASSUME NEW a \in asks, CancelArrives(a) PROVE MessageInv'
  <2>1. used' = used
    BY <1>9 DEF CancelArrives, server
  <2>2. QED
    BY <1>9, <2>1, CancelEffect DEF MessageInv
<1>10. CASE \/ NewSession \/ OpenFiles \/ UploadStructure \/ RunAction \/ StopPressed
            \/ ChooseAccuracy \/ EditInputs \/ OpenMethod \/ Escape
            \/ \E s \in Sessions : ClickSession(s) \/ DeleteSession(s)
  BY <1>1, <1>10
     DEF NewSession, OpenFiles, UploadStructure, RunAction, StopPressed, ChooseAccuracy,
         EditInputs, OpenMethod, Escape, ClickSession, DeleteSession, server
<1>11. ASSUME NEW a \in asks,
              \/ SessionLoaded(a) \/ SessionDeleted(a) \/ StructureUploaded(a)
              \/ UploadRefused(a) \/ ActionAnswered(a) \/ AskFails(a)
       PROVE  MessageInv'
  BY <1>1, <1>11
     DEF SessionLoaded, SessionDeleted, StructureUploaded, UploadRefused, ActionAnswered,
         AskFails, server
<1>12. ASSUME NEW n \in Messages, TurnEnds(n) PROVE MessageInv'
  BY <1>1, <1>12 DEF TurnEnds
<1>13. CASE ListStep \/ UNCHANGED vars
  BY <1>1, <1>13, ListEffect DEF vars, server
<1>14. QED
  BY <1>2, <1>3, <1>4, <1>5, <1>6, <1>7, <1>8, <1>9, <1>10, <1>11, <1>12, <1>13
     DEF Next, ByUser, Answered, Streaming, ListStep

\* A turn stays where it is.
LEMMA TurnsStay ==
  ASSUME TypeOK, MessageInv, PendingInv, [Next]_vars
  PROVE  \A m \in Messages :
            message[m].turn # NoSession => message'[m].turn = message[m].turn
<1> SUFFICES ASSUME NEW m \in Messages, message[m].turn # NoSession
             PROVE  message'[m].turn = message[m].turn
  OBVIOUS
<1>1. ASSUME NEW n \in Messages, NEW kind \in KindsOf[n], Submit(n, kind)
      PROVE  message'[m].turn = message[m].turn
  BY <1>1, SubmitEffect DEF Waits, Posts
<1>2. CASE Confirm
  BY <1>2, ConfirmEffect DEF Posts
<1>3. CASE Dismiss
  BY <1>3, DismissEffect DEF Steady
<1>4. ASSUME NEW n \in Messages, StreamOpens(n) PROVE message'[m].turn = message[m].turn
  <2>1. n # m
    BY <1>4 DEF StreamOpens, MessageInv
  <2>2. QED
    BY <1>4, <2>1, StreamOpensEffect DEF Steady
<1>5. ASSUME NEW n \in Messages, StreamStarts(n) \/ FigureArrives(n)
      PROVE  message'[m].turn = message[m].turn
  BY <1>5, StreamStartsEffect, FigureArrivesEffect DEF Steady
<1>6. ASSUME NEW n \in Messages, Refused(n) \/ StreamEnds(n) \/ StreamBreaks(n)
      PROVE  message'[m].turn = message[m].turn
  BY <1>6, OverEffect DEF States, Refused, StreamEnds, StreamBreaks
<1>7. ASSUME NEW a \in asks, CancelArrives(a) PROVE message'[m].turn = message[m].turn
  BY <1>7, CancelEffect
<1>8. CASE message' = message
  BY <1>8
<1>9. QED
  BY <1>1, <1>2, <1>3, <1>4, <1>5, <1>6, <1>7, <1>8, ListEffect
     DEF ListStep, Next, ByUser, Answered, Streaming, NewSession, OpenFiles, UploadStructure,
         RunAction, StopPressed, ChooseAccuracy, EditInputs, OpenMethod, Escape, ClickSession,
         DeleteSession, SessionLoaded, SessionDeleted, StructureUploaded, UploadRefused,
         ActionAnswered, AskFails, TurnEnds, vars

LEMMA ServerStep ==
  ASSUME TypeOK, MessageInv, PendingInv, ServerInv, [Next]_vars
  PROVE  ServerInv'
<1>1. \A s \in Sessions : running[s] # 0 => running[s] \in Messages
  BY PageAssumption DEF TypeOK, Messages
<1>2. CASE \/ /\ UNCHANGED running /\ listed' \subseteq listed /\ uploads' \subseteq uploads
              /\ used \subseteq used'
              /\ \A a \in asks' : a.kind = "upload" => a \in asks \/ a.of \in used'
  BY <1>1, <1>2, TurnsStay, PageAssumption DEF ServerInv
<1>3. ASSUME NEW n \in Messages, NEW kind \in KindsOf[n], Submit(n, kind) PROVE ServerInv'
  BY <1>2, <1>3, SubmitEffect DEF Waits, Posts
<1>4. CASE Confirm
  BY <1>2, <1>4, ConfirmEffect DEF Posts
<1>5. CASE \/ Dismiss \/ Escape \/ OpenFiles \/ OpenMethod \/ NewSession
           \/ ChooseAccuracy \/ EditInputs
  BY <1>2, <1>5
     DEF Dismiss, Escape, OpenFiles, OpenMethod, NewSession, ChooseAccuracy, EditInputs, server
<1>6. CASE RunAction \/ StopPressed \/ \E s \in Sessions : ClickSession(s) \/ DeleteSession(s)
  BY <1>2, <1>6 DEF RunAction, StopPressed, ClickSession, DeleteSession, server, Ask
<1>7. CASE UploadStructure
  BY <1>2, <1>7 DEF UploadStructure, Ask
<1>8. ASSUME NEW a \in asks,
             \/ SessionLoaded(a) \/ UploadRefused(a) \/ ActionAnswered(a) \/ AskFails(a)
             \/ CancelArrives(a)
      PROVE  ServerInv'
  BY <1>2, <1>8
     DEF SessionLoaded, UploadRefused, ActionAnswered, AskFails, CancelArrives, server
<1>9. ASSUME NEW a \in asks, SessionDeleted(a) PROVE ServerInv'
  BY <1>2, <1>9 DEF SessionDeleted, server
<1>10. ASSUME NEW a \in asks, StructureUploaded(a) PROVE ServerInv'
  <2>1. a.of \in used /\ UNCHANGED <<running, listed, used>> /\ message' = message
        /\ asks' = asks \ {a} /\ uploads' = uploads \cup {a.of}
    BY <1>10 DEF StructureUploaded, ServerInv
  <2>2. QED
    BY <2>1 DEF ServerInv
<1>11. ASSUME NEW n \in Messages, StreamOpens(n) PROVE ServerInv'
  <2>1. PICK s \in Sessions :
           /\ running' = [running EXCEPT ![s] = n] /\ used' = used \cup {s}
           /\ message'[n].turn = s
    BY <1>11, StreamOpensEffect
  <2>2. UNCHANGED <<listed, uploads, asks>>
    BY <1>11 DEF StreamOpens
  <2>3. \A r \in Sessions : r # s => running'[r] = running[r]
    BY <2>1 DEF TypeOK
  <2>4. running'[s] = n
    BY <2>1 DEF TypeOK
  <2>5. \A r \in Sessions : running'[r] # 0 => message'[running'[r]].turn = r
    BY <1>1, <2>1, <2>3, <2>4, TurnsStay, PageAssumption DEF ServerInv
  <2>6. QED
    BY <2>1, <2>2, <2>5 DEF ServerInv
<1>12. ASSUME NEW n \in Messages, TurnEnds(n) PROVE ServerInv'
  <2>1. /\ running' = [running EXCEPT ![message[n].turn] = 0] /\ message' = message
        /\ listed' \subseteq listed \cup {message[n].turn}
        /\ UNCHANGED <<uploads, used, asks>>
        /\ message[n].turn # NoSession
    BY <1>12 DEF TurnEnds, Working
  <2>2. message[n].turn \in used
    BY <2>1 DEF MessageInv
  <2>3. QED
    BY <1>1, <2>1, <2>2 DEF ServerInv, TypeOK
<1>13. ASSUME NEW n \in Messages, StreamStarts(n) \/ FigureArrives(n) PROVE ServerInv'
  BY <1>2, <1>13 DEF StreamStarts, FigureArrives, server
<1>14. ASSUME NEW n \in Messages, Refused(n) \/ StreamEnds(n) \/ StreamBreaks(n)
       PROVE  ServerInv'
  BY <1>2, <1>14, OverType DEF States, Refused, StreamEnds, StreamBreaks
<1>15. CASE ListStep \/ UNCHANGED vars
  BY <1>2, <1>15, ListEffect DEF vars, server
<1>16. QED
  BY <1>3, <1>4, <1>5, <1>6, <1>7, <1>8, <1>9, <1>10, <1>11, <1>12, <1>13, <1>14, <1>15
     DEF Next, ByUser, Answered, Streaming, ListStep

-----------------------------------------------------------------------------

\* What a dialog shows and settles.

\* A message that was sent goes on, and the others stay as they are.
Onward ==
    \A m \in Messages :
       /\ message'[m].kind = message[m].kind /\ message'[m].seen = message[m].seen
       /\ message'[m].to = message[m].to /\ message'[m].owned = message[m].owned
       /\ message'[m].structure = message[m].structure
       /\ message'[m].config = message[m].config
       /\ message'[m].calm => message[m].calm
       /\ \/ message'[m].st = message[m].st
          \/ /\ message[m].st \in {"posted", "open", "reading"}
             /\ message'[m].st \in {"open", "reading", "done", "refused", "broken"}

LEMMA OnwardStep ==
  ASSUME TypeOK, [Next]_vars
  PROVE  \/ /\ Onward /\ UNCHANGED <<methodDlg, pendingApproval, left>>
            /\ method' = method \/ ~methodDlg.open
         \/ Onward /\ (Escape \/ OpenMethod \/ EditInputs)
         \/ Confirm \/ Dismiss
         \/ \E n \in Messages : \E kind \in KindsOf[n] : Submit(n, kind)
<1>1. CASE message' = message
  <2>1. Onward
    BY <1>1 DEF Onward
  <2>2. CASE ChooseAccuracy
    BY <2>1, <2>2 DEF ChooseAccuracy, ClickPage
  <2>3. CASE ListStep
    BY <2>1, <2>3, ListEffect
  <2>4. QED
    BY <2>1, <2>2, <2>3
       DEF ListStep, Next, ByUser, Answered, Streaming, NewSession, OpenFiles,
           UploadStructure, RunAction, StopPressed, ClickSession, DeleteSession,
           SessionLoaded, SessionDeleted, StructureUploaded, UploadRefused, ActionAnswered,
           CancelArrives, AskFails, StreamOpens, TurnEnds, Refused, StreamStarts, FigureArrives, StreamEnds,
           StreamBreaks, Over, dialog, vars
<1>2. ASSUME NEW n \in Messages, StreamOpens(n)
      PROVE  Onward /\ UNCHANGED <<methodDlg, pendingApproval, method, left>>
  <2>1. Steady(n) /\ message'[n].st = "open"
    BY <1>2, StreamOpensEffect
  <2>2. message[n].st = "posted" /\ UNCHANGED <<methodDlg, pendingApproval, method, left>>
    BY <1>2 DEF StreamOpens, dialog
  <2>3. QED
    BY <2>1, <2>2 DEF Steady, Onward
<1>3. ASSUME NEW n \in Messages, StreamStarts(n)
      PROVE  Onward /\ UNCHANGED <<methodDlg, pendingApproval, method, left>>
  BY <1>3, StreamStartsEffect DEF StreamStarts, Steady, Onward, dialog
<1>4. ASSUME NEW n \in Messages, FigureArrives(n)
      PROVE  Onward /\ UNCHANGED <<methodDlg, pendingApproval, method, left>>
  BY <1>4, FigureArrivesEffect DEF FigureArrives, Steady, Onward, dialog
<1>5. ASSUME NEW n \in Messages, Refused(n) \/ StreamEnds(n) \/ StreamBreaks(n)
      PROVE  Onward /\ UNCHANGED <<methodDlg, pendingApproval, method, left>>
  <2>1. message[n].st \in {"posted", "open", "reading"}
    BY <1>5 DEF Refused, StreamEnds, StreamBreaks, Underway
  <2>2. PICK st \in {"done", "refused", "broken"} : Over(n, st)
    BY <1>5 DEF Refused, StreamEnds, StreamBreaks
  <2>3. st \in States
    BY DEF States
  <2>4. QED
    BY <2>1, <2>2, <2>3, OverType, OverEffect DEF Onward
<1>6. ASSUME NEW a \in asks, CancelArrives(a)
      PROVE  Onward /\ UNCHANGED <<methodDlg, pendingApproval, method, left>>
  BY <1>6, CancelEffect DEF CancelArrives, Onward, dialog
<1>7. QED
  BY <1>1, <1>2, <1>3, <1>4, <1>5, <1>6, ListEffect
     DEF ListStep, Next, ByUser, Answered, Streaming, NewSession, OpenFiles, UploadStructure,
         RunAction, StopPressed, ChooseAccuracy, EditInputs, OpenMethod, Escape, ClickSession,
         DeleteSession, SessionLoaded, SessionDeleted, StructureUploaded, UploadRefused,
         ActionAnswered, AskFails, TurnEnds, vars

LEMMA PendingStep ==
  ASSUME TypeOK, PendingInv, [Next]_vars
  PROVE  PendingInv'
<1>1. pendingApproval # 0 => pendingApproval \in Messages
  BY PageAssumption DEF TypeOK, Messages
<1>2. CASE Onward /\ UNCHANGED <<methodDlg, pendingApproval, left>>
  BY <1>1, <1>2 DEF Onward, PendingInv
<1>3. CASE Onward /\ Escape
  BY <1>1, <1>3 DEF Onward, Escape, PendingInv
<1>8. CASE Onward /\ EditInputs
  BY <1>1, <1>8 DEF Onward, EditInputs, PendingInv, TypeOK, Views
<1>4. CASE Onward /\ OpenMethod
  BY <1>1, <1>4 DEF Onward, OpenMethod, ClickPage, PendingInv
<1>5. CASE Confirm \/ Dismiss
  BY <1>5, ConfirmEffect DEF Dismiss, PendingInv
<1>6. ASSUME NEW n \in Messages, NEW kind \in KindsOf[n], Submit(n, kind)
      PROVE  PendingInv'
  <2>1. CASE Waits(n)
    BY <2>1 DEF Waits, View, PendingInv
  <2>2. CASE Posts(n) /\ UNCHANGED <<methodDlg, pendingApproval>>
    <3>1. message[n].st = "unborn" /\ left' = left /\ n # 0
      BY <1>6, <2>2, PageAssumption DEF Submit, Messages
    <3>2. QED
      BY <1>1, <2>2, <3>1 DEF Posts, PendingInv
  <2>3. QED
    BY <1>6, <2>1, <2>2, SubmitEffect
<1>7. QED
  BY <1>2, <1>3, <1>4, <1>5, <1>6, <1>8, OnwardStep

LEMMA ApprovedStep ==
  ASSUME TypeOK, PendingInv, DialogInv, MethodInv, ApprovedAsSeen, [Next]_vars
  PROVE  ApprovedAsSeen'
<1>1. CASE Onward /\ left \subseteq left'
  BY <1>1 DEF Onward, ApprovedAsSeen, Sent
<1>2. CASE Onward /\ (Escape \/ OpenMethod \/ EditInputs)
  BY <1>1, <1>2 DEF Escape, OpenMethod, EditInputs
<1>3. CASE Confirm
  <2>1. CASE pendingApproval = 0
    BY <1>3, <2>1, ConfirmEffect DEF ApprovedAsSeen, Sent
  <2>2. CASE pendingApproval # 0
    <3>1. PICK p \in Messages :
             /\ p = pendingApproval /\ Posts(p) /\ methodDlg.open
             /\ message'[p].kind = "research" /\ message'[p].seen = methodDlg.view
      BY <1>3, <2>2, ConfirmEffect
    <3>2. methodDlg.view.of = p \/ p \in left
      BY <2>2, <3>1 DEF PendingInv
    <3>3. /\ message'[p].structure = attachedStructure /\ message'[p].to = sessionId
          /\ left' = left
      BY <3>1 DEF Posts, Carried
    <3>4. methodDlg.view.quiet => /\ methodDlg.view.structure = attachedStructure
                                  /\ methodDlg.view.session = sessionId
      BY <3>1 DEF DialogInv
    <3>5. \A m \in Sent' : m = p \/ (m \in Sent /\ message'[m] = message[m])
      BY <3>1 DEF Posts, Sent
    <3>6. /\ message'[p].config.accuracy = methodDlg.view.method.accuracy
          /\ methodDlg.view.edited \/ message'[p].config = methodDlg.view.method
      <4>1. message'[p].config = CurrentRunConfig
        BY <3>1 DEF Posts, RunConfig
      <4>2. QED
        BY <3>1, <4>1, MethodType DEF MethodInv
    <3>7. QED
      BY <3>1, <3>2, <3>3, <3>4, <3>5, <3>6 DEF ApprovedAsSeen
  <2>3. QED
    BY <2>1, <2>2
<1>4. CASE Dismiss
  <2>1. left' = left
    BY <1>4 DEF Dismiss
  <2>2. QED
    BY <1>4, <2>1, DismissEffect DEF Steady, ApprovedAsSeen, Sent
<1>5. ASSUME NEW n \in Messages, NEW kind \in KindsOf[n], Submit(n, kind)
      PROVE  ApprovedAsSeen'
  <2>1. left' = left
    BY <1>5 DEF Submit
  <2>2. CASE Waits(n)
    BY <2>1, <2>2 DEF Waits, ApprovedAsSeen, Sent
  <2>3. CASE Posts(n) /\ message'[n].kind # "research"
    <3>1. \A m \in Sent' : m = n \/ (m \in Sent /\ message'[m] = message[m])
      BY <2>3 DEF Posts, Sent
    <3>2. QED
      BY <2>1, <2>3, <3>1 DEF ApprovedAsSeen
  <2>4. QED
    BY <1>5, <2>2, <2>3, SubmitEffect
<1>6. QED
  BY <1>1, <1>2, <1>3, <1>4, <1>5, OnwardStep

LEMMA DialogStep ==
  ASSUME TypeOK, DialogInv, [Next]_vars
  PROVE  DialogInv'
<1>1. CASE ~methodDlg'.open
  BY <1>1 DEF DialogInv
<1>2. CASE UNCHANGED <<methodDlg, sessionId, attachedStructure, asks, message, running>>
  BY <1>2 DEF DialogInv, Quiet, AtRest, Underway, Working
<1>3. ASSUME NEW n \in Messages, NEW kind \in KindsOf[n], Submit(n, kind) PROVE DialogInv'
  <2>1. CASE Waits(n)
    <3>1. methodDlg'.view.quiet = Quiet
      BY <2>1 DEF Waits, View
    <3>2. /\ methodDlg'.view.structure = attachedStructure
          /\ methodDlg'.view.session = sessionId
      BY <2>1 DEF Waits, View
    <3>3. Underway' = Underway
      BY <2>1 DEF Waits, Underway
    <3>4. \A m \in Messages : Working(m)' <=> Working(m)
      BY <2>1 DEF Waits, Working
    <3>5. Quiet' <=> Quiet
      BY <2>1, <3>3, <3>4 DEF Waits, Quiet, AtRest
    <3>6. QED
      BY <2>1, <3>1, <3>2, <3>5 DEF Waits, DialogInv
  <2>2. QED
    BY <1>1, <1>3, <2>1, SubmitEffect DEF Submit
<1>4. CASE OpenMethod
  <2>1. methodDlg'.view = View(0)
    BY <1>4 DEF OpenMethod
  <2>2. Quiet' <=> Quiet
    BY <1>4 DEF OpenMethod, server, Quiet, AtRest, Underway, Working
  <2>3. UNCHANGED <<sessionId, attachedStructure>>
    BY <1>4 DEF OpenMethod, page, lists
  <2>4. QED
    BY <2>1, <2>2, <2>3 DEF View, DialogInv
<1>5. CASE Confirm \/ Dismiss \/ Escape
  BY <1>1, <1>5 DEF Confirm, Dismiss, Escape, Closed
<1>6. CASE ListStep \/ UNCHANGED vars
  BY <1>2, <1>6, ListEffect DEF vars, page, dialog, server
<1>9. CASE EditInputs
  <2>1. /\ methodDlg'.open = methodDlg.open
        /\ methodDlg'.view.quiet = methodDlg.view.quiet
        /\ methodDlg'.view.structure = methodDlg.view.structure
        /\ methodDlg'.view.session = methodDlg.view.session
    BY <1>9 DEF EditInputs, TypeOK, Views
  <2>2. UNCHANGED <<sessionId, attachedStructure, asks, message, running>>
    BY <1>9 DEF EditInputs, page, server
  <2>3. Quiet' <=> Quiet
    BY <2>2 DEF Quiet, AtRest, Underway, Working
  <2>4. QED
    BY <2>1, <2>2, <2>3 DEF DialogInv
<1>7. ASSUME methodDlg' = methodDlg, methodDlg'.open, methodDlg'.view.quiet,
             ~ListStep, ~UNCHANGED vars
      PROVE  \/ Confirm \/ Dismiss \/ Escape \/ OpenMethod \/ EditInputs
             \/ \E n \in Messages : \E kind \in KindsOf[n] : Submit(n, kind)
  <2>1. methodDlg.open /\ Quiet
    BY <1>7 DEF DialogInv
  <2>2. ~Answered
    BY <1>7, <2>1 DEF Answered, Quiet, ListStep
  <2>3. ~Streaming
    BY <2>1
       DEF Streaming, Quiet, AtRest, Underway, StreamOpens, TurnEnds, Refused, StreamStarts,
           FigureArrives, StreamEnds, StreamBreaks
  <2>4. ByUser
    BY <1>7, <2>2, <2>3 DEF Next
  <2>5. QED
    BY <2>1, <2>4
       DEF ByUser, NewSession, OpenFiles, UploadStructure, RunAction, StopPressed,
           ChooseAccuracy, ClickSession, DeleteSession, ClickPage
<1>8. QED
  <2>1. CASE methodDlg' = methodDlg
    BY <1>1, <1>3, <1>4, <1>5, <1>6, <1>7, <1>9, <2>1 DEF DialogInv
  <2>2. CASE methodDlg' # methodDlg
    BY <1>3, <1>4, <1>5, <1>9, <2>2, OnwardStep
  <2>3. QED
    BY <2>1, <2>2

\* The rows of an open dialog are those of the method, but for edited inputs.
LEMMA MethodStep ==
  ASSUME TypeOK, MethodInv, [Next]_vars
  PROVE  MethodInv'
<1>1. CASE ~methodDlg'.open
  BY <1>1 DEF MethodInv
<1>2. CASE UNCHANGED <<methodDlg, method>>
  BY <1>2 DEF MethodInv, CurrentRunConfig
<1>3. CASE methodDlg' = methodDlg /\ ~methodDlg.open
  BY <1>1, <1>3
<1>4. CASE EditInputs
  <2>1. /\ methodDlg.open /\ methodDlg'.view.edited = TRUE
        /\ methodDlg'.view.method = methodDlg.view.method
        /\ method'.accuracy = method.accuracy
    BY <1>4 DEF EditInputs, TypeOK, Views, Methods
  <2>2. QED
    BY <2>1 DEF MethodInv
<1>5. CASE OpenMethod
  BY <1>5, MethodType DEF OpenMethod, View, MethodInv, CurrentRunConfig
<1>6. CASE Escape \/ Dismiss \/ Confirm
  BY <1>1, <1>6 DEF Escape, Dismiss, Confirm, Closed
<1>7. ASSUME NEW n \in Messages, NEW kind \in KindsOf[n], Submit(n, kind) PROVE MethodInv'
  <2>1. CASE Waits(n)
    BY <2>1, MethodType DEF Waits, View, MethodInv, CurrentRunConfig
  <2>2. QED
    BY <1>2, <1>7, <2>1, SubmitEffect DEF Posts
<1>8. QED
  BY <1>2, <1>3, <1>4, <1>5, <1>6, <1>7, OnwardStep

-----------------------------------------------------------------------------

\* The buttons, and what is under way.

LEMMA PostsUnderway ==
  ASSUME NEW n \in Messages, Posts(n)
  PROVE  Underway' = Underway \cup {n} /\ n \notin Underway
BY DEF Posts, Underway

LEMMA OverUnderway ==
  ASSUME TypeOK, NEW n \in Messages, NEW st \in {"done", "refused", "broken"}, Over(n, st)
  PROVE  Underway' = Underway \ {n}
<1>1. st \in States
  BY DEF States
<1>2. QED
  BY <1>1, OverEffect DEF Underway

LEMMA StreamUnderway ==
  ASSUME TypeOK, NEW n \in Messages, StreamOpens(n) \/ StreamStarts(n) \/ FigureArrives(n)
  PROVE  Underway' = Underway /\ n \in Underway
<1>1. CASE StreamOpens(n)
  <2>1. Steady(n) /\ message'[n].st = "open" /\ message[n].st = "posted"
    BY <1>1, StreamOpensEffect DEF StreamOpens
  <2>2. QED
    BY <2>1 DEF Steady, Underway
<1>2. CASE StreamStarts(n)
  BY <1>2, StreamStartsEffect DEF Steady, Underway, StreamStarts
<1>3. CASE FigureArrives(n)
  BY <1>3, FigureArrivesEffect DEF Steady, Underway, FigureArrives
<1>4. QED
  BY <1>1, <1>2, <1>3

LEMMA CancelUnderway ==
  ASSUME TypeOK, NEW a \in asks, CancelArrives(a)
  PROVE  Underway' = Underway
BY CancelEffect DEF Underway

LEMMA DismissUnderway ==
  ASSUME TypeOK, PendingInv, Dismiss
  PROVE  Underway' = Underway
BY DismissEffect DEF Steady, Underway, PendingInv

LEMMA WaitsUnderway ==
  ASSUME NEW n \in Messages, Waits(n)
  PROVE  Underway' = Underway
BY DEF Waits, Underway

LEMMA SameUnderway ==
  ASSUME message' = message
  PROVE  Underway' = Underway
BY DEF Underway

LEMMA ControlsStep ==
  ASSUME TypeOK, PendingInv, ControlsInv, [Next]_vars
  PROVE  ControlsInv'
<1>1. CASE /\ UNCHANGED <<busy, stops, stopShown>> /\ Underway' = Underway
           /\ ~disturbed' => ~disturbed \/ Underway = {}
  BY <1>1 DEF ControlsInv, ControlsMatch
<1>2. ASSUME NEW n \in Messages, Posts(n) PROVE ControlsInv'
  BY <1>2, PostsUnderway DEF Posts, ControlsInv, ControlsMatch
<1>3. ASSUME NEW n \in Messages, NEW kind \in KindsOf[n], Submit(n, kind) PROVE ControlsInv'
  BY <1>1, <1>2, <1>3, SubmitEffect, WaitsUnderway DEF Waits
<1>4. CASE Confirm
  BY <1>1, <1>2, <1>4, ConfirmEffect, SameUnderway
<1>5. CASE Dismiss
  BY <1>1, <1>5, DismissUnderway DEF Dismiss, controls
<1>6. ASSUME NEW n \in Messages, StreamOpens(n) \/ StreamStarts(n) \/ FigureArrives(n)
      PROVE  ControlsInv'
  BY <1>1, <1>6, StreamUnderway DEF StreamOpens, StreamStarts, FigureArrives, controls
<1>7. ASSUME NEW n \in Messages, Refused(n) \/ StreamEnds(n) \/ StreamBreaks(n)
      PROVE  ControlsInv'
  <2>1. PICK st \in {"done", "refused", "broken"} : Over(n, st)
    BY <1>7 DEF Refused, StreamEnds, StreamBreaks
  <2>2. Underway' = Underway \ {n} /\ n \in Underway /\ Finish(n)
    BY <1>7, <2>1, OverUnderway DEF Over, Refused, StreamEnds, StreamBreaks, Underway
  <2>3. ~disturbed' => ~disturbed
    BY <1>7 DEF Refused, StreamEnds, StreamBreaks
  <2>4. QED
    BY <2>2, <2>3 DEF Finish, ControlsInv, ControlsMatch
<1>8. ASSUME NEW a \in asks, CancelArrives(a) PROVE ControlsInv'
  BY <1>1, <1>8, CancelUnderway DEF CancelArrives, controls
<1>9. CASE \/ NewSession \/ OpenFiles \/ UploadStructure \/ RunAction \/ StopPressed
           \/ ChooseAccuracy \/ EditInputs \/ OpenMethod \/ Escape
            \/ \E s \in Sessions : ClickSession(s) \/ DeleteSession(s)
  BY <1>1, <1>9, SameUnderway
     DEF NewSession, OpenFiles, UploadStructure, RunAction, StopPressed, ChooseAccuracy,
         EditInputs, OpenMethod, Escape, ClickSession, DeleteSession, Quiet, AtRest, controls
<1>10. ASSUME NEW a \in asks,
              \/ SessionLoaded(a) \/ SessionDeleted(a) \/ StructureUploaded(a)
              \/ UploadRefused(a) \/ ActionAnswered(a) \/ AskFails(a)
       PROVE  ControlsInv'
  BY <1>1, <1>10, SameUnderway
     DEF SessionLoaded, SessionDeleted, StructureUploaded, UploadRefused, ActionAnswered,
         AskFails, AtRest, controls
<1>11. ASSUME NEW n \in Messages, TurnEnds(n) PROVE ControlsInv'
  BY <1>1, <1>11, SameUnderway DEF TurnEnds, controls
<1>12. CASE ListStep \/ UNCHANGED vars
  BY <1>1, <1>12, SameUnderway, ListEffect DEF vars, controls
<1>13. QED
  BY <1>3, <1>4, <1>5, <1>6, <1>7, <1>8, <1>9, <1>10, <1>11, <1>12
     DEF Next, ByUser, Answered, Streaming, ListStep

LEMMA StopStep ==
  ASSUME TypeOK, MessageInv, PendingInv, ControlsInv, Orderly, StopInv, [Next]_vars
  PROVE  StopInv'
<1> DEFINE Named(a, n) == \/ message[n].to = a.of
                          \/ message[n].to = NoSession /\ message[n].turn = a.of
<1>1. ASSUME NEW a \in asks, a.kind = "cancel", a.calm, NEW n \in a.by
      PROVE  Named(a, n)'
  <2>1. n \in Messages /\ a.of \in Sessions /\ a.of # NoSession
    BY PageAssumption DEF TypeOK, Requests
  <2>2. Named(a, n)
    BY <1>1 DEF StopInv
  <2>3. message[n].st \notin {"unborn", "waiting", "dropped"}
    BY <2>1, <2>2 DEF MessageInv
  <2>4. message[n].turn # NoSession => message'[n].turn = message[n].turn
    BY <2>1, TurnsStay
  <2>5. message'[n].to = message[n].to
    <3>1. CASE Onward
      BY <2>1, <3>1 DEF Onward
    <3>2. CASE Confirm
      BY <2>1, <2>3, <3>2, ConfirmEffect DEF Posts
    <3>3. CASE Dismiss
      BY <2>1, <3>3, DismissEffect DEF Steady
    <3>4. ASSUME NEW m \in Messages, NEW kind \in KindsOf[m], Submit(m, kind)
          PROVE  message'[n].to = message[n].to
      BY <2>1, <2>3, <3>4, SubmitEffect DEF Posts, Waits
    <3>5. QED
      BY <3>1, <3>2, <3>3, <3>4, OnwardStep
  <2>6. QED
    BY <2>1, <2>2, <2>4, <2>5
<1>2. CASE asks' \subseteq asks
  BY <1>1, <1>2 DEF StopInv
<1>3. CASE \E s \in Sessions : \E kind \in {"load", "delete", "upload", "action"} :
              asks' \subseteq asks \cup {Ask(kind, s)}
  BY <1>1, <1>3 DEF StopInv, Ask
<1>4. CASE StopPressed
  <2>1. PICK b \in asks' : /\ asks' = asks \cup {b} /\ b.of = sessionId /\ b.by = stops
                           /\ b.calm = ~disturbed
    <3> DEFINE b == [kind |-> "cancel", of |-> sessionId, by |-> stops, calm |-> ~disturbed]
    <3>1. asks' = asks \cup {b}
      BY <1>4 DEF StopPressed
    <3>2. b.of = sessionId /\ b.by = stops /\ b.calm = ~disturbed
      OBVIOUS
    <3> HIDE DEF b
    <3>3. QED
      BY <3>1, <3>2
  <2>2. message' = message /\ sessionId # NoSession
    BY <1>4 DEF StopPressed
  <2>3. ASSUME ~disturbed, NEW n \in stops PROVE Named(b, n)
    <3>1. n \in Underway /\ MessagesAreOfThePage
      BY <2>3 DEF ControlsInv, Orderly
    <3>2. QED
      BY <2>1, <2>2, <3>1 DEF MessagesAreOfThePage, MessageInv, Underway
  <2>4. QED
    BY <1>1, <2>1, <2>2, <2>3 DEF StopInv
<1>5. ASSUME NEW n \in Messages, NEW kind \in KindsOf[n], Submit(n, kind) PROVE asks' = asks
  BY <1>5 DEF Submit
<1>6. ASSUME NEW a \in asks,
             \/ SessionLoaded(a) \/ SessionDeleted(a) \/ StructureUploaded(a)
             \/ UploadRefused(a) \/ ActionAnswered(a) \/ AskFails(a) \/ CancelArrives(a)
      PROVE  asks' \subseteq asks
  BY <1>6 DEF SessionLoaded, SessionDeleted, StructureUploaded, UploadRefused, ActionAnswered,
              AskFails, CancelArrives
<1>7. ASSUME NEW n \in Messages,
             \/ StreamOpens(n) \/ TurnEnds(n) \/ Refused(n) \/ StreamStarts(n)
             \/ FigureArrives(n) \/ StreamEnds(n) \/ StreamBreaks(n)
      PROVE  asks' = asks
  BY <1>7 DEF StreamOpens, TurnEnds, Refused, StreamStarts, FigureArrives, StreamEnds,
              StreamBreaks, Over
<1>8. CASE \/ NewSession \/ OpenFiles \/ ChooseAccuracy \/ EditInputs \/ OpenMethod
           \/ Confirm \/ Dismiss \/ Escape \/ ListStep \/ UNCHANGED vars
  BY <1>2, <1>8, ListEffect
     DEF NewSession, OpenFiles, ChooseAccuracy, EditInputs, OpenMethod, Confirm, Dismiss, Escape,
         vars
<1>9. CASE UploadStructure
  BY <1>3, <1>9 DEF UploadStructure
<1>10. CASE RunAction
  <2>1. sessionId \in Sessions
    BY <1>10 DEF RunAction, TypeOK, Anywhere
  <2>2. QED
    BY <1>3, <1>10, <2>1 DEF RunAction
<1>11. ASSUME NEW s \in Sessions, ClickSession(s) \/ DeleteSession(s) PROVE StopInv'
  BY <1>3, <1>11 DEF ClickSession, DeleteSession
<1>12. QED
  BY <1>2, <1>4, <1>5, <1>6, <1>7, <1>8, <1>9, <1>10, <1>11
     DEF Next, ByUser, Answered, Streaming, ListStep

-----------------------------------------------------------------------------

\* An orderly page stays orderly.

\* A list that is asked for in the page's own session.
LEMMA RefreshFiles ==
  ASSUME NEW s, s = sessionId', Refresh(s), ~misfiled => listings \subseteq {s}
  PROVE  FilesAreOfThePage'
<1>1. misfiled' = misfiled
  BY DEF Refresh
<1>2. CASE s = NoSession
  BY <1>1, <1>2 DEF Refresh, FilesAreOfThePage
<1>3. CASE s # NoSession
  BY <1>1, <1>3 DEF Refresh, FilesAreOfThePage
<1>4. QED
  BY <1>2, <1>3

\* On a page at rest everything may be emptied.
LEMMA AnewOrderly ==
  ASSUME StartAnew, AtRest, UNCHANGED <<message, running>>, asks' = {}
  PROVE  Orderly'
<1>1. Underway' = {} /\ \A n \in Messages : ~Working(n)'
  BY DEF AtRest, Underway, Working
<1>2. Loads' = {}
  BY DEF Loads
<1>3. \A n \in Messages : message'[n].st # "posted"
  BY <1>1 DEF Underway
<1>4. FilesAreOfThePage'
  <2>1. files' = sessionId' /\ (~misfiled' => listings' = {})
    BY Zenon DEF StartAnew
  <2>2. QED
    BY <2>1 DEF FilesAreOfThePage
<1>5. AsksAreOfThePage' /\ MessagesAreOfThePage' /\ TranscriptIsOfThePage'
  BY <1>1, <1>2 DEF StartAnew, AsksAreOfThePage, MessagesAreOfThePage, TranscriptIsOfThePage
<1>6. FigureIsOfThePage' /\ AttachmentIsOfThePage'
  BY <1>1, <1>3 DEF StartAnew, Cleared, Nothing, FigureIsOfThePage, AttachmentIsOfThePage
<1>7. QED
  BY <1>4, <1>5, <1>6 DEF Orderly

LEMMA ClickOrderly ==
  ASSUME TypeOK, NEW s \in Sessions, ClickSession(s)
  PROVE  Orderly'
<1> SUFFICES ASSUME ~disturbed' PROVE Orderly'
  BY DEF Orderly
<1>1. asks = {} /\ AtRest
  BY DEF ClickSession, Quiet
<1>2. message' = message /\ running' = running
  BY DEF ClickSession, server
<1>3. Underway' = {} /\ \A n \in Messages : ~Working(n)'
  BY <1>1, <1>2 DEF AtRest, Underway, Working
<1>4. \A n \in Messages : message'[n].st # "posted"
  BY <1>3 DEF Underway
<1>5. asks' = {Ask("load", s)} /\ sessionId' = s
  BY <1>1 DEF ClickSession
<1>6. Loads' # {}
  <2>1. Ask("load", s).kind = "load" /\ Ask("load", s) \in asks'
    BY <1>5 DEF Ask
  <2>2. Ask("load", s) \in Loads'
    BY <2>1 DEF Loads
  <2>3. QED
    BY <2>2
<1>7. \A a \in asks' : a.of = s
  BY <1>5 DEF Ask
<1>8. FilesAreOfThePage'
  <2>1. ~misfiled' => listings' \subseteq {s}
    BY DEF ClickSession
  <2>2. QED
    BY <1>5, <1>6, <2>1 DEF FilesAreOfThePage
<1>9. QED
  BY <1>3, <1>4, <1>5, <1>6, <1>7, <1>8
     DEF Orderly, AsksAreOfThePage, MessagesAreOfThePage, TranscriptIsOfThePage,
         FigureIsOfThePage, AttachmentIsOfThePage

\* What is of the page does not depend on what was asked for, but for the loads.
LEMMA AsksOrderly ==
  ASSUME Orderly, Loads' = Loads, ~disturbed' => ~disturbed,
         \A a \in asks' : a \in asks \/ a.kind = "delete" \/ a.of = sessionId,
         UNCHANGED <<sessionId, transcript, figure, attachedStructure, message, running, latest,
                     listed, uploads>>,
         UNCHANGED lists \/ Refresh(sessionId) \/ ListStep
  PROVE  Orderly'
<1> SUFFICES ASSUME ~disturbed' PROVE Orderly'
  BY DEF Orderly
<1>1. /\ AsksAreOfThePage /\ MessagesAreOfThePage /\ TranscriptIsOfThePage
      /\ FilesAreOfThePage /\ FigureIsOfThePage /\ AttachmentIsOfThePage
  BY DEF Orderly
<1>2. Underway' = Underway /\ \A n \in Messages : Working(n)' <=> Working(n)
  BY DEF Underway, Working
<1>3. AsksAreOfThePage'
  BY <1>1, <1>2 DEF AsksAreOfThePage
<1>4. MessagesAreOfThePage' /\ TranscriptIsOfThePage'
  BY <1>1, <1>2 DEF MessagesAreOfThePage, TranscriptIsOfThePage
<1>5. FilesAreOfThePage'
  <2>1. CASE UNCHANGED lists
    BY <1>1, <1>2, <2>1 DEF FilesAreOfThePage, lists
  <2>2. CASE Refresh(sessionId)
    BY <1>1, <2>2, RefreshFiles DEF FilesAreOfThePage
  <2>3. ASSUME NEW s \in listings, Listed(s) PROVE FilesAreOfThePage'
    BY <1>1, <2>3 DEF FilesAreOfThePage, Listed, Taken
  <2>4. ASSUME NEW s \in listings, ListFails(s) PROVE FilesAreOfThePage'
    BY <2>4 DEF FilesAreOfThePage, ListFails
  <2>5. QED
    BY <2>1, <2>2, <2>3, <2>4 DEF ListStep
<1>6. FigureIsOfThePage' /\ AttachmentIsOfThePage'
  BY <1>1, <1>2 DEF FigureIsOfThePage, AttachmentIsOfThePage
<1>7. QED
  BY <1>3, <1>4, <1>5, <1>6 DEF Orderly

LEMMA LoadedOrderly ==
  ASSUME TypeOK, Orderly, NEW a \in asks, SessionLoaded(a)
  PROVE  Orderly'
<1> SUFFICES ASSUME ~disturbed' PROVE Orderly'
  BY DEF Orderly
<1>1. /\ AsksAreOfThePage /\ MessagesAreOfThePage /\ TranscriptIsOfThePage
      /\ FilesAreOfThePage /\ FigureIsOfThePage /\ AttachmentIsOfThePage
  BY DEF Orderly, SessionLoaded
<1>2. a.of = sessionId /\ sessionId \in Sessions /\ Underway = {}
  BY <1>1 DEF AsksAreOfThePage, SessionLoaded, Loads, TypeOK, Requests
<1>3. UNCHANGED <<sessionId, message, running, listed, uploads, latest>>
  BY DEF SessionLoaded, server
<1>4. Underway' = {} /\ \A n \in Messages : Working(n)' <=> Working(n)
  BY <1>2, <1>3 DEF Underway, Working
<1>5. AsksAreOfThePage' /\ MessagesAreOfThePage'
  BY <1>1, <1>3, <1>4 DEF AsksAreOfThePage, MessagesAreOfThePage, SessionLoaded
<1>6. TranscriptIsOfThePage'
  BY <1>2, <1>3 DEF TranscriptIsOfThePage, SessionLoaded
<1>7. FilesAreOfThePage'
  <2>1. Refresh(sessionId)
    BY <1>2 DEF SessionLoaded
  <2>2. QED
    BY <1>1, <1>3, <2>1, RefreshFiles DEF FilesAreOfThePage
<1>8. FigureIsOfThePage'
  BY <1>2, <1>3, <1>4 DEF FigureIsOfThePage, SessionLoaded, RestoreFigures
<1>9. AttachmentIsOfThePage'
  BY <1>1, <1>2, <1>3 DEF AttachmentIsOfThePage, SessionLoaded, RestoreAttachment
<1>10. QED
  BY <1>5, <1>6, <1>7, <1>8, <1>9 DEF Orderly

LEMMA DeletedOrderly ==
  ASSUME TypeOK, Orderly, NEW a \in asks, SessionDeleted(a)
  PROVE  Orderly'
<1> SUFFICES ASSUME ~disturbed' PROVE Orderly'
  BY DEF Orderly
<1>1. asks' = asks \ {a} /\ a.kind = "delete" /\ message' = message
  BY DEF SessionDeleted
<1>2. Loads' = Loads
  BY <1>1 DEF Loads
<1>3. CASE running[a.of] # 0
  BY <1>1, <1>2, <1>3, AsksOrderly DEF SessionDeleted, page, lists, server
<1>4. CASE running[a.of] = 0 /\ sessionId = a.of
  BY <1>1, <1>4, AnewOrderly DEF SessionDeleted
<1>5. CASE running[a.of] = 0 /\ sessionId # a.of
  <2>1. /\ UNCHANGED <<sessionId, transcript, figure, attachedStructure, files, listings,
                     misfiled, running>>
        /\ uploads' = uploads \ {a.of} /\ latest' = latest \ {a.of} /\ listed' = listed \ {a.of}
        /\ ~disturbed /\ \A n \in Underway : message[n].to # a.of
    BY <1>5 DEF SessionDeleted, page, lists
  <2>2. /\ AsksAreOfThePage /\ MessagesAreOfThePage /\ TranscriptIsOfThePage
        /\ FilesAreOfThePage /\ FigureIsOfThePage /\ AttachmentIsOfThePage
    BY <2>1 DEF Orderly
  <2>3. Underway' = Underway /\ \A n \in Messages : Working(n)' <=> Working(n)
    BY <1>1, <2>1 DEF Underway, Working
  <2>4. AsksAreOfThePage'
    BY <1>1, <1>2, <2>1, <2>2, <2>3 DEF AsksAreOfThePage
  <2>5. MessagesAreOfThePage' /\ TranscriptIsOfThePage'
    BY <1>1, <1>2, <2>1, <2>2, <2>3 DEF MessagesAreOfThePage, TranscriptIsOfThePage
  <2>6. FilesAreOfThePage' /\ FigureIsOfThePage'
    BY <1>1, <1>2, <2>1, <2>2, <2>3 DEF FilesAreOfThePage, FigureIsOfThePage
  <2>7. AttachmentIsOfThePage'
    BY <1>1, <1>2, <2>1, <2>2, <2>3 DEF AttachmentIsOfThePage, Underway
  <2>8. QED
    BY <2>4, <2>5, <2>6, <2>7 DEF Orderly
<1>6. QED
  BY <1>3, <1>4, <1>5

LEMMA UploadOrderly ==
  ASSUME TypeOK, ServerInv, Orderly, UploadStructure
  PROVE  Orderly'
<1> SUFFICES ASSUME ~disturbed' PROVE Orderly'
  BY DEF Orderly
<1>1. /\ ~disturbed /\ message' = message /\ running' = running
      /\ UNCHANGED <<transcript, figure, attachedStructure, lists, uploads, latest, listed>>
  BY DEF UploadStructure
<1>2. PICK s \in Sessions : /\ sessionId' = s /\ asks' = asks \cup {Ask("upload", s)}
                            /\ IF sessionId = NoSession THEN s \notin used ELSE s = sessionId
  BY DEF UploadStructure
<1>3. Loads' = Loads
  BY <1>2 DEF Loads, Ask
<1>4. CASE sessionId # NoSession
  <2>1. sessionId' = sessionId
    BY <1>2, <1>4
  <2>2. QED
    BY <1>1, <1>2, <1>3, <1>4, <2>1, AsksOrderly DEF Ask
<1>5. CASE sessionId = NoSession
  <2>1. asks = {} /\ AtRest /\ s \notin listed \cup uploads
    BY <1>1, <1>2, <1>5 DEF UploadStructure, Quiet, ServerInv
  <2>2. Underway' = {} /\ Underway = {} /\ \A n \in Messages : ~Working(n)'
    BY <1>1, <2>1 DEF AtRest, Underway, Working
  <2>3. Loads = {} /\ \A n \in Messages : message[n].st \notin {"posted", "open"}
    BY <2>1, <2>2 DEF Loads, Underway
  <2>4. /\ TranscriptIsOfThePage /\ FilesAreOfThePage /\ FigureIsOfThePage
        /\ AttachmentIsOfThePage
    BY <1>1 DEF Orderly
  <2>5. /\ transcript.of = NoSession /\ figure.of = NoSession
        /\ attachedStructure = NoSession
        /\ \A n \in transcript.cards : message[n].turn = NoSession
    BY <1>5, <2>2, <2>3, <2>4, PageAssumption
       DEF TranscriptIsOfThePage, FigureIsOfThePage, AttachmentIsOfThePage, TypeOK
  <2>6. AsksAreOfThePage' /\ MessagesAreOfThePage'
    BY <1>2, <2>1, <2>2 DEF AsksAreOfThePage, MessagesAreOfThePage, Ask
  <2>7. TranscriptIsOfThePage'
    BY <1>1, <1>2, <2>5 DEF TranscriptIsOfThePage
  <2>8. FilesAreOfThePage'
    <3>1. ~misfiled => listings = {} /\ files = NoSession
      BY <1>5, <2>3, <2>4, PageAssumption DEF FilesAreOfThePage, TypeOK
    <3>2. QED
      BY <1>1, <1>2, <2>1, <3>1 DEF FilesAreOfThePage, lists
  <2>9. FigureIsOfThePage' /\ AttachmentIsOfThePage'
    BY <1>1, <2>2, <2>3, <2>5 DEF FigureIsOfThePage, AttachmentIsOfThePage
  <2>10. QED
    BY <2>6, <2>7, <2>8, <2>9 DEF Orderly
<1>6. QED
  BY <1>4, <1>5

LEMMA UploadedOrderly ==
  ASSUME TypeOK, MessageInv, Orderly, NEW a \in asks, StructureUploaded(a)
  PROVE  Orderly'
<1> SUFFICES ASSUME ~disturbed' PROVE Orderly'
  BY DEF Orderly
<1>1. /\ AsksAreOfThePage /\ MessagesAreOfThePage /\ TranscriptIsOfThePage
      /\ FilesAreOfThePage /\ FigureIsOfThePage /\ AttachmentIsOfThePage
  BY DEF Orderly, StructureUploaded
<1>2. a.of = sessionId /\ Loads' = Loads
  BY <1>1 DEF AsksAreOfThePage, StructureUploaded, Loads
<1>3. UNCHANGED <<sessionId, transcript, message, running, listed, latest>>
  BY DEF StructureUploaded
<1>4. Underway' = Underway /\ \A n \in Messages : Working(n)' <=> Working(n)
  BY <1>3 DEF Underway, Working
<1>5. AsksAreOfThePage' /\ MessagesAreOfThePage' /\ TranscriptIsOfThePage'
  BY <1>1, <1>2, <1>3, <1>4
     DEF AsksAreOfThePage, MessagesAreOfThePage, TranscriptIsOfThePage, StructureUploaded
<1>6. FilesAreOfThePage'
  <2>1. Refresh(sessionId)
    BY <1>2 DEF StructureUploaded
  <2>2. QED
    BY <1>1, <1>3, <2>1, RefreshFiles DEF FilesAreOfThePage
<1>7. figure' = [of |-> sessionId, by |-> 0] /\ attachedStructure' = sessionId
      /\ uploads \subseteq uploads'
  BY <1>2 DEF StructureUploaded
<1>8. FigureIsOfThePage'
  BY <1>1, <1>3, <1>4, <1>7 DEF FigureIsOfThePage, MessagesAreOfThePage, MessageInv, Underway
<1>9. AttachmentIsOfThePage'
  BY <1>1, <1>3, <1>7 DEF AttachmentIsOfThePage
<1>10. QED
  BY <1>5, <1>6, <1>8, <1>9 DEF Orderly

LEMMA PostsOrderly ==
  ASSUME TypeOK, MessageInv, Orderly, NEW n \in Messages, Posts(n)
  PROVE  Orderly'
<1> SUFFICES ASSUME ~disturbed' PROVE Orderly'
  BY DEF Orderly
<1>1. ~disturbed /\ Loads = {} /\ Underway = {}
  BY DEF Posts
<1>2. /\ AsksAreOfThePage /\ MessagesAreOfThePage /\ TranscriptIsOfThePage
      /\ FilesAreOfThePage /\ FigureIsOfThePage /\ AttachmentIsOfThePage
  BY <1>1 DEF Orderly
<1>3. UNCHANGED <<sessionId, attachedStructure, files, listings, misfiled, asks, running,
                  uploads, latest, listed>>
  BY DEF Posts, lists
<1>4. Underway' = {n} /\ Loads' = {}
  BY <1>1, <1>3, PostsUnderway DEF Loads
<1>5. message[n].turn = NoSession /\ ~message[n].drew
  BY DEF Posts, MessageInv
<1>6. \A m \in Messages : message[m].st \notin {"posted", "open", "reading"}
  BY <1>1 DEF Underway
<1>7. AsksAreOfThePage'
  BY <1>2, <1>3, <1>4 DEF AsksAreOfThePage
<1>8. MessagesAreOfThePage'
  <2>1. \A m \in Messages : Working(m)' => Working(m)
    BY <1>3 DEF Posts, Working
  <2>2. QED
    BY <1>1, <1>2, <1>4, <2>1 DEF MessagesAreOfThePage, Posts
<1>9. TranscriptIsOfThePage'
  <2>1. transcript'.of = transcript.of /\ transcript'.cards = transcript.cards \cup {n}
    BY DEF Posts
  <2>2. message'[n].turn = NoSession
    BY <1>5 DEF Posts
  <2>3. \A m \in transcript.cards : m \in Messages /\ message[m].turn \in {NoSession, sessionId}
    BY <1>1, <1>2, <1>6 DEF TranscriptIsOfThePage, TypeOK
  <2>4. QED
    BY <1>1, <1>2, <1>3, <2>1, <2>2, <2>3 DEF TranscriptIsOfThePage, Posts
<1>10. FilesAreOfThePage'
  BY <1>1, <1>2, <1>3, <1>4 DEF FilesAreOfThePage
<1>11. FigureIsOfThePage'
  <2>1. figure'.of = NoSession /\ figure'.by = 0 /\ ~message'[n].drew
    BY <1>5 DEF Posts, Nothing
  <2>2. QED
    BY <1>4, <2>1 DEF FigureIsOfThePage
<1>12. AttachmentIsOfThePage'
  <2>1. \A m \in Messages : m # n => message'[m].st # "posted"
    BY <1>6 DEF Posts
  <2>2. /\ message'[n].to = sessionId
        /\ message'[n].owned => sessionId \in uploads
        /\ message'[n].structure \in {NoSession, attachedStructure}
    BY DEF Posts, Carried
  <2>3. \/ attachedStructure \in {NoSession, sessionId}
        \/ sessionId \in Sessions \ uploads
    BY <1>1, <1>2 DEF AttachmentIsOfThePage
  <2>4. NoSession \notin Sessions
    BY PageAssumption
  <2>5. /\ message'[n].to = NoSession => message'[n].structure = NoSession
        /\ message'[n].owned => /\ message'[n].structure \in {NoSession, message'[n].to}
                               /\ message'[n].to \in uploads'
    BY <1>3, <2>2, <2>3, <2>4
  <2>6. \/ attachedStructure' \in {NoSession, sessionId'}
        \/ sessionId' \in Sessions \ uploads'
    BY <1>3, <2>3
  <2>7. ASSUME NEW m \in Messages, message'[m].st = "posted"
        PROVE  /\ message'[m].to = NoSession => message'[m].structure = NoSession
               /\ message'[m].owned => /\ message'[m].structure \in {NoSession, message'[m].to}
                                      /\ message'[m].to \in uploads'
    <3>1. m = n
      BY <2>1, <2>7
    <3>2. QED
      BY <2>5, <3>1, Zenon
  <2>8. QED
    BY <2>6, <2>7 DEF AttachmentIsOfThePage
<1>13. QED
  BY <1>7, <1>8, <1>9, <1>10, <1>11, <1>12 DEF Orderly

\* A step that leaves what it does not know of the messages to the page.
LEMMA StillOrderly ==
  ASSUME Orderly, PendingInv, ~disturbed' => ~disturbed,
         Underway' = Underway,
         \A m \in Messages :
            /\ message'[m].turn = message[m].turn /\ message'[m].to = message[m].to
            /\ message'[m].drew = message[m].drew
            /\ message'[m].structure = message[m].structure
            /\ message'[m].owned = message[m].owned /\ message'[m].calm = message[m].calm
            /\ \/ message'[m].st = message[m].st
               \/ message'[m].st \notin {"posted", "open", "reading"}
                  /\ message[m].st # "open",
         Loads' = Loads, asks' \subseteq asks,
         transcript.cards \subseteq Messages,
         UNCHANGED <<sessionId, transcript, figure, attachedStructure, files, listings,
                     misfiled, running, latest, listed, uploads>>
  PROVE  Orderly'
<1> SUFFICES ASSUME ~disturbed' PROVE Orderly'
  BY DEF Orderly
<1>1. /\ AsksAreOfThePage /\ MessagesAreOfThePage /\ TranscriptIsOfThePage
      /\ FilesAreOfThePage /\ FigureIsOfThePage /\ AttachmentIsOfThePage
  BY DEF Orderly
<1>2. \A n \in Messages : Working(n)' <=> Working(n)
  BY DEF Working
<1>3. AsksAreOfThePage' /\ FilesAreOfThePage'
  BY <1>1 DEF AsksAreOfThePage, FilesAreOfThePage
<1>4. MessagesAreOfThePage'
  BY <1>1, <1>2 DEF MessagesAreOfThePage, Underway
<1>5. TranscriptIsOfThePage'
  BY <1>1 DEF TranscriptIsOfThePage
<1>6. FigureIsOfThePage'
  BY <1>1 DEF FigureIsOfThePage, Underway
<1>7. AttachmentIsOfThePage'
  BY <1>1 DEF AttachmentIsOfThePage
<1>8. QED
  BY <1>3, <1>4, <1>5, <1>6, <1>7 DEF Orderly

LEMMA OpensOrderly ==
  ASSUME TypeOK, MessageInv, ControlsInv, Orderly, NEW n \in Messages, StreamOpens(n)
  PROVE  Orderly'
<1> SUFFICES ASSUME ~disturbed' PROVE Orderly'
  BY DEF Orderly
<1>1. /\ AsksAreOfThePage /\ MessagesAreOfThePage /\ TranscriptIsOfThePage
      /\ FilesAreOfThePage /\ FigureIsOfThePage /\ AttachmentIsOfThePage
  BY DEF Orderly, StreamOpens
<1>2. PICK s \in Sessions :
         /\ s \in Target(n) /\ running' = [running EXCEPT ![s] = n] /\ Steady(n)
         /\ message'[n].st = "open" /\ message'[n].turn = s
         /\ message'[n].drew = message[n].drew
  BY StreamOpensEffect
<1>3. UNCHANGED <<sessionId, transcript, figure, attachedStructure, files, listings,
                  misfiled, asks, uploads, latest, listed>>
  BY DEF StreamOpens, page, lists
<1>4. message[n].st = "posted" /\ ~message[n].drew /\ message[n].turn = NoSession
  BY DEF StreamOpens, MessageInv
<1>5. Underway' = Underway /\ Underway = {n}
  BY StreamUnderway DEF ControlsInv, StreamOpens
<1>6. Loads' = Loads
  BY <1>3 DEF Loads
<1>7. AsksAreOfThePage' /\ FilesAreOfThePage'
  BY <1>1, <1>3, <1>5, <1>6 DEF AsksAreOfThePage, FilesAreOfThePage
<1>8. message[n].to = sessionId /\ message'[n].to = sessionId
  BY <1>1, <1>2, <1>4, <1>5 DEF MessagesAreOfThePage, Steady
<1>9. MessagesAreOfThePage'
  <2>1. \A m \in Messages : Working(m)' => m = n \/ Working(m)
    BY <1>2 DEF Working, Steady, TypeOK
  <2>2. QED
    BY <1>1, <1>2, <1>3, <1>5, <1>8, <2>1 DEF MessagesAreOfThePage
<1>10. TranscriptIsOfThePage'
  <2>1. sessionId = NoSession \/ s = sessionId
    BY <1>2, <1>8 DEF Target
  <2>2. \A m \in transcript.cards : m \in Messages
    BY DEF TypeOK
  <2>3. QED
    BY <1>1, <1>2, <1>3, <1>6, <2>1, <2>2 DEF TranscriptIsOfThePage, Steady
<1>11. FigureIsOfThePage'
  BY <1>1, <1>2, <1>3, <1>4, <1>5, <1>6 DEF FigureIsOfThePage, Steady
<1>12. AttachmentIsOfThePage'
  BY <1>1, <1>2, <1>3, <1>6 DEF AttachmentIsOfThePage, Steady
<1>13. QED
  BY <1>7, <1>9, <1>10, <1>11, <1>12 DEF Orderly

LEMMA TurnEndsOrderly ==
  ASSUME TypeOK, ControlsInv, Orderly, NEW n \in Messages, TurnEnds(n)
  PROVE  Orderly'
<1> SUFFICES ASSUME ~disturbed' PROVE Orderly'
  BY DEF Orderly
<1>1. /\ AsksAreOfThePage /\ MessagesAreOfThePage /\ TranscriptIsOfThePage
      /\ FilesAreOfThePage /\ FigureIsOfThePage /\ AttachmentIsOfThePage
  BY DEF Orderly, TurnEnds
<1>2. /\ UNCHANGED <<sessionId, transcript, figure, attachedStructure, files, listings,
                     misfiled, asks, message, uploads>>
      /\ running' = [running EXCEPT ![message[n].turn] = 0]
  BY DEF TurnEnds, page, lists
<1>3. n \in Underway
  BY <1>1 DEF MessagesAreOfThePage, TurnEnds
<1>4. Underway' = Underway /\ Loads' = Loads /\ Loads = {}
  BY <1>1, <1>2, <1>3 DEF Underway, Loads, AsksAreOfThePage
<1>5. AsksAreOfThePage' /\ TranscriptIsOfThePage' /\ AttachmentIsOfThePage'
  BY <1>1, <1>2, <1>4 DEF AsksAreOfThePage, TranscriptIsOfThePage, AttachmentIsOfThePage
<1>6. \A m \in Messages : Working(m)' => Working(m)
  BY <1>2, PageAssumption DEF Working, TypeOK, Messages
<1>7. MessagesAreOfThePage'
  BY <1>1, <1>2, <1>4, <1>6 DEF MessagesAreOfThePage
<1>8. FilesAreOfThePage'
  BY <1>1, <1>2, <1>3, <1>4 DEF FilesAreOfThePage
<1>9. FigureIsOfThePage'
  BY <1>1, <1>2, <1>3, <1>4 DEF FigureIsOfThePage
<1>10. QED
  BY <1>5, <1>7, <1>8, <1>9 DEF Orderly

LEMMA StartsOrderly ==
  ASSUME TypeOK, MessageInv, ControlsInv, Orderly, NEW n \in Messages, StreamStarts(n)
  PROVE  Orderly'
<1> SUFFICES ASSUME ~disturbed' PROVE Orderly'
  BY DEF Orderly
<1>1. /\ AsksAreOfThePage /\ MessagesAreOfThePage /\ TranscriptIsOfThePage
      /\ FilesAreOfThePage /\ FigureIsOfThePage /\ AttachmentIsOfThePage
  BY DEF Orderly, StreamStarts
<1>2. /\ Steady(n) /\ message'[n].st = "reading" /\ message'[n].turn = message[n].turn
      /\ message'[n].drew = message[n].drew
  BY StreamStartsEffect
<1>3. /\ UNCHANGED <<transcript, figure, attachedStructure, asks, uploads, latest, listed,
                     running>>
      /\ sessionId' = message[n].turn /\ Refresh(message[n].turn) /\ message[n].st = "open"
  BY DEF StreamStarts, server
<1>4. ~message[n].drew /\ message[n].turn # NoSession
  BY <1>3 DEF MessageInv
<1>5. Underway' = Underway /\ Underway = {n}
  BY StreamUnderway DEF ControlsInv, StreamStarts
<1>6. Loads' = Loads /\ Loads = {}
  BY <1>1, <1>3, <1>5 DEF Loads, AsksAreOfThePage
<1>7. sessionId = NoSession \/ sessionId = message[n].turn
  BY <1>1, <1>3, <1>5 DEF MessagesAreOfThePage, MessageInv
<1>8. NoSession \notin Sessions /\ \A a \in asks : a.of \in Sessions
  BY PageAssumption DEF TypeOK, Requests
<1>9. AsksAreOfThePage'
  BY <1>1, <1>3, <1>6, <1>7, <1>8 DEF AsksAreOfThePage
<1>10. MessagesAreOfThePage'
  <2>1. \A m \in Messages : Working(m)' => Working(m)
    BY <1>2, <1>3 DEF Working, Steady
  <2>2. QED
    BY <1>1, <1>2, <1>3, <1>5, <2>1 DEF MessagesAreOfThePage
<1>11. TranscriptIsOfThePage'
  <2>1. transcript.of \in {NoSession, sessionId'}
    BY <1>1, <1>3, <1>6, <1>7 DEF TranscriptIsOfThePage
  <2>2. ASSUME NEW m \in transcript.cards PROVE message'[m].turn \in {NoSession, sessionId'}
    <3>1. m \in Messages
      BY DEF TypeOK
    <3>2. CASE m = n
      BY <1>2, <1>3, <3>2
    <3>3. CASE m # n
      <4>1. message[m].st # "open"
        BY <1>5, <3>1, <3>3 DEF Underway
      <4>2. message[m].turn \in {NoSession, sessionId}
        BY <1>1, <1>6, <4>1 DEF TranscriptIsOfThePage
      <4>3. QED
        BY <1>2, <1>3, <1>7, <3>1, <3>3, <4>2 DEF Steady
    <3>4. QED
      BY <3>2, <3>3
  <2>3. QED
    BY <1>3, <2>1, <2>2 DEF TranscriptIsOfThePage
<1>12. FilesAreOfThePage'
  <2>1. ~misfiled => listings \subseteq {message[n].turn}
    BY <1>1, <1>7, <1>8 DEF FilesAreOfThePage, TypeOK
  <2>2. QED
    BY <1>3, <2>1, RefreshFiles
<1>13. FigureIsOfThePage'
  <2>1. figure.of \in {NoSession, sessionId'} /\ figure.by \in {0, n}
    BY <1>1, <1>3, <1>5, <1>7 DEF FigureIsOfThePage
  <2>2. QED
    BY <1>2, <1>3, <1>4, <1>5, <2>1 DEF FigureIsOfThePage
<1>14. AttachmentIsOfThePage'
  <2>1. \/ attachedStructure \in {NoSession, sessionId'}
        \/ sessionId' \in Sessions \ uploads
    BY <1>1, <1>3, <1>6, <1>7, <1>8 DEF AttachmentIsOfThePage
  <2>2. \A m \in Messages : message'[m].st = "posted" => message'[m] = message[m]
    BY <1>2 DEF Steady
  <2>3. QED
    BY <1>1, <1>3, <2>1, <2>2 DEF AttachmentIsOfThePage
<1>15. QED
  BY <1>9, <1>10, <1>11, <1>12, <1>13, <1>14 DEF Orderly

LEMMA FigureOrderly ==
  ASSUME TypeOK, MessageInv, ControlsInv, Orderly, NEW n \in Messages, FigureArrives(n)
  PROVE  Orderly'
<1> SUFFICES ASSUME ~disturbed' PROVE Orderly'
  BY DEF Orderly
<1>1. /\ AsksAreOfThePage /\ MessagesAreOfThePage /\ TranscriptIsOfThePage
      /\ FilesAreOfThePage /\ FigureIsOfThePage /\ AttachmentIsOfThePage
  BY DEF Orderly, FigureArrives
<1>2. /\ Steady(n) /\ message'[n].st = "reading" /\ message'[n].turn = message[n].turn
      /\ message[n].st = "reading"
  BY FigureArrivesEffect DEF FigureArrives
<1>3. /\ UNCHANGED <<sessionId, transcript, attachedStructure, files, listings, misfiled, asks,
                     uploads, latest, listed, running>>
      /\ figure' = [of |-> message[n].turn, by |-> n]
  BY DEF FigureArrives, lists
<1>4. Underway' = Underway /\ Underway = {n}
  BY StreamUnderway DEF ControlsInv, FigureArrives
<1>5. Loads' = Loads
  BY <1>3 DEF Loads
<1>6. message[n].turn = sessionId
  BY <1>1, <1>2, <1>4 DEF MessagesAreOfThePage
<1>7. AsksAreOfThePage' /\ FilesAreOfThePage'
  BY <1>1, <1>3, <1>4, <1>5 DEF AsksAreOfThePage, FilesAreOfThePage
<1>8. MessagesAreOfThePage'
  <2>1. \A m \in Messages : Working(m)' => Working(m)
    BY <1>2, <1>3 DEF Working, Steady
  <2>2. QED
    BY <1>1, <1>2, <1>3, <1>4, <2>1 DEF MessagesAreOfThePage
<1>9. TranscriptIsOfThePage'
  <2>1. \A m \in transcript.cards : /\ m \in Messages
                                    /\ message'[m].turn = message[m].turn
                                    /\ message'[m].st = message[m].st
    BY <1>2 DEF Steady, TypeOK
  <2>2. QED
    BY <1>1, <1>3, <1>5, <2>1 DEF TranscriptIsOfThePage
<1>10. FigureIsOfThePage'
  BY <1>2, <1>3, <1>4, <1>6 DEF FigureIsOfThePage
<1>11. AttachmentIsOfThePage'
  BY <1>1, <1>2, <1>3, <1>5 DEF AttachmentIsOfThePage, Steady
<1>12. QED
  BY <1>7, <1>8, <1>9, <1>10, <1>11 DEF Orderly

\* The end of the only stream there is.
LEMMA OverOrderly ==
  ASSUME TypeOK, ControlsInv, Orderly, ~disturbed,
         NEW n \in Underway, NEW st \in {"done", "refused"}, Over(n, st),
         message[n].st # "open", ~Working(n)
  PROVE  Orderly'
<1>1. /\ AsksAreOfThePage /\ MessagesAreOfThePage /\ TranscriptIsOfThePage
      /\ FilesAreOfThePage /\ FigureIsOfThePage /\ AttachmentIsOfThePage
  BY DEF Orderly
<1>2. n \in Messages /\ st \in States /\ Underway = {n} /\ Underway' = {}
  <2>1. n \in Messages /\ st \in States
    BY DEF Underway, States
  <2>2. QED
    BY <2>1, OverUnderway DEF ControlsInv
<1>3. /\ \A m \in Messages : m # n => message'[m] = message[m]
      /\ message'[n].st = st /\ message'[n].turn = message[n].turn
  BY <1>2, OverEffect
<1>4. /\ UNCHANGED <<sessionId, transcript, figure, attachedStructure, asks, uploads, latest,
                     listed, running>>
      /\ Refresh(sessionId)
  BY <1>2, OverType DEF Over
<1>5. Loads' = Loads /\ Loads = {}
  BY <1>1, <1>2, <1>4 DEF Loads, AsksAreOfThePage
<1>6. AsksAreOfThePage' /\ FilesAreOfThePage'
  <2>1. AsksAreOfThePage'
    BY <1>1, <1>4, <1>5 DEF AsksAreOfThePage
  <2>2. QED
    BY <1>1, <1>4, <2>1, RefreshFiles DEF FilesAreOfThePage
<1>7. MessagesAreOfThePage'
  <2>1. \A m \in Messages : Working(m)' => Working(m)
    BY <1>2, <1>3, <1>4 DEF Working
  <2>2. \A m \in Messages : ~Working(m)
    BY <1>1, <1>2 DEF MessagesAreOfThePage
  <2>3. QED
    BY <1>2, <2>1, <2>2 DEF MessagesAreOfThePage
<1>8. TranscriptIsOfThePage'
  <2>1. \A m \in transcript.cards : m \in Messages
    BY DEF TypeOK
  <2>2. QED
    BY <1>1, <1>2, <1>3, <1>4, <1>5, <2>1 DEF TranscriptIsOfThePage
<1>9. FigureIsOfThePage'
  BY <1>1, <1>2, <1>4, <1>5 DEF FigureIsOfThePage
<1>10. AttachmentIsOfThePage'
  BY <1>1, <1>2, <1>3, <1>4, <1>5 DEF AttachmentIsOfThePage
<1>11. QED
  BY <1>6, <1>7, <1>8, <1>9, <1>10 DEF Orderly

LEMMA OrderlyStep ==
  ASSUME TypeOK, MessageInv, ServerInv, PendingInv, ControlsInv, Orderly, [Next]_vars
  PROVE  Orderly'
<1>1. transcript.cards \subseteq Messages
  BY DEF TypeOK
<1>2. CASE NewSession
  <2>1. CASE disturbed'
    BY <2>1 DEF Orderly
  <2>2. CASE ~disturbed'
    BY <1>2, <2>2, AnewOrderly DEF NewSession, Quiet, server
  <2>3. QED
    BY <2>1, <2>2
<1>3. CASE OpenFiles \/ ListStep
  <2>1. /\ UNCHANGED <<sessionId, transcript, figure, attachedStructure, message, asks, running,
                       latest, listed, uploads, disturbed>>
        /\ Refresh(sessionId) \/ ListStep
    BY <1>3, ListEffect DEF OpenFiles, server
  <2>2. Loads' = Loads
    BY <2>1 DEF Loads
  <2>3. QED
    BY <2>1, <2>2, AsksOrderly
<1>4. CASE RunAction
  BY <1>4, AsksOrderly DEF RunAction, Ask, Loads, page, server
<1>5. CASE StopPressed
  <2>1. PICK b : asks' = asks \cup {b} /\ b.of = sessionId /\ b.kind = "cancel"
    <3> DEFINE b == [kind |-> "cancel", of |-> sessionId, by |-> stops, calm |-> ~disturbed]
    <3>1. asks' = asks \cup {b} /\ b.of = sessionId /\ b.kind = "cancel"
      BY <1>5 DEF StopPressed
    <3> HIDE DEF b
    <3>2. QED
      BY <3>1
  <2>2. QED
    BY <1>5, <2>1, AsksOrderly DEF StopPressed, Loads, page, server
<1>6. ASSUME NEW s \in Sessions, DeleteSession(s) PROVE Orderly'
  BY <1>6, AsksOrderly DEF DeleteSession, Ask, Loads, page, server
<1>7. ASSUME NEW a \in asks, UploadRefused(a) \/ ActionAnswered(a) PROVE Orderly'
  <2>1. /\ asks' = asks \ {a} /\ a.kind \in {"upload", "action"}
        /\ UNCHANGED lists \/ Refresh(a.of)
    BY <1>7 DEF UploadRefused, ActionAnswered, page
  <2>2. Loads' = Loads
    BY <2>1 DEF Loads
  <2>3. disturbed \/ a.of = sessionId
    BY <2>1 DEF Orderly, AsksAreOfThePage
  <2>4. UNCHANGED <<sessionId, transcript, figure, attachedStructure, message, running, latest,
                    listed, uploads, disturbed>>
    BY <1>7 DEF UploadRefused, ActionAnswered, page, server
  <2>5. QED
    BY <2>1, <2>2, <2>3, <2>4, AsksOrderly DEF Orderly
<1>8. CASE OpenMethod \/ ChooseAccuracy \/ EditInputs \/ Escape \/ UNCHANGED vars
  <2>1. UNCHANGED <<page, asks, message, running, latest, listed, uploads, disturbed>>
    BY <1>8 DEF OpenMethod, ChooseAccuracy, EditInputs, Escape, server, vars
  <2>2. QED
    BY <2>1, AsksOrderly DEF Loads, page
<1>9. CASE Dismiss
  <2>1. /\ UNCHANGED <<sessionId, transcript, figure, attachedStructure, files, listings,
                       misfiled, running, latest, listed, uploads, asks, disturbed>>
    BY <1>9 DEF Dismiss, page, lists, server
  <2>2. Loads' = Loads
    BY <2>1 DEF Loads
  <2>3. \A m \in Messages :
            /\ message'[m].turn = message[m].turn /\ message'[m].to = message[m].to
            /\ message'[m].drew = message[m].drew
            /\ message'[m].structure = message[m].structure
            /\ message'[m].owned = message[m].owned /\ message'[m].calm = message[m].calm
            /\ \/ message'[m].st = message[m].st
               \/ message'[m].st \notin {"posted", "open", "reading"}
                  /\ message[m].st # "open"
    BY <1>9, DismissEffect DEF Steady, PendingInv
  <2>4. QED
    BY <1>1, <1>9, <2>1, <2>2, <2>3, DismissUnderway, StillOrderly
<1>10. ASSUME NEW a \in asks, CancelArrives(a) PROVE Orderly'
  <2>1. /\ UNCHANGED <<sessionId, transcript, figure, attachedStructure, files, listings,
                       misfiled, running, latest, listed, uploads, disturbed>>
        /\ asks' = asks \ {a} /\ a.kind = "cancel"
    BY <1>10 DEF CancelArrives, page, lists, server
  <2>2. Loads' = Loads
    BY <2>1 DEF Loads
  <2>3. QED
    BY <1>1, <1>10, <2>1, <2>2, CancelEffect, CancelUnderway, StillOrderly
<1>11. ASSUME NEW n \in Messages, NEW kind \in KindsOf[n], Submit(n, kind) PROVE Orderly'
  <2>1. CASE Waits(n)
    <3>1. /\ UNCHANGED <<sessionId, transcript, figure, attachedStructure, files, listings,
                         misfiled, running, latest, listed, uploads, asks, disturbed>>
          /\ \A m \in Messages : m # n => message'[m] = message[m]
          /\ message[n].st = "unborn" /\ message'[n].st = "waiting"
          /\ message'[n].turn = message[n].turn
      BY <2>1 DEF Waits, lists
    <3>2. CASE disturbed
      BY <3>1, <3>2 DEF Orderly
    <3>3. CASE ~disturbed
      <4>1. /\ AsksAreOfThePage /\ MessagesAreOfThePage /\ TranscriptIsOfThePage
            /\ FilesAreOfThePage /\ FigureIsOfThePage /\ AttachmentIsOfThePage
        BY <3>3 DEF Orderly
      <4>2. Underway' = Underway /\ n \notin Underway /\ Loads' = Loads
        BY <2>1, <3>1, WaitsUnderway DEF Underway, Loads
      <4>3. \A m \in Messages : Working(m)' <=> Working(m)
        BY <3>1 DEF Working
      <4>4. AsksAreOfThePage' /\ FilesAreOfThePage'
        BY <3>1, <4>1, <4>2 DEF AsksAreOfThePage, FilesAreOfThePage
      <4>5. MessagesAreOfThePage'
        BY <3>1, <4>1, <4>2, <4>3 DEF MessagesAreOfThePage, Underway
      <4>6. TranscriptIsOfThePage'
        BY <1>1, <3>1, <4>1, <4>2 DEF TranscriptIsOfThePage
      <4>7. FigureIsOfThePage' /\ AttachmentIsOfThePage'
        BY <3>1, <4>1, <4>2 DEF FigureIsOfThePage, AttachmentIsOfThePage, Underway
      <4>8. QED
        BY <4>4, <4>5, <4>6, <4>7 DEF Orderly
    <3>4. QED
      BY <3>2, <3>3
  <2>2. QED
    BY <1>11, <2>1, SubmitEffect, PostsOrderly
<1>12. CASE Confirm
  <2>1. CASE pendingApproval = 0
    BY <1>12, <2>1, ConfirmEffect, AsksOrderly DEF Loads
  <2>2. CASE pendingApproval # 0
    BY <1>12, <2>2, ConfirmEffect, PostsOrderly
  <2>3. QED
    BY <2>1, <2>2
<1>13. ASSUME NEW n \in Messages, StreamEnds(n) PROVE Orderly'
  <2>1. CASE disturbed
    BY <1>13, <2>1 DEF StreamEnds, Orderly
  <2>2. CASE ~disturbed
    BY <1>13, <2>2, OverOrderly DEF StreamEnds, Underway
  <2>3. QED
    BY <2>1, <2>2
<1>14. ASSUME NEW n \in Messages, Refused(n) PROVE Orderly'
  <2>1. CASE disturbed
    BY <1>14, <2>1 DEF Refused, Orderly
  <2>2. CASE ~disturbed
    <3>1. n \in Underway /\ message[n].turn = NoSession
      BY <1>14 DEF Refused, Underway, MessageInv
    <3>2. QED
      BY <1>14, <2>2, <3>1, OverOrderly DEF Refused, Working
  <2>3. QED
    BY <2>1, <2>2
<1>15. CASE disturbed' = TRUE
  BY <1>15 DEF Orderly
<1>16. QED
  BY <1>2, <1>3, <1>4, <1>5, <1>6, <1>7, <1>8, <1>9, <1>10, <1>11, <1>12, <1>13, <1>14, <1>15,
     ClickOrderly, UploadOrderly, LoadedOrderly, DeletedOrderly, UploadedOrderly, OpensOrderly,
     TurnEndsOrderly, StartsOrderly, FigureOrderly
     DEF Next, ByUser, Answered, Streaming, AskFails, StreamBreaks, ListStep

\* A message from a page at rest is refused only for another session's attachment.
LEMMA HomeStep ==
  ASSUME TypeOK, MessageInv, ServerInv, PendingInv, ControlsInv, Orderly, StructuresStayHome,
         [Next]_vars
  PROVE  StructuresStayHome'
<1> DEFINE Excused(m) == m.st = "refused" /\ m.calm =>
                            m.to # NoSession /\ ~m.owned /\ m.structure # NoSession
<1>1. MessageInv'
  BY MessageStep
<1>2. SUFFICES ASSUME NEW m \in Messages
               PROVE  Excused(message'[m])
  BY <1>1 DEF MessageInv, StructuresStayHome
<1>3. Excused(message[m])
  BY DEF StructuresStayHome
<1>4. CASE Confirm
  BY <1>3, <1>4, ConfirmEffect DEF Posts
<1>5. CASE Dismiss
  BY <1>3, <1>5, DismissEffect DEF Steady
<1>6. ASSUME NEW n \in Messages, NEW kind \in KindsOf[n], Submit(n, kind)
      PROVE  Excused(message'[m])
  BY <1>3, <1>6, SubmitEffect DEF Posts, Waits
<1>7. ASSUME NEW n \in Messages, Refused(n)
      PROVE  Excused(message'[m])
  <2>1. "refused" \in States
    BY DEF States
  <2>2. Over(n, "refused") /\ message[n].st = "posted"
    BY <1>7 DEF Refused
  <2>3. CASE m # n
    BY <1>3, <2>1, <2>2, <2>3, OverEffect
  <2>4. ASSUME m = n, message[n].calm, ~disturbed
        PROVE  message[n].to # NoSession /\ ~message[n].owned /\ message[n].structure # NoSession
    <3>1. AttachmentIsOfThePage /\ MessagesAreOfThePage
      BY <2>4 DEF Orderly
    <3>2. n \in Underway /\ Underway = {n} /\ message[n].turn = NoSession
      BY <2>2, <2>4 DEF Underway, ControlsInv, MessageInv
    <3>3. \A s \in Sessions : running[s] = 0
      <4>1. SUFFICES ASSUME NEW s \in Sessions, running[s] # 0
                     PROVE  FALSE
        OBVIOUS
      <4>2. running[s] \in Messages /\ message[running[s]].turn = s /\ s # NoSession
        BY <4>1, PageAssumption DEF TypeOK, Messages, ServerInv
      <4>3. Working(running[s])
        BY <4>2 DEF Working
      <4>4. running[s] = n
        BY <3>1, <3>2, <4>2, <4>3 DEF MessagesAreOfThePage
      <4>5. QED
        BY <3>2, <4>2, <4>4
    <3>4. PICK s \in Target(n) : ~Admits(n, s)
      BY <1>7 DEF Refused
    <3>5. s \in Sessions /\ (message[n].to = NoSession \/ message[n].to = s)
      BY <1>7 DEF Refused, Target, TypeOK, Records, Anywhere
    <3>6. /\ message[n].structure # NoSession
          /\ message[n].structure # s \/ s \notin uploads
      BY <3>3, <3>4, <3>5 DEF Admits
    <3>7. message[n].to # NoSession
      BY <2>2, <2>4, <3>1, <3>6 DEF AttachmentIsOfThePage
    <3>8. ~message[n].owned
      BY <2>2, <2>4, <3>1, <3>5, <3>6, <3>7 DEF AttachmentIsOfThePage
    <3>9. QED
      BY <3>6, <3>7, <3>8
  <2>5. QED
    BY <2>1, <2>2, <2>3, <2>4, OverEffect
<1>8. CASE Onward /\ \A n \in Messages : ~Refused(n)
  <2>1. message'[m].st = "refused" => message[m].st = "refused"
    <3>1. ASSUME NEW n \in Messages, Over(n, "done") \/ Over(n, "broken")
          PROVE  message'[m].st = "refused" => message[m].st = "refused"
      BY <3>1, OverEffect DEF States
    <3>2. CASE message' = message \/ ListStep
      BY <3>2, ListEffect
    <3>3. ASSUME NEW n \in Messages, StreamOpens(n) \/ StreamStarts(n) \/ FigureArrives(n)
          PROVE  message'[m].st = "refused" => message[m].st = "refused"
      <4>1. /\ \A k \in Messages : k # n => message'[k] = message[k]
            /\ message'[n].st \in {message[n].st, "open", "reading"}
        BY <3>3, StreamOpensEffect, StreamStartsEffect, FigureArrivesEffect DEF Steady
      <4>2. QED
        BY <4>1
    <3>4. ASSUME NEW a \in asks, CancelArrives(a)
          PROVE  message'[m].st = "refused" => message[m].st = "refused"
      BY <3>4, CancelEffect
    <3>5. CASE Dismiss
      BY <3>5, DismissEffect DEF Steady
    <3>6. CASE Confirm
      BY <3>6, ConfirmEffect DEF Posts
    <3>7. ASSUME NEW n \in Messages, NEW kind \in KindsOf[n], Submit(n, kind)
          PROVE  message'[m].st = "refused" => message[m].st = "refused"
      BY <3>7, SubmitEffect DEF Posts, Waits
    <3>8. QED
      BY <1>8, <3>1, <3>2, <3>3, <3>4, <3>5, <3>6, <3>7
         DEF Next, ByUser, Answered, Streaming, ListStep, NewSession, OpenFiles,
             UploadStructure, RunAction, StopPressed, ChooseAccuracy, EditInputs, OpenMethod,
             Escape, ClickSession, DeleteSession, SessionLoaded, SessionDeleted,
             StructureUploaded, UploadRefused, ActionAnswered, AskFails, TurnEnds, StreamEnds,
             StreamBreaks, vars
  <2>2. QED
    BY <1>3, <1>8, <2>1 DEF Onward
<1>9. QED
  BY <1>4, <1>5, <1>6, <1>7, <1>8, OnwardStep

-----------------------------------------------------------------------------

LEMMA PageInit == Init => PageInv
<1> SUFFICES ASSUME Init PROVE PageInv
  OBVIOUS
<1>1. TypeOK
  BY InitType
<1>2. \A n \in Messages : message[n] = Unborn
  BY DEF Init
<1>3. Underway = {} /\ \A n \in Messages : ~Working(n)
  BY <1>2 DEF Underway, Working, Unborn
<1>4. MessageInv
  BY <1>2 DEF MessageInv, Unborn
<1>5. asks = {} \/ asks = {Ask("firstload", sessionId)}
  BY DEF Init
<1>6. ServerInv
  <2>1. \A a \in asks : a.kind # "upload"
    BY <1>5 DEF Ask
  <2>2. QED
    BY <2>1, PageAssumption DEF Init, ServerInv
<1>7. PendingInv /\ DialogInv /\ MethodInv /\ ControlsInv
  BY <1>3 DEF Init, PendingInv, DialogInv, MethodInv, Closed, ControlsInv, ControlsMatch
<1>8. ApprovedAsSeen
  BY <1>2 DEF ApprovedAsSeen, Sent, Unborn
<1>9. Orderly
  <2>1. AsksAreOfThePage /\ MessagesAreOfThePage
    BY <1>3, <1>5 DEF AsksAreOfThePage, MessagesAreOfThePage, Ask
  <2>2. sessionId = NoSession \/ Loads # {}
    <3>1. CASE sessionId # NoSession
      <4>1. Ask("firstload", sessionId) \in asks /\ Ask("firstload", sessionId).kind = "firstload"
        BY <3>1 DEF Init, Ask
      <4>2. Ask("firstload", sessionId) \in Loads
        BY <4>1 DEF Loads
      <4>3. QED
        BY <4>2
    <3>2. QED
      BY <3>1
  <2>3. TranscriptIsOfThePage /\ FilesAreOfThePage
    BY <2>2 DEF Init, TranscriptIsOfThePage, FilesAreOfThePage
  <2>4. FigureIsOfThePage /\ AttachmentIsOfThePage
    BY <1>2, <1>3, <2>2
       DEF Init, FigureIsOfThePage, AttachmentIsOfThePage, Nothing, Unborn
  <2>5. QED
    BY <2>1, <2>3, <2>4 DEF Orderly
<1>10. StructuresStayHome
  BY <1>2 DEF StructuresStayHome, Unborn
<1>11. StopInv
  BY <1>5 DEF StopInv, Ask
<1>12. QED
  BY <1>1, <1>4, <1>6, <1>7, <1>8, <1>9, <1>10, <1>11 DEF PageInv

\* The page keeps its invariant, whatever the user clicks and in whatever order
\* the answers come: types, messages, server, dialog, buttons and stops, and, as
\* long as nothing overtook the page, that all on it is of one session (chat.js,
\* workspace.js).
THEOREM PageKeepsItsInvariant == Spec => []PageInv
<1>1. PageInv /\ [Next]_vars => PageInv'
  <2> SUFFICES ASSUME PageInv, [Next]_vars PROVE PageInv'
    OBVIOUS
  <2> USE DEF PageInv
  <2>1. TypeOK'
    BY TypeStep
  <2>2. MessageInv' /\ ServerInv' /\ PendingInv'
    BY MessageStep, ServerStep, PendingStep
  <2>3. DialogInv' /\ MethodInv' /\ ApprovedAsSeen'
    BY DialogStep, MethodStep, ApprovedStep
  <2>4. ControlsInv' /\ Orderly' /\ StopInv'
    BY ControlsStep, OrderlyStep, StopStep
  <2>5. StructuresStayHome'
    BY HomeStep
  <2>6. QED
    BY <2>1, <2>2, <2>3, <2>4, <2>5
<1>2. QED
  BY PageInit, <1>1, PTL DEF Spec

\* What is on a page at rest that nothing overtook is of the page's session, but
\* for a list of files that was left out or lost, a drawing that a session without
\* one leaves until a message is sent, and an attachment in a session without an
\* upload (loadSession, refreshWorkspace, send's "start" handler, uploadStructure).
THEOREM PageStaysOfOneSession == Spec => []PageIsOfOneSession
<1>1. PageInv => PageIsOfOneSession
  <2> SUFFICES ASSUME PageInv, Quiet, ~disturbed PROVE PageIsOfOneSession
    BY DEF PageIsOfOneSession
  <2>1. TranscriptIsOfThePage /\ FilesAreOfThePage /\ FigureIsOfThePage /\ AttachmentIsOfThePage
    BY DEF PageInv, Orderly
  <2>2. Loads = {} /\ Underway = {}
    BY DEF Quiet, AtRest, Loads
  <2>3. \A n \in transcript.cards : message[n].st # "open"
    BY <2>2 DEF PageInv, TypeOK, Underway
  <2>4. QED
    BY <2>1, <2>2, <2>3
       DEF PageIsOfOneSession, TranscriptIsOfThePage, FilesAreOfThePage, FigureIsOfThePage,
           AttachmentIsOfThePage
<1>2. QED
  BY PageKeepsItsInvariant, <1>1, PTL

\* On a page that nothing overtook, what a message has drawn is not seen beside a
\* later one that is under way (clearViewer in send).
THEOREM FigureStaysOfTheRequest == Spec => []FigureIsOfTheRequest
<1>1. PageInv => FigureIsOfTheRequest
  BY DEF PageInv, Orderly, FigureIsOfThePage, FigureIsOfTheRequest, Underway
<1>2. QED
  BY PageKeepsItsInvariant, <1>1, PTL

\* No turn works on another session's structure, and no owner of one is refused
\* (chat_stream's check of the structure against requestContext's choice).
THEOREM StructuresAreAtHome == Spec => []StructuresStayHome
<1>1. PageInv => StructuresStayHome
  BY DEF PageInv
<1>2. QED
  BY PageKeepsItsInvariant, <1>1, PTL

\* A research message goes out with the method its dialog showed, but for custom
\* inputs that were edited in the dialog, and with the structure and the session,
\* if nothing was under way; a dialog of another message approves only one whose
\* own was left with Escape (approveRequest, renderMethodSummary).
THEOREM MessagesAreApprovedAsSeen == Spec => []ApprovedAsSeen
<1>1. PageInv => ApprovedAsSeen
  BY DEF PageInv
<1>2. QED
  BY PageKeepsItsInvariant, <1>1, PTL

\* The send and the stop button follow what is under way (send's finish).
THEOREM ControlsFollow == Spec => []ControlsMatch
<1>1. PageInv => ControlsMatch
  BY DEF PageInv, ControlsInv
<1>2. QED
  BY PageKeepsItsInvariant, <1>1, PTL

\* A stop names the session its messages are of (the handler send registers).
THEOREM StopsNameTheirTurn == Spec => []StopNamesItsTurn
<1>1. PageInv => StopNamesItsTurn
  <2> SUFFICES ASSUME PageInv, NEW a \in asks, a.kind = "cancel", a.calm, NEW n \in a.by
               PROVE  {message[n].turn, message[n].to} \subseteq {NoSession, a.of}
    BY DEF StopNamesItsTurn
  <2>1. n \in Messages
    BY DEF PageInv, TypeOK, Requests
  <2>2. \/ message[n].to = a.of
        \/ message[n].to = NoSession /\ message[n].turn = a.of
    BY DEF PageInv, StopInv
  <2>3. message[n].turn # NoSession => message[n].to \in {NoSession, message[n].turn}
    BY <2>1 DEF PageInv, MessageInv
  <2>4. a.of # NoSession
    BY PageAssumption DEF PageInv, TypeOK, Requests
  <2>5. QED
    BY <2>2, <2>3, <2>4
<1>2. QED
  BY PageKeepsItsInvariant, <1>1, PTL

=============================================================================
