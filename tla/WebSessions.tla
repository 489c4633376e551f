---------------------------- MODULE WebSessions ----------------------------
(***************************************************************************)
(* The web server's requests on sessions (web/__init__.py) and the engine  *)
(* cache they share (tools/graph_tools.py).                                *)
(*                                                                         *)
(* An async handler runs alone on the event loop from one await to the     *)
(* next; `loop' names the request that holds the loop over several steps.  *)
(* A sync handler and everything behind asyncio.to_thread run in threads   *)
(* and interleave with all the rest, one step here for each point at which *)
(* they look at shared state.  A conversation turn or an attachment is the *)
(* number of the request that made it.                                     *)
(***************************************************************************)
EXTENDS Naturals, Sequences, FiniteSets

CONSTANTS
    Sessions,       \* the session ids the clients use
    MaxRequests,    \* bound: requests that arrive
    MaxRestarts,    \* bound: restarts of the server
    Everywhere,     \* the "session" of a request that has none
    NoFile          \* what is on disk for a session without session.json

ASSUME WebAssumption ==
    /\ MaxRequests \in Nat /\ MaxRestarts \in Nat
    /\ Everywhere \notin Sessions
    /\ NoFile \notin [turns : SUBSET Nat, ctx : [source : Nat, event : Nat]]

VARIABLES
    memory,     \* WEB_SESSION_CTX: the object of a session, 0 for none
    objects,    \* the session objects of this process, in order of creation
    disk,       \* session.json
    folder,     \* whether the session's directory exists
    active,     \* WEB_ACTIVE_RUNS: the stream registered for a session, or 0
    stopped,    \* the streams whose cancel event is set
    cache,      \* _ENGINE_CACHE: the engine of a session's graph directory
    settings,   \* how often the compute settings were saved
    swept,      \* the requests whose programs a sweep has killed
    loop,       \* the request that holds the event loop, or 0
    requests,   \* every request, in order of arrival
    restarts

\* The session store, the engines, and the rest.
sessions == <<memory, objects, disk, folder, active, stopped>>
engines == <<cache, settings, swept>>
vars == <<sessions, engines, loop, requests, restarts>>

Requests == DOMAIN requests
Nobody == 0

\* An engine keeps the settings its executor was picked under.
Engines == [builder : 1 .. MaxRequests, settings : 0 .. MaxRequests]
NoEngine == [builder |-> 0, settings |-> 0]

\* The part of ctx that matters here: the upload that a calculation would use
\* and the stream whose cancel event it would poll.
Contexts == [source : 0 .. MaxRequests, event : 0 .. MaxRequests]
NoContext == [source |-> 0, event |-> 0]

Fresh == [turns |-> {}, ctx |-> NoContext]

-----------------------------------------------------------------------------
(* Requests *)

TurnKinds == {"stream", "chat"}
KeptKinds == TurnKinds \cup {"upload"}
Kinds == KeptKinds \cup {"action", "delete", "compute", "stop", "view"}

Over == {"answered", "failed", "refused", "lost"}
InFlight == {r \in Requests : requests[r].pc \notin Over}

New(kind, s, pc) ==
    [kind |-> kind, session |-> s, pc |-> pc, object |-> 0, saves |-> 0,
     ctx |-> NoContext, engine |-> NoEngine, peers |-> InFlight]

\* A request that is refused at its first look overlaps nothing.
Refused(kind, s) == [New(kind, s, "refused") EXCEPT !.peers = {}]

Moved(r, pc) == [requests EXCEPT ![r].pc = pc]

Ended(rec, pc) ==
    [rec EXCEPT !.pc = pc, !.object = 0, !.saves = 0, !.ctx = NoContext, !.engine = NoEngine]

End(r, pc) ==
    /\ requests' = [requests EXCEPT ![r] = Ended(@, pc)]
    /\ swept' = swept \ {r}

CanArrive == Len(requests) < MaxRequests
Arriving == Len(requests) + 1

\* _load_session: the object in memory, else one read from disk, else a new one.
Held(s) == IF memory[s] # 0 THEN memory[s] ELSE Len(objects) + 1

\* Mutant: a session that is not in memory starts anew.
FromDisk_Forgets(s) == Fresh

FromDisk(s) == IF disk[s] = NoFile THEN Fresh ELSE disk[s]

Opened(s) ==
    IF memory[s] # 0 THEN objects ELSE Append(objects, FromDisk(s))

\* Mutant: no look.
Busy_Never(s) == FALSE

\* The look at WEB_ACTIVE_RUNS that refuses streams, actions and deletions.
Busy(s) == active[s] # 0

\* Mutant: no look.
AnyBusy_Never == FALSE

\* The one that refuses a change of the compute settings.
AnyBusy == \E s \in Sessions : active[s] # 0

-----------------------------------------------------------------------------
(* Arrival of a turn *)

\* chat_stream up to its return: refused while a stream is registered; else
\* the session is loaded, the worker task is made and registered.
StreamArrives(s) ==
    /\ CanArrive /\ loop = Nobody
    /\ IF Busy(s)
       THEN /\ requests' = Append(requests, Refused("stream", s))
            /\ UNCHANGED <<memory, objects, folder, active>>
       ELSE /\ folder' = [folder EXCEPT ![s] = TRUE]
            /\ memory' = [memory EXCEPT ![s] = Held(s)]
            /\ objects' = Opened(s)
            /\ active' = [active EXCEPT ![s] = Arriving]
            /\ requests' = Append(requests,
                   [New("stream", s, "start") EXCEPT !.object = Held(s)])
    /\ UNCHANGED <<disk, stopped, engines, loop, restarts>>

\* The event that the worker of stream r puts into the session's ctx.
EventOf(r, ctx) == r

\* The worker's first segment: its cancel event goes into the session's ctx,
\* and run_session takes a copy of that ctx.
WorkerStarts(r) ==
    LET o == requests[r].object IN
    /\ loop = Nobody
    /\ requests[r].kind = "stream" /\ requests[r].pc = "start"
    /\ objects' = [objects EXCEPT ![o].ctx.event = EventOf(r, objects[o].ctx)]
    /\ requests' = [requests EXCEPT ![r].pc = "plan", ![r].ctx = objects'[o].ctx]
    /\ UNCHANGED <<memory, disk, folder, active, stopped, engines, loop,
                   restarts>>

\* chat: neither checks nor registers, and copies the ctx at once.
ChatArrives(s) ==
    LET o == Held(s) IN
    /\ CanArrive /\ loop = Nobody
    /\ folder' = [folder EXCEPT ![s] = TRUE]
    /\ memory' = [memory EXCEPT ![s] = o]
    /\ objects' = Opened(s)
    /\ requests' = Append(requests,
           [New("chat", s, "plan") EXCEPT !.object = o, !.ctx = objects'[o].ctx])
    /\ UNCHANGED <<disk, active, stopped, engines, loop, restarts>>

\* _apply_request_context refuses a turn: a method that was not approved, a
\* structure that is gone.  The session has been loaded by then.
TurnIsRejected(s) ==
    /\ CanArrive /\ loop = Nobody
    /\ folder' = [folder EXCEPT ![s] = TRUE]
    /\ memory' = [memory EXCEPT ![s] = Held(s)]
    /\ objects' = Opened(s)
    /\ requests' = Append(requests, New("chat", s, "refused"))
    /\ UNCHANGED <<disk, active, stopped, engines, loop, restarts>>

-----------------------------------------------------------------------------
(* A turn: planning, graph steps, answer *)

\* A planned step calls graph.run in a thread.
StepBegins(r) ==
    /\ requests[r].kind \in TurnKinds /\ requests[r].pc \in {"plan", "step"}
    /\ loop = Nobody
    /\ requests' = Moved(r, "lookup")
    /\ UNCHANGED <<sessions, engines, loop, restarts>>

\* _get_engine in four steps: is the key cached; pick an executor from the
\* environment; insert; read the cache again.
Lookup(r) ==
    /\ requests[r].pc = "lookup"
    /\ requests' = Moved(r, IF cache[requests[r].session] = NoEngine
                            THEN "pick" ELSE "fetch")
    /\ UNCHANGED <<sessions, engines, loop, restarts>>

Pick(r) ==
    /\ requests[r].pc = "pick"
    /\ requests' = [requests EXCEPT ![r].pc = "insert",
                       ![r].engine = [builder |-> r, settings |-> settings]]
    /\ folder' = [folder EXCEPT ![requests[r].session] = TRUE]
    /\ UNCHANGED <<memory, objects, disk, active, stopped, engines, loop,
                   restarts>>

Insert(r) ==
    /\ requests[r].pc = "insert"
    /\ cache' = [cache EXCEPT ![requests[r].session] = requests[r].engine]
    /\ requests' = Moved(r, "fetch")
    /\ UNCHANGED <<sessions, settings, swept, loop, restarts>>

\* The second read finds nothing after a clear: a KeyError, which fails an
\* action and is an error result of a turn's step.
Fetch(r) ==
    LET e == cache[requests[r].session] IN
    /\ requests[r].pc = "fetch"
    /\ IF e # NoEngine
       THEN /\ requests' = [requests EXCEPT ![r].pc = "drive", ![r].engine = e]
            /\ UNCHANGED swept
       ELSE IF requests[r].kind = "action"
            THEN End(r, "failed")
            ELSE /\ requests' = [requests EXCEPT ![r].pc = "step",
                                                 ![r].engine = NoEngine]
                 /\ UNCHANGED swept
    /\ loop' = IF loop = r THEN Nobody ELSE loop
    /\ UNCHANGED <<sessions, cache, settings, restarts>>

\* The engine's drive ends, with whatever result.
DriveEnds(r) ==
    /\ requests[r].pc = "drive" /\ loop = Nobody
    /\ IF requests[r].kind = "action"
       THEN \E pc \in {"answered", "failed"} : End(r, pc)
       ELSE /\ requests' = [requests EXCEPT ![r].pc = "step",
                                            ![r].engine = NoEngine]
            /\ swept' = swept \ {r}
    /\ UNCHANGED <<sessions, cache, settings, loop, restarts>>

\* ctx.update: only the keys the copy has replace the session's.
Merged(ctx, copy) ==
    [source |-> IF copy.source # 0 THEN copy.source ELSE ctx.source,
     event |-> IF copy.event # 0 THEN copy.event ELSE ctx.event]

\* The head of _save_session: look the session up again, make its directory.
SaveBegins(r) ==
    LET s == requests[r].session IN
    /\ requests' = [requests EXCEPT ![r].pc = "save", ![r].saves = memory'[s]]
    /\ folder' = [folder EXCEPT ![s] = @ \/ memory'[s] # 0]
    /\ loop' = r

\* The question and the answer of a turn, at the end of the session's messages.
Recorded(turns, r) == turns \cup {r}

\* A turn's answer: the run's copy of the ctx is merged back, unless the
\* planner only replied; the turn is appended; the session is saved.
TurnReturns(r) ==
    LET o == requests[r].object IN
    /\ requests[r].kind \in TurnKinds /\ loop = Nobody
    /\ \/ requests[r].pc \in {"plan", "step"}
          /\ objects' = [objects EXCEPT ![o].turns = Recorded(@, r),
                                        ![o].ctx = Merged(@, requests[r].ctx)]
       \/ requests[r].pc = "plan"
          /\ objects' = [objects EXCEPT ![o].turns = Recorded(@, r)]
    /\ UNCHANGED memory
    /\ SaveBegins(r)
    /\ UNCHANGED <<disk, active, stopped, engines, restarts>>

\* Mutant: the event stays in the ctx.
Closes_Event(r) ==
    /\ UNCHANGED objects
    /\ active' = [s \in Sessions |-> IF active[s] = r THEN 0 ELSE active[s]]

\* Mutant: the entry is taken out by a worker that answered.
Closes_Answered(r) ==
    IF requests[r].kind = "stream"
    THEN /\ objects' = [objects EXCEPT ![requests[r].object].ctx.event = 0]
         /\ active' = IF requests[r].pc = "save"
                      THEN [active EXCEPT ![requests[r].session] = 0] ELSE active
    ELSE UNCHANGED <<objects, active>>

\* The worker's finally.
Closes(r) ==
    IF requests[r].kind = "stream"
    THEN /\ objects' = [objects EXCEPT ![requests[r].object].ctx.event = 0]
         /\ active' = [active EXCEPT ![requests[r].session] = 0]
    ELSE UNCHANGED <<objects, active>>

\* _slim_for_disk: a session without its process-local event.
Slim(object) == [object EXCEPT !.ctx.event = 0]

\* The rest of _save_session: the slimmed copy replaces session.json, or the
\* replacement fails because the directory has gone meanwhile.
SaveEnds(r) ==
    LET s == requests[r].session
        o == requests[r].saves
        raises == o # 0 /\ ~folder[s]
    IN
    /\ requests[r].pc = "save"
    /\ disk' = IF o = 0 \/ raises THEN disk
               ELSE [disk EXCEPT ![s] = Slim(objects[o])]
    /\ Closes(r)
    /\ End(r, IF raises THEN "failed" ELSE "answered")
    /\ loop' = Nobody
    /\ UNCHANGED <<memory, folder, stopped, cache, settings, restarts>>

\* An exception out of the agent loop: an error event, or a 500.
TurnFails(r) ==
    /\ requests[r].kind \in TurnKinds /\ requests[r].pc \in {"plan", "step"}
    /\ loop = Nobody
    /\ Closes(r)
    /\ End(r, "failed")
    /\ UNCHANGED <<memory, disk, folder, stopped, cache, settings, loop,
                   restarts>>

-----------------------------------------------------------------------------
(* The other handlers *)

\* upload_structure up to its await on the file.
UploadArrives(s) ==
    /\ CanArrive /\ loop = Nobody
    /\ folder' = [folder EXCEPT ![s] = TRUE]
    /\ requests' = Append(requests, New("upload", s, "read"))
    /\ UNCHANGED <<memory, objects, disk, active, stopped, engines, loop,
                   restarts>>

\* After the await: the file is written and normalised, or refused as no
\* structure, or lost with its directory; the session is loaded, the structure
\* becomes the one to calculate, the attachment is appended and saved.
UploadStores(r) ==
    LET s == requests[r].session
        o == Held(s)
    IN
    /\ loop = Nobody
    /\ requests[r].kind = "upload" /\ requests[r].pc = "read"
    /\ folder[s]
    /\ memory' = [memory EXCEPT ![s] = o]
    /\ objects' = [Opened(s) EXCEPT ![o].turns = Recorded(@, r), ![o].ctx.source = r]
    /\ SaveBegins(r)
    /\ UNCHANGED <<disk, active, stopped, engines, restarts>>

UploadFails(r) ==
    /\ loop = Nobody
    /\ requests[r].kind = "upload" /\ requests[r].pc = "read"
    /\ End(r, "failed")
    /\ UNCHANGED <<sessions, cache, settings, loop, restarts>>

\* run_action: refused while a stream is registered or when there is no run; it
\* registers nothing itself, gets the engine on the event loop, and drives it
\* in a thread.
ActionArrives(s) ==
    /\ CanArrive /\ loop = Nobody
    /\ \/ /\ ~Busy(s)
          /\ requests' = Append(requests, New("action", s, "lookup"))
          /\ loop' = Arriving
       \/ /\ requests' = Append(requests, Refused("action", s))
          /\ UNCHANGED loop
    /\ UNCHANGED <<sessions, engines, restarts>>

\* cancel_session: set the registered stream's event and kill the programs of
\* this session's engine.  An engine inserted meanwhile breaks the sweep's
\* iteration, and the handler swallows the error.
Drivers(victims) ==
    {r \in Requests : requests[r].pc = "drive" /\ requests[r].engine \in victims}

\* cancel_graphs_under: the sessions whose graph directory is under s's.
Under(s) == {s}

Cached(S) == {cache[s] : s \in S} \ {NoEngine}

Sweeps(S) ==
    \/ swept' = swept \cup Drivers(Cached(S))
    \/ /\ \E r \in Requests : requests[r].pc = "insert"
       /\ \E K \in SUBSET Drivers(Cached(S)) : swept' = swept \cup K

StopArrives(s) ==
    /\ CanArrive /\ loop = Nobody
    /\ IF active[s] = 0
       THEN /\ requests' = Append(requests, Refused("stop", s))
            /\ UNCHANGED <<stopped, swept>>
       ELSE /\ requests' = Append(requests, New("stop", s, "answered"))
            /\ stopped' = stopped \cup {active[s]}
            /\ Sweeps(Under(s))
    /\ UNCHANGED <<memory, objects, disk, folder, active, cache, settings,
                   loop, restarts>>

\* delete_session, in a thread: check, forget the session, remove its files.
DeleteArrives(s) ==
    /\ CanArrive
    /\ requests' = Append(requests, IF Busy(s) THEN Refused("delete", s)
                                    ELSE New("delete", s, "pop"))
    /\ UNCHANGED <<sessions, engines, loop, restarts>>

\* Mutant: the files only.
Forgotten_Not(s) == memory

\* WEB_SESSION_CTX without a session.
Forgotten(s) == [memory EXCEPT ![s] = 0]

DeletePops(r) ==
    /\ requests[r].pc = "pop"
    /\ memory' = Forgotten(requests[r].session)
    /\ requests' = Moved(r, "rmtree")
    /\ UNCHANGED <<objects, disk, folder, active, stopped, engines, loop,
                   restarts>>

DeleteRemoves(r) ==
    LET s == requests[r].session IN
    /\ requests[r].pc = "rmtree"
    /\ folder' = [folder EXCEPT ![s] = FALSE]
    /\ disk' = [disk EXCEPT ![s] = NoFile]
    /\ End(r, "answered")
    /\ UNCHANGED <<memory, objects, active, stopped, cache, settings, loop,
                   restarts>>

\* get_session and reproducibility_manifest load the session in a thread: a
\* miss reads the file first and enters the object afterwards.
ViewArrives(s) ==
    /\ CanArrive
    /\ IF memory[s] # 0
       THEN /\ requests' = Append(requests, New("view", s, "answered"))
            /\ UNCHANGED objects
       ELSE /\ requests' = Append(requests,
                   [New("view", s, "enter") EXCEPT !.object = Held(s)])
            /\ objects' = Opened(s)
    /\ UNCHANGED <<memory, disk, folder, active, stopped, engines, loop,
                   restarts>>

ViewEnters(r) ==
    /\ requests[r].pc = "enter"
    /\ memory' = [memory EXCEPT ![requests[r].session] = requests[r].object]
    /\ End(r, "answered")
    /\ UNCHANGED <<objects, disk, folder, active, stopped, cache, settings,
                   loop, restarts>>

\* Mutant: the engines swept stay.
Cleared_Not == cache

\* The engine cache after reset_engine_cache.
Cleared == [s \in Sessions |-> NoEngine]

\* save_compute_config, in a thread: refused while any stream is registered;
\* then the environment, the sweep of all engines, the clearing of the cache.
\* An engine inserted during the sweep ends the request before the clearing.
ComputeArrives ==
    /\ CanArrive
    /\ requests' = Append(requests, IF AnyBusy
                                    THEN Refused("compute", Everywhere)
                                    ELSE New("compute", Everywhere, "env"))
    /\ UNCHANGED <<sessions, engines, loop, restarts>>

ComputeUpdates(r) ==
    /\ requests[r].pc = "env"
    /\ settings' = settings + 1
    /\ requests' = Moved(r, "sweep")
    /\ UNCHANGED <<sessions, cache, swept, loop, restarts>>

ComputeSweeps(r) ==
    /\ requests[r].pc = "sweep"
    /\ Sweeps(Sessions)
    /\ \/ requests' = Moved(r, "clear")
       \/ /\ \E b \in Requests : requests[b].pc = "insert"
          /\ requests' = Moved(r, "failed")
    /\ UNCHANGED <<sessions, cache, settings, loop, restarts>>

ComputeClears(r) ==
    /\ requests[r].pc = "clear"
    /\ cache' = Cleared
    /\ End(r, "answered")
    /\ UNCHANGED <<sessions, settings, loop, restarts>>

\* The server dies and starts again: files and settings stay.
Restart ==
    /\ restarts < MaxRestarts
    /\ restarts' = restarts + 1
    /\ requests' = [r \in Requests |-> IF r \in InFlight
                                       THEN Ended(requests[r], "lost")
                                       ELSE requests[r]]
    /\ memory' = [s \in Sessions |-> 0]
    /\ objects' = <<>>
    /\ active' = [s \in Sessions |-> 0]
    /\ cache' = [s \in Sessions |-> NoEngine]
    /\ stopped' = {} /\ swept' = {} /\ loop' = Nobody
    /\ UNCHANGED <<disk, folder, settings>>

-----------------------------------------------------------------------------
(* The specification *)

Init ==
    /\ memory = [s \in Sessions |-> 0]
    /\ objects = <<>>
    /\ disk = [s \in Sessions |-> NoFile]
    /\ folder = [s \in Sessions |-> FALSE]
    /\ active = [s \in Sessions |-> 0]
    /\ stopped = {}
    /\ cache = [s \in Sessions |-> NoEngine]
    /\ settings = 0
    /\ swept = {}
    /\ loop = Nobody
    /\ requests = <<>>
    /\ restarts = 0

Arrives(s) ==
    \/ StreamArrives(s) \/ ChatArrives(s) \/ TurnIsRejected(s)
    \/ UploadArrives(s) \/ ActionArrives(s)
    \/ StopArrives(s) \/ DeleteArrives(s) \/ ViewArrives(s)

\* The steps a request in flight goes on with.
Goes(r) ==
    \/ WorkerStarts(r)
    \/ Lookup(r) \/ Pick(r) \/ Insert(r) \/ Fetch(r) \/ DriveEnds(r)
    \/ TurnReturns(r) \/ SaveEnds(r)
    \/ UploadStores(r) \/ UploadFails(r)
    \/ DeletePops(r) \/ DeleteRemoves(r)
    \/ ViewEnters(r)
    \/ ComputeUpdates(r) \/ ComputeSweeps(r) \/ ComputeClears(r)

Next ==
    \/ \E s \in Sessions : Arrives(s)
    \/ ComputeArrives
    \/ \E r \in Requests : Goes(r) \/ StepBegins(r) \/ TurnFails(r)
    \/ Restart

Spec == Init /\ [][Next]_vars

-----------------------------------------------------------------------------
(* What the server promises *)

TypeOK ==
    /\ memory \in [Sessions -> 0 .. Len(objects)]
    /\ \A o \in DOMAIN objects :
          objects[o] \in [turns : SUBSET Requests, ctx : Contexts]
    /\ \A s \in Sessions :
          disk[s] = NoFile \/ disk[s] \in [turns : SUBSET Requests, ctx : Contexts]
    /\ folder \in [Sessions -> BOOLEAN]
    /\ active \in [Sessions -> {0} \cup Requests]
    /\ stopped \subseteq Requests /\ swept \subseteq Requests
    /\ cache \in [Sessions -> Engines \cup {NoEngine}]
    /\ settings \in 0 .. MaxRequests
    /\ loop \in {Nobody} \cup Requests
    /\ \A r \in Requests :
          /\ requests[r].kind \in Kinds
          /\ requests[r].session \in Sessions \cup {Everywhere}
          /\ requests[r].object \in 0 .. Len(objects)
          /\ requests[r].saves \in 0 .. Len(objects)
          /\ requests[r].ctx \in Contexts
          /\ requests[r].engine \in Engines \cup {NoEngine}
          /\ requests[r].peers \subseteq Requests
    /\ restarts \in 0 .. MaxRestarts

\* Requests are numbered by arrival: two overlap when the earlier one was in
\* flight at the arrival of the later.
Overlap(a, b) == a \in requests[b].peers \/ b \in requests[a].peers

Same(a, b) == requests[a].session = requests[b].session

Deletes == {d \in Requests : requests[d].kind = "delete" /\ requests[d].pc # "refused"}
Views == {v \in Requests : requests[v].kind = "view"}
Streams == {r \in Requests : requests[r].kind = "stream"}
Chats == {r \in Requests : requests[r].kind = "chat"}
Turns == Streams \cup Chats
Actions == {r \in Requests : requests[r].kind = "action"}
Uploads == {r \in Requests : requests[r].kind = "upload"}
Answered == {r \in Requests : requests[r].pc = "answered"}

\* A session is registered exactly while a stream on it is in flight.  An entry
\* left behind would refuse every later stream, action and deletion of the
\* session, and every change of the compute settings, until a restart.
EntryIsLive ==
    \A s \in Sessions :
        {r \in Streams \cap InFlight : requests[r].session = s} = {active[s]} \ {0}

\* Of the requests that may drive a session's graph at one time no two are
\* streams, and an action among them came before the stream: chats alone, which
\* neither check nor register, and actions, which only check, can double a run.
GuardsHold ==
    \A a, b \in InFlight :
        a < b /\ Same(a, b) /\ a \in Streams => b \notin Streams \cup Actions

\* Only a chat that ran beside a stream can leave the stream's event behind and
\* so have a later turn of the session cancelled by a stop meant for another;
\* and only a change of the compute settings kills programs of other sessions.
StopHitsItsTurn ==
    /\ \A r \in Turns \cap InFlight :
          LET e == requests[r].ctx.event IN
          e \in stopped /\ e # r => Overlap(e, r) \/ \E c \in Chats : Overlap(c, e)
    /\ \A r \in swept : \E x \in Requests :
          /\ Overlap(x, r)
          /\ requests[x].kind = "compute" \/ (requests[x].kind = "stop" /\ Same(x, r))

\* An answered turn or upload is on disk, restarts included, unless the session
\* was deleted since, or entered a second time by a view that overlapped it.
AnsweredIsKept ==
    \A r \in Answered :
        requests[r].kind \in KeptKinds =>
            LET s == requests[r].session IN
            \/ disk[s] # NoFile /\ r \in disk[s].turns
            \/ \E d \in Deletes : Same(d, r) /\ (d > r \/ Overlap(d, r))
            \/ \E v \in Views : Same(v, r) /\ Overlap(v, r)

\* What was answered before a deletion of its session is neither in memory nor
\* on disk after it, unless another request on the session overlapped it.
DeletedStaysGone ==
    \A d \in Deletes \cap Answered :
        LET s == requests[d].session
            before == {r \in Answered : Same(r, d) /\ r < d /\ ~Overlap(r, d)}
        IN
        \/ \E x \in Turns \cup Uploads \cup Views : Same(x, d) /\ Overlap(x, d)
        \/ /\ memory[s] # 0 => before \cap objects[memory[s]].turns = {}
           /\ disk[s] # NoFile => before \cap disk[s].turns = {}

\* The sweep of a stop finds the engine of the stream that it stops, unless a
\* second engine was made beside it or the cache was being cleared when it came.
SweepFindsTheEngine ==
    \A r \in Streams \cap InFlight :
        requests[r].pc = "drive" /\ cache[requests[r].session] # requests[r].engine =>
            \E x \in Requests \ {r} :
                /\ Overlap(x, r)
                /\ \/ requests[x].kind = "compute" /\ x < r
                   \/ requests[x].kind \in {"chat", "action"} /\ Same(x, r)

\* An engine that outlives a change of the compute settings was made by a
\* request that overlapped the change, or the change met such a request.
StaleEngineHasCause ==
    \A s \in Sessions :
        LET e == cache[s] IN
        e # NoEngine /\ e.settings < settings =>
            \E c \in Requests :
                /\ requests[c].kind = "compute"
                /\ \/ requests[c].pc \in {"sweep", "clear", "lost"}
                   \/ \E b \in Turns \cup Actions : Overlap(b, c)
=============================================================================
