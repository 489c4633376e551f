------------------------- MODULE WebSessionsProofs --------------------------
(***************************************************************************)
(* Proofs about WebSessions for any sessions and any number of requests    *)
(* and restarts.                                                           *)
(***************************************************************************)
EXTENDS WebSessions, TLAPS

DrivePlaces == {"lookup", "pick", "insert", "fetch", "drive"}

\* Where a request of each kind can be while it is in flight.
Places(kind) ==
    CASE kind = "stream" -> DrivePlaces \cup {"start", "plan", "step", "save"}
      [] kind = "chat" -> DrivePlaces \cup {"plan", "step", "save"}
      [] kind = "upload" -> {"read", "save"}
      [] kind = "action" -> DrivePlaces
      [] kind = "delete" -> {"pop", "rmtree"}
      [] kind = "compute" -> {"env", "sweep", "clear"}
      [] kind = "stop" -> {}
      [] kind = "view" -> {"enter"}

AllPlaces == DrivePlaces \cup Over
               \cup {"start", "plan", "step", "save", "read", "pop", "rmtree",
                     "env", "sweep", "clear", "enter"}

Ctxs == [source : Nat, event : Nat]
Objects == [turns : SUBSET Nat, ctx : Ctxs]
EngineRecords == [builder : Nat, settings : Nat]
RequestRecords ==
    [kind : Kinds, session : Sessions \cup {Everywhere}, pc : AllPlaces, object : Nat,
     saves : Nat, ctx : Ctxs, engine : EngineRecords, peers : SUBSET Nat]

WebTypes ==
    /\ requests \in Seq(RequestRecords)
    /\ objects \in Seq(Objects)
    /\ memory \in [Sessions -> Nat]
    /\ disk \in [Sessions -> Objects \cup {NoFile}]
    /\ active \in [Sessions -> Nat]
    /\ cache \in [Sessions -> EngineRecords]
    /\ folder \in [Sessions -> BOOLEAN]
    /\ settings \in Nat

\* Every request is at a place of its kind, and refers to objects there are;
\* only a save has an object to save.
PlaceInv ==
    /\ \A r \in Requests :
          /\ requests[r].pc \in Places(requests[r].kind) \cup Over
          /\ requests[r].kind # "compute" => requests[r].session \in Sessions
          /\ r \in InFlight /\ requests[r].kind \in TurnKinds \cup {"view"} =>
                requests[r].object \in DOMAIN objects
          /\ requests[r].saves \in 0 .. Len(objects)
          /\ requests[r].pc # "save" => requests[r].saves = 0
    /\ \A s \in Sessions : memory[s] \in 0 .. Len(objects)

\* A request in flight overlaps all that came after it, but for those refused
\* at once; peers came earlier; only the request that holds the loop is between
\* the two halves of a save.
PeersInv ==
    /\ \A a \in InFlight, b \in Requests :
          a < b /\ requests[b].pc # "refused" => a \in requests[b].peers
    /\ \A b \in Requests : requests[b].peers \subseteq 1 .. (b - 1)
    /\ \A r \in Requests : requests[r].pc = "save" => loop = r

\* No stream, action or change of settings arrives beside a stream.
GuardInv ==
    \A a, b \in InFlight :
        /\ a < b /\ a \in Streams /\ Same(a, b) => b \notin Streams \cup Actions
        /\ a < b /\ a \in Streams => requests[b].kind # "compute"

\* A chat came beside request e.
ChatCame(e) == e \in Requests /\ \E c \in Chats : Overlap(c, e)

\* The event of stream e can be in object o.
Hosts(o, e) == ChatCame(e) \/ (e \in Streams \cap InFlight /\ requests[e].object = o)

\* Where the cancel event of a stream can be.
EventInv ==
    /\ \A r \in Streams \cap InFlight : requests[r].ctx.event \in {0, r}
    /\ \A r \in Chats \cap InFlight :
          requests[r].ctx.event # 0 => ChatCame(requests[r].ctx.event)
    /\ \A o \in DOMAIN objects :
          objects[o].ctx.event # 0 => Hosts(o, objects[o].ctx.event)
    /\ \A s \in Sessions : disk[s] # NoFile => disk[s].ctx.event = 0
    /\ 0 \notin stopped

\* A sweep had a cause: the second part of StopHitsItsTurn.
SweptInv ==
    \A r \in swept : r \in Requests /\ \E x \in Requests :
        /\ Overlap(x, r)
        /\ requests[x].kind = "compute" \/ (requests[x].kind = "stop" /\ Same(x, r))

\* An engine is of the session of the request that made it.
OfSession(engine, s) ==
    engine # NoEngine => engine.builder \in Requests /\ requests[engine.builder].session = s

EngineInv ==
    /\ \A s \in Sessions : OfSession(cache[s], s)
    /\ \A r \in InFlight : OfSession(requests[r].engine, requests[r].session)
    /\ \A r \in InFlight :
          requests[r].pc = "insert" /\ requests[r].engine.settings < settings =>
              \E c \in Requests : requests[c].kind = "compute" /\ Overlap(r, c)

\* A deletion or a view of the session came in the way of request r.
Excused(r) ==
    \/ \E d \in Deletes : Same(d, r) /\ (d > r \/ Overlap(d, r))
    \/ \E v \in Views : Same(v, r) /\ Overlap(v, r)

\* The objects that session s, or its file, may be next.
At(pc, s) == {r \in Requests : requests[r].pc = pc /\ requests[r].session = s}
Copies(s) ==
    ({memory[s]} \cup {requests[v].object : v \in At("enter", s)}
                \cup {requests[x].saves : x \in At("save", s)}) \ {0}

KeptInv ==
    \A s \in Sessions, r \in Requests :
        requests[r].session = s /\ requests[r].kind \in KeptKinds /\ ~Excused(r) =>
            /\ r \in Answered => /\ disk[s] # NoFile /\ r \in disk[s].turns
                                 /\ \A o \in Copies(s) : r \in objects[o].turns
            /\ r \in InFlight /\ requests[r].kind \in TurnKinds =>
                  memory[s] = requests[r].object
            /\ requests[r].pc = "save" =>
                  /\ memory[s] = requests[r].saves
                  /\ requests[r].saves # 0 /\ r \in objects[requests[r].saves].turns

\* A turn, an upload or a view of the session came in the way of deletion d.
Crossed(d) == \E x \in Turns \cup Uploads \cup Views : Same(x, d) /\ Overlap(x, d)

\* Turns of session s that came after d, and turns of other sessions.
Younger(turns, s, d) ==
    \A t \in turns : t \in Requests /\ (t > d \/ requests[t].session # s)

GoneInv ==
    \A s \in Sessions, d \in Deletes :
        requests[d].session = s /\ ~Crossed(d) =>
            /\ requests[d].pc = "rmtree" => memory[s] = 0
            /\ d \in Answered =>
                  /\ disk[s] # NoFile => Younger(disk[s].turns, s, d)
                  /\ \A o \in Copies(s) : Younger(objects[o].turns, s, d)

-----------------------------------------------------------------------------
(* How the requests change *)

\* A step never changes what a request is, nor anything about one that is
\* over, and numbers at most one newcomer, which the requests in flight are
\* peers of unless it is refused.
Onward ==
    /\ \A r \in Requests :
          /\ r \in Requests'
          /\ requests'[r].kind = requests[r].kind
          /\ requests'[r].session = requests[r].session
          /\ requests'[r].peers = requests[r].peers
          /\ requests[r].pc \in Over => requests'[r] = requests[r]
    /\ \A r \in Requests' :
          \/ r \in Requests
          \/ /\ r = Len(requests) + 1
             /\ \/ requests'[r].peers = InFlight
                \/ requests'[r].peers = {} /\ requests'[r].pc = "refused"

\* Request r goes on.
Moves(r) ==
    /\ r \in Requests /\ requests[r].pc \notin Over
    /\ requests' \in Seq(RequestRecords)
    /\ Requests' = Requests
    /\ \A q \in Requests : q # r => requests'[q] = requests[q]
    /\ Onward

\* Request n arrives.
Comes(n) ==
    /\ n = Len(requests) + 1 /\ n \notin Requests
    /\ requests' \in Seq(RequestRecords)
    /\ Requests' = Requests \cup {n}
    /\ \A q \in Requests : requests'[q] = requests[q]
    /\ Onward

LEMMA Typed ==
    ASSUME WebTypes
    PROVE  /\ Requests = 1 .. Len(requests) /\ Len(requests) \in Nat
           /\ \A r \in Requests : requests[r] \in RequestRecords /\ r \in Nat /\ r # 0
           /\ \A r \in Requests :
                 /\ requests[r].kind \in Kinds
                 /\ requests[r].session \in Sessions \cup {Everywhere}
                 /\ requests[r].pc \in AllPlaces
                 /\ requests[r].object \in Nat /\ requests[r].saves \in Nat
                 /\ requests[r].ctx \in Ctxs /\ requests[r].engine \in EngineRecords
                 /\ requests[r].peers \in SUBSET Nat
           /\ Everywhere \notin Sessions /\ MaxRequests \in Nat
           /\ InFlight \subseteq Requests
PROOF
    <1>1. Requests = 1 .. Len(requests) /\ Len(requests) \in Nat
        BY DEF WebTypes, Requests
    <1>2. \A r \in Requests : requests[r] \in RequestRecords /\ r \in Nat /\ r # 0
        BY <1>1 DEF WebTypes
    <1>3. \A rec \in RequestRecords :
             /\ rec.kind \in Kinds
             /\ rec.session \in Sessions \cup {Everywhere}
             /\ rec.pc \in AllPlaces
             /\ rec.object \in Nat /\ rec.saves \in Nat
             /\ rec.ctx \in Ctxs /\ rec.engine \in EngineRecords
             /\ rec.peers \in SUBSET Nat
        BY DEF RequestRecords
    <1> QED
        BY <1>1, <1>2, <1>3, WebAssumption DEF InFlight

LEMMA OneMoves ==
    ASSUME WebTypes, NEW r \in Requests, requests[r].pc \notin Over, NEW rec \in RequestRecords,
           rec.kind = requests[r].kind, rec.session = requests[r].session,
           rec.peers = requests[r].peers,
           requests' = [requests EXCEPT ![r] = rec]
    PROVE  Moves(r) /\ requests'[r] = rec
PROOF
    <1>1. Requests = 1 .. Len(requests) /\ requests \in Seq(RequestRecords)
        BY Typed DEF WebTypes
    <1>2. /\ requests' \in Seq(RequestRecords) /\ Len(requests') = Len(requests)
          /\ requests'[r] = rec
          /\ \A q \in Requests : q # r => requests'[q] = requests[q]
        BY <1>1
    <1>3. Requests' = Requests
        BY <1>1, <1>2 DEF Requests
    <1>4. Onward
        BY <1>2, <1>3 DEF Onward
    <1> QED
        BY <1>2, <1>3, <1>4 DEF Moves

LEMMA OneArrives ==
    ASSUME WebTypes, NEW rec \in RequestRecords,
           rec.peers = InFlight \/ (rec.peers = {} /\ rec.pc = "refused"),
           requests' = Append(requests, rec)
    PROVE  Comes(Arriving) /\ requests'[Arriving] = rec
PROOF
    <1>1. Requests = 1 .. Len(requests) /\ requests \in Seq(RequestRecords) /\ Len(requests) \in Nat
        BY Typed DEF WebTypes
    <1>2. /\ requests' \in Seq(RequestRecords) /\ Len(requests') = Len(requests) + 1
          /\ requests'[Len(requests) + 1] = rec
          /\ \A q \in 1 .. Len(requests) : requests'[q] = requests[q]
        BY <1>1
    <1>3. Requests' = Requests \cup {Len(requests) + 1} /\ Len(requests) + 1 \notin Requests
        BY <1>1, <1>2 DEF Requests
    <1>4. Onward
        BY <1>1, <1>2, <1>3 DEF Onward
    <1> QED
        BY <1>1, <1>2, <1>3, <1>4 DEF Comes, Arriving

LEMMA NewIsTyped ==
    ASSUME WebTypes, NEW kind \in Kinds, NEW s \in Sessions \cup {Everywhere}, NEW pc \in AllPlaces
    PROVE  /\ New(kind, s, pc) \in RequestRecords
           /\ New(kind, s, pc).kind = kind /\ New(kind, s, pc).session = s
           /\ New(kind, s, pc).pc = pc
           /\ New(kind, s, pc).object = 0 /\ New(kind, s, pc).saves = 0
           /\ New(kind, s, pc).ctx = NoContext /\ New(kind, s, pc).engine = NoEngine
           /\ New(kind, s, pc).peers = InFlight
           /\ Refused(kind, s) \in RequestRecords
           /\ Refused(kind, s).kind = kind /\ Refused(kind, s).session = s
           /\ Refused(kind, s).pc = "refused" /\ Refused(kind, s).peers = {}
           /\ Refused(kind, s).saves = 0
           /\ NoContext \in Ctxs /\ NoEngine \in EngineRecords
PROOF
    <1>1. NoContext \in Ctxs /\ NoEngine \in EngineRecords
        BY DEF NoContext, NoEngine, Ctxs, EngineRecords
    <1>2. InFlight \in SUBSET Nat
        BY Typed
    <1>3. \A place \in AllPlaces : New(kind, s, place) \in RequestRecords
        BY <1>1, <1>2 DEF New, RequestRecords
    <1>4. "refused" \in AllPlaces
        BY DEF AllPlaces, Over
    <1>5. Refused(kind, s) = [New(kind, s, "refused") EXCEPT !.peers = {}]
        BY DEF Refused
    <1>6. Refused(kind, s) \in RequestRecords
        BY <1>3, <1>4, <1>5 DEF RequestRecords
    <1>7. /\ Refused(kind, s).kind = kind /\ Refused(kind, s).session = s
          /\ Refused(kind, s).pc = "refused" /\ Refused(kind, s).peers = {}
          /\ Refused(kind, s).saves = 0
        BY <1>5 DEF New
    <1> QED
        BY <1>1, <1>3, <1>6, <1>7 DEF New

\* A request that only changes its place.
LEMMA PcMoves ==
    ASSUME WebTypes, NEW r \in Requests, requests[r].pc \notin Over, NEW pc \in AllPlaces,
           requests' = Moved(r, pc)
    PROVE  /\ Moves(r) /\ requests'[r].pc = pc
           /\ requests'[r].object = requests[r].object /\ requests'[r].saves = requests[r].saves
           /\ requests'[r].ctx = requests[r].ctx /\ requests'[r].engine = requests[r].engine
PROOF
    <1> DEFINE rec == [requests[r] EXCEPT !.pc = pc]
    <1>1. requests[r] \in RequestRecords
        BY Typed
    <1>2. /\ rec \in RequestRecords /\ rec.kind = requests[r].kind
          /\ rec.session = requests[r].session /\ rec.peers = requests[r].peers
          /\ rec.pc = pc /\ rec.object = requests[r].object /\ rec.saves = requests[r].saves
          /\ rec.ctx = requests[r].ctx /\ rec.engine = requests[r].engine
        BY <1>1 DEF RequestRecords
    <1>3. requests' = [requests EXCEPT ![r] = rec]
        BY DEF Moved
    <1> HIDE DEF rec
    <1>4. Moves(r) /\ requests'[r] = rec
        BY <1>2, <1>3, OneMoves
    <1> QED
        BY <1>2, <1>4

\* A request that is over.
LEMMA Ends ==
    ASSUME WebTypes, NEW r \in Requests, requests[r].pc \notin Over, NEW pc \in Over,
           requests' = [requests EXCEPT ![r] = Ended(@, pc)]
    PROVE  /\ Moves(r) /\ requests'[r].pc = pc
           /\ requests'[r].saves = 0 /\ requests'[r].engine = NoEngine
PROOF
    <1> DEFINE rec == Ended(requests[r], pc)
    <1>1. requests[r] \in RequestRecords /\ NoContext \in Ctxs /\ NoEngine \in EngineRecords
        BY Typed DEF NoContext, NoEngine, Ctxs, EngineRecords
    <1>2. /\ rec \in RequestRecords /\ rec.kind = requests[r].kind
          /\ rec.session = requests[r].session /\ rec.peers = requests[r].peers
          /\ rec.pc = pc /\ rec.saves = 0 /\ rec.engine = NoEngine
        BY <1>1 DEF RequestRecords, Ended, AllPlaces
    <1>3. requests' = [requests EXCEPT ![r] = rec]
        OBVIOUS
    <1> HIDE DEF rec
    <1>4. Moves(r) /\ requests'[r] = rec
        BY <1>2, <1>3, OneMoves
    <1> QED
        BY <1>2, <1>4

-----------------------------------------------------------------------------
(* Types, places and peers *)

BasicInv == WebTypes /\ PlaceInv /\ PeersInv

\* The variables but the requests keep their types, and no object goes.
OthersTyped ==
    /\ objects' \in Seq(Objects) /\ Len(objects) <= Len(objects')
    /\ memory' \in [Sessions -> Nat]
    /\ disk' \in [Sessions -> Objects \cup {NoFile}]
    /\ active' \in [Sessions -> Nat]
    /\ cache' \in [Sessions -> EngineRecords]
    /\ folder' \in [Sessions -> BOOLEAN]
    /\ settings' \in Nat
    /\ \A s \in Sessions : memory'[s] \in 0 .. Len(objects')

LEMMA QuietTyped ==
    ASSUME BasicInv, objects' = objects, memory' = memory, disk' = disk, active' = active,
           cache' = cache, folder' = folder, settings' = settings
    PROVE  OthersTyped
PROOF
    BY DEF BasicInv, WebTypes, PlaceInv, OthersTyped

LEMMA MovesKeepBasics ==
    ASSUME BasicInv, OthersTyped, NEW r, Moves(r),
           requests'[r].pc \in Places(requests[r].kind) \cup Over,
           requests'[r].object = requests[r].object \/ requests'[r].pc \in Over,
           requests'[r].saves \in 0 .. Len(objects'),
           requests'[r].pc # "save" => requests'[r].saves = 0,
           requests'[r].pc = "save" => loop' = r,
           loop \notin {Nobody, r} => loop' = loop
    PROVE  BasicInv'
PROOF
    <1>1. WebTypes'
        BY DEF Moves, OthersTyped, WebTypes
    <1>2. DOMAIN objects = 1 .. Len(objects) /\ DOMAIN objects' = 1 .. Len(objects')
          /\ Len(objects) \in Nat /\ Len(objects') \in Nat /\ Len(objects) <= Len(objects')
        BY DEF BasicInv, WebTypes, OthersTyped
    <1>3. PlaceInv'
        <2>1. ASSUME NEW q \in Requests, q # r
              PROVE  /\ requests'[q].pc \in Places(requests'[q].kind) \cup Over
                     /\ requests'[q].kind # "compute" => requests'[q].session \in Sessions
                     /\ requests'[q].pc \notin Over /\ requests'[q].kind \in TurnKinds \cup {"view"}
                          => requests'[q].object \in DOMAIN objects'
                     /\ requests'[q].saves \in 0 .. Len(objects')
                     /\ requests'[q].pc # "save" => requests'[q].saves = 0
            BY <1>2, <2>1 DEF Moves, BasicInv, PlaceInv, InFlight
        <2>2. /\ requests'[r].pc \in Places(requests'[r].kind) \cup Over
              /\ requests'[r].kind # "compute" => requests'[r].session \in Sessions
              /\ requests'[r].pc \notin Over /\ requests'[r].kind \in TurnKinds \cup {"view"}
                   => requests'[r].object \in DOMAIN objects'
            BY <1>2 DEF Moves, Onward, BasicInv, PlaceInv, InFlight
        <2> QED
            BY <2>1, <2>2 DEF Moves, PlaceInv, OthersTyped, InFlight
    <1>4. PeersInv'
        <2>1. \A q \in Requests : requests'[q].pc \notin Over => q \in InFlight
            BY DEF Moves, InFlight
        <2>2. \A q \in Requests : requests'[q].peers = requests[q].peers
            BY DEF Moves, Onward
        <2>3. \A q \in Requests : requests'[q].pc = "save" => loop' = q
            BY Typed DEF Moves, BasicInv, PeersInv, Nobody
        <2>4. \A q \in Requests : requests'[q].pc # "refused" => requests[q].pc # "refused"
            BY DEF Moves, Onward, Over
        <2>5. InFlight' \subseteq InFlight /\ Requests' = Requests
            BY <2>1 DEF Moves, InFlight
        <2> QED
            BY <2>2, <2>3, <2>4, <2>5 DEF BasicInv, PeersInv
    <1> QED
        BY <1>1, <1>3, <1>4 DEF BasicInv

LEMMA ComesKeepsBasics ==
    ASSUME BasicInv, OthersTyped, Comes(Arriving),
           requests'[Arriving].pc \in Places(requests'[Arriving].kind) \cup Over,
           requests'[Arriving].kind # "compute" => requests'[Arriving].session \in Sessions,
           /\ requests'[Arriving].pc \notin Over
           /\ requests'[Arriving].kind \in TurnKinds \cup {"view"}
           => requests'[Arriving].object \in DOMAIN objects',
           requests'[Arriving].saves = 0, requests'[Arriving].pc # "save",
           loop # Nobody => loop' = loop
    PROVE  BasicInv'
PROOF
    <1>1. WebTypes'
        BY DEF Comes, OthersTyped, WebTypes
    <1>2. DOMAIN objects = 1 .. Len(objects) /\ DOMAIN objects' = 1 .. Len(objects')
          /\ Len(objects) \in Nat /\ Len(objects') \in Nat /\ Len(objects) <= Len(objects')
        BY DEF BasicInv, WebTypes, OthersTyped
    <1>3. PlaceInv'
        <2>1. ASSUME NEW q \in Requests
              PROVE  /\ requests'[q].pc \in Places(requests'[q].kind) \cup Over
                     /\ requests'[q].kind # "compute" => requests'[q].session \in Sessions
                     /\ requests'[q].pc \notin Over /\ requests'[q].kind \in TurnKinds \cup {"view"}
                          => requests'[q].object \in DOMAIN objects'
                     /\ requests'[q].saves \in 0 .. Len(objects')
                     /\ requests'[q].pc # "save" => requests'[q].saves = 0
            BY <1>2, <2>1 DEF Comes, BasicInv, PlaceInv, InFlight
        <2>2. Requests' = Requests \cup {Arriving}
            BY DEF Comes
        <2> QED
            BY <1>2, <2>1, <2>2 DEF PlaceInv, OthersTyped, InFlight
    <1>4. PeersInv'
        <2>1. /\ Requests' = Requests \cup {Arriving}
              /\ \A q \in Requests : requests'[q] = requests[q]
              /\ Requests = 1 .. Len(requests) /\ Len(requests) \in Nat
              /\ Arriving = Len(requests) + 1
            BY Typed DEF Comes, BasicInv, Arriving
        <2>2. \/ requests'[Arriving].peers = InFlight
              \/ requests'[Arriving].peers = {} /\ requests'[Arriving].pc = "refused"
            BY DEF Comes, Onward
        <2>3. InFlight \subseteq Requests
            BY DEF InFlight
        <2>4. \A a \in InFlight', b \in Requests' :
                 a < b /\ requests'[b].pc # "refused" => a \in requests'[b].peers
            <3> SUFFICES ASSUME NEW a \in InFlight', NEW b \in Requests', a < b,
                                requests'[b].pc # "refused"
                         PROVE  a \in requests'[b].peers
                OBVIOUS
            <3>1. a \in Requests
                BY <2>1 DEF InFlight
            <3>2. a \in InFlight
                BY <2>1, <3>1 DEF InFlight
            <3>3. CASE b \in Requests
                BY <2>1, <3>2, <3>3 DEF BasicInv, PeersInv
            <3>4. CASE b = Arriving
                BY <2>2, <3>2, <3>4
            <3> QED
                BY <2>1, <3>3, <3>4
        <2>5. \A b \in Requests' : requests'[b].peers \subseteq 1 .. (b - 1)
            <3>1. \A b \in Requests : requests'[b].peers \subseteq 1 .. (b - 1)
                BY <2>1 DEF BasicInv, PeersInv
            <3>2. requests'[Arriving].peers \subseteq 1 .. (Arriving - 1)
                <4>1. Arriving - 1 = Len(requests)
                    BY <2>1
                <4>2. 1 .. (Arriving - 1) = Requests
                    BY <2>1, <4>1
                <4> QED
                    BY <2>2, <2>3, <4>2
            <3> QED
                BY <2>1, <3>1, <3>2
        <2>6. \A q \in Requests' : requests'[q].pc = "save" => loop' = q
            BY <2>1, Typed DEF BasicInv, PeersInv, Nobody
        <2> QED
            BY <2>4, <2>5, <2>6 DEF PeersInv
    <1> QED
        BY <1>1, <1>3, <1>4 DEF BasicInv

-----------------------------------------------------------------------------
(* What the steps do *)

\* A file that is read back is an object.
LEMMA FromDiskTyped ==
    ASSUME WebTypes, NEW s \in Sessions
    PROVE  /\ FromDisk(s) \in Objects
           /\ disk[s] = NoFile => FromDisk(s).turns = {} /\ FromDisk(s).ctx = NoContext
           /\ disk[s] # NoFile => FromDisk(s) = disk[s]
PROOF
    <1>1. Fresh \in Objects /\ Fresh.turns = {} /\ Fresh.ctx = NoContext
        BY DEF Fresh, Objects, NoContext, Ctxs
    <1>2. disk[s] \in Objects \cup {NoFile}
        BY DEF WebTypes
    <1> QED
        BY <1>1, <1>2 DEF FromDisk

\* Loading a session adds an object if none is in memory.
LEMMA OpenedIs ==
    ASSUME BasicInv, NEW s \in Sessions
    PROVE  /\ Opened(s) \in Seq(Objects) /\ Len(objects) <= Len(Opened(s))
           /\ Len(objects) \in Nat /\ Len(Opened(s)) \in Nat
           /\ DOMAIN objects = 1 .. Len(objects) /\ DOMAIN Opened(s) = 1 .. Len(Opened(s))
           /\ Held(s) \in DOMAIN Opened(s)
           /\ memory[s] # 0 => Held(s) = memory[s] /\ Opened(s) = objects
           /\ memory[s] = 0 => /\ Held(s) \notin DOMAIN objects
                               /\ Opened(s)[Held(s)] = FromDisk(s)
           /\ \A o \in DOMAIN objects : o \in DOMAIN Opened(s) /\ Opened(s)[o] = objects[o]
           /\ \A o \in DOMAIN Opened(s) : o \in DOMAIN objects \/ (o = Held(s) /\ memory[s] = 0)
PROOF
    <1>1. /\ objects \in Seq(Objects) /\ memory[s] \in 0 .. Len(objects)
          /\ FromDisk(s) \in Objects
        BY FromDiskTyped DEF BasicInv, WebTypes, PlaceInv
    <1>2. CASE memory[s] # 0
        BY <1>1, <1>2 DEF Opened, Held
    <1>3. CASE memory[s] = 0
        <2>1. Opened(s) = Append(objects, FromDisk(s)) /\ Held(s) = Len(objects) + 1
            BY <1>3 DEF Opened, Held
        <2>2. /\ Opened(s) \in Seq(Objects) /\ Len(Opened(s)) = Len(objects) + 1
              /\ \A o \in 1 .. Len(objects) : Opened(s)[o] = objects[o]
              /\ Opened(s)[Len(objects) + 1] = FromDisk(s)
            BY <1>1, <2>1
        <2> QED
            BY <1>1, <1>3, <2>1, <2>2
    <1> QED
        BY <1>2, <1>3

\* One object changes.
LEMMA OneObjectChanges ==
    ASSUME NEW objs \in Seq(Objects), NEW o \in DOMAIN objs, NEW obj \in Objects, NEW objs2,
           objs2 = [objs EXCEPT ![o] = obj]
    PROVE  /\ objs2 \in Seq(Objects) /\ Len(objs2) = Len(objs) /\ DOMAIN objs2 = DOMAIN objs
           /\ objs2[o] = obj
           /\ \A p \in DOMAIN objs : p # o => objs2[p] = objs[p]
PROOF
    OBVIOUS

\* The types and fields of an object after a change of its event ...
LEMMA EventChanges ==
    ASSUME NEW obj \in Objects, NEW e \in Nat
    PROVE  /\ [obj EXCEPT !.ctx.event = e] \in Objects
           /\ [obj EXCEPT !.ctx.event = e].turns = obj.turns
           /\ [obj EXCEPT !.ctx.event = e].ctx.event = e
PROOF
    <1> DEFINE ctx == [obj.ctx EXCEPT !.event = e]
    <1>1. obj.ctx \in Ctxs
        BY DEF Objects
    <1>2. ctx \in Ctxs /\ ctx.event = e
        BY <1>1 DEF Ctxs
    <1>3. [obj EXCEPT !.ctx.event = e] = [obj EXCEPT !.ctx = ctx]
        OBVIOUS
    <1> HIDE DEF ctx
    <1> QED
        BY <1>2, <1>3 DEF Objects

\* ... and after the addition of a turn.
LEMMA TurnAdds ==
    ASSUME NEW obj \in Objects, NEW r \in Nat
    PROVE  /\ [obj EXCEPT !.turns = Recorded(@, r)] \in Objects
           /\ [obj EXCEPT !.turns = Recorded(@, r)].turns = obj.turns \cup {r}
           /\ [obj EXCEPT !.turns = Recorded(@, r)].ctx = obj.ctx
PROOF
    <1> DEFINE turns == obj.turns \cup {r}
    <1>1. [obj EXCEPT !.turns = Recorded(@, r)] = [obj EXCEPT !.turns = turns]
        BY DEF Recorded
    <1>2. turns \in SUBSET Nat
        BY DEF Objects
    <1> HIDE DEF turns
    <1>3. /\ [obj EXCEPT !.turns = turns] \in Objects
          /\ [obj EXCEPT !.turns = turns].turns = turns
          /\ [obj EXCEPT !.turns = turns].ctx = obj.ctx
        BY <1>2 DEF Objects
    <1> QED
        BY <1>1, <1>3 DEF turns

LEMMA UploadAdds ==
    ASSUME NEW obj \in Objects, NEW r \in Nat, NEW obj2,
           obj2 = [obj EXCEPT !.turns = Recorded(@, r), !.ctx.source = r]
    PROVE  obj2 \in Objects /\ obj2.turns = obj.turns \cup {r} /\ obj2.ctx.event = obj.ctx.event
PROOF
    <1> DEFINE ctx == [obj.ctx EXCEPT !.source = r]
               turns == obj.turns \cup {r}
    <1>1. obj.ctx \in Ctxs /\ turns \in SUBSET Nat
        BY DEF Objects
    <1>2. ctx \in Ctxs /\ ctx.event = obj.ctx.event
        BY <1>1 DEF Ctxs
    <1>3. obj2 = [obj EXCEPT !.turns = turns, !.ctx = ctx]
        BY DEF Recorded
    <1> HIDE DEF ctx, turns
    <1>4. obj2 \in Objects /\ obj2.turns = turns /\ obj2.ctx = ctx
        BY <1>1, <1>2, <1>3 DEF Objects
    <1> QED
        BY <1>2, <1>4 DEF turns

LEMMA PlacesAre ==
    /\ Places("stream") = DrivePlaces \cup {"start", "plan", "step", "save"}
    /\ Places("chat") = DrivePlaces \cup {"plan", "step", "save"}
    /\ Places("upload") = {"read", "save"}
    /\ Places("action") = DrivePlaces
    /\ Places("delete") = {"pop", "rmtree"}
    /\ Places("compute") = {"env", "sweep", "clear"}
    /\ Places("stop") = {}
    /\ Places("view") = {"enter"}
PROOF
    BY DEF Places

\* The place of a request tells its kind.
LEMMA KindsAt ==
    ASSUME BasicInv, NEW r \in Requests
    PROVE  /\ requests[r].pc = "start" => requests[r].kind = "stream"
           /\ requests[r].pc \in {"plan", "step"} => requests[r].kind \in TurnKinds
           /\ requests[r].pc \in DrivePlaces => requests[r].kind \in TurnKinds \cup {"action"}
           /\ requests[r].pc = "save" => requests[r].kind \in KeptKinds
           /\ requests[r].pc = "read" => requests[r].kind = "upload"
           /\ requests[r].pc \in {"pop", "rmtree"} => requests[r].kind = "delete"
           /\ requests[r].pc \in {"env", "sweep", "clear"} => requests[r].kind = "compute"
           /\ requests[r].pc = "enter" => requests[r].kind = "view"
PROOF
    <1>1. requests[r].kind \in Kinds /\ requests[r].pc \in Places(requests[r].kind) \cup Over
        BY Typed DEF BasicInv, PlaceInv
    <1> QED
        BY <1>1, PlacesAre DEF Kinds, KeptKinds, TurnKinds, DrivePlaces, Over

LEMMA WorkerStartsDoes ==
    ASSUME BasicInv, NEW r \in Requests, WorkerStarts(r)
    PROVE  LET o == requests[r].object IN
           /\ BasicInv' /\ Moves(r)
           /\ requests[r].kind = "stream" /\ requests'[r].pc = "plan"
           /\ requests'[r].object = o /\ requests'[r].saves = requests[r].saves
           /\ requests'[r].engine = requests[r].engine
           /\ requests'[r].ctx.event = r
           /\ o \in DOMAIN objects /\ DOMAIN objects' = DOMAIN objects
           /\ objects'[o].turns = objects[o].turns /\ objects'[o].ctx.event = r
           /\ \A p \in DOMAIN objects : p # o => objects'[p] = objects[p]
PROOF
    <1> DEFINE o == requests[r].object
               obj == [objects[o] EXCEPT !.ctx.event = r]
               rec == [requests[r] EXCEPT !.pc = "plan", !.ctx = objects'[o].ctx]
    <1>1. /\ requests[r].kind = "stream" /\ requests[r].pc = "start" /\ loop' = loop
          /\ memory' = memory /\ disk' = disk /\ folder' = folder /\ active' = active
          /\ cache' = cache /\ settings' = settings
          /\ objects' = [objects EXCEPT ![o] = obj]
          /\ requests' = [requests EXCEPT ![r] = rec]
        <2>1. objects' = [objects EXCEPT ![o].ctx.event = r]
            BY Zenon DEF WorkerStarts, EventOf
        <2>2. objects' = [objects EXCEPT ![o] = obj]
            BY <2>1
        <2>3. /\ requests[r].kind = "stream" /\ requests[r].pc = "start" /\ loop' = loop
              /\ memory' = memory /\ disk' = disk /\ folder' = folder /\ active' = active
              /\ engines' = engines
            BY Zenon DEF WorkerStarts
        <2>4. requests' = [requests EXCEPT ![r].pc = "plan", ![r].ctx = objects'[o].ctx]
            BY Zenon DEF WorkerStarts
        <2>5. requests' = [requests EXCEPT ![r] = rec]
            BY <2>4
        <2>6. cache' = cache /\ settings' = settings
            BY <2>3 DEF engines
        <2> QED
            BY <2>2, <2>3, <2>5, <2>6
    <1>2. /\ requests[r] \in RequestRecords /\ o \in DOMAIN objects /\ objects \in Seq(Objects)
          /\ r \in Nat /\ requests[r].saves \in 0 .. Len(objects) /\ requests[r].saves = 0
          /\ requests[r].pc \notin Over
        BY <1>1, Typed DEF BasicInv, WebTypes, PlaceInv, InFlight, TurnKinds, Over
    <1>3. objects[o] \in Objects
        BY <1>2
    <1>4. obj \in Objects /\ obj.turns = objects[o].turns /\ obj.ctx.event = r
        BY <1>2, <1>3, EventChanges
    <1> HIDE DEF obj
    <1>5. /\ objects' \in Seq(Objects) /\ Len(objects') = Len(objects)
          /\ DOMAIN objects' = DOMAIN objects /\ objects'[o] = obj
          /\ \A p \in DOMAIN objects : p # o => objects'[p] = objects[p]
        BY <1>1, <1>2, <1>4, OneObjectChanges
    <1>6. objects'[o].ctx \in Ctxs /\ "plan" \in AllPlaces
        BY <1>4, <1>5 DEF Objects, AllPlaces
    <1>7. /\ rec \in RequestRecords /\ rec.kind = requests[r].kind
          /\ rec.session = requests[r].session /\ rec.peers = requests[r].peers
          /\ rec.pc = "plan" /\ rec.object = requests[r].object /\ rec.saves = requests[r].saves
          /\ rec.ctx = objects'[o].ctx /\ rec.engine = requests[r].engine
        BY <1>2, <1>6 DEF RequestRecords
    <1> HIDE DEF rec
    <1>8. Moves(r) /\ requests'[r] = rec
        BY <1>1, <1>2, <1>7, OneMoves DEF BasicInv
    <1>9. OthersTyped
        BY <1>1, <1>2, <1>5 DEF BasicInv, WebTypes, PlaceInv, OthersTyped
    <1>10. BasicInv'
        <2>1. "plan" \in Places("stream")
            BY PlacesAre
        <2> QED
            BY <1>1, <1>2, <1>5, <1>7, <1>8, <1>9, <2>1, MovesKeepBasics
    <1> QED
        BY <1>1, <1>2, <1>4, <1>5, <1>7, <1>8, <1>10

\* A request that only changes its place, where nothing else of the session
\* store moves.
LEMMA PlaceChanges ==
    ASSUME BasicInv, NEW r \in Requests, NEW pc \in AllPlaces,
           requests[r].pc \notin Over, requests[r].pc # "save", requests' = Moved(r, pc),
           pc \in Places(requests[r].kind) \cup Over, pc # "save",
           OthersTyped, loop \notin {Nobody, r} => loop' = loop
    PROVE  /\ BasicInv' /\ Moves(r) /\ requests'[r].pc = pc
           /\ requests'[r].object = requests[r].object /\ requests'[r].saves = requests[r].saves
           /\ requests'[r].ctx = requests[r].ctx /\ requests'[r].engine = requests[r].engine
PROOF
    <1>1. /\ Moves(r) /\ requests'[r].pc = pc
          /\ requests'[r].object = requests[r].object /\ requests'[r].saves = requests[r].saves
          /\ requests'[r].ctx = requests[r].ctx /\ requests'[r].engine = requests[r].engine
        BY PcMoves DEF BasicInv
    <1>2. requests[r].saves \in 0 .. Len(objects') /\ requests[r].saves = 0
        BY DEF BasicInv, WebTypes, PlaceInv, OthersTyped
    <1>3. BasicInv'
        BY <1>1, <1>2, MovesKeepBasics
    <1> QED
        BY <1>1, <1>3

\* A request that changes its place and its engine.
LEMMA EngineChanges ==
    ASSUME BasicInv, NEW r \in Requests, NEW pc \in AllPlaces, NEW engine \in EngineRecords,
           requests[r].pc \notin Over, requests[r].pc # "save",
           requests' = [requests EXCEPT ![r].pc = pc, ![r].engine = engine],
           pc \in Places(requests[r].kind) \cup Over, pc # "save",
           OthersTyped, loop \notin {Nobody, r} => loop' = loop
    PROVE  /\ BasicInv' /\ Moves(r) /\ requests'[r].pc = pc
           /\ requests'[r].object = requests[r].object /\ requests'[r].saves = requests[r].saves
           /\ requests'[r].ctx = requests[r].ctx /\ requests'[r].engine = engine
PROOF
    <1> DEFINE rec == [requests[r] EXCEPT !.pc = pc, !.engine = engine]
    <1>1. requests[r] \in RequestRecords
        BY Typed DEF BasicInv
    <1>2. /\ rec \in RequestRecords /\ rec.kind = requests[r].kind
          /\ rec.session = requests[r].session /\ rec.peers = requests[r].peers
          /\ rec.pc = pc /\ rec.object = requests[r].object /\ rec.saves = requests[r].saves
          /\ rec.ctx = requests[r].ctx /\ rec.engine = engine
        BY <1>1 DEF RequestRecords
    <1>3. requests' = [requests EXCEPT ![r] = rec]
        OBVIOUS
    <1> HIDE DEF rec
    <1>4. Moves(r) /\ requests'[r] = rec
        BY <1>2, <1>3, OneMoves DEF BasicInv
    <1>5. requests[r].saves \in 0 .. Len(objects') /\ requests[r].saves = 0
        BY DEF BasicInv, WebTypes, PlaceInv, OthersTyped
    <1>6. BasicInv'
        BY <1>2, <1>4, <1>5, MovesKeepBasics
    <1> QED
        BY <1>2, <1>4, <1>6

\* A request that is over, whatever the step does beside.
LEMMA RequestEnds ==
    ASSUME BasicInv, NEW r \in Requests, NEW pc \in Over, requests[r].pc \notin Over,
           requests' = [requests EXCEPT ![r] = Ended(@, pc)],
           OthersTyped, loop \notin {Nobody, r} => loop' = loop
    PROVE  BasicInv' /\ Moves(r) /\ requests'[r].pc = pc /\ requests'[r].saves = 0
PROOF
    <1>1. /\ Moves(r) /\ requests'[r].pc = pc
          /\ requests'[r].saves = 0 /\ requests'[r].engine = NoEngine
        BY Ends DEF BasicInv
    <1>2. requests'[r].pc # "save" /\ 0 \in 0 .. Len(objects')
        BY <1>1 DEF Over, OthersTyped
    <1> QED
        BY <1>1, <1>2, MovesKeepBasics

LEMMA AtHome ==
    ASSUME BasicInv, NEW r \in Requests, requests[r].kind # "compute"
    PROVE  requests[r].session \in Sessions
PROOF
    BY DEF BasicInv, PlaceInv

LEMMA StepBeginsDoes ==
    ASSUME BasicInv, NEW r \in Requests, StepBegins(r)
    PROVE  /\ BasicInv' /\ Moves(r) /\ requests'[r].pc = "lookup"
           /\ requests[r].pc \in {"plan", "step"}
           /\ requests'[r].object = requests[r].object /\ requests'[r].ctx = requests[r].ctx
           /\ requests'[r].engine = requests[r].engine
PROOF
    <1>1. /\ requests[r].pc \in {"plan", "step"} /\ requests' = Moved(r, "lookup") /\ loop' = loop
          /\ objects' = objects /\ memory' = memory /\ disk' = disk /\ active' = active
          /\ cache' = cache /\ folder' = folder /\ settings' = settings
        BY DEF StepBegins, sessions, engines
    <1>2. requests[r].kind \in TurnKinds /\ requests[r].pc \notin Over
        BY <1>1, KindsAt DEF Over
    <1>3. "lookup" \in Places(requests[r].kind) /\ "lookup" \in AllPlaces
        BY <1>2, PlacesAre DEF TurnKinds, AllPlaces, DrivePlaces
    <1> QED
        BY <1>1, <1>2, <1>3, QuietTyped, PlaceChanges

LEMMA LookupDoes ==
    ASSUME BasicInv, NEW r \in Requests, Lookup(r)
    PROVE  /\ BasicInv' /\ Moves(r) /\ requests'[r].pc \in {"pick", "fetch"}
           /\ requests[r].pc = "lookup"
           /\ requests'[r].object = requests[r].object /\ requests'[r].ctx = requests[r].ctx
           /\ requests'[r].engine = requests[r].engine
PROOF
    <1>1. PICK pc \in {"pick", "fetch"} :
             /\ requests[r].pc = "lookup" /\ requests' = Moved(r, pc) /\ loop' = loop
             /\ objects' = objects /\ memory' = memory /\ disk' = disk /\ active' = active
             /\ cache' = cache /\ folder' = folder /\ settings' = settings
        BY DEF Lookup, sessions, engines
    <1>2. requests[r].kind \in TurnKinds \cup {"action"} /\ requests[r].pc \notin Over
        BY <1>1, KindsAt DEF Over, DrivePlaces
    <1>3. pc \in Places(requests[r].kind) /\ pc \in AllPlaces
        BY <1>2, PlacesAre DEF TurnKinds, AllPlaces, DrivePlaces
    <1> QED
        BY <1>1, <1>2, <1>3, QuietTyped, PlaceChanges

LEMMA FolderTyped ==
    ASSUME WebTypes, NEW s, NEW b \in BOOLEAN
    PROVE  [folder EXCEPT ![s] = b] \in [Sessions -> BOOLEAN]
PROOF
    BY Zenon DEF WebTypes

LEMMA PickDoes ==
    ASSUME BasicInv, NEW r \in Requests, Pick(r)
    PROVE  /\ BasicInv' /\ Moves(r) /\ requests'[r].pc = "insert" /\ requests[r].pc = "pick"
           /\ requests'[r].object = requests[r].object /\ requests'[r].ctx = requests[r].ctx
           /\ requests'[r].engine = [builder |-> r, settings |-> settings]
PROOF
    <1> DEFINE engine == [builder |-> r, settings |-> settings]
    <1>1. /\ requests[r].pc = "pick" /\ loop' = loop
          /\ requests' = [requests EXCEPT ![r].pc = "insert", ![r].engine = engine]
          /\ objects' = objects /\ memory' = memory /\ disk' = disk /\ active' = active
          /\ cache' = cache /\ settings' = settings
          /\ folder' = [folder EXCEPT ![requests[r].session] = TRUE]
        BY DEF Pick, engines
    <1>2. requests[r].kind \in TurnKinds \cup {"action"} /\ requests[r].pc \notin Over
        BY <1>1, KindsAt DEF Over, DrivePlaces
    <1>3. "insert" \in Places(requests[r].kind) /\ "insert" \in AllPlaces
        BY <1>2, PlacesAre DEF TurnKinds, AllPlaces, DrivePlaces
    <1>4. engine \in EngineRecords
        BY Typed DEF EngineRecords, BasicInv, WebTypes
    <1>5. OthersTyped
        <2>1. folder' \in [Sessions -> BOOLEAN]
            BY <1>1, FolderTyped DEF BasicInv
        <2> QED
            BY <1>1, <2>1 DEF BasicInv, WebTypes, PlaceInv, OthersTyped
    <1> HIDE DEF engine
    <1> QED
        BY <1>1, <1>2, <1>3, <1>4, <1>5, EngineChanges DEF engine

LEMMA InsertDoes ==
    ASSUME BasicInv, NEW r \in Requests, Insert(r)
    PROVE  /\ BasicInv' /\ Moves(r) /\ requests'[r].pc = "fetch" /\ requests[r].pc = "insert"
           /\ requests'[r].object = requests[r].object /\ requests'[r].ctx = requests[r].ctx
           /\ requests'[r].engine = requests[r].engine
           /\ requests[r].kind \in TurnKinds \cup {"action"}
           /\ requests[r].session \in Sessions
           /\ cache'[requests[r].session] = requests[r].engine
           /\ \A s \in Sessions : s # requests[r].session => cache'[s] = cache[s]
PROOF
    <1>1. /\ requests[r].pc = "insert" /\ loop' = loop /\ requests' = Moved(r, "fetch")
          /\ objects' = objects /\ memory' = memory /\ disk' = disk /\ active' = active
          /\ folder' = folder /\ settings' = settings
          /\ cache' = [cache EXCEPT ![requests[r].session] = requests[r].engine]
        BY DEF Insert, sessions
    <1>2. requests[r].kind \in TurnKinds \cup {"action"} /\ requests[r].pc \notin Over
        BY <1>1, KindsAt DEF Over, DrivePlaces
    <1>3. "fetch" \in Places(requests[r].kind) /\ "fetch" \in AllPlaces
        BY <1>2, PlacesAre DEF TurnKinds, AllPlaces, DrivePlaces
    <1>4. requests[r].session \in Sessions /\ requests[r].engine \in EngineRecords
        BY <1>2, AtHome, Typed DEF BasicInv, TurnKinds
    <1>5. cache \in [Sessions -> EngineRecords]
        BY DEF BasicInv, WebTypes
    <1>6. OthersTyped
        BY <1>1, <1>4 DEF BasicInv, WebTypes, PlaceInv, OthersTyped
    <1>7. /\ cache'[requests[r].session] = requests[r].engine
          /\ \A s \in Sessions : s # requests[r].session => cache'[s] = cache[s]
        BY <1>1, <1>4, <1>5
    <1>8. /\ BasicInv' /\ Moves(r) /\ requests'[r].pc = "fetch"
          /\ requests'[r].object = requests[r].object /\ requests'[r].ctx = requests[r].ctx
          /\ requests'[r].engine = requests[r].engine
        BY <1>1, <1>2, <1>3, <1>6, PlaceChanges
    <1> QED
        BY <1>1, <1>2, <1>4, <1>7, <1>8

LEMMA FetchDoes ==
    ASSUME BasicInv, NEW r \in Requests, Fetch(r)
    PROVE  /\ BasicInv' /\ Moves(r) /\ requests[r].pc = "fetch"
           /\ \/ /\ requests'[r].pc = "drive"
                 /\ requests'[r].engine = cache[requests[r].session]
                 /\ requests[r].session \in Sessions
              \/ requests'[r].pc = "step" /\ requests'[r].engine = NoEngine
              \/ requests'[r].pc = "failed" /\ requests[r].kind = "action"
           /\ requests'[r].pc \notin Over =>
                 requests'[r].object = requests[r].object /\ requests'[r].ctx = requests[r].ctx
           /\ swept' \subseteq swept
PROOF
    <1> DEFINE e == cache[requests[r].session]
    <1>1. /\ requests[r].pc = "fetch" /\ loop' = IF loop = r THEN Nobody ELSE loop
          /\ objects' = objects /\ memory' = memory /\ disk' = disk /\ active' = active
          /\ folder' = folder /\ settings' = settings /\ cache' = cache
        BY DEF Fetch, sessions
    <1>2. requests[r].kind \in TurnKinds \cup {"action"} /\ requests[r].pc \notin Over
        BY <1>1, KindsAt DEF Over, DrivePlaces
    <1>3. requests[r].session \in Sessions
        BY <1>2, AtHome DEF TurnKinds
    <1>4. e \in EngineRecords /\ NoEngine \in EngineRecords
        BY <1>3 DEF BasicInv, WebTypes, NoEngine, EngineRecords
    <1>5. OthersTyped /\ (loop \notin {Nobody, r} => loop' = loop)
        BY <1>1, QuietTyped
    <1>6. CASE e # NoEngine
        <2>1. /\ requests' = [requests EXCEPT ![r].pc = "drive", ![r].engine = e]
              /\ swept' = swept
            BY <1>6, Zenon DEF Fetch
        <2>2. "drive" \in Places(requests[r].kind) /\ "drive" \in AllPlaces
            BY <1>2, PlacesAre DEF TurnKinds, AllPlaces, DrivePlaces
        <2> HIDE DEF e
        <2>3. /\ BasicInv' /\ Moves(r) /\ requests'[r].pc = "drive"
              /\ requests'[r].object = requests[r].object /\ requests'[r].ctx = requests[r].ctx
              /\ requests'[r].engine = e
            BY <1>1, <1>2, <1>4, <1>5, <2>1, <2>2, EngineChanges
        <2> QED
            BY <1>1, <1>3, <2>1, <2>3 DEF e
    <1>7. CASE e = NoEngine /\ requests[r].kind = "action"
        <2>1. End(r, "failed")
            BY <1>7, Zenon DEF Fetch
        <2>2. requests' = [requests EXCEPT ![r] = Ended(@, "failed")] /\ swept' = swept \ {r}
            BY <2>1 DEF End
        <2>3. BasicInv' /\ Moves(r) /\ requests'[r].pc = "failed"
            BY <1>2, <1>5, <2>2, RequestEnds DEF Over
        <2> QED
            BY <1>1, <1>7, <2>2, <2>3 DEF Over
    <1>8. CASE e = NoEngine /\ requests[r].kind # "action"
        <2>1. /\ requests' = [requests EXCEPT ![r].pc = "step", ![r].engine = NoEngine]
              /\ swept' = swept
            BY <1>8, Zenon DEF Fetch
        <2>2. "step" \in Places(requests[r].kind) /\ "step" \in AllPlaces
            BY <1>2, <1>8, PlacesAre DEF TurnKinds, AllPlaces
        <2> HIDE DEF e
        <2>3. /\ BasicInv' /\ Moves(r) /\ requests'[r].pc = "step"
              /\ requests'[r].object = requests[r].object /\ requests'[r].ctx = requests[r].ctx
              /\ requests'[r].engine = NoEngine
            BY <1>1, <1>2, <1>4, <1>5, <2>1, <2>2, EngineChanges
        <2> QED
            BY <1>1, <2>1, <2>3
    <1> QED
        BY <1>6, <1>7, <1>8

LEMMA DriveEndsDoes ==
    ASSUME BasicInv, NEW r \in Requests, DriveEnds(r)
    PROVE  /\ BasicInv' /\ Moves(r) /\ requests[r].pc = "drive"
           /\ \/ requests'[r].pc = "step" /\ requests'[r].engine = NoEngine
              \/ requests'[r].pc \in {"answered", "failed"} /\ requests[r].kind = "action"
           /\ requests'[r].pc \notin Over =>
                 requests'[r].object = requests[r].object /\ requests'[r].ctx = requests[r].ctx
           /\ swept' \subseteq swept
PROOF
    <1>1. /\ requests[r].pc = "drive" /\ loop' = loop
          /\ objects' = objects /\ memory' = memory /\ disk' = disk /\ active' = active
          /\ folder' = folder /\ settings' = settings /\ cache' = cache
        BY DEF DriveEnds, sessions
    <1>2. requests[r].kind \in TurnKinds \cup {"action"} /\ requests[r].pc \notin Over
        BY <1>1, KindsAt DEF Over, DrivePlaces
    <1>3. NoEngine \in EngineRecords
        BY DEF NoEngine, EngineRecords
    <1>4. OthersTyped /\ (loop \notin {Nobody, r} => loop' = loop)
        BY <1>1, QuietTyped
    <1>5. CASE requests[r].kind = "action"
        <2>1. PICK pc \in {"answered", "failed"} : End(r, pc)
            BY <1>5, Zenon DEF DriveEnds
        <2>2. requests' = [requests EXCEPT ![r] = Ended(@, pc)] /\ swept' = swept \ {r}
            BY <2>1 DEF End
        <2>3. pc \in Over
            BY DEF Over
        <2>4. BasicInv' /\ Moves(r) /\ requests'[r].pc = pc
            BY <1>2, <1>4, <2>2, <2>3, RequestEnds
        <2> QED
            BY <1>1, <1>5, <2>2, <2>3, <2>4
    <1>6. CASE requests[r].kind # "action"
        <2>1. /\ requests' = [requests EXCEPT ![r].pc = "step", ![r].engine = NoEngine]
              /\ swept' = swept \ {r}
            BY <1>6, Zenon DEF DriveEnds
        <2>2. "step" \in Places(requests[r].kind) /\ "step" \in AllPlaces
            BY <1>2, <1>6, PlacesAre DEF TurnKinds, AllPlaces
        <2>3. /\ BasicInv' /\ Moves(r) /\ requests'[r].pc = "step"
              /\ requests'[r].object = requests[r].object /\ requests'[r].ctx = requests[r].ctx
              /\ requests'[r].engine = NoEngine
            BY <1>1, <1>2, <1>3, <1>4, <2>1, <2>2, EngineChanges
        <2> QED
            BY <1>1, <2>1, <2>3
    <1> QED
        BY <1>5, <1>6

LEMMA SaveBeginsDoes ==
    ASSUME BasicInv, NEW r \in Requests, requests[r].pc \notin Over, requests[r].pc # "save",
           requests[r].kind \in KeptKinds, SaveBegins(r), loop = Nobody,
           objects' \in Seq(Objects), Len(objects) <= Len(objects'),
           memory' \in [Sessions -> Nat], \A s \in Sessions : memory'[s] \in 0 .. Len(objects'),
           disk' = disk, active' = active, cache' = cache, settings' = settings
    PROVE  /\ BasicInv' /\ Moves(r) /\ requests'[r].pc = "save"
           /\ requests'[r].object = requests[r].object /\ requests'[r].ctx = requests[r].ctx
           /\ requests'[r].engine = requests[r].engine
           /\ requests'[r].saves = memory'[requests[r].session]
           /\ requests[r].session \in Sessions
PROOF
    <1> DEFINE s == requests[r].session
               rec == [requests[r] EXCEPT !.pc = "save", !.saves = memory'[s]]
    <1>1. s \in Sessions /\ requests[r] \in RequestRecords
        BY AtHome, Typed DEF BasicInv, KeptKinds, TurnKinds
    <1>2. memory'[s] \in 0 .. Len(objects') /\ memory'[s] \in Nat /\ "save" \in AllPlaces
        BY <1>1 DEF AllPlaces
    <1>3. requests' = [requests EXCEPT ![r] = rec] /\ loop' = r
        BY DEF SaveBegins
    <1>4. /\ rec \in RequestRecords /\ rec.kind = requests[r].kind
          /\ rec.session = requests[r].session /\ rec.peers = requests[r].peers
          /\ rec.pc = "save" /\ rec.object = requests[r].object /\ rec.saves = memory'[s]
          /\ rec.ctx = requests[r].ctx /\ rec.engine = requests[r].engine
        BY <1>1, <1>2 DEF RequestRecords
    <1> HIDE DEF rec
    <1>5. Moves(r) /\ requests'[r] = rec
        BY <1>3, <1>4, OneMoves DEF BasicInv
    <1>6. folder' \in [Sessions -> BOOLEAN]
        <2>1. (folder[s] \/ memory'[s] # 0) \in BOOLEAN
            OBVIOUS
        <2>2. folder' = [folder EXCEPT ![s] = folder[s] \/ memory'[s] # 0]
            BY DEF SaveBegins
        <2> QED
            BY <2>1, <2>2, FolderTyped, Zenon DEF BasicInv
    <1>7. OthersTyped
        BY <1>6 DEF OthersTyped, BasicInv, WebTypes
    <1>8. "save" \in Places(requests[r].kind)
        BY PlacesAre DEF KeptKinds, TurnKinds
    <1>9. BasicInv'
        BY <1>2, <1>3, <1>4, <1>5, <1>7, <1>8, MovesKeepBasics
    <1> QED
        BY <1>1, <1>4, <1>5, <1>9

LEMMA TurnReturnsDoes ==
    ASSUME BasicInv, NEW r \in Requests, TurnReturns(r)
    PROVE  LET o == requests[r].object IN
           /\ BasicInv' /\ Moves(r) /\ requests[r].kind \in TurnKinds
           /\ requests[r].pc \in {"plan", "step"} /\ requests'[r].pc = "save" /\ loop = Nobody
           /\ requests'[r].object = o /\ requests'[r].ctx = requests[r].ctx
           /\ requests'[r].engine = requests[r].engine
           /\ requests'[r].saves = memory[requests[r].session]
           /\ requests[r].session \in Sessions
           /\ o \in DOMAIN objects /\ DOMAIN objects' = DOMAIN objects
           /\ objects'[o].turns = objects[o].turns \cup {r}
           /\ \/ objects'[o].ctx.event = objects[o].ctx.event
              \/ objects'[o].ctx.event = requests[r].ctx.event
           /\ \A p \in DOMAIN objects : p # o => objects'[p] = objects[p]
PROOF
    <1> DEFINE o == requests[r].object
               ctx == Merged(objects[o].ctx, requests[r].ctx)
               kept == [objects[o] EXCEPT !.turns = Recorded(@, r)]
               merged == [objects[o] EXCEPT !.turns = Recorded(@, r), !.ctx = ctx]
    <1>1. /\ requests[r].kind \in TurnKinds /\ requests[r].pc \in {"plan", "step"}
          /\ loop = Nobody /\ memory' = memory /\ disk' = disk /\ active' = active
          /\ cache' = cache /\ settings' = settings /\ SaveBegins(r)
        BY DEF TurnReturns, engines
    <1>2. \/ objects' = [objects EXCEPT ![o] = kept]
          \/ objects' = [objects EXCEPT ![o] = merged]
        BY DEF TurnReturns
    <1>3. /\ o \in DOMAIN objects /\ objects \in Seq(Objects) /\ r \in Nat
          /\ requests[r].pc \notin Over /\ requests[r].pc # "save" /\ requests[r].ctx \in Ctxs
        BY <1>1, Typed DEF BasicInv, WebTypes, PlaceInv, InFlight, Over
    <1>4. objects[o] \in Objects
        BY <1>3
    <1>5. /\ ctx \in Ctxs
          /\ ctx.event = objects[o].ctx.event \/ ctx.event = requests[r].ctx.event
        <2>1. objects[o].ctx \in Ctxs
            BY <1>4 DEF Objects
        <2> QED
            BY <1>3, <2>1 DEF Merged, Ctxs
    <1> HIDE DEF ctx
    <1>6. /\ kept \in Objects /\ kept.turns = objects[o].turns \cup {r}
          /\ kept.ctx.event = objects[o].ctx.event
          /\ merged \in Objects /\ merged.turns = objects[o].turns \cup {r}
          /\ merged.ctx.event = ctx.event
        <2>1. /\ kept \in Objects /\ kept.turns = objects[o].turns \cup {r}
              /\ kept.ctx = objects[o].ctx
            BY <1>3, <1>4, TurnAdds, Zenon
        <2>2. /\ merged \in Objects /\ merged.turns = objects[o].turns \cup {r}
              /\ merged.ctx = ctx
            <3> DEFINE turns == objects[o].turns \cup {r}
            <3>1. merged = [objects[o] EXCEPT !.turns = turns, !.ctx = ctx]
                BY DEF Recorded
            <3>2. turns \in SUBSET Nat
                BY <1>3, <1>4 DEF Objects
            <3> HIDE DEF turns, merged
            <3>3. merged \in Objects /\ merged.turns = turns /\ merged.ctx = ctx
                BY <1>4, <1>5, <3>1, <3>2 DEF Objects
            <3> QED
                BY <3>3 DEF turns
        <2> QED
            BY <2>1, <2>2, Zenon
    <1> HIDE DEF kept, merged
    <1>7. PICK obj \in {kept, merged} : objects' = [objects EXCEPT ![o] = obj]
        BY <1>2
    <1>8. /\ objects' \in Seq(Objects) /\ Len(objects') = Len(objects)
          /\ DOMAIN objects' = DOMAIN objects /\ objects'[o] = obj
          /\ \A p \in DOMAIN objects : p # o => objects'[p] = objects[p]
        BY <1>3, <1>6, <1>7, OneObjectChanges
    <1>9. /\ memory' \in [Sessions -> Nat] /\ \A s \in Sessions : memory'[s] \in 0 .. Len(objects')
          /\ Len(objects) <= Len(objects')
        BY <1>1, <1>3, <1>8 DEF BasicInv, WebTypes, PlaceInv
    <1>10. /\ BasicInv' /\ Moves(r) /\ requests'[r].pc = "save"
           /\ requests'[r].object = requests[r].object /\ requests'[r].ctx = requests[r].ctx
           /\ requests'[r].engine = requests[r].engine
           /\ requests'[r].saves = memory'[requests[r].session]
           /\ requests[r].session \in Sessions
        BY <1>1, <1>3, <1>8, <1>9, SaveBeginsDoes DEF KeptKinds
    <1> QED
        BY <1>1, <1>3, <1>5, <1>6, <1>7, <1>8, <1>10

\* The worker's finally takes the event and the entry away.
LEMMA ClosesDoes ==
    ASSUME BasicInv, NEW r \in Requests, requests[r].pc \notin Over, Closes(r)
    PROVE  LET o == requests[r].object IN
           /\ objects' \in Seq(Objects) /\ Len(objects') = Len(objects)
           /\ DOMAIN objects' = DOMAIN objects
           /\ \A p \in DOMAIN objects : objects'[p].turns = objects[p].turns
           /\ \A p \in DOMAIN objects : objects'[p].ctx.event \in {0, objects[p].ctx.event}
           /\ requests[r].kind = "stream" => o \in DOMAIN objects /\ objects'[o].ctx.event = 0
           /\ active' \in [Sessions -> Nat]
           /\ requests[r].kind # "stream" => active' = active
           /\ requests[r].kind = "stream" =>
                 /\ requests[r].session \in Sessions /\ active'[requests[r].session] = 0
                 /\ \A s \in Sessions : s # requests[r].session => active'[s] = active[s]
PROOF
    <1> DEFINE o == requests[r].object
               obj == [objects[o] EXCEPT !.ctx.event = 0]
    <1>1. objects \in Seq(Objects) /\ active \in [Sessions -> Nat]
        BY DEF BasicInv, WebTypes
    <1>2. CASE requests[r].kind = "stream"
        <2>1. o \in DOMAIN objects /\ requests[r].session \in Sessions
            BY <1>2, AtHome DEF BasicInv, PlaceInv, InFlight, TurnKinds
        <2>2. objects' = [objects EXCEPT ![o].ctx.event = 0]
              /\ active' = [active EXCEPT ![requests[r].session] = 0]
            BY <1>2, Zenon DEF Closes
        <2>3. objects' = [objects EXCEPT ![o] = obj]
            BY <2>2
        <2>4. objects[o] \in Objects
            BY <1>1, <2>1
        <2>5. obj \in Objects /\ obj.turns = objects[o].turns /\ obj.ctx.event = 0
            BY <2>4, EventChanges
        <2> HIDE DEF obj
        <2>6. /\ objects' \in Seq(Objects) /\ Len(objects') = Len(objects)
              /\ DOMAIN objects' = DOMAIN objects /\ objects'[o] = obj
              /\ \A p \in DOMAIN objects : p # o => objects'[p] = objects[p]
            BY <1>1, <2>1, <2>3, <2>5, OneObjectChanges
        <2> QED
            BY <1>1, <1>2, <2>1, <2>2, <2>5, <2>6
    <1>3. CASE requests[r].kind # "stream"
        BY <1>1, <1>3 DEF Closes
    <1> QED
        BY <1>2, <1>3

LEMMA TurnFailsDoes ==
    ASSUME BasicInv, NEW r \in Requests, TurnFails(r)
    PROVE  /\ BasicInv' /\ Moves(r) /\ requests'[r].pc = "failed"
           /\ requests[r].pc \in {"plan", "step"} /\ requests[r].kind \in TurnKinds
           /\ Closes(r) /\ swept' \subseteq swept
PROOF
    <1>1. /\ requests[r].kind \in TurnKinds /\ requests[r].pc \in {"plan", "step"}
          /\ Closes(r) /\ End(r, "failed") /\ loop' = loop /\ memory' = memory /\ disk' = disk
          /\ folder' = folder /\ cache' = cache /\ settings' = settings
        BY DEF TurnFails
    <1>2. requests[r].pc \notin Over
        BY <1>1 DEF Over
    <1>3. OthersTyped
        BY <1>1, <1>2, ClosesDoes DEF BasicInv, WebTypes, PlaceInv, OthersTyped
    <1>4. requests' = [requests EXCEPT ![r] = Ended(@, "failed")] /\ swept' = swept \ {r}
        BY <1>1 DEF End
    <1>5. BasicInv' /\ Moves(r) /\ requests'[r].pc = "failed"
        BY <1>1, <1>2, <1>3, <1>4, RequestEnds DEF Over
    <1> QED
        BY <1>1, <1>4, <1>5

LEMMA SaveEndsDoes ==
    ASSUME BasicInv, NEW r \in Requests, SaveEnds(r)
    PROVE  LET s == requests[r].session
               o == requests[r].saves
           IN
           /\ BasicInv' /\ Moves(r) /\ requests[r].pc = "save"
           /\ requests'[r].pc \in {"answered", "failed"}
           /\ s \in Sessions /\ requests[r].kind \in KeptKinds
           /\ Closes(r) /\ swept' \subseteq swept
           /\ \A q \in Sessions : q # s => disk'[q] = disk[q]
           /\ \/ disk'[s] = disk[s] /\ (o # 0 => requests'[r].pc = "failed")
              \/ /\ o # 0 /\ o \in DOMAIN objects /\ disk'[s] # NoFile
                 /\ disk'[s].turns = objects[o].turns /\ disk'[s].ctx.event = 0
PROOF
    <1> DEFINE s == requests[r].session
               o == requests[r].saves
               raises == o # 0 /\ ~folder[s]
               slim == [objects[o] EXCEPT !.ctx.event = 0]
    <1>1. /\ requests[r].pc = "save" /\ memory' = memory /\ folder' = folder /\ cache' = cache
          /\ settings' = settings /\ loop' = Nobody /\ Closes(r)
        BY DEF SaveEnds
    <1>2. requests[r].kind \in KeptKinds /\ requests[r].pc \notin Over
        BY <1>1, KindsAt DEF Over
    <1>3. s \in Sessions /\ o \in 0 .. Len(objects) /\ loop = r /\ objects \in Seq(Objects)
          /\ disk \in [Sessions -> Objects \cup {NoFile}]
        BY <1>1, <1>2, AtHome DEF BasicInv, WebTypes, PlaceInv, PeersInv, KeptKinds, TurnKinds
    <1>4. PICK pc \in {"answered", "failed"} :
             /\ End(r, pc)
             /\ raises => pc = "failed"
        <2>1. End(r, IF raises THEN "failed" ELSE "answered")
            BY Zenon DEF SaveEnds
        <2> QED
            BY <2>1
    <1>5. disk' = IF o = 0 \/ raises THEN disk ELSE [disk EXCEPT ![s] = slim]
        BY Zenon DEF SaveEnds, Slim
    <1>6. o # 0 => /\ o \in DOMAIN objects /\ slim \in Objects /\ slim # NoFile
                   /\ slim.turns = objects[o].turns /\ slim.ctx.event = 0
        <2> SUFFICES ASSUME o # 0
                     PROVE  /\ o \in DOMAIN objects /\ slim \in Objects /\ slim # NoFile
                            /\ slim.turns = objects[o].turns /\ slim.ctx.event = 0
            OBVIOUS
        <2>1. o \in DOMAIN objects /\ objects[o] \in Objects
            BY <1>3
        <2>2. slim \in Objects /\ slim.turns = objects[o].turns /\ slim.ctx.event = 0
            BY <2>1, EventChanges
        <2>3. NoFile \notin Objects
            BY WebAssumption DEF Objects, Ctxs
        <2> QED
            BY <2>1, <2>2, <2>3
    <1> HIDE DEF slim, raises
    <1>7. /\ disk' \in [Sessions -> Objects \cup {NoFile}]
          /\ \A q \in Sessions : q # s => disk'[q] = disk[q]
          /\ \/ disk'[s] = disk[s] /\ (o # 0 => pc = "failed")
             \/ o # 0 /\ disk'[s] = slim
        BY <1>3, <1>4, <1>5, <1>6
    <1>8. OthersTyped
        BY <1>1, <1>2, <1>7, ClosesDoes DEF BasicInv, WebTypes, PlaceInv, OthersTyped
    <1>9. requests' = [requests EXCEPT ![r] = Ended(@, pc)] /\ swept' = swept \ {r}
        BY <1>4 DEF End
    <1>10. BasicInv' /\ Moves(r) /\ requests'[r].pc = pc
        BY <1>2, <1>3, <1>8, <1>9, RequestEnds DEF Over
    <1>11. \/ disk'[s] = disk[s] /\ (o # 0 => requests'[r].pc = "failed")
           \/ /\ o # 0 /\ o \in DOMAIN objects /\ disk'[s] # NoFile
              /\ disk'[s].turns = objects[o].turns /\ disk'[s].ctx.event = 0
        BY <1>6, <1>7, <1>10
    <1> QED
        BY <1>1, <1>2, <1>3, <1>7, <1>9, <1>10, <1>11

LEMMA UploadStoresDoes ==
    ASSUME BasicInv, NEW r \in Requests, UploadStores(r)
    PROVE  LET s == requests[r].session
               o == Held(s)
           IN
           /\ BasicInv' /\ Moves(r) /\ requests[r].kind = "upload" /\ requests[r].pc = "read"
           /\ requests'[r].pc = "save" /\ loop = Nobody /\ s \in Sessions
           /\ requests'[r].object = requests[r].object /\ requests'[r].ctx = requests[r].ctx
           /\ requests'[r].engine = requests[r].engine
           /\ requests'[r].saves = o /\ o # 0 /\ memory'[s] = o
           /\ \A q \in Sessions : q # s => memory'[q] = memory[q]
           /\ o \in DOMAIN Opened(s) /\ DOMAIN objects' = DOMAIN Opened(s)
           /\ objects'[o].turns = Opened(s)[o].turns \cup {r}
           /\ objects'[o].ctx.event = Opened(s)[o].ctx.event
           /\ \A p \in DOMAIN Opened(s) : p # o => objects'[p] = Opened(s)[p]
PROOF
    <1> DEFINE s == requests[r].session
               o == Held(s)
               obj == [Opened(s)[o] EXCEPT !.turns = Recorded(@, r), !.ctx.source = r]
    <1>1. /\ requests[r].kind = "upload" /\ requests[r].pc = "read" /\ loop = Nobody
          /\ memory' = [memory EXCEPT ![s] = o] /\ SaveBegins(r)
          /\ disk' = disk /\ active' = active /\ cache' = cache /\ settings' = settings
        BY DEF UploadStores, engines
    <1>2. objects' = [Opened(s) EXCEPT ![o] = obj]
        BY DEF UploadStores
    <1>3. s \in Sessions /\ r \in Nat /\ requests[r].pc \notin Over
        BY <1>1, AtHome, Typed DEF BasicInv, Over
    <1>4. /\ Opened(s) \in Seq(Objects) /\ o \in DOMAIN Opened(s) /\ Len(objects) <= Len(Opened(s))
          /\ DOMAIN Opened(s) = 1 .. Len(Opened(s)) /\ Len(Opened(s)) \in Nat /\ Len(objects) \in Nat
        BY <1>3, OpenedIs
    <1>5. Opened(s)[o] \in Objects
        BY <1>4
    <1>6. /\ obj \in Objects /\ obj.turns = Opened(s)[o].turns \cup {r}
          /\ obj.ctx.event = Opened(s)[o].ctx.event
        BY <1>3, <1>5, UploadAdds
    <1> HIDE DEF obj
    <1>7. /\ objects' \in Seq(Objects) /\ Len(objects') = Len(Opened(s))
          /\ DOMAIN objects' = DOMAIN Opened(s) /\ objects'[o] = obj
          /\ \A p \in DOMAIN Opened(s) : p # o => objects'[p] = Opened(s)[p]
        BY <1>2, <1>4, <1>6, OneObjectChanges
    <1>8. memory \in [Sessions -> Nat] /\ \A q \in Sessions : memory[q] \in 0 .. Len(objects)
        BY DEF BasicInv, WebTypes, PlaceInv
    <1>9. o # 0 /\ o \in Nat /\ o <= Len(objects')
        BY <1>4, <1>7
    <1> HIDE DEF o
    <1>10. /\ memory'[s] = o /\ \A q \in Sessions : q # s => memory'[q] = memory[q]
           /\ memory' \in [Sessions -> Nat]
        BY <1>1, <1>3, <1>8, <1>9
    <1>11. \A q \in Sessions : memory'[q] \in 0 .. Len(objects')
        <2>1. Len(objects) <= Len(objects') /\ Len(objects') \in Nat
            BY <1>4, <1>7
        <2>2. ASSUME NEW q \in Sessions
              PROVE  memory'[q] \in 0 .. Len(objects')
            <3>1. CASE q = s
                BY <1>9, <1>10, <2>1, <3>1
            <3>2. CASE q # s
                BY <1>8, <1>10, <2>1, <3>2
            <3>3. QED
                BY <3>1, <3>2
        <2>3. QED
            BY <2>2
    <1>12. /\ BasicInv' /\ Moves(r) /\ requests'[r].pc = "save"
           /\ requests'[r].object = requests[r].object /\ requests'[r].ctx = requests[r].ctx
           /\ requests'[r].engine = requests[r].engine
           /\ requests'[r].saves = memory'[requests[r].session]
        <2>1. Len(objects) <= Len(objects')
            BY <1>4, <1>7
        <2> QED
            BY <1>1, <1>3, <1>7, <1>10, <1>11, <2>1, SaveBeginsDoes DEF KeptKinds
    <1> QED
        BY <1>1, <1>3, <1>4, <1>6, <1>7, <1>9, <1>10, <1>12 DEF o

LEMMA UploadFailsDoes ==
    ASSUME BasicInv, NEW r \in Requests, UploadFails(r)
    PROVE  /\ BasicInv' /\ Moves(r) /\ requests'[r].pc = "failed"
           /\ requests[r].pc = "read" /\ requests[r].kind = "upload" /\ swept' \subseteq swept
PROOF
    <1>1. /\ requests[r].kind = "upload" /\ requests[r].pc = "read" /\ loop' = loop
          /\ objects' = objects /\ memory' = memory /\ disk' = disk /\ active' = active
          /\ folder' = folder /\ settings' = settings /\ cache' = cache
          /\ requests' = [requests EXCEPT ![r] = Ended(@, "failed")] /\ swept' = swept \ {r}
        BY DEF UploadFails, sessions, End
    <1>2. requests[r].pc \notin Over
        BY <1>1 DEF Over
    <1> QED
        BY <1>1, <1>2, QuietTyped, RequestEnds DEF Over

LEMMA DeletePopsDoes ==
    ASSUME BasicInv, NEW r \in Requests, DeletePops(r)
    PROVE  LET s == requests[r].session IN
           /\ BasicInv' /\ Moves(r) /\ requests'[r].pc = "rmtree" /\ requests[r].pc = "pop"
           /\ requests[r].kind = "delete" /\ s \in Sessions
           /\ memory'[s] = 0 /\ \A q \in Sessions : q # s => memory'[q] = memory[q]
           /\ requests'[r].object = requests[r].object /\ requests'[r].ctx = requests[r].ctx
           /\ requests'[r].engine = requests[r].engine
PROOF
    <1> DEFINE s == requests[r].session
    <1>1. /\ requests[r].pc = "pop" /\ requests' = Moved(r, "rmtree") /\ loop' = loop
          /\ memory' = [memory EXCEPT ![s] = 0]
          /\ objects' = objects /\ disk' = disk /\ active' = active
          /\ cache' = cache /\ folder' = folder /\ settings' = settings
        BY DEF DeletePops, Forgotten, engines
    <1>2. /\ requests[r].kind = "delete" /\ requests[r].pc \notin Over /\ s \in Sessions
        BY <1>1, KindsAt, AtHome DEF Over
    <1>3. "rmtree" \in Places(requests[r].kind) /\ "rmtree" \in AllPlaces
        BY <1>2, PlacesAre DEF AllPlaces
    <1>4. memory \in [Sessions -> Nat] /\ \A q \in Sessions : memory[q] \in 0 .. Len(objects)
          /\ Len(objects) \in Nat
        BY DEF BasicInv, WebTypes, PlaceInv
    <1>5. /\ memory' \in [Sessions -> Nat] /\ memory'[s] = 0
          /\ \A q \in Sessions : q # s => memory'[q] = memory[q]
          /\ \A q \in Sessions : memory'[q] \in 0 .. Len(objects)
        BY <1>1, <1>2, <1>4
    <1>6. OthersTyped
        BY <1>1, <1>5 DEF BasicInv, WebTypes, PlaceInv, OthersTyped
    <1> QED
        BY <1>1, <1>2, <1>3, <1>5, <1>6, PlaceChanges

LEMMA DeleteRemovesDoes ==
    ASSUME BasicInv, NEW r \in Requests, DeleteRemoves(r)
    PROVE  LET s == requests[r].session IN
           /\ BasicInv' /\ Moves(r) /\ requests'[r].pc = "answered" /\ requests[r].pc = "rmtree"
           /\ requests[r].kind = "delete" /\ s \in Sessions
           /\ disk'[s] = NoFile /\ \A q \in Sessions : q # s => disk'[q] = disk[q]
           /\ swept' \subseteq swept
PROOF
    <1> DEFINE s == requests[r].session
    <1>1. /\ requests[r].pc = "rmtree" /\ loop' = loop
          /\ requests' = [requests EXCEPT ![r] = Ended(@, "answered")] /\ swept' = swept \ {r}
          /\ folder' = [folder EXCEPT ![s] = FALSE]
          /\ disk' = [disk EXCEPT ![s] = NoFile]
          /\ objects' = objects /\ memory' = memory /\ active' = active
          /\ cache' = cache /\ settings' = settings
        BY DEF DeleteRemoves, End
    <1>2. /\ requests[r].kind = "delete" /\ requests[r].pc \notin Over /\ s \in Sessions
        BY <1>1, KindsAt, AtHome DEF Over
    <1>3. /\ disk \in [Sessions -> Objects \cup {NoFile}]
        BY DEF BasicInv, WebTypes
    <1>4. /\ disk' \in [Sessions -> Objects \cup {NoFile}] /\ disk'[s] = NoFile
          /\ \A q \in Sessions : q # s => disk'[q] = disk[q]
        BY <1>1, <1>2, <1>3
    <1>5. folder' \in [Sessions -> BOOLEAN]
        BY <1>1, FolderTyped DEF BasicInv
    <1>6. OthersTyped
        BY <1>1, <1>4, <1>5 DEF BasicInv, WebTypes, PlaceInv, OthersTyped
    <1> QED
        BY <1>1, <1>2, <1>4, <1>6, RequestEnds DEF Over

LEMMA ViewEntersDoes ==
    ASSUME BasicInv, NEW r \in Requests, ViewEnters(r)
    PROVE  LET s == requests[r].session IN
           /\ BasicInv' /\ Moves(r) /\ requests'[r].pc = "answered" /\ requests[r].pc = "enter"
           /\ requests[r].kind = "view" /\ s \in Sessions
           /\ memory'[s] = requests[r].object /\ \A q \in Sessions : q # s => memory'[q] = memory[q]
           /\ swept' \subseteq swept
PROOF
    <1> DEFINE s == requests[r].session
               o == requests[r].object
    <1>1. /\ requests[r].pc = "enter" /\ loop' = loop
          /\ requests' = [requests EXCEPT ![r] = Ended(@, "answered")] /\ swept' = swept \ {r}
          /\ memory' = [memory EXCEPT ![s] = o]
          /\ objects' = objects /\ disk' = disk /\ active' = active /\ folder' = folder
          /\ cache' = cache /\ settings' = settings
        BY DEF ViewEnters, End
    <1>2. /\ requests[r].kind = "view" /\ requests[r].pc \notin Over /\ s \in Sessions
        BY <1>1, KindsAt, AtHome DEF Over
    <1>3. o \in DOMAIN objects /\ objects \in Seq(Objects)
        BY <1>2 DEF BasicInv, WebTypes, PlaceInv, InFlight
    <1>4. /\ memory \in [Sessions -> Nat] /\ \A q \in Sessions : memory[q] \in 0 .. Len(objects)
          /\ o \in 0 .. Len(objects) /\ o \in Nat
        BY <1>3 DEF BasicInv, WebTypes, PlaceInv
    <1>5. /\ memory' \in [Sessions -> Nat] /\ memory'[s] = o
          /\ \A q \in Sessions : q # s => memory'[q] = memory[q]
          /\ \A q \in Sessions : memory'[q] \in 0 .. Len(objects)
        BY <1>1, <1>2, <1>4
    <1>6. OthersTyped
        BY <1>1, <1>5 DEF BasicInv, WebTypes, PlaceInv, OthersTyped
    <1> QED
        BY <1>1, <1>2, <1>5, <1>6, RequestEnds DEF Over

LEMMA ComputeUpdatesDoes ==
    ASSUME BasicInv, NEW r \in Requests, ComputeUpdates(r)
    PROVE  /\ BasicInv' /\ Moves(r) /\ requests'[r].pc = "sweep" /\ requests[r].pc = "env"
           /\ requests[r].kind = "compute" /\ settings' = settings + 1
           /\ requests'[r].object = requests[r].object /\ requests'[r].ctx = requests[r].ctx
           /\ requests'[r].engine = requests[r].engine
PROOF
    <1>1. /\ requests[r].pc = "env" /\ requests' = Moved(r, "sweep") /\ loop' = loop
          /\ settings' = settings + 1
          /\ objects' = objects /\ memory' = memory /\ disk' = disk /\ active' = active
          /\ cache' = cache /\ folder' = folder
        BY DEF ComputeUpdates, sessions
    <1>2. requests[r].kind = "compute" /\ requests[r].pc \notin Over
        BY <1>1, KindsAt DEF Over
    <1>3. "sweep" \in Places(requests[r].kind) /\ "sweep" \in AllPlaces
        BY <1>2, PlacesAre DEF AllPlaces
    <1>4. OthersTyped
        BY <1>1 DEF BasicInv, WebTypes, PlaceInv, OthersTyped
    <1> QED
        BY <1>1, <1>2, <1>3, <1>4, PlaceChanges

LEMMA ComputeSweepsDoes ==
    ASSUME BasicInv, NEW r \in Requests, ComputeSweeps(r)
    PROVE  /\ BasicInv' /\ Moves(r) /\ requests[r].pc = "sweep" /\ requests[r].kind = "compute"
           /\ \/ requests'[r].pc = "clear"
              \/ /\ requests'[r].pc = "failed"
                 /\ \E b \in Requests : requests[b].pc = "insert"
           /\ requests'[r].object = requests[r].object /\ requests'[r].ctx = requests[r].ctx
           /\ requests'[r].engine = requests[r].engine
PROOF
    <1>1. PICK pc \in {"clear", "failed"} :
             /\ requests' = Moved(r, pc)
             /\ pc = "failed" => \E b \in Requests : requests[b].pc = "insert"
        BY DEF ComputeSweeps
    <1>2. /\ requests[r].pc = "sweep" /\ loop' = loop
          /\ objects' = objects /\ memory' = memory /\ disk' = disk /\ active' = active
          /\ cache' = cache /\ folder' = folder /\ settings' = settings
        BY DEF ComputeSweeps, sessions
    <1>3. requests[r].kind = "compute" /\ requests[r].pc \notin Over
        BY <1>2, KindsAt DEF Over
    <1>4. pc \in Places(requests[r].kind) \cup Over /\ pc \in AllPlaces
        BY <1>3, PlacesAre DEF AllPlaces, Over
    <1> QED
        BY <1>1, <1>2, <1>3, <1>4, QuietTyped, PlaceChanges

LEMMA ComputeClearsDoes ==
    ASSUME BasicInv, NEW r \in Requests, ComputeClears(r)
    PROVE  /\ BasicInv' /\ Moves(r) /\ requests'[r].pc = "answered" /\ requests[r].pc = "clear"
           /\ requests[r].kind = "compute" /\ swept' \subseteq swept
           /\ \A s \in Sessions : cache'[s] = NoEngine
PROOF
    <1>1. /\ requests[r].pc = "clear" /\ loop' = loop
          /\ requests' = [requests EXCEPT ![r] = Ended(@, "answered")] /\ swept' = swept \ {r}
          /\ cache' = [s \in Sessions |-> NoEngine]
          /\ objects' = objects /\ memory' = memory /\ disk' = disk /\ active' = active
          /\ folder' = folder /\ settings' = settings
        BY DEF ComputeClears, Cleared, End, sessions
    <1>2. requests[r].kind = "compute" /\ requests[r].pc \notin Over
        BY <1>1, KindsAt DEF Over
    <1>3. OthersTyped
        BY <1>1 DEF BasicInv, WebTypes, PlaceInv, OthersTyped, NoEngine, EngineRecords
    <1> QED
        BY <1>1, <1>2, <1>3, RequestEnds DEF Over

\* The session is loaded: it is in memory, perhaps with a new object.
Loads(s) ==
    /\ s \in Sessions
    /\ memory'[s] = Held(s) /\ \A q \in Sessions : q # s => memory'[q] = memory[q]
    /\ objects' = Opened(s)

LEMMA LoadsTyped ==
    ASSUME BasicInv, NEW s \in Sessions, memory' = [memory EXCEPT ![s] = Held(s)],
           objects' = Opened(s)
    PROVE  /\ Loads(s) /\ Held(s) \in DOMAIN objects'
           /\ objects' \in Seq(Objects) /\ Len(objects) <= Len(objects')
           /\ memory' \in [Sessions -> Nat]
           /\ \A q \in Sessions : memory'[q] \in 0 .. Len(objects')
PROOF
    <1>1. /\ Opened(s) \in Seq(Objects) /\ Len(objects) <= Len(Opened(s))
          /\ Len(objects) \in Nat /\ Len(Opened(s)) \in Nat
          /\ DOMAIN Opened(s) = 1 .. Len(Opened(s)) /\ Held(s) \in DOMAIN Opened(s)
        BY OpenedIs
    <1>2. memory \in [Sessions -> Nat] /\ \A q \in Sessions : memory[q] \in 0 .. Len(objects)
        BY DEF BasicInv, WebTypes, PlaceInv
    <1>3. Held(s) \in Nat /\ Held(s) \in 0 .. Len(Opened(s))
        BY <1>1
    <1>4. memory'[s] = Held(s) /\ (\A q \in Sessions : q # s => memory'[q] = memory[q])
          /\ memory' \in [Sessions -> Nat]
        BY <1>2, <1>3
    <1>5. \A q \in Sessions : memory'[q] \in 0 .. Len(objects')
        BY <1>1, <1>2, <1>3, <1>4
    <1> QED
        BY <1>1, <1>4, <1>5 DEF Loads

\* A request that is refused at its first look, and nothing else.
LEMMA RefusalDoes ==
    ASSUME BasicInv, NEW kind \in Kinds, NEW s \in Sessions \cup {Everywhere},
           kind # "compute" => s \in Sessions,
           requests' = Append(requests, Refused(kind, s)), OthersTyped, loop' = loop
    PROVE  /\ BasicInv' /\ Comes(Arriving) /\ requests'[Arriving].pc = "refused"
           /\ requests'[Arriving].kind = kind /\ requests'[Arriving].session = s
PROOF
    <1>1. /\ Refused(kind, s) \in RequestRecords /\ Refused(kind, s).kind = kind
          /\ Refused(kind, s).session = s /\ Refused(kind, s).pc = "refused"
          /\ Refused(kind, s).peers = {} /\ Refused(kind, s).saves = 0
        BY NewIsTyped, SMTT(30) DEF AllPlaces, Over, BasicInv
    <1>2. Comes(Arriving) /\ requests'[Arriving] = Refused(kind, s)
        BY <1>1, OneArrives DEF BasicInv
    <1>3. "refused" \in Over
        BY DEF Over
    <1> QED
        BY <1>1, <1>2, <1>3, ComesKeepsBasics

\* A request that arrives with nothing yet.
LEMMA ArrivalDoes ==
    ASSUME BasicInv, NEW kind \in Kinds, NEW s \in Sessions \cup {Everywhere},
           kind # "compute" => s \in Sessions,
           NEW pc \in AllPlaces, pc \in Places(kind) \cup Over, pc # "save",
           kind \in TurnKinds \cup {"view"} => pc \in Over,
           requests' = Append(requests, New(kind, s, pc)), OthersTyped,
           loop # Nobody => loop' = loop
    PROVE  /\ BasicInv' /\ Comes(Arriving) /\ requests'[Arriving] = New(kind, s, pc)
           /\ requests'[Arriving].pc = pc
           /\ requests'[Arriving].kind = kind /\ requests'[Arriving].session = s
           /\ requests'[Arriving].peers = InFlight
           /\ requests'[Arriving].ctx = NoContext /\ requests'[Arriving].engine = NoEngine
PROOF
    <1>1. /\ New(kind, s, pc) \in RequestRecords
          /\ New(kind, s, pc).kind = kind /\ New(kind, s, pc).session = s
          /\ New(kind, s, pc).pc = pc /\ New(kind, s, pc).saves = 0
          /\ New(kind, s, pc).ctx = NoContext /\ New(kind, s, pc).engine = NoEngine
          /\ New(kind, s, pc).peers = InFlight
        BY NewIsTyped DEF BasicInv
    <1>2. Comes(Arriving) /\ requests'[Arriving] = New(kind, s, pc)
        BY <1>1, OneArrives DEF BasicInv
    <1> QED
        BY <1>1, <1>2, ComesKeepsBasics

\* A request that arrives with an object of the session.
LEMMA ArrivalWithObject ==
    ASSUME BasicInv, NEW rec \in RequestRecords, rec.session \in Sessions,
           rec.pc \in Places(rec.kind), rec.pc # "save", rec.object \in DOMAIN objects',
           rec.saves = 0, rec.peers = InFlight,
           requests' = Append(requests, rec), OthersTyped, loop' = loop
    PROVE  /\ BasicInv' /\ Comes(Arriving) /\ requests'[Arriving] = rec
PROOF
    <1>1. Comes(Arriving) /\ requests'[Arriving] = rec
        BY OneArrives DEF BasicInv
    <1> QED
        BY <1>1, ComesKeepsBasics

LEMMA StreamArrivesDoes ==
    ASSUME BasicInv, NEW s \in Sessions, StreamArrives(s)
    PROVE  /\ BasicInv' /\ Comes(Arriving)
           /\ requests'[Arriving].kind = "stream" /\ requests'[Arriving].session = s
           /\ \/ /\ requests'[Arriving].pc = "refused"
                 /\ objects' = objects /\ memory' = memory /\ active' = active
              \/ /\ requests'[Arriving].pc = "start" /\ active[s] = 0
                 /\ Loads(s) /\ requests'[Arriving].object = Held(s)
                 /\ requests'[Arriving].ctx = NoContext /\ requests'[Arriving].engine = NoEngine
                 /\ requests'[Arriving].peers = InFlight
                 /\ active'[s] = Arriving
                 /\ \A q \in Sessions : q # s => active'[q] = active[q]
PROOF
    <1>1. /\ disk' = disk /\ stopped' = stopped /\ engines' = engines /\ loop' = loop
          /\ cache' = cache /\ settings' = settings /\ "stream" \in Kinds
        BY DEF StreamArrives, engines, Kinds, KeptKinds, TurnKinds
    <1>2. CASE Busy(s)
        <2>1. /\ requests' = Append(requests, Refused("stream", s))
              /\ memory' = memory /\ objects' = objects /\ folder' = folder /\ active' = active
            BY <1>2 DEF StreamArrives
        <2> QED
            BY <1>1, <2>1, QuietTyped, RefusalDoes
    <1>3. CASE ~Busy(s)
        <2> DEFINE rec == [New("stream", s, "start") EXCEPT !.object = Held(s)]
        <2>1. /\ folder' = [folder EXCEPT ![s] = TRUE]
              /\ memory' = [memory EXCEPT ![s] = Held(s)]
              /\ objects' = Opened(s)
              /\ active' = [active EXCEPT ![s] = Arriving]
              /\ requests' = Append(requests, rec)
              /\ active[s] = 0
            BY <1>3, Zenon DEF StreamArrives, Busy
        <2>2. /\ Loads(s) /\ Held(s) \in DOMAIN objects'
              /\ objects' \in Seq(Objects) /\ Len(objects) <= Len(objects')
              /\ memory' \in [Sessions -> Nat]
              /\ \A q \in Sessions : memory'[q] \in 0 .. Len(objects')
            BY <2>1, LoadsTyped
        <2>3. /\ active' \in [Sessions -> Nat] /\ active'[s] = Arriving
              /\ \A q \in Sessions : q # s => active'[q] = active[q]
            BY <2>1, Typed DEF BasicInv, WebTypes, Arriving
        <2>4. folder' \in [Sessions -> BOOLEAN]
            BY <2>1, FolderTyped DEF BasicInv
        <2>5. OthersTyped
            BY <1>1, <2>2, <2>3, <2>4 DEF BasicInv, WebTypes, OthersTyped
        <2>6. "start" \in Places("stream") /\ "start" \in AllPlaces /\ NoContext \in Ctxs
            BY PlacesAre DEF AllPlaces, NoContext, Ctxs
        <2>7. /\ rec \in RequestRecords /\ rec.kind = "stream" /\ rec.session = s
              /\ rec.pc = "start" /\ rec.saves = 0 /\ rec.engine = NoEngine
              /\ rec.peers = InFlight /\ rec.object = Held(s) /\ rec.ctx = NoContext
            <3> DEFINE new == New("stream", s, "start")
            <3>1. /\ new \in RequestRecords /\ new.kind = "stream" /\ new.session = s
                  /\ new.pc = "start" /\ new.saves = 0 /\ new.engine = NoEngine
                  /\ new.peers = InFlight /\ new.ctx = NoContext
                BY <1>1, <2>6, NewIsTyped DEF BasicInv
            <3>2. rec = [new EXCEPT !.object = Held(s)] /\ Held(s) \in Nat
                BY <2>2
            <3> HIDE DEF new, rec
            <3> QED
                BY <3>1, <3>2 DEF RequestRecords
        <2> HIDE DEF rec
        <2>8. /\ BasicInv' /\ Comes(Arriving) /\ requests'[Arriving].pc = "start"
              /\ requests'[Arriving].kind = "stream" /\ requests'[Arriving].session = s
              /\ requests'[Arriving].peers = InFlight
              /\ requests'[Arriving].object = Held(s)
              /\ requests'[Arriving].ctx = NoContext /\ requests'[Arriving].engine = NoEngine
            BY <1>1, <2>1, <2>2, <2>5, <2>6, <2>7, ArrivalWithObject
        <2> QED
            BY <2>1, <2>2, <2>3, <2>8
    <1> QED
        BY <1>2, <1>3

LEMMA ChatArrivesDoes ==
    ASSUME BasicInv, NEW s \in Sessions, ChatArrives(s)
    PROVE  /\ BasicInv' /\ Comes(Arriving)
           /\ requests'[Arriving].kind = "chat" /\ requests'[Arriving].session = s
           /\ requests'[Arriving].pc = "plan" /\ requests'[Arriving].peers = InFlight
           /\ Loads(s) /\ requests'[Arriving].object = Held(s) /\ Held(s) \in DOMAIN objects'
           /\ requests'[Arriving].ctx = objects'[Held(s)].ctx
           /\ requests'[Arriving].engine = NoEngine
PROOF
    <1> DEFINE o == Held(s)
               rec == [New("chat", s, "plan") EXCEPT !.object = o, !.ctx = objects'[o].ctx]
    <1>1. /\ disk' = disk /\ loop' = loop /\ active' = active
          /\ cache' = cache /\ settings' = settings /\ "chat" \in Kinds
          /\ folder' = [folder EXCEPT ![s] = TRUE]
          /\ memory' = [memory EXCEPT ![s] = o]
          /\ objects' = Opened(s)
          /\ requests' = Append(requests, rec)
        BY DEF ChatArrives, engines, Kinds, KeptKinds, TurnKinds
    <1> HIDE DEF rec
    <1>2. /\ Loads(s) /\ o \in DOMAIN objects'
          /\ objects' \in Seq(Objects) /\ Len(objects) <= Len(objects')
          /\ memory' \in [Sessions -> Nat]
          /\ \A q \in Sessions : memory'[q] \in 0 .. Len(objects')
        BY <1>1, LoadsTyped
    <1>3. folder' \in [Sessions -> BOOLEAN]
        BY <1>1, FolderTyped DEF BasicInv
    <1>4. OthersTyped
        BY <1>1, <1>2, <1>3 DEF BasicInv, WebTypes, OthersTyped
    <1>5. "plan" \in Places("chat") /\ "plan" \in AllPlaces
        BY PlacesAre DEF AllPlaces
    <1>6. objects'[o].ctx \in Ctxs
        <2>1. objects'[o] \in Objects
            BY <1>2
        <2> QED
            BY <2>1 DEF Objects
    <1> DEFINE ctx == objects'[o].ctx
    <1>7. /\ rec \in RequestRecords /\ rec.kind = "chat" /\ rec.session = s
          /\ rec.pc = "plan" /\ rec.saves = 0 /\ rec.engine = NoEngine
          /\ rec.peers = InFlight /\ rec.object = o /\ rec.ctx = ctx
        <2> DEFINE new == New("chat", s, "plan")
        <2>1. /\ new \in RequestRecords /\ new.kind = "chat" /\ new.session = s
              /\ new.pc = "plan" /\ new.saves = 0 /\ new.engine = NoEngine
              /\ new.peers = InFlight
            BY <1>1, <1>5, NewIsTyped DEF BasicInv
        <2>2. rec = [new EXCEPT !.object = o, !.ctx = ctx] /\ o \in Nat /\ ctx \in Ctxs
            BY <1>2, <1>6 DEF rec
        <2> HIDE DEF new, ctx, o
        <2> QED
            BY <2>1, <2>2 DEF RequestRecords
    <1> HIDE DEF ctx, o
    <1>8. /\ BasicInv' /\ Comes(Arriving) /\ requests'[Arriving].pc = "plan"
          /\ requests'[Arriving].kind = "chat" /\ requests'[Arriving].session = s
          /\ requests'[Arriving].peers = InFlight
          /\ requests'[Arriving].object = o
          /\ requests'[Arriving].ctx = ctx /\ requests'[Arriving].engine = NoEngine
        BY <1>1, <1>2, <1>4, <1>5, <1>7, ArrivalWithObject
    <1> QED
        BY <1>1, <1>2, <1>8 DEF ctx, o

LEMMA TurnIsRejectedDoes ==
    ASSUME BasicInv, NEW s \in Sessions, TurnIsRejected(s)
    PROVE  /\ BasicInv' /\ Comes(Arriving)
           /\ requests'[Arriving].kind = "chat" /\ requests'[Arriving].session = s
           /\ requests'[Arriving].pc = "refused" /\ requests'[Arriving].peers = InFlight
           /\ Loads(s)
PROOF
    <1>1. /\ disk' = disk /\ loop' = loop /\ active' = active
          /\ cache' = cache /\ settings' = settings /\ "chat" \in Kinds
          /\ folder' = [folder EXCEPT ![s] = TRUE]
          /\ memory' = [memory EXCEPT ![s] = Held(s)]
          /\ objects' = Opened(s)
          /\ requests' = Append(requests, New("chat", s, "refused"))
        BY DEF TurnIsRejected, engines, Kinds, KeptKinds, TurnKinds
    <1>2. /\ Loads(s)
          /\ objects' \in Seq(Objects) /\ Len(objects) <= Len(objects')
          /\ memory' \in [Sessions -> Nat]
          /\ \A q \in Sessions : memory'[q] \in 0 .. Len(objects')
        BY <1>1, LoadsTyped
    <1>3. folder' \in [Sessions -> BOOLEAN]
        BY <1>1, FolderTyped DEF BasicInv
    <1>4. OthersTyped
        BY <1>1, <1>2, <1>3 DEF BasicInv, WebTypes, OthersTyped
    <1>5. "refused" \in Over /\ "refused" \in AllPlaces /\ "refused" # "save"
        BY DEF Over, AllPlaces
    <1> QED
        BY <1>1, <1>2, <1>4, <1>5, ArrivalDoes

LEMMA UploadArrivesDoes ==
    ASSUME BasicInv, NEW s \in Sessions, UploadArrives(s)
    PROVE  /\ BasicInv' /\ Comes(Arriving)
           /\ requests'[Arriving].kind = "upload" /\ requests'[Arriving].session = s
           /\ requests'[Arriving].pc = "read" /\ requests'[Arriving].peers = InFlight
           /\ requests'[Arriving].ctx = NoContext /\ requests'[Arriving].engine = NoEngine
PROOF
    <1>1. /\ disk' = disk /\ loop' = loop /\ active' = active /\ memory' = memory
          /\ objects' = objects /\ cache' = cache /\ settings' = settings /\ "upload" \in Kinds
          /\ folder' = [folder EXCEPT ![s] = TRUE]
          /\ requests' = Append(requests, New("upload", s, "read"))
        BY DEF UploadArrives, engines, Kinds, KeptKinds, TurnKinds
    <1>2. folder' \in [Sessions -> BOOLEAN]
        BY <1>1, FolderTyped DEF BasicInv
    <1>3. OthersTyped
        BY <1>1, <1>2 DEF BasicInv, WebTypes, PlaceInv, OthersTyped
    <1>4. "read" \in Places("upload") /\ "read" \in AllPlaces /\ "upload" \notin TurnKinds
        BY PlacesAre DEF AllPlaces, TurnKinds
    <1> QED
        BY <1>1, <1>3, <1>4, ArrivalDoes

LEMMA ActionArrivesDoes ==
    ASSUME BasicInv, NEW s \in Sessions, ActionArrives(s)
    PROVE  /\ BasicInv' /\ Comes(Arriving)
           /\ requests'[Arriving].kind = "action" /\ requests'[Arriving].session = s
           /\ \/ requests'[Arriving].pc = "refused"
              \/ /\ requests'[Arriving].pc = "lookup" /\ active[s] = 0
                 /\ requests'[Arriving].peers = InFlight
                 /\ requests'[Arriving].ctx = NoContext /\ requests'[Arriving].engine = NoEngine
PROOF
    <1>1. /\ disk' = disk /\ active' = active /\ memory' = memory
          /\ objects' = objects /\ cache' = cache /\ settings' = settings /\ folder' = folder
          /\ loop = Nobody /\ "action" \in Kinds
        BY DEF ActionArrives, engines, sessions, Kinds, KeptKinds, TurnKinds
    <1>2. CASE ~Busy(s) /\ requests' = Append(requests, New("action", s, "lookup"))
        <2>1. "lookup" \in Places("action") /\ "lookup" \in AllPlaces /\ "action" \notin TurnKinds
            BY PlacesAre DEF AllPlaces, TurnKinds, DrivePlaces
        <2> QED
            BY <1>1, <1>2, <2>1, QuietTyped, ArrivalDoes DEF Busy
    <1>3. CASE requests' = Append(requests, Refused("action", s)) /\ loop' = loop
        BY <1>1, <1>3, QuietTyped, RefusalDoes
    <1> QED
        BY <1>2, <1>3 DEF ActionArrives

LEMMA StopArrivesDoes ==
    ASSUME BasicInv, NEW s \in Sessions, StopArrives(s)
    PROVE  /\ BasicInv' /\ Comes(Arriving)
           /\ requests'[Arriving].kind = "stop" /\ requests'[Arriving].session = s
           /\ requests'[Arriving].pc \in Over
           /\ \/ swept' = swept
              \/ requests'[Arriving].peers = InFlight /\ swept' \subseteq swept \cup Drivers(Cached({s}))
PROOF
    <1>1. /\ disk' = disk /\ active' = active /\ memory' = memory
          /\ objects' = objects /\ cache' = cache /\ settings' = settings /\ folder' = folder
          /\ loop' = loop /\ "stop" \in Kinds
        BY DEF StopArrives, Kinds, KeptKinds, TurnKinds
    <1>2. CASE requests' = Append(requests, Refused("stop", s)) /\ swept' = swept
        BY <1>1, <1>2, QuietTyped, RefusalDoes DEF Over
    <1>3. CASE requests' = Append(requests, New("stop", s, "answered")) /\ Sweeps(Under(s))
        <2>1. "answered" \in Over /\ "answered" \in AllPlaces
            BY DEF Over, AllPlaces
        <2>2. swept' \subseteq swept \cup Drivers(Cached({s}))
            BY <1>3 DEF Sweeps, Under
        <2> QED
            BY <1>1, <1>3, <2>1, <2>2, QuietTyped, ArrivalDoes
    <1> QED
        BY <1>2, <1>3 DEF StopArrives

LEMMA DeleteArrivesDoes ==
    ASSUME BasicInv, NEW s \in Sessions, DeleteArrives(s)
    PROVE  /\ BasicInv' /\ Comes(Arriving)
           /\ requests'[Arriving].kind = "delete" /\ requests'[Arriving].session = s
           /\ \/ requests'[Arriving].pc = "refused"
              \/ /\ requests'[Arriving].pc = "pop" /\ requests'[Arriving].peers = InFlight
                 /\ requests'[Arriving].ctx = NoContext /\ requests'[Arriving].engine = NoEngine
PROOF
    <1>1. /\ disk' = disk /\ active' = active /\ memory' = memory
          /\ objects' = objects /\ cache' = cache /\ settings' = settings /\ folder' = folder
          /\ loop' = loop /\ "delete" \in Kinds
        BY DEF DeleteArrives, engines, sessions, Kinds, KeptKinds, TurnKinds
    <1>2. CASE requests' = Append(requests, Refused("delete", s))
        BY <1>1, <1>2, QuietTyped, RefusalDoes
    <1>3. CASE requests' = Append(requests, New("delete", s, "pop"))
        <2>1. "pop" \in Places("delete") /\ "pop" \in AllPlaces /\ "delete" \notin TurnKinds
            BY PlacesAre DEF AllPlaces, TurnKinds
        <2> QED
            BY <1>1, <1>3, <2>1, QuietTyped, ArrivalDoes
    <1> QED
        BY <1>2, <1>3 DEF DeleteArrives

LEMMA ComputeArrivesDoes ==
    ASSUME BasicInv, ComputeArrives
    PROVE  /\ BasicInv' /\ Comes(Arriving)
           /\ requests'[Arriving].kind = "compute" /\ requests'[Arriving].session = Everywhere
           /\ \/ requests'[Arriving].pc = "refused"
              \/ /\ requests'[Arriving].pc = "env" /\ ~AnyBusy
                 /\ requests'[Arriving].peers = InFlight
                 /\ requests'[Arriving].ctx = NoContext /\ requests'[Arriving].engine = NoEngine
PROOF
    <1>1. /\ disk' = disk /\ active' = active /\ memory' = memory
          /\ objects' = objects /\ cache' = cache /\ settings' = settings /\ folder' = folder
          /\ loop' = loop /\ "compute" \in Kinds
        BY DEF ComputeArrives, engines, sessions, Kinds, KeptKinds, TurnKinds
    <1>2. CASE requests' = Append(requests, Refused("compute", Everywhere))
        BY <1>1, <1>2, QuietTyped, RefusalDoes
    <1>3. CASE ~AnyBusy /\ requests' = Append(requests, New("compute", Everywhere, "env"))
        <2>1. "env" \in Places("compute") /\ "env" \in AllPlaces /\ "compute" \notin TurnKinds
            BY PlacesAre DEF AllPlaces, TurnKinds
        <2> QED
            BY <1>1, <1>3, <2>1, QuietTyped, ArrivalDoes
    <1> QED
        BY <1>2, <1>3 DEF ComputeArrives

LEMMA ViewArrivesDoes ==
    ASSUME BasicInv, NEW s \in Sessions, ViewArrives(s)
    PROVE  /\ BasicInv' /\ Comes(Arriving)
           /\ requests'[Arriving].kind = "view" /\ requests'[Arriving].session = s
           /\ requests'[Arriving].peers = InFlight /\ requests'[Arriving].engine = NoEngine
           /\ memory' = memory
           /\ \/ requests'[Arriving].pc = "answered" /\ objects' = objects
              \/ /\ requests'[Arriving].pc = "enter" /\ memory[s] = 0
                 /\ objects' = Opened(s) /\ requests'[Arriving].object = Held(s)
PROOF
    <1>1. /\ disk' = disk /\ active' = active /\ memory' = memory
          /\ cache' = cache /\ settings' = settings /\ folder' = folder
          /\ loop' = loop /\ "view" \in Kinds
        BY DEF ViewArrives, engines, Kinds, KeptKinds, TurnKinds
    <1>2. CASE memory[s] # 0
        <2>1. requests' = Append(requests, New("view", s, "answered")) /\ objects' = objects
            BY <1>2 DEF ViewArrives
        <2>2. "answered" \in Over /\ "answered" \in AllPlaces
            BY DEF Over, AllPlaces
        <2> QED
            BY <1>1, <2>1, <2>2, QuietTyped, ArrivalDoes
    <1>3. CASE memory[s] = 0
        <2> DEFINE rec == [New("view", s, "enter") EXCEPT !.object = Held(s)]
        <2>1. requests' = Append(requests, rec) /\ objects' = Opened(s)
            BY <1>3 DEF ViewArrives
        <2>2. /\ Opened(s) \in Seq(Objects) /\ Len(objects) <= Len(Opened(s))
              /\ Held(s) \in DOMAIN Opened(s) /\ Len(objects) \in Nat /\ Len(Opened(s)) \in Nat
            BY OpenedIs
        <2>3. OthersTyped
            BY <1>1, <2>1, <2>2 DEF BasicInv, WebTypes, PlaceInv, OthersTyped
        <2>4. "enter" \in Places("view") /\ "enter" \in AllPlaces /\ NoContext \in Ctxs
            BY PlacesAre DEF AllPlaces, NoContext, Ctxs
        <2>5. /\ rec \in RequestRecords /\ rec.kind = "view" /\ rec.session = s
              /\ rec.pc = "enter" /\ rec.saves = 0 /\ rec.engine = NoEngine
              /\ rec.peers = InFlight /\ rec.object = Held(s)
            <3> DEFINE new == New("view", s, "enter")
            <3>1. /\ new \in RequestRecords /\ new.kind = "view" /\ new.session = s
                  /\ new.pc = "enter" /\ new.saves = 0 /\ new.engine = NoEngine
                  /\ new.peers = InFlight
                BY <1>1, <2>4, NewIsTyped DEF BasicInv
            <3>2. rec = [new EXCEPT !.object = Held(s)] /\ Held(s) \in Nat
                BY <2>2
            <3> HIDE DEF new, rec
            <3> QED
                BY <3>1, <3>2 DEF RequestRecords
        <2> HIDE DEF rec
        <2>6. /\ BasicInv' /\ Comes(Arriving) /\ requests'[Arriving].pc = "enter"
              /\ requests'[Arriving].kind = "view" /\ requests'[Arriving].session = s
              /\ requests'[Arriving].peers = InFlight
              /\ requests'[Arriving].object = Held(s) /\ requests'[Arriving].engine = NoEngine
            BY <1>1, <2>1, <2>2, <2>3, <2>4, <2>5, ArrivalWithObject
        <2> QED
            BY <1>1, <1>3, <2>1, <2>6
    <1> QED
        BY <1>2, <1>3

\* Nothing is in flight after a restart.
LEMMA RestartDoes ==
    ASSUME BasicInv, Restart
    PROVE  /\ BasicInv' /\ Onward /\ Requests' = Requests
           /\ \A r \in Requests :
                 /\ requests'[r].pc \in Over
                 /\ requests'[r].pc = requests[r].pc \/ requests'[r].pc = "lost"
           /\ \A s \in Sessions : memory'[s] = 0 /\ active'[s] = 0 /\ cache'[s] = NoEngine
           /\ objects' = <<>> /\ disk' = disk /\ swept' = {} /\ settings' = settings
PROOF
    <1>1. /\ requests' = [r \in Requests |-> IF r \in InFlight
                                             THEN Ended(requests[r], "lost")
                                             ELSE requests[r]]
          /\ memory' = [s \in Sessions |-> 0] /\ objects' = <<>>
          /\ active' = [s \in Sessions |-> 0] /\ cache' = [s \in Sessions |-> NoEngine]
          /\ swept' = {} /\ loop' = Nobody
          /\ disk' = disk /\ folder' = folder /\ settings' = settings
        BY DEF Restart
    <1>2. /\ Requests = 1 .. Len(requests) /\ Len(requests) \in Nat
          /\ \A r \in Requests : requests[r] \in RequestRecords /\ requests[r].pc \in AllPlaces
        BY Typed DEF BasicInv
    <1>3. Requests' = Requests
        BY <1>1 DEF Requests
    <1>4. \A r \in Requests :
             /\ requests'[r] \in RequestRecords
             /\ requests'[r].kind = requests[r].kind
             /\ requests'[r].session = requests[r].session
             /\ requests'[r].peers = requests[r].peers
             /\ requests[r].pc \in Over => requests'[r] = requests[r]
             /\ requests[r].pc \notin Over =>
                   requests'[r].pc = "lost" /\ requests'[r].saves = 0
        <2> SUFFICES ASSUME NEW r \in Requests
                     PROVE  /\ requests'[r] \in RequestRecords
                            /\ requests'[r].kind = requests[r].kind
                            /\ requests'[r].session = requests[r].session
                            /\ requests'[r].peers = requests[r].peers
                            /\ requests[r].pc \in Over => requests'[r] = requests[r]
                            /\ requests[r].pc \notin Over =>
                                  requests'[r].pc = "lost" /\ requests'[r].saves = 0
            OBVIOUS
        <2>1. CASE requests[r].pc \in Over
            BY <1>1, <1>2, <2>1 DEF InFlight
        <2>2. CASE requests[r].pc \notin Over
            <3>1. requests'[r] = Ended(requests[r], "lost")
                BY <1>1, <2>2 DEF InFlight
            <3>2. /\ NoContext \in Ctxs /\ NoEngine \in EngineRecords /\ "lost" \in AllPlaces
                  /\ requests[r] \in RequestRecords
                BY <1>2 DEF NoContext, NoEngine, Ctxs, EngineRecords, AllPlaces, Over
            <3> DEFINE rec == Ended(requests[r], "lost")
            <3>3. /\ rec \in RequestRecords /\ rec.kind = requests[r].kind
                  /\ rec.session = requests[r].session /\ rec.peers = requests[r].peers
                  /\ rec.pc = "lost" /\ rec.saves = 0
                BY <3>2 DEF Ended, RequestRecords
            <3>4. requests'[r] = rec
                BY <3>1
            <3> HIDE DEF rec
            <3> QED
                BY <2>2, <3>3, <3>4
        <2> QED
            BY <2>1, <2>2
    <1>5. requests' \in Seq(RequestRecords) /\ Len(requests') = Len(requests)
        <2>1. DOMAIN requests' = 1 .. Len(requests)
            BY <1>2, <1>3 DEF Requests
        <2>2. \A r \in 1 .. Len(requests) : requests'[r] \in RequestRecords
            BY <1>2, <1>4
        <2>3. requests' = [r \in 1 .. Len(requests) |-> requests'[r]]
            BY <1>1, <1>2
        <2>4. requests' \in [1 .. Len(requests) -> RequestRecords]
            BY <2>2, <2>3, Zenon
        <2> QED
            BY <1>2, <2>4
    <1>6. \A r \in Requests : requests'[r].pc \in Over
                              /\ (requests'[r].pc = requests[r].pc \/ requests'[r].pc = "lost")
        BY <1>4 DEF Over
    <1>7. Onward
        BY <1>3, <1>4 DEF Onward
    <1>8. WebTypes'
        <2>1. NoEngine \in EngineRecords
            BY DEF NoEngine, EngineRecords
        <2>2. /\ objects' \in Seq(Objects) /\ memory' \in [Sessions -> Nat]
              /\ active' \in [Sessions -> Nat] /\ cache' \in [Sessions -> EngineRecords]
            BY <1>1, <2>1
        <2> QED
            BY <1>1, <1>5, <2>2 DEF BasicInv, WebTypes
    <1>9. PlaceInv'
        <2>1. \A r \in Requests : requests'[r].saves = 0 /\ 0 \in 0 .. Len(objects')
            <3>1. Len(objects') = 0
                BY <1>1
            <3>2. ASSUME NEW r \in Requests, requests[r].pc \in Over
                  PROVE  requests'[r].saves = 0
                BY <1>4, <3>2 DEF BasicInv, PlaceInv, Over
            <3> QED
                BY <1>4, <3>1, <3>2
        <2> QED
            BY <1>1, <1>3, <1>4, <1>6, <2>1 DEF BasicInv, PlaceInv, InFlight
    <1>10. PeersInv'
        BY <1>3, <1>4, <1>6 DEF BasicInv, PeersInv, InFlight, Over
    <1> QED
        BY <1>1, <1>3, <1>6, <1>7, <1>8, <1>9, <1>10 DEF BasicInv

-----------------------------------------------------------------------------
(* Three groups of steps *)

\* The graph steps and the change of the compute settings leave the session
\* store alone ...
DriveSteps(r) ==
    \/ StepBegins(r) \/ Lookup(r) \/ Pick(r) \/ Insert(r) \/ Fetch(r) \/ DriveEnds(r)
    \/ ComputeUpdates(r) \/ ComputeSweeps(r) \/ ComputeClears(r)

\* ... the others the engine cache ...
StoreSteps(r) ==
    \/ WorkerStarts(r) \/ TurnReturns(r) \/ TurnFails(r) \/ SaveEnds(r)
    \/ UploadStores(r) \/ UploadFails(r)
    \/ DeletePops(r) \/ DeleteRemoves(r) \/ ViewEnters(r)

\* ... and an arrival what is on disk, too.
Arrivals == ComputeArrives \/ \E s \in Sessions : Arrives(s)

EnginePlaces == {"plan", "step", "env", "sweep", "clear"} \cup DrivePlaces

Drives(r) ==
    /\ Moves(r)
    /\ requests[r].pc \in EnginePlaces
    /\ requests'[r].pc \in EnginePlaces \cup {"answered", "failed"}
    /\ requests[r].kind \in TurnKinds => requests'[r].pc \notin Over
    /\ requests'[r].pc \notin Over =>
          requests'[r].object = requests[r].object /\ requests'[r].ctx = requests[r].ctx
    /\ memory' = memory /\ objects' = objects /\ disk' = disk /\ active' = active

Stores(r) ==
    /\ Moves(r)
    /\ requests[r].pc \notin DrivePlaces /\ requests'[r].pc \notin DrivePlaces \cup {"refused"}
    /\ requests[r].kind \notin {"action", "compute"}
    /\ requests'[r].pc \notin Over =>
          requests'[r].engine = requests[r].engine /\ requests'[r].object = requests[r].object
    /\ cache' = cache /\ settings' = settings /\ swept' \subseteq swept

Comings ==
    /\ Comes(Arriving)
    /\ requests'[Arriving].pc \notin (DrivePlaces \ {"lookup"}) \cup {"save", "rmtree", "sweep", "clear"}
    /\ requests'[Arriving].pc = "answered" => requests'[Arriving].kind \in {"stop", "view"}
    /\ requests'[Arriving].pc \notin Over => requests'[Arriving].engine = NoEngine
    /\ cache' = cache /\ settings' = settings /\ disk' = disk

LEMMA NextIs ==
    ASSUME Next
    PROVE  \/ \E r \in Requests : DriveSteps(r)
           \/ \E r \in Requests : StoreSteps(r)
           \/ Arrivals
           \/ Restart
PROOF
    BY Zenon DEF Next, Goes, DriveSteps, StoreSteps, Arrivals

LEMMA DriveStepsDo ==
    ASSUME BasicInv, NEW r \in Requests, DriveSteps(r)
    PROVE  BasicInv' /\ Drives(r)
PROOF
    <1>1. memory' = memory /\ objects' = objects /\ disk' = disk /\ active' = active
        BY DEF DriveSteps, StepBegins, Lookup, Pick, Insert, Fetch, DriveEnds, ComputeUpdates,
               ComputeSweeps, ComputeClears, sessions
    <1>2. "compute" \notin TurnKinds /\ "action" \notin TurnKinds
        BY DEF TurnKinds
    <1>3. CASE StepBegins(r)
        BY <1>1, <1>3, StepBeginsDoes DEF Drives, EnginePlaces, DrivePlaces, Over
    <1>4. CASE Lookup(r)
        BY <1>1, <1>4, LookupDoes DEF Drives, EnginePlaces, DrivePlaces, Over
    <1>5. CASE Pick(r)
        BY <1>1, <1>5, PickDoes DEF Drives, EnginePlaces, DrivePlaces, Over
    <1>6. CASE Insert(r)
        BY <1>1, <1>6, InsertDoes DEF Drives, EnginePlaces, DrivePlaces, Over
    <1>7. CASE Fetch(r)
        BY <1>1, <1>2, <1>7, FetchDoes DEF Drives, EnginePlaces, DrivePlaces, Over
    <1>8. CASE DriveEnds(r)
        BY <1>1, <1>2, <1>8, DriveEndsDoes DEF Drives, EnginePlaces, DrivePlaces, Over
    <1>9. CASE ComputeUpdates(r)
        BY <1>1, <1>2, <1>9, ComputeUpdatesDoes DEF Drives, EnginePlaces, DrivePlaces, Over
    <1>10. CASE ComputeSweeps(r)
        BY <1>1, <1>2, <1>10, ComputeSweepsDoes DEF Drives, EnginePlaces, DrivePlaces, Over
    <1>11. CASE ComputeClears(r)
        BY <1>1, <1>2, <1>11, ComputeClearsDoes DEF Drives, EnginePlaces, DrivePlaces, Over
    <1> QED
        BY <1>3, <1>4, <1>5, <1>6, <1>7, <1>8, <1>9, <1>10, <1>11 DEF DriveSteps

LEMMA StoreStepsDo ==
    ASSUME BasicInv, NEW r \in Requests, StoreSteps(r)
    PROVE  BasicInv' /\ Stores(r)
PROOF
    <1>1. cache' = cache /\ settings' = settings
        BY DEF StoreSteps, WorkerStarts, TurnReturns, TurnFails, SaveEnds, UploadStores,
               UploadFails, DeletePops, DeleteRemoves, ViewEnters, engines
    <1>2. "compute" \notin KeptKinds /\ "action" \notin KeptKinds /\ TurnKinds \subseteq KeptKinds
          /\ "upload" \in KeptKinds /\ "stream" \in KeptKinds
        BY DEF TurnKinds, KeptKinds
    <1>3. CASE WorkerStarts(r)
        <2>1. requests[r].pc = "start" /\ swept' = swept
            BY <1>3 DEF WorkerStarts, engines
        <2> QED
            BY <1>1, <1>3, <2>1, WorkerStartsDoes DEF Stores, DrivePlaces, Over
    <1>4. CASE TurnReturns(r)
        <2>1. swept' = swept
            BY <1>4 DEF TurnReturns, engines
        <2> QED
            BY <1>1, <1>2, <1>4, <2>1, TurnReturnsDoes DEF Stores, DrivePlaces, Over
    <1>5. CASE TurnFails(r)
        BY <1>1, <1>2, <1>5, TurnFailsDoes DEF Stores, DrivePlaces, Over
    <1>6. CASE SaveEnds(r)
        BY <1>1, <1>2, <1>6, SaveEndsDoes DEF Stores, DrivePlaces, Over
    <1>7. CASE UploadStores(r)
        <2>1. swept' = swept
            BY <1>7 DEF UploadStores, engines
        <2> QED
            BY <1>1, <1>2, <1>7, <2>1, UploadStoresDoes DEF Stores, DrivePlaces, Over
    <1>8. CASE UploadFails(r)
        BY <1>1, <1>2, <1>8, UploadFailsDoes DEF Stores, DrivePlaces, Over
    <1>9. CASE DeletePops(r)
        <2>1. swept' = swept
            BY <1>9 DEF DeletePops, engines
        <2> QED
            BY <1>1, <1>9, <2>1, DeletePopsDoes DEF Stores, DrivePlaces, Over
    <1>10. CASE DeleteRemoves(r)
        BY <1>1, <1>10, DeleteRemovesDoes DEF Stores, DrivePlaces, Over
    <1>11. CASE ViewEnters(r)
        BY <1>1, <1>11, ViewEntersDoes DEF Stores, DrivePlaces, Over
    <1> QED
        BY <1>3, <1>4, <1>5, <1>6, <1>7, <1>8, <1>9, <1>10, <1>11 DEF StoreSteps

LEMMA ArrivalsDo ==
    ASSUME BasicInv, Arrivals
    PROVE  BasicInv' /\ Comings
PROOF
    <1>1. cache' = cache /\ settings' = settings /\ disk' = disk
        BY DEF Arrivals, Arrives, StreamArrives, ChatArrives, TurnIsRejected, UploadArrives,
               ActionArrives, StopArrives, DeleteArrives, ViewArrives, ComputeArrives,
               sessions, engines
    <1> DEFINE Done == BasicInv' /\ Comings
    <1>2. ASSUME NEW s \in Sessions, Arrives(s)
          PROVE  Done
        <2>1. CASE StreamArrives(s)
            BY <1>1, <2>1, StreamArrivesDoes DEF Comings, DrivePlaces, Over
        <2>2. CASE ChatArrives(s)
            BY <1>1, <2>2, ChatArrivesDoes DEF Comings, DrivePlaces, Over
        <2>3. CASE TurnIsRejected(s)
            BY <1>1, <2>3, TurnIsRejectedDoes DEF Comings, DrivePlaces, Over
        <2>4. CASE UploadArrives(s)
            BY <1>1, <2>4, UploadArrivesDoes DEF Comings, DrivePlaces, Over
        <2>5. CASE ActionArrives(s)
            BY <1>1, <2>5, ActionArrivesDoes DEF Comings, DrivePlaces, Over
        <2>6. CASE StopArrives(s)
            BY <1>1, <2>6, StopArrivesDoes DEF Comings, DrivePlaces, Over
        <2>7. CASE DeleteArrives(s)
            BY <1>1, <2>7, DeleteArrivesDoes DEF Comings, DrivePlaces, Over
        <2>8. CASE ViewArrives(s)
            BY <1>1, <2>8, ViewArrivesDoes DEF Comings, DrivePlaces, Over
        <2> QED
            BY <1>2, <2>1, <2>2, <2>3, <2>4, <2>5, <2>6, <2>7, <2>8 DEF Arrives
    <1>3. CASE ComputeArrives
        BY <1>1, <1>3, ComputeArrivesDoes DEF Comings, DrivePlaces, Over
    <1> QED
        BY <1>2, <1>3 DEF Arrivals

\* A request that was not refused never will be.
Firm == \A r \in Requests : requests[r].pc # "refused" => requests'[r].pc # "refused"

LEMMA EveryStep ==
    ASSUME BasicInv, [Next]_vars
    PROVE  BasicInv' /\ Onward /\ Firm
PROOF
    <1>1. CASE UNCHANGED vars
        <2>1. requests' = requests /\ Requests' = Requests
            BY <1>1 DEF vars, Requests
        <2>2. Onward /\ Firm
            BY <2>1 DEF Onward, Firm
        <2>3. BasicInv'
            BY <1>1, <2>1 DEF vars, sessions, engines, BasicInv, WebTypes, PlaceInv, PeersInv, InFlight
        <2> QED
            BY <2>2, <2>3
    <1>2. ASSUME NEW r \in Requests, DriveSteps(r)
          PROVE  BasicInv' /\ Onward /\ Firm
        BY <1>2, DriveStepsDo DEF Drives, Moves, Firm, EnginePlaces, DrivePlaces
    <1>3. ASSUME NEW r \in Requests, StoreSteps(r)
          PROVE  BasicInv' /\ Onward /\ Firm
        BY <1>3, StoreStepsDo DEF Stores, Moves, Firm
    <1>4. CASE Arrivals
        BY <1>4, ArrivalsDo DEF Comings, Comes, Firm
    <1>5. CASE Restart
        BY <1>5, RestartDoes DEF Firm
    <1> QED
        BY <1>1, <1>2, <1>3, <1>4, <1>5, NextIs

\* What is known of requests stays known.
LEMMA Persists ==
    ASSUME Onward, Firm
    PROVE  /\ \A a, b \in Requests : (Overlap(a, b)' <=> Overlap(a, b)) /\ (Same(a, b)' <=> Same(a, b))
           /\ \A r \in Requests :
                 /\ r \in Requests'
                 /\ requests'[r].kind = requests[r].kind /\ requests'[r].session = requests[r].session
                 /\ r \in InFlight' => r \in InFlight
                 /\ r \in Streams' <=> r \in Streams
                 /\ r \in Chats' <=> r \in Chats
                 /\ r \in Turns' <=> r \in Turns
                 /\ r \in Uploads' <=> r \in Uploads
                 /\ r \in Views' <=> r \in Views
                 /\ r \in Actions' <=> r \in Actions
                 /\ r \in Deletes' <=> r \in Deletes
                 /\ r \in Answered => r \in Answered'
PROOF
    <1>1. \A r \in Requests :
             /\ r \in Requests'
             /\ requests'[r].kind = requests[r].kind /\ requests'[r].session = requests[r].session
             /\ requests'[r].peers = requests[r].peers
             /\ requests[r].pc \in Over => requests'[r].pc = requests[r].pc
             /\ requests[r].pc # "refused" => requests'[r].pc # "refused"
        BY DEF Onward, Firm
    <1>2. \A a, b \in Requests : (Overlap(a, b)' <=> Overlap(a, b)) /\ (Same(a, b)' <=> Same(a, b))
        BY <1>1 DEF Overlap, Same
    <1>3. \A r \in Requests : /\ r \in InFlight' => r \in InFlight
                              /\ r \in Deletes' <=> r \in Deletes
                              /\ r \in Answered => r \in Answered'
        BY <1>1 DEF InFlight, Deletes, Answered, Over
    <1>4. \A r \in Requests : /\ r \in Streams' <=> r \in Streams
                              /\ r \in Chats' <=> r \in Chats
                              /\ r \in Uploads' <=> r \in Uploads
                              /\ r \in Views' <=> r \in Views
                              /\ r \in Actions' <=> r \in Actions
        BY <1>1 DEF Streams, Chats, Uploads, Views, Actions
    <1> QED
        BY <1>1, <1>2, <1>3, <1>4 DEF Turns

-----------------------------------------------------------------------------
(* The registry of running streams *)

\* EntryIsLive, request by request.
LiveInv ==
    /\ \A r \in Streams \cap InFlight : active[requests[r].session] = r
    /\ \A s \in Sessions :
          active[s] # 0 =>
              active[s] \in Streams \cap InFlight /\ requests[active[s]].session = s

LEMMA LiveIsLive ==
    ASSUME BasicInv, LiveInv
    PROVE  EntryIsLive
PROOF
    <1> SUFFICES ASSUME NEW s \in Sessions
                 PROVE  {r \in Streams \cap InFlight : requests[r].session = s}
                           = {active[s]} \ {0}
        BY DEF EntryIsLive
    <1>1. \A r \in Streams \cap InFlight : r # 0
        BY Typed DEF BasicInv, InFlight
    <1> QED
        BY <1>1 DEF LiveInv

\* A move that ends no stream and leaves the registry alone.
LEMMA LiveMoves ==
    ASSUME LiveInv, NEW r, Moves(r), active' = active,
           requests[r].kind = "stream" => requests'[r].pc \notin Over
    PROVE  LiveInv'
PROOF
    <1>1. \A q \in Requests :
             /\ q \in Requests' /\ (q \in Streams' <=> q \in Streams)
             /\ requests'[q].session = requests[q].session
             /\ q \in Streams => (q \in InFlight' <=> q \in InFlight)
        BY DEF Moves, Onward, Streams, InFlight
    <1>2. Requests' = Requests /\ Streams \subseteq Requests /\ Streams' \subseteq Requests'
        BY DEF Moves, Streams
    <1> QED
        BY <1>1, <1>2 DEF LiveInv

LEMMA LiveCloses ==
    ASSUME BasicInv, LiveInv, NEW r \in Requests, Moves(r), requests'[r].pc \in Over, Closes(r)
    PROVE  LiveInv'
PROOF
    <1>1. requests[r].pc \notin Over
        BY DEF Moves
    <1>2. CASE requests[r].kind # "stream"
        BY <1>1, <1>2, ClosesDoes, LiveMoves
    <1>3. CASE requests[r].kind = "stream"
        <2> DEFINE s == requests[r].session
        <2>1. /\ s \in Sessions /\ active'[s] = 0
              /\ \A q \in Sessions : q # s => active'[q] = active[q]
            BY <1>1, <1>3, ClosesDoes
        <2>2. \A q \in Requests :
                 /\ q \in Requests' /\ (q \in Streams' <=> q \in Streams)
                 /\ requests'[q].session = requests[q].session
                 /\ q # r => (q \in InFlight' <=> q \in InFlight)
            BY DEF Moves, Onward, Streams, InFlight
        <2>3. Requests' = Requests /\ Streams \subseteq Requests /\ Streams' \subseteq Requests'
              /\ r \notin InFlight' /\ r \in Streams \cap InFlight
            BY <1>1, <1>3 DEF Moves, Streams, InFlight
        <2>4. \A q \in Streams : requests[q].session \in Sessions
            BY AtHome DEF Streams
        <2> QED
            BY <2>1, <2>2, <2>3, <2>4 DEF LiveInv
    <1> QED
        BY <1>2, <1>3

LEMMA LiveArrivals ==
    ASSUME BasicInv, LiveInv, Arrivals
    PROVE  LiveInv'
PROOF
    <1>1. /\ Requests' = Requests \cup {Arriving} /\ Arriving \notin Requests
          /\ \A q \in Requests : requests'[q] = requests[q]
        BY ArrivalsDo DEF Comings, Comes
    <1>2. \A q \in Requests : (q \in Streams' <=> q \in Streams) /\ (q \in InFlight' <=> q \in InFlight)
        BY <1>1 DEF Streams, InFlight
    <1>3. /\ Streams \subseteq Requests /\ Streams' \subseteq Requests'
          /\ \A q \in Streams : requests[q].session \in Sessions
        BY AtHome DEF Streams
    <1>4. CASE active' = active /\ Arriving \notin Streams' \cap InFlight'
        BY <1>1, <1>2, <1>3, <1>4 DEF LiveInv
    <1>5. ASSUME NEW s \in Sessions, StreamArrives(s)
          PROVE  LiveInv'
        <2>1. CASE requests'[Arriving].pc = "refused" /\ active' = active
            BY <1>4, <2>1 DEF InFlight, Over
        <2>2. CASE /\ requests'[Arriving].pc = "start" /\ active[s] = 0
                   /\ active'[s] = Arriving
                   /\ \A q \in Sessions : q # s => active'[q] = active[q]
            <3>1. requests'[Arriving].kind = "stream" /\ requests'[Arriving].session = s
                BY <1>5, StreamArrivesDoes
            <3>2. Arriving \in Streams' \cap InFlight'
                BY <1>1, <2>2, <3>1 DEF Streams, InFlight, Over
            <3>3. \A q \in Streams \cap InFlight : requests[q].session # s
                BY <1>3, <2>2, Typed DEF LiveInv, BasicInv, Streams
            <3> QED
                BY <1>1, <1>2, <1>3, <2>2, <3>1, <3>2, <3>3 DEF LiveInv
        <2> QED
            BY <1>5, <2>1, <2>2, StreamArrivesDoes
    <1>6. ASSUME NEW s \in Sessions, Arrives(s), ~StreamArrives(s)
          PROVE  active' = active /\ Arriving \notin Streams'
        <2>1. active' = active
            BY <1>6 DEF Arrives, ChatArrives, TurnIsRejected, UploadArrives, ActionArrives,
                        StopArrives, DeleteArrives, ViewArrives, sessions
        <2>2. requests'[Arriving].kind # "stream"
            BY <1>6, ChatArrivesDoes, TurnIsRejectedDoes, UploadArrivesDoes, ActionArrivesDoes,
               StopArrivesDoes, DeleteArrivesDoes, ViewArrivesDoes DEF Arrives
        <2> QED
            BY <2>1, <2>2 DEF Streams
    <1>7. CASE ComputeArrives
        BY <1>4, <1>7, ComputeArrivesDoes DEF ComputeArrives, sessions, Streams
    <1> QED
        BY <1>4, <1>5, <1>6, <1>7 DEF Arrivals

LEMMA LiveStep ==
    ASSUME BasicInv, LiveInv, [Next]_vars
    PROVE  LiveInv'
PROOF
    <1>1. CASE UNCHANGED vars
        BY <1>1 DEF vars, sessions, LiveInv, Streams, InFlight, Requests
    <1>2. ASSUME NEW r \in Requests, DriveSteps(r)
          PROVE  LiveInv'
        BY <1>2, DriveStepsDo, LiveMoves DEF Drives, TurnKinds
    <1>3. ASSUME NEW r \in Requests, StoreSteps(r)
          PROVE  LiveInv'
        <2>1. Moves(r)
            BY <1>3, StoreStepsDo DEF Stores
        <2>2. CASE TurnFails(r)
            BY <2>1, <2>2, TurnFailsDoes, LiveCloses DEF Over
        <2>3. CASE SaveEnds(r)
            BY <2>1, <2>3, SaveEndsDoes, LiveCloses DEF Over
        <2>4. CASE WorkerStarts(r) \/ TurnReturns(r)
            BY <2>1, <2>4, WorkerStartsDoes, TurnReturnsDoes, LiveMoves
               DEF WorkerStarts, TurnReturns, Over
        <2>5. CASE UploadStores(r) \/ UploadFails(r)
            BY <2>1, <2>5, LiveMoves DEF UploadStores, UploadFails, sessions
        <2>6. CASE DeletePops(r) \/ DeleteRemoves(r) \/ ViewEnters(r)
            BY <2>1, <2>6, DeletePopsDoes, DeleteRemovesDoes, ViewEntersDoes, LiveMoves
               DEF DeletePops, DeleteRemoves, ViewEnters
        <2> QED
            BY <1>3, <2>2, <2>3, <2>4, <2>5, <2>6 DEF StoreSteps
    <1>4. CASE Arrivals
        BY <1>4, LiveArrivals
    <1>5. CASE Restart
        BY <1>5, RestartDoes DEF LiveInv, InFlight
    <1> QED
        BY <1>1, <1>2, <1>3, <1>4, <1>5, NextIs

\* No stream is in flight where none is registered.
LEMMA GuardStep ==
    ASSUME BasicInv, LiveInv, GuardInv, [Next]_vars
    PROVE  GuardInv'
PROOF
    <1>1. Onward /\ Firm
        BY EveryStep
    <1>2. \A a, b \in Requests : a \in InFlight' /\ b \in InFlight' =>
             /\ a < b /\ a \in Streams' /\ Same(a, b)' => b \notin (Streams \cup Actions)'
             /\ a < b /\ a \in Streams' => requests'[b].kind # "compute"
        BY <1>1, Persists DEF GuardInv
    <1>3. CASE Requests' = Requests
        BY <1>2, <1>3 DEF GuardInv, InFlight
    <1>4. CASE Arrivals
        <2>1. /\ Requests' = Requests \cup {Arriving} /\ Arriving \notin Requests
              /\ \A q \in Requests : requests'[q] = requests[q] /\ q < Arriving
            BY <1>4, ArrivalsDo, Typed DEF Comings, Comes, Arriving, BasicInv
        <2>2. /\ \A s \in Sessions : Arrives(s) => requests'[Arriving].session = s
              /\ \A s \in Sessions :
                    Arrives(s) /\ requests'[Arriving].kind \in {"stream", "action"}
                      => requests'[Arriving].pc \in Over \/ active[s] = 0
              /\ \A s \in Sessions : Arrives(s) => requests'[Arriving].kind # "compute"
            BY StreamArrivesDoes, ChatArrivesDoes, TurnIsRejectedDoes, UploadArrivesDoes,
               ActionArrivesDoes, StopArrivesDoes, DeleteArrivesDoes, ViewArrivesDoes
               DEF Arrives, Over
        <2>3. ComputeArrives =>
                 /\ requests'[Arriving].pc \in Over \/ ~AnyBusy
                 /\ requests'[Arriving].kind = "compute"
            BY ComputeArrivesDoes DEF Over
        <2>0. PICK n : n = Arriving
            OBVIOUS
        <2>4. ASSUME NEW a \in InFlight', n \in InFlight', a \in Requests, a \in Streams'
              PROVE  /\ Same(a, n)' => n \notin (Streams \cup Actions)'
                     /\ requests'[n].kind # "compute"
            <3>1. /\ a \in Streams \cap InFlight /\ requests'[a].session = requests[a].session
                  /\ requests[a].session \in Sessions /\ a # 0
                BY <1>1, <2>1, <2>4, Persists, AtHome, Typed DEF Streams, BasicInv
            <3>2. active[requests[a].session] = a
                BY <3>1 DEF LiveInv
            <3>3. requests'[n].pc \notin Over
                BY <2>4 DEF InFlight
            <3>4. ~ComputeArrives
                BY <2>0, <2>3, <3>1, <3>2, <3>3 DEF AnyBusy
            <3>5. PICK s \in Sessions : Arrives(s)
                BY <1>4, <3>4 DEF Arrivals
            <3>6. /\ requests'[n].session = s /\ requests'[n].kind # "compute"
                  /\ requests'[n].kind \in {"stream", "action"} => active[s] = 0
                BY <2>0, <2>2, <3>3, <3>5
            <3>7. Same(a, n)' => requests'[n].kind \notin {"stream", "action"}
                BY <3>1, <3>2, <3>6 DEF Same
            <3> QED
                BY <3>6, <3>7 DEF Streams, Actions
        <2>5. ASSUME NEW a \in InFlight', NEW b \in InFlight', a < b
              PROVE  /\ a \in Streams' /\ Same(a, b)' => b \notin (Streams \cup Actions)'
                     /\ a \in Streams' => requests'[b].kind # "compute"
            <3>1. a \in Requests' /\ b \in Requests'
                BY DEF InFlight
            <3>2. a \in Requests
                <4>1. Requests \subseteq Nat /\ n \in Nat
                    BY <2>0, Typed DEF Arriving, BasicInv
                <4> QED
                    BY <2>0, <2>1, <2>5, <3>1, <4>1
            <3>3. CASE b = n
                BY <2>4, <2>5, <3>2, <3>3
            <3>4. CASE b \in Requests
                BY <1>2, <2>5, <3>2, <3>4
            <3> QED
                BY <2>0, <2>1, <3>1, <3>3, <3>4
        <2> QED
            BY <2>5 DEF GuardInv
    <1>5. CASE Restart
        BY <1>5, RestartDoes DEF GuardInv, InFlight
    <1>6. CASE UNCHANGED vars
        BY <1>3, <1>6 DEF vars, Requests
    <1>7. ASSUME NEW r \in Requests, DriveSteps(r) \/ StoreSteps(r)
          PROVE  Requests' = Requests
        BY <1>7, DriveStepsDo, StoreStepsDo DEF Drives, Stores, Moves
    <1> QED
        BY <1>3, <1>4, <1>5, <1>6, <1>7, NextIs

-----------------------------------------------------------------------------
(* The engines *)

EnginesInv == EngineInv /\ SweepFindsTheEngine /\ StaleEngineHasCause

\* A request whose engine was picked or fetched just now.
EngineIsCurrent(r) ==
    /\ OfSession(requests[r].engine, requests[r].session)
    /\ requests[r].pc = "insert" => requests[r].engine.settings = settings
    /\ requests[r].pc = "drive" => requests[r].engine = cache[requests[r].session]

\* A step that leaves the cache and the settings alone, and the requests but
\* for those whose engine is current ...
EnginesRest ==
    /\ cache' = cache /\ settings' = settings
    /\ \A r \in InFlight' :
          \/ EngineIsCurrent(r)'
          \/ /\ r \in Requests
             /\ requests'[r].engine \in {requests[r].engine, NoEngine}
             /\ requests'[r].pc \in {"insert", "drive"} =>
                   requests'[r].pc = requests[r].pc /\ requests'[r].engine = requests[r].engine
          \/ requests'[r].engine = NoEngine /\ requests'[r].pc \notin {"insert", "drive"}

\* ... and one that leaves the changes of the settings where they are.
ComputesRest ==
    \A c \in Requests : requests[c].kind = "compute" => requests'[c].pc = requests[c].pc

LEMMA OfSessionPersists ==
    ASSUME Onward, NEW e, NEW s, OfSession(e, s)
    PROVE  e # NoEngine => e.builder \in Requests' /\ requests'[e.builder].session = s
PROOF
    BY DEF OfSession, Onward

LEMMA EnginesAtRest ==
    ASSUME BasicInv, Onward, Firm, EnginesInv, EnginesRest
    PROVE  EngineInv' /\ SweepFindsTheEngine' /\ (ComputesRest => StaleEngineHasCause')
PROOF
    <1>1. EngineInv'
        <2>1. \A s \in Sessions : OfSession(cache[s], s)'
            BY OfSessionPersists DEF EnginesInv, EngineInv, EnginesRest, OfSession
        <2>2. ASSUME NEW r \in InFlight'
              PROVE  OfSession(requests[r].engine, requests[r].session)'
            <3>1. CASE requests'[r].engine = NoEngine
                BY <3>1 DEF OfSession
            <3>2. CASE r \in Requests /\ requests'[r].engine = requests[r].engine
                <4>1. r \in InFlight /\ requests'[r].session = requests[r].session
                    BY <3>2, Persists
                <4>2. OfSession(requests[r].engine, requests[r].session)
                    BY <4>1 DEF EnginesInv, EngineInv
                <4> QED
                    BY <3>2, <4>1, <4>2, OfSessionPersists DEF OfSession
            <3>3. CASE EngineIsCurrent(r)'
                BY <3>3 DEF EngineIsCurrent
            <3> QED
                BY <3>1, <3>2, <3>3 DEF EnginesRest
        <2>3. ASSUME NEW r \in InFlight', requests'[r].pc = "insert",
                     requests'[r].engine.settings < settings'
              PROVE  \E c \in Requests' : requests'[c].kind = "compute" /\ Overlap(r, c)'
            <3>0. ~EngineIsCurrent(r)'
                <4>1. settings' \in Nat
                    BY DEF BasicInv, WebTypes, EnginesRest
                <4> QED
                    BY <2>3, <4>1 DEF EngineIsCurrent
            <3>1. /\ r \in Requests /\ requests[r].pc = "insert" /\ settings' = settings
                  /\ requests'[r].engine = requests[r].engine
                BY <2>3, <3>0 DEF EnginesRest
            <3>2. r \in InFlight
                BY <3>1, Persists
            <3>3. PICK c \in Requests : requests[c].kind = "compute" /\ Overlap(r, c)
                BY <2>3, <3>1, <3>2 DEF EnginesInv, EngineInv
            <3> QED
                BY <3>1, <3>3, Persists
        <2> QED
            BY <2>1, <2>2, <2>3 DEF EngineInv
    <1>2. SweepFindsTheEngine'
        <2> SUFFICES ASSUME NEW r \in (Streams \cap InFlight)', requests'[r].pc = "drive",
                            cache'[requests'[r].session] # requests'[r].engine
                     PROVE  \E x \in Requests' \ {r} :
                                /\ Overlap(x, r)'
                                /\ \/ requests'[x].kind = "compute" /\ x < r
                                   \/ requests'[x].kind \in {"chat", "action"} /\ Same(x, r)'
            BY DEF SweepFindsTheEngine
        <2>0. ~EngineIsCurrent(r)'
            BY DEF EngineIsCurrent
        <2>1. /\ r \in Requests /\ requests[r].pc = "drive" /\ cache' = cache
              /\ requests'[r].engine = requests[r].engine
            BY <2>0 DEF EnginesRest
        <2>2. r \in Streams \cap InFlight /\ requests'[r].session = requests[r].session
            BY <2>1, Persists
        <2>3. PICK x \in Requests \ {r} :
                 /\ Overlap(x, r)
                 /\ \/ requests[x].kind = "compute" /\ x < r
                    \/ requests[x].kind \in {"chat", "action"} /\ Same(x, r)
            BY <2>1, <2>2 DEF EnginesInv, SweepFindsTheEngine
        <2> QED
            BY <2>1, <2>3, Persists
    <1>3. ComputesRest => StaleEngineHasCause'
        <2> SUFFICES ASSUME ComputesRest, NEW s \in Sessions, cache'[s] # NoEngine,
                            cache'[s].settings < settings'
                     PROVE  \E c \in Requests' :
                                /\ requests'[c].kind = "compute"
                                /\ \/ requests'[c].pc \in {"sweep", "clear", "lost"}
                                   \/ \E b \in (Turns \cup Actions)' : Overlap(b, c)'
            BY DEF StaleEngineHasCause
        <2>1. PICK c \in Requests :
                 /\ requests[c].kind = "compute"
                 /\ \/ requests[c].pc \in {"sweep", "clear", "lost"}
                    \/ \E b \in Turns \cup Actions : Overlap(b, c)
            BY DEF EnginesInv, StaleEngineHasCause, EnginesRest
        <2>2. Turns \cup Actions \subseteq Requests
            BY DEF Turns, Streams, Chats, Actions
        <2>3. c \in Requests' /\ requests'[c].kind = "compute" /\ requests'[c].pc = requests[c].pc
            BY <2>1, Persists DEF ComputesRest
        <2>4. ASSUME NEW b \in Turns \cup Actions, Overlap(b, c)
              PROVE  b \in (Turns \cup Actions)' /\ Overlap(b, c)'
            BY <2>2, <2>4, Persists
        <2> QED
            BY <2>1, <2>3, <2>4
    <1> QED
        BY <1>1, <1>2, <1>3

\* Most steps.
LEMMA MostRest ==
    ASSUME BasicInv, EnginesInv,
           \/ UNCHANGED vars
           \/ \E r \in Requests : \/ StoreSteps(r) \/ StepBegins(r) \/ Lookup(r) \/ Pick(r)
                                  \/ Fetch(r) \/ DriveEnds(r)
           \/ Arrivals
    PROVE  EnginesRest /\ ComputesRest
PROOF
    <1>1. CASE UNCHANGED vars
        BY <1>1 DEF vars, engines, EnginesRest, ComputesRest, InFlight, Requests
    <1>2. CASE Arrivals
        <2>1. /\ cache' = cache /\ settings' = settings
              /\ Requests' = Requests \cup {Arriving}
              /\ \A q \in Requests : requests'[q] = requests[q]
              /\ requests'[Arriving].pc \notin {"insert", "drive"}
              /\ requests'[Arriving].pc \notin Over => requests'[Arriving].engine = NoEngine
            BY <1>2, ArrivalsDo DEF Comings, Comes, DrivePlaces
        <2> QED
            BY <2>1 DEF EnginesRest, ComputesRest, InFlight
    <1>3. ASSUME NEW r \in Requests, Moves(r), requests[r].kind # "compute",
                 cache' = cache, settings' = settings,
                 requests'[r].pc \notin {"insert", "drive"},
                 requests'[r].pc \notin Over => requests'[r].engine \in {requests[r].engine, NoEngine}
          PROVE  EnginesRest /\ ComputesRest
        BY <1>3 DEF EnginesRest, ComputesRest, InFlight, Moves
    <1>4. ASSUME NEW r \in Requests, StoreSteps(r)
          PROVE  EnginesRest /\ ComputesRest
        BY <1>3, <1>4, StoreStepsDo DEF Stores, DrivePlaces
    <1>5. ASSUME NEW r \in Requests, StepBegins(r) \/ Lookup(r) \/ DriveEnds(r)
          PROVE  EnginesRest /\ ComputesRest
        <2>1. cache' = cache /\ settings' = settings
            BY <1>5 DEF StepBegins, Lookup, DriveEnds, engines
        <2>2. /\ Moves(r) /\ requests'[r].pc \notin {"insert", "drive"}
              /\ requests'[r].pc \notin Over => requests'[r].engine \in {requests[r].engine, NoEngine}
              /\ requests[r].pc \in {"plan", "step", "lookup", "drive"}
            BY <1>5, StepBeginsDoes, LookupDoes, DriveEndsDoes DEF Over
        <2>3. requests[r].kind # "compute"
            BY <2>2, KindsAt DEF TurnKinds, DrivePlaces
        <2> QED
            BY <1>3, <2>1, <2>2, <2>3
    <1>6. ASSUME NEW r \in Requests, Moves(r), requests[r].kind # "compute",
                 cache' = cache, settings' = settings, EngineIsCurrent(r)'
          PROVE  EnginesRest /\ ComputesRest
        BY <1>6 DEF EnginesRest, ComputesRest, InFlight, Moves
    <1>7. ASSUME NEW r \in Requests, Pick(r)
          PROVE  EnginesRest /\ ComputesRest
        <2>1. cache' = cache /\ settings' = settings
            BY <1>7 DEF Pick, engines
        <2>2. /\ Moves(r) /\ requests'[r].pc = "insert" /\ requests[r].pc = "pick"
              /\ requests'[r].engine = [builder |-> r, settings |-> settings]
            BY <1>7, PickDoes
        <2>3. requests[r].kind # "compute" /\ r \in Requests'
            BY <2>2, KindsAt DEF TurnKinds, DrivePlaces, Moves
        <2>4. EngineIsCurrent(r)'
            BY <2>1, <2>2, <2>3 DEF EngineIsCurrent, OfSession
        <2> QED
            BY <1>6, <2>1, <2>2, <2>3, <2>4
    <1>8. ASSUME NEW r \in Requests, Fetch(r)
          PROVE  EnginesRest /\ ComputesRest
        <2>1. cache' = cache /\ settings' = settings
            BY <1>8 DEF Fetch
        <2>2. Moves(r) /\ requests[r].pc = "fetch"
            BY <1>8, FetchDoes
        <2>3. requests[r].kind # "compute"
            BY <2>2, KindsAt DEF TurnKinds, DrivePlaces
        <2>4. CASE requests'[r].pc # "drive"
            BY <1>3, <1>8, <2>1, <2>2, <2>3, <2>4, FetchDoes DEF Over
        <2>5. CASE requests'[r].pc = "drive"
            <3>1. /\ requests'[r].engine = cache[requests[r].session]
                  /\ requests[r].session \in Sessions
                BY <1>8, <2>5, FetchDoes DEF Over
            <3>2. OfSession(cache[requests[r].session], requests[r].session)
                BY <3>1 DEF EnginesInv, EngineInv
            <3>3. requests'[r].session = requests[r].session /\ Onward
                BY <2>2 DEF Moves, Onward
            <3>4. EngineIsCurrent(r)'
                BY <2>1, <2>5, <3>1, <3>2, <3>3, OfSessionPersists DEF EngineIsCurrent, OfSession
            <3> QED
                BY <1>6, <2>1, <2>2, <2>3, <3>4
        <2> QED
            BY <2>4, <2>5
    <1> QED
        BY <1>1, <1>2, <1>4, <1>5, <1>7, <1>8

\* Two requests in flight overlap.
LEMMA TogetherOverlap ==
    ASSUME BasicInv, NEW a \in InFlight, NEW b \in InFlight, a # b
    PROVE  Overlap(a, b) /\ Overlap(b, a)
PROOF
    <1>1. a \in Nat /\ b \in Nat /\ a \in Requests /\ b \in Requests
        BY Typed DEF BasicInv
    <1>2. a < b \/ b < a
        BY <1>1
    <1> QED
        BY <1>1, <1>2 DEF BasicInv, PeersInv, Overlap, InFlight, Over

\* Whoever inserts an engine beside that of a stream overlaps the stream, and
\* is a chat or an action.
LEMMA EnginesInsert ==
    ASSUME BasicInv, GuardInv, Onward, Firm, EnginesInv, NEW r \in Requests, Insert(r)
    PROVE  EnginesInv'
PROOF
    <1> DEFINE e == requests[r].engine
    <1>1. /\ Moves(r) /\ requests'[r].pc = "fetch" /\ requests[r].pc = "insert"
          /\ requests'[r].engine = e /\ settings' = settings
          /\ requests[r].kind \in TurnKinds \cup {"action"}
          /\ requests[r].session \in Sessions
          /\ cache'[requests[r].session] = e
          /\ \A s \in Sessions : s # requests[r].session => cache'[s] = cache[s]
        BY InsertDoes DEF Insert
    <1>2. r \in InFlight /\ Requests' = Requests
          /\ \A q \in Requests : q # r => requests'[q] = requests[q]
        BY <1>1 DEF InFlight, Moves
    <1>3. /\ OfSession(e, requests[r].session)
          /\ e.settings < settings =>
                \E c \in Requests : requests[c].kind = "compute" /\ Overlap(r, c)
        BY <1>1, <1>2 DEF EnginesInv, EngineInv
    <1>4. EngineInv'
        <2>1. ASSUME NEW s \in Sessions
              PROVE  OfSession(cache[s], s)'
            <3>1. OfSession(cache'[s], s)
                BY <1>1, <1>3 DEF EnginesInv, EngineInv
            <3> QED
                BY <3>1, OfSessionPersists DEF OfSession
        <2>2. ASSUME NEW q \in InFlight'
              PROVE  OfSession(requests[q].engine, requests[q].session)'
            <3>1. /\ q \in InFlight /\ requests'[q].engine = requests[q].engine
                  /\ requests'[q].session = requests[q].session
                BY <1>1, <1>2, Persists DEF InFlight
            <3> QED
                BY <3>1, OfSessionPersists DEF EnginesInv, EngineInv, OfSession
        <2>3. ASSUME NEW q \in InFlight', requests'[q].pc = "insert",
                     requests'[q].engine.settings < settings'
              PROVE  \E c \in Requests' : requests'[c].kind = "compute" /\ Overlap(q, c)'
            <3>1. q \in InFlight /\ requests'[q] = requests[q] /\ q \in Requests
                BY <1>1, <1>2, <2>3, Persists DEF InFlight
            <3>2. PICK c \in Requests : requests[c].kind = "compute" /\ Overlap(q, c)
                BY <1>1, <2>3, <3>1 DEF EnginesInv, EngineInv
            <3> QED
                BY <3>1, <3>2, Persists
        <2> QED
            BY <2>1, <2>2, <2>3 DEF EngineInv
    <1>5. SweepFindsTheEngine'
        <2> SUFFICES ASSUME NEW q \in (Streams \cap InFlight)', requests'[q].pc = "drive",
                            cache'[requests'[q].session] # requests'[q].engine
                     PROVE  \E x \in Requests' \ {q} :
                                /\ Overlap(x, q)'
                                /\ \/ requests'[x].kind = "compute" /\ x < q
                                   \/ requests'[x].kind \in {"chat", "action"} /\ Same(x, q)'
            BY DEF SweepFindsTheEngine
        <2>1. q # r /\ q \in Requests /\ requests'[q] = requests[q] /\ q \in Streams \cap InFlight
            BY <1>1, <1>2, Persists DEF InFlight
        <2>2. CASE requests[q].session # requests[r].session
            <3>1. requests[q].session \in Sessions
                BY <2>1, AtHome DEF Streams
            <3>2. PICK x \in Requests \ {q} :
                     /\ Overlap(x, q)
                     /\ \/ requests[x].kind = "compute" /\ x < q
                        \/ requests[x].kind \in {"chat", "action"} /\ Same(x, q)
                BY <1>1, <2>1, <2>2, <3>1 DEF EnginesInv, SweepFindsTheEngine
            <3> QED
                BY <2>1, <3>2, Persists
        <2>3. CASE requests[q].session = requests[r].session
            <3>1. Overlap(r, q) /\ Same(r, q) /\ Same(q, r)
                BY <1>2, <2>1, <2>3, TogetherOverlap DEF Same
            <3>2. r \in Nat /\ q \in Nat
                BY <2>1, Typed DEF BasicInv
            <3>3. r \notin Streams
                BY <1>2, <2>1, <3>1, <3>2 DEF GuardInv
            <3>4. requests[r].kind \in {"chat", "action"}
                BY <1>1, <3>3 DEF Streams, TurnKinds
            <3> QED
                BY <2>1, <3>1, <3>4, Persists
        <2> QED
            BY <2>2, <2>3
    <1>6. StaleEngineHasCause'
        <2> SUFFICES ASSUME NEW s \in Sessions, cache'[s] # NoEngine,
                            cache'[s].settings < settings'
                     PROVE  \E c \in Requests' :
                                /\ requests'[c].kind = "compute"
                                /\ \/ requests'[c].pc \in {"sweep", "clear", "lost"}
                                   \/ \E b \in (Turns \cup Actions)' : Overlap(b, c)'
            BY DEF StaleEngineHasCause
        <2>0. /\ Turns \cup Actions \subseteq Requests
              /\ r \in Turns \cup Actions
            BY <1>1 DEF Turns, Streams, Chats, Actions, TurnKinds
        <2>1. PICK c \in Requests :
                 /\ requests[c].kind = "compute"
                 /\ \/ requests[c].pc \in {"sweep", "clear", "lost"}
                    \/ \E b \in Turns \cup Actions : Overlap(b, c)
            BY <1>1, <1>3, <2>0 DEF EnginesInv, StaleEngineHasCause
        <2>2. requests'[c].pc = requests[c].pc /\ requests'[c].kind = "compute" /\ c \in Requests'
            BY <1>1, <1>2, <2>1 DEF TurnKinds
        <2>3. ASSUME NEW b \in Turns \cup Actions, Overlap(b, c)
              PROVE  b \in (Turns \cup Actions)' /\ Overlap(b, c)'
            BY <2>0, <2>3, Persists
        <2> QED
            BY <2>1, <2>2, <2>3
    <1> QED
        BY <1>4, <1>5, <1>6 DEF EnginesInv

\* A change of the settings overlaps whoever holds an engine to insert.
LEMMA EnginesChangeSettings ==
    ASSUME BasicInv, BasicInv', Onward, Firm, EnginesInv, NEW r \in Requests, ComputeUpdates(r)
    PROVE  EnginesInv'
PROOF
    <1>1. /\ Moves(r) /\ requests'[r].pc = "sweep" /\ requests[r].pc = "env"
          /\ requests[r].kind = "compute" /\ requests'[r].engine = requests[r].engine
          /\ cache' = cache
        BY ComputeUpdatesDoes DEF ComputeUpdates
    <1>2. /\ r \in InFlight' /\ Requests' = Requests /\ requests'[r].kind = "compute"
          /\ \A q \in Requests : q # r => requests'[q] = requests[q]
        BY <1>1, Persists DEF InFlight, Moves, Over
    <1>3. EngineInv'
        <2>1. ASSUME NEW s \in Sessions
              PROVE  OfSession(cache[s], s)'
            <3>1. OfSession(cache'[s], s)
                BY <1>1 DEF EnginesInv, EngineInv
            <3> QED
                BY <3>1, OfSessionPersists DEF OfSession
        <2>2. ASSUME NEW q \in InFlight'
              PROVE  OfSession(requests[q].engine, requests[q].session)'
            <3>1. /\ q \in InFlight /\ requests'[q].engine = requests[q].engine
                  /\ requests'[q].session = requests[q].session
                BY <1>1, <1>2, Persists DEF InFlight
            <3> QED
                BY <3>1, OfSessionPersists DEF EnginesInv, EngineInv, OfSession
        <2>3. ASSUME NEW q \in InFlight', requests'[q].pc = "insert"
              PROVE  \E c \in Requests' : requests'[c].kind = "compute" /\ Overlap(q, c)'
            <3>1. q # r /\ q \in InFlight /\ r \in InFlight /\ q \in Requests
                BY <1>1, <1>2, <2>3, Persists DEF InFlight
            <3>2. Overlap(q, r)'
                BY <3>1, TogetherOverlap, Persists
            <3> QED
                BY <1>2, <3>2
        <2> QED
            BY <2>1, <2>2, <2>3 DEF EngineInv
    <1>4. SweepFindsTheEngine'
        <2> SUFFICES ASSUME NEW q \in (Streams \cap InFlight)', requests'[q].pc = "drive",
                            cache'[requests'[q].session] # requests'[q].engine
                     PROVE  \E x \in Requests' \ {q} :
                                /\ Overlap(x, q)'
                                /\ \/ requests'[x].kind = "compute" /\ x < q
                                   \/ requests'[x].kind \in {"chat", "action"} /\ Same(x, q)'
            BY DEF SweepFindsTheEngine
        <2>1. q # r /\ q \in Requests /\ requests'[q] = requests[q] /\ q \in Streams \cap InFlight
            BY <1>1, <1>2, Persists DEF InFlight
        <2>2. PICK x \in Requests \ {q} :
                 /\ Overlap(x, q)
                 /\ \/ requests[x].kind = "compute" /\ x < q
                    \/ requests[x].kind \in {"chat", "action"} /\ Same(x, q)
            BY <1>1, <2>1 DEF EnginesInv, SweepFindsTheEngine
        <2> QED
            BY <2>1, <2>2, Persists
    <1>5. StaleEngineHasCause'
        BY <1>1, <1>2 DEF StaleEngineHasCause
    <1> QED
        BY <1>3, <1>4, <1>5 DEF EnginesInv

\* A sweep that breaks off met an engine being inserted.
LEMMA EnginesSwept ==
    ASSUME BasicInv, Onward, Firm, EnginesInv, NEW r \in Requests, ComputeSweeps(r)
    PROVE  EnginesInv'
PROOF
    <1>1. /\ Moves(r) /\ requests[r].pc = "sweep" /\ requests[r].kind = "compute"
          /\ requests'[r].pc = "clear" \/ (\E b \in Requests : requests[b].pc = "insert")
          /\ requests'[r].pc \in {"clear", "failed"}
          /\ requests'[r].engine = requests[r].engine
          /\ cache' = cache /\ settings' = settings
        BY ComputeSweepsDoes DEF ComputeSweeps
    <1>2. Requests' = Requests /\ \A q \in Requests : q # r => requests'[q] = requests[q]
        BY <1>1 DEF Moves
    <1>3. EnginesRest
        BY <1>1, <1>2 DEF EnginesRest, InFlight
    <1>4. StaleEngineHasCause'
        <2> SUFFICES ASSUME NEW s \in Sessions, cache'[s] # NoEngine,
                            cache'[s].settings < settings'
                     PROVE  \E c \in Requests' :
                                /\ requests'[c].kind = "compute"
                                /\ \/ requests'[c].pc \in {"sweep", "clear", "lost"}
                                   \/ \E b \in (Turns \cup Actions)' : Overlap(b, c)'
            BY DEF StaleEngineHasCause
        <2>0. Turns \cup Actions \subseteq Requests
            BY DEF Turns, Streams, Chats, Actions
        <2>1. PICK c \in Requests :
                 /\ requests[c].kind = "compute"
                 /\ \/ requests[c].pc \in {"sweep", "clear", "lost"}
                    \/ \E b \in Turns \cup Actions : Overlap(b, c)
            BY <1>1 DEF EnginesInv, StaleEngineHasCause
        <2>2. c \in Requests' /\ requests'[c].kind = "compute"
            BY <2>1, Persists
        <2>3. ASSUME NEW b \in Turns \cup Actions, NEW d \in Requests, Overlap(b, d)
              PROVE  b \in (Turns \cup Actions)' /\ Overlap(b, d)'
            BY <2>0, <2>3, Persists
        <2>4. CASE c # r \/ requests'[r].pc = "clear"
            BY <1>2, <2>1, <2>2, <2>3, <2>4
        <2>5. CASE c = r /\ requests'[r].pc # "clear"
            <3>1. PICK b \in Requests : requests[b].pc = "insert"
                BY <1>1, <2>5
            <3>2. b \in Turns \cup Actions
                BY <3>1, KindsAt DEF DrivePlaces, TurnKinds, Turns, Streams, Chats, Actions
            <3>3. b \in InFlight /\ r \in InFlight /\ b # r
                BY <1>1, <3>1 DEF InFlight, Over
            <3>4. Overlap(b, r)
                BY <3>3, TogetherOverlap
            <3> QED
                BY <2>2, <2>3, <2>5, <3>2, <3>4
        <2> QED
            BY <2>4, <2>5
    <1> QED
        BY <1>3, <1>4, EnginesAtRest DEF EnginesInv

\* The clearing of the cache came after every stream that is in flight.
LEMMA EnginesCleared ==
    ASSUME BasicInv, GuardInv, Onward, Firm, EnginesInv, NEW r \in Requests, ComputeClears(r)
    PROVE  EnginesInv'
PROOF
    <1>1. /\ Moves(r) /\ requests'[r].pc = "answered" /\ requests[r].pc = "clear"
          /\ requests[r].kind = "compute" /\ settings' = settings
          /\ \A s \in Sessions : cache'[s] = NoEngine
        BY ComputeClearsDoes DEF ComputeClears
    <1>2. /\ r \in InFlight /\ r \notin InFlight' /\ Requests' = Requests
          /\ \A q \in Requests : q # r => requests'[q] = requests[q]
        BY <1>1 DEF InFlight, Moves, Over
    <1>3. EngineInv'
        <2>1. \A s \in Sessions : OfSession(cache[s], s)'
            BY <1>1 DEF OfSession
        <2>2. ASSUME NEW q \in InFlight'
              PROVE  /\ OfSession(requests[q].engine, requests[q].session)'
                     /\ /\ requests'[q].pc = "insert"
                        /\ requests'[q].engine.settings < settings'
                        => \E c \in Requests' : requests'[c].kind = "compute" /\ Overlap(q, c)'
            <3>1. q \in InFlight /\ requests'[q] = requests[q] /\ q \in Requests
                BY <1>2, Persists DEF InFlight
            <3>2. OfSession(requests[q].engine, requests[q].session)'
                <4>1. OfSession(requests[q].engine, requests[q].session)
                    BY <3>1 DEF EnginesInv, EngineInv
                <4> QED
                    BY <1>2, <3>1, <4>1 DEF OfSession, Onward
            <3>3. ASSUME requests'[q].pc = "insert", requests'[q].engine.settings < settings'
                  PROVE  \E c \in Requests' : requests'[c].kind = "compute" /\ Overlap(q, c)'
                <4>1. PICK c \in Requests : requests[c].kind = "compute" /\ Overlap(q, c)
                    BY <1>1, <3>1, <3>3 DEF EnginesInv, EngineInv
                <4> QED
                    BY <3>1, <4>1, Persists
            <3> QED
                BY <3>2, <3>3
        <2> QED
            BY <2>1, <2>2 DEF EngineInv
    <1>4. SweepFindsTheEngine'
        <2> SUFFICES ASSUME NEW q \in (Streams \cap InFlight)'
                     PROVE  \E x \in Requests' \ {q} :
                                Overlap(x, q)' /\ requests'[x].kind = "compute" /\ x < q
            BY DEF SweepFindsTheEngine
        <2>1. q \in Streams \cap InFlight /\ q # r /\ q \in Requests
            BY <1>2, Persists DEF InFlight
        <2>2. r < q
            <3>1. r \in Nat /\ q \in Nat
                BY <2>1, Typed DEF BasicInv
            <3>2. ~(q < r)
                BY <1>1, <1>2, <2>1 DEF GuardInv
            <3> QED
                BY <2>1, <3>1, <3>2
        <2>3. Overlap(r, q)
            BY <1>2, <2>1, TogetherOverlap
        <2> QED
            BY <1>1, <2>1, <2>2, <2>3, Persists
    <1>5. StaleEngineHasCause'
        BY <1>1 DEF StaleEngineHasCause
    <1> QED
        BY <1>3, <1>4, <1>5 DEF EnginesInv

LEMMA EnginesStep ==
    ASSUME BasicInv, GuardInv, EnginesInv, [Next]_vars
    PROVE  EnginesInv'
PROOF
    <1>1. BasicInv' /\ Onward /\ Firm
        BY EveryStep
    <1>2. ASSUME EnginesRest, ComputesRest
          PROVE  EnginesInv'
        BY <1>1, <1>2, EnginesAtRest DEF EnginesInv
    <1>3. CASE UNCHANGED vars
        BY <1>2, <1>3, MostRest
    <1>4. CASE Arrivals
        BY <1>2, <1>4, MostRest
    <1>5. ASSUME NEW r \in Requests, StoreSteps(r)
          PROVE  EnginesInv'
        BY <1>2, <1>5, MostRest
    <1>6. ASSUME NEW r \in Requests, DriveSteps(r)
          PROVE  EnginesInv'
        <2>1. CASE StepBegins(r) \/ Lookup(r) \/ Pick(r) \/ Fetch(r) \/ DriveEnds(r)
            BY <1>2, <2>1, MostRest
        <2>2. CASE Insert(r)
            BY <1>1, <2>2, EnginesInsert
        <2>3. CASE ComputeUpdates(r)
            BY <1>1, <2>3, EnginesChangeSettings
        <2>4. CASE ComputeSweeps(r)
            BY <1>1, <2>4, EnginesSwept
        <2>5. CASE ComputeClears(r)
            BY <1>1, <2>5, EnginesCleared
        <2> QED
            BY <1>6, <2>1, <2>2, <2>3, <2>4, <2>5 DEF DriveSteps
    <1>7. CASE Restart
        BY <1>7, RestartDoes DEF EnginesInv, EngineInv, OfSession, SweepFindsTheEngine,
                                 StaleEngineHasCause, InFlight
    <1> QED
        BY <1>3, <1>4, <1>5, <1>6, <1>7, NextIs

-----------------------------------------------------------------------------
(* The sweeps *)

LEMMA SweptStep ==
    ASSUME BasicInv, EnginesInv, SweptInv, [Next]_vars
    PROVE  SweptInv'
PROOF
    <1>1. Onward /\ Firm
        BY EveryStep
    <1> DEFINE Caused(r, x) ==
                   /\ Overlap(x, r)
                   /\ requests[x].kind = "compute" \/ (requests[x].kind = "stop" /\ Same(x, r))
    <1>2. ASSUME NEW r \in swept
          PROVE  r \in Requests' /\ \E x \in Requests' : Caused(r, x)'
        <2>1. PICK x \in Requests : r \in Requests /\ Caused(r, x)
            BY <1>2 DEF SweptInv
        <2> QED
            BY <1>1, <2>1, Persists
    <1>3. CASE swept' \subseteq swept
        BY <1>2, <1>3 DEF SweptInv
    <1>4. ASSUME NEW s \in Sessions, StopArrives(s)
          PROVE  SweptInv'
        <2>1. /\ Comes(Arriving) /\ requests'[Arriving].kind = "stop"
              /\ requests'[Arriving].session = s
            BY <1>4, StopArrivesDoes
        <2>2. CASE swept' = swept
            BY <1>3, <2>2
        <2>3. CASE /\ requests'[Arriving].peers = InFlight
                   /\ swept' \subseteq swept \cup Drivers(Cached({s}))
            <3>0. PICK n : n = Arriving
                OBVIOUS
            <3>1. ASSUME NEW r \in Drivers(Cached({s}))
                  PROVE  r \in Requests' /\ \E x \in Requests' : Caused(r, x)'
                <4>1. /\ r \in Requests /\ requests[r].pc = "drive"
                      /\ requests[r].engine = cache[s] /\ cache[s] # NoEngine
                    BY DEF Drivers, Cached
                <4>2. r \in InFlight
                    BY <4>1 DEF InFlight, Over
                <4>3. requests[r].session = s
                    BY <4>1, <4>2 DEF EnginesInv, EngineInv, OfSession
                <4>4. /\ n \in Requests' /\ r \in Requests' /\ r \in requests'[n].peers
                      /\ requests'[r].session = s /\ requests'[n].session = s
                      /\ requests'[n].kind = "stop"
                    BY <1>1, <2>1, <2>3, <3>0, <4>1, <4>2, <4>3, Persists DEF Comes
                <4> QED
                    BY <4>4 DEF Overlap, Same
            <3> QED
                BY <1>2, <2>3, <3>1 DEF SweptInv
        <2> QED
            BY <1>4, <2>2, <2>3, StopArrivesDoes
    <1>5. ASSUME NEW c \in Requests, ComputeSweeps(c)
          PROVE  SweptInv'
        <2>1. requests[c].pc = "sweep" /\ requests[c].kind = "compute"
            BY <1>5, ComputeSweepsDoes
        <2>2. swept' \subseteq swept \cup Drivers(Cached(Sessions))
            BY <1>5 DEF ComputeSweeps, Sweeps
        <2>3. ASSUME NEW r \in Drivers(Cached(Sessions))
              PROVE  r \in Requests' /\ \E x \in Requests' : Caused(r, x)'
            <3>1. r \in Requests /\ requests[r].pc = "drive"
                BY DEF Drivers
            <3>2. r \in InFlight /\ c \in InFlight /\ r # c
                BY <2>1, <3>1 DEF InFlight, Over
            <3>3. Overlap(c, r)
                BY <3>2, TogetherOverlap
            <3> QED
                BY <1>1, <2>1, <3>1, <3>3, Persists
        <2> QED
            BY <1>2, <2>2, <2>3 DEF SweptInv
    <1>6. ASSUME NEW r \in Requests, StoreSteps(r)
          PROVE  SweptInv'
        BY <1>3, <1>6, StoreStepsDo DEF Stores
    <1>7. ASSUME NEW r \in Requests, DriveSteps(r)
          PROVE  SweptInv'
        <2>1. CASE StepBegins(r) \/ Lookup(r) \/ Pick(r) \/ Insert(r) \/ ComputeUpdates(r)
            BY <1>3, <2>1 DEF StepBegins, Lookup, Pick, Insert, ComputeUpdates, engines
        <2>2. CASE Fetch(r) \/ DriveEnds(r) \/ ComputeClears(r)
            BY <1>3, <2>2, FetchDoes, DriveEndsDoes, ComputeClearsDoes
        <2> QED
            BY <1>5, <1>7, <2>1, <2>2 DEF DriveSteps
    <1>8. CASE Arrivals
        <2>1. ASSUME NEW s \in Sessions, Arrives(s), ~StopArrives(s)
              PROVE  swept' = swept
            BY <2>1 DEF Arrives, StreamArrives, ChatArrives, TurnIsRejected, UploadArrives,
                        ActionArrives, DeleteArrives, ViewArrives, engines
        <2> QED
            BY <1>3, <1>4, <1>8, <2>1 DEF Arrivals, ComputeArrives, engines
    <1>9. CASE Restart
        BY <1>9, RestartDoes DEF SweptInv
    <1>10. CASE UNCHANGED vars
        BY <1>3, <1>10 DEF vars, engines
    <1> QED
        BY <1>6, <1>7, <1>8, <1>9, <1>10, NextIs

-----------------------------------------------------------------------------
(* The cancel events *)

\* What a step may do with the events: of the requests, a stream gets its own
\* and a newcomer that of a stream it overlaps; an object loses one or gets one
\* that it hosts; a stream that ends takes its own away; a file has none.
EventsRest ==
    /\ \A q \in InFlight' :
          q \in (Streams \cup Chats)' =>
             \/ q \in Requests /\ requests'[q].ctx.event = requests[q].ctx.event
             \/ q \in Streams' /\ requests'[q].ctx.event \in {0, q}
             \/ q \in Chats' /\ (requests'[q].ctx.event # 0 => ChatCame(requests[q].ctx.event)')
    /\ \A p \in DOMAIN objects' :
          \/ objects'[p].ctx.event = 0
          \/ p \in DOMAIN objects /\ objects'[p].ctx.event = objects[p].ctx.event
          \/ Hosts(p, objects[p].ctx.event)'
    /\ \A e \in Streams \cap InFlight :
          \/ e \in InFlight' /\ requests'[e].object = requests[e].object
          \/ requests[e].object \in DOMAIN objects' =>
                objects'[requests[e].object].ctx.event = 0
    /\ \A s \in Sessions :
          disk'[s] # NoFile => disk'[s] = disk[s] \/ disk'[s].ctx.event = 0
    /\ 0 \notin stopped'

LEMMA EventsAtRest ==
    ASSUME BasicInv, Onward, Firm, EventInv, EventsRest
    PROVE  EventInv'
PROOF
    <1>1. ASSUME NEW e, ChatCame(e)
          PROVE  ChatCame(e)'
        BY <1>1, Persists DEF ChatCame, Chats
    <1>2. ASSUME NEW q \in (Streams \cap InFlight)'
          PROVE  requests'[q].ctx.event \in {0, q}
        <2>1. q \notin Chats'
            BY DEF Streams, Chats
        <2>2. q \in Requests => q \in Streams \cap InFlight
            BY Persists
        <2> QED
            BY <2>1, <2>2 DEF EventsRest, EventInv
    <1>3. ASSUME NEW q \in (Chats \cap InFlight)', requests'[q].ctx.event # 0
          PROVE  ChatCame(requests[q].ctx.event)'
        <2>1. q \notin Streams'
            BY DEF Streams, Chats
        <2>2. CASE q \in Requests /\ requests'[q].ctx.event = requests[q].ctx.event
            <3>1. q \in Chats \cap InFlight
                BY <2>2, Persists
            <3>2. ChatCame(requests[q].ctx.event)
                BY <1>3, <2>2, <3>1 DEF EventInv
            <3>3. PICK e : e = requests[q].ctx.event
                OBVIOUS
            <3>4. ChatCame(e)'
                BY <1>1, <3>2, <3>3
            <3> QED
                BY <2>2, <3>3, <3>4 DEF ChatCame
        <2> QED
            BY <1>3, <2>1, <2>2 DEF EventsRest
    <1>4. ASSUME NEW p \in DOMAIN objects', objects'[p].ctx.event # 0
          PROVE  Hosts(p, objects[p].ctx.event)'
        <2>1. CASE p \in DOMAIN objects /\ objects'[p].ctx.event = objects[p].ctx.event
            <3>1. PICK e : e = objects[p].ctx.event
                OBVIOUS
            <3>2. CASE ChatCame(e)
                <4>1. ChatCame(e)'
                    BY <1>1, <3>2
                <4> QED
                    BY <2>1, <3>1, <4>1 DEF Hosts, ChatCame
            <3>3. CASE e \in Streams \cap InFlight /\ requests[e].object = p
                <4>1. e \in Requests
                    BY <3>3 DEF Streams
                <4>2. e \in InFlight' /\ requests'[e].object = p
                    BY <1>4, <3>3 DEF EventsRest
                <4>3. e \in Streams'
                    BY <3>3, <4>1, Persists
                <4> QED
                    BY <2>1, <3>1, <4>2, <4>3 DEF Hosts
            <3> QED
                BY <1>4, <2>1, <3>1, <3>2, <3>3 DEF EventInv, Hosts
        <2> QED
            BY <1>4, <2>1 DEF EventsRest
    <1>5. \A s \in Sessions : disk'[s] # NoFile => disk'[s].ctx.event = 0
        BY DEF EventsRest, EventInv
    <1> QED
        BY <1>2, <1>3, <1>4, <1>5 DEF EventInv, EventsRest

\* A request that goes on with the context and the object it has, or ends
\* without having been a stream.
LEMMA EventsMove ==
    ASSUME EventInv, NEW r, Moves(r),
           requests'[r].pc \notin Over =>
               requests'[r].ctx.event = requests[r].ctx.event
               /\ requests'[r].object = requests[r].object,
           requests[r].kind = "stream" => requests'[r].pc \notin Over
    PROVE  /\ \A q \in InFlight' :
                 q \in Requests /\ requests'[q].ctx.event = requests[q].ctx.event
           /\ \A e \in Streams \cap InFlight :
                 e \in InFlight' /\ requests'[e].object = requests[e].object
PROOF
    BY DEF Moves, InFlight, Streams

\* A session that is loaded has no event that is not in an object already.
LEMMA EventsLoad ==
    ASSUME BasicInv, EventInv, NEW s \in Sessions
    PROVE  \A p \in DOMAIN Opened(s) :
              \/ Opened(s)[p].ctx.event = 0
              \/ p \in DOMAIN objects /\ Opened(s)[p].ctx.event = objects[p].ctx.event
PROOF
    <1>1. FromDisk(s).ctx.event = 0
        BY FromDiskTyped DEF EventInv, NoContext, BasicInv
    <1> QED
        BY <1>1, OpenedIs

LEMMA StoppedAreRequests ==
    ASSUME 0 \notin stopped, [Next]_vars
    PROVE  0 \notin stopped'
PROOF
    <1>1. ASSUME NEW s \in Sessions, StopArrives(s)
          PROVE  0 \notin stopped'
        BY <1>1 DEF StopArrives
    <1>2. CASE Restart
        BY <1>2 DEF Restart
    <1>3. ASSUME NEW r \in Requests, DriveSteps(r)
          PROVE  stopped' = stopped
        BY <1>3 DEF DriveSteps, StepBegins, Lookup, Pick, Insert, Fetch, DriveEnds, ComputeUpdates,
                    ComputeSweeps, ComputeClears, sessions
    <1>4. ASSUME NEW r \in Requests, StoreSteps(r)
          PROVE  stopped' = stopped
        BY <1>4 DEF StoreSteps, WorkerStarts, TurnReturns, TurnFails, SaveEnds, UploadStores,
                    UploadFails, DeletePops, DeleteRemoves, ViewEnters, sessions
    <1>5. ASSUME NEW s \in Sessions, Arrives(s), ~StopArrives(s)
          PROVE  stopped' = stopped
        BY <1>5 DEF Arrives, StreamArrives, ChatArrives, TurnIsRejected, UploadArrives,
                    ActionArrives, DeleteArrives, ViewArrives, sessions
    <1>6. CASE ComputeArrives
        BY <1>6 DEF ComputeArrives, sessions
    <1>7. CASE UNCHANGED vars
        BY <1>7 DEF vars, sessions
    <1> QED
        BY <1>1, <1>2, <1>3, <1>4, <1>5, <1>6, <1>7, NextIs DEF Arrivals

LEMMA EventsStored ==
    ASSUME BasicInv, EventInv, 0 \notin stopped', NEW r \in Requests, StoreSteps(r)
    PROVE  EventsRest
PROOF
    <1>1. /\ Moves(r) /\ Onward /\ r \in InFlight /\ Requests' = Requests
          /\ \A q \in Requests : q # r => requests'[q] = requests[q]
        BY StoreStepsDo DEF Stores, Moves, InFlight
    <1>2. \A q \in InFlight' : q # r => q \in Requests /\ requests'[q] = requests[q]
        BY <1>1 DEF InFlight
    <1>3. \A e \in Streams \cap InFlight :
             e # r => e \in InFlight' /\ requests'[e].object = requests[e].object
        BY <1>1 DEF InFlight
    <1>4. (r \in Streams <=> requests[r].kind = "stream") /\ (r \in Streams' <=> r \in Streams)
          /\ (r \in Chats <=> requests[r].kind = "chat") /\ (r \in Chats' <=> r \in Chats)
        BY <1>1 DEF Streams, Chats, Onward
    <1>5. CASE WorkerStarts(r)
        <2> DEFINE o == requests[r].object
        <2>1. /\ requests[r].kind = "stream" /\ requests'[r].pc = "plan"
              /\ requests'[r].object = o /\ requests'[r].ctx.event = r
              /\ o \in DOMAIN objects /\ DOMAIN objects' = DOMAIN objects
              /\ objects'[o].ctx.event = r
              /\ \A p \in DOMAIN objects : p # o => objects'[p] = objects[p]
            BY <1>5, WorkerStartsDoes
        <2>2. disk' = disk
            BY <1>5 DEF WorkerStarts
        <2>3. r \in InFlight'
            BY <1>1, <2>1 DEF InFlight, Over
        <2>4. PICK p : p = o
            OBVIOUS
        <2>5. Hosts(p, objects[p].ctx.event)'
            BY <1>4, <2>1, <2>3, <2>4 DEF Hosts
        <2> QED
            BY <1>2, <1>3, <1>4, <2>1, <2>2, <2>3, <2>4, <2>5 DEF EventsRest
    <1>6. CASE TurnReturns(r)
        <2> DEFINE o == requests[r].object
        <2>1. /\ requests[r].kind \in TurnKinds /\ requests'[r].pc = "save"
              /\ requests'[r].object = o /\ requests'[r].ctx = requests[r].ctx
              /\ o \in DOMAIN objects /\ DOMAIN objects' = DOMAIN objects
              /\ \/ objects'[o].ctx.event = objects[o].ctx.event
                 \/ objects'[o].ctx.event = requests[r].ctx.event
              /\ \A p \in DOMAIN objects : p # o => objects'[p] = objects[p]
            BY <1>6, TurnReturnsDoes
        <2>2. disk' = disk
            BY <1>6 DEF TurnReturns
        <2>3. r \in InFlight' /\ Firm
            BY <1>1, <2>1, StoreStepsDo DEF InFlight, Over, Stores, Firm
        <2>4. CASE objects'[o].ctx.event \in {0, objects[o].ctx.event}
            BY <1>1, <1>2, <1>3, <2>1, <2>2, <2>3, <2>4 DEF EventsRest
        <2>5. CASE objects'[o].ctx.event = requests[r].ctx.event /\ requests[r].ctx.event # 0
            <3>1. PICK p : p = o
                OBVIOUS
            <3>2. Hosts(p, objects[p].ctx.event)'
                <4>1. CASE requests[r].kind = "stream"
                    <5>1. requests[r].ctx.event = r
                        BY <1>1, <1>4, <2>5, <4>1 DEF EventInv
                    <5> QED
                        BY <1>4, <2>1, <2>3, <2>5, <3>1, <4>1, <5>1 DEF Hosts
                <4>2. CASE requests[r].kind = "chat"
                    <5>1. PICK e : e = requests[r].ctx.event
                        OBVIOUS
                    <5>2. ChatCame(e)
                        BY <1>1, <1>4, <2>5, <4>2, <5>1 DEF EventInv
                    <5>3. ChatCame(e)'
                        BY <1>1, <2>3, <5>2, Persists DEF ChatCame, Chats
                    <5> QED
                        BY <2>5, <3>1, <5>1, <5>3 DEF Hosts, ChatCame
                <4> QED
                    BY <2>1, <4>1, <4>2 DEF TurnKinds
            <3> QED
                BY <1>1, <1>2, <1>3, <2>1, <2>2, <2>3, <3>1, <3>2 DEF EventsRest
        <2> QED
            BY <2>1, <2>4, <2>5
    <1>7. CASE TurnFails(r) \/ SaveEnds(r)
        <2>1. /\ Closes(r) /\ requests[r].pc \notin Over /\ requests'[r].pc \in Over
              /\ \A s \in Sessions :
                    disk'[s] # NoFile => disk'[s] = disk[s] \/ disk'[s].ctx.event = 0
            BY <1>1, <1>7, TurnFailsDoes, SaveEndsDoes DEF TurnFails, Moves, Over
        <2>2. /\ DOMAIN objects' = DOMAIN objects
              /\ \A p \in DOMAIN objects : objects'[p].ctx.event \in {0, objects[p].ctx.event}
              /\ requests[r].kind = "stream" => objects'[requests[r].object].ctx.event = 0
            BY <2>1, ClosesDoes
        <2>3. r \notin InFlight'
            BY <2>1 DEF InFlight
        <2> QED
            BY <1>1, <1>2, <1>3, <1>4, <2>1, <2>2, <2>3 DEF EventsRest
    <1>8. CASE UploadStores(r)
        <2> DEFINE s == requests[r].session
        <2>1. /\ requests[r].kind = "upload" /\ s \in Sessions
              /\ DOMAIN objects' = DOMAIN Opened(s)
              /\ objects'[Held(s)].ctx.event = Opened(s)[Held(s)].ctx.event
              /\ \A p \in DOMAIN Opened(s) : p # Held(s) => objects'[p] = Opened(s)[p]
            BY <1>8, UploadStoresDoes
        <2>2. disk' = disk
            BY <1>8 DEF UploadStores
        <2>3. \A p \in DOMAIN objects' :
                 \/ objects'[p].ctx.event = 0
                 \/ p \in DOMAIN objects /\ objects'[p].ctx.event = objects[p].ctx.event
            BY <2>1, EventsLoad
        <2>4. r \notin (Streams \cup Chats)' /\ r \notin Streams
            BY <1>4, <2>1
        <2> QED
            BY <1>2, <1>3, <2>2, <2>3, <2>4 DEF EventsRest
    <1>9. CASE UploadFails(r) \/ DeletePops(r) \/ DeleteRemoves(r) \/ ViewEnters(r)
        <2>1. objects' = objects
            BY <1>9 DEF UploadFails, DeletePops, DeleteRemoves, ViewEnters, sessions
        <2>2. \A s \in Sessions : disk'[s] # NoFile => disk'[s] = disk[s]
            BY <1>9, DeleteRemovesDoes DEF UploadFails, DeletePops, ViewEnters, sessions
        <2>3. requests[r].kind \in {"upload", "delete", "view"}
            BY <1>9, UploadFailsDoes, DeletePopsDoes, DeleteRemovesDoes, ViewEntersDoes
        <2>4. r \notin (Streams \cup Chats)' /\ r \notin Streams
            BY <1>4, <2>3
        <2> QED
            BY <1>2, <1>3, <2>1, <2>2, <2>4 DEF EventsRest
    <1> QED
        BY <1>5, <1>6, <1>7, <1>8, <1>9 DEF StoreSteps

LEMMA EventsArrive ==
    ASSUME BasicInv, EventInv, 0 \notin stopped', Arrivals
    PROVE  EventsRest
PROOF
    <1>0. PICK n : n = Arriving
        OBVIOUS
    <1>1. /\ Requests' = Requests \cup {n} /\ n \notin Requests /\ n \in Requests'
          /\ \A q \in Requests : requests'[q] = requests[q]
          /\ disk' = disk /\ Onward /\ Firm
        BY <1>0, ArrivalsDo, EveryStep DEF Comings, Comes, Firm
    <1>2. /\ \A q \in InFlight' : q \in Requests \/ q = n
          /\ \A q \in InFlight' : q \in Requests => requests'[q].ctx.event = requests[q].ctx.event
          /\ \A e \in Streams \cap InFlight :
                e \in InFlight' /\ requests'[e].object = requests[e].object
          /\ \A s \in Sessions : disk'[s] # NoFile => disk'[s] = disk[s]
        BY <1>1 DEF InFlight
    <1>3. \A p \in DOMAIN objects' :
             \/ objects'[p].ctx.event = 0
             \/ p \in DOMAIN objects /\ objects'[p].ctx.event = objects[p].ctx.event
        <2>1. ASSUME NEW s \in Sessions, Arrives(s)
              PROVE  objects' = objects \/ objects' = Opened(s)
            BY <2>1 DEF Arrives, StreamArrives, ChatArrives, TurnIsRejected, UploadArrives,
                        ActionArrives, StopArrives, DeleteArrives, ViewArrives, sessions
        <2>2. ComputeArrives => objects' = objects
            BY DEF ComputeArrives, sessions
        <2> QED
            BY <2>1, <2>2, EventsLoad DEF Arrivals
    <1>4. ASSUME n \in InFlight', n \in (Streams \cup Chats)'
          PROVE  \/ n \in Streams' /\ requests'[n].ctx.event \in {0, n}
                 \/ n \in Chats' /\ (requests'[n].ctx.event # 0 => ChatCame(requests[n].ctx.event)')
        <2>1. requests'[n].pc \notin Over /\ requests'[n].kind \in {"stream", "chat"}
            BY <1>4 DEF InFlight, Streams, Chats
        <2>2. PICK s \in Sessions : Arrives(s)
            BY <1>0, <2>1, ComputeArrivesDoes DEF Arrivals
        <2>3. StreamArrives(s) \/ ChatArrives(s)
            BY <1>0, <2>1, <2>2, TurnIsRejectedDoes, UploadArrivesDoes, ActionArrivesDoes,
               StopArrivesDoes, DeleteArrivesDoes, ViewArrivesDoes DEF Arrives, Over
        <2>4. CASE StreamArrives(s)
            <3>1. requests'[n].ctx = NoContext /\ requests'[n].kind = "stream"
                BY <1>0, <2>1, <2>4, StreamArrivesDoes DEF Over
            <3> QED
                BY <1>1, <3>1 DEF NoContext, Streams
        <2>5. CASE ChatArrives(s)
            <3>1. /\ requests'[n].kind = "chat" /\ requests'[n].peers = InFlight
                  /\ requests'[n].ctx = objects'[Held(s)].ctx
                  /\ Held(s) \in DOMAIN objects'
                BY <1>0, <2>5, ChatArrivesDoes
            <3>2. n \in Chats'
                BY <1>1, <3>1 DEF Chats
            <3>3. ASSUME requests'[n].ctx.event # 0
                  PROVE  ChatCame(requests[n].ctx.event)'
                <4>1. PICK e : e = requests'[n].ctx.event
                    OBVIOUS
                <4>2. PICK o \in DOMAIN objects : objects[o].ctx.event = e
                    BY <1>3, <3>1, <3>3, <4>1
                <4>3. Hosts(o, e)
                    BY <3>3, <4>1, <4>2 DEF EventInv
                <4>4. CASE ChatCame(e)
                    <5>1. ChatCame(e)'
                        BY <1>1, <4>4, Persists DEF ChatCame, Chats
                    <5> QED
                        BY <4>1, <5>1 DEF ChatCame
                <4>5. CASE e \in Streams \cap InFlight
                    <5>1. e \in Requests' /\ Overlap(n, e)'
                        BY <1>1, <3>1, <4>5 DEF Streams, Overlap
                    <5> QED
                        BY <3>2, <4>1, <5>1 DEF ChatCame
                <4> QED
                    BY <4>3, <4>4, <4>5 DEF Hosts
            <3> QED
                BY <3>2, <3>3
        <2> QED
            BY <2>3, <2>4, <2>5
    <1> QED
        BY <1>2, <1>3, <1>4 DEF EventsRest

LEMMA EventStep ==
    ASSUME BasicInv, EventInv, [Next]_vars
    PROVE  EventInv'
PROOF
    <1>1. Onward /\ Firm
        BY EveryStep
    <1>2. 0 \notin stopped'
        BY StoppedAreRequests DEF EventInv
    <1>3. EventsRest => EventInv'
        BY <1>1, EventsAtRest
    <1>4. CASE UNCHANGED vars
        BY <1>4 DEF vars, sessions, EventInv, Hosts, ChatCame, Overlap, Streams, Chats, InFlight,
                    Requests
    <1>5. ASSUME NEW r \in Requests, DriveSteps(r)
          PROVE  EventInv'
        <2>1. /\ Moves(r) /\ objects' = objects /\ disk' = disk
              /\ requests'[r].pc \notin Over =>
                    requests'[r].ctx.event = requests[r].ctx.event
                    /\ requests'[r].object = requests[r].object
              /\ requests[r].kind = "stream" => requests'[r].pc \notin Over
            BY <1>5, DriveStepsDo DEF Drives, TurnKinds
        <2>2. EventsRest
            BY <1>2, <2>1, EventsMove DEF EventsRest
        <2> QED
            BY <1>3, <2>2
    <1>6. ASSUME NEW r \in Requests, StoreSteps(r)
          PROVE  EventInv'
        BY <1>2, <1>3, <1>6, EventsStored
    <1>7. CASE Arrivals
        BY <1>2, <1>3, <1>7, EventsArrive
    <1>8. CASE Restart
        <2>1. DOMAIN objects' = {}
            BY <1>8, RestartDoes
        <2> QED
            BY <1>2, <1>8, <2>1, RestartDoes DEF EventInv, InFlight
    <1> QED
        BY <1>4, <1>5, <1>6, <1>7, <1>8, NextIs

-----------------------------------------------------------------------------
(* The copies of a session *)

\* Where the turns of a copy come from: another copy, or the file.
Sources(s) == {objects[o].turns : o \in Copies(s)} \cup {FromDisk(s).turns}

Follows(turns, s, added) ==
    \E T \in Sources(s) : T \subseteq turns /\ turns \subseteq T \cup added

CopiesFollow(added) ==
    \A s \in Sessions : \A o \in Copies(s)' : Follows(objects'[o].turns, s, added)

TurnsGrow(added) ==
    \A o \in DOMAIN objects :
        /\ o \in DOMAIN objects'
        /\ objects[o].turns \subseteq objects'[o].turns
        /\ objects'[o].turns \subseteq objects[o].turns \cup added

LEMMA CopiesKnown ==
    ASSUME BasicInv, NEW s \in Sessions
    PROVE  Copies(s) \subseteq DOMAIN objects
PROOF
    <1>1. /\ memory[s] \in 0 .. Len(objects) /\ DOMAIN objects = 1 .. Len(objects)
          /\ Len(objects) \in Nat
        BY DEF BasicInv, WebTypes, PlaceInv
    <1>2. ASSUME NEW v \in At("enter", s)
          PROVE  requests[v].object \in DOMAIN objects
        <2>1. v \in Requests /\ requests[v].pc = "enter"
            BY DEF At
        <2>2. requests[v].kind = "view" /\ v \in InFlight
            BY <2>1, KindsAt DEF InFlight, Over
        <2> QED
            BY <2>1, <2>2 DEF BasicInv, PlaceInv
    <1>3. \A x \in At("save", s) : requests[x].saves \in 0 .. Len(objects)
        BY DEF At, BasicInv, PlaceInv
    <1> QED
        BY <1>1, <1>2, <1>3 DEF Copies

\* A copy that was one before.
LEMMA OldCopiesFollow ==
    ASSUME BasicInv, NEW s \in Sessions, NEW added, TurnsGrow(added), NEW o \in Copies(s)
    PROVE  Follows(objects'[o].turns, s, added)
PROOF
    <1>1. o \in DOMAIN objects /\ objects[o].turns \in Sources(s)
        BY CopiesKnown DEF Sources
    <1> QED
        BY <1>1 DEF Follows, TurnsGrow

\* Request r moves and does not become a place where a new object is kept.
LEMMA CopiesMove ==
    ASSUME NEW r \in Requests, Moves(r), NEW s \in Sessions, NEW o \in Copies(s)',
           requests'[r].pc # "enter",
           requests'[r].pc = "save" /\ requests[r].session = s =>
               requests'[r].saves = memory'[s]
    PROVE  o \in Copies(s) \/ o = memory'[s]
PROOF
    <1>1. CASE o = memory'[s]
        BY <1>1
    <1>2. ASSUME NEW v \in At("enter", s)', o = requests'[v].object
          PROVE  o \in Copies(s)
        <2>1. v \in Requests /\ v # r /\ requests'[v] = requests[v]
            BY DEF At, Moves
        <2>2. v \in At("enter", s)
            BY <2>1 DEF At
        <2> QED
            BY <1>2, <2>1, <2>2 DEF Copies
    <1>3. ASSUME NEW x \in At("save", s)', o = requests'[x].saves
          PROVE  o \in Copies(s) \/ o = memory'[s]
        <2>1. CASE x = r
            <3>1. requests[r].session = s /\ requests'[r].pc = "save"
                BY <2>1 DEF At, Moves, Onward
            <3> QED
                BY <1>3, <2>1, <3>1
        <2>2. CASE x # r
            <3>1. x \in Requests /\ requests'[x] = requests[x]
                BY <2>2 DEF At, Moves
            <3>2. x \in At("save", s)
                BY <3>1 DEF At
            <3> QED
                BY <1>3, <3>1, <3>2 DEF Copies
        <2> QED
            BY <2>1, <2>2
    <1> QED
        BY <1>1, <1>2, <1>3 DEF Copies

LEMMA DrivesFollow ==
    ASSUME BasicInv, NEW r \in Requests, Drives(r)
    PROVE  CopiesFollow({})
PROOF
    <1> SUFFICES ASSUME NEW s \in Sessions, NEW o \in Copies(s)'
                 PROVE  Follows(objects'[o].turns, s, {})
        BY DEF CopiesFollow
    <1>1. TurnsGrow({})
        BY DEF Drives, TurnsGrow
    <1>2. o \in Copies(s) \/ o = memory[s]
        BY CopiesMove DEF Drives, EnginePlaces, DrivePlaces
    <1>3. o \in Copies(s)
        BY <1>2 DEF Copies
    <1> QED
        BY <1>1, <1>3, OldCopiesFollow

\* What the steps on the session store add: a turn that goes on to be saved.
LEMMA StoresFollow ==
    ASSUME BasicInv, NEW r \in Requests, StoreSteps(r)
    PROVE  \/ CopiesFollow({})
           \/ /\ CopiesFollow({r}) /\ requests'[r].pc = "save" /\ requests[r].pc # "save"
PROOF
    <1>1. Moves(r)
        BY StoreStepsDo DEF Stores
    <1>2. ASSUME NEW added, TurnsGrow(added), requests'[r].pc # "enter",
                 \A s \in Sessions : memory'[s] = 0 \/ memory'[s] \in Copies(s),
                 requests'[r].pc = "save" =>
                     requests'[r].saves = memory'[requests[r].session]
          PROVE  CopiesFollow(added)
        <2> SUFFICES ASSUME NEW s \in Sessions, NEW o \in Copies(s)'
                     PROVE  Follows(objects'[o].turns, s, added)
            BY DEF CopiesFollow
        <2>1. o \in Copies(s) \/ o = memory'[s]
            BY <1>1, <1>2, CopiesMove
        <2>2. o \in Copies(s)
            BY <1>2, <2>1 DEF Copies
        <2> QED
            BY <1>2, <2>2, OldCopiesFollow
    <1>3. \A s \in Sessions : memory[s] = 0 \/ memory[s] \in Copies(s)
        BY DEF Copies
    <1>4. CASE WorkerStarts(r)
        <2>1. TurnsGrow({}) /\ requests'[r].pc = "plan"
            BY <1>4, WorkerStartsDoes DEF TurnsGrow
        <2>2. memory' = memory
            BY <1>4 DEF WorkerStarts
        <2> QED
            BY <1>2, <1>3, <2>1, <2>2
    <1>5. CASE TurnReturns(r)
        <2>1. /\ TurnsGrow({r}) /\ requests'[r].pc = "save" /\ requests[r].pc # "save"
              /\ requests'[r].saves = memory[requests[r].session]
            BY <1>5, TurnReturnsDoes DEF TurnsGrow
        <2>2. memory' = memory
            BY <1>5 DEF TurnReturns
        <2> QED
            BY <1>2, <1>3, <2>1, <2>2
    <1>6. CASE TurnFails(r) \/ SaveEnds(r)
        <2>1. Closes(r) /\ requests'[r].pc \in Over /\ requests[r].pc \notin Over
            BY <1>1, <1>6, TurnFailsDoes, SaveEndsDoes DEF Over, Moves
        <2>2. TurnsGrow({})
            BY <2>1, ClosesDoes DEF TurnsGrow
        <2>3. memory' = memory
            BY <1>6 DEF TurnFails, SaveEnds
        <2> QED
            BY <1>2, <1>3, <2>1, <2>2, <2>3 DEF Over
    <1>7. CASE UploadFails(r) \/ DeleteRemoves(r)
        <2>1. objects' = objects /\ memory' = memory
            BY <1>7 DEF UploadFails, DeleteRemoves, sessions
        <2>2. TurnsGrow({}) /\ requests'[r].pc \in {"failed", "answered"}
            BY <1>7, <2>1, UploadFailsDoes, DeleteRemovesDoes DEF TurnsGrow
        <2> QED
            BY <1>2, <1>3, <2>1, <2>2
    <1>8. CASE DeletePops(r)
        <2>1. objects' = objects
            BY <1>8 DEF DeletePops
        <2>2. /\ TurnsGrow({}) /\ requests'[r].pc = "rmtree"
              /\ \A s \in Sessions : memory'[s] = 0 \/ memory'[s] = memory[s]
            BY <1>8, <2>1, DeletePopsDoes DEF TurnsGrow
        <2> QED
            BY <1>2, <1>3, <2>2
    <1>9. CASE ViewEnters(r)
        <2>1. objects' = objects
            BY <1>9 DEF ViewEnters
        <2>2. /\ TurnsGrow({}) /\ requests'[r].pc = "answered" /\ requests[r].pc = "enter"
              /\ requests[r].session \in Sessions
              /\ memory'[requests[r].session] = requests[r].object
              /\ \A s \in Sessions : s # requests[r].session => memory'[s] = memory[s]
            BY <1>9, <2>1, ViewEntersDoes DEF TurnsGrow
        <2>3. \A s \in Sessions : memory'[s] = 0 \/ memory'[s] \in Copies(s)
            BY <1>3, <2>2 DEF Copies, At
        <2> QED
            BY <1>2, <2>2, <2>3
    <1>10. CASE UploadStores(r)
        <2> DEFINE u == requests[r].session
        <2>1. /\ requests'[r].pc = "save" /\ requests[r].pc = "read" /\ u \in Sessions
              /\ requests'[r].saves = Held(u) /\ Held(u) # 0 /\ memory'[u] = Held(u)
              /\ \A q \in Sessions : q # u => memory'[q] = memory[q]
              /\ Held(u) \in DOMAIN Opened(u) /\ DOMAIN objects' = DOMAIN Opened(u)
              /\ objects'[Held(u)].turns = Opened(u)[Held(u)].turns \cup {r}
              /\ \A p \in DOMAIN Opened(u) : p # Held(u) => objects'[p] = Opened(u)[p]
            BY <1>10, UploadStoresDoes
        <2>2. /\ \A p \in DOMAIN objects : p \in DOMAIN Opened(u) /\ Opened(u)[p] = objects[p]
              /\ memory[u] # 0 => Held(u) = memory[u]
              /\ memory[u] = 0 => Opened(u)[Held(u)] = FromDisk(u)
            BY <2>1, OpenedIs
        <2>3. TurnsGrow({r})
            BY <2>1, <2>2 DEF TurnsGrow
        <2>4. ASSUME NEW s \in Sessions, NEW o \in Copies(s)'
              PROVE  Follows(objects'[o].turns, s, {r})
            <3>1. o \in Copies(s) \/ o = memory'[s]
                BY <1>1, <2>1, <2>4, CopiesMove
            <3>2. CASE o \in Copies(s)
                BY <2>3, <3>2, OldCopiesFollow
            <3>3. CASE o \notin Copies(s) /\ o = memory'[s]
                <4>1. s = u /\ memory[u] = 0
                    BY <2>1, <2>2, <3>3 DEF Copies
                <4>2. objects'[o].turns = FromDisk(s).turns \cup {r}
                    BY <2>1, <2>2, <3>3, <4>1
                <4> QED
                    BY <4>2 DEF Follows, Sources
            <3> QED
                BY <3>1, <3>2, <3>3
        <2> QED
            BY <2>1, <2>4 DEF CopiesFollow
    <1> QED
        BY <1>4, <1>5, <1>6, <1>7, <1>8, <1>9, <1>10 DEF StoreSteps

LEMMA ArrivalsFollow ==
    ASSUME BasicInv, Arrivals
    PROVE  CopiesFollow({})
PROOF
    <1>0. PICK n : n = Arriving
        OBVIOUS
    <1>1. /\ Requests' = Requests \cup {n} /\ n \notin Requests
          /\ \A q \in Requests : requests'[q] = requests[q]
          /\ requests'[n].pc # "save"
        BY <1>0, ArrivalsDo DEF Comings, Comes
    <1>2. ASSUME NEW s \in Sessions, Arrives(s)
          PROVE  /\ objects' = objects \/ objects' = Opened(s)
                 /\ memory' = memory \/ Loads(s)
                 /\ requests'[n].pc = "enter" =>
                       /\ requests'[n].session = s /\ requests'[n].object = Held(s)
                       /\ memory[s] = 0 /\ objects' = Opened(s)
        <2>1. objects' = objects \/ objects' = Opened(s)
            BY <1>2 DEF Arrives, StreamArrives, ChatArrives, TurnIsRejected, UploadArrives,
                        ActionArrives, StopArrives, DeleteArrives, ViewArrives, sessions
        <2>2. memory' = memory \/ Loads(s)
            <3>1. StreamArrives(s) => memory' = memory \/ Loads(s)
                BY StreamArrivesDoes
            <3>2. ChatArrives(s) \/ TurnIsRejected(s) => Loads(s)
                BY ChatArrivesDoes, TurnIsRejectedDoes
            <3>3. UploadArrives(s) \/ ActionArrives(s) \/ StopArrives(s) \/ DeleteArrives(s)
                     \/ ViewArrives(s) => memory' = memory
                BY DEF UploadArrives, ActionArrives, StopArrives, DeleteArrives, ViewArrives, sessions
            <3> QED
                BY <1>2, <3>1, <3>2, <3>3 DEF Arrives
        <2>3. requests'[n].pc = "enter" => ViewArrives(s)
            BY <1>0, <1>2, StreamArrivesDoes, ChatArrivesDoes, TurnIsRejectedDoes, UploadArrivesDoes,
               ActionArrivesDoes, StopArrivesDoes, DeleteArrivesDoes DEF Arrives, Over
        <2>4. requests'[n].pc = "enter" =>
                 /\ requests'[n].session = s /\ requests'[n].object = Held(s)
                 /\ memory[s] = 0 /\ objects' = Opened(s)
            BY <1>0, <2>3, ViewArrivesDoes
        <2> QED
            BY <2>1, <2>2, <2>4
    <1>3. ComputeArrives =>
             objects' = objects /\ memory' = memory /\ requests'[n].pc # "enter"
        BY <1>0, ComputeArrivesDoes DEF ComputeArrives, sessions
    <1>4. TurnsGrow({})
        BY <1>2, <1>3, OpenedIs DEF TurnsGrow, Arrivals
    <1> SUFFICES ASSUME NEW q \in Sessions, NEW o \in Copies(q)'
                 PROVE  Follows(objects'[o].turns, q, {})
        BY DEF CopiesFollow
    <1>5. CASE o \in Copies(q)
        BY <1>4, <1>5, OldCopiesFollow
    <1>6. CASE o \notin Copies(q)
        <2>1. ASSUME NEW x \in Requests, requests[x] = requests'[x]
              PROVE  /\ x \in At("enter", q)' => requests'[x].object = 0 \/ requests'[x].object \in Copies(q)
                     /\ x \in At("save", q)' => requests'[x].saves = 0 \/ requests'[x].saves \in Copies(q)
            BY <2>1 DEF At, Copies
        <2>2. \/ o = memory'[q]
              \/ n \in At("enter", q)' /\ o = requests'[n].object
            <3>1. n \notin At("save", q)'
                BY <1>1 DEF At
            <3>2. At("save", q)' \subseteq Requests /\ At("enter", q)' \subseteq Requests \cup {n}
                BY <1>1, <3>1 DEF At
            <3>3. o # 0
                BY DEF Copies
            <3> QED
                BY <1>1, <1>6, <2>1, <3>2, <3>3 DEF Copies
        <2>3. memory[q] # 0 => memory[q] \in Copies(q)
            BY DEF Copies
        <2>4. PICK s \in Sessions : Arrives(s)
            BY <1>3, <1>6, <2>2, <2>3 DEF Arrivals, Copies, At
        <2>5. q = s /\ o = Held(s) /\ memory[s] = 0 /\ objects' = Opened(s)
            <3>1. CASE n \in At("enter", q)' /\ o = requests'[n].object
                BY <1>2, <2>4, <3>1 DEF At
            <3>2. CASE o = memory'[q]
                <4>1. memory'[q] # memory[q]
                    BY <1>6, <2>3, <3>2 DEF Copies
                <4>2. Loads(s)
                    BY <1>2, <2>4, <4>1
                <4>3. q = s /\ o = Held(s) /\ objects' = Opened(s)
                    BY <3>2, <4>1, <4>2 DEF Loads
                <4> QED
                    BY <3>2, <4>1, <4>3 DEF Held
            <3> QED
                BY <2>2, <3>1, <3>2
        <2>6. objects'[o].turns = FromDisk(q).turns
            BY <2>5, OpenedIs
        <2> QED
            BY <2>6 DEF Follows, Sources
    <1> QED
        BY <1>5, <1>6

\* The file of a session is one of its copies, or gone after a deletion.
LEMMA DiskFollows ==
    ASSUME BasicInv, [Next]_vars, ~Restart, NEW s \in Sessions
    PROVE  \/ disk'[s] = disk[s]
           \/ disk'[s] # NoFile /\ disk'[s].turns \in Sources(s)
           \/ \E d \in Requests :
                 /\ disk'[s] = NoFile
                 /\ requests[d].kind = "delete" /\ requests[d].session = s
                 /\ requests[d].pc = "rmtree" /\ requests'[d].pc = "answered"
PROOF
    <1>1. CASE UNCHANGED vars
        BY <1>1 DEF vars, sessions
    <1>2. CASE Arrivals
        BY <1>2, ArrivalsDo DEF Comings
    <1>3. ASSUME NEW r \in Requests, DriveSteps(r)
          PROVE  disk' = disk
        BY <1>3, DriveStepsDo DEF Drives
    <1>4. ASSUME NEW r \in Requests, SaveEnds(r)
          PROVE  disk'[s] = disk[s] \/ (disk'[s] # NoFile /\ disk'[s].turns \in Sources(s))
        <2>1. /\ \A q \in Sessions : q # requests[r].session => disk'[q] = disk[q]
              /\ \/ disk'[requests[r].session] = disk[requests[r].session]
                 \/ /\ requests[r].saves # 0 /\ disk'[requests[r].session] # NoFile
                    /\ disk'[requests[r].session].turns = objects[requests[r].saves].turns
              /\ requests[r].pc = "save"
            BY <1>4, SaveEndsDoes
        <2>2. requests[r].session = s /\ requests[r].saves # 0 => requests[r].saves \in Copies(s)
            BY <2>1 DEF Copies, At
        <2> QED
            BY <2>1, <2>2 DEF Sources
    <1>5. ASSUME NEW r \in Requests, DeleteRemoves(r)
          PROVE  \/ disk'[s] = disk[s]
                 \/ /\ disk'[s] = NoFile
                    /\ requests[r].kind = "delete" /\ requests[r].session = s
                    /\ requests[r].pc = "rmtree" /\ requests'[r].pc = "answered"
        BY <1>5, DeleteRemovesDoes
    <1>6. ASSUME NEW r \in Requests, StoreSteps(r), ~SaveEnds(r), ~DeleteRemoves(r)
          PROVE  disk' = disk
        BY <1>6 DEF StoreSteps, WorkerStarts, TurnReturns, TurnFails, UploadStores, UploadFails,
                    DeletePops, ViewEnters, sessions
    <1> QED
        BY <1>1, <1>2, <1>3, <1>4, <1>5, <1>6, NextIs

\* The object of a session is another one only after a deletion or a view.
LEMMA MemoryStays ==
    ASSUME BasicInv, [Next]_vars, ~Restart, NEW s \in Sessions, memory[s] # 0
    PROVE  \/ memory'[s] = memory[s]
           \/ \E x \in InFlight :
                 requests[x].session = s /\ x \in Deletes \cup Views
PROOF
    <1>1. CASE UNCHANGED vars
        BY <1>1 DEF vars, sessions
    <1>2. CASE Arrivals
        <2>1. ASSUME NEW q \in Sessions, Arrives(q)
              PROVE  memory' = memory \/ Loads(q)
            <3>1. StreamArrives(q) => memory' = memory \/ Loads(q)
                BY StreamArrivesDoes
            <3>2. ChatArrives(q) \/ TurnIsRejected(q) => Loads(q)
                BY ChatArrivesDoes, TurnIsRejectedDoes
            <3>3. UploadArrives(q) \/ ActionArrives(q) \/ StopArrives(q) \/ DeleteArrives(q)
                     \/ ViewArrives(q) => memory' = memory
                BY DEF UploadArrives, ActionArrives, StopArrives, DeleteArrives, ViewArrives, sessions
            <3> QED
                BY <2>1, <3>1, <3>2, <3>3 DEF Arrives
        <2> QED
            BY <1>2, <2>1 DEF Arrivals, ComputeArrives, sessions, Loads, Held
    <1>3. ASSUME NEW r \in Requests, DriveSteps(r)
          PROVE  memory' = memory
        BY <1>3, DriveStepsDo DEF Drives
    <1>4. ASSUME NEW r \in Requests, DeletePops(r) \/ ViewEnters(r)
          PROVE  memory'[s] = memory[s] \/ (requests[r].session = s /\ r \in InFlight /\ r \in Deletes \cup Views)
        <2>1. /\ requests[r].pc \in {"pop", "enter"} /\ requests[r].kind \in {"delete", "view"}
              /\ s # requests[r].session => memory'[s] = memory[s]
            BY <1>4, DeletePopsDoes, ViewEntersDoes
        <2> QED
            BY <2>1 DEF Deletes, Views, InFlight, Over
    <1>5. ASSUME NEW r \in Requests, UploadStores(r)
          PROVE  memory'[s] = memory[s]
        BY <1>5, UploadStoresDoes DEF Held
    <1>6. ASSUME NEW r \in Requests, StoreSteps(r), ~DeletePops(r), ~ViewEnters(r), ~UploadStores(r)
          PROVE  memory' = memory
        BY <1>6 DEF StoreSteps, WorkerStarts, TurnReturns, TurnFails, SaveEnds, UploadFails,
                    DeleteRemoves, sessions
    <1> QED
        BY <1>1, <1>2, <1>3, <1>4, <1>5, <1>6, NextIs

LEMMA CopiesStep ==
    ASSUME BasicInv, [Next]_vars, ~Restart
    PROVE  \E added \in SUBSET InFlight :
              CopiesFollow(added) /\ \A r \in added : requests'[r].pc = "save"
PROOF
    <1>1. CASE UNCHANGED vars
        <2>1. objects' = objects /\ memory' = memory /\ requests' = requests
            BY <1>1 DEF vars, sessions
        <2>2. TurnsGrow({})
            BY <2>1 DEF TurnsGrow
        <2>3. \A s \in Sessions : Copies(s)' = Copies(s)
            BY <2>1 DEF Copies, At, Requests
        <2>4. CopiesFollow({})
            BY <2>2, <2>3, OldCopiesFollow DEF CopiesFollow
        <2> QED
            BY <2>4
    <1>2. CASE Arrivals
        BY <1>2, ArrivalsFollow
    <1>3. ASSUME NEW r \in Requests, DriveSteps(r)
          PROVE  CopiesFollow({})
        BY <1>3, DriveStepsDo, DrivesFollow
    <1>4. ASSUME NEW r \in Requests, StoreSteps(r)
          PROVE  \E added \in SUBSET InFlight :
                    CopiesFollow(added) /\ \A q \in added : requests'[q].pc = "save"
        <2>1. r \in InFlight
            BY <1>4, StoreStepsDo DEF Stores, Moves, InFlight
        <2>2. CASE CopiesFollow({})
            BY <2>2
        <2>3. CASE CopiesFollow({r}) /\ requests'[r].pc = "save"
            <3>1. {r} \in SUBSET InFlight
                BY <2>1
            <3>2. \A q \in {r} : requests'[q].pc = "save"
                BY <2>3
            <3> QED
                BY <2>3, <3>1, <3>2, Zenon
        <2> QED
            BY <1>4, <2>2, <2>3, StoresFollow
    <1> QED
        BY <1>1, <1>2, <1>3, <1>4, NextIs

-----------------------------------------------------------------------------
(* What was answered is kept *)

LEMMA ExcusePersists ==
    ASSUME Onward, Firm, NEW r \in Requests, Excused(r)
    PROVE  Excused(r)'
PROOF
    <1>1. \A x \in Requests : Same(x, r)' <=> Same(x, r)
        BY Persists
    <1>2. \A x \in Requests : Overlap(x, r)' <=> Overlap(x, r)
        BY Persists
    <1>3. \A x \in Requests : (x \in Deletes => x \in Deletes') /\ (x \in Views => x \in Views')
        BY Persists
    <1>4. Deletes \subseteq Requests /\ Views \subseteq Requests
        BY DEF Deletes, Views
    <1> QED
        BY <1>1, <1>2, <1>3, <1>4 DEF Excused

\* A deletion or a view in flight excuses what is in flight with it ...
LEMMA InFlightExcuses ==
    ASSUME BasicInv, NEW r \in InFlight, NEW x \in InFlight, Same(x, r),
           x \in Deletes \cup Views, r \notin Deletes \cup Views
    PROVE  Excused(r)
PROOF
    <1>1. Overlap(x, r)
        BY TogetherOverlap
    <1> QED
        BY <1>1 DEF Excused

\* ... and a deletion also what came after it or was answered before it.
LEMMA DeletionExcuses ==
    ASSUME BasicInv, NEW r \in Requests, NEW d \in Deletes \cap InFlight, Same(d, r), r # d,
           requests[r].pc # "refused"
    PROVE  Excused(r)
PROOF
    <1>1. r \in Nat /\ d \in Nat /\ d \in Requests
        BY Typed DEF BasicInv, Deletes
    <1>2. CASE d > r
        BY <1>2 DEF Excused
    <1>3. CASE d < r
        <2>1. d \in requests[r].peers
            BY <1>1, <1>3 DEF BasicInv, PeersInv
        <2> QED
            BY <2>1 DEF Excused, Overlap
    <1> QED
        BY <1>1, <1>2, <1>3

LEMMA KeptAreNeither ==
    ASSUME NEW r \in Requests, requests[r].kind \in KeptKinds
    PROVE  r \notin Deletes \cup Views
PROOF
    BY DEF KeptKinds, TurnKinds, Deletes, Views

\* The object of a session stays the one an unexcused request in flight has.
LEMMA UnexcusedMemory ==
    ASSUME BasicInv, [Next]_vars, ~Restart, NEW r \in InFlight,
           requests[r].kind \in KeptKinds, ~Excused(r), memory[requests[r].session] # 0
    PROVE  memory'[requests[r].session] = memory[requests[r].session]
PROOF
    <1>1. r \in Requests
        BY DEF InFlight
    <1>2. requests[r].session \in Sessions
        BY <1>1, AtHome DEF KeptKinds, TurnKinds
    <1>3. r \notin Deletes \cup Views
        BY <1>1, KeptAreNeither
    <1> QED
        BY <1>2, <1>3, MemoryStays, InFlightExcuses DEF Same

\* Only the end of its save answers a turn or an upload.
LEMMA SavesAnswer ==
    ASSUME BasicInv, [Next]_vars, NEW r \in Requests', r \in Answered', r \notin Answered,
           requests'[r].kind \in KeptKinds
    PROVE  r \in Requests /\ SaveEnds(r)
PROOF
    <1>1. Onward
        BY EveryStep
    <1>2. requests'[r].pc = "answered" /\ (r \in Requests => requests[r].pc # "answered")
        BY DEF Answered
    <1>3. "stop" \notin KeptKinds /\ "view" \notin KeptKinds /\ "delete" \notin KeptKinds
          /\ "action" \notin KeptKinds /\ "compute" \notin KeptKinds
        BY DEF KeptKinds, TurnKinds
    <1>4. CASE UNCHANGED vars
        BY <1>2, <1>4 DEF vars, Requests
    <1>5. CASE Restart
        BY <1>2, <1>5, RestartDoes
    <1>6. CASE Arrivals
        BY <1>2, <1>3, <1>6, ArrivalsDo DEF Comings, Comes
    <1>7. ASSUME NEW q \in Requests, DriveSteps(q)
          PROVE  FALSE
        <2>1. Drives(q)
            BY <1>7, DriveStepsDo
        <2>2. q = r
            BY <1>2, <2>1 DEF Drives, Moves
        <2>3. requests[q].kind \in TurnKinds
            BY <1>1, <1>3, <2>1, <2>2, KindsAt DEF Drives, EnginePlaces, Onward
        <2> QED
            BY <1>2, <2>1, <2>2, <2>3 DEF Drives, Over
    <1>8. ASSUME NEW q \in Requests, StoreSteps(q)
          PROVE  r \in Requests /\ SaveEnds(r)
        <2>1. q = r /\ requests[r].kind \in KeptKinds /\ requests'[r].pc = "answered"
            BY <1>1, <1>2, <1>8, StoreStepsDo DEF Stores, Moves, Onward
        <2>2. ~(WorkerStarts(q) \/ TurnReturns(q) \/ TurnFails(q) \/ UploadStores(q) \/ UploadFails(q))
            BY <2>1, WorkerStartsDoes, TurnReturnsDoes, TurnFailsDoes, UploadStoresDoes,
               UploadFailsDoes
        <2>3. ~(DeletePops(q) \/ DeleteRemoves(q) \/ ViewEnters(q))
            BY <1>3, <2>1, DeletePopsDoes, DeleteRemovesDoes, ViewEntersDoes
        <2> QED
            BY <1>8, <2>1, <2>2, <2>3 DEF StoreSteps
    <1> QED
        BY <1>4, <1>5, <1>6, <1>7, <1>8, NextIs

\* An answered turn: it is in every source of its session.
LEMMA AnsweredStep ==
    ASSUME BasicInv, KeptInv, [Next]_vars, ~Restart, NEW r \in Answered,
           requests[r].kind \in KeptKinds, ~Excused(r),
           NEW s \in Sessions, s = requests[r].session
    PROVE  /\ disk'[s] # NoFile /\ r \in disk'[s].turns
           /\ \A p \in Copies(s)' : r \in objects'[p].turns
PROOF
    <1>1. r \in Requests /\ requests[r].pc # "refused"
        BY DEF Answered
    <1>2. s \in Sessions
        BY <1>1, AtHome DEF KeptKinds, TurnKinds
    <1>3. /\ disk[s] # NoFile /\ r \in disk[s].turns
          /\ \A o \in Copies(s) : r \in objects[o].turns
        BY <1>1 DEF KeptInv
    <1>4. \A T \in Sources(s) : r \in T
        BY <1>3 DEF Sources, FromDisk
    <1>5. PICK added \in SUBSET InFlight : CopiesFollow(added)
        BY CopiesStep
    <1>6. \A o \in Copies(s)' : r \in objects'[o].turns
        BY <1>2, <1>4, <1>5 DEF CopiesFollow, Follows
    <1>7. ASSUME NEW d \in Requests, requests[d].kind = "delete", requests[d].session = s,
                 requests[d].pc = "rmtree"
          PROVE  FALSE
        <2>1. d \in Deletes \cap InFlight /\ Same(d, r) /\ r # d
            BY <1>1, <1>7, KeptAreNeither DEF Deletes, InFlight, Over, Same
        <2> QED
            BY <1>1, <2>1, DeletionExcuses
    <1>8. disk'[s] # NoFile /\ r \in disk'[s].turns
        BY <1>2, <1>3, <1>4, <1>7, DiskFollows
    <1> QED
        BY <1>6, <1>8

\* A turn that is answered now: the save wrote the only copy there is.
LEMMA AnswerStep ==
    ASSUME BasicInv, KeptInv, [Next]_vars, NEW r \in Requests, SaveEnds(r),
           requests'[r].pc = "answered", ~Excused(r),
           NEW s \in Sessions, s = requests[r].session,
           NEW o, o = requests[r].saves
    PROVE  /\ disk'[s] # NoFile /\ r \in disk'[s].turns
           /\ \A p \in Copies(s)' : r \in objects'[p].turns
PROOF
    <1>1. /\ requests[r].pc = "save" /\ requests[r].kind \in KeptKinds /\ s \in Sessions
          /\ Closes(r) /\ Moves(r)
          /\ \/ disk'[s] = disk[s] /\ (o # 0 => requests'[r].pc = "failed")
             \/ o # 0 /\ disk'[s] # NoFile /\ disk'[s].turns = objects[o].turns
        BY SaveEndsDoes
    <1>2. memory[s] = o /\ o # 0 /\ r \in objects[o].turns
        BY <1>1 DEF KeptInv
    <1>3. disk'[s] # NoFile /\ r \in disk'[s].turns
        BY <1>1, <1>2
    <1>4. r \in InFlight
        BY <1>1 DEF InFlight, Over
    <1>5. At("enter", s)' = {}
        <2> SUFFICES ASSUME NEW v \in At("enter", s)'
                     PROVE  FALSE
            OBVIOUS
        <2>1. v \in Requests /\ v # r /\ requests[v].pc = "enter" /\ requests[v].session = s
            BY <1>1 DEF At, Moves
        <2>2. v \in InFlight /\ v \in Views
            BY <2>1, KindsAt DEF InFlight, Over, Views
        <2>3. r \notin Deletes \cup Views
            BY <1>1, KeptAreNeither
        <2> QED
            BY <1>4, <2>1, <2>2, <2>3, InFlightExcuses DEF Same
    <1>6. At("save", s)' = {}
        <2> SUFFICES ASSUME NEW x \in At("save", s)'
                     PROVE  FALSE
            OBVIOUS
        <2>1. x \in Requests /\ x # r /\ requests[x].pc = "save"
            BY <1>1 DEF At, Moves
        <2> QED
            BY <1>1, <2>1 DEF BasicInv, PeersInv
    <1>7. memory' = memory
        BY DEF SaveEnds
    <1>8. o \in DOMAIN objects
        <2>1. o \in Copies(s)
            BY <1>2 DEF Copies
        <2> QED
            BY <1>1, <2>1, CopiesKnown
    <1>9. r \in objects'[o].turns
        <2>1. requests[r].pc \notin Over
            BY <1>4 DEF InFlight
        <2> QED
            BY <1>1, <1>2, <1>8, <2>1, ClosesDoes
    <1>10. \A p \in Copies(s)' : p = o
        BY <1>2, <1>5, <1>6, <1>7 DEF Copies
    <1> QED
        BY <1>3, <1>9, <1>10

\* Which steps bring a request to a save, to the removal of the files, or to the
\* answer of a deletion; and a request in flight keeps its object.
LEMMA Turnings ==
    ASSUME BasicInv, [Next]_vars, ~Restart, NEW r \in Requests
    PROVE  /\ requests'[r].pc = "save" /\ requests[r].pc # "save" => TurnReturns(r) \/ UploadStores(r)
           /\ requests'[r].pc = "save" /\ requests[r].pc = "save" => requests'[r] = requests[r]
           /\ requests'[r].pc = "rmtree" /\ requests[r].pc # "rmtree" => DeletePops(r)
           /\ requests[r].kind = "delete" /\ requests'[r].pc = "answered"
                /\ requests[r].pc # "answered" => DeleteRemoves(r)
           /\ r \in InFlight' => requests'[r].object = requests[r].object
PROOF
    <1> DEFINE Goal ==
            /\ requests'[r].pc = "save" /\ requests[r].pc # "save" => TurnReturns(r) \/ UploadStores(r)
            /\ requests'[r].pc = "save" /\ requests[r].pc = "save" => requests'[r] = requests[r]
            /\ requests'[r].pc = "rmtree" /\ requests[r].pc # "rmtree" => DeletePops(r)
            /\ requests[r].kind = "delete" /\ requests'[r].pc = "answered"
                 /\ requests[r].pc # "answered" => DeleteRemoves(r)
            /\ r \in InFlight' => requests'[r].object = requests[r].object
    <1>1. ASSUME requests'[r] = requests[r]
          PROVE  Goal
        BY <1>1
    <1>2. CASE UNCHANGED vars
        BY <1>1, <1>2 DEF vars
    <1>3. CASE Arrivals
        BY <1>1, <1>3, ArrivalsDo DEF Comings, Comes
    <1>4. ASSUME NEW q \in Requests, DriveSteps(q)
          PROVE  Goal
        <2>1. Drives(q)
            BY <1>4, DriveStepsDo
        <2>2. CASE q = r
            <3>1. requests'[r].pc \notin {"save", "rmtree"} /\ requests[r].kind # "delete"
                BY <2>1, <2>2, KindsAt DEF Drives, EnginePlaces, DrivePlaces, TurnKinds
            <3>2. r \in InFlight' => requests'[r].object = requests[r].object
                BY <2>1, <2>2 DEF Drives, InFlight
            <3> QED
                BY <3>1, <3>2
        <2>3. CASE q # r
            BY <1>1, <2>1, <2>3 DEF Drives, Moves
        <2> QED
            BY <2>2, <2>3
    <1>5. ASSUME NEW q \in Requests, StoreSteps(q)
          PROVE  Goal
        <2>1. Stores(q)
            BY <1>5, StoreStepsDo
        <2>2. CASE q = r
            <3>1. r \in InFlight' => requests'[r].object = requests[r].object
                BY <2>1, <2>2 DEF Stores, InFlight
            <3>2. \/ TurnReturns(r) \/ UploadStores(r)
                  \/ requests'[r].pc # "save"
                BY <1>5, <2>2, WorkerStartsDoes, TurnFailsDoes, SaveEndsDoes, UploadFailsDoes,
                   DeletePopsDoes, DeleteRemovesDoes, ViewEntersDoes DEF StoreSteps
            <3>3. TurnReturns(r) \/ UploadStores(r) => requests[r].pc # "save"
                BY TurnReturnsDoes, UploadStoresDoes
            <3>4. DeletePops(r) \/ requests'[r].pc # "rmtree"
                BY <1>5, <2>2, WorkerStartsDoes, TurnFailsDoes, SaveEndsDoes, UploadFailsDoes,
                   TurnReturnsDoes, UploadStoresDoes, DeleteRemovesDoes, ViewEntersDoes DEF StoreSteps
            <3>5. \/ DeleteRemoves(r) \/ requests'[r].pc # "answered" \/ requests[r].kind # "delete"
                BY <1>5, <2>2, WorkerStartsDoes, TurnFailsDoes, SaveEndsDoes, UploadFailsDoes,
                   TurnReturnsDoes, UploadStoresDoes, DeletePopsDoes, ViewEntersDoes
                   DEF StoreSteps, KeptKinds, TurnKinds
            <3> QED
                BY <3>1, <3>2, <3>3, <3>4, <3>5
        <2>3. CASE q # r
            BY <1>1, <2>1, <2>3 DEF Stores, Moves
        <2> QED
            BY <2>2, <2>3
    <1>6. Goal
        BY <1>2, <1>3, <1>4, <1>5, NextIs
    <1> QED
        BY <1>6

\* No object loses a turn.
LEMMA TurnsStay ==
    ASSUME BasicInv, [Next]_vars, ~Restart, NEW o \in DOMAIN objects
    PROVE  o \in DOMAIN objects' /\ objects[o].turns \subseteq objects'[o].turns
PROOF
    <1>1. CASE objects' = objects
        BY <1>1
    <1>2. CASE UNCHANGED vars
        BY <1>1, <1>2 DEF vars, sessions
    <1>3. CASE Arrivals
        <2>1. objects' = objects \/ \E s \in Sessions : objects' = Opened(s)
            BY <1>3 DEF Arrivals, ComputeArrives, Arrives, StreamArrives, ChatArrives, TurnIsRejected,
                        UploadArrives, ActionArrives, StopArrives, DeleteArrives, ViewArrives, sessions
        <2> QED
            BY <1>1, <2>1, OpenedIs
    <1>4. ASSUME NEW r \in Requests, DriveSteps(r)
          PROVE  objects' = objects
        BY <1>4, DriveStepsDo DEF Drives
    <1>5. ASSUME NEW r \in Requests, WorkerStarts(r) \/ TurnReturns(r)
          PROVE  o \in DOMAIN objects' /\ objects[o].turns \subseteq objects'[o].turns
        BY <1>5, WorkerStartsDoes, TurnReturnsDoes
    <1>6. ASSUME NEW r \in Requests, TurnFails(r) \/ SaveEnds(r)
          PROVE  o \in DOMAIN objects' /\ objects[o].turns \subseteq objects'[o].turns
        <2>1. Closes(r) /\ requests[r].pc \notin Over
            BY <1>6, TurnFailsDoes, SaveEndsDoes DEF Over
        <2> QED
            BY <2>1, ClosesDoes
    <1>7. ASSUME NEW r \in Requests, UploadStores(r)
          PROVE  o \in DOMAIN objects' /\ objects[o].turns \subseteq objects'[o].turns
        <2> DEFINE s == requests[r].session
        <2>1. /\ s \in Sessions /\ DOMAIN objects' = DOMAIN Opened(s)
              /\ objects'[Held(s)].turns = Opened(s)[Held(s)].turns \cup {r}
              /\ \A p \in DOMAIN Opened(s) : p # Held(s) => objects'[p] = Opened(s)[p]
            BY <1>7, UploadStoresDoes
        <2>2. o \in DOMAIN Opened(s) /\ Opened(s)[o] = objects[o]
            BY <2>1, OpenedIs
        <2> QED
            BY <2>1, <2>2
    <1>8. ASSUME NEW r \in Requests, UploadFails(r) \/ DeletePops(r) \/ DeleteRemoves(r) \/ ViewEnters(r)
          PROVE  objects' = objects
        BY <1>8 DEF UploadFails, DeletePops, DeleteRemoves, ViewEnters, sessions
    <1> QED
        BY <1>1, <1>2, <1>3, <1>4, <1>5, <1>6, <1>7, <1>8, NextIs DEF StoreSteps

\* A request that was not there has just arrived.
LEMMA NewcomersArrive ==
    ASSUME BasicInv, [Next]_vars, NEW r \in Requests', r \notin Requests
    PROVE  Arrivals /\ r = Arriving
PROOF
    <1>1. Requests' = Requests \/ Arrivals
        <2>1. UNCHANGED vars => Requests' = Requests
            BY DEF vars, Requests
        <2>2. \A q \in Requests : DriveSteps(q) \/ StoreSteps(q) => Requests' = Requests
            BY DriveStepsDo, StoreStepsDo DEF Drives, Stores, Moves
        <2>3. Restart => Requests' = Requests
            BY RestartDoes
        <2> QED
            BY <2>1, <2>2, <2>3, NextIs
    <1> QED
        BY <1>1, ArrivalsDo DEF Comings, Comes

\* After a restart nothing has a copy of a session.
LEMMA RestartCopies ==
    ASSUME BasicInv, Restart, NEW s \in Sessions
    PROVE  Copies(s)' = {}
PROOF
    <1>1. \A q \in Requests' : requests'[q].pc \notin {"enter", "save"}
        BY RestartDoes DEF Over
    <1>2. At("enter", s)' = {} /\ At("save", s)' = {}
        BY <1>1 DEF At
    <1>3. memory'[s] = 0
        BY RestartDoes
    <1> QED
        BY <1>2, <1>3 DEF Copies

\* A turn or an upload goes on: where its session is, and what it saves.
LEMMA KeptGoesOn ==
    ASSUME BasicInv, KeptInv, [Next]_vars, ~Restart, NEW r \in Requests,
           requests[r].kind \in KeptKinds, ~Excused(r),
           NEW s \in Sessions, s = requests[r].session
    PROVE  /\ r \in InFlight' /\ requests[r].kind \in TurnKinds =>
                 memory'[s] = requests'[r].object
           /\ requests'[r].pc = "save" =>
                 /\ memory'[s] = requests'[r].saves
                 /\ requests'[r].saves # 0 /\ r \in objects'[requests'[r].saves].turns
PROOF
    <1>1. Onward /\ Firm
        BY EveryStep
    <1>2. r \in InFlight' => r \in InFlight
        BY <1>1, Persists
    <1>3. r \in InFlight /\ requests[r].kind \in TurnKinds =>
             /\ memory[s] = requests[r].object /\ requests[r].object \in DOMAIN objects
             /\ memory[s] # 0
        BY DEF KeptInv, BasicInv, PlaceInv, WebTypes
    <1>4. r \in InFlight /\ memory[s] # 0 => memory'[s] = memory[s]
        BY UnexcusedMemory
    <1>5. r \in InFlight' /\ requests[r].kind \in TurnKinds => memory'[s] = requests'[r].object
        BY <1>2, <1>3, <1>4, Turnings
    <1>6. ASSUME requests'[r].pc = "save"
          PROVE  /\ memory'[s] = requests'[r].saves
                 /\ requests'[r].saves # 0 /\ r \in objects'[requests'[r].saves].turns
        <2>1. r \in InFlight
            BY <1>1, <1>2, <1>6 DEF InFlight, Over, Onward
        <2>2. CASE requests[r].pc = "save"
            <3>1. requests'[r] = requests[r]
                BY <1>6, <2>2, Turnings
            <3>2. PICK o : o = requests[r].saves
                OBVIOUS
            <3>3. memory[s] = o /\ o # 0 /\ r \in objects[o].turns
                BY <2>2, <3>2 DEF KeptInv
            <3>4. o \in DOMAIN objects
                BY <3>3, CopiesKnown DEF Copies
            <3>5. r \in objects'[o].turns
                BY <3>3, <3>4, TurnsStay
            <3> QED
                BY <1>4, <2>1, <3>1, <3>2, <3>3, <3>5
        <2>3. CASE TurnReturns(r)
            <3>1. /\ requests'[r].saves = memory[s] /\ requests[r].kind \in TurnKinds
                  /\ r \in objects'[requests[r].object].turns
                BY <2>3, TurnReturnsDoes
            <3> QED
                BY <1>3, <1>4, <2>1, <3>1
        <2>4. CASE UploadStores(r)
            BY <2>4, UploadStoresDoes
        <2> QED
            BY <1>6, <2>2, <2>3, <2>4, Turnings
    <1> QED
        BY <1>5, <1>6

\* A turn or an upload arrives.
LEMMA KeptArrives ==
    ASSUME BasicInv, Arrivals, NEW r, r = Arriving, NEW s \in Sessions,
           requests'[r].session = s, requests'[r].kind \in KeptKinds
    PROVE  /\ requests'[r].pc \notin {"answered", "save"}
           /\ r \in InFlight' /\ requests'[r].kind \in TurnKinds => memory'[s] = requests'[r].object
PROOF
    <1>1. requests'[r].pc \notin {"answered", "save"}
        BY ArrivalsDo DEF Comings, KeptKinds, TurnKinds
    <1>2. ASSUME requests'[r].kind \in TurnKinds, r \in InFlight'
          PROVE  memory'[s] = requests'[r].object
        <2>1. PICK q \in Sessions : StreamArrives(q) \/ ChatArrives(q) \/ TurnIsRejected(q)
            <3>1. ~ComputeArrives
                BY <1>2, ComputeArrivesDoes DEF TurnKinds
            <3>2. \A q \in Sessions : ~(UploadArrives(q) \/ ActionArrives(q) \/ StopArrives(q)
                                          \/ DeleteArrives(q) \/ ViewArrives(q))
                BY <1>2, UploadArrivesDoes, ActionArrivesDoes, StopArrivesDoes, DeleteArrivesDoes,
                   ViewArrivesDoes DEF TurnKinds
            <3> QED
                BY <3>1, <3>2 DEF Arrivals, Arrives
        <2>2. requests'[r].pc # "refused"
            BY <1>2 DEF InFlight, Over
        <2>3. requests'[r].session = q /\ Loads(q) /\ requests'[r].object = Held(q)
            BY <2>1, <2>2, StreamArrivesDoes, ChatArrivesDoes, TurnIsRejectedDoes
        <2> QED
            BY <2>3 DEF Loads
    <1> QED
        BY <1>1, <1>2

LEMMA KeptStep ==
    ASSUME BasicInv, KeptInv, [Next]_vars
    PROVE  KeptInv'
PROOF
    <1>1. Onward /\ Firm
        BY EveryStep
    <1> SUFFICES ASSUME NEW s \in Sessions, NEW r \in Requests', requests'[r].session = s,
                        requests'[r].kind \in KeptKinds, ~Excused(r)'
                 PROVE  /\ r \in Answered' => /\ disk'[s] # NoFile /\ r \in disk'[s].turns
                                              /\ \A o \in Copies(s)' : r \in objects'[o].turns
                        /\ r \in InFlight' /\ requests'[r].kind \in TurnKinds =>
                              memory'[s] = requests'[r].object
                        /\ requests'[r].pc = "save" =>
                              /\ memory'[s] = requests'[r].saves
                              /\ requests'[r].saves # 0 /\ r \in objects'[requests'[r].saves].turns
        BY DEF KeptInv
    <1>2. CASE r \notin Requests
        BY <1>2, NewcomersArrive, KeptArrives DEF Answered
    <1>3. CASE r \in Requests
        <2>1. requests[r].session = s /\ requests[r].kind \in KeptKinds /\ ~Excused(r)
            BY <1>1, <1>3, ExcusePersists DEF Onward
        <2>2. requests'[r].kind = requests[r].kind
            BY <1>1, <1>3 DEF Onward
        <2>3. CASE Restart
            <3>1. requests'[r].pc \in Over /\ (r \in Answered' => r \in Answered) /\ disk' = disk
                BY <1>3, <2>3, RestartDoes DEF Answered
            <3>2. Copies(s)' = {}
                BY <2>3, RestartCopies
            <3>3. r \in Answered => disk[s] # NoFile /\ r \in disk[s].turns
                BY <1>3, <2>1 DEF KeptInv
            <3>4. r \notin InFlight' /\ requests'[r].pc # "save"
                BY <3>1 DEF InFlight, Over
            <3> QED
                BY <3>1, <3>2, <3>3, <3>4
        <2>4. CASE ~Restart
            <3>1. ASSUME r \in Answered'
                  PROVE  /\ disk'[s] # NoFile /\ r \in disk'[s].turns
                         /\ \A o \in Copies(s)' : r \in objects'[o].turns
                <4>1. CASE r \in Answered
                    BY <2>1, <2>4, <4>1, AnsweredStep
                <4>2. CASE r \notin Answered
                    <5>1. SaveEnds(r) /\ requests'[r].pc = "answered"
                        BY <3>1, <4>2, SavesAnswer DEF Answered
                    <5> QED
                        BY <1>3, <2>1, <5>1, AnswerStep
                <4> QED
                    BY <4>1, <4>2
            <3> QED
                BY <1>3, <2>1, <2>2, <2>4, <3>1, KeptGoesOn
        <2> QED
            BY <2>3, <2>4
    <1> QED
        BY <1>2, <1>3

-----------------------------------------------------------------------------
(* What was deleted stays gone *)

LEMMA CrossedPersists ==
    ASSUME Onward, Firm, NEW d \in Requests, Crossed(d)
    PROVE  Crossed(d)'
PROOF
    <1>1. PICK x \in Turns \cup Uploads \cup Views : Same(x, d) /\ Overlap(x, d)
        BY DEF Crossed
    <1>2. x \in Requests
        BY DEF Turns, Streams, Chats, Uploads, Views
    <1>3. Same(x, d)' /\ Overlap(x, d)'
        BY <1>1, <1>2, Persists
    <1>4. x \in Turns' \cup Uploads' \cup Views'
        BY <1>1, <1>2, Persists
    <1> QED
        BY <1>3, <1>4 DEF Crossed

\* A deletion in flight is crossed by what is in flight on its session.
LEMMA InFlightCrosses ==
    ASSUME BasicInv, NEW d \in Deletes \cap InFlight, NEW x \in InFlight, Same(x, d),
           requests[x].kind \in KeptKinds \cup {"view"}
    PROVE  Crossed(d)
PROOF
    <1>1. x \in Requests /\ d \in Requests
        BY DEF InFlight
    <1>2. x # d /\ x \in Turns \cup Uploads \cup Views
        BY <1>1 DEF Deletes, KeptKinds, TurnKinds, Turns, Streams, Chats, Uploads, Views
    <1>3. Overlap(x, d)
        BY <1>2, TogetherOverlap
    <1> QED
        BY <1>2, <1>3 DEF Crossed

\* And a deletion over by what is in flight and came before it.
LEMMA OlderCrosses ==
    ASSUME BasicInv, NEW d \in Deletes, NEW x \in InFlight, Same(x, d), x < d,
           requests[x].kind \in KeptKinds \cup {"view"}
    PROVE  Crossed(d)
PROOF
    <1>1. x \in Requests /\ d \in Requests /\ requests[d].pc # "refused"
        BY DEF InFlight, Deletes
    <1>2. x \in Turns \cup Uploads \cup Views
        BY <1>1 DEF KeptKinds, TurnKinds, Turns, Streams, Chats, Uploads, Views
    <1>3. x \in requests[d].peers
        BY <1>1 DEF BasicInv, PeersInv
    <1> QED
        BY <1>2, <1>3 DEF Crossed, Overlap

\* What enters a session into memory crosses every deletion in flight.
LEMMA EntriesCross ==
    ASSUME BasicInv, [Next]_vars, NEW d \in Deletes \cap InFlight, NEW s \in Sessions,
           requests[d].session = s, memory[s] = 0, memory'[s] # 0, ~Crossed(d)
    PROVE  Crossed(d)'
PROOF
    <1>1. Onward /\ Firm
        BY EveryStep
    <1>2. d \in Requests
        BY DEF InFlight
    <1>3. ~Restart /\ memory' # memory
        BY RestartDoes
    <1>4. ~UNCHANGED vars
        BY <1>3 DEF vars, sessions
    <1>5. ASSUME NEW x \in Requests, StoreSteps(x)
          PROVE  FALSE
        <2>1. UploadStores(x) \/ DeletePops(x) \/ ViewEnters(x)
            BY <1>3, <1>5 DEF StoreSteps, WorkerStarts, TurnReturns, TurnFails, SaveEnds, UploadFails,
                              DeleteRemoves, sessions
        <2>2. x \in InFlight
            BY <1>5, StoreStepsDo DEF Stores, Moves, InFlight
        <2>3. requests[x].session = s /\ requests[x].kind \in {"upload", "view"}
            BY <2>1, UploadStoresDoes, DeletePopsDoes, ViewEntersDoes
        <2>4. Same(x, d)
            BY <2>3 DEF Same
        <2> QED
            BY <2>2, <2>3, <2>4, InFlightCrosses DEF KeptKinds
    <1>6. \A x \in Requests : ~DriveSteps(x)
        BY <1>3, DriveStepsDo DEF Drives
    <1>7. Arrivals
        BY <1>3, <1>4, <1>5, <1>6, NextIs
    <1>8. PICK q \in Sessions : Arrives(q)
        BY <1>3, <1>7 DEF Arrivals, ComputeArrives, sessions
    <1>9. PICK n : n = Arriving
        OBVIOUS
    <1>10. StreamArrives(q) \/ ChatArrives(q) \/ TurnIsRejected(q)
        BY <1>3, <1>8 DEF Arrives, UploadArrives, ActionArrives, StopArrives, DeleteArrives, ViewArrives,
                          sessions
    <1>11. /\ requests'[n].kind \in TurnKinds /\ requests'[n].session = q
           /\ requests'[n].peers = InFlight /\ Loads(q)
        BY <1>3, <1>9, <1>10, StreamArrivesDoes, ChatArrivesDoes, TurnIsRejectedDoes DEF TurnKinds
    <1>12. q = s
        BY <1>11 DEF Loads
    <1>13. n \in Requests'
        BY <1>7, <1>9, ArrivalsDo DEF Comings, Comes
    <1>14. n \in Turns' /\ Same(n, d)' /\ Overlap(n, d)'
        <2>1. requests'[d].session = s
            BY <1>1, <1>2 DEF Onward
        <2> QED
            BY <1>11, <1>12, <1>13, <2>1 DEF TurnKinds, Turns, Streams, Chats, Same, Overlap
    <1> QED
        BY <1>14 DEF Crossed

\* A turn is younger than a deletion after the step.
StaysYoung(t, s, d) == t \in Requests' /\ (t > d \/ requests'[t].session # s)

\* The sources of a session stay younger than the deletion.
LEMMA GoneGoesOn ==
    ASSUME BasicInv, GoneInv, [Next]_vars, ~Restart, NEW s \in Sessions,
           NEW d \in Deletes \cap Answered, requests[d].session = s, ~Crossed(d)
    PROVE  /\ disk'[s] # NoFile => \A t \in disk'[s].turns : StaysYoung(t, s, d)
           /\ \A o \in Copies(s)' : \A t \in objects'[o].turns : StaysYoung(t, s, d)
PROOF
    <1>1. Onward /\ d \in Requests
        BY EveryStep DEF Deletes
    <1>2. \A T \in Sources(s) : Younger(T, s, d)
        <2>1. Younger({}, s, d)
            BY DEF Younger
        <2>2. Younger(FromDisk(s).turns, s, d)
            BY <2>1 DEF FromDisk, Fresh, GoneInv
        <2> QED
            BY <2>2 DEF Sources, GoneInv
    <1>3. PICK added \in SUBSET InFlight : CopiesFollow(added) /\ \A r \in added : requests'[r].pc = "save"
        BY CopiesStep
    <1>4. ASSUME NEW t \in added
          PROVE  t \in Requests /\ (t > d \/ requests[t].session # s)
        <2>1. t \in InFlight /\ t \in Requests /\ t \in Nat /\ d \in Nat
            BY <1>1, Typed DEF BasicInv
        <2>2. requests[t].kind \in KeptKinds
            BY <1>3, <2>1, Turnings, KindsAt, TurnReturnsDoes, UploadStoresDoes DEF KeptKinds
        <2>3. t # d
            BY <2>2 DEF Deletes, KeptKinds, TurnKinds
        <2> QED
            BY <2>1, <2>2, <2>3, OlderCrosses DEF Same
    <1>5. ASSUME NEW o \in Copies(s)', NEW t \in objects'[o].turns
          PROVE  StaysYoung(t, s, d)
        <2>1. PICK T \in Sources(s) : objects'[o].turns \subseteq T \cup added
            BY <1>3 DEF CopiesFollow, Follows
        <2>2. t \in Requests /\ (t > d \/ requests[t].session # s)
            BY <1>2, <1>4, <2>1 DEF Younger
        <2> QED
            BY <1>1, <2>2 DEF StaysYoung, Onward
    <1>6. ASSUME disk'[s] # NoFile, NEW t \in disk'[s].turns
          PROVE  StaysYoung(t, s, d)
        <2>1. disk'[s] = disk[s] \/ disk'[s].turns \in Sources(s)
            BY <1>6, DiskFollows
        <2>2. t \in Requests /\ (t > d \/ requests[t].session # s)
            BY <1>2, <1>6, <2>1 DEF GoneInv, Younger
        <2> QED
            BY <1>1, <2>2 DEF StaysYoung, Onward
    <1> QED
        BY <1>5, <1>6

\* A deletion that removes the files leaves no copy.
LEMMA RemovalGoes ==
    ASSUME BasicInv, GoneInv, NEW d \in Requests, DeleteRemoves(d), NEW s \in Sessions,
           requests[d].session = s, ~Crossed(d)
    PROVE  disk'[s] = NoFile /\ Copies(s)' = {}
PROOF
    <1>1. /\ Moves(d) /\ requests'[d].pc = "answered" /\ requests[d].pc = "rmtree"
          /\ requests[d].kind = "delete" /\ disk'[s] = NoFile
        BY DeleteRemovesDoes
    <1>2. d \in Deletes \cap InFlight
        BY <1>1 DEF Deletes, InFlight, Over
    <1>3. memory[s] = 0 /\ memory' = memory
        BY <1>1, <1>2 DEF GoneInv, DeleteRemoves
    <1>4. ASSUME NEW x \in Requests', requests'[x].pc \in {"enter", "save"}, requests'[x].session = s
          PROVE  FALSE
        <2>1. x \in Requests /\ requests[x] = requests'[x]
            BY <1>1, <1>4 DEF Moves
        <2>2. x \in InFlight /\ Same(x, d) /\ requests[x].kind \in KeptKinds \cup {"view"}
            BY <1>4, <2>1, KindsAt DEF InFlight, Over, Same
        <2> QED
            BY <1>2, <2>2, InFlightCrosses
    <1>5. At("enter", s)' = {} /\ At("save", s)' = {}
        BY <1>4 DEF At
    <1> QED
        BY <1>1, <1>3, <1>5 DEF Copies

LEMMA GoneStep ==
    ASSUME BasicInv, GoneInv, [Next]_vars
    PROVE  GoneInv'
PROOF
    <1>1. Onward /\ Firm
        BY EveryStep
    <1> SUFFICES ASSUME NEW s \in Sessions, NEW d \in Deletes', requests'[d].session = s, ~Crossed(d)'
                 PROVE  /\ requests'[d].pc = "rmtree" => memory'[s] = 0
                        /\ d \in Answered' =>
                              /\ disk'[s] # NoFile => \A t \in disk'[s].turns : StaysYoung(t, s, d)
                              /\ \A o \in Copies(s)' : \A t \in objects'[o].turns : StaysYoung(t, s, d)
        BY DEF GoneInv, Younger, StaysYoung
    <1>2. d \in Requests' /\ requests'[d].kind = "delete"
        BY DEF Deletes
    <1>3. CASE d \notin Requests
        <2>1. requests'[d].pc \notin {"rmtree", "answered"}
            BY <1>2, <1>3, NewcomersArrive, ArrivalsDo DEF Comings
        <2> QED
            BY <2>1 DEF Answered
    <1>4. CASE d \in Requests
        <2>1. d \in Deletes /\ requests[d].session = s /\ requests[d].kind = "delete" /\ ~Crossed(d)
            BY <1>1, <1>2, <1>4, Persists, CrossedPersists
        <2>2. CASE Restart
            <3>1. /\ requests'[d].pc # "rmtree" /\ (d \in Answered' => d \in Answered)
                  /\ disk' = disk
                BY <1>4, <2>2, RestartDoes DEF Answered, Over
            <3>2. Copies(s)' = {}
                BY <2>2, RestartCopies
            <3>3. d \in Answered /\ disk[s] # NoFile => Younger(disk[s].turns, s, d)
                BY <2>1 DEF GoneInv
            <3>4. d \in Answered /\ disk[s] # NoFile => \A t \in disk[s].turns : StaysYoung(t, s, d)
                BY <1>1, <3>3 DEF Younger, StaysYoung, Onward
            <3> QED
                BY <3>1, <3>2, <3>4
        <2>3. CASE ~Restart
            <3>1. ASSUME requests'[d].pc = "rmtree"
                  PROVE  memory'[s] = 0
                <4>1. CASE requests[d].pc = "rmtree"
                    <5>1. memory[s] = 0
                        BY <2>1, <4>1 DEF GoneInv
                    <5>2. d \in Deletes \cap InFlight
                        BY <1>4, <2>1, <4>1 DEF InFlight, Over
                    <5> QED
                        BY <2>1, <5>1, <5>2, EntriesCross
                <4>2. CASE requests[d].pc # "rmtree"
                    BY <1>4, <2>1, <2>3, <3>1, <4>2, Turnings, DeletePopsDoes
                <4> QED
                    BY <4>1, <4>2
            <3>2. ASSUME d \in Answered'
                  PROVE  /\ disk'[s] # NoFile => \A t \in disk'[s].turns : StaysYoung(t, s, d)
                         /\ \A o \in Copies(s)' : \A t \in objects'[o].turns : StaysYoung(t, s, d)
                <4>1. CASE d \in Answered
                    BY <2>1, <2>3, <4>1, GoneGoesOn
                <4>2. CASE d \notin Answered
                    <5>1. DeleteRemoves(d)
                        BY <1>4, <2>1, <2>3, <3>2, <4>2, Turnings DEF Answered
                    <5>2. disk'[s] = NoFile /\ Copies(s)' = {}
                        BY <1>4, <2>1, <5>1, RemovalGoes
                    <5> QED
                        BY <5>2
                <4> QED
                    BY <4>1, <4>2
            <3> QED
                BY <3>1, <3>2
        <2> QED
            BY <2>2, <2>3
    <1> QED
        BY <1>3, <1>4

-----------------------------------------------------------------------------
(* The theorems *)

WebInv ==
    /\ BasicInv /\ LiveInv /\ GuardInv /\ EnginesInv /\ EventInv /\ SweptInv
    /\ KeptInv /\ GoneInv

LEMMA WebStarts ==
    ASSUME Init
    PROVE  WebInv
PROOF
    <1>1. requests = <<>> /\ objects = <<>> /\ Requests = {} /\ DOMAIN objects = {} /\ Len(objects) = 0
        BY DEF Init, Requests
    <1>2. BasicInv
        <2>1. NoEngine \in EngineRecords
            BY DEF NoEngine, EngineRecords
        <2>2. WebTypes
            BY <1>1, <2>1 DEF Init, WebTypes
        <2>3. PlaceInv /\ PeersInv
            BY <1>1 DEF Init, PlaceInv, PeersInv, InFlight
        <2> QED
            BY <2>2, <2>3 DEF BasicInv
    <1>3. LiveInv /\ GuardInv
        BY <1>1 DEF Init, LiveInv, GuardInv, InFlight
    <1>4. EnginesInv
        BY <1>1 DEF Init, EnginesInv, EngineInv, OfSession, SweepFindsTheEngine, StaleEngineHasCause,
                    Streams, InFlight
    <1>5. EventInv /\ SweptInv
        BY <1>1 DEF Init, EventInv, SweptInv, InFlight
    <1>6. KeptInv /\ GoneInv
        BY <1>1 DEF KeptInv, GoneInv, Deletes
    <1> QED
        BY <1>2, <1>3, <1>4, <1>5, <1>6 DEF WebInv

\* Whatever requests interleave and however often the server is started again
\* (the handlers of web/__init__.py and _get_engine), the invariant holds.
THEOREM WebInvariant == Spec => []WebInv
PROOF
    <1>1. Init => WebInv
        BY WebStarts
    <1>2. WebInv /\ [Next]_vars => WebInv'
        <2> SUFFICES ASSUME WebInv, [Next]_vars
                     PROVE  WebInv'
            OBVIOUS
        <2>1. BasicInv' /\ LiveInv' /\ GuardInv' /\ EnginesInv'
            BY EveryStep, LiveStep, GuardStep, EnginesStep DEF WebInv
        <2>2. EventInv' /\ SweptInv' /\ KeptInv' /\ GoneInv'
            BY EventStep, SweptStep, KeptStep, GoneStep DEF WebInv
        <2> QED
            BY <2>1, <2>2 DEF WebInv
    <1> QED
        BY <1>1, <1>2, PTL DEF Spec

\* No entry of WEB_ACTIVE_RUNS outlives its stream, and no stream is without
\* one (chat_stream's registration and its worker's finally).
THEOREM EntriesAreLive == Spec => []EntryIsLive
PROOF
    <1>1. WebInv => EntryIsLive
        BY LiveIsLive DEF WebInv
    <1> QED
        BY <1>1, WebInvariant, PTL

\* The looks at WEB_ACTIVE_RUNS keep streams and actions away from a stream
\* (chat_stream and run_action).
THEOREM RunsAreGuarded == Spec => []GuardsHold
PROOF
    <1>1. WebInv => GuardsHold
        BY DEF WebInv, GuardInv, GuardsHold
    <1> QED
        BY <1>1, WebInvariant, PTL

\* A stop reaches the turn and the programs it is for (cancel_session).
THEOREM StopsHit == Spec => []StopHitsItsTurn
PROOF
    <1>1. WebInv => StopHitsItsTurn
        <2> SUFFICES ASSUME WebInv
                     PROVE  StopHitsItsTurn
            OBVIOUS
        <2>1. ASSUME NEW r \in Turns \cap InFlight, requests[r].ctx.event \in stopped,
                     requests[r].ctx.event # r
              PROVE  \E c \in Chats : Overlap(c, requests[r].ctx.event)
            <3>1. requests[r].ctx.event # 0
                BY <2>1 DEF WebInv, EventInv
            <3>2. r \in Chats \cap InFlight
                BY <2>1, <3>1 DEF WebInv, EventInv, Turns
            <3> QED
                BY <3>1, <3>2 DEF WebInv, EventInv, ChatCame
        <2>2. \A r \in swept : \E x \in Requests :
                 /\ Overlap(x, r)
                 /\ requests[x].kind = "compute" \/ (requests[x].kind = "stop" /\ Same(x, r))
            BY DEF WebInv, SweptInv
        <2> QED
            BY <2>1, <2>2 DEF StopHitsItsTurn
    <1> QED
        BY <1>1, WebInvariant, PTL

\* What was answered is on disk, across restarts (_save_session, _load_session).
THEOREM AnswersAreKept == Spec => []AnsweredIsKept
PROOF
    <1>1. WebInv => AnsweredIsKept
        <2> SUFFICES ASSUME WebInv, NEW r \in Answered, requests[r].kind \in KeptKinds, ~Excused(r)
                     PROVE  /\ disk[requests[r].session] # NoFile
                            /\ r \in disk[requests[r].session].turns
            BY DEF AnsweredIsKept, Excused
        <2>1. r \in Requests /\ requests[r].kind # "compute"
            BY DEF Answered, KeptKinds, TurnKinds
        <2>2. requests[r].session \in Sessions
            BY <2>1, AtHome DEF WebInv
        <2> QED
            BY <2>1, <2>2 DEF WebInv, KeptInv
    <1> QED
        BY <1>1, WebInvariant, PTL

\* A deletion takes a session out of memory and off the disk (delete_session).
THEOREM DeletionsLast == Spec => []DeletedStaysGone
PROOF
    <1>1. WebInv => DeletedStaysGone
        <2> DEFINE Before(d) == {r \in Answered : Same(r, d) /\ r < d /\ ~Overlap(r, d)}
        <2> SUFFICES ASSUME WebInv, NEW d \in Deletes \cap Answered, ~Crossed(d),
                            NEW s, s = requests[d].session
                     PROVE  /\ memory[s] # 0 => Before(d) \cap objects[memory[s]].turns = {}
                            /\ disk[s] # NoFile => Before(d) \cap disk[s].turns = {}
            BY DEF DeletedStaysGone, Crossed
        <2>1. d \in Requests /\ requests[d].kind # "compute"
            BY DEF Deletes
        <2>2. s \in Sessions /\ d \in Nat
            BY <2>1, AtHome, Typed DEF WebInv, BasicInv
        <2>3. /\ disk[s] # NoFile => Younger(disk[s].turns, s, d)
              /\ \A o \in Copies(s) : Younger(objects[o].turns, s, d)
            BY <2>2 DEF WebInv, GoneInv
        <2>4. memory[s] # 0 => Younger(objects[memory[s]].turns, s, d)
            BY <2>3 DEF Copies
        <2>5. \A turns : Younger(turns, s, d) => Before(d) \cap turns = {}
            <3>1. \A r \in Before(d) : r \in Nat /\ r < d /\ requests[r].session = s
                BY Typed DEF WebInv, BasicInv, Answered, Same
            <3> QED
                BY <2>2, <3>1 DEF Younger
        <2> QED
            BY <2>3, <2>4, <2>5
    <1> QED
        BY <1>1, WebInvariant, PTL

\* A stop's sweep finds the engine it is for (_get_engine, reset_engine_cache).
THEOREM SweepsFindTheEngine == Spec => []SweepFindsTheEngine
PROOF
    <1>1. WebInv => SweepFindsTheEngine
        BY DEF WebInv, EnginesInv
    <1> QED
        BY <1>1, WebInvariant, PTL

\* New settings reach every engine but those a named overlap lets through
\* (save_compute_config).
THEOREM StaleEnginesHaveCauses == Spec => []StaleEngineHasCause
PROOF
    <1>1. WebInv => StaleEngineHasCause
        BY DEF WebInv, EnginesInv
    <1> QED
        BY <1>1, WebInvariant, PTL

=============================================================================
