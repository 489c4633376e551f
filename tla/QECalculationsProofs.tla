------------------------ MODULE QECalculationsProofs ------------------------
(***************************************************************************)
(* What QECalculations guarantees for every request, material and bound:   *)
(* types and budgets, what a reported band structure or density of states  *)
(* was computed from, and that a repair strengthens the calculation.       *)
(***************************************************************************)
EXTENDS QECalculations, TLAPS

\* Why: a node that has succeeded had its dependencies, and keeps its program;
\* a program that its caller still waits for is the one its node knows of, and
\* was given the input that the node's params stand for.
ProgramsInv ==
  /\ \A n \in Nodes :
       /\ node[n].program <= launched
       /\ node[n].state \in {"running", "succeeded"} =>
            \A d \in Deps(n) : node[d].state = "succeeded"
       /\ node[n].state = "running" => node[n].resolved
  /\ \A p \in programs :
       /\ p.id \in 1..launched
       /\ \A n \in Nodes : node[n].program = p.id => p.node = n
       /\ \A d \in Deps(p.node) : node[d].state = "succeeded"
       /\ ~p.late => /\ Running(p.node) /\ node[p.node].program = p.id
                     /\ p.input = InputOf(p.node, node[p.node].params)
                     /\ p.end = "few_bands" => p.node = "nscf" /\ p.input.nbnd < NeededBands
                     /\ p.end = "unverified" => p.node \in PwNodes
                     /\ p.end = "done" /\ p.node \in PwNodes => p.wrote

DensityOfScf(density) == density.by = node["scf"].program \/ density.late
StatesOfNscf(states) ==
  /\ states.by = node["nscf"].program \/ states.late
  /\ DensityOfScf(states.density)

HasWritten(n) ==
  /\ n \in Nodes
  /\ \/ node[n].state = "succeeded"
     \/ \E p \in programs : p.node = n /\ p.wrote /\ ~p.late

\* What a waiting caller's program has written is there until its node has
\* succeeded and from then on, unless an orphan's is.
LineageInv ==
  /\ HasWritten("scf") => DensityOfScf(save.density)
  /\ HasWritten("nscf") => StatesOfNscf(save.states)
  /\ \A n \in Nodes \cap Writers :
       product[n].by # 0 => node["nscf"].state = "succeeded" /\ StatesOfNscf(product[n].states)
  /\ \A n \in Nodes \cap Posts :
       node[n].state = "succeeded" => StatesOfNscf(node[n].outputs.product.states)

\* The params that a node can have after some repairs.
ParamsFrom(n, params) ==
  /\ params.ecutwfc = 0 /\ n \in PwNodes => request.ecutwfc = 0
  /\ params.kpoints # 0 => n \in {"scf", "vc_relax"}
  /\ params.nkpoints_bands # 0 => request.template = "t2_bands" /\ n \in {"nscf", "bands"}
  /\ n = "bands" => params.nkpoints_bands = request.nkpoints_bands
  /\ n = "nscf" /\ request.template = "t2_bands" =>
       \/ params.nkpoints_bands = request.nkpoints_bands
       \/ params.nkpoints_bands \in MinBandPathPoints .. request.nkpoints_bands - 1

OnThePath(points) ==
  \/ request.nkpoints_bands = 0
  \/ points = PathPoints(request.nkpoints_bands)
  \/ points < request.nkpoints_bands

PathInv ==
  /\ \A n \in Nodes : node[n].resolved => ParamsFrom(n, node[n].params)
  /\ \A p \in programs : OnThePath(p.input.points)
  /\ OnThePath(save.states.points)
  /\ \A n \in Nodes \cap {"bands"} :
       node[n].state = "succeeded" =>
         /\ OnThePath(node[n].outputs.product.states.points)
         /\ node[n].outputs.axis = PathPoints(Or(request.nkpoints_bands, 100))

QEInv == TypeOK /\ ProgramsInv /\ LineageInv /\ PathInv

----------------------------------------------------------------------------
(* Templates and inputs *)

LEMMA TemplateFacts ==
  ASSUME request \in RequestType, NEW n \in Nodes
  PROVE  /\ n \in {"scf", "vc_relax", "nscf", "bands", "dos", "pdos"}
         /\ Deps(n) \subseteq Nodes /\ n \notin Deps(n)
         /\ n = "nscf" => Deps(n) = {"scf"}
         /\ n \in Posts => "nscf" \in Deps(n)
         /\ n = "bands" <=> n \in Nodes \cap {"bands"}
         /\ n = "bands" => request.template = "t2_bands"
BY DEF RequestType, Templates, Nodes, NodesOf, Deps, Posts, Writers

\* Where there is an nscf, there is an scf; where there is a post-processing
\* program, there are both.
LEMMA Upstream ==
  ASSUME request \in RequestType
  PROVE  /\ "nscf" \in Nodes => "scf" \in Nodes
         /\ \A n \in Nodes \cap Posts : "nscf" \in Nodes /\ "scf" \in Nodes
BY DEF RequestType, Templates, Nodes, NodesOf, Posts, Writers

LEMMA Defaults ==
  /\ DefaultMesh \in Nat /\ DefaultBands \in Nat /\ NeededBands \in Nat
  /\ DefaultMesh > 0 /\ DefaultBands > 0
  /\ DefaultBands >= NeededBands /\ MaxPrograms \in Nat
BY QEAssumption

\* The compiled input has its type, and an nscf's points are on the path.
LEMMA InputFacts ==
  ASSUME request \in RequestType, NEW n \in Nodes, NEW params \in ParamsType,
         ParamsFrom(n, params)
  PROVE  InputOf(n, params) \in InputType /\ OnThePath(InputOf(n, params).points)
<1>1. request.nkpoints_bands \in Nat /\ request.default \in Nat
  BY DEF RequestType
<1>2. OnThePath(0)
  BY <1>1 DEF OnThePath
<1>3. ScfInput(params) \in InputType /\ ScfInput(params).points = 0
  BY <1>1, Defaults DEF ScfInput, Or, ParamsType, InputType
<1>4. CASE n = "vc_relax"
  <2>1. InputOf(n, params) = RelaxInput(params)
    BY <1>4 DEF InputOf, Posts, Writers
  <2>2. RelaxInput(params) \in InputType /\ RelaxInput(params).points = 0
    BY <1>1, Defaults DEF RelaxInput, Or, ParamsType, InputType
  <2>3. QED
    BY <1>2, <2>1, <2>2
<1>5. CASE n = "scf"
  BY <1>2, <1>3, <1>5 DEF InputOf, Posts, Writers
<1>6. CASE n = "nscf" /\ request.template = "t2_bands"
  <2> DEFINE points == PathPoints(Or(params.nkpoints_bands, 60))
  <2>1. InputOf(n, params) = [ScfInput(params) EXCEPT !.mesh = 0, !.points = points]
    BY <1>6 DEF InputOf, NscfInput, Posts, Writers
  <2>2. points \in Nat /\ OnThePath(points)
    BY <1>1, <1>6
       DEF ParamsFrom, ParamsType, OnThePath, PathPoints, AtLeast, Or, MinBandPathPoints
  <2> HIDE DEF points
  <2>3. QED
    BY <1>3, <2>1, <2>2 DEF InputType
<1>7. CASE n = "nscf" /\ request.template # "t2_bands"
  <2>1. InputOf(n, params) = [ScfInput(params) EXCEPT !.mesh = IF @ > 1 THEN 2 * @ ELSE 1]
    BY <1>7 DEF InputOf, NscfInput, Posts, Writers
  <2>2. QED
    BY <1>2, <1>3, <2>1 DEF InputType
<1>8. CASE n \in Posts
  <2>1. InputOf(n, params) = PostInput
    BY <1>8 DEF InputOf, Posts, Writers
  <2>2. QED
    BY <1>2, <2>1 DEF PostInput, InputType
<1>9. QED
  BY <1>4, <1>5, <1>6, <1>7, <1>8, TemplateFacts DEF Posts, Writers

LEMMA ResolvedFacts ==
  ASSUME request \in RequestType, NEW n \in Nodes
  PROVE  /\ Resolved(n) \in ParamsType /\ ParamsFrom(n, Resolved(n))
         /\ Resolved(n).ecutwfc <= AtLeast(MaxEcut, request.ecutwfc)
         /\ Unresolved \in ParamsType
         /\ Unresolved.ecutwfc <= AtLeast(MaxEcut, request.ecutwfc)
<1>1. n \in {"scf", "vc_relax", "nscf", "bands", "dos", "pdos"}
      /\ (n = "bands" => request.template = "t2_bands")
  BY TemplateFacts
<1>2. Resolved(n) \in ParamsType
  BY DEF Resolved, RequestType, ParamsType
<1>3. ParamsFrom(n, Resolved(n))
  BY <1>1 DEF Resolved, RequestType, ParamsFrom, PwNodes
<1>4. QED
  BY <1>2, <1>3 DEF Resolved, Unresolved, RequestType, ParamsType, AtLeast, MaxEcut, PwNodes

\* A repair keeps what the params of a node can be, and never passes MAX_ECUT.
LEMMA RepairFacts ==
  ASSUME request \in RequestType, NEW n \in Nodes, NEW how \in Ends,
         node[n].params \in ParamsType, ParamsFrom(n, node[n].params),
         node[n].params.ecutwfc <= AtLeast(MaxEcut, request.ecutwfc),
         how = "few_bands" => n = "nscf",
         n = "bands" => how = "unverified"
  PROVE  /\ RepairedParams(n, how) \in ParamsType
         /\ ParamsFrom(n, RepairedParams(n, how))
         /\ RepairedParams(n, how).ecutwfc <= AtLeast(MaxEcut, request.ecutwfc)
<1> DEFINE params == node[n].params
           new == RepairedParams(n, how)
<1>1. params \in ParamsType /\ ParamsFrom(n, params)
      /\ params.ecutwfc <= AtLeast(MaxEcut, request.ecutwfc) /\ request.ecutwfc \in Nat
  BY DEF RequestType
<1>2. SUFFICES /\ new \in ParamsType /\ ParamsFrom(n, new)
               /\ new.ecutwfc <= AtLeast(MaxEcut, request.ecutwfc)
  OBVIOUS
<1>3. CASE how = "few_bands"
  <2>1. new = [params EXCEPT !.nbnd = AtLeast(24, 2 * params.nbnd)]
    BY <1>3 DEF RepairedParams
  <2> HIDE DEF params, new
  <2>2. QED
    BY <1>1, <2>1 DEF ParamsType, ParamsFrom, AtLeast
<1>4. CASE how = "timeout" /\ params.nkpoints_bands > 0
  <2>1. new = IF params.nkpoints_bands <= MinBandPathPoints THEN params
              ELSE [params EXCEPT !.nkpoints_bands =
                      AtLeast(MinBandPathPoints, (params.nkpoints_bands * 6) \div 10)]
    BY <1>4 DEF RepairedParams
  <2>2. n = "nscf" /\ request.template = "t2_bands" /\ request.nkpoints_bands \in Nat
    BY <1>1, <1>4 DEF ParamsFrom, ParamsType, RequestType
  <2> HIDE DEF params, new
  <2>3. CASE params.nkpoints_bands <= MinBandPathPoints
    BY <1>1, <2>1, <2>3
  <2>4. CASE params.nkpoints_bands > MinBandPathPoints
    <3> DEFINE path == AtLeast(MinBandPathPoints, (params.nkpoints_bands * 6) \div 10)
    <3>1. path \in MinBandPathPoints .. params.nkpoints_bands - 1
      BY <1>1, <2>4 DEF ParamsType, AtLeast, MinBandPathPoints
    <3>2. new = [params EXCEPT !.nkpoints_bands = path]
      BY <1>1, <2>1, <2>4 DEF ParamsType, MinBandPathPoints
    <3> HIDE DEF path
    <3>3. QED
      BY <1>1, <2>2, <3>1, <3>2 DEF ParamsType, ParamsFrom, MinBandPathPoints
  <2>5. QED
    BY <1>1, <2>3, <2>4 DEF ParamsType, MinBandPathPoints
<1>5. CASE how = "timeout" /\ params.nkpoints_bands = 0
  <2>1. new = IF params.kpoints <= 2 THEN params
              ELSE [params EXCEPT !.kpoints = AtLeast(2, params.kpoints \div 2)]
    BY <1>5 DEF RepairedParams
  <2> HIDE DEF params, new
  <2>2. QED
    BY <1>1, <2>1 DEF ParamsType, ParamsFrom, AtLeast
<1>6. CASE how \notin {"few_bands", "timeout"}
  <2> DEFINE current == Or(params.ecutwfc, 45)
  <2>1. new = IF current >= MaxEcut THEN params
              ELSE [params EXCEPT !.ecutwfc = AtMost(MaxEcut, current + CutoffBumpStep)]
    BY <1>6 DEF RepairedParams
  <2>2. current \in Nat
    BY <1>1 DEF ParamsType, Or
  <2> HIDE DEF params, new, current
  <2>3. QED
    BY <1>1, <2>1, <2>2
       DEF ParamsType, ParamsFrom, AtLeast, AtMost, MaxEcut, CutoffBumpStep
<1>7. QED
  BY <1>1, <1>3, <1>4, <1>5, <1>6 DEF ParamsType, Ends

----------------------------------------------------------------------------
(* The order of the nodes *)

LEMMA Typed ==
  ASSUME TypeOK
  PROVE  /\ request \in RequestType
         /\ node \in [Nodes -> NodeType]
         /\ \A n \in Nodes : node[n] \in NodeType
         /\ \A p \in programs : p \in ProgramType /\ p.node \in Nodes
         /\ launched \in Nat /\ launched <= MaxPrograms
<1>1. request \in RequestType
  BY QEAssumption DEF TypeOK
<1>2. node \in [Nodes -> NodeType] /\ \A p \in programs : p \in ProgramType
  BY DEF TypeOK
<1>3. \A p \in programs : p.node \in Nodes
  BY <1>2 DEF ProgramType
<1>4. launched \in Nat /\ launched <= MaxPrograms
  BY Defaults DEF TypeOK, Ids
<1>5. QED
  BY <1>1, <1>2, <1>3, <1>4

\* Who has run, or left a program, has had its dependencies.
LEMMA UpstreamSucceeded ==
  ASSUME TypeOK, ProgramsInv, NEW m \in Nodes,
         \/ node[m].state \in {"running", "succeeded"}
         \/ \E p \in programs : p.node = m
  PROVE  /\ m = "nscf" => "scf" \in Nodes /\ node["scf"].state = "succeeded"
         /\ m \in Posts => /\ "nscf" \in Nodes /\ node["nscf"].state = "succeeded"
                           /\ "scf" \in Nodes /\ node["scf"].state = "succeeded"
<1>1. request \in RequestType
  BY Typed
<1>2. ASSUME NEW k \in Nodes, \/ node[k].state \in {"running", "succeeded"}
                              \/ \E p \in programs : p.node = k
      PROVE  \A d \in Deps(k) : d \in Nodes /\ node[d].state = "succeeded"
  BY <1>1, <1>2, TemplateFacts DEF ProgramsInv
<1>3. m = "nscf" => "scf" \in Deps(m)
  BY <1>1, TemplateFacts
<1>4. m \in Posts => "nscf" \in Deps(m)
  BY <1>1, TemplateFacts
<1>5. CASE m \in Posts
  <2>1. "nscf" \in Nodes /\ node["nscf"].state = "succeeded"
    BY <1>2, <1>4, <1>5
  <2>2. "scf" \in Deps("nscf")
    BY <1>1, <2>1, TemplateFacts
  <2>3. "scf" \in Nodes /\ node["scf"].state = "succeeded"
    BY <1>2, <2>1, <2>2
  <2>4. QED
    BY <1>5, <2>1, <2>3 DEF Posts, Writers
<1>6. QED
  BY <1>2, <1>3, <1>5

----------------------------------------------------------------------------
(* A step of the scheduler or of a worker: one node changes *)

\* What the success of n rests on.
GoodResult(n, record) ==
  /\ n \in {"scf", "nscf"} => HasWritten(n)
  /\ n \in Posts => StatesOfNscf(record.outputs.product.states)
  /\ n = "bands" => /\ OnThePath(record.outputs.product.states.points)
                    /\ record.outputs.axis = PathPoints(Or(request.nkpoints_bands, 100))

GoodRecord(n, record) ==
  /\ record \in NodeType
  /\ record.program \in {0, node[n].program}
  /\ record.repairs <= MaxRepairs(n)
  /\ record.params.ecutwfc <= AtLeast(MaxEcut, request.ecutwfc)
  /\ record.resolved => ParamsFrom(n, record.params)
  /\ record.state = "running" => record.resolved
  /\ record.state \in {"running", "succeeded"} => \A d \in Deps(n) : node[d].state = "succeeded"
  /\ record.state = "succeeded" => record.program = node[n].program /\ GoodResult(n, record)

LEMMA NodeStep ==
  ASSUME QEInv, NEW n \in Nodes, NEW r, GoodRecord(n, r),
         node' = [node EXCEPT ![n] = r],
         UNCHANGED <<request, driving, calls, launched, save, product>>,
         programs' \subseteq programs,
         node[n].state # "succeeded",
         \A p \in programs' : p.late \/ p.node # n
  PROVE  QEInv'
<1>1. /\ TypeOK /\ ProgramsInv /\ LineageInv /\ PathInv /\ request \in RequestType
      /\ node \in [Nodes -> NodeType] /\ r \in NodeType
  BY Typed DEF QEInv, GoodRecord
<1>2. /\ Nodes' = Nodes /\ node'[n] = r
      /\ \A m \in Nodes : m # n => node'[m] = node[m]
      /\ \A m \in Nodes : node[m].state = "succeeded" => node'[m] = node[m]
      /\ node' \in [Nodes -> NodeType]
  BY <1>1 DEF Nodes
<1>3. TypeOK'
  BY <1>1, <1>2 DEF TypeOK, GoodRecord, ProgramType
<1>4. ProgramsInv'
  <2>1. ASSUME NEW m \in Nodes
        PROVE  /\ node'[m].program <= launched
               /\ node'[m].state \in {"running", "succeeded"} =>
                    \A d \in Deps(m) : node'[d].state = "succeeded"
               /\ node'[m].state = "running" => node'[m].resolved
    <3>1. Deps(m) \subseteq Nodes /\ n \in Nodes
      BY <1>1, TemplateFacts
    <3>2. CASE m # n
      BY <1>1, <1>2, <3>1, <3>2 DEF ProgramsInv
    <3>3. CASE m = n
      BY <1>1, <1>2, <3>1, <3>3, Typed DEF ProgramsInv, GoodRecord
    <3>4. QED
      BY <3>2, <3>3
  <2>2. ASSUME NEW p \in programs'
        PROVE  /\ p.id \in 1..launched
               /\ \A m \in Nodes : node'[m].program = p.id => p.node = m
               /\ \A d \in Deps(p.node) : node'[d].state = "succeeded"
               /\ ~p.late => p.node # n
    <3>1. p \in programs /\ p.id \in 1..launched /\ p.node \in Nodes
      BY <1>1, Typed DEF ProgramsInv
    <3>2. \A m \in Nodes : node'[m].program = p.id => p.node = m
      BY <1>1, <1>2, <3>1 DEF ProgramsInv, GoodRecord
    <3>3. \A d \in Deps(p.node) : node'[d].state = "succeeded"
      BY <1>1, <1>2, <3>1, TemplateFacts DEF ProgramsInv
    <3>4. QED
      BY <3>1, <3>2, <3>3
  <2>3. ASSUME NEW p \in programs', ~p.late
        PROVE  /\ driving /\ node'[p.node].state = "running"
               /\ node'[p.node].program = p.id
               /\ p.input = InputOf(p.node, node'[p.node].params)
               /\ p.end = "few_bands" => p.node = "nscf" /\ p.input.nbnd < NeededBands
               /\ p.end = "unverified" => p.node \in PwNodes
               /\ p.end = "done" /\ p.node \in PwNodes => p.wrote
    <3>1. p \in programs /\ p.node \in Nodes /\ node'[p.node] = node[p.node]
      BY <1>1, <1>2, <2>2, <2>3, Typed
    <3>2. QED
      BY <1>1, <2>3, <3>1 DEF ProgramsInv, Running
  <2>4. \A x, q : InputOf(x, q)' = InputOf(x, q)
    BY DEF InputOf, RelaxInput, ScfInput, NscfInput, Posts, Writers
  <2>5. QED
    BY <1>2, <2>1, <2>2, <2>3, <2>4 DEF ProgramsInv, Running, Deps
<1>5. LineageInv'
  <2>1. ASSUME NEW w \in {"scf", "nscf"}, HasWritten(w)'
        PROVE  /\ HasWritten(w) /\ w \in Nodes /\ "scf" \in Nodes
               /\ node'[w].program = node[w].program
               /\ node'["scf"].program = node["scf"].program
    <3>1. w \in Nodes
      BY <1>2, <2>1 DEF HasWritten
    <3>2. HasWritten(w) /\ node'[w].program = node[w].program
      BY <1>2, <2>1, <3>1 DEF HasWritten, GoodRecord, GoodResult
    <3>3. w = "nscf" => "scf" \in Nodes /\ node["scf"].state = "succeeded"
      <4>1. node[w].state = "succeeded" \/ \E p \in programs : p.node = w
        BY <3>2 DEF HasWritten
      <4>2. QED
        BY <1>1, <3>1, <4>1, UpstreamSucceeded
    <3>4. QED
      BY <1>2, <3>1, <3>2, <3>3
  <2>2. HasWritten("scf")' => DensityOfScf(save.density)'
    BY <1>1, <2>1 DEF LineageInv, DensityOfScf
  <2>3. HasWritten("nscf")' => StatesOfNscf(save.states)'
    BY <1>1, <2>1 DEF LineageInv, StatesOfNscf, DensityOfScf
  <2>4. ASSUME NEW m \in Nodes \cap Posts, node["nscf"].state = "succeeded"
        PROVE  /\ node'["nscf"] = node["nscf"]
               /\ node'["scf"].program = node["scf"].program
    <3>1. "nscf" \in Nodes
      BY <1>1, <2>4, Upstream
    <3>2. "scf" \in Nodes /\ node["scf"].state = "succeeded"
      BY <1>1, <2>4, <3>1, UpstreamSucceeded
    <3>3. QED
      BY <1>2, <2>4, <3>1, <3>2
  <2>5. \A m \in Nodes \cap Writers :
          product[m].by # 0 => /\ node'["nscf"].state = "succeeded"
                               /\ StatesOfNscf(product[m].states)'
    BY <1>1, <2>4 DEF LineageInv, StatesOfNscf, DensityOfScf, Posts
  <2>6. ASSUME NEW m \in Nodes \cap Posts, node'[m].state = "succeeded"
        PROVE  StatesOfNscf(node[m].outputs.product.states)'
    <3>1. node["nscf"].state = "succeeded"
      <4>1. \/ node[m].state = "succeeded"
            \/ \A d \in Deps(m) : node[d].state = "succeeded"
        BY <1>2, <2>6 DEF GoodRecord
      <4>2. "nscf" \in Deps(m)
        BY <1>1, <2>6, TemplateFacts
      <4>3. QED
        BY <1>1, <4>1, <4>2, UpstreamSucceeded
    <3>2. StatesOfNscf(node'[m].outputs.product.states)
      BY <1>1, <1>2, <2>6 DEF LineageInv, GoodRecord, GoodResult
    <3>3. QED
      BY <2>4, <3>1, <3>2 DEF StatesOfNscf, DensityOfScf
  <2>7. QED
    BY <1>2, <2>2, <2>3, <2>5, <2>6 DEF LineageInv, Writers, Posts
<1>6. PathInv'
  BY <1>1, <1>2 DEF PathInv, GoodRecord, GoodResult, ParamsFrom, OnThePath
<1>7. QED
  BY <1>3, <1>4, <1>5, <1>6 DEF QEInv

LEMMA DispatchStep == ASSUME QEInv, NEW n \in Nodes, Dispatch(n) PROVE QEInv'
<1> DEFINE r == [node[n] EXCEPT !.state = "running",
                    !.params = IF node[n].resolved THEN node[n].params ELSE Resolved(n),
                    !.resolved = TRUE, !.program = 0]
<1>1. /\ TypeOK /\ ProgramsInv /\ PathInv /\ request \in RequestType
      /\ node[n] \in NodeType /\ node[n].params \in ParamsType /\ node[n].resolved \in BOOLEAN
  BY Typed DEF QEInv, NodeType
<1>2. /\ node[n].state \in {"pending", "ready"}
      /\ \A d \in Deps(n) : node[d].state = "succeeded"
      /\ UNCHANGED <<request, driving, calls, programs, launched, save, product>>
  BY DEF Dispatch, Dispatchable
<1>3. node' = [node EXCEPT ![n] = r]
  BY <1>1, Typed DEF Dispatch
<1>4. LET params == IF node[n].resolved THEN node[n].params ELSE Resolved(n)
      IN  /\ params \in ParamsType /\ ParamsFrom(n, params)
          /\ params.ecutwfc <= AtLeast(MaxEcut, request.ecutwfc)
  BY <1>1, ResolvedFacts DEF PathInv, TypeOK
<1>5. 0 \in Ids
  BY Defaults DEF Ids
<1>6. r \in NodeType
  BY <1>1, <1>4, <1>5 DEF NodeType
<1>7. GoodRecord(n, r)
  BY <1>1, <1>2, <1>4, <1>6 DEF GoodRecord, TypeOK, NodeType
<1>8. \A p \in programs' : p.late \/ p.node # n
  BY <1>1, <1>2 DEF ProgramsInv, Running
<1> HIDE DEF r
<1>9. QED
  BY <1>2, <1>3, <1>7, <1>8, NodeStep

LEMMA CompileFailsStep == ASSUME QEInv, NEW n \in Nodes, CompileFails(n) PROVE QEInv'
<1> DEFINE r == [node[n] EXCEPT !.state = "failed"]
<1>1. /\ TypeOK /\ ProgramsInv /\ PathInv /\ node[n] \in NodeType
  BY Typed DEF QEInv
<1>2. /\ node[n].state = "running" /\ node[n].program = 0
      /\ UNCHANGED <<request, driving, calls, programs, launched, save, product>>
  BY DEF CompileFails, Running
<1>3. node' = [node EXCEPT ![n] = r]
  BY <1>1, Typed DEF CompileFails
<1>4. GoodRecord(n, r)
  BY <1>1, <1>2 DEF GoodRecord, TypeOK, NodeType, PathInv
<1>5. \A p \in programs' : p.late \/ p.node # n
  BY <1>1, <1>2 DEF ProgramsInv
<1> HIDE DEF r
<1>6. QED
  BY <1>2, <1>3, <1>4, <1>5, NodeStep

\* The program that the worker of n waits for.
LEMMA WaitedFor ==
  ASSUME QEInv, NEW n \in Nodes, NEW p \in Of(n)
  PROVE  /\ p \in programs /\ ~p.late /\ p.node = n /\ p.id = node[n].program
         /\ p.input = InputOf(n, node[n].params)
         /\ p.end = "few_bands" => n = "nscf" /\ p.input.nbnd < NeededBands
         /\ p.end = "unverified" => n \in PwNodes
         /\ p.end = "done" /\ n \in PwNodes => p.wrote
         /\ p.end \in Ends \cup {""} /\ p.id \in Ids
BY Typed DEF QEInv, ProgramsInv, Of, ProgramType

LEMMA ReturnsStep ==
  ASSUME QEInv, NEW n \in Nodes, Running(n), NEW r, GoodRecord(n, r), Returns(n, r)
  PROVE  QEInv'
<1>1. \A p \in programs' : p.late \/ p.node # n
  BY DEF Returns, Of, QEInv, ProgramsInv
<1>2. QED
  BY <1>1, NodeStep DEF Returns, Running

\* A failure is repaired, or ends the node.
LEMMA AfterFailureGood ==
  ASSUME QEInv, NEW n \in Nodes, Running(n), NEW how \in Ends, how # "done",
         how = "few_bands" => n = "nscf",
         how = "unverified" => n \in PwNodes \cup {"bands", "dos"}
  PROVE  GoodRecord(n, AfterFailure(n, how))
<1> DEFINE new == RepairedParams(n, how)
<1>1. /\ TypeOK /\ ProgramsInv /\ PathInv /\ request \in RequestType
      /\ node[n] \in NodeType /\ node[n].params \in ParamsType
      /\ node[n].repairs \in 0..2 /\ node[n].repairs <= MaxRepairs(n)
      /\ node[n].params.ecutwfc <= AtLeast(MaxEcut, request.ecutwfc)
      /\ node[n].state = "running" /\ node[n].resolved /\ ParamsFrom(n, node[n].params)
  BY Typed DEF QEInv, NodeType, TypeOK, Running, ProgramsInv, PathInv
<1>2. MaxRepairs(n) \in {1, 2}
  BY DEF MaxRepairs
<1>3. CASE AfterFailure(n, how) = Requeued(n, new) /\ node[n].repairs < MaxRepairs(n)
           /\ Category(n, how) \in RepairableCategories
  <2>1. n = "bands" => how = "unverified"
    BY <1>3 DEF Category, RepairableCategories, PwNodes
  <2>2. new \in ParamsType /\ ParamsFrom(n, new)
        /\ new.ecutwfc <= AtLeast(MaxEcut, request.ecutwfc)
    BY <1>1, <2>1, RepairFacts
  <2>3. AfterFailure(n, how) =
          [node[n] EXCEPT !.state = "ready", !.repairs = node[n].repairs + 1, !.params = new]
    BY <1>3 DEF Requeued
  <2>4. node[n].repairs + 1 \in 0..2 /\ node[n].repairs + 1 <= MaxRepairs(n)
    BY <1>1, <1>2, <1>3
  <2> DEFINE r == AfterFailure(n, how)
  <2>5. /\ r \in NodeType /\ r.state = "ready" /\ r.repairs <= MaxRepairs(n)
        /\ r.params = new /\ r.program = node[n].program
    <3> HIDE DEF new
    <3>1. QED
      BY <1>1, <2>2, <2>3, <2>4 DEF NodeType
  <2> HIDE DEF r, new
  <2>6. GoodRecord(n, r)
    BY <2>2, <2>5 DEF GoodRecord
  <2>7. QED
    BY <2>6 DEF r
<1>4. CASE AfterFailure(n, how) =
             [node[n] EXCEPT !.state = "failed",
                             !.repairs = IF node[n].repairs < MaxRepairs(n) THEN @ + 1 ELSE @]
  <2>1. PICK repairs \in 0..2 : /\ repairs <= MaxRepairs(n)
                                /\ repairs = IF node[n].repairs < MaxRepairs(n)
                                               THEN node[n].repairs + 1 ELSE node[n].repairs
    BY <1>1, <1>2
  <2> DEFINE r == AfterFailure(n, how)
  <2>2. r = [node[n] EXCEPT !.state = "failed", !.repairs = repairs, !.params = node[n].params]
    BY <1>1, <1>4, <2>1 DEF NodeType
  <2>3. /\ r \in NodeType /\ r.state = "failed" /\ r.repairs <= MaxRepairs(n)
        /\ r.params = node[n].params /\ r.program = node[n].program
    BY <1>1, <2>1, <2>2 DEF NodeType
  <2> HIDE DEF r
  <2>4. GoodRecord(n, r)
    BY <1>1, <2>3 DEF GoodRecord
  <2>5. QED
    BY <2>4 DEF r
<1>5. QED
  BY <1>3, <1>4 DEF AfterFailure

\* What a node in its success reports.
LEMMA SucceededGood ==
  ASSUME QEInv, NEW n \in Nodes, Running(n), NEW outputs \in OutputsType,
         GoodResult(n, Succeeded(n, outputs))
  PROVE  GoodRecord(n, Succeeded(n, outputs))
<1> DEFINE r == Succeeded(n, outputs)
<1>1. /\ TypeOK /\ ProgramsInv /\ PathInv /\ node[n] \in NodeType
      /\ node[n].repairs <= MaxRepairs(n)
      /\ node[n].params.ecutwfc <= AtLeast(MaxEcut, request.ecutwfc)
      /\ node[n].resolved /\ ParamsFrom(n, node[n].params)
      /\ \A d \in Deps(n) : node[d].state = "succeeded"
  BY Typed DEF QEInv, TypeOK, Running, ProgramsInv, PathInv
<1>2. /\ r \in NodeType /\ r.state = "succeeded" /\ r.repairs = node[n].repairs
      /\ r.params = node[n].params /\ r.program = node[n].program
  BY <1>1 DEF Succeeded, NodeType
<1>3. GoodResult(n, r)
  OBVIOUS
<1> HIDE DEF r
<1>4. GoodRecord(n, r)
  BY <1>1, <1>2, <1>3 DEF GoodRecord
<1>5. QED
  BY <1>4 DEF r

LEMMA CollectStep == ASSUME QEInv, NEW n \in Nodes, Collect(n) PROVE QEInv'
<1>1. /\ TypeOK /\ ProgramsInv /\ LineageInv /\ PathInv /\ request \in RequestType
      /\ Running(n) /\ node[n].state = "running" /\ node[n] \in NodeType
      /\ save.states \in States
  BY Typed DEF QEInv, Collect, Running, TypeOK
<1>2. PICK p \in Of(n) : Fails(n, p) \/ PwSucceeds(n, p) \/ BandsRead(n, p) \/ FileRead(n, p)
  BY DEF Collect
<1>3. /\ p \in programs /\ ~p.late /\ p.node = n /\ p.id \in Ids
      /\ p.end = "few_bands" => n = "nscf"
      /\ p.end = "unverified" => n \in PwNodes
      /\ p.end = "done" /\ n \in PwNodes => p.wrote
      /\ p.end \in Ends \cup {""}
  BY WaitedFor
<1>4. CASE Fails(n, p)
  <2>1. p.end \in Ends /\ p.end # "done" /\ Returns(n, AfterFailure(n, p.end))
    BY <1>3, <1>4 DEF Fails, Ends
  <2>2. GoodRecord(n, AfterFailure(n, p.end))
    BY <1>1, <1>3, <2>1, AfterFailureGood
  <2>3. QED
    BY <1>1, <2>1, <2>2, ReturnsStep
<1>5. CASE PwSucceeds(n, p)
  <2>1. NoOutputs \in OutputsType
    BY Defaults DEF NoOutputs, OutputsType, NoProduct, NoStates, NoDensity, States, Density, Ids
  <2>2. GoodResult(n, Succeeded(n, NoOutputs))
    BY <1>3, <1>5 DEF PwSucceeds, GoodResult, HasWritten, PwNodes, Posts, Writers
  <2>3. GoodRecord(n, Succeeded(n, NoOutputs))
    BY <1>1, <2>1, <2>2, SucceededGood
  <2>4. QED
    BY <1>1, <1>5, <2>3, ReturnsStep DEF PwSucceeds
<1>6. ASSUME n \in Posts
      PROVE  StatesOfNscf(save.states)
  <2>1. "nscf" \in Nodes /\ node["nscf"].state = "succeeded"
    BY <1>1, <1>6, UpstreamSucceeded
  <2>2. QED
    BY <1>1, <2>1 DEF LineageInv, HasWritten
<1>7. CASE BandsRead(n, p)
  <2>1. CASE Returns(n, AfterFailure(n, "unverified"))
    <3>1. n = "bands" /\ "unverified" \in Ends
      BY <1>7 DEF BandsRead, Ends
    <3>2. GoodRecord(n, AfterFailure(n, "unverified"))
      BY <1>1, <3>1, AfterFailureGood
    <3>3. QED
      BY <1>1, <2>1, <3>2, ReturnsStep
  <2> DEFINE outputs == [product |-> [by |-> p.id, late |-> FALSE, states |-> save.states],
                         axis |-> AxisOf(node[n].params)]
  <2>2. CASE Returns(n, Succeeded(n, outputs))
    <3>1. n = "bands" /\ node[n].params.nkpoints_bands = request.nkpoints_bands
          /\ request.nkpoints_bands \in Nat
      BY <1>1, <1>7 DEF BandsRead, PathInv, ParamsFrom, ProgramsInv, RequestType
    <3>2. AxisOf(node[n].params) = PathPoints(Or(request.nkpoints_bands, 100))
          /\ AxisOf(node[n].params) \in Nat
      BY <3>1 DEF AxisOf, PathPoints, Or, AtLeast
    <3>3. outputs \in OutputsType
      BY <1>1, <1>3, <3>2 DEF OutputsType
    <3>4. Succeeded(n, outputs).outputs = outputs
      BY <1>1 DEF Succeeded, NodeType
    <3>5. OnThePath(save.states.points) /\ StatesOfNscf(save.states)
      BY <1>1, <1>6, <3>1 DEF PathInv, Posts
    <3>6. GoodResult(n, Succeeded(n, outputs))
      BY <3>1, <3>2, <3>4, <3>5 DEF GoodResult
    <3> HIDE DEF outputs
    <3>7. GoodRecord(n, Succeeded(n, outputs))
      BY <1>1, <3>3, <3>6, SucceededGood
    <3>8. QED
      BY <1>1, <2>2, <3>7, ReturnsStep
  <2>3. QED
    BY <1>7, <2>1, <2>2 DEF BandsRead
<1>8. CASE FileRead(n, p)
  <2>1. n \in Writers /\ n \in Posts /\ n # "bands" /\ n \notin {"scf", "nscf"}
    BY <1>8 DEF FileRead, Posts, Writers
  <2> DEFINE outputs == [product |-> product[n], axis |-> 0]
             r == [node[n] EXCEPT !.state = "failed"]
  <2>2. CASE product[n].by # 0 /\ Returns(n, Succeeded(n, outputs))
    <3>1. Returns(n, Succeeded(n, outputs))
      BY <2>2
    <3>2. outputs \in OutputsType
      BY <1>1, <2>1 DEF OutputsType, TypeOK
    <3>3. Succeeded(n, outputs).outputs.product = product[n]
      BY <1>1 DEF Succeeded, NodeType
    <3>4. StatesOfNscf(product[n].states)
      BY <1>1, <2>1, <2>2 DEF LineageInv
    <3>5. GoodResult(n, Succeeded(n, outputs))
      BY <2>1, <3>3, <3>4 DEF GoodResult
    <3> HIDE DEF outputs
    <3>6. GoodRecord(n, Succeeded(n, outputs))
      BY <1>1, <3>2, <3>5, SucceededGood
    <3>7. QED
      BY <1>1, <3>1, <3>6, ReturnsStep
  <2>3. CASE n = "dos" /\ Returns(n, AfterFailure(n, "unverified"))
    <3>1. "unverified" \in Ends
      BY DEF Ends
    <3>2. GoodRecord(n, AfterFailure(n, "unverified"))
      BY <1>1, <2>3, <3>1, AfterFailureGood
    <3>3. QED
      BY <1>1, <2>3, <3>2, ReturnsStep
  <2>4. CASE Returns(n, r)
    <3>1. GoodRecord(n, r)
      BY <1>1 DEF GoodRecord, TypeOK, NodeType, PathInv
    <3> HIDE DEF r
    <3>2. QED
      BY <1>1, <2>4, <3>1, ReturnsStep
  <2>5. QED
    BY <1>8, <2>2, <2>3, <2>4 DEF FileRead
<1>9. QED
  BY <1>2, <1>4, <1>5, <1>7, <1>8

\* InputOf depends on the request and the params alone.
LEMMA InputUnchanged ==
  ASSUME UNCHANGED request PROVE \A n, params : InputOf(n, params)' = InputOf(n, params)
BY DEF InputOf, RelaxInput, ScfInput, NscfInput, Posts, Writers

LEMMA ExecuteStep == ASSUME QEInv, NEW n \in Nodes, Execute(n) PROVE QEInv'
<1> DEFINE id == launched + 1
           input == InputOf(n, node[n].params)
           new == [id |-> id, node |-> n, late |-> FALSE, input |-> input,
                   wrote |-> FALSE, end |-> ""]
<1>1. /\ TypeOK /\ ProgramsInv /\ LineageInv /\ PathInv /\ request \in RequestType
      /\ node \in [Nodes -> NodeType] /\ node[n] \in NodeType /\ node[n].params \in ParamsType
      /\ launched \in Nat
  BY Typed DEF QEInv, NodeType
<1>2. /\ driving /\ node[n].state = "running" /\ node[n].program = 0 /\ launched < MaxPrograms
      /\ launched' = id /\ programs' = programs \cup {new}
      /\ node' = [node EXCEPT ![n].program = id]
      /\ UNCHANGED <<request, driving, calls, save, product>>
  BY DEF Execute, Running
<1>3. /\ Nodes' = Nodes /\ \A m \in Nodes : m # n => node'[m] = node[m]
      /\ node'[n] = [node[n] EXCEPT !.program = id]
      /\ \A m \in Nodes : node'[m].state = node[m].state /\ node'[m].params = node[m].params
      /\ \A m \in Nodes : node'[m].resolved = node[m].resolved
  BY <1>1, <1>2 DEF Nodes, NodeType
<1>4. id \in Ids /\ id \in Nat /\ id > launched /\ id \in 1..launched'
  <2>1. launched' = launched + 1 /\ launched \in Nat /\ launched < MaxPrograms
    BY <1>1, <1>2
  <2>2. QED
    BY <2>1, Defaults DEF Ids
<1>5. node'[n] \in NodeType /\ node'[n].program = id
      /\ node'[n].repairs = node[n].repairs
  BY <1>1, <1>3, <1>4 DEF NodeType
<1>6. ParamsFrom(n, node[n].params) /\ input \in InputType /\ OnThePath(input.points)
  BY <1>1, <1>2, InputFacts DEF ProgramsInv, PathInv
<1>7. /\ new \in ProgramType /\ new.id = id /\ new.node = n /\ new.input = input /\ ~new.late
      /\ ~new.wrote /\ new.end = ""
  BY <1>4, <1>6 DEF ProgramType
<1> HIDE DEF id, input, new
\* The programs there were are known to their nodes as before.
<1>8. ASSUME NEW p \in programs
      PROVE  /\ p.id \in 1..launched' /\ p.id # id /\ p.node \in Nodes
             /\ \A m \in Nodes : node'[m].program = p.id => p.node = m
             /\ ~p.late => p.node # n /\ node'[p.node] = node[p.node]
  <2>1. p.id \in 1..launched /\ p.node \in Nodes
    BY <1>1, Typed DEF ProgramsInv
  <2>2. p.id \in 1..launched' /\ p.id # id
    BY <1>1, <1>2, <1>4, <2>1
  <2>3. \A m \in Nodes : node'[m].program = p.id => p.node = m
    <3>1. ASSUME NEW m \in Nodes, node'[m].program = p.id PROVE p.node = m
      <4>1. m # n
        BY <1>5, <2>2, <3>1
      <4>2. QED
        BY <1>1, <1>3, <3>1, <4>1 DEF ProgramsInv
    <3>2. QED
      BY <3>1
  <2>4. ~p.late => p.node # n
    BY <1>1, <1>2, <2>1 DEF ProgramsInv
  <2>5. QED
    BY <1>3, <2>1, <2>2, <2>3, <2>4
<1>9. TypeOK'
  <2>1. node' \in [Nodes -> NodeType]
    BY <1>1, <1>2, <1>3, <1>5
  <2>2. \A p \in programs' : p \in ProgramType
    BY <1>1, <1>2, <1>7, Typed
  <2>3. \A m \in Nodes : /\ node'[m].repairs <= MaxRepairs(m)
                         /\ node'[m].params.ecutwfc <= AtLeast(MaxEcut, request.ecutwfc)
    BY <1>1, <1>3, <1>5 DEF TypeOK
  <2>4. QED
    BY <1>1, <1>2, <1>3, <1>4, <2>1, <2>2, <2>3 DEF TypeOK, ProgramType
<1>10. ProgramsInv'
  <2>1. ASSUME NEW m \in Nodes
        PROVE  /\ node'[m].program <= launched'
               /\ node'[m].state \in {"running", "succeeded"} =>
                    \A d \in Deps(m) : node'[d].state = "succeeded"
               /\ node'[m].state = "running" => node'[m].resolved
    <3>1. node[m].program <= launched /\ node[m].program \in Nat
      BY <1>1, Typed, Defaults DEF ProgramsInv, NodeType, Ids
    <3>2. node'[m].program <= launched'
      BY <1>1, <1>2, <1>3, <1>4, <1>5, <3>1
    <3>3. Deps(m) \subseteq Nodes
      BY <1>1, TemplateFacts
    <3>4. QED
      BY <1>1, <1>3, <3>2, <3>3 DEF ProgramsInv
  <2>2. ASSUME NEW p \in programs
        PROVE  /\ \A d \in Deps(p.node) : node'[d].state = "succeeded"
               /\ ~p.late => /\ driving /\ node'[p.node].state = "running"
                             /\ node'[p.node].program = p.id
                             /\ p.input = InputOf(p.node, node'[p.node].params)
                             /\ p.end = "few_bands" => p.node = "nscf" /\ p.input.nbnd < NeededBands
                             /\ p.end = "unverified" => p.node \in PwNodes
                             /\ p.end = "done" /\ p.node \in PwNodes => p.wrote
    <3>1. Deps(p.node) \subseteq Nodes
      BY <1>1, <1>8, TemplateFacts
    <3>2. QED
      BY <1>1, <1>3, <1>8, <3>1 DEF ProgramsInv, Running
  <2>3. /\ \A m \in Nodes : node'[m].program = id => n = m
        /\ \A d \in Deps(n) : node'[d].state = "succeeded"
        /\ input = InputOf(n, node'[n].params)
    <3>1. \A m \in Nodes : node[m].program <= launched /\ node[m].program \in Nat
      BY <1>1, Typed, Defaults DEF ProgramsInv, NodeType, Ids
    <3>2. \A m \in Nodes : node'[m].program = id => n = m
      BY <1>1, <1>3, <1>4, <3>1
    <3>3. Deps(n) \subseteq Nodes
      BY <1>1, TemplateFacts
    <3>4. QED
      BY <1>1, <1>2, <1>3, <3>2, <3>3 DEF ProgramsInv, input
  <2>4. \A m, q : InputOf(m, q)' = InputOf(m, q)
    BY <1>2, InputUnchanged
  <2>5. ASSUME NEW p \in programs'
        PROVE  /\ p.id \in 1..launched'
               /\ \A m \in Nodes : node'[m].program = p.id => p.node = m
               /\ \A d \in Deps(p.node) : node'[d].state = "succeeded"
               /\ ~p.late => /\ driving /\ node'[p.node].state = "running"
                             /\ node'[p.node].program = p.id
                             /\ p.input = InputOf(p.node, node'[p.node].params)
                             /\ p.end = "few_bands" => p.node = "nscf" /\ p.input.nbnd < NeededBands
                             /\ p.end = "unverified" => p.node \in PwNodes
                             /\ p.end = "done" /\ p.node \in PwNodes => p.wrote
    <3>1. CASE p \in programs
      BY <1>8, <2>2, <3>1
    <3>2. CASE p = new
      <4>1. p.id = id /\ p.node = n /\ p.input = input /\ p.end = ""
        BY <1>7, <3>2
      <4>2. driving /\ node'[n].state = "running" /\ node'[n].program = id
        BY <1>2, <1>3, <1>5
      <4>3. QED
        BY <1>4, <2>3, <4>1, <4>2
    <3>3. QED
      BY <1>2, <3>1, <3>2
  <2>6. QED
    BY <1>2, <1>3, <2>1, <2>4, <2>5, ZenonT(40) DEF ProgramsInv, Running, Deps
<1>11. LineageInv'
  <2>1. ASSUME NEW w \in {"scf", "nscf"}, HasWritten(w)'
        PROVE  /\ HasWritten(w) /\ w \in Nodes /\ "scf" \in Nodes
               /\ node'[w].program = node[w].program
               /\ node'["scf"].program = node["scf"].program
    <3>1. w \in Nodes
      BY <1>3, <2>1 DEF HasWritten
    <3>2. HasWritten(w) /\ w # n
      BY <1>2, <1>3, <1>7, <1>8, <2>1, <3>1, ZenonT(40) DEF HasWritten
    <3>3. w = "nscf" => "scf" \in Nodes /\ node["scf"].state = "succeeded"
      <4>1. node[w].state = "succeeded" \/ \E p \in programs : p.node = w
        BY <3>2 DEF HasWritten
      <4>2. QED
        BY <1>1, <3>1, <4>1, UpstreamSucceeded
    <3>4. QED
      BY <1>2, <1>3, <3>1, <3>2, <3>3
  <2>2. HasWritten("scf")' => DensityOfScf(save.density)'
    BY <1>1, <1>2, <2>1 DEF LineageInv, DensityOfScf
  <2>3. HasWritten("nscf")' => StatesOfNscf(save.states)'
    BY <1>1, <1>2, <2>1 DEF LineageInv, StatesOfNscf, DensityOfScf
  <2>4. ASSUME NEW m \in Nodes \cap Posts, node["nscf"].state = "succeeded"
        PROVE  /\ node'["nscf"] = node["nscf"]
               /\ node'["scf"].program = node["scf"].program
    <3>1. "nscf" \in Nodes
      BY <1>1, <2>4, Upstream
    <3>2. "scf" \in Nodes /\ node["scf"].state = "succeeded"
      BY <1>1, <2>4, <3>1, UpstreamSucceeded
    <3>3. QED
      BY <1>2, <1>3, <2>4, <3>1, <3>2
  <2>5. \A m \in Nodes \cap Writers :
          product[m].by # 0 => /\ node'["nscf"].state = "succeeded"
                               /\ StatesOfNscf(product[m].states)'
    BY <1>1, <1>2, <2>4 DEF LineageInv, StatesOfNscf, DensityOfScf, Posts
  <2>6. ASSUME NEW m \in Nodes \cap Posts, node'[m].state = "succeeded"
        PROVE  StatesOfNscf(node[m].outputs.product.states)'
    <3>1. m # n /\ node[m].state = "succeeded" /\ node'[m] = node[m]
      BY <1>2, <1>3, <2>6
    <3>2. node["nscf"].state = "succeeded"
      BY <1>1, <3>1, UpstreamSucceeded
    <3>3. QED
      BY <1>1, <2>4, <3>1, <3>2 DEF LineageInv, StatesOfNscf, DensityOfScf
  <2>7. QED
    BY <1>2, <1>3, <2>2, <2>3, <2>5, <2>6 DEF LineageInv, Writers, Posts
<1>12. PathInv'
  <2>1. \A m \in Nodes : node[m].state = "succeeded" => node'[m] = node[m]
    BY <1>2, <1>3
  <2>2. \A p \in programs' : OnThePath(p.input.points)
    BY <1>1, <1>2, <1>6, <1>7 DEF PathInv
  <2>3. QED
    BY <1>1, <1>2, <1>3, <2>1, <2>2 DEF PathInv, ParamsFrom, OnThePath
<1>13. QED
  BY <1>9, <1>10, <1>11, <1>12 DEF QEInv

----------------------------------------------------------------------------
(* A step of a program: the nodes stay *)

\* What ProgramEnds sees to.
GoodEnd(p) ==
  /\ p.end = "few_bands" => p.node = "nscf" /\ p.input.nbnd < NeededBands
  /\ p.end = "unverified" => p.node \in PwNodes
  /\ p.end = "done" /\ p.node \in PwNodes => p.wrote

LEMMA ProgramsStep ==
  ASSUME QEInv, UNCHANGED <<request, driving, calls, node, launched>>,
         \A q \in programs' :
           /\ q \in ProgramType
           /\ ~q.late => GoodEnd(q)
           /\ \E p \in programs : /\ p.id = q.id /\ p.node = q.node /\ p.late = q.late
                                  /\ p.input = q.input
  PROVE  /\ Nodes' = Nodes /\ ProgramsInv'
         /\ \A q \in programs' : q \in ProgramType' /\ OnThePath(q.input.points)
<1>1. TypeOK /\ ProgramsInv /\ PathInv
  BY DEF QEInv
<1>2. Nodes' = Nodes
  BY DEF Nodes
<1>3. \A m, q : InputOf(m, q)' = InputOf(m, q)
  BY InputUnchanged
<1>4. ASSUME NEW q \in programs'
      PROVE  /\ q.id \in 1..launched
             /\ \A n \in Nodes : node[n].program = q.id => q.node = n
             /\ \A d \in Deps(q.node) : node[d].state = "succeeded"
             /\ ~q.late => /\ Running(q.node) /\ node[q.node].program = q.id
                           /\ q.input = InputOf(q.node, node[q.node].params)
                           /\ GoodEnd(q)
             /\ OnThePath(q.input.points)
  <2>1. PICK p \in programs : /\ p.id = q.id /\ p.node = q.node /\ p.late = q.late
                              /\ p.input = q.input
    OBVIOUS
  <2>2. QED
    BY <1>1, <2>1 DEF ProgramsInv, PathInv
<1>5. ProgramsInv'
  BY <1>1, <1>2, <1>3, <1>4 DEF ProgramsInv, Running, GoodEnd
<1>6. QED
  BY <1>2, <1>4, <1>5 DEF ProgramType

LEMMA ProgramEndsStep ==
  ASSUME QEInv, NEW p \in programs, NEW end \in Ends, ProgramEnds(p, end) PROVE QEInv'
<1> DEFINE new == [p EXCEPT !.end = end]
<1>1. /\ TypeOK /\ ProgramsInv /\ LineageInv /\ PathInv /\ p \in ProgramType
  BY Typed DEF QEInv
<1>2. /\ p.end = "" /\ ~p.late /\ programs' = (programs \ {p}) \cup {new}
      /\ UNCHANGED <<request, driving, calls, node, launched, save, product>>
  BY DEF ProgramEnds
<1>3. /\ new \in ProgramType /\ new.id = p.id /\ new.node = p.node /\ new.late = p.late
      /\ new.input = p.input /\ new.wrote = p.wrote /\ new.end = end
  BY <1>1 DEF ProgramType
<1>4. GoodEnd(new)
  BY <1>3 DEF GoodEnd, ProgramEnds
<1> HIDE DEF new
<1>5. ASSUME NEW q \in programs'
      PROVE  /\ q \in ProgramType
             /\ ~q.late => GoodEnd(q)
             /\ \E o \in programs : /\ o.id = q.id /\ o.node = q.node /\ o.late = q.late
                                    /\ o.input = q.input /\ o.wrote = q.wrote
  <2>1. CASE q = new
    BY <1>3, <1>4, <2>1
  <2>2. CASE q \in programs
    BY <1>1, <2>2, Typed DEF ProgramsInv, GoodEnd
  <2>3. QED
    BY <1>2, <2>1, <2>2
<1>6. /\ Nodes' = Nodes /\ ProgramsInv'
      /\ \A q \in programs' : q \in ProgramType' /\ OnThePath(q.input.points)
  BY <1>2, <1>5, ProgramsStep
<1>7. ASSUME NEW n, HasWritten(n)' PROVE HasWritten(n)
  <2>1. n \in Nodes /\ (node[n].state = "succeeded"
                        \/ \E q \in programs' : q.node = n /\ q.wrote /\ ~q.late)
    BY <1>2, <1>6, <1>7 DEF HasWritten
  <2>2. QED
    BY <1>5, <2>1 DEF HasWritten
<1>8. TypeOK' /\ LineageInv' /\ PathInv'
  <2>1. TypeOK'
    BY <1>1, <1>2, <1>6 DEF TypeOK
  <2>2. LineageInv'
    BY <1>1, <1>2, <1>6, <1>7 DEF LineageInv, StatesOfNscf, DensityOfScf
  <2>3. PathInv'
    BY <1>1, <1>2, <1>6 DEF PathInv, ParamsFrom, OnThePath
  <2>4. QED
    BY <2>1, <2>2, <2>3
<1>9. QED
  BY <1>6, <1>8 DEF QEInv

LEMMA OrphanEndsStep == ASSUME QEInv, NEW p \in programs, OrphanEnds(p) PROVE QEInv'
<1>1. /\ TypeOK /\ ProgramsInv /\ LineageInv /\ PathInv
  BY DEF QEInv
<1>2. /\ programs' = programs \ {p}
      /\ UNCHANGED <<request, driving, calls, node, launched, save, product>>
  BY DEF OrphanEnds
<1>3. \A q \in programs' : q \in ProgramType /\ (~q.late => GoodEnd(q))
  BY <1>1, <1>2, Typed DEF ProgramsInv, GoodEnd
<1>4. /\ Nodes' = Nodes /\ ProgramsInv'
      /\ \A q \in programs' : q \in ProgramType' /\ OnThePath(q.input.points)
  BY <1>2, <1>3, ProgramsStep
<1>5. \A n : HasWritten(n)' => HasWritten(n)
  BY <1>2, <1>4 DEF HasWritten
<1>6. TypeOK'
  BY <1>1, <1>2, <1>4 DEF TypeOK
<1>7. LineageInv'
  BY <1>1, <1>2, <1>4, <1>5 DEF LineageInv, StatesOfNscf, DensityOfScf
<1>8. PathInv'
  BY <1>1, <1>2, <1>4 DEF PathInv, ParamsFrom, OnThePath
<1>9. QED
  BY <1>4, <1>6, <1>7, <1>8 DEF QEInv

\* What a program writes is its node's if its caller still waits for it.
LEMMA ProgramWritesStep == ASSUME QEInv, NEW p \in programs, ProgramWrites(p) PROVE QEInv'
<1> DEFINE new == [p EXCEPT !.wrote = TRUE]
           density == [by |-> p.id, late |-> p.late, ecutwfc |-> p.input.ecutwfc]
<1>1. /\ TypeOK /\ ProgramsInv /\ LineageInv /\ PathInv /\ p \in ProgramType /\ p.node \in Nodes
      /\ request \in RequestType /\ p.input \in InputType /\ p.id \in Ids /\ p.late \in BOOLEAN
      /\ save \in [density: Density, states: States]
      /\ product \in [Writers -> [by: Ids, late: BOOLEAN, states: States]]
      /\ OnThePath(p.input.points) /\ OnThePath(save.states.points)
  BY Typed DEF QEInv, ProgramType, TypeOK, PathInv
<1>2. /\ p.end = "" /\ programs' = (programs \ {p}) \cup {new}
      /\ UNCHANGED <<request, driving, calls, node, launched>>
  BY DEF ProgramWrites
<1>3. /\ new \in ProgramType /\ new.id = p.id /\ new.node = p.node /\ new.late = p.late
      /\ new.input = p.input /\ new.end = ""
  BY <1>1, <1>2 DEF ProgramType
<1> HIDE DEF new
<1>4. ASSUME NEW q \in programs'
      PROVE  /\ q \in ProgramType
             /\ ~q.late => GoodEnd(q)
             /\ \E o \in programs : /\ o.id = q.id /\ o.node = q.node /\ o.late = q.late
                                    /\ o.input = q.input
  <2>1. CASE q = new
    BY <1>3, <2>1 DEF GoodEnd
  <2>2. CASE q \in programs
    BY <1>1, <2>2, Typed DEF ProgramsInv, GoodEnd
  <2>3. QED
    BY <1>2, <2>1, <2>2
<1>5. /\ Nodes' = Nodes /\ ProgramsInv'
      /\ \A q \in programs' : q \in ProgramType' /\ OnThePath(q.input.points)
  BY <1>2, <1>4, ProgramsStep
<1>6. ASSUME NEW n, HasWritten(n)'
      PROVE  n \in Nodes /\ (HasWritten(n) \/ (n = p.node /\ ~p.late))
  BY <1>2, <1>3, <1>5, <1>6 DEF HasWritten
<1>7. ~p.late => p.id = node[p.node].program /\ node[p.node].state = "running"
  BY <1>1 DEF ProgramsInv, Running
\* Where the nscf may have written, the scf has succeeded: it writes no more.
<1>8. /\ HasWritten("nscf")' => "scf" \in Nodes /\ node["scf"].state = "succeeded"
      /\ p.node = "nscf" => "scf" \in Nodes /\ node["scf"].state = "succeeded"
      /\ p.node \in Posts => /\ "nscf" \in Nodes /\ node["nscf"].state = "succeeded"
      /\ \A n \in Nodes \cap Posts : node[n].state = "succeeded" =>
            "nscf" \in Nodes /\ node["nscf"].state = "succeeded"
  <2>1. ASSUME HasWritten("nscf")'
        PROVE  "scf" \in Nodes /\ node["scf"].state = "succeeded"
    <3>1. /\ "nscf" \in Nodes
          /\ node["nscf"].state = "succeeded" \/ \E q \in programs : q.node = "nscf"
      BY <1>6, <2>1 DEF HasWritten
    <3>2. QED
      BY <1>1, <3>1, UpstreamSucceeded
  <2>2. QED
    BY <1>1, <2>1, UpstreamSucceeded
<1>9. density \in Density /\ DensityOfScf(save.density)' = DensityOfScf(save'.density)
  BY <1>1, <1>2 DEF Density, InputType, DensityOfScf
<1>10. \A d \in Density : /\ StatesOf(p, d) \in States
                          /\ StatesOf(p, d).by = p.id /\ StatesOf(p, d).late = p.late
                          /\ StatesOf(p, d).points = p.input.points
                          /\ StatesOf(p, d).density = d
  BY <1>1 DEF StatesOf, States, InputType
<1>11. /\ product' \in [Writers -> [by: Ids, late: BOOLEAN, states: States]]
       /\ \A n \in Nodes \cap Writers : product'[n].by # 0 =>
            node["nscf"].state = "succeeded" /\ StatesOfNscf(product'[n].states)
  <2>1. CASE p.node \in Writers
    <3>1. product' = [product EXCEPT ![p.node] =
                        [by |-> p.id, late |-> p.late, states |-> save.states]]
      BY <2>1 DEF ProgramWrites
    <3>2. node["nscf"].state = "succeeded" /\ StatesOfNscf(save.states)
      BY <1>1, <1>8, <2>1 DEF Posts, LineageInv, HasWritten
    <3>3. QED
      BY <1>1, <2>1, <3>1, <3>2 DEF LineageInv
  <2>2. CASE p.node \notin Writers
    BY <1>1, <2>2 DEF ProgramWrites, LineageInv
  <2>3. QED
    BY <2>1, <2>2
<1>12. /\ save' \in [density: Density, states: States]
       /\ OnThePath(save'.states.points)
       /\ HasWritten("scf")' => DensityOfScf(save'.density)
       /\ HasWritten("nscf")' => StatesOfNscf(save'.states)
  <2>1. CASE p.node = "scf"
    <3>1. save' = [density |-> density, states |-> StatesOf(p, density)]
      BY <2>1 DEF ProgramWrites
    <3> HIDE DEF density
    <3>2. save' \in [density: Density, states: States] /\ OnThePath(save'.states.points)
      BY <1>1, <1>9, <1>10, <3>1
    <3>3. DensityOfScf(density)
      BY <1>7, <2>1 DEF density, DensityOfScf
    <3>4. ASSUME HasWritten("nscf")' PROVE StatesOfNscf(save'.states)
      <4>1. p.late
        BY <1>7, <1>8, <2>1, <3>4
      <4>2. QED
        BY <1>9, <1>10, <3>1, <3>3, <4>1 DEF StatesOfNscf
    <3>5. QED
      BY <1>9, <3>1, <3>2, <3>3, <3>4
  <2>2. CASE p.node = "nscf"
    <3>1. save' = [save EXCEPT !.states = StatesOf(p, save.density)]
      BY <2>2 DEF ProgramWrites
    <3>2. /\ save' \in [density: Density, states: States] /\ save'.density = save.density
          /\ save'.states = StatesOf(p, save.density)
      BY <1>1, <1>10, <3>1
    <3>3. DensityOfScf(save.density)
      BY <1>1, <1>8, <2>2 DEF LineageInv, HasWritten
    <3>4. StatesOfNscf(save'.states)
      BY <1>1, <1>7, <1>10, <2>2, <3>2, <3>3 DEF StatesOfNscf
    <3>5. QED
      BY <1>1, <1>10, <3>2, <3>3, <3>4
  <2>3. CASE p.node \notin {"scf", "nscf"}
    <3>1. save' = save
      BY <2>3 DEF ProgramWrites
    <3>2. QED
      BY <1>1, <1>6, <2>3, <3>1 DEF LineageInv
  <2>4. QED
    BY <2>1, <2>2, <2>3
<1>13. TypeOK'
  BY <1>1, <1>2, <1>5, <1>11, <1>12 DEF TypeOK
<1>14. LineageInv'
  BY <1>1, <1>2, <1>5, <1>11, <1>12 DEF LineageInv, StatesOfNscf, DensityOfScf
<1>15. PathInv'
  BY <1>1, <1>2, <1>5, <1>12 DEF PathInv, ParamsFrom, OnThePath
<1>16. QED
  BY <1>5, <1>13, <1>14, <1>15 DEF QEInv

----------------------------------------------------------------------------
(* A step of the engine around them: no caller waits any more *)

\* What a call, its end or a crash leaves of a node.
KeptRecord(n, record) ==
  /\ record \in NodeType
  /\ record.program \in {0, node[n].program}
  /\ record.repairs <= MaxRepairs(n)
  /\ record.params.ecutwfc <= AtLeast(MaxEcut, request.ecutwfc)
  /\ record.resolved => ParamsFrom(n, record.params)
  /\ record.state = "running" => node[n].state = "running" /\ record.resolved
  /\ record.state = "succeeded" <=> node[n].state = "succeeded"
  /\ record.state = "succeeded" => /\ record.program = node[n].program
                                   /\ record.outputs = node[n].outputs

LEMMA GlobalStep ==
  ASSUME QEInv, UNCHANGED <<request, launched, save, product>>,
         driving' \in BOOLEAN, calls' \in 0..MaxCalls,
         node' \in [Nodes -> NodeType],
         \A n \in Nodes : KeptRecord(n, node'[n]),
         \A q \in programs' :
           /\ q \in ProgramType /\ q.late
           /\ \E p \in programs : p.id = q.id /\ p.node = q.node /\ p.input = q.input
  PROVE  QEInv'
<1>1. /\ TypeOK /\ ProgramsInv /\ LineageInv /\ PathInv /\ request \in RequestType
      /\ \A n \in Nodes : node[n] \in NodeType
  BY Typed DEF QEInv
<1>2. Nodes' = Nodes
  BY DEF Nodes
<1>3. \A n \in Nodes :
        /\ node'[n].state = "succeeded" <=> node[n].state = "succeeded"
        /\ node'[n].state = "succeeded" => /\ node'[n].program = node[n].program
                                           /\ node'[n].outputs = node[n].outputs
  BY DEF KeptRecord
<1>4. TypeOK'
  BY <1>1, <1>2 DEF TypeOK, KeptRecord, ProgramType
<1>5. ProgramsInv'
  <2>1. ASSUME NEW n \in Nodes
        PROVE  /\ node'[n].program <= launched
               /\ node'[n].state \in {"running", "succeeded"} =>
                    \A d \in Deps(n) : node'[d].state = "succeeded"
               /\ node'[n].state = "running" => node'[n].resolved
    <3>1. /\ node'[n].program \in {0, node[n].program} /\ node[n].program <= launched
          /\ launched \in Nat
      BY <1>1, Typed DEF KeptRecord, ProgramsInv
    <3>2. /\ node'[n].state \in {"running", "succeeded"} =>
                node[n].state \in {"running", "succeeded"}
          /\ node'[n].state = "running" => node'[n].resolved
      BY DEF KeptRecord
    <3>3. Deps(n) \subseteq Nodes
      BY <1>1, TemplateFacts
    <3>4. QED
      BY <1>1, <1>3, <3>1, <3>2, <3>3 DEF ProgramsInv
  <2>2. ASSUME NEW q \in programs'
        PROVE  /\ q.id \in 1..launched /\ q.late
               /\ \A n \in Nodes : node'[n].program = q.id => q.node = n
               /\ \A d \in Deps(q.node) : node'[d].state = "succeeded"
    <3>1. PICK p \in programs : p.id = q.id /\ p.node = q.node /\ p.input = q.input
      OBVIOUS
    <3>2. q.late /\ q.id \in 1..launched /\ q.node \in Nodes
      BY <1>1, <3>1, Typed DEF ProgramsInv
    <3>3. \A n \in Nodes : node'[n].program = q.id => q.node = n
      BY <1>1, <3>1, <3>2 DEF ProgramsInv, KeptRecord
    <3>4. \A d \in Deps(q.node) : node'[d].state = "succeeded"
      BY <1>1, <1>3, <3>1, <3>2, TemplateFacts DEF ProgramsInv
    <3>5. QED
      BY <3>2, <3>3, <3>4
  <2>3. QED
    BY <1>2, <2>1, <2>2 DEF ProgramsInv, Deps
<1>6. LineageInv'
  <2>1. ASSUME NEW n, HasWritten(n)'
        PROVE  n \in Nodes /\ node[n].state = "succeeded" /\ HasWritten(n)
    BY <1>2, <1>3, <2>1 DEF HasWritten
  <2>2. ASSUME "nscf" \in Nodes, node["nscf"].state = "succeeded"
        PROVE  /\ node'["nscf"].program = node["nscf"].program
               /\ node'["scf"].program = node["scf"].program
               /\ node'["nscf"].state = "succeeded"
    <3>1. "scf" \in Nodes /\ node["scf"].state = "succeeded"
      BY <1>1, <2>2, UpstreamSucceeded
    <3>2. QED
      BY <1>3, <2>2, <3>1
  <2>3. \A n \in Nodes \cap Posts : "nscf" \in Nodes
    BY <1>1, Upstream
  <2>4. HasWritten("scf")' => DensityOfScf(save.density)'
    BY <1>1, <1>3, <2>1 DEF LineageInv, DensityOfScf
  <2>5. HasWritten("nscf")' => StatesOfNscf(save.states)'
    BY <1>1, <2>1, <2>2 DEF LineageInv, StatesOfNscf, DensityOfScf
  <2>6. \A n \in Nodes \cap Writers :
          product[n].by # 0 => /\ node'["nscf"].state = "succeeded"
                               /\ StatesOfNscf(product[n].states)'
    BY <1>1, <2>2, <2>3 DEF LineageInv, StatesOfNscf, DensityOfScf, Posts
  <2>7. ASSUME NEW n \in Nodes \cap Posts, node'[n].state = "succeeded"
        PROVE  StatesOfNscf(node[n].outputs.product.states)'
    <3>1. node[n].state = "succeeded" /\ node'[n].outputs = node[n].outputs
      BY <1>3, <2>7
    <3>2. "nscf" \in Nodes /\ node["nscf"].state = "succeeded"
      BY <1>1, <2>7, <3>1, UpstreamSucceeded
    <3>3. QED
      BY <1>1, <2>2, <2>7, <3>1, <3>2 DEF LineageInv, StatesOfNscf, DensityOfScf
  <2>8. QED
    BY <1>2, <2>4, <2>5, <2>6, <2>7 DEF LineageInv
<1>7. PathInv'
  <2>1. \A q \in programs' : OnThePath(q.input.points)
    BY <1>1 DEF PathInv
  <2>2. QED
    BY <1>1, <1>2, <1>3, <2>1 DEF PathInv, KeptRecord, ParamsFrom, OnThePath
<1>8. QED
  BY <1>4, <1>5, <1>6, <1>7 DEF QEInv

\* A node as it was is one that the engine may leave behind.
LEMMA KeptAsItWas ==
  ASSUME QEInv, NEW n \in Nodes PROVE KeptRecord(n, node[n])
BY Typed DEF QEInv, TypeOK, ProgramsInv, PathInv, KeptRecord

\* So is one that was loaded, and started again if it had not succeeded.
LEMMA KeptLoaded ==
  ASSUME QEInv, NEW n \in Nodes, NEW r,
         \/ node[n].state # "running" /\ r = Loaded(n)
         \/ node[n].state = "running" /\ r = [Loaded(n) EXCEPT !.state = "pending", !.program = 0]
         \/ node[n].state = "failed" /\ r = [Loaded(n) EXCEPT !.state = "pending", !.repairs = 0]
  PROVE  KeptRecord(n, r)
<1>1. /\ node[n] \in NodeType /\ request \in RequestType /\ node[n].repairs <= MaxRepairs(n)
      /\ 0 \in Ids /\ 0 <= MaxRepairs(n)
  BY Typed, Defaults DEF QEInv, TypeOK, Ids, MaxRepairs
<1>2. Unresolved \in ParamsType /\ Unresolved.ecutwfc <= AtLeast(MaxEcut, request.ecutwfc)
  BY <1>1, ResolvedFacts
<1>3. Loaded(n) = [node[n] EXCEPT !.params = Unresolved, !.resolved = FALSE]
  BY DEF Loaded
<1>4. r \in NodeType /\ r.params = Unresolved /\ ~r.resolved /\ r.outputs = node[n].outputs
  <2>1. CASE r = Loaded(n)
    BY <1>1, <1>2, <1>3, <2>1 DEF NodeType
  <2>2. CASE r = [Loaded(n) EXCEPT !.state = "pending", !.program = 0]
    BY <1>1, <1>2, <1>3, <2>2 DEF NodeType
  <2>3. CASE r = [Loaded(n) EXCEPT !.state = "pending", !.repairs = 0]
    <3>1. r = [node[n] EXCEPT !.params = Unresolved, !.resolved = FALSE, !.state = "pending",
                              !.repairs = 0]
      BY <1>1, <1>3, <2>3 DEF NodeType
    <3>2. 0 \in 0..2
      OBVIOUS
    <3>3. r \in NodeType
      BY <1>1, <1>2, <3>1, <3>2 DEF NodeType
    <3>4. QED
      BY <1>1, <3>1, <3>3 DEF NodeType
  <2>4. QED
    BY <2>1, <2>2, <2>3
<1>5. /\ r.program \in {0, node[n].program} /\ r.repairs <= MaxRepairs(n)
      /\ r.state # "running"
      /\ r.state = "succeeded" <=> node[n].state = "succeeded"
      /\ r.state = "succeeded" => r.program = node[n].program
  BY <1>1, <1>3, ZenonT(40) DEF NodeType
<1>6. QED
  BY <1>2, <1>4, <1>5 DEF KeptRecord

\* Between two calls every program has outlived its caller.
LEMMA AllLate ==
  ASSUME QEInv, ~driving \/ \A n \in Nodes : node[n].state # "running"
  PROVE  \A p \in programs : p \in ProgramType /\ p.late
BY Typed DEF QEInv, ProgramsInv, Running

LEMMA ReturnStep == ASSUME QEInv, Return PROVE QEInv'
<1>1. /\ UNCHANGED <<request, calls, node, programs, launched, save, product>>
      /\ driving' = FALSE /\ \A n \in Nodes : node[n].state # "running"
  BY DEF Return
<1>2. \A p \in programs : p \in ProgramType /\ p.late
  BY <1>1, AllLate
<1>3. /\ node' \in [Nodes -> NodeType] /\ calls' \in 0..MaxCalls
      /\ \A n \in Nodes : KeptRecord(n, node'[n])
  BY <1>1, KeptAsItWas, Typed DEF QEInv, TypeOK
<1>4. QED
  BY <1>1, <1>2, <1>3, GlobalStep

LEMMA CrashStep == ASSUME QEInv, Crash PROVE QEInv'
<1>1. /\ UNCHANGED <<request, calls, node, launched, save, product>> /\ driving' = FALSE
      /\ programs' = {[p EXCEPT !.late = TRUE] : p \in {q \in programs : q.end = ""}}
  BY DEF Crash
<1>2. \A q \in programs' :
        /\ q \in ProgramType /\ q.late
        /\ \E p \in programs : p.id = q.id /\ p.node = q.node /\ p.input = q.input
  <2> SUFFICES ASSUME NEW q \in programs'
               PROVE  /\ q \in ProgramType /\ q.late
                      /\ \E p \in programs : p.id = q.id /\ p.node = q.node /\ p.input = q.input
    OBVIOUS
  <2>1. PICK p \in programs : q = [p EXCEPT !.late = TRUE]
    BY <1>1
  <2>2. p \in ProgramType
    BY Typed DEF QEInv
  <2>3. q \in ProgramType /\ q.late /\ p.id = q.id /\ p.node = q.node /\ p.input = q.input
    BY <2>1, <2>2 DEF ProgramType
  <2>4. QED
    BY <2>3
<1>3. /\ node' \in [Nodes -> NodeType] /\ calls' \in 0..MaxCalls
      /\ \A n \in Nodes : KeptRecord(n, node'[n])
  BY <1>1, KeptAsItWas, Typed DEF QEInv, TypeOK
<1>4. QED
  BY <1>1, <1>2, <1>3, GlobalStep

LEMMA CallStep == ASSUME QEInv, Resume \/ Retry PROVE QEInv'
<1>1. /\ UNCHANGED <<request, programs, launched, save, product>>
      /\ ~driving /\ driving' = TRUE /\ calls < MaxCalls /\ calls' = calls + 1
  BY DEF Resume, Retry
<1>2. calls' \in 0..MaxCalls
  BY <1>1, QEAssumption DEF QEInv, TypeOK
<1>3. \A n \in Nodes :
        \/ node[n].state # "running" /\ node'[n] = Loaded(n)
        \/ /\ node[n].state = "running"
           /\ node'[n] = [Loaded(n) EXCEPT !.state = "pending", !.program = 0]
        \/ /\ node[n].state = "failed"
           /\ node'[n] = [Loaded(n) EXCEPT !.state = "pending", !.repairs = 0]
  BY DEF Resume, Retry
<1>4. \A n \in Nodes : KeptRecord(n, node'[n])
  BY <1>3, KeptLoaded
<1>5. node' \in [Nodes -> NodeType]
  <2>1. node' = [n \in Nodes |-> node'[n]]
    BY DEF Resume, Retry
  <2>2. QED
    BY <1>4, <2>1 DEF KeptRecord
<1>6. \A p \in programs : p \in ProgramType /\ p.late
  BY <1>1, AllLate
<1>7. QED
  BY <1>1, <1>2, <1>4, <1>5, <1>6, GlobalStep

----------------------------------------------------------------------------
(* The invariant *)

LEMMA QEInitially == Init => QEInv
<1> SUFFICES ASSUME Init PROVE QEInv
  OBVIOUS
<1>1. request \in RequestType /\ 0 \in Ids
  BY QEAssumption, Defaults DEF Init, Ids
<1>2. /\ NoDensity \in Density /\ NoStates \in States
      /\ NoProduct \in [by: Ids, late: BOOLEAN, states: States]
  BY <1>1 DEF NoDensity, Density, NoStates, States, NoProduct
<1>3. Unresolved \in ParamsType /\ Unresolved.ecutwfc <= AtLeast(MaxEcut, request.ecutwfc)
  BY <1>1 DEF Unresolved, ParamsType, AtLeast, MaxEcut, RequestType
<1>4. NoOutputs \in OutputsType
  BY <1>2 DEF NoOutputs, OutputsType
<1>5. /\ FreshNode \in NodeType /\ FreshNode.repairs = 0 /\ FreshNode.params = Unresolved
      /\ ~FreshNode.resolved /\ FreshNode.state = "pending" /\ FreshNode.program = 0
  BY <1>1, <1>3, <1>4 DEF FreshNode, NodeType
<1>6. /\ node \in [Nodes -> NodeType] /\ \A n \in Nodes : node[n] = FreshNode
      /\ programs = {} /\ launched = 0
  BY <1>5 DEF Init
<1>7. \A n \in Nodes : 0 <= MaxRepairs(n)
  BY DEF MaxRepairs
<1>8. TypeOK
  <2>1. driving \in BOOLEAN /\ calls \in 0..MaxCalls
    BY QEAssumption DEF Init
  <2>2. QED
    BY <1>1, <1>2, <1>3, <1>5, <1>6, <1>7, <2>1 DEF TypeOK, Init
<1>9. ProgramsInv
  BY <1>5, <1>6 DEF ProgramsInv
<1>10. LineageInv
  BY <1>5, <1>6 DEF LineageInv, HasWritten, Init, NoProduct
<1>11. PathInv
  <2>1. save.states.points = 0 /\ request.nkpoints_bands \in Nat
    BY <1>1 DEF Init, NoStates, RequestType
  <2>2. OnThePath(save.states.points)
    BY <2>1 DEF OnThePath
  <2>3. QED
    BY <1>5, <1>6, <2>2 DEF PathInv
<1>12. QED
  BY <1>8, <1>9, <1>10, <1>11 DEF QEInv

LEMMA QESteps == QEInv /\ [Next]_vars => QEInv'
<1> SUFFICES ASSUME QEInv, [Next]_vars PROVE QEInv'
  OBVIOUS
<1>1. ASSUME NEW n \in Nodes, Dispatch(n) \/ Execute(n) \/ CompileFails(n) \/ Collect(n)
      PROVE  QEInv'
  BY <1>1, DispatchStep, ExecuteStep, CompileFailsStep, CollectStep
<1>2. ASSUME NEW p \in programs, \/ ProgramWrites(p) \/ OrphanEnds(p)
                                 \/ \E end \in Ends : ProgramEnds(p, end)
      PROVE  QEInv'
  BY <1>2, ProgramWritesStep, OrphanEndsStep, ProgramEndsStep
<1>3. CASE Return \/ Crash \/ Resume \/ Retry
  BY <1>3, ReturnStep, CrashStep, CallStep
<1>4. CASE UNCHANGED vars
  <2>1. Nodes' = Nodes /\ \A m, q : InputOf(m, q)' = InputOf(m, q)
    BY <1>4, InputUnchanged DEF vars, Nodes
  <2>2. TypeOK' /\ ProgramsInv'
    BY <1>4, <2>1 DEF vars, QEInv, TypeOK, ProgramsInv, Running, ProgramType
  <2>3. LineageInv' /\ PathInv'
    BY <1>4, <2>1
       DEF vars, QEInv, LineageInv, HasWritten, StatesOfNscf, DensityOfScf,
           PathInv, ParamsFrom, OnThePath
  <2>4. QED
    BY <2>2, <2>3 DEF QEInv
<1>5. QED
  BY <1>1, <1>2, <1>3, <1>4 DEF Next

\* The invariant, of every run of a template.
THEOREM QEInvariant == Spec => []QEInv
<1>1. QED
  BY QEInitially, QESteps, PTL DEF Spec

\* Types, budgets of repairs and the cap of the cutoff (GraphScheduler.
\* _handle_failure, QEParamRepairer.repair).
THEOREM TypeCorrect == Spec => []TypeOK
<1>1. QEInv => TypeOK
  BY DEF QEInv
<1>2. QED
  BY <1>1, QEInvariant, PTL

\* What was plotted was computed from the nscf and the scf that succeeded, or an
\* orphan wrote it (QECalcTool._link_upstream_save, _run_bands, _run_dos).
THEOREM Lineage == Spec => []LineageHasCause
<1>1. ASSUME QEInv PROVE LineageHasCause
  BY <1>1 DEF QEInv, LineageInv, StatesOfNscf, DensityOfScf, LineageHasCause
<1>2. QED
  BY <1>1, QEInvariant, PTL

\* An axis that does not fit its eigenvalues has one of four causes
\* (QECalcTool._run_bands, QEParamRepairer._repair_timeout).
THEOREM Axis == Spec => []AxisHasCause
<1>1. ASSUME QEInv PROVE AxisHasCause
  <2>1. request.nkpoints_bands \in Nat
    BY <1>1, Typed DEF QEInv, RequestType
  <2>2. QED
    BY <1>1, <2>1 DEF QEInv, PathInv, OnThePath, AxisHasCause, Or
<1>2. QED
  BY <1>1, QEInvariant, PTL

----------------------------------------------------------------------------
(* Repairs *)

\* What RepairsStrengthen asks of the input next after an end of a program that
\* had a cutoff of its own, or none.
Stronger(own, end, next, input) ==
  CASE end = "timeout" -> /\ next.ecutwfc = input.ecutwfc
                          /\ next.points < input.points \/ next.mesh < input.mesh
    [] end = "few_bands" -> next = [input EXCEPT !.nbnd = next.nbnd] /\ next.nbnd > input.nbnd
    [] OTHER -> \/ next.ecutwfc > input.ecutwfc
                \/ /\ own = 0
                   /\ input.ecutwfc = request.default
                   /\ next.ecutwfc = 45 + CutoffBumpStep

\* The input of a program of pw.x, field by field.
LEMMA PwInput ==
  ASSUME NEW n \in PwNodes, NEW params \in ParamsType
  PROVE  LET input == InputOf(n, params) IN
         /\ input = [ecutwfc |-> input.ecutwfc, points |-> input.points,
                     mesh |-> input.mesh, nbnd |-> input.nbnd]
         /\ input.ecutwfc = Or(params.ecutwfc, request.default)
         /\ n \in {"scf", "vc_relax"} => input.mesh = Or(params.kpoints, DefaultMesh)
         /\ n = "nscf" => input.nbnd = Or(params.nbnd, DefaultBands)
         /\ n = "nscf" /\ request.template = "t2_bands" =>
              input.points = PathPoints(Or(params.nkpoints_bands, 60))
<1>1. CASE n = "vc_relax"
  BY <1>1 DEF InputOf, RelaxInput, Posts, Writers
<1>2. CASE n = "scf"
  BY <1>2 DEF InputOf, ScfInput, Posts, Writers
<1>3. CASE n = "nscf"
  <2>1. InputOf(n, params) = NscfInput(params)
    BY <1>3 DEF InputOf, Posts, Writers
  <2>2. QED
    BY <1>3, <2>1 DEF NscfInput, ScfInput
<1>4. QED
  BY <1>1, <1>2, <1>3 DEF PwNodes

\* More bands: nothing else of the input depends on them.
LEMMA MoreBands ==
  ASSUME NEW params \in ParamsType, NEW bands \in Nat
  PROVE  LET next == InputOf("nscf", [params EXCEPT !.nbnd = bands]) IN
         next = [InputOf("nscf", params) EXCEPT !.nbnd = next.nbnd]
<1> DEFINE new == [params EXCEPT !.nbnd = bands]
<1>1. \A q : InputOf("nscf", q) = NscfInput(q)
  BY DEF InputOf, Posts, Writers
<1>2. /\ new.ecutwfc = params.ecutwfc /\ new.kpoints = params.kpoints
      /\ new.nkpoints_bands = params.nkpoints_bands
  BY DEF ParamsType
<1> HIDE DEF new
<1>3. NscfInput(new) = [NscfInput(params) EXCEPT !.nbnd = NscfInput(new).nbnd]
  <2>1. ScfInput(new) = [ScfInput(params) EXCEPT !.nbnd = ScfInput(new).nbnd]
    BY <1>2 DEF ScfInput
  <2> DEFINE old == ScfInput(params)
  <2>2. old = [ecutwfc |-> old.ecutwfc, points |-> old.points, mesh |-> old.mesh,
               nbnd |-> old.nbnd]
    BY DEF ScfInput
  <2> HIDE DEF old
  <2>3. CASE request.template = "t2_bands"
    BY <1>2, <2>1, <2>2, <2>3 DEF NscfInput, old
  <2>4. CASE request.template # "t2_bands"
    BY <1>2, <2>1, <2>2, <2>4 DEF NscfInput, old
  <2>5. QED
    BY <2>3, <2>4
<1>4. QED
  BY <1>1, <1>3 DEF new

LEMMA RepairStrengthens ==
  ASSUME QEInv, NEW n \in Nodes \cap PwNodes, Running(n), NEW p \in Of(n),
         p.end \in Ends, p.end # "done",
         RepairedParams(n, p.end) # node[n].params
  PROVE  Stronger(node[n].params.ecutwfc, p.end, InputOf(n, RepairedParams(n, p.end)), p.input)
<1> DEFINE params == node[n].params
           new == RepairedParams(n, p.end)
           input == InputOf(n, params)
           next == InputOf(n, new)
<1>1. /\ request \in RequestType /\ node[n].params \in ParamsType /\ ParamsFrom(n, node[n].params)
      /\ node[n].params.ecutwfc <= AtLeast(MaxEcut, request.ecutwfc)
      /\ p.input = InputOf(n, node[n].params)
      /\ p.end = "few_bands" => n = "nscf" /\ p.input.nbnd < NeededBands
      /\ n \in PwNodes /\ n # "bands"
      /\ request.default \in Nat /\ request.default > 0
  <2>1. TypeOK /\ ProgramsInv /\ PathInv /\ request \in RequestType /\ node[n] \in NodeType
    BY Typed DEF QEInv
  <2>2. node[n].params \in ParamsType /\ ParamsFrom(n, node[n].params)
        /\ node[n].params.ecutwfc <= AtLeast(MaxEcut, request.ecutwfc)
    BY <2>1 DEF NodeType, ProgramsInv, PathInv, Running, TypeOK
  <2>3. p.input = InputOf(n, node[n].params)
        /\ (p.end = "few_bands" => n = "nscf" /\ p.input.nbnd < NeededBands)
    BY WaitedFor
  <2>4. QED
    BY <2>1, <2>2, <2>3 DEF RequestType, PwNodes
<1>2. new \in ParamsType
  BY <1>1, RepairFacts
<1>3. /\ input.ecutwfc = Or(params.ecutwfc, request.default)
      /\ n \in {"scf", "vc_relax"} => input.mesh = Or(params.kpoints, DefaultMesh)
      /\ n = "nscf" => input.nbnd = Or(params.nbnd, DefaultBands)
      /\ n = "nscf" /\ request.template = "t2_bands" =>
           input.points = PathPoints(Or(params.nkpoints_bands, 60))
  BY <1>1, PwInput
<1>4. /\ next.ecutwfc = Or(new.ecutwfc, request.default)
      /\ n \in {"scf", "vc_relax"} => next.mesh = Or(new.kpoints, DefaultMesh)
      /\ n = "nscf" => next.nbnd = Or(new.nbnd, DefaultBands)
      /\ n = "nscf" /\ request.template = "t2_bands" =>
           next.points = PathPoints(Or(new.nkpoints_bands, 60))
  BY <1>1, <1>2, PwInput
<1>5. SUFFICES Stronger(params.ecutwfc, p.end, next, input)
  BY <1>1
<1>6. CASE p.end = "few_bands"
  <2>1. new = [params EXCEPT !.nbnd = AtLeast(24, 2 * params.nbnd)]
    BY <1>6 DEF RepairedParams
  <2>2. AtLeast(24, 2 * params.nbnd) \in Nat /\ n = "nscf"
    BY <1>1, <1>6 DEF AtLeast, ParamsType
  <2>3. next = [input EXCEPT !.nbnd = next.nbnd]
    BY <1>1, <2>1, <2>2, MoreBands
  <2>4. input.nbnd < NeededBands
    BY <1>1, <1>6
  <2> HIDE DEF params, new, input, next
  <2>5. next.nbnd > input.nbnd
    BY <1>1, <1>3, <1>4, <2>1, <2>2, <2>4, Defaults DEF AtLeast, ParamsType, Or, params
  <2>6. QED
    BY <1>6, <2>3, <2>5 DEF Stronger
<1>7. CASE p.end = "timeout" /\ params.nkpoints_bands > 0
  <2>1. new = IF params.nkpoints_bands <= MinBandPathPoints THEN params
              ELSE [params EXCEPT !.nkpoints_bands =
                      AtLeast(MinBandPathPoints, (params.nkpoints_bands * 6) \div 10)]
    BY <1>7 DEF RepairedParams
  <2>2. n = "nscf" /\ request.template = "t2_bands"
    BY <1>1, <1>7 DEF ParamsFrom, ParamsType, PwNodes
  <2>3. params \in ParamsType /\ new # params
    BY <1>1
  <2> HIDE DEF params, new, input, next
  <2>4. /\ params.nkpoints_bands > 24
        /\ new = [params EXCEPT !.nkpoints_bands = AtLeast(24, (params.nkpoints_bands * 6) \div 10)]
    BY <2>1, <2>3 DEF MinBandPathPoints, ParamsType
  <2>5. /\ new.ecutwfc = params.ecutwfc
        /\ new.nkpoints_bands \in Nat /\ new.nkpoints_bands >= 24
        /\ new.nkpoints_bands < params.nkpoints_bands
    BY <2>3, <2>4 DEF AtLeast, ParamsType
  <2>6. next.points < input.points
    BY <1>3, <1>4, <2>2, <2>3, <2>4, <2>5 DEF PathPoints, AtLeast, Or, ParamsType
  <2>7. QED
    BY <1>3, <1>4, <1>7, <2>5, <2>6 DEF Stronger
<1>8. CASE p.end = "timeout" /\ params.nkpoints_bands = 0
  <2>1. new = IF params.kpoints <= 2 THEN params
              ELSE [params EXCEPT !.kpoints = AtLeast(2, params.kpoints \div 2)]
    BY <1>8 DEF RepairedParams
  <2>2. params \in ParamsType /\ new # params
    BY <1>1
  <2>3. params.kpoints # 0 => n \in {"scf", "vc_relax"}
    BY <1>1 DEF ParamsFrom
  <2> HIDE DEF params, new, input, next
  <2>4. params.kpoints > 2 /\ new = [params EXCEPT !.kpoints = AtLeast(2, params.kpoints \div 2)]
    BY <2>1, <2>2 DEF ParamsType
  <2>5. /\ new.ecutwfc = params.ecutwfc /\ new.kpoints \in Nat /\ new.kpoints >= 2
        /\ new.kpoints < params.kpoints
    BY <2>2, <2>4 DEF AtLeast, ParamsType
  <2>6. next.mesh < input.mesh
    BY <1>3, <1>4, <2>2, <2>3, <2>4, <2>5 DEF Or, ParamsType
  <2>7. QED
    BY <1>3, <1>4, <1>8, <2>5, <2>6 DEF Stronger
<1>9. CASE p.end \notin {"few_bands", "timeout"}
  <2> DEFINE current == Or(params.ecutwfc, 45)
  <2>1. new = IF current >= MaxEcut THEN params
              ELSE [params EXCEPT !.ecutwfc = AtMost(MaxEcut, current + CutoffBumpStep)]
    BY <1>9 DEF RepairedParams
  <2>2. params \in ParamsType /\ new # params /\ params.ecutwfc \in Nat
    BY <1>1 DEF ParamsType
  <2> HIDE DEF params, new, input, next
  <2>3. current < 120 /\ new.ecutwfc = AtMost(120, current + 10)
    BY <2>1, <2>2 DEF MaxEcut, CutoffBumpStep, Or, ParamsType
  <2>4. CASE params.ecutwfc # 0
    <3>1. next.ecutwfc > input.ecutwfc
      BY <1>3, <1>4, <2>2, <2>3, <2>4 DEF Or, AtMost
    <3>2. QED
      BY <1>9, <3>1 DEF Stronger
  <2>5. CASE params.ecutwfc = 0
    <3>1. input.ecutwfc = request.default /\ next.ecutwfc = 45 + CutoffBumpStep
      BY <1>3, <1>4, <2>3, <2>5 DEF Or, AtMost, CutoffBumpStep
    <3>2. QED
      BY <1>9, <2>5, <3>1 DEF Stronger
  <2>6. QED
    BY <2>4, <2>5
<1>10. QED
  <2>1. params.nkpoints_bands \in Nat
    BY <1>1 DEF ParamsType
  <2>2. QED
    BY <1>6, <1>7, <1>8, <1>9, <2>1

\* Only the worker of a node requeues it while it is running, after a repair.
LEMMA RequeuedByRepair ==
  ASSUME QEInv, [Next]_vars, NEW n \in Nodes \cap PwNodes,
         node[n].state = "running", node'[n].state = "ready"
  PROVE  \E p \in Of(n) : /\ Running(n) /\ p.end \in Ends /\ p.end # "done"
                          /\ RepairedParams(n, p.end) # node[n].params
                          /\ node'[n].params = RepairedParams(n, p.end)
<1>1. node \in [Nodes -> NodeType] /\ node[n] \in NodeType
  BY Typed DEF QEInv
<1>2. ASSUME NEW m \in Nodes, Dispatch(m) \/ Execute(m) \/ CompileFails(m) PROVE FALSE
  <2>1. CASE Dispatch(m)
    BY <1>1, <2>1 DEF Dispatch, Dispatchable
  <2>2. CASE Execute(m)
    BY <1>1, <2>2 DEF Execute, NodeType
  <2>3. CASE CompileFails(m)
    BY <1>1, <2>3 DEF CompileFails, NodeType
  <2>4. QED
    BY <1>2, <2>1, <2>2, <2>3
<1>3. ASSUME Resume \/ Retry PROVE FALSE
  <2>1. Loaded(n).state = "running"
    BY <1>1 DEF Loaded, NodeType
  <2>2. CASE Resume
    <3>1. node'[n] = [Loaded(n) EXCEPT !.state = "pending", !.program = 0]
      BY <2>2 DEF Resume
    <3>2. node'[n].state = "pending"
      BY <1>1, <3>1 DEF Loaded, NodeType
    <3>3. QED
      BY <3>2
  <2>3. CASE Retry
    BY <2>1, <2>3 DEF Retry
  <2>4. QED
    BY <1>3, <2>2, <2>3
<1>4. PICK m \in Nodes : Collect(m)
  BY <1>2, <1>3 DEF Next, vars, Return, Crash, ProgramWrites, OrphanEnds, ProgramEnds
<1>5. PICK p \in Of(m) : Fails(m, p) \/ PwSucceeds(m, p) \/ BandsRead(m, p) \/ FileRead(m, p)
  BY <1>4 DEF Collect
<1>6. p.end \in Ends \cup {""} /\ Running(m)
  BY <1>4, WaitedFor DEF Collect
<1>7. m = n
  <2>1. PICK r : Returns(m, r)
    BY <1>5 DEF Fails, PwSucceeds, BandsRead, FileRead
  <2>2. QED
    BY <1>1, <2>1 DEF Returns
<1>8. CASE Fails(n, p)
  <2>1. p.end \in Ends /\ p.end # "done" /\ node'[n] = AfterFailure(n, p.end)
    BY <1>1, <1>6, <1>8 DEF Fails, Returns
  <2>2. [node[n] EXCEPT !.state = "failed",
                        !.repairs = IF node[n].repairs < MaxRepairs(n) THEN @ + 1 ELSE @].state
          = "failed"
    BY <1>1 DEF NodeType
  <2>3. /\ RepairedParams(n, p.end) # node[n].params
        /\ node'[n] = Requeued(n, RepairedParams(n, p.end))
    BY <2>1, <2>2 DEF AfterFailure
  <2>4. node'[n].params = RepairedParams(n, p.end)
    BY <1>1, <2>3 DEF Requeued, NodeType
  <2>5. QED
    BY <1>6, <1>7, <2>1, <2>3, <2>4
<1>9. CASE PwSucceeds(n, p)
  <2>1. node'[n] = Succeeded(n, NoOutputs)
    BY <1>1, <1>9 DEF PwSucceeds, Returns
  <2>2. QED
    BY <1>1, <2>1 DEF Succeeded, NodeType
<1>10. QED
  BY <1>5, <1>7, <1>8, <1>9 DEF BandsRead, FileRead, PwNodes, Writers

\* A repair strengthens what failed, whatever the defaults and the requests: the
\* one that may not is the first bump of a node without a cutoff of its own,
\* which starts from 45 Ry (QEParamRepairer.repair).
THEOREM Repairs == Spec => RepairsStrengthen
<1>1. ASSUME QEInv, [Next]_vars, NEW n \in Nodes \cap PwNodes,
             node[n].state = "running", node'[n].state = "ready"
      PROVE  \E p \in Of(n) :
               Stronger(node[n].params.ecutwfc, p.end, InputOf(n, node'[n].params), p.input)
  <2>1. PICK p \in Of(n) : /\ Running(n) /\ p.end \in Ends /\ p.end # "done"
                           /\ RepairedParams(n, p.end) # node[n].params
                           /\ node'[n].params = RepairedParams(n, p.end)
    BY <1>1, RequeuedByRepair
  <2>2. Stronger(node[n].params.ecutwfc, p.end, InputOf(n, RepairedParams(n, p.end)), p.input)
    BY <1>1, <2>1, RepairStrengthens
  <2>3. QED
    BY <2>1, <2>2
<1>2. QEInv /\ [Next]_vars =>
        [\A n \in Nodes \cap PwNodes :
           node[n].state = "running" /\ node'[n].state = "ready" =>
             \E p \in Of(n) :
               Stronger(node[n].params.ecutwfc, p.end, InputOf(n, node'[n].params), p.input)]_vars
  BY <1>1
<1>3. QED
  BY <1>2, QEInvariant, PTL DEF Spec, RepairsStrengthen, Stronger

=============================================================================
