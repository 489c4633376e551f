--------------------------- MODULE QECalculations ---------------------------
(***************************************************************************)
(* QECalcTool and QEParamRepairer (engines/qe.py) as the nodes of one run  *)
(* of the repository's templates: t0_scf, t1_vc_relax, t2_bands, t2_dos.   *)
(*                                                                         *)
(* The engine is reduced to what these two see of it (GraphRuntime has the *)
(* rest): nodes are dispatched when their dependencies have succeeded, a   *)
(* failure may be repaired, the process may die and the run be resumed or  *)
(* its failed nodes be retried.  Programs lead sessions of their own and   *)
(* survive the process (executor.py); every .save link of a run resolves   *)
(* to the directory of its scf node, where pw.x writes the charge density  *)
(* and the states.  Whatever a program leaves carries its number.          *)
(***************************************************************************)
EXTENDS Integers, FiniteSets

CONSTANTS
  Requests,       \* the runs that may be asked for: see RequestType
  DefaultMesh,    \* kpoints_default of the material, one number for all directions
  DefaultBands,   \* nbnd as compile_scf computes it from the pseudopotentials
  NeededBands,    \* the least nbnd with which pw.x does not stop
  MaxPrograms,    \* bound on the programs launched
  MaxCalls        \* bound on start, resume and retry together

Templates == {"t0_scf", "t1_vc_relax", "t2_bands", "t2_dos"}
\* A template input that is null, and a parameter a node has not, is 0.  The
\* material is reduced to its ecutwfc_default.
RequestType == [template: Templates, default: Nat \ {0}, ecutwfc: Nat,
                kpoints: Nat, nkpoints_bands: Nat, nbnd: Nat]

ASSUME QEAssumption ==
  /\ Requests \subseteq RequestType
  /\ {DefaultMesh, DefaultBands, NeededBands} \subseteq Nat \ {0}
  /\ DefaultBands >= NeededBands
  /\ MaxPrograms \in Nat /\ MaxCalls \in Nat \ {0}

VARIABLES
  request,    \* template and inputs of the run
  driving,    \* a call of the engine is in progress
  calls,      \* calls made
  node,       \* the run's nodes
  programs,   \* Quantum ESPRESSO programs alive, or ended and not collected
  launched,   \* programs launched
  save,       \* the .save directory of the run
  product     \* the file of dos.x and of projwfc.x in their directories

vars == <<request, driving, calls, node, programs, launched, save, product>>

CutoffBumpStep == 10
MaxEcut == 120
MinBandPathPoints == 24

PwNodes == {"scf", "vc_relax", "nscf"}
Writers == {"dos", "pdos"}       \* their results are read from a file of theirs
Posts == Writers \cup {"bands"}

NodesOf == [t0_scf |-> {"scf"}, t1_vc_relax |-> {"vc_relax"},
            t2_bands |-> {"scf", "nscf", "bands"},
            t2_dos |-> {"scf", "nscf", "dos", "pdos"}]
Nodes == NodesOf[request.template]

\* Mutant: a template that gives the post-processing the scf only.
Deps_ScfOnly(n) == IF n = "scf" \/ n = "vc_relax" THEN {} ELSE {"scf"}

\* depends_on of the templates.
Deps(n) ==
  CASE n \in {"scf", "vc_relax"} -> {}
    [] n = "nscf" -> {"scf"}
    [] n \in {"bands", "dos"} -> {"scf", "nscf"}
    [] n = "pdos" -> {"nscf"}

MaxRepairs(n) == IF n \in PwNodes THEN 2 ELSE 1

Unresolved == [ecutwfc |-> 0, kpoints |-> 0, nkpoints_bands |-> 0, nbnd |-> 0]

\* The params of a node with the inputs filled in.
Resolved(n) ==
  [ecutwfc |-> IF n \in PwNodes THEN request.ecutwfc ELSE 0,
   kpoints |-> IF n \in {"scf", "vc_relax"} THEN request.kpoints ELSE 0,
   nkpoints_bands |-> IF request.template = "t2_bands" /\ n \in {"nscf", "bands"}
                        THEN request.nkpoints_bands ELSE 0,
   nbnd |-> IF n = "nscf" THEN request.nbnd ELSE 0]

Or(param, default) == IF param # 0 THEN param ELSE default
AtLeast(least, x) == IF x > least THEN x ELSE least

\* min(current + CUTOFF_BUMP_STEP, MAX_ECUT)
AtMost(most, x) == IF x < most THEN x ELSE most

\* The numbers of a program's input file, for pw.x; the inputs of bands.x,
\* dos.x and projwfc.x have none of them.
InputType == [ecutwfc: Nat, points: Nat, mesh: Nat, nbnd: Nat]
PostInput == [ecutwfc |-> 0, points |-> 0, mesh |-> 0, nbnd |-> 0]

\* get_bandpath_kpoints
PathPoints(n) == AtLeast(10, n)

\* compile_t1: the number of bands is left to pw.x.
RelaxInput(params) ==
  [ecutwfc |-> Or(params.ecutwfc, request.default), points |-> 0,
   mesh |-> Or(params.kpoints, DefaultMesh), nbnd |-> DefaultBands]

\* compile_scf
ScfInput(params) ==
  [ecutwfc |-> Or(params.ecutwfc, request.default), points |-> 0,
   mesh |-> Or(params.kpoints, DefaultMesh), nbnd |-> Or(params.nbnd, DefaultBands)]

\* compile_scf for an nscf, which samples the band path, or for a density of
\* states (kmode "uniform") the doubled mesh.
NscfInput(params) ==
  LET input == ScfInput(params) IN
  IF request.template = "t2_bands"
    THEN [input EXCEPT !.mesh = 0, !.points = PathPoints(Or(params.nkpoints_bands, 60))]
    ELSE [input EXCEPT !.mesh = IF @ > 1 THEN 2 * @ ELSE 1]

InputOf(n, params) ==
  CASE n = "vc_relax" -> RelaxInput(params)
    [] n = "scf" -> ScfInput(params)
    [] n = "nscf" -> NscfInput(params)
    [] n \in Posts -> PostInput

\* The axis _run_bands builds for the plot.
AxisOf(params) == PathPoints(Or(params.nkpoints_bands, 100))

Ids == 0..MaxPrograms            \* 0: nobody
Density == [by: Ids, late: BOOLEAN, ecutwfc: Nat]
States == [by: Ids, late: BOOLEAN, ecutwfc: Nat, points: Nat, mesh: Nat,
           density: Density]
NoDensity == [by |-> 0, late |-> FALSE, ecutwfc |-> 0]
NoStates == [by |-> 0, late |-> FALSE, ecutwfc |-> 0, points |-> 0, mesh |-> 0,
             density |-> NoDensity]
NoProduct == [by |-> 0, late |-> FALSE, states |-> NoStates]
NoOutputs == [product |-> NoProduct, axis |-> 0]

\* Ends of a program: as it should, with JOB DONE but without the markers the
\* verifier wants, with too few bands, with another error, at the walltime.
Ends == {"done", "unverified", "few_bands", "error", "timeout"}

FreshNode == [state |-> "pending", params |-> Unresolved, resolved |-> FALSE,
              repairs |-> 0, program |-> 0, outputs |-> NoOutputs]

Init ==
  /\ request \in Requests
  /\ driving = TRUE /\ calls = 1
  /\ node = [n \in Nodes |-> FreshNode]
  /\ programs = {} /\ launched = 0
  /\ save = [density |-> NoDensity, states |-> NoStates]
  /\ product = [n \in Writers |-> NoProduct]

-----------------------------------------------------------------------------
(* Execution of a node. *)

Running(n) == driving /\ node[n].state = "running"
Dispatchable(n) == /\ node[n].state \in {"pending", "ready"}
                   /\ \A d \in Deps(n) : node[d].state = "succeeded"
\* The program of a running node, if it has been launched.
Of(n) == {p \in programs : p.id = node[n].program /\ ~p.late}

\* GraphScheduler._prepare_dispatch.
Dispatch(n) ==
  /\ driving /\ Dispatchable(n)
  /\ node' = [node EXCEPT ![n].state = "running",
                          ![n].params = IF node[n].resolved THEN @ ELSE Resolved(n),
                          ![n].resolved = TRUE,
                          ![n].program = 0]
  /\ UNCHANGED <<request, driving, calls, programs, launched, save, product>>

\* _link_upstream_save: the link of every node resolves to the scf's directory.
Linked(n) == n \in {"scf", "vc_relax"} \/ save.density.by # 0

\* execute: the upstream .save is linked (it is always there), the input is
\* compiled and the program launched.
Execute(n) ==
  /\ Running(n) /\ node[n].program = 0
  /\ Linked(n)
  /\ launched < MaxPrograms
  /\ launched' = launched + 1
  /\ node' = [node EXCEPT ![n].program = launched + 1]
  /\ programs' = programs \cup {[id |-> launched + 1, node |-> n, late |-> FALSE,
                                 input |-> InputOf(n, node[n].params),
                                 wrote |-> FALSE, end |-> ""]}
  /\ UNCHANGED <<request, driving, calls, save, product>>

\* A missing pseudopotential or structure file: no ToolError of the tool's
\* own, hence not repairable.
CompileFails(n) ==
  /\ Running(n) /\ node[n].program = 0
  /\ node' = [node EXCEPT ![n].state = "failed"]
  /\ UNCHANGED <<request, driving, calls, programs, launched, save, product>>

StatesOf(p, density) ==
  [by |-> p.id, late |-> p.late, ecutwfc |-> p.input.ecutwfc,
   points |-> p.input.points, mesh |-> p.input.mesh, density |-> density]

\* A program leaves its results: pw.x in the .save directory, dos.x and
\* projwfc.x in a file.  What bands.x writes is read by nobody.
ProgramWrites(p) ==
  /\ p.end = "" /\ ~p.wrote
  /\ p.node = "nscf" => p.input.nbnd >= NeededBands
  /\ programs' = (programs \ {p}) \cup {[p EXCEPT !.wrote = TRUE]}
  /\ save' = CASE p.node = "scf" ->
                    LET density == [by |-> p.id, late |-> p.late,
                                    ecutwfc |-> p.input.ecutwfc]
                    IN [density |-> density, states |-> StatesOf(p, density)]
               [] p.node = "nscf" -> [save EXCEPT !.states = StatesOf(p, save.density)]
               [] OTHER -> save
  /\ product' = IF p.node \in Writers
                  THEN [product EXCEPT ![p.node] =
                          [by |-> p.id, late |-> p.late, states |-> save.states]]
                  ELSE product
  /\ UNCHANGED <<request, driving, calls, node, launched>>

\* A program ends while its caller waits.  A post-processing program may end
\* well without a file.
ProgramEnds(p, end) ==
  /\ p.end = "" /\ ~p.late
  /\ end \in {"done", "unverified"} /\ p.node \in PwNodes => p.wrote
  /\ end = "unverified" => p.node \in PwNodes
  /\ end = "few_bands" => p.node = "nscf" /\ p.input.nbnd < NeededBands
  /\ programs' = (programs \ {p}) \cup {[p EXCEPT !.end = end]}
  /\ UNCHANGED <<request, driving, calls, node, launched, save, product>>

\* A program that outlived its caller ends, at any point.
OrphanEnds(p) ==
  /\ p.late
  /\ programs' = programs \ {p}
  /\ UNCHANGED <<request, driving, calls, node, launched, save, product>>

-----------------------------------------------------------------------------
(* The result of a node, and repair. *)

\* Mutant: whatever failed, a higher cutoff is tried.
RepairedParams_AlwaysBump(n, how) ==
  LET params == node[n].params
      current == Or(params.ecutwfc, 45)
  IN IF current >= MaxEcut THEN params
     ELSE [params EXCEPT !.ecutwfc = AtMost(MaxEcut, current + CutoffBumpStep)]

\* QEParamRepairer.repair of a repairable category: params as they were if
\* there is nothing to change, which the handler reports as not repaired.
RepairedParams(n, how) ==
  LET params == node[n].params
      current == Or(params.ecutwfc, 45)
      path == params.nkpoints_bands
      half == AtLeast(2, params.kpoints \div 2)
  IN CASE how = "few_bands" ->
            [params EXCEPT !.nbnd = AtLeast(24, 2 * params.nbnd)]
       [] how = "timeout" /\ path > 0 ->
            IF path <= MinBandPathPoints THEN params
            ELSE [params EXCEPT !.nkpoints_bands =
                                   AtLeast(MinBandPathPoints, (path * 6) \div 10)]
       [] how = "timeout" /\ path = 0 ->
            IF params.kpoints <= 2 THEN params
            ELSE [params EXCEPT !.kpoints = half]
       [] OTHER ->
            IF current >= MaxEcut THEN params
            ELSE [params EXCEPT !.ecutwfc = AtMost(MaxEcut, current + CutoffBumpStep)]

\* Mutant: the failures of post-processing programs are repaired as well.
Category_OfTheTool(n, how) ==
  IF how \in {"error", "timeout", "few_bands"} THEN "execution" ELSE "verification"

\* The category of the ToolError for a program that ended so: _run_pw,
\* _run_tool and _run_projwfc, the missing file, the verifier.
Category(n, how) ==
  CASE n \notin PwNodes /\ how # "unverified" -> "tool_failure"
    [] n \in PwNodes /\ how # "unverified" -> "execution"
    [] n \in {"scf", "nscf"} /\ how = "unverified" -> "scf_not_converged"
    [] n \in {"vc_relax", "bands", "dos"} /\ how = "unverified" -> "verification"

RepairableCategories == {"scf_not_converged", "verification", "execution"}

Requeued(n, params) ==
  [node[n] EXCEPT !.state = "ready", !.repairs = @ + 1, !.params = params]

\* GraphScheduler._handle_failure with this handler; max_attempts is 1.
AfterFailure(n, how) ==
  LET tries == node[n].repairs < MaxRepairs(n)
      params == RepairedParams(n, how)
  IN IF tries /\ Category(n, how) \in RepairableCategories /\ params # node[n].params
       THEN Requeued(n, params)
       ELSE [node[n] EXCEPT !.state = "failed",
                            !.repairs = IF tries THEN @ + 1 ELSE @]

\* A program of another life of the process is at work on the .save directory:
\* the schema may be read half written.
Torn == \E p \in programs : p.late /\ p.node \in {"scf", "nscf"}

Succeeded(n, outputs) ==
  [node[n] EXCEPT !.state = "succeeded", !.outputs = outputs]

\* The worker of a running node returns what it makes of its program's end.
Returns(n, record) ==
  /\ node' = [node EXCEPT ![n] = record]
  /\ programs' = programs \ Of(n)
  /\ UNCHANGED <<request, driving, calls, launched, save, product>>

Fails(n, p) ==
  /\ p.end \notin {"", "done"}
  /\ Returns(n, AfterFailure(n, p.end))

\* _run_vc_relax, _run_scf, _run_nscf
PwSucceeds(n, p) ==
  /\ n \in PwNodes /\ p.end = "done"
  /\ Returns(n, Succeeded(n, NoOutputs))

\* _run_bands takes the eigenvalues from the schema in the .save directory.
BandsRead(n, p) ==
  /\ n = "bands" /\ p.end = "done"
  /\ \/ Returns(n, Succeeded(n,
            [product |-> [by |-> p.id, late |-> FALSE, states |-> save.states],
             axis |-> AxisOf(node[n].params)]))
     \/ Torn /\ Returns(n, AfterFailure(n, "unverified"))

\* _run_dos and _run_pdos take theirs from a file in the node's directory,
\* whoever wrote it.  The verifier of dos looks at the outputs of scf and nscf
\* again and at what the file parses to; that there is no file, or none that
\* parse_pdos makes something of, cannot be repaired.
FileRead(n, p) ==
  /\ n \in Writers /\ p.end = "done"
  /\ \/ product[n].by # 0 /\ Returns(n, Succeeded(n, [product |-> product[n], axis |-> 0]))
     \/ product[n].by # 0 /\ n = "dos" /\ Returns(n, AfterFailure(n, "unverified"))
     \/ /\ product[n].by = 0 \/ n = "pdos"
        /\ Returns(n, [node[n] EXCEPT !.state = "failed"])

Collect(n) ==
  /\ Running(n)
  /\ \E p \in Of(n) : Fails(n, p) \/ PwSucceeds(n, p) \/ BandsRead(n, p) \/ FileRead(n, p)

-----------------------------------------------------------------------------
(* The engine around it. *)

\* No node is running and none can be dispatched: the call returns.
Return ==
  /\ driving
  /\ \A n \in Nodes : node[n].state # "running" /\ ~Dispatchable(n)
  /\ driving' = FALSE
  /\ UNCHANGED <<request, calls, node, programs, launched, save, product>>

\* The Python process dies, the programs live on.
Crash ==
  /\ driving
  /\ driving' = FALSE
  /\ programs' = {[p EXCEPT !.late = TRUE] : p \in {q \in programs : q.end = ""}}
  /\ UNCHANGED <<request, calls, node, launched, save, product>>

\* A load knows nothing of params_resolved: the params are resolved again.
Loaded(n) == [node[n] EXCEPT !.params = Unresolved, !.resolved = FALSE]

\* resume: in-flight nodes start again with the repairs they have spent.
Resume ==
  /\ ~driving /\ calls < MaxCalls
  /\ \E n \in Nodes : node[n].state = "running" \/ Dispatchable(n)
  /\ driving' = TRUE /\ calls' = calls + 1
  /\ node' = [n \in Nodes |-> IF node[n].state = "running"
                                THEN [Loaded(n) EXCEPT !.state = "pending", !.program = 0]
                                ELSE Loaded(n)]
  /\ UNCHANGED <<request, programs, launched, save, product>>

\* retry of a run that has come to an end with failed nodes.
Retry ==
  /\ ~driving /\ calls < MaxCalls
  /\ \A n \in Nodes : node[n].state \notin {"running", "ready"}
  /\ \E n \in Nodes : node[n].state = "failed"
  /\ driving' = TRUE /\ calls' = calls + 1
  /\ node' = [n \in Nodes |-> IF node[n].state = "failed"
                                THEN [Loaded(n) EXCEPT !.state = "pending", !.repairs = 0]
                                ELSE Loaded(n)]
  /\ UNCHANGED <<request, programs, launched, save, product>>

Next ==
  \/ \E n \in Nodes : Dispatch(n) \/ Execute(n) \/ CompileFails(n) \/ Collect(n)
  \/ \E p \in programs : \/ ProgramWrites(p) \/ OrphanEnds(p)
                         \/ \E end \in Ends : ProgramEnds(p, end)
  \/ Return \/ Crash \/ Resume \/ Retry

Spec == Init /\ [][Next]_vars

-----------------------------------------------------------------------------
(* Properties. *)

ParamsType == [ecutwfc: Nat, kpoints: Nat, nkpoints_bands: Nat, nbnd: Nat]
OutputsType == [product: [by: Ids, late: BOOLEAN, states: States], axis: Nat]
ProgramType == [id: Ids, node: Nodes, late: BOOLEAN, wrote: BOOLEAN,
                input: InputType, end: Ends \cup {""}]
NodeType ==
  [state: {"pending", "ready", "running", "succeeded", "failed"},
   params: ParamsType, resolved: BOOLEAN, repairs: 0..2, program: Ids,
   outputs: OutputsType]

\* The types, and two facts behind them: no node spends more than its budget
\* of repairs in one life of the run, and no repair passes MAX_ECUT, which the
\* caller may (QEParamRepairer.repair, GraphScheduler._handle_failure).
TypeOK ==
  /\ request \in Requests
  /\ driving \in BOOLEAN /\ calls \in 0..MaxCalls /\ launched \in Ids
  /\ node \in [Nodes -> NodeType]
  /\ \A n \in Nodes : /\ node[n].repairs <= MaxRepairs(n)
                      /\ node[n].params.ecutwfc <= AtLeast(MaxEcut, request.ecutwfc)
  /\ \A p \in programs : p \in ProgramType
  /\ save \in [density: Density, states: States]
  /\ product \in [Writers -> [by: Ids, late: BOOLEAN, states: States]]

\* A reported band structure or density of states was computed from the states
\* of the nscf program whose success is recorded, on the density of the scf
\* program whose success is recorded, after any repairs, resumes and retries;
\* unless a program that survived the death of its caller wrote one of the two
\* (_link_upstream_save, _run_bands, _run_dos, _run_pdos).
LineageHasCause ==
  \A n \in Nodes \cap Posts :
    node[n].state = "succeeded" =>
      LET states == node[n].outputs.product.states IN
      /\ states.by = node["nscf"].program \/ states.late
      /\ states.density.by = node["scf"].program \/ states.density.late

\* The axis reported with a band structure has a point for each k-point of its
\* eigenvalues, unless the nscf was shortened after a timeout, the caller gave
\* no number of points (the nscf then takes 60 and the axis 100), or the
\* eigenvalues are a surviving program's (_run_nscf, _run_bands, _repair_timeout).
AxisHasCause ==
  \A n \in Nodes \cap {"bands"} :
    node[n].state = "succeeded" =>
      LET states == node[n].outputs.product.states IN
      \/ node[n].outputs.axis = states.points
      \/ states.late
      \/ request.nkpoints_bands = 0
      \/ states.points < request.nkpoints_bands

\* A repair strengthens the calculation that failed, measured on the input the
\* next program would get and not on the parameters: a higher cutoff, or after
\* too few bands more of them; after a timeout fewer k-points at the same
\* cutoff (the docstring of QEParamRepairer: "safe, monotone parameter
\* adjustments (higher cutoff) for convergence-class failures").  That is not so
\* of the first bump of a node without a cutoff of its own, if the default of
\* the material is not below 55 Ry: the repairer starts from 45 Ry, whatever
\* the compiler took, and the next input has 55 Ry.
RepairsStrengthen ==
  [][\A n \in Nodes \cap PwNodes :
       node[n].state = "running" /\ node'[n].state = "ready" =>
         \E p \in Of(n) :
           LET next == InputOf(n, node'[n].params) IN
           CASE p.end = "timeout" ->
                  /\ next.ecutwfc = p.input.ecutwfc
                  /\ next.points < p.input.points \/ next.mesh < p.input.mesh
             [] p.end = "few_bands" ->
                  next = [p.input EXCEPT !.nbnd = next.nbnd] /\ next.nbnd > p.input.nbnd
             [] OTHER ->
                  \/ next.ecutwfc > p.input.ecutwfc
                  \/ /\ node[n].params.ecutwfc = 0
                     /\ p.input.ecutwfc = request.default
                     /\ next.ecutwfc = 45 + CutoffBumpStep]_vars
=============================================================================
