----------------------------- MODULE AgentLoop ------------------------------
(***************************************************************************)
(* A turn of the chat agent: a planner turns the message into steps        *)
(* (agent_loop/llm_planner.py, rule_planner.py), and run_session           *)
(* (executor.py) fills in what each step needs from the steps before it    *)
(* and from the turns before it (step_prep.py), calls the tool             *)
(* (tools/registry.py) and keeps what it gave (result_views.py).           *)
(*                                                                         *)
(* All sessions share one LLMPlanner and one process; between two awaits a *)
(* turn runs alone, and a turn's variables are its own.  A plan says what  *)
(* system each of its steps is about (`means'), which the code cannot see; *)
(* the properties compare it with what the step got.                       *)
(***************************************************************************)
EXTENDS CommandCapture, Sequences, FiniteSetsExt

CONSTANTS
    Systems,        \* what can be built, computed and compared
    Placeholder,    \* the energy 0.0 of an nscf node, which has none
    PlansOf,        \* the plans a planner may make for each message of a session
    LedgerSize      \* result_views.py keeps so many records: 20

Sessions == Callers

CommandTools == {"structure.build", "structure.import", "thermo.eads", "thermo.formation"}
Tools == CommandTools \cup {"graph.run", "analysis.compare", "help"}
Templates == {"t0_scf", "t2_bands"}

\* How many systems a step is about; formation and comparison leave it open.
Sized(step) ==
    /\ step.tool \in {"structure.build", "structure.import", "graph.run"} => Len(step.means) = 1
    /\ step.tool = "thermo.eads" => Len(step.means) = 3

\* names: the step gives the material; otherwise it runs what was built.
AnyStep == [tool : Tools, means : Seq(Systems), names : BOOLEAN, template : Templates]
StepRecords == {step \in AnyStep : Sized(step)}

ASSUME AgentAssumption ==
    /\ LedgerSize \in Nat \ {0}
    /\ Nothing \notin Systems /\ Placeholder \notin Systems
    /\ \A s \in Sessions : PlansOf[s] \in Seq(SUBSET Seq(StepRecords))

VARIABLES
    last_plan_ir,   \* of the one planner: whose plan it is
    ctx,            \* the sessions' contexts
    turn            \* the turn a session is in

vars == <<captureVars, last_plan_ir, ctx, turn>>

NoPlan == [session |-> Nothing, turn |-> 0]
Own(s) == [session |-> s, turn |-> turn[s].number]

Energies == Systems \cup {Placeholder}

Contexts == [source : Systems \cup {Nothing}, ledger : Seq(Systems),
             last_plan : [session : Sessions \cup {Nothing}, turn : Nat]]

Phases == {"idle", "asking", "answered", "ready", "running", "redirected", "printed"}

\* What the user, or a later step, is given as the result of a step.
Results == [tool : Tools, means : Seq(Systems), used : Seq(Energies)]

Turns == [phase : Phases, number : Nat, attempt : {1, 2}, llm : BOOLEAN,
          steps : Seq(StepRecords), at : Nat, ctx : Contexts,
          built_structure : Systems \cup {Nothing}, scf_energies : Seq(Energies),
          args : Seq(Energies), shared : BOOLEAN, overtaken : BOOLEAN, slipped : BOOLEAN,
          result : Results \cup {Nothing}]

NoContext == [source |-> Nothing, ledger |-> << >>, last_plan |-> NoPlan]
NoTurn == [phase |-> "idle", number |-> 0, attempt |-> 1, llm |-> FALSE, steps |-> << >>,
           at |-> 1, ctx |-> NoContext, built_structure |-> Nothing, scf_energies |-> << >>,
           args |-> << >>, shared |-> FALSE, overtaken |-> FALSE, slipped |-> FALSE,
           result |-> Nothing]

TypeOK ==
    /\ CaptureTypeOK
    /\ last_plan_ir \in [session : Sessions \cup {Nothing}, turn : Nat]
    /\ ctx \in [Sessions -> Contexts]
    /\ turn \in [Sessions -> Turns]

Init ==
    /\ CaptureInit
    /\ last_plan_ir = NoPlan
    /\ ctx = [s \in Sessions |-> NoContext]
    /\ turn = [s \in Sessions |-> NoTurn]

Become(s, t) == turn' = [turn EXCEPT ![s] = t]
Over(s) == [NoTurn EXCEPT !.number = turn[s].number]

-----------------------------------------------------------------------------
(* Planning *)

\* A message arrives; the context is copied.  With a provider, plan() clears
\* last_plan_ir, in its thread; without one it answers (None, None).
Start(s) ==
    /\ turn[s].phase = "idle" /\ turn[s].number < Len(PlansOf[s])
    /\ LET fresh == [NoTurn EXCEPT !.number = turn[s].number + 1, !.ctx = ctx[s],
                                    !.shared = ctx[s].ledger # << >>]
       IN  \/ Become(s, [fresh EXCEPT !.phase = "asking"]) /\ last_plan_ir' = NoPlan
           \/ Become(s, [fresh EXCEPT !.phase = "answered"]) /\ UNCHANGED last_plan_ir
    /\ UNCHANGED <<captureVars, ctx>>

\* An answer that is no JSON object, has unknown capabilities, or arguments
\* against a schema: the model is asked once more, and then the rules plan.
\* (On the second attempt arguments against a schema pass: Accept.)
Reject(s) ==
    /\ turn[s].phase = "asking"
    /\ Become(s, IF turn[s].attempt = 1 THEN [turn[s] EXCEPT !.attempt = 2]
                                        ELSE [turn[s] EXCEPT !.attempt = 1, !.phase = "answered"])
    /\ UNCHANGED <<captureVars, last_plan_ir, ctx>>

\* The planner's thread ends with a plan, which is also left in last_plan_ir.
Accept(s) ==
    /\ turn[s].phase = "asking"
    /\ last_plan_ir' = Own(s)
    /\ \E plan \in PlansOf[s][turn[s].number] :
          turn' = [r \in Sessions |->
            IF r = s
            THEN [turn[s] EXCEPT !.phase = "answered", !.attempt = 1,
                                 !.llm = TRUE, !.steps = plan]
            ELSE [turn[r] EXCEPT !.overtaken = @ \/ turn[r].phase = "answered"]]
    /\ UNCHANGED <<captureVars, ctx>>

\* A plan without steps: the reply is returned, and no context with it.
ReplyDirectly(s) ==
    /\ turn[s].phase = "asking"
    /\ last_plan_ir' = Own(s)
    /\ turn' = [r \in Sessions |->
         IF r = s THEN Over(s)
         ELSE [turn[r] EXCEPT !.overtaken = @ \/ turn[r].phase = "answered"]]
    /\ UNCHANGED <<captureVars, ctx>>

\* Mutant: the plan of the planner is taken whoever made the steps.
PlanIR_Any(s, llm) == IF last_plan_ir # NoPlan THEN last_plan_ir ELSE Own(s)

\* The plan that goes into the context: last_plan_ir, read after the await,
\* unless the rules made the steps.
PlanIR(s, llm) == IF llm /\ last_plan_ir # NoPlan THEN last_plan_ir ELSE Own(s)

\* run_session resumes after the await; the rules plan now, if they must.
Begin(s) ==
    /\ turn[s].phase = "answered"
    /\ \E plan \in (IF turn[s].llm THEN {turn[s].steps} ELSE PlansOf[s][turn[s].number]) :
          Become(s, [turn[s] EXCEPT !.phase = "ready", !.llm = FALSE, !.steps = plan,
                                    !.ctx.last_plan = PlanIR(s, turn[s].llm)])
    /\ UNCHANGED <<captureVars, last_plan_ir, ctx>>

-----------------------------------------------------------------------------
(* Preparing a step *)

Ready(s) == turn[s].phase = "ready" /\ turn[s].at <= Len(turn[s].steps)
Step(s) == turn[s].steps[turn[s].at]

\* The turn after its current step.  Whether something has gone wrong in it,
\* `slipped', is history for the properties: nothing in the code looks at it.
After(t, slip) == [t EXCEPT !.phase = "ready", !.at = @ + 1, !.args = << >>,
                             !.slipped = @ \/ slip, !.result = Nothing]

\* ... and which gave a result, about the systems `used'.
Giving(t, slip, used) ==
    [After(t, slip) EXCEPT
        !.result = [tool |-> t.steps[t.at].tool, means |-> t.steps[t.at].means, used |-> used]]

\* What graph.run is chained to: the structure built in this plan, or else
\* the last one of the session.
EffectiveStructure(t) ==
    IF t.built_structure # Nothing THEN t.built_structure ELSE t.ctx.source

\* graph.run: a structure there is overrides a material the step names.
Launch(s) ==
    /\ Ready(s) /\ Step(s).tool = "graph.run"
    /\ LET t == turn[s]
           found == EffectiveStructure(t)
       IN  /\ found # Nothing \/ Step(s).names
           /\ Become(s, [t EXCEPT
                !.phase = "running", !.result = Nothing,
                !.args = IF found # Nothing THEN <<found>> ELSE Step(s).means,
                !.slipped = @ \/ (found # Nothing /\ Step(s).names)])
    /\ UNCHANGED <<captureVars, last_plan_ir, ctx>>

\* ... and without either the step is given up.
Abort(s) ==
    /\ Ready(s) /\ Step(s).tool = "graph.run"
    /\ EffectiveStructure(turn[s]) = Nothing /\ ~Step(s).names
    /\ Become(s, After(turn[s], TRUE))
    /\ UNCHANGED <<captureVars, last_plan_ir, ctx>>

\* help, a step without a tool, a dopant that is the host element.
Notice(s) ==
    /\ Ready(s) /\ Step(s).tool = "help"
    /\ Become(s, After(turn[s], FALSE))
    /\ UNCHANGED <<captureVars, last_plan_ir, ctx>>

\* thermo.eads is given the last three energies, ...
EadsArgs(t) == SubSeq(t.scf_energies, Len(t.scf_energies) - 2, Len(t.scf_energies))

\* ... thermo.formation the first of them: the compound and each element.
FormationArgs(t, n) == SubSeq(t.scf_energies, 1, n)

\* Whether the energies a step needs are there, as many as it is about.
Fed(s) == Step(s).tool \in {"thermo.eads", "thermo.formation"}
            => Len(turn[s].scf_energies) >= Len(Step(s).means)

Arguments(s) == CASE Step(s).tool = "thermo.eads" -> EadsArgs(turn[s])
                  [] Step(s).tool = "thermo.formation"
                       -> FormationArgs(turn[s], Len(Step(s).means))
                  [] OTHER -> Step(s).means

\* A tool that calls a command enters _call_cmd.
CallCommand(s) ==
    /\ Ready(s) /\ Step(s).tool \in CommandTools /\ Fed(s)
    /\ Redirect(s)
    /\ Become(s, [turn[s] EXCEPT !.phase = "redirected", !.args = Arguments(s),
                              !.result = Nothing])
    /\ UNCHANGED <<last_plan_ir, ctx>>

\* Without its energies a thermo tool returns an error and calls nothing.
Underfed(s) ==
    /\ Ready(s) /\ ~Fed(s)
    /\ Become(s, After(turn[s], FALSE))
    /\ UNCHANGED <<captureVars, last_plan_ir, ctx>>

-----------------------------------------------------------------------------
(* Results *)

\* The records of a ledger that are kept.
LastOf(ledger) ==
    SubSeq(ledger, 1 + Max({0, Len(ledger) - LedgerSize}), Len(ledger))

\* The energies of the nodes that succeeded, those of nscf nodes included.
NodeEnergies(t, outcome) ==
    CASE outcome \in {"error", "failed"} -> << >>
      [] t.steps[t.at].template = "t2_bands" -> <<t.args[1], Placeholder>>
      [] OTHER -> <<t.args[1]>>

\* The ledger after a run: its last records, with a run that succeeded.
Recorded(t, outcome) ==
    IF outcome = "succeeded" THEN LastOf(Append(t.ctx.ledger, t.args[1])) ELSE t.ctx.ledger

\* The context was copied, its ledger was not: the first record of a turn is
\* appended to the list that the session holds, too.
Aliased(s, outcome) ==
    IF outcome = "succeeded" /\ turn[s].shared
    THEN [ctx EXCEPT ![s].ledger = Append(@, turn[s].args[1])]
    ELSE ctx

\* graph.run returns: an error, a run that failed before or after its first
\* energy, or a run that succeeded.  Only the first is a failed step.
Outcomes(template) == {"error", "failed", "succeeded"}
    \cup (IF template = "t2_bands" THEN {"failed later"} ELSE {})

Finish(s) ==
    LET t == turn[s]
    IN  /\ t.phase = "running"
        /\ \E outcome \in Outcomes(Step(s).template) :
             LET placeholder == Step(s).template = "t2_bands"
                 after == IF outcome = "succeeded" THEN Giving(t, placeholder, t.args)
                                                   ELSE After(t, TRUE)
             IN  /\ Become(s, [after EXCEPT !.scf_energies = @ \o NodeEnergies(t, outcome),
                                            !.ctx.ledger = Recorded(t, outcome),
                                            !.shared = @ /\ outcome # "succeeded"])
                 /\ ctx' = Aliased(s, outcome)
    /\ UNCHANGED <<captureVars, last_plan_ir>>

\* analysis.compare is given the last records, as many as it asks for.  It
\* refuses them when they lack the quantity to compare.
Compare(s) ==
    LET t == turn[s]
        n == Len(Step(s).means)
        last == SubSeq(t.ctx.ledger, Len(t.ctx.ledger) - n + 1, Len(t.ctx.ledger))
    IN  /\ Ready(s) /\ Step(s).tool = "analysis.compare"
        /\ \/ Become(s, After(t, FALSE))
           \/ /\ Len(t.ctx.ledger) >= n
              /\ Become(s, Giving(t, FALSE, last))
    /\ UNCHANGED <<captureVars, last_plan_ir, ctx>>

-----------------------------------------------------------------------------
(* Commands *)

Payload(s, ok) == [by |-> s, ok |-> ok, tool |-> Step(s).tool, of |-> turn[s].args,
                   call |-> <<turn[s].number, turn[s].at>>]

\* A result on stdout, or in the file that structure.import writes; an error
\* on stderr.
RunCommand(s) ==
    /\ turn[s].phase = "redirected"
    /\ \/ /\ IF Step(s).tool = "structure.import" THEN Write(s, Payload(s, TRUE))
                                                  ELSE Say(s, Payload(s, TRUE))
       \/ Say(s, Payload(s, FALSE))
    /\ Become(s, [turn[s] EXCEPT !.phase = "printed"])
    /\ UNCHANGED <<last_plan_ir, ctx>>

\* Mutant: structure.molecule does not become the built structure.
Chained_Forgetful(t, tool, p) ==
    IF tool = "structure.build" /\ t.built_structure = Nothing
    THEN [t EXCEPT !.built_structure = p.of[1], !.ctx.source = p.of[1]]
    ELSE IF tool = "structure.import" THEN [t EXCEPT !.ctx.source = p.of[1]]
    ELSE t

\* A built structure is chained to the steps that follow, an imported one to
\* the session only.
Chained(t, tool, p) ==
    IF tool = "structure.build" THEN [t EXCEPT !.built_structure = p.of[1], !.ctx.source = p.of[1]]
    ELSE IF tool = "structure.import" THEN [t EXCEPT !.ctx.source = p.of[1]]
    ELSE t

\* The call returns and its answer, whosever it is, is taken for the step's:
\* an error fails it; a result of its kind is kept; anything else passes for
\* done and changes nothing.
ReturnCommand(s) ==
    LET t == turn[s]
        tool == Step(s).tool
    IN  /\ t.phase = "printed"
        /\ Restore(s)
        /\ \E p \in Answers(s, tool = "structure.import") :
             LET exact == p # Nothing /\ p.by = s /\ p.call = <<t.number, t.at>>
                 kept == p # Nothing /\ p.ok /\ p.tool = tool
             IN  Become(s, IF kept THEN Giving(Chained(t, tool, p), ~exact, p.of)
                                   ELSE After(t, TRUE))
    /\ UNCHANGED <<last_plan_ir, ctx>>

-----------------------------------------------------------------------------
(* The end of a turn *)

\* prepare_step_args stands outside the try: arguments of a shape it does not
\* expect end the turn, and everything it did is gone but the calculations.
\* So do some plans of a model, in from_payload and compile_plan.
Break(s) ==
    /\ turn[s].phase = "asking" \/ Ready(s)
    /\ Become(s, Over(s))
    /\ UNCHANGED <<captureVars, last_plan_ir, ctx>>

\* The copy of the context is returned and the web handler takes it over.
End(s) ==
    /\ turn[s].phase = "ready" /\ turn[s].at > Len(turn[s].steps)
    /\ ctx' = [ctx EXCEPT ![s] = turn[s].ctx]
    /\ Become(s, Over(s))
    /\ UNCHANGED <<captureVars, last_plan_ir>>

Plan(s) == Start(s) \/ Reject(s) \/ Accept(s) \/ ReplyDirectly(s) \/ Begin(s)
Prepare(s) == Launch(s) \/ Abort(s) \/ Notice(s) \/ CallCommand(s) \/ Underfed(s)
Handle(s) == Finish(s) \/ Compare(s) \/ RunCommand(s) \/ ReturnCommand(s)

Next == \E s \in Sessions : Plan(s) \/ Prepare(s) \/ Handle(s) \/ Break(s) \/ End(s)

Spec == Init /\ [][Next]_vars

-----------------------------------------------------------------------------
(* What the planners' workflows have in common, and the chaining relies on. *)

\* The runs of a plan before its step k, and the last build or import.
RunsBefore(plan, k) == {j \in 1 .. k - 1 : plan[j].tool = "graph.run"}
Nth(plan, k) == Cardinality(RunsBefore(plan, k))
Without(tool, plan, j, k) == \A i \in j + 1 .. k - 1 : plan[i].tool # tool
Latest(tool, plan, j, k) == j \in 1 .. k - 1 /\ plan[j].tool = tool /\ Without(tool, plan, j, k)

\* A run that names no material follows the build of what it means, or its
\* import if nothing is built; a comparison and an adsorption energy are about
\* the last runs, a formation energy about the first.
Linked(plan, k) ==
    LET step == plan[k]
        About(i, nth) == \E j \in RunsBefore(plan, k) :
                            Nth(plan, j) = nth /\ plan[j].means = <<step.means[i]>>
    IN  /\ step.tool = "graph.run" /\ ~step.names =>
             \E j \in 1 .. k - 1 :
                 /\ plan[j].means = step.means
                 /\ \/ Latest("structure.build", plan, j, k)
                    \/ /\ Without("structure.build", plan, 0, k)
                       /\ Latest("structure.import", plan, j, k)
        /\ step.tool = "thermo.formation" => \A i \in 1 .. Len(step.means) : About(i, i - 1)
        /\ step.tool \in {"thermo.eads", "analysis.compare"} =>
             \A i \in 1 .. Len(step.means) : About(i, Nth(plan, k) - Len(step.means) + i - 1)
        /\ step.tool = "analysis.compare" => Len(step.means) <= LedgerSize

PlansLinked ==
    \A s \in Sessions : \A n \in 1 .. Len(PlansOf[s]) :
        \A plan \in PlansOf[s][n] : \A k \in 1 .. Len(plan) : Linked(plan, k)

\* What the commands of the agent can print.
PayloadRecords == [by : Sessions, ok : BOOLEAN, tool : CommandTools, of : Seq(Energies),
                   call : Nat \X Nat]

-----------------------------------------------------------------------------
(* Properties *)

\* A result is about the systems the plan meant, in their order, unless
\* something in the turn went wrong before it: a build that failed or whose
\* answer was not its own, a run that did not succeed, a structure that took
\* the place of a named material, or the energy of an nscf node.  (The
\* chaining in step_prep.py, which the planner's workflows rely on.)
WrongResultHasCause ==
    \A s \in Sessions :
        LET given == turn[s].result IN
        given # Nothing /\ given.used # given.means => turn[s].slipped

\* The plan kept in a session's context is that of its turn, unless another
\* session's planner ended between this one's end and its reading.
\* (executor.py reads llm_planner.last_plan_ir after the await.)
ForeignPlanHasCause ==
    \A s \in Sessions :
        turn[s].phase \notin {"idle", "asking", "answered"} /\ ~turn[s].overtaken
            => turn[s].ctx.last_plan = Own(s)

\* What step_prep.py says of a graph.run: "a structure built earlier in this
\* plan is authoritative --- it overrides any material name the planner
\* guessed".  So where this plan has built nothing, the material is computed.
MaterialIsComputed ==
    \A s \in Sessions :
        LET t == turn[s] IN
        t.phase = "running" /\ Step(s).names /\ t.built_structure = Nothing
            => t.args = Step(s).means
=============================================================================
