---------------------------- MODULE MCAgentLoop -----------------------------
(***************************************************************************)
(* One session with the planners' workflows, and one that builds and       *)
(* imports meanwhile.                                                      *)
(***************************************************************************)
EXTENDS AgentLoop, TLC

CONSTANTS s1, s2

MCSystems == {"adsorbed", "surface", "molecule", "compound", "element", "upload"}

OneStep(tool, system) ==
    [tool |-> tool, means |-> <<system>>, names |-> FALSE, template |-> "t0_scf"]
Build(system) == OneStep("structure.build", system)
Import(system) == OneStep("structure.import", system)
RunIt(system) == OneStep("graph.run", system)
RunNamed(system, template) ==
    [tool |-> "graph.run", means |-> <<system>>, names |-> TRUE, template |-> template]
Final(tool, systems) ==
    [tool |-> tool, means |-> systems, names |-> FALSE, template |-> "t0_scf"]

AdsorptionPlan ==
    << Build("adsorbed"), RunIt("adsorbed"), Build("surface"), RunIt("surface"),
       Build("molecule"), RunIt("molecule"),
       Final("thermo.eads", <<"adsorbed", "surface", "molecule">>) >>

FormationPlan(template) ==
    << RunNamed("compound", template), Build("element"), RunIt("element"),
       Final("thermo.formation", <<"compound", "element">>) >>

ComparePlan ==
    << RunNamed("compound", "t0_scf"), Build("surface"), RunIt("surface"),
       Final("analysis.compare", <<"compound", "surface">>) >>

ImportPlan == <<Import("upload"), RunIt("upload")>>

\* Each of the two messages of s1 asks for one of the workflows; s2 has one.
MCPlansOf ==
    s1 :> << {ImportPlan, <<RunNamed("compound", "t0_scf")>>},
             {AdsorptionPlan, FormationPlan("t0_scf"), FormationPlan("t2_bands"),
              ComparePlan, ImportPlan} >>
    @@ s2 :> << {<<Build("molecule"), OneStep("help", "molecule")>>} >>

\* What WrongResultHasCause rests on holds for these plans.
ASSUME MCPlansLinked == PlansLinked

MCPayloads == PayloadRecords
=============================================================================
