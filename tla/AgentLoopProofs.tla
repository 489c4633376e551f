--------------------------- MODULE AgentLoopProofs ---------------------------
(***************************************************************************)
(* For every set of sessions and plans: a command that runs alone is heard *)
(* exactly, a context keeps the plan of its own turn unless another        *)
(* planner came in between, and a result is about other systems than the   *)
(* plan meant only after something went wrong.                             *)
(***************************************************************************)
EXTENDS AgentLoop, FiniteSetTheorems, SequenceTheorems, TLAPS

----------------------------------------------------------------------------
(* The capture *)

\* The variables of _call_cmd keep their types, and a call that nobody has
\* overlapped is heard exactly: the conjunction is inductive.
CaptureInv == CaptureTypeOK /\ SoloCallIsExact

LEMMA CaptureInitially == CaptureInit => CaptureInv
  BY CaptureAssumption DEF CaptureInit, CaptureInv, CaptureTypeOK, SoloCallIsExact, Streams

\* Every step of the capture keeps CaptureInv.
LEMMA CaptureSteps == CaptureInv /\ [CaptureNext]_captureVars => CaptureInv'
<1> SUFFICES ASSUME CaptureInv, [CaptureNext]_captureVars
             PROVE  CaptureInv'
  OBVIOUS
<1> USE CaptureAssumption DEF CaptureInv, CaptureTypeOK, SoloCallIsExact, Streams
<1>1. ASSUME NEW c \in Callers, Redirect(c)
      PROVE  CaptureInv'
  <2>1. CaptureTypeOK'
    BY <1>1 DEF Redirect
  <2>2. CASE inside = {}
    BY <1>1, <2>2 DEF Redirect
  <2>3. CASE inside # {}
    BY <1>1, <2>3 DEF Redirect
  <2> QED BY <2>1, <2>2, <2>3
<1>2. ASSUME NEW c \in Callers, NEW p \in Payloads, p.by = c, Say(c, p)
      PROVE  CaptureInv'
  <2>1. CaptureTypeOK'
    BY <1>2 DEF Say
  <2>2. ASSUME NEW d \in inside \ mixed
        PROVE  inside = {d} /\ target = d /\ \A q \in heard'[d] : q.by = d
    <3>1. inside = {d} /\ target = d /\ c = d
      BY <1>2, <2>2 DEF Say
    <3>2. heard'[d] = heard[d] \cup {p}
      BY <1>2, <3>1 DEF Say
    <3> QED BY <1>2, <2>2, <3>1, <3>2
  <2> QED BY <1>2, <2>1, <2>2 DEF Say
<1>3. ASSUME NEW c \in Callers, NEW p \in Payloads, Write(c, p)
      PROVE  CaptureInv'
  BY <1>3 DEF Write
<1>4. ASSUME NEW c \in Callers, Restore(c)
      PROVE  CaptureInv'
  <2>1. CaptureTypeOK'
    BY <1>4 DEF Restore
  <2>2. \A d \in inside \ {c} : d \in mixed
    BY <1>4 DEF Restore
  <2>3. inside' \ mixed' = {}
    BY <1>4, <2>2 DEF Restore
  <2> QED BY <2>1, <2>3
<1>5. CASE UNCHANGED captureVars
  BY <1>5 DEF captureVars
<1> QED BY <1>1, <1>2, <1>3, <1>4, <1>5 DEF CaptureNext

\* A command that no other overlaps hears itself and nobody else, for any
\* callers and payloads and whatever came before.  (_call_cmd)
THEOREM SoloCalls == CaptureSpec => [](CaptureTypeOK /\ SoloCallIsExact)
  BY CaptureInitially, CaptureSteps, PTL DEF CaptureSpec, CaptureInv

----------------------------------------------------------------------------
(* The invariants *)

Working == {"ready", "running", "redirected", "printed"}
StepOf(t) == t.steps[t.at]
Builds == {"structure.build", "structure.import"}

\* A turn that works is at a step of a plan for its message.
TurnGood(s, t) ==
    /\ t \in Turns
    /\ t.phase # "idle" => t.number \in 1 .. Len(PlansOf[s])
    /\ t.phase \in {"asking", "answered"} =>
         /\ t.at = 1 /\ t.built_structure = Nothing /\ t.scf_energies = << >>
         /\ t.llm => t.phase = "answered" /\ t.steps \in PlansOf[s][t.number]
    /\ t.phase \in Working =>
         t.steps \in PlansOf[s][t.number] /\ t.at \in 1 .. Len(t.steps) + 1
    /\ t.phase \in Working \ {"ready"} => t.at <= Len(t.steps)
    /\ t.phase = "running" =>
         StepOf(t).tool = "graph.run" /\ t.args \in Seq(Systems) /\ Len(t.args) = 1
    /\ t.phase \in {"redirected", "printed"} =>
         StepOf(t).tool \in CommandTools /\ (StepOf(t).tool \in Builds => t.args = StepOf(t).means)

PayloadGood(p) ==
    /\ p \in PayloadRecords
    /\ p.tool \in Builds => p.of \in Seq(Systems) /\ Len(p.of) = 1

\* A payload is of an earlier step than its caller is at, or the caller has
\* just printed it.
Past(p, t) ==
    \/ p.call[1] < t.number
    \/ p.call[1] = t.number /\ t.phase = "idle"
    \/ p.call[1] = t.number /\ t.phase \in Working /\ p.call[2] < t.at
    \/ /\ p.call = <<t.number, t.at>> /\ t.phase = "printed"
       /\ p.of = t.args /\ p.tool = StepOf(t).tool

InReach(c) == heard[c] \cup ({written[c]} \ {Nothing})

AgentInv ==
    /\ CaptureInv
    /\ last_plan_ir \in [session : Sessions \cup {Nothing}, turn : Nat]
    /\ ctx \in [Sessions -> Contexts]
    /\ turn \in [Sessions -> Turns]
    /\ \A s \in Sessions : TurnGood(s, turn[s])
    /\ \A c \in Sessions : \A p \in InReach(c) : PayloadGood(p) /\ Past(p, turn[p.by])

\* Why the planner's plan is the session's own when nobody came in between:
\* Start clears it, and whoever replaces it marks those who have yet to read.
PlanInv ==
    \A s \in Sessions :
        LET t == turn[s] IN
        /\ t.phase = "answered" /\ t.llm /\ ~t.overtaken => last_plan_ir \in {Own(s), NoPlan}
        /\ t.phase \in Working /\ ~t.overtaken => t.ctx.last_plan = Own(s)

\* What the chaining has in hand before step k of a plan in which nothing went
\* wrong: the last structure, the energies of the plan's runs, their records.
InHand(plan, k, built, source, energies, ledger) ==
    LET runs == Nth(plan, k) IN
    /\ Without("structure.build", plan, 0, k) =>
         /\ built = Nothing
         /\ \A j \in 1 .. Len(plan) :
              Latest("structure.import", plan, j, k) => source = plan[j].means[1]
    /\ \A j \in 1 .. Len(plan) :
         Latest("structure.build", plan, j, k) => built = plan[j].means[1]
    /\ Len(energies) = runs
    /\ \A j \in RunsBefore(plan, k) :
         LET back == runs - Nth(plan, j) IN
         /\ energies[Nth(plan, j) + 1] = plan[j].means[1]
         /\ back <= LedgerSize =>
              /\ Len(ledger) >= back
              /\ ledger[Len(ledger) - back + 1] = plan[j].means[1]

\* A turn in which nothing went wrong has them, a step under way has what it
\* is about, and a result is about it.
OnTrack(t) ==
    ~t.slipped =>
        /\ t.phase \in Working =>
             InHand(t.steps, t.at, t.built_structure, t.ctx.source, t.scf_energies, t.ctx.ledger)
        /\ t.phase \in Working \ {"ready"} => t.args = StepOf(t).means
        /\ t.result # Nothing => t.result.used = t.result.means

LinkInv == \A s \in Sessions : OnTrack(turn[s])

----------------------------------------------------------------------------
(* Plans and turns *)

\* The steps of a plan have their types and sizes.
LEMMA PlansTyped ==
  ASSUME NEW s \in Sessions, NEW n \in 1 .. Len(PlansOf[s]), NEW plan \in PlansOf[s][n]
  PROVE  /\ plan \in Seq(StepRecords) /\ Len(plan) \in Nat
         /\ \A k \in 1 .. Len(plan) :
              /\ plan[k] \in StepRecords /\ Sized(plan[k])
              /\ plan[k] \in AnyStep
<1>1. plan \in Seq(StepRecords)
  BY AgentAssumption
<1>2. QED
  BY <1>1 DEF StepRecords

\* The step that a turn is at.
LEMMA CurrentStep ==
  ASSUME NEW s \in Sessions, NEW t, TurnGood(s, t), t.phase \in Working
  PROVE  /\ t \in Turns /\ t.number \in 1 .. Len(PlansOf[s]) /\ t.number \in Nat
         /\ t.steps \in PlansOf[s][t.number] /\ t.steps \in Seq(StepRecords)
         /\ Len(t.steps) \in Nat /\ t.at \in Nat /\ t.at >= 1 /\ t.at <= Len(t.steps) + 1
         /\ t.at <= Len(t.steps) =>
              LET step == StepOf(t) IN
              /\ step \in AnyStep
              /\ Sized(step)
<1>1. /\ t \in Turns /\ t.number \in 1 .. Len(PlansOf[s])
      /\ t.steps \in PlansOf[s][t.number] /\ t.at \in 1 .. Len(t.steps) + 1
  BY DEF TurnGood, Working
<1>2. t.number \in Nat /\ t.at \in Nat
  BY <1>1 DEF Turns
<1>3. t.steps \in Seq(StepRecords) /\ Len(t.steps) \in Nat
      /\ \A k \in 1 .. Len(t.steps) :
           /\ Sized(t.steps[k])
           /\ t.steps[k] \in AnyStep
  BY <1>1, PlansTyped
<1>4. QED
  BY <1>1, <1>2, <1>3 DEF StepOf

\* A turn goes on, in a later step or in the same, or to another turn.
Advances(t, u) ==
    \/ u.number > t.number
    \/ /\ u.number = t.number
       /\ \/ u.phase = "idle"
          \/ t.phase \in {"asking", "answered"}
          \/ t.phase \in Working /\ u.phase \in Working /\ u.at > t.at
          \/ t.phase \in Working \ {"printed"} /\ u.phase \in Working /\ u.at = t.at

LEMMA PastAdvances ==
  ASSUME NEW t \in Turns, NEW u \in Turns, Advances(t, u),
         NEW p, PayloadGood(p), Past(p, t)
  PROVE  Past(p, u)
<1>1. /\ t.number \in Nat /\ u.number \in Nat /\ t.at \in Nat /\ u.at \in Nat
      /\ p.call[1] \in Nat /\ p.call[2] \in Nat
  BY DEF Turns, PayloadGood, PayloadRecords
<1>2. p.call = <<t.number, t.at>> => p.call[1] = t.number /\ p.call[2] = t.at
  OBVIOUS
<1>3. QED
  BY <1>1, <1>2 DEF Past, Advances, Working

\* One turn changes, and the others stay.
LEMMA OneTurn ==
  ASSUME AgentInv, NEW s \in Sessions, NEW t, TurnGood(s, t), Advances(turn[s], t),
         turn' = [turn EXCEPT ![s] = t]
  PROVE  /\ turn' \in [Sessions -> Turns] /\ turn'[s] = t
         /\ \A r \in Sessions : TurnGood(r, turn'[r])
         /\ \A p : PayloadGood(p) /\ Past(p, turn[p.by]) => Past(p, turn'[p.by])
<1>1. turn \in [Sessions -> Turns] /\ t \in Turns
  BY DEF AgentInv, TurnGood
<1>2. turn' \in [Sessions -> Turns] /\ turn'[s] = t
      /\ \A r \in Sessions : r # s => turn'[r] = turn[r]
  BY <1>1
<1>3. \A r \in Sessions : TurnGood(r, turn'[r])
  BY <1>2 DEF AgentInv
<1>4. ASSUME NEW p, PayloadGood(p), Past(p, turn[p.by]) PROVE Past(p, turn'[p.by])
  <2>1. p.by \in Sessions
    BY <1>4 DEF PayloadGood, PayloadRecords
  <2>2. CASE p.by = s
    BY <1>1, <1>2, <1>4, <2>2, PastAdvances
  <2>3. CASE p.by # s
    BY <1>2, <1>4, <2>1, <2>3
  <2>4. QED
    BY <2>2, <2>3
<1>5. QED
  BY <1>2, <1>3, <1>4

\* ... without a word to the streams.
LEMMA QuietStep ==
  ASSUME AgentInv, NEW s \in Sessions, NEW t, TurnGood(s, t), Advances(turn[s], t),
         turn' = [turn EXCEPT ![s] = t], UNCHANGED captureVars,
         last_plan_ir' \in [session : Sessions \cup {Nothing}, turn : Nat],
         ctx' \in [Sessions -> Contexts]
  PROVE  AgentInv'
<1>1. CaptureInv'
  BY CaptureSteps DEF AgentInv
<1>2. /\ turn' \in [Sessions -> Turns]
      /\ \A r \in Sessions : TurnGood(r, turn'[r])
      /\ \A p : PayloadGood(p) /\ Past(p, turn[p.by]) => Past(p, turn'[p.by])
  BY OneTurn
<1>3. \A c \in Sessions : \A p \in InReach(c)' : PayloadGood(p) /\ Past(p, turn'[p.by])
  <2>1. \A c : InReach(c)' = InReach(c)
    BY DEF InReach, captureVars
  <2>2. QED
    BY <1>2, <2>1 DEF AgentInv
<1>4. QED
  BY <1>1, <1>2, <1>3 DEF AgentInv

----------------------------------------------------------------------------
(* The steps of a turn keep AgentInv: planning *)

LEMMA NoTurnTyped ==
  /\ NoPlan \in [session : Sessions \cup {Nothing}, turn : Nat]
  /\ NoContext \in Contexts /\ NoTurn \in Turns
<1>1. NoPlan \in [session : Sessions \cup {Nothing}, turn : Nat]
  BY DEF NoPlan
<1>2. NoContext \in Contexts
  BY <1>1 DEF NoContext, Contexts
<1>3. QED
  BY <1>1, <1>2 DEF NoTurn, Turns, Phases

\* What AgentInv says of one session.
LEMMA AgentFacts ==
  ASSUME AgentInv, NEW s \in Sessions
  PROVE  /\ turn \in [Sessions -> Turns] /\ ctx \in [Sessions -> Contexts]
         /\ turn[s] \in Turns /\ ctx[s] \in Contexts /\ TurnGood(s, turn[s])
         /\ turn[s].number \in Nat
         /\ Own(s) \in [session : Sessions \cup {Nothing}, turn : Nat]
         /\ last_plan_ir \in [session : Sessions \cup {Nothing}, turn : Nat]
<1>1. turn \in [Sessions -> Turns] /\ turn[s] \in Turns /\ TurnGood(s, turn[s])
  BY DEF AgentInv
<1>2. turn[s].number \in Nat
  BY <1>1 DEF Turns
<1>3. QED
  BY <1>1, <1>2 DEF AgentInv, Own

\* The turn is over, from wherever.
LEMMA OverGood ==
  ASSUME AgentInv, NEW s \in Sessions
  PROVE  /\ TurnGood(s, Over(s)) /\ Advances(turn[s], Over(s))
         /\ Over(s).phase = "idle" /\ ~Over(s).slipped /\ Over(s).result = Nothing
<1>1. /\ Over(s) \in Turns /\ Over(s).phase = "idle" /\ Over(s).number = turn[s].number
      /\ ~Over(s).slipped /\ Over(s).result = Nothing
  BY NoTurnTyped, AgentFacts DEF Over, NoTurn, Turns, Phases
<1>2. QED
  BY <1>1 DEF TurnGood, Advances, Working

LEMMA StartStep == ASSUME AgentInv, NEW s \in Sessions, Start(s) PROVE AgentInv'
<1> DEFINE fresh == [NoTurn EXCEPT !.number = turn[s].number + 1, !.ctx = ctx[s],
                                   !.shared = ctx[s].ledger # << >>]
<1>1. turn[s] \in Turns /\ ctx[s] \in Contexts /\ turn[s].number \in Nat
  BY AgentFacts
<1>2. /\ turn[s].phase = "idle" /\ turn[s].number < Len(PlansOf[s])
      /\ UNCHANGED <<captureVars, ctx>>
      /\ last_plan_ir' \in {NoPlan, last_plan_ir}
  BY DEF Start
<1>3. turn[s].number + 1 \in 1 .. Len(PlansOf[s])
  BY <1>1, <1>2, AgentAssumption
<1>4. PICK phase \in {"asking", "answered"} :
        turn' = [turn EXCEPT ![s] = [fresh EXCEPT !.phase = phase]]
  BY DEF Start, Become
<1> DEFINE t == [fresh EXCEPT !.phase = phase]
<1>5. /\ t \in Turns /\ t.phase = phase /\ t.number = turn[s].number + 1
      /\ t.at = 1 /\ t.built_structure = Nothing /\ t.scf_energies = << >> /\ ~t.llm
  <2>1. fresh \in Turns /\ fresh.at = 1 /\ fresh.built_structure = Nothing
        /\ fresh.scf_energies = << >> /\ ~fresh.llm /\ fresh.number = turn[s].number + 1
    <3> DEFINE n == turn[s].number + 1
               shared == ctx[s].ledger # << >>
    <3>1. n \in Nat /\ shared \in BOOLEAN /\ n = turn[s].number + 1
      BY <1>1
    <3>2. fresh = [NoTurn EXCEPT !.number = n, !.ctx = ctx[s], !.shared = shared]
      OBVIOUS
    <3> HIDE DEF n, shared
    <3>3. /\ NoTurn.at = 1 /\ NoTurn.built_structure = Nothing /\ NoTurn.scf_energies = << >>
          /\ ~NoTurn.llm
      BY DEF NoTurn
    <3> HIDE DEF fresh
    <3>4. QED
      BY <1>1, <3>1, <3>2, <3>3, NoTurnTyped DEF Turns
  <2> HIDE DEF fresh
  <2>2. QED
    BY <2>1 DEF Turns, Phases
<1> HIDE DEF t, fresh
<1>6. TurnGood(s, t)
  BY <1>3, <1>4, <1>5 DEF TurnGood, Working
<1>7. Advances(turn[s], t)
  BY <1>1, <1>5 DEF Advances
<1>8. QED
  BY <1>2, <1>4, <1>6, <1>7, QuietStep, NoTurnTyped, AgentFacts DEF AgentInv, t

LEMMA RejectStep == ASSUME AgentInv, NEW s \in Sessions, Reject(s) PROVE AgentInv'
<1> DEFINE t == IF turn[s].attempt = 1 THEN [turn[s] EXCEPT !.attempt = 2]
                ELSE [turn[s] EXCEPT !.attempt = 1, !.phase = "answered"]
<1>1. turn[s] \in Turns /\ TurnGood(s, turn[s])
  BY AgentFacts
<1>2. /\ turn[s].phase = "asking" /\ turn' = [turn EXCEPT ![s] = t]
      /\ UNCHANGED <<captureVars, last_plan_ir, ctx>>
  BY DEF Reject, Become
<1>3. /\ t \in Turns /\ t.phase \in {"asking", "answered"} /\ t.number = turn[s].number
      /\ t.at = turn[s].at /\ t.built_structure = turn[s].built_structure
      /\ t.scf_energies = turn[s].scf_energies /\ t.llm = turn[s].llm
  BY <1>1, <1>2 DEF Turns, Phases
<1> HIDE DEF t
<1>4. TurnGood(s, t) /\ Advances(turn[s], t)
  BY <1>1, <1>2, <1>3 DEF TurnGood, Working, Advances
<1>5. QED
  BY <1>2, <1>4, QuietStep, AgentFacts DEF AgentInv

\* The others are marked, and otherwise stay.
LEMMA MarkedGood ==
  ASSUME AgentInv, NEW s \in Sessions, NEW t, TurnGood(s, t), Advances(turn[s], t),
         turn' = [r \in Sessions |->
           IF r = s THEN t
           ELSE [turn[r] EXCEPT !.overtaken = @ \/ turn[r].phase = "answered"]],
         UNCHANGED <<captureVars, ctx>>,
         last_plan_ir' \in [session : Sessions \cup {Nothing}, turn : Nat]
  PROVE  AgentInv'
<1>1. turn \in [Sessions -> Turns] /\ t \in Turns /\ \A r \in Sessions : TurnGood(r, turn[r])
  BY DEF AgentInv, TurnGood
<1>2. ASSUME NEW r \in Sessions
      PROVE  /\ TurnGood(r, turn'[r]) /\ turn'[r] \in Turns
             /\ \A p : PayloadGood(p) /\ Past(p, turn[r]) => Past(p, turn'[r])
  <2>1. CASE r = s
    BY <1>1, <2>1, PastAdvances
  <2>2. CASE r # s
    <3> DEFINE o == turn[r]
               mark == turn[r].overtaken \/ turn[r].phase = "answered"
    <3>1. turn'[r] = [o EXCEPT !.overtaken = mark]
      BY <2>2
    <3>2. o \in Turns /\ mark \in BOOLEAN /\ TurnGood(r, o)
      BY <1>1 DEF Turns
    <3> HIDE DEF o, mark
    <3>3. /\ turn'[r] \in Turns /\ turn'[r].phase = o.phase /\ turn'[r].number = o.number
          /\ turn'[r].at = o.at /\ turn'[r].steps = o.steps /\ turn'[r].args = o.args
          /\ turn'[r].llm = o.llm /\ turn'[r].built_structure = o.built_structure
          /\ turn'[r].scf_energies = o.scf_energies
      BY <3>1, <3>2 DEF Turns
    <3>4. TurnGood(r, turn'[r])
      BY <3>2, <3>3 DEF TurnGood, StepOf
    <3>5. \A p : Past(p, o) => Past(p, turn'[r])
      BY <3>3 DEF Past, StepOf
    <3>6. QED
      BY <3>3, <3>4, <3>5 DEF o
  <2>3. QED
    BY <2>1, <2>2
<1>3. CaptureInv'
  BY CaptureSteps DEF AgentInv
<1>4. turn' \in [Sessions -> Turns]
  <2>1. turn' = [r \in Sessions |-> turn'[r]]
    OBVIOUS
  <2>2. QED
    BY <1>2, <2>1
<1>5. \A c \in Sessions : \A p \in InReach(c)' : PayloadGood(p) /\ Past(p, turn'[p.by])
  <2>1. \A c : InReach(c)' = InReach(c)
    BY DEF InReach, captureVars
  <2>2. \A p : PayloadGood(p) => p.by \in Sessions
    BY DEF PayloadGood, PayloadRecords
  <2>3. QED
    BY <1>2, <2>1, <2>2 DEF AgentInv
<1>6. QED
  BY <1>2, <1>3, <1>4, <1>5 DEF AgentInv

LEMMA AcceptStep == ASSUME AgentInv, NEW s \in Sessions, Accept(s) PROVE AgentInv'
<1>1. turn[s] \in Turns /\ TurnGood(s, turn[s])
      /\ Own(s) \in [session : Sessions \cup {Nothing}, turn : Nat]
  BY AgentFacts
<1>2. PICK plan \in PlansOf[s][turn[s].number] :
        /\ turn[s].phase = "asking" /\ last_plan_ir' = Own(s)
        /\ UNCHANGED <<captureVars, ctx>>
        /\ turn' = [r \in Sessions |->
             IF r = s
             THEN [turn[s] EXCEPT !.phase = "answered", !.attempt = 1,
                                  !.llm = TRUE, !.steps = plan]
             ELSE [turn[r] EXCEPT !.overtaken = @ \/ turn[r].phase = "answered"]]
  BY DEF Accept
<1>3. turn[s].number \in 1 .. Len(PlansOf[s])
  BY <1>1, <1>2 DEF TurnGood
<1>4. plan \in Seq(StepRecords)
  BY <1>3, PlansTyped
<1> DEFINE t == [turn[s] EXCEPT !.phase = "answered", !.attempt = 1, !.llm = TRUE, !.steps = plan]
<1>5. /\ t \in Turns /\ t.phase = "answered" /\ t.number = turn[s].number
      /\ t.at = turn[s].at /\ t.built_structure = turn[s].built_structure
      /\ t.scf_energies = turn[s].scf_energies /\ t.steps = plan
  BY <1>1, <1>4 DEF Turns, Phases
<1> HIDE DEF t
<1>6. TurnGood(s, t) /\ Advances(turn[s], t)
  BY <1>1, <1>2, <1>3, <1>5 DEF TurnGood, Working, Advances
<1>7. QED
  BY <1>1, <1>2, <1>6, MarkedGood DEF t

LEMMA ReplyStep == ASSUME AgentInv, NEW s \in Sessions, ReplyDirectly(s) PROVE AgentInv'
  BY OverGood, MarkedGood, AgentFacts DEF ReplyDirectly

LEMMA BeginStep == ASSUME AgentInv, NEW s \in Sessions, Begin(s) PROVE AgentInv'
<1>1. turn[s] \in Turns /\ TurnGood(s, turn[s]) /\ turn[s].phase = "answered"
  BY AgentFacts DEF Begin
<1>2. PICK plan \in PlansOf[s][turn[s].number] :
        turn' = [turn EXCEPT ![s] = [turn[s] EXCEPT
                   !.phase = "ready", !.llm = FALSE, !.steps = plan,
                   !.ctx.last_plan = PlanIR(s, turn[s].llm)]]
  BY <1>1 DEF Begin, Become, TurnGood
<1>3. UNCHANGED <<captureVars, last_plan_ir, ctx>>
  BY DEF Begin
<1>4. turn[s].number \in 1 .. Len(PlansOf[s]) /\ turn[s].at = 1
  BY <1>1 DEF TurnGood
<1>5. plan \in Seq(StepRecords) /\ Len(plan) \in Nat
  BY <1>4, PlansTyped
<1> DEFINE ir == PlanIR(s, turn[s].llm)
           t == [turn[s] EXCEPT !.phase = "ready", !.llm = FALSE, !.steps = plan,
                                !.ctx.last_plan = ir]
<1>6. ir \in [session : Sessions \cup {Nothing}, turn : Nat]
  BY AgentFacts DEF PlanIR
<1> HIDE DEF ir
<1>7. [turn[s].ctx EXCEPT !.last_plan = ir] \in Contexts
  BY <1>1, <1>6 DEF Contexts, Turns
<1>8. /\ t \in Turns /\ t.phase = "ready" /\ t.number = turn[s].number
      /\ t.at = turn[s].at /\ t.steps = plan
  BY <1>1, <1>5, <1>7 DEF Turns, Phases
<1> HIDE DEF t
<1>9. TurnGood(s, t) /\ Advances(turn[s], t)
  BY <1>1, <1>4, <1>5, <1>8 DEF TurnGood, Working, Advances
<1>10. QED
  BY <1>2, <1>3, <1>9, QuietStep, AgentFacts DEF t, ir

----------------------------------------------------------------------------
(* The steps of a turn keep AgentInv: its plan's steps *)

\* The turn after its current step, field by field.
LEMMA AfterFields ==
  ASSUME NEW t \in Turns, NEW slip \in BOOLEAN
  PROVE  LET u == After(t, slip) IN
         /\ u \in Turns /\ u.phase = "ready" /\ u.at = t.at + 1 /\ u.number = t.number
         /\ u.steps = t.steps /\ u.ctx = t.ctx /\ u.built_structure = t.built_structure
         /\ u.scf_energies = t.scf_energies /\ u.args = << >> /\ u.result = Nothing
         /\ u.slipped = (t.slipped \/ slip) /\ u.overtaken = t.overtaken /\ u.shared = t.shared
<1> DEFINE n == t.at + 1
           slipped == t.slipped \/ slip
<1>1. n \in Nat /\ slipped \in BOOLEAN
  BY DEF Turns
<1>2. After(t, slip) = [t EXCEPT !.phase = "ready", !.at = n, !.args = << >>,
                                 !.slipped = slipped, !.result = Nothing]
  BY DEF After, Turns
<1>3. n = t.at + 1 /\ slipped = (t.slipped \/ slip)
  OBVIOUS
<1>4. << >> \in Seq(Energies)
  OBVIOUS
<1> DEFINE u == After(t, slip)
<1> HIDE DEF n, slipped, u
<1>5. u = [t EXCEPT !.phase = "ready", !.at = n, !.args = << >>, !.slipped = slipped,
                    !.result = Nothing]
  BY <1>2 DEF u
<1>6. u \in Turns
  BY <1>1, <1>4, <1>5 DEF Turns, Phases
<1>7. /\ u.phase = "ready" /\ u.at = n /\ u.number = t.number
      /\ u.steps = t.steps /\ u.ctx = t.ctx /\ u.built_structure = t.built_structure
      /\ u.scf_energies = t.scf_energies /\ u.args = << >> /\ u.result = Nothing
      /\ u.slipped = slipped /\ u.overtaken = t.overtaken /\ u.shared = t.shared
  BY <1>5 DEF Turns
<1>8. QED
  BY <1>3, <1>6, <1>7 DEF u

LEMMA GivingFields ==
  ASSUME NEW t \in Turns, NEW slip \in BOOLEAN, NEW used \in Seq(Energies),
         StepOf(t) \in AnyStep, NEW u, u = Giving(t, slip, used)
  PROVE  /\ u \in Turns /\ u.phase = "ready" /\ u.at = t.at + 1 /\ u.number = t.number
         /\ u.steps = t.steps /\ u.ctx = t.ctx /\ u.built_structure = t.built_structure
         /\ u.scf_energies = t.scf_energies /\ u.args = << >>
         /\ u.slipped = (t.slipped \/ slip) /\ u.overtaken = t.overtaken /\ u.shared = t.shared
         /\ u.result # Nothing => u.result.used = used /\ u.result.means = StepOf(t).means
<1> DEFINE v == After(t, slip)
           given == [tool |-> StepOf(t).tool, means |-> StepOf(t).means, used |-> used]
<1>1. /\ v \in Turns /\ v.phase = "ready" /\ v.at = t.at + 1 /\ v.number = t.number
      /\ v.steps = t.steps /\ v.ctx = t.ctx /\ v.built_structure = t.built_structure
      /\ v.scf_energies = t.scf_energies /\ v.args = << >>
      /\ v.slipped = (t.slipped \/ slip) /\ v.overtaken = t.overtaken /\ v.shared = t.shared
  BY AfterFields
<1>2. given \in Results /\ given.used = used /\ given.means = StepOf(t).means
  BY DEF Results, AnyStep
<1>3. u = [v EXCEPT !.result = given]
  BY DEF Giving, StepOf
<1> HIDE DEF v, given
<1>4. /\ u \in Turns /\ u.phase = v.phase /\ u.at = v.at /\ u.number = v.number
      /\ u.steps = v.steps /\ u.ctx = v.ctx /\ u.built_structure = v.built_structure
      /\ u.scf_energies = v.scf_energies /\ u.args = v.args
      /\ u.slipped = v.slipped /\ u.overtaken = v.overtaken /\ u.shared = v.shared
      /\ u.result = given
  BY <1>1, <1>2, <1>3 DEF Turns
<1>5. QED
  BY <1>1, <1>2, <1>4

\* After a step the turn is good, whatever it took from it.
LEMMA AfterGood ==
  ASSUME NEW s \in Sessions, NEW t, TurnGood(s, t), t.phase \in Working, t.at <= Len(t.steps),
         NEW u \in Turns, u.phase = "ready", u.at = t.at + 1, u.number = t.number,
         u.steps = t.steps
  PROVE  TurnGood(s, u) /\ Advances(t, u)
<1>1. /\ t.number \in 1 .. Len(PlansOf[s]) /\ t.steps \in PlansOf[s][t.number]
      /\ Len(t.steps) \in Nat /\ t.at \in Nat /\ t.at >= 1
  BY CurrentStep
<1>2. u.at \in 1 .. Len(u.steps) + 1 /\ u.at > t.at
  BY <1>1
<1>3. TurnGood(s, u)
  BY <1>1, <1>2 DEF TurnGood, Working
<1>4. QED
  BY <1>2, <1>3 DEF Advances, Working

\* The facts of a turn that is ready for a step.
LEMMA ReadyFacts ==
  ASSUME AgentInv, NEW s \in Sessions, Ready(s)
  PROVE  /\ turn[s] \in Turns /\ TurnGood(s, turn[s]) /\ turn[s].phase = "ready"
         /\ turn[s].phase \in Working /\ turn[s].at <= Len(turn[s].steps)
         /\ turn[s].ctx \in Contexts /\ turn[s].scf_energies \in Seq(Energies)
         /\ Step(s) = StepOf(turn[s])
         /\ Step(s) \in AnyStep
         /\ Sized(Step(s))
<1>1. /\ turn[s] \in Turns /\ TurnGood(s, turn[s]) /\ turn[s].phase = "ready"
      /\ turn[s].phase \in Working /\ turn[s].at <= Len(turn[s].steps)
  BY AgentFacts DEF Ready, Working
<1>2. Step(s) = StepOf(turn[s])
  BY DEF Step, StepOf
<1>3. turn[s].ctx \in Contexts /\ turn[s].scf_energies \in Seq(Energies)
  BY <1>1 DEF Turns
<1>4. QED
  BY <1>1, <1>2, <1>3, CurrentStep

LEMMA SystemsAreEnergies == \A q \in Seq(Systems) : q \in Seq(Energies)
  BY DEF Energies

LEMMA LaunchStep ==
  ASSUME AgentInv, NEW s \in Sessions, Launch(s)
  PROVE  /\ AgentInv'
         /\ Step(s).tool = "graph.run" /\ Len(Step(s).means) = 1
         /\ LET t == turn[s]
                found == EffectiveStructure(t)
                u == turn'[s]
            IN  /\ u.phase = "running" /\ u.at = t.at /\ u.steps = t.steps /\ u.ctx = t.ctx
                /\ u.built_structure = t.built_structure /\ u.scf_energies = t.scf_energies
                /\ u.result = Nothing /\ u.overtaken = t.overtaken
                /\ u.number = t.number
                /\ ~u.slipped => ~t.slipped /\ (found = Nothing \/ ~Step(s).names)
                /\ found # Nothing \/ Step(s).names
                /\ u.args = IF found # Nothing THEN <<found>> ELSE Step(s).means
<1> DEFINE t == turn[s]
           found == EffectiveStructure(t)
           args == IF found # Nothing THEN <<found>> ELSE Step(s).means
           slipped == t.slipped \/ (found # Nothing /\ Step(s).names)
           u == [t EXCEPT !.phase = "running", !.result = Nothing, !.args = args,
                          !.slipped = slipped]
<1>1. /\ Ready(s) /\ Step(s).tool = "graph.run" /\ (found # Nothing \/ Step(s).names)
      /\ turn' = [turn EXCEPT ![s] = u] /\ UNCHANGED <<captureVars, last_plan_ir, ctx>>
  BY DEF Launch, Become
<1>2. /\ t \in Turns /\ TurnGood(s, t) /\ t.phase = "ready" /\ t.phase \in Working
      /\ t.at <= Len(t.steps) /\ t.ctx \in Contexts /\ Step(s) = StepOf(t)
      /\ Step(s).means \in Seq(Systems) /\ Len(Step(s).means) = 1 /\ Step(s).names \in BOOLEAN
  BY <1>1, ReadyFacts DEF Sized, AnyStep
<1>3. found \in Systems \cup {Nothing}
  BY <1>2 DEF EffectiveStructure, Turns, Contexts
<1>4. args \in Seq(Systems) /\ Len(args) = 1
  BY <1>2, <1>3
<1>5. args \in Seq(Energies) /\ slipped \in BOOLEAN
  <2>1. t.slipped \in BOOLEAN
    BY <1>2 DEF Turns
  <2>2. slipped \in BOOLEAN
    BY <2>1
  <2> HIDE DEF args, slipped
  <2>3. QED
    BY <1>4, <2>2, SystemsAreEnergies
<1>6. ~slipped => ~t.slipped /\ (found = Nothing \/ ~Step(s).names)
  BY <1>2 DEF Turns
<1>7. args = IF found # Nothing THEN <<found>> ELSE Step(s).means
  OBVIOUS
<1> HIDE DEF args, slipped, found
<1>8. /\ u \in Turns /\ u.phase = "running" /\ u.number = t.number /\ u.at = t.at
      /\ u.steps = t.steps /\ u.ctx = t.ctx /\ u.result = Nothing /\ u.args = args
      /\ u.built_structure = t.built_structure /\ u.scf_energies = t.scf_energies
      /\ u.slipped = slipped /\ u.overtaken = t.overtaken
  BY <1>2, <1>5 DEF Turns, Phases
<1> HIDE DEF u
<1>9. TurnGood(s, u)
  BY <1>1, <1>2, <1>4, <1>8 DEF TurnGood, Working, StepOf
<1>10. Advances(t, u)
  BY <1>2, <1>8 DEF Advances, Working
<1>11. AgentInv'
  BY <1>1, <1>9, <1>10, QuietStep DEF AgentInv
<1>12. turn'[s] = u
  BY <1>1 DEF AgentInv
<1>13. QED
  BY <1>1, <1>2, <1>6, <1>7, <1>8, <1>11, <1>12 DEF found

\* The steps that only end: Abort, Notice, Underfed, and Compare without records.
LEMMA EndsStep ==
  ASSUME AgentInv, NEW s \in Sessions, Ready(s), NEW slip \in BOOLEAN,
         Become(s, After(turn[s], slip)), UNCHANGED <<captureVars, last_plan_ir, ctx>>
  PROVE  AgentInv' /\ turn'[s] = After(turn[s], slip)
<1> DEFINE u == After(turn[s], slip)
<1>1. /\ turn[s] \in Turns /\ TurnGood(s, turn[s]) /\ turn[s].phase \in Working
      /\ turn[s].at <= Len(turn[s].steps)
  BY ReadyFacts
<1>2. /\ u \in Turns /\ u.phase = "ready" /\ u.at = turn[s].at + 1
      /\ u.number = turn[s].number /\ u.steps = turn[s].steps
  BY <1>1, AfterFields
<1> HIDE DEF u
<1>3. TurnGood(s, u) /\ Advances(turn[s], u)
  BY <1>1, <1>2, AfterGood
<1>4. AgentInv'
  BY <1>3, QuietStep DEF AgentInv, Become, u
<1>5. QED
  BY <1>4 DEF Become, AgentInv

LEMMA GivesStep ==
  ASSUME AgentInv, NEW s \in Sessions, Ready(s), NEW slip \in BOOLEAN,
         NEW used \in Seq(Energies),
         Become(s, Giving(turn[s], slip, used)), UNCHANGED <<captureVars, last_plan_ir, ctx>>
  PROVE  AgentInv' /\ turn'[s] = Giving(turn[s], slip, used)
<1> DEFINE u == Giving(turn[s], slip, used)
<1>1. /\ turn[s] \in Turns /\ TurnGood(s, turn[s]) /\ turn[s].phase \in Working
      /\ turn[s].at <= Len(turn[s].steps)
      /\ StepOf(turn[s]) \in AnyStep
  BY ReadyFacts
<1>2. /\ u \in Turns /\ u.phase = "ready" /\ u.at = turn[s].at + 1
      /\ u.number = turn[s].number /\ u.steps = turn[s].steps
  <2>1. u = Giving(turn[s], slip, used)
    OBVIOUS
  <2> HIDE DEF u
  <2>2. QED
    BY <1>1, <2>1, GivingFields
<1> HIDE DEF u
<1>3. TurnGood(s, u) /\ Advances(turn[s], u)
  BY <1>1, <1>2, AfterGood
<1>4. AgentInv'
  BY <1>3, QuietStep DEF AgentInv, Become, u
<1>5. QED
  BY <1>4 DEF Become, AgentInv

LEMMA CompareStep ==
  ASSUME AgentInv, NEW s \in Sessions, Compare(s)
  PROVE  /\ AgentInv'
         /\ LET t == turn[s]
                n == Len(Step(s).means)
                ledger == t.ctx.ledger
                last == SubSeq(ledger, Len(ledger) - n + 1, Len(ledger))
            IN  /\ Ready(s) /\ Step(s).tool = "analysis.compare"
                /\ \/ turn'[s] = After(t, FALSE)
                   \/ /\ Len(ledger) >= n /\ turn'[s] = Giving(t, FALSE, last)
                      /\ last \in Seq(Energies)
<1> DEFINE t == turn[s]
           n == Len(Step(s).means)
           ledger == t.ctx.ledger
           last == SubSeq(ledger, Len(ledger) - n + 1, Len(ledger))
<1>1. /\ Ready(s) /\ Step(s).tool = "analysis.compare"
      /\ \/ Become(s, After(t, FALSE))
         \/ Len(ledger) >= n /\ Become(s, Giving(t, FALSE, last))
      /\ UNCHANGED <<captureVars, last_plan_ir, ctx>>
  BY DEF Compare
<1>2. /\ t \in Turns /\ TurnGood(s, t) /\ t.phase \in Working /\ t.at <= Len(t.steps)
      /\ ledger \in Seq(Systems) /\ n \in Nat /\ Step(s) = StepOf(t)
      /\ StepOf(t) \in AnyStep
  BY <1>1, ReadyFacts DEF Contexts, AnyStep
<1>3. CASE Become(s, After(t, FALSE))
  BY <1>1, <1>3, EndsStep
<1>4. CASE Len(ledger) >= n /\ Become(s, Giving(t, FALSE, last))
  <2>1. last \in Seq(Energies)
    <3>1. last \in Seq(Systems)
      BY <1>2, <1>4, SubSeqProperties
    <3>2. QED
      BY <3>1, SystemsAreEnergies
  <2> HIDE DEF t, n, ledger, last
  <2>2. AgentInv' /\ turn'[s] = Giving(turn[s], FALSE, last)
    BY <1>1, <1>4, <2>1, GivesStep DEF t
  <2>3. QED
    BY <1>1, <1>4, <2>1, <2>2 DEF t, n, ledger, last
<1>5. QED
  BY <1>1, <1>3, <1>4

LEMMA BreakStep == ASSUME AgentInv, NEW s \in Sessions, Break(s) PROVE AgentInv'
  BY OverGood, QuietStep DEF Break, Become, AgentInv

LEMMA EndStep == ASSUME AgentInv, NEW s \in Sessions, End(s) PROVE AgentInv'
<1>1. turn[s].ctx \in Contexts /\ ctx \in [Sessions -> Contexts]
  BY AgentFacts DEF Turns
<1>2. ctx' \in [Sessions -> Contexts]
  BY <1>1 DEF End
<1>3. QED
  BY <1>2, OverGood, QuietStep DEF End, Become, AgentInv

----------------------------------------------------------------------------
(* The steps of a turn keep AgentInv: runs and commands *)

LEMMA MaxOfZero ==
  ASSUME NEW n \in Int PROVE Max({0, n}) = IF n > 0 THEN n ELSE 0
<1> DEFINE m == IF n > 0 THEN n ELSE 0
<1>1. m \in {0, n} /\ \A y \in {0, n} : m >= y
  OBVIOUS
<1>2. \A x \in {0, n} : (\A y \in {0, n} : x >= y) => x = m
  OBVIOUS
<1> HIDE DEF m
<1>3. Max({0, n}) = m
  BY <1>1, <1>2 DEF Max
<1>4. QED
  BY <1>3 DEF m

\* What is kept of a ledger is its end.
LEMMA LastOfFacts ==
  ASSUME NEW q \in Seq(Systems)
  PROVE  /\ LastOf(q) \in Seq(Systems)
         /\ Len(LastOf(q)) = IF Len(q) > LedgerSize THEN LedgerSize ELSE Len(q)
         /\ \A i \in 1 .. Len(LastOf(q)) :
              LastOf(q)[Len(LastOf(q)) - i + 1] = q[Len(q) - i + 1]
<1> DEFINE cut == Max({0, Len(q) - LedgerSize})
<1>1. LedgerSize \in Nat /\ LedgerSize > 0 /\ Len(q) \in Nat
  BY AgentAssumption
<1>2. cut = IF Len(q) - LedgerSize > 0 THEN Len(q) - LedgerSize ELSE 0
  BY <1>1, MaxOfZero
<1>3. LastOf(q) = SubSeq(q, 1 + cut, Len(q))
  BY DEF LastOf
<1> HIDE DEF cut
<1>4. cut \in Nat /\ cut <= Len(q)
  BY <1>1, <1>2
<1>5. \A i \in 1 + cut .. Len(q) : q[i] \in Systems
  BY <1>1, <1>4
<1>6. /\ LastOf(q) \in Seq(Systems)
      /\ Len(LastOf(q)) = IF 1 + cut <= Len(q) THEN Len(q) - (1 + cut) + 1 ELSE 0
      /\ \A i \in 1 .. Len(q) - (1 + cut) + 1 : LastOf(q)[i] = q[1 + cut + i - 1]
  BY <1>1, <1>3, <1>4, <1>5, SubSeqProperties
<1>7. Len(LastOf(q)) = Len(q) - cut
  BY <1>1, <1>4, <1>6
<1>8. ASSUME NEW i \in 1 .. Len(LastOf(q))
      PROVE  LastOf(q)[Len(LastOf(q)) - i + 1] = q[Len(q) - i + 1]
  <2>1. Len(LastOf(q)) - i + 1 \in 1 .. Len(q) - (1 + cut) + 1
    BY <1>1, <1>4, <1>7
  <2>2. 1 + cut + (Len(LastOf(q)) - i + 1) - 1 = Len(q) - i + 1
    BY <1>1, <1>4, <1>7
  <2>3. QED
    BY <1>6, <2>1, <2>2
<1>9. QED
  BY <1>1, <1>2, <1>6, <1>7, <1>8

\* What a run leaves in its turn.
LEMMA FinishStep ==
  ASSUME AgentInv, NEW s \in Sessions, Finish(s)
  PROVE  /\ AgentInv'
         /\ LET t == turn[s]
                u == turn'[s]
            IN  /\ t.phase = "running" /\ u.phase = "ready"
                /\ u.number = t.number /\ u.steps = t.steps /\ u.at = t.at + 1
                /\ u.built_structure = t.built_structure /\ u.ctx.source = t.ctx.source
                /\ u.ctx.last_plan = t.ctx.last_plan /\ u.overtaken = t.overtaken
                /\ ~u.slipped =>
                     /\ ~t.slipped
                     /\ u.scf_energies = t.scf_energies \o <<t.args[1]>>
                     /\ u.ctx.ledger = LastOf(Append(t.ctx.ledger, t.args[1]))
                     /\ u.result # Nothing =>
                          u.result.used = t.args /\ u.result.means = StepOf(t).means
<1> DEFINE t == turn[s]
           u == turn'[s]
<1>1. /\ t \in Turns /\ TurnGood(s, t) /\ t.phase = "running" /\ t.phase \in Working
      /\ t.at <= Len(t.steps) /\ Step(s) = StepOf(t)
      /\ t.args \in Seq(Systems) /\ Len(t.args) = 1 /\ StepOf(t) = t.steps[t.at]
  BY AgentFacts DEF Finish, Working, TurnGood, Step, StepOf
<1>2. /\ StepOf(t) \in AnyStep /\ StepOf(t).template \in Templates
      /\ t.ctx \in Contexts /\ t.ctx.ledger \in Seq(Systems)
      /\ t.args \in Seq(Energies) /\ t.args[1] \in Systems /\ t.args[1] \in Energies
      /\ t.scf_energies \in Seq(Energies)
  BY <1>1, CurrentStep DEF AnyStep, Turns, Contexts, Energies
<1>3. PICK outcome \in Outcomes(StepOf(t).template) :
        LET placeholder == StepOf(t).template = "t2_bands"
            after == IF outcome = "succeeded" THEN Giving(t, placeholder, t.args)
                                              ELSE After(t, TRUE)
        IN  /\ Become(s, [after EXCEPT !.scf_energies = @ \o NodeEnergies(t, outcome),
                                       !.ctx.ledger = Recorded(t, outcome),
                                       !.shared = @ /\ outcome # "succeeded"])
            /\ ctx' = Aliased(s, outcome)
  BY <1>1 DEF Finish
<1> DEFINE placeholder == StepOf(t).template = "t2_bands"
           after == IF outcome = "succeeded" THEN Giving(t, placeholder, t.args)
                                             ELSE After(t, TRUE)
           energies == after.scf_energies \o NodeEnergies(t, outcome)
           ledger == Recorded(t, outcome)
           context == [after.ctx EXCEPT !.ledger = ledger]
           shared == after.shared /\ outcome # "succeeded"
<1>4. /\ after \in Turns /\ after.phase = "ready" /\ after.at = t.at + 1
      /\ after.number = t.number /\ after.steps = t.steps /\ after.ctx = t.ctx
      /\ after.built_structure = t.built_structure
      /\ after.scf_energies = t.scf_energies /\ after.overtaken = t.overtaken
      /\ ~after.slipped => outcome = "succeeded" /\ ~placeholder /\ ~t.slipped
      /\ ~after.slipped /\ after.result # Nothing =>
           after.result.used = t.args /\ after.result.means = StepOf(t).means
      /\ after.shared \in BOOLEAN
  <2>1. placeholder \in BOOLEAN /\ t.slipped \in BOOLEAN
    BY <1>1 DEF Turns
  <2>2. CASE outcome = "succeeded"
    <3>1. after = Giving(t, placeholder, t.args)
      BY <2>2
    <3> HIDE DEF t, placeholder, after
    <3>2. /\ after \in Turns /\ after.phase = "ready" /\ after.at = t.at + 1
          /\ after.number = t.number /\ after.steps = t.steps /\ after.ctx = t.ctx
          /\ after.built_structure = t.built_structure
          /\ after.scf_energies = t.scf_energies /\ after.overtaken = t.overtaken
          /\ after.slipped = (t.slipped \/ placeholder)
          /\ after.result # Nothing =>
               after.result.used = t.args /\ after.result.means = StepOf(t).means
      BY <1>1, <1>2, <2>1, <3>1, GivingFields
    <3>3. after.shared \in BOOLEAN
      BY <3>2 DEF Turns
    <3>4. QED
      BY <2>2, <3>2, <3>3
  <2>3. CASE outcome # "succeeded"
    <3>1. after = After(t, TRUE)
      BY <2>3
    <3> HIDE DEF t, placeholder, after
    <3>2. /\ after \in Turns /\ after.phase = "ready" /\ after.at = t.at + 1
          /\ after.number = t.number /\ after.steps = t.steps /\ after.ctx = t.ctx
          /\ after.built_structure = t.built_structure
          /\ after.scf_energies = t.scf_energies /\ after.overtaken = t.overtaken
          /\ after.slipped
      BY <1>1, <2>1, <3>1, AfterFields
    <3>3. after.shared \in BOOLEAN
      BY <3>2 DEF Turns
    <3>4. QED
      BY <3>2, <3>3
  <2>4. QED
    BY <2>2, <2>3
<1>5. NodeEnergies(t, outcome) \in Seq(Energies)
      /\ (outcome = "succeeded" /\ ~placeholder => NodeEnergies(t, outcome) = <<t.args[1]>>)
  <2>1. Placeholder \in Energies
    BY DEF Energies
  <2> DEFINE e == t.args[1]
  <2>2. << >> \in Seq(Energies) /\ <<e>> \in Seq(Energies) /\ <<e, Placeholder>> \in Seq(Energies)
    BY <1>2, <2>1
  <2>3. NodeEnergies(t, outcome) =
          CASE outcome \in {"error", "failed"} -> << >>
            [] StepOf(t).template = "t2_bands" -> <<e, Placeholder>>
            [] OTHER -> <<e>>
    BY DEF NodeEnergies, StepOf
  <2>4. outcome \in {"error", "failed", "succeeded", "failed later"}
        /\ (outcome = "failed later" => placeholder)
    BY DEF Outcomes
  <2> HIDE DEF t
  <2>5. CASE outcome \in {"error", "failed"}
    <3>1. NodeEnergies(t, outcome) \in {<< >>, <<e>>, <<e, Placeholder>>}
      BY <2>3, <2>5
    <3>2. QED
      BY <2>2, <2>5, <3>1
  <2>6. CASE outcome \notin {"error", "failed"} /\ placeholder
    BY <2>2, <2>3, <2>6
  <2>7. CASE outcome \notin {"error", "failed"} /\ ~placeholder
    BY <2>2, <2>3, <2>7
  <2>8. QED
    BY <2>5, <2>6, <2>7 DEF t
<1>6. ledger \in Seq(Systems)
      /\ (outcome = "succeeded" => ledger = LastOf(Append(t.ctx.ledger, t.args[1])))
  <2>1. Append(t.ctx.ledger, t.args[1]) \in Seq(Systems)
    BY <1>2
  <2>2. QED
    BY <1>2, <2>1, LastOfFacts DEF Recorded
<1>7. energies \in Seq(Energies) /\ shared \in BOOLEAN
  <2>1. after.scf_energies \in Seq(Energies)
    BY <1>2, <1>4
  <2> HIDE DEF after
  <2>2. QED
    BY <1>4, <1>5, <2>1, ConcatProperties
<1>8. context \in Contexts /\ context.ledger = ledger
      /\ context.source = t.ctx.source /\ context.last_plan = t.ctx.last_plan
  <2> HIDE DEF ledger, after
  <2>1. QED
    BY <1>2, <1>4, <1>6 DEF Contexts
<1>9. /\ turn' = [turn EXCEPT ![s] = [after EXCEPT !.scf_energies = energies, !.ctx = context,
                                                   !.shared = shared]]
      /\ ctx' = Aliased(s, outcome)
      /\ UNCHANGED <<captureVars, last_plan_ir>>
  <2>1. UNCHANGED <<captureVars, last_plan_ir>>
    BY DEF Finish
  <2> HIDE DEF NodeEnergies, Recorded
  <2>2. QED
    BY <1>3, <2>1 DEF Become
<1>10. ctx' \in [Sessions -> Contexts]
  <2>1. ctx \in [Sessions -> Contexts] /\ ctx[s].ledger \in Seq(Systems)
    BY AgentFacts DEF Contexts
  <2>2. Append(ctx[s].ledger, t.args[1]) \in Seq(Systems)
    BY <1>2, <2>1
  <2>3. [ctx[s] EXCEPT !.ledger = Append(ctx[s].ledger, t.args[1])] \in Contexts
    BY <2>1, <2>2 DEF Contexts
  <2>4. QED
    BY <1>9, <2>1, <2>3 DEF Aliased
<1> DEFINE new == [after EXCEPT !.scf_energies = energies, !.ctx = context, !.shared = shared]
<1>11. energies = after.scf_energies \o NodeEnergies(t, outcome)
  OBVIOUS
<1> HIDE DEF after, energies, ledger, context, shared, placeholder
<1>12. /\ new \in Turns /\ new.phase = "ready" /\ new.at = after.at
       /\ new.number = after.number /\ new.steps = after.steps /\ new.ctx = context
       /\ new.built_structure = after.built_structure /\ new.scf_energies = energies
       /\ new.overtaken = after.overtaken /\ new.slipped = after.slipped
       /\ new.result = after.result
  BY <1>4, <1>7, <1>8 DEF Turns, Phases
<1> HIDE DEF new
<1>13. TurnGood(s, new) /\ Advances(t, new)
  BY <1>1, <1>4, <1>12, AfterGood
<1>14. AgentInv' /\ u = new
  BY <1>9, <1>10, <1>13, QuietStep DEF AgentInv, new
<1>15. ~new.slipped => /\ outcome = "succeeded" /\ ~placeholder /\ ~t.slipped
                       /\ new.scf_energies = t.scf_energies \o <<t.args[1]>>
                       /\ new.ctx.ledger = LastOf(Append(t.ctx.ledger, t.args[1]))
  BY <1>4, <1>5, <1>6, <1>8, <1>11, <1>12
<1>16. QED
  BY <1>1, <1>4, <1>8, <1>12, <1>14, <1>15

\* A word to the streams, or from them: nothing foreign gets into reach.
LEMMA StreamStep ==
  ASSUME AgentInv, NEW s \in Sessions, NEW t, TurnGood(s, t), Advances(turn[s], t),
         turn' = [turn EXCEPT ![s] = t], [CaptureNext]_captureVars,
         UNCHANGED <<last_plan_ir, ctx>>,
         \A c \in Sessions : \A p \in InReach(c)' :
            p \in InReach(c) \/ (PayloadGood(p) /\ Past(p, turn'[p.by]))
  PROVE  AgentInv'
<1>1. CaptureInv'
  BY CaptureSteps DEF AgentInv
<1>2. /\ turn' \in [Sessions -> Turns]
      /\ \A r \in Sessions : TurnGood(r, turn'[r])
      /\ \A p : PayloadGood(p) /\ Past(p, turn[p.by]) => Past(p, turn'[p.by])
  BY OneTurn
<1>3. \A c \in Sessions : \A p \in InReach(c)' : PayloadGood(p) /\ Past(p, turn'[p.by])
  BY <1>2 DEF AgentInv
<1>4. QED
  BY <1>1, <1>2, <1>3 DEF AgentInv

\* A step's arguments are those it is about, or energies of its turn.
LEMMA ArgumentsTyped ==
  ASSUME AgentInv, NEW s \in Sessions, Ready(s), Fed(s)
  PROVE  Arguments(s) \in Seq(Energies)
<1> DEFINE energies == turn[s].scf_energies
           n == Len(Step(s).means)
<1>1. /\ energies \in Seq(Energies) /\ Len(energies) \in Nat
      /\ Step(s).means \in Seq(Systems) /\ n \in Nat /\ Sized(Step(s))
  BY ReadyFacts DEF AnyStep
<1>2. CASE Step(s).tool = "thermo.eads"
  <2>1. n = 3 /\ Len(energies) >= 3
    BY <1>1, <1>2 DEF Sized, Fed
  <2>2. \A i \in Len(energies) - 2 .. Len(energies) : energies[i] \in Energies
    BY <1>1, <2>1
  <2>3. SubSeq(energies, Len(energies) - 2, Len(energies)) \in Seq(Energies)
    BY <1>1, <2>2, SubSeqProperties
  <2>4. QED
    BY <1>2, <2>3 DEF Arguments, EadsArgs
<1>3. CASE Step(s).tool = "thermo.formation"
  <2>1. Len(energies) >= n
    BY <1>3 DEF Fed
  <2>2. \A i \in 1 .. n : energies[i] \in Energies
    BY <1>1, <2>1
  <2>3. SubSeq(energies, 1, n) \in Seq(Energies)
    BY <1>1, <2>2, SubSeqProperties
  <2>4. QED
    BY <1>3, <2>3 DEF Arguments, FormationArgs
<1>4. CASE Step(s).tool \notin {"thermo.eads", "thermo.formation"}
  BY <1>1, <1>4, SystemsAreEnergies DEF Arguments
<1>5. QED
  BY <1>2, <1>3, <1>4

LEMMA CallCommandStep ==
  ASSUME AgentInv, NEW s \in Sessions, CallCommand(s)
  PROVE  /\ AgentInv'
         /\ LET t == turn[s]
                u == turn'[s]
            IN  /\ Ready(s) /\ Fed(s) /\ Step(s).tool \in CommandTools
                /\ u.phase = "redirected" /\ u.args = Arguments(s) /\ u.result = Nothing
                /\ u.at = t.at /\ u.steps = t.steps /\ u.ctx = t.ctx /\ u.number = t.number
                /\ u.built_structure = t.built_structure /\ u.scf_energies = t.scf_energies
                /\ u.slipped = t.slipped /\ u.overtaken = t.overtaken
<1> DEFINE t == turn[s]
           args == Arguments(s)
           u == [t EXCEPT !.phase = "redirected", !.args = args, !.result = Nothing]
<1>1. /\ Ready(s) /\ Fed(s) /\ Step(s).tool \in CommandTools /\ Redirect(s)
      /\ turn' = [turn EXCEPT ![s] = u] /\ UNCHANGED <<last_plan_ir, ctx>>
  BY DEF CallCommand, Become
<1>2. /\ t \in Turns /\ TurnGood(s, t) /\ t.phase = "ready" /\ t.phase \in Working
      /\ t.at <= Len(t.steps) /\ Step(s) = StepOf(t)
  BY <1>1, ReadyFacts
<1>3. args \in Seq(Energies)
  BY <1>1, ArgumentsTyped
<1>4. Step(s).tool \in Builds => args = Step(s).means
  BY DEF Arguments, Builds
<1> HIDE DEF args
<1>5. /\ u \in Turns /\ u.phase = "redirected" /\ u.number = t.number /\ u.at = t.at
      /\ u.steps = t.steps /\ u.ctx = t.ctx /\ u.result = Nothing /\ u.args = args
      /\ u.built_structure = t.built_structure /\ u.scf_energies = t.scf_energies
      /\ u.slipped = t.slipped /\ u.overtaken = t.overtaken
  BY <1>2, <1>3 DEF Turns, Phases
<1> HIDE DEF u
<1>6. TurnGood(s, u) /\ Advances(t, u)
  BY <1>1, <1>2, <1>4, <1>5 DEF TurnGood, Working, StepOf, Advances
<1>7. \A c \in Sessions : \A p \in InReach(c)' : p \in InReach(c)
  BY <1>1 DEF Redirect, InReach, AgentInv, CaptureInv, CaptureTypeOK, Sessions
<1>8. [CaptureNext]_captureVars
  BY <1>1 DEF CaptureNext, Sessions
<1>9. AgentInv'
  BY <1>1, <1>6, <1>7, <1>8, StreamStep
<1>10. turn'[s] = u
  BY <1>1 DEF AgentInv
<1>11. QED
  BY <1>1, <1>5, <1>9, <1>10 DEF args

\* What can be printed is among the payloads.
PayloadsSuffice == PayloadRecords \subseteq Payloads

LEMMA RunCommandStep ==
  ASSUME PayloadsSuffice, AgentInv, NEW s \in Sessions, RunCommand(s)
  PROVE  /\ AgentInv' /\ [CaptureNext]_captureVars
         /\ LET t == turn[s]
                u == turn'[s]
            IN  /\ t.phase = "redirected" /\ u.phase = "printed"
                /\ u.args = t.args /\ u.result = t.result
                /\ u.at = t.at /\ u.steps = t.steps /\ u.ctx = t.ctx /\ u.number = t.number
                /\ u.built_structure = t.built_structure /\ u.scf_energies = t.scf_energies
                /\ u.slipped = t.slipped /\ u.overtaken = t.overtaken
<1> DEFINE t == turn[s]
           u == [t EXCEPT !.phase = "printed"]
<1>1. /\ t.phase = "redirected" /\ turn' = [turn EXCEPT ![s] = u]
      /\ UNCHANGED <<last_plan_ir, ctx>>
  BY DEF RunCommand, Become
<1>2. PICK p : /\ \E ok \in BOOLEAN : p = Payload(s, ok)
               /\ Say(s, p) \/ Write(s, p)
  BY DEF RunCommand
<1>3. /\ t \in Turns /\ TurnGood(s, t) /\ t.phase \in Working /\ t.at <= Len(t.steps)
      /\ t.args \in Seq(Energies) /\ t.number \in Nat /\ t.at \in Nat /\ Step(s) = StepOf(t)
      /\ StepOf(t).tool \in CommandTools
      /\ StepOf(t).tool \in Builds => t.args = StepOf(t).means
  <2>1. t \in Turns /\ TurnGood(s, t)
    BY AgentFacts
  <2>2. t.args \in Seq(Energies) /\ t.number \in Nat /\ t.at \in Nat
    BY <2>1 DEF Turns
  <2>3. QED
    BY <1>1, <2>1, <2>2 DEF Working, TurnGood, Step, StepOf
<1>4. StepOf(t) \in AnyStep /\ Sized(StepOf(t)) /\ StepOf(t).means \in Seq(Systems)
  BY <1>3, CurrentStep DEF AnyStep
<1>5. /\ p.by = s /\ p.of = t.args /\ p.tool = StepOf(t).tool
      /\ p.call = <<t.number, t.at>> /\ p \in PayloadRecords
  <2>1. PICK ok \in BOOLEAN : p = [by |-> s, ok |-> ok, tool |-> StepOf(t).tool, of |-> t.args,
                                   call |-> <<t.number, t.at>>]
    BY <1>2, <1>3 DEF Payload
  <2>2. <<t.number, t.at>> \in Nat \X Nat
    BY <1>3
  <2> HIDE DEF t
  <2>3. QED
    BY <1>3, <2>1, <2>2 DEF PayloadRecords
<1>6. PayloadGood(p)
  BY <1>3, <1>4, <1>5 DEF PayloadGood, Sized, Builds
<1>7. /\ u \in Turns /\ u.phase = "printed" /\ u.number = t.number /\ u.at = t.at
      /\ u.steps = t.steps /\ u.ctx = t.ctx /\ u.result = t.result /\ u.args = t.args
      /\ u.built_structure = t.built_structure /\ u.scf_energies = t.scf_energies
      /\ u.slipped = t.slipped /\ u.overtaken = t.overtaken
  BY <1>3 DEF Turns, Phases
<1>8. turn'[s] = u
  BY <1>1 DEF AgentInv
<1> HIDE DEF u
<1>9. TurnGood(s, u) /\ Advances(t, u)
  BY <1>1, <1>3, <1>7 DEF TurnGood, Working, StepOf, Advances
<1>10. Past(p, turn'[p.by])
  BY <1>5, <1>7, <1>8 DEF Past, StepOf
<1>11. [CaptureNext]_captureVars
  BY <1>2, <1>5 DEF CaptureNext, Sessions, PayloadsSuffice
<1>12. \A c \in Sessions : \A q \in InReach(c)' : q \in InReach(c) \/ q = p
  BY <1>2 DEF Say, Write, InReach, AgentInv, CaptureInv, CaptureTypeOK, Sessions
<1>13. AgentInv'
  BY <1>1, <1>6, <1>9, <1>10, <1>11, <1>12, StreamStep
<1>14. QED
  BY <1>1, <1>7, <1>8, <1>11, <1>13

\* What a call answers has been in its reach.
LEMMA AnswersInReach ==
  ASSUME NEW s \in Sessions, NEW reads_file \in BOOLEAN, NEW p \in Answers(s, reads_file),
         p # Nothing
  PROVE  p \in InReach(s)
  BY DEF Answers, InReach

\* An answer that is the step's own is about the step's arguments.
LEMMA OwnAnswer ==
  ASSUME NEW t \in Turns, t.phase = "printed", NEW p, PayloadGood(p), Past(p, t),
         p.call = <<t.number, t.at>>
  PROVE  p.of = t.args
<1>1. t.number \in Nat /\ t.at \in Nat /\ p.call[1] = t.number /\ p.call[2] = t.at
  BY DEF Turns
<1>2. QED
  BY <1>1 DEF Past

\* A structure is chained, field by field.
LEMMA ChainedFields ==
  ASSUME NEW t \in Turns, NEW tool, NEW p, tool \in Builds => p.of[1] \in Systems,
         NEW v, v = Chained(t, tool, p)
  PROVE  /\ v \in Turns /\ v.phase = t.phase /\ v.at = t.at /\ v.number = t.number
         /\ v.steps = t.steps /\ v.scf_energies = t.scf_energies /\ v.slipped = t.slipped
         /\ v.overtaken = t.overtaken
         /\ v.ctx.ledger = t.ctx.ledger /\ v.ctx.last_plan = t.ctx.last_plan
         /\ v.built_structure = IF tool = "structure.build" THEN p.of[1] ELSE t.built_structure
         /\ v.ctx.source = IF tool \in Builds THEN p.of[1] ELSE t.ctx.source
<1> DEFINE system == p.of[1]
           context == [t.ctx EXCEPT !.source = system]
<1>1. t.ctx \in Contexts
  BY DEF Turns
<1>2. CASE tool \in Builds
  <2>1. system \in Systems
    BY <1>2
  <2>2. v = IF tool = "structure.build"
            THEN [t EXCEPT !.built_structure = system, !.ctx = context]
            ELSE [t EXCEPT !.ctx = context]
    BY <1>2 DEF Chained, Builds
  <2> HIDE DEF system
  <2>3. /\ context \in Contexts /\ context.ledger = t.ctx.ledger
        /\ context.last_plan = t.ctx.last_plan /\ context.source = system
    BY <1>1, <2>1 DEF Contexts
  <2> HIDE DEF context
  <2>4. /\ v \in Turns /\ v.phase = t.phase /\ v.at = t.at /\ v.number = t.number
        /\ v.steps = t.steps /\ v.scf_energies = t.scf_energies /\ v.slipped = t.slipped
        /\ v.overtaken = t.overtaken /\ v.ctx = context
        /\ v.built_structure = IF tool = "structure.build" THEN system ELSE t.built_structure
    BY <2>1, <2>2, <2>3 DEF Turns
  <2>5. QED
    BY <1>2, <2>3, <2>4 DEF system
<1>3. CASE tool \notin Builds
  BY <1>3 DEF Chained, Builds
<1>4. QED
  BY <1>2, <1>3

LEMMA ReturnCommandStep ==
  ASSUME AgentInv, NEW s \in Sessions, ReturnCommand(s)
  PROVE  /\ AgentInv' /\ [CaptureNext]_captureVars
         /\ LET t == turn[s]
                u == turn'[s]
                tool == StepOf(t).tool
            IN  /\ t.phase = "printed" /\ t.at <= Len(t.steps)
                /\ u.phase = "ready" /\ u.at = t.at + 1 /\ u.steps = t.steps
                /\ u.number = t.number /\ u.scf_energies = t.scf_energies
                /\ u.overtaken = t.overtaken
                /\ u.ctx.ledger = t.ctx.ledger /\ u.ctx.last_plan = t.ctx.last_plan
                /\ ~u.slipped =>
                     /\ ~t.slipped
                     /\ u.built_structure = IF tool = "structure.build" THEN t.args[1]
                                                                        ELSE t.built_structure
                     /\ u.ctx.source = IF tool \in Builds THEN t.args[1] ELSE t.ctx.source
                     /\ u.result # Nothing =>
                          u.result.used = t.args /\ u.result.means = StepOf(t).means
<1> DEFINE t == turn[s]
           u == turn'[s]
           tool == StepOf(t).tool
<1>1. /\ t \in Turns /\ TurnGood(s, t) /\ t.phase = "printed" /\ t.phase \in Working
      /\ t.at <= Len(t.steps) /\ Step(s) = StepOf(t) /\ t.slipped \in BOOLEAN
  <2>1. t \in Turns /\ TurnGood(s, t) /\ t.phase = "printed" /\ Step(s) = StepOf(t)
    BY AgentFacts DEF ReturnCommand, Step, StepOf
  <2>2. t.slipped \in BOOLEAN
    BY <2>1 DEF Turns
  <2>3. QED
    BY <2>1, <2>2 DEF Working, TurnGood
<1>2. StepOf(t) \in AnyStep
  BY <1>1, CurrentStep
<1>3. PICK p \in Answers(s, tool = "structure.import") :
        LET exact == p # Nothing /\ p.by = s /\ p.call = <<t.number, t.at>>
            kept == p # Nothing /\ p.ok /\ p.tool = tool
        IN  Become(s, IF kept THEN Giving(Chained(t, tool, p), ~exact, p.of) ELSE After(t, TRUE))
  BY <1>1 DEF ReturnCommand
<1>4. Restore(s) /\ UNCHANGED <<last_plan_ir, ctx>>
  BY DEF ReturnCommand
<1> DEFINE exact == p # Nothing /\ p.by = s /\ p.call = <<t.number, t.at>>
           kept == p # Nothing /\ p.ok /\ p.tool = tool
           v == Chained(t, tool, p)
           new == IF kept THEN Giving(v, ~exact, p.of) ELSE After(t, TRUE)
<1>5. p # Nothing => p \in InReach(s)
  BY AnswersInReach
<1>6. p # Nothing => PayloadGood(p) /\ Past(p, turn[p.by]) /\ p.of \in Seq(Energies)
  BY <1>5 DEF AgentInv, PayloadGood, PayloadRecords
<1>7. /\ new \in Turns /\ new.phase = "ready" /\ new.at = t.at + 1 /\ new.steps = t.steps
      /\ new.number = t.number /\ new.scf_energies = t.scf_energies
      /\ new.overtaken = t.overtaken
      /\ new.ctx.ledger = t.ctx.ledger /\ new.ctx.last_plan = t.ctx.last_plan
      /\ ~new.slipped =>
           /\ ~t.slipped
           /\ new.built_structure = IF tool = "structure.build" THEN t.args[1]
                                                                ELSE t.built_structure
           /\ new.ctx.source = IF tool \in Builds THEN t.args[1] ELSE t.ctx.source
           /\ new.result # Nothing => new.result.used = t.args
                                      /\ new.result.means = StepOf(t).means
  <2>1. CASE kept
    <3>1. PayloadGood(p) /\ Past(p, turn[p.by]) /\ p.of \in Seq(Energies)
          /\ (tool \in Builds => p.of[1] \in Systems)
      BY <1>6, <2>1 DEF PayloadGood
    <3>2. /\ v \in Turns /\ v.phase = t.phase /\ v.at = t.at /\ v.number = t.number
          /\ v.steps = t.steps /\ v.scf_energies = t.scf_energies /\ v.slipped = t.slipped
          /\ v.overtaken = t.overtaken
          /\ v.ctx.ledger = t.ctx.ledger /\ v.ctx.last_plan = t.ctx.last_plan
          /\ v.built_structure = IF tool = "structure.build" THEN p.of[1] ELSE t.built_structure
          /\ v.ctx.source = IF tool \in Builds THEN p.of[1] ELSE t.ctx.source
      <4>1. v = Chained(t, tool, p)
        OBVIOUS
      <4> HIDE DEF v, t, tool
      <4>2. QED
        BY <1>1, <3>1, <4>1, ChainedFields
    <3>3. exact => p.of = t.args
      <4>1. exact => p.by = s /\ p.call = <<t.number, t.at>>
        OBVIOUS
      <4> HIDE DEF exact
      <4>2. QED
        BY <1>1, <3>1, <4>1, OwnAnswer
    <3> DEFINE slip == ~exact
    <3>4. new = Giving(v, slip, p.of) /\ slip \in BOOLEAN /\ (slip \/ exact)
      BY <2>1
    <3>5. StepOf(v) = StepOf(t)
      BY <3>2 DEF StepOf
    <3> HIDE DEF v, new, exact, slip, t, tool
    <3>6. /\ new \in Turns /\ new.phase = "ready" /\ new.at = v.at + 1 /\ new.number = v.number
          /\ new.steps = v.steps /\ new.ctx = v.ctx /\ new.built_structure = v.built_structure
          /\ new.scf_energies = v.scf_energies
          /\ new.slipped = (v.slipped \/ slip) /\ new.overtaken = v.overtaken
          /\ new.result # Nothing =>
               new.result.used = p.of /\ new.result.means = StepOf(v).means
      BY <1>2, <3>1, <3>2, <3>4, <3>5, GivingFields
    <3>7. ~new.slipped => ~t.slipped /\ exact
      BY <3>2, <3>4, <3>6
    <3>8. QED
      BY <3>2, <3>3, <3>5, <3>6, <3>7
  <2>2. CASE ~kept
    <3>1. new = After(t, TRUE)
      BY <2>2
    <3> HIDE DEF new, t
    <3>2. QED
      BY <1>1, <3>1, AfterFields
  <2>3. QED
    BY <2>1, <2>2
<1>8. turn' = [turn EXCEPT ![s] = new]
  BY <1>3 DEF Become
<1>9. turn'[s] = new
  BY <1>8 DEF AgentInv
<1> HIDE DEF new
<1>10. TurnGood(s, new) /\ Advances(t, new)
  BY <1>1, <1>7, AfterGood
<1>11. [CaptureNext]_captureVars
  BY <1>4 DEF CaptureNext, Sessions
<1>12. \A c \in Sessions : \A q \in InReach(c)' : q \in InReach(c)
  BY <1>4 DEF Restore, InReach, AgentInv, CaptureInv, CaptureTypeOK, Sessions
<1>13. AgentInv'
  BY <1>4, <1>8, <1>10, <1>11, <1>12, StreamStep
<1>14. QED
  BY <1>1, <1>7, <1>9, <1>11, <1>13

----------------------------------------------------------------------------
(* What every turn keeps *)

LEMMA AgentInitially == Init => AgentInv
<1> SUFFICES ASSUME Init PROVE AgentInv
  OBVIOUS
<1>1. CaptureInv
  BY CaptureInitially DEF Init
<1>2. /\ last_plan_ir \in [session : Sessions \cup {Nothing}, turn : Nat]
      /\ ctx \in [Sessions -> Contexts]
      /\ turn \in [Sessions -> Turns]
  BY NoTurnTyped DEF Init
<1>3. \A s \in Sessions : TurnGood(s, turn[s])
  <2>1. NoTurn.phase = "idle"
    BY DEF NoTurn
  <2>2. QED
    BY <2>1, NoTurnTyped DEF Init, TurnGood, Working
<1>4. \A c \in Sessions : InReach(c) = {}
  BY DEF Init, CaptureInit, InReach, Sessions
<1>5. QED
  BY <1>1, <1>2, <1>3, <1>4 DEF AgentInv

LEMMA AgentSteps ==
  ASSUME PayloadsSuffice, AgentInv, [Next]_vars
  PROVE  AgentInv' /\ [CaptureNext]_captureVars
<1>1. ASSUME NEW s \in Sessions, Plan(s) PROVE AgentInv' /\ UNCHANGED captureVars
  <2>1. AgentInv'
    BY <1>1, StartStep, RejectStep, AcceptStep, ReplyStep, BeginStep DEF Plan
  <2>2. UNCHANGED captureVars
    BY <1>1 DEF Plan, Start, Reject, Accept, ReplyDirectly, Begin
  <2>3. QED
    BY <2>1, <2>2
<1>2. ASSUME NEW s \in Sessions, Prepare(s) PROVE AgentInv' /\ [CaptureNext]_captureVars
  <2>1. CASE Launch(s)
    <3>1. UNCHANGED captureVars
      BY <2>1 DEF Launch
    <3>2. QED
      BY <2>1, <3>1, LaunchStep
  <2>2. CASE Abort(s)
    BY <2>2, EndsStep DEF Abort
  <2>3. CASE Notice(s)
    BY <2>3, EndsStep DEF Notice
  <2>4. CASE CallCommand(s)
    <3>1. [CaptureNext]_captureVars
      BY <2>4 DEF CallCommand, CaptureNext, Sessions
    <3>2. QED
      BY <2>4, <3>1, CallCommandStep
  <2>5. CASE Underfed(s)
    BY <2>5, EndsStep DEF Underfed
  <2>6. QED
    BY <1>2, <2>1, <2>2, <2>3, <2>4, <2>5 DEF Prepare
<1>3. ASSUME NEW s \in Sessions, Handle(s) PROVE AgentInv' /\ [CaptureNext]_captureVars
  <2>1. CASE Finish(s)
    <3>1. UNCHANGED captureVars
      BY <2>1 DEF Finish
    <3>2. QED
      BY <2>1, <3>1, FinishStep
  <2>2. CASE Compare(s)
    <3>1. UNCHANGED captureVars
      BY <2>2 DEF Compare
    <3>2. QED
      BY <2>2, <3>1, CompareStep
  <2>3. CASE RunCommand(s)
    BY <2>3, RunCommandStep
  <2>4. CASE ReturnCommand(s)
    BY <2>4, ReturnCommandStep
  <2>5. QED
    BY <1>3, <2>1, <2>2, <2>3, <2>4 DEF Handle
<1>4. ASSUME NEW s \in Sessions, Break(s) PROVE AgentInv' /\ UNCHANGED captureVars
  <2>1. UNCHANGED captureVars
    BY <1>4 DEF Break
  <2>2. QED
    BY <1>4, <2>1, BreakStep
<1>5. ASSUME NEW s \in Sessions, End(s) PROVE AgentInv' /\ UNCHANGED captureVars
  <2>1. UNCHANGED captureVars
    BY <1>5 DEF End
  <2>2. QED
    BY <1>5, <2>1, EndStep
<1>6. CASE UNCHANGED vars
  <2>1. UNCHANGED captureVars /\ UNCHANGED <<last_plan_ir, ctx, turn>>
    BY <1>6 DEF vars
  <2>2. \A c : InReach(c)' = InReach(c)
    BY <2>1 DEF InReach, captureVars
  <2>3. CaptureInv'
    BY <2>1, CaptureSteps DEF AgentInv
  <2>4. QED
    BY <2>1, <2>2, <2>3 DEF AgentInv
<1>7. QED
  BY <1>1, <1>2, <1>3, <1>4, <1>5, <1>6 DEF Next

\* The capture, the contexts and the turns keep their types and fit together
\* for any sessions and plans: whatever is in reach of a call comes from a step
\* that is over or has just printed.  (executor.py, step_prep.py, _call_cmd)
THEOREM AgentInvariant ==
  ASSUME PayloadsSuffice
  PROVE  Spec => []AgentInv
<1>1. AgentInv /\ [Next]_vars => AgentInv'
  BY AgentSteps
<1>2. QED
  BY <1>1, AgentInitially, PTL DEF Spec

\* Contexts, turns and plans stay of their types.  (executor.py)
THEOREM TypeCorrect ==
  ASSUME PayloadsSuffice
  PROVE  Spec => []TypeOK
<1>1. AgentInv => TypeOK
  BY DEF AgentInv, CaptureInv, TypeOK
<1>2. QED
  BY <1>1, AgentInvariant, PTL

\* The turns of the agent use the capture as CommandCapture has it, so what
\* holds of every caller holds of them.  (_call_cmd in tools/definitions.py)
THEOREM AgentCaptures ==
  ASSUME PayloadsSuffice
  PROVE  Spec => CaptureSpec
<1>1. Init => CaptureInit
  BY DEF Init
<1>2. AgentInv /\ [Next]_vars => [CaptureNext]_captureVars
  BY AgentSteps
<1>3. QED
  BY <1>1, <1>2, AgentInvariant, PTL DEF Spec, CaptureSpec

\* A call of a turn that no other overlaps hears itself.  (_call_cmd)
THEOREM SoloTurns ==
  ASSUME PayloadsSuffice
  PROVE  Spec => []SoloCallIsExact
<1>1. AgentInv => SoloCallIsExact
  BY DEF AgentInv, CaptureInv
<1>2. QED
  BY <1>1, AgentInvariant, PTL

----------------------------------------------------------------------------
(* Whose plan a context keeps *)

\* Only the turn of the session that takes the step changes.
LEMMA OthersStay ==
  ASSUME AgentInv, NEW s \in Sessions, Prepare(s) \/ Handle(s)
  PROVE  /\ UNCHANGED last_plan_ir
         /\ \A r \in Sessions \ {s} : turn'[r] = turn[r]
<1>1. \E t : turn' = [turn EXCEPT ![s] = t]
  BY DEF Prepare, Handle, Launch, Abort, Notice, CallCommand, Underfed, Finish, Compare,
         RunCommand, ReturnCommand, Become
<1>2. UNCHANGED last_plan_ir
  BY DEF Prepare, Handle, Launch, Abort, Notice, CallCommand, Underfed, Finish, Compare,
         RunCommand, ReturnCommand
<1>3. QED
  BY <1>1, <1>2 DEF AgentInv

\* A step of a plan leaves alone what is said of the plan.
LEMMA PlanKept ==
  ASSUME PayloadsSuffice, AgentInv, NEW s \in Sessions, Prepare(s) \/ Handle(s)
  PROVE  LET t == turn[s]
             u == turn'[s]
         IN  /\ t.phase \in Working /\ u.phase \in Working
             /\ u.number = t.number /\ u.overtaken = t.overtaken
             /\ u.ctx.last_plan = t.ctx.last_plan
<1> DEFINE t == turn[s]
           u == turn'[s]
<1>1. t \in Turns
  BY AgentFacts
<1>2. Ready(s) => t.phase \in Working
  BY DEF Ready, Working
<1>3. ASSUME Ready(s), NEW slip \in BOOLEAN, u = After(t, slip)
      PROVE  /\ t.phase \in Working /\ u.phase \in Working
             /\ u.number = t.number /\ u.overtaken = t.overtaken
             /\ u.ctx.last_plan = t.ctx.last_plan
  BY <1>1, <1>2, <1>3, AfterFields DEF Working
<1>4. CASE Launch(s)
  BY <1>2, <1>4, LaunchStep DEF Working, Launch
<1>5. CASE Abort(s)
  BY <1>3, <1>5, EndsStep DEF Abort
<1>6. CASE Notice(s)
  BY <1>3, <1>6, EndsStep DEF Notice
<1>7. CASE CallCommand(s)
  BY <1>2, <1>7, CallCommandStep DEF Working
<1>8. CASE Underfed(s)
  BY <1>3, <1>8, EndsStep DEF Underfed
<1>9. CASE Finish(s)
  BY <1>9, FinishStep DEF Working
<1>10. CASE Compare(s)
  <2>1. Ready(s) /\ StepOf(t) \in AnyStep
    BY <1>10, ReadyFacts DEF Compare
  <2>2. \/ u = After(t, FALSE)
        \/ \E used \in Seq(Energies) : u = Giving(t, FALSE, used)
    BY <1>10, CompareStep
  <2>3. CASE u = After(t, FALSE)
    BY <1>3, <2>1, <2>3
  <2>4. ASSUME NEW used \in Seq(Energies), u = Giving(t, FALSE, used)
        PROVE  /\ t.phase \in Working /\ u.phase \in Working
               /\ u.number = t.number /\ u.overtaken = t.overtaken
               /\ u.ctx.last_plan = t.ctx.last_plan
    <3>1. ASSUME NEW v, NEW slip \in BOOLEAN, v = Giving(t, slip, used)
          PROVE  /\ v.phase = "ready" /\ v.number = t.number /\ v.ctx = t.ctx
                 /\ v.overtaken = t.overtaken
      BY <1>1, <2>1, <2>4, <3>1, GivingFields
    <3>2. QED
      BY <1>2, <2>1, <2>4, <3>1 DEF Working
  <2>5. QED
    BY <2>2, <2>3, <2>4
<1>11. CASE RunCommand(s)
  BY <1>11, RunCommandStep DEF Working
<1>12. CASE ReturnCommand(s)
  BY <1>12, ReturnCommandStep DEF Working
<1>13. QED
  BY <1>4, <1>5, <1>6, <1>7, <1>8, <1>9, <1>10, <1>11, <1>12 DEF Prepare, Handle

PlanGood(t, own, ir) ==
    /\ t.phase = "answered" /\ t.llm /\ ~t.overtaken => ir \in {own, NoPlan}
    /\ t.phase \in Working /\ ~t.overtaken => t.ctx.last_plan = own

\* A session that is over, or has not got an answer, claims nothing.
LEMMA PlanSteps ==
  ASSUME PayloadsSuffice, AgentInv, PlanInv, [Next]_vars
  PROVE  PlanInv'
<1>1. \A r \in Sessions : PlanGood(turn[r], Own(r), last_plan_ir)
  BY DEF PlanInv, PlanGood
<1>2. SUFFICES \A r \in Sessions : PlanGood(turn'[r], Own(r)', last_plan_ir')
  BY DEF PlanInv, PlanGood
<1>3. ASSUME NEW r \in Sessions, turn'[r] = turn[r], last_plan_ir' \in {last_plan_ir, NoPlan}
      PROVE  PlanGood(turn'[r], Own(r)', last_plan_ir')
  BY <1>1, <1>3 DEF PlanGood, Own
<1>4. ASSUME NEW s \in Sessions, Start(s)
      PROVE  \A r \in Sessions : PlanGood(turn'[r], Own(r)', last_plan_ir')
  <2> DEFINE fresh == [NoTurn EXCEPT !.number = turn[s].number + 1, !.ctx = ctx[s],
                                     !.shared = ctx[s].ledger # << >>]
  <2>1. PICK phase \in {"asking", "answered"} :
          turn' = [turn EXCEPT ![s] = [fresh EXCEPT !.phase = phase]]
    BY <1>4 DEF Start, Become
  <2>2. last_plan_ir' \in {last_plan_ir, NoPlan}
    BY <1>4 DEF Start
  <2>3. turn'[s] = [fresh EXCEPT !.phase = phase] /\ \A r \in Sessions \ {s} : turn'[r] = turn[r]
    BY <2>1 DEF AgentInv
  <2>4. turn'[s].phase \notin Working /\ ~turn'[s].llm
    BY <2>3 DEF NoTurn, Working
  <2>5. PlanGood(turn'[s], Own(s)', last_plan_ir')
    BY <2>4 DEF PlanGood
  <2>6. QED
    BY <1>3, <2>2, <2>3, <2>5
<1>5. ASSUME NEW s \in Sessions, Reject(s)
      PROVE  \A r \in Sessions : PlanGood(turn'[r], Own(r)', last_plan_ir')
  <2>1. turn[s].phase = "asking" /\ turn[s] \in Turns /\ ~turn[s].llm
    BY <1>5, AgentFacts DEF Reject, TurnGood
  <2>2. /\ turn'[s] = IF turn[s].attempt = 1 THEN [turn[s] EXCEPT !.attempt = 2]
                      ELSE [turn[s] EXCEPT !.attempt = 1, !.phase = "answered"]
        /\ \A r \in Sessions \ {s} : turn'[r] = turn[r]
        /\ UNCHANGED last_plan_ir
    BY <1>5 DEF Reject, Become, AgentInv
  <2>3. turn'[s].phase \in {"asking", "answered"} /\ ~turn'[s].llm
    BY <2>1, <2>2 DEF Turns
  <2>4. PlanGood(turn'[s], Own(s)', last_plan_ir')
    BY <2>3 DEF PlanGood, Working
  <2>5. QED
    BY <1>3, <2>2, <2>4
<1>6. ASSUME NEW s \in Sessions, NEW r \in Sessions \ {s},
             turn'[r] = [turn[r] EXCEPT !.overtaken = @ \/ turn[r].phase = "answered"]
      PROVE  PlanGood(turn'[r], Own(r)', last_plan_ir')
  <2>1. turn[r] \in Turns
    BY AgentFacts
  <2>2. /\ turn'[r].phase = turn[r].phase /\ turn'[r].number = turn[r].number
        /\ turn'[r].ctx = turn[r].ctx
        /\ turn'[r].overtaken = (turn[r].overtaken \/ turn[r].phase = "answered")
    BY <1>6, <2>1 DEF Turns
  <2>3. PlanGood(turn[r], Own(r), last_plan_ir)
    BY <1>1
  <2>4. Own(r)' = Own(r)
    BY <2>2 DEF Own
  <2>5. QED
    BY <2>2, <2>3, <2>4 DEF PlanGood
<1>7. ASSUME NEW s \in Sessions, Accept(s)
      PROVE  \A r \in Sessions : PlanGood(turn'[r], Own(r)', last_plan_ir')
  <2>1. PICK plan \in PlansOf[s][turn[s].number] :
          turn' = [r \in Sessions |->
             IF r = s
             THEN [turn[s] EXCEPT !.phase = "answered", !.attempt = 1,
                                  !.llm = TRUE, !.steps = plan]
             ELSE [turn[r] EXCEPT !.overtaken = @ \/ turn[r].phase = "answered"]]
    BY <1>7 DEF Accept
  <2>2. turn[s] \in Turns
    BY AgentFacts
  <2>3. turn'[s].phase = "answered" /\ turn'[s].number = turn[s].number
    BY <2>1, <2>2 DEF Turns
  <2>4. last_plan_ir' = Own(s)'
    BY <1>7, <2>3 DEF Accept, Own
  <2>5. PlanGood(turn'[s], Own(s)', last_plan_ir')
    BY <2>3, <2>4 DEF PlanGood, Working
  <2>6. QED
    BY <1>6, <2>1, <2>5
<1>8. ASSUME NEW s \in Sessions, NEW r \in Sessions, turn'[r].phase = "idle"
      PROVE  PlanGood(turn'[r], Own(r)', last_plan_ir')
  BY <1>8 DEF PlanGood, Working
<1>9. ASSUME NEW s \in Sessions, ReplyDirectly(s)
      PROVE  \A r \in Sessions : PlanGood(turn'[r], Own(r)', last_plan_ir')
  <2>1. turn'[s] = Over(s)
        /\ \A r \in Sessions \ {s} :
             turn'[r] = [turn[r] EXCEPT !.overtaken = @ \/ turn[r].phase = "answered"]
    BY <1>9 DEF ReplyDirectly
  <2>2. QED
    BY <1>6, <1>8, <2>1, OverGood
<1>10. ASSUME NEW s \in Sessions, Break(s) \/ End(s)
       PROVE  \A r \in Sessions : PlanGood(turn'[r], Own(r)', last_plan_ir')
  <2>1. turn' = [turn EXCEPT ![s] = Over(s)] /\ UNCHANGED last_plan_ir
    BY <1>10 DEF Break, End, Become
  <2>2. turn'[s] = Over(s) /\ \A r \in Sessions \ {s} : turn'[r] = turn[r]
    BY <2>1 DEF AgentInv
  <2>3. QED
    BY <1>3, <1>8, <2>1, <2>2, OverGood
<1>11. ASSUME NEW s \in Sessions, Begin(s)
       PROVE  \A r \in Sessions : PlanGood(turn'[r], Own(r)', last_plan_ir')
  <2> DEFINE ir == PlanIR(s, turn[s].llm)
             context == [turn[s].ctx EXCEPT !.last_plan = ir]
  <2>1. PICK plan : turn' = [turn EXCEPT ![s] = [turn[s] EXCEPT
                   !.phase = "ready", !.llm = FALSE, !.steps = plan,
                   !.ctx.last_plan = PlanIR(s, turn[s].llm)]]
    <3>1. PICK plan \in (IF turn[s].llm THEN {turn[s].steps} ELSE PlansOf[s][turn[s].number]) :
            Become(s, [turn[s] EXCEPT !.phase = "ready", !.llm = FALSE, !.steps = plan,
                                      !.ctx.last_plan = PlanIR(s, turn[s].llm)])
      BY <1>11 DEF Begin
    <3>2. QED
      BY <3>1 DEF Become
  <2>2. /\ turn[s].phase = "answered" /\ UNCHANGED last_plan_ir
        /\ turn[s] \in Turns /\ turn[s].ctx \in Contexts
    BY <1>11, AgentFacts DEF Begin, Turns
  <2>3. /\ turn'[s] = [turn[s] EXCEPT !.phase = "ready", !.llm = FALSE, !.steps = plan,
                                      !.ctx = context]
        /\ \A r \in Sessions \ {s} : turn'[r] = turn[r]
    BY <2>1 DEF AgentInv
  <2>4. context.last_plan = ir
    BY <2>2 DEF Contexts
  <2>5. ~turn[s].overtaken => ir = Own(s)
    BY <1>1, <2>2 DEF PlanIR, PlanGood
  <2> HIDE DEF context, ir
  <2>6. /\ turn'[s].phase = "ready" /\ turn'[s].ctx = context
        /\ turn'[s].number = turn[s].number /\ turn'[s].overtaken = turn[s].overtaken
    BY <2>2, <2>3 DEF Turns
  <2>7. Own(s)' = Own(s)
    BY <2>6 DEF Own
  <2>8. PlanGood(turn'[s], Own(s)', last_plan_ir')
    BY <2>4, <2>5, <2>6, <2>7 DEF PlanGood
  <2>9. QED
    BY <1>3, <2>2, <2>3, <2>8
<1>12. ASSUME NEW s \in Sessions, Prepare(s) \/ Handle(s)
       PROVE  \A r \in Sessions : PlanGood(turn'[r], Own(r)', last_plan_ir')
  <2>1. /\ turn[s].phase \in Working /\ turn'[s].phase \in Working
        /\ turn'[s].number = turn[s].number /\ turn'[s].overtaken = turn[s].overtaken
        /\ turn'[s].ctx.last_plan = turn[s].ctx.last_plan
    BY <1>12, PlanKept
  <2>2. UNCHANGED last_plan_ir /\ \A r \in Sessions \ {s} : turn'[r] = turn[r]
    BY <1>12, OthersStay
  <2>3. PlanGood(turn[s], Own(s), last_plan_ir) /\ Own(s)' = Own(s)
    BY <1>1, <2>1 DEF Own
  <2>4. PlanGood(turn'[s], Own(s)', last_plan_ir')
    BY <2>1, <2>3 DEF PlanGood, Working
  <2>5. QED
    BY <1>3, <2>2, <2>4
<1>13. CASE UNCHANGED vars
  BY <1>3, <1>13 DEF vars
<1>14. QED
  BY <1>4, <1>5, <1>7, <1>9, <1>10, <1>11, <1>12, <1>13 DEF Next, Plan

\* A context keeps the plan of its own turn unless another session's planner
\* ended between this one's end and its reading, for any sessions and plans.
\* (executor.py reads llm_planner.last_plan_ir after the await.)
THEOREM ForeignPlan ==
  ASSUME PayloadsSuffice
  PROVE  Spec => []ForeignPlanHasCause
<1>1. Init => PlanInv
  <2>1. NoTurn.phase = "idle"
    BY DEF NoTurn
  <2>2. QED
    BY <2>1 DEF Init, PlanInv, Working
<1>2. AgentInv /\ PlanInv /\ [Next]_vars => PlanInv'
  BY PlanSteps
<1>3. AgentInv /\ PlanInv => ForeignPlanHasCause
  <2>1. SUFFICES ASSUME AgentInv, PlanInv, NEW s \in Sessions,
                        turn[s].phase \notin {"idle", "asking", "answered"},
                        ~turn[s].overtaken
                 PROVE  turn[s].ctx.last_plan = Own(s)
    BY DEF ForeignPlanHasCause
  <2>2. turn[s].phase \in Phases
    BY <2>1, AgentFacts DEF Turns
  <2>3. turn[s].phase \in Working
    BY <2>1, <2>2 DEF Phases, Working
  <2>4. QED
    BY <2>1, <2>3 DEF PlanInv
<1>4. QED
  BY <1>1, <1>2, <1>3, AgentInvariant, PTL DEF Spec

----------------------------------------------------------------------------
(* What a result is about *)

LEMMA RunsCounted ==
  ASSUME NEW plan, NEW k \in Nat
  PROVE  IsFiniteSet(RunsBefore(plan, k)) /\ Nth(plan, k) \in Nat
<1>1. IsFiniteSet(1 .. k - 1)
  BY FS_Interval
<1>2. RunsBefore(plan, k) \subseteq 1 .. k - 1
  BY DEF RunsBefore
<1>3. IsFiniteSet(RunsBefore(plan, k))
  BY <1>1, <1>2, FS_Subset
<1>4. QED
  BY <1>3, FS_CardinalityType DEF Nth

\* Runs are counted in the order of their steps.
LEMMA RunsOrdered ==
  ASSUME NEW plan, NEW k \in Nat, NEW j \in RunsBefore(plan, k)
  PROVE  j \in Nat /\ Nth(plan, j) \in Nat /\ Nth(plan, j) + 1 <= Nth(plan, k)
<1>1. j \in 1 .. k - 1 /\ j \in Nat /\ plan[j].tool = "graph.run"
  BY DEF RunsBefore
<1>2. RunsBefore(plan, j) \cup {j} \subseteq RunsBefore(plan, k)
  BY <1>1 DEF RunsBefore
<1>3. j \notin RunsBefore(plan, j)
  BY <1>1 DEF RunsBefore
<1>4. IsFiniteSet(RunsBefore(plan, j)) /\ IsFiniteSet(RunsBefore(plan, k))
  BY <1>1, RunsCounted
<1>5. Cardinality(RunsBefore(plan, j) \cup {j}) = Cardinality(RunsBefore(plan, j)) + 1
  BY <1>3, <1>4, FS_AddElement
<1>6. Cardinality(RunsBefore(plan, j) \cup {j}) <= Cardinality(RunsBefore(plan, k))
  BY <1>2, <1>4, FS_Subset
<1>7. QED
  BY <1>1, <1>5, <1>6, RunsCounted DEF Nth

\* One step further.
LEMMA RunsNext ==
  ASSUME NEW plan, NEW k \in Nat \ {0}
  PROVE  /\ plan[k].tool = "graph.run" =>
              /\ RunsBefore(plan, k + 1) = RunsBefore(plan, k) \cup {k}
              /\ Nth(plan, k + 1) = Nth(plan, k) + 1
         /\ plan[k].tool # "graph.run" =>
              /\ RunsBefore(plan, k + 1) = RunsBefore(plan, k)
              /\ Nth(plan, k + 1) = Nth(plan, k)
<1>1. 1 .. k + 1 - 1 = (1 .. k - 1) \cup {k} /\ k \notin 1 .. k - 1
  OBVIOUS
<1>2. CASE plan[k].tool = "graph.run"
  <2>1. RunsBefore(plan, k + 1) = RunsBefore(plan, k) \cup {k} /\ k \notin RunsBefore(plan, k)
    BY <1>1, <1>2 DEF RunsBefore
  <2>2. Cardinality(RunsBefore(plan, k) \cup {k}) = Cardinality(RunsBefore(plan, k)) + 1
    BY <2>1, RunsCounted, FS_AddElement
  <2>3. QED
    BY <1>2, <2>1, <2>2 DEF Nth
<1>3. CASE plan[k].tool # "graph.run"
  <2>1. RunsBefore(plan, k + 1) = RunsBefore(plan, k)
    BY <1>1, <1>3 DEF RunsBefore
  <2>2. QED
    BY <1>3, <2>1 DEF Nth
<1>4. QED
  BY <1>2, <1>3

LEMMA LatestNext ==
  ASSUME NEW plan, NEW k \in Nat \ {0}, NEW tool, NEW j \in Nat
  PROVE  /\ Latest(tool, plan, j, k + 1) =>
              \/ j = k /\ plan[k].tool = tool
              \/ Latest(tool, plan, j, k) /\ plan[k].tool # tool
         /\ Without(tool, plan, 0, k + 1) => Without(tool, plan, 0, k) /\ plan[k].tool # tool
<1>1. k \in 0 + 1 .. k + 1 - 1 /\ \A i \in 0 + 1 .. k - 1 : i \in 0 + 1 .. k + 1 - 1
  OBVIOUS
<1>2. Without(tool, plan, 0, k + 1) => Without(tool, plan, 0, k) /\ plan[k].tool # tool
  BY <1>1 DEF Without
<1>3. ASSUME Latest(tool, plan, j, k + 1), j # k
      PROVE  Latest(tool, plan, j, k) /\ plan[k].tool # tool
  <2>1. j \in 1 .. k - 1 /\ k \in j + 1 .. k + 1 - 1
        /\ \A i \in j + 1 .. k - 1 : i \in j + 1 .. k + 1 - 1
    BY <1>3 DEF Latest
  <2>2. QED
    BY <1>3, <2>1 DEF Latest, Without
<1>4. Latest(tool, plan, j, k + 1) => plan[j].tool = tool
  BY DEF Latest
<1>5. QED
  BY <1>2, <1>3, <1>4

\* What is in hand before the first step.
LEMMA InHandFirst ==
  ASSUME NEW plan, NEW source, NEW ledger
  PROVE  InHand(plan, 1, Nothing, source, << >>, ledger)
<1>1. RunsBefore(plan, 1) = {}
  BY DEF RunsBefore
<1>2. Nth(plan, 1) = 0
  BY <1>1, FS_EmptySet DEF Nth
<1>3. \A tool, j : ~Latest(tool, plan, j, 1)
  BY DEF Latest
<1>4. QED
  BY <1>1, <1>2, <1>3 DEF InHand

\* A step that is no run leaves the energies and the ledger alone.
LEMMA RunsKept ==
  ASSUME NEW plan, NEW k \in Nat \ {0}, plan[k].tool # "graph.run",
         NEW built, NEW source, NEW energies, NEW ledger,
         InHand(plan, k, built, source, energies, ledger),
         NEW other, NEW second,
         Without("structure.build", plan, 0, k + 1) =>
             /\ other = Nothing
             /\ \A j \in 1 .. Len(plan) :
                  Latest("structure.import", plan, j, k + 1) => second = plan[j].means[1],
         \A j \in 1 .. Len(plan) :
             Latest("structure.build", plan, j, k + 1) => other = plan[j].means[1]
  PROVE  InHand(plan, k + 1, other, second, energies, ledger)
  BY RunsNext DEF InHand

\* A build is chained ...
LEMMA InHandBuild ==
  ASSUME NEW plan, Len(plan) \in Nat, NEW k \in Nat \ {0}, plan[k].tool = "structure.build",
         NEW built, NEW source, NEW energies, NEW ledger,
         InHand(plan, k, built, source, energies, ledger)
  PROVE  InHand(plan, k + 1, plan[k].means[1], plan[k].means[1], energies, ledger)
<1>1. ~Without("structure.build", plan, 0, k + 1)
  BY LatestNext
<1>2. ASSUME NEW j \in 1 .. Len(plan), Latest("structure.build", plan, j, k + 1)
      PROVE  j = k
  <2>1. j \in Nat
    OBVIOUS
  <2>2. QED
    BY <1>2, <2>1, LatestNext
<1> DEFINE system == plan[k].means[1]
<1>3. \A j \in 1 .. Len(plan) :
         Latest("structure.build", plan, j, k + 1) => system = plan[j].means[1]
  BY <1>2
<1> HIDE DEF system
<1>4. plan[k].tool # "graph.run"
  OBVIOUS
<1>5. InHand(plan, k + 1, system, system, energies, ledger)
  BY <1>1, <1>3, <1>4, RunsKept
<1>6. QED
  BY <1>5 DEF system

\* ... and so is an import, where nothing was built.
LEMMA InHandImport ==
  ASSUME NEW plan, Len(plan) \in Nat, NEW k \in Nat \ {0}, plan[k].tool = "structure.import",
         NEW built, NEW source, NEW energies, NEW ledger,
         InHand(plan, k, built, source, energies, ledger)
  PROVE  InHand(plan, k + 1, built, plan[k].means[1], energies, ledger)
<1>1. Without("structure.build", plan, 0, k + 1) => built = Nothing
  BY LatestNext DEF InHand
<1>2. ASSUME NEW j \in 1 .. Len(plan), Latest("structure.import", plan, j, k + 1)
      PROVE  j = k
  <2>1. j \in Nat
    OBVIOUS
  <2>2. QED
    BY <1>2, <2>1, LatestNext
<1>3. \A j \in 1 .. Len(plan) :
         Latest("structure.build", plan, j, k + 1) => Latest("structure.build", plan, j, k)
  BY LatestNext
<1> DEFINE system == plan[k].means[1]
<1>4. \A j \in 1 .. Len(plan) :
         Latest("structure.import", plan, j, k + 1) => system = plan[j].means[1]
  BY <1>2
<1>5. \A j \in 1 .. Len(plan) :
         Latest("structure.build", plan, j, k + 1) => built = plan[j].means[1]
  BY <1>3 DEF InHand
<1> HIDE DEF system
<1>6. plan[k].tool # "graph.run"
  OBVIOUS
<1>7. InHand(plan, k + 1, built, system, energies, ledger)
  BY <1>1, <1>4, <1>5, <1>6, RunsKept
<1>8. QED
  BY <1>7 DEF system

\* Nothing else changes the structures.
LEMMA StructuresKept ==
  ASSUME NEW plan, Len(plan) \in Nat, NEW k \in Nat \ {0}, plan[k].tool \notin Builds,
         NEW built, NEW source, NEW energies, NEW ledger,
         InHand(plan, k, built, source, energies, ledger)
  PROVE  /\ Without("structure.build", plan, 0, k + 1) =>
              /\ built = Nothing
              /\ \A j \in 1 .. Len(plan) :
                   Latest("structure.import", plan, j, k + 1) => source = plan[j].means[1]
         /\ \A j \in 1 .. Len(plan) :
              Latest("structure.build", plan, j, k + 1) => built = plan[j].means[1]
<1>1. \A tool \in Builds : \A j \in 1 .. Len(plan) :
         Latest(tool, plan, j, k + 1) => Latest(tool, plan, j, k)
  BY LatestNext
<1>2. Without("structure.build", plan, 0, k + 1) => Without("structure.build", plan, 0, k)
  BY LatestNext
<1>3. QED
  BY <1>1, <1>2 DEF InHand, Builds

LEMMA InHandOther ==
  ASSUME NEW plan, Len(plan) \in Nat, NEW k \in Nat \ {0},
         plan[k].tool \notin Builds \cup {"graph.run"},
         NEW built, NEW source, NEW energies, NEW ledger,
         InHand(plan, k, built, source, energies, ledger)
  PROVE  InHand(plan, k + 1, built, source, energies, ledger)
  BY StructuresKept, RunsKept

\* A run adds its energy and its record.
LEMMA InHandRun ==
  ASSUME NEW plan, Len(plan) \in Nat, NEW k \in Nat \ {0}, plan[k].tool = "graph.run",
         NEW built, NEW source, NEW energies \in Seq(Energies), NEW ledger \in Seq(Systems),
         InHand(plan, k, built, source, energies, ledger),
         NEW system \in Systems, system = plan[k].means[1]
  PROVE  InHand(plan, k + 1, built, source, energies \o <<system>>,
                LastOf(Append(ledger, system)))
<1> DEFINE more == energies \o <<system>>
           appended == Append(ledger, system)
           kept == LastOf(appended)
           runs == Nth(plan, k)
<1>1. LedgerSize \in Nat /\ LedgerSize >= 1 /\ runs \in Nat /\ Len(energies) = runs
  BY AgentAssumption, RunsCounted DEF InHand
<1>2. /\ RunsBefore(plan, k + 1) = RunsBefore(plan, k) \cup {k}
      /\ Nth(plan, k + 1) = runs + 1
  BY RunsNext
<1>3. /\ Len(more) = runs + 1 /\ more[runs + 1] = system
      /\ \A i \in 1 .. runs : more[i] = energies[i]
  BY <1>1 DEF Energies
<1>4. /\ appended \in Seq(Systems) /\ Len(appended) = Len(ledger) + 1
      /\ appended[Len(ledger) + 1] = system /\ Len(ledger) \in Nat
      /\ \A i \in 1 .. Len(ledger) : appended[i] = ledger[i]
  BY AppendProperties, LenProperties
<1> HIDE DEF appended, more, runs
<1>5. /\ kept \in Seq(Systems) /\ Len(kept) \in Nat
      /\ Len(kept) = IF Len(appended) > LedgerSize THEN LedgerSize ELSE Len(appended)
      /\ \A i \in 1 .. Len(kept) : kept[Len(kept) - i + 1] = appended[Len(appended) - i + 1]
  <2>1. /\ LastOf(appended) \in Seq(Systems)
        /\ Len(LastOf(appended)) = IF Len(appended) > LedgerSize THEN LedgerSize
                                                                 ELSE Len(appended)
        /\ \A i \in 1 .. Len(LastOf(appended)) :
             LastOf(appended)[Len(LastOf(appended)) - i + 1] = appended[Len(appended) - i + 1]
    BY <1>4, LastOfFacts
  <2>2. Len(LastOf(appended)) \in Nat
    BY <2>1
  <2>3. QED
    BY <2>1, <2>2
<1> HIDE DEF kept
<1>6. ASSUME NEW j \in RunsBefore(plan, k + 1)
      PROVE  LET back == (runs + 1) - Nth(plan, j) IN
             /\ more[Nth(plan, j) + 1] = plan[j].means[1]
             /\ back <= LedgerSize =>
                  /\ Len(kept) >= back
                  /\ kept[Len(kept) - back + 1] = plan[j].means[1]
  <2>1. CASE j = k
    <3>1. (runs + 1) - Nth(plan, j) = 1 /\ Nth(plan, j) = runs
      BY <1>1, <2>1 DEF runs
    <3>2. Len(kept) >= 1
      BY <1>1, <1>4, <1>5
    <3>3. kept[Len(kept) - 1 + 1] = appended[Len(appended) - 1 + 1]
      BY <1>5, <3>2
    <3>4. appended[Len(appended) - 1 + 1] = system
      BY <1>4
    <3>5. QED
      BY <1>3, <2>1, <3>1, <3>2, <3>3, <3>4
  <2>2. CASE j # k
    <3> DEFINE back == runs - Nth(plan, j)
               next == (runs + 1) - Nth(plan, j)
    <3>1. j \in RunsBefore(plan, k)
      BY <1>2, <1>6, <2>2
    <3>2. Nth(plan, j) \in Nat /\ Nth(plan, j) + 1 <= runs
      BY <3>1, RunsOrdered DEF runs
    <3>3. /\ energies[Nth(plan, j) + 1] = plan[j].means[1]
          /\ back <= LedgerSize =>
               /\ Len(ledger) >= back
               /\ ledger[Len(ledger) - back + 1] = plan[j].means[1]
      BY <3>1 DEF InHand, runs
    <3>4. more[Nth(plan, j) + 1] = plan[j].means[1]
      BY <1>1, <1>3, <3>2, <3>3
    <3>5. ASSUME next <= LedgerSize
          PROVE  Len(kept) >= next /\ kept[Len(kept) - next + 1] = plan[j].means[1]
      <4>1. back \in Nat /\ back >= 1 /\ next = back + 1 /\ back <= LedgerSize
        BY <1>1, <3>2, <3>5
      <4>2. Len(ledger) >= back /\ ledger[Len(ledger) - back + 1] = plan[j].means[1]
        BY <3>3, <4>1
      <4> HIDE DEF back, next
      <4>3. Len(kept) >= next
        BY <1>1, <1>4, <1>5, <3>5, <4>1, <4>2
      <4>4. kept[Len(kept) - next + 1] = appended[Len(appended) - next + 1]
        BY <1>5, <4>1, <4>3
      <4>5. Len(appended) - next + 1 = Len(ledger) - back + 1
            /\ Len(ledger) - back + 1 \in 1 .. Len(ledger)
        BY <1>4, <4>1, <4>2
      <4>6. QED
        BY <1>4, <4>2, <4>3, <4>4, <4>5
    <3>6. QED
      BY <3>4, <3>5
  <2>3. QED
    BY <2>1, <2>2
<1>7. plan[k].tool \notin Builds
  BY DEF Builds
<1>8. /\ Without("structure.build", plan, 0, k + 1) =>
           /\ built = Nothing
           /\ \A j \in 1 .. Len(plan) :
                Latest("structure.import", plan, j, k + 1) => source = plan[j].means[1]
      /\ \A j \in 1 .. Len(plan) :
           Latest("structure.build", plan, j, k + 1) => built = plan[j].means[1]
  BY <1>7, StructuresKept
<1>9. ASSUME NEW j \in RunsBefore(plan, k + 1)
      PROVE  LET back == Nth(plan, k + 1) - Nth(plan, j) IN
             /\ more[Nth(plan, j) + 1] = plan[j].means[1]
             /\ back <= LedgerSize =>
                  /\ Len(kept) >= back
                  /\ kept[Len(kept) - back + 1] = plan[j].means[1]
  BY <1>2, <1>6, <1>9
<1>10. Len(more) = Nth(plan, k + 1)
  BY <1>2, <1>3
<1>11. InHand(plan, k + 1, built, source, more, kept)
  BY <1>8, <1>9, <1>10 DEF InHand
<1>12. QED
  BY <1>11 DEF more, appended, kept

\* The workflows of the planners, at the step a turn is at.
LEMMA LinkedHere ==
  ASSUME PlansLinked, NEW s \in Sessions, NEW t, TurnGood(s, t), t.phase \in Working,
         t.at <= Len(t.steps)
  PROVE  /\ Linked(t.steps, t.at) /\ Len(t.steps) \in Nat /\ t.at \in Nat \ {0}
         /\ t.at \in 1 .. Len(t.steps)
         /\ t.ctx.ledger \in Seq(Systems) /\ t.scf_energies \in Seq(Energies)
<1>1. /\ t \in Turns /\ t.number \in 1 .. Len(PlansOf[s])
      /\ t.steps \in PlansOf[s][t.number]
      /\ Len(t.steps) \in Nat /\ t.at \in Nat /\ t.at >= 1
  BY CurrentStep
<1>2. t.at \in 1 .. Len(t.steps)
  BY <1>1
<1>3. t.ctx.ledger \in Seq(Systems) /\ t.scf_energies \in Seq(Energies)
  BY <1>1 DEF Turns, Contexts
<1>4. QED
  BY <1>1, <1>2, <1>3 DEF PlansLinked

\* A run is given the structure it is about, or the material it names.
LEMMA LinkedStructure ==
  ASSUME NEW plan, NEW k \in 1 .. Len(plan), Len(plan) \in Nat, Linked(plan, k),
         plan[k].tool = "graph.run", plan[k].means \in Seq(Systems), Len(plan[k].means) = 1,
         ~plan[k].names,
         NEW built, NEW source, NEW energies, NEW ledger,
         InHand(plan, k, built, source, energies, ledger)
  PROVE  (IF built # Nothing THEN built ELSE source) = plan[k].means[1]
<1>1. PICK j \in 1 .. k - 1 :
        /\ plan[j].means = plan[k].means
        /\ \/ Latest("structure.build", plan, j, k)
           \/ /\ Without("structure.build", plan, 0, k)
              /\ Latest("structure.import", plan, j, k)
  BY DEF Linked
<1>2. j \in 1 .. Len(plan) /\ plan[k].means[1] \in Systems
  OBVIOUS
<1>3. CASE Latest("structure.build", plan, j, k)
  <2>1. built = plan[k].means[1]
    BY <1>1, <1>2, <1>3 DEF InHand
  <2>2. QED
    BY <1>2, <2>1, AgentAssumption
<1>4. CASE /\ Without("structure.build", plan, 0, k)
           /\ Latest("structure.import", plan, j, k)
  BY <1>1, <1>2, <1>4 DEF InHand
<1>5. QED
  BY <1>1, <1>3, <1>4

\* thermo.eads and thermo.formation are given the energies they are about.
LEMMA LinkedEnergies ==
  ASSUME NEW plan, NEW k \in 1 .. Len(plan), Len(plan) \in Nat, Linked(plan, k),
         plan[k].tool \in {"thermo.eads", "thermo.formation"}, plan[k].means \in Seq(Systems),
         NEW built, NEW source, NEW energies \in Seq(Energies), NEW ledger,
         InHand(plan, k, built, source, energies, ledger),
         NEW n \in Nat, n = Len(plan[k].means), n <= Len(energies),
         NEW first \in Nat,
         plan[k].tool = "thermo.eads" => first + n = Len(energies),
         plan[k].tool = "thermo.formation" => first = 0
  PROVE  SubSeq(energies, first + 1, first + n) = plan[k].means
<1> DEFINE means == plan[k].means
           q == SubSeq(energies, first + 1, first + n)
<1>1. Len(energies) = Nth(plan, k) /\ Len(energies) \in Nat /\ first + n <= Len(energies)
  BY DEF InHand
<1>2. ASSUME NEW i \in 1 .. n
      PROVE  energies[first + i] = means[i]
  <2>1. PICK j \in RunsBefore(plan, k) :
          Nth(plan, j) = first + i - 1 /\ plan[j].means = <<means[i]>>
    <3>1. CASE plan[k].tool = "thermo.eads"
      <4>1. PICK j \in RunsBefore(plan, k) :
              Nth(plan, j) = Nth(plan, k) - Len(means) + i - 1 /\ plan[j].means = <<means[i]>>
        BY <3>1 DEF Linked
      <4>2. Nth(plan, k) - Len(means) + i - 1 = first + i - 1
        BY <1>1, <3>1
      <4>3. QED
        BY <4>1, <4>2
    <3>2. CASE plan[k].tool = "thermo.formation"
      <4>1. PICK j \in RunsBefore(plan, k) : Nth(plan, j) = i - 1 /\ plan[j].means = <<means[i]>>
        BY <3>2 DEF Linked
      <4>2. i - 1 = first + i - 1
        BY <3>2
      <4>3. QED
        BY <4>1, <4>2
    <3>3. QED
      BY <3>1, <3>2
  <2>2. energies[Nth(plan, j) + 1] = plan[j].means[1]
    BY DEF InHand
  <2>3. Nth(plan, j) + 1 = first + i
    BY <2>1
  <2>4. QED
    BY <2>1, <2>2, <2>3
<1>3. \A i \in first + 1 .. first + n : energies[i] \in Energies
  BY <1>1
<1>4. /\ q \in Seq(Energies) /\ Len(q) = n
      /\ \A i \in 1 .. n : q[i] = energies[first + i]
  <2>1. /\ q \in Seq(Energies)
        /\ Len(q) = IF first + 1 <= first + n THEN first + n - (first + 1) + 1 ELSE 0
        /\ \A i \in 1 .. first + n - (first + 1) + 1 : q[i] = energies[first + 1 + i - 1]
    BY <1>3, SubSeqProperties
  <2>2. first + n - (first + 1) + 1 = n /\ (first + 1 <= first + n <=> n # 0)
    OBVIOUS
  <2>3. \A i \in 1 .. n : first + 1 + i - 1 = first + i
    OBVIOUS
  <2>4. QED
    BY <2>1, <2>2, <2>3
<1> HIDE DEF q, means
<1>5. q = means
  BY <1>2, <1>4, SeqEqual, SystemsAreEnergies DEF means
<1>6. QED
  BY <1>5 DEF q, means

\* analysis.compare is given the records it is about.
LEMMA LinkedRecords ==
  ASSUME NEW plan, NEW k \in 1 .. Len(plan), Len(plan) \in Nat, Linked(plan, k),
         plan[k].tool = "analysis.compare", plan[k].means \in Seq(Systems),
         NEW built, NEW source, NEW energies, NEW ledger \in Seq(Systems),
         InHand(plan, k, built, source, energies, ledger),
         NEW n \in Nat, n = Len(plan[k].means), n <= Len(ledger)
  PROVE  SubSeq(ledger, Len(ledger) - n + 1, Len(ledger)) = plan[k].means
<1> DEFINE means == plan[k].means
           size == Len(ledger)
           q == SubSeq(ledger, size - n + 1, size)
           runs == Nth(plan, k)
<1>1. runs \in Nat /\ size \in Nat /\ n <= LedgerSize /\ LedgerSize \in Nat
  BY RunsCounted, AgentAssumption DEF Linked
<1>2. ASSUME NEW i \in 1 .. n
      PROVE  ledger[size - n + i] = means[i]
  <2>1. PICK j \in RunsBefore(plan, k) :
          Nth(plan, j) = runs - Len(means) + i - 1 /\ plan[j].means = <<means[i]>>
    BY DEF Linked
  <2>2. Nth(plan, j) \in Nat
    BY RunsOrdered
  <2> DEFINE back == runs - Nth(plan, j)
  <2>3. back = n - i + 1 /\ back <= LedgerSize
    BY <1>1, <2>1, <2>2, SMTT(20)
  <2>4. ledger[Len(ledger) - back + 1] = plan[j].means[1]
    BY <2>3 DEF InHand
  <2> DEFINE place == Len(ledger) - back + 1
  <2>5. ledger[place] = plan[j].means[1]
    BY <2>4
  <2> HIDE DEF back
  <2>6. place = size - n + i
    BY <1>1, <1>2, <2>3
  <2>7. plan[j].means[1] = means[i]
    BY <2>1
  <2> HIDE DEF place
  <2>8. ledger[place] = means[i]
    BY <2>5, <2>7
  <2>9. QED
    BY <2>6, <2>8
<1>3. \A i \in size - n + 1 .. size : ledger[i] \in Systems
  BY <1>1
<1>4. /\ q \in Seq(Systems) /\ Len(q) = n
      /\ \A i \in 1 .. n : q[i] = ledger[size - n + i]
  <2> DEFINE m == size - n + 1
  <2>1. m \in Int /\ size \in Int /\ q = SubSeq(ledger, m, size)
        /\ \A i \in m .. size : ledger[i] \in Systems
    BY <1>1, <1>3
  <2>2. /\ (IF m <= size THEN size - m + 1 ELSE 0) = n /\ size - m + 1 = n
        /\ \A i \in 1 .. n : m + i - 1 = size - n + i
    BY <1>1
  <2> HIDE DEF m, q, size
  <2>3. /\ q \in Seq(Systems)
        /\ Len(q) = IF m <= size THEN size - m + 1 ELSE 0
        /\ \A i \in 1 .. size - m + 1 : q[i] = ledger[m + i - 1]
    BY <2>1, SubSeqProperties
  <2>4. QED
    BY <2>2, <2>3
<1> HIDE DEF q, means, size
<1>5. q = means
  BY <1>2, <1>4, SeqEqual DEF means
<1>6. QED
  BY <1>5 DEF q, means, size

\* A step that is neither a build nor a run leaves a turn on track.
LEMMA OnTrackAfter ==
  ASSUME PlansLinked, NEW s \in Sessions, NEW t, TurnGood(s, t), t.phase \in Working,
         t.at <= Len(t.steps), OnTrack(t), StepOf(t).tool \notin Builds \cup {"graph.run"},
         NEW u, u.phase = "ready", u.at = t.at + 1, u.steps = t.steps, u.ctx = t.ctx,
         u.built_structure = t.built_structure, u.scf_energies = t.scf_energies,
         ~u.slipped => ~t.slipped,
         ~u.slipped /\ u.result # Nothing => u.result.used = u.result.means
  PROVE  OnTrack(u)
<1>1. SUFFICES ASSUME ~u.slipped
               PROVE  InHand(u.steps, u.at, u.built_structure, u.ctx.source, u.scf_energies,
                             u.ctx.ledger)
  BY DEF OnTrack, Working
<1>2. InHand(t.steps, t.at, t.built_structure, t.ctx.source, t.scf_energies, t.ctx.ledger)
  BY <1>1 DEF OnTrack
<1>3. Len(t.steps) \in Nat /\ t.at \in Nat \ {0}
  BY LinkedHere
<1>4. QED
  BY <1>2, <1>3, InHandOther DEF StepOf

LEMMA OnTrackEnds ==
  ASSUME PlansLinked, AgentInv, NEW s \in Sessions, OnTrack(turn[s]), Ready(s),
         NEW slip \in BOOLEAN, NEW u, u = After(turn[s], slip),
         slip \/ Step(s).tool \notin Builds \cup {"graph.run"}
  PROVE  OnTrack(u)
<1> DEFINE t == turn[s]
<1>1. /\ t \in Turns /\ TurnGood(s, t) /\ t.phase \in Working /\ t.at <= Len(t.steps)
      /\ Step(s) = StepOf(t)
  BY ReadyFacts
<1>2. /\ u.phase = "ready" /\ u.at = t.at + 1 /\ u.steps = t.steps /\ u.ctx = t.ctx
      /\ u.built_structure = t.built_structure /\ u.scf_energies = t.scf_energies
      /\ u.slipped = (t.slipped \/ slip) /\ u.result = Nothing
  BY <1>1, AfterFields
<1>3. CASE slip
  BY <1>2, <1>3 DEF OnTrack
<1>4. CASE StepOf(t).tool \notin Builds \cup {"graph.run"}
  BY <1>1, <1>2, <1>4, OnTrackAfter
<1>5. QED
  BY <1>1, <1>3, <1>4

LEMMA LaunchOnTrack ==
  ASSUME PlansLinked, AgentInv, NEW s \in Sessions, OnTrack(turn[s]), Launch(s)
  PROVE  OnTrack(turn'[s])
<1> DEFINE t == turn[s]
           u == turn'[s]
           found == EffectiveStructure(t)
<1>1. /\ Step(s).tool = "graph.run" /\ Len(Step(s).means) = 1
      /\ u.phase = "running" /\ u.at = t.at /\ u.steps = t.steps /\ u.ctx = t.ctx
      /\ u.built_structure = t.built_structure /\ u.scf_energies = t.scf_energies
      /\ u.result = Nothing
      /\ ~u.slipped => ~t.slipped /\ (found = Nothing \/ ~Step(s).names)
      /\ found # Nothing \/ Step(s).names
      /\ u.args = IF found # Nothing THEN <<found>> ELSE Step(s).means
  BY LaunchStep
<1>2. /\ t \in Turns /\ TurnGood(s, t) /\ t.phase \in Working /\ t.at <= Len(t.steps)
      /\ Step(s) = StepOf(t) /\ Step(s).means \in Seq(Systems)
  BY ReadyFacts DEF Launch, AnyStep
<1>3. StepOf(u) = StepOf(t) /\ StepOf(t) = t.steps[t.at]
  BY <1>1 DEF StepOf
<1>4. SUFFICES ASSUME ~u.slipped
               PROVE  /\ InHand(t.steps, t.at, t.built_structure, t.ctx.source,
                                t.scf_energies, t.ctx.ledger)
                      /\ u.args = StepOf(t).means
  BY <1>1, <1>3 DEF OnTrack, Working
<1>5. InHand(t.steps, t.at, t.built_structure, t.ctx.source, t.scf_energies, t.ctx.ledger)
  BY <1>1, <1>2, <1>4 DEF OnTrack
<1>6. CASE found # Nothing
  <2>1. ~t.steps[t.at].names
    BY <1>1, <1>2, <1>3, <1>4, <1>6
  <2>2. /\ t.at \in 1 .. Len(t.steps) /\ Len(t.steps) \in Nat /\ Linked(t.steps, t.at)
        /\ t.steps[t.at].tool = "graph.run" /\ t.steps[t.at].means \in Seq(Systems)
        /\ Len(t.steps[t.at].means) = 1
    BY <1>1, <1>2, <1>3, LinkedHere
  <2>3. found = t.steps[t.at].means[1]
    BY <1>5, <2>1, <2>2, LinkedStructure DEF EffectiveStructure
  <2>4. <<t.steps[t.at].means[1]>> = t.steps[t.at].means
    BY <2>2
  <2> HIDE DEF found, t, u
  <2>5. u.args = <<t.steps[t.at].means[1]>>
    BY <1>1, <1>6, <2>3
  <2>6. QED
    BY <1>3, <1>5, <2>4, <2>5
<1>7. CASE found = Nothing
  BY <1>1, <1>2, <1>5, <1>7
<1>8. QED
  BY <1>6, <1>7

\* A command is given what its step is about.
LEMMA LinkedArguments ==
  ASSUME PlansLinked, AgentInv, NEW s \in Sessions, OnTrack(turn[s]), Ready(s), Fed(s),
         ~turn[s].slipped
  PROVE  Arguments(s) = Step(s).means
<1> DEFINE t == turn[s]
           plan == t.steps
           k == t.at
           energies == t.scf_energies
           n == Len(Step(s).means)
<1>1. /\ TurnGood(s, t) /\ t.phase \in Working /\ k <= Len(plan) /\ Step(s) = StepOf(t)
      /\ Step(s).means \in Seq(Systems) /\ Step(s) = plan[k] /\ Sized(Step(s))
  BY ReadyFacts DEF AnyStep, StepOf
<1>2. /\ Linked(plan, k) /\ Len(plan) \in Nat /\ k \in 1 .. Len(plan)
      /\ energies \in Seq(Energies) /\ n \in Nat /\ Len(energies) \in Nat
  <2>1. /\ Linked(plan, k) /\ Len(plan) \in Nat /\ k \in 1 .. Len(plan)
        /\ energies \in Seq(Energies)
    BY <1>1, LinkedHere
  <2>2. n \in Nat
    <3>1. Step(s).means \in Seq(Systems)
      BY <1>1
    <3>2. QED
      BY <3>1, LenProperties
  <2> HIDE DEF n, energies, plan, k
  <2>3. Len(energies) \in Nat
    BY <2>1
  <2>4. QED
    BY <2>1, <2>2, <2>3
<1>3. InHand(plan, k, t.built_structure, t.ctx.source, energies, t.ctx.ledger)
  BY <1>1 DEF OnTrack
<1>4. CASE Step(s).tool = "thermo.eads"
  <2> DEFINE first == Len(energies) - n
  <2>1. n = 3 /\ n <= Len(energies) /\ first \in Nat /\ first + n = Len(energies)
        /\ Len(energies) - 2 = first + 1
    <3>1. n = 3 /\ n <= Len(energies)
      BY <1>1, <1>4 DEF Sized, Fed
    <3> HIDE DEF n, energies
    <3>2. QED
      BY <1>2, <3>1
  <2>2. plan[k].tool = "thermo.eads" /\ plan[k].means \in Seq(Systems) /\ n = Len(plan[k].means)
    BY <1>1, <1>4
  <2>3. Arguments(s) = SubSeq(energies, Len(energies) - 2, Len(energies))
    BY <1>4 DEF Arguments, EadsArgs
  <2> HIDE DEF first, n, plan, k, energies
  <2>4. SubSeq(energies, first + 1, first + n) = plan[k].means
    BY <1>2, <1>3, <2>1, <2>2, LinkedEnergies
  <2>5. QED
    BY <1>1, <2>1, <2>3, <2>4
<1>5. CASE Step(s).tool = "thermo.formation"
  <2>1. n <= Len(energies)
    BY <1>5 DEF Fed
  <2>2. plan[k].tool = "thermo.formation" /\ plan[k].means \in Seq(Systems)
        /\ n = Len(plan[k].means)
    BY <1>1, <1>5
  <2>3. Arguments(s) = SubSeq(energies, 1, n)
    BY <1>5 DEF Arguments, FormationArgs
  <2> DEFINE first == 0
  <2> HIDE DEF n, plan, k, energies
  <2>4. first + 1 = 1 /\ first + n = n /\ first \in Nat /\ first = 0
    BY <1>2
  <2> HIDE DEF first
  <2>5. SubSeq(energies, first + 1, first + n) = plan[k].means
    BY <1>2, <1>3, <2>1, <2>2, <2>4, LinkedEnergies, ZenonT(40)
  <2>6. QED
    BY <1>1, <2>3, <2>4, <2>5
<1>6. CASE Step(s).tool \notin {"thermo.eads", "thermo.formation"}
  BY <1>6 DEF Arguments
<1>7. QED
  BY <1>4, <1>5, <1>6

LEMMA CallOnTrack ==
  ASSUME PlansLinked, AgentInv, NEW s \in Sessions, OnTrack(turn[s]), CallCommand(s)
  PROVE  OnTrack(turn'[s])
<1> DEFINE t == turn[s]
           u == turn'[s]
<1>1. /\ Ready(s) /\ Fed(s)
      /\ u.phase = "redirected" /\ u.args = Arguments(s) /\ u.result = Nothing
      /\ u.at = t.at /\ u.steps = t.steps /\ u.ctx = t.ctx
      /\ u.built_structure = t.built_structure /\ u.scf_energies = t.scf_energies
      /\ u.slipped = t.slipped
  BY CallCommandStep
<1>2. Step(s) = StepOf(t) /\ t.phase \in Working
  BY <1>1, ReadyFacts
<1>3. ~t.slipped => u.args = StepOf(t).means
  BY <1>1, <1>2, LinkedArguments
<1>4. StepOf(u) = StepOf(t)
  BY <1>1 DEF StepOf
<1>5. QED
  BY <1>1, <1>2, <1>3, <1>4 DEF OnTrack

LEMMA CompareOnTrack ==
  ASSUME PlansLinked, AgentInv, NEW s \in Sessions, OnTrack(turn[s]), Compare(s)
  PROVE  OnTrack(turn'[s])
<1> DEFINE t == turn[s]
           n == Len(Step(s).means)
           ledger == t.ctx.ledger
           last == SubSeq(ledger, Len(ledger) - n + 1, Len(ledger))
<1>1. /\ Ready(s) /\ Step(s).tool = "analysis.compare"
      /\ \/ turn'[s] = After(t, FALSE)
         \/ /\ Len(ledger) >= n /\ turn'[s] = Giving(t, FALSE, last)
            /\ last \in Seq(Energies)
  BY CompareStep
<1>2. Step(s).tool \notin Builds \cup {"graph.run"}
  BY <1>1 DEF Builds
<1>3. CASE turn'[s] = After(t, FALSE)
  <2>1. \A slip \in BOOLEAN : \A u : u = After(t, slip) => OnTrack(u)
    BY <1>1, <1>2, OnTrackEnds
  <2>2. QED
    BY <1>3, <2>1
<1>4. ASSUME Len(ledger) >= n, last \in Seq(Energies), NEW slip \in BOOLEAN,
             NEW u, u = Giving(t, slip, last)
      PROVE  OnTrack(u)
  <2>1. /\ t \in Turns /\ TurnGood(s, t) /\ t.phase \in Working /\ t.at <= Len(t.steps)
        /\ Step(s) = StepOf(t) /\ StepOf(t) = t.steps[t.at] /\ StepOf(t) \in AnyStep
    BY <1>1, ReadyFacts DEF StepOf
  <2>2. StepOf(t).means \in Seq(Systems) /\ n \in Nat /\ n = Len(t.steps[t.at].means)
    BY <2>1 DEF AnyStep
  <2>3. /\ u.phase = "ready" /\ u.at = t.at + 1 /\ u.steps = t.steps /\ u.ctx = t.ctx
        /\ u.built_structure = t.built_structure /\ u.scf_energies = t.scf_energies
        /\ u.slipped = (t.slipped \/ slip)
        /\ u.result # Nothing => u.result.used = last /\ u.result.means = StepOf(t).means
    <3> HIDE DEF last, t
    <3>1. QED
      BY <1>4, <2>1, GivingFields
  <2>4. ~t.slipped => last = StepOf(t).means
    <3>1. SUFFICES ASSUME ~t.slipped PROVE last = StepOf(t).means
      OBVIOUS
    <3>2. InHand(t.steps, t.at, t.built_structure, t.ctx.source, t.scf_energies, t.ctx.ledger)
      BY <2>1, <3>1 DEF OnTrack
    <3>3. /\ Linked(t.steps, t.at) /\ Len(t.steps) \in Nat /\ t.at \in 1 .. Len(t.steps)
          /\ ledger \in Seq(Systems)
      BY <2>1, LinkedHere
    <3>4. t.steps[t.at].tool = "analysis.compare" /\ t.steps[t.at].means \in Seq(Systems)
          /\ n <= Len(ledger)
      BY <1>1, <1>4, <2>1, <2>2, <3>3
    <3> HIDE DEF n, t
    <3>5. QED
      BY <2>1, <2>2, <3>2, <3>3, <3>4, LinkedRecords, ZenonT(40)
  <2>5. ~u.slipped => ~t.slipped /\ (u.result # Nothing => u.result.used = u.result.means)
    BY <2>3, <2>4
  <2> HIDE DEF t
  <2>6. QED
    BY <1>2, <2>1, <2>3, <2>5, OnTrackAfter DEF t
<1>5. QED
  BY <1>1, <1>3, <1>4

LEMMA FinishOnTrack ==
  ASSUME PlansLinked, AgentInv, NEW s \in Sessions, OnTrack(turn[s]), Finish(s)
  PROVE  OnTrack(turn'[s])
<1> DEFINE t == turn[s]
           u == turn'[s]
           system == t.args[1]
<1>1. /\ t.phase = "running" /\ u.phase = "ready"
      /\ u.steps = t.steps /\ u.at = t.at + 1
      /\ u.built_structure = t.built_structure /\ u.ctx.source = t.ctx.source
      /\ ~u.slipped =>
           /\ ~t.slipped
           /\ u.scf_energies = t.scf_energies \o <<system>>
           /\ u.ctx.ledger = LastOf(Append(t.ctx.ledger, system))
           /\ u.result # Nothing => u.result.used = t.args /\ u.result.means = StepOf(t).means
  BY FinishStep
<1>2. SUFFICES ASSUME ~u.slipped
               PROVE  /\ InHand(u.steps, u.at, u.built_structure, u.ctx.source,
                                u.scf_energies, u.ctx.ledger)
                      /\ u.result # Nothing => u.result.used = u.result.means
  BY <1>1 DEF OnTrack, Working
<1>3. /\ TurnGood(s, t) /\ t.phase \in Working /\ t.at <= Len(t.steps)
      /\ StepOf(t).tool = "graph.run" /\ t.args \in Seq(Systems) /\ Len(t.args) = 1
  BY <1>1, AgentFacts DEF TurnGood, Working
<1>4. /\ Len(t.steps) \in Nat /\ t.at \in Nat \ {0}
      /\ t.ctx.ledger \in Seq(Systems) /\ t.scf_energies \in Seq(Energies)
  BY <1>3, LinkedHere
<1>5. /\ InHand(t.steps, t.at, t.built_structure, t.ctx.source, t.scf_energies, t.ctx.ledger)
      /\ t.args = StepOf(t).means
  BY <1>1, <1>2, <1>3 DEF OnTrack, Working
<1>6. system \in Systems /\ system = t.steps[t.at].means[1] /\ t.steps[t.at].tool = "graph.run"
  BY <1>3, <1>5 DEF StepOf
<1> HIDE DEF system, t, u
<1>7. InHand(t.steps, t.at + 1, t.built_structure, t.ctx.source,
             t.scf_energies \o <<system>>, LastOf(Append(t.ctx.ledger, system)))
  BY <1>4, <1>5, <1>6, InHandRun
<1>8. QED
  BY <1>1, <1>2, <1>5, <1>7

LEMMA RunCommandOnTrack ==
  ASSUME PayloadsSuffice, AgentInv, NEW s \in Sessions, OnTrack(turn[s]), RunCommand(s)
  PROVE  OnTrack(turn'[s])
<1> DEFINE t == turn[s]
           u == turn'[s]
<1>1. /\ t.phase = "redirected" /\ u.phase = "printed"
      /\ u.args = t.args /\ u.result = t.result
      /\ u.at = t.at /\ u.steps = t.steps /\ u.ctx = t.ctx
      /\ u.built_structure = t.built_structure /\ u.scf_energies = t.scf_energies
      /\ u.slipped = t.slipped
  BY RunCommandStep
<1>2. StepOf(u) = StepOf(t)
  BY <1>1 DEF StepOf
<1>3. QED
  BY <1>1, <1>2 DEF OnTrack, Working

LEMMA ReturnOnTrack ==
  ASSUME PlansLinked, AgentInv, NEW s \in Sessions, OnTrack(turn[s]), ReturnCommand(s)
  PROVE  OnTrack(turn'[s])
<1> DEFINE t == turn[s]
           u == turn'[s]
           tool == StepOf(t).tool
           plan == t.steps
           k == t.at
           system == t.args[1]
           built == IF tool = "structure.build" THEN system ELSE t.built_structure
           source == IF tool \in Builds THEN system ELSE t.ctx.source
<1>1. /\ t.phase = "printed" /\ k <= Len(plan)
      /\ u.phase = "ready" /\ u.at = k + 1 /\ u.steps = plan
      /\ u.scf_energies = t.scf_energies /\ u.ctx.ledger = t.ctx.ledger
      /\ ~u.slipped =>
           /\ ~t.slipped /\ u.built_structure = built /\ u.ctx.source = source
           /\ u.result # Nothing => u.result.used = t.args /\ u.result.means = StepOf(t).means
  BY ReturnCommandStep
<1>2. SUFFICES ASSUME ~u.slipped
               PROVE  /\ InHand(u.steps, u.at, u.built_structure, u.ctx.source,
                                u.scf_energies, u.ctx.ledger)
                      /\ u.result # Nothing => u.result.used = u.result.means
  BY <1>1 DEF OnTrack, Working
<1>3. TurnGood(s, t) /\ t.phase \in Working /\ tool \in CommandTools
  BY <1>1, AgentFacts DEF TurnGood, Working
<1>4. Len(plan) \in Nat /\ k \in Nat \ {0}
  BY <1>1, <1>3, LinkedHere
<1>5. /\ InHand(plan, k, t.built_structure, t.ctx.source, t.scf_energies, t.ctx.ledger)
      /\ t.args = StepOf(t).means
  BY <1>1, <1>2, <1>3 DEF OnTrack, Working
<1>6. tool = plan[k].tool /\ system = plan[k].means[1]
  BY <1>5 DEF StepOf
<1>7. InHand(plan, k + 1, built, source, t.scf_energies, t.ctx.ledger)
  <2> HIDE DEF t, plan, k, system, tool
  <2>1. CASE tool = "structure.build"
    <3>1. built = system /\ source = system
      BY <2>1 DEF Builds
    <3>2. QED
      BY <1>4, <1>5, <1>6, <2>1, <3>1, InHandBuild
  <2>2. CASE tool = "structure.import"
    <3>1. built = t.built_structure /\ source = system
      BY <2>2 DEF Builds
    <3>2. QED
      BY <1>4, <1>5, <1>6, <2>2, <3>1, InHandImport
  <2>3. CASE tool \notin Builds
    <3>1. built = t.built_structure /\ source = t.ctx.source /\ tool # "graph.run"
      BY <1>3, <2>3 DEF Builds, CommandTools
    <3>2. QED
      BY <1>4, <1>5, <1>6, <2>3, <3>1, InHandOther
  <2>4. QED
    BY <2>1, <2>2, <2>3 DEF Builds
<1>8. QED
  BY <1>1, <1>2, <1>5, <1>7

\* What a step says of its own turn, whatever the step is.
LEMMA WorkOnTrack ==
  ASSUME PayloadsSuffice, PlansLinked, AgentInv, NEW s \in Sessions, OnTrack(turn[s]),
         Prepare(s) \/ Handle(s)
  PROVE  OnTrack(turn'[s])
<1>1. CASE Abort(s)
  <2>1. Ready(s) /\ turn'[s] = After(turn[s], TRUE)
    BY <1>1, EndsStep DEF Abort
  <2>2. \A slip \in BOOLEAN : \A u : slip /\ u = After(turn[s], slip) => OnTrack(u)
    BY <2>1, OnTrackEnds
  <2>3. QED
    BY <2>1, <2>2
<1>2. CASE Notice(s) \/ Underfed(s)
  <2>1. Ready(s) /\ turn'[s] = After(turn[s], FALSE)
    BY <1>2, EndsStep DEF Notice, Underfed
  <2>2. Step(s).tool \notin Builds \cup {"graph.run"}
    BY <1>2 DEF Notice, Underfed, Fed, Builds
  <2>3. \A slip \in BOOLEAN : \A u : u = After(turn[s], slip) => OnTrack(u)
    BY <2>1, <2>2, OnTrackEnds
  <2>4. QED
    BY <2>1, <2>3
<1>3. QED
  BY <1>1, <1>2, LaunchOnTrack, CallOnTrack, CompareOnTrack, FinishOnTrack,
     RunCommandOnTrack, ReturnOnTrack DEF Prepare, Handle

LEMMA LinkSteps ==
  ASSUME PayloadsSuffice, PlansLinked, AgentInv, LinkInv, [Next]_vars
  PROVE  LinkInv'
<1>1. \A r \in Sessions : OnTrack(turn[r])
  BY DEF LinkInv
<1>2. SUFFICES \A r \in Sessions : OnTrack(turn'[r])
  BY DEF LinkInv
<1>3. ASSUME NEW u, u.phase \notin Working, u.result = Nothing
      PROVE  OnTrack(u)
  BY <1>3 DEF OnTrack, Working
<1>4. ASSUME NEW s \in Sessions, NEW t, turn' = [turn EXCEPT ![s] = t], OnTrack(t)
      PROVE  \A r \in Sessions : OnTrack(turn'[r])
  BY <1>1, <1>4 DEF AgentInv
<1>5. ASSUME NEW s \in Sessions, Start(s)
      PROVE  \A r \in Sessions : OnTrack(turn'[r])
  <2> DEFINE fresh == [NoTurn EXCEPT !.number = turn[s].number + 1, !.ctx = ctx[s],
                                     !.shared = ctx[s].ledger # << >>]
  <2>1. PICK phase \in {"asking", "answered"} :
          turn' = [turn EXCEPT ![s] = [fresh EXCEPT !.phase = phase]]
    BY <1>5 DEF Start, Become
  <2> DEFINE t == [fresh EXCEPT !.phase = phase]
  <2>2. t.phase \notin Working /\ t.result = Nothing
    BY DEF NoTurn, Working
  <2> HIDE DEF t
  <2>3. OnTrack(t)
    BY <1>3, <2>2
  <2>4. QED
    BY <1>4, <2>1, <2>3 DEF t
<1>6. ASSUME NEW r \in Sessions, NEW phase \in {"asking", "answered"},
             turn[r].phase \notin Working, turn'[r].phase = phase,
             turn'[r].slipped = turn[r].slipped, turn'[r].result = turn[r].result
      PROVE  OnTrack(turn'[r])
  BY <1>1, <1>6 DEF OnTrack, Working
<1>7. ASSUME NEW s \in Sessions, Reject(s)
      PROVE  \A r \in Sessions : OnTrack(turn'[r])
  <2>1. turn[s].phase = "asking" /\ turn[s] \in Turns
    BY <1>7, AgentFacts DEF Reject
  <2>2. /\ turn'[s] = IF turn[s].attempt = 1 THEN [turn[s] EXCEPT !.attempt = 2]
                      ELSE [turn[s] EXCEPT !.attempt = 1, !.phase = "answered"]
        /\ \A r \in Sessions \ {s} : turn'[r] = turn[r]
    BY <1>7 DEF Reject, Become, AgentInv
  <2>3. /\ turn'[s].phase \in {"asking", "answered"} /\ turn[s].phase \notin Working
        /\ turn'[s].slipped = turn[s].slipped /\ turn'[s].result = turn[s].result
    BY <2>1, <2>2 DEF Turns, Working
  <2>4. QED
    BY <1>1, <1>6, <2>2, <2>3
<1>8. ASSUME NEW r \in Sessions,
             turn'[r] = [turn[r] EXCEPT !.overtaken = @ \/ turn[r].phase = "answered"]
      PROVE  OnTrack(turn'[r])
  <2>1. turn[r] \in Turns
    BY AgentFacts
  <2>2. /\ turn'[r].phase = turn[r].phase /\ turn'[r].steps = turn[r].steps
        /\ turn'[r].at = turn[r].at /\ turn'[r].ctx = turn[r].ctx
        /\ turn'[r].built_structure = turn[r].built_structure
        /\ turn'[r].scf_energies = turn[r].scf_energies /\ turn'[r].args = turn[r].args
        /\ turn'[r].slipped = turn[r].slipped /\ turn'[r].result = turn[r].result
    BY <1>8, <2>1 DEF Turns
  <2>3. StepOf(turn'[r]) = StepOf(turn[r])
    BY <2>2 DEF StepOf
  <2>4. OnTrack(turn[r])
    BY <1>1
  <2>5. QED
    BY <2>2, <2>3, <2>4 DEF OnTrack
<1>9. ASSUME NEW s \in Sessions, Accept(s)
      PROVE  \A r \in Sessions : OnTrack(turn'[r])
  <2>1. PICK plan \in PlansOf[s][turn[s].number] :
          turn' = [r \in Sessions |->
             IF r = s
             THEN [turn[s] EXCEPT !.phase = "answered", !.attempt = 1,
                                  !.llm = TRUE, !.steps = plan]
             ELSE [turn[r] EXCEPT !.overtaken = @ \/ turn[r].phase = "answered"]]
    BY <1>9 DEF Accept
  <2>2. turn[s].phase = "asking" /\ turn[s] \in Turns
    BY <1>9, AgentFacts DEF Accept
  <2>3. turn'[s] = [turn[s] EXCEPT !.phase = "answered", !.attempt = 1,
                                   !.llm = TRUE, !.steps = plan]
    BY <2>1
  <2>4. /\ turn'[s].phase = "answered" /\ turn[s].phase \notin Working
        /\ turn'[s].slipped = turn[s].slipped /\ turn'[s].result = turn[s].result
    BY <2>2, <2>3 DEF Turns, Working
  <2>5. OnTrack(turn'[s])
    BY <1>6, <2>4
  <2>6. QED
    BY <1>8, <2>1, <2>5
<1>10. ASSUME NEW s \in Sessions
       PROVE  OnTrack(Over(s))
  BY <1>3, OverGood DEF Working
<1>11. ASSUME NEW s \in Sessions, ReplyDirectly(s)
       PROVE  \A r \in Sessions : OnTrack(turn'[r])
  <2>1. turn'[s] = Over(s)
        /\ \A r \in Sessions \ {s} :
             turn'[r] = [turn[r] EXCEPT !.overtaken = @ \/ turn[r].phase = "answered"]
    BY <1>11 DEF ReplyDirectly
  <2>2. QED
    BY <1>8, <1>10, <2>1
<1>12. ASSUME NEW s \in Sessions, Break(s) \/ End(s)
       PROVE  \A r \in Sessions : OnTrack(turn'[r])
  <2>1. turn' = [turn EXCEPT ![s] = Over(s)]
    BY <1>12 DEF Break, End, Become
  <2>2. QED
    BY <1>4, <1>10, <2>1
<1>13. ASSUME NEW s \in Sessions, Begin(s)
       PROVE  \A r \in Sessions : OnTrack(turn'[r])
  <2> DEFINE context == [turn[s].ctx EXCEPT !.last_plan = PlanIR(s, turn[s].llm)]
  <2>1. PICK plan \in (IF turn[s].llm THEN {turn[s].steps} ELSE PlansOf[s][turn[s].number]) :
          Become(s, [turn[s] EXCEPT !.phase = "ready", !.llm = FALSE, !.steps = plan,
                                    !.ctx.last_plan = PlanIR(s, turn[s].llm)])
    BY <1>13 DEF Begin
  <2>2. turn' = [turn EXCEPT ![s] = [turn[s] EXCEPT !.phase = "ready", !.llm = FALSE,
                                                    !.steps = plan, !.ctx = context]]
    BY <2>1 DEF Become
  <2> DEFINE t == [turn[s] EXCEPT !.phase = "ready", !.llm = FALSE, !.steps = plan,
                                  !.ctx = context]
  <2>3. /\ turn[s].phase = "answered" /\ turn[s] \in Turns
        /\ turn[s].at = 1 /\ turn[s].built_structure = Nothing /\ turn[s].scf_energies = << >>
    BY <1>13, AgentFacts DEF Begin, TurnGood
  <2>4. /\ t.phase = "ready" /\ t.at = 1 /\ t.built_structure = Nothing
        /\ t.scf_energies = << >> /\ t.slipped = turn[s].slipped /\ t.result = turn[s].result
    <3> HIDE DEF context
    <3>1. QED
      BY <2>3 DEF Turns
  <2> HIDE DEF t
  <2>5. InHand(t.steps, t.at, t.built_structure, t.ctx.source, t.scf_energies, t.ctx.ledger)
    BY <2>4, InHandFirst
  <2>6. OnTrack(turn[s])
    BY <1>1
  <2>7. OnTrack(t)
    BY <2>4, <2>5, <2>6 DEF OnTrack, Working
  <2>8. QED
    BY <1>4, <2>2, <2>7 DEF t
<1>14. ASSUME NEW s \in Sessions, Prepare(s) \/ Handle(s)
       PROVE  \A r \in Sessions : OnTrack(turn'[r])
  <2>1. OnTrack(turn'[s])
    BY <1>1, <1>14, WorkOnTrack
  <2>2. \A r \in Sessions \ {s} : turn'[r] = turn[r]
    BY <1>14, OthersStay
  <2>3. QED
    BY <1>1, <2>1, <2>2
<1>15. CASE UNCHANGED vars
  BY <1>1, <1>15 DEF vars
<1>16. QED
  BY <1>5, <1>7, <1>9, <1>11, <1>12, <1>13, <1>14, <1>15 DEF Next, Plan

\* A result is about the systems its step meant, in their order, unless
\* something in the turn went wrong before it, for any sessions and any plans
\* in which the steps follow one another as the workflows of the planners do.
\* (The chaining in step_prep.py.)
THEOREM WrongResult ==
  ASSUME PayloadsSuffice, PlansLinked
  PROVE  Spec => []WrongResultHasCause
<1>1. Init => LinkInv
  <2>1. NoTurn.phase = "idle" /\ NoTurn.result = Nothing
    BY DEF NoTurn
  <2>2. QED
    BY <2>1 DEF Init, LinkInv, OnTrack, Working
<1>2. AgentInv /\ LinkInv /\ [Next]_vars => LinkInv'
  BY LinkSteps
<1>3. LinkInv => WrongResultHasCause
  BY DEF LinkInv, OnTrack, WrongResultHasCause
<1>4. QED
  BY <1>1, <1>2, <1>3, AgentInvariant, PTL DEF Spec

=============================================================================
