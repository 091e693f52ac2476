------------------------- MODULE ConfigFidelityProofs -------------------------
(***************************************************************************)
(* What is proved about ConfigFidelity, for every set of model literals    *)
(* and every agent: no prompt without the configuration, and no partial    *)
(* switch that is neither undone nor marked.                               *)
(***************************************************************************)
EXTENDS ConfigFidelity, TLAPS

\* The goal of the machine: a rollback has a proven pair to go back to, and the
\* Run's own machine stands at the leg of the sets that were written.
Goals ==
  /\ machine.goal = "old" =>
       request.previous.known /\ run.rollback # "none"
         /\ run.outcome \in {"starting", "refused", "cancelled"}
  /\ machine.goal = "new" => run.sets = machine.leg
  /\ machine.phase = "init" => machine.goal = "new" /\ machine.leg = 0
  /\ machine.phase = "sent" => machine.leg \in 1..Len(Legs(machine.goal))

\* A verified sequence leaves nothing to the agent.
VerifiedIsExact == machine.phase = "verified" => AgentHas(machine.goal)

\* What the outcome of the startup says about the machine.
Outcome ==
  /\ run.outcome \in {"ready", "prompted"} =>
       machine.goal = "new" /\ machine.phase = "verified" /\ run.rollback = "none"
  /\ run.outcome = "prompted" => ~run.foreign
  /\ run.rollback = "proven" => machine.goal = "old" /\ machine.phase = "verified"
  /\ run.rollback # "none" /\ machine.goal = "new" =>
       run.rollback = "unproven" /\ run.outcome = "refused"
  /\ run.rollback = "running" => run.outcome # "refused"
  /\ run.outcome = "refused" /\ run.sets > 0 /\ run.rollback = "none" => run.foreign

ConfigInvariant == TypeOK /\ Goals /\ VerifiedIsExact /\ Outcome

-----------------------------------------------------------------------------
\* A machine's parameters are a list of selectors other than mode and model, and
\* only a parameterized literal has any.
LEMMA WantedLemma ==
  ASSUME request \in Requests, NEW goal \in {"new", "old"}
  PROVE  /\ Wanted(goal) \in Seq(Selectors)
         /\ \A i \in 1..Len(Wanted(goal)) : Wanted(goal)[i] \notin {"mode", "model"}
         /\ request.fidelity # "parameterized" => Wanted(goal) = <<>>
<1>0. request.parameters \in Literals \cup {<<>>}
      /\ request.previous \in [known : {TRUE}, parameters : Literals \cup {<<>>}] \cup {NoLiteral}
  BY DEF Requests
<1>1. Wanted(goal) \in Literals \cup {<<>>}
  <2>1. request.previous.parameters \in Literals \cup {<<>>}
    <3>1. CASE request.previous = NoLiteral
      BY <3>1 DEF NoLiteral
    <3>2. CASE request.previous \in [known : {TRUE}, parameters : Literals \cup {<<>>}]
      BY <3>2
    <3>3. QED
      BY <1>0, <3>1, <3>2
  <2>2. QED
    BY <1>0, <2>1 DEF Wanted
<1>2. request.fidelity # "parameterized" => Wanted(goal) = <<>>
  BY DEF Wanted, Requests, NoLiteral
<1>3. ASSUME NEW p \in Literals
      PROVE  p \in Seq(Selectors) /\ \A i \in 1..Len(p) : p[i] \notin {"mode", "model"}
  BY LiteralsAssumption DEF ToSet
<1>4. <<>> \in Seq(Selectors) /\ Len(<<>>) = 0
  OBVIOUS
<1>5. CASE Wanted(goal) = <<>>
  BY <1>2, <1>4, <1>5
<1>6. CASE Wanted(goal) \in Literals
  BY <1>2, <1>3, <1>6
<1>7. QED
  BY <1>1, <1>5, <1>6

LEMMA ConcatLemma ==
  ASSUME NEW m \in Seq(Selectors), NEW w \in Seq(Selectors), NEW l, l = m \o <<"model">> \o w
  PROVE  /\ Len(l) = Len(m) + 1 + Len(w)
         /\ w = <<>> => l[Len(l)] = "model"
         /\ w # <<>> => l[Len(l)] = w[Len(w)] /\ Len(w) \in Nat \ {0}
<1> DEFINE k == m \o <<"model">>
<1>1. k \in Seq(Selectors) /\ Len(k) = Len(m) + 1 /\ k[Len(m) + 1] = "model" /\ Len(m) \in Nat
  <2>1. "model" \in Selectors
    BY DEF Selectors
  <2>2. k = Append(m, "model")
    BY <2>1
  <2> HIDE DEF k
  <2>3. QED
    BY <2>1, <2>2
<1>2. l = k \o w
  OBVIOUS
<1> HIDE DEF k
<1>3. Len(l) = Len(k) + Len(w) /\ Len(w) \in Nat
  BY <1>1, <1>2
<1>4. w = <<>> => Len(w) = 0 /\ l[Len(k)] = k[Len(k)]
  BY <1>1, <1>2, <1>3
<1>5. w # <<>> => Len(w) > 0 /\ l[Len(k) + Len(w)] = w[Len(w)]
  BY <1>1, <1>2, <1>3
<1>6. QED
  BY <1>1, <1>3, <1>4, <1>5

\* The last set of a sequence.
LEMMA LastLegLemma ==
  ASSUME request \in Requests, NEW goal \in {"new", "old"}
  PROVE  /\ Len(Legs(goal)) \in Nat \ {0}
         /\ request.fidelity = "separate-selectors" => Legs(goal)[Len(Legs(goal))] = "effort"
         /\ request.fidelity = "model-only" => Legs(goal)[Len(Legs(goal))] = "model"
         /\ request.fidelity = "parameterized" =>
              Legs(goal)[Len(Legs(goal))] # "mode"
<1> DEFINE m == IF request.mode THEN <<"mode">> ELSE <<>>
           w == IF request.fidelity = "separate-selectors" THEN <<"effort">> ELSE Wanted(goal)
<1>0. <<>> \in Seq(Selectors) /\ <<"mode">> \in Seq(Selectors) /\ <<"effort">> \in Seq(Selectors)
  <2>1. {"mode", "effort"} \subseteq Selectors
    BY DEF Selectors
  <2>2. QED
    BY <2>1
<1>1. m \in Seq(Selectors)
  BY <1>0
<1>2. w \in Seq(Selectors)
  BY <1>0, WantedLemma
<1>3. Legs(goal) = m \o <<"model">> \o w
  BY DEF Legs
<1>4. /\ Len(Legs(goal)) = Len(m) + 1 + Len(w)
      /\ w = <<>> => Legs(goal)[Len(Legs(goal))] = "model"
      /\ w # <<>> => Legs(goal)[Len(Legs(goal))] = w[Len(w)] /\ Len(w) \in Nat \ {0}
  <2> HIDE DEF m, w
  <2>1. QED
    BY <1>1, <1>2, <1>3, ConcatLemma
<1>5. Len(Legs(goal)) \in Nat \ {0}
  <2>1. Len(m) \in Nat /\ Len(w) \in Nat
    <3> HIDE DEF m, w
    <3>1. QED
      BY <1>1, <1>2
  <2>2. QED
    <3> HIDE DEF m, w
    <3>1. QED
      BY <1>4, <2>1
<1>6. CASE request.fidelity = "separate-selectors"
  <2>1. w = <<"effort">> /\ w # <<>> /\ w[Len(w)] = "effort"
    BY <1>6
  <2>2. QED
    BY <1>4, <1>5, <1>6, <2>1
<1>7. CASE request.fidelity = "model-only"
  BY <1>4, <1>5, <1>7, WantedLemma
<1>8. CASE request.fidelity = "parameterized"
  <2>1. w = Wanted(goal)
    BY <1>8
  <2>2. w # <<>> => w[Len(w)] \notin {"mode", "model"}
    BY <1>4, <2>1, WantedLemma
  <2>3. QED
    BY <1>4, <1>5, <1>8, <2>2
<1>9. QED
  BY <1>6, <1>7, <1>8 DEF Requests, Fidelities

\* What the readback after the last set proves is the whole configuration.
LEMMA LastProofLemma ==
  ASSUME request \in Requests, NEW goal \in {"new", "old"}, NEW set,
         machine.leg = Len(Legs(goal)), Proves(set, goal, Legs(goal)[machine.leg])
  PROVE  /\ Exact(set, goal, "model") /\ ModeExact(set, goal)
         /\ request.fidelity = "separate-selectors" => Exact(set, goal, "effort")
         /\ request.fidelity = "parameterized" => WholeExact(set, goal)
<1> DEFINE s == Legs(goal)[Len(Legs(goal))]
<1>1. Proves(set, goal, s) /\ machine.leg = Len(Legs(goal))
  OBVIOUS
<1>2. CASE request.fidelity = "separate-selectors"
  <2>1. s = "effort"
    BY <1>2, LastLegLemma
  <2>2. QED
    BY <1>1, <1>2, <2>1 DEF Proves
<1>3. CASE request.fidelity = "model-only"
  <2>1. s = "model"
    BY <1>3, LastLegLemma
  <2>2. QED
    BY <1>1, <1>3, <2>1 DEF Proves
<1>4. CASE request.fidelity = "parameterized"
  <2>1. s # "mode"
    BY <1>4, LastLegLemma
  <2>2. CASE s = "model"
    BY <1>1, <1>4, <2>2 DEF Proves, WholeExact
  <2>3. CASE s # "model"
    BY <1>1, <1>4, <2>1, <2>3 DEF Proves, WholeExact
  <2>4. QED
    BY <2>2, <2>3
<1>5. QED
  BY <1>2, <1>3, <1>4 DEF Requests, Fidelities

-----------------------------------------------------------------------------
LEMMA InitLemma == Init => ConfigInvariant
<1> SUFFICES ASSUME Init PROVE ConfigInvariant
  OBVIOUS
<1>1. TypeOK
  BY DEF Init, TypeOK, Phases, Values
<1>2. Goals /\ Outcome
  BY DEF Init, Goals, Outcome
<1>3. VerifiedIsExact
  BY DEF Init, VerifiedIsExact
<1>4. QED
  BY <1>1, <1>2, <1>3 DEF ConfigInvariant

\* Opening the session, and planning a set: nothing is verified by them.
LEMMA PlanLemma ==
  ASSUME ConfigInvariant, OpenSession \/ PlanLeg
  PROVE  ConfigInvariant'
<1> USE DEF ConfigInvariant
<1>1. CASE OpenSession
  <2>1. TypeOK'
    BY <1>1 DEF OpenSession, Starting, TypeOK, Phases, Values
  <2>2. Goals' /\ Outcome'
    BY <1>1 DEF OpenSession, Starting, TypeOK, Goals, Outcome
  <2>3. VerifiedIsExact'
    BY <1>1 DEF OpenSession, VerifiedIsExact, TypeOK
  <2>4. QED
    BY <2>1, <2>2, <2>3
<1>2. CASE PlanLeg
  <2>1. /\ machine.phase = "options" /\ run.outcome = "starting"
        /\ machine.leg < Len(Legs(machine.goal)) /\ UNCHANGED <<request, shown, agent>>
    BY <1>2 DEF PlanLeg, Starting
  <2>2. /\ machine'.goal = machine.goal /\ machine'.phase \in {"sent", "failed"}
        /\ machine' \in [goal : {"new", "old"}, phase : Phases, leg : Nat]
        /\ run' \in [foreign : BOOLEAN, sets : Nat,
                     rollback : {"none", "running", "proven", "unproven"},
                     outcome : {"starting", "ready", "prompted", "refused", "cancelled"}]
        /\ run'.foreign = run.foreign /\ run'.rollback = run.rollback
        /\ run'.outcome = run.outcome
        /\ run'.sets - run.sets = machine'.leg - machine.leg
        /\ machine'.phase = "sent" => machine'.leg = machine.leg + 1
    <3>1. CASE machine' = [machine EXCEPT !.phase = "sent", !.leg = @ + 1]
               /\ run' = [run EXCEPT !.sets = @ + 1]
      <4>1. /\ machine' \in [goal : {"new", "old"}, phase : Phases, leg : Nat]
            /\ machine'.goal = machine.goal /\ machine'.phase = "sent"
            /\ machine'.leg = machine.leg + 1 /\ machine.leg \in Nat
        <5>1. machine \in [goal : {"new", "old"}, phase : Phases, leg : Nat]
              /\ machine.leg \in Nat /\ machine.leg + 1 \in Nat /\ "sent" \in Phases
          BY DEF TypeOK, Phases
        <5>2. QED
          BY <3>1, <5>1
      <4>2. /\ run' \in [foreign : BOOLEAN, sets : Nat,
                          rollback : {"none", "running", "proven", "unproven"},
                          outcome : {"starting", "ready", "prompted", "refused", "cancelled"}]
            /\ run'.foreign = run.foreign /\ run'.rollback = run.rollback
            /\ run'.outcome = run.outcome /\ run'.sets = run.sets + 1 /\ run.sets \in Nat
        BY <3>1 DEF TypeOK
      <4>3. QED
        BY <4>1, <4>2
    <3>2. CASE machine' = [machine EXCEPT !.phase = "failed"] /\ run' = run
      BY <3>2 DEF TypeOK, Phases
    <3>3. QED
      BY <1>2, <3>1, <3>2 DEF PlanLeg
  <2>3. TypeOK'
    BY <2>1, <2>2 DEF TypeOK
  <2>4. Goals'
    <3>1. machine.goal \in {"new", "old"} /\ Len(Legs(machine.goal)) \in Nat
      BY LastLegLemma DEF TypeOK
    <3>2. Legs(machine.goal)' = Legs(machine.goal)
      BY <2>1, <2>2 DEF Legs, Wanted
    <3>3. QED
      BY <2>1, <2>2, <3>1, <3>2 DEF TypeOK, Goals
  <2>5. Outcome' /\ VerifiedIsExact'
    BY <2>1, <2>2 DEF Outcome, VerifiedIsExact
  <2>6. QED
    BY <2>3, <2>4, <2>5
<1>3. QED
  BY <1>1, <1>2

\* An answer: what its readback proves after the last set is what the agent has.
LEMMA AnswerLemma ==
  ASSUME ConfigInvariant, AnswerLeg
  PROVE  ConfigInvariant'
<1> USE DEF ConfigInvariant
<1> DEFINE goal == machine.goal
           s == Legs(goal)[machine.leg]
<1>0. goal \in {"new", "old"} /\ request \in Requests /\ machine.phase = "sent" /\ Starting
      /\ UNCHANGED <<request, run>>
  BY DEF AnswerLeg, TypeOK
<1>1. PICK set \in Answers(goal, s) :
        /\ agent' = set
        /\ \/ /\ shown' = IF Records(set, goal, s) THEN set ELSE shown
              /\ machine' = [machine EXCEPT !.phase =
                   IF ~Proves(set, goal, s) THEN "failed"
                   ELSE IF machine.leg < Len(Legs(goal)) THEN "options" ELSE "verified"]
           \/ /\ machine' = [machine EXCEPT !.phase = "failed"]
              /\ UNCHANGED shown
  BY DEF AnswerLeg
<1>2. set \in [Selectors -> Values]
  BY <1>0, <1>1 DEF Answers, Values, Target, TypeOK
<1>3. machine' \in [goal : {"new", "old"}, phase : Phases, leg : Nat]
      /\ machine'.goal = goal /\ machine'.leg = machine.leg
      /\ machine'.phase \in {"failed", "options", "verified"}
      /\ (machine'.phase = "verified" => Proves(set, goal, s) /\ ~(machine.leg < Len(Legs(goal))))
  BY <1>1 DEF TypeOK, Phases
<1>4. TypeOK'
  BY <1>0, <1>1, <1>2, <1>3 DEF TypeOK
<1>5. Goals' /\ Outcome'
  BY <1>0, <1>3 DEF Goals, Outcome, Starting, TypeOK
<1>6. VerifiedIsExact'
  <2>1. SUFFICES ASSUME machine'.phase = "verified" PROVE AgentHas(machine.goal)'
    BY <1>3 DEF VerifiedIsExact
  <2>2. machine.leg = Len(Legs(goal))
    <3>1. machine.leg \in 1..Len(Legs(goal)) /\ Len(Legs(goal)) \in Nat
      BY <1>0, LastLegLemma DEF Goals
    <3>2. QED
      BY <1>3, <2>1, <3>1
  <2>3. /\ Exact(set, goal, "model") /\ ModeExact(set, goal)
        /\ request.fidelity = "separate-selectors" => Exact(set, goal, "effort")
        /\ request.fidelity = "parameterized" => WholeExact(set, goal)
    BY <1>0, <1>3, <2>1, <2>2, LastProofLemma
  <2>4. agent' = set /\ request' = request /\ machine'.goal = goal
    BY <1>0, <1>1, <1>3
  <2>5. /\ Exact(agent', goal, "model") /\ ModeExact(agent, machine.goal)'
        /\ request'.fidelity = "separate-selectors" => Exact(agent', goal, "effort")
    BY <2>3, <2>4 DEF ModeExact, Exact, Target
  <2>6. request'.fidelity = "parameterized" => WholeExact(agent, machine.goal)'
    BY <2>3, <2>4 DEF WholeExact, ParameterIdsExact, Owned, Wanted, ModeExact, Exact, Target
  <2>7. QED
    BY <2>4, <2>5, <2>6 DEF AgentHas, Exact, Target
<1>7. QED
  BY <1>4, <1>5, <1>6

\* The steps of the Run between the sequences: they leave the agent alone.
LEMMA RunLemma ==
  ASSUME ConfigInvariant,
         ForeignUpdate \/ Configured \/ FailForeign \/ StartupTimeout \/ Prompt
           \/ FinishRollback
  PROVE  ConfigInvariant'
<1> USE DEF ConfigInvariant
<1>0. UNCHANGED <<request, machine, shown, agent>>
  BY DEF ForeignUpdate, Configured, FailForeign, StartupTimeout, Prompt, FinishRollback
<1>1. Legs(machine.goal)' = Legs(machine.goal) /\ VerifiedIsExact'
  BY <1>0 DEF Legs, Wanted, VerifiedIsExact, AgentHas, Exact, Target, ModeExact, WholeExact,
              ParameterIdsExact, Owned
<1>2. CASE ForeignUpdate
  <2>1. TypeOK' /\ Goals' /\ Outcome'
    BY <1>0, <1>1, <1>2 DEF ForeignUpdate, TypeOK, Goals, Outcome
  <2>2. QED
    BY <1>1, <2>1
<1>3. CASE Configured
  <2>1. TypeOK' /\ Goals' /\ Outcome'
    BY <1>0, <1>1, <1>3 DEF Configured, Starting, TypeOK, Goals, Outcome
  <2>2. QED
    BY <1>1, <2>1
<1>4. CASE FailForeign
  <2>1. TypeOK' /\ Goals' /\ Outcome'
    BY <1>0, <1>1, <1>4 DEF FailForeign, Starting, TypeOK, Goals, Outcome
  <2>2. QED
    BY <1>1, <2>1
<1>5. CASE StartupTimeout
  <2>1. TypeOK' /\ Goals' /\ Outcome'
    BY <1>0, <1>1, <1>5 DEF StartupTimeout, Starting, TypeOK, Goals, Outcome
  <2>2. QED
    BY <1>1, <2>1
<1>6. CASE Prompt
  <2>1. TypeOK' /\ Goals' /\ Outcome'
    BY <1>0, <1>1, <1>6 DEF Prompt, TypeOK, Goals, Outcome
  <2>2. QED
    BY <1>1, <2>1
<1>7. CASE FinishRollback
  <2>1. TypeOK' /\ Goals' /\ Outcome'
    BY <1>0, <1>1, <1>7 DEF FinishRollback, Starting, TypeOK, Goals, Outcome
  <2>2. QED
    BY <1>1, <2>1
<1>8. QED
  BY <1>2, <1>3, <1>4, <1>5, <1>6, <1>7

\* A failed switch is refused before any set, given up, or rolled back.
LEMMA SwitchLemma ==
  ASSUME ConfigInvariant, FailSwitch
  PROVE  ConfigInvariant'
<1> USE DEF ConfigInvariant
<1>0. machine.goal = "new" /\ machine.phase = "failed" /\ run.outcome = "starting"
      /\ UNCHANGED <<request, shown, agent>>
  BY DEF FailSwitch, Starting
<1>2. CASE machine.leg = 0 /\ run' = [run EXCEPT !.outcome = "refused"] /\ machine' = machine
  BY <1>0, <1>2 DEF TypeOK, Goals, Outcome, VerifiedIsExact
<1>3. CASE run' = [run EXCEPT !.outcome = "refused", !.rollback = "unproven"]
           /\ machine' = machine
  BY <1>0, <1>3 DEF TypeOK, Goals, Outcome, VerifiedIsExact
<1>4. CASE /\ request.previous.known /\ run' = [run EXCEPT !.rollback = "running"]
           /\ machine' = [goal |-> "old", phase |-> "options", leg |-> 0]
  <2>1. TypeOK'
    BY <1>0, <1>4 DEF TypeOK, Phases
  <2>2. Goals' /\ Outcome' /\ VerifiedIsExact'
    BY <1>0, <1>4 DEF TypeOK, Goals, Outcome, VerifiedIsExact
  <2>3. QED
    BY <2>1, <2>2
<1>5. QED
  BY <1>2, <1>3, <1>4 DEF FailSwitch

LEMMA StutterLemma ==
  ASSUME ConfigInvariant, UNCHANGED vars
  PROVE  ConfigInvariant'
<1>1. Legs(machine.goal)' = Legs(machine.goal) /\ AgentHas(machine.goal)' = AgentHas(machine.goal)
  BY DEF vars, Legs, Wanted, AgentHas, Exact, Target, ModeExact, WholeExact, ParameterIdsExact, Owned
<1>2. QED
  BY <1>1 DEF ConfigInvariant, vars, TypeOK, Goals, Outcome, VerifiedIsExact

\* The inductive invariant of the configuration sequence and its rollback
\* (ConfigFidelityMachine, set_config_exact, _rollback_after_partial_switch).
THEOREM ConfigInvariantHolds == Spec => []ConfigInvariant
<1>1. ASSUME ConfigInvariant, [Next]_vars PROVE ConfigInvariant'
  BY <1>1, PlanLemma, AnswerLemma, RunLemma, SwitchLemma, StutterLemma DEF Next
<1>2. QED
  BY InitLemma, <1>1, PTL DEF Spec

\* No prompt is sent before the agent has shown exactly the requested
\* configuration, whatever else it changed on the way (require_ready).
THEOREM PromptIsConfiguredHolds == Spec => []PromptIsConfigured
<1>1. ConfigInvariant => PromptIsConfigured
  BY DEF ConfigInvariant, Outcome, VerifiedIsExact, PromptIsConfigured
<1>2. QED
  BY <1>1, ConfigInvariantHolds, PTL

\* A switch that set something and failed is undone exactly, or marked unproven
\* (_rollback_after_partial_switch).
THEOREM PartialSwitchIsSettledHolds == Spec => []PartialSwitchIsSettled
<1>1. ConfigInvariant => PartialSwitchIsSettled
  BY DEF ConfigInvariant, TypeOK, Goals, Outcome, VerifiedIsExact, PartialSwitchIsSettled
<1>2. QED
  BY <1>1, ConfigInvariantHolds, PTL
===============================================================================
