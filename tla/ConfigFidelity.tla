---------------------------- MODULE ConfigFidelity ----------------------------
(***************************************************************************)
(* The exact configuration sequence of one Run: the machine that decides   *)
(* what may be set next and what a complete option set must show, the      *)
(* driver's set_config_exact that walks it, the agent that answers, and    *)
(* the rollback of a partial switch.                                       *)
(*                                                                         *)
(* An option set is a function from selectors to the value each one shows: *)
(* the requested one, the one the Session was last proven to have, any     *)
(* other, or none because the selector is not in the set.  The choices a   *)
(* selector offers are the agent's affair: a plan may always find its      *)
(* value missing.                                                          *)
(***************************************************************************)
EXTENDS Naturals, Sequences, SequencesExt

CONSTANTS
  Literals  \* the parameter lists of the parameterized model literals

Fidelities == {"separate-selectors", "model-only", "parameterized"}
Selectors == {"mode", "model", "effort"} \cup UNION {ToSet(p) : p \in Literals}
Values == {"new", "old", "other", "absent"}

ASSUME LiteralsAssumption ==
  \A p \in Literals :
    p \in Seq(Selectors) /\ ToSet(p) \cap {"mode", "model"} = {} /\ IsInjective(p)

VARIABLES
  request,  \* what the Run asks for, and what its Session was proven to have
  machine,  \* the ConfigFidelityMachine at work: its goal, phase and leg
  shown,    \* the last option set in the Run's discovery snapshots
  agent,    \* external: the configuration the agent really has
  run       \* what the Run knows: foreign, rollback, outcome, sets written

vars == <<request, machine, shown, agent, run>>

NoLiteral == [known |-> FALSE, parameters |-> <<>>]

\* validate_fidelity_pairing and parse_parameterized_model: the requests that
\* get as far as a machine.  Only a parameterized literal names parameters.  A
\* Session that was just created was never proven to have anything.
Requests ==
  {q \in [fidelity : Fidelities, mode : BOOLEAN, parameters : Literals \cup {<<>>},
          previous : [known : {TRUE}, parameters : Literals \cup {<<>>}] \cup {NoLiteral}] :
     q.fidelity # "parameterized" => q.parameters = <<>> /\ q.previous.parameters = <<>>}

\* "options": a complete set is at hand to plan the next leg from; "sent": a
\* set_config_option request is out.
Phases == {"init", "options", "sent", "verified", "failed"}

TypeOK ==
  /\ request \in Requests
  /\ machine \in [goal : {"new", "old"}, phase : Phases, leg : Nat]
  /\ shown \in [Selectors -> Values] /\ agent \in [Selectors -> Values]
  /\ run \in [foreign : BOOLEAN, sets : Nat, rollback : {"none", "running", "proven", "unproven"},
              outcome : {"starting", "ready", "prompted", "refused", "cancelled"}]

Init ==
  /\ request \in Requests
  /\ machine = [goal |-> "new", phase |-> "init", leg |-> 0]
  /\ shown = [s \in Selectors |-> "absent"]
  /\ agent = [s \in Selectors |-> "absent"]
  /\ run = [foreign |-> FALSE, sets |-> 0, rollback |-> "none", outcome |-> "starting"]

-----------------------------------------------------------------------------
(* ConfigFidelityMachine *)

\* The parameters of the literal the machine at work was built for.
Wanted(goal) == IF goal = "new" THEN request.parameters ELSE request.previous.parameters

\* The sets of one sequence, in order.
Legs(goal) ==
  (IF request.mode THEN <<"mode">> ELSE <<>>) \o <<"model">> \o
  (IF request.fidelity = "separate-selectors" THEN <<"effort">> ELSE Wanted(goal))

\* The value a selector is set to.  The permission mode comes from the grant,
\* so it is the same for a rollback.
Target(goal, s) == IF s = "mode" THEN "new" ELSE goal

Exact(set, goal, s) == set[s] = Target(goal, s)

ModeExact(set, goal) == request.mode => Exact(set, goal, "mode")

\* The selectors that are no model's parameter: the permission mode's is one of
\* them only where the Run has a mode selector.
Owned == {"model"} \cup (IF request.mode THEN {"mode"} ELSE {})

\* _require_parameter_ids: every parameter of the literal is in the set, and
\* none is that the literal leaves to the agent.
ParameterIdsExact(set, goal) ==
  {s \in Selectors \ Owned : set[s] # "absent"} = ToSet(Wanted(goal))

\* Mutant: the mode that its own leg proved is taken to hold from there on.
ModeTrusted(set, goal) ==
  /\ Exact(set, goal, "model") /\ ParameterIdsExact(set, goal)
  /\ \A s \in ToSet(Wanted(goal)) : Exact(set, goal, s)

\* _verify_whole_configuration
WholeExact(set, goal) ==
  /\ Exact(set, goal, "model") /\ ParameterIdsExact(set, goal)
  /\ \A s \in ToSet(Wanted(goal)) : Exact(set, goal, s)
  /\ ModeExact(set, goal)

\* What a complete set must show after the set of s: record_post_mode_options,
\* record_post_model_options, record_post_effort_options and
\* record_post_parameter_options.
Proves(set, goal, s) ==
  LET last == machine.leg = Len(Legs(goal)) IN
  CASE s = "mode" ->
         Exact(set, goal, "mode")
    [] s = "model" /\ request.fidelity = "separate-selectors" ->
         Exact(set, goal, "model")
    [] s = "model" /\ request.fidelity = "model-only" ->
         Exact(set, goal, "model") /\ ModeExact(set, goal)
    [] s = "model" /\ request.fidelity = "parameterized" ->
         /\ Exact(set, goal, "model") /\ ModeExact(set, goal) /\ ParameterIdsExact(set, goal)
         /\ last => WholeExact(set, goal)
    [] s = "effort" /\ request.fidelity = "separate-selectors" ->
         Exact(set, goal, "model") /\ Exact(set, goal, "effort") /\ ModeExact(set, goal)
    [] OTHER ->
         /\ Exact(set, goal, "model") /\ Exact(set, goal, s)
         /\ last => WholeExact(set, goal)

\* Most legs record the set before they judge it; the model leg records it once
\* the model, and the mode of a whole configuration, are exact.
Records(set, goal, s) ==
  s = "model" => /\ Exact(set, goal, "model")
                 /\ request.fidelity # "separate-selectors" => ModeExact(set, goal)

-----------------------------------------------------------------------------
(* NativeAcpDriver and the Run's startup *)

Starting == run.outcome = "starting"

\* session/new or session/load answers with a complete set, or without one, or
\* not at all: record_initial_options.  Nothing was set, so nothing is undone.
OpenSession ==
  /\ Starting /\ machine.phase = "init"
  /\ \/ /\ \E set \in [Selectors -> {"old", "absent"}] : agent' = set /\ shown' = set
        /\ machine' = [machine EXCEPT !.phase = "options"]
        /\ UNCHANGED run
     \/ /\ run' = [run EXCEPT !.outcome = "refused"]
        /\ UNCHANGED <<machine, shown, agent>>
  /\ UNCHANGED request

\* permission_mode_plan, model_plan, effort_plan and parameter_plan: the next
\* selector must be in the last complete set, as a select that offers the value.
PlanLeg ==
  /\ Starting /\ machine.phase = "options" /\ machine.leg < Len(Legs(machine.goal))
  /\ \/ /\ shown[Legs(machine.goal)[machine.leg + 1]] # "absent"
        /\ machine' = [machine EXCEPT !.phase = "sent", !.leg = @ + 1]
        /\ run' = [run EXCEPT !.sets = @ + 1]
     \/ /\ machine' = [machine EXCEPT !.phase = "failed"]
        /\ UNCHANGED run
  /\ UNCHANGED <<request, shown, agent>>

\* What the agent may do with a set of s: take the value or show any other, and
\* change one more option on the way.  A session is opened with any options.
Answers(goal, s) ==
  {[o \in Selectors |-> IF o = s THEN v ELSE IF o = other THEN w ELSE agent[o]] :
     other \in Selectors, v, w \in {Target(goal, "mode"), goal, "other", "absent"}}

\* The agent answers with its complete configuration, or with an error.  A set
\* whose answer is lost may still have moved it.
AnswerLeg ==
  /\ Starting /\ machine.phase = "sent"
  /\ LET goal == machine.goal
         s == Legs(goal)[machine.leg] IN
     \E set \in Answers(goal, s) :
       /\ agent' = set
       /\ \/ /\ shown' = IF Records(set, goal, s) THEN set ELSE shown
             /\ machine' = [machine EXCEPT !.phase =
                  IF ~Proves(set, goal, s) THEN "failed"
                  ELSE IF machine.leg < Len(Legs(goal)) THEN "options" ELSE "verified"]
          \/ /\ machine' = [machine EXCEPT !.phase = "failed"]
             /\ UNCHANGED shown
  /\ UNCHANGED <<request, run>>

\* A callback for another Session: _require_session_id records the violation.
ForeignUpdate ==
  /\ run.outcome \in {"starting", "ready"} /\ machine.phase # "init"
  /\ run' = [run EXCEPT !.foreign = TRUE]
  /\ UNCHANGED <<request, machine, shown, agent>>

\* The end of set_config_exact for the Run's own machine.
Configured ==
  /\ Starting /\ machine.goal = "new" /\ machine.phase = "verified" /\ ~run.foreign
  /\ run' = [run EXCEPT !.outcome = "ready"]
  /\ UNCHANGED <<request, machine, shown, agent>>

\* Mutant: a create has nothing to go back to, so there is nothing to mark.
RollbackIfKnown ==
  /\ Starting /\ machine.goal = "new" /\ machine.phase = "failed" /\ ~run.foreign
  /\ run' = [run EXCEPT !.outcome = IF machine.leg > 0 /\ request.previous.known THEN @ ELSE "refused",
                        !.rollback = IF machine.leg > 0 /\ request.previous.known THEN "running" ELSE @]
  /\ machine' = IF machine.leg > 0 /\ request.previous.known
                THEN [goal |-> "old", phase |-> "options", leg |-> 0] ELSE machine
  /\ UNCHANGED <<request, shown, agent>>

\* A ConfigFidelityError or NativeDriverError once a set was planned is a
\* partial switch: _rollback_after_partial_switch starts a machine for the pair
\* last proven from the latest snapshot, or gives up when there is none.
FailSwitch ==
  /\ Starting /\ machine.goal = "new" /\ machine.phase = "failed" /\ ~run.foreign
  /\ \/ /\ machine.leg = 0
        /\ run' = [run EXCEPT !.outcome = "refused"]
        /\ UNCHANGED machine
     \/ /\ machine.leg > 0 /\ ~request.previous.known
        /\ run' = [run EXCEPT !.outcome = "refused", !.rollback = "unproven"]
        /\ UNCHANGED machine
     \/ /\ machine.leg > 0 /\ request.previous.known
        /\ run' = [run EXCEPT !.rollback = "running"]
        /\ machine' = [goal |-> "old", phase |-> "options", leg |-> 0]
  /\ UNCHANGED <<request, shown, agent>>

\* An identity violation ends the startup before any rollback.
FailForeign ==
  /\ Starting /\ machine.goal = "new" /\ machine.phase \in {"failed", "verified"} /\ run.foreign
  /\ run' = [run EXCEPT !.outcome = "refused"]
  /\ UNCHANGED <<request, machine, shown, agent>>

\* The rollback is exact-readback gated like the switch; either way the Run is
\* refused.
FinishRollback ==
  /\ Starting /\ machine.goal = "old" /\ machine.phase \in {"failed", "verified"}
  /\ run' = [run EXCEPT !.outcome = "refused",
                        !.rollback = IF machine.phase = "verified" /\ ~run.foreign
                                     THEN "proven" ELSE "unproven"]
  /\ UNCHANGED <<request, machine, shown, agent>>

\* The startup timeout cancels the sequence, a rollback too.
StartupTimeout ==
  /\ Starting
  /\ run' = [run EXCEPT !.outcome = "cancelled"]
  /\ UNCHANGED <<request, machine, shown, agent>>

\* prompt_once: require_ready on the Run's own machine, then the identity.
Prompt ==
  /\ run.outcome = "ready"
  /\ run' = [run EXCEPT !.outcome =
               IF machine.goal = "new" /\ machine.phase = "verified" /\ ~run.foreign
               THEN "prompted" ELSE "refused"]
  /\ UNCHANGED <<request, machine, shown, agent>>

Next ==
  \/ OpenSession \/ PlanLeg \/ AnswerLeg \/ ForeignUpdate \/ Configured
  \/ FailSwitch \/ FailForeign \/ FinishRollback \/ StartupTimeout \/ Prompt

Spec == Init /\ [][Next]_vars

-----------------------------------------------------------------------------
(* Properties *)

\* The agent has the pair of a goal, no parameter left to chance, and the
\* permission mode the grant requires.
AgentHas(goal) ==
  /\ Exact(agent, goal, "model") /\ ModeExact(agent, goal)
  /\ request.fidelity = "separate-selectors" => Exact(agent, goal, "effort")
  /\ request.fidelity = "parameterized" => WholeExact(agent, goal)

\* Zero prompt without proof: what the agent has when a prompt is sent is the
\* requested configuration whatever it did with its other options in between,
\* and no callback of another Session was seen.
PromptIsConfigured ==
  run.outcome = "prompted" =>
    AgentHas("new") /\ ~run.foreign /\ run.rollback = "none"

\* A switch that set something and then failed is undone, and the agent is back
\* to the pair the Session was proven to have, or it is marked unproven, which
\* quarantines the Session.  A switch that the startup timeout cancelled, and one
\* that another Session's callback ended, are neither undone nor marked: they are
\* left out here and are UnprovenSwitchIsBlocked in RunLifecycle.
PartialSwitchIsSettled ==
  run.outcome = "refused" /\ run.sets > 0 /\ ~run.foreign =>
    \/ run.rollback = "unproven"
    \/ run.rollback = "proven" /\ request.previous.known /\ AgentHas("old")
=============================================================================
