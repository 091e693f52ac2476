-------------------------- MODULE ChildProcessProofs --------------------------
(***************************************************************************)
(* What is proved about ChildProcess, for any number of waits that raise:  *)
(* the hand-over after the exit, the record of what is left behind, and    *)
(* the clean probe.  None is inductive: each depends on what the coroutine *)
(* knew about the exit several places earlier.                             *)
(***************************************************************************)
EXTENDS ChildProcess, TLAPS

ProbePlaces == {"spawn", "exchange", "probeTerm", "probePollTerm", "probeKill",
                "probePollKill", "over", "raised"}
RunPlaces == Places \ {"exchange", "probeTerm", "probePollTerm", "probeKill",
                       "probePollKill", "raised"}

\* Who is where, and what a place says about wait() and the process.
Placed ==
  /\ pc \in IF owner = "run" THEN RunPlaces ELSE ProbePlaces
  /\ waiting # "no" => pc \in Waits
  /\ pc \in {"admit", "spawn"} => leader = "none" /\ ~exitState

\* A proven exit, and a join under way, mean that the leader is gone.
ExitIsProven ==
  /\ exitState \/ waiting = "join" => leader = "exited"
  /\ leader = "none" => descendant = "none"
  /\ pc \in {"settle", "publish", "dispose"} => leader = "none" \/ exitState
  /\ pc = "over" /\ owner = "run" => leader # "running"

\* What the Run has given up, and what it has left.
Handover ==
  /\ owner = "probe" => material = "none" /\ lease = "held"
  /\ lease = "released" => leader # "running" /\ pc = "over"
  /\ material = "gone" => leader # "running" /\ pc \notin {"admit", "spawn"}
  /\ material = "partial" => marker # "none"
  /\ pc = "over" /\ material = "policy" => marker # "none"

\* A probe answers at its end, and only when it has seen the group empty.
Reported == report = "clean" => pc = "over" /\ InGroup = {}

ChildInvariant == TypeOK /\ Placed /\ ExitIsProven /\ Handover /\ Reported

Outcomes == {"ok", "timeout", "raised", "cancelled"}

\* The table of After keeps a Run among its places and a probe among its own,
\* and only a wait() that returned leads to a place that relies on the exit.
LEMMA RowsLemma ==
  /\ \A p \in Waits \cap RunPlaces, o \in Outcomes :
       /\ After[p][o] \in RunPlaces \ {"over", "publish", "admit", "spawn"}
       /\ o # "ok" => After[p][o] \notin {"settle", "dispose"}
  /\ \A p \in Waits \cap ProbePlaces, o \in Outcomes :
       /\ After[p][o] \in ProbePlaces \ {"spawn"}
       /\ After[p][o] = "over" => o # "ok"
<1>1. ASSUME NEW p \in Waits, NEW o \in Outcomes
      PROVE  /\ p \in RunPlaces =>
                  /\ After[p][o] \in RunPlaces \ {"over", "publish", "admit", "spawn"}
                  /\ o # "ok" => After[p][o] \notin {"settle", "dispose"}
             /\ p \in ProbePlaces =>
                  /\ After[p][o] \in ProbePlaces \ {"spawn"}
                  /\ After[p][o] = "over" => o # "ok"
  BY DEF After, Row, EmergencyReap, GroupSettled, Waits, TimedWaits, Outcomes,
         RunPlaces, ProbePlaces, Places, Finalizing
<1>2. QED
  BY <1>1

LEMMA InitLemma == Init => ChildInvariant
<1> SUFFICES ASSUME Init PROVE ChildInvariant
  OBVIOUS
<1>1. TypeOK
  <2>1. failures \in 0..MaxWaitFailures
    BY WaitFailuresAssumption DEF Init
  <2>2. pc \in Places /\ killed \subseteq {"leader", "descendant"}
    BY DEF Init, Places
  <2>3. exitState \in BOOLEAN /\ holds \in BOOLEAN
    BY DEF Init
  <2>4. QED
    BY <2>1, <2>2, <2>3 DEF Init, TypeOK
<1>2. Placed
  BY DEF Init, Placed, RunPlaces, ProbePlaces, Places
<1>3. ExitIsProven /\ Handover /\ Reported
  BY DEF Init, ExitIsProven, Handover, Reported
<1>4. QED
  BY <1>1, <1>2, <1>3 DEF ChildInvariant

\* A wait() that ends, however it does: with a proven exit if it returned, and
\* otherwise at a place that relies on none.
LEMMA ResumeLemma ==
  ASSUME ChildInvariant, pc \in Waits, NEW o \in Outcomes, Resume(o),
         drain' \in {"reading", "eof", "cancelled"}, failures' \in 0..MaxWaitFailures,
         exitState' \in BOOLEAN, exitState => exitState',
         exitState' => leader = "exited", o = "ok" => exitState'
  PROVE  ChildInvariant'
<1> DEFINE q == After[pc][o]
<1> USE DEF ChildInvariant
<1>0. pc' = q /\ waiting' \in {"no", "exit"} /\ (waiting' # "no" => q \in Waits)
      /\ killed' \subseteq {"leader", "descendant"}
      /\ report' \in {report, "clean", "cleanup_failed"}
      /\ (report' = "clean" => report = "clean" \/ (owner = "probe" /\ q = "over" /\ o = "ok"))
      /\ UNCHANGED <<owner, leader, descendant, holds, material, marker, lease>>
  BY DEF Resume, Go, Told, TypeOK, InGroup
<1>1. CASE owner = "run"
  <2>1. q \in RunPlaces \ {"over", "publish", "admit", "spawn"}
        /\ (o # "ok" => q \notin {"settle", "dispose"})
    BY <1>1, RowsLemma DEF Placed
  <2>2. pc # "over" /\ report # "clean" /\ lease # "released" /\ lease = "held"
    BY DEF Waits, TimedWaits, Reported, Handover, TypeOK
  <2>3. TypeOK'
    BY <1>0, <2>1 DEF TypeOK, RunPlaces
  <2>4. Placed' /\ ExitIsProven'
    BY <1>0, <1>1, <2>1 DEF Placed, ExitIsProven, TypeOK
  <2>5. Handover' /\ Reported'
    BY <1>0, <1>1, <2>1, <2>2 DEF Handover, Reported
  <2>6. QED
    BY <2>3, <2>4, <2>5
<1>2. CASE owner = "probe"
  <2>1. q \in ProbePlaces \ {"spawn"} /\ (q = "over" => o # "ok")
    BY <1>2, RowsLemma DEF Placed
  <2>2. pc # "over" /\ report # "clean"
    BY DEF Waits, TimedWaits, Reported
  <2>3. TypeOK'
    BY <1>0, <2>1 DEF TypeOK, ProbePlaces, Places, Waits, TimedWaits
  <2>4. Placed' /\ ExitIsProven'
    BY <1>0, <1>2, <2>1 DEF Placed, ExitIsProven, TypeOK, ProbePlaces
  <2>5. Handover' /\ Reported'
    BY <1>0, <1>2, <2>1, <2>2 DEF Handover, Reported
  <2>6. QED
    BY <2>3, <2>4, <2>5
<1>3. QED
  BY <1>1, <1>2 DEF TypeOK

\* The steps of wait(), and of those who give up on it.
LEMMA WaitLemma ==
  ASSUME ChildInvariant,
         WaitReturnsAgain \/ WaitSeesExit \/ WaitRaises \/ JoinReturns
           \/ JoinOfCancelled \/ CallerTimesOut
  PROVE  ChildInvariant'
<1> USE DEF ChildInvariant
<1>1. CASE WaitReturnsAgain
  <2>1. pc \in Waits /\ Resume("ok") /\ UNCHANGED <<drain, exitState, failures>> /\ exitState
    BY <1>1 DEF WaitReturnsAgain, Placed
  <2>2. QED
    BY <2>1, ResumeLemma DEF TypeOK, ExitIsProven, Outcomes
<1>2. CASE WaitSeesExit
  <2>1. TypeOK' /\ Placed' /\ ExitIsProven'
    BY <1>2 DEF WaitSeesExit, TypeOK, Placed, ExitIsProven, process, store
  <2>2. Handover' /\ Reported'
    BY <1>2 DEF WaitSeesExit, Handover, Reported, InGroup, process, store
  <2>3. QED
    BY <2>1, <2>2
<1>3. CASE WaitRaises
  <2>1. pc \in Waits /\ Resume("raised") /\ UNCHANGED <<drain, exitState>>
        /\ failures' \in 0..MaxWaitFailures
    BY <1>3, WaitFailuresAssumption DEF WaitRaises, Placed, TypeOK
  <2>2. QED
    BY <2>1, ResumeLemma DEF TypeOK, ExitIsProven, Outcomes
<1>4. CASE JoinReturns
  <2>1. pc \in Waits /\ Resume("ok") /\ exitState' = TRUE /\ UNCHANGED failures
        /\ drain' \in {"reading", "eof", "cancelled"} /\ leader = "exited"
    BY <1>4 DEF JoinReturns, Placed, ExitIsProven, TypeOK
  <2>2. QED
    BY <2>1, ResumeLemma DEF TypeOK, Outcomes
<1>5. CASE JoinOfCancelled
  <2>1. pc \in Waits /\ Resume("cancelled") /\ UNCHANGED <<drain, exitState, failures>>
    BY <1>5 DEF JoinOfCancelled, Placed
  <2>2. QED
    BY <2>1, ResumeLemma DEF TypeOK, ExitIsProven, Outcomes
<1>6. CASE CallerTimesOut
  <2>1. pc \in Waits /\ Resume("timeout") /\ UNCHANGED <<exitState, failures>>
        /\ drain' \in {"reading", "eof", "cancelled"}
    BY <1>6 DEF CallerTimesOut, CancelWait, Waits, TypeOK
  <2>2. QED
    BY <2>1, ResumeLemma DEF TypeOK, ExitIsProven, Outcomes
<1>7. QED
  BY <1>1, <1>2, <1>3, <1>4, <1>5, <1>6

\* Processes come and go; only the leader has descendants.
LEMMA ProcessLemma ==
  ASSUME ChildInvariant, LeaderExits \/ DescendantExits \/ Fork \/ DrainEnds
  PROVE  ChildInvariant'
<1> USE DEF ChildInvariant
<1>1. UNCHANGED <<owner, pc, waiting, exitState, failures, material, marker, lease, report, killed>>
      /\ drain' \in {"reading", "eof", "cancelled"} /\ holds' \in BOOLEAN
  BY DEF LeaderExits, DescendantExits, Fork, DrainEnds, wind, store, process, TypeOK
<1>2. /\ leader' \in {leader, "exited"} /\ (leader' # leader => leader = "running")
      /\ descendant' \in {descendant, "group", "left", "gone"}
      /\ descendant' # descendant => leader = "running" \/ descendant' = "gone"
      /\ descendant' = "gone" => descendant # "none"
  BY DEF LeaderExits, DescendantExits, Fork, DrainEnds, process, TypeOK
<1>3. TypeOK'
  BY <1>1, <1>2 DEF TypeOK
<1>4. Placed' /\ ExitIsProven'
  BY <1>1, <1>2 DEF Placed, ExitIsProven, TypeOK
<1>5. Handover'
  BY <1>1, <1>2 DEF Handover
<1>6. Reported'
  BY <1>1, <1>2 DEF Reported, InGroup
<1>7. QED
  BY <1>3, <1>4, <1>5, <1>6

\* Launch permissions are made before the child, and named if a part survives.
LEMMA StartLemma ==
  ASSUME ChildInvariant, Materialize \/ Spawn
  PROVE  ChildInvariant'
<1> USE DEF ChildInvariant
<1>1. CASE Materialize
  <2>1. /\ pc' \in {"spawn", "close"} /\ pc = "admit"
        /\ material' \in {"none", "policy", "partial"}
        /\ marker' \in {"none", "written", "lost"}
        /\ material' = "partial" => marker' # "none"
        /\ UNCHANGED <<owner, lease, report>> /\ UNCHANGED process /\ UNCHANGED wind
    BY <1>1 DEF Materialize, LeavePartial, RecordCleanupFailure, TypeOK
  <2>2. owner = "run" /\ leader = "none"
    BY <2>1 DEF Placed, ProbePlaces, TypeOK
  <2>3. TypeOK'
    BY <2>1 DEF TypeOK, process, wind, Places, Finalizing
  <2>4. Placed' /\ ExitIsProven'
    BY <2>1, <2>2 DEF Placed, ExitIsProven, process, wind, RunPlaces, Places, Finalizing,
                      Waits, TimedWaits
  <2>5. Handover' /\ Reported'
    BY <2>1, <2>2 DEF Handover, Reported, process
  <2>6. QED
    BY <2>3, <2>4, <2>5
<1>2. CASE Spawn
  <2>1. /\ pc = "spawn" /\ leader = "none" /\ descendant = "none" /\ ~exitState
        /\ waiting = "no" /\ lease = "held" /\ material # "gone" /\ report # "clean"
    BY <1>2 DEF Spawn, Placed, ExitIsProven, Handover, Reported, Waits, TimedWaits, TypeOK
  <2>2. /\ pc' \in {"drive", "exchange", "close", "over"}
        /\ owner = "run" => pc' \in {"drive", "close"} /\ report' = report
        /\ owner = "probe" => pc' \in {"exchange", "over"}
        /\ leader' \in {"none", "running"} /\ report' \in {report, "clean"}
        /\ report' = "clean" => leader' = "none" /\ pc' = "over"
        /\ UNCHANGED <<owner, descendant, holds, killed, material, marker, lease>>
        /\ UNCHANGED wind
    BY <1>2, <2>1 DEF Spawn, TypeOK
  <2>3. TypeOK'
    BY <2>2 DEF TypeOK, wind, Places, Finalizing
  <2>4. Placed'
    BY <2>1, <2>2 DEF Placed, wind, RunPlaces, ProbePlaces, Places, Finalizing, TypeOK
  <2>5. ExitIsProven' /\ Handover'
    BY <2>1, <2>2 DEF ExitIsProven, Handover, wind, TypeOK
  <2>6. Reported'
    BY <2>1, <2>2 DEF Reported, InGroup
  <2>7. QED
    BY <2>3, <2>4, <2>5, <2>6
<1>3. QED
  BY <1>1, <1>2

\* A step of the coroutine that only goes on: to a place that relies on no exit,
\* or to one that has it.
LEMMA GoLemma ==
  ASSUME ChildInvariant, NEW q, Go(q), pc # "over",
         q \in IF owner = "run" THEN RunPlaces \ {"over", "admit", "spawn"}
                                ELSE ProbePlaces \ {"over", "spawn"},
         q \in {"settle", "publish", "dispose"} => leader = "none" \/ exitState,
         drain' \in {"reading", "eof", "cancelled"},
         UNCHANGED <<owner, leader, descendant, holds, exitState, failures>>,
         UNCHANGED store
  PROVE  ChildInvariant'
<1> USE DEF ChildInvariant
<1>1. pc' = q /\ waiting' \in {"no", "exit"} /\ (waiting' # "no" => q \in Waits)
      /\ killed' \subseteq {"leader", "descendant"} /\ q \in Places
  BY DEF Go, TypeOK, InGroup, RunPlaces, ProbePlaces, Places, Waits, TimedWaits
<1>2. TypeOK'
  BY <1>1 DEF TypeOK, store
<1>3. Placed' /\ ExitIsProven'
  BY <1>1 DEF Placed, ExitIsProven, TypeOK, ProbePlaces
<1>4. Handover' /\ Reported'
  BY <1>1 DEF Handover, Reported, store, TypeOK
<1>5. QED
  BY <1>2, <1>3, <1>4

\* The places of a Run and of a probe between the turn and the end.
LEMMA OwnerLemma ==
  ASSUME ChildInvariant,
         TurnOver \/ Interrupt \/ Closed \/ Retry \/ Exchange
  PROVE  ChildInvariant'
<1> USE DEF ChildInvariant
<1>0. ASSUME pc \in {"drive", "close", "escalate", "escalateKill", "lost", "term", "kill",
                     "publish", "retry"}
      PROVE  owner = "run"
  BY <1>0 DEF Placed, ProbePlaces, TypeOK
<1>1. CASE TurnOver
  <2>1. PICK q \in {"close", "escalate", "lost"} : Go(q)
    BY <1>1 DEF TurnOver
  <2>2. q \in RunPlaces \ {"over", "admit", "spawn"}
    BY <2>1 DEF RunPlaces, Places, Waits, TimedWaits, Finalizing
  <2>3. owner = "run" /\ pc = "drive"
    BY <1>0, <1>1 DEF TurnOver
  <2>4. QED
    BY <1>1, <2>1, <2>2, <2>3, GoLemma DEF TurnOver, TypeOK
<1>2. CASE Interrupt
  <2>1. PICK q \in {"close", "dispose", "emergency"} :
          Go(q) /\ (q = "dispose" => leader = "none")
    BY <1>2 DEF Interrupt
  <2>2. q \in RunPlaces \ {"over", "admit", "spawn"}
    BY <2>1 DEF RunPlaces, Places, Waits, TimedWaits, Finalizing
  <2>3. owner = "run" /\ pc # "over" /\ drain' \in {"reading", "eof", "cancelled"}
        /\ UNCHANGED <<exitState, failures>>
    BY <1>0, <1>2 DEF Interrupt, CancelWait, TypeOK
  <2>4. QED
    BY <1>2, <2>1, <2>2, <2>3, GoLemma DEF Interrupt
<1>3. CASE Closed
  <2>1. PICK q \in {"term", "settle"} :
          Go(q) /\ (q = "settle" => leader = "none" \/ exitState)
    BY <1>3 DEF Closed
  <2>2. q \in RunPlaces \ {"over", "admit", "spawn"}
    BY <2>1 DEF RunPlaces, Places, Waits, TimedWaits, Finalizing
  <2>3. owner = "run" /\ pc = "close"
    BY <1>0, <1>3 DEF Closed
  <2>4. QED
    BY <1>3, <2>1, <2>2, <2>3, GoLemma DEF Closed, TypeOK
<1>4. CASE Retry
  <2>1. owner = "run" /\ pc = "retry" /\ pc' = "emergency" /\ waiting' = "exit"
        /\ "emergency" \in Waits /\ "emergency" \in RunPlaces
    BY <1>0, <1>4 DEF Retry, RunPlaces, Places, Waits
  <2>2. TypeOK' /\ Placed' /\ ExitIsProven'
    BY <1>4, <2>1 DEF Retry, TypeOK, Placed, ExitIsProven, process, store, RunPlaces
  <2>3. Handover' /\ Reported'
    BY <1>4, <2>1 DEF Retry, Handover, Reported, process, store
  <2>4. QED
    BY <2>2, <2>3
<1>5. CASE Exchange
  <2>1. owner = "probe" /\ pc = "exchange" /\ Go("probeTerm")
    BY <1>5 DEF Exchange, Placed, RunPlaces, TypeOK
  <2>2. QED
    BY <1>5, <2>1, GoLemma DEF Exchange, TypeOK, ProbePlaces
<1>6. QED
  BY <1>1, <1>2, <1>3, <1>4, <1>5

\* The cleanup of launch permissions, once the exit is proven, removes them or
\* leaves a marker.
LEMMA CleanUpLemma ==
  ASSUME ChildInvariant, CleanUp, leader = "none" \/ exitState
  PROVE  /\ material' \in {material, "gone"} /\ marker' \in {"none", "written", "lost"}
         /\ material' = "gone" => material \in {"policy", "gone"}
         /\ marker # "none" => marker' = marker
         /\ material' = "policy" => marker' # "none"
BY DEF ChildInvariant, CleanUp, Discard, RecordCleanupFailure, TypeOK

\* The end of a Run.
LEMMA EndLemma ==
  ASSUME ChildInvariant, Settle \/ End
  PROVE  ChildInvariant'
<1> USE DEF ChildInvariant
<1>1. pc \in {"settle", "publish", "dispose"} /\ CleanUp /\ pc' \in {"publish", "over"}
      /\ waiting' = "no" /\ killed' = killed
      /\ UNCHANGED <<owner, leader, descendant, holds, drain, exitState, failures, report>>
  BY DEF Settle, End, Go, Waits, TimedWaits
<1>2. owner = "run" /\ (leader = "none" \/ exitState) /\ leader # "running"
  BY <1>1 DEF Placed, ExitIsProven, ProbePlaces, TypeOK
<1>3. lease' \in {"held", "released"} /\ (lease' = "released" => pc' = "over")
  BY <1>1 DEF Settle, End, Go, Handover, TypeOK
<1>4. /\ material' \in {material, "gone"} /\ marker' \in {"none", "written", "lost"}
      /\ marker # "none" => marker' = marker
      /\ material' = "policy" => marker' # "none"
  BY <1>1, <1>2, CleanUpLemma
<1>5. TypeOK'
  BY <1>1, <1>3, <1>4 DEF TypeOK, Places, Finalizing
<1>6. Placed' /\ ExitIsProven'
  BY <1>1, <1>2 DEF Placed, ExitIsProven, RunPlaces, Places, Finalizing, TypeOK
<1>7. Handover' /\ Reported'
  BY <1>1, <1>2, <1>3, <1>4 DEF Handover, Reported
<1>8. QED
  BY <1>5, <1>6, <1>7

\* The probe's poll: the answer is clean only over an empty group.
LEMMA PollLemma ==
  ASSUME ChildInvariant, Poll
  PROVE  ChildInvariant'
<1> USE DEF ChildInvariant
<1>1. owner = "probe" /\ pc \in {"probePollTerm", "probePollKill"} /\ report # "clean"
  BY DEF Poll, Placed, RunPlaces, Reported, TypeOK
<1>2. /\ pc' \in {"over", "probeKill"} /\ waiting' \in {"no", "exit"}
      /\ waiting' # "no" => pc' \in Waits
      /\ killed' \subseteq {"leader", "descendant"}
      /\ report' \in {"none", "clean", "cleanup_failed"}
      /\ report' = "clean" => pc' = "over" /\ InGroup = {}
      /\ UNCHANGED <<owner, leader, descendant, holds, drain, exitState, failures,
                     material, marker, lease>>
  BY <1>1 DEF Poll, Go, Told, TypeOK, InGroup
<1>3. TypeOK'
  BY <1>2 DEF TypeOK, Places, Waits, TimedWaits
<1>4. Placed' /\ ExitIsProven'
  BY <1>1, <1>2 DEF Placed, ExitIsProven, ProbePlaces, TypeOK
<1>5. Handover'
  BY <1>1, <1>2 DEF Handover
<1>6. Reported'
  BY <1>1, <1>2 DEF Reported, InGroup
<1>7. QED
  BY <1>3, <1>4, <1>5, <1>6

LEMMA StutterLemma ==
  ASSUME ChildInvariant, UNCHANGED vars
  PROVE  ChildInvariant'
BY DEF ChildInvariant, vars, TypeOK, Placed, ExitIsProven, Handover, Reported, InGroup

\* The inductive invariant: places, proven exit, hand-over and report agree in
\* every state, through every wait() that returns, raises, times out or is
\* cancelled (run, _finalize_inner, _emergency_cleanup, _probe_cleanup).
THEOREM ChildInvariantHolds == Spec => []ChildInvariant
<1>1. ASSUME ChildInvariant, [Next]_vars PROVE ChildInvariant'
  <2>1. CASE WaitReturnsAgain \/ WaitSeesExit \/ WaitRaises \/ JoinReturns
               \/ JoinOfCancelled \/ CallerTimesOut
    BY <1>1, <2>1, WaitLemma
  <2>2. CASE LeaderExits \/ DescendantExits \/ Fork \/ DrainEnds
    BY <1>1, <2>2, ProcessLemma
  <2>3. CASE Materialize \/ Spawn
    BY <1>1, <2>3, StartLemma
  <2>4. CASE TurnOver \/ Interrupt \/ Closed \/ Retry \/ Exchange
    BY <1>1, <2>4, OwnerLemma
  <2>5. CASE Settle \/ End
    BY <1>1, <2>5, EndLemma
  <2>6. CASE Poll
    BY <1>1, <2>6, PollLemma
  <2>7. CASE UNCHANGED vars
    BY <1>1, <2>7, StutterLemma
  <2>8. QED
    BY <1>1, <2>1, <2>2, <2>3, <2>4, <2>5, <2>6, <2>7 DEF Next, System
<1>2. QED
  BY InitLemma, <1>1, PTL DEF Spec

\* While the agent runs, its Run keeps the lease, the launch permissions and its
\* registration (_finalize_inner, _emergency_cleanup and the finally of run).
THEOREM HandsOverAfterExitHolds == Spec => []HandsOverAfterExit
<1>1. ChildInvariant => HandsOverAfterExit
  BY DEF ChildInvariant, TypeOK, ExitIsProven, Handover, HandsOverAfterExit
<1>2. QED
  BY <1>1, ChildInvariantHolds, PTL

\* What a Run leaves of its launch permissions is on record, on every path
\* (_materialize_launch_permissions, _cleanup_launch_permissions).
THEOREM LeftoverIsMarkedHolds == Spec => []LeftoverIsMarked
<1>1. ChildInvariant => LeftoverIsMarked
  BY DEF ChildInvariant, Handover, LeftoverIsMarked
<1>2. QED
  BY <1>1, ChildInvariantHolds, PTL

\* A probe that reports no cleanup failure has left nobody in its group
\* (_probe_cleanup, _group_settled_within).
THEOREM ProbeLeavesNobodyHolds == Spec => []ProbeLeavesNobody
<1>1. ChildInvariant => ProbeLeavesNobody
  BY DEF ChildInvariant, Reported, ProbeLeavesNobody
<1>2. QED
  BY <1>1, ChildInvariantHolds, PTL
===============================================================================
