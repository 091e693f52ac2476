---------------------------- MODULE ChildProcess ----------------------------
(***************************************************************************)
(* The agent process of one Run, or of one `agents doctor` probe: its      *)
(* process group, the bounded drain of its stderr, the escalation from     *)
(* SIGTERM to SIGKILL, the reap, and what may only happen after the reap:  *)
(* giving up the lease and removing the private launch permissions.        *)
(*                                                                         *)
(* The group is a leader and at most one descendant.  The descendant may   *)
(* ignore SIGTERM, may leave the group, and may hold the stderr pipe open  *)
(* after the leader is gone.  SIGTERM forces nobody: any process may exit  *)
(* at any time, and only one hit by SIGKILL has to.                        *)
(*                                                                         *)
(* ManagedProcess.wait() first waits for the leader and then joins the     *)
(* task that drains stderr.  Whoever gives up waiting (a timeout or a      *)
(* cancellation) cancels what wait() is waiting for; if that is the join,  *)
(* the drain task itself is cancelled, and every later wait() raises       *)
(* CancelledError at the join.                                             *)
(***************************************************************************)
EXTENDS Naturals

CONSTANT MaxWaitFailures      \* bound on the waits that raise

ASSUME WaitFailuresAssumption == MaxWaitFailures \in Nat

VARIABLES
  owner,        \* who spawned the process: a Run or a probe
  pc,           \* where its coroutine is
  leader,       \* "none", "running" or "exited"
  descendant,   \* "none", "group", "left" (another group) or "gone"
  holds,        \* the descendant keeps the inherited stderr open
  killed,       \* processes hit by SIGKILL
  drain,        \* the stderr task: "reading", "eof" or "cancelled"
  waiting,      \* wait() in progress: "no", "exit" or "join"
  exitState,    \* a wait() has returned: the exit is proven
  failures,     \* waits that have raised so far
  material,     \* launch permissions: "none", "policy", "partial", "gone"
  marker,       \* launch-permission-cleanup-failed.json: "none", "written", "lost"
  lease,        \* the Session lease: "held" or "released"
  report        \* the probe's answer: "none", "clean" or "cleanup_failed"

process == <<leader, descendant, holds, killed>>
wind == <<drain, waiting, exitState, failures>>
store == <<material, marker, lease, report>>
vars == <<owner, pc, leader, descendant, holds, killed, drain, waiting,
          exitState, failures, material, marker, lease, report>>

\* Awaits of a wait(), with the bound of the caller or without one.
TimedWaits == {"escalate", "lost", "term", "probeTerm", "probeKill"}
Waits == TimedWaits \cup {"escalateKill", "kill", "emergency"}

Finalizing == {"close", "term", "kill", "settle", "publish"}
Places == Waits \cup Finalizing
            \cup {"admit", "spawn", "drive", "exchange", "retry", "dispose",
                  "probePollTerm", "probePollKill", "over", "raised"}

InGroup == (IF leader = "running" THEN {"leader"} ELSE {})
             \cup (IF descendant = "group" THEN {"descendant"} ELSE {})

Init ==
  /\ owner \in {"run", "probe"}
  /\ pc = IF owner = "run" THEN "admit" ELSE "spawn"
  /\ leader = "none" /\ descendant = "none" /\ holds = FALSE /\ killed = {}
  /\ drain = "reading" /\ waiting = "no" /\ exitState = FALSE /\ failures = 0
  /\ material = "none" /\ marker = "none" /\ lease = "held" /\ report = "none"
-----------------------------------------------------------------------------
(***************************************************************************)
(* The processes and the pipe.                                             *)
(***************************************************************************)
LeaderExits ==
  /\ leader = "running"
  /\ leader' = "exited"
  /\ UNCHANGED <<owner, pc, descendant, holds, killed>> /\ UNCHANGED wind
  /\ UNCHANGED store

Fork ==
  /\ leader = "running" /\ "leader" \notin killed /\ descendant = "none"
  /\ descendant' \in {"group", "left"} /\ holds' \in BOOLEAN
  /\ UNCHANGED <<owner, pc, leader, killed>> /\ UNCHANGED wind /\ UNCHANGED store

DescendantExits ==
  /\ descendant \in {"group", "left"}
  /\ descendant' = "gone"
  /\ UNCHANGED <<owner, pc, leader, holds, killed>> /\ UNCHANGED wind
  /\ UNCHANGED store

PipeClosed == leader = "exited" /\ (holds => descendant = "gone")

\* _drain_stderr reads on past its byte cap, until the pipe closes.
DrainEnds ==
  /\ PipeClosed /\ drain = "reading"
  /\ drain' = "eof"
  /\ UNCHANGED <<owner, pc, waiting, exitState, failures>>
  /\ UNCHANGED process /\ UNCHANGED store
-----------------------------------------------------------------------------
(***************************************************************************)
(* Before the child: launch permissions and spawn.                         *)
(***************************************************************************)

\* _record_cleanup_failure: write once, and never a failure of its own.
RecordCleanupFailure ==
  marker' \in IF marker = "none" THEN {"written", "lost"} ELSE {marker}

\* _materialize_launch_permissions: a partial that survives is named here or
\* never, because no carrier of it reaches the Run.
LeavePartial == material' = "partial" /\ RecordCleanupFailure

\* A profile without a policy materializes nothing.  A failure removes what
\* it created, if it can.
Materialize ==
  /\ pc = "admit"
  /\ \/ material' \in {"none", "policy"} /\ pc' = "spawn" /\ UNCHANGED marker
     \/ material' = "none" /\ pc' = "close" /\ UNCHANGED marker
     \/ LeavePartial /\ pc' = "close"
  /\ UNCHANGED <<owner, lease, report>> /\ UNCHANGED process /\ UNCHANGED wind

\* spawn_managed_process: the child in a session and group of its own.
Spawn ==
  /\ pc = "spawn"
  /\ \/ /\ leader' = "running"
        /\ pc' = IF owner = "run" THEN "drive" ELSE "exchange"
        /\ UNCHANGED report
     \/ /\ leader' = "none"
        /\ pc' = IF owner = "run" THEN "close" ELSE "over"
        /\ report' = IF owner = "run" THEN report ELSE "clean"
  /\ UNCHANGED <<owner, descendant, holds, killed, material, marker, lease>>
  /\ UNCHANGED wind
-----------------------------------------------------------------------------
(***************************************************************************)
(* wait() and those who call it.                                           *)
(***************************************************************************)

\* What a caller does next when its wait() returns, runs into the caller's
\* bound, raises an Exception, or raises CancelledError at the join.
Row(ok, timeout, raised, cancelled) ==
  [ok |-> ok, timeout |-> timeout, raised |-> raised, cancelled |-> cancelled]

\* Mutant: a wait that raised is taken for a reap.
EmergencyTrusts == Row("dispose", "dispose", "dispose", "dispose")

\* _emergency_cleanup waits again, after a delay, until one wait() returns.
EmergencyReap == Row("dispose", "retry", "retry", "retry")

\* Mutant: the reaped leader stands for its group.
LeaderSuffices == Row("over", "probeKill", "probeKill", "raised")

\* _group_settled_within asks for the group once the leader is reaped.
GroupSettled == Row("probePollTerm", "probeKill", "probeKill", "raised")

After ==
  [escalate     |-> Row("close", "escalateKill", "close", "close"),
   escalateKill |-> Row("close", "close", "close", "close"),
   lost         |-> Row("close", "close", "close", "close"),
   term         |-> Row("settle", "kill", "emergency", "emergency"),
   kill         |-> Row("settle", "emergency", "emergency", "emergency"),
   emergency    |-> EmergencyReap,
   probeTerm    |-> GroupSettled,
   probeKill    |-> Row("probePollKill", "over", "over", "raised")]

\* Going to a place that waits signals the group and calls wait().
Go(p) ==
  /\ pc' = p
  /\ waiting' = IF p \in Waits THEN "exit" ELSE "no"
  /\ killed' = IF p \in {"escalateKill", "kill", "emergency", "probeKill"}
               THEN killed \cup InGroup ELSE killed

Told(p, outcome) ==
  report' = IF owner = "probe" /\ p = "over"
            THEN IF outcome = "ok" THEN "clean" ELSE "cleanup_failed"
            ELSE report

Resume(outcome) ==
  /\ Go(After[pc][outcome]) /\ Told(After[pc][outcome], outcome)
  /\ UNCHANGED <<owner, leader, descendant, holds, material, marker, lease>>

WaitReturnsAgain ==
  /\ waiting = "exit" /\ exitState
  /\ Resume("ok")
  /\ UNCHANGED <<drain, exitState, failures>>

WaitSeesExit ==
  /\ waiting = "exit" /\ ~exitState /\ leader = "exited"
  /\ waiting' = "join"
  /\ UNCHANGED <<owner, pc, drain, exitState, failures>>
  /\ UNCHANGED process /\ UNCHANGED store

WaitRaises ==
  /\ waiting = "exit" /\ ~exitState /\ failures < MaxWaitFailures
  /\ failures' = failures + 1
  /\ Resume("raised")
  /\ UNCHANGED <<drain, exitState>>

\* Mutant: the join has no bound of its own.
JoinReturnsAtEof ==
  /\ waiting = "join" /\ drain = "eof"
  /\ exitState' = TRUE
  /\ Resume("ok")
  /\ UNCHANGED <<drain, failures>>

\* The join ends with the drain task, or in its own bound, which cancels it.
JoinReturns ==
  /\ waiting = "join" /\ drain \in {"reading", "eof"}
  /\ drain' = IF drain = "reading" THEN "cancelled" ELSE drain
  /\ exitState' = TRUE
  /\ Resume("ok")
  /\ UNCHANGED failures

JoinOfCancelled ==
  /\ waiting = "join" /\ drain = "cancelled"
  /\ Resume("cancelled")
  /\ UNCHANGED <<drain, exitState, failures>>

\* Giving up on a wait() cancels what it waits for.
CancelWait ==
  /\ drain' = IF waiting = "join" /\ drain = "reading" THEN "cancelled" ELSE drain
  /\ UNCHANGED <<exitState, failures>>

\* asyncio.wait_for around the wait().
CallerTimesOut ==
  /\ pc \in TimedWaits
  /\ CancelWait /\ Resume("timeout")

-----------------------------------------------------------------------------
(***************************************************************************)
(* The Run: turn, finalization, emergency cleanup.                         *)
(***************************************************************************)

\* The turn ends, times out, loses the wire, or is cancelled.
TurnOver ==
  /\ pc = "drive"
  /\ \E p \in {"close", "escalate", "lost"} : Go(p)
  /\ UNCHANGED <<owner, leader, descendant, holds, drain, exitState, failures>>
  /\ UNCHANGED store

\* A cancellation while the turn escalates goes on to the finalization; in
\* the finalization a cancellation, its bound or an exception lead to the
\* emergency cleanup, which absorbs whatever arrives later.
Interrupt ==
  /\ \/ pc \in {"escalate", "escalateKill", "lost"} /\ Go("close")
     \/ /\ pc \in {"close", "term", "kill", "publish"}
        /\ Go(IF leader = "none" THEN "dispose" ELSE "emergency")
  /\ CancelWait
  /\ UNCHANGED <<owner, leader, descendant, holds>> /\ UNCHANGED store

\* driver.close() has returned: reap unless that is done.
Closed ==
  /\ pc = "close"
  /\ Go(IF leader # "none" /\ ~exitState THEN "term" ELSE "settle")
  /\ UNCHANGED <<owner, leader, descendant, holds, drain, exitState, failures>>
  /\ UNCHANGED store

\* discard removes the tree of the policy, or fails.
Discard ==
  \/ material' = "gone" /\ UNCHANGED marker
  \/ UNCHANGED material /\ RecordCleanupFailure

\* _cleanup_launch_permissions: nothing without a carrier, never before a
\* proven exit.
CleanUp ==
  IF material # "policy" \/ (leader # "none" /\ ~exitState)
  THEN UNCHANGED <<material, marker>>
  ELSE Discard

Settle ==
  /\ pc = "settle"
  /\ CleanUp
  /\ Go("publish")
  /\ UNCHANGED <<owner, leader, descendant, holds, drain, exitState, failures,
                 lease, report>>

\* Mutant: the last resort in the finally of run() is missing.
EndWithoutFinally ==
  /\ pc \in {"publish", "dispose"}
  /\ lease' \in {"held", "released"}
  /\ Go("over")
  /\ UNCHANGED <<owner, leader, descendant, holds, drain, exitState, failures,
                 material, marker, report>>

\* The terminal is published, or refused, in _finalize_inner or in
\* _emergency_cleanup, with the lease released or kept; run() then tries the
\* cleanup once more.
End ==
  /\ pc \in {"publish", "dispose"}
  /\ lease' \in {"held", "released"}
  /\ CleanUp
  /\ Go("over")
  /\ UNCHANGED <<owner, leader, descendant, holds, drain, exitState, failures, report>>

\* The retry delay of the emergency cleanup; the group is not signalled again.
Retry ==
  /\ pc = "retry"
  /\ pc' = "emergency" /\ waiting' = "exit"
  /\ UNCHANGED <<owner, drain, exitState, failures>>
  /\ UNCHANGED process /\ UNCHANGED store
-----------------------------------------------------------------------------
(***************************************************************************)
(* The probe.                                                              *)
(***************************************************************************)

\* One initialize, judged; whatever it found, _probe_cleanup follows.
Exchange ==
  /\ pc = "exchange"
  /\ Go("probeTerm")
  /\ UNCHANGED <<owner, leader, descendant, holds, drain, exitState, failures>>
  /\ UNCHANGED store

\* The group is polled until it is empty or the bound has passed.
Poll ==
  /\ pc \in {"probePollTerm", "probePollKill"}
  /\ \/ InGroup = {} /\ Go("over") /\ Told("over", "ok")
     \/ InGroup # {} /\ pc = "probePollTerm" /\ Go("probeKill") /\ UNCHANGED report
     \/ InGroup # {} /\ pc = "probePollKill" /\ Go("over") /\ Told("over", "timeout")
  /\ UNCHANGED <<owner, leader, descendant, holds, drain, exitState, failures,
                 material, marker, lease>>
-----------------------------------------------------------------------------
System ==
  \/ Materialize \/ Spawn \/ Closed \/ Settle \/ End \/ Retry
  \/ WaitReturnsAgain \/ WaitSeesExit \/ JoinReturns \/ JoinOfCancelled
  \/ CallerTimesOut \/ Exchange \/ Poll

Next ==
  \/ System \/ TurnOver \/ Interrupt \/ WaitRaises
  \/ LeaderExits \/ DescendantExits \/ Fork \/ DrainEnds

Spec == Init /\ [][Next]_vars

(***************************************************************************)
(* The event loop runs whatever is ready and every bound passes; SIGKILL   *)
(* ends a process.  Nothing makes a turn end, a process heed SIGTERM, or a *)
(* descendant close its pipe.                                              *)
(***************************************************************************)
FairSpec ==
  /\ Spec
  /\ WF_vars(System) /\ WF_vars(DrainEnds)
  /\ WF_vars("leader" \in killed /\ LeaderExits)
  /\ WF_vars("descendant" \in killed /\ DescendantExits)
-----------------------------------------------------------------------------
TypeOK ==
  /\ owner \in {"run", "probe"} /\ pc \in Places
  /\ leader \in {"none", "running", "exited"}
  /\ descendant \in {"none", "group", "left", "gone"} /\ holds \in BOOLEAN
  /\ killed \subseteq {"leader", "descendant"}
  /\ drain \in {"reading", "eof", "cancelled"}
  /\ waiting \in {"no", "exit", "join"} /\ exitState \in BOOLEAN
  /\ failures \in 0..MaxWaitFailures
  /\ material \in {"none", "policy", "partial", "gone"}
  /\ marker \in {"none", "written", "lost"}
  /\ lease \in {"held", "released"} /\ report \in {"none", "clean", "cleanup_failed"}

(***************************************************************************)
(* While the agent runs, its Run is registered, its lease is not released  *)
(* and its launch permissions are in place, whichever wait raised or was   *)
(* cancelled on the way (_finalize_inner, _emergency_cleanup, run).        *)
(***************************************************************************)
HandsOverAfterExit ==
  owner = "run" /\ leader = "running" =>
    lease = "held" /\ material # "gone" /\ pc # "over"

(***************************************************************************)
(* Launch permissions a Run leaves behind are on record, on every path:    *)
(* failed rollback, failed spawn, finalization, emergency cleanup.  (The   *)
(* marker may be lost to a write error, which the code swallows.)          *)
(***************************************************************************)
LeftoverIsMarked ==
  pc = "over" /\ material \in {"policy", "partial"} => marker # "none"

(***************************************************************************)
(* A probe that reports no cleanup failure has left nobody in the group it *)
(* started, the descendants of the reaped leader included (_probe_cleanup).*)
(***************************************************************************)
ProbeLeavesNobody == report = "clean" => InGroup = {}

\* The drain task was cancelled before any wait() returned.
DrainCut == drain = "cancelled" /\ ~exitState

(***************************************************************************)
(* A wind-down ends, although the agent ignores SIGTERM, its descendant    *)
(* holds stderr open for good and waits raise or are cancelled, unless     *)
(* somebody gave up on a wait() during its join.                           *)
(***************************************************************************)
WindDownEnds ==
  pc \in Places \ {"drive", "over", "raised"} ~> (pc \in {"drive", "over"} \/ DrainCut)

(***************************************************************************)
(* _finalize_bounded: "a repeated cancellation or a hung finalization      *)
(* triggers last-resort emergency cleanup (shielded kill+reap, then        *)
(* disposition) instead of hanging or leaking".                            *)
(***************************************************************************)
FinalizationEnds == pc \in Finalizing ~> pc = "over"
=============================================================================
