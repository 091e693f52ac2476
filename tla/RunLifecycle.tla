----------------------------- MODULE RunLifecycle -----------------------------
(***************************************************************************)
(* The Runs of one Session through the life of the daemon: RunTask (from   *)
(* the reservation of a Run to its terminal fact), the Session record with *)
(* its lease, fence and quarantine, a crash of the daemon between any two  *)
(* durable writes, and the startup reconciliation that settles what a      *)
(* crash left behind.                                                      *)
(*                                                                         *)
(* A step ends at each durable write, so that a crash can fall between two *)
(* writes of one function.  One Session is enough: Runs of different       *)
(* Sessions share no state modelled here.                                  *)
(***************************************************************************)
EXTENDS Naturals, Sequences

CONSTANTS
  Runs,        \* the Runs that name the Session
  NoRun,
  Faults,      \* the writes that may fail, of WriteFaults
  MaxCrashes,  \* bound: crashes of the daemon
  MaxDamage,   \* bound: artifacts damaged behind the daemon's back
  MaxMishaps   \* bound: both together

\* submission: submission.json lands and its write raises.  fence: the fence or
\* quarantine write of a Run raises.  configMarker: a configuration marker is
\* lost.  publish: a write-once file or the progress after it is not durable, and
\* the writer cannot tell whether it was published.
WriteFaults == {"submission", "fence", "configMarker", "publish"}

ASSUME RunsAssumption == NoRun \notin Runs
ASSUME BoundsAssumption ==
  /\ Faults \subseteq WriteFaults
  /\ MaxCrashes \in Nat /\ MaxDamage \in Nat /\ MaxMishaps \in Nat

VARIABLES
  intent,   \* per Run: create the Session, or reuse it
  made,     \* the Runs whose directory exists
  docs,     \* per Run: submission.json, spec.json, launch.json
  markers,  \* per Run: the boundary markers in its directory
  result,   \* per Run: result.json
  session,  \* session.json and the quarantine-pending fence
  lock,     \* lock.json: the Run whose token it holds, and its age
  ctx,      \* per Run: the _RunContext of its task, with its next step
  daemon,   \* the process: its phase, and what reconciliation still does
  agent,    \* per Run: what its agent has seen (history)
  lost,     \* the writes that failed and were given up (history)
  crashes, damage

vars == <<intent, made, docs, markers, result, session, lock, ctx, daemon, agent,
          lost, crashes, damage>>
store == <<made, docs, markers, result>>
world == <<intent, daemon, crashes, damage>>
env   == <<intent, daemon, crashes, damage, lost>>

Statuses == {"completed", "failed", "cancelled", "timed_out", "unknown"}
DocNames == {"submission", "spec", "launch"}
DocKinds == {"absent", "valid", "corrupt"}
Markers  == {"config-switch-started", "config-proven", "config-rollback-proven",
             "prompt-dispatch-started", "prompt-accepted"}
StopReasons == {"none", "end_turn", "cancelled", "other"}

\* FinalizationObservations.
NothingSeen ==
  [dispatched |-> FALSE, stop |-> "none", cancelled |-> FALSE, timedOut |-> FALSE,
   childExit |-> FALSE, interrupted |-> FALSE, killed |-> FALSE, violation |-> FALSE,
   rollbackUnproven |-> FALSE, pipeline |-> FALSE]

Observations ==
  [dispatched : BOOLEAN, stop : StopReasons, cancelled : BOOLEAN, timedOut : BOOLEAN,
   childExit : BOOLEAN, interrupted : BOOLEAN, killed : BOOLEAN, violation : BOOLEAN,
   rollbackUnproven : BOOLEAN, pipeline : BOOLEAN]

Steps == {"idle", "reserved", "admit", "launch", "bind", "spawn", "open", "lease",
          "config", "plan", "setting", "rollback", "rolled", "proven", "commit",
          "dispatch", "prompt", "turn", "finalize", "emergency", "fence", "mark",
          "clear", "result", "release"}

\* status is what will be published; after is where the task goes once the
\* Session is quarantined ("end": nothing is published, the lease stays).
Verdict == [status : Statuses \cup {"none"}, after : {"result", "end"}]

\* bound: session_id is set; pending: session_pending_creation; previous:
\* the record had a proven pair; emergency: inside _emergency_cleanup.
Context == [step : Steps, child : BOOLEAN, bound : BOOLEAN, pending : BOOLEAN,
            leased : BOOLEAN, previous : BOOLEAN, emergency : BOOLEAN,
            seen : Observations, verdict : Verdict]

Idle == [step |-> "idle", child |-> FALSE, bound |-> FALSE, pending |-> FALSE,
         leased |-> FALSE, previous |-> FALSE, emergency |-> FALSE,
         seen |-> NothingSeen, verdict |-> [status |-> "none", after |-> "result"]]

Writes == {"fence", "mark", "clear", "unknown", "failed", "refuse"}

\* Every variable has its type.
TypeOK ==
  /\ intent \in [Runs -> {"create", "reuse"}] /\ made \subseteq Runs
  /\ docs \in [Runs -> [DocNames -> DocKinds]]
  /\ markers \in [Runs -> SUBSET Markers]
  /\ result \in [Runs -> {"absent", "corrupt"} \cup Statuses]
  /\ session \in [record : BOOLEAN, pair : BOOLEAN, fence : BOOLEAN, quarantined : BOOLEAN]
  /\ lock \in [holder : Runs \cup {NoRun}, expired : BOOLEAN]
  /\ ctx \in [Runs -> Context]
  /\ daemon \in [phase : {"down", "reconciling", "listening", "refused"},
                 todo : SUBSET Runs, run : Runs \cup {NoRun}, left : Seq(Writes)]
  /\ agent \in [Runs -> [config : {"untouched", "moved", "known"},
                         turn : {"none", "prompted", "answered"}]]
  /\ lost \subseteq WriteFaults
  /\ crashes \in 0..MaxCrashes /\ damage \in 0..MaxDamage

Listening == [phase |-> "listening", todo |-> {}, run |-> NoRun, left |-> <<>>]
Down      == [Listening EXCEPT !.phase = "down"]
FreeLock  == [holder |-> NoRun, expired |-> FALSE]

\* The Session exists with a proven configuration, or one Run will create it
\* (its id derives from that Run, so no other Run can).
Init ==
  /\ intent \in [Runs -> {"create", "reuse"}]
  /\ \A q, r \in Runs : intent[q] = "create" /\ intent[r] = "create" => q = r
  /\ session = [record |-> \A r \in Runs : intent[r] = "reuse",
                pair |-> \A r \in Runs : intent[r] = "reuse",
                fence |-> FALSE, quarantined |-> FALSE]
  /\ made = {} /\ docs = [r \in Runs |-> [d \in DocNames |-> "absent"]]
  /\ markers = [r \in Runs |-> {}] /\ result = [r \in Runs |-> "absent"]
  /\ lock = FreeLock /\ ctx = [r \in Runs |-> Idle] /\ daemon = Listening
  /\ agent = [r \in Runs |-> [config |-> "untouched", turn |-> "none"]]
  /\ lost = {} /\ crashes = 0 /\ damage = 0

-----------------------------------------------------------------------------
(* The terminal table *)

StatusForStopReason(stop) ==
  CASE stop = "cancelled" -> "cancelled" [] stop = "end_turn" -> "completed"
    [] OTHER -> "failed"

PostDispatchStatus(o) ==
  IF o.stop # "none"
  THEN IF o.violation THEN "failed"
       ELSE IF o.timedOut THEN "timed_out" ELSE StatusForStopReason(o.stop)
  ELSE IF o.killed THEN IF o.timedOut \/ o.cancelled THEN "unknown" ELSE "failed"
  ELSE IF o.childExit THEN "failed" ELSE "unknown"

\* Mutant: lost evidence does not override the agent's own terminal.
RunStatusIgnoresPipeline(o) == IF ~o.dispatched THEN "failed" ELSE PostDispatchStatus(o)

\* finalize_run_state's status, without an earlier terminal.
RunStatus(o) ==
  IF ~o.dispatched THEN "failed"
  ELSE IF o.pipeline /\ PostDispatchStatus(o) # "unknown" THEN "failed"
  ELSE PostDispatchStatus(o)

\* Mutant: only an unknown Run quarantines its Session.
QuarantinesUnknown(o) == RunStatus(o) = "unknown" \/ (~o.dispatched /\ o.rollbackUnproven)

\* finalize_run_state's disposition: the Session is quarantined.
Quarantines(o) == IF o.dispatched THEN o.stop = "none" ELSE o.rollbackUnproven

\* A write of this kind raises, and nobody tries it again.
GivesUp(kind) == kind \in Faults /\ lost' = lost \cup {kind}

-----------------------------------------------------------------------------
(* Submission *)

\* No registered Run and no reservation names the Session.
SessionFree == \A r \in Runs : ctx[r].step = "idle"

Go(r, step) == ctx' = [ctx EXCEPT ![r].step = step]
End(r)      == ctx' = [ctx EXCEPT ![r] = Idle]
At(r, step) == ctx[r].step = step

\* reserve, then prepare_run.
Reserve(r) ==
  /\ daemon.phase = "listening" /\ r \notin made /\ SessionFree
  /\ made' = made \cup {r}
  /\ Go(r, "reserved")
  /\ UNCHANGED <<env, docs, markers, result, session, lock, agent>>

\* write_submission, then register starts the task.
Accept(r) ==
  /\ At(r, "reserved")
  /\ docs' = [docs EXCEPT ![r]["submission"] = "valid"]
  /\ Go(r, "admit")
  /\ UNCHANGED <<env, made, markers, result, session, lock, agent>>

\* write_submission raises: the caller gets INTERNAL, the directory stays as it
\* is, with the submission if it had landed before its sync failed.
SubmissionLost(r) ==
  /\ At(r, "reserved")
  /\ \/ UNCHANGED <<docs, lost>>
     \/ docs' = [docs EXCEPT ![r]["submission"] = "valid"] /\ GivesUp("submission")
  /\ End(r)
  /\ UNCHANGED <<world, made, markers, result, session, lock, agent>>

\* Mutant: the refusal leaves the directory to the next restart.
RegistrationFailsSilently(r) ==
  /\ At(r, "reserved")
  /\ docs' = [docs EXCEPT ![r]["submission"] = "valid"]
  /\ End(r)
  /\ UNCHANGED <<env, made, markers, result, session, lock, agent>>

\* The agent is refused or admission has closed: finalize_registration_failure,
\* whose own failure is only logged.
RegistrationFails(r) ==
  /\ At(r, "reserved")
  /\ docs' = [docs EXCEPT ![r]["submission"] = "valid"]
  /\ \/ /\ result' = [result EXCEPT ![r] = IF @ = "absent" THEN "failed" ELSE @]
        /\ UNCHANGED lost
     \/ UNCHANGED result /\ GivesUp("publish")
  /\ End(r)
  /\ UNCHANGED <<world, made, markers, session, lock, agent>>

-----------------------------------------------------------------------------
(* Before the configuration *)

WriteSpec(r) ==
  /\ At(r, "admit")
  /\ docs' = [docs EXCEPT ![r]["spec"] = "valid"]
  /\ Go(r, "launch")
  /\ UNCHANGED <<env, made, markers, result, session, lock, agent>>

WriteLaunch(r) ==
  /\ At(r, "launch")
  /\ docs' = [docs EXCEPT ![r]["launch"] = "valid"]
  /\ Go(r, "bind")
  /\ UNCHANGED <<env, made, markers, result, session, lock, agent>>

BindCreate(r) ==
  /\ At(r, "bind") /\ intent[r] = "create"
  /\ ctx' = [ctx EXCEPT ![r].step = "spawn", ![r].bound = TRUE, ![r].pending = TRUE]
  /\ UNCHANGED <<env, store, session, lock, agent>>

Blocked == session.quarantined \/ session.fence

\* acquire_lock(refuse_quarantined=True), which runs under the Session guard.
Leasable == session.record /\ ~Blocked /\ (lock.holder = NoRun \/ lock.expired)

BindReuse(r) ==
  /\ At(r, "bind") /\ intent[r] = "reuse" /\ Leasable
  /\ lock' = [holder |-> r, expired |-> FALSE]
  /\ ctx' = [ctx EXCEPT ![r].step = "spawn", ![r].bound = TRUE, ![r].leased = TRUE,
                        ![r].previous = session.pair]
  /\ UNCHANGED <<env, store, session, agent>>

Spawn(r) ==
  /\ At(r, "spawn")
  /\ ctx' = [ctx EXCEPT ![r].step = "open", ![r].child = TRUE]
  /\ UNCHANGED <<env, store, session, lock, agent>>

\* session/new answered: the one write of a fully bound record.
CreateRecord(r) ==
  /\ At(r, "open") /\ intent[r] = "create"
  /\ session' = [session EXCEPT !.record = TRUE]
  /\ ctx' = [ctx EXCEPT ![r].step = "lease", ![r].pending = FALSE]
  /\ UNCHANGED <<env, store, lock, agent>>

LeaseCreated(r) ==
  /\ At(r, "lease") /\ Leasable
  /\ lock' = [holder |-> r, expired |-> FALSE]
  /\ ctx' = [ctx EXCEPT ![r].step = "config", ![r].leased = TRUE]
  /\ UNCHANGED <<env, store, session, agent>>

LoadSession(r) ==
  /\ At(r, "open") /\ intent[r] = "reuse"
  /\ Go(r, "config")
  /\ UNCHANGED <<env, store, session, lock, agent>>

\* A refusal, an exception, the startup timeout or a cancellation at a step
\* that leaves no configuration set unproven.  A reuse that is refused names
\* its Session already.
PreDispatchFails(r) ==
  /\ ctx[r].step \in {"admit", "launch", "bind", "spawn", "open", "lease", "config",
                      "plan", "commit", "dispatch"}
  /\ ctx' = [ctx EXCEPT ![r].step = "finalize",
                        ![r].bound = @ \/ ctx[r].step = "bind"]
  /\ UNCHANGED <<env, store, session, lock, agent>>

-----------------------------------------------------------------------------
(* The configuration switch *)

\* _write_config_marker never fails the Run: the marker may be missing.
ConfigMarker(r, name) ==
  \/ markers' = [markers EXCEPT ![r] = @ \cup {name}] /\ lost' = lost
  \/ markers' = markers /\ GivesUp("configMarker")

\* on_config_switch_started, before the first set is planned.
AnnounceSwitch(r) ==
  /\ At(r, "config")
  /\ ConfigMarker(r, "config-switch-started")
  /\ Go(r, "plan")
  /\ UNCHANGED <<world, made, docs, result, session, lock, agent>>

\* The first session/set_config_option leaves for the agent.
SendSet(r) ==
  /\ At(r, "plan")
  /\ agent' = [agent EXCEPT ![r].config = "moved"]
  /\ Go(r, "setting")
  /\ UNCHANGED <<env, store, session, lock>>

\* The exact readback succeeds.
SetProven(r) ==
  /\ At(r, "setting")
  /\ agent' = [agent EXCEPT ![r].config = "known"]
  /\ Go(r, "proven")
  /\ UNCHANGED <<env, store, session, lock>>

\* A fidelity or driver error: roll back to the proven pair, if there is one.
SetFails(r) ==
  /\ At(r, "setting")
  /\ ctx' = [ctx EXCEPT ![r].step = IF ctx[r].previous THEN "rollback" ELSE "finalize",
                        ![r].seen.rollbackUnproven = ~ctx[r].previous]
  /\ UNCHANGED <<env, store, session, lock, agent>>

\* commit_last_effective refuses a quarantined record.
RollbackProven(r) ==
  /\ At(r, "rollback") /\ ~session.quarantined
  /\ agent' = [agent EXCEPT ![r].config = "known"]
  /\ session' = [session EXCEPT !.pair = TRUE]
  /\ Go(r, "rolled")
  /\ UNCHANGED <<env, store, lock>>

RollbackMarked(r) ==
  /\ At(r, "rolled")
  /\ ConfigMarker(r, "config-rollback-proven")
  /\ Go(r, "finalize")
  /\ UNCHANGED <<world, made, docs, result, session, lock, agent>>

RollbackFails(r) ==
  /\ At(r, "rollback")
  /\ ctx' = [ctx EXCEPT ![r].step = "finalize", ![r].seen.rollbackUnproven = TRUE]
  /\ UNCHANGED <<env, store, session, lock, agent>>

\* The startup timeout, a cancellation, a silent re-creation or any other
\* exception inside the switch: no rollback is attempted, or it is cut short.
SwitchInterrupted(r) ==
  /\ ctx[r].step \in {"setting", "rollback"}
  /\ Go(r, "finalize")
  /\ UNCHANGED <<env, store, session, lock, agent>>

SwitchMarked(r) ==
  /\ At(r, "proven")
  /\ ConfigMarker(r, "config-proven")
  /\ Go(r, "commit")
  /\ UNCHANGED <<world, made, docs, result, session, lock, agent>>

\* commit_last_effective, effective.json and the running progress.
CommitEffective(r) ==
  /\ At(r, "commit") /\ ~session.quarantined
  /\ session' = [session EXCEPT !.pair = TRUE]
  /\ Go(r, "dispatch")
  /\ UNCHANGED <<env, store, lock, agent>>

-----------------------------------------------------------------------------
(* The turn *)

MarkDispatch(r) ==
  /\ At(r, "dispatch")
  /\ markers' = [markers EXCEPT ![r] = @ \cup {"prompt-dispatch-started"}]
  /\ ctx' = [ctx EXCEPT ![r].step = "prompt", ![r].seen.dispatched = TRUE]
  /\ UNCHANGED <<env, made, docs, result, session, lock, agent>>

\* The marker is published but its durability fails: the Run raises before
\* dispatch_started is set, and no prompt is sent.
MarkDispatchFails(r) ==
  /\ At(r, "dispatch") /\ "publish" \in Faults
  /\ markers' = [markers EXCEPT ![r] = @ \cup {"prompt-dispatch-started"}]
  /\ Go(r, "finalize")
  /\ UNCHANGED <<env, made, docs, result, session, lock, agent>>

\* session_prompt_sent is not durable: no prompt is sent.
PromptEvidenceFails(r) ==
  /\ At(r, "prompt")
  /\ ctx' = [ctx EXCEPT ![r].step = "finalize", ![r].seen.pipeline = TRUE]
  /\ UNCHANGED <<env, store, session, lock, agent>>

SendPrompt(r) ==
  /\ At(r, "prompt")
  /\ agent' = [agent EXCEPT ![r].turn = "prompted"]
  /\ Go(r, "turn")
  /\ UNCHANGED <<env, store, session, lock>>

\* The prompt frame hook.
PromptAccepted(r) ==
  /\ At(r, "turn") /\ "prompt-accepted" \notin markers[r]
  /\ markers' = [markers EXCEPT ![r] = @ \cup {"prompt-accepted"}]
  /\ UNCHANGED <<env, made, docs, result, session, lock, ctx, agent>>

\* The agent's terminal, with or without a permission violation on the way.
TurnEnds(r) ==
  /\ At(r, "turn")
  /\ \E stop \in StopReasons \ {"none"}, violated \in BOOLEAN :
       ctx' = [ctx EXCEPT ![r].step = "finalize", ![r].seen.stop = stop,
                          ![r].seen.violation = violated]
  /\ agent' = [agent EXCEPT ![r].turn = "answered"]
  /\ UNCHANGED <<env, store, session, lock>>

\* The turn timeout: _escalate_kill reaps the child.
TurnTimesOut(r) ==
  /\ At(r, "turn")
  /\ ctx' = [ctx EXCEPT ![r].step = "finalize", ![r].child = FALSE,
                        ![r].seen.timedOut = TRUE, ![r].seen.killed = TRUE]
  /\ UNCHANGED <<env, store, session, lock, agent>>

\* The wire breaks, or prompt_once refuses to send, and the child is gone, or
\* it is not.
TurnLost(r) ==
  /\ ctx[r].step \in {"prompt", "turn"}
  /\ \E exited \in BOOLEAN :
       ctx' = [ctx EXCEPT ![r].step = "finalize", ![r].child = ~exited,
                          ![r].seen.childExit = exited, ![r].seen.interrupted = ~exited]
  /\ UNCHANGED <<env, store, session, lock, agent>>

\* A cancellation, or an exception nobody expected, after the marker.
TurnInterrupted(r) ==
  /\ ctx[r].step \in {"prompt", "turn"}
  /\ \E cancelled \in BOOLEAN :
       ctx' = [ctx EXCEPT ![r].step = "finalize", ![r].seen.cancelled = cancelled,
                          ![r].seen.killed = cancelled, ![r].seen.interrupted = ~cancelled]
  /\ UNCHANGED <<env, store, session, lock, agent>>

-----------------------------------------------------------------------------
(* Finalization *)

\* The first half of _finalize_inner: close the wire, reap the child, close
\* the writer (which may report lost evidence), decide.
Conclude(r) ==
  /\ At(r, "finalize")
  /\ \E dropped \in BOOLEAN :
       LET seen == [ctx[r].seen EXCEPT !.pipeline = @ \/ dropped] IN
       ctx' = [ctx EXCEPT
                 ![r].child = FALSE, ![r].seen = seen,
                 ![r].verdict = [status |-> RunStatus(seen), after |-> "result"],
                 ![r].step = IF Quarantines(seen) THEN "fence" ELSE "result"]
  /\ UNCHANGED <<env, store, session, lock, agent>>

\* A second cancellation, the finalization timeout or an exception inside it.
FinalizationFails(r) ==
  /\ At(r, "finalize")
  /\ Go(r, "emergency")
  /\ UNCHANGED <<env, store, session, lock, agent>>

\* _quarantine does nothing for a Session that does not exist.
CanQuarantine(r) == ctx[r].bound /\ ~ctx[r].pending /\ session.record

\* _emergency_cleanup: kill, reap until proven, then decide.
EmergencyCleanup(r) ==
  /\ At(r, "emergency")
  /\ LET seen == ctx[r].seen
         uncertain == seen.dispatched /\ seen.stop = "none"
         status == IF uncertain THEN "unknown" ELSE "failed" IN
     ctx' = [ctx EXCEPT ![r] =
       IF result[r] = "corrupt"
       THEN IF CanQuarantine(r)
            THEN [@ EXCEPT !.child = FALSE, !.emergency = TRUE, !.step = "fence",
                           !.verdict.after = "end"]
            ELSE Idle
       ELSE [@ EXCEPT !.child = FALSE, !.emergency = TRUE, !.verdict.status = status,
                      !.step = IF uncertain /\ CanQuarantine(r) THEN "fence" ELSE "result"]]
  /\ UNCHANGED <<env, store, session, lock, agent>>

\* Where a task goes when it is done with the Session.
Resume(r) ==
  IF ctx[r].verdict.after = "end" THEN End(r) ELSE Go(r, "result")

\* write_quarantine_pending.
WriteFence(r) ==
  /\ At(r, "fence")
  /\ session' = [session EXCEPT !.fence = TRUE]
  /\ Go(r, "mark")
  /\ UNCHANGED <<env, store, lock, agent>>

\* The first half of mark_quarantined: the record is durable.
MarkQuarantined(r) ==
  /\ At(r, "mark")
  /\ session' = [session EXCEPT !.quarantined = TRUE]
  /\ Go(r, "clear")
  /\ UNCHANGED <<env, store, lock, agent>>

\* The second half: the fence is unlinked.
ClearFence(r) ==
  /\ At(r, "clear")
  /\ session' = [session EXCEPT !.fence = FALSE]
  /\ Resume(r)
  /\ UNCHANGED <<env, store, lock, agent>>

\* Mutant: the finalizer swallows the failure too.
QuarantineFailsSwallowed(r) ==
  /\ ctx[r].step \in {"fence", "mark", "clear"} /\ GivesUp("fence")
  /\ Resume(r)
  /\ UNCHANGED <<world, store, session, lock, agent>>

\* The finalizer gives up: no terminal, the lease stays.  The emergency
\* cleanup calls _quarantine with its default swallow=True and goes on.
QuarantineFails(r) ==
  /\ ctx[r].step \in {"fence", "mark", "clear"} /\ GivesUp("fence")
  /\ IF ctx[r].emergency THEN Resume(r) ELSE End(r)
  /\ UNCHANGED <<world, store, session, lock, agent>>

\* Mutant: result.json is written by an atomic replace.
PublishResultReplaces(r) ==
  /\ At(r, "result")
  /\ result' = [result EXCEPT ![r] = ctx[r].verdict.status]
  /\ Go(r, "release")
  /\ UNCHANGED <<env, made, docs, markers, session, lock, agent>>

\* result.json is write-once.  A corrupt file in its place quarantines the
\* Session; in the emergency cleanup it only stops the release.
PublishResult(r) ==
  /\ At(r, "result")
  /\ IF result[r] = "absent"
     THEN result' = [result EXCEPT ![r] = ctx[r].verdict.status] /\ Go(r, "release")
     ELSE /\ result' = result
          /\ IF ~ctx[r].emergency /\ CanQuarantine(r)
             THEN ctx' = [ctx EXCEPT ![r].step = "fence", ![r].verdict.after = "end"]
             ELSE End(r)
  /\ UNCHANGED <<env, made, docs, markers, session, lock, agent>>

\* Mutant: the lease is released in a finally clause.
PublishFailsReleases(r) ==
  /\ At(r, "result") /\ result[r] = "absent" /\ GivesUp("publish")
  /\ result' = result
  /\ Go(r, "release")
  /\ UNCHANGED <<world, made, docs, markers, session, lock, agent>>

\* The terminal or the progress after it cannot be made durable: whether or
\* not result.json was published, the lease stays.
PublishFails(r) ==
  /\ At(r, "result") /\ result[r] = "absent" /\ GivesUp("publish")
  /\ \E published \in BOOLEAN :
       result' = IF published THEN [result EXCEPT ![r] = ctx[r].verdict.status] ELSE result
  /\ End(r)
  /\ UNCHANGED <<world, made, docs, markers, session, lock, agent>>

\* release_lock refuses a token that is not the holder's.
ReleaseLease(r) ==
  /\ At(r, "release")
  /\ lock' = IF ctx[r].leased /\ lock.holder = r THEN FreeLock ELSE lock
  /\ End(r)
  /\ UNCHANGED <<env, store, session, agent>>

\* _contain_invalid_terminal: a status, cancel or submit request meets a
\* corrupt terminal.  It cancels the Run if it is live (any await may be
\* cancelled anyway) and quarantines the Session its submission names; the
\* second write may fail, and leaves the fence.
ContainInvalidTerminal(r) ==
  /\ daemon.phase = "listening" /\ result[r] = "corrupt"
  /\ docs[r]["submission"] = "valid" /\ session.record
  /\ session' \in {[session EXCEPT !.fence = TRUE],
                   [session EXCEPT !.quarantined = TRUE, !.fence = FALSE]}
  /\ UNCHANGED <<env, store, lock, ctx, agent>>

-----------------------------------------------------------------------------
(* Reconciliation *)

TerminalClass(r) ==
  CASE result[r] = "absent" -> "absent" [] result[r] = "corrupt" -> "corrupt"
    [] result[r] = "unknown" -> "trusted_unknown" [] OTHER -> "trusted_terminal"

DispatchPresent(r) == markers[r] \cap {"prompt-dispatch-started", "prompt-accepted"} # {}

SwitchUnproven(r) ==
  /\ "config-switch-started" \in markers[r]
  /\ markers[r] \cap {"config-proven", "config-rollback-proven"} = {}

\* A valid Spec, else a valid submission, names the Session, and its record
\* exists.
Actionable(r) ==
  (docs[r]["spec"] = "valid" \/ docs[r]["submission"] = "valid") /\ session.record

\* select_row over the six inputs: first match wins.
SelectRow(terminal, dispatch, spec, launch, actionable) ==
  CASE terminal = "trusted_terminal" -> 1
    [] terminal = "trusted_unknown" -> IF actionable THEN 2 ELSE 3
    [] terminal = "corrupt" -> 4
    [] terminal = "absent" /\ dispatch -> IF actionable THEN 5 ELSE 6
    [] terminal = "absent" /\ ~dispatch /\ spec = "valid" ->
         IF launch = "corrupt" THEN 8 ELSE 7
    [] terminal = "absent" /\ ~dispatch /\ spec = "corrupt" -> 9
    [] OTHER -> IF launch = "absent" THEN 11 ELSE 10

Row(r) == SelectRow(TerminalClass(r), DispatchPresent(r), docs[r]["spec"],
                    docs[r]["launch"], Actionable(r))

\* Mutant: a quarantined Session is left as it is, fence and all.
QuarantineWritesOnce ==
  IF session.quarantined THEN <<>> ELSE <<"fence", "mark", "clear">>

\* Mutant: the fence goes before the record is durable.
QuarantineWritesUnfenced ==
  IF ~session.quarantined THEN <<"fence", "clear", "mark">>
  ELSE IF session.fence THEN <<"clear">> ELSE <<>>

\* _fence_and_quarantine: an already quarantined Session only loses a fence
\* left behind.
QuarantineWrites ==
  IF ~session.quarantined THEN <<"fence", "mark", "clear">>
  ELSE IF session.fence THEN <<"clear">> ELSE <<>>

\* Mutant: every pre-dispatch failure leaves the Session as it is.
RowWritesReusable(r) ==
  LET row == Row(r) IN
  CASE row = 1 -> <<>>
    [] row = 2 -> QuarantineWrites
    [] row = 4 -> <<"refuse">>
    [] row = 5 -> QuarantineWrites \o <<"unknown">>
    [] row = 7 \/ (row = 11 /\ docs[r]["submission"] # "corrupt") -> <<"failed">>
    [] OTHER -> <<"refuse">>

\* _apply: the writes of the row, in order.
RowWrites(r) ==
  LET row == Row(r) IN
  CASE row = 1 -> <<>>
    [] row = 2 -> QuarantineWrites
    [] row = 4 -> (IF DispatchPresent(r) /\ Actionable(r) THEN QuarantineWrites ELSE <<>>)
                    \o <<"refuse">>
    [] row = 5 -> QuarantineWrites \o <<"unknown">>
    [] row = 7 \/ (row = 11 /\ docs[r]["submission"] # "corrupt") ->
         (IF SwitchUnproven(r) /\ Actionable(r) THEN QuarantineWrites ELSE <<>>)
           \o <<"failed">>
    [] OTHER -> <<"refuse">>

\* The daemon is started: acquire_daemon_instance_lease, then reconcile.
Start ==
  /\ daemon.phase = "down"
  /\ daemon' = [daemon EXCEPT !.phase = "reconciling", !.todo = made]
  /\ UNCHANGED <<intent, store, session, lock, ctx, agent, lost, crashes, damage>>

\* One Run directory is classified before any of its writes.  Run ids are
\* hashes, so the order of their names is any order.
ClassifyRun(r) ==
  /\ daemon.phase = "reconciling" /\ daemon.left = <<>> /\ r \in daemon.todo
  /\ daemon' = [daemon EXCEPT !.todo = @ \ {r}, !.run = r, !.left = RowWrites(r)]
  /\ UNCHANGED <<intent, store, session, lock, ctx, agent, lost, crashes, damage>>

ApplyWrite ==
  /\ daemon.phase = "reconciling" /\ daemon.left # <<>>
  /\ LET write == Head(daemon.left) IN
     /\ daemon' = IF write = "refuse" THEN [Down EXCEPT !.phase = "refused"]
                  ELSE [daemon EXCEPT !.left = Tail(@)]
     /\ session' = CASE write = "fence" -> [session EXCEPT !.fence = TRUE]
                     [] write = "mark"  -> [session EXCEPT !.quarantined = TRUE]
                     [] write = "clear" -> [session EXCEPT !.fence = FALSE]
                     [] OTHER -> session
     /\ result' = IF write \in {"unknown", "failed"} /\ result[daemon.run] = "absent"
                  THEN [result EXCEPT ![daemon.run] = write] ELSE result
  /\ UNCHANGED <<intent, made, docs, markers, lock, ctx, agent, lost, crashes, damage>>

Listen ==
  /\ daemon.phase = "reconciling" /\ daemon.left = <<>> /\ daemon.todo = {}
  /\ daemon' = Listening
  /\ UNCHANGED <<intent, store, session, lock, ctx, agent, lost, crashes, damage>>

-----------------------------------------------------------------------------
(* The environment *)

\* The daemon dies; the service manager kills the agents in its cgroup.
Crash ==
  /\ daemon.phase \in {"listening", "reconciling"}
  /\ crashes < MaxCrashes /\ crashes + damage < MaxMishaps
  /\ daemon' = Down /\ crashes' = crashes + 1
  /\ ctx' = [r \in Runs |-> Idle]
  /\ UNCHANGED <<intent, store, session, lock, agent, lost, damage>>

\* 900 seconds pass; that matters only to a Run about to take the lease.
LeaseExpires ==
  /\ lock.holder # NoRun /\ ~lock.expired
  /\ \E r \in Runs : ctx[r].step \in {"bind", "lease"}
  /\ lock' = [lock EXCEPT !.expired = TRUE]
  /\ UNCHANGED <<env, store, session, ctx, agent>>

\* lstat of a marker's name fails with anything but ENOENT: _marker_present
\* and _dispatch_present read it as present.  Only reconciliation reads markers.
MarkerUnreadable(r) ==
  /\ daemon.phase = "reconciling" /\ r \in daemon.todo
  /\ damage < MaxDamage /\ crashes + damage < MaxMishaps
  /\ \E name \in Markers \ markers[r] : markers' = [markers EXCEPT ![r] = @ \cup {name}]
  /\ damage' = damage + 1
  /\ UNCHANGED <<intent, made, docs, result, session, lock, ctx, daemon, agent, lost, crashes>>

\* An artifact is truncated, edited or replaced by something unreadable.  Of
\* the documents it matters only when reconciliation is about to read them.
Damage(r) ==
  /\ r \in made
  /\ damage < MaxDamage /\ crashes + damage < MaxMishaps
  /\ \/ \E d \in DocNames : /\ daemon.phase = "reconciling" /\ docs[r][d] = "valid"
                            /\ docs' = [docs EXCEPT ![r][d] = "corrupt"]
                            /\ result' = result
     \/ result[r] # "corrupt" /\ result' = [result EXCEPT ![r] = "corrupt"] /\ docs' = docs
  /\ damage' = damage + 1
  /\ UNCHANGED <<intent, made, markers, session, lock, ctx, daemon, agent, lost, crashes>>

-----------------------------------------------------------------------------
Submission(r) == Accept(r) \/ SubmissionLost(r) \/ RegistrationFails(r)

Startup(r) ==
  \/ WriteSpec(r) \/ WriteLaunch(r) \/ BindCreate(r) \/ BindReuse(r) \/ Spawn(r)
  \/ CreateRecord(r) \/ LeaseCreated(r) \/ LoadSession(r) \/ PreDispatchFails(r)

Switch(r) ==
  \/ AnnounceSwitch(r) \/ SendSet(r) \/ SetProven(r) \/ SetFails(r) \/ RollbackProven(r)
  \/ RollbackMarked(r) \/ RollbackFails(r) \/ SwitchInterrupted(r) \/ SwitchMarked(r)
  \/ CommitEffective(r)

Turn(r) ==
  \/ MarkDispatch(r) \/ MarkDispatchFails(r) \/ PromptEvidenceFails(r) \/ SendPrompt(r)
  \/ PromptAccepted(r) \/ TurnEnds(r) \/ TurnTimesOut(r) \/ TurnLost(r)
  \/ TurnInterrupted(r)

Finalization(r) ==
  \/ Conclude(r) \/ FinalizationFails(r) \/ EmergencyCleanup(r) \/ WriteFence(r)
  \/ MarkQuarantined(r) \/ ClearFence(r) \/ QuarantineFails(r) \/ PublishResult(r)
  \/ PublishFails(r) \/ ReleaseLease(r)

RunStep(r) == Submission(r) \/ Startup(r) \/ Switch(r) \/ Turn(r) \/ Finalization(r)

Reconciliation == Start \/ (\E r \in Runs : ClassifyRun(r)) \/ ApplyWrite \/ Listen

Next ==
  \/ \E r \in Runs : Reserve(r) \/ RunStep(r) \/ ContainInvalidTerminal(r)
  \/ \E r \in Runs : Damage(r) \/ MarkerUnreadable(r)
  \/ Reconciliation
  \/ Crash
  \/ LeaseExpires

Spec == Init /\ [][Next]_vars

-----------------------------------------------------------------------------
(* Properties *)

Settled(r) == result[r] \in Statuses

\* A prompt left for the agent and no ACP terminal came back.
Uncertain(r) == agent[r].turn = "prompted"

\* Between requests of a listening daemon, the Session of a Run whose prompt
\* may have executed without an ACP terminal refuses new leases, in an
\* undamaged store as long as no quarantine write has failed.
UncertainIsBlocked ==
  daemon.phase = "listening" /\ damage = 0 /\ "fence" \notin lost =>
    \A r \in made : At(r, "idle") /\ Uncertain(r) => Blocked

\* A listening daemon forgets no Run: one whose submission is on the disk has its
\* terminal or is registered, whatever step a crash cut off, in an undamaged
\* store as long as no submission, quarantine or terminal write has failed.
AcceptedIsOwned ==
  daemon.phase = "listening" /\ damage = 0 /\ lost \cap {"submission", "fence", "publish"} = {} =>
    \A r \in Runs : docs[r]["submission"] = "valid" => Settled(r) \/ ~At(r, "idle")

\* A Run is reported unknown, by its task or by reconciliation, only behind the
\* durable quarantine of its Session, whatever failed or was damaged before.
\* The emergency cleanup after a failed quarantine is EmergencyContains.
UnknownIsQuarantined ==
  [][\A r \in Runs :
       /\ result[r] # "unknown" /\ result'[r] = "unknown"
       /\ ctx[r].emergency => "fence" \notin lost
       => session.quarantined]_vars

\* One agent process at a time works on the Session, though the lease of a
\* long turn expires under it.
OneAgentPerSession ==
  \A q, r \in Runs : ctx[q].child /\ ctx[r].child => q = r

\* No lease is taken on a Session while an earlier Run's prompt is uncertain,
\* in an undamaged store as long as no quarantine write has failed.
LeaseNeedsCertainty ==
  [][\A r \in Runs : damage = 0 /\ "fence" \notin lost
                       /\ lock.holder # r /\ lock'.holder = r =>
       \A q \in Runs : ~Uncertain(q)]_vars

\* The terminal is durable and, if the prompt is uncertain, the Session blocked.
Contained(r) == Settled(r) /\ (Uncertain(r) => Blocked)

\* In an undamaged store a Run gives its lease up only contained, whatever
\* write failed before: a failed quarantine or terminal keeps the lease.  The
\* emergency cleanup after a failed quarantine is EmergencyContains.
ReleaseIsContained ==
  [][\A r \in Runs :
       /\ damage = 0 /\ lock.holder = r /\ lock'.holder = NoRun
       /\ ctx[r].emergency => "fence" \notin lost
       => Contained(r)]_vars

\* The emergency cleanup, too, gives the lease up only contained.
EmergencyContains ==
  [][\A r \in Runs : ctx[r].emergency /\ lock.holder = r /\ lock'.holder = NoRun =>
       Contained(r)]_vars

\* A terminal fact is irreversible: neither the Run's own finalizer, nor its
\* emergency cleanup, nor any later reconciliation replaces what stands in
\* result.json, trusted or not.
TerminalIsFinal ==
  [][\A r \in Runs : result[r] # "absent" => result'[r] = result[r] \/ damage' > damage]_vars

\* A Run is reported completed only with the agent's own terminal, complete
\* evidence and no permission violation.
CompletedIsEarned ==
  [][\A r \in Runs : result[r] # "completed" /\ result'[r] = "completed" =>
       /\ agent[r].turn = "answered"
       /\ ~ctx[r].seen.violation /\ ~ctx[r].seen.pipeline]_vars

\* When the daemon listens over an undamaged store whose configuration markers
\* were all written, every Run directory has its terminal, no fence is left, and
\* reconciling again would write nothing, whatever else failed before.
RestartConverges ==
  [][/\ daemon.phase = "reconciling" /\ daemon'.phase = "listening"
     /\ damage = 0 /\ "configMarker" \notin lost
     => \A r \in made : Settled(r) /\ RowWrites(r) = <<>> /\ ~session.fence]_vars

\* Whatever write failed before, in the emergency cleanup too, and whatever
\* terminal or document was damaged or marker unreadable: a restart that listens
\* has quarantined the Session of every uncertain prompt, or it refuses to listen.
RestartContains ==
  [][daemon.phase = "reconciling" /\ daemon'.phase = "listening" =>
       \A r \in made : Uncertain(r) => session.quarantined]_vars

\* A Run that a crash cut off inside its configuration switch, and whose
\* directory tells of the switch and of no proof, is reported by reconciliation
\* only over a blocked Session, whatever failed or was damaged.
ReconciledSwitchIsBlocked ==
  [][\A r \in Runs :
       /\ daemon.phase = "reconciling" /\ ~Settled(r) /\ Settled(r)'
       /\ agent[r].config = "moved" /\ SwitchUnproven(r)
       => Blocked]_vars

\* A configuration that a set may have moved and nothing proved never belongs
\* to a Session that accepts Runs.
UnprovenSwitchIsBlocked ==
  \A r \in Runs : Settled(r) /\ At(r, "idle") /\ agent[r].config = "moved" => Blocked

\* The Runs that have a task, the fence and the quarantine together, and what
\* agents and result.json say.
Promise == INSTANCE SessionPromise WITH
  begun <- made, working <- {r \in Runs : ctx[r].step # "idle"}, holder <- lock.holder,
  closed <- Blocked, turn <- [r \in Runs |-> agent[r].turn], terminal <- result

\* Task, lease, markers, fence, quarantine and restart together keep the
\* promise of a Session, through every crash and every expired lease, in an
\* undamaged store as long as no quarantine write has failed.
ImplementsPromise ==
  /\ Promise!Init
  /\ [][damage' = 0 /\ "fence" \notin lost' => [Promise!Next]_(Promise!vars)]_vars

-----------------------------------------------------------------------------
(* The inductive invariant *)

\* Steps before the dispatch marker; those at which the Session's record is
\* known to exist; and those after the decision.
Undispatched == {"reserved", "admit", "launch", "bind", "spawn", "open", "lease",
                 "config", "plan", "setting", "rollback", "rolled", "proven",
                 "commit", "dispatch"}
Recorded     == {"lease", "config", "plan", "setting", "rollback", "rolled", "proven",
                 "commit", "dispatch", "prompt", "turn"}
Concluded    == {"fence", "mark", "clear", "result", "release"}

\* What a task c knows of its Session is so.
Binding(c, s, i) ==
  /\ c.step \in {"reserved", "admit", "launch", "bind"} => ~c.pending
  /\ c.step \in {"spawn", "open"} =>
       c.bound /\ (i = "reuse" => ~c.pending /\ s.record)
  /\ c.step \in Recorded \/ c.seen.dispatched => c.bound /\ ~c.pending /\ s.record

\* What a task has seen agrees with its markers m and its agent a.
Dispatching(c, m, a) ==
  /\ c.step \in Undispatched =>
       ~c.seen.dispatched /\ c.seen.stop = "none" /\ a.turn = "none"
  /\ c.step \in {"prompt", "turn"} => c.seen.dispatched /\ c.seen.stop = "none"
  /\ c.seen.dispatched => "prompt-dispatch-started" \in m
  /\ c.step # "idle" /\ a.turn = "prompted" => c.seen.dispatched /\ c.seen.stop = "none"

\* A task that will publish has a status, and publishes an uncertain turn only
\* after the quarantine, unless the emergency cleanup met a failed one (l: the
\* writes given up).
Concluding(c, s, l) ==
  /\ c.step \in Concluded /\ c.verdict.after = "result" => c.verdict.status # "none"
  /\ c.step \in {"result", "release"} => c.verdict.status # "none"
  /\ c.step \in Concluded /\ c.verdict.after = "result" /\ c.verdict.status = "unknown" =>
       c.seen.dispatched /\ c.seen.stop = "none"
  /\ c.step = "clear" => s.quarantined
  /\ c.step \notin {"fence", "mark", "clear"} => c.verdict.after = "result"
  /\ (c.emergency => "fence" \notin l) /\ c.step \in {"result", "release"}
       /\ c.seen.dispatched /\ c.seen.stop = "none" => s.quarantined

Task(c, s, m, a, i, l) ==
  (c.step = "idle" => c = Idle) /\ Binding(c, s, i) /\ Dispatching(c, m, a)
    /\ Concluding(c, s, l)

\* One Run of the Session is at work, in a listening daemon, and only a Run
\* whose directory exists has prompted its agent; a daemon that is not
\* reconciling has nothing left to write.
OneTask ==
  /\ \A r \in Runs : Task(ctx[r], session, markers[r], agent[r], intent[r], lost)
  /\ \A q, r \in Runs : ctx[q].step # "idle" /\ ctx[r].step # "idle" => q = r
  /\ \A r \in Runs : ctx[r].step # "idle" => r \in made /\ daemon.phase = "listening"
  /\ \A r \in Runs : r \notin made => agent[r].turn = "none"
  /\ daemon.todo \subseteq made /\ (daemon.left # <<>> => daemon.run \in made)
  /\ daemon.phase # "reconciling" => daemon.left = <<>>

\* The quarantine comes before an unknown terminal, in the reconciliation's
\* list of writes too.
UnknownFollowsMark ==
  /\ "fence" \notin lost => \A r \in Runs : result[r] = "unknown" => session.quarantined
  /\ \A i \in 1..Len(daemon.left) : daemon.left[i] = "unknown" =>
       session.quarantined \/ \E j \in 1..(i - 1) : daemon.left[j] = "mark"

\* The reconciliation still has to look at r, or is about to quarantine.
WillQuarantine(r) ==
  /\ daemon.phase = "reconciling"
  /\ \/ r \in daemon.todo
     \/ \E j \in 1..Len(daemon.left) : daemon.left[j] = "mark"

\* The store tells of r's uncertain prompt, and either the Session is
\* quarantined or somebody is left who will do it.
Evidence(r) ==
  /\ result[r] # "corrupt"
  /\ r \notin made \/ ctx[r].step \notin {"idle", "release"} => result[r] = "absent"
  /\ ctx[r].step \notin {"idle", "reserved"} => docs[r]["submission"] = "valid"
  /\ ctx[r].step = "release" => result[r] \in Statuses
  /\ Uncertain(r) => /\ session.record /\ docs[r]["submission"] = "valid"
                     /\ "prompt-dispatch-started" \in markers[r]
  /\ Uncertain(r) /\ "fence" \notin lost =>
       /\ result[r] # "absent" => session.quarantined
       /\ daemon.run = r => session.quarantined
                             \/ \A i \in 1..Len(daemon.left) : daemon.left[i] # "failed"
       /\ \/ session.quarantined \/ ctx[r].step # "idle"
          \/ daemon.phase \in {"down", "refused"} \/ WillQuarantine(r)

\* Without damage that is so of every Run.
EvidenceHolds == damage = 0 => \A r \in Runs : Evidence(r)

\* What every durable write, every crash and every step of a restart
\* preserves, and what the properties above follow from.
RunInvariant == TypeOK /\ OneTask /\ UnknownFollowsMark /\ EvidenceHolds
=============================================================================
