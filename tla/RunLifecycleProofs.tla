-------------------------- MODULE RunLifecycleProofs --------------------------
(***************************************************************************)
(* Theorems about RunLifecycle, for any number of Runs and crashes.        *)
(*                                                                         *)
(* RunInvariant is inductive.  A step of a Run leaves the other Runs alone *)
(* and only adds to the store (Frame), so that an action's lemma has to    *)
(* look at its own Run only; the steps of the reconciliation and of the    *)
(* environment are few and are done one by one.                            *)
(***************************************************************************)
EXTENDS RunLifecycle, TLAPS

SessionType == [record : BOOLEAN, pair : BOOLEAN, fence : BOOLEAN, quarantined : BOOLEAN]
LockType    == [holder : Runs \cup {NoRun}, expired : BOOLEAN]
AgentType   == [config : {"untouched", "moved", "known"},
                turn : {"none", "prompted", "answered"}]

\* A record or a quarantine is never taken back.
Grows(s, t) == (s.record => t.record) /\ (s.quarantined => t.quarantined)

\* What a step of Run r does to the variables other than ctx.
Frame(r) ==
  /\ UNCHANGED world /\ lost \subseteq lost' /\ lost' \subseteq WriteFaults
  /\ lock' \in LockType /\ session' \in SessionType /\ Grows(session, session')
  /\ made \subseteq made' /\ made' \subseteq Runs
  /\ docs' \in [Runs -> [DocNames -> DocKinds]]
  /\ markers' \in [Runs -> SUBSET Markers]
  /\ result' \in [Runs -> {"absent", "corrupt"} \cup Statuses]
  /\ agent' \in [Runs -> AgentType]
  /\ \A q \in Runs \ {r} : /\ docs'[q] = docs[q] /\ markers'[q] = markers[q]
                           /\ result'[q] = result[q] /\ agent'[q] = agent[q]

\* A Run's view of its Session survives what others add to the store.
LEMMA TaskFrame ==
  ASSUME NEW c, NEW s, NEW t, NEW m, NEW a, NEW i, NEW k, NEW l,
         Task(c, s, m, a, i, k), Grows(s, t), k \subseteq l
  PROVE  Task(c, t, m, a, i, l)
BY DEF Task, Binding, Dispatching, Concluding, Grows

\* A step of one Run preserves the invariant if it does so for that Run.
LEMMA RunStepPreserves ==
  ASSUME RunInvariant, NEW r \in Runs, NEW d \in Context,
         ctx' = [ctx EXCEPT ![r] = d], Frame(r),
         daemon.phase = "listening", r \in made',
         \A q \in Runs \ {r} : ctx[q].step = "idle",
         Task(d, session', markers'[r], agent'[r], intent[r], lost'),
         damage = 0 => Evidence(r)',
         "fence" \notin lost /\ result'[r] = "unknown" => session'.quarantined
  PROVE  RunInvariant'
<1>1. ctx \in [Runs -> Context] /\ ctx'[r] = d /\ \A q \in Runs \ {r} : ctx'[q] = ctx[q]
  BY DEF RunInvariant, TypeOK
<1>2. TypeOK'
  BY <1>1 DEF RunInvariant, TypeOK, Frame, env, world, LockType, SessionType, AgentType
<1>3. OneTask'
  <2>1. ASSUME NEW q \in Runs \ {r}
        PROVE  Task(ctx'[q], session', markers'[q], agent'[q], intent'[q], lost')
    BY <1>1, TaskFrame DEF RunInvariant, OneTask, Frame, env, world
  <2>2. \A q \in Runs : Task(ctx'[q], session', markers'[q], agent'[q], intent'[q], lost')
    BY <1>1, <2>1 DEF Frame, env, world
  <2>3. \A q \in Runs : ctx'[q].step # "idle" => q = r
    BY <1>1
  <2>4. \A q \in Runs : q \notin made' => agent'[q].turn = "none"
    BY <1>1 DEF RunInvariant, OneTask, Frame
  <2>5. daemon.todo \subseteq made' /\ (daemon.left # <<>> => daemon.run \in made')
    BY DEF RunInvariant, OneTask, Frame
  <2>6. QED
    BY <2>2, <2>3, <2>4, <2>5 DEF RunInvariant, OneTask, Frame, env, world
<1>4. UnknownFollowsMark'
  <2>1. "fence" \notin lost' => \A q \in Runs : result'[q] = "unknown" => session'.quarantined
    BY DEF RunInvariant, UnknownFollowsMark, Frame, Grows
  <2>2. QED
    BY <2>1 DEF RunInvariant, UnknownFollowsMark, Frame, Grows, env, world
<1>5. EvidenceHolds'
  <2>1. ASSUME damage = 0, NEW q \in Runs \ {r} PROVE Evidence(q)'
    <3>1. Evidence(q)
      BY <2>1 DEF RunInvariant, EvidenceHolds
    <3>2. /\ daemon' = daemon /\ ctx'[q] = ctx[q] /\ (q \notin made' => q \notin made)
          /\ docs'[q] = docs[q] /\ markers'[q] = markers[q] /\ result'[q] = result[q]
          /\ agent'[q] = agent[q] /\ Grows(session, session') /\ lost \subseteq lost'
      BY <1>1 DEF Frame, env, world
    <3>3. QED
      BY <3>1, <3>2 DEF Evidence, Uncertain, WillQuarantine, Grows
  <2>2. QED
    BY <2>1 DEF EvidenceHolds, Frame, env, world
<1>6. QED
  BY <1>2, <1>3, <1>4, <1>5 DEF RunInvariant

\* A write that is given up is remembered.
LEMMA GivenUp ==
  ASSUME TypeOK, NEW kind, GivesUp(kind)
  PROVE  lost \subseteq lost' /\ lost' \subseteq WriteFaults /\ kind \in lost'
BY BoundsAssumption DEF TypeOK, GivesUp

\* A configuration marker is written, or given up.
LEMMA MarkerFrame ==
  ASSUME TypeOK, NEW r \in Runs, NEW name \in Markers, ConfigMarker(r, name)
  PROVE  /\ markers' \in [Runs -> SUBSET Markers]
         /\ \A q \in Runs \ {r} : markers'[q] = markers[q]
         /\ lost \subseteq lost' /\ lost' \subseteq WriteFaults
<1>1. CASE markers' = [markers EXCEPT ![r] = @ \cup {name}] /\ lost' = lost
  BY <1>1 DEF TypeOK
<1>2. CASE markers' = markers /\ GivesUp("configMarker")
  BY <1>2, GivenUp DEF TypeOK
<1>3. QED
  BY <1>1, <1>2 DEF ConfigMarker

\* A step that only moves the task, and perhaps the lease, and may give a
\* write up.
LEMMA TaskGivesUp ==
  ASSUME RunInvariant, NEW r \in Runs, NEW d \in Context,
         ctx[r].step # "idle", ctx' = [ctx EXCEPT ![r] = d],
         UNCHANGED <<world, store, session, agent>>, lock' \in LockType,
         lost \subseteq lost', lost' \subseteq WriteFaults,
         Task(d, session, markers[r], agent[r], intent[r], lost'),
         d.step \notin {"idle", "reserved"} => ctx[r].step # "reserved",
         d.step # "idle" => (d.step = "release" <=> ctx[r].step = "release"),
         damage = 0 /\ Uncertain(r) /\ d.step = "idle" /\ "fence" \notin lost'
           => session.quarantined
  PROVE  RunInvariant'
<1>1. /\ daemon.phase = "listening" /\ r \in made
      /\ \A q \in Runs \ {r} : ctx[q].step = "idle"
  BY DEF RunInvariant, OneTask
<1>2. Frame(r)
  BY DEF RunInvariant, TypeOK, Frame, Grows, store, LockType, SessionType, AgentType
<1>3. ctx'[r] = d
  BY DEF RunInvariant, TypeOK
<1>4. damage = 0 => Evidence(r)'
  BY <1>1, <1>3 DEF RunInvariant, EvidenceHolds, Evidence, Uncertain, WillQuarantine, world, store
<1>5. "fence" \notin lost /\ result'[r] = "unknown" => session'.quarantined
  BY DEF RunInvariant, UnknownFollowsMark, store
<1>6. Task(d, session', markers'[r], agent'[r], intent[r], lost')
  BY DEF store
<1>7. r \in made'
  BY <1>1 DEF store
<1>8. QED
  BY <1>1, <1>2, <1>4, <1>5, <1>6, <1>7, RunStepPreserves

\* The same for a step at which no write fails.
LEMMA TaskStep ==
  ASSUME RunInvariant, NEW r \in Runs, NEW d \in Context,
         ctx[r].step # "idle", ctx' = [ctx EXCEPT ![r] = d],
         UNCHANGED <<env, store, session, agent>>, lock' \in LockType,
         Task(d, session, markers[r], agent[r], intent[r], lost),
         d.step \notin {"idle", "reserved"} => ctx[r].step # "reserved",
         d.step # "idle" => (d.step = "release" <=> ctx[r].step = "release"),
         damage = 0 /\ Uncertain(r) /\ d.step = "idle" /\ "fence" \notin lost
           => session.quarantined
  PROVE  RunInvariant'
<1>1. UNCHANGED <<world, store, session, agent>> /\ lost' = lost
  BY DEF env, world
<1>2. lost \subseteq lost' /\ lost' \subseteq WriteFaults
  BY <1>1 DEF RunInvariant, TypeOK
<1>3. QED
  BY <1>1, <1>2, TaskGivesUp

\* An idle task satisfies whatever a task has to.
LEMMA IdleTask ==
  /\ Idle \in Context /\ Idle.step = "idle"
  /\ \A s, m, a, i, l : Task(Idle, s, m, a, i, l)
BY DEF Idle, Context, NothingSeen, Observations, Verdict, Statuses, Steps, StopReasons, Task,
       Binding, Dispatching, Concluding, Undispatched, Recorded, Concluded

\* The steps before the dispatch marker that move the task and the lease only.
LEMMA StartupSteps ==
  ASSUME RunInvariant, NEW r \in Runs,
         \/ BindCreate(r) \/ BindReuse(r) \/ Spawn(r) \/ LeaseCreated(r) \/ LoadSession(r)
         \/ PreDispatchFails(r) \/ SetFails(r) \/ RollbackFails(r)
         \/ SwitchInterrupted(r)
  PROVE  RunInvariant'
<1> USE DEF At, Go, End
<1> DEFINE d == ctx'[r]
<1>t. /\ ctx \in [Runs -> Context] /\ ctx[r] \in Context
      /\ Task(ctx[r], session, markers[r], agent[r], intent[r], lost)
      /\ lock \in LockType /\ session \in SessionType /\ session.pair \in BOOLEAN
  BY DEF RunInvariant, OneTask, TypeOK, LockType, SessionType
<1>1. CASE BindCreate(r)
  <2>1. ctx' = [ctx EXCEPT ![r] = d] /\ d \in Context /\ d.step \notin {"idle", "release"}
    BY <1>1, <1>t DEF BindCreate, Context, Steps, Observations
  <2>2. Task(d, session, markers[r], agent[r], intent[r], lost)
    BY <1>1, <1>t DEF BindCreate, Task, Binding, Dispatching, Concluding, Undispatched,
                     Recorded, Concluded, Context
  <2>3. QED
    BY <1>1, <1>t, <2>1, <2>2, TaskStep, ZenonT(60) DEF BindCreate
<1>2. CASE BindReuse(r)
  <2>1. ctx' = [ctx EXCEPT ![r] = d] /\ d \in Context /\ d.step \notin {"idle", "release"}
    BY <1>2, <1>t DEF BindReuse, Context, Steps, Observations
  <2>2. Task(d, session, markers[r], agent[r], intent[r], lost)
    BY <1>2, <1>t DEF BindReuse, Leasable, Task, Binding, Dispatching, Concluding, Undispatched,
                     Recorded, Concluded, Context
  <2>3. lock' \in LockType
    BY <1>2 DEF BindReuse, LockType
  <2>4. ctx[r].step = "bind" /\ UNCHANGED <<env, store, session, agent>>
    BY <1>2 DEF BindReuse
  <2>5. QED
    BY <2>1, <2>2, <2>3, <2>4, TaskStep
<1>3. CASE Spawn(r)
  <2>1. ctx' = [ctx EXCEPT ![r] = d] /\ d \in Context /\ d.step \notin {"idle", "release"}
    BY <1>3, <1>t DEF Spawn, Context, Steps, Observations
  <2>2. Task(d, session, markers[r], agent[r], intent[r], lost)
    BY <1>3, <1>t DEF Spawn, Task, Binding, Dispatching, Concluding, Undispatched,
                     Recorded, Concluded, Context
  <2>3. QED
    BY <1>3, <1>t, <2>1, <2>2, TaskStep DEF Spawn
<1>4. CASE LeaseCreated(r)
  <2>1. ctx' = [ctx EXCEPT ![r] = d] /\ d \in Context /\ d.step \notin {"idle", "release"}
    BY <1>4, <1>t DEF LeaseCreated, Context, Steps, Observations
  <2>2. Task(d, session, markers[r], agent[r], intent[r], lost)
    BY <1>4, <1>t DEF LeaseCreated, Leasable, Task, Binding, Dispatching, Concluding, Undispatched,
                     Recorded, Concluded, Context
  <2>3. lock' \in LockType
    BY <1>4 DEF LeaseCreated, LockType
  <2>4. QED
    BY <1>4, <1>t, <2>1, <2>2, <2>3, TaskStep DEF LeaseCreated
<1>5. CASE LoadSession(r)
  <2>1. ctx' = [ctx EXCEPT ![r] = d] /\ d \in Context /\ d.step \notin {"idle", "release"}
    BY <1>5, <1>t DEF LoadSession, Context, Steps, Observations
  <2>2. Task(d, session, markers[r], agent[r], intent[r], lost)
    BY <1>5, <1>t DEF LoadSession, Task, Binding, Dispatching, Concluding, Undispatched,
                     Recorded, Concluded, Context
  <2>3. QED
    BY <1>5, <1>t, <2>1, <2>2, TaskStep DEF LoadSession
<1>6. CASE PreDispatchFails(r)
  <2>1. ctx' = [ctx EXCEPT ![r] = d] /\ d \in Context /\ d.step \notin {"idle", "release"}
    BY <1>6, <1>t DEF PreDispatchFails, Context, Steps, Observations
  <2>2. Task(d, session, markers[r], agent[r], intent[r], lost)
    BY <1>6, <1>t DEF PreDispatchFails, Task, Binding, Dispatching, Concluding, Undispatched,
                     Recorded, Concluded, Context
  <2>3. QED
    BY <1>6, <1>t, <2>1, <2>2, TaskStep, ZenonT(60) DEF PreDispatchFails
<1>7. CASE SetFails(r)
  <2>1. ctx' = [ctx EXCEPT ![r] = d] /\ d \in Context /\ d.step \notin {"idle", "release"}
    BY <1>7, <1>t DEF SetFails, Context, Steps, Observations
  <2>2. Task(d, session, markers[r], agent[r], intent[r], lost)
    BY <1>7, <1>t DEF SetFails, Task, Binding, Dispatching, Concluding, Undispatched,
                     Recorded, Concluded, Context
  <2>3. QED
    BY <1>7, <1>t, <2>1, <2>2, TaskStep, ZenonT(60) DEF SetFails
<1>8. CASE RollbackFails(r)
  <2>1. ctx' = [ctx EXCEPT ![r] = d] /\ d \in Context /\ d.step \notin {"idle", "release"}
    BY <1>8, <1>t DEF RollbackFails, Context, Steps, Observations
  <2>2. Task(d, session, markers[r], agent[r], intent[r], lost)
    BY <1>8, <1>t DEF RollbackFails, Task, Binding, Dispatching, Concluding, Undispatched,
                     Recorded, Concluded, Context
  <2>3. QED
    BY <1>8, <1>t, <2>1, <2>2, TaskStep DEF RollbackFails
<1>9. CASE SwitchInterrupted(r)
  <2>1. ctx' = [ctx EXCEPT ![r] = d] /\ d \in Context /\ d.step \notin {"idle", "release"}
    BY <1>9, <1>t DEF SwitchInterrupted, Context, Steps, Observations
  <2>2. Task(d, session, markers[r], agent[r], intent[r], lost)
    BY <1>9, <1>t DEF SwitchInterrupted, Task, Binding, Dispatching, Concluding, Undispatched,
                     Recorded, Concluded, Context
  <2>3. QED
    BY <1>9, <1>t, <2>1, <2>2, TaskStep DEF SwitchInterrupted
<1>10. QED
  BY <1>1, <1>2, <1>3, <1>4, <1>5, <1>6, <1>7, <1>8, <1>9

\* finalize_run_state gives a status, and unknown only without an ACP terminal.
LEMMA StatusOf ==
  ASSUME NEW o \in Observations
  PROVE  /\ RunStatus(o) \in Statuses
         /\ RunStatus(o) = "unknown" => o.dispatched /\ o.stop = "none"
BY DEF RunStatus, PostDispatchStatus, StatusForStopReason, Statuses, Observations, StopReasons

\* The steps after the dispatch marker that move the task and the lease only.
LEMMA ConclusionSteps ==
  ASSUME RunInvariant, NEW r \in Runs,
         \/ PromptEvidenceFails(r) \/ TurnTimesOut(r) \/ TurnLost(r) \/ TurnInterrupted(r)
         \/ Conclude(r) \/ FinalizationFails(r) \/ EmergencyCleanup(r) \/ QuarantineFails(r)
         \/ ReleaseLease(r)
  PROVE  RunInvariant'
<1> USE DEF At, Go, End
<1> DEFINE d == ctx'[r]
<1>t. /\ ctx \in [Runs -> Context] /\ ctx[r] \in Context
      /\ Task(ctx[r], session, markers[r], agent[r], intent[r], lost)
      /\ lock \in LockType
  BY DEF RunInvariant, OneTask, TypeOK, LockType
<1>1. CASE PromptEvidenceFails(r)
  <2>1. ctx' = [ctx EXCEPT ![r] = d] /\ d \in Context /\ d.step \notin {"idle", "release"}
    BY <1>1, <1>t DEF PromptEvidenceFails, Context, Steps, Observations
  <2>2. Task(d, session, markers[r], agent[r], intent[r], lost)
    BY <1>1, <1>t DEF PromptEvidenceFails, Task, Binding, Dispatching, Concluding, Undispatched,
                     Recorded, Concluded, Context
  <2>3. QED
    BY <1>1, <1>t, <2>1, <2>2, TaskStep DEF PromptEvidenceFails
<1>2. CASE TurnTimesOut(r)
  <2>1. ctx' = [ctx EXCEPT ![r] = d] /\ d \in Context /\ d.step \notin {"idle", "release"}
    BY <1>2, <1>t, ZenonT(60) DEF TurnTimesOut, Context, Steps, Observations
  <2>2. Task(d, session, markers[r], agent[r], intent[r], lost)
    BY <1>2, <1>t DEF TurnTimesOut, Task, Binding, Dispatching, Concluding, Undispatched,
                     Recorded, Concluded, Context
  <2>3. QED
    BY <1>2, <1>t, <2>1, <2>2, TaskStep DEF TurnTimesOut
<1>3. CASE TurnLost(r)
  <2>1. PICK exited \in BOOLEAN :
          ctx' = [ctx EXCEPT ![r].step = "finalize", ![r].child = ~exited,
                               ![r].seen.childExit = exited, ![r].seen.interrupted = ~exited]
    BY <1>3 DEF TurnLost
  <2>2. /\ ctx' = [ctx EXCEPT ![r] = d] /\ d \in Context /\ d.step = "finalize"
        /\ d.bound = ctx[r].bound /\ d.pending = ctx[r].pending /\ d.verdict = ctx[r].verdict
        /\ d.seen.dispatched = ctx[r].seen.dispatched /\ d.seen.stop = ctx[r].seen.stop
    BY <1>t, <2>1, ZenonT(60) DEF Context, Steps, Observations
  <2>3. Task(d, session, markers[r], agent[r], intent[r], lost)
    BY <1>3, <1>t, <2>2 DEF TurnLost, Task, Binding, Dispatching, Concluding, Undispatched,
                           Recorded, Concluded
  <2>4. QED
    BY <1>3, <1>t, <2>2, <2>3, TaskStep, ZenonT(60) DEF TurnLost
<1>4. CASE TurnInterrupted(r)
  <2>1. PICK cancelled \in BOOLEAN :
          ctx' = [ctx EXCEPT ![r].step = "finalize", ![r].seen.cancelled = cancelled,
                               ![r].seen.killed = cancelled, ![r].seen.interrupted = ~cancelled]
    BY <1>4 DEF TurnInterrupted
  <2> DEFINE seen == [ctx[r].seen EXCEPT !.cancelled = cancelled, !.killed = cancelled,
                                         !.interrupted = ~cancelled]
  <2>s. /\ seen \in Observations /\ seen.dispatched = ctx[r].seen.dispatched
        /\ seen.stop = ctx[r].seen.stop
    BY <1>t DEF Context, Observations
  <2>d. d = [ctx[r] EXCEPT !.step = "finalize", !.seen = seen]
    BY <1>t, <2>1
  <2> HIDE DEF seen
  <2>2. /\ ctx' = [ctx EXCEPT ![r] = d] /\ d \in Context /\ d.step = "finalize"
        /\ d.bound = ctx[r].bound /\ d.pending = ctx[r].pending /\ d.verdict = ctx[r].verdict
        /\ d.seen.dispatched = ctx[r].seen.dispatched /\ d.seen.stop = ctx[r].seen.stop
    <3>1. ctx' = [ctx EXCEPT ![r] = d]
      BY <1>t, <2>1
    <3>2. QED
      BY <1>t, <2>s, <2>d, <3>1 DEF Context, Steps
  <2>3. Task(d, session, markers[r], agent[r], intent[r], lost)
    BY <1>4, <1>t, <2>2 DEF TurnInterrupted, Task, Binding, Dispatching, Concluding, Undispatched,
                           Recorded, Concluded
  <2>4. QED
    BY <1>4, <1>t, <2>2, <2>3, TaskStep, ZenonT(60) DEF TurnInterrupted
<1>5. CASE FinalizationFails(r)
  <2>1. ctx' = [ctx EXCEPT ![r] = d] /\ d \in Context /\ d.step \notin {"idle", "release"}
    BY <1>5, <1>t DEF FinalizationFails, Context, Steps, Observations
  <2>2. Task(d, session, markers[r], agent[r], intent[r], lost)
    BY <1>5, <1>t DEF FinalizationFails, Task, Binding, Dispatching, Concluding, Undispatched,
                     Recorded, Concluded, Context
  <2>3. QED
    BY <1>5, <1>t, <2>1, <2>2, TaskStep DEF FinalizationFails
<1>6. CASE Conclude(r)
  <2>1. PICK dropped \in BOOLEAN :
          LET seen == [ctx[r].seen EXCEPT !.pipeline = @ \/ dropped] IN
          ctx' = [ctx EXCEPT
                    ![r].child = FALSE, ![r].seen = seen,
                    ![r].verdict = [status |-> RunStatus(seen), after |-> "result"],
                    ![r].step = IF Quarantines(seen) THEN "fence" ELSE "result"]
    BY <1>6 DEF Conclude
  <2> DEFINE seen == [ctx[r].seen EXCEPT !.pipeline = @ \/ dropped]
  <2>2. /\ seen \in Observations /\ seen.dispatched = ctx[r].seen.dispatched
        /\ seen.stop = ctx[r].seen.stop
    BY <1>t DEF Context, Observations
  <2>3. /\ RunStatus(seen) \in Statuses
        /\ RunStatus(seen) = "unknown" => seen.dispatched /\ seen.stop = "none"
    BY <2>2, StatusOf
  <2>4. Quarantines(seen) \in BOOLEAN /\ (seen.dispatched /\ seen.stop = "none" => Quarantines(seen))
    BY <2>2 DEF Quarantines, Observations
  <2> HIDE DEF seen
  <2>5. /\ ctx' = [ctx EXCEPT ![r] = d] /\ d \in Context
        /\ d.seen = seen /\ d.verdict = [status |-> RunStatus(seen), after |-> "result"]
        /\ d.step = IF Quarantines(seen) THEN "fence" ELSE "result"
        /\ d.bound = ctx[r].bound /\ d.pending = ctx[r].pending
    BY <1>t, <2>1, <2>2, <2>3, <2>4, ZenonT(60) DEF Context, Steps, Verdict, seen
  <2>6. Task(d, session, markers[r], agent[r], intent[r], lost)
    <3>1. /\ d.step \in {"fence", "result"} /\ d.verdict.after = "result"
          /\ d.verdict.status \in Statuses
          /\ d.seen.dispatched = ctx[r].seen.dispatched /\ d.seen.stop = ctx[r].seen.stop
          /\ d.verdict.status = "unknown" => d.seen.dispatched /\ d.seen.stop = "none"
          /\ d.seen.dispatched /\ d.seen.stop = "none" => d.step = "fence"
      BY <2>2, <2>3, <2>4, <2>5
    <3>2. Binding(d, session, intent[r]) /\ Dispatching(d, markers[r], agent[r])
      BY <1>6, <1>t, <2>5, <3>1 DEF Conclude, Task, Binding, Dispatching, Undispatched, Recorded
    <3>3. Concluding(d, session, lost)
      BY <3>1 DEF Concluding, Concluded, Statuses
    <3>4. QED
      BY <3>1, <3>2, <3>3 DEF Task
  <2>7. d.step \notin {"idle", "release"}
    BY <2>4, <2>5
  <2>8. ctx[r].step = "finalize" /\ UNCHANGED <<env, store, session, lock, agent>>
    BY <1>6 DEF Conclude
  <2>9. QED
    BY <1>t, <2>5, <2>6, <2>7, <2>8, TaskStep
<1>7. CASE EmergencyCleanup(r)
  <2>1. ctx[r].step = "emergency" /\ UNCHANGED <<env, store, session, lock, agent>>
    BY <1>7 DEF EmergencyCleanup
  <2>2. CanQuarantine(r) \in BOOLEAN
    BY DEF CanQuarantine
  <2>3. CASE result[r] = "corrupt" /\ ~CanQuarantine(r)
    <3>1. ctx' = [ctx EXCEPT ![r] = Idle]
      BY <1>7, <2>3 DEF EmergencyCleanup
    <3>2. damage # 0
      BY <2>3 DEF RunInvariant, EvidenceHolds, Evidence
    <3>3. QED
      BY <1>t, <2>1, <3>1, <3>2, IdleTask, TaskStep
  <2>4. CASE ~(result[r] = "corrupt" /\ ~CanQuarantine(r))
    <3> DEFINE uncertain == ctx[r].seen.dispatched /\ ctx[r].seen.stop = "none"
    <3>1. /\ ctx' = [ctx EXCEPT ![r] = d] /\ d \in Context /\ d.seen = ctx[r].seen
          /\ d.bound = ctx[r].bound /\ d.pending = ctx[r].pending
          /\ \/ d.step = "fence" /\ d.verdict.after = "end"
             \/ /\ d.verdict.status = IF uncertain THEN "unknown" ELSE "failed"
                /\ d.step = IF uncertain /\ CanQuarantine(r) THEN "fence" ELSE "result"
                /\ d.verdict.after = ctx[r].verdict.after
      BY <1>7, <1>t, <2>2, <2>4, ZenonT(60) DEF EmergencyCleanup, Context, Steps, Verdict, Statuses
    <3>2. uncertain => CanQuarantine(r)
      BY <1>t DEF CanQuarantine, Task, Binding
    <3>3. Task(d, session, markers[r], agent[r], intent[r], lost)
      BY <1>t, <2>1, <3>1, <3>2 DEF Task, Binding, Dispatching, Concluding,
           Undispatched, Recorded, Concluded
    <3>4. QED
      BY <1>t, <2>1, <3>1, <3>3, TaskStep
  <2>5. QED
    BY <2>3, <2>4
<1>8. CASE QuarantineFails(r)
  <2>1. /\ ctx[r].step \in {"fence", "mark", "clear"}
        /\ UNCHANGED <<world, store, session, agent>> /\ lock' \in LockType
        /\ lost \subseteq lost' /\ lost' \subseteq WriteFaults /\ "fence" \in lost'
    BY <1>8, <1>t DEF QuarantineFails, GivesUp, RunInvariant, TypeOK, WriteFaults
  <2>2. CASE ctx' = [ctx EXCEPT ![r] = Idle]
    BY <1>t, <2>1, <2>2, IdleTask, TaskGivesUp
  <2>3. CASE /\ ctx' = [ctx EXCEPT ![r].step = "result"] /\ ctx[r].emergency
             /\ ctx[r].verdict.after # "end"
    <3>1. ctx' = [ctx EXCEPT ![r] = d] /\ d \in Context /\ d.step = "result" /\ d.emergency
      BY <1>t, <2>3 DEF Context, Steps
    <3>2. Task(d, session, markers[r], agent[r], intent[r], lost')
      BY <1>t, <2>1, <2>3, <3>1 DEF Task, Binding, Dispatching, Concluding, Undispatched,
           Recorded, Concluded, Context, Verdict
    <3>3. QED
      BY <1>t, <2>1, <3>1, <3>2, TaskGivesUp
  <2>4. QED
    BY <1>8, <2>2, <2>3 DEF QuarantineFails, Resume
<1>9. CASE ReleaseLease(r)
  <2>1. lock' \in LockType
    BY <1>9, <1>t DEF ReleaseLease, LockType, FreeLock
  <2>2. Uncertain(r) /\ "fence" \notin lost => session.quarantined
    BY <1>9, <1>t DEF ReleaseLease, Uncertain, Task, Dispatching, Concluding
  <2>3. QED
    BY <1>9, <1>t, <2>1, <2>2, IdleTask, TaskStep DEF ReleaseLease
<1>10. QED
  BY <1>1, <1>2, <1>3, <1>4, <1>5, <1>6, <1>7, <1>8, <1>9

\* A step of a live task that may write to the store.
LEMMA StoreStep ==
  ASSUME RunInvariant, NEW r \in Runs, ctx[r].step # "idle",
         ctx' = [ctx EXCEPT ![r] = ctx'[r]], ctx'[r] \in Context, Frame(r),
         Task(ctx'[r], session', markers'[r], agent'[r], intent[r], lost),
         damage = 0 => Evidence(r)',
         "fence" \notin lost /\ result'[r] = "unknown"
           => result[r] = "unknown" \/ session'.quarantined
  PROVE  RunInvariant'
<1>1. /\ daemon.phase = "listening" /\ r \in made /\ r \in made'
      /\ \A q \in Runs \ {r} : ctx[q].step = "idle"
  BY DEF RunInvariant, OneTask, Frame
<1>2. "fence" \notin lost /\ result'[r] = "unknown" => session'.quarantined
  BY DEF RunInvariant, UnknownFollowsMark, Frame, Grows
<1>3. Task(ctx'[r], session', markers'[r], agent'[r], intent[r], lost')
  <2>1. lost \subseteq lost' /\ Grows(session', session')
    BY DEF Frame, Grows
  <2>2. QED
    BY <2>1, TaskFrame
<1>4. QED
  BY <1>1, <1>2, <1>3, RunStepPreserves

\* Before the prompt there is no uncertainty to give evidence of.
LEMMA QuietStep ==
  ASSUME NEW r \in Runs, r \in made', agent'[r].turn = "none", result'[r] # "corrupt",
         ctx'[r].step # "idle" => result'[r] = "absent",
         ctx'[r].step \notin {"idle", "reserved"} => docs'[r]["submission"] = "valid",
         ctx'[r].step # "release"
  PROVE  Evidence(r)'
BY DEF Evidence, Uncertain

\* Where a task before the prompt stands.
LEMMA QuietTask ==
  ASSUME RunInvariant, NEW r \in Runs, ctx[r].step \in Undispatched
  PROVE  /\ agent[r].turn = "none"
         /\ r \in made
         /\ damage = 0 => /\ result[r] = "absent"
                          /\ ctx[r].step # "reserved" => docs[r]["submission"] = "valid"
BY DEF RunInvariant, OneTask, Task, Dispatching, EvidenceHolds, Evidence, Undispatched

\* The submission writes a Run's directory.
LEMMA SubmissionSteps ==
  ASSUME RunInvariant, NEW r \in Runs,
         Reserve(r) \/ Accept(r) \/ SubmissionLost(r) \/ RegistrationFails(r)
  PROVE  RunInvariant'
<1> USE DEF At, Go, End
<1> DEFINE d == ctx'[r]
<1>t. /\ ctx \in [Runs -> Context] /\ ctx[r] \in Context
      /\ Task(ctx[r], session, markers[r], agent[r], intent[r], lost) /\ TypeOK
  BY DEF RunInvariant, OneTask, TypeOK
<1>1. CASE Reserve(r)
  <2>1. /\ ctx[r] = Idle /\ agent[r].turn = "none" /\ daemon.phase = "listening"
        /\ \A q \in Runs : ctx[q].step = "idle"
    BY <1>1 DEF Reserve, SessionFree, RunInvariant, OneTask, Task
  <2>2. ctx' = [ctx EXCEPT ![r] = d] /\ d \in Context /\ d = [Idle EXCEPT !.step = "reserved"]
    BY <1>1, <1>t, <2>1 DEF Reserve, Context, Steps
  <2>3. Task(d, session, markers[r], agent[r], intent[r], lost)
    BY <2>1, <2>2 DEF Task, Binding, Dispatching, Concluding, Idle, NothingSeen, Undispatched,
                      Recorded, Concluded
  <2>4. Frame(r) /\ r \in made'
    BY <1>1, <1>t DEF Reserve, TypeOK, Frame, Grows, env, world, LockType, SessionType, AgentType
  <2>5. damage = 0 => Evidence(r)'
    BY <1>1, <2>1, <2>2, QuietStep DEF Reserve, RunInvariant, EvidenceHolds, Evidence, Idle
  <2>6. "fence" \notin lost /\ result'[r] = "unknown" => session'.quarantined
    BY <1>1 DEF Reserve, RunInvariant, UnknownFollowsMark
  <2>7. Task(d, session', markers'[r], agent'[r], intent[r], lost')
    BY <1>1, <2>3 DEF Reserve, env
  <2>8. QED
    BY <2>1, <2>2, <2>4, <2>5, <2>6, <2>7, RunStepPreserves
<1>2. CASE Accept(r)
  <2>1. ctx' = [ctx EXCEPT ![r] = d] /\ d \in Context /\ d = [ctx[r] EXCEPT !.step = "admit"]
    BY <1>2, <1>t DEF Accept, Context, Steps
  <2>2. Frame(r) /\ docs'[r]["submission"] = "valid"
    BY <1>2, <1>t DEF Accept, TypeOK, Frame, Grows, env, world, LockType, SessionType, AgentType,
                      DocNames, DocKinds
  <2>3. Task(d, session', markers'[r], agent'[r], intent[r], lost)
    BY <1>2, <1>t, <2>1 DEF Accept, Task, Binding, Dispatching, Concluding, Undispatched,
                            Recorded, Concluded, Context
  <2>4. damage = 0 => Evidence(r)'
    BY <1>2, <1>t, <2>1, <2>2, QuietStep, QuietTask DEF Accept, Undispatched, Context
  <2>5. QED
    BY <1>2, <2>1, <2>2, <2>3, <2>4, StoreStep DEF Accept
<1>3. CASE SubmissionLost(r) \/ RegistrationFails(r)
  <2>1. ctx' = [ctx EXCEPT ![r] = d] /\ d \in Context /\ d = Idle /\ ctx[r].step = "reserved"
    BY <1>3, <1>t, IdleTask DEF SubmissionLost, RegistrationFails
  <2>2. /\ UNCHANGED <<world, made, markers, session, lock, agent>>
        /\ docs' = docs \/ docs' = [docs EXCEPT ![r]["submission"] = "valid"]
        /\ result' = result \/ result' = [result EXCEPT ![r] = IF @ = "absent" THEN "failed" ELSE @]
        /\ lost \subseteq lost' /\ lost' \subseteq WriteFaults
    <3>1. CASE SubmissionLost(r)
      BY <1>t, <3>1, GivenUp DEF SubmissionLost, TypeOK
    <3>2. CASE RegistrationFails(r)
      BY <1>t, <3>2, GivenUp DEF RegistrationFails, TypeOK
    <3>3. QED
      BY <1>3, <3>1, <3>2
  <2>3. /\ Frame(r)
        /\ result'[r] \in {result[r], IF result[r] = "absent" THEN "failed" ELSE result[r]}
    <3>1. /\ docs' \in [Runs -> [DocNames -> DocKinds]]
          /\ \A q \in Runs \ {r} : docs'[q] = docs[q]
      <4>1. CASE docs' = docs
        BY <1>t, <4>1 DEF TypeOK
      <4>2. CASE docs' = [docs EXCEPT ![r]["submission"] = "valid"]
        BY <1>t, <4>2 DEF TypeOK, DocNames, DocKinds
      <4>3. QED
        BY <2>2, <4>1, <4>2
    <3>2. /\ result' \in [Runs -> {"absent", "corrupt"} \cup Statuses]
          /\ \A q \in Runs \ {r} : result'[q] = result[q]
          /\ result'[r] \in {result[r], IF result[r] = "absent" THEN "failed" ELSE result[r]}
      BY <1>t, <2>2, SMTT(30) DEF TypeOK, Statuses
    <3>3. QED
      BY <1>t, <2>2, <3>1, <3>2 DEF TypeOK, Frame, Grows, world, LockType, SessionType, AgentType
  <2>4. damage = 0 => Evidence(r)'
    BY <2>1, <2>2, <2>3, IdleTask, QuietStep, QuietTask DEF Undispatched
  <2>5. Task(d, session', markers'[r], agent'[r], intent[r], lost)
    BY <2>1, IdleTask
  <2>6. result'[r] = "unknown" => result[r] = "unknown"
    BY <2>3
  <2>7. QED
    BY <2>1, <2>3, <2>4, <2>5, <2>6, StoreStep
<1>4. QED
  BY <1>1, <1>2, <1>3

\* The steps before the prompt that write to the store or reach the agent.
LEMMA PreparationSteps ==
  ASSUME RunInvariant, NEW r \in Runs,
         \/ WriteSpec(r) \/ WriteLaunch(r) \/ CreateRecord(r) \/ AnnounceSwitch(r)
         \/ SendSet(r) \/ SetProven(r) \/ RollbackProven(r) \/ RollbackMarked(r)
         \/ SwitchMarked(r) \/ CommitEffective(r) \/ MarkDispatch(r) \/ MarkDispatchFails(r)
  PROVE  RunInvariant'
<1> USE DEF At, Go
<1> DEFINE d == ctx'[r]
<1>t. /\ ctx \in [Runs -> Context] /\ ctx[r] \in Context
      /\ Task(ctx[r], session, markers[r], agent[r], intent[r], lost) /\ TypeOK
  BY DEF RunInvariant, OneTask, TypeOK
<1>1. CASE WriteSpec(r)
  <2>1. /\ ctx' = [ctx EXCEPT ![r] = d] /\ d \in Context /\ d.step \notin {"idle", "release"}
        /\ ctx[r].step \in Undispatched \ {"reserved"} /\ result' = result /\ made' = made
    BY <1>1, <1>t DEF WriteSpec, Context, Steps, Undispatched, store
  <2>2. /\ Frame(r) /\ agent'[r].turn = agent[r].turn
        /\ docs'[r]["submission"] = docs[r]["submission"]
    BY <1>1, <1>t DEF WriteSpec, TypeOK, Frame, Grows, env, world, store, LockType, SessionType,
                     AgentType, DocNames, DocKinds
  <2>3. Task(d, session', markers'[r], agent'[r], intent[r], lost)
    BY <1>1, <1>t, <2>2 DEF WriteSpec, Task, Binding, Dispatching, Concluding,
                     Undispatched, Recorded, Concluded, Context, TypeOK, Frame, Grows, store
  <2>4. damage = 0 => Evidence(r)'
    BY <2>1, <2>2, QuietStep, QuietTask
  <2>5. QED
    BY <2>1, <2>2, <2>3, <2>4, StoreStep DEF Undispatched
<1>2. CASE WriteLaunch(r)
  <2>1. /\ ctx' = [ctx EXCEPT ![r] = d] /\ d \in Context /\ d.step \notin {"idle", "release"}
        /\ ctx[r].step \in Undispatched \ {"reserved"} /\ result' = result /\ made' = made
    BY <1>2, <1>t DEF WriteLaunch, Context, Steps, Undispatched, store
  <2>2. /\ Frame(r) /\ agent'[r].turn = agent[r].turn
        /\ docs'[r]["submission"] = docs[r]["submission"]
    BY <1>2, <1>t DEF WriteLaunch, TypeOK, Frame, Grows, env, world, store, LockType, SessionType,
                     AgentType, DocNames, DocKinds
  <2>3. Task(d, session', markers'[r], agent'[r], intent[r], lost)
    BY <1>2, <1>t, <2>2 DEF WriteLaunch, Task, Binding, Dispatching, Concluding,
                     Undispatched, Recorded, Concluded, Context, TypeOK, Frame, Grows, store
  <2>4. damage = 0 => Evidence(r)'
    BY <2>1, <2>2, QuietStep, QuietTask
  <2>5. QED
    BY <2>1, <2>2, <2>3, <2>4, StoreStep DEF Undispatched
<1>3. CASE CreateRecord(r)
  <2>1. /\ ctx' = [ctx EXCEPT ![r] = d] /\ d \in Context /\ d.step \notin {"idle", "release"}
        /\ ctx[r].step \in Undispatched \ {"reserved"} /\ result' = result /\ made' = made
    BY <1>3, <1>t DEF CreateRecord, Context, Steps, Undispatched, store
  <2>2. /\ Frame(r) /\ agent'[r].turn = agent[r].turn
        /\ docs'[r]["submission"] = docs[r]["submission"]
    BY <1>3, <1>t DEF CreateRecord, TypeOK, Frame, Grows, env, world, store, LockType, SessionType,
                     AgentType
  <2>3. Task(d, session', markers'[r], agent'[r], intent[r], lost)
    BY <1>3, <1>t, <2>2 DEF CreateRecord, Task, Binding, Dispatching, Concluding,
                     Undispatched, Recorded, Concluded, Context, TypeOK, Frame, Grows, store
  <2>4. damage = 0 => Evidence(r)'
    BY <2>1, <2>2, QuietStep, QuietTask
  <2>5. QED
    BY <2>1, <2>2, <2>3, <2>4, StoreStep DEF Undispatched
<1>4. CASE AnnounceSwitch(r)
  <2>1. /\ ctx' = [ctx EXCEPT ![r] = d] /\ d \in Context /\ d.step \notin {"idle", "release"}
        /\ ctx[r].step \in Undispatched \ {"reserved"} /\ result' = result /\ made' = made
    BY <1>4, <1>t DEF AnnounceSwitch, Context, Steps, Undispatched, store
  <2>2. /\ Frame(r) /\ agent'[r].turn = agent[r].turn
        /\ docs'[r]["submission"] = docs[r]["submission"]
    <3>1. /\ markers' \in [Runs -> SUBSET Markers] /\ \A q \in Runs \ {r} : markers'[q] = markers[q]
          /\ lost \subseteq lost' /\ lost' \subseteq WriteFaults
      BY <1>4, <1>t, MarkerFrame DEF AnnounceSwitch, Markers
    <3>2. QED
      BY <1>4, <1>t, <3>1 DEF AnnounceSwitch, TypeOK, Frame, Grows, env, world, LockType, SessionType, AgentType
  <2>3. Task(d, session', markers'[r], agent'[r], intent[r], lost)
    BY <1>4, <1>t, <2>2 DEF AnnounceSwitch, ConfigMarker, Task, Binding, Dispatching, Concluding,
                     Undispatched, Recorded, Concluded, Context, TypeOK, Frame, Grows, store
  <2>4. damage = 0 => Evidence(r)'
    BY <2>1, <2>2, QuietStep, QuietTask
  <2>5. QED
    BY <2>1, <2>2, <2>3, <2>4, StoreStep DEF Undispatched
<1>5. CASE SendSet(r)
  <2>1. /\ ctx' = [ctx EXCEPT ![r] = d] /\ d \in Context /\ d.step \notin {"idle", "release"}
        /\ ctx[r].step \in Undispatched \ {"reserved"} /\ result' = result /\ made' = made
    BY <1>5, <1>t DEF SendSet, Context, Steps, Undispatched, store
  <2>2. /\ Frame(r) /\ agent'[r].turn = agent[r].turn
        /\ docs'[r]["submission"] = docs[r]["submission"]
    <3>1. /\ agent' \in [Runs -> AgentType] /\ agent'[r].turn = agent[r].turn
          /\ \A q \in Runs \ {r} : agent'[q] = agent[q]
      <4>1. agent \in [Runs -> AgentType] /\ agent' = [agent EXCEPT ![r].config = "moved"]
        BY <1>5, <1>t DEF SendSet, TypeOK, AgentType
      <4>2. QED
        BY <4>1 DEF AgentType
    <3>2. UNCHANGED <<intent, made, docs, markers, result, session, lock, daemon, lost, crashes, damage>>
      BY <1>5 DEF SendSet, env, world, store
    <3>3. QED
      BY <1>t, <3>1, <3>2, SMTT(30) DEF TypeOK, Frame, Grows, env, world, LockType, SessionType
  <2>3. Task(d, session', markers'[r], agent'[r], intent[r], lost)
    BY <1>5, <1>t, <2>2 DEF SendSet, Task, Binding, Dispatching, Concluding,
                     Undispatched, Recorded, Concluded, Context, TypeOK, Frame, Grows, store
  <2>4. damage = 0 => Evidence(r)'
    BY <2>1, <2>2, QuietStep, QuietTask
  <2>5. QED
    BY <2>1, <2>2, <2>3, <2>4, StoreStep DEF Undispatched
<1>6. CASE SetProven(r)
  <2>1. /\ ctx' = [ctx EXCEPT ![r] = d] /\ d \in Context /\ d.step \notin {"idle", "release"}
        /\ ctx[r].step \in Undispatched \ {"reserved"} /\ result' = result /\ made' = made
    BY <1>6, <1>t DEF SetProven, Context, Steps, Undispatched, store
  <2>2. /\ Frame(r) /\ agent'[r].turn = agent[r].turn
        /\ docs'[r]["submission"] = docs[r]["submission"]
    <3>1. /\ agent' \in [Runs -> AgentType] /\ agent'[r].turn = agent[r].turn
          /\ \A q \in Runs \ {r} : agent'[q] = agent[q]
      <4>1. agent \in [Runs -> AgentType] /\ agent' = [agent EXCEPT ![r].config = "known"]
        BY <1>6, <1>t DEF SetProven, TypeOK, AgentType
      <4>2. QED
        BY <4>1 DEF AgentType
    <3>2. UNCHANGED <<intent, made, docs, markers, result, session, lock, daemon, lost, crashes, damage>>
      BY <1>6 DEF SetProven, env, world, store
    <3>3. QED
      BY <1>t, <3>1, <3>2, SMTT(30) DEF TypeOK, Frame, Grows, env, world, LockType, SessionType
  <2>3. Task(d, session', markers'[r], agent'[r], intent[r], lost)
    BY <1>6, <1>t, <2>2 DEF SetProven, Task, Binding, Dispatching, Concluding,
                     Undispatched, Recorded, Concluded, Context, TypeOK, Frame, Grows, store
  <2>4. damage = 0 => Evidence(r)'
    BY <2>1, <2>2, QuietStep, QuietTask
  <2>5. QED
    BY <2>1, <2>2, <2>3, <2>4, StoreStep DEF Undispatched
<1>7. CASE RollbackProven(r)
  <2>1. /\ ctx' = [ctx EXCEPT ![r] = d] /\ d \in Context /\ d.step \notin {"idle", "release"}
        /\ ctx[r].step \in Undispatched \ {"reserved"} /\ result' = result /\ made' = made
    BY <1>7, <1>t DEF RollbackProven, Context, Steps, Undispatched, store
  <2>2. /\ Frame(r) /\ agent'[r].turn = agent[r].turn
        /\ docs'[r]["submission"] = docs[r]["submission"]
    <3>1. /\ agent' \in [Runs -> AgentType] /\ \A q \in Runs \ {r} : agent'[q] = agent[q]
          /\ agent'[r].turn = agent[r].turn
      <4>1. agent \in [Runs -> AgentType] /\ agent' = [agent EXCEPT ![r].config = "known"]
        BY <1>7, <1>t DEF RollbackProven, TypeOK, AgentType
      <4>2. QED
        BY <4>1 DEF AgentType
    <3>2. session' \in SessionType /\ Grows(session, session')
      BY <1>7, <1>t DEF RollbackProven, TypeOK, SessionType, Grows
    <3>3. QED
      BY <1>7, <1>t, <3>1, <3>2 DEF RollbackProven, TypeOK, Frame, env, world, store, LockType
  <2>3. Task(d, session', markers'[r], agent'[r], intent[r], lost)
    BY <1>7, <1>t, <2>2 DEF RollbackProven, Task, Binding, Dispatching, Concluding,
                     Undispatched, Recorded, Concluded, Context, TypeOK, Frame, Grows, store
  <2>4. damage = 0 => Evidence(r)'
    BY <2>1, <2>2, QuietStep, QuietTask
  <2>5. QED
    BY <2>1, <2>2, <2>3, <2>4, StoreStep DEF Undispatched
<1>8. CASE RollbackMarked(r)
  <2>1. /\ ctx' = [ctx EXCEPT ![r] = d] /\ d \in Context /\ d.step \notin {"idle", "release"}
        /\ ctx[r].step \in Undispatched \ {"reserved"} /\ result' = result /\ made' = made
    BY <1>8, <1>t DEF RollbackMarked, Context, Steps, Undispatched, store
  <2>2. /\ Frame(r) /\ agent'[r].turn = agent[r].turn
        /\ docs'[r]["submission"] = docs[r]["submission"]
    <3>1. /\ markers' \in [Runs -> SUBSET Markers] /\ \A q \in Runs \ {r} : markers'[q] = markers[q]
          /\ lost \subseteq lost' /\ lost' \subseteq WriteFaults
      BY <1>8, <1>t, MarkerFrame DEF RollbackMarked, Markers
    <3>2. QED
      BY <1>8, <1>t, <3>1 DEF RollbackMarked, TypeOK, Frame, Grows, env, world, LockType, SessionType, AgentType
  <2>3. Task(d, session', markers'[r], agent'[r], intent[r], lost)
    BY <1>8, <1>t, <2>2 DEF RollbackMarked, ConfigMarker, Task, Binding, Dispatching, Concluding,
                     Undispatched, Recorded, Concluded, Context, TypeOK, Frame, Grows, store
  <2>4. damage = 0 => Evidence(r)'
    BY <2>1, <2>2, QuietStep, QuietTask
  <2>5. QED
    BY <2>1, <2>2, <2>3, <2>4, StoreStep DEF Undispatched
<1>9. CASE SwitchMarked(r)
  <2>1. /\ ctx' = [ctx EXCEPT ![r] = d] /\ d \in Context /\ d.step \notin {"idle", "release"}
        /\ ctx[r].step \in Undispatched \ {"reserved"} /\ result' = result /\ made' = made
    BY <1>9, <1>t DEF SwitchMarked, Context, Steps, Undispatched, store
  <2>2. /\ Frame(r) /\ agent'[r].turn = agent[r].turn
        /\ docs'[r]["submission"] = docs[r]["submission"]
    <3>1. /\ markers' \in [Runs -> SUBSET Markers] /\ \A q \in Runs \ {r} : markers'[q] = markers[q]
          /\ lost \subseteq lost' /\ lost' \subseteq WriteFaults
      BY <1>9, <1>t, MarkerFrame DEF SwitchMarked, Markers
    <3>2. QED
      BY <1>9, <1>t, <3>1 DEF SwitchMarked, TypeOK, Frame, Grows, env, world, LockType, SessionType, AgentType
  <2>3. Task(d, session', markers'[r], agent'[r], intent[r], lost)
    BY <1>9, <1>t, <2>2 DEF SwitchMarked, ConfigMarker, Task, Binding, Dispatching, Concluding,
                     Undispatched, Recorded, Concluded, Context, TypeOK, Frame, Grows, store
  <2>4. damage = 0 => Evidence(r)'
    BY <2>1, <2>2, QuietStep, QuietTask
  <2>5. QED
    BY <2>1, <2>2, <2>3, <2>4, StoreStep DEF Undispatched
<1>10. CASE CommitEffective(r)
  <2>1. /\ ctx' = [ctx EXCEPT ![r] = d] /\ d \in Context /\ d.step \notin {"idle", "release"}
        /\ ctx[r].step \in Undispatched \ {"reserved"} /\ result' = result /\ made' = made
    BY <1>10, <1>t DEF CommitEffective, Context, Steps, Undispatched, store
  <2>2. /\ Frame(r) /\ agent'[r].turn = agent[r].turn
        /\ docs'[r]["submission"] = docs[r]["submission"]
    BY <1>10, <1>t DEF CommitEffective, TypeOK, Frame, Grows, env, world, store, LockType, SessionType,
                     AgentType
  <2>3. Task(d, session', markers'[r], agent'[r], intent[r], lost)
    BY <1>10, <1>t, <2>2 DEF CommitEffective, Task, Binding, Dispatching, Concluding,
                     Undispatched, Recorded, Concluded, Context, TypeOK, Frame, Grows, store
  <2>4. damage = 0 => Evidence(r)'
    BY <2>1, <2>2, QuietStep, QuietTask
  <2>5. QED
    BY <2>1, <2>2, <2>3, <2>4, StoreStep DEF Undispatched
<1>11. CASE MarkDispatch(r)
  <2>1. /\ ctx' = [ctx EXCEPT ![r] = d] /\ d \in Context /\ d.step \notin {"idle", "release"}
        /\ ctx[r].step \in Undispatched \ {"reserved"} /\ result' = result /\ made' = made
    BY <1>11, <1>t DEF MarkDispatch, Context, Steps, Undispatched, store, Observations
  <2>2. /\ Frame(r) /\ agent'[r].turn = agent[r].turn
        /\ docs'[r]["submission"] = docs[r]["submission"]
    BY <1>11, <1>t DEF MarkDispatch, TypeOK, Frame, Grows, env, world, store, LockType, SessionType,
                     AgentType, Markers
  <2>3. Task(d, session', markers'[r], agent'[r], intent[r], lost)
    <3>1. /\ d.step = "prompt" /\ d.seen.dispatched /\ d.seen.stop = ctx[r].seen.stop
          /\ d.bound = ctx[r].bound /\ d.pending = ctx[r].pending
          /\ d.verdict = ctx[r].verdict /\ "prompt-dispatch-started" \in markers'[r]
      BY <1>11, <1>t DEF MarkDispatch, Context, Observations, TypeOK
    <3>2. ctx[r].seen.stop = "none"
      BY <1>11, <1>t DEF MarkDispatch, Task, Dispatching, Undispatched
    <3>3. QED
      BY <1>11, <1>t, <3>1, <3>2 DEF MarkDispatch, Task, Binding, Dispatching, Concluding,
           Undispatched, Recorded, Concluded
  <2>4. damage = 0 => Evidence(r)'
    BY <2>1, <2>2, QuietStep, QuietTask
  <2>5. QED
    BY <2>1, <2>2, <2>3, <2>4, StoreStep DEF Undispatched
<1>12. CASE MarkDispatchFails(r)
  <2>1. /\ ctx' = [ctx EXCEPT ![r] = d] /\ d \in Context /\ d.step \notin {"idle", "release"}
        /\ ctx[r].step \in Undispatched \ {"reserved"} /\ result' = result /\ made' = made
    BY <1>12, <1>t DEF MarkDispatchFails, Context, Steps, Undispatched, store
  <2>2. /\ Frame(r) /\ agent'[r].turn = agent[r].turn
        /\ docs'[r]["submission"] = docs[r]["submission"]
    BY <1>12, <1>t DEF MarkDispatchFails, TypeOK, Frame, Grows, env, world, store, LockType, SessionType,
                     AgentType, Markers
  <2>3. Task(d, session', markers'[r], agent'[r], intent[r], lost)
    BY <1>12, <1>t, <2>2 DEF MarkDispatchFails, Task, Binding, Dispatching, Concluding,
                     Undispatched, Recorded, Concluded, Context, TypeOK, Frame, Grows, store
  <2>4. damage = 0 => Evidence(r)'
    BY <2>1, <2>2, QuietStep, QuietTask
  <2>5. QED
    BY <2>1, <2>2, <2>3, <2>4, StoreStep DEF Undispatched
<1>13. QED
  BY <1>1, <1>2, <1>3, <1>4, <1>5, <1>6, <1>7, <1>8, <1>9, <1>10, <1>11, <1>12

\* What a task at work after the dispatch marker knows, without damage.
LEMMA LiveEvidence ==
  ASSUME RunInvariant, NEW r \in Runs, damage = 0,
         ctx[r].step \notin Undispatched \cup {"idle"}
  PROVE  /\ r \in made /\ docs[r]["submission"] = "valid" /\ daemon.left = <<>>
         /\ ctx[r].step # "release" => result[r] = "absent"
         /\ ctx[r].seen.dispatched =>
              session.record /\ "prompt-dispatch-started" \in markers[r]
BY DEF RunInvariant, OneTask, Task, Binding, Dispatching, EvidenceHolds, Evidence, Undispatched

\* The prompt and its answer.
LEMMA PromptSteps ==
  ASSUME RunInvariant, NEW r \in Runs, SendPrompt(r) \/ PromptAccepted(r) \/ TurnEnds(r)
  PROVE  RunInvariant'
<1> USE DEF At, Go
<1> DEFINE d == ctx'[r]
<1>t. /\ ctx \in [Runs -> Context] /\ ctx[r] \in Context
      /\ Task(ctx[r], session, markers[r], agent[r], intent[r], lost) /\ TypeOK
  BY DEF RunInvariant, OneTask, TypeOK
<1>s. ctx[r].step \in {"prompt", "turn"} /\ ctx[r].seen.dispatched /\ ctx[r].seen.stop = "none"
  BY <1>t DEF SendPrompt, PromptAccepted, TurnEnds, Task, Dispatching
<1>e. damage = 0 => /\ r \in made /\ docs[r]["submission"] = "valid" /\ result[r] = "absent"
                    /\ session.record /\ "prompt-dispatch-started" \in markers[r]
                    /\ \A i \in 1..Len(daemon.left) : daemon.left[i] # "failed"
  BY <1>s, LiveEvidence DEF Undispatched
<1>1. CASE SendPrompt(r)
  <2>1. /\ ctx' = [ctx EXCEPT ![r] = d] /\ d \in Context /\ d = [ctx[r] EXCEPT !.step = "turn"]
        /\ UNCHANGED <<store, session>>
    BY <1>1, <1>t DEF SendPrompt, Context, Steps
  <2>2. Frame(r)
    <3>1. agent \in [Runs -> AgentType] /\ agent' = [agent EXCEPT ![r].turn = "prompted"]
      BY <1>1, <1>t DEF SendPrompt, TypeOK, AgentType
    <3>2. /\ agent' \in [Runs -> AgentType]
          /\ \A q \in Runs \ {r} : agent'[q] = agent[q]
      BY <3>1 DEF AgentType
    <3>3. /\ lock \in LockType /\ session \in SessionType /\ made \subseteq Runs
          /\ docs \in [Runs -> [DocNames -> DocKinds]] /\ markers \in [Runs -> SUBSET Markers]
          /\ result \in [Runs -> {"absent", "corrupt"} \cup Statuses]
          /\ lost \subseteq WriteFaults
      BY <1>t DEF TypeOK, LockType, SessionType
    <3>4. UNCHANGED <<world, lost, made, docs, markers, result, session, lock>>
      BY <1>1 DEF SendPrompt, store, env, world
    <3>5. QED
      BY <3>2, <3>3, <3>4 DEF Frame, Grows
  <2>3. Task(d, session', markers'[r], agent'[r], intent[r], lost)
    BY <1>1, <1>t, <1>s, <2>1 DEF SendPrompt, Task, Binding, Dispatching, Concluding, Undispatched,
                            Recorded, Concluded, Context, store
  <2>4. damage = 0 => Evidence(r)'
    BY <1>e, <1>t, <2>1, <2>2 DEF Evidence, Frame, env, world, store, Context
  <2>5. QED
    BY <1>s, <2>1, <2>2, <2>3, <2>4, StoreStep DEF store
<1>2. CASE PromptAccepted(r)
  <2>1. /\ ctx' = [ctx EXCEPT ![r] = d] /\ d \in Context /\ d = ctx[r]
        /\ UNCHANGED <<made, docs, result, session, agent>>
    BY <1>2, <1>t DEF PromptAccepted
  <2>2. Frame(r) /\ markers[r] \subseteq markers'[r]
    BY <1>2, <1>t DEF PromptAccepted, TypeOK, Frame, Grows, env, world, LockType, SessionType, AgentType,
                      Markers
  <2>3. Task(d, session', markers'[r], agent'[r], intent[r], lost)
    BY <1>t, <2>1, <2>2 DEF Task, Dispatching
  <2>4. damage = 0 => Evidence(r)'
    BY <1>e, <1>s, <2>1, <2>2 DEF Evidence, Frame, env, world
  <2>5. QED
    BY <1>s, <2>1, <2>2, <2>3, <2>4, StoreStep
<1>3. CASE TurnEnds(r)
  <2>1. PICK stop \in StopReasons \ {"none"}, violated \in BOOLEAN :
          ctx' = [ctx EXCEPT ![r].step = "finalize", ![r].seen.stop = stop,
                             ![r].seen.violation = violated]
    BY <1>3 DEF TurnEnds
  <2>2. /\ ctx' = [ctx EXCEPT ![r] = d] /\ d \in Context /\ d.step = "finalize"
        /\ d.bound = ctx[r].bound /\ d.pending = ctx[r].pending /\ d.verdict = ctx[r].verdict
        /\ d.seen.dispatched = ctx[r].seen.dispatched
    BY <1>t, <2>1 DEF Context, Steps, Observations
  <2>3. Frame(r) /\ agent'[r].turn = "answered" /\ UNCHANGED <<store, session>>
    <3>1. agent' = [agent EXCEPT ![r].turn = "answered"] /\ UNCHANGED <<env, store, session, lock>>
      BY <1>3 DEF TurnEnds
    <3>2. QED
      BY <1>t, <3>1, ZenonT(60) DEF TypeOK, Frame, Grows, env, world, store, LockType, SessionType, AgentType
  <2>4. Task(d, session', markers'[r], agent'[r], intent[r], lost)
    BY <1>t, <1>s, <2>2, <2>3 DEF Task, Binding, Dispatching, Concluding, Undispatched,
                            Recorded, Concluded, store
  <2>5. damage = 0 => Evidence(r)'
    BY <1>e, <2>2, <2>3 DEF Evidence, Frame, env, world, Uncertain, store
  <2>6. QED
    BY <1>s, <2>2, <2>3, <2>4, <2>5, StoreStep DEF store
<1>4. QED
  BY <1>1, <1>2, <1>3

\* The quarantine and the terminal.
LEMMA TerminalSteps ==
  ASSUME RunInvariant, NEW r \in Runs,
         WriteFence(r) \/ MarkQuarantined(r) \/ ClearFence(r) \/ PublishResult(r) \/ PublishFails(r)
  PROVE  RunInvariant'
<1> USE DEF At, Go, End
<1> DEFINE d == ctx'[r]
<1>t. /\ ctx \in [Runs -> Context] /\ ctx[r] \in Context
      /\ Task(ctx[r], session, markers[r], agent[r], intent[r], lost) /\ TypeOK
  BY DEF RunInvariant, OneTask, TypeOK
<1>u. agent[r].turn = "prompted" /\ ctx[r].step # "idle" =>
        ctx[r].seen.dispatched /\ ctx[r].seen.stop = "none"
  BY <1>t DEF Task, Dispatching
<1>e. ctx[r].step \in {"fence", "mark", "clear", "result"} /\ damage = 0 =>
        /\ r \in made /\ docs[r]["submission"] = "valid" /\ result[r] = "absent"
        /\ ctx[r].seen.dispatched => session.record /\ "prompt-dispatch-started" \in markers[r]
        /\ \A i \in 1..Len(daemon.left) : daemon.left[i] # "failed"
  BY LiveEvidence DEF Undispatched
<1>1. CASE WriteFence(r)
  <2>1. /\ ctx' = [ctx EXCEPT ![r] = d] /\ d \in Context /\ d = [ctx[r] EXCEPT !.step = "mark"]
        /\ UNCHANGED <<store, agent>>
    BY <1>1, <1>t DEF WriteFence, Context, Steps
  <2>2. Frame(r)
    BY <1>1, <1>t DEF WriteFence, TypeOK, Frame, Grows, env, world, store, LockType, SessionType, AgentType
  <2>3. Task(d, session', markers'[r], agent'[r], intent[r], lost)
    BY <1>1, <1>t, <2>1, <2>2 DEF WriteFence, Task, Binding, Dispatching, Concluding,
         Undispatched, Recorded, Concluded, Context, Frame, Grows, store
  <2>4. damage = 0 => Evidence(r)'
    BY <1>1, <1>e, <1>u, <1>t, <2>1, <2>2 DEF WriteFence, Evidence, Uncertain, store, Context, Frame, Grows, env, world
  <2>5. QED
    BY <1>1, <2>1, <2>2, <2>3, <2>4, StoreStep DEF WriteFence, store
<1>2. CASE MarkQuarantined(r)
  <2>1. /\ ctx' = [ctx EXCEPT ![r] = d] /\ d \in Context /\ d = [ctx[r] EXCEPT !.step = "clear"]
        /\ UNCHANGED <<store, agent>> /\ session'.quarantined
    BY <1>2, <1>t DEF MarkQuarantined, Context, Steps, TypeOK
  <2>2. Frame(r)
    BY <1>2, <1>t DEF MarkQuarantined, TypeOK, Frame, Grows, env, world, store, LockType, SessionType,
                      AgentType
  <2>3. Task(d, session', markers'[r], agent'[r], intent[r], lost)
    BY <1>2, <1>t, <2>1, <2>2 DEF MarkQuarantined, Task, Binding, Dispatching, Concluding,
         Undispatched, Recorded, Concluded, Context, Frame, Grows, store
  <2>4. damage = 0 => Evidence(r)'
    BY <1>2, <1>e, <1>u, <1>t, <2>1, <2>2 DEF MarkQuarantined, Evidence, Uncertain, store, Context, Frame, Grows, env, world
  <2>5. QED
    BY <1>2, <2>1, <2>2, <2>3, <2>4, StoreStep DEF MarkQuarantined, store
<1>3. CASE ClearFence(r)
  <2>1. /\ ctx[r].step = "clear" /\ UNCHANGED <<store, agent>> /\ session.quarantined
        /\ Frame(r)
    BY <1>3, <1>t DEF ClearFence, TypeOK, Frame, Grows, env, world, store, LockType, SessionType,
                      AgentType, Task, Concluding
  <2>2. CASE ctx' = [ctx EXCEPT ![r] = Idle]
    <3>1. ctx' = [ctx EXCEPT ![r] = d] /\ d \in Context /\ d = Idle
      BY <1>t, <2>2, IdleTask
    <3>2. damage = 0 => Evidence(r)'
      BY <1>e, <1>u, <2>1, <3>1, IdleTask DEF Evidence, Frame, env, world, Uncertain, store, Grows
    <3>3. QED
      BY <2>1, <3>1, <3>2, IdleTask, StoreStep DEF store
  <2>3. CASE ctx' = [ctx EXCEPT ![r].step = "result"] /\ ctx[r].verdict.after # "end"
    <3>1. ctx' = [ctx EXCEPT ![r] = d] /\ d \in Context /\ d = [ctx[r] EXCEPT !.step = "result"]
      BY <1>t, <2>3 DEF Context, Steps
    <3>2. Task(d, session', markers'[r], agent'[r], intent[r], lost)
      BY <1>t, <2>1, <2>3, <3>1 DEF Task, Binding, Dispatching, Concluding,
         Undispatched, Recorded, Concluded, Context, Verdict, Frame, Grows, store
    <3>3. damage = 0 => Evidence(r)'
      BY <1>e, <1>u, <1>t, <2>1, <3>1 DEF Evidence, Frame, env, world, Uncertain, store, Context, Grows
    <3>4. QED
      BY <2>1, <3>1, <3>2, <3>3, StoreStep DEF store
  <2>4. QED
    BY <1>3, <2>2, <2>3 DEF ClearFence, Resume
<1>v. ctx[r].step = "result" =>
        /\ ctx[r].verdict.status \in Statuses
        /\ ctx[r].verdict.after = "result"
        /\ "fence" \notin lost =>
             /\ ctx[r].seen.dispatched /\ ctx[r].seen.stop = "none" => session.quarantined
             /\ ctx[r].verdict.status = "unknown" => session.quarantined
  <2>1. ctx[r].verdict.status \in Statuses \cup {"none"}
    BY <1>t DEF Context, Verdict
  <2>2. QED
    BY <1>t, <2>1 DEF Task, Concluding, Concluded
<1>4. CASE PublishResult(r) /\ result[r] = "absent"
  <2>1. /\ ctx' = [ctx EXCEPT ![r] = d] /\ d \in Context /\ d = [ctx[r] EXCEPT !.step = "release"]
        /\ ctx[r].step = "result" /\ UNCHANGED <<made, docs, markers, session, agent>>
    BY <1>4, <1>t DEF PublishResult, Context, Steps
  <2>2. Frame(r) /\ result'[r] = ctx[r].verdict.status
    BY <1>4, <1>t, <1>v DEF PublishResult, TypeOK, Frame, Grows, env, world, LockType, SessionType,
                            AgentType
  <2>3. Task(d, session', markers'[r], agent'[r], intent[r], lost)
    BY <1>t, <2>1 DEF Task, Binding, Dispatching, Concluding, Undispatched, Recorded, Concluded,
                      Context
  <2>4. damage = 0 => Evidence(r)'
    BY <1>e, <1>u, <1>v, <1>t, <2>1, <2>2 DEF Evidence, Frame, env, world, Uncertain, Context, Statuses
  <2>5. QED
    BY <1>v, <2>1, <2>2, <2>3, <2>4, StoreStep
<1>5. CASE PublishResult(r) /\ result[r] # "absent"
  <2>1. /\ ctx[r].step = "result" /\ UNCHANGED <<made, docs, markers, result, session, agent>>
        /\ Frame(r) /\ damage # 0
    BY <1>5, <1>t, <1>e DEF PublishResult, TypeOK, Frame, Grows, env, world, LockType, SessionType,
                            AgentType
  <2>2. CASE ctx' = [ctx EXCEPT ![r] = Idle]
    <3>1. ctx' = [ctx EXCEPT ![r] = d] /\ d \in Context /\ d = Idle
      BY <1>t, <2>2, IdleTask
    <3>2. QED
      BY <2>1, <3>1, IdleTask, StoreStep
  <2>3. CASE ctx' = [ctx EXCEPT ![r].step = "fence", ![r].verdict.after = "end"]
    <3>1. /\ ctx' = [ctx EXCEPT ![r] = d] /\ d \in Context
          /\ d.step = "fence" /\ d.verdict.after = "end" /\ d.seen = ctx[r].seen
          /\ d.bound = ctx[r].bound /\ d.pending = ctx[r].pending
      BY <1>t, <2>3 DEF Context, Steps, Verdict
    <3>2. Task(d, session', markers'[r], agent'[r], intent[r], lost)
      BY <1>t, <2>1, <3>1 DEF Task, Binding, Dispatching, Concluding, Undispatched, Recorded,
                              Concluded
    <3>3. QED
      BY <2>1, <3>1, <3>2, StoreStep
  <2>4. QED
    BY <1>5, <2>2, <2>3 DEF PublishResult
<1>6. CASE PublishFails(r)
  <2>1. PICK published \in BOOLEAN :
          result' = IF published THEN [result EXCEPT ![r] = ctx[r].verdict.status] ELSE result
    BY <1>6 DEF PublishFails
  <2>2. /\ ctx' = [ctx EXCEPT ![r] = d] /\ d \in Context /\ d = Idle
        /\ ctx[r].step = "result" /\ UNCHANGED <<made, docs, markers, session, agent>>
    BY <1>6, <1>t, IdleTask DEF PublishFails
  <2>3. /\ result' \in [Runs -> {"absent", "corrupt"} \cup Statuses]
        /\ \A q \in Runs \ {r} : result'[q] = result[q]
        /\ result'[r] \in {result[r], ctx[r].verdict.status}
    BY <1>t, <1>v, <2>1, <2>2 DEF TypeOK
  <2>g. lost \subseteq lost' /\ lost' \subseteq WriteFaults
    BY <1>6, <1>t, GivenUp DEF PublishFails
  <2>4. Frame(r)
    BY <1>6, <1>t, <2>g, <2>2, <2>3 DEF PublishFails, TypeOK, Frame, Grows, world, LockType,
                                  SessionType, AgentType
  <2>5. damage = 0 => Evidence(r)'
    BY <2>g, <1>e, <1>u, <1>v, <2>2, <2>3, IdleTask DEF Evidence, Frame, env, world, Uncertain, Statuses
  <2>6. QED
    BY <1>v, <2>2, <2>3, <2>4, <2>5, IdleTask, StoreStep
<1>7. QED
  BY <1>1, <1>2, <1>3, <1>4, <1>5, <1>6

\* The writes of a row: an unknown terminal comes after the quarantine, and a
\* Run with a dispatch marker and without a terminal gets its Session
\* quarantined.
LEMMA RowWritesFact ==
  ASSUME TypeOK, NEW r \in Runs
  PROVE  /\ RowWrites(r) \in Seq(Writes)
         /\ \A i \in 1..Len(RowWrites(r)) : RowWrites(r)[i] = "unknown" =>
              session.quarantined \/ \E j \in 1..(i - 1) : RowWrites(r)[j] = "mark"
         /\ result[r] = "absent" /\ DispatchPresent(r) /\ Actionable(r) =>
              /\ session.quarantined \/ \E j \in 1..Len(RowWrites(r)) : RowWrites(r)[j] = "mark"
              /\ \A i \in 1..Len(RowWrites(r)) : RowWrites(r)[i] # "failed"
<1> DEFINE Q == QuarantineWrites
<1>1. /\ Q \in {<<"fence", "mark", "clear">>, <<"clear">>, <<>>}
      /\ ~session.quarantined => Q = <<"fence", "mark", "clear">>
  BY DEF QuarantineWrites
<1>2. /\ Row(r) \in Nat
      /\ result[r] = "absent" /\ DispatchPresent(r) /\ Actionable(r) => Row(r) = 5
  BY DEF Row, SelectRow, TerminalClass
<1>3. CASE Row(r) = 5
  <2>1. RowWrites(r) = Q \o <<"unknown">>
    BY <1>3 DEF RowWrites
  <2>2. CASE Q = <<"fence", "mark", "clear">>
    BY <2>1, <2>2 DEF Writes
  <2>3. CASE Q = <<"clear">> /\ session.quarantined
    BY <2>1, <2>3 DEF Writes
  <2>4. CASE Q = <<>> /\ session.quarantined
    BY <2>1, <2>4 DEF Writes
  <2>5. QED
    BY <1>1, <2>2, <2>3, <2>4
<1>4. CASE Row(r) # 5
  <2> DEFINE Harmless(w) == w \in Seq(Writes) /\ \A i \in 1..Len(w) : w[i] # "unknown"
             Prefixes == {<<"fence", "mark", "clear">>, <<"clear">>, <<>>}
  <2>0. ASSUME NEW p \in Prefixes
        PROVE  Harmless(p) /\ Harmless(p \o <<"refuse">>) /\ Harmless(p \o <<"failed">>)
    <3>2. CASE p = <<"fence", "mark", "clear">>
      BY <3>2 DEF Writes
    <3>3. CASE p = <<"clear">>
      BY <3>3 DEF Writes
    <3>4. CASE p = <<>>
      BY <3>4 DEF Writes
    <3>5. QED
      BY <3>2, <3>3, <3>4
  <2>1. Harmless(<<"refuse">>) /\ Q \in Prefixes /\ <<>> \in Prefixes
    BY <1>1 DEF Writes
  <2> HIDE DEF Harmless, Prefixes, Q
  <2>2. Harmless(RowWrites(r))
    <3>1. CASE Row(r) = 1
      <4>1. RowWrites(r) = <<>>
        BY <3>1 DEF RowWrites
      <4>2. QED
        BY <2>0, <2>1, <4>1
    <3>2. CASE Row(r) = 2
      <4>1. RowWrites(r) = Q
        BY <3>2 DEF RowWrites, Q
      <4>2. QED
        BY <2>0, <2>1, <4>1
    <3>3. CASE Row(r) = 4
      <4>1. RowWrites(r) = (IF DispatchPresent(r) /\ Actionable(r) THEN Q ELSE <<>>) \o <<"refuse">>
        BY <3>3 DEF RowWrites, Q
      <4>2. QED
        BY <2>0, <2>1, <4>1
    <3>4. CASE Row(r) = 7 \/ (Row(r) = 11 /\ docs[r]["submission"] # "corrupt")
      <4>1. RowWrites(r) = (IF SwitchUnproven(r) /\ Actionable(r) THEN Q ELSE <<>>) \o <<"failed">>
        BY <3>4 DEF RowWrites, Q
      <4>2. QED
        BY <2>0, <2>1, <4>1
    <3>5. CASE /\ Row(r) \notin {1, 2, 4, 7}
               /\ ~(Row(r) = 11 /\ docs[r]["submission"] # "corrupt")
      <4>1. RowWrites(r) = <<"refuse">>
        BY <1>4, <3>5 DEF RowWrites
      <4>2. QED
        BY <2>1, <4>1
    <3>6. QED
      BY <3>1, <3>2, <3>3, <3>4, <3>5
  <2>3. QED
    BY <1>2, <1>4, <2>2 DEF Harmless
<1>5. QED
  BY <1>3, <1>4

\* Without a live task, the parts of the invariant about tasks are simple.
LEMMA NoTask ==
  ASSUME RunInvariant, daemon.phase # "listening"
  PROVE  \A r \in Runs : ctx[r] = Idle
BY DEF RunInvariant, OneTask, Task

\* The reconciliation of one Run after the other.
LEMMA ReconciliationSteps ==
  ASSUME RunInvariant, Reconciliation
  PROVE  RunInvariant'
<1>t. TypeOK /\ \A r \in Runs : ctx[r] = Idle
  BY NoTask DEF RunInvariant, Reconciliation, Start, ClassifyRun, ApplyWrite, Listen
<1>i. \A r \in Runs : ctx[r].step = "idle"
  BY <1>t, IdleTask
<1>e. ASSUME damage = 0, NEW r \in Runs PROVE Evidence(r)
  BY <1>e DEF RunInvariant, EvidenceHolds
<1>1. CASE Start
  <2>1. /\ daemon' = [daemon EXCEPT !.phase = "reconciling", !.todo = made]
        /\ UNCHANGED <<intent, store, session, lock, ctx, agent, lost, crashes, damage>>
    BY <1>1 DEF Start
  <2>2. daemon.left = <<>>
    BY <1>1 DEF Start, RunInvariant, OneTask
  <2>3. TypeOK'
    BY <1>t, <2>1 DEF TypeOK, store
  <2>4. OneTask'
    BY <1>t, <1>i, <2>1, <2>2, IdleTask DEF RunInvariant, OneTask, TypeOK, store
  <2>5. UnknownFollowsMark'
    BY <1>t, <2>1 DEF RunInvariant, UnknownFollowsMark, TypeOK, store
  <2>6. ASSUME damage = 0, NEW r \in Runs PROVE Evidence(r)'
    <3>1. Uncertain(r) => r \in made
      BY DEF RunInvariant, OneTask, Uncertain
    <3>2. QED
      BY <1>t, <1>e, <2>1, <2>2, <2>6, <3>1 DEF Evidence, Uncertain, WillQuarantine, TypeOK, store
  <2>7. QED
    BY <2>1, <2>3, <2>4, <2>5, <2>6 DEF RunInvariant, EvidenceHolds
<1>2. ASSUME NEW q \in Runs, ClassifyRun(q) PROVE RunInvariant'
  <2>1. /\ daemon' = [daemon EXCEPT !.todo = @ \ {q}, !.run = q, !.left = RowWrites(q)]
        /\ daemon.left = <<>> /\ q \in daemon.todo /\ daemon.phase = "reconciling"
        /\ UNCHANGED <<intent, store, session, lock, ctx, agent, lost, crashes, damage>>
    BY <1>2 DEF ClassifyRun
  <2>2. /\ daemon'.left = RowWrites(q) /\ daemon'.run = q /\ daemon'.phase = "reconciling"
        /\ daemon'.todo = daemon.todo \ {q}
    BY <1>t, <2>1 DEF TypeOK
  <2>3. TypeOK'
    BY <1>t, <2>1, RowWritesFact DEF TypeOK, store
  <2>4. OneTask'
    BY <1>t, <1>i, <2>1, <2>2, IdleTask DEF RunInvariant, OneTask, TypeOK, store
  <2>5. UnknownFollowsMark'
    BY <1>t, <2>1, <2>2, RowWritesFact DEF RunInvariant, UnknownFollowsMark, store
  <2>6. ASSUME damage = 0, NEW r \in Runs PROVE Evidence(r)'
    <3>1. Uncertain(r) => DispatchPresent(r) /\ Actionable(r)
      BY <1>e, <2>6 DEF Evidence, DispatchPresent, Actionable
    <3>2. CASE r = q
      BY <1>t, <1>i, <1>e, <2>1, <2>2, <2>6, <3>1, <3>2, RowWritesFact
         DEF Evidence, Uncertain, WillQuarantine, store
    <3>3. CASE r # q
      BY <1>t, <1>i, <1>e, <2>1, <2>2, <2>6, <3>3 DEF Evidence, Uncertain, WillQuarantine, store
    <3>4. QED
      BY <3>2, <3>3
  <2>7. QED
    BY <2>1, <2>3, <2>4, <2>5, <2>6 DEF RunInvariant, EvidenceHolds
<1>3. CASE Listen
  <2>1. /\ daemon' = Listening /\ daemon.left = <<>> /\ daemon.todo = {}
        /\ daemon.phase = "reconciling"
        /\ UNCHANGED <<intent, store, session, lock, ctx, agent, lost, crashes, damage>>
    BY <1>3 DEF Listen
  <2>2. TypeOK'
    BY <1>t, <2>1 DEF TypeOK, store, Listening
  <2>3. OneTask'
    BY <1>t, <1>i, <2>1, IdleTask DEF RunInvariant, OneTask, store, Listening
  <2>4. UnknownFollowsMark'
    BY <1>t, <2>1 DEF RunInvariant, UnknownFollowsMark, store, Listening
  <2>5. ASSUME damage = 0, NEW r \in Runs PROVE Evidence(r)'
    BY <1>t, <1>i, <1>e, <2>1, <2>5 DEF Evidence, Uncertain, WillQuarantine, store, Listening
  <2>6. QED
    BY <2>1, <2>2, <2>3, <2>4, <2>5 DEF RunInvariant, EvidenceHolds
<1>4. CASE ApplyWrite
  <2> DEFINE write == Head(daemon.left)
             run == daemon.run
             rest == Tail(daemon.left)
             n == Len(daemon.left)
  <2>1. /\ daemon.phase = "reconciling" /\ daemon.left # <<>> /\ run \in made /\ run \in Runs
        /\ UNCHANGED <<intent, made, docs, markers, lock, ctx, agent, lost, crashes, damage>>
    BY <1>4, <1>t DEF ApplyWrite, RunInvariant, OneTask, TypeOK
  <2>2. /\ n \in Nat \ {0} /\ write = daemon.left[1] /\ write \in Writes
        /\ rest \in Seq(Writes) /\ Len(rest) = n - 1
        /\ \A i \in 1..(n - 1) : rest[i] = daemon.left[i + 1]
    <3>1. daemon.left \in Seq(Writes)
      BY <1>t DEF TypeOK
    <3>2. QED
      BY <2>1, <3>1
  <2>3. daemon' = IF write = "refuse" THEN [Down EXCEPT !.phase = "refused"]
                  ELSE [daemon EXCEPT !.left = rest]
    BY <1>4 DEF ApplyWrite
  <2>4. /\ session' \in SessionType /\ Grows(session, session')
        /\ write = "mark" => session'.quarantined
    BY <1>4, <1>t DEF ApplyWrite, TypeOK, SessionType, Grows
  <2>5. /\ result' \in [Runs -> {"absent", "corrupt"} \cup Statuses]
        /\ \A q \in Runs \ {run} : result'[q] = result[q]
        /\ result'[run] = IF write \in {"unknown", "failed"} /\ result[run] = "absent"
                          THEN write ELSE result[run]
    BY <1>4, <1>t, <2>1 DEF ApplyWrite, TypeOK, Statuses
  <2>6. /\ write = "refuse" => /\ daemon'.phase = "refused" /\ daemon'.left = <<>>
                               /\ daemon'.todo = {} /\ daemon'.run = NoRun
        /\ write # "refuse" => /\ daemon'.phase = "reconciling" /\ daemon'.run = run
                               /\ daemon'.todo = daemon.todo
                               /\ daemon'.left = rest
    BY <1>t, <2>1, <2>3 DEF TypeOK, Down, Listening
  <2>7. TypeOK'
    <3>1. daemon' \in [phase : {"down", "reconciling", "listening", "refused"},
                       todo : SUBSET Runs, run : Runs \cup {NoRun}, left : Seq(Writes)]
      <4>1. CASE write = "refuse"
        <5>1. daemon' = [phase |-> "refused", todo |-> {}, run |-> NoRun, left |-> <<>>]
          BY <2>3, <4>1 DEF Down, Listening
        <5>2. <<>> \in Seq(Writes)
          OBVIOUS
        <5>3. QED
          BY <5>1, <5>2
      <4>2. CASE write # "refuse"
        BY <1>t, <2>2, <2>3, <4>2 DEF TypeOK
      <4>3. QED
        BY <4>1, <4>2
    <3>2. QED
      BY <1>t, <2>1, <2>4, <2>5, <3>1 DEF TypeOK, SessionType
  <2>8. OneTask'
    <3>1. \A r \in Runs : ctx'[r] = Idle /\ ctx'[r].step = "idle"
      BY <1>t, <1>i, <2>1
    <3>2. daemon'.todo \subseteq made' /\ (daemon'.left # <<>> => daemon'.run \in made')
      BY <2>1, <2>6 DEF RunInvariant, OneTask
    <3>3. daemon'.phase # "reconciling" => daemon'.left = <<>>
      BY <2>6
    <3>4. QED
      BY <2>1, <3>1, <3>2, <3>3, IdleTask DEF RunInvariant, OneTask
  <2> HIDE DEF write, run, rest
  <2>9. UnknownFollowsMark'
    <3>1. "fence" \notin lost => \A r \in Runs : result'[r] = "unknown" => session'.quarantined
      <4>1. write = "unknown" => session.quarantined
        <5>1. 1 \in 1..n /\ 1..(1 - 1) = {}
          BY <2>2
        <5>2. daemon.left[1] = "unknown" =>
                session.quarantined \/ \E j \in 1..(1 - 1) : daemon.left[j] = "mark"
          BY <5>1 DEF RunInvariant, UnknownFollowsMark
        <5>3. QED
          BY <2>2, <5>1, <5>2
      <4>2. QED
        BY <2>1, <2>4, <2>5, <4>1 DEF RunInvariant, UnknownFollowsMark, Grows
    <3>2. ASSUME NEW i \in 1..Len(daemon'.left), daemon'.left[i] = "unknown",
                 ~session'.quarantined
          PROVE  \E j \in 1..(i - 1) : daemon'.left[j] = "mark"
      <4>1. /\ write # "refuse" /\ i \in 1..(n - 1) /\ daemon.left[i + 1] = "unknown"
            /\ i + 1 \in 1..n /\ ~session.quarantined
        BY <2>2, <2>4, <2>6, <3>2 DEF Grows
      <4>2. PICK j \in 1..i : daemon.left[j] = "mark"
        BY <4>1 DEF RunInvariant, UnknownFollowsMark
      <4>3. j # 1
        BY <2>2, <2>4, <3>2, <4>2
      <4>4. daemon'.left[j - 1] = "mark" /\ j - 1 \in 1..(i - 1)
        BY <2>2, <2>6, <4>1, <4>2, <4>3
      <4>5. QED
        BY <4>4
    <3>3. QED
      BY <2>1, <3>1, <3>2 DEF UnknownFollowsMark
  <2>10. ASSUME damage = 0, NEW r \in Runs PROVE Evidence(r)'
    <3>1. /\ Evidence(r) /\ ctx'[r].step = "idle" /\ (Uncertain(r)' <=> Uncertain(r))
          /\ docs'[r] = docs[r] /\ markers'[r] = markers[r] /\ made' = made
      BY <1>e, <1>i, <2>1, <2>10 DEF Uncertain
    <3>2. result'[r] # "corrupt" /\ (r \notin made => result'[r] = "absent")
      BY <2>1, <2>5, <3>1 DEF Evidence
    <3>3. ASSUME Uncertain(r), "fence" \notin lost, ~session'.quarantined
          PROVE  /\ result'[r] = "absent"
                 /\ daemon'.run = r => \A i \in 1..Len(daemon'.left) : daemon'.left[i] # "failed"
                 /\ daemon'.phase = "refused" \/ WillQuarantine(r)'
      <4>1. ~session.quarantined /\ write # "mark" /\ result[r] = "absent"
        BY <2>4, <3>1, <3>3 DEF Grows, Evidence
      <4>2. run = r => \A i \in 1..Len(daemon.left) : daemon.left[i] # "failed"
        BY <3>1, <3>3, <4>1 DEF Evidence, run
      <4>3. write # "unknown"
        BY <2>1, <2>2, <4>1 DEF RunInvariant, UnknownFollowsMark
      <4>4. run = r => write # "failed"
        BY <2>1, <2>2, <4>2
      <4>5. result'[r] = "absent"
        BY <2>5, <4>1, <4>3, <4>4
      <4>6. daemon'.run = r => \A i \in 1..Len(daemon'.left) : daemon'.left[i] # "failed"
        BY <2>2, <2>6, <4>2, RunsAssumption
      <4>7. daemon'.phase = "refused" \/ WillQuarantine(r)'
        <5>1. CASE write = "refuse"
          BY <2>6, <5>1
        <5>2. CASE write # "refuse" /\ r \in daemon.todo
          BY <2>6, <5>2 DEF WillQuarantine
        <5>3. CASE write # "refuse" /\ \E j \in 1..Len(daemon.left) : daemon.left[j] = "mark"
          <6>1. PICK j \in 1..Len(daemon.left) : daemon.left[j] = "mark"
            BY <5>3
          <6>2. j - 1 \in 1..Len(daemon'.left) /\ daemon'.left[j - 1] = "mark"
            BY <2>2, <2>6, <4>1, <5>3, <6>1
          <6>3. QED
            BY <2>6, <5>3, <6>2 DEF WillQuarantine
        <5>4. QED
          BY <1>i, <2>1, <3>1, <3>3, <4>1, <5>1, <5>2, <5>3 DEF Evidence, WillQuarantine
      <4>8. QED
        BY <4>5, <4>6, <4>7
    <3>4. QED
      BY <2>1, <2>4, <3>1, <3>2, <3>3 DEF Evidence, Grows
  <2>11. QED
    BY <2>1, <2>7, <2>8, <2>9, <2>10 DEF RunInvariant, EvidenceHolds
<1>5. QED
  BY <1>1, <1>2, <1>3, <1>4 DEF Reconciliation

\* A crash, an expiry, damage, and the containment of a corrupt terminal.
LEMMA EnvironmentSteps ==
  ASSUME RunInvariant,
         \/ Crash \/ LeaseExpires
         \/ \E r \in Runs : ContainInvalidTerminal(r) \/ Damage(r) \/ MarkerUnreadable(r)
  PROVE  RunInvariant'
<1>t. TypeOK
  BY DEF RunInvariant
<1>1. CASE Crash
  <2>1. /\ daemon' = [phase |-> "down", todo |-> {}, run |-> NoRun, left |-> <<>>]
        /\ crashes' = crashes + 1 /\ crashes < MaxCrashes
        /\ ctx' = [r \in Runs |-> Idle]
        /\ UNCHANGED <<intent, made, docs, markers, result, session, lock, agent, lost, damage>>
    BY <1>1 DEF Crash, Down, Listening, store
  <2>2. <<>> \in Seq(Writes) /\ Len(<<>>) = 0
    OBVIOUS
  <2>3. \A r \in Runs : ctx'[r] = Idle /\ ctx'[r].step = "idle"
    BY <2>1, IdleTask
  <2>4. TypeOK'
    BY <1>t, <2>1, <2>2, IdleTask, BoundsAssumption DEF TypeOK
  <2>5. OneTask'
    BY <2>1, <2>3, IdleTask DEF RunInvariant, OneTask
  <2>6. UnknownFollowsMark'
    BY <2>1, <2>2 DEF RunInvariant, UnknownFollowsMark
  <2>7. EvidenceHolds'
    BY <2>1, <2>3, RunsAssumption DEF RunInvariant, EvidenceHolds, Evidence, Uncertain
  <2>8. QED
    BY <2>4, <2>5, <2>6, <2>7 DEF RunInvariant
<1>2. CASE LeaseExpires
  <2>1. /\ lock' = [lock EXCEPT !.expired = TRUE]
        /\ UNCHANGED <<intent, made, docs, markers, result, session, ctx, daemon, agent, lost,
                       crashes, damage>>
    BY <1>2 DEF LeaseExpires, env, world, store
  <2>2. TypeOK'
    BY <1>t, <2>1 DEF TypeOK
  <2>3. OneTask' /\ UnknownFollowsMark'
    BY <2>1 DEF RunInvariant, OneTask, UnknownFollowsMark
  <2>4. EvidenceHolds'
    BY <2>1 DEF RunInvariant, EvidenceHolds, Evidence, Uncertain, WillQuarantine
  <2>5. QED
    BY <2>2, <2>3, <2>4 DEF RunInvariant
<1>3. ASSUME NEW r \in Runs, ContainInvalidTerminal(r) PROVE RunInvariant'
  <2>1. /\ session' \in {[session EXCEPT !.fence = TRUE],
                         [session EXCEPT !.quarantined = TRUE, !.fence = FALSE]}
        /\ result[r] = "corrupt"
        /\ UNCHANGED <<intent, made, docs, markers, result, lock, ctx, daemon, agent, lost,
                       crashes, damage>>
    BY <1>3 DEF ContainInvalidTerminal, env, world, store
  <2>2. session' \in SessionType /\ Grows(session, session')
    BY <1>t, <2>1 DEF TypeOK, SessionType, Grows
  <2>3. TypeOK'
    BY <1>t, <2>1, <2>2 DEF TypeOK, SessionType
  <2>4. OneTask'
    BY <2>1, <2>2, TaskFrame DEF RunInvariant, OneTask
  <2>5. UnknownFollowsMark'
    BY <2>1, <2>2 DEF RunInvariant, UnknownFollowsMark, Grows
  <2>6. damage' # 0
    BY <2>1 DEF RunInvariant, EvidenceHolds, Evidence
  <2>7. QED
    BY <2>3, <2>4, <2>5, <2>6 DEF RunInvariant, EvidenceHolds
<1>4. ASSUME NEW r \in Runs, Damage(r) \/ MarkerUnreadable(r) PROVE RunInvariant'
  <2>1. /\ docs' \in [Runs -> [DocNames -> DocKinds]]
        /\ markers' \in [Runs -> SUBSET Markers]
        /\ \A q \in Runs : markers[q] \subseteq markers'[q]
        /\ result' \in [Runs -> {"absent", "corrupt"} \cup Statuses]
        /\ \A q \in Runs : result'[q] = result[q] \/ result'[q] = "corrupt"
    <3>1. CASE Damage(r)
      <4>1. /\ result' = result \/ result' = [result EXCEPT ![r] = "corrupt"]
            /\ markers' = markers
            /\ docs' = docs \/ \E e \in DocNames : docs' = [docs EXCEPT ![r][e] = "corrupt"]
        BY <3>1 DEF Damage
      <4>2. ASSUME NEW e \in DocNames, docs' = [docs EXCEPT ![r][e] = "corrupt"]
            PROVE  docs' \in [Runs -> [DocNames -> DocKinds]]
        <5>1. [docs[r] EXCEPT ![e] = "corrupt"] \in [DocNames -> DocKinds]
          BY <1>t DEF TypeOK, DocKinds
        <5>2. QED
          BY <1>t, <4>2, <5>1 DEF TypeOK
      <4>3. QED
        BY <1>t, <4>1, <4>2 DEF TypeOK
    <3>2. CASE MarkerUnreadable(r)
      BY <1>t, <3>2 DEF MarkerUnreadable, TypeOK
    <3>3. QED
      BY <1>4, <3>1, <3>2
  <2>2. /\ damage' = damage + 1 /\ damage < MaxDamage
        /\ UNCHANGED <<intent, made, session, lock, ctx, daemon, agent, lost, crashes>>
    BY <1>4 DEF Damage, MarkerUnreadable
  <2>3. TypeOK' /\ damage' # 0
    BY <1>t, <2>1, <2>2, BoundsAssumption DEF TypeOK
  <2>4. OneTask'
    <3>1. ASSUME NEW q \in Runs
          PROVE  Task(ctx'[q], session', markers'[q], agent'[q], intent'[q], lost')
      BY <2>1, <2>2 DEF RunInvariant, OneTask, Task, Dispatching
    <3>2. QED
      BY <2>2, <3>1 DEF RunInvariant, OneTask
  <2>5. UnknownFollowsMark'
    BY <2>1, <2>2 DEF RunInvariant, UnknownFollowsMark
  <2>6. QED
    BY <2>3, <2>4, <2>5 DEF RunInvariant, EvidenceHolds
<1>5. QED
  BY <1>1, <1>2, <1>3, <1>4

\* The Session starts with nothing at work and nothing to tell.
LEMMA InitEstablishes == Init => RunInvariant
<1> SUFFICES ASSUME Init PROVE RunInvariant
  OBVIOUS
<1>1. /\ daemon = [phase |-> "listening", todo |-> {}, run |-> NoRun, left |-> <<>>]
      /\ <<>> \in Seq(Writes) /\ Len(<<>>) = 0
  BY DEF Init, Listening
<1>2. \A r \in Runs : ctx[r] = Idle /\ ctx[r].step = "idle"
  BY IdleTask DEF Init
<1>3. TypeOK
  <2>1. session \in SessionType
    BY DEF Init, SessionType
  <2>2. /\ docs \in [Runs -> [DocNames -> DocKinds]] /\ markers \in [Runs -> SUBSET Markers]
        /\ result \in [Runs -> {"absent", "corrupt"} \cup Statuses] /\ lock \in LockType
        /\ ctx \in [Runs -> Context] /\ agent \in [Runs -> AgentType]
    BY IdleTask DEF Init, FreeLock, DocKinds, LockType, AgentType
  <2>3. QED
    BY <1>1, <2>1, <2>2, BoundsAssumption DEF Init, TypeOK, SessionType, LockType, AgentType
<1>4. OneTask
  <2>1. \A r \in Runs : Task(ctx[r], session, markers[r], agent[r], intent[r], lost)
    BY <1>2, IdleTask
  <2>2. \A r \in Runs : agent[r].turn = "none"
    BY DEF Init
  <2>3. QED
    BY <1>1, <1>2, <2>1, <2>2 DEF OneTask
<1>5. UnknownFollowsMark
  BY <1>1 DEF Init, UnknownFollowsMark
<1>6. EvidenceHolds
  BY <1>1, <1>2 DEF Init, EvidenceHolds, Evidence, Uncertain
<1>7. QED
  BY <1>3, <1>4, <1>5, <1>6 DEF RunInvariant

\* Every step preserves the invariant.
LEMMA NextPreserves == RunInvariant /\ [Next]_vars => RunInvariant'
<1> SUFFICES ASSUME RunInvariant, [Next]_vars PROVE RunInvariant'
  OBVIOUS
<1>1. CASE UNCHANGED vars
  BY <1>1 DEF vars, RunInvariant, TypeOK, OneTask, UnknownFollowsMark,
              EvidenceHolds, Evidence, Uncertain, WillQuarantine
<1>2. ASSUME NEW r \in Runs, Reserve(r) \/ RunStep(r) PROVE RunInvariant'
  <2>1. CASE Reserve(r) \/ Submission(r)
    BY <2>1, SubmissionSteps DEF Submission
  <2>2. CASE Startup(r)
    BY <2>2, StartupSteps, PreparationSteps DEF Startup
  <2>3. CASE Switch(r)
    BY <2>3, StartupSteps, PreparationSteps DEF Switch
  <2>4. CASE Turn(r)
    BY <2>4, PreparationSteps, PromptSteps, ConclusionSteps DEF Turn
  <2>5. CASE Finalization(r)
    BY <2>5, ConclusionSteps, TerminalSteps DEF Finalization
  <2>6. QED
    BY <1>2, <2>1, <2>2, <2>3, <2>4, <2>5 DEF RunStep
<1>3. QED
  BY <1>1, <1>2, ReconciliationSteps, EnvironmentSteps DEF Next

\* Who changes the lease: a Run that may lease the Session, the holder that
\* releases it after its terminal, and time.
LEMMA LockChanges ==
  ASSUME Next
  PROVE  \/ lock' = lock \/ lock'.holder = lock.holder
         \/ \E r \in Runs : /\ ctx[r].step \in {"bind", "lease"} /\ ~Blocked
                           /\ lock' = [holder |-> r, expired |-> FALSE]
         \/ \E r \in Runs : /\ ctx[r].step = "release" /\ lock.holder = r
                           /\ lock' = FreeLock
<1>1. ASSUME NEW r \in Runs, Reserve(r) \/ Submission(r) \/ Turn(r) \/ Switch(r)
      PROVE  lock' = lock
  <2>1. CASE Reserve(r) \/ Submission(r)
    BY <2>1 DEF Reserve, Submission, Accept, SubmissionLost, RegistrationFails
  <2>2. CASE Turn(r)
    BY <2>2 DEF Turn, MarkDispatch, MarkDispatchFails, PromptEvidenceFails, SendPrompt,
                PromptAccepted, TurnEnds, TurnTimesOut, TurnLost, TurnInterrupted
  <2>3. CASE Switch(r)
    BY <2>3 DEF Switch, AnnounceSwitch, SendSet, SetProven, SetFails, RollbackProven,
                RollbackMarked, RollbackFails, SwitchInterrupted, SwitchMarked, CommitEffective
  <2>4. QED
    BY <1>1, <2>1, <2>2, <2>3
<1>2. ASSUME NEW r \in Runs, Startup(r)
      PROVE  \/ lock' = lock
             \/ /\ ctx[r].step \in {"bind", "lease"} /\ ~Blocked
                /\ lock' = [holder |-> r, expired |-> FALSE]
  BY <1>2 DEF Startup, WriteSpec, WriteLaunch, BindCreate, BindReuse, Spawn, CreateRecord,
              LeaseCreated, LoadSession, PreDispatchFails, At, Leasable
<1>3. ASSUME NEW r \in Runs, Finalization(r)
      PROVE  \/ lock' = lock
             \/ ctx[r].step = "release" /\ lock.holder = r /\ lock' = FreeLock
  BY <1>3 DEF Finalization, Conclude, FinalizationFails, EmergencyCleanup, WriteFence,
              MarkQuarantined, ClearFence, QuarantineFails, PublishResult, PublishFails,
              ReleaseLease, At
<1>4. ASSUME NEW r \in Runs, ContainInvalidTerminal(r) \/ Damage(r) \/ MarkerUnreadable(r)
      PROVE  lock' = lock
  BY <1>4 DEF ContainInvalidTerminal, Damage, MarkerUnreadable
<1>5. Reconciliation \/ Crash => lock' = lock
  BY DEF Reconciliation, Start, ClassifyRun, ApplyWrite, Listen, Crash
<1>6. LeaseExpires => lock'.holder = lock.holder \/ lock' = lock
  BY DEF LeaseExpires
<1>7. QED
  BY <1>1, <1>2, <1>3, <1>4, <1>5, <1>6 DEF Next, RunStep

\* A terminal that stands is only ever changed by damage.
LEMMA ResultChanges ==
  ASSUME TypeOK, Next, NEW r \in Runs, result[r] # "absent"
  PROVE  result'[r] = result[r] \/ damage' > damage
<1>t. result \in [Runs -> {"absent", "corrupt"} \cup Statuses] /\ damage \in Nat
  BY BoundsAssumption DEF TypeOK
<1>1. ASSUME NEW q \in Runs, Reserve(q) \/ Submission(q) PROVE result'[r] = result[r]
  BY <1>t, <1>1 DEF Reserve, Submission, Accept, SubmissionLost, RegistrationFails, store
<1>2. ASSUME NEW q \in Runs, Startup(q) \/ Switch(q) PROVE result'[r] = result[r]
  BY <1>2 DEF Startup, WriteSpec, WriteLaunch, BindCreate, BindReuse, Spawn, CreateRecord,
              LeaseCreated, LoadSession, PreDispatchFails, Switch, AnnounceSwitch, SendSet,
              SetProven, SetFails, RollbackProven, RollbackMarked, RollbackFails,
              SwitchInterrupted, SwitchMarked, CommitEffective, store
<1>3. ASSUME NEW q \in Runs, Turn(q) PROVE result'[r] = result[r]
  BY <1>3 DEF Turn, MarkDispatch, MarkDispatchFails, PromptEvidenceFails, SendPrompt,
              PromptAccepted, TurnEnds, TurnTimesOut, TurnLost, TurnInterrupted, store
<1>4. ASSUME NEW q \in Runs, Finalization(q) PROVE result'[r] = result[r]
  <2>1. CASE PublishResult(q) \/ PublishFails(q)
    BY <1>t, <2>1 DEF PublishResult, PublishFails
  <2>2. CASE ~(PublishResult(q) \/ PublishFails(q))
    BY <1>4, <2>2 DEF Finalization, Conclude, FinalizationFails, EmergencyCleanup, WriteFence,
              MarkQuarantined, ClearFence, QuarantineFails, ReleaseLease, store
  <2>3. QED
    BY <2>1, <2>2
<1>5. ASSUME NEW q \in Runs, ContainInvalidTerminal(q) PROVE result'[r] = result[r]
  BY <1>5 DEF ContainInvalidTerminal, store
<1>6. ASSUME NEW q \in Runs, Damage(q) \/ MarkerUnreadable(q) PROVE damage' > damage
  BY <1>t, <1>6 DEF Damage, MarkerUnreadable
<1>7. Reconciliation => result'[r] = result[r]
  BY <1>t DEF Reconciliation, Start, ClassifyRun, ApplyWrite, Listen, store
<1>8. Crash \/ LeaseExpires => result'[r] = result[r]
  BY DEF Crash, LeaseExpires, store
<1>9. QED
  BY <1>1, <1>2, <1>3, <1>4, <1>5, <1>6, <1>7, <1>8 DEF Next, RunStep

-----------------------------------------------------------------------------
\* The invariant is inductive: it holds through every write, crash and restart.
THEOREM RunInvariantHolds == Spec => []RunInvariant
BY InitEstablishes, NextPreserves, PTL DEF Spec

\* However long a turn outlives its lease, the Session has one agent process.
THEOREM OneAgentPerSessionHolds == Spec => []OneAgentPerSession
<1>1. RunInvariant => OneAgentPerSession
  <2> SUFFICES ASSUME RunInvariant, NEW q \in Runs, NEW r \in Runs, ctx[q].child, ctx[r].child
               PROVE  q = r
    BY DEF OneAgentPerSession
  <2>1. ctx[q].step # "idle" /\ ctx[r].step # "idle"
    BY DEF RunInvariant, OneTask, Task, Idle
  <2>2. QED
    BY <2>1 DEF RunInvariant, OneTask
<1>2. QED
  BY <1>1, RunInvariantHolds, PTL

\* A listening daemon has blocked the Session of every uncertain prompt whose
\* task is gone, after any crashes, until a quarantine write fails or somebody
\* damages the store.
THEOREM UncertainIsBlockedHolds == Spec => []UncertainIsBlocked
<1>1. RunInvariant => UncertainIsBlocked
  <2>1. RunInvariant => made \subseteq Runs
    BY DEF RunInvariant, TypeOK
  <2>2. QED
    BY <2>1 DEF RunInvariant, EvidenceHolds, Evidence, WillQuarantine, UncertainIsBlocked, At,
                Blocked
<1>2. QED
  BY <1>1, RunInvariantHolds, PTL

\* Until then no Run leases the Session over an uncertain prompt.
THEOREM LeaseNeedsCertaintyHolds == Spec => LeaseNeedsCertainty
<1> DEFINE Certain == \A r \in Runs : damage = 0 /\ "fence" \notin lost
                                       /\ lock.holder # r /\ lock'.holder = r =>
                        \A q \in Runs : ~Uncertain(q)
<1>1. RunInvariant /\ [Next]_vars => [Certain]_vars
  <2> SUFFICES ASSUME RunInvariant, Next, NEW r \in Runs, damage = 0, "fence" \notin lost,
                      lock.holder # r, lock'.holder = r, NEW q \in Runs
               PROVE  ~Uncertain(q)
    OBVIOUS
  <2>1. ctx[r].step \in {"bind", "lease"} /\ ~Blocked
    BY LockChanges, RunsAssumption DEF FreeLock
  <2>2. CASE q = r
    BY <2>1, <2>2 DEF RunInvariant, OneTask, Task, Dispatching, Undispatched, Uncertain
  <2>3. CASE q # r
    <3>1. ctx[q].step = "idle" /\ daemon.phase = "listening"
      BY <2>1, <2>3 DEF RunInvariant, OneTask
    <3>2. QED
      BY <2>1, <3>1 DEF RunInvariant, EvidenceHolds, Evidence, WillQuarantine, Blocked
  <2>4. QED
    BY <2>2, <2>3
<1>2. QED
  BY <1>1, RunInvariantHolds, PTL DEF Spec, LeaseNeedsCertainty

\* Whatever write failed before, a Run gives its lease up only behind a durable
\* terminal and, after an uncertain prompt, a blocked Session; only an emergency
\* cleanup that met a failed quarantine does not.
THEOREM ReleaseIsContainedHolds == Spec => ReleaseIsContained
<1> DEFINE Release == \A r \in Runs :
                        /\ damage = 0 /\ lock.holder = r /\ lock'.holder = NoRun
                        /\ ctx[r].emergency => "fence" \notin lost
                        => Contained(r)
<1>1. RunInvariant /\ [Next]_vars => [Release]_vars
  <2> SUFFICES ASSUME RunInvariant, Next, NEW r \in Runs, damage = 0,
                      lock.holder = r, lock'.holder = NoRun,
                      ctx[r].emergency => "fence" \notin lost
               PROVE  Contained(r)
    OBVIOUS
  <2>1. ctx[r].step = "release"
    BY LockChanges, RunsAssumption DEF FreeLock
  <2>2. Settled(r)
    BY <2>1 DEF RunInvariant, EvidenceHolds, Evidence, Settled
  <2>3. Uncertain(r) => Blocked
    BY <2>1 DEF RunInvariant, OneTask, Task, Dispatching, Concluding, Uncertain, Blocked
  <2>4. QED
    BY <2>2, <2>3 DEF Contained
<1>2. QED
  BY <1>1, RunInvariantHolds, PTL DEF Spec, ReleaseIsContained

\* No step of the daemon replaces a terminal fact, whatever fails.
THEOREM TerminalIsFinalHolds == Spec => TerminalIsFinal
<1>1. RunInvariant /\ [Next]_vars =>
        [\A r \in Runs : result[r] # "absent" => result'[r] = result[r] \/ damage' > damage]_vars
  BY ResultChanges DEF RunInvariant
<1>2. QED
  BY <1>1, RunInvariantHolds, PTL DEF Spec, TerminalIsFinal
-----------------------------------------------------------------------------
(* What the reconciliation leaves behind *)

\* The second layer of the invariant.  Its parts that speak of the store are about
\* an undamaged one.

Unmoved == {"reserved", "admit", "launch", "bind", "spawn", "open", "lease", "config", "plan"}
Proven  == {"config-proven", "config-rollback-proven"}

\* A task c has a status only once it has decided, and completed only with what
\* earns it; an emergency cleanup that quarantines publishes unknown.
Earned(c, a) ==
  /\ c.seen.stop # "none" => a.turn = "answered"
  /\ c.step \notin Concluded => c.verdict.status = "none" /\ ~c.emergency
  /\ c.verdict.status = "completed" =>
       c.seen.stop # "none" /\ ~c.seen.violation /\ ~c.seen.pipeline
  /\ c.emergency /\ c.step \in {"fence", "mark", "clear"} /\ c.verdict.after = "result" =>
       c.verdict.status = "unknown"

\* The markers m tell of a configuration that a set has moved and nothing proved,
\* and a task fences only over such a one or over an uncertain prompt.
Switched(c, m, a, l) ==
  /\ c.step \in Unmoved => a.config = "untouched"
  /\ c.step \in {"setting", "rollback"} => a.config = "moved"
  /\ c.step \in {"rolled", "proven"} => a.config = "known"
  /\ c.seen.rollbackUnproven =>
       a.config = "moved" /\ c.step \notin Undispatched \cup {"prompt", "turn"}
  /\ c.step = "fence" => c.seen.dispatched \/ c.seen.rollbackUnproven
  /\ a.config # "known" => m \cap Proven = {}
  /\ "configMarker" \notin l
       /\ (c.step \in {"plan", "setting", "rollback"} \/ a.config = "moved") =>
         "config-switch-started" \in m

\* A Run that moved the configuration is one the store can tie to the Session.
Tied(r) ==
  /\ agent[r].config = "moved" => session.record /\ docs[r]["submission"] = "valid"
  /\ r \notin made => agent[r].config = "untouched"

Has(w, x) == \E j \in 1..Len(w) : w[j] = x

\* A list of writes ends with its terminal, and clears the fence it writes.
Ordered(w) ==
  \A i \in 1..Len(w) :
    /\ w[i] \in {"unknown", "failed", "refuse"} => i = Len(w)
    /\ w[i] \in {"fence", "mark"} => \E j \in (i + 1)..Len(w) : w[j] = "clear"

Quarantining == session.quarantined \/ Has(daemon.left, "mark")

\* What a Run has that the reconciliation is done with, and what is left to do.
Done(r) ==
  result[r] \in Statuses /\ (result[r] = "unknown" => Actionable(r) /\ session.quarantined)

Doing(r) ==
  \/ Has(daemon.left, "refuse")
  \/ Has(daemon.left, "failed") /\ result[r] = "absent"
  \/ /\ Actionable(r) /\ Quarantining
     /\ \/ Has(daemon.left, "unknown") /\ result[r] = "absent"
        \/ Has(daemon.left, "clear") /\ result[r] = "unknown"

Progress ==
  daemon.phase = "reconciling" =>
    \A r \in made \ daemon.todo : Done(r) \/ (daemon.run = r /\ Doing(r))

\* The directory of r has what makes the reconciliation quarantine.
Condemned(r) ==
  /\ Actionable(r)
  /\ \/ result[r] = "unknown"
     \/ result[r] = "absent" /\ (DispatchPresent(r) \/ SwitchUnproven(r))

\* So has it had when its Run put the fence up, and nobody takes it away before
\* the fence is cleared.
Blamed(r) ==
  /\ r \in made /\ Condemned(r)
  /\ \/ ctx[r].step \in {"idle", "mark", "clear"}
     \/ ctx[r].step \in {"result", "release"} /\ ctx[r].verdict.status = "unknown"
  /\ daemon.phase = "reconciling" =>
       \/ r \in daemon.todo
       \/ daemon.run = r /\ (Has(daemon.left, "clear") \/ Has(daemon.left, "refuse"))

FenceIsBlamed ==
  "configMarker" \notin lost =>
    /\ session.fence => \E r \in Runs : Blamed(r)
    /\ Has(daemon.left, "clear") => Blamed(daemon.run)

InOrder == Ordered(daemon.left) /\ (daemon.left # <<>> => daemon.run \notin daemon.todo)

Convergence ==
  /\ RunInvariant
  /\ \A r \in Runs : Earned(ctx[r], agent[r])
  /\ InOrder
  /\ damage = 0 => /\ \A r \in Runs : Switched(ctx[r], markers[r], agent[r], lost) /\ Tied(r)
                   /\ Progress /\ FenceIsBlamed

\* finalize_run_state reports completed only for an undisturbed end of the turn.
LEMMA CompletedStatus ==
  ASSUME NEW o \in Observations, RunStatus(o) = "completed"
  PROVE  o.stop # "none" /\ ~o.violation /\ ~o.pipeline
BY DEF RunStatus, PostDispatchStatus, StatusForStopReason, Observations, StopReasons

\* Nothing is listed in an empty list.
LEMMA NoWrites == Ordered(<<>>) /\ \A x : ~Has(<<>>, x)
<1>1. Len(<<>>) = 0
  OBVIOUS
<1>2. QED
  BY <1>1 DEF Ordered, Has

\* What a step of Run r leaves alone.
Apart(r) ==
  /\ UNCHANGED <<daemon, damage>> /\ made \subseteq made' /\ Grows(session, session')
  /\ lost \subseteq lost'
  /\ \A q \in Runs \ {r} : /\ docs'[q] = docs[q] /\ markers'[q] = markers[q]
                           /\ result'[q] = result[q] /\ agent'[q] = agent[q]
                           /\ ctx'[q] = ctx[q] /\ (q \in made' => q \in made)

LEMMA StepsApart ==
  ASSUME TypeOK, NEW r \in Runs, Reserve(r) \/ RunStep(r)
  PROVE  Apart(r)
<1> USE DEF Apart, Grows, At, Go, End, env, world, store, GivesUp
<1>t. /\ ctx \in [Runs -> Context] /\ agent \in [Runs -> AgentType] /\ session \in SessionType
      /\ docs \in [Runs -> [DocNames -> DocKinds]] /\ markers \in [Runs -> SUBSET Markers]
      /\ result \in [Runs -> {"absent", "corrupt"} \cup Statuses]
  BY DEF TypeOK, AgentType, SessionType
<1>1. CASE Reserve(r) \/ Submission(r)
  BY <1>1, <1>t DEF Reserve, Submission, Accept, SubmissionLost, RegistrationFails
<1>2. CASE Startup(r)
  BY <1>2, <1>t DEF Startup, WriteSpec, WriteLaunch, BindCreate, BindReuse, Spawn, CreateRecord,
                    LeaseCreated, LoadSession, PreDispatchFails, SessionType
<1>3. CASE Switch(r)
  <2>1. CASE AnnounceSwitch(r) \/ RollbackMarked(r) \/ SwitchMarked(r)
    BY <2>1, <1>t DEF AnnounceSwitch, RollbackMarked, SwitchMarked, ConfigMarker
  <2>2. CASE SendSet(r) \/ SetProven(r) \/ SetFails(r) \/ RollbackFails(r) \/ SwitchInterrupted(r)
    BY <2>2, <1>t DEF SendSet, SetProven, SetFails, RollbackFails, SwitchInterrupted
  <2>3. CASE RollbackProven(r) \/ CommitEffective(r)
    BY <2>3, <1>t DEF RollbackProven, CommitEffective, SessionType
  <2>4. QED
    BY <1>3, <2>1, <2>2, <2>3 DEF Switch
<1>4. CASE Turn(r)
  <2>1. CASE MarkDispatch(r) \/ MarkDispatchFails(r) \/ PromptAccepted(r)
    BY <2>1, <1>t DEF MarkDispatch, MarkDispatchFails, PromptAccepted
  <2>2. CASE PromptEvidenceFails(r) \/ SendPrompt(r) \/ TurnTimesOut(r)
    BY <2>2, <1>t DEF PromptEvidenceFails, SendPrompt, TurnTimesOut
  <2>3. CASE TurnEnds(r)
    BY <2>3, <1>t DEF TurnEnds
  <2>4. CASE TurnLost(r)
    BY <2>4, <1>t DEF TurnLost
  <2>5. CASE TurnInterrupted(r)
    BY <2>5, <1>t DEF TurnInterrupted
  <2>6. QED
    BY <1>4, <2>1, <2>2, <2>3, <2>4, <2>5 DEF Turn
<1>5. CASE Finalization(r)
  <2>1. CASE FinalizationFails(r) \/ ReleaseLease(r)
    BY <2>1, <1>t DEF FinalizationFails, ReleaseLease
  <2>2. CASE Conclude(r)
    BY <2>2, <1>t DEF Conclude
  <2>3. CASE EmergencyCleanup(r)
    BY <2>3, <1>t DEF EmergencyCleanup
  <2>4. CASE WriteFence(r) \/ MarkQuarantined(r) \/ ClearFence(r) \/ QuarantineFails(r)
    BY <2>4, <1>t DEF WriteFence, MarkQuarantined, ClearFence, QuarantineFails, Resume, SessionType
  <2>5. CASE PublishResult(r) \/ PublishFails(r)
    BY <2>5, <1>t DEF PublishResult, PublishFails
  <2>6. QED
    BY <1>5, <2>1, <2>2, <2>3, <2>4, <2>5 DEF Finalization
<1>6. QED
  BY <1>1, <1>2, <1>3, <1>4, <1>5 DEF RunStep

\* A step of one Run preserves the second layer if it does so for that Run.
LEMMA RunStepConverges ==
  ASSUME Convergence, RunInvariant', NEW r \in Runs, Apart(r), daemon.phase = "listening",
         Earned(ctx'[r], agent'[r]),
         damage = 0 => Switched(ctx'[r], markers'[r], agent'[r], lost') /\ Tied(r)',
         damage = 0 /\ "configMarker" \notin lost' /\ session'.fence =>
           Blamed(r)' \/ (session.fence /\ ~Blamed(r))
  PROVE  Convergence'
<1>1. daemon'.left = <<>> /\ daemon.left = <<>> /\ daemon'.phase = "listening"
  BY DEF Convergence, RunInvariant, OneTask, Apart
<1>2. InOrder'
  BY <1>1, NoWrites DEF InOrder
<1>3. \A q \in Runs : Earned(ctx'[q], agent'[q])
  BY DEF Convergence, Apart
<1>4. Progress'
  BY <1>1, NoWrites DEF Progress
<1>5. damage = 0 => \A q \in Runs : Switched(ctx'[q], markers'[q], agent'[q], lost') /\ Tied(q)'
  <2> SUFFICES ASSUME damage = 0, NEW q \in Runs \ {r}
               PROVE  Switched(ctx'[q], markers'[q], agent'[q], lost') /\ Tied(q)'
    OBVIOUS
  <2>1. Switched(ctx[q], markers[q], agent[q], lost) /\ Tied(q)
    BY DEF Convergence
  <2>2. QED
    BY <2>1 DEF Apart, Tied, Grows, Switched
<1>6. damage = 0 => FenceIsBlamed'
  <2> SUFFICES ASSUME damage = 0, "configMarker" \notin lost', session'.fence
               PROVE  \E q \in Runs : Blamed(q)'
    BY <1>1, NoWrites DEF FenceIsBlamed
  <2>1. CASE Blamed(r)'
    BY <2>1
  <2>2. CASE session.fence /\ ~Blamed(r)
    <3>1. PICK q \in Runs \ {r} : Blamed(q)
      BY <2>2 DEF Convergence, FenceIsBlamed, Apart
    <3>2. Condemned(q)'
      BY <3>1 DEF Blamed, Condemned, Actionable, DispatchPresent, SwitchUnproven, Apart, Grows
    <3>3. Blamed(q)'
      BY <1>1, <3>1, <3>2 DEF Blamed, Apart
    <3>4. QED
      BY <3>3
  <2>3. QED
    BY <2>1, <2>2
<1>7. QED
  BY <1>2, <1>3, <1>4, <1>5, <1>6 DEF Convergence, Apart

\* What the second layer says about the task that is at work.
LEMMA AtWork ==
  ASSUME Convergence, NEW r \in Runs
  PROVE  /\ ctx \in [Runs -> Context] /\ ctx[r] \in Context /\ ctx[r].seen \in Observations
         /\ ctx[r].verdict \in Verdict
         /\ agent \in [Runs -> AgentType] /\ agent[r] \in AgentType
         /\ markers \in [Runs -> SUBSET Markers] /\ markers[r] \subseteq Markers
         /\ docs \in [Runs -> [DocNames -> DocKinds]]
         /\ result \in [Runs -> {"absent", "corrupt"} \cup Statuses]
         /\ session \in SessionType
         /\ Task(ctx[r], session, markers[r], agent[r], intent[r], lost)
         /\ Earned(ctx[r], agent[r])
         /\ damage = 0 => Switched(ctx[r], markers[r], agent[r], lost) /\ Tied(r) /\ Evidence(r)
         /\ ctx[r].step # "idle" => daemon.phase = "listening" /\ r \in made
BY DEF Convergence, RunInvariant, TypeOK, OneTask, EvidenceHolds, Context, AgentType, SessionType

\* A task that goes on, or ends, without deciding anything.
LEMMA EarnedOnTheWay ==
  ASSUME Convergence, NEW r \in Runs,
         Reserve(r) \/ Submission(r) \/ Startup(r) \/ Switch(r)
  PROVE  Earned(ctx'[r], agent'[r])
<1> USE DEF At, Go, End, Concluded
<1>t. /\ ctx \in [Runs -> Context] /\ agent \in [Runs -> AgentType] /\ ctx[r] \in Context
      /\ agent[r] \in AgentType /\ Earned(ctx[r], agent[r]) /\ ctx[r].seen \in Observations
  BY AtWork
<1>i. Earned(Idle, agent[r])
  BY DEF Earned, Idle, NothingSeen
<1>1. CASE Reserve(r) \/ Submission(r)
  BY <1>1, <1>t, <1>i DEF Reserve, SessionFree, Submission, Accept, SubmissionLost,
                          RegistrationFails, Earned, Context
<1>2. CASE Startup(r)
  BY <1>2, <1>t DEF Startup, WriteSpec, WriteLaunch, BindCreate, BindReuse, Spawn, CreateRecord,
                    LeaseCreated, LoadSession, PreDispatchFails, Earned, Context
<1>3. CASE AnnounceSwitch(r) \/ RollbackMarked(r) \/ SwitchMarked(r) \/ SwitchInterrupted(r)
           \/ CommitEffective(r)
  BY <1>3, <1>t DEF AnnounceSwitch, RollbackMarked, SwitchMarked, SwitchInterrupted,
                    CommitEffective, Earned, Context
<1>4. CASE SendSet(r) \/ SetProven(r) \/ RollbackProven(r)
  <2>1. /\ ctx[r].step \in {"plan", "setting", "rollback"}
        /\ ctx' = [ctx EXCEPT ![r].step = ctx'[r].step]
        /\ ctx'[r].step \in {"setting", "proven", "rolled"}
    BY <1>4, <1>t DEF SendSet, SetProven, RollbackProven, Context
  <2>2. agent'[r].turn = agent[r].turn
    BY <1>4, <1>t DEF SendSet, SetProven, RollbackProven, AgentType
  <2>3. /\ ctx'[r].seen = ctx[r].seen /\ ctx'[r].verdict = ctx[r].verdict
        /\ ctx'[r].emergency = ctx[r].emergency
    BY <1>t, <2>1 DEF Context
  <2>4. QED
    BY <1>t, <2>1, <2>2, <2>3 DEF Earned
<1>5. CASE SetFails(r)
  BY <1>5, <1>t DEF SetFails, Earned, Context, Observations
<1>6. CASE RollbackFails(r)
  BY <1>6, <1>t DEF RollbackFails, Earned, Context, Observations
<1>7. QED
  BY <1>1, <1>2, <1>3, <1>4, <1>5, <1>6 DEF Switch

LEMMA EarnedInTheTurn ==
  ASSUME Convergence, NEW r \in Runs, Turn(r)
  PROVE  Earned(ctx'[r], agent'[r])
<1> USE DEF At, Go, End, Concluded
<1>t. /\ ctx \in [Runs -> Context] /\ agent \in [Runs -> AgentType] /\ ctx[r] \in Context
      /\ agent[r] \in AgentType /\ Earned(ctx[r], agent[r]) /\ ctx[r].seen \in Observations
      /\ Dispatching(ctx[r], markers[r], agent[r])
  BY AtWork DEF Task
<1>1. CASE MarkDispatch(r)
  BY <1>1, <1>t DEF MarkDispatch, Earned, Context, Observations
<1>2. CASE MarkDispatchFails(r) \/ PromptAccepted(r)
  BY <1>2, <1>t DEF MarkDispatchFails, PromptAccepted, Earned, Context
<1>3. CASE PromptEvidenceFails(r)
  BY <1>3, <1>t DEF PromptEvidenceFails, Earned, Context, Observations
<1>4. CASE SendPrompt(r)
  BY <1>4, <1>t DEF SendPrompt, Dispatching, Earned, Context, AgentType
<1>5. CASE TurnEnds(r)
  <2>1. PICK stop \in StopReasons \ {"none"}, violated \in BOOLEAN :
          ctx' = [ctx EXCEPT ![r].step = "finalize", ![r].seen.stop = stop,
                             ![r].seen.violation = violated]
    BY <1>5, Zenon DEF TurnEnds
  <2>2. /\ agent'[r].turn = "answered" /\ ctx[r].step = "turn"
    BY <1>5, <1>t DEF TurnEnds, AgentType
  <2>3. /\ ctx'[r].step = "finalize" /\ ctx'[r].verdict = ctx[r].verdict
        /\ ctx'[r].emergency = ctx[r].emergency
    BY <1>t, <2>1 DEF Context
  <2>4. QED
    BY <1>t, <2>2, <2>3 DEF Earned
<1>6. CASE TurnTimesOut(r)
  BY <1>6, <1>t DEF TurnTimesOut, Earned, Context, Observations
<1>7. CASE TurnLost(r)
  <2>1. PICK exited \in BOOLEAN :
          ctx' = [ctx EXCEPT ![r].step = "finalize", ![r].child = ~exited,
                             ![r].seen.childExit = exited, ![r].seen.interrupted = ~exited]
    BY <1>7, Zenon DEF TurnLost
  <2>2. /\ ctx'[r].step = "finalize" /\ ctx'[r].verdict = ctx[r].verdict
        /\ ctx'[r].seen.stop = ctx[r].seen.stop /\ ctx'[r].emergency = ctx[r].emergency
    BY <1>t, <2>1 DEF Context, Observations
  <2>3. ctx[r].step \notin Concluded /\ agent' = agent
    BY <1>7, Zenon DEF TurnLost
  <2>4. QED
    BY <1>t, <2>2, <2>3 DEF Earned
<1>8. CASE TurnInterrupted(r)
  <2>1. PICK cancelled \in BOOLEAN :
          ctx' = [ctx EXCEPT ![r].step = "finalize", ![r].seen.cancelled = cancelled,
                             ![r].seen.killed = cancelled, ![r].seen.interrupted = ~cancelled]
    BY <1>8, Zenon DEF TurnInterrupted
  <2>2. /\ ctx'[r].step = "finalize" /\ ctx'[r].verdict = ctx[r].verdict
        /\ ctx'[r].seen.stop = ctx[r].seen.stop /\ ctx'[r].emergency = ctx[r].emergency
    BY <1>t, <2>1 DEF Context, Observations
  <2>3. ctx[r].step \notin Concluded /\ agent' = agent
    BY <1>8, Zenon DEF TurnInterrupted
  <2>4. QED
    BY <1>t, <2>2, <2>3 DEF Earned
<1>9. QED
  BY <1>1, <1>2, <1>3, <1>4, <1>5, <1>6, <1>7, <1>8 DEF Turn

LEMMA EarnedAtTheEnd ==
  ASSUME Convergence, NEW r \in Runs, Finalization(r)
  PROVE  Earned(ctx'[r], agent'[r])
<1> USE DEF At, Go, End, Concluded
<1>t. /\ ctx \in [Runs -> Context] /\ ctx[r] \in Context
      /\ Earned(ctx[r], agent[r]) /\ ctx[r].seen \in Observations
      /\ ctx[r].verdict \in Verdict /\ Concluding(ctx[r], session, lost)
  BY AtWork DEF Task
<1>i. Earned(Idle, agent[r])
  BY DEF Earned, Idle, NothingSeen
<1>a. agent' = agent
  <2>1. Conclude(r) => agent' = agent
    BY DEF Conclude
  <2>2. EmergencyCleanup(r) => agent' = agent
    BY DEF EmergencyCleanup
  <2>3. QED
    BY <2>1, <2>2 DEF Finalization, FinalizationFails, WriteFence, MarkQuarantined, ClearFence,
                      QuarantineFails, PublishResult, PublishFails, ReleaseLease
<1>1. CASE Conclude(r)
  <2>1. PICK dropped \in BOOLEAN :
          LET seen == [ctx[r].seen EXCEPT !.pipeline = @ \/ dropped] IN
          ctx' = [ctx EXCEPT
                    ![r].child = FALSE, ![r].seen = seen,
                    ![r].verdict = [status |-> RunStatus(seen), after |-> "result"],
                    ![r].step = IF Quarantines(seen) THEN "fence" ELSE "result"]
    BY <1>1, Zenon DEF Conclude
  <2> DEFINE seen == [ctx[r].seen EXCEPT !.pipeline = @ \/ dropped]
  <2>2. seen \in Observations /\ seen.stop = ctx[r].seen.stop
    BY <1>t DEF Observations
  <2>3. RunStatus(seen) = "completed" => seen.stop # "none" /\ ~seen.violation /\ ~seen.pipeline
    BY <2>2, CompletedStatus
  <2>4. ctx[r].step = "finalize" /\ ~ctx[r].emergency
    <3>1. ctx[r].step = "finalize"
      BY <1>1 DEF Conclude
    <3>2. QED
      BY <1>t, <3>1 DEF Earned
  <2> HIDE DEF seen
  <2>5. /\ ctx'[r].seen = seen /\ ctx'[r].verdict = [status |-> RunStatus(seen), after |-> "result"]
        /\ ctx'[r].step \in {"fence", "result"} /\ ctx'[r].emergency = ctx[r].emergency
    BY <1>t, <2>1 DEF Context, seen
  <2>6. QED
    BY <1>t, <1>a, <2>2, <2>3, <2>4, <2>5 DEF Earned
<1>2. CASE FinalizationFails(r)
  BY <1>2, <1>t, <1>a DEF FinalizationFails, Earned, Context
<1>3. CASE EmergencyCleanup(r)
  <2> DEFINE uncertain == ctx[r].seen.dispatched /\ ctx[r].seen.stop = "none"
             status == IF uncertain THEN "unknown" ELSE "failed"
  <2>1. ctx'[r] = IF result[r] = "corrupt"
                  THEN IF CanQuarantine(r)
                       THEN [ctx[r] EXCEPT !.child = FALSE, !.emergency = TRUE, !.step = "fence",
                                           !.verdict.after = "end"]
                       ELSE Idle
                  ELSE [ctx[r] EXCEPT !.child = FALSE, !.emergency = TRUE, !.verdict.status = status,
                                      !.step = IF uncertain /\ CanQuarantine(r)
                                               THEN "fence" ELSE "result"]
    BY <1>3, <1>t DEF EmergencyCleanup
  <2>2. ctx[r].step = "emergency" /\ ctx[r].verdict.status = "none"
    <3>1. ctx[r].step = "emergency"
      BY <1>3 DEF EmergencyCleanup
    <3>2. QED
      BY <1>t, <3>1 DEF Earned
  <2>3. CASE ctx'[r] = Idle
    BY <1>a, <1>i, <2>3
  <2>4. CASE /\ result[r] = "corrupt"
             /\ ctx'[r] = [ctx[r] EXCEPT !.child = FALSE, !.emergency = TRUE, !.step = "fence",
                                         !.verdict.after = "end"]
    BY <1>t, <1>a, <2>2, <2>4 DEF Earned, Context, Verdict
  <2>5. CASE ctx'[r] = [ctx[r] EXCEPT !.child = FALSE, !.emergency = TRUE, !.verdict.status = status,
                                      !.step = IF uncertain /\ CanQuarantine(r)
                                               THEN "fence" ELSE "result"]
    <3>1. /\ ctx'[r].seen = ctx[r].seen /\ ctx'[r].verdict.status = status
          /\ ctx'[r].step = IF uncertain /\ CanQuarantine(r) THEN "fence" ELSE "result"
      BY <1>t, <2>5 DEF Context, Verdict
    <3>2. QED
      BY <1>t, <1>a, <3>1 DEF Earned
  <2>6. QED
    BY <2>1, <2>3, <2>4, <2>5
<1>4. CASE WriteFence(r) \/ MarkQuarantined(r)
  BY <1>4, <1>t, <1>a DEF WriteFence, MarkQuarantined, Earned, Context
<1>5. CASE ClearFence(r) \/ QuarantineFails(r)
  BY <1>5, <1>t, <1>a, <1>i DEF ClearFence, QuarantineFails, Resume, Earned, Context
<1>6. CASE PublishResult(r)
  BY <1>6, <1>t, <1>a, <1>i DEF PublishResult, Earned, Context, Verdict
<1>7. CASE PublishFails(r) \/ ReleaseLease(r)
  BY <1>7, <1>t, <1>a, <1>i DEF PublishFails, ReleaseLease
<1>8. QED
  BY <1>1, <1>2, <1>3, <1>4, <1>5, <1>6, <1>7 DEF Finalization

\* The markers keep telling the truth about the configuration: before the turn.
LEMMA SwitchedOnTheWay ==
  ASSUME Convergence, damage = 0, NEW r \in Runs,
         Reserve(r) \/ Submission(r) \/ Startup(r) \/ Switch(r)
  PROVE  Switched(ctx'[r], markers'[r], agent'[r], lost')
<1> USE DEF At, Go, End, Unmoved, Undispatched, env
<1>t. /\ ctx \in [Runs -> Context] /\ ctx[r] \in Context /\ ctx[r].seen \in Observations
      /\ agent \in [Runs -> AgentType] /\ agent[r] \in AgentType
      /\ markers \in [Runs -> SUBSET Markers]
      /\ Switched(ctx[r], markers[r], agent[r], lost) /\ Tied(r)
  BY AtWork
<1>i. ASSUME ctx[r].step # "idle" PROVE Switched(Idle, markers[r], agent[r], lost)
  BY <1>t DEF Switched, Idle, NothingSeen
<1>1. CASE Reserve(r)
  BY <1>1, <1>t DEF Reserve, SessionFree, Switched, Tied, Context, store
<1>2. CASE Submission(r)
  <2>1. markers' = markers /\ agent' = agent /\ ctx[r].step = "reserved"
    BY <1>2 DEF Submission, Accept, SubmissionLost, RegistrationFails, store
  <2>2. CASE Accept(r)
    BY <2>1, <2>2, <1>t DEF Accept, Switched, Context
  <2>3. CASE SubmissionLost(r) \/ RegistrationFails(r)
    <3>1. ctx'[r] = Idle /\ Switched(Idle, markers'[r], agent'[r], lost)
      BY <2>1, <2>3, <1>t, <1>i DEF SubmissionLost, RegistrationFails
    <3>2. lost \subseteq lost'
      BY <2>3 DEF SubmissionLost, RegistrationFails, GivesUp
    <3>3. QED
      BY <3>1, <3>2 DEF Switched
  <2>4. QED
    BY <1>2, <2>2, <2>3 DEF Submission
<1>3. CASE Startup(r)
  BY <1>3, <1>t DEF Startup, WriteSpec, WriteLaunch, BindCreate, BindReuse, Spawn, CreateRecord,
                    LeaseCreated, LoadSession, PreDispatchFails, Switched, Context, store
<1>4. CASE AnnounceSwitch(r)
  <2>1. /\ ctx[r].step = "config" /\ ctx'[r] = [ctx[r] EXCEPT !.step = "plan"] /\ agent' = agent
        /\ \/ markers'[r] = markers[r] \cup {"config-switch-started"}
           \/ "configMarker" \in lost' /\ markers'[r] = markers[r]
    BY <1>4, <1>t DEF AnnounceSwitch, ConfigMarker, GivesUp
  <2>2. "config-switch-started" \notin Proven
    BY DEF Proven
  <2>3. markers'[r] \cap Proven = {}
    BY <1>t, <2>1, <2>2 DEF Switched
  <2>4. ctx'[r].step = "plan" /\ ctx'[r].seen = ctx[r].seen
    BY <1>t, <2>1 DEF Context
  <2>5. QED
    BY <1>t, <2>1, <2>3, <2>4 DEF Switched
<1>5. CASE SendSet(r)
  BY <1>5, <1>t DEF SendSet, Switched, Context, AgentType, store
<1>6. CASE SetProven(r)
  BY <1>6, <1>t DEF SetProven, Switched, Context, AgentType, store
<1>7. CASE SetFails(r)
  BY <1>7, <1>t DEF SetFails, Switched, Context, Observations, store
<1>8. CASE RollbackProven(r)
  BY <1>8, <1>t DEF RollbackProven, Switched, Context, AgentType, store
<1>9. CASE RollbackMarked(r) \/ SwitchMarked(r)
  <2>1. ctx[r].step \in {"rolled", "proven"} /\ agent' = agent
    BY <1>9 DEF RollbackMarked, SwitchMarked
  <2>2. agent[r].config = "known" /\ ~ctx[r].seen.rollbackUnproven
    BY <1>t, <2>1 DEF Switched
  <2>3. ctx'[r].step \in {"finalize", "commit"} /\ ctx'[r].seen = ctx[r].seen
    BY <1>9, <1>t DEF RollbackMarked, SwitchMarked, Context
  <2>4. QED
    BY <2>1, <2>2, <2>3 DEF Switched
<1>10. CASE RollbackFails(r)
  BY <1>10, <1>t DEF RollbackFails, Switched, Context, Observations, store
<1>11. CASE SwitchInterrupted(r) \/ CommitEffective(r)
  BY <1>11, <1>t DEF SwitchInterrupted, CommitEffective, Switched, Context, store
<1>12. QED
  BY <1>1, <1>2, <1>3, <1>4, <1>5, <1>6, <1>7, <1>8, <1>9, <1>10, <1>11 DEF Switch

\* A step that changes neither the markers of the switch nor the configuration,
\* from a place after the switch to another.
LEMMA SwitchIsBehind ==
  ASSUME NEW c, NEW d, NEW m, NEW n, NEW a, NEW b, NEW l,
         Switched(c, m, a, l),
         b.config = a.config, n \ m \subseteq {"prompt-dispatch-started", "prompt-accepted"},
         m \subseteq n, d.seen.rollbackUnproven = c.seen.rollbackUnproven,
         c.step \notin Unmoved \cup {"setting", "rollback", "rolled", "proven"},
         d.step \in {"prompt", "turn"} => c.step \in Undispatched \cup {"prompt", "turn"},
         d.step \notin Undispatched,
         d.step = "fence" => d.seen.dispatched \/ d.seen.rollbackUnproven
  PROVE  Switched(d, n, b, l)
<1>1. \A x \in Proven : x \notin {"prompt-dispatch-started", "prompt-accepted"}
  BY DEF Proven
<1>2. m \cap Proven = {} => n \cap Proven = {}
  BY <1>1
<1>3. d.step \notin Unmoved \cup {"setting", "rollback", "rolled", "proven", "plan"}
  BY DEF Undispatched, Unmoved
<1>4. QED
  BY <1>2, <1>3 DEF Switched

LEMMA SwitchedInTheTurn ==
  ASSUME Convergence, damage = 0, NEW r \in Runs, Turn(r)
  PROVE  Switched(ctx'[r], markers'[r], agent'[r], lost)
<1> USE DEF At, Go, store
<1>t. /\ ctx \in [Runs -> Context] /\ ctx[r] \in Context /\ ctx[r].seen \in Observations
      /\ agent \in [Runs -> AgentType] /\ agent[r] \in AgentType
      /\ markers \in [Runs -> SUBSET Markers]
      /\ Switched(ctx[r], markers[r], agent[r], lost)
  BY AtWork
<1>1. /\ ctx[r].step \in {"dispatch", "prompt", "turn"}
      /\ ctx'[r].step \in {"prompt", "turn", "finalize"}
      /\ ctx'[r].seen.rollbackUnproven = ctx[r].seen.rollbackUnproven
      /\ agent'[r].config = agent[r].config
      /\ markers[r] \subseteq markers'[r]
      /\ markers'[r] \ markers[r] \subseteq {"prompt-dispatch-started", "prompt-accepted"}
  <2>1. CASE MarkDispatch(r)
    BY <1>t, <2>1 DEF MarkDispatch, Context, Observations
  <2>2. CASE MarkDispatchFails(r) \/ PromptAccepted(r)
    BY <1>t, <2>2 DEF MarkDispatchFails, PromptAccepted, Context
  <2>3. CASE PromptEvidenceFails(r) \/ TurnTimesOut(r)
    BY <1>t, <2>3 DEF PromptEvidenceFails, TurnTimesOut, Context, Observations
  <2>4. CASE SendPrompt(r)
    BY <1>t, <2>4 DEF SendPrompt, Context, AgentType
  <2>5. CASE TurnEnds(r)
    <3>1. PICK stop \in StopReasons \ {"none"}, violated \in BOOLEAN :
            ctx' = [ctx EXCEPT ![r].step = "finalize", ![r].seen.stop = stop,
                               ![r].seen.violation = violated]
      BY <2>5, Zenon DEF TurnEnds
    <3>2. /\ ctx'[r].step = "finalize"
          /\ ctx'[r].seen.rollbackUnproven = ctx[r].seen.rollbackUnproven
      BY <1>t, <3>1 DEF Context, Observations
    <3>3. /\ ctx[r].step = "turn" /\ markers' = markers
          /\ agent' = [agent EXCEPT ![r].turn = "answered"]
      BY <2>5, Zenon DEF TurnEnds
    <3>4. agent'[r].config = agent[r].config
      BY <1>t, <3>3 DEF AgentType
    <3>5. QED
      BY <3>2, <3>3, <3>4
  <2>6. CASE TurnLost(r)
    <3>1. PICK exited \in BOOLEAN :
            ctx' = [ctx EXCEPT ![r].step = "finalize", ![r].child = ~exited,
                               ![r].seen.childExit = exited, ![r].seen.interrupted = ~exited]
      BY <2>6, Zenon DEF TurnLost
    <3>2. /\ ctx'[r].step = "finalize"
          /\ ctx'[r].seen.rollbackUnproven = ctx[r].seen.rollbackUnproven
      BY <1>t, <3>1 DEF Context, Observations
    <3>3. ctx[r].step \in {"prompt", "turn"} /\ markers' = markers /\ agent' = agent
      BY <2>6, Zenon DEF TurnLost
    <3>4. QED
      BY <3>2, <3>3
  <2>7. CASE TurnInterrupted(r)
    <3>1. PICK cancelled \in BOOLEAN :
            ctx' = [ctx EXCEPT ![r].step = "finalize", ![r].seen.cancelled = cancelled,
                               ![r].seen.killed = cancelled, ![r].seen.interrupted = ~cancelled]
      BY <2>7, Zenon DEF TurnInterrupted
    <3>2. /\ ctx'[r].step = "finalize"
          /\ ctx'[r].seen.rollbackUnproven = ctx[r].seen.rollbackUnproven
      BY <1>t, <3>1 DEF Context, Observations
    <3>3. ctx[r].step \in {"prompt", "turn"} /\ markers' = markers /\ agent' = agent
      BY <2>7, Zenon DEF TurnInterrupted
    <3>4. QED
      BY <3>2, <3>3
  <2>8. QED
    BY <2>1, <2>2, <2>3, <2>4, <2>5, <2>6, <2>7 DEF Turn
<1>2. QED
  BY <1>t, <1>1, SwitchIsBehind DEF Unmoved, Undispatched

LEMMA SwitchedAtTheEnd ==
  ASSUME Convergence, damage = 0, NEW r \in Runs, Finalization(r)
  PROVE  Switched(ctx'[r], markers'[r], agent'[r], lost)
<1> USE DEF At, Go, End, store
<1>t. /\ ctx \in [Runs -> Context] /\ ctx[r] \in Context /\ ctx[r].seen \in Observations
      /\ ctx[r].verdict \in Verdict
      /\ Switched(ctx[r], markers[r], agent[r], lost) /\ Evidence(r)
  BY AtWork
<1>i. ctx[r].step # "idle" => Switched(Idle, markers[r], agent[r], lost)
  BY <1>t DEF Switched, Idle, NothingSeen, Unmoved
<1>a. markers' = markers /\ agent' = agent
  <2>1. Conclude(r) => markers' = markers /\ agent' = agent
    BY DEF Conclude
  <2>2. EmergencyCleanup(r) => markers' = markers /\ agent' = agent
    BY DEF EmergencyCleanup
  <2>3. QED
    BY <2>1, <2>2 DEF Finalization, FinalizationFails, WriteFence, MarkQuarantined, ClearFence,
                      QuarantineFails, PublishResult, PublishFails, ReleaseLease
<1>b. ASSUME ctx[r].step \in {"finalize", "emergency"} \cup Concluded,
             ctx'[r].step \in {"emergency"} \cup Concluded,
             ctx'[r].seen.rollbackUnproven = ctx[r].seen.rollbackUnproven,
             ctx'[r].step = "fence" => ctx'[r].seen.dispatched \/ ctx'[r].seen.rollbackUnproven
      PROVE  Switched(ctx'[r], markers'[r], agent'[r], lost)
  BY <1>t, <1>a, <1>b, SwitchIsBehind DEF Unmoved, Undispatched, Concluded
<1>1. CASE Conclude(r)
  <2>1. PICK dropped \in BOOLEAN :
          LET seen == [ctx[r].seen EXCEPT !.pipeline = @ \/ dropped] IN
          ctx' = [ctx EXCEPT
                    ![r].child = FALSE, ![r].seen = seen,
                    ![r].verdict = [status |-> RunStatus(seen), after |-> "result"],
                    ![r].step = IF Quarantines(seen) THEN "fence" ELSE "result"]
    BY <1>1, Zenon DEF Conclude
  <2> DEFINE seen == [ctx[r].seen EXCEPT !.pipeline = @ \/ dropped]
  <2>2. /\ seen \in Observations /\ seen.rollbackUnproven = ctx[r].seen.rollbackUnproven
        /\ Quarantines(seen) => seen.dispatched \/ seen.rollbackUnproven
    BY <1>t DEF Observations, Quarantines
  <2>3. ctx[r].step = "finalize"
    BY <1>1 DEF Conclude
  <2> HIDE DEF seen
  <2>4. ctx'[r].seen = seen /\ ctx'[r].step = IF Quarantines(seen) THEN "fence" ELSE "result"
    BY <1>t, <2>1 DEF Context, seen
  <2>5. QED
    BY <1>b, <2>2, <2>3, <2>4 DEF Concluded
<1>2. CASE FinalizationFails(r)
  BY <1>2, <1>t, <1>b DEF FinalizationFails, Context
<1>3. CASE EmergencyCleanup(r)
  <2> DEFINE uncertain == ctx[r].seen.dispatched /\ ctx[r].seen.stop = "none"
             status == IF uncertain THEN "unknown" ELSE "failed"
  <2>1. /\ ctx[r].step = "emergency"
        /\ result[r] # "corrupt" =>
             ctx'[r] = [ctx[r] EXCEPT !.child = FALSE, !.emergency = TRUE, !.verdict.status = status,
                                      !.step = IF uncertain /\ CanQuarantine(r)
                                               THEN "fence" ELSE "result"]
    BY <1>3, <1>t DEF EmergencyCleanup
  <2>2. result[r] # "corrupt"
    BY <1>t DEF Evidence
  <2>3. /\ ctx'[r].seen = ctx[r].seen
        /\ ctx'[r].step = IF uncertain /\ CanQuarantine(r) THEN "fence" ELSE "result"
    BY <1>t, <2>1, <2>2 DEF Context, Verdict
  <2>4. QED
    BY <1>b, <2>1, <2>3 DEF Concluded
<1>4. CASE WriteFence(r) \/ MarkQuarantined(r)
  BY <1>4, <1>t, <1>b DEF WriteFence, MarkQuarantined, Context, Concluded
<1>5. CASE ClearFence(r) \/ QuarantineFails(r)
  BY <1>5, <1>t, <1>a, <1>b, <1>i DEF ClearFence, QuarantineFails, Resume, Context, Concluded
<1>6. CASE PublishResult(r)
  <2>1. result[r] = "absent" /\ ctx[r].step = "result"
    BY <1>6, <1>t DEF PublishResult, Evidence
  <2>2. QED
    BY <1>6, <1>t, <1>b, <2>1 DEF PublishResult, Context, Concluded
<1>7. CASE PublishFails(r) \/ ReleaseLease(r)
  BY <1>7, <1>t, <1>a, <1>i DEF PublishFails, ReleaseLease
<1>8. QED
  BY <1>1, <1>2, <1>3, <1>4, <1>5, <1>6, <1>7 DEF Finalization

LEMMA TiedSteps ==
  ASSUME Convergence, damage = 0, NEW r \in Runs, Reserve(r) \/ RunStep(r)
  PROVE  Tied(r)'
<1> USE DEF At, Go, End, store, env, world
<1>t. /\ agent \in [Runs -> AgentType] /\ agent[r] \in AgentType
      /\ docs \in [Runs -> [DocNames -> DocKinds]] /\ Tied(r) /\ Evidence(r)
      /\ Task(ctx[r], session, markers[r], agent[r], intent[r], lost)
      /\ ctx[r].step # "idle" => r \in made
  BY AtWork
<1>1. Grows(session, session') /\ r \in made'
  <2>1. Apart(r)
    BY StepsApart DEF Convergence, RunInvariant
  <2>2. r \in made'
    <3>1. CASE Reserve(r)
      BY <3>1 DEF Reserve
    <3>2. CASE RunStep(r)
      <4>1. ctx[r].step # "idle"
        <5>1. CASE Submission(r) \/ Startup(r) \/ Switch(r)
          BY <5>1 DEF Submission, Accept, SubmissionLost, RegistrationFails, Startup, WriteSpec,
               WriteLaunch, BindCreate, BindReuse, Spawn, CreateRecord, LeaseCreated, LoadSession,
               PreDispatchFails, Switch, AnnounceSwitch, SendSet, SetProven, SetFails, RollbackProven,
               RollbackMarked, RollbackFails, SwitchInterrupted, SwitchMarked, CommitEffective
        <5>2. CASE Turn(r)
          BY <5>2, Zenon DEF Turn, MarkDispatch, MarkDispatchFails, PromptEvidenceFails, SendPrompt,
               PromptAccepted, TurnEnds, TurnTimesOut, TurnLost, TurnInterrupted
        <5>3. CASE Finalization(r)
          BY <5>3, Zenon DEF Finalization, Conclude, FinalizationFails, EmergencyCleanup, WriteFence,
               MarkQuarantined, ClearFence, QuarantineFails, PublishResult, PublishFails, ReleaseLease
        <5>4. QED
          BY <3>2, <5>1, <5>2, <5>3 DEF RunStep
      <4>2. QED
        BY <1>t, <2>1, <4>1 DEF Apart
    <3>3. QED
      BY <3>1, <3>2
  <2>3. QED
    BY <2>1, <2>2 DEF Apart
<1>2. /\ docs[r]["submission"] = "valid" => docs'[r]["submission"] = "valid"
      /\ agent'[r].config = "moved" => agent[r].config = "moved" \/ ctx[r].step = "plan"
  <2>1. CASE Reserve(r) \/ Submission(r)
    BY <1>t, <2>1 DEF Reserve, Submission, Accept, SubmissionLost, RegistrationFails, DocNames
  <2>2. CASE Startup(r)
    BY <1>t, <2>2 DEF Startup, WriteSpec, WriteLaunch, BindCreate, BindReuse, Spawn, CreateRecord,
         LeaseCreated, LoadSession, PreDispatchFails, DocNames
  <2>3. CASE Switch(r)
    BY <1>t, <2>3 DEF Switch, AnnounceSwitch, SendSet, SetProven, SetFails, RollbackProven,
         RollbackMarked, RollbackFails, SwitchInterrupted, SwitchMarked, CommitEffective, AgentType
  <2>4. CASE Turn(r)
    <3>1. docs' = docs
      BY <2>4, Zenon DEF Turn, MarkDispatch, MarkDispatchFails, PromptEvidenceFails, SendPrompt,
           PromptAccepted, TurnEnds, TurnTimesOut, TurnLost, TurnInterrupted
    <3>2. agent' = agent \/ \E turn : agent' = [agent EXCEPT ![r].turn = turn]
      BY <2>4, Zenon DEF Turn, MarkDispatch, MarkDispatchFails, PromptEvidenceFails, SendPrompt,
           PromptAccepted, TurnEnds, TurnTimesOut, TurnLost, TurnInterrupted
    <3>3. QED
      BY <1>t, <3>1, <3>2 DEF AgentType
  <2>5. CASE Finalization(r)
    <3>1. docs' = docs /\ agent' = agent
      BY <2>5, Zenon DEF Finalization, Conclude, FinalizationFails, EmergencyCleanup, WriteFence,
           MarkQuarantined, ClearFence, QuarantineFails, PublishResult, PublishFails, ReleaseLease
    <3>2. QED
      BY <3>1
  <2>6. QED
    BY <2>1, <2>2, <2>3, <2>4, <2>5 DEF RunStep
<1>3. ctx[r].step = "plan" => session.record /\ docs[r]["submission"] = "valid"
  BY <1>t DEF Task, Binding, Recorded, Evidence
<1>4. QED
  BY <1>t, <1>1, <1>2, <1>3 DEF Tied, Grows

\* Who puts the fence up is to blame for it, until it is cleared.
LEMMA FenceSteps ==
  ASSUME Convergence, damage = 0, "configMarker" \notin lost', NEW r \in Runs,
         Reserve(r) \/ RunStep(r), session'.fence
  PROVE  Blamed(r)' \/ (session.fence /\ ~Blamed(r))
<1> USE DEF At, Go, End, store, env, world
<1>t. /\ ctx \in [Runs -> Context] /\ ctx[r] \in Context /\ ctx[r].seen \in Observations
      /\ ctx[r].verdict \in Verdict /\ session \in SessionType
      /\ docs \in [Runs -> [DocNames -> DocKinds]]
      /\ result \in [Runs -> {"absent", "corrupt"} \cup Statuses]
      /\ Task(ctx[r], session, markers[r], agent[r], intent[r], lost)
      /\ Earned(ctx[r], agent[r]) /\ Evidence(r)
      /\ Switched(ctx[r], markers[r], agent[r], lost) /\ Tied(r)
      /\ ctx[r].step # "idle" => daemon.phase = "listening" /\ r \in made
  BY AtWork
<1>l. "configMarker" \notin lost
  BY StepsApart DEF Convergence, RunInvariant, Apart
<1>i. Idle.step = "idle"
  BY DEF Idle
<1>1. CASE Reserve(r)
  BY <1>1 DEF Reserve, Blamed
<1>2. CASE Submission(r) \/ Startup(r) \/ Switch(r)
  <2>1. ctx[r].step \in Undispatched
    BY <1>2 DEF Submission, Accept, SubmissionLost, RegistrationFails, Startup, WriteSpec,
         WriteLaunch, BindCreate, BindReuse, Spawn, CreateRecord, LeaseCreated, LoadSession,
         PreDispatchFails, Switch, AnnounceSwitch, SendSet, SetProven, SetFails, RollbackProven,
         RollbackMarked, RollbackFails, SwitchInterrupted, SwitchMarked, CommitEffective, Undispatched
  <2>2. session'.fence = session.fence
    BY <1>2, <1>t DEF Submission, Accept, SubmissionLost, RegistrationFails, Startup, WriteSpec,
         WriteLaunch, BindCreate, BindReuse, Spawn, CreateRecord, LeaseCreated, LoadSession,
         PreDispatchFails, Switch, AnnounceSwitch, SendSet, SetProven, SetFails, RollbackProven,
         RollbackMarked, RollbackFails, SwitchInterrupted, SwitchMarked, CommitEffective, SessionType
  <2>3. QED
    BY <2>1, <2>2 DEF Blamed, Undispatched
<1>3. CASE Turn(r)
  <2>1. ctx[r].step \in {"dispatch", "prompt", "turn"} /\ session' = session
    BY <1>3, Zenon DEF Turn, MarkDispatch, MarkDispatchFails, PromptEvidenceFails, SendPrompt,
         PromptAccepted, TurnEnds, TurnTimesOut, TurnLost, TurnInterrupted
  <2>2. QED
    BY <2>1 DEF Blamed
<1>4. CASE Conclude(r) \/ FinalizationFails(r) \/ EmergencyCleanup(r)
  <2>1. ctx[r].step \in {"finalize", "emergency"} /\ session' = session
    BY <1>4, Zenon DEF Conclude, FinalizationFails, EmergencyCleanup
  <2>2. QED
    BY <2>1 DEF Blamed
<1>5. CASE WriteFence(r)
  <2>1. /\ ctx[r].step = "fence" /\ ctx'[r].step = "mark" /\ session'.record = session.record
        /\ UNCHANGED <<docs, markers, result, made, daemon>>
    BY <1>5, <1>t DEF WriteFence, SessionType, Context
  <2>2. /\ result[r] = "absent" /\ docs[r]["submission"] = "valid"
        /\ ctx[r].seen.dispatched \/ ctx[r].seen.rollbackUnproven
    BY <1>t, <2>1 DEF Evidence, Switched
  <2>3. CASE ctx[r].seen.dispatched
    <3>1. session.record /\ DispatchPresent(r)
      BY <1>t, <2>3 DEF Task, Binding, Dispatching, DispatchPresent
    <3>2. Condemned(r)'
      BY <2>1, <2>2, <3>1 DEF Condemned, Actionable, DispatchPresent
    <3>3. QED
      BY <1>t, <2>1, <3>2 DEF Blamed
  <2>4. CASE ctx[r].seen.rollbackUnproven
    <3>1. session.record /\ SwitchUnproven(r)
      BY <1>t, <1>l, <2>4 DEF Switched, Tied, SwitchUnproven, Proven
    <3>2. Condemned(r)'
      BY <2>1, <2>2, <3>1 DEF Condemned, Actionable, SwitchUnproven
    <3>3. QED
      BY <1>t, <2>1, <3>2 DEF Blamed
  <2>5. QED
    BY <2>2, <2>3, <2>4
<1>6. CASE MarkQuarantined(r) \/ ClearFence(r) \/ QuarantineFails(r)
  <2>1. /\ ctx[r].step \in {"fence", "mark", "clear"} /\ ~ClearFence(r)
        /\ session'.record = session.record /\ session'.fence = session.fence
        /\ UNCHANGED <<docs, markers, result, made, daemon>>
    BY <1>6, <1>t DEF MarkQuarantined, ClearFence, QuarantineFails, SessionType
  <2>2. Condemned(r) => Condemned(r)'
    BY <2>1 DEF Condemned, Actionable, DispatchPresent, SwitchUnproven
  <2>3. Blamed(r) => \/ ctx'[r].step \in {"idle", "clear"}
                     \/ ctx'[r].step = "result" /\ ctx'[r].verdict.status = "unknown"
    <3> SUFFICES ASSUME Blamed(r), ctx'[r].step \notin {"idle", "clear"}
                 PROVE  ctx'[r].step = "result" /\ ctx'[r].verdict.status = "unknown"
      OBVIOUS
    <3>1. ctx[r].step \in {"mark", "clear"} /\ QuarantineFails(r)
      BY <1>6, <1>t, <2>1 DEF Blamed, MarkQuarantined, Context
    <3>2. /\ ctx[r].emergency /\ ctx[r].verdict.after # "end"
          /\ ctx' = [ctx EXCEPT ![r].step = "result"]
      BY <1>t, <1>i, <3>1 DEF QuarantineFails, Resume
    <3>3. ctx[r].verdict.status = "unknown"
      BY <1>t, <3>1, <3>2 DEF Earned, Verdict
    <3>4. QED
      BY <1>t, <3>2, <3>3 DEF Context
  <2>4. Blamed(r) => Blamed(r)'
    BY <1>t, <2>1, <2>2, <2>3 DEF Blamed
  <2>5. QED
    BY <2>1, <2>4
<1>7. CASE PublishResult(r) \/ PublishFails(r)
  <2>1. /\ ctx[r].step = "result" /\ session' = session
        /\ UNCHANGED <<docs, markers, made, daemon>>
    BY <1>7 DEF PublishResult, PublishFails
  <2>2. result[r] = "absent"
    BY <1>t, <2>1 DEF Evidence
  <2>3. /\ result'[r] \in {"absent", ctx[r].verdict.status}
        /\ ctx'[r].step = "idle" \/ (ctx'[r].step = "release" /\ ctx'[r].verdict = ctx[r].verdict)
    BY <1>7, <1>t, <1>i, <2>2 DEF PublishResult, PublishFails, Context
  <2>4. ASSUME Blamed(r) PROVE Blamed(r)'
    <3>1. Condemned(r)'
      BY <2>1, <2>2, <2>3, <2>4 DEF Blamed, Condemned, Actionable, DispatchPresent, SwitchUnproven
    <3>2. QED
      BY <1>t, <2>1, <2>3, <2>4, <3>1 DEF Blamed
  <2>5. QED
    BY <2>1, <2>4
<1>8. CASE ReleaseLease(r)
  <2>1. /\ ctx[r].step = "release" /\ session' = session /\ ctx'[r].step = "idle"
        /\ UNCHANGED <<docs, markers, result, made, daemon>>
    BY <1>8, <1>t, <1>i DEF ReleaseLease
  <2>2. Condemned(r) => Condemned(r)'
    BY <2>1 DEF Condemned, Actionable, DispatchPresent, SwitchUnproven
  <2>3. Blamed(r) => Blamed(r)'
    BY <1>t, <2>1, <2>2 DEF Blamed
  <2>4. QED
    BY <2>1, <2>3
<1>9. QED
  BY <1>1, <1>2, <1>3, <1>4, <1>5, <1>6, <1>7, <1>8 DEF RunStep, Finalization

\* A step of a Run preserves both layers.
LEMMA RunStepsConverge ==
  ASSUME Convergence, NEW r \in Runs, Reserve(r) \/ RunStep(r)
  PROVE  Convergence'
<1>1. RunInvariant'
  BY NextPreserves DEF Convergence, Next
<1>2. Apart(r)
  BY StepsApart DEF Convergence, RunInvariant
<1>3. daemon.phase = "listening"
  <2>1. CASE Reserve(r)
    BY <2>1 DEF Reserve
  <2>2. CASE ~Reserve(r)
    <3>1. ctx[r].step # "idle"
      <4>1. ctx[r].step = "idle" => ~(Submission(r) \/ Startup(r) \/ Switch(r))
        BY DEF Submission, Accept, SubmissionLost, RegistrationFails, Startup, WriteSpec,
             WriteLaunch, BindCreate, BindReuse, Spawn, CreateRecord, LeaseCreated, LoadSession,
             PreDispatchFails, Switch, AnnounceSwitch, SendSet, SetProven, SetFails, RollbackProven,
             RollbackMarked, RollbackFails, SwitchInterrupted, SwitchMarked, CommitEffective, At
      <4>2. ctx[r].step = "idle" => ~Turn(r)
        BY Zenon DEF Turn, MarkDispatch, MarkDispatchFails, PromptEvidenceFails, SendPrompt,
             PromptAccepted, TurnEnds, TurnTimesOut, TurnLost, TurnInterrupted, At
      <4>3. ctx[r].step = "idle" => ~Finalization(r)
        BY Zenon DEF Finalization, Conclude, FinalizationFails, EmergencyCleanup, WriteFence,
             MarkQuarantined, ClearFence, QuarantineFails, PublishResult, PublishFails, ReleaseLease, At
      <4>4. QED
        BY <2>2, <4>1, <4>2, <4>3 DEF RunStep
    <3>2. QED
      BY <3>1, AtWork
  <2>3. QED
    BY <2>1, <2>2
<1>4. Earned(ctx'[r], agent'[r])
  BY EarnedOnTheWay, EarnedInTheTurn, EarnedAtTheEnd DEF RunStep
<1>5. damage = 0 => Switched(ctx'[r], markers'[r], agent'[r], lost')
  <2>1. \A c, m, a : Switched(c, m, a, lost) => Switched(c, m, a, lost')
    BY <1>2 DEF Switched, Apart
  <2>2. QED
    BY <2>1, SwitchedOnTheWay, SwitchedInTheTurn, SwitchedAtTheEnd DEF RunStep
<1>6. damage = 0 => Tied(r)'
  BY TiedSteps
<1>7. damage = 0 /\ "configMarker" \notin lost' /\ session'.fence =>
        Blamed(r)' \/ (session.fence /\ ~Blamed(r))
  BY FenceSteps
<1>8. QED
  BY <1>1, <1>2, <1>3, <1>4, <1>5, <1>6, <1>7, RunStepConverges

\* The lists of writes that rows are made of.
Quarantine == {<<"fence", "mark", "clear">>, <<"clear">>, <<>>}
Terminal   == {<<"unknown">>, <<"failed">>, <<"refuse">>, <<>>}

LEMMA ListLemma ==
  ASSUME NEW p \in Quarantine, NEW t \in Terminal
  PROVE  /\ p \o t \in Seq(Writes) /\ Ordered(p \o t)
         /\ Has(p \o t, "clear") <=> p # <<>>
         /\ Has(p \o t, "mark") <=> p = <<"fence", "mark", "clear">>
         /\ Has(p \o t, "refuse") <=> t = <<"refuse">>
         /\ Has(p \o t, "failed") <=> t = <<"failed">>
         /\ Has(p \o t, "unknown") <=> t = <<"unknown">>
<1> USE DEF Has, Ordered, Writes
<1>1. CASE p = <<"fence", "mark", "clear">>
  <2>1. CASE t = <<"unknown">>
    BY <1>1, <2>1
  <2>2. CASE t = <<"failed">>
    BY <1>1, <2>2
  <2>3. CASE t = <<"refuse">>
    BY <1>1, <2>3
  <2>4. CASE t = <<>>
    BY <1>1, <2>4
  <2>5. QED
    BY <2>1, <2>2, <2>3, <2>4 DEF Terminal
<1>2. CASE p = <<"clear">>
  <2>1. CASE t = <<"unknown">>
    BY <1>2, <2>1
  <2>2. CASE t = <<"failed">>
    BY <1>2, <2>2
  <2>3. CASE t = <<"refuse">>
    BY <1>2, <2>3
  <2>4. CASE t = <<>>
    BY <1>2, <2>4
  <2>5. QED
    BY <2>1, <2>2, <2>3, <2>4 DEF Terminal
<1>3. CASE p = <<>>
  <2>1. CASE t = <<"unknown">>
    BY <1>3, <2>1
  <2>2. CASE t = <<"failed">>
    BY <1>3, <2>2
  <2>3. CASE t = <<"refuse">>
    BY <1>3, <2>3
  <2>4. CASE t = <<>>
    BY <1>3, <2>4
  <2>5. QED
    BY <2>1, <2>2, <2>3, <2>4 DEF Terminal
<1>4. QED
  BY <1>1, <1>2, <1>3 DEF Quarantine

\* The writes of a row: a quarantine, if the directory asks for one, and then a
\* terminal, if there is none.
LEMMA RowLemma ==
  ASSUME TypeOK, NEW r \in Runs
  PROVE  \E p \in Quarantine, t \in Terminal :
           /\ RowWrites(r) = p \o t
           /\ p # <<>> => Condemned(r) \/ result[r] = "corrupt"
           /\ Condemned(r) /\ t # <<"refuse">> => p = QuarantineWrites
           /\ t = <<"failed">> =>
                /\ result[r] = "absent" /\ docs[r]["spec"] # "corrupt"
                /\ SwitchUnproven(r) /\ Actionable(r) => p = QuarantineWrites
           /\ t = <<"unknown">> => result[r] = "absent" /\ Condemned(r)
           /\ t = <<>> => /\ result[r] \in Statuses
                          /\ IF result[r] = "unknown" THEN Condemned(r) ELSE p = <<>>
<1>t. result[r] \in {"absent", "corrupt"} \cup Statuses
  BY DEF TypeOK
<1>q. QuarantineWrites \in Quarantine
  BY DEF QuarantineWrites, Quarantine
<1>e. <<>> \in Quarantine /\ \A t : t \in Terminal => <<>> \o t = t
  BY DEF Quarantine, Terminal
<1>r. /\ <<"unknown">> \in Terminal /\ <<"failed">> \in Terminal /\ <<"refuse">> \in Terminal
      /\ <<>> \in Terminal
  BY DEF Terminal
<1>d. /\ <<"unknown">> # <<"failed">> /\ <<"unknown">> # <<"refuse">> /\ <<"failed">> # <<"refuse">>
      /\ <<>> # <<"unknown">> /\ <<>> # <<"failed">> /\ <<>> # <<"refuse">>
  OBVIOUS
<1>c. QuarantineWrites \o <<>> = QuarantineWrites
  BY DEF QuarantineWrites
<1> DEFINE Q == QuarantineWrites
<1>w. /\ Q \in Quarantine /\ Q \o <<>> = Q
  BY <1>q, <1>c
<1>1. CASE Row(r) = 1
  <2>1. RowWrites(r) = <<>>
    BY <1>1 DEF RowWrites
  <2>2. result[r] \in Statuses \ {"unknown"}
    BY <1>1, <1>t DEF Row, SelectRow, TerminalClass, Statuses
  <2>3. ~Condemned(r)
    BY <2>2 DEF Condemned, Statuses
  <2>4. RowWrites(r) = <<>> \o <<>>
    BY <1>e, <1>r, <2>1
  <2>5. QED
    BY <1>e, <1>r, <1>d, <2>2, <2>3, <2>4
<1>2. CASE Row(r) = 2
  <2>1. RowWrites(r) = Q
    BY <1>2 DEF RowWrites
  <2>2. result[r] = "unknown" /\ Actionable(r)
    BY <1>2, <1>t DEF Row, SelectRow, TerminalClass, Statuses
  <2>3. Condemned(r) /\ result[r] \in Statuses
    BY <2>2 DEF Condemned, Statuses
  <2>4. RowWrites(r) = Q \o <<>>
    BY <1>w, <2>1
  <2> HIDE DEF Q
  <2>5. Q = QuarantineWrites
    BY DEF Q
  <2>6. QED
    BY <1>w, <1>r, <1>d, <2>2, <2>3, <2>4, <2>5
<1>3. CASE Row(r) = 4
  <2>1. RowWrites(r) = (IF DispatchPresent(r) /\ Actionable(r) THEN Q ELSE <<>>) \o <<"refuse">>
    BY <1>3 DEF RowWrites
  <2>2. result[r] = "corrupt"
    BY <1>3, <1>t DEF Row, SelectRow, TerminalClass, Statuses
  <2> HIDE DEF Q
  <2>3. QED
    BY <1>w, <1>e, <1>r, <1>d, <2>1, <2>2
<1>4. CASE Row(r) = 5
  <2>1. RowWrites(r) = Q \o <<"unknown">>
    BY <1>4 DEF RowWrites
  <2>2. result[r] = "absent" /\ DispatchPresent(r) /\ Actionable(r)
    BY <1>4, <1>t DEF Row, SelectRow, TerminalClass, Statuses
  <2>3. Condemned(r)
    BY <2>2 DEF Condemned
  <2> HIDE DEF Q
  <2>4. Q = QuarantineWrites
    BY DEF Q
  <2>5. QED
    BY <1>w, <1>r, <1>d, <2>1, <2>2, <2>3, <2>4
<1>5. CASE Row(r) = 7 \/ (Row(r) = 11 /\ docs[r]["submission"] # "corrupt")
  <2>1. RowWrites(r) = (IF SwitchUnproven(r) /\ Actionable(r) THEN Q ELSE <<>>) \o <<"failed">>
    BY <1>5 DEF RowWrites
  <2>2. result[r] = "absent" /\ ~DispatchPresent(r) /\ docs[r]["spec"] # "corrupt"
    BY <1>5, <1>t DEF Row, SelectRow, TerminalClass, Statuses
  <2>3. Condemned(r) <=> SwitchUnproven(r) /\ Actionable(r)
    BY <2>2 DEF Condemned
  <2> HIDE DEF Q
  <2>4. Q = QuarantineWrites
    BY DEF Q
  <2>5. CASE SwitchUnproven(r) /\ Actionable(r)
    BY <1>w, <1>r, <1>d, <2>1, <2>2, <2>3, <2>4, <2>5
  <2>6. CASE ~(SwitchUnproven(r) /\ Actionable(r))
    BY <1>e, <1>r, <1>d, <2>1, <2>2, <2>3, <2>6
  <2>7. QED
    BY <2>5, <2>6
<1>6. CASE /\ Row(r) \notin {1, 2, 4, 5, 7}
           /\ ~(Row(r) = 11 /\ docs[r]["submission"] # "corrupt")
  <2>1. RowWrites(r) = <<"refuse">>
    BY <1>6 DEF RowWrites
  <2>2. RowWrites(r) = <<>> \o <<"refuse">>
    BY <1>e, <1>r, <2>1
  <2>3. QED
    BY <1>e, <1>r, <1>d, <2>2
<1>7. QED
  BY <1>1, <1>2, <1>3, <1>4, <1>5, <1>6

\* The parts that a step leaves alone when it changes no Run and no evidence.
LEMMA RunsAlone ==
  ASSUME Convergence, UNCHANGED <<made, docs, markers, ctx, agent, damage, lost>>,
         Grows(session, session')
  PROVE  /\ \A r \in Runs : Earned(ctx'[r], agent'[r])
         /\ damage = 0 => \A r \in Runs : Switched(ctx'[r], markers'[r], agent'[r], lost') /\ Tied(r)'
<1>1. \A r \in Runs : Earned(ctx'[r], agent'[r])
  BY DEF Convergence
<1>2. ASSUME damage = 0, NEW r \in Runs
      PROVE  Switched(ctx'[r], markers'[r], agent'[r], lost') /\ Tied(r)'
  <2>1. Switched(ctx[r], markers[r], agent[r], lost) /\ Tied(r)
    BY <1>2 DEF Convergence
  <2>2. QED
    BY <2>1 DEF Tied, Grows
<1>3. QED
  BY <1>1, <1>2

LEMMA ClassifyConverges ==
  ASSUME Convergence, NEW r \in Runs, ClassifyRun(r)
  PROVE  Convergence'
<1>1. RunInvariant'
  BY NextPreserves DEF Convergence, Next, Reconciliation
<1>2. /\ daemon.phase = "reconciling" /\ daemon.left = <<>> /\ r \in daemon.todo
      /\ daemon' = [daemon EXCEPT !.todo = @ \ {r}, !.run = r, !.left = RowWrites(r)]
      /\ UNCHANGED <<made, docs, markers, result, session, ctx, agent, damage, lost>>
  BY DEF ClassifyRun, store
<1>3. /\ daemon'.phase = "reconciling" /\ daemon'.left = RowWrites(r) /\ daemon'.run = r
      /\ daemon'.todo = daemon.todo \ {r} /\ TypeOK /\ r \in made
  BY <1>2 DEF Convergence, RunInvariant, TypeOK, OneTask
<1>4. PICK p \in Quarantine, t \in Terminal :
        /\ RowWrites(r) = p \o t
        /\ p # <<>> => Condemned(r) \/ result[r] = "corrupt"
        /\ Condemned(r) /\ t # <<"refuse">> => p = QuarantineWrites
        /\ t = <<"failed">> =>
             result[r] = "absent" /\ (SwitchUnproven(r) /\ Actionable(r) => p = QuarantineWrites)
        /\ t = <<"unknown">> => result[r] = "absent" /\ Condemned(r)
        /\ t = <<>> => /\ result[r] \in Statuses
                       /\ IF result[r] = "unknown" THEN Condemned(r) ELSE p = <<>>
  BY <1>3, RowLemma
<1>5. /\ Ordered(daemon'.left)
      /\ Has(daemon'.left, "clear") <=> p # <<>>
      /\ Has(daemon'.left, "mark") <=> p = <<"fence", "mark", "clear">>
      /\ Has(daemon'.left, "refuse") <=> t = <<"refuse">>
      /\ Has(daemon'.left, "failed") <=> t = <<"failed">>
      /\ Has(daemon'.left, "unknown") <=> t = <<"unknown">>
  BY <1>3, <1>4, ListLemma
<1>6. /\ p = QuarantineWrites => Quarantining' /\ (session.fence => p # <<>>)
      /\ p = QuarantineWrites /\ p = <<>> => session.quarantined
  <2>1. /\ ~session.quarantined => QuarantineWrites = <<"fence", "mark", "clear">>
        /\ session.fence => QuarantineWrites # <<>>
        /\ <<"fence", "mark", "clear">> # <<>>
    BY DEF QuarantineWrites
  <2>2. QED
    BY <1>2, <1>5, <2>1 DEF Quarantining
<1>7. InOrder'
  BY <1>3, <1>5 DEF InOrder
<1>8. Grows(session, session')
  BY <1>2 DEF Grows
<1>a. \A q \in Runs : /\ Actionable(q)' = Actionable(q) /\ Condemned(q)' = Condemned(q)
                      /\ Done(q)' = Done(q)
  BY <1>2 DEF Actionable, Condemned, Done, DispatchPresent, SwitchUnproven
<1>9. ASSUME damage = 0 PROVE Progress' /\ FenceIsBlamed'
  <2>1. Progress /\ FenceIsBlamed /\ result[r] # "corrupt"
    BY <1>9 DEF Convergence, RunInvariant, EvidenceHolds, Evidence
  <2>3. Progress'
    <3>1. ASSUME NEW q \in made \ daemon.todo PROVE Done(q)'
      BY <1>2, <1>a, <2>1, <3>1, NoWrites, SMTT(30) DEF Progress, Doing, Convergence, RunInvariant, TypeOK
    <3>2. Done(r)' \/ Doing(r)'
      <4>1. CASE t = <<"refuse">>
        BY <1>5, <4>1 DEF Doing
      <4>2. CASE t = <<"failed">>
        BY <1>2, <1>4, <1>5, <4>2 DEF Doing
      <4>3. CASE t = <<"unknown">>
        <5>1. Actionable(r)' /\ Quarantining' /\ t # <<"refuse">>
          BY <1>4, <1>6, <1>a, <4>3 DEF Condemned
        <5>2. QED
          BY <1>2, <1>4, <1>5, <4>3, <5>1 DEF Doing
      <4>4. CASE t = <<>>
        <5>1. result[r] \in Statuses /\ t # <<"refuse">>
          BY <1>4, <4>4
        <5>2. CASE result[r] = "unknown"
          <6>1. Condemned(r) /\ p = QuarantineWrites
            BY <1>4, <4>4, <5>1, <5>2
          <6>2. CASE p = <<>>
            BY <1>6, <1>a, <5>1, <6>1, <6>2 DEF Done, Condemned
          <6>3. CASE p # <<>>
            BY <1>2, <1>5, <1>6, <1>a, <5>2, <6>1, <6>3 DEF Doing, Condemned
          <6>4. QED
            BY <6>2, <6>3
        <5>3. CASE result[r] # "unknown"
          BY <1>a, <5>1, <5>3 DEF Done
        <5>4. QED
          BY <5>2, <5>3
      <4>5. QED
        BY <4>1, <4>2, <4>3, <4>4 DEF Terminal
    <3>3. QED
      BY <1>2, <1>3, <3>1, <3>2 DEF Progress
  <2>4. FenceIsBlamed'
    <3> SUFFICES ASSUME "configMarker" \notin lost
                 PROVE  /\ session.fence => \E q \in Runs : Blamed(q)'
                        /\ p # <<>> => Blamed(r)'
      BY <1>2, <1>3, <1>5 DEF FenceIsBlamed
    <3>1. ctx[r].step = "idle"
      BY <1>2 DEF Convergence, RunInvariant, OneTask
    <3>2. p # <<>> => Blamed(r)'
      BY <1>2, <1>3, <1>4, <1>5, <1>a, <2>1, <3>1 DEF Blamed
    <3>3. ASSUME session.fence PROVE \E q \in Runs : Blamed(q)'
      <4>1. PICK q \in Runs : Blamed(q)
        BY <2>1, <3>3 DEF FenceIsBlamed
      <4>2. CASE q = r
        <5>1. Condemned(r)
          BY <4>1, <4>2 DEF Blamed
        <5>2. Has(daemon'.left, "clear") \/ Has(daemon'.left, "refuse")
          BY <1>4, <1>5, <1>6, <3>3, <5>1
        <5>3. Blamed(r)'
          BY <1>2, <1>3, <1>a, <3>1, <5>1, <5>2 DEF Blamed
        <5>4. QED
          BY <5>3
      <4>3. CASE q # r
        <5>1. q \in daemon.todo
          BY <1>2, <4>1, NoWrites DEF Blamed
        <5>2. Blamed(q)'
          BY <1>2, <1>3, <1>a, <4>1, <4>3, <5>1 DEF Blamed
        <5>3. QED
          BY <5>2
      <4>4. QED
        BY <4>2, <4>3
    <3>4. QED
      BY <3>2, <3>3
  <2>5. QED
    BY <2>3, <2>4
<1>10. QED
  BY <1>1, <1>2, <1>7, <1>8, <1>9, RunsAlone DEF Convergence

\* What one write leaves of an ordered list.
LEMMA TailLemma ==
  ASSUME NEW w \in Seq(Writes), w # <<>>, Ordered(w)
  PROVE  /\ Tail(w) \in Seq(Writes) /\ Ordered(Tail(w))
         /\ \A x : Has(w, x) <=> Head(w) = x \/ Has(Tail(w), x)
         /\ Head(w) \in {"unknown", "failed", "refuse"} => Tail(w) = <<>>
         /\ Head(w) \in {"fence", "mark"} => Has(Tail(w), "clear")
         /\ Has(Tail(w), "mark") => Has(Tail(w), "clear")
<1>1. /\ Len(w) \in Nat \ {0} /\ Head(w) = w[1] /\ Tail(w) \in Seq(Writes)
      /\ Len(Tail(w)) = Len(w) - 1
      /\ \A i \in 1..(Len(w) - 1) : Tail(w)[i] = w[i + 1]
  OBVIOUS
<1>2. PICK n \in Nat \ {0}, t \in Seq(Writes) :
        /\ n = Len(w) /\ t = Tail(w) /\ Len(t) = n - 1 /\ Head(w) = w[1]
        /\ \A i \in 1..(n - 1) : t[i] = w[i + 1]
  BY <1>1
<1>3. \A i \in 1..n : /\ w[i] \in {"unknown", "failed", "refuse"} => i = n
                      /\ w[i] \in {"fence", "mark"} => \E j \in (i + 1)..n : w[j] = "clear"
  BY <1>2 DEF Ordered
<1>4. \A i \in 1..(n - 1) : /\ t[i] \in {"unknown", "failed", "refuse"} => i = n - 1
                            /\ t[i] \in {"fence", "mark"} => \E j \in (i + 1)..(n - 1) : t[j] = "clear"
  <2> SUFFICES ASSUME NEW i \in 1..(n - 1)
               PROVE  /\ t[i] \in {"unknown", "failed", "refuse"} => i = n - 1
                      /\ t[i] \in {"fence", "mark"} => \E j \in (i + 1)..(n - 1) : t[j] = "clear"
    OBVIOUS
  <2>1. t[i] = w[i + 1] /\ i + 1 \in 1..n
    BY <1>2
  <2>2. t[i] \in {"unknown", "failed", "refuse"} => i = n - 1
    BY <1>3, <2>1
  <2>3. ASSUME t[i] \in {"fence", "mark"} PROVE \E j \in (i + 1)..(n - 1) : t[j] = "clear"
    <3>1. PICK j \in ((i + 1) + 1)..n : w[j] = "clear"
      BY <1>3, <2>1, <2>3
    <3>2. j - 1 \in (i + 1)..(n - 1) /\ t[j - 1] = w[(j - 1) + 1] /\ (j - 1) + 1 = j
      BY <1>2, <3>1
    <3>3. QED
      BY <3>1, <3>2
  <2>4. QED
    BY <2>2, <2>3
<1>5. Ordered(t)
  BY <1>2, <1>4 DEF Ordered
<1>6. ASSUME NEW x PROVE Has(w, x) <=> w[1] = x \/ Has(t, x)
  <2>1. ASSUME NEW j \in 1..n, w[j] = x, j # 1 PROVE Has(t, x)
    <3>1. j - 1 \in 1..(n - 1) /\ t[j - 1] = w[(j - 1) + 1] /\ (j - 1) + 1 = j
      BY <1>2, <2>1
    <3>2. QED
      BY <1>2, <2>1, <3>1 DEF Has
  <2>2. ASSUME NEW j \in 1..(n - 1), t[j] = x PROVE Has(w, x)
    <3>1. j + 1 \in 1..n /\ w[j + 1] = x
      BY <1>2, <2>2
    <3>2. QED
      BY <1>2, <3>1 DEF Has
  <2>3. w[1] = x => Has(w, x)
    BY <1>2 DEF Has
  <2>4. QED
    BY <1>2, <2>1, <2>2, <2>3 DEF Has
<1>7. w[1] \in {"unknown", "failed", "refuse"} => t = <<>>
  BY <1>2, <1>3
<1>8. w[1] \in {"fence", "mark"} => Has(t, "clear")
  <2> SUFFICES ASSUME w[1] \in {"fence", "mark"} PROVE Has(t, "clear")
    OBVIOUS
  <2>1. PICK j \in (1 + 1)..n : w[j] = "clear"
    BY <1>3
  <2>2. j - 1 \in 1..(n - 1) /\ t[j - 1] = w[(j - 1) + 1] /\ (j - 1) + 1 = j
    BY <1>2, <2>1
  <2>3. QED
    BY <1>2, <2>1, <2>2 DEF Has
<1>9. Has(t, "mark") => Has(t, "clear")
  <2> SUFFICES ASSUME NEW i \in 1..(n - 1), t[i] = "mark" PROVE Has(t, "clear")
    BY <1>2 DEF Has
  <2>1. PICK j \in (i + 1)..(n - 1) : t[j] = "clear"
    BY <1>4
  <2>2. j \in 1..(n - 1)
    BY <1>2, <2>1
  <2>3. QED
    BY <1>2, <2>1, <2>2 DEF Has
<1>10. QED
  BY <1>2, <1>5, <1>6, <1>7, <1>8, <1>9

\* Each write of a row brings its Run nearer to its terminal, and the Session out
\* of its fence.
LEMMA ApplyWriteConverges ==
  ASSUME Convergence, ApplyWrite
  PROVE  Convergence'
<1>1. RunInvariant'
  BY NextPreserves DEF Convergence, Next, Reconciliation
<1>t. /\ daemon.left \in Seq(Writes) /\ daemon.left # <<>> /\ daemon.phase = "reconciling"
      /\ daemon.run \in made /\ daemon.run \in Runs /\ daemon.run \notin daemon.todo
      /\ Ordered(daemon.left) /\ session \in SessionType
      /\ daemon \in [phase : {"down", "reconciling", "listening", "refused"},
                     todo : SUBSET Runs, run : Runs \cup {NoRun}, left : Seq(Writes)]
      /\ result \in [Runs -> {"absent", "corrupt"} \cup Statuses]
      /\ UNCHANGED <<made, docs, markers, ctx, agent, damage, lost>>
  BY DEF ApplyWrite, Convergence, RunInvariant, OneTask, TypeOK, InOrder, SessionType
<1>2. PICK write, rest, run : write = Head(daemon.left) /\ rest = Tail(daemon.left) /\ run = daemon.run
  OBVIOUS
<1>3. /\ Ordered(rest)
      /\ \A x : Has(daemon.left, x) <=> write = x \/ Has(rest, x)
      /\ write \in {"unknown", "failed", "refuse"} => rest = <<>>
      /\ write \in {"fence", "mark"} => Has(rest, "clear")
      /\ Has(rest, "mark") => Has(rest, "clear")
  BY <1>t, <1>2, TailLemma
<1>4. daemon' = IF write = "refuse" THEN [Down EXCEPT !.phase = "refused"]
                ELSE [daemon EXCEPT !.left = rest]
  BY <1>2 DEF ApplyWrite
<1>5. /\ write = "refuse" => /\ daemon'.phase = "refused" /\ daemon'.left = <<>>
      /\ write # "refuse" => /\ daemon'.phase = "reconciling" /\ daemon'.run = run
                             /\ daemon'.todo = daemon.todo /\ daemon'.left = rest
  BY <1>t, <1>2, <1>4 DEF Down, Listening
<1>6. /\ session'.record = session.record /\ Grows(session, session')
      /\ session'.quarantined = (session.quarantined \/ write = "mark")
      /\ session'.fence = (IF write = "fence" THEN TRUE ELSE IF write = "clear" THEN FALSE ELSE session.fence)
  BY <1>t, <1>2 DEF ApplyWrite, SessionType, Grows
<1>7. /\ \A q \in Runs \ {run} : result'[q] = result[q]
      /\ result'[run] = IF write \in {"unknown", "failed"} /\ result[run] = "absent"
                        THEN write ELSE result[run]
  BY <1>t, <1>2 DEF ApplyWrite
<1>8. write = "unknown" => session.quarantined
  <2>1. 1 \in 1..Len(daemon.left) /\ 1..(1 - 1) = {} /\ write = daemon.left[1]
    BY <1>t, <1>2
  <2>2. daemon.left[1] = "unknown" =>
          session.quarantined \/ \E j \in 1..(1 - 1) : daemon.left[j] = "mark"
    BY <2>1 DEF Convergence, RunInvariant, UnknownFollowsMark
  <2>3. QED
    BY <2>1, <2>2
<1>9. InOrder'
  BY <1>t, <1>2, <1>3, <1>5, NoWrites DEF InOrder
<1>a. \A q \in Runs : /\ Actionable(q)' = Actionable(q) /\ DispatchPresent(q)' = DispatchPresent(q)
                      /\ SwitchUnproven(q)' = SwitchUnproven(q)
                      /\ result'[q] = result[q] => Condemned(q)' = Condemned(q)
  BY <1>t, <1>6 DEF Actionable, Condemned, DispatchPresent, SwitchUnproven
<1>b. write # "refuse" /\ Quarantining => Quarantining'
  BY <1>3, <1>5, <1>6 DEF Quarantining
<1>c. \A x : Has(rest, x) => write \notin {"unknown", "failed", "refuse"}
  BY <1>3, NoWrites
<1>11. ASSUME damage = 0, daemon'.phase = "reconciling", NEW q \in made \ daemon.todo
       PROVE  Done(q)' \/ (daemon'.run = q /\ Doing(q)')
  <2>1. write # "refuse" /\ (Done(q) \/ (run = q /\ Doing(q))) /\ q \in Runs
    BY <1>t, <1>2, <1>5, <1>11 DEF Convergence, Progress, RunInvariant, TypeOK
  <2>2. CASE Done(q)
    <3>1. result'[q] = result[q]
      BY <1>7, <2>1, <2>2 DEF Done, Statuses
    <3>2. QED
      BY <1>6, <1>a, <2>1, <2>2, <3>1 DEF Done
  <2>3. CASE run = q /\ Doing(q)
    <3> SUFFICES Done(q)' \/ Doing(q)'
      BY <1>5, <2>1, <2>3
    <3>1. CASE Has(daemon.left, "refuse")
      BY <1>3, <1>5, <2>1, <3>1 DEF Doing
    <3>2. CASE Has(daemon.left, "failed") /\ result[q] = "absent"
      <4>1. CASE write = "failed"
        BY <1>7, <2>3, <3>2, <4>1 DEF Done, Statuses
      <4>2. CASE write # "failed"
        <5>1. Has(rest, "failed") /\ write \notin {"unknown", "failed"}
          BY <1>3, <1>c, <3>2, <4>2
        <5>2. QED
          BY <1>5, <1>7, <2>1, <2>3, <3>2, <5>1 DEF Doing
      <4>3. QED
        BY <4>1, <4>2
    <3>3. CASE /\ Actionable(q) /\ Quarantining
               /\ Has(daemon.left, "unknown") /\ result[q] = "absent"
      <4>1. CASE write = "unknown"
        BY <1>6, <1>7, <1>8, <1>a, <2>1, <2>3, <3>3, <4>1 DEF Done, Statuses
      <4>2. CASE write # "unknown"
        <5>1. Has(rest, "unknown") /\ write \notin {"unknown", "failed"}
          BY <1>3, <1>c, <3>3, <4>2
        <5>2. QED
          BY <1>5, <1>7, <1>a, <1>b, <2>1, <2>3, <3>3, <5>1 DEF Doing
      <4>3. QED
        BY <4>1, <4>2
    <3>4. CASE /\ Actionable(q) /\ Quarantining
               /\ Has(daemon.left, "clear") /\ result[q] = "unknown"
      <4>1. result'[q] = "unknown" /\ Actionable(q)'
        BY <1>7, <1>a, <2>1, <2>3, <3>4
      <4>2. CASE Has(rest, "clear")
        BY <1>5, <1>b, <2>1, <3>4, <4>1, <4>2 DEF Doing
      <4>3. CASE ~Has(rest, "clear")
        <5>1. session'.quarantined
          BY <1>3, <1>6, <3>4, <4>3 DEF Quarantining
        <5>2. QED
          BY <4>1, <5>1 DEF Done, Statuses
      <4>4. QED
        BY <4>2, <4>3
    <3>5. QED
      BY <2>3, <3>1, <3>2, <3>3, <3>4 DEF Doing
  <2>4. QED
    BY <2>1, <2>2, <2>3
<1>12. ASSUME damage = 0, "configMarker" \notin lost
       PROVE  /\ session'.fence => \E q \in Runs : Blamed(q)'
              /\ Has(daemon'.left, "clear") => Blamed(daemon.run)'
  <2>1. FenceIsBlamed
    BY <1>12 DEF Convergence
  <2>2. ASSUME NEW q \in Runs, Blamed(q), result'[q] = result[q],
               \/ write = "refuse" \/ q \in daemon.todo
               \/ run = q /\ (Has(rest, "clear") \/ Has(rest, "refuse"))
        PROVE  Blamed(q)'
    <3>1. Condemned(q)'
      BY <1>a, <2>2 DEF Blamed
    <3>2. QED
      BY <1>t, <1>5, <2>2, <3>1 DEF Blamed
  <2>3. Has(rest, "clear") /\ write # "refuse" => Blamed(run)'
    <3> SUFFICES ASSUME Has(rest, "clear") PROVE Blamed(run)'
      OBVIOUS
    <3>1. Blamed(run)
      BY <1>2, <1>3, <1>12, <2>1 DEF FenceIsBlamed
    <3>2. result'[run] = result[run] /\ run \in Runs
      BY <1>t, <1>2, <1>7, <1>c
    <3>3. QED
      BY <2>2, <3>1, <3>2
  <2>4. Has(daemon'.left, "clear") => Blamed(daemon.run)'
    <3> SUFFICES ASSUME Has(daemon'.left, "clear") PROVE Blamed(daemon.run)'
      OBVIOUS
    <3>1. write # "refuse" /\ Has(rest, "clear") /\ daemon'.run = run
      BY <1>5, NoWrites
    <3>2. Blamed(run)'
      BY <2>3, <3>1
    <3>3. QED
      BY <3>1, <3>2 DEF Blamed, Condemned, Actionable, DispatchPresent, SwitchUnproven
  <2>5. ASSUME session'.fence PROVE \E q \in Runs : Blamed(q)'
    <3>1. CASE write = "fence"
      BY <1>t, <1>2, <1>3, <2>3, <3>1
    <3>2. CASE write # "fence"
      <4>1. session.fence /\ write # "clear"
        BY <1>6, <2>5, <3>2
      <4>2. PICK q \in Runs : Blamed(q)
        BY <1>12, <2>1, <4>1 DEF FenceIsBlamed
      <4>3. CASE write = "refuse"
        <5>1. result'[q] = result[q]
          BY <1>7, <4>3
        <5>2. QED
          BY <2>2, <4>2, <4>3, <5>1
      <4>4. CASE write # "refuse" /\ q \in daemon.todo
        <5>1. result'[q] = result[q]
          BY <1>t, <1>2, <1>7, <4>4
        <5>2. QED
          BY <2>2, <4>2, <4>4, <5>1
      <4>5. CASE write # "refuse" /\ q \notin daemon.todo
        <5>1. run = q /\ (Has(daemon.left, "clear") \/ Has(daemon.left, "refuse"))
          BY <1>t, <1>2, <4>2, <4>5 DEF Blamed
        <5>2. Has(rest, "clear") \/ Has(rest, "refuse")
          BY <1>3, <4>1, <4>5, <5>1
        <5>3. result'[q] = result[q]
          BY <1>7, <1>c, <5>1, <5>2
        <5>4. QED
          BY <2>2, <4>2, <5>1, <5>2, <5>3
      <4>6. QED
        BY <4>3, <4>4, <4>5
    <3>3. QED
      BY <3>1, <3>2
  <2>6. QED
    BY <2>4, <2>5
<1>13. damage = 0 => Progress'
  BY <1>t, <1>5, <1>11 DEF Progress
<1>14. damage = 0 => FenceIsBlamed'
  BY <1>t, <1>12 DEF FenceIsBlamed
<1>15. QED
  BY <1>1, <1>t, <1>6, <1>9, <1>13, <1>14, RunsAlone DEF Convergence

\* The daemon comes up with every directory still to be looked at, and listens
\* once none is left.
LEMMA DaemonConverges ==
  ASSUME Convergence, Start \/ Listen \/ Crash
  PROVE  Convergence'
<1>1. RunInvariant'
  BY NextPreserves DEF Convergence, Next, Reconciliation
<1>t. /\ daemon \in [phase : {"down", "reconciling", "listening", "refused"},
                     todo : SUBSET Runs, run : Runs \cup {NoRun}, left : Seq(Writes)]
      /\ daemon.phase # "reconciling" => daemon.left = <<>>
      /\ \A r \in Runs : ctx[r].step # "idle" => daemon.phase = "listening"
  BY DEF Convergence, RunInvariant, OneTask, TypeOK
<1>2. UNCHANGED <<made, docs, markers, result, session, agent, damage, lost>>
  BY DEF Start, Listen, Crash, store
<1>3. /\ daemon'.left = <<>>
      /\ daemon'.phase = "reconciling" => daemon.phase = "down" /\ daemon'.todo = made'
  <2>1. CASE Start
    BY <1>t, <1>2, <2>1 DEF Start
  <2>2. CASE Listen \/ Crash
    <3>1. daemon' \in {[phase |-> ph, todo |-> {}, run |-> NoRun, left |-> <<>>] : ph \in {"listening", "down"}}
      BY <2>2 DEF Listen, Crash, Down, Listening
    <3>2. QED
      BY <3>1
  <2>3. QED
    BY <2>1, <2>2
<1>4. InOrder'
  BY <1>3, NoWrites DEF InOrder
<1>5. \A r \in Runs : ctx'[r] = ctx[r] \/ ctx'[r] = Idle
  BY DEF Start, Listen, Crash
<1>6. \A r \in Runs : Earned(ctx'[r], agent'[r])
  <2>1. \A r \in Runs : Earned(ctx[r], agent[r]) /\ Earned(Idle, agent[r])
    BY DEF Convergence, Earned, Idle, NothingSeen, Concluded
  <2>2. QED
    BY <1>2, <1>5, <2>1
<1>7. ASSUME damage = 0, NEW r \in Runs PROVE Switched(ctx'[r], markers'[r], agent'[r], lost') /\ Tied(r)'
  <2>1. Switched(ctx[r], markers[r], agent[r], lost) /\ Tied(r)
    BY <1>7 DEF Convergence
  <2>2. Switched(Idle, markers[r], agent[r], lost)
    BY <2>1 DEF Switched, Idle, NothingSeen, Unmoved
  <2>3. QED
    BY <1>2, <1>5, <2>1, <2>2 DEF Tied
<1>8. Progress'
  BY <1>3 DEF Progress
<1>9. ASSUME damage = 0, "configMarker" \notin lost', session'.fence
      PROVE  \E r \in Runs : Blamed(r)'
  <2>1. PICK r \in Runs : Blamed(r)
    BY <1>2, <1>9 DEF Convergence, FenceIsBlamed
  <2>2. Condemned(r)'
    BY <1>2, <2>1 DEF Blamed, Condemned, Actionable, DispatchPresent, SwitchUnproven
  <2>3. /\ \/ ctx'[r].step \in {"idle", "mark", "clear"}
           \/ ctx'[r].step \in {"result", "release"} /\ ctx'[r].verdict.status = "unknown"
    <3>1. CASE ctx'[r] = Idle
      BY <3>1 DEF Idle
    <3>2. CASE ctx'[r] = ctx[r]
      BY <2>1, <3>2 DEF Blamed
    <3>3. QED
      BY <1>5, <3>1, <3>2
  <2>4. daemon'.phase = "reconciling" => r \in daemon'.todo
    BY <1>2, <1>3, <2>1 DEF Blamed
  <2>5. QED
    BY <1>2, <2>1, <2>2, <2>3, <2>4 DEF Blamed
<1>10. damage = 0 => FenceIsBlamed'
  BY <1>3, <1>9, NoWrites DEF FenceIsBlamed
<1>11. QED
  BY <1>1, <1>2, <1>4, <1>6, <1>7, <1>8, <1>10 DEF Convergence

\* A step that leaves the store, the tasks and the daemon alone.
LEMMA QuietConverges ==
  ASSUME Convergence, RunInvariant',
         UNCHANGED <<made, docs, markers, result, session, ctx, daemon, agent, damage, lost>>
  PROVE  Convergence'
<1>1. Grows(session, session')
  BY DEF Grows
<1>2. InOrder' = InOrder
  BY DEF InOrder
<1>3. Progress' = Progress
  BY DEF Progress, Done, Doing, Quarantining, Actionable
<1>4. FenceIsBlamed' = FenceIsBlamed
  BY DEF FenceIsBlamed, Blamed, Condemned, Actionable, DispatchPresent, SwitchUnproven
<1>5. QED
  BY <1>1, <1>2, <1>3, <1>4, RunsAlone DEF Convergence

\* A damaged store keeps what does not depend on it.
LEMMA DamagedConverges ==
  ASSUME Convergence, RunInvariant', UNCHANGED <<ctx, daemon, agent>>, damage' # 0
  PROVE  Convergence'
<1>1. InOrder'
  BY DEF Convergence, InOrder
<1>2. QED
  BY <1>1 DEF Convergence

LEMMA EnvironmentConverges ==
  ASSUME Convergence, NEW r \in Runs,
         ContainInvalidTerminal(r) \/ Damage(r) \/ MarkerUnreadable(r) \/ LeaseExpires
  PROVE  Convergence'
<1>1. RunInvariant'
  BY NextPreserves DEF Convergence, Next
<1>2. CASE LeaseExpires
  BY <1>1, <1>2, QuietConverges DEF LeaseExpires, env, world, store
<1>3. CASE ContainInvalidTerminal(r)
  <2>1. result[r] = "corrupt" /\ UNCHANGED <<ctx, daemon, agent, damage>>
    BY <1>3 DEF ContainInvalidTerminal, env, world
  <2>2. damage # 0
    BY <2>1 DEF Convergence, RunInvariant, EvidenceHolds, Evidence
  <2>3. QED
    BY <1>1, <2>1, <2>2, DamagedConverges
<1>4. CASE Damage(r) \/ MarkerUnreadable(r)
  <2>1. damage' = damage + 1 /\ damage \in Nat /\ UNCHANGED <<ctx, daemon, agent>>
    BY <1>4, BoundsAssumption DEF Damage, MarkerUnreadable, Convergence, RunInvariant, TypeOK
  <2>2. QED
    BY <1>1, <2>1, DamagedConverges
<1>5. QED
  BY <1>2, <1>3, <1>4

LEMMA InitConverges == Init => Convergence
<1> SUFFICES ASSUME Init PROVE Convergence
  OBVIOUS
<1>1. RunInvariant
  BY InitEstablishes
<1>2. daemon.left = <<>> /\ daemon.phase = "listening" /\ ~session.fence
  BY DEF Init, Listening
<1>3. InOrder /\ Progress /\ FenceIsBlamed
  BY <1>2, NoWrites DEF InOrder, Progress, FenceIsBlamed
<1>4. ASSUME NEW r \in Runs
      PROVE  Earned(ctx[r], agent[r]) /\ Switched(ctx[r], markers[r], agent[r], lost) /\ Tied(r)
  <2>1. /\ ctx[r] = Idle /\ markers[r] = {}
        /\ agent[r] = [config |-> "untouched", turn |-> "none"]
    BY DEF Init
  <2>2. Earned(ctx[r], agent[r])
    BY <2>1 DEF Earned, Idle, NothingSeen
  <2>3. Switched(ctx[r], markers[r], agent[r], lost)
    BY <2>1 DEF Switched, Idle, NothingSeen, Unmoved
  <2>4. Tied(r)
    BY <2>1 DEF Tied
  <2>5. QED
    BY <2>2, <2>3, <2>4
<1>5. QED
  BY <1>1, <1>3, <1>4 DEF Convergence

LEMMA NextConverges == Convergence /\ [Next]_vars => Convergence'
<1> SUFFICES ASSUME Convergence, [Next]_vars PROVE Convergence'
  OBVIOUS
<1>1. CASE \E r \in Runs : Reserve(r) \/ RunStep(r)
  BY <1>1, RunStepsConverge
<1>2. CASE \E r \in Runs : ContainInvalidTerminal(r) \/ Damage(r) \/ MarkerUnreadable(r)
  BY <1>2, EnvironmentConverges
<1>3. CASE Reconciliation
  BY <1>3, DaemonConverges, ClassifyConverges, ApplyWriteConverges DEF Reconciliation
<1>4. CASE Crash
  BY <1>4, DaemonConverges
<1>5. CASE LeaseExpires
  <2>1. RunInvariant'
    BY NextPreserves DEF Convergence
  <2>2. QED
    BY <1>5, <2>1, QuietConverges DEF LeaseExpires, env, world, store
<1>6. CASE UNCHANGED vars
  <2>1. RunInvariant'
    BY NextPreserves DEF Convergence
  <2>2. QED
    BY <1>6, <2>1, QuietConverges DEF vars
<1>7. QED
  BY <1>1, <1>2, <1>3, <1>4, <1>5, <1>6 DEF Next

\* The second layer holds of every behaviour, damaged stores and lost markers
\* included: what a restart leaves to do is always written down somewhere.
THEOREM ConvergenceHolds == Spec => []Convergence
BY InitConverges, NextConverges, PTL DEF Spec

\* Who writes a terminal: a task the one it has decided on, a reservation that
\* fails and the reconciliation one that is not completed; the rest is damage.
LEMMA TerminalWriters ==
  ASSUME TypeOK, Next, NEW r \in Runs, result'[r] # result[r]
  PROVE  \/ ctx[r].step = "result" /\ result'[r] = ctx[r].verdict.status
         \/ ctx[r].step = "reserved" /\ result'[r] = "failed"
         \/ /\ ApplyWrite /\ daemon.run = r /\ result[r] = "absent"
            /\ result'[r] = Head(daemon.left) /\ result'[r] \in {"unknown", "failed"}
         \/ result'[r] = "corrupt" /\ damage < MaxDamage
<1>t. result \in [Runs -> {"absent", "corrupt"} \cup Statuses]
  BY DEF TypeOK
<1>1. ASSUME NEW q \in Runs, Reserve(q) \/ Submission(q)
      PROVE  ctx[r].step = "reserved" /\ result'[r] = "failed"
  BY <1>t, <1>1 DEF Reserve, Submission, Accept, SubmissionLost, RegistrationFails, store, At
<1>2. ASSUME NEW q \in Runs, Startup(q) \/ Switch(q) PROVE FALSE
  BY <1>2 DEF Startup, WriteSpec, WriteLaunch, BindCreate, BindReuse, Spawn, CreateRecord,
              LeaseCreated, LoadSession, PreDispatchFails, Switch, AnnounceSwitch, SendSet,
              SetProven, SetFails, RollbackProven, RollbackMarked, RollbackFails,
              SwitchInterrupted, SwitchMarked, CommitEffective, store
<1>3. ASSUME NEW q \in Runs, Turn(q) PROVE FALSE
  BY <1>3, Zenon DEF Turn, MarkDispatch, MarkDispatchFails, PromptEvidenceFails, SendPrompt,
              PromptAccepted, TurnEnds, TurnTimesOut, TurnLost, TurnInterrupted, store
<1>4. ASSUME NEW q \in Runs, Finalization(q)
      PROVE  ctx[r].step = "result" /\ result'[r] = ctx[r].verdict.status
  <2>1. CASE PublishResult(q) \/ PublishFails(q)
    BY <1>t, <2>1 DEF PublishResult, PublishFails, At
  <2>2. CASE ~(PublishResult(q) \/ PublishFails(q))
    BY <1>4, <2>2, Zenon DEF Finalization, Conclude, FinalizationFails, EmergencyCleanup, WriteFence,
              MarkQuarantined, ClearFence, QuarantineFails, ReleaseLease, store
  <2>3. QED
    BY <2>1, <2>2
<1>5. ASSUME NEW q \in Runs, ContainInvalidTerminal(q) \/ MarkerUnreadable(q) PROVE FALSE
  BY <1>5 DEF ContainInvalidTerminal, MarkerUnreadable, store
<1>6. ASSUME NEW q \in Runs, Damage(q) PROVE result'[r] = "corrupt" /\ damage < MaxDamage
  BY <1>t, <1>6 DEF Damage
<1>7. ASSUME Reconciliation
      PROVE  /\ ApplyWrite /\ daemon.run = r /\ result[r] = "absent"
             /\ result'[r] = Head(daemon.left) /\ result'[r] \in {"unknown", "failed"}
  <2>1. ApplyWrite
    BY <1>7, Zenon DEF Reconciliation, Start, ClassifyRun, Listen, store
  <2>2. QED
    BY <1>t, <2>1 DEF ApplyWrite
<1>8. Crash \/ LeaseExpires => FALSE
  BY DEF Crash, LeaseExpires, store
<1>9. QED
  BY <1>1, <1>2, <1>3, <1>4, <1>5, <1>6, <1>7, <1>8 DEF Next, RunStep

\* Whatever failed, crashed or was damaged before, unknown is published only
\* behind the quarantine; only an emergency cleanup that met a failed quarantine
\* does not wait for it.
THEOREM UnknownIsQuarantinedHolds == Spec => UnknownIsQuarantined
<1> DEFINE Behind == \A r \in Runs :
                       /\ result[r] # "unknown" /\ result'[r] = "unknown"
                       /\ ctx[r].emergency => "fence" \notin lost
                       => session.quarantined
<1>1. RunInvariant /\ [Next]_vars => [Behind]_vars
  <2> SUFFICES ASSUME RunInvariant, Next, NEW r \in Runs,
                      result[r] # "unknown", result'[r] = "unknown",
                      ctx[r].emergency => "fence" \notin lost
               PROVE  session.quarantined
    OBVIOUS
  <2>1. CASE ctx[r].step = "result" /\ result'[r] = ctx[r].verdict.status
    BY <2>1 DEF RunInvariant, OneTask, Task, Concluding, Concluded
  <2>2. CASE ApplyWrite /\ Head(daemon.left) = "unknown"
    <3>1. daemon.left \in Seq(Writes) /\ daemon.left # <<>>
      BY <2>2 DEF ApplyWrite, RunInvariant, TypeOK
    <3>2. 1 \in 1..Len(daemon.left) /\ daemon.left[1] = "unknown" /\ 1..(1 - 1) = {}
      BY <2>2, <3>1
    <3>3. QED
      BY <3>2 DEF RunInvariant, UnknownFollowsMark
  <2>3. QED
    BY <2>1, <2>2, TerminalWriters DEF RunInvariant
<1>2. QED
  BY <1>1, RunInvariantHolds, PTL DEF Spec, UnknownIsQuarantined

\* A Run is reported completed only with its agent's own terminal, complete
\* evidence and no violation, whatever writes fail and whatever is damaged.
THEOREM CompletedIsEarnedHolds == Spec => CompletedIsEarned
<1> DEFINE Merit == \A r \in Runs : result[r] # "completed" /\ result'[r] = "completed" =>
                      /\ agent[r].turn = "answered"
                      /\ ~ctx[r].seen.violation /\ ~ctx[r].seen.pipeline
<1>1. Convergence /\ [Next]_vars => [Merit]_vars
  <2> SUFFICES ASSUME Convergence, Next, NEW r \in Runs, result[r] # "completed",
                      result'[r] = "completed"
               PROVE  /\ agent[r].turn = "answered"
                      /\ ~ctx[r].seen.violation /\ ~ctx[r].seen.pipeline
    OBVIOUS
  <2>1. ctx[r].verdict.status = "completed"
    BY TerminalWriters DEF Convergence, RunInvariant
  <2>2. QED
    BY <2>1 DEF Convergence, Earned
<1>2. QED
  BY <1>1, ConvergenceHolds, PTL DEF Spec, CompletedIsEarned

\* Damage and given-up writes are not undone.
LEMMA OnlyMore ==
  ASSUME TypeOK, [Next]_vars
  PROVE  lost \subseteq lost' /\ (damage' = 0 => damage = 0)
<1>1. CASE \E r \in Runs : Reserve(r) \/ RunStep(r)
  BY <1>1, StepsApart DEF Apart
<1>2. CASE \E r \in Runs : Damage(r) \/ MarkerUnreadable(r)
  BY <1>2, BoundsAssumption DEF Damage, MarkerUnreadable, TypeOK
<1>3. CASE \/ \E r \in Runs : ContainInvalidTerminal(r) \/ ClassifyRun(r)
           \/ Start \/ ApplyWrite \/ Listen \/ Crash \/ LeaseExpires \/ UNCHANGED vars
  BY <1>3 DEF ContainInvalidTerminal, ClassifyRun, Start, ApplyWrite, Listen, Crash, LeaseExpires,
              env, world, vars
<1>4. QED
  BY <1>1, <1>2, <1>3 DEF Next, Reconciliation

\* The daemon listens only when the reconciliation has nothing left.
LEMMA ListensWhenDone ==
  ASSUME Convergence, Next, daemon.phase = "reconciling", daemon'.phase = "listening"
  PROVE  daemon.left = <<>> /\ daemon.todo = {}
<1>1. \A q \in Runs : ctx[q].step = "idle"
  BY NoTask DEF Convergence, RunInvariant, OneTask, Idle
<1>2. ASSUME NEW q \in Runs, Reserve(q) \/ RunStep(q) PROVE FALSE
  BY <1>2, StepsApart DEF Convergence, RunInvariant, Apart
<1>3. ASSUME NEW q \in Runs, ContainInvalidTerminal(q) \/ Damage(q) \/ MarkerUnreadable(q)
      PROVE  FALSE
  BY <1>3 DEF ContainInvalidTerminal, Damage, MarkerUnreadable, env, world
<1>4. ~Crash /\ ~LeaseExpires
  BY DEF Crash, LeaseExpires, Down, Listening, env, world
<1>5. Reconciliation
  BY <1>2, <1>3, <1>4 DEF Next
<1>6. ~Start /\ ~ApplyWrite /\ \A q \in Runs : ~ClassifyRun(q)
  BY Zenon DEF Start, ApplyWrite, ClassifyRun, Down, Listening, Convergence, RunInvariant, TypeOK
<1>7. QED
  BY <1>5, <1>6 DEF Reconciliation, Listen

\* When the daemon listens again over an undamaged store, every Run has its
\* terminal, the Session no fence, and a second reconciliation nothing to write:
\* as long as no configuration marker was lost, whatever else failed before and
\* however often it crashed on the way.
THEOREM RestartConvergesHolds == Spec => RestartConverges
<1> DEFINE Converged == /\ daemon.phase = "reconciling" /\ daemon'.phase = "listening"
                        /\ damage = 0 /\ "configMarker" \notin lost
                        => \A r \in made : Settled(r) /\ RowWrites(r) = <<>> /\ ~session.fence
<1>1. Convergence /\ [Next]_vars => [Converged]_vars
  <2> SUFFICES ASSUME Convergence, Next, damage = 0, "configMarker" \notin lost,
                      daemon.phase = "reconciling", daemon'.phase = "listening", NEW r \in made
               PROVE  Settled(r) /\ RowWrites(r) = <<>> /\ ~session.fence
    OBVIOUS
  <2>1. daemon.left = <<>> /\ daemon.todo = {}
    BY ListensWhenDone
  <2>2. Done(r) /\ r \in Runs
    <3>1. r \in made \ daemon.todo /\ r \in Runs
      BY <2>1 DEF Convergence, RunInvariant, TypeOK
    <3>2. Progress /\ ~Doing(r)
      BY <2>1, NoWrites DEF Convergence, Doing
    <3>3. QED
      BY <3>1, <3>2 DEF Progress
  <2>3. ~session.fence
    BY <2>1, NoWrites DEF Convergence, FenceIsBlamed, Blamed
  <2>4. RowWrites(r) = <<>>
    <3>1. CASE result[r] = "unknown"
      <4>1. Row(r) = 2
        BY <2>2, <3>1 DEF Row, SelectRow, TerminalClass, Done
      <4>2. QED
        BY <2>2, <2>3, <3>1, <4>1 DEF RowWrites, QuarantineWrites, Done
    <3>2. CASE result[r] # "unknown"
      <4>1. Row(r) = 1
        BY <2>2, <3>2 DEF Row, SelectRow, TerminalClass, Done, Statuses
      <4>2. QED
        BY <4>1 DEF RowWrites
    <3>3. QED
      BY <3>1, <3>2
  <2>5. QED
    BY <2>2, <2>3, <2>4 DEF Settled, Done
<1>2. QED
  BY <1>1, ConvergenceHolds, PTL DEF Spec, RestartConverges

-----------------------------------------------------------------------------
(* What a switch cut off by a crash leaves behind *)

\* The Spec of a Run that got as far as its agent is written, and so is the
\* record of the Session whose configuration it moved: both stay, in whatever
\* shape.
Told(c, s, d, a) ==
  /\ c.step \in {"launch", "bind", "spawn", "open"} \cup Recorded => d["spec"] # "absent"
  /\ a.config = "moved" => s.record /\ d["spec"] # "absent"

\* The reconciliation reports a Run whose switch nothing proved only behind the
\* quarantine.
MovedIsMarked ==
  \A r \in Runs : /\ daemon.run = r /\ Has(daemon.left, "failed")
                  /\ agent[r].config = "moved" /\ SwitchUnproven(r)
                  => Quarantining

Telling ==
  /\ Convergence /\ MovedIsMarked
  /\ \A r \in Runs : Told(ctx[r], session, docs[r], agent[r])

\* A step of a task: where it starts, and where it is once it has published.
LEMMA TaskMoves ==
  ASSUME TypeOK, NEW r \in Runs, RunStep(r)
  PROVE  /\ ctx[r].step # "idle"
         /\ (result' = result /\ ctx[r].step # "release") \/ ctx'[r].step \in {"idle", "release"}
<1> USE DEF At, Go, End, store
<1>t. /\ ctx \in [Runs -> Context] /\ Idle.step = "idle"
  BY DEF TypeOK, Idle
<1>1. CASE Submission(r)
  BY <1>1, <1>t DEF Submission, Accept, SubmissionLost, RegistrationFails
<1>2. CASE Startup(r)
  BY <1>2, <1>t DEF Startup, WriteSpec, WriteLaunch, BindCreate, BindReuse, Spawn, CreateRecord,
                    LeaseCreated, LoadSession, PreDispatchFails
<1>3. CASE Switch(r)
  BY <1>3 DEF Switch, AnnounceSwitch, SendSet, SetProven, SetFails, RollbackProven,
              RollbackMarked, RollbackFails, SwitchInterrupted, SwitchMarked, CommitEffective
<1>4. CASE Turn(r)
  BY <1>4, Zenon DEF Turn, MarkDispatch, MarkDispatchFails, PromptEvidenceFails, SendPrompt,
              PromptAccepted, TurnEnds, TurnTimesOut, TurnLost, TurnInterrupted
<1>5. CASE Finalization(r)
  <2>1. CASE PublishResult(r) \/ PublishFails(r) \/ ReleaseLease(r)
    BY <2>1, <1>t DEF PublishResult, PublishFails, ReleaseLease, Context
  <2>2. CASE ~(PublishResult(r) \/ PublishFails(r) \/ ReleaseLease(r))
    BY <1>5, <2>2, Zenon DEF Finalization, Conclude, FinalizationFails, EmergencyCleanup, WriteFence,
              MarkQuarantined, ClearFence, QuarantineFails
  <2>3. QED
    BY <2>1, <2>2
<1>6. QED
  BY <1>1, <1>2, <1>3, <1>4, <1>5 DEF RunStep

\* A step of a Run keeps what is told of it.
LEMMA RunStepsTell ==
  ASSUME Telling, NEW r \in Runs, Reserve(r) \/ RunStep(r)
  PROVE  Told(ctx'[r], session', docs'[r], agent'[r])
<1> USE DEF At, Go, End, store, env, world
<1>t. /\ ctx \in [Runs -> Context] /\ ctx[r] \in Context
      /\ agent \in [Runs -> AgentType] /\ agent[r] \in AgentType
      /\ docs \in [Runs -> [DocNames -> DocKinds]] /\ docs[r] \in [DocNames -> DocKinds]
      /\ Task(ctx[r], session, markers[r], agent[r], intent[r], lost)
      /\ Told(ctx[r], session, docs[r], agent[r])
  BY AtWork DEF Telling
<1>g. Grows(session, session')
  BY StepsApart DEF Telling, Convergence, RunInvariant, Apart
<1>i. Idle.step = "idle" /\ "idle" \notin {"launch", "bind", "spawn", "open"} \cup Recorded
  BY DEF Idle, Recorded
<1> DEFINE Late == {"launch", "bind", "spawn", "open"} \cup Recorded
<1>s. \A x \in {"reserved", "admit", "finalize", "emergency"} \cup Concluded : x \notin Late
  BY DEF Recorded, Concluded
<1>1. CASE Reserve(r) \/ Submission(r)
  <2>1. /\ agent'[r].config = agent[r].config
        /\ docs'[r]["spec"] = docs[r]["spec"] \/ agent'[r].config # "moved"
        /\ ctx'[r].step \in {"reserved", "admit", "idle"}
    BY <1>1, <1>t, <1>i DEF Reserve, Submission, Accept, SubmissionLost, RegistrationFails, Context,
         DocNames
  <2>2. QED
    BY <1>t, <1>g, <1>i, <1>s, <2>1 DEF Told, Grows
<1>2. CASE WriteSpec(r) \/ WriteLaunch(r)
  BY <1>2, <1>t, <1>g DEF WriteSpec, WriteLaunch, Told, Grows, DocNames, Context
<1>3. CASE Startup(r) /\ ~WriteSpec(r) /\ ~WriteLaunch(r)
  <2>1. /\ agent' = agent /\ docs' = docs
        /\ ctx'[r].step \in Late => ctx[r].step \in Late
    BY <1>3, <1>t, <1>s DEF Startup, BindCreate, BindReuse, Spawn, CreateRecord, LeaseCreated,
         LoadSession, PreDispatchFails, Context, Recorded
  <2>2. QED
    BY <1>t, <1>g, <2>1 DEF Told, Grows
<1>4. CASE Switch(r)
  <2>1. /\ ctx[r].step \in Recorded /\ docs' = docs
        /\ ctx'[r].step \in Late \cup {"finalize"}
    BY <1>4, <1>t DEF Switch, AnnounceSwitch, SendSet, SetProven, SetFails, RollbackProven,
         RollbackMarked, RollbackFails, SwitchInterrupted, SwitchMarked, CommitEffective, Context,
         Recorded
  <2>2. session.record
    BY <1>t, <2>1 DEF Task, Binding
  <2>3. QED
    BY <1>t, <1>g, <1>s, <2>1, <2>2 DEF Told, Grows
<1>5. CASE Turn(r)
  <2>1. ctx[r].step \in Recorded /\ docs' = docs
    BY <1>5, Zenon DEF Turn, MarkDispatch, MarkDispatchFails, PromptEvidenceFails, SendPrompt,
         PromptAccepted, TurnEnds, TurnTimesOut, TurnLost, TurnInterrupted, Recorded
  <2>2. session.record
    BY <1>t, <2>1 DEF Task, Binding
  <2>3. QED
    BY <1>t, <1>g, <2>1, <2>2 DEF Told, Grows
<1>6. CASE Finalization(r)
  <2>1. docs' = docs /\ agent' = agent
    BY <1>6, Zenon DEF Finalization, Conclude, FinalizationFails, EmergencyCleanup, WriteFence,
         MarkQuarantined, ClearFence, QuarantineFails, PublishResult, PublishFails, ReleaseLease
  <2>2. ctx'[r].step \notin Late
    <3>1. CASE Conclude(r)
      <4>1. PICK dropped \in BOOLEAN :
              LET seen == [ctx[r].seen EXCEPT !.pipeline = @ \/ dropped] IN
              ctx' = [ctx EXCEPT
                        ![r].child = FALSE, ![r].seen = seen,
                        ![r].verdict = [status |-> RunStatus(seen), after |-> "result"],
                        ![r].step = IF Quarantines(seen) THEN "fence" ELSE "result"]
        BY <3>1, Zenon DEF Conclude
      <4>2. ctx'[r].step \in Concluded
        BY <1>t, <4>1 DEF Context, Concluded
      <4>3. QED
        BY <1>s, <4>2
    <3>2. CASE EmergencyCleanup(r)
      <4>1. ctx'[r].step \in Concluded \cup {"idle"}
        BY <3>2, <1>t, <1>i DEF EmergencyCleanup, Context, Concluded
      <4>2. QED
        BY <1>i, <1>s, <4>1
    <3>3. CASE Finalization(r) /\ ~Conclude(r) /\ ~EmergencyCleanup(r)
      <4>1. ctx'[r].step \in Concluded \cup {"idle", "emergency"}
        BY <3>3, <1>t, <1>i DEF Finalization, FinalizationFails, WriteFence, MarkQuarantined,
             ClearFence, QuarantineFails, Resume, PublishResult, PublishFails, ReleaseLease, Context,
             Concluded
      <4>2. QED
        BY <1>i, <1>s, <4>1
    <3>4. QED
      BY <1>6, <3>1, <3>2, <3>3
  <2>3. QED
    BY <1>t, <1>g, <2>1, <2>2 DEF Told, Grows
<1>7. QED
  BY <1>1, <1>2, <1>3, <1>4, <1>5, <1>6 DEF RunStep

\* The reconciliation and the environment keep what is told.
LEMMA OthersTell ==
  ASSUME Telling, [Next]_vars, ~\E r \in Runs : Reserve(r) \/ RunStep(r)
  PROVE  \A r \in Runs : Told(ctx'[r], session', docs'[r], agent'[r])
<1>t. /\ docs \in [Runs -> [DocNames -> DocKinds]] /\ session \in SessionType
      /\ \A r \in Runs : Told(ctx[r], session, docs[r], agent[r])
  BY DEF Telling, Convergence, RunInvariant, TypeOK, SessionType
<1>i. Idle.step = "idle" /\ "idle" \notin {"launch", "bind", "spawn", "open"} \cup Recorded
  BY DEF Idle, Recorded
<1>1. agent' = agent /\ session'.record = session.record
  BY <1>t DEF Next, ContainInvalidTerminal, Damage, MarkerUnreadable, Reconciliation, Start,
       ClassifyRun, ApplyWrite, Listen, Crash, LeaseExpires, env, store, vars, SessionType
<1>2. \A r \in Runs : ctx'[r] \in {ctx[r], Idle}
  BY DEF Next, ContainInvalidTerminal, Damage, MarkerUnreadable, Reconciliation, Start,
       ClassifyRun, ApplyWrite, Listen, Crash, LeaseExpires, env, store, vars
<1>3. \A r \in Runs : docs'[r]["spec"] = "absent" => docs[r]["spec"] = "absent"
  <2>1. ASSUME NEW q \in Runs, Damage(q)
        PROVE  \A r \in Runs : docs'[r]["spec"] = "absent" => docs[r]["spec"] = "absent"
    BY <1>t, <2>1 DEF Damage, DocNames
  <2>2. (~\E q \in Runs : Damage(q)) => docs' = docs
    BY DEF Next, ContainInvalidTerminal, MarkerUnreadable, Reconciliation, Start,
         ClassifyRun, ApplyWrite, Listen, Crash, LeaseExpires, env, store, vars
  <2>3. QED
    BY <2>1, <2>2
<1>4. QED
  BY <1>t, <1>i, <1>1, <1>2, <1>3 DEF Told

LEMMA NextMarks ==
  ASSUME Telling, Convergence', [Next]_vars
  PROVE  MovedIsMarked'
<1> SUFFICES ASSUME NEW q \in Runs, daemon'.run = q, Has(daemon'.left, "failed"),
                    agent'[q].config = "moved", SwitchUnproven(q)'
             PROVE  Quarantining'
  BY DEF MovedIsMarked
<1>t. /\ Convergence /\ RunInvariant /\ TypeOK /\ MovedIsMarked
      /\ daemon.left \in Seq(Writes) /\ session \in SessionType
      /\ daemon \in [phase : {"down", "reconciling", "listening", "refused"},
                     todo : SUBSET Runs, run : Runs \cup {NoRun}, left : Seq(Writes)]
      /\ markers \in [Runs -> SUBSET Markers]
      /\ daemon.todo \subseteq Runs /\ made \subseteq Runs
      /\ daemon.left # <<>> => daemon.run \in made /\ daemon.run \notin daemon.todo
      /\ daemon.phase # "reconciling" => daemon.left = <<>>
      /\ daemon'.phase # "reconciling" => daemon'.left = <<>>
  BY DEF Telling, Convergence, RunInvariant, TypeOK, OneTask, InOrder, SessionType
<1>n. daemon'.left # <<>>
  BY NoWrites
<1>1. CASE \E r \in Runs : Reserve(r) \/ RunStep(r)
  <2>1. PICK r \in Runs : Reserve(r) \/ RunStep(r)
    BY <1>1
  <2>2. daemon' = daemon /\ daemon.phase = "listening"
    <3>1. daemon' = daemon
      BY <1>t, <2>1, StepsApart DEF Apart
    <3>2. daemon.phase = "listening"
      BY <1>t, <2>1, TaskMoves DEF Reserve, RunInvariant, OneTask
    <3>3. QED
      BY <3>1, <3>2
  <2>3. QED
    BY <1>t, <1>n, <2>2
<1>2. ASSUME NEW r \in Runs, ClassifyRun(r) PROVE Quarantining'
  <2>1. /\ daemon'.left = RowWrites(r) /\ daemon'.run = r
        /\ UNCHANGED <<docs, markers, result, session, ctx, agent>>
    BY <1>2, <1>t DEF ClassifyRun, store
  <2>2. PICK p \in Quarantine, s \in Terminal :
          /\ RowWrites(r) = p \o s
          /\ s = <<"failed">> =>
               /\ docs[r]["spec"] # "corrupt"
               /\ SwitchUnproven(r) /\ Actionable(r) => p = QuarantineWrites
    <3>1. PICK p \in Quarantine, s \in Terminal :
            /\ RowWrites(r) = p \o s
            /\ p # <<>> => Condemned(r) \/ result[r] = "corrupt"
            /\ Condemned(r) /\ s # <<"refuse">> => p = QuarantineWrites
            /\ s = <<"failed">> =>
                 /\ result[r] = "absent" /\ docs[r]["spec"] # "corrupt"
                 /\ SwitchUnproven(r) /\ Actionable(r) => p = QuarantineWrites
            /\ s = <<"unknown">> => result[r] = "absent" /\ Condemned(r)
            /\ s = <<>> => /\ result[r] \in Statuses
                           /\ IF result[r] = "unknown" THEN Condemned(r) ELSE p = <<>>
      BY <1>t, RowLemma
    <3>2. QED
      BY <3>1
  <2>3. s = <<"failed">> /\ (Has(daemon'.left, "mark") <=> p = <<"fence", "mark", "clear">>)
    BY <2>1, <2>2, ListLemma
  <2>4. q = r /\ session.record /\ docs[r]["spec"] # "absent" /\ SwitchUnproven(r)
    BY <2>1 DEF Telling, Told, SwitchUnproven
  <2>5. docs[r]["spec"] = "valid"
    BY <1>t, <2>2, <2>3, <2>4 DEF TypeOK, DocKinds, DocNames
  <2>6. p = QuarantineWrites
    BY <2>2, <2>3, <2>4, <2>5 DEF Actionable
  <2>7. session.quarantined \/ p = <<"fence", "mark", "clear">>
    BY <2>6 DEF QuarantineWrites
  <2>8. QED
    BY <2>1, <2>3, <2>7 DEF Quarantining
<1>3. CASE ApplyWrite
  <2>1. PICK write, rest : /\ write = Head(daemon.left) /\ rest = Tail(daemon.left)
                           /\ daemon.left # <<>> /\ UNCHANGED <<markers, agent>>
    BY <1>3 DEF ApplyWrite
  <2>2. \A x : Has(daemon.left, x) <=> write = x \/ Has(rest, x)
    BY <1>t, <2>1, TailLemma DEF Convergence, InOrder
  <2>3. write # "refuse" /\ daemon' = [daemon EXCEPT !.left = rest]
    BY <1>3, <1>n, <2>1 DEF ApplyWrite, Down, Listening
  <2>4. daemon'.left = rest /\ daemon'.run = daemon.run
    BY <1>t, <2>3
  <2>5. session'.quarantined = (session.quarantined \/ write = "mark")
    BY <1>3, <1>t, <2>1 DEF ApplyWrite, SessionType
  <2>6. Quarantining
    BY <1>t, <2>1, <2>2, <2>4 DEF MovedIsMarked, SwitchUnproven
  <2>7. QED
    BY <2>2, <2>4, <2>5, <2>6 DEF Quarantining
<1>4. ASSUME NEW r \in Runs, MarkerUnreadable(r) PROVE Quarantining'
  <2>1. /\ r \in daemon.todo /\ UNCHANGED <<daemon, agent, session>>
        /\ \A s \in Runs \ {r} : markers'[s] = markers[s]
    BY <1>4, <1>t DEF MarkerUnreadable
  <2>2. q \in Runs \ {r}
    BY <1>t, <1>n, <2>1
  <2>3. QED
    BY <1>t, <2>1, <2>2 DEF MovedIsMarked, SwitchUnproven, Quarantining
<1>5. ASSUME NEW r \in Runs, ContainInvalidTerminal(r) PROVE FALSE
  BY <1>5, <1>t, <1>n DEF ContainInvalidTerminal, env, world
<1>6. ASSUME NEW r \in Runs, Damage(r) PROVE Quarantining'
  <2>1. UNCHANGED <<daemon, agent, session, markers>>
    BY <1>6 DEF Damage
  <2>2. QED
    BY <1>t, <2>1 DEF MovedIsMarked, SwitchUnproven, Quarantining
<1>7. ASSUME Start \/ Listen \/ Crash PROVE FALSE
  <2>1. CASE Start
    BY <2>1, <1>t, <1>n DEF Start
  <2>2. CASE Listen \/ Crash
    <3>1. daemon' \in {[phase |-> ph, todo |-> {}, run |-> NoRun, left |-> <<>>] :
                       ph \in {"listening", "down"}}
      BY <2>2 DEF Listen, Crash, Down, Listening
    <3>2. QED
      BY <1>n, <3>1
  <2>3. QED
    BY <1>7, <2>1, <2>2
<1>8. CASE LeaseExpires \/ UNCHANGED vars
  <2>1. UNCHANGED <<daemon, agent, session, markers>>
    BY <1>8 DEF LeaseExpires, env, world, store, vars
  <2>2. QED
    BY <1>t, <2>1 DEF MovedIsMarked, SwitchUnproven, Quarantining
<1>9. QED
  BY <1>1, <1>2, <1>3, <1>4, <1>5, <1>6, <1>7, <1>8 DEF Next, Reconciliation

\* What a switch leaves behind is there in every behaviour, whatever failed and
\* whatever was damaged.
THEOREM TellingHolds == Spec => []Telling
<1>1. Init => Telling
  <2> SUFFICES ASSUME Init PROVE Telling
    OBVIOUS
  <2>1. daemon.left = <<>>
    BY DEF Init, Listening
  <2>2. \A r \in Runs : ctx[r].step = "idle" /\ agent[r].config = "untouched"
    BY DEF Init, Idle
  <2>3. \A r \in Runs : Told(ctx[r], session, docs[r], agent[r])
    BY <2>2 DEF Told, Recorded
  <2>4. QED
    BY <2>1, <2>3, InitConverges, NoWrites DEF Telling, MovedIsMarked
<1>2. Telling /\ [Next]_vars => Telling'
  <2> SUFFICES ASSUME Telling, [Next]_vars PROVE Telling'
    OBVIOUS
  <2>1. Convergence'
    BY NextConverges DEF Telling
  <2>2. MovedIsMarked'
    BY <2>1, NextMarks
  <2>3. ASSUME NEW r \in Runs PROVE Told(ctx'[r], session', docs'[r], agent'[r])
    <3>1. CASE \E q \in Runs : Reserve(q) \/ RunStep(q)
      <4>1. PICK q \in Runs : Reserve(q) \/ RunStep(q)
        BY <3>1
      <4>2. CASE q = r
        BY <4>1, <4>2, RunStepsTell
      <4>3. CASE q # r
        <5>1. /\ ctx'[r] = ctx[r] /\ docs'[r] = docs[r] /\ agent'[r] = agent[r]
              /\ Grows(session, session')
          BY <4>1, <4>3, StepsApart DEF Telling, Convergence, RunInvariant, Apart
        <5>2. QED
          BY <5>1 DEF Telling, Told, Grows
      <4>4. QED
        BY <4>2, <4>3
    <3>2. QED
      BY <3>1, OthersTell
  <2>4. QED
    BY <2>1, <2>2, <2>3 DEF Telling
<1>3. QED
  BY <1>1, <1>2, PTL DEF Spec

\* Reconciliation reports a Run cut off inside its configuration switch, whose
\* directory tells of the switch and of no proof, only over a blocked Session,
\* whatever write failed and whatever was damaged or unreadable.
THEOREM ReconciledSwitchIsBlockedHolds == Spec => ReconciledSwitchIsBlocked
<1> DEFINE Reported == \A r \in Runs :
                         /\ daemon.phase = "reconciling" /\ ~Settled(r) /\ Settled(r)'
                         /\ agent[r].config = "moved" /\ SwitchUnproven(r)
                         => Blocked
<1>1. Telling /\ [Next]_vars => [Reported]_vars
  <2> SUFFICES ASSUME Telling, Next, NEW r \in Runs, daemon.phase = "reconciling",
                      ~Settled(r), Settled(r)', agent[r].config = "moved", SwitchUnproven(r)
               PROVE  session.quarantined
    BY DEF Blocked
  <2>1. Convergence /\ RunInvariant /\ TypeOK
    BY DEF Telling, Convergence, RunInvariant
  <2>2. ctx[r].step = "idle"
    BY <2>1, NoTask DEF RunInvariant, OneTask, Idle
  <2>3. /\ ApplyWrite /\ daemon.run = r /\ Head(daemon.left) \in {"unknown", "failed"}
    <3>1. result'[r] # result[r] /\ result'[r] # "corrupt"
      BY DEF Settled, Statuses
    <3>2. QED
      BY <2>1, <2>2, <3>1, TerminalWriters
  <2>4. /\ daemon.left \in Seq(Writes) /\ daemon.left # <<>> /\ Ordered(daemon.left)
    BY <2>1, <2>3 DEF ApplyWrite, Convergence, TypeOK, InOrder
  <2>5. /\ \A x : Has(daemon.left, x) <=> Head(daemon.left) = x
        /\ Head(daemon.left) \notin {"mark"}
    BY <2>3, <2>4, TailLemma, NoWrites
  <2>6. CASE Head(daemon.left) = "failed"
    BY <2>3, <2>5, <2>6 DEF Telling, MovedIsMarked, Quarantining
  <2>7. CASE Head(daemon.left) = "unknown"
    <3>1. 1 \in 1..Len(daemon.left) /\ 1..(1 - 1) = {} /\ Head(daemon.left) = daemon.left[1]
      BY <2>4
    <3>2. daemon.left[1] = "unknown" =>
            session.quarantined \/ \E j \in 1..(1 - 1) : daemon.left[j] = "mark"
      BY <2>1, <3>1 DEF RunInvariant, UnknownFollowsMark
    <3>3. QED
      BY <2>7, <3>1, <3>2
  <2>8. QED
    BY <2>3, <2>6, <2>7
<1>2. QED
  BY <1>1, TellingHolds, PTL DEF Spec, ReconciledSwitchIsBlocked

-----------------------------------------------------------------------------
(* No accepted Run is forgotten *)

\* A task ends only behind its terminal, or because a write failed; only a task
\* that met a corrupt terminal ends without.
Owned(r) ==
  /\ ctx[r].verdict.after = "result"
  /\ r \notin made \/ ctx[r].step = "reserved" => docs[r]["submission"] # "valid"
  /\ daemon.phase = "listening" /\ lost \cap {"submission", "fence", "publish"} = {} =>
       (docs[r]["submission"] = "valid" => Settled(r) \/ ctx[r].step # "idle")

Owning == Convergence /\ (damage = 0 => \A r \in Runs : Owned(r))

LEMMA RunStepsOwn ==
  ASSUME Owning, damage = 0, NEW r \in Runs, Reserve(r) \/ RunStep(r)
  PROVE  Owned(r)'
<1> USE DEF At, Go, End, store, env, world
<1>t. /\ ctx \in [Runs -> Context] /\ ctx[r] \in Context /\ ctx[r].verdict \in Verdict
      /\ docs \in [Runs -> [DocNames -> DocKinds]]
      /\ result \in [Runs -> {"absent", "corrupt"} \cup Statuses]
      /\ Evidence(r) /\ Owned(r) /\ (ctx[r].step # "idle" => r \in made)
      /\ Task(ctx[r], session, markers[r], agent[r], intent[r], lost)
  BY AtWork DEF Owning
<1>i. Idle.step = "idle" /\ Idle.verdict.after = "result"
  BY DEF Idle
<1>m. r \in made'
  <2>1. made \subseteq made'
    BY StepsApart DEF Owning, Convergence, RunInvariant, Apart
  <2>2. CASE Reserve(r)
    BY <2>2 DEF Reserve
  <2>3. CASE RunStep(r)
    BY <1>t, <2>1, <2>3, TaskMoves DEF Owning, Convergence, RunInvariant
  <2>4. QED
    BY <2>2, <2>3
<1>g. ASSUME ctx'[r].verdict.after = "result", ctx'[r].step \notin {"idle", "reserved"}
      PROVE  Owned(r)'
  BY <1>m, <1>g DEF Owned
<1>1. CASE Reserve(r)
  <2>1. /\ ctx'[r].step = "reserved" /\ ctx'[r].verdict = ctx[r].verdict /\ docs' = docs
        /\ r \notin made
    BY <1>1, <1>t DEF Reserve, Context
  <2>2. QED
    BY <1>t, <2>1 DEF Owned
<1>2. CASE Accept(r)
  BY <1>2, <1>t, <1>g DEF Accept, Context, Owned
<1>3. CASE SubmissionLost(r)
  <2>1. /\ ctx'[r] = Idle /\ ctx[r].step = "reserved"
        /\ docs' = docs \/ "submission" \in lost'
    BY <1>3, <1>t DEF SubmissionLost, GivesUp
  <2>2. QED
    BY <1>t, <1>i, <1>m, <2>1 DEF Owned
<1>4. CASE RegistrationFails(r)
  <2>1. /\ ctx'[r] = Idle /\ ctx[r].step = "reserved"
        /\ \/ result' = [result EXCEPT ![r] = IF @ = "absent" THEN "failed" ELSE @]
           \/ "publish" \in lost'
    BY <1>4, <1>t DEF RegistrationFails, GivesUp
  <2>2. result[r] = "absent"
    BY <1>t, <2>1 DEF Evidence
  <2>3. Settled(r)' \/ "publish" \in lost'
    BY <1>t, <2>1, <2>2 DEF Settled, Statuses
  <2>4. QED
    BY <1>i, <1>m, <2>1, <2>3 DEF Owned
<1>5. CASE Startup(r) \/ Switch(r)
  <2>1. ctx'[r].verdict = ctx[r].verdict /\ ctx'[r].step \notin {"idle", "reserved"}
    <3>1. CASE Startup(r)
      BY <3>1, <1>t DEF Startup, WriteSpec, WriteLaunch, BindCreate, BindReuse, Spawn, CreateRecord,
           LeaseCreated, LoadSession, PreDispatchFails, Context
    <3>2. CASE Switch(r)
      BY <3>2, <1>t DEF Switch, AnnounceSwitch, SendSet, SetProven, SetFails, RollbackProven,
           RollbackMarked, RollbackFails, SwitchInterrupted, SwitchMarked, CommitEffective, Context
    <3>3. QED
      BY <1>5, <3>1, <3>2
  <2>2. QED
    BY <1>t, <1>g, <2>1 DEF Owned
<1>6. CASE Turn(r)
  <2>1. ctx'[r].verdict = ctx[r].verdict /\ ctx'[r].step \notin {"idle", "reserved"}
    <3>1. CASE \/ MarkDispatch(r) \/ MarkDispatchFails(r) \/ PromptEvidenceFails(r) \/ SendPrompt(r)
               \/ PromptAccepted(r) \/ TurnTimesOut(r)
      BY <3>1, <1>t DEF MarkDispatch, MarkDispatchFails, PromptEvidenceFails, SendPrompt,
           PromptAccepted, TurnTimesOut, Context
    <3>2. CASE TurnEnds(r)
      <4>1. PICK stop \in StopReasons \ {"none"}, violated \in BOOLEAN :
              ctx' = [ctx EXCEPT ![r].step = "finalize", ![r].seen.stop = stop,
                                 ![r].seen.violation = violated]
        BY <3>2, Zenon DEF TurnEnds
      <4>2. QED
        BY <1>t, <4>1 DEF Context
    <3>3. CASE TurnLost(r)
      <4>1. PICK exited \in BOOLEAN :
              ctx' = [ctx EXCEPT ![r].step = "finalize", ![r].child = ~exited,
                                 ![r].seen.childExit = exited, ![r].seen.interrupted = ~exited]
        BY <3>3, Zenon DEF TurnLost
      <4>2. QED
        BY <1>t, <4>1 DEF Context
    <3>4. CASE TurnInterrupted(r)
      <4>1. PICK cancelled \in BOOLEAN :
              ctx' = [ctx EXCEPT ![r].step = "finalize", ![r].seen.cancelled = cancelled,
                                 ![r].seen.killed = cancelled, ![r].seen.interrupted = ~cancelled]
        BY <3>4, Zenon DEF TurnInterrupted
      <4>2. QED
        BY <1>t, <4>1 DEF Context
    <3>5. QED
      BY <1>6, <3>1, <3>2, <3>3, <3>4 DEF Turn
  <2>2. QED
    BY <1>t, <1>g, <2>1 DEF Owned
<1>7. CASE Conclude(r)
  <2>1. PICK dropped \in BOOLEAN :
          LET seen == [ctx[r].seen EXCEPT !.pipeline = @ \/ dropped] IN
          ctx' = [ctx EXCEPT
                    ![r].child = FALSE, ![r].seen = seen,
                    ![r].verdict = [status |-> RunStatus(seen), after |-> "result"],
                    ![r].step = IF Quarantines(seen) THEN "fence" ELSE "result"]
    BY <1>7, Zenon DEF Conclude
  <2>2. ctx'[r].verdict.after = "result" /\ ctx'[r].step \in {"fence", "result"}
    BY <1>t, <2>1 DEF Context
  <2>3. QED
    BY <1>g, <2>2
<1>8. CASE EmergencyCleanup(r)
  <2>1. result[r] # "corrupt"
    BY <1>t DEF Evidence
  <2>2. ctx'[r].verdict.after = ctx[r].verdict.after /\ ctx'[r].step \in {"fence", "result"}
    BY <1>8, <1>t, <2>1 DEF EmergencyCleanup, Context, Verdict
  <2>3. QED
    BY <1>t, <1>g, <2>2 DEF Owned
<1>9. CASE FinalizationFails(r) \/ WriteFence(r) \/ MarkQuarantined(r) \/ ClearFence(r)
  <2>1. ctx'[r].verdict = ctx[r].verdict /\ ctx'[r].step \notin {"idle", "reserved"}
    BY <1>9, <1>t DEF FinalizationFails, WriteFence, MarkQuarantined, ClearFence, Resume, Owned, Context
  <2>2. QED
    BY <1>t, <1>g, <2>1 DEF Owned
<1>10. CASE QuarantineFails(r)
  <2>1. ctx[r].verdict.after = "result"
    BY <1>t DEF Owned
  <2>2. "fence" \in lost'
    BY <1>10 DEF QuarantineFails, GivesUp
  <2>3. ctx' \in {[ctx EXCEPT ![r] = Idle], [ctx EXCEPT ![r] = [ctx[r] EXCEPT !.step = "result"]]}
    BY <1>10 DEF QuarantineFails, Resume
  <2>4. ctx'[r] \in {Idle, [ctx[r] EXCEPT !.step = "result"]}
    BY <1>t, <2>3
  <2>5. ctx'[r].step \in {"idle", "result"} /\ ctx'[r].verdict.after = "result"
    BY <1>t, <1>i, <2>1, <2>4 DEF Context
  <2>6. QED
    BY <1>m, <2>2, <2>5 DEF Owned
<1>11. CASE PublishResult(r)
  <2>1. result[r] = "absent"
    BY <1>11, <1>t DEF PublishResult, Evidence
  <2>2. ctx'[r].verdict = ctx[r].verdict /\ ctx'[r].step = "release"
    BY <1>11, <1>t, <2>1 DEF PublishResult, Context
  <2>3. QED
    BY <1>t, <1>g, <2>2 DEF Owned
<1>12. CASE PublishFails(r)
  <2>1. "publish" \in lost' /\ ctx'[r] = Idle
    BY <1>12, <1>t DEF PublishFails, GivesUp
  <2>2. QED
    BY <1>i, <1>m, <2>1 DEF Owned
<1>13. CASE ReleaseLease(r)
  <2>1. ctx[r].step = "release" /\ ctx'[r] = Idle /\ result' = result
    BY <1>13, <1>t DEF ReleaseLease
  <2>2. Settled(r)'
    BY <1>t, <2>1 DEF Evidence, Settled
  <2>3. QED
    BY <1>i, <1>m, <2>1, <2>2 DEF Owned
<1>14. QED
  BY <1>1, <1>2, <1>3, <1>4, <1>5, <1>6, <1>7, <1>8, <1>9, <1>10, <1>11, <1>12, <1>13
     DEF RunStep, Submission, Finalization

\* The reconciliation and the environment own what they leave behind.
LEMMA OthersOwn ==
  ASSUME Owning, [Next]_vars, damage = 0, damage' = 0, NEW r \in Runs,
         ~\E q \in Runs : Reserve(q) \/ RunStep(q)
  PROVE  Owned(r)'
<1>t. /\ Convergence /\ RunInvariant /\ TypeOK /\ Owned(r) /\ Progress /\ result[r] # "corrupt"
      /\ daemon \in [phase : {"down", "reconciling", "listening", "refused"},
                     todo : SUBSET Runs, run : Runs \cup {NoRun}, left : Seq(Writes)]
  BY DEF Owning, Convergence, RunInvariant, TypeOK, EvidenceHolds, Evidence
<1>i. Idle.step = "idle" /\ Idle.verdict.after = "result"
  BY DEF Idle
<1>1. CASE Start \/ ApplyWrite \/ \E q \in Runs : ClassifyRun(q)
  <2>1. daemon'.phase # "listening" /\ UNCHANGED <<made, docs, ctx>>
    BY <1>1, <1>t DEF Start, ApplyWrite, ClassifyRun, Down, Listening, store
  <2>2. QED
    BY <1>t, <2>1 DEF Owned
<1>2. CASE Listen
  <2>1. /\ daemon.phase = "reconciling" /\ daemon.left = <<>> /\ daemon.todo = {}
        /\ UNCHANGED <<made, docs, ctx, result>>
    BY <1>2 DEF Listen, store
  <2>2. r \in made => Settled(r)
    BY <1>t, <2>1, NoWrites DEF Progress, Doing, Done, Settled
  <2>3. QED
    BY <1>t, <2>1, <2>2 DEF Owned, Settled
<1>3. CASE Crash
  <2>1. daemon'.phase = "down" /\ UNCHANGED <<made, docs>> /\ ctx'[r] = Idle
    BY <1>3 DEF Crash, Down, Listening, store
  <2>2. QED
    BY <1>t, <1>i, <2>1 DEF Owned
<1>4. CASE LeaseExpires \/ UNCHANGED vars
  <2>1. UNCHANGED <<made, docs, ctx, result, daemon, lost>>
    BY <1>4 DEF LeaseExpires, env, world, store, vars
  <2>2. QED
    BY <1>t, <2>1 DEF Owned, Settled
<1>5. ASSUME NEW q \in Runs, ContainInvalidTerminal(q) \/ Damage(q) \/ MarkerUnreadable(q)
      PROVE  FALSE
  <2>1. result[q] # "corrupt"
    BY DEF Owning, Convergence, RunInvariant, EvidenceHolds, Evidence
  <2>2. QED
    BY <1>5, <2>1 DEF ContainInvalidTerminal, Damage, MarkerUnreadable
<1>6. QED
  BY <1>1, <1>2, <1>3, <1>4, <1>5 DEF Next, Reconciliation

\* A listening daemon forgets no Run whose submission is on the disk, for any
\* Runs, crashes and expired leases, up to the first damage and the first
\* submission, quarantine or terminal write that fails.
THEOREM AcceptedIsOwnedHolds == Spec => []AcceptedIsOwned
<1>1. Init => Owning
  <2> SUFFICES ASSUME Init PROVE Owning
    OBVIOUS
  <2>1. \A r \in Runs : ctx[r].verdict.after = "result" /\ docs[r]["submission"] = "absent"
    BY DEF Init, Idle, DocNames
  <2>2. QED
    BY <2>1, InitConverges DEF Owning, Owned
<1>2. Owning /\ [Next]_vars => Owning'
  <2> SUFFICES ASSUME Owning, [Next]_vars PROVE Owning'
    OBVIOUS
  <2>1. Convergence'
    BY NextConverges DEF Owning
  <2>2. ASSUME damage' = 0, NEW r \in Runs PROVE Owned(r)'
    <3>1. damage = 0
      BY <2>2, OnlyMore DEF Owning, Convergence, RunInvariant
    <3>2. CASE \E q \in Runs : Reserve(q) \/ RunStep(q)
      <4>1. PICK q \in Runs : Reserve(q) \/ RunStep(q)
        BY <3>2
      <4>2. CASE q = r
        BY <3>1, <4>1, <4>2, RunStepsOwn
      <4>3. CASE q # r
        <5>1. Apart(q) /\ Owned(r)
          BY <3>1, <4>1, StepsApart DEF Owning, Convergence, RunInvariant
        <5>2. /\ ctx'[r] = ctx[r] /\ docs'[r] = docs[r] /\ result'[r] = result[r] /\ daemon' = daemon
              /\ lost \subseteq lost' /\ (r \in made => r \in made')
          BY <4>3, <5>1 DEF Apart
        <5>3. QED
          BY <5>1, <5>2 DEF Owned, Settled
      <4>4. QED
        BY <4>2, <4>3
    <3>3. QED
      BY <2>2, <3>1, <3>2, OthersOwn
  <2>3. QED
    BY <2>1, <2>2 DEF Owning
<1>3. Owning => AcceptedIsOwned
  BY DEF Owning, Owned, AcceptedIsOwned, At
<1>4. QED
  BY <1>1, <1>2, <1>3, PTL DEF Spec

-----------------------------------------------------------------------------
(* What a restart does whatever failed before it *)

\* The third layer of the invariant: its parts hold of damaged stores too.

\* A task publishes an uncertain turn as anything but unknown only behind the
\* quarantine.
Guarded(c, s) ==
  c.step \in {"result", "release"} /\ c.seen.dispatched /\ c.seen.stop = "none"
    /\ c.verdict.status # "unknown" => s.quarantined

\* No Run has a terminal of its own before its task publishes it.
Unpublished(r) ==
  r \notin made \/ ctx[r].step \notin {"idle", "release"} => result[r] \in {"absent", "corrupt"}

\* The directory of an uncertain prompt never reads as certain, and a
\* reconciliation that has looked at it quarantines or refuses.
Answerable(r) ==
  Uncertain(r) =>
    /\ "prompt-dispatch-started" \in markers[r]
    /\ result[r] \in {"absent", "unknown", "corrupt"} \/ session.quarantined
    /\ daemon.phase = "reconciling" /\ r \notin daemon.todo =>
         \/ session.quarantined
         \/ daemon.run = r /\ (Has(daemon.left, "refuse") \/ Has(daemon.left, "mark"))

Containment ==
  Convergence /\ \A r \in Runs : Guarded(ctx[r], session) /\ Unpublished(r) /\ Answerable(r)

\* A prompt becomes uncertain only in the step that sends it.
LEMMA PromptSent ==
  ASSUME TypeOK, NEW r \in Runs, Reserve(r) \/ RunStep(r),
         agent'[r].turn = "prompted", agent[r].turn # "prompted"
  PROVE  ctx[r].step = "prompt" /\ UNCHANGED <<result, markers, session>>
<1> USE DEF At, store
<1>t. agent \in [Runs -> AgentType]
  BY DEF TypeOK, AgentType
<1>1. CASE Reserve(r) \/ Submission(r) \/ Startup(r)
  BY <1>1 DEF Reserve, Submission, Accept, SubmissionLost, RegistrationFails, Startup, WriteSpec,
       WriteLaunch, BindCreate, BindReuse, Spawn, CreateRecord, LeaseCreated, LoadSession,
       PreDispatchFails
<1>2. CASE Switch(r)
  BY <1>t, <1>2 DEF Switch, AnnounceSwitch, SendSet, SetProven, SetFails, RollbackProven,
       RollbackMarked, RollbackFails, SwitchInterrupted, SwitchMarked, CommitEffective, AgentType
<1>3. CASE Turn(r)
  <2>1. CASE SendPrompt(r)
    BY <2>1 DEF SendPrompt
  <2>2. CASE ~SendPrompt(r)
    <3>1. agent' = agent \/ agent' = [agent EXCEPT ![r].turn = "answered"]
      BY <1>3, <2>2, Zenon DEF Turn, MarkDispatch, MarkDispatchFails, PromptEvidenceFails,
           PromptAccepted, TurnEnds, TurnTimesOut, TurnLost, TurnInterrupted
    <3>2. QED
      BY <1>t, <3>1 DEF AgentType
  <2>3. QED
    BY <2>1, <2>2
<1>4. CASE Finalization(r)
  <2>1. agent' = agent
    BY <1>4, Zenon DEF Finalization, Conclude, FinalizationFails, EmergencyCleanup, WriteFence,
         MarkQuarantined, ClearFence, QuarantineFails, PublishResult, PublishFails, ReleaseLease
  <2>2. QED
    BY <2>1
<1>5. QED
  BY <1>1, <1>2, <1>3, <1>4 DEF RunStep

\* Markers are never taken away by a task.
LEMMA MarkersStay ==
  ASSUME TypeOK, NEW r \in Runs, Reserve(r) \/ RunStep(r)
  PROVE  markers[r] \subseteq markers'[r]
<1> USE DEF store
<1>t. markers \in [Runs -> SUBSET Markers]
  BY DEF TypeOK
<1>1. CASE Reserve(r) \/ Submission(r) \/ Startup(r)
  BY <1>1 DEF Reserve, Submission, Accept, SubmissionLost, RegistrationFails, Startup, WriteSpec,
       WriteLaunch, BindCreate, BindReuse, Spawn, CreateRecord, LeaseCreated, LoadSession,
       PreDispatchFails
<1>2. CASE Switch(r)
  BY <1>t, <1>2 DEF Switch, AnnounceSwitch, SendSet, SetProven, SetFails, RollbackProven, ConfigMarker,
       RollbackMarked, RollbackFails, SwitchInterrupted, SwitchMarked, CommitEffective
<1>3. CASE Turn(r)
  <2>1. markers' = markers \/ \E name : markers' = [markers EXCEPT ![r] = @ \cup {name}]
    BY <1>3, Zenon DEF Turn, MarkDispatch, MarkDispatchFails, PromptEvidenceFails, SendPrompt,
         PromptAccepted, TurnEnds, TurnTimesOut, TurnLost, TurnInterrupted
  <2>2. QED
    BY <1>t, <2>1
<1>4. CASE Finalization(r)
  <2>1. markers' = markers
    BY <1>4, Zenon DEF Finalization, Conclude, FinalizationFails, EmergencyCleanup, WriteFence,
         MarkQuarantined, ClearFence, QuarantineFails, PublishResult, PublishFails, ReleaseLease
  <2>2. QED
    BY <2>1
<1>5. QED
  BY <1>1, <1>2, <1>3, <1>4 DEF RunStep

\* A task reaches the publication of an uncertain turn from the quarantine, or with
\* the verdict unknown.
LEMMA GuardedSteps ==
  ASSUME Containment, NEW r \in Runs, RunStep(r)
  PROVE  Guarded(ctx'[r], session')
<1> USE DEF At, Go, End
<1>t. /\ ctx \in [Runs -> Context] /\ ctx[r] \in Context /\ ctx[r].seen \in Observations
      /\ ctx[r].verdict \in Verdict /\ session \in SessionType
      /\ Earned(ctx[r], agent[r]) /\ Concluding(ctx[r], session, lost) /\ Guarded(ctx[r], session)
  BY AtWork DEF Containment, Task
<1>i. \A s : Guarded(Idle, s)
  BY DEF Guarded, Idle
<1>1. CASE Submission(r)
  BY <1>1, <1>t, <1>i DEF Submission, Accept, SubmissionLost, RegistrationFails, Guarded, Context
<1>2. CASE Startup(r)
  BY <1>2, <1>t DEF Startup, WriteSpec, WriteLaunch, BindCreate, BindReuse, Spawn, CreateRecord,
                    LeaseCreated, LoadSession, PreDispatchFails, Guarded, Context
<1>3. CASE Switch(r)
  BY <1>3, <1>t DEF Switch, AnnounceSwitch, SendSet, SetProven, SetFails, RollbackProven,
       RollbackMarked, RollbackFails, SwitchInterrupted, SwitchMarked, CommitEffective, Guarded, Context
<1>4. CASE Turn(r)
  <2>1. ctx' = ctx \/ ctx'[r].step \in {"prompt", "turn", "finalize"}
    <3>1. CASE TurnEnds(r)
      BY <3>1, <1>t DEF TurnEnds, Context
    <3>2. CASE TurnLost(r)
      BY <3>2, <1>t DEF TurnLost, Context
    <3>3. CASE TurnInterrupted(r)
      BY <3>3, <1>t DEF TurnInterrupted, Context
    <3>4. CASE \/ MarkDispatch(r) \/ MarkDispatchFails(r) \/ PromptEvidenceFails(r)
               \/ SendPrompt(r) \/ PromptAccepted(r) \/ TurnTimesOut(r)
      BY <3>4, <1>t DEF MarkDispatch, MarkDispatchFails, PromptEvidenceFails, SendPrompt,
           PromptAccepted, TurnTimesOut, Context
    <3>5. QED
      BY <1>4, <3>1, <3>2, <3>3, <3>4 DEF Turn
  <2>2. session' = session
    BY <1>4, Zenon DEF Turn, MarkDispatch, MarkDispatchFails, PromptEvidenceFails, SendPrompt,
         PromptAccepted, TurnEnds, TurnTimesOut, TurnLost, TurnInterrupted
  <2>3. QED
    BY <1>t, <2>1, <2>2 DEF Guarded
<1>5. CASE Finalization(r)
  <2>1. CASE Conclude(r)
    <3>1. PICK dropped \in BOOLEAN :
            LET seen == [ctx[r].seen EXCEPT !.pipeline = @ \/ dropped] IN
            ctx' = [ctx EXCEPT
                      ![r].child = FALSE, ![r].seen = seen,
                      ![r].verdict = [status |-> RunStatus(seen), after |-> "result"],
                      ![r].step = IF Quarantines(seen) THEN "fence" ELSE "result"]
      BY <2>1, Zenon DEF Conclude
    <3> DEFINE seen == [ctx[r].seen EXCEPT !.pipeline = @ \/ dropped]
    <3>2. ctx'[r].seen = seen /\ ctx'[r].step = IF Quarantines(seen) THEN "fence" ELSE "result"
      BY <1>t, <3>1 DEF Context
    <3> HIDE DEF seen
    <3>3. QED
      BY <3>2 DEF Guarded, Quarantines
  <2>2. CASE FinalizationFails(r)
    BY <2>2, <1>t DEF FinalizationFails, Guarded, Context
  <2>3. CASE EmergencyCleanup(r)
    <3> DEFINE uncertain == ctx[r].seen.dispatched /\ ctx[r].seen.stop = "none"
               status == IF uncertain THEN "unknown" ELSE "failed"
    <3>1. ctx'[r] = IF result[r] = "corrupt"
                    THEN IF CanQuarantine(r)
                         THEN [ctx[r] EXCEPT !.child = FALSE, !.emergency = TRUE, !.step = "fence",
                                             !.verdict.after = "end"]
                         ELSE Idle
                    ELSE [ctx[r] EXCEPT !.child = FALSE, !.emergency = TRUE, !.verdict.status = status,
                                        !.step = IF uncertain /\ CanQuarantine(r)
                                                 THEN "fence" ELSE "result"]
      BY <2>3, <1>t DEF EmergencyCleanup
    <3>2. ctx'[r].step \in {"idle", "fence"} \/ (ctx'[r].seen = ctx[r].seen /\ ctx'[r].verdict.status = status)
      BY <1>t, <3>1 DEF Context, Verdict, Idle
    <3>3. QED
      BY <3>2 DEF Guarded
  <2>4. CASE WriteFence(r) \/ MarkQuarantined(r)
    BY <2>4, <1>t DEF WriteFence, MarkQuarantined, Guarded, Context
  <2>5. CASE ClearFence(r)
    <3>1. session'.quarantined
      BY <2>5, <1>t DEF ClearFence, Concluding, SessionType
    <3>2. QED
      BY <3>1 DEF Guarded
  <2>6. CASE QuarantineFails(r)
    <3>1. CASE ctx'[r] = Idle
      BY <1>i, <3>1
    <3>2. CASE ctx'[r] # Idle
      <4>1. /\ ctx[r].emergency /\ ctx[r].step \in {"fence", "mark", "clear"}
            /\ ctx[r].verdict.after = "result" /\ ctx'[r].verdict = ctx[r].verdict
        BY <2>6, <3>2, <1>t DEF QuarantineFails, Resume, Context, Verdict
      <4>2. QED
        BY <1>t, <4>1 DEF Earned, Guarded
    <3>3. QED
      BY <3>1, <3>2
  <2>7. CASE PublishResult(r)
    <3>1. session' = session
      BY <2>7 DEF PublishResult
    <3>2. \/ ctx'[r] = Idle \/ ctx'[r].step = "fence"
          \/ ctx[r].step = "result" /\ ctx' = [ctx EXCEPT ![r].step = "release"]
      BY <2>7, <1>t DEF PublishResult, Context
    <3>3. QED
      BY <1>i, <1>t, <3>1, <3>2 DEF Guarded, Context
  <2>8. CASE PublishFails(r) \/ ReleaseLease(r)
    BY <2>8, <1>t, <1>i DEF PublishFails, ReleaseLease
  <2>9. QED
    BY <1>5, <2>1, <2>2, <2>3, <2>4, <2>5, <2>6, <2>7, <2>8 DEF Finalization
<1>6. QED
  BY <1>1, <1>2, <1>3, <1>4, <1>5 DEF RunStep

\* The third layer through a step of one Run.
LEMMA RunStepsContain ==
  ASSUME Containment, NEW r \in Runs, Reserve(r) \/ RunStep(r)
  PROVE  Containment'
<1>t. /\ TypeOK /\ Convergence /\ Answerable(r) /\ Unpublished(r) /\ Guarded(ctx[r], session)
      /\ result \in [Runs -> {"absent", "corrupt"} \cup Statuses]
      /\ Task(ctx[r], session, markers[r], agent[r], intent[r], lost)
  BY AtWork DEF Containment, Convergence, RunInvariant
<1>1. Convergence'
  BY <1>t, RunStepsConverge
<1>2. Apart(r)
  BY <1>t, StepsApart
<1>g. session.quarantined => session'.quarantined
  BY <1>2 DEF Apart, Grows
<1>3. daemon' = daemon /\ daemon.phase = "listening"
  <2>1. CASE Reserve(r)
    BY <1>2, <2>1 DEF Reserve, Apart
  <2>2. CASE RunStep(r)
    BY <1>t, <1>2, <2>2, TaskMoves, AtWork DEF Apart
  <2>3. QED
    BY <2>1, <2>2
<1>4. \A q \in Runs \ {r} : Guarded(ctx'[q], session') /\ Unpublished(q)' /\ Answerable(q)'
  <2> TAKE q \in Runs \ {r}
  <2>1. Guarded(ctx[q], session) /\ Unpublished(q) /\ Answerable(q)
    BY DEF Containment
  <2>2. Guarded(ctx'[q], session')
    BY <1>2, <2>1 DEF Guarded, Apart, Grows
  <2>3. Unpublished(q)'
    BY <1>2, <2>1 DEF Unpublished, Apart
  <2>4. Answerable(q)'
    BY <1>2, <1>3, <2>1 DEF Answerable, Uncertain, Apart, Grows
  <2>5. QED
    BY <2>2, <2>3, <2>4
<1>5. Guarded(ctx'[r], session')
  <2>1. CASE Reserve(r)
    BY <1>t, <2>1 DEF Reserve, Go, Guarded, TypeOK, Context
  <2>2. QED
    BY <2>1, GuardedSteps
<1>6. Unpublished(r)'
  <2>1. CASE Reserve(r)
    BY <1>t, <2>1 DEF Reserve, Unpublished
  <2>2. CASE RunStep(r)
    <3>1. r \in made /\ r \in made'
      BY <1>t, <1>2, <2>2, TaskMoves, AtWork DEF Apart
    <3>2. QED
      BY <1>t, <2>2, <3>1, TaskMoves DEF Unpublished
  <2>3. QED
    BY <2>1, <2>2
<1>7. ASSUME Uncertain(r)'
      PROVE  /\ "prompt-dispatch-started" \in markers'[r]
             /\ result'[r] \in {"absent", "unknown", "corrupt"} \/ session'.quarantined
  <2>1. CASE ~Uncertain(r)
    <3>1. ctx[r].step = "prompt" /\ UNCHANGED <<result, markers, session>>
      BY <1>t, <1>7, <2>1, PromptSent DEF Uncertain
    <3>2. ctx[r].seen.dispatched /\ result[r] \in {"absent", "corrupt"}
      BY <1>t, <3>1 DEF Task, Dispatching, Unpublished
    <3>3. "prompt-dispatch-started" \in markers[r]
      BY <1>t, <3>2 DEF Task, Dispatching
    <3>4. QED
      BY <3>1, <3>2, <3>3
  <2>2. CASE Uncertain(r)
    <3>1. "prompt-dispatch-started" \in markers'[r]
      BY <1>t, <2>2, MarkersStay DEF Answerable
    <3>2. CASE result'[r] = result[r]
      BY <1>t, <1>g, <2>2, <3>1, <3>2, Zenon DEF Answerable
    <3>3. CASE result'[r] # result[r]
      <4>1. Next
        BY DEF Next
      <4>2. \/ ctx[r].step = "result" /\ result'[r] = ctx[r].verdict.status
            \/ ctx[r].step = "reserved" \/ ApplyWrite \/ result'[r] = "corrupt"
        BY <1>t, <3>3, <4>1, TerminalWriters
      <4>3. ~ApplyWrite
        BY <1>3 DEF ApplyWrite
      <4>4. ctx[r].step # "reserved"
        BY <1>t, <2>2 DEF Task, Dispatching, Undispatched, Uncertain
      <4>5. CASE ctx[r].step = "result" /\ result'[r] = ctx[r].verdict.status
        <5>1. ctx[r].seen.dispatched /\ ctx[r].seen.stop = "none"
          BY <1>t, <2>2, <4>5 DEF Task, Dispatching, Uncertain
        <5>2. ctx[r].verdict.status = "unknown" \/ session.quarantined
          BY <1>t, <4>5, <5>1 DEF Guarded
        <5>3. QED
          BY <1>g, <3>1, <4>5, <5>2, Zenon
      <4>6. QED
        BY <3>1, <4>2, <4>3, <4>4, <4>5
    <3>4. QED
      BY <3>1, <3>2, <3>3
  <2>3. QED
    BY <2>1, <2>2
<1>8. Answerable(r)'
  BY <1>3, <1>7 DEF Answerable
<1>9. QED
  BY <1>1, <1>4, <1>5, <1>6, <1>8 DEF Containment

\* The row of a dispatched Run without a certain terminal quarantines or refuses.
LEMMA UncertainRow ==
  ASSUME TypeOK, NEW r \in Runs, DispatchPresent(r), ~session.quarantined,
         result[r] \in {"absent", "unknown", "corrupt"}
  PROVE  Has(RowWrites(r), "mark") \/ Has(RowWrites(r), "refuse")
<1>1. PICK p \in Quarantine, t \in Terminal :
        /\ RowWrites(r) = p \o t
        /\ Condemned(r) /\ t # <<"refuse">> => p = QuarantineWrites
        /\ t = <<"unknown">> => Condemned(r)
        /\ t = <<>> => result[r] \in Statuses /\ (result[r] = "unknown" => Condemned(r))
  BY RowLemma
<1>2. /\ Has(p \o t, "mark") <=> p = <<"fence", "mark", "clear">>
      /\ Has(p \o t, "refuse") <=> t = <<"refuse">>
      /\ Has(p \o t, "failed") <=> t = <<"failed">>
  BY ListLemma
<1>3. QuarantineWrites = <<"fence", "mark", "clear">>
  BY DEF QuarantineWrites
<1>4. ~Has(RowWrites(r), "failed")
  <2>1. /\ Row(r) \in {2, 3, 4, 5, 6} /\ (Row(r) = 5 => result[r] = "absent")
    BY DEF Row, SelectRow, TerminalClass
  <2> DEFINE Q == QuarantineWrites
  <2>2. /\ Q \in Quarantine /\ <<>> \in Quarantine
        /\ <<"unknown">> \in Terminal /\ <<"refuse">> \in Terminal /\ <<>> \in Terminal
        /\ <<"unknown">> # <<"failed">> /\ <<"refuse">> # <<"failed">> /\ <<>> # <<"failed">>
        /\ <<>> \o <<"refuse">> = <<"refuse">> /\ Q \o <<>> = Q
    BY <1>3 DEF Quarantine, Terminal
  <2>3. CASE Row(r) = 2
    <3>1. RowWrites(r) = Q
      BY <2>3 DEF RowWrites
    <3> HIDE DEF Q
    <3>2. Has(Q \o <<>>, "failed") <=> <<>> = <<"failed">>
      BY <2>2, ListLemma
    <3>3. QED
      BY <2>2, <3>1, <3>2
  <2>4. CASE Row(r) \in {3, 6}
    <3>1. RowWrites(r) = <<"refuse">>
      BY <2>4 DEF RowWrites
    <3>2. Has(<<>> \o <<"refuse">>, "failed") <=> <<"refuse">> = <<"failed">>
      BY <2>2, ListLemma
    <3>3. QED
      BY <2>2, <3>1, <3>2
  <2>5. CASE Row(r) = 4
    <3>1. RowWrites(r) = (IF DispatchPresent(r) /\ Actionable(r) THEN Q ELSE <<>>) \o <<"refuse">>
      BY <2>5 DEF RowWrites
    <3> HIDE DEF Q
    <3>2. QED
      BY <2>2, <3>1, ListLemma
  <2>6. CASE Row(r) = 5
    <3>1. RowWrites(r) = Q \o <<"unknown">>
      BY <2>6 DEF RowWrites
    <3> HIDE DEF Q
    <3>2. QED
      BY <2>2, <3>1, ListLemma
  <2>7. QED
    BY <2>1, <2>3, <2>4, <2>5, <2>6
<1>5. QED
  <2>1. CASE t = <<"refuse">>
    BY <1>1, <1>2, <2>1
  <2>2. CASE t = <<>> \/ t = <<"unknown">>
    <3>1. t # <<"refuse">>
      BY <2>2
    <3>2. Condemned(r)
      <4>1. CASE t = <<>>
        <5>1. result[r] = "unknown"
          BY <1>1, <4>1 DEF Statuses
        <5>2. QED
          BY <1>1, <4>1, <5>1
      <4>2. QED
        BY <1>1, <2>2, <4>1
    <3>3. QED
      BY <1>1, <1>2, <1>3, <3>1, <3>2
  <2>3. QED
    BY <1>1, <1>2, <1>4, <2>1, <2>2 DEF Terminal

\* The third layer through a step that leaves the tasks and the agents as they are,
\* or ends the tasks: a Run may still be classified or written to.
LEMMA ContainmentFrame ==
  ASSUME Containment, Convergence', UNCHANGED <<made, agent>>, Grows(session, session'),
         \A r \in Runs : ctx'[r] = ctx[r] \/ ctx'[r] = Idle,
         \A r \in Runs : markers[r] \subseteq markers'[r],
         \A r \in Runs : r \notin made \/ ctx'[r].step \notin {"idle", "release"} =>
                           result'[r] = result[r] \/ result'[r] = "corrupt",
         \A r \in made : Uncertain(r) =>
           /\ result'[r] \in {result[r], "unknown", "corrupt"} \/ session'.quarantined
           /\ daemon'.phase = "reconciling" /\ r \notin daemon'.todo =>
                \/ session'.quarantined
                \/ daemon'.run = r /\ (Has(daemon'.left, "refuse") \/ Has(daemon'.left, "mark"))
  PROVE  Containment'
<1> SUFFICES ASSUME NEW r \in Runs
             PROVE  Guarded(ctx'[r], session') /\ Unpublished(r)' /\ Answerable(r)'
  BY DEF Containment
<1>1. Guarded(ctx[r], session) /\ Unpublished(r) /\ Answerable(r)
  BY DEF Containment
<1>2. Guarded(ctx'[r], session')
  BY <1>1 DEF Guarded, Grows, Idle
<1>3. Unpublished(r)'
  BY <1>1 DEF Unpublished, Idle
<1>4. Answerable(r)'
  <2> SUFFICES ASSUME Uncertain(r) PROVE Answerable(r)'
    BY DEF Answerable, Uncertain
  <2>1. r \in made
    BY DEF Containment, Convergence, RunInvariant, OneTask, Uncertain
  <2>2. "prompt-dispatch-started" \in markers'[r]
    BY <1>1 DEF Answerable
  <2>3. result'[r] \in {"absent", "unknown", "corrupt"} \/ session'.quarantined
    <3>1. result[r] \in {"absent", "unknown", "corrupt"} \/ session'.quarantined
      BY <1>1, Zenon DEF Answerable, Grows
    <3>2. result'[r] \in {result[r], "unknown", "corrupt"} \/ session'.quarantined
      BY <2>1
    <3>3. QED
      BY <3>1, <3>2
  <2>4. QED
    BY <2>1, <2>2, <2>3 DEF Answerable
<1>5. QED
  BY <1>2, <1>3, <1>4

LEMMA ReconciliationContains ==
  ASSUME Containment, Reconciliation
  PROVE  Containment'
<1>t. /\ TypeOK /\ Convergence
      /\ daemon \in [phase : {"down", "reconciling", "listening", "refused"},
                     todo : SUBSET Runs, run : Runs \cup {NoRun}, left : Seq(Writes)]
      /\ result \in [Runs -> {"absent", "corrupt"} \cup Statuses] /\ session \in SessionType
  BY DEF Containment, Convergence, RunInvariant, TypeOK, SessionType
<1>1. Convergence'
  BY <1>t, NextConverges DEF Next
<1>2. UNCHANGED <<made, docs, markers, ctx, agent>>
  BY Zenon DEF Reconciliation, Start, ClassifyRun, ApplyWrite, Listen, store
<1>3. \A r \in made : r \in Runs /\ Answerable(r)
  BY <1>t DEF Containment, TypeOK
<1>4. CASE Start \/ Listen
  <2>1. result' = result /\ session' = session
    BY <1>4 DEF Start, Listen, store
  <2>2. daemon'.phase = "reconciling" => daemon'.todo = made
    <3>1. CASE Start
      BY <1>t, <3>1 DEF Start
    <3>2. CASE Listen
      BY <3>2 DEF Listen, Listening
    <3>3. QED
      BY <1>4, <3>1, <3>2
  <2>3. Grows(session, session')
    BY <2>1 DEF Grows
  <2>4. QED
    BY <1>1, <1>2, <2>1, <2>2, <2>3, ContainmentFrame
<1>5. ASSUME NEW q \in Runs, ClassifyRun(q) PROVE Containment'
  <2>1. /\ daemon.phase = "reconciling" /\ daemon.left = <<>> /\ q \in daemon.todo
        /\ daemon' = [daemon EXCEPT !.todo = @ \ {q}, !.run = q, !.left = RowWrites(q)]
        /\ result' = result /\ session' = session
    BY <1>5 DEF ClassifyRun, store
  <2>2. daemon'.todo = daemon.todo \ {q} /\ daemon'.run = q /\ daemon'.left = RowWrites(q)
    BY <1>t, <2>1
  <2>3. ASSUME NEW r \in made, Uncertain(r), r \notin daemon'.todo
        PROVE  \/ session.quarantined
               \/ daemon'.run = r /\ (Has(daemon'.left, "refuse") \/ Has(daemon'.left, "mark"))
    <3>1. CASE r = q
      <4>1. DispatchPresent(r) /\ (result[r] \in {"absent", "unknown", "corrupt"} \/ session.quarantined)
        BY <1>3, <2>3 DEF Answerable, DispatchPresent
      <4>2. QED
        BY <1>t, <1>3, <2>2, <3>1, <4>1, UncertainRow
    <3>2. CASE r # q
      BY <1>3, <2>1, <2>2, <2>3, <3>2, NoWrites DEF Answerable
    <3>3. QED
      BY <3>1, <3>2
  <2>4. QED
    BY <1>1, <1>2, <2>1, <2>3, ContainmentFrame DEF Grows
<1>6. CASE ApplyWrite
  <2>t. /\ daemon.left # <<>> /\ daemon.phase = "reconciling" /\ Ordered(daemon.left)
        /\ daemon.run \in made /\ daemon.run \in Runs /\ daemon.run \notin daemon.todo
        /\ \A r \in Runs : ctx[r].step = "idle"
    BY <1>t, <1>6, NoTask DEF ApplyWrite, Convergence, RunInvariant, OneTask, InOrder, TypeOK, Idle
  <2>1. PICK write, rest, run :
          write = Head(daemon.left) /\ rest = Tail(daemon.left) /\ run = daemon.run
    OBVIOUS
  <2>2. /\ \A x : Has(daemon.left, x) <=> write = x \/ Has(rest, x)
        /\ write \in {"unknown", "failed", "refuse"} => rest = <<>>
    BY <1>t, <2>t, <2>1, TailLemma
  <2>3. daemon' = IF write = "refuse" THEN [Down EXCEPT !.phase = "refused"]
                  ELSE [daemon EXCEPT !.left = rest]
    BY <1>6, <2>1 DEF ApplyWrite
  <2>4. /\ write = "refuse" => daemon'.phase = "refused"
        /\ write # "refuse" => /\ daemon'.phase = "reconciling" /\ daemon'.run = run
                               /\ daemon'.todo = daemon.todo /\ daemon'.left = rest
    BY <1>t, <2>t, <2>1, <2>3 DEF Down, Listening
  <2>5. /\ Grows(session, session')
        /\ session'.quarantined = (session.quarantined \/ write = "mark")
    BY <1>t, <1>6, <2>1 DEF ApplyWrite, SessionType, Grows
  <2>6. /\ \A q \in Runs \ {run} : result'[q] = result[q]
        /\ result'[run] = IF write \in {"unknown", "failed"} /\ result[run] = "absent"
                          THEN write ELSE result[run]
    BY <1>t, <1>6, <2>t, <2>1 DEF ApplyWrite
  <2>7. ASSUME NEW r \in made, Uncertain(r)
        PROVE  /\ result'[r] \in {result[r], "unknown", "corrupt"} \/ session'.quarantined
               /\ daemon'.phase = "reconciling" /\ r \notin daemon'.todo =>
                    \/ session'.quarantined
                    \/ daemon'.run = r /\ (Has(daemon'.left, "refuse") \/ Has(daemon'.left, "mark"))
    <3>1. r \notin daemon.todo =>
            \/ session.quarantined
            \/ run = r /\ (Has(daemon.left, "refuse") \/ Has(daemon.left, "mark"))
      BY <1>3, <2>t, <2>1, <2>7 DEF Answerable
    <3>2. CASE session'.quarantined
      BY <3>2
    <3>3. CASE ~session'.quarantined
      <4>1. ~session.quarantined /\ write # "mark"
        BY <2>5, <3>3
      <4>2. r = run => write \notin {"failed", "unknown"}
        BY <2>t, <2>1, <2>2, <3>1, <4>1, NoWrites
      <4>3. result'[r] = result[r]
        BY <1>3, <2>6, <4>2
      <4>4. ASSUME daemon'.phase = "reconciling", r \notin daemon'.todo
            PROVE  daemon'.run = r /\ (Has(daemon'.left, "refuse") \/ Has(daemon'.left, "mark"))
        BY <2>2, <2>4, <3>1, <4>1, <4>4
      <4>5. QED
        BY <4>3, <4>4
    <3>4. QED
      BY <3>2, <3>3
  <2>8. \A r \in Runs : r \notin made \/ ctx'[r].step \notin {"idle", "release"} =>
                          result'[r] = result[r] \/ result'[r] = "corrupt"
    BY <1>2, <2>t, <2>1, <2>6
  <2>9. QED
    BY <1>1, <1>2, <2>5, <2>7, <2>8, ContainmentFrame
<1>7. QED
  BY <1>4, <1>5, <1>6 DEF Reconciliation

LEMMA NextContains == Containment /\ [Next]_vars => Containment'
<1> SUFFICES ASSUME Containment, [Next]_vars PROVE Containment'
  OBVIOUS
<1>t. /\ Convergence /\ markers \in [Runs -> SUBSET Markers] /\ session \in SessionType
      /\ result \in [Runs -> {"absent", "corrupt"} \cup Statuses]
      /\ \A r \in made : Answerable(r)
  BY DEF Containment, Convergence, RunInvariant, TypeOK, SessionType
<1>1. Convergence'
  BY <1>t, NextConverges
<1>2. CASE \E r \in Runs : Reserve(r) \/ RunStep(r)
  BY <1>2, RunStepsContain
<1>3. CASE Reconciliation
  BY <1>3, ReconciliationContains
<1>4. CASE Crash
  <2>1. /\ UNCHANGED <<made, markers, result, session, agent>> /\ ctx' = [r \in Runs |-> Idle]
        /\ daemon'.phase # "reconciling"
    BY <1>4 DEF Crash, store, Down, Listening
  <2>2. QED
    BY <1>1, <2>1, ContainmentFrame DEF Grows
<1>5. ASSUME NEW q \in Runs, ContainInvalidTerminal(q) \/ Damage(q) \/ MarkerUnreadable(q)
      PROVE  Containment'
  <2>1. UNCHANGED <<made, ctx, daemon, agent>>
    BY <1>5 DEF ContainInvalidTerminal, Damage, MarkerUnreadable, store, env, world
  <2>2. Grows(session, session')
    BY <1>t, <1>5 DEF ContainInvalidTerminal, Damage, MarkerUnreadable, Grows, SessionType
  <2>3. \A r \in Runs : result'[r] = result[r] \/ result'[r] = "corrupt"
    BY <1>t, <1>5 DEF ContainInvalidTerminal, Damage, MarkerUnreadable, store
  <2>4. \A r \in Runs : markers[r] \subseteq markers'[r]
    BY <1>t, <1>5 DEF ContainInvalidTerminal, Damage, MarkerUnreadable, store
  <2>5. ASSUME NEW r \in made, Uncertain(r), daemon'.phase = "reconciling", r \notin daemon'.todo
        PROVE  \/ session'.quarantined
               \/ daemon'.run = r /\ (Has(daemon'.left, "refuse") \/ Has(daemon'.left, "mark"))
    BY <1>t, <2>1, <2>2, <2>5 DEF Answerable, Grows
  <2>6. \A r \in made : r \in Runs
    BY <1>t DEF Convergence, RunInvariant, TypeOK
  <2>7. QED
    BY <1>1, <2>1, <2>2, <2>3, <2>4, <2>5, <2>6, ContainmentFrame
<1>6. CASE LeaseExpires \/ UNCHANGED vars
  <2>1. UNCHANGED <<made, markers, result, session, ctx, daemon, agent>>
    BY <1>6 DEF LeaseExpires, vars, env, world, store
  <2>2. QED
    BY <1>t, <1>1, <2>1, ContainmentFrame DEF Grows, Answerable
<1>7. QED
  BY <1>2, <1>3, <1>4, <1>5, <1>6 DEF Next

\* The third layer holds of every behaviour: no failed write and no damage makes an
\* uncertain prompt look certain.
THEOREM ContainmentHolds == Spec => []Containment
<1>1. Init => Containment
  <2> SUFFICES ASSUME Init PROVE Containment
    OBVIOUS
  <2>1. \A r \in Runs : /\ ctx[r] = Idle /\ result[r] = "absent"
                        /\ agent[r] = [config |-> "untouched", turn |-> "none"]
    BY DEF Init
  <2>2. \A r \in Runs : ctx[r].step = "idle" /\ agent[r].turn = "none"
    <3>1. Idle.step = "idle"
      BY DEF Idle
    <3>2. \A r \in Runs : ctx[r].step = "idle"
      BY <2>1, <3>1
    <3>3. \A r \in Runs : agent[r].turn = "none"
      BY DEF Init
    <3>4. QED
      BY <3>2, <3>3
  <2>3. ASSUME NEW r \in Runs PROVE Guarded(ctx[r], session) /\ Unpublished(r) /\ Answerable(r)
    <3>1. Guarded(ctx[r], session)
      BY <2>2 DEF Guarded
    <3>2. Unpublished(r)
      BY <2>1 DEF Unpublished
    <3>3. Answerable(r)
      BY <2>2 DEF Answerable, Uncertain
    <3>4. QED
      BY <3>1, <3>2, <3>3
  <2>4. QED
    BY <2>3, InitConverges DEF Containment
<1>2. QED
  BY <1>1, NextContains, PTL DEF Spec

\* Whatever write failed, in the emergency cleanup too, whatever terminal or
\* document was damaged and whatever marker unreadable, a restart that listens has quarantined the Session of every uncertain
\* prompt: for any Runs, faults, crashes and damage.
THEOREM RestartContainsHolds == Spec => RestartContains
<1> DEFINE Safe == daemon.phase = "reconciling" /\ daemon'.phase = "listening" =>
                     \A r \in made : Uncertain(r) => session.quarantined
<1>1. Containment /\ [Next]_vars => [Safe]_vars
  <2> SUFFICES ASSUME Containment, Next, daemon.phase = "reconciling",
                      daemon'.phase = "listening", NEW r \in made, Uncertain(r)
               PROVE  session.quarantined
    OBVIOUS
  <2>1. daemon.left = <<>> /\ daemon.todo = {}
    BY ListensWhenDone DEF Containment
  <2>2. Answerable(r)
    BY DEF Containment, Convergence, RunInvariant, TypeOK
  <2>3. QED
    BY <2>1, <2>2, NoWrites DEF Answerable
<1>2. QED
  BY <1>1, ContainmentHolds, PTL DEF Spec, RestartContains

-----------------------------------------------------------------------------
(* The promise of a Session *)

\* The fourth layer, about an undamaged store: who holds the Session, and that a
\* fence goes only behind the quarantine.

InTurn == {"prompt", "turn"}
Leased == {"config", "plan", "setting", "rollback", "rolled", "proven", "commit", "dispatch"}
            \cup InTurn

\* A task that may prompt holds the lease of an open Session; its agent is
\* prompted in the turn and not before.
Custody(r) ==
  /\ ctx[r].leased => lock.holder = r
  /\ ctx[r].step \in Leased \/ (ctx[r].step \in {"spawn", "open"} /\ intent[r] = "reuse") =>
       ctx[r].leased
  /\ ctx[r].leased /\ ctx[r].step \in Undispatched \cup InTurn => ~Blocked
  /\ ctx[r].step = "prompt" => agent[r].turn = "none"
  /\ ctx[r].step = "turn" => agent[r].turn = "prompted"

Late(w) == \A i, j \in 1..Len(w) : i < j /\ w[i] = "clear" => w[j] # "mark"

ClearsLate ==
  /\ Late(daemon.left)
  /\ Has(daemon.left, "clear") =>
       /\ Has(daemon.left, "mark") \/ session.quarantined
       /\ result[daemon.run] \in {"absent", "unknown"}

Keeping == Convergence /\ (damage = 0 => ClearsLate /\ \A r \in Runs : Custody(r))

\* The fence is cleared last, in every list of a row and in what is left of it.
LEMMA LateTail ==
  ASSUME NEW w \in Seq(Writes), w # <<>>, Late(w)
  PROVE  Late(Tail(w)) /\ (Head(w) = "clear" => ~Has(Tail(w), "mark"))
<1>1. PICK n \in Nat \ {0}, t \in Seq(Writes) :
        /\ n = Len(w) /\ t = Tail(w) /\ Len(t) = n - 1 /\ Head(w) = w[1]
        /\ \A i \in 1..(n - 1) : t[i] = w[i + 1]
  <2>1. /\ Len(w) \in Nat \ {0} /\ Head(w) = w[1] /\ Tail(w) \in Seq(Writes)
        /\ Len(Tail(w)) = Len(w) - 1
        /\ \A i \in 1..(Len(w) - 1) : Tail(w)[i] = w[i + 1]
    OBVIOUS
  <2>2. QED
    BY <2>1
<1>2. \A i, j \in 1..n : i < j /\ w[i] = "clear" => w[j] # "mark"
  BY <1>1 DEF Late
<1>3. Late(t)
  <2> SUFFICES ASSUME NEW i \in 1..(n - 1), NEW j \in 1..(n - 1), i < j, t[i] = "clear"
               PROVE  t[j] # "mark"
    BY <1>1 DEF Late
  <2>1. i + 1 \in 1..n /\ j + 1 \in 1..n /\ i + 1 < j + 1 /\ t[i] = w[i + 1] /\ t[j] = w[j + 1]
    BY <1>1
  <2>2. QED
    BY <1>2, <2>1
<1>4. ASSUME w[1] = "clear", NEW j \in 1..(n - 1) PROVE t[j] # "mark"
  <2>1. 1 \in 1..n /\ j + 1 \in 1..n /\ 1 < j + 1 /\ t[j] = w[j + 1]
    BY <1>1
  <2>2. QED
    BY <1>2, <1>4, <2>1
<1>5. QED
  BY <1>1, <1>3, <1>4 DEF Has

LEMMA LateList ==
  ASSUME NEW p \in Quarantine, NEW t \in Terminal
  PROVE  Late(p \o t)
<1>1. CASE p = <<"fence", "mark", "clear">>
  <2>1. CASE t = <<>>
    <3>1. Len(p \o t) = 3 /\ (p \o t)[2] = "mark" /\ (p \o t)[1] = "fence" /\ (p \o t)[3] = "clear"
      BY <1>1, <2>1
    <3>2. QED
      BY <3>1 DEF Late
  <2>2. CASE t # <<>>
    <3>1. PICK x \in {"unknown", "failed", "refuse"} : t = <<x>>
      BY <2>2 DEF Terminal
    <3>2. /\ Len(p \o t) = 4 /\ (p \o t)[2] = "mark" /\ (p \o t)[1] = "fence"
          /\ (p \o t)[3] = "clear" /\ (p \o t)[4] = x
      BY <1>1, <3>1
    <3>3. QED
      BY <3>2 DEF Late
  <2>3. QED
    BY <2>1, <2>2
<1>2. CASE p # <<"fence", "mark", "clear">>
  <2>1. ~Has(p \o t, "mark")
    BY <1>2, ListLemma
  <2>2. QED
    BY <2>1 DEF Has, Late
<1>3. QED
  BY <1>1, <1>2

\* A row that clears the fence marks the Session first, or found it quarantined.
LEMMA RowClearsLate ==
  ASSUME NEW r \in Runs
  PROVE  /\ Late(RowWrites(r))
         /\ Has(RowWrites(r), "clear") /\ ~Has(RowWrites(r), "mark") => session.quarantined
<1> DEFINE Q == QuarantineWrites
<1>q. /\ Q \in Quarantine /\ <<>> \in Quarantine
      /\ <<"unknown">> \in Terminal /\ <<"refuse">> \in Terminal /\ <<>> \in Terminal
      /\ <<"failed">> \in Terminal
      /\ <<>> \o <<"refuse">> = <<"refuse">> /\ Q \o <<>> = Q /\ <<>> \o <<>> = <<>>
      /\ ~session.quarantined => Q = <<"fence", "mark", "clear">>
  BY DEF QuarantineWrites, Quarantine, Terminal
<1>1. \E p \in {Q, <<>>}, t \in Terminal : RowWrites(r) = p \o t
  <2>1. CASE Row(r) = 1
    <3>1. RowWrites(r) = <<>>
      BY <2>1 DEF RowWrites
    <3> HIDE DEF Q
    <3>2. QED
      BY <1>q, <3>1
  <2>2. CASE Row(r) = 2
    <3>1. RowWrites(r) = Q
      BY <2>2 DEF RowWrites
    <3> HIDE DEF Q
    <3>2. QED
      BY <1>q, <3>1
  <2>3. CASE Row(r) = 4
    <3>1. RowWrites(r) = (IF DispatchPresent(r) /\ Actionable(r) THEN Q ELSE <<>>) \o <<"refuse">>
      BY <2>3 DEF RowWrites
    <3> HIDE DEF Q
    <3>2. QED
      BY <1>q, <3>1
  <2>4. CASE Row(r) = 5
    <3>1. RowWrites(r) = Q \o <<"unknown">>
      BY <2>4 DEF RowWrites
    <3> HIDE DEF Q
    <3>2. QED
      BY <1>q, <3>1
  <2>5. CASE Row(r) = 7 \/ (Row(r) = 11 /\ docs[r]["submission"] # "corrupt")
    <3>1. RowWrites(r) = (IF SwitchUnproven(r) /\ Actionable(r) THEN Q ELSE <<>>) \o <<"failed">>
      BY <2>5 DEF RowWrites
    <3> HIDE DEF Q
    <3>2. QED
      BY <1>q, <3>1
  <2>6. CASE /\ Row(r) \notin {1, 2, 4, 5, 7}
             /\ ~(Row(r) = 11 /\ docs[r]["submission"] # "corrupt")
    <3>1. RowWrites(r) = <<"refuse">>
      BY <2>6 DEF RowWrites
    <3> HIDE DEF Q
    <3>2. QED
      BY <1>q, <3>1
  <2>7. QED
    BY <2>1, <2>2, <2>3, <2>4, <2>5, <2>6
<1> HIDE DEF Q
<1>2. PICK p \in {Q, <<>>}, t \in Terminal : RowWrites(r) = p \o t
  BY <1>1
<1>3. p \in Quarantine
  BY <1>q
<1>4. /\ Late(p \o t)
      /\ Has(p \o t, "clear") <=> p # <<>>
      /\ Has(p \o t, "mark") <=> p = <<"fence", "mark", "clear">>
  BY <1>3, LateList, ListLemma
<1>5. QED
  BY <1>q, <1>2, <1>4

\* What the fourth layer says about the task that is at work.
LEMMA InCustody ==
  ASSUME Keeping, damage = 0, NEW r \in Runs
  PROVE  /\ ctx \in [Runs -> Context] /\ ctx[r] \in Context /\ agent \in [Runs -> AgentType]
         /\ agent[r] \in AgentType /\ session \in SessionType
         /\ lock \in [holder : Runs \cup {NoRun}, expired : BOOLEAN]
         /\ Task(ctx[r], session, markers[r], agent[r], intent[r], lost) /\ Evidence(r) /\ Custody(r)
  BY AtWork DEF Keeping, Convergence, RunInvariant, TypeOK

\* No task holds anything once it is gone.
LEMMA IdleCustody ==
  ASSUME NEW r \in Runs, ctx[r] = Idle
  PROVE  Custody(r)
<1>1. ctx[r].step = "idle" /\ ~ctx[r].leased
  BY DEF Idle
<1>2. QED
  BY <1>1 DEF Custody, Leased, InTurn

\* A task keeps the custody of its Session: up to the configuration.
LEMMA CustodyOnTheWay ==
  ASSUME Keeping, damage = 0, NEW r \in Runs, Reserve(r) \/ Submission(r) \/ Startup(r)
  PROVE  Custody(r)'
<1> USE DEF At, Go, End, env, world, store
<1>t. /\ ctx \in [Runs -> Context] /\ ctx[r] \in Context /\ session \in SessionType
      /\ lock \in [holder : Runs \cup {NoRun}, expired : BOOLEAN]
      /\ Task(ctx[r], session, markers[r], agent[r], intent[r], lost) /\ Custody(r)
  BY InCustody
<1>1. CASE Reserve(r)
  <2>1. ctx[r].step = "idle" /\ ~ctx[r].leased
    BY <1>1, <1>t DEF Reserve, SessionFree, Task, Idle
  <2>2. ctx'[r].step = "reserved" /\ ~ctx'[r].leased
    BY <1>1, <1>t, <2>1 DEF Reserve, Context
  <2>3. QED
    BY <2>2 DEF Custody, Leased, InTurn
<1>2. CASE SubmissionLost(r) \/ RegistrationFails(r)
  <2>1. ctx'[r] = Idle
    BY <1>2, <1>t DEF SubmissionLost, RegistrationFails
  <2>2. ctx'[r].step = "idle" /\ ~ctx'[r].leased
    BY <2>1 DEF Idle
  <2>3. QED
    BY <2>2 DEF Custody, Leased, InTurn
<1>3. CASE Accept(r) \/ WriteSpec(r) \/ WriteLaunch(r) \/ Spawn(r) \/ PreDispatchFails(r)
  <2>1. UNCHANGED <<intent, session, lock, agent>> /\ ctx'[r].leased = ctx[r].leased
    BY <1>3, <1>t DEF Accept, WriteSpec, WriteLaunch, Spawn, PreDispatchFails, Context
  <2>2. \/ ctx'[r].step \in {"admit", "launch", "bind", "finalize"} /\ ctx[r].step \in Undispatched
        \/ ctx'[r].step = "open" /\ ctx[r].step = "spawn"
    BY <1>3, <1>t DEF Accept, WriteSpec, WriteLaunch, Spawn, PreDispatchFails, Context, Undispatched
  <2>3. QED
    BY <1>t, <2>1, <2>2 DEF Custody, Leased, InTurn, Undispatched, Blocked
<1>4. CASE BindCreate(r) \/ CreateRecord(r) \/ LoadSession(r)
  <2>1. /\ UNCHANGED <<intent, lock, agent>> /\ ctx'[r].leased = ctx[r].leased
        /\ session'.fence = session.fence /\ session'.quarantined = session.quarantined
    BY <1>4, <1>t DEF BindCreate, CreateRecord, LoadSession, Context, SessionType
  <2>2. \/ ctx'[r].step \in {"spawn", "lease"} /\ intent[r] = "create" /\ ctx[r].step \in Undispatched
        \/ ctx'[r].step = "config" /\ ctx[r].step = "open" /\ intent[r] = "reuse"
    BY <1>4, <1>t DEF BindCreate, CreateRecord, LoadSession, Context, Undispatched
  <2>3. QED
    BY <1>t, <2>1, <2>2 DEF Custody, Leased, InTurn, Undispatched, Blocked
<1>5. CASE BindReuse(r) \/ LeaseCreated(r)
  <2>1. /\ UNCHANGED <<session, agent>> /\ ~Blocked
        /\ lock'.holder = r /\ ctx'[r].leased /\ ctx'[r].step \in {"spawn", "config"}
    BY <1>5, <1>t DEF BindReuse, LeaseCreated, Leasable, Context
  <2>2. QED
    BY <2>1 DEF Custody, Leased, InTurn, Blocked
<1>6. QED
  BY <1>1, <1>2, <1>3, <1>4, <1>5 DEF Submission, Startup

\* Through the configuration and the turn.
LEMMA CustodyInTheTurn ==
  ASSUME Keeping, damage = 0, NEW r \in Runs, Switch(r) \/ Turn(r)
  PROVE  Custody(r)'
<1> USE DEF At, Go, env, world, store
<1>t. /\ ctx \in [Runs -> Context] /\ ctx[r] \in Context /\ session \in SessionType
      /\ ctx[r].seen \in Observations
      /\ agent \in [Runs -> AgentType] /\ agent[r] \in AgentType
      /\ Task(ctx[r], session, markers[r], agent[r], intent[r], lost) /\ Custody(r)
  BY InCustody DEF Context
<1>1. CASE Switch(r)
  <2>1. /\ UNCHANGED <<intent, lock>> /\ ctx'[r].leased = ctx[r].leased
        /\ session'.fence = session.fence /\ session'.quarantined = session.quarantined
        /\ ctx[r].step \in Undispatched /\ ctx[r].step \in Leased
        /\ ctx'[r].step \in {"plan", "setting", "rollback", "rolled", "proven", "commit", "dispatch",
                             "finalize"}
    <3>1. CASE AnnounceSwitch(r) \/ RollbackMarked(r) \/ SwitchMarked(r)
      BY <1>t, <3>1 DEF AnnounceSwitch, RollbackMarked, SwitchMarked, Context, Undispatched, Leased
    <3>2. CASE SendSet(r) \/ SetProven(r) \/ SetFails(r) \/ RollbackFails(r) \/ SwitchInterrupted(r)
      BY <1>t, <3>2 DEF SendSet, SetProven, SetFails, RollbackFails, SwitchInterrupted, Context,
           Undispatched, Leased
    <3>3. CASE RollbackProven(r) \/ CommitEffective(r)
      BY <1>t, <3>3 DEF RollbackProven, CommitEffective, Context, Undispatched, Leased, SessionType
    <3>4. QED
      BY <1>1, <3>1, <3>2, <3>3 DEF Switch
  <2>2. QED
    BY <1>t, <2>1 DEF Custody, Leased, InTurn, Undispatched, Blocked
<1>2. CASE Turn(r)
  <2>1. UNCHANGED <<intent, lock, session>>
    BY <1>2, Zenon DEF Turn, MarkDispatch, MarkDispatchFails, PromptEvidenceFails, SendPrompt,
         PromptAccepted, TurnEnds, TurnTimesOut, TurnLost, TurnInterrupted
  <2>2. ctx[r].step \in {"dispatch", "prompt", "turn"}
    BY <1>2, Zenon DEF Turn, MarkDispatch, MarkDispatchFails, PromptEvidenceFails, SendPrompt,
         PromptAccepted, TurnEnds, TurnTimesOut, TurnLost, TurnInterrupted
  <2>3. CASE MarkDispatch(r)
    <3>1. /\ ctx[r].step = "dispatch" /\ ctx'[r].step = "prompt" /\ ctx'[r].leased = ctx[r].leased
          /\ agent' = agent
      BY <1>t, <2>3 DEF MarkDispatch, Context
    <3>2. agent[r].turn = "none"
      BY <1>t, <3>1 DEF Task, Dispatching, Undispatched
    <3>3. QED
      BY <1>t, <2>1, <3>1, <3>2 DEF Custody, Leased, InTurn, Undispatched, Blocked
  <2>4. CASE SendPrompt(r)
    <3>1. /\ ctx[r].step = "prompt" /\ ctx'[r].step = "turn" /\ ctx'[r].leased = ctx[r].leased
          /\ agent'[r].turn = "prompted"
      BY <1>t, <2>4 DEF SendPrompt, Context, AgentType
    <3>2. QED
      BY <1>t, <2>1, <3>1 DEF Custody, Leased, InTurn, Undispatched, Blocked
  <2>5. CASE PromptAccepted(r)
    BY <1>t, <2>1, <2>5 DEF PromptAccepted, Custody, Blocked
  <2>6. CASE ctx'[r].step = "finalize" /\ ctx'[r].leased = ctx[r].leased
    BY <1>t, <2>1, <2>6 DEF Custody, Leased, InTurn, Undispatched
  <2>7. CASE TurnEnds(r)
    <3>1. ctx'[r].step = "finalize" /\ ctx'[r].leased = ctx[r].leased
      BY <1>t, <2>7 DEF TurnEnds, Context
    <3>2. QED
      BY <2>6, <3>1
  <2>8. CASE TurnLost(r)
    <3>1. ctx'[r].step = "finalize" /\ ctx'[r].leased = ctx[r].leased
      BY <1>t, <2>8 DEF TurnLost, Context
    <3>2. QED
      BY <2>6, <3>1
  <2>9. CASE TurnInterrupted(r)
    <3>1. ctx'[r].step = "finalize" /\ ctx'[r].leased = ctx[r].leased
      BY <1>t, <2>9 DEF TurnInterrupted, Context
    <3>2. QED
      BY <2>6, <3>1
  <2>10. CASE MarkDispatchFails(r) \/ PromptEvidenceFails(r) \/ TurnTimesOut(r)
    <3>1. ctx'[r].step = "finalize" /\ ctx'[r].leased = ctx[r].leased
      BY <1>t, <2>10 DEF MarkDispatchFails, PromptEvidenceFails, TurnTimesOut, Context
    <3>2. QED
      BY <2>6, <3>1
  <2>11. QED
    BY <1>2, <2>3, <2>4, <2>5, <2>7, <2>8, <2>9, <2>10 DEF Turn
<1>3. QED
  BY <1>1, <1>2

\* And to its end.
LEMMA CustodyAtTheEnd ==
  ASSUME Keeping, damage = 0, NEW r \in Runs, Finalization(r)
  PROVE  Custody(r)'
<1> USE DEF At, Go, End, env, world, store
<1>t. /\ ctx \in [Runs -> Context] /\ ctx[r] \in Context /\ Custody(r)
      /\ ctx[r].seen \in Observations /\ ctx[r].verdict \in Verdict
  BY InCustody DEF Context
<1>1. CASE ctx'[r] = Idle
  <2>1. ctx'[r].step = "idle" /\ ~ctx'[r].leased
    BY <1>1 DEF Idle
  <2>2. QED
    BY <2>1 DEF Custody, Leased, InTurn
<1>2. CASE /\ ctx'[r].step \in {"emergency", "fence", "mark", "clear", "result", "release"}
           /\ ctx'[r].leased = ctx[r].leased /\ lock' = lock
  BY <1>t, <1>2 DEF Custody, Leased, InTurn, Undispatched
<1>3. CASE Conclude(r)
  BY <1>2, <1>3, <1>t DEF Conclude, Context
<1>4. CASE EmergencyCleanup(r)
  BY <1>1, <1>2, <1>4, <1>t DEF EmergencyCleanup, Context
<1>5. CASE FinalizationFails(r) \/ WriteFence(r) \/ MarkQuarantined(r)
  BY <1>2, <1>5, <1>t DEF FinalizationFails, WriteFence, MarkQuarantined, Context
<1>6. CASE ClearFence(r) \/ QuarantineFails(r)
  BY <1>1, <1>2, <1>6, <1>t DEF ClearFence, QuarantineFails, Resume, Context
<1>7. CASE PublishResult(r)
  BY <1>1, <1>2, <1>7, <1>t DEF PublishResult, Context
<1>8. CASE PublishFails(r) \/ ReleaseLease(r)
  BY <1>1, <1>8, <1>t DEF PublishFails, ReleaseLease
<1>9. QED
  BY <1>3, <1>4, <1>5, <1>6, <1>7, <1>8 DEF Finalization

\* The only task is the one that takes the step.
LEMMA OthersIdle ==
  ASSUME Convergence, NEW r \in Runs, Reserve(r) \/ RunStep(r), NEW q \in Runs \ {r}
  PROVE  ctx[q] = Idle /\ ctx'[q] = Idle
<1>1. ctx[q].step = "idle"
  <2>1. CASE Reserve(r)
    BY <2>1 DEF Reserve, SessionFree
  <2>2. CASE RunStep(r)
    <3>1. ctx[r].step # "idle"
      BY <2>2, TaskMoves DEF Convergence, RunInvariant
    <3>2. QED
      BY <3>1 DEF Convergence, RunInvariant, OneTask
  <2>3. QED
    BY <2>1, <2>2
<1>2. Apart(r)
  BY StepsApart DEF Convergence, RunInvariant
<1>3. QED
  BY <1>1, <1>2 DEF Apart, Convergence, RunInvariant, OneTask, Task

LEMMA RunStepsKeep ==
  ASSUME Keeping, damage = 0, NEW r \in Runs, Reserve(r) \/ RunStep(r)
  PROVE  ClearsLate' /\ \A q \in Runs : Custody(q)'
<1>1. Convergence /\ TypeOK
  BY DEF Keeping, Convergence, RunInvariant
<1>2. Custody(r)'
  BY CustodyOnTheWay, CustodyInTheTurn, CustodyAtTheEnd DEF RunStep
<1>3. ASSUME NEW q \in Runs \ {r} PROVE Custody(q)'
  <2>1. ctx'[q].step = "idle" /\ ~ctx'[q].leased
    BY <1>1, OthersIdle DEF Idle
  <2>2. QED
    BY <2>1 DEF Custody, Leased, InTurn
<1>4. ClearsLate'
  <2>1. daemon' = daemon
    BY <1>1, StepsApart DEF Apart
  <2>2. daemon.phase = "listening"
    <3>1. CASE Reserve(r)
      BY <3>1 DEF Reserve
    <3>2. CASE RunStep(r)
      BY <1>1, <3>2, TaskMoves, AtWork
    <3>3. QED
      BY <3>1, <3>2
  <2>3. daemon'.left = <<>>
    BY <1>1, <2>1, <2>2 DEF Convergence, RunInvariant, OneTask
  <2>4. QED
    BY <2>3, NoWrites DEF ClearsLate, Late
<1>5. QED
  BY <1>2, <1>3, <1>4

LEMMA ReconciliationKeeps ==
  ASSUME Keeping, damage = 0, Reconciliation \/ Crash
  PROVE  ClearsLate' /\ \A r \in Runs : Custody(r)'
<1>t. /\ TypeOK /\ Convergence /\ ClearsLate /\ \A r \in Runs : Custody(r)
      /\ daemon \in [phase : {"down", "reconciling", "listening", "refused"},
                     todo : SUBSET Runs, run : Runs \cup {NoRun}, left : Seq(Writes)]
      /\ session \in SessionType
  BY DEF Keeping, Convergence, RunInvariant, TypeOK, SessionType
<1>e. Len(<<>>) = 0 /\ Late(<<>>) /\ \A x : ~Has(<<>>, x)
  BY NoWrites DEF Late
<1>1. CASE Start \/ Listen \/ Crash
  <2>1. UNCHANGED <<intent, session, lock, agent>> /\ \A r \in Runs : ctx'[r] \in {ctx[r], Idle}
    BY <1>1 DEF Start, Listen, Crash
  <2>2. daemon'.left = <<>>
    <3>1. CASE Start
      BY <1>t, <3>1 DEF Start, Convergence, RunInvariant, OneTask
    <3>2. CASE Listen \/ Crash
      BY <3>2 DEF Listen, Crash, Down, Listening
    <3>3. QED
      BY <1>1, <3>1, <3>2
  <2>3. ClearsLate'
    BY <1>e, <2>2 DEF ClearsLate
  <2>4. ASSUME NEW r \in Runs PROVE Custody(r)'
    <3>1. CASE ctx'[r] = ctx[r]
      BY <1>t, <2>1, <3>1 DEF Custody, Blocked
    <3>2. CASE ctx'[r] = Idle
      <4>1. ctx'[r].step = "idle" /\ ~ctx'[r].leased
        BY <3>2 DEF Idle
      <4>2. QED
        BY <4>1 DEF Custody, Leased, InTurn
    <3>3. QED
      BY <2>1, <3>1, <3>2
  <2>5. QED
    BY <2>3, <2>4
<1>2. ASSUME NEW r \in Runs, ClassifyRun(r) PROVE ClearsLate' /\ \A q \in Runs : Custody(q)'
  <2>1. UNCHANGED <<intent, session, lock, ctx, agent>>
    BY <1>2 DEF ClassifyRun
  <2>2. daemon'.left = RowWrites(r) /\ daemon'.run = r /\ result' = result
    BY <1>t, <1>2 DEF ClassifyRun, store
  <2>3. ClearsLate'
    <3>1. Has(RowWrites(r), "clear") => result[r] \in {"absent", "unknown"}
      <4>1. PICK p \in Quarantine, t \in Terminal :
              RowWrites(r) = p \o t /\ (p # <<>> => Condemned(r) \/ result[r] = "corrupt")
        BY <1>t, RowLemma
      <4>2. Has(RowWrites(r), "clear") <=> p # <<>>
        BY <4>1, ListLemma
      <4>3. result[r] # "corrupt"
        BY <1>t DEF Convergence, RunInvariant, EvidenceHolds, Evidence
      <4>4. QED
        BY <4>1, <4>2, <4>3 DEF Condemned
    <3>2. QED
      BY <2>1, <2>2, <3>1, RowClearsLate DEF ClearsLate
  <2>4. QED
    BY <1>t, <2>1, <2>3 DEF Custody, Blocked
<1>3. CASE ApplyWrite
  <2>t. /\ daemon.left # <<>> /\ Ordered(daemon.left) /\ \A r \in Runs : ctx[r] = Idle
        /\ UNCHANGED <<intent, lock, ctx, agent>>
    BY <1>t, <1>3, NoTask DEF ApplyWrite, Convergence, RunInvariant, InOrder
  <2>1. PICK write, rest : write = Head(daemon.left) /\ rest = Tail(daemon.left)
    OBVIOUS
  <2>2. /\ \A x : Has(daemon.left, x) <=> write = x \/ Has(rest, x)
        /\ write \in {"unknown", "failed", "refuse"} => rest = <<>>
        /\ Late(rest) /\ (write = "clear" => ~Has(rest, "mark"))
    BY <1>t, <2>t, <2>1, TailLemma, LateTail DEF ClearsLate
  <2>3. daemon' = IF write = "refuse" THEN [Down EXCEPT !.phase = "refused"]
                  ELSE [daemon EXCEPT !.left = rest]
    BY <1>3, <2>1 DEF ApplyWrite
  <2>4. daemon'.left = <<>> \/ (write # "refuse" /\ daemon'.left = rest /\ daemon'.run = daemon.run)
    BY <1>t, <2>3 DEF Down, Listening
  <2>5. session'.quarantined = (session.quarantined \/ write = "mark")
    BY <1>t, <1>3, <2>1 DEF ApplyWrite, SessionType
  <2>6. ClearsLate'
    <3>1. CASE daemon'.left = <<>>
      BY <1>e, <3>1 DEF ClearsLate
    <3>2. CASE daemon'.left = rest /\ daemon'.run = daemon.run
      <4>0. Has(rest, "clear") => result' = result
        BY <1>e, <1>3, <2>1, <2>2 DEF ApplyWrite
      <4>1. ASSUME Has(rest, "clear"), ~Has(rest, "mark") PROVE session'.quarantined
        <5>1. CASE write = "mark"
          BY <2>5, <5>1
        <5>2. CASE write # "mark"
          BY <1>t, <2>2, <2>5, <4>1, <5>2 DEF ClearsLate
        <5>3. QED
          BY <5>1, <5>2
      <4>2. QED
        BY <1>t, <2>2, <3>2, <4>0, <4>1 DEF ClearsLate
    <3>3. QED
      BY <2>4, <3>1, <3>2
  <2>7. ASSUME NEW r \in Runs PROVE Custody(r)'
    <3>1. ctx'[r].step = "idle" /\ ~ctx'[r].leased
      BY <2>t DEF Idle
    <3>2. QED
      BY <3>1 DEF Custody, Leased, InTurn
  <2>8. QED
    BY <2>6, <2>7
<1>4. QED
  BY <1>1, <1>2, <1>3 DEF Reconciliation

LEMMA NextKeeps == Keeping /\ [Next]_vars => Keeping'
<1> SUFFICES ASSUME Keeping, [Next]_vars PROVE Keeping'
  OBVIOUS
<1>t. Convergence /\ TypeOK
  BY DEF Keeping, Convergence, RunInvariant
<1>1. Convergence'
  BY <1>t, NextConverges
<1> SUFFICES ASSUME damage' = 0 PROVE ClearsLate' /\ \A r \in Runs : Custody(r)'
  BY <1>1 DEF Keeping
<1>2. CASE \E r \in Runs : Reserve(r) \/ RunStep(r)
  <2>1. PICK r \in Runs : Reserve(r) \/ RunStep(r)
    BY <1>2
  <2>2. damage = 0
    BY <1>t, <2>1, StepsApart DEF Apart
  <2>3. QED
    BY <2>1, <2>2, RunStepsKeep
<1>3. CASE Reconciliation \/ Crash
  <2>1. damage = 0
    BY <1>3, Zenon DEF Reconciliation, Start, ClassifyRun, ApplyWrite, Listen, Crash
  <2>2. QED
    BY <1>3, <2>1, ReconciliationKeeps
<1>4. CASE \E r \in Runs : ContainInvalidTerminal(r) \/ Damage(r) \/ MarkerUnreadable(r)
  <2>1. PICK r \in Runs : ContainInvalidTerminal(r) \/ Damage(r) \/ MarkerUnreadable(r)
    BY <1>4
  <2>2. ~Damage(r) /\ ~MarkerUnreadable(r)
    BY <1>t, BoundsAssumption DEF Damage, MarkerUnreadable, TypeOK
  <2>3. damage = 0 /\ result[r] = "corrupt"
    BY <2>1, <2>2 DEF ContainInvalidTerminal, env, world
  <2>4. QED
    BY <1>t, <2>3 DEF Convergence, RunInvariant, EvidenceHolds, Evidence
<1>5. CASE LeaseExpires \/ UNCHANGED vars
  <2>1. /\ UNCHANGED <<intent, result, session, ctx, daemon, agent, damage>>
        /\ lock'.holder = lock.holder
    BY <1>t, <1>5 DEF LeaseExpires, vars, env, world, store, TypeOK
  <2>2. QED
    BY <2>1 DEF Keeping, ClearsLate, Custody, Blocked
<1>6. QED
  BY <1>2, <1>3, <1>4, <1>5 DEF Next

\* The fourth layer holds of every behaviour: a task that prompts holds an open
\* Session, and no fence goes before the quarantine it announced is durable.
THEOREM KeepingHolds == Spec => []Keeping
<1>1. Init => Keeping
  <2> SUFFICES ASSUME Init PROVE Keeping
    OBVIOUS
  <2>1. daemon.left = <<>> /\ \A r \in Runs : ctx[r] = Idle
    BY DEF Init, Listening
  <2>2. ClearsLate
    BY <2>1, NoWrites DEF ClearsLate, Late
  <2>3. QED
    BY <2>1, <2>2, IdleCustody, InitConverges DEF Keeping
<1>2. QED
  BY <1>1, NextKeeps, PTL DEF Spec

\* The Runs at work, for the promise.
Working == {q \in Runs : ctx[q].step # "idle"}

\* The Session before and after a step of Run r.
LEMMA AloneAtWork ==
  ASSUME Convergence, NEW r \in Runs, RunStep(r)
  PROVE  /\ Working = {r} /\ r \in made
         /\ Working' = IF ctx'[r].step = "idle" THEN {} ELSE {r}
<1>1. ctx[r].step # "idle" /\ Idle.step = "idle"
  BY TaskMoves DEF Convergence, RunInvariant, Idle
<1>2. \A q \in Runs \ {r} : ctx[q].step = "idle" /\ ctx'[q].step = "idle"
  BY <1>1, OthersIdle
<1>3. QED
  BY <1>1, <1>2, AtWork DEF Working

\* What a step of a task does to the promise, if it is none of the ones below.
LEMMA QuietTaskKeepsPromise ==
  ASSUME Convergence, NEW r \in Runs, RunStep(r), UNCHANGED <<made, result>>,
         lock'.holder = lock.holder, Blocked' = Blocked,
         \A q \in Runs : agent'[q].turn = agent[q].turn
  PROVE  Promise!Next \/ UNCHANGED Promise!vars
<1>1. Working' = Working \/ Working' = {}
  BY AloneAtWork
<1>2. [q \in Runs |-> agent'[q].turn] = [q \in Runs |-> agent[q].turn]
  OBVIOUS
<1>3. CASE Working' = Working
  BY <1>2, <1>3 DEF Promise!vars, Working
<1>4. CASE Working' = {}
  <2>1. Promise!Stop
    BY <1>2, <1>4 DEF Promise!Stop, Working
  <2>2. QED
    BY <2>1 DEF Promise!Next
<1>5. QED
  BY <1>1, <1>3, <1>4

\* An open Session in a daemon that listens has no uncertain prompt but that of the
\* task at work.
LEMMA CertainWhenOpen ==
  ASSUME Keeping, damage = 0, "fence" \notin lost,
         daemon.phase = "listening", NEW q \in Runs, Uncertain(q), ctx[q].step = "idle"
  PROVE  Blocked
<1>1. Evidence(q)
  BY InCustody
<1>2. QED
  BY <1>1 DEF Evidence, WillQuarantine, Blocked

\* Steps of a task that leave every fact of the promise alone.
LEMMA QuietTasks ==
  ASSUME Keeping, damage = 0, NEW r \in Runs, RunStep(r),
         \/ Accept(r) \/ SubmissionLost(r)
         \/ Startup(r) /\ ~BindReuse(r) /\ ~LeaseCreated(r)
         \/ Switch(r)
         \/ Turn(r) /\ ~SendPrompt(r) /\ ~TurnEnds(r)
         \/ Conclude(r) \/ FinalizationFails(r) \/ EmergencyCleanup(r) \/ ClearFence(r)
         \/ QuarantineFails(r)
  PROVE  Promise!Next \/ UNCHANGED Promise!vars
<1> USE DEF env, world, store
<1>t. /\ Convergence /\ agent \in [Runs -> AgentType] /\ session \in SessionType
      /\ Task(ctx[r], session, markers[r], agent[r], intent[r], lost)
  BY InCustody DEF Keeping
<1>1. UNCHANGED <<made, result, lock>> /\ \A q \in Runs : agent'[q].turn = agent[q].turn
  <2>1. CASE Accept(r) \/ SubmissionLost(r)
    BY <2>1 DEF Accept, SubmissionLost
  <2>2. CASE Startup(r) /\ ~BindReuse(r) /\ ~LeaseCreated(r)
    BY <2>2 DEF Startup, WriteSpec, WriteLaunch, BindCreate, Spawn, CreateRecord, LoadSession,
                PreDispatchFails
  <2>3. CASE Switch(r)
    BY <1>t, <2>3 DEF Switch, AnnounceSwitch, SendSet, SetProven, SetFails, RollbackProven,
         RollbackMarked, RollbackFails, SwitchInterrupted, SwitchMarked, CommitEffective, AgentType
  <2>4. CASE Turn(r) /\ ~SendPrompt(r) /\ ~TurnEnds(r)
    BY <2>4, Zenon DEF Turn, MarkDispatch, MarkDispatchFails, PromptEvidenceFails, PromptAccepted,
         TurnTimesOut, TurnLost, TurnInterrupted
  <2>5. CASE Conclude(r) \/ FinalizationFails(r) \/ EmergencyCleanup(r) \/ ClearFence(r)
             \/ QuarantineFails(r)
    BY <2>5, Zenon DEF Conclude, FinalizationFails, EmergencyCleanup, ClearFence, QuarantineFails
  <2>6. QED
    BY <2>1, <2>2, <2>3, <2>4, <2>5
<1>2. Blocked' = Blocked
  <2>1. CASE ClearFence(r)
    <3>1. session.quarantined /\ session'.quarantined
      BY <1>t, <2>1 DEF ClearFence, Task, Concluding, At, SessionType
    <3>2. QED
      BY <3>1 DEF Blocked
  <2>2. CASE CreateRecord(r) \/ RollbackProven(r) \/ CommitEffective(r)
    BY <1>t, <2>2 DEF CreateRecord, RollbackProven, CommitEffective, SessionType, Blocked
  <2>3. CASE ~ClearFence(r) /\ ~CreateRecord(r) /\ ~RollbackProven(r) /\ ~CommitEffective(r)
    <3>1. session' = session
      <4>1. CASE Accept(r) \/ SubmissionLost(r)
        BY <4>1 DEF Accept, SubmissionLost
      <4>2. CASE Startup(r) /\ ~BindReuse(r) /\ ~LeaseCreated(r)
        BY <2>3, <4>2 DEF Startup, WriteSpec, WriteLaunch, BindCreate, Spawn, LoadSession,
                    PreDispatchFails
      <4>3. CASE Switch(r)
        BY <2>3, <4>3 DEF Switch, AnnounceSwitch, SendSet, SetProven, SetFails,
             RollbackMarked, RollbackFails, SwitchInterrupted, SwitchMarked
      <4>4. CASE Turn(r) /\ ~SendPrompt(r) /\ ~TurnEnds(r)
        BY <4>4, Zenon DEF Turn, MarkDispatch, MarkDispatchFails, PromptEvidenceFails, PromptAccepted,
             TurnTimesOut, TurnLost, TurnInterrupted
      <4>5. CASE Conclude(r) \/ FinalizationFails(r) \/ EmergencyCleanup(r) \/ QuarantineFails(r)
        BY <4>5, Zenon DEF Conclude, FinalizationFails, EmergencyCleanup, QuarantineFails
      <4>6. QED
        BY <2>3, <4>1, <4>2, <4>3, <4>4, <4>5
    <3>2. QED
      BY <3>1 DEF Blocked
  <2>4. QED
    BY <2>1, <2>2, <2>3
<1>3. QED
  BY <1>t, <1>1, <1>2, QuietTaskKeepsPromise

\* A Run begins, takes the Session, prompts its agent and gets its answer.
LEMMA WorkKeepsPromise ==
  ASSUME Keeping, damage = 0, "fence" \notin lost, NEW r \in Runs,
         Reserve(r) \/ BindReuse(r) \/ LeaseCreated(r) \/ SendPrompt(r) \/ TurnEnds(r)
  PROVE  Promise!Next
<1> USE DEF env, world, store, At, Go
<1>t. /\ Convergence /\ agent \in [Runs -> AgentType] /\ ctx \in [Runs -> Context]
      /\ ctx[r] \in Context /\ ctx[r].seen \in Observations
      /\ Custody(r) /\ Task(ctx[r], session, markers[r], agent[r], intent[r], lost)
  BY InCustody DEF Keeping, Context
<1>1. CASE Reserve(r)
  <2>1. /\ daemon.phase = "listening" /\ r \notin made /\ made' = made \cup {r}
        /\ UNCHANGED <<lock, session, result, agent>> /\ \A q \in Runs : ctx[q].step = "idle"
    BY <1>1 DEF Reserve, SessionFree
  <2>2. Working = {} /\ Working' = {r}
    <3>1. ctx'[r].step = "reserved" /\ \A q \in Runs \ {r} : ctx'[q] = ctx[q]
      BY <1>1, <1>t DEF Reserve, Context
    <3>2. QED
      BY <2>1, <3>1 DEF Working
  <2>3. \A q \in Runs : agent[q].turn = "prompted" => Blocked
    BY <2>1, CertainWhenOpen DEF Uncertain
  <2>4. Promise!Begin(r)
    BY <2>1, <2>2, <2>3 DEF Promise!Begin, Promise!Uncertain, Working, Blocked
  <2>5. QED
    BY <2>4 DEF Promise!Next
<1>2. CASE BindReuse(r) \/ LeaseCreated(r)
  <2>1. RunStep(r)
    BY <1>2 DEF RunStep, Startup
  <2>2. /\ UNCHANGED <<made, result, session, agent>> /\ lock'.holder = r /\ ~Blocked
        /\ ctx'[r].step \in {"spawn", "config"}
    BY <1>2, <1>t DEF BindReuse, LeaseCreated, Leasable, Context
  <2>3. Working = {r} /\ Working' = {r}
    BY <1>t, <2>1, <2>2, AloneAtWork
  <2>4. Promise!Take(r)
    BY <2>2, <2>3 DEF Promise!Take, Working, Blocked
  <2>5. QED
    BY <2>4 DEF Promise!Next
<1>3. CASE SendPrompt(r)
  <2>1. RunStep(r)
    BY <1>3 DEF RunStep, Turn
  <2>2. /\ UNCHANGED <<made, result, session, lock>> /\ ctx[r].step = "prompt"
        /\ ctx'[r].step = "turn" /\ agent' = [agent EXCEPT ![r].turn = "prompted"]
    BY <1>3, <1>t DEF SendPrompt, Context
  <2>3. Working = {r} /\ Working' = {r}
    BY <1>t, <2>1, <2>2, AloneAtWork
  <2>4. lock.holder = r /\ ~Blocked /\ agent[r].turn = "none"
    BY <1>t, <2>2 DEF Custody, Leased, InTurn
  <2>5. daemon.phase = "listening"
    BY <1>t, <2>2, AtWork
  <2>6. ASSUME NEW q \in Runs PROVE agent[q].turn # "prompted"
    <3>1. CASE q = r
      BY <2>4, <3>1
    <3>2. CASE q # r
      <4>1. ctx[q].step = "idle"
        BY <2>3, <3>2 DEF Working
      <4>2. QED
        BY <2>4, <2>5, <4>1, CertainWhenOpen DEF Uncertain
    <3>3. QED
      BY <3>1, <3>2
  <2>7. [q \in Runs |-> agent'[q].turn] = [[q \in Runs |-> agent[q].turn] EXCEPT ![r] = "prompted"]
    BY <1>t, <2>2 DEF AgentType
  <2>8. Promise!Prompt(r)
    BY <2>2, <2>3, <2>4, <2>6, <2>7 DEF Promise!Prompt, Promise!Uncertain, Working, Blocked
  <2>9. QED
    BY <2>8 DEF Promise!Next
<1>4. CASE TurnEnds(r)
  <2>1. RunStep(r)
    BY <1>4 DEF RunStep, Turn
  <2>2. /\ UNCHANGED <<made, result, session, lock>> /\ ctx[r].step = "turn"
        /\ ctx'[r].step = "finalize" /\ agent' = [agent EXCEPT ![r].turn = "answered"]
    <3>1. PICK stop \in StopReasons \ {"none"}, violated \in BOOLEAN :
            ctx' = [ctx EXCEPT ![r].step = "finalize", ![r].seen.stop = stop,
                               ![r].seen.violation = violated]
      BY <1>4, Zenon DEF TurnEnds
    <3>2. ctx'[r].step = "finalize"
      BY <1>t, <3>1 DEF Context
    <3>3. QED
      BY <1>4, <3>2, Zenon DEF TurnEnds
  <2>3. Working = {r} /\ Working' = {r}
    BY <1>t, <2>1, <2>2, AloneAtWork
  <2>4. agent[r].turn = "prompted"
    BY <1>t, <2>2 DEF Custody
  <2>5. [q \in Runs |-> agent'[q].turn] = [[q \in Runs |-> agent[q].turn] EXCEPT ![r] = "answered"]
    BY <1>t, <2>2 DEF AgentType
  <2>6. Promise!Answer(r)
    BY <2>2, <2>3, <2>4, <2>5 DEF Promise!Answer, Promise!Uncertain, Working, Blocked
  <2>7. QED
    BY <2>6 DEF Promise!Next
<1>5. QED
  BY <1>1, <1>2, <1>3, <1>4

\* A Run without terminal closes the Session, if it is not closed already.
LEMMA ClosingKeepsPromise ==
  ASSUME NEW r \in Runs, r \in made, result[r] = "absent", Working \subseteq {r}, Working' = Working,
         UNCHANGED <<made, result, agent>>, lock'.holder = lock.holder, Blocked \/ Blocked',
         Blocked => Blocked'
  PROVE  Promise!Next \/ UNCHANGED Promise!vars
<1>1. CASE Blocked
  <2>1. Blocked' = Blocked
    BY <1>1 DEF Blocked
  <2>2. QED
    BY <2>1 DEF Promise!vars, Working
<1>2. CASE ~Blocked
  <2>1. Blocked' = TRUE
    BY <1>2 DEF Blocked
  <2>2. Promise!Close(r)
    BY <1>2, <2>1 DEF Promise!Close, Working
  <2>3. QED
    BY <2>2 DEF Promise!Next
<1>3. QED
  BY <1>1, <1>2

\* A terminal is published where there was none.
LEMMA PublishingKeepsPromise ==
  ASSUME Keeping, Keeping', damage = 0, damage' = 0, "fence" \notin lost', NEW r \in Runs,
         NEW status \in Statuses, r \in made, result[r] = "absent",
         Working \subseteq {r}, Working' = Working \/ Working' = {},
         result' = [result EXCEPT ![r] = status], UNCHANGED <<made, session, agent>>,
         lock'.holder = lock.holder, status = "completed" => agent[r].turn = "answered"
  PROVE  Promise!Next
<1>1. result'[r] = status /\ status # "absent"
  BY DEF Keeping, Convergence, RunInvariant, TypeOK, Statuses
<1>2. /\ status = "unknown" => session.quarantined
      /\ agent[r].turn = "prompted" => session.quarantined
  <2>1. Evidence(r)' /\ UnknownFollowsMark'
    BY DEF Keeping, Convergence, RunInvariant, EvidenceHolds
  <2>2. QED
    BY <1>1, <2>1 DEF Evidence, UnknownFollowsMark, Uncertain
<1>3. Promise!Publish(r, status)
  BY <1>2 DEF Promise!Publish, Promise!Uncertain, Working, Blocked
<1>4. QED
  BY <1>3 DEF Promise!Next, Statuses

\* A Run ends: it closes the Session if it must, publishes, and hands over.
LEMMA EndKeepsPromise ==
  ASSUME Keeping, Keeping', damage = 0, damage' = 0, "fence" \notin lost, "fence" \notin lost',
         NEW r \in Runs,
         \/ RegistrationFails(r) \/ WriteFence(r) \/ MarkQuarantined(r) \/ PublishResult(r)
         \/ PublishFails(r) \/ ReleaseLease(r)
  PROVE  Promise!Next \/ UNCHANGED Promise!vars
<1> USE DEF env, world, store, At, Go, End
<1>t. /\ Convergence /\ agent \in [Runs -> AgentType] /\ ctx \in [Runs -> Context]
      /\ ctx[r] \in Context /\ ctx[r].verdict \in Verdict /\ session \in SessionType
      /\ result \in [Runs -> {"absent", "corrupt"} \cup Statuses]
      /\ lock \in [holder : Runs \cup {NoRun}, expired : BOOLEAN]
      /\ Custody(r) /\ Evidence(r) /\ Earned(ctx[r], agent[r])
      /\ Task(ctx[r], session, markers[r], agent[r], intent[r], lost)
  BY InCustody, AtWork DEF Keeping, Context
<1>1. RunStep(r)
  BY DEF RunStep, Submission, Finalization
<1>2. /\ Working = {r} /\ r \in made
      /\ Working' = IF ctx'[r].step = "idle" THEN {} ELSE {r}
  BY <1>t, <1>1, AloneAtWork
<1>3. Idle.step = "idle"
  BY DEF Idle
<1>4. CASE RegistrationFails(r)
  <2>1. /\ ctx[r].step = "reserved" /\ UNCHANGED <<made, session, lock, agent>> /\ ctx'[r] = Idle
        /\ \/ result' = [result EXCEPT ![r] = IF @ = "absent" THEN "failed" ELSE @]
           \/ result' = result
    BY <1>4, <1>t DEF RegistrationFails
  <2>2. result[r] = "absent"
    BY <1>t, <2>1 DEF Evidence
  <2>3. CASE result' = result
    <3>1. Blocked' = Blocked
      BY <2>1 DEF Blocked
    <3>2. QED
      BY <1>t, <1>1, <2>1, <2>3, <3>1, QuietTaskKeepsPromise
  <2>4. CASE result' # result
    <3>1. result' = [result EXCEPT ![r] = "failed"]
      BY <1>t, <2>1, <2>2, <2>4
    <3>2. QED
      BY <1>2, <1>3, <2>1, <2>2, <3>1, PublishingKeepsPromise DEF Statuses
  <2>5. QED
    BY <2>3, <2>4
<1>5. CASE WriteFence(r) \/ MarkQuarantined(r)
  <2>1. /\ ctx[r].step \in {"fence", "mark"} /\ ctx'[r].step \in {"mark", "clear"}
        /\ UNCHANGED <<made, result, lock, agent>> /\ Blocked'
    BY <1>5, <1>t DEF WriteFence, MarkQuarantined, Context, SessionType, Blocked
  <2>2. result[r] = "absent"
    BY <1>t, <2>1 DEF Evidence
  <2>3. Working' = Working /\ Working \subseteq {r}
    BY <1>2, <2>1
  <2>4. QED
    BY <1>2, <2>1, <2>2, <2>3, ClosingKeepsPromise
<1>6. CASE PublishResult(r)
  <2>1. ctx[r].step = "result" /\ UNCHANGED <<made, session, lock, agent>>
    BY <1>6 DEF PublishResult
  <2>2. result[r] = "absent"
    BY <1>t, <2>1 DEF Evidence
  <2>3. result' = [result EXCEPT ![r] = ctx[r].verdict.status] /\ ctx'[r].step = "release"
    BY <1>6, <1>t, <2>2 DEF PublishResult, Context
  <2>4. ctx[r].verdict.status \in Statuses
    BY <1>t, <2>1 DEF Task, Concluding, Concluded, Verdict
  <2>5. ctx[r].verdict.status = "completed" => agent[r].turn = "answered"
    BY <1>t DEF Earned
  <2>6. Working' = Working /\ Working \subseteq {r}
    BY <1>2, <2>3
  <2>7. QED
    BY <1>2, <2>1, <2>2, <2>3, <2>4, <2>5, <2>6, PublishingKeepsPromise
<1>7. CASE PublishFails(r)
  <2>1. /\ ctx[r].step = "result" /\ result[r] = "absent" /\ UNCHANGED <<made, session, lock, agent>>
        /\ ctx'[r] = Idle
    BY <1>7, <1>t DEF PublishFails
  <2>2. result' = result \/ result' = [result EXCEPT ![r] = ctx[r].verdict.status]
    BY <1>7 DEF PublishFails
  <2>3. ctx[r].verdict.status \in Statuses
    BY <1>t, <2>1 DEF Task, Concluding, Concluded, Verdict
  <2>4. ctx[r].verdict.status = "completed" => agent[r].turn = "answered"
    BY <1>t DEF Earned
  <2>5. Working' = {} /\ Working \subseteq {r}
    BY <1>2, <1>3, <2>1
  <2>6. CASE result' = result
    <3>1. Blocked' = Blocked
      BY <2>1 DEF Blocked
    <3>2. QED
      BY <1>t, <1>1, <2>1, <2>6, <3>1, QuietTaskKeepsPromise
  <2>7. CASE result' = [result EXCEPT ![r] = ctx[r].verdict.status]
    BY <1>2, <2>1, <2>3, <2>4, <2>5, <2>7, PublishingKeepsPromise
  <2>8. QED
    BY <2>2, <2>6, <2>7
<1>8. CASE ReleaseLease(r)
  <2>1. /\ ctx[r].step = "release" /\ ctx'[r] = Idle /\ UNCHANGED <<made, result, session, agent>>
        /\ lock' = IF ctx[r].leased /\ lock.holder = r THEN FreeLock ELSE lock
    BY <1>8, <1>t DEF ReleaseLease
  <2>2. result[r] \in Statuses /\ (agent[r].turn = "prompted" => Blocked)
    BY <1>t, <2>1 DEF Evidence, Uncertain, Blocked, Statuses
  <2>3. Working' = {}
    BY <1>2, <1>3, <2>1
  <2>4. CASE ctx[r].leased /\ lock.holder = r
    <3>1. lock'.holder = NoRun
      BY <2>1, <2>4 DEF FreeLock
    <3>2. Promise!HandOver(r)
      BY <1>2, <2>1, <2>2, <2>3, <2>4, <3>1
         DEF Promise!HandOver, Promise!Uncertain, Working, Blocked, Statuses
    <3>3. QED
      BY <3>2 DEF Promise!Next
  <2>5. CASE ~(ctx[r].leased /\ lock.holder = r)
    <3>1. lock' = lock /\ Blocked' = Blocked
      BY <2>1, <2>5 DEF Blocked
    <3>2. QED
      BY <1>t, <1>1, <2>1, <3>1, QuietTaskKeepsPromise
  <2>6. QED
    BY <2>4, <2>5
<1>9. QED
  BY <1>4, <1>5, <1>6, <1>7, <1>8

\* The writes of the reconciliation close the Session because of the Run they are
\* for, or publish for it, while no Run is at work.
LEMMA WritesKeepPromise ==
  ASSUME Keeping, Keeping', damage = 0, damage' = 0, "fence" \notin lost, "fence" \notin lost',
         ApplyWrite
  PROVE  Promise!Next \/ UNCHANGED Promise!vars
<1>t. /\ daemon.left \in Seq(Writes) /\ daemon.left # <<>> /\ Ordered(daemon.left)
      /\ Late(daemon.left) /\ ClearsLate
      /\ daemon.run \in made /\ daemon.run \in Runs /\ session \in SessionType
      /\ result \in [Runs -> {"absent", "corrupt"} \cup Statuses]
      /\ UNCHANGED <<made, lock, ctx, agent>> /\ \A q \in Runs : ctx[q].step = "idle"
  BY NoTask DEF ApplyWrite, Keeping, Convergence, RunInvariant, OneTask, TypeOK, InOrder, ClearsLate,
                SessionType, Idle
<1>1. PICK write, rest, run :
        write = Head(daemon.left) /\ rest = Tail(daemon.left) /\ run = daemon.run
  OBVIOUS
<1>2. /\ \A x : Has(daemon.left, x) <=> write = x \/ Has(rest, x)
      /\ write \in {"fence", "mark"} => Has(rest, "clear")
      /\ write = "clear" => ~Has(rest, "mark")
  BY <1>t, <1>1, TailLemma, LateTail
<1>3. Working = {} /\ Working' = Working
  BY <1>t DEF Working
<1>4. /\ session'.quarantined = (session.quarantined \/ write = "mark")
      /\ session'.fence = (IF write = "fence" THEN TRUE ELSE IF write = "clear" THEN FALSE
                           ELSE session.fence)
  BY <1>t, <1>1 DEF ApplyWrite, SessionType
<1>5. result' = IF write \in {"unknown", "failed"} /\ result[run] = "absent"
                THEN [result EXCEPT ![run] = write] ELSE result
  BY <1>1 DEF ApplyWrite
<1>q. ASSUME result' = result, Blocked' = Blocked PROVE UNCHANGED Promise!vars
  BY <1>t, <1>3, <1>q DEF Promise!vars, Working
<1>6. CASE write \in {"fence", "mark"}
  <2>1. Has(daemon.left, "clear") /\ result' = result
    BY <1>2, <1>5, <1>6
  <2>2. result[run] \in {"absent", "unknown"}
    BY <1>t, <1>1, <2>1 DEF ClearsLate
  <2>3. Blocked'
    BY <1>4, <1>6 DEF Blocked
  <2>4. CASE result[run] = "absent"
    BY <1>t, <1>1, <1>3, <2>1, <2>3, <2>4, ClosingKeepsPromise
  <2>5. CASE result[run] = "unknown"
    <3>1. session.quarantined
      BY <1>t, <1>1, <2>5 DEF Keeping, Convergence, RunInvariant, UnknownFollowsMark
    <3>2. Blocked' = Blocked
      BY <2>3, <3>1 DEF Blocked
    <3>3. QED
      BY <1>q, <2>1, <3>2
  <2>6. QED
    BY <2>2, <2>4, <2>5
<1>7. CASE write = "clear"
  <2>1. session.quarantined /\ result' = result
    BY <1>t, <1>2, <1>5, <1>7 DEF ClearsLate
  <2>2. Blocked' = Blocked
    BY <1>4, <2>1 DEF Blocked
  <2>3. QED
    BY <1>q, <2>1, <2>2
<1>8. CASE write \notin {"fence", "mark", "clear"}
  <2>1. session' = session
    BY <1>1, <1>8 DEF ApplyWrite
  <2>2. Blocked' = Blocked
    BY <2>1 DEF Blocked
  <2>3. CASE result' = result
    BY <1>q, <2>2, <2>3
  <2>4. CASE result' # result
    <3>1. /\ write \in {"unknown", "failed"} /\ result[run] = "absent"
          /\ result' = [result EXCEPT ![run] = write] /\ write \in Statuses
      BY <1>5, <2>4 DEF Statuses
    <3>2. QED
      BY <1>t, <1>1, <1>3, <2>1, <3>1, PublishingKeepsPromise
  <2>5. QED
    BY <2>3, <2>4
<1>9. QED
  BY <1>6, <1>7, <1>8

LEMMA StepKeepsPromise ==
  ASSUME Keeping, Keeping', [Next]_vars, damage' = 0, "fence" \notin lost'
  PROVE  Promise!Next \/ UNCHANGED Promise!vars
<1>t. /\ damage = 0 /\ Convergence /\ TypeOK /\ "fence" \notin lost
  <2>1. Convergence /\ TypeOK
    BY DEF Keeping, Convergence, RunInvariant
  <2>2. damage = 0 /\ lost \subseteq lost'
    BY <2>1, OnlyMore
  <2>3. QED
    BY <2>1, <2>2
<1>1. ASSUME NEW r \in Runs, Reserve(r) PROVE Promise!Next
  BY <1>t, <1>1, WorkKeepsPromise
<1>2. ASSUME NEW r \in Runs, RunStep(r) PROVE Promise!Next \/ UNCHANGED Promise!vars
  <2>1. CASE BindReuse(r) \/ LeaseCreated(r) \/ SendPrompt(r) \/ TurnEnds(r)
    BY <1>t, <2>1, WorkKeepsPromise
  <2>2. CASE \/ RegistrationFails(r) \/ WriteFence(r) \/ MarkQuarantined(r) \/ PublishResult(r)
             \/ PublishFails(r) \/ ReleaseLease(r)
    BY <1>t, <2>2, EndKeepsPromise
  <2>3. CASE \/ Accept(r) \/ SubmissionLost(r)
             \/ Startup(r) /\ ~BindReuse(r) /\ ~LeaseCreated(r)
             \/ Switch(r)
             \/ Turn(r) /\ ~SendPrompt(r) /\ ~TurnEnds(r)
             \/ Conclude(r) \/ FinalizationFails(r) \/ EmergencyCleanup(r) \/ ClearFence(r)
             \/ QuarantineFails(r)
    BY <1>t, <1>2, <2>3, QuietTasks
  <2>4. QED
    BY <1>2, <2>1, <2>2, <2>3 DEF RunStep, Submission, Finalization
<1>3. CASE \E r \in Runs : ContainInvalidTerminal(r) \/ Damage(r) \/ MarkerUnreadable(r)
  <2>1. PICK r \in Runs : ContainInvalidTerminal(r) \/ Damage(r) \/ MarkerUnreadable(r)
    BY <1>3
  <2>2. result[r] # "corrupt"
    BY <1>t DEF Convergence, RunInvariant, EvidenceHolds, Evidence
  <2>3. QED
    BY <1>t, <2>1, <2>2 DEF ContainInvalidTerminal, Damage, MarkerUnreadable
<1>4. CASE Reconciliation
  <2>1. CASE ApplyWrite
    BY <1>t, <2>1, WritesKeepPromise
  <2>2. CASE Start \/ Listen \/ \E r \in Runs : ClassifyRun(r)
    <3>1. UNCHANGED <<made, result, session, lock, ctx, agent>>
      BY <2>2, Zenon DEF Start, Listen, ClassifyRun, store
    <3>2. QED
      BY <3>1 DEF Promise!vars, Blocked
  <2>3. QED
    BY <1>4, <2>1, <2>2 DEF Reconciliation
<1>5. CASE Crash
  <2>1. UNCHANGED <<made, result, session, lock, agent>> /\ ctx' = [r \in Runs |-> Idle]
    BY <1>5 DEF Crash, store
  <2>2. Working' = {}
    BY <2>1 DEF Working, Idle
  <2>3. Promise!Stop
    BY <2>1, <2>2 DEF Promise!Stop, Working, Blocked
  <2>4. QED
    BY <2>3 DEF Promise!Next
<1>6. CASE LeaseExpires \/ UNCHANGED vars
  <2>1. UNCHANGED <<made, result, session, ctx, agent>> /\ lock'.holder = lock.holder
    BY <1>t, <1>6 DEF LeaseExpires, vars, env, world, store, TypeOK
  <2>2. QED
    BY <2>1 DEF Promise!vars, Blocked
<1>7. QED
  BY <1>1, <1>2, <1>3, <1>4, <1>5, <1>6 DEF Next

\* Task, lease, markers, fence, quarantine and restart together implement the
\* promise of a Session, for any Runs, crashes and expired leases, and when
\* markers are lost or terminals are not durable, up to the first quarantine write
\* that fails and the first damage to the store.
THEOREM ImplementsPromiseHolds == Spec => ImplementsPromise
<1>1. Init => Promise!Init
  <2> SUFFICES ASSUME Init PROVE Promise!Init
    OBVIOUS
  <2>1. /\ made = {} /\ lock.holder = NoRun /\ ~Blocked
        /\ result = [r \in Runs |-> "absent"] /\ ctx = [r \in Runs |-> Idle]
        /\ [r \in Runs |-> agent[r].turn] = [r \in Runs |-> "none"]
    BY DEF Init, FreeLock, Blocked
  <2>2. {r \in Runs : ctx[r].step # "idle"} = {} /\ Blocked = FALSE
    BY <2>1 DEF Idle, Blocked
  <2>3. QED
    BY <2>1, <2>2 DEF Promise!Init
<1> DEFINE Kept == damage' = 0 /\ "fence" \notin lost' => [Promise!Next]_(Promise!vars)
<1>2. Keeping /\ Keeping' /\ [Next]_vars => [Kept]_vars
  BY StepKeepsPromise
<1>3. QED
  BY <1>1, <1>2, KeepingHolds, PTL DEF Spec, ImplementsPromise

=============================================================================
