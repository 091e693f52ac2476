# agent-run-supervisor: a TLA+ verification project

`agent-run-supervisor` runs coding agents under supervision. A daemon (`arsd`)
accepts *Runs* over a local socket, starts one agent process per Run, talks ACP
to it, and leaves for every Run a directory of durable evidence that ends in one
terminal fact (`result.json`). Runs that continue a conversation share a
*Session*, which has a lease (one Run at a time) and can be *quarantined* when
nobody can tell any more what its agent did.

The program is small in its algorithms and hard in its timing: an event loop
with tasks that can be cancelled at every `await`, appends in threads, files that
become durable one by one, and a process that may die between any two of them.
This project models that part.

Paths below are relative to `src/src/agent_run_supervisor/` in the repository.

## 1. Inventory

| Component | State it keeps | Operations | What is hard |
|---|---|---|---|
| Evidence pipeline, `native_acp/event_writer.py` | pending and admitted queues, count and byte ladders, watermarks, primary failure, consumer task, close task | `start`, `emit`, `emit_nowait`, `emit_awaited`, `_pump`, `_poison`, `_durable_ack`, `close` | appends in a thread, cancellation, deadlines against late acknowledgements, wakeups, failures noticed out of order |
| Run task, `native_acp/run_task.py` | `_RunContext`: child, Session binding, lease token, observations, disposition | `_admit`, `_bind_session`, `_startup_sequence`, `_dispatch`, `_finalize_inner`, `_emergency_cleanup` | timeouts and cancellation at every await, one write of several failing, crash between writes |
| Session store, `session.py` | `session.json`, fence `quarantine-pending`, `lock.json` | create, commit, quarantine, acquire and release the lease, reclaim | lease expiry under a long turn, two-write quarantine |
| Startup reconciliation, `arsd/reconcile.py` | none of its own; reads and writes Run and Session directories | `classify_run`, `select_row`, `_apply` | must converge from every crash point, also its own |
| Durable files, `event_store.py`, `native_acp/storage.py` | Run directory | append, write-once create, atomic replace, durable unlink | a publication whose durability is unknown |
| Admission and registry, `arsd/handlers.py`, `arsd/admission.py` | `RunRegistry`: entries, reservations, admission flag; keyed locks | submit, status, cancel, follow, `reserve`, `register`, `close_admission`, `cancel_all` | submit racing shutdown, a task cancelled before it starts, idempotent resubmission |
| Daemon, `arsd/__main__.py` | instance lease, listener, shutdown phases | start, serve, drain, stop | the lease must outlive every Run |
| ACP driver and client, `native_acp/driver.py`, `client.py`, `events.py` | connection, replay boundary, update counters | `set_config_exact`, `prompt_once`, `session_update`, `cancel` | the answer overtakes queued callbacks, replayed updates arrive with new ones |
| Configuration fidelity, `native_acp/config_fidelity.py` | phase and leg of the set and readback sequence | the legs of the three fidelities, rollback | an agent that changes other options on the way, a switch that stops half way |
| Permissions, `native_acp/permissions.py`, `launch_permissions.py` | open and ended calls, refusals, violations; the private policy tree | decide, observe, materialize, discard | requests that do not name their call, updates after the end, a policy left behind |
| Managed process, `managed_process.py`, `process_liveness.py`, `exit_classifier.py` | process group, stderr drain, proven exit | spawn, terminate, escalate, wait, reap | a wait given up half way, a descendant that holds the pipe or leaves the group |
| Follow stream, in `arsd/handlers.py` | cursor, bounded queue, watcher task | page, follow, contain, end, close | a file that is being written, a slow reader, the terminal racing the last event, shutdown |
| Socket server and protocol, `arsd/server.py`, `protocol.py`, `operand.py` | connections | frame, authenticate, dispatch | connection limit, half-closed peers |
| Documents, `native_acp/spec.py`, `profile.py`, `agent_registry.py`, `agent_registration.py`, `observation.py` | none | parse, validate, hash | none that outlives a call |
| Results, redaction and client tools, `result.py`, `redaction.py`, `commands.py`, `cli.py`, `arsd/client.py` | none | format, redact, print | none that outlives a call |

How they interact: a submission reserves its Session in the `RunRegistry`, makes
the Run directory and `submission.json`, and registers a task. `RunTask` writes
`spec.json` and `launch.json`, binds or creates the Session, takes its lease,
starts the agent, moves its configuration, writes the dispatch marker and sends
the prompt. Everything the agent says goes through the `EventWriter` into the Run
directory. The finalizer closes the writer, decides the terminal and the Session's
disposition, quarantines first if it must, publishes `result.json` and releases
the lease last. A daemon that starts classifies every Run directory and settles
those without a terminal before it listens.

What makes the parts correct:

- *evidence*: the event file is an unbroken prefix of what was accepted; what a
  producer was told is true; a clean close means nothing was lost; nobody waits
  for ever;
- *Runs and Sessions*: a prompt that may have executed without an answer blocks
  its Session; the quarantine is durable before the terminal, the terminal before
  the release; a terminal is never replaced; one agent at a time works on a Session;
- *restarts*: every crash point is legal, restarts converge, only damage from
  outside stops the daemon;
- *admission and shutdown*: an acceptance is never shared by two digests; nobody
  hears of an untrusted terminal while its Run may be live; no Run outlives the
  instance lease, and a daemon that is told to stop stops;
- *readers*: no gap and no duplicate, whatever is being written meanwhile; told the
  end only when that is all; a stream ends, and does not hold up a shutdown;
- *the turn*: what was replayed is not of the turn, and a turn that returns is whole;
- *configuration*: no prompt before the agent shows exactly what was asked for; what
  was switched half way is put back or marked;
- *permissions*: a call is accused only of its own doings, and then it is;
- *the process*: nothing is handed over, and no policy removed, before the exit is
  proven; what stays behind is on record; a wind-down ends.

`PROJECT.json` lists the hazards one by one with the line where each bites.

## 2. Modules

| Module | Models | Kind |
|---|---|---|
| `EventLedger` | the `EventWriter`, with the append thread, the clock and the teardown of the event loop | component |
| `DurableLog` | what the pipeline promises: an append-only log with an acknowledged prefix and one final verdict | abstract specification |
| `EventLedgerProofs` | theorems about `EventLedger` | TLAPS |
| `MCEventLedger` | small ladders; the loop of `_pump` written as a loop | TLC |
| `RunLifecycle` | RunTask, Session store, reconciliation, crash and restart for the Runs of one Session | composition |
| `SessionPromise` | what a Session promises: one Run at a time, closed before an uncertain prompt is reported, handed over behind a terminal | abstract specification |
| `RunLifecycleProofs` | theorems about `RunLifecycle` | TLAPS |
| `MCRunLifecycle` | two Runs, symmetry | TLC |
| `Admission` | submit, run_cancel, run_status, the keyed locks, the `RunRegistry`, containment, shutdown and the instance lease | composition |
| `AdmissionProofs` | theorems about `Admission` | TLAPS |
| `MCAdmission` | the requests of a few callers | TLC |
| `FollowStream` | the event file under its writer, the page reader, `EventFollowStream`, connections, their shutdown, the client | composition |
| `FollowStreamProofs` | theorems about `FollowStream` | TLAPS |
| `ConfigFidelity`, `MCConfigFidelity` | `ConfigFidelityMachine`, `set_config_exact`, the rollback, the prompt gate | component |
| `ConfigFidelityProofs` | theorems about `ConfigFidelity` | TLAPS |
| `Conversation`, `MCConversation` | receive loop, callbacks, sink, `prompt_once` with boundary and barrier | composition |
| `ConversationProofs` | theorems about `Conversation` | TLAPS |
| `PermissionBridge`, `MCPermissionBridge` | decisions, call lifecycle, accusations | component |
| `PermissionBridgeProofs` | theorems about `PermissionBridge` | TLAPS |
| `ChildProcess` | `ManagedProcess`, launch permissions, the wind-down of a Run and of a doctor probe | composition |
| `ChildProcessProofs` | theorems about `ChildProcess` | TLAPS |

### EventLedger

`led` is one record with the fields of `EventWriter` that its synchronous methods
use. Those methods (`_poison`, `_pump`, `_durable_ack`, the body of `_submit`) are
operators from ledger to ledger, so that an action composes them as the code calls
them; one action is what the event loop runs between two awaits. `worker` is the
append in the thread, `disk` the lines in the file, `closing` the owned close task,
`cancelReq` what `asyncio.run` has asked to cancel at teardown.

Data abstraction: an event is its size; a ticket's `end` is the offset of its last
byte in the accepted stream (a history field, it makes byte sums differences of two
offsets). Failures are an ordinal and a rank, as in `_FailureKey`. Edges (futures of
waiting producers) are the ticket's outcomes. `_pump` is stated in closed form: admit
the longest prefix that fits, climb one rung if the code's `_can_grow` allows, admit
again; `MCEventLedger` writes the loop and compares the two. An append that raises may
or may not have written its line: `append_text` fails before or after `os.write`.

Not modelled: `MARKER_TOO_LARGE` (the floor of `max_event_bytes` excludes it, stated
as `LimitAssumption`), and a clock or a `call_at` that raises, which the code also reports
as `LEDGER_INVARIANT`: `SelfChecksPass` is about the ledger's own assertions.

### RunLifecycle

One Session and the Runs that name it; Runs of different Sessions share no state
modelled here. The durable state is what the directories hold (`made`, `docs`,
`markers`, `result`, `session`, `lock`); the volatile state is `ctx`, the
`_RunContext` of each task with the step it is at, and `daemon`. An action ends at
each durable write, so a crash falls between any two writes of one function.
`agent` is history: whether a set or a prompt has left for the agent and what came
back. No guard reads it.

- `Reserve` … `RegistrationFails` are the submission; `SessionFree` is what
  `_session_held_locked` refuses. `WriteSpec` … `PreDispatchFails` are admission,
  binding, start and `session/new` or `session/load`.
- `AnnounceSwitch` … `CommitEffective` are the configuration switch. The marker
  `config-switch-started` is written before the first set is planned, so it may
  stand without a set. `SwitchInterrupted` is every way out of the switch that
  is not the rollback of `_rollback_after_partial_switch`.
- `MarkDispatch` … `TurnInterrupted` are the turn. `TurnTimesOut`, `TurnLost` and
  `TurnInterrupted` set the observations from which `finalize_run_state`
  (`RunStatus`, `Quarantines`) computes status and disposition.
- `Conclude` is `_finalize_inner` up to the disposition, including the close of the
  event writer, which may find evidence lost. `FinalizationFails` and
  `EmergencyCleanup` are the bounded fallback. `WriteFence`, `MarkQuarantined`,
  `ClearFence`, `PublishResult`, `ReleaseLease` are the ordered end, each with its
  failure.
- `Start`, `ClassifyRun`, `ApplyWrite`, `Listen` are the reconciliation: the rows of
  `select_row` and the writes each row makes, one durable write per step.
- `Crash` kills the daemon and the agents in its control group. `LeaseExpires` is the
  passing of the 900 second TTL. `Damage` and `MarkerUnreadable` are artifacts broken
  from outside. Which writes may fail is the constant `Faults`; a submission, a record or
  a terminal may also land although its write fails. `lost` is history: the kinds of
  write that have failed so far. Properties that a failed write ends say so with it.

`SessionPromise` says in six variables and eight actions what all this is for. The mapping
(`Promise`): the Runs begun are the Run directories, those at work the tasks that have not
ended, the holder is the one in `lock.json`, closed is fence or quarantine, and the terminals
are what `result.json` says. A crash is `Stop`; an expired lease changes nothing, since the
promise speaks of who took the Session last and not of when; a fence, the record behind it
and the removal of the fence are one `Close` and two stutters; a reconciliation that
publishes for a dead Run is `Publish` by somebody else.

Not modelled: `progress.json` (never read by a decision), crash reclaim of a lease
(no caller in the daemon asks for it), several Sessions, and a Run's events (that is
`EventLedger`; here only "evidence was lost" remains).

### Admission

Each request is sent once and stands at a place of its handler (`pc`); `reply` is what
the caller was told. `locks`, `waiters` and `lockOf` are `KeyedLocks`: a lock object is
named by the request that made it, so that two objects for one key can be told apart.
`open`, `reserved`, `entries` and `task` are the `RunRegistry`; `made`, `submission`,
`terminal` and `quarantined` the store; `phase` is `serve_daemon` with the shutdown
lifecycle, and the instance lease is held in every phase but the last.

- `Enter`, `Acquire`, `Unlock`, `Forget` are `KeyedLocks.hold`; between them `Resolve`
  (durable acceptance first, the daemon's own ceiling only for new work), `Reserve`,
  `Prepare`, `Register`, `Release` are `_submit_locked` with its failures.
- `Query`, `CancelReturns`, `Inspect` are `run_cancel` and `run_status`. `Contain`,
  `ContainReturns`, `ContainWaited` are `_contain_invalid_terminal`.
- `TaskStarts`, `Publish`, `TaskEnds` are what the registry sees of a Run; its inside is
  `RunLifecycle`. `TaskNeverStarts` is a task cancelled before its first step, which
  leaves its entry behind.
- `RequestStop` … `ReleaseLease` are the shutdown lifecycle in its order,
  `LifecycleFails` a phase that raises. `Crash` and `Start` end and begin a daemon;
  `Start` settles every Run directory or refuses, as `RunLifecycle` has in detail.

An await between two effects is a step boundary even where it takes a lock that is
free, which does not suspend a coroutine in today's asyncio: the model has more
interleavings than the event loop, and what holds in it does not depend on that.
`CancelAll` has one guard that does depend on the loop: a task registered by a handler
takes its first step before the shutdown that awaited the handler resumes, since ready
callbacks run in order.

Not modelled: frames that parsing or authorization refuses, the read-only operations,
and symlinks or damage in `submission.json`. Connections and the follow stream are
`FollowStream`. The ceiling on live Runs is a guard of `Reserve`; the run has one Run
id and so never meets it.

### FollowStream

One Run and the clients that read its events, each a follower (`events` with `follow`)
or a pager. `file` is `events.jsonl` as another reader sees it: whole lines, then a
fragment or a line whose newline is not there yet. `stream` is `EventFollowStream` with
the place of its watcher, `conn` the server's coroutine for a connection with the frames
the peer has not read, `client` what `ArsdClient` knows, `server` the shutdown.

- `AppendPart`, `AppendRest`, `AppendFails` are `append_text` in the writer thread;
  `CloseLedger`, `Finalize`, `Unregister`, `Damage` what a reader meets of the Run. A
  terminal written by the emergency cleanup does not wait for the writer (`orderly`).
- `PageEnd`, `Corrupt`, `Exhausted` are `_read_events_page`: limit, end of file, and a
  response budget. An event of `Wide` is beyond it and goes through alone, as a marker;
  two of `Heavy` do not fit together.
- `WatchPage` … `WatchContained` are `_watch`; `NextItem` is `__anext__` in
  `_emit_stream`, where a failure goes before what is queued; `Finish` is `aclose`.
- `Connect` … `Drained` are `_serve_connection` and `_request_loop`; `CloseWriters`,
  `ConnectionsDone`, `Idle` the shutdown as far as connections are concerned.

Event bodies are left out: event *n* is its sequence number. Not modelled: frame
decoding and authentication, damage in the middle of the file.

### ConfigFidelity

An option set is a function from selectors to the value each shows: the requested one,
the one the Session was proven to have, another one, or none. `machine` is the
`ConfigFidelityMachine` at work with its goal (the request or, in a rollback, the
previous pair), `shown` the last recorded set, `agent` what the agent really has: after
a set it may take the value or not, and it may change one more option, shown or not.
`Legs` is the sequence of a fidelity, `Proves` what the readback after each leg must
show, `Records` which sets enter the snapshots. `OpenSession` … `Prompt` walk them, with
`FailSwitch` for the partial switch. `RunLifecycle` sees this as one switch
with a marker before and after it. `Owned` are the parameters the Run answers for: the
mode option is exempt only where the Run has a mode selector.

Not modelled: the grammar of model literals (a literal is its list of parameters), the
choices a selector offers (a plan may always find its value missing), and
`record_option_update`, which has no caller.

### Conversation

A frame is known by its epoch (history replayed by `session/load`, the idle time before
the prompt arrives, the turn, after it) and its place in it. `Receive` is the SDK's loop
with the driver's observer: it counts the updates that will be dispatched, queues their
callbacks and resolves answers at once, so an answer overtakes the callbacks before it.
`RunCallback` is `session_update` with the sink of `RunTask`, which takes an update for
one of the turn when its ordinal is above the boundary that `WritePrompt` took;
`AdmissionSettles` is a callback that waited for the evidence writer. `Resume` and
`Return` are the delivery barrier of `prompt_once`. A callback for a foreign Session
fails the prompt.

Not modelled: `initialize` and its observation, the normalization of events, the
bounded accumulator of the final message.

### PermissionBridge

`bridge` is a `PermissionBridge`; its methods are operators from bridge to bridge. `agent`
is the truth: which calls run, whose requests were refused, which completed against a
refusal. The bridge is not told on whose behalf a file is read, so `SendRead` has a
call that `DecideFsRead` does not see. Requests and updates arrive in any order and with
or without a kind. The walk that proves a path to be inside the workspace is an
input, as is the offer of a once-scoped option. A walk that raises
(`native_acp/permissions.py:326`, `502`) records no decision; it is folded into the two
answers, and no property depends on it.

### ChildProcess

The leader, one descendant that may leave the group and may keep stderr open, and the
coroutine that owns them: a Run from its launch permissions to the end of `run()`, or a
doctor probe. `wait()` has two parts (exit of the leader, join of the drain task), and
whoever gives up cancels the part it is in. `After` is the table of what each caller does
when its `wait()` returns, times out, raises or raises `CancelledError`. `CleanUp` is
`_cleanup_launch_permissions`, which `Settle` and the `finally` of `run()` (`End`) call.
SIGTERM forces nobody: every process may exit at any time, and one hit by SIGKILL
has to, in the end.

Not modelled: what the turn does (`drive` is one place), the reclaim of a dead holder's
lease by `process_liveness` (no caller asks for it), the `on_spawn` callback, the
fallback of a `killpg` that is refused, and the additional wait for pipes of asyncio
before 3.12.4. Exit classification is a table without state.

## 3. What the runs check

| Run | Instance | Checks |
|---|---|---|
| `event_ledger` | rungs of one and three events, four events, of which some are too large; a timeout of one tick, two ticks; fair | the file is a prefix, outcomes are true, no late admission, the writer's own assertions hold; the refinement of `DurableLog`; every accepted event settles, `close()` finishes; the closed form of `_pump` is its loop |
| `run_lifecycle` | two Runs, two crashes or a crash and a damaged artifact in either order; submissions, quarantines and publications that fail | the Session is blocked when it must be, no accepted Run is forgotten; a finalizer that cannot quarantine or publish does not release; restarts converge, and listen only behind the quarantine of every uncertain prompt; terminals are final and `completed` is earned; the refinement of `SessionPromise` (one Run at a time, no prompt over an uncertain one) |
| `switch_timeout` | two Runs, one crash, lost configuration markers, one unreadable artifact | violated: see Findings |
| `emergency_quarantine` | two Runs, quarantines that fail | violated: see Findings |
| `admission` | a submission, one that reuses its key with a larger budget, a cancellation; one restart under either ceiling, one failed shutdown, one damaged terminal, cancellations before a Run's first step, a submission that lands though its write fails; fair | one handler and one digest per key, the lease outlives the Runs, no refusal before containment, requests and shutdown end unless a Run does not |
| `early_cancel` | a submission, its copy, a cancellation | violated: see Findings |
| `follow` | a follower or a pager from event 0 or 2; four events, the last wider than a response and two that do not fit in one; queue 1, page 2, window 1; fair | no gap, told the end only when complete, a follower that reads comes to the end, a shutdown ends unless a peer stops reading or the Run stays |
| `config_fidelity` | three fidelities, with and without a mode; literals of no, one and two parameters | no prompt without proof, no half switch unmarked |
| `conversation` | two frames of history, one idle, three of the turn, one late; two on the wire and two queued; fair | history stays out, a returned turn is whole, the barrier opens |
| `permission_bridge` | two calls that read and one that edits, three grants, two open calls | only the guilty are accused, and they are |
| `child_process` | a Run or a probe, one descendant, two waits that raise; fair | nothing goes before the exit is proven, leftovers are marked, a clean probe leaves nobody, wind-downs end |
| `reap_cut` | no wait raises; fair | violated: see Findings |

Every property states in its comment what it says about the code. Each that a run checks
has a mutant in its module, a plausible slip in one definition, that TLC shows to violate it.
Three properties have no run of their own since a refinement in the same run contains them:
`CleanCloseIsComplete` (`DurableLog`), `OneAgentPerSession` and `LeaseNeedsCertainty`
(`SessionPromise`). They are theorems under their own, in part weaker, assumptions.

**Bounds.** *Ledger*: two rungs have one climb, after which one call admits several
events; `EventBytes = {2, 3}` with `MaxEventBytes = 2` makes a record of three bytes a
marker of one, so events differ in size and one may fit the count and not the bytes. Four
events outgrow the first rung, fill the second and leave one behind it; two ticks are an
event accepted late that times out, and a deadline met by a late acknowledgement. *Runs*:
two are enough to leave a Session to another Run; two crashes allow one in a Run and one in
its reconciliation, one crash and one damaged artifact a restart over the damage, and the
faults are in the same instance because what they do to each other is the question
(`MaxMishaps` bounds crashes and damage together; two crashes and damage, 4.2 million states,
have been checked with the same result). Two Runs with three crashes and three Runs with two have been
checked without faults, with the same result. Lost configuration markers are left to
`switch_timeout`, where the Session is not blocked, and to the theorems, which have every set
of faults.
*Admission*: two submissions of one key contend for its
lock, and the larger one meets a ceiling that a restart lowered; `KeyExclusive` names the
lock object that a third one would find, and three submissions have been checked with the
same result. The refusal of a busy
Session is `SessionFree` in `RunLifecycle`, where two Runs share one. *Readers*: with a
queue of one and pages of two, a page is larger than the queue and a reader falls behind
after one event; of four events one ends a page by its width and two by their sum; clients share nothing but the Run and the shutdown, so one of either
kind is kept. *Configuration*: the longer literal has all parameters of the shorter one
and one more, so that a rollback finds one too many; the agent changes one other option
with each answer and several over a sequence. *Conversation*: with two queued callbacks,
one update of the history is delivered and one still queued when the prompt leaves.
*Bridge*: three calls are one more than it keeps open. *Process*: one wait may raise
in the finalizer and another in the emergency cleanup. All runs allow deadlock: a
closed writer, a daemon with every Run settled or one that was stopped, a turn or a child
that is over, stops.

**Fairness.** `EventLedger`: the event loop runs every ready task, callback and due
timer; the clock advances; an append returns or raises. Nothing is assumed of
producers, of `start()` or of `close()`. `RunLifecycle` has none, and no liveness property:
a Run need not end (`reap_cut`), nor start (`early_cancel`). What it promises instead is
`AcceptedIsOwned` and, at a restart, `RestartConverges`. `Admission`: the event loop runs the
handlers, the first step of a task (or its cancellation before it) and the shutdown. Nothing
makes a Run end: `ShutdownEnds` and `RequestsEnd` say "unless a Run stays" (`RunStays`), and
`ShutdownEnds` also excepts a task cancelled before its first step, which the finding below
is about. Callers and signals owe nothing. `FollowStream`: the event loop runs the watcher,
the connection and the shutdown, and that is all: no peer has to read and no Run has to end.
`FollowersEnd` is about a client, so it assumes in its own statement that this client goes on
reading; `ShutdownEnds` excepts a peer that stalls for ever (`Stalled`; `arsd/server.py:230-243`
closes without a bound) and a Run that stays. TLC refutes both without these exceptions.
`Conversation`: the event loop, the evidence writer (whose liveness is `EventLedger`'s) and
an agent that answers; no timeout is needed. `ChildProcess`: the event loop, every bound
passes, and SIGKILL ends a process; nothing makes a turn end, a process heed SIGTERM or a
descendant close its pipe. `ConfigFidelity` and `PermissionBridge` have safety only: what
ends them is the startup and the turn timeout.

## 4. What is proved

Every safety property of a passing run is a theorem, except one equality that TLC
evaluates (see the end of this section). Each component has an inductive invariant, and
its properties follow from that.

`EventLedgerProofs`, for every ladder, limit, event size and length of behaviour:

- `LedgerInvariantHolds`: `Spec => []LedgerInvariant`;
- `TypeOKHolds`, `DurablePrefixHolds` and `OutcomesTruthfulHolds` follow from it;
- `EvidenceHolds`: `Spec => []Evidence`, a second layer over the first;
- `CleanCloseIsCompleteHolds`, `NeverAdmitsLateHolds`, `AdmittedPrefixSurvivesHolds` and
  `ImplementsDurableLogHolds` follow from that;
- `SelfChecksPassHolds`, from a third layer.

None of the properties in the second line is inductive. That the file has no gap needs to
know what the append thread is writing, that needs to know which ticket is at the head of
the queue and who may still acknowledge it, and that needs to know that a closed or
cancelled writer has no consumer left. So `LedgerInvariant` is the conjunction of

- `Core(led)`, a predicate of the ledger alone: its types; `Queues` (pending and
  admitted are the consecutive tickets after the two watermarks, and fit the rung);
  `Health` (a healthy ledger queues all that is not persisted, a failed one has no
  pending ticket); `Truthful` (outcomes agree with the watermarks);
- `FileMatches`: file, append thread and consumer task agree;
- `CloseIsFinal`: what the phase of the close says about the consumer task.

The proof has a lemma for each synchronous method (`Poison`, `Pump` with its parts,
acceptance, acknowledgement, the consumer's loop): it takes a `Core` ledger to a
`Core` ledger and says which fields it leaves alone. Each action is then one lemma, and the
induction step cites them. The assumptions are `PolicyAssumption` and
`LimitAssumption`, what `QueuePolicy.__post_init__` enforces; TLC evaluates both.

`_verify_invariants` compares the byte counters with the queues after every submission,
pump and acknowledgement and poisons the writer if they are off. So whether a close is clean, and what a step does to the log, depends on
counters that `LedgerInvariant` does not speak of. `Evidence` adds

- `Exact(led)`: tickets are laid out end to end and the two byte counters are what the
  queues weigh. `SelfCheck` concludes that the assertions of `_verify_invariants` hold of
  every such ledger;
- `Timely`: no deadline is further away than the producer's timeout;
- `Clean`: what the phases of the close say about failures and the append thread.

Each action then has one lemma (`SubmitEffects` … `CloseTaskEffects`) that states
everything about it at once: it keeps the three parts, admits nothing late (`OnTime`),
gives no admitted event up while a consumer can append it (`Fate`), and is a step or a
stutter of `DurableLog` (`LogStep`). The refinement is that conjunct, and that the initial
states map to initial states.

The writer has a second check of itself: an acknowledgement must be for the admitted head
that is in flight. Whether it is depends on marks and flags that neither layer mentions, so
`Watched` adds `Calm` (every queued ticket is marked as admitted, and no check has fired),
that a task which is not done is running, and that its append is in flight unless the loop
cancelled it. Methods are shown to be `Quiet` one by one, as before. `SelfChecksPassHolds`
concludes that no order of calls makes the writer poison itself with `LEDGER_INVARIANT`: that
verdict never stands for a slip of the writer's own.

`RunLifecycleProofs`, for any number of Runs and crashes, every set of failing writes and any
damage. No theorem assumes a fault away; where a failed write or damage ends a property, the
property itself says so, by `lost` and `damage`:

- `RunInvariantHolds`: `Spec => []RunInvariant`;
- `OneAgentPerSessionHolds` and `TerminalIsFinalHolds`, of every behaviour;
- `UnknownIsQuarantinedHolds` and `ReleaseIsContainedHolds`: whatever failed before, the
  finalizer and the reconciliation report `unknown` only behind the quarantine, and the
  finalizer keeps the lease when a quarantine or a terminal fails (the second in an undamaged
  store). The emergency cleanup is covered until a quarantine write fails; after that the code
  does the opposite, which is the finding `emergency_quarantine`;
- `UncertainIsBlockedHolds` and `LeaseNeedsCertaintyHolds`, up to the first quarantine write
  that fails and the first damage. Submissions, publications and markers may fail;
- `ConvergenceHolds`: `Spec => []Convergence`, a second layer;
- `CompletedIsEarnedHolds`, of every behaviour;
- `RestartConvergesHolds`, of an undamaged store in which no configuration marker was lost
  (the fence of a Run whose `config-switch-started` was lost survives its restart). Everything
  else may have failed, and every crash point is allowed, those of the reconciliation too;
- `TellingHolds`: `Spec => []Telling`, a layer about switches, and
  `ReconciledSwitchIsBlockedHolds`: whatever failed or was damaged, a moved configuration whose
  directory tells of the switch and of no proof is reported only over a blocked Session. What
  the directory does not tell, because a marker was lost or is unreadable, is in the finding
  `switch_timeout`;
- `AcceptedIsOwnedHolds`, up to the first damage and the first submission, quarantine or
  terminal write that fails: each of these may leave a Run without task and terminal until
  the next restart. It rests on a layer of its own (`Owning`), that a Run whose submission is
  on the disk is settled or has a task in every listening daemon;
- `ContainmentHolds`: `Spec => []Containment`, a third layer, and `RestartContainsHolds`, of
  every behaviour: any write may fail, the quarantine of the emergency cleanup too, and
  terminals, documents and markers may be damaged;
- `KeepingHolds`: `Spec => []Keeping`, a fourth layer (what it says of tasks and fences it says
  of an undamaged store);
- `ImplementsPromiseHolds`: `RunLifecycle` implements `SessionPromise`, up to the first
  quarantine write that fails and the first damage.

`UncertainIsBlocked` speaks of a Run whose task is gone, and what makes it true may
have happened two crashes earlier. `RunInvariant` says who is responsible in between:

- `OneTask`: at most one Run is at work, in a listening daemon, and its `_RunContext`
  tells the truth: `Binding` (about the Session's record), `Dispatching` (dispatch
  flag, marker and agent agree) and `Concluding` (a task that is about to publish has
  a status and, after an uncertain turn, the quarantine behind it);
- `UnknownFollowsMark`: the same order in the list of writes of a reconciliation;
- `EvidenceHolds`: an uncertain prompt has its dispatch marker and a submission that
  names the Session, and the Session is quarantined, or the Run's task still lives,
  or the daemon is not serving, or the reconciliation has yet to look at the Run or is
  about to quarantine (`WillQuarantine`). This is what survives a crash anywhere.

A step of a Run leaves other Runs alone and only adds to the store (`Frame`), so each
group of actions has a lemma about its own Run; the four reconciliation actions and
those of the environment are proved one by one. The assumptions are `RunsAssumption`
and `BoundsAssumption`.

What a restart leaves behind is decided by what the crashed Run had written before, so
`Convergence` adds to `RunInvariant`

- `Earned`: a task has a verdict only after it has decided, and `completed` only with a
  stop reason and without violation or lost evidence;
- `Switched` and `Tied`: the markers of a Run tell of a configuration that a set moved and
  nothing proved, and its submission names the Session;
- `InOrder`: the writes listed for a directory end with its terminal, and a fence or a
  mark among them has the clearing of the fence behind it;
- `MovedIsMarked`: before the terminal of a Run that moved the configuration there is the
  quarantine, done or listed;
- `Progress`: a directory that the reconciliation has looked at is settled, or is the one
  whose remaining writes settle it;
- `FenceIsBlamed`: a fence that stands has a Run whose directory makes the next
  reconciliation quarantine and so clear it. This is why no fence is left: whoever put it
  up, and whichever write the crash cut off, the evidence was durable before the fence.

`RowLemma` states what `select_row` and `_apply` do in those terms: a quarantine if the
directory condemns the Session, then a terminal if there is none. The parts that speak of
the store hold until it is damaged.

With a quarantine that fails, `UncertainIsBlocked` is false until the daemon starts again, and
`Convergence` says nothing of a damaged directory. What still holds is `RestartContains`, and
its proof must rest only on what neither a fault nor damage can take away. `Containment` adds

- `Guarded`: a task publishes an uncertain turn as anything but `unknown` only behind the
  quarantine;
- `Unpublished`: a Run has no terminal of its own before its task publishes one (a damaged
  `result.json` is `corrupt`, not a terminal);
- `Answerable`: as long as nothing quarantined the Session of an uncertain prompt, its
  directory has the dispatch marker and no terminal but `unknown` or a corrupt one, and a
  reconciliation that has looked at it has the quarantine or a refusal in its list.

`UncertainRow` shows that each row of `select_row` answers such a directory with a quarantine
or with a refusal to start. So the code's gap is exactly the time between a quarantine that
fails in `_emergency_cleanup` and the next restart.

The refinement needs what a task may rely on when it prompts, releases or clears. `Keeping` adds

- `Custody`: a task that may still prompt holds the lease, of a Session that is open, although
  leases expire; its agent is prompted in the turn and not before;
- `ClearsLate`: in the list of a reconciliation no mark stands behind a clearing of the fence,
  and a clearing has the quarantine before it and a Run that is not reported otherwise. This
  is why a closed Session is never opened, not even for a moment, by removing a fence.

`StepKeepsPromise` then goes through `Next`: a step of a Run is one of the promise's steps
(`WorkKeepsPromise`, `ClosingKeepsPromise`, `PublishingKeepsPromise`, `EndKeepsPromise`) or
leaves it alone (`QuietTaskKeepsPromise`), and so is a write of the reconciliation
(`WritesKeepPromise`). The two conditions cannot be dropped: `Publish` demands a closed Session,
which the emergency cleanup does not have after a failed quarantine, and a damaged `result.json`
takes a terminal back.

`AdmissionProofs`, for any set of requests, Runs, restarts and failed shutdowns:

- `AdmissionInvariantHolds`: `Spec => []AdmissionInvariant`;
- `KeyExclusiveHolds`, `AcceptancesAgreeHolds`, `LeaseOutlivesRunsHolds` and
  `RefusalIsContainedHolds` follow from it.

`KeyedLocks` makes a lock object on demand and forgets it when its count of waiters is
zero, so exclusion is a statement about a count: `Counted` says that the waiters of a key
are as many as the handlers that stand between `Enter` and `Forget`, and that all of them
have the one object in the table. `Exclusive` is then kept by `Acquire`. `Durable` ties an
acceptance to the submission on disk, `Registered` a task that may be live to its entry,
and `Stopped` what each phase of the shutdown has drained. The assumptions are
`RequestsAssumption` (every request has an operation and a Run, every submission a digest)
and `LimitsAssumption`.

`FollowStreamProofs`, for any clients, page limit, queue and window size:

- `StreamInvariantHolds`: `Spec => []StreamInvariant`;
- `GapFreeHolds` and `ToldOnlyWhenCompleteHolds` follow from it.

An event passes through five places on its way to a reader: the file, the cursor of the
watcher, its queue, the wire, and what the client has. The invariant says that, for each
reader, the last four are one run of consecutive numbers that ends within the file (`Got`,
`OnWire`, `InQueue`), that the end marker is behind everything else, and that it was put
there when the terminal was durable and the page after the cursor empty (`Settled`,
`LastWord`, `Told`). A step touches the records of one reader only, so `StepLemma` asks of
an action no more than `Holds` of the records it changes; the Run's own steps are
`WriterLemma`. The assumption is `ReadersAssumption`.

`ConversationProofs`, for any number of frames in each epoch and any bound on the wire and
the queue:

- `ConversationInvariantHolds`: `Spec => []ConversationInvariant`;
- `HistoryStaysOutHolds` and `TurnIsWholeHolds` follow from it.

The driver compares counters: the boundary and the target are values of `observed`, while
`delivered` and `completed` count callbacks. What relates them is the number an update had
when the observer counted it, which the code never stores. `Numbered` says that such a
numbering of the queued callbacks exists: it is increasing, without gaps, beyond what has
been delivered, at most the boundary for the history and beyond it for the turn.
`WireInOrder` and `TurnInOrder` keep the order in which the agent sent, `Accounted` says
where each update of the turn is. The assumption is `ConversationAssumption`.

`PermissionBridgeProofs`, for any calls, grants and limit on open calls:

- `BridgeInvariantHolds`: `Spec => []BridgeInvariant`;
- `AccusedIsGuiltyHolds` and `GuiltyIsAccusedHolds` follow from it.

A read does not name its call, and the bridge blames the one open call that could have
made it. That this is the right one needs `OnePicture`: until it overflows, the calls the
bridge has open are those the agent has open, with their kinds. `Remembered` says which
refusals are on record, `Judged` that only a call that is over is accused, `Bounded` that
the open calls never exceed the limit. The assumption is `BridgeAssumption`.

`ConfigFidelityProofs`, for every set of model literals and every agent the model allows:

- `ConfigInvariantHolds`: `Spec => []ConfigInvariant`;
- `PromptIsConfiguredHolds` and `PartialSwitchIsSettledHolds` follow from it.

A prompt looks only at the phase of the machine, so the invariant has to carry what that
phase stands for: `VerifiedIsExact` (a verified machine's goal is what the agent has).
It is the readback after the last set that makes it so, and which set is the last one
depends on fidelity, mode and literal (`LastLegLemma`, `LastProofLemma`). `Goals` ties
the goal, the leg and the sets written together, `Outcome` the outcome and the rollback. The
assumption is `LiteralsAssumption`: a literal lists each parameter once, and none is the
mode or the model.

`ChildProcessProofs`, for any number of waits that raise:

- `ChildInvariantHolds`: `Spec => []ChildInvariant`;
- `HandsOverAfterExitHolds`, `LeftoverIsMarkedHolds`, `ProbeLeavesNobodyHolds`.

What may be given up at the end was decided by a `wait()` several places earlier. `Placed`
says which places a Run and a probe can be at, `ExitIsProven` that a place from which
the Run ends has no child or one with a proven exit, `Handover` and `Reported` what was
given up or answered behind it. Everything hangs on the table `After`: `RowsLemma` shows
that only a `wait()` that returned leads to a place that relies on the exit.

Only model-checked: the liveness properties (`AcceptedSettles`, `CloseFinishes`,
`RequestsEnd`, `ShutdownEnds`, `FollowersEnd`, `BarrierOpens`,
`WindDownEnds`), since fairness is outside the prover; and `PumpMatchesLoop`, the equality
of `Pump` and its loop, which is a recursive operator.

## 5. Findings

Each is shown by a violation run; `PROJECT.json` quotes the line that says otherwise.

1. `switch_timeout`: only a fidelity or driver error rolls the configuration back or
   quarantines. A startup timeout or cancellation after the first set leaves a Run
   `failed` with a reusable Session whose configuration nobody proved. An identity
   violation after a set ends the same way (`FailForeign` in `ConfigFidelity`).
2. `switch_timeout`, after a crash and an unreadable marker: `_switch_unproven` asks
   `_marker_present` for the proofs too, and that answers "present" for whatever it cannot read
   (`arsd/reconcile.py:218`). The comment above it and `docs/design/architecture.md:488-491` say
   that a proof is believed only on a clean marker. The Run is settled as `failed` over a
   reusable Session.
3. `switch_timeout`, after a lost marker and a crash: `_write_config_marker` swallows its
   failures (`native_acp/run_task.py:1726`), and says that a missing marker makes a later
   reconciliation only more conservative. Without `config-switch-started` it is less so: it
   finds no trace of the switch. The counterexample TLC reports is the first one, which is
   shorter; limited to what a reconciliation settles, the shortest ones are of 16 states
   (unreadable proof, no fault) and 14 (lost marker, no damage). If such a Run has fenced its
   Session and the daemon dies before the quarantine, no directory asks for one any more: the
   fence stays, and the Session is blocked without a record of why (`RestartConverges` excepts
   it).
4. `emergency_quarantine`: `_emergency_cleanup` calls `_quarantine` with its default
   `swallow=True` (`native_acp/run_task.py:1969`), so the handler that says "Required quarantine
   failed: no terminal result, no lease release" is never reached: it publishes `unknown` and
   releases over a Session that is not blocked. The next restart repairs it
   (`RestartContainsHolds`).
5. `early_cancel`: a `run_cancel` that is handled in the same turn of the event loop as
   the submission cancels the Run's task before its first step. The `finally` that
   unregisters it is inside the coroutine that never runs, so the Session stays busy,
   the slot taken, and a later shutdown waits for ever with the instance lease.
6. `reap_cut`: `wait()` joins the stderr drain with `asyncio.wait_for`, which cancels the
   drain task when the caller gives up. Every later `wait()` then raises `CancelledError`:
   the finalizer fails, and the emergency cleanup retries the same `wait()` for ever. An
   agent that dies while a descendant keeps its stderr open is enough. A doctor probe that
   meets this ends in a traceback instead of a report.

Known weaknesses without a run of their own, met while modelling:

- A lease that is kept because the quarantine failed expires after 900 seconds
  (`native_acp/run_task.py:508`), and the Session can be leased again until the next restart,
  which quarantines it (`RestartContainsHolds`).
- `_watch` puts a page into the queue without an await between its events
  (`arsd/handlers.py:565`), so a page larger than the queue drops a reader that keeps up.
- `aclose` of the server closes the connections and waits for them without an abort or a
  timeout (`arsd/server.py:230-243`): a peer that has stopped reading keeps the shutdown, and
  the instance lease, for as long as it likes (`ShutdownEnds` of `FollowStream` excepts it).
- At shutdown a follower's connection is closed without an error frame, which the client
  takes for the end of the stream (`ToldOnlyWhenComplete` excludes it).
- The emergency cleanup publishes a terminal while the writer thread may still append
  (`orderly` in `FollowStream`), and signals a group whose leader may be reaped already.
- Descendants of a Run's agent that ignore SIGTERM outlive its reaped leader although they
  stay in the group; only the probe waits for the whole group.
  `docs/design/agent-registry.md:538-539` says that every descendant still in the group is
  reliably terminated. `ProbeLeavesNobody` is therefore about the probe alone.
- An idle update that crosses the prompt on the wire is counted in the turn
  (`HistoryStaysOut` speaks of the history only).
- A refused read for a call that was not announced in this turn is put on the one open
  read-like call (`SendRead` assumes it was announced).

## 6. Plan

Done: `EventLedger` with `DurableLog`, `RunLifecycle` with `SessionPromise`, `Admission`,
`FollowStream`, `Conversation`, `ConfigFidelity`, `PermissionBridge`, `ChildProcess`, their
runs, and the theorems of section 4.

Left:

1. An abstract specification of an admission key (one acceptance, one digest), which
   `Admission` implements; `AcceptancesAgree` is its safety part.
2. A stream as an abstract reader of a growing log, which `FollowStream` implements, so that
   `DurableLog` and the readers meet in one statement.
3. Several Sessions in `RunLifecycle`, if the code ever lets one Run touch two.

Not modelled, and not planned: parsing, validation and hashing of specs, profiles and
registries; redaction; the command line apart from the probe; read-only operations; the
service unit; and the repository's test harnesses, tools and skill scripts. They keep no
state that outlives a call, so a model would restate them.
