------------------------------- MODULE Admission -------------------------------
(***************************************************************************)
(* The requests of the daemon's callers (submit, run_cancel, run_status),  *)
(* the RunRegistry and the keyed admission locks they go through, the      *)
(* containment of an untrusted terminal, and the shutdown that ends with   *)
(* the instance lease.                                                     *)
(*                                                                         *)
(* A step is what the event loop runs between two awaits, and every await  *)
(* between two effects counts, the registry's lock included, although an   *)
(* uncontended lock does not suspend its caller today.  A Run's task is    *)
(* only born, published and finished: RunLifecycle has its inside, and     *)
(* what a restart settles.                                                 *)
(***************************************************************************)
EXTENDS Naturals, FiniteSets

CONSTANTS
  Requests,     \* the requests callers send, each once
  Runs,         \* the Run ids that (principal_id, request_id) pairs derive
  None,
  Op,           \* per request: submit, cancel or status
  RunOf,        \* per request: the Run it names
  DigestOf,     \* per submission: its canonical digest
  SessionOf,    \* per submission: the Session its Run occupies
  Large,        \* submissions that only the default event budget admits
  MaxRuns,      \* max_concurrent_runs
  MaxStarts,    \* bound: starts of the daemon after the first
  MaxRetries,   \* bound: failed shutdown lifecycles
  MaxDamage     \* bound: terminals damaged behind the daemon's back

Submissions == {q \in Requests : Op[q] = "submit"}

ASSUME RequestsAssumption ==
  /\ Op \in [Requests -> {"submit", "cancel", "status"}]
  /\ RunOf \in [Requests -> Runs]
  /\ None \notin Requests
  /\ \A q \in Submissions : DigestOf[q] # None
  /\ Large \subseteq Submissions
ASSUME LimitsAssumption ==
  /\ MaxRuns \in Nat \ {0}
  /\ MaxStarts \in Nat /\ MaxRetries \in Nat /\ MaxDamage \in Nat

VARIABLES
  pc,          \* per request: where its handler stands
  reply,       \* per request: what the caller was told
  locks,       \* KeyedLocks._locks: per key, the lock object
  waiters,     \* KeyedLocks._waiters
  lockOf,      \* per request: the lock object it has got hold of
  open,        \* RunRegistry._admission_open
  reserved,    \* RunRegistry._reservations: the requests whose token is live
  entries,     \* RunRegistry._entries
  session,     \* per Run: the Session its entry or reservation occupies
  task,        \* per Run: the registry's task
  made,        \* the Runs whose directory exists
  submission,  \* per Run: the digest in submission.json
  terminal,    \* per Run: result.json
  quarantined, \* the Sessions with quarantine evidence
  phase,       \* serve_daemon and the shutdown lifecycle
  tight,       \* this daemon runs under a lower event budget
  starts, retries, damage

requests == <<pc, reply>>
keyed    == <<locks, waiters, lockOf>>
registry == <<open, reserved, entries, session, task>>
store    == <<made, submission, terminal, quarantined>>
daemon   == <<phase, tight, starts, retries>>
vars     == <<requests, keyed, registry, store, daemon, damage>>

Places == {"new", "acquire", "resolve", "reserve", "prepare", "register", "release",
           "unlock", "forget", "cancelled", "inspect", "contain", "contained",
           "uncontained", "done"}
Replies == {"none", "lost", "accepted", "indeterminate", "conflict", "budget",
            "shutting_down", "capacity", "busy", "reservation_failed", "not_persisted",
            "refused", "not_registered", "unknown_run", "untrusted", "answered"}

\* Every variable has its type.
TypeOK ==
  /\ pc \in [Requests -> Places] /\ reply \in [Requests -> Replies]
  /\ locks \in [Runs -> Requests \cup {None}] /\ waiters \in [Runs -> Nat]
  /\ lockOf \in [Requests -> Requests \cup {None}]
  /\ open \in BOOLEAN /\ reserved \subseteq Requests /\ entries \subseteq Runs
  /\ session \in [Runs -> {SessionOf[q] : q \in Submissions} \cup {None}]
  /\ task \in [Runs -> {"none", "created", "stillborn", "never", "running", "done"}]
  /\ made \subseteq Runs
  /\ submission \in [Runs -> {DigestOf[q] : q \in Submissions} \cup {None}]
  /\ terminal \in [Runs -> {"absent", "trusted", "invalid"}]
  /\ quarantined \subseteq {SessionOf[q] : q \in Submissions}
  /\ phase \in {"serving", "closing", "stopping", "draining", "cancelling", "idling",
                "idle", "down", "refused"}
  /\ tight \in BOOLEAN /\ starts \in 0..MaxStarts /\ retries \in 0..MaxRetries
  /\ damage \in 0..MaxDamage

Init ==
  /\ pc = [q \in Requests |-> "new"] /\ reply = [q \in Requests |-> "none"]
  /\ locks = [r \in Runs |-> None] /\ waiters = [r \in Runs |-> 0]
  /\ lockOf = [q \in Requests |-> None]
  /\ open = TRUE /\ reserved = {} /\ entries = {}
  /\ session = [r \in Runs |-> None] /\ task = [r \in Runs |-> "none"]
  /\ made = {} /\ submission = [r \in Runs |-> None]
  /\ terminal = [r \in Runs |-> "absent"] /\ quarantined = {}
  /\ phase = "serving" /\ tight = FALSE /\ starts = 0 /\ retries = 0 /\ damage = 0

Go(q, place) == pc' = [pc EXCEPT ![q] = place] /\ UNCHANGED reply
Answer(q, code, place) ==
  pc' = [pc EXCEPT ![q] = place] /\ reply' = [reply EXCEPT ![q] = code]

\* A frame is refused once the server is shutting down.
Serving == phase \in {"serving", "closing", "stopping"}

-----------------------------------------------------------------------------
(* KeyedLocks *)

\* hold, under the guard: the key's lock object, made if there is none.
Enter(q) ==
  /\ pc[q] = "new" /\ Op[q] = "submit" /\ Serving
  /\ LET object == IF locks[RunOf[q]] = None THEN q ELSE locks[RunOf[q]] IN
     /\ locks' = [locks EXCEPT ![RunOf[q]] = object]
     /\ lockOf' = [lockOf EXCEPT ![q] = object]
  /\ waiters' = [waiters EXCEPT ![RunOf[q]] = @ + 1]
  /\ Go(q, "acquire")
  /\ UNCHANGED <<registry, store, daemon, damage>>

\* Inside the with statement, containment of its Run included.
Holding == {"resolve", "reserve", "prepare", "register", "release", "unlock",
            "contain", "contained", "uncontained"}

\* Mutant: a waiter waits for all others, who wait for it.
AcquireAlone(q) ==
  /\ pc[q] = "acquire" /\ waiters[RunOf[q]] = 1
  /\ Go(q, "resolve")
  /\ UNCHANGED <<keyed, registry, store, daemon, damage>>

\* lock.acquire(): one holder per lock object.
Acquire(q) ==
  /\ pc[q] = "acquire"
  /\ \A p \in Submissions : lockOf[p] = lockOf[q] => pc[p] \notin Holding
  /\ Go(q, "resolve")
  /\ UNCHANGED <<keyed, registry, store, daemon, damage>>

\* lock.release(): the next waiter may go on before the guard is taken again.
Unlock(q) ==
  /\ pc[q] = "unlock"
  /\ Go(q, "forget")
  /\ UNCHANGED <<keyed, registry, store, daemon, damage>>

\* Mutant: a key is forgotten with its last but one waiter.
ForgetEarly(q) ==
  /\ pc[q] = "forget"
  /\ LET remaining == waiters[RunOf[q]] - 1 IN
     /\ waiters' = [waiters EXCEPT ![RunOf[q]] = IF remaining <= 1 THEN 0 ELSE remaining]
     /\ locks' = [locks EXCEPT ![RunOf[q]] = IF remaining <= 1 THEN None ELSE @]
  /\ lockOf' = [lockOf EXCEPT ![q] = None]
  /\ Go(q, "done")
  /\ UNCHANGED <<registry, store, daemon, damage>>

\* The last one out forgets the key.
Forget(q) ==
  /\ pc[q] = "forget"
  /\ LET remaining == waiters[RunOf[q]] - 1 IN
     /\ waiters' = [waiters EXCEPT ![RunOf[q]] = remaining]
     /\ locks' = [locks EXCEPT ![RunOf[q]] = IF remaining = 0 THEN None ELSE @]
  /\ lockOf' = [lockOf EXCEPT ![q] = None]
  /\ Go(q, "done")
  /\ UNCHANGED <<registry, store, daemon, damage>>

-----------------------------------------------------------------------------
(* submit *)

\* classify_submission finds a valid binding.  A submission that is there at all
\* was written whole.
Bound(r) == submission[r] # None

\* compute_request_digest gives what the durable submission has.
SameRequest(q) == submission[RunOf[q]] = DigestOf[q]

\* admit_event_budget refuses new work over the ceiling of this daemon.
OverBudget(q) == tight /\ q \in Large

\* Mutant: a durable submission answers for any digest.
DurableAnswerAnyDigest(q) ==
  LET r == RunOf[q] IN
  IF ~Bound(r) THEN "indeterminate"
  ELSE IF terminal[r] = "invalid" THEN "untrusted"
  ELSE IF r \in entries \/ terminal[r] = "trusted" THEN "accepted" ELSE "indeterminate"

\* _resolve_durable for an existing directory; "untrusted" goes to containment.
DurableAnswer(q) ==
  LET r == RunOf[q] IN
  IF ~Bound(r) THEN "indeterminate"
  ELSE IF ~SameRequest(q) THEN "conflict"
  ELSE IF terminal[r] = "invalid" THEN "untrusted"
  ELSE IF r \in entries \/ terminal[r] = "trusted" THEN "accepted" ELSE "indeterminate"

\* _resolve_durable, then admit_event_budget for new work.
Resolve(q) ==
  /\ pc[q] = "resolve"
  /\ IF RunOf[q] \in made
     THEN IF DurableAnswer(q) = "untrusted" THEN Go(q, "contain")
          ELSE Answer(q, DurableAnswer(q), "unlock")
     ELSE IF OverBudget(q) THEN Answer(q, "budget", "unlock")
          ELSE Go(q, "reserve")
  /\ UNCHANGED <<keyed, registry, store, daemon, damage>>

Occupied == Cardinality(entries) + Cardinality(reserved)

\* _session_held_locked.
SessionHeld(s) ==
  (\E r \in entries : session[r] = s) \/ (\E p \in reserved : SessionOf[p] = s)

\* RunRegistry.reserve.
Reserve(q) ==
  /\ pc[q] = "reserve"
  /\ IF ~open THEN Answer(q, "shutting_down", "unlock") /\ UNCHANGED reserved
     ELSE IF Occupied >= MaxRuns THEN Answer(q, "capacity", "unlock") /\ UNCHANGED reserved
     ELSE IF SessionHeld(SessionOf[q]) THEN Answer(q, "busy", "unlock") /\ UNCHANGED reserved
     ELSE Go(q, "prepare") /\ reserved' = reserved \cup {q}
  /\ UNCHANGED <<keyed, open, entries, session, task, store, daemon, damage>>

\* finalize_registration_failure; its own failure is only logged.
FailedTerminal(r) ==
  \/ terminal' = [terminal EXCEPT ![r] = IF @ = "absent" THEN "trusted" ELSE @]
  \/ UNCHANGED terminal

\* prepare_run, write_submission and the RunTask factory, without an await.
\* Each may fail, the write of the submission with the file in its place too; a
\* factory that refuses leaves a failed terminal.
Prepare(q) ==
  LET r == RunOf[q] IN
  /\ pc[q] = "prepare"
  /\ \/ /\ r \in made /\ Answer(q, "reservation_failed", "release")
        /\ UNCHANGED <<made, submission, terminal>>
     \/ /\ Answer(q, "not_persisted", "release")
        /\ UNCHANGED <<made, submission, terminal>>
     \/ /\ r \notin made /\ made' = made \cup {r}
        /\ \/ /\ Answer(q, "not_persisted", "release") /\ UNCHANGED terminal
              /\ submission' \in {submission, [submission EXCEPT ![r] = DigestOf[q]]}
           \/ /\ submission' = [submission EXCEPT ![r] = DigestOf[q]]
              /\ \/ Go(q, "register") /\ UNCHANGED terminal
                 \/ /\ Answer(q, "refused", "release")
                    /\ FailedTerminal(r)
  /\ UNCHANGED <<keyed, registry, quarantined, daemon, damage>>

\* RunRegistry.register: the task is created, not started.
Register(q) ==
  LET r == RunOf[q] IN
  /\ pc[q] = "register"
  /\ IF open /\ q \in reserved /\ r \notin entries
     THEN /\ entries' = entries \cup {r} /\ reserved' = reserved \ {q}
          /\ session' = [session EXCEPT ![r] = SessionOf[q]]
          /\ task' = [task EXCEPT ![r] = "created"]
          /\ Answer(q, "accepted", "unlock") /\ UNCHANGED terminal
     ELSE /\ FailedTerminal(r)
          /\ Answer(q, IF open THEN "not_registered" ELSE "shutting_down", "release")
          /\ UNCHANGED <<entries, reserved, session, task>>
  /\ UNCHANGED <<keyed, open, made, submission, quarantined, daemon, damage>>

\* The finally clause of _submit_locked.
Release(q) ==
  /\ pc[q] = "release"
  /\ reserved' = reserved \ {q}
  /\ Go(q, "unlock")
  /\ UNCHANGED <<keyed, open, entries, session, task, store, daemon, damage>>

-----------------------------------------------------------------------------
(* run_cancel and run_status *)

\* A task cancelled before its first step never runs _run_guarded.
Cancelled(t) == IF t = "created" THEN "stillborn" ELSE t
Over(r)      == task[r] \in {"none", "done", "never"}

\* _authorize_run, then RunRegistry.cancel for a registered Run.
Query(q) ==
  LET r == RunOf[q] IN
  /\ pc[q] = "new" /\ Op[q] # "submit" /\ Serving
  /\ IF ~Bound(r)
     THEN Answer(q, "unknown_run", "done") /\ UNCHANGED task
     ELSE IF Op[q] = "cancel" /\ r \in entries
          THEN /\ task' = [task EXCEPT ![r] = Cancelled(@)]
               /\ Go(q, "cancelled")
          ELSE Go(q, "inspect") /\ UNCHANGED task
  /\ UNCHANGED <<keyed, open, reserved, entries, session, store, daemon, damage>>

\* The Run ends, or cancel_wait_seconds and the polling pass.
CancelReturns(q) ==
  /\ pc[q] = "cancelled"
  /\ Go(q, "inspect")
  /\ UNCHANGED <<keyed, registry, store, daemon, damage>>

Inspect(q) ==
  /\ pc[q] = "inspect"
  /\ IF terminal[RunOf[q]] = "invalid" THEN Go(q, "contain") ELSE Answer(q, "answered", "done")
  /\ UNCHANGED <<keyed, registry, store, daemon, damage>>

-----------------------------------------------------------------------------
(* _contain_invalid_terminal *)

\* The Session a submission names: what _quarantine_bound_session fences.
BoundSession(r) ==
  CHOOSE s \in {SessionOf[q] : q \in Submissions} :
    \E q \in Submissions : RunOf[q] = r /\ DigestOf[q] = submission[r] /\ SessionOf[q] = s

\* _quarantine_bound_session: it may fail, or find no Session record yet.
Quarantine(r) == quarantined' = quarantined \cup {BoundSession(r)} \/ UNCHANGED quarantined

\* Fence, quarantine, refuse; a failed quarantine refuses alike.
Refuse(q) ==
  /\ Quarantine(RunOf[q])
  /\ Answer(q, "untrusted", IF Op[q] = "submit" THEN "unlock" ELSE "done")

Contain(q) ==
  LET r == RunOf[q] IN
  /\ pc[q] = "contain"
  /\ IF r \in entries
     THEN /\ task' = [task EXCEPT ![r] = Cancelled(@)]
          /\ Go(q, "contained") /\ UNCHANGED quarantined
     ELSE Refuse(q) /\ UNCHANGED task
  /\ UNCHANGED <<keyed, open, reserved, entries, session, made, submission, terminal,
                 daemon, damage>>

\* Mutant: the bounded cancel is taken for containment.
ContainReturnsBounded(q) ==
  /\ pc[q] = "contained"
  /\ Refuse(q)
  /\ UNCHANGED <<keyed, registry, made, submission, terminal, daemon, damage>>

\* The Run has ended, or the bounded cancel gives up: fence first, then wait.
ContainReturns(q) ==
  /\ pc[q] = "contained"
  /\ IF RunOf[q] \in entries
     THEN Quarantine(RunOf[q]) /\ Go(q, "uncontained")
     ELSE Refuse(q)
  /\ UNCHANGED <<keyed, registry, made, submission, terminal, daemon, damage>>

\* wait_until_unregistered awaits the task.
ContainWaited(q) ==
  /\ pc[q] = "uncontained" /\ Over(RunOf[q])
  /\ Refuse(q)
  /\ UNCHANGED <<keyed, registry, made, submission, terminal, daemon, damage>>

-----------------------------------------------------------------------------
(* The Run tasks *)

\* The task's first step enters _run_guarded.
TaskStarts(r) ==
  /\ task[r] = "created"
  /\ task' = [task EXCEPT ![r] = "running"]
  /\ UNCHANGED <<requests, keyed, open, reserved, entries, session, store, daemon, damage>>

\* Its coroutine was cancelled first: the finally clause does not exist yet.
TaskNeverStarts(r) ==
  /\ task[r] = "stillborn"
  /\ task' = [task EXCEPT ![r] = "never"]
  /\ UNCHANGED <<requests, keyed, open, reserved, entries, session, store, daemon, damage>>

\* The Run publishes its terminal, if it can.
Publish(r) ==
  /\ task[r] = "running" /\ terminal[r] = "absent"
  /\ terminal' = [terminal EXCEPT ![r] = "trusted"]
  /\ UNCHANGED <<requests, keyed, registry, made, submission, quarantined, daemon, damage>>

\* Mutant: unregistering awaits the registry lock and is cancelled there.
TaskEndsRegistered(r) ==
  /\ task[r] = "running"
  /\ task' = [task EXCEPT ![r] = "done"]
  /\ UNCHANGED <<requests, keyed, open, reserved, entries, session, store, daemon, damage>>

\* The finally clause of _run_guarded.
TaskEnds(r) ==
  /\ task[r] = "running"
  /\ task' = [task EXCEPT ![r] = "done"]
  /\ entries' = entries \ {r}
  /\ UNCHANGED <<requests, keyed, open, reserved, session, store, daemon, damage>>

-----------------------------------------------------------------------------
(* Shutdown *)

\* SIGTERM, SIGINT or the cancellation of serve_daemon.
RequestStop ==
  /\ phase = "serving" /\ phase' = "closing"
  /\ UNCHANGED <<requests, keyed, registry, store, tight, starts, retries, damage>>

CloseAdmission ==
  /\ phase = "closing" /\ phase' = "stopping"
  /\ open' = FALSE /\ reserved' = {}
  /\ UNCHANGED <<requests, keyed, entries, session, task, store, tight, starts, retries,
                 damage>>

\* ArsdServer.shutdown: later frames are refused.
StopServer ==
  /\ phase = "stopping" /\ phase' = "draining"
  /\ UNCHANGED <<requests, keyed, registry, store, tight, starts, retries, damage>>

\* ArsdServer.aclose has gathered every connection, then cancel_all cancels.
\* A task that a handler created has had its first step by then: the loop
\* runs it before it wakes who awaits the handler.
CancelAll ==
  /\ phase = "draining" /\ phase' = "cancelling"
  /\ \A q \in Requests : pc[q] \in {"new", "done"}
  /\ \A r \in entries : task[r] # "created"
  /\ open' = FALSE /\ reserved' = {}
  /\ UNCHANGED <<requests, keyed, entries, session, task, store, tight, starts, retries,
                 damage>>

\* cancel_all awaits what the bound left.
TasksEnded ==
  /\ phase = "cancelling" /\ phase' = "idling"
  /\ \A r \in entries : Over(r)
  /\ UNCHANGED <<requests, keyed, registry, store, tight, starts, retries, damage>>

\* wait_until_idle.
RegistryIdle ==
  /\ phase = "idling" /\ phase' = "idle"
  /\ entries = {}
  /\ UNCHANGED <<requests, keyed, registry, store, tight, starts, retries, damage>>

ReleaseLease ==
  /\ phase = "idle" /\ phase' = "down"
  /\ UNCHANGED <<requests, keyed, registry, store, tight, starts, retries, damage>>

\* Mutant: a lifecycle that fails authorizes the release.
LifecycleFailsReleases ==
  /\ phase \in {"closing", "stopping", "draining", "cancelling", "idling"}
  /\ retries < MaxRetries /\ retries' = retries + 1 /\ phase' = "idle"
  /\ UNCHANGED <<requests, keyed, registry, store, tight, starts, damage>>

\* A phase raises: the lease stays held, and the lifecycle runs again.
LifecycleFails ==
  /\ phase \in {"closing", "stopping", "draining", "cancelling", "idling"}
  /\ retries < MaxRetries /\ retries' = retries + 1 /\ phase' = "closing"
  /\ UNCHANGED <<requests, keyed, registry, store, tight, starts, damage>>

-----------------------------------------------------------------------------
(* The environment *)

LeaseHeld == phase \notin {"down", "refused"}

\* The daemon dies; answers not yet written are lost, and so is all but the
\* store.  The kernel drops the lease.
Crash ==
  /\ LeaseHeld /\ starts < MaxStarts /\ phase' = "down"
  /\ pc' = [q \in Requests |-> IF pc[q] = "new" THEN "new" ELSE "done"]
  /\ reply' = [q \in Requests |-> IF pc[q] \in {"new", "done"} THEN reply[q] ELSE "lost"]
  /\ locks' = [r \in Runs |-> None] /\ waiters' = [r \in Runs |-> 0]
  /\ lockOf' = [q \in Requests |-> None]
  /\ reserved' = {} /\ entries' = {}
  /\ task' = [r \in Runs |-> IF task[r] = "none" THEN "none" ELSE "done"]
  /\ UNCHANGED <<open, session, store, tight, starts, retries, damage>>

\* serve_daemon: the instance lease, then the reconciliation, which settles
\* every Run directory or refuses (RunLifecycle), then a new registry under
\* the ceiling this daemon was given.
Start ==
  /\ phase = "down" /\ starts < MaxStarts /\ starts' = starts + 1
  /\ open' = TRUE /\ tight' \in BOOLEAN
  /\ IF \E r \in made : terminal[r] = "invalid"
     THEN phase' = "refused" /\ UNCHANGED terminal
     ELSE /\ phase' = "serving"
          /\ terminal' = [r \in Runs |-> IF r \in made THEN "trusted" ELSE terminal[r]]
  /\ UNCHANGED <<requests, keyed, reserved, entries, session, task, made, submission,
                 quarantined, retries, damage>>

\* result.json is truncated, edited or replaced.
Damage(r) ==
  /\ r \in made /\ terminal[r] # "invalid" /\ damage < MaxDamage
  /\ damage' = damage + 1
  /\ terminal' = [terminal EXCEPT ![r] = "invalid"]
  /\ UNCHANGED <<requests, keyed, registry, made, submission, quarantined, daemon>>

-----------------------------------------------------------------------------
Handle(q) ==
  \/ Acquire(q) \/ Resolve(q) \/ Reserve(q) \/ Prepare(q) \/ Register(q) \/ Release(q)
  \/ Unlock(q) \/ Forget(q) \/ CancelReturns(q) \/ Inspect(q) \/ Contain(q)
  \/ ContainReturns(q) \/ ContainWaited(q)

RunTaskStep(r) == TaskStarts(r) \/ TaskNeverStarts(r) \/ TaskEnds(r)

Shutdown ==
  \/ CloseAdmission \/ StopServer \/ CancelAll \/ TasksEnded \/ RegistryIdle \/ ReleaseLease

Next ==
  \/ \E q \in Requests : Enter(q) \/ Query(q) \/ Handle(q)
  \/ \E r \in Runs : RunTaskStep(r) \/ Publish(r) \/ Damage(r)
  \/ RequestStop \/ Shutdown \/ LifecycleFails
  \/ Crash \/ Start

Spec == Init /\ [][Next]_vars

\* The event loop runs what is ready, and every wait of a handler and of the
\* shutdown is bounded or awaits one that is, or a Run.  Callers and signals owe
\* nothing, and a Run that runs need not end.
Fairness ==
  /\ \A q \in Requests : WF_vars(Handle(q))
  /\ \A r \in Runs : WF_vars(TaskStarts(r) \/ TaskNeverStarts(r))
  /\ WF_vars(Shutdown)

FairSpec == Spec /\ Fairness

-----------------------------------------------------------------------------
(* Properties *)

\* One handler at a time works on an admission key, and whoever waits for it or
\* holds it does so on the lock object that the next one to come will find,
\* although objects are made and forgotten on the way.
KeyExclusive ==
  \A q \in Submissions :
    /\ pc[q] \in {"acquire"} \cup Holding => lockOf[q] = locks[RunOf[q]]
    /\ \A p \in Submissions :
         RunOf[p] = RunOf[q] /\ pc[p] \in Holding /\ pc[q] \in Holding => p = q

\* All acceptances of a key are for one digest, across crashes and restarts.
AcceptancesAgree ==
  \A p, q \in Submissions :
    RunOf[p] = RunOf[q] /\ reply[p] = "accepted" /\ reply[q] = "accepted" =>
      DigestOf[p] = DigestOf[q]

\* No caller is told of an untrusted terminal while the registry's task may be
\* live, although the cancellation before it is bounded.
RefusalIsContained ==
  [][\A q \in Requests : reply[q] = "none" /\ reply'[q] = "untrusted" =>
       Over(RunOf[q])]_vars

\* The instance lease outlives every Run, reservation and handler.
LeaseOutlivesRuns ==
  ~LeaseHeld =>
    /\ \A r \in Runs : Over(r)
    /\ entries = {} /\ reserved = {}
    /\ \A q \in Requests : pc[q] \in {"new", "done"}

\* A registered Run has a live task.
EntriesAreLive == \A r \in entries : ~Over(r)

\* A Run whose task runs for ever.
RunStays(r) == <>[](task[r] = "running")

\* A daemon that is told to stop gives its lease up, unless a Run never ends
\* (FinalizationEnds of ChildProcess), or a cancellation met a task before its first
\* step, which leaves its entry behind (EntriesAreLive).  The connections are
\* taken to close (ShutdownEnds of FollowStream).
ShutdownEnds ==
  \/ \E r \in Runs : RunStays(r)
  \/ phase = "closing" ~> ~LeaseHeld \/ \E r \in Runs : task[r] \in {"stillborn", "never"}

\* Every request is answered, unless it waits to contain a Run that never ends:
\* callers send a request once, so the handlers come to rest.
RequestsEnd ==
  \/ \E r \in Runs : RunStays(r)
  \/ (\E q \in Requests : pc[q] \notin {"new", "done"})
       ~> \A q \in Requests : pc[q] \in {"new", "done"}
=============================================================================
