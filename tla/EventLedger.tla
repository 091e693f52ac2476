----------------------------- MODULE EventLedger -----------------------------
(***************************************************************************)
(* The evidence pipeline of one Run: native_acp/event_writer.py.           *)
(*                                                                         *)
(* Producers submit events; an event is accepted (it has a sequence number *)
(* and a deadline), admitted (it fits the current rung of the capacity and *)
(* byte ladders) and persisted (one serial consumer appended it in a       *)
(* thread and the append returned).  One failure funnel, _poison, absorbs  *)
(* every error.  Everything the event loop runs between two awaits is one  *)
(* action here.                                                            *)
(*                                                                         *)
(* The synchronous methods are pure operators on the ledger record, so     *)
(* that an action composes them the way the code calls them.               *)
(***************************************************************************)
EXTENDS Integers, Sequences, FiniteSetsExt

CONSTANTS
  Capacities,       \* QueuePolicy.event_capacities(), one entry per rung
  Budgets,          \* QueuePolicy.queued_byte_budgets(), one entry per rung
  MaxEvents,        \* max_events
  MaxEventBytes,    \* max_event_bytes: a longer record becomes a marker
  MarkerBytes,      \* the size of the truncation marker
  ProducerTimeout,  \* producer_timeout_seconds, in clock ticks
  EventBytes,       \* the sizes of the records producers submit
  MaxTime           \* bound: the clock stops here

Tiers == 1..Len(Capacities)

\* QueuePolicy.__post_init__ refuses anything else; the marker always fits
\* because max_event_bytes has a floor (256) above any marker's length, and
\* one event always fits the lowest byte budget (1 MiB against 8 MiB).
ASSUME PolicyAssumption ==
  /\ Capacities \in Seq(Nat \ {0}) /\ Budgets \in Seq(Nat \ {0})
  /\ Len(Capacities) = Len(Budgets) /\ Len(Capacities) > 0
  /\ \A i, j \in Tiers : i < j => Capacities[i] < Capacities[j] /\ Budgets[i] < Budgets[j]

ASSUME LimitAssumption ==
  /\ MaxEvents \in Nat \ {0} /\ MaxTime \in Nat
  /\ ProducerTimeout \in Nat \ {0}
  /\ MaxEventBytes \in Nat /\ MarkerBytes \in 1..MaxEventBytes
  /\ MaxEventBytes <= Budgets[1]
  /\ EventBytes \subseteq Nat \ {0}

MaxCapacity == Capacities[Len(Capacities)]
MaxBytes    == Budgets[Len(Budgets)]

\* _FailureCode: the rank breaks ties between failures of one ordinal.
SERIALIZATION       == 10
MAX_EVENTS          == 30
SATURATED_COUNT     == 40
SATURATED_BYTES     == 50
PRODUCER_TIMEOUT    == 60
LEDGER_INVARIANT    == 70
CONSUMER_START      == 80
APPEND_FAILED       == 90
CONSUMER_CANCELLED  == 100
CLOSE_INCONSISTENCY == 120
NO_CONSUMER         == 130

FailureCodes ==
  {SERIALIZATION, MAX_EVENTS, SATURATED_COUNT, SATURATED_BYTES, PRODUCER_TIMEOUT,
   LEDGER_INVARIANT, CONSUMER_START, APPEND_FAILED, CONSUMER_CANCELLED,
   CLOSE_INCONSISTENCY, NO_CONSUMER}

\* _FailureKey; ordinals start at 1, so ordinal 0 stands for None.
NoFailure == [ordinal |-> 0, rank |-> 0]

VARIABLES
  led,        \* the fields of EventWriter that its synchronous methods use
  worker,     \* the append running in a thread: its seq and how far it is
  disk,       \* the sequence numbers of the lines in the event file
  closing,    \* the owned close task: its phase and the cached outcome
  cancelReq,  \* tasks the event loop's teardown has asked to cancel
  now         \* the monotonic clock

vars == <<led, worker, disk, closing, cancelReq, now>>

WriterStates   == {"NEW", "RUNNING", "CLOSING", "FAILING", "CLOSED_OK", "CLOSED_FAILED"}
ConsumerStates == {"NOT_STARTED", "RUNNING", "EXITED_CLOSE_STOP",
                   "EXITED_FAILURE_DRAIN", "EXITED_ERROR"}
TicketStates   == {"PENDING", "ADMITTED", "PERSISTED", "EXPIRED", "FAILED",
                   "FAILED_UNPERSISTED"}
Outcomes       == {"none", "ok", "failed"}

\* The consumer task: absent, created, awaiting the wakeup, awaiting the
\* append thread, finished, and finished with its done callback run.
TaskPhases  == {"none", "created", "waiting", "appending", "done", "reaped"}
ClosePhases == {"none", "scheduled", "waitPending", "waitConsumer", "cancelled", "done"}

\* end is the sum of the sizes accepted so far: the offset of the ticket's
\* last byte in the accepted stream.
Ticket == [nbytes : Nat \ {0}, end : Nat, deadline : Nat, state : TicketStates,
           admission : Outcomes, persistence : Outcomes]

LedgerFields ==
  {"wstate", "cstate", "ctask", "tier", "growthMark", "tickets", "pending", "admitted",
   "pendingBytes", "queuedBytes", "admittedHigh", "persisted", "inFlight", "primary",
   "drainThenExit", "stopRequested", "wakeup", "pendingEmpty", "timer"}

LedgerType(L) ==
  /\ DOMAIN L = LedgerFields
  /\ L.wstate \in WriterStates /\ L.cstate \in ConsumerStates /\ L.ctask \in TaskPhases
  /\ L.tier \in Tiers /\ L.growthMark \in Nat
  /\ L.tickets \in Seq(Ticket) /\ L.pending \in Seq(Nat) /\ L.admitted \in Seq(Nat)
  /\ L.pendingBytes \in Int /\ L.queuedBytes \in Int
  /\ L.admittedHigh \in Nat /\ L.persisted \in Nat /\ L.inFlight \in Nat
  /\ L.primary \in [ordinal : Nat, rank : FailureCodes \cup {0}]
  /\ L.drainThenExit \in BOOLEAN /\ L.stopRequested \in BOOLEAN
  /\ L.wakeup \in BOOLEAN /\ L.pendingEmpty \in BOOLEAN
  /\ L.timer \in Nat

\* Every variable has its type.
TypeOK ==
  /\ LedgerType(led)
  /\ worker \in [seq : Nat, st : {"idle", "writing", "wrote", "raised"}]
  /\ disk \in Seq(Nat)
  /\ closing \in [phase : ClosePhases, outcome : Outcomes]
  /\ cancelReq \subseteq {"consumer", "close"}
  /\ now \in 0..MaxTime

Init ==
  /\ led = [wstate |-> "NEW", cstate |-> "NOT_STARTED", ctask |-> "none",
            tier |-> 1, growthMark |-> 0, tickets |-> <<>>,
            pending |-> <<>>, admitted |-> <<>>, pendingBytes |-> 0, queuedBytes |-> 0,
            admittedHigh |-> 0, persisted |-> 0, inFlight |-> 0,
            primary |-> NoFailure, drainThenExit |-> FALSE, stopRequested |-> FALSE,
            wakeup |-> FALSE, pendingEmpty |-> TRUE, timer |-> 0]
  /\ worker = [seq |-> 0, st |-> "idle"]
  /\ disk = <<>>
  /\ closing = [phase |-> "none", outcome |-> "none"]
  /\ cancelReq = {}
  /\ now = 0

-----------------------------------------------------------------------------
(* Observers *)

Accepted(L) == Len(L.tickets)
Failed(L)   == L.primary # NoFailure
Live(L)     == L.wstate \in {"NEW", "RUNNING", "CLOSING"}
Open(L)     == L.wstate \in {"NEW", "RUNNING"} /\ ~Failed(L)

\* The consumer task exists and is not done.
TaskAlive(L)    == L.ctask \in {"created", "waiting", "appending"}
ConsumerLive(L) == L.cstate = "RUNNING" /\ TaskAlive(L)

LowestUnpersisted(L) ==
  IF Accepted(L) > L.persisted THEN L.persisted + 1 ELSE Accepted(L) + 1

IsIn(i, s) == \E j \in 1..Len(s) : s[j] = i

\* The bytes of the first k tickets of a queue of consecutive tickets.
PrefixBytes(L, q, k) ==
  IF k = 0 THEN 0
  ELSE L.tickets[q[k]].end - L.tickets[q[1]].end + L.tickets[q[1]].nbytes

-----------------------------------------------------------------------------
(* The failure funnel *)

\* The smaller key wins; a tie of ordinals goes to the smaller rank.
Lower(old, key) ==
  IF \/ old = NoFailure
     \/ key.ordinal < old.ordinal
     \/ key.ordinal = old.ordinal /\ key.rank < old.rank
  THEN key ELSE old

RecordFailure(L, key) ==
  [L EXCEPT !.primary = Lower(@, key),
            !.wstate = IF @ = "CLOSED_FAILED" THEN @ ELSE "FAILING",
            !.stopRequested = FALSE,
            !.timer = 0]

\* An outcome that is settled stays.
Unless(outcome, new) == IF outcome = "none" THEN new ELSE outcome

\* victim is the ticket that expired, or 0.
FailPending(L, victim) ==
  [L EXCEPT !.tickets = [i \in 1..Len(L.tickets) |->
                           IF ~IsIn(i, L.pending) THEN L.tickets[i]
                           ELSE [L.tickets[i] EXCEPT
                                   !.state = IF i = victim THEN "EXPIRED" ELSE "FAILED",
                                   !.admission = Unless(@, "failed"),
                                   !.persistence = Unless(@, "failed")]],
            !.pending = <<>>,
            !.pendingBytes = 0,
            !.pendingEmpty = TRUE]

FailAdmitted(L) ==
  [L EXCEPT !.tickets = [i \in 1..Len(L.tickets) |->
                           IF ~IsIn(i, L.admitted) THEN L.tickets[i]
                           ELSE [L.tickets[i] EXCEPT
                                   !.state = "FAILED_UNPERSISTED",
                                   !.persistence = Unless(@, "failed")]],
            !.admitted = <<>>,
            !.queuedBytes = 0,
            !.inFlight = 0]

\* Mutant: any failure gives up what was admitted.
PoisonDropsAdmitted(L, code, ordinal, victim, impossible) ==
  [FailAdmitted(FailPending(RecordFailure(L, [ordinal |-> ordinal, rank |-> code]), victim))
     EXCEPT !.wakeup = TRUE]

\* The admitted prefix is given up only if nothing can persist it.
Poison(L, code, ordinal, victim, impossible) ==
  LET p == FailPending(RecordFailure(L, [ordinal |-> ordinal, rank |-> code]), victim)
      q == IF impossible \/ L.cstate # "RUNNING" THEN FailAdmitted(p)
           ELSE [p EXCEPT !.drainThenExit = TRUE] IN
  [q EXCEPT !.wakeup = TRUE]

\* The assertions of _verify_invariants.
Asserts(L) ==
  /\ L.persisted <= L.admittedHigh /\ L.admittedHigh <= Accepted(L)
  /\ Len(L.admitted) <= Capacities[L.tier]
  /\ L.queuedBytes = PrefixBytes(L, L.admitted, Len(L.admitted))
  /\ L.pendingBytes = PrefixBytes(L, L.pending, Len(L.pending))
  /\ Len(L.pending) <= MaxCapacity
  /\ L.queuedBytes <= Budgets[L.tier]
  /\ L.queuedBytes + L.pendingBytes <= MaxBytes
  /\ L.inFlight # 0 => L.admitted # <<>> /\ L.admitted[1] = L.inFlight

Verified(L, ordinal) ==
  IF Asserts(L) THEN L ELSE Poison(L, LEDGER_INVARIANT, ordinal, 0, TRUE)

-----------------------------------------------------------------------------
(* The deadline-first pump *)

\* The first k pending tickets fit the current rung.
Fits(L, k) ==
  /\ Len(L.admitted) + k <= Capacities[L.tier]
  /\ L.queuedBytes + PrefixBytes(L, L.pending, k) <= Budgets[L.tier]

CanGrow(L) ==
  /\ ConsumerLive(L) /\ ~Failed(L)
  /\ L.tier < Len(Capacities)
  /\ L.persisted > L.growthMark

Grow(L) == [L EXCEPT !.tier = @ + 1, !.growthMark = L.persisted]

\* Mutant: the consumer is not woken.
AdmitPrefixSilently(L, k) ==
  LET p == L.pending
      moved == PrefixBytes(L, p, k) IN
  [L EXCEPT !.pending = SubSeq(p, k + 1, Len(p)),
            !.admitted = @ \o SubSeq(p, 1, k),
            !.pendingBytes = @ - moved,
            !.queuedBytes = @ + moved,
            !.admittedHigh = IF k = 0 THEN @ ELSE p[k],
            !.tickets = [i \in 1..Len(L.tickets) |->
                           IF IsIn(i, SubSeq(p, 1, k))
                           THEN [L.tickets[i] EXCEPT !.state = "ADMITTED",
                                                     !.admission = "ok"]
                           ELSE L.tickets[i]]]

\* Admits the first k pending tickets, in order.
AdmitPrefix(L, k) ==
  LET p == L.pending
      moved == PrefixBytes(L, p, k) IN
  [L EXCEPT !.pending = SubSeq(p, k + 1, Len(p)),
            !.admitted = @ \o SubSeq(p, 1, k),
            !.pendingBytes = @ - moved,
            !.queuedBytes = @ + moved,
            !.admittedHigh = IF k = 0 THEN @ ELSE p[k],
            !.tickets = [i \in 1..Len(L.tickets) |->
                           IF IsIn(i, SubSeq(p, 1, k))
                           THEN [L.tickets[i] EXCEPT !.state = "ADMITTED",
                                                     !.admission = "ok"]
                           ELSE L.tickets[i]],
            !.wakeup = @ \/ k > 0]

\* Mutant: one event per pump.
AdmitOne(L) == AdmitPrefix(L, IF L.pending # <<>> /\ Fits(L, 1) THEN 1 ELSE 0)

\* The loop stops at the first ticket that does not fit.
AdmitFitting(L) == AdmitPrefix(L, Max({k \in 0..Len(L.pending) : Fits(L, k)}))

\* Growing marks the durable watermark, so one pump grows at most once.
AdmitAndGrow(L) ==
  LET a == AdmitFitting(L) IN
  IF a.pending # <<>> /\ CanGrow(a) THEN AdmitFitting(Grow(a)) ELSE a

RearmTimer(L) ==
  [L EXCEPT !.pendingEmpty = (L.pending = <<>>),
            !.timer = IF L.pending = <<>> THEN 0 ELSE L.tickets[L.pending[1]].deadline]

\* Mutant: the head's deadline is left to its timer.
PumpIgnoresDeadline(L, t) ==
  IF ~Live(L) THEN [L EXCEPT !.timer = 0]
  ELSE LET p == RearmTimer(AdmitAndGrow(L)) IN Verified(p, LowestUnpersisted(p))

\* One clock reading stands for the readings of the loop's iterations; the
\* head has the earliest deadline, so only the first one can be late.
Pump(L, t) ==
  IF ~Live(L) THEN [L EXCEPT !.timer = 0]
  ELSE IF L.pending # <<>> /\ t >= L.tickets[L.pending[1]].deadline
       THEN Poison(L, PRODUCER_TIMEOUT, L.pending[1], L.pending[1], FALSE)
  ELSE LET p == RearmTimer(AdmitAndGrow(L)) IN Verified(p, LowestUnpersisted(p))

-----------------------------------------------------------------------------
(* Producers: emit, emit_ordered, emit_awaited *)

\* _prepare: a record over the limit is replaced by its bounded marker.
PreparedBytes(n) == IF n <= MaxEventBytes THEN n ELSE MarkerBytes

Accept(L, n, deadline) ==
  LET s == Accepted(L) + 1
      t == [nbytes |-> n, deadline |-> deadline, state |-> "PENDING",
            end |-> n + (IF s = 1 THEN 0 ELSE L.tickets[s - 1].end),
            admission |-> "none", persistence |-> "none"] IN
  [L EXCEPT !.tickets = Append(@, t),
            !.pending = Append(@, s),
            !.pendingBytes = @ + n,
            !.pendingEmpty = FALSE]

\* The part of _submit that follows rendering: bounds, then the commit.
Commit(L, n, t) ==
  LET s == Accepted(L) + 1
      a == Accept(L, n, t + ProducerTimeout)
      v == Verified(a, s) IN
  IF Accepted(L) >= MaxEvents THEN Poison(L, MAX_EVENTS, s, 0, FALSE)
  ELSE IF Len(L.pending) >= MaxCapacity THEN Poison(L, SATURATED_COUNT, s, 0, FALSE)
  ELSE IF L.pendingBytes + L.queuedBytes + n > MaxBytes
       THEN Poison(L, SATURATED_BYTES, s, 0, FALSE)
  ELSE IF v = a THEN Pump(v, t) ELSE v

Submitted(L, n, t) ==
  LET p == Pump(L, t) IN IF Open(p) THEN Commit(p, PreparedBytes(n), t) ELSE p

\* Bound: nothing is submitted whose deadline the clock cannot reach.
Submit(n) ==
  /\ Open(led) /\ now + ProducerTimeout <= MaxTime
  /\ led' = Submitted(led, n, now)
  /\ UNCHANGED <<worker, disk, closing, cancelReq, now>>

\* An event ndjson_line cannot render.
SubmitUnserializable ==
  /\ Open(led)
  /\ LET p == Pump(led, now) IN
     led' = IF Open(p) THEN Poison(p, SERIALIZATION, Accepted(p) + 1, 0, FALSE) ELSE p
  /\ UNCHANGED <<worker, disk, closing, cancelReq, now>>

\* emit_awaited without a live consumer.  Its only caller is the Run task,
\* before that task calls close().
EmitAwaitedNoConsumer ==
  /\ closing.phase = "none" /\ ~ConsumerLive(led)
  /\ led' = Poison(led, NO_CONSUMER, Accepted(led) + 1, 0, TRUE)
  /\ UNCHANGED <<worker, disk, closing, cancelReq, now>>

-----------------------------------------------------------------------------
(* The consumer task and the append thread *)

CanStart == led.cstate = "NOT_STARTED" /\ led.wstate = "NEW"

Start ==
  /\ CanStart
  /\ led' = [led EXCEPT !.ctask = "created", !.cstate = "RUNNING", !.wstate = "RUNNING",
                        !.wakeup = TRUE]
  /\ UNCHANGED <<worker, disk, closing, cancelReq, now>>

StartFails ==
  /\ CanStart
  /\ led' = Poison([led EXCEPT !.cstate = "EXITED_ERROR"], CONSUMER_START,
                   LowestUnpersisted(led), 0, TRUE)
  /\ UNCHANGED <<worker, disk, closing, cancelReq, now>>

\* The finally clause of _consumer_main.
TaskEnds(L, how) ==
  [L EXCEPT !.cstate = how, !.ctask = "done", !.pendingEmpty = TRUE, !.wakeup = TRUE]

PeekAction(L) ==
  CASE L.admitted # <<>> -> "ticket"
    [] L.admitted = <<>> /\ (L.wstate = "FAILING" \/ L.drainThenExit) -> "drained"
    [] L.admitted = <<>> /\ ~(L.wstate = "FAILING" \/ L.drainThenExit)
         /\ L.stopRequested -> "stop"
    [] OTHER -> "wait"

CloseStop(L) ==
  IF L.wstate = "CLOSING" /\ L.pending = <<>> /\ ~Failed(L)
  THEN TaskEnds([L EXCEPT !.stopRequested = FALSE], "EXITED_CLOSE_STOP")
  ELSE TaskEnds(Poison(L, CLOSE_INCONSISTENCY, LowestUnpersisted(L), 0, TRUE),
                "EXITED_ERROR")

\* From the top of the consumer's loop to its next await.
ConsumerLoop(L) ==
  LET a == PeekAction(L) IN
  IF a = "ticket" THEN [L EXCEPT !.inFlight = L.admitted[1], !.ctask = "appending"]
  ELSE IF a = "drained" THEN TaskEnds(L, "EXITED_FAILURE_DRAIN")
  ELSE IF a = "stop" THEN CloseStop(L)
  ELSE [L EXCEPT !.wakeup = FALSE, !.ctask = "waiting"]

\* to_thread hands the head to a worker thread.
WorkerAfter(L) ==
  IF L.ctask = "appending" THEN [seq |-> L.inFlight, st |-> "writing"]
  ELSE [seq |-> 0, st |-> "idle"]

ConsumerRuns ==
  /\ "consumer" \notin cancelReq
  /\ led.ctask = "created" \/ (led.ctask = "waiting" /\ led.wakeup)
  /\ led' = ConsumerLoop(led)
  /\ worker' = WorkerAfter(led')
  /\ UNCHANGED <<disk, closing, cancelReq, now>>

\* append_text returns: the line is written and synced.
AppendReturns ==
  /\ worker.st = "writing"
  /\ disk' = Append(disk, worker.seq)
  /\ worker' = [worker EXCEPT !.st = "wrote"]
  /\ UNCHANGED <<led, closing, cancelReq, now>>

\* append_text raises before the write, or after it (the sync failed).
AppendRaises ==
  /\ worker.st = "writing"
  /\ disk' \in {disk, Append(disk, worker.seq)}
  /\ worker' = [worker EXCEPT !.st = "raised"]
  /\ UNCHANGED <<led, closing, cancelReq, now>>

\* Mutant: the producer that awaits the event is not told.
AcknowledgeSilently(L, s) ==
  [L EXCEPT !.admitted = Tail(@),
            !.queuedBytes = @ - L.tickets[s].nbytes,
            !.persisted = s,
            !.tickets[s] = [@ EXCEPT !.state = "PERSISTED"],
            !.inFlight = 0]

\* Mutant: the acknowledged bytes stay counted as queued.
AcknowledgeKeepsBytes(L, s) ==
  [L EXCEPT !.admitted = Tail(@),
            !.persisted = s,
            !.tickets[s] = [@ EXCEPT !.state = "PERSISTED", !.persistence = "ok"],
            !.inFlight = 0]

\* The head, ticket s, leaves the queue as persisted.
Acknowledge(L, s) ==
  [L EXCEPT !.admitted = Tail(@),
            !.queuedBytes = @ - L.tickets[s].nbytes,
            !.persisted = s,
            !.tickets[s] = [@ EXCEPT !.state = "PERSISTED", !.persistence = "ok"],
            !.inFlight = 0]

\* _durable_ack for the ticket with number s.
DurableAck(L, s, t) ==
  LET expected == /\ L.admitted # <<>> /\ L.admitted[1] = s /\ L.inFlight = s
                  /\ L.tickets[s].state = "ADMITTED" /\ s = L.persisted + 1
      a == Acknowledge(L, s)
      v == Verified(a, s) IN
  IF ~expected THEN Poison(L, LEDGER_INVARIANT, s, 0, TRUE)
  ELSE IF v = a THEN [Pump(v, t) EXCEPT !.wakeup = TRUE] ELSE v

ConsumerAcks ==
  /\ "consumer" \notin cancelReq
  /\ led.ctask = "appending" /\ worker.st = "wrote"
  /\ led' = ConsumerLoop(DurableAck(led, worker.seq, now))
  /\ worker' = WorkerAfter(led')
  /\ UNCHANGED <<disk, closing, cancelReq, now>>

\* Mutant: a failed append is tried again.
ConsumerRetriesAppend ==
  /\ "consumer" \notin cancelReq
  /\ led.ctask = "appending" /\ worker.st = "raised"
  /\ worker' = [worker EXCEPT !.st = "writing"]
  /\ UNCHANGED <<led, disk, closing, cancelReq, now>>

\* Mutant: a failed append is acknowledged.
ConsumerIgnoresAppendFail ==
  /\ "consumer" \notin cancelReq
  /\ led.ctask = "appending" /\ worker.st = "raised"
  /\ led' = ConsumerLoop(DurableAck(led, worker.seq, now))
  /\ worker' = WorkerAfter(led')
  /\ UNCHANGED <<disk, closing, cancelReq, now>>

ConsumerSeesAppendFail ==
  /\ "consumer" \notin cancelReq
  /\ led.ctask = "appending" /\ worker.st = "raised"
  /\ led' = TaskEnds(Poison(led, APPEND_FAILED, worker.seq, 0, TRUE), "EXITED_ERROR")
  /\ worker' = [seq |-> 0, st |-> "idle"]
  /\ UNCHANGED <<disk, closing, cancelReq, now>>

\* A task cancelled before its first instruction never runs its finally; a
\* task cancelled in the append leaves the thread writing.
ConsumerCancelled ==
  /\ "consumer" \in cancelReq /\ TaskAlive(led)
  /\ led' = CASE led.ctask = "created" -> [led EXCEPT !.ctask = "done"]
              [] led.ctask = "appending" ->
                   TaskEnds(Poison(led, CONSUMER_CANCELLED, worker.seq, 0, TRUE),
                            "EXITED_ERROR")
              [] led.ctask = "waiting" ->
                   TaskEnds(Poison(led, CONSUMER_CANCELLED, LowestUnpersisted(led), 0, TRUE),
                            "EXITED_ERROR")
  /\ UNCHANGED <<worker, disk, closing, cancelReq, now>>

\* The task is done and nobody has recorded how: only a cancelled one.
Unrecorded(L) == L.ctask = "done" /\ L.cstate = "RUNNING"

RecordCancelled(L) ==
  IF Unrecorded(L)
  THEN [Poison(L, CONSUMER_CANCELLED, LowestUnpersisted(L), 0, TRUE)
          EXCEPT !.cstate = "EXITED_ERROR"]
  ELSE L

\* _on_consumer_done, the task's done callback.
ConsumerDone ==
  /\ led.ctask = "done"
  /\ led' = [RecordCancelled(led) EXCEPT !.ctask = "reaped", !.pendingEmpty = TRUE,
                                         !.wakeup = TRUE]
  /\ UNCHANGED <<worker, disk, closing, cancelReq, now>>

\* _on_head_timer; a timer of an older generation is cancelled.
HeadTimer ==
  /\ led.timer # 0 /\ now >= led.timer
  /\ led' = Pump([led EXCEPT !.timer = 0], now)
  /\ UNCHANGED <<worker, disk, closing, cancelReq, now>>

Tick ==
  /\ now < MaxTime
  /\ now' = now + 1
  /\ UNCHANGED <<led, worker, disk, closing, cancelReq>>

-----------------------------------------------------------------------------
(* close() and the owned close task *)

Close ==
  /\ closing.phase = "none"
  /\ led' = IF led.wstate \in {"NEW", "RUNNING"}
            THEN Pump([led EXCEPT !.wstate = "CLOSING"], now) ELSE led
  /\ closing' = [closing EXCEPT !.phase = "scheduled"]
  /\ UNCHANGED <<worker, disk, cancelReq, now>>

ClosedOk ==
  /\ led' = [led EXCEPT !.wstate = "CLOSED_OK", !.timer = 0]
  /\ closing' = [phase |-> "done", outcome |-> "ok"]

ClosedFailed(L) ==
  /\ led' = [L EXCEPT !.wstate = "CLOSED_FAILED", !.timer = 0]
  /\ closing' = [phase |-> "done", outcome |-> "failed"]

\* _close_owned when no consumer task exists: never started, or start failed.
CloseWithoutConsumer ==
  /\ closing.phase = "scheduled" /\ led.ctask = "none" /\ "close" \notin cancelReq
  /\ IF led.cstate = "NOT_STARTED"
     THEN IF Accepted(led) = 0 /\ ~Failed(led) THEN ClosedOk
          ELSE ClosedFailed(Poison(led, NO_CONSUMER, LowestUnpersisted(led), 0, TRUE))
     ELSE ClosedFailed(Poison(led, CLOSE_INCONSISTENCY, LowestUnpersisted(led), 0, TRUE))
  /\ UNCHANGED <<worker, disk, cancelReq, now>>

\* Mutant: the stop request does not wake the consumer.
CloseDrainsSilently ==
  /\ "close" \notin cancelReq /\ led.ctask # "none"
  /\ \/ closing.phase = "scheduled"
     \/ closing.phase = "waitPending" /\ led.pendingEmpty
  /\ LET p == IF led.pending = <<>> THEN led
              ELSE Pump([led EXCEPT !.pendingEmpty = FALSE], now)
         stop == p.pending = <<>> /\ p.wstate = "CLOSING" /\ ~Failed(p) IN
     /\ led' = [p EXCEPT !.stopRequested = @ \/ stop]
     /\ closing' = [closing EXCEPT !.phase =
                      IF p.pending = <<>> THEN "waitConsumer" ELSE "waitPending"]
  /\ UNCHANGED <<worker, disk, cancelReq, now>>

\* The drain loop of _close_owned, then the stop request.
CloseDrains ==
  /\ "close" \notin cancelReq /\ led.ctask # "none"
  /\ \/ closing.phase = "scheduled"
     \/ closing.phase = "waitPending" /\ led.pendingEmpty
  /\ LET p == IF led.pending = <<>> THEN led
              ELSE Pump([led EXCEPT !.pendingEmpty = FALSE], now)
         stop == p.pending = <<>> /\ p.wstate = "CLOSING" /\ ~Failed(p) IN
     /\ led' = [p EXCEPT !.stopRequested = @ \/ stop, !.wakeup = @ \/ stop]
     /\ closing' = [closing EXCEPT !.phase =
                      IF p.pending = <<>> THEN "waitConsumer" ELSE "waitPending"]
  /\ UNCHANGED <<worker, disk, cancelReq, now>>

\* The consumer is done: certify persistence, or fail.  A cancellation that
\* arrives now is swallowed.
CloseJoins ==
  /\ closing.phase = "waitConsumer" /\ led.ctask \in {"done", "reaped"}
  /\ LET r == RecordCancelled(led) IN
     IF ~Failed(r) /\ r.cstate = "EXITED_CLOSE_STOP" /\ r.persisted = Accepted(r)
     THEN ClosedOk
     ELSE ClosedFailed(IF Failed(r) THEN r
                       ELSE Poison(r, CLOSE_INCONSISTENCY, LowestUnpersisted(r), 0, TRUE))
  /\ UNCHANGED <<worker, disk, cancelReq, now>>

CloseCancelled ==
  /\ "close" \in cancelReq
  /\ \/ closing.phase \in {"scheduled", "waitPending"}
     \/ closing.phase = "waitConsumer" /\ TaskAlive(led)
  /\ closing' = [closing EXCEPT !.phase = "cancelled"]
  /\ UNCHANGED <<led, worker, disk, cancelReq, now>>

\* _on_close_done of a cancelled close task.
CloseCancelRecorded ==
  /\ closing.phase = "cancelled"
  /\ ClosedFailed(IF Failed(led) THEN led
                  ELSE Poison(led, CLOSE_INCONSISTENCY, LowestUnpersisted(led), 0, TRUE))
  /\ UNCHANGED <<worker, disk, cancelReq, now>>

\* asyncio.run tears the loop down: it cancels every task that exists.
LoopTeardown ==
  /\ cancelReq = {}
  /\ cancelReq' = {x \in {"consumer", "close"} :
                     \/ x = "consumer" /\ TaskAlive(led)
                     \/ x = "close" /\ closing.phase \in {"scheduled", "waitPending",
                                                          "waitConsumer"}}
  /\ cancelReq' # {}
  /\ UNCHANGED <<led, worker, disk, closing, now>>

-----------------------------------------------------------------------------
Producers == (\E n \in EventBytes : Submit(n)) \/ SubmitUnserializable \/ EmitAwaitedNoConsumer

ConsumerTask == ConsumerRuns \/ ConsumerAcks \/ ConsumerSeesAppendFail \/ ConsumerCancelled

AppendThread == AppendReturns \/ AppendRaises

CloseTask == CloseWithoutConsumer \/ CloseDrains \/ CloseJoins \/ CloseCancelled
               \/ CloseCancelRecorded

Next ==
  \/ Producers
  \/ Start
  \/ StartFails
  \/ ConsumerTask
  \/ AppendThread
  \/ ConsumerDone
  \/ HeadTimer
  \/ Tick
  \/ Close
  \/ CloseTask
  \/ LoopTeardown

Spec == Init /\ [][Next]_vars

\* When each task, callback or timer of the event loop is ready to run: the
\* disjunction of the guards of its actions.
ConsumerReady ==
  \/ "consumer" \in cancelReq /\ TaskAlive(led)
  \/ "consumer" \notin cancelReq /\
       \/ led.ctask = "created"
       \/ led.ctask = "waiting" /\ led.wakeup
       \/ led.ctask = "appending" /\ worker.st \in {"wrote", "raised"}

CloseReady ==
  \/ closing.phase = "scheduled"
  \/ closing.phase = "waitPending" /\ (led.pendingEmpty \/ "close" \in cancelReq)
  \/ closing.phase = "waitConsumer" /\ (~TaskAlive(led) \/ "close" \in cancelReq)
  \/ closing.phase = "cancelled"

TimerDue == led.timer # 0 /\ now >= led.timer

\* The event loop runs every ready task, callback and due timer, the clock
\* advances, and an append (write and fsync) returns or raises.  Nothing is
\* assumed of producers, of start() and of close().  Each conjunct is weak
\* fairness spelled out: every step of these actions changes the state, so
\* the guard is ENABLED <<A>>_vars (TLC evaluates the guard much faster).
Fairness ==
  /\ []<>~ConsumerReady           \/ []<><<ConsumerTask>>_vars
  /\ []<>~CloseReady              \/ []<><<CloseTask>>_vars
  /\ []<>~TimerDue                \/ []<><<HeadTimer>>_vars
  /\ []<>(led.ctask # "done")     \/ []<><<ConsumerDone>>_vars
  /\ []<>(worker.st # "writing")  \/ []<><<AppendThread>>_vars
  /\ []<>(now = MaxTime)          \/ []<><<Tick>>_vars

FairSpec == Spec /\ Fairness

-----------------------------------------------------------------------------
(* Safety *)

\* The file is the events 1, 2, 3, ... in order with no gap and no duplicate;
\* it holds every acknowledged one and at most one that was not acknowledged
\* (an append in flight, one whose fsync failed, or one whose consumer was
\* cancelled).
DurablePrefix ==
  /\ \A i \in 1..Len(disk) : disk[i] = i
  /\ led.persisted <= Len(disk) /\ Len(disk) <= led.persisted + 1

\* A producer that was told its event persisted finds it in the file, and one
\* that was told it did not is never acknowledged later.
OutcomesTruthful ==
  \A i \in 1..Accepted(led) :
    /\ led.tickets[i].persistence = "ok" <=> i <= led.persisted
    /\ led.tickets[i].admission = "ok" <=> i <= led.admittedHigh

\* A writer that closed clean lost nothing: no failure, every accepted event
\* acknowledged and in the file, no append outstanding.
CleanCloseIsComplete ==
  closing.outcome = "ok" =>
    /\ ~Failed(led) /\ led.persisted = Accepted(led)
    /\ Len(disk) = Accepted(led) /\ worker.st = "idle"

\* The writer's own checks never fire: no order of submissions, pumps, growths,
\* acknowledgements, failures and closes breaks what _verify_invariants asserts,
\* and no acknowledgement is for anything but the admitted head in flight.
SelfChecksPass == Asserts(led) /\ led.primary.rank # LEDGER_INVARIANT

-----------------------------------------------------------------------------
(* The inductive invariant *)

\* The queues are the consecutive tickets after the two watermarks, and the
\* current rung holds what is admitted.
Queues(L) ==
  /\ L.persisted <= L.admittedHigh /\ L.admittedHigh <= Accepted(L)
  /\ \A i \in 1..Len(L.pending) : L.pending[i] = L.admittedHigh + i
  /\ \A i \in 1..Len(L.admitted) : L.admitted[i] = L.persisted + i
  /\ Len(L.pending) \in {0, Accepted(L) - L.admittedHigh}
  /\ Len(L.admitted) \in {0, L.admittedHigh - L.persisted}
  /\ Len(L.admitted) <= Capacities[L.tier]
  /\ L.queuedBytes <= Budgets[L.tier]
  /\ L.inFlight # 0 => Len(L.admitted) > 0 /\ L.inFlight = L.persisted + 1

\* A healthy ledger queues everything that is not persisted; a failed one has
\* no pending ticket.
Health(L) ==
  /\ L.wstate \in {"NEW", "RUNNING", "CLOSING", "CLOSED_OK"} <=> ~Failed(L)
  /\ ~Failed(L) => /\ Len(L.pending) = Accepted(L) - L.admittedHigh
                   /\ Len(L.admitted) = L.admittedHigh - L.persisted
  /\ Failed(L) => Len(L.pending) = 0

Truthful(L) ==
  \A i \in 1..Accepted(L) :
    /\ L.tickets[i].persistence = "ok" <=> i <= L.persisted
    /\ L.tickets[i].admission = "ok" <=> i <= L.admittedHigh

Core(L) == LedgerType(L) /\ Queues(L) /\ Health(L) /\ Truthful(L)

\* The file, the append thread and the consumer task agree: the thread writes
\* the event after the last acknowledged one, and a task that will append
\* again starts from a file that ends at the acknowledged watermark.
FileMatches ==
  /\ \A i \in 1..Len(disk) : disk[i] = i
  /\ Len(disk) \in {led.persisted, led.persisted + 1}
  /\ led.ctask \in {"none", "created", "waiting"} =>
       worker.st = "idle" /\ Len(disk) = led.persisted
  /\ led.ctask = "appending" => worker.st # "idle"
  /\ worker.st # "idle" => worker.seq = led.persisted + 1
  /\ worker.st = "writing" => Len(disk) = led.persisted
  /\ worker.st = "wrote" => Len(disk) = led.persisted + 1

\* A writer that is closed, or whose close was cancelled, has no consumer
\* that could still acknowledge, and start() cannot create one.
CloseIsFinal ==
  /\ led.cstate = "NOT_STARTED" => led.ctask = "none"
  /\ led.wstate \in {"CLOSED_OK", "CLOSED_FAILED"} => closing.phase = "done"
  /\ closing.phase # "none" => led.wstate # "NEW"
  /\ "close" \in cancelReq => closing.phase # "none"
  /\ closing.phase = "cancelled" => "close" \in cancelReq
  /\ TaskAlive(led) /\ ("close" \in cancelReq \/ closing.phase = "done")
       => "consumer" \in cancelReq

\* What every step of the event loop, of the append thread and of the clock
\* preserves, and what the safety properties follow from.
LedgerInvariant == TypeOK /\ Core(led) /\ FileMatches /\ CloseIsFinal

-----------------------------------------------------------------------------
(* Action properties *)

\* A late acknowledgement, submission or close never admits an event at or
\* after its deadline.
NeverAdmitsLate ==
  [][\A i \in 1..Accepted(led) :
       led.tickets[i].admission = "none" /\ led'.tickets[i].admission = "ok"
         => now < led.tickets[i].deadline]_vars

\* An event that was admitted is given up only when no consumer can append it
\* any more: never because a later event was refused or timed out.
AdmittedPrefixSurvives ==
  [][\A i \in 1..Accepted(led) :
       led.tickets[i].state = "ADMITTED" /\ led'.tickets[i].state = "FAILED_UNPERSISTED"
         => led'.cstate # "RUNNING" \/ ~TaskAlive(led) \/ "consumer" \in cancelReq]_vars

-----------------------------------------------------------------------------
(* Refinement *)

Verdict ==
  IF Failed(led) THEN "failed" ELSE IF led.wstate = "CLOSED_OK" THEN "closed" ELSE "open"

Log == INSTANCE DurableLog WITH accepted <- Accepted(led), lines <- Len(disk),
                                acked <- led.persisted, verdict <- Verdict

\* The pipeline implements the append-only log it promises.
ImplementsDurableLog == Log!Spec

-----------------------------------------------------------------------------
(* Liveness *)

\* Once the consumer task runs, every accepted event is settled: persisted or
\* refused.
AcceptedSettles ==
  \A i \in 1..MaxEvents :
    (i <= Accepted(led) /\ led.cstate # "NOT_STARTED")
      ~> (i <= Accepted(led) /\ led.tickets[i].persistence # "none")

\* close() finishes, and then no task of the writer is left running.
CloseFinishes ==
  closing.phase # "none" ~> (closing.phase = "done" /\ ~TaskAlive(led))

=============================================================================
