---------------------------- MODULE MCEventLedger ----------------------------
(***************************************************************************)
(* EventLedger on small ladders: two rungs, events of one and two bytes.   *)
(*                                                                         *)
(* EventLedger!Pump states in closed form what EventWriter._pump computes  *)
(* with a loop.  This module writes the loop and compares the two on the   *)
(* ledgers _pump is called with: after an acceptance, after an             *)
(* acknowledgement, on a due timer and at the close cutoff.                *)
(***************************************************************************)
EXTENDS EventLedger

\* One event at a time, then three: a pump that grows admits several at once.
WideCapacities == <<1, 3>>
WideBudgets    == <<2, 4>>

\* _room for the head of the pending queue.
Room(L) ==
  /\ Len(L.admitted) + 1 <= Capacities[L.tier]
  /\ L.queuedBytes + L.tickets[L.pending[1]].nbytes <= Budgets[L.tier]

\* One admission of the loop's body.
AdmitHead(L) ==
  LET h == L.pending[1]
      n == L.tickets[h].nbytes IN
  [L EXCEPT !.pending = Tail(@), !.admitted = Append(@, h),
            !.pendingBytes = @ - n, !.queuedBytes = @ + n,
            !.admittedHigh = h, !.wakeup = TRUE,
            !.tickets[h].state = "ADMITTED", !.tickets[h].admission = "ok"]

RECURSIVE LoopPump(_, _)
\* while self._pending: deadline, then room, then growth, then stop.
LoopPump(L, t) ==
  IF L.pending = <<>> THEN RearmTimer(L)
  ELSE IF t >= L.tickets[L.pending[1]].deadline
       THEN Poison(L, PRODUCER_TIMEOUT, L.pending[1], L.pending[1], FALSE)
  ELSE IF Room(L) THEN LoopPump(AdmitHead(L), t)
  ELSE IF CanGrow(L) THEN LoopPump(Grow(L), t)
  ELSE RearmTimer(L)

\* The ledgers _pump sees from this state.
PumpInputs ==
  {Accept(led, PreparedBytes(n), now + ProducerTimeout) : n \in EventBytes}
    \cup {[led EXCEPT !.wstate = "CLOSING"]}
    \cup {Acknowledge(led, s) : s \in {i \in {led.inFlight} : i # 0}}

\* Prefix admission with one possible growth is what the loop computes.
PumpMatchesLoop ==
  Live(led) /\ ~Failed(led) =>
    \A L \in PumpInputs, t \in {now, now + ProducerTimeout} :
      Asserts(L) => Pump(L, t) = LoopPump(L, t)
=============================================================================
