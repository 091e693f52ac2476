-------------------------- MODULE EventLedgerProofs --------------------------
(***************************************************************************)
(* Theorems about EventLedger, for every ladder, limit and timeout.            *)
(***************************************************************************)
EXTENDS EventLedger, SequenceTheorems, WellFoundedInduction, TLAPS

\* A nonempty set of naturals bounded by n has its maximum.
LEMMA MaxOfBounded ==
  ASSUME NEW n \in Nat, NEW S \in SUBSET (0..n), S # {}
  PROVE  Max(S) \in S /\ \A y \in S : Max(S) >= y
<1> DEFINE T == {n - x : x \in S}
<1>1. T \subseteq Nat /\ T # {}
  <2>1. \A x \in S : n - x \in Nat
    OBVIOUS
  <2>2. PICK x0 \in S : TRUE
    OBVIOUS
  <2>3. n - x0 \in T
    OBVIOUS
  <2> QED BY <2>1, <2>3
<1>2. PICK m \in T : \A y \in T : ~(<<y, m>> \in OpToRel(<, Nat))
  <2> HIDE DEF T
  <2> QED BY <1>1, NatLessThanWellFounded, WFMin, Zenon
<1>3. \A y \in T : ~(y < m)
  BY <1>1, <1>2 DEF OpToRel
<1>4. PICK x \in S : m = n - x
  BY <1>2
<1>5. \A y \in S : x >= y
  BY <1>3, <1>4
<1> QED BY <1>5 DEF Max

-----------------------------------------------------------------------------
(* The methods of the ledger preserve Core. *)

\* Every rung of the ladders is a positive number, and the ladders climb.
LEMMA Rungs ==
  \A t \in Tiers : /\ Capacities[t] \in Nat \ {0} /\ Budgets[t] \in Nat \ {0}
                   /\ t + 1 \in Tiers => /\ Capacities[t] < Capacities[t + 1]
                                         /\ Budgets[t] < Budgets[t + 1]
BY PolicyAssumption DEF Tiers

LEMMA NoNumbers == <<>> \in Seq(Nat) /\ Len(<<>>) = 0
BY EmptySeq

LEMMA RecordFailureFacts ==
  ASSUME NEW L, LedgerType(L), NEW ordinal \in Nat \ {0}, NEW code \in FailureCodes
  PROVE  LET key == [ordinal |-> ordinal, rank |-> code]
             P == RecordFailure(L, key) IN
         /\ LedgerType(P)
         /\ Failed(P)
         /\ P.primary.ordinal = ordinal \/ (Failed(L) /\ P.primary = L.primary)
         /\ P.wstate = IF L.wstate = "CLOSED_FAILED" THEN L.wstate ELSE "FAILING"
         /\ P.tickets = L.tickets /\ P.pending = L.pending /\ P.admitted = L.admitted
         /\ P.queuedBytes = L.queuedBytes /\ P.inFlight = L.inFlight
         /\ P.persisted = L.persisted /\ P.admittedHigh = L.admittedHigh
         /\ P.cstate = L.cstate /\ P.ctask = L.ctask /\ P.tier = L.tier
<1> DEFINE key == [ordinal |-> ordinal, rank |-> code]
<1>1. /\ Lower(L.primary, key) \in [ordinal : Nat, rank : FailureCodes \cup {0}]
      /\ Lower(L.primary, key) # NoFailure
      /\ \/ Lower(L.primary, key).ordinal = ordinal
         \/ L.primary # NoFailure /\ Lower(L.primary, key) = L.primary
  BY DEF Lower, LedgerType, NoFailure
<1> QED BY <1>1 DEF RecordFailure, LedgerType, Failed, WriterStates

LEMMA FailPendingFacts ==
  ASSUME NEW L, LedgerType(L), NEW victim \in Nat
  PROVE  LET P == FailPending(L, victim) IN
         /\ LedgerType(P)
         /\ P.pending = <<>> /\ Len(P.tickets) = Len(L.tickets)
         /\ P.admitted = L.admitted /\ P.primary = L.primary /\ P.wstate = L.wstate
         /\ P.queuedBytes = L.queuedBytes /\ P.inFlight = L.inFlight
         /\ P.persisted = L.persisted /\ P.admittedHigh = L.admittedHigh
         /\ P.cstate = L.cstate /\ P.ctask = L.ctask /\ P.tier = L.tier
         /\ \A i \in 1..Len(L.tickets) :
              /\ L.tickets[i].persistence = "ok" <=> P.tickets[i].persistence = "ok"
              /\ L.tickets[i].admission = "ok" <=> P.tickets[i].admission = "ok"
<1> DEFINE F(i) == IF ~IsIn(i, L.pending) THEN L.tickets[i]
                   ELSE [L.tickets[i] EXCEPT
                           !.state = IF i = victim THEN "EXPIRED" ELSE "FAILED",
                           !.admission = Unless(@, "failed"),
                           !.persistence = Unless(@, "failed")]
           T == [i \in 1..Len(L.tickets) |-> F(i)]
<1>1. ASSUME NEW i \in 1..Len(L.tickets)
      PROVE  /\ F(i) \in Ticket
             /\ L.tickets[i].persistence = "ok" <=> F(i).persistence = "ok"
             /\ L.tickets[i].admission = "ok" <=> F(i).admission = "ok"
  <2>1. L.tickets[i] \in Ticket
    BY DEF LedgerType
  <2> QED BY <2>1 DEF Ticket, TicketStates, Outcomes, Unless
<1> HIDE DEF F
<1>2. T \in Seq(Ticket) /\ Len(T) = Len(L.tickets)
      /\ \A i \in 1..Len(L.tickets) : T[i] = F(i)
  BY <1>1 DEF LedgerType
<1>3. FailPending(L, victim) = [L EXCEPT !.tickets = T, !.pending = <<>>,
                                         !.pendingBytes = 0, !.pendingEmpty = TRUE]
  BY DEF FailPending, F
<1> HIDE DEF T
<1>4. LedgerType(FailPending(L, victim))
  BY <1>2, <1>3, NoNumbers DEF LedgerType
<1>5. \A i \in 1..Len(L.tickets) : 
      /\ L.tickets[i].persistence = "ok" <=> T[i].persistence = "ok"
      /\ L.tickets[i].admission = "ok" <=> T[i].admission = "ok"
  BY <1>1, <1>2
<1> QED BY <1>2, <1>3, <1>4, <1>5, NoNumbers DEF LedgerType

LEMMA FailAdmittedFacts ==
  ASSUME NEW L, LedgerType(L)
  PROVE  LET P == FailAdmitted(L) IN
         /\ LedgerType(P)
         /\ P.admitted = <<>> /\ Len(P.tickets) = Len(L.tickets)
         /\ P.pending = L.pending /\ P.primary = L.primary /\ P.wstate = L.wstate
         /\ P.queuedBytes = 0 /\ P.inFlight = 0
         /\ P.persisted = L.persisted /\ P.admittedHigh = L.admittedHigh
         /\ P.cstate = L.cstate /\ P.ctask = L.ctask /\ P.tier = L.tier
         /\ \A i \in 1..Len(L.tickets) :
              /\ L.tickets[i].persistence = "ok" <=> P.tickets[i].persistence = "ok"
              /\ L.tickets[i].admission = P.tickets[i].admission
<1> DEFINE F(i) == IF ~IsIn(i, L.admitted) THEN L.tickets[i]
                   ELSE [L.tickets[i] EXCEPT
                           !.state = "FAILED_UNPERSISTED",
                           !.persistence = Unless(@, "failed")]
           T == [i \in 1..Len(L.tickets) |-> F(i)]
<1>1. ASSUME NEW i \in 1..Len(L.tickets)
      PROVE  /\ F(i) \in Ticket
             /\ L.tickets[i].persistence = "ok" <=> F(i).persistence = "ok"
             /\ L.tickets[i].admission = F(i).admission
  <2>1. L.tickets[i] \in Ticket
    BY DEF LedgerType
  <2> QED BY <2>1 DEF Ticket, TicketStates, Outcomes, Unless
<1> HIDE DEF F
<1>2. T \in Seq(Ticket) /\ Len(T) = Len(L.tickets)
      /\ \A i \in 1..Len(L.tickets) : T[i] = F(i)
  BY <1>1 DEF LedgerType
<1>3. FailAdmitted(L) = [L EXCEPT !.tickets = T, !.admitted = <<>>,
                                  !.queuedBytes = 0, !.inFlight = 0]
  BY DEF FailAdmitted, F
<1> HIDE DEF T
<1>4. LedgerType(FailAdmitted(L))
  BY <1>2, <1>3, NoNumbers DEF LedgerType
<1>5. \A i \in 1..Len(L.tickets) : 
      /\ L.tickets[i].persistence = "ok" <=> T[i].persistence = "ok"
      /\ L.tickets[i].admission = T[i].admission
  BY <1>1, <1>2
<1> QED BY <1>2, <1>3, <1>4, <1>5, NoNumbers DEF LedgerType

\* Poisoning keeps the ledger whole.
LEMMA PoisonCore ==
  ASSUME NEW L, Core(L), NEW code \in FailureCodes, NEW ordinal \in Nat \ {0},
         NEW victim \in Nat, NEW impossible \in BOOLEAN
  PROVE  LET P == Poison(L, code, ordinal, victim, impossible) IN
         /\ Core(P)
         /\ Failed(P)
         /\ P.persisted = L.persisted /\ Accepted(P) = Accepted(L)
         /\ P.cstate = L.cstate /\ P.ctask = L.ctask
         /\ P.wstate = "FAILING" \/ (P.wstate = L.wstate /\ L.wstate = "CLOSED_FAILED")
<1> DEFINE key == [ordinal |-> ordinal, rank |-> code]
           R == RecordFailure(L, key)
           F == FailPending(R, victim)
           A == FailAdmitted(F)
           D == [F EXCEPT !.drainThenExit = TRUE]
           c == impossible \/ L.cstate # "RUNNING"
           Q == IF c THEN A ELSE D
           P == [Q EXCEPT !.wakeup = TRUE]
<1>1. LedgerType(L) /\ Queues(L) /\ Health(L) /\ Truthful(L)
  BY DEF Core
<1>2. /\ LedgerType(R) /\ Failed(R)
      /\ R.primary.ordinal = ordinal \/ (Failed(L) /\ R.primary = L.primary)
      /\ R.wstate = IF L.wstate = "CLOSED_FAILED" THEN L.wstate ELSE "FAILING"
      /\ R.tickets = L.tickets /\ R.pending = L.pending /\ R.admitted = L.admitted
      /\ R.queuedBytes = L.queuedBytes /\ R.inFlight = L.inFlight
      /\ R.persisted = L.persisted /\ R.admittedHigh = L.admittedHigh
      /\ R.cstate = L.cstate /\ R.ctask = L.ctask /\ R.tier = L.tier
  BY <1>1, RecordFailureFacts
<1> HIDE DEF R
<1>3. /\ LedgerType(F)
      /\ F.pending = <<>> /\ Len(F.tickets) = Len(R.tickets)
      /\ F.admitted = R.admitted /\ F.primary = R.primary /\ F.wstate = R.wstate
      /\ F.queuedBytes = R.queuedBytes /\ F.inFlight = R.inFlight
      /\ F.persisted = R.persisted /\ F.admittedHigh = R.admittedHigh
      /\ F.cstate = R.cstate /\ F.ctask = R.ctask /\ F.tier = R.tier
      /\ \A i \in 1..Len(R.tickets) :
           /\ R.tickets[i].persistence = "ok" <=> F.tickets[i].persistence = "ok"
           /\ R.tickets[i].admission = "ok" <=> F.tickets[i].admission = "ok"
  BY <1>2, FailPendingFacts
<1> HIDE DEF F
<1>4. /\ LedgerType(A)
      /\ A.admitted = <<>> /\ Len(A.tickets) = Len(F.tickets)
      /\ A.pending = F.pending /\ A.primary = F.primary /\ A.wstate = F.wstate
      /\ A.queuedBytes = 0 /\ A.inFlight = 0
      /\ A.persisted = F.persisted /\ A.admittedHigh = F.admittedHigh
      /\ A.cstate = F.cstate /\ A.ctask = F.ctask /\ A.tier = F.tier
      /\ \A i \in 1..Len(F.tickets) :
           /\ F.tickets[i].persistence = "ok" <=> A.tickets[i].persistence = "ok"
           /\ F.tickets[i].admission = A.tickets[i].admission
  BY <1>3, FailAdmittedFacts
<1> HIDE DEF A
<1>5. /\ LedgerType(D)
      /\ D.admitted = F.admitted /\ D.tickets = F.tickets
      /\ D.pending = F.pending /\ D.primary = F.primary /\ D.wstate = F.wstate
      /\ D.queuedBytes = F.queuedBytes /\ D.inFlight = F.inFlight
      /\ D.persisted = F.persisted /\ D.admittedHigh = F.admittedHigh
      /\ D.cstate = F.cstate /\ D.ctask = F.ctask /\ D.tier = F.tier
  BY <1>3 DEF LedgerType, LedgerFields
<1> HIDE DEF D
<1>6. /\ LedgerType(Q)
      /\ c => Q.admitted = <<>> /\ Q.queuedBytes = 0 /\ Q.inFlight = 0
      /\ ~c => Q.admitted = L.admitted /\ Q.queuedBytes = L.queuedBytes
               /\ Q.inFlight = L.inFlight
      /\ Q.pending = <<>> /\ Q.wstate = R.wstate /\ Q.primary = R.primary
      /\ Q.persisted = L.persisted /\ Q.admittedHigh = L.admittedHigh
      /\ Q.cstate = L.cstate /\ Q.ctask = L.ctask /\ Q.tier = L.tier
      /\ Len(Q.tickets) = Len(L.tickets)
      /\ \A i \in 1..Len(L.tickets) :
           /\ L.tickets[i].persistence = "ok" <=> Q.tickets[i].persistence = "ok"
           /\ L.tickets[i].admission = "ok" <=> Q.tickets[i].admission = "ok"
  <2>1. CASE c
    BY <2>1, <1>2, <1>3, <1>4
  <2>2. CASE ~c
    BY <2>2, <1>2, <1>3, <1>5
  <2> QED BY <2>1, <2>2
<1> HIDE DEF Q
<1>7. /\ LedgerType(P)
      /\ P.admitted = Q.admitted /\ P.queuedBytes = Q.queuedBytes /\ P.inFlight = Q.inFlight
      /\ P.pending = <<>> /\ P.wstate = R.wstate /\ P.primary = R.primary
      /\ P.persisted = L.persisted /\ P.admittedHigh = L.admittedHigh
      /\ P.cstate = L.cstate /\ P.ctask = L.ctask /\ P.tier = L.tier
      /\ P.tickets = Q.tickets
  BY <1>6 DEF LedgerType, LedgerFields
<1> HIDE DEF P
<1>8. Queues(P)
  <2>1. L.tier \in Tiers
    BY <1>1 DEF LedgerType
  <2>2. Capacities[L.tier] \in Nat /\ Budgets[L.tier] \in Nat
    BY <2>1, Rungs
  <2>3. CASE c
    <3>1. /\ Len(P.admitted) = 0 /\ P.queuedBytes = 0 /\ P.inFlight = 0
          /\ Len(P.pending) = 0 /\ Len(P.tickets) = Len(L.tickets)
      BY <2>3, <1>6, <1>7, NoNumbers
    <3> QED BY <3>1, <2>2, <1>1, <1>7 DEF Queues, Accepted
  <2>4. CASE ~c
    <3>1. /\ P.admitted = L.admitted /\ P.queuedBytes = L.queuedBytes
          /\ P.inFlight = L.inFlight /\ Len(P.tickets) = Len(L.tickets)
      BY <2>4, <1>6, <1>7
    <3> QED BY <3>1, <1>1, <1>7, NoNumbers DEF Queues, Accepted
  <2> QED BY <2>3, <2>4
<1>9. Failed(P)
  BY <1>2, <1>7 DEF Failed
<1>10. Health(P)
  <2>1. P.wstate \in {"FAILING", "CLOSED_FAILED"}
    BY <1>2, <1>7
  <2> QED BY <2>1, <1>7, <1>9, NoNumbers DEF Health
<1>11. Truthful(P)
  BY <1>1, <1>6, <1>7 DEF Truthful, Accepted
<1>12. P = Poison(L, code, ordinal, victim, impossible)
  BY DEF Poison, P, Q, D, A, F, R
<1> QED
  BY <1>2, <1>6, <1>7, <1>8, <1>9, <1>10, <1>11, <1>12 DEF Core, Accepted

\* What a synchronous method leaves alone.
SameRun(P, L) ==
  /\ P.persisted = L.persisted /\ Accepted(P) = Accepted(L)
  /\ P.cstate = L.cstate /\ P.ctask = L.ctask
  /\ P.wstate \in {L.wstate, "FAILING"}

\* The writer state of a failing ledger; CLOSED_FAILED is final.
FailsFrom(P, L) ==
  P.wstate = "FAILING" \/ (P.wstate = L.wstate /\ L.wstate = "CLOSED_FAILED")

LEMMA SameRunTrans ==
  ASSUME NEW P, NEW Q, NEW L, SameRun(P, Q), SameRun(Q, L)
  PROVE  SameRun(P, L)
BY DEF SameRun

LEMMA PoisonSameRun ==
  ASSUME NEW L, Core(L), NEW code \in FailureCodes, NEW ordinal \in Nat \ {0},
         NEW victim \in Nat, NEW impossible \in BOOLEAN
  PROVE  LET P == Poison(L, code, ordinal, victim, impossible) IN
         Core(P) /\ Failed(P) /\ SameRun(P, L) /\ FailsFrom(P, L)
BY PoisonCore DEF SameRun, FailsFrom

\* The failures after which nothing more can be persisted.
LEMMA PoisonImpossible ==
  ASSUME NEW L, Core(L), NEW code \in FailureCodes, NEW ordinal \in Nat \ {0}
  PROVE  LET P == Poison(L, code, ordinal, 0, TRUE) IN
         /\ Core(P) /\ Failed(P) /\ P.admitted = <<>>
         /\ SameRun(P, L) /\ FailsFrom(P, L)
<1> DEFINE P == Poison(L, code, ordinal, 0, TRUE)
           F == FailPending(RecordFailure(L, [ordinal |-> ordinal, rank |-> code]), 0)
           A == FailAdmitted(F)
<1>1. LedgerType(F)
  BY RecordFailureFacts, FailPendingFacts DEF Core
<1> HIDE DEF F
<1>2. LedgerType(A) /\ A.admitted = <<>>
  BY <1>1, FailAdmittedFacts
<1> HIDE DEF A
<1>3. [A EXCEPT !.wakeup = TRUE].admitted = <<>>
  BY <1>2 DEF LedgerType, LedgerFields
<1>4. P.admitted = <<>>
  BY <1>3 DEF Poison, A, F
<1> HIDE DEF P
<1>5. Core(P) /\ Failed(P) /\ SameRun(P, L) /\ FailsFrom(P, L)
  BY PoisonSameRun DEF P
<1> QED BY <1>4, <1>5 DEF P

\* The numbers of a ledger.
LEMMA CoreNumbers ==
  ASSUME NEW L, Core(L)
  PROVE  /\ Accepted(L) \in Nat /\ Len(L.tickets) = Accepted(L)
         /\ Len(L.pending) \in Nat /\ Len(L.admitted) \in Nat
         /\ L.persisted \in Nat /\ L.admittedHigh \in Nat
         /\ L.persisted <= L.admittedHigh /\ L.admittedHigh <= Accepted(L)
         /\ L.queuedBytes \in Int /\ L.pendingBytes \in Int
         /\ L.tier \in Tiers
<1>1. LedgerType(L) /\ Queues(L)
  BY DEF Core
<1>2. L.tickets \in Seq(Ticket) /\ L.pending \in Seq(Nat) /\ L.admitted \in Seq(Nat)
  BY <1>1 DEF LedgerType
<1>3. Len(L.tickets) \in Nat /\ Len(L.pending) \in Nat /\ Len(L.admitted) \in Nat
  BY <1>2
<1> QED BY <1>1, <1>3 DEF LedgerType, Queues, Accepted

LEMMA LowestIsOrdinal ==
  ASSUME NEW L, Core(L)
  PROVE  LowestUnpersisted(L) \in Nat \ {0}
BY CoreNumbers DEF LowestUnpersisted

\* The check of _verify_invariants keeps the ledger whole either way.
LEMMA VerifiedCore ==
  ASSUME NEW L, Core(L), NEW ordinal \in Nat \ {0}
  PROVE  Core(Verified(L, ordinal)) /\ SameRun(Verified(L, ordinal), L)
<1>1. CASE Asserts(L)
  BY <1>1 DEF Verified, SameRun
<1>2. CASE ~Asserts(L)
  <2>1. LEDGER_INVARIANT \in FailureCodes
    BY DEF FailureCodes
  <2> QED BY <1>2, <2>1, PoisonSameRun DEF Verified
<1> QED BY <1>1, <1>2

\* The tickets of the queues exist.
LEMMA QueuedTickets ==
  ASSUME NEW L, Core(L)
  PROVE  /\ \A i \in 1..Len(L.pending) : L.pending[i] \in 1..Accepted(L)
         /\ \A i \in 1..Len(L.admitted) : L.admitted[i] \in 1..Accepted(L)
         /\ \A i \in 1..Accepted(L) : L.tickets[i] \in Ticket
         /\ Accepted(L) \in Nat /\ Len(L.pending) \in Nat /\ Len(L.admitted) \in Nat
<1>1. L.tickets \in Seq(Ticket) /\ Queues(L)
  BY DEF Core, LedgerType
<1>2. \A i \in 1..Accepted(L) : L.tickets[i] \in Ticket
  BY <1>1, ElementOfSeq DEF Accepted
<1>3. ASSUME NEW i \in 1..Len(L.pending) PROVE L.pending[i] \in 1..Accepted(L)
  <2>1. L.pending[i] = L.admittedHigh + i
    BY <1>1 DEF Queues
  <2>2. Len(L.pending) \in {0, Accepted(L) - L.admittedHigh}
    BY <1>1 DEF Queues
  <2> QED BY <2>1, <2>2, CoreNumbers
<1>4. ASSUME NEW i \in 1..Len(L.admitted) PROVE L.admitted[i] \in 1..Accepted(L)
  <2>1. L.admitted[i] = L.persisted + i
    BY <1>1 DEF Queues
  <2>2. Len(L.admitted) \in {0, L.admittedHigh - L.persisted}
    BY <1>1 DEF Queues
  <2> QED BY <2>1, <2>2, CoreNumbers
<1> QED BY <1>2, <1>3, <1>4, CoreNumbers

LEMMA PrefixBytesType ==
  ASSUME NEW L, Core(L), NEW k \in 0..Len(L.pending)
  PROVE  PrefixBytes(L, L.pending, k) \in Int
<1>1. CASE k = 0
  BY <1>1 DEF PrefixBytes
<1>2. CASE k # 0
  <2>1. k \in 1..Len(L.pending) /\ 1 \in 1..Len(L.pending)
    BY <1>2, QueuedTickets
  <2>2. L.tickets[L.pending[k]] \in Ticket /\ L.tickets[L.pending[1]] \in Ticket
    BY <2>1, QueuedTickets
  <2>3. /\ L.tickets[L.pending[k]].end \in Int /\ L.tickets[L.pending[1]].end \in Int
        /\ L.tickets[L.pending[1]].nbytes \in Int
    BY <2>2 DEF Ticket
  <2> QED BY <1>2, <2>3 DEF PrefixBytes
<1> QED BY <1>1, <1>2

\* A queue cut after its first k entries.
LEMMA CutProperties ==
  ASSUME NEW s \in Seq(Nat), NEW k \in 0..Len(s)
  PROVE  /\ SubSeq(s, k + 1, Len(s)) \in Seq(Nat) /\ Len(SubSeq(s, k + 1, Len(s))) = Len(s) - k
         /\ \A i \in 1..Len(s) - k : SubSeq(s, k + 1, Len(s))[i] = s[i + k]
         /\ SubSeq(s, 1, k) \in Seq(Nat) /\ Len(SubSeq(s, 1, k)) = k
         /\ \A i \in 1..k : SubSeq(s, 1, k)[i] = s[i]
<1>1. Len(s) \in Nat /\ k \in Nat /\ \A i \in 1..Len(s) : s[i] \in Nat
  OBVIOUS
<1>2. /\ SubSeq(s, k + 1, Len(s)) \in Seq(Nat) /\ Len(SubSeq(s, k + 1, Len(s))) = Len(s) - k
      /\ \A i \in 1..Len(s) - k : SubSeq(s, k + 1, Len(s))[i] = s[i + k]
  BY <1>1, SubSeqProperties
<1>3. /\ SubSeq(s, 1, k) \in Seq(Nat) /\ Len(SubSeq(s, 1, k)) = k
      /\ \A i \in 1..k : SubSeq(s, 1, k)[i] = s[i]
  BY <1>1, SubSeqProperties
<1> QED BY <1>2, <1>3

\* Admitting a fitting prefix of a healthy ledger's pending queue.
LEMMA AdmitPrefixCore ==
  ASSUME NEW L, Core(L), ~Failed(L), NEW k \in 0..Len(L.pending), Fits(L, k)
  PROVE  LET A == AdmitPrefix(L, k) IN
         /\ Core(A) /\ SameRun(A, L) /\ ~Failed(A)
         /\ A.tier = L.tier /\ A.growthMark = L.growthMark
<1> DEFINE p == L.pending
           rest == SubSeq(p, k + 1, Len(p))
           pre == SubSeq(p, 1, k)
           adm == L.admitted \o pre
           moved == PrefixBytes(L, p, k)
           high == IF k = 0 THEN L.admittedHigh ELSE p[k]
           G(i) == IF IsIn(i, pre)
                   THEN [L.tickets[i] EXCEPT !.state = "ADMITTED", !.admission = "ok"]
                   ELSE L.tickets[i]
           T == [i \in 1..Len(L.tickets) |-> G(i)]
           less == L.pendingBytes - moved
           more == L.queuedBytes + moved
           B == [L EXCEPT !.pending = rest, !.admitted = adm,
                          !.pendingBytes = less, !.queuedBytes = more]
           A == [B EXCEPT !.admittedHigh = high, !.tickets = T, !.wakeup = @ \/ k > 0]
<1>1. LedgerType(L) /\ Queues(L) /\ Health(L) /\ Truthful(L)
  BY DEF Core
<1>2. p \in Seq(Nat) /\ L.admitted \in Seq(Nat) /\ Len(p) \in Nat /\ k \in Nat
  BY <1>1 DEF LedgerType
<1>3. /\ rest \in Seq(Nat) /\ Len(rest) = Len(p) - k
      /\ \A i \in 1..Len(p) - k : rest[i] = p[i + k]
  BY <1>2, CutProperties
<1>4. /\ pre \in Seq(Nat) /\ Len(pre) = k
      /\ \A i \in 1..k : pre[i] = p[i]
  BY <1>2, CutProperties
<1> HIDE DEF rest, pre
<1>5. /\ adm \in Seq(Nat) /\ Len(adm) = Len(L.admitted) + k
      /\ \A i \in 1..Len(L.admitted) + k :
           adm[i] = IF i <= Len(L.admitted) THEN L.admitted[i] ELSE p[i - Len(L.admitted)]
  <2>1. /\ adm \in Seq(Nat) /\ Len(adm) = Len(L.admitted) + Len(pre)
        /\ \A i \in 1..Len(L.admitted) + Len(pre) :
             adm[i] = IF i <= Len(L.admitted) THEN L.admitted[i]
                      ELSE pre[i - Len(L.admitted)]
    BY <1>2, <1>4, ConcatProperties, ZenonT(60)
  <2> HIDE DEF adm
  <2>2. ASSUME NEW i \in 1..Len(L.admitted) + k
        PROVE  adm[i] = IF i <= Len(L.admitted) THEN L.admitted[i]
                        ELSE p[i - Len(L.admitted)]
    <3>1. i \in 1..Len(L.admitted) + Len(pre)
      BY <1>4
    <3>2. i <= Len(L.admitted) \/ i - Len(L.admitted) \in 1..k
      BY <1>2, CoreNumbers
    <3> QED BY <2>1, <3>1, <3>2, <1>4
  <2> QED BY <2>1, <2>2, <1>4
<1>n. /\ L.admittedHigh \in Nat /\ L.persisted \in Nat /\ Len(L.tickets) \in Nat
      /\ Len(L.admitted) \in Nat /\ k \in Nat /\ k <= Len(p) /\ Len(p) \in Nat
      /\ L.persisted <= L.admittedHigh /\ L.admittedHigh <= Len(L.tickets)
  BY <1>2, CoreNumbers
<1>p. \A i \in 1..Len(p) : p[i] = L.admittedHigh + i
  BY <1>1 DEF Queues
<1>6. high = L.admittedHigh + k /\ high \in Nat
  <2>1. CASE k = 0
    BY <2>1, <1>n
  <2>2. CASE k # 0
    BY <2>2, <1>n, <1>p
  <2> QED BY <2>1, <2>2
<1>7. \A i \in 1..Len(L.tickets) : IsIn(i, pre) <=> L.admittedHigh < i /\ i <= high
  <2> TAKE i \in 1..Len(L.tickets)
  <2>0. \A j \in 1..k : j \in 1..Len(p)
    BY <1>n
  <2>1. IsIn(i, pre) <=> \E j \in 1..k : i = L.admittedHigh + j
    BY <2>0, <1>4, <1>p DEF IsIn
  <2>2. L.admittedHigh < i /\ i <= high => i - L.admittedHigh \in 1..k
                                        /\ i = L.admittedHigh + (i - L.admittedHigh)
    BY <1>n, <1>6, SMTT(30)
  <2> HIDE DEF high
  <2> QED BY <2>1, <2>2, <1>n, <1>6
<1>8. ASSUME NEW i \in 1..Len(L.tickets)
      PROVE  /\ G(i) \in Ticket
             /\ G(i).persistence = L.tickets[i].persistence
             /\ G(i).admission = "ok" <=> i <= high
  <2>1. L.tickets[i] \in Ticket
    BY <1>1 DEF LedgerType
  <2>2. L.tickets[i].admission = "ok" <=> i <= L.admittedHigh
    BY <1>1 DEF Truthful, Accepted
  <2>3. CASE IsIn(i, pre)
    BY <2>1, <2>3, <1>7 DEF Ticket, TicketStates, Outcomes
  <2>4. CASE ~IsIn(i, pre)
    BY <2>1, <2>2, <2>4, <1>n, <1>6, <1>7
  <2> QED BY <2>3, <2>4
<1> HIDE DEF G
<1>9. /\ T \in Seq(Ticket) /\ Len(T) = Len(L.tickets)
      /\ \A i \in 1..Len(L.tickets) : T[i] = G(i)
  BY <1>1, <1>8 DEF LedgerType
<1>10. moved \in Int /\ less \in Int /\ more \in Int
  BY PrefixBytesType, CoreNumbers
<1> HIDE DEF T, adm, moved, high, less, more
<1>11. /\ LedgerType(B) /\ B.pending = rest /\ B.admitted = adm
       /\ B.queuedBytes = more /\ B.tier = L.tier
       /\ B.persisted = L.persisted /\ B.wstate = L.wstate /\ B.primary = L.primary
       /\ B.cstate = L.cstate /\ B.ctask = L.ctask /\ B.inFlight = L.inFlight
       /\ B.growthMark = L.growthMark /\ B.tickets = L.tickets
  BY <1>1, <1>3, <1>5, <1>10 DEF LedgerType, LedgerFields
<1> HIDE DEF B
<1>12. /\ LedgerType(A) /\ A.pending = rest /\ A.admitted = adm
       /\ A.queuedBytes = more /\ A.tier = L.tier
       /\ A.persisted = L.persisted /\ A.wstate = L.wstate /\ A.primary = L.primary
       /\ A.cstate = L.cstate /\ A.ctask = L.ctask /\ A.inFlight = L.inFlight
       /\ A.growthMark = L.growthMark /\ A.tickets = T /\ A.admittedHigh = high
  BY <1>11, <1>6, <1>9 DEF LedgerType, LedgerFields
<1> HIDE DEF A
<1>13. Len(L.pending) = Len(L.tickets) - L.admittedHigh
       /\ Len(L.admitted) = L.admittedHigh - L.persisted
  BY <1>1 DEF Health, Accepted
<1>l. /\ Len(rest) = Len(T) - high /\ Len(adm) = high - L.persisted
      /\ L.persisted <= high /\ high <= Len(T)
  <2>1. Len(rest) = Len(L.pending) - k
    BY <1>3
  <2>2. Len(adm) = Len(L.admitted) + k
    BY <1>5
  <2>3. Len(T) = Len(L.tickets)
    BY <1>9
  <2>4. Len(rest) = Len(T) - high
    BY <2>1, <2>3, <1>n, <1>6, <1>13
  <2>5. Len(adm) = high - L.persisted
    BY <2>2, <1>n, <1>6, <1>13, SMTT(30)
  <2>6. L.persisted <= high
    BY <1>n, <1>6
  <2>7. high <= Len(T)
    BY <2>1, <2>3, <1>n, <1>6, <1>13
  <2> QED BY <2>4, <2>5, <2>6, <2>7
<1>14. Queues(A)
  <2>1. ASSUME NEW i \in 1..Len(rest) PROVE rest[i] = high + i
    <3>1. i + k \in 1..Len(p) /\ i \in 1..Len(p) - k
      BY <1>3, <1>n
    <3>2. rest[i] = p[i + k]
      BY <3>1, <1>3
    <3>3. p[i + k] = L.admittedHigh + (i + k)
      BY <3>1, <1>p
    <3> QED BY <3>1, <3>2, <3>3, <1>n, <1>6
  <2>2. ASSUME NEW i \in 1..Len(adm) PROVE adm[i] = L.persisted + i
    <3>1. \A j \in 1..Len(L.admitted) : L.admitted[j] = L.persisted + j
      BY <1>1 DEF Queues
    <3>2. i \in 1..Len(L.admitted) + k
      BY <1>5
    <3>3. CASE i <= Len(L.admitted)
      <4>1. i \in 1..Len(L.admitted)
        BY <3>2, <3>3, <1>n
      <4> QED BY <4>1, <3>1, <3>2, <3>3, <1>5
    <3>4. CASE ~(i <= Len(L.admitted))
      <4>1. i - Len(L.admitted) \in 1..Len(p)
        BY <3>2, <3>4, <1>n
      <4>2. adm[i] = L.admittedHigh + (i - Len(L.admitted))
        BY <4>1, <3>2, <3>4, <1>5, <1>p
      <4>3. i \in Nat
        BY <3>2
      <4> QED BY <4>2, <4>3, <1>n, <1>13, SMTT(30)
    <3> QED BY <3>3, <3>4
  <2>3. Len(adm) <= Capacities[L.tier] /\ more <= Budgets[L.tier]
    BY <1>5 DEF Fits, moved, more
  <2>4. L.inFlight # 0 => Len(L.admitted) > 0 /\ L.inFlight = L.persisted + 1
    BY <1>1 DEF Queues
  <2>6. L.inFlight # 0 => Len(adm) > 0 /\ L.inFlight = L.persisted + 1
    BY <2>4, <1>n, <1>5
  <2> QED BY <2>1, <2>2, <2>3, <2>6, <1>l, <1>12 DEF Queues, Accepted
<1>15. ~Failed(A)
  BY <1>12 DEF Failed
<1>16. Health(A)
  <2>1. A.wstate \in {"NEW", "RUNNING", "CLOSING", "CLOSED_OK"}
    BY <1>1, <1>12 DEF Health
  <2> QED BY <2>1, <1>l, <1>12, <1>15 DEF Health, Accepted
<1>17. Truthful(A)
  BY <1>1, <1>8, <1>9, <1>12 DEF Truthful, Accepted
<1>18. A = AdmitPrefix(L, k)
  BY DEF A, B, T, G, adm, less, more, moved, high, rest, pre, AdmitPrefix
<1> QED BY <1>9, <1>12, <1>14, <1>15, <1>16, <1>17, <1>18 DEF Core, SameRun, Accepted

\* The fields the invariant speaks of.
SameLedger(M, L) ==
  /\ M.tier = L.tier /\ M.tickets = L.tickets
  /\ M.pending = L.pending /\ M.admitted = L.admitted
  /\ M.queuedBytes = L.queuedBytes
  /\ M.admittedHigh = L.admittedHigh /\ M.persisted = L.persisted
  /\ M.inFlight = L.inFlight
  /\ M.primary = L.primary /\ M.wstate = L.wstate

LEMMA CoreStable ==
  ASSUME NEW L, Core(L), NEW M, LedgerType(M), SameLedger(M, L)
  PROVE  Core(M)
<1>1. Queues(M)
  BY DEF Core, SameLedger, Queues, Accepted
<1>2. Health(M)
  BY DEF Core, SameLedger, Health, Accepted, Failed
<1>3. Truthful(M)
  BY DEF Core, SameLedger, Truthful, Accepted
<1> QED BY <1>1, <1>2, <1>3 DEF Core

LEMMA GrowCore ==
  ASSUME NEW L, Core(L), CanGrow(L)
  PROVE  /\ Core(Grow(L)) /\ SameRun(Grow(L), L)
         /\ Failed(Grow(L)) <=> Failed(L)
<1> DEFINE up == L.tier + 1
           G == [L EXCEPT !.tier = up, !.growthMark = L.persisted]
<1>1. LedgerType(L) /\ Queues(L) /\ Health(L) /\ Truthful(L)
  BY DEF Core
<1>2. L.tier \in Tiers /\ up \in Tiers
  <2>1. L.tier \in Tiers /\ L.tier < Len(Capacities)
    BY CoreNumbers DEF CanGrow
  <2>2. Len(Capacities) \in Nat
    BY PolicyAssumption
  <2> QED BY <2>1, <2>2 DEF Tiers
<1>3. Capacities[L.tier] < Capacities[up] /\ Budgets[L.tier] < Budgets[up]
      /\ Capacities[L.tier] \in Nat /\ Capacities[up] \in Nat
      /\ Budgets[L.tier] \in Nat /\ Budgets[up] \in Nat
  BY <1>2, Rungs
<1> HIDE DEF up
<1>4. /\ LedgerType(G)
      /\ G.tier = up /\ G.tickets = L.tickets /\ G.pending = L.pending
      /\ G.admitted = L.admitted /\ G.queuedBytes = L.queuedBytes
      /\ G.admittedHigh = L.admittedHigh /\ G.persisted = L.persisted
      /\ G.inFlight = L.inFlight /\ G.primary = L.primary /\ G.wstate = L.wstate
      /\ G.cstate = L.cstate /\ G.ctask = L.ctask
  BY <1>1, <1>2 DEF LedgerType, LedgerFields
<1> HIDE DEF G
<1>5. Len(L.admitted) <= Capacities[up] /\ L.queuedBytes <= Budgets[up]
  BY <1>1, <1>3, CoreNumbers, SMTT(30) DEF Queues
<1>6. Queues(G)
  BY <1>1, <1>4, <1>5 DEF Queues, Accepted
<1>7. Health(G) /\ Truthful(G)
  BY <1>1, <1>4 DEF Health, Truthful, Accepted, Failed
<1>8. G = Grow(L)
  BY DEF G, Grow, up
<1> QED BY <1>4, <1>6, <1>7, <1>8 DEF Core, SameRun, Accepted, Failed

\* The loop of _pump admits a prefix: nothing overtakes the head.
LEMMA AdmitFittingCore ==
  ASSUME NEW L, Core(L), ~Failed(L)
  PROVE  /\ Core(AdmitFitting(L)) /\ SameRun(AdmitFitting(L), L)
         /\ ~Failed(AdmitFitting(L))
<1> DEFINE S == {k \in 0..Len(L.pending) : Fits(L, k)}
<1>1. Fits(L, 0)
  BY CoreNumbers DEF Core, Queues, Fits, PrefixBytes
<1>2. Len(L.pending) \in Nat /\ 0 \in S
  BY <1>1, CoreNumbers
<1>3. Max(S) \in S
  BY <1>2, MaxOfBounded
<1>4. Max(S) \in 0..Len(L.pending) /\ Fits(L, Max(S))
  BY <1>3
<1> QED BY <1>4, AdmitPrefixCore DEF AdmitFitting

LEMMA AdmitAndGrowCore ==
  ASSUME NEW L, Core(L), ~Failed(L)
  PROVE  Core(AdmitAndGrow(L)) /\ SameRun(AdmitAndGrow(L), L)
<1> DEFINE a == AdmitFitting(L)
           c == a.pending # <<>> /\ CanGrow(a)
           g == Grow(a)
<1>1. Core(a) /\ SameRun(a, L) /\ ~Failed(a)
  BY AdmitFittingCore
<1>2. AdmitAndGrow(L) = IF c THEN AdmitFitting(g) ELSE a
  BY DEF AdmitAndGrow
<1> HIDE DEF a
<1>3. CASE c
  <2>1. Core(g) /\ SameRun(g, a) /\ ~Failed(g)
    BY <1>1, <1>3, GrowCore
  <2> HIDE DEF g
  <2>2. Core(AdmitFitting(g)) /\ SameRun(AdmitFitting(g), g)
    BY <2>1, AdmitFittingCore
  <2>3. SameRun(AdmitFitting(g), L)
    BY <1>1, <2>1, <2>2, SameRunTrans
  <2> QED BY <1>2, <1>3, <2>2, <2>3
<1>4. CASE ~c
  BY <1>1, <1>2, <1>4
<1> QED BY <1>3, <1>4

LEMMA RearmTimerCore ==
  ASSUME NEW L, Core(L)
  PROVE  Core(RearmTimer(L)) /\ SameRun(RearmTimer(L), L)
<1> DEFINE e == (L.pending = <<>>)
           d == IF L.pending = <<>> THEN 0 ELSE L.tickets[L.pending[1]].deadline
           R == [L EXCEPT !.pendingEmpty = e, !.timer = d]
<1>1. LedgerType(L)
  BY DEF Core
<1>2. d \in Nat
  <2>1. CASE L.pending # <<>>
    <3>1. Len(L.pending) # 0
      BY <1>1, <2>1, EmptySeq DEF LedgerType
    <3>2. 1 \in 1..Len(L.pending)
      BY <3>1, CoreNumbers
    <3>3. L.tickets[L.pending[1]] \in Ticket
      BY <3>2, QueuedTickets
    <3> QED BY <2>1, <3>3 DEF Ticket
  <2>2. CASE L.pending = <<>>
    BY <2>2
  <2> QED BY <2>1, <2>2
<1>3. e \in BOOLEAN
  OBVIOUS
<1> HIDE DEF d, e
<1>4. LedgerType(R) /\ SameLedger(R, L) /\ R.cstate = L.cstate /\ R.ctask = L.ctask
  BY <1>1, <1>2, <1>3 DEF LedgerType, LedgerFields, SameLedger
<1>5. R = RearmTimer(L)
  BY DEF R, e, d, RearmTimer
<1> HIDE DEF R
<1>6. Core(R)
  BY <1>4, CoreStable
<1> QED BY <1>4, <1>5, <1>6 DEF SameRun, SameLedger, Accepted, Failed

\* A live ledger has not failed.
LEMMA LiveIsHealthy ==
  ASSUME NEW L, Core(L), Live(L)
  PROVE  ~Failed(L)
BY DEF Core, Health, Live

\* The pump keeps the ledger whole, admits in order and only adds a failure
\* beyond what is queued to be persisted.
LEMMA PumpCore ==
  ASSUME NEW L, Core(L), NEW t \in Nat
  PROVE  Core(Pump(L, t)) /\ SameRun(Pump(L, t), L)
<1> DEFINE late == L.pending # <<>> /\ t >= L.tickets[L.pending[1]].deadline
           q == RearmTimer(AdmitAndGrow(L))
<1>1. CASE ~Live(L)
  <2> DEFINE N == [L EXCEPT !.timer = 0]
  <2>1. LedgerType(N) /\ SameLedger(N, L) /\ N.cstate = L.cstate /\ N.ctask = L.ctask
    BY DEF Core, LedgerType, LedgerFields, SameLedger
  <2>2. N = Pump(L, t)
    BY <1>1 DEF Pump
  <2> HIDE DEF N
  <2>3. Core(N)
    BY <2>1, CoreStable
  <2> QED BY <2>1, <2>2, <2>3 DEF SameRun, SameLedger, Accepted, Failed
<1>2. CASE Live(L) /\ late
  <2>1. Pump(L, t) = Poison(L, PRODUCER_TIMEOUT, L.pending[1], L.pending[1], FALSE)
    BY <1>2 DEF Pump
  <2>2. Len(L.pending) # 0
    BY <1>2, EmptySeq DEF Core, LedgerType
  <2>3. 1 \in 1..Len(L.pending)
    BY <2>2, CoreNumbers
  <2>4. L.pending[1] = L.admittedHigh + 1
    BY <2>3 DEF Core, Queues
  <2>5. L.pending[1] \in Nat \ {0}
    BY <2>4, CoreNumbers
  <2>6. PRODUCER_TIMEOUT \in FailureCodes
    BY DEF FailureCodes
  <2> QED BY <2>1, <2>5, <2>6, PoisonSameRun
<1>3. CASE Live(L) /\ ~late
  <2>1. Pump(L, t) = Verified(q, LowestUnpersisted(q))
    BY <1>3 DEF Pump
  <2>2. ~Failed(L)
    BY <1>3, LiveIsHealthy
  <2>3. Core(AdmitAndGrow(L)) /\ SameRun(AdmitAndGrow(L), L)
    BY <2>2, AdmitAndGrowCore
  <2>4. Core(q) /\ SameRun(q, AdmitAndGrow(L))
    BY <2>3, RearmTimerCore
  <2> HIDE DEF q
  <2>5. SameRun(q, L)
    BY <2>3, <2>4, SameRunTrans
  <2>6. LowestUnpersisted(q) \in Nat \ {0}
    BY <2>4, LowestIsOrdinal
  <2>7. Core(Verified(q, LowestUnpersisted(q)))
        /\ SameRun(Verified(q, LowestUnpersisted(q)), q)
    BY <2>4, <2>6, VerifiedCore
  <2> QED BY <2>1, <2>5, <2>7, SameRunTrans
<1> QED BY <1>1, <1>2, <1>3

\* What a submission leaves alone.
SameTask(P, L) ==
  /\ P.persisted = L.persisted
  /\ P.cstate = L.cstate /\ P.ctask = L.ctask
  /\ P.wstate \in {L.wstate, "FAILING"}

LEMMA SameTaskTrans ==
  ASSUME NEW P, NEW Q, NEW L, SameTask(P, Q), SameTask(Q, L)
  PROVE  SameTask(P, L)
BY DEF SameTask

\* Accepting an event appends it to the pending queue.
LEMMA AcceptCore ==
  ASSUME NEW L, Core(L), ~Failed(L), NEW n \in Nat \ {0}, NEW deadline \in Nat
  PROVE  LET A == Accept(L, n, deadline) IN
         /\ Core(A) /\ SameTask(A, L) /\ ~Failed(A)
         /\ Accepted(A) = Accepted(L) + 1
<1> DEFINE s == Accepted(L) + 1
           end == n + (IF s = 1 THEN 0 ELSE L.tickets[s - 1].end)
           t == [nbytes |-> n, deadline |-> deadline, state |-> "PENDING", end |-> end,
                 admission |-> "none", persistence |-> "none"]
           T == Append(L.tickets, t)
           p == Append(L.pending, s)
           more == L.pendingBytes + n
           A == [L EXCEPT !.tickets = T, !.pending = p, !.pendingBytes = more,
                          !.pendingEmpty = FALSE]
<1>1. LedgerType(L) /\ Queues(L) /\ Health(L) /\ Truthful(L)
  BY DEF Core
<1>2. s \in Nat /\ more \in Int /\ Len(L.tickets) \in Nat /\ s = Len(L.tickets) + 1
  BY CoreNumbers
<1>3. end \in Nat
  <2>1. CASE s = 1
    BY <2>1
  <2>2. CASE s # 1
    <3>1. s - 1 \in 1..Accepted(L)
      BY <2>2, CoreNumbers
    <3>2. L.tickets[s - 1] \in Ticket
      BY <3>1, QueuedTickets
    <3>3. L.tickets[s - 1].end \in Nat
      BY <3>2 DEF Ticket
    <3> QED BY <2>2, <3>3
  <2> QED BY <2>1, <2>2
<1> HIDE DEF end, more
<1>4. t \in Ticket /\ t.persistence # "ok" /\ t.admission # "ok"
  BY <1>3 DEF Ticket, TicketStates, Outcomes
<1> HIDE DEF t
<1>5. L.tickets \in Seq(Ticket) /\ L.pending \in Seq(Nat)
  BY <1>1 DEF LedgerType
<1>6. /\ T \in Seq(Ticket) /\ Len(T) = Len(L.tickets) + 1
      /\ \A i \in 1..Len(L.tickets) : T[i] = L.tickets[i]
      /\ T[Len(L.tickets) + 1] = t
  BY <1>4, <1>5, AppendProperties
<1>7. /\ p \in Seq(Nat) /\ Len(p) = Len(L.pending) + 1
      /\ \A i \in 1..Len(L.pending) : p[i] = L.pending[i]
      /\ p[Len(L.pending) + 1] = s
  BY <1>2, <1>5, AppendProperties
<1> HIDE DEF T, p
<1>8. /\ LedgerType(A) /\ A.tickets = T /\ A.pending = p
      /\ A.admitted = L.admitted /\ A.queuedBytes = L.queuedBytes /\ A.tier = L.tier
      /\ A.persisted = L.persisted /\ A.admittedHigh = L.admittedHigh
      /\ A.inFlight = L.inFlight /\ A.primary = L.primary /\ A.wstate = L.wstate
      /\ A.cstate = L.cstate /\ A.ctask = L.ctask
  BY <1>1, <1>2, <1>6, <1>7 DEF LedgerType, LedgerFields
<1>9. A = Accept(L, n, deadline)
  BY DEF Accept, t, T, p, end, more
<1> HIDE DEF A
<1>10. Len(L.pending) = Len(L.tickets) - L.admittedHigh
       /\ Len(L.admitted) = L.admittedHigh - L.persisted
  BY <1>1 DEF Health, Accepted
<1>11. ASSUME NEW i \in 1..Len(p) PROVE p[i] = L.admittedHigh + i
  <2>0. i \in Nat /\ Len(L.pending) \in Nat /\ L.admittedHigh \in Nat
    BY CoreNumbers
  <2>1. CASE i <= Len(L.pending)
    <3>1. i \in 1..Len(L.pending)
      BY <2>0, <2>1
    <3> QED BY <3>1, <1>1, <1>7 DEF Queues
  <2>2. CASE ~(i <= Len(L.pending))
    <3>1. i = Len(L.pending) + 1
      BY <2>0, <2>2, <1>7
    <3>2. p[i] = s
      BY <3>1, <1>7
    <3> QED BY <3>1, <3>2, <2>0, <1>2, <1>10
  <2> QED BY <2>1, <2>2
<1>12. ~Failed(A)
  BY <1>8 DEF Failed
<1>13. Len(T) - L.admittedHigh = Len(p) /\ L.admittedHigh <= Len(T)
  <2>1. Len(T) = Len(L.tickets) + 1 /\ Len(p) = Len(L.pending) + 1
    BY <1>6, <1>7
  <2> QED BY <2>1, <1>10, CoreNumbers
<1>14. Queues(A)
  <2>1. /\ L.persisted <= L.admittedHigh
        /\ \A i \in 1..Len(L.admitted) : L.admitted[i] = L.persisted + i
        /\ Len(L.admitted) \in {0, L.admittedHigh - L.persisted}
        /\ Len(L.admitted) <= Capacities[L.tier]
        /\ L.queuedBytes <= Budgets[L.tier]
        /\ L.inFlight # 0 => Len(L.admitted) > 0 /\ L.inFlight = L.persisted + 1
    BY <1>1 DEF Queues
  <2> QED BY <2>1, <1>8, <1>11, <1>13 DEF Queues, Accepted
<1>15. Health(A)
  <2>1. A.wstate \in {"NEW", "RUNNING", "CLOSING", "CLOSED_OK"}
    BY <1>1, <1>8 DEF Health
  <2> QED BY <2>1, <1>8, <1>10, <1>12, <1>13 DEF Health, Accepted
<1>16. Truthful(A)
  <2> SUFFICES ASSUME NEW i \in 1..Len(T)
               PROVE  /\ T[i].persistence = "ok" <=> i <= L.persisted
                      /\ T[i].admission = "ok" <=> i <= L.admittedHigh
    BY <1>8 DEF Truthful, Accepted
  <2>0. i \in Nat /\ L.persisted \in Nat /\ L.admittedHigh \in Nat
        /\ L.persisted <= L.admittedHigh /\ L.admittedHigh <= Len(L.tickets)
    BY CoreNumbers
  <2>1. CASE i <= Len(L.tickets)
    <3>1. i \in 1..Len(L.tickets)
      BY <2>0, <2>1, <1>2
    <3> QED BY <3>1, <1>1, <1>6 DEF Truthful, Accepted
  <2>2. CASE ~(i <= Len(L.tickets))
    <3>1. i = Len(L.tickets) + 1
      BY <2>0, <2>2, <1>2, <1>6
    <3>2. T[i] = t
      BY <3>1, <1>6
    <3>3. ~(i <= L.persisted) /\ ~(i <= L.admittedHigh)
      BY <2>0, <3>1, <1>2
    <3> QED BY <3>2, <3>3, <1>4
  <2> QED BY <2>1, <2>2
<1> QED BY <1>2, <1>6, <1>8, <1>9, <1>12, <1>14, <1>15, <1>16 DEF Core, SameTask, Accepted

LEMMA PreparedIsPositive == \A n \in EventBytes : PreparedBytes(n) \in Nat \ {0}
BY LimitAssumption DEF PreparedBytes

LEMMA CommitCore ==
  ASSUME NEW L, Core(L), Open(L), NEW n \in Nat \ {0}, NEW t \in Nat
  PROVE  Core(Commit(L, n, t)) /\ SameTask(Commit(L, n, t), L)
<1> DEFINE s == Accepted(L) + 1
           a == Accept(L, n, t + ProducerTimeout)
           v == Verified(a, s)
<1>1. /\ s \in Nat \ {0}
      /\ t + ProducerTimeout \in Nat /\ ~Failed(L)
  BY CoreNumbers, LimitAssumption DEF Open
<1>2. ASSUME NEW code \in FailureCodes
      PROVE  LET P == Poison(L, code, s, 0, FALSE) IN Core(P) /\ SameTask(P, L)
  <2> HIDE DEF s
  <2>1. LET P == Poison(L, code, s, 0, FALSE) IN Core(P) /\ SameRun(P, L)
    BY <1>1, PoisonSameRun
  <2> QED BY <2>1 DEF SameRun, SameTask
<1>3. {MAX_EVENTS, SATURATED_COUNT, SATURATED_BYTES} \subseteq FailureCodes
  BY DEF FailureCodes
<1>4. Core(a) /\ SameTask(a, L)
  BY <1>1, AcceptCore
<1>5. Core(v) /\ SameTask(v, a)
  <2> HIDE DEF a, s
  <2> QED BY <1>1, <1>4, VerifiedCore DEF SameRun, SameTask
<1> HIDE DEF v
<1>6. Core(Pump(v, t)) /\ SameTask(Pump(v, t), v)
  BY <1>5, PumpCore DEF SameRun, SameTask
<1>7. SameTask(v, L) /\ SameTask(Pump(v, t), L)
  BY <1>4, <1>5, <1>6, SameTaskTrans
<1>8. \/ Commit(L, n, t) \in {Poison(L, MAX_EVENTS, s, 0, FALSE),
                               Poison(L, SATURATED_COUNT, s, 0, FALSE),
                               Poison(L, SATURATED_BYTES, s, 0, FALSE)}
      \/ Commit(L, n, t) \in {v, Pump(v, t)}
  BY DEF Commit, v
<1> QED BY <1>2, <1>3, <1>5, <1>6, <1>7, <1>8

LEMMA SubmittedCore ==
  ASSUME NEW L, Core(L), NEW n \in EventBytes, NEW t \in Nat
  PROVE  Core(Submitted(L, n, t)) /\ SameTask(Submitted(L, n, t), L)
<1> DEFINE p == Pump(L, t)
<1>1. Core(p) /\ SameTask(p, L)
  BY PumpCore DEF SameRun, SameTask
<1>2. Submitted(L, n, t) = IF Open(p) THEN Commit(p, PreparedBytes(n), t) ELSE p
  BY DEF Submitted
<1> HIDE DEF p
<1>3. CASE Open(p)
  <2>1. PreparedBytes(n) \in Nat \ {0}
    BY PreparedIsPositive
  <2>2. /\ Core(Commit(p, PreparedBytes(n), t))
        /\ SameTask(Commit(p, PreparedBytes(n), t), p)
    BY <1>1, <1>3, <2>1, CommitCore
  <2> QED BY <1>1, <1>2, <1>3, <2>2, SameTaskTrans
<1>4. CASE ~Open(p)
  BY <1>1, <1>2, <1>4
<1> QED BY <1>3, <1>4

\* The head of the admitted queue becomes durable.
LEMMA AcknowledgeCore ==
  ASSUME NEW L, Core(L), NEW s, L.admitted # <<>>, s = L.persisted + 1
  PROVE  LET A == Acknowledge(L, s) IN
         /\ Core(A) /\ A.persisted = s
         /\ A.cstate = L.cstate /\ A.ctask = L.ctask /\ A.wstate = L.wstate
<1> DEFINE adm == Tail(L.admitted)
           less == L.queuedBytes - L.tickets[s].nbytes
           new == [L.tickets[s] EXCEPT !.state = "PERSISTED", !.persistence = "ok"]
           T == [L.tickets EXCEPT ![s] = new]
           A == [L EXCEPT !.admitted = adm, !.queuedBytes = less, !.persisted = s,
                          !.tickets = T, !.inFlight = 0]
<1>1. LedgerType(L) /\ Queues(L) /\ Health(L) /\ Truthful(L)
  BY DEF Core
<1>2. /\ L.admitted \in Seq(Nat) /\ L.tickets \in Seq(Ticket) /\ Len(L.tickets) \in Nat
      /\ L.persisted \in Nat /\ L.admittedHigh \in Nat /\ L.queuedBytes \in Int
      /\ Len(L.admitted) \in Nat /\ L.admittedHigh <= Len(L.tickets)
  BY <1>1, CoreNumbers DEF LedgerType
<1>3. Len(L.admitted) # 0
  BY <1>2, EmptySeq
<1>4. Len(L.admitted) = L.admittedHigh - L.persisted
  BY <1>1, <1>3 DEF Queues
<1>5. s \in Nat /\ s \in 1..Len(L.tickets) /\ s <= L.admittedHigh
  BY <1>2, <1>3, <1>4
<1>6. /\ adm \in Seq(Nat) /\ Len(adm) = Len(L.admitted) - 1
      /\ \A i \in 1..Len(adm) : adm[i] = L.admitted[i + 1]
  BY <1>2, <1>3, HeadTailProperties
<1>7. L.tickets[s] \in Ticket
  BY <1>2, <1>5, ElementOfSeq
<1>8. /\ new \in Ticket /\ new.persistence = "ok" /\ new.admission = L.tickets[s].admission
      /\ L.tickets[s].nbytes \in Nat
  BY <1>7 DEF Ticket, TicketStates, Outcomes
<1>9. less \in Int /\ less <= L.queuedBytes
  BY <1>2, <1>8, SMTT(30)
<1> HIDE DEF new, less, adm
<1>10. /\ T \in Seq(Ticket) /\ Len(T) = Len(L.tickets)
       /\ T[s] = new /\ \A i \in 1..Len(L.tickets) : i # s => T[i] = L.tickets[i]
  BY <1>2, <1>5, <1>8
<1> HIDE DEF T
<1>11. /\ LedgerType(A) /\ A.admitted = adm /\ A.queuedBytes = less /\ A.persisted = s
       /\ A.tickets = T /\ A.inFlight = 0 /\ A.pending = L.pending
       /\ A.admittedHigh = L.admittedHigh /\ A.tier = L.tier
       /\ A.primary = L.primary /\ A.wstate = L.wstate
       /\ A.cstate = L.cstate /\ A.ctask = L.ctask
  <2> DEFINE B == [L EXCEPT !.admitted = adm, !.queuedBytes = less, !.persisted = s]
             C == [B EXCEPT !.tickets = T, !.inFlight = 0]
  <2>1. /\ LedgerType(B) /\ B.admitted = adm /\ B.queuedBytes = less /\ B.persisted = s
        /\ B.pending = L.pending
        /\ B.admittedHigh = L.admittedHigh /\ B.tier = L.tier
        /\ B.primary = L.primary /\ B.wstate = L.wstate
        /\ B.cstate = L.cstate /\ B.ctask = L.ctask
    BY <1>1, <1>5, <1>6, <1>9 DEF LedgerType, LedgerFields
  <2>2. A = C
    OBVIOUS
  <2> HIDE DEF A, B
  <2>3. /\ LedgerType(C) /\ C.admitted = B.admitted /\ C.queuedBytes = B.queuedBytes
        /\ C.persisted = B.persisted /\ C.tickets = T /\ C.inFlight = 0
        /\ C.pending = B.pending
        /\ C.admittedHigh = B.admittedHigh /\ C.tier = B.tier
        /\ C.primary = B.primary /\ C.wstate = B.wstate
        /\ C.cstate = B.cstate /\ C.ctask = B.ctask
    BY <2>1, <1>10 DEF LedgerType, LedgerFields
  <2> HIDE DEF C
  <2> QED BY <2>1, <2>2, <2>3
<1>12. A = Acknowledge(L, s)
  BY DEF Acknowledge, A, T, new, less, adm
<1> HIDE DEF A
<1>13. ASSUME NEW i \in 1..Len(adm) PROVE adm[i] = s + i
  <2>1. i + 1 \in 1..Len(L.admitted) /\ i \in Nat
    BY <1>2, <1>6
  <2>2. L.admitted[i + 1] = L.persisted + (i + 1)
    BY <2>1, <1>1 DEF Queues
  <2>3. adm[i] = L.persisted + (i + 1)
    BY <2>2, <1>6
  <2>4. L.persisted \in Nat /\ i \in Nat
    BY <2>1, <1>2
  <2> QED BY <2>3, <2>4
<1>14. Len(adm) = L.admittedHigh - s
  <2>1. Len(adm) = Len(L.admitted) - 1
    BY <1>6
  <2> QED BY <2>1, <1>2, <1>4
<1>15. Capacities[L.tier] \in Nat /\ Budgets[L.tier] \in Nat
  BY Rungs, CoreNumbers
<1>16. Len(adm) <= Capacities[L.tier] /\ less <= Budgets[L.tier]
  <2>1. Len(L.admitted) <= Capacities[L.tier] /\ L.queuedBytes <= Budgets[L.tier]
    BY <1>1 DEF Queues
  <2>2. Len(adm) = Len(L.admitted) - 1
    BY <1>6
  <2> QED BY <2>1, <2>2, <1>2, <1>9, <1>15, SMTT(30)
<1>17. Queues(A)
  <2>1. /\ L.admittedHigh <= Len(T)
        /\ \A i \in 1..Len(L.pending) : L.pending[i] = L.admittedHigh + i
        /\ Len(L.pending) \in {0, Len(T) - L.admittedHigh}
    BY <1>1, <1>10 DEF Queues, Accepted
  <2> QED BY <2>1, <1>5, <1>11, <1>13, <1>14, <1>16 DEF Queues, Accepted
<1>18. Failed(A) <=> Failed(L)
  BY <1>11 DEF Failed
<1>19. Health(A)
  <2>1. Failed(L) => Len(L.pending) = 0
    BY <1>1 DEF Health
  <2>4. ~Failed(L) => Len(L.pending) = Len(T) - L.admittedHigh
    BY <1>1, <1>10 DEF Health, Accepted
  <2>5. L.wstate \in {"NEW", "RUNNING", "CLOSING", "CLOSED_OK"} <=> ~Failed(L)
    BY <1>1 DEF Health
  <2> QED BY <2>1, <2>4, <2>5, <1>11, <1>14, <1>18 DEF Health, Accepted
<1>20. Truthful(A)
  <2> SUFFICES ASSUME NEW i \in 1..Len(L.tickets)
               PROVE  /\ T[i].persistence = "ok" <=> i <= s
                      /\ T[i].admission = "ok" <=> i <= L.admittedHigh
    BY <1>10, <1>11 DEF Truthful, Accepted
  <2>1. /\ L.tickets[i].persistence = "ok" <=> i <= L.persisted
        /\ L.tickets[i].admission = "ok" <=> i <= L.admittedHigh
    BY <1>1 DEF Truthful, Accepted
  <2>2. CASE i = s
    <3>1. i <= s
      BY <2>2, <1>5
    <3> QED BY <2>1, <2>2, <3>1, <1>8, <1>10
  <2>3. CASE i # s
    <3>1. T[i] = L.tickets[i]
      BY <2>3, <1>10
    <3>2. i <= s <=> i <= L.persisted
      BY <2>3, <1>2
    <3> QED BY <2>1, <3>1, <3>2
  <2> QED BY <2>2, <2>3
<1> QED BY <1>11, <1>12, <1>17, <1>19, <1>20 DEF Core

\* The acknowledgement of an append: the watermark moves to the event, or the
\* ledger fails and gives up what it had admitted.
LEMMA DurableAckCore ==
  ASSUME NEW L, Core(L), NEW t \in Nat, NEW s, s = L.persisted + 1
  PROVE  LET D == DurableAck(L, s, t) IN
         /\ Core(D)
         /\ D.cstate = L.cstate /\ D.ctask = L.ctask /\ D.wstate \in {L.wstate, "FAILING"}
         /\ \/ D.persisted = s
            \/ D.persisted = L.persisted /\ D.admitted = <<>> /\ FailsFrom(D, L)
<1> DEFINE expected == /\ L.admitted # <<>> /\ L.admitted[1] = s /\ L.inFlight = s
                       /\ L.tickets[s].state = "ADMITTED" /\ s = L.persisted + 1
           a == Acknowledge(L, s)
           v == Verified(a, s)
           q == Pump(v, t)
           w == [q EXCEPT !.wakeup = TRUE]
<1>s. s \in Nat \ {0} /\ LEDGER_INVARIANT \in FailureCodes
  BY CoreNumbers DEF FailureCodes
<1>1. CASE ~expected
  <2>1. DurableAck(L, s, t) = Poison(L, LEDGER_INVARIANT, s, 0, TRUE)
    BY <1>1 DEF DurableAck
  <2> DEFINE P == Poison(L, LEDGER_INVARIANT, s, 0, TRUE)
  <2>2. Core(P) /\ SameRun(P, L) /\ FailsFrom(P, L) /\ P.admitted = <<>>
    BY <1>s, PoisonImpossible
  <2> HIDE DEF P
  <2> QED BY <2>1, <2>2 DEF P, SameRun
<1>2. CASE expected
  <2>1. DurableAck(L, s, t) \in {w, v}
    BY <1>2 DEF DurableAck
  <2>2. /\ Core(a) /\ a.persisted = s
        /\ a.cstate = L.cstate /\ a.ctask = L.ctask /\ a.wstate = L.wstate
    BY <1>2, AcknowledgeCore
  <2> HIDE DEF a
  <2>3. Core(v) /\ SameTask(v, a)
    BY <2>2, <1>s, VerifiedCore DEF SameRun, SameTask
  <2> HIDE DEF v
  <2>4. Core(q) /\ SameTask(q, v)
    BY <2>3, PumpCore DEF SameRun, SameTask
  <2>5. LedgerType(w) /\ SameLedger(w, q) /\ w.cstate = q.cstate /\ w.ctask = q.ctask
    <3> HIDE DEF q
    <3> QED BY <2>4 DEF Core, LedgerType, LedgerFields, SameLedger
  <2> HIDE DEF w
  <2>6. Core(w) /\ SameTask(w, q)
    <3> HIDE DEF q
    <3> QED BY <2>4, <2>5, CoreStable DEF SameLedger, SameTask
  <2> HIDE DEF q
  <2>7. SameTask(v, a) /\ SameTask(w, a)
    BY <2>3, <2>4, <2>6, SameTaskTrans
  <2> QED BY <2>1, <2>2, <2>3, <2>6, <2>7 DEF SameTask
<1> QED BY <1>1, <1>2

\* What the consumer and close paths leave alone.
Keeps(P, L) ==
  /\ P.persisted = L.persisted
  /\ P.wstate \in {L.wstate, "FAILING"}
  /\ P.cstate = "NOT_STARTED" => L.cstate = "NOT_STARTED"

LEMMA SameTaskKeeps ==
  ASSUME NEW P, NEW L, SameTask(P, L) \/ SameRun(P, L)
  PROVE  Keeps(P, L) /\ P.ctask = L.ctask
BY DEF SameTask, SameRun, Keeps

LEMMA KeepsTrans ==
  ASSUME NEW P, NEW Q, NEW L, Keeps(P, Q), Keeps(Q, L)
  PROVE  Keeps(P, L)
BY DEF Keeps

LEMMA TaskEndsCore ==
  ASSUME NEW L, Core(L), NEW how \in ConsumerStates \ {"NOT_STARTED"}
  PROVE  LET E == TaskEnds(L, how) IN Core(E) /\ Keeps(E, L) /\ E.ctask = "done"
<1> DEFINE E == [L EXCEPT !.cstate = how, !.ctask = "done", !.pendingEmpty = TRUE,
                          !.wakeup = TRUE]
<1>1. LedgerType(E) /\ SameLedger(E, L) /\ E.cstate = how /\ E.ctask = "done"
  BY DEF Core, LedgerType, LedgerFields, SameLedger, TaskPhases
<1>2. E = TaskEnds(L, how)
  BY DEF TaskEnds
<1> HIDE DEF E
<1>3. Core(E)
  BY <1>1, CoreStable
<1>4. Keeps(E, L)
  BY <1>1 DEF Keeps, SameLedger
<1> QED BY <1>1, <1>2, <1>3, <1>4

LEMMA CloseStopCore ==
  ASSUME NEW L, Core(L)
  PROVE  LET E == CloseStop(L) IN Core(E) /\ Keeps(E, L) /\ E.ctask = "done"
<1> DEFINE M == [L EXCEPT !.stopRequested = FALSE]
           P == Poison(L, CLOSE_INCONSISTENCY, LowestUnpersisted(L), 0, TRUE)
<1>1. CLOSE_INCONSISTENCY \in FailureCodes
      /\ {"EXITED_CLOSE_STOP", "EXITED_ERROR"} \subseteq ConsumerStates \ {"NOT_STARTED"}
  BY DEF FailureCodes, ConsumerStates
<1>2. LedgerType(M) /\ SameLedger(M, L) /\ M.cstate = L.cstate
  BY DEF Core, LedgerType, LedgerFields, SameLedger
<1>3. CloseStop(L) \in {TaskEnds(M, "EXITED_CLOSE_STOP"), TaskEnds(P, "EXITED_ERROR")}
  BY DEF CloseStop
<1> HIDE DEF M
<1>4. Core(M) /\ Keeps(M, L)
  BY <1>2, CoreStable DEF Keeps, SameLedger
<1>5. Core(P) /\ Keeps(P, L)
  BY <1>1, LowestIsOrdinal, PoisonImpossible, SameTaskKeeps
<1> HIDE DEF P
<1>6. LET E == TaskEnds(M, "EXITED_CLOSE_STOP") IN
      Core(E) /\ Keeps(E, M) /\ E.ctask = "done"
  BY <1>1, <1>4, TaskEndsCore
<1>7. LET E == TaskEnds(P, "EXITED_ERROR") IN
      Core(E) /\ Keeps(E, P) /\ E.ctask = "done"
  BY <1>1, <1>5, TaskEndsCore
<1> QED BY <1>3, <1>4, <1>5, <1>6, <1>7, KeepsTrans

\* One turn of the consumer: it takes the head of the admitted queue, ends,
\* or waits; after a failure that gave up the queue it can only end.
LEMMA ConsumerLoopCore ==
  ASSUME NEW L, Core(L)
  PROVE  LET R == ConsumerLoop(L) IN
         /\ Core(R) /\ Keeps(R, L)
         /\ R.ctask \in {"appending", "done", "waiting"}
         /\ R.ctask = "appending" => R.inFlight = L.persisted + 1
         /\ L.admitted = <<>> /\ L.wstate = "FAILING" => R.ctask = "done"
<1> DEFINE a == PeekAction(L)
           T == [L EXCEPT !.inFlight = L.admitted[1], !.ctask = "appending"]
           D == TaskEnds(L, "EXITED_FAILURE_DRAIN")
           C == CloseStop(L)
           W == [L EXCEPT !.wakeup = FALSE, !.ctask = "waiting"]
<1>1. LedgerType(L) /\ Queues(L) /\ Health(L) /\ Truthful(L)
  BY DEF Core
<1>2. ConsumerLoop(L) = IF a = "ticket" THEN T ELSE IF a = "drained" THEN D
                        ELSE IF a = "stop" THEN C ELSE W
  BY DEF ConsumerLoop
<1>3. /\ a = "ticket" => L.admitted # <<>>
      /\ L.admitted = <<>> /\ L.wstate = "FAILING" => a = "drained"
  BY DEF PeekAction
<1>4. Core(D) /\ Keeps(D, L) /\ D.ctask = "done"
  BY TaskEndsCore DEF ConsumerStates
<1>5. Core(C) /\ Keeps(C, L) /\ C.ctask = "done"
  BY CloseStopCore
<1>6. Core(W) /\ Keeps(W, L) /\ W.ctask = "waiting"
  <2>1. LedgerType(W) /\ SameLedger(W, L) /\ W.ctask = "waiting" /\ W.cstate = L.cstate
    BY <1>1 DEF LedgerType, LedgerFields, SameLedger, TaskPhases
  <2> HIDE DEF W
  <2> QED BY <2>1, CoreStable DEF Keeps, SameLedger
<1>7. L.admitted # <<>> =>
        Core(T) /\ Keeps(T, L) /\ T.ctask = "appending" /\ T.inFlight = L.persisted + 1
  <2> SUFFICES ASSUME L.admitted # <<>>
               PROVE  Core(T) /\ Keeps(T, L) /\ T.ctask = "appending"
                      /\ T.inFlight = L.persisted + 1
    OBVIOUS
  <2>1. Len(L.admitted) # 0
    BY <1>1, EmptySeq DEF LedgerType
  <2>2. 1 \in 1..Len(L.admitted) /\ Len(L.admitted) > 0
    BY <2>1, CoreNumbers
  <2>3. L.admitted[1] = L.persisted + 1
    BY <2>2, <1>1 DEF Queues
  <2>4. L.admitted[1] \in Nat
    BY <2>3, CoreNumbers
  <2> DEFINE h == L.admitted[1]
  <2> HIDE DEF h
  <2>5. /\ LedgerType(T) /\ T.inFlight = L.admitted[1] /\ T.ctask = "appending"
        /\ T.tier = L.tier /\ T.tickets = L.tickets /\ T.pending = L.pending
        /\ T.admitted = L.admitted /\ T.queuedBytes = L.queuedBytes
        /\ T.admittedHigh = L.admittedHigh /\ T.persisted = L.persisted
        /\ T.primary = L.primary /\ T.wstate = L.wstate /\ T.cstate = L.cstate
    BY <2>4, <1>1 DEF LedgerType, LedgerFields, TaskPhases
  <2> HIDE DEF T
  <2>6. Queues(T)
    BY <2>2, <2>3, <2>5, <1>1 DEF Queues, Accepted
  <2>7. Health(T) /\ Truthful(T)
    BY <2>5, <1>1 DEF Health, Truthful, Accepted, Failed
  <2> QED BY <2>3, <2>5, <2>6, <2>7 DEF Core, Keeps
<1> HIDE DEF a, T, D, C, W
<1>8. CASE a = "ticket"
  BY <1>2, <1>3, <1>7, <1>8
<1>9. CASE a # "ticket"
  BY <1>2, <1>3, <1>4, <1>5, <1>6, <1>9
<1> QED BY <1>8, <1>9

LEMMA RecordCancelledCore ==
  ASSUME NEW L, Core(L)
  PROVE  LET R == RecordCancelled(L) IN
         /\ Core(R) /\ Keeps(R, L) /\ R.ctask = L.ctask
         /\ R = L \/ Failed(R)
<1> DEFINE P == Poison(L, CONSUMER_CANCELLED, LowestUnpersisted(L), 0, TRUE)
           E == [P EXCEPT !.cstate = "EXITED_ERROR"]
<1>1. CONSUMER_CANCELLED \in FailureCodes
  BY DEF FailureCodes
<1>2. Core(P) /\ Failed(P) /\ Keeps(P, L) /\ P.ctask = L.ctask
  BY <1>1, LowestIsOrdinal, PoisonImpossible, SameTaskKeeps
<1>3. RecordCancelled(L) \in {E, L}
  BY DEF RecordCancelled
<1> HIDE DEF P
<1>4. LedgerType(E) /\ SameLedger(E, P) /\ E.cstate = "EXITED_ERROR" /\ E.ctask = P.ctask
  BY <1>2 DEF Core, LedgerType, LedgerFields, SameLedger, ConsumerStates
<1> HIDE DEF E
<1>5. Core(E) /\ Keeps(E, P) /\ Failed(E)
  BY <1>2, <1>4, CoreStable DEF SameLedger, Keeps, Failed
<1>6. Keeps(E, L) /\ Keeps(L, L)
  BY <1>2, <1>5, KeepsTrans DEF Keeps
<1> QED BY <1>2, <1>3, <1>4, <1>5, <1>6

-----------------------------------------------------------------------------
(* Every step preserves LedgerInvariant. *)

\* The ledger changed and the append thread did not.
LEMMA FileStable ==
  ASSUME FileMatches, UNCHANGED <<worker, disk>>, led'.persisted = led.persisted,
         led'.ctask \in {led.ctask, "done", "reaped"}
  PROVE  FileMatches'
BY DEF FileMatches

LEMMA CloseStable ==
  ASSUME CloseIsFinal, UNCHANGED <<closing, cancelReq>>, Keeps(led', led),
         \/ led'.ctask = led.ctask
         \/ led.ctask # "none" /\ led'.ctask \in {"done", "reaped"}
  PROVE  CloseIsFinal'
BY DEF CloseIsFinal, Keeps, TaskAlive

\* A step that only changes the ledger record.
LEMMA LedgerStep ==
  ASSUME LedgerInvariant, Core(led'), Keeps(led', led),
         \/ led'.ctask = led.ctask
         \/ led.ctask # "none" /\ led'.ctask \in {"done", "reaped"},
         UNCHANGED <<worker, disk, closing, cancelReq, now>>
  PROVE  LedgerInvariant'
<1>1. FileMatches'
  BY FileStable DEF LedgerInvariant, Keeps
<1>2. CloseIsFinal'
  BY CloseStable DEF LedgerInvariant
<1>3. TypeOK'
  BY DEF LedgerInvariant, TypeOK, Core
<1> QED BY <1>1, <1>2, <1>3 DEF LedgerInvariant

LEMMA ClockIsNat ==
  ASSUME LedgerInvariant
  PROVE  now \in Nat
BY LimitAssumption DEF LedgerInvariant, TypeOK

LEMMA ProducersPreserve ==
  ASSUME LedgerInvariant, Producers
  PROVE  LedgerInvariant'
<1>0. Core(led) /\ now \in Nat
  BY ClockIsNat DEF LedgerInvariant
<1>1. CASE \E n \in EventBytes : Submit(n)
  <2>1. PICK n \in EventBytes : Submit(n)
    BY <1>1
  <2>2. led' = Submitted(led, n, now) /\ UNCHANGED <<worker, disk, closing, cancelReq, now>>
    BY <2>1 DEF Submit
  <2>3. Core(led') /\ Keeps(led', led) /\ led'.ctask = led.ctask
    BY <1>0, <2>2, SubmittedCore, SameTaskKeeps
  <2> QED BY <2>2, <2>3, LedgerStep
<1>2. CASE SubmitUnserializable
  <2> DEFINE p == Pump(led, now)
             q == Poison(p, SERIALIZATION, Accepted(p) + 1, 0, FALSE)
  <2>1. led' \in {p, q} /\ UNCHANGED <<worker, disk, closing, cancelReq, now>>
    BY <1>2 DEF SubmitUnserializable
  <2>2. Core(p) /\ Keeps(p, led) /\ p.ctask = led.ctask
    BY <1>0, PumpCore, SameTaskKeeps
  <2> HIDE DEF p
  <2>3. Accepted(p) + 1 \in Nat \ {0} /\ SERIALIZATION \in FailureCodes
    BY <2>2, CoreNumbers DEF FailureCodes
  <2>4. Core(q) /\ SameRun(q, p)
    BY <2>2, <2>3, PoisonSameRun
  <2> HIDE DEF q
  <2>5. Keeps(q, led) /\ q.ctask = led.ctask
    BY <2>2, <2>4, SameTaskKeeps, KeepsTrans
  <2> QED BY <2>1, <2>2, <2>4, <2>5, LedgerStep
<1>3. CASE EmitAwaitedNoConsumer
  <2>1. /\ led' = Poison(led, NO_CONSUMER, Accepted(led) + 1, 0, TRUE)
        /\ UNCHANGED <<worker, disk, closing, cancelReq, now>>
    BY <1>3 DEF EmitAwaitedNoConsumer
  <2>2. Accepted(led) + 1 \in Nat \ {0} /\ NO_CONSUMER \in FailureCodes
    BY <1>0, CoreNumbers DEF FailureCodes
  <2>3. Core(led') /\ SameRun(led', led)
    BY <1>0, <2>1, <2>2, PoisonImpossible
  <2> QED BY <2>1, <2>3, SameTaskKeeps, LedgerStep
<1> QED BY <1>1, <1>2, <1>3 DEF Producers

LEMMA StartPreserves ==
  ASSUME LedgerInvariant, Start
  PROVE  LedgerInvariant'
<1>1. Core(led) /\ FileMatches /\ CloseIsFinal /\ TypeOK
  BY DEF LedgerInvariant
<1>2. /\ led' = [led EXCEPT !.ctask = "created", !.cstate = "RUNNING", !.wstate = "RUNNING",
                            !.wakeup = TRUE]
      /\ UNCHANGED <<worker, disk, closing, cancelReq, now>>
      /\ led.cstate = "NOT_STARTED" /\ led.wstate = "NEW"
  BY DEF Start, CanStart
<1>3. LedgerType(led) /\ Queues(led) /\ Health(led) /\ Truthful(led)
  BY <1>1 DEF Core
<1>4. /\ LedgerType(led')
      /\ led'.tier = led.tier /\ led'.tickets = led.tickets /\ led'.pending = led.pending
      /\ led'.admitted = led.admitted /\ led'.queuedBytes = led.queuedBytes
      /\ led'.admittedHigh = led.admittedHigh /\ led'.persisted = led.persisted
      /\ led'.inFlight = led.inFlight /\ led'.primary = led.primary
      /\ led'.ctask = "created" /\ led'.cstate = "RUNNING" /\ led'.wstate = "RUNNING"
  BY <1>2, <1>3 DEF LedgerType, LedgerFields, WriterStates, ConsumerStates, TaskPhases
<1>5. Queues(led)' /\ Truthful(led)'
  BY <1>3, <1>4 DEF Queues, Truthful, Accepted
<1>6. Health(led)'
  BY <1>2, <1>3, <1>4 DEF Health, Accepted, Failed
<1>7. FileMatches'
  BY <1>1, <1>2, <1>4 DEF FileMatches, CloseIsFinal
<1>8. CloseIsFinal'
  BY <1>1, <1>2, <1>4 DEF CloseIsFinal
<1>9. TypeOK'
  BY <1>1, <1>2, <1>4 DEF TypeOK
<1> QED BY <1>4, <1>5, <1>6, <1>7, <1>8, <1>9 DEF LedgerInvariant, Core

LEMMA StartFailsPreserves ==
  ASSUME LedgerInvariant, StartFails
  PROVE  LedgerInvariant'
<1> DEFINE E == [led EXCEPT !.cstate = "EXITED_ERROR"]
<1>1. /\ led' = Poison(E, CONSUMER_START, LowestUnpersisted(led), 0, TRUE)
      /\ UNCHANGED <<worker, disk, closing, cancelReq, now>>
  BY DEF StartFails
<1>2. LedgerType(E) /\ SameLedger(E, led) /\ E.cstate = "EXITED_ERROR" /\ E.ctask = led.ctask
  BY DEF LedgerInvariant, Core, LedgerType, LedgerFields, SameLedger, ConsumerStates
<1> HIDE DEF E
<1>3. Core(E) /\ Keeps(E, led)
  BY <1>2, CoreStable DEF LedgerInvariant, Keeps, SameLedger
<1>4. LowestUnpersisted(led) \in Nat \ {0} /\ CONSUMER_START \in FailureCodes
  BY LowestIsOrdinal DEF LedgerInvariant, FailureCodes
<1>5. Core(led') /\ SameRun(led', E)
  BY <1>1, <1>3, <1>4, PoisonImpossible
<1>6. Keeps(led', led) /\ led'.ctask = led.ctask
  BY <1>2, <1>3, <1>5, SameTaskKeeps, KeepsTrans
<1> QED BY <1>1, <1>5, <1>6, LedgerStep

LEMMA HeadTimerPreserves ==
  ASSUME LedgerInvariant, HeadTimer
  PROVE  LedgerInvariant'
<1> DEFINE E == [led EXCEPT !.timer = 0]
<1>1. led' = Pump(E, now) /\ UNCHANGED <<worker, disk, closing, cancelReq, now>>
  BY DEF HeadTimer
<1>2. LedgerType(E) /\ SameLedger(E, led) /\ E.cstate = led.cstate /\ E.ctask = led.ctask
  BY DEF LedgerInvariant, Core, LedgerType, LedgerFields, SameLedger
<1> HIDE DEF E
<1>3. Core(E) /\ Keeps(E, led)
  BY <1>2, CoreStable DEF LedgerInvariant, Keeps, SameLedger
<1>4. Core(led') /\ SameRun(led', E)
  BY <1>1, <1>3, ClockIsNat, PumpCore
<1>5. Keeps(led', led) /\ led'.ctask = led.ctask
  BY <1>2, <1>3, <1>4, SameTaskKeeps, KeepsTrans
<1> QED BY <1>1, <1>4, <1>5, LedgerStep

LEMMA TickPreserves ==
  ASSUME LedgerInvariant, Tick
  PROVE  LedgerInvariant'
<1>1. now' \in 0..MaxTime /\ UNCHANGED <<led, worker, disk, closing, cancelReq>>
  BY LimitAssumption DEF LedgerInvariant, TypeOK, Tick
<1>2. TypeOK' /\ FileMatches' /\ CloseIsFinal' /\ Core(led')
  BY <1>1 DEF LedgerInvariant, TypeOK, FileMatches, CloseIsFinal, TaskAlive
<1> QED BY <1>2 DEF LedgerInvariant

LEMMA AppendThreadPreserves ==
  ASSUME LedgerInvariant, AppendThread
  PROVE  LedgerInvariant'
<1>1. /\ Core(led) /\ CloseIsFinal /\ FileMatches /\ TypeOK
      /\ led.persisted \in Nat /\ disk \in Seq(Nat)
  BY CoreNumbers DEF LedgerInvariant, TypeOK
<1>2. /\ worker.st = "writing" /\ UNCHANGED <<led, closing, cancelReq, now>>
      /\ \/ disk' = Append(disk, worker.seq) /\ worker' = [worker EXCEPT !.st = "wrote"]
         \/ disk' = disk /\ worker' = [worker EXCEPT !.st = "raised"]
         \/ disk' = Append(disk, worker.seq) /\ worker' = [worker EXCEPT !.st = "raised"]
  BY DEF AppendThread, AppendReturns, AppendRaises
<1>3. /\ worker.seq = led.persisted + 1 /\ Len(disk) = led.persisted
      /\ led.ctask \notin {"none", "created", "waiting"}
      /\ \A i \in 1..Len(disk) : disk[i] = i
  BY <1>1, <1>2 DEF FileMatches
<1>4. /\ worker' \in [seq : Nat, st : {"idle", "writing", "wrote", "raised"}]
      /\ worker'.seq = worker.seq /\ worker'.st \in {"wrote", "raised"}
      /\ worker'.st = "wrote" => disk' = Append(disk, worker.seq)
      /\ disk' \in {disk, Append(disk, worker.seq)}
  BY <1>1, <1>2 DEF TypeOK
<1> DEFINE more == Append(disk, worker.seq)
<1>5. /\ more \in Seq(Nat) /\ Len(more) = led.persisted + 1
      /\ \A i \in 1..Len(disk) : more[i] = disk[i]
      /\ more[Len(disk) + 1] = worker.seq
  BY <1>1, <1>3, AppendProperties
<1>6. ASSUME NEW i \in 1..Len(more) PROVE more[i] = i
  <2>0. i \in Nat /\ led.persisted \in Nat
    BY <1>1
  <2>1. CASE i <= Len(disk)
    <3>1. i \in 1..Len(disk)
      BY <2>0, <2>1, <1>3
    <3> QED BY <3>1, <1>3, <1>5
  <2>2. CASE ~(i <= Len(disk))
    <3>1. i = Len(disk) + 1
      BY <2>0, <2>2, <1>3, <1>5
    <3>2. more[i] = worker.seq
      BY <3>1, <1>5
    <3> QED BY <3>1, <3>2, <1>3
  <2> QED BY <2>1, <2>2
<1> HIDE DEF more
<1>7. /\ disk' \in {disk, more} /\ (worker'.st = "wrote" => disk' = more)
  BY <1>4 DEF more
<1>8. FileMatches'
  <2>1. \A i \in 1..Len(disk') : disk'[i] = i
    BY <1>3, <1>6, <1>7
  <2>2. Len(disk') \in {led.persisted, led.persisted + 1}
    BY <1>3, <1>5, <1>7
  <2>3. worker'.st = "wrote" => Len(disk') = led.persisted + 1
    BY <1>5, <1>7
  <2>4. led' = led
    BY <1>2
  <2> QED BY <2>1, <2>2, <2>3, <2>4, <1>3, <1>4 DEF FileMatches
<1>9. TypeOK' /\ CloseIsFinal' /\ Core(led')
  BY <1>1, <1>2, <1>4, <1>5, <1>7 DEF TypeOK, CloseIsFinal, TaskAlive
<1> QED BY <1>8, <1>9 DEF LedgerInvariant

\* The consumer's turn from a file that ends at the watermark.
LEMMA ConsumerTurn ==
  ASSUME LedgerInvariant, NEW D, Core(D),
         led' = ConsumerLoop(D), worker' = WorkerAfter(led'),
         UNCHANGED <<disk, closing, cancelReq, now>>,
         led.ctask # "none",
         D.wstate \in {led.wstate, "FAILING"}, D.cstate = led.cstate,
         TaskAlive(led),
         Len(disk) \in {D.persisted, D.persisted + 1},
         Len(disk) = D.persisted \/ (D.admitted = <<>> /\ D.wstate = "FAILING")
  PROVE  LedgerInvariant'
<1>1. Core(led) /\ CloseIsFinal /\ FileMatches /\ TypeOK
  BY DEF LedgerInvariant
<1>2. /\ Core(led') /\ Keeps(led', D)
      /\ led'.ctask \in {"appending", "done", "waiting"}
      /\ led'.ctask = "appending" => led'.inFlight = D.persisted + 1
      /\ D.admitted = <<>> /\ D.wstate = "FAILING" => led'.ctask = "done"
  BY ConsumerLoopCore
<1>3. /\ worker' = IF led'.ctask = "appending" THEN [seq |-> led'.inFlight, st |-> "writing"]
                   ELSE [seq |-> 0, st |-> "idle"]
      /\ led'.persisted = D.persisted /\ D.persisted \in Nat
  BY <1>2, CoreNumbers DEF WorkerAfter, Keeps
<1>4. worker' \in [seq : Nat, st : {"idle", "writing", "wrote", "raised"}]
  BY <1>2, <1>3 DEF Core, LedgerType
<1>5. FileMatches'
  <2>1. \A i \in 1..Len(disk') : disk'[i] = i
    BY <1>1 DEF FileMatches
  <2>2. CASE led'.ctask = "appending"
    <3>1. worker'.st = "writing" /\ worker'.seq = led'.persisted + 1
          /\ Len(disk') = led'.persisted
      BY <2>2, <1>2, <1>3
    <3> QED BY <2>1, <2>2, <3>1 DEF FileMatches
  <2>3. CASE led'.ctask = "waiting"
    <3>1. worker'.st = "idle" /\ Len(disk') = led'.persisted
      BY <2>3, <1>2, <1>3
    <3> QED BY <2>1, <2>3, <3>1 DEF FileMatches
  <2>4. CASE led'.ctask = "done"
    <3>1. worker'.st = "idle" /\ Len(disk') \in {led'.persisted, led'.persisted + 1}
      BY <2>4, <1>3
    <3> QED BY <2>1, <2>4, <3>1 DEF FileMatches
  <2> QED BY <2>2, <2>3, <2>4, <1>2
<1>6. CloseIsFinal'
  BY <1>1, <1>2 DEF CloseIsFinal, Keeps, TaskAlive
<1>7. TypeOK'
  BY <1>1, <1>2, <1>4 DEF TypeOK, Core
<1> QED BY <1>2, <1>5, <1>6, <1>7 DEF LedgerInvariant

LEMMA ConsumerTaskPreserves ==
  ASSUME LedgerInvariant, ConsumerTask
  PROVE  LedgerInvariant'
<1>1. Core(led) /\ CloseIsFinal /\ FileMatches /\ TypeOK /\ now \in Nat
      /\ led.persisted \in Nat
  BY ClockIsNat, CoreNumbers DEF LedgerInvariant
<1>2. CASE ConsumerRuns
  <2>1. /\ led' = ConsumerLoop(led) /\ worker' = WorkerAfter(led')
        /\ UNCHANGED <<disk, closing, cancelReq, now>>
        /\ led.ctask \in {"created", "waiting"}
    BY <1>2 DEF ConsumerRuns
  <2>2. Len(disk) = led.persisted
    BY <1>1, <2>1 DEF FileMatches
  <2> QED BY <1>1, <2>1, <2>2, ConsumerTurn DEF TaskAlive
<1>3. CASE ConsumerAcks
  <2> DEFINE D == DurableAck(led, worker.seq, now)
  <2>1. /\ led' = ConsumerLoop(D) /\ worker' = WorkerAfter(led')
        /\ UNCHANGED <<disk, closing, cancelReq, now>>
        /\ led.ctask = "appending" /\ worker.st = "wrote" /\ "consumer" \notin cancelReq
    BY <1>3 DEF ConsumerAcks
  <2>2. worker.seq = led.persisted + 1 /\ Len(disk) = led.persisted + 1
    BY <1>1, <2>1 DEF FileMatches
  <2>3. /\ Core(D) /\ D.cstate = led.cstate /\ D.ctask = led.ctask
        /\ D.wstate \in {led.wstate, "FAILING"}
        /\ \/ D.persisted = worker.seq
           \/ D.persisted = led.persisted /\ D.admitted = <<>> /\ FailsFrom(D, led)
    BY <1>1, <2>2, DurableAckCore
  <2> HIDE DEF D
  <2>4. led.wstate # "CLOSED_FAILED"
    BY <1>1, <2>1 DEF CloseIsFinal, TaskAlive
  <2>5. /\ Len(disk) \in {D.persisted, D.persisted + 1}
        /\ Len(disk) = D.persisted \/ (D.admitted = <<>> /\ D.wstate = "FAILING")
    BY <2>2, <2>3, <2>4 DEF FailsFrom
  <2>6. TaskAlive(led) /\ led.ctask # "none"
    BY <2>1 DEF TaskAlive
  <2> QED BY <2>1, <2>3, <2>5, <2>6, ConsumerTurn
<1>4. CASE ConsumerSeesAppendFail
  <2> DEFINE P == Poison(led, APPEND_FAILED, worker.seq, 0, TRUE)
  <2>1. /\ led' = TaskEnds(P, "EXITED_ERROR") /\ worker' = [seq |-> 0, st |-> "idle"]
        /\ UNCHANGED <<disk, closing, cancelReq, now>>
        /\ led.ctask = "appending" /\ worker.st = "raised"
    BY <1>4 DEF ConsumerSeesAppendFail
  <2>2. worker.seq \in Nat \ {0} /\ APPEND_FAILED \in FailureCodes
    BY <1>1, <2>1 DEF FileMatches, FailureCodes
  <2>3. Core(P) /\ Keeps(P, led)
    BY <1>1, <2>2, PoisonImpossible, SameTaskKeeps
  <2> HIDE DEF P
  <2>4. Core(led') /\ Keeps(led', P) /\ led'.ctask = "done"
    BY <2>1, <2>3, TaskEndsCore DEF ConsumerStates
  <2>5. Keeps(led', led)
    BY <2>3, <2>4, KeepsTrans
  <2>6. FileMatches'
    BY <1>1, <2>1, <2>4, <2>5 DEF FileMatches, Keeps
  <2>7. CloseIsFinal'
    BY <1>1, <2>1, <2>4, <2>5, CloseStable
  <2>8. TypeOK'
    BY <1>1, <2>1, <2>4 DEF TypeOK, Core
  <2> QED BY <2>4, <2>6, <2>7, <2>8 DEF LedgerInvariant
<1>5. CASE ConsumerCancelled
  <2> DEFINE N == [led EXCEPT !.ctask = "done"]
             P == Poison(led, CONSUMER_CANCELLED, worker.seq, 0, TRUE)
             Q == Poison(led, CONSUMER_CANCELLED, LowestUnpersisted(led), 0, TRUE)
  <2>1. /\ UNCHANGED <<worker, disk, closing, cancelReq, now>>
        /\ TaskAlive(led)
        /\ led.ctask = "created" => led' = N
        /\ led.ctask = "appending" => led' = TaskEnds(P, "EXITED_ERROR")
        /\ led.ctask = "waiting" => led' = TaskEnds(Q, "EXITED_ERROR")
    BY <1>5 DEF ConsumerCancelled
  <2>2. CONSUMER_CANCELLED \in FailureCodes
        /\ "EXITED_ERROR" \in ConsumerStates \ {"NOT_STARTED"}
    BY DEF FailureCodes, ConsumerStates
  <2>3. CASE led.ctask = "created"
    <3>1. LedgerType(N) /\ SameLedger(N, led) /\ N.ctask = "done" /\ N.cstate = led.cstate
      BY <1>1 DEF Core, LedgerType, LedgerFields, SameLedger, TaskPhases
    <3> HIDE DEF N
    <3>2. Core(N) /\ Keeps(N, led)
      BY <1>1, <3>1, CoreStable DEF Keeps, SameLedger
    <3> QED BY <2>1, <2>3, <3>1, <3>2, LedgerStep
  <2>4. CASE led.ctask = "appending"
    <3>1. worker.seq \in Nat \ {0}
      BY <1>1, <2>4 DEF FileMatches
    <3>2. Core(P) /\ Keeps(P, led)
      BY <1>1, <2>2, <3>1, PoisonImpossible, SameTaskKeeps
    <3> HIDE DEF P
    <3>3. Core(led') /\ Keeps(led', P) /\ led'.ctask = "done"
      BY <2>1, <2>2, <2>4, <3>2, TaskEndsCore
    <3>4. Keeps(led', led)
      BY <3>2, <3>3, KeepsTrans
    <3> QED BY <2>1, <2>4, <3>3, <3>4, LedgerStep
  <2>5. CASE led.ctask = "waiting"
    <3>2. Core(Q) /\ Keeps(Q, led)
      BY <1>1, <2>2, LowestIsOrdinal, PoisonImpossible, SameTaskKeeps
    <3> HIDE DEF Q
    <3>3. Core(led') /\ Keeps(led', Q) /\ led'.ctask = "done"
      BY <2>1, <2>2, <2>5, <3>2, TaskEndsCore
    <3>4. Keeps(led', led)
      BY <3>2, <3>3, KeepsTrans
    <3> QED BY <2>1, <2>5, <3>3, <3>4, LedgerStep
  <2> QED BY <2>1, <2>3, <2>4, <2>5 DEF TaskAlive
<1> QED BY <1>2, <1>3, <1>4, <1>5 DEF ConsumerTask

LEMMA ConsumerDonePreserves ==
  ASSUME LedgerInvariant, ConsumerDone
  PROVE  LedgerInvariant'
<1> DEFINE R == RecordCancelled(led)
           E == [R EXCEPT !.ctask = "reaped", !.pendingEmpty = TRUE, !.wakeup = TRUE]
<1>1. led' = E /\ led.ctask = "done" /\ UNCHANGED <<worker, disk, closing, cancelReq, now>>
  BY DEF ConsumerDone
<1>2. Core(R) /\ Keeps(R, led)
  BY RecordCancelledCore DEF LedgerInvariant
<1> HIDE DEF R
<1>3. LedgerType(E) /\ SameLedger(E, R) /\ E.ctask = "reaped" /\ E.cstate = R.cstate
  BY <1>2 DEF Core, LedgerType, LedgerFields, SameLedger, TaskPhases
<1> HIDE DEF E
<1>4. Core(E) /\ Keeps(E, R)
  BY <1>2, <1>3, CoreStable DEF Keeps, SameLedger
<1>5. Keeps(E, led)
  BY <1>2, <1>4, KeepsTrans
<1> QED BY <1>1, <1>3, <1>4, <1>5, LedgerStep

\* A step of close() or of its task: it leaves the append thread alone.
LEMMA CloseStep ==
  ASSUME LedgerInvariant, Core(led'),
         led'.persisted = led.persisted, led'.ctask = led.ctask,
         led'.cstate = "NOT_STARTED" => led.cstate = "NOT_STARTED",
         closing' \in [phase : ClosePhases, outcome : Outcomes],
         UNCHANGED <<worker, disk, cancelReq, now>>,
         led'.wstate # "NEW", closing'.phase # "none",
         led'.wstate \in {"CLOSED_OK", "CLOSED_FAILED"} => closing'.phase = "done",
         closing'.phase = "cancelled" => "close" \in cancelReq,
         closing'.phase = "done" /\ TaskAlive(led) => "consumer" \in cancelReq
  PROVE  LedgerInvariant'
<1>1. FileMatches'
  BY FileStable DEF LedgerInvariant
<1>2. CloseIsFinal'
  BY DEF LedgerInvariant, CloseIsFinal, TaskAlive
<1>3. TypeOK'
  BY DEF LedgerInvariant, TypeOK, Core
<1> QED BY <1>1, <1>2, <1>3 DEF LedgerInvariant

\* A writer state that agrees with the failure slot.
Agrees(w, L) == w \in {"NEW", "RUNNING", "CLOSING", "CLOSED_OK"} <=> ~Failed(L)

Restated(M, L, w, time) == M = [L EXCEPT !.wstate = w, !.timer = time]

LEMMA WriterStateCore ==
  ASSUME NEW L, Core(L), NEW w \in WriterStates, NEW time \in Nat,
         Agrees(w, L), NEW M, Restated(M, L, w, time)
  PROVE  /\ Core(M) /\ M.wstate = w /\ M.persisted = L.persisted
         /\ M.ctask = L.ctask /\ M.cstate = L.cstate
<1>1. LedgerType(L) /\ Queues(L) /\ Health(L) /\ Truthful(L)
  BY DEF Core
<1>2. /\ LedgerType(M) /\ M.wstate = w
      /\ M.tier = L.tier /\ M.tickets = L.tickets /\ M.pending = L.pending
      /\ M.admitted = L.admitted /\ M.queuedBytes = L.queuedBytes
      /\ M.admittedHigh = L.admittedHigh /\ M.persisted = L.persisted
      /\ M.inFlight = L.inFlight /\ M.primary = L.primary
      /\ M.ctask = L.ctask /\ M.cstate = L.cstate
  BY <1>1 DEF LedgerType, LedgerFields, Restated
<1>3. Queues(M) /\ Truthful(M)
  BY <1>1, <1>2 DEF Queues, Truthful, Accepted
<1>4. Health(M)
  BY <1>1, <1>2 DEF Health, Accepted, Failed, Agrees
<1> QED BY <1>2, <1>3, <1>4 DEF Core

LEMMA ClosePreserves ==
  ASSUME LedgerInvariant, Close
  PROVE  LedgerInvariant'
<1>1. /\ Core(led) /\ CloseIsFinal /\ TypeOK /\ now \in Nat
      /\ LedgerType(led) /\ Health(led)
  BY ClockIsNat DEF LedgerInvariant, Core
<1> DEFINE M == [led EXCEPT !.wstate = "CLOSING"]
           open == led.wstate \in {"NEW", "RUNNING"}
<1>2. /\ closing.phase = "none" /\ closing' = [closing EXCEPT !.phase = "scheduled"]
      /\ led' = IF open THEN Pump(M, now) ELSE led
      /\ UNCHANGED <<worker, disk, cancelReq, now>>
  BY DEF Close
<1>3. closing' \in [phase : ClosePhases, outcome : Outcomes] /\ closing'.phase = "scheduled"
  BY <1>1, <1>2 DEF TypeOK, ClosePhases
<1>4. CASE open
  <2>1. led.timer \in Nat /\ M = [led EXCEPT !.wstate = "CLOSING", !.timer = led.timer]
    BY <1>1 DEF LedgerType, LedgerFields
  <2>2. ~Failed(led) /\ "CLOSING" \in WriterStates
    BY <1>1, <1>4 DEF Health, WriterStates
  <2>3. /\ Core(M) /\ M.wstate = "CLOSING" /\ M.persisted = led.persisted
        /\ M.ctask = led.ctask /\ M.cstate = led.cstate
    <3> HIDE DEF M
    <3>1. Agrees("CLOSING", led) /\ Restated(M, led, "CLOSING", led.timer)
      BY <2>1, <2>2 DEF Agrees, Restated
    <3> QED BY <3>1, <1>1, <2>1, <2>2, WriterStateCore
  <2> HIDE DEF M
  <2>4. Core(led') /\ SameRun(led', M)
    BY <1>1, <1>2, <1>4, <2>3, PumpCore
  <2>5. /\ led'.persisted = led.persisted /\ led'.ctask = led.ctask
        /\ led'.cstate = led.cstate /\ led'.wstate \in {"CLOSING", "FAILING"}
    BY <2>3, <2>4 DEF SameRun
  <2> QED BY <1>2, <1>3, <2>4, <2>5, CloseStep
<1>5. CASE ~open
  <2>1. led' = led /\ led.wstate \notin {"NEW", "CLOSED_OK", "CLOSED_FAILED"}
    BY <1>1, <1>2, <1>5 DEF CloseIsFinal
  <2> QED BY <1>1, <1>2, <1>3, <2>1, CloseStep
<1> QED BY <1>4, <1>5

\* The two ways the close task settles, from a ledger M that the join left.
LEMMA ClosedPreserves ==
  ASSUME LedgerInvariant, UNCHANGED <<worker, disk, cancelReq, now>>,
         TaskAlive(led) => "consumer" \in cancelReq,
         \/ ClosedOk /\ ~Failed(led)
         \/ \E M : ClosedFailed(M) /\ Core(M) /\ Failed(M) /\ Keeps(M, led)
                   /\ M.ctask = led.ctask
  PROVE  LedgerInvariant'
<1>1. Core(led)
  BY DEF LedgerInvariant
<1>2. CASE ClosedOk /\ ~Failed(led)
  <2>1. /\ led' = [led EXCEPT !.wstate = "CLOSED_OK", !.timer = 0]
        /\ closing' = [phase |-> "done", outcome |-> "ok"]
    BY <1>2 DEF ClosedOk
  <2>2. /\ "CLOSED_OK" \in WriterStates /\ Agrees("CLOSED_OK", led)
        /\ Restated(led', led, "CLOSED_OK", 0)
    BY <1>2, <2>1 DEF WriterStates, Agrees, Restated
  <2>3. /\ Core(led') /\ led'.wstate = "CLOSED_OK" /\ led'.persisted = led.persisted
        /\ led'.ctask = led.ctask /\ led'.cstate = led.cstate
    BY <1>1, <2>2, WriterStateCore
  <2>4. closing' \in [phase : ClosePhases, outcome : Outcomes] /\ closing'.phase = "done"
    BY <2>1 DEF ClosePhases, Outcomes
  <2> QED BY <2>3, <2>4, CloseStep
<1>3. CASE \E M : ClosedFailed(M) /\ Core(M) /\ Failed(M) /\ Keeps(M, led)
                /\ M.ctask = led.ctask
  <2>1. PICK M : /\ ClosedFailed(M) /\ Core(M) /\ Failed(M) /\ Keeps(M, led)
                 /\ M.ctask = led.ctask
    BY <1>3
  <2>2. /\ led' = [M EXCEPT !.wstate = "CLOSED_FAILED", !.timer = 0]
        /\ closing' = [phase |-> "done", outcome |-> "failed"]
    BY <2>1 DEF ClosedFailed
  <2>3. /\ "CLOSED_FAILED" \in WriterStates /\ Agrees("CLOSED_FAILED", M)
        /\ Restated(led', M, "CLOSED_FAILED", 0)
    BY <2>1, <2>2 DEF WriterStates, Agrees, Restated
  <2>4. /\ Core(led') /\ led'.wstate = "CLOSED_FAILED" /\ led'.persisted = M.persisted
        /\ led'.ctask = M.ctask /\ led'.cstate = M.cstate
    BY <2>1, <2>3, WriterStateCore
  <2>5. closing' \in [phase : ClosePhases, outcome : Outcomes] /\ closing'.phase = "done"
    BY <2>2 DEF ClosePhases, Outcomes
  <2> QED BY <2>1, <2>4, <2>5, CloseStep DEF Keeps
<1> QED BY <1>2, <1>3

LEMMA CloseDrainsPreserves ==
  ASSUME LedgerInvariant, CloseDrains
  PROVE  LedgerInvariant'
<1> DEFINE E == [led EXCEPT !.pendingEmpty = FALSE]
           p == IF led.pending = <<>> THEN led ELSE Pump(E, now)
           stop == p.pending = <<>> /\ p.wstate = "CLOSING" /\ ~Failed(p)
           s == p.stopRequested \/ stop
           w == p.wakeup \/ stop
           M == [p EXCEPT !.stopRequested = s, !.wakeup = w]
<1>1. Core(led) /\ CloseIsFinal /\ TypeOK /\ now \in Nat /\ LedgerType(led)
  BY ClockIsNat DEF LedgerInvariant, Core
<1>2. /\ closing.phase \in {"scheduled", "waitPending"}
      /\ led' = M
      /\ closing' = [closing EXCEPT !.phase =
                       IF p.pending = <<>> THEN "waitConsumer" ELSE "waitPending"]
      /\ UNCHANGED <<worker, disk, cancelReq, now>>
  BY DEF CloseDrains
<1>3. Core(p) /\ Keeps(p, led) /\ p.ctask = led.ctask
  <2>1. CASE led.pending = <<>>
    BY <1>1, <2>1 DEF Keeps
  <2>2. CASE led.pending # <<>>
    <3>1. LedgerType(E) /\ SameLedger(E, led) /\ E.ctask = led.ctask /\ E.cstate = led.cstate
      BY <1>1 DEF LedgerType, LedgerFields, SameLedger
    <3> HIDE DEF E
    <3>2. Core(E) /\ Keeps(E, led)
      BY <1>1, <3>1, CoreStable DEF Keeps, SameLedger
    <3>3. Core(Pump(E, now)) /\ SameRun(Pump(E, now), E)
      BY <1>1, <3>2, PumpCore
    <3> QED BY <2>2, <3>1, <3>2, <3>3, SameTaskKeeps, KeepsTrans
  <2> QED BY <2>1, <2>2
<1>4. closing' \in [phase : ClosePhases, outcome : Outcomes]
      /\ closing'.phase \in {"waitConsumer", "waitPending"}
  <2> HIDE DEF p
  <2> QED BY <1>1, <1>2 DEF TypeOK, ClosePhases
<1> HIDE DEF p
<1>5. s \in BOOLEAN /\ w \in BOOLEAN
  OBVIOUS
<1> HIDE DEF s, w
<1>6. LedgerType(M) /\ SameLedger(M, p) /\ M.ctask = p.ctask /\ M.cstate = p.cstate
  BY <1>3, <1>5 DEF Core, LedgerType, LedgerFields, SameLedger
<1> HIDE DEF M
<1>7. Core(M) /\ Keeps(M, p)
  BY <1>3, <1>6, CoreStable DEF Keeps, SameLedger
<1>8. Core(led') /\ Keeps(led', led) /\ led'.ctask = led.ctask
  BY <1>2, <1>3, <1>6, <1>7, KeepsTrans
<1>9. led.wstate \notin {"NEW", "CLOSED_OK", "CLOSED_FAILED"}
  BY <1>1, <1>2 DEF CloseIsFinal
<1> QED BY <1>2, <1>4, <1>8, <1>9, CloseStep DEF Keeps

LEMMA CloseTaskPreserves ==
  ASSUME LedgerInvariant, CloseTask
  PROVE  LedgerInvariant'
<1>1. Core(led) /\ CloseIsFinal /\ TypeOK
  BY DEF LedgerInvariant
<1>2. ASSUME NEW L, Core(L), NEW code \in FailureCodes
      PROVE  LET M == Poison(L, code, LowestUnpersisted(L), 0, TRUE) IN
             Core(M) /\ Failed(M) /\ Keeps(M, L) /\ M.ctask = L.ctask
  BY <1>2, LowestIsOrdinal, PoisonImpossible, SameTaskKeeps
<1>3. NO_CONSUMER \in FailureCodes /\ CLOSE_INCONSISTENCY \in FailureCodes
  BY DEF FailureCodes
<1>4. CASE CloseWithoutConsumer
  <2>1. /\ UNCHANGED <<worker, disk, cancelReq, now>> /\ led.ctask = "none"
        /\ \/ ClosedOk /\ ~Failed(led)
           \/ ClosedFailed(Poison(led, NO_CONSUMER, LowestUnpersisted(led), 0, TRUE))
           \/ ClosedFailed(Poison(led, CLOSE_INCONSISTENCY, LowestUnpersisted(led), 0, TRUE))
    BY <1>4 DEF CloseWithoutConsumer
  <2>2. ~TaskAlive(led)
    BY <2>1 DEF TaskAlive
  <2> QED BY <1>1, <1>2, <1>3, <2>1, <2>2, ClosedPreserves
<1>5. CASE CloseDrains
  BY <1>5, CloseDrainsPreserves
<1>6. CASE CloseJoins
  <2> DEFINE r == RecordCancelled(led)
             M == IF Failed(r) THEN r
                  ELSE Poison(r, CLOSE_INCONSISTENCY, LowestUnpersisted(r), 0, TRUE)
  <2>1. /\ UNCHANGED <<worker, disk, cancelReq, now>> /\ led.ctask \in {"done", "reaped"}
        /\ (ClosedOk /\ ~Failed(r)) \/ ClosedFailed(M)
    BY <1>6 DEF CloseJoins
  <2>2. ~TaskAlive(led)
    BY <2>1 DEF TaskAlive
  <2>3. /\ Core(r) /\ Keeps(r, led) /\ r.ctask = led.ctask
        /\ r = led \/ Failed(r)
    BY <1>1, RecordCancelledCore
  <2> HIDE DEF r
  <2>4. Core(M) /\ Failed(M) /\ Keeps(M, led) /\ M.ctask = led.ctask
    BY <1>2, <1>3, <2>3, KeepsTrans
  <2> HIDE DEF M
  <2> QED BY <2>1, <2>2, <2>3, <2>4, ClosedPreserves
<1>7. CASE CloseCancelled
  <2>1. /\ "close" \in cancelReq /\ closing' = [closing EXCEPT !.phase = "cancelled"]
        /\ UNCHANGED <<led, worker, disk, cancelReq, now>>
        /\ closing.phase \in {"scheduled", "waitPending", "waitConsumer"}
    BY <1>7 DEF CloseCancelled
  <2>2. closing' \in [phase : ClosePhases, outcome : Outcomes] /\ closing'.phase = "cancelled"
    BY <1>1, <2>1 DEF TypeOK, ClosePhases
  <2>3. led.wstate \notin {"NEW", "CLOSED_OK", "CLOSED_FAILED"}
    BY <1>1, <2>1 DEF CloseIsFinal
  <2> QED BY <1>1, <2>1, <2>2, <2>3, CloseStep
<1>8. CASE CloseCancelRecorded
  <2> DEFINE M == IF Failed(led) THEN led
                  ELSE Poison(led, CLOSE_INCONSISTENCY, LowestUnpersisted(led), 0, TRUE)
  <2>1. /\ closing.phase = "cancelled" /\ ClosedFailed(M)
        /\ UNCHANGED <<worker, disk, cancelReq, now>>
    BY <1>8 DEF CloseCancelRecorded
  <2>2. Core(M) /\ Failed(M) /\ Keeps(M, led) /\ M.ctask = led.ctask
    BY <1>1, <1>2, <1>3 DEF Keeps
  <2>3. TaskAlive(led) => "consumer" \in cancelReq
    BY <1>1, <2>1 DEF CloseIsFinal
  <2> HIDE DEF M
  <2> QED BY <2>1, <2>2, <2>3, ClosedPreserves
<1> QED BY <1>4, <1>5, <1>6, <1>7, <1>8 DEF CloseTask

LEMMA LoopTeardownPreserves ==
  ASSUME LedgerInvariant, LoopTeardown
  PROVE  LedgerInvariant'
<1>1. /\ UNCHANGED <<led, worker, disk, closing, now>> /\ cancelReq = {}
      /\ cancelReq' \subseteq {"consumer", "close"}
      /\ TaskAlive(led) => "consumer" \in cancelReq'
      /\ "close" \in cancelReq' =>
           closing.phase \in {"scheduled", "waitPending", "waitConsumer"}
  BY DEF LoopTeardown
<1>2. CloseIsFinal'
  BY <1>1 DEF LedgerInvariant, CloseIsFinal, TaskAlive
<1>3. TypeOK' /\ FileMatches' /\ Core(led')
  BY <1>1 DEF LedgerInvariant, TypeOK, FileMatches
<1> QED BY <1>2, <1>3 DEF LedgerInvariant

-----------------------------------------------------------------------------
(* Bytes, deadlines and tickets: what the self-check of the ledger, the      *)
(* timeliness of an admission and the fate of an admitted event rest on.     *)

\* The accepted bytes up to ticket n.
End(L, n) == IF n = 0 THEN 0 ELSE L.tickets[n].end

\* Tickets lie end to end in the accepted stream, and their deadlines are in
\* the order of their numbers.
Laid(L) ==
  /\ \A i \in 1..Accepted(L) : L.tickets[i].end = End(L, i - 1) + L.tickets[i].nbytes
  /\ \A i, j \in 0..Accepted(L) : i <= j => End(L, i) <= End(L, j)
  /\ \A i, j \in 1..Accepted(L) : i <= j => L.tickets[i].deadline <= L.tickets[j].deadline

\* The byte counters are the bytes of the queues, within the highest rung.
Weighed(L) ==
  /\ L.queuedBytes = End(L, L.persisted + Len(L.admitted)) - End(L, L.persisted)
  /\ L.pendingBytes = End(L, L.admittedHigh + Len(L.pending)) - End(L, L.admittedHigh)
  /\ L.queuedBytes + L.pendingBytes <= MaxBytes
  /\ Len(L.pending) <= MaxCapacity

Exact(L) == Core(L) /\ Laid(L) /\ Weighed(L)

\* A ticket keeps its size, its place and its deadline.
Kept(a, b) == a.nbytes = b.nbytes /\ a.end = b.end /\ a.deadline = b.deadline

SameTickets(P, L) ==
  /\ Accepted(L) <= Accepted(P)
  /\ \A i \in 1..Accepted(L) : Kept(P.tickets[i], L.tickets[i])

\* No ticket is given up.
Spared(P, L) ==
  \A i \in 1..Accepted(L) :
    P.tickets[i].state = "FAILED_UNPERSISTED" => L.tickets[i].state = "FAILED_UNPERSISTED"

LEMMA FailPendingTickets ==
  ASSUME NEW L, LedgerType(L), NEW victim \in Nat
  PROVE  LET P == FailPending(L, victim) IN
         /\ P.pendingBytes = 0 /\ P.pending = <<>> /\ Len(P.tickets) = Len(L.tickets)
         /\ \A i \in 1..Len(L.tickets) :
              /\ Kept(P.tickets[i], L.tickets[i])
              /\ P.tickets[i].state = "FAILED_UNPERSISTED" =>
                   L.tickets[i].state = "FAILED_UNPERSISTED"
<1> DEFINE F(i) == IF ~IsIn(i, L.pending) THEN L.tickets[i]
                   ELSE [L.tickets[i] EXCEPT
                           !.state = IF i = victim THEN "EXPIRED" ELSE "FAILED",
                           !.admission = Unless(@, "failed"),
                           !.persistence = Unless(@, "failed")]
           T == [i \in 1..Len(L.tickets) |-> F(i)]
<1>1. ASSUME NEW i \in 1..Len(L.tickets)
      PROVE  /\ Kept(F(i), L.tickets[i])
             /\ F(i).state = "FAILED_UNPERSISTED" => L.tickets[i].state = "FAILED_UNPERSISTED"
  <2>1. L.tickets[i] \in Ticket
    BY DEF LedgerType
  <2> QED BY <2>1 DEF Ticket, Kept
<1> HIDE DEF F
<1>2. FailPending(L, victim) = [L EXCEPT !.tickets = T, !.pending = <<>>,
                                         !.pendingBytes = 0, !.pendingEmpty = TRUE]
  BY DEF FailPending, F
<1>3. \A i \in 1..Len(L.tickets) : T[i] = F(i)
  OBVIOUS
<1>4. Len(FailPending(L, victim).tickets) = Len(L.tickets)
  BY FailPendingFacts
<1> HIDE DEF T
<1> QED BY <1>1, <1>2, <1>3, <1>4 DEF LedgerType, LedgerFields

LEMMA FailAdmittedTickets ==
  ASSUME NEW L, LedgerType(L)
  PROVE  LET P == FailAdmitted(L) IN
         /\ P.pendingBytes = L.pendingBytes /\ Len(P.tickets) = Len(L.tickets)
         /\ \A i \in 1..Len(L.tickets) : Kept(P.tickets[i], L.tickets[i])
<1> DEFINE F(i) == IF ~IsIn(i, L.admitted) THEN L.tickets[i]
                   ELSE [L.tickets[i] EXCEPT
                           !.state = "FAILED_UNPERSISTED",
                           !.persistence = Unless(@, "failed")]
           T == [i \in 1..Len(L.tickets) |-> F(i)]
<1>1. ASSUME NEW i \in 1..Len(L.tickets)
      PROVE  Kept(F(i), L.tickets[i])
  <2>1. L.tickets[i] \in Ticket
    BY DEF LedgerType
  <2> QED BY <2>1 DEF Ticket, Kept
<1> HIDE DEF F
<1>2. FailAdmitted(L) = [L EXCEPT !.tickets = T, !.admitted = <<>>,
                                  !.queuedBytes = 0, !.inFlight = 0]
  BY DEF FailAdmitted, F
<1>3. \A i \in 1..Len(L.tickets) : T[i] = F(i)
  OBVIOUS
<1>4. Len(FailAdmitted(L).tickets) = Len(L.tickets)
  BY FailAdmittedFacts
<1> HIDE DEF T
<1> QED BY <1>1, <1>2, <1>3, <1>4 DEF LedgerType, LedgerFields

\* What a failure does to the tickets and the queues.
LEMMA PoisonTickets ==
  ASSUME NEW L, LedgerType(L), NEW code \in FailureCodes, NEW ordinal \in Nat \ {0},
         NEW victim \in Nat, NEW impossible \in BOOLEAN
  PROVE  LET P == Poison(L, code, ordinal, victim, impossible) IN
         /\ P.pending = <<>> /\ P.pendingBytes = 0 /\ P.admittedHigh = L.admittedHigh
         /\ P.persisted = L.persisted /\ P.cstate = L.cstate
         /\ \/ P.admitted = <<>> /\ P.queuedBytes = 0
            \/ P.admitted = L.admitted /\ P.queuedBytes = L.queuedBytes
         /\ SameTickets(P, L) /\ Accepted(P) = Accepted(L)
         /\ ~impossible /\ L.cstate = "RUNNING" => Spared(P, L)
<1>1. PICK key : key = [ordinal |-> ordinal, rank |-> code]
  OBVIOUS
<1>2. PICK R : R = RecordFailure(L, key)
  OBVIOUS
<1>3. /\ LedgerType(R) /\ R.tickets = L.tickets /\ R.admitted = L.admitted
      /\ R.queuedBytes = L.queuedBytes /\ R.persisted = L.persisted
      /\ R.admittedHigh = L.admittedHigh /\ R.cstate = L.cstate
  BY <1>1, <1>2, RecordFailureFacts
<1>4. PICK F : F = FailPending(R, victim)
  OBVIOUS
<1>5. /\ LedgerType(F) /\ F.admitted = L.admitted /\ F.queuedBytes = L.queuedBytes
      /\ F.persisted = L.persisted /\ F.admittedHigh = L.admittedHigh /\ F.cstate = L.cstate
  BY <1>3, <1>4, FailPendingFacts
<1>6. /\ F.pendingBytes = 0 /\ F.pending = <<>> /\ Len(F.tickets) = Len(L.tickets)
      /\ \A i \in 1..Len(L.tickets) :
           /\ Kept(F.tickets[i], L.tickets[i])
           /\ F.tickets[i].state = "FAILED_UNPERSISTED" =>
                L.tickets[i].state = "FAILED_UNPERSISTED"
  BY <1>3, <1>4, FailPendingTickets
<1>7. PICK A : A = FailAdmitted(F)
  OBVIOUS
<1>8. /\ LedgerType(A) /\ A.admitted = <<>> /\ A.queuedBytes = 0 /\ A.pending = <<>>
      /\ A.persisted = L.persisted /\ A.admittedHigh = L.admittedHigh /\ A.cstate = L.cstate
  BY <1>5, <1>6, <1>7, FailAdmittedFacts
<1>9. /\ A.pendingBytes = 0 /\ Len(A.tickets) = Len(L.tickets)
      /\ \A i \in 1..Len(L.tickets) : Kept(A.tickets[i], F.tickets[i])
  BY <1>5, <1>6, <1>7, FailAdmittedTickets
<1>10. \A i \in 1..Len(L.tickets) : Kept(A.tickets[i], L.tickets[i])
  BY <1>6, <1>9 DEF Kept
<1>11. PICK D : D = [F EXCEPT !.drainThenExit = TRUE]
  OBVIOUS
<1>12. /\ LedgerType(D) /\ D.admitted = L.admitted /\ D.queuedBytes = L.queuedBytes
       /\ D.pending = <<>> /\ D.pendingBytes = 0 /\ D.persisted = L.persisted
       /\ D.admittedHigh = L.admittedHigh /\ D.cstate = L.cstate /\ D.tickets = F.tickets
  BY <1>5, <1>6, <1>11 DEF LedgerType, LedgerFields
<1>13. PICK Q : Q = IF impossible \/ L.cstate # "RUNNING" THEN A ELSE D
  OBVIOUS
<1>14. /\ LedgerType(Q) /\ Q.pending = <<>> /\ Q.pendingBytes = 0 /\ Q.persisted = L.persisted
       /\ Q.admittedHigh = L.admittedHigh /\ Q.cstate = L.cstate
       /\ \/ Q.admitted = <<>> /\ Q.queuedBytes = 0
          \/ Q.admitted = L.admitted /\ Q.queuedBytes = L.queuedBytes
       /\ Len(Q.tickets) = Len(L.tickets)
       /\ \A i \in 1..Len(L.tickets) : Kept(Q.tickets[i], L.tickets[i])
       /\ ~impossible /\ L.cstate = "RUNNING" => Q.tickets = F.tickets
  BY <1>6, <1>8, <1>9, <1>10, <1>12, <1>13
<1>15. PICK P : P = [Q EXCEPT !.wakeup = TRUE]
  OBVIOUS
<1>16. /\ P.pending = <<>> /\ P.pendingBytes = 0 /\ P.persisted = L.persisted
       /\ P.admittedHigh = L.admittedHigh /\ P.cstate = L.cstate
       /\ P.admitted = Q.admitted /\ P.queuedBytes = Q.queuedBytes /\ P.tickets = Q.tickets
  BY <1>14, <1>15 DEF LedgerType, LedgerFields
<1>17. P = Poison(L, code, ordinal, victim, impossible)
  BY <1>1, <1>2, <1>4, <1>7, <1>11, <1>13, <1>15 DEF Poison
<1>18. Len(L.tickets) \in Nat
  BY DEF LedgerType
<1>19. SameTickets(P, L) /\ Accepted(P) = Accepted(L)
  BY <1>14, <1>16, <1>18 DEF SameTickets, Accepted
<1>20. ~impossible /\ L.cstate = "RUNNING" => Spared(P, L)
  BY <1>6, <1>14, <1>16 DEF Spared, Accepted
<1> QED BY <1>14, <1>16, <1>17, <1>19, <1>20

\* Where a byte offset is, as long as the tickets keep their places.
LEMMA EndIsNat ==
  ASSUME NEW L, Core(L), NEW n \in 0..Accepted(L)
  PROVE  End(L, n) \in Nat
<1>1. CASE n = 0
  BY <1>1 DEF End
<1>2. CASE n # 0
  <2>1. n \in 1..Accepted(L)
    BY <1>2, CoreNumbers
  <2>2. L.tickets[n] \in Ticket
    BY <2>1, QueuedTickets
  <2> QED BY <1>2, <2>2 DEF End, Ticket
<1> QED BY <1>1, <1>2

LEMMA LaidStable ==
  ASSUME NEW L, Laid(L), NEW P, SameTickets(P, L), Accepted(P) = Accepted(L),
         Accepted(L) \in Nat
  PROVE  Laid(P) /\ \A n \in 0..Accepted(L) : End(P, n) = End(L, n)
<1>1. PICK a \in Nat : a = Accepted(L) /\ a = Accepted(P)
  OBVIOUS
<1>2. \A i \in 1..a : Kept(P.tickets[i], L.tickets[i])
  BY <1>1 DEF SameTickets
<1>3. ASSUME NEW n \in 0..a PROVE End(P, n) = End(L, n)
  <2>1. n = 0 \/ n \in 1..a
    OBVIOUS
  <2> QED BY <1>2, <2>1 DEF End, Kept
<1>4. ASSUME NEW i \in 1..a
      PROVE  P.tickets[i].end = End(P, i - 1) + P.tickets[i].nbytes
  <2>1. i - 1 \in 0..a
    OBVIOUS
  <2> QED BY <1>1, <1>2, <1>3, <2>1 DEF Laid, Kept
<1>5. \A i, j \in 0..a : i <= j => End(P, i) <= End(P, j)
  BY <1>1, <1>3 DEF Laid
<1>6. \A i, j \in 1..a : i <= j => P.tickets[i].deadline <= P.tickets[j].deadline
  BY <1>1, <1>2 DEF Laid, Kept
<1> QED BY <1>1, <1>3, <1>4, <1>5, <1>6 DEF Laid

\* The highest rung.
LEMMA TopRung == MaxCapacity \in Nat /\ MaxBytes \in Nat
<1>1. Len(Capacities) \in Tiers /\ Len(Budgets) = Len(Capacities)
  BY PolicyAssumption DEF Tiers
<1> QED BY <1>1, Rungs DEF MaxCapacity, MaxBytes

\* The numbers of an exact ledger.
LEMMA ExactNumbers ==
  ASSUME NEW L, Exact(L)
  PROVE  /\ L.persisted + Len(L.admitted) \in 0..Accepted(L)
         /\ L.admittedHigh + Len(L.pending) \in 0..Accepted(L)
         /\ L.persisted \in 0..Accepted(L) /\ L.admittedHigh \in 0..Accepted(L)
         /\ L.queuedBytes \in Nat /\ L.pendingBytes \in Nat
<1>1. Core(L) /\ Laid(L) /\ Weighed(L) /\ Queues(L)
  BY DEF Exact, Core
<1>2. PICK a \in Nat, p \in Nat, h \in Nat, x \in Nat, y \in Nat :
        /\ a = Accepted(L) /\ p = L.persisted /\ h = L.admittedHigh
        /\ x = Len(L.admitted) /\ y = Len(L.pending)
  BY <1>1, CoreNumbers
<1>3. p <= h /\ h <= a /\ x \in {0, h - p} /\ y \in {0, a - h}
  BY <1>1, <1>2 DEF Queues
<1>4. p \in 0..a /\ h \in 0..a /\ p + x \in 0..a /\ h + y \in 0..a /\ p <= p + x /\ h <= h + y
  BY <1>3
<1>5. End(L, p) <= End(L, p + x) /\ End(L, h) <= End(L, h + y)
  BY <1>1, <1>2, <1>4 DEF Laid
<1>6. End(L, p) \in Nat /\ End(L, p + x) \in Nat /\ End(L, h) \in Nat /\ End(L, h + y) \in Nat
  BY <1>1, <1>2, <1>4, EndIsNat
<1>7. L.queuedBytes = End(L, p + x) - End(L, p) /\ L.pendingBytes = End(L, h + y) - End(L, h)
  BY <1>1, <1>2 DEF Weighed
<1>8. L.queuedBytes \in Nat /\ L.pendingBytes \in Nat
  BY <1>5, <1>6, <1>7
<1> QED BY <1>2, <1>4, <1>8

\* A failure leaves the bytes of what it gives up out of the counters.
LEMMA PoisonExact ==
  ASSUME NEW L, Exact(L), NEW code \in FailureCodes, NEW ordinal \in Nat \ {0},
         NEW victim \in Nat, NEW impossible \in BOOLEAN
  PROVE  LET P == Poison(L, code, ordinal, victim, impossible) IN
         /\ Exact(P) /\ SameTickets(P, L) /\ P.admittedHigh = L.admittedHigh
         /\ ~impossible /\ L.cstate = "RUNNING" => Spared(P, L)
<1>1. Core(L) /\ Laid(L) /\ Weighed(L) /\ LedgerType(L)
  BY DEF Exact, Core
<1>2. PICK P : P = Poison(L, code, ordinal, victim, impossible)
  OBVIOUS
<1>3. Core(P)
  BY <1>1, <1>2, PoisonCore
<1>4. /\ P.pending = <<>> /\ P.pendingBytes = 0 /\ P.admittedHigh = L.admittedHigh
      /\ P.persisted = L.persisted
      /\ \/ P.admitted = <<>> /\ P.queuedBytes = 0
         \/ P.admitted = L.admitted /\ P.queuedBytes = L.queuedBytes
      /\ SameTickets(P, L) /\ Accepted(P) = Accepted(L)
      /\ ~impossible /\ L.cstate = "RUNNING" => Spared(P, L)
  BY <1>1, <1>2, PoisonTickets
<1>5. Laid(P) /\ \A n \in 0..Accepted(L) : End(P, n) = End(L, n)
  BY <1>1, <1>4, LaidStable, CoreNumbers
<1>6. PICK p \in Nat, h \in Nat : p = L.persisted /\ h = L.admittedHigh
  BY <1>1, CoreNumbers
<1>7. p \in 0..Accepted(L) /\ h \in 0..Accepted(L) /\ p + Len(L.admitted) \in 0..Accepted(L)
      /\ L.queuedBytes \in Nat /\ L.pendingBytes \in Nat
  BY <1>6, ExactNumbers
<1>8. End(P, p) \in Nat /\ End(P, h) \in Nat
  BY <1>1, <1>5, <1>7, EndIsNat
<1>9. p + 0 = p /\ h + 0 = h /\ Len(<<>>) = 0
  BY NoNumbers
<1>10. P.pendingBytes = End(P, P.admittedHigh + Len(P.pending)) - End(P, P.admittedHigh)
  BY <1>4, <1>6, <1>8, <1>9
<1>11. P.queuedBytes = End(P, P.persisted + Len(P.admitted)) - End(P, P.persisted)
  <2>1. CASE P.admitted = <<>> /\ P.queuedBytes = 0
    BY <1>4, <1>6, <1>8, <1>9, <2>1
  <2>2. CASE P.admitted = L.admitted /\ P.queuedBytes = L.queuedBytes
    BY <1>1, <1>4, <1>5, <1>6, <1>7, <2>2 DEF Weighed
  <2> QED BY <1>4, <2>1, <2>2
<1>12. P.queuedBytes + P.pendingBytes <= MaxBytes /\ Len(P.pending) <= MaxCapacity
  <2>1. L.queuedBytes + L.pendingBytes <= MaxBytes
    BY <1>1 DEF Weighed
  <2> QED BY <1>4, <1>7, <1>9, <2>1, TopRung
<1>13. Exact(P)
  BY <1>3, <1>5, <1>10, <1>11, <1>12 DEF Exact, Weighed
<1> QED BY <1>2, <1>4, <1>13

\* The bytes of a prefix of a queue.
LEMMA PrefixIsRange ==
  ASSUME NEW L, Core(L), Laid(L), NEW q \in Seq(Nat), NEW from \in Nat, NEW k \in 0..Len(q),
         \A i \in 1..Len(q) : q[i] = from + i, from + k <= Accepted(L)
  PROVE  PrefixBytes(L, q, k) = End(L, from + k) - End(L, from)
<1>1. CASE k = 0
  <2>1. from \in 0..Accepted(L) /\ from + k = from
    BY <1>1, CoreNumbers
  <2>2. End(L, from) \in Nat
    BY <2>1, EndIsNat
  <2> QED BY <1>1, <2>1, <2>2 DEF PrefixBytes
<1>2. CASE k # 0
  <2>1. k \in Nat /\ Len(q) \in Nat /\ Accepted(L) \in Nat
    BY CoreNumbers
  <2>2. 1 \in 1..Len(q) /\ k \in 1..Len(q) /\ from + 1 \in 1..Accepted(L) /\ from + k # 0
        /\ from + k \in 0..Accepted(L) /\ from \in 0..Accepted(L)
    BY <1>2, <2>1
  <2>3. q[1] = from + 1 /\ q[k] = from + k
    BY <2>2
  <2>4. PrefixBytes(L, q, k) = L.tickets[from + k].end - L.tickets[from + 1].end
                                 + L.tickets[from + 1].nbytes
    BY <1>2, <2>3 DEF PrefixBytes
  <2>5. L.tickets[from + k].end = End(L, from + k)
    BY <2>2 DEF End
  <2>6. (from + 1) - 1 = from
    OBVIOUS
  <2>7. L.tickets[from + 1].end = End(L, from) + L.tickets[from + 1].nbytes
    BY <2>2, <2>6 DEF Laid
  <2>8. L.tickets[from + 1] \in Ticket
    BY <2>2, QueuedTickets
  <2>9. L.tickets[from + 1].nbytes \in Nat
    BY <2>8 DEF Ticket
  <2>10. End(L, from) \in Nat /\ End(L, from + k) \in Nat
    BY <2>2, EndIsNat
  <2> QED BY <2>4, <2>5, <2>7, <2>9, <2>10
<1> QED BY <1>1, <1>2

\* The assertions of _verify_invariants hold of an exact ledger: the self-check
\* changes nothing.
LEMMA SelfCheck ==
  ASSUME NEW L, Exact(L), NEW ordinal
  PROVE  Asserts(L) /\ Verified(L, ordinal) = L
<1>1. Core(L) /\ Laid(L) /\ Weighed(L) /\ Queues(L) /\ LedgerType(L)
  BY DEF Exact, Core
<1>2. PICK p \in Nat, h \in Nat, x \in Nat, y \in Nat :
        p = L.persisted /\ h = L.admittedHigh /\ x = Len(L.admitted) /\ y = Len(L.pending)
  BY <1>1, CoreNumbers
<1>3. p + x <= Accepted(L) /\ h + y <= Accepted(L)
  BY <1>2, ExactNumbers
<1>4. L.admitted \in Seq(Nat) /\ L.pending \in Seq(Nat) /\ x \in 0..x /\ y \in 0..y
  BY <1>1 DEF LedgerType
<1>5. PrefixBytes(L, L.admitted, x) = End(L, p + x) - End(L, p)
  BY <1>1, <1>2, <1>3, <1>4, PrefixIsRange DEF Queues
<1>6. PrefixBytes(L, L.pending, y) = End(L, h + y) - End(L, h)
  BY <1>1, <1>2, <1>3, <1>4, PrefixIsRange DEF Queues
<1>7. /\ L.queuedBytes = PrefixBytes(L, L.admitted, Len(L.admitted))
      /\ L.pendingBytes = PrefixBytes(L, L.pending, Len(L.pending))
      /\ Len(L.pending) <= MaxCapacity /\ L.queuedBytes + L.pendingBytes <= MaxBytes
  BY <1>1, <1>2, <1>5, <1>6 DEF Weighed
<1>8. L.inFlight # 0 => L.admitted # <<>> /\ L.admitted[1] = L.inFlight
  <2> HAVE L.inFlight # 0
  <2>1. x > 0 /\ L.inFlight = p + 1
    BY <1>1, <1>2 DEF Queues
  <2>2. 1 \in 1..x
    BY <2>1
  <2>3. L.admitted[1] = p + 1
    BY <1>1, <1>2, <2>2 DEF Queues
  <2>4. L.admitted # <<>>
    BY <1>2, <2>1, NoNumbers
  <2> QED BY <2>1, <2>3, <2>4
<1>9. Asserts(L)
  BY <1>1, <1>7, <1>8 DEF Asserts, Queues
<1> QED BY <1>9 DEF Verified

\* The queues and the counters are as they were.
SameQueues(M, L) ==
  /\ M.tickets = L.tickets /\ M.pending = L.pending /\ M.admitted = L.admitted
  /\ M.queuedBytes = L.queuedBytes /\ M.pendingBytes = L.pendingBytes
  /\ M.admittedHigh = L.admittedHigh /\ M.persisted = L.persisted

\* A method that admits: what it does to the tickets that were there.
Admits(P, L) ==
  /\ SameTickets(P, L) /\ Accepted(P) = Accepted(L) /\ Spared(P, L)
  /\ L.admittedHigh <= P.admittedHigh

LEMMA AdmitsTrans ==
  ASSUME NEW P, NEW Q, NEW L, Core(P), Core(Q), Core(L), Admits(P, Q), Admits(Q, L)
  PROVE  Admits(P, L)
<1>1. /\ Accepted(L) \in Nat /\ P.admittedHigh \in Nat /\ Q.admittedHigh \in Nat
      /\ L.admittedHigh \in Nat
  BY CoreNumbers
<1>2. Accepted(P) = Accepted(L) /\ L.admittedHigh <= P.admittedHigh
  BY <1>1 DEF Admits
<1>3. SameTickets(P, L) /\ Spared(P, L)
  BY <1>1, <1>2 DEF Admits, SameTickets, Kept, Spared
<1> QED BY <1>2, <1>3 DEF Admits

LEMMA ExactStable ==
  ASSUME NEW L, Exact(L), NEW M, Core(M), SameQueues(M, L)
  PROVE  Exact(M) /\ Admits(M, L)
<1>1. Core(L) /\ Laid(L) /\ Weighed(L)
  BY DEF Exact
<1>2. Accepted(M) = Accepted(L) /\ Accepted(L) \in Nat /\ L.admittedHigh \in Nat
  BY <1>1, CoreNumbers DEF SameQueues, Accepted
<1>3. \A n : End(M, n) = End(L, n)
  BY DEF End, SameQueues
<1>4. Laid(M)
  BY <1>1, <1>2, <1>3 DEF Laid, SameQueues
<1>5. Weighed(M)
  BY <1>1, <1>3 DEF Weighed, SameQueues
<1>6. Admits(M, L)
  BY <1>2 DEF Admits, SameTickets, Spared, Kept, SameQueues
<1> QED BY <1>4, <1>5, <1>6 DEF Exact

\* Admitting a prefix moves its bytes from one counter to the other.
LEMMA AdmitPrefixExact ==
  ASSUME NEW L, Exact(L), ~Failed(L), NEW k \in 0..Len(L.pending), Fits(L, k)
  PROVE  Exact(AdmitPrefix(L, k)) /\ Admits(AdmitPrefix(L, k), L)
<1>1. Core(L) /\ Laid(L) /\ Weighed(L) /\ LedgerType(L) /\ Queues(L) /\ Health(L)
  BY DEF Exact, Core
<1>2. PICK A : A = AdmitPrefix(L, k)
  OBVIOUS
<1>3. Core(A)
  BY <1>1, <1>2, AdmitPrefixCore
<1>4. PICK a \in Nat, p \in Nat, h \in Nat, x \in Nat, y \in Nat :
        /\ a = Accepted(L) /\ p = L.persisted /\ h = L.admittedHigh
        /\ x = Len(L.admitted) /\ y = Len(L.pending)
  BY <1>1, CoreNumbers
<1>5. p <= h /\ h <= a /\ x = h - p /\ y = a - h /\ k \in Nat /\ k <= y
  BY <1>1, <1>4 DEF Queues, Health
<1>6. p + x = h /\ h + y = a /\ h + k <= a /\ p + (x + k) = h + k /\ (h + k) + (y - k) = a
      /\ p \in 0..a /\ h \in 0..a /\ h + k \in 0..a /\ a \in 0..a /\ y - k \in Nat
  BY <1>5
<1>7. L.pending \in Seq(Nat) /\ L.admitted \in Seq(Nat) /\ L.pendingBytes \in Int
      /\ L.queuedBytes \in Int
  BY <1>1 DEF LedgerType
<1>8. PICK rest : rest = SubSeq(L.pending, k + 1, Len(L.pending))
  OBVIOUS
<1>9. rest \in Seq(Nat) /\ Len(rest) = y - k
  <2>1. /\ SubSeq(L.pending, k + 1, Len(L.pending)) \in Seq(Nat)
        /\ Len(SubSeq(L.pending, k + 1, Len(L.pending))) = Len(L.pending) - k
    BY <1>7, CutProperties, Zenon
  <2> QED BY <1>4, <1>8, <2>1
<1>10. PICK pre : pre = SubSeq(L.pending, 1, k)
  OBVIOUS
<1>11. pre \in Seq(Nat) /\ Len(pre) = k
  <2>1. SubSeq(L.pending, 1, k) \in Seq(Nat) /\ Len(SubSeq(L.pending, 1, k)) = k
    BY <1>7, CutProperties, Zenon
  <2> QED BY <1>10, <2>1
<1>12. PICK adm : adm = L.admitted \o pre
  OBVIOUS
<1>13. adm \in Seq(Nat) /\ Len(adm) = x + k
  BY <1>4, <1>7, <1>11, <1>12, ConcatProperties
<1>14. PICK moved : moved = PrefixBytes(L, L.pending, k)
  OBVIOUS
<1>15. moved = End(L, h + k) - End(L, h)
  <2>1. \A i \in 1..Len(L.pending) : L.pending[i] = h + i
    BY <1>1, <1>4 DEF Queues
  <2> QED BY <1>1, <1>4, <1>6, <1>7, <1>14, <2>1, PrefixIsRange
<1>16. PICK high : high = IF k = 0 THEN L.admittedHigh ELSE L.pending[k]
  OBVIOUS
<1>17. high = h + k
  <2>1. CASE k = 0
    BY <1>4, <1>16, <2>1
  <2>2. CASE k # 0
    <3>1. k \in 1..Len(L.pending)
      BY <1>4, <1>5, <2>2
    <3> QED BY <1>1, <1>4, <1>16, <2>2, <3>1 DEF Queues
  <2> QED BY <2>1, <2>2
<1> DEFINE G(i) == IF IsIn(i, pre)
                   THEN [L.tickets[i] EXCEPT !.state = "ADMITTED", !.admission = "ok"]
                   ELSE L.tickets[i]
<1>18. PICK T : T = [i \in 1..Len(L.tickets) |-> G(i)]
  OBVIOUS
<1>19. ASSUME NEW i \in 1..Len(L.tickets)
       PROVE  /\ Kept(T[i], L.tickets[i])
              /\ T[i].state = "FAILED_UNPERSISTED" =>
                   L.tickets[i].state = "FAILED_UNPERSISTED"
  <2>1. L.tickets[i] \in Ticket
    BY <1>1 DEF LedgerType
  <2>2. T[i] = G(i)
    BY <1>18
  <2> QED BY <2>1, <2>2 DEF Ticket, Kept
<1>20. A = [L EXCEPT !.pending = rest, !.admitted = adm, !.pendingBytes = L.pendingBytes - moved,
                     !.queuedBytes = L.queuedBytes + moved, !.admittedHigh = high,
                     !.tickets = T, !.wakeup = @ \/ k > 0]
  BY <1>2, <1>8, <1>10, <1>12, <1>14, <1>16, <1>18 DEF AdmitPrefix
<1> HIDE DEF G
<1>21. /\ A.pending = rest /\ A.admitted = adm /\ A.pendingBytes = L.pendingBytes - moved
       /\ A.queuedBytes = L.queuedBytes + moved /\ A.admittedHigh = h + k
       /\ A.tickets = T /\ A.persisted = p
  BY <1>1, <1>4, <1>17, <1>20 DEF LedgerType, LedgerFields
<1>22. Accepted(A) = a
  <2>1. A.tickets \in Seq(Ticket) /\ DOMAIN A.tickets = 1..Len(L.tickets)
    BY <1>3, <1>18, <1>21 DEF Core, LedgerType
  <2> QED BY <1>4, <2>1 DEF Accepted
<1>23. SameTickets(A, L) /\ Spared(A, L)
  BY <1>4, <1>19, <1>21, <1>22 DEF SameTickets, Spared, Accepted
<1>24. Laid(A) /\ \A n \in 0..a : End(A, n) = End(L, n)
  BY <1>1, <1>4, <1>22, <1>23, LaidStable
<1>25. /\ End(L, p) \in Nat /\ End(L, h) \in Nat /\ End(L, h + k) \in Nat /\ End(L, a) \in Nat
  BY <1>1, <1>4, <1>6, EndIsNat
<1>26. /\ L.queuedBytes = End(L, h) - End(L, p) /\ L.pendingBytes = End(L, a) - End(L, h)
       /\ L.queuedBytes + L.pendingBytes <= MaxBytes /\ y <= MaxCapacity
  BY <1>1, <1>4, <1>6 DEF Weighed
<1>27. /\ A.queuedBytes = End(A, A.persisted + Len(A.admitted)) - End(A, A.persisted)
       /\ A.pendingBytes = End(A, A.admittedHigh + Len(A.pending)) - End(A, A.admittedHigh)
  <2>1. A.persisted + Len(A.admitted) = h + k /\ A.admittedHigh + Len(A.pending) = a
    BY <1>6, <1>9, <1>13, <1>21
  <2>2. End(A, h + k) = End(L, h + k) /\ End(A, p) = End(L, p) /\ End(A, a) = End(L, a)
    BY <1>6, <1>24
  <2>3. /\ A.queuedBytes = (End(L, h) - End(L, p)) + (End(L, h + k) - End(L, h))
        /\ A.pendingBytes = (End(L, a) - End(L, h)) - (End(L, h + k) - End(L, h))
    BY <1>15, <1>21, <1>26
  <2>4. A.queuedBytes = End(L, h + k) - End(L, p) /\ A.pendingBytes = End(L, a) - End(L, h + k)
    BY <1>25, <2>3, SMTT(30)
  <2> QED BY <1>21, <2>1, <2>2, <2>4
<1>28. A.queuedBytes + A.pendingBytes <= MaxBytes /\ Len(A.pending) <= MaxCapacity
  <2>1. moved \in Int
    BY <1>15, <1>25
  <2>2. A.queuedBytes + A.pendingBytes = L.queuedBytes + L.pendingBytes
    BY <1>7, <1>21, <2>1
  <2> QED BY <1>5, <1>9, <1>21, <1>26, <2>2, TopRung
<1>29. Exact(A)
  BY <1>3, <1>24, <1>27, <1>28 DEF Exact, Weighed
<1>30. Admits(A, L)
  BY <1>4, <1>5, <1>21, <1>22, <1>23 DEF Admits
<1> QED BY <1>2, <1>29, <1>30

LEMMA GrowExact ==
  ASSUME NEW L, Exact(L), CanGrow(L)
  PROVE  Exact(Grow(L)) /\ Admits(Grow(L), L)
<1>1. Core(L) /\ LedgerType(L)
  BY DEF Exact, Core
<1>2. SameQueues(Grow(L), L)
  BY <1>1 DEF Grow, SameQueues, LedgerType, LedgerFields
<1>3. Core(Grow(L))
  BY <1>1, GrowCore
<1> QED BY <1>2, <1>3, ExactStable

LEMMA AdmitFittingExact ==
  ASSUME NEW L, Exact(L), ~Failed(L)
  PROVE  Exact(AdmitFitting(L)) /\ Admits(AdmitFitting(L), L)
<1> DEFINE S == {k \in 0..Len(L.pending) : Fits(L, k)}
<1>1. Core(L)
  BY DEF Exact
<1>2. Fits(L, 0)
  BY <1>1, CoreNumbers DEF Core, Queues, Fits, PrefixBytes
<1>3. Len(L.pending) \in Nat /\ 0 \in S
  BY <1>1, <1>2, CoreNumbers
<1>4. Max(S) \in S
  BY <1>3, MaxOfBounded
<1>5. Max(S) \in 0..Len(L.pending) /\ Fits(L, Max(S))
  BY <1>4
<1> QED BY <1>5, AdmitPrefixExact DEF AdmitFitting

LEMMA AdmitAndGrowExact ==
  ASSUME NEW L, Exact(L), ~Failed(L)
  PROVE  /\ Exact(AdmitAndGrow(L)) /\ Admits(AdmitAndGrow(L), L)
         /\ ~Failed(AdmitAndGrow(L)) /\ AdmitAndGrow(L).cstate = L.cstate
<1>1. Core(L)
  BY DEF Exact
<1>2. PICK a : a = AdmitFitting(L)
  OBVIOUS
<1>3. Exact(a) /\ Admits(a, L) /\ ~Failed(a) /\ a.cstate = L.cstate /\ Core(a)
  BY <1>1, <1>2, AdmitFittingExact, AdmitFittingCore DEF SameRun, Exact
<1>4. CASE a.pending # <<>> /\ CanGrow(a)
  <2>1. PICK g : g = Grow(a)
    OBVIOUS
  <2>2. Exact(g) /\ Admits(g, a) /\ ~Failed(g) /\ g.cstate = L.cstate /\ Core(g)
    BY <1>3, <1>4, <2>1, GrowExact, GrowCore DEF SameRun
  <2>3. PICK f : f = AdmitFitting(g)
    OBVIOUS
  <2>4. Exact(f) /\ Admits(f, g) /\ ~Failed(f) /\ f.cstate = L.cstate /\ Core(f)
    BY <2>2, <2>3, AdmitFittingExact, AdmitFittingCore DEF SameRun, Exact
  <2>5. Admits(f, L)
    BY <1>1, <1>3, <2>2, <2>4, AdmitsTrans
  <2>6. AdmitAndGrow(L) = f
    BY <1>2, <1>4, <2>1, <2>3 DEF AdmitAndGrow
  <2> QED BY <2>4, <2>5, <2>6
<1>5. CASE ~(a.pending # <<>> /\ CanGrow(a))
  BY <1>2, <1>3, <1>5 DEF AdmitAndGrow
<1> QED BY <1>4, <1>5

LEMMA RearmTimerExact ==
  ASSUME NEW L, Exact(L)
  PROVE  Exact(RearmTimer(L)) /\ Admits(RearmTimer(L), L) /\ (Failed(RearmTimer(L)) <=> Failed(L))
<1>1. Core(L) /\ LedgerType(L)
  BY DEF Exact, Core
<1>2. SameQueues(RearmTimer(L), L) /\ RearmTimer(L).primary = L.primary
  BY <1>1 DEF RearmTimer, SameQueues, LedgerType, LedgerFields
<1>3. Core(RearmTimer(L))
  BY <1>1, RearmTimerCore
<1> QED BY <1>2, <1>3, ExactStable DEF Failed

\* The tickets that are not admitted are not late.
NotLate(L, t) ==
  \A i \in 1..Accepted(L) : L.admittedHigh < i => t < L.tickets[i].deadline

\* Nothing was admitted at or after its deadline.
OnTime(P, L, t) ==
  \A i \in 1..Accepted(L) :
    L.admittedHigh < i /\ i <= P.admittedHigh => t < L.tickets[i].deadline

\* The pump: its self-check changes nothing, what it admits is not late, and it
\* fails a live ledger only for a late head.
LEMMA PumpExact ==
  ASSUME NEW L, Exact(L), NEW t \in Nat
  PROVE  LET P == Pump(L, t) IN
         /\ Exact(P) /\ SameTickets(P, L) /\ Accepted(P) = Accepted(L) /\ OnTime(P, L, t)
         /\ L.cstate = "RUNNING" => Spared(P, L)
         /\ Live(L) /\ ~Failed(P) => NotLate(P, t)
         /\ Live(L) /\ NotLate(L, t) => ~Failed(P)
<1>1. Core(L) /\ Laid(L) /\ LedgerType(L) /\ Queues(L) /\ Health(L)
  BY DEF Exact, Core
<1>2. PICK a \in Nat, h \in Nat, y \in Nat :
        a = Accepted(L) /\ h = L.admittedHigh /\ y = Len(L.pending)
  BY <1>1, CoreNumbers
<1>3. PICK P : P = Pump(L, t)
  OBVIOUS
<1>4. CASE ~Live(L)
  <2>1. P = [L EXCEPT !.timer = 0]
    BY <1>3, <1>4 DEF Pump
  <2>2. SameQueues(P, L)
    BY <1>1, <2>1 DEF SameQueues, LedgerType, LedgerFields
  <2>3. Core(P)
    BY <1>1, <1>3, PumpCore
  <2>4. Exact(P) /\ Admits(P, L)
    BY <2>2, <2>3, ExactStable
  <2>5. OnTime(P, L, t)
    BY <1>2, <2>2 DEF OnTime, SameQueues
  <2> QED BY <1>3, <1>4, <2>4, <2>5 DEF Admits
<1>5. CASE Live(L) /\ L.pending # <<>> /\ t >= L.tickets[L.pending[1]].deadline
  <2>1. P = Poison(L, PRODUCER_TIMEOUT, L.pending[1], L.pending[1], FALSE)
    BY <1>3, <1>5 DEF Pump
  <2>2. y # 0
    BY <1>1, <1>2, <1>5, EmptySeq DEF LedgerType
  <2>3. 1 \in 1..y
    BY <2>2
  <2>4. L.pending[1] = h + 1 /\ h + 1 \in Nat \ {0} /\ PRODUCER_TIMEOUT \in FailureCodes
    BY <1>1, <1>2, <2>3 DEF Queues, FailureCodes
  <2>a. PICK s \in Nat \ {0}, code \in FailureCodes, impossible \in BOOLEAN :
          s = L.pending[1] /\ code = PRODUCER_TIMEOUT /\ impossible = FALSE
    BY <2>4
  <2>b. s \in Nat /\ P = Poison(L, code, s, s, impossible)
    BY <2>1, <2>a
  <2>5. /\ Exact(P) /\ SameTickets(P, L) /\ P.admittedHigh = L.admittedHigh
        /\ L.cstate = "RUNNING" => Spared(P, L)
    BY <2>a, <2>b, PoisonExact
  <2>6. Failed(P) /\ Accepted(P) = Accepted(L)
    BY <1>1, <2>b, PoisonCore
  <2>7. OnTime(P, L, t)
    BY <1>2, <2>5 DEF OnTime
  <2>8. ~NotLate(L, t)
    <3>1. h + 1 \in 1..a
      BY <1>1, <1>2, <2>2 DEF Queues
    <3>2. L.tickets[h + 1] \in Ticket
      BY <1>1, <1>2, <3>1, QueuedTickets
    <3>3. L.tickets[h + 1].deadline \in Nat /\ t >= L.tickets[h + 1].deadline
      BY <1>5, <2>4, <3>2 DEF Ticket
    <3>4. ~(t < L.tickets[h + 1].deadline) /\ h < h + 1
      BY <3>3
    <3> QED BY <1>2, <3>1, <3>4 DEF NotLate
  <2> QED BY <1>3, <2>5, <2>6, <2>7, <2>8
<1>6. CASE Live(L) /\ ~(L.pending # <<>> /\ t >= L.tickets[L.pending[1]].deadline)
  <2>1. PICK g : g = AdmitAndGrow(L)
    OBVIOUS
  <2>2. ~Failed(L)
    BY <1>1, <1>6, LiveIsHealthy
  <2>3. Exact(g) /\ Admits(g, L) /\ ~Failed(g) /\ Core(g)
    BY <2>1, <2>2, AdmitAndGrowExact DEF Exact
  <2>4. PICK q : q = RearmTimer(g)
    OBVIOUS
  <2>5. Exact(q) /\ Admits(q, g) /\ ~Failed(q) /\ Core(q)
    BY <2>3, <2>4, RearmTimerExact DEF Exact
  <2>6. P = Verified(q, LowestUnpersisted(q))
    BY <1>3, <1>6, <2>1, <2>4 DEF Pump
  <2>7. P = q
    BY <2>5, <2>6, SelfCheck
  <2>8. Admits(P, L)
    BY <1>1, <2>3, <2>5, <2>7, AdmitsTrans
  <2>9. NotLate(L, t)
    <3>1. y = a - h
      BY <1>1, <1>2, <2>2 DEF Health
    <3>2. ASSUME NEW i \in 1..a, h < i
          PROVE  t < L.tickets[i].deadline
      <4>1. y # 0 /\ h + 1 \in 1..a /\ h + 1 <= i /\ 1 \in 1..y
        BY <3>1, <3>2
      <4>2. L.pending # <<>> /\ L.pending[1] = h + 1
        BY <1>1, <1>2, <4>1, NoNumbers DEF Queues
      <4>3. L.tickets[h + 1] \in Ticket /\ L.tickets[i] \in Ticket
        BY <1>1, <1>2, <4>1, QueuedTickets
      <4>4. L.tickets[h + 1].deadline \in Nat /\ L.tickets[i].deadline \in Nat
        BY <4>3 DEF Ticket
      <4>5. L.tickets[h + 1].deadline <= L.tickets[i].deadline
        BY <1>1, <1>2, <4>1 DEF Laid
      <4>6. ~(t >= L.tickets[h + 1].deadline)
        BY <1>6, <4>2
      <4> QED BY <4>4, <4>5, <4>6
    <3> QED BY <1>2, <3>2 DEF NotLate
  <2>10. NotLate(P, t)
    <3>1. PICK z \in Nat : z = P.admittedHigh /\ h <= z
      BY <1>2, <2>5, <2>7, <2>8, CoreNumbers DEF Admits
    <3>2. ASSUME NEW i \in 1..a, z < i PROVE t < P.tickets[i].deadline
      <4>1. h < i
        BY <3>1, <3>2
      <4>2. t < L.tickets[i].deadline
        BY <1>2, <2>9, <4>1 DEF NotLate
      <4>3. P.tickets[i].deadline = L.tickets[i].deadline
        BY <1>2, <2>8 DEF Admits, SameTickets, Kept
      <4> QED BY <4>2, <4>3
    <3> QED BY <1>2, <2>8, <3>1, <3>2 DEF NotLate, Admits
  <2>11. OnTime(P, L, t)
    BY <2>9 DEF NotLate, OnTime
  <2> QED BY <1>3, <2>5, <2>7, <2>8, <2>10, <2>11 DEF Admits
<1> QED BY <1>4, <1>5, <1>6

\* No deadline lies further away than the producer timeout.
Timely(L, t) == \A i \in 1..Accepted(L) : L.tickets[i].deadline <= t + ProducerTimeout

\* What every method of the ledger guarantees at time t.
Sound(P, L, t) ==
  /\ Exact(P) /\ SameTickets(P, L) /\ OnTime(P, L, t)
  /\ Timely(L, t) => Timely(P, t)

LEMMA SoundTrans ==
  ASSUME NEW P, NEW Q, NEW L, NEW t, Exact(L), Sound(P, Q, t), Sound(Q, L, t)
  PROVE  Sound(P, L, t) /\ (Spared(P, Q) /\ Spared(Q, L) => Spared(P, L))
<1>1. Core(P) /\ Core(Q) /\ Core(L)
  BY DEF Sound, Exact
<1>2. PICK a \in Nat, b \in Nat, c \in Nat, x \in Nat, y \in Nat, z \in Nat :
        /\ a = Accepted(L) /\ b = Accepted(Q) /\ c = Accepted(P)
        /\ x = L.admittedHigh /\ y = Q.admittedHigh /\ z = P.admittedHigh
  BY <1>1, CoreNumbers
<1>3. a <= b /\ b <= c
  BY <1>2 DEF Sound, SameTickets
<1>4. ASSUME NEW i \in 1..a
      PROVE  i \in 1..b /\ Kept(Q.tickets[i], L.tickets[i]) /\ Kept(P.tickets[i], Q.tickets[i])
  <2>1. i \in 1..b
    BY <1>3
  <2> QED BY <1>2, <2>1 DEF Sound, SameTickets
<1>5. SameTickets(P, L)
  <2>1. \A i \in 1..a : Kept(P.tickets[i], L.tickets[i])
    BY <1>4 DEF Kept
  <2> QED BY <1>2, <1>3, <2>1 DEF SameTickets
<1>6. OnTime(P, L, t)
  <2>1. ASSUME NEW i \in 1..a, x < i, i <= z
        PROVE  t < L.tickets[i].deadline
    <3>1. CASE i <= y
      BY <1>2, <2>1, <3>1 DEF Sound, OnTime
    <3>2. CASE ~(i <= y)
      <4>1. y < i /\ i \in 1..b
        BY <1>4, <3>2
      <4>2. t < Q.tickets[i].deadline
        BY <1>2, <2>1, <4>1 DEF Sound, OnTime
      <4> QED BY <1>4, <4>2 DEF Kept
    <3> QED BY <3>1, <3>2
  <2> QED BY <1>2, <2>1 DEF OnTime
<1>7. Spared(P, Q) /\ Spared(Q, L) => Spared(P, L)
  BY <1>2, <1>4 DEF Spared
<1> QED BY <1>5, <1>6, <1>7 DEF Sound

\* A method that neither accepts nor admits.
LEMMA SoundWhenLevel ==
  ASSUME NEW P, NEW L, NEW t, Exact(L), Exact(P), SameTickets(P, L),
         Accepted(P) = Accepted(L), P.admittedHigh = L.admittedHigh
  PROVE  Sound(P, L, t)
<1>1. PICK a \in Nat, h \in Nat : a = Accepted(L) /\ h = L.admittedHigh
  BY CoreNumbers DEF Exact
<1>2. OnTime(P, L, t)
  BY <1>1 DEF OnTime
<1>3. Timely(L, t) => Timely(P, t)
  BY DEF Timely, SameTickets, Kept
<1> QED BY <1>2, <1>3 DEF Sound

LEMMA StableSound ==
  ASSUME NEW M, NEW L, NEW t, Exact(L), Core(M), SameQueues(M, L)
  PROVE  Sound(M, L, t) /\ Accepted(M) = Accepted(L) /\ Spared(M, L)
<1>1. Exact(M) /\ Admits(M, L)
  BY ExactStable
<1>2. M.admittedHigh = L.admittedHigh
  BY DEF SameQueues
<1> QED BY <1>1, <1>2, SoundWhenLevel DEF Admits

LEMMA PoisonSound ==
  ASSUME NEW L, Exact(L), NEW code \in FailureCodes, NEW ordinal \in Nat \ {0},
         NEW victim \in Nat, NEW impossible \in BOOLEAN, NEW t
  PROVE  LET P == Poison(L, code, ordinal, victim, impossible) IN
         /\ Sound(P, L, t) /\ Accepted(P) = Accepted(L) /\ SameRun(P, L) /\ Failed(P)
         /\ ~impossible /\ L.cstate = "RUNNING" => Spared(P, L)
<1>1. PICK P : P = Poison(L, code, ordinal, victim, impossible)
  OBVIOUS
<1>2. /\ Exact(P) /\ SameTickets(P, L) /\ P.admittedHigh = L.admittedHigh
      /\ ~impossible /\ L.cstate = "RUNNING" => Spared(P, L)
  BY <1>1, PoisonExact
<1>3. Core(L)
  BY DEF Exact
<1>4. SameRun(P, L) /\ Failed(P) /\ Accepted(P) = Accepted(L)
  BY <1>1, <1>3, PoisonSameRun DEF SameRun
<1>5. Sound(P, L, t)
  BY <1>2, <1>4, SoundWhenLevel
<1> QED BY <1>1, <1>2, <1>4, <1>5

LEMMA PumpSound ==
  ASSUME NEW L, Exact(L), NEW t \in Nat
  PROVE  LET P == Pump(L, t) IN
         /\ Sound(P, L, t) /\ Accepted(P) = Accepted(L) /\ SameRun(P, L)
         /\ L.cstate = "RUNNING" => Spared(P, L)
         /\ Live(L) /\ ~Failed(P) => NotLate(P, t)
         /\ Live(L) /\ NotLate(L, t) => ~Failed(P)
<1>1. PICK P : P = Pump(L, t)
  OBVIOUS
<1>2. /\ Exact(P) /\ SameTickets(P, L) /\ Accepted(P) = Accepted(L) /\ OnTime(P, L, t)
      /\ L.cstate = "RUNNING" => Spared(P, L)
      /\ Live(L) /\ ~Failed(P) => NotLate(P, t)
      /\ Live(L) /\ NotLate(L, t) => ~Failed(P)
  BY <1>1, PumpExact
<1>3. SameRun(P, L)
  BY <1>1, PumpCore DEF Exact
<1>4. Timely(L, t) => Timely(P, t)
  BY <1>2 DEF Timely, SameTickets, Kept
<1> QED BY <1>1, <1>2, <1>3, <1>4 DEF Sound

\* An event within the bounds is accepted behind the others.
LEMMA AcceptExact ==
  ASSUME NEW L, Exact(L), ~Failed(L), NEW n \in Nat \ {0}, NEW deadline \in Nat,
         Len(L.pending) < MaxCapacity, L.pendingBytes + L.queuedBytes + n <= MaxBytes,
         \A i \in 1..Accepted(L) : L.tickets[i].deadline <= deadline
  PROVE  LET A == Accept(L, n, deadline) IN
         /\ Exact(A) /\ SameTickets(A, L) /\ Spared(A, L) /\ A.admittedHigh = L.admittedHigh
         /\ Accepted(A) = Accepted(L) + 1 /\ ~Failed(A) /\ SameTask(A, L)
         /\ A.wstate = L.wstate
         /\ A.tickets[Accepted(L) + 1].deadline = deadline
<1>1. Core(L) /\ Laid(L) /\ Weighed(L) /\ LedgerType(L) /\ Queues(L) /\ Health(L)
  BY DEF Exact, Core
<1>2. PICK A : A = Accept(L, n, deadline)
  OBVIOUS
<1>3. Core(A) /\ ~Failed(A) /\ Accepted(A) = Accepted(L) + 1 /\ SameTask(A, L)
  BY <1>1, <1>2, AcceptCore
<1>4. PICK a \in Nat, p \in Nat, h \in Nat, x \in Nat, y \in Nat :
        /\ a = Accepted(L) /\ p = L.persisted /\ h = L.admittedHigh
        /\ x = Len(L.admitted) /\ y = Len(L.pending)
  BY <1>1, CoreNumbers
<1>5. p <= h /\ h <= a /\ x = h - p /\ y = a - h
  BY <1>1, <1>4 DEF Queues, Health
<1>6. p + x = h /\ h + y = a /\ h + (y + 1) = a + 1 /\ (a + 1) - 1 = a /\ a \in 0..a
      /\ p \in 0..a /\ h \in 0..a /\ a + 1 # 0 /\ (a + 1 = 1 <=> a = 0)
  BY <1>5
<1>7. L.tickets \in Seq(Ticket) /\ L.pending \in Seq(Nat) /\ L.pendingBytes \in Int
      /\ L.queuedBytes \in Int /\ Len(L.tickets) = a
  BY <1>1, <1>4 DEF LedgerType, Accepted
<1>8. PICK end : end = n + (IF a + 1 = 1 THEN 0 ELSE L.tickets[(a + 1) - 1].end)
  OBVIOUS
<1>9. end = n + End(L, a) /\ End(L, a) \in Nat
  BY <1>1, <1>4, <1>6, <1>8, EndIsNat DEF End
<1>10. PICK new : new = [nbytes |-> n, deadline |-> deadline, state |-> "PENDING", end |-> end,
                         admission |-> "none", persistence |-> "none"]
  OBVIOUS
<1>11. /\ new \in Ticket /\ new.nbytes = n /\ new.end = end /\ new.deadline = deadline
       /\ new.state = "PENDING"
  <2>1. end \in Nat
    BY <1>9
  <2> QED BY <1>10, <2>1 DEF Ticket, TicketStates, Outcomes
<1>12. PICK T : T = Append(L.tickets, new)
  OBVIOUS
<1>13. /\ T \in Seq(Ticket) /\ \A i \in 1..a : T[i] = L.tickets[i]
       /\ T[a + 1] = new
  BY <1>7, <1>11, <1>12, AppendProperties
<1>14. PICK q : q = Append(L.pending, a + 1)
  OBVIOUS
<1>15. q \in Seq(Nat) /\ Len(q) = y + 1
  <2>1. a + 1 \in Nat
    OBVIOUS
  <2> QED BY <1>4, <1>7, <1>14, <2>1, AppendProperties
<1>16. A = [L EXCEPT !.tickets = T, !.pending = q, !.pendingBytes = @ + n,
                     !.pendingEmpty = FALSE]
  BY <1>2, <1>4, <1>8, <1>10, <1>12, <1>14 DEF Accept
<1>17. /\ A.tickets = T /\ A.pending = q /\ A.pendingBytes = L.pendingBytes + n
       /\ A.admitted = L.admitted /\ A.queuedBytes = L.queuedBytes
       /\ A.persisted = L.persisted /\ A.admittedHigh = L.admittedHigh /\ A.wstate = L.wstate
  BY <1>1, <1>16 DEF LedgerType, LedgerFields
<1>18. SameTickets(A, L) /\ Spared(A, L)
  BY <1>3, <1>4, <1>13, <1>17, SMTT(30) DEF SameTickets, Spared, Kept
<1>19. \A i \in 0..a : End(A, i) = End(L, i)
  <2>1. ASSUME NEW i \in 0..a PROVE End(A, i) = End(L, i)
    <3>1. i = 0 \/ i \in 1..a
      OBVIOUS
    <3> QED BY <1>13, <1>17, <3>1 DEF End
  <2> QED BY <2>1
<1>20. End(A, a + 1) = End(L, a) + n
  BY <1>6, <1>9, <1>11, <1>13, <1>17 DEF End
<1>21. Laid(A)
  <2>1. ASSUME NEW i \in 1..a + 1
        PROVE  A.tickets[i].end = End(A, i - 1) + A.tickets[i].nbytes
    <3>1. CASE i \in 1..a
      <4>1. i - 1 \in 0..a
        BY <3>1
      <4>2. L.tickets[i].end = End(L, i - 1) + L.tickets[i].nbytes
        BY <1>1, <1>4, <3>1 DEF Laid
      <4> QED BY <1>13, <1>17, <1>19, <3>1, <4>1, <4>2
    <3>2. CASE i = a + 1
      BY <1>6, <1>9, <1>11, <1>13, <1>17, <1>19, <3>2
    <3> QED BY <3>1, <3>2
  <2>2. ASSUME NEW i \in 0..a + 1, NEW j \in 0..a + 1, i <= j
        PROVE  End(A, i) <= End(A, j)
    <3>1. CASE j \in 0..a
      <4>1. i \in 0..a
        BY <2>2, <3>1
      <4> QED BY <1>1, <1>4, <1>19, <2>2, <3>1, <4>1 DEF Laid
    <3>2. CASE j = a + 1 /\ i \in 0..a
      <4>1. End(L, i) \in Nat /\ End(L, i) <= End(L, a)
        BY <1>1, <1>4, <1>6, <3>2, EndIsNat DEF Laid
      <4> QED BY <1>9, <1>19, <1>20, <3>2, <4>1
    <3>3. CASE j = a + 1 /\ i = a + 1
      BY <1>9, <1>20, <3>3
    <3> QED BY <3>1, <3>2, <3>3
  <2>3. ASSUME NEW i \in 1..a + 1, NEW j \in 1..a + 1, i <= j
        PROVE  A.tickets[i].deadline <= A.tickets[j].deadline
    <3>1. CASE j \in 1..a
      <4>1. i \in 1..a
        BY <2>3, <3>1
      <4> QED BY <1>1, <1>4, <1>13, <1>17, <2>3, <3>1, <4>1 DEF Laid
    <3>2. CASE j = a + 1 /\ i \in 1..a
      BY <1>4, <1>11, <1>13, <1>17, <3>2
    <3>3. CASE j = a + 1 /\ i = a + 1
      BY <1>11, <1>13, <1>17, <3>3
    <3> QED BY <3>1, <3>2, <3>3
  <2> QED BY <1>3, <1>4, <2>1, <2>2, <2>3 DEF Laid
<1>22. Weighed(A)
  <2>1. L.queuedBytes = End(L, h) - End(L, p) /\ L.pendingBytes = End(L, a) - End(L, h)
    BY <1>1, <1>4, <1>6 DEF Weighed
  <2>2. End(L, h) \in Nat
    BY <1>1, <1>4, <1>6, EndIsNat
  <2>3. End(A, h) = End(L, h) /\ End(A, p) = End(L, p)
    BY <1>6, <1>19
  <2>4. A.persisted + Len(A.admitted) = h /\ A.admittedHigh + Len(A.pending) = a + 1
    BY <1>4, <1>6, <1>15, <1>17
  <2>5. A.queuedBytes = End(A, h) - End(A, p)
    BY <1>17, <2>1, <2>3
  <2>6. A.pendingBytes = End(A, a + 1) - End(A, h)
    BY <1>9, <1>17, <1>20, <2>1, <2>2, <2>3
  <2>7. A.queuedBytes + A.pendingBytes <= MaxBytes
    BY <1>7, <1>17
  <2>8. Len(A.pending) <= MaxCapacity
    BY <1>4, <1>15, <1>17, TopRung
  <2> QED BY <1>4, <1>17, <2>4, <2>5, <2>6, <2>7, <2>8 DEF Weighed
<1>23. A.tickets[Accepted(L) + 1].deadline = deadline
  BY <1>4, <1>11, <1>13, <1>17
<1> QED BY <1>2, <1>3, <1>17, <1>18, <1>21, <1>22, <1>23 DEF Exact

LEMMA CommitSound ==
  ASSUME NEW L, Exact(L), Open(L), NEW n \in Nat \ {0}, NEW t \in Nat,
         NotLate(L, t), Timely(L, t)
  PROVE  LET P == Commit(L, n, t) IN
         /\ Sound(P, L, t)
         /\ L.cstate = "RUNNING" => Spared(P, L)
         /\ \/ Accepted(P) = Accepted(L)
            \/ Accepted(P) = Accepted(L) + 1 /\ ~Failed(P)
<1>1. PICK s \in Nat \ {0}, no \in BOOLEAN, deadline \in Nat :
        s = Accepted(L) + 1 /\ no = FALSE /\ deadline = t + ProducerTimeout
  <2>1. Accepted(L) \in Nat /\ ProducerTimeout \in Nat
    BY CoreNumbers, LimitAssumption DEF Exact
  <2>2. Accepted(L) + 1 \in Nat \ {0} /\ t + ProducerTimeout \in Nat /\ FALSE \in BOOLEAN
    BY <2>1
  <2> QED BY <2>2
<1>2. ~Failed(L) /\ Live(L)
  BY DEF Open, Live
<1>3. ASSUME NEW code \in FailureCodes
      PROVE  LET P == Poison(L, code, s, 0, FALSE) IN
             Sound(P, L, t) /\ Accepted(P) = Accepted(L)
             /\ (L.cstate = "RUNNING" => Spared(P, L))
  <2>1. PICK P : P = Poison(L, code, s, 0, no)
    OBVIOUS
  <2>2. Sound(P, L, t) /\ Accepted(P) = Accepted(L) /\ (~no /\ L.cstate = "RUNNING" => Spared(P, L))
    BY <2>1, PoisonSound
  <2> QED BY <1>1, <2>1, <2>2
<1>4. MAX_EVENTS \in FailureCodes /\ SATURATED_COUNT \in FailureCodes
      /\ SATURATED_BYTES \in FailureCodes
  BY DEF FailureCodes
<1>5. CASE Commit(L, n, t) \in {Poison(L, MAX_EVENTS, s, 0, FALSE),
                                Poison(L, SATURATED_COUNT, s, 0, FALSE),
                                Poison(L, SATURATED_BYTES, s, 0, FALSE)}
  <2>1. PICK code \in FailureCodes : Commit(L, n, t) = Poison(L, code, s, 0, FALSE)
    BY <1>4, <1>5
  <2>2. LET P == Poison(L, code, s, 0, FALSE) IN
        Sound(P, L, t) /\ Accepted(P) = Accepted(L) /\ (L.cstate = "RUNNING" => Spared(P, L))
    BY <1>3
  <2> QED BY <2>1, <2>2
<1>6. CASE ~(Commit(L, n, t) \in {Poison(L, MAX_EVENTS, s, 0, FALSE),
                                  Poison(L, SATURATED_COUNT, s, 0, FALSE),
                                  Poison(L, SATURATED_BYTES, s, 0, FALSE)})
  <2>1. PICK A : A = Accept(L, n, deadline)
    OBVIOUS
  <2>2. /\ ~(Len(L.pending) >= MaxCapacity)
        /\ ~(L.pendingBytes + L.queuedBytes + n > MaxBytes)
        /\ Commit(L, n, t) = IF Verified(A, s) = A THEN Pump(Verified(A, s), t)
                             ELSE Verified(A, s)
    BY <1>1, <1>6, <2>1 DEF Commit
  <2>3. Len(L.pending) < MaxCapacity /\ L.pendingBytes + L.queuedBytes + n <= MaxBytes
    BY <2>2, CoreNumbers, TopRung DEF Exact
  <2>4. \A i \in 1..Accepted(L) : L.tickets[i].deadline <= deadline
    BY <1>1 DEF Timely
  <2>5. /\ Exact(A) /\ SameTickets(A, L) /\ Spared(A, L) /\ A.admittedHigh = L.admittedHigh
        /\ Accepted(A) = s /\ ~Failed(A) /\ SameTask(A, L) /\ A.wstate = L.wstate
        /\ A.tickets[s].deadline = deadline
    BY <1>1, <1>2, <2>1, <2>3, <2>4, AcceptExact
  <2>6. Verified(A, s) = A
    BY <2>5, SelfCheck
  <2>7. PICK P : P = Pump(A, t)
    OBVIOUS
  <2>8. Commit(L, n, t) = P
    BY <2>2, <2>6, <2>7
  <2>9. PICK a \in Nat, h \in Nat : a = Accepted(L) /\ h = L.admittedHigh
    BY CoreNumbers DEF Exact
  <2>10. ASSUME NEW i \in 1..s
         PROVE  i = s \/ (i \in 1..a /\ Kept(A.tickets[i], L.tickets[i]))
    <3>1. i = s \/ i \in 1..a
      BY <1>1, <2>9
    <3> QED BY <2>5, <2>9, <3>1 DEF SameTickets
  <2>11. Timely(A, t)
    <3>1. deadline <= t + ProducerTimeout
      BY <1>1
    <3>2. \A i \in 1..a : L.tickets[i].deadline <= t + ProducerTimeout
      BY <2>9 DEF Timely
    <3> QED BY <2>5, <2>10, <3>1, <3>2 DEF Timely, Kept
  <2>12. NotLate(A, t)
    <3>1. t < deadline
      BY <1>1, LimitAssumption
    <3>2. \A i \in 1..a : h < i => t < L.tickets[i].deadline
      BY <2>9 DEF NotLate
    <3> QED BY <2>5, <2>9, <2>10, <3>1, <3>2 DEF NotLate, Kept
  <2>13. OnTime(A, L, t)
    BY <2>5, <2>9 DEF OnTime
  <2>14. Sound(A, L, t)
    BY <2>5, <2>11, <2>13 DEF Sound
  <2>15. Live(A)
    BY <1>2, <2>5 DEF Live
  <2>16. /\ Sound(P, A, t) /\ Accepted(P) = Accepted(A) /\ ~Failed(P)
         /\ A.cstate = "RUNNING" => Spared(P, A)
    BY <2>5, <2>7, <2>12, <2>15, PumpSound
  <2>17. Sound(P, L, t) /\ (Spared(P, A) /\ Spared(A, L) => Spared(P, L))
    BY <2>14, <2>16, SoundTrans
  <2>18. A.cstate = L.cstate
    BY <2>5 DEF SameTask
  <2> QED BY <1>1, <2>5, <2>8, <2>16, <2>17, <2>18
<1> QED BY <1>5, <1>6

LEMMA SubmittedSound ==
  ASSUME NEW L, Exact(L), Open(L), NEW n \in EventBytes, NEW t \in Nat, Timely(L, t)
  PROVE  LET P == Submitted(L, n, t) IN
         /\ Sound(P, L, t)
         /\ L.cstate = "RUNNING" => Spared(P, L)
         /\ \/ Accepted(P) = Accepted(L)
            \/ Accepted(P) = Accepted(L) + 1 /\ ~Failed(P)
<1>1. PICK p : p = Pump(L, t)
  OBVIOUS
<1>2. Live(L)
  BY DEF Open, Live
<1>3. /\ Sound(p, L, t) /\ Accepted(p) = Accepted(L) /\ SameRun(p, L)
      /\ L.cstate = "RUNNING" => Spared(p, L)
      /\ ~Failed(p) => NotLate(p, t)
  BY <1>1, <1>2, PumpSound
<1>4. Submitted(L, n, t) = IF Open(p) THEN Commit(p, PreparedBytes(n), t) ELSE p
  BY <1>1 DEF Submitted
<1>5. CASE ~Open(p)
  BY <1>3, <1>4, <1>5
<1>6. CASE Open(p)
  <2>1. PICK m \in Nat \ {0} : m = PreparedBytes(n)
    BY PreparedIsPositive
  <2>2. Exact(p) /\ Timely(p, t) /\ NotLate(p, t)
    BY <1>3, <1>6 DEF Sound, Open
  <2>3. PICK P : P = Commit(p, m, t)
    OBVIOUS
  <2>4. /\ Sound(P, p, t)
        /\ p.cstate = "RUNNING" => Spared(P, p)
        /\ \/ Accepted(P) = Accepted(p)
           \/ Accepted(P) = Accepted(p) + 1 /\ ~Failed(P)
    BY <1>6, <2>2, <2>3, CommitSound
  <2>5. Sound(P, L, t) /\ (Spared(P, p) /\ Spared(p, L) => Spared(P, L))
    BY <1>3, <2>4, SoundTrans
  <2>6. p.cstate = L.cstate /\ Submitted(L, n, t) = P
    BY <1>3, <1>4, <1>6, <2>1, <2>3 DEF SameRun
  <2> QED BY <1>3, <2>4, <2>5, <2>6
<1> QED BY <1>5, <1>6

\* The acknowledged head takes its bytes out of the admitted queue.
LEMMA AcknowledgeExact ==
  ASSUME NEW L, Exact(L), NEW s, L.admitted # <<>>, s = L.persisted + 1
  PROVE  LET A == Acknowledge(L, s) IN
         /\ Exact(A) /\ SameTickets(A, L) /\ Spared(A, L) /\ A.admittedHigh = L.admittedHigh
         /\ Accepted(A) = Accepted(L) /\ A.cstate = L.cstate
<1>1. Core(L) /\ Laid(L) /\ Weighed(L) /\ LedgerType(L) /\ Queues(L)
  BY DEF Exact, Core
<1>2. PICK A : A = Acknowledge(L, s)
  OBVIOUS
<1>3. Core(A) /\ A.persisted = s /\ A.cstate = L.cstate
  BY <1>1, <1>2, AcknowledgeCore
<1>4. PICK a \in Nat, p \in Nat, h \in Nat, x \in Nat, y \in Nat :
        /\ a = Accepted(L) /\ p = L.persisted /\ h = L.admittedHigh
        /\ x = Len(L.admitted) /\ y = Len(L.pending)
  BY <1>1, CoreNumbers
<1>5. L.tickets \in Seq(Ticket) /\ L.admitted \in Seq(Nat) /\ Len(L.tickets) = a
      /\ L.queuedBytes \in Int /\ L.pendingBytes \in Int
  BY <1>1, <1>4 DEF LedgerType, Accepted
<1>6. x # 0
  BY <1>4, <1>5, EmptySeq
<1>7. p <= h /\ h <= a /\ x = h - p /\ y \in {0, a - h}
  BY <1>1, <1>4, <1>6 DEF Queues
<1>8. s = p + 1 /\ s \in 1..a /\ s \in 0..a /\ s - 1 = p /\ p \in 0..a /\ h \in 0..a /\ p + x = h
      /\ s + (x - 1) = h /\ h + y \in 0..a
  <2>1. s = p + 1
    BY <1>4
  <2> QED BY <1>6, <1>7, <2>1
<1>9. L.tickets[s] \in Ticket
  BY <1>5, <1>8, ElementOfSeq
<1>10. PICK size \in Nat : size = L.tickets[s].nbytes
  BY <1>9 DEF Ticket
<1>11. PICK new : new = [L.tickets[s] EXCEPT !.state = "PERSISTED", !.persistence = "ok"]
  OBVIOUS
<1>12. new \in Ticket /\ Kept(new, L.tickets[s]) /\ new.state = "PERSISTED"
  BY <1>9, <1>11 DEF Ticket, TicketStates, Outcomes, Kept
<1>13. PICK T : T = [L.tickets EXCEPT ![s] = new]
  OBVIOUS
<1>14. T[s] = new /\ \A i \in 1..a : i # s => T[i] = L.tickets[i]
  BY <1>5, <1>8, <1>13
<1>15. PICK adm : adm = Tail(L.admitted)
  OBVIOUS
<1>16. adm \in Seq(Nat) /\ Len(adm) = x - 1
  BY <1>4, <1>5, <1>15, HeadTailProperties
<1>17. A = [L EXCEPT !.admitted = adm, !.queuedBytes = @ - size, !.persisted = s,
                     !.tickets = T, !.inFlight = 0]
  BY <1>2, <1>10, <1>11, <1>13, <1>15 DEF Acknowledge
<1>18. /\ A.admitted = adm /\ A.queuedBytes = L.queuedBytes - size /\ A.tickets = T
       /\ A.pending = L.pending /\ A.pendingBytes = L.pendingBytes
       /\ A.admittedHigh = L.admittedHigh
  BY <1>1, <1>17 DEF LedgerType, LedgerFields
<1>19. Accepted(A) = a
  <2>1. A.tickets \in Seq(Ticket) /\ DOMAIN A.tickets = DOMAIN L.tickets
    BY <1>3, <1>13, <1>18 DEF Core, LedgerType
  <2> QED BY <1>5, <2>1 DEF Accepted
<1>20. ASSUME NEW i \in 1..a
       PROVE  /\ Kept(T[i], L.tickets[i])
              /\ T[i].state = "FAILED_UNPERSISTED" =>
                   L.tickets[i].state = "FAILED_UNPERSISTED"
  <2>1. CASE i = s
    BY <1>12, <1>14, <2>1
  <2>2. CASE i # s
    BY <1>14, <2>2 DEF Kept
  <2> QED BY <2>1, <2>2
<1>21. SameTickets(A, L) /\ Spared(A, L)
  BY <1>4, <1>18, <1>19, <1>20 DEF SameTickets, Spared
<1>22. Laid(A) /\ \A n \in 0..a : End(A, n) = End(L, n)
  BY <1>1, <1>4, <1>19, <1>21, LaidStable
<1>23. End(L, s) = End(L, p) + size /\ End(L, p) \in Nat /\ End(L, h) \in Nat
       /\ End(L, s) \in Nat
  <2>1. L.tickets[s].end = End(L, s - 1) + L.tickets[s].nbytes
    BY <1>1, <1>4, <1>8 DEF Laid
  <2>2. End(L, s) = L.tickets[s].end
    BY <1>8 DEF End
  <2>3. End(L, p) \in Nat /\ End(L, h) \in Nat /\ End(L, s) \in Nat
    BY <1>1, <1>4, <1>8, EndIsNat
  <2> QED BY <1>8, <1>10, <2>1, <2>2, <2>3
<1>24. Weighed(A)
  <2>1. L.queuedBytes = End(L, h) - End(L, p) /\ L.pendingBytes = End(L, h + y) - End(L, h)
        /\ L.queuedBytes + L.pendingBytes <= MaxBytes /\ Len(L.pending) <= MaxCapacity
    BY <1>1, <1>4, <1>8 DEF Weighed
  <2>2. A.queuedBytes = End(L, h) - End(L, s)
    BY <1>18, <1>23, <2>1
  <2>3. A.persisted + Len(A.admitted) = h /\ A.admittedHigh + Len(A.pending) = h + y
    BY <1>3, <1>4, <1>8, <1>16, <1>18
  <2>4. End(A, h) = End(L, h) /\ End(A, s) = End(L, s) /\ End(A, h + y) = End(L, h + y)
    BY <1>8, <1>22
  <2>5. A.queuedBytes + A.pendingBytes <= MaxBytes
    <3>1. A.queuedBytes \in Int /\ A.queuedBytes <= L.queuedBytes
      BY <1>5, <1>10, <1>18
    <3> QED BY <1>5, <1>18, <2>1, <3>1, TopRung
  <2> QED BY <1>3, <1>4, <1>18, <2>1, <2>2, <2>3, <2>4, <2>5 DEF Weighed
<1> QED BY <1>2, <1>3, <1>4, <1>18, <1>19, <1>21, <1>22, <1>24 DEF Exact

\* An acknowledgement gives up nothing, unless it fails the ledger for good.
LEMMA DurableAckSound ==
  ASSUME NEW L, Exact(L), NEW t \in Nat, NEW s, s = L.persisted + 1
  PROVE  LET D == DurableAck(L, s, t) IN
         /\ Sound(D, L, t) /\ Accepted(D) = Accepted(L)
         /\ \/ L.cstate = "RUNNING" => Spared(D, L)
            \/ D.admitted = <<>> /\ FailsFrom(D, L)
<1> DEFINE expected == /\ L.admitted # <<>> /\ L.admitted[1] = s /\ L.inFlight = s
                       /\ L.tickets[s].state = "ADMITTED" /\ s = L.persisted + 1
<1>1. Core(L) /\ s \in Nat \ {0}
  BY CoreNumbers DEF Exact
<1>2. CASE ~expected
  <2>1. PICK code \in FailureCodes, yes \in BOOLEAN : code = LEDGER_INVARIANT /\ yes = TRUE
    BY DEF FailureCodes
  <2>2. PICK P : P = Poison(L, code, s, 0, yes)
    OBVIOUS
  <2>3. DurableAck(L, s, t) = P
    BY <1>2, <2>1, <2>2 DEF DurableAck
  <2>4. Sound(P, L, t) /\ Accepted(P) = Accepted(L)
    BY <1>1, <2>2, PoisonSound
  <2>5. P.admitted = <<>> /\ FailsFrom(P, L)
    BY <1>1, <2>1, <2>2, PoisonImpossible
  <2> QED BY <2>3, <2>4, <2>5
<1>3. CASE expected
  <2>1. PICK A : A = Acknowledge(L, s)
    OBVIOUS
  <2>2. /\ Exact(A) /\ SameTickets(A, L) /\ Spared(A, L) /\ A.admittedHigh = L.admittedHigh
        /\ Accepted(A) = Accepted(L) /\ A.cstate = L.cstate
    BY <1>3, <2>1, AcknowledgeExact
  <2>3. Sound(A, L, t)
    BY <2>2, SoundWhenLevel
  <2>4. Verified(A, s) = A
    BY <2>2, SelfCheck
  <2>5. PICK q : q = Pump(A, t)
    OBVIOUS
  <2>6. Sound(q, A, t) /\ Accepted(q) = Accepted(A) /\ (A.cstate = "RUNNING" => Spared(q, A))
    BY <2>2, <2>5, PumpSound
  <2>7. PICK w : w = [q EXCEPT !.wakeup = TRUE]
    OBVIOUS
  <2>8. DurableAck(L, s, t) = w
    BY <1>3, <2>1, <2>4, <2>5, <2>7 DEF DurableAck
  <2>9. Core(q) /\ LedgerType(q) /\ Exact(q)
    BY <2>6 DEF Sound, Exact, Core
  <2>10. LedgerType(w) /\ SameLedger(w, q) /\ SameQueues(w, q)
    BY <2>7, <2>9 DEF LedgerType, LedgerFields, SameLedger, SameQueues
  <2>11. Core(w)
    BY <2>9, <2>10, CoreStable
  <2>12. Sound(w, q, t) /\ Accepted(w) = Accepted(q) /\ Spared(w, q)
    BY <2>9, <2>10, <2>11, StableSound
  <2>13. Sound(w, A, t) /\ (Spared(q, A) => Spared(w, A))
    BY <2>2, <2>6, <2>12, SoundTrans
  <2>14. Sound(w, L, t) /\ (Spared(w, A) => Spared(w, L))
    BY <2>2, <2>3, <2>13, SoundTrans
  <2> QED BY <2>2, <2>6, <2>8, <2>12, <2>13, <2>14
<1> QED BY <1>2, <1>3

\* What a method of the consumer or of the close task guarantees: it accepts
\* and acknowledges nothing.
Follows(P, L, t) ==
  /\ Sound(P, L, t) /\ Accepted(P) = Accepted(L) /\ P.persisted = L.persisted
  /\ P.wstate \in {L.wstate, "FAILING"}

LEMMA FollowsTrans ==
  ASSUME NEW P, NEW Q, NEW L, NEW t, Exact(L), Follows(P, Q, t), Follows(Q, L, t)
  PROVE  Follows(P, L, t) /\ (Spared(P, Q) /\ Spared(Q, L) => Spared(P, L))
<1>1. Sound(P, L, t) /\ (Spared(P, Q) /\ Spared(Q, L) => Spared(P, L))
  BY SoundTrans DEF Follows
<1> QED BY <1>1 DEF Follows

LEMMA StableFollows ==
  ASSUME NEW M, NEW L, NEW t, Exact(L), LedgerType(M), SameLedger(M, L),
         M.pendingBytes = L.pendingBytes
  PROVE  Follows(M, L, t) /\ Spared(M, L)
<1>1. Core(M) /\ SameQueues(M, L)
  BY CoreStable DEF Exact, SameLedger, SameQueues
<1> QED BY <1>1, StableSound DEF Follows, SameLedger

LEMMA ImpossibleFollows ==
  ASSUME NEW L, Exact(L), NEW code \in FailureCodes, NEW ordinal \in Nat \ {0}, NEW t
  PROVE  LET P == Poison(L, code, ordinal, 0, TRUE) IN
         Follows(P, L, t) /\ Failed(P) /\ SameRun(P, L) /\ FailsFrom(P, L)
<1>1. PICK yes \in BOOLEAN : yes = TRUE
  OBVIOUS
<1>2. PICK P : P = Poison(L, code, ordinal, 0, yes)
  OBVIOUS
<1>3. Sound(P, L, t) /\ Accepted(P) = Accepted(L) /\ SameRun(P, L) /\ Failed(P)
  BY <1>2, PoisonSound
<1>4. FailsFrom(P, L)
  BY <1>1, <1>2, PoisonSameRun DEF Exact
<1> QED BY <1>1, <1>2, <1>3, <1>4 DEF Follows, SameRun

LEMMA PumpFollows ==
  ASSUME NEW L, Exact(L), NEW t \in Nat
  PROVE  /\ Follows(Pump(L, t), L, t) /\ SameRun(Pump(L, t), L)
         /\ L.cstate = "RUNNING" => Spared(Pump(L, t), L)
<1>1. PICK P : P = Pump(L, t)
  OBVIOUS
<1>2. /\ Sound(P, L, t) /\ Accepted(P) = Accepted(L) /\ SameRun(P, L)
      /\ L.cstate = "RUNNING" => Spared(P, L)
  BY <1>1, PumpSound
<1> QED BY <1>1, <1>2 DEF Follows, SameRun

LEMMA TaskEndsFollows ==
  ASSUME NEW L, Exact(L), NEW how \in ConsumerStates \ {"NOT_STARTED"}, NEW t
  PROVE  LET E == TaskEnds(L, how) IN
         /\ Follows(E, L, t) /\ Spared(E, L) /\ E.cstate = how /\ E.ctask = "done"
<1>1. LedgerType(L)
  BY DEF Exact, Core
<1>2. PICK E : E = [L EXCEPT !.cstate = how, !.ctask = "done", !.pendingEmpty = TRUE,
                             !.wakeup = TRUE]
  OBVIOUS
<1>3. /\ LedgerType(E) /\ SameLedger(E, L) /\ E.pendingBytes = L.pendingBytes
      /\ E.cstate = how /\ E.ctask = "done"
  BY <1>1, <1>2 DEF LedgerType, LedgerFields, SameLedger, TaskPhases
<1>4. Follows(E, L, t) /\ Spared(E, L)
  BY <1>3, StableFollows
<1>5. E = TaskEnds(L, how)
  BY <1>2 DEF TaskEnds
<1> QED BY <1>3, <1>4, <1>5

\* The close stop ends the task cleanly only with nothing left and no failure.
LEMMA CloseStopFollows ==
  ASSUME NEW L, Exact(L), NEW t
  PROVE  LET E == CloseStop(L) IN
         /\ Follows(E, L, t) /\ E.ctask = "done"
         /\ E.cstate = "EXITED_ERROR" \/ (E.cstate = "EXITED_CLOSE_STOP" /\ L.wstate = "CLOSING")
<1>1. LedgerType(L) /\ Core(L)
  BY DEF Exact, Core
<1>2. PICK stop \in ConsumerStates \ {"NOT_STARTED"}, error \in ConsumerStates \ {"NOT_STARTED"} :
        stop = "EXITED_CLOSE_STOP" /\ error = "EXITED_ERROR"
  BY DEF ConsumerStates
<1>3. CASE L.wstate = "CLOSING" /\ L.pending = <<>> /\ ~Failed(L)
  <2>1. PICK M : M = [L EXCEPT !.stopRequested = FALSE]
    OBVIOUS
  <2>2. LedgerType(M) /\ SameLedger(M, L) /\ M.pendingBytes = L.pendingBytes
    BY <1>1, <2>1 DEF LedgerType, LedgerFields, SameLedger
  <2>3. Follows(M, L, t) /\ Exact(M)
    BY <2>2, StableFollows DEF Follows, Sound
  <2>4. PICK E : E = TaskEnds(M, stop)
    OBVIOUS
  <2>5. Follows(E, M, t) /\ E.cstate = stop /\ E.ctask = "done"
    BY <2>3, <2>4, TaskEndsFollows
  <2>6. Follows(E, L, t)
    BY <2>3, <2>5, FollowsTrans
  <2>7. CloseStop(L) = E
    BY <1>2, <1>3, <2>1, <2>4 DEF CloseStop
  <2> QED BY <1>2, <1>3, <2>5, <2>6, <2>7
<1>4. CASE ~(L.wstate = "CLOSING" /\ L.pending = <<>> /\ ~Failed(L))
  <2>1. PICK code \in FailureCodes, o \in Nat \ {0} :
          code = CLOSE_INCONSISTENCY /\ o = LowestUnpersisted(L)
    BY <1>1, LowestIsOrdinal DEF FailureCodes
  <2>2. PICK M : M = Poison(L, code, o, 0, TRUE)
    OBVIOUS
  <2>3. Follows(M, L, t) /\ Exact(M)
    BY <2>2, ImpossibleFollows DEF Follows, Sound
  <2>4. PICK E : E = TaskEnds(M, error)
    OBVIOUS
  <2>5. Follows(E, M, t) /\ E.cstate = error /\ E.ctask = "done"
    BY <2>3, <2>4, TaskEndsFollows
  <2>6. Follows(E, L, t)
    BY <2>3, <2>5, FollowsTrans
  <2>7. CloseStop(L) = E
    BY <1>2, <1>4, <2>1, <2>2, <2>4 DEF CloseStop
  <2> QED BY <1>2, <2>5, <2>6, <2>7
<1> QED BY <1>3, <1>4

\* A turn of the consumer gives up what is admitted only by ending in error,
\* and ends cleanly only from a closing writer.
LEMMA ConsumerLoopFollows ==
  ASSUME NEW L, Exact(L), NEW t
  PROVE  LET R == ConsumerLoop(L) IN
         /\ Follows(R, L, t)
         /\ R.cstate = "RUNNING" => L.cstate = "RUNNING" /\ Spared(R, L)
         /\ R.cstate = "EXITED_CLOSE_STOP" =>
              L.cstate = "EXITED_CLOSE_STOP" \/ (L.wstate = "CLOSING" /\ R.ctask = "done")
         /\ L.admitted = <<>> /\ L.wstate = "FAILING" => R.cstate = "EXITED_FAILURE_DRAIN"
         /\ R.ctask = "appending" => L.admitted # <<>>
<1>1. LedgerType(L) /\ Core(L) /\ Queues(L)
  BY DEF Exact, Core
<1>2. PICK a : a = PeekAction(L)
  OBVIOUS
<1>3. /\ a = "ticket" <=> L.admitted # <<>>
      /\ L.admitted = <<>> /\ L.wstate = "FAILING" => a = "drained"
  BY <1>2 DEF PeekAction
<1>4. PICK R : R = ConsumerLoop(L)
  OBVIOUS
<1>5. CASE a = "ticket"
  <2>1. R = [L EXCEPT !.inFlight = L.admitted[1], !.ctask = "appending"]
    BY <1>2, <1>4, <1>5 DEF ConsumerLoop
  <2>2. SameQueues(R, L) /\ R.cstate = L.cstate /\ R.wstate = L.wstate
    BY <1>1, <2>1 DEF SameQueues, LedgerType, LedgerFields
  <2>3. Core(R)
    BY <1>1, <1>4, ConsumerLoopCore
  <2>4. Follows(R, L, t) /\ Spared(R, L)
    BY <2>2, <2>3, StableSound DEF Follows, SameQueues
  <2> QED BY <1>3, <1>4, <1>5, <2>2, <2>4
<1>6. CASE a = "drained"
  <2>1. PICK how \in ConsumerStates \ {"NOT_STARTED"} : how = "EXITED_FAILURE_DRAIN"
    BY DEF ConsumerStates
  <2>2. R = TaskEnds(L, how)
    BY <1>2, <1>4, <1>6, <2>1 DEF ConsumerLoop
  <2>3. Follows(R, L, t) /\ R.cstate = how /\ R.ctask = "done"
    BY <2>2, TaskEndsFollows
  <2> QED BY <1>3, <1>4, <1>6, <2>1, <2>3
<1>7. CASE a = "stop"
  <2>1. R = CloseStop(L)
    BY <1>2, <1>4, <1>7 DEF ConsumerLoop
  <2>2. /\ Follows(R, L, t) /\ R.ctask = "done"
        /\ R.cstate = "EXITED_ERROR" \/ (R.cstate = "EXITED_CLOSE_STOP" /\ L.wstate = "CLOSING")
    BY <2>1, CloseStopFollows
  <2> QED BY <1>3, <1>4, <1>7, <2>2
<1>8. CASE ~(a \in {"ticket", "drained", "stop"})
  <2>1. R = [L EXCEPT !.wakeup = FALSE, !.ctask = "waiting"]
    BY <1>2, <1>4, <1>8 DEF ConsumerLoop
  <2>2. /\ LedgerType(R) /\ SameLedger(R, L) /\ R.pendingBytes = L.pendingBytes
        /\ R.cstate = L.cstate /\ R.ctask = "waiting"
    BY <1>1, <2>1 DEF LedgerType, LedgerFields, SameLedger, TaskPhases
  <2>3. Follows(R, L, t) /\ Spared(R, L)
    BY <2>2, StableFollows
  <2> QED BY <1>3, <1>4, <1>8, <2>2, <2>3
<1> QED BY <1>5, <1>6, <1>7, <1>8

LEMMA RecordCancelledFollows ==
  ASSUME NEW L, Exact(L), NEW t
  PROVE  LET R == RecordCancelled(L) IN
         /\ Follows(R, L, t) /\ R.ctask = L.ctask
         /\ R = L \/ (Unrecorded(L) /\ Failed(R) /\ FailsFrom(R, L) /\ R.cstate = "EXITED_ERROR")
<1>1. LedgerType(L) /\ Core(L)
  BY DEF Exact, Core
<1>2. CASE ~Unrecorded(L)
  <2>1. RecordCancelled(L) = L
    BY <1>2 DEF RecordCancelled
  <2>2. Follows(L, L, t)
    BY <1>1, StableFollows DEF SameLedger
  <2> QED BY <2>1, <2>2
<1>3. CASE Unrecorded(L)
  <2>1. PICK code \in FailureCodes, o \in Nat \ {0} :
          code = CONSUMER_CANCELLED /\ o = LowestUnpersisted(L)
    BY <1>1, LowestIsOrdinal DEF FailureCodes
  <2>2. PICK P : P = Poison(L, code, o, 0, TRUE)
    OBVIOUS
  <2>3. Follows(P, L, t) /\ Exact(P) /\ Failed(P) /\ SameRun(P, L) /\ FailsFrom(P, L)
    BY <2>2, ImpossibleFollows DEF Follows, Sound
  <2>4. LedgerType(P)
    BY <2>3 DEF Exact, Core
  <2>5. PICK E : E = [P EXCEPT !.cstate = "EXITED_ERROR"]
    OBVIOUS
  <2>6. /\ LedgerType(E) /\ SameLedger(E, P) /\ E.pendingBytes = P.pendingBytes
        /\ E.cstate = "EXITED_ERROR" /\ E.ctask = P.ctask
    BY <2>4, <2>5 DEF LedgerType, LedgerFields, SameLedger, ConsumerStates
  <2>7. Follows(E, P, t)
    BY <2>3, <2>6, StableFollows
  <2>8. Follows(E, L, t)
    BY <2>3, <2>7, FollowsTrans
  <2>9. Failed(E) /\ FailsFrom(E, L) /\ E.ctask = L.ctask
    BY <2>3, <2>6 DEF Failed, FailsFrom, SameLedger, SameRun
  <2>10. RecordCancelled(L) = E
    BY <1>3, <2>1, <2>2, <2>5 DEF RecordCancelled
  <2> QED BY <1>3, <2>6, <2>8, <2>9, <2>10
<1> QED BY <1>2, <1>3

-----------------------------------------------------------------------------
(* What every step does to the promise: the log, the deadlines and the       *)
(* admitted events.                                                          *)

\* A consumer that ended by close left a file that ends at the watermark; only
\* that, or no consumer at all, lets a writer close clean; and what is being
\* appended was accepted and is not acknowledged.
Clean ==
  /\ led.cstate = "EXITED_CLOSE_STOP" =>
       led.ctask \in {"done", "reaped"} /\ worker.st = "idle" /\ Len(disk) = led.persisted
  /\ closing.outcome = "ok" => led.wstate = "CLOSED_OK"
  /\ led.wstate = "CLOSED_OK" =>
       led.persisted = Accepted(led) /\ led.cstate \in {"NOT_STARTED", "EXITED_CLOSE_STOP"}
  /\ worker.st # "idle" => led.persisted < Accepted(led)

\* The inductive invariant of the promise.
Evidence == LedgerInvariant /\ Exact(led) /\ Timely(led, now) /\ Clean

\* An admitted event is given up only when no consumer can append it.
Fate ==
  led'.cstate = "RUNNING" /\ TaskAlive(led) /\ "consumer" \notin cancelReq => Spared(led', led)

LogStep == [Log!Next]_(Log!vars)

Effects ==
  /\ Clean' /\ Exact(led') /\ Timely(led', now')
  /\ SameTickets(led', led) /\ OnTime(led', led, now) /\ Fate /\ LogStep

LEMMA FollowsFails ==
  ASSUME NEW P, NEW L, NEW t, Exact(L), Follows(P, L, t)
  PROVE  Failed(L) => Failed(P)
<1>1. Health(L) /\ Health(P)
  BY DEF Exact, Core, Follows, Sound
<1> QED BY <1>1 DEF Health, Follows

\* A closed writer has no consumer task that could run.
LEMMA ClosedIsOver ==
  ASSUME Evidence, led.wstate = "CLOSED_OK"
  PROVE  /\ ~TaskAlive(led) /\ led.cstate # "RUNNING" /\ worker.st = "idle"
         /\ closing.phase = "done" /\ ~Failed(led) /\ Len(disk) = led.persisted
<1>1. Clean /\ CloseIsFinal /\ FileMatches /\ Health(led)
  BY DEF Evidence, LedgerInvariant, Core
<1>2. led.cstate \in {"NOT_STARTED", "EXITED_CLOSE_STOP"}
  BY <1>1 DEF Clean
<1>3. led.cstate = "NOT_STARTED" => led.ctask = "none" /\ worker.st = "idle"
        /\ Len(disk) = led.persisted
  BY <1>1 DEF CloseIsFinal, FileMatches
<1> QED BY <1>1, <1>2, <1>3 DEF Clean, CloseIsFinal, TaskAlive, Health

LEMMA VerdictIs ==
  ASSUME Evidence
  PROVE  /\ Verdict = "closed" <=> led.wstate = "CLOSED_OK"
         /\ Verdict = "failed" <=> Failed(led)
         /\ Verdict = "open" <=> ~Failed(led) /\ led.wstate # "CLOSED_OK"
BY ClosedIsOver DEF Verdict

\* A step that accepts, writes and acknowledges nothing and does not close
\* the writer.
LEMMA PlainStep ==
  ASSUME Evidence, Sound(led', led, now), Accepted(led') = Accepted(led),
         led'.persisted = led.persisted, Failed(led) => Failed(led'),
         led'.wstate = "CLOSED_OK" <=> led.wstate = "CLOSED_OK",
         led.wstate = "CLOSED_OK" => led'.cstate = led.cstate,
         led'.cstate = "EXITED_CLOSE_STOP" =>
           led.cstate = "EXITED_CLOSE_STOP" /\ led'.ctask \in {"done", "reaped"},
         closing'.outcome = "ok" => closing.outcome = "ok",
         worker'.st \in {"idle", worker.st}, UNCHANGED <<disk, now>>, Fate,
         Health(led')
  PROVE  Effects
<1>1. Clean /\ Timely(led, now)
  BY DEF Evidence
<1>2. Clean'
  BY <1>1 DEF Clean
<1>3. Exact(led') /\ Timely(led', now') /\ SameTickets(led', led) /\ OnTime(led', led, now)
  BY <1>1 DEF Sound
<1>4. LogStep
  <2>1. CASE led.wstate = "CLOSED_OK"
    <3>1. Verdict = "closed" /\ ~Failed(led')
      BY <2>1, VerdictIs DEF Health
    <3>2. Verdict' = "closed"
      BY <2>1, <3>1 DEF Verdict
    <3>3. UNCHANGED (Log!vars)
      BY <3>1, <3>2 DEF Log!vars
    <3> QED BY <3>3 DEF LogStep
  <2>2. CASE Failed(led)
    <3>1. Verdict = "failed" /\ Verdict' = "failed"
      BY <2>2 DEF Verdict
    <3>2. UNCHANGED (Log!vars)
      BY <3>1 DEF Log!vars
    <3> QED BY <3>2 DEF LogStep
  <2>3. CASE ~Failed(led) /\ led.wstate # "CLOSED_OK"
    <3>1. Verdict = "open" /\ Verdict' \in {"open", "failed"}
      BY <2>3 DEF Verdict
    <3>2. CASE Verdict' = "open"
      <4>1. UNCHANGED (Log!vars)
        BY <3>1, <3>2 DEF Log!vars
      <4> QED BY <4>1 DEF LogStep
    <3>3. CASE Verdict' = "failed"
      <4>1. Log!Fail
        BY <3>1, <3>3 DEF Log!Fail
      <4> QED BY <4>1 DEF LogStep, Log!Next
    <3> QED BY <3>1, <3>2, <3>3
  <2> QED BY <2>1, <2>2, <2>3
<1> QED BY <1>2, <1>3, <1>4 DEF Effects

\* A step of the ledger alone that follows: the consumer's record is as it was.
LEMMA FollowingStep ==
  ASSUME Evidence, Follows(led', led, now), led'.wstate # "FAILING" \/ led.wstate # "CLOSED_OK",
         led'.cstate = led.cstate, led'.ctask = led.ctask,
         closing'.outcome = closing.outcome, UNCHANGED <<worker, disk, now>>, Fate
  PROVE  Effects
<1>1. Clean /\ Exact(led)
  BY DEF Evidence
<1>2. Failed(led) => Failed(led')
  BY <1>1, FollowsFails
<1>3. /\ Sound(led', led, now) /\ Accepted(led') = Accepted(led) /\ Health(led')
      /\ led'.persisted = led.persisted /\ led'.wstate \in {led.wstate, "FAILING"}
  BY DEF Follows, Sound, Exact, Core
<1>4. /\ led'.wstate = "CLOSED_OK" <=> led.wstate = "CLOSED_OK"
      /\ led'.cstate = "EXITED_CLOSE_STOP" => led'.ctask \in {"done", "reaped"}
  BY <1>1, <1>3 DEF Clean
<1> QED BY <1>2, <1>3, <1>4, PlainStep

LEMMA EvidenceFacts ==
  ASSUME Evidence
  PROVE  /\ Exact(led) /\ Timely(led, now) /\ Clean /\ Core(led) /\ LedgerType(led)
         /\ Health(led) /\ CloseIsFinal /\ FileMatches /\ now \in Nat /\ led.persisted \in Nat
         /\ Accepted(led) \in Nat
BY ClockIsNat, CoreNumbers DEF Evidence, LedgerInvariant, Core

LEMMA SubmitEffects ==
  ASSUME Evidence, NEW n \in EventBytes, Submit(n)
  PROVE  Effects
<1>1. /\ Exact(led) /\ Timely(led, now) /\ Clean /\ Core(led) /\ now \in Nat
      /\ Accepted(led) \in Nat
  BY EvidenceFacts
<1>2. /\ Open(led) /\ led' = Submitted(led, n, now)
      /\ UNCHANGED <<worker, disk, closing, cancelReq, now>>
  BY DEF Submit
<1>3. /\ Sound(led', led, now)
      /\ led.cstate = "RUNNING" => Spared(led', led)
      /\ \/ Accepted(led') = Accepted(led)
         \/ Accepted(led') = Accepted(led) + 1 /\ ~Failed(led')
  BY <1>1, <1>2, SubmittedSound
<1>4. SameTask(led', led)
  BY <1>1, <1>2, SubmittedCore
<1>5. led'.persisted = led.persisted /\ led'.cstate = led.cstate /\ led'.ctask = led.ctask
      /\ led'.wstate \in {led.wstate, "FAILING"}
  BY <1>4 DEF SameTask
<1>6. Fate
  BY <1>3, <1>5 DEF Fate
<1>7. ~Failed(led) /\ led.wstate # "CLOSED_OK" /\ led'.wstate # "CLOSED_OK"
  BY <1>2, <1>5 DEF Open
<1>8. CASE Accepted(led') = Accepted(led)
  BY <1>2, <1>3, <1>5, <1>6, <1>7, <1>8, FollowingStep DEF Follows
<1>9. CASE Accepted(led') = Accepted(led) + 1 /\ ~Failed(led')
  <2>1. Verdict = "open" /\ Verdict' = "open"
    BY <1>7, <1>9 DEF Verdict
  <2>2. Log!Accept
    BY <1>2, <1>5, <1>9, <2>1 DEF Log!Accept
  <2>3. LogStep
    BY <2>2 DEF LogStep, Log!Next
  <2>4. led.persisted < Accepted(led) => led'.persisted < Accepted(led')
    BY <1>1, <1>5, <1>9, CoreNumbers
  <2>5. Clean'
    BY <1>1, <1>2, <1>5, <1>7, <2>4 DEF Clean
  <2> QED BY <1>1, <1>2, <1>3, <1>6, <2>3, <2>5 DEF Effects, Sound
<1> QED BY <1>3, <1>8, <1>9

LEMMA ProducersEffects ==
  ASSUME Evidence, Producers
  PROVE  Effects
<1>1. /\ Exact(led) /\ Core(led) /\ now \in Nat /\ Accepted(led) \in Nat /\ CloseIsFinal
  BY EvidenceFacts
<1>2. CASE \E n \in EventBytes : Submit(n)
  BY <1>2, SubmitEffects
<1>3. CASE SubmitUnserializable
  <2>1. PICK p : p = Pump(led, now)
    OBVIOUS
  <2>2. /\ Open(led) /\ UNCHANGED <<worker, disk, closing, cancelReq, now>>
        /\ led' = IF Open(p) THEN Poison(p, SERIALIZATION, Accepted(p) + 1, 0, FALSE) ELSE p
    BY <1>3, <2>1 DEF SubmitUnserializable
  <2>3. Follows(p, led, now) /\ SameRun(p, led) /\ (led.cstate = "RUNNING" => Spared(p, led))
    BY <1>1, <2>1, PumpFollows
  <2>4. Exact(p) /\ Core(p)
    BY <2>3 DEF Follows, Sound, Exact
  <2>5. PICK o \in Nat \ {0}, code \in FailureCodes, no \in BOOLEAN :
          o = Accepted(p) + 1 /\ code = SERIALIZATION /\ no = FALSE
    <3>1. Accepted(p) + 1 \in Nat \ {0} /\ SERIALIZATION \in FailureCodes /\ FALSE \in BOOLEAN
      BY <2>4, CoreNumbers DEF FailureCodes
    <3> QED BY <3>1
  <2>6. PICK q : q = Poison(p, code, o, 0, no)
    OBVIOUS
  <2>7. /\ Sound(q, p, now) /\ Accepted(q) = Accepted(p) /\ SameRun(q, p)
        /\ ~no /\ p.cstate = "RUNNING" => Spared(q, p)
    BY <2>4, <2>6, PoisonSound
  <2>8. Follows(q, p, now)
    BY <2>7 DEF Follows, SameRun
  <2>9. Follows(q, led, now) /\ (Spared(q, p) /\ Spared(p, led) => Spared(q, led))
    BY <1>1, <2>3, <2>8, FollowsTrans
  <2>10. led' \in {p, q}
    BY <2>2, <2>5, <2>6
  <2>11. /\ Follows(led', led, now) /\ (led.cstate = "RUNNING" => Spared(led', led))
         /\ led'.cstate = led.cstate /\ led'.ctask = led.ctask
    BY <2>3, <2>5, <2>7, <2>9, <2>10 DEF SameRun
  <2>12. led.wstate # "CLOSED_OK"
    BY <2>2 DEF Open
  <2> QED BY <2>2, <2>11, <2>12, FollowingStep DEF Fate
<1>4. CASE EmitAwaitedNoConsumer
  <2>1. /\ closing.phase = "none" /\ ~ConsumerLive(led)
        /\ led' = Poison(led, NO_CONSUMER, Accepted(led) + 1, 0, TRUE)
        /\ UNCHANGED <<worker, disk, closing, cancelReq, now>>
    BY <1>4 DEF EmitAwaitedNoConsumer
  <2>2. PICK o \in Nat \ {0}, code \in FailureCodes : o = Accepted(led) + 1 /\ code = NO_CONSUMER
    <3>1. Accepted(led) + 1 \in Nat \ {0} /\ NO_CONSUMER \in FailureCodes
      BY <1>1 DEF FailureCodes
    <3> QED BY <3>1
  <2>3. led' = Poison(led, code, o, 0, TRUE)
    BY <2>1, <2>2
  <2>4. Follows(led', led, now) /\ SameRun(led', led)
    BY <1>1, <2>3, ImpossibleFollows
  <2>5. led'.cstate = led.cstate /\ led'.ctask = led.ctask /\ led.wstate # "CLOSED_OK"
    BY <1>1, <2>1, <2>4 DEF SameRun, CloseIsFinal
  <2>6. Fate
    BY <2>1, <2>5 DEF Fate, ConsumerLive
  <2> QED BY <2>1, <2>4, <2>5, <2>6, FollowingStep
<1> QED BY <1>2, <1>3, <1>4 DEF Producers

LEMMA StartEffects ==
  ASSUME Evidence, LedgerInvariant', Start \/ StartFails
  PROVE  Effects
<1>1. /\ Exact(led) /\ Core(led) /\ Core(led') /\ LedgerType(led) /\ CloseIsFinal /\ Health(led')
  BY EvidenceFacts DEF LedgerInvariant, Core
<1>2. led.cstate = "NOT_STARTED" /\ led.wstate = "NEW" /\ led.ctask = "none"
  BY <1>1 DEF Start, StartFails, CanStart, CloseIsFinal
<1>3. CASE Start
  <2>1. /\ led' = [led EXCEPT !.ctask = "created", !.cstate = "RUNNING", !.wstate = "RUNNING",
                              !.wakeup = TRUE]
        /\ UNCHANGED <<worker, disk, closing, cancelReq, now>>
    BY <1>3 DEF Start
  <2>2. /\ SameQueues(led', led) /\ led'.cstate = "RUNNING" /\ led'.wstate = "RUNNING"
        /\ led'.primary = led.primary
    BY <1>1, <2>1 DEF SameQueues, LedgerType, LedgerFields
  <2>3. Sound(led', led, now) /\ Accepted(led') = Accepted(led) /\ Spared(led', led)
    BY <1>1, <2>2, StableSound
  <2>4. led'.persisted = led.persisted /\ Fate /\ (Failed(led) => Failed(led'))
    BY <2>2, <2>3 DEF SameQueues, Fate, Failed
  <2> QED BY <1>1, <1>2, <2>1, <2>2, <2>3, <2>4, PlainStep
<1>4. CASE StartFails
  <2>1. PICK M : M = [led EXCEPT !.cstate = "EXITED_ERROR"]
    OBVIOUS
  <2>2. PICK o \in Nat \ {0}, code \in FailureCodes :
          o = LowestUnpersisted(led) /\ code = CONSUMER_START
    BY <1>1, LowestIsOrdinal DEF FailureCodes
  <2>3. led' = Poison(M, code, o, 0, TRUE) /\ UNCHANGED <<worker, disk, closing, cancelReq, now>>
    BY <1>4, <2>1, <2>2 DEF StartFails
  <2>4. /\ LedgerType(M) /\ SameLedger(M, led) /\ M.pendingBytes = led.pendingBytes
        /\ M.cstate = "EXITED_ERROR"
    BY <1>1, <2>1 DEF LedgerType, LedgerFields, SameLedger, ConsumerStates
  <2>5. Follows(M, led, now) /\ Exact(M)
    BY <1>1, <2>4, StableFollows DEF Follows, Sound
  <2>6. Follows(led', M, now) /\ SameRun(led', M)
    BY <2>3, <2>5, ImpossibleFollows
  <2>7. Follows(led', led, now)
    BY <1>1, <2>5, <2>6, FollowsTrans
  <2>8. led'.cstate = "EXITED_ERROR"
    BY <2>4, <2>6 DEF SameRun
  <2>9. Fate
    BY <2>8 DEF Fate
  <2>10. Failed(led) => Failed(led')
    BY <1>1, <2>7, FollowsFails
  <2>11. /\ Sound(led', led, now) /\ Accepted(led') = Accepted(led)
         /\ led'.persisted = led.persisted /\ led'.wstate # "CLOSED_OK"
    BY <1>2, <2>7 DEF Follows
  <2> QED BY <1>1, <1>2, <2>3, <2>8, <2>9, <2>10, <2>11, PlainStep
<1> QED BY <1>3, <1>4

\* A pump cannot fail a writer that is no longer live.
LEMMA PumpOfClosed ==
  ASSUME NEW L, LedgerType(L), NEW t, L.wstate = "CLOSED_OK"
  PROVE  Pump(L, t).wstate = "CLOSED_OK"
BY DEF Pump, Live, LedgerType, LedgerFields

LEMMA HeadTimerEffects ==
  ASSUME Evidence, HeadTimer
  PROVE  Effects
<1>1. Exact(led) /\ LedgerType(led) /\ now \in Nat
  BY EvidenceFacts
<1>2. PICK M : M = [led EXCEPT !.timer = 0]
  OBVIOUS
<1>3. led' = Pump(M, now) /\ UNCHANGED <<worker, disk, closing, cancelReq, now>>
  BY <1>2 DEF HeadTimer
<1>4. /\ LedgerType(M) /\ SameLedger(M, led) /\ M.pendingBytes = led.pendingBytes
      /\ M.cstate = led.cstate /\ M.ctask = led.ctask
  BY <1>1, <1>2 DEF LedgerType, LedgerFields, SameLedger
<1>5. Follows(M, led, now) /\ Exact(M) /\ Spared(M, led)
  BY <1>1, <1>4, StableFollows DEF Follows, Sound
<1>6. /\ Follows(led', M, now) /\ SameRun(led', M)
      /\ M.cstate = "RUNNING" => Spared(led', M)
  BY <1>1, <1>3, <1>5, PumpFollows
<1>7. Follows(led', led, now) /\ (Spared(led', M) => Spared(led', led))
  BY <1>1, <1>5, <1>6, FollowsTrans
<1>8. led'.cstate = led.cstate /\ led'.ctask = led.ctask
  BY <1>4, <1>6 DEF SameRun
<1>9. Fate
  BY <1>4, <1>6, <1>7, <1>8 DEF Fate
<1>10. led.wstate = "CLOSED_OK" => led'.wstate = "CLOSED_OK"
  BY <1>3, <1>4, PumpOfClosed DEF SameLedger
<1> QED BY <1>3, <1>7, <1>8, <1>9, <1>10, FollowingStep

LEMMA TickEffects ==
  ASSUME Evidence, Tick
  PROVE  Effects
<1>1. Exact(led) /\ Timely(led, now) /\ Clean /\ now \in Nat /\ Core(led)
  BY EvidenceFacts
<1>2. now' = now + 1 /\ UNCHANGED <<led, worker, disk, closing, cancelReq>>
  BY DEF Tick
<1>3. Timely(led', now')
  <2>1. ASSUME NEW i \in 1..Accepted(led)
        PROVE  led.tickets[i].deadline <= now + 1 + ProducerTimeout
    <3>1. led.tickets[i] \in Ticket
      BY <1>1, QueuedTickets
    <3>2. led.tickets[i].deadline \in Nat /\ ProducerTimeout \in Nat
      BY <3>1, LimitAssumption DEF Ticket
    <3>3. led.tickets[i].deadline <= now + ProducerTimeout
      BY <1>1 DEF Timely
    <3> QED BY <1>1, <3>2, <3>3
  <2> QED BY <1>2, <2>1 DEF Timely
<1>4. OnTime(led', led, now) /\ SameTickets(led', led)
  BY <1>1, <1>2, CoreNumbers DEF OnTime, SameTickets, Kept
<1>5. UNCHANGED (Log!vars)
  BY <1>2 DEF Log!vars, Verdict
<1>6. Fate /\ Clean'
  BY <1>1, <1>2 DEF Fate, Spared, Clean
<1> QED BY <1>1, <1>2, <1>3, <1>4, <1>5, <1>6 DEF Effects, LogStep

LEMMA AppendThreadEffects ==
  ASSUME Evidence, AppendThread
  PROVE  Effects
<1>1. /\ Exact(led) /\ Timely(led, now) /\ Clean /\ Core(led) /\ FileMatches
      /\ led.persisted \in Nat /\ Accepted(led) \in Nat /\ TypeOK
  BY EvidenceFacts DEF Evidence, LedgerInvariant
<1>2. /\ worker.st = "writing" /\ UNCHANGED <<led, closing, cancelReq, now>>
      /\ disk' \in {disk, Append(disk, worker.seq)} /\ worker'.st # "idle"
  BY <1>1 DEF AppendThread, AppendReturns, AppendRaises, TypeOK
<1>3. Len(disk) = led.persisted /\ led.persisted < Accepted(led) /\ led.wstate # "CLOSED_OK"
  BY <1>1, <1>2, ClosedIsOver DEF FileMatches, Clean
<1>4. led.cstate # "EXITED_CLOSE_STOP"
  BY <1>1, <1>2 DEF Clean
<1>5. Clean'
  BY <1>1, <1>2, <1>3, <1>4 DEF Clean
<1>6. OnTime(led', led, now) /\ SameTickets(led', led) /\ Fate
  BY <1>1, <1>2, CoreNumbers DEF OnTime, SameTickets, Kept, Fate, Spared
<1>7. LogStep
  <2>1. Verdict # "closed" /\ Verdict' = Verdict
    BY <1>2, <1>3 DEF Verdict
  <2>2. CASE disk' = disk
    BY <1>2, <2>1, <2>2 DEF LogStep, Log!vars
  <2>3. CASE disk' = Append(disk, worker.seq)
    <3>1. Len(disk') = Len(disk) + 1
      BY <1>1, <2>3 DEF TypeOK
    <3>2. Log!Write
      BY <1>2, <1>3, <2>1, <3>1 DEF Log!Write
    <3> QED BY <3>2 DEF LogStep, Log!Next
  <2> QED BY <1>2, <2>2, <2>3
<1> QED BY <1>1, <1>2, <1>5, <1>6, <1>7 DEF Effects

\* The steps in which the consumer ends in error.
LEMMA ErrorStep ==
  ASSUME Evidence, TaskAlive(led), Follows(led', led, now), led'.cstate = "EXITED_ERROR",
         worker'.st \in {"idle", worker.st}, UNCHANGED <<disk, closing, now>>
  PROVE  Effects
<1>1. Exact(led) /\ Failed(led) => Failed(led')
  BY FollowsFails
<1>2. led.wstate # "CLOSED_OK" /\ Exact(led)
  BY ClosedIsOver, EvidenceFacts
<1>3. /\ Sound(led', led, now) /\ Accepted(led') = Accepted(led) /\ Health(led')
      /\ led'.persisted = led.persisted /\ led'.wstate # "CLOSED_OK"
  BY <1>2 DEF Follows, Sound, Exact, Core
<1>4. Fate
  BY DEF Fate
<1> QED BY <1>1, <1>2, <1>3, <1>4, PlainStep

\* One turn of the consumer from D, what an acknowledgement made of the ledger
\* or the ledger itself.
LEMMA TurnEffects ==
  ASSUME Evidence, TaskAlive(led), NEW D, Sound(D, led, now), Accepted(D) = Accepted(led),
         D.cstate = led.cstate, D.wstate \in {led.wstate, "FAILING"},
         led' = ConsumerLoop(D), worker' = WorkerAfter(led'),
         UNCHANGED <<disk, closing, cancelReq, now>>,
         \/ led.cstate = "RUNNING" => Spared(D, led)
         \/ D.admitted = <<>> /\ D.wstate = "FAILING",
         Len(disk) = D.persisted \/ D.wstate = "FAILING",
         D.persisted \in {led.persisted, Len(disk)}, Len(disk) \in {led.persisted, led.persisted + 1}
  PROVE  Effects
<1>1. /\ Exact(led) /\ Timely(led, now) /\ Clean /\ Core(led) /\ Health(led)
      /\ led.persisted \in Nat /\ Accepted(led) \in Nat
  BY EvidenceFacts
<1>2. Exact(D) /\ Core(D) /\ Health(D) /\ Queues(D) /\ LedgerType(D)
  BY DEF Sound, Exact, Core
<1>3. led.wstate # "CLOSED_OK" /\ led.cstate # "EXITED_CLOSE_STOP"
  BY <1>1, ClosedIsOver DEF Clean, TaskAlive
<1>4. /\ Follows(led', D, now)
      /\ led'.cstate = "RUNNING" => D.cstate = "RUNNING" /\ Spared(led', D)
      /\ led'.cstate = "EXITED_CLOSE_STOP" =>
           D.cstate = "EXITED_CLOSE_STOP" \/ (D.wstate = "CLOSING" /\ led'.ctask = "done")
      /\ D.admitted = <<>> /\ D.wstate = "FAILING" => led'.cstate = "EXITED_FAILURE_DRAIN"
      /\ led'.ctask = "appending" => D.admitted # <<>>
  BY <1>2, ConsumerLoopFollows
<1>5. Sound(led', led, now) /\ (Spared(led', D) /\ Spared(D, led) => Spared(led', led))
  BY <1>1, <1>4, SoundTrans DEF Follows
<1>6. Fate
  BY <1>4, <1>5 DEF Fate
<1>7. /\ Accepted(led') = Accepted(led) /\ led'.persisted = D.persisted
      /\ led'.wstate \in {led.wstate, "FAILING"} /\ led'.wstate # "CLOSED_OK"
      /\ Exact(led') /\ Health(led')
  BY <1>3, <1>4 DEF Follows, Sound, Exact, Core
<1>8. D.admitted # <<>> => D.persisted < Accepted(led)
  <2>1. PICK x \in Nat, p \in Nat, h \in Nat, a \in Nat :
          x = Len(D.admitted) /\ p = D.persisted /\ h = D.admittedHigh /\ a = Accepted(D)
    BY <1>2, CoreNumbers
  <2>2. p <= h /\ h <= a /\ x \in {0, h - p}
    BY <1>2, <2>1 DEF Queues
  <2>3. D.admitted # <<>> => x # 0
    BY <1>2, <2>1, EmptySeq DEF LedgerType
  <2> QED BY <2>1, <2>2, <2>3
<1>9. Clean'
  <2>1. led'.cstate = "EXITED_CLOSE_STOP" => led'.ctask = "done" /\ Len(disk) = led'.persisted
    BY <1>3, <1>4, <1>7
  <2>2. led'.ctask # "appending" => worker'.st = "idle"
    BY DEF WorkerAfter
  <2>3. closing'.outcome # "ok"
    BY <1>1, <1>3 DEF Clean
  <2> QED BY <1>4, <1>7, <1>8, <2>1, <2>2, <2>3 DEF Clean
<1>10. Timely(led', now') /\ SameTickets(led', led) /\ OnTime(led', led, now)
  BY <1>1, <1>5 DEF Sound
<1>11. LogStep
  <2>1. /\ Verdict # "closed" /\ Verdict' \in {Verdict, "failed"}
        /\ Verdict # Verdict' => Verdict = "open"
    <3>1. Failed(led) => Failed(led')
      BY <1>1, <1>7 DEF Health
    <3> QED BY <1>3, <1>7, <3>1 DEF Verdict
  <2>2. CASE led'.persisted = led.persisted
    <3>1. CASE Verdict' = Verdict
      BY <1>7, <2>2, <3>1 DEF LogStep, Log!vars
    <3>2. CASE Verdict' # Verdict
      <4>1. Log!Fail
        BY <1>7, <2>1, <2>2, <3>2 DEF Log!Fail
      <4> QED BY <4>1 DEF LogStep, Log!Next
    <3> QED BY <3>1, <3>2
  <2>3. CASE led'.persisted # led.persisted
    <3>1. Len(disk) = led.persisted + 1 /\ led'.persisted = Len(disk)
      BY <1>7, <2>3
    <3>2. Log!Acknowledge
      BY <1>7, <2>1, <3>1 DEF Log!Acknowledge
    <3> QED BY <3>2 DEF LogStep, Log!Next
  <2> QED BY <2>2, <2>3
<1> QED BY <1>6, <1>7, <1>9, <1>10, <1>11 DEF Effects

LEMMA ConsumerTaskEffects ==
  ASSUME Evidence, ConsumerTask
  PROVE  Effects
<1>1. /\ Exact(led) /\ Core(led) /\ LedgerType(led) /\ CloseIsFinal /\ FileMatches
      /\ now \in Nat /\ led.persisted \in Nat
  BY EvidenceFacts
<1>2. PICK error \in ConsumerStates \ {"NOT_STARTED"} : error = "EXITED_ERROR"
  BY DEF ConsumerStates
<1>3. ASSUME NEW code \in FailureCodes, NEW o \in Nat \ {0}, TaskAlive(led),
             led' = TaskEnds(Poison(led, code, o, 0, TRUE), "EXITED_ERROR"),
             worker'.st \in {"idle", worker.st}, UNCHANGED <<disk, closing, now>>
      PROVE  Effects
  <2>1. PICK P : P = Poison(led, code, o, 0, TRUE)
    OBVIOUS
  <2>2. Follows(P, led, now) /\ Exact(P)
    BY <1>1, <2>1, ImpossibleFollows DEF Follows, Sound
  <2>3. led' = TaskEnds(P, error)
    BY <1>2, <1>3, <2>1
  <2>4. Follows(led', P, now) /\ led'.cstate = error
    BY <2>2, <2>3, TaskEndsFollows
  <2>5. Follows(led', led, now)
    BY <1>1, <2>2, <2>4, FollowsTrans
  <2> QED BY <1>2, <1>3, <2>4, <2>5, ErrorStep
<1>4. CASE ConsumerRuns
  <2>1. /\ led' = ConsumerLoop(led) /\ worker' = WorkerAfter(led')
        /\ UNCHANGED <<disk, closing, cancelReq, now>>
        /\ led.ctask \in {"created", "waiting"}
    BY <1>4 DEF ConsumerRuns
  <2>2. Len(disk) = led.persisted /\ TaskAlive(led)
    BY <1>1, <2>1 DEF FileMatches, TaskAlive
  <2>3. Follows(led, led, now) /\ Spared(led, led)
    BY <1>1, StableFollows DEF SameLedger
  <2>4. Sound(led, led, now)
    BY <2>3 DEF Follows
  <2> QED BY <2>1, <2>2, <2>3, <2>4, TurnEffects
<1>5. CASE ConsumerAcks
  <2>1. PICK D : D = DurableAck(led, worker.seq, now)
    OBVIOUS
  <2>2. /\ led' = ConsumerLoop(D) /\ worker' = WorkerAfter(led')
        /\ UNCHANGED <<disk, closing, cancelReq, now>>
        /\ led.ctask = "appending" /\ worker.st = "wrote" /\ "consumer" \notin cancelReq
    BY <1>5, <2>1 DEF ConsumerAcks
  <2>3. worker.seq = led.persisted + 1 /\ Len(disk) = led.persisted + 1 /\ TaskAlive(led)
    BY <1>1, <2>2 DEF FileMatches, TaskAlive
  <2>4. /\ Sound(D, led, now) /\ Accepted(D) = Accepted(led)
        /\ \/ led.cstate = "RUNNING" => Spared(D, led)
           \/ D.admitted = <<>> /\ FailsFrom(D, led)
    BY <1>1, <2>1, <2>3, DurableAckSound
  <2>5. /\ D.cstate = led.cstate /\ D.wstate \in {led.wstate, "FAILING"}
        /\ \/ D.persisted = worker.seq
           \/ D.persisted = led.persisted /\ D.admitted = <<>> /\ FailsFrom(D, led)
    BY <1>1, <2>1, <2>3, DurableAckCore
  <2>6. led.wstate # "CLOSED_FAILED"
    BY <1>1, <2>2, <2>3 DEF CloseIsFinal
  <2>7. FailsFrom(D, led) => D.wstate = "FAILING"
    BY <2>6 DEF FailsFrom
  <2> QED BY <2>2, <2>3, <2>4, <2>5, <2>7, TurnEffects
<1>6. CASE ConsumerSeesAppendFail
  <2>1. /\ led' = TaskEnds(Poison(led, APPEND_FAILED, worker.seq, 0, TRUE), "EXITED_ERROR")
        /\ worker'.st = "idle" /\ UNCHANGED <<disk, closing, cancelReq, now>>
        /\ led.ctask = "appending" /\ worker.st = "raised"
    BY <1>6 DEF ConsumerSeesAppendFail
  <2>2. PICK code \in FailureCodes, o \in Nat \ {0} : code = APPEND_FAILED /\ o = worker.seq
    BY <1>1, <2>1 DEF FileMatches, FailureCodes
  <2>3. TaskAlive(led)
    BY <2>1 DEF TaskAlive
  <2> QED BY <1>3, <2>1, <2>2, <2>3
<1>7. CASE ConsumerCancelled
  <2>1. /\ UNCHANGED <<worker, disk, closing, cancelReq, now>>
        /\ TaskAlive(led) /\ "consumer" \in cancelReq
        /\ led.ctask = "created" => led' = [led EXCEPT !.ctask = "done"]
        /\ led.ctask = "appending" =>
             led' = TaskEnds(Poison(led, CONSUMER_CANCELLED, worker.seq, 0, TRUE), "EXITED_ERROR")
        /\ led.ctask = "waiting" =>
             led' = TaskEnds(Poison(led, CONSUMER_CANCELLED, LowestUnpersisted(led), 0, TRUE),
                             "EXITED_ERROR")
    BY <1>7 DEF ConsumerCancelled
  <2>2. CASE led.ctask = "created"
    <3>1. led' = [led EXCEPT !.ctask = "done"]
      BY <2>1, <2>2
    <3>2. /\ LedgerType(led') /\ SameLedger(led', led) /\ led'.pendingBytes = led.pendingBytes
          /\ led'.cstate = led.cstate
      BY <1>1, <3>1 DEF LedgerType, LedgerFields, SameLedger, TaskPhases
    <3>3. Follows(led', led, now)
      BY <1>1, <3>2, StableFollows
    <3>4. led.wstate # "CLOSED_OK" /\ led.cstate # "EXITED_CLOSE_STOP"
      BY <2>1, ClosedIsOver, EvidenceFacts DEF Clean, TaskAlive
    <3>5. /\ Sound(led', led, now) /\ Accepted(led') = Accepted(led) /\ Health(led')
          /\ led'.persisted = led.persisted
      BY <3>3 DEF Follows, Sound, Exact, Core
    <3>6. led'.wstate = led.wstate /\ (Failed(led) => Failed(led')) /\ Fate
      BY <2>1, <3>2 DEF SameLedger, Failed, Fate
    <3> QED BY <2>1, <3>2, <3>4, <3>5, <3>6, PlainStep
  <2>3. CASE led.ctask = "appending"
    <3>1. PICK code \in FailureCodes, o \in Nat \ {0} : code = CONSUMER_CANCELLED /\ o = worker.seq
      BY <1>1, <2>3 DEF FileMatches, FailureCodes
    <3> QED BY <1>3, <2>1, <2>3, <3>1
  <2>4. CASE led.ctask = "waiting"
    <3>1. PICK code \in FailureCodes, o \in Nat \ {0} :
            code = CONSUMER_CANCELLED /\ o = LowestUnpersisted(led)
      BY <1>1, LowestIsOrdinal DEF FailureCodes
    <3> QED BY <1>3, <2>1, <2>4, <3>1
  <2> QED BY <2>1, <2>2, <2>3, <2>4 DEF TaskAlive
<1> QED BY <1>4, <1>5, <1>6, <1>7 DEF ConsumerTask

LEMMA ConsumerDoneEffects ==
  ASSUME Evidence, ConsumerDone
  PROVE  Effects
<1>1. Exact(led) /\ LedgerType(led)
  BY EvidenceFacts
<1>2. PICK R : R = RecordCancelled(led)
  OBVIOUS
<1>3. /\ led' = [R EXCEPT !.ctask = "reaped", !.pendingEmpty = TRUE, !.wakeup = TRUE]
      /\ led.ctask = "done" /\ UNCHANGED <<worker, disk, closing, cancelReq, now>>
  BY <1>2 DEF ConsumerDone
<1>4. /\ Follows(R, led, now)
      /\ R = led \/ (Unrecorded(led) /\ Failed(R) /\ R.cstate = "EXITED_ERROR")
  BY <1>1, <1>2, RecordCancelledFollows
<1>5. Exact(R) /\ LedgerType(R)
  BY <1>4 DEF Follows, Sound, Exact, Core
<1>6. /\ LedgerType(led') /\ SameLedger(led', R) /\ led'.pendingBytes = R.pendingBytes
      /\ led'.cstate = R.cstate /\ led'.ctask = "reaped"
  BY <1>3, <1>5 DEF LedgerType, LedgerFields, SameLedger, TaskPhases
<1>7. Follows(led', R, now)
  BY <1>5, <1>6, StableFollows
<1>8. Follows(led', led, now)
  BY <1>1, <1>4, <1>7, FollowsTrans
<1>9. Failed(led) => Failed(led')
  BY <1>1, <1>8, FollowsFails
<1>10. Fate
  BY <1>3 DEF Fate, TaskAlive
<1>11. led.wstate = "CLOSED_OK" => R = led
  BY <1>4, ClosedIsOver DEF Unrecorded
<1>12. /\ Sound(led', led, now) /\ Accepted(led') = Accepted(led) /\ Health(led')
       /\ led'.persisted = led.persisted /\ led'.wstate \in {led.wstate, "FAILING"}
  BY <1>8 DEF Follows, Sound, Exact, Core
<1>13. /\ led'.wstate = "CLOSED_OK" <=> led.wstate = "CLOSED_OK"
       /\ led.wstate = "CLOSED_OK" => led'.cstate = led.cstate
       /\ led'.cstate = "EXITED_CLOSE_STOP" => led.cstate = "EXITED_CLOSE_STOP"
  BY <1>4, <1>6, <1>11, <1>12 DEF SameLedger
<1> QED BY <1>3, <1>6, <1>9, <1>10, <1>12, <1>13, PlainStep

LEMMA CloseEffects ==
  ASSUME Evidence, Close
  PROVE  Effects
<1>1. /\ Exact(led) /\ Core(led) /\ LedgerType(led) /\ Health(led) /\ CloseIsFinal /\ now \in Nat
      /\ Clean /\ TypeOK
  BY EvidenceFacts DEF Evidence, LedgerInvariant
<1>2. PICK M : M = [led EXCEPT !.wstate = "CLOSING"]
  OBVIOUS
<1>3. /\ closing.phase = "none" /\ closing'.outcome = closing.outcome
      /\ led' = IF led.wstate \in {"NEW", "RUNNING"} THEN Pump(M, now) ELSE led
      /\ UNCHANGED <<worker, disk, cancelReq, now>>
  BY <1>1, <1>2 DEF Close, TypeOK
<1>4. led.wstate \notin {"CLOSED_OK", "CLOSED_FAILED"}
  BY <1>1, <1>3 DEF CloseIsFinal
<1>5. CASE led.wstate \in {"NEW", "RUNNING"}
  <2>1. /\ ~Failed(led) /\ "CLOSING" \in WriterStates /\ Agrees("CLOSING", led)
        /\ led.timer \in Nat
    BY <1>1, <1>5 DEF Health, WriterStates, Agrees, LedgerType
  <2>2. Restated(M, led, "CLOSING", led.timer)
    BY <1>1, <1>2 DEF Restated, LedgerType, LedgerFields
  <2>3. Core(M) /\ M.wstate = "CLOSING" /\ M.ctask = led.ctask /\ M.cstate = led.cstate
    BY <1>1, <2>1, <2>2, WriterStateCore
  <2>4. SameQueues(M, led)
    BY <1>1, <1>2 DEF SameQueues, LedgerType, LedgerFields
  <2>5. /\ Sound(M, led, now) /\ Exact(M) /\ Accepted(M) = Accepted(led) /\ Spared(M, led)
        /\ M.persisted = led.persisted
    BY <1>1, <2>3, <2>4, StableSound DEF Sound, SameQueues
  <2>6. /\ Follows(led', M, now) /\ SameRun(led', M)
        /\ M.cstate = "RUNNING" => Spared(led', M)
    BY <1>1, <1>3, <1>5, <2>5, PumpFollows
  <2>7. Sound(led', led, now) /\ (Spared(led', M) => Spared(led', led))
    BY <1>1, <2>5, <2>6, SoundTrans DEF Follows
  <2>8. /\ Accepted(led') = Accepted(led) /\ led'.persisted = led.persisted
        /\ led'.cstate = led.cstate /\ led'.ctask = led.ctask
        /\ led'.wstate \in {"CLOSING", "FAILING"} /\ Health(led')
    BY <2>3, <2>5, <2>6 DEF Follows, SameRun, Sound, Exact, Core
  <2>9. Fate
    BY <2>3, <2>6, <2>7, <2>8 DEF Fate
  <2>10. led'.cstate = "EXITED_CLOSE_STOP" => led'.ctask \in {"done", "reaped"}
    BY <1>1, <2>8 DEF Clean
  <2> QED BY <1>3, <1>4, <2>1, <2>7, <2>8, <2>9, <2>10, PlainStep
<1>6. CASE led.wstate \notin {"NEW", "RUNNING"}
  <2>1. led' = led
    BY <1>3, <1>6
  <2>2. Follows(led', led, now) /\ Spared(led', led)
    BY <1>1, <2>1, StableFollows DEF SameLedger
  <2> QED BY <1>3, <1>4, <2>1, <2>2, FollowingStep DEF Fate
<1> QED BY <1>5, <1>6

\* The close task settles with a failure, from a ledger M that the join left.
LEMMA ClosedFailedEffects ==
  ASSUME Evidence, LedgerInvariant', UNCHANGED <<worker, disk, cancelReq, now>>,
         TaskAlive(led) => "consumer" \in cancelReq,
         led.wstate # "CLOSED_OK", NEW M, ClosedFailed(M), Follows(M, led, now),
         M.ctask = led.ctask, M.cstate \in {led.cstate, "EXITED_ERROR"}
  PROVE  Effects
<1>1. Exact(led) /\ Clean
  BY EvidenceFacts
<1>2. Exact(M) /\ Core(M) /\ LedgerType(M)
  BY DEF Follows, Sound, Exact, Core
<1>3. /\ led' = [M EXCEPT !.wstate = "CLOSED_FAILED", !.timer = 0]
      /\ closing' = [phase |-> "done", outcome |-> "failed"]
  BY DEF ClosedFailed
<1>4. /\ SameQueues(led', M) /\ led'.wstate = "CLOSED_FAILED" /\ led'.cstate = M.cstate
      /\ led'.ctask = M.ctask
  BY <1>2, <1>3 DEF SameQueues, LedgerType, LedgerFields
<1>5. Core(led') /\ Health(led')
  BY DEF LedgerInvariant, Core
<1>6. Sound(led', M, now) /\ Accepted(led') = Accepted(M) /\ led'.persisted = M.persisted
  BY <1>2, <1>4, <1>5, StableSound DEF SameQueues
<1>7. Sound(led', led, now)
  BY <1>1, <1>6, SoundTrans DEF Follows
<1>8. Accepted(led') = Accepted(led) /\ led'.persisted = led.persisted /\ Failed(led')
  BY <1>4, <1>5, <1>6 DEF Follows, Health
<1>9. Fate
  BY DEF Fate
<1>10. led'.cstate = "EXITED_CLOSE_STOP" =>
         led.cstate = "EXITED_CLOSE_STOP" /\ led'.ctask \in {"done", "reaped"}
  BY <1>1, <1>4 DEF Clean
<1>11. closing'.outcome = "ok" => closing.outcome = "ok"
  BY <1>3
<1> QED BY <1>4, <1>5, <1>7, <1>8, <1>9, <1>10, <1>11, PlainStep

\* The close task settles clean.
LEMMA ClosedOkEffects ==
  ASSUME Evidence, LedgerInvariant', UNCHANGED <<worker, disk, cancelReq, now>>, ClosedOk,
         ~TaskAlive(led), ~Failed(led), led.wstate # "CLOSED_OK",
         led.persisted = Accepted(led), Len(disk) = led.persisted,
         led.cstate \in {"NOT_STARTED", "EXITED_CLOSE_STOP"}
  PROVE  Effects
<1>1. Exact(led) /\ Clean /\ LedgerType(led) /\ Timely(led, now)
  BY EvidenceFacts
<1>2. /\ led' = [led EXCEPT !.wstate = "CLOSED_OK", !.timer = 0]
      /\ closing' = [phase |-> "done", outcome |-> "ok"]
  BY DEF ClosedOk
<1>3. /\ SameQueues(led', led) /\ led'.wstate = "CLOSED_OK" /\ led'.cstate = led.cstate
      /\ led'.ctask = led.ctask /\ led'.primary = led.primary
  BY <1>1, <1>2 DEF SameQueues, LedgerType, LedgerFields
<1>4. Core(led')
  BY DEF LedgerInvariant
<1>5. Sound(led', led, now) /\ Accepted(led') = Accepted(led) /\ led'.persisted = led.persisted
  BY <1>1, <1>3, <1>4, StableSound DEF SameQueues
<1>6. Clean'
  BY <1>1, <1>3, <1>5 DEF Clean
<1>7. Fate
  BY DEF Fate
<1>8. Log!CloseComplete
  <2>1. Verdict = "open" /\ Verdict' = "closed"
    BY <1>3 DEF Verdict, Failed
  <2> QED BY <1>5, <2>1 DEF Log!CloseComplete
<1> QED BY <1>1, <1>5, <1>6, <1>7, <1>8 DEF Effects, Sound, LogStep, Log!Next

LEMMA CloseDrainsEffects ==
  ASSUME Evidence, CloseDrains
  PROVE  Effects
<1>1. /\ Exact(led) /\ LedgerType(led) /\ CloseIsFinal /\ now \in Nat /\ TypeOK
  BY EvidenceFacts DEF Evidence, LedgerInvariant
<1>2. PICK E : E = [led EXCEPT !.pendingEmpty = FALSE]
  OBVIOUS
<1>3. PICK p : p = IF led.pending = <<>> THEN led ELSE Pump(E, now)
  OBVIOUS
<1>4. PICK stop \in BOOLEAN : stop = (p.pending = <<>> /\ p.wstate = "CLOSING" /\ ~Failed(p))
  OBVIOUS
<1>5. /\ closing.phase \in {"scheduled", "waitPending"}
      /\ led' = [p EXCEPT !.stopRequested = @ \/ stop, !.wakeup = @ \/ stop]
      /\ closing'.outcome = closing.outcome
      /\ UNCHANGED <<worker, disk, cancelReq, now>>
  BY <1>1, <1>2, <1>3, <1>4 DEF CloseDrains, TypeOK
<1>6. /\ Follows(p, led, now) /\ p.cstate = led.cstate /\ p.ctask = led.ctask
      /\ led.cstate = "RUNNING" => Spared(p, led)
  <2>1. CASE led.pending = <<>>
    <3>1. p = led
      BY <1>3, <2>1
    <3> QED BY <1>1, <3>1, StableFollows DEF SameLedger
  <2>2. CASE led.pending # <<>>
    <3>1. /\ LedgerType(E) /\ SameLedger(E, led) /\ E.pendingBytes = led.pendingBytes
          /\ E.cstate = led.cstate /\ E.ctask = led.ctask
      BY <1>1, <1>2 DEF LedgerType, LedgerFields, SameLedger
    <3>2. Follows(E, led, now) /\ Exact(E) /\ Spared(E, led)
      BY <1>1, <3>1, StableFollows DEF Follows, Sound
    <3>3. p = Pump(E, now)
      BY <1>3, <2>2
    <3>4. /\ Follows(p, E, now) /\ SameRun(p, E)
          /\ E.cstate = "RUNNING" => Spared(p, E)
      BY <1>1, <3>2, <3>3, PumpFollows
    <3>5. Follows(p, led, now) /\ (Spared(p, E) => Spared(p, led))
      BY <1>1, <3>2, <3>4, FollowsTrans
    <3> QED BY <3>1, <3>4, <3>5 DEF SameRun
  <2> QED BY <2>1, <2>2
<1>7. Exact(p) /\ LedgerType(p)
  BY <1>6 DEF Follows, Sound, Exact, Core
<1>8. /\ LedgerType(led') /\ SameLedger(led', p) /\ led'.pendingBytes = p.pendingBytes
      /\ led'.cstate = p.cstate /\ led'.ctask = p.ctask
  BY <1>5, <1>7 DEF LedgerType, LedgerFields, SameLedger
<1>9. Follows(led', p, now) /\ Spared(led', p)
  BY <1>7, <1>8, StableFollows
<1>10. Follows(led', led, now) /\ (Spared(p, led) => Spared(led', led))
  BY <1>1, <1>6, <1>9, FollowsTrans
<1>11. led.wstate # "CLOSED_OK"
  BY <1>1, <1>5 DEF CloseIsFinal
<1>12. Fate
  BY <1>6, <1>8, <1>10 DEF Fate
<1> QED BY <1>5, <1>6, <1>8, <1>10, <1>11, <1>12, FollowingStep

LEMMA CloseTaskEffects ==
  ASSUME Evidence, LedgerInvariant', CloseTask
  PROVE  Effects
<1>1. /\ Exact(led) /\ Core(led) /\ CloseIsFinal /\ FileMatches /\ Clean /\ TypeOK
      /\ led.persisted \in Nat /\ Accepted(led) \in Nat
  BY EvidenceFacts DEF Evidence, LedgerInvariant
<1>2. ASSUME NEW L, Exact(L), NEW code \in FailureCodes
      PROVE  LET M == Poison(L, code, LowestUnpersisted(L), 0, TRUE) IN
             Follows(M, L, now) /\ M.ctask = L.ctask /\ M.cstate = L.cstate
  <2>1. PICK o \in Nat \ {0} : o = LowestUnpersisted(L)
    BY <1>2, LowestIsOrdinal DEF Exact
  <2>2. PICK M : M = Poison(L, code, o, 0, TRUE)
    OBVIOUS
  <2>3. Follows(M, L, now) /\ SameRun(M, L)
    BY <1>2, <2>2, ImpossibleFollows
  <2> QED BY <2>1, <2>2, <2>3 DEF SameRun
<1>3. NO_CONSUMER \in FailureCodes /\ CLOSE_INCONSISTENCY \in FailureCodes
  BY DEF FailureCodes
<1>4. closing.phase # "done" => led.wstate # "CLOSED_OK"
  BY <1>1 DEF CloseIsFinal
<1>5. CASE CloseWithoutConsumer
  <2>1. /\ UNCHANGED <<worker, disk, cancelReq, now>> /\ led.ctask = "none"
        /\ closing.phase = "scheduled"
        /\ \/ ClosedOk /\ ~Failed(led) /\ Accepted(led) = 0 /\ led.cstate = "NOT_STARTED"
           \/ ClosedFailed(Poison(led, NO_CONSUMER, LowestUnpersisted(led), 0, TRUE))
           \/ ClosedFailed(Poison(led, CLOSE_INCONSISTENCY, LowestUnpersisted(led), 0, TRUE))
    BY <1>5 DEF CloseWithoutConsumer
  <2>2. ~TaskAlive(led) /\ led.wstate # "CLOSED_OK"
    BY <1>4, <2>1 DEF TaskAlive
  <2>3. CASE ClosedOk /\ ~Failed(led) /\ Accepted(led) = 0 /\ led.cstate = "NOT_STARTED"
    <3>1. led.persisted = Accepted(led) /\ Len(disk) = led.persisted
      BY <1>1, <2>1, <2>3, CoreNumbers DEF FileMatches
    <3> QED BY <2>1, <2>2, <2>3, <3>1, ClosedOkEffects
  <2>4. CASE ~(ClosedOk /\ ~Failed(led) /\ Accepted(led) = 0 /\ led.cstate = "NOT_STARTED")
    <3>1. PICK code \in FailureCodes :
            ClosedFailed(Poison(led, code, LowestUnpersisted(led), 0, TRUE))
      BY <1>3, <2>1, <2>4
    <3>2. PICK M : M = Poison(led, code, LowestUnpersisted(led), 0, TRUE)
      OBVIOUS
    <3>3. Follows(M, led, now) /\ M.ctask = led.ctask /\ M.cstate = led.cstate
      BY <1>1, <1>2, <3>2
    <3> QED BY <2>1, <2>2, <3>1, <3>2, <3>3, ClosedFailedEffects
  <2> QED BY <2>3, <2>4
<1>6. CASE CloseDrains
  BY <1>6, CloseDrainsEffects
<1>7. CASE CloseJoins
  <2>1. PICK r : r = RecordCancelled(led)
    OBVIOUS
  <2>2. PICK M : M = IF Failed(r) THEN r
                     ELSE Poison(r, CLOSE_INCONSISTENCY, LowestUnpersisted(r), 0, TRUE)
    OBVIOUS
  <2>3. /\ UNCHANGED <<worker, disk, cancelReq, now>> /\ led.ctask \in {"done", "reaped"}
        /\ closing.phase = "waitConsumer"
        /\ \/ /\ ClosedOk /\ ~Failed(r) /\ r.cstate = "EXITED_CLOSE_STOP"
              /\ r.persisted = Accepted(r)
           \/ ClosedFailed(M)
    BY <1>7, <2>1, <2>2 DEF CloseJoins
  <2>4. ~TaskAlive(led) /\ led.wstate # "CLOSED_OK"
    BY <1>4, <2>3 DEF TaskAlive
  <2>5. /\ Follows(r, led, now) /\ r.ctask = led.ctask
        /\ r = led \/ (Failed(r) /\ r.cstate = "EXITED_ERROR")
    BY <1>1, <2>1, RecordCancelledFollows
  <2>6. Exact(r)
    BY <2>5 DEF Follows, Sound
  <2>7. CASE ClosedOk /\ ~Failed(r) /\ r.cstate = "EXITED_CLOSE_STOP"
             /\ r.persisted = Accepted(r)
    <3>1. r = led /\ Len(disk) = led.persisted
      BY <1>1, <2>5, <2>7 DEF Clean
    <3> QED BY <2>3, <2>4, <2>7, <3>1, ClosedOkEffects
  <2>8. CASE ClosedFailed(M)
    <3>1. CASE Failed(r)
      <4>1. M = r
        BY <2>2, <3>1
      <4> QED BY <2>3, <2>4, <2>5, <2>8, <4>1, ClosedFailedEffects
    <3>2. CASE ~Failed(r)
      <4>1. r = led /\ M = Poison(r, CLOSE_INCONSISTENCY, LowestUnpersisted(r), 0, TRUE)
        BY <2>2, <2>5, <3>2
      <4>2. Follows(M, led, now) /\ M.ctask = led.ctask /\ M.cstate = led.cstate
        BY <1>1, <1>2, <1>3, <4>1
      <4> QED BY <2>3, <2>4, <2>8, <4>2, ClosedFailedEffects
    <3> QED BY <3>1, <3>2
  <2> QED BY <2>3, <2>7, <2>8
<1>8. CASE CloseCancelled
  <2>1. /\ closing'.outcome = closing.outcome
        /\ UNCHANGED <<led, worker, disk, cancelReq, now>>
        /\ closing.phase \in {"scheduled", "waitPending", "waitConsumer"}
    BY <1>1, <1>8 DEF CloseCancelled, TypeOK
  <2>2. Follows(led', led, now) /\ Spared(led', led)
    BY <1>1, <2>1, StableFollows DEF SameLedger, Core
  <2> QED BY <1>4, <2>1, <2>2, FollowingStep DEF Fate
<1>9. CASE CloseCancelRecorded
  <2>1. PICK M : M = IF Failed(led) THEN led
                     ELSE Poison(led, CLOSE_INCONSISTENCY, LowestUnpersisted(led), 0, TRUE)
    OBVIOUS
  <2>2. /\ closing.phase = "cancelled" /\ ClosedFailed(M)
        /\ UNCHANGED <<worker, disk, cancelReq, now>>
    BY <1>9, <2>1 DEF CloseCancelRecorded
  <2>3. Follows(M, led, now) /\ M.ctask = led.ctask /\ M.cstate = led.cstate
    <3>1. CASE Failed(led)
      <4>1. M = led
        BY <2>1, <3>1
      <4> QED BY <1>1, <4>1, StableFollows DEF SameLedger, Core
    <3>2. CASE ~Failed(led)
      <4>1. M = Poison(led, CLOSE_INCONSISTENCY, LowestUnpersisted(led), 0, TRUE)
        BY <2>1, <3>2
      <4> QED BY <1>1, <1>2, <1>3, <4>1
    <3> QED BY <3>1, <3>2
  <2>4. TaskAlive(led) => "consumer" \in cancelReq
    BY <1>1, <2>2 DEF CloseIsFinal
  <2> QED BY <1>4, <2>2, <2>3, <2>4, ClosedFailedEffects
<1> QED BY <1>5, <1>6, <1>7, <1>8, <1>9 DEF CloseTask

LEMMA LoopTeardownEffects ==
  ASSUME Evidence, LoopTeardown
  PROVE  Effects
<1>1. Exact(led) /\ Core(led)
  BY EvidenceFacts
<1>2. UNCHANGED <<led, worker, disk, closing, now>>
  BY DEF LoopTeardown
<1>3. Follows(led', led, now) /\ Spared(led', led)
  BY <1>1, <1>2, StableFollows DEF SameLedger, Core
<1>4. led'.wstate # "FAILING" \/ led.wstate # "CLOSED_OK"
  BY <1>2
<1> QED BY <1>2, <1>3, <1>4, FollowingStep DEF Fate

-----------------------------------------------------------------------------
(* The theorems. *)

LEMMA InitEstablishes ==
  ASSUME Init
  PROVE  LedgerInvariant
<1>1. Tiers # {} /\ 1 \in Tiers /\ Capacities[1] \in Nat /\ Budgets[1] \in Nat
  <2>1. Len(Capacities) \in Nat /\ Len(Capacities) > 0
    BY PolicyAssumption
  <2>2. 1 \in Tiers
    BY <2>1 DEF Tiers
  <2> QED BY <2>2, Rungs
<1>2. <<>> \in Seq(Nat) /\ <<>> \in Seq(Ticket) /\ Len(<<>>) = 0
  BY EmptySeq
<1>3. LedgerType(led)
  BY <1>1, <1>2 DEF Init, LedgerType, LedgerFields, WriterStates, ConsumerStates, TaskPhases,
                    NoFailure
<1>4. Queues(led) /\ Health(led) /\ Truthful(led)
  BY <1>1, <1>2 DEF Init, Queues, Health, Truthful, Accepted, Failed
<1>5. FileMatches /\ CloseIsFinal
  BY <1>2 DEF Init, FileMatches, CloseIsFinal, TaskAlive
<1>6. TypeOK
  BY <1>2, <1>3, LimitAssumption DEF Init, TypeOK, ClosePhases, Outcomes
<1> QED BY <1>3, <1>4, <1>5, <1>6 DEF LedgerInvariant, Core

LEMMA NextPreserves ==
  ASSUME LedgerInvariant, [Next]_vars
  PROVE  LedgerInvariant'
<1>1. CASE Next
  BY <1>1, ProducersPreserve, StartPreserves, StartFailsPreserves, ConsumerTaskPreserves,
     AppendThreadPreserves, ConsumerDonePreserves, HeadTimerPreserves, TickPreserves,
     ClosePreserves, CloseTaskPreserves, LoopTeardownPreserves DEF Next
<1>2. CASE UNCHANGED vars
  BY <1>2 DEF vars, LedgerInvariant, TypeOK, FileMatches, CloseIsFinal, TaskAlive
<1> QED BY <1>1, <1>2

\* The ledger, the file, the append thread and the close task stay consistent
\* in every interleaving of EventWriter's tasks, for every ladder and limit.
THEOREM LedgerInvariantHolds == Spec => []LedgerInvariant
<1>1. Init => LedgerInvariant
  BY InitEstablishes
<1>2. LedgerInvariant /\ [Next]_vars => LedgerInvariant'
  BY NextPreserves
<1> QED BY <1>1, <1>2, PTL DEF Spec

\* The fields of EventWriter keep their types.
THEOREM TypeOKHolds == Spec => []TypeOK
<1>1. LedgerInvariant => TypeOK
  BY DEF LedgerInvariant
<1> QED BY <1>1, LedgerInvariantHolds, PTL

\* normalized-events.jsonl is always the events 1, 2, 3, ... with every
\* acknowledged one and at most one more.
THEOREM DurablePrefixHolds == Spec => []DurablePrefix
<1>1. LedgerInvariant => DurablePrefix
  <2> SUFFICES ASSUME LedgerInvariant PROVE DurablePrefix
    OBVIOUS
  <2>1. FileMatches /\ led.persisted \in Nat
    BY CoreNumbers DEF LedgerInvariant
  <2> QED BY <2>1 DEF FileMatches, DurablePrefix
<1> QED BY <1>1, LedgerInvariantHolds, PTL

\* A producer's persistence and admission outcomes say what the watermarks say.
THEOREM OutcomesTruthfulHolds == Spec => []OutcomesTruthful
<1>1. LedgerInvariant => OutcomesTruthful
  BY DEF LedgerInvariant, Core, Truthful, OutcomesTruthful
<1> QED BY <1>1, LedgerInvariantHolds, PTL

LEMMA InitEvidence ==
  ASSUME Init
  PROVE  Evidence /\ Log!Init
<1>1. LedgerInvariant
  BY InitEstablishes
<1>2. Core(led)
  BY <1>1 DEF LedgerInvariant
<1>3. Len(<<>>) = 0
  BY NoNumbers
<1>4. /\ Accepted(led) = 0 /\ Len(led.pending) = 0 /\ Len(led.admitted) = 0
      /\ led.persisted = 0 /\ led.admittedHigh = 0
      /\ led.queuedBytes = 0 /\ led.pendingBytes = 0
      /\ led.cstate = "NOT_STARTED" /\ led.wstate = "NEW" /\ ~Failed(led)
      /\ worker.st = "idle" /\ Len(disk) = 0 /\ closing.outcome = "none"
  BY <1>3 DEF Init, Accepted, Failed
<1>5. End(led, 0) = 0
  BY DEF End
<1>6. Laid(led) /\ Timely(led, now)
  BY <1>4, <1>5 DEF Laid, Timely
<1>7. Weighed(led)
  BY <1>4, <1>5, TopRung DEF Weighed
<1>8. Clean
  BY <1>4 DEF Clean
<1>9. Log!Init
  BY <1>4 DEF Log!Init, Verdict
<1> QED BY <1>1, <1>2, <1>6, <1>7, <1>8, <1>9 DEF Evidence, Exact

LEMMA NextEffects ==
  ASSUME Evidence, [Next]_vars
  PROVE  Effects /\ Evidence'
<1>1. LedgerInvariant'
  BY NextPreserves DEF Evidence
<1>2. Effects
  <2>1. CASE Next
    BY <1>1, <2>1, ProducersEffects, StartEffects, ConsumerTaskEffects, AppendThreadEffects,
       ConsumerDoneEffects, HeadTimerEffects, TickEffects, CloseEffects, CloseTaskEffects,
       LoopTeardownEffects DEF Next
  <2>2. CASE UNCHANGED vars
    <3>1. UNCHANGED <<led, worker, disk, closing, cancelReq, now>>
      BY <2>2 DEF vars
    <3>2. Exact(led) /\ Core(led)
      BY EvidenceFacts
    <3>3. Follows(led', led, now) /\ Spared(led', led)
      BY <3>1, <3>2, StableFollows DEF SameLedger, Core
    <3>4. led'.wstate # "FAILING" \/ led.wstate # "CLOSED_OK"
      BY <3>1
    <3> QED BY <3>1, <3>3, <3>4, FollowingStep DEF Fate
  <2> QED BY <2>1, <2>2
<1> QED BY <1>1, <1>2 DEF Evidence, Effects

\* The byte counters, the tickets' places and deadlines and the state of a clean
\* close stay exact in every interleaving: what _verify_invariants asserts.
THEOREM EvidenceHolds == Spec => []Evidence
<1>1. Init => Evidence
  BY InitEvidence
<1>2. Evidence /\ [Next]_vars => Evidence'
  BY NextEffects
<1> QED BY <1>1, <1>2, PTL DEF Spec

\* A writer whose close reported success lost nothing: no failure, every accepted
\* event acknowledged and in the file, no append outstanding.
THEOREM CleanCloseIsCompleteHolds == Spec => []CleanCloseIsComplete
<1>1. Evidence => CleanCloseIsComplete
  <2> SUFFICES ASSUME Evidence, closing.outcome = "ok"
               PROVE  /\ ~Failed(led) /\ led.persisted = Accepted(led)
                      /\ Len(disk) = Accepted(led) /\ worker.st = "idle"
    BY DEF CleanCloseIsComplete
  <2>1. led.wstate = "CLOSED_OK" /\ led.persisted = Accepted(led)
    BY EvidenceFacts DEF Clean
  <2> QED BY <2>1, ClosedIsOver
<1> QED BY <1>1, EvidenceHolds, PTL

\* No acknowledgement, submission, timer or close admits an event at or after
\* its deadline.
THEOREM NeverAdmitsLateHolds == Spec => NeverAdmitsLate
<1>1. Evidence /\ [Next]_vars =>
        [\A i \in 1..Accepted(led) :
           led.tickets[i].admission = "none" /\ led'.tickets[i].admission = "ok"
             => now < led.tickets[i].deadline]_vars
  <2> SUFFICES ASSUME Evidence, [Next]_vars, NEW i \in 1..Accepted(led),
                      led.tickets[i].admission = "none", led'.tickets[i].admission = "ok"
               PROVE  now < led.tickets[i].deadline
    OBVIOUS
  <2>1. Exact(led) /\ Exact(led') /\ SameTickets(led', led) /\ OnTime(led', led, now)
    BY NextEffects, EvidenceFacts DEF Effects
  <2>2. PICK a \in Nat, b \in Nat, h \in Nat, k \in Nat :
          /\ a = Accepted(led) /\ b = Accepted(led') /\ h = led.admittedHigh
          /\ k = led'.admittedHigh
    BY <2>1, CoreNumbers DEF Exact
  <2>3. i \in 1..b
    BY <2>1, <2>2 DEF SameTickets
  <2>4. ~(i <= h) /\ i <= k
    BY <2>1, <2>2, <2>3 DEF Exact, Core, Truthful
  <2>5. h < i
    BY <2>2, <2>4
  <2> QED BY <2>1, <2>2, <2>4, <2>5 DEF OnTime
<1> QED BY <1>1, EvidenceHolds, PTL DEF Spec, NeverAdmitsLate

\* An event that was admitted is given up only when no consumer can append it any
\* more: no refusal, timeout or later failure takes it back.
THEOREM AdmittedPrefixSurvivesHolds == Spec => AdmittedPrefixSurvives
<1>1. Evidence /\ [Next]_vars =>
        [\A i \in 1..Accepted(led) :
           led.tickets[i].state = "ADMITTED" /\ led'.tickets[i].state = "FAILED_UNPERSISTED"
             => led'.cstate # "RUNNING" \/ ~TaskAlive(led) \/ "consumer" \in cancelReq]_vars
  <2> SUFFICES ASSUME Evidence, [Next]_vars, NEW i \in 1..Accepted(led),
                      led.tickets[i].state = "ADMITTED",
                      led'.tickets[i].state = "FAILED_UNPERSISTED"
               PROVE  led'.cstate # "RUNNING" \/ ~TaskAlive(led) \/ "consumer" \in cancelReq
    OBVIOUS
  <2>1. Fate
    BY NextEffects DEF Effects
  <2>2. ~Spared(led', led)
    BY DEF Spared
  <2> QED BY <2>1, <2>2 DEF Fate
<1> QED BY <1>1, EvidenceHolds, PTL DEF Spec, AdmittedPrefixSurvives

\* The pipeline implements the append-only log it promises its Run: every step
\* accepts, writes, acknowledges, fails or closes that log, or leaves it alone.
THEOREM ImplementsDurableLogHolds == Spec => ImplementsDurableLog
<1>1. Init => Log!Init
  BY InitEvidence
<1>2. Evidence /\ [Next]_vars => [Log!Next]_(Log!vars)
  BY NextEffects DEF Effects, LogStep
<1> QED BY <1>1, <1>2, EvidenceHolds, PTL DEF Spec, ImplementsDurableLog, Log!Spec

-----------------------------------------------------------------------------
(* The writer's own checks. *)

\* What is queued to be appended is marked as admitted.
Marked(L) ==
  \A i \in 1..Accepted(L) :
    L.persisted < i /\ i <= L.persisted + Len(L.admitted) => L.tickets[i].state = "ADMITTED"

\* No check has fired, and the queued tickets are marked.
Calm(L) == L.primary.rank # LEDGER_INVARIANT /\ Marked(L)

\* A method that fires no check; with a consumer running, it leaves what is in
\* flight alone.
Quiet(P, L) ==
  /\ Calm(L) => Calm(P)
  /\ L.cstate = "RUNNING" => P.inFlight = L.inFlight

LEMMA QuietTrans ==
  ASSUME NEW P, NEW Q, NEW L, Quiet(P, Q), Quiet(Q, L), Q.cstate = L.cstate
  PROVE  Quiet(P, L)
BY DEF Quiet

\* The ranks of the other failures.
LEMMA OtherCodes ==
  {SERIALIZATION, MAX_EVENTS, SATURATED_COUNT, SATURATED_BYTES, PRODUCER_TIMEOUT,
   CONSUMER_START, APPEND_FAILED, CONSUMER_CANCELLED, CLOSE_INCONSISTENCY, NO_CONSUMER}
    \subseteq FailureCodes \ {LEDGER_INVARIANT}
BY DEF FailureCodes, SERIALIZATION, MAX_EVENTS, SATURATED_COUNT, SATURATED_BYTES,
       PRODUCER_TIMEOUT, LEDGER_INVARIANT, CONSUMER_START, APPEND_FAILED, CONSUMER_CANCELLED,
       CLOSE_INCONSISTENCY, NO_CONSUMER

\* A step that keeps the queues, the tickets and the failure key.
LEMMA CalmStable ==
  ASSUME NEW M, NEW L, Calm(L), M.primary = L.primary, M.tickets = L.tickets,
         M.persisted = L.persisted, M.admitted = L.admitted
  PROVE  Calm(M)
<1>1. Accepted(M) = Accepted(L)
  BY DEF Accepted
<1>2. Marked(M)
  BY <1>1 DEF Calm, Marked
<1> QED BY <1>2 DEF Calm

\* A ledger with nothing admitted has nothing to mark.
LEMMA NothingToMark ==
  ASSUME NEW L, Core(L), L.admitted = <<>>
  PROVE  Marked(L)
<1>1. PICK p \in Nat, a \in Nat : p = L.persisted /\ a = Accepted(L) /\ Len(L.admitted) = 0
  BY CoreNumbers, NoNumbers
<1>2. \A i \in 1..a : ~(p < i /\ i <= p + 0)
  OBVIOUS
<1> QED BY <1>1, <1>2 DEF Marked

LEMMA FailPendingStates ==
  ASSUME NEW L, LedgerType(L), NEW victim \in Nat, NEW i \in 1..Len(L.tickets),
         ~IsIn(i, L.pending)
  PROVE  FailPending(L, victim).tickets[i] = L.tickets[i]
BY DEF FailPending, LedgerType, LedgerFields

\* Every failure but the self-check's keeps the ledger calm, and one that leaves
\* a running consumer its queue leaves it what is in flight.
LEMMA PoisonQuiet ==
  ASSUME NEW L, Core(L), NEW code \in FailureCodes \ {LEDGER_INVARIANT},
         NEW ordinal \in Nat \ {0}, NEW victim \in Nat, NEW impossible \in BOOLEAN
  PROVE  LET P == Poison(L, code, ordinal, victim, impossible) IN
         /\ Calm(L) => Calm(P)
         /\ ~impossible => Quiet(P, L)
<1>1. PICK key : key = [ordinal |-> ordinal, rank |-> code]
  OBVIOUS
<1>2. PICK R : R = RecordFailure(L, key)
  OBVIOUS
<1>3. LedgerType(L) /\ Queues(L) /\ code \in FailureCodes
  BY DEF Core
<1>4. /\ LedgerType(R) /\ R.tickets = L.tickets /\ R.admitted = L.admitted
      /\ R.pending = L.pending /\ R.persisted = L.persisted /\ R.inFlight = L.inFlight
      /\ R.cstate = L.cstate
  BY <1>1, <1>2, <1>3, RecordFailureFacts
<1>5. R.primary = Lower(L.primary, key)
  BY <1>2, <1>3 DEF RecordFailure, LedgerType, LedgerFields
<1>6. L.primary.rank # LEDGER_INVARIANT => R.primary.rank # LEDGER_INVARIANT
  <2>1. Lower(L.primary, key) \in {L.primary, key} /\ key.rank = code
    BY <1>1 DEF Lower
  <2> QED BY <1>5, <2>1
<1>7. PICK F : F = FailPending(R, victim)
  OBVIOUS
<1>8. /\ LedgerType(F) /\ F.admitted = L.admitted /\ F.primary = R.primary
      /\ F.persisted = L.persisted /\ F.inFlight = L.inFlight /\ Len(F.tickets) = Len(L.tickets)
  BY <1>4, <1>7, FailPendingFacts
<1>9. Marked(L) => Marked(F)
  <2> HAVE Marked(L)
  <2>1. PICK a \in Nat, p \in Nat, h \in Nat, x \in Nat, y \in Nat :
          /\ a = Accepted(L) /\ p = L.persisted /\ h = L.admittedHigh
          /\ x = Len(L.admitted) /\ y = Len(L.pending)
    BY CoreNumbers
  <2>2. p <= h /\ x \in {0, h - p} /\ \A j \in 1..y : L.pending[j] = h + j
    BY <1>3, <2>1 DEF Queues
  <2>3. ASSUME NEW i \in 1..a, p < i, i <= p + x
        PROVE  F.tickets[i].state = "ADMITTED"
    <3>1. i <= h
      BY <2>1, <2>2, <2>3
    <3>2. ~IsIn(i, L.pending)
      <4>1. \A j \in 1..y : h + j # i
        BY <2>1, <3>1
      <4> QED BY <2>1, <2>2, <4>1 DEF IsIn
    <3>3. i \in 1..Len(R.tickets) /\ ~IsIn(i, R.pending)
      BY <1>4, <2>1, <3>2 DEF Accepted
    <3>4. F.tickets[i] = L.tickets[i]
      BY <1>4, <1>7, <3>3, FailPendingStates
    <3> QED BY <2>1, <2>3, <3>4 DEF Marked
  <2>4. Accepted(F) = a
    BY <1>8, <2>1 DEF Accepted
  <2> QED BY <1>8, <2>1, <2>3, <2>4 DEF Marked
<1>10. PICK A : A = FailAdmitted(F)
  OBVIOUS
<1>11. LedgerType(A) /\ A.admitted = <<>> /\ A.primary = R.primary
  BY <1>8, <1>10, FailAdmittedFacts
<1>12. PICK D : D = [F EXCEPT !.drainThenExit = TRUE]
  OBVIOUS
<1>13. /\ LedgerType(D) /\ D.admitted = F.admitted /\ D.primary = F.primary
       /\ D.persisted = F.persisted /\ D.tickets = F.tickets /\ D.inFlight = F.inFlight
  BY <1>8, <1>12 DEF LedgerType, LedgerFields
<1>14. PICK P : P = Poison(L, code, ordinal, victim, impossible)
  OBVIOUS
<1>15. P = [(IF impossible \/ L.cstate # "RUNNING" THEN A ELSE D) EXCEPT !.wakeup = TRUE]
  BY <1>1, <1>2, <1>7, <1>10, <1>12, <1>14 DEF Poison
<1>16. Core(P)
  BY <1>3, <1>14, PoisonCore
<1>17. CASE impossible \/ L.cstate # "RUNNING"
  <2>1. P = [A EXCEPT !.wakeup = TRUE]
    BY <1>15, <1>17
  <2>2. P.admitted = <<>> /\ P.primary = R.primary
    BY <1>11, <2>1 DEF LedgerType, LedgerFields
  <2>3. Marked(P)
    BY <1>16, <2>2, NothingToMark
  <2> QED BY <1>6, <1>14, <1>17, <2>2, <2>3 DEF Calm, Quiet
<1>18. CASE ~(impossible \/ L.cstate # "RUNNING")
  <2>1. P = [D EXCEPT !.wakeup = TRUE]
    BY <1>15, <1>18
  <2>2. /\ P.admitted = F.admitted /\ P.primary = F.primary /\ P.persisted = F.persisted
        /\ P.tickets = F.tickets /\ P.inFlight = L.inFlight
    BY <1>8, <1>13, <2>1 DEF LedgerType, LedgerFields
  <2>3. Calm(L) => Calm(F)
    BY <1>6, <1>8, <1>9 DEF Calm
  <2>4. Calm(F) => Calm(P)
    BY <2>2, CalmStable
  <2> QED BY <1>14, <2>2, <2>3, <2>4 DEF Quiet
<1> QED BY <1>17, <1>18

LEMMA AdmitPrefixQuiet ==
  ASSUME NEW L, Exact(L), ~Failed(L), NEW k \in 0..Len(L.pending), Fits(L, k)
  PROVE  Quiet(AdmitPrefix(L, k), L)
<1>1. Core(L) /\ LedgerType(L) /\ Queues(L) /\ Health(L)
  BY DEF Exact, Core
<1>2. PICK A : A = AdmitPrefix(L, k)
  OBVIOUS
<1>3. PICK a \in Nat, p \in Nat, h \in Nat, x \in Nat, y \in Nat :
        /\ a = Accepted(L) /\ p = L.persisted /\ h = L.admittedHigh
        /\ x = Len(L.admitted) /\ y = Len(L.pending)
  BY <1>1, CoreNumbers
<1>4. p <= h /\ h <= a /\ x = h - p /\ k \in Nat /\ k <= y
  BY <1>1, <1>3 DEF Queues, Health
<1>5. L.pending \in Seq(Nat) /\ L.admitted \in Seq(Nat)
  BY <1>1 DEF LedgerType
<1>6. PICK pre : pre = SubSeq(L.pending, 1, k)
  OBVIOUS
<1>7. pre \in Seq(Nat) /\ Len(pre) = k /\ \A i \in 1..k : pre[i] = L.pending[i]
  <2>1. /\ SubSeq(L.pending, 1, k) \in Seq(Nat) /\ Len(SubSeq(L.pending, 1, k)) = k
        /\ \A i \in 1..k : SubSeq(L.pending, 1, k)[i] = L.pending[i]
    BY <1>5, CutProperties, Zenon
  <2> QED BY <1>6, <2>1
<1>8. PICK adm : adm = L.admitted \o pre
  OBVIOUS
<1>9. Len(adm) = x + k
  BY <1>3, <1>5, <1>7, <1>8, ConcatProperties
<1> DEFINE G(i) == IF IsIn(i, pre)
                   THEN [L.tickets[i] EXCEPT !.state = "ADMITTED", !.admission = "ok"]
                   ELSE L.tickets[i]
<1>10. PICK T : T = [i \in 1..Len(L.tickets) |-> G(i)]
  OBVIOUS
<1>11. ASSUME NEW i \in 1..Len(L.tickets)
       PROVE  /\ T[i] = L.tickets[i] \/ T[i].state = "ADMITTED"
              /\ IsIn(i, pre) => T[i].state = "ADMITTED"
  <2>1. L.tickets[i] \in Ticket
    BY <1>1 DEF LedgerType
  <2>2. T[i] = G(i)
    BY <1>10
  <2> QED BY <2>1, <2>2 DEF Ticket
<1>12. PICK less, more, high :
         /\ less = L.pendingBytes - PrefixBytes(L, L.pending, k)
         /\ more = L.queuedBytes + PrefixBytes(L, L.pending, k)
         /\ high = IF k = 0 THEN L.admittedHigh ELSE L.pending[k]
  OBVIOUS
<1>13. A = [L EXCEPT !.pending = SubSeq(L.pending, k + 1, Len(L.pending)), !.admitted = adm,
                     !.pendingBytes = less, !.queuedBytes = more, !.admittedHigh = high,
                     !.tickets = T, !.wakeup = @ \/ k > 0]
  BY <1>2, <1>6, <1>8, <1>10, <1>12 DEF AdmitPrefix
<1> HIDE DEF G
<1>14. /\ A.primary = L.primary /\ A.persisted = p /\ A.inFlight = L.inFlight
       /\ A.admitted = adm /\ A.tickets = T
  BY <1>1, <1>3, <1>13 DEF LedgerType, LedgerFields
<1>15. Accepted(A) = a
  <2>1. Core(A)
    BY <1>1, <1>2, AdmitPrefixCore
  <2>2. A.tickets \in Seq(Ticket) /\ DOMAIN A.tickets = 1..Len(L.tickets)
    BY <1>10, <1>14, <2>1 DEF Core, LedgerType
  <2> QED BY <1>3, <2>2 DEF Accepted
<1>16. ASSUME Marked(L), NEW i \in 1..a, p < i, i <= p + (x + k)
       PROVE  T[i].state = "ADMITTED"
  <2>1. i \in 1..Len(L.tickets)
    BY <1>3 DEF Accepted
  <2>2. CASE i <= h
    <3>1. L.tickets[i].state = "ADMITTED"
      BY <1>3, <1>4, <1>16, <2>2 DEF Marked
    <3> QED BY <1>11, <2>1, <3>1
  <2>3. CASE h < i
    <3>0. i \in Nat /\ k \in Nat /\ i <= h + k /\ h < i
      <4>1. i \in Nat /\ p + (x + k) = h + k
        BY <1>4
      <4> QED BY <1>4, <1>16, <2>3, <4>1
    <3>1. i - h \in 1..k /\ i - h \in 1..y /\ h + (i - h) = i
      <4>1. h \in Nat /\ y \in Nat /\ k <= y
        BY <1>4
      <4>2. \A m, n, j \in Nat : j <= m + n /\ m < j => j - m \in 1..n /\ m + (j - m) = j
        OBVIOUS
      <4>3. i - h \in 1..k /\ h + (i - h) = i
        BY <3>0, <4>1, <4>2
      <4> QED BY <3>0, <4>1, <4>3
    <3>2. L.pending[i - h] = i
      <4>1. \A j \in 1..y : L.pending[j] = h + j
        BY <1>1, <1>3 DEF Queues
      <4> QED BY <3>1, <4>1
    <3>3. IsIn(i, pre)
      BY <1>7, <3>1, <3>2 DEF IsIn
    <3> QED BY <1>11, <2>1, <3>3
  <2> QED BY <1>3, <2>2, <2>3
<1>17. Marked(L) => Marked(A)
  BY <1>9, <1>14, <1>15, <1>16 DEF Marked
<1> QED BY <1>2, <1>14, <1>17 DEF Quiet, Calm

\* A step that changes neither queue, ticket, key nor flight.
LEMMA StableQuiet ==
  ASSUME NEW M, NEW L, SameLedger(M, L)
  PROVE  Quiet(M, L)
BY CalmStable DEF SameLedger, Quiet

LEMMA AdmitFittingQuiet ==
  ASSUME NEW L, Exact(L), ~Failed(L)
  PROVE  Quiet(AdmitFitting(L), L)
<1> DEFINE S == {k \in 0..Len(L.pending) : Fits(L, k)}
<1>1. Core(L)
  BY DEF Exact
<1>2. Fits(L, 0)
  BY <1>1, CoreNumbers DEF Core, Queues, Fits, PrefixBytes
<1>3. Len(L.pending) \in Nat /\ 0 \in S
  BY <1>1, <1>2, CoreNumbers
<1>4. Max(S) \in S
  BY <1>3, MaxOfBounded
<1>5. Max(S) \in 0..Len(L.pending) /\ Fits(L, Max(S))
  BY <1>4
<1> QED BY <1>5, AdmitPrefixQuiet DEF AdmitFitting

LEMMA AdmitAndGrowQuiet ==
  ASSUME NEW L, Exact(L), ~Failed(L)
  PROVE  Quiet(AdmitAndGrow(L), L)
<1>1. PICK a : a = AdmitFitting(L)
  OBVIOUS
<1>2. Exact(a) /\ ~Failed(a) /\ a.cstate = L.cstate /\ Quiet(a, L)
  BY <1>1, AdmitFittingExact, AdmitFittingCore, AdmitFittingQuiet DEF SameRun, Exact
<1>3. CASE a.pending # <<>> /\ CanGrow(a)
  <2>1. PICK g : g = Grow(a)
    OBVIOUS
  <2>2. Exact(g) /\ ~Failed(g) /\ g.cstate = a.cstate
    BY <1>2, <1>3, <2>1, GrowExact, GrowCore DEF SameRun, Exact
  <2>3. Quiet(g, a)
    <3>1. /\ g.tickets = a.tickets /\ g.admitted = a.admitted /\ g.persisted = a.persisted
          /\ g.primary = a.primary /\ g.inFlight = a.inFlight
      BY <1>2, <2>1 DEF Grow, Exact, Core, LedgerType, LedgerFields
    <3> QED BY <3>1, CalmStable DEF Quiet
  <2>4. PICK f : f = AdmitFitting(g)
    OBVIOUS
  <2>5. Quiet(f, g)
    BY <2>2, <2>4, AdmitFittingQuiet
  <2>6. Quiet(f, L)
    BY <1>2, <2>2, <2>3, <2>5, QuietTrans
  <2> QED BY <1>1, <1>3, <2>1, <2>4, <2>6 DEF AdmitAndGrow
<1>4. CASE ~(a.pending # <<>> /\ CanGrow(a))
  BY <1>1, <1>2, <1>4 DEF AdmitAndGrow
<1> QED BY <1>3, <1>4

\* The pump of an exact ledger fires no check.
LEMMA PumpQuiet ==
  ASSUME NEW L, Exact(L), NEW t \in Nat
  PROVE  Quiet(Pump(L, t), L)
<1>1. Core(L) /\ LedgerType(L) /\ Queues(L)
  BY DEF Exact, Core
<1>2. PICK P : P = Pump(L, t)
  OBVIOUS
<1>3. CASE ~Live(L)
  <2>1. P = [L EXCEPT !.timer = 0]
    BY <1>2, <1>3 DEF Pump
  <2>2. SameLedger(P, L)
    BY <1>1, <2>1 DEF SameLedger, LedgerType, LedgerFields
  <2> QED BY <1>2, <2>2, StableQuiet
<1>4. CASE Live(L) /\ L.pending # <<>> /\ t >= L.tickets[L.pending[1]].deadline
  <2>1. P = Poison(L, PRODUCER_TIMEOUT, L.pending[1], L.pending[1], FALSE)
    BY <1>2, <1>4 DEF Pump
  <2>2. 1 \in 1..Len(L.pending)
    <3>1. Len(L.pending) # 0
      BY <1>1, <1>4, EmptySeq DEF LedgerType
    <3> QED BY <1>1, <3>1, CoreNumbers
  <2>3. L.pending[1] = L.admittedHigh + 1
    BY <1>1, <2>2 DEF Queues
  <2>4. PICK s \in Nat \ {0} : s = L.pending[1]
    BY <1>1, <2>3, CoreNumbers
  <2>5. PICK code \in FailureCodes \ {LEDGER_INVARIANT}, no \in BOOLEAN :
          code = PRODUCER_TIMEOUT /\ no = FALSE
    BY OtherCodes, FALSE \in BOOLEAN
  <2>6. s \in Nat /\ P = Poison(L, code, s, s, no)
    BY <2>1, <2>4, <2>5
  <2> QED BY <1>1, <1>2, <2>5, <2>6, PoisonQuiet
<1>5. CASE Live(L) /\ ~(L.pending # <<>> /\ t >= L.tickets[L.pending[1]].deadline)
  <2>1. PICK g : g = AdmitAndGrow(L)
    OBVIOUS
  <2>2. ~Failed(L)
    BY <1>1, <1>5, LiveIsHealthy
  <2>3. Exact(g) /\ Quiet(g, L) /\ g.cstate = L.cstate
    BY <2>1, <2>2, AdmitAndGrowExact, AdmitAndGrowQuiet
  <2>4. PICK q : q = RearmTimer(g)
    OBVIOUS
  <2>5. SameLedger(q, g)
    BY <2>3, <2>4 DEF RearmTimer, SameLedger, Exact, Core, LedgerType, LedgerFields
  <2>6. Quiet(q, g) /\ Exact(q)
    BY <2>3, <2>4, <2>5, StableQuiet, RearmTimerExact
  <2>7. P = Verified(q, LowestUnpersisted(q))
    BY <1>2, <1>5, <2>1, <2>4 DEF Pump
  <2>8. P = q
    BY <2>6, <2>7, SelfCheck
  <2> QED BY <1>2, <2>3, <2>6, <2>8, QuietTrans
<1> QED BY <1>3, <1>4, <1>5

\* An accepted event is not in the admitted queue.
LEMMA AcceptQuiet ==
  ASSUME NEW L, Core(L), NEW n \in Nat \ {0}, NEW deadline \in Nat
  PROVE  Quiet(Accept(L, n, deadline), L)
<1>1. LedgerType(L) /\ Queues(L)
  BY DEF Core
<1>2. PICK a \in Nat, p \in Nat, h \in Nat, x \in Nat :
        a = Accepted(L) /\ p = L.persisted /\ h = L.admittedHigh /\ x = Len(L.admitted)
  BY CoreNumbers
<1>3. p <= h /\ h <= a /\ x \in {0, h - p}
  BY <1>1, <1>2 DEF Queues
<1>4. PICK new, A :
        /\ A = Accept(L, n, deadline)
        /\ A = [L EXCEPT !.tickets = Append(@, new),
                         !.pending = Append(@, Accepted(L) + 1),
                         !.pendingBytes = @ + n,
                         !.pendingEmpty = FALSE]
  BY DEF Accept
<1>5. /\ A.primary = L.primary /\ A.persisted = p /\ A.admitted = L.admitted
      /\ A.inFlight = L.inFlight /\ A.tickets = Append(L.tickets, new)
  BY <1>1, <1>2, <1>4 DEF LedgerType, LedgerFields
<1>6. \A i \in 1..a : A.tickets[i] = L.tickets[i]
  BY <1>1, <1>2, <1>5, AppendProperties DEF LedgerType, Accepted
<1>7. \A i \in Nat : i <= p + x => i <= a
  BY <1>2, <1>3
<1>8. Accepted(A) = a + 1
  BY <1>1, <1>2, <1>5 DEF LedgerType, Accepted
<1>9. Marked(L) => Marked(A)
  <2> SUFFICES ASSUME Marked(L), NEW i \in 1..a + 1, p < i, i <= p + x
               PROVE  A.tickets[i].state = "ADMITTED"
    BY <1>2, <1>5, <1>8 DEF Marked
  <2>1. i \in 1..a
    BY <1>2, <1>7
  <2> QED BY <1>2, <1>6, <2>1 DEF Marked
<1> QED BY <1>4, <1>5, <1>9 DEF Quiet, Calm

LEMMA CommitQuiet ==
  ASSUME NEW L, Exact(L), Open(L), NEW n \in Nat \ {0}, NEW t \in Nat,
         Timely(L, t)
  PROVE  Quiet(Commit(L, n, t), L)
<1>1. PICK s \in Nat \ {0}, no \in BOOLEAN, deadline \in Nat :
        s = Accepted(L) + 1 /\ no = FALSE /\ deadline = t + ProducerTimeout
  <2>1. Accepted(L) \in Nat /\ ProducerTimeout \in Nat
    BY CoreNumbers, LimitAssumption DEF Exact
  <2>2. Accepted(L) + 1 \in Nat \ {0} /\ t + ProducerTimeout \in Nat /\ FALSE \in BOOLEAN
    BY <2>1
  <2> QED BY <2>2
<1>2. ~Failed(L) /\ Core(L)
  BY DEF Open, Exact
<1>3. PICK codes \in SUBSET (FailureCodes \ {LEDGER_INVARIANT}) :
        codes = {MAX_EVENTS, SATURATED_COUNT, SATURATED_BYTES}
  BY OtherCodes
<1>4. CASE \E code \in codes : Commit(L, n, t) = Poison(L, code, s, 0, no)
  <2>1. PICK code \in FailureCodes \ {LEDGER_INVARIANT} : Commit(L, n, t) = Poison(L, code, s, 0, no)
    BY <1>4
  <2> QED BY <1>1, <1>2, <2>1, PoisonQuiet
<1>5. CASE ~(\E code \in codes : Commit(L, n, t) = Poison(L, code, s, 0, no))
  <2>1. PICK A : A = Accept(L, n, deadline)
    OBVIOUS
  <2>2. MAX_EVENTS \in codes /\ SATURATED_COUNT \in codes /\ SATURATED_BYTES \in codes
    BY <1>3
  <2>3. /\ Commit(L, n, t) # Poison(L, MAX_EVENTS, s, 0, FALSE)
        /\ Commit(L, n, t) # Poison(L, SATURATED_COUNT, s, 0, FALSE)
        /\ Commit(L, n, t) # Poison(L, SATURATED_BYTES, s, 0, FALSE)
    BY <1>1, <1>5, <2>2
  <2>4. /\ ~(Len(L.pending) >= MaxCapacity)
        /\ ~(L.pendingBytes + L.queuedBytes + n > MaxBytes)
        /\ Commit(L, n, t) = IF Verified(A, s) = A THEN Pump(Verified(A, s), t)
                             ELSE Verified(A, s)
    BY <1>1, <2>1, <2>3 DEF Commit
  <2>5. Len(L.pending) < MaxCapacity /\ L.pendingBytes + L.queuedBytes + n <= MaxBytes
    BY <1>2, <2>4, CoreNumbers, TopRung
  <2>6. \A i \in 1..Accepted(L) : L.tickets[i].deadline <= deadline
    BY <1>1 DEF Timely
  <2>7. Exact(A) /\ SameTask(A, L)
    BY <1>1, <1>2, <2>1, <2>5, <2>6, AcceptExact
  <2>8. Verified(A, s) = A
    BY <2>7, SelfCheck
  <2>9. Quiet(A, L) /\ Quiet(Pump(A, t), A) /\ A.cstate = L.cstate
    BY <1>2, <2>1, <2>7, AcceptQuiet, PumpQuiet DEF SameTask
  <2>10. Commit(L, n, t) = Pump(A, t)
    BY <2>4, <2>8
  <2> QED BY <2>9, <2>10, QuietTrans
<1> QED BY <1>4, <1>5

LEMMA SubmittedQuiet ==
  ASSUME NEW L, Exact(L), Open(L), NEW n \in EventBytes, NEW t \in Nat, Timely(L, t)
  PROVE  Quiet(Submitted(L, n, t), L)
<1>1. PICK p : p = Pump(L, t)
  OBVIOUS
<1>2. Sound(p, L, t) /\ SameRun(p, L) /\ Quiet(p, L)
  BY <1>1, PumpSound, PumpQuiet
<1>3. Submitted(L, n, t) = IF Open(p) THEN Commit(p, PreparedBytes(n), t) ELSE p
  BY <1>1 DEF Submitted
<1>4. CASE ~Open(p)
  BY <1>2, <1>3, <1>4
<1>5. CASE Open(p)
  <2>1. PICK m \in Nat \ {0} : m = PreparedBytes(n)
    BY PreparedIsPositive
  <2>2. Exact(p) /\ Timely(p, t) /\ p.cstate = L.cstate
    BY <1>2 DEF Sound, SameRun
  <2>3. Quiet(Commit(p, m, t), p)
    BY <1>5, <2>2, CommitQuiet
  <2>4. Quiet(Commit(p, m, t), L)
    BY <1>2, <2>2, <2>3, QuietTrans
  <2> QED BY <1>3, <1>5, <2>1, <2>4
<1> QED BY <1>4, <1>5

\* A failure nothing survives, with the task where it was.
LEMMA ImpossibleCalm ==
  ASSUME NEW L, Core(L), Calm(L), NEW code \in FailureCodes \ {LEDGER_INVARIANT},
         NEW ordinal \in Nat \ {0}
  PROVE  LET M == Poison(L, code, ordinal, 0, TRUE) IN
         Core(M) /\ Calm(M) /\ M.cstate = L.cstate /\ M.ctask = L.ctask
<1>1. PICK yes \in BOOLEAN : yes = TRUE
  OBVIOUS
<1>2. PICK M : M = Poison(L, code, ordinal, 0, yes)
  OBVIOUS
<1>3. Calm(M) /\ Core(M) /\ SameRun(M, L)
  BY <1>2, PoisonQuiet, PoisonSameRun
<1> QED BY <1>1, <1>2, <1>3 DEF SameRun

LEMMA AcknowledgeCalm ==
  ASSUME NEW L, Core(L), Calm(L), NEW s, L.admitted # <<>>, s = L.persisted + 1
  PROVE  Calm(Acknowledge(L, s))
<1>1. LedgerType(L) /\ Queues(L)
  BY DEF Core
<1>2. PICK a \in Nat, p \in Nat, h \in Nat, x \in Nat :
        a = Accepted(L) /\ p = L.persisted /\ h = L.admittedHigh /\ x = Len(L.admitted)
  BY CoreNumbers
<1>3. L.tickets \in Seq(Ticket) /\ L.admitted \in Seq(Nat) /\ x # 0
  BY <1>1, <1>2, EmptySeq DEF LedgerType
<1>4. p <= h /\ h <= a /\ x = h - p
  BY <1>1, <1>2, <1>3 DEF Queues
<1>5. PICK adm : adm = Tail(L.admitted)
  OBVIOUS
<1>6. Len(adm) = x - 1
  BY <1>2, <1>3, <1>5, HeadTailProperties
<1>7. PICK new : new = [L.tickets[s] EXCEPT !.state = "PERSISTED", !.persistence = "ok"]
  OBVIOUS
<1>8. PICK T : T = [L.tickets EXCEPT ![s] = new]
  OBVIOUS
<1>9. \A i \in 1..a : i # s => T[i] = L.tickets[i]
  BY <1>2, <1>3, <1>8 DEF Accepted
<1>10. PICK A : A = Acknowledge(L, s)
  OBVIOUS
<1>11. A = [L EXCEPT !.admitted = adm, !.queuedBytes = @ - L.tickets[s].nbytes, !.persisted = s,
                     !.tickets = T, !.inFlight = 0]
  BY <1>5, <1>7, <1>8, <1>10 DEF Acknowledge
<1>12. A.admitted = adm /\ A.persisted = s /\ A.tickets = T /\ A.primary = L.primary
  BY <1>1, <1>11 DEF LedgerType, LedgerFields
<1>13. Accepted(A) = a
  <2>1. Core(A)
    BY <1>10, AcknowledgeCore
  <2>2. A.tickets \in Seq(Ticket) /\ DOMAIN A.tickets = DOMAIN L.tickets
    BY <1>8, <1>12, <2>1 DEF Core, LedgerType
  <2> QED BY <1>2, <1>3, <2>2 DEF Accepted
<1>14. ASSUME NEW i \in 1..a, s < i, i <= s + (x - 1)
       PROVE  T[i].state = "ADMITTED"
  <2>1. s = p + 1
    BY <1>2
  <2>2. i # s /\ p < i /\ i <= p + x
    BY <1>14, <2>1
  <2>3. L.tickets[i].state = "ADMITTED"
    BY <1>2, <2>2 DEF Calm, Marked
  <2> QED BY <1>9, <2>2, <2>3
<1>15. Marked(A)
  BY <1>6, <1>12, <1>13, <1>14 DEF Marked
<1> QED BY <1>10, <1>12, <1>15 DEF Calm

\* The acknowledgement of what is in flight is the one _durable_ack expects.
LEMMA DurableAckCalm ==
  ASSUME NEW L, Exact(L), Calm(L), L.inFlight # 0, NEW t \in Nat, NEW s, s = L.persisted + 1
  PROVE  Calm(DurableAck(L, s, t))
<1>1. Core(L) /\ LedgerType(L) /\ Queues(L)
  BY DEF Exact, Core
<1>2. PICK a \in Nat, p \in Nat, h \in Nat, x \in Nat :
        a = Accepted(L) /\ p = L.persisted /\ h = L.admittedHigh /\ x = Len(L.admitted)
  BY <1>1, CoreNumbers
<1>3. x > 0 /\ L.inFlight = s /\ L.admitted # <<>>
  BY <1>1, <1>2, NoNumbers DEF Queues
<1>4. p <= h /\ h <= a /\ x = h - p /\ L.admitted[1] = s
  <2>1. 1 \in 1..x
    BY <1>3
  <2>2. L.admitted[1] = p + 1
    BY <1>1, <1>2, <2>1 DEF Queues
  <2> QED BY <1>1, <1>2, <1>3, <2>2 DEF Queues
<1>5. L.tickets[s].state = "ADMITTED"
  <2>1. s = p + 1
    BY <1>2
  <2>2. s \in 1..a /\ p < s /\ s <= p + x
    BY <1>3, <1>4, <2>1
  <2> QED BY <1>2, <2>2 DEF Calm, Marked
<1>6. PICK A : A = Acknowledge(L, s)
  OBVIOUS
<1>7. Exact(A) /\ Calm(A)
  BY <1>1, <1>3, <1>6, AcknowledgeExact, AcknowledgeCalm
<1>8. Verified(A, s) = A
  BY <1>7, SelfCheck
<1>9. DurableAck(L, s, t) = [Pump(A, t) EXCEPT !.wakeup = TRUE]
  BY <1>3, <1>4, <1>5, <1>6, <1>8 DEF DurableAck
<1>10. PICK q : q = Pump(A, t)
  OBVIOUS
<1>11. Calm(q) /\ LedgerType(q)
  BY <1>7, <1>10, PumpQuiet, PumpCore DEF Quiet, Exact, Core
<1>12. PICK w : w = [q EXCEPT !.wakeup = TRUE]
  OBVIOUS
<1>13. /\ w.primary = q.primary /\ w.tickets = q.tickets /\ w.persisted = q.persisted
       /\ w.admitted = q.admitted
  BY <1>11, <1>12 DEF LedgerType, LedgerFields
<1>14. Calm(w)
  BY <1>11, <1>13, CalmStable
<1> QED BY <1>9, <1>10, <1>12, <1>14

LEMMA TaskEndsCalm ==
  ASSUME NEW L, LedgerType(L), Calm(L), NEW how
  PROVE  LET E == TaskEnds(L, how) IN
         Calm(E) /\ E.ctask = "done" /\ E.cstate = how
<1>1. PICK E : E = TaskEnds(L, how)
  OBVIOUS
<1>2. /\ E.primary = L.primary /\ E.tickets = L.tickets /\ E.persisted = L.persisted
      /\ E.admitted = L.admitted /\ E.ctask = "done" /\ E.cstate = how
  BY <1>1 DEF TaskEnds, LedgerType, LedgerFields
<1>3. Calm(E)
  BY <1>2, CalmStable
<1> QED BY <1>1, <1>2, <1>3

\* From the top of its loop to the next await, the consumer fires no check, and
\* what it starts to append is in flight.
LEMMA ConsumerLoopCalm ==
  ASSUME NEW L, Core(L), Calm(L), L.cstate = "RUNNING"
  PROVE  LET P == ConsumerLoop(L) IN
         /\ Calm(P)
         /\ TaskAlive(P) => P.cstate = "RUNNING"
         /\ P.ctask = "appending" => P.inFlight # 0
<1>1. LedgerType(L) /\ Queues(L)
  BY DEF Core
<1>2. PICK P : P = ConsumerLoop(L)
  OBVIOUS
<1>3. CASE PeekAction(L) = "ticket"
  <2>1. P = [L EXCEPT !.inFlight = L.admitted[1], !.ctask = "appending"]
    BY <1>2, <1>3 DEF ConsumerLoop
  <2>2. L.admitted # <<>>
    BY <1>3 DEF PeekAction
  <2>3. 1 \in 1..Len(L.admitted)
    <3>1. Len(L.admitted) # 0
      BY <1>1, <2>2, EmptySeq DEF LedgerType
    <3> QED BY <3>1, CoreNumbers
  <2>4. L.admitted[1] = L.persisted + 1
    BY <1>1, <2>3 DEF Queues
  <2>5. L.admitted[1] # 0
    BY <2>4, CoreNumbers
  <2>6. /\ P.inFlight = L.admitted[1] /\ P.cstate = L.cstate /\ P.primary = L.primary
        /\ P.tickets = L.tickets /\ P.persisted = L.persisted /\ P.admitted = L.admitted
    BY <1>1, <2>1 DEF LedgerType, LedgerFields
  <2> QED BY <1>2, <2>5, <2>6, CalmStable
<1>4. CASE PeekAction(L) = "drained"
  <2>1. P = TaskEnds(L, "EXITED_FAILURE_DRAIN")
    BY <1>2, <1>4 DEF ConsumerLoop
  <2>2. Calm(P) /\ P.ctask = "done"
    BY <1>1, <2>1, TaskEndsCalm
  <2> QED BY <1>2, <2>2 DEF TaskAlive
<1>5. CASE PeekAction(L) = "stop"
  <2>1. P = CloseStop(L)
    BY <1>2, <1>5 DEF ConsumerLoop
  <2>2. CASE L.wstate = "CLOSING" /\ L.pending = <<>> /\ ~Failed(L)
    <3>1. PICK M : M = [L EXCEPT !.stopRequested = FALSE]
      OBVIOUS
    <3>2. /\ LedgerType(M) /\ M.primary = L.primary /\ M.tickets = L.tickets
          /\ M.persisted = L.persisted /\ M.admitted = L.admitted
      BY <1>1, <3>1 DEF LedgerType, LedgerFields
    <3>3. Calm(M) /\ P = TaskEnds(M, "EXITED_CLOSE_STOP")
      BY <2>1, <2>2, <3>1, <3>2, CalmStable DEF CloseStop
    <3>4. Calm(P) /\ P.ctask = "done"
      BY <3>2, <3>3, TaskEndsCalm
    <3> QED BY <1>2, <3>4 DEF TaskAlive
  <2>3. CASE ~(L.wstate = "CLOSING" /\ L.pending = <<>> /\ ~Failed(L))
    <3>1. PICK o \in Nat \ {0}, code \in FailureCodes \ {LEDGER_INVARIANT} :
            o = LowestUnpersisted(L) /\ code = CLOSE_INCONSISTENCY
      BY LowestIsOrdinal, OtherCodes
    <3>2. PICK M : M = Poison(L, code, o, 0, TRUE)
      OBVIOUS
    <3>3. Calm(M) /\ LedgerType(M)
      BY <3>2, ImpossibleCalm DEF Core
    <3>4. P = TaskEnds(M, "EXITED_ERROR")
      BY <2>1, <2>3, <3>1, <3>2 DEF CloseStop
    <3>5. Calm(P) /\ P.ctask = "done"
      BY <3>3, <3>4, TaskEndsCalm
    <3> QED BY <1>2, <3>5 DEF TaskAlive
  <2> QED BY <2>2, <2>3
<1>6. CASE PeekAction(L) \notin {"ticket", "drained", "stop"}
  <2>1. P = [L EXCEPT !.wakeup = FALSE, !.ctask = "waiting"]
    BY <1>2, <1>6 DEF ConsumerLoop
  <2>2. /\ P.ctask = "waiting" /\ P.cstate = L.cstate /\ P.primary = L.primary
        /\ P.tickets = L.tickets /\ P.persisted = L.persisted /\ P.admitted = L.admitted
    BY <1>1, <2>1 DEF LedgerType, LedgerFields
  <2> QED BY <1>2, <2>2, CalmStable
<1> QED BY <1>3, <1>4, <1>5, <1>6

LEMMA RecordCancelledCalm ==
  ASSUME NEW L, Core(L), Calm(L)
  PROVE  LET R == RecordCancelled(L) IN Core(R) /\ Calm(R) /\ R.ctask = L.ctask
<1>1. CASE ~Unrecorded(L)
  BY <1>1 DEF RecordCancelled
<1>2. CASE Unrecorded(L)
  <2>1. PICK o \in Nat \ {0}, code \in FailureCodes \ {LEDGER_INVARIANT} :
          o = LowestUnpersisted(L) /\ code = CONSUMER_CANCELLED
    BY LowestIsOrdinal, OtherCodes
  <2>2. PICK M : M = Poison(L, code, o, 0, TRUE)
    OBVIOUS
  <2>3. Core(M) /\ Calm(M) /\ LedgerType(M) /\ M.ctask = L.ctask
    BY <2>2, ImpossibleCalm DEF Core
  <2>4. PICK R : R = [M EXCEPT !.cstate = "EXITED_ERROR"]
    OBVIOUS
  <2>5. /\ R.primary = M.primary /\ R.tickets = M.tickets /\ R.persisted = M.persisted
        /\ R.admitted = M.admitted /\ R.ctask = M.ctask
    BY <2>3, <2>4 DEF LedgerType, LedgerFields
  <2>6. RecordCancelled(L) = R
    BY <1>2, <2>1, <2>2, <2>4 DEF RecordCancelled
  <2>7. Core(R)
    BY <2>6, RecordCancelledCore
  <2> QED BY <2>3, <2>5, <2>6, <2>7, CalmStable
<1> QED BY <1>1, <1>2

\* What keeps the checks silent: an append that the loop did not cancel is in
\* flight, and a task that is not done runs.
Watched ==
  /\ Calm(led)
  /\ TaskAlive(led) => led.cstate = "RUNNING"
  /\ led.ctask = "appending" /\ "consumer" \notin cancelReq => led.inFlight # 0

\* A step that leaves the task alone, and a step after which nothing is appended.
LEMMA QuietStep ==
  ASSUME Watched, Quiet(led', led), led'.cstate = led.cstate, led'.ctask = led.ctask,
         UNCHANGED cancelReq
  PROVE  Watched'
BY DEF Watched, Quiet, TaskAlive

LEMMA IdleStep ==
  ASSUME Calm(led'), ~TaskAlive(led')
  PROVE  Watched'
BY DEF Watched, TaskAlive

LEMMA ProducersWatched ==
  ASSUME Evidence, Watched, Producers
  PROVE  Watched'
<1>1. /\ Exact(led) /\ Core(led) /\ Timely(led, now) /\ now \in Nat /\ Accepted(led) \in Nat
      /\ Calm(led)
  BY EvidenceFacts DEF Watched
<1>2. CASE \E n \in EventBytes : Submit(n)
  <2>1. PICK n \in EventBytes : Submit(n)
    BY <1>2
  <2>2. Open(led) /\ led' = Submitted(led, n, now) /\ UNCHANGED cancelReq
    BY <2>1 DEF Submit
  <2>3. Quiet(led', led)
    BY <1>1, <2>2, SubmittedQuiet
  <2>4. SameTask(led', led)
    BY <1>1, <2>2, SubmittedCore
  <2> QED BY <2>2, <2>3, <2>4, QuietStep DEF SameTask
<1>3. CASE SubmitUnserializable
  <2>1. PICK p : p = Pump(led, now)
    OBVIOUS
  <2>2. /\ UNCHANGED cancelReq
        /\ led' = IF Open(p) THEN Poison(p, SERIALIZATION, Accepted(p) + 1, 0, FALSE) ELSE p
    BY <1>3, <2>1 DEF SubmitUnserializable
  <2>3. Core(p) /\ Quiet(p, led) /\ p.cstate = led.cstate /\ p.ctask = led.ctask
    BY <1>1, <2>1, PumpCore, PumpQuiet DEF SameRun
  <2>4. PICK o \in Nat \ {0}, code \in FailureCodes \ {LEDGER_INVARIANT}, no \in BOOLEAN :
          o = Accepted(p) + 1 /\ code = SERIALIZATION /\ no = FALSE
    <3>1. Accepted(p) + 1 \in Nat \ {0} /\ FALSE \in BOOLEAN
      BY <2>3, CoreNumbers
    <3> QED BY <3>1, OtherCodes
  <2>5. PICK q : q = Poison(p, code, o, 0, no)
    OBVIOUS
  <2>6. Quiet(q, p) /\ SameRun(q, p)
    BY <2>3, <2>4, <2>5, PoisonQuiet, PoisonSameRun
  <2>7. Quiet(q, led)
    BY <2>3, <2>6, QuietTrans
  <2>8. led' \in {p, q}
    BY <2>2, <2>4, <2>5
  <2> QED BY <2>2, <2>3, <2>6, <2>7, <2>8, QuietStep DEF SameRun
<1>4. CASE EmitAwaitedNoConsumer
  <2>1. /\ ~ConsumerLive(led) /\ led' = Poison(led, NO_CONSUMER, Accepted(led) + 1, 0, TRUE)
    BY <1>4 DEF EmitAwaitedNoConsumer
  <2>2. PICK o \in Nat \ {0}, code \in FailureCodes \ {LEDGER_INVARIANT} :
          o = Accepted(led) + 1 /\ code = NO_CONSUMER
    <3>1. Accepted(led) + 1 \in Nat \ {0}
      BY <1>1
    <3> QED BY <3>1, OtherCodes
  <2>3. Calm(led') /\ led'.ctask = led.ctask
    BY <1>1, <2>1, <2>2, ImpossibleCalm
  <2>4. ~TaskAlive(led)
    BY <2>1 DEF Watched, ConsumerLive
  <2> QED BY <2>3, <2>4, IdleStep DEF TaskAlive
<1> QED BY <1>2, <1>3, <1>4 DEF Producers

LEMMA StartWatched ==
  ASSUME Evidence, Watched, Start \/ StartFails
  PROVE  Watched'
<1>1. Core(led) /\ LedgerType(led) /\ Calm(led) /\ CloseIsFinal
  BY EvidenceFacts DEF Watched
<1>2. CASE Start
  <2>1. led' = [led EXCEPT !.ctask = "created", !.cstate = "RUNNING", !.wstate = "RUNNING",
                           !.wakeup = TRUE]
    BY <1>2 DEF Start
  <2>2. /\ led'.ctask = "created" /\ led'.cstate = "RUNNING" /\ led'.primary = led.primary
        /\ led'.tickets = led.tickets /\ led'.persisted = led.persisted
        /\ led'.admitted = led.admitted
    BY <1>1, <2>1 DEF LedgerType, LedgerFields
  <2>3. Calm(led')
    BY <1>1, <2>2, CalmStable
  <2> QED BY <2>2, <2>3 DEF Watched
<1>3. CASE StartFails
  <2>1. PICK M : M = [led EXCEPT !.cstate = "EXITED_ERROR"]
    OBVIOUS
  <2>2. /\ CanStart
        /\ led' = Poison(M, CONSUMER_START, LowestUnpersisted(led), 0, TRUE)
    BY <1>3, <2>1 DEF StartFails
  <2>3. LedgerType(M) /\ SameLedger(M, led) /\ M.ctask = led.ctask
    BY <1>1, <2>1 DEF LedgerType, LedgerFields, SameLedger, ConsumerStates
  <2>4. Core(M) /\ Calm(M)
    BY <1>1, <2>3, CoreStable, CalmStable DEF SameLedger
  <2>5. PICK o \in Nat \ {0}, code \in FailureCodes \ {LEDGER_INVARIANT} :
          o = LowestUnpersisted(led) /\ code = CONSUMER_START
    BY <1>1, LowestIsOrdinal, OtherCodes
  <2>6. Calm(led') /\ led'.ctask = led.ctask
    BY <2>2, <2>3, <2>4, <2>5, ImpossibleCalm
  <2>7. led.ctask = "none"
    BY <1>1, <2>2 DEF CanStart, CloseIsFinal
  <2> QED BY <2>6, <2>7, IdleStep DEF TaskAlive
<1> QED BY <1>2, <1>3

LEMMA ConsumerTaskWatched ==
  ASSUME Evidence, Watched, ConsumerTask
  PROVE  Watched'
<1>1. /\ Exact(led) /\ Core(led) /\ LedgerType(led) /\ FileMatches /\ now \in Nat
      /\ led.persisted \in Nat /\ Calm(led)
  BY EvidenceFacts DEF Watched
<1>2. ASSUME NEW code \in FailureCodes \ {LEDGER_INVARIANT}, NEW o \in Nat \ {0},
             led' = TaskEnds(Poison(led, code, o, 0, TRUE), "EXITED_ERROR")
      PROVE  Watched'
  <2>1. PICK P : P = Poison(led, code, o, 0, TRUE)
    OBVIOUS
  <2>2. LedgerType(P) /\ Calm(P)
    BY <1>1, <2>1, ImpossibleCalm DEF Core
  <2>3. Calm(led') /\ led'.ctask = "done"
    BY <1>2, <2>1, <2>2, TaskEndsCalm
  <2> QED BY <2>3, IdleStep DEF TaskAlive
<1>3. ASSUME NEW D, Core(D), Calm(D), D.cstate = "RUNNING", led' = ConsumerLoop(D)
      PROVE  Watched'
  BY <1>3, ConsumerLoopCalm DEF Watched
<1>4. CASE ConsumerRuns
  <2>1. led' = ConsumerLoop(led) /\ TaskAlive(led)
    BY <1>4 DEF ConsumerRuns, TaskAlive
  <2>2. led.cstate = "RUNNING"
    BY <2>1 DEF Watched
  <2> QED BY <1>1, <1>3, <2>1, <2>2
<1>5. CASE ConsumerAcks
  <2>1. PICK D : D = DurableAck(led, worker.seq, now)
    OBVIOUS
  <2>2. /\ led' = ConsumerLoop(D) /\ TaskAlive(led)
        /\ led.ctask = "appending" /\ worker.st = "wrote" /\ "consumer" \notin cancelReq
    BY <1>5, <2>1 DEF ConsumerAcks, TaskAlive
  <2>3. worker.seq = led.persisted + 1 /\ led.inFlight # 0 /\ led.cstate = "RUNNING"
    BY <1>1, <2>2 DEF FileMatches, Watched
  <2>4. Calm(D)
    BY <1>1, <2>1, <2>3, DurableAckCalm
  <2>5. Core(D) /\ D.cstate = led.cstate
    BY <1>1, <2>1, <2>3, DurableAckCore
  <2> QED BY <1>3, <2>2, <2>3, <2>4, <2>5
<1>6. CASE ConsumerSeesAppendFail
  <2>1. /\ led' = TaskEnds(Poison(led, APPEND_FAILED, worker.seq, 0, TRUE), "EXITED_ERROR")
        /\ led.ctask = "appending" /\ worker.st = "raised"
    BY <1>6 DEF ConsumerSeesAppendFail
  <2>2. PICK code \in FailureCodes \ {LEDGER_INVARIANT}, o \in Nat \ {0} :
          code = APPEND_FAILED /\ o = worker.seq
    <3>1. worker.seq \in Nat \ {0}
      BY <1>1, <2>1 DEF FileMatches
    <3> QED BY <3>1, OtherCodes
  <2> QED BY <1>2, <2>1, <2>2
<1>7. CASE ConsumerCancelled
  <2>1. /\ TaskAlive(led)
        /\ led.ctask = "created" => led' = [led EXCEPT !.ctask = "done"]
        /\ led.ctask = "appending" =>
             led' = TaskEnds(Poison(led, CONSUMER_CANCELLED, worker.seq, 0, TRUE), "EXITED_ERROR")
        /\ led.ctask = "waiting" =>
             led' = TaskEnds(Poison(led, CONSUMER_CANCELLED, LowestUnpersisted(led), 0, TRUE),
                             "EXITED_ERROR")
    BY <1>7 DEF ConsumerCancelled
  <2>2. CASE led.ctask = "created"
    <3>1. led' = [led EXCEPT !.ctask = "done"]
      BY <2>1, <2>2
    <3>2. SameLedger(led', led) /\ led'.ctask = "done"
      BY <1>1, <3>1 DEF LedgerType, LedgerFields, SameLedger
    <3>3. Calm(led')
      BY <1>1, <3>2, CalmStable DEF SameLedger
    <3> QED BY <3>2, <3>3, IdleStep DEF TaskAlive
  <2>3. CASE led.ctask = "appending"
    <3>1. PICK code \in FailureCodes \ {LEDGER_INVARIANT}, o \in Nat \ {0} :
            code = CONSUMER_CANCELLED /\ o = worker.seq
      <4>1. worker.seq \in Nat \ {0}
        BY <1>1, <2>3 DEF FileMatches
      <4> QED BY <4>1, OtherCodes
    <3> QED BY <1>2, <2>1, <2>3, <3>1
  <2>4. CASE led.ctask = "waiting"
    <3>1. PICK code \in FailureCodes \ {LEDGER_INVARIANT}, o \in Nat \ {0} :
            code = CONSUMER_CANCELLED /\ o = LowestUnpersisted(led)
      BY <1>1, LowestIsOrdinal, OtherCodes
    <3> QED BY <1>2, <2>1, <2>4, <3>1
  <2> QED BY <2>1, <2>2, <2>3, <2>4 DEF TaskAlive
<1> QED BY <1>4, <1>5, <1>6, <1>7 DEF ConsumerTask

LEMMA ConsumerDoneWatched ==
  ASSUME Evidence, Watched, ConsumerDone
  PROVE  Watched'
<1>1. Core(led) /\ Calm(led)
  BY EvidenceFacts DEF Watched
<1>2. PICK R : R = RecordCancelled(led)
  OBVIOUS
<1>3. Core(R) /\ Calm(R) /\ LedgerType(R)
  BY <1>1, <1>2, RecordCancelledCalm DEF Core
<1>4. led' = [R EXCEPT !.ctask = "reaped", !.pendingEmpty = TRUE, !.wakeup = TRUE]
  BY <1>2 DEF ConsumerDone
<1>5. SameLedger(led', R) /\ led'.ctask = "reaped"
  BY <1>3, <1>4 DEF LedgerType, LedgerFields, SameLedger
<1>6. Calm(led')
  BY <1>3, <1>5, CalmStable DEF SameLedger
<1> QED BY <1>5, <1>6, IdleStep DEF TaskAlive

\* A pump of the ledger M, which differs from the current one in a timer, a flag
\* or the writer state.
LEMMA PumpStep ==
  ASSUME Evidence, Watched, NEW M, Exact(M), Quiet(M, led), M.cstate = led.cstate,
         M.ctask = led.ctask, led' = Pump(M, now), UNCHANGED cancelReq
  PROVE  Watched'
<1>1. now \in Nat /\ Core(M)
  BY EvidenceFacts DEF Exact
<1>2. Quiet(led', M) /\ led'.cstate = led.cstate /\ led'.ctask = led.ctask
  BY <1>1, PumpQuiet, PumpCore DEF SameRun
<1>3. Quiet(led', led)
  BY <1>2, QuietTrans
<1> QED BY <1>2, <1>3, QuietStep

LEMMA HeadTimerWatched ==
  ASSUME Evidence, Watched, HeadTimer
  PROVE  Watched'
<1>1. Exact(led) /\ LedgerType(led)
  BY EvidenceFacts
<1>2. PICK M : M = [led EXCEPT !.timer = 0]
  OBVIOUS
<1>3. led' = Pump(M, now) /\ UNCHANGED cancelReq
  BY <1>2 DEF HeadTimer
<1>4. /\ LedgerType(M) /\ SameLedger(M, led) /\ M.pendingBytes = led.pendingBytes
      /\ M.cstate = led.cstate /\ M.ctask = led.ctask
  BY <1>1, <1>2 DEF LedgerType, LedgerFields, SameLedger
<1>5. Exact(M) /\ Quiet(M, led)
  BY <1>1, <1>4, StableFollows, StableQuiet DEF Follows, Sound
<1> QED BY <1>3, <1>4, <1>5, PumpStep

LEMMA CloseWatched ==
  ASSUME Evidence, Watched, Close
  PROVE  Watched'
<1>1. /\ Exact(led) /\ Core(led) /\ LedgerType(led) /\ Health(led)
  BY EvidenceFacts
<1>2. PICK M : M = [led EXCEPT !.wstate = "CLOSING"]
  OBVIOUS
<1>3. /\ led' = IF led.wstate \in {"NEW", "RUNNING"} THEN Pump(M, now) ELSE led
      /\ UNCHANGED cancelReq
  BY <1>2 DEF Close
<1>4. CASE led.wstate \in {"NEW", "RUNNING"}
  <2>1. /\ "CLOSING" \in WriterStates /\ Agrees("CLOSING", led) /\ led.timer \in Nat
    BY <1>1, <1>4 DEF Health, WriterStates, Agrees, LedgerType
  <2>2. Restated(M, led, "CLOSING", led.timer)
    BY <1>1, <1>2 DEF Restated, LedgerType, LedgerFields
  <2>3. Core(M) /\ M.ctask = led.ctask /\ M.cstate = led.cstate
    BY <1>1, <2>1, <2>2, WriterStateCore
  <2>4. SameQueues(M, led) /\ M.primary = led.primary /\ M.inFlight = led.inFlight
    BY <1>1, <1>2 DEF SameQueues, LedgerType, LedgerFields
  <2>5. Exact(M) /\ Quiet(M, led)
    BY <1>1, <2>3, <2>4, ExactStable, CalmStable DEF SameQueues, Quiet
  <2> QED BY <1>3, <1>4, <2>3, <2>5, PumpStep
<1>5. CASE led.wstate \notin {"NEW", "RUNNING"}
  BY <1>3, <1>5 DEF Watched, TaskAlive
<1> QED BY <1>4, <1>5

LEMMA CloseDrainsWatched ==
  ASSUME Evidence, Watched, CloseDrains
  PROVE  Watched'
<1>1. Exact(led) /\ LedgerType(led) /\ now \in Nat
  BY EvidenceFacts
<1>2. PICK E : E = [led EXCEPT !.pendingEmpty = FALSE]
  OBVIOUS
<1>3. PICK p : p = IF led.pending = <<>> THEN led ELSE Pump(E, now)
  OBVIOUS
<1>4. PICK stop \in BOOLEAN : stop = (p.pending = <<>> /\ p.wstate = "CLOSING" /\ ~Failed(p))
  OBVIOUS
<1>5. /\ led' = [p EXCEPT !.stopRequested = @ \/ stop, !.wakeup = @ \/ stop]
      /\ UNCHANGED cancelReq
  BY <1>2, <1>3, <1>4 DEF CloseDrains
<1>6. Quiet(p, led) /\ LedgerType(p) /\ p.cstate = led.cstate /\ p.ctask = led.ctask
  <2>1. CASE led.pending = <<>>
    BY <1>1, <1>3, <2>1 DEF Quiet
  <2>2. CASE led.pending # <<>>
    <3>1. /\ LedgerType(E) /\ SameLedger(E, led) /\ E.pendingBytes = led.pendingBytes
          /\ E.cstate = led.cstate /\ E.ctask = led.ctask
      BY <1>1, <1>2 DEF LedgerType, LedgerFields, SameLedger
    <3>2. Exact(E) /\ Quiet(E, led) /\ Core(E)
      BY <1>1, <3>1, StableFollows, StableQuiet DEF Follows, Sound, Exact
    <3>3. Quiet(p, E) /\ Core(p) /\ SameRun(p, E)
      BY <1>1, <1>3, <2>2, <3>2, PumpQuiet, PumpCore
    <3> QED BY <3>1, <3>2, <3>3, QuietTrans DEF SameRun, Core
  <2> QED BY <2>1, <2>2
<1>7. SameLedger(led', p) /\ led'.cstate = p.cstate /\ led'.ctask = p.ctask
  BY <1>5, <1>6 DEF LedgerType, LedgerFields, SameLedger
<1>8. Quiet(led', led)
  BY <1>6, <1>7, StableQuiet, QuietTrans
<1> QED BY <1>5, <1>6, <1>7, <1>8, QuietStep

LEMMA CloseTaskWatched ==
  ASSUME Evidence, Watched, CloseTask
  PROVE  Watched'
<1>1. Core(led) /\ LedgerType(led) /\ CloseIsFinal /\ Calm(led)
  BY EvidenceFacts DEF Watched
<1>2. ASSUME NEW L, Core(L), Calm(L), NEW code \in FailureCodes \ {LEDGER_INVARIANT}
      PROVE  LET M == Poison(L, code, LowestUnpersisted(L), 0, TRUE) IN
             LedgerType(M) /\ Calm(M) /\ M.ctask = L.ctask /\ M.cstate = L.cstate
  <2>1. PICK o \in Nat \ {0} : o = LowestUnpersisted(L)
    BY <1>2, LowestIsOrdinal
  <2> QED BY <1>2, <2>1, ImpossibleCalm DEF Core
<1>3. NO_CONSUMER \in FailureCodes \ {LEDGER_INVARIANT}
      /\ CLOSE_INCONSISTENCY \in FailureCodes \ {LEDGER_INVARIANT}
  BY OtherCodes
<1>4. ASSUME NEW M, LedgerType(M), Calm(M), ClosedFailed(M)
      PROVE  Calm(led') /\ led'.ctask = M.ctask /\ led'.cstate = M.cstate
  <2>1. led' = [M EXCEPT !.wstate = "CLOSED_FAILED", !.timer = 0]
    BY <1>4 DEF ClosedFailed
  <2>2. /\ led'.primary = M.primary /\ led'.tickets = M.tickets /\ led'.persisted = M.persisted
        /\ led'.admitted = M.admitted /\ led'.ctask = M.ctask /\ led'.cstate = M.cstate
    BY <1>4, <2>1 DEF LedgerType, LedgerFields
  <2> QED BY <1>4, <2>2, CalmStable
<1>5. ASSUME ClosedOk
      PROVE  Calm(led') /\ led'.ctask = led.ctask
  <2>1. led' = [led EXCEPT !.wstate = "CLOSED_OK", !.timer = 0]
    BY <1>5 DEF ClosedOk
  <2>2. /\ led'.primary = led.primary /\ led'.tickets = led.tickets
        /\ led'.persisted = led.persisted
        /\ led'.admitted = led.admitted /\ led'.ctask = led.ctask
    BY <1>1, <2>1 DEF LedgerType, LedgerFields
  <2> QED BY <1>1, <2>2, CalmStable
<1>6. CASE CloseWithoutConsumer
  <2>1. /\ led.ctask = "none"
        /\ \/ ClosedOk
           \/ ClosedFailed(Poison(led, NO_CONSUMER, LowestUnpersisted(led), 0, TRUE))
           \/ ClosedFailed(Poison(led, CLOSE_INCONSISTENCY, LowestUnpersisted(led), 0, TRUE))
    BY <1>6 DEF CloseWithoutConsumer
  <2>2. Calm(led') /\ led'.ctask = led.ctask
    BY <1>1, <1>2, <1>3, <1>4, <1>5, <2>1
  <2> QED BY <2>1, <2>2, IdleStep DEF TaskAlive
<1>7. CASE CloseDrains
  BY <1>7, CloseDrainsWatched
<1>8. CASE CloseJoins
  <2>1. PICK r : r = RecordCancelled(led)
    OBVIOUS
  <2>2. PICK M : M = IF Failed(r) THEN r
                     ELSE Poison(r, CLOSE_INCONSISTENCY, LowestUnpersisted(r), 0, TRUE)
    OBVIOUS
  <2>3. led.ctask \in {"done", "reaped"} /\ (ClosedOk \/ ClosedFailed(M))
    BY <1>8, <2>1, <2>2 DEF CloseJoins
  <2>4. Core(r) /\ Calm(r) /\ LedgerType(r) /\ r.ctask = led.ctask
    BY <1>1, <2>1, RecordCancelledCalm DEF Core
  <2>5. LedgerType(M) /\ Calm(M) /\ M.ctask = led.ctask
    BY <1>2, <1>3, <2>2, <2>4
  <2>6. Calm(led') /\ led'.ctask = led.ctask
    BY <1>4, <1>5, <2>3, <2>5
  <2> QED BY <2>3, <2>6, IdleStep DEF TaskAlive
<1>9. CASE CloseCancelled
  <2>1. UNCHANGED <<led, cancelReq>>
    BY <1>9 DEF CloseCancelled
  <2> QED BY <2>1 DEF Watched, TaskAlive
<1>10. CASE CloseCancelRecorded
  <2>1. PICK M : M = IF Failed(led) THEN led
                     ELSE Poison(led, CLOSE_INCONSISTENCY, LowestUnpersisted(led), 0, TRUE)
    OBVIOUS
  <2>2. closing.phase = "cancelled" /\ ClosedFailed(M) /\ UNCHANGED cancelReq
    BY <1>10, <2>1 DEF CloseCancelRecorded
  <2>3. LedgerType(M) /\ Calm(M) /\ M.ctask = led.ctask /\ M.cstate = led.cstate
    BY <1>1, <1>2, <1>3, <2>1
  <2>4. Calm(led') /\ led'.ctask = led.ctask /\ led'.cstate = led.cstate
    BY <1>4, <2>2, <2>3
  <2>5. TaskAlive(led) => "consumer" \in cancelReq
    BY <1>1, <2>2 DEF CloseIsFinal
  <2> QED BY <2>2, <2>4, <2>5 DEF Watched, TaskAlive
<1> QED BY <1>6, <1>7, <1>8, <1>9, <1>10 DEF CloseTask

\* The teardown adds tasks to cancel; the clock and the append thread touch
\* nothing of the ledger.
LEMMA OutsideWatched ==
  ASSUME Watched, AppendThread \/ Tick \/ LoopTeardown \/ UNCHANGED vars
  PROVE  Watched'
<1>1. led' = led /\ ("consumer" \in cancelReq => "consumer" \in cancelReq')
  BY DEF AppendThread, AppendReturns, AppendRaises, Tick, LoopTeardown, vars
<1> QED BY <1>1 DEF Watched, TaskAlive

LEMMA InitWatched ==
  ASSUME Init
  PROVE  Watched
<1>1. led.primary = NoFailure /\ led.admitted = <<>> /\ led.ctask = "none"
  BY DEF Init
<1>2. Core(led)
  BY InitEstablishes DEF LedgerInvariant
<1>3. Calm(led)
  BY <1>1, <1>2, NothingToMark DEF Calm, NoFailure, LEDGER_INVARIANT
<1> QED BY <1>1, <1>3 DEF Watched, TaskAlive

LEMMA NextWatched ==
  ASSUME Evidence, Watched, [Next]_vars
  PROVE  Watched'
BY ProducersWatched, StartWatched, ConsumerTaskWatched, ConsumerDoneWatched, HeadTimerWatched,
   CloseWatched, CloseTaskWatched, OutsideWatched DEF Next

\* _verify_invariants and the expectation of _durable_ack never fail a Run: no
\* interleaving of producers, consumer, append thread, timer, close and teardown
\* breaks them, for every ladder, limit and timeout.
THEOREM SelfChecksPassHolds == Spec => []SelfChecksPass
<1>1. Init => Evidence /\ Watched
  BY InitEvidence, InitWatched
<1>2. Evidence /\ Watched /\ [Next]_vars => Evidence' /\ Watched'
  BY NextEffects, NextWatched
<1>3. Evidence /\ Watched => SelfChecksPass
  BY SelfCheck DEF Evidence, Watched, Calm, SelfChecksPass
<1> QED BY <1>1, <1>2, <1>3, PTL DEF Spec

=============================================================================
