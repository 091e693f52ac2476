---------------------------- MODULE AdmissionProofs ----------------------------
(***************************************************************************)
(* What is proved about Admission, for any requests, Runs and bounds: the  *)
(* exclusion of the admission keys, the agreement of acceptances, the      *)
(* containment of refusals and the lease that outlives the Runs.  Exclusion *)
(* rests on a count: the waiters of a key are exactly the handlers that    *)
(* have its lock object, so the object goes when nobody has it.            *)
(***************************************************************************)
EXTENDS Admission, FiniteSetTheorems, TLAPS

\* The places of a submission between its first and its last step under the guard.
Queued == {"acquire", "forget"} \cup Holding

\* The handlers that the waiters of a key stand for.
Users(r) == {q \in Submissions : RunOf[q] = r /\ pc[q] \in Queued}

\* A handler is where its operation can be.
Placed ==
  \A q \in Requests :
    IF Op[q] = "submit" THEN pc[q] \notin {"cancelled", "inspect"}
    ELSE pc[q] \in {"new", "cancelled", "inspect", "contain", "contained",
                    "uncontained", "done"}

\* The waiters are counted, and all have the lock object of their key.
Counted ==
  /\ \A r \in Runs :
       /\ IsFiniteSet(Users(r)) /\ waiters[r] = Cardinality(Users(r))
       /\ locks[r] # None => locks[r] \in Submissions /\ RunOf[locks[r]] = r
  /\ \A q \in Submissions :
       pc[q] \in Queued => lockOf[q] = locks[RunOf[q]] /\ lockOf[q] # None

\* One holder per key.
Exclusive ==
  \A p, q \in Submissions :
    RunOf[p] = RunOf[q] /\ pc[p] \in Holding /\ pc[q] \in Holding => p = q

\* What is durable about a Run, and what was said about it.
Durable ==
  /\ \A r \in Runs : Bound(r) =>
       /\ r \in made
       /\ \E q \in Submissions : RunOf[q] = r /\ DigestOf[q] = submission[r]
  /\ \A q \in Submissions :
       pc[q] = "register" \/ reply[q] = "accepted" => submission[RunOf[q]] = DigestOf[q]
  /\ \A q \in Requests :
       pc[q] \in {"cancelled", "inspect", "contain", "contained", "uncontained"} =>
         Bound(RunOf[q])

\* A task that may be live is registered.
Registered == \A r \in Runs : ~Over(r) => r \in entries

Stopping == {"cancelling", "idling", "idle", "down", "refused"}

\* What each phase of the shutdown has seen to.
Stopped ==
  /\ phase \in Stopping =>
       reserved = {} /\ \A q \in Requests : pc[q] \in {"new", "done"}
  /\ phase \in {"idle", "down", "refused"} => entries = {}

AdmissionInvariant ==
  TypeOK /\ Placed /\ Counted /\ Exclusive /\ Durable /\ Registered /\ Stopped

-----------------------------------------------------------------------------
(* Handlers that move between places *)

USE DEF requests, keyed, registry, store, daemon

Elsewhere == {"new", "cancelled", "inspect", "contain", "contained", "uncontained", "done"}

\* A handler that moves on keeps the count and the exclusion of its key, if it
\* neither comes to its lock object nor gives it up.
LEMMA MoveLemma ==
  ASSUME AdmissionInvariant, NEW q \in Requests, NEW place \in Places,
         pc[q] \notin {"new", "done"} \/ Serving,
         pc' = [pc EXCEPT ![q] = place], UNCHANGED <<keyed, phase>>,
         IF Op[q] = "submit"
         THEN pc[q] \in Queued /\ place \in Queued /\ (place \in Holding => pc[q] \in Holding)
         ELSE place \in Elsewhere
  PROVE  /\ pc' \in [Requests -> Places]
         /\ Placed' /\ Counted' /\ Exclusive' /\ Stopped' /\ phase \notin Stopping
<1> USE DEF AdmissionInvariant
<1>1. pc' \in [Requests -> Places]
  BY DEF TypeOK
<1>2. \A p \in Requests : pc'[p] = IF p = q THEN place ELSE pc[p]
  BY DEF TypeOK
<1>3. q \in Submissions <=> Op[q] = "submit"
  BY DEF Submissions
<1>4. Placed'
  BY <1>2 DEF Placed, Elsewhere, Queued, Holding
<1>5. \A p \in Submissions : p \in Requests /\ (pc'[p] \in Queued <=> pc[p] \in Queued)
  BY <1>2, <1>3 DEF Submissions
<1>6. \A r : Users(r)' = Users(r)
  BY <1>5 DEF Users
<1>7. Counted'
  BY <1>5, <1>6 DEF Counted
<1>8. Exclusive'
  BY <1>2, <1>3, <1>5 DEF Exclusive
<1>9. phase \notin Stopping
  BY DEF Stopped, Stopping, Serving
<1>10. QED
  BY <1>1, <1>4, <1>7, <1>8, <1>9 DEF Stopped, Stopping

\* The parts that a step leaves alone, when it changes no variable of theirs.
LEMMA DurableStable ==
  ASSUME AdmissionInvariant, UNCHANGED <<made, submission, reply>>,
         NEW q \in Requests, NEW place \in Places, pc' = [pc EXCEPT ![q] = place],
         place # "register",
         place \in {"cancelled", "inspect", "contain", "contained", "uncontained"} =>
           Bound(RunOf[q])
  PROVE  Durable'
<1>1. \A p \in Requests : pc'[p] = IF p = q THEN place ELSE pc[p]
  BY DEF AdmissionInvariant, TypeOK
<1>2. \A r : Bound(r)' <=> Bound(r)
  BY DEF Bound
<1>3. \A p \in Submissions : p \in Requests
  BY DEF Submissions
<1>4. QED
  BY <1>1, <1>2, <1>3 DEF AdmissionInvariant, Durable

\* The same, when the handler answers.
LEMMA DurableAnswered ==
  ASSUME AdmissionInvariant, UNCHANGED <<made, submission>>,
         NEW q \in Requests, NEW place \in {"unlock", "release", "done"}, NEW code \in Replies,
         Answer(q, code, place), code = "accepted" => submission[RunOf[q]] = DigestOf[q]
  PROVE  Durable' /\ reply' \in [Requests -> Replies]
<1>1. \A p \in Requests : /\ pc'[p] = IF p = q THEN place ELSE pc[p]
                          /\ reply'[p] = IF p = q THEN code ELSE reply[p]
  BY DEF AdmissionInvariant, TypeOK, Answer
<1>2. \A r : Bound(r)' <=> Bound(r)
  BY DEF Bound
<1>3. \A p \in Submissions : p \in Requests
  BY DEF Submissions
<1>4. reply' \in [Requests -> Replies]
  BY DEF AdmissionInvariant, TypeOK, Answer
<1>5. QED
  BY <1>1, <1>2, <1>3, <1>4 DEF AdmissionInvariant, Durable

-----------------------------------------------------------------------------
(* KeyedLocks *)

LEMMA EnterLemma ==
  ASSUME AdmissionInvariant, NEW q \in Requests, Enter(q)
  PROVE  AdmissionInvariant'
<1> USE DEF AdmissionInvariant
<1> DEFINE r == RunOf[q]
<1> DEFINE object == IF locks[r] = None THEN q ELSE locks[r]
<1>0. q \in Submissions /\ r \in Runs /\ q # None /\ phase \notin Stopping
  BY RequestsAssumption DEF Enter, Submissions, Serving, Stopping
<1>1. \A p \in Requests : /\ pc'[p] = IF p = q THEN "acquire" ELSE pc[p]
                          /\ lockOf'[p] = IF p = q THEN object ELSE lockOf[p]
  BY DEF Enter, Go, TypeOK
<1>2. \A s \in Runs : /\ locks'[s] = IF s = r THEN object ELSE locks[s]
                      /\ waiters'[s] = IF s = r THEN waiters[s] + 1 ELSE waiters[s]
  BY DEF Enter, TypeOK
<1>3. object \in Submissions /\ RunOf[object] = r
  BY <1>0 DEF Counted
<1>4. TypeOK'
  <2>1. pc' \in [Requests -> Places]
    BY DEF Enter, Go, TypeOK, Places
  <2>2. object \in Requests \cup {None}
    BY <1>3 DEF Submissions
  <2>3. locks' \in [Runs -> Requests \cup {None}] /\ lockOf' \in [Requests -> Requests \cup {None}]
        /\ waiters' \in [Runs -> Nat]
    <3>1. /\ locks' = [locks EXCEPT ![r] = object] /\ lockOf' = [lockOf EXCEPT ![q] = object]
          /\ waiters' = [waiters EXCEPT ![r] = @ + 1]
      BY DEF Enter
    <3> HIDE DEF object
    <3>2. QED
      BY <1>0, <2>2, <3>1 DEF TypeOK
  <2>4. QED
    BY <2>1, <2>3 DEF Enter, Go, TypeOK
<1>5. Placed'
  BY <1>0, <1>1 DEF Placed, Submissions
<1>6. Counted'
  <2>1. \A p \in Submissions : p \in Requests
    BY DEF Submissions
  <2>2. q \notin Users(r)
    BY DEF Users, Enter, Queued, Holding
  <2>3. Users(r)' = Users(r) \cup {q}
    BY <1>0, <1>1, <2>1 DEF Users, Queued
  <2>4. \A s \in Runs : s # r => Users(s)' = Users(s)
    BY <1>1, <2>1 DEF Users
  <2>5. IsFiniteSet(Users(r)') /\ Cardinality(Users(r)') = Cardinality(Users(r)) + 1
    BY <1>0, <2>2, <2>3, FS_AddElement DEF Counted
  <2>6. \A s \in Runs : /\ IsFiniteSet(Users(s)') /\ waiters'[s] = Cardinality(Users(s)')
                        /\ locks'[s] # None => locks'[s] \in Submissions /\ RunOf[locks'[s]] = s
    BY <1>0, <1>2, <1>3, <2>4, <2>5 DEF Counted
  <2>7. ASSUME NEW p \in Submissions, pc'[p] \in Queued
        PROVE  lockOf'[p] = locks'[RunOf[p]] /\ lockOf'[p] # None
    <3>1. RunOf[p] \in Runs
      BY RequestsAssumption, <2>1
    <3>2. QED
      BY <1>0, <1>1, <1>2, <2>1, <2>7, <3>1 DEF Counted
  <2>8. QED
    BY <2>6, <2>7 DEF Counted
<1>7. Exclusive'
  BY <1>1 DEF Exclusive, Submissions, Holding
<1>8. Durable'
  BY DurableStable DEF Enter, Go, Places
<1>9. Registered' /\ Stopped'
  BY <1>0 DEF Enter, Registered, Over, Stopped, Stopping
<1>10. QED
  BY <1>4, <1>5, <1>6, <1>7, <1>8, <1>9

\* The holder's exclusion comes from the object: whoever has the key has it.
LEMMA AcquireLemma ==
  ASSUME AdmissionInvariant, NEW q \in Requests, Acquire(q)
  PROVE  AdmissionInvariant'
<1> USE DEF AdmissionInvariant
<1>0. q \in Submissions /\ phase \notin Stopping
  BY DEF Acquire, Submissions, Placed, Stopped
<1>1. \A p \in Requests : pc'[p] = IF p = q THEN "resolve" ELSE pc[p]
  BY DEF Acquire, Go, TypeOK
<1>2. \A p \in Submissions : p \in Requests /\ RunOf[p] \in Runs
  BY RequestsAssumption DEF Submissions
<1>3. TypeOK'
  BY DEF Acquire, Go, TypeOK, Places
<1>4. Placed'
  BY <1>0, <1>1 DEF Placed, Submissions
<1>5. Counted'
  <2>1. \A r : Users(r)' = Users(r)
    BY <1>0, <1>1, <1>2 DEF Users, Acquire, Queued, Holding
  <2>2. QED
    BY <1>1, <1>2, <2>1 DEF Counted, Acquire, Queued
<1>6. Exclusive'
  <2>1. ASSUME NEW p \in Submissions, p # q, RunOf[p] = RunOf[q], pc[p] \in Holding
        PROVE  FALSE
    BY <1>0, <2>1 DEF Counted, Queued, Acquire
  <2>2. QED
    BY <1>0, <1>1, <1>2, <2>1 DEF Exclusive
<1>7. Durable'
  BY DurableStable DEF Acquire, Go, Places
<1>8. Registered' /\ Stopped'
  BY <1>0 DEF Acquire, Registered, Over, Stopped, Stopping
<1>9. QED
  BY <1>3, <1>4, <1>5, <1>6, <1>7, <1>8

\* The object goes with its last user.
LEMMA ForgetLemma ==
  ASSUME AdmissionInvariant, NEW q \in Requests, Forget(q)
  PROVE  AdmissionInvariant'
<1> USE DEF AdmissionInvariant
<1> DEFINE r == RunOf[q]
<1>0. q \in Submissions /\ r \in Runs /\ phase \notin Stopping
  BY RequestsAssumption DEF Forget, Submissions, Placed, Stopped
<1>1. \A p \in Requests : /\ pc'[p] = IF p = q THEN "done" ELSE pc[p]
                          /\ lockOf'[p] = IF p = q THEN None ELSE lockOf[p]
  BY DEF Forget, Go, TypeOK
<1>2. \A s \in Runs :
        /\ waiters'[s] = IF s = r THEN waiters[s] - 1 ELSE waiters[s]
        /\ locks'[s] = IF s = r /\ waiters[s] - 1 = 0 THEN None ELSE locks[s]
  BY DEF Forget, TypeOK
<1>3. \A p \in Submissions : p \in Requests /\ RunOf[p] \in Runs
  BY RequestsAssumption DEF Submissions
<1>4. q \in Users(r) /\ Users(r)' = Users(r) \ {q}
  BY <1>0, <1>1, <1>3 DEF Users, Forget, Queued, Holding
<1>5. IsFiniteSet(Users(r)') /\ Cardinality(Users(r)') = Cardinality(Users(r)) - 1
  BY <1>0, <1>4, FS_RemoveElement DEF Counted
<1>6. Cardinality(Users(r)') \in Nat /\ (Cardinality(Users(r)') = 0 => Users(r)' = {})
  BY <1>5, FS_CardinalityType, FS_EmptySet
<1>7. TypeOK'
  <2>1. pc' \in [Requests -> Places]
    BY DEF Forget, Go, TypeOK, Places
  <2>2. waiters[r] - 1 \in Nat
    BY <1>0, <1>5, <1>6 DEF Counted
  <2>3. waiters' \in [Runs -> Nat]
    BY <2>2 DEF Forget, TypeOK
  <2>4. locks' \in [Runs -> Requests \cup {None}] /\ lockOf' \in [Requests -> Requests \cup {None}]
    BY DEF Forget, TypeOK
  <2>5. QED
    BY <2>1, <2>3, <2>4 DEF Forget, Go, TypeOK
<1>8. Placed'
  BY <1>0, <1>1 DEF Placed, Submissions
<1>9. Counted'
  <2>1. \A s \in Runs : s # r => Users(s)' = Users(s)
    BY <1>1, <1>3 DEF Users
  <2>2. \A s \in Runs : /\ IsFiniteSet(Users(s)') /\ waiters'[s] = Cardinality(Users(s)')
                        /\ locks'[s] # None => locks'[s] \in Submissions /\ RunOf[locks'[s]] = s
    BY <1>0, <1>2, <1>5, <2>1 DEF Counted
  <2>3. ASSUME NEW p \in Submissions, pc'[p] \in Queued
        PROVE  lockOf'[p] = locks'[RunOf[p]] /\ lockOf'[p] # None
    <3>1. p # q /\ pc[p] \in Queued
      BY <1>0, <1>1, <1>3, <2>3 DEF Queued, Holding
    <3>2. RunOf[p] = r => Users(r)' # {}
      BY <2>3 DEF Users
    <3>3. RunOf[p] = r => waiters[r] - 1 # 0
      BY <1>0, <1>5, <1>6, <3>2 DEF Counted
    <3>4. QED
      BY <1>1, <1>2, <1>3, <3>1, <3>3 DEF Counted
  <2>4. QED
    BY <2>2, <2>3 DEF Counted
<1>10. Exclusive'
  BY <1>1, <1>3 DEF Exclusive, Holding
<1>11. Durable'
  BY DurableStable DEF Forget, Go, Places
<1>12. Registered' /\ Stopped'
  BY <1>0 DEF Forget, Registered, Over, Stopped, Stopping
<1>13. QED
  BY <1>7, <1>8, <1>9, <1>10, <1>11, <1>12

-----------------------------------------------------------------------------
(* The other steps of the handlers *)

\* Submissions that move while they hold their key.
LEMMA SubmitLemma ==
  ASSUME AdmissionInvariant, NEW q \in Requests,
         Unlock(q) \/ Resolve(q) \/ Reserve(q) \/ Prepare(q) \/ Register(q) \/ Release(q)
  PROVE  AdmissionInvariant'
<1> USE DEF AdmissionInvariant
<1> DEFINE r == RunOf[q]
<1>0. q \in Submissions /\ r \in Runs /\ Op[q] = "submit"
      /\ pc[q] \in {"unlock", "resolve", "reserve", "prepare", "register", "release"}
  BY RequestsAssumption DEF Submissions, Placed, Unlock, Resolve, Reserve, Prepare, Register, Release
<1>1. ASSUME NEW place \in {"unlock", "forget", "contain", "reserve", "prepare", "register", "release"},
             pc' = [pc EXCEPT ![q] = place], UNCHANGED <<keyed, phase>>
      PROVE  /\ pc' \in [Requests -> Places]
             /\ Placed' /\ Counted' /\ Exclusive' /\ Stopped'
  BY <1>0, <1>1, MoveLemma DEF Places, Queued, Holding
<1>2. CASE Unlock(q)
  <2>1. Durable'
    BY <1>2, DurableStable DEF Unlock, Go, Places
  <2>2. Registered'
    BY <1>2 DEF Unlock, Registered, Over
  <2>3. QED
    BY <1>1, <1>2, <2>1, <2>2 DEF Unlock, Go, TypeOK
<1>3. CASE Resolve(q)
  <2>1. Registered'
    BY <1>3 DEF Resolve, Registered, Over
  <2>2. CASE Go(q, "contain") /\ DurableAnswer(q) = "untrusted"
    <3>1. Bound(r)
      BY <2>2 DEF DurableAnswer
    <3>2. Durable'
      BY <1>3, <2>2, <3>1, DurableStable DEF Resolve, Go, Places
    <3>3. QED
      BY <1>1, <1>3, <2>1, <2>2, <3>2 DEF Resolve, Go, TypeOK
  <2>3. CASE Go(q, "reserve")
    <3>1. Durable'
      BY <1>3, <2>3, DurableStable DEF Resolve, Go, Places
    <3>2. QED
      BY <1>1, <1>3, <2>1, <2>3, <3>1 DEF Resolve, Go, TypeOK
  <2>4. ASSUME NEW code \in {DurableAnswer(q), "budget"}, Answer(q, code, "unlock")
        PROVE  AdmissionInvariant'
    <3>1. code \in Replies /\ (code = "accepted" => submission[r] = DigestOf[q])
      BY DEF DurableAnswer, SameRequest, Replies
    <3>2. Durable' /\ reply' \in [Requests -> Replies]
      BY <1>3, <2>4, <3>1, DurableAnswered DEF Resolve
    <3>3. QED
      BY <1>1, <1>3, <2>1, <2>4, <3>2 DEF Resolve, Answer, TypeOK
  <2>5. QED
    BY <1>3, <2>2, <2>3, <2>4 DEF Resolve
<1>4. CASE Reserve(q)
  <2>1. Registered' /\ reserved' \subseteq Requests
    BY <1>4 DEF Reserve, Registered, Over, TypeOK
  <2>2. CASE Go(q, "prepare")
    <3>1. Durable'
      BY <1>4, <2>2, DurableStable DEF Reserve, Go, Places
    <3>2. QED
      BY <1>1, <1>4, <2>1, <2>2, <3>1 DEF Reserve, Go, TypeOK
  <2>3. ASSUME NEW code \in {"shutting_down", "capacity", "busy"}, Answer(q, code, "unlock")
        PROVE  AdmissionInvariant'
    <3>1. Durable' /\ reply' \in [Requests -> Replies]
      BY <1>4, <2>3, DurableAnswered DEF Reserve, Replies
    <3>2. QED
      BY <1>1, <1>4, <2>1, <2>3, <3>1 DEF Reserve, Answer, TypeOK
  <2>4. QED
    BY <1>4, <2>2, <2>3 DEF Reserve
<1>5. CASE Release(q)
  <2>1. Durable'
    BY <1>5, DurableStable DEF Release, Go, Places
  <2>2. Registered' /\ reserved' \subseteq Requests
    BY <1>5 DEF Release, Registered, Over, TypeOK
  <2>3. QED
    BY <1>1, <1>5, <2>1, <2>2 DEF Release, Go, TypeOK
<1>6. CASE Prepare(q)
  <2>1. Registered'
    BY <1>6 DEF Prepare, Registered, Over
  <2>2. CASE UNCHANGED <<made, submission, terminal>>
    <3>1. PICK code \in {"reservation_failed", "not_persisted"} : Answer(q, code, "release")
      BY <1>6, <2>2, <1>0 DEF Prepare, TypeOK
    <3>2. Durable' /\ reply' \in [Requests -> Replies]
      BY <2>2, <3>1, DurableAnswered DEF Replies
    <3>3. QED
      BY <1>1, <1>6, <2>1, <2>2, <3>1, <3>2 DEF Prepare, Answer, TypeOK
  <2>3. CASE r \notin made /\ made' = made \cup {r}
    <3>1. ~Bound(r)
      BY <1>0, <2>3 DEF Durable
    <3>2. PICK place \in {"register", "release"}, code \in {reply[q], "not_persisted", "refused"} :
            /\ pc' = [pc EXCEPT ![q] = place] /\ reply' = [reply EXCEPT ![q] = code]
            /\ place = "register" => submission' = [submission EXCEPT ![r] = DigestOf[q]]
            /\ code = "accepted" => code = reply[q]
      BY <1>6, <2>3 DEF Prepare, Go, Answer, TypeOK
    <3>3. submission' \in {submission, [submission EXCEPT ![r] = DigestOf[q]]}
          /\ terminal' \in {terminal, [terminal EXCEPT ![r] = IF @ = "absent" THEN "trusted" ELSE @]}
      BY <1>6, <2>3 DEF Prepare, FailedTerminal
    <3>4. DigestOf[q] # None /\ DigestOf[q] \in {DigestOf[p] : p \in Submissions}
      BY <1>0, RequestsAssumption
    <3>5. \A s \in Runs : submission'[s] = submission[s] \/ (s = r /\ submission'[s] = DigestOf[q])
      BY <1>0, <3>3 DEF TypeOK
    <3>6. \A p \in Requests : /\ pc'[p] = IF p = q THEN place ELSE pc[p]
                              /\ reply'[p] = IF p = q THEN code ELSE reply[p]
      BY <3>2 DEF TypeOK
    <3>7. \A p \in Submissions : p \in Requests /\ RunOf[p] \in Runs
      BY RequestsAssumption DEF Submissions
    <3>8. TypeOK'
      <4>1. submission' \in [Runs -> {DigestOf[p] : p \in Submissions} \cup {None}]
        BY <3>3, <3>4 DEF TypeOK
      <4>2. reply' \in [Requests -> Replies] /\ terminal' \in [Runs -> {"absent", "trusted", "invalid"}]
        BY <1>0, <3>2, <3>3 DEF TypeOK, Replies
      <4>3. pc' \in [Requests -> Places] /\ made' \subseteq Runs
        BY <1>0, <2>3, <3>2 DEF TypeOK, Places
      <4>4. QED
        BY <1>6, <4>1, <4>2, <4>3 DEF Prepare, TypeOK
    <3>9. Durable'
      <4>1. \A s \in Runs : Bound(s)' =>
              s \in made' /\ \E p \in Submissions : RunOf[p] = s /\ DigestOf[p] = submission'[s]
        BY <1>0, <2>3, <3>5 DEF Durable, Bound
      <4>2. ASSUME NEW p \in Submissions, pc'[p] = "register" \/ reply'[p] = "accepted"
            PROVE  submission'[RunOf[p]] = DigestOf[p]
        <5>1. CASE p = q
          <6>1. reply[q] # "accepted"
            BY <1>0, <3>1, <3>4 DEF Durable, Bound
          <6>2. place = "register"
            BY <1>0, <3>2, <3>6, <4>2, <5>1, <6>1
          <6>3. QED
            BY <1>0, <3>2, <5>1, <6>2 DEF TypeOK
        <5>2. CASE p # q
          <6>1. submission[RunOf[p]] = DigestOf[p] /\ DigestOf[p] # None
            BY <3>6, <3>7, <4>2, <5>2, RequestsAssumption DEF Durable
          <6>2. RunOf[p] # r
            BY <3>1, <6>1 DEF Bound
          <6>3. QED
            BY <3>5, <3>7, <6>1, <6>2
        <5>3. QED
          BY <5>1, <5>2
      <4>3. \A p \in Requests :
              pc'[p] \in {"cancelled", "inspect", "contain", "contained", "uncontained"} =>
                Bound(RunOf[p])'
        BY <1>0, <3>1, <3>4, <3>5, <3>6, RequestsAssumption DEF Durable, Bound
      <4>4. QED
        BY <4>1, <4>2, <4>3 DEF Durable
    <3>10. QED
      BY <1>1, <1>6, <2>1, <3>2, <3>8, <3>9 DEF Prepare
  <2>4. QED
    BY <1>6, <2>2, <2>3 DEF Prepare
<1>7. CASE Register(q)
  <2>1. submission[r] = DigestOf[q]
    BY <1>0, <1>7 DEF Register, Durable
  <2>2. PICK place \in {"unlock", "release"}, code \in {"accepted", "not_registered", "shutting_down"} :
          Answer(q, code, place)
    BY <1>7 DEF Register
  <2>3. Durable' /\ reply' \in [Requests -> Replies]
    BY <1>7, <2>1, <2>2, DurableAnswered DEF Register, Replies
  <2>4. Registered'
    BY <1>0, <1>7 DEF Register, Registered, Over, TypeOK
  <2>5. TypeOK'
    <3>1. pc' \in [Requests -> Places]
      BY <2>2 DEF Answer, TypeOK, Places
    <3>2. terminal' \in [Runs -> {"absent", "trusted", "invalid"}]
      BY <1>0, <1>7 DEF Register, FailedTerminal, TypeOK
    <3>3. SessionOf[q] \in {SessionOf[p] : p \in Submissions}
      BY <1>0
    <3>4. session' \in [Runs -> {SessionOf[p] : p \in Submissions} \cup {None}]
      BY <1>7, <3>3 DEF Register, TypeOK
    <3>5. task' \in [Runs -> {"none", "created", "stillborn", "never", "running", "done"}]
          /\ entries' \subseteq Runs /\ reserved' \subseteq Requests
      BY <1>0, <1>7 DEF Register, TypeOK
    <3>6. QED
      BY <1>7, <2>3, <3>1, <3>2, <3>4, <3>5 DEF Register, TypeOK
  <2>6. QED
    BY <1>1, <1>7, <2>2, <2>3, <2>4, <2>5 DEF Register, Answer
<1>8. QED
  BY <1>2, <1>3, <1>4, <1>5, <1>6, <1>7

\* A handler that contains a Run finds the Session that its submission names.
LEMMA FenceLemma ==
  ASSUME AdmissionInvariant, NEW r \in Runs, Bound(r), Quarantine(r)
  PROVE  quarantined' \subseteq {SessionOf[q] : q \in Submissions}
<1>1. PICK q \in Submissions : RunOf[q] = r /\ DigestOf[q] = submission[r]
  BY DEF AdmissionInvariant, Durable
<1>2. \E s \in {SessionOf[p] : p \in Submissions} :
        \E p \in Submissions : RunOf[p] = r /\ DigestOf[p] = submission[r] /\ SessionOf[p] = s
  BY <1>1
<1>3. BoundSession(r) \in {SessionOf[p] : p \in Submissions}
  BY <1>2 DEF BoundSession
<1>4. QED
  BY <1>3 DEF Quarantine, AdmissionInvariant, TypeOK

\* The refusal of an untrusted terminal, wherever a handler gets to it.
LEMMA RefuseLemma ==
  ASSUME AdmissionInvariant, NEW q \in Requests,
         pc[q] \in {"contain", "contained", "uncontained"}, Refuse(q),
         UNCHANGED <<keyed, registry, made, submission, terminal, daemon, damage>>
  PROVE  AdmissionInvariant'
<1> USE DEF AdmissionInvariant
<1> DEFINE place == IF Op[q] = "submit" THEN "unlock" ELSE "done"
<1>1. Answer(q, "untrusted", place) /\ Quarantine(RunOf[q]) /\ RunOf[q] \in Runs
  BY RequestsAssumption DEF Refuse
<1>2. pc' \in [Requests -> Places] /\ Placed' /\ Counted' /\ Exclusive' /\ Stopped'
  BY <1>1, MoveLemma DEF Answer, Places, Queued, Holding, Elsewhere
<1>3. Durable' /\ reply' \in [Requests -> Replies]
  BY <1>1, DurableAnswered DEF Replies
<1>4. quarantined' \subseteq {SessionOf[p] : p \in Submissions}
  BY <1>1, FenceLemma DEF Durable
<1>5. TypeOK'
  BY <1>2, <1>3, <1>4 DEF TypeOK
<1>6. Registered'
  BY DEF Registered, Over
<1>7. QED
  BY <1>2, <1>3, <1>5, <1>6

\* run_cancel, run_status, and containment on behalf of any request.
LEMMA QueryLemma ==
  ASSUME AdmissionInvariant, NEW q \in Requests,
         Query(q) \/ CancelReturns(q) \/ Inspect(q) \/ Contain(q) \/ ContainReturns(q)
           \/ ContainWaited(q)
  PROVE  AdmissionInvariant'
<1> USE DEF AdmissionInvariant
<1> DEFINE r == RunOf[q]
<1>0. r \in Runs
  BY RequestsAssumption
<1>1. ASSUME NEW place \in Elsewhere \ {"new"}, Op[q] # "submit",
             pc[q] \notin {"new", "done"} \/ Serving,
             pc' = [pc EXCEPT ![q] = place], UNCHANGED <<keyed, phase>>
      PROVE  pc' \in [Requests -> Places] /\ Placed' /\ Counted' /\ Exclusive' /\ Stopped'
  BY <1>1, MoveLemma DEF Places, Elsewhere
<1>2. CASE Query(q)
  <2>1. Op[q] # "submit" /\ Serving /\ task' \in {task, [task EXCEPT ![r] = Cancelled(@)]}
        /\ UNCHANGED <<keyed, open, reserved, entries, session, store, daemon, damage>>
    BY <1>2 DEF Query
  <2>2. task' \in [Runs -> {"none", "created", "stillborn", "never", "running", "done"}]
        /\ Registered'
    BY <1>0, <2>1 DEF TypeOK, Cancelled, Registered, Over
  <2>3. CASE Answer(q, "unknown_run", "done")
    <3>1. Durable' /\ reply' \in [Requests -> Replies]
      BY <2>1, <2>3, DurableAnswered DEF Replies
    <3>2. QED
      BY <1>1, <2>1, <2>2, <2>3, <3>1 DEF Answer, TypeOK, Elsewhere
  <2>4. ASSUME NEW place \in {"cancelled", "inspect"}, Go(q, place), Bound(r)
        PROVE  AdmissionInvariant'
    <3>1. Durable'
      BY <2>1, <2>4, DurableStable DEF Go, Places
    <3>2. QED
      BY <1>1, <2>1, <2>2, <2>4, <3>1 DEF Go, TypeOK, Elsewhere
  <2>5. QED
    BY <1>2, <2>3, <2>4 DEF Query
<1>3. CASE CancelReturns(q)
  <2>1. Op[q] # "submit" /\ Bound(r)
    BY <1>3 DEF CancelReturns, Placed, Durable
  <2>2. Durable' /\ Registered'
    BY <1>3, <2>1, DurableStable DEF CancelReturns, Go, Places, Registered, Over
  <2>3. QED
    BY <1>1, <1>3, <2>1, <2>2 DEF CancelReturns, Go, TypeOK, Elsewhere
<1>4. CASE Inspect(q)
  <2>1. Op[q] # "submit" /\ Bound(r) /\ Registered'
    BY <1>4 DEF Inspect, Placed, Durable, Registered, Over
  <2>2. CASE Go(q, "contain")
    <3>1. Durable'
      BY <1>4, <2>1, <2>2, DurableStable DEF Inspect, Go, Places
    <3>2. QED
      BY <1>1, <1>4, <2>1, <2>2, <3>1 DEF Inspect, Go, TypeOK, Elsewhere
  <2>3. CASE Answer(q, "answered", "done")
    <3>1. Durable' /\ reply' \in [Requests -> Replies]
      BY <1>4, <2>3, DurableAnswered DEF Inspect, Replies
    <3>2. QED
      BY <1>1, <1>4, <2>1, <2>3, <3>1 DEF Inspect, Answer, TypeOK, Elsewhere
  <2>4. QED
    BY <1>4, <2>2, <2>3 DEF Inspect
<1>5. ASSUME NEW place \in {"contained", "uncontained"}, Go(q, place),
             pc[q] \in {"contain", "contained"}, UNCHANGED <<keyed, phase, made, submission>>
      PROVE  /\ pc' \in [Requests -> Places] /\ Placed' /\ Counted' /\ Exclusive' /\ Stopped'
             /\ Durable' /\ UNCHANGED reply
  <2>1. pc' = [pc EXCEPT ![q] = place] /\ Bound(r)
    BY <1>5 DEF Go, Durable
  <2>2. Durable'
    BY <1>5, <2>1, DurableStable DEF Go, Places
  <2>3. QED
    BY <1>5, <2>1, <2>2, MoveLemma DEF Go, Places, Queued, Holding, Elsewhere
<1>6. CASE Contain(q)
  <2>1. CASE r \in entries
    <3>1. task' = [task EXCEPT ![r] = Cancelled(@)] /\ Go(q, "contained") /\ UNCHANGED quarantined
      BY <1>6, <2>1 DEF Contain
    <3>2. task' \in [Runs -> {"none", "created", "stillborn", "never", "running", "done"}]
          /\ Registered'
      BY <1>0, <1>6, <3>1 DEF Contain, TypeOK, Cancelled, Registered, Over
    <3>3. QED
      BY <1>5, <1>6, <3>1, <3>2 DEF Contain, TypeOK
  <2>2. CASE r \notin entries
    BY <1>6, <2>2, RefuseLemma DEF Contain
  <2>3. QED
    BY <2>1, <2>2
<1>7. CASE ContainReturns(q)
  <2>1. CASE r \in entries
    <3>1. Quarantine(r) /\ Go(q, "uncontained") /\ Bound(r)
      BY <1>7, <2>1 DEF ContainReturns, Durable
    <3>2. quarantined' \subseteq {SessionOf[p] : p \in Submissions}
      BY <1>0, <3>1, FenceLemma
    <3>3. Registered'
      BY <1>7 DEF ContainReturns, Registered, Over
    <3>4. QED
      BY <1>5, <1>7, <3>1, <3>2, <3>3 DEF ContainReturns, TypeOK
  <2>2. CASE r \notin entries
    BY <1>7, <2>2, RefuseLemma DEF ContainReturns
  <2>3. QED
    BY <2>1, <2>2
<1>8. CASE ContainWaited(q)
  BY <1>8, RefuseLemma DEF ContainWaited
<1>9. QED
  BY <1>2, <1>3, <1>4, <1>6, <1>7, <1>8

-----------------------------------------------------------------------------
(* The Run tasks, the shutdown and the environment *)

\* A step that moves no handler keeps the count of every key.
LEMMA QuietLemma ==
  ASSUME AdmissionInvariant, UNCHANGED <<pc, keyed>>
  PROVE  Placed' /\ Counted' /\ Exclusive'
<1>1. \A r : Users(r)' = Users(r)
  BY DEF Users
<1>2. QED
  BY <1>1 DEF AdmissionInvariant, Placed, Counted, Exclusive

LEMMA TaskLemma ==
  ASSUME AdmissionInvariant, NEW r \in Runs, RunTaskStep(r) \/ Publish(r) \/ Damage(r)
  PROVE  AdmissionInvariant'
<1> USE DEF AdmissionInvariant
<1>1. UNCHANGED <<pc, reply, keyed, made, submission, quarantined, reserved, daemon>>
  BY DEF RunTaskStep, TaskStarts, TaskNeverStarts, TaskEnds, Publish, Damage
<1>2. TypeOK'
  BY LimitsAssumption
     DEF RunTaskStep, TaskStarts, TaskNeverStarts, TaskEnds, Publish, Damage, TypeOK
<1>3. Durable'
  BY <1>1 DEF Durable, Bound
<1>4. Registered'
  BY DEF RunTaskStep, TaskStarts, TaskNeverStarts, TaskEnds, Publish, Damage, TypeOK,
         Registered, Over
<1>5. Stopped'
  BY DEF RunTaskStep, TaskStarts, TaskNeverStarts, TaskEnds, Publish, Damage, Stopped
<1>6. QED
  BY <1>1, <1>2, <1>3, <1>4, <1>5, QuietLemma

LEMMA ShutdownLemma ==
  ASSUME AdmissionInvariant, RequestStop \/ Shutdown \/ LifecycleFails
  PROVE  AdmissionInvariant'
<1> USE DEF AdmissionInvariant, RequestStop, Shutdown, LifecycleFails, CloseAdmission,
            StopServer, CancelAll, TasksEnded, RegistryIdle, ReleaseLease
<1>1. UNCHANGED <<requests, keyed, entries, session, task, store, tight, starts, damage>>
  OBVIOUS
<1>2. TypeOK'
  <2>1. phase' \in {"closing", "stopping", "draining", "cancelling", "idling", "idle", "down"}
        /\ open' \in BOOLEAN /\ reserved' \subseteq Requests
    BY DEF TypeOK
  <2>2. retries' \in 0..MaxRetries
    BY LimitsAssumption DEF TypeOK
  <2> HIDE DEF RequestStop, Shutdown, LifecycleFails
  <2>3. QED
    BY <1>1, <2>1, <2>2 DEF TypeOK
<1>3. Durable' /\ Registered'
  BY <1>1 DEF Durable, Bound, Registered, Over
<1>4. Stopped'
  BY DEF Stopped, Stopping
<1>5. QED
  BY <1>1, <1>2, <1>3, <1>4, QuietLemma

\* A crash ends the handlers, the tasks and the locks together.
LEMMA CrashLemma ==
  ASSUME AdmissionInvariant, Crash
  PROVE  AdmissionInvariant'
<1> USE DEF AdmissionInvariant
<1>1. \A q \in Requests : /\ pc'[q] \in {"new", "done"}
                          /\ reply'[q] \in {reply[q], "lost"}
  BY DEF Crash
<1>2. TypeOK'
  <2>1. pc' \in [Requests -> Places]
    BY DEF Crash, Places
  <2>2. reply' \in [Requests -> Replies]
    BY DEF Crash, Replies, TypeOK
  <2>3. locks' \in [Runs -> Requests \cup {None}] /\ waiters' \in [Runs -> Nat]
        /\ lockOf' \in [Requests -> Requests \cup {None}]
    BY DEF Crash
  <2>4. task' \in [Runs -> {"none", "created", "stillborn", "never", "running", "done"}]
    BY DEF Crash
  <2>5. QED
    BY <2>1, <2>2, <2>3, <2>4 DEF Crash, TypeOK
<1>3. \A p \in Submissions : p \in Requests
  BY DEF Submissions
<1>4. Placed' /\ Exclusive'
  BY <1>1, <1>3 DEF Placed, Exclusive, Holding
<1>5. Counted'
  <2>1. \A r : Users(r)' = {}
    BY <1>1, <1>3 DEF Users, Queued, Holding
  <2>2. \A r \in Runs : waiters'[r] = 0 /\ locks'[r] = None
    BY DEF Crash
  <2>3. QED
    BY <1>1, <1>3, <2>1, <2>2, FS_EmptySet DEF Counted, Queued, Holding
<1>6. Durable'
  BY <1>1, <1>3 DEF Crash, Durable, Bound
<1>7. Registered' /\ Stopped'
  BY <1>1 DEF Crash, Registered, Over, Stopped, TypeOK
<1>8. QED
  BY <1>2, <1>4, <1>5, <1>6, <1>7

LEMMA StartLemma ==
  ASSUME AdmissionInvariant, Start
  PROVE  AdmissionInvariant'
<1> USE DEF AdmissionInvariant
<1>1. UNCHANGED <<requests, keyed, reserved, entries, session, task, made, submission,
                  quarantined, retries, damage>>
      /\ phase = "down" /\ phase' \in {"serving", "refused"}
  BY DEF Start
<1>2. TypeOK'
  BY LimitsAssumption DEF Start, TypeOK
<1>3. Durable' /\ Registered' /\ Stopped'
  BY <1>1 DEF Durable, Bound, Registered, Over, Stopped, Stopping
<1>4. QED
  BY <1>1, <1>2, <1>3, QuietLemma

LEMMA InitLemma == Init => AdmissionInvariant
<1> SUFFICES ASSUME Init PROVE AdmissionInvariant
  OBVIOUS
<1>1. TypeOK
  <2>1. pc \in [Requests -> Places] /\ reply \in [Requests -> Replies]
    BY DEF Init, Places, Replies
  <2>2. starts \in 0..MaxStarts /\ retries \in 0..MaxRetries /\ damage \in 0..MaxDamage
    BY LimitsAssumption DEF Init
  <2>3. /\ locks \in [Runs -> Requests \cup {None}] /\ waiters \in [Runs -> Nat]
        /\ lockOf \in [Requests -> Requests \cup {None}]
    BY DEF Init
  <2>4. QED
    BY <2>1, <2>2, <2>3 DEF Init, TypeOK
<1>2. \A q \in Submissions : q \in Requests
  BY DEF Submissions
<1>3. Placed /\ Exclusive /\ Registered /\ Stopped
  <2>1. \A q \in Requests : pc[q] = "new"
    BY DEF Init
  <2>2. Placed /\ Exclusive
    BY <1>2, <2>1 DEF Placed, Exclusive, Holding
  <2>3. QED
    BY <2>2 DEF Init, Registered, Over, Stopped, Stopping
<1>4. Counted
  <2>1. \A r : Users(r) = {}
    BY <1>2 DEF Init, Users, Queued, Holding
  <2>2. QED
    BY <1>2, <2>1, FS_EmptySet DEF Init, Counted, Queued, Holding
<1>5. Durable
  BY <1>2 DEF Init, Durable, Bound
<1>6. QED
  BY <1>1, <1>3, <1>4, <1>5 DEF AdmissionInvariant

LEMMA StepLemma == AdmissionInvariant /\ [Next]_vars => AdmissionInvariant'
<1> SUFFICES ASSUME AdmissionInvariant, [Next]_vars PROVE AdmissionInvariant'
  OBVIOUS
<1>1. CASE \E q \in Requests : Enter(q) \/ Query(q) \/ Handle(q)
  BY <1>1, EnterLemma, AcquireLemma, ForgetLemma, SubmitLemma, QueryLemma DEF Handle
<1>2. CASE \E r \in Runs : RunTaskStep(r) \/ Publish(r) \/ Damage(r)
  BY <1>2, TaskLemma
<1>3. CASE RequestStop \/ Shutdown \/ LifecycleFails
  BY <1>3, ShutdownLemma
<1>4. CASE Crash \/ Start
  BY <1>4, CrashLemma, StartLemma
<1>5. CASE UNCHANGED vars
  <2>1. Placed' /\ Counted' /\ Exclusive'
    BY <1>5, QuietLemma DEF vars
  <2>2. TypeOK' /\ Durable' /\ Registered' /\ Stopped'
    BY <1>5 DEF vars, AdmissionInvariant, TypeOK, Durable, Bound, Registered, Over, Stopped
  <2>3. QED
    BY <2>1, <2>2 DEF AdmissionInvariant
<1>6. QED
  BY <1>1, <1>2, <1>3, <1>4, <1>5 DEF Next

-----------------------------------------------------------------------------
(* The theorems *)

\* The waiters of an admission key are the handlers that have its lock object,
\* what is durable agrees with what was answered, live tasks are registered, and
\* each phase of the shutdown has seen to what the next one relies on.
THEOREM AdmissionInvariantHolds == Spec => []AdmissionInvariant
<1>1. QED
  BY InitLemma, StepLemma, PTL DEF Spec

\* KeyedLocks excludes: one submission at a time works on an admission key, on
\* the lock object that the next one will find, for any number of them.
THEOREM KeyExclusiveHolds == Spec => []KeyExclusive
<1>1. AdmissionInvariant => KeyExclusive
  BY DEF AdmissionInvariant, Counted, Exclusive, KeyExclusive, Queued
<1>2. QED
  BY <1>1, AdmissionInvariantHolds, PTL

\* All acceptances of one (principal_id, request_id) are for one digest, through
\* any number of submissions, crashes and restarts.
THEOREM AcceptancesAgreeHolds == Spec => []AcceptancesAgree
<1>1. AdmissionInvariant => AcceptancesAgree
  BY DEF AdmissionInvariant, Durable, AcceptancesAgree
<1>2. QED
  BY <1>1, AdmissionInvariantHolds, PTL

\* The instance lease is given up only when no Run, reservation or handler is left.
THEOREM LeaseOutlivesRunsHolds == Spec => []LeaseOutlivesRuns
<1>1. AdmissionInvariant => LeaseOutlivesRuns
  <2> SUFFICES ASSUME AdmissionInvariant, ~LeaseHeld
               PROVE  /\ \A r \in Runs : Over(r)
                      /\ entries = {} /\ reserved = {}
                      /\ \A q \in Requests : pc[q] \in {"new", "done"}
    BY DEF LeaseOutlivesRuns
  <2>1. phase \in {"down", "refused"}
    BY DEF LeaseHeld
  <2>2. entries = {} /\ reserved = {} /\ \A q \in Requests : pc[q] \in {"new", "done"}
    BY <2>1 DEF AdmissionInvariant, Stopped, Stopping
  <2>3. QED
    BY <2>2 DEF AdmissionInvariant, Registered
<1>2. QED
  BY <1>1, AdmissionInvariantHolds, PTL

\* No caller is told of an untrusted terminal while the registry's task may live.
THEOREM RefusalIsContainedHolds == Spec => RefusalIsContained
<1>1. AdmissionInvariant /\ [Next]_vars =>
        [\A q \in Requests : reply[q] = "none" /\ reply'[q] = "untrusted" => Over(RunOf[q])]_vars
  <2> SUFFICES ASSUME AdmissionInvariant, [Next]_vars, NEW q \in Requests,
                      reply[q] = "none", reply'[q] = "untrusted"
               PROVE  Over(RunOf[q])
    OBVIOUS
  <2> USE DEF AdmissionInvariant
  <2>0. reply \in [Requests -> Replies] /\ RunOf[q] \in Runs /\ reply' # reply
    BY RequestsAssumption DEF TypeOK
  <2>1. ASSUME NEW p \in Requests, Enter(p) \/ Query(p) \/ Handle(p)
        PROVE  p = q /\ (Contain(p) \/ ContainReturns(p) \/ ContainWaited(p))
    <3>1. CASE Enter(p) \/ Query(p) \/ Acquire(p) \/ Unlock(p) \/ Forget(p) \/ CancelReturns(p)
               \/ Inspect(p) \/ Release(p) \/ Reserve(p) \/ Prepare(p) \/ Register(p)
      BY <2>0, <3>1 DEF Enter, Query, Acquire, Unlock, Forget, CancelReturns, Inspect, Release,
         Reserve, Prepare, Register, Go, Answer
    <3>2. CASE Resolve(p)
      BY <2>0, <3>2 DEF Resolve, Go, Answer
    <3>3. CASE Contain(p) \/ ContainReturns(p) \/ ContainWaited(p)
      BY <2>0, <3>3 DEF Contain, ContainReturns, ContainWaited, Refuse, Go, Answer
    <3>4. QED
      BY <2>1, <3>1, <3>2, <3>3 DEF Handle
  <2>2. CASE Contain(q) \/ ContainReturns(q) \/ ContainWaited(q)
    <3>1. RunOf[q] \notin entries \/ Over(RunOf[q])
      BY <2>0, <2>2 DEF Contain, ContainReturns, ContainWaited, Go
    <3>2. QED
      BY <2>0, <3>1 DEF Registered
  <2>3. CASE \E r \in Runs : RunTaskStep(r) \/ Publish(r) \/ Damage(r)
    BY <2>0, <2>3 DEF RunTaskStep, TaskStarts, TaskNeverStarts, TaskEnds, Publish, Damage
  <2>4. CASE RequestStop \/ Shutdown \/ LifecycleFails \/ Start \/ UNCHANGED vars
    BY <2>0, <2>4 DEF RequestStop, Shutdown, LifecycleFails, CloseAdmission, StopServer,
       CancelAll, TasksEnded, RegistryIdle, ReleaseLease, Start, vars
  <2>5. CASE Crash
    BY <2>0, <2>5 DEF Crash
  <2>6. QED
    BY <2>1, <2>2, <2>3, <2>4, <2>5 DEF Next
<1>2. QED
  BY <1>1, AdmissionInvariantHolds, PTL DEF Spec, RefusalIsContained
=============================================================================
