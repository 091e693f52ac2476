-------------------------- MODULE ConversationProofs --------------------------
(***************************************************************************)
(* What is proved about Conversation, for any number of frames and any     *)
(* bound on the wire: history stays out of the turn, and a turn that       *)
(* returns is whole.  Both rest on a numbering of the queued callbacks     *)
(* that the code never writes down: the number each update had when the    *)
(* observer counted it.  The boundary and the barrier's target are such    *)
(* numbers; delivered and completed are counts of callbacks that ran.      *)
(***************************************************************************)
EXTENDS Conversation, TLAPS

FrameType == [type : {"update", "junk", "request", "opened", "answer"}, own : BOOLEAN,
              id : Epochs \X Nat]

Typed ==
  /\ agent \in [epoch : Epochs, sent : [Epochs -> Nat], prompt : BOOLEAN,
                updates : SUBSET (Epochs \X Nat)]
  /\ wire \in Seq(FrameType) /\ tasks \in Seq(FrameType) /\ waiting \in Nat
  /\ count \in [observed : Nat, delivered : Nat, completed : Nat]
  /\ driver \in [phase : DriverPhases, boundary : Nat \cup {None}, target : Nat \cup {None},
                 foreign : BOOLEAN, failure : BOOLEAN]
  /\ turn \in [ingested : Seq(Epochs \X Nat), replayed : Nat]

IsUpdate(f) == f.type = "update"
OfHistory(f) == f.type = "update" /\ f.id[1] = "history"
OfTurn(f) == f.type = "update" /\ f.id[1] = "turn"

\* The epoch of the agent, against the phase of the driver.
InStep ==
  /\ agent.epoch = "history" => driver.phase = "opening"
  /\ agent.prompt => agent.epoch = "idle" /\ driver.boundary # None
  /\ driver.boundary = None =>
       /\ agent.epoch \in {"history", "idle"}
       /\ driver.phase \in {"opening", "ready", "queued", "failed"}
  /\ driver.boundary # None =>
       driver.phase \in {"written", "answered", "barrier", "returned", "failed"}
  /\ driver.phase \in {"answered", "barrier", "returned"} => agent.epoch = "late"
  /\ driver.phase \in {"barrier", "returned"} => driver.target # None

\* The wire keeps the order of the epochs: an answer closes the one before it.
WireInOrder ==
  \A i \in 1..Len(wire) :
    /\ wire[i].type = "opened" =>
         /\ agent.epoch # "history"
         /\ \A j \in (i + 1)..Len(wire) : ~OfHistory(wire[j])
    /\ wire[i].type = "answer" =>
         /\ agent.epoch = "late"
         /\ \A j \in (i + 1)..Len(wire) : ~OfTurn(wire[j])
    /\ OfHistory(wire[i]) => driver.phase = "opening"
    /\ OfTurn(wire[i]) => /\ agent.epoch \in {"turn", "late"}
                          /\ driver.phase \notin {"answered", "barrier", "returned"}

\* The updates whose callback has run.
Started == count.completed + waiting

Counted ==
  /\ count.delivered <= Started /\ Started <= count.observed
  /\ ~driver.failure => count.delivered = Started
  /\ driver.boundary <= count.observed /\ driver.target <= count.observed

\* num[i] is what observed was when the i-th queued callback was counted.
Numbers(num) ==
  /\ \A i, j \in 1..Len(tasks) :
       i < j /\ IsUpdate(tasks[i]) /\ IsUpdate(tasks[j]) => num[i] < num[j]
  /\ \A i \in 1..Len(tasks) :
       /\ IsUpdate(tasks[i]) => Started < num[i] /\ num[i] <= count.observed
       /\ OfHistory(tasks[i]) /\ driver.boundary # None => num[i] <= driver.boundary
       /\ OfTurn(tasks[i]) => driver.boundary # None /\ driver.boundary < num[i]
       /\ OfTurn(tasks[i]) /\ driver.phase \in {"barrier", "returned"} =>
            num[i] <= driver.target
  /\ \A n \in (Started + 1)..count.observed :
       \E i \in 1..Len(tasks) : IsUpdate(tasks[i]) /\ num[i] = n

Numbered == \E num \in [1..Len(tasks) -> Nat] : Numbers(num)

Earlier(a, b) == a[1] = "turn" /\ b[1] = "turn" => a[2] < b[2]

\* The updates of the turn are in the order they were sent, wherever they are.
TurnInOrder ==
  /\ \A i \in 1..Len(turn.ingested) :
       /\ turn.ingested[i][1] = "turn" => turn.ingested[i][2] <= agent.sent["turn"]
       /\ \A j \in 1..Len(turn.ingested) :
            i < j => Earlier(turn.ingested[i], turn.ingested[j])
       /\ \A j \in 1..Len(tasks) :
            IsUpdate(tasks[j]) => Earlier(turn.ingested[i], tasks[j].id)
       /\ \A j \in 1..Len(wire) :
            IsUpdate(wire[j]) => Earlier(turn.ingested[i], wire[j].id)
  /\ \A i \in 1..Len(tasks) : IsUpdate(tasks[i]) =>
       /\ OfTurn(tasks[i]) => tasks[i].id[2] <= agent.sent["turn"]
       /\ \A j \in 1..Len(tasks) :
            i < j /\ IsUpdate(tasks[j]) => Earlier(tasks[i].id, tasks[j].id)
       /\ \A j \in 1..Len(wire) :
            IsUpdate(wire[j]) => Earlier(tasks[i].id, wire[j].id)
  /\ \A i \in 1..Len(wire) : IsUpdate(wire[i]) =>
       /\ OfTurn(wire[i]) => wire[i].id[2] <= agent.sent["turn"]
       /\ \A j \in 1..Len(wire) :
            i < j /\ IsUpdate(wire[j]) => Earlier(wire[i].id, wire[j].id)

\* An update of the turn is ingested, queued or on the wire.
Ingested(id) == \E i \in 1..Len(turn.ingested) : turn.ingested[i] = id
InQueue(id) == \E i \in 1..Len(tasks) : OfTurn(tasks[i]) /\ tasks[i].own /\ tasks[i].id = id
OnWire(id) == \E i \in 1..Len(wire) : OfTurn(wire[i]) /\ wire[i].own /\ wire[i].id = id

Accounted ==
  /\ \A id \in agent.updates : id[1] = "turn" /\
       (~driver.failure => Ingested(id) \/ InQueue(id) \/ OnWire(id))
  /\ \A i \in 1..Len(turn.ingested) :
       turn.ingested[i][1] = "turn" => turn.ingested[i] \in agent.updates
  /\ \A i \in 1..Len(tasks) :
       OfTurn(tasks[i]) /\ tasks[i].own => tasks[i].id \in agent.updates
  /\ \A i \in 1..Len(wire) :
       OfTurn(wire[i]) /\ wire[i].own => wire[i].id \in agent.updates

\* What Return has checked when it lets a turn return.
Returned ==
  driver.phase = "returned" => ~driver.failure /\ count.completed >= driver.target

ConversationInvariant ==
  /\ Typed /\ InStep /\ WireInOrder /\ Counted /\ Numbered /\ TurnInOrder /\ Accounted
  /\ HistoryStaysOut /\ Returned

-----------------------------------------------------------------------------
(* The agent's steps *)

\* A frame at the end of the wire.
LEMMA AppendLemma ==
  ASSUME NEW S, NEW q \in Seq(S), NEW f \in S
  PROVE  /\ Append(q, f) \in Seq(S) /\ Len(Append(q, f)) = Len(q) + 1 /\ Len(q) \in Nat
         /\ \A i \in 1..Len(q) : Append(q, f)[i] = q[i]
         /\ Append(q, f)[Len(q) + 1] = f
         /\ \A i \in 1..(Len(q) + 1) : i \in 1..Len(q) \/ i = Len(q) + 1
OBVIOUS

\* A frame gone from the front of a queue.
LEMMA TailLemma ==
  ASSUME NEW S, NEW q \in Seq(S), q # <<>>
  PROVE  /\ Tail(q) \in Seq(S) /\ Len(Tail(q)) = Len(q) - 1 /\ Len(q) \in Nat \ {0}
         /\ \A i \in 1..Len(Tail(q)) : Tail(q)[i] = q[i + 1] /\ i + 1 \in 1..Len(q)
         /\ Head(q) = q[1] /\ q[1] \in S /\ 1 \in 1..Len(q)
         /\ \A i \in 1..Len(q) : i = 1 \/ (i - 1 \in 1..Len(Tail(q)) /\ Tail(q)[i - 1] = q[i])
OBVIOUS

\* An id is an epoch and a place in it, wherever its frame is.
LEMMA IdsLemma ==
  ASSUME Typed
  PROVE  /\ \A i \in 1..Len(turn.ingested) : turn.ingested[i] \in Epochs \X Nat
         /\ \A i \in 1..Len(tasks) : tasks[i].id \in Epochs \X Nat
         /\ \A i \in 1..Len(wire) : wire[i].id \in Epochs \X Nat
<1>1. turn.ingested \in Seq(Epochs \X Nat) /\ wire \in Seq(FrameType) /\ tasks \in Seq(FrameType)
  BY DEF Typed
<1>2. \A f \in FrameType : f.id \in Epochs \X Nat
  BY DEF FrameType
<1>3. \A i \in 1..Len(turn.ingested) : turn.ingested[i] \in Epochs \X Nat
  BY <1>1
<1>4. \A i \in 1..Len(tasks) : tasks[i] \in FrameType
  BY <1>1
<1>5. \A i \in 1..Len(wire) : wire[i] \in FrameType
  BY <1>1
<1>6. QED
  BY <1>2, <1>3, <1>4, <1>5

\* The agent sends one more frame of its epoch.
LEMMA SendsLemma ==
  ASSUME ConversationInvariant, AgentSends
  PROVE  ConversationInvariant'
<1> USE DEF ConversationInvariant
<1>1. PICK type \in {"update", "junk", "request"}, own \in BOOLEAN :
        /\ wire' = Append(wire, Frame(type, own))
        /\ agent' = [agent EXCEPT
                       !.sent[agent.epoch] = @ + 1,
                       !.updates = IF type = "update" /\ own /\ agent.epoch = "turn"
                                   THEN @ \cup {Frame(type, own).id} ELSE @]
  BY DEF AgentSends
<1>2. PICK n \in Nat : n = agent.sent[agent.epoch] + 1
  BY DEF Typed
<1>3. PICK f : f = [type |-> type, own |-> own, id |-> <<agent.epoch, n>>]
  OBVIOUS
<1>4. f = Frame(type, own) /\ f \in FrameType /\ f.type = type /\ f.own = own
      /\ f.id = <<agent.epoch, n>> /\ f.id[1] = agent.epoch /\ f.id[2] = n
      /\ f.id \in Epochs \X Nat
  BY <1>2, <1>3 DEF Frame, FrameType, Typed
<1>5. /\ agent'.epoch = agent.epoch /\ agent'.prompt = agent.prompt
      /\ agent'.sent \in [Epochs -> Nat]
      /\ agent'.sent[agent.epoch] = n
      /\ \A e \in Epochs : e # agent.epoch => agent'.sent[e] = agent.sent[e]
      /\ agent'.updates = IF OfTurn(f) /\ f.own THEN agent.updates \cup {f.id} ELSE agent.updates
      /\ agent' \in [epoch : Epochs, sent : [Epochs -> Nat], prompt : BOOLEAN,
                     updates : SUBSET (Epochs \X Nat)]
  BY <1>1, <1>2, <1>4 DEF Typed, OfTurn
<1>6. UNCHANGED <<tasks, waiting, count, driver, turn>>
  BY DEF AgentSends
<1>7. /\ wire' \in Seq(FrameType) /\ Len(wire') = Len(wire) + 1 /\ Len(wire) \in Nat
      /\ \A i \in 1..Len(wire) : wire'[i] = wire[i]
      /\ wire'[Len(wire) + 1] = f
      /\ \A i \in 1..Len(wire') : i \in 1..Len(wire) \/ i = Len(wire) + 1
  BY <1>1, <1>4, AppendLemma DEF Typed
<1>8. Open
  BY DEF AgentSends
<1>9. Typed'
  BY <1>5, <1>6, <1>7 DEF Typed
<1>10. InStep' /\ Counted' /\ HistoryStaysOut' /\ Returned'
  BY <1>5, <1>6 DEF InStep, Counted, Started, HistoryStaysOut, Returned
<1>11. Numbered'
  BY <1>6 DEF Numbered, Numbers, Started
<1>12. WireInOrder'
  <2> SUFFICES ASSUME NEW i \in 1..Len(wire')
               PROVE  /\ wire'[i].type = "opened" =>
                           /\ agent'.epoch # "history"
                           /\ \A j \in (i + 1)..Len(wire') : ~OfHistory(wire'[j])
                      /\ wire'[i].type = "answer" =>
                           /\ agent'.epoch = "late"
                           /\ \A j \in (i + 1)..Len(wire') : ~OfTurn(wire'[j])
                      /\ OfHistory(wire'[i]) => driver'.phase = "opening"
                      /\ OfTurn(wire'[i]) =>
                           /\ agent'.epoch \in {"turn", "late"}
                           /\ driver'.phase \notin {"answered", "barrier", "returned"}
    BY DEF WireInOrder, OfHistory, OfTurn
  <2>1. CASE i = Len(wire) + 1
    <3>1. wire'[i] = f /\ f.type \in {"update", "junk", "request"}
      BY <1>4, <1>7, <2>1
    <3>2. OfHistory(f) => driver.phase = "opening"
      BY <1>4 DEF OfHistory, InStep
    <3>3. OfTurn(f) => agent.epoch = "turn" /\ driver.phase \notin {"answered", "barrier", "returned"}
      BY <1>4 DEF OfTurn, InStep
    <3>4. QED
      BY <1>5, <1>6, <3>1, <3>2, <3>3
  <2>2. CASE i \in 1..Len(wire)
    <3>1. wire'[i] = wire[i] /\ i \in Nat
      BY <1>7, <2>2
    <3>2. ASSUME NEW j \in (i + 1)..Len(wire')
          PROVE  (j \in (i + 1)..Len(wire) /\ wire'[j] = wire[j]) \/ wire'[j] = f
      BY <1>7, <2>2
    <3>3. wire[i].type = "opened" => ~OfHistory(f)
      BY <1>4, <2>2 DEF WireInOrder, OfHistory
    <3>4. wire[i].type = "answer" => ~OfTurn(f)
      BY <1>4, <2>2 DEF WireInOrder, OfTurn
    <3>5. ASSUME NEW j \in (i + 1)..Len(wire'), wire'[i].type = "opened"
          PROVE  ~OfHistory(wire'[j])
      BY <2>2, <3>1, <3>2, <3>3, <3>5 DEF WireInOrder
    <3>6. ASSUME NEW j \in (i + 1)..Len(wire'), wire'[i].type = "answer"
          PROVE  ~OfTurn(wire'[j])
      BY <2>2, <3>1, <3>2, <3>4, <3>6 DEF WireInOrder
    <3>7. QED
      BY <1>5, <1>6, <2>2, <3>1, <3>5, <3>6 DEF WireInOrder
  <2>3. QED
    BY <1>7, <2>1, <2>2
<1>13. TurnInOrder'
  <2>1. agent.sent["turn"] \in Nat /\ agent'.sent["turn"] \in Nat
        /\ agent.sent["turn"] <= agent'.sent["turn"]
        /\ (OfTurn(f) => f.id[2] = agent.sent["turn"] + 1 /\ agent'.sent["turn"] = f.id[2])
    <3>1. "turn" \in Epochs /\ agent.sent \in [Epochs -> Nat]
      BY DEF Typed, Epochs
    <3>2. CASE agent.epoch = "turn"
      BY <1>2, <1>4, <1>5, <3>1, <3>2
    <3>3. CASE agent.epoch # "turn"
      BY <1>4, <1>5, <3>1, <3>3 DEF OfTurn
    <3>4. QED
      BY <3>2, <3>3
  <2>2. ASSUME NEW x \in Epochs \X Nat, x[1] = "turn" => x[2] <= agent.sent["turn"], IsUpdate(f)
        PROVE  Earlier(x, f.id)
    BY <1>4, <2>1, <2>2 DEF Earlier, OfTurn, IsUpdate
  <2>3. /\ \A i \in 1..Len(turn.ingested) : turn.ingested[i] \in Epochs \X Nat
        /\ \A i \in 1..Len(tasks) : tasks[i].id \in Epochs \X Nat
        /\ \A i \in 1..Len(wire) : wire[i].id \in Epochs \X Nat
    BY IdsLemma
  <2>4. \A i \in 1..Len(turn.ingested) :
          /\ turn.ingested[i][1] = "turn" => turn.ingested[i][2] <= agent'.sent["turn"]
          /\ \A j \in 1..Len(turn.ingested) :
               i < j => Earlier(turn.ingested[i], turn.ingested[j])
          /\ \A j \in 1..Len(tasks) :
               IsUpdate(tasks[j]) => Earlier(turn.ingested[i], tasks[j].id)
    BY <2>1, <2>3 DEF TurnInOrder
  <2>5. ASSUME NEW i \in 1..Len(turn.ingested), NEW j \in 1..Len(wire'), IsUpdate(wire'[j])
        PROVE  Earlier(turn.ingested[i], wire'[j].id)
    <3>1. CASE j \in 1..Len(wire)
      BY <1>7, <2>5, <3>1 DEF TurnInOrder
    <3>2. CASE j = Len(wire) + 1
      BY <1>7, <2>2, <2>3, <2>5, <3>2 DEF TurnInOrder
    <3>3. QED
      BY <1>7, <3>1, <3>2
  <2>6. \A i \in 1..Len(tasks) : IsUpdate(tasks[i]) =>
          /\ OfTurn(tasks[i]) => tasks[i].id[2] <= agent'.sent["turn"]
          /\ \A j \in 1..Len(tasks) :
               i < j /\ IsUpdate(tasks[j]) => Earlier(tasks[i].id, tasks[j].id)
    BY <2>1, <2>3, SMTT(30) DEF TurnInOrder, OfTurn
  <2>7. ASSUME NEW i \in 1..Len(tasks), IsUpdate(tasks[i]),
               NEW j \in 1..Len(wire'), IsUpdate(wire'[j])
        PROVE  Earlier(tasks[i].id, wire'[j].id)
    <3>1. CASE j \in 1..Len(wire)
      BY <1>7, <2>7, <3>1 DEF TurnInOrder
    <3>2. CASE j = Len(wire) + 1
      BY <1>7, <2>2, <2>3, <2>7, <3>2 DEF TurnInOrder, OfTurn, IsUpdate
    <3>3. QED
      BY <1>7, <3>1, <3>2
  <2>8. ASSUME NEW i \in 1..Len(wire'), IsUpdate(wire'[i])
        PROVE  OfTurn(wire'[i]) => wire'[i].id[2] <= agent'.sent["turn"]
    <3>1. CASE i \in 1..Len(wire)
      BY <1>7, <2>1, <2>3, <2>8, <3>1 DEF TurnInOrder, OfTurn
    <3>2. CASE i = Len(wire) + 1
      BY <1>7, <2>1, <3>2
    <3>3. QED
      BY <1>7, <3>1, <3>2
  <2>9. ASSUME NEW i \in 1..Len(wire'), IsUpdate(wire'[i]),
               NEW j \in 1..Len(wire'), i < j, IsUpdate(wire'[j])
        PROVE  Earlier(wire'[i].id, wire'[j].id)
    <3>1. i \in 1..Len(wire) /\ wire'[i] = wire[i]
      BY <1>7, <2>9
    <3>2. CASE j \in 1..Len(wire)
      BY <1>7, <2>9, <3>1, <3>2 DEF TurnInOrder
    <3>3. CASE j = Len(wire) + 1
      BY <1>7, <2>2, <2>3, <2>9, <3>1, <3>3 DEF TurnInOrder, OfTurn, IsUpdate
    <3>4. QED
      BY <1>7, <3>2, <3>3
  <2>10. QED
    BY <1>6, <2>4, <2>5, <2>6, <2>7, <2>8, <2>9 DEF TurnInOrder, IsUpdate, OfTurn, Earlier
<1>14. Accounted'
  <2>1. ASSUME NEW id \in agent'.updates
        PROVE  id[1] = "turn" /\
               (~driver.failure => Ingested(id) \/ InQueue(id) \/
                  \E i \in 1..Len(wire') : OfTurn(wire'[i]) /\ wire'[i].own /\ wire'[i].id = id)
    <3>1. CASE id \in agent.updates
      <4>1. ASSUME OnWire(id)
            PROVE  \E i \in 1..Len(wire') : OfTurn(wire'[i]) /\ wire'[i].own /\ wire'[i].id = id
        BY <1>7, <4>1 DEF OnWire
      <4>2. QED
        BY <3>1, <4>1 DEF Accounted
    <3>2. CASE OfTurn(f) /\ f.own /\ id = f.id
      BY <1>7, <3>2 DEF OfTurn
    <3>3. QED
      BY <1>5, <2>1, <3>1, <3>2
  <2>2. agent.updates \subseteq agent'.updates
    BY <1>5
  <2>3. ASSUME NEW i \in 1..Len(wire'), OfTurn(wire'[i]), wire'[i].own
        PROVE  wire'[i].id \in agent'.updates
    <3>1. CASE i \in 1..Len(wire)
      BY <1>7, <2>2, <2>3, <3>1 DEF Accounted
    <3>2. CASE i = Len(wire) + 1
      BY <1>5, <1>7, <2>3, <3>2
    <3>3. QED
      BY <1>7, <3>1, <3>2
  <2>4. /\ \A i \in 1..Len(turn.ingested) :
             turn.ingested[i][1] = "turn" => turn.ingested[i] \in agent'.updates
        /\ \A i \in 1..Len(tasks) :
             OfTurn(tasks[i]) /\ tasks[i].own => tasks[i].id \in agent'.updates
    BY <2>2 DEF Accounted
  <2>5. QED
    BY <1>6, <2>1, <2>3, <2>4 DEF Accounted, Ingested, InQueue, OnWire, OfTurn
<1>15. QED
  BY <1>9, <1>10, <1>11, <1>12, <1>13, <1>14

\* An answer of the agent at the end of the wire is no update: it leaves the
\* order of the updates and their account as they were.
LEMMA QuietLemma ==
  ASSUME Typed, TurnInOrder, Accounted, NEW f \in FrameType, f.type # "update",
         wire' = Append(wire, f), agent'.sent = agent.sent, agent'.updates = agent.updates,
         UNCHANGED <<tasks, driver, turn>>
  PROVE  TurnInOrder' /\ Accounted'
<1>1. /\ wire' \in Seq(FrameType) /\ Len(wire') = Len(wire) + 1 /\ Len(wire) \in Nat
      /\ \A i \in 1..Len(wire) : wire'[i] = wire[i]
      /\ wire'[Len(wire) + 1] = f
      /\ \A i \in 1..Len(wire') : i \in 1..Len(wire) \/ i = Len(wire) + 1
  BY AppendLemma DEF Typed
<1>2. \A i \in 1..Len(wire') :
        IsUpdate(wire'[i]) \/ OfTurn(wire'[i]) => i \in 1..Len(wire) /\ wire'[i] = wire[i]
  BY <1>1 DEF IsUpdate, OfTurn
<1>3. TurnInOrder'
  <2>1. \A i \in 1..Len(turn.ingested), j \in 1..Len(wire') :
          IsUpdate(wire'[j]) => Earlier(turn.ingested[i], wire'[j].id)
    BY <1>2 DEF TurnInOrder
  <2>2. \A i \in 1..Len(tasks), j \in 1..Len(wire') :
          IsUpdate(tasks[i]) /\ IsUpdate(wire'[j]) => Earlier(tasks[i].id, wire'[j].id)
    BY <1>2 DEF TurnInOrder
  <2>3. \A i \in 1..Len(wire') : IsUpdate(wire'[i]) =>
          /\ OfTurn(wire'[i]) => wire'[i].id[2] <= agent.sent["turn"]
          /\ \A j \in 1..Len(wire') :
               i < j /\ IsUpdate(wire'[j]) => Earlier(wire'[i].id, wire'[j].id)
    BY <1>2 DEF TurnInOrder
  <2>4. /\ \A i \in 1..Len(turn.ingested) :
             /\ turn.ingested[i][1] = "turn" => turn.ingested[i][2] <= agent.sent["turn"]
             /\ \A j \in 1..Len(turn.ingested) :
                  i < j => Earlier(turn.ingested[i], turn.ingested[j])
             /\ \A j \in 1..Len(tasks) :
                  IsUpdate(tasks[j]) => Earlier(turn.ingested[i], tasks[j].id)
        /\ \A i \in 1..Len(tasks) : IsUpdate(tasks[i]) =>
             /\ OfTurn(tasks[i]) => tasks[i].id[2] <= agent.sent["turn"]
             /\ \A j \in 1..Len(tasks) :
                  i < j /\ IsUpdate(tasks[j]) => Earlier(tasks[i].id, tasks[j].id)
    BY DEF TurnInOrder
  <2>5. QED
    BY <2>1, <2>2, <2>3, <2>4 DEF TurnInOrder, IsUpdate, OfTurn, Earlier
<1>4. Accounted'
  <2>1. \A id : OnWire(id) =>
          \E i \in 1..Len(wire') : OfTurn(wire'[i]) /\ wire'[i].own /\ wire'[i].id = id
    BY <1>1 DEF OnWire
  <2>2. \A i \in 1..Len(wire') : OfTurn(wire'[i]) /\ wire'[i].own => wire'[i].id \in agent.updates
    BY <1>2 DEF Accounted
  <2>3. QED
    BY <2>1, <2>2 DEF Accounted, Ingested, InQueue, OnWire, OfTurn
<1>5. QED
  BY <1>3, <1>4

\* The agent answers session/load: its history is behind it on the wire.
LEMMA OpensLemma ==
  ASSUME ConversationInvariant, AgentOpens
  PROVE  ConversationInvariant'
<1> USE DEF ConversationInvariant
<1>1. PICK n \in Nat : n = agent.sent[agent.epoch] + 1
  BY DEF Typed
<1>2. PICK f : f = [type |-> "opened", own |-> TRUE, id |-> <<agent.epoch, n>>]
  OBVIOUS
<1>3. f \in FrameType /\ f.type = "opened" /\ wire' = Append(wire, f)
  BY <1>1, <1>2 DEF AgentOpens, Frame, FrameType, Typed
<1>4. /\ agent.epoch = "history" /\ agent'.epoch = "idle" /\ agent'.prompt = agent.prompt
      /\ agent'.sent = agent.sent /\ agent'.updates = agent.updates
      /\ agent' \in [epoch : Epochs, sent : [Epochs -> Nat], prompt : BOOLEAN,
                     updates : SUBSET (Epochs \X Nat)]
  BY DEF AgentOpens, Typed, Epochs
<1>5. UNCHANGED <<tasks, waiting, count, driver, turn>>
  BY DEF AgentOpens
<1>6. /\ wire' \in Seq(FrameType) /\ Len(wire') = Len(wire) + 1 /\ Len(wire) \in Nat
      /\ \A i \in 1..Len(wire) : wire'[i] = wire[i]
      /\ wire'[Len(wire) + 1] = f
      /\ \A i \in 1..Len(wire') : i \in 1..Len(wire) \/ i = Len(wire) + 1
  BY <1>3, AppendLemma DEF Typed
<1>7. Typed'
  BY <1>4, <1>5, <1>6 DEF Typed
<1>8. TurnInOrder' /\ Accounted'
  BY <1>3, <1>4, <1>5, QuietLemma
<1>9. InStep' /\ Counted' /\ HistoryStaysOut' /\ Returned'
  BY <1>4, <1>5 DEF InStep, Counted, Started, HistoryStaysOut, Returned
<1>10. Numbered'
  BY <1>5 DEF Numbered, Numbers, Started
<1>11. WireInOrder'
  <2>1. driver.phase = "opening"
    BY <1>4 DEF InStep
  <2>2. \A i \in 1..Len(wire) : wire[i].type # "opened" /\ wire[i].type # "answer" /\ ~OfTurn(wire[i])
    BY <1>4 DEF WireInOrder
  <2>3. ASSUME NEW i \in 1..Len(wire')
        PROVE  /\ wire'[i].type # "answer" /\ ~OfTurn(wire'[i])
               /\ wire'[i].type = "opened" => i = Len(wire')
    BY <1>3, <1>6, <2>2 DEF OfTurn
  <2>4. QED
    BY <1>4, <1>5, <1>6, <2>1, <2>3 DEF WireInOrder, OfTurn, OfHistory
<1>12. QED
  BY <1>7, <1>8, <1>9, <1>10, <1>11

\* The agent takes the prompt up: nothing of its turn is on the wire yet.
LEMMA TakesPromptLemma ==
  ASSUME ConversationInvariant, AgentTakesPrompt
  PROVE  ConversationInvariant'
<1> USE DEF ConversationInvariant
<1>1. /\ agent.epoch = "idle" /\ agent'.epoch = "turn" /\ agent'.prompt = FALSE
      /\ agent'.sent = agent.sent /\ agent'.updates = agent.updates
      /\ agent' \in [epoch : Epochs, sent : [Epochs -> Nat], prompt : BOOLEAN,
                     updates : SUBSET (Epochs \X Nat)]
      /\ driver.boundary # None
  BY DEF AgentTakesPrompt, Typed, Epochs, InStep
<1>2. UNCHANGED <<wire, tasks, waiting, count, driver, turn>>
  BY DEF AgentTakesPrompt
<1>3. Typed' /\ InStep' /\ Counted' /\ HistoryStaysOut' /\ Returned'
  BY <1>1, <1>2 DEF Typed, InStep, Counted, Started, HistoryStaysOut, Returned
<1>4. Numbered'
  BY <1>2 DEF Numbered, Numbers, Started
<1>5. TurnInOrder'
  BY <1>1, <1>2 DEF TurnInOrder, IsUpdate, OfTurn, Earlier
<1>6. Accounted'
  BY <1>1, <1>2 DEF Accounted, Ingested, InQueue, OnWire, OfTurn
<1>7. WireInOrder'
  <2>1. \A i \in 1..Len(wire) : wire[i].type # "answer" /\ ~OfTurn(wire[i]) /\ ~OfHistory(wire[i])
    BY <1>1 DEF WireInOrder, InStep
  <2>2. QED
    BY <1>1, <1>2, <2>1 DEF WireInOrder, OfTurn, OfHistory
<1>8. QED
  BY <1>3, <1>4, <1>5, <1>6, <1>7

\* The agent answers the prompt: its turn is behind it on the wire.
LEMMA AnswersLemma ==
  ASSUME ConversationInvariant, AgentAnswers
  PROVE  ConversationInvariant'
<1> USE DEF ConversationInvariant
<1>1. PICK n \in Nat : n = agent.sent[agent.epoch] + 1
  BY DEF Typed
<1>2. PICK f : f = [type |-> "answer", own |-> TRUE, id |-> <<agent.epoch, n>>]
  OBVIOUS
<1>3. f \in FrameType /\ f.type = "answer" /\ wire' = Append(wire, f)
  BY <1>1, <1>2 DEF AgentAnswers, Frame, FrameType, Typed
<1>4. /\ agent.epoch = "turn" /\ agent'.epoch = "late" /\ agent'.prompt = agent.prompt
      /\ agent'.sent = agent.sent /\ agent'.updates = agent.updates
      /\ agent' \in [epoch : Epochs, sent : [Epochs -> Nat], prompt : BOOLEAN,
                     updates : SUBSET (Epochs \X Nat)]
  BY DEF AgentAnswers, Typed, Epochs
<1>5. UNCHANGED <<tasks, waiting, count, driver, turn>>
  BY DEF AgentAnswers
<1>6. /\ wire' \in Seq(FrameType) /\ Len(wire') = Len(wire) + 1 /\ Len(wire) \in Nat
      /\ \A i \in 1..Len(wire) : wire'[i] = wire[i]
      /\ wire'[Len(wire) + 1] = f
      /\ \A i \in 1..Len(wire') : i \in 1..Len(wire) \/ i = Len(wire) + 1
  BY <1>3, AppendLemma DEF Typed
<1>7. Typed'
  BY <1>4, <1>5, <1>6 DEF Typed
<1>8. TurnInOrder' /\ Accounted'
  BY <1>3, <1>4, <1>5, QuietLemma
<1>9. InStep' /\ Counted' /\ HistoryStaysOut' /\ Returned'
  BY <1>4, <1>5 DEF InStep, Counted, Started, HistoryStaysOut, Returned
<1>10. Numbered'
  BY <1>5 DEF Numbered, Numbers, Started
<1>11. WireInOrder'
  <2>1. \A i \in 1..Len(wire) :
          wire[i].type # "answer" /\ ~OfHistory(wire[i]) /\
          (OfTurn(wire[i]) => driver.phase \notin {"answered", "barrier", "returned"})
    BY <1>4 DEF WireInOrder, InStep
  <2>2. ASSUME NEW i \in 1..Len(wire')
        PROVE  /\ ~OfHistory(wire'[i])
               /\ OfTurn(wire'[i]) => driver.phase \notin {"answered", "barrier", "returned"}
               /\ wire'[i].type = "answer" => i = Len(wire')
    BY <1>3, <1>6, <2>1 DEF OfTurn, OfHistory
  <2>3. \A i \in 1..Len(wire') : i \in Nat /\ \A j \in (i + 1)..Len(wire') : j \in 1..Len(wire')
    BY <1>6
  <2>4. QED
    BY <1>4, <1>5, <1>6, <2>2, <2>3 DEF WireInOrder, OfTurn, OfHistory
<1>12. QED
  BY <1>7, <1>8, <1>9, <1>10, <1>11

-----------------------------------------------------------------------------
(* The receive loop *)

\* What leaves the wire without a task leaves the order of the others alone; what
\* gets a task goes behind the tasks there are.
LEMMA MovedLemma ==
  ASSUME Typed, TurnInOrder, Accounted, wire # <<>>, wire' = Tail(wire),
         tasks' = IF Head(wire).type \in {"update", "request"}
                  THEN Append(tasks, Head(wire)) ELSE tasks,
         driver'.failure = driver.failure,
         UNCHANGED <<agent, turn>>
  PROVE  TurnInOrder' /\ Accounted'
<1>1. PICK f : f = Head(wire)
  OBVIOUS
<1>2. /\ wire' \in Seq(FrameType) /\ Len(wire') = Len(wire) - 1 /\ Len(wire) \in Nat \ {0}
      /\ \A i \in 1..Len(wire') : wire'[i] = wire[i + 1] /\ i + 1 \in 1..Len(wire)
      /\ f = wire[1] /\ f \in FrameType /\ 1 \in 1..Len(wire)
      /\ \A i \in 1..Len(wire) : i = 1 \/ (i - 1 \in 1..Len(wire') /\ wire'[i - 1] = wire[i])
  BY <1>1, TailLemma DEF Typed
<1>3. /\ Len(tasks) \in Nat
      /\ \A i \in 1..Len(tasks) : tasks'[i] = tasks[i] /\ i \in 1..Len(tasks')
      /\ \A i \in 1..Len(tasks') :
           i \in 1..Len(tasks) \/ (i = Len(tasks) + 1 /\ tasks'[i] = f)
      /\ IsUpdate(f) => Len(tasks) + 1 \in 1..Len(tasks') /\ tasks'[Len(tasks) + 1] = f
  <2>1. CASE f.type \in {"update", "request"}
    BY <1>1, <1>2, <2>1, AppendLemma DEF Typed
  <2>2. CASE f.type \notin {"update", "request"}
    BY <1>1, <2>2 DEF Typed, IsUpdate
  <2>3. QED
    BY <2>1, <2>2
<1>4. TurnInOrder'
  <2>1. ASSUME NEW i \in 1..Len(turn.ingested)
        PROVE  /\ turn.ingested[i][1] = "turn" => turn.ingested[i][2] <= agent.sent["turn"]
               /\ \A j \in 1..Len(turn.ingested) :
                    i < j => Earlier(turn.ingested[i], turn.ingested[j])
               /\ \A j \in 1..Len(tasks') :
                    IsUpdate(tasks'[j]) => Earlier(turn.ingested[i], tasks'[j].id)
               /\ \A j \in 1..Len(wire') :
                    IsUpdate(wire'[j]) => Earlier(turn.ingested[i], wire'[j].id)
    BY <1>2, <1>3 DEF TurnInOrder
  <2>2. ASSUME NEW i \in 1..Len(tasks'), IsUpdate(tasks'[i])
        PROVE  OfTurn(tasks'[i]) => tasks'[i].id[2] <= agent.sent["turn"]
    BY <1>2, <1>3, <2>2 DEF TurnInOrder
  <2>3. ASSUME NEW i \in 1..Len(tasks'), IsUpdate(tasks'[i]),
               NEW j \in 1..Len(tasks'), i < j, IsUpdate(tasks'[j])
        PROVE  Earlier(tasks'[i].id, tasks'[j].id)
    <3>1. i \in 1..Len(tasks) /\ tasks'[i] = tasks[i]
      BY <1>3, <2>3
    <3>2. CASE j \in 1..Len(tasks)
      BY <1>3, <2>3, <3>1, <3>2 DEF TurnInOrder
    <3>3. CASE j \notin 1..Len(tasks)
      BY <1>2, <1>3, <2>3, <3>1, <3>3 DEF TurnInOrder
    <3>4. QED
      BY <3>2, <3>3
  <2>4. ASSUME NEW i \in 1..Len(tasks'), IsUpdate(tasks'[i]),
               NEW j \in 1..Len(wire'), IsUpdate(wire'[j])
        PROVE  Earlier(tasks'[i].id, wire'[j].id)
    <3>1. wire'[j] = wire[j + 1] /\ j + 1 \in 1..Len(wire) /\ 1 < j + 1
      BY <1>2
    <3>2. CASE i \in 1..Len(tasks)
      BY <1>3, <2>4, <3>1, <3>2 DEF TurnInOrder
    <3>3. CASE i \notin 1..Len(tasks)
      BY <1>2, <1>3, <2>4, <3>1, <3>3 DEF TurnInOrder
    <3>4. QED
      BY <3>2, <3>3
  <2>5. ASSUME NEW i \in 1..Len(wire'), IsUpdate(wire'[i])
        PROVE  /\ OfTurn(wire'[i]) => wire'[i].id[2] <= agent.sent["turn"]
               /\ \A j \in 1..Len(wire') :
                    i < j /\ IsUpdate(wire'[j]) => Earlier(wire'[i].id, wire'[j].id)
    <3>1. wire'[i] = wire[i + 1] /\ i + 1 \in 1..Len(wire)
          /\ \A j \in 1..Len(wire') :
               i < j => wire'[j] = wire[j + 1] /\ j + 1 \in 1..Len(wire) /\ i + 1 < j + 1
      BY <1>2
    <3>2. QED
      BY <2>5, <3>1 DEF TurnInOrder
  <2>6. QED
    BY <2>1, <2>2, <2>3, <2>4, <2>5, SMTT(30) DEF TurnInOrder, IsUpdate, OfTurn, Earlier
<1>5. Accounted'
  <2>1. ASSUME NEW id, InQueue(id)
        PROVE  \E i \in 1..Len(tasks') : OfTurn(tasks'[i]) /\ tasks'[i].own /\ tasks'[i].id = id
    BY <1>3, <2>1 DEF InQueue
  <2>2. ASSUME NEW id, OnWire(id)
        PROVE  \/ \E i \in 1..Len(tasks') : OfTurn(tasks'[i]) /\ tasks'[i].own /\ tasks'[i].id = id
               \/ \E i \in 1..Len(wire') : OfTurn(wire'[i]) /\ wire'[i].own /\ wire'[i].id = id
    <3>1. PICK i \in 1..Len(wire) : OfTurn(wire[i]) /\ wire[i].own /\ wire[i].id = id
      BY <2>2 DEF OnWire
    <3>2. CASE i = 1
      <4>1. OfTurn(f) /\ f.own /\ f.id = id /\ IsUpdate(f)
        BY <1>2, <3>1, <3>2 DEF OfTurn, IsUpdate
      <4>2. QED
        BY <1>3, <4>1
    <3>3. CASE i # 1
      BY <1>2, <3>1, <3>3
    <3>4. QED
      BY <3>2, <3>3
  <2>3. \A i \in 1..Len(tasks') : OfTurn(tasks'[i]) /\ tasks'[i].own => tasks'[i].id \in agent.updates
    BY <1>2, <1>3 DEF Accounted
  <2>4. \A i \in 1..Len(wire') : OfTurn(wire'[i]) /\ wire'[i].own => wire'[i].id \in agent.updates
    BY <1>2 DEF Accounted
  <2>5. ASSUME NEW id \in agent.updates, ~driver.failure
        PROVE  (Ingested(id) \/ InQueue(id) \/ OnWire(id))'
    <3>1. CASE Ingested(id)
      BY <3>1 DEF Ingested
    <3>2. CASE InQueue(id)
      BY <2>1, <3>2 DEF InQueue, OfTurn
    <3>3. CASE OnWire(id)
      <4>1. CASE \E i \in 1..Len(tasks') : OfTurn(tasks'[i]) /\ tasks'[i].own /\ tasks'[i].id = id
        BY <4>1 DEF InQueue, OfTurn
      <4>2. CASE \E i \in 1..Len(wire') : OfTurn(wire'[i]) /\ wire'[i].own /\ wire'[i].id = id
        BY <4>2 DEF OnWire, OfTurn
      <4>3. QED
        BY <2>2, <3>3, <4>1, <4>2
    <3>4. QED
      BY <2>5, <3>1, <3>2, <3>3 DEF Accounted
  <2>6. agent' = agent /\ turn' = turn
    OBVIOUS
  <2>7. \A id \in agent.updates : id[1] = "turn"
    BY DEF Accounted
  <2>8. \A i \in 1..Len(turn.ingested) :
          turn.ingested[i][1] = "turn" => turn.ingested[i] \in agent.updates
    BY DEF Accounted
  <2>9. QED
    BY <2>3, <2>4, <2>5, <2>6, <2>7, <2>8 DEF Accounted, OfTurn
<1>6. QED
  BY <1>4, <1>5

\* The receive loop takes a frame off the wire: an update gets the next number.
LEMMA ReceiveLemma ==
  ASSUME ConversationInvariant, Receive
  PROVE  ConversationInvariant'
<1> USE DEF ConversationInvariant
<1>1. PICK f : f = Head(wire)
  OBVIOUS
<1>2. /\ wire # <<>> /\ wire' = Tail(wire) /\ Open /\ UNCHANGED <<agent, waiting, turn>>
      /\ count' = IF f.type = "update" THEN [count EXCEPT !.observed = @ + 1] ELSE count
      /\ tasks' = IF f.type \in {"update", "request"} THEN Append(tasks, f) ELSE tasks
      /\ driver' = IF f.type = "opened" /\ driver.phase = "opening"
                   THEN [driver EXCEPT !.phase = "ready"]
                   ELSE IF f.type = "answer" /\ driver.phase = "written"
                   THEN [driver EXCEPT !.phase = "answered"]
                   ELSE driver
  BY <1>1 DEF Receive, Dispatches
<1>3. /\ wire' \in Seq(FrameType) /\ Len(wire') = Len(wire) - 1 /\ Len(wire) \in Nat \ {0}
      /\ \A i \in 1..Len(wire') : wire'[i] = wire[i + 1] /\ i + 1 \in 1..Len(wire)
      /\ f = wire[1] /\ f \in FrameType /\ 1 \in 1..Len(wire)
  BY <1>1, <1>2, TailLemma DEF Typed
<1>4. /\ driver' \in [phase : DriverPhases, boundary : Nat \cup {None}, target : Nat \cup {None},
                      foreign : BOOLEAN, failure : BOOLEAN]
      /\ driver'.boundary = driver.boundary /\ driver'.target = driver.target
      /\ driver'.foreign = driver.foreign /\ driver'.failure = driver.failure
      /\ \/ driver'.phase = driver.phase
         \/ f.type = "opened" /\ driver.phase = "opening" /\ driver'.phase = "ready"
         \/ f.type = "answer" /\ driver.phase = "written" /\ driver'.phase = "answered"
  BY <1>2 DEF Typed, DriverPhases
<1>5. /\ count' \in [observed : Nat, delivered : Nat, completed : Nat]
      /\ count'.delivered = count.delivered /\ count'.completed = count.completed
      /\ IF IsUpdate(f) THEN count'.observed = count.observed + 1
                        ELSE count'.observed = count.observed
  <2>1. count \in [observed : Nat, delivered : Nat, completed : Nat]
    BY DEF Typed
  <2>2. CASE f.type = "update"
    BY <1>2, <2>1, <2>2 DEF IsUpdate
  <2>3. CASE f.type # "update"
    BY <1>2, <2>1, <2>3 DEF IsUpdate
  <2>4. QED
    BY <2>2, <2>3
<1>6. tasks' \in Seq(FrameType)
  BY <1>2, <1>3, AppendLemma DEF Typed
<1>7. Typed'
  BY <1>2, <1>3, <1>4, <1>5, <1>6 DEF Typed
<1>8. TurnInOrder' /\ Accounted'
  BY <1>1, <1>2, <1>4, MovedLemma
<1>9. HistoryStaysOut' /\ Returned'
  BY <1>2, <1>4, <1>5 DEF HistoryStaysOut, Returned, Open
<1>10. Counted'
  <2>1. waiting \in Nat /\ waiting' = waiting /\ driver.boundary \in Nat \cup {None}
        /\ driver.target \in Nat \cup {None} /\ count.observed \in Nat /\ count.delivered \in Nat
        /\ count.completed \in Nat
    BY <1>2 DEF Typed
  <2>2. QED
    BY <1>4, <1>5, <2>1 DEF Counted, Started, None
<1>11. InStep'
  <2>1. f.type = "opened" => agent.epoch # "history"
    BY <1>3 DEF WireInOrder
  <2>2. f.type = "answer" => agent.epoch = "late"
    BY <1>3 DEF WireInOrder
  <2>3. QED
    BY <1>2, <1>4, <2>1, <2>2 DEF InStep
<1>12. WireInOrder'
  <2> SUFFICES ASSUME NEW i \in 1..Len(wire')
               PROVE  /\ wire'[i].type = "opened" =>
                           /\ agent'.epoch # "history"
                           /\ \A j \in (i + 1)..Len(wire') : ~OfHistory(wire'[j])
                      /\ wire'[i].type = "answer" =>
                           /\ agent'.epoch = "late"
                           /\ \A j \in (i + 1)..Len(wire') : ~OfTurn(wire'[j])
                      /\ OfHistory(wire'[i]) => driver'.phase = "opening"
                      /\ OfTurn(wire'[i]) =>
                           /\ agent'.epoch \in {"turn", "late"}
                           /\ driver'.phase \notin {"answered", "barrier", "returned"}
    BY DEF WireInOrder, OfHistory, OfTurn
  <2>1. wire'[i] = wire[i + 1] /\ i + 1 \in 1..Len(wire) /\ i + 1 \in 2..Len(wire)
    BY <1>3
  <2>2. \A j \in (i + 1)..Len(wire') : wire'[j] = wire[j + 1] /\ j + 1 \in ((i + 1) + 1)..Len(wire)
    BY <1>3
  <2>3. f.type = "opened" => ~OfHistory(wire[i + 1])
    BY <1>3, <2>1 DEF WireInOrder
  <2>4. f.type = "answer" => ~OfTurn(wire[i + 1])
    BY <1>3, <2>1 DEF WireInOrder
  <2>5. OfHistory(wire'[i]) => driver'.phase = "opening"
    BY <1>4, <2>1, <2>3 DEF WireInOrder
  <2>6. OfTurn(wire'[i]) => driver'.phase \notin {"answered", "barrier", "returned"}
    BY <1>4, <2>1, <2>4 DEF WireInOrder
  <2>7. QED
    BY <1>2, <2>1, <2>2, <2>5, <2>6 DEF WireInOrder
<1>13. Numbered'
  <2>1. PICK num \in [1..Len(tasks) -> Nat] : Numbers(num)
    BY DEF Numbered
  <2>2. Len(tasks) \in Nat /\ Len(tasks') \in Nat /\ count.observed \in Nat
    BY <1>6 DEF Typed
  <2>3. PICK m : m = [i \in 1..Len(tasks') |-> IF i \in 1..Len(tasks) THEN num[i]
                                               ELSE count.observed + 1]
    OBVIOUS
  <2>4. /\ m \in [1..Len(tasks') -> Nat]
        /\ \A i \in 1..Len(tasks') : i \in 1..Len(tasks) => m[i] = num[i]
        /\ \A i \in 1..Len(tasks') : i \notin 1..Len(tasks) => m[i] = count.observed + 1
    BY <2>1, <2>2, <2>3
  <2>5. /\ \A i \in 1..Len(tasks) : tasks'[i] = tasks[i] /\ i \in 1..Len(tasks')
        /\ \A i \in 1..Len(tasks') :
             i \in 1..Len(tasks) \/ (i = Len(tasks) + 1 /\ tasks'[i] = f)
        /\ IsUpdate(f) => Len(tasks) + 1 \in 1..Len(tasks') /\ tasks'[Len(tasks) + 1] = f
    <3>1. CASE f.type \in {"update", "request"}
      BY <1>2, <1>3, <3>1, AppendLemma DEF Typed
    <3>2. CASE f.type \notin {"update", "request"}
      BY <1>2, <2>2, <3>2 DEF Typed, IsUpdate
    <3>3. QED
      BY <3>1, <3>2
  <2>6. PICK s \in Nat : s = Started
    BY DEF Typed, Started
  <2>7. Started' = s /\ s <= count.observed
    BY <1>2, <1>5, <2>6 DEF Started, Counted
  <2>8. PICK b \in Nat \cup {None} : b = driver.boundary
    BY DEF Typed
  <2>9. b <= count.observed
    BY <2>8 DEF Counted
  <2>10. OfHistory(f) => b = None
    BY <1>3, <2>8 DEF WireInOrder, InStep
  <2>11. OfTurn(f) => b # None /\ driver.phase \notin {"answered", "barrier", "returned"}
    BY <1>3, <2>8 DEF WireInOrder, InStep
  <2>12. ASSUME NEW i \in 1..Len(tasks'), NEW j \in 1..Len(tasks'), i < j,
                IsUpdate(tasks'[i]), IsUpdate(tasks'[j])
         PROVE  m[i] < m[j]
    <3>1. i \in 1..Len(tasks)
      BY <2>2, <2>5, <2>12
    <3>2. num[i] <= count.observed /\ num[i] \in Nat /\ IsUpdate(tasks[i])
      BY <2>1, <2>5, <2>12, <3>1 DEF Numbers
    <3>3. CASE j \in 1..Len(tasks)
      BY <2>1, <2>4, <2>5, <2>12, <3>1, <3>3 DEF Numbers
    <3>4. CASE j \notin 1..Len(tasks)
      BY <2>2, <2>4, <3>1, <3>2, <3>4
    <3>5. QED
      BY <3>3, <3>4
  <2>13. ASSUME NEW i \in 1..Len(tasks')
         PROVE  /\ IsUpdate(tasks'[i]) => s < m[i] /\ m[i] <= count'.observed
                /\ OfHistory(tasks'[i]) /\ b # None => m[i] <= b
                /\ OfTurn(tasks'[i]) => b # None /\ b < m[i]
                /\ OfTurn(tasks'[i]) /\ driver'.phase \in {"barrier", "returned"} =>
                     m[i] <= driver'.target
    <3>1. CASE i \in 1..Len(tasks)
      <4>1. tasks'[i] = tasks[i] /\ m[i] = num[i] /\ num[i] \in Nat
        BY <2>1, <2>4, <2>5, <3>1
      <4>2. IsUpdate(tasks[i]) => s < num[i] /\ num[i] <= count.observed
        BY <2>1, <2>6, <3>1 DEF Numbers
      <4>3. /\ OfHistory(tasks[i]) /\ b # None => num[i] <= b
            /\ OfTurn(tasks[i]) => b # None /\ b < num[i]
            /\ OfTurn(tasks[i]) /\ driver.phase \in {"barrier", "returned"} =>
                 num[i] <= driver.target
        BY <2>1, <2>8, <3>1 DEF Numbers
      <4>4. count.observed <= count'.observed /\ count'.observed \in Nat
        BY <1>5, <2>2
      <4>5. QED
        BY <1>4, <2>2, <4>1, <4>2, <4>3, <4>4
    <3>2. CASE i \notin 1..Len(tasks)
      <4>1. tasks'[i] = f /\ m[i] = count.observed + 1
        BY <2>4, <2>5, <3>2
      <4>2. IsUpdate(f) => s < m[i] /\ m[i] <= count'.observed
        BY <1>5, <2>2, <2>7, <4>1
      <4>3. OfTurn(f) => b \in Nat /\ b < m[i] /\ driver'.phase \notin {"barrier", "returned"}
        BY <1>4, <2>2, <2>8, <2>9, <2>11, <4>1
      <4>4. QED
        BY <2>10, <2>11, <4>1, <4>2, <4>3
    <3>3. QED
      BY <3>1, <3>2
  <2>14. ASSUME NEW n \in (s + 1)..count'.observed
         PROVE  \E i \in 1..Len(tasks') : IsUpdate(tasks'[i]) /\ m[i] = n
    <3>1. CASE n \in (s + 1)..count.observed
      <4>1. PICK i \in 1..Len(tasks) : IsUpdate(tasks[i]) /\ num[i] = n
        BY <2>1, <2>6, <3>1 DEF Numbers
      <4>2. QED
        BY <2>4, <2>5, <4>1
    <3>2. CASE n \notin (s + 1)..count.observed
      <4>1. IsUpdate(f) /\ n = count.observed + 1
        BY <1>5, <2>2, <3>2
      <4>2. QED
        BY <2>2, <2>4, <2>5, <4>1
    <3>3. QED
      BY <3>1, <3>2
  <2>15. Numbers(m)'
    BY <1>4, <2>7, <2>8, <2>12, <2>13, <2>14 DEF Numbers, IsUpdate, OfTurn, OfHistory
  <2>16. QED
    BY <2>4, <2>15 DEF Numbered
<1>14. QED
  BY <1>7, <1>8, <1>9, <1>10, <1>11, <1>12, <1>13

-----------------------------------------------------------------------------
(* The callbacks *)

\* The next callback to run is of the update after the Started ones: its number,
\* held against the boundary, tells history from turn.
LEMMA NextNumberLemma ==
  ASSUME Typed, Counted, Numbered, tasks # <<>>, tasks' = Tail(tasks),
         driver'.boundary = driver.boundary, driver'.target = driver.target,
         driver'.phase = driver.phase, count'.observed = count.observed,
         Started' = IF IsUpdate(Head(tasks)) THEN Started + 1 ELSE Started
  PROVE  /\ Numbered' /\ Started' <= count.observed
         /\ OfHistory(Head(tasks)) /\ driver.boundary # None => Started + 1 <= driver.boundary
         /\ OfTurn(Head(tasks)) => driver.boundary # None /\ driver.boundary < Started + 1
<1>1. PICK num \in [1..Len(tasks) -> Nat] : Numbers(num)
  BY DEF Numbered
<1>2. PICK f : f = Head(tasks)
  OBVIOUS
<1>3. /\ tasks' \in Seq(FrameType) /\ Len(tasks') = Len(tasks) - 1 /\ Len(tasks) \in Nat \ {0}
      /\ \A i \in 1..Len(tasks') : tasks'[i] = tasks[i + 1] /\ i + 1 \in 1..Len(tasks)
      /\ f = tasks[1] /\ 1 \in 1..Len(tasks)
      /\ \A i \in 1..Len(tasks) : i = 1 \/ (i - 1 \in 1..Len(tasks') /\ tasks'[i - 1] = tasks[i])
  BY <1>2, TailLemma DEF Typed
<1>4. PICK s \in Nat : s = Started
  BY DEF Typed, Started
<1>5. PICK b : b = driver.boundary
  OBVIOUS
<1>6. s <= count.observed /\ count.observed \in Nat /\ b \in Nat \cup {None}
  BY <1>4, <1>5 DEF Counted, Typed
<1>7. IsUpdate(f) => num[1] = s + 1 /\ s + 1 <= count.observed
  <2> HAVE IsUpdate(f)
  <2>1. s < num[1] /\ num[1] <= count.observed /\ num[1] \in Nat
    BY <1>1, <1>3, <1>4 DEF Numbers
  <2>2. s + 1 \in (s + 1)..count.observed
    BY <1>6, <2>1
  <2>3. PICK i \in 1..Len(tasks) : IsUpdate(tasks[i]) /\ num[i] = s + 1
    BY <1>1, <1>4, <2>2 DEF Numbers
  <2>4. i = 1 \/ num[1] < num[i]
    BY <1>1, <1>3, <2>3 DEF Numbers
  <2>5. QED
    BY <2>1, <2>2, <2>3, <2>4
<1>8. /\ OfHistory(f) /\ b # None => s + 1 <= b
      /\ OfTurn(f) => b # None /\ b < s + 1
  <2>1. OfHistory(f) \/ OfTurn(f) => IsUpdate(f)
    BY DEF OfHistory, OfTurn, IsUpdate
  <2>2. OfHistory(f) /\ b # None => num[1] <= b
    BY <1>1, <1>3, <1>5 DEF Numbers
  <2>3. OfTurn(f) => b # None /\ b < num[1]
    BY <1>1, <1>3, <1>5 DEF Numbers
  <2>4. QED
    BY <1>7, <2>1, <2>2, <2>3
<1>9. PICK t \in Nat : t = (IF IsUpdate(f) THEN s + 1 ELSE s)
  OBVIOUS
<1>10. Started' = t /\ t <= count.observed
  BY <1>2, <1>4, <1>6, <1>7, <1>9
<1>11. PICK m : m = [i \in 1..Len(tasks') |-> num[i + 1]]
  OBVIOUS
<1>12. m \in [1..Len(tasks') -> Nat] /\ \A i \in 1..Len(tasks') : m[i] = num[i + 1]
  BY <1>1, <1>3, <1>11
<1>13. ASSUME NEW i \in 1..Len(tasks'), NEW j \in 1..Len(tasks'), i < j,
              IsUpdate(tasks'[i]), IsUpdate(tasks'[j])
       PROVE  m[i] < m[j]
  <2>1. i + 1 \in 1..Len(tasks) /\ j + 1 \in 1..Len(tasks) /\ i + 1 < j + 1
        /\ IsUpdate(tasks[i + 1]) /\ IsUpdate(tasks[j + 1])
    BY <1>3, <1>13
  <2>2. num[i + 1] < num[j + 1]
    BY <1>1, <2>1 DEF Numbers
  <2>3. QED
    BY <1>12, <2>2
<1>14. ASSUME NEW i \in 1..Len(tasks')
       PROVE  /\ IsUpdate(tasks'[i]) => t < m[i] /\ m[i] <= count.observed
              /\ OfHistory(tasks'[i]) /\ b # None => m[i] <= b
              /\ OfTurn(tasks'[i]) => b # None /\ b < m[i]
              /\ OfTurn(tasks'[i]) /\ driver.phase \in {"barrier", "returned"} =>
                   m[i] <= driver.target
  <2>1. i + 1 \in 1..Len(tasks) /\ 1 < i + 1 /\ tasks'[i] = tasks[i + 1] /\ m[i] = num[i + 1]
        /\ num[i + 1] \in Nat
    BY <1>1, <1>3, <1>12
  <2>2. IsUpdate(tasks[i + 1]) => s < num[i + 1] /\ num[i + 1] <= count.observed
    BY <1>1, <1>4, <2>1 DEF Numbers
  <2>3. IsUpdate(f) /\ IsUpdate(tasks[i + 1]) => num[1] < num[i + 1]
    BY <1>1, <1>3, <2>1 DEF Numbers
  <2>4. IsUpdate(tasks[i + 1]) => t < num[i + 1]
    BY <1>7, <1>9, <2>1, <2>2, <2>3
  <2>5. /\ OfHistory(tasks[i + 1]) /\ b # None => num[i + 1] <= b
        /\ OfTurn(tasks[i + 1]) => b # None /\ b < num[i + 1]
        /\ OfTurn(tasks[i + 1]) /\ driver.phase \in {"barrier", "returned"} =>
             num[i + 1] <= driver.target
    BY <1>1, <1>5, <2>1 DEF Numbers
  <2>6. QED
    BY <2>1, <2>2, <2>4, <2>5
<1>15. ASSUME NEW n \in (t + 1)..count.observed
       PROVE  \E i \in 1..Len(tasks') : IsUpdate(tasks'[i]) /\ m[i] = n
  <2>1. n \in (s + 1)..count.observed
    BY <1>6, <1>9
  <2>2. PICK i \in 1..Len(tasks) : IsUpdate(tasks[i]) /\ num[i] = n
    BY <1>1, <1>4, <2>1 DEF Numbers
  <2>3. i # 1
    BY <1>3, <1>7, <1>9, <2>2
  <2>4. i - 1 \in 1..Len(tasks') /\ tasks'[i - 1] = tasks[i] /\ m[i - 1] = num[i]
    BY <1>3, <1>12, <2>3
  <2>5. QED
    BY <2>2, <2>4
<1>16. Numbers(m)'
  BY <1>5, <1>10, <1>13, <1>14, <1>15 DEF Numbers, IsUpdate, OfTurn, OfHistory
<1>17. Numbered'
  BY <1>12, <1>16 DEF Numbered
<1>18. QED
  BY <1>2, <1>4, <1>5, <1>8, <1>10, <1>17

\* The callback that ran goes from the front of the queue to the end of the turn,
\* or to nowhere: the others keep their order.
LEMMA RanInOrderLemma ==
  ASSUME Typed, TurnInOrder, tasks # <<>>, tasks' = Tail(tasks),
         \/ turn'.ingested = turn.ingested
         \/ IsUpdate(Head(tasks)) /\ turn'.ingested = Append(turn.ingested, Head(tasks).id),
         UNCHANGED <<agent, wire>>
  PROVE  TurnInOrder'
<1>1. PICK f : f = Head(tasks)
  OBVIOUS
<1>2. /\ tasks' \in Seq(FrameType) /\ Len(tasks') = Len(tasks) - 1 /\ Len(tasks) \in Nat \ {0}
      /\ \A i \in 1..Len(tasks') : tasks'[i] = tasks[i + 1] /\ i + 1 \in 1..Len(tasks) /\ 1 < i + 1
      /\ f = tasks[1] /\ 1 \in 1..Len(tasks)
  BY <1>1, TailLemma DEF Typed
<1>3. PICK q : q = turn'.ingested
  OBVIOUS
<1>4. /\ Len(turn.ingested) \in Nat
      /\ \A i \in 1..Len(turn.ingested) : q[i] = turn.ingested[i] /\ i \in 1..Len(q)
      /\ \A i \in 1..Len(q) : \/ i \in 1..Len(turn.ingested)
                              \/ i = Len(turn.ingested) + 1 /\ q[i] = f.id /\ IsUpdate(f)
  <2>1. turn.ingested \in Seq(Epochs \X Nat) /\ f.id \in Epochs \X Nat
    BY <1>2, IdsLemma DEF Typed
  <2>2. CASE q = turn.ingested
    BY <2>1, <2>2
  <2>3. CASE IsUpdate(f) /\ q = Append(turn.ingested, f.id)
    BY <2>1, <2>3, AppendLemma, SMTT(30)
  <2>4. QED
    BY <1>1, <1>3, <2>2, <2>3
<1>5. ASSUME NEW i \in 1..Len(q)
      PROVE  /\ q[i][1] = "turn" => q[i][2] <= agent.sent["turn"]
             /\ \A j \in 1..Len(tasks') : IsUpdate(tasks'[j]) => Earlier(q[i], tasks'[j].id)
             /\ \A j \in 1..Len(wire) : IsUpdate(wire[j]) => Earlier(q[i], wire[j].id)
  <2>1. CASE i \in 1..Len(turn.ingested)
    BY <1>2, <1>4, <2>1 DEF TurnInOrder
  <2>2. CASE i \notin 1..Len(turn.ingested)
    BY <1>2, <1>4, <2>2 DEF TurnInOrder, OfTurn, IsUpdate
  <2>3. QED
    BY <2>1, <2>2
<1>6. ASSUME NEW i \in 1..Len(q), NEW j \in 1..Len(q), i < j
      PROVE  Earlier(q[i], q[j])
  <2>1. i \in 1..Len(turn.ingested) /\ q[i] = turn.ingested[i]
    BY <1>4, <1>6
  <2>2. CASE j \in 1..Len(turn.ingested)
    BY <1>4, <1>6, <2>1, <2>2 DEF TurnInOrder
  <2>3. CASE j \notin 1..Len(turn.ingested)
    BY <1>2, <1>4, <2>1, <2>3 DEF TurnInOrder
  <2>4. QED
    BY <2>2, <2>3
<1>7. ASSUME NEW i \in 1..Len(tasks'), IsUpdate(tasks'[i])
      PROVE  /\ OfTurn(tasks'[i]) => tasks'[i].id[2] <= agent.sent["turn"]
             /\ \A j \in 1..Len(wire) : IsUpdate(wire[j]) => Earlier(tasks'[i].id, wire[j].id)
  BY <1>2, <1>7 DEF TurnInOrder
<1>8. ASSUME NEW i \in 1..Len(tasks'), NEW j \in 1..Len(tasks'), i < j,
             IsUpdate(tasks'[i]), IsUpdate(tasks'[j])
      PROVE  Earlier(tasks'[i].id, tasks'[j].id)
  <2>1. i + 1 \in 1..Len(tasks) /\ j + 1 \in 1..Len(tasks) /\ i + 1 < j + 1
    BY <1>2, <1>8
  <2>2. QED
    BY <1>2, <1>8, <2>1 DEF TurnInOrder
<1>9. ASSUME NEW i \in 1..Len(wire), IsUpdate(wire[i])
      PROVE  /\ OfTurn(wire[i]) => wire[i].id[2] <= agent.sent["turn"]
             /\ \A j \in 1..Len(wire) :
                  i < j /\ IsUpdate(wire[j]) => Earlier(wire[i].id, wire[j].id)
  BY <1>9 DEF TurnInOrder
<1>10. QED
  BY <1>3, <1>5, <1>6, <1>7, <1>8, <1>9 DEF TurnInOrder, IsUpdate, OfTurn, Earlier

\* No update of the turn gets lost, as long as every callback's is taken.
LEMMA RanAccountedLemma ==
  ASSUME Typed, Accounted, tasks # <<>>, tasks' = Tail(tasks),
         \/ turn'.ingested = turn.ingested
         \/ /\ OfTurn(Head(tasks)) => Head(tasks).own
            /\ IsUpdate(Head(tasks)) /\ turn'.ingested = Append(turn.ingested, Head(tasks).id),
         ~driver'.failure =>
           /\ ~driver.failure
           /\ OfTurn(Head(tasks)) => turn'.ingested = Append(turn.ingested, Head(tasks).id),
         UNCHANGED <<agent, wire>>
  PROVE  Accounted'
<1>1. PICK f : f = Head(tasks)
  OBVIOUS
<1>2. /\ tasks' \in Seq(FrameType) /\ Len(tasks') = Len(tasks) - 1 /\ Len(tasks) \in Nat \ {0}
      /\ \A i \in 1..Len(tasks') : tasks'[i] = tasks[i + 1] /\ i + 1 \in 1..Len(tasks) /\ 1 < i + 1
      /\ f = tasks[1] /\ 1 \in 1..Len(tasks)
      /\ \A i \in 1..Len(tasks) : i = 1 \/ (i - 1 \in 1..Len(tasks') /\ tasks'[i - 1] = tasks[i])
  BY <1>1, TailLemma DEF Typed
<1>3. PICK q : q = turn'.ingested
  OBVIOUS
<1>4. turn.ingested \in Seq(Epochs \X Nat) /\ f.id \in Epochs \X Nat
  BY <1>2, IdsLemma DEF Typed
<1>5. /\ \A i \in 1..Len(turn.ingested) : q[i] = turn.ingested[i] /\ i \in 1..Len(q)
      /\ \A i \in 1..Len(q) :
           \/ i \in 1..Len(turn.ingested)
           \/ q[i] = f.id /\ IsUpdate(f) /\ (OfTurn(f) => f.own)
      /\ q = Append(turn.ingested, f.id) => \E i \in 1..Len(q) : q[i] = f.id
  <2>1. CASE q = turn.ingested
    BY <1>4, <2>1, AppendLemma
  <2>2. CASE IsUpdate(f) /\ q = Append(turn.ingested, f.id) /\ (OfTurn(f) => f.own)
    <3>1. /\ Len(q) = Len(turn.ingested) + 1 /\ Len(turn.ingested) \in Nat
          /\ \A i \in 1..Len(turn.ingested) : q[i] = turn.ingested[i]
          /\ q[Len(turn.ingested) + 1] = f.id
          /\ \A i \in 1..Len(q) : i \in 1..Len(turn.ingested) \/ i = Len(turn.ingested) + 1
      BY <1>4, <2>2, AppendLemma
    <3>2. Len(q) \in 1..Len(q) /\ q[Len(q)] = f.id
          /\ \A i \in 1..Len(turn.ingested) : i \in 1..Len(q)
      BY <3>1
    <3>3. QED
      BY <2>2, <3>1, <3>2
  <2>3. QED
    BY <1>1, <1>3, <2>1, <2>2
<1>6. ASSUME NEW id \in agent.updates, ~driver'.failure
      PROVE  (Ingested(id) \/ InQueue(id) \/ OnWire(id))'
  <2>1. ~driver.failure /\ (OfTurn(f) => q = Append(turn.ingested, f.id))
    BY <1>1, <1>3, <1>6
  <2>2. CASE Ingested(id)
    BY <1>3, <1>5, <2>2 DEF Ingested
  <2>3. CASE InQueue(id)
    <3>1. PICK i \in 1..Len(tasks) : OfTurn(tasks[i]) /\ tasks[i].own /\ tasks[i].id = id
      BY <2>3 DEF InQueue
    <3>2. CASE i = 1
      <4>1. \E k \in 1..Len(q) : q[k] = id
        BY <1>2, <1>5, <2>1, <3>1, <3>2
      <4>2. QED
        BY <1>3, <4>1 DEF Ingested
    <3>3. CASE i # 1
      <4>1. i - 1 \in 1..Len(tasks') /\ tasks'[i - 1] = tasks[i]
        BY <1>2, <3>3
      <4>2. QED
        BY <3>1, <4>1 DEF InQueue, OfTurn
    <3>4. QED
      BY <3>2, <3>3
  <2>4. CASE OnWire(id)
    BY <2>4 DEF OnWire, OfTurn
  <2>5. QED
    BY <1>6, <2>1, <2>2, <2>3, <2>4 DEF Accounted
<1>7. ASSUME NEW i \in 1..Len(q), q[i][1] = "turn"
      PROVE  q[i] \in agent.updates
  <2>1. CASE i \in 1..Len(turn.ingested)
    BY <1>5, <1>7, <2>1 DEF Accounted
  <2>2. CASE i \notin 1..Len(turn.ingested)
    BY <1>2, <1>5, <1>7, <2>2 DEF Accounted, OfTurn, IsUpdate
  <2>3. QED
    BY <2>1, <2>2
<1>8. \A i \in 1..Len(tasks') : OfTurn(tasks'[i]) /\ tasks'[i].own => tasks'[i].id \in agent.updates
  BY <1>2 DEF Accounted
<1>9. \A id \in agent.updates : id[1] = "turn"
  BY DEF Accounted
<1>10. \A i \in 1..Len(wire) : OfTurn(wire[i]) /\ wire[i].own => wire[i].id \in agent.updates
  BY DEF Accounted
<1>11. agent' = agent /\ wire' = wire
  OBVIOUS
<1>12. QED
  BY <1>3, <1>6, <1>7, <1>8, <1>9, <1>10, <1>11 DEF Accounted, OfTurn

\* A callback runs, and its update is delivered or found foreign.
LEMMA CallbackLemma ==
  ASSUME ConversationInvariant, RunCallback
  PROVE  ConversationInvariant'
<1> USE DEF ConversationInvariant
<1>1. PICK f : f = Head(tasks)
  OBVIOUS
<1>2. /\ Open /\ tasks # <<>> /\ tasks' = Tail(tasks) /\ UNCHANGED <<agent, wire>>
      /\ SessionUpdate(f) \/ ClientRequest(f)
  BY <1>1 DEF RunCallback
<1>3. tasks' \in Seq(FrameType) /\ f \in FrameType /\ f.id \in Epochs \X Nat /\ f.own \in BOOLEAN
  <2>1. tasks' \in Seq(FrameType) /\ f \in FrameType
    BY <1>1, <1>2, TailLemma DEF Typed
  <2>2. QED
    BY <2>1 DEF FrameType
<1>4. /\ count \in [observed : Nat, delivered : Nat, completed : Nat] /\ waiting \in Nat
      /\ driver \in [phase : DriverPhases, boundary : Nat \cup {None}, target : Nat \cup {None},
                     foreign : BOOLEAN, failure : BOOLEAN]
      /\ turn \in [ingested : Seq(Epochs \X Nat), replayed : Nat]
      /\ turn.ingested \in Seq(Epochs \X Nat)
  BY DEF Typed
<1>5. \* The three ways a callback runs.
      \/ /\ f.type = "request" /\ UNCHANGED <<count, waiting, turn>>
         /\ driver' = [driver EXCEPT !.foreign = driver.foreign \/ ~f.own]
      \/ /\ f.type = "update" /\ ~f.own /\ UNCHANGED <<waiting, turn>>
         /\ driver' = [driver EXCEPT !.foreign = TRUE, !.failure = TRUE]
         /\ count' = [count EXCEPT !.completed = @ + 1]
      \/ f.type = "update" /\ f.own /\ Sink(f) /\ Emit /\ UNCHANGED driver
  BY <1>2 DEF SessionUpdate, ClientRequest
<1>6. /\ driver' \in [phase : DriverPhases, boundary : Nat \cup {None}, target : Nat \cup {None},
                      foreign : BOOLEAN, failure : BOOLEAN]
      /\ driver'.phase = driver.phase /\ driver'.boundary = driver.boundary
      /\ driver'.target = driver.target
      /\ ~driver'.failure => ~driver.failure /\ (f.type = "update" => f.own)
  BY <1>3, <1>4, <1>5
<1>7. /\ count' \in [observed : Nat, delivered : Nat, completed : Nat] /\ waiting' \in Nat
      /\ count'.observed = count.observed
      /\ IF f.type = "update" THEN count'.completed + waiting' = count.completed + waiting + 1
                              ELSE count'.completed + waiting' = count.completed + waiting
      /\ IF f.type = "update" /\ f.own THEN count'.delivered = count.delivered + 1
                                       ELSE count'.delivered = count.delivered
  <2>1. CASE f.type = "request" /\ UNCHANGED <<count, waiting>>
    BY <1>4, <2>1
  <2>2. PICK o \in Nat, d \in Nat, c \in Nat :
          /\ o = count.observed /\ d = count.delivered /\ c = count.completed
          /\ count = [observed |-> o, delivered |-> d, completed |-> c]
    BY <1>4
  <2>3. CASE f.type = "update" /\ ~f.own /\ UNCHANGED waiting
             /\ count' = [count EXCEPT !.completed = @ + 1]
    <3>1. count' = [observed |-> o, delivered |-> d, completed |-> c + 1] /\ waiting' = waiting
      BY <2>2, <2>3
    <3>2. count'.observed = o /\ count'.delivered = d /\ count'.completed = c + 1
          /\ count' \in [observed : Nat, delivered : Nat, completed : Nat]
      BY <3>1
    <3>3. c + 1 + waiting = c + waiting + 1
      BY <1>4, <2>2
    <3>4. QED
      BY <1>4, <2>2, <2>3, <3>1, <3>2, <3>3
  <2>4. CASE f.type = "update" /\ f.own /\ Emit
    <3>1. \/ /\ count' = [observed |-> o, delivered |-> d + 1, completed |-> c + 1]
             /\ waiting' = waiting
          \/ /\ count' = [observed |-> o, delivered |-> d + 1, completed |-> c]
             /\ waiting' = waiting + 1
      BY <2>2, <2>4 DEF Emit
    <3>2. /\ count'.observed = o /\ count'.delivered = d + 1
          /\ \/ count'.completed = c + 1 /\ waiting' = waiting
             \/ count'.completed = c /\ waiting' = waiting + 1
          /\ count' \in [observed : Nat, delivered : Nat, completed : Nat]
      BY <3>1
    <3>3. c + 1 + waiting = c + waiting + 1 /\ c + (waiting + 1) = c + waiting + 1
      BY <1>4, <2>2
    <3>4. waiting' \in Nat /\ count'.completed + waiting' = c + waiting + 1
      <4>1. CASE count'.completed = c + 1 /\ waiting' = waiting
        BY <1>4, <3>3, <4>1
      <4>2. CASE count'.completed = c /\ waiting' = waiting + 1
        BY <1>4, <3>3, <4>2
      <4>3. QED
        BY <3>2, <4>1, <4>2
    <3>5. QED
      BY <2>2, <2>4, <3>2, <3>4
  <2>5. QED
    BY <1>5, <2>1, <2>3, <2>4
<1>8. PICK s \in Nat : s = Started
  BY <1>4 DEF Started
<1>9. Started' = IF IsUpdate(f) THEN Started + 1 ELSE Started
  BY <1>7 DEF Started, IsUpdate
<1>10. /\ Numbered' /\ Started' <= count.observed
       /\ OfHistory(f) /\ driver.boundary # None => s + 1 <= driver.boundary
       /\ OfTurn(f) => driver.boundary # None /\ driver.boundary < s + 1
  BY <1>1, <1>2, <1>6, <1>7, <1>8, <1>9, NextNumberLemma
<1>11. /\ count.delivered <= s /\ s <= count.observed
       /\ ~driver.failure => count.delivered = s
       /\ driver.boundary <= count.observed /\ driver.target <= count.observed
  BY <1>8 DEF Counted
<1>12. Counted'
  <2>1. CASE IsUpdate(f)
    <3>1. Started' = s + 1
      BY <1>8, <1>9, <2>1
    <3>2. count'.delivered <= s + 1
      BY <1>4, <1>7, <1>8, <1>11
    <3>3. ~driver'.failure => count'.delivered = s + 1
      BY <1>6, <1>7, <1>11, <2>1 DEF IsUpdate
    <3>4. QED
      BY <1>6, <1>7, <1>10, <1>11, <3>1, <3>2, <3>3 DEF Counted
  <2>2. CASE ~IsUpdate(f)
    <3>1. Started' = s /\ count'.delivered = count.delivered
      BY <1>7, <1>8, <1>9, <2>2 DEF IsUpdate
    <3>2. QED
      BY <1>6, <1>7, <1>10, <1>11, <3>1 DEF Counted
  <2>3. QED
    BY <2>1, <2>2
<1>13. PICK d \in Nat : d = count.delivered + 1
  BY <1>4
<1>14. /\ turn' \in [ingested : Seq(Epochs \X Nat), replayed : Nat]
       /\ \/ turn'.ingested = turn.ingested
          \/ /\ IsUpdate(f) /\ f.own /\ turn'.ingested = Append(turn.ingested, f.id)
             /\ driver.boundary # None /\ d > driver.boundary
       /\ f.type = "update" /\ f.own /\ driver.boundary # None /\ d > driver.boundary =>
            turn'.ingested = Append(turn.ingested, f.id)
  <2>1. CASE f.type # "update" \/ ~f.own
    BY <1>4, <1>5, <2>1
  <2>2. CASE /\ f.type = "update" /\ f.own /\ driver.boundary # None /\ d > driver.boundary
             /\ Sink(f)
    <3>1. turn' = [turn EXCEPT !.ingested = Append(turn.ingested, f.id)]
      BY <1>4, <1>13, <2>2 DEF Sink, CurrentTurn
    <3>2. Append(turn.ingested, f.id) \in Seq(Epochs \X Nat)
      BY <1>3, <1>4, AppendLemma
    <3>3. QED
      BY <1>4, <2>2, <3>1, <3>2 DEF IsUpdate
  <2>3. CASE /\ f.type = "update" /\ f.own /\ ~(driver.boundary # None /\ d > driver.boundary)
             /\ Sink(f)
    <3>1. turn' = [turn EXCEPT !.replayed = @ + 1]
      BY <1>13, <2>3 DEF Sink, CurrentTurn, Tally
    <3>2. turn.replayed \in Nat /\ turn.replayed + 1 \in Nat
      BY <1>4
    <3>3. turn' \in [ingested : Seq(Epochs \X Nat), replayed : Nat]
          /\ turn'.ingested = turn.ingested
      BY <1>4, <3>1, <3>2
    <3>4. QED
      BY <2>3, <3>3
  <2>4. QED
    BY <1>3, <1>5, <2>1, <2>2, <2>3
<1>15. Typed'
  BY <1>2, <1>3, <1>6, <1>7, <1>14 DEF Typed
<1>16. InStep'
  BY <1>2, <1>6 DEF InStep
<1>17. WireInOrder'
  BY <1>2, <1>6 DEF WireInOrder, OfHistory, OfTurn
<1>18. TurnInOrder'
  BY <1>1, <1>2, <1>14, RanInOrderLemma
<1>19. Accounted'
  <2>1. ~driver'.failure =>
          ~driver.failure /\ (OfTurn(f) => turn'.ingested = Append(turn.ingested, f.id))
    <3> HAVE ~driver'.failure
    <3>1. ~driver.failure /\ (f.type = "update" => f.own) /\ d = s + 1
      BY <1>6, <1>11, <1>13
    <3>2. ASSUME OfTurn(f)
          PROVE  turn'.ingested = Append(turn.ingested, f.id)
      <4>1. driver.boundary \in Nat /\ driver.boundary # None /\ d > driver.boundary
        BY <1>4, <1>10, <3>1, <3>2
      <4>2. QED
        BY <1>14, <3>1, <3>2, <4>1 DEF OfTurn
    <3>3. QED
      BY <3>1, <3>2
  <2>2. QED
    BY <1>1, <1>2, <1>14, <2>1, RanAccountedLemma
<1>20. HistoryStaysOut'
  <2>1. CASE turn'.ingested = turn.ingested
    BY <2>1 DEF HistoryStaysOut
  <2>2. CASE /\ IsUpdate(f) /\ turn'.ingested = Append(turn.ingested, f.id)
             /\ driver.boundary # None /\ d > driver.boundary
    <3>1. ~OfHistory(f)
      BY <1>4, <1>8, <1>10, <1>11, <1>13, <2>2
    <3>2. f.id[1] # "history"
      BY <2>2, <3>1 DEF OfHistory, IsUpdate
    <3>3. /\ Len(turn'.ingested) = Len(turn.ingested) + 1 /\ Len(turn.ingested) \in Nat
          /\ \A i \in 1..Len(turn.ingested) : turn'.ingested[i] = turn.ingested[i]
          /\ turn'.ingested[Len(turn.ingested) + 1] = f.id
          /\ \A i \in 1..Len(turn'.ingested) :
               i \in 1..Len(turn.ingested) \/ i = Len(turn.ingested) + 1
      BY <1>3, <1>4, <2>2, AppendLemma
    <3>4. QED
      BY <3>2, <3>3 DEF HistoryStaysOut
  <2>3. QED
    BY <1>14, <2>1, <2>2
<1>21. Returned'
  BY <1>2, <1>6 DEF Returned, Open
<1>22. QED
  BY <1>10, <1>12, <1>15, <1>16, <1>17, <1>18, <1>19, <1>20, <1>21

\* The writer settles a wait: a callback that ran completes.
LEMMA SettlesLemma ==
  ASSUME ConversationInvariant, AdmissionSettles
  PROVE  ConversationInvariant'
<1> USE DEF ConversationInvariant
<1>1. /\ Open /\ waiting \in Nat /\ waiting > 0 /\ waiting' = waiting - 1
      /\ count' = [count EXCEPT !.completed = @ + 1]
      /\ UNCHANGED <<agent, wire, tasks, driver, turn>>
  BY DEF AdmissionSettles, Typed
<1>2. /\ count' \in [observed : Nat, delivered : Nat, completed : Nat] /\ waiting' \in Nat
      /\ count'.observed = count.observed /\ count'.delivered = count.delivered
      /\ count'.completed = count.completed + 1 /\ count.completed \in Nat
  <2>1. count \in [observed : Nat, delivered : Nat, completed : Nat]
    BY DEF Typed
  <2>2. PICK c \in Nat : c = count.completed
    BY <2>1
  <2>3. c + 1 \in Nat /\ count' = [count EXCEPT !.completed = c + 1] /\ waiting - 1 \in Nat
    BY <1>1, <2>2
  <2>4. QED
    BY <1>1, <2>1, <2>2, <2>3
<1>3. Started' = Started
  BY <1>1, <1>2 DEF Started
<1>4. Typed' /\ InStep' /\ HistoryStaysOut' /\ Returned'
  BY <1>1, <1>2 DEF Typed, InStep, HistoryStaysOut, Returned, Open
<1>5. Counted'
  BY <1>1, <1>2, <1>3 DEF Counted
<1>6. Numbered'
  BY <1>1, <1>2, <1>3, SMTT(30) DEF Numbered, Numbers
<1>7. WireInOrder' /\ TurnInOrder'
  BY <1>1 DEF WireInOrder, TurnInOrder, OfHistory, OfTurn, IsUpdate, Earlier
<1>8. Accounted'
  BY <1>1 DEF Accounted, Ingested, InQueue, OnWire, OfTurn
<1>9. QED
  BY <1>4, <1>5, <1>6, <1>7, <1>8

-----------------------------------------------------------------------------
(* prompt_once *)

\* The steps of prompt_once move the driver only.
LEMMA DriverLemma ==
  ASSUME ConversationInvariant, UNCHANGED <<wire, tasks, waiting, count, turn>>,
         agent'.sent = agent.sent, agent'.updates = agent.updates,
         driver'.failure = driver.failure
  PROVE  TurnInOrder' /\ Accounted' /\ HistoryStaysOut' /\ Started' = Started
<1>1. TurnInOrder'
  BY DEF ConversationInvariant, TurnInOrder, OfTurn, IsUpdate, Earlier
<1>2. Accounted'
  BY DEF ConversationInvariant, Accounted, Ingested, InQueue, OnWire, OfTurn
<1>3. QED
  BY <1>1, <1>2 DEF ConversationInvariant, HistoryStaysOut, Started

\* The identity gate before the prompt.
LEMMA PromptOnceLemma ==
  ASSUME ConversationInvariant, PromptOnce
  PROVE  ConversationInvariant'
<1> USE DEF ConversationInvariant
<1>1. /\ UNCHANGED <<agent, wire, tasks, waiting, count, turn>> /\ driver.phase = "ready"
      /\ driver' \in [phase : DriverPhases, boundary : Nat \cup {None},
                      target : Nat \cup {None}, foreign : BOOLEAN, failure : BOOLEAN]
      /\ driver'.phase \in {"failed", "queued"} /\ driver'.boundary = driver.boundary
      /\ driver'.target = driver.target /\ driver'.failure = driver.failure
  BY DEF PromptOnce, Typed, DriverPhases
<1>2. TurnInOrder' /\ Accounted' /\ HistoryStaysOut' /\ Started' = Started
  BY <1>1, DriverLemma
<1>3. Typed' /\ InStep' /\ Counted' /\ Returned'
  BY <1>1, <1>2 DEF Typed, InStep, Counted, Returned
<1>4. Numbered'
  BY <1>1, <1>2 DEF Numbered, Numbers
<1>5. WireInOrder'
  BY <1>1 DEF WireInOrder, OfHistory, OfTurn
<1>6. QED
  BY <1>2, <1>3, <1>4, <1>5

\* The boundary is taken as the prompt is written: what was observed by then is
\* history, and nothing of the turn has been sent.
LEMMA WritePromptLemma ==
  ASSUME ConversationInvariant, WritePrompt
  PROVE  ConversationInvariant'
<1> USE DEF ConversationInvariant
<1>1. /\ UNCHANGED <<wire, tasks, waiting, count, turn>> /\ driver.phase = "queued"
      /\ driver' = [driver EXCEPT !.phase = "written", !.boundary = count.observed]
      /\ agent' = [agent EXCEPT !.prompt = TRUE]
  BY DEF WritePrompt, Boundary
<1>2. /\ driver' \in [phase : DriverPhases, boundary : Nat \cup {None},
                      target : Nat \cup {None}, foreign : BOOLEAN, failure : BOOLEAN]
      /\ driver'.phase = "written" /\ driver'.boundary = count.observed
      /\ driver'.target = driver.target /\ driver'.failure = driver.failure
      /\ count.observed \in Nat /\ driver'.boundary # None
  <2>1. /\ driver \in [phase : DriverPhases, boundary : Nat \cup {None},
                       target : Nat \cup {None}, foreign : BOOLEAN, failure : BOOLEAN]
        /\ count.observed \in Nat
    BY DEF Typed
  <2>2. PICK o \in Nat : o = count.observed
    BY <2>1
  <2>3. o # None /\ "written" \in DriverPhases /\ "barrier" \in DriverPhases
    BY DEF None, DriverPhases
  <2>4. QED
    BY <1>1, <2>1, <2>2, <2>3
<1>3. /\ agent' \in [epoch : Epochs, sent : [Epochs -> Nat], prompt : BOOLEAN,
                     updates : SUBSET (Epochs \X Nat)]
      /\ agent'.epoch = agent.epoch /\ agent'.sent = agent.sent
      /\ agent'.updates = agent.updates
  BY <1>1 DEF Typed
<1>4. driver.boundary = None /\ agent.epoch = "idle"
  BY <1>1 DEF InStep
<1>5. TurnInOrder' /\ Accounted' /\ HistoryStaysOut' /\ Started' = Started
  BY <1>1, <1>2, <1>3, DriverLemma
<1>6. Typed' /\ InStep' /\ Returned'
  BY <1>1, <1>2, <1>3, <1>4 DEF Typed, InStep, Returned
<1>7. Counted'
  BY <1>1, <1>2, <1>5 DEF Counted
<1>8. Numbered'
  <2>1. PICK num \in [1..Len(tasks) -> Nat] : Numbers(num)
    BY DEF Numbered
  <2>2. \A i \in 1..Len(tasks) : ~OfTurn(tasks[i])
    BY <1>4, <2>1 DEF Numbers
  <2>3. \A i \in 1..Len(tasks) : OfHistory(tasks[i]) => num[i] <= count.observed
    BY <2>1 DEF Numbers, OfHistory, IsUpdate
  <2>4. Numbers(num)'
    BY <1>1, <1>2, <1>5, <2>1, <2>2, <2>3 DEF Numbers, OfHistory, OfTurn, IsUpdate
  <2>5. QED
    BY <1>1, <2>1, <2>4 DEF Numbered
<1>9. WireInOrder'
  BY <1>1, <1>2, <1>3 DEF WireInOrder, OfHistory, OfTurn
<1>10. QED
  BY <1>5, <1>6, <1>7, <1>8, <1>9

\* The answer is here: what was observed by now is what the barrier waits for.
LEMMA ResumeLemma ==
  ASSUME ConversationInvariant, Resume
  PROVE  ConversationInvariant'
<1> USE DEF ConversationInvariant
<1>1. /\ UNCHANGED <<agent, wire, tasks, waiting, count, turn>> /\ driver.phase = "answered"
      /\ driver' = [driver EXCEPT !.phase = "barrier", !.target = count.observed]
  BY DEF Resume
<1>2. /\ driver' \in [phase : DriverPhases, boundary : Nat \cup {None},
                      target : Nat \cup {None}, foreign : BOOLEAN, failure : BOOLEAN]
      /\ driver'.phase = "barrier" /\ driver'.boundary = driver.boundary
      /\ driver'.target = count.observed /\ driver'.failure = driver.failure
      /\ count.observed \in Nat /\ driver'.target # None
  <2>1. /\ driver \in [phase : DriverPhases, boundary : Nat \cup {None},
                       target : Nat \cup {None}, foreign : BOOLEAN, failure : BOOLEAN]
        /\ count.observed \in Nat
    BY DEF Typed
  <2>2. PICK o \in Nat : o = count.observed
    BY <2>1
  <2>3. o # None /\ "written" \in DriverPhases /\ "barrier" \in DriverPhases
    BY DEF None, DriverPhases
  <2>4. QED
    BY <1>1, <2>1, <2>2, <2>3
<1>3. TurnInOrder' /\ Accounted' /\ HistoryStaysOut' /\ Started' = Started
  BY <1>1, <1>2, DriverLemma
<1>4. Typed' /\ InStep' /\ Returned'
  BY <1>1, <1>2 DEF Typed, InStep, Returned
<1>5. Counted'
  BY <1>1, <1>2, <1>3 DEF Counted
<1>6. Numbered'
  <2>1. PICK num \in [1..Len(tasks) -> Nat] : Numbers(num)
    BY DEF Numbered
  <2>2. \A i \in 1..Len(tasks) : OfTurn(tasks[i]) => num[i] <= count.observed
    BY <2>1 DEF Numbers, OfTurn, IsUpdate
  <2>3. Numbers(num)'
    BY <1>1, <1>2, <1>3, <2>1, <2>2 DEF Numbers, OfHistory, OfTurn, IsUpdate
  <2>4. QED
    BY <1>1, <2>1, <2>3 DEF Numbered
<1>7. WireInOrder'
  BY <1>1, <1>2 DEF WireInOrder, OfHistory, OfTurn
<1>8. QED
  BY <1>3, <1>4, <1>5, <1>6, <1>7

\* The barrier opens, or the turn ends otherwise.
LEMMA EndsLemma ==
  ASSUME ConversationInvariant, Return \/ Interrupted
  PROVE  ConversationInvariant'
<1> USE DEF ConversationInvariant
<1>1. /\ UNCHANGED <<agent, wire, tasks, waiting, count, turn>>
      /\ driver' \in [phase : DriverPhases, boundary : Nat \cup {None},
                      target : Nat \cup {None}, foreign : BOOLEAN, failure : BOOLEAN]
      /\ driver'.boundary = driver.boundary
      /\ driver'.target = driver.target /\ driver'.failure = driver.failure
      /\ \/ driver'.phase = "failed"
         \/ /\ driver.phase = "barrier" /\ driver'.phase = "returned" /\ ~driver.failure
            /\ count.completed >= driver.target
  BY DEF Return, Interrupted, Typed, DriverPhases
<1>2. driver.phase # "opening" /\ agent.epoch # "history"
  BY DEF Return, Interrupted, InStep
<1>3. TurnInOrder' /\ Accounted' /\ HistoryStaysOut' /\ Started' = Started
  BY <1>1, DriverLemma
<1>4. Typed' /\ InStep' /\ Counted' /\ Returned'
  BY <1>1, <1>2, <1>3 DEF Typed, InStep, Counted, Returned
<1>5. Numbered'
  BY <1>1, <1>3 DEF Numbered, Numbers
<1>6. WireInOrder'
  BY <1>1, <1>2 DEF WireInOrder, OfHistory, OfTurn
<1>7. QED
  BY <1>3, <1>4, <1>5, <1>6

-----------------------------------------------------------------------------
(* The theorems *)

\* Nothing was sent, observed or run yet.
LEMMA InitLemma ==
  ASSUME Init
  PROVE  ConversationInvariant
<1>1. Typed
  BY DEF Init, Typed, Epochs, DriverPhases, None
<1>2. InStep /\ WireInOrder /\ TurnInOrder /\ Accounted /\ HistoryStaysOut /\ Returned
  BY DEF Init, InStep, WireInOrder, TurnInOrder, Accounted, HistoryStaysOut, Returned, None
<1>3. Counted
  BY DEF Init, Counted, Started, None
<1>4. Numbered
  <2>1. tasks = <<>> /\ Len(tasks) = 0 /\ Started = 0 /\ count.observed = 0
    BY DEF Init, Started
  <2>2. [i \in 1..0 |-> 0] \in [1..Len(tasks) -> Nat]
    BY <2>1
  <2>3. Numbers([i \in 1..0 |-> 0])
    BY <2>1 DEF Numbers
  <2>4. QED
    BY <2>2, <2>3 DEF Numbered
<1>5. QED
  BY <1>1, <1>2, <1>3, <1>4 DEF ConversationInvariant

\* Every step of the agent, the receive loop, the callbacks and prompt_once keeps
\* the numbering of the queued updates, and with it the invariant.
THEOREM ConversationInvariantHolds == Spec => []ConversationInvariant
<1>1. Init => ConversationInvariant
  BY InitLemma
<1>2. ConversationInvariant /\ [Next]_vars => ConversationInvariant'
  <2> SUFFICES ASSUME ConversationInvariant, [Next]_vars
               PROVE  ConversationInvariant'
    OBVIOUS
  <2>1. CASE UNCHANGED vars
    <3>1. UNCHANGED <<agent, wire, tasks, waiting, count, driver, turn>>
      BY <2>1 DEF vars
    <3>2. TurnInOrder' /\ Accounted' /\ HistoryStaysOut' /\ Started' = Started
      BY <3>1, DriverLemma
    <3>3. Typed' /\ InStep' /\ Counted' /\ Returned'
      BY <3>1, <3>2 DEF ConversationInvariant, Typed, InStep, Counted, Returned
    <3>4. Numbered' /\ WireInOrder'
      BY <3>1, <3>2 DEF ConversationInvariant, Numbered, Numbers, WireInOrder, OfHistory, OfTurn
    <3>5. QED
      BY <3>2, <3>3, <3>4 DEF ConversationInvariant
  <2>2. CASE AgentSends \/ AgentOpens \/ AgentTakesPrompt \/ AgentAnswers
    BY <2>2, SendsLemma, OpensLemma, TakesPromptLemma, AnswersLemma
  <2>3. CASE Receive \/ RunCallback \/ AdmissionSettles
    BY <2>3, ReceiveLemma, CallbackLemma, SettlesLemma
  <2>4. CASE PromptOnce \/ WritePrompt \/ Resume \/ Return \/ Interrupted
    BY <2>4, PromptOnceLemma, WritePromptLemma, ResumeLemma, EndsLemma
  <2>5. QED
    BY <2>1, <2>2, <2>3, <2>4 DEF Next
<1>3. QED
  BY <1>1, <1>2, PTL DEF Spec

\* However many updates an agent replays before session/load is answered, and
\* however late their callbacks run, the boundary that the prompt's write takes
\* keeps every one of them out of the turn.
THEOREM HistoryStaysOutHolds == Spec => []HistoryStaysOut
<1>1. ConversationInvariant => HistoryStaysOut
  BY DEF ConversationInvariant
<1>2. QED
  BY <1>1, ConversationInvariantHolds, PTL

\* When the barrier opens without a failure, every callback of the turn has run:
\* the message holds what the agent sent between the prompt and its answer, all
\* of it, once and in order.
THEOREM TurnIsWholeHolds == Spec => []TurnIsWhole
<1>1. ConversationInvariant => TurnIsWhole
  <2> SUFFICES ASSUME ConversationInvariant, driver.phase = "returned"
               PROVE  TurnIsWhole
    BY DEF TurnIsWhole
  <2> USE DEF ConversationInvariant
  <2>1. PICK num \in [1..Len(tasks) -> Nat] : Numbers(num)
    BY DEF Numbered
  <2>2. count.completed \in Nat /\ waiting \in Nat /\ driver.target \in Nat
        /\ driver.target <= count.completed /\ ~driver.failure
    BY DEF Typed, InStep, Returned
  <2>3. \A i \in 1..Len(tasks) : ~OfTurn(tasks[i])
    <3> SUFFICES ASSUME NEW i \in 1..Len(tasks), OfTurn(tasks[i])
                 PROVE  FALSE
      OBVIOUS
    <3>1. count.completed + waiting < num[i] /\ num[i] <= driver.target /\ num[i] \in Nat
      BY <2>1 DEF Numbers, Started, OfTurn, IsUpdate
    <3>2. QED
      BY <2>2, <3>1
  <2>4. \A i \in 1..Len(wire) : ~OfTurn(wire[i])
    BY DEF WireInOrder
  <2>5. \A id \in agent.updates : Ingested(id) /\ id[1] = "turn"
    BY <2>2, <2>3, <2>4 DEF Accounted, InQueue, OnWire
  <2>6. \A i \in 1..Len(turn.ingested) :
          turn.ingested[i][1] = "turn" => turn.ingested[i] \in agent.updates
    BY DEF Accounted
  <2>7. \A i, j \in 1..Len(turn.ingested) :
          i < j /\ turn.ingested[i][1] = "turn" /\ turn.ingested[j][1] = "turn" =>
            turn.ingested[i][2] < turn.ingested[j][2]
    BY DEF TurnInOrder, Earlier
  <2>8. QED
    BY <2>5, <2>6, <2>7 DEF TurnIsWhole, Ingested
<1>2. QED
  BY <1>1, ConversationInvariantHolds, PTL
=============================================================================
