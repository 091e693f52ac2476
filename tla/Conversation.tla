----------------------------- MODULE Conversation -----------------------------
(***************************************************************************)
(* One prompt over one ACP connection: the agent that sends frames, the    *)
(* SDK's receive loop with the driver's stream observer, the callbacks it  *)
(* queues, the update sink, and prompt_once with its wire boundary and its *)
(* delivery barrier.                                                       *)
(*                                                                         *)
(* The SDK (external) reads frames in wire order, shows each one to the    *)
(* observer, queues a task for the callback of a notification or request   *)
(* that validates, and resolves the answer to a request at once, without   *)
(* waiting for the queued tasks.  Tasks take their first step in order.    *)
(***************************************************************************)
EXTENDS Integers, Sequences

CONSTANTS
  MaxFrames,  \* the frames the agent sends in each epoch
  WireCap     \* frames on the wire, and tasks queued, at any time

VARIABLES
  agent,   \* external: the agent's epoch, and what it sent
  wire,    \* frames on their way to ARS
  tasks,   \* callbacks queued by the receive loop
  waiting, \* callbacks that wait for the evidence writer to admit an event
  count,   \* updates observed, delivered to the sink, and completed
  driver,  \* prompt_once: phase, wire boundary, barrier target; the client's flags
  turn     \* what the Run took for its own turn, in order, and the replay tally

vars == <<agent, wire, tasks, waiting, count, driver, turn>>

\* "history": before the session/load answer; "idle": before the prompt arrived;
\* "turn": until the agent answers it; "late": after that.
Epochs == {"history", "idle", "turn", "late"}

None == -1

ASSUME ConversationAssumption ==
  /\ MaxFrames \in [Epochs -> Nat]
  /\ WireCap \in Nat \ {0}

DriverPhases == {"opening", "ready", "queued", "written", "answered", "barrier",
                 "returned", "failed"}

TypeOK ==
  /\ agent.epoch \in Epochs /\ agent.sent \in [Epochs -> Nat]
  /\ agent.prompt \in BOOLEAN /\ \A id \in agent.updates : id[1] = "turn"
  /\ Len(wire) <= WireCap + 1 /\ Len(tasks) <= WireCap
  /\ driver.phase \in DriverPhases /\ driver.boundary \in Nat \cup {None}
  /\ driver.foreign \in BOOLEAN /\ driver.failure \in BOOLEAN
  /\ count.completed + waiting <= count.observed /\ count.delivered <= count.observed

Init ==
  /\ agent = [epoch |-> "history", sent |-> [e \in Epochs |-> 0], prompt |-> FALSE,
              updates |-> {}]
  /\ wire = <<>> /\ tasks = <<>> /\ waiting = 0
  /\ count = [observed |-> 0, delivered |-> 0, completed |-> 0]
  /\ driver = [phase |-> "opening", boundary |-> None, target |-> None,
               foreign |-> FALSE, failure |-> FALSE]
  /\ turn = [ingested |-> <<>>, replayed |-> 0]

-----------------------------------------------------------------------------
(* The agent: external, cooperative, and free to send what it likes *)

\* The model ends with prompt_once.
Open == driver.phase \notin {"returned", "failed"}

\* A frame is known by its place among those of its epoch.  "update": a
\* session/update notification that validates; "junk": one that the SDK drops,
\* because it does not, or is shaped as a request; "request": one for the
\* client.  own: it names the Session of this connection.
Frame(type, own) ==
  [type |-> type, own |-> own, id |-> <<agent.epoch, agent.sent[agent.epoch] + 1>>]

AgentSends ==
  /\ Open /\ agent.sent[agent.epoch] < MaxFrames[agent.epoch] /\ Len(wire) < WireCap
  /\ \E type \in {"update", "junk", "request"}, own \in BOOLEAN :
       /\ wire' = Append(wire, Frame(type, own))
       /\ agent' = [agent EXCEPT
                      !.sent[agent.epoch] = @ + 1,
                      !.updates = IF type = "update" /\ own /\ agent.epoch = "turn"
                                  THEN @ \cup {Frame(type, own).id} ELSE @]
  /\ UNCHANGED <<tasks, waiting, count, driver, turn>>

\* The last answer of the startup: session/load, or a set_config_option.
AgentOpens ==
  /\ agent.epoch = "history"
  /\ wire' = Append(wire, Frame("opened", TRUE))
  /\ agent' = [agent EXCEPT !.epoch = "idle"]
  /\ UNCHANGED <<tasks, waiting, count, driver, turn>>

AgentTakesPrompt ==
  /\ Open /\ agent.prompt
  /\ agent' = [agent EXCEPT !.epoch = "turn", !.prompt = FALSE]
  /\ UNCHANGED <<wire, tasks, waiting, count, driver, turn>>

AgentAnswers ==
  /\ Open /\ agent.epoch = "turn"
  /\ wire' = Append(wire, Frame("answer", TRUE))
  /\ agent' = [agent EXCEPT !.epoch = "late"]
  /\ UNCHANGED <<tasks, waiting, count, driver, turn>>

-----------------------------------------------------------------------------
(* The receive loop, and the driver's observer of it *)

\* Mutant: every session/update frame is counted.
DispatchesAll(f) == f.type \in {"update", "junk"}

\* _update_frame_will_dispatch: only what reaches the client's callback.
Dispatches(f) == f.type = "update"

\* The observer counts an update before its task exists and before any later
\* answer resolves.
Receive ==
  /\ Open /\ wire # <<>> /\ Len(tasks) < WireCap
  /\ LET f == Head(wire) IN
     /\ wire' = Tail(wire)
     /\ count' = IF Dispatches(f) THEN [count EXCEPT !.observed = @ + 1] ELSE count
     /\ tasks' = IF f.type \in {"update", "request"} THEN Append(tasks, f) ELSE tasks
     /\ driver' = IF f.type = "opened" /\ driver.phase = "opening"
                  THEN [driver EXCEPT !.phase = "ready"]
                  ELSE IF f.type = "answer" /\ driver.phase = "written"
                  THEN [driver EXCEPT !.phase = "answered"]
                  ELSE driver
  /\ UNCHANGED <<agent, waiting, turn>>

-----------------------------------------------------------------------------
(* The client's callbacks and the sink *)

\* Mutant: once the prompt is written, what is delivered is of the turn.
CurrentIfWritten(delivered) == driver.boundary # None

\* _current_turn_chunk
CurrentTurn(delivered) == driver.boundary # None /\ delivered > driver.boundary

\* _ReplayLedger.record keeps counts and nothing else.
Tally == [turn EXCEPT !.replayed = @ + 1]

\* The sink: an update at or below the boundary is tallied.  One above it goes
\* into the message, the events and the bridge.
Sink(f) ==
  turn' = IF CurrentTurn(count.delivered + 1) THEN [turn EXCEPT !.ingested = Append(@, f.id)]
          ELSE Tally

\* _emit: the writer admits the events of the update at once, or the callback has
\* to wait for it.
Emit ==
  \/ /\ count' = [count EXCEPT !.delivered = @ + 1, !.completed = @ + 1]
     /\ UNCHANGED waiting
  \/ /\ CurrentTurn(count.delivered + 1)
     /\ count' = [count EXCEPT !.delivered = @ + 1]
     /\ waiting' = waiting + 1

\* session_update: identity, then the sink; an event the writer cannot admit yet
\* holds the callback up.  A callback that raises counts as completed too.
SessionUpdate(f) ==
  /\ f.type = "update"
  /\ \/ /\ ~f.own
        /\ driver' = [driver EXCEPT !.foreign = TRUE, !.failure = TRUE]
        /\ count' = [count EXCEPT !.completed = @ + 1]
        /\ UNCHANGED <<waiting, turn>>
     \/ f.own /\ Sink(f) /\ Emit /\ UNCHANGED driver

\* request_permission, read_text_file and the surfaces that are not provided:
\* identity, then PermissionBridge or a refusal.
ClientRequest(f) ==
  /\ f.type = "request"
  /\ driver' = [driver EXCEPT !.foreign = @ \/ ~f.own]
  /\ UNCHANGED <<count, waiting, turn>>

RunCallback ==
  /\ Open /\ tasks # <<>> /\ tasks' = Tail(tasks)
  /\ SessionUpdate(Head(tasks)) \/ ClientRequest(Head(tasks))
  /\ UNCHANGED <<agent, wire>>

\* _settle_admissions: the event is admitted or its wait ends in a failure of
\* the evidence; the callback completes either way.
AdmissionSettles ==
  /\ Open /\ waiting > 0
  /\ waiting' = waiting - 1
  /\ count' = [count EXCEPT !.completed = @ + 1]
  /\ UNCHANGED <<agent, wire, tasks, driver, turn>>

-----------------------------------------------------------------------------
(* prompt_once *)

\* The identity gate; then the request is handed to the sender loop.
PromptOnce ==
  /\ driver.phase = "ready"
  /\ driver' = [driver EXCEPT !.phase = IF driver.foreign THEN "failed" ELSE "queued"]
  /\ UNCHANGED <<agent, wire, tasks, waiting, count, turn>>

\* _snapshot_prompt_wire_boundary: what was observed before the prompt left.
Boundary == count.observed

\* The tap takes the boundary and the frame is written in one step of the
\* sender loop.
WritePrompt ==
  /\ driver.phase = "queued"
  /\ driver' = [driver EXCEPT !.phase = "written", !.boundary = Boundary]
  /\ agent' = [agent EXCEPT !.prompt = TRUE]
  /\ UNCHANGED <<wire, tasks, waiting, count, turn>>

\* prompt_once goes on after the answer: the barrier's target is what was
\* observed by now.
Resume ==
  /\ driver.phase = "answered"
  /\ driver' = [driver EXCEPT !.phase = "barrier", !.target = count.observed]
  /\ UNCHANGED <<agent, wire, tasks, waiting, count, turn>>

\* Mutant: only the handlers that have started are waited for.
ReturnStarted ==
  /\ driver.phase = "barrier" /\ (waiting = 0 \/ driver.failure)
  /\ driver' = [driver EXCEPT !.phase = IF driver.failure \/ driver.foreign THEN "failed" ELSE "returned"]
  /\ UNCHANGED <<agent, wire, tasks, waiting, count, turn>>

\* wait_for_updates_completed, then the identity once more.
Return ==
  /\ driver.phase = "barrier" /\ (count.completed >= driver.target \/ driver.failure)
  /\ driver' = [driver EXCEPT !.phase = IF driver.failure \/ driver.foreign THEN "failed" ELSE "returned"]
  /\ UNCHANGED <<agent, wire, tasks, waiting, count, turn>>

\* The turn timeout, or the loss of the connection.
Interrupted ==
  /\ driver.phase \in {"queued", "written", "answered", "barrier"}
  /\ driver' = [driver EXCEPT !.phase = "failed"]
  /\ UNCHANGED <<agent, wire, tasks, waiting, count, turn>>

Next ==
  \/ AgentSends \/ AgentOpens \/ AgentTakesPrompt \/ AgentAnswers
  \/ Receive \/ RunCallback \/ AdmissionSettles
  \/ PromptOnce \/ WritePrompt \/ Resume \/ Return \/ Interrupted

Spec == Init /\ [][Next]_vars

\* The event loop runs what is ready, the writer settles what it accepted, and
\* the agent answers what it was asked.  Nothing is assumed of a timeout.
Fairness ==
  /\ WF_vars(AgentOpens) /\ WF_vars(AgentTakesPrompt) /\ WF_vars(AgentAnswers)
  /\ WF_vars(Receive) /\ WF_vars(RunCallback) /\ WF_vars(AdmissionSettles)
  /\ WF_vars(PromptOnce) /\ WF_vars(WritePrompt) /\ WF_vars(Resume) /\ WF_vars(Return)

FairSpec == Spec /\ Fairness

-----------------------------------------------------------------------------
(* Properties *)

\* No update that the agent replayed before the session was open is taken for
\* one of this Run's turn, however late its callback runs.
HistoryStaysOut ==
  \A i \in 1..Len(turn.ingested) : turn.ingested[i][1] # "history"

\* A turn that returns is whole: every update the agent sent between the prompt
\* and its answer, and ARS could take, is in it, once and in order.
TurnIsWhole ==
  driver.phase = "returned" =>
    LET own == {i \in 1..Len(turn.ingested) : turn.ingested[i][1] = "turn"} IN
    /\ {turn.ingested[i] : i \in own} = agent.updates
    /\ \A i, j \in own : i < j => turn.ingested[i][2] < turn.ingested[j][2]

\* A prompt that was answered returns or fails without a timeout.
BarrierOpens ==
  driver.phase = "answered" ~> driver.phase \in {"returned", "failed"}
=============================================================================
