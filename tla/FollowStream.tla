----------------------------- MODULE FollowStream -----------------------------
(***************************************************************************)
(* Reading a Run's events over the socket: the event file as its writer    *)
(* thread leaves it, the page reader, EventFollowStream with its watcher   *)
(* and its bounded queue, the server's connections and their shutdown, and *)
(* the client that reads the frames.                                       *)
(*                                                                         *)
(* One Run is read.  A step of the daemon is what its event loop runs      *)
(* between two awaits; the writer thread and the clients interleave with   *)
(* it.  Event bodies are left out: event n is its seq.                     *)
(***************************************************************************)
EXTENDS Naturals, Sequences

CONSTANTS
  Clients,         \* the clients that read the Run's events
  Starts,          \* the from_seq values they begin with
  MaxEvents,       \* bound: events of the Run
  Wide,            \* the events whose JSON alone exceeds the response budget
  Heavy,           \* the events of which the response budget carries only one
  QueueSize,       \* event_follow_queue_size
  PageLimit,       \* MAX_EVENTS_PAGE_LIMIT, and the limit of a page asked for
  Window           \* frames the peer's socket takes before drain() blocks

ASSUME ReadersAssumption ==
  /\ MaxEvents \in Nat /\ Starts \subseteq 0..MaxEvents
  /\ Wide \subseteq 1..MaxEvents /\ Heavy \subseteq 1..MaxEvents
  /\ QueueSize \in Nat \ {0} /\ PageLimit \in Nat \ {0}
  /\ Window \in Nat

VARIABLES
  file,    \* events.jsonl: its complete lines, and what follows them
  run,     \* the Run: its ledger, its terminal and its registry entry
  server,  \* ArsdServer and the shutdown lifecycle
  conn,    \* per client: the server's side of its connection
  stream,  \* per client: its EventFollowStream
  client   \* per client: ArsdClient and its subscription

vars == <<file, run, server, conn, stream, client>>

End == 0  \* the None that ends a queue
Codes == {"BACKLOG", "CORRUPT", "UNTRUSTED", "SHUTTING_DOWN", "CAPACITY"}
Frames == [events : Seq(1..MaxEvents), exhausted : BOOLEAN, code : Codes \cup {"none"}]

EventFrame(n) == [events |-> <<n>>, exhausted |-> FALSE, code |-> "none"]
ErrorFrame(code) == [events |-> <<>>, exhausted |-> FALSE, code |-> code]

\* Every variable has its type.
TypeOK ==
  /\ file \in [lines : 0..MaxEvents, tail : {"none", "fragment", "whole"}]
  /\ run \in [ledger : {"open", "failed", "closed"}, orderly : BOOLEAN,
              terminal : {"absent", "trusted", "invalid"},
              registered : BOOLEAN, cancelled : BOOLEAN]
  /\ server \in {"serving", "shutdown", "closing", "handlers", "down"}
  /\ \A c \in Clients :
       /\ conn[c] \in [pc : {"none", "accepted", "loop", "wait", "drain", "last",
                             "refused", "finish", "gone"},
                       shut : BOOLEAN, wire : Seq(Frames)]
       /\ stream[c] \in [cursor : 0..MaxEvents, queue : Seq(0..MaxEvents),
                         failure : Codes \cup {"none"}, closed : BOOLEAN,
                         watcher : {"none", "read", "end", "contain", "idle", "done"}]
       /\ client[c] \in [follow : BOOLEAN,
                         state : {"new", "idle", "asked", "following", "completed",
                                  "failed", "left"},
                         from : 0..MaxEvents, got : Seq(1..MaxEvents), final : BOOLEAN]

Init ==
  /\ file = [lines |-> 0, tail |-> "none"]
  /\ run = [ledger |-> "open", orderly |-> FALSE, terminal |-> "absent",
            registered |-> TRUE, cancelled |-> FALSE]
  /\ server = "serving"
  /\ conn = [c \in Clients |-> [pc |-> "none", shut |-> FALSE, wire |-> <<>>]]
  /\ stream = [c \in Clients |-> [cursor |-> 0, queue |-> <<>>, failure |-> "none",
                                  closed |-> FALSE, watcher |-> "none"]]
  /\ client \in [Clients -> [follow : BOOLEAN, state : {"new"}, from : Starts,
                              got : {<<>>}, final : {FALSE}]]

-----------------------------------------------------------------------------
(* The Run: its writer thread appends lines, then its terminal is written. *)

\* append_text: one line, through as many writes as the kernel wants; another
\* reader of the file may see the line before its last byte, or its newline.
AppendPart ==
  /\ run.ledger = "open" /\ file.tail # "whole" /\ file.lines < MaxEvents
  /\ \E tail \in IF file.tail = "none" THEN {"fragment", "whole"} ELSE {"whole"} :
       file' = [file EXCEPT !.tail = tail]
  /\ UNCHANGED <<run, server, conn, stream, client>>

AppendRest ==
  /\ run.ledger = "open" /\ file.tail = "whole"
  /\ file' = [lines |-> file.lines + 1, tail |-> "none"]
  /\ UNCHANGED <<run, server, conn, stream, client>>

\* A write that fails ends the ledger and leaves what was written.
AppendFails ==
  /\ run.ledger = "open" /\ file.tail # "none"
  /\ run' = [run EXCEPT !.ledger = "failed"]
  /\ UNCHANGED <<file, server, conn, stream, client>>

CloseLedger ==
  /\ run.ledger = "open" /\ file.tail = "none"
  /\ run' = [run EXCEPT !.ledger = "closed"]
  /\ UNCHANGED <<file, server, conn, stream, client>>

\* finalize writes the terminal after the ledger's close; the emergency cleanup
\* that a second cancellation or the finalization timeout starts does not wait
\* for it, and the writer thread may go on.
Finalize ==
  /\ run.registered /\ run.terminal = "absent"
  /\ run' = [run EXCEPT !.terminal = "trusted", !.orderly = (run.ledger # "open")]
  /\ UNCHANGED <<file, server, conn, stream, client>>

\* The registry's task ends and its entry goes.
Unregister ==
  /\ run.registered /\ (run.terminal # "absent" \/ run.cancelled)
  /\ run' = [run EXCEPT !.registered = FALSE]
  /\ UNCHANGED <<file, server, conn, stream, client>>

\* Something outside the daemon damages result.json.
Damage ==
  /\ run.terminal = "trusted"
  /\ run' = [run EXCEPT !.terminal = "invalid"]
  /\ UNCHANGED <<file, server, conn, stream, client>>

-----------------------------------------------------------------------------
(* _read_events_page *)

Smaller(a, b) == IF a < b THEN a ELSE b

\* A line without its newline yet is a line to the reader.
Visible == file.lines + (IF file.tail = "whole" THEN 1 ELSE 0)

\* The events of a range that do not fit the response budget behind those before.
Oversized(from, last) ==
  {k \in from + 1..last :
     k \in Wide \/ (k \in Heavy /\ \E j \in Heavy : from < j /\ j < k)}

\* The last event of a page: the limit, the file's end, or the response budget,
\* which lets an event that exceeds it through alone, as a truncation marker.
PageEnd(from) ==
  LET last == Smaller(from + PageLimit, Visible)
      wide == Oversized(from, last) IN
  IF Visible <= from THEN from
  ELSE IF from + 1 \in Wide THEN from + 1
  ELSE IF wide = {} THEN last
  ELSE (CHOOSE k \in wide : \A j \in wide : k <= j) - 1

Page(from) == [i \in 1..(PageEnd(from) - from) |-> from + i]

\* The reader gets to the end of the file, and judges an unfinished line there.
ReachesEnd(from) ==
  /\ PageEnd(from) - from < PageLimit /\ PageEnd(from) >= Visible
  /\ ~(from < Visible /\ from + 1 \in Wide)

Corrupt(from) == ReachesEnd(from) /\ file.tail = "fragment"

\* Not stopped early, and fewer events than the limit.
Exhausted(from) == ReachesEnd(from)

-----------------------------------------------------------------------------
(* The connection: ArsdServer._serve_connection and _request_loop *)

\* The Clients' connections in ArsdServer._writers.  Connections of others may
\* hold the rest of max_connections.
Slots == {c \in Clients : conn[c].pc \in {"loop", "wait", "drain", "last", "finish"}}

Flushed(c) == Len(conn[c].wire) <= Window
Hungup(c) == client[c].state \in {"failed", "left", "completed"}

\* The transport is gone: the peer hung up, or aclose() closed it and its buffer
\* is flushed.  What is written after the close is dropped.
Lost(c) == Hungup(c) \/ (conn[c].shut /\ Flushed(c))
Write(c, frame) == IF conn[c].shut THEN conn[c].wire ELSE Append(conn[c].wire, frame)

Goto(c, pc) == conn' = [conn EXCEPT ![c].pc = pc]
Send(c, frame, pc) == conn' = [conn EXCEPT ![c].pc = pc, ![c].wire = Write(c, frame)]

Connect(c) ==
  /\ client[c].state = "new"
  /\ IF server = "serving"
     THEN Goto(c, "accepted") /\ client' = [client EXCEPT ![c].state = "idle"]
     ELSE UNCHANGED conn /\ client' = [client EXCEPT ![c].state = "failed"]
  /\ UNCHANGED <<file, run, server, stream>>

Serve(c) ==
  /\ conn[c].pc = "accepted"
  /\ \/ server = "serving" /\ Goto(c, "loop")
     \/ server = "serving" /\ Send(c, ErrorFrame("CAPACITY"), "refused")
     \/ server # "serving" /\ Send(c, ErrorFrame("SHUTTING_DOWN"), "refused")
  /\ UNCHANGED <<file, run, server, stream, client>>

\* The client sends run_events; a pager asks on from where it is, and notes
\* whether run_status has shown it a terminal before.
Ask(c) ==
  /\ client[c].state = "idle"
  /\ client' = [client EXCEPT ![c].state = IF client[c].follow THEN "following" ELSE "asked",
                              ![c].final = (run.terminal = "trusted")]
  /\ UNCHANGED <<file, run, server, conn, stream>>

Position(c) == client[c].from + Len(client[c].got)

\* _run_events: a page, or a stream whose watcher the iteration starts.
Handle(c) ==
  /\ conn[c].pc = "loop" /\ client[c].state \in {"asked", "following"} /\ ~conn[c].shut
  /\ conn[c].wire = <<>>
  /\ IF server # "serving"
     THEN Send(c, ErrorFrame("SHUTTING_DOWN"), "last") /\ UNCHANGED stream
     ELSE IF client[c].follow
     THEN /\ stream' = [stream EXCEPT ![c].cursor = client[c].from, ![c].watcher = "read"]
          /\ Goto(c, "wait")
     ELSE /\ Send(c, IF Corrupt(Position(c)) THEN ErrorFrame("CORRUPT")
                     ELSE [events |-> Page(Position(c)), code |-> "none",
                           exhausted |-> Exhausted(Position(c))], "drain")
          /\ UNCHANGED stream
  /\ UNCHANGED <<file, run, server, client>>

LoopEnds(c) ==
  /\ conn[c].pc = "loop" /\ Lost(c)
  /\ Goto(c, "finish")
  /\ UNCHANGED <<file, run, server, stream, client>>

\* drain() returns; a lost transport ends the connection.
Drained(c) ==
  /\ conn[c].pc \in {"drain", "last", "refused"} /\ (Flushed(c) \/ Lost(c))
  /\ Goto(c, IF conn[c].pc = "refused" THEN "gone"
             ELSE IF conn[c].pc = "last" \/ Lost(c) THEN "finish"
             ELSE IF client[c].follow THEN "wait" ELSE "loop")
  /\ UNCHANGED <<file, run, server, stream, client>>

-----------------------------------------------------------------------------
(* EventFollowStream *)

\* _fail: the first failure stands.
Fail(c, code) ==
  stream' = [stream EXCEPT ![c].failure = IF @ = "none" THEN code ELSE @,
                           ![c].watcher = "done"]

\* put_nowait of each event in turn, with no await between: how many fit.
Room(c) == QueueSize - Len(stream[c].queue)

\* Mutant: a terminal ends the stream with the page that was just queued.
AfterPageNow(events) ==
  IF run.terminal = "trusted" THEN "end"
  ELSE IF run.terminal = "invalid" THEN "contain" ELSE "idle"

\* What the watcher does after a page it queued whole: end, contain, or wait.
AfterPage(events) ==
  IF run.terminal = "trusted" /\ events = <<>> THEN "end"
  ELSE IF run.terminal = "invalid" THEN "contain" ELSE "idle"

\* Mutant: the cursor stays behind what was queued.
EnqueueAgain(c, events) ==
  IF Len(events) > Room(c)
  THEN Fail(c, "BACKLOG")
  ELSE stream' = [stream EXCEPT ![c].queue = @ \o events,
                                ![c].watcher = AfterPage(events)]

\* QueueFull fails the subscription.
Enqueue(c, events) ==
  IF Len(events) > Room(c)
  THEN Fail(c, "BACKLOG")
  ELSE stream' = [stream EXCEPT ![c].queue = @ \o events,
                                ![c].cursor = @ + Len(events),
                                ![c].watcher = AfterPage(events)]

\* One turn of _watch: a page read in one go, its events queued, the terminal
\* inspected after it.  An INVALID one is contained before it is reported.
WatchPage(c) ==
  /\ stream[c].watcher = "read"
  /\ IF Corrupt(stream[c].cursor) THEN Fail(c, "CORRUPT")
     ELSE Enqueue(c, Page(stream[c].cursor))
  /\ run' = [run EXCEPT !.cancelled = @ \/ stream'[c].watcher = "contain"]
  /\ UNCHANGED <<file, server, conn, client>>

\* The idle wait times out.
WatchAgain(c) ==
  /\ stream[c].watcher = "idle"
  /\ stream' = [stream EXCEPT ![c].watcher = "read"]
  /\ UNCHANGED <<file, run, server, conn, client>>

\* queue.put(None) waits for room.
WatchEnd(c) ==
  /\ stream[c].watcher = "end" /\ Room(c) > 0
  /\ stream' = [stream EXCEPT ![c].queue = Append(@, End), ![c].watcher = "done"]
  /\ UNCHANGED <<file, run, server, conn, client>>

\* _contain_invalid_terminal cancelled the Run and has waited for its entry to go.
WatchContained(c) ==
  /\ stream[c].watcher = "contain" /\ ~run.registered
  /\ Fail(c, "UNTRUSTED")
  /\ UNCHANGED <<file, run, server, conn, client>>

\* Mutant: __anext__ waits for the queue only, and looks at the failure then.
NextUnwoken(c) ==
  /\ conn[c].pc = "wait" /\ ~Lost(c) /\ stream[c].queue # <<>>
  /\ stream' = [stream EXCEPT ![c].queue = Tail(@)]
  /\ IF stream[c].failure # "none" THEN Send(c, ErrorFrame(stream[c].failure), "last")
     ELSE IF Head(stream[c].queue) = End THEN Goto(c, "finish")
     ELSE Send(c, EventFrame(Head(stream[c].queue)), "drain")
  /\ UNCHANGED <<file, run, server, client>>

\* __anext__, in _emit_stream: a failure goes before what is queued; an event is
\* written as a frame of its own; the None, and a closed and empty stream, end it.
NextItem(c) ==
  /\ conn[c].pc = "wait" /\ ~Lost(c)
  /\ \/ /\ stream[c].failure # "none"
        /\ Send(c, ErrorFrame(stream[c].failure), "last")
        /\ UNCHANGED stream
     \/ /\ stream[c].failure = "none" /\ stream[c].queue # <<>>
        /\ stream' = [stream EXCEPT ![c].queue = Tail(@)]
        /\ IF Head(stream[c].queue) = End THEN Goto(c, "finish")
           ELSE Send(c, EventFrame(Head(stream[c].queue)), "drain")
  /\ UNCHANGED <<file, run, server, client>>

\* reader.read(1) returns: the peer is gone, and the item waited for is dropped.
PeerEof(c) ==
  /\ conn[c].pc = "wait" /\ Lost(c)
  /\ Goto(c, "finish")
  /\ UNCHANGED <<file, run, server, stream, client>>

\* Mutant: the close waits for the watcher to end by itself.
FinishWaits(c) ==
  /\ conn[c].pc = "finish" /\ stream[c].watcher \in {"none", "done"}
  /\ stream' = [stream EXCEPT ![c].closed = TRUE, ![c].watcher = "done"]
  /\ Goto(c, "gone")
  /\ UNCHANGED <<file, run, server, client>>

\* aclose, then the connection is closed.  A watcher that contains an invalid
\* terminal is waited for; any other one is cancelled.
Finish(c) ==
  /\ conn[c].pc = "finish" /\ stream[c].watcher # "contain"
  /\ stream' = [stream EXCEPT ![c].closed = TRUE, ![c].watcher = "done"]
  /\ Goto(c, "gone")
  /\ UNCHANGED <<file, run, server, client>>

-----------------------------------------------------------------------------
(* The client *)

\* _read_frame and _parse_result_frame: an error frame closes the client.
ClientRead(c) ==
  /\ conn[c].wire # <<>> /\ ~Hungup(c)
  /\ LET frame == Head(conn[c].wire) IN
     client' = [client EXCEPT
                  ![c].got = @ \o frame.events,
                  ![c].state = IF frame.code # "none" THEN "failed"
                               ELSE IF client[c].follow THEN @
                               ELSE IF frame.exhausted /\ client[c].final THEN "completed"
                               ELSE "idle"]
  /\ conn' = [conn EXCEPT ![c].wire = Tail(@)]
  /\ UNCHANGED <<file, run, server, stream>>

\* A clean end of file completes a subscription, and fails a roundtrip.
ClientEof(c) ==
  /\ conn[c].wire = <<>> /\ ~Hungup(c)
  /\ conn[c].pc = "gone" \/ (conn[c].shut /\ conn[c].pc # "none")
  /\ client' = [client EXCEPT ![c].state = IF @ = "following" THEN "completed" ELSE "failed"]
  /\ UNCHANGED <<file, run, server, conn, stream>>

\* close(), or a break out of the iteration.
ClientLeaves(c) ==
  /\ client[c].state \in {"idle", "asked", "following"}
  /\ client' = [client EXCEPT ![c].state = "left"]
  /\ UNCHANGED <<file, run, server, conn, stream>>

-----------------------------------------------------------------------------
(* The shutdown lifecycle: listener, connections, handlers *)

Shutdown ==
  /\ server = "serving" /\ server' = "shutdown"
  /\ UNCHANGED <<file, run, conn, stream, client>>

\* After the straggler window, ArsdServer.aclose closes every writer it holds.
CloseWriters ==
  /\ server = "shutdown" /\ server' = "closing"
  /\ conn' = [c \in Clients |-> [conn[c] EXCEPT !.shut = @ \/ c \in Slots]]
  /\ UNCHANGED <<file, run, stream, client>>

\* ... waits for their tasks, and the handlers cancel the Runs.
ConnectionsDone ==
  /\ server = "closing" /\ \A c \in Clients : conn[c].pc \in {"none", "gone"}
  /\ server' = "handlers"
  /\ run' = [run EXCEPT !.cancelled = TRUE]
  /\ UNCHANGED <<file, conn, stream, client>>

Idle ==
  /\ server = "handlers" /\ ~run.registered
  /\ server' = "down"
  /\ UNCHANGED <<file, run, conn, stream, client>>

Writer == AppendPart \/ AppendRest \/ AppendFails \/ CloseLedger \/ Finalize \/ Unregister
          \/ Damage
Connection(c) == Serve(c) \/ Handle(c) \/ LoopEnds(c) \/ Drained(c) \/ NextItem(c)
                 \/ PeerEof(c) \/ Finish(c)
Watcher(c) == WatchPage(c) \/ WatchAgain(c) \/ WatchEnd(c) \/ WatchContained(c)
Caller(c) == Connect(c) \/ Ask(c) \/ ClientRead(c) \/ ClientEof(c) \/ ClientLeaves(c)
Lifecycle == CloseWriters \/ ConnectionsDone \/ Idle

Next ==
  \/ Writer \/ Shutdown \/ Lifecycle
  \/ \E c \in Clients : Connection(c) \/ Watcher(c) \/ Caller(c)

Spec == Init /\ [][Next]_vars

\* The event loop runs what is ready.  Nothing is assumed of the peers, which may
\* stop reading at any time, nor of the Run, which may never end.
FairSpec ==
  /\ Spec /\ WF_vars(Lifecycle)
  /\ \A c \in Clients : WF_vars(Connection(c)) /\ WF_vars(Watcher(c))

-----------------------------------------------------------------------------
(* Properties *)

\* A reader has the events that follow its from_seq, in order, each once, none
\* left out, and never one that is not in the file as a whole line.
GapFree ==
  \A c \in Clients :
    /\ client[c].got = [i \in 1..Len(client[c].got) |-> client[c].from + i]
    /\ client[c].got # <<>> => Position(c) <= Visible

Complete(c) == client[c].from >= file.lines \/ Position(c) >= file.lines

\* A reader whom the daemon told that there is no more, the follower by the end
\* of its stream and the pager by an exhausted page asked for after the terminal,
\* has every event of the Run, unless the terminal was an emergency's, or a
\* shutdown closed the follower's connection.
ToldOnlyWhenComplete ==
  \A c \in Clients :
    client[c].state = "completed" /\ run.orderly /\ ~conn[c].shut => Complete(c)

\* The connection waits in drain() for a peer that is there and does not read.
Stalled(c) == conn[c].pc \in {"drain", "last", "refused"} /\ ~Flushed(c) /\ ~Lost(c)

\* A cancelled Run whose task does not end.
RunStays == run.cancelled /\ run.registered

\* A follower of a Run with a terminal comes to an end, whatever it is behind, if
\* it goes on reading and the Run, where its terminal must be contained, ends.
FollowersEnd ==
  \A c \in Clients :
    WF_vars(ClientRead(c) \/ ClientEof(c))
      => \/ <>[]RunStays
         \/ (client[c].state = "following" /\ conn[c].pc = "wait"
             /\ run.terminal # "absent")
               ~> client[c].state \in {"completed", "failed", "left"}

\* A shutdown ends unless the cancelled Run never does, or a peer stops reading for
\* ever with more sent to it than its socket takes: aclose() closes the writers
\* and waits for their tasks, with neither an abort nor a deadline.
ShutdownEnds ==
  \/ \E c \in Clients : <>[]Stalled(c)
  \/ <>[]RunStays
  \/ (server = "shutdown") ~> (server = "down")

=============================================================================
