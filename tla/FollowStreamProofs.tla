-------------------------- MODULE FollowStreamProofs --------------------------
(***************************************************************************)
(* What is proved about FollowStream, for any clients, files, page limits, *)
(* queue sizes and windows: a reader has no gap, and is told that there is *)
(* no more only when it has everything.  Both rest on where the events     *)
(* between the file and the reader are: got, on the wire, queued, and      *)
(* behind the watcher's cursor, they are one run of consecutive numbers.   *)
(***************************************************************************)
EXTENDS FollowStream, SequenceTheorems, WellFoundedInduction, TLAPS

Frame == [events : Seq(Nat), exhausted : BOOLEAN, code : Codes \cup {"none"}]
Conn == [pc : {"none", "accepted", "loop", "wait", "drain", "last", "refused", "finish", "gone"},
         shut : BOOLEAN, wire : Seq(Frame)]
Stream == [cursor : Nat, queue : Seq(Nat), failure : Codes \cup {"none"}, closed : BOOLEAN,
           watcher : {"none", "read", "end", "contain", "idle", "done"}]
Reader == [follow : BOOLEAN,
           state : {"new", "idle", "asked", "following", "completed", "failed", "left"},
           from : Nat, got : Seq(Nat), final : BOOLEAN]

Typed ==
  /\ file \in [lines : Nat, tail : {"none", "fragment", "whole"}]
  /\ run \in [ledger : {"open", "failed", "closed"}, orderly : BOOLEAN,
              terminal : {"absent", "trusted", "invalid"},
              registered : BOOLEAN, cancelled : BOOLEAN]
  /\ conn \in [Clients -> Conn] /\ stream \in [Clients -> Stream]
  /\ client \in [Clients -> Reader]

\* An orderly terminal is written after the ledger ended.
Orderly == run.orderly => run.terminal # "absent" /\ run.ledger # "open"

\* The terminal is there, and if it was orderly, the file ends at n or before.
Settled(n) == run.terminal # "absent" /\ (run.orderly => file.lines <= n)

\* Where a reader m is in the file.
At(m) == m.from + Len(m.got)
Ended(m) == m.state \in {"failed", "left", "completed"}

\* What a reader has is a run of events that are in the file.
Got(m) ==
  /\ \A i \in 1..Len(m.got) : m.got[i] = m.from + i
  /\ m.got # <<>> => At(m) <= Visible
  /\ m.final => run.terminal # "absent"

\* The connection k of a reader m, before it serves anything and after.
InStep(k, s, m) ==
  /\ m.state = "new" => k.pc = "none"
  /\ m.state = "asked" => ~m.follow
  /\ m.state = "following" => m.follow
  /\ k.pc \in {"none", "accepted"} => k.wire = <<>> /\ ~k.shut
  /\ k.pc \in {"none", "accepted", "loop"} /\ m.follow =>
       k.wire = <<>> /\ m.got = <<>> /\ s.queue = <<>> /\ s.watcher = "none"
  /\ k.pc = "wait" => m.follow
  /\ ~m.follow => Len(k.wire) <= 1

\* A frame with an error code is the last one; the others hold what follows what
\* the reader has.
OnWire(k, m) ==
  \A i \in 1..Len(k.wire) :
    /\ k.wire[i].code # "none" =>
         /\ i = Len(k.wire) /\ k.wire[i].events = <<>>
         /\ m.follow => k.pc \notin {"wait", "drain"}
    /\ k.wire[i].code = "none" /\ m.follow =>
         k.wire[i].events = <<At(m) + i>> /\ At(m) + i <= Visible
    /\ k.wire[i].code = "none" /\ ~m.follow =>
         /\ \A j \in 1..Len(k.wire[i].events) : k.wire[i].events[j] = At(m) + j
         /\ k.wire[i].events # <<>> => At(m) + Len(k.wire[i].events) <= Visible
         /\ m.state \notin {"new", "idle"}
         /\ k.wire[i].exhausted /\ m.final => Settled(At(m) + Len(k.wire[i].events))

HasEnd(s) == Len(s.queue) > 0 /\ s.queue[Len(s.queue)] = End

\* The queue of a subscription goes on where the wire ends, and the cursor where
\* the queue ends.
InQueue(k, s, m) ==
  m.follow /\ ~k.shut /\ k.pc \in {"wait", "drain"} =>
    /\ \A j \in 1..Len(s.queue) :
         IF s.queue[j] = End THEN j = Len(s.queue)
         ELSE s.queue[j] = At(m) + Len(k.wire) + j /\ s.queue[j] <= Visible
    /\ HasEnd(s) => s.watcher = "done" /\ s.cursor + 1 = At(m) + Len(k.wire) + Len(s.queue)
    /\ ~HasEnd(s) => s.cursor = At(m) + Len(k.wire) + Len(s.queue)
    /\ HasEnd(s) \/ s.watcher = "end" => Settled(s.cursor)

\* A connection that ends has an error as its last frame, or has sent it all.
LastWord(k, m) ==
  ~k.shut /\ ~Ended(m) =>
    /\ k.pc \in {"last", "refused"} =>
         k.wire # <<>> /\ k.wire[Len(k.wire)].code # "none"
    /\ k.pc \in {"finish", "gone"} /\ m.follow =>
         \/ k.wire # <<>> /\ k.wire[Len(k.wire)].code # "none"
         \/ Settled(At(m) + Len(k.wire))

Told(k, m) == m.state = "completed" /\ ~k.shut => Settled(At(m))

Holds(k, s, m) ==
  Got(m) /\ InStep(k, s, m) /\ OnWire(k, m) /\ InQueue(k, s, m) /\ LastWord(k, m) /\ Told(k, m)

StreamInvariant ==
  Typed /\ Orderly /\ \A c \in Clients : Holds(conn[c], stream[c], client[c])

-----------------------------------------------------------------------------
(* Sequences *)

\* An item at the end of a queue.
LEMMA AppendLemma ==
  ASSUME NEW S, NEW q \in Seq(S), NEW f \in S
  PROVE  /\ Append(q, f) \in Seq(S) /\ Len(Append(q, f)) = Len(q) + 1 /\ Len(q) \in Nat
         /\ \A i \in 1..Len(q) : Append(q, f)[i] = q[i]
         /\ Append(q, f)[Len(q) + 1] = f
         /\ \A i \in 1..(Len(q) + 1) : i \in 1..Len(q) \/ i = Len(q) + 1
OBVIOUS

\* An item gone from the front of a queue.
LEMMA TailLemma ==
  ASSUME NEW S, NEW q \in Seq(S), q # <<>>
  PROVE  /\ Tail(q) \in Seq(S) /\ Len(Tail(q)) = Len(q) - 1 /\ Len(q) \in Nat \ {0}
         /\ \A i \in 1..Len(Tail(q)) : Tail(q)[i] = q[i + 1] /\ i + 1 \in 1..Len(q)
         /\ Head(q) = q[1] /\ q[1] \in S /\ 1 \in 1..Len(q)
OBVIOUS

\* Two queues, one behind the other.
LEMMA ConcatLemma ==
  ASSUME NEW S, NEW q \in Seq(S), NEW r \in Seq(S)
  PROVE  /\ q \o r \in Seq(S) /\ Len(q \o r) = Len(q) + Len(r) /\ Len(q) \in Nat /\ Len(r) \in Nat
         /\ \A i \in 1..Len(q) : (q \o r)[i] = q[i]
         /\ \A i \in 1..Len(q \o r) :
              i \in 1..Len(q) \/ (i - Len(q) \in 1..Len(r) /\ (q \o r)[i] = r[i - Len(q)])
OBVIOUS

-----------------------------------------------------------------------------
(* The page reader *)

\* A set of numbers that is not empty has a least one.
LEMMA LeastLemma ==
  ASSUME NEW T, T \subseteq Nat, T # {}
  PROVE  \E k \in T : \A j \in T : k <= j
<1>1. PICK m \in T : \A y \in T : ~(<<y, m>> \in OpToRel(<, Nat))
  BY NatLessThanWellFounded, WFMin, Zenon
<1>2. \A y \in T : ~(y < m)
  BY <1>1 DEF OpToRel
<1>3. QED
  BY <1>2

\* A page begins after from and ends within the file; it is empty only where the
\* file ends.
LEMMA PageEndLemma ==
  ASSUME Typed, NEW from \in Nat
  PROVE  /\ PageEnd(from) \in Nat /\ from <= PageEnd(from) /\ Visible \in Nat
         /\ PageEnd(from) # from => PageEnd(from) <= Visible
         /\ PageEnd(from) = from => Visible <= from
         /\ file.lines <= Visible
<1>1. PICK v \in Nat : v = Visible
  BY DEF Typed, Visible
<1>2. file.lines <= v
  BY <1>1 DEF Typed, Visible
<1>3. PageLimit \in Nat \ {0} /\ Wide \subseteq Nat
  BY ReadersAssumption
<1>4. PICK last \in Nat : last = Smaller(from + PageLimit, v)
  BY <1>3 DEF Smaller
<1>5. last <= v /\ (from < v => from < last)
  BY <1>3, <1>4 DEF Smaller
<1>6. PICK w : w = Oversized(from, last)
  OBVIOUS
<1>7. PageEnd(from) = IF v <= from THEN from ELSE IF from + 1 \in Wide THEN from + 1
                      ELSE IF w = {} THEN last
                      ELSE (CHOOSE k \in w : \A j \in w : k <= j) - 1
  BY <1>1, <1>4, <1>6 DEF PageEnd
<1>8. CASE v <= from \/ from + 1 \in Wide \/ w = {}
  BY <1>1, <1>2, <1>5, <1>7, <1>8
<1>9. CASE ~(v <= from) /\ from + 1 \notin Wide /\ w # {}
  <2>1. /\ w \subseteq Nat
        /\ \A k \in w : from < k /\ k <= last /\ (k = from + 1 => k \in Wide)
    <3>1. Heavy \subseteq Nat
      BY ReadersAssumption
    <3>2. \A k \in w : /\ k \in from + 1..last
                       /\ k \in Wide \/ \E j \in Heavy : from < j /\ j < k
      BY <1>6 DEF Oversized
    <3>3. QED
      BY <3>1, <3>2
  <2>2. PICK n : n = (CHOOSE k \in w : \A j \in w : k <= j)
    OBVIOUS
  <2>3. n \in w
    BY <1>9, <2>1, <2>2, LeastLemma
  <2>4. n \in Nat /\ from < n /\ n # from + 1 /\ n <= v
    BY <1>5, <1>9, <2>1, <2>3
  <2>5. PageEnd(from) = n - 1
    BY <1>7, <1>9, <2>2
  <2>6. QED
    BY <1>1, <1>2, <1>9, <2>4, <2>5
<1>10. QED
  BY <1>8, <1>9

LEMMA PageLemma ==
  ASSUME Typed, NEW from \in Nat
  PROVE  /\ Page(from) \in Seq(Nat)
         /\ \A j \in 1..Len(Page(from)) : Page(from)[j] = from + j
         /\ Page(from) # <<>> => from + Len(Page(from)) <= Visible
         /\ Page(from) = <<>> => file.lines <= from
         /\ Exhausted(from) => file.lines <= from + Len(Page(from))
<1>1. PICK n \in Nat : n = PageEnd(from) - from
  BY PageEndLemma
<1>2. Page(from) = [i \in 1..n |-> from + i]
  BY <1>1 DEF Page
<1>3. \A i \in 1..n : from + i \in Nat
  OBVIOUS
<1>4. [i \in 1..n |-> from + i] \in Seq(Nat) /\ Len([i \in 1..n |-> from + i]) = n
  BY <1>3
<1>5. PICK q \in Seq(Nat) : q = Page(from) /\ Len(q) = n /\ \A j \in 1..n : q[j] = from + j
  BY <1>2, <1>4
<1>6. q = <<>> <=> n = 0
  BY <1>5
<1>7. PICK e \in Nat : e = PageEnd(from)
  BY PageEndLemma
<1>8. e = from + n
  BY <1>1, <1>7, PageEndLemma
<1>9. Exhausted(from) => e >= Visible
  BY <1>7 DEF Exhausted, ReachesEnd
<1>10. /\ Visible \in Nat /\ file.lines \in Nat /\ file.lines <= Visible
       /\ e # from => e <= Visible
       /\ e = from => Visible <= from
  BY <1>7, PageEndLemma DEF Typed
<1>11. QED
  BY <1>5, <1>6, <1>8, <1>9, <1>10

-----------------------------------------------------------------------------
(* The Run goes on: what was true of a reader stays true *)

\* The file only grows, and not any more once an orderly terminal is there.
Steady ==
  /\ Visible \in Nat /\ Visible' \in Nat /\ Visible <= Visible'
  /\ run.terminal # "absent" => run'.terminal # "absent"
  /\ \A n \in Nat : Settled(n) => Settled(n)'

LEMMA KeepLemma ==
  ASSUME Steady, NEW k \in Conn, NEW s \in Stream, NEW m \in Reader, Holds(k, s, m)
  PROVE  Holds(k, s, m)'
<1>1. PICK p \in Nat : p = At(m)
  BY DEF At, Reader
<1>2. k.wire \in Seq(Frame) /\ s.queue \in Seq(Nat) /\ s.cursor \in Nat
  BY DEF Conn, Stream
<1>3. Visible \in Nat /\ Visible' \in Nat /\ Visible <= Visible'
      /\ (run.terminal # "absent" => run'.terminal # "absent")
      /\ \A n \in Nat : Settled(n) => Settled(n)'
  BY DEF Steady
<1>4. Got(m)'
  BY <1>1, <1>3 DEF Holds, Got, At
<1>5. InStep(k, s, m)'
  BY DEF Holds, InStep
<1>6. OnWire(k, m)'
  <2>1. ASSUME NEW i \in 1..Len(k.wire)
        PROVE  /\ k.wire[i].code # "none" =>
                    /\ i = Len(k.wire) /\ k.wire[i].events = <<>>
                    /\ m.follow => k.pc \notin {"wait", "drain"}
               /\ k.wire[i].code = "none" /\ m.follow =>
                    k.wire[i].events = <<p + i>> /\ p + i <= Visible'
               /\ k.wire[i].code = "none" /\ ~m.follow =>
                    /\ \A j \in 1..Len(k.wire[i].events) : k.wire[i].events[j] = p + j
                    /\ k.wire[i].events # <<>> => p + Len(k.wire[i].events) <= Visible'
                    /\ m.state \notin {"new", "idle"}
                    /\ k.wire[i].exhausted /\ m.final =>
                         Settled(p + Len(k.wire[i].events))'
    <3>1. k.wire[i] \in Frame
      BY <1>2
    <3>2. Len(k.wire[i].events) \in Nat
      BY <3>1 DEF Frame
    <3>3. PICK n \in Nat : n = p + Len(k.wire[i].events)
      BY <3>2
    <3>4. n <= Visible => n <= Visible'
      BY <1>3
    <3>5. Settled(n) => Settled(n)'
      BY <1>3
    <3>6. QED
      BY <1>1, <1>3, <3>3, <3>4, <3>5 DEF Holds, OnWire
  <2>2. QED
    BY <1>1, <2>1 DEF OnWire, At
<1>7. InQueue(k, s, m)'
  <2>1. \A j \in 1..Len(s.queue) : s.queue[j] <= Visible => s.queue[j] <= Visible'
    BY <1>2, <1>3
  <2>2. Settled(s.cursor) => Settled(s.cursor)'
    BY <1>2, <1>3
  <2>3. QED
    BY <2>1, <2>2 DEF Holds, InQueue, HasEnd, At
<1>8. LastWord(k, m)'
  <2>1. PICK n \in Nat : n = At(m) + Len(k.wire)
    BY <1>1, <1>2
  <2>2. Settled(n) => Settled(n)'
    BY <1>3
  <2>3. QED
    BY <2>1, <2>2 DEF Holds, LastWord, Ended, At
<1>9. Told(k, m)'
  <2>1. Settled(p) => Settled(p)'
    BY <1>3
  <2>2. QED
    BY <1>1, <2>1 DEF Holds, Told, At
<1>10. QED
  BY <1>4, <1>5, <1>6, <1>7, <1>8, <1>9 DEF Holds

\* Readers whose connection, stream and state did not change.
LEMMA KeepAllLemma ==
  ASSUME StreamInvariant, Steady, UNCHANGED <<conn, stream, client>>
  PROVE  \A c \in Clients : Holds(conn[c], stream[c], client[c])'
<1> SUFFICES ASSUME NEW c \in Clients
             PROVE  Holds(conn[c], stream[c], client[c])'
  OBVIOUS
<1>1. PICK k \in Conn : k = conn[c]
  BY DEF StreamInvariant, Typed
<1>2. PICK s \in Stream : s = stream[c]
  BY DEF StreamInvariant, Typed
<1>3. PICK m \in Reader : m = client[c]
  BY DEF StreamInvariant, Typed
<1>4. Holds(k, s, m)
  BY <1>1, <1>2, <1>3 DEF StreamInvariant
<1>5. Holds(k, s, m)'
  BY <1>4, KeepLemma
<1>6. k = conn'[c] /\ s = stream'[c] /\ m = client'[c]
  BY <1>1, <1>2, <1>3
<1>7. QED
  BY <1>5, <1>6

\* The Run's own steps: its writer thread, its terminal, its registry entry.
LEMMA WriterLemma ==
  ASSUME StreamInvariant, Writer
  PROVE  StreamInvariant'
<1>1. UNCHANGED <<conn, stream, client>>
  BY DEF Writer, AppendPart, AppendRest, AppendFails, CloseLedger, Finalize, Unregister, Damage
<1>2. /\ file \in [lines : Nat, tail : {"none", "fragment", "whole"}]
      /\ run \in [ledger : {"open", "failed", "closed"}, orderly : BOOLEAN,
                  terminal : {"absent", "trusted", "invalid"},
                  registered : BOOLEAN, cancelled : BOOLEAN]
      /\ Orderly
  BY DEF StreamInvariant, Typed
<1>3. /\ file' \in [lines : Nat, tail : {"none", "fragment", "whole"}]
      /\ run' \in [ledger : {"open", "failed", "closed"}, orderly : BOOLEAN,
                   terminal : {"absent", "trusted", "invalid"},
                   registered : BOOLEAN, cancelled : BOOLEAN]
      /\ Orderly' /\ Steady
  <2>1. CASE AppendPart
    <3>1. /\ file' \in [lines : Nat, tail : {"none", "fragment", "whole"}] /\ run' = run
          /\ file'.lines = file.lines /\ file.tail # "whole" /\ run.ledger = "open"
      BY <1>2, <2>1 DEF AppendPart
    <3>2. QED
      BY <1>2, <3>1 DEF Orderly, Steady, Settled, Visible
  <2>2. CASE AppendRest
    <3>1. /\ file' \in [lines : Nat, tail : {"none", "fragment", "whole"}] /\ run' = run
          /\ file'.lines = file.lines + 1 /\ file.tail = "whole" /\ file'.tail = "none"
          /\ run.ledger = "open"
      BY <1>2, <2>2 DEF AppendRest
    <3>2. QED
      BY <1>2, <3>1 DEF Orderly, Steady, Settled, Visible
  <2>3. CASE AppendFails \/ CloseLedger
    BY <1>2, <2>3 DEF AppendFails, CloseLedger, Orderly, Steady, Settled, Visible
  <2>4. CASE Finalize
    <3>1. /\ run' \in [ledger : {"open", "failed", "closed"}, orderly : BOOLEAN,
                       terminal : {"absent", "trusted", "invalid"},
                       registered : BOOLEAN, cancelled : BOOLEAN]
          /\ file' = file /\ run.terminal = "absent" /\ run'.terminal = "trusted"
          /\ run'.ledger = run.ledger /\ run'.orderly = (run.ledger # "open")
      BY <1>2, <2>4 DEF Finalize
    <3>2. QED
      BY <1>2, <3>1 DEF Orderly, Steady, Settled, Visible
  <2>5. CASE Unregister \/ Damage
    <3>1. /\ run' \in [ledger : {"open", "failed", "closed"}, orderly : BOOLEAN,
                       terminal : {"absent", "trusted", "invalid"},
                       registered : BOOLEAN, cancelled : BOOLEAN]
          /\ file' = file /\ (run.terminal # "absent" => run'.terminal # "absent")
          /\ run'.ledger = run.ledger /\ run'.orderly = run.orderly
      BY <1>2, <2>5 DEF Unregister, Damage
    <3>2. QED
      BY <1>2, <3>1 DEF Orderly, Steady, Settled, Visible
  <2>6. QED
    BY <2>1, <2>2, <2>3, <2>4, <2>5 DEF Writer
<1>4. \A c \in Clients : Holds(conn[c], stream[c], client[c])'
  BY <1>1, <1>3, KeepAllLemma
<1>5. Typed'
  BY <1>1, <1>3 DEF StreamInvariant, Typed
<1>6. QED
  BY <1>3, <1>4, <1>5 DEF StreamInvariant

\* A step of the daemon or of a client leaves the file and the terminal alone.
SameRun ==
  /\ file' = file
  /\ run'.terminal = run.terminal /\ run'.orderly = run.orderly /\ run'.ledger = run.ledger
  /\ run' \in [ledger : {"open", "failed", "closed"}, orderly : BOOLEAN,
               terminal : {"absent", "trusted", "invalid"},
               registered : BOOLEAN, cancelled : BOOLEAN]

LEMMA SameRunLemma ==
  ASSUME Typed, Orderly, SameRun
  PROVE  Steady /\ Orderly'
BY DEF Typed, Orderly, SameRun, Steady, Settled, Visible

LEMMA UnchangedRunLemma ==
  ASSUME Typed, UNCHANGED <<file, run>>
  PROVE  SameRun
BY DEF Typed, SameRun

\* A closed connection owes its reader nothing more.
LEMMA ShutLemma ==
  ASSUME NEW k \in Conn, NEW s \in Stream, NEW m \in Reader, Holds(k, s, m),
         k.pc \notin {"none", "accepted"}
  PROVE  Holds([k EXCEPT !.shut = TRUE], s, m)
<1>1. PICK l \in Conn : l = [k EXCEPT !.shut = TRUE]
  BY DEF Conn
<1>2. l.pc = k.pc /\ l.wire = k.wire /\ l.shut = TRUE
  BY <1>1 DEF Conn
<1>3. Got(m) /\ InStep(l, s, m) /\ OnWire(l, m)
  BY <1>2 DEF Holds, InStep, OnWire
<1>4. InQueue(l, s, m) /\ LastWord(l, m) /\ Told(l, m)
  BY <1>2 DEF InQueue, LastWord, Told
<1>5. QED
  BY <1>1, <1>3, <1>4 DEF Holds

LEMMA LifecycleLemma ==
  ASSUME StreamInvariant, Shutdown \/ Lifecycle
  PROVE  StreamInvariant'
<1>1. SameRun /\ UNCHANGED <<stream, client>>
  BY DEF StreamInvariant, Typed, Shutdown, Lifecycle, CloseWriters, ConnectionsDone, Idle, SameRun
<1>2. Steady /\ Orderly'
  BY <1>1, SameRunLemma DEF StreamInvariant
<1>3. CASE UNCHANGED conn
  <2>1. \A c \in Clients : Holds(conn[c], stream[c], client[c])'
    BY <1>1, <1>2, <1>3, KeepAllLemma
  <2>2. Typed'
    BY <1>1, <1>3 DEF StreamInvariant, Typed, SameRun
  <2>3. QED
    BY <1>2, <2>1, <2>2 DEF StreamInvariant
<1>4. CASE CloseWriters
  <2>1. conn \in [Clients -> Conn]
    BY DEF StreamInvariant, Typed
  <2>2. conn' = [c \in Clients |-> [conn[c] EXCEPT !.shut = conn[c].shut \/ c \in Slots]]
    BY <1>4 DEF CloseWriters
  <2>3. ASSUME NEW c \in Clients
        PROVE  conn'[c] \in Conn /\ Holds(conn[c], stream[c], client[c])'
    <3>1. PICK k \in Conn : k = conn[c]
      BY <2>1
    <3>2. PICK s \in Stream : s = stream[c]
      BY DEF StreamInvariant, Typed
    <3>3. PICK m \in Reader : m = client[c]
      BY DEF StreamInvariant, Typed
    <3>4. Holds(k, s, m)
      BY <3>1, <3>2, <3>3 DEF StreamInvariant
    <3>5. PICK l : l = [k EXCEPT !.shut = k.shut \/ c \in Slots]
      OBVIOUS
    <3>6. l \in Conn /\ l = conn'[c]
      BY <2>2, <3>1, <3>5 DEF Conn
    <3>7. l = k \/ (l = [k EXCEPT !.shut = TRUE] /\ k.pc \notin {"none", "accepted"})
      <4>1. CASE c \in Slots
        BY <3>1, <3>5, <4>1 DEF Slots, Conn
      <4>2. CASE c \notin Slots
        BY <3>5, <4>2 DEF Conn
      <4>3. QED
        BY <4>1, <4>2
    <3>8. Holds(l, s, m)
      BY <3>4, <3>7, ShutLemma
    <3>9. Holds(l, s, m)'
      BY <1>2, <3>6, <3>8, KeepLemma
    <3>10. s = stream'[c] /\ m = client'[c]
      BY <1>1, <3>2, <3>3
    <3>11. QED
      BY <3>6, <3>9, <3>10
  <2>4. conn' \in [Clients -> Conn]
    BY <2>2, <2>3
  <2>5. Typed'
    BY <1>1, <2>4 DEF StreamInvariant, Typed, SameRun
  <2>6. QED
    BY <1>2, <2>3, <2>5 DEF StreamInvariant
<1>5. QED
  BY <1>3, <1>4 DEF Shutdown, Lifecycle, ConnectionsDone, Idle

-----------------------------------------------------------------------------
(* One reader's connection, stream and client *)

\* A step of one reader: it is enough that its new records hold.
LEMMA StepLemma ==
  ASSUME StreamInvariant, SameRun, NEW c \in Clients,
         NEW k \in Conn, NEW s \in Stream, NEW m \in Reader,
         conn' = [conn EXCEPT ![c] = k], stream' = [stream EXCEPT ![c] = s],
         client' = [client EXCEPT ![c] = m], Holds(k, s, m)
  PROVE  StreamInvariant'
<1>1. Steady /\ Orderly'
  BY SameRunLemma DEF StreamInvariant
<1>2. /\ conn \in [Clients -> Conn] /\ stream \in [Clients -> Stream]
      /\ client \in [Clients -> Reader] /\ file \in [lines : Nat, tail : {"none", "fragment", "whole"}]
  BY DEF StreamInvariant, Typed
<1>3. ASSUME NEW d \in Clients
      PROVE  Holds(conn[d], stream[d], client[d])'
  <2>1. PICK k2 \in Conn : k2 = conn'[d]
    BY <1>2
  <2>2. PICK s2 \in Stream : s2 = stream'[d]
    BY <1>2
  <2>3. PICK m2 \in Reader : m2 = client'[d]
    BY <1>2
  <2>4. Holds(k2, s2, m2)
    <3>1. CASE d = c
      <4>1. k2 = k /\ s2 = s /\ m2 = m
        BY <1>2, <2>1, <2>2, <2>3, <3>1
      <4>2. QED
        BY <4>1
    <3>2. CASE d # c
      <4>1. k2 = conn[d] /\ s2 = stream[d] /\ m2 = client[d]
        BY <1>2, <2>1, <2>2, <2>3, <3>2
      <4>2. QED
        BY <4>1 DEF StreamInvariant
    <3>3. QED
      BY <3>1, <3>2
  <2>5. Holds(k2, s2, m2)'
    BY <1>1, <2>4, KeepLemma
  <2>6. QED
    BY <2>1, <2>2, <2>3, <2>5
<1>4. Typed'
  BY <1>2 DEF Typed, SameRun
<1>5. QED
  BY <1>1, <1>3, <1>4 DEF StreamInvariant

\* The records of one reader.
LEMMA RecordsLemma ==
  ASSUME StreamInvariant, NEW c \in Clients
  PROVE  /\ conn[c] \in Conn /\ stream[c] \in Stream /\ client[c] \in Reader
         /\ Holds(conn[c], stream[c], client[c])
         /\ conn = [conn EXCEPT ![c] = conn[c]] /\ stream = [stream EXCEPT ![c] = stream[c]]
         /\ client = [client EXCEPT ![c] = client[c]]
         /\ \A pc : [conn EXCEPT ![c].pc = pc] = [conn EXCEPT ![c] = [conn[c] EXCEPT !.pc = pc]]
         /\ UNCHANGED <<file, run>> => SameRun
<1>1. /\ conn \in [Clients -> Conn] /\ stream \in [Clients -> Stream] /\ client \in [Clients -> Reader]
      /\ Holds(conn[c], stream[c], client[c])
  BY DEF StreamInvariant, Typed
<1>2. UNCHANGED <<file, run>> => SameRun
  BY UnchangedRunLemma DEF StreamInvariant
<1>3. QED
  BY <1>1, <1>2

LEMMA LengthsLemma ==
  ASSUME NEW k \in Conn, NEW s \in Stream, NEW m \in Reader
  PROVE  /\ At(m) \in Nat /\ m.from \in Nat /\ m.got \in Seq(Nat) /\ Len(m.got) \in Nat
         /\ k.wire \in Seq(Frame) /\ Len(k.wire) \in Nat
         /\ s.queue \in Seq(Nat) /\ Len(s.queue) \in Nat /\ s.cursor \in Nat
         /\ m.follow \in BOOLEAN /\ k.shut \in BOOLEAN
<1>1. m.from \in Nat /\ m.got \in Seq(Nat) /\ m.follow \in BOOLEAN
  BY DEF Reader
<1>2. k.wire \in Seq(Frame) /\ k.shut \in BOOLEAN
  BY DEF Conn
<1>3. s.queue \in Seq(Nat) /\ s.cursor \in Nat
  BY DEF Stream
<1>4. Len(m.got) \in Nat /\ Len(k.wire) \in Nat /\ Len(s.queue) \in Nat
  BY <1>1, <1>2, <1>3
<1>5. QED
  BY <1>1, <1>2, <1>3, <1>4 DEF At

\* A connection that goes on without writing.
LEMMA MoveLemma ==
  ASSUME NEW k \in Conn, NEW s \in Stream, NEW m \in Reader, Holds(k, s, m),
         NEW l \in Conn, l.wire = k.wire, l.shut = k.shut,
         l.pc \in {"wait", "drain"} /\ m.follow => k.pc \in {"wait", "drain"},
         InStep(l, s, m), LastWord(l, m)
  PROVE  Holds(l, s, m)
<1>1. Got(m) /\ OnWire(l, m)
  BY DEF Holds, OnWire
<1>2. InQueue(l, s, m) /\ Told(l, m)
  BY DEF Holds, InQueue, Told
<1>3. QED
  BY <1>1, <1>2 DEF Holds

LEMMA FrameAppended ==
  ASSUME NEW q \in Seq(Frame), NEW f \in Frame
  PROVE  /\ Append(q, f) \in Seq(Frame) /\ Len(Append(q, f)) = Len(q) + 1 /\ Append(q, f) # <<>>
         /\ \A i \in 1..Len(q) : Append(q, f)[i] = q[i]
         /\ Append(q, f)[Len(q) + 1] = f
         /\ \A i \in 1..Len(Append(q, f)) : i \in 1..Len(q) \/ i = Len(q) + 1
<1>1. Append(q, f) \in Seq(Frame) /\ Len(Append(q, f)) = Len(q) + 1 /\ Len(q) \in Nat
  BY AppendLemma
<1>2. QED
  BY <1>1, AppendLemma, SMTT(30)

\* A connection that writes an error as its last frame.
LEMMA RefuseLemma ==
  ASSUME NEW k \in Conn, NEW s \in Stream, NEW m \in Reader, Holds(k, s, m),
         NEW l \in Conn, l.shut = k.shut, NEW f \in Frame, f.code # "none", f.events = <<>>,
         l.wire = IF k.shut THEN k.wire ELSE Append(k.wire, f),
         l.pc \in {"last", "refused"} \/ (l.pc = "drain" /\ ~m.follow),
         m.follow \/ k.wire = <<>>, m.state # "new",
         \A i \in 1..Len(k.wire) : k.wire[i].code = "none"
  PROVE  Holds(l, s, m)
<1>1. k.wire \in Seq(Frame) /\ Len(k.wire) \in Nat /\ At(m) \in Nat
  BY LengthsLemma
<1>2. CASE k.shut
  <2>1. InStep(l, s, m)
    BY <1>1, <1>2 DEF Holds, InStep
  <2>2. OnWire(l, m)
    BY <1>2 DEF Holds, OnWire
  <2>3. QED
    BY <1>2, <2>1, <2>2 DEF Holds, InQueue, LastWord, Told
<1>3. CASE ~k.shut
  <2>1. /\ Len(l.wire) = Len(k.wire) + 1 /\ l.wire # <<>>
        /\ \A i \in 1..Len(k.wire) : l.wire[i] = k.wire[i]
        /\ l.wire[Len(k.wire) + 1] = f
        /\ \A i \in 1..Len(l.wire) : i \in 1..Len(k.wire) \/ i = Len(k.wire) + 1
    <3>1. l.wire = Append(k.wire, f)
      BY <1>3
    <3>2. QED
      BY <1>1, <3>1, FrameAppended
  <2>2. InStep(l, s, m)
    BY <1>1, <2>1 DEF Holds, InStep
  <2>3. OnWire(l, m)
    <3>1. ASSUME NEW i \in 1..Len(k.wire)
          PROVE  m.follow /\ l.wire[i].code = "none" /\ l.wire[i].events = <<At(m) + i>>
                 /\ At(m) + i <= Visible
      BY <1>1, <2>1 DEF Holds, OnWire
    <3>2. QED
      BY <2>1, <3>1 DEF OnWire
  <2>4. LastWord(l, m)
    <3>1. l.wire[Len(l.wire)].code # "none" /\ l.wire # <<>>
      BY <2>1
    <3>2. l.pc \in {"finish", "gone"} => FALSE
      OBVIOUS
    <3>3. QED
      BY <3>1, <3>2 DEF LastWord
  <2>5. InQueue(l, s, m) /\ Told(l, m)
    BY DEF Holds, InQueue, Told
  <2>6. QED
    BY <2>2, <2>3, <2>4, <2>5 DEF Holds
<1>4. QED
  BY <1>2, <1>3, LengthsLemma

\* A step of the connection alone.
LEMMA ConnLemma ==
  ASSUME StreamInvariant, NEW c \in Clients, UNCHANGED <<file, run, stream, client>>,
         NEW l \in Conn, conn' = [conn EXCEPT ![c] = l], Holds(l, stream[c], client[c])
  PROVE  StreamInvariant'
<1>1. SameRun /\ stream' = [stream EXCEPT ![c] = stream[c]] /\ client' = [client EXCEPT ![c] = client[c]]
      /\ stream[c] \in Stream /\ client[c] \in Reader
  BY RecordsLemma
<1>2. QED
  BY <1>1, StepLemma

\* A step of the client alone.
LEMMA ReaderLemma ==
  ASSUME StreamInvariant, NEW c \in Clients, UNCHANGED <<file, run, conn, stream>>,
         NEW n \in Reader, client' = [client EXCEPT ![c] = n], Holds(conn[c], stream[c], n)
  PROVE  StreamInvariant'
<1>1. SameRun /\ stream' = [stream EXCEPT ![c] = stream[c]] /\ conn' = [conn EXCEPT ![c] = conn[c]]
      /\ stream[c] \in Stream /\ conn[c] \in Conn
  BY RecordsLemma
<1>2. QED
  BY <1>1, StepLemma

LEMMA ConnectLemma ==
  ASSUME StreamInvariant, NEW c \in Clients, Connect(c)
  PROVE  StreamInvariant'
<1>1. PICK k \in Conn : k = conn[c]
  BY RecordsLemma
<1>2. PICK s \in Stream : s = stream[c]
  BY RecordsLemma
<1>3. PICK m \in Reader : m = client[c]
  BY RecordsLemma
<1>4. Holds(k, s, m)
  BY <1>1, <1>2, <1>3, RecordsLemma
<1>5. m.state = "new" /\ k.pc = "none" /\ k.wire = <<>> /\ ~k.shut
      /\ client \in [Clients -> Reader] /\ conn \in [Clients -> Conn]
  BY <1>1, <1>3, <1>4 DEF Connect, Holds, InStep, StreamInvariant, Typed
<1>6. CASE server = "serving"
  <2>1. PICK l : l = [k EXCEPT !.pc = "accepted"]
    OBVIOUS
  <2>2. l \in Conn /\ l.pc = "accepted" /\ l.wire = k.wire /\ l.shut = k.shut
        /\ conn' = [conn EXCEPT ![c] = l]
    BY <1>1, <1>5, <1>6, <2>1 DEF Connect, Goto, Conn
  <2>3. PICK n : n = [m EXCEPT !.state = "idle"]
    OBVIOUS
  <2>4. n \in Reader /\ n.state = "idle" /\ n.from = m.from /\ n.got = m.got /\ n.follow = m.follow
        /\ n.final = m.final /\ client' = [client EXCEPT ![c] = n]
    BY <1>3, <1>5, <1>6, <2>3 DEF Connect, Reader
  <2>5. Got(n) /\ InStep(l, s, n)
    BY <1>4, <1>5, <2>2, <2>4 DEF Holds, Got, InStep, At
  <2>6. OnWire(l, n) /\ InQueue(l, s, n) /\ LastWord(l, n) /\ Told(l, n)
    BY <1>5, <2>2, <2>4 DEF OnWire, InQueue, LastWord, Told
  <2>7. stream' = [stream EXCEPT ![c] = s] /\ SameRun
    BY <1>2, RecordsLemma DEF Connect
  <2>8. QED
    BY <2>2, <2>4, <2>5, <2>6, <2>7, StepLemma DEF Holds
<1>7. CASE server # "serving"
  <2>1. PICK n : n = [m EXCEPT !.state = "failed"]
    OBVIOUS
  <2>2. n \in Reader /\ n.state = "failed" /\ n.from = m.from /\ n.got = m.got /\ n.follow = m.follow
        /\ n.final = m.final /\ client' = [client EXCEPT ![c] = n]
    BY <1>3, <1>5, <1>7, <2>1 DEF Connect, Reader
  <2>3. Got(n) /\ InStep(k, s, n)
    BY <1>4, <1>5, <2>2 DEF Holds, Got, InStep, At
  <2>4. OnWire(k, n) /\ InQueue(k, s, n) /\ LastWord(k, n) /\ Told(k, n)
    BY <1>5, <2>2 DEF OnWire, InQueue, LastWord, Told
  <2>5. QED
    BY <1>1, <1>2, <1>7, <2>2, <2>3, <2>4, ReaderLemma DEF Holds, Connect
<1>8. QED
  BY <1>6, <1>7

LEMMA ErrorFrames == \A code \in Codes :
  ErrorFrame(code) \in Frame /\ ErrorFrame(code).code = code /\ code # "none"
  /\ ErrorFrame(code).events = <<>>
<1>1. <<>> \in Seq(Nat)
  OBVIOUS
<1>2. QED
  BY <1>1 DEF ErrorFrame, Frame, Codes

LEMMA ServeLemma ==
  ASSUME StreamInvariant, NEW c \in Clients, Serve(c)
  PROVE  StreamInvariant'
<1>1. PICK k \in Conn : k = conn[c]
  BY RecordsLemma
<1>2. PICK s \in Stream : s = stream[c]
  BY RecordsLemma
<1>3. PICK m \in Reader : m = client[c]
  BY RecordsLemma
<1>4. Holds(k, s, m)
  BY <1>1, <1>2, <1>3, RecordsLemma
<1>5. k.pc = "accepted" /\ k.wire = <<>> /\ ~k.shut /\ conn \in [Clients -> Conn] /\ m.state # "new"
  BY <1>1, <1>4 DEF Serve, Holds, InStep, StreamInvariant, Typed
<1>6. CASE Goto(c, "loop")
  <2>1. PICK l : l = [k EXCEPT !.pc = "loop"]
    OBVIOUS
  <2>2. l \in Conn /\ l.pc = "loop" /\ l.wire = k.wire /\ l.shut = k.shut
        /\ conn' = [conn EXCEPT ![c] = l]
    BY <1>1, <1>5, <1>6, <2>1 DEF Goto, Conn
  <2>3. InStep(l, s, m) /\ LastWord(l, m)
    BY <1>4, <1>5, <2>2 DEF Holds, InStep, LastWord
  <2>4. Holds(l, s, m)
    BY <1>4, <2>2, <2>3, MoveLemma
  <2>5. QED
    BY <1>2, <1>3, <2>2, <2>4, ConnLemma DEF Serve
<1>7. CASE \E code \in Codes : Send(c, ErrorFrame(code), "refused")
  <2>1. PICK code \in Codes : Send(c, ErrorFrame(code), "refused")
    BY <1>7
  <2>2. PICK f \in Frame : f = ErrorFrame(code) /\ f.code # "none" /\ f.events = <<>>
    BY ErrorFrames
  <2>3. PICK l : l = [k EXCEPT !.pc = "refused", !.wire = Append(k.wire, f)]
    OBVIOUS
  <2>4. Append(k.wire, f) \in Seq(Frame)
    BY <2>2, LengthsLemma, FrameAppended
  <2>5. l \in Conn /\ l.pc = "refused" /\ l.wire = Append(k.wire, f) /\ l.shut = k.shut
        /\ conn' = [conn EXCEPT ![c] = l]
    BY <1>1, <1>5, <2>1, <2>2, <2>3, <2>4 DEF Send, Write, Conn
  <2>6. l.wire = IF k.shut THEN k.wire ELSE Append(k.wire, f)
    BY <1>5, <2>5
  <2>7. \A i \in 1..Len(k.wire) : k.wire[i].code = "none"
    BY <1>5
  <2>8. Holds(l, s, m)
    BY <1>4, <1>5, <2>2, <2>5, <2>6, <2>7, RefuseLemma
  <2>9. QED
    BY <1>2, <1>3, <2>5, <2>8, ConnLemma DEF Serve
<1>8. QED
  BY <1>6, <1>7 DEF Serve, Codes

LEMMA AskLemma ==
  ASSUME StreamInvariant, NEW c \in Clients, Ask(c)
  PROVE  StreamInvariant'
<1>1. PICK k \in Conn : k = conn[c]
  BY RecordsLemma
<1>2. PICK s \in Stream : s = stream[c]
  BY RecordsLemma
<1>3. PICK m \in Reader : m = client[c]
  BY RecordsLemma
<1>4. Holds(k, s, m)
  BY <1>1, <1>2, <1>3, RecordsLemma
<1>5. m.state = "idle" /\ client \in [Clients -> Reader] /\ k.wire \in Seq(Frame)
      /\ m.follow \in BOOLEAN
  BY <1>1, <1>3, LengthsLemma DEF Ask, StreamInvariant, Typed
<1>6. PICK n : n = [m EXCEPT !.state = IF m.follow THEN "following" ELSE "asked",
                             !.final = (run.terminal = "trusted")]
  OBVIOUS
<1>7. /\ n \in Reader /\ n.from = m.from /\ n.got = m.got /\ n.follow = m.follow
      /\ n.final = (run.terminal = "trusted")
      /\ n.state = IF m.follow THEN "following" ELSE "asked"
      /\ client' = [client EXCEPT ![c] = n]
  BY <1>3, <1>5, <1>6 DEF Ask, Reader
<1>8. Got(n) /\ InStep(k, s, n)
  BY <1>4, <1>5, <1>7 DEF Holds, Got, InStep, At
<1>9. OnWire(k, n)
  BY <1>4, <1>5, <1>7 DEF Holds, OnWire, At
<1>10. InQueue(k, s, n)
  BY <1>4, <1>7 DEF Holds, InQueue, At
<1>11. LastWord(k, n) /\ Told(k, n)
  BY <1>4, <1>5, <1>7 DEF Holds, LastWord, Told, Ended, At
<1>12. QED
  BY <1>1, <1>2, <1>7, <1>8, <1>9, <1>10, <1>11, ReaderLemma DEF Holds, Ask

LEMMA LeavesLemma ==
  ASSUME StreamInvariant, NEW c \in Clients, ClientLeaves(c)
  PROVE  StreamInvariant'
<1>1. PICK k \in Conn : k = conn[c]
  BY RecordsLemma
<1>2. PICK s \in Stream : s = stream[c]
  BY RecordsLemma
<1>3. PICK m \in Reader : m = client[c]
  BY RecordsLemma
<1>4. Holds(k, s, m)
  BY <1>1, <1>2, <1>3, RecordsLemma
<1>5. m.state \in {"idle", "asked", "following"} /\ client \in [Clients -> Reader]
  BY <1>3 DEF ClientLeaves, StreamInvariant, Typed
<1>6. PICK n : n = [m EXCEPT !.state = "left"]
  OBVIOUS
<1>7. /\ n \in Reader /\ n.from = m.from /\ n.got = m.got /\ n.follow = m.follow
      /\ n.final = m.final /\ n.state = "left" /\ client' = [client EXCEPT ![c] = n]
  BY <1>3, <1>5, <1>6 DEF ClientLeaves, Reader
<1>8. Got(n) /\ InStep(k, s, n)
  BY <1>4, <1>7 DEF Holds, Got, InStep, At
<1>9. OnWire(k, n)
  BY <1>4, <1>7 DEF Holds, OnWire, At
<1>10. InQueue(k, s, n)
  BY <1>4, <1>7 DEF Holds, InQueue, At
<1>11. LastWord(k, n) /\ Told(k, n)
  BY <1>7 DEF LastWord, Told, Ended
<1>12. QED
  BY <1>1, <1>2, <1>7, <1>8, <1>9, <1>10, <1>11, ReaderLemma DEF Holds, ClientLeaves

\* A follower's end of file completes it: the daemon had sent it all, or closed it.
LEMMA EofLemma ==
  ASSUME StreamInvariant, NEW c \in Clients, ClientEof(c)
  PROVE  StreamInvariant'
<1>1. PICK k \in Conn : k = conn[c]
  BY RecordsLemma
<1>2. PICK s \in Stream : s = stream[c]
  BY RecordsLemma
<1>3. PICK m \in Reader : m = client[c]
  BY RecordsLemma
<1>4. Holds(k, s, m)
  BY <1>1, <1>2, <1>3, RecordsLemma
<1>5. /\ k.wire = <<>> /\ ~Ended(m) /\ (k.pc = "gone" \/ k.shut) /\ k.pc # "none"
      /\ client \in [Clients -> Reader]
  BY <1>1, <1>3 DEF ClientEof, Hungup, Ended, StreamInvariant, Typed
<1>6. PICK n : n = [m EXCEPT !.state = IF m.state = "following" THEN "completed" ELSE "failed"]
  OBVIOUS
<1>7. /\ n \in Reader /\ n.from = m.from /\ n.got = m.got /\ n.follow = m.follow
      /\ n.final = m.final /\ n.state = IF m.state = "following" THEN "completed" ELSE "failed"
      /\ client' = [client EXCEPT ![c] = n]
  BY <1>3, <1>5, <1>6 DEF ClientEof, Reader
<1>8. Got(n) /\ InStep(k, s, n)
  BY <1>4, <1>7 DEF Holds, Got, InStep, At
<1>9. OnWire(k, n)
  BY <1>5 DEF OnWire
<1>10. InQueue(k, s, n)
  BY <1>4, <1>7 DEF Holds, InQueue, At
<1>11. LastWord(k, n)
  BY <1>7 DEF LastWord, Ended
<1>12. Told(k, n)
  <2> SUFFICES ASSUME m.state = "following", ~k.shut
               PROVE  Settled(At(n))
    BY <1>7 DEF Told
  <2>1. m.follow /\ k.pc = "gone" /\ Len(k.wire) = 0
    BY <1>4, <1>5 DEF Holds, InStep
  <2>2. Settled(At(m) + Len(k.wire))
    BY <1>4, <1>5, <2>1 DEF Holds, LastWord
  <2>3. At(n) = At(m) + Len(k.wire)
    BY <1>7, <2>1, LengthsLemma DEF At
  <2>4. QED
    BY <2>2, <2>3
<1>13. QED
  BY <1>1, <1>2, <1>7, <1>8, <1>9, <1>10, <1>11, <1>12, ReaderLemma DEF Holds, ClientEof

\* A lost transport: the peer hung up, or the daemon closed it.
LEMMA LostLemma ==
  ASSUME NEW c \in Clients, Lost(c)
  PROVE  Ended(client[c]) \/ conn[c].shut
BY DEF Lost, Hungup, Ended

LEMMA LoopEndsLemma ==
  ASSUME StreamInvariant, NEW c \in Clients, LoopEnds(c)
  PROVE  StreamInvariant'
<1>1. PICK k \in Conn : k = conn[c]
  BY RecordsLemma
<1>2. PICK s \in Stream : s = stream[c]
  BY RecordsLemma
<1>3. PICK m \in Reader : m = client[c]
  BY RecordsLemma
<1>4. Holds(k, s, m)
  BY <1>1, <1>2, <1>3, RecordsLemma
<1>5. k.pc = "loop" /\ (Ended(m) \/ k.shut) /\ conn \in [Clients -> Conn]
  BY <1>1, <1>3, LostLemma DEF LoopEnds, StreamInvariant, Typed
<1>6. PICK l : l = [k EXCEPT !.pc = "finish"]
  OBVIOUS
<1>7. l \in Conn /\ l.pc = "finish" /\ l.wire = k.wire /\ l.shut = k.shut
      /\ conn' = [conn EXCEPT ![c] = l]
  BY <1>1, <1>5, <1>6 DEF LoopEnds, Goto, Conn
<1>8. InStep(l, s, m) /\ LastWord(l, m)
  BY <1>4, <1>5, <1>7 DEF Holds, InStep, LastWord
<1>9. QED
  BY <1>2, <1>3, <1>4, <1>7, <1>8, MoveLemma, ConnLemma DEF LoopEnds

LEMMA PeerEofLemma ==
  ASSUME StreamInvariant, NEW c \in Clients, PeerEof(c)
  PROVE  StreamInvariant'
<1>1. PICK k \in Conn : k = conn[c]
  BY RecordsLemma
<1>2. PICK s \in Stream : s = stream[c]
  BY RecordsLemma
<1>3. PICK m \in Reader : m = client[c]
  BY RecordsLemma
<1>4. Holds(k, s, m)
  BY <1>1, <1>2, <1>3, RecordsLemma
<1>5. k.pc = "wait" /\ (Ended(m) \/ k.shut) /\ conn \in [Clients -> Conn]
  BY <1>1, <1>3, LostLemma DEF PeerEof, StreamInvariant, Typed
<1>6. PICK l : l = [k EXCEPT !.pc = "finish"]
  OBVIOUS
<1>7. l \in Conn /\ l.pc = "finish" /\ l.wire = k.wire /\ l.shut = k.shut
      /\ conn' = [conn EXCEPT ![c] = l]
  BY <1>1, <1>5, <1>6 DEF PeerEof, Goto, Conn
<1>8. InStep(l, s, m) /\ LastWord(l, m)
  BY <1>4, <1>5, <1>7 DEF Holds, InStep, LastWord
<1>9. QED
  BY <1>2, <1>3, <1>4, <1>7, <1>8, MoveLemma, ConnLemma DEF PeerEof

LEMMA DrainedLemma ==
  ASSUME StreamInvariant, NEW c \in Clients, Drained(c)
  PROVE  StreamInvariant'
<1>1. PICK k \in Conn : k = conn[c]
  BY RecordsLemma
<1>2. PICK s \in Stream : s = stream[c]
  BY RecordsLemma
<1>3. PICK m \in Reader : m = client[c]
  BY RecordsLemma
<1>4. Holds(k, s, m)
  BY <1>1, <1>2, <1>3, RecordsLemma
<1>5. k.pc \in {"drain", "last", "refused"} /\ conn \in [Clients -> Conn] /\ m.follow \in BOOLEAN
      /\ (Lost(c) => Ended(m) \/ k.shut)
  BY <1>1, <1>3, LostLemma, LengthsLemma DEF Drained, StreamInvariant, Typed
<1>6. PICK pc : pc = IF k.pc = "refused" THEN "gone"
                     ELSE IF k.pc = "last" \/ Lost(c) THEN "finish"
                     ELSE IF m.follow THEN "wait" ELSE "loop"
  OBVIOUS
<1>7. PICK l : l = [k EXCEPT !.pc = pc]
  OBVIOUS
<1>8. pc \in {"gone", "finish", "wait", "loop"}
  BY <1>6
<1>9. l \in Conn /\ l.pc = pc /\ l.wire = k.wire /\ l.shut = k.shut
      /\ conn' = [conn EXCEPT ![c] = l]
  BY <1>1, <1>3, <1>5, <1>6, <1>7, <1>8 DEF Drained, Goto, Conn
<1>10. InStep(l, s, m)
  BY <1>4, <1>5, <1>6, <1>9 DEF Holds, InStep
<1>11. LastWord(l, m)
  BY <1>4, <1>5, <1>6, <1>9 DEF Holds, LastWord
<1>12. l.pc \in {"wait", "drain"} /\ m.follow => k.pc \in {"wait", "drain"}
  BY <1>5, <1>6, <1>9
<1>13. QED
  BY <1>2, <1>3, <1>4, <1>9, <1>10, <1>11, <1>12, MoveLemma, ConnLemma DEF Drained

LEMMA FinishLemma ==
  ASSUME StreamInvariant, NEW c \in Clients, Finish(c)
  PROVE  StreamInvariant'
<1>1. PICK k \in Conn : k = conn[c]
  BY RecordsLemma
<1>2. PICK s \in Stream : s = stream[c]
  BY RecordsLemma
<1>3. PICK m \in Reader : m = client[c]
  BY RecordsLemma
<1>4. Holds(k, s, m)
  BY <1>1, <1>2, <1>3, RecordsLemma
<1>5. k.pc = "finish" /\ conn \in [Clients -> Conn] /\ stream \in [Clients -> Stream]
  BY <1>1 DEF Finish, StreamInvariant, Typed
<1>6. PICK l : l = [k EXCEPT !.pc = "gone"]
  OBVIOUS
<1>7. l \in Conn /\ l.pc = "gone" /\ l.wire = k.wire /\ l.shut = k.shut
      /\ conn' = [conn EXCEPT ![c] = l]
  BY <1>1, <1>5, <1>6 DEF Finish, Goto, Conn
<1>8. PICK t : t = [s EXCEPT !.closed = TRUE, !.watcher = "done"]
  OBVIOUS
<1>9. t \in Stream /\ stream' = [stream EXCEPT ![c] = t]
  BY <1>2, <1>5, <1>8 DEF Finish, Stream
<1>10. InStep(l, t, m) /\ LastWord(l, m)
  BY <1>4, <1>5, <1>7 DEF Holds, InStep, LastWord
<1>11. Got(m) /\ OnWire(l, m) /\ InQueue(l, t, m) /\ Told(l, m)
  BY <1>4, <1>5, <1>7 DEF Holds, OnWire, InQueue, Told
<1>12. client' = [client EXCEPT ![c] = m] /\ SameRun
  BY <1>3, RecordsLemma DEF Finish
<1>13. QED
  BY <1>7, <1>9, <1>10, <1>11, <1>12, StepLemma DEF Holds

\* A step of the stream alone, once its connection follows or follows no more.
LEMMA StreamStepLemma ==
  ASSUME StreamInvariant, NEW c \in Clients, SameRun, UNCHANGED <<conn, client>>,
         NEW t \in Stream, stream' = [stream EXCEPT ![c] = t],
         stream[c].watcher # "none",
         InQueue(conn[c], t, client[c])
  PROVE  StreamInvariant'
<1>1. /\ Holds(conn[c], stream[c], client[c])
      /\ conn[c] \in Conn /\ client[c] \in Reader
      /\ conn' = [conn EXCEPT ![c] = conn[c]] /\ client' = [client EXCEPT ![c] = client[c]]
  BY RecordsLemma
<1>2. PICK k \in Conn : k = conn[c]
  BY <1>1
<1>3. PICK m \in Reader : m = client[c]
  BY <1>1
<1>4. InStep(k, t, m)
  BY <1>1, <1>2, <1>3 DEF Holds, InStep
<1>5. Holds(k, t, m)
  BY <1>1, <1>2, <1>3, <1>4 DEF Holds
<1>6. QED
  BY <1>1, <1>2, <1>3, <1>5, StepLemma

-----------------------------------------------------------------------------
(* The watcher *)

LEMMA WatchAgainLemma ==
  ASSUME StreamInvariant, NEW c \in Clients, WatchAgain(c)
  PROVE  StreamInvariant'
<1>1. PICK k \in Conn : k = conn[c]
  BY RecordsLemma
<1>2. PICK s \in Stream : s = stream[c]
  BY RecordsLemma
<1>3. PICK m \in Reader : m = client[c]
  BY RecordsLemma
<1>4. Holds(k, s, m)
  BY <1>1, <1>2, <1>3, RecordsLemma
<1>5. s.watcher = "idle" /\ stream \in [Clients -> Stream]
  BY <1>2 DEF WatchAgain, StreamInvariant, Typed
<1>6. PICK t : t = [s EXCEPT !.watcher = "read"]
  OBVIOUS
<1>7. t \in Stream /\ t.watcher = "read" /\ t.cursor = s.cursor /\ t.queue = s.queue
      /\ stream' = [stream EXCEPT ![c] = t]
  BY <1>2, <1>5, <1>6 DEF WatchAgain, Stream
<1>8. InQueue(k, t, m)
  BY <1>4, <1>5, <1>7 DEF Holds, InQueue, HasEnd
<1>9. SameRun
  BY RecordsLemma DEF WatchAgain
<1>10. QED
  BY <1>1, <1>2, <1>3, <1>5, <1>7, <1>8, <1>9, StreamStepLemma DEF WatchAgain

\* The first failure ends the watcher and leaves the queue as it is.
LEMMA FailLemma ==
  ASSUME StreamInvariant, NEW c \in Clients, NEW code \in Codes, Fail(c, code),
         stream[c].watcher \in {"read", "contain"}, SameRun, UNCHANGED <<conn, client>>
  PROVE  StreamInvariant'
<1>1. PICK k \in Conn : k = conn[c]
  BY RecordsLemma
<1>2. PICK s \in Stream : s = stream[c]
  BY RecordsLemma
<1>3. PICK m \in Reader : m = client[c]
  BY RecordsLemma
<1>4. Holds(k, s, m)
  BY <1>1, <1>2, <1>3, RecordsLemma
<1>5. stream \in [Clients -> Stream]
  BY DEF StreamInvariant, Typed
<1>6. PICK t : t = [s EXCEPT !.failure = IF s.failure = "none" THEN code ELSE s.failure,
                             !.watcher = "done"]
  OBVIOUS
<1>7. t \in Stream /\ t.watcher = "done" /\ t.cursor = s.cursor /\ t.queue = s.queue
      /\ stream' = [stream EXCEPT ![c] = t]
  BY <1>2, <1>5, <1>6 DEF Fail, Stream
<1>8. InQueue(k, t, m)
  BY <1>2, <1>4, <1>7 DEF Holds, InQueue, HasEnd
<1>9. QED
  BY <1>1, <1>2, <1>3, <1>7, <1>8, StreamStepLemma

LEMMA WatchContainedLemma ==
  ASSUME StreamInvariant, NEW c \in Clients, WatchContained(c)
  PROVE  StreamInvariant'
<1>1. SameRun
  BY RecordsLemma DEF WatchContained
<1>2. QED
  BY <1>1, FailLemma DEF WatchContained, Codes

\* The None goes behind everything that is queued, after a page that was empty
\* with the terminal already there.
LEMMA WatchEndLemma ==
  ASSUME StreamInvariant, NEW c \in Clients, WatchEnd(c)
  PROVE  StreamInvariant'
<1>1. PICK k \in Conn : k = conn[c]
  BY RecordsLemma
<1>2. PICK s \in Stream : s = stream[c]
  BY RecordsLemma
<1>3. PICK m \in Reader : m = client[c]
  BY RecordsLemma
<1>4. Holds(k, s, m)
  BY <1>1, <1>2, <1>3, RecordsLemma
<1>5. s.watcher = "end" /\ stream \in [Clients -> Stream]
  BY <1>2 DEF WatchEnd, StreamInvariant, Typed
<1>6. PICK q \in Seq(Nat) : q = Append(s.queue, End)
  BY LengthsLemma, AppendLemma DEF End
<1>7. /\ Len(q) = Len(s.queue) + 1 /\ Len(s.queue) \in Nat /\ q[Len(q)] = End
      /\ \A j \in 1..Len(q) : \/ j \in 1..Len(s.queue) /\ q[j] = s.queue[j]
                              \/ j = Len(q) /\ q[j] = End
  BY <1>6, LengthsLemma, AppendLemma DEF End
<1>8. PICK t : t = [s EXCEPT !.queue = q, !.watcher = "done"]
  OBVIOUS
<1>9. t \in Stream /\ t.watcher = "done" /\ t.cursor = s.cursor /\ t.queue = q
      /\ stream' = [stream EXCEPT ![c] = t]
  BY <1>2, <1>5, <1>6, <1>8 DEF WatchEnd, Stream
<1>10. InQueue(k, t, m)
  <2> SUFFICES ASSUME m.follow, ~k.shut, k.pc \in {"wait", "drain"}
               PROVE  /\ \A j \in 1..Len(q) :
                           IF q[j] = End THEN j = Len(q)
                           ELSE q[j] = At(m) + Len(k.wire) + j /\ q[j] <= Visible
                      /\ s.cursor + 1 = At(m) + Len(k.wire) + Len(q)
                      /\ HasEnd(t) /\ Settled(s.cursor)
    BY <1>9 DEF InQueue
  <2>1. /\ ~HasEnd(s) /\ s.cursor = At(m) + Len(k.wire) + Len(s.queue) /\ Settled(s.cursor)
        /\ \A j \in 1..Len(s.queue) :
             IF s.queue[j] = End THEN j = Len(s.queue)
             ELSE s.queue[j] = At(m) + Len(k.wire) + j /\ s.queue[j] <= Visible
    BY <1>4, <1>5 DEF Holds, InQueue
  <2>2. \A j \in 1..Len(s.queue) : s.queue[j] # End
    BY <1>7, <2>1 DEF HasEnd
  <2>3. At(m) \in Nat /\ Len(k.wire) \in Nat
    BY LengthsLemma
  <2>4. s.cursor + 1 = At(m) + Len(k.wire) + Len(q)
    BY <1>7, <2>1, <2>3
  <2>5. HasEnd(t)
    BY <1>7, <1>9 DEF HasEnd
  <2>6. QED
    BY <1>7, <2>1, <2>2, <2>4, <2>5
<1>11. SameRun
  BY RecordsLemma DEF WatchEnd
<1>12. QED
  BY <1>1, <1>2, <1>3, <1>5, <1>9, <1>10, <1>11, StreamStepLemma DEF WatchEnd

\* A page is queued behind what is queued, and the cursor goes to its end.
LEMMA WatchPageLemma ==
  ASSUME StreamInvariant, NEW c \in Clients, WatchPage(c)
  PROVE  StreamInvariant'
<1>1. PICK k \in Conn : k = conn[c]
  BY RecordsLemma
<1>2. PICK s \in Stream : s = stream[c]
  BY RecordsLemma
<1>3. PICK m \in Reader : m = client[c]
  BY RecordsLemma
<1>4. Holds(k, s, m)
  BY <1>1, <1>2, <1>3, RecordsLemma
<1>5. s.watcher = "read" /\ stream \in [Clients -> Stream] /\ s.cursor \in Nat /\ Typed
      /\ s.queue \in Seq(Nat)
  BY <1>2, LengthsLemma DEF WatchPage, StreamInvariant, Typed
<1>6. SameRun
  BY DEF WatchPage, SameRun, StreamInvariant, Typed
<1>7. CASE \E code \in Codes : Fail(c, code)
  BY <1>2, <1>5, <1>6, <1>7, FailLemma DEF WatchPage
<1>8. CASE ~\E code \in Codes : Fail(c, code)
  <2>1. PICK e \in Seq(Nat) : e = Page(s.cursor)
    BY <1>5, PageLemma
  <2>2. /\ Len(e) \in Nat /\ \A j \in 1..Len(e) : e[j] = s.cursor + j
        /\ e # <<>> => s.cursor + Len(e) <= Visible
        /\ e = <<>> => file.lines <= s.cursor
    <3>1. PICK from \in Nat : from = s.cursor
      BY <1>5
    <3>2. /\ \A j \in 1..Len(Page(from)) : Page(from)[j] = from + j
          /\ Page(from) # <<>> => from + Len(Page(from)) <= Visible
          /\ Page(from) = <<>> => file.lines <= from
      BY <1>5, PageLemma
    <3>3. Len(e) \in Nat
      BY <2>1
    <3>4. QED
      BY <2>1, <3>1, <3>2, <3>3
  <2>3. stream' = [stream EXCEPT ![c].queue = s.queue \o e, ![c].cursor = s.cursor + Len(e),
                                 ![c].watcher = AfterPage(e)]
    BY <1>2, <1>5, <1>8, <2>1 DEF WatchPage, Enqueue, Codes
  <2>4. PICK q \in Seq(Nat) : q = s.queue \o e
    BY <1>5, ConcatLemma
  <2>5. /\ Len(q) = Len(s.queue) + Len(e) /\ Len(s.queue) \in Nat
        /\ \A j \in 1..Len(q) : \/ j \in 1..Len(s.queue) /\ q[j] = s.queue[j]
                                \/ j - Len(s.queue) \in 1..Len(e) /\ q[j] = e[j - Len(s.queue)]
    BY <1>5, <2>4, ConcatLemma
  <2>6. PICK w : w = AfterPage(e)
    OBVIOUS
  <2>7. w \in {"end", "contain", "idle"}
    BY <2>6 DEF AfterPage
  <2>8. PICK t : t = [s EXCEPT !.queue = q, !.cursor = s.cursor + Len(e), !.watcher = w]
    OBVIOUS
  <2>9. t \in Stream /\ t.watcher = w /\ t.cursor = s.cursor + Len(e) /\ t.queue = q
        /\ stream' = [stream EXCEPT ![c] = t]
    <3>1. PICK n \in Nat : n = s.cursor + Len(e)
      BY <1>5, <2>2
    <3>2. t = [s EXCEPT !.queue = q, !.cursor = n, !.watcher = w]
      BY <2>8, <3>1
    <3>3. t \in Stream /\ t.watcher = w /\ t.cursor = n /\ t.queue = q
      BY <2>7, <3>2 DEF Stream
    <3>4. stream' = [stream EXCEPT ![c].queue = q, ![c].cursor = n, ![c].watcher = w]
      BY <2>3, <2>4, <2>6, <3>1
    <3>5. stream' = [stream EXCEPT ![c] = t]
      BY <1>2, <1>5, <3>2, <3>4 DEF Stream
    <3>6. QED
      BY <3>1, <3>3, <3>5
  <2>10. InQueue(k, t, m)
    <3> SUFFICES ASSUME m.follow, ~k.shut, k.pc \in {"wait", "drain"}
                 PROVE  /\ \A j \in 1..Len(q) :
                             q[j] # End /\ q[j] = At(m) + Len(k.wire) + j /\ q[j] <= Visible
                        /\ ~HasEnd(t) /\ s.cursor + Len(e) = At(m) + Len(k.wire) + Len(q)
                        /\ w = "end" => Settled(s.cursor + Len(e))
      BY <2>9 DEF InQueue
    <3>1. At(m) \in Nat /\ Len(k.wire) \in Nat /\ Visible \in Nat
      BY <1>5, LengthsLemma, PageEndLemma
    <3>2. PICK a \in Nat : a = At(m) + Len(k.wire)
      BY <3>1
    <3>3. /\ ~HasEnd(s) /\ s.cursor = a + Len(s.queue)
          /\ \A j \in 1..Len(s.queue) :
               IF s.queue[j] = End THEN j = Len(s.queue)
               ELSE s.queue[j] = a + j /\ s.queue[j] <= Visible
      BY <1>4, <1>5, <3>2 DEF Holds, InQueue
    <3>4. \A j \in 1..Len(s.queue) : s.queue[j] # End /\ s.queue[j] = a + j /\ s.queue[j] <= Visible
      BY <2>5, <3>3 DEF HasEnd
    <3>5. ASSUME NEW j \in 1..Len(q)
          PROVE  q[j] # End /\ q[j] = a + j /\ q[j] <= Visible
      <4>1. CASE j \in 1..Len(s.queue) /\ q[j] = s.queue[j]
        BY <3>4, <4>1
      <4>2. CASE j - Len(s.queue) \in 1..Len(e) /\ q[j] = e[j - Len(s.queue)]
        <5>0. PICK i \in 1..Len(e) : i = j - Len(s.queue)
          BY <4>2
        <5>1. q[j] = s.cursor + (j - Len(s.queue)) /\ e # <<>> /\ j - Len(s.queue) <= Len(e)
          <6>1. e[i] = s.cursor + i /\ i <= Len(e) /\ i \in Nat
            BY <2>2
          <6>2. e # <<>>
            BY <2>2
          <6>3. QED
            BY <4>2, <5>0, <6>1, <6>2
        <5>2. q[j] = a + j
          <6>1. Len(q) \in Nat /\ Len(s.queue) \in Nat /\ j \in Nat
            BY <2>4, <2>5
          <6>2. PICK n \in Nat : n = Len(s.queue)
            BY <6>1
          <6>3. PICK h \in Nat : h = j
            BY <6>1
          <6>4. q[j] = (a + n) + (h - n)
            BY <3>3, <5>1, <6>2, <6>3
          <6>5. (a + n) + (h - n) = a + h
            OBVIOUS
          <6>6. QED
            BY <6>3, <6>4, <6>5
        <5>3. q[j] <= s.cursor + Len(e) /\ s.cursor + Len(e) <= Visible
          BY <1>5, <2>2, <2>5, <5>1, SMTT(30)
        <5>4. q[j] # End
          BY <5>2 DEF End
        <5>5. QED
          BY <1>5, <2>2, <3>1, <5>2, <5>3, <5>4, SMTT(30)
      <4>3. QED
        BY <2>5, <4>1, <4>2
    <3>6. ~HasEnd(t)
      BY <2>2, <2>5, <2>9, <3>5 DEF HasEnd
    <3>7. s.cursor + Len(e) = a + Len(q)
      BY <2>2, <2>5, <3>3
    <3>8. w = "end" => Settled(s.cursor + Len(e))
      <4> HAVE w = "end"
      <4>1. e = <<>> /\ run.terminal = "trusted"
        BY <2>6 DEF AfterPage
      <4>2. s.cursor + Len(e) = s.cursor
        BY <1>5, <4>1
      <4>3. QED
        BY <2>2, <4>1, <4>2 DEF Settled
    <3>9. QED
      BY <3>2, <3>5, <3>6, <3>7, <3>8
  <2>11. QED
    BY <1>1, <1>2, <1>3, <1>5, <1>6, <2>9, <2>10, StreamStepLemma DEF WatchPage
<1>9. QED
  BY <1>7, <1>8

-----------------------------------------------------------------------------
(* Frames: written by the connection, read by the client *)

\* Send, spelled out on the record of a connection.
LEMMA SendLemma ==
  ASSUME StreamInvariant, NEW c \in Clients, NEW f \in Frame,
         NEW pc \in {"wait", "drain", "last", "refused"}, Send(c, f, pc)
  PROVE  \E l \in Conn : /\ conn' = [conn EXCEPT ![c] = l] /\ l.pc = pc /\ l.shut = conn[c].shut
                         /\ l.wire = IF conn[c].shut THEN conn[c].wire
                                     ELSE Append(conn[c].wire, f)
<1>1. conn \in [Clients -> Conn] /\ conn[c] \in Conn
  BY DEF StreamInvariant, Typed
<1>2. PICK w : w = IF conn[c].shut THEN conn[c].wire ELSE Append(conn[c].wire, f)
  OBVIOUS
<1>3. conn[c].wire \in Seq(Frame)
  BY <1>1 DEF Conn
<1>4. w \in Seq(Frame)
  BY <1>2, <1>3, FrameAppended
<1>5. PICK l : l = [conn[c] EXCEPT !.pc = pc, !.wire = w]
  OBVIOUS
<1>6. l \in Conn /\ l.pc = pc /\ l.shut = conn[c].shut /\ l.wire = w
  BY <1>1, <1>4, <1>5 DEF Conn
<1>7. conn' = [conn EXCEPT ![c].pc = pc, ![c].wire = w]
  BY <1>2 DEF Send, Write
<1>8. conn' = [conn EXCEPT ![c] = l]
  BY <1>1, <1>5, <1>7 DEF Conn
<1>9. QED
  BY <1>2, <1>6, <1>8

LEMMA HandleLemma ==
  ASSUME StreamInvariant, NEW c \in Clients, Handle(c)
  PROVE  StreamInvariant'
<1>1. PICK k \in Conn : k = conn[c]
  BY RecordsLemma
<1>2. PICK s \in Stream : s = stream[c]
  BY RecordsLemma
<1>3. PICK m \in Reader : m = client[c]
  BY RecordsLemma
<1>4. Holds(k, s, m)
  BY <1>1, <1>2, <1>3, RecordsLemma
<1>5. /\ k.pc = "loop" /\ m.state \in {"asked", "following"} /\ ~k.shut /\ k.wire = <<>>
      /\ conn \in [Clients -> Conn] /\ stream \in [Clients -> Stream] /\ m.follow \in BOOLEAN
      /\ Typed
  BY <1>1, <1>3, LengthsLemma DEF Handle, StreamInvariant, Typed
<1>6. \A i \in 1..Len(k.wire) : k.wire[i].code = "none"
  BY <1>5
<1>7. CASE \E code \in Codes, pc \in {"last", "drain"} :
             Send(c, ErrorFrame(code), pc) /\ (pc = "drain" => ~m.follow) /\ UNCHANGED stream
  <2>1. PICK code \in Codes, pc \in {"last", "drain"} :
          Send(c, ErrorFrame(code), pc) /\ (pc = "drain" => ~m.follow) /\ UNCHANGED stream
    BY <1>7
  <2>2. PICK f \in Frame : f = ErrorFrame(code) /\ f.code # "none" /\ f.events = <<>>
    BY ErrorFrames
  <2>3. PICK l \in Conn : /\ conn' = [conn EXCEPT ![c] = l] /\ l.pc = pc /\ l.shut = k.shut
                          /\ l.wire = IF k.shut THEN k.wire ELSE Append(k.wire, f)
    BY <1>1, <2>1, <2>2, SendLemma
  <2>4. Holds(l, s, m)
    BY <1>4, <1>5, <1>6, <2>1, <2>2, <2>3, RefuseLemma
  <2>5. QED
    BY <1>2, <1>3, <2>1, <2>3, <2>4, ConnLemma DEF Handle
<1>8. CASE /\ m.follow /\ Goto(c, "wait")
           /\ stream' = [stream EXCEPT ![c].cursor = client[c].from, ![c].watcher = "read"]
  <2>1. PICK l : l = [k EXCEPT !.pc = "wait"]
    OBVIOUS
  <2>2. l \in Conn /\ l.pc = "wait" /\ l.wire = <<>> /\ l.shut = k.shut
        /\ conn' = [conn EXCEPT ![c] = l]
    BY <1>1, <1>5, <1>8, <2>1 DEF Goto, Conn
  <2>3. PICK t : t = [s EXCEPT !.cursor = m.from, !.watcher = "read"]
    OBVIOUS
  <2>4. t \in Stream /\ t.cursor = m.from /\ t.watcher = "read" /\ t.queue = s.queue
        /\ stream' = [stream EXCEPT ![c] = t]
    BY <1>2, <1>3, <1>5, <1>8, <2>3, LengthsLemma DEF Stream
  <2>5. s.queue = <<>> /\ m.got = <<>> /\ m.from \in Nat
    BY <1>4, <1>5, <1>8, LengthsLemma DEF Holds, InStep
  <2>6. Got(m) /\ InStep(l, t, m)
    BY <1>4, <1>5, <1>8, <2>2 DEF Holds, InStep
  <2>7. OnWire(l, m) /\ LastWord(l, m) /\ Told(l, m)
    BY <1>5, <2>2 DEF OnWire, LastWord, Told
  <2>8. InQueue(l, t, m)
    <3>1. Len(t.queue) = 0 /\ Len(l.wire) = 0 /\ ~HasEnd(t)
      BY <2>2, <2>4, <2>5 DEF HasEnd
    <3>2. t.cursor = At(m) + Len(l.wire) + Len(t.queue)
      BY <2>4, <2>5, <3>1 DEF At
    <3>3. QED
      BY <2>4, <3>1, <3>2 DEF InQueue
  <2>9. client' = [client EXCEPT ![c] = m] /\ SameRun
    BY <1>3, RecordsLemma DEF Handle
  <2>10. QED
    BY <2>2, <2>4, <2>6, <2>7, <2>8, <2>9, StepLemma DEF Holds
<1>9. CASE /\ ~m.follow /\ UNCHANGED stream
           /\ Send(c, [events |-> Page(Position(c)), code |-> "none",
                       exhausted |-> Exhausted(Position(c))], "drain")
  <2>1. PICK p \in Nat : p = At(m) /\ p = Position(c)
    BY <1>3, LengthsLemma DEF At, Position
  <2>2. PICK e \in Seq(Nat) : e = Page(p)
    BY <1>5, PageLemma
  <2>3. /\ Len(e) \in Nat /\ \A j \in 1..Len(e) : e[j] = p + j
        /\ e # <<>> => p + Len(e) <= Visible
        /\ Exhausted(p) => file.lines <= p + Len(e)
    <3>1. /\ \A j \in 1..Len(Page(p)) : Page(p)[j] = p + j
          /\ Page(p) # <<>> => p + Len(Page(p)) <= Visible
          /\ Exhausted(p) => file.lines <= p + Len(Page(p))
      BY PageLemma DEF StreamInvariant
    <3>2. Len(e) \in Nat
      OBVIOUS
    <3>3. QED
      BY <2>2, <3>1, <3>2
  <2>4. PICK f : f = [events |-> e, code |-> "none", exhausted |-> Exhausted(p)]
    OBVIOUS
  <2>5. f \in Frame /\ f.events = e /\ f.code = "none" /\ f.exhausted = Exhausted(p)
    BY <2>4 DEF Frame, Exhausted, ReachesEnd
  <2>6. PICK l \in Conn : /\ conn' = [conn EXCEPT ![c] = l] /\ l.pc = "drain" /\ l.shut = k.shut
                          /\ l.wire = IF k.shut THEN k.wire ELSE Append(k.wire, f)
    BY <1>1, <1>9, <2>1, <2>2, <2>4, <2>5, SendLemma
  <2>7. l.wire = <<f>> /\ Len(l.wire) = 1 /\ \A i \in 1..Len(l.wire) : l.wire[i] = f /\ i = 1
    BY <1>5, <2>6
  <2>8. Got(m) /\ InStep(l, s, m)
    BY <1>4, <1>5, <1>9, <2>6, <2>7 DEF Holds, InStep
  <2>9. f.exhausted /\ m.final => Settled(p + Len(e))
    BY <1>4, <2>3, <2>5 DEF Holds, Got, Settled
  <2>10. OnWire(l, m)
    BY <1>5, <1>9, <2>1, <2>3, <2>5, <2>7, <2>9 DEF OnWire
  <2>11. InQueue(l, s, m) /\ LastWord(l, m) /\ Told(l, m)
    BY <1>5, <1>9, <2>6 DEF InQueue, LastWord, Told
  <2>12. QED
    BY <1>2, <1>3, <1>9, <2>6, <2>8, <2>10, <2>11, ConnLemma DEF Holds, Handle
<1>10. QED
  <2>1. CASE server # "serving"
    BY <1>7, <2>1 DEF Handle, Codes
  <2>2. CASE server = "serving" /\ m.follow
    BY <1>3, <1>8, <2>2 DEF Handle
  <2>3. CASE server = "serving" /\ ~m.follow /\ Corrupt(Position(c))
    BY <1>3, <1>7, <2>3 DEF Handle, Codes
  <2>4. CASE server = "serving" /\ ~m.follow /\ ~Corrupt(Position(c))
    BY <1>3, <1>9, <2>4 DEF Handle
  <2>5. QED
    BY <1>5, <2>1, <2>2, <2>3, <2>4

LEMMA NextItemLemma ==
  ASSUME StreamInvariant, NEW c \in Clients, NextItem(c)
  PROVE  StreamInvariant'
<1>1. PICK k \in Conn : k = conn[c]
  BY RecordsLemma
<1>2. PICK s \in Stream : s = stream[c]
  BY RecordsLemma
<1>3. PICK m \in Reader : m = client[c]
  BY RecordsLemma
<1>4. Holds(k, s, m)
  BY <1>1, <1>2, <1>3, RecordsLemma
<1>5. /\ k.pc = "wait" /\ m.follow /\ m.state # "new" /\ conn \in [Clients -> Conn]
      /\ stream \in [Clients -> Stream]
  BY <1>1, <1>4 DEF NextItem, Holds, InStep, StreamInvariant, Typed
<1>6. \A i \in 1..Len(k.wire) : k.wire[i].code = "none"
  BY <1>4, <1>5 DEF Holds, OnWire
<1>7. At(m) \in Nat /\ k.wire \in Seq(Frame) /\ Len(k.wire) \in Nat /\ s.queue \in Seq(Nat)
      /\ Len(s.queue) \in Nat /\ s.cursor \in Nat /\ k.shut \in BOOLEAN
  BY LengthsLemma
<1>8. CASE s.failure # "none" /\ Send(c, ErrorFrame(s.failure), "last") /\ UNCHANGED stream
  <2>1. s.failure \in Codes
    BY <1>8 DEF Stream
  <2>2. PICK f \in Frame : f = ErrorFrame(s.failure) /\ f.code # "none" /\ f.events = <<>>
    BY <2>1, ErrorFrames
  <2>3. PICK l \in Conn : /\ conn' = [conn EXCEPT ![c] = l] /\ l.pc = "last" /\ l.shut = k.shut
                          /\ l.wire = IF k.shut THEN k.wire ELSE Append(k.wire, f)
    BY <1>1, <1>8, <2>2, SendLemma
  <2>4. Holds(l, s, m)
    BY <1>4, <1>5, <1>6, <2>2, <2>3, RefuseLemma
  <2>5. QED
    BY <1>2, <1>3, <1>8, <2>3, <2>4, ConnLemma DEF NextItem
<1>9. CASE /\ s.queue # <<>> /\ stream' = [stream EXCEPT ![c].queue = Tail(@)]
           /\ IF Head(s.queue) = End THEN Goto(c, "finish")
              ELSE Send(c, EventFrame(Head(s.queue)), "drain")
  <2>1. PICK q \in Seq(Nat) : q = Tail(s.queue)
    BY <1>7, <1>9, TailLemma
  <2>2. /\ Len(q) = Len(s.queue) - 1 /\ Len(s.queue) > 0 /\ Head(s.queue) = s.queue[1]
        /\ \A j \in 1..Len(q) : q[j] = s.queue[j + 1] /\ j + 1 \in 1..Len(s.queue)
        /\ 1 \in 1..Len(s.queue) /\ s.queue[1] \in Nat
    BY <1>7, <1>9, <2>1, TailLemma, SMTT(30)
  <2>3. PICK t : t = [s EXCEPT !.queue = q]
    OBVIOUS
  <2>4. t \in Stream /\ t.queue = q /\ t.cursor = s.cursor /\ t.watcher = s.watcher
        /\ stream' = [stream EXCEPT ![c] = t]
    BY <1>2, <1>5, <1>9, <2>1, <2>3 DEF Stream
  <2>5. client' = [client EXCEPT ![c] = m] /\ SameRun
    BY <1>3, RecordsLemma DEF NextItem
  <2>6. PICK a \in Nat : a = At(m) + Len(k.wire)
    BY <1>7
  <2>7. ASSUME ~k.shut
        PROVE  /\ \A j \in 1..Len(s.queue) :
                    IF s.queue[j] = End THEN j = Len(s.queue)
                    ELSE s.queue[j] = a + j /\ s.queue[j] <= Visible
               /\ HasEnd(s) => s.watcher = "done" /\ s.cursor + 1 = a + Len(s.queue)
               /\ ~HasEnd(s) => s.cursor = a + Len(s.queue)
               /\ HasEnd(s) \/ s.watcher = "end" => Settled(s.cursor)
    BY <1>4, <1>5, <2>6, <2>7 DEF Holds, InQueue
  <2>8. CASE Head(s.queue) = End /\ Goto(c, "finish")
    <3>1. PICK l : l = [k EXCEPT !.pc = "finish"]
      OBVIOUS
    <3>2. l \in Conn /\ l.pc = "finish" /\ l.wire = k.wire /\ l.shut = k.shut
          /\ conn' = [conn EXCEPT ![c] = l]
      BY <1>1, <1>5, <2>8, <3>1 DEF Goto, Conn
    <3>3. Got(m) /\ InStep(l, t, m) /\ OnWire(l, m)
      BY <1>4, <1>5, <3>2 DEF Holds, InStep, OnWire
    <3>4. InQueue(l, t, m) /\ Told(l, m)
      BY <1>4, <3>2 DEF Holds, InQueue, Told
    <3>5. LastWord(l, m)
      <4> SUFFICES ASSUME ~k.shut
                   PROVE  Settled(At(m) + Len(k.wire))
        BY <3>2 DEF LastWord
      <4>1. Len(s.queue) = 1 /\ HasEnd(s)
        BY <2>2, <2>7, <2>8 DEF HasEnd
      <4>2. s.cursor = a /\ Settled(s.cursor)
        BY <1>7, <2>7, <4>1
      <4>3. QED
        BY <2>6, <4>2
    <3>6. QED
      BY <2>4, <2>5, <3>2, <3>3, <3>4, <3>5, StepLemma DEF Holds
  <2>9. CASE Head(s.queue) # End /\ Send(c, EventFrame(Head(s.queue)), "drain")
    <3>1. PICK n \in Nat : n = s.queue[1] /\ n # End
      BY <2>2, <2>9
    <3>2. PICK f : f = EventFrame(n)
      OBVIOUS
    <3>3. f \in Frame /\ f.code = "none" /\ f.events = <<n>>
      BY <3>2 DEF EventFrame, Frame
    <3>4. PICK l \in Conn : /\ conn' = [conn EXCEPT ![c] = l] /\ l.pc = "drain" /\ l.shut = k.shut
                            /\ l.wire = IF k.shut THEN k.wire ELSE Append(k.wire, f)
      BY <1>1, <2>2, <2>9, <3>1, <3>2, <3>3, SendLemma
    <3>5. Got(m) /\ InStep(l, t, m) /\ LastWord(l, m) /\ Told(l, m)
      BY <1>4, <1>5, <3>4 DEF Holds, InStep, LastWord, Told
    <3>6. CASE k.shut
      <4>1. OnWire(l, m) /\ InQueue(l, t, m)
        BY <1>4, <1>5, <3>4, <3>6 DEF Holds, OnWire, InQueue
      <4>2. QED
        BY <2>4, <2>5, <3>4, <3>5, <4>1, StepLemma DEF Holds
    <3>7. CASE ~k.shut
      <4>1. n = a + 1 /\ n <= Visible
        BY <2>2, <2>7, <3>1, <3>7
      <4>2. l.wire = Append(k.wire, f)
        BY <3>4, <3>7
      <4>3. /\ Len(l.wire) = Len(k.wire) + 1
            /\ \A i \in 1..Len(k.wire) : l.wire[i] = k.wire[i]
            /\ l.wire[Len(k.wire) + 1] = f
            /\ \A i \in 1..Len(l.wire) : i \in 1..Len(k.wire) \/ i = Len(k.wire) + 1
        BY <1>7, <3>3, <4>2, FrameAppended
      <4>4. OnWire(l, m)
        <5>1. ASSUME NEW i \in 1..Len(l.wire)
              PROVE  l.wire[i].code = "none" /\ l.wire[i].events = <<At(m) + i>>
                     /\ At(m) + i <= Visible
          <6>1. CASE i \in 1..Len(k.wire)
            BY <1>4, <1>5, <1>6, <4>3, <6>1 DEF Holds, OnWire
          <6>2. CASE i = Len(k.wire) + 1
            <7>1. At(m) + i = n
              BY <1>7, <2>6, <4>1, <6>2
            <7>2. QED
              BY <3>3, <4>1, <4>3, <6>2, <7>1
          <6>3. QED
            BY <4>3, <6>1, <6>2
        <5>2. QED
          BY <1>5, <5>1 DEF OnWire
      <4>5. InQueue(l, t, m)
        <5>1. At(m) + Len(l.wire) = a + 1
          BY <1>7, <2>6, <4>3
        <5>2. PICK u \in Seq(Nat) : u = s.queue
          BY <1>7
        <5>3. PICK b \in Nat : b = Len(q)
          BY LenProperties
        <5>4. Len(u) = b + 1 /\ \A j \in 1..b : q[j] = u[j + 1] /\ j + 1 \in 1..(b + 1)
          BY <1>7, <2>2, <5>2, <5>3
        <5>5. u[1] # End
          BY <3>1, <5>2
        <5>6. HasEnd(t) <=> b > 0 /\ u[b + 1] = End
          <6>1. HasEnd(t) <=> b > 0 /\ q[b] = End
            BY <2>4, <5>3 DEF HasEnd
          <6>2. b > 0 => b \in 1..b
            OBVIOUS
          <6>3. QED
            BY <5>4, <6>1, <6>2
        <5>7. HasEnd(s) <=> u[b + 1] = End
          BY <5>2, <5>4 DEF HasEnd
        <5>8. HasEnd(t) <=> HasEnd(s)
          <6>1. u[b + 1] = End => b # 0
            BY <5>5
          <6>2. QED
            BY <5>6, <5>7, <6>1
        <5>9. ASSUME NEW j \in 1..b
              PROVE  IF q[j] = End THEN j = b
                     ELSE q[j] = (a + 1) + j /\ q[j] <= Visible
          <6>1. q[j] = u[j + 1] /\ j + 1 \in 1..(b + 1)
            BY <5>4
          <6>2. PICK x \in Nat : x = u[j + 1]
            BY <5>4, <6>1
          <6>3. IF x = End THEN j + 1 = b + 1 ELSE x = a + (j + 1) /\ x <= Visible
            BY <2>7, <3>7, <5>2, <5>4, <6>1, <6>2
          <6>4. IF x = End THEN j = b ELSE x = (a + 1) + j /\ x <= Visible
            BY <6>3
          <6>5. QED
            BY <6>1, <6>2, <6>4
        <5>10. a + Len(s.queue) = (a + 1) + Len(t.queue)
          BY <2>4, <5>2, <5>3, <5>4
        <5>11. \A j \in 1..Len(t.queue) :
                 IF t.queue[j] = End THEN j = Len(t.queue)
                 ELSE t.queue[j] = (a + 1) + j /\ t.queue[j] <= Visible
          BY <2>4, <5>3, <5>9
        <5>12. QED
          BY <2>4, <2>7, <3>7, <5>1, <5>8, <5>10, <5>11 DEF InQueue
      <4>6. QED
        BY <2>4, <2>5, <3>4, <3>5, <4>4, <4>5, StepLemma DEF Holds
    <3>8. QED
      BY <1>7, <3>6, <3>7
  <2>10. QED
    BY <1>9, <2>8, <2>9
<1>10. QED
  BY <1>2, <1>8, <1>9 DEF NextItem

\* A frame the client has read: what was behind it on the wire is behind what it
\* has now.
LEMMA ReadFrame ==
  ASSUME NEW k \in Conn, NEW m \in Reader, k.wire # <<>>, OnWire(k, m)
  PROVE  \E f \in Frame, w \in Seq(Frame) :
           /\ f = Head(k.wire) /\ w = Tail(k.wire) /\ f = k.wire[1] /\ 1 \in 1..Len(k.wire)
           /\ Len(k.wire) = Len(w) + 1 /\ Len(w) \in Nat
           /\ \A i \in 1..Len(w) : w[i] = k.wire[i + 1] /\ i + 1 \in 1..Len(k.wire)
<1>1. k.wire \in Seq(Frame)
  BY DEF Conn
<1>2. PICK u \in Seq(Frame) : u = k.wire /\ u # <<>>
  BY <1>1
<1>3. /\ Tail(u) \in Seq(Frame) /\ Len(Tail(u)) = Len(u) - 1 /\ Len(u) \in Nat \ {0}
      /\ \A i \in 1..Len(Tail(u)) : Tail(u)[i] = u[i + 1] /\ i + 1 \in 1..Len(u)
      /\ Head(u) = u[1] /\ u[1] \in Frame /\ 1 \in 1..Len(u)
  BY <1>2, TailLemma
<1>4. Len(u) = Len(Tail(u)) + 1 /\ Len(Tail(u)) \in Nat
  BY <1>3
<1>5. QED
  BY <1>2, <1>3, <1>4

LEMMA ClientReadLemma ==
  ASSUME StreamInvariant, NEW c \in Clients, ClientRead(c)
  PROVE  StreamInvariant'
<1>1. PICK k \in Conn : k = conn[c]
  BY RecordsLemma
<1>2. PICK s \in Stream : s = stream[c]
  BY RecordsLemma
<1>3. PICK m \in Reader : m = client[c]
  BY RecordsLemma
<1>4. Got(m) /\ InStep(k, s, m) /\ OnWire(k, m) /\ InQueue(k, s, m) /\ LastWord(k, m)
  BY <1>1, <1>2, <1>3, RecordsLemma DEF Holds
<1>5. /\ k.wire # <<>> /\ ~Ended(m) /\ client \in [Clients -> Reader] /\ conn \in [Clients -> Conn]
      /\ UNCHANGED <<file, run, stream>>
  BY <1>1, <1>3 DEF ClientRead, Hungup, Ended, StreamInvariant, Typed
<1>6. PICK f \in Frame, w \in Seq(Frame) :
        /\ f = Head(k.wire) /\ w = Tail(k.wire) /\ f = k.wire[1] /\ 1 \in 1..Len(k.wire)
        /\ Len(k.wire) = Len(w) + 1 /\ Len(w) \in Nat
        /\ \A i \in 1..Len(w) : w[i] = k.wire[i + 1] /\ i + 1 \in 1..Len(k.wire)
  BY <1>4, <1>5, ReadFrame
<1>7. PICK l : l = [k EXCEPT !.wire = w]
  OBVIOUS
<1>8. l \in Conn /\ l.wire = w /\ l.pc = k.pc /\ l.shut = k.shut /\ conn' = [conn EXCEPT ![c] = l]
  BY <1>1, <1>5, <1>6, <1>7 DEF ClientRead, Conn
<1>9. PICK e \in Seq(Nat) : e = f.events
  BY DEF Frame
<1>10. PICK st : st = IF f.code # "none" THEN "failed" ELSE IF m.follow THEN m.state
                      ELSE IF f.exhausted /\ m.final THEN "completed" ELSE "idle"
  OBVIOUS
<1>11. st \in {"new", "idle", "asked", "following", "completed", "failed", "left"}
  BY <1>10 DEF Reader
<1>12. PICK g \in Seq(Nat) : g = m.got \o e
  BY LengthsLemma, ConcatLemma
<1>13. PICK n : n = [m EXCEPT !.got = g, !.state = st]
  OBVIOUS
<1>14. /\ n \in Reader /\ n.got = g /\ n.state = st /\ n.from = m.from /\ n.follow = m.follow
       /\ n.final = m.final
  BY <1>11, <1>13 DEF Reader
<1>15. client' = [client EXCEPT ![c] = n]
  <2>1. client' = [client EXCEPT
                     ![c].got = m.got \o f.events,
                     ![c].state = IF f.code # "none" THEN "failed" ELSE IF m.follow THEN m.state
                                  ELSE IF f.exhausted /\ m.final THEN "completed" ELSE "idle"]
    BY <1>1, <1>3, <1>6 DEF ClientRead
  <2>2. client' = [client EXCEPT ![c].got = g, ![c].state = st]
    BY <1>9, <1>10, <1>12, <2>1
  <2>3. QED
    BY <1>3, <1>5, <1>13, <2>2
<1>16. PICK p \in Nat : p = At(m)
  BY LengthsLemma
<1>17. PICK a \in Nat, b \in Nat : a = Len(m.got) /\ b = Len(e)
  BY LengthsLemma, LenProperties
<1>18. /\ Len(g) = a + b
       /\ \A i \in 1..a : g[i] = m.got[i]
       /\ \A i \in 1..(a + b) : i \in 1..a \/ (i - a \in 1..b /\ g[i] = e[i - a])
  <2>1. PICK x \in Seq(Nat) : x = m.got
    BY LengthsLemma
  <2>2. QED
    BY <1>12, <1>17, <2>1, ConcatLemma
<1>19. m.from \in Nat /\ p = m.from + a /\ At(n) = p + b
  <2>1. m.from \in Nat
    BY LengthsLemma
  <2>2. p = m.from + a
    BY <1>16, <1>17 DEF At
  <2>3. At(n) = m.from + (a + b)
    BY <1>14, <1>18 DEF At
  <2>4. m.from + (a + b) = (m.from + a) + b
    BY <2>1
  <2>5. QED
    BY <2>1, <2>2, <2>3, <2>4
<1>20. Visible \in Nat
  BY PageEndLemma DEF StreamInvariant
<1>21. ASSUME \A j \in 1..b : e[j] = p + j, b > 0 => p + b <= Visible
       PROVE  Got(n)
  <2>1. ASSUME NEW i \in 1..(a + b)
        PROVE  g[i] = m.from + i
    <3>1. CASE i \in 1..a
      BY <1>4, <1>17, <1>18, <3>1 DEF Got
    <3>2. CASE i - a \in 1..b /\ g[i] = e[i - a]
      <4>1. e[i - a] = p + (i - a)
        BY <1>21, <3>2
      <4>2. p + (i - a) = m.from + i
        BY <1>19, SMTT(30)
      <4>3. QED
        BY <3>2, <4>1, <4>2
    <3>3. QED
      BY <1>18, <3>1, <3>2
  <2>2. g # <<>> => p + b <= Visible
    <3>1. CASE b > 0
      BY <1>21, <3>1
    <3>2. CASE b = 0
      <4>1. g # <<>> => a # 0
        BY <1>18, <3>2
      <4>2. a # 0 => m.got # <<>>
        BY <1>17
      <4>3. m.got # <<>> => p <= Visible
        BY <1>4, <1>16 DEF Got
      <4>4. QED
        BY <3>2, <4>1, <4>2, <4>3
    <3>3. QED
      BY <3>1, <3>2
  <2>3. QED
    BY <1>4, <1>14, <1>18, <1>19, <2>1, <2>2 DEF Got
<1>22. /\ n \in Reader /\ SameRun /\ stream' = [stream EXCEPT ![c] = s]
       /\ client' = [client EXCEPT ![c] = n]
  BY <1>2, <1>5, <1>14, <1>15, RecordsLemma
<1>23. m.state # "new" /\ k.pc # "none" /\ k.pc # "accepted" /\ (m.follow => k.pc # "loop")
  BY <1>4, <1>5 DEF InStep
<1>24. CASE f.code # "none"
  <2>1. /\ 1 = Len(k.wire) /\ f.events = <<>> /\ (m.follow => k.pc \notin {"wait", "drain"})
    BY <1>4, <1>6, <1>24 DEF OnWire
  <2>2. b = 0 /\ Len(w) = 0 /\ st = "failed"
    BY <1>6, <1>9, <1>10, <1>17, <1>24, <2>1
  <2>3. Got(n)
    BY <1>21, <2>2
  <2>4. InStep(l, s, n)
    BY <1>4, <1>8, <1>14, <1>23, <2>2 DEF InStep
  <2>5. OnWire(l, n) /\ InQueue(l, s, n)
    BY <1>8, <1>14, <2>1, <2>2 DEF OnWire, InQueue
  <2>6. LastWord(l, n) /\ Told(l, n)
    BY <1>14, <2>2 DEF LastWord, Told, Ended
  <2>7. QED
    BY <1>8, <1>22, <2>3, <2>4, <2>5, <2>6, StepLemma DEF Holds
<1>25. CASE f.code = "none" /\ ~m.follow
  <2>1. /\ \A j \in 1..b : e[j] = p + j
        /\ e # <<>> => p + b <= Visible
        /\ f.exhausted /\ m.final => Settled(p + b)
    BY <1>4, <1>6, <1>9, <1>16, <1>17, <1>25 DEF OnWire
  <2>2. Len(k.wire) = 1 /\ Len(w) = 0
    <3>1. PICK h \in Nat : h = Len(w)
      BY <1>6
    <3>2. Len(k.wire) = h + 1 /\ Len(k.wire) <= 1
      BY <1>4, <1>6, <1>25, <3>1 DEF InStep
    <3>3. h = 0
      BY <3>2
    <3>4. QED
      BY <3>1, <3>2, <3>3
  <2>3. b > 0 => e # <<>>
    BY <1>17
  <2>4. Got(n)
    BY <1>21, <2>1, <2>3
  <2>5. st \in {"idle", "completed"} /\ (st = "completed" => f.exhausted /\ m.final)
    BY <1>10, <1>25
  <2>6. InStep(l, s, n)
    BY <1>4, <1>8, <1>14, <1>23, <1>25, <2>2, <2>5 DEF InStep
  <2>7. OnWire(l, n) /\ InQueue(l, s, n)
    BY <1>8, <1>14, <1>25, <2>2 DEF OnWire, InQueue
  <2>8. LastWord(l, n)
    <3>1. ~k.shut => k.pc \notin {"last", "refused"}
      BY <1>4, <1>5, <1>6, <1>25, <2>2 DEF LastWord
    <3>2. QED
      BY <1>8, <1>14, <1>25, <3>1 DEF LastWord
  <2>9. Told(l, n)
    BY <1>14, <1>19, <2>1, <2>5 DEF Told
  <2>10. QED
    BY <1>8, <1>22, <2>4, <2>6, <2>7, <2>8, <2>9, StepLemma DEF Holds
<1>26. CASE f.code = "none" /\ m.follow
  <2>1. f.events = <<p + 1>> /\ p + 1 <= Visible
    BY <1>4, <1>6, <1>16, <1>26 DEF OnWire
  <2>2. b = 1 /\ \A j \in 1..b : e[j] = p + j
    BY <1>9, <1>17, <2>1
  <2>3. Got(n)
    BY <1>21, <2>1, <2>2
  <2>4. st = m.state
    BY <1>10, <1>26
  <2>5. PICK h \in Nat : h = Len(w)
    BY <1>6
  <2>6. Len(k.wire) = h + 1 /\ At(n) = p + 1 /\ At(n) + h = p + (h + 1)
    BY <1>6, <1>19, <2>2, <2>5
  <2>7. InStep(l, s, n)
    BY <1>4, <1>8, <1>14, <1>23, <1>26, <2>4 DEF InStep
  <2>8. OnWire(l, n)
    <3>1. ASSUME NEW i \in 1..h
          PROVE  /\ w[i].code # "none" =>
                      i = h /\ w[i].events = <<>> /\ k.pc \notin {"wait", "drain"}
                 /\ w[i].code = "none" =>
                      w[i].events = <<(p + 1) + i>> /\ (p + 1) + i <= Visible
      <4>1. w[i] = k.wire[i + 1] /\ i + 1 \in 1..Len(k.wire)
        BY <1>6, <2>5
      <4>2. i + 1 = h + 1 => i = h
        BY <2>5
      <4>3. p + (i + 1) = (p + 1) + i
        BY <2>5
      <4>4. /\ w[i].code # "none" =>
                 i + 1 = h + 1 /\ w[i].events = <<>> /\ k.pc \notin {"wait", "drain"}
            /\ w[i].code = "none" =>
                 w[i].events = <<p + (i + 1)>> /\ p + (i + 1) <= Visible
        BY <1>4, <1>16, <1>26, <2>6, <4>1 DEF OnWire
      <4>5. QED
        BY <4>2, <4>3, <4>4
    <3>2. QED
      BY <1>8, <1>14, <1>26, <2>5, <2>6, <3>1 DEF OnWire
  <2>9. InQueue(l, s, n)
    <3>1. At(n) + Len(l.wire) = At(m) + Len(k.wire)
      BY <1>8, <1>16, <2>5, <2>6
    <3>2. QED
      BY <1>4, <1>8, <1>14, <3>1 DEF InQueue
  <2>10. LastWord(l, n)
    <3>1. At(n) + Len(l.wire) = At(m) + Len(k.wire)
      BY <1>8, <1>16, <2>5, <2>6
    <3>2. k.wire[Len(k.wire)].code # "none" => l.wire # <<>> /\ l.wire[Len(l.wire)].code # "none"
      <4> HAVE k.wire[Len(k.wire)].code # "none"
      <4>1. h # 0
        BY <1>6, <1>26, <2>6
      <4>2. h \in 1..h
        BY <2>5, <4>1
      <4>3. w[h] = k.wire[h + 1] /\ w # <<>>
        BY <1>6, <2>5, <4>1, <4>2
      <4>4. QED
        BY <1>8, <2>5, <2>6, <4>3
    <3>3. ~Ended(n) => ~Ended(m)
      BY <1>14, <2>4 DEF Ended
    <3>4. QED
      BY <1>4, <1>8, <1>14, <3>1, <3>2, <3>3 DEF LastWord
  <2>11. Told(l, n)
    BY <1>5, <1>14, <2>4 DEF Told, Ended
  <2>12. QED
    BY <1>8, <1>22, <2>3, <2>7, <2>8, <2>9, <2>10, <2>11, StepLemma DEF Holds
<1>27. QED
  BY <1>24, <1>25, <1>26, LengthsLemma

-----------------------------------------------------------------------------
(* The theorems *)

LEMMA InitLemma == Init => StreamInvariant
<1> SUFFICES ASSUME Init
             PROVE  StreamInvariant
  OBVIOUS
<1>1. PICK k : k = [pc |-> "none", shut |-> FALSE, wire |-> <<>>]
  OBVIOUS
<1>2. k \in Conn /\ k.pc = "none" /\ k.shut = FALSE /\ k.wire = <<>>
  <2>1. <<>> \in Seq(Frame)
    OBVIOUS
  <2>2. QED
    BY <1>1, <2>1 DEF Conn
<1>3. PICK s : s = [cursor |-> 0, queue |-> <<>>, failure |-> "none", closed |-> FALSE,
                    watcher |-> "none"]
  OBVIOUS
<1>4. s \in Stream /\ s.queue = <<>> /\ s.watcher = "none"
  <2>1. <<>> \in Seq(Nat)
    OBVIOUS
  <2>2. QED
    BY <1>3, <2>1 DEF Stream
<1>5. conn = [c \in Clients |-> k] /\ stream = [c \in Clients |-> s]
  BY <1>1, <1>3 DEF Init
<1>6. ASSUME NEW c \in Clients
      PROVE  client[c] \in Reader /\ Holds(conn[c], stream[c], client[c])
  <2>1. client[c] \in [follow : BOOLEAN, state : {"new"}, from : Starts,
                       got : {<<>>}, final : {FALSE}]
    BY DEF Init
  <2>2. PICK m : m = client[c]
    OBVIOUS
  <2>3. Starts \subseteq Nat
    BY ReadersAssumption
  <2>4. m \in Reader /\ m.state = "new" /\ m.got = <<>> /\ m.final = FALSE
    <3>1. <<>> \in Seq(Nat)
      OBVIOUS
    <3>2. {<<>>} \subseteq Seq(Nat)
      BY <3>1
    <3>3. m \in [follow : BOOLEAN, state : {"new"}, from : Starts, got : {<<>>}, final : {FALSE}]
      BY <2>1, <2>2
    <3>4. m.state = "new" /\ m.got = <<>> /\ m.final = FALSE
      BY <3>3
    <3>5. m \in Reader
      BY <2>3, <3>2, <3>3 DEF Reader
    <3>6. QED
      BY <3>4, <3>5
  <2>5. Got(m)
    BY <2>4 DEF Got
  <2>6. InStep(k, s, m) /\ OnWire(k, m)
    BY <1>2, <1>4, <2>4 DEF InStep, OnWire
  <2>7. InQueue(k, s, m) /\ LastWord(k, m) /\ Told(k, m)
    BY <1>2, <2>4 DEF InQueue, LastWord, Told
  <2>8. QED
    BY <1>5, <2>2, <2>4, <2>5, <2>6, <2>7 DEF Holds
<1>7. Typed /\ Orderly
  <2>1. conn \in [Clients -> Conn] /\ stream \in [Clients -> Stream]
    BY <1>2, <1>4, <1>5
  <2>2. client \in [Clients -> Reader]
    BY <1>6 DEF Init
  <2>3. QED
    BY <2>1, <2>2 DEF Init, Typed, Orderly
<1>8. QED
  BY <1>6, <1>7 DEF StreamInvariant

LEMMA NextLemma ==
  ASSUME StreamInvariant, [Next]_vars
  PROVE  StreamInvariant'
<1>1. CASE UNCHANGED vars
  <2>1. SameRun /\ UNCHANGED <<conn, stream, client>>
    BY <1>1, UnchangedRunLemma DEF vars, StreamInvariant
  <2>2. Steady /\ Orderly'
    BY <2>1, SameRunLemma DEF StreamInvariant
  <2>3. \A c \in Clients : Holds(conn[c], stream[c], client[c])'
    BY <2>1, <2>2, KeepAllLemma
  <2>4. Typed'
    BY <2>1 DEF StreamInvariant, Typed, SameRun
  <2>5. QED
    BY <2>2, <2>3, <2>4 DEF StreamInvariant
<1>2. CASE Writer
  BY <1>2, WriterLemma
<1>3. CASE Shutdown \/ Lifecycle
  BY <1>3, LifecycleLemma
<1>4. ASSUME NEW c \in Clients, Connection(c)
      PROVE  StreamInvariant'
  BY <1>4, ServeLemma, HandleLemma, LoopEndsLemma, DrainedLemma, NextItemLemma, PeerEofLemma,
     FinishLemma DEF Connection
<1>5. ASSUME NEW c \in Clients, Watcher(c)
      PROVE  StreamInvariant'
  BY <1>5, WatchPageLemma, WatchAgainLemma, WatchEndLemma, WatchContainedLemma DEF Watcher
<1>6. ASSUME NEW c \in Clients, Caller(c)
      PROVE  StreamInvariant'
  BY <1>6, ConnectLemma, AskLemma, ClientReadLemma, EofLemma, LeavesLemma DEF Caller
<1>7. QED
  BY <1>1, <1>2, <1>3, <1>4, <1>5, <1>6 DEF Next

\* What the daemon and its readers keep true of each other at every step.
THEOREM StreamInvariantHolds == Spec => []StreamInvariant
<1>1. StreamInvariant /\ [Next]_vars => StreamInvariant'
  BY NextLemma
<1>2. QED
  BY <1>1, InitLemma, PTL DEF Spec

\* A reader, pager or follower, has the events that follow its from_seq, in order,
\* each once and none left out, and none that the file does not hold as a line:
\* _read_events_page, the bounded queue, the frames and the client lose nothing
\* and repeat nothing, whatever the limits.
THEOREM GapFreeHolds == Spec => []GapFree
<1>1. StreamInvariant => GapFree
  <2> SUFFICES ASSUME StreamInvariant, NEW c \in Clients
               PROVE  /\ client[c].got = [i \in 1..Len(client[c].got) |-> client[c].from + i]
                      /\ client[c].got # <<>> => Position(c) <= Visible
    BY DEF GapFree
  <2>1. PICK m \in Reader : m = client[c] /\ Got(m)
    BY RecordsLemma DEF Holds
  <2>2. PICK g \in Seq(Nat) : g = m.got
    BY DEF Reader
  <2>3. g = [i \in 1..Len(g) |-> m.from + i]
    BY <2>1, <2>2, SMTT(30) DEF Got
  <2>4. QED
    BY <2>1, <2>2, <2>3 DEF Got, At, Position
<1>2. QED
  BY <1>1, StreamInvariantHolds, PTL

\* A reader whom the daemon told that there is no more has every event of a Run
\* whose terminal came after its ledger ended, unless a shutdown closed it.
THEOREM ToldOnlyWhenCompleteHolds == Spec => []ToldOnlyWhenComplete
<1>1. StreamInvariant => ToldOnlyWhenComplete
  <2> SUFFICES ASSUME StreamInvariant, NEW c \in Clients,
                      client[c].state = "completed", run.orderly, ~conn[c].shut
               PROVE  Complete(c)
    BY DEF ToldOnlyWhenComplete
  <2>1. Told(conn[c], client[c]) /\ client[c] \in Reader /\ conn[c] \in Conn /\ stream[c] \in Stream
    BY RecordsLemma DEF Holds
  <2>2. file.lines <= At(client[c])
    BY <2>1 DEF Told, Settled
  <2>3. At(client[c]) \in Nat /\ file.lines \in Nat
    BY <2>1, LengthsLemma DEF StreamInvariant, Typed
  <2>4. QED
    BY <2>2, <2>3 DEF Complete, Position, At
<1>2. QED
  BY <1>1, StreamInvariantHolds, PTL
=============================================================================
