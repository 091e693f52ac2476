------------------------------ MODULE DurableLog ------------------------------
(***************************************************************************)
(* What the evidence pipeline promises its Run: an append-only log whose   *)
(* lines are written one at a time and in order, an acknowledged watermark *)
(* that never passes the written lines, and a verdict.  "closed" is the    *)
(* only verdict that lets a Run's evidence be trusted as complete.         *)
(***************************************************************************)
EXTENDS Naturals

VARIABLES
  accepted,  \* events given a sequence number
  lines,     \* lines in the file
  acked,     \* events acknowledged as durable
  verdict    \* "open", "closed" (complete) or "failed"

vars == <<accepted, lines, acked, verdict>>

Init == accepted = 0 /\ lines = 0 /\ acked = 0 /\ verdict = "open"

Accept ==
  /\ verdict = "open"
  /\ accepted' = accepted + 1
  /\ UNCHANGED <<lines, acked, verdict>>

\* The next line; a failed log may still gain the one that was under way.
Write ==
  /\ verdict # "closed"
  /\ lines = acked /\ lines < accepted
  /\ lines' = lines + 1
  /\ UNCHANGED <<accepted, acked, verdict>>

\* Acknowledging one line may be when a later event's failure is noticed.
Acknowledge ==
  /\ verdict # "closed"
  /\ lines = acked + 1
  /\ acked' = lines
  /\ verdict' \in {verdict, "failed"}
  /\ UNCHANGED <<accepted, lines>>

Fail ==
  /\ verdict = "open"
  /\ verdict' = "failed"
  /\ UNCHANGED <<accepted, lines, acked>>

\* Only a log with every accepted event acknowledged closes.
CloseComplete ==
  /\ verdict = "open" /\ acked = accepted /\ lines = accepted
  /\ verdict' = "closed"
  /\ UNCHANGED <<accepted, lines, acked>>

Next == Accept \/ Write \/ Acknowledge \/ Fail \/ CloseComplete

Spec == Init /\ [][Next]_vars
=============================================================================
