---------------------------- MODULE SessionPromise ----------------------------
(***************************************************************************)
(* What a Session promises those who use it.  One Run works on it at a     *)
(* time.  A prompt leaves only for a Session that its Run holds, that is   *)
(* open, and over which no earlier prompt is uncertain.  A Session is      *)
(* closed to new Runs only because of a Run that has no terminal yet, and  *)
(* for good.  A terminal is published once; one for an uncertain prompt,   *)
(* only after the Session is closed; completed, only after an answer.  A   *)
(* Run hands the Session over only behind its terminal.                    *)
(*                                                                         *)
(* A Run may stop at any moment, alone or because the daemon dies, and     *)
(* then somebody else may close the Session or publish for it.             *)
(***************************************************************************)
CONSTANTS Runs, NoRun

VARIABLES
  begun,     \* the Runs that were started
  working,   \* those that are at work
  holder,    \* the Run that took the Session last and has not handed it over
  closed,    \* no new Run is let in
  turn,      \* per Run: its prompt is "none", "prompted" or "answered"
  terminal   \* per Run: "absent" or the terminal it was given

vars == <<begun, working, holder, closed, turn, terminal>>

Uncertain(r) == turn[r] = "prompted"

Init ==
  /\ begun = {} /\ working = {} /\ holder = NoRun /\ closed = FALSE
  /\ turn = [r \in Runs |-> "none"] /\ terminal = [r \in Runs |-> "absent"]

\* Nobody starts beside another Run, or over an uncertainty that is still open.
Begin(r) ==
  /\ working = {} /\ r \notin begun
  /\ \A q \in Runs : Uncertain(q) => closed
  /\ begun' = begun \cup {r} /\ working' = {r}
  /\ UNCHANGED <<holder, closed, turn, terminal>>

Take(r) ==
  /\ r \in working /\ ~closed
  /\ holder' = r
  /\ UNCHANGED <<begun, working, closed, turn, terminal>>

Prompt(r) ==
  /\ r \in working /\ holder = r /\ ~closed
  /\ turn[r] = "none" /\ \A q \in Runs : ~Uncertain(q)
  /\ turn' = [turn EXCEPT ![r] = "prompted"]
  /\ UNCHANGED <<begun, working, holder, closed, terminal>>

Answer(r) ==
  /\ r \in working /\ Uncertain(r)
  /\ turn' = [turn EXCEPT ![r] = "answered"]
  /\ UNCHANGED <<begun, working, holder, closed, terminal>>

\* Because of Run r: by itself, or once it has stopped.
Close(r) ==
  /\ ~closed /\ r \in begun /\ terminal[r] = "absent" /\ working \subseteq {r}
  /\ closed' = TRUE
  /\ UNCHANGED <<begun, working, holder, turn, terminal>>

\* By itself, perhaps as the last thing it does, or once it has stopped.
Publish(r, status) ==
  /\ r \in begun /\ terminal[r] = "absent" /\ working \subseteq {r}
  /\ Uncertain(r) \/ status = "unknown" => closed
  /\ status = "completed" => turn[r] = "answered"
  /\ terminal' = [terminal EXCEPT ![r] = status]
  /\ working' \in {working, {}}
  /\ UNCHANGED <<begun, holder, closed, turn>>

HandOver(r) ==
  /\ r \in working /\ holder = r
  /\ terminal[r] # "absent" /\ (Uncertain(r) => closed)
  /\ holder' = NoRun /\ working' = {}
  /\ UNCHANGED <<begun, closed, turn, terminal>>

Stop ==
  /\ working' = {}
  /\ UNCHANGED <<begun, holder, closed, turn, terminal>>

Next ==
  \/ \E r \in Runs : \/ Begin(r) \/ Take(r) \/ Prompt(r) \/ Answer(r) \/ Close(r) \/ HandOver(r)
                     \/ \E status \in {"completed", "failed", "cancelled", "timed_out", "unknown"} :
                          Publish(r, status)
  \/ Stop

Spec == Init /\ [][Next]_vars
=============================================================================
