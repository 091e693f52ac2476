--------------------------- MODULE PermissionBridge ---------------------------
(***************************************************************************)
(* The default-deny mediation of one turn: what the bridge decides about   *)
(* permission requests and file reads, and the tool calls it holds against *)
(* those decisions when they complete.  Updates and requests reach it one  *)
(* at a time in the order they were sent, which is Conversation's affair.  *)
(*                                                                         *)
(* A kind is a read-like one, the write-family one, one that no grant      *)
(* allows, one that is not registered, or "none" when it is not declared.  *)
(* Whether every location of a request is proven to be in the workspace,   *)
(* and whether a once-scoped allow is offered, are inputs.                 *)
(***************************************************************************)
EXTENDS Naturals, FiniteSets, Sequences

CONSTANTS
  Calls,      \* tool call ids
  RealKind,   \* what each call really is
  Grants,     \* the grants to consider: sets of capabilities
  OpenLimit   \* _OPEN_TOOL_CALL_LIMIT

ASSUME BridgeAssumption ==
  /\ Grants \subseteq SUBSET {"read", "write"}
  /\ OpenLimit \in Nat \ {0}
  /\ RealKind \in [Calls -> {"read", "edit", "think"}]

Kinds == {"read", "edit", "think", "unregistered", "none"}

VARIABLES
  bridge,  \* the PermissionBridge
  agent    \* external: the truth about the agent's calls

vars == <<bridge, agent>>

READ_KINDS == {"read"}
TERMINAL == {"completed", "failed"}

\* _WRITE_FAMILY_REQUIRED_CAPABILITY, and the absence of one.
Required(kind) == IF kind = "edit" THEN "write" ELSE "none"

\* The state of a PermissionBridge.  An open call's kind is the one its id has
\* declared: both are written by the same updates.
NewBridge(grant) ==
  [capabilities |-> grant,
   kinds     |-> [c \in Calls |-> "none"],
   open      |-> {}, truncated |-> FALSE, terminal |-> {},
   denied    |-> [c \in Calls |-> "none"],
   turnFailed |-> FALSE,
   violations |-> <<>>]

Init ==
  /\ \E grant \in Grants : bridge = NewBridge(grant)
  /\ agent = [running |-> {}, ended |-> {}, declared |-> {}, contradicts |-> {},
              refused |-> [c \in Calls |-> {}]]

-----------------------------------------------------------------------------
(* The lifecycle of the turn's tool calls *)

\* _open_call: past the limit the picture is incomplete for good.
OpenCall(b, c) ==
  IF b.truncated THEN b
  ELSE IF c \notin b.open /\ Cardinality(b.open) >= OpenLimit THEN [b EXCEPT !.truncated = TRUE]
  ELSE [b EXCEPT !.open = @ \cup {c}]

\* _close_call
CloseCall(b, c) == [b EXCEPT !.open = @ \ {c}, !.terminal = @ \cup {c}]

\* _violation_for_completion: a denied call completed, or one of the write
\* family did without the capability.
CheckCompletion(b, c) ==
  IF b.denied[c] # "none"
  THEN [b EXCEPT !.violations = Append(@, <<c, "completed_after_deny">>)]
  ELSE IF Required(b.kinds[c]) \notin b.capabilities \cup {"none"}
  THEN [b EXCEPT !.violations = Append(@, <<c, "missing_grant_capability">>)]
  ELSE b

\* observe_tool_update: a call ends once; the checks of a terminal update run
\* while it is still open.
ObserveToolUpdate(b, c, kind, status) ==
  IF c \in b.terminal THEN b
  ELSE LET typed == IF kind = "none" THEN b ELSE [b EXCEPT !.kinds[c] = kind] IN
       CASE status = "completed" -> CloseCall(CheckCompletion(typed, c), c)
         [] status = "failed"    -> CloseCall(typed, c)
         [] OTHER                -> OpenCall(typed, c)

-----------------------------------------------------------------------------
(* Decisions *)

\* The first refusal of a call is the one remembered.
Deny(b, c, surface) ==
  IF b.denied[c] = "none" THEN [b EXCEPT !.denied[c] = surface] ELSE b

\* decide_permission_request allows a read-like kind under the read capability
\* at proven locations, and a write-family kind under its own; either needs a
\* once-scoped option.
AllowsRequest(b, kind, inside, once) ==
  /\ once
  /\ \/ kind \in READ_KINDS /\ "read" \in b.capabilities /\ inside
     \/ Required(kind) # "none" /\ Required(kind) \in b.capabilities

\* Mutant: a later request that is allowed makes up for the refusal.
DecideForgives(b, c, kind, inside, once) ==
  LET asked == IF kind = "none" THEN [b EXCEPT !.turnFailed = TRUE] ELSE b IN
  IF AllowsRequest(b, kind, inside, once) THEN [asked EXCEPT !.denied[c] = "none"]
  ELSE Deny(asked, c, "permission")

\* A request without a kind is one nobody can answer: the turn fails too.
DecidePermissionRequest(b, c, kind, inside, once) ==
  LET asked == IF kind = "none" THEN [b EXCEPT !.turnFailed = TRUE] ELSE b IN
  IF AllowsRequest(b, kind, inside, once) THEN asked ELSE Deny(asked, c, "permission")

AllowsRead(b, inside) == "read" \in b.capabilities /\ inside

\* Mutant: the only read among the open calls is taken for the one that reads.
SoleReadCall(b, kinds) ==
  LET reads == {c \in b.open : b.kinds[c] \in kinds} IN
  IF b.truncated \/ Cardinality(reads) # 1 THEN {} ELSE reads

\* _sole_open_call_if_kind: the one open call, if it is of these kinds.
SoleOpenCallIfKind(b, kinds) ==
  IF b.truncated \/ Cardinality(b.open) # 1 THEN {}
  ELSE {c \in b.open : b.kinds[c] \in kinds}

\* decide_fs_read and _deny_fs_read: the request names no call.
DecideFsRead(b, inside) ==
  IF AllowsRead(b, inside) THEN b
  ELSE LET sole == SoleOpenCallIfKind(b, READ_KINDS) IN
       IF sole = {} THEN b ELSE Deny(b, CHOOSE c \in sole : TRUE, "fs_read")

-----------------------------------------------------------------------------
(* The agent: external, cooperative, and free in what it sends *)

\* A call lacks the capability that its kind requires.
Ungranted(c) == Required(RealKind[c]) \notin bridge.capabilities \cup {"none"}

\* tool_call and tool_call_update, and what it makes true of the call: the first
\* terminal status ends it, rightly or not.
Update(c, kind, status) ==
  LET first == c \notin agent.ended
      declared == agent.declared \cup IF kind # "none" THEN {c} ELSE {}
      refused == "ask" \in agent.refused[c] IN
  /\ bridge' = ObserveToolUpdate(bridge, c, kind, status)
  /\ agent' =
       [agent EXCEPT
          !.declared = declared,
          !.running = IF ~first THEN @ ELSE IF status = "open" THEN @ \cup {c} ELSE @ \ {c},
          !.ended = IF status \in TERMINAL THEN @ \cup {c} ELSE @,
          !.contradicts = IF /\ first /\ status = "completed"
                             /\ refused \/ (c \in declared /\ Ungranted(c))
                          THEN @ \cup {c} ELSE @]

\* A kind may be left out, and an update may repeat what is over.
SendUpdate ==
  \E c \in Calls, status \in {"open"} \cup TERMINAL :
    \E kind \in {RealKind[c], "none"} : Update(c, kind, status)

\* session/request_permission, with the call's kind, without one, or with one
\* that is not registered.
SendRequest ==
  \E c \in Calls, inside, once \in BOOLEAN :
    \E kind \in {RealKind[c], "none", "unregistered"} :
      /\ bridge' = DecidePermissionRequest(bridge, c, kind, inside, once)
      /\ agent' = IF AllowsRequest(bridge, kind, inside, once) THEN agent
                  ELSE [agent EXCEPT !.refused[c] = @ \cup {"ask"}]

\* fs/read_text_file on behalf of a call, which ARS is not told.  The agent
\* reads only for a call that it announced in this turn and that is not over.
SendRead ==
  \E c \in agent.running, inside \in BOOLEAN :
    /\ bridge' = DecideFsRead(bridge, inside)
    /\ agent' = IF AllowsRead(bridge, inside) THEN agent
                ELSE [agent EXCEPT !.refused[c] = @ \cup {"read"}]

Next == SendUpdate \/ SendRequest \/ SendRead

Spec == Init /\ [][Next]_vars

-----------------------------------------------------------------------------
(* Properties *)

TypeOK ==
  /\ bridge.capabilities \in Grants
  /\ bridge.kinds \in [Calls -> Kinds]
  /\ bridge.denied \in [Calls -> {"none", "permission", "fs_read"}]
  /\ bridge.open \subseteq Calls /\ Cardinality(bridge.open) <= OpenLimit
  /\ bridge.terminal \subseteq Calls \ bridge.open
  /\ bridge.truncated \in BOOLEAN /\ bridge.turnFailed \in BOOLEAN
  /\ agent.running \subseteq Calls /\ agent.ended \subseteq Calls

\* The violations recorded, each a call and what it is accused of.
Accusations == DOMAIN bridge.violations
Accused(i) == bridge.violations[i][1]
Charge(i) == bridge.violations[i][2]

\* No call is accused that did nothing wrong: of completing after a refusal only
\* if a request on its own behalf was refused, of a missing capability only if
\* it needs one; and no call is accused twice.
AccusedIsGuilty ==
  /\ \A i, j \in Accusations : Accused(i) = Accused(j) => i = j
  /\ \A i \in Accusations :
       \/ Charge(i) = "completed_after_deny" /\ agent.refused[Accused(i)] # {}
       \/ Charge(i) = "missing_grant_capability" /\ Ungranted(Accused(i))

\* A call that completed after its permission was refused, or of a declared kind
\* that the grant does not cover, is accused, whatever was sent in between.
GuiltyIsAccused ==
  \A c \in agent.contradicts : \E i \in Accusations : Accused(i) = c
=============================================================================
