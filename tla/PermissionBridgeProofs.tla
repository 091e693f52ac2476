------------------------ MODULE PermissionBridgeProofs ------------------------
(***************************************************************************)
(* What is proved about PermissionBridge, for any calls, grants and limit: *)
(* the accusations are just and complete.  A file read names no call, so   *)
(* that the bridge blames the right one rests on the two pictures of the   *)
(* open calls, the bridge's and the agent's, being one until it overflows. *)
(***************************************************************************)
EXTENDS PermissionBridge, FiniteSetTheorems, TLAPS

Charges == {"completed_after_deny", "missing_grant_capability"}

\* The records have their fields.
BridgeType ==
  [capabilities : Grants, kinds : [Calls -> Kinds],
   open : SUBSET Calls, truncated : BOOLEAN, terminal : SUBSET Calls,
   denied : [Calls -> {"none", "permission", "fs_read"}],
   turnFailed : BOOLEAN, violations : Seq(Calls \X Charges)]

Typed ==
  /\ bridge \in BridgeType
  /\ agent \in [running : SUBSET Calls, ended : SUBSET Calls, declared : SUBSET Calls,
                contradicts : SUBSET Calls, refused : [Calls -> SUBSET {"ask", "read"}]]

\* What the bridge believes of the calls, against the truth about them.
OnePicture ==
  /\ bridge.terminal = agent.ended /\ bridge.open \cap bridge.terminal = {}
  /\ ~bridge.truncated => bridge.open = agent.running
  /\ \A c \in Calls :
       /\ bridge.kinds[c] \in {"none", RealKind[c]}
       /\ c \in agent.declared /\ c \notin agent.ended => bridge.kinds[c] = RealKind[c]

\* A refusal that is remembered was given, and one of a call's own is remembered.
Remembered ==
  \A c \in Calls :
    /\ bridge.denied[c] # "none" => agent.refused[c] # {}
    /\ "ask" \in agent.refused[c] => bridge.denied[c] # "none"

\* Only a call that is over is accused, and once.
Judged == \A i \in Accusations : Accused(i) \in bridge.terminal

Bounded == IsFiniteSet(bridge.open) /\ Cardinality(bridge.open) <= OpenLimit

BridgeInvariant ==
  Typed /\ OnePicture /\ Remembered /\ Judged /\ Bounded /\ AccusedIsGuilty /\ GuiltyIsAccused

-----------------------------------------------------------------------------
(* What an update does to the bridge, field by field *)

\* n is b with at most an accusation of c more, and what that says of c.
Completed(b, c, n) ==
  /\ n \in BridgeType
  /\ n.capabilities = b.capabilities /\ n.kinds = b.kinds /\ n.open = b.open
  /\ n.truncated = b.truncated /\ n.terminal = b.terminal /\ n.denied = b.denied
  /\ \/ /\ n.violations = b.violations /\ b.denied[c] = "none"
        /\ Required(b.kinds[c]) \in b.capabilities \cup {"none"}
     \/ /\ n.violations = Append(b.violations, <<c, "completed_after_deny">>)
        /\ b.denied[c] # "none"
     \/ /\ n.violations = Append(b.violations, <<c, "missing_grant_capability">>)
        /\ Required(b.kinds[c]) \notin b.capabilities \cup {"none"}

LEMMA CompletionLemma ==
  ASSUME NEW b \in BridgeType, NEW c \in Calls
  PROVE  Completed(b, c, CheckCompletion(b, c))
<1> USE DEF Completed
<1>0. PICK n : n = CheckCompletion(b, c)
  OBVIOUS
<1>1. CASE b.denied[c] # "none"
  <2>1. n = [b EXCEPT !.violations = Append(b.violations, <<c, "completed_after_deny">>)]
    BY <1>0, <1>1 DEF CheckCompletion
  <2>2. Append(b.violations, <<c, "completed_after_deny">>) \in Seq(Calls \X Charges)
    BY DEF BridgeType, Charges
  <2>3. QED
    BY <1>0, <1>1, <2>1, <2>2, ZenonT(60) DEF BridgeType
<1>2. CASE b.denied[c] = "none" /\ Required(b.kinds[c]) \notin b.capabilities \cup {"none"}
  <2>1. n = [b EXCEPT !.violations = Append(b.violations, <<c, "missing_grant_capability">>)]
    BY <1>0, <1>2 DEF CheckCompletion
  <2>2. Append(b.violations, <<c, "missing_grant_capability">>) \in Seq(Calls \X Charges)
    BY DEF BridgeType, Charges
  <2>3. /\ n \in BridgeType
        /\ n.capabilities = b.capabilities /\ n.kinds = b.kinds /\ n.open = b.open
        /\ n.truncated = b.truncated /\ n.terminal = b.terminal /\ n.denied = b.denied
        /\ n.violations = Append(b.violations, <<c, "missing_grant_capability">>)
    BY <2>1, <2>2 DEF BridgeType
  <2>4. QED
    BY <1>0, <1>2, <2>3
<1>3. CASE b.denied[c] = "none" /\ Required(b.kinds[c]) \in b.capabilities \cup {"none"}
  BY <1>0, <1>3 DEF CheckCompletion
<1>4. QED
  BY <1>1, <1>2, <1>3

\* n is b after observe_tool_update of a call c that is not over.
Observed(b, c, kind, status, n) ==
  LET kinds == IF kind = "none" THEN b.kinds ELSE [b.kinds EXCEPT ![c] = kind] IN
  /\ n \in BridgeType
  /\ n.capabilities = b.capabilities /\ n.denied = b.denied /\ n.kinds = kinds
  /\ n.terminal = IF status = "open" THEN b.terminal ELSE b.terminal \cup {c}
  /\ status # "open" => n.open = b.open \ {c} /\ n.truncated = b.truncated
  /\ status = "open" =>
       \/ n.truncated /\ n.open = b.open
       \/ /\ ~n.truncated /\ ~b.truncated /\ n.open = b.open \cup {c}
          /\ c \in b.open \/ ~(Cardinality(b.open) >= OpenLimit)
  /\ \/ /\ n.violations = b.violations
        /\ status = "completed" => /\ b.denied[c] = "none"
                                   /\ Required(kinds[c]) \in b.capabilities \cup {"none"}
     \/ /\ n.violations = Append(b.violations, <<c, "completed_after_deny">>)
        /\ status = "completed" /\ b.denied[c] # "none"
     \/ /\ n.violations = Append(b.violations, <<c, "missing_grant_capability">>)
        /\ status = "completed" /\ Required(kinds[c]) \notin b.capabilities \cup {"none"}

LEMMA ObserveLemma ==
  ASSUME NEW b \in BridgeType, NEW c \in Calls, c \notin b.terminal,
         NEW kind \in Kinds, NEW status \in {"open"} \cup TERMINAL
  PROVE  Observed(b, c, kind, status, ObserveToolUpdate(b, c, kind, status))
<1> PICK n : n = ObserveToolUpdate(b, c, kind, status)
  OBVIOUS
<1> PICK kinds : kinds = IF kind = "none" THEN b.kinds ELSE [b.kinds EXCEPT ![c] = kind]
  OBVIOUS
<1> USE DEF Observed
<1>0. PICK t : t = IF kind = "none" THEN b ELSE [b EXCEPT !.kinds[c] = kind]
  OBVIOUS
<1>1. /\ t \in BridgeType /\ t.kinds = kinds
      /\ t.capabilities = b.capabilities /\ t.open = b.open /\ t.truncated = b.truncated
      /\ t.terminal = b.terminal /\ t.denied = b.denied /\ t.violations = b.violations
  <2>1. CASE kind = "none"
    BY <1>0, <2>1
  <2>2. CASE kind # "none"
    <3>1. t = [b EXCEPT !.kinds = kinds]
      BY <1>0, <2>2 DEF BridgeType
    <3>2. kinds \in [Calls -> Kinds]
      BY DEF BridgeType
    <3>3. QED
      BY <2>2, <3>1, <3>2 DEF BridgeType
  <2>3. QED
    BY <2>1, <2>2
<1>2. CASE status = "completed"
  <2>1. PICK m : m = CheckCompletion(t, c)
    OBVIOUS
  <2>2. n = CloseCall(m, c)
    BY <1>0, <1>2, <2>1 DEF ObserveToolUpdate
  <2>3. Completed(t, c, m)
    BY <1>1, <2>1, CompletionLemma
  <2>4. n = [m EXCEPT !.open = m.open \ {c}, !.terminal = m.terminal \cup {c}]
    BY <2>2 DEF CloseCall
  <2>5. /\ n \in BridgeType /\ n.open = m.open \ {c} /\ n.terminal = m.terminal \cup {c}
        /\ n.capabilities = m.capabilities /\ n.kinds = m.kinds /\ n.truncated = m.truncated
        /\ n.denied = m.denied /\ n.violations = m.violations
    <3>1. m.open \ {c} \in SUBSET Calls /\ m.terminal \cup {c} \in SUBSET Calls
      BY <2>3 DEF Completed, BridgeType
    <3>2. QED
      BY <2>3, <2>4, <3>1 DEF Completed, BridgeType
  <2>6. QED
    BY <1>1, <1>2, <2>3, <2>5 DEF Completed
<1>3. CASE status = "failed"
  <2>1. n = [t EXCEPT !.open = t.open \ {c}, !.terminal = t.terminal \cup {c}]
    BY <1>0, <1>3 DEF ObserveToolUpdate, CloseCall
  <2>2. /\ n \in BridgeType /\ n.open = t.open \ {c} /\ n.terminal = t.terminal \cup {c}
        /\ n.capabilities = t.capabilities /\ n.kinds = t.kinds
        /\ n.truncated = t.truncated /\ n.denied = t.denied /\ n.violations = t.violations
    <3>1. t.open \ {c} \in SUBSET Calls /\ t.terminal \cup {c} \in SUBSET Calls
      BY <1>1 DEF BridgeType
    <3>2. QED
      BY <1>1, <2>1, <3>1 DEF BridgeType
  <2>3. QED
    BY <1>1, <1>3, <2>2
<1>4. CASE status = "open"
  <2>1. n = OpenCall(t, c)
    BY <1>0, <1>4 DEF ObserveToolUpdate
  <2>2. CASE t.truncated
    BY <1>1, <1>4, <2>1, <2>2 DEF OpenCall
  <2>3. CASE ~t.truncated /\ c \notin t.open /\ Cardinality(t.open) >= OpenLimit
    <3>1. n = [t EXCEPT !.truncated = TRUE]
      BY <2>1, <2>3 DEF OpenCall
    <3>2. QED
      BY <1>1, <1>4, <3>1, ZenonT(60) DEF BridgeType
  <2>4. CASE ~t.truncated /\ ~(c \notin t.open /\ Cardinality(t.open) >= OpenLimit)
    <3>1. n = [t EXCEPT !.open = t.open \cup {c}]
      BY <2>1, <2>4 DEF OpenCall
    <3>2. t.open \cup {c} \in SUBSET Calls
      BY <1>1 DEF BridgeType
    <3>3. n \in BridgeType /\ n.open = t.open \cup {c}
          /\ n.capabilities = t.capabilities /\ n.kinds = t.kinds /\ n.terminal = t.terminal
          /\ n.truncated = t.truncated /\ n.denied = t.denied /\ n.violations = t.violations
      BY <1>1, <3>1, <3>2 DEF BridgeType
    <3>4. QED
      BY <1>1, <1>4, <2>4, <3>3
  <2>5. QED
    BY <2>2, <2>3, <2>4
<1>5. QED
  BY <1>2, <1>3, <1>4 DEF TERMINAL

-----------------------------------------------------------------------------
(* The steps *)

LEMMA InitLemma == Init => BridgeInvariant
<1> SUFFICES ASSUME Init PROVE BridgeInvariant
  OBVIOUS
<1>1. PICK grant \in Grants : bridge = NewBridge(grant)
  BY DEF Init
<1>2. <<>> \in Seq(Calls \X Charges)
  OBVIOUS
<1>3. Typed
  <2>1. bridge \in BridgeType
    BY <1>1, <1>2 DEF NewBridge, BridgeType, Kinds
  <2>2. QED
    BY <2>1 DEF Init, Typed
<1>4. OnePicture /\ Remembered
  BY <1>1 DEF Init, NewBridge, OnePicture, Remembered
<1>5. Judged /\ AccusedIsGuilty /\ GuiltyIsAccused
  BY <1>1 DEF Init, NewBridge, Judged, AccusedIsGuilty, GuiltyIsAccused, Accusations
<1>6. Bounded
  BY <1>1, FS_EmptySet, BridgeAssumption DEF NewBridge, Bounded
<1>7. QED
  BY <1>3, <1>4, <1>5, <1>6 DEF BridgeInvariant

\* An accusation that is added is of a call that was not accused before.
LEMMA AccuseLemma ==
  ASSUME BridgeInvariant, NEW c \in Calls, c \notin bridge.terminal, NEW charge \in Charges,
         bridge'.violations = Append(bridge.violations, <<c, charge>>),
         bridge'.capabilities = bridge.capabilities,
         bridge'.terminal = bridge.terminal \cup {c}, agent'.refused = agent.refused,
         agent'.contradicts \subseteq agent.contradicts \cup {c},
         charge = "completed_after_deny" => agent.refused[c] # {},
         charge = "missing_grant_capability" => Ungranted(c)
  PROVE  Judged' /\ AccusedIsGuilty' /\ GuiltyIsAccused'
<1> USE DEF BridgeInvariant
<1>0. PICK k \in Nat : bridge.violations \in Seq(Calls \X Charges) /\ k = Len(bridge.violations)
  BY DEF Typed, BridgeType
<1>1. Accusations = 1..k /\ Accusations' = 1..(k + 1)
  BY <1>0 DEF Accusations
<1>2. \A i \in 1..k : Accused(i)' = Accused(i) /\ Charge(i)' = Charge(i)
  BY <1>0 DEF Accused, Charge
<1>3. Accused(k + 1)' = c /\ Charge(k + 1)' = charge
  BY <1>0 DEF Accused, Charge
<1>4. \A i \in 1..k : Accused(i) \in bridge.terminal
  BY <1>1 DEF Judged
<1>5. \A i \in Accusations' : i \in 1..k \/ i = k + 1
  BY <1>0, <1>1
<1>6. Judged'
  BY <1>2, <1>3, <1>4, <1>5 DEF Judged
<1>7. AccusedIsGuilty'
  <2>1. \A i, j \in Accusations' : Accused(i)' = Accused(j)' => i = j
    BY <1>1, <1>2, <1>3, <1>4, <1>5 DEF AccusedIsGuilty
  <2>2. ASSUME NEW i \in Accusations'
        PROVE  \/ Charge(i)' = "completed_after_deny" /\ agent'.refused[Accused(i)'] # {}
               \/ Charge(i)' = "missing_grant_capability" /\ Ungranted(Accused(i))'
    <3>1. CASE i = k + 1
      BY <1>3, <3>1 DEF Charges, Ungranted
    <3>2. CASE i \in 1..k
      <4>1. \/ Charge(i) = "completed_after_deny" /\ agent.refused[Accused(i)] # {}
            \/ Charge(i) = "missing_grant_capability" /\ Ungranted(Accused(i))
        BY <1>1, <3>2 DEF AccusedIsGuilty
      <4>2. QED
        BY <1>2, <3>2, <4>1 DEF Ungranted
    <3>3. QED
      BY <1>5, <3>1, <3>2
  <2>3. QED
    BY <2>1, <2>2 DEF AccusedIsGuilty
<1>8. GuiltyIsAccused'
  <2>1. \A i \in 1..k : i \in Accusations'
    BY <1>0, <1>1
  <2>2. k + 1 \in Accusations'
    BY <1>0, <1>1
  <2>3. QED
    BY <1>1, <1>2, <1>3, <2>1, <2>2 DEF GuiltyIsAccused
<1>9. QED
  BY <1>6, <1>7, <1>8

\* Accusations stand while nothing about them changes but more refusals.
LEMMA NoAccusationLemma ==
  ASSUME BridgeInvariant, bridge'.violations = bridge.violations,
         bridge'.capabilities = bridge.capabilities, bridge.terminal \subseteq bridge'.terminal,
         \A c \in Calls : agent.refused[c] \subseteq agent'.refused[c],
         agent'.contradicts = agent.contradicts
  PROVE  Judged' /\ AccusedIsGuilty' /\ GuiltyIsAccused'
<1> USE DEF BridgeInvariant
<1>1. Accusations' = Accusations
      /\ \A i \in Accusations : Accused(i)' = Accused(i) /\ Charge(i)' = Charge(i)
  BY DEF Accusations, Accused, Charge
<1>2. \A i \in Accusations : Accused(i) \in bridge.terminal
  BY DEF Judged
<1>3. Judged' /\ GuiltyIsAccused'
  BY <1>1, <1>2 DEF Judged, GuiltyIsAccused
<1>4. bridge.terminal \subseteq Calls
  BY DEF Typed, BridgeType
<1>5. AccusedIsGuilty'
  BY <1>1, <1>2, <1>4 DEF AccusedIsGuilty, Ungranted
<1>6. QED
  BY <1>3, <1>5

LEMMA UpdateLemma ==
  ASSUME BridgeInvariant, NEW c \in Calls, NEW status \in {"open"} \cup TERMINAL,
         NEW kind \in {RealKind[c], "none"}, Update(c, kind, status)
  PROVE  BridgeInvariant'
<1> USE DEF BridgeInvariant
<1> DEFINE declared == agent.declared \cup IF kind # "none" THEN {c} ELSE {}
           guilty == /\ c \notin agent.ended /\ status = "completed"
                     /\ "ask" \in agent.refused[c] \/ (c \in declared /\ Ungranted(c))
<1>2. /\ agent'.declared = declared /\ agent'.refused = agent.refused
      /\ agent'.running = IF c \in agent.ended THEN agent.running
                          ELSE IF status = "open" THEN agent.running \cup {c}
                          ELSE agent.running \ {c}
      /\ agent'.ended = IF status \in TERMINAL THEN agent.ended \cup {c} ELSE agent.ended
      /\ agent'.contradicts = IF guilty THEN agent.contradicts \cup {c} ELSE agent.contradicts
      /\ DOMAIN agent' = DOMAIN agent
  BY DEF Typed, Update
<1>3. RealKind[c] \in {"read", "edit", "think"} /\ kind \in Kinds /\ kind # "unregistered"
      /\ (kind # "none" => kind = RealKind[c])
  BY BridgeAssumption DEF Kinds
<1>4. agent' \in [running : SUBSET Calls, ended : SUBSET Calls, declared : SUBSET Calls,
                  contradicts : SUBSET Calls, refused : [Calls -> SUBSET {"ask", "read"}]]
  <2>1. declared \in SUBSET Calls /\ agent.running \cup {c} \in SUBSET Calls
        /\ agent.running \ {c} \in SUBSET Calls /\ agent.ended \cup {c} \in SUBSET Calls
        /\ agent.contradicts \cup {c} \in SUBSET Calls
    BY DEF Typed
  <2> HIDE DEF declared, guilty
  <2>2. /\ agent'.declared \in SUBSET Calls /\ agent'.running \in SUBSET Calls
        /\ agent'.ended \in SUBSET Calls /\ agent'.contradicts \in SUBSET Calls
        /\ agent'.refused \in [Calls -> SUBSET {"ask", "read"}]
    BY <1>2, <2>1 DEF Typed
  <2>3. QED
    BY <2>2 DEF Typed, Update
<1>5. CASE c \in bridge.terminal
  <2>1. bridge' = bridge
    BY <1>5 DEF Update, ObserveToolUpdate
  <2>2. c \in agent.ended /\ UNCHANGED <<agent.running, agent.ended, agent.contradicts, agent.refused>>
    BY <1>2, <1>5 DEF OnePicture
  <2>3. Typed'
    BY <1>4, <2>1 DEF Typed
  <2>4. OnePicture'
    BY <1>2, <2>1, <2>2 DEF OnePicture
  <2>5. Remembered' /\ Bounded'
    BY <2>1, <2>2 DEF Remembered, Bounded
  <2>6. QED
    BY <2>1, <2>2, <2>3, <2>4, <2>5, NoAccusationLemma
<1>6. CASE c \notin bridge.terminal
  <2>0. c \notin agent.ended
    BY <1>6 DEF OnePicture
  <2>1. Observed(bridge, c, kind, status, bridge')
    BY <1>3, <1>6, ObserveLemma DEF Typed, Update
  <2>2. PICK kinds : kinds = IF kind = "none" THEN bridge.kinds ELSE [bridge.kinds EXCEPT ![c] = kind]
    OBVIOUS
  <2>3. /\ bridge' \in BridgeType
        /\ bridge'.capabilities = bridge.capabilities /\ bridge'.denied = bridge.denied
        /\ bridge'.kinds = kinds
        /\ bridge'.terminal = IF status = "open" THEN bridge.terminal ELSE bridge.terminal \cup {c}
        /\ status # "open" => bridge'.open = bridge.open \ {c} /\ bridge'.truncated = bridge.truncated
        /\ status = "open" =>
             \/ bridge'.truncated /\ bridge'.open = bridge.open
             \/ /\ ~bridge'.truncated /\ ~bridge.truncated /\ bridge'.open = bridge.open \cup {c}
                /\ c \in bridge.open \/ ~(Cardinality(bridge.open) >= OpenLimit)
        /\ \/ /\ bridge'.violations = bridge.violations
              /\ status = "completed" => /\ bridge.denied[c] = "none"
                                         /\ Required(kinds[c]) \in bridge.capabilities \cup {"none"}
           \/ /\ bridge'.violations = Append(bridge.violations, <<c, "completed_after_deny">>)
              /\ status = "completed" /\ bridge.denied[c] # "none"
           \/ /\ bridge'.violations = Append(bridge.violations, <<c, "missing_grant_capability">>)
              /\ status = "completed" /\ Required(kinds[c]) \notin bridge.capabilities \cup {"none"}
    BY <2>1, <2>2 DEF Observed
  <2>4. /\ \A d \in Calls : d # c => kinds[d] = bridge.kinds[d]
        /\ kinds[c] \in {"none", RealKind[c]}
        /\ c \in declared => kinds[c] = RealKind[c]
    BY <1>3, <2>0, <2>2 DEF OnePicture, Typed, BridgeType
  <2>5. Typed' /\ Remembered'
    BY <1>2, <1>4, <2>3 DEF Typed, Remembered
  <2>6. OnePicture'
    <3>1. bridge'.terminal = agent'.ended /\ bridge'.open \cap bridge'.terminal = {}
      BY <1>2, <1>6, <2>3 DEF OnePicture, TERMINAL
    <3>2. ~bridge'.truncated => bridge'.open = agent'.running
      BY <1>2, <2>0, <2>3 DEF OnePicture, Typed, BridgeType
    <3>3. \A d \in Calls :
            /\ bridge'.kinds[d] \in {"none", RealKind[d]}
            /\ d \in agent'.declared /\ d \notin agent'.ended => bridge'.kinds[d] = RealKind[d]
      BY <1>2, <2>3, <2>4 DEF OnePicture
    <3>4. QED
      BY <3>1, <3>2, <3>3 DEF OnePicture
  <2>7. Bounded'
    <3>0. OpenLimit \in Nat /\ Cardinality(bridge.open) \in Nat
      BY BridgeAssumption, FS_CardinalityType DEF Bounded
    <3>1. CASE bridge'.open = bridge.open
      BY <3>1 DEF Bounded
    <3>2. CASE bridge'.open = bridge.open \ {c}
      <4>1. IsFiniteSet(bridge.open \ {c})
            /\ Cardinality(bridge.open \ {c}) \in {Cardinality(bridge.open), Cardinality(bridge.open) - 1}
        BY FS_RemoveElement DEF Bounded
      <4>2. QED
        BY <3>0, <3>2, <4>1 DEF Bounded
    <3>3. CASE bridge'.open = bridge.open \cup {c}
               /\ (c \in bridge.open \/ ~(Cardinality(bridge.open) >= OpenLimit))
      <4>1. IsFiniteSet(bridge.open \cup {c})
            /\ Cardinality(bridge.open \cup {c})
                 = IF c \in bridge.open THEN Cardinality(bridge.open) ELSE Cardinality(bridge.open) + 1
        BY FS_AddElement DEF Bounded
      <4>2. QED
        BY <3>0, <3>3, <4>1 DEF Bounded
    <3>4. QED
      BY <2>3, <3>1, <3>2, <3>3
  <2>8. Judged' /\ AccusedIsGuilty' /\ GuiltyIsAccused'
    <3>1. Required(kinds[c]) \notin bridge.capabilities \cup {"none"} => Ungranted(c)
      BY <2>4 DEF Ungranted, Required
    <3>2. guilty => \/ bridge.denied[c] # "none"
                    \/ Required(kinds[c]) \notin bridge.capabilities \cup {"none"}
      BY <2>4 DEF Remembered, Ungranted
    <3>3. CASE bridge'.violations = bridge.violations /\ ~guilty
      <4>1. agent'.contradicts = agent.contradicts /\ bridge.terminal \subseteq bridge'.terminal
        BY <1>2, <2>3, <3>3
      <4>2. QED
        BY <1>2, <2>3, <3>3, <4>1, NoAccusationLemma
    <3>4. ASSUME NEW charge \in Charges, status = "completed",
                 bridge'.violations = Append(bridge.violations, <<c, charge>>),
                 charge = "completed_after_deny" => bridge.denied[c] # "none",
                 charge = "missing_grant_capability" =>
                   Required(kinds[c]) \notin bridge.capabilities \cup {"none"}
          PROVE  Judged' /\ AccusedIsGuilty' /\ GuiltyIsAccused'
      <4>1. bridge'.terminal = bridge.terminal \cup {c}
            /\ agent'.contradicts \subseteq agent.contradicts \cup {c}
        BY <1>2, <2>3, <3>4
      <4>2. charge = "completed_after_deny" => agent.refused[c] # {}
        BY <3>4 DEF Remembered
      <4>3. QED
        BY <1>2, <1>6, <2>3, <3>1, <3>4, <4>1, <4>2, AccuseLemma
    <3>5. QED
      BY <2>3, <3>2, <3>3, <3>4 DEF Charges
  <2>9. QED
    BY <2>5, <2>6, <2>7, <2>8
<1>7. QED
  BY <1>5, <1>6

\* n is b with a refusal of c remembered.
Denied(b, c, n) ==
  /\ n \in BridgeType
  /\ n.capabilities = b.capabilities /\ n.kinds = b.kinds /\ n.open = b.open
  /\ n.truncated = b.truncated /\ n.terminal = b.terminal /\ n.violations = b.violations
  /\ n.denied[c] # "none" /\ \A d \in Calls : d # c => n.denied[d] = b.denied[d]

LEMMA DenyLemma ==
  ASSUME NEW b \in BridgeType, NEW c \in Calls, NEW surface \in {"permission", "fs_read"}
  PROVE  Denied(b, c, Deny(b, c, surface))
<1> PICK n : n = Deny(b, c, surface)
  OBVIOUS
<1> USE DEF Denied
<1>1. CASE b.denied[c] = "none"
  <2>1. n = [b EXCEPT !.denied = [b.denied EXCEPT ![c] = surface]]
    BY <1>1 DEF Deny, BridgeType
  <2>2. [b.denied EXCEPT ![c] = surface] \in [Calls -> {"none", "permission", "fs_read"}]
    BY DEF BridgeType
  <2>3. QED
    BY <2>1, <2>2, SMTT(30) DEF BridgeType
<1>2. CASE b.denied[c] # "none"
  BY <1>2 DEF Deny
<1>3. QED
  BY <1>1, <1>2

\* A decision about a call: nothing but refusals, which are the agent's too.
LEMMA DecisionLemma ==
  ASSUME BridgeInvariant, bridge' \in BridgeType, NEW c \in Calls, NEW why \in {"ask", "read"},
         NEW given \in BOOLEAN,
         agent' = IF given THEN [agent EXCEPT !.refused[c] = @ \cup {why}] ELSE agent,
         bridge'.capabilities = bridge.capabilities, bridge'.kinds = bridge.kinds,
         bridge'.open = bridge.open, bridge'.truncated = bridge.truncated,
         bridge'.terminal = bridge.terminal, bridge'.violations = bridge.violations,
         \A d \in Calls \ {c} : bridge'.denied[d] = bridge.denied[d],
         bridge'.denied[c] = bridge.denied[c] \/ (given /\ bridge'.denied[c] # "none"),
         given /\ why = "ask" => bridge'.denied[c] # "none"
  PROVE  BridgeInvariant'
<1> USE DEF BridgeInvariant
<1>1. /\ agent'.running = agent.running /\ agent'.ended = agent.ended
      /\ agent'.declared = agent.declared /\ agent'.contradicts = agent.contradicts
      /\ \A d \in Calls \ {c} : agent'.refused[d] = agent.refused[d]
      /\ agent'.refused[c] = IF given THEN agent.refused[c] \cup {why} ELSE agent.refused[c]
  BY DEF Typed
<1>2. Typed'
  <2>1. CASE ~given
    BY <2>1 DEF Typed
  <2>2. CASE given
    <3>1. agent.refused \in [Calls -> SUBSET {"ask", "read"}]
      BY DEF Typed
    <3>2. agent.refused[c] \cup {why} \in SUBSET {"ask", "read"}
      BY <3>1
    <3>3. [agent.refused EXCEPT ![c] = @ \cup {why}] \in [Calls -> SUBSET {"ask", "read"}]
      BY <3>1, <3>2
    <3>4. agent' = [agent EXCEPT !.refused = [agent.refused EXCEPT ![c] = @ \cup {why}]]
      BY <2>2 DEF Typed
    <3>5. QED
      BY <3>3, <3>4 DEF Typed
  <2>3. QED
    BY <2>1, <2>2
<1>3. OnePicture' /\ Bounded'
  BY <1>1 DEF OnePicture, Bounded
<1>4. Remembered'
  <2>1. ASSUME NEW d \in Calls
        PROVE  /\ bridge'.denied[d] # "none" => agent'.refused[d] # {}
               /\ "ask" \in agent'.refused[d] => bridge'.denied[d] # "none"
    <3>1. CASE d # c
      BY <1>1, <3>1 DEF Remembered
    <3>2. CASE d = c
      BY <1>1, <3>2 DEF Remembered
    <3>3. QED
      BY <3>1, <3>2
  <2>2. QED
    BY <2>1 DEF Remembered
<1>5. \A d \in Calls : agent.refused[d] \subseteq agent'.refused[d]
  BY <1>1
<1>6. QED
  BY <1>1, <1>2, <1>3, <1>4, <1>5, NoAccusationLemma

LEMMA RequestLemma ==
  ASSUME BridgeInvariant, SendRequest
  PROVE  BridgeInvariant'
<1> USE DEF BridgeInvariant
<1>0. PICK c \in Calls, inside \in BOOLEAN, once \in BOOLEAN :
        \E kind \in {RealKind[c], "none", "unregistered"} :
          /\ bridge' = DecidePermissionRequest(bridge, c, kind, inside, once)
          /\ agent' = IF AllowsRequest(bridge, kind, inside, once) THEN agent
                      ELSE [agent EXCEPT !.refused[c] = @ \cup {"ask"}]
  BY DEF SendRequest
<1>1. PICK kind \in {RealKind[c], "none", "unregistered"} :
        /\ bridge' = DecidePermissionRequest(bridge, c, kind, inside, once)
        /\ agent' = IF AllowsRequest(bridge, kind, inside, once) THEN agent
                    ELSE [agent EXCEPT !.refused[c] = @ \cup {"ask"}]
  BY <1>0
<1>2. PICK asked : asked = IF kind = "none" THEN [bridge EXCEPT !.turnFailed = TRUE] ELSE bridge
  OBVIOUS
<1>3. /\ asked \in BridgeType
      /\ asked.capabilities = bridge.capabilities /\ asked.kinds = bridge.kinds
      /\ asked.open = bridge.open /\ asked.truncated = bridge.truncated
      /\ asked.terminal = bridge.terminal /\ asked.violations = bridge.violations
      /\ asked.denied = bridge.denied
  BY <1>2 DEF Typed, BridgeType
<1>4. CASE AllowsRequest(bridge, kind, inside, once)
  <2>1. bridge' = asked /\ agent' = agent
    BY <1>1, <1>2, <1>4 DEF DecidePermissionRequest
  <2>2. QED
    BY <1>3, <2>1, DecisionLemma
<1>5. CASE ~AllowsRequest(bridge, kind, inside, once)
  <2>1. bridge' = Deny(asked, c, "permission")
        /\ agent' = [agent EXCEPT !.refused[c] = @ \cup {"ask"}]
    BY <1>1, <1>2, <1>5 DEF DecidePermissionRequest
  <2>2. Denied(asked, c, bridge')
    BY <1>3, <2>1, DenyLemma
  <2>3. QED
    BY <1>3, <2>1, <2>2, DecisionLemma, ZenonT(60) DEF Denied
<1>6. QED
  BY <1>4, <1>5

\* The one open call, if the bridge finds one, is the call that reads.
LEMMA ReadLemma ==
  ASSUME BridgeInvariant, SendRead
  PROVE  BridgeInvariant'
<1> USE DEF BridgeInvariant
<1>1. PICK c \in agent.running, inside \in BOOLEAN :
        /\ bridge' = DecideFsRead(bridge, inside)
        /\ agent' = IF AllowsRead(bridge, inside) THEN agent
                    ELSE [agent EXCEPT !.refused[c] = @ \cup {"read"}]
  BY DEF SendRead
<1>2. c \in Calls
  BY DEF Typed
<1>3. PICK given \in BOOLEAN : given <=> ~AllowsRead(bridge, inside)
  OBVIOUS
<1>4. agent' = IF given THEN [agent EXCEPT !.refused[c] = @ \cup {"read"}] ELSE agent
  BY <1>1, <1>3
<1>5. CASE bridge' = bridge
  BY <1>2, <1>4, <1>5, DecisionLemma DEF Typed
<1>6. CASE given /\ bridge' # bridge
  <2>1. PICK sole : sole = SoleOpenCallIfKind(bridge, READ_KINDS)
    OBVIOUS
  <2>2. sole # {} /\ bridge' = Deny(bridge, CHOOSE d \in sole : TRUE, "fs_read")
    BY <1>1, <1>3, <1>6, <2>1 DEF DecideFsRead
  <2>3. ~bridge.truncated /\ Cardinality(bridge.open) = 1 /\ sole \subseteq bridge.open
    BY <2>1, <2>2 DEF SoleOpenCallIfKind
  <2>4. PICK e : bridge.open = {e}
    BY <2>3, FS_Singleton DEF Bounded
  <2>5. bridge.open = {c}
    BY <2>3, <2>4 DEF OnePicture
  <2>6. (CHOOSE d \in sole : TRUE) = c
    BY <2>2, <2>3, <2>5
  <2>7. bridge' = Deny(bridge, c, "fs_read")
    BY <2>2, <2>6
  <2>8. Denied(bridge, c, bridge')
    BY <1>2, <2>7, DenyLemma DEF Typed
  <2>9. QED
    BY <1>2, <1>4, <1>6, <2>8, DecisionLemma DEF Denied
<1>7. CASE ~given
  BY <1>1, <1>3, <1>5, <1>7 DEF DecideFsRead
<1>8. QED
  BY <1>5, <1>6, <1>7

LEMMA StepLemma == BridgeInvariant /\ [Next]_vars => BridgeInvariant'
<1> SUFFICES ASSUME BridgeInvariant, [Next]_vars PROVE BridgeInvariant'
  OBVIOUS
<1>1. CASE SendUpdate
  BY <1>1, UpdateLemma DEF SendUpdate
<1>2. CASE SendRequest
  BY <1>2, RequestLemma
<1>3. CASE SendRead
  BY <1>3, ReadLemma
<1>4. CASE UNCHANGED vars
  <2>1. bridge' = bridge /\ agent' = agent
    BY <1>4 DEF vars
  <2>2. Typed' /\ OnePicture' /\ Remembered' /\ Bounded'
    BY <2>1 DEF BridgeInvariant, Typed, OnePicture, Remembered, Bounded
  <2>3. Judged' /\ AccusedIsGuilty' /\ GuiltyIsAccused'
    BY <2>1, NoAccusationLemma
  <2>4. QED
    BY <2>2, <2>3 DEF BridgeInvariant
<1>5. QED
  BY <1>1, <1>2, <1>3, <1>4 DEF Next

-----------------------------------------------------------------------------
(* The theorems *)

\* The bridge's picture of the calls is the agent's until it overflows, refusals
\* are remembered by who got them, and every accusation is of a call that is over.
THEOREM BridgeInvariantHolds == Spec => []BridgeInvariant
<1>1. QED
  BY InitLemma, StepLemma, PTL DEF Spec

\* No call is accused that did nothing wrong, and none twice, for any number of
\* calls and any limit, although a read request names no call.
THEOREM AccusedIsGuiltyHolds == Spec => []AccusedIsGuilty
<1>1. BridgeInvariant => AccusedIsGuilty
  BY DEF BridgeInvariant
<1>2. QED
  BY <1>1, BridgeInvariantHolds, PTL

\* A call that completes after its own permission was refused, or of a declared
\* kind that the grant does not cover, is accused.
THEOREM GuiltyIsAccusedHolds == Spec => []GuiltyIsAccused
<1>1. BridgeInvariant => GuiltyIsAccused
  BY DEF BridgeInvariant
<1>2. QED
  BY <1>1, BridgeInvariantHolds, PTL
=============================================================================
