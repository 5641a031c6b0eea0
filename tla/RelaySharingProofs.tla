------------------------- MODULE RelaySharingProofs -------------------------
(***************************************************************************)
(* What TLAPS proves of sendRelays(), for every set of senders, wires and  *)
(* accessories: the handshake between the two schemes, types, the fan, and *)
(* that the temperature worker alone implements RelayBoard.                *)
(*                                                                         *)
(* The handshake needs the locations and the two flags only;               *)
(* HandshakeTypes is the part of TypeOK that is inductive without the      *)
(* configurations.  The fan and the refinement need the configurations as  *)
(* well: each call has its own copies, and a step emits its own one.       *)
(***************************************************************************)
EXTENDS RelaySharing, TLAPS

HandshakeTypes ==
  /\ pc \in [Senders -> SenderPC]
  /\ canSend \in [Schemes -> BOOLEAN]

\* The locations between setIsSendingRelays(true) and setIsSendingRelays(false).
SendingPC == {"first", "steps"}

\* A step of one sender that neither enters nor leaves them.
Moves(p) ==
  /\ \E to \in SenderPC : pc' = [pc EXCEPT ![p] = to] /\ (to \in SendingPC <=> pc[p] \in SendingPC)
  /\ UNCHANGED canSend

\* There are two schemes, each the other of the other.
LEMMA OtherScheme ==
  \A s \in Schemes : Other(s) \in Schemes /\ Other(s) # s /\ Other(Other(s)) = s
  BY DEF Schemes, Other, Temp, Hum

\* Every sender sends for one of the two schemes.
LEMMA SchemeOfType == \A p : SchemeOf(p) \in Schemes
  BY DEF SchemeOf, Schemes, Temp, Hum

\* What the steps of sendRelays() and of its callers are to the handshake: a move outside or
\* inside the sending locations, the claim, the finish, or the end of the thread.
LEMMA StepKinds ==
  ASSUME HandshakeTypes, [Next]_vars
  PROVE  \/ UNCHANGED <<pc, canSend>>
         \/ \E p \in Senders : \/ Moves(p)
                               \/ Claim(p)
                               \/ Finish(p)
                               \/ SensorFails /\ p # Fan /\ UNCHANGED canSend
                                    /\ pc' = [pc EXCEPT ![p] = "dead"]
<1> USE DEF HandshakeTypes, SenderPC, SendingPC, Moves, Goto, Return, Leave, flagVars
<1>1. CASE UNCHANGED vars
  BY <1>1 DEF vars
<1>2. CASE TempStage \/ TempValve
  BY <1>2 DEF TempStage, TempValve
<1>3. CASE HumWiring \/ FanWork
  BY <1>3 DEF HumWiring, FanWork
<1>4. CASE \E s \in Schemes : RequestStop(s)
  BY <1>4 DEF RequestStop
<1>5. ASSUME NEW p \in Senders, Restarted(p) \/ StopScheme(p)
      PROVE  Moves(p) \/ (SensorFails /\ p # Fan /\ UNCHANGED canSend
                            /\ pc' = [pc EXCEPT ![p] = "dead"])
  BY <1>5 DEF Restarted, StopScheme
<1>6. ASSUME NEW p \in Senders, SendRelays(p)
      PROVE  Moves(p) \/ Claim(p) \/ Finish(p)
  <2>1. CASE Begin(p)
    BY <2>1 DEF Begin
  <2>2. CASE TestCanSend(p) \/ EnterWait(p)
    BY <2>2 DEF TestCanSend, EnterWait
  <2>3. CASE WaitGranted(p) \/ WaitAborted(p)
    BY <2>3 DEF WaitGranted, WaitAborted
  <2>4. CASE SendFirst(p)
    BY <2>4 DEF SendFirst
  <2>5. CASE SendStep(p)
    <3>1. pc' = [pc EXCEPT ![p] = pc[p]] /\ UNCHANGED canSend
      BY <2>5 DEF SendStep
    <3> QED BY <3>1
  <2> QED BY <1>6, <2>1, <2>2, <2>3, <2>4, <2>5 DEF SendRelays
<1> QED BY <1>1, <1>2, <1>3, <1>4, <1>5, <1>6 DEF Next

\* The handshake is in order when nobody sends.
LEMMA InitHandshake == Init => HandshakeTypes /\ BlockedOnlyBySender /\ SendingMarked
  BY DEF Init, HandshakeTypes, SenderPC, BlockedOnlyBySender, SendingMarked, Sending, Schemes

\* Every step keeps the types of the handshake.
LEMMA NextTypes == HandshakeTypes /\ [Next]_vars => HandshakeTypes'
<1> SUFFICES ASSUME HandshakeTypes, [Next]_vars PROVE HandshakeTypes'
  OBVIOUS
<1> USE DEF HandshakeTypes
<1>1. ASSUME NEW p \in Senders,
             Moves(p) \/ (pc' = [pc EXCEPT ![p] = "dead"] /\ UNCHANGED canSend)
      PROVE  HandshakeTypes'
  BY <1>1 DEF Moves, SenderPC
<1>2. ASSUME NEW p \in Senders, Claim(p) \/ Finish(p)
      PROVE  HandshakeTypes'
  <2>1. pc' \in [Senders -> SenderPC]
    BY <1>2 DEF Claim, Finish, Goto, Return, Leave, SenderPC
  <2>2. canSend' \in [Schemes -> BOOLEAN]
    BY <1>2 DEF Claim, Finish
  <2> QED BY <2>1, <2>2
<1>3. CASE UNCHANGED <<pc, canSend>>
  BY <1>3
<1> QED BY <1>1, <1>2, <1>3, StepKinds

\* A step of a worker between its sends leaves the flags of the handshake alone.
LEMMA MovesKeepSending ==
  ASSUME HandshakeTypes, NEW p \in Senders, Moves(p), NEW s \in Schemes
  PROVE  Sending(s)' = Sending(s)
  BY DEF HandshakeTypes, Moves, Sending, SendingPC

\* The claim of p, and its finish.
LEMMA ClaimEffect ==
  ASSUME HandshakeTypes, NEW p \in Senders, Claim(p)
  PROVE  /\ p \in Sending(SchemeOf(p))'
         /\ Sending(Other(SchemeOf(p)))' = Sending(Other(SchemeOf(p)))
         /\ ~canSend'[Other(SchemeOf(p))]
         /\ canSend'[SchemeOf(p)] = canSend[SchemeOf(p)]
  BY OtherScheme, SchemeOfType DEF Claim, Goto, Sending, HandshakeTypes

\* What the end of a send does to the flags.
LEMMA FinishEffect ==
  ASSUME HandshakeTypes, NEW p \in Senders, Finish(p)
  PROVE  /\ Sending(SchemeOf(p))' = Sending(SchemeOf(p)) \ {p}
         /\ Sending(Other(SchemeOf(p)))' = Sending(Other(SchemeOf(p)))
         /\ canSend'[Other(SchemeOf(p))]
         /\ canSend'[SchemeOf(p)] = canSend[SchemeOf(p)]
  BY OtherScheme, SchemeOfType DEF Finish, Return, Leave, Goto, Sending, HandshakeTypes

\* Both schemes are p's own and the other one.
LEMMA TwoSchemes ==
  \A p, s : s \in Schemes => s = SchemeOf(p) \/ s = Other(SchemeOf(p))
  BY DEF Schemes, SchemeOf, Other, Temp, Hum

\* Every step keeps BlockedOnlyBySender.
LEMMA NextBlocked ==
  ASSUME ~SensorFails
  PROVE  HandshakeTypes /\ BlockedOnlyBySender /\ [Next]_vars => BlockedOnlyBySender'
<1> SUFFICES ASSUME HandshakeTypes, BlockedOnlyBySender, [Next]_vars,
                    NEW s \in Schemes, ~canSend'[s]
             PROVE  Sending(Other(s))' # {}
  BY DEF BlockedOnlyBySender
<1> Other(s) \in Schemes
  BY OtherScheme
<1>1. CASE UNCHANGED <<pc, canSend>>
  BY <1>1 DEF BlockedOnlyBySender, Sending
<1>2. ASSUME NEW p \in Senders, Moves(p)
      PROVE  Sending(Other(s))' # {}
  BY <1>2, MovesKeepSending DEF BlockedOnlyBySender, Moves
<1>3. ASSUME NEW p \in Senders, Claim(p)
      PROVE  Sending(Other(s))' # {}
  BY <1>3, ClaimEffect, TwoSchemes, OtherScheme, SchemeOfType DEF BlockedOnlyBySender
<1>4. ASSUME NEW p \in Senders, Finish(p)
      PROVE  Sending(Other(s))' # {}
  BY <1>4, FinishEffect, TwoSchemes, OtherScheme, SchemeOfType DEF BlockedOnlyBySender
<1> QED BY <1>1, <1>2, <1>3, <1>4, StepKinds

\* As long as no scheme is terminated, whoever may not send waits for a sender that is there:
\* with any callers of sendRelays(), the fan timer beside the temperature worker included.
THEOREM BlockedBySender ==
  ASSUME ~SensorFails
  PROVE  Spec => []BlockedOnlyBySender
<1>1. HandshakeTypes /\ BlockedOnlyBySender /\ [Next]_vars => BlockedOnlyBySender'
  BY NextBlocked
<1> QED BY <1>1, InitHandshake, NextTypes, PTL DEF Spec

\* Every step keeps SendingMarked.
LEMMA NextMarked ==
  ASSUME Fan \notin Senders
  PROVE  HandshakeTypes /\ SendingMarked /\ [Next]_vars => SendingMarked'
<1> SUFFICES ASSUME HandshakeTypes, SendingMarked, [Next]_vars,
                    NEW s \in Schemes, Sending(s)' # {}
             PROVE  ~canSend'[Other(s)]
  BY DEF SendingMarked
<1>1. CASE UNCHANGED <<pc, canSend>>
  BY <1>1 DEF SendingMarked, Sending
<1>2. ASSUME NEW p \in Senders, Moves(p)
      PROVE  ~canSend'[Other(s)]
  BY <1>2, MovesKeepSending DEF SendingMarked, Moves
<1>3. ASSUME NEW p \in Senders, Claim(p)
      PROVE  ~canSend'[Other(s)]
  BY <1>3, ClaimEffect, TwoSchemes, OtherScheme, SchemeOfType DEF SendingMarked
<1>4. ASSUME NEW p \in Senders, Finish(p)
      PROVE  ~canSend'[Other(s)]
  <2>1. \A q \in Sending(SchemeOf(p)) : q = p
    BY SendersAssumption DEF SendersAssumption, Sending, SchemeOf, Temp, Hum
  <2>2. s # SchemeOf(p)
    BY <1>4, <2>1, FinishEffect
  <2> QED BY <1>4, <2>2, FinishEffect, TwoSchemes, OtherScheme, SchemeOfType DEF SendingMarked
<1>5. ASSUME NEW p \in Senders, UNCHANGED canSend, pc' = [pc EXCEPT ![p] = "dead"]
      PROVE  ~canSend'[Other(s)]
  <2>1. Sending(s)' \subseteq Sending(s)
    BY <1>5 DEF HandshakeTypes, Sending
  <2> QED BY <1>5, <2>1 DEF SendingMarked
<1> QED BY <1>1, <1>2, <1>3, <1>4, <1>5, StepKinds

\* Without the fan timer, a scheme that is sending has taken the other one's permission away,
\* terminated or not: only senders that tested before the claim can still come in.
THEOREM SendingIsMarked ==
  ASSUME Fan \notin Senders
  PROVE  Spec => []SendingMarked
<1>1. HandshakeTypes /\ SendingMarked /\ [Next]_vars => SendingMarked'
  BY NextMarked
<1> QED BY <1>1, InitHandshake, NextTypes, PTL DEF Spec

-----------------------------------------------------------------------------
(***************************************************************************)
(* Types.                                                                  *)
(***************************************************************************)

\* The configurations of relays.
ConfigTypes ==
  /\ mRelay \in SUBSET Wires /\ mRelayLast \in SUBSET Wires /\ board \in SUBSET Wires
  /\ wanted \in [Senders -> SUBSET Wires] /\ lastConfigs \in [Senders -> SUBSET Wires]
  /\ ob_state \in ObStates /\ mFanOn \in BOOLEAN /\ initialized \in BOOLEAN

\* The flags that the handshake of the relays does not use.
FlagTypes ==
  /\ sending \in [Schemes -> BOOLEAN] /\ stopWork \in [Schemes -> BOOLEAN]
  /\ force \in [Senders -> BOOLEAN] /\ late \in [Senders -> BOOLEAN]
  /\ exits \in [Senders -> SUBSET {"send", "none"}]

\* What relays() and a step make of wires are wires.
LEMMA ConfigOperators ==
  ASSUME NEW on \in SUBSET Wires
  PROVE  /\ \A ob, ob_on, fan : relays(on, ob, ob_on, fan) \in SUBSET Wires
         /\ \A c \in SUBSET TempWires : WithTempWires(on, c) \in SUBSET Wires
         /\ \A t : updateHumidityWiring(on, t) \in SUBSET Wires
         /\ \A wire \in Wires : Flip(on, wire) \in SUBSET Wires
<1>1. ASSUME NEW ob, NEW ob_on, NEW fan
      PROVE  relays(on, ob, ob_on, fan) \in SUBSET Wires
  <2>1. updateOB(on, ob, ob_on) \in SUBSET Wires
    BY DEF updateOB, Wires
  <2>2. \A c \in SUBSET Wires : updateFan(c, fan) \in SUBSET Wires
    BY DEF updateFan, Wires
  <2> QED BY <2>1, <2>2 DEF relays
<1>2. /\ \A c \in SUBSET TempWires : WithTempWires(on, c) \in SUBSET Wires
      /\ \A t : updateHumidityWiring(on, t) \in SUBSET Wires
      /\ \A wire \in Wires : Flip(on, wire) \in SUBSET Wires
  BY DEF WithTempWires, updateHumidityWiring, Flip, Wires
<1> QED BY <1>1, <1>2

\* A step of the callers, or of a call, keeps the types of the configurations.
LEMMA NextConfigTypes == ConfigTypes /\ [Next]_vars => ConfigTypes'
<1> SUFFICES ASSUME ConfigTypes, [Next]_vars PROVE ConfigTypes'
  OBVIOUS
<1> USE DEF ConfigTypes
<1>1. Relays \in SUBSET Wires
  BY ConfigOperators DEF Relays
<1>2. ASSUME NEW p \in Senders, NEW from, NEW to, Leave(p, from, to)
      PROVE  wanted' \in [Senders -> SUBSET Wires] /\ lastConfigs' \in [Senders -> SUBSET Wires]
  BY <1>2 DEF Leave
<1>3. CASE UNCHANGED vars
  BY <1>3 DEF vars
<1>4. CASE TempStage
  <2>1. PICK c \in TempConfigs : mRelay' = WithTempWires(mRelay, c)
    BY <1>4 DEF TempStage
  <2>2. c \in SUBSET TempWires
    BY SendersAssumption DEF SendersAssumption
  <2> QED BY <1>4, <2>1, <2>2, ConfigOperators DEF TempStage
<1>5. CASE TempValve
  BY <1>5 DEF TempValve, ObStates
<1>6. CASE HumWiring
  BY <1>6, ConfigOperators DEF HumWiring
<1>7. CASE FanWork
  BY <1>7 DEF FanWork, localVars
<1>8. CASE \E s \in Schemes : RequestStop(s)
  BY <1>8 DEF RequestStop, relayVars, localVars
<1>9. ASSUME NEW p \in Senders, Restarted(p) \/ TestCanSend(p) \/ EnterWait(p) PROVE ConfigTypes'
  BY <1>9 DEF Restarted, TestCanSend, EnterWait, relayVars, localVars
<1>10. ASSUME NEW p \in Senders, StopScheme(p) \/ WaitAborted(p) \/ Finish(p) PROVE ConfigTypes'
  BY <1>1, <1>2, <1>10 DEF StopScheme, WaitAborted, Finish, Return, relayVars
<1>11. ASSUME NEW p \in Senders, Begin(p) PROVE ConfigTypes'
  <2>1. mRelay' \in {mRelay, Relays}
    BY <1>11 DEF Begin
  <2>2. wanted' \in [Senders -> SUBSET Wires] /\ lastConfigs' \in [Senders -> SUBSET Wires]
    BY <1>1, <1>2, <1>11 DEF Begin, Return
  <2> QED BY <1>1, <1>11, <2>1, <2>2 DEF Begin
<1>12. ASSUME NEW p \in Senders, WaitGranted(p) PROVE ConfigTypes'
  BY <1>2, <1>12 DEF WaitGranted, Return, relayVars
<1>13. ASSUME NEW p \in Senders, Claim(p) \/ SendFirst(p) PROVE ConfigTypes'
  BY <1>13 DEF Claim, SendFirst, relayVars, localVars
<1>14. ASSUME NEW p \in Senders, SendStep(p) PROVE ConfigTypes'
  <2>1. PICK wire \in Steps(p) : /\ lastConfigs' = [lastConfigs EXCEPT ![p] = Flip(@, wire)]
                                 /\ board' = Flip(lastConfigs[p], wire)
    BY <1>14 DEF SendStep
  <2>2. wire \in Wires
    BY DEF Steps, FirstSteps, Changes
  <2>3. Flip(lastConfigs[p], wire) \in SUBSET Wires
    BY <2>2, ConfigOperators
  <2> QED BY <1>14, <2>1, <2>3 DEF SendStep, relayVars
<1> QED
  BY <1>3, <1>4, <1>5, <1>6, <1>7, <1>8, <1>9, <1>10, <1>11, <1>12, <1>13, <1>14
  DEF Next, SendRelays

\* It keeps those of the flags.
LEMMA NextFlagTypes == FlagTypes /\ [Next]_vars => FlagTypes'
<1> SUFFICES ASSUME FlagTypes, [Next]_vars PROVE FlagTypes'
  OBVIOUS
<1> USE DEF FlagTypes
<1>1. ASSUME NEW p \in Senders, NEW from, NEW to, Leave(p, from, to)
      PROVE  force' \in [Senders -> BOOLEAN]
  BY <1>1 DEF Leave
<1>2. ASSUME NEW p \in Senders, NotLate(p) PROVE late' \in [Senders -> BOOLEAN]
  BY <1>2 DEF NotLate
<1>3. CASE UNCHANGED vars
  BY <1>3 DEF vars
<1>4. CASE TempStage
  BY <1>4 DEF TempStage, flagVars
<1>5. CASE TempValve
  BY <1>5 DEF TempValve, flagVars
<1>6. CASE HumWiring
  BY <1>6 DEF HumWiring, flagVars
<1>7. CASE FanWork
  BY <1>7 DEF FanWork, flagVars, localVars
<1>8. CASE \E s \in Schemes : RequestStop(s)
  BY <1>8 DEF RequestStop, localVars
<1>9. ASSUME NEW p \in Senders, Restarted(p) PROVE FlagTypes'
  BY <1>9 DEF Restarted, localVars
<1>10. ASSUME NEW p \in Senders, StopScheme(p) PROVE FlagTypes'
  <2>1. late' \in [Senders -> BOOLEAN]
    BY <1>10 DEF StopScheme
  <2>2. stopWork' \in [Schemes -> BOOLEAN] /\ exits' \in [Senders -> SUBSET {"send", "none"}]
    BY <1>10 DEF StopScheme
  <2>3. sending' = sending
    BY <1>10 DEF StopScheme
  <2> QED BY <1>1, <1>10, <2>1, <2>2, <2>3 DEF StopScheme
<1>11. ASSUME NEW p \in Senders, Begin(p) PROVE FlagTypes'
  <2>1. force' \in [Senders -> BOOLEAN] /\ late' \in [Senders -> BOOLEAN]
    BY <1>1, <1>2, <1>11 DEF Begin, Return
  <2> QED BY <1>11, <2>1 DEF Begin, flagVars
<1>12. ASSUME NEW p \in Senders, TestCanSend(p) \/ Claim(p) \/ SendFirst(p) \/ SendStep(p)
       PROVE  FlagTypes'
  BY <1>12 DEF TestCanSend, Claim, SendFirst, SendStep, flagVars, localVars
<1>13. ASSUME NEW p \in Senders, EnterWait(p) PROVE FlagTypes'
  <2>1. late' \in [Senders -> BOOLEAN] /\ exits' \in [Senders -> SUBSET {"send", "none"}]
    BY <1>13 DEF EnterWait
  <2> QED BY <1>13, <2>1 DEF EnterWait, flagVars
<1>14. ASSUME NEW p \in Senders, WaitGranted(p) PROVE FlagTypes'
  <2>1. force' \in [Senders -> BOOLEAN] /\ late' \in [Senders -> BOOLEAN]
    BY <1>1, <1>2, <1>14 DEF WaitGranted, Return
  <2> QED BY <1>14, <2>1 DEF WaitGranted, flagVars
<1>15. ASSUME NEW p \in Senders, WaitAborted(p) PROVE FlagTypes'
  BY <1>1, <1>2, <1>15 DEF WaitAborted, Return
<1>16. ASSUME NEW p \in Senders, Finish(p) PROVE FlagTypes'
  <2>1. exits' \in [Senders -> SUBSET {"send", "none"}]
    BY <1>16 DEF Finish, Post
  <2>2. force' \in [Senders -> BOOLEAN] /\ late' \in [Senders -> BOOLEAN]
    BY <1>1, <1>2, <1>16 DEF Finish, Return
  <2>3. sending' \in [Schemes -> BOOLEAN] /\ stopWork' = stopWork
    BY <1>16 DEF Finish
  <2> QED BY <2>1, <2>2, <2>3
<1> QED
  BY <1>3, <1>4, <1>5, <1>6, <1>7, <1>8, <1>9, <1>10, <1>11, <1>12, <1>13, <1>14, <1>15, <1>16
  DEF Next, SendRelays

\* All of the state keeps its type, whoever sends, whatever is wired, and whether or not a
\* worker is terminated.
THEOREM TypeCorrect == Spec => []TypeOK
<1>1. Init => HandshakeTypes /\ ConfigTypes /\ FlagTypes
  <2> SUFFICES ASSUME Init PROVE ConfigTypes /\ FlagTypes
    BY InitHandshake
  <2>1. board \in SUBSET Wires
    <3>1. \/ \E c \in TempConfigs, ob \in ObStates : board = relays(c, ob, ObOnState, FALSE)
          \/ board = {}
      BY Zenon DEF Init
    <3>2. ASSUME NEW c \in TempConfigs, NEW ob \in ObStates
          PROVE  relays(c, ob, ObOnState, FALSE) \in SUBSET Wires
      <4>1. c \in SUBSET Wires
        BY SendersAssumption DEF SendersAssumption, Wires
      <4> QED BY <4>1, ConfigOperators
    <3>3. {} \in SUBSET Wires
      OBVIOUS
    <3> QED BY <3>1, <3>2, <3>3
  <2>2. ConfigTypes
    BY <2>1, SendersAssumption DEF Init, ConfigTypes, ObStates, SendersAssumption
  <2>3. FlagTypes
    BY DEF Init, FlagTypes
  <2> QED BY <2>2, <2>3
<1>2. HandshakeTypes /\ ConfigTypes /\ FlagTypes => TypeOK
  BY DEF HandshakeTypes, ConfigTypes, FlagTypes, TypeOK
<1> QED BY <1>1, <1>2, NextTypes, NextConfigTypes, NextFlagTypes, PTL DEF Spec

-----------------------------------------------------------------------------
(***************************************************************************)
(* The fan, when the humidity worker is not there: its accessory's wires   *)
(* are off, and what a step changes is a wire that sendRelays() does not   *)
(* skip.                                                                   *)
(***************************************************************************)

\* The wires the temperature scheme sends, and a configuration of them with its fan.
TempOwn == TempWires \cup {"g", "o_b"}
Fanned(c) == c \subseteq TempOwn /\ (c \cap FanLoads # {} => "g" \in c)

\* What relays() returns has its fan.
LEMMA RelaysFanned ==
  ASSUME NEW on \in SUBSET TempOwn, NEW ob, NEW ob_on, NEW fan
  PROVE  Fanned(relays(on, ob, ob_on, fan))
<1>1. updateOB(on, ob, ob_on) \in SUBSET TempOwn
  BY DEF updateOB, TempOwn
<1>2. ASSUME NEW c \in SUBSET TempOwn PROVE Fanned(updateFan(c, fan))
  BY <1>2 DEF updateFan, Fanned, TempOwn, FanLoads, AccWires, TempWires
<1> QED BY <1>1, <1>2 DEF relays

\* The order of the steps keeps the fan on as long as a load is.
LEMMA StepFanned ==
  ASSUME NEW from, NEW to, Fanned(from), Fanned(to), NEW wire \in FirstSteps(from, to, TempOwn)
  PROVE  Fanned(Flip(from, wire))
<1>1. wire \in Changes(from, to) /\ wire \in TempOwn
  BY DEF FirstSteps
<1>2. \A other \in Changes(from, to) : Factor(to, wire) <= Factor(to, other)
  BY DEF FirstSteps, Changes, Fanned
<1>3. Flip(from, wire) \subseteq TempOwn
  BY <1>1 DEF Flip, Fanned
<1>4. ASSUME NEW load \in FanLoads, load \in Flip(from, wire), "g" \notin Flip(from, wire)
      PROVE  FALSE
  <2>1. load \in {"y1", "w1", "w3"}
    BY <1>3, <1>4 DEF TempOwn, TempWires, FanLoads, AccWires
  <2>2. Priority[load] >= 3 /\ Priority["g"] = 2
    BY <2>1 DEF Priority, Wires, TempWires, AccWires
  <2>3. CASE load \in from
    <3>1. "g" \in from
      BY <2>3 DEF Fanned
    <3>2. wire = "g"
      BY <1>4, <3>1 DEF Flip
    <3>3. "g" \notin to /\ load \notin to
      BY <1>1, <3>1, <3>2 DEF Changes, Fanned
    <3>4. load \in Changes(from, to)
      BY <2>3, <3>3 DEF Changes
    <3>5. Factor(to, "g") = -2 /\ Factor(to, load) = -Priority[load]
      BY <2>2, <3>3 DEF Factor
    <3>6. Factor(to, "g") <= Factor(to, load)
      BY <1>2, <3>2, <3>4
    <3>7. Priority[load] \in Int
      BY <2>1 DEF Priority, Wires, TempWires, AccWires
    <3> QED BY <2>2, <3>5, <3>6, <3>7
  <2>4. CASE load \notin from
    <3>1. wire = load
      BY <1>4, <2>4 DEF Flip
    <3>2. load \in to /\ "g" \in to
      BY <1>1, <2>4, <3>1 DEF Changes, Fanned
    <3>3. "g" \notin from
      BY <1>4, <2>4, <3>1 DEF Flip
    <3>4. "g" \in Changes(from, to)
      BY <3>2, <3>3 DEF Changes
    <3>5. Factor(to, load) <= Factor(to, "g")
      BY <1>2, <3>1, <3>4
    <3>6. Factor(to, "g") = 2 /\ Factor(to, load) = Priority[load]
      BY <2>2, <3>2 DEF Factor
    <3>7. Priority[load] \in Int
      BY <2>1 DEF Priority, Wires, TempWires, AccWires
    <3> QED BY <2>2, <3>5, <3>6, <3>7
  <2> QED BY <2>3, <2>4
<1> QED BY <1>3, <1>4 DEF Fanned

\* Every configuration there is has its fan, and the Relay object has the wires of the scheme.
FanInv ==
  /\ mRelay \subseteq TempOwn
  /\ Fanned(mRelayLast) /\ Fanned(board)
  /\ wanted \in [Senders -> SUBSET Wires] /\ lastConfigs \in [Senders -> SUBSET Wires]
  /\ \A p \in Senders : Fanned(wanted[p]) /\ Fanned(lastConfigs[p])

\* Every step keeps it.
LEMMA NextFan ==
  ASSUME Hum \notin Senders
  PROVE  FanInv /\ [Next]_vars => FanInv'
<1> SUFFICES ASSUME FanInv, [Next]_vars PROVE FanInv'
  OBVIOUS
<1> USE DEF FanInv
<1>1. Fanned({})
  BY DEF Fanned
<1>2. \A c : Fanned(c) => c \in SUBSET Wires
  BY DEF Fanned, TempOwn, Wires
<1>3. Fanned(Relays) /\ Relays \subseteq TempOwn
  BY RelaysFanned DEF Relays, Fanned
<1>4. ASSUME NEW p \in Senders, NEW from, NEW to, Leave(p, from, to)
      PROVE  /\ wanted' \in [Senders -> SUBSET Wires] /\ lastConfigs' \in [Senders -> SUBSET Wires]
             /\ \A q \in Senders : Fanned(wanted'[q]) /\ Fanned(lastConfigs'[q])
  BY <1>1, <1>2, <1>4 DEF Leave
<1>5. CASE UNCHANGED vars
  BY <1>5 DEF vars, Fanned
<1>6. CASE TempStage
  <2>1. PICK c \in TempConfigs : mRelay' = WithTempWires(mRelay, c)
    BY <1>6 DEF TempStage
  <2>2. c \subseteq TempWires
    BY SendersAssumption DEF SendersAssumption
  <2>3. mRelay' \subseteq TempOwn
    BY <2>1, <2>2 DEF WithTempWires, TempOwn
  <2> QED BY <1>6, <2>3 DEF TempStage
<1>7. CASE TempValve \/ FanWork
  BY <1>7 DEF TempValve, FanWork, localVars
<1>8. CASE HumWiring
  BY <1>8 DEF HumWiring
<1>9. CASE \E s \in Schemes : RequestStop(s)
  BY <1>9 DEF RequestStop, relayVars, localVars
<1>10. ASSUME NEW p \in Senders, Restarted(p) PROVE FanInv'
  BY <1>10 DEF Restarted, relayVars, localVars
<1>11. ASSUME NEW p \in Senders, StopScheme(p) PROVE FanInv'
  BY <1>4, <1>11 DEF StopScheme, relayVars
<1>12. ASSUME NEW p \in Senders, SendRelays(p) PROVE FanInv'
  <2>1. CASE Begin(p)
    <3>1. CASE Return(p, "begin") /\ mRelay' \in {mRelay, Relays}
      BY <1>3, <1>4, <2>1, <3>1 DEF Begin, Return
    <3>2. CASE wanted' = [wanted EXCEPT ![p] = Relays]
               /\ lastConfigs' = [lastConfigs EXCEPT ![p] = mRelayLast] /\ mRelay' = Relays
      BY <1>2, <1>3, <2>1, <3>2 DEF Begin
    <3> QED BY <2>1, <3>1, <3>2 DEF Begin
  <2>2. CASE TestCanSend(p) \/ EnterWait(p)
    BY <2>2 DEF TestCanSend, EnterWait, relayVars, localVars
  <2>3. CASE WaitGranted(p)
    <3>1. CASE Return(p, "waiting")
      BY <1>4, <2>3, <3>1 DEF WaitGranted, Return, relayVars
    <3>2. CASE UNCHANGED <<wanted, lastConfigs, force>>
      BY <2>3, <3>2 DEF WaitGranted, relayVars
    <3> QED BY <2>3, <3>1, <3>2 DEF WaitGranted
  <2>4. CASE WaitAborted(p)
    BY <1>3, <1>4, <2>4 DEF WaitAborted, Return
  <2>5. CASE Claim(p)
    BY <2>5 DEF Claim, relayVars, localVars
  <2>6. CASE SendFirst(p)
    BY <2>6 DEF SendFirst, relayVars, localVars
  <2>7. CASE SendStep(p)
    <3>1. p # Hum
      OBVIOUS
    <3>2. SchemeOf(p) = Temp /\ Own(Temp) = TempOwn
      BY <3>1 DEF SchemeOf, Own, TempOwn
    <3>3. PICK wire \in FirstSteps(lastConfigs[p], wanted[p], TempOwn) :
            /\ lastConfigs' = [lastConfigs EXCEPT ![p] = Flip(@, wire)]
            /\ board' = Flip(lastConfigs[p], wire)
      BY <2>7, <3>2 DEF SendStep, Steps
    <3>4. Fanned(Flip(lastConfigs[p], wire))
      BY StepFanned
    <3> QED BY <1>2, <2>7, <3>3, <3>4 DEF SendStep, relayVars
  <2>8. CASE Finish(p)
    BY <1>4, <2>8 DEF Finish, Return, relayVars
  <2> QED BY <1>12, <2>1, <2>2, <2>3, <2>4, <2>5, <2>6, <2>7, <2>8 DEF SendRelays
<1> QED BY <1>5, <1>6, <1>7, <1>8, <1>9, <1>10, <1>11, <1>12 DEF Next

\* An application that starts finds a board that has its fan.
LEMMA InitFan == Init => FanInv
<1> SUFFICES ASSUME Init PROVE FanInv
  OBVIOUS
<1>1. Fanned({}) /\ {} \in SUBSET Wires
  BY DEF Fanned
<1>2. Fanned(board)
  <2>1. \/ \E c \in TempConfigs, ob \in ObStates : board = relays(c, ob, ObOnState, FALSE)
        \/ board = {}
    BY Zenon DEF Init
  <2>2. ASSUME NEW c \in TempConfigs, NEW ob \in ObStates
        PROVE  Fanned(relays(c, ob, ObOnState, FALSE))
    <3>1. c \in SUBSET TempOwn
      BY SendersAssumption DEF SendersAssumption, TempOwn
    <3> QED BY <3>1, RelaysFanned
  <2> QED BY <1>1, <2>1, <2>2
<1> QED BY <1>1, <1>2 DEF Init, FanInv

\* Without the humidity worker the fan runs whenever a load does, in between the steps too:
\* with the fan timer, restarts, terminations, and whatever is on the board at the start.
THEOREM FanRunsWithLoad ==
  ASSUME Hum \notin Senders
  PROVE  Spec => []FanWithLoad
<1>1. FanInv => FanWithLoad
  BY DEF FanInv, Fanned, FanWithLoad
<1> QED BY <1>1, InitFan, NextFan, PTL DEF Spec

-----------------------------------------------------------------------------
(***************************************************************************)
(* The temperature worker alone implements RelayBoard, but for its         *)
(* liveness.                                                               *)
(***************************************************************************)

\* The priorities are between 1 and 5, with a sign.
LEMMA FactorRange == \A to, wire : wire \in TempOwn => Factor(to, wire) \in -5 .. 5
<1> SUFFICES ASSUME NEW to, NEW wire \in TempOwn PROVE Factor(to, wire) \in -5 .. 5
  OBVIOUS
<1>1. Priority[wire] \in 1 .. 5
  BY DEF Priority, TempOwn, Wires, TempWires, AccWires
<1> QED BY <1>1 DEF Factor

\* As long as two configurations differ there is a next step, one of the smallest factor.
LEMMA NoStepLeft ==
  ASSUME NEW from, NEW to, Fanned(from), Fanned(to), FirstSteps(from, to, TempOwn) = {}
  PROVE  from = to
<1> DEFINE AtLeast(n) == \A wire \in Changes(from, to) : Factor(to, wire) >= n
<1>1. Changes(from, to) \subseteq TempOwn
  BY DEF Changes, Fanned
<1>2. \A wire \in Changes(from, to) : Factor(to, wire) \in -5 .. 5
  BY <1>1, FactorRange
<1>3. ASSUME NEW n \in -5 .. 5, AtLeast(n) PROVE AtLeast(n + 1)
  <2> SUFFICES ASSUME NEW wire \in Changes(from, to), Factor(to, wire) = n PROVE FALSE
    BY <1>2, <1>3
  <2> QED BY <1>1, <1>3 DEF FirstSteps
<1>4. AtLeast(-5)
  BY <1>2
<1> HIDE DEF AtLeast
<1>5. AtLeast(0)
  <2>1. AtLeast(-4) BY <1>3, <1>4
  <2>2. AtLeast(-3) BY <1>3, <2>1
  <2>3. AtLeast(-2) BY <1>3, <2>2
  <2>4. AtLeast(-1) BY <1>3, <2>3
  <2> QED BY <1>3, <2>4
<1>6. AtLeast(6)
  <2>1. AtLeast(1) BY <1>3, <1>5
  <2>2. AtLeast(2) BY <1>3, <2>1
  <2>3. AtLeast(3) BY <1>3, <2>2
  <2>4. AtLeast(4) BY <1>3, <2>3
  <2>5. AtLeast(5) BY <1>3, <2>4
  <2> QED BY <1>3, <2>5
<1>7. Changes(from, to) = {}
  BY <1>2, <1>6 DEF AtLeast
<1> QED BY <1>7 DEF Changes

\* The worker never waits; between two sends the board has what is recorded, and during one what
\* lastConfigs says, but for the whole configuration the first send has written.
AloneInv ==
  /\ HandshakeTypes /\ FanInv
  /\ canSend[Temp] /\ initialized \in BOOLEAN
  /\ pc[Temp] \in {"idle", "begin", "test", "claim", "first", "steps"}
  /\ pc[Temp] \notin {"first", "steps"} =>
       IF initialized THEN board = mRelayLast ELSE mRelayLast = {}
  /\ pc[Temp] \in {"test", "claim"} => lastConfigs[Temp] = mRelayLast
  /\ pc[Temp] \in {"first", "steps"} => wanted[Temp] = mRelayLast
  /\ pc[Temp] = "first" => lastConfigs[Temp] = IF initialized THEN board ELSE {}
  /\ pc[Temp] = "steps" =>
       initialized /\ (lastConfigs[Temp] = board \/ (lastConfigs[Temp] = {} /\ board = mRelayLast))

\* What is known of the board, for one sender.
AlonePhase ==
  IF ~initialized THEN IF pc[Temp] = "first" THEN "asked" ELSE "unknown"
  ELSE IF pc[Temp] = "steps" /\ lastConfigs[Temp] # board THEN "whole" ELSE "known"

\* With one sender it is Phase.
LEMMA PhaseAlone ==
  ASSUME Senders = {Temp}
  PROVE  Phase = AlonePhase /\ Phase' = AlonePhase'
  BY DEF Phase, AlonePhase

\* What a step of the worker is to the board: a step of RelayBoard, or none.
BoardStep == Board!Next \/ UNCHANGED Board!vars

\* A step that changes neither the board nor where the worker is sends nothing.
LEMMA ElsewhereAlone ==
  ASSUME Senders = {Temp}, AloneInv, FanInv', HandshakeTypes',
         UNCHANGED <<pc, canSend, initialized, board, mRelayLast, wanted, lastConfigs>>
  PROVE  AloneInv' /\ BoardStep
<1>1. AloneInv'
  BY DEF AloneInv
<1>2. UNCHANGED Board!vars
  BY PhaseAlone DEF AlonePhase, Board!vars
<1> QED BY <1>1, <1>2 DEF BoardStep

\* Neither does a call before the claim.
LEMMA BeforeClaimAlone ==
  ASSUME Senders = {Temp}, AloneInv, FanInv', HandshakeTypes',
         UNCHANGED <<canSend, initialized, board, mRelayLast>>,
         pc[Temp] \notin {"first", "steps"}, pc'[Temp] \in {"idle", "begin", "test", "claim"},
         pc'[Temp] \in {"test", "claim"} => lastConfigs'[Temp] = mRelayLast
  PROVE  AloneInv' /\ BoardStep
<1>1. AloneInv'
  BY DEF AloneInv
<1>2. UNCHANGED Board!vars
  BY PhaseAlone DEF AlonePhase, Board!vars
<1> QED BY <1>1, <1>2 DEF BoardStep

\* The claim asks for a new configuration.
LEMMA ClaimAlone ==
  ASSUME Senders = {Temp}, AloneInv, FanInv', HandshakeTypes', Claim(Temp)
  PROVE  AloneInv' /\ BoardStep
<1>1. /\ pc[Temp] = "claim" /\ pc'[Temp] = "first"
      /\ mRelayLast' = wanted[Temp] /\ UNCHANGED <<initialized, board, wanted, lastConfigs>>
  BY DEF Claim, Goto, AloneInv, HandshakeTypes, localVars
<1>2. canSend'[Temp] = canSend[Temp]
  <2>1. SchemeOf(Temp) = Temp /\ Temp \in Schemes
    BY DEF SchemeOf, Schemes, Temp, Hum
  <2>2. canSend' = [canSend EXCEPT ![Other(Temp)] = FALSE]
    BY <2>1 DEF Claim
  <2> QED BY <2>1, <2>2, OtherScheme DEF AloneInv, HandshakeTypes
<1>3. AloneInv'
  BY <1>1, <1>2 DEF AloneInv
<1>4. mRelayLast' \in SUBSET Wires
  BY <1>1 DEF AloneInv, FanInv
<1>5. Board!Ask
  BY <1>1, <1>4, PhaseAlone DEF Board!Ask, AlonePhase, AloneInv
<1> QED BY <1>3, <1>5 DEF BoardStep, Board!Next

\* The first send of all is the whole configuration.
LEMMA SendFirstAlone ==
  ASSUME Senders = {Temp}, AloneInv, FanInv', HandshakeTypes', SendFirst(Temp)
  PROVE  AloneInv' /\ BoardStep
<1>1. /\ pc[Temp] = "first" /\ pc'[Temp] = "steps" /\ initialized'
      /\ board' = (IF initialized THEN board ELSE wanted[Temp])
      /\ UNCHANGED <<mRelayLast, canSend, wanted, lastConfigs>>
  BY DEF SendFirst, Goto, AloneInv, HandshakeTypes, localVars, flagVars
<1>2. initialized' = TRUE
  BY DEF SendFirst
<1>3. AloneInv'
  BY <1>1, <1>2 DEF AloneInv
<1>4. CASE initialized
  <2>1. UNCHANGED Board!vars
    BY <1>1, <1>2, <1>4, PhaseAlone DEF Board!vars, AlonePhase, AloneInv
  <2> QED BY <1>3, <2>1 DEF BoardStep
<1>5. CASE ~initialized
  <2>1. Board!SendWhole
    BY <1>1, <1>2, <1>5, PhaseAlone DEF Board!SendWhole, AlonePhase, AloneInv
  <2> QED BY <1>3, <2>1 DEF BoardStep, Board!Next, Board!Send
<1> QED BY <1>4, <1>5

\* A step changes one relay, off before on.
LEMMA SendStepAlone ==
  ASSUME Senders = {Temp}, AloneInv, FanInv', HandshakeTypes', SendStep(Temp)
  PROVE  AloneInv' /\ BoardStep
<1> DEFINE from == lastConfigs[Temp]
           to == wanted[Temp]
<1>1. /\ pc[Temp] = "steps" /\ initialized /\ to = mRelayLast
      /\ UNCHANGED <<pc, initialized, mRelayLast, canSend, wanted>>
  BY DEF SendStep, AloneInv, flagVars
<1>2. PICK wire \in FirstSteps(from, to, TempOwn) :
        lastConfigs'[Temp] = Flip(from, wire) /\ board' = Flip(from, wire)
  BY DEF SendStep, Steps, SchemeOf, Own, TempOwn, AloneInv, FanInv, Temp, Hum
<1>3. AloneInv'
  BY <1>1, <1>2 DEF AloneInv
<1>4. Fanned(from) /\ Fanned(to)
  BY DEF AloneInv, FanInv
<1>5. wire \in Changes(from, to) /\ Changes(from, to) \subseteq TempOwn
  BY <1>4 DEF FirstSteps, Changes, Fanned
<1>6. Phase' = "known" /\ Phase = (IF from # board THEN "whole" ELSE "known")
  BY <1>1, <1>2, PhaseAlone DEF AlonePhase
<1>7. CASE from # board
  <2>1. from = {} /\ board' = {wire} /\ wire \in mRelayLast
    BY <1>1, <1>2, <1>5, <1>7 DEF AloneInv, Flip, Changes
  <2>2. Board!StartOver
    BY <1>1, <1>6, <1>7, <2>1 DEF Board!StartOver
  <2> QED BY <1>3, <2>2 DEF BoardStep, Board!Next, Board!Send
<1>8. CASE from = board /\ wire \in board
  <2>1. Board!TurnOff
    BY <1>1, <1>2, <1>5, <1>6, <1>8 DEF Board!TurnOff, Flip, Changes
  <2> QED BY <1>3, <2>1 DEF BoardStep, Board!Next, Board!Send
<1>9. CASE from = board /\ wire \notin board
  <2>1. wire \in to \ board
    BY <1>5, <1>9 DEF Changes
  <2>2. ASSUME NEW other \in board \ to PROVE FALSE
    <3>1. other \in Changes(from, to) /\ other \in TempOwn /\ wire \in TempOwn
      BY <1>5, <1>9, <2>2 DEF Changes
    <3>2. Factor(to, wire) <= Factor(to, other)
      BY <3>1 DEF FirstSteps
    <3>3. Priority[wire] \in 1 .. 5 /\ Priority[other] \in 1 .. 5
      BY <3>1 DEF Priority, TempOwn, Wires, TempWires, AccWires
    <3> QED BY <2>1, <2>2, <3>2, <3>3 DEF Factor
  <2>3. Board!TurnOn
    BY <1>1, <1>2, <1>6, <1>9, <2>1, <2>2 DEF Board!TurnOn, Flip
  <2> QED BY <1>3, <2>3 DEF BoardStep, Board!Next, Board!Send
<1> QED BY <1>7, <1>8, <1>9

\* A send ends when nothing is left to change.
LEMMA FinishAlone ==
  ASSUME Senders = {Temp}, AloneInv, FanInv', HandshakeTypes', Finish(Temp)
  PROVE  AloneInv' /\ BoardStep
<1>1. /\ pc[Temp] = "steps" /\ pc'[Temp] = "idle"
      /\ UNCHANGED <<initialized, board, mRelayLast>>
  BY DEF Finish, Return, Leave, Goto, AloneInv, HandshakeTypes
<1>2. canSend'[Temp]
  BY DEF Finish, AloneInv, HandshakeTypes, SchemeOf, Other, Temp, Hum
<1>3. FirstSteps(lastConfigs[Temp], wanted[Temp], TempOwn) = {}
  BY DEF Finish, MayStep, Steps, SchemeOf, Own, TempOwn, AloneInv, Temp, Hum
<1>4. lastConfigs[Temp] = wanted[Temp]
  BY <1>3, NoStepLeft DEF AloneInv, FanInv
<1>5. board = mRelayLast /\ lastConfigs[Temp] = board
  BY <1>1, <1>4 DEF AloneInv
<1>6. AloneInv'
  BY <1>1, <1>2, <1>5 DEF AloneInv
<1>7. UNCHANGED Board!vars
  BY <1>1, <1>5, PhaseAlone DEF Board!vars, AlonePhase, AloneInv
<1> QED BY <1>6, <1>7 DEF BoardStep

\* Every step is a step of RelayBoard, or none.
LEMMA NextAlone ==
  ASSUME Senders = {Temp}, ~SensorFails
  PROVE  AloneInv /\ [Next]_vars => AloneInv' /\ BoardStep
<1> SUFFICES ASSUME AloneInv, [Next]_vars PROVE AloneInv' /\ BoardStep
  OBVIOUS
<1>1. FanInv' /\ HandshakeTypes'
  BY NextFan, NextTypes DEF AloneInv, Temp, Hum
<1>2. CASE UNCHANGED vars
  BY <1>1, <1>2, ElsewhereAlone DEF vars
<1>3. CASE TempStage \/ TempValve
  <2>1. /\ pc[Temp] = "idle" /\ pc'[Temp] = "begin"
        /\ UNCHANGED <<canSend, initialized, board, mRelayLast>>
    BY <1>3 DEF TempStage, TempValve, Goto, AloneInv, HandshakeTypes, flagVars
  <2> QED BY <1>1, <2>1, BeforeClaimAlone
<1>4. CASE HumWiring \/ FanWork
  BY <1>4 DEF HumWiring, FanWork, Hum, Fan, Temp
<1>5. CASE \E s \in Schemes : RequestStop(s)
  BY <1>1, <1>5, ElsewhereAlone DEF RequestStop, localVars
<1>6. CASE Restarted(Temp)
  <2>1. /\ pc[Temp] = "idle" /\ pc'[Temp] = "idle"
        /\ UNCHANGED <<canSend, initialized, board, mRelayLast>>
    BY <1>6 DEF Restarted, AloneInv, HandshakeTypes
  <2> QED BY <1>1, <2>1, BeforeClaimAlone
<1>7. CASE StopScheme(Temp)
  BY <1>7 DEF StopScheme
<1>8. CASE Begin(Temp)
  <2>1. /\ pc[Temp] = "begin" /\ pc'[Temp] \in {"idle", "test"}
        /\ UNCHANGED <<canSend, initialized, board, mRelayLast>>
        /\ pc'[Temp] = "test" => lastConfigs'[Temp] = mRelayLast
    BY <1>8 DEF Begin, Return, Leave, Goto, AloneInv, FanInv, HandshakeTypes, flagVars
  <2> QED BY <1>1, <2>1, BeforeClaimAlone
<1>9. CASE TestCanSend(Temp)
  <2>1. /\ pc[Temp] = "test" /\ pc'[Temp] = "claim" /\ lastConfigs'[Temp] = mRelayLast
        /\ UNCHANGED <<canSend, initialized, board, mRelayLast>>
    BY <1>9 DEF TestCanSend, Goto, AloneInv, HandshakeTypes, SchemeOf, flagVars, localVars, Temp, Hum
  <2> QED BY <1>1, <2>1, BeforeClaimAlone
<1>10. CASE EnterWait(Temp)
  BY <1>10 DEF EnterWait, Goto, AloneInv
<1>11. CASE WaitGranted(Temp) \/ WaitAborted(Temp)
  BY <1>11 DEF WaitGranted, WaitAborted, Return, Leave, Goto, AloneInv
<1>12. CASE Claim(Temp)
  BY <1>1, <1>12, ClaimAlone
<1>13. CASE SendFirst(Temp)
  BY <1>1, <1>13, SendFirstAlone
<1>14. CASE SendStep(Temp)
  BY <1>1, <1>14, SendStepAlone
<1>15. CASE Finish(Temp)
  BY <1>1, <1>15, FinishAlone
<1> QED
  BY <1>2, <1>3, <1>4, <1>5, <1>6, <1>7, <1>8, <1>9, <1>10, <1>11, <1>12, <1>13, <1>14, <1>15
  DEF Next, SendRelays

\* The start of the application is a start of RelayBoard.
LEMMA InitAlone ==
  ASSUME Senders = {Temp}
  PROVE  Init => AloneInv /\ Board!Init
<1> SUFFICES ASSUME Init PROVE AloneInv /\ Board!Init
  OBVIOUS
<1>1. FanInv /\ HandshakeTypes
  BY InitFan, InitHandshake
<1>2. /\ pc[Temp] = "idle" /\ mRelayLast = {} /\ canSend[Temp]
      /\ initialized = ~FirstSend /\ (~FirstSend => board = {})
  BY Zenon DEF Init, Schemes
<1>3. FirstSend \in BOOLEAN
  BY SendersAssumption DEF SendersAssumption
<1>4. AloneInv
  BY <1>1, <1>2, <1>3 DEF AloneInv
<1>5. board \in SUBSET Wires
  BY <1>1 DEF FanInv, Fanned, TempOwn, Wires
<1>6. Board!Init
  BY <1>2, <1>3, <1>5, PhaseAlone DEF Board!Init, AlonePhase
<1> QED BY <1>4, <1>6

\* The temperature worker alone, restarted at any time, brings the board to each configuration
\* one relay at a time and off before on, and sends the first one whole.
THEOREM AloneImplementsBoard ==
  ASSUME Senders = {Temp}, ~SensorFails
  PROVE  Spec => Board!Init /\ [][Board!Next]_(Board!vars)
<1>1. AloneInv /\ [Next]_vars => AloneInv' /\ [Board!Next]_(Board!vars)
  BY NextAlone DEF BoardStep
<1> QED BY <1>1, InitAlone, PTL DEF Spec

=============================================================================
