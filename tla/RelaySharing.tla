---------------------------- MODULE RelaySharing ----------------------------
(***************************************************************************)
(* sendRelays() of the two schemes, and the handshake DeviceControllerCPP  *)
(* builds between them.                                                    *)
(*                                                                         *)
(* The temperature worker and the humidity worker change the one Relay     *)
(* object and bring the board up to it, relay by relay, from their own     *)
(* copies of the last and of the wanted configuration.  While a scheme     *)
(* sends, the direct connections on sendRelayIsRunning take the other      *)
(* scheme's mCanSendRelay away.  The fan timer runs Scheme::sendRelays()   *)
(* a second time, in the main thread, beside the temperature worker.       *)
(*                                                                         *)
(* Senders are the callers of sendRelays(); SchemeOf says on whose object. *)
(* updateRelays is a queued signal with one receiver, so the board sees    *)
(* the emissions in the order in which they are made.                      *)
(***************************************************************************)
EXTENDS Relay

CONSTANTS
  Senders,       \* which callers of sendRelays() are active
  TempConfigs,   \* the heating and cooling wires the temperature loops ask for
  AccTypes,      \* the accessory wirings, "none" included
  FirstSend,     \* BOOLEAN: nothing has been sent since the application started
  HeatPump,      \* BOOLEAN: there is a reversing valve to switch
  Restarts,      \* BOOLEAN: the workers may be told to restart
  SensorFails    \* BOOLEAN: a sensor may fail, and its scheme be stopped

Temp == "temp"
Hum == "hum"
Fan == "fan"

ASSUME SendersAssumption ==
  /\ Senders \subseteq {Temp, Hum, Fan}
  /\ TempConfigs \subseteq SUBSET TempWires
  /\ AccTypes \subseteq AccWireTypes
  /\ FirstSend \in BOOLEAN /\ HeatPump \in BOOLEAN /\ Restarts \in BOOLEAN
  /\ SensorFails \in BOOLEAN

Schemes == {Temp, Hum}
SchemeOf(p) == IF p = Hum THEN Hum ELSE Temp
Other(s) == IF s = Temp THEN Hum ELSE Temp

\* The steps a scheme's sendRelays() does not skip.
Own(s) == IF s = Temp THEN TempWires \cup {"g", "o_b"} ELSE AccWires \cup {"g"}

VARIABLES
  mRelay,        \* the configuration wanted
  ob_state,      \* Relay::ob_state
  mFanOn,        \* Relay::mFanOn
  mRelayLast,    \* the configuration the code believes it has sent
  initialized,   \* SchemeDataProvider::isRelaysInitialized
  board,         \* the relays that are ON
  canSend,       \* mCanSendRelay, per scheme
  sending,       \* mIsSendingRelay, per scheme
  stopWork,      \* stopWork, per scheme
  pc,            \* where each sender is
  wanted,        \* relaysConfig, per sender
  lastConfigs,   \* lastConfigs, per sender
  force,         \* forceSend, per sender
  exits,         \* the loop exits posted to a sender's waitLoop
  late           \* history: nobody that sends will end the sender's wait

relayVars == <<mRelay, ob_state, mFanOn>>
flagVars == <<canSend, sending, stopWork>>
localVars == <<wanted, lastConfigs, force, late>>

vars == <<mRelay, ob_state, mFanOn, mRelayLast, initialized, board,
          canSend, sending, stopWork, pc, wanted, lastConfigs, force, exits, late>>

\* heatPumpOBState = 0: the valve is energised for cooling.
ObOnState == "Cooling"
ObStates == {"Off", "Cooling", "Heating"}

SenderPC == {"dead", "idle", "begin", "test", "toWait", "waiting", "claim", "first", "steps"}

TypeOK ==
  /\ mRelay \in SUBSET Wires
  /\ ob_state \in ObStates
  /\ mFanOn \in BOOLEAN
  /\ mRelayLast \in SUBSET Wires
  /\ initialized \in BOOLEAN
  /\ board \in SUBSET Wires
  /\ canSend \in [Schemes -> BOOLEAN]
  /\ sending \in [Schemes -> BOOLEAN]
  /\ stopWork \in [Schemes -> BOOLEAN]
  /\ pc \in [Senders -> SenderPC]
  /\ wanted \in [Senders -> SUBSET Wires]
  /\ lastConfigs \in [Senders -> SUBSET Wires]
  /\ force \in [Senders -> BOOLEAN]
  /\ exits \in [Senders -> SUBSET {"send", "none"}]
  /\ late \in [Senders -> BOOLEAN]

\* The board agrees with the code, or the application has just been restarted
\* and the board still has what the last one left.
Init ==
  /\ mRelay = {} /\ ob_state = "Off" /\ mFanOn = FALSE
  /\ mRelayLast = {}
  /\ initialized = ~FirstSend
  /\ IF FirstSend
     THEN \E c \in TempConfigs, ob \in ObStates : board = relays(c, ob, ObOnState, FALSE)
     ELSE board = {}
  /\ canSend = [s \in Schemes |-> TRUE]
  /\ sending = [s \in Schemes |-> FALSE]
  /\ stopWork = [s \in Schemes |-> FALSE]
  /\ pc = [p \in Senders |-> "idle"]
  /\ wanted = [p \in Senders |-> {}]
  /\ lastConfigs = [p \in Senders |-> {}]
  /\ force = [p \in Senders |-> FALSE]
  /\ exits = [p \in Senders |-> {}]
  /\ late = [p \in Senders |-> FALSE]

\* Senders that are between setIsSendingRelays(true) and setIsSendingRelays(false).
Sending(s) == {p \in Senders : SchemeOf(p) = s /\ pc[p] \in {"first", "steps"}}

Relays == relays(mRelay, ob_state, ObOnState, mFanOn)

Goto(p, from, to) == pc[p] = from /\ pc' = [pc EXCEPT ![p] = to]

\* The call is over, by its return or with its thread: its locals are gone.
Leave(p, from, to) ==
  /\ Goto(p, from, to)
  /\ wanted' = [wanted EXCEPT ![p] = {}]
  /\ lastConfigs' = [lastConfigs EXCEPT ![p] = {}]
  /\ force' = [force EXCEPT ![p] = FALSE]

NotLate(p) == late' = [late EXCEPT ![p] = FALSE]

Return(p, from) == Leave(p, from, "idle") /\ NotLate(p)

-----------------------------------------------------------------------------
(***************************************************************************)
(* The callers: an operation on the Relay object, then sendRelays().       *)
(***************************************************************************)

\* A stage of the temperature loops; setAllOff() after a loop is sent by force.
TempStage ==
  /\ Temp \in Senders
  /\ Goto(Temp, "idle", "begin")
  /\ \E c \in TempConfigs :
       /\ mRelay' = WithTempWires(mRelay, c)
       /\ force' = [force EXCEPT ![Temp] = c = {}]
  /\ UNCHANGED <<ob_state, mFanOn, mRelayLast, initialized, board, flagVars,
                 wanted, lastConfigs, exits, late>>

\* updateOBState() of a heat pump: sends only when the state changes.
TempValve ==
  /\ HeatPump /\ Temp \in Senders
  /\ Goto(Temp, "idle", "begin")
  /\ \E ob \in {"Cooling", "Heating"} \ {ob_state} : ob_state' = ob
  /\ force' = [force EXCEPT ![Temp] = FALSE]
  /\ UNCHANGED <<mRelay, mFanOn, mRelayLast, initialized, board, flagVars,
                 wanted, lastConfigs, exits, late>>

\* updateAccessoriesRelays(); turnOffAccessoriesRelays() is followed by a forced send.
HumWiring ==
  /\ Hum \in Senders
  /\ Goto(Hum, "idle", "begin")
  /\ \E t \in AccTypes :
       /\ mRelay' = updateHumidityWiring(mRelay, t)
       /\ force' = [force EXCEPT ![Hum] = t = "none"]
  /\ UNCHANGED <<ob_state, mFanOn, mRelayLast, initialized, board, flagVars,
                 wanted, lastConfigs, exits, late>>

\* fanWork(), in the main thread.
FanWork ==
  /\ Fan \in Senders
  /\ Goto(Fan, "idle", "begin")
  /\ mFanOn' = ~mFanOn
  /\ UNCHANGED <<mRelay, ob_state, mRelayLast, initialized, board, flagVars,
                 localVars, exits>>

\* restartWork() raises stopWork, and the worker, between two calls, is started again.
RequestStop(s) ==
  /\ Restarts /\ ~stopWork[s]
  /\ stopWork' = [stopWork EXCEPT ![s] = TRUE]
  /\ UNCHANGED <<relayVars, mRelayLast, initialized, board, canSend, sending,
                 pc, localVars, exits>>

Restarted(p) ==
  /\ p # Fan
  /\ pc[p] \in {"idle", "dead"} /\ stopWork[SchemeOf(p)]
  /\ stopWork' = [stopWork EXCEPT ![SchemeOf(p)] = FALSE]
  /\ pc' = [pc EXCEPT ![p] = "idle"]
  /\ UNCHANGED <<relayVars, mRelayLast, initialized, board, canSend, sending,
                 localVars, exits>>

\* stop(): the worker is terminated where it is.  mIsSendingRelay, and with it the
\* other scheme's mCanSendRelay, stay as they are.
StopScheme(p) ==
  /\ SensorFails /\ p # Fan
  /\ pc[p] # "dead"
  /\ Leave(p, pc[p], "dead")
  /\ stopWork' = [stopWork EXCEPT ![SchemeOf(p)] = TRUE]
  /\ exits' = [exits EXCEPT ![p] = {}]
  /\ late' = [q \in Senders |->
                /\ q # p
                /\ late[q] \/ (pc[q] = "waiting" /\ Sending(Other(SchemeOf(q))) = {p})]
  /\ UNCHANGED <<relayVars, mRelayLast, initialized, board, canSend, sending>>

-----------------------------------------------------------------------------
(***************************************************************************)
(* sendRelays(forceSend).                                                  *)
(***************************************************************************)

Refused(p) == ~force[p] /\ stopWork[SchemeOf(p)]

\* The first test, the two copies, and the comparison.  relays() stores what it returns.
Begin(p) ==
  /\ pc[p] = "begin"
  /\ \/ /\ Refused(p)
        /\ Return(p, "begin")
        /\ UNCHANGED mRelay
     \/ /\ ~Refused(p)
        /\ mRelay' = Relays
        /\ IF initialized /\ mRelayLast = Relays
           THEN Return(p, "begin")
           ELSE /\ Goto(p, "begin", "test")
                /\ wanted' = [wanted EXCEPT ![p] = Relays]
                /\ lastConfigs' = [lastConfigs EXCEPT ![p] = mRelayLast]
                /\ UNCHANGED <<force, late>>
  /\ UNCHANGED <<ob_state, mFanOn, mRelayLast, initialized, board, flagVars, exits>>

\* if (!mCanSendRelay)
TestCanSend(p) ==
  /\ Goto(p, "test", IF canSend[SchemeOf(p)] THEN "claim" ELSE "toWait")
  /\ UNCHANGED <<relayVars, mRelayLast, initialized, board, flagVars, localVars, exits>>

\* waitLoop(-1, ctSendRelay): connected from here on.
EnterWait(p) ==
  /\ Goto(p, "toWait", "waiting")
  /\ exits' = [exits EXCEPT ![p] = {}]
  /\ late' = [late EXCEPT ![p] = Sending(Other(SchemeOf(p))) = {}]
  /\ UNCHANGED <<relayVars, mRelayLast, initialized, board, flagVars, wanted, lastConfigs, force>>

\* The wait ends with canSendRelay(): go on with the copies made before it.
WaitGranted(p) ==
  /\ "send" \in exits[p]
  /\ IF Refused(p) THEN Return(p, "waiting")
     ELSE /\ Goto(p, "waiting", "claim") /\ NotLate(p)
          /\ UNCHANGED <<wanted, lastConfigs, force>>
  /\ exits' = [exits EXCEPT ![p] = {}]
  /\ UNCHANGED <<relayVars, mRelayLast, initialized, board, flagVars>>

\* It ends otherwise: take the wanted configuration for sent, and restart.
WaitAborted(p) ==
  /\ "none" \in exits[p]
  /\ Return(p, "waiting")
  /\ mRelay' = Relays
  /\ mRelayLast' = Relays
  /\ stopWork' = [stopWork EXCEPT ![SchemeOf(p)] = TRUE]
  /\ exits' = [exits EXCEPT ![p] = {}]
  /\ UNCHANGED <<ob_state, mFanOn, initialized, board, canSend, sending>>

\* An exit posted to the waiting senders of a scheme.
Post(s, code) == [p \in Senders |->
  IF SchemeOf(p) = s /\ pc[p] = "waiting" THEN exits[p] \cup {code} ELSE exits[p]]

\* Mutant of Claim: the other scheme is not told.
ClaimUnmarked(p) ==
  /\ Goto(p, "claim", "first")
  /\ mRelayLast' = wanted[p]
  /\ sending' = [sending EXCEPT ![SchemeOf(p)] = TRUE]
  /\ UNCHANGED <<relayVars, initialized, board, canSend, stopWork, localVars, exits>>

\* setRelaysLast(relaysConfig); setIsSendingRelays(true).
Claim(p) ==
  /\ Goto(p, "claim", "first")
  /\ mRelayLast' = wanted[p]
  /\ sending' = [sending EXCEPT ![SchemeOf(p)] = TRUE]
  /\ canSend' = [canSend EXCEPT ![Other(SchemeOf(p))] = FALSE]
  /\ UNCHANGED <<relayVars, initialized, board, stopWork, localVars, exits>>

\* The first send of all goes out whole; then the steps follow all the same.
SendFirst(p) ==
  /\ Goto(p, "first", "steps")
  /\ board' = IF initialized THEN board ELSE wanted[p]
  /\ initialized' = TRUE
  /\ UNCHANGED <<relayVars, mRelayLast, flagVars, localVars, exits>>

Steps(p) == FirstSteps(lastConfigs[p], wanted[p], Own(SchemeOf(p)))
MayStep(p) == force[p] \/ canSend[SchemeOf(p)]

\* Mutant of SendStep: the whole configuration at once (debugMode off).
SendStepWhole(p) ==
  /\ pc[p] = "steps" /\ MayStep(p) /\ Steps(p) # {}
  /\ lastConfigs' = [lastConfigs EXCEPT ![p] = wanted[p]]
  /\ board' = wanted[p]
  /\ UNCHANGED <<relayVars, mRelayLast, initialized, flagVars, pc, wanted, force, exits, late>>

\* One relay changes in lastConfigs, and all of lastConfigs is emitted.
SendStep(p) ==
  /\ pc[p] = "steps" /\ MayStep(p)
  /\ \E wire \in Steps(p) :
       /\ lastConfigs' = [lastConfigs EXCEPT ![p] = Flip(@, wire)]
       /\ board' = Flip(lastConfigs[p], wire)
  /\ UNCHANGED <<relayVars, mRelayLast, initialized, flagVars, pc, wanted, force, exits, late>>

\* Mutant of Finish: the permission is not given back.
FinishUnreleased(p) ==
  /\ pc[p] = "steps" /\ (Steps(p) = {} \/ ~MayStep(p))
  /\ Return(p, "steps")
  /\ sending' = [sending EXCEPT ![SchemeOf(p)] = FALSE]
  /\ UNCHANGED <<relayVars, mRelayLast, initialized, board, canSend, stopWork, exits>>

\* Mutant of Finish: canSendRelay() is not emitted.
FinishSilent(p) ==
  /\ pc[p] = "steps" /\ (Steps(p) = {} \/ ~MayStep(p))
  /\ Return(p, "steps")
  /\ sending' = [sending EXCEPT ![SchemeOf(p)] = FALSE]
  /\ canSend' = [canSend EXCEPT ![Other(SchemeOf(p))] = TRUE]
  /\ UNCHANGED <<relayVars, mRelayLast, initialized, board, stopWork, exits>>

\* setIsSendingRelays(false): the other scheme may send and its waiter goes on; a
\* waiter on the same object is sent away.
Finish(p) ==
  /\ pc[p] = "steps" /\ (Steps(p) = {} \/ ~MayStep(p))
  /\ Return(p, "steps")
  /\ sending' = [sending EXCEPT ![SchemeOf(p)] = FALSE]
  /\ canSend' = [canSend EXCEPT ![Other(SchemeOf(p))] = TRUE]
  /\ exits' = [q \in Senders |-> Post(Other(SchemeOf(p)), "send")[q]
                                   \cup Post(SchemeOf(p), "none")[q]]
  /\ UNCHANGED <<relayVars, mRelayLast, initialized, board, stopWork>>

SendRelays(p) ==
  \/ Begin(p)
  \/ TestCanSend(p)
  \/ EnterWait(p)
  \/ WaitGranted(p)
  \/ WaitAborted(p)
  \/ Claim(p)
  \/ SendFirst(p)
  \/ SendStep(p)
  \/ Finish(p)

Next ==
  \/ TempStage
  \/ TempValve
  \/ HumWiring
  \/ FanWork
  \/ \E s \in Schemes : RequestStop(s)
  \/ \E p \in Senders : Restarted(p) \/ StopScheme(p) \/ SendRelays(p)

Spec == Init /\ [][Next]_vars

\* Each sender is a thread of its own, and the delays between steps end.
Fairness == \A p \in Senders : WF_vars(SendRelays(p))

FairSpec == Spec /\ Fairness

-----------------------------------------------------------------------------
(***************************************************************************)
(* Properties.                                                             *)
(***************************************************************************)

\* A scheme is kept from sending only by a sender of the other one that will release it.
BlockedOnlyBySender == \A s \in Schemes : ~canSend[s] => Sending(Other(s)) # {}

\* While a scheme sends, the other one finds that it may not.
SendingMarked == \A s \in Schemes : Sending(s) # {} => ~canSend[Other(s)]

\* A sender entered its wait after the release it had tested for, or the sender that would
\* release it was terminated.
Abandoned(p) == pc[p] = "waiting" /\ late[p]

\* That is the only way in which a call of sendRelays() does not return.
CallReturns == \A p \in Senders :
  pc[p] \notin {"idle", "dead"} ~> (pc[p] \in {"idle", "dead"} \/ Abandoned(p))

\* The fan runs whenever a load that needs it is on, also between two steps.
FanWithLoad == board \cap FanLoads # {} => "g" \in board

\* "we can not change multiple relays at once".  Where two schemes share the board this does not
\* hold: a wire that a scheme skips, and records as sent, goes out with its next step.
OneRelayAtATime == [][\A v, w \in Changes(board, board') : v = w]_board

\* What is known of the board: nothing until the first send, which goes out whole and is
\* then repeated from the last configuration of the code, all off.
Phase ==
  IF ~initialized
  THEN IF \E p \in Senders : pc[p] = "first" THEN "asked" ELSE "unknown"
  ELSE IF \E p \in Senders : pc[p] = "steps" /\ lastConfigs[p] # board THEN "whole"
  ELSE "known"

\* With the temperature worker alone, the board is promised what RelayBoard says.
Board == INSTANCE RelayBoard WITH board <- board, target <- mRelayLast, phase <- Phase

BoardSpec == Board!Spec

=============================================================================
