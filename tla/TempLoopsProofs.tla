--------------------------- MODULE TempLoopsProofs ---------------------------
(***************************************************************************)
(* What TLAPS proves of the control loops, for any set of setups, modes    *)
(* and temperatures, with updates and a failing sensor and without: the    *)
(* types, and the five safety properties of the compressor, the furnace    *)
(* and the valve.                                                          *)
(*                                                                         *)
(* None of the properties is inductive: each speaks of the board, which    *)
(* follows the configuration wanted with a send in between, and that send  *)
(* is refused while stopWork is up.  Inv therefore says for every location *)
(* what is on, wanted and on the board.  Nothing is where a loop begins,   *)
(* so that no loop starts on what another one left; and from there the     *)
(* operations of one loop alone have to be followed.  An update that keeps *)
(* run() from turning everything off, and terminate(), break just that,    *)
(* until it is made good (leftOn).                                         *)
(***************************************************************************)
EXTENDS TempLoops, TLAPS

-----------------------------------------------------------------------------
(***************************************************************************)
(* The operators of Relay.                                                 *)
(***************************************************************************)

\* Every operation on the relays returns a set of wires.

LEMMA ConfigurationsOfWires ==
  ASSUME NEW on \in SUBSET Wires
  PROVE  /\ \A ob, obOn : relays(on, ob, obOn, FALSE) \in SUBSET Wires
         /\ coolingStage1(on) \in SUBSET Wires /\ coolingStage2(on) \in SUBSET Wires
         /\ \A pump : /\ heatingStage1(on, pump) \in SUBSET Wires
                      /\ heatingStage2(on, pump) \in SUBSET Wires
         /\ heatingStage3(on) \in SUBSET Wires
         /\ setAllOff(on) \in SUBSET Wires
         /\ \A together : auxiliaryHeatingStage1(on, together) \in SUBSET Wires
         /\ \A turnOn : auxiliaryHeatingStage2(on, turnOn) \in SUBSET Wires
         /\ \A useStage1, together :
              emergencyAuxiliaryHeating(on, useStage1, together) \in SUBSET Wires
         /\ turnOffHeatPump(on) \in SUBSET Wires
         /\ turnOffEmergencyHeating(on) \in SUBSET Wires
<1> USE DEF Wires, TempWires
<1>0. \A wires \in SUBSET TempWires : WithTempWires(on, wires) \in SUBSET Wires
  BY DEF WithTempWires
<1>1. \A ob, obOn : relays(on, ob, obOn, FALSE) \in SUBSET Wires
  BY DEF relays, updateOB, updateFan
<1>2. coolingStage1(on) \in SUBSET Wires /\ coolingStage2(on) \in SUBSET Wires
      /\ heatingStage3(on) \in SUBSET Wires /\ setAllOff(on) \in SUBSET Wires
  BY <1>0 DEF coolingStage1, coolingStage2, heatingStage3, setAllOff
<1>3. \A pump : /\ heatingStage1(on, pump) \in SUBSET Wires
                /\ heatingStage2(on, pump) \in SUBSET Wires
  BY <1>0 DEF heatingStage1, heatingStage2
<1>4. \A together : auxiliaryHeatingStage1(on, together) \in SUBSET Wires
  BY DEF auxiliaryHeatingStage1, WhenE
<1>5. \A turnOn : auxiliaryHeatingStage2(on, turnOn) \in SUBSET Wires
  BY DEF auxiliaryHeatingStage2
<1>6. \A useStage1, together :
              emergencyAuxiliaryHeating(on, useStage1, together) \in SUBSET Wires
  BY <1>2 DEF emergencyAuxiliaryHeating, WhenE
<1>7. turnOffHeatPump(on) \in SUBSET Wires /\ turnOffEmergencyHeating(on) \in SUBSET Wires
  BY DEF turnOffHeatPump, turnOffEmergencyHeating
<1> QED BY <1>1, <1>2, <1>3, <1>4, <1>5, <1>6, <1>7

\* relays() leaves the heating and cooling wires as they are and sets the valve to ob_state.
LEMMA RelaysSent ==
  ASSUME NEW on
  PROVE  /\ \A wire \in TempWires :
              wire \in Wanted(on) <=> wire \in on
         /\ "o_b" \in Wanted(on)
              <=> HasValve /\ ob_state = ob_on_state
<1> DEFINE valve == updateOB(on, ob_state, ob_on_state)
           new == Wanted(on)
<1>1. "o_b" \in valve <=> HasValve /\ ob_state = ob_on_state
  BY DEF updateOB, ob_on_state
<1>2. \A wire \in TempWires : wire \in valve <=> wire \in on
  BY DEF updateOB, TempWires
<1>3. \A wire : wire # "g" => (wire \in new <=> wire \in valve)
  BY DEF Wanted, relays, updateFan
<1> QED BY <1>1, <1>2, <1>3 DEF TempWires

\* Some of the steps leave every wire as it was or as it will be ...
LEMMA PartwayBetween ==
  ASSUME NEW from, NEW to, NEW board \in Partway(from, to), NEW wire
  PROVE  (wire \in board <=> wire \in from) \/ (wire \in board <=> wire \in to)
  BY DEF Partway, Changes

\* ... and a second stage with its first.
LEMMA PartwayOrdered ==
  ASSUME NEW from \in SUBSET Wires, NEW to \in SUBSET Wires, NEW board \in Partway(from, to),
         NEW stage1, NEW stage2, <<stage1, stage2>> \in {<<"y1", "y2">>, <<"w1", "w2">>},
         stage2 \in from => stage1 \in from, stage2 \in to => stage1 \in to
  PROVE  stage2 \in board => stage1 \in board
<1>1. /\ Priority["y1"] = 3 /\ Priority["y2"] = 4
      /\ Priority["w1"] = 3 /\ Priority["w2"] = 4
  BY DEF Priority, Wires, TempWires
<1>2. Priority[stage1] = 3 /\ Priority[stage2] = 4
  BY <1>1
<1>3. PICK done \in SUBSET Changes(from, to) :
        /\ \A wire \in done, other \in Changes(from, to) \ done :
             Factor(to, wire) <= Factor(to, other)
        /\ board = (from \ done) \cup (done \ from)
  BY DEF Partway
<1>4. SUFFICES ASSUME stage2 \in board, stage1 \notin board PROVE FALSE
  OBVIOUS
<1>5. stage1 \in from => stage1 \in done /\ stage1 \notin to
  BY <1>3, <1>4 DEF Changes
<1>6. stage1 \notin from => stage1 \notin done
  BY <1>3, <1>4
<1>7. CASE stage2 \in from
  <2>1. stage2 \notin done /\ stage1 \in done /\ stage1 \notin to /\ stage2 \notin to
    BY <1>3, <1>4, <1>5, <1>7
  <2>2. Factor(to, stage1) <= Factor(to, stage2)
    BY <1>3, <1>7, <2>1 DEF Changes
  <2> QED BY <1>2, <2>1, <2>2 DEF Factor
<1>8. CASE stage2 \notin from
  <2>1. stage2 \in done /\ stage2 \in to /\ stage1 \in to
    BY <1>3, <1>4, <1>8 DEF Changes
  <2>2. stage1 \notin from /\ stage1 \notin done
    BY <1>5, <1>6, <2>1
  <2>3. Factor(to, stage2) <= Factor(to, stage1)
    BY <1>3, <2>1, <2>2 DEF Changes
  <2> QED BY <1>2, <2>1, <2>3 DEF Factor
<1> QED BY <1>7, <1>8

-----------------------------------------------------------------------------
(***************************************************************************)
(* Types.                                                                  *)
(***************************************************************************)

\* Some of the steps from one configuration to another make a set of wires of it.
LEMMA PartwayOfWires ==
  ASSUME NEW from \in SUBSET Wires, NEW to \in SUBSET Wires
  PROVE  Partway(from, to) \subseteq SUBSET Wires
  BY DEF Partway, Changes

\* What a send changes.
RelayTypes ==
  /\ mRelay \in SUBSET Wires /\ mRelayLast \in SUBSET Wires /\ sent \in SUBSET Wires
  /\ rested \in BOOLEAN

\* A send keeps their types ...
LEMMA SendTypes ==
  ASSUME TypeOK, NEW config \in SUBSET Wires, Send(config)
  PROVE  RelayTypes' /\ owed' \in {"none", "due", "cut"}
<1>1. Wanted(config) \in SUBSET Wires
  BY ConfigurationsOfWires DEF Wanted
<1>2. mRelay' = Wanted(config) /\ mRelayLast' = Wanted(config)
  BY DEF Send
<1>3. sent' \in {sent, Wanted(config)} /\ rested' \in BOOLEAN
  BY DEF Send, OnBoard
<1>4. owed' \in {"due", owed}
  BY DEF Send
<1> QED BY <1>1, <1>2, <1>3, <1>4, Zenon DEF RelayTypes, TypeOK

\* ... and so does one that is cut.
LEMMA CutTypes ==
  ASSUME TypeOK, NEW config \in SUBSET Wires, CutSend(config)
  PROVE  RelayTypes'
<1>1. Wanted(config) \in SUBSET Wires
  BY ConfigurationsOfWires DEF Wanted
<1>2. mRelay' = Wanted(config)
  BY DEF CutSend
<1>3. CASE UNCHANGED <<mRelayLast, sent, rested>>
  BY <1>1, <1>2, <1>3, Zenon DEF RelayTypes, TypeOK
<1>4. CASE ~UNCHANGED <<mRelayLast, sent, rested>>
  <2>1. mRelayLast' = Wanted(config)
    BY <1>4 DEF CutSend
  <2>2. PICK board \in {sent} \cup Partway(mRelayLast, Wanted(config)) : OnBoard(board)
    BY <1>4 DEF CutSend
  <2>3. board \in SUBSET Wires
    BY <1>1, <2>2, PartwayOfWires DEF TypeOK
  <2>4. sent' = board /\ rested' \in BOOLEAN
    BY <2>2 DEF OnBoard
  <2> QED BY <1>1, <1>2, <2>1, <2>3, <2>4, Zenon DEF RelayTypes
<1> QED BY <1>3, <1>4

\* So does what a loop does with its timers ...
LEMMA RestartTypes ==
  ASSUME TypeOK
  PROVE  /\ \A names : Restart(names) => timer' \in [Timers -> {"invalid", "short", "long"}]
         /\ RestartStage1 => timer' \in [Timers -> {"invalid", "short", "long"}]
  BY DEF TypeOK, Restart, RestartStage1, Timers

\* ... and an operation on the relays, or a step to another location.
LEMMA LoopTypes ==
  ASSUME TypeOK, UNCHANGED outside, timer' \in [Timers -> {"invalid", "short", "long"}],
         s2hold' \in BOOLEAN, s3hold' \in BOOLEAN
  PROVE  /\ \A config \in SUBSET Wires, loc \in Locations : Switch(config, loc) => TypeOK'
         /\ \A loc \in Locations : Go(loc) => TypeOK'
<1>1. \A config \in SUBSET Wires, loc \in Locations : Switch(config, loc) => TypeOK'
  BY DEF TypeOK, Switch, outside, Locations, boardVars
<1>2. \A loc \in Locations : Go(loc) => TypeOK'
  BY DEF TypeOK, Go, outside, relayVars, boardVars
<1> QED BY <1>1, <1>2

\* The types hold at the start.
LEMMA InitTypes == Init => TypeOK
  BY DEF Init, TypeOK, Locations, Timers, Wires

\* Whatever happens outside the worker.
LEMMA OutsideTypes ==
  ASSUME TypeOK, Outside
  PROVE  TypeOK'
<1> USE DEF relayVars, boardVars, holdVars
<1>1. CASE TemperatureChanges
  BY <1>1 DEF TypeOK, TemperatureChanges
<1>2. CASE RestartWork
  BY <1>2 DEF TypeOK, RestartWork
<1>3. CASE Restarted \/ SensorRecovers
  <2>1. /\ stopWork' = FALSE /\ pc' = "top"
        /\ UNCHANGED <<setup, mode, excess, updating, next, timer, s2hold, s3hold, mRelay,
                       ob_state, mRelayLast, sent, rested, owed, leftOn>>
    BY <1>3 DEF Restarted, SensorRecovers, StartAgain
  <2>2. stopWork' \in BOOLEAN /\ pc' \in Locations
    BY <2>1 DEF Locations
  <2> QED BY <2>1, <2>2 DEF TypeOK
<1>4. CASE Stop
  <2>1. RelayTypes'
    <3>1. setAllOff(mRelay) \in SUBSET Wires
      BY ConfigurationsOfWires DEF TypeOK
    <3>2. CASE UNCHANGED <<mRelay, mRelayLast, sent, rested>>
      BY <3>2 DEF TypeOK, RelayTypes
    <3> QED BY <1>4, <3>1, <3>2, CutTypes DEF Stop, TypeOK
  <2>2. /\ pc' = "dead" /\ next' = "top" /\ stopWork' = TRUE /\ owed' \in {"none", "cut"}
        /\ UNCHANGED <<setup, mode, excess, updating, timer, s2hold, s3hold, ob_state>>
    BY <1>4 DEF Stop
  <2>3. leftOn' \in BOOLEAN
    BY <1>4 DEF Stop
  <2> QED BY <2>1, <2>2, <2>3 DEF TypeOK, RelayTypes, Locations
<1>5. CASE UpdateStarts
  <2>1. updating' \in BOOLEAN
    BY <1>5, Zenon DEF UpdateStarts
  <2> QED BY <1>5, <2>1 DEF TypeOK, UpdateStarts
<1>6. ASSUME NEW t \in Timers, Elapse(t)
      PROVE  TypeOK'
  BY <1>6 DEF TypeOK, Elapse, outside
<1> QED BY <1>1, <1>2, <1>3, <1>4, <1>5, <1>6 DEF Outside

\* run() and sendRelays().
LEMMA RunTypes ==
  ASSUME TypeOK, RunLoop \/ OffLoop \/ ClearRelays \/ LeaveRun \/ SendRelays
  PROVE  TypeOK'
<1>1. CASE RunLoop
  <2> DEFINE config == emergencyAuxiliaryHeating(setAllOff(mRelay),
                         setup.heatStage = 1 \/ ~setup.driveAux, setup.auxAndE)
  <2>1. config \in SUBSET Wires
    <3>1. setAllOff(mRelay) \in SUBSET Wires
      BY ConfigurationsOfWires DEF TypeOK
    <3> QED BY <3>1, ConfigurationsOfWires
  <2>2. timer' \in [Timers -> {"invalid", "short", "long"}]
    BY <1>1, RestartTypes DEF RunLoop, TypeOK
  <2>3. \A active : HeatingStart(active) \in Locations
    BY DEF HeatingStart, Locations
  <2>4. Switch(config, "emergency") \/ \E loc \in Locations : Go(loc)
    BY <1>1, <2>3 DEF RunLoop, Locations
  <2>5. UNCHANGED outside /\ s2hold' \in BOOLEAN /\ s3hold' \in BOOLEAN /\ "emergency" \in Locations
    BY <1>1 DEF RunLoop, holdVars, TypeOK, Locations
  <2> HIDE DEF config
  <2> QED BY <2>1, <2>2, <2>4, <2>5, LoopTypes
<1>2. CASE OffLoop
  BY <1>2 DEF TypeOK, OffLoop, GiveUp, Go, outside, relayVars, boardVars, holdVars, Locations
<1>3. CASE LeaveRun
  BY <1>3 DEF TypeOK, LeaveRun, outside, holdVars, Locations
<1>4. CASE ClearRelays
  <2>1. setAllOff(mRelay) \in SUBSET Wires
    BY ConfigurationsOfWires DEF TypeOK
  <2>2. RelayTypes' /\ owed' \in {"none", "due", "cut"}
    <3>1. CASE updating
      BY <1>4, <3>1 DEF ClearRelays, boardVars, TypeOK, RelayTypes
    <3> QED BY <1>4, <2>1, <3>1, SendTypes DEF ClearRelays
  <2>3. leftOn' \in BOOLEAN
    BY <1>4 DEF ClearRelays
  <2> QED BY <1>4, <2>2, <2>3 DEF TypeOK, RelayTypes, ClearRelays, outside, holdVars, Locations
<1>5. CASE SendRelays
  <2>1. RelayTypes' /\ owed' \in {"none", "due", "cut"}
    <3>1. CASE stopWork
      BY <1>5, <3>1 DEF SendRelays, boardVars, TypeOK, RelayTypes
    <3> QED BY <1>5, <3>1, SendTypes DEF SendRelays, TypeOK
  <2> QED BY <1>5, <2>1 DEF TypeOK, RelayTypes, SendRelays, outside, holdVars, Locations
<1> QED BY <1>1, <1>2, <1>3, <1>4, <1>5

\* The loops that start the compressor, whichever of the two.
LEMMA CompressorTypes ==
  ASSUME TypeOK, UNCHANGED outside,
         NEW loop, NEW state \in {"Cooling", "Heating"}, NEW demand,
         NEW delay \in Locations, NEW start \in Locations,
         NEW stage1 \in Locations, NEW stage2 \in Locations,
         NEW config1 \in SUBSET Wires, NEW config2 \in SUBSET Wires
  PROVE  /\ CompressorLoop(loop, state, demand, delay, start) => TypeOK'
         /\ SystemDelay(delay, start) => TypeOK'
         /\ CompressorStart(start, config1, stage1) => TypeOK'
         /\ CompressorStage1(stage1, demand, config2, stage2) => TypeOK'
         /\ CompressorStage2(stage2, demand, config1, stage1) => TypeOK'
<1>0. "clear" \in Locations /\ "send" \in Locations
  BY DEF Locations
<1> USE <1>0 DEF GiveUp, Finish, holdVars
<1>1. ASSUME CompressorLoop(loop, state, demand, delay, start)
      PROVE  TypeOK'
  BY <1>1 DEF CompressorLoop, Go, relayVars, boardVars, TypeOK, outside
<1>2. ASSUME SystemDelay(delay, start)
      PROVE  TypeOK'
  BY <1>2 DEF SystemDelay, Go, relayVars, boardVars, TypeOK, outside
<1>3. ASSUME CompressorStart(start, config1, stage1)
      PROVE  TypeOK'
  BY <1>3, RestartTypes, LoopTypes DEF CompressorStart, TypeOK
<1>4. ASSUME CompressorStage1(stage1, demand, config2, stage2)
      PROVE  TypeOK'
  BY <1>4, RestartTypes, LoopTypes DEF CompressorStage1, TypeOK
<1>5. ASSUME CompressorStage2(stage2, demand, config1, stage1)
      PROVE  TypeOK'
  BY <1>5, RestartTypes, LoopTypes DEF CompressorStage2, StepDown, TypeOK
<1> QED BY <1>1, <1>2, <1>3, <1>4, <1>5

\* Cooling.
LEMMA CoolingTypes ==
  ASSUME TypeOK, UNCHANGED outside, CoolingLoop
  PROVE  TypeOK'
<1>1. {"coolDelay", "coolStart", "cool1", "cool2"} \subseteq Locations
  BY DEF Locations
<1>2. /\ setAllOff(mRelay) \in SUBSET Wires
      /\ coolingStage1(mRelay) \in SUBSET Wires /\ coolingStage2(mRelay) \in SUBSET Wires
  BY ConfigurationsOfWires DEF TypeOK
<1>3. coolingStage1(setAllOff(mRelay)) \in SUBSET Wires
  BY <1>2, ConfigurationsOfWires
<1> QED BY <1>1, <1>2, <1>3, CompressorTypes DEF CoolingLoop

\* The heat pump.
LEMMA PumpTypes ==
  ASSUME TypeOK, UNCHANGED outside, PumpStarts \/ PumpHeatingLoop
  PROVE  TypeOK'
<1>1. {"pumpDelay", "pumpStart", "pump1", "pump2"} \subseteq Locations
  BY DEF Locations
<1>2. /\ setAllOff(mRelay) \in SUBSET Wires
      /\ heatingStage1(mRelay, TRUE) \in SUBSET Wires
      /\ heatingStage2(mRelay, TRUE) \in SUBSET Wires
  BY ConfigurationsOfWires DEF TypeOK
<1>3. heatingStage1(setAllOff(mRelay), TRUE) \in SUBSET Wires
  BY <1>2, ConfigurationsOfWires
<1>4. CASE StoppedAtValve
  BY <1>4 DEF TypeOK, StoppedAtValve, outside, boardVars, holdVars, Locations
<1> QED BY <1>1, <1>2, <1>3, <1>4, CompressorTypes DEF PumpStarts, PumpHeatingLoop

\* The heat pump with auxiliary heating, and emergency heating.
LEMMA AuxiliaryTypes ==
  ASSUME TypeOK, UNCHANGED outside, AuxHeatingLoop \/ EmergencyLoop
  PROVE  TypeOK'
<1> DEFINE kept == IF setup.parallel THEN mRelay ELSE turnOffHeatPump(mRelay)
           timersOK == timer' \in [Timers -> {"invalid", "short", "long"}]
<1>0. {"clear", "pump1", "pump2", "aux1", "aux2"} \subseteq Locations
  BY DEF Locations
<1>1. /\ setAllOff(mRelay) \in SUBSET Wires
      /\ kept \in SUBSET Wires
      /\ heatingStage2(mRelay, TRUE) \in SUBSET Wires
      /\ auxiliaryHeatingStage2(mRelay, TRUE) \in SUBSET Wires
      /\ auxiliaryHeatingStage2(mRelay, FALSE) \in SUBSET Wires
      /\ turnOffEmergencyHeating(mRelay) \in SUBSET Wires
  BY ConfigurationsOfWires DEF TypeOK
<1>2. /\ heatingStage1(setAllOff(mRelay), TRUE) \in SUBSET Wires
      /\ auxiliaryHeatingStage1(kept, setup.auxAndE) \in SUBSET Wires
      /\ auxiliaryHeatingStage1(auxiliaryHeatingStage2(mRelay, FALSE), setup.auxAndE)
           \in SUBSET Wires
  BY <1>1, ConfigurationsOfWires
<1>3. s2hold \in BOOLEAN /\ s3hold \in BOOLEAN /\ (timer' = timer => timersOK)
  BY DEF TypeOK
<1> HIDE DEF kept, timersOK
<1> USE <1>0, <1>1, <1>2, <1>3, RestartTypes, LoopTypes DEF Finish, holdVars
<1>4. AuxiliaryStart /\ UNCHANGED s3hold => TypeOK'
  BY DEF AuxiliaryStart, kept, timersOK
<1>5. CASE AuxPumpStage1
  BY <1>4, <1>5 DEF AuxPumpStage1, timersOK
<1>6. CASE AuxPumpStage2
  BY <1>4, <1>6 DEF AuxPumpStage2, StepDown, timersOK
<1>7. CASE AuxiliaryStage1
  BY <1>7 DEF AuxiliaryStage1, timersOK
<1>8. CASE AuxiliaryStage2
  BY <1>8 DEF AuxiliaryStage2, StepDown, timersOK
<1>9. CASE EmergencyLoop
  <2>1. timersOK
    BY <1>9 DEF EmergencyLoop, timersOK, TypeOK
  <2> QED BY <1>9, <2>1 DEF EmergencyLoop, timersOK
<1> QED BY <1>5, <1>6, <1>7, <1>8, <1>9 DEF AuxHeatingLoop

\* Conventional heating.
LEMMA HeatingTypes ==
  ASSUME TypeOK, UNCHANGED outside, HeatingLoop
  PROVE  TypeOK'
<1> DEFINE timersOK == timer' \in [Timers -> {"invalid", "short", "long"}]
<1>0. {"clear", "heatDelay", "heatStart", "heat1", "heat2", "heat3"} \subseteq Locations
  BY DEF Locations
<1>1. /\ setAllOff(mRelay) \in SUBSET Wires
      /\ heatingStage1(mRelay, FALSE) \in SUBSET Wires
      /\ heatingStage2(mRelay, FALSE) \in SUBSET Wires
      /\ heatingStage3(mRelay) \in SUBSET Wires
  BY ConfigurationsOfWires DEF TypeOK
<1>2. /\ heatingStage1(setAllOff(mRelay), FALSE) \in SUBSET Wires
      /\ heatingStage2(setAllOff(mRelay), FALSE) \in SUBSET Wires
  BY <1>1, ConfigurationsOfWires
<1>3. s2hold \in BOOLEAN /\ s3hold \in BOOLEAN /\ (timer' = timer => timersOK)
  BY DEF TypeOK
<1> HIDE DEF timersOK
<1>4. CASE SystemDelay("heatDelay", "heatStart")
  BY <1>0, <1>1, <1>4, CompressorTypes
<1> USE <1>0, <1>1, <1>2, <1>3, RestartTypes, LoopTypes DEF Finish, GiveUp, holdVars
<1>5. CASE HeatingStarts
  BY <1>5 DEF HeatingStarts, timersOK
<1>6. CASE HeatingStage1
  BY <1>6 DEF HeatingStage1, timersOK
<1>7. CASE HeatingStage2
  BY <1>7 DEF HeatingStage2, StepDown, timersOK
<1>8. CASE HeatingStage3
  BY <1>8 DEF HeatingStage3, timersOK
<1> QED BY <1>4, <1>5, <1>6, <1>7, <1>8 DEF HeatingLoop

\* Every step keeps the types.
LEMMA NextTypes ==
  ASSUME TypeOK, [Next]_vars
  PROVE  TypeOK'
<1>1. CASE Loops /\ UNCHANGED outside
  BY <1>1, CoolingTypes, PumpTypes, AuxiliaryTypes, HeatingTypes DEF Loops
<1>2. CASE UNCHANGED vars
  BY <1>2 DEF vars, TypeOK
<1> QED BY <1>1, <1>2, RunTypes, OutsideTypes DEF Next, Worker

\* Every variable keeps its type, whatever the setups, the modes and the temperatures.
THEOREM TypeCorrect == Spec => []TypeOK
  BY InitTypes, NextTypes, PTL DEF Spec

-----------------------------------------------------------------------------
(***************************************************************************)
(* The invariant.                                                          *)
(***************************************************************************)

\* The loop that the worker is in, or that it goes on to after a send.
Loc == IF pc = "send" THEN next ELSE pc

\* Where nothing is on; where a loop of the compressor, the furnace or both is in a stage.
Idle == {"stopped", "dead", "top", "off", "cool", "coolDelay", "coolStart", "heatDelay", "heatStart",
         "pump", "pumpDelay", "pumpStart"}
CompressorStages == {"cool1", "cool2", "pump1", "pump2"}
FurnaceStages == {"heat1", "heat2", "heat3"}
AuxiliaryStages == {"aux1", "aux2"}

\* The stages are in order in the configuration wanted as well.
Ordered(on) == ("y2" \in on => "y1" \in on) /\ ("w2" \in on => "w1" \in on)
OrderInv == Ordered(mRelay) /\ Ordered(mRelayLast) /\ Ordered(sent)

\* sendRelays() does not return to itself; a loop has told the valve what it wants.
DirectionInv ==
  /\ next \notin {"send", "stopped", "dead"} /\ (pc = "dead" => stopWork)
  /\ Loc \in {"coolDelay", "coolStart", "cool1", "cool2"} => ob_state = "Cooling"
  /\ Loc \in {"pumpDelay", "pumpStart", "pump1", "pump2", "aux1", "aux2"} => ob_state = "Heating"

\* Where a loop begins nothing is on, neither on the board nor in what is wanted.
IdleInv == Loc \in Idle => mRelay \cap TempWires = {} /\ sent \cap TempWires = {}

\* Compressor and furnace: together only where the auxiliary loops put them so.
Mixed(on) == "y1" \in on /\ on \cap Furnace # {}
Parallel == HeatPumpWithAux /\ setup.parallel /\ ob_state = "Heating"
MixInv ==
  /\ Mixed(mRelay) => Parallel
  /\ Mixed(sent) => Parallel /\ ValveHeats
  /\ Loc \in CompressorStages => mRelay \cap Furnace = {}
  /\ Loc \in FurnaceStages => "y1" \notin mRelay \cup sent
  /\ Loc \in AuxiliaryStages =>
       HeatPumpWithAux /\ "w1" \in mRelay /\ ("y1" \in mRelay => setup.parallel)

\* The compressor is wanted on only if it is on or has rested; until it has, s1Offtime runs,
\* or the auxiliary loops, which restart it when they end.
RestInv ==
  /\ "y1" \in mRelay => "y1" \in sent \/ rested
  /\ ~rested => "y1" \in sent \/ timer["s1off"] = "short" \/ Loc \in AuxiliaryStages
  /\ pc = "clear" /\ "y1" \in sent => timer["s1off"] = "short"
  /\ Loc \in {"coolStart", "pumpStart"} => rested
  /\ Loc \in CompressorStages => "y1" \in mRelay
  /\ Loc = "emergency" \/ (pc = "send" /\ next = "clear") => "y1" \notin mRelay \cup sent

\* The valve is where ob_state wants it, but for a switch that has not been sent, or that a
\* request to stop has kept from being sent.
Synced == "o_b" \in sent <=> ob_state = ob_on_state
SyncInv == HasValve =>
  /\ "y1" \in sent => Synced
  /\ ~Synced => \/ Loc \in {"coolDelay", "pumpDelay"} /\ (pc = "send" \/ stopWork)
                \/ pc = "clear" /\ stopWork

\* A system delay that is owed is about to run, or a request to stop has cut it short.
DelayInv == HasValve =>
  /\ owed = "due" =>
       \/ Loc \in {"coolDelay", "pumpDelay"}
       \/ stopWork /\ pc \notin {"stopped", "dead"}
  /\ "y1" \in sent => owed # "due"

\* Only the order of the stages and the direction survive what an update or terminate()
\* leaves on; without that, what is taken for sent is on the board.
Safe == mRelayLast = sent /\ IdleInv /\ MixInv /\ RestInv /\ SyncInv /\ DelayInv
Inv == OrderInv /\ DirectionInv /\ (leftOn \/ Safe)

\* The lemmas on single steps all need these definitions.
USE DEF Inv, OrderInv, Ordered, DirectionInv, Safe, IdleInv, MixInv, Mixed, Parallel, RestInv,
         SyncInv, Synced, DelayInv, Loc, Idle, CompressorStages, FurnaceStages,
         AuxiliaryStages, HasValve, ValveHeats, HeatPumpWithAux, Furnace, TempWires, outside,
         relayVars, boardVars, TypeOK, Timers, ob_on_state

\* At the start nothing is on.
LEMMA InitInv == Init => Inv
  BY DEF Init

\* Cooling tells the valve its direction before the compressor starts.
LEMMA CoolingInv ==
  ASSUME TypeOK, Inv, UNCHANGED outside, CoolingLoop
  PROVE  Inv'
<1> USE DEF Go, GiveUp, Finish, Switch, Restart, WithTempWires
<1>1. CASE CompressorLoop("cool", "Cooling", cooling, "coolDelay", "coolStart")
  BY <1>1 DEF CompressorLoop
<1>2. CASE SystemDelay("coolDelay", "coolStart")
  BY <1>2 DEF SystemDelay
<1>3. CASE CompressorStart("coolStart", coolingStage1(mRelay), "cool1")
  BY <1>3 DEF CompressorStart, coolingStage1, RestartStage1
<1>4. CASE CompressorStage1("cool1", cooling, coolingStage2(mRelay), "cool2")
  BY <1>4 DEF CompressorStage1, coolingStage2
<1>5. CASE CompressorStage2("cool2", cooling, coolingStage1(setAllOff(mRelay)), "cool1")
  BY <1>5 DEF CompressorStage2, StepDown, setAllOff, coolingStage1
<1> QED BY <1>1, <1>2, <1>3, <1>4, <1>5 DEF CoolingLoop

\* The heat pump, likewise; its loop may set the valve's state and stop.
LEMMA PumpInv ==
  ASSUME TypeOK, Inv, UNCHANGED outside, PumpStarts \/ PumpHeatingLoop
  PROVE  Inv'
<1> USE DEF Go, GiveUp, Finish, Switch, Restart, WithTempWires
<1>1. CASE CompressorLoop("pump", "Heating", heating, "pumpDelay", "pumpStart")
  BY <1>1 DEF CompressorLoop
<1>2. CASE StoppedAtValve
  BY <1>2 DEF StoppedAtValve
<1>3. CASE SystemDelay("pumpDelay", "pumpStart")
  BY <1>3 DEF SystemDelay
<1>4. CASE CompressorStart("pumpStart", heatingStage1(mRelay, TRUE), "pump1")
  BY <1>4 DEF CompressorStart, heatingStage1, RestartStage1
<1>5. CASE CompressorStage1("pump1", heating, heatingStage2(mRelay, TRUE), "pump2")
  BY <1>5 DEF CompressorStage1, heatingStage2
<1>6. CASE CompressorStage2("pump2", heating, heatingStage1(setAllOff(mRelay), TRUE), "pump1")
  BY <1>6 DEF CompressorStage2, StepDown, setAllOff, heatingStage1
<1> QED BY <1>1, <1>2, <1>3, <1>4, <1>5, <1>6 DEF PumpStarts, PumpHeatingLoop

\* The furnace joins the compressor only in parallel, or takes its place.
LEMMA AuxiliaryInv ==
  ASSUME TypeOK, Inv, UNCHANGED outside, AuxHeatingLoop \/ EmergencyLoop
  PROVE  Inv'
<1> USE DEF Go, GiveUp, Finish, Switch, Restart, WithTempWires, auxiliaryHeatingStage1,
            auxiliaryHeatingStage2, WhenE
<1>1. ASSUME HeatPumpWithAux, pc \in {"pump1", "pump2"}, AuxiliaryStart
      PROVE  Inv'
  BY <1>1 DEF AuxiliaryStart, turnOffHeatPump, RestartStage1
<1>2. CASE HeatPumpWithAux /\ AuxPumpStage1
  BY <1>1, <1>2 DEF AuxPumpStage1, heatingStage2
<1>3. CASE HeatPumpWithAux /\ AuxPumpStage2
  BY <1>1, <1>3 DEF AuxPumpStage2, StepDown, setAllOff, heatingStage1
<1>4. CASE HeatPumpWithAux /\ AuxiliaryStage1
  BY <1>4 DEF AuxiliaryStage1
<1>5. CASE HeatPumpWithAux /\ AuxiliaryStage2
  BY <1>5 DEF AuxiliaryStage2, StepDown
<1>6. CASE EmergencyLoop
  BY <1>6 DEF EmergencyLoop, turnOffEmergencyHeating
<1> QED BY <1>2, <1>3, <1>4, <1>5, <1>6 DEF AuxHeatingLoop

\* Conventional heating starts where the compressor is off.
LEMMA HeatingInv ==
  ASSUME TypeOK, Inv, UNCHANGED outside, HeatingLoop
  PROVE  Inv'
<1> USE DEF Go, GiveUp, Finish, Switch, Restart, StepDown, WithTempWires, setAllOff,
            heatingStage1, heatingStage2, heatingStage3
<1>1. CASE SystemDelay("heatDelay", "heatStart")
  BY <1>1 DEF SystemDelay
<1>2. CASE HeatingStarts
  BY <1>2 DEF HeatingStarts
<1>3. CASE HeatingStage1
  BY <1>3 DEF HeatingStage1
<1>4. CASE HeatingStage2
  BY <1>4 DEF HeatingStage2
<1>5. CASE HeatingStage3
  BY <1>5 DEF HeatingStage3
<1> QED BY <1>1, <1>2, <1>3, <1>4, <1>5 DEF HeatingLoop

\* A send is the configuration on the board, with the valve where ob_state wants it, when
\* what is taken for sent is there.
LEMMA SendEffect ==
  ASSUME NEW config, Send(config), mRelayLast = sent
  PROVE  /\ mRelay' = sent' /\ mRelayLast' = sent'
         /\ \A wire \in TempWires : wire \in sent' <=> wire \in config
         /\ "o_b" \in sent' <=> HasValve /\ ob_state = ob_on_state
         /\ rested' <=> (rested /\ ~("y1" \in sent /\ "y1" \notin sent'))
         /\ owed' = IF HasValve /\ ~("o_b" \in sent <=> "o_b" \in sent') THEN "due" ELSE owed
<1>1. sent' = Wanted(config) /\ mRelay' = sent' /\ mRelayLast' = sent'
  BY Zenon DEF Send, OnBoard
<1>2. rested' <=> (rested /\ ~("y1" \in sent /\ "y1" \notin sent'))
  BY DEF Send, OnBoard
<1>3. owed' = IF HasValve /\ ~("o_b" \in sent <=> "o_b" \in sent') THEN "due" ELSE owed
  <2>1. ValveSwitches <=> HasValve /\ ~("o_b" \in sent <=> "o_b" \in sent')
    BY DEF ValveSwitches, Changes
  <2>2. owed' = IF ValveSwitches THEN "due" ELSE owed
    BY DEF Send
  <2> QED BY <2>1, <2>2
<1> QED BY <1>1, <1>2, <1>3, RelaysSent

\* Whatever was taken for sent, the stages stay in order.
LEMMA SendOrdered ==
  ASSUME OrderInv, NEW config, Ordered(config), Send(config)
  PROVE  OrderInv'
<1>1. Ordered(Wanted(config))
  BY RelaysSent
<1>2. mRelay' = Wanted(config) /\ mRelayLast' = Wanted(config)
      /\ sent' \in {sent, Wanted(config)}
  BY DEF Send, OnBoard
<1> QED BY <1>1, <1>2

\* sendRelays(): the configuration wanted comes to the board, or the flag is up.
LEMMA SendInv ==
  ASSUME TypeOK, Inv, SendRelays
  PROVE  Inv'
<1>1. CASE stopWork
  <2>1. /\ pc = "send" /\ pc' = next /\ next' = "top"
        /\ UNCHANGED <<setup, stopWork, timer, ob_state, leftOn, mRelay, boardVars>>
        /\ TypeOK'
    BY <1>1, RunTypes DEF SendRelays, holdVars
  <2>2. Loc' = Loc /\ OrderInv' /\ DirectionInv'
    BY <1>1, <2>1
  <2>3. ASSUME Safe
        PROVE  IdleInv' /\ (mRelayLast = sent)' /\ MixInv'
    BY <2>1, <2>2, <2>3
  <2>4. ASSUME Safe
        PROVE  RestInv' /\ SyncInv' /\ DelayInv'
    BY <1>1, <2>1, <2>2, <2>4
  <2> QED BY <2>1, <2>2, <2>3, <2>4
<1>2. CASE ~stopWork
  <2>1. /\ pc = "send" /\ pc' = next /\ next' = "top"
        /\ UNCHANGED <<setup, stopWork, timer, ob_state, leftOn>>
        /\ TypeOK'
    BY <1>2, RunTypes DEF SendRelays, holdVars
  <2>2. Send(mRelay)
    BY <1>2 DEF SendRelays
  <2>3. OrderInv'
    BY <2>2, SendOrdered
  <2>4. DirectionInv'
    BY <1>2, <2>1
  <2>5. ASSUME Safe
        PROVE  IdleInv' /\ (mRelayLast = sent)'
    BY <2>1, <2>2, <2>5, SendEffect
  <2>6. ASSUME Safe
        PROVE  MixInv'
    BY <2>1, <2>2, <2>6, SendEffect
  <2>7. ASSUME Safe
        PROVE  RestInv'
    BY <2>1, <2>2, <2>7, SendEffect DEF Locations
  <2>8. ASSUME Safe
        PROVE  SyncInv' /\ DelayInv'
    BY <1>2, <2>1, <2>2, <2>8, SendEffect
  <2> QED BY <2>1, <2>3, <2>4, <2>5, <2>6, <2>7, <2>8
<1> QED BY <1>1, <1>2

\* What everything turned off is.
LEMMA OffImage ==
  ASSUME NEW on
  PROVE  /\ Wanted(setAllOff(on)) \cap TempWires = {}
         /\ "o_b" \in Wanted(setAllOff(on)) <=> HasValve /\ ob_state = ob_on_state
<1>1. setAllOff(on) \cap TempWires = {}
  BY DEF setAllOff, WithTempWires
<1>2. \A wire \in TempWires : wire \in Wanted(setAllOff(on)) <=> wire \in setAllOff(on)
  BY RelaysSent, Zenon
<1>3. "o_b" \in Wanted(setAllOff(on)) <=> HasValve /\ ob_state = ob_on_state
  BY RelaysSent, Zenon
<1> QED BY <1>1, <1>2, <1>3

\* Turning everything off: by an update left on, already off, or sent.
LEMMA ClearInv ==
  ASSUME TypeOK, Inv, ClearRelays
  PROVE  Inv'
<1>0. /\ pc = "clear" /\ pc' = "top" /\ next' = next
      /\ UNCHANGED <<setup, stopWork, updating, timer, ob_state>>
      /\ TypeOK'
  BY RunTypes DEF ClearRelays, holdVars
<1>1. ~("y1" \in setAllOff(mRelay)) /\ setAllOff(mRelay) \cap TempWires = {}
  BY DEF setAllOff, WithTempWires
<1>2. CASE updating /\ SomethingOn
  BY <1>0, <1>2 DEF ClearRelays
<1>3. CASE updating /\ ~SomethingOn
  <2> DEFINE off == Wanted(setAllOff(mRelay))
  <2>1. off \cap TempWires = {} /\ ("o_b" \in off <=> HasValve /\ ob_state = ob_on_state)
    BY OffImage
  <2> HIDE DEF off
  <2>2. mRelay = off /\ mRelayLast = off /\ sent = off
    BY <1>3 DEF SomethingOn, off
  <2>3. UNCHANGED <<mRelay, boardVars>> /\ (leftOn => leftOn')
    BY <1>3 DEF ClearRelays
  <2> QED BY <1>0, <2>1, <2>2, <2>3
<1>4. CASE ~updating
  <2>1. Send(setAllOff(mRelay))
    BY <1>4 DEF ClearRelays
  <2>2. mRelay' = Wanted(setAllOff(mRelay)) /\ mRelayLast' = mRelay'
    BY <2>1, Zenon DEF Send
  <2>3. mRelay' \cap TempWires = {} /\ ("o_b" \in mRelay' <=> HasValve /\ ob_state = ob_on_state)
    BY <2>2, OffImage
  <2>4. OrderInv' /\ DirectionInv'
    <3>1. Ordered(setAllOff(mRelay))
      BY <1>1
    <3> QED BY <1>0, <2>1, <3>1, SendOrdered
  <2>5. CASE leftOn
    <3>1. leftOn' \/ (sent' = mRelay' /\ rested' /\ owed' # "due")
      BY <1>4, <2>5 DEF ClearRelays, CleanSlate
    <3> QED BY <1>0, <2>2, <2>3, <2>4, <3>1
  <2>6. CASE ~leftOn
    <3>1. sent' = mRelay'
      BY <2>1, <2>6, SendEffect
    <3> QED BY <1>0, <2>1, <2>2, <2>3, <2>4, <2>6, <3>1, SendEffect
  <2> QED BY <2>5, <2>6
<1> QED BY <1>2, <1>3, <1>4

\* A call that is cut puts no wire on the board that is neither there nor wanted.
LEMMA CutEffect ==
  ASSUME mRelayLast = sent, NEW config, CutSend(config)
  PROVE  \A wire : \/ wire \in sent' <=> wire \in sent
                   \/ wire \in sent' <=> wire \in Wanted(config)
<1>1. CASE sent' = sent
  BY <1>1, Zenon
<1>2. CASE sent' # sent
  <2>1. PICK board \in {sent} \cup Partway(mRelayLast, Wanted(config)) : OnBoard(board)
    BY <1>2, Zenon DEF CutSend
  <2>2. sent' = board
    BY <2>1, Zenon DEF OnBoard
  <2>3. sent' \in Partway(sent, Wanted(config))
    BY <1>2, <2>1, <2>2
  <2> QED BY <2>3, PartwayBetween, Zenon
<1> QED BY <1>1, <1>2

\* Nor does it disturb the order of the stages, whatever was taken for sent.
LEMMA CutOrdered ==
  ASSUME TypeOK, OrderInv, NEW config \in SUBSET Wires, Ordered(config), CutSend(config)
  PROVE  OrderInv'
<1>1. Wanted(config) \in SUBSET Wires
  BY ConfigurationsOfWires DEF Wanted
<1>2. Ordered(Wanted(config))
  BY RelaysSent
<1>3. mRelay' = Wanted(config)
  BY DEF CutSend
<1>4. CASE UNCHANGED <<mRelayLast, sent, rested>>
  BY <1>2, <1>3, <1>4
<1>5. CASE ~UNCHANGED <<mRelayLast, sent, rested>>
  <2>1. mRelayLast' = Wanted(config)
    BY <1>5 DEF CutSend
  <2>2. PICK board \in {sent} \cup Partway(mRelayLast, Wanted(config)) : OnBoard(board)
    BY <1>5 DEF CutSend
  <2>3. ASSUME board \in Partway(mRelayLast, Wanted(config))
        PROVE  Ordered(board)
    <3>1. "y2" \in board => "y1" \in board
      BY <1>1, <1>2, <2>3, PartwayOrdered
    <3>2. "w2" \in board => "w1" \in board
      BY <1>1, <1>2, <2>3, PartwayOrdered
    <3> QED BY <3>1, <3>2
  <2> QED BY <1>2, <1>3, <2>1, <2>2, <2>3 DEF OnBoard
<1> QED BY <1>4, <1>5

\* terminate(): what it leaves on is noted, or nothing is on.
LEMMA StopInv ==
  ASSUME TypeOK, Inv, Stop
  PROVE  Inv'
<1>0. /\ pc' = "dead" /\ next' = "top" /\ stopWork' /\ owed' \in {"none", "cut"}
      /\ UNCHANGED <<setup, updating, timer, ob_state>>
      /\ TypeOK'
  <2>1. TypeOK'
    BY OutsideTypes DEF Outside
  <2> QED BY <2>1 DEF Stop
<1>1. \/ UNCHANGED <<mRelay, mRelayLast, sent, rested>>
      \/ pc = "send" /\ CutSend(mRelay)
      \/ pc = "clear" /\ CutSend(setAllOff(mRelay))
  BY DEF Stop
<1>2. OrderInv'
  <2>1. CASE UNCHANGED <<mRelay, mRelayLast, sent, rested>>
    BY <2>1
  <2>2. CASE CutSend(mRelay)
    BY <2>2, CutOrdered
  <2>3. CASE CutSend(setAllOff(mRelay))
    <3>1. setAllOff(mRelay) \in SUBSET Wires /\ Ordered(setAllOff(mRelay))
      BY DEF setAllOff, WithTempWires
    <3> QED BY <2>3, <3>1, CutOrdered
  <2> QED BY <1>1, <2>1, <2>2, <2>3
<1>3. DirectionInv'
  BY <1>0
<1>4. ASSUME ~leftOn'
      PROVE  Safe'
  <2>1. ~leftOn /\ ~SomethingOn'
    BY <1>4 DEF Stop
  <2> DEFINE off == Wanted(setAllOff(mRelay'))
  <2>2. off \cap TempWires = {} /\ ("o_b" \in off <=> HasValve /\ ob_state = ob_on_state)
    BY OffImage
  <2>3. mRelay' = off /\ mRelayLast' = off /\ sent' = off
    <3>1. {mRelay', mRelayLast', sent'} = {Wanted(setAllOff(mRelay))'}
      BY <2>1 DEF SomethingOn
    <3>2. Wanted(setAllOff(mRelay))' = off
      BY <1>0 DEF Wanted, ob_on_state, HasValve
    <3> HIDE DEF off
    <3> QED BY <3>1, <3>2
  <2> HIDE DEF off
  <2>4. sent' \cap TempWires = {} /\ ("o_b" \in sent' <=> HasValve /\ ob_state = ob_on_state)
    BY <1>0, <2>2, <2>3
  <2>5. ~rested' => timer["s1off"] = "short"
    <3>1. CASE UNCHANGED <<mRelay, mRelayLast, sent, rested>>
      BY <2>1, <2>3, <2>4, <3>1
    <3>2. CASE pc = "send" /\ CutSend(mRelay)
      <4>1. mRelay \cap TempWires = {}
        BY <2>3, <2>4, <3>2, RelaysSent DEF CutSend
      <4>2. "y1" \notin sent
        BY <2>1, <3>2, <4>1 DEF Locations
      <4>3. rested' = rested
        BY <3>2, <4>2 DEF CutSend, OnBoard
      <4> QED BY <2>1, <3>2, <4>1, <4>2, <4>3
    <3>3. CASE pc = "clear" /\ CutSend(setAllOff(mRelay))
      <4>1. rested' => rested
        BY <3>3 DEF CutSend, OnBoard
      <4>2. ~rested' => ~rested \/ "y1" \in sent
        BY <3>3 DEF CutSend, OnBoard
      <4> QED BY <2>1, <3>3, <4>2
    <3> QED BY <1>1, <3>1, <3>2, <3>3
  <2> QED BY <1>0, <2>3, <2>4, <2>5
<1> QED BY <1>2, <1>3, <1>4

\* run() picks a loop, with nothing on.
LEMMA RunInv ==
  ASSUME TypeOK, Inv, RunLoop \/ OffLoop \/ LeaveRun
  PROVE  Inv'
<1> USE DEF Go, GiveUp, Switch, Restart, WithTempWires, setAllOff
<1>1. CASE RunLoop
  BY <1>1 DEF RunLoop, HeatingStart, emergencyAuxiliaryHeating, heatingStage3, WhenE
<1>2. CASE OffLoop
  BY <1>2 DEF OffLoop
<1>3. CASE LeaveRun
  BY <1>3 DEF LeaveRun
<1> QED BY <1>1, <1>2, <1>3

\* A request to stop only loosens the invariant, and the thread is started again where it
\* holds without.
LEMMA OutsideInv ==
  ASSUME TypeOK, Inv, Outside
  PROVE  Inv'
<1>1. CASE TemperatureChanges
  BY <1>1 DEF TemperatureChanges
<1>2. CASE RestartWork
  BY <1>2 DEF RestartWork
<1>3. CASE Restarted \/ SensorRecovers
  BY <1>3 DEF Restarted, SensorRecovers, StartAgain
<1>4. CASE UpdateStarts
  BY <1>4 DEF UpdateStarts
<1>5. ASSUME NEW t \in Timers, Elapse(t)
      PROVE  Inv'
  <2>1. /\ UNCHANGED <<setup, stopWork, pc, next, mRelay, ob_state, mRelayLast, sent, owed, leftOn>>
        /\ rested => rested'
        /\ pc = "clear" => UNCHANGED timer["s1off"]
        /\ ~rested' /\ "y1" \notin sent => UNCHANGED timer["s1off"]
    BY <1>5 DEF Elapse
  <2> QED BY <2>1
<1> QED BY <1>1, <1>2, <1>3, <1>4, <1>5, StopInv DEF Outside

HIDE DEF Inv, OrderInv, Ordered, DirectionInv, Safe, IdleInv, MixInv, Mixed, Parallel, RestInv,
          SyncInv, Synced, DelayInv, Loc, Idle, CompressorStages, FurnaceStages,
          AuxiliaryStages, HasValve, ValveHeats, HeatPumpWithAux, Furnace, TempWires, outside,
          relayVars, boardVars, TypeOK, Timers, ob_on_state

\* Every step keeps the invariant.
LEMMA NextInv ==
  ASSUME TypeOK, Inv, [Next]_vars
  PROVE  Inv'
<1>1. CASE Loops /\ UNCHANGED outside
  BY <1>1, CoolingInv, PumpInv, AuxiliaryInv, HeatingInv DEF Loops
<1>2. CASE UNCHANGED vars
  BY <1>2
  DEF vars, Inv, OrderInv, Ordered, DirectionInv, Safe, IdleInv, MixInv, Mixed, Parallel,
      RestInv, SyncInv, Synced, DelayInv, Loc, HasValve, ValveHeats, HeatPumpWithAux,
      ob_on_state
<1> QED BY <1>1, <1>2, RunInv, ClearInv, SendInv, OutsideInv DEF Next, Worker

\* The invariant, with the types it rests on.
THEOREM Invariant == Spec => [](TypeOK /\ Inv)
<1>1. Init => TypeOK /\ Inv
  BY InitTypes, InitInv
<1>2. TypeOK /\ Inv /\ [Next]_vars => (TypeOK /\ Inv)'
  BY NextTypes, NextInv
<1> QED BY <1>1, <1>2, PTL DEF Spec

-----------------------------------------------------------------------------
(***************************************************************************)
(* The safety properties.                                                  *)
(***************************************************************************)

\* The loops ask for configurations; they send nothing and leave nothing on.
LEMMA LoopsSendNothing ==
  ASSUME Loops
  PROVE  UNCHANGED <<sent, leftOn>>
<1> USE DEF Go, GiveUp, Finish, Switch, StepDown, relayVars, boardVars
<1>1. CASE CoolingLoop \/ PumpStarts \/ PumpHeatingLoop
  BY <1>1 DEF CoolingLoop, PumpStarts, PumpHeatingLoop, CompressorLoop, StoppedAtValve,
              SystemDelay, CompressorStart, CompressorStage1, CompressorStage2
<1>2. CASE AuxHeatingLoop \/ EmergencyLoop
  BY <1>2 DEF AuxHeatingLoop, AuxPumpStage1, AuxPumpStage2, AuxiliaryStage1, AuxiliaryStage2,
              AuxiliaryStart, EmergencyLoop
<1>3. CASE HeatingLoop
  BY <1>3 DEF HeatingLoop, SystemDelay, HeatingStarts, HeatingStage1, HeatingStage2,
              HeatingStage3
<1> QED BY <1>1, <1>2, <1>3 DEF Loops

\* The board changes only where all is turned off, and by the send after an operation.
LEMMA SentOnlyBySends ==
  ASSUME [Next]_vars
  PROVE  \/ UNCHANGED sent
         \/ \E config \in {mRelay, setAllOff(mRelay)} : Send(config) \/ CutSend(config)
<1> USE DEF relayVars, boardVars
<1>1. CASE RunLoop \/ OffLoop \/ LeaveRun \/ ClearRelays \/ SendRelays
  BY <1>1 DEF RunLoop, OffLoop, LeaveRun, ClearRelays, SendRelays, GiveUp, Go, Switch
<1>2. CASE Outside
  BY <1>2 DEF Outside, TemperatureChanges, RestartWork, Restarted, SensorRecovers, StartAgain,
              Stop, UpdateStarts, Elapse
<1>3. CASE UNCHANGED vars
  BY <1>3 DEF vars
<1> QED BY <1>1, <1>2, <1>3, LoopsSendNothing DEF Next, Worker

\* What a compressor that starts, and a valve that switches, come after.
LEMMA SendsAtRest ==
  ASSUME TypeOK, Inv, [Next]_vars
  PROVE  /\ "y1" \notin sent /\ "y1" \in sent' => rested \/ leftOn
         /\ HasValve /\ "o_b" \in Changes(sent, sent') => "y1" \notin sent \/ leftOn
<1>1. CASE UNCHANGED sent
  BY <1>1 DEF Changes
<1>2. CASE leftOn
  BY <1>2
<1>3. ASSUME NEW config \in {mRelay, setAllOff(mRelay)}, Send(config) \/ CutSend(config), Safe
      PROVE  /\ "y1" \notin sent /\ "y1" \in sent' => rested
             /\ HasValve /\ "o_b" \in Changes(sent, sent') => "y1" \notin sent
  <2>1. "y1" \in Wanted(config) => "y1" \in mRelay
    <3>1. "y1" \in config => "y1" \in mRelay
      BY <1>3 DEF setAllOff, WithTempWires, TempWires
    <3> QED BY <3>1, RelaysSent DEF TempWires
  <2>2. "o_b" \in Wanted(config) <=> HasValve /\ ob_state = ob_on_state
    BY RelaysSent
  <2>3. \A wire : \/ wire \in sent' <=> wire \in sent
                  \/ wire \in sent' <=> wire \in Wanted(config)
    <3>1. CASE CutSend(config)
      BY <1>3, <3>1, CutEffect DEF Safe
    <3>2. CASE Send(config)
      <4>1. sent' = sent \/ sent' = Wanted(config)
        BY <3>2, Zenon DEF Send, OnBoard
      <4> QED BY <4>1, Zenon
    <3> QED BY <1>3, <3>1, <3>2
  <2> QED BY <1>3, <2>1, <2>2, <2>3 DEF Safe, RestInv, SyncInv, Synced, Changes
<1> QED BY <1>1, <1>2, <1>3, SentOnlyBySends DEF Inv

\* No second stage runs without its first one, whatever an update or terminate()
\* leaves on.
THEOREM StagesInOrder == Spec => []StageOrder
<1>1. Inv => StageOrder
  BY DEF Inv, OrderInv, Ordered, StageOrder
<1> QED BY <1>1, Invariant, PTL

\* Compressor and furnace never run against each other.
THEOREM Interlocked == Spec => []Interlock
<1>1. Inv => Interlock
  BY DEF Inv, Safe, MixInv, Mixed, Parallel, Interlock
<1> QED BY <1>1, Invariant, PTL

\* The compressor does not run while a system delay is due for a switch of the valve: it has
\* run to its end, or the worker has left run() or been terminated meanwhile.
THEOREM DelayedAfterValve == Spec => []DelayAfterValve
<1>1. Inv => DelayAfterValve
  BY DEF Inv, Safe, DelayInv, DelayAfterValve
<1> QED BY <1>1, Invariant, PTL

\* The compressor never starts before it has rested.
THEOREM CompressorHasRested == Spec => CompressorRests
<1>1. TypeOK /\ Inv /\ [Next]_vars
        => [("y1" \notin sent /\ "y1" \in sent') => rested \/ leftOn]_vars
  BY SendsAtRest
<1> QED BY <1>1, Invariant, PTL DEF Spec, CompressorRests

\* The valve never switches under the compressor.
THEOREM ValveSwitchedAtRest == Spec => ValveAtRest
<1>1. TypeOK /\ Inv /\ [Next]_vars
        => [HasValve /\ "o_b" \in Changes(sent, sent') => "y1" \notin sent \/ leftOn]_vars
  BY SendsAtRest
<1> QED BY <1>1, Invariant, PTL DEF Spec, ValveAtRest

\* Nothing is left on without an update or a failing sensor, and the properties then hold
\* without their exception.
THEOREM NothingLeftOn == Spec => [](~Updates /\ ~SensorFails => ~leftOn)
<1> DEFINE J == ~Updates /\ ~SensorFails => ~leftOn /\ ~updating
<1>1. Init => J
  BY DEF Init
<1>2. J /\ [Next]_vars => J'
  <2> SUFFICES ASSUME ~Updates, ~SensorFails, ~leftOn, ~updating, [Next]_vars
               PROVE  ~leftOn' /\ ~updating'
    OBVIOUS
  <2> USE DEF relayVars, boardVars, outside
  <2>1. CASE Loops /\ UNCHANGED outside
    BY <2>1, LoopsSendNothing
  <2>2. CASE RunLoop \/ OffLoop \/ LeaveRun \/ SendRelays
    BY <2>2 DEF RunLoop, OffLoop, LeaveRun, SendRelays, GiveUp, Go, Switch
  <2>3. CASE ClearRelays
    <3>1. updating' = updating /\ leftOn' = (leftOn /\ ~CleanSlate')
      BY <2>3 DEF ClearRelays
    <3> QED BY <3>1
  <2>4. CASE Outside
    BY <2>4 DEF Outside, TemperatureChanges, RestartWork, Restarted, SensorRecovers, StartAgain,
                Stop, UpdateStarts, Elapse
  <2>5. CASE UNCHANGED vars
    BY <2>5 DEF vars
  <2> QED BY <2>1, <2>2, <2>3, <2>4, <2>5 DEF Next, Worker
<1> QED BY <1>1, <1>2, PTL DEF Spec
=============================================================================
