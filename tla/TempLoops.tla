------------------------------ MODULE TempLoops ------------------------------
(***************************************************************************)
(* The control loops of the temperature worker: CoolingLoop, HeatingLoop,  *)
(* the stage loops under them, auxiliary and emergency heating.            *)
(*                                                                         *)
(* A location is the head of a loop.  A pass of a loop that only waits     *)
(* changes nothing and is a stutter, so an action is a pass that does      *)
(* something.  sendRelays() is a location of its own ("send"): stopWork    *)
(* may rise between the test before an operation on the relays and the     *)
(* one in sendRelays().  A configuration is then sent at once, unless      *)
(* terminate() cuts it: how it gets to the board relay by relay, and what  *)
(* other senders do to it, is the business of RelaySharing.  The worker is *)
(* taken to be the only sender here.                                       *)
(*                                                                         *)
(* Temperatures are differences in tenths of a degree Fahrenheit.  Elapsed *)
(* timers are compared with one threshold each: two minutes for s1off and  *)
(* s2off, ten for s1up and s2up, the emergency minimum time for teon.      *)
(***************************************************************************)
EXTENDS Relay

CONSTANTS
  Setups,    \* the system setups, one of which is installed
  Modes,     \* the modes the user may choose
  Excesses,  \* current minus effective set temperature, in tenths of a degree
  Updates,     \* BOOLEAN: a software update may start, and fail
  SensorFails, \* BOOLEAN: the temperature sensor may fail
  FailsAgain   \* BOOLEAN: also before run() has turned off what that left on; a bound

SystemTypes == {"Conventional", "CoolingOnly", "HeatingOnly", "HeatPump", "DualFuelHeating"}
SystemModes == {"Off", "Cooling", "Heating", "Auto", "EmergencyHeat"}

\* What the loops read of SystemSetup.
SetupType ==
  [type : SystemTypes, coolStage : 1 .. 2, heatStage : 1 .. 3, auxiliary : BOOLEAN,
   parallel : BOOLEAN, auxAndE : BOOLEAN, driveAux : BOOLEAN, heatPumpOBState : 0 .. 1]

ASSUME LoopsAssumption ==
  /\ Setups \subseteq SetupType
  /\ Modes \subseteq SystemModes
  /\ Excesses \subseteq Int
  /\ Updates \in BOOLEAN
  /\ SensorFails \in BOOLEAN /\ FailsAgain \in BOOLEAN

VARIABLES
  setup,     \* SystemSetup
  mode,      \* effectiveSystemMode()
  excess,    \* current minus effective set temperature
  stopWork,  \* stopWork
  updating,  \* mRestarting
  pc,        \* where the worker is
  next,      \* where it goes on after sendRelays(), or "top"
  timer,     \* mTiming's timers and mTEONTimer
  s2hold, s3hold,   \* mTiming->s2hold and s3hold
  mRelay,    \* the configuration wanted
  ob_state,  \* Relay::ob_state
  mRelayLast,  \* the configuration last claimed, which the code takes for sent
  sent,      \* the configuration on the board
  rested,    \* history: the compressor has been off long enough, or a system delay has run
  owed,      \* history: the reversing valve has switched and no system delay has run since;
             \* "due" until the worker leaves run() or is terminated, then "cut"
  leftOn     \* history: an update or terminate() has kept run() from turning off what was on,
             \* and run() has not turned all off since with the compressor rested and no
             \* delay due

vars == <<setup, mode, excess, stopWork, updating, pc, next, timer, s2hold, s3hold,
          mRelay, ob_state, mRelayLast, sent, rested, owed, leftOn>>

boardVars == <<mRelayLast, sent, rested, owed>>
relayVars == <<mRelay, ob_state, boardVars, leftOn>>
holdVars == <<s2hold, s3hold>>
outside == <<setup, mode, excess, stopWork, updating>>

T1 == 9
T2 == 19
T3 == 29
T4 == 39
STAGE1_ON_RANGE == 9
STAGE1_OFF_RANGE == 10

Locations == {"stopped", "dead", "top", "off", "clear", "send",
              "cool", "coolDelay", "coolStart", "cool1", "cool2",
              "heatDelay", "heatStart", "heat1", "heat2", "heat3",
              "pump", "pumpDelay", "pumpStart", "pump1", "pump2", "aux1", "aux2",
              "emergency"}

Timers == {"s1off", "s2off", "s1up", "s2up", "teon"}

TypeOK ==
  /\ setup \in Setups
  /\ mode \in Modes
  /\ excess \in Excesses
  /\ stopWork \in BOOLEAN
  /\ updating \in BOOLEAN
  /\ pc \in Locations
  /\ next \in Locations
  /\ timer \in [Timers -> {"invalid", "short", "long"}]
  /\ s2hold \in BOOLEAN /\ s3hold \in BOOLEAN
  /\ mRelay \in SUBSET Wires
  /\ ob_state \in {"Off", "Cooling", "Heating"}
  /\ mRelayLast \in SUBSET Wires
  /\ sent \in SUBSET Wires
  /\ rested \in BOOLEAN
  /\ owed \in {"none", "due", "cut"}
  /\ leftOn \in BOOLEAN

Init ==
  /\ setup \in Setups
  /\ mode \in Modes
  /\ excess \in Excesses
  /\ stopWork = FALSE
  /\ updating = FALSE
  /\ pc = "top"
  /\ next = "top"
  /\ timer = [t \in Timers |-> "invalid"]
  /\ s2hold = FALSE /\ s3hold = FALSE
  /\ mRelay = {} /\ ob_state = "Off" /\ mRelayLast = {} /\ sent = {}
  /\ rested = TRUE
  /\ owed = "none"
  /\ leftOn = FALSE

-----------------------------------------------------------------------------
(***************************************************************************)
(* Helpers.                                                                *)
(***************************************************************************)

cooling == excess          \* effectiveCurrentTemperature() - effectiveTemperature()
heating == -excess         \* effectiveTemperature() - effectiveCurrentTemperature()

HasValve == setup.type \in {"HeatPump", "DualFuelHeating"}
HeatPumpWithAux == setup.type = "HeatPump" /\ setup.auxiliary
TwoStages == setup.coolStage = 2         \* heatPumpStage() is coolStage, too

\* updateHeatPumpProperties()
HPT1 == T1
AUXT1 == IF TwoStages THEN T3 ELSE T2
AUXT2 == IF TwoStages THEN T4 ELSE T3

\* The direction for which the valve is switched on.
ob_on_state ==
  CASE ~HasValve -> "Off"
    [] HasValve /\ setup.heatPumpOBState = 0 -> "Cooling"
    [] OTHER -> "Heating"

\* relays(): the configuration wanted, with the valve and the fan.
Wanted(config) == relays(config, ob_state, ob_on_state, FALSE)

\* What is on the board then, and what that is to the compressor.
OnBoard(config) ==
  /\ sent' = config
  /\ rested' = (rested /\ ~("y1" \in sent /\ "y1" \notin config))

ValveSwitches == HasValve /\ "o_b" \in Changes(sent, sent')

\* sendRelays(), to its end: nothing is sent if nothing differs from what was claimed last.
Send(config) ==
  LET new == Wanted(config)
  IN  /\ mRelay' = new
      /\ mRelayLast' = new
      /\ OnBoard(IF new = mRelayLast THEN sent ELSE new)
      /\ owed' = IF ValveSwitches THEN "due" ELSE owed

\* sendRelays() when terminate() ends it: before or after the claim, and after any of the
\* steps.
CutSend(config) ==
  LET new == Wanted(config)
  IN  /\ mRelay' = new
      /\ \/ UNCHANGED <<mRelayLast, sent, rested>>
         \/ /\ new # mRelayLast
            /\ mRelayLast' = new
            /\ \E board \in {sent} \cup Partway(mRelayLast, new) : OnBoard(board)

\* Turning everything off would change something.
SomethingOn == {mRelay, mRelayLast, sent} # {Wanted(setAllOff(mRelay))}

\* An operation on the Relay object, then sendRelays(), then on to `loc'.
Switch(config, loc) ==
  /\ mRelay' = config
  /\ pc' = "send"
  /\ next' = loc
  /\ UNCHANGED <<ob_state, boardVars, leftOn>>

Go(loc) == pc' = loc /\ UNCHANGED <<next, relayVars>>

\* Mutant of Restart: the other timers are lost.
RestartOnly(names) == timer' = [t \in names |-> "short"]

Restart(names) == timer' = [t \in Timers |-> IF t \in names THEN "short" ELSE timer[t]]

\* The start of a stage 1: s1uptime restarts, s2Offtime is invalidated.
RestartStage1 == timer' = [timer EXCEPT !["s1up"] = "short", !["s2off"] = "invalid"]

\* Mutant of Finish: s1Offtime is not restarted.
FinishUntimed ==
  /\ Go("clear")
  /\ UNCHANGED <<timer, holdVars>>

\* A stage loop ends: back to run(), which turns everything off.
Finish ==
  /\ Restart({"s1off"})
  /\ Go("clear")
  /\ UNCHANGED holdVars

\* Leaving a loop that has not started anything.
GiveUp == Go("clear") /\ UNCHANGED <<timer, holdVars>>

-----------------------------------------------------------------------------
(***************************************************************************)
(* Outside the worker.                                                     *)
(***************************************************************************)

TemperatureChanges ==
  /\ excess' \in Excesses
  /\ UNCHANGED <<setup, mode, stopWork, updating, pc, next, timer, holdVars, relayVars>>

\* Another mode, a change of the dual fuel source: restartWork() raises the flag ...
RestartWork ==
  /\ mode' \in Modes
  /\ stopWork' = TRUE
  /\ UNCHANGED <<setup, excess, updating, pc, next, timer, holdVars, relayVars>>

StartAgain ==
  /\ stopWork' = FALSE
  /\ pc' = "top"
  /\ UNCHANGED <<setup, mode, excess, updating, next, timer, holdVars, relayVars>>

\* ... and once run() has returned the thread is started again.
Restarted == pc = "stopped" /\ StartAgain

\* Scheme::stop(), when the temperature sensor fails: terminate() leaves the relays as they
\* are and restarts no timer.
Stop ==
  /\ SensorFails /\ (leftOn => FailsAgain)
  /\ pc \notin {"stopped", "dead"}
  /\ stopWork' = TRUE
  /\ pc' = "dead"
  /\ next' = "top"
  /\ \/ UNCHANGED <<mRelay, mRelayLast, sent, rested>>
     \/ pc = "send" /\ ~stopWork /\ CutSend(mRelay)
     \/ pc = "clear" /\ ~updating /\ CutSend(setAllOff(mRelay))
  /\ owed' = IF ValveSwitches \/ owed # "none" THEN "cut" ELSE "none"
  /\ UNCHANGED <<setup, mode, excess, updating, timer, holdVars, ob_state>>
  /\ leftOn' = (leftOn \/ SomethingOn')

\* The sensor works again, or a slot of finished() that stop() has found armed is delivered.
SensorRecovers == pc = "dead" /\ StartAgain

\* moveToUpdatingMode() and its timeout.
UpdateStarts ==
  /\ Updates
  /\ updating' = ~updating
  /\ UNCHANGED <<setup, mode, excess, stopWork, pc, next, timer, holdVars, relayVars>>

\* A timer passes its threshold.  No wait lies between the restart of s1Offtime and the send
\* that turns the compressor off, so both two minutes are one.
Elapse(t) ==
  /\ timer[t] = "short"
  /\ t = "s1off" => pc # "clear"
  /\ timer' = [timer EXCEPT ![t] = "long"]
  /\ rested' = (rested \/ (t = "s1off" /\ "y1" \notin sent))
  /\ UNCHANGED <<outside, pc, next, holdVars, mRelay, ob_state, mRelayLast, sent, owed, leftOn>>

-----------------------------------------------------------------------------
(***************************************************************************)
(* run(), and sendRelays() seen from the loops.                            *)
(***************************************************************************)

\* AutoModeLoop() picks a direction; the other modes are one.
Direction ==
  CASE mode = "Auto" -> IF cooling > 0 THEN "Cooling" ELSE IF heating > 0 THEN "Heating" ELSE "None"
    [] OTHER -> mode

\* activeSystemTypeHeating(): a dual fuel system heats with either of the two.
ActiveTypes ==
  IF setup.type = "DualFuelHeating" THEN {"HeatPump", "HeatingOnly"} ELSE {setup.type}

\* HeatingLoop()
HeatingStart(active) ==
  CASE active = "HeatPump" -> IF HeatPumpWithAux \/ heating > 0 THEN "pump" ELSE "clear"
    [] active \in {"Conventional", "HeatingOnly"} ->
         IF heating >= T1 THEN "heatDelay" ELSE "clear"
    [] OTHER -> "clear"

\* manualEmergencyHeating() and the checks of emergencyHeatingLoop().
EmergencyStarts == heating > 0 /\ HeatPumpWithAux

RunLoop ==
  /\ pc = "top" /\ ~stopWork
  /\ CASE Direction = "Cooling" ->
            Go(IF setup.type = "HeatingOnly" THEN "clear" ELSE "cool") /\ UNCHANGED timer
       [] Direction = "Heating" ->
            (\E active \in ActiveTypes : Go(HeatingStart(active))) /\ UNCHANGED timer
       [] Direction = "EmergencyHeat" /\ EmergencyStarts ->
            /\ Switch(emergencyAuxiliaryHeating(setAllOff(mRelay),
                        setup.heatStage = 1 \/ ~setup.driveAux, setup.auxAndE), "emergency")
            /\ Restart({"teon"})
       [] OTHER -> Go(IF mode = "Off" THEN "off" ELSE "clear") /\ UNCHANGED timer
  /\ UNCHANGED <<outside, holdVars>>

\* OffLoop waits for a request to stop.
OffLoop ==
  /\ pc = "off" /\ stopWork
  /\ GiveUp
  /\ UNCHANGED outside

\* What a loop may start from.
CleanSlate == sent = mRelay /\ rested /\ owed # "due"

\* Mutant of ClearRelays: sendRelays() is not forced, so it refuses while stopWork is up.
ClearRelaysUnforced ==
  /\ pc = "clear"
  /\ IF updating \/ stopWork
     THEN UNCHANGED <<mRelay, boardVars>>
     ELSE Send(setAllOff(mRelay))
  /\ pc' = "top"
  /\ leftOn' = IF updating THEN leftOn \/ SomethingOn ELSE leftOn /\ ~CleanSlate'
  /\ UNCHANGED <<outside, next, timer, holdVars, ob_state>>

\* Mutant of ClearRelays: nothing is sent when the Relay object is already off.
ClearRelaysOnChange ==
  /\ pc = "clear"
  /\ IF updating \/ mRelay \cap TempWires = {}
     THEN mRelay' = setAllOff(mRelay) /\ UNCHANGED boardVars
     ELSE Send(setAllOff(mRelay))
  /\ pc' = "top"
  /\ leftOn' = IF updating THEN leftOn \/ SomethingOn ELSE leftOn /\ ~CleanSlate'
  /\ UNCHANGED <<outside, next, timer, holdVars, ob_state>>

\* if (!mRestarting) setAllOff(), sendRelays(true); then leave run() or go round again.
ClearRelays ==
  /\ pc = "clear"
  /\ IF updating THEN UNCHANGED <<mRelay, boardVars>> ELSE Send(setAllOff(mRelay))
  /\ pc' = "top"
  /\ leftOn' = IF updating THEN leftOn \/ SomethingOn ELSE leftOn /\ ~CleanSlate'
  /\ UNCHANGED <<outside, next, timer, holdVars, ob_state>>

\* A system delay that is still due will not be run.
LeaveRun ==
  /\ pc = "top" /\ stopWork
  /\ pc' = "stopped"
  /\ owed' = IF owed = "none" THEN "none" ELSE "cut"
  /\ UNCHANGED <<outside, next, timer, holdVars, mRelay, ob_state, mRelayLast, sent, rested, leftOn>>

\* sendRelays() without force.
SendRelays ==
  /\ pc = "send"
  /\ pc' = next
  /\ next' = "top"
  /\ IF stopWork THEN UNCHANGED <<mRelay, boardVars>> ELSE Send(mRelay)
  /\ UNCHANGED <<outside, timer, holdVars, ob_state, leftOn>>

-----------------------------------------------------------------------------
(***************************************************************************)
(* The loops that start the compressor: cooling, and the heat pump.        *)
(***************************************************************************)

\* Mutant of CompressorLoop: a timer that was never started counts as too short.
CompressorLoopUnstarted(loop, state, demand, delay, start) ==
  /\ pc = loop
  /\ \/ (stopWork \/ demand < T1) /\ GiveUp
     \/ /\ ~stopWork /\ demand >= T1 /\ ob_state # state
        /\ ob_state' = state
        /\ IF HasValve THEN pc' = "send" /\ next' = delay ELSE UNCHANGED <<pc, next>>
        /\ UNCHANGED <<timer, holdVars, mRelay, boardVars, leftOn>>
     \/ /\ ~stopWork /\ demand >= T1 /\ ob_state = state /\ timer["s1off"] = "long"
        /\ Go(start)
        /\ UNCHANGED <<timer, holdVars>>

\* Mutant of CompressorLoop: the system delay is left out.
CompressorLoopUndelayed(loop, state, demand, delay, start) ==
  /\ pc = loop
  /\ \/ (stopWork \/ demand < T1) /\ GiveUp
     \/ /\ ~stopWork /\ demand >= T1 /\ ob_state # state
        /\ ob_state' = state
        /\ IF HasValve THEN pc' = "send" /\ next' = loop ELSE UNCHANGED <<pc, next>>
        /\ UNCHANGED <<timer, holdVars, mRelay, boardVars, leftOn>>
     \/ /\ ~stopWork /\ demand >= T1 /\ ob_state = state /\ timer["s1off"] # "short"
        /\ Go(start)
        /\ UNCHANGED <<timer, holdVars>>

\* The loop before stage 1: the valve first, and for a heat pump the system delay after it;
\* otherwise the two minutes since the compressor was last on.
CompressorLoop(loop, state, demand, delay, start) ==
  /\ pc = loop
  /\ \/ (stopWork \/ demand < T1) /\ GiveUp
     \/ /\ ~stopWork /\ demand >= T1 /\ ob_state # state
        /\ ob_state' = state
        /\ IF HasValve THEN pc' = "send" /\ next' = delay ELSE UNCHANGED <<pc, next>>
        /\ UNCHANGED <<timer, holdVars, mRelay, boardVars, leftOn>>
     \/ /\ ~stopWork /\ demand >= T1 /\ ob_state = state /\ timer["s1off"] # "short"
        /\ Go(start)
        /\ UNCHANGED <<timer, holdVars>>

\* The heat pump's loop does not test stopWork before it sets the valve's state.
StoppedAtValve ==
  /\ pc = "pump" /\ stopWork /\ heating >= STAGE1_ON_RANGE
  /\ ob_state' = "Heating"
  /\ pc' = "clear"
  /\ UNCHANGED <<next, timer, holdVars, mRelay, boardVars, leftOn>>

\* runSystemDelay() runs to its end, or is cut short by stopWorkRequested.
SystemDelay(delay, start) ==
  /\ pc = delay
  /\ \/ stopWork /\ GiveUp
     \/ /\ ~stopWork
        /\ rested' = TRUE /\ owed' = "none"
        /\ pc' = start
        /\ UNCHANGED <<next, timer, holdVars, mRelay, ob_state, mRelayLast, sent, leftOn>>

CompressorStart(start, config, stage1) ==
  /\ pc = start
  /\ \/ stopWork /\ GiveUp
     \/ /\ ~stopWork
        /\ Switch(config, stage1)
        /\ RestartStage1
        /\ s2hold' = FALSE
        /\ UNCHANGED s3hold

\* internalCoolingLoopStage1() and internalPumpHeatingLoopStage1().
CompressorStage1(stage1, demand, config2, stage2) ==
  /\ pc = stage1
  /\ \/ (stopWork \/ -demand >= STAGE1_OFF_RANGE) /\ Finish
     \/ /\ ~stopWork /\ -demand < STAGE1_OFF_RANGE
        /\ TwoStages
        /\ demand >= T2 \/ timer["s1up"] = "long"
        /\ timer["s2off"] # "short"
        /\ Switch(config2, stage2)
        /\ UNCHANGED <<timer, holdVars>>

\* Back to stage 1, unless the system is about to restart.
StepDown(config, stage, names) ==
  IF updating
  THEN Go(stage) /\ UNCHANGED <<timer, s2hold>>
  ELSE Switch(config, stage) /\ Restart(names) /\ s2hold' = TRUE

\* internalCoolingLoopStage2() and internalPumpHeatingLoopStage2().
CompressorStage2(stage2, demand, config1, stage1) ==
  /\ pc = stage2
  /\ \/ (stopWork \/ (s2hold /\ -demand >= STAGE1_OFF_RANGE)) /\ Finish
     \/ /\ ~stopWork /\ ~s2hold /\ demand <= STAGE1_ON_RANGE
        /\ StepDown(config1, stage1, {"s1up", "s2off"})
        /\ UNCHANGED s3hold

CoolingLoop ==
  \/ CompressorLoop("cool", "Cooling", cooling, "coolDelay", "coolStart")
  \/ SystemDelay("coolDelay", "coolStart")
  \/ CompressorStart("coolStart", coolingStage1(mRelay), "cool1")
  \/ CompressorStage1("cool1", cooling, coolingStage2(mRelay), "cool2")
  \/ CompressorStage2("cool2", cooling, coolingStage1(setAllOff(mRelay)), "cool1")

PumpStarts ==
  \/ CompressorLoop("pump", "Heating", heating, "pumpDelay", "pumpStart")
  \/ StoppedAtValve
  \/ SystemDelay("pumpDelay", "pumpStart")
  \/ CompressorStart("pumpStart", heatingStage1(mRelay, TRUE), "pump1")

PumpHeatingLoop ==
  /\ ~HeatPumpWithAux
  /\ \/ CompressorStage1("pump1", heating, heatingStage2(mRelay, TRUE), "pump2")
     \/ CompressorStage2("pump2", heating, heatingStage1(setAllOff(mRelay), TRUE), "pump1")

-----------------------------------------------------------------------------
(***************************************************************************)
(* The heat pump with auxiliary heating, and emergency heating.            *)
(***************************************************************************)

TooWarm == -heating >= STAGE1_OFF_RANGE

\* Mutant of AuxiliaryStart: the heat pump stays on whatever the setup says.
AuxiliaryStartParallel ==
  /\ Switch(auxiliaryHeatingStage1(mRelay, setup.auxAndE), "aux1")
  /\ RestartStage1
  /\ s2hold' = FALSE

\* auxiliaryHeatingLoopStage1(true)
AuxiliaryStart ==
  /\ Switch(auxiliaryHeatingStage1(IF setup.parallel THEN mRelay ELSE turnOffHeatPump(mRelay),
                                   setup.auxAndE), "aux1")
  /\ RestartStage1
  /\ s2hold' = FALSE

\* internalPumpHeatingWithAuxLoopStage1()
AuxPumpStage1 ==
  /\ pc = "pump1"
  /\ \/ (stopWork \/ TooWarm) /\ Finish
     \/ /\ ~stopWork /\ ~TooWarm
        /\ heating >= T2 \/ timer["s1up"] # "short"
        /\ \/ /\ TwoStages /\ timer["s2off"] # "short"
              /\ Switch(heatingStage2(mRelay, TRUE), "pump2")
              /\ Restart({"s2up"})
              /\ UNCHANGED s2hold
           \/ ~TwoStages /\ heating >= AUXT1 /\ AuxiliaryStart
        /\ UNCHANGED s3hold

\* internalPumpHeatingWithAuxLoopStage2()
AuxPumpStage2 ==
  /\ pc = "pump2"
  /\ \/ (stopWork \/ TooWarm) /\ Finish
     \/ /\ ~stopWork /\ ~TooWarm /\ heating <= HPT1
        /\ StepDown(heatingStage1(setAllOff(mRelay), TRUE), "pump1", {"s1up", "s2off"})
        /\ UNCHANGED s3hold
     \/ /\ ~stopWork /\ ~TooWarm /\ heating > HPT1
        /\ heating >= AUXT1 \/ timer["s2up"] = "long"
        /\ AuxiliaryStart
        /\ UNCHANGED s3hold

\* The loop of auxiliaryHeatingLoopStage1().
AuxiliaryStage1 ==
  /\ pc = "aux1"
  /\ \/ (stopWork \/ TooWarm) /\ Finish
     \/ /\ ~stopWork /\ ~TooWarm
        /\ setup.heatStage >= 2
        /\ heating >= AUXT2 \/ timer["s1up"] = "long"
        /\ Switch(auxiliaryHeatingStage2(mRelay, TRUE), "aux2")
        /\ UNCHANGED <<timer, holdVars>>

\* auxiliaryHeatingLoopStage2(); told to stop it leaves that to the loop above.
AuxiliaryStage2 ==
  /\ pc = "aux2"
  /\ \/ stopWork /\ Go("aux1") /\ UNCHANGED <<timer, holdVars>>
     \/ ~stopWork /\ s2hold /\ TooWarm /\ Finish
     \/ /\ ~stopWork /\ ~s2hold /\ heating <= AUXT1
        /\ StepDown(auxiliaryHeatingStage1(auxiliaryHeatingStage2(mRelay, FALSE), setup.auxAndE),
                    "aux1", {"s1up", "s2off"})
        /\ UNCHANGED s3hold

AuxHeatingLoop ==
  /\ HeatPumpWithAux
  /\ AuxPumpStage1 \/ AuxPumpStage2 \/ AuxiliaryStage1 \/ AuxiliaryStage2

\* emergencyHeatingLoop() ends: the setpoint is passed by a degree and the minimum time over.
EmergencyLoop ==
  /\ pc = "emergency"
  /\ stopWork \/ (heating <= -10 /\ timer["teon"] # "short")
  /\ Switch(turnOffEmergencyHeating(mRelay), "clear")
  /\ timer' = [timer EXCEPT !["teon"] = "invalid"]
  /\ UNCHANGED holdVars

-----------------------------------------------------------------------------
(***************************************************************************)
(* Conventional heating.                                                   *)
(***************************************************************************)

\* internalHeatingLoopStage1(), up to its loop.
HeatingStarts ==
  /\ pc = "heatStart"
  /\ \/ stopWork /\ GiveUp
     \/ /\ ~stopWork
        /\ Switch(heatingStage1(mRelay, FALSE), "heat1")
        /\ Restart({"s1up"})
        /\ s2hold' = FALSE /\ s3hold' = FALSE

HeatingStage1 ==
  /\ pc = "heat1"
  /\ \/ (stopWork \/ TooWarm) /\ Finish
     \/ /\ ~stopWork /\ ~TooWarm
        /\ setup.heatStage >= 2
        /\ heating >= T2 \/ timer["s1up"] = "long"
        /\ Switch(heatingStage2(mRelay, FALSE), "heat2")
        /\ Restart({"s2up"})
        /\ UNCHANGED holdVars

\* In stage 2: when stage 3 is called, and when stage 1 is enough again.
HighTime == timer["s2up"] # "short"
CallsStage3 ==
  /\ setup.heatStage = 3
  /\ IF s2hold THEN ~TooWarm /\ HighTime ELSE HighTime \/ heating >= T3
Stage1Enough ==
  /\ ~s2hold /\ heating < T1
  /\ setup.heatStage < 3 \/ ~HighTime

\* internalHeatingLoopStage2()
HeatingStage2 ==
  /\ pc = "heat2"
  /\ \/ (stopWork \/ (s2hold /\ TooWarm)) /\ Finish
     \/ /\ ~stopWork /\ CallsStage3
        /\ Switch(heatingStage3(mRelay), "heat3")
        /\ s2hold' = FALSE
        /\ UNCHANGED <<timer, s3hold>>
     \/ /\ ~stopWork /\ Stage1Enough
        /\ StepDown(heatingStage1(setAllOff(mRelay), FALSE), "heat1", {"s1up"})
        /\ UNCHANGED s3hold

\* internalHeatingLoopStage3()
HeatingStage3 ==
  /\ pc = "heat3"
  /\ \/ (stopWork \/ (s3hold /\ TooWarm)) /\ Finish
     \/ /\ ~stopWork /\ ~s3hold /\ heating < T3
        /\ IF updating
           THEN Go("heat2") /\ UNCHANGED <<timer, s3hold>>
           ELSE /\ Switch(heatingStage2(setAllOff(mRelay), FALSE), "heat2")
                /\ Restart({"s1up", "s2up"})
                /\ s3hold' = TRUE
        /\ UNCHANGED s2hold

HeatingLoop ==
  \/ SystemDelay("heatDelay", "heatStart")
  \/ HeatingStarts
  \/ HeatingStage1
  \/ HeatingStage2
  \/ HeatingStage3

-----------------------------------------------------------------------------
Loops ==
  \/ CoolingLoop
  \/ PumpStarts
  \/ PumpHeatingLoop
  \/ AuxHeatingLoop
  \/ EmergencyLoop
  \/ HeatingLoop

Worker ==
  \/ RunLoop
  \/ OffLoop
  \/ ClearRelays
  \/ LeaveRun
  \/ SendRelays
  \/ (Loops /\ UNCHANGED outside)

Outside ==
  \/ TemperatureChanges
  \/ RestartWork
  \/ Restarted
  \/ Stop
  \/ SensorRecovers
  \/ UpdateStarts
  \/ \E t \in Timers : Elapse(t)

Next == Worker \/ Outside

Spec == Init /\ [][Next]_vars

\* The worker thread runs and its timed waits end; time passes; the slot is delivered.
Fairness ==
  /\ WF_vars(Worker)
  /\ WF_vars(Restarted)
  /\ \A t \in Timers : WF_vars(Elapse(t))

FairSpec == Spec /\ Fairness

-----------------------------------------------------------------------------
(***************************************************************************)
(* Properties.  An update that comes to nothing, and terminate(), may      *)
(* leave relays on for the next loop (leftOn): StageOrder holds then too,  *)
(* the others do not, until run() has turned everything off.               *)
(***************************************************************************)

Furnace == {"w1", "w2", "w3"}

\* The valve stands as for heating.
ValveHeats == "o_b" \in sent <=> ob_on_state = "Heating"

\* The compressor and the furnace run together only as a heat pump that heats with its
\* auxiliary in parallel: no loop starts on what another one left.
Interlock ==
  "y1" \in sent /\ sent \cap Furnace # {} =>
    leftOn \/ (HeatPumpWithAux /\ setup.parallel /\ ValveHeats)

\* No second stage without the first one.
StageOrder ==
  /\ "y2" \in sent => "y1" \in sent
  /\ "w2" \in sent => "w1" \in sent

\* The compressor does not start within two minutes of its last stop, unless a whole system
\* delay has passed: across modes, restarts and the auxiliary heating.
CompressorRests == [][("y1" \notin sent /\ "y1" \in sent') => rested \/ leftOn]_vars

\* The reversing valve is not switched while the compressor runs.
ValveAtRest == [][HasValve /\ "o_b" \in Changes(sent, sent') => "y1" \notin sent \/ leftOn]_vars

\* "sysDelay because ob state is not heating": a whole system delay separates the switch of
\* the valve from the start of the compressor, unless the worker was restarted in between.
\* (A delay that a restart has cut short is not repeated: ob_state is what the loop asks for.)
DelayAfterValve == HasValve /\ "y1" \in sent => owed # "due" \/ leftOn

\* A call that terminate() has cut: what it claimed is taken for sent, and not sent again.
Strayed == sent # mRelayLast

\* A demand that lasts, in a mode that serves it, ends in heat or cold that lasts, unless
\* just what it needs was claimed by a call that terminate() has cut.
NeedsCooling == mode = "Cooling" /\ setup.type # "HeatingOnly" /\ cooling >= T1
NeedsHeating == mode = "Heating" /\ setup.type # "CoolingOnly" /\ heating >= T1
DemandServed ==
  /\ <>[](NeedsCooling /\ ~stopWork) => <>[]("y1" \in sent \/ Strayed)
  /\ <>[](NeedsHeating /\ ~stopWork) => <>[]({"y1", "w1"} \cap sent # {} \/ Strayed)

\* A setpoint that has been passed by a degree and stays so turns everything off, once the
\* requests to restart end: also what an update mode which came to nothing, or terminate(),
\* has left on, unless terminate() has cut the very call that turned it off.
Overshoot ==
  \/ mode = "Cooling" /\ -cooling >= STAGE1_OFF_RANGE
  \/ mode \in {"Heating", "EmergencyHeat"} /\ TooWarm
AllOff == sent \cap TempWires = {}
OvershootEnds == <>[](Overshoot /\ ~updating /\ ~stopWork) => <>[](AllOff \/ Strayed)

=============================================================================
