------------------------------- MODULE Relay --------------------------------
(***************************************************************************)
(* The Relay singleton and RelayConfigs: pure operators.                   *)
(*                                                                         *)
(* A configuration is the set of wires that are ON.  The ten wires that    *)
(* RelayConfigs::operator== compares start OFF and are only ever set to ON *)
(* or OFF, so NoWire does not occur among them.  Each operator takes the   *)
(* configuration `on' of mRelay and returns the one the method leaves.     *)
(***************************************************************************)
EXTENDS Integers

TempWires == {"y1", "y2", "w1", "w2", "w3"}
AccWires == {"acc2", "acc1p", "acc1n"}
Wires == TempWires \cup AccWires \cup {"g", "o_b"}

\* The methods that set all five heating and cooling wires.
WithTempWires(on, wires) == (on \ TempWires) \cup wires

coolingStage1(on) == WithTempWires(on, {"y1"})
coolingStage2(on) == WithTempWires(on, {"y1", "y2"})
heatingStage1(on, heatpump) == WithTempWires(on, IF heatpump THEN {"y1"} ELSE {"w1"})
heatingStage2(on, heatpump) ==
  WithTempWires(on, IF heatpump THEN {"y1", "y2"} ELSE {"w1", "w2"})
heatingStage3(on) == WithTempWires(on, {"w1", "w2", "w3"})
setAllOff(on) == WithTempWires(on, {})

\* Auxiliary and emergency heating change only the wires they name.
WhenE(driveAux1AndETogether, wire) == IF driveAux1AndETogether THEN {wire} ELSE {}

auxiliaryHeatingStage1(on, driveAux1AndETogether) ==
  on \cup {"w1"} \cup WhenE(driveAux1AndETogether, "w3")

auxiliaryHeatingStage2(on, turnOn) ==
  IF turnOn THEN on \cup {"w1", "w2"} ELSE on \ {"w1", "w2"}

emergencyAuxiliaryHeating(on, useStage1, driveAux1AndETogether) ==
  IF useStage1
  THEN on \cup {"w3"} \cup WhenE(driveAux1AndETogether, "w1")
  ELSE heatingStage3(on)

\* Mutant of turnOffHeatPump: the second stage is forgotten.
turnOffHeatPumpStage1(on) == on \ {"y1"}

turnOffHeatPump(on) == on \ {"y1", "y2"}
turnOffEmergencyHeating(on) == on \ {"w1", "w2", "w3"}

\* Mutant of updateHumidityWiring: the missing accessory is wired like the others.
updateHumidityWiringAny(on, wireType) == (on \ AccWires) \cup {wireType}

\* The accessory's wire, or "none".
AccWireTypes == AccWires \cup {"none"}
updateHumidityWiring(on, wireType) == (on \ AccWires) \cup ({wireType} \cap AccWires)

\* updateOB(): the reversing valve follows ob_state.
updateOB(on, ob_state, ob_on_state) ==
  IF ob_state = ob_on_state /\ ob_state # "Off" THEN on \cup {"o_b"} ELSE on \ {"o_b"}

\* The wires that need the fan, and updateFan().
FanLoads == {"y1", "w1", "w3"} \cup AccWires
updateFan(on, mFanOn) ==
  IF mFanOn \/ on \cap FanLoads # {} THEN on \cup {"g"} ELSE on \ {"g"}

\* relays()
relays(on, ob_state, ob_on_state, mFanOn) ==
  updateFan(updateOB(on, ob_state, ob_on_state), mFanOn)

-----------------------------------------------------------------------------
(***************************************************************************)
(* RelayConfigs::changeStepsSorted(newState): the changes that turn `from' *)
(* into `to', sorted by a signed priority.  std::sort leaves the order of  *)
(* equal priorities open, so the next change is one of a set.              *)
(***************************************************************************)

Priority == [wire \in Wires |->
  CASE wire = "o_b" -> 1
    [] wire = "g" -> 2
    [] wire \in {"y1", "w1"} -> 3
    [] wire \in {"y2", "w2"} -> 4
    [] wire = "w3" -> 5
    [] wire = "acc2" -> 6
    [] wire = "acc1p" -> 7
    [] wire = "acc1n" -> 8]

\* Mutant of Factor: relays to be turned off are not brought forward.
FactorUnsigned(to, wire) == Priority[wire]

\* The lambda factor, for a wire that changes.
Factor(to, wire) == IF wire \in to THEN Priority[wire] ELSE -Priority[wire]

Changes(from, to) == (from \ to) \cup (to \ from)

\* The wires that may be changed next among `own', those the caller does not skip.
FirstSteps(from, to, own) ==
  {wire \in Changes(from, to) \cap own :
     \A other \in Changes(from, to) \cap own : Factor(to, wire) <= Factor(to, other)}

\* What the first step or more, in their order, make of `from'.
Partway(from, to) ==
  {(from \ done) \cup (done \ from) :
     done \in {wires \in SUBSET Changes(from, to) :
                /\ wires # {}
                /\ \A wire \in wires, other \in Changes(from, to) \ wires :
                     Factor(to, wire) <= Factor(to, other)}}

\* lastConfigs.<wire> = relaysConfig.<wire>
Flip(on, wire) == IF wire \in on THEN on \ {wire} ELSE on \cup {wire}

=============================================================================
