---------------------------- MODULE MCTempLoops ----------------------------
(***************************************************************************)
(* Setups and temperatures for the runs of TempLoops.                      *)
(***************************************************************************)
EXTENDS TempLoops

Setup(type, cool, heat) ==
  [type |-> type, coolStage |-> cool, heatStage |-> heat, auxiliary |-> FALSE,
   parallel |-> FALSE, auxAndE |-> FALSE, driveAux |-> FALSE, heatPumpOBState |-> 0]

\* The reversing valve is switched on for heating.
ValveOnHeating(setup0) == [setup0 EXCEPT !.heatPumpOBState = 1]

WithAux(setup0, parallel, auxAndE, driveAux) ==
  [setup0 EXCEPT !.auxiliary = TRUE, !.parallel = parallel, !.auxAndE = auxAndE,
                 !.driveAux = driveAux]

\* Conventional systems, those with one function, heat pumps without and with auxiliary
\* heating, and dual fuel, of every number of stages; the valve on for either direction.
SafetySetups ==
  {Setup("Conventional", 2, 3), Setup("CoolingOnly", 1, 1), Setup("HeatingOnly", 1, 2),
   Setup("HeatPump", 2, 1), ValveOnHeating(Setup("DualFuelHeating", 1, 2)),
   WithAux(Setup("HeatPump", 2, 1), FALSE, FALSE, TRUE),
   WithAux(ValveOnHeating(Setup("HeatPump", 1, 2)), TRUE, TRUE, FALSE)}

\* All stages of the furnace, of the compressor, and the auxiliary heating, for the liveness
\* run.
LiveSetups ==
  {Setup("Conventional", 1, 3), Setup("HeatPump", 2, 1),
   WithAux(Setup("HeatPump", 1, 1), FALSE, TRUE, TRUE)}

\* Beyond every threshold when heating and past the setpoint when cooling; within the range;
\* past the setpoint when heating and in demand when cooling.  What lies between two
\* thresholds only decides when a stage is called, which the timers do in any order.
SafetyExcesses == {-40, 1, 10}

\* In demand, within the range, and past the setpoint, when heating and when cooling.
FewExcesses == {-30, 1, 10}

=============================================================================
