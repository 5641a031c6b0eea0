---------------------------- MODULE SchemeWorker ----------------------------
(***************************************************************************)
(* The life of the temperature worker: Scheme::run() and OffLoop, driven   *)
(* by the settings, the health of the temperature sensor, the performance  *)
(* test and the software update.                                           *)
(*                                                                         *)
(* What the control loops do with the relays stage by stage is TempLoops;  *)
(* here a loop is one location, "active", that may send relays and whose   *)
(* own waits end in bounded time.  Three waits have no deadline and are    *)
(* kept apart: OffLoop, the vacation loop when the temperature is within   *)
(* the vacation range, and the wait of sendRelays() for the other scheme.  *)
(***************************************************************************)
EXTENDS WorkerSend

CONSTANTS
  PerfTests,    \* BOOLEAN: a performance test may be started and reverted
  Updates,      \* BOOLEAN: a software update may start, and fail
  SensorFails   \* BOOLEAN: a working temperature sensor may fail

ASSUME SwitchesAssumption ==
  PerfTests \in BOOLEAN /\ Updates \in BOOLEAN /\ SensorFails \in BOOLEAN

VARIABLES
  mode,      \* what run() will select
  healthy,   \* DeviceController.temperatureSensorHealth
  updating   \* Scheme::mRestarting

vars == <<stopWork, pc, listening, woken, armed, queued, main,
          wantOn, lastOn, boardOn, canSend, force, after, copied, exits, claimed, leftOn, crossed,
          mode, healthy, updating>>

settings == <<mode, healthy, updating>>
svars == <<sendVars, settings>>

\* "Active" is every mode whose loop waits with a deadline, or, as OffLoop with a system
\* type that is not known, not at all.
Modes == {"Off", "Vacation", "Active"}

WorkerPC == CommonPC \cup SendPC \cup
  {"dispatch", "toOff", "off", "toVacation", "vacation", "active", "clear", "cleared", "rest"}

TypeOK ==
  /\ ThreadTypeOK(WorkerPC)
  /\ SendTypeOK(WorkerPC)
  /\ mode \in Modes
  /\ healthy \in BOOLEAN
  /\ updating \in BOOLEAN

Init ==
  /\ ThreadInit
  /\ SendInit
  /\ mode \in Modes
  /\ healthy = FALSE
  /\ updating = FALSE

-----------------------------------------------------------------------------
(***************************************************************************)
(* Main thread.                                                            *)
(***************************************************************************)

\* systemModeChanged, isVacationChanged, systemTypeChanged, scheduleChanged: restart with
\* what run() will then select, which may be the same.
ModeChanged ==
  /\ mode' \in Modes
  /\ RestartWork(FALSE)
  /\ UNCHANGED <<sendVars, healthy, updating>>

\* onTemperatureSensorStatus(status), called when the status differs.  Scheme::stop()
\* leaves mRestarting, and the relays, as they are.
SensorStatus ==
  /\ healthy => SensorFails
  /\ healthy' = ~healthy
  /\ RunScheme(~healthy)
  /\ UNCHANGED <<sendVars, mode, updating>>

\* doPerfTest() and revertPerfTest(): the effective mode changes, the restart is forced.
PerfTest ==
  /\ PerfTests
  /\ mode' \in Modes
  /\ RestartWork(TRUE)
  /\ UNCHANGED <<sendVars, healthy, updating>>

\* moveToUpdatingMode(), on System::systemUpdating.
MoveToUpdatingMode ==
  /\ Updates /\ main = "idle"
  /\ updating' = TRUE
  /\ UNCHANGED <<tvars, sendVars, mode, healthy>>

\* mUpdatingTimer: the restart of the application did not come within ten seconds.  It may
\* also never come back: stop() stops that timer.
UpdatingTimeout ==
  /\ updating /\ main = "idle"
  /\ updating' = FALSE
  /\ UNCHANGED <<tvars, sendVars, mode, healthy>>

Main ==
  \/ (RestartWaitOver \/ RestartedSlot \/ StopWaitOver) /\ UNCHANGED svars
  \/ ModeChanged
  \/ SensorStatus
  \/ PerfTest
  \/ MoveToUpdatingMode
  \/ UpdatingTimeout

-----------------------------------------------------------------------------
(***************************************************************************)
(* Worker: run().                                                          *)
(***************************************************************************)

\* Mutant of CheckStop: a request to stop makes the worker pause instead of leaving run().
CheckStopPauses ==
  \/ GoTo("start", "check")
  \/ GoTo("check", IF stopWork THEN "rest" ELSE "dispatch")

\* while (!stopWork)
CheckStop ==
  \/ GoTo("start", "check")
  \/ GoTo("check", IF stopWork THEN "return" ELSE "dispatch")

\* The vacation and the mode are read.
Dispatch ==
  GoTo("dispatch", CASE mode = "Vacation" -> "toVacation"
                     [] mode = "Off" -> "toOff"
                     [] mode = "Active" -> "active")

\* OffLoop: waitLoop(-1, ctMode).
EnterOffLoop == EnterWait("toOff", "off")
LeaveOffLoop == woken /\ LeaveWait("off", "clear")

\* VacationLoop within the range: waitLoop(-1).
EnterVacation == EnterWait("toVacation", "vacation")
LeaveVacation == woken /\ LeaveWait("vacation", "clear")

\* A change of temperature also ends the vacation wait.
TemperatureChanged == LeaveWait("vacation", "clear")

\* A control loop changes its relays: an operation on the Relay object and sendRelays().
Energise == \E on \in BOOLEAN : ~stopWork /\ Send("active", on, FALSE, "active")

\* A control loop ends: its target is reached, or it saw stopWork.
LoopDone == ~stopWork /\ GoTo("active", "clear")
LoopStopped == stopWork /\ GoTo("active", "clear")

\* Mutant of ClearRelays: sendRelays() is not forced, so it refuses while stopWork is up.
ClearRelaysUnforced ==
  \/ ~updating /\ Send("clear", FALSE, FALSE, "cleared")
  \/ /\ updating
     /\ GoTo("clear", "cleared")
     /\ leftOn' = (leftOn \/ boardOn)
     /\ UNCHANGED <<wantOn, lastOn, boardOn, canSend, callVars, claimed, crossed>>

\* After every loop all relays go off, unless the system is about to restart.
ClearRelays ==
  \/ ~updating /\ Send("clear", FALSE, TRUE, "cleared")
  \/ /\ updating
     /\ GoTo("clear", "cleared")
     /\ leftOn' = (leftOn \/ boardOn)
     /\ UNCHANGED <<wantOn, lastOn, boardOn, canSend, callVars, claimed, crossed>>

\* if (stopWork) break; then half a second and ten seconds of rest.
AfterClear == GoTo("cleared", IF stopWork THEN "return" ELSE "rest")
Rest == GoTo("rest", "check")

RunBody ==
  \/ CheckStop
  \/ Dispatch
  \/ EnterOffLoop
  \/ LeaveOffLoop
  \/ EnterVacation
  \/ LeaveVacation
  \/ LoopStopped
  \/ AfterClear
  \/ Rest
  \/ ReturnFromRun

\* What the worker does by itself, whatever the temperature does.
Worker ==
  \/ RunBody /\ UNCHANGED svars
  \/ (ClearRelays \/ SendRelays \/ StoppedWithRelays) /\ UNCHANGED settings

Climate ==
  \/ (TemperatureChanged \/ LoopDone) /\ UNCHANGED svars
  \/ Energise /\ UNCHANGED settings

\* What else happens on the board.
Senders == (EmitStep \/ OtherCalls) /\ UNCHANGED settings

Next == Main \/ Worker \/ Climate \/ Senders

Spec == Init /\ [][Next]_vars

(***************************************************************************)
(* The worker thread is scheduled and its timed waits end; the main thread *)
(* comes back from its waits, and its event loop delivers, in posting      *)
(* order and so whatever else keeps arriving, the slots posted to it.  The *)
(* other scheme's call, once it has claimed the board, has only timed      *)
(* waits left before it releases it, unless its worker is terminated.      *)
(***************************************************************************)
Fairness ==
  /\ WF_vars(Worker)
  /\ WF_vars((RestartWaitOver \/ StopWaitOver) /\ UNCHANGED svars)
  /\ SF_vars(RestartedSlot /\ UNCHANGED svars)
  /\ \A p \in Others : SF_vars(OtherReleases(p) /\ UNCHANGED settings)

FairSpec == Spec /\ Fairness

-----------------------------------------------------------------------------
(***************************************************************************)
(* Properties.                                                             *)
(***************************************************************************)

\* A running worker that was told to leave, other than by stop(), has a restart
\* waiting for it: no request to stop outlives the connection that undoes it.
RestartArmed ==
  pc # "dead" /\ stopWork /\ main # "stopping" => armed > 0

\* The worker sits in a wait without deadline, was told to leave, and was not woken:
\* the signal was emitted between its test of stopWork and its waitLoop.
Missed == pc \in {"off", "vacation"} /\ stopWork /\ ~woken

\* A request to leave is honoured, or withdrawn, unless the signal was missed or the worker
\* waits to send for a release that nobody will make.
StopHonoured ==
  (pc # "dead" /\ stopWork) ~> (pc = "dead" \/ ~stopWork \/ Missed \/ Abandoned)

\* A thread that finished with a restart armed runs again.
FinishedIsRestarted == queued > 0 ~> (pc # "dead" /\ ~stopWork)

\* Where the worker may stay for ever the relays are off, unless terminate() or an update
\* mode has left them on, or the call of another sender has come between, since the worker
\* last set them: it recorded, skipped or put back a configuration that has them.
QuietWaitRelaysOff == pc \in {"off", "vacation"} /\ boardOn => leftOn \/ crossed

=============================================================================
