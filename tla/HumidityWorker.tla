--------------------------- MODULE HumidityWorker ---------------------------
(***************************************************************************)
(* The life of the humidity worker: HumidityScheme::run() and the slots on *)
(* the system mode, the vacation and the accessory wiring.                 *)
(*                                                                         *)
(* The main thread's calls are those of WorkerThread.  What differs from   *)
(* the temperature worker: OffLoop also stands for a device without an     *)
(* accessory, it goes straight back to the head of run(), and the slot on  *)
(* the wiring may raise stopWork without arming a restart.  The fan timer  *)
(* is one of the senders on the other scheme's object.                     *)
(***************************************************************************)
EXTENDS WorkerSend

CONSTANTS
  PerfTests,       \* BOOLEAN: a performance test may be started and reverted
  OtherSettings,   \* BOOLEAN: the accessory, the vacation or the schedule may change
  SensorFails      \* BOOLEAN: a working humidity sensor may fail

ASSUME SwitchesAssumption ==
  PerfTests \in BOOLEAN /\ OtherSettings \in BOOLEAN /\ SensorFails \in BOOLEAN

VARIABLES
  off,      \* the effective system mode is Off
  wired,    \* getAccessoriesWireType() # None
  healthy   \* DeviceController.humiditySensorHealth

vars == <<stopWork, pc, listening, woken, armed, queued, main,
          wantOn, lastOn, boardOn, canSend, force, after, copied, exits, claimed, leftOn, crossed,
          off, wired, healthy>>

settings == <<off, wired, healthy>>
hvars == <<sendVars, settings>>

WorkerPC == CommonPC \cup SendPC \cup
  {"dispatch", "toOff", "off", "offLeft", "active", "clear", "forced", "cleared", "rest"}

TypeOK ==
  /\ ThreadTypeOK(WorkerPC)
  /\ SendTypeOK(WorkerPC)
  /\ off \in BOOLEAN
  /\ wired \in BOOLEAN
  /\ healthy \in BOOLEAN

Init ==
  /\ ThreadInit
  /\ SendInit
  /\ off \in BOOLEAN
  /\ wired \in BOOLEAN
  /\ healthy = FALSE

-----------------------------------------------------------------------------
(***************************************************************************)
(* Main thread.                                                            *)
(***************************************************************************)

\* systemModeChanged, isVacationChanged, scheduleChanged.
ModeChanged ==
  /\ off' \in BOOLEAN
  /\ off' = off => OtherSettings          \* a vacation or a schedule, the mode unchanged
  /\ RestartWork(FALSE)
  /\ UNCHANGED <<sendVars, wired, healthy>>

\* accessoriesChanged: without an accessory only the flag is raised, nothing is emitted.
AccessoriesChanged ==
  /\ OtherSettings
  /\ wired' \in BOOLEAN
  /\ IF wired' THEN RestartWork(FALSE)
               ELSE /\ main = "idle"
                    /\ stopWork' = TRUE
                    /\ UNCHANGED <<pc, listening, woken, armed, queued, main>>
  /\ UNCHANGED <<sendVars, off, healthy>>

\* onHumiditySensorStatus(status), called when the status differs.
SensorStatus ==
  /\ healthy => SensorFails
  /\ healthy' = ~healthy
  /\ RunScheme(~healthy)
  /\ UNCHANGED <<sendVars, off, wired>>

\* doPerfTest() and revertPerfTest().
PerfTest ==
  /\ PerfTests
  /\ off' \in BOOLEAN
  /\ RestartWork(TRUE)
  /\ UNCHANGED <<sendVars, wired, healthy>>

Main ==
  \/ (RestartWaitOver \/ RestartedSlot \/ StopWaitOver) /\ UNCHANGED hvars
  \/ ModeChanged
  \/ AccessoriesChanged
  \/ SensorStatus
  \/ PerfTest

-----------------------------------------------------------------------------
(***************************************************************************)
(* Worker: run().                                                          *)
(***************************************************************************)

\* while (!stopWork)
CheckStop ==
  \/ GoTo("start", "check")
  \/ GoTo("check", IF stopWork THEN "return" ELSE "dispatch")

\* No accessory or mode Off: OffLoop; otherwise the vacation or the normal loop.
Dispatch == GoTo("dispatch", IF wired /\ ~off THEN "active" ELSE "toOff")

\* OffLoop: waitLoop(-1, ctMode); then if (stopWork) break; continue.
EnterOffLoop == EnterWait("toOff", "off")
LeaveOffLoop == woken /\ LeaveWait("off", "offLeft")
AfterOffLoop == GoTo("offLeft", IF stopWork THEN "return" ELSE "check")

\* updateAccessoriesRelays() with the wiring of the moment; turnOffAccessoriesRelays() within
\* the vacation range.
Energise == \E on \in {FALSE, wired} : ~stopWork /\ Send("active", on, FALSE, "active")

\* The loop ends: humidity reached, wrong type, cooling; or it saw stopWork.
LoopDone == ~stopWork /\ GoTo("active", "clear")

LoopStopped == stopWork /\ GoTo("active", "clear")

\* Mutant of ClearRelays: the second send is not forced either.
ClearRelaysUnforced ==
  \/ Send("clear", FALSE, FALSE, "forced")
  \/ Send("forced", FALSE, FALSE, "cleared")

\* turnOffAccessoriesRelays(), which sends without force, and sendRelays(true) after it.
ClearRelays ==
  \/ Send("clear", FALSE, FALSE, "forced")
  \/ Send("forced", FALSE, TRUE, "cleared")

AfterClear == GoTo("cleared", IF stopWork THEN "return" ELSE "rest")
Rest == GoTo("rest", "check")

RunBody ==
  \/ CheckStop
  \/ Dispatch
  \/ EnterOffLoop
  \/ LeaveOffLoop
  \/ AfterOffLoop
  \/ LoopStopped
  \/ AfterClear
  \/ Rest
  \/ ReturnFromRun

Worker ==
  \/ RunBody /\ UNCHANGED hvars
  \/ (ClearRelays \/ SendRelays \/ StoppedWithRelays) /\ UNCHANGED settings

Climate ==
  \/ LoopDone /\ UNCHANGED hvars
  \/ Energise /\ UNCHANGED settings

\* What else happens on the board.
Senders == (EmitStep \/ OtherCalls) /\ UNCHANGED settings

Next == Main \/ Worker \/ Climate \/ Senders

Spec == Init /\ [][Next]_vars

\* As for the temperature worker.
Fairness ==
  /\ WF_vars(Worker)
  /\ WF_vars((RestartWaitOver \/ StopWaitOver) /\ UNCHANGED hvars)
  /\ SF_vars(RestartedSlot /\ UNCHANGED hvars)
  /\ \A p \in Others : SF_vars(OtherReleases(p) /\ UNCHANGED settings)

FairSpec == Spec /\ Fairness

-----------------------------------------------------------------------------
(***************************************************************************)
(* Properties.                                                             *)
(***************************************************************************)

\* A restart was asked for and OffLoop was not woken for it: the signal came before the
\* wait.  (A restart slot posted for an earlier request may have lowered stopWork since.)
Missed == pc = "off" /\ armed > 0 /\ ~woken

\* As long as no accessory is taken away, a sensor that stays healthy and a mode that uses the
\* accessory keep the worker in its control loop once the requests to restart end, unless one
\* of them was missed, or the worker waits to send for a release that nobody will make.
Served ==
  []wired /\ <>[](healthy /\ ~off /\ main = "idle") =>
    []<>(pc = "active" \/ Missed \/ Abandoned)

\* The accessory is never left running where the worker may wait for ever, nor by a worker
\* that ends by itself, unless terminate() has left it on, or the call of another sender has
\* come between, since the worker last set it.
AccessoryOff == pc \in {"off", "return"} /\ boardOn => leftOn \/ crossed

=============================================================================
