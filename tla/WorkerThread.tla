---------------------------- MODULE WorkerThread ----------------------------
(***************************************************************************)
(* The half of a scheme (BaseScheme and its two subclasses) that lives in  *)
(* the main thread, and the QThread under it.                              *)
(*                                                                         *)
(* A scheme is a QThread: the object belongs to the main thread, run() is  *)
(* the worker.  The two share stopWork, a plain bool.  The main thread     *)
(* asks for a restart by arming a single-shot connection on finished() and *)
(* raising stopWork; the worker is expected to leave run(), its finished() *)
(* posts the connected slot to the main thread, and the slot starts the    *)
(* thread again.  The worker learns of the request in two ways: it tests   *)
(* stopWork, and the QEventLoop of a waitLoop that includes ctMode is      *)
(* connected to stopWorkRequested.  A signal emitted while no such loop    *)
(* exists reaches nobody.                                                  *)
(*                                                                         *)
(* The body of run() is the business of the modules that extend this one.  *)
(***************************************************************************)
EXTENDS Naturals

CONSTANT MaxPending    \* bound on the restart connections alive at one time

ASSUME MaxPendingAssumption == MaxPending \in Nat \ {0}

VARIABLES
  stopWork,    \* BaseScheme::stopWork
  pc,          \* where the worker is; "dead" when the thread does not run
  listening,   \* the worker's current event loop is connected to stopWorkRequested
  woken,       \* an exit has been posted to that event loop
  armed,       \* single-shot connections on finished() not yet fired
  queued,      \* restart slots posted to the main thread, not yet run
  main         \* what the main thread is doing inside a call on the scheme

tvars == <<stopWork, pc, listening, woken, armed, queued, main>>

MainPC == {"idle", "restarting", "stopping"}

\* The worker's locations every scheme has.
CommonPC == {"dead", "start", "check", "return"}

ThreadTypeOK(PC) ==
  /\ stopWork \in BOOLEAN
  /\ pc \in PC
  /\ listening \in BOOLEAN
  /\ woken \in BOOLEAN
  /\ armed \in 0 .. MaxPending
  /\ queued \in 0 .. MaxPending
  /\ main \in MainPC

ThreadInit ==
  /\ stopWork = TRUE
  /\ pc = "dead"
  /\ listening = FALSE
  /\ woken = FALSE
  /\ armed = 0
  /\ queued = 0
  /\ main = "idle"

-----------------------------------------------------------------------------
(***************************************************************************)
(* Main thread.                                                            *)
(***************************************************************************)

\* stopWork = true; emit stopWorkRequested().
RaiseStop ==
  /\ stopWork' = TRUE
  /\ woken' = (woken \/ listening)

\* QThread::start() after stopWork = false; start() on a running thread does nothing.
StartThread ==
  /\ stopWork' = FALSE
  /\ pc' = IF pc = "dead" THEN "start" ELSE pc

\* Mutant of RestartWork: the flag is raised and no connection is made.
RestartWorkUnarmed(force) ==
  /\ main = "idle"
  /\ IF pc = "dead" THEN force /\ StartThread /\ UNCHANGED woken
                    ELSE RaiseStop /\ UNCHANGED pc
  /\ UNCHANGED <<listening, armed, queued, main>>

\* restartWork(force), up to the wait for the thread.
RestartWork(force) ==
  /\ main = "idle"
  /\ \/ /\ pc # "dead" /\ stopWork          \* a restart is already in progress
        /\ UNCHANGED tvars
     \/ /\ pc # "dead" /\ ~stopWork
        /\ armed + queued < MaxPending
        /\ armed' = armed + 1
        /\ RaiseStop
        /\ main' = "restarting"
        /\ UNCHANGED <<pc, listening, queued>>
     \/ /\ pc = "dead" /\ force
        /\ StartThread
        /\ UNCHANGED <<listening, woken, armed, queued, main>>
     \/ /\ pc = "dead" /\ ~force            \* "trying to start before main start"
        /\ UNCHANGED tvars

\* wait(1000 ms) comes back: the thread has finished, or the time is over.
RestartWaitOver ==
  /\ main = "restarting"
  /\ main' = "idle"
  /\ UNCHANGED <<stopWork, pc, listening, woken, armed, queued>>

\* Mutant of RestartedSlot: start() without stopWork = false.
RestartedSlotKeepsStop ==
  /\ main = "idle"
  /\ queued > 0
  /\ queued' = queued - 1
  /\ pc' = IF pc = "dead" THEN "start" ELSE pc
  /\ UNCHANGED <<stopWork, listening, woken, armed, main>>

\* The slot connected to finished() runs in the main thread.
RestartedSlot ==
  /\ main = "idle"
  /\ queued > 0
  /\ queued' = queued - 1
  /\ StartThread
  /\ UNCHANGED <<listening, woken, armed, main>>

\* stop(): raise the flag, terminate(), and wait without a deadline.
StopScheme ==
  /\ main = "idle"
  /\ RaiseStop
  /\ main' = IF pc = "dead" THEN "idle" ELSE "stopping"
  /\ UNCHANGED <<pc, listening, armed, queued>>

StopWaitOver ==
  /\ main = "stopping"
  /\ pc = "dead"
  /\ main' = "idle"
  /\ UNCHANGED <<stopWork, pc, listening, woken, armed, queued>>

\* runTemperatureScheme(status) and runHumidityScheme(status).
RunScheme(status) ==
  IF status
  THEN IF pc = "dead" THEN RestartWork(TRUE) ELSE main = "idle" /\ UNCHANGED tvars
  ELSE StopScheme

-----------------------------------------------------------------------------
(***************************************************************************)
(* QThread, seen from the worker.                                          *)
(***************************************************************************)

\* The thread ends and emits finished(): every armed connection is spent and
\* its slot posted to the main thread.
ThreadFinished ==
  /\ pc' = "dead"
  /\ queued' = queued + armed
  /\ armed' = 0
  /\ listening' = FALSE
  /\ woken' = FALSE
  /\ UNCHANGED <<stopWork, main>>

\* run() returns.
ReturnFromRun == pc = "return" /\ ThreadFinished

\* terminate() reaches the thread wherever it is.
Terminated == main = "stopping" /\ pc # "dead" /\ ThreadFinished

\* The worker moves on without touching what it shares with the main thread.
GoTo(from, to) ==
  /\ pc = from
  /\ pc' = to
  /\ UNCHANGED <<stopWork, listening, woken, armed, queued, main>>

\* waitLoop(..., ctMode): the signal is connected to the loop, then the loop runs.
EnterWait(from, to) ==
  /\ pc = from
  /\ pc' = to
  /\ listening' = TRUE
  /\ woken' = FALSE
  /\ UNCHANGED <<stopWork, armed, queued, main>>

\* The event loop leaves exec(): the connection dies with the loop.
LeaveWait(from, to) ==
  /\ pc = from
  /\ pc' = to
  /\ listening' = FALSE
  /\ woken' = FALSE
  /\ UNCHANGED <<stopWork, armed, queued, main>>

-----------------------------------------------------------------------------
\* No request is counted twice on its way from restartWork() to its slot: a connection
\* on finished() is spent when it fires.
PendingBounded == armed + queued <= MaxPending

=============================================================================
