------------------------- MODULE SchemeWorkerProofs -------------------------
(***************************************************************************)
(* What TLAPS proves of the temperature worker, for every MaxPending, any  *)
(* set of other senders and every choice of the switches.                  *)
(***************************************************************************)
EXTENDS SchemeWorker, TLAPS

\* The type invariant in parts, the counters of the thread and the rest: the one is proved
\* by arithmetic, the others by propositional reasoning.  TypeOK is not inductive by
\* itself: when the thread finishes, the armed connections join the queued slots, so their
\* sum must be bounded.
Counters ==
  /\ armed \in 0 .. MaxPending
  /\ queued \in 0 .. MaxPending
  /\ armed + queued <= MaxPending

Flags ==
  /\ stopWork \in BOOLEAN
  /\ pc \in WorkerPC
  /\ listening \in BOOLEAN
  /\ woken \in BOOLEAN
  /\ main \in MainPC

SendTypes == SendTypeOK(WorkerPC)

SchemeTypes ==
  /\ mode \in Modes
  /\ healthy \in BOOLEAN
  /\ updating \in BOOLEAN

TypeInv == Counters /\ Flags /\ SendTypes /\ SchemeTypes

\* The types hold when the worker has been made.
LEMMA InitTypeInv == Init => TypeInv
<1> SUFFICES ASSUME Init PROVE TypeInv
  OBVIOUS
<1>1. Counters
  BY MaxPendingAssumption DEF MaxPendingAssumption, Init, ThreadInit, Counters
<1>2. Flags /\ SchemeTypes
  BY DEF Init, ThreadInit, Flags, SchemeTypes, WorkerPC, CommonPC, MainPC
<1>3. SendTypes
  BY DEF Init, SendInit, SendTypes, SendTypeOK, WorkerPC, CommonPC
<1> QED BY <1>1, <1>2, <1>3 DEF TypeInv

\* What a step does to the restarts: one more is armed while there is room, a slot runs, or
\* the thread ends and posts a slot for each.
RestartArms == armed + queued < MaxPending /\ armed' = armed + 1 /\ queued' = queued
SlotRuns == queued > 0 /\ armed' = armed /\ queued' = queued - 1
ThreadEnds == armed' = 0 /\ queued' = queued + armed

LEMMA PendingSteps ==
  ASSUME [Next]_vars
  PROVE  UNCHANGED <<armed, queued>> \/ RestartArms \/ SlotRuns \/ ThreadEnds
<1> USE DEF RestartArms, SlotRuns, ThreadEnds, tvars
<1>1. \A f : RestartWork(f) => UNCHANGED <<armed, queued>> \/ RestartArms
  BY DEF RestartWork
<1>2. CASE Main
  BY <1>1, <1>2
  DEF Main, ModeChanged, SensorStatus, RunScheme, StopScheme, PerfTest, MoveToUpdatingMode,
      UpdatingTimeout, RestartWaitOver, RestartedSlot, StopWaitOver
<1>3. CASE RunBody \/ TemperatureChanged \/ LoopDone \/ StoppedWithRelays
  BY <1>3
  DEF RunBody, ReturnFromRun, StoppedWithRelays, Terminated, ThreadFinished,
      CheckStop, Dispatch, EnterOffLoop, LeaveOffLoop, EnterVacation, LeaveVacation,
      TemperatureChanged, LoopDone, LoopStopped, AfterClear, Rest, GoTo, EnterWait, LeaveWait
<1>4. CASE ClearRelays \/ Energise \/ SendRelays
  BY <1>4
  DEF ClearRelays, Energise, Send, SendRelays, BeginSend, TestCanSend, EnterSendWait,
      WaitGranted, WaitAborted, Claim, SendDone, SendCut, Return, GoTo
<1>5. CASE EmitStep \/ OtherCalls
  BY <1>5
  DEF EmitStep, OtherCalls, OtherClaims, OtherEmits, OtherReleases, OtherTerminated,
      RecordsOnly, Emits, FanReleases
<1>6. CASE UNCHANGED vars
  BY <1>6 DEF vars
<1> QED BY <1>2, <1>3, <1>4, <1>5, <1>6 DEF Next, Worker, Climate, Senders

-----------------------------------------------------------------------------
(***************************************************************************)
(* The steps of sendRelays() and of the other senders, and the types.      *)
(***************************************************************************)

\* Entering a call and leaving it keep the types.
LEMMA SendKeepsTypes ==
  ASSUME Flags, SendTypes, NEW from, NEW on \in BOOLEAN, NEW forced \in BOOLEAN,
         NEW back \in WorkerPC, Send(from, on, forced, back)
  PROVE  Flags' /\ SendTypes'
<1>1. "begin" \in WorkerPC
  BY DEF WorkerPC, SendPC
<1> QED BY <1>1 DEF Send, GoTo, Flags, SendTypes, SendTypeOK

\* The types of what leaving a call resets.
LEMMA NoOwnCallTypes ==
  ASSUME SendTypes, NoOwnCall
  PROVE  /\ force' \in BOOLEAN /\ after' \in WorkerPC /\ copied' \in BOOLEAN
         /\ exits' \in SUBSET {"send", "none"}
  BY DEF NoOwnCall, WorkerPC, CommonPC

\* Each step of the worker's own call keeps the types.
LEMMA CallKeepsTypes ==
  ASSUME Flags, SendTypes, SendRelays
  PROVE  Flags' /\ SendTypes'
<1> USE DEF Flags, SendTypes, SendTypeOK
<1>a. SendPC \subseteq WorkerPC
  BY DEF WorkerPC
<1>b. {"test", "toWait", "waiting", "claim", "steps"} \subseteq WorkerPC
  BY <1>a DEF SendPC
<1>c. \A from : Return(from) => /\ Flags'
                                /\ force' \in BOOLEAN /\ after' \in WorkerPC
                                /\ copied' \in BOOLEAN /\ exits' \in SUBSET {"send", "none"}
  BY NoOwnCallTypes DEF Return, GoTo
<1>1. CASE BeginSend
  <2>1. CASE Return("begin")
    BY <1>1, <1>c, <2>1 DEF BeginSend
  <2>2. CASE GoTo("begin", "test") /\ copied' = lastOn /\ UNCHANGED <<force, after, exits>>
    BY <1>1, <1>b, <2>2 DEF BeginSend, GoTo
  <2> QED BY <1>1, <2>1, <2>2 DEF BeginSend
<1>2. CASE TestCanSend \/ EnterSendWait
  <2>1. SendTypes'
    BY <1>2 DEF TestCanSend, EnterSendWait, sendVars
  <2>2. Flags'
    BY <1>2, <1>b DEF TestCanSend, EnterSendWait, GoTo
  <2> QED BY <2>1, <2>2
<1>3. CASE WaitGranted
  BY <1>3, <1>b, <1>c DEF WaitGranted, GoTo
<1>4. CASE WaitAborted
  BY <1>4, NoOwnCallTypes DEF WaitAborted
<1>5. CASE Claim
  BY <1>5, <1>b DEF Claim, GoTo, callVars
<1>6. CASE SendDone \/ SendCut
  BY <1>6, <1>c DEF SendDone, SendCut
<1> QED BY <1>1, <1>2, <1>3, <1>4, <1>5, <1>6 DEF SendRelays

\* So does whatever else happens on the board.
LEMMA OthersKeepTypes ==
  ASSUME Flags, SendTypes, EmitStep \/ OtherCalls
  PROVE  Flags' /\ SendTypes'
<1> USE DEF Flags, SendTypes, SendTypeOK, tvars, callVars
<1>1. CASE EmitStep
  BY <1>1 DEF EmitStep
<1>2. ASSUME NEW p \in Others, OtherClaims(p)
      PROVE  Flags' /\ SendTypes'
  <2>1. claimed' \in SUBSET Others
    BY <1>2 DEF OtherClaims
  <2>2. crossed' \in BOOLEAN /\ lastOn' \in BOOLEAN
    BY <1>2 DEF OtherClaims, Records
  <2> QED BY <1>2, <2>1, <2>2 DEF OtherClaims
<1>3. ASSUME NEW p \in Others, OtherTerminated(p)
      PROVE  Flags' /\ SendTypes'
  BY <1>3 DEF OtherTerminated
<1>4. ASSUME NEW p \in Others, OtherReleases(p)
      PROVE  Flags' /\ SendTypes'
  BY <1>4 DEF OtherReleases
<1>5. CASE Emits
  BY <1>5 DEF Emits
<1>6. CASE RecordsOnly
  <2>1. crossed' \in BOOLEAN /\ lastOn' \in BOOLEAN
    BY <1>6 DEF RecordsOnly, Records
  <2> QED BY <1>6, <2>1 DEF RecordsOnly
<1>7. CASE FanReleases
  BY <1>7 DEF FanReleases
<1> QED BY <1>1, <1>2, <1>3, <1>4, <1>5, <1>6, <1>7 DEF OtherCalls, OtherEmits

\* Every step keeps the types and the bound.
LEMMA NextTypeInv == TypeInv /\ [Next]_vars => TypeInv'
<1> SUFFICES ASSUME TypeInv, [Next]_vars PROVE TypeInv'
  OBVIOUS
<1>0. Counters'
  BY PendingSteps, MaxPendingAssumption
  DEF TypeInv, MaxPendingAssumption, Counters, RestartArms, SlotRuns, ThreadEnds
<1> SUFFICES Flags' /\ SendTypes' /\ SchemeTypes'
  BY <1>0 DEF TypeInv
<1>s. UNCHANGED sendVars => SendTypes'
  BY DEF TypeInv, SendTypes, SendTypeOK, sendVars
<1> USE DEF TypeInv, Flags, SchemeTypes, MainPC
<1>a. {"dead", "start", "active", "cleared"} \subseteq WorkerPC
  BY DEF WorkerPC, CommonPC
<1>b. \A f : RestartWork(f) => Flags'
  BY <1>a DEF RestartWork, RaiseStop, StartThread, tvars
<1>1. CASE (RestartWaitOver \/ RestartedSlot \/ StopWaitOver) /\ UNCHANGED svars
  BY <1>1, <1>a, <1>s
  DEF RestartWaitOver, RestartedSlot, StopWaitOver, StartThread, svars, settings
<1>2. CASE ModeChanged \/ PerfTest
  BY <1>2, <1>s, <1>b DEF ModeChanged, PerfTest
<1>3. CASE SensorStatus
  BY <1>3, <1>s, <1>b DEF SensorStatus, RunScheme, StopScheme, RaiseStop, tvars
<1>4. CASE MoveToUpdatingMode \/ UpdatingTimeout
  BY <1>4, <1>s DEF MoveToUpdatingMode, UpdatingTimeout, tvars
<1>5. CASE (RunBody \/ TemperatureChanged \/ LoopDone) /\ UNCHANGED svars
  <2>1. SchemeTypes' /\ SendTypes'
    BY <1>5, <1>s DEF svars, settings
  <2>2. CASE CheckStop \/ Dispatch
    BY <2>1, <2>2 DEF CheckStop, Dispatch, GoTo, Modes, WorkerPC, CommonPC
  <2>3. CASE EnterOffLoop \/ LeaveOffLoop \/ EnterVacation \/ LeaveVacation \/ TemperatureChanged
    BY <2>1, <2>3
    DEF EnterOffLoop, LeaveOffLoop, EnterVacation, LeaveVacation, TemperatureChanged,
        EnterWait, LeaveWait, WorkerPC
  <2>4. CASE LoopDone \/ LoopStopped \/ AfterClear \/ Rest
    BY <2>1, <2>4 DEF LoopDone, LoopStopped, AfterClear, Rest, GoTo, WorkerPC, CommonPC
  <2>5. CASE ReturnFromRun
    BY <1>a, <2>1, <2>5 DEF ReturnFromRun, ThreadFinished
  <2> QED BY <1>5, <2>2, <2>3, <2>4, <2>5 DEF RunBody
<1>6. CASE ClearRelays /\ UNCHANGED settings
  <2>1. CASE Send("clear", FALSE, TRUE, "cleared")
    BY <1>6, <2>1, <1>a, SendKeepsTypes DEF settings
  <2>2. CASE ~Send("clear", FALSE, TRUE, "cleared")
    <3>1. Flags' /\ SchemeTypes'
      BY <1>6, <2>2, <1>a DEF ClearRelays, GoTo, settings
    <3>2. leftOn' \in BOOLEAN
      BY <1>6, <2>2 DEF ClearRelays, SendTypes, SendTypeOK
    <3>3. SendTypes'
      BY <1>6, <2>2, <3>2 DEF ClearRelays, SendTypes, SendTypeOK, callVars
    <3> QED BY <3>1, <3>3
  <2> QED BY <1>6, <2>1, <2>2 DEF ClearRelays
<1>7. CASE Energise /\ UNCHANGED settings
  BY <1>7, <1>a, SendKeepsTypes DEF Energise, settings
<1>8. CASE SendRelays /\ UNCHANGED settings
  BY <1>8, CallKeepsTypes DEF settings
<1>9. CASE Senders
  BY <1>9, OthersKeepTypes DEF Senders, settings
<1>10. CASE StoppedWithRelays /\ UNCHANGED settings
  BY <1>10, <1>a, NoOwnCallTypes
  DEF StoppedWithRelays, Terminated, ThreadFinished, SendTypes, SendTypeOK, settings
<1>11. CASE UNCHANGED vars
  BY <1>11 DEF vars, SendTypes, SendTypeOK
<1> QED
  BY <1>1, <1>2, <1>3, <1>4, <1>5, <1>6, <1>7, <1>8, <1>9, <1>10, <1>11
  DEF Next, Main, Worker, Climate

\* The invariant adds a bound on the events to the types.
LEMMA TypeInvMeans == TypeInv <=> TypeOK /\ PendingBounded
  BY DEF TypeInv, Counters, Flags, SendTypes, SchemeTypes, TypeOK, ThreadTypeOK, PendingBounded

\* Every state of the temperature worker is well typed, whatever the settings, the sensor,
\* the performance test, the update and the other senders do, and in whichever order.
THEOREM TypeCorrect == Spec => []TypeOK
<1>1. TypeInv => TypeOK
  BY TypeInvMeans
<1> QED BY <1>1, InitTypeInv, NextTypeInv, PTL DEF Spec

-----------------------------------------------------------------------------
(***************************************************************************)
(* RestartArmed.  Whoever raises stopWork on a running worker, other than  *)
(* stop(), arms a connection in the same step; connections are only spent  *)
(* by the end of the thread; and the slot that starts the thread again     *)
(* lowers stopWork.  The invariant is inductive together with the types.   *)
(***************************************************************************)

\* restartWork() on a running worker arms, or finds armed, what undoes it.
LEMMA RestartWorkArmed ==
  ASSUME NEW f, Counters, RestartArmed, RestartWork(f)
  PROVE  RestartArmed'
<1>1. CASE UNCHANGED tvars
  BY <1>1 DEF RestartArmed, tvars
<1>2. CASE armed' = armed + 1
  <2>1. armed' > 0
    BY <1>2, MaxPendingAssumption DEF MaxPendingAssumption, Counters
  <2> QED BY <2>1 DEF RestartArmed
<1>3. CASE StartThread
  BY <1>3 DEF StartThread, RestartArmed
<1> QED BY <1>1, <1>2, <1>3 DEF RestartWork

\* stop() marks the main thread as stopping before the worker can be seen without a restart.
LEMMA StopSchemeArmed ==
  ASSUME RestartArmed, StopScheme
  PROVE  RestartArmed'
  BY DEF StopScheme, RestartArmed

\* The restart that an aborted wait asks for in the worker's thread is armed there.
LEMMA SendRelaysArmed ==
  ASSUME Counters, RestartArmed, SendRelays
  PROVE  RestartArmed'
<1>1. CASE WaitAborted
  <2>1. CASE stopWork
    BY <1>1, <2>1 DEF WaitAborted, RestartArmed
  <2>2. CASE ~stopWork
    <3>1. armed' = armed + 1
      BY <1>1, <2>2 DEF WaitAborted
    <3>2. armed' > 0
      BY <3>1, MaxPendingAssumption DEF MaxPendingAssumption, Counters
    <3> QED BY <3>2 DEF RestartArmed
  <2> QED BY <2>1, <2>2
<1>2. CASE ~WaitAborted
  BY <1>2
  DEF SendRelays, BeginSend, TestCanSend, EnterSendWait, WaitGranted, Claim, SendDone,
      SendCut, Return, GoTo, RestartArmed
<1> QED BY <1>1, <1>2

\* Every step keeps the restart armed.
LEMMA NextArmed == TypeInv /\ RestartArmed /\ [Next]_vars => RestartArmed'
<1> SUFFICES ASSUME TypeInv, RestartArmed, [Next]_vars PROVE RestartArmed'
  OBVIOUS
<1> USE DEF TypeInv
<1>1. CASE RestartWaitOver \/ RestartedSlot \/ StopWaitOver
  BY <1>1 DEF RestartWaitOver, RestartedSlot, StopWaitOver, StartThread, RestartArmed
<1>2. CASE ModeChanged \/ PerfTest
  BY <1>2, RestartWorkArmed DEF ModeChanged, PerfTest
<1>3. CASE SensorStatus
  <2>1. CASE RestartWork(TRUE)
    BY <2>1, RestartWorkArmed
  <2>2. CASE StopScheme
    BY <2>2, StopSchemeArmed
  <2>3. CASE UNCHANGED tvars
    BY <2>3 DEF RestartArmed, tvars
  <2> QED BY <1>3, <2>1, <2>2, <2>3 DEF SensorStatus, RunScheme
<1>4. CASE MoveToUpdatingMode \/ UpdatingTimeout
  BY <1>4 DEF MoveToUpdatingMode, UpdatingTimeout, RestartArmed, tvars
<1>5. CASE RunBody \/ TemperatureChanged \/ LoopDone
  <2>1. CASE ReturnFromRun
    BY <2>1 DEF ReturnFromRun, ThreadFinished, RestartArmed
  <2>2. CASE ~ReturnFromRun
    BY <1>5, <2>2
    DEF RunBody, LoopDone, TemperatureChanged, CheckStop, Dispatch, EnterOffLoop,
        LeaveOffLoop, EnterVacation, LeaveVacation, LoopStopped, AfterClear, Rest,
        GoTo, EnterWait, LeaveWait, RestartArmed
  <2> QED BY <2>1, <2>2
<1>6. CASE ClearRelays \/ Energise
  BY <1>6 DEF ClearRelays, Energise, Send, GoTo, RestartArmed
<1>7. CASE SendRelays
  BY <1>7, SendRelaysArmed
<1>8. CASE Senders
  BY <1>8
  DEF Senders, EmitStep, OtherCalls, OtherClaims, OtherEmits, OtherReleases, OtherTerminated,
      RecordsOnly, Emits, FanReleases, RestartArmed, tvars
<1>9. CASE StoppedWithRelays
  BY <1>9 DEF StoppedWithRelays, Terminated, ThreadFinished, RestartArmed
<1>10. CASE UNCHANGED vars
  BY <1>10 DEF RestartArmed, vars
<1> QED
  BY <1>1, <1>2, <1>3, <1>4, <1>5, <1>6, <1>7, <1>8, <1>9, <1>10
  DEF Next, Main, Worker, Climate

\* A running worker that has been told to leave, by whatever but stop(), will be started
\* again: no interleaving of settings, slots, waits and senders separates the flag from the
\* connection that lowers it.
THEOREM RestartIsArmed == Spec => []RestartArmed
<1>1. Init => RestartArmed
  BY DEF Init, ThreadInit, RestartArmed
<1> QED BY <1>1, InitTypeInv, NextTypeInv, NextArmed, PTL DEF Spec

-----------------------------------------------------------------------------
(***************************************************************************)
(* QuietWaitRelaysOff.  While no other sender has come between and nothing *)
(* was left on, the code's record covers the board, except between the     *)
(* claim of the worker's own call and its last step; and the calls that    *)
(* lead to a quiet wait are forced and want everything off.                *)
(***************************************************************************)

Settled == ~leftOn /\ ~crossed

\* Where a relay may be on without an excuse.
MayBeOn == {"active", "clear"} \cup SendPC

CallInv ==
  pc \in SendPC =>
    /\ after \in {"active", "cleared"}
    /\ after = "cleared" => force /\ ~wantOn

RecordInv ==
  /\ boardOn /\ pc # "steps" => lastOn
  /\ boardOn /\ pc \in {"test", "toWait", "waiting", "claim"} => copied
  /\ pc = "steps" => lastOn = wantOn /\ (boardOn => copied \/ wantOn)
  /\ boardOn => pc \in MayBeOn

QuietInv == CallInv /\ (Settled => RecordInv)

\* The board and its record stay what they were, and the worker goes to a place that is no
\* more demanding.
LEMMA MoveKeeps ==
  ASSUME QuietInv, UNCHANGED sendVars, pc' \notin SendPC, pc \notin SendPC,
         pc \in MayBeOn => pc' \in MayBeOn
  PROVE  QuietInv'
  BY DEF QuietInv, CallInv, RecordInv, Settled, sendVars, SendPC

\* Entering the call.
LEMMA SendKeeps ==
  ASSUME QuietInv, NEW on \in BOOLEAN, NEW forced \in BOOLEAN, NEW from, NEW back,
         from \notin SendPC, back \in {"active", "cleared"},
         back = "cleared" => forced /\ ~on,
         Send(from, on, forced, back)
  PROVE  QuietInv'
  BY DEF QuietInv, CallInv, RecordInv, Settled, Send, GoTo, SendPC, MayBeOn

\* The steps of the worker's own call.
LEMMA CallKeeps ==
  ASSUME TypeOK, QuietInv, SendRelays
  PROVE  QuietInv'
<1> USE DEF QuietInv, CallInv, RecordInv, Settled, SendPC, MayBeOn
<1>t. /\ wantOn \in BOOLEAN /\ lastOn \in BOOLEAN /\ boardOn \in BOOLEAN /\ copied \in BOOLEAN
      /\ leftOn \in BOOLEAN /\ crossed \in BOOLEAN /\ force \in BOOLEAN
  BY DEF TypeOK, SendTypeOK
<1>1. CASE BeginSend
  <2>1. CASE Return("begin")
    BY <1>1, <2>1, <1>t DEF BeginSend, Return, NoOwnCall, GoTo, Refused
  <2>2. CASE ~Return("begin")
    BY <1>1, <2>2, <1>t DEF BeginSend, GoTo
  <2> QED BY <2>1, <2>2
<1>2. CASE TestCanSend
  BY <1>2, <1>t DEF TestCanSend, GoTo, sendVars
<1>3. CASE EnterSendWait
  BY <1>3, <1>t DEF EnterSendWait, GoTo, sendVars
<1>4. CASE WaitGranted
  <2>1. CASE Refused
    BY <1>4, <2>1, <1>t DEF WaitGranted, Refused, Return, NoOwnCall, GoTo
  <2>2. CASE ~Refused
    BY <1>4, <2>2, <1>t DEF WaitGranted, GoTo
  <2> QED BY <2>1, <2>2
<1>5. CASE WaitAborted
  BY <1>5, <1>t DEF WaitAborted, NoOwnCall
<1>6. CASE Claim
  BY <1>6, <1>t DEF Claim, GoTo, callVars
<1>7. CASE SendDone
  <2>1. CASE copied # wantOn /\ lastOn = wantOn
    BY <1>7, <2>1, <1>t DEF SendDone, Return, NoOwnCall, GoTo
  <2>2. CASE ~(copied # wantOn /\ lastOn = wantOn)
    <3>1. leftOn' = leftOn /\ crossed' = crossed
      BY <1>7, <2>2, <1>t DEF SendDone
    <3> QED BY <1>7, <2>2, <3>1, <1>t DEF SendDone, Return, NoOwnCall, GoTo
  <2> QED BY <2>1, <2>2
<1>8. CASE SendCut
  BY <1>8, <1>t DEF SendCut, MayStep, Return, NoOwnCall, GoTo
<1> QED BY <1>1, <1>2, <1>3, <1>4, <1>5, <1>6, <1>7, <1>8 DEF SendRelays

\* The steps of the others: what they change is noted.
LEMMA OthersKeep ==
  ASSUME TypeOK, QuietInv, EmitStep \/ OtherCalls
  PROVE  QuietInv'
<1> USE DEF QuietInv, CallInv, RecordInv, Settled, SendPC, MayBeOn, tvars, callVars
<1>t. /\ wantOn \in BOOLEAN /\ lastOn \in BOOLEAN /\ boardOn \in BOOLEAN /\ copied \in BOOLEAN
      /\ leftOn \in BOOLEAN /\ crossed \in BOOLEAN
  BY DEF TypeOK, SendTypeOK
<1>1. CASE EmitStep
  BY <1>1, <1>t DEF EmitStep
<1>2. ASSUME NEW p \in Others, OtherClaims(p) \/ OtherTerminated(p)
      PROVE  QuietInv'
  BY <1>2, <1>t DEF OtherClaims, OtherTerminated, Records
<1>3. ASSUME NEW p \in Others, OtherReleases(p)
      PROVE  QuietInv'
  BY <1>3, <1>t DEF OtherReleases
<1>4. CASE Emits
  BY <1>4, <1>t DEF Emits
<1>5. CASE RecordsOnly
  BY <1>5, <1>t DEF RecordsOnly, Records
<1>6. CASE FanReleases
  BY <1>6, <1>t DEF FanReleases
<1> QED BY <1>1, <1>2, <1>3, <1>4, <1>5, <1>6 DEF OtherCalls, OtherEmits

\* What the main thread does with the thread leaves a running worker where it is.
LEMMA MainKeeps ==
  ASSUME QuietInv, UNCHANGED sendVars, pc' = pc \/ (pc = "dead" /\ pc' = "start")
  PROVE  QuietInv'
  BY DEF QuietInv, CallInv, RecordInv, Settled, sendVars, SendPC, MayBeOn

\* Every step keeps the invariant.
LEMMA NextQuiet == TypeOK /\ QuietInv /\ [Next]_vars => QuietInv'
<1> SUFFICES ASSUME TypeOK, QuietInv, [Next]_vars PROVE QuietInv'
  OBVIOUS
<1>t. boardOn \in BOOLEAN /\ leftOn \in BOOLEAN
  BY DEF TypeOK, SendTypeOK
<1>m. mode \in {"Off", "Vacation", "Active"}
  BY DEF TypeOK, Modes
<1>1. CASE (RestartWaitOver \/ RestartedSlot \/ StopWaitOver) /\ UNCHANGED svars
  BY <1>1, MainKeeps DEF RestartWaitOver, RestartedSlot, StopWaitOver, StartThread, svars
<1>2. CASE ModeChanged \/ PerfTest
  BY <1>2, MainKeeps DEF ModeChanged, PerfTest, RestartWork, RaiseStop, StartThread, tvars
<1>3. CASE SensorStatus
  BY <1>3, MainKeeps
  DEF SensorStatus, RunScheme, RestartWork, RaiseStop, StartThread, StopScheme, tvars
<1>4. CASE MoveToUpdatingMode \/ UpdatingTimeout
  BY <1>4, MainKeeps DEF MoveToUpdatingMode, UpdatingTimeout, tvars
<1>5. CASE (RunBody \/ TemperatureChanged \/ LoopDone) /\ UNCHANGED svars
  <2> DEFINE Moves == /\ pc \notin SendPC /\ pc' \notin SendPC
                      /\ pc \in MayBeOn => pc' \in MayBeOn
  <2>1. ReturnFromRun => Moves
    BY DEF ReturnFromRun, ThreadFinished, SendPC, MayBeOn
  <2>2. Dispatch => Moves
    <3>1. Dispatch => pc = "dispatch" /\ pc' \in {"toVacation", "toOff", "active"}
      BY <1>m DEF Dispatch, GoTo
    <3> QED BY <3>1 DEF SendPC, MayBeOn
  <2>3. (CheckStop \/ AfterClear \/ Rest) => Moves
    BY DEF CheckStop, AfterClear, Rest, GoTo, SendPC, MayBeOn
  <2>4. (EnterOffLoop \/ EnterVacation) => Moves
    BY DEF EnterOffLoop, EnterVacation, EnterWait, SendPC, MayBeOn
  <2>5. (LeaveOffLoop \/ LeaveVacation \/ TemperatureChanged) => Moves
    BY DEF LeaveOffLoop, LeaveVacation, TemperatureChanged, LeaveWait, SendPC, MayBeOn
  <2>6. (LoopStopped \/ LoopDone) => Moves
    BY DEF LoopStopped, LoopDone, GoTo, SendPC, MayBeOn
  <2>7. Moves
    BY <1>5, <2>1, <2>2, <2>3, <2>4, <2>5, <2>6 DEF RunBody
  <2> QED BY <1>5, <2>7, MoveKeeps DEF svars
<1>6. CASE ClearRelays
  <2>1. CASE Send("clear", FALSE, TRUE, "cleared")
    BY <2>1, SendKeeps DEF SendPC
  <2>2. CASE ~Send("clear", FALSE, TRUE, "cleared")
    <3>1. /\ pc = "clear" /\ pc' = "cleared" /\ leftOn' = (leftOn \/ boardOn)
          /\ UNCHANGED <<wantOn, lastOn, boardOn, copied, force, after, crossed>>
      BY <1>6, <2>2 DEF ClearRelays, GoTo, callVars
    <3>2. CallInv'
      BY <3>1 DEF CallInv, SendPC
    <3>3. Settled' => RecordInv'
      BY <3>1, <1>t DEF QuietInv, RecordInv, Settled, SendPC
    <3> QED BY <3>2, <3>3 DEF QuietInv
  <2> QED BY <2>1, <2>2
<1>7. CASE Energise
  BY <1>7, SendKeeps DEF Energise, SendPC
<1>8. CASE SendRelays \/ Senders
  BY <1>8, CallKeeps, OthersKeep DEF Senders
<1>9. CASE StoppedWithRelays
  BY <1>9, <1>t
  DEF StoppedWithRelays, Terminated, ThreadFinished, NoOwnCall, QuietInv, CallInv, RecordInv,
      Settled, SendPC, MayBeOn
<1>10. CASE UNCHANGED vars
  BY <1>10 DEF vars, QuietInv, CallInv, RecordInv, Settled
<1> QED
  BY <1>1, <1>2, <1>3, <1>4, <1>5, <1>6, <1>7, <1>8, <1>9, <1>10
  DEF Next, Main, Worker, Climate

\* The worker sits in OffLoop or in the quiet vacation wait, from which only a request wakes
\* it, with a relay energised only if terminate() or an update mode has left it on, or
\* another sender's call has come between: whatever the other senders do, and when.
THEOREM QuietWaits == Spec => []QuietWaitRelaysOff
<1>1. Init => QuietInv
  BY DEF Init, ThreadInit, SendInit, QuietInv, CallInv, RecordInv, SendPC
<1>2. TypeOK /\ QuietInv /\ [Next]_vars => QuietInv'
  BY NextQuiet
<1>3. QuietInv => QuietWaitRelaysOff
  BY DEF QuietInv, RecordInv, Settled, MayBeOn, SendPC, QuietWaitRelaysOff
<1> QED BY <1>1, <1>2, <1>3, TypeCorrect, PTL DEF Spec

=============================================================================
