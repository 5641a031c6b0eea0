------------------------ MODULE HumidityWorkerProofs ------------------------
(***************************************************************************)
(* What TLAPS proves of the humidity worker.                               *)
(***************************************************************************)
EXTENDS HumidityWorker, TLAPS

\* As for the temperature worker: the restarts pending, by arithmetic, and the rest.
Counters ==
  /\ armed \in 0 .. MaxPending
  /\ queued \in 0 .. MaxPending
  /\ armed + queued <= MaxPending

Flags ==
  /\ stopWork \in BOOLEAN
  /\ pc \in WorkerPC
  /\ listening \in BOOLEAN
  /\ woken \in BOOLEAN
  /\ main \in MainPC

SendTypes == SendTypeOK(WorkerPC)

HumidityTypes ==
  /\ off \in BOOLEAN
  /\ wired \in BOOLEAN
  /\ healthy \in BOOLEAN

TypeInv == Counters /\ Flags /\ SendTypes /\ HumidityTypes

\* The types hold when the worker has been made.
LEMMA InitTypeInv == Init => TypeInv
<1> SUFFICES ASSUME Init PROVE TypeInv
  OBVIOUS
<1>1. Counters
  BY MaxPendingAssumption DEF MaxPendingAssumption, Init, ThreadInit, Counters
<1>2. Flags /\ HumidityTypes
  BY DEF Init, ThreadInit, Flags, HumidityTypes, WorkerPC, CommonPC, MainPC
<1>3. SendTypes
  BY DEF Init, SendInit, SendTypes, SendTypeOK, WorkerPC, CommonPC
<1> QED BY <1>1, <1>2, <1>3 DEF TypeInv

\* What a step does to the restarts: one more is armed while there is room, a slot runs, or
\* the thread ends and posts a slot for each.
RestartArms == armed + queued < MaxPending /\ armed' = armed + 1 /\ queued' = queued
SlotRuns == queued > 0 /\ armed' = armed /\ queued' = queued - 1
ThreadEnds == armed' = 0 /\ queued' = queued + armed

LEMMA PendingSteps ==
  ASSUME [Next]_vars
  PROVE  UNCHANGED <<armed, queued>> \/ RestartArms \/ SlotRuns \/ ThreadEnds
<1> USE DEF RestartArms, SlotRuns, ThreadEnds, tvars
<1>1. \A f : RestartWork(f) => UNCHANGED <<armed, queued>> \/ RestartArms
  BY DEF RestartWork
<1>2. CASE Main
  BY <1>1, <1>2
  DEF Main, ModeChanged, AccessoriesChanged, SensorStatus, RunScheme, StopScheme, PerfTest,
      RestartWaitOver, RestartedSlot, StopWaitOver
<1>3. CASE RunBody \/ LoopDone \/ StoppedWithRelays
  BY <1>3
  DEF RunBody, ReturnFromRun, StoppedWithRelays, Terminated, ThreadFinished,
      CheckStop, Dispatch, EnterOffLoop, LeaveOffLoop, AfterOffLoop, LoopDone,
      LoopStopped, AfterClear, Rest, GoTo, EnterWait, LeaveWait
<1>4. CASE ClearRelays \/ Energise \/ SendRelays
  BY <1>4
  DEF ClearRelays, Energise, Send, SendRelays, BeginSend, TestCanSend, EnterSendWait,
      WaitGranted, WaitAborted, Claim, SendDone, SendCut, Return, GoTo
<1>5. CASE EmitStep \/ OtherCalls
  BY <1>5
  DEF EmitStep, OtherCalls, OtherClaims, OtherEmits, OtherReleases, OtherTerminated,
      RecordsOnly, Emits, FanReleases
<1>6. CASE UNCHANGED vars
  BY <1>6 DEF vars
<1> QED BY <1>2, <1>3, <1>4, <1>5, <1>6 DEF Next, Worker, Climate, Senders

-----------------------------------------------------------------------------
(***************************************************************************)
(* The steps of sendRelays() and of the other senders, and the types.      *)
(***************************************************************************)

\* Entering a call and leaving it keep the types.
LEMMA SendKeepsTypes ==
  ASSUME Flags, SendTypes, NEW from, NEW on \in BOOLEAN, NEW forced \in BOOLEAN,
         NEW back \in WorkerPC, Send(from, on, forced, back)
  PROVE  Flags' /\ SendTypes'
<1>1. "begin" \in WorkerPC
  BY DEF WorkerPC, SendPC
<1> QED BY <1>1 DEF Send, GoTo, Flags, SendTypes, SendTypeOK

\* The types of what leaving a call resets.
LEMMA NoOwnCallTypes ==
  ASSUME SendTypes, NoOwnCall
  PROVE  /\ force' \in BOOLEAN /\ after' \in WorkerPC /\ copied' \in BOOLEAN
         /\ exits' \in SUBSET {"send", "none"}
  BY DEF NoOwnCall, WorkerPC, CommonPC

\* Each step of the worker's own call keeps the types.
LEMMA CallKeepsTypes ==
  ASSUME Flags, SendTypes, SendRelays
  PROVE  Flags' /\ SendTypes'
<1> USE DEF Flags, SendTypes, SendTypeOK
<1>a. SendPC \subseteq WorkerPC
  BY DEF WorkerPC
<1>b. {"test", "toWait", "waiting", "claim", "steps"} \subseteq WorkerPC
  BY <1>a DEF SendPC
<1>c. \A from : Return(from) => /\ Flags'
                                /\ force' \in BOOLEAN /\ after' \in WorkerPC
                                /\ copied' \in BOOLEAN /\ exits' \in SUBSET {"send", "none"}
  BY NoOwnCallTypes DEF Return, GoTo
<1>1. CASE BeginSend
  <2>1. CASE Return("begin")
    BY <1>1, <1>c, <2>1 DEF BeginSend
  <2>2. CASE GoTo("begin", "test") /\ copied' = lastOn /\ UNCHANGED <<force, after, exits>>
    BY <1>1, <1>b, <2>2 DEF BeginSend, GoTo
  <2> QED BY <1>1, <2>1, <2>2 DEF BeginSend
<1>2. CASE TestCanSend \/ EnterSendWait
  <2>1. SendTypes'
    BY <1>2 DEF TestCanSend, EnterSendWait, sendVars
  <2>2. Flags'
    BY <1>2, <1>b DEF TestCanSend, EnterSendWait, GoTo
  <2> QED BY <2>1, <2>2
<1>3. CASE WaitGranted
  BY <1>3, <1>b, <1>c DEF WaitGranted, GoTo
<1>4. CASE WaitAborted
  BY <1>4, NoOwnCallTypes DEF WaitAborted
<1>5. CASE Claim
  BY <1>5, <1>b DEF Claim, GoTo, callVars
<1>6. CASE SendDone \/ SendCut
  BY <1>6, <1>c DEF SendDone, SendCut
<1> QED BY <1>1, <1>2, <1>3, <1>4, <1>5, <1>6 DEF SendRelays

\* So does whatever else happens on the board.
LEMMA OthersKeepTypes ==
  ASSUME Flags, SendTypes, EmitStep \/ OtherCalls
  PROVE  Flags' /\ SendTypes'
<1> USE DEF Flags, SendTypes, SendTypeOK, tvars, callVars
<1>1. CASE EmitStep
  BY <1>1 DEF EmitStep
<1>2. ASSUME NEW p \in Others, OtherClaims(p)
      PROVE  Flags' /\ SendTypes'
  <2>1. claimed' \in SUBSET Others
    BY <1>2 DEF OtherClaims
  <2>2. crossed' \in BOOLEAN /\ lastOn' \in BOOLEAN
    BY <1>2 DEF OtherClaims, Records
  <2> QED BY <1>2, <2>1, <2>2 DEF OtherClaims
<1>3. ASSUME NEW p \in Others, OtherTerminated(p)
      PROVE  Flags' /\ SendTypes'
  BY <1>3 DEF OtherTerminated
<1>4. ASSUME NEW p \in Others, OtherReleases(p)
      PROVE  Flags' /\ SendTypes'
  BY <1>4 DEF OtherReleases
<1>5. CASE Emits
  BY <1>5 DEF Emits
<1>6. CASE RecordsOnly
  <2>1. crossed' \in BOOLEAN /\ lastOn' \in BOOLEAN
    BY <1>6 DEF RecordsOnly, Records
  <2> QED BY <1>6, <2>1 DEF RecordsOnly
<1>7. CASE FanReleases
  BY <1>7 DEF FanReleases
<1> QED BY <1>1, <1>2, <1>3, <1>4, <1>5, <1>6, <1>7 DEF OtherCalls, OtherEmits

\* Every step keeps the types and the bound.
LEMMA NextTypeInv == TypeInv /\ [Next]_vars => TypeInv'
<1> SUFFICES ASSUME TypeInv, [Next]_vars PROVE TypeInv'
  OBVIOUS
<1>0. Counters'
  BY PendingSteps, MaxPendingAssumption
  DEF TypeInv, MaxPendingAssumption, Counters, RestartArms, SlotRuns, ThreadEnds
<1> SUFFICES Flags' /\ SendTypes' /\ HumidityTypes'
  BY <1>0 DEF TypeInv
<1>s. UNCHANGED sendVars => SendTypes'
  BY DEF TypeInv, SendTypes, SendTypeOK, sendVars
<1> USE DEF TypeInv, Flags, HumidityTypes, MainPC
<1>a. {"dead", "start", "active", "cleared", "forced"} \subseteq WorkerPC
  BY DEF WorkerPC, CommonPC
<1>b. \A f : RestartWork(f) => Flags'
  BY <1>a DEF RestartWork, RaiseStop, StartThread, tvars
<1>1. CASE (RestartWaitOver \/ RestartedSlot \/ StopWaitOver) /\ UNCHANGED hvars
  BY <1>1, <1>a, <1>s
  DEF RestartWaitOver, RestartedSlot, StopWaitOver, StartThread, hvars, settings
<1>2. CASE ModeChanged \/ PerfTest
  BY <1>2, <1>s, <1>b DEF ModeChanged, PerfTest
<1>3. CASE SensorStatus
  BY <1>3, <1>s, <1>b DEF SensorStatus, RunScheme, StopScheme, RaiseStop, tvars
<1>4. CASE AccessoriesChanged
  BY <1>4, <1>s, <1>b DEF AccessoriesChanged
<1>5. CASE (RunBody \/ LoopDone) /\ UNCHANGED hvars
  <2>1. HumidityTypes' /\ SendTypes'
    BY <1>5, <1>s DEF hvars, settings
  <2>2. CASE CheckStop \/ Dispatch \/ AfterOffLoop
    BY <2>1, <2>2 DEF CheckStop, Dispatch, AfterOffLoop, GoTo, WorkerPC, CommonPC
  <2>3. CASE EnterOffLoop \/ LeaveOffLoop
    BY <2>1, <2>3 DEF EnterOffLoop, LeaveOffLoop, EnterWait, LeaveWait, WorkerPC
  <2>4. CASE LoopDone \/ LoopStopped \/ AfterClear \/ Rest
    BY <2>1, <2>4 DEF LoopDone, LoopStopped, AfterClear, Rest, GoTo, WorkerPC, CommonPC
  <2>5. CASE ReturnFromRun
    BY <1>a, <2>1, <2>5 DEF ReturnFromRun, ThreadFinished
  <2> QED BY <1>5, <2>2, <2>3, <2>4, <2>5 DEF RunBody
<1>6. CASE ClearRelays /\ UNCHANGED settings
  BY <1>6, <1>a, SendKeepsTypes DEF ClearRelays, settings
<1>7. CASE Energise /\ UNCHANGED settings
  BY <1>7, <1>a, SendKeepsTypes DEF Energise, settings
<1>8. CASE SendRelays /\ UNCHANGED settings
  BY <1>8, CallKeepsTypes DEF settings
<1>9. CASE Senders
  BY <1>9, OthersKeepTypes DEF Senders, settings
<1>10. CASE StoppedWithRelays /\ UNCHANGED settings
  BY <1>10, <1>a, NoOwnCallTypes
  DEF StoppedWithRelays, Terminated, ThreadFinished, SendTypes, SendTypeOK, settings
<1>11. CASE UNCHANGED vars
  BY <1>11 DEF vars, SendTypes, SendTypeOK
<1> QED
  BY <1>1, <1>2, <1>3, <1>4, <1>5, <1>6, <1>7, <1>8, <1>9, <1>10, <1>11
  DEF Next, Main, Worker, Climate

\* Every state of the humidity worker is well typed.
THEOREM TypeCorrect == Spec => []TypeOK
<1>1. TypeInv => TypeOK
  BY DEF TypeInv, Counters, Flags, SendTypes, HumidityTypes, TypeOK, ThreadTypeOK
<1> QED BY <1>1, InitTypeInv, NextTypeInv, PTL DEF Spec

-----------------------------------------------------------------------------
(***************************************************************************)
(* Where the accessory may run at all: as for the temperature worker.  The *)
(* wiring slot raises stopWork without a restart: it may end run(), but    *)
(* only through the places where the accessory has been turned off.        *)
(***************************************************************************)

Settled == ~leftOn /\ ~crossed

\* Where a relay may be on without an excuse.
MayBeOn == {"active", "clear", "forced"} \cup SendPC

CallInv ==
  pc \in SendPC =>
    /\ after \in {"active", "forced", "cleared"}
    /\ after = "cleared" => force /\ ~wantOn

RecordInv ==
  /\ boardOn /\ pc # "steps" => lastOn
  /\ boardOn /\ pc \in {"test", "toWait", "waiting", "claim"} => copied
  /\ pc = "steps" => lastOn = wantOn /\ (boardOn => copied \/ wantOn)
  /\ boardOn => pc \in MayBeOn

AccInv == CallInv /\ (Settled => RecordInv)

\* The board and its record stay what they were, and the worker goes to a place that is no
\* more demanding.
LEMMA MoveKeeps ==
  ASSUME AccInv, UNCHANGED sendVars, pc' \notin SendPC, pc \notin SendPC,
         pc \in MayBeOn => pc' \in MayBeOn
  PROVE  AccInv'
  BY DEF AccInv, CallInv, RecordInv, Settled, sendVars, SendPC

\* Entering the call.
LEMMA SendKeeps ==
  ASSUME AccInv, NEW on \in BOOLEAN, NEW forced \in BOOLEAN, NEW from, NEW back,
         from \notin SendPC, back \in {"active", "forced", "cleared"},
         back = "cleared" => forced /\ ~on,
         Send(from, on, forced, back)
  PROVE  AccInv'
  BY DEF AccInv, CallInv, RecordInv, Settled, Send, GoTo, SendPC, MayBeOn

\* The steps of the worker's own call.
LEMMA CallKeeps ==
  ASSUME TypeOK, AccInv, SendRelays
  PROVE  AccInv'
<1> USE DEF AccInv, CallInv, RecordInv, Settled, SendPC, MayBeOn
<1>t. /\ wantOn \in BOOLEAN /\ lastOn \in BOOLEAN /\ boardOn \in BOOLEAN /\ copied \in BOOLEAN
      /\ leftOn \in BOOLEAN /\ crossed \in BOOLEAN /\ force \in BOOLEAN
  BY DEF TypeOK, SendTypeOK
<1>1. CASE BeginSend
  <2>1. CASE Return("begin")
    BY <1>1, <2>1, <1>t DEF BeginSend, Return, NoOwnCall, GoTo, Refused
  <2>2. CASE ~Return("begin")
    BY <1>1, <2>2, <1>t DEF BeginSend, GoTo
  <2> QED BY <2>1, <2>2
<1>2. CASE TestCanSend
  BY <1>2, <1>t DEF TestCanSend, GoTo, sendVars
<1>3. CASE EnterSendWait
  BY <1>3, <1>t DEF EnterSendWait, GoTo, sendVars
<1>4. CASE WaitGranted
  <2>1. CASE Refused
    BY <1>4, <2>1, <1>t DEF WaitGranted, Refused, Return, NoOwnCall, GoTo
  <2>2. CASE ~Refused
    BY <1>4, <2>2, <1>t DEF WaitGranted, GoTo
  <2> QED BY <2>1, <2>2
<1>5. CASE WaitAborted
  BY <1>5, <1>t DEF WaitAborted, NoOwnCall
<1>6. CASE Claim
  BY <1>6, <1>t DEF Claim, GoTo, callVars
<1>7. CASE SendDone
  <2>1. CASE copied # wantOn /\ lastOn = wantOn
    BY <1>7, <2>1, <1>t DEF SendDone, Return, NoOwnCall, GoTo
  <2>2. CASE ~(copied # wantOn /\ lastOn = wantOn)
    <3>1. leftOn' = leftOn /\ crossed' = crossed
      BY <1>7, <2>2, <1>t DEF SendDone
    <3> QED BY <1>7, <2>2, <3>1, <1>t DEF SendDone, Return, NoOwnCall, GoTo
  <2> QED BY <2>1, <2>2
<1>8. CASE SendCut
  BY <1>8, <1>t DEF SendCut, MayStep, Return, NoOwnCall, GoTo
<1> QED BY <1>1, <1>2, <1>3, <1>4, <1>5, <1>6, <1>7, <1>8 DEF SendRelays

\* The steps of the others: what they change is noted.
LEMMA OthersKeep ==
  ASSUME TypeOK, AccInv, EmitStep \/ OtherCalls
  PROVE  AccInv'
<1> USE DEF AccInv, CallInv, RecordInv, Settled, SendPC, MayBeOn, tvars, callVars
<1>t. /\ wantOn \in BOOLEAN /\ lastOn \in BOOLEAN /\ boardOn \in BOOLEAN /\ copied \in BOOLEAN
      /\ leftOn \in BOOLEAN /\ crossed \in BOOLEAN
  BY DEF TypeOK, SendTypeOK
<1>1. CASE EmitStep
  BY <1>1, <1>t DEF EmitStep
<1>2. ASSUME NEW p \in Others, OtherClaims(p) \/ OtherTerminated(p)
      PROVE  AccInv'
  BY <1>2, <1>t DEF OtherClaims, OtherTerminated, Records
<1>3. ASSUME NEW p \in Others, OtherReleases(p)
      PROVE  AccInv'
  BY <1>3, <1>t DEF OtherReleases
<1>4. CASE Emits
  BY <1>4, <1>t DEF Emits
<1>5. CASE RecordsOnly
  BY <1>5, <1>t DEF RecordsOnly, Records
<1>6. CASE FanReleases
  BY <1>6, <1>t DEF FanReleases
<1> QED BY <1>1, <1>2, <1>3, <1>4, <1>5, <1>6 DEF OtherCalls, OtherEmits

\* What the main thread does with the thread leaves a running worker where it is.
LEMMA MainKeeps ==
  ASSUME AccInv, UNCHANGED sendVars, pc' = pc \/ (pc = "dead" /\ pc' = "start")
  PROVE  AccInv'
  BY DEF AccInv, CallInv, RecordInv, Settled, sendVars, SendPC, MayBeOn

\* Every step keeps the accessory off where it has to be.
LEMMA NextAcc == TypeOK /\ AccInv /\ [Next]_vars => AccInv'
<1> SUFFICES ASSUME TypeOK, AccInv, [Next]_vars PROVE AccInv'
  OBVIOUS
<1>t. boardOn \in BOOLEAN /\ leftOn \in BOOLEAN /\ wired \in BOOLEAN
  BY DEF TypeOK, SendTypeOK
<1>1. CASE (RestartWaitOver \/ RestartedSlot \/ StopWaitOver) /\ UNCHANGED hvars
  BY <1>1, MainKeeps DEF RestartWaitOver, RestartedSlot, StopWaitOver, StartThread, hvars
<1>2. CASE ModeChanged \/ PerfTest
  BY <1>2, MainKeeps DEF ModeChanged, PerfTest, RestartWork, RaiseStop, StartThread, tvars
<1>3. CASE SensorStatus
  BY <1>3, MainKeeps
  DEF SensorStatus, RunScheme, RestartWork, RaiseStop, StartThread, StopScheme, tvars
<1>4. CASE AccessoriesChanged
  BY <1>4, MainKeeps
  DEF AccessoriesChanged, RestartWork, RaiseStop, StartThread, tvars
<1>5. CASE (RunBody \/ LoopDone) /\ UNCHANGED hvars
  <2>1. pc \notin SendPC /\ pc' \notin SendPC /\ (pc \in MayBeOn => pc' \in MayBeOn)
    BY <1>5
    DEF RunBody, LoopDone, CheckStop, Dispatch, EnterOffLoop, LeaveOffLoop, AfterOffLoop,
        LoopStopped, AfterClear, Rest, ReturnFromRun, ThreadFinished, GoTo, EnterWait,
        LeaveWait, SendPC, MayBeOn
  <2> QED BY <1>5, <2>1, MoveKeeps DEF hvars
<1>6. CASE ClearRelays
  BY <1>6, SendKeeps DEF ClearRelays, SendPC
<1>7. CASE Energise
  BY <1>7, <1>t, SendKeeps DEF Energise, SendPC
<1>8. CASE SendRelays \/ Senders
  BY <1>8, CallKeeps, OthersKeep DEF Senders
<1>9. CASE StoppedWithRelays
  BY <1>9, <1>t
  DEF StoppedWithRelays, Terminated, ThreadFinished, NoOwnCall, AccInv, CallInv, RecordInv,
      Settled, SendPC, MayBeOn
<1>10. CASE UNCHANGED vars
  BY <1>10 DEF vars, AccInv, CallInv, RecordInv, Settled
<1> QED
  BY <1>1, <1>2, <1>3, <1>4, <1>5, <1>6, <1>7, <1>8, <1>9, <1>10
  DEF Next, Main, Worker, Climate

\* The humidifier or dehumidifier is off wherever the worker may stay for ever, in OffLoop
\* and, since the wiring slot may end run() for good, after it, unless terminate() has left
\* it on or another sender's call has come between.
THEOREM AccessoryRests == Spec => []AccessoryOff
<1>1. Init => AccInv
  BY DEF Init, ThreadInit, SendInit, AccInv, CallInv, RecordInv, SendPC
<1>2. TypeOK /\ AccInv /\ [Next]_vars => AccInv'
  BY NextAcc
<1>3. AccInv => AccessoryOff
  BY DEF AccInv, RecordInv, Settled, MayBeOn, SendPC, AccessoryOff
<1> QED BY <1>1, <1>2, <1>3, TypeCorrect, PTL DEF Spec

=============================================================================
