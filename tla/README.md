# A verification project for stherm

stherm is the application of a smart thermostat (Qt, C++ and QML). This directory holds TLA+
modules for what runs concurrently in it: the control of the heating, cooling and humidity
relays, the links to the two microcontrollers, the performance test and the software update. TLC
configurations model-check them, and TLAPS proofs establish what matters most for every value of
their constants. Files are named without their directory: `src/Backend/Core/Scheme.cpp` is
written `Scheme.cpp`; `PROJECT.json` has the full paths, and the lines of every definition.

## 1. The system

Temperature and humidity are each controlled by a worker thread (`Scheme`, `HumidityScheme`,
both `BaseScheme`, which is a `QThread`). A worker's `run()` selects a loop by the system mode,
the loop changes the one `Relay` object and calls `sendRelays()`, and `sendRelays()` brings the
board to the wanted configuration one relay at a time. Everything else runs in the main thread:
the settings, whose changes make the workers restart; `DeviceControllerCPP`, which starts the
workers and connects them to each other; `DeviceIOController`, which talks to the two
microcontrollers over UART; the cloud, the update, the performance test and the user interface.

### Components

| component | state | operations | what makes it correct |
|---|---|---|---|
| worker life cycle (`Scheme.cpp`, `HumidityScheme.cpp`, `BaseScheme.cpp`, `DeviceControllerCPP.cpp`) | `stopWork`, the thread, armed and posted slots of `finished()` | `restartWork`, `stop`, `run`, `waitLoop` | a restart request is honoured; a thread told to stop stays stopped; quiet waits have the relays off |
| temperature loops (`Scheme.cpp`) | the timers of `mTiming`, `s2hold`, `s3hold`, the `Relay` | `CoolingLoop`, `HeatingLoop`, stage loops, auxiliary and emergency heating | interlock, order of stages, rest of the compressor, valve at rest, demand served |
| humidity loop (`HumidityScheme.cpp`) | the accessory wires | `run`, `normalLoop`, `VacationLoop`, `OffLoop` | the accessory is off whenever the loop is left |
| `Relay`, `RelayConfigs` | wanted and last configuration, `ob_state` | stage methods, `relays`, `changeStepsSorted` | one relay at a time, off before on, fan with every load |
| sharing of the relays | `mCanSendRelay`, `mIsSendingRelay` of both schemes, `mRelayLast` | `sendRelays`, `setIsSendingRelays`, the connections in `DeviceControllerCPP` | no two senders at once, no sender waits for ever, the board gets what was recorded |
| `SchemeDataProvider` | none of its own | effective mode, set temperature, accessories | (inputs of the workers) |
| `DeviceIOController`, UART, GPIO | a queue per link, `wait_relay_response`, `busy`, relays sent and confirmed, the gates of two GPIO threads | send, process response, retry timers | the board ends with the configuration asked for last; answers are matched with requests; a queue never stalls |
| `PerfTestService` | test state, timers, postponement, the stored result | check, postpone, resume, start, cancel, finish, report | the normal mode returns after a test; a check ends; a result is kept until it is uploaded |
| `System` | list of versions, expected checksum, open download, archive, `mRestarting`, two settings | check, download, verify, install, retry | only what was verified is unpacked; a pinned version stays; a forced one comes |
| `Sync`, `RestApiExecutor`, `NetworkManager` | open requests, last received time | push, fetch, report with retry | one request per endpoint; a late reply does not undo a later change |
| `DeviceController.qml`, `SchedulesController.qml` | edit mode, settings, active schedule | push, pull, lock, schedule timers | an edit in progress is not overwritten; one active schedule |
| watchdog, heartbeat | last heartbeat | restart the application | a hanging application is restarted |
| messages, protobuf log, network interface, date and time, screen saver, QML pages, QtQuickStream | lists, files, views | | not concurrent with the control of the relays |
| `Backend/Legacy` | | | the former PHP implementation, not run |

### How they interact

* Settings (main thread) -> `restartWork()` -> `stopWork` and the signal `stopWorkRequested` ->
  the worker leaves its loop and `run()` -> `finished()` -> a slot in the main thread ->
  `start()`.
* Worker -> `sendRelayIsRunning` (direct connection, so in the sender's thread) ->
  `setCanSendRelays` of the other scheme -> `canSendRelay` -> the other worker's event loop.
* Worker -> `updateRelays` (queued) -> `DeviceIOController` -> the board.
* The fan timer (main thread) calls `Scheme::sendRelays()` on the temperature worker's object.
* The update (main thread) raises `mRestarting`, which makes the temperature worker leave the
  relays alone; a timer of ten seconds withdraws it.
* Cloud -> `PerfTestService` (eligibility and report replies) -> `doPerfTest` / `revertPerfTest`
  -> forced restarts of both workers.
* Cloud, a person at the device and the back door -> `System`: one expected checksum, one
  download and one archive are shared by all of them -> a systemd service -> `update.sh`, which
  replaces the application and starts it again.
* `DeviceIOController` <-> TI (relays) and nRF (sensors, backlight), each over its own serial
  line and queue; the nRF has two interrupt lines, each watched by a GPIO thread that waits for
  `readProcessed()` before it reports another one.
* A sensor that fails stops its worker (`stop()`, which calls `terminate()`); a sensor
  that recovers starts it.

### What is hard

The workers and the main thread share plain booleans; a Qt signal emitted while no event loop is
connected is lost; a slot posted from `finished()` runs any time later; `terminate()` can hit a
worker at any statement; the relays are shared by three callers whose mutual exclusion is a
test, then a signal; the loops are nested, keep their relays and timers across each other, and may
be left at each wait. Requests to the microcontrollers carry no number and get answers that may be
lost, garbled or late. Replies of the cloud come after the state they were asked in has gone. The
application may end, and the power may fail, between any two steps of an update or of a test.
`PROJECT.json` lists these as hazards, each at its line with the properties
that cover it.

## 2. Modules

| module | models | remarks |
|---|---|---|
| `WorkerThread` | the main-thread half of a scheme and the `QThread` under it | the two workers add `run()` |
| `WorkerSend` | `sendRelays()` as one worker sees it: its own call, and what the calls of the others do to its relays | extends `WorkerThread`; extended by the two workers |
| `SchemeWorker` | `Scheme::run()` and what drives it: mode, system type, sensor, performance test, update | a control loop is the one location `active` |
| `HumidityWorker` | `HumidityScheme::run()` and what drives it | |
| `Relay` | `Relay` and `changeStepsSorted` as operators; a configuration is the set of wires that are on | |
| `RelayBoard` | abstract: one relay at a time, off before on, until the target is reached; what an unknown board gets first | |
| `RelaySharing` | `sendRelays()` of temperature worker, humidity worker and fan timer, with their handshake | implements `RelayBoard` when one worker is alone |
| `TempLoops` | the control loops of `Scheme.cpp`, stage by stage | extends `Relay` |
| `PerfTest` | `PerfTestService` | |
| `TiLink`, `NrfLink` | the two halves of `DeviceIOController` | two modules, as the halves share no state the properties need |
| `SystemUpdate` | the update half of `System`, with `update.sh` and its service | |
| `MC...` | values of constants for TLC | |
| `...Proofs` | theorems | |

The modules are composed by inclusion where components share state (`WorkerThread` and
`WorkerSend` in both workers, `Relay` in `RelaySharing` and `TempLoops`; all senders in
`RelaySharing`). Where they are coupled by one call, the other side is an unconstrained input:
`SchemeWorker` accepts `doPerfTest` and `moveToUpdatingMode` at any time, which covers what
`PerfTest` and `SystemUpdate` do; `TiLink` accepts any sequence of configurations, which covers
what `RelaySharing` emits.

### Correspondence with the code

`WorkerThread`. `pc` is where the worker is (`"dead"` when the thread does not run); `armed`
counts single-shot connections on `finished()`, `queued` the slots posted and not run.
`listening` and `woken` stand for the event loop of a `waitLoop` connected to
`stopWorkRequested`: `RaiseStop` wakes a worker only if it is listening, so a signal emitted
between the test of `stopWork` and the wait is lost, as in Qt. `RestartWork` is one call with its
early return; `main` keeps the main thread inside `restartWork` or `stop` while it waits for the
thread. `Terminated` is `terminate()`: the worker stops wherever it is, and nothing it had set is
undone. `MaxPending` bounds `armed + queued`; it is a bound of the model, not of the code.

`WorkerSend`. A call of the worker has the locations `begin` to `steps`; of a configuration only one
bit is kept, whether a relay of the worker's own scheme is on in it: in `mRelay` (`wantOn`), in
`mRelayLast` (`lastOn`), in the copy the call steps from (`copied`) and on the board (`boardOn`). A
call does nothing when `lastOn = wantOn`, forced or not, as the code does (`Scheme.cpp:1410`,
`HumidityScheme.cpp:155`), and its wait for the other scheme (`waiting`) has no time limit and is
not ended by `stopWorkRequested` (`Scheme.cpp:1417`, `HumidityScheme.cpp:162`). The other senders
(`Others` on the other scheme's object, the fan timer on this one with `FanShares`) may record any
old copy of the configuration as sent and emit any other, so this holds more behaviours than
`RelaySharing`, which has the relays one by one. Three things are remembered: `leftOn`, that
`terminate()` or an update has left the worker's relays on; `crossed`, that the call of another
sender has recorded or emitted them otherwise than they were, or cut the worker's call; both until a
call of the worker's own has set its relays and recorded them so. `Abandoned` is a wait that nobody
will end: the release came before the wait, or the sender that owed it was terminated.

`SchemeWorker`. A location per test of `stopWork` and per wait in `run()`. `OffLoop` and the
vacation loop within its range are separate because they wait without a time limit, as is the wait
inside `sendRelays()`; all other loops leave every wait in bounded time and are `active`.
`ClearRelays` is the operation and the forced call after every loop, which may find nothing to do.
`healthy` follows `DeviceController.qml`, which stops and starts the worker with the state of its
sensor. The thread is started as `runTemperatureScheme` does, with `mIsDeviceStarted` true.

`HumidityWorker`. The same for the humidity worker, which turns its accessory off by two calls, the
second one forced; `accessoriesChanged` raises `stopWork` alone when the accessory is removed
(`HumidityScheme.cpp:133`).

`RelaySharing`. A sender is in `idle`, `test`, `toWait`, `waiting`, `claim`, `first` or `steps`,
one location per place where another thread can come between, or `dead`. `canSend` and `sending`
are the flags of the two scheme objects, `wanted` and `lastConfigs` the local copies of a call,
`mRelayLast` what the code believes it has sent, `board` what the relays are. `exits` holds the
`exit` calls posted to a sender's event loop; `late` is a history variable (the release a sender
waits for was given before it waited). The board does not answer and loses nothing here: that is
`TiLink`. `Phase` says what is known of the board for the refinement: nothing until the first
send (`unknown`, `asked`), which writes the configuration whole (`whole`) and then, as the code's
last configuration is all off, once more relay by relay (`known`).

`TempLoops`. A location is the head of a loop; an action is a pass of it that changes something.
The operation before `sendRelays()` and the tests of `stopWork` around it are kept apart by the
location `send`: a restart may come between, and then the configuration is not sent. `Finish`,
`GiveUp`, `StepDown`, `ClearRelays` stand for the ends of the loops with every timer they restart.
`Stop` is `Scheme::stop()` at any location: the thread is `dead`, relays and timers stay as they
are, and a call it cuts in the middle may have sent some of its steps (`CutSend`);
`SensorRecovers` starts `run()` again on what is on. `excess` is current minus effective set
temperature in tenths of a degree and changes freely; the thresholds T1 to T4 and the stage ranges
are those of the code. A timer is compared with one threshold only, so its value is `invalid`,
`short` or `long`. `rested` and `owed` are history variables for the properties of compressor and
valve: the compressor has been off for two minutes or a system delay has passed; the valve has
switched and no system delay has run since (`due`, and `cut` once the worker has left `run()`
before it). So is `leftOn`: an update or `terminate()` has kept `run()` from turning off what was
on, and `run()` has not turned all off since with the compressor rested and no delay due.
`mRelayLast` and `sent` differ (`Strayed`) only after a call that was cut: what it had claimed
counts as sent. `FailsAgain` bounds the failures of the sensor: with `FALSE` there is no second
one before `run()` has cleared what the first one left; the theorems hold with both values. The
installed `setup`, `heatPumpOBState` with it, has any value and does not change while the model
runs; vacation uses the same loops under another setpoint. The worker is taken to be the only
sender here: what the humidity worker's calls do to its relays is in `WorkerSend` and
`RelaySharing`, and the properties of the loops are to be read with that proviso.

`PerfTest`. An action is a slot of the main thread. `timers` is the set of timers that are active;
how long they run is left out, as is the time of day of a check. `post` is the one request the
result endpoint may have open: `RestApiExecutor` drops another one, and `Report` with it (`dropped`
remembers it for the report that starts a test). `cancelTest()` does not test the state; its one
caller, the Stop button of `PerfTestPopup.qml`, is there only while a test warms up or runs, which
is the guard of `CancelTest`. A failed request may have been received all the
same. `AppRestart` keeps `saved` only, which is what `QSettings` keeps. `finished`, `uploaded` and
`givenUp` are history variables for the properties.

`TiLink`. A configuration is the number of the update that asked for it. A request leaves
`queue` when it is written; `requests` and `answers` are the two directions of the line.
`processTIResponse()` and the `processTIQueue()` after it are one action, `ReadAnswer`. Any
answer lowers `wait_relay_response`, and the wiring check writes a `SetRelay` past the queue; both
are as in the code. A fault loses, garbles or refuses one message, or lets an answer be read in two
pieces (`ReadPart`, `ReadRest`): `readAll()` hands on what has come (`UARTConnection.cpp:144`), and
the slot runs for each piece.

`NrfLink`. The head of `queue` stays until something is read, which is taken for its answer;
`front()` of an empty queue may be any command. `setBacklight` looks at the last request and, if
it is a colour, changes a copy of it, so the change is lost (`dropped`); this is what the code
does. `waiting` is the gate of a GPIO thread, `events` its signals posted to the main thread. An
answer may be read in two pieces here as well (`ReadPart`): each of them takes the head off the
queue and writes the next request, and the link is then out of step (`slipped`).

`SystemUpdate`. A version is its archive, an archive its checksum. `expected` is the one checksum,
`download` the open request with its source, `archive` the file in the update directory, `popup`
what updateAndRestart() will be called with when the popup opens. `StartService`, `Unpack` and
`Replace` are the service: `update.sh` ends at once when there is no archive, and installs nothing
when it cannot unpack. `Start` is what a start of the application reads from the settings.
`partialUpdate()` does nothing when the update directory is gone, `expected` included
(`ThroughPartialUpdate`). `due`, `came`, `left`, `overlap`, `recached` and `abandoned` are history
variables: what an installation is for, how the running version came, and which of the exceptions
below has happened.

## 3. Runs

| run | question | bounds |
|---|---|---|
| `scheme_worker` | is the restart protocol sound (`RestartArmed`, `StopHonoured`, `FinishedIsRestarted`); how can the worker come to rest with relays on (`QuietWaitRelaysOff`) | two pending restarts, humidity worker and fan timer as other senders, every switch on |
| `humidity_worker` | how can the accessory be on in `OffLoop` or after `run()` (`AccessoryOff`); does a healthy worker stay in its control loop (`Served`) | two pending restarts, temperature worker and fan timer as other senders, every switch on |
| `relay_alone` | one worker: does `sendRelays` implement `RelayBoard`, from a known and from an unknown board; does every load have its fan | all stages, reversing valve, restarts, any board content at the start |
| `relay_pair` | two workers: does every call return, does a sender take the other's permission | restarts and termination |
| `relay_three` | with the fan timer: who blocks a scheme | three senders |
| `relay_stale` | (expected to fail, see Findings) | two senders |
| `loops_safe` | `Interlock`, `StageOrder`, `CompressorRests`, `ValveAtRest`, `DelayAfterValve` | 7 setups, the valve on for cooling or for heating, `Off`, `Auto` and `EmergencyHeat`, 3 temperatures, a sensor that fails, no update |
| `loops_live` | is a demand served, does an overshoot end in off, also after `terminate()` and after an update that failed | 3 setups that use every stage loop, 3 temperatures, updates, a sensor that fails |
| `perf_test` | does the test mode last exactly as long as a test, does every check end, is a result kept and finally uploaded, is no test performed twice | two tests of two readings |
| `ti_link` | does the board end with the configuration asked for last, in order; is what is confirmed set; does the queue drain; does the TI identify itself | 3 updates, 1 watchdog request under way, 1 fault (a split answer is one) |
| `nrf_link` | are answers matched with requests; are the interrupt lines freed; is the newest colour shown | queue of 3, 2 colours, 2 posted events of a pin, 1 firmware update, 1 fault (a split answer is one) |
| `system_update` | is what is unpacked what was verified; does a pinned version stay; do the settings tell how the version came; are forced versions and the server's orders installed | two versions, the second forced; one request of a person, one change of the server's mind, two faults |

The bounds. `MaxPending` is the number of restarts that overlap: two are needed for a request to
meet the slot of an earlier one. A configuration of the relays has at most the stages the loops
produce; with several senders one stage of each kind is enough for two of them to meet at every
pair of locations (in `relay_pair` the humidity worker's sends are never forced and the
temperature worker's are, when they turn everything off). The temperatures of the loops are one in
demand of every stage of heating, one within the range and one past the setpoint of heating, which
is a demand for cooling; what lies between two thresholds only decides which stage is called when,
and the timers do that in any order. `Auto` cools and heats by the loops of `Cooling` and
`Heating`, so `loops_safe` leaves those two modes out. Two performance tests let the result of one
be stored while the other is run; two readings separate the first one from the last. Three relay
updates let one be under way and two wait; one fault is enough to lose any one message, to garble
any one answer into any other command, and to let the watchdog's answer take the place of a
relay's. The nRF starts with three requests queued and new ones come as these are answered; two
colours are needed for a change of one that waits, and two events of a pin for one that is posted
before the slot of the last has run. Two versions and the back door's file give every source
something to replace of every other one; two faults let a failure of the recovery follow a
failure.

Deadlock is checked in every run but `nrf_link`: the link really stops when a request other than
`GetInfo` is lost and the queue is at its bound, as nothing writes that request again.

### Findings

`relay_stale` (`expect: violation` in `PROJECT.json`) shows where the code does something else
than a comment in it says. `sendRelays()` skips the wires of the other scheme but records the whole
configuration as sent (`Scheme.cpp:1475`, `1428`). In the trace the temperature worker records an
accessory that the humidity scheme has asked for without sending it, and its next call emits the
skipped wire together with one of its own: two relays in one message ("we can not change multiple
relays at once!", `UtilityHelper.h:228`). The other way round this is how relays may be on where the
code notes "all should be off! we can assert here" (`Scheme.cpp:283`). The race of two workers that
both pass the test of `mCanSendRelay` before either takes it away (`Scheme.cpp:1416`) exists as
well, but this run is not about it: `SendingMarked` says that only a sender which tested before the
claim can come in, and no property says what two such senders do to the board.

Other properties hold only with an exception that the code makes; the exception is part of the
property, named, and a maintainer may want to look at it. The notes under "hazards" in
`PROJECT.json` say for each of them what the property still shows.

* `StopHonoured`, `Served`, `CallReturns` (`Abandoned`): a sender that enters its wait after the
  release it had tested for, or that waits for one that was terminated, waits until another
  release comes or it is terminated itself; a request to stop does not end this wait.
* `StopHonoured`, `Served` (`Missed`): a restart requested between the test of OffLoop and its
  wait reaches no event loop, and the worker stays in OffLoop until something else wakes it.
* `Served` assumes that the accessory stays: when it is taken away, `stopWork` is raised without a
  restart (`HumidityScheme.cpp:133`), the worker ends instead of going to OffLoop, and an accessory
  installed later finds no worker unless something forces a restart.
* `QuietWaitRelaysOff`, `AccessoryOff` (`leftOn`, `crossed`): `terminate()` leaves the relays on,
  and `run()` skips the operation that turns them off while an update is about to restart the
  application (`Scheme.cpp:271`). The forced call that turns them off does nothing when another
  sender has recorded the cleared configuration while skipping their wires, and another sender may
  put an old copy back or cut the call. In each case the worker may rest in OffLoop with them on.
* `DelayAfterValve` (`cut`): `ob_state` is set before the system delay runs, so a delay that a
  restart cuts short is not repeated and the compressor starts right after the valve has switched.
* `Interlock`, `CompressorRests`, `ValveAtRest`, `DelayAfterValve` (`leftOn`): the operation that
  `terminate()` cuts off, or an update skips (`Scheme.cpp:271`), is the one that separates two
  loops. The next loop then starts on what the last one has left on: a change of the mode while
  the sensor is out may move the valve under a running compressor, cooling begin with the
  auxiliary heating on, or the compressor start again without its rest, as no timer was started.
  Only `StageOrder` survives this. Without updates and failures of the sensor the exception is
  never used (`NothingLeftOn`); `loops_safe` has failures, the theorems both.
* `DemandServed`, `OvershootEnds` (`Strayed`): a call that `terminate()` has cut counts as sent,
  so the loop that wants just what it claimed sends nothing.
* `BoardSpec` and `FanWithLoad` are stated for one worker. With two, the wires of the other scheme
  are skipped by `sendRelays()` and yet recorded as sent (`Scheme.cpp:1475`). A humidity worker
  that turns its accessory off, and is overtaken by a call of the temperature worker before its
  own, finds the wanted configuration recorded already and sends nothing: the accessory stays on,
  without a fan when the temperature worker has turned it off. It is the same the other way round.
* `OvershootEnds`: requests to restart end at some time; with an endless stream of them the relays
  that an update has left on stay on.
* `CheckEnds`, `HasExit` (`dropped`): the report that a test starts is dropped when an upload to the
  same endpoint is open; the service then waits in Eligible for a reply that does not come.
* `ResultKept`, `ResultArrives`, `NotPerformedTwice` (`givenUp`): a result is lost when it expires,
  when another test is taken up, or when its report meets an open request whose success clears
  it.
* `BoardForward`, `ConfirmedIsSet` (`overtaken`, `mistaken`): after a check of the wiring the
  newest configuration overtakes older ones in the queue; any answer, the watchdog's or a garbled
  one or a piece of one too, ends the wait for a relay answer, so that a second `SetRelay` may be
  written and the answer to the first confirm it. `BoardHasLast` (`astray`): a `SetRelay` that was
  lost or refused is not repeated.
* `InfoComes` (`garbledInfo`): an answer garbled into one to `GetInfo`, or a piece of one, stops the
  retry.
* `InStep` (`slipped`): `GetInfo` written again while its answer is under way, or an answer read
  in two pieces, shifts every later answer by one. `GateOpens`, `NewestColour` (`lost`, `refused`,
  `misread`, `dropped`): a lost exchange stalls the link, a refused colour is not repeated, and a
  colour given while the last request is a colour goes to a copy of it.
* `UnpacksWhatWasAsked`, `SettingsTell` (`overlap`, `recached`, `abandoned`): an archive may be
  rewritten or deleted between its verification and its unpacking; an archive found in the
  update directory is taken as a person's whoever asked for it first; the settings and the
  enabled service run ahead of an installation that comes to nothing. `ServerObeyed`
  (`abandoned`): `mRestarting` then stays set and the server is ignored until the next start.

### Fairness

`SchemeWorker`, `HumidityWorker`: the worker and the main thread are scheduled and waits with a
time limit end (weak fairness; the wait for the other scheme, which has none, ends by a release
only), and a posted slot is delivered (strong fairness on `RestartedSlot`, as the main thread may
be inside another call again and again but its event queue is served in between). A sender of the
other scheme that has claimed the board releases it unless it is terminated (strong fairness, as
the main thread may hold up the fan timer's again and again): after its claim only timed waits are
left. Nothing is assumed of the user, the sensors, the update or the performance test.
`RelaySharing`: each sender proceeds while it can. `TempLoops`: the worker proceeds and timers run
out. The temperature is under no fairness: liveness is stated under a temperature that stays.
`PerfTest`: requests are answered or time out and timers run out (weak fairness on the slots);
`ResultArrives` supposes that the network comes back for good. `TiLink`, `NrfLink`: the two timers
of the link, the microcontroller and the reading of what has arrived; the bound on faults lets
them end, not the fairness. `QueueDrains` needs the watchdog request every five seconds.
`SystemUpdate`: the six-hourly check, the end of every request, the opening of the popup and the
service (weak fairness), and strong fairness of a download that is accepted, because a check that
falls into a download may change the expected checksum so that the download is refused: the six
hours between checks are far longer than a download, so this does not happen every time.

## 4. Proofs

| theorem | says | from |
|---|---|---|
| `SchemeWorkerProofs!TypeCorrect`, `HumidityWorkerProofs!TypeCorrect` | type invariant | the bound on pending restarts is part of the inductive invariant: a slot posted was armed, so `armed + queued <= MaxPending` |
| `SchemeWorkerProofs!RestartIsArmed` | a running worker told to leave has its restart armed | type invariant; `restartWork` arms before it raises, and `stopWork` is lowered where a connection is consumed |
| `SchemeWorkerProofs!QuietWaits` | relays off in quiet waits, unless `terminate()` or an update has left them on (`leftOn`) or another sender's call has come between (`crossed`) | `QuietInv`: unless one of them holds, what is on at the board is on in `mRelayLast` too, but for the steps of the worker's own call, and relays are on only in a control loop or on the way to the operation that clears them |
| `HumidityWorkerProofs!AccessoryRests` | accessory off in OffLoop and after `run()`, with the same two exceptions | `AccInv`: the same for the accessory |
| `RelaySharingProofs!BlockedBySender` | a scheme that may not send has a sender on the other side, when no worker is terminated | a lemma classifies each step as a move outside the handshake, a claim or a release |
| `RelaySharingProofs!SendingIsMarked` | a scheme that sends has taken the other one's permission, without the fan timer | the same lemma; with the fan timer two senders share one object and the property fails |
| `RelaySharingProofs!TypeCorrect` | type invariant | the handshake's own types first, then those of the configurations and of the flags, step by step |
| `RelaySharingProofs!FanRunsWithLoad` | `FanWithLoad`, without the humidity worker | `FanInv`: the wanted and the last configuration have the fan with every load, and so has the board in between, as the fan is switched on before the loads and off after them |
| `RelaySharingProofs!AloneImplementsBoard` | one temperature worker, not terminated, implements `RelayBoard` step by step | `AloneInv`: the last configuration the worker holds is the one on the board; the lemma `NoStepLeft` says that a list of steps that is empty means that the target is reached |
| `TempLoopsProofs!TypeCorrect`, `Invariant` | type invariant; `Inv` | `Inv` says for every location of the worker what is wanted and what is on the board: nothing where a loop begins (`IdleInv`), the stages and sources of its own loop elsewhere (`OrderInv`, `DirectionInv`, `MixInv`), and at `send` what the operation before it leaves to be sent (`SyncInv`) |
| `TempLoopsProofs!StagesInOrder`, `Interlocked` | `StageOrder`; `Interlock`, `terminate()` included | `Inv`: only a send changes the board, and it takes over what is wanted, or, cut by `terminate()`, some of its steps (`Partway`), among which the first stage comes before the second |
| `TempLoopsProofs!CompressorHasRested`, `ValveSwitchedAtRest` | `CompressorRests`; `ValveAtRest` | the lemma `SendsAtRest`, from `RestInv`: the compressor is wanted only if it is on or has rested; until it has, the timer that each way to its first stage waits for runs, or the auxiliary loops have it, which restart that timer when they end |
| `TempLoopsProofs!DelayedAfterValve`, `NothingLeftOn` | `DelayAfterValve`; without updates and failures of the sensor nothing is left on | `DelayInv`: a delay that is owed is about to run, or a request to stop has cut it short, and never while the compressor is on |
| `PerfTestProofs!TypeCorrect`, `TestModeOnlyInTest`, `EveryStateHasExit`, `ResultsAreKept`, `PerformedOnce` | the five safety properties of the performance test | one invariant `Inv`: none of them is inductive alone. `Postponement`: the postponement timer runs exactly while an eligible test waits, and the report that a test starts is open in Eligible only; `TestInHand`: the test in hand is not one that is finished, unless a result was given up; `ResultInHand`: a stored result that a test or another open request could clear has been given up already |
| `TiLinkProofs!LastArrives` | `BoardHasLast` | `LastInv`, with `Leads`: the last `SetRelay` in line and queue, in that order, is the configuration asked for last; if there is none, the board has it or `astray` |
| `TiLinkProofs!ArriveInOrder` | `BoardForward` | `OrderInv`, with `Rises`: board, line and queue hold configurations in rising order as long as nothing has overtaken |
| `TiLinkProofs!ConfirmedAreSet`, `TypeCorrect` | `ConfirmedIsSet`; type invariant | `ConfirmInv`, with `OnlyOne`: until another answer ends a wait, the line holds one relay request at most, in one direction or the other; it is the one written last, and it is waited for |
| `NrfLinkProofs!TypeCorrect`, `AnswersInStep` | type invariant; `InStep` | `Matched`: one message on the line exactly when busy, and it belongs to the head of the queue, until `slipped`; a queue only grows at its end and shrinks when something is read |
| `NrfLinkProofs!NewestShown` | `NewestColour` | `ColourInv`, with `Brings`: the last colour in the queue is the one asked for last, or it is shown; the request on the line is the head of the queue, and when it has been answered its colour is shown, so that it may leave |
| `SystemUpdateProofs!TypeCorrect`, `PinnedIsKept` | type invariant; `PinnedKept` | `PinInv`: download, popup and installation each respect what is pinned (`AllHonour`), a forced request never carries the manual flag (`AllPlain`), the manual mode of the start lasts until it is left (`ManualMode`), and what is saved respects it after a restart as well (`SettingsHonour`) |
| `SystemUpdateProofs!UnpacksTheVerified`, `SettingsAreTrue` | `UnpacksWhatWasAsked`; `SettingsTell` | `FileInv`: the popup, the installation and an enabled service each name the file that lies in the update directory, and the settings say what the version that is installed, or will be, came from |

The theorems hold for every value of the
constants that satisfies the named assumptions (`MaxPendingAssumption`, `SwitchesAssumption`,
`SendersAssumption`, `LoopsAssumption`, `TestsAssumption`, `ReadingsAssumption`,
`BoundsAssumption`), and the
hypotheses in the table. Those of `RelaySharingProofs` are needed. A terminated sender never gives
the permission back, and with the fan timer the one of two senders on the same object that ends
first gives it back for both. With both workers a scheme skips the wires of the other one and
records them as sent, so the fan may go off under a relay of the other scheme (see Findings), and
the board is not the abstract one; nor is it with a worker that is terminated in the middle of a
change. The theorems about the links hold for any number of
updates and faults, so what the runs bound to three and one is not bounded there.

Types are proved for every module, and so are all safety invariants and action properties that a
run checks but those that the next paragraph names.

Only model-checked: that `RelayBoard` reaches its target, the live
half of the refinement; and every liveness property (the prover does not do liveness under
fairness, nor `ENABLED`): `StopHonoured`, `FinishedIsRestarted`, `Served`, `CallReturns`,
`DemandServed`, `OvershootEnds`, `CheckEnds`, `ResultArrives`, `QueueDrains`, `InfoComes`,
`GateOpens`, `ForcedInstalled`, `ServerObeyed`.

## 5. Not modelled

* The cloud synchronisation apart from the replies the performance test and the update wait for,
  the settings push of `DeviceController.qml`, the schedules, the watchdog and the user interface
  (the table in section 1, with the notes in `PROJECT.json`). They are the next candidates, below.
* Messages, the protobuf log, network interface, date and time, screen saver: they keep lists and
  files or drive external programs and share no state with the modelled parts.
* `DeviceControllerCPP` beyond its connections: sensor correction, persistence of the vacation,
  files of the back door.
* The back door that sets relays from a file (`stopSendingRelays`, `resumeSendingRelays`): a test
  facility; its wait is listed as a hazard without a property.
* In `TempLoops`: changes of the installed system while the worker runs, the length of the
  emergency timer; in the links: content of sensor packets, pairing, alerts, a port that
  fails to open; in `System`: log upload, reboot and reset commands, the initial setup.
* Everywhere: alerts, backlight levels, logging and countdown signals of the user interface.
* The PHP engine under `Backend/Legacy` and the generated documentation beside it: not run by the
  application.

## 6. Plan

Done, in this order: `WorkerThread`, `SchemeWorker`, `HumidityWorker` with their proofs; `Relay`,
`RelayBoard`, `RelaySharing` with its proofs, that of the refinement included; `TempLoops`;
`PerfTest`, `TiLink`, `NrfLink`, `SystemUpdate` with their proofs; `TempLoopsProofs`.

Open:

1. Changes of the setup and the emergency timer in `TempLoops`; the back door in `RelaySharing`.
2. `SettingsSync` (`DeviceController.qml`, `Sync.cpp`): edit modes, push and pull with late
   replies, the repeated report; `Schedules`: overlap and the active schedule, against a
   reference definition; `Watchdog`: hang and restart.
