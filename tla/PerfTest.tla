------------------------------ MODULE PerfTest ------------------------------
(***************************************************************************)
(* PerfTestService: once a day the device asks the cloud for a performance *)
(* test, tells it that the test starts, drives the temperature worker in a *)
(* fixed mode while it collects readings, stores the result and uploads it *)
(* until an upload succeeds.                                               *)
(*                                                                         *)
(* Everything runs in the main thread, so an action is a slot.  What makes *)
(* it hard is what comes between two slots: a reply that is late or fails, *)
(* the user who opens a page (postpones), closes it (resumes) or stops the *)
(* test, and a restart of the application, which keeps the stored result   *)
(* only.  All results go to one endpoint, for which RestApiExecutor has at *)
(* most one request open: another one is dropped without a word.           *)
(***************************************************************************)
EXTENDS Naturals

CONSTANTS
  Tests,     \* the ids of the tests the cloud may schedule
  NoTest,    \* no id
  Readings   \* the readings of one test

ASSUME TestsAssumption == NoTest \notin Tests
ASSUME ReadingsAssumption == Readings \in Nat \ {0}

VARIABLES
  state,         \* TestState
  isTestRunning, \* the test has the settings locked and the worker's signals connected
  perfMode,      \* SchemeDataProvider::isPerfTestRunning: the worker follows the test
  testId,
  isPostponed,
  wasEligible,   \* mWasEligibleBeforePostpone
  timers,        \* the timers that are active
  testTimeLeft,  \* in readings
  post,          \* the open request of the result endpoint
  saved,         \* the test whose result is in QSettings
  online,        \* the cloud can be reached
  finished,      \* history: tests whose readings were completed
  uploaded,      \* history: tests whose readings the cloud has received
  givenUp,       \* history: results expired, overtaken by another test, or dropped when due
  dropped        \* history: the report that a test starts met an open request

vars == <<state, isTestRunning, perfMode, testId, isPostponed, wasEligible, timers,
          testTimeLeft, post, saved, online, finished, uploaded, givenUp, dropped>>

cloud == <<online, finished, uploaded>>

States == {"Idle", "Checking", "Eligible", "Warmup", "Running", "Complete"}
Timers == {"schedule", "postpone", "getTemp", "finish", "retry"}
Results == {"running", "stopped", "finished"}
NoPost == [result |-> "none", id |-> NoTest]
Posts == [result : Results, id : Tests \cup {NoTest}] \cup {NoPost}

\* The states in which the popup offers to stop the test.
TestStates == {"Warmup", "Running"}

TypeOK ==
  /\ state \in States
  /\ isTestRunning \in BOOLEAN
  /\ perfMode \in BOOLEAN
  /\ testId \in Tests \cup {NoTest}
  /\ isPostponed \in BOOLEAN
  /\ wasEligible \in BOOLEAN
  /\ timers \subseteq Timers
  /\ testTimeLeft \in 0 .. Readings
  /\ post \in Posts
  /\ saved \in Tests \cup {NoTest}
  /\ online \in BOOLEAN
  /\ finished \subseteq Tests
  /\ uploaded \subseteq Tests
  /\ givenUp \subseteq Tests
  /\ dropped \in BOOLEAN

Init ==
  /\ state = "Idle"
  /\ isTestRunning = FALSE
  /\ perfMode = FALSE
  /\ testId = NoTest
  /\ isPostponed = FALSE
  /\ wasEligible = FALSE
  /\ timers = {"schedule"}
  /\ testTimeLeft = 0
  /\ post = NoPost
  /\ saved = NoTest
  /\ online \in BOOLEAN
  /\ finished = {}
  /\ uploaded = {}
  /\ givenUp = {}
  /\ dropped = FALSE

-----------------------------------------------------------------------------
(* Parts of the slots.                                                     *)

\* prepareAndSendApiResult(), callPostApi(): no second request for an endpoint that has one open.
Report(result, id) == post' = IF post = NoPost THEN [result |-> result, id |-> id] ELSE post

\* scheduleNextCheck(); `running` are the other timers that go on.
ScheduleNextCheck(running) ==
  /\ state' = "Idle"
  /\ testTimeLeft' = 0
  /\ timers' = running \cup {"schedule"}

\* prepareStartRunning(): the test starts with the reply to this report.
PrepareStartRunning ==
  /\ Report("running", testId')
  /\ dropped' = (dropped \/ post # NoPost)

\* Mutant of CleanupRunning: revertPerfTest() is not called.
CleanupRunningUnreverted ==
  /\ isTestRunning' = FALSE
  /\ UNCHANGED perfMode

\* cleanupRunning(): the worker goes back to the mode of the user.
CleanupRunning ==
  /\ isTestRunning' = FALSE
  /\ perfMode' = FALSE

\* checkAndSendSavedResult(): the stored result is sent again, or is too old.
SendSaved ==
  \/ /\ saved # NoTest
     /\ Report("finished", saved)
     /\ UNCHANGED <<saved, givenUp>>
  \/ /\ saved # NoTest
     /\ saved' = NoTest
     /\ givenUp' = givenUp \cup {saved}
     /\ UNCHANGED post
  \/ /\ saved = NoTest
     /\ UNCHANGED <<saved, givenUp, post>>

-----------------------------------------------------------------------------
(* The check whether a test is scheduled.                                  *)

\* checkTestEligibility(), by the timer, the menu or a command of the cloud.
CheckTestEligibility ==
  /\ state = "Idle"
  /\ timers' = timers \ {"schedule"}
  /\ state' = "Checking"
  /\ UNCHANGED <<isTestRunning, perfMode, testId, isPostponed, wasEligible, testTimeLeft,
                 post, saved, givenUp, dropped, cloud>>

\* The reply is an error, names no test or one that cannot run here, or names the test whose
\* result is still stored.
NotEligible ==
  /\ state = "Checking"
  /\ ScheduleNextCheck(timers)
  /\ UNCHANGED <<isTestRunning, perfMode, testId, isPostponed, wasEligible,
                 post, saved, givenUp, dropped, cloud>>

\* Mutant of TestEligible: the id of the stored result is not looked at.
TestEligibleAgain(id) ==
  /\ state = "Checking"
  /\ online
  /\ id \in Tests \ uploaded
  /\ testId' = id
  /\ state' = "Eligible"
  /\ wasEligible' = isPostponed
  /\ timers' = (timers \ {"retry"}) \cup (IF isPostponed THEN {"postpone"} ELSE {})
  /\ IF isPostponed THEN UNCHANGED <<post, dropped>> ELSE PrepareStartRunning
  /\ UNCHANGED <<isTestRunning, perfMode, isPostponed, testTimeLeft, saved, givenUp, cloud>>

\* The reply names a test to run.  A test whose readings it has is one the cloud is done with.
TestEligible(id) ==
  /\ state = "Checking"
  /\ online
  /\ id \in Tests \ uploaded
  /\ id # saved
  /\ testId' = id
  /\ state' = "Eligible"
  /\ givenUp' = IF saved = NoTest THEN givenUp ELSE givenUp \cup {saved}
  /\ IF isPostponed
     THEN /\ wasEligible' = TRUE
          /\ timers' = (timers \ {"retry"}) \cup {"postpone"}
          /\ UNCHANGED <<post, dropped>>
     ELSE /\ timers' = timers \ {"retry"}
          /\ PrepareStartRunning
          /\ UNCHANGED wasEligible
  /\ UNCHANGED <<isTestRunning, perfMode, isPostponed, testTimeLeft, saved, cloud>>

\* postponeTest(): another page or a popup is open.
PostponeTest ==
  /\ state \notin {"Warmup", "Running", "Complete"}
  /\ isPostponed' = TRUE
  /\ UNCHANGED <<state, isTestRunning, perfMode, testId, wasEligible, timers, testTimeLeft,
                 post, saved, givenUp, dropped, cloud>>

\* Mutant of ResumeTest: the timer of the postponement ends, the test is not started.
ResumeTestUnstarted ==
  /\ isPostponed
  /\ isPostponed' = FALSE
  /\ wasEligible' = FALSE
  /\ timers' = timers \ {"postpone"}
  /\ UNCHANGED <<state, isTestRunning, perfMode, testId, testTimeLeft, post, saved, givenUp,
                 dropped, cloud>>

\* resumeTest(): the home page is back.
ResumeTest ==
  /\ isPostponed
  /\ isPostponed' = FALSE
  /\ wasEligible' = FALSE
  /\ timers' = timers \ {"postpone"}
  /\ UNCHANGED testId
  /\ IF wasEligible THEN PrepareStartRunning ELSE UNCHANGED <<post, dropped>>
  /\ UNCHANGED <<state, isTestRunning, perfMode, testTimeLeft, saved, givenUp, cloud>>

\* Mutant of PostponeTimeout: the postponement ends and no check is scheduled.
PostponeTimeoutUnscheduled ==
  /\ "postpone" \in timers
  /\ timers' = timers \ {"postpone"}
  /\ isPostponed' = FALSE
  /\ wasEligible' = FALSE
  /\ UNCHANGED <<state, isTestRunning, perfMode, testId, testTimeLeft, post, saved, givenUp,
                 dropped, cloud>>

\* The slot of mTimerPostponeWatcher: not resumed in twelve hours.
PostponeTimeout ==
  /\ "postpone" \in timers
  /\ IF isPostponed
     THEN /\ isPostponed' = FALSE
          /\ wasEligible' = FALSE
          /\ ScheduleNextCheck(timers \ {"postpone"})
     ELSE /\ timers' = timers \ {"postpone"}
          /\ UNCHANGED <<isPostponed, wasEligible, state, testTimeLeft>>
  /\ UNCHANGED <<isTestRunning, perfMode, testId, post, saved, givenUp, dropped, cloud>>

-----------------------------------------------------------------------------
(* The test.                                                               *)

\* checkWarmupOrRun() and doPerfTest().
CheckWarmupOrRun ==
  /\ isTestRunning' = TRUE
  /\ state' = "Warmup"
  /\ perfMode' = TRUE

\* onCountdownStart(): the worker waits for its system delay, again or for the first time.
CountdownStart ==
  /\ isTestRunning
  /\ state' = "Warmup"
  /\ timers' = timers \ {"getTemp"}
  /\ UNCHANGED <<isTestRunning, perfMode, testId, isPostponed, wasEligible, testTimeLeft,
                 post, saved, givenUp, dropped, cloud>>

\* startRunning(), by onCountdownStop() or onActualModeStarted().
StartRunning ==
  /\ isTestRunning
  /\ state # "Running"
  /\ state' = "Running"
  /\ testTimeLeft' = Readings
  /\ timers' = timers \cup {"getTemp"}
  /\ UNCHANGED <<isTestRunning, perfMode, testId, isPostponed, wasEligible,
                 post, saved, givenUp, dropped, cloud>>

\* collectReading(); with the last one the result is stored and sent.
CollectReading ==
  /\ "getTemp" \in timers
  /\ testTimeLeft' = testTimeLeft - 1
  /\ IF testTimeLeft' > 0
     THEN UNCHANGED <<state, isTestRunning, perfMode, timers, post, saved, givenUp, finished>>
     ELSE /\ CleanupRunning
          /\ timers' = (timers \ {"getTemp"}) \cup {"finish"}
          /\ state' = "Complete"
          /\ saved' = testId
          /\ finished' = finished \cup {testId}
          /\ givenUp' = IF post = NoPost THEN givenUp \ {testId} ELSE givenUp \cup {testId}
          /\ Report("finished", testId)
  /\ UNCHANGED <<testId, isPostponed, wasEligible, dropped, online, uploaded>>

\* cancelTest(): the user stops the test.  The function itself does not test the state; its one
\* caller, the Stop button of PerfTestPopup.qml, is shown while a test warms up or runs, and
\* calls finishTest() where it is complete.
CancelTest ==
  /\ state \in TestStates
  /\ CleanupRunning
  /\ Report("stopped", testId)
  /\ ScheduleNextCheck(timers \ {"getTemp"})
  /\ UNCHANGED <<testId, isPostponed, wasEligible, saved, givenUp, dropped, cloud>>

\* finishTest(): the popup is closed, by the user or by mTimerFinish.
FinishTest ==
  /\ state = "Complete"
  /\ ScheduleNextCheck(timers \ {"finish"})
  /\ UNCHANGED <<isTestRunning, perfMode, testId, isPostponed, wasEligible,
                 post, saved, givenUp, dropped, cloud>>

-----------------------------------------------------------------------------
(* The result endpoint.                                                    *)

\* sendResultsToServer(), the request succeeds: every success clears what is stored.
PostSucceeds ==
  /\ post # NoPost
  /\ online
  /\ post' = NoPost
  /\ saved' = NoTest
  /\ timers' = timers \ {"retry"}
  /\ uploaded' = IF post.result = "finished" THEN uploaded \cup {post.id} ELSE uploaded

\* Mutant of PostFails: a result that failed is forgotten like one that succeeded.
PostFailsForgets ==
  /\ post # NoPost
  /\ ~online
  /\ post' = NoPost
  /\ timers' = IF post.result = "finished" THEN timers \cup {"retry"} ELSE timers
  /\ UNCHANGED uploaded
  /\ saved' = NoTest

\* Mutant of PostFails: the retry is left to the next restart.
PostFailsUntimed ==
  /\ post # NoPost
  /\ ~online
  /\ post' = NoPost
  /\ UNCHANGED <<timers, uploaded, saved>>

\* The request fails; the cloud may have received it all the same.
PostFails ==
  /\ post # NoPost
  /\ ~online
  /\ post' = NoPost
  /\ timers' = IF post.result = "finished" THEN timers \cup {"retry"} ELSE timers
  /\ \/ UNCHANGED uploaded
     \/ post.result = "finished" /\ uploaded' = uploaded \cup {post.id}
  /\ UNCHANGED saved

\* The reply, then handleResultUpload(): after the report that a test starts it does start.
PostReply ==
  /\ PostSucceeds \/ PostFails
  /\ IF post.result = "running"
     THEN CheckWarmupOrRun
     ELSE UNCHANGED <<isTestRunning, state, perfMode>>
  /\ UNCHANGED <<testId, isPostponed, wasEligible, testTimeLeft, online, finished, givenUp,
                 dropped>>

\* The slot of mTimerRetrySending.
RetryTimeout ==
  /\ "retry" \in timers
  /\ SendSaved
  /\ UNCHANGED <<state, isTestRunning, perfMode, testId, isPostponed, wasEligible, timers,
                 testTimeLeft, dropped, cloud>>

\* The application ends; its constructor sends what is stored and schedules a check.
AppRestart ==
  /\ state' = "Idle"
  /\ isTestRunning' = FALSE
  /\ perfMode' = FALSE
  /\ testId' = NoTest
  /\ isPostponed' = FALSE
  /\ wasEligible' = FALSE
  /\ timers' = {"schedule"}
  /\ testTimeLeft' = 0
  /\ dropped' = FALSE
  /\ \/ /\ saved # NoTest
        /\ post' = [result |-> "finished", id |-> saved]
        /\ UNCHANGED <<saved, givenUp>>
     \/ /\ post' = NoPost
        /\ saved' = NoTest
        /\ givenUp' = IF saved = NoTest THEN givenUp ELSE givenUp \cup {saved}
  /\ \/ UNCHANGED uploaded
     \/ post.result = "finished" /\ uploaded' = uploaded \cup {post.id}
  /\ UNCHANGED <<online, finished>>

\* The network comes and goes.
NetworkChanges ==
  /\ online' = ~online
  /\ UNCHANGED <<state, isTestRunning, perfMode, testId, isPostponed, wasEligible, timers,
                 testTimeLeft, post, saved, finished, uploaded, givenUp, dropped>>

-----------------------------------------------------------------------------

CheckReply == NotEligible \/ \E id \in Tests : TestEligible(id)

Next ==
  \/ CheckTestEligibility
  \/ CheckReply
  \/ PostponeTest \/ ResumeTest \/ PostponeTimeout
  \/ CountdownStart \/ StartRunning \/ CollectReading
  \/ CancelTest \/ FinishTest
  \/ PostReply \/ RetryTimeout
  \/ AppRestart \/ NetworkChanges

Spec == Init /\ [][Next]_vars

\* Replies come (or time out) and timers run out; nothing is assumed of the user, the worker,
\* the cloud's choice or the network.
Fairness ==
  /\ WF_vars(CheckTestEligibility)
  /\ WF_vars(CheckReply)
  /\ WF_vars(PostReply)
  /\ WF_vars(PostponeTimeout)
  /\ WF_vars(CollectReading)
  /\ WF_vars(FinishTest)
  /\ WF_vars(RetryTimeout)

FairSpec == Spec /\ Fairness

-----------------------------------------------------------------------------
(* Properties.                                                             *)

\* The settings are locked and the worker follows the test exactly while there is one: no
\* order of late replies, stops and restarts leaves the device in the mode of a test.
TestModeIffTesting ==
  /\ isTestRunning <=> state \in TestStates
  /\ perfMode <=> state \in TestStates

\* In every state something is under way that leaves it: a timer, the reply to a check or to
\* the report that the test starts, or the end of a postponement.  (Warmup waits for the
\* worker.)  The one exception is a report that was dropped: the service then stays Eligible.
HasExit ==
  /\ "schedule" \in timers <=> state = "Idle"
  /\ "getTemp" \in timers <=> state = "Running"
  /\ "finish" \in timers <=> state = "Complete"
  /\ state = "Eligible" =>
       \/ post.result = "running"
       \/ wasEligible /\ isPostponed /\ "postpone" \in timers
       \/ dropped

\* A completed test is uploaded, or its result is still stored for an upload - over failed
\* uploads and restarts - unless it expired, another test was taken, or its report was dropped.
ResultKept == finished \subseteq uploaded \cup givenUp \cup {saved}

\* A test is not performed a second time because its upload failed.
NotPerformedTwice == state \in TestStates => testId \notin finished \ givenUp

\* A check comes to an end: the device is idle again, or the test has started.
CheckEnds == (state \in {"Checking", "Eligible"}) ~> (state \notin {"Checking", "Eligible"} \/ dropped)

\* Once the cloud can be reached for good, every completed test is uploaded, with the
\* exceptions of ResultKept.
ResultArrives ==
  <>[]online => \A id \in Tests : (id \in finished) ~> (id \in uploaded \cup givenUp)

=============================================================================
