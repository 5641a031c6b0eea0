--------------------------- MODULE PerfTestProofs ---------------------------
(***************************************************************************)
(* What TLAPS proves of the performance-test service, for every set of     *)
(* tests and every number of readings.                                     *)
(*                                                                         *)
(* The five invariants hold together with three facts that make them       *)
(* inductive: what the timers and the open report say of the state         *)
(* (Postponement), that a test in hand has an id and was not completed     *)
(* before (TestInHand), and that a stored result that the reply to the     *)
(* open request may clear is either the one it carries or given up         *)
(* (ResultInHand).                                                         *)
(***************************************************************************)
EXTENDS PerfTest, TLAPS

\* From the reply that names a test to its end.
InTest == state \in {"Eligible", "Warmup", "Running"}

\* The timer of the postponement runs exactly while an eligible test waits for the home page;
\* the report that a test starts is open only while the service waits for its reply.
Postponement ==
  /\ "postpone" \in timers => state = "Eligible" /\ isPostponed
  /\ wasEligible <=> "postpone" \in timers
  /\ post.result = "running" => state = "Eligible" /\ "postpone" \notin timers

TestInHand ==
  /\ InTest => testId \in Tests /\ testId \notin finished \ givenUp
  /\ state = "Running" => testTimeLeft > 0
  /\ post.result = "finished" => post.id \in Tests

ResultInHand ==
  /\ InTest => saved \in givenUp \cup {NoTest}
  /\ post # NoPost /\ post # [result |-> "finished", id |-> saved]
       => saved \in givenUp \cup {NoTest}

Inv ==
  /\ TypeOK
  /\ TestModeIffTesting
  /\ HasExit
  /\ ResultKept
  /\ Postponement
  /\ TestInHand
  /\ ResultInHand

\* The constructor establishes it.
LEMMA InitInv == Init => Inv
<1> SUFFICES ASSUME Init PROVE Inv
  OBVIOUS
<1> USE DEF Init, NoPost
<1>1. TypeOK
  <2>1. testTimeLeft \in 0 .. Readings
    BY ReadingsAssumption DEF ReadingsAssumption
  <2>2. post \in Posts
    BY DEF Posts
  <2>3. state \in States /\ timers \subseteq Timers
    BY DEF States, Timers
  <2> QED BY <2>1, <2>2, <2>3 DEF TypeOK
<1>2. TestModeIffTesting /\ HasExit /\ ResultKept
  BY DEF TestModeIffTesting, HasExit, ResultKept, TestStates
<1>3. Postponement /\ TestInHand /\ ResultInHand
  BY DEF Postponement, TestInHand, ResultInHand, InTest
<1> QED BY <1>1, <1>2, <1>3 DEF Inv

\* A report carries a result and an id, or there is none.
LEMMA PostFields ==
  ASSUME post \in Posts
  PROVE  /\ post = NoPost <=> post.result = "none"
         /\ post # NoPost => /\ post.result \in Results
                             /\ post.id \in Tests \cup {NoTest}
                             /\ post = [result |-> post.result, id |-> post.id]
  BY DEF Posts, NoPost, Results

\* A check starts.
LEMMA CheckTestEligibilityInv ==
  ASSUME Inv, CheckTestEligibility
  PROVE  Inv'
<1> USE DEF Inv, CheckTestEligibility, cloud
<1>1. TypeOK'
  BY ReadingsAssumption DEF ReadingsAssumption, TypeOK, States, Timers
<1>2. (TestModeIffTesting /\ HasExit /\ Postponement)'
  BY PostFields DEF TypeOK, TestModeIffTesting, HasExit, Postponement, TestStates, NoPost
<1>3. (ResultKept /\ TestInHand /\ ResultInHand)'
  BY PostFields
  DEF TypeOK, ResultKept, TestInHand, ResultInHand, InTest, HasExit,
      Postponement, TestModeIffTesting, TestStates, NoPost, Results
<1> QED BY <1>1, <1>2, <1>3

\* The check ends without a test.
LEMMA NotEligibleInv ==
  ASSUME Inv, NotEligible
  PROVE  Inv'
<1> USE DEF Inv, NotEligible, ScheduleNextCheck, cloud
<1>1. TypeOK'
  BY ReadingsAssumption DEF ReadingsAssumption, TypeOK, States, Timers
<1>2. (TestModeIffTesting /\ HasExit /\ Postponement)'
  BY PostFields DEF TypeOK, TestModeIffTesting, HasExit, Postponement, TestStates, NoPost
<1>3. (ResultKept /\ TestInHand /\ ResultInHand)'
  BY PostFields
  DEF TypeOK, ResultKept, TestInHand, ResultInHand, InTest, HasExit,
      Postponement, TestModeIffTesting, TestStates, NoPost, Results
<1> QED BY <1>1, <1>2, <1>3

\* A test is taken: it is none whose result is stored or uploaded, so one that was completed has
\* been given up; and so is now the stored result.
LEMMA TestEligibleInv ==
  ASSUME Inv, NEW id \in Tests, TestEligible(id)
  PROVE  Inv'
<1> USE DEF Inv, TestEligible, PrepareStartRunning, cloud, Report
<1>1. TypeOK'
  <2>1. post' \in Posts
    BY DEF TypeOK, Posts, Results
  <2>2. testTimeLeft' \in 0 .. Readings
    BY ReadingsAssumption DEF ReadingsAssumption, TypeOK
  <2>3. uploaded' \subseteq Tests /\ givenUp' \subseteq Tests /\ finished' \subseteq Tests
    BY PostFields DEF TypeOK, TestInHand, InTest, HasExit, Results
  <2>4. state' \in States /\ timers' \subseteq Timers
    BY DEF TypeOK, States, Timers
  <2> QED BY <2>1, <2>2, <2>3, <2>4, TestsAssumption DEF TypeOK, TestInHand, InTest, HasExit
<1>2. (TestModeIffTesting /\ HasExit /\ Postponement)'
  <2>1. TestModeIffTesting' /\ Postponement'
    BY PostFields DEF TypeOK, TestModeIffTesting, HasExit, Postponement, TestStates, NoPost
  <2>2. CASE isPostponed
    BY <2>1, <2>2 DEF TypeOK, HasExit
  <2>3. CASE ~isPostponed /\ post = NoPost
    BY <2>1, <2>3 DEF TypeOK, HasExit
  <2>4. CASE ~isPostponed /\ post # NoPost
    BY <2>1, <2>4 DEF TypeOK, HasExit
  <2> QED BY <2>1, <2>2, <2>3, <2>4 DEF TypeOK
<1>3. (ResultKept /\ TestInHand /\ ResultInHand)'
  BY PostFields, ReadingsAssumption, TestsAssumption
  DEF ReadingsAssumption, TestsAssumption, TypeOK, ResultKept, TestInHand, ResultInHand,
      InTest, HasExit,
      Postponement, TestModeIffTesting, TestStates, NoPost, Results
<1> QED BY <1>1, <1>2, <1>3

\* A page is opened; a test that runs is not postponed.
LEMMA PostponeTestInv ==
  ASSUME Inv, PostponeTest
  PROVE  Inv'
<1> USE DEF Inv, PostponeTest, cloud
<1>1. TypeOK'
  BY ReadingsAssumption DEF ReadingsAssumption, TypeOK, States, Timers
<1>2. (TestModeIffTesting /\ HasExit /\ Postponement)'
  BY PostFields DEF TypeOK, TestModeIffTesting, HasExit, Postponement, TestStates, NoPost
<1>3. (ResultKept /\ TestInHand /\ ResultInHand)'
  BY PostFields
  DEF TypeOK, ResultKept, TestInHand, ResultInHand, InTest, HasExit,
      Postponement, TestModeIffTesting, TestStates, NoPost, Results
<1> QED BY <1>1, <1>2, <1>3

\* Only a test that became eligible while postponed is started.
LEMMA ResumeTestInv ==
  ASSUME Inv, ResumeTest
  PROVE  Inv'
<1> USE DEF Inv, ResumeTest, PrepareStartRunning, cloud, Report
<1>1. TypeOK'
  <2>1. post' \in Posts
    BY DEF TypeOK, Posts, Results
  <2>2. testTimeLeft' \in 0 .. Readings
    BY ReadingsAssumption DEF ReadingsAssumption, TypeOK
  <2>3. uploaded' \subseteq Tests /\ givenUp' \subseteq Tests /\ finished' \subseteq Tests
    BY PostFields DEF TypeOK, TestInHand, InTest, HasExit, Results
  <2>4. state' \in States /\ timers' \subseteq Timers
    BY DEF TypeOK, States, Timers
  <2> QED BY <2>1, <2>2, <2>3, <2>4, TestsAssumption DEF TypeOK, TestInHand, InTest, HasExit
<1>2. (TestModeIffTesting /\ HasExit /\ Postponement)'
  BY PostFields DEF TypeOK, TestModeIffTesting, HasExit, Postponement, TestStates, NoPost
<1>3. (ResultKept /\ TestInHand /\ ResultInHand)'
  BY PostFields
  DEF TypeOK, ResultKept, TestInHand, ResultInHand, InTest, HasExit,
      Postponement, TestModeIffTesting, TestStates, NoPost, Results
<1> QED BY <1>1, <1>2, <1>3

\* The timer runs in Eligible only, so no test is left running behind.
LEMMA PostponeTimeoutInv ==
  ASSUME Inv, PostponeTimeout
  PROVE  Inv'
<1> USE DEF Inv, PostponeTimeout, ScheduleNextCheck, cloud
<1>1. TypeOK'
  <2>1. post' \in Posts
    BY DEF TypeOK, Posts, Results
  <2>2. testTimeLeft' \in 0 .. Readings
    BY ReadingsAssumption DEF ReadingsAssumption, TypeOK
  <2>3. uploaded' \subseteq Tests /\ givenUp' \subseteq Tests /\ finished' \subseteq Tests
    BY PostFields DEF TypeOK, TestInHand, InTest, HasExit, Results
  <2>4. state' \in States /\ timers' \subseteq Timers
    BY DEF TypeOK, States, Timers
  <2> QED BY <2>1, <2>2, <2>3, <2>4, TestsAssumption DEF TypeOK, TestInHand, InTest, HasExit
<1>2. (TestModeIffTesting /\ HasExit /\ Postponement)'
  BY PostFields DEF TypeOK, TestModeIffTesting, HasExit, Postponement, TestStates, NoPost
<1>3. (ResultKept /\ TestInHand /\ ResultInHand)'
  BY PostFields
  DEF TypeOK, ResultKept, TestInHand, ResultInHand, InTest, HasExit,
      Postponement, TestModeIffTesting, TestStates, NoPost, Results
<1> QED BY <1>1, <1>2, <1>3

\* The worker's countdown keeps a test that runs in Warmup.
LEMMA CountdownStartInv ==
  ASSUME Inv, CountdownStart
  PROVE  Inv'
<1> USE DEF Inv, CountdownStart, cloud
<1>1. TypeOK'
  BY ReadingsAssumption DEF ReadingsAssumption, TypeOK, States, Timers
<1>2. (TestModeIffTesting /\ HasExit /\ Postponement)'
  BY PostFields DEF TypeOK, TestModeIffTesting, HasExit, Postponement, TestStates, NoPost
<1>3. (ResultKept /\ TestInHand /\ ResultInHand)'
  BY PostFields
  DEF TypeOK, ResultKept, TestInHand, ResultInHand, InTest, HasExit,
      Postponement, TestModeIffTesting, TestStates, NoPost, Results
<1> QED BY <1>1, <1>2, <1>3

\* The readings begin, at least one.
LEMMA StartRunningInv ==
  ASSUME Inv, StartRunning
  PROVE  Inv'
<1> USE DEF Inv, StartRunning, cloud
<1>1. TypeOK'
  BY ReadingsAssumption DEF ReadingsAssumption, TypeOK, States, Timers
<1>2. (TestModeIffTesting /\ HasExit /\ Postponement)'
  BY PostFields DEF TypeOK, TestModeIffTesting, HasExit, Postponement, TestStates, NoPost
<1>3. (ResultKept /\ TestInHand /\ ResultInHand)'
  BY PostFields, ReadingsAssumption, TestsAssumption
  DEF ReadingsAssumption, TestsAssumption, TypeOK, ResultKept, TestInHand, ResultInHand,
      InTest, HasExit,
      Postponement, TestModeIffTesting, TestStates, NoPost, Results
<1> QED BY <1>1, <1>2, <1>3

\* The last reading stores the result.
LEMMA CollectReadingInv ==
  ASSUME Inv, CollectReading
  PROVE  Inv'
<1> USE DEF Inv, CollectReading, CleanupRunning, cloud, Report
<1>1. TypeOK'
  <2>1. post' \in Posts
    BY DEF TypeOK, Posts, Results
  <2>2. testTimeLeft' \in 0 .. Readings
    BY ReadingsAssumption DEF ReadingsAssumption, TypeOK, HasExit, TestInHand
  <2>3. uploaded' \subseteq Tests /\ givenUp' \subseteq Tests /\ finished' \subseteq Tests
    BY PostFields DEF TypeOK, TestInHand, InTest, HasExit, Results
  <2>4. state' \in States /\ timers' \subseteq Timers
    BY DEF TypeOK, States, Timers
  <2> QED BY <2>1, <2>2, <2>3, <2>4, TestsAssumption DEF TypeOK, TestInHand, InTest, HasExit
<1>2. (TestModeIffTesting /\ HasExit /\ Postponement)'
  BY PostFields DEF TypeOK, TestModeIffTesting, HasExit, Postponement, TestStates, NoPost
<1>3. (ResultKept /\ TestInHand /\ ResultInHand)'
  BY PostFields, ReadingsAssumption, TestsAssumption
  DEF ReadingsAssumption, TestsAssumption, TypeOK, ResultKept, TestInHand, ResultInHand,
      InTest, HasExit,
      Postponement, TestModeIffTesting, TestStates, NoPost, Results
<1> QED BY <1>1, <1>2, <1>3

\* The test is stopped and never counts as completed.
LEMMA CancelTestInv ==
  ASSUME Inv, CancelTest
  PROVE  Inv'
<1> USE DEF Inv, CancelTest, CleanupRunning, ScheduleNextCheck, cloud, Report
<1>1. TypeOK'
  <2>1. post' \in Posts
    BY DEF TypeOK, Posts, Results
  <2>2. testTimeLeft' \in 0 .. Readings
    BY ReadingsAssumption DEF ReadingsAssumption, TypeOK
  <2>3. uploaded' \subseteq Tests /\ givenUp' \subseteq Tests /\ finished' \subseteq Tests
    BY PostFields DEF TypeOK, TestInHand, InTest, HasExit, Results
  <2>4. state' \in States /\ timers' \subseteq Timers
    BY DEF TypeOK, States, Timers
  <2> QED BY <2>1, <2>2, <2>3, <2>4, TestsAssumption DEF TypeOK, TestInHand, InTest, HasExit
<1>2. (TestModeIffTesting /\ HasExit /\ Postponement)'
  BY PostFields DEF TypeOK, TestModeIffTesting, HasExit, Postponement, TestStates, NoPost
<1>3. (ResultKept /\ TestInHand /\ ResultInHand)'
  BY PostFields
  DEF TypeOK, ResultKept, TestInHand, ResultInHand, InTest, HasExit,
      Postponement, TestModeIffTesting, TestStates, NoPost, Results
<1> QED BY <1>1, <1>2, <1>3

\* The popup of a completed test is closed.
LEMMA FinishTestInv ==
  ASSUME Inv, FinishTest
  PROVE  Inv'
<1> USE DEF Inv, FinishTest, ScheduleNextCheck, cloud
<1>1. TypeOK'
  BY ReadingsAssumption DEF ReadingsAssumption, TypeOK, States, Timers
<1>2. (TestModeIffTesting /\ HasExit /\ Postponement)'
  BY PostFields DEF TypeOK, TestModeIffTesting, HasExit, Postponement, TestStates, NoPost
<1>3. (ResultKept /\ TestInHand /\ ResultInHand)'
  BY PostFields
  DEF TypeOK, ResultKept, TestInHand, ResultInHand, InTest, HasExit,
      Postponement, TestModeIffTesting, TestStates, NoPost, Results
<1> QED BY <1>1, <1>2, <1>3

\* What a success clears was sent with it, or given up before.
LEMMA PostReplyInv ==
  ASSUME Inv, PostReply
  PROVE  Inv'
<1> USE DEF Inv, PostReply, PostSucceeds, PostFails, CheckWarmupOrRun, cloud
<1>1. TypeOK'
  <2>1. post' \in Posts
    BY DEF TypeOK, Posts, Results, NoPost
  <2>2. testTimeLeft' \in 0 .. Readings
    BY ReadingsAssumption DEF ReadingsAssumption, TypeOK
  <2>3. uploaded' \subseteq Tests /\ givenUp' \subseteq Tests /\ finished' \subseteq Tests
    BY PostFields DEF TypeOK, TestInHand, InTest, HasExit, Results
  <2>4. state' \in States /\ timers' \subseteq Timers
    BY DEF TypeOK, States, Timers
  <2> QED BY <2>1, <2>2, <2>3, <2>4, TestsAssumption DEF TypeOK, TestInHand, InTest, HasExit
<1>2. (TestModeIffTesting /\ HasExit /\ Postponement)'
  BY PostFields DEF TypeOK, TestModeIffTesting, HasExit, Postponement, TestStates, NoPost
<1>3. (ResultKept /\ TestInHand /\ ResultInHand)'
  BY PostFields
  DEF TypeOK, ResultKept, TestInHand, ResultInHand, InTest, HasExit,
      Postponement, TestModeIffTesting, TestStates, NoPost, Results
<1> QED BY <1>1, <1>2, <1>3

\* The stored result is sent again, or given up.
LEMMA RetryTimeoutInv ==
  ASSUME Inv, RetryTimeout
  PROVE  Inv'
<1> USE DEF Inv, RetryTimeout, SendSaved, cloud, Report
<1>1. TypeOK'
  BY PostFields, ReadingsAssumption DEF ReadingsAssumption, TypeOK, States, Timers, Posts, Results
<1>2. (TestModeIffTesting /\ HasExit /\ Postponement)'
  BY PostFields DEF TypeOK, TestModeIffTesting, HasExit, Postponement, TestStates, NoPost
<1>3. (ResultKept /\ TestInHand /\ ResultInHand)'
  BY PostFields
  DEF TypeOK, ResultKept, TestInHand, ResultInHand, InTest, HasExit,
      Postponement, TestModeIffTesting, TestStates, NoPost, Results
<1> QED BY <1>1, <1>2, <1>3

\* What is stored is sent, or expired.
LEMMA AppRestartInv ==
  ASSUME Inv, AppRestart
  PROVE  Inv'
<1> USE DEF Inv, AppRestart, cloud
<1>1. TypeOK'
  <2>1. post' \in Posts
    BY DEF TypeOK, Posts, Results, NoPost
  <2>2. testTimeLeft' \in 0 .. Readings
    BY ReadingsAssumption DEF ReadingsAssumption, TypeOK
  <2>3. uploaded' \subseteq Tests /\ givenUp' \subseteq Tests /\ finished' \subseteq Tests
    BY PostFields DEF TypeOK, TestInHand, InTest, HasExit, Results
  <2>4. state' \in States /\ timers' \subseteq Timers
    BY DEF TypeOK, States, Timers
  <2> QED BY <2>1, <2>2, <2>3, <2>4, TestsAssumption DEF TypeOK, TestInHand, InTest, HasExit
<1>2. (TestModeIffTesting /\ HasExit /\ Postponement)'
  BY PostFields DEF TypeOK, TestModeIffTesting, HasExit, Postponement, TestStates, NoPost
<1>3. (ResultKept /\ TestInHand /\ ResultInHand)'
  BY PostFields
  DEF TypeOK, ResultKept, TestInHand, ResultInHand, InTest, HasExit,
      Postponement, TestModeIffTesting, TestStates, NoPost, Results
<1> QED BY <1>1, <1>2, <1>3

\* The network changes nothing in the service.
LEMMA NetworkChangesInv ==
  ASSUME Inv, NetworkChanges
  PROVE  Inv'
<1> USE DEF Inv, NetworkChanges, cloud
<1>1. TypeOK'
  BY ReadingsAssumption DEF ReadingsAssumption, TypeOK, States, Timers
<1>2. (TestModeIffTesting /\ HasExit /\ Postponement)'
  BY PostFields DEF TypeOK, TestModeIffTesting, HasExit, Postponement, TestStates, NoPost
<1>3. (ResultKept /\ TestInHand /\ ResultInHand)'
  BY PostFields
  DEF TypeOK, ResultKept, TestInHand, ResultInHand, InTest, HasExit,
      Postponement, TestModeIffTesting, TestStates, NoPost, Results
<1> QED BY <1>1, <1>2, <1>3

\* Every step of the service keeps the invariant.
LEMMA NextInv == Inv /\ [Next]_vars => Inv'
<1> SUFFICES ASSUME Inv, [Next]_vars PROVE Inv'
  OBVIOUS
<1>1. CASE CheckTestEligibility \/ PostponeTest \/ ResumeTest \/ PostponeTimeout
  BY <1>1, CheckTestEligibilityInv, PostponeTestInv, ResumeTestInv, PostponeTimeoutInv
<1>2. CASE CheckReply
  BY <1>2, NotEligibleInv, TestEligibleInv DEF CheckReply
<1>3. CASE CountdownStart \/ StartRunning \/ CollectReading \/ CancelTest \/ FinishTest
  BY <1>3, CountdownStartInv, StartRunningInv, CollectReadingInv, CancelTestInv, FinishTestInv
<1>4. CASE PostReply \/ RetryTimeout
  BY <1>4, PostReplyInv, RetryTimeoutInv
<1>5. CASE AppRestart \/ NetworkChanges
  BY <1>5, AppRestartInv, NetworkChangesInv
<1>6. CASE UNCHANGED vars
  BY <1>6
  DEF vars, cloud, Inv, TypeOK, TestModeIffTesting, HasExit, ResultKept, Postponement,
      TestInHand, ResultInHand, InTest
<1> QED BY <1>1, <1>2, <1>3, <1>4, <1>5, <1>6 DEF Next

\* The conjunction is an invariant.
THEOREM Invariance == Spec => []Inv
  BY InitInv, NextInv, PTL DEF Spec

\* The state of the service keeps its type, for any tests and any number of readings.
THEOREM TypeCorrect == Spec => []TypeOK
<1>1. Inv => TypeOK
  BY DEF Inv
<1> QED BY <1>1, Invariance, PTL

\* The worker follows a test, and the settings are locked, exactly while there is one.
THEOREM TestModeOnlyInTest == Spec => []TestModeIffTesting
<1>1. Inv => TestModeIffTesting
  BY DEF Inv
<1> QED BY <1>1, Invariance, PTL

\* Every state has a timer or a reply under way that leaves it, but for a dropped report.
THEOREM EveryStateHasExit == Spec => []HasExit
<1>1. Inv => HasExit
  BY DEF Inv
<1> QED BY <1>1, Invariance, PTL

\* A completed test is uploaded, stored, or was knowingly given up.
THEOREM ResultsAreKept == Spec => []ResultKept
<1>1. Inv => ResultKept
  BY DEF Inv
<1> QED BY <1>1, Invariance, PTL

\* A completed test is not performed again, unless its result was given up.
THEOREM PerformedOnce == Spec => []NotPerformedTwice
<1>1. Inv => NotPerformedTwice
  BY DEF Inv, TestInHand, InTest, NotPerformedTwice, TestStates
<1> QED BY <1>1, Invariance, PTL

=============================================================================
