---------------------------- MODULE NrfLinkProofs ----------------------------
(***************************************************************************)
(* What TLAPS proves of the link to the nRF, for any number of colours,    *)
(* updates and faults and any length of the queue: the types, that what is *)
(* read is the answer to the head of the queue (InStep), and that the nRF  *)
(* ends up with the colour asked for last (NewestColour).                  *)
(***************************************************************************)
EXTENDS NrfLink, SequenceTheorems, TLAPS

\* The queue, the line and the retry.
LinkTypes ==
  /\ queue \in Seq(Requests) /\ requests \in Seq(Requests)
  /\ answers \in Seq(Answers)
  /\ busy \in BOOLEAN /\ retry \in BOOLEAN

\* The GPIO threads.
GateTypes == waiting \in [Pins -> BOOLEAN] /\ events \in [Pins -> Nat]

\* The counters, and the history.
CountTypes ==
  /\ wanted \in Colours /\ shown \in Colours
  /\ updates \in 0..Updates /\ faults \in 0..MaxFaults
FlagTypes ==
  /\ slipped \in BOOLEAN /\ lost \in BOOLEAN
  /\ refused \in BOOLEAN /\ misread \in BOOLEAN /\ dropped \in BOOLEAN

TypeInv == LinkTypes /\ GateTypes /\ CountTypes /\ FlagTypes

\* The type invariant is the conjunction of the parts that the proofs take one by one.
LEMMA TypeOKMeans == TypeOK <=> TypeInv
  BY DEF TypeOK, TypeInv, LinkTypes, GateTypes, CountTypes, FlagTypes

\* What the operations push are requests.
LEMMA RequestTypes ==
  /\ \A cmd \in Commands : Request(cmd) \in Requests
  /\ \A n \in Colours : SetColorRGB(n) \in Requests
  /\ \A pin \in Pins : RequestOf(pin) \in Requests
  BY BoundsAssumption
  DEF BoundsAssumption, Request, SetColorRGB, RequestOf, Requests, Commands, Colours, Pins

\* processNRFQueue() keeps the types of the queue and of the line.
LEMMA ProcessTypes ==
  ASSUME LinkTypes, NEW q \in Seq(Requests), NEW isBusy \in BOOLEAN, NEW running \in BOOLEAN,
         processNRFQueue(q, isBusy, running)
  PROVE  /\ queue' \in Seq(Requests) /\ requests' \in Seq(Requests)
         /\ busy' \in BOOLEAN /\ retry' \in BOOLEAN
<1>1. MayWrite(q, isBusy) => Head(q) \in Requests
  BY DEF MayWrite
<1> QED BY <1>1 DEF processNRFQueue, LinkTypes, MayWrite

-----------------------------------------------------------------------------
(***************************************************************************)
(* Sequences.                                                              *)
(***************************************************************************)

\* Appending leaves the head alone and keeps what is queued.
LEMMA AppendKeeps ==
  ASSUME NEW q \in Seq(Requests), NEW r \in Requests
  PROVE  /\ Append(q, r) \in Seq(Requests) /\ Append(q, r) # <<>>
         /\ q # <<>> => Head(Append(q, r)) = Head(q)
         /\ Len(Append(q, r)) = Len(q) + 1 /\ Append(q, r)[Len(q) + 1] = r
         /\ \A i \in DOMAIN q : i \in DOMAIN Append(q, r) /\ Append(q, r)[i] = q[i]
<1>1. /\ Append(q, r) \in Seq(Requests) /\ Append(q, r) # <<>>
      /\ Len(Append(q, r)) = Len(q) + 1
      /\ \A i \in 1 .. Len(q) : Append(q, r)[i] = q[i]
      /\ Append(q, r)[Len(q) + 1] = r
  BY AppendProperties
<1>2. q # <<>> => Head(Append(q, r)) = Head(q)
  BY HeadTailAppend
<1> QED BY <1>1, <1>2

\* What is queued is the head or stays in the tail.
LEMMA TailKeeps ==
  ASSUME NEW q \in Seq(Requests), q # <<>>
  PROVE  /\ Tail(q) \in Seq(Requests) /\ Head(q) \in Requests
         /\ Len(Tail(q)) = Len(q) - 1
         /\ \A i \in DOMAIN q : i = 1 \/ (i - 1 \in DOMAIN Tail(q) /\ Tail(q)[i - 1] = q[i])
         /\ Head(q) = q[1]
  OBVIOUS

\* The queue after something was read.
LEMMA RestKeeps ==
  ASSUME LinkTypes, NEW cmd, NEW ok \in BOOLEAN
  PROVE  /\ Rest(cmd, ok) \in Seq(Requests)
         /\ queue # <<>> => \A i \in DOMAIN queue : i = 1 \/
              (i - 1 \in DOMAIN Rest(cmd, ok) /\ Rest(cmd, ok)[i - 1] = queue[i])
<1> DEFINE q == IF cmd = "GetIntoDFU" /\ ok THEN Append(queue, Request("GetInfo")) ELSE queue
<1>1. Request("GetInfo") \in Requests
  BY RequestTypes DEF Commands
<1>2. /\ q \in Seq(Requests)
      /\ queue # <<>> => q # <<>> /\ \A i \in DOMAIN queue : i \in DOMAIN q /\ q[i] = queue[i]
  BY <1>1, AppendKeeps DEF LinkTypes
<1>3. Rest(cmd, ok) = IF q = <<>> THEN q ELSE Tail(q)
  BY DEF Rest
<1> HIDE DEF q
<1>4. CASE q = <<>>
  BY <1>2, <1>3, <1>4
<1>5. CASE q # <<>>
  BY <1>2, <1>3, <1>5, TailKeeps
<1> QED BY <1>4, <1>5

-----------------------------------------------------------------------------
(***************************************************************************)
(* Types.                                                                  *)
(***************************************************************************)

\* The types hold when the port has been opened.
LEMMA InitTypes == Init => TypeInv
<1> SUFFICES ASSUME Init PROVE TypeInv
  OBVIOUS
<1>1. /\ Request("GetInfo") \in Requests /\ Request("InitMcus") \in Requests
      /\ Request("GetSensors") \in Requests
  BY RequestTypes DEF Commands
<1>2. LinkTypes
  BY <1>1 DEF Init, LinkTypes
<1>3. GateTypes
  BY DEF Init, GateTypes
<1>4. CountTypes
  <2>1. wanted = 0 /\ shown = 0 /\ updates = 0 /\ faults = 0
    BY DEF Init
  <2> QED BY <2>1, BoundsAssumption DEF BoundsAssumption, CountTypes, Colours
<1>5. FlagTypes
  BY DEF Init, FlagTypes
<1> QED BY <1>2, <1>3, <1>4, <1>5 DEF TypeInv

\* A request that is pushed.
LEMMA PushTypes ==
  ASSUME LinkTypes, NEW r \in Requests, Push(r), UNCHANGED answers
  PROVE  LinkTypes'
<1>1. Append(queue, r) \in Seq(Requests)
  BY AppendKeeps DEF LinkTypes
<1> QED BY <1>1, ProcessTypes DEF Push, LinkTypes

\* An answer that is read is whole or not.
LEMMA AnswerTypes == LinkTypes /\ answers # <<>> => Head(answers).ok \in BOOLEAN
<1>1. LinkTypes /\ answers # <<>> => Head(answers) \in Answers
  BY HeadTailProperties DEF LinkTypes
<1> QED BY <1>1 DEF Answers

\* Something that is read.
LEMMA TakeTypes ==
  ASSUME LinkTypes, answers # <<>>, answers' = Tail(answers),
         NEW sent, NEW cmd, NEW ok \in BOOLEAN, Take(sent, cmd, ok)
  PROVE  LinkTypes'
<1>1. Rest(cmd, ok) \in Seq(Requests)
  BY RestKeeps
<1>2. answers' \in Seq(Answers)
  BY HeadTailProperties DEF LinkTypes
<1>3. (retry /\ ~(sent = "GetInfo" /\ cmd = "GetInfo")) \in BOOLEAN
  OBVIOUS
<1> QED BY <1>1, <1>2, <1>3, ProcessTypes DEF Take, LinkTypes

\* Every step keeps the types of the queue, of the line and of the retry.
LEMMA NextLinkTypes == TypeInv /\ [Next]_vars => LinkTypes'
<1> SUFFICES ASSUME TypeInv, [Next]_vars PROVE LinkTypes'
  OBVIOUS
<1> LinkTypes /\ CountTypes
  BY DEF TypeInv
<1>1. CASE nRFExec \/ setFanSpeed
  BY <1>1, PushTypes, RequestTypes DEF nRFExec, setFanSpeed, Commands
<1>2. CASE setBacklight
  <2>1. SetColorRGB(wanted + 1) \in Requests
    BY <1>2, RequestTypes, BoundsAssumption DEF setBacklight, BoundsAssumption, CountTypes, Colours
  <2>2. CASE Merges(queue)
    BY <1>2, <2>2, ProcessTypes DEF setBacklight, LinkTypes
  <2>3. CASE ~Merges(queue)
    BY <1>2, <2>1, <2>3, PushTypes DEF setBacklight
  <2> QED BY <2>2, <2>3
<1>3. CASE UpdateFirmware
  BY <1>3, PushTypes, RequestTypes DEF UpdateFirmware, Commands
<1>4. CASE \E pin \in Pins : Interrupt(pin) \/ EventIgnored(pin)
  BY <1>4 DEF Interrupt, EventIgnored, LinkTypes, nrf
<1>5. CASE \E pin \in Pins : EventRequests(pin)
  BY <1>5, PushTypes, RequestTypes DEF EventRequests
<1>6. CASE Serve \/ Refuse
  <2>1. Head(requests) \in Requests /\ Tail(requests) \in Seq(Requests)
    BY <1>6, HeadTailProperties DEF Serve, Refuse, LinkTypes
  <2>2. PICK a \in Answers : answers' = Append(answers, a)
    BY <1>6, <2>1 DEF Serve, Refuse, Requests, Answers
  <2>3. answers' \in Seq(Answers)
    BY <2>2, AppendProperties DEF LinkTypes
  <2> QED BY <1>6, <2>1, <2>3 DEF Serve, Refuse, LinkTypes
<1>7. CASE LoseRequest \/ LoseAnswer
  BY <1>7, HeadTailProperties DEF LoseRequest, LoseAnswer, LinkTypes
<1>8. CASE ReadAnswer
  <2>1. Head(answers).ok \in BOOLEAN
    BY <1>8, AnswerTypes DEF ReadAnswer
  <2> QED BY <1>8, <2>1, TakeTypes DEF ReadAnswer
<1>9. CASE ReadGarbled
  BY <1>9, TakeTypes DEF ReadGarbled
<1>12. CASE ReadPart
  <2> DEFINE rest == [cmd |-> "Rest", ok |-> FALSE]
  <2>1. rest \in Answers
    BY DEF Answers
  <2>2. Tail(answers) \in Seq(Answers)
    BY <1>12, HeadTailProperties DEF ReadPart, LinkTypes
  <2>3. answers' = <<rest>> \o Tail(answers)
    BY <1>12 DEF ReadPart
  <2>4. answers' \in Seq(Answers)
    <3>1. <<rest>> \in Seq(Answers)
      BY <2>1
    <3> HIDE DEF rest
    <3> QED BY <2>2, <2>3, <3>1, ConcatProperties
  <2>5. PICK sent \in SentCommands, cmd \in Commands : Take(sent, cmd, FALSE)
    BY <1>12 DEF ReadPart
  <2>6. Rest(cmd, FALSE) \in Seq(Requests)
    BY RestKeeps
  <2>7. (retry /\ ~(sent = "GetInfo" /\ cmd = "GetInfo")) \in BOOLEAN
    OBVIOUS
  <2> QED BY <2>4, <2>5, <2>6, <2>7, ProcessTypes DEF Take, LinkTypes
<1>10. CASE RetryLost \/ RetryLate
  BY <1>10, ProcessTypes DEF RetryLost, RetryLate, Again, LinkTypes
<1>11. CASE UNCHANGED vars
  BY <1>11 DEF vars, LinkTypes
<1> QED
  BY <1>1, <1>2, <1>3, <1>4, <1>5, <1>6, <1>7, <1>8, <1>9, <1>10, <1>11, <1>12
  DEF Next

\* Every step keeps the types of the GPIO threads.
LEMMA NextGateTypes == TypeInv /\ [Next]_vars => GateTypes'
<1> SUFFICES ASSUME GateTypes, [Next]_vars PROVE GateTypes'
  BY DEF TypeInv
<1>1. CASE \E pin \in Pins : Interrupt(pin) \/ EventIgnored(pin) \/ EventRequests(pin)
  <2> PICK pin \in Pins : Interrupt(pin) \/ EventIgnored(pin) \/ EventRequests(pin)
    BY <1>1
  <2>1. waiting' \in [Pins -> BOOLEAN]
    BY DEF Interrupt, EventIgnored, EventRequests, GateTypes
  <2>2. CASE Interrupt(pin)
    BY <2>1, <2>2 DEF Interrupt, GateTypes
  <2>3. CASE EventIgnored(pin) \/ EventRequests(pin)
    BY <2>1, <2>3 DEF EventIgnored, EventRequests, GateTypes
  <2> QED BY <2>2, <2>3
<1>2. CASE ReadAnswer \/ ReadGarbled \/ ReadPart
  BY <1>2 DEF ReadAnswer, ReadGarbled, ReadPart, Take, GateTypes
<1>3. CASE UNCHANGED gpio
  BY <1>3 DEF gpio, GateTypes
<1> QED
  BY <1>1, <1>2, <1>3
  DEF Next, nRFExec, setFanSpeed, setBacklight, UpdateFirmware, Serve, Refuse, LoseRequest,
      LoseAnswer,
      RetryLost, RetryLate, vars, gpio

\* Every step keeps the colours and the counters within their bounds.
LEMMA NextCountTypes == TypeInv /\ [Next]_vars => CountTypes'
<1> SUFFICES ASSUME LinkTypes, CountTypes, [Next]_vars PROVE CountTypes'
  BY DEF TypeInv
<1>1. CASE setBacklight
  BY <1>1, BoundsAssumption DEF BoundsAssumption, setBacklight, CountTypes, Colours
<1>2. CASE UpdateFirmware
  BY <1>2, BoundsAssumption DEF BoundsAssumption, UpdateFirmware, CountTypes
<1>3. CASE Serve
  <2>1. Head(requests) \in Requests
    BY <1>3, HeadTailProperties DEF Serve, LinkTypes
  <2> QED BY <1>3, <2>1 DEF Serve, CountTypes, Requests
<1>4. CASE Fault /\ UNCHANGED <<wanted, shown, updates>>
  BY <1>4, BoundsAssumption DEF BoundsAssumption, Fault, CountTypes
<1>5. CASE UNCHANGED <<wanted, shown, updates, faults>>
  BY <1>5 DEF CountTypes
<1> QED
  BY <1>1, <1>2, <1>3, <1>4, <1>5
  DEF Next, nRFExec, setFanSpeed, Interrupt, EventRequests, EventIgnored, Refuse, LoseRequest,
      LoseAnswer,
      ReadAnswer, ReadGarbled, ReadPart, RetryLost, RetryLate, vars, nrf

\* Every step keeps the history Boolean.
LEMMA NextFlagTypes == TypeInv /\ [Next]_vars => FlagTypes'
<1> SUFFICES ASSUME FlagTypes, [Next]_vars PROVE FlagTypes'
  BY DEF TypeInv
<1> QED
  BY DEF Next, nRFExec, setFanSpeed, setBacklight, LastIsColour, UpdateFirmware, Interrupt,
         EventRequests,
         EventIgnored, Serve, Refuse, LoseRequest, LoseAnswer, ReadAnswer, ReadGarbled, ReadPart,
         RetryLost, RetryLate, vars, history, FlagTypes

\* The state of the link keeps its type, for all bounds.
THEOREM TypeCorrect == Spec => []TypeOK
<1>1. Init => TypeInv
  BY InitTypes
<1>2. TypeInv /\ [Next]_vars => TypeInv'
  BY NextLinkTypes, NextGateTypes, NextCountTypes, NextFlagTypes DEF TypeInv
<1>3. TypeInv => TypeOK
  BY TypeOKMeans
<1> QED BY <1>1, <1>2, <1>3, PTL DEF Spec

-----------------------------------------------------------------------------
(***************************************************************************)
(* InStep.                                                                 *)
(***************************************************************************)

\* At most one message is on the line, and it belongs to the head of a busy queue.
Matched ==
  /\ requests = <<>> \/ answers = <<>>
  /\ Len(requests) <= 1 /\ Len(answers) <= 1
  /\ requests # <<>> => busy /\ queue # <<>> /\ Head(requests).cmd = Head(queue).cmd
  /\ answers # <<>> => busy /\ queue # <<>> /\ Head(answers).cmd = Head(queue).cmd

\* InStep says of the two ends of the line what Matched says of each.
LEMMA MatchedIsInStep == TypeInv => (InStep <=> (slipped \/ Matched))
<1> SUFFICES ASSUME TypeInv PROVE InStep <=> (slipped \/ Matched)
  OBVIOUS
<1>1. /\ Len(requests) \in Nat /\ (requests = <<>> <=> Len(requests) = 0)
      /\ Len(answers) \in Nat /\ (answers = <<>> <=> Len(answers) = 0)
      /\ slipped \in BOOLEAN
  BY EmptySeq, LenProperties DEF TypeInv, LinkTypes, FlagTypes
<1>2. Len(requests) + Len(answers) <= 1 <=>
        (requests = <<>> \/ answers = <<>>) /\ Len(requests) <= 1 /\ Len(answers) <= 1
  BY <1>1
<1> QED BY <1>1, <1>2 DEF InStep, Matched

\* processNRFQueue() on an idle line writes the head of the queue, or nothing.
LEMMA ProcessMatched ==
  ASSUME TypeInv, NEW q \in Seq(Requests), NEW isBusy \in BOOLEAN, NEW running,
         processNRFQueue(q, isBusy, running), requests = <<>>, answers' = <<>>
  PROVE  Matched'
<1>1. CASE MayWrite(q, isBusy)
  <2>1. Head(q) \in Requests
    BY <1>1, HeadTailProperties DEF MayWrite
  <2>2. requests' = <<Head(q)>> /\ queue' = q /\ busy' /\ q # <<>>
    <3>1. requests' = Append(<<>>, Head(q))
      BY <1>1 DEF processNRFQueue
    <3>2. Append(<<>>, Head(q)) = <<Head(q)>>
      BY <2>1
    <3> QED BY <1>1, <3>1, <3>2 DEF processNRFQueue, MayWrite
  <2> QED BY <2>1, <2>2 DEF Matched
<1>2. CASE ~MayWrite(q, isBusy)
  BY <1>2 DEF processNRFQueue, Matched
<1> QED BY <1>1, <1>2

\* A request that is pushed behind others leaves the head alone; an idle line takes it.
LEMMA PushMatched ==
  ASSUME TypeInv, Matched, NEW r \in Requests, Push(r), UNCHANGED answers
  PROVE  Matched'
<1>1. Append(queue, r) \in Seq(Requests)
  BY AppendKeeps DEF TypeInv, LinkTypes
<1>2. CASE requests = <<>> /\ answers = <<>>
  BY <1>1, <1>2, ProcessMatched DEF Push, TypeInv, LinkTypes
<1>3. CASE requests # <<>> \/ answers # <<>>
  <2>1. busy /\ queue # <<>>
    BY <1>3 DEF Matched
  <2>2. queue' = Append(queue, r) /\ requests' = requests /\ busy'
    BY <2>1 DEF Push, processNRFQueue, MayWrite
  <2>3. queue' # <<>> /\ Head(queue') = Head(queue)
    BY <2>1, <2>2, AppendKeeps DEF TypeInv, LinkTypes
  <2> QED BY <2>2, <2>3 DEF Matched
<1> QED BY <1>2, <1>3

\* A line that holds one message is empty once it is taken.
LEMMA TailOfOne ==
  ASSUME NEW S, NEW line \in Seq(S), line # <<>>, Len(line) <= 1
  PROVE  Tail(line) = <<>>
<1>1. Len(line) \in Nat /\ Len(line) # 0
  BY EmptySeq, LenProperties
<1>2. Len(line) = 1
  <2>1. \A n \in Nat : n # 0 /\ n <= 1 => n = 1
    BY SMT
  <2> QED BY <1>1, <2>1, Zenon
<1>3. Tail(line) \in Seq(S) /\ Len(Tail(line)) = 0
  BY <1>2, HeadTailProperties
<1> QED BY <1>3, EmptySeq

\* Whatever is read empties the line, so that the next request is written on an idle one.
LEMMA TakeMatched ==
  ASSUME TypeInv, Matched, answers # <<>>, answers' = Tail(answers),
         NEW sent, NEW cmd, NEW ok \in BOOLEAN, Take(sent, cmd, ok)
  PROVE  Matched'
<1>1. requests = <<>> /\ answers' = <<>>
  BY TailOfOne DEF Matched, TypeInv, LinkTypes
<1>2. Rest(cmd, ok) \in Seq(Requests)
  BY RestKeeps DEF TypeInv
<1> QED BY <1>1, <1>2, ProcessMatched DEF Take

\* The nRF takes the request on the line and gives the answer to it.
LEMMA ServeMatched ==
  ASSUME TypeInv, Matched, Serve \/ Refuse
  PROVE  Matched'
<1>1. /\ requests # <<>> /\ requests' = Tail(requests)
      /\ UNCHANGED <<queue, busy>>
  BY DEF Serve, Refuse
<1>2. PICK ok \in BOOLEAN : answers' = Append(answers, [cmd |-> Head(requests).cmd, ok |-> ok])
  BY DEF Serve, Refuse
<1>3. requests' = <<>> /\ answers = <<>>
  BY <1>1, TailOfOne DEF Matched, TypeInv, LinkTypes
<1> DEFINE a == [cmd |-> Head(requests).cmd, ok |-> ok]
<1>4. Append(<<>>, a) = <<a>>
  OBVIOUS
<1>5. answers' = <<a>>
  BY <1>2, <1>3, <1>4
<1>6. Len(answers') = 1 /\ Head(answers').cmd = Head(requests).cmd
  BY <1>5
<1> QED BY <1>1, <1>3, <1>6 DEF Matched

\* What is on the line is lost.
LEMMA LoseMatched ==
  ASSUME TypeInv, Matched, LoseRequest \/ LoseAnswer
  PROVE  Matched'
<1>1. CASE LoseRequest
  <2>1. requests' = <<>> /\ UNCHANGED <<queue, busy, answers>>
    BY <1>1, TailOfOne DEF LoseRequest, Matched, TypeInv, LinkTypes
  <2> QED BY <2>1 DEF Matched
<1>2. CASE LoseAnswer
  <2>1. answers' = <<>> /\ UNCHANGED <<queue, busy, requests>>
    BY <1>2, TailOfOne DEF LoseAnswer, Matched, TypeInv, LinkTypes
  <2> QED BY <2>1 DEF Matched
<1> QED BY <1>1, <1>2

\* As long as no GetInfo is written again too early and every answer is read in one piece, every
\* step keeps the line in step.
LEMMA NextMatched == TypeInv /\ (slipped \/ Matched) /\ [Next]_vars => (slipped \/ Matched)'
<1> SUFFICES ASSUME TypeInv, slipped \/ Matched, [Next]_vars, ~slipped'
             PROVE  Matched'
  OBVIOUS
<1> ~slipped
  BY DEF Next, nRFExec, setFanSpeed, setBacklight, UpdateFirmware, Interrupt, EventRequests,
         EventIgnored, Serve, Refuse, LoseRequest, LoseAnswer, ReadAnswer, ReadGarbled, ReadPart,
         RetryLost, RetryLate, vars, history
<1> Matched
  OBVIOUS
<1>1. CASE nRFExec \/ setFanSpeed
  BY <1>1, PushMatched, RequestTypes DEF nRFExec, setFanSpeed, Commands
<1>2. CASE setBacklight
  <2>1. SetColorRGB(wanted + 1) \in Requests
    BY <1>2, RequestTypes, BoundsAssumption
    DEF setBacklight, BoundsAssumption, TypeInv, CountTypes, Colours
  <2>2. CASE Merges(queue)
    <3>1. processNRFQueue(queue, busy, retry) /\ UNCHANGED answers
      BY <1>2, <2>2 DEF setBacklight
    <3>2. CASE requests = <<>> /\ answers = <<>>
      BY <3>1, <3>2, ProcessMatched DEF TypeInv, LinkTypes
    <3>3. CASE requests # <<>> \/ answers # <<>>
      <4>1. busy
        BY <3>3 DEF Matched
      <4>2. UNCHANGED <<queue, requests>> /\ busy'
        BY <3>1, <4>1 DEF processNRFQueue, MayWrite
      <4> QED BY <3>1, <4>2 DEF Matched
    <3> QED BY <3>2, <3>3
  <2>3. CASE ~Merges(queue)
    BY <1>2, <2>1, <2>3, PushMatched DEF setBacklight
  <2> QED BY <2>2, <2>3
<1>3. CASE UpdateFirmware
  BY <1>3, PushMatched, RequestTypes DEF UpdateFirmware, Commands
<1>4. CASE \E pin \in Pins : EventRequests(pin)
  BY <1>4, PushMatched, RequestTypes DEF EventRequests
<1>5. CASE Serve \/ Refuse
  BY <1>5, ServeMatched
<1>6. CASE LoseRequest \/ LoseAnswer
  BY <1>6, LoseMatched
<1>7. CASE ReadAnswer
  <2>1. Head(answers).ok \in BOOLEAN
    BY <1>7, AnswerTypes DEF ReadAnswer, TypeInv
  <2> QED BY <1>7, <2>1, TakeMatched DEF ReadAnswer
<1>8. CASE ReadGarbled
  BY <1>8, TakeMatched DEF ReadGarbled
<1>9. CASE RetryLost
  BY <1>9, ProcessMatched DEF RetryLost, Again, TypeInv, LinkTypes
<1>10. CASE RetryLate \/ ReadPart
  BY <1>10 DEF RetryLate, ReadPart
<1>11. CASE UNCHANGED <<queue, busy, requests, answers>>
  BY <1>11 DEF Matched
<1> QED
  BY <1>1, <1>2, <1>3, <1>4, <1>5, <1>6, <1>7, <1>8, <1>9, <1>10, <1>11
  DEF Next, Interrupt, EventIgnored, vars, nrf

\* The line starts in step.
LEMMA InitMatched == Init => Matched
<1> SUFFICES ASSUME Init PROVE Matched
  OBVIOUS
<1>1. /\ queue = <<Request("GetInfo"), Request("InitMcus"), Request("GetSensors")>>
      /\ requests = <<Request("GetInfo")>> /\ answers = <<>> /\ busy
  BY DEF Init
<1>2. Head(queue) = Request("GetInfo") /\ queue # <<>>
  BY <1>1
<1>3. Head(requests) = Request("GetInfo") /\ Len(requests) = 1 /\ Len(answers) = 0
  BY <1>1
<1> QED BY <1>1, <1>2, <1>3 DEF Matched

\* What is read is the answer to the head of the queue.
THEOREM AnswersInStep == Spec => []InStep
<1>1. Init => TypeInv
  BY InitTypes
<1>2. TypeInv /\ [Next]_vars => TypeInv'
  BY NextLinkTypes, NextGateTypes, NextCountTypes, NextFlagTypes DEF TypeInv
<1>3. TypeInv /\ (slipped \/ Matched) => InStep
  BY MatchedIsInStep
<1> QED BY <1>1, <1>2, <1>3, InitMatched, NextMatched, PTL DEF Spec

-----------------------------------------------------------------------------
(***************************************************************************)
(* NewestColour.                                                           *)
(***************************************************************************)

IsColour(r) == r.cmd = "SetColorRGB"

\* Once q has been sent, c is shown, while now it is s.
Brings(q, s, c) ==
  /\ \A i \in DOMAIN q :
       IsColour(q[i]) /\ (\A j \in DOMAIN q : j > i => ~IsColour(q[j])) => q[i].colour = c
  /\ (\A i \in DOMAIN q : ~IsColour(q[i])) => s = c

\* The last colour that is pushed is what the queue brings; other requests change nothing.
LEMMA BringsPushed ==
  ASSUME NEW q \in Seq(Requests), NEW r \in Requests, NEW s, NEW c
  PROVE  /\ ~IsColour(r) /\ Brings(q, s, c) => Brings(Append(q, r), s, c)
         /\ IsColour(r) => Brings(Append(q, r), s, r.colour)
<1> DEFINE to == Append(q, r)
<1>1. /\ Len(q) \in Nat /\ DOMAIN q = 1 .. Len(q) /\ DOMAIN to = 1 .. Len(q) + 1
      /\ to[Len(q) + 1] = r /\ \A i \in DOMAIN q : to[i] = q[i]
  OBVIOUS
<1>2. /\ \A i \in DOMAIN q : i \in DOMAIN to /\ Len(q) + 1 > i
      /\ \A i \in DOMAIN to : i \in DOMAIN q \/ i = Len(q) + 1
      /\ Len(q) + 1 \in DOMAIN to
  BY <1>1
<1> HIDE DEF to
<1>3. ASSUME ~IsColour(r), Brings(q, s, c) PROVE Brings(to, s, c)
  <2>1. \A i \in DOMAIN to : IsColour(to[i]) => i \in DOMAIN q /\ to[i] = q[i]
    BY <1>1, <1>2, <1>3
  <2> QED BY <1>1, <1>2, <1>3, <2>1 DEF Brings
<1>4. ASSUME IsColour(r) PROVE Brings(to, s, r.colour)
  <2>1. \A i \in DOMAIN to : (\A j \in DOMAIN to : j > i => ~IsColour(to[j])) => i = Len(q) + 1
    BY <1>1, <1>2, <1>4
  <2> QED BY <1>1, <1>2, <1>4, <2>1 DEF Brings
<1> QED BY <1>3, <1>4 DEF to

\* The head may leave when its colour, if it has one, is shown.
LEMMA BringsTaken ==
  ASSUME NEW q \in Seq(Requests), q # <<>>, NEW s, NEW c, Brings(q, s, c),
         IsColour(Head(q)) => s = Head(q).colour
  PROVE  Brings(Tail(q), s, c)
<1> DEFINE rest == Tail(q)
<1>1. /\ Len(q) \in Nat \ {0} /\ DOMAIN q = 1 .. Len(q) /\ DOMAIN rest = 1 .. Len(q) - 1
      /\ Head(q) = q[1] /\ \A i \in DOMAIN rest : rest[i] = q[i + 1]
  OBVIOUS
<1>2. /\ \A i \in DOMAIN rest : i + 1 \in DOMAIN q /\ i \in Nat /\ rest[i] = q[i + 1]
      /\ \A j \in DOMAIN q : j = 1 \/ (j - 1 \in DOMAIN rest /\ rest[j - 1] = q[j])
      /\ 1 \in DOMAIN q
  BY <1>1
<1> HIDE DEF rest
<1>3. ASSUME NEW i \in DOMAIN rest, IsColour(rest[i]),
             \A j \in DOMAIN rest : j > i => ~IsColour(rest[j])
      PROVE  rest[i].colour = c
  <2>1. i + 1 \in DOMAIN q /\ rest[i] = q[i + 1] /\ i \in Nat /\ i # 0
    BY <1>1, <1>2
  <2>2. ASSUME NEW j \in DOMAIN q, j > i + 1 PROVE ~IsColour(q[j])
    <3>1. j \in Int /\ j # 1 /\ j - 1 > i
      BY <1>1, <2>1, <2>2
    <3> QED BY <1>2, <1>3, <3>1
  <2> QED BY <1>3, <2>1, <2>2 DEF Brings
<1>4. ASSUME \A i \in DOMAIN rest : ~IsColour(rest[i]) PROVE s = c
  <2>1. \A j \in DOMAIN q : j # 1 => ~IsColour(q[j])
    BY <1>2, <1>4
  <2>2. CASE IsColour(q[1])
    <3>1. \A j \in DOMAIN q : j > 1 => ~IsColour(q[j])
      BY <1>1, <2>1
    <3>2. q[1].colour = c
      BY <1>2, <2>2, <3>1 DEF Brings
    <3> QED BY <1>1, <2>2, <3>2
  <2>3. CASE ~IsColour(q[1])
    <3>1. \A j \in DOMAIN q : ~IsColour(q[j])
      BY <2>1, <2>3
    <3> QED BY <3>1 DEF Brings
  <2> QED BY <2>2, <2>3
<1> QED BY <1>3, <1>4 DEF Brings, rest

\* Nothing was lost, refused, out of step or garbled.
Clean == ~(lost \/ refused \/ slipped \/ misread)

\* The request on the line is the head of the queue, and one that was answered is shown.
HeadSent == requests # <<>> => Head(requests) = Head(queue)
HeadShown == answers # <<>> /\ IsColour(Head(queue)) => shown = Head(queue).colour

ColourInv == Clean =>
  Matched /\ HeadSent /\ HeadShown /\ (dropped \/ Brings(queue, shown, wanted))

\* processNRFQueue() writes the head of the queue on an idle line.
LEMMA ProcessSent ==
  ASSUME NEW q \in Seq(Requests), NEW isBusy, NEW running,
         processNRFQueue(q, isBusy, running), requests = <<>>
  PROVE  queue' = q /\ HeadSent'
<1>1. CASE MayWrite(q, isBusy)
  <2>1. Head(q) \in Requests
    BY <1>1, HeadTailProperties DEF MayWrite
  <2>2. Append(<<>>, Head(q)) = <<Head(q)>>
    BY <2>1
  <2>3. requests' = <<Head(q)>> /\ queue' = q
    BY <1>1, <2>2 DEF processNRFQueue
  <2> QED BY <2>1, <2>3 DEF HeadSent
<1>2. CASE ~MayWrite(q, isBusy)
  BY <1>2 DEF processNRFQueue, HeadSent
<1> QED BY <1>1, <1>2

\* A request that is pushed leaves the exchange of the head alone.
LEMMA PushSent ==
  ASSUME TypeInv, Matched, HeadSent, HeadShown, NEW r \in Requests, Push(r),
         UNCHANGED <<answers, shown>>
  PROVE  queue' = Append(queue, r) /\ HeadSent' /\ HeadShown'
<1>1. Append(queue, r) \in Seq(Requests) /\ queue \in Seq(Requests)
  BY AppendKeeps DEF TypeInv, LinkTypes
<1>2. CASE requests = <<>> /\ answers = <<>>
  BY <1>1, <1>2, ProcessSent DEF Push, HeadShown
<1>3. CASE requests # <<>> \/ answers # <<>>
  <2>1. busy /\ queue # <<>>
    BY <1>3 DEF Matched
  <2>2. queue' = Append(queue, r) /\ requests' = requests
    BY <2>1 DEF Push, processNRFQueue, MayWrite
  <2>3. Head(queue') = Head(queue)
    BY <1>1, <2>1, <2>2, AppendKeeps
  <2> QED BY <2>2, <2>3 DEF HeadSent, HeadShown
<1> QED BY <1>2, <1>3

\* A request that is no colour is pushed.
LEMMA PushColour ==
  ASSUME TypeInv, ColourInv, Clean, NEW r \in Requests, ~IsColour(r), Push(r),
         UNCHANGED <<answers, shown, wanted, dropped>>
  PROVE  HeadSent' /\ HeadShown' /\ (dropped \/ Brings(queue, shown, wanted))'
<1>1. queue' = Append(queue, r) /\ HeadSent' /\ HeadShown'
  BY PushSent DEF ColourInv
<1>2. Brings(queue, shown, wanted) => Brings(Append(queue, r), shown, wanted)
  BY BringsPushed DEF TypeInv, LinkTypes
<1> QED BY <1>1, <1>2 DEF ColourInv

\* The answer to the head of the queue is read.
LEMMA TakeColour ==
  ASSUME TypeInv, ColourInv, Clean, ReadAnswer
  PROVE  HeadSent' /\ HeadShown' /\ (dropped \/ Brings(queue, shown, wanted))'
<1>1. /\ answers # <<>> /\ requests = <<>> /\ answers' = <<>> /\ queue # <<>>
      /\ queue \in Seq(Requests) /\ UNCHANGED <<shown, wanted, dropped>>
  BY TailOfOne DEF ReadAnswer, ColourInv, Matched, TypeInv, LinkTypes, history
<1> DEFINE ok == Head(answers).ok
<1>2. ok \in BOOLEAN
  BY <1>1, AnswerTypes DEF TypeInv
<1>3. PICK sent \in SentCommands, cmd \in ReadCommands(Head(answers)) : Take(sent, cmd, ok)
  BY DEF ReadAnswer
<1> HIDE DEF ok
<1>5. Rest(cmd, ok) \in Seq(Requests)
  BY <1>2, RestKeeps DEF TypeInv
<1>6. queue' = Rest(cmd, ok) /\ HeadSent'
  BY <1>1, <1>3, <1>5, ProcessSent DEF Take
<1>7. HeadShown'
  BY <1>1 DEF HeadShown
<1>8. ASSUME Brings(queue, shown, wanted) PROVE Brings(Rest(cmd, ok), shown, wanted)
  <2>1. IsColour(Head(queue)) => shown = Head(queue).colour
    BY <1>1 DEF ColourInv, HeadShown
  <2>2. CASE cmd = "GetIntoDFU" /\ ok
    <3> DEFINE r == Request("GetInfo")
               q == Append(queue, r)
    <3>1. r \in Requests /\ ~IsColour(r)
      BY RequestTypes DEF Commands, Request, IsColour
    <3> HIDE DEF r
    <3>2. q \in Seq(Requests) /\ q # <<>> /\ Head(q) = Head(queue) /\ Brings(q, shown, wanted)
      BY <1>1, <1>8, <3>1, AppendKeeps, BringsPushed
    <3>3. Rest(cmd, ok) = Tail(q)
      BY <2>2, <3>2 DEF Rest, r
    <3> HIDE DEF q
    <3> QED BY <2>1, <3>2, <3>3, BringsTaken
  <2>3. CASE ~(cmd = "GetIntoDFU" /\ ok)
    <3>1. Rest(cmd, ok) = Tail(queue)
      BY <1>1, <2>3 DEF Rest
    <3> QED BY <1>1, <1>8, <2>1, <3>1, BringsTaken
  <2> QED BY <2>2, <2>3
<1> QED BY <1>1, <1>6, <1>7, <1>8 DEF ColourInv

\* The nRF takes the head of the queue, and shows its colour if it has one.
LEMMA ServeColour ==
  ASSUME TypeInv, ColourInv, Clean, Serve
  PROVE  HeadSent' /\ HeadShown' /\ (dropped \/ Brings(queue, shown, wanted))'
<1>1. /\ requests # <<>> /\ queue # <<>> /\ Head(requests) = Head(queue)
      /\ requests' = <<>> /\ queue \in Seq(Requests) /\ UNCHANGED <<queue, wanted, dropped>>
      /\ shown' = IF IsColour(Head(queue)) THEN Head(queue).colour ELSE shown
  BY TailOfOne
  DEF Serve, ColourInv, HeadSent, IsColour, Matched, TypeInv, LinkTypes, history
<1>2. HeadSent' /\ HeadShown'
  BY <1>1 DEF HeadSent, HeadShown
<1>3. ASSUME Brings(queue, shown, wanted) PROVE Brings(queue, shown', wanted)
  <2>1. 1 \in DOMAIN queue /\ Head(queue) = queue[1]
    BY <1>1
  <2> QED BY <1>1, <1>3, <2>1 DEF Brings
<1> QED BY <1>1, <1>2, <1>3 DEF ColourInv

\* setBacklight() gives the colour to a copy, or pushes it.
LEMMA BacklightColour ==
  ASSUME TypeInv, ColourInv, Clean, setBacklight
  PROVE  HeadSent' /\ HeadShown' /\ (dropped \/ Brings(queue, shown, wanted))'
<1>1. wanted' = wanted + 1 /\ UNCHANGED <<answers, shown>> /\ dropped' = LastIsColour(queue)
  BY DEF setBacklight
<1>2. CASE Merges(queue)
  <2>1. dropped' /\ processNRFQueue(queue, busy, retry)
    BY <1>1, <1>2, Zenon DEF Merges, setBacklight
  <2>2. CASE requests = <<>>
    BY <1>1, <2>1, <2>2, ProcessSent DEF ColourInv, HeadShown, TypeInv, LinkTypes
  <2>3. CASE requests # <<>>
    <3>1. UNCHANGED <<queue, requests>>
      BY <2>1, <2>3 DEF ColourInv, Matched, processNRFQueue, MayWrite
    <3> QED BY <1>1, <2>1, <3>1 DEF ColourInv, HeadSent, HeadShown
  <2> QED BY <2>2, <2>3
<1>3. CASE ~Merges(queue)
  <2> DEFINE r == SetColorRGB(wanted + 1)
  <2>1. Push(r)
    BY <1>3 DEF setBacklight
  <2>2. r \in Requests /\ IsColour(r) /\ r.colour = wanted'
    BY <1>1, RequestTypes, BoundsAssumption
    DEF setBacklight, BoundsAssumption, TypeInv, CountTypes, Colours, SetColorRGB, IsColour
  <2> HIDE DEF r
  <2>3. queue' = Append(queue, r) /\ HeadSent' /\ HeadShown'
    BY <1>1, <2>1, <2>2, PushSent DEF ColourInv
  <2>4. Brings(Append(queue, r), shown, wanted')
    BY <2>2, BringsPushed DEF TypeInv, LinkTypes
  <2> QED BY <1>1, <2>3, <2>4
<1> QED BY <1>2, <1>3

\* Every step keeps the colour asked for last on its way.
LEMMA NextColour == TypeInv /\ ColourInv /\ [Next]_vars => ColourInv'
<1> SUFFICES ASSUME TypeInv, ColourInv, [Next]_vars, Clean' PROVE ColourInv'
  BY DEF ColourInv
<1>1. Clean
  BY DEF Clean, Next, nRFExec, setFanSpeed, setBacklight, UpdateFirmware, Interrupt, EventRequests,
         EventIgnored, Serve, Refuse, LoseRequest, LoseAnswer, ReadAnswer, ReadGarbled, ReadPart,
         RetryLost, RetryLate, vars, history
<1>2. Matched'
  BY <1>1, NextMatched DEF ColourInv, Clean
<1> SUFFICES HeadSent' /\ HeadShown' /\ (dropped \/ Brings(queue, shown, wanted))'
  BY <1>2 DEF ColourInv
<1>3. \A cmd \in Commands : cmd # "SetColorRGB" => ~IsColour(Request(cmd))
  BY DEF Request, IsColour
<1>4. CASE nRFExec \/ setFanSpeed \/ UpdateFirmware
  BY <1>1, <1>3, <1>4, PushColour, RequestTypes
  DEF nRFExec, setFanSpeed, UpdateFirmware, Commands, history
<1>5. CASE setBacklight
  BY <1>1, <1>5, BacklightColour
<1>6. CASE \E pin \in Pins : EventRequests(pin)
  <2> PICK pin \in Pins : EventRequests(pin)
    BY <1>6
  <2>1. RequestOf(pin) \in Requests /\ ~IsColour(RequestOf(pin))
    BY <1>3, RequestTypes DEF RequestOf, Commands
  <2> QED BY <1>1, <2>1, PushColour DEF EventRequests, history
<1>7. CASE Serve
  BY <1>1, <1>7, ServeColour
<1>8. CASE LoseRequest
  <2>1. requests' = <<>> /\ UNCHANGED <<queue, answers, shown, wanted, dropped>>
    BY <1>1, <1>8, TailOfOne DEF LoseRequest, ColourInv, Matched, TypeInv, LinkTypes
  <2> QED BY <1>1, <2>1 DEF ColourInv, HeadSent, HeadShown
<1>9. CASE LoseAnswer
  <2>1. answers' = <<>> /\ UNCHANGED <<queue, requests, shown, wanted, dropped>>
    BY <1>1, <1>9, TailOfOne DEF LoseAnswer, ColourInv, Matched, TypeInv, LinkTypes
  <2> QED BY <1>1, <2>1 DEF ColourInv, HeadSent, HeadShown
<1>10. CASE ReadAnswer
  BY <1>1, <1>10, TakeColour
<1>11. CASE RetryLost
  <2>1. /\ processNRFQueue(queue, FALSE, FALSE) /\ requests = <<>> /\ answers = <<>>
        /\ UNCHANGED <<answers, shown, wanted, dropped>>
    BY <1>11 DEF RetryLost, Again, history
  <2>2. queue' = queue /\ HeadSent'
    BY <2>1, ProcessSent DEF TypeInv, LinkTypes
  <2> QED BY <1>1, <2>1, <2>2 DEF ColourInv, HeadShown
<1>12. CASE Refuse \/ ReadGarbled \/ ReadPart \/ RetryLate
  BY <1>12 DEF Refuse, ReadGarbled, ReadPart, RetryLate, Clean
<1>13. CASE UNCHANGED <<queue, requests, answers, shown, wanted, dropped>>
  BY <1>1, <1>13 DEF ColourInv, HeadSent, HeadShown
<1> QED
  BY <1>4, <1>5, <1>6, <1>7, <1>8, <1>9, <1>10, <1>11, <1>12, <1>13
  DEF Next, Interrupt, EventIgnored, vars, nrf, history

\* When nothing is queued, the nRF shows the colour asked for last, unless that one was given
\* to a copy, or an exchange failed.
THEOREM NewestShown == Spec => []NewestColour
<1>1. Init => TypeInv
  BY InitTypes
<1>2. Init => ColourInv
  <2> SUFFICES ASSUME Init PROVE ColourInv
    OBVIOUS
  <2>1. /\ queue = <<Request("GetInfo"), Request("InitMcus"), Request("GetSensors")>>
        /\ requests = <<Request("GetInfo")>> /\ answers = <<>> /\ wanted = shown
    BY DEF Init
  <2>2. Matched
    BY InitMatched
  <2>3. \A i \in DOMAIN queue : ~IsColour(queue[i])
    BY <2>1 DEF Request, IsColour
  <2>4. Brings(queue, shown, wanted)
    BY <2>1, <2>3 DEF Brings
  <2>5. HeadSent /\ HeadShown
    BY <2>1 DEF HeadSent, HeadShown
  <2> QED BY <2>2, <2>4, <2>5 DEF ColourInv
<1>3. TypeInv /\ [Next]_vars => TypeInv'
  BY NextLinkTypes, NextGateTypes, NextCountTypes, NextFlagTypes DEF TypeInv
<1>4. ColourInv => NewestColour
  <2> SUFFICES ASSUME ColourInv, queue = <<>>, Clean, ~dropped PROVE shown = wanted
    BY DEF NewestColour, Clean
  <2> QED BY DEF ColourInv, Brings
<1> QED BY <1>1, <1>2, <1>3, <1>4, NextColour, PTL DEF Spec

=============================================================================
