------------------------------- MODULE NrfLink ------------------------------
(***************************************************************************)
(* The nRF part of DeviceIOController: the queue of requests to the        *)
(* microcontroller of the sensors and the backlight, its answers, and the  *)
(* two GPIO lines on which it says that there is something to fetch.       *)
(*                                                                         *)
(* One request is written at a time and stays at the head of the queue     *)
(* until something is read, which is taken for its answer, whole or not.   *)
(* Only GetInfo is written again when nothing comes.  A GPIO thread       *)
(* reports no second interrupt before readProcessed(), which the answer to *)
(* the request that the first one caused brings about.                     *)
(*                                                                         *)
(* A colour is the number of the call of setBacklight() that asked for it. *)
(***************************************************************************)
EXTENDS Integers, Sequences

CONSTANTS
  MaxColours,   \* how many colours are asked for
  MaxQueue,     \* a request is caused only while fewer are queued
  MaxEvents,    \* an interrupt comes only while fewer of its pin are posted
  MaxFaults,    \* how many messages are lost, garbled, refused, late or read in two pieces
  Updates       \* how many times the firmware is updated

ASSUME BoundsAssumption ==
  /\ MaxColours \in Nat /\ MaxQueue \in Nat /\ MaxEvents \in Nat
  /\ MaxFaults \in Nat /\ Updates \in Nat

Pins == {4, 5}

VARIABLES
  queue,      \* m_nRF_queue
  busy,       \* the property "busy" of m_nRfConnection
  retry,      \* mGetInfoNRFStarter is running
  waiting,    \* GpioHandler::_waitingReadProcessed, per pin
  events,     \* readyRead() posted to the main thread, per pin
  requests,   \* written, not yet taken by the nRF
  answers,    \* given by the nRF, not yet read
  wanted,     \* the colour asked for last
  shown,      \* the colour the nRF shows
  updates, faults,   \* counters, for the bounds
  slipped,    \* history: a request was written again although its answer was under way, or
              \* an answer was read in two pieces
  lost,       \* history: a request other than GetInfo, or its answer, was lost
  refused,    \* history: a request was answered with an error
  misread,    \* history: an answer was garbled
  dropped     \* history: the last colour was given to the copy of a queued request

history == <<slipped, lost, refused, misread, dropped>>
gpio == <<waiting, events>>
nrf == <<requests, answers, shown>>

vars == <<queue, busy, retry, waiting, events, requests, answers, wanted, shown,
          updates, faults, history>>

Commands ==
  {"GetInfo", "InitMcus", "GetSensors", "GetTOF", "SetColorRGB", "SetFanSpeed", "GetIntoDFU"}
Colours == 0..MaxColours

\* What is read for an answer, or, where that was read in two pieces, for the rest of one.
Answers == [cmd : Commands \cup {"Rest"}, ok : BOOLEAN]
Requests == [cmd : Commands, colour : Colours]

Request(cmd) == [cmd |-> cmd, colour |-> 0]
SetColorRGB(n) == [cmd |-> "SetColorRGB", colour |-> n]

\* The request an interrupt causes.
RequestOf(pin) == IF pin = 4 THEN Request("GetSensors") ELSE Request("GetTOF")

TypeOK ==
  /\ queue \in Seq(Requests) /\ requests \in Seq(Requests)
  /\ answers \in Seq(Answers)
  /\ busy \in BOOLEAN /\ retry \in BOOLEAN
  /\ waiting \in [Pins -> BOOLEAN] /\ events \in [Pins -> Nat]
  /\ wanted \in Colours /\ shown \in Colours
  /\ updates \in 0..Updates /\ faults \in 0..MaxFaults
  /\ slipped \in BOOLEAN /\ lost \in BOOLEAN
  /\ refused \in BOOLEAN /\ misread \in BOOLEAN /\ dropped \in BOOLEAN

\* createNRF() has opened the port and written the first request of nrfConfiguration().
Init ==
  /\ queue = <<Request("GetInfo"), Request("InitMcus"), Request("GetSensors")>>
  /\ busy = TRUE /\ retry = TRUE
  /\ requests = <<Request("GetInfo")>> /\ answers = <<>>
  /\ waiting = [pin \in Pins |-> FALSE] /\ events = [pin \in Pins |-> 0]
  /\ wanted = 0 /\ shown = 0
  /\ updates = 0 /\ faults = 0
  /\ slipped = FALSE /\ lost = FALSE /\ refused = FALSE /\ misread = FALSE /\ dropped = FALSE

-----------------------------------------------------------------------------
(***************************************************************************)
(* processNRFQueue(), for a queue q; `isBusy' and `running' are the        *)
(* property and the retry timer as it finds them.                          *)
(***************************************************************************)

\* Mutant of MayWrite: "busy" is not looked at.
MayWriteAlways(q, isBusy) == q # <<>>

MayWrite(q, isBusy) == q # <<>> /\ ~isBusy

processNRFQueue(q, isBusy, running) ==
  LET write == MayWrite(q, isBusy)
  IN /\ queue' = q
     /\ busy' = (isBusy \/ write)
     /\ requests' = IF write THEN Append(requests, Head(q)) ELSE requests
     /\ retry' = (running \/ (write /\ Head(q).cmd = "GetInfo"))

Push(r) == processNRFQueue(Append(queue, r), busy, retry)

-----------------------------------------------------------------------------
(***************************************************************************)
(* Requests.                                                               *)
(***************************************************************************)

\* nRFExec(), when nothing has fetched the sensors for thirty seconds.
nRFExec ==
  /\ Len(queue) < MaxQueue
  /\ Push(Request("GetSensors"))
  /\ UNCHANGED <<gpio, answers, wanted, shown, updates, faults, history>>

setFanSpeed ==
  /\ Len(queue) < MaxQueue
  /\ Push(Request("SetFanSpeed"))
  /\ UNCHANGED <<gpio, answers, wanted, shown, updates, faults, history>>

LastIsColour(q) == q # <<>> /\ q[Len(q)].cmd = "SetColorRGB"

\* Mutant of Merges: a colour anywhere in the queue is taken for the last one.
MergesAnywhere(q) == \E i \in DOMAIN q : q[i].cmd = "SetColorRGB"

\* Whether setBacklight() changes the last request, of which it has a copy, and pushes none.
Merges(q) == LastIsColour(q)

setBacklight ==
  /\ Len(queue) < MaxQueue /\ wanted < MaxColours
  /\ wanted' = wanted + 1
  /\ IF Merges(queue)
     THEN processNRFQueue(queue, busy, retry)
     ELSE Push(SetColorRGB(wanted + 1))
  /\ dropped' = LastIsColour(queue)
  /\ UNCHANGED <<gpio, answers, shown, updates, faults,
                 slipped, lost, refused, misread>>

\* update_nRF_Firmware()
UpdateFirmware ==
  /\ Len(queue) < MaxQueue /\ updates < Updates
  /\ updates' = updates + 1
  /\ Push(Request("GetIntoDFU"))
  /\ UNCHANGED <<gpio, answers, wanted, shown, faults, history>>

\* The GPIO thread: an interrupt, while the last one has been processed.
Interrupt(pin) ==
  /\ ~waiting[pin]
  /\ events[pin] < MaxEvents /\ Len(queue) < MaxQueue
  /\ waiting' = [waiting EXCEPT ![pin] = TRUE]
  /\ events' = [events EXCEPT ![pin] = @ + 1]
  /\ UNCHANGED <<queue, busy, retry, nrf, wanted, updates, faults, history>>

\* The slot of readyRead(): the line is low, and for pin 4 the sensors have not been fetched in
\* the last second.
EventRequests(pin) ==
  /\ events[pin] > 0
  /\ events' = [events EXCEPT ![pin] = @ - 1]
  /\ Push(RequestOf(pin))
  /\ UNCHANGED <<waiting, answers, wanted, shown, updates, faults, history>>

\* Mutant of EventIgnored: normal operation is not restored.
EventIgnoredUnprocessed(pin) ==
  /\ events[pin] > 0
  /\ events' = [events EXCEPT ![pin] = @ - 1]
  /\ UNCHANGED <<queue, busy, retry, waiting, nrf, wanted, updates, faults, history>>

EventIgnored(pin) ==
  /\ events[pin] > 0
  /\ events' = [events EXCEPT ![pin] = @ - 1]
  /\ waiting' = [waiting EXCEPT ![pin] = FALSE]
  /\ UNCHANGED <<queue, busy, retry, nrf, wanted, updates, faults, history>>

-----------------------------------------------------------------------------
(***************************************************************************)
(* The nRF and the line.                                                   *)
(***************************************************************************)

Fault == faults < MaxFaults /\ faults' = faults + 1

Serve ==
  /\ requests # <<>>
  /\ requests' = Tail(requests)
  /\ LET r == Head(requests)
     IN /\ answers' = Append(answers, [cmd |-> r.cmd, ok |-> TRUE])
        /\ shown' = IF r.cmd = "SetColorRGB" THEN r.colour ELSE shown
  /\ UNCHANGED <<queue, busy, retry, gpio, wanted, updates, faults, history>>

\* It answers with an error.
Refuse ==
  /\ Fault
  /\ requests # <<>>
  /\ requests' = Tail(requests)
  /\ answers' = Append(answers, [cmd |-> Head(requests).cmd, ok |-> FALSE])
  /\ refused' = TRUE
  /\ UNCHANGED <<queue, busy, retry, gpio, wanted, shown, updates,
                 slipped, lost, misread, dropped>>

LoseRequest ==
  /\ Fault
  /\ requests # <<>>
  /\ requests' = Tail(requests)
  /\ lost' = (lost \/ Head(requests).cmd # "GetInfo")
  /\ UNCHANGED <<queue, busy, retry, gpio, answers, wanted, shown, updates,
                 slipped, refused, misread, dropped>>

LoseAnswer ==
  /\ Fault
  /\ answers # <<>>
  /\ answers' = Tail(answers)
  /\ lost' = (lost \/ Head(answers).cmd # "GetInfo")
  /\ UNCHANGED <<queue, busy, retry, gpio, requests, wanted, shown, updates,
                 slipped, refused, misread, dropped>>

-----------------------------------------------------------------------------
(***************************************************************************)
(* The slot of sendData, and the retry.                                    *)
(***************************************************************************)

\* The queue after something was read; the firmware update is followed by GetInfo.
Rest(cmd, ok) ==
  LET q == IF cmd = "GetIntoDFU" /\ ok THEN Append(queue, Request("GetInfo")) ELSE queue
  IN IF q = <<>> THEN q ELSE Tail(q)

\* readProcessed(), when what is read goes with the request it is taken for.
Frees(sent, cmd, pin) == sent = cmd /\ RequestOf(pin).cmd = cmd

\* Something is read: an answer to `cmd', which is taken for one to `sent', the head of the queue.
Take(sent, cmd, ok) ==
  /\ waiting' = [pin \in Pins |-> waiting[pin] /\ ~Frees(sent, cmd, pin)]
  /\ processNRFQueue(Rest(cmd, ok), FALSE, retry /\ ~(sent = "GetInfo" /\ cmd = "GetInfo"))

\* front() of an empty queue is undefined: any command may be found there.
SentCommands == IF queue = <<>> THEN Commands ELSE {Head(queue).cmd}

\* A piece without a start byte leaves in the packet what was on the stack.
ReadCommands(answer) == IF answer.cmd = "Rest" THEN Commands ELSE {answer.cmd}

ReadAnswer ==
  /\ answers # <<>>
  /\ answers' = Tail(answers)
  /\ \E sent \in SentCommands, cmd \in ReadCommands(Head(answers)) :
       Take(sent, cmd, Head(answers).ok)
  /\ UNCHANGED <<events, wanted, shown, updates, faults, history>>

\* A garbled answer: the checksum is wrong, and the command may be any.
ReadGarbled ==
  /\ Fault
  /\ answers # <<>>
  /\ answers' = Tail(answers)
  /\ \E sent \in SentCommands, cmd \in Commands : Take(sent, cmd, FALSE)
  /\ misread' = TRUE
  /\ UNCHANGED <<events, wanted, shown, updates, slipped, lost, refused, dropped>>

\* The serial port delivers a part of an answer: the slot runs for it, and again for the rest.
ReadPart ==
  /\ Fault
  /\ answers # <<>>
  /\ answers' = <<[cmd |-> "Rest", ok |-> FALSE]>> \o Tail(answers)
  /\ \E sent \in SentCommands, cmd \in Commands : Take(sent, cmd, FALSE)
  /\ slipped' = TRUE
  /\ UNCHANGED <<events, wanted, shown, updates, lost, refused, misread, dropped>>

\* The slot of mGetInfoNRFStarter.
Again == processNRFQueue(queue, FALSE, FALSE)

\* Five seconds after a GetInfo that was lost.
RetryLost ==
  /\ retry
  /\ requests = <<>> /\ answers = <<>>
  /\ Again
  /\ UNCHANGED <<gpio, answers, wanted, shown, updates, faults, history>>

\* Five seconds after one whose answer is still to come.
RetryLate ==
  /\ Fault
  /\ retry
  /\ requests # <<>> \/ answers # <<>>
  /\ Again
  /\ slipped' = TRUE
  /\ UNCHANGED <<gpio, answers, wanted, shown, updates,
                 lost, refused, misread, dropped>>

Next ==
  \/ nRFExec
  \/ setFanSpeed
  \/ setBacklight
  \/ UpdateFirmware
  \/ \E pin \in Pins : Interrupt(pin) \/ EventRequests(pin) \/ EventIgnored(pin)
  \/ Serve
  \/ Refuse
  \/ LoseRequest
  \/ LoseAnswer
  \/ ReadAnswer
  \/ ReadGarbled
  \/ ReadPart
  \/ RetryLost
  \/ RetryLate

Spec == Init /\ [][Next]_vars

\* The main thread runs its slots, the timer fires, and the nRF answers.
Fairness ==
  /\ WF_vars(Serve)
  /\ WF_vars(ReadAnswer)
  /\ WF_vars(RetryLost)
  /\ \A pin \in Pins : WF_vars(EventRequests(pin) \/ EventIgnored(pin))

FairSpec == Spec /\ Fairness

-----------------------------------------------------------------------------
(***************************************************************************)
(* Properties.                                                             *)
(***************************************************************************)

\* What is read is the answer to the head of the queue, as long as no GetInfo was written again
\* too early and every answer is read in one piece: at most one message is on the line, and it
\* belongs to the head of a busy queue.
InStep == ~slipped =>
  /\ Len(requests) + Len(answers) <= 1
  /\ \A line \in {requests, answers} : line # <<>> =>
       busy /\ queue # <<>> /\ Head(line).cmd = Head(queue).cmd

\* A GPIO thread that waits for readProcessed() is called, unless an exchange was lost, from
\* which the link does not recover, or answers were garbled or out of step.
GateOpens == \A pin \in Pins :
  waiting[pin] ~> (~waiting[pin] \/ lost \/ slipped \/ misread)

\* When nothing is left to do, the nRF shows the colour asked for last, unless that one was
\* given to a copy, or an exchange failed.
NewestColour == queue = <<>> => shown = wanted \/ dropped \/ lost \/ refused \/ slipped \/ misread

=============================================================================
