------------------------------- MODULE TiLink -------------------------------
(***************************************************************************)
(* The TI part of DeviceIOController: the queue of requests to the         *)
(* microcontroller that drives the relays, and its answers.                *)
(*                                                                         *)
(* A request leaves the queue when it is written.  SetRelay and            *)
(* Check_Wiring wait for an answer before the next of them is written, but *)
(* any answer will do, also that of the watchdog, which is fed past the    *)
(* queue every five seconds.  Answers have no number: SetRelay's confirms  *)
(* the configuration that was written last.                                *)
(*                                                                         *)
(* A configuration is the number of the update that asked for it; 0 is all *)
(* off.  The serial line keeps the order of what it does not lose.         *)
(***************************************************************************)
EXTENDS Integers, Sequences

CONSTANTS
  MaxUpdates,   \* how many times a configuration is asked for
  MaxFeeds,     \* how many watchdog requests are unanswered at a time
  MaxFaults     \* how many messages are lost, garbled, refused or read in two pieces

ASSUME BoundsAssumption ==
  /\ MaxUpdates \in Nat /\ MaxFeeds \in Nat /\ MaxFaults \in Nat

VARIABLES
  mRelaysIn,             \* the configuration asked for
  mRelaysOut,            \* the configuration written last
  mRelaysOutLast,        \* the configuration confirmed, relaysUpdated()
  wait_relay_response,
  queue,                 \* m_TI_queue
  retry,                 \* mGetInfoTIStarter is running
  requests,              \* written, not yet taken by the TI
  answers,               \* given by the TI, not yet read
  board,                 \* the configuration the relays have
  known,                 \* TI_HW and TI_SW have been read
  asked, faults,         \* counters, for the bounds
  astray,                \* history: the last SetRelay to reach its end was lost or refused
  overtaken,             \* history: a SetRelay was written past the queue
  mistaken,              \* history: the wait for a relay answer was ended by another answer
  garbledInfo            \* history: an answer was read as a garbled GetInfo

history == <<astray, overtaken, mistaken, garbledInfo>>
tiVars == <<board, answers>>

vars == <<mRelaysIn, mRelaysOut, mRelaysOutLast, wait_relay_response, queue, retry,
          requests, answers, board, known, asked, faults, history>>

Commands == {"GetInfo", "Get_addr", "SetRelay", "Check_Wiring", "feed_wtd"}
Configs == 0..MaxUpdates
Acks == {"ERROR_NO", "ERROR_WIRING_NOT_CONNECTED", "ERROR_COULD_NOT_SET_RELAY"}

\* "again" marks a request sent with ERROR_CRC, for an answer that was garbled.
Requests == [cmd : Commands, relays : Configs, again : BOOLEAN]

\* What is read for an answer, or, where that was read in two pieces, for the rest of one.
Answers == [cmd : Commands \cup {"Rest"}, ack : Acks]

Request(cmd) == [cmd |-> cmd, relays |-> 0, again |-> FALSE]
SetRelay(c) == [cmd |-> "SetRelay", relays |-> c, again |-> FALSE]
Again(cmd) == [cmd |-> cmd, relays |-> 0, again |-> TRUE]

TypeOK ==
  /\ mRelaysIn \in Configs /\ mRelaysOut \in Configs /\ mRelaysOutLast \in Configs
  /\ wait_relay_response \in BOOLEAN /\ retry \in BOOLEAN /\ known \in BOOLEAN
  /\ queue \in Seq(Requests) /\ requests \in Seq(Requests) /\ answers \in Seq(Answers)
  /\ board \in Configs
  /\ asked \in 0..MaxUpdates /\ faults \in 0..MaxFaults
  /\ astray \in BOOLEAN /\ overtaken \in BOOLEAN
  /\ mistaken \in BOOLEAN /\ garbledInfo \in BOOLEAN

\* createTIConnection() has opened the port and written the GetInfo of tiConfiguration().
Init ==
  /\ mRelaysIn = 0 /\ mRelaysOut = 0 /\ mRelaysOutLast = 0 /\ board = 0
  /\ wait_relay_response = FALSE
  /\ queue = <<>> /\ requests = <<Request("GetInfo")>> /\ answers = <<>>
  /\ retry = TRUE /\ known = FALSE
  /\ asked = 0 /\ faults = 0
  /\ astray = FALSE /\ overtaken = FALSE /\ mistaken = FALSE /\ garbledInfo = FALSE

-----------------------------------------------------------------------------
(***************************************************************************)
(* sendTIRequest() and processTIQueue().                                   *)
(***************************************************************************)

IsRelayRequest(r) == r.cmd \in {"SetRelay", "Check_Wiring"}

\* Mutant of MayWrite: the answer is not waited for.
MayWriteAlways(q, waiting) == q # <<>>

\* The guard of processTIQueue().
MayWrite(q, waiting) == q # <<>> /\ ~(IsRelayRequest(Head(q)) /\ waiting)

\* Some of q is a relay request.
HasRelayRequest(q) == \E i \in DOMAIN q : IsRelayRequest(q[i])

\* The configuration written last, once `sent' is written.
LastRelays(sent) ==
  LET sets == {i \in DOMAIN sent : sent[i].cmd = "SetRelay"}
  IN IF sets = {} THEN mRelaysOut ELSE sent[CHOOSE i \in sets : \A j \in sets : j <= i].relays

\* sendTIRequest(), for the requests of `sent' in turn.
Write(sent, waiting) ==
  /\ requests' = requests \o sent
  /\ wait_relay_response' = (waiting \/ HasRelayRequest(sent))
  /\ mRelaysOut' = LastRelays(sent)

\* `direct' goes out past the queue; then processTIQueue() writes the head of q, if it may.
\* `running' says whether the retry timer of GetInfo runs before that.
WriteWith(direct, q, waiting, running) ==
  IF MayWrite(q, waiting \/ HasRelayRequest(direct))
  THEN /\ queue' = Tail(q)
       /\ Write(direct \o <<Head(q)>>, waiting)
       /\ retry' = (running \/ Head(q).cmd = "GetInfo")
  ELSE /\ queue' = q
       /\ Write(direct, waiting)
       /\ retry' = running

-----------------------------------------------------------------------------
(***************************************************************************)
(* Requests.                                                               *)
(***************************************************************************)

\* Mutant of sendRelays: the newest configuration goes to the front.
sendRelaysFirst(c) == WriteWith(<<>>, <<SetRelay(c)>> \o queue, wait_relay_response, retry)

\* checkRelayVaidation() is TRUE always.
sendRelays(c) == WriteWith(<<>>, Append(queue, SetRelay(c)), wait_relay_response, retry)

Ask == asked < MaxUpdates /\ asked' = asked + 1

\* updateRelays() with a configuration that differs from mRelaysIn.
UpdateRelays ==
  /\ Ask
  /\ mRelaysIn' = mRelaysIn + 1
  /\ sendRelays(mRelaysIn + 1)
  /\ UNCHANGED <<mRelaysOutLast, tiVars, known, faults, history>>

\* updateRelays() by force, with the one that is there.
ForceRelays ==
  /\ Ask
  /\ sendRelays(mRelaysIn)
  /\ UNCHANGED <<mRelaysIn, mRelaysOutLast, tiVars, known, faults, history>>

\* wtdExec(), every five seconds.
WtdExec ==
  /\ Len(SelectSeq(requests, LAMBDA r : r.cmd = "feed_wtd"))
       + Len(SelectSeq(answers, LAMBDA a : a.cmd = "feed_wtd")) < MaxFeeds
  /\ Write(<<Request("feed_wtd")>>, wait_relay_response)
  /\ UNCHANGED <<mRelaysIn, mRelaysOutLast, queue, retry, tiVars, known, asked, faults, history>>

\* Mutant of GetInfoAgain: the timer only writes the head of the queue.
GetInfoAgainUnqueued ==
  /\ retry
  /\ "GetInfo" \notin {requests[i].cmd : i \in DOMAIN requests}
                      \cup {answers[i].cmd : i \in DOMAIN answers}
  /\ WriteWith(<<>>, queue, wait_relay_response, FALSE)
  /\ UNCHANGED <<mRelaysIn, mRelaysOutLast, tiVars, known, asked, faults, history>>

\* The slot of mGetInfoTIStarter, five seconds after a GetInfo was written: by then it has
\* been lost.
GetInfoAgain ==
  /\ retry
  /\ "GetInfo" \notin {requests[i].cmd : i \in DOMAIN requests}
                      \cup {answers[i].cmd : i \in DOMAIN answers}
  /\ WriteWith(<<>>, Append(queue, Request("GetInfo")), wait_relay_response, FALSE)
  /\ UNCHANGED <<mRelaysIn, mRelaysOutLast, tiVars, known, asked, faults, history>>

-----------------------------------------------------------------------------
(***************************************************************************)
(* The TI and the line.                                                    *)
(***************************************************************************)

Answer(cmd, ack) == answers' = Append(answers, [cmd |-> cmd, ack |-> ack])

\* The TI takes the next request and answers it.
Serve ==
  /\ requests # <<>>
  /\ requests' = Tail(requests)
  /\ LET r == Head(requests)
         sets == r.cmd = "SetRelay" /\ ~r.again
     IN /\ Answer(r.cmd, "ERROR_NO")
        /\ board' = IF sets THEN r.relays ELSE board
        /\ astray' = IF sets THEN FALSE ELSE astray
  /\ UNCHANGED <<mRelaysIn, mRelaysOut, mRelaysOutLast, wait_relay_response, queue, retry,
                 known, asked, faults, overtaken, mistaken, garbledInfo>>

Fault == faults < MaxFaults /\ faults' = faults + 1

\* It refuses to set the relays, or answers a check of the wiring without the wires.
Refuse ==
  /\ Fault
  /\ requests # <<>> /\ IsRelayRequest(Head(requests))
  /\ requests' = Tail(requests)
  /\ \E ack \in Acks \ {"ERROR_NO"} : Answer(Head(requests).cmd, ack)
  /\ astray' = (astray \/ Head(requests).cmd = "SetRelay")
  /\ UNCHANGED <<mRelaysIn, mRelaysOut, mRelaysOutLast, wait_relay_response, queue, retry,
                 board, known, asked, overtaken, mistaken, garbledInfo>>

LoseRequest ==
  /\ Fault
  /\ requests # <<>>
  /\ requests' = Tail(requests)
  /\ astray' = (astray \/ Head(requests).cmd = "SetRelay")
  /\ UNCHANGED <<mRelaysIn, mRelaysOut, mRelaysOutLast, wait_relay_response, queue, retry,
                 tiVars, known, asked, overtaken, mistaken, garbledInfo>>

LoseAnswer ==
  /\ Fault
  /\ answers # <<>>
  /\ answers' = Tail(answers)
  /\ UNCHANGED <<mRelaysIn, mRelaysOut, mRelaysOutLast, wait_relay_response, queue, retry,
                 requests, board, known, asked, history>>

-----------------------------------------------------------------------------
(***************************************************************************)
(* The slot of sendData: processTIResponse(), then processTIQueue().       *)
(***************************************************************************)

\* Mutant of WaitAfter: only the answer to a relay request ends the wait.
WaitAfterRelays(cmd) == wait_relay_response /\ cmd \notin {"SetRelay", "Check_Wiring"}

\* Any answer ends the wait.
WaitAfter(cmd) == FALSE

\* Mutant of Reply: GetInfo is followed by the request for the device identity.
ReplyIdentity(a) ==
  CASE a = [cmd |-> "SetRelay", ack |-> "ERROR_WIRING_NOT_CONNECTED"] -> <<Request("Check_Wiring")>>
    [] a = [cmd |-> "Check_Wiring", ack |-> "ERROR_NO"] -> <<SetRelay(mRelaysIn)>>
    [] a.cmd = "GetInfo" -> <<Request("GET_DEV_ID")>>
    [] OTHER -> <<>>

\* What processTIResponse() writes at once, past the queue.
Reply(a) ==
  CASE a = [cmd |-> "SetRelay", ack |-> "ERROR_WIRING_NOT_CONNECTED"] -> <<Request("Check_Wiring")>>
    [] a = [cmd |-> "Check_Wiring", ack |-> "ERROR_NO"] -> <<SetRelay(mRelaysIn)>>
    [] a.cmd = "GetInfo" -> <<Request("Get_addr")>>
    [] OTHER -> <<>>

Holds(q, cmd) == \E i \in DOMAIN q : q[i].cmd = cmd

\* A relay request has been written, and its answer not been read.
Unanswered == \E cmd \in {"SetRelay", "Check_Wiring"} : Holds(requests, cmd) \/ Holds(answers, cmd)

ReadAnswer ==
  /\ answers # <<>> /\ Head(answers).cmd # "Rest"
  /\ answers' = Tail(answers)
  /\ LET a == Head(answers)
     IN /\ WriteWith(Reply(a), queue, WaitAfter(a.cmd), retry /\ a.cmd # "GetInfo")
        /\ mRelaysOutLast' = IF a.cmd = "SetRelay" /\ a.ack = "ERROR_NO"
                             THEN mRelaysOut ELSE mRelaysOutLast
        /\ known' = (known \/ a.cmd = "GetInfo")
        /\ overtaken' = (overtaken \/ (a.cmd = "Check_Wiring" /\ Holds(queue, "SetRelay")))
        /\ mistaken' = (mistaken \/ (~IsRelayRequest(a) /\ Unanswered))
  /\ UNCHANGED <<mRelaysIn, board, asked, faults, astray, garbledInfo>>

\* What is read is not a whole answer: the checksum is wrong, and the command may be any.  The
\* retry of GetInfo is stopped by the command alone.
Misread ==
  /\ \E cmd \in Commands :
       /\ WriteWith(<<Again(cmd)>>, queue, WaitAfter(cmd), retry /\ cmd # "GetInfo")
       /\ garbledInfo' = (garbledInfo \/ cmd = "GetInfo")
  /\ mistaken' = TRUE
  /\ UNCHANGED <<mRelaysIn, mRelaysOutLast, board, known, asked, astray, overtaken>>

\* A garbled answer.
ReadGarbled ==
  /\ Fault
  /\ answers # <<>>
  /\ answers' = Tail(answers)
  /\ Misread

\* The serial port delivers a part of an answer: the slot runs for it, and again for the rest.
ReadPart ==
  /\ Fault
  /\ answers # <<>>
  /\ answers' = <<[cmd |-> "Rest", ack |-> "ERROR_NO"]>> \o Tail(answers)
  /\ Misread

ReadRest ==
  /\ answers # <<>> /\ Head(answers).cmd = "Rest"
  /\ answers' = Tail(answers)
  /\ Misread
  /\ UNCHANGED faults

Next ==
  \/ UpdateRelays
  \/ ForceRelays
  \/ WtdExec
  \/ GetInfoAgain
  \/ Serve
  \/ Refuse
  \/ LoseRequest
  \/ LoseAnswer
  \/ ReadAnswer
  \/ ReadGarbled
  \/ ReadPart
  \/ ReadRest

Spec == Init /\ [][Next]_vars

\* The timers fire, the TI answers, and what has arrived is read.
Fairness ==
  /\ WF_vars(WtdExec)
  /\ WF_vars(GetInfoAgain)
  /\ WF_vars(Serve)
  /\ WF_vars(ReadAnswer \/ ReadRest)

FairSpec == Spec /\ Fairness

-----------------------------------------------------------------------------
(***************************************************************************)
(* Properties.                                                             *)
(***************************************************************************)

\* No SetRelay is on its way.
Settled == ~Holds(queue, "SetRelay") /\ ~Holds(requests, "SetRelay")

\* Once every SetRelay has reached its end, and the last one was neither lost nor refused, the
\* board has the configuration asked for last, whatever went wrong before.
BoardHasLast == Settled /\ ~astray => board = mRelaysIn

\* The board takes configurations in the order in which they are asked for, unless a check
\* of the wiring has let one overtake the queue.
BoardForward == [][board' >= board \/ overtaken]_board

\* Only what the relays have is confirmed, unless the wait for their answer was ended by another
\* one, or a configuration has overtaken the queue.
ConfirmedIsSet == mRelaysOutLast <= board \/ mistaken \/ overtaken

\* The queue never gets stuck, although a lost answer leaves wait_relay_response set.
QueueDrains == queue # <<>> ~> queue = <<>>

\* A lost GetInfo is written again until the TI has said what it is, unless a garbled answer
\* has stopped that.
InfoComes == <>(known \/ garbledInfo)

=============================================================================
