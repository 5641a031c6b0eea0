------------------------------ MODULE WorkerSend ------------------------------
(***************************************************************************)
(* sendRelays() as one worker sees it: its own call, location by location, *)
(* and the calls of the other senders on the configurations they share.    *)
(*                                                                         *)
(* RelaySharing has the relays one by one.  Here a configuration is reduced *)
(* to one bit, whether a relay of the worker's own scheme is on in it, and *)
(* the other senders are an environment that may do to that bit whatever   *)
(* their calls do: record an old copy of the wanted configuration as sent, *)
(* and emit a copy of the last one, in which the relays they skip are as   *)
(* they were when it was made.  Which copies they can have, and whether    *)
(* mCanSendRelay keeps them apart, is left open: that is RelaySharing's    *)
(* question.  What they did is kept in a history, crossed.                 *)
(***************************************************************************)
EXTENDS WorkerThread

CONSTANTS
  Others,     \* the callers of sendRelays() on the object of the other scheme
  FanShares   \* BOOLEAN: the fan timer calls sendRelays() on this worker's object

Fan == "fan"    \* the sender that lives in the main thread

ASSUME SendersAssumption == FanShares \in BOOLEAN

VARIABLES
  wantOn,   \* mRelay has a relay of this scheme on
  lastOn,   \* so has mRelayLast, what the code believes it has sent
  boardOn,  \* one of them is energised
  canSend,  \* mCanSendRelay
  force,    \* forceSend of the worker's call
  after,    \* where the call returns to
  copied,   \* lastConfigs of the call has one of them on
  exits,    \* the loop exits posted to the call's waitLoop
  claimed,  \* the Others between setIsSendingRelays(true) and setIsSendingRelays(false)
  leftOn,   \* history: terminate() or an update has left them on
  crossed   \* history: another sender has recorded or emitted these relays as they are not,
            \* or has cut or aborted the worker's call; like leftOn, until a call of the
            \* worker's own sets them

callVars == <<force, after, copied, exits>>
sendVars == <<wantOn, lastOn, boardOn, canSend, force, after, copied, exits, claimed,
              leftOn, crossed>>

SendPC == {"begin", "test", "toWait", "waiting", "claim", "steps"}

SendTypeOK(PC) ==
  /\ wantOn \in BOOLEAN
  /\ lastOn \in BOOLEAN
  /\ boardOn \in BOOLEAN
  /\ canSend \in BOOLEAN
  /\ force \in BOOLEAN
  /\ after \in PC
  /\ copied \in BOOLEAN
  /\ exits \in SUBSET {"send", "none"}
  /\ claimed \in SUBSET Others
  /\ leftOn \in BOOLEAN
  /\ crossed \in BOOLEAN

NoOwnCall ==
  /\ force' = FALSE
  /\ after' = "start"
  /\ copied' = FALSE
  /\ exits' = {}

SendInit ==
  /\ wantOn = FALSE /\ lastOn = FALSE /\ boardOn = FALSE
  /\ canSend = TRUE
  /\ force = FALSE /\ after = "start" /\ copied = FALSE /\ exits = {}
  /\ claimed = {}
  /\ leftOn = FALSE /\ crossed = FALSE

-----------------------------------------------------------------------------
(***************************************************************************)
(* The worker's own call.                                                  *)
(***************************************************************************)

\* An operation on the Relay object, then sendRelays(forced).
Send(from, on, forced, back) ==
  /\ GoTo(from, "begin")
  /\ wantOn' = on
  /\ force' = forced
  /\ after' = back
  /\ UNCHANGED <<lastOn, boardOn, canSend, copied, exits, claimed, leftOn, crossed>>

Return(from) == GoTo(from, after) /\ NoOwnCall

Refused == ~force /\ stopWork

\* The first test, "no change", or the copies.  The configurations also differ when the
\* relays of the other scheme or the fan do.
BeginSend ==
  /\ \/ (Refused \/ lastOn = wantOn) /\ Return("begin")
     \/ /\ ~Refused
        /\ GoTo("begin", "test")
        /\ copied' = lastOn
        /\ UNCHANGED <<force, after, exits>>
  /\ UNCHANGED <<wantOn, lastOn, boardOn, canSend, claimed, leftOn, crossed>>

\* if (!mCanSendRelay) waitLoop(-1, ctSendRelay): stopWorkRequested does not end it.
TestCanSend ==
  /\ GoTo("test", IF canSend THEN "claim" ELSE "toWait")
  /\ UNCHANGED sendVars

EnterSendWait ==
  /\ GoTo("toWait", "waiting")
  /\ UNCHANGED sendVars

WaitGranted ==
  /\ "send" \in exits
  /\ IF Refused THEN Return("waiting")
     ELSE GoTo("waiting", "claim") /\ exits' = {} /\ UNCHANGED <<force, after, copied>>
  /\ UNCHANGED <<wantOn, lastOn, boardOn, canSend, claimed, leftOn, crossed>>

\* The wait was ended by a call on the same object: the wanted configuration is taken for
\* sent, and the worker asks for its own restart.
WaitAborted ==
  /\ pc = "waiting" /\ "none" \in exits
  /\ pc' = after
  /\ NoOwnCall
  /\ lastOn' = wantOn
  /\ crossed' = (crossed \/ lastOn # wantOn)
  /\ \/ stopWork /\ UNCHANGED <<stopWork, armed>>
     \/ /\ ~stopWork /\ armed + queued < MaxPending
        /\ stopWork' = TRUE
        /\ armed' = armed + 1
  /\ UNCHANGED <<listening, woken, queued, main, wantOn, boardOn, canSend, claimed, leftOn>>

\* setRelaysLast(relaysConfig), setIsSendingRelays(true).
Claim ==
  /\ GoTo("claim", "steps")
  /\ lastOn' = wantOn
  /\ UNCHANGED <<wantOn, boardOn, canSend, callVars, claimed, leftOn, crossed>>

MayStep == force \/ canSend

\* Some of the steps are on the board, the rest are not.
EmitStep ==
  /\ pc = "steps" /\ MayStep
  /\ boardOn' \in {copied, wantOn}
  /\ UNCHANGED <<tvars, wantOn, lastOn, canSend, callVars, claimed, leftOn, crossed>>

\* All of the steps are.  The copies may also differ in the relays of others alone.
SendDone ==
  /\ MayStep
  /\ Return("steps")
  /\ boardOn' \in IF copied # wantOn THEN {wantOn} ELSE {boardOn, wantOn}
  /\ LET whole == copied # wantOn /\ lastOn = wantOn
     IN  leftOn' = (leftOn /\ ~whole) /\ crossed' = (crossed /\ ~whole)
  /\ UNCHANGED <<wantOn, lastOn, canSend, claimed>>

\* The other scheme claims the board in the middle of an unforced call, which gives up.
SendCut ==
  /\ ~MayStep
  /\ Return("steps")
  /\ crossed' = (crossed \/ boardOn # wantOn)
  /\ UNCHANGED <<wantOn, lastOn, boardOn, canSend, claimed, leftOn>>

SendRelays ==
  \/ BeginSend
  \/ TestCanSend
  \/ EnterSendWait
  \/ WaitGranted
  \/ WaitAborted
  \/ Claim
  \/ SendDone
  \/ SendCut

\* terminate() leaves the relays, and what is recorded of them, as they are.
StoppedWithRelays ==
  /\ Terminated
  /\ NoOwnCall
  /\ leftOn' = (leftOn \/ boardOn)
  /\ UNCHANGED <<wantOn, lastOn, boardOn, canSend, claimed, crossed>>

-----------------------------------------------------------------------------
(***************************************************************************)
(* The calls of the other senders.                                         *)
(***************************************************************************)

\* The fan timer's calls are made, and go on, in the main thread.
MayRun(p) == p = Fan => main = "idle"

\* setRelaysLast() with a copy of the wanted configuration: by a claim, or by a call whose
\* wait is aborted.
Records ==
  /\ lastOn' \in BOOLEAN
  /\ crossed' = (crossed \/ lastOn' # lastOn)

\* updateRelays() with a copy of the last configuration, changed step by step.
Emits ==
  /\ boardOn' \in BOOLEAN
  /\ crossed' = (crossed \/ boardOn' # boardOn)
  /\ UNCHANGED <<tvars, wantOn, lastOn, canSend, callVars, claimed, leftOn>>

\* A sender of the other scheme takes mCanSendRelay away.
OtherClaims(p) ==
  /\ MayRun(p) /\ p \notin claimed
  /\ Records
  /\ claimed' = claimed \cup {p}
  /\ canSend' = FALSE
  /\ UNCHANGED <<tvars, wantOn, boardOn, callVars, leftOn>>

OtherEmits(p) == MayRun(p) /\ p \in claimed /\ Emits

\* setIsSendingRelays(false): the permission is given back, and a waiter goes on.
OtherReleases(p) ==
  /\ MayRun(p) /\ p \in claimed
  /\ claimed' = claimed \ {p}
  /\ canSend' = TRUE
  /\ exits' = IF pc = "waiting" THEN exits \cup {"send"} ELSE exits
  /\ UNCHANGED <<tvars, wantOn, lastOn, boardOn, force, after, copied, leftOn, crossed>>

\* Its worker is terminated while it sends: the permission is not given back.
OtherTerminated(p) ==
  /\ p # Fan /\ p \in claimed
  /\ claimed' = claimed \ {p}
  /\ UNCHANGED <<tvars, wantOn, lastOn, boardOn, canSend, callVars, leftOn, crossed>>

\* Nothing but the record: a call whose wait is aborted by a second call on its own object,
\* or the claim of a call on this worker's.
RecordsOnly ==
  /\ Records
  /\ UNCHANGED <<tvars, wantOn, boardOn, canSend, callVars, claimed, leftOn>>

\* The end of the fan's call on this worker's object sends a waiter away.
FanReleases ==
  /\ pc = "waiting"
  /\ exits' = exits \cup {"none"}
  /\ UNCHANGED <<tvars, wantOn, lastOn, boardOn, canSend, force, after, copied, claimed,
                 leftOn, crossed>>

OtherCalls ==
  \/ \E p \in Others :
       \/ OtherClaims(p)
       \/ OtherEmits(p)
       \/ OtherReleases(p)
       \/ OtherTerminated(p)
  \/ (\E p, q \in Others : p # q) /\ RecordsOnly
  \/ FanShares /\ MayRun(Fan) /\ (RecordsOnly \/ Emits \/ FanReleases)

-----------------------------------------------------------------------------
\* The call waits for a release that nobody will make: it entered its wait after the release
\* it had tested for, or the worker that had claimed the board was terminated.
Abandoned == pc = "waiting" /\ exits = {} /\ claimed = {}

=============================================================================
