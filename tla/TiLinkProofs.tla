---------------------------- MODULE TiLinkProofs ----------------------------
(***************************************************************************)
(* What TLAPS proves of the link to the TI, for any number of updates,     *)
(* watchdog requests and faults: that the board ends up with the           *)
(* configuration asked for last (BoardHasLast), that it takes              *)
(* configurations in the order in which they are asked for (BoardForward), *)
(* that only what the relays have is confirmed (ConfirmedIsSet), and the   *)
(* types.                                                                  *)
(*                                                                         *)
(* The first two follow a configuration from the queue over the line to    *)
(* the board.  A request moves on by the same three steps whatever wrote   *)
(* it: it is queued, it is written (from the queue, or past it), and it is *)
(* taken.  Their invariants are predicates of the line, the queue and the  *)
(* board, with one lemma for each of the steps; whether processTIQueue()   *)
(* may write does not matter to them.  It does to the third, whose         *)
(* invariant counts the relay requests that have not been answered.        *)
(***************************************************************************)
EXTENDS TiLink, SequenceTheorems, TLAPS

\* What the proofs need of the types.
LineTypes ==
  /\ queue \in Seq(Requests) /\ requests \in Seq(Requests)
  /\ mRelaysIn \in Configs /\ board \in Configs
  /\ asked \in 0..MaxUpdates /\ mRelaysIn <= asked

\* The requests that set the relays.
Sets(r) == r.cmd = "SetRelay" /\ ~r.again

HasSet(q) == \E i \in DOMAIN q : Sets(q[i])

\* What is pushed and written.
LEMMA RequestsTyped ==
  /\ \A cmd \in Commands : Request(cmd) \in Requests /\ Again(cmd) \in Requests
  /\ \A c \in Configs : SetRelay(c) \in Requests /\ Sets(SetRelay(c)) /\ SetRelay(c).relays = c
  /\ \A cmd \in Commands : ~Sets(Again(cmd)) /\ (cmd # "SetRelay" => ~Sets(Request(cmd)))
<1>1. 0 \in Configs
  BY BoundsAssumption DEF BoundsAssumption, Configs
<1> QED BY <1>1 DEF Request, Again, SetRelay, Requests, Sets, Commands

\* Each request has a configuration.
LEMMA RelaysTyped ==
  ASSUME NEW q \in Seq(Requests)
  PROVE  \A i \in DOMAIN q : q[i].relays \in Configs
<1>1. \A i \in DOMAIN q : q[i] \in Requests
  OBVIOUS
<1>2. \A r \in Requests : r.relays \in Configs
  BY DEF Requests
<1> QED BY <1>1, <1>2

\* Appending keeps what is there.
LEMMA Appended ==
  ASSUME NEW q \in Seq(Requests), NEW r \in Requests
  PROVE  /\ Append(q, r) \in Seq(Requests) /\ Len(q) \in Nat
         /\ DOMAIN q = 1 .. Len(q) /\ DOMAIN Append(q, r) = 1 .. Len(q) + 1
         /\ \A i \in DOMAIN q : Append(q, r)[i] = q[i]
         /\ Append(q, r)[Len(q) + 1] = r
  OBVIOUS

\* Taking the head keeps the others.
LEMMA Taken ==
  ASSUME NEW q \in Seq(Requests), q # <<>>
  PROVE  /\ Tail(q) \in Seq(Requests) /\ Len(q) \in Nat \ {0}
         /\ Head(q) \in Requests /\ Head(q) = q[1]
         /\ DOMAIN q = 1 .. Len(q) /\ DOMAIN Tail(q) = 1 .. Len(q) - 1
         /\ \A i \in DOMAIN Tail(q) : Tail(q)[i] = q[i + 1]
  OBVIOUS

-----------------------------------------------------------------------------
(***************************************************************************)
(* The last configuration.                                                 *)
(***************************************************************************)

\* If q sets the relays at all, it leaves them with c.
EndsWith(q, c) == \A i \in DOMAIN q :
  Sets(q[i]) /\ (\A j \in DOMAIN q : j > i => ~Sets(q[j])) => q[i].relays = c

\* c is what the queue, else the line, leaves the relays with, or it has arrived.
Leads(line, q, c, arrived) ==
  /\ EndsWith(q, c)
  /\ ~HasSet(q) => EndsWith(line, c)
  /\ ~HasSet(q) /\ ~HasSet(line) => arrived

\* A request at the end says what the sequence leaves the relays with, if it sets them.
LEMMA AppendEnds ==
  ASSUME NEW q \in Seq(Requests), NEW r \in Requests, NEW c
  PROVE  /\ HasSet(Append(q, r)) <=> HasSet(q) \/ Sets(r)
         /\ Sets(r) /\ r.relays = c => EndsWith(Append(q, r), c)
         /\ ~Sets(r) /\ EndsWith(q, c) => EndsWith(Append(q, r), c)
<1>1. HasSet(Append(q, r)) <=> HasSet(q) \/ Sets(r)
  <2>1. Len(q) + 1 \in DOMAIN Append(q, r)
    BY Appended
  <2>2. DOMAIN q \subseteq DOMAIN Append(q, r)
    BY Appended
  <2>3. \A i \in DOMAIN Append(q, r) : i \in DOMAIN q \/ i = Len(q) + 1
    BY Appended
  <2> QED BY <2>1, <2>2, <2>3, Appended DEF HasSet
<1>2. ASSUME Sets(r), r.relays = c PROVE EndsWith(Append(q, r), c)
  BY <1>2, Appended DEF EndsWith
<1>3. ASSUME ~Sets(r), EndsWith(q, c) PROVE EndsWith(Append(q, r), c)
  BY <1>3, Appended DEF EndsWith
<1> QED BY <1>1, <1>2, <1>3

\* A request at the head says so only if no other does.
LEMMA TailEnds ==
  ASSUME NEW q \in Seq(Requests), q # <<>>, NEW c
  PROVE  /\ HasSet(q) <=> HasSet(Tail(q)) \/ Sets(Head(q))
         /\ EndsWith(q, c) => EndsWith(Tail(q), c)
         /\ EndsWith(q, c) /\ Sets(Head(q)) /\ ~HasSet(Tail(q)) => Head(q).relays = c
<1>0. \A i \in DOMAIN q : i = 1 \/ (i - 1 \in DOMAIN Tail(q) /\ Tail(q)[i - 1] = q[i])
  BY Taken
<1>1. \A i \in DOMAIN Tail(q) : i + 1 \in DOMAIN q /\ Tail(q)[i] = q[i + 1]
  BY Taken
<1>2. 1 \in DOMAIN q /\ Head(q) = q[1]
  BY Taken
<1>3. HasSet(q) <=> HasSet(Tail(q)) \/ Sets(Head(q))
  BY <1>0, <1>1, <1>2 DEF HasSet
<1>4. ASSUME EndsWith(q, c) PROVE EndsWith(Tail(q), c)
  <2> SUFFICES ASSUME NEW i \in DOMAIN Tail(q), Sets(Tail(q)[i]),
                      \A j \in DOMAIN Tail(q) : j > i => ~Sets(Tail(q)[j])
               PROVE  Tail(q)[i].relays = c
    BY DEF EndsWith
  <2>1. ASSUME NEW j \in DOMAIN q, j > i + 1 PROVE ~Sets(q[j])
    <3>1. i \in Nat \ {0} /\ j \in Nat
      BY Taken
    <3>2. j # 1 /\ j - 1 > i
      BY <2>1, <3>1
    <3> QED BY <1>0, <2>1, <3>2
  <2> QED BY <1>1, <1>4, <2>1 DEF EndsWith
<1>5. ASSUME EndsWith(q, c), Sets(Head(q)), ~HasSet(Tail(q)) PROVE Head(q).relays = c
  <2>1. ASSUME NEW j \in DOMAIN q, j > 1 PROVE ~Sets(q[j])
    <3>1. j - 1 \in DOMAIN Tail(q) /\ Tail(q)[j - 1] = q[j]
      BY <1>0, <2>1, Taken
    <3> QED BY <1>5, <3>1 DEF HasSet
  <2> QED BY <1>2, <1>5, <2>1 DEF EndsWith
<1> QED BY <1>3, <1>4, <1>5

\* The update that is queued is the one that counts.
LEMMA LeadsPushed ==
  ASSUME NEW line, NEW q \in Seq(Requests), NEW r \in Requests, NEW c, NEW d, NEW arrived,
         \/ Sets(r) /\ r.relays = c
         \/ ~Sets(r) /\ d = c /\ Leads(line, q, d, arrived)
  PROVE  Leads(line, Append(q, r), c, arrived)
  BY AppendEnds DEF Leads

\* A request goes from the queue to the line.
LEMMA LeadsMoved ==
  ASSUME NEW line \in Seq(Requests), NEW q \in Seq(Requests), q # <<>>, NEW c, NEW arrived,
         Leads(line, q, c, arrived)
  PROVE  Leads(Append(line, Head(q)), Tail(q), c, arrived)
<1>1. Head(q) \in Requests
  BY Taken
<1>2. HasSet(Append(line, Head(q))) <=> HasSet(line) \/ Sets(Head(q))
  BY <1>1, AppendEnds
<1>3. ASSUME ~HasSet(Tail(q)) PROVE EndsWith(Append(line, Head(q)), c)
  BY <1>1, <1>3, AppendEnds, TailEnds DEF Leads
<1> QED BY <1>2, <1>3, TailEnds DEF Leads

\* A request is written past the queue, with the configuration asked for last if it has one.
LEMMA LeadsDirect ==
  ASSUME NEW line \in Seq(Requests), NEW q, NEW r \in Requests, NEW c, NEW arrived,
         Leads(line, q, c, arrived), Sets(r) => r.relays = c
  PROVE  Leads(Append(line, r), q, c, arrived)
  BY AppendEnds DEF Leads

\* A request leaves the line.
LEMMA LeadsTaken ==
  ASSUME NEW line \in Seq(Requests), line # <<>>, NEW q, NEW c, NEW before, NEW after,
         Leads(line, q, c, before),
         IF Sets(Head(line)) THEN Head(line).relays = c => after ELSE before => after
  PROVE  Leads(Tail(line), q, c, after)
  BY TailEnds DEF Leads

-----------------------------------------------------------------------------
(***************************************************************************)
(* The order of the configurations.                                        *)
(***************************************************************************)

\* The configurations of q lie between b and c, and do not fall.
Between(q, b, c) == \A i \in DOMAIN q : Sets(q[i]) => b <= q[i].relays /\ q[i].relays <= c
InOrder(q) == \A i, j \in DOMAIN q :
  i < j /\ Sets(q[i]) /\ Sets(q[j]) => q[i].relays <= q[j].relays

\* Nor do they from p to q.
Before(p, q) == \A i \in DOMAIN p, j \in DOMAIN q :
  Sets(p[i]) /\ Sets(q[j]) => p[i].relays <= q[j].relays

\* From b on the board over the line and the queue to c they do not fall.
Rises(b, line, q, c) ==
  /\ b <= c
  /\ Between(line, b, c) /\ Between(q, b, c)
  /\ InOrder(line) /\ InOrder(q) /\ Before(line, q)

\* A newer configuration may be queued.
LEMMA RisesPushed ==
  ASSUME NEW b \in Configs, NEW c \in Configs, NEW d \in Configs, c <= d,
         NEW line \in Seq(Requests), NEW q \in Seq(Requests), NEW r \in Requests,
         Rises(b, line, q, c), Sets(r) => r.relays = d
  PROVE  Rises(b, line, Append(q, r), d)
<1>0. /\ \A i \in DOMAIN line : line[i].relays \in Configs
      /\ \A i \in DOMAIN q : q[i].relays \in Configs
  BY RelaysTyped
<1>1. \A x, y, z \in Configs : x <= y /\ y <= z => x <= z
  BY BoundsAssumption DEF BoundsAssumption, Configs
<1>2. b <= d /\ d <= d
  BY <1>1, BoundsAssumption DEF BoundsAssumption, Configs, Rises
<1>3. Between(line, b, d) /\ Between(q, b, d)
  BY <1>0, <1>1 DEF Rises, Between
<1>4. Between(Append(q, r), b, d)
  BY <1>2, <1>3, Appended DEF Between
<1>5. InOrder(Append(q, r))
  <2> SUFFICES ASSUME NEW i \in DOMAIN Append(q, r), NEW j \in DOMAIN Append(q, r), i < j,
                      Sets(Append(q, r)[i]), Sets(Append(q, r)[j])
               PROVE  Append(q, r)[i].relays <= Append(q, r)[j].relays
    BY DEF InOrder
  <2>1. i \in DOMAIN q /\ Append(q, r)[i] = q[i]
    BY Appended
  <2>2. CASE j \in DOMAIN q
    BY <2>1, <2>2, Appended DEF Rises, InOrder
  <2>3. CASE j \notin DOMAIN q
    <3>1. Append(q, r)[j] = r
      BY <2>3, Appended
    <3> QED BY <1>3, <2>1, <3>1 DEF Between
  <2> QED BY <2>2, <2>3
<1>6. Before(line, Append(q, r))
  BY <1>3, Appended DEF Rises, Before, Between
<1> QED BY <1>2, <1>3, <1>4, <1>5, <1>6 DEF Rises

\* A request is written.
LEMMA RisesMoved ==
  ASSUME NEW b \in Configs, NEW c \in Configs,
         NEW line \in Seq(Requests), NEW q \in Seq(Requests), q # <<>>, Rises(b, line, q, c)
  PROVE  Rises(b, Append(line, Head(q)), Tail(q), c)
<1> DEFINE r == Head(q)
<1>0. r \in Requests /\ r = q[1] /\ 1 \in DOMAIN q
  BY Taken
<1>1. \A i \in DOMAIN Tail(q) : i + 1 \in DOMAIN q /\ 1 < i + 1 /\ Tail(q)[i] = q[i + 1]
  BY Taken
<1>2. Sets(r) => b <= r.relays /\ r.relays <= c
  BY <1>0 DEF Rises, Between
<1>3. \A j \in DOMAIN q : 1 < j /\ Sets(r) /\ Sets(q[j]) => r.relays <= q[j].relays
  BY <1>0 DEF Rises, InOrder
<1>4. \A i \in DOMAIN line : Sets(line[i]) /\ Sets(r) => line[i].relays <= r.relays
  BY <1>0 DEF Rises, Before
<1> HIDE DEF r
<1>5. Between(Append(line, r), b, c) /\ Between(Tail(q), b, c)
  BY <1>0, <1>1, <1>2, Appended DEF Rises, Between
<1>6. InOrder(Append(line, r))
  <2> SUFFICES ASSUME NEW i \in DOMAIN Append(line, r), NEW j \in DOMAIN Append(line, r), i < j,
                      Sets(Append(line, r)[i]), Sets(Append(line, r)[j])
               PROVE  Append(line, r)[i].relays <= Append(line, r)[j].relays
    BY DEF InOrder
  <2>1. i \in DOMAIN line /\ Append(line, r)[i] = line[i]
    BY <1>0, Appended
  <2>2. CASE j \in DOMAIN line
    BY <1>0, <2>1, <2>2, Appended DEF Rises, InOrder
  <2>3. CASE j \notin DOMAIN line
    <3>1. Append(line, r)[j] = r
      BY <1>0, <2>3, Appended
    <3> QED BY <1>4, <2>1, <3>1
  <2> QED BY <2>2, <2>3
<1>7. InOrder(Tail(q))
  <2>1. \A i, j \in DOMAIN Tail(q) : i < j => i + 1 < j + 1
    BY Taken
  <2> QED BY <1>1, <2>1 DEF Rises, InOrder
<1>8. Before(Append(line, r), Tail(q))
  <2> SUFFICES ASSUME NEW i \in DOMAIN Append(line, r), NEW j \in DOMAIN Tail(q),
                      Sets(Append(line, r)[i]), Sets(Tail(q)[j])
               PROVE  Append(line, r)[i].relays <= Tail(q)[j].relays
    BY DEF Before
  <2>1. CASE i \in DOMAIN line
    BY <1>0, <1>1, <2>1, Appended DEF Rises, Before
  <2>2. CASE i \notin DOMAIN line
    <3>1. Append(line, r)[i] = r
      BY <1>0, <2>2, Appended
    <3> QED BY <1>1, <1>3, <3>1
  <2> QED BY <2>1, <2>2
<1> QED BY <1>5, <1>6, <1>7, <1>8 DEF Rises, r

\* A request goes past a queue that has no configuration.
LEMMA RisesDirect ==
  ASSUME NEW b \in Configs, NEW c \in Configs, NEW line \in Seq(Requests),
         NEW q \in Seq(Requests), NEW r \in Requests, Rises(b, line, q, c),
         Sets(r) => r.relays = c /\ ~HasSet(q)
  PROVE  Rises(b, Append(line, r), q, c)
<1>1. Rises(b, <<>>, line, c)
  BY DEF Rises, Between, InOrder, Before
<1>2. <<>> \in Seq(Requests) /\ c <= c
  BY BoundsAssumption DEF BoundsAssumption, Configs
<1>3. Rises(b, <<>>, Append(line, r), c)
  BY <1>1, <1>2, RisesPushed
<1>4. Before(Append(line, r), q)
  BY Appended DEF Rises, Before, HasSet
<1> QED BY <1>3, <1>4 DEF Rises

\* A request reaches the board, or is lost.
LEMMA RisesTaken ==
  ASSUME NEW b \in Configs, NEW c \in Configs, NEW line \in Seq(Requests), line # <<>>,
         NEW q \in Seq(Requests), Rises(b, line, q, c)
  PROVE  /\ Rises(b, Tail(line), q, c)
         /\ Sets(Head(line)) => b <= Head(line).relays
                                /\ Rises(Head(line).relays, Tail(line), q, c)
<1> DEFINE r == Head(line)
<1>0. r = line[1] /\ 1 \in DOMAIN line
  BY Taken
<1>1. \A i \in DOMAIN Tail(line) :
        i + 1 \in DOMAIN line /\ 1 < i + 1 /\ Tail(line)[i] = line[i + 1]
  BY Taken
<1>2. InOrder(Tail(line))
  <2>1. \A i, j \in DOMAIN Tail(line) : i < j => i + 1 < j + 1
    BY Taken
  <2> QED BY <1>1, <2>1 DEF Rises, InOrder
<1>3. Before(Tail(line), q)
  BY <1>1 DEF Rises, Before
<1>4. Between(Tail(line), b, c)
  BY <1>1 DEF Rises, Between
<1>5. ASSUME Sets(r)
      PROVE  /\ b <= r.relays /\ r.relays <= c
             /\ Between(Tail(line), r.relays, c) /\ Between(q, r.relays, c)
  <2>1. b <= r.relays /\ r.relays <= c
    BY <1>0, <1>5 DEF Rises, Between
  <2>2. Between(Tail(line), r.relays, c)
    BY <1>0, <1>1, <1>5 DEF Rises, Between, InOrder
  <2>3. Between(q, r.relays, c)
    BY <1>0, <1>5 DEF Rises, Between, Before
  <2> QED BY <2>1, <2>2, <2>3
<1> QED BY <1>2, <1>3, <1>4, <1>5 DEF Rises

-----------------------------------------------------------------------------
(***************************************************************************)
(* The steps of TiLink.                                                    *)
(***************************************************************************)

\* After a write past a queue q, or without one, that left `line': the head of q follows, or not.
Written(line, q) ==
  \/ queue' = q /\ requests' = line
  \/ q # <<>> /\ queue' = Tail(q) /\ requests' = Append(line, Head(q))

\* sendTIRequest() appends what it writes.
LEMMA WriteAppends ==
  ASSUME NEW sent, NEW waiting, Write(sent, waiting)
  PROVE  requests' = requests \o sent
  BY Zenon DEF Write

\* Past the queue, then from its head if that may be written.
LEMMA WriteWithAppends ==
  ASSUME NEW direct, NEW q, NEW waiting, NEW running, WriteWith(direct, q, waiting, running)
  PROVE  \/ queue' = q /\ requests' = requests \o direct
         \/ q # <<>> /\ queue' = Tail(q) /\ requests' = requests \o (direct \o <<Head(q)>>)
<1> DEFINE held == waiting \/ HasRelayRequest(direct)
<1>1. CASE MayWrite(q, held)
  <2>1. queue' = Tail(q) /\ Write(direct \o <<Head(q)>>, waiting)
    BY <1>1, Zenon DEF WriteWith
  <2>2. q # <<>>
    BY <1>1, Zenon DEF MayWrite
  <2> QED BY <2>1, <2>2, WriteAppends
<1>2. CASE ~MayWrite(q, held)
  <2>1. queue' = q /\ Write(direct, waiting)
    BY <1>2, Zenon DEF WriteWith
  <2> QED BY <2>1, WriteAppends
<1> QED BY <1>1, <1>2

\* Nothing is written past the queue.
LEMMA WriteQueued ==
  ASSUME NEW line \in Seq(Requests), requests = line, NEW q \in Seq(Requests),
         NEW waiting, NEW running, WriteWith(<<>>, q, waiting, running)
  PROVE  Written(line, q)
<1>1. \/ queue' = q /\ requests' = line \o <<>>
      \/ q # <<>> /\ queue' = Tail(q) /\ requests' = line \o (<<>> \o <<Head(q)>>)
  BY WriteWithAppends
<1>2. line \o <<>> = line
  OBVIOUS
<1>3. ASSUME q # <<>> PROVE line \o (<<>> \o <<Head(q)>>) = Append(line, Head(q))
  <2>1. Head(q) \in Requests
    BY <1>3, Taken
  <2> QED BY <2>1
<1> QED BY <1>1, <1>2, <1>3 DEF Written

\* One request is.
LEMMA WriteDirect ==
  ASSUME NEW line \in Seq(Requests), requests = line, NEW q \in Seq(Requests),
         NEW r \in Requests, NEW waiting, NEW running, WriteWith(<<r>>, q, waiting, running)
  PROVE  Written(Append(line, r), q)
<1>1. \/ queue' = q /\ requests' = line \o <<r>>
      \/ q # <<>> /\ queue' = Tail(q) /\ requests' = line \o (<<r>> \o <<Head(q)>>)
  BY WriteWithAppends
<1>2. line \o <<r>> = Append(line, r)
  OBVIOUS
<1>3. ASSUME q # <<>> PROVE line \o (<<r>> \o <<Head(q)>>) = Append(Append(line, r), Head(q))
  <2>1. Head(q) \in Requests
    BY <1>3, Taken
  <2> QED BY <2>1
<1> QED BY <1>1, <1>2, <1>3 DEF Written

\* Types, and both orders, after a write.
LEMMA WrittenKeeps ==
  ASSUME NEW line \in Seq(Requests), NEW q \in Seq(Requests), Written(line, q),
         NEW b \in Configs, NEW c \in Configs, NEW arrived
  PROVE  /\ queue' \in Seq(Requests) /\ requests' \in Seq(Requests)
         /\ Leads(line, q, c, arrived) => Leads(requests', queue', c, arrived)
         /\ Rises(b, line, q, c) => Rises(b, requests', queue', c)
<1>1. CASE queue' = q /\ requests' = line
  BY <1>1
<1>2. CASE q # <<>> /\ queue' = Tail(q) /\ requests' = Append(line, Head(q))
  <2>1. Tail(q) \in Seq(Requests) /\ Append(line, Head(q)) \in Seq(Requests)
    BY <1>2, Taken, Appended
  <2>2. Leads(line, q, c, arrived) => Leads(requests', queue', c, arrived)
    BY <1>2, LeadsMoved
  <2>3. Rises(b, line, q, c) => Rises(b, requests', queue', c)
    BY <1>2, RisesMoved
  <2> QED BY <1>2, <2>1, <2>2, <2>3
<1> QED BY <1>1, <1>2 DEF Written

\* The board has the configuration asked for last, or a fault has come in between.
Arrived == board = mRelaysIn \/ astray

\* The inductive invariant.
LastInv == Leads(requests, queue, mRelaysIn, Arrived)
OrderInv == overtaken \in BOOLEAN /\ (~overtaken => Rises(board, requests, queue, mRelaysIn))
Inv == LineTypes /\ LastInv /\ OrderInv

\* It holds when the port has been opened.
LEMMA InitInv == Init => Inv
<1> SUFFICES ASSUME Init PROVE Inv
  OBVIOUS
<1>1. /\ queue = <<>> /\ requests = <<Request("GetInfo")>>
      /\ mRelaysIn = 0 /\ board = 0 /\ asked = 0 /\ overtaken = FALSE
  BY DEF Init
<1>2. Request("GetInfo") \in Requests /\ ~Sets(Request("GetInfo"))
  BY RequestsTyped DEF Commands
<1>3. LineTypes
  BY <1>1, <1>2, BoundsAssumption DEF BoundsAssumption, LineTypes, Configs
<1>4. \A i \in DOMAIN requests : ~Sets(requests[i])
  BY <1>1, <1>2
<1>5. LastInv
  BY <1>1, <1>4 DEF LastInv, Leads, EndsWith, HasSet, Arrived
<1>6. OrderInv
  <2>1. board <= mRelaysIn
    BY <1>1
  <2>2. DOMAIN queue = {}
    BY <1>1
  <2> QED BY <1>1, <1>4, <2>1, <2>2, Zenon DEF OrderInv, Rises, Between, InOrder, Before
<1> QED BY <1>3, <1>5, <1>6 DEF Inv

\* What a step that queues and writes has to show.
LEMMA WriteInv ==
  ASSUME Inv, NEW line \in Seq(Requests), NEW q \in Seq(Requests), Written(line, q),
         UNCHANGED <<board, astray>>,
         mRelaysIn' \in Configs, asked' \in 0..MaxUpdates, mRelaysIn' <= asked',
         Leads(line, q, mRelaysIn', Arrived'),
         overtaken' \in BOOLEAN, ~overtaken' => Rises(board, line, q, mRelaysIn')
  PROVE  Inv'
<1>1. board \in Configs
  BY DEF Inv, LineTypes
<1>2. /\ queue' \in Seq(Requests) /\ requests' \in Seq(Requests)
      /\ Leads(requests', queue', mRelaysIn', Arrived')
      /\ ~overtaken' => Rises(board, requests', queue', mRelaysIn')
  BY <1>1, WrittenKeeps
<1> QED BY <1>1, <1>2 DEF Inv, LineTypes, LastInv, OrderInv

\* A configuration, new or old, is queued.
LEMMA RelaysInv == Inv /\ (UpdateRelays \/ ForceRelays) => Inv'
<1> SUFFICES ASSUME Inv, UpdateRelays \/ ForceRelays PROVE Inv'
  OBVIOUS
<1> LineTypes /\ LastInv /\ OrderInv
  BY DEF Inv
<1> DEFINE c == mRelaysIn'
           q == Append(queue, SetRelay(c))
<1>1. /\ asked < MaxUpdates /\ asked' = asked + 1 /\ mRelaysIn' \in {mRelaysIn, mRelaysIn + 1}
      /\ WriteWith(<<>>, q, wait_relay_response, retry)
      /\ UNCHANGED <<board, astray, overtaken>>
  BY DEF UpdateRelays, ForceRelays, Ask, sendRelays, tiVars, history
<1>2. /\ c \in Configs /\ mRelaysIn <= c
      /\ asked' \in 0..MaxUpdates /\ c <= asked'
  BY <1>1, BoundsAssumption DEF BoundsAssumption, LineTypes, Configs
<1>3. SetRelay(c) \in Requests /\ Sets(SetRelay(c)) /\ SetRelay(c).relays = c
  BY <1>2, RequestsTyped
<1>4. q \in Seq(Requests)
  BY <1>3, Appended DEF LineTypes
<1> HIDE DEF c
<1>5. Written(requests, q)
  BY <1>1, <1>4, WriteQueued DEF LineTypes
<1>6. Leads(requests, q, c, Arrived')
  BY <1>3, LeadsPushed DEF LineTypes
<1>7. ~overtaken => Rises(board, requests, q, c)
  BY <1>2, <1>3, RisesPushed DEF LineTypes, OrderInv
<1> QED BY <1>1, <1>2, <1>4, <1>5, <1>6, <1>7, WriteInv DEF LineTypes, OrderInv, c

\* GetInfo is queued again.
LEMMA GetInfoInv == Inv /\ GetInfoAgain => Inv'
<1> SUFFICES ASSUME Inv, GetInfoAgain PROVE Inv'
  OBVIOUS
<1> LineTypes /\ LastInv /\ OrderInv
  BY DEF Inv
<1> DEFINE r == Request("GetInfo")
           q == Append(queue, r)
<1>1. /\ WriteWith(<<>>, q, wait_relay_response, FALSE)
      /\ UNCHANGED <<mRelaysIn, asked, board, astray, overtaken>>
  BY DEF GetInfoAgain, tiVars, history
<1>2. r \in Requests /\ ~Sets(r)
  BY RequestsTyped DEF Commands
<1>3. q \in Seq(Requests)
  BY <1>2, Appended DEF LineTypes
<1>4. Written(requests, q)
  BY <1>1, <1>3, WriteQueued DEF LineTypes
<1> HIDE DEF r
<1>5. Leads(requests, q, mRelaysIn, Arrived)
  BY <1>2, LeadsPushed DEF LineTypes, LastInv
<1>6. mRelaysIn \in Configs /\ mRelaysIn <= mRelaysIn
  BY BoundsAssumption DEF BoundsAssumption, LineTypes, Configs
<1>7. ~overtaken => Rises(board, requests, q, mRelaysIn)
  BY <1>2, <1>6, RisesPushed DEF LineTypes, OrderInv
<1>8. Arrived' = Arrived
  BY <1>1 DEF Arrived
<1> QED BY <1>1, <1>3, <1>4, <1>5, <1>7, <1>8, WriteInv DEF LineTypes, OrderInv

\* A request is written past the queue: one that does not set the relays, or sets them as asked
\* for last, and if a configuration is queued, it is remembered.
LEMMA DirectInv ==
  ASSUME Inv, NEW r \in Requests, Written(Append(requests, r), queue),
         Sets(r) => r.relays = mRelaysIn /\ (HasSet(queue) => overtaken'),
         UNCHANGED <<mRelaysIn, asked, board, astray>>,
         overtaken' \in BOOLEAN, overtaken => overtaken'
  PROVE  Inv'
<1> LineTypes /\ LastInv /\ OrderInv
  BY DEF Inv
<1>1. Append(requests, r) \in Seq(Requests)
  BY Appended DEF LineTypes
<1>2. Leads(Append(requests, r), queue, mRelaysIn, Arrived)
  BY LeadsDirect DEF LineTypes, LastInv
<1>3. ~overtaken' => Rises(board, Append(requests, r), queue, mRelaysIn)
  BY RisesDirect DEF LineTypes, OrderInv
<1>4. Arrived' = Arrived
  BY DEF Arrived
<1> QED BY <1>1, <1>2, <1>3, <1>4, WriteInv DEF LineTypes

\* The watchdog is fed.
LEMMA FeedInv == Inv /\ WtdExec => Inv'
<1> SUFFICES ASSUME Inv, WtdExec PROVE Inv'
  OBVIOUS
<1> LineTypes /\ OrderInv
  BY DEF Inv
<1> DEFINE r == Request("feed_wtd")
<1>1. /\ Write(<<r>>, wait_relay_response)
      /\ UNCHANGED <<queue, mRelaysIn, asked, board, astray, overtaken>>
  BY Zenon DEF WtdExec, tiVars, history
<1>2. r \in Requests /\ ~Sets(r)
  BY RequestsTyped DEF Commands
<1> HIDE DEF r
<1>3. requests' = requests \o <<r>>
  BY <1>1, WriteAppends
<1>4. requests \o <<r>> = Append(requests, r)
  BY <1>2 DEF LineTypes
<1>5. Written(Append(requests, r), queue)
  BY <1>1, <1>3, <1>4 DEF Written
<1> QED BY <1>1, <1>2, <1>5, DirectInv DEF OrderInv

\* A request reaches its end.
LEMMA TakenInv == Inv /\ (Serve \/ Refuse \/ LoseRequest) => Inv'
<1> SUFFICES ASSUME Inv, Serve \/ Refuse \/ LoseRequest PROVE Inv'
  OBVIOUS
<1> LineTypes /\ LastInv /\ OrderInv
  BY DEF Inv
<1> DEFINE r == Head(requests)
<1>1. /\ requests # <<>> /\ requests' = Tail(requests)
      /\ UNCHANGED <<queue, mRelaysIn, asked, overtaken>>
  BY DEF Serve, Refuse, LoseRequest
<1>2. \/ Sets(r) /\ board' = r.relays
      \/ ~Sets(r) /\ board' = board /\ astray' = astray
      \/ board' = board /\ astray' = (astray \/ r.cmd = "SetRelay")
  BY DEF Serve, Refuse, LoseRequest, Sets, tiVars
<1>3. requests' \in Seq(Requests) /\ r \in Requests
  BY <1>1, Taken DEF LineTypes
<1>4. LineTypes'
  <2>1. r.relays \in Configs
    BY <1>3 DEF Requests
  <2>2. board' \in Configs
    BY <1>2, <2>1 DEF LineTypes
  <2> QED BY <1>1, <1>3, <2>2 DEF LineTypes
<1>5. LastInv'
  <2>1. IF Sets(r) THEN r.relays = mRelaysIn => Arrived' ELSE Arrived => Arrived'
    <3>1. CASE Sets(r) /\ board' = r.relays
      BY <1>1, <3>1 DEF Arrived
    <3>2. CASE ~Sets(r) /\ board' = board /\ astray' = astray
      BY <1>1, <3>2 DEF Arrived
    <3>3. CASE board' = board /\ astray' = (astray \/ r.cmd = "SetRelay")
      <4>1. Sets(r) => astray'
        BY <3>3, Zenon DEF Sets
      <4>2. astray => astray'
        BY <3>3, Zenon
      <4> QED BY <1>1, <3>3, <4>1, <4>2 DEF Arrived
    <3> QED BY <1>2, <3>1, <3>2, <3>3
  <2>2. Leads(Tail(requests), queue, mRelaysIn, Arrived')
    BY <1>1, <2>1, LeadsTaken DEF LineTypes, LastInv
  <2> QED BY <1>1, <2>2 DEF LastInv
<1>6. OrderInv'
  <2> SUFFICES ASSUME ~overtaken PROVE Rises(board, requests, queue, mRelaysIn)'
    BY <1>1 DEF OrderInv
  <2>1. /\ Rises(board, Tail(requests), queue, mRelaysIn)
        /\ Sets(r) => Rises(r.relays, Tail(requests), queue, mRelaysIn)
    BY <1>1, RisesTaken DEF LineTypes, OrderInv
  <2> QED BY <1>1, <1>2, <2>1
<1> QED BY <1>4, <1>5, <1>6 DEF Inv

\* What processTIResponse() answers.
LEMMA ReplyTyped ==
  ASSUME NEW a, mRelaysIn \in Configs
  PROVE  \/ Reply(a) = <<>>
         \/ \E r \in Requests :
              /\ Reply(a) = <<r>> /\ ~r.again
              /\ Sets(r) => r.relays = mRelaysIn /\ a.cmd = "Check_Wiring"
<1> DEFINE wires == a = [cmd |-> "SetRelay", ack |-> "ERROR_WIRING_NOT_CONNECTED"]
           wired == a = [cmd |-> "Check_Wiring", ack |-> "ERROR_NO"]
<1>1. /\ Request("Check_Wiring") \in Requests /\ ~Sets(Request("Check_Wiring"))
      /\ Request("Get_addr") \in Requests /\ ~Sets(Request("Get_addr"))
      /\ SetRelay(mRelaysIn) \in Requests /\ SetRelay(mRelaysIn).relays = mRelaysIn
  BY RequestsTyped DEF Commands
<1>2. ~SetRelay(mRelaysIn).again /\ (\A cmd : ~Request(cmd).again)
  BY DEF SetRelay, Request
<1>3. /\ wires => ~wired /\ a.cmd # "GetInfo"
      /\ wired => a.cmd = "Check_Wiring" /\ a.cmd # "GetInfo"
  OBVIOUS
<1>4. CASE wires
  BY <1>1, <1>3, <1>4, <1>2 DEF Reply
<1>5. CASE wired
  <2>1. Reply(a) = <<SetRelay(mRelaysIn)>>
    BY <1>3, <1>5 DEF Reply
  <2> QED BY <1>1, <1>3, <1>5, <1>2, <2>1
<1>6. CASE ~wires /\ ~wired /\ a.cmd = "GetInfo"
  BY <1>1, <1>2, <1>6 DEF Reply
<1>7. CASE ~wires /\ ~wired /\ a.cmd # "GetInfo"
  BY <1>7 DEF Reply
<1> QED BY <1>4, <1>5, <1>6, <1>7

\* An answer is read.
LEMMA ReadInv == Inv /\ ReadAnswer => Inv'
<1> SUFFICES ASSUME Inv, ReadAnswer PROVE Inv'
  OBVIOUS
<1> LineTypes /\ LastInv /\ OrderInv
  BY DEF Inv
<1> DEFINE a == Head(answers)
<1>1. PICK waiting, running : WriteWith(Reply(a), queue, waiting, running)
  BY Zenon DEF ReadAnswer
<1>2. /\ overtaken' = (overtaken \/ (a.cmd = "Check_Wiring" /\ Holds(queue, "SetRelay")))
      /\ UNCHANGED <<mRelaysIn, asked, board, astray>>
  BY Zenon DEF ReadAnswer
<1>3. overtaken' \in BOOLEAN /\ (overtaken => overtaken')
  BY <1>2 DEF OrderInv
<1> HIDE DEF a
<1>4. CASE Reply(a) = <<>>
  <2>1. Written(requests, queue)
    BY <1>1, <1>4, WriteQueued DEF LineTypes
  <2>2. Arrived' = Arrived
    BY <1>2 DEF Arrived
  <2> QED BY <1>2, <1>3, <2>1, <2>2, WriteInv DEF LineTypes, LastInv, OrderInv
<1>5. CASE Reply(a) # <<>>
  <2>1. PICK r \in Requests :
          Reply(a) = <<r>> /\ (Sets(r) => r.relays = mRelaysIn /\ a.cmd = "Check_Wiring")
    BY <1>5, ReplyTyped DEF LineTypes
  <2>2. Written(Append(requests, r), queue)
    BY <1>1, <2>1, WriteDirect DEF LineTypes
  <2>3. Sets(r) /\ HasSet(queue) => overtaken'
    BY <1>2, <2>1 DEF HasSet, Sets, Holds
  <2> QED BY <1>2, <1>3, <2>1, <2>2, <2>3, DirectInv
<1> QED BY <1>4, <1>5

\* What is no whole answer is read, and its command written again.
LEMMA MisreadInv == Inv /\ Misread => Inv'
<1> SUFFICES ASSUME Inv, Misread PROVE Inv'
  OBVIOUS
<1> LineTypes /\ OrderInv
  BY DEF Inv
<1>1. PICK cmd \in Commands : \E waiting, running : WriteWith(<<Again(cmd)>>, queue, waiting, running)
  BY Zenon DEF Misread
<1>2. UNCHANGED <<mRelaysIn, asked, board, astray, overtaken>>
  BY Zenon DEF Misread
<1>3. Again(cmd) \in Requests /\ ~Sets(Again(cmd))
  BY RequestsTyped
<1>4. Written(Append(requests, Again(cmd)), queue)
  BY <1>1, <1>3, WriteDirect DEF LineTypes
<1> QED BY <1>2, <1>3, <1>4, DirectInv DEF OrderInv

\* Every step keeps the invariant.
LEMMA NextInv == Inv /\ [Next]_vars => Inv'
<1> SUFFICES ASSUME Inv, [Next]_vars PROVE Inv'
  OBVIOUS
<1>1. CASE LoseAnswer \/ UNCHANGED vars
  <2>1. UNCHANGED <<requests, queue, mRelaysIn, asked, board, astray, overtaken>>
    BY <1>1 DEF LoseAnswer, vars, history
  <2> QED
    BY <2>1 DEF Inv, LineTypes, LastInv, OrderInv, Arrived
<1> QED
  BY <1>1, RelaysInv, GetInfoInv, FeedInv, TakenInv, ReadInv, MisreadInv
  DEF Next, ReadGarbled, ReadPart, ReadRest

\* Once every SetRelay has reached its end, and the last one was neither lost nor refused, the
\* board has the configuration asked for last.
THEOREM LastArrives == Spec => []BoardHasLast
<1>1. Inv => BoardHasLast
  <2> SUFFICES ASSUME Inv, Settled, ~astray PROVE board = mRelaysIn
    BY DEF BoardHasLast
  <2>1. ~HasSet(queue) /\ ~HasSet(requests)
    BY DEF Settled, Holds, HasSet, Sets
  <2> QED BY <2>1 DEF Inv, LastInv, Leads, Arrived
<1> QED BY <1>1, InitInv, NextInv, PTL DEF Spec

\* No step takes the board back, unless something has overtaken the queue.
LEMMA BoardRises == Inv /\ [Next]_vars => [board' >= board \/ overtaken]_board
<1> SUFFICES ASSUME Inv, [Next]_vars, ~overtaken, board' # board PROVE board' >= board
  OBVIOUS
<1> LineTypes /\ Rises(board, requests, queue, mRelaysIn)
  BY DEF Inv, OrderInv
<1>1. Serve
  BY Zenon
  DEF Next, UpdateRelays, ForceRelays, WtdExec, GetInfoAgain, Refuse, LoseRequest, LoseAnswer,
      ReadAnswer, ReadGarbled, ReadPart, ReadRest, Misread, tiVars, vars
<1>2. requests # <<>> /\ Sets(Head(requests)) /\ board' = Head(requests).relays
  BY <1>1 DEF Serve, Sets
<1>3. board <= Head(requests).relays
  BY <1>2, RisesTaken DEF LineTypes
<1>4. Head(requests).relays \in Configs
  BY <1>2, Taken DEF LineTypes, Requests
<1> QED BY <1>2, <1>3, <1>4, BoundsAssumption DEF BoundsAssumption, LineTypes, Configs

\* The board takes configurations in the order in which they are asked for, unless a check of
\* the wiring has let one overtake the queue.
THEOREM ArriveInOrder == Spec => BoardForward
  BY BoardRises, InitInv, NextInv, PTL DEF Spec, BoardForward

-----------------------------------------------------------------------------
(***************************************************************************)
(* What is confirmed.  As long as no other answer has ended the wait for   *)
(* the one to a relay request, there is one relay request at most on the   *)
(* line, in one direction or the other, and it is the one written last.    *)
(***************************************************************************)

\* What a write leaves as the configuration written last.
Last(out, r) == IF r.cmd = "SetRelay" THEN r.relays ELSE out

\* No relay request was written because an answer was garbled.
Fresh(q) == \A i \in DOMAIN q : ~q[i].again

\* Line and answers hold one relay request, if any, and it is waited for; it has the
\* configuration out, or has left it on the board b.
Lone(line) == \A i, j \in DOMAIN line :
  IsRelayRequest(line[i]) /\ IsRelayRequest(line[j]) => i = j
OnlyOne(line, back, waiting, out, b) ==
  /\ Fresh(line)
  /\ Lone(line) /\ Lone(back) /\ ~(HasRelayRequest(line) /\ HasRelayRequest(back))
  /\ HasRelayRequest(line) \/ HasRelayRequest(back) => waiting
  /\ \A i \in DOMAIN line : line[i].cmd = "SetRelay" => line[i].relays = out
  /\ \A i \in DOMAIN back : back[i].cmd = "SetRelay" /\ back[i].ack = "ERROR_NO" => out = b

\* A relay request is written when none is waited for.
LEMMA OnlyOneWritten ==
  ASSUME NEW line \in Seq(Requests), NEW back, NEW waiting, NEW out, NEW b, NEW r \in Requests,
         OnlyOne(line, back, waiting, out, b), ~r.again, IsRelayRequest(r) => ~waiting
  PROVE  OnlyOne(Append(line, r), back, waiting \/ IsRelayRequest(r), Last(out, r), b)
<1> DEFINE to == Append(line, r)
<1>1. /\ DOMAIN to = 1 .. Len(line) + 1 /\ DOMAIN line = 1 .. Len(line) /\ Len(line) \in Nat
      /\ \A i \in DOMAIN line : to[i] = line[i]
      /\ to[Len(line) + 1] = r
  BY Appended
<1>2. \A i \in DOMAIN to : i \in DOMAIN line \/ to[i] = r
  BY <1>1
<1>3. Fresh(to)
  BY <1>1, <1>2 DEF OnlyOne, Fresh
<1>4. CASE IsRelayRequest(r)
  <2>1. ~HasRelayRequest(line) /\ ~HasRelayRequest(back)
    BY <1>4 DEF OnlyOne
  <2>2. \A i \in DOMAIN line : ~IsRelayRequest(to[i])
    BY <1>1, <2>1 DEF HasRelayRequest
  <2>3. Lone(to)
    BY <1>1, <2>2 DEF Lone
  <2>4. \A i \in DOMAIN to : to[i].cmd = "SetRelay" => to[i].relays = Last(out, r)
    BY <1>2, <2>2 DEF Last, IsRelayRequest
  <2>5. \A i \in DOMAIN back : back[i].cmd # "SetRelay"
    BY <2>1 DEF HasRelayRequest, IsRelayRequest
  <2> QED BY <1>3, <1>4, <2>1, <2>3, <2>4, <2>5 DEF OnlyOne
<1>5. CASE ~IsRelayRequest(r)
  <2>1. Lone(to) /\ (HasRelayRequest(to) => HasRelayRequest(line))
    BY <1>1, <1>2, <1>5 DEF OnlyOne, Lone, HasRelayRequest
  <2>2. r.cmd # "SetRelay" /\ Last(out, r) = out
    BY <1>5 DEF IsRelayRequest, Last
  <2>3. \A i \in DOMAIN to : to[i].cmd = "SetRelay" => to[i].relays = out
    BY <1>1, <1>2, <2>2 DEF OnlyOne
  <2> QED BY <1>3, <1>5, <2>1, <2>2, <2>3 DEF OnlyOne
<1> QED BY <1>4, <1>5

\* What is taken from the head of the line or of the answers.
LEMMA LoneTail ==
  ASSUME NEW S, NEW q \in Seq(S), q # <<>>
  PROVE  /\ Tail(q) \in Seq(S) /\ Head(q) \in S
         /\ Lone(q) => Lone(Tail(q))
         /\ HasRelayRequest(q) <=> HasRelayRequest(Tail(q)) \/ IsRelayRequest(Head(q))
         /\ Lone(q) /\ IsRelayRequest(Head(q)) => ~HasRelayRequest(Tail(q))
         /\ \A i \in DOMAIN Tail(q) : i + 1 \in DOMAIN q /\ Tail(q)[i] = q[i + 1]
         /\ 1 \in DOMAIN q /\ Head(q) = q[1]
<1>1. /\ Tail(q) \in Seq(S) /\ Head(q) \in S /\ Len(q) \in Nat \ {0} /\ Head(q) = q[1]
      /\ DOMAIN q = 1 .. Len(q) /\ DOMAIN Tail(q) = 1 .. Len(q) - 1
      /\ \A i \in DOMAIN Tail(q) : Tail(q)[i] = q[i + 1]
  OBVIOUS
<1>2. /\ \A i \in DOMAIN Tail(q) : i + 1 \in DOMAIN q /\ i \in Nat \ {0}
      /\ \A i \in DOMAIN q : i = 1 \/ (i - 1 \in DOMAIN Tail(q) /\ Tail(q)[i - 1] = q[i])
  BY <1>1
<1>3. Lone(q) => Lone(Tail(q))
  BY <1>1, <1>2 DEF Lone
<1>4. HasRelayRequest(q) <=> HasRelayRequest(Tail(q)) \/ IsRelayRequest(Head(q))
  <2>1. ASSUME NEW i \in DOMAIN q, IsRelayRequest(q[i])
        PROVE  HasRelayRequest(Tail(q)) \/ IsRelayRequest(Head(q))
    <3>1. CASE i = 1
      BY <1>1, <2>1, <3>1
    <3>2. CASE i # 1
      <4>1. i - 1 \in DOMAIN Tail(q) /\ Tail(q)[i - 1] = q[i]
        BY <1>2, <3>2
      <4> QED BY <2>1, <4>1 DEF HasRelayRequest
    <3> QED BY <3>1, <3>2
  <2>2. ASSUME NEW i \in DOMAIN Tail(q), IsRelayRequest(Tail(q)[i])
        PROVE  HasRelayRequest(q)
    <3>1. i + 1 \in DOMAIN q /\ IsRelayRequest(q[i + 1])
      BY <1>1, <1>2, <2>2
    <3> QED BY <3>1 DEF HasRelayRequest
  <2>3. IsRelayRequest(Head(q)) => HasRelayRequest(q)
    <3>1. 1 \in DOMAIN q
      BY <1>1
    <3> QED BY <1>1, <3>1 DEF HasRelayRequest
  <2> QED BY <2>1, <2>2, <2>3 DEF HasRelayRequest
<1>5. Lone(q) /\ IsRelayRequest(Head(q)) => ~HasRelayRequest(Tail(q))
  <2> SUFFICES ASSUME Lone(q), IsRelayRequest(q[1]), NEW i \in DOMAIN Tail(q),
                      IsRelayRequest(Tail(q)[i])
               PROVE  FALSE
    BY <1>1 DEF HasRelayRequest
  <2>1. i + 1 \in DOMAIN q /\ 1 \in DOMAIN q /\ i + 1 # 1 /\ IsRelayRequest(q[i + 1])
    BY <1>1, <1>2
  <2> QED BY <2>1 DEF Lone
<1> QED BY <1>1, <1>2, <1>3, <1>4, <1>5

\* sendTIRequest(), of nothing, of one request and of two.
LEMMA WriteNone ==
  ASSUME requests \in Seq(Requests), NEW waiting \in BOOLEAN, Write(<<>>, waiting)
  PROVE  requests' = requests /\ wait_relay_response' = waiting /\ mRelaysOut' = mRelaysOut
<1>1. ~HasRelayRequest(<<>>) /\ LastRelays(<<>>) = mRelaysOut
  BY DEF HasRelayRequest, LastRelays
<1>2. requests \o <<>> = requests
  OBVIOUS
<1> QED BY <1>1, <1>2 DEF Write

\* Of one.
LEMMA WriteOne ==
  ASSUME requests \in Seq(Requests), NEW r \in Requests, NEW waiting \in BOOLEAN,
         Write(<<r>>, waiting)
  PROVE  /\ requests' = Append(requests, r)
         /\ wait_relay_response' = (waiting \/ IsRelayRequest(r))
         /\ mRelaysOut' = Last(mRelaysOut, r)
<1>1. DOMAIN <<r>> = {1} /\ <<r>>[1] = r
  OBVIOUS
<1>2. HasRelayRequest(<<r>>) <=> IsRelayRequest(r)
  BY <1>1 DEF HasRelayRequest
<1>3. LastRelays(<<r>>) = Last(mRelaysOut, r)
  <2> DEFINE sets == {i \in DOMAIN <<r>> : <<r>>[i].cmd = "SetRelay"}
  <2>1. CASE r.cmd = "SetRelay"
    <3>1. sets = {1}
      BY <1>1, <2>1
    <3>2. (CHOOSE i \in sets : \A j \in sets : j <= i) = 1
      BY <3>1
    <3> QED BY <2>1, <3>1, <3>2, <1>1 DEF LastRelays, Last
  <2>2. CASE r.cmd # "SetRelay"
    <3>1. sets = {}
      BY <1>1, <2>2
    <3> QED BY <2>2, <3>1 DEF LastRelays, Last
  <2> QED BY <2>1, <2>2
<1>4. requests \o <<r>> = Append(requests, r)
  OBVIOUS
<1> QED BY <1>2, <1>3, <1>4 DEF Write

\* Of two: the second one after the first.
LEMMA WriteTwo ==
  ASSUME requests \in Seq(Requests), NEW r \in Requests, NEW s \in Requests,
         NEW waiting \in BOOLEAN, Write(<<r>> \o <<s>>, waiting)
  PROVE  /\ requests' = Append(Append(requests, r), s)
         /\ wait_relay_response' = ((waiting \/ IsRelayRequest(r)) \/ IsRelayRequest(s))
         /\ mRelaysOut' = Last(Last(mRelaysOut, r), s)
<1> DEFINE two == <<r>> \o <<s>>
<1>1. two \in Seq(Requests) /\ Len(two) = 2 /\ two[1] = r /\ two[2] = s
  OBVIOUS
<1>2. DOMAIN two = {1, 2} /\ two[1] = r /\ two[2] = s
  BY <1>1
<1>3. requests \o two = Append(Append(requests, r), s)
  OBVIOUS
<1> HIDE DEF two
<1>4. HasRelayRequest(two) <=> IsRelayRequest(r) \/ IsRelayRequest(s)
  BY <1>2 DEF HasRelayRequest
<1>5. LastRelays(two) = Last(Last(mRelaysOut, r), s)
  <2> DEFINE sets == {i \in DOMAIN two : two[i].cmd = "SetRelay"}
             max == CHOOSE i \in sets : \A j \in sets : j <= i
  <2>1. CASE s.cmd = "SetRelay"
    <3>1. 2 \in sets /\ sets \subseteq {1, 2}
      BY <1>2, <2>1
    <3>2. \E i \in sets : \A j \in sets : j <= i
      BY <3>1
    <3>3. max \in sets /\ (\A j \in sets : j <= max)
      BY <3>2, Zenon
    <3>4. max = 2
      BY <3>1, <3>3
    <3> QED BY <2>1, <3>1, <3>4, <1>2 DEF LastRelays, Last
  <2>2. CASE s.cmd # "SetRelay" /\ r.cmd = "SetRelay"
    <3>1. sets = {1}
      BY <1>2, <2>2
    <3>2. max = 1
      BY <3>1
    <3> QED BY <2>2, <3>1, <3>2, <1>2 DEF LastRelays, Last
  <2>3. CASE s.cmd # "SetRelay" /\ r.cmd # "SetRelay"
    <3>1. sets = {}
      BY <1>2, <2>3
    <3> QED BY <2>3, <3>1 DEF LastRelays, Last
  <2> QED BY <2>1, <2>2, <2>3
<1>6. Write(two, waiting)
  BY DEF two
<1> QED BY <1>3, <1>4, <1>5, <1>6 DEF Write

\* After a write past a queue q, or without one, that has left the line, the wait and the
\* configuration written last: the head of q follows, if it may.
HeadFollows(line, q, waiting, out) ==
  \/ /\ queue' = q /\ requests' = line
     /\ wait_relay_response' = waiting /\ mRelaysOut' = out
  \/ /\ q # <<>> /\ queue' = Tail(q) /\ requests' = Append(line, Head(q))
     /\ ~(IsRelayRequest(Head(q)) /\ waiting)
     /\ wait_relay_response' = (waiting \/ IsRelayRequest(Head(q)))
     /\ mRelaysOut' = Last(out, Head(q))

\* Nothing is written past the queue.
LEMMA QueuedFollows ==
  ASSUME requests \in Seq(Requests), NEW q \in Seq(Requests), NEW waiting \in BOOLEAN,
         NEW running, WriteWith(<<>>, q, waiting, running)
  PROVE  HeadFollows(requests, q, waiting, mRelaysOut)
<1>0. ~HasRelayRequest(<<>>)
  BY DEF HasRelayRequest
<1>1. CASE MayWrite(q, waiting)
  <2>1. q # <<>> /\ ~(IsRelayRequest(Head(q)) /\ waiting)
    BY <1>1, Zenon DEF MayWrite
  <2>2. queue' = Tail(q) /\ Write(<<>> \o <<Head(q)>>, waiting)
    BY <1>0, <1>1 DEF WriteWith
  <2>3. Head(q) \in Requests /\ <<>> \o <<Head(q)>> = <<Head(q)>>
    BY <2>1, Taken
  <2>4. Write(<<Head(q)>>, waiting)
    BY <2>2, <2>3
  <2> QED BY <2>1, <2>2, <2>3, <2>4, WriteOne DEF HeadFollows
<1>2. CASE ~MayWrite(q, waiting)
  <2>1. queue' = q /\ Write(<<>>, waiting)
    BY <1>0, <1>2 DEF WriteWith
  <2> QED BY <2>1, WriteNone DEF HeadFollows
<1> QED BY <1>1, <1>2

\* One request is.
LEMMA DirectFollows ==
  ASSUME requests \in Seq(Requests), NEW q \in Seq(Requests), NEW r \in Requests,
         NEW waiting \in BOOLEAN, NEW running, WriteWith(<<r>>, q, waiting, running)
  PROVE  HeadFollows(Append(requests, r), q, waiting \/ IsRelayRequest(r), Last(mRelaysOut, r))
<1> DEFINE held == waiting \/ IsRelayRequest(r)
<1>0. HasRelayRequest(<<r>>) <=> IsRelayRequest(r)
  BY DEF HasRelayRequest
<1>1. CASE MayWrite(q, waiting \/ HasRelayRequest(<<r>>))
  <2>1. q # <<>> /\ ~(IsRelayRequest(Head(q)) /\ held)
    BY <1>0, <1>1, Zenon DEF MayWrite
  <2>2. queue' = Tail(q) /\ Write(<<r>> \o <<Head(q)>>, waiting)
    BY <1>1, Zenon DEF WriteWith
  <2>3. Head(q) \in Requests
    BY <2>1, Taken
  <2> QED BY <2>1, <2>2, <2>3, WriteTwo DEF HeadFollows
<1>2. CASE ~MayWrite(q, waiting \/ HasRelayRequest(<<r>>))
  <2>1. queue' = q /\ Write(<<r>>, waiting)
    BY <1>2, Zenon DEF WriteWith
  <2> QED BY <2>1, WriteOne DEF HeadFollows
<1> QED BY <1>1, <1>2

\* Whatever was written before, what follows keeps the one relay request, and the types.
LEMMA FollowsKeeps ==
  ASSUME NEW line \in Seq(Requests), NEW q \in Seq(Requests), Fresh(q),
         NEW waiting \in BOOLEAN, NEW out \in Configs, HeadFollows(line, q, waiting, out)
  PROVE  /\ wait_relay_response' \in BOOLEAN /\ mRelaysOut' \in Configs /\ Fresh(queue')
         /\ \A back, b : OnlyOne(line, back, waiting, out, b) =>
              OnlyOne(requests', back, wait_relay_response', mRelaysOut', b)
<1>1. CASE /\ queue' = q /\ requests' = line
           /\ wait_relay_response' = waiting /\ mRelaysOut' = out
  BY <1>1
<1>2. CASE /\ q # <<>> /\ queue' = Tail(q) /\ requests' = Append(line, Head(q))
           /\ ~(IsRelayRequest(Head(q)) /\ waiting)
           /\ wait_relay_response' = (waiting \/ IsRelayRequest(Head(q)))
           /\ mRelaysOut' = Last(out, Head(q))
  <2>1. /\ Head(q) \in Requests /\ ~Head(q).again
        /\ \A i \in DOMAIN Tail(q) : i + 1 \in DOMAIN q /\ Tail(q)[i] = q[i + 1]
    BY <1>2, LoneTail DEF Fresh
  <2>2. Fresh(Tail(q))
    BY <2>1 DEF Fresh
  <2>3. Last(out, Head(q)) \in Configs
    BY <2>1 DEF Last, Requests
  <2>4. \A back, b : OnlyOne(line, back, waiting, out, b) =>
          OnlyOne(requests', back, wait_relay_response', mRelaysOut', b)
    BY <1>2, <2>1, OnlyOneWritten
  <2> QED BY <1>2, <2>2, <2>3, <2>4
<1> QED BY <1>1, <1>2 DEF HeadFollows

\* The types that LineTypes leaves open.
OtherTypes ==
  /\ answers \in Seq(Answers)
  /\ mRelaysOut \in Configs /\ mRelaysOutLast \in Configs
  /\ wait_relay_response \in BOOLEAN /\ retry \in BOOLEAN /\ known \in BOOLEAN
  /\ faults \in 0..MaxFaults
  /\ astray \in BOOLEAN /\ mistaken \in BOOLEAN /\ garbledInfo \in BOOLEAN

\* The inductive invariant.
ConfirmInv ==
  /\ OtherTypes
  /\ Fresh(queue)
  /\ ~mistaken => OnlyOne(requests, answers, wait_relay_response, mRelaysOut, board)
  /\ ConfirmedIsSet

\* It holds when the port has been opened.
LEMMA InitConfirm == Init => ConfirmInv
<1> SUFFICES ASSUME Init PROVE ConfirmInv
  OBVIOUS
<1>1. /\ queue = <<>> /\ requests = <<Request("GetInfo")>> /\ answers = <<>>
      /\ mRelaysOut = 0 /\ mRelaysOutLast = 0 /\ board = 0 /\ faults = 0
      /\ wait_relay_response = FALSE /\ retry = TRUE /\ known = FALSE
      /\ astray = FALSE /\ mistaken = FALSE /\ garbledInfo = FALSE
  BY DEF Init
<1>2. OtherTypes
  <2>1. 0 \in Configs /\ 0 \in 0..MaxFaults
    BY BoundsAssumption DEF BoundsAssumption, Configs
  <2>2. answers \in Seq(Answers)
    BY <1>1
  <2> QED BY <1>1, <2>1, <2>2, Zenon DEF OtherTypes
<1>3. \A i \in DOMAIN requests : requests[i] = Request("GetInfo")
  BY <1>1
<1>4. ~Request("GetInfo").again /\ Request("GetInfo").cmd = "GetInfo"
  BY DEF Request
<1>5. Fresh(requests) /\ ~HasRelayRequest(requests)
  BY <1>3, <1>4 DEF Fresh, HasRelayRequest, IsRelayRequest
<1>6. DOMAIN answers = {} /\ DOMAIN queue = {}
  BY <1>1
<1>7. Fresh(queue) /\ Lone(answers) /\ ~HasRelayRequest(answers)
  BY <1>6 DEF Fresh, Lone, HasRelayRequest
<1>8. Lone(requests)
  BY <1>5 DEF Lone, HasRelayRequest
<1>9. OnlyOne(requests, answers, wait_relay_response, mRelaysOut, board)
  BY <1>3, <1>4, <1>5, <1>6, <1>7, <1>8 DEF OnlyOne
<1> QED BY <1>1, <1>2, <1>7, <1>9 DEF ConfirmInv, ConfirmedIsSet

\* What is queued is fresh.
LEMMA FreshPushed ==
  ASSUME NEW q \in Seq(Requests), Fresh(q), NEW r \in Requests, ~r.again
  PROVE  Append(q, r) \in Seq(Requests) /\ Fresh(Append(q, r))
  BY Appended DEF Fresh

\* A request is queued, or written for the watchdog.
LEMMA AskConfirm ==
  Inv /\ ConfirmInv /\ (UpdateRelays \/ ForceRelays \/ GetInfoAgain \/ WtdExec) => ConfirmInv'
<1> SUFFICES ASSUME Inv, ConfirmInv, UpdateRelays \/ ForceRelays \/ GetInfoAgain \/ WtdExec
             PROVE  ConfirmInv'
  OBVIOUS
<1> LineTypes /\ OtherTypes /\ Fresh(queue)
  BY DEF Inv, ConfirmInv
<1>1. UNCHANGED <<answers, board, mRelaysOutLast, known, faults, astray, mistaken, garbledInfo,
                  overtaken>>
  BY DEF UpdateRelays, ForceRelays, GetInfoAgain, WtdExec, tiVars, history
<1>2. /\ wait_relay_response' \in BOOLEAN /\ mRelaysOut' \in Configs /\ Fresh(queue')
      /\ retry' \in BOOLEAN
      /\ \A back, b : OnlyOne(requests, back, wait_relay_response, mRelaysOut, b) =>
           OnlyOne(requests', back, wait_relay_response', mRelaysOut', b)
  <2>1. CASE UpdateRelays \/ ForceRelays \/ GetInfoAgain
    <3>1. PICK r \in Requests, running \in BOOLEAN :
            ~r.again /\ WriteWith(<<>>, Append(queue, r), wait_relay_response, running)
      <4>1. CASE UpdateRelays \/ ForceRelays
        <5>1. PICK c \in Configs :
                WriteWith(<<>>, Append(queue, SetRelay(c)), wait_relay_response, retry)
          <6>1. asked < MaxUpdates
            BY <4>1 DEF UpdateRelays, ForceRelays, Ask
          <6>2. mRelaysIn \in Configs /\ mRelaysIn + 1 \in Configs
            BY <6>1, BoundsAssumption DEF BoundsAssumption, LineTypes, Configs
          <6> QED BY <4>1, <6>2 DEF UpdateRelays, ForceRelays, sendRelays
        <5>2. SetRelay(c) \in Requests /\ ~SetRelay(c).again
          BY RequestsTyped DEF SetRelay
        <5> QED BY <5>1, <5>2 DEF OtherTypes
      <4>2. CASE GetInfoAgain
        <5>1. Request("GetInfo") \in Requests /\ ~Request("GetInfo").again
          BY RequestsTyped DEF Request, Commands
        <5> QED BY <4>2, <5>1 DEF GetInfoAgain
      <4> QED BY <2>1, <4>1, <4>2
    <3> DEFINE q == Append(queue, r)
    <3>2. q \in Seq(Requests) /\ Fresh(q)
      BY <3>1, FreshPushed DEF LineTypes
    <3>3. HeadFollows(requests, q, wait_relay_response, mRelaysOut)
      BY <3>1, <3>2, QueuedFollows DEF LineTypes, OtherTypes
    <3>4. retry' \in BOOLEAN
      BY <3>1 DEF WriteWith
    <3> QED BY <3>2, <3>3, <3>4, FollowsKeeps DEF LineTypes, OtherTypes
  <2>2. CASE WtdExec
    <3> DEFINE r == Request("feed_wtd")
    <3>1. Write(<<r>>, wait_relay_response) /\ UNCHANGED <<queue, retry>>
      BY <2>2, Zenon DEF WtdExec
    <3>2. r \in Requests /\ ~r.again /\ ~IsRelayRequest(r) /\ Last(mRelaysOut, r) = mRelaysOut
      BY RequestsTyped DEF Request, Commands, IsRelayRequest, Last
    <3> HIDE DEF r
    <3>3. /\ requests' = Append(requests, r)
          /\ wait_relay_response' = (wait_relay_response \/ IsRelayRequest(r))
          /\ mRelaysOut' = Last(mRelaysOut, r)
      BY <3>1, <3>2, WriteOne DEF LineTypes, OtherTypes
    <3>4. \A back, b : OnlyOne(requests, back, wait_relay_response, mRelaysOut, b) =>
            OnlyOne(requests', back, wait_relay_response', mRelaysOut', b)
      BY <3>2, <3>3, OnlyOneWritten DEF LineTypes
    <3> QED BY <3>1, <3>2, <3>3, <3>4 DEF OtherTypes
  <2> QED BY <2>1, <2>2
<1> QED BY <1>1, <1>2 DEF ConfirmInv, OtherTypes, ConfirmedIsSet

\* The end of the answers is the answer to the request that is taken.
LEMMA OnlyOneServed ==
  ASSUME NEW line \in Seq(Requests), line # <<>>, NEW back \in Seq(Answers), NEW a \in Answers,
         NEW waiting, NEW out, NEW b, NEW after,
         OnlyOne(line, back, waiting, out, b), a.cmd = Head(line).cmd,
         IF a.cmd = "SetRelay" /\ a.ack = "ERROR_NO" THEN after = Head(line).relays ELSE after = b
  PROVE  OnlyOne(Tail(line), Append(back, a), waiting, out, after)
<1> DEFINE to == Append(back, a)
<1>1. /\ to \in Seq(Answers) /\ DOMAIN to = 1 .. Len(back) + 1 /\ DOMAIN back = 1 .. Len(back)
      /\ Len(back) \in Nat /\ to[Len(back) + 1] = a
      /\ \A i \in DOMAIN back : to[i] = back[i]
  OBVIOUS
<1>2. /\ \A i \in DOMAIN to : i \in DOMAIN back \/ (i = Len(back) + 1 /\ to[i] = a)
      /\ \A i \in DOMAIN back : i # Len(back) + 1
  BY <1>1
<1>3. /\ Lone(Tail(line)) /\ Head(line) = line[1] /\ 1 \in DOMAIN line
      /\ HasRelayRequest(line) <=> HasRelayRequest(Tail(line)) \/ IsRelayRequest(Head(line))
      /\ IsRelayRequest(Head(line)) => ~HasRelayRequest(Tail(line))
      /\ \A i \in DOMAIN Tail(line) : i + 1 \in DOMAIN line /\ Tail(line)[i] = line[i + 1]
  BY LoneTail DEF OnlyOne
<1> HIDE DEF to
<1>4. Fresh(Tail(line)) /\ (\A i \in DOMAIN Tail(line) :
                              Tail(line)[i].cmd = "SetRelay" => Tail(line)[i].relays = out)
  BY <1>3 DEF OnlyOne, Fresh
<1>5. CASE IsRelayRequest(Head(line))
  <2>1. ~HasRelayRequest(back) /\ ~HasRelayRequest(Tail(line)) /\ waiting
    BY <1>3, <1>5 DEF OnlyOne
  <2>2. \A i \in DOMAIN back : ~IsRelayRequest(back[i])
    BY <2>1 DEF HasRelayRequest
  <2>3. Lone(to)
    BY <1>1, <1>2, <2>2 DEF Lone
  <2>4. \A i \in DOMAIN to : to[i].cmd = "SetRelay" => to[i] = a
    BY <1>1, <1>2, <2>2 DEF IsRelayRequest
  <2>5. a.cmd = "SetRelay" /\ a.ack = "ERROR_NO" => out = after
    BY <1>3 DEF OnlyOne
  <2> QED BY <1>3, <1>4, <2>1, <2>3, <2>4, <2>5 DEF OnlyOne, to
<1>6. CASE ~IsRelayRequest(Head(line))
  <2>1. a.cmd # "SetRelay" /\ ~IsRelayRequest(a) /\ after = b
    BY <1>6 DEF IsRelayRequest
  <2>2. Lone(to) /\ (HasRelayRequest(to) => HasRelayRequest(back))
    BY <1>1, <1>2, <2>1 DEF OnlyOne, Lone, HasRelayRequest
  <2>3. \A i \in DOMAIN to : to[i].cmd = "SetRelay" => i \in DOMAIN back /\ to[i] = back[i]
    BY <1>1, <1>2, <2>1
  <2> QED BY <1>3, <1>4, <2>1, <2>2, <2>3 DEF OnlyOne, to
<1> QED BY <1>5, <1>6

\* A request, or an answer, is lost.
LEMMA OnlyOneLost ==
  ASSUME NEW line \in Seq(Requests), NEW back \in Seq(Answers), NEW waiting, NEW out, NEW b,
         OnlyOne(line, back, waiting, out, b)
  PROVE  /\ line # <<>> => OnlyOne(Tail(line), back, waiting, out, b)
         /\ back # <<>> => OnlyOne(line, Tail(back), waiting, out, b)
<1>1. ASSUME line # <<>> PROVE OnlyOne(Tail(line), back, waiting, out, b)
  <2>1. /\ Lone(Tail(line)) /\ (HasRelayRequest(Tail(line)) => HasRelayRequest(line))
        /\ \A i \in DOMAIN Tail(line) : i + 1 \in DOMAIN line /\ Tail(line)[i] = line[i + 1]
    BY <1>1, LoneTail DEF OnlyOne
  <2> QED BY <2>1 DEF OnlyOne, Fresh
<1>2. ASSUME back # <<>> PROVE OnlyOne(line, Tail(back), waiting, out, b)
  <2>1. /\ Lone(Tail(back)) /\ (HasRelayRequest(Tail(back)) => HasRelayRequest(back))
        /\ \A i \in DOMAIN Tail(back) : i + 1 \in DOMAIN back /\ Tail(back)[i] = back[i + 1]
    BY <1>2, LoneTail DEF OnlyOne
  <2> QED BY <2>1 DEF OnlyOne
<1> QED BY <1>1, <1>2

\* A request reaches its end.
LEMMA TakenConfirm == Inv /\ ConfirmInv /\ (Serve \/ Refuse \/ LoseRequest) => ConfirmInv'
<1> SUFFICES ASSUME Inv, ConfirmInv, Serve \/ Refuse \/ LoseRequest PROVE ConfirmInv'
  OBVIOUS
<1> LineTypes /\ OtherTypes /\ OrderInv
  BY DEF Inv, ConfirmInv
<1> DEFINE r == Head(requests)
<1>1. /\ requests # <<>> /\ requests' = Tail(requests)
      /\ UNCHANGED <<queue, wait_relay_response, mRelaysOut, mRelaysOutLast, retry, known,
                     mistaken, garbledInfo, overtaken>>
  BY DEF Serve, Refuse, LoseRequest
<1>2. r \in Requests /\ r.cmd \in Commands /\ r = requests[1] /\ 1 \in DOMAIN requests
  <2>1. r \in Requests /\ r = requests[1] /\ 1 \in DOMAIN requests
    BY <1>1, Taken DEF LineTypes
  <2>2. \A s \in Requests : s.cmd \in Commands
    BY DEF Requests
  <2> QED BY <2>1, <2>2
<1>3. \/ answers' = answers /\ board' = board
      \/ \E ack \in Acks : /\ answers' = Append(answers, [cmd |-> r.cmd, ack |-> ack])
                           /\ IF r.cmd = "SetRelay" /\ ~r.again /\ ack = "ERROR_NO"
                              THEN board' = r.relays ELSE board' = board
  BY DEF Serve, Refuse, LoseRequest, Answer, Acks, tiVars
<1>4. OtherTypes'
  <2>1. answers' \in Seq(Answers)
    <3>1. CASE answers' = answers
      BY <3>1 DEF OtherTypes
    <3>2. ASSUME NEW ack \in Acks, answers' = Append(answers, [cmd |-> r.cmd, ack |-> ack])
          PROVE  answers' \in Seq(Answers)
      <4>1. [cmd |-> r.cmd, ack |-> ack] \in Answers
        BY <1>2 DEF Answers
      <4> QED BY <3>2, <4>1 DEF OtherTypes
    <3> QED BY <1>3, <3>1, <3>2
  <2>2. faults' \in 0..MaxFaults
    <3>1. faults' = faults \/ (faults < MaxFaults /\ faults' = faults + 1)
      BY DEF Serve, Refuse, LoseRequest, Fault
    <3> QED BY <3>1, BoundsAssumption DEF OtherTypes, BoundsAssumption
  <2>3. astray' \in BOOLEAN
    BY DEF Serve, Refuse, LoseRequest, OtherTypes
  <2> QED BY <1>1, <2>1, <2>2, <2>3 DEF OtherTypes
<1>5. ASSUME ~mistaken
      PROVE  OnlyOne(requests, answers, wait_relay_response, mRelaysOut, board)'
  <2>1. OnlyOne(requests, answers, wait_relay_response, mRelaysOut, board)
    BY <1>5 DEF ConfirmInv
  <2>2. CASE answers' = answers /\ board' = board
    BY <1>1, <2>1, <2>2, OnlyOneLost DEF LineTypes, OtherTypes
  <2>3. ASSUME NEW ack \in Acks, answers' = Append(answers, [cmd |-> r.cmd, ack |-> ack]),
               IF r.cmd = "SetRelay" /\ ~r.again /\ ack = "ERROR_NO"
               THEN board' = r.relays ELSE board' = board
        PROVE  OnlyOne(requests, answers, wait_relay_response, mRelaysOut, board)'
    <3> DEFINE a == [cmd |-> r.cmd, ack |-> ack]
    <3>1. a \in Answers /\ a.cmd = r.cmd /\ a.ack = ack
      BY <1>2 DEF Answers
    <3>2. ~r.again
      BY <1>2, <2>1 DEF OnlyOne, Fresh
    <3>3. IF a.cmd = "SetRelay" /\ a.ack = "ERROR_NO" THEN board' = r.relays ELSE board' = board
      BY <2>3, <3>1, <3>2
    <3> HIDE DEF a
    <3>4. OnlyOne(Tail(requests), Append(answers, a), wait_relay_response, mRelaysOut, board')
      BY <1>1, <2>1, <3>1, <3>3, OnlyOneServed DEF LineTypes, OtherTypes
    <3> QED BY <1>1, <2>3, <3>4 DEF a
  <2> QED BY <1>3, <2>2, <2>3
<1>6. ConfirmedIsSet'
  <2>1. board' = board \/ board' >= board \/ overtaken
    BY BoardRises DEF Next
  <2>2. board \in Configs /\ mRelaysOutLast \in Configs
    BY DEF LineTypes, OtherTypes
  <2>3. board' \in Configs
    BY <1>2, <1>3, <2>2 DEF Requests
  <2> QED BY <1>1, <2>1, <2>2, <2>3, BoundsAssumption
          DEF BoundsAssumption, Configs, ConfirmInv, ConfirmedIsSet
<1> QED BY <1>1, <1>4, <1>5, <1>6 DEF ConfirmInv

\* An answer is lost.
LEMMA LostConfirm == Inv /\ ConfirmInv /\ LoseAnswer => ConfirmInv'
<1> SUFFICES ASSUME Inv, ConfirmInv, LoseAnswer PROVE ConfirmInv'
  OBVIOUS
<1> LineTypes /\ OtherTypes
  BY DEF Inv, ConfirmInv
<1>1. /\ answers # <<>> /\ answers' = Tail(answers)
      /\ UNCHANGED <<requests, queue, wait_relay_response, mRelaysOut, mRelaysOutLast, board,
                     retry, known, astray, mistaken, garbledInfo, overtaken>>
  BY DEF LoseAnswer, history
<1>2. OtherTypes'
  <2>1. answers' \in Seq(Answers)
    BY <1>1, LoneTail DEF OtherTypes
  <2>2. faults' \in 0..MaxFaults
    BY BoundsAssumption DEF LoseAnswer, Fault, OtherTypes, BoundsAssumption
  <2> QED BY <1>1, <2>1, <2>2 DEF OtherTypes
<1>3. ASSUME ~mistaken
      PROVE  OnlyOne(requests, answers, wait_relay_response, mRelaysOut, board)'
  BY <1>1, <1>3, OnlyOneLost DEF ConfirmInv, LineTypes, OtherTypes
<1> QED BY <1>1, <1>2, <1>3 DEF ConfirmInv, ConfirmedIsSet

\* The answer that ends the wait is that of the one relay request, or there is none.
LEMMA OnlyOneRead ==
  ASSUME requests \in Seq(Requests), answers \in Seq(Answers), answers # <<>>, NEW waiting, NEW b,
         OnlyOne(requests, answers, waiting, mRelaysOut, b),
         IsRelayRequest(Head(answers)) \/ ~Unanswered
  PROVE  /\ OnlyOne(requests, Tail(answers), FALSE, mRelaysOut, b)
         /\ Head(answers).cmd = "SetRelay" /\ Head(answers).ack = "ERROR_NO" => mRelaysOut = b
<1>1. /\ Lone(Tail(answers)) /\ Head(answers) = answers[1] /\ 1 \in DOMAIN answers
      /\ HasRelayRequest(answers) <=>
           HasRelayRequest(Tail(answers)) \/ IsRelayRequest(Head(answers))
      /\ IsRelayRequest(Head(answers)) => ~HasRelayRequest(Tail(answers))
      /\ \A i \in DOMAIN Tail(answers) : i + 1 \in DOMAIN answers /\ Tail(answers)[i] = answers[i + 1]
  BY LoneTail DEF OnlyOne
<1>2. ~Unanswered => ~HasRelayRequest(requests) /\ ~HasRelayRequest(answers)
  BY DEF Unanswered, Holds, HasRelayRequest, IsRelayRequest
<1>3. ~HasRelayRequest(requests) /\ ~HasRelayRequest(Tail(answers))
  BY <1>1, <1>2 DEF OnlyOne
<1> QED BY <1>1, <1>3 DEF OnlyOne

\* An answer is read.
LEMMA ReadConfirm == Inv /\ ConfirmInv /\ ReadAnswer => ConfirmInv'
<1> SUFFICES ASSUME Inv, ConfirmInv, ReadAnswer PROVE ConfirmInv'
  OBVIOUS
<1> LineTypes /\ OtherTypes /\ Fresh(queue)
  BY DEF Inv, ConfirmInv
<1> DEFINE a == Head(answers)
           running == retry /\ a.cmd # "GetInfo"
<1>1. /\ answers # <<>> /\ answers' = Tail(answers)
      /\ WriteWith(Reply(a), queue, FALSE, running)
      /\ mRelaysOutLast' = IF a.cmd = "SetRelay" /\ a.ack = "ERROR_NO"
                           THEN mRelaysOut ELSE mRelaysOutLast
      /\ known' = (known \/ a.cmd = "GetInfo")
      /\ mistaken' = (mistaken \/ (~IsRelayRequest(a) /\ Unanswered))
      /\ UNCHANGED <<board, faults, astray, garbledInfo>>
  BY Zenon DEF ReadAnswer, WaitAfter
<1>2. overtaken => overtaken'
  BY Zenon DEF ReadAnswer
<1> HIDE DEF a
<1>3. retry' \in BOOLEAN
  BY <1>1 DEF WriteWith, OtherTypes
<1>4. /\ wait_relay_response' \in BOOLEAN /\ mRelaysOut' \in Configs /\ Fresh(queue')
      /\ \A back, b : OnlyOne(requests, back, FALSE, mRelaysOut, b) =>
           OnlyOne(requests', back, wait_relay_response', mRelaysOut', b)
  <2>1. CASE Reply(a) = <<>>
    <3>1. HeadFollows(requests, queue, FALSE, mRelaysOut)
      BY <1>1, <2>1, QueuedFollows DEF LineTypes
    <3> QED BY <3>1, FollowsKeeps DEF LineTypes, OtherTypes
  <2>2. CASE Reply(a) # <<>>
    <3>1. PICK r \in Requests : Reply(a) = <<r>> /\ ~r.again
      BY <2>2, ReplyTyped DEF LineTypes
    <3> DEFINE line == Append(requests, r)
               waiting == FALSE \/ IsRelayRequest(r)
               out == Last(mRelaysOut, r)
    <3>2. HeadFollows(line, queue, waiting, out)
      BY <1>1, <3>1, DirectFollows DEF LineTypes
    <3>3. line \in Seq(Requests) /\ out \in Configs /\ waiting \in BOOLEAN
      BY Appended DEF LineTypes, OtherTypes, Last, Requests, IsRelayRequest
    <3>4. \A back, b : OnlyOne(requests, back, FALSE, mRelaysOut, b) =>
            OnlyOne(line, back, waiting, out, b)
      BY <3>1, OnlyOneWritten DEF LineTypes
    <3> HIDE DEF line, waiting, out
    <3> QED BY <3>2, <3>3, <3>4, FollowsKeeps DEF LineTypes
  <2> QED BY <2>1, <2>2
<1>5. OtherTypes'
  <2>1. answers' \in Seq(Answers)
    BY <1>1, LoneTail DEF OtherTypes
  <2>2. known' \in BOOLEAN /\ mistaken' \in BOOLEAN
    BY <1>1 DEF OtherTypes
  <2> QED BY <1>1, <1>3, <1>4, <2>1, <2>2 DEF OtherTypes
<1>6. ASSUME ~mistaken'
      PROVE  /\ OnlyOne(requests, answers, wait_relay_response, mRelaysOut, board)'
             /\ ~mistaken /\ (a.cmd = "SetRelay" /\ a.ack = "ERROR_NO" => mRelaysOut = board)
  <2>1. ~mistaken /\ (IsRelayRequest(a) \/ ~Unanswered)
    BY <1>1, <1>6
  <2>2. /\ OnlyOne(requests, Tail(answers), FALSE, mRelaysOut, board)
        /\ a.cmd = "SetRelay" /\ a.ack = "ERROR_NO" => mRelaysOut = board
    <3>1. OnlyOne(requests, answers, wait_relay_response, mRelaysOut, board)
      BY <2>1 DEF ConfirmInv
    <3>2. requests \in Seq(Requests) /\ answers \in Seq(Answers)
      BY DEF LineTypes, OtherTypes
    <3> QED BY <1>1, <2>1, <3>1, <3>2, OnlyOneRead DEF a
  <2>3. OnlyOne(requests', Tail(answers), wait_relay_response', mRelaysOut', board)
    BY <1>4, <2>2
  <2> QED BY <1>1, <2>1, <2>2, <2>3
<1>7. ConfirmedIsSet'
  <2>1. board \in Configs /\ board <= board
    BY BoundsAssumption DEF BoundsAssumption, LineTypes, Configs
  <2> QED BY <1>1, <1>2, <1>6, <2>1 DEF ConfirmInv, ConfirmedIsSet
<1> QED BY <1>4, <1>5, <1>6, <1>7 DEF ConfirmInv

\* What is no whole answer is read: from then on, nothing is said.
LEMMA MisreadConfirm ==
  ASSUME Inv, ConfirmInv, Misread, answers' \in Seq(Answers), faults' \in 0..MaxFaults
  PROVE  ConfirmInv'
<1> LineTypes /\ OtherTypes /\ Fresh(queue)
  BY DEF Inv, ConfirmInv
<1>1. PICK cmd \in Commands :
        /\ WriteWith(<<Again(cmd)>>, queue, FALSE, retry /\ cmd # "GetInfo")
        /\ garbledInfo' = (garbledInfo \/ cmd = "GetInfo")
  BY Zenon DEF Misread, WaitAfter
<1>2. mistaken' = TRUE /\ UNCHANGED <<mRelaysOutLast, known, astray>>
  BY Zenon DEF Misread
<1> DEFINE r == Again(cmd)
           line == Append(requests, r)
           waiting == FALSE \/ IsRelayRequest(r)
           out == Last(mRelaysOut, r)
<1>3. r \in Requests
  BY RequestsTyped
<1> HIDE DEF r
<1>4. HeadFollows(line, queue, waiting, out)
  BY <1>1, <1>3, DirectFollows DEF LineTypes, r
<1>5. line \in Seq(Requests) /\ out \in Configs /\ waiting \in BOOLEAN
  BY <1>3, Appended DEF LineTypes, OtherTypes, Last, Requests, IsRelayRequest
<1> HIDE DEF line, waiting, out
<1>6. wait_relay_response' \in BOOLEAN /\ mRelaysOut' \in Configs /\ Fresh(queue')
  BY <1>4, <1>5, FollowsKeeps DEF LineTypes
<1>7. retry' \in BOOLEAN /\ garbledInfo' \in BOOLEAN
  BY <1>1 DEF WriteWith, OtherTypes
<1> QED BY <1>2, <1>6, <1>7 DEF ConfirmInv, ConfirmedIsSet, OtherTypes

\* An answer is garbled, or read in pieces.
LEMMA MisreadsConfirm ==
  Inv /\ ConfirmInv /\ (ReadGarbled \/ ReadPart \/ ReadRest) => ConfirmInv'
<1> SUFFICES ASSUME Inv, ConfirmInv, ReadGarbled \/ ReadPart \/ ReadRest PROVE ConfirmInv'
  OBVIOUS
<1> OtherTypes
  BY DEF ConfirmInv
<1> DEFINE rest == [cmd |-> "Rest", ack |-> "ERROR_NO"]
<1>1. /\ answers # <<>> /\ answers' \in {Tail(answers), <<rest>> \o Tail(answers)}
      /\ Misread /\ (Fault \/ UNCHANGED faults)
  BY DEF ReadGarbled, ReadPart, ReadRest
<1>2. rest \in Answers
  BY DEF Answers, Acks
<1>3. Tail(answers) \in Seq(Answers)
  BY <1>1, LoneTail DEF OtherTypes
<1> HIDE DEF rest
<1>4. answers' \in Seq(Answers)
  <2>1. \A q \in Seq(Answers) : <<rest>> \o q \in Seq(Answers)
    BY <1>2
  <2> QED BY <1>1, <1>3, <2>1
<1>5. faults' \in 0..MaxFaults
  BY <1>1, BoundsAssumption DEF Fault, OtherTypes, BoundsAssumption
<1> QED BY <1>1, <1>4, <1>5, MisreadConfirm

\* Every step keeps the invariant.
LEMMA NextConfirm == Inv /\ ConfirmInv /\ [Next]_vars => ConfirmInv'
<1> SUFFICES ASSUME Inv, ConfirmInv, [Next]_vars PROVE ConfirmInv'
  OBVIOUS
<1>1. CASE UNCHANGED vars
  BY <1>1 DEF vars, history, ConfirmInv, OtherTypes, ConfirmedIsSet
<1> QED
  BY <1>1, AskConfirm, TakenConfirm, LostConfirm, ReadConfirm, MisreadsConfirm DEF Next

\* Only what the relays have is confirmed, unless the wait for their answer was ended by another
\* one, or a configuration has overtaken the queue.
THEOREM ConfirmedAreSet == Spec => []ConfirmedIsSet
<1>1. ConfirmInv => ConfirmedIsSet
  BY DEF ConfirmInv
<1> QED BY <1>1, InitInv, NextInv, InitConfirm, NextConfirm, PTL DEF Spec

\* The state of the link keeps its type, for all bounds.
THEOREM TypeCorrect == Spec => []TypeOK
<1>1. Inv /\ ConfirmInv => TypeOK
  BY DEF Inv, LineTypes, OrderInv, ConfirmInv, OtherTypes, TypeOK
<1> QED BY <1>1, InitInv, NextInv, InitConfirm, NextConfirm, PTL DEF Spec

=============================================================================
