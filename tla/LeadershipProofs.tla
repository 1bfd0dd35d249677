--------------------------- MODULE LeadershipProofs ---------------------------
(***************************************************************************)
(* Proofs about Leadership for any number of nodes, any time-outs and any  *)
(* number of lost messages for which these time-outs are long enough.      *)
(*                                                                         *)
(* Before the first crash the roles are the ones the processes were        *)
(* started with.  A promotion is the end of a wait of StaleAfter without a *)
(* MASTER; the proof bounds that wait by what the lost messages can have   *)
(* cost.                                                                   *)
(***************************************************************************)
EXTENDS Leadership, FiniteSetTheorems, TLAPS

(* The requests of a cycle, and what one lost message can cost a node: a   *)
(* cycle, and the requests of the registration that follows.               *)
Slack == MaxCycle - MinCycle
Cost == MaxCycle + Slack

Spent(lost) == lost * Cost
Aging(lost) == lost * MaxCycle

(* The time-outs outlast the messages that may be lost.                    *)
Timely ==
  /\ Spent(MaxFaults) <= StaleAfter
  /\ Slack <= StaleAfter
  /\ Aging(MaxFaults) + MaxCycle < PeerTimeout

(* One of the processes is started as the MASTER.                          *)
First == CHOOSE m \in Node : StartRole[m] = "MASTER"
OneStarts ==
  /\ First \in Node
  /\ \A n \in Node : StartRole[n] = IF n = First THEN "MASTER" ELSE "FOLLOWER"

-----------------------------------------------------------------------------
(* What is so until something crashes.                                     *)

RolesStay ==
  /\ role = StartRole
  /\ \A n \in Node :
       /\ pc[n] \notin {"down", "confirm"}
       /\ late[n] \in {NoPost, StartRole[n]}
       /\ \A m \in DOMAIN view[n] : view[n][m] = StartRole[m]

(* Nobody's record grows old at the hub.                                   *)
Fresh(n) ==
  /\ pc[n] \notin {"register", "retry"} => Registered(n)
  /\ Registered(n) => /\ peers[n].role = StartRole[n]
                      /\ peers[n].age <= Aging(losses) + elapsed[n]

RecordsFresh == expired = {} /\ \A n \in Node : Fresh(n)

(* Until the MASTER is registered, nobody has waited longer than it has.   *)
Starting ==
  ~Registered(First) =>
    /\ pc[First] = "register" => missing[First] = 0
    /\ pc[First] = "retry" => losses > 0 /\ missing[First] + Cost <= Spent(losses) + Slack
    /\ \A n \in Node : missing[n] + elapsed[n] <= missing[First] + elapsed[First]

(* How long a FOLLOWER can have waited.                                    *)
Waits(n) ==
  /\ pc[n] = "register" => missing[n] <= Spent(losses)
  /\ pc[n] = "retry" => losses > 0 /\ missing[n] + Cost <= Spent(losses) + Slack
  /\ pc[n] = "asleep" => missing[n] <= Spent(losses) + Slack
  /\ pc[n] = "fetch" => missing[n] <= Spent(losses) + Cost
  /\ pc[n] = "decide" => \/ missing[n] <= Spent(losses)
                         \/ missing[n] <= Slack
                         \/ First \in DOMAIN view[n] /\ missing[n] <= Spent(losses) + Cost

CalmInv == RolesStay /\ RecordsFresh /\ Starting /\ \A n \in Node \ {First} : Waits(n)

LimitInv == \A n \in Node : elapsed[n] <= Limit(n)

LeadershipInv == TypeOK /\ LimitInv /\ (crashes = 0 => CalmInv)

-----------------------------------------------------------------------------
(* Times.                                                                  *)

LEMMA CycleFacts ==
  /\ Slack \in Nat /\ Cost \in Nat /\ Slack <= MaxCycle /\ Cost = MaxCycle + Slack
  /\ StaleAfter \in Nat /\ PeerTimeout \in Nat /\ MaxFaults \in Nat
  /\ MinCycle \in Nat /\ MaxCycle \in Nat /\ MaxCycle = MinCycle + Slack
BY LeadershipAssumption, RendezvousAssumption DEF Slack, Cost

(* A product with the number of lost messages grows by one factor for each *)
(* message, and is greatest for the greatest number.                       *)
LEMMA BudgetFacts ==
  ASSUME NEW lost \in 0 .. MaxFaults
  PROVE  /\ Spent(lost) \in Nat /\ Aging(lost) \in Nat
         /\ Spent(lost + 1) = Spent(lost) + Cost
         /\ Aging(lost + 1) = Aging(lost) + MaxCycle
         /\ Spent(lost) <= Spent(MaxFaults) /\ Aging(lost) <= Aging(MaxFaults)
<1>1. lost \in Nat /\ MaxFaults \in Nat /\ lost <= MaxFaults /\ Cost \in Nat /\ MaxCycle \in Nat
  BY CycleFacts
<1>2. ASSUME NEW c \in Nat
      PROVE  lost * c \in Nat /\ (lost + 1) * c = lost * c + c /\ lost * c <= MaxFaults * c
  <2>1. lost * c \in Nat /\ (lost + 1) * c = lost * c + c
    BY <1>1
  <2>2. PICK d \in Nat : MaxFaults = lost + d
    <3>1. MaxFaults - lost \in Nat /\ MaxFaults = lost + (MaxFaults - lost)
      BY <1>1
    <3> QED BY <3>1
  <2>3. MaxFaults * c = lost * c + d * c /\ d * c \in Nat
    BY <1>1, <2>2
  <2> QED BY <2>1, <2>3
<1> QED BY <1>1, <1>2 DEF Spent, Aging

LEMMA NothingSpent == Spent(0) = 0 /\ Aging(0) = 0
BY CycleFacts DEF Spent, Aging

-----------------------------------------------------------------------------
(* Types, and how long a node stays where it is.                           *)

Records == [role : Role, age : 0 .. PeerTimeout]

LEMMA RecordTypes ==
  /\ NoRecord \notin Records
  /\ \A r \in Role : [role |-> r, age |-> 0] \in Records
  /\ \A rec \in Records \cup {NoRecord} : Aged(rec) \in Records \cup {NoRecord}
<1>1. PeerTimeout \in Nat
  BY CycleFacts
<1>2. \A rec \in Records \cup {NoRecord} : Aged(rec) \in Records \cup {NoRecord}
  <2>1. ASSUME NEW rec \in Records, rec.age < PeerTimeout
        PROVE  [rec EXCEPT !.age = rec.age + 1] \in Records
    BY <1>1, <2>1 DEF Records
  <2> QED BY <2>1 DEF Aged
<1> QED BY <1>1, <1>2, NoRecordAssumption DEF Records

(* A request to the hub, answered or not.                                  *)
LEMMA PostTypes ==
  ASSUME TypeOK, NEW n \in Node, NEW answered,
         \/ Post(n, answered, RegisterPeer(n, role[n]), FALSE)
         \/ PostHeartbeat(n, answered)
  PROVE  /\ HubTypeOK' /\ late' \in [Node -> Role \cup {NoPost}] /\ losses' \in 0 .. MaxFaults
         /\ losses' = losses \/ losses' = losses + 1
<1>1. /\ HubTypeOK /\ losses \in 0 .. MaxFaults /\ crashes \in 0 .. MaxFaults
      /\ role[n] \in Role /\ late \in [Node -> Role \cup {NoPost}] /\ MaxFaults \in Nat
  BY CycleFacts DEF TypeOK
<1>2. ASSUME RegisterPeer(n, role[n]) \/ Heartbeat(n, role[n]) PROVE HubTypeOK'
  <2>1. peers' = [peers EXCEPT ![n] = [role |-> role[n], age |-> 0]] /\ UNCHANGED expired
    BY <1>2 DEF RegisterPeer, Heartbeat, Put
  <2> QED BY <1>1, <2>1, RecordTypes DEF HubTypeOK, Records
<1>3. UNCHANGED hubVars => HubTypeOK'
  BY <1>1 DEF hubVars, HubTypeOK
<1>4. Lose => losses' \in 0 .. MaxFaults /\ losses' = losses + 1
  BY <1>1 DEF Lose
<1>5. /\ HubTypeOK'
      /\ Lose \/ UNCHANGED losses
      /\ UNCHANGED late \/ late' = [late EXCEPT ![n] = role[n]]
  <2>1. CASE Post(n, answered, RegisterPeer(n, role[n]), FALSE)
    BY <1>2, <1>3, <2>1 DEF Post
  <2>2. CASE Post(n, answered, Heartbeat(n, role[n]), ~Registered(n))
    BY <1>2, <1>3, <2>2 DEF Post
  <2>3. CASE PostHeartbeat(n, answered) /\ ~Post(n, answered, Heartbeat(n, role[n]), ~Registered(n))
    BY <1>3, <2>3 DEF PostHeartbeat
  <2> QED BY <2>1, <2>2, <2>3
<1> QED BY <1>1, <1>4, <1>5

LEMMA ClockTypes ==
  ASSUME TypeOK, NEW n \in Node, LookAtClock(n)
  PROVE  /\ elapsed' \in [Node -> 0 .. MaxCycle] /\ missing' \in [Node -> 0 .. StaleAfter + 1]
         /\ elapsed'[n] = 0 /\ missing'[n] <= missing[n] + elapsed[n]
         /\ missing[n] + elapsed[n] <= StaleAfter => missing'[n] = missing[n] + elapsed[n]
         /\ \A m \in Node \ {n} : missing'[m] = missing[m] /\ elapsed'[m] = elapsed[m]
<1>1. /\ missing[n] \in 0 .. StaleAfter + 1 /\ elapsed[n] \in 0 .. MaxCycle
      /\ StaleAfter \in Nat /\ MaxCycle \in Nat
  BY CycleFacts DEF TypeOK
<1> DEFINE t == missing[n] + elapsed[n]
<1>2. /\ t \in Nat /\ Capped(t) \in 0 .. StaleAfter + 1 /\ Capped(t) <= t
      /\ t <= StaleAfter => Capped(t) = t
  BY <1>1 DEF Capped
<1>3. missing' = [missing EXCEPT ![n] = Capped(t)] /\ elapsed' = [elapsed EXCEPT ![n] = 0]
  BY DEF LookAtClock
<1> HIDE DEF t
<1>4. elapsed' \in [Node -> 0 .. MaxCycle]
  BY <1>1, <1>3 DEF TypeOK
<1>5. missing' \in [Node -> 0 .. StaleAfter + 1]
  BY <1>2, <1>3 DEF TypeOK
<1>6. /\ elapsed'[n] = 0 /\ missing'[n] = Capped(t)
      /\ \A m \in Node \ {n} : missing'[m] = missing[m] /\ elapsed'[m] = elapsed[m]
  BY <1>3 DEF TypeOK
<1> QED BY <1>2, <1>4, <1>5, <1>6 DEF t

(* What the hub answers lists nodes with their roles.                      *)
Views == UNION {[S -> Role] : S \in SUBSET Node}

LEMMA ViewTypes ==
  ASSUME TypeOK
  PROVE  ActivePeers \in Views /\ NoPeers \in Views
<1> DEFINE S == {m \in Node : SeenWithin(m, PeerTimeout)}
<1>1. ActivePeers \in [S -> Role] /\ S \in SUBSET Node
  <2>1. \A m \in S : peers[m].role \in Role
    BY DEF TypeOK, HubTypeOK, SeenWithin, Registered
  <2> QED BY <2>1 DEF ActivePeers
<1>2. NoPeers \in [{} -> Role]
  BY DEF NoPeers
<1> QED BY <1>1, <1>2 DEF Views

LEMMA RegisterTypes ==
  ASSUME TypeOK, NEW n \in Node, Register(n)
  PROVE  TypeOK'
<1>1. /\ pc' \in [Node -> PC]
      /\ \E a \in BOOLEAN : Post(n, a, RegisterPeer(n, role[n]), FALSE)
      /\ LookAtClock(n) /\ UNCHANGED <<role, view, crashes>>
  BY DEF Register, Goto, TypeOK, PC
<1> QED BY <1>1, PostTypes, ClockTypes DEF TypeOK

LEMMA HeartbeatTypes ==
  ASSUME TypeOK, NEW n \in Node, SendHeartbeat(n)
  PROVE  TypeOK'
<1>1. /\ pc' \in [Node -> PC]
      /\ \E a \in BOOLEAN : PostHeartbeat(n, a)
      /\ LookAtClock(n) /\ UNCHANGED <<role, view, crashes>>
  BY DEF SendHeartbeat, Goto, TypeOK, PC
<1> QED BY <1>1, PostTypes, ClockTypes DEF TypeOK

LEMMA LoseTypes ==
  ASSUME TypeOK
  PROVE  /\ Lose => losses' \in 0 .. MaxFaults /\ losses' = losses + 1
         /\ Die => crashes' \in 0 .. MaxFaults /\ crashes' = crashes + 1
BY CycleFacts DEF Lose, Die, TypeOK

LEMMA FetchTypes ==
  ASSUME TypeOK, NEW n \in Node, FetchPeers(n)
  PROVE  TypeOK'
<1>1. view' \in [Node -> Views] /\ losses' \in 0 .. MaxFaults
  BY ViewTypes, LoseTypes DEF FetchPeers, TypeOK, Views
<1>2. role' \in [Node -> Role] /\ pc' \in [Node -> PC]
  BY DEF FetchPeers, Goto, TypeOK, PC, Role
<1>3. UNCHANGED <<hubVars, elapsed, missing, late, crashes>>
  BY DEF FetchPeers
<1> QED BY <1>1, <1>2, <1>3 DEF TypeOK, HubTypeOK, hubVars, Views

LEMMA ConfirmTypes ==
  ASSUME TypeOK, NEW n \in Node, Confirm(n)
  PROVE  TypeOK'
<1>1. /\ pc' \in [Node -> PC] /\ view' \in [Node -> Views]
      /\ \E a \in BOOLEAN : PostHeartbeat(n, a)
      /\ UNCHANGED <<role, elapsed, missing, crashes>>
  <2>1. pc' \in [Node -> PC]
    BY DEF Confirm, Goto, TypeOK, PC
  <2>2. view' = view \/ view' = [view EXCEPT ![n] = NoPeers]
    BY DEF Confirm
  <2>3. view' \in [Node -> Views]
    <3>1. view \in [Node -> Views] /\ NoPeers \in Views
      BY ViewTypes DEF TypeOK, Views
    <3> QED BY <2>2, <3>1
  <2> QED BY <2>1, <2>3 DEF Confirm
<1> QED BY <1>1, PostTypes DEF TypeOK, Views

LEMMA DecideTypes ==
  ASSUME TypeOK, NEW n \in Node, Decide(n)
  PROVE  TypeOK'
<1>1. /\ pc' \in [Node -> PC] /\ view' \in [Node -> Views]
      /\ UNCHANGED <<hubVars, elapsed, late, crashes>>
  <2>1. pc' \in [Node -> PC]
    BY DEF Decide, Goto, TypeOK, PC
  <2>2. view' \in [Node -> Views]
    <3>1. view \in [Node -> Views] /\ NoPeers \in Views
      BY ViewTypes DEF TypeOK, Views
    <3>2. view' = [view EXCEPT ![n] = NoPeers]
      BY DEF Decide
    <3> QED BY <3>1, <3>2
  <2> QED BY <2>1, <2>2 DEF Decide
<1>2. /\ role' \in [Node -> Role] /\ missing' \in [Node -> 0 .. StaleAfter + 1]
      /\ losses' \in 0 .. MaxFaults
  <2>1. CASE Reign(n)
    BY <2>1 DEF Reign, TypeOK
  <2>2. CASE FindMaster(n)
    <3>1. role' = role /\ losses' = losses /\ missing' = [missing EXCEPT ![n] = 0]
      BY <2>2 DEF FindMaster
    <3> QED BY <3>1, CycleFacts DEF TypeOK
  <2>3. CASE MissMaster(n)
    <3>1. missing' = missing /\ (losses' = losses \/ Lose)
      BY <2>3 DEF MissMaster
    <3>2. role' = role \/ role' = [role EXCEPT ![n] = "MASTER"]
      BY <2>3 DEF MissMaster
    <3>3. role' \in [Node -> Role]
      BY <3>2 DEF TypeOK, Role
    <3> QED BY <3>1, <3>3, LoseTypes DEF TypeOK
  <2> QED BY <2>1, <2>2, <2>3 DEF Decide
<1> QED BY <1>1, <1>2 DEF TypeOK, HubTypeOK, hubVars, Views

LEMMA OtherTypes ==
  ASSUME TypeOK, NEW n \in Node, DeliverLate(n) \/ Crash(n) \/ Restart(n)
  PROVE  TypeOK'
<1>1. CASE DeliverLate(n)
  <2>1. HubTypeOK'
    <3>1. CASE Heartbeat(n, late[n]) /\ late[n] \in Role
      <4>1. peers' = [peers EXCEPT ![n] = [role |-> late[n], age |-> 0]] /\ UNCHANGED expired
        BY <3>1 DEF Heartbeat, Put
      <4> QED BY <3>1, <4>1, RecordTypes DEF TypeOK, HubTypeOK, Records
    <3>2. CASE UNCHANGED hubVars
      BY <3>2 DEF TypeOK, HubTypeOK, hubVars
    <3> QED BY <1>1, <3>1, <3>2 DEF DeliverLate, TypeOK
  <2>2. late' \in [Node -> Role \cup {NoPost}] /\ UNCHANGED <<nodeVars, losses, crashes>>
    BY <1>1 DEF DeliverLate, TypeOK
  <2> QED BY <2>1, <2>2 DEF TypeOK, nodeVars
<1>2. CASE Crash(n)
  <2>1. /\ role' \in [Node -> Role] /\ pc' \in [Node -> PC] /\ view' \in [Node -> Views]
        /\ elapsed' \in [Node -> 0 .. MaxCycle] /\ missing' \in [Node -> 0 .. StaleAfter + 1]
    <3>1. role' \in [Node -> Role]
      BY <1>2, LeadershipAssumption DEF Crash, TypeOK
    <3>2. pc' \in [Node -> PC]
      BY <1>2 DEF Crash, TypeOK, PC
    <3>3. view' \in [Node -> Views]
      BY <1>2, ViewTypes DEF Crash, TypeOK, Views
    <3>4. elapsed' \in [Node -> 0 .. MaxCycle] /\ missing' \in [Node -> 0 .. StaleAfter + 1]
      BY <1>2, CycleFacts DEF Crash, TypeOK
    <3> QED BY <3>1, <3>2, <3>3, <3>4
  <2>2. crashes' \in 0 .. MaxFaults /\ UNCHANGED <<hubVars, late, losses>>
    BY <1>2, LoseTypes DEF Crash
  <2> QED BY <2>1, <2>2 DEF TypeOK, HubTypeOK, hubVars, Views
<1>3. CASE Restart(n)
  <2>1. pc' \in [Node -> PC]
    BY <1>3 DEF Restart, Goto, TypeOK, PC
  <2> QED BY <1>3, <2>1 DEF Restart, TypeOK, HubTypeOK, hubVars, faultVars
<1> QED BY <1>1, <1>2, <1>3

LEMMA HubTypes ==
  ASSUME TypeOK, Hub
  PROVE  TypeOK'
<1>1. HubTypeOK' /\ crashes' \in 0 .. MaxFaults
  <2>1. CASE ListExpired /\ UNCHANGED crashes
    BY <2>1 DEF ListExpired, TypeOK, HubTypeOK
  <2>2. ASSUME NEW n \in Node, Reap(n), UNCHANGED crashes
        PROVE  HubTypeOK' /\ crashes' \in 0 .. MaxFaults
    BY <2>2 DEF Reap, TypeOK, HubTypeOK
  <2>3. CASE HubRestart /\ Die
    BY <2>3, LoseTypes DEF HubRestart, TypeOK, HubTypeOK
  <2> QED BY <2>1, <2>2, <2>3 DEF Hub
<1> QED BY <1>1 DEF Hub, TypeOK, nodeVars

LEMMA TickTypes ==
  ASSUME TypeOK, Tick
  PROVE  TypeOK'
<1>1. HubTypeOK'
  <2>1. peers' = [n \in Node |-> Aged(peers[n])] /\ UNCHANGED expired
    BY DEF Tick, Age
  <2>2. \A n \in Node : peers[n] \in Records \cup {NoRecord}
    BY DEF TypeOK, HubTypeOK, Records
  <2> QED BY <2>1, <2>2, RecordTypes DEF TypeOK, HubTypeOK, Records
<1>2. elapsed' \in [Node -> 0 .. MaxCycle]
  <2>1. \A n \in Node : Up(n) => elapsed[n] \in 0 .. MaxCycle /\ elapsed[n] < MaxCycle
    BY CycleFacts DEF Tick, Limit, Slack, TypeOK
  <2> QED BY <2>1, CycleFacts DEF Tick
<1> QED BY <1>1, <1>2 DEF Tick, TypeOK, faultVars

LEMMA TypeStep == ASSUME TypeOK, [Next]_vars PROVE TypeOK'
<1>1. CASE UNCHANGED vars
  BY <1>1 DEF TypeOK, HubTypeOK, vars, hubVars, nodeVars, faultVars
<1> QED
  BY <1>1, RegisterTypes, HeartbeatTypes, FetchTypes, ConfirmTypes, DecideTypes, OtherTypes,
     HubTypes, TickTypes
     DEF Next, Poll

-----------------------------------------------------------------------------
(* How long a node stays where it is.                                      *)

LEMMA OneMoves ==
  ASSUME TypeOK, TypeOK', LimitInv, NEW n \in Node, NEW there \in PC,
         pc' = [pc EXCEPT ![n] = there],
         \A m \in Node \ {n} : elapsed'[m] = elapsed[m],
         \/ elapsed'[n] = 0
         \/ elapsed'[n] = elapsed[n] /\ pc[n] \notin {"retry", "asleep"}
  PROVE  LimitInv'
<1>1. /\ elapsed \in [Node -> 0 .. MaxCycle] /\ elapsed' \in [Node -> 0 .. MaxCycle]
      /\ pc \in [Node -> PC]
  BY DEF TypeOK
<1>2. /\ Limit(n)' \in {MaxCycle, Slack}
      /\ pc[n] \notin {"retry", "asleep"} => Limit(n) = Slack
  BY DEF Limit, Slack
<1>3. elapsed'[n] <= Limit(n)'
  <2>1. elapsed[n] <= Limit(n)
    BY DEF LimitInv
  <2> QED BY <1>1, <1>2, <2>1, CycleFacts
<1>4. ASSUME NEW m \in Node \ {n} PROVE elapsed'[m] <= Limit(m)'
  BY <1>1, <1>4 DEF LimitInv, Limit
<1> QED BY <1>3, <1>4 DEF LimitInv

LEMMA LimitStep ==
  ASSUME TypeOK, TypeOK', LimitInv, [Next]_vars
  PROVE  LimitInv'
<1>1. ASSUME NEW n \in Node, Register(n) \/ SendHeartbeat(n)
      PROVE  LimitInv'
  <2>1. PICK there \in PC : pc' = [pc EXCEPT ![n] = there]
    BY <1>1 DEF Register, SendHeartbeat, Goto, PC
  <2>2. LookAtClock(n)
    BY <1>1 DEF Register, SendHeartbeat
  <2> QED BY <2>1, <2>2, ClockTypes, OneMoves
<1>2. ASSUME NEW n \in Node, FetchPeers(n) \/ Confirm(n) \/ Decide(n) \/ Restart(n)
      PROVE  LimitInv'
  <2>1. PICK there \in PC : pc' = [pc EXCEPT ![n] = there]
    BY <1>2 DEF FetchPeers, Confirm, Decide, Restart, Goto, PC
  <2>2. pc[n] \notin {"retry", "asleep"} /\ elapsed' = elapsed
    BY <1>2 DEF FetchPeers, Confirm, Decide, Restart, Goto
  <2> QED BY <2>1, <2>2, OneMoves
<1>3. ASSUME NEW n \in Node, Crash(n) PROVE LimitInv'
  <2>1. "down" \in PC /\ pc' = [pc EXCEPT ![n] = "down"] /\ elapsed' = [elapsed EXCEPT ![n] = 0]
    BY <1>3 DEF Crash, PC
  <2>2. elapsed'[n] = 0 /\ \A m \in Node \ {n} : elapsed'[m] = elapsed[m]
    BY <2>1 DEF TypeOK
  <2> QED BY <2>1, <2>2, OneMoves
<1>4. CASE Tick
  <2>1. ASSUME NEW n \in Node PROVE elapsed'[n] <= Limit(n)'
    <3>1. Limit(n)' = Limit(n) /\ Limit(n) \in Nat /\ elapsed[n] \in Nat
      BY <1>4, CycleFacts DEF Tick, Limit, Slack, TypeOK
    <3>2. elapsed'[n] = 0 \/ (elapsed'[n] = elapsed[n] + 1 /\ elapsed[n] < Limit(n))
      <4>1. elapsed' = [m \in Node |-> IF Up(m) THEN elapsed[m] + 1 ELSE 0]
        BY <1>4 DEF Tick
      <4>2. Up(n) => elapsed[n] < Limit(n)
        BY <1>4 DEF Tick
      <4> QED BY <4>1, <4>2
    <3> QED BY <3>1, <3>2
  <2> QED BY <2>1 DEF LimitInv
<1>5. CASE UNCHANGED nodeVars
  BY <1>5 DEF nodeVars, LimitInv, Limit
<1> QED
  BY <1>1, <1>2, <1>3, <1>4, <1>5 DEF Next, Poll, DeliverLate, Hub, vars

-----------------------------------------------------------------------------
(* Before the first crash.                                                 *)

Calm == TypeOK /\ LimitInv /\ CalmInv /\ Timely /\ OneStarts

(* Nobody is MASTER or listed as one except the first.                     *)
LEMMA RoleFacts ==
  ASSUME Calm
  PROVE  /\ First \in Node /\ StartRole[First] = "MASTER"
         /\ \A n \in Node : Up(n) /\ role[n] = StartRole[n]
         /\ \A n \in Node \ {First} : role[n] = "FOLLOWER" /\ StartRole[n] = "FOLLOWER"
         /\ Answers(First)
BY DEF Calm, CalmInv, RolesStay, OneStarts, Up, Answers

(* Whoever is registered is listed.                                        *)
LEMMA ListedFacts ==
  ASSUME Calm, NEW n \in Node, Registered(n)
  PROVE  SeenWithin(n, PeerTimeout) /\ peers[n].role = StartRole[n]
<1>1. /\ peers[n].role = StartRole[n] /\ peers[n].age <= Aging(losses) + elapsed[n]
      /\ elapsed[n] \in 0 .. MaxCycle /\ losses \in 0 .. MaxFaults /\ peers[n] \in Records
      /\ Aging(MaxFaults) + MaxCycle < PeerTimeout
  BY DEF Calm, CalmInv, RecordsFresh, Fresh, TypeOK, HubTypeOK, Registered, Records, Timely
<1>2. Aging(losses) \in Nat /\ Aging(MaxFaults) \in Nat /\ Aging(losses) <= Aging(MaxFaults)
  <2>1. MaxFaults \in 0 .. MaxFaults
    BY CycleFacts
  <2> QED BY <1>1, <2>1, BudgetFacts
<1>3. peers[n].age < PeerTimeout
  BY <1>1, <1>2, CycleFacts DEF Records
<1> QED BY <1>1, <1>3 DEF SeenWithin

(* A node that does not move while at most a message is lost.              *)
LEMMA Undisturbed ==
  ASSUME Calm, NEW m \in Node, pc'[m] = pc[m], missing'[m] = missing[m],
         elapsed'[m] = elapsed[m], view'[m] = view[m], peers'[m] = peers[m],
         losses' \in 0 .. MaxFaults, losses' = losses \/ losses' = losses + 1
  PROVE  /\ Fresh(m)'
         /\ m # First => Waits(m)'
<1>1. /\ losses \in 0 .. MaxFaults /\ elapsed[m] \in Nat /\ missing[m] \in Nat
      /\ Fresh(m) /\ (m # First => Waits(m))
      /\ Registered(m) => peers[m].age \in Nat
  BY CycleFacts DEF Calm, CalmInv, RecordsFresh, TypeOK, HubTypeOK, Registered
<1>2. /\ Spent(losses) \in Nat /\ Aging(losses) \in Nat
      /\ Spent(losses') \in Nat /\ Aging(losses') \in Nat
      /\ Spent(losses) <= Spent(losses') /\ Aging(losses) <= Aging(losses')
  BY <1>1, BudgetFacts, CycleFacts
<1>3. Fresh(m)'
  BY <1>1, <1>2 DEF Fresh, Registered
<1>4. m # First => Waits(m)'
  BY <1>1, <1>2, CycleFacts DEF Waits
<1> QED BY <1>3, <1>4

(* A request of a node that the hub knows, or that registers: it is        *)
(* answered or a message is lost.                                          *)
LEMMA PostFacts ==
  ASSUME Calm, NEW n \in Node, NEW answered \in BOOLEAN,
         \/ Post(n, answered, RegisterPeer(n, role[n]), FALSE)
         \/ PostHeartbeat(n, answered) /\ Registered(n)
  PROVE  LET new == [role |-> StartRole[n], age |-> 0] IN
         /\ expired' = expired
         /\ \A m \in Node \ {n} : peers'[m] = peers[m] /\ late'[m] = late[m]
         /\ late'[n] \in {late[n], StartRole[n]} /\ peers'[n] \in {peers[n], new}
         /\ losses' \in 0 .. MaxFaults
         /\ answered => peers'[n] = new /\ losses' = losses
         /\ ~answered => losses' = losses + 1
<1> DEFINE new == [role |-> StartRole[n], age |-> 0]
           Asked == expired' = expired /\ peers' = [peers EXCEPT ![n] = new]
<1>1. /\ role[n] = StartRole[n] /\ losses \in 0 .. MaxFaults
      /\ peers \in [Node -> Records \cup {NoRecord}] /\ late \in [Node -> Role \cup {NoPost}]
  BY RoleFacts DEF Calm, TypeOK, HubTypeOK, Records
<1>2. /\ RegisterPeer(n, role[n]) => Asked
      /\ Heartbeat(n, role[n]) => Asked
      /\ UNCHANGED hubVars => peers' = peers /\ expired' = expired
  BY <1>1 DEF RegisterPeer, Heartbeat, Put, hubVars
<1>3. Lose => losses' \in 0 .. MaxFaults /\ losses' = losses + 1
  BY LoseTypes DEF Calm
<1> HIDE DEF Asked
<1>4. \/ answered /\ Asked /\ late' = late /\ losses' = losses
      \/ /\ ~answered /\ Lose
         /\ Asked \/ (peers' = peers /\ expired' = expired)
         /\ late' = late \/ late' = [late EXCEPT ![n] = StartRole[n]]
  <2>1. CASE Post(n, answered, RegisterPeer(n, role[n]), FALSE)
    BY <1>2, <2>1 DEF Post
  <2>2. CASE Post(n, answered, Heartbeat(n, role[n]), ~Registered(n)) /\ Registered(n)
    BY <1>2, <2>2 DEF Post
  <2>3. CASE /\ PostHeartbeat(n, answered)
             /\ ~Post(n, answered, Heartbeat(n, role[n]), ~Registered(n))
    BY <1>1, <1>2, <2>3 DEF PostHeartbeat
  <2> QED BY <2>1, <2>2, <2>3 DEF PostHeartbeat
<1> USE DEF Asked
<1> HIDE DEF new
<1>5. /\ expired' = expired
      /\ \A m \in Node \ {n} : peers'[m] = peers[m] /\ late'[m] = late[m]
      /\ late'[n] \in {late[n], StartRole[n]} /\ peers'[n] \in {peers[n], new}
      /\ answered => peers'[n] = new
  <2>1. CASE Asked
    BY <1>1, <1>4, <2>1
  <2>2. CASE peers' = peers /\ expired' = expired /\ ~answered
    BY <1>1, <1>4, <2>2
  <2> QED BY <1>4, <2>1, <2>2
<1>6. /\ losses' \in 0 .. MaxFaults
      /\ answered => losses' = losses
      /\ ~answered => losses' = losses + 1
  BY <1>1, <1>3, <1>4
<1> QED BY <1>5, <1>6 DEF new

(* The first to register has waited longest, and not too long.             *)
LEMMA StartingFacts ==
  ASSUME Calm, ~Registered(First)
  PROVE  /\ pc[First] \in {"register", "retry"}
         /\ \A n \in Node : missing[n] + elapsed[n] <= missing[First] + elapsed[First]
         /\ \/ pc[First] = "register" /\ missing[First] + elapsed[First] <= Slack
            \/ pc[First] = "retry" /\ missing[First] + elapsed[First] <= Spent(losses)
         /\ missing[First] + elapsed[First] <= StaleAfter
<1>1. /\ First \in Node /\ elapsed[First] \in Nat /\ missing[First] \in Nat
      /\ losses \in 0 .. MaxFaults
      /\ elapsed[First] <= Limit(First) /\ Fresh(First) /\ Starting
      /\ Spent(MaxFaults) <= StaleAfter /\ Slack <= StaleAfter
  BY RoleFacts, CycleFacts DEF Calm, CalmInv, TypeOK, LimitInv, RecordsFresh, Timely
<1>2. /\ Spent(losses) \in Nat /\ Spent(losses) <= Spent(MaxFaults)
      /\ Spent(MaxFaults) \in Nat
  BY <1>1, BudgetFacts, CycleFacts
<1>3. pc[First] \in {"register", "retry"}
  BY <1>1 DEF Fresh
<1>4. /\ pc[First] = "register" => missing[First] + elapsed[First] <= Slack
      /\ pc[First] = "retry" => missing[First] + elapsed[First] <= Spent(losses)
  <2>1. CASE pc[First] = "register"
    <3>1. missing[First] = 0 /\ Limit(First) = Slack
      BY <1>1, <2>1 DEF Starting, Limit, Slack
    <3> QED BY <1>1, <2>1, <3>1, CycleFacts
  <2>2. CASE pc[First] = "retry"
    <3>1. missing[First] + Cost <= Spent(losses) + Slack /\ Limit(First) = MaxCycle
      BY <1>1, <2>2 DEF Starting, Limit
    <3> QED BY <1>1, <1>2, <2>2, <3>1, CycleFacts
  <2> QED BY <1>3, <2>1, <2>2
<1>5. \A n \in Node : missing[n] + elapsed[n] <= missing[First] + elapsed[First]
  BY <1>1 DEF Starting
<1> QED BY <1>1, <1>2, <1>3, <1>4, <1>5, CycleFacts

(* A step of one node, or of none.                                         *)
Losing == losses' \in 0 .. MaxFaults /\ losses' \in {losses, losses + 1}

OnlyOne(n) ==
  \A m \in Node \ {n} :
    /\ pc'[m] = pc[m] /\ missing'[m] = missing[m] /\ elapsed'[m] = elapsed[m]
    /\ view'[m] = view[m] /\ peers'[m] = peers[m] /\ late'[m] = late[m]

LEMMA StartingStays ==
  ASSUME Calm, TypeOK', NEW n \in Node \ {First}, OnlyOne(n), Losing,
         missing'[n] + elapsed'[n] <= missing[n] + elapsed[n]
  PROVE  Starting'
<1>1. CASE Registered(First)'
  BY <1>1 DEF Starting
<1>2. CASE ~Registered(First)'
  <2>1. /\ ~Registered(First) /\ First \in Node
        /\ pc'[First] = pc[First] /\ missing'[First] = missing[First]
        /\ elapsed'[First] = elapsed[First]
    BY <1>2, RoleFacts DEF OnlyOne, Registered
  <2>2. /\ losses \in 0 .. MaxFaults /\ Starting
        /\ missing \in [Node -> Nat] /\ elapsed \in [Node -> Nat]
    BY CycleFacts DEF Calm, CalmInv, TypeOK
  <2>3. /\ Spent(losses) \in Nat /\ Spent(losses') \in Nat /\ Spent(losses) <= Spent(losses')
        /\ losses > 0 => losses' > 0
    BY <2>2, BudgetFacts, CycleFacts DEF Losing
  <2>4. \A m \in Node : missing'[m] + elapsed'[m] <= missing'[First] + elapsed'[First]
    <3>1. ASSUME NEW m \in Node, m # n PROVE missing'[m] + elapsed'[m] = missing[m] + elapsed[m]
      BY <3>1 DEF OnlyOne
    <3>2. \A m \in Node : missing[m] + elapsed[m] <= missing[First] + elapsed[First]
      BY <2>1, <2>2 DEF Starting
    <3>3. ASSUME NEW m \in Node, m # n
          PROVE  missing'[m] + elapsed'[m] <= missing'[First] + elapsed'[First]
      BY <2>1, <3>1, <3>2, <3>3
    <3>4. missing'[n] + elapsed'[n] <= missing'[First] + elapsed'[First]
      <4>1. missing[n] + elapsed[n] <= missing[First] + elapsed[First]
        BY <3>2
      <4>2. missing'[n] \in Nat /\ elapsed'[n] \in Nat
        BY CycleFacts DEF TypeOK
      <4> QED BY <2>1, <2>2, <4>1, <4>2
    <3> QED BY <3>3, <3>4
  <2> QED BY <2>1, <2>2, <2>3, <2>4, CycleFacts DEF Starting
<1> QED BY <1>1, <1>2

LEMMA Assembled ==
  ASSUME Calm, NEW n \in Node, OnlyOne(n), Losing, role' = role, expired' = expired,
         pc'[n] \notin {"down", "confirm"}, late'[n] \in {late[n], StartRole[n], NoPost},
         view'[n] = view[n] \/ \A m \in DOMAIN view'[n] : view'[n][m] = StartRole[m],
         Fresh(n)', n # First => Waits(n)', Starting'
  PROVE  CalmInv'
<1>1. ASSUME NEW m \in Node, m # n PROVE Fresh(m)' /\ (m # First => Waits(m)')
  BY <1>1, Undisturbed DEF OnlyOne, Losing
<1>2. RolesStay'
  <2>1. RolesStay /\ role' = role
    BY DEF Calm, CalmInv
  <2>2. \A m \in Node \ {n} : pc'[m] = pc[m] /\ late'[m] = late[m] /\ view'[m] = view[m]
    BY DEF OnlyOne
  <2> QED BY <2>1, <2>2 DEF RolesStay
<1>3. RecordsFresh'
  BY <1>1 DEF Calm, CalmInv, RecordsFresh
<1> QED BY <1>1, <1>2, <1>3 DEF CalmInv

(* What is known of the node that acts.                                    *)
LEMMA NodeFacts ==
  ASSUME Calm, NEW n \in Node
  PROVE  /\ losses \in 0 .. MaxFaults /\ Spent(losses) \in Nat /\ Aging(losses) \in Nat
         /\ missing[n] \in 0 .. StaleAfter + 1 /\ elapsed[n] \in 0 .. MaxCycle
         /\ pc[n] \notin {"retry", "asleep"} => elapsed[n] <= Slack
         /\ Fresh(n)
         /\ n # First => Waits(n)
         /\ Registered(n) => peers[n].age \in Nat
<1>1. losses \in 0 .. MaxFaults
  BY DEF Calm, TypeOK
<1>2. missing[n] \in 0 .. StaleAfter + 1 /\ elapsed[n] \in 0 .. MaxCycle
  BY DEF Calm, TypeOK
<1>3. pc[n] \notin {"retry", "asleep"} => elapsed[n] <= Slack
  BY DEF Calm, LimitInv, Limit, Slack
<1>4. Registered(n) => peers[n].age \in Nat
  BY CycleFacts DEF Calm, TypeOK, HubTypeOK, Registered
<1>5. Fresh(n) /\ (n # First => Waits(n))
  BY DEF Calm, CalmInv, RecordsFresh
<1> QED BY <1>1, <1>2, <1>3, <1>4, <1>5, BudgetFacts

(* A node that told the hub its role, or lost a message on the way.        *)
LEMMA RecordStays ==
  ASSUME Calm, NEW n \in Node, elapsed'[n] = 0,
         \/ peers'[n] = [role |-> StartRole[n], age |-> 0] /\ Losing
         \/ /\ peers'[n] = peers[n] /\ losses' \in 0 .. MaxFaults /\ losses' = losses + 1
            /\ pc'[n] \in {"register", "retry"}
  PROVE  Fresh(n)'
<1>1. CASE peers'[n] = [role |-> StartRole[n], age |-> 0] /\ Losing
  <2>1. StartRole[n] \in Role /\ Registered(n)'
    <3>1. peers'[n] \in Records /\ StartRole[n] \in Role
      BY <1>1, RecordTypes, LeadershipAssumption
    <3> QED BY <3>1, RecordTypes DEF Registered
  <2>2. Aging(losses') \in Nat
    BY <1>1, BudgetFacts DEF Losing
  <2> QED BY <1>1, <2>1, <2>2 DEF Fresh
<1>2. CASE /\ peers'[n] = peers[n] /\ losses' \in 0 .. MaxFaults /\ losses' = losses + 1
           /\ pc'[n] \in {"register", "retry"}
  <2>1. Aging(losses') = Aging(losses) + MaxCycle
    BY <1>2, NodeFacts, BudgetFacts
  <2> QED BY <1>2, <2>1, NodeFacts, CycleFacts DEF Fresh, Registered
<1> QED BY <1>1, <1>2

LEMMA RegisterCalm ==
  ASSUME Calm, TypeOK', NEW n \in Node, Register(n)
  PROVE  CalmInv'
<1> DEFINE new == [role |-> StartRole[n], age |-> 0]
<1>1. LookAtClock(n) /\ role' = role /\ view' = view
  BY DEF Register
<1>2. PICK answered \in BOOLEAN, here \in {"register", "retry"} :
        /\ Goto(n, here, IF answered THEN "asleep" ELSE "retry")
        /\ Post(n, answered, RegisterPeer(n, role[n]), FALSE)
  BY DEF Register
<1>3. /\ pc[n] \in {"register", "retry"} /\ pc' \in [Node -> PC]
      /\ pc'[n] = IF answered THEN "asleep" ELSE "retry"
      /\ \A m \in Node \ {n} : pc'[m] = pc[m]
  BY <1>2 DEF Goto, Calm, TypeOK
<1>4. /\ expired' = expired
      /\ \A m \in Node \ {n} : peers'[m] = peers[m] /\ late'[m] = late[m]
      /\ late'[n] \in {late[n], StartRole[n]} /\ peers'[n] \in {peers[n], new}
      /\ losses' \in 0 .. MaxFaults
      /\ answered => peers'[n] = new /\ losses' = losses
      /\ ~answered => losses' = losses + 1
  BY <1>2, PostFacts
<1> HIDE DEF new
<1>5. OnlyOne(n) /\ Losing /\ elapsed'[n] = 0
  BY <1>1, <1>3, <1>4, ClockTypes DEF OnlyOne, Losing, Calm
<1>6. /\ missing'[n] <= missing[n] + elapsed[n]
      /\ missing[n] + elapsed[n] <= StaleAfter => missing'[n] = missing[n] + elapsed[n]
      /\ missing'[n] \in Nat
  BY <1>1, ClockTypes, CycleFacts DEF Calm, TypeOK
<1>7. Fresh(n)'
  BY <1>3, <1>4, <1>5, RecordStays DEF new
<1>8. /\ Spent(losses') \in Nat /\ Spent(losses) \in Nat
      /\ losses' = losses + 1 => Spent(losses') = Spent(losses) + Cost
  BY <1>4, NodeFacts, BudgetFacts
<1>9. n # First => Waits(n)'
  <2> SUFFICES ASSUME n # First PROVE Waits(n)'
    OBVIOUS
  <2>1. missing'[n] <= Spent(losses) + Slack
    BY <1>3, <1>6, <1>8, NodeFacts, CycleFacts DEF Waits
  <2>2. losses \in Nat
    BY NodeFacts
  <2> QED BY <1>3, <1>4, <1>6, <1>8, <2>1, <2>2, CycleFacts DEF Waits
<1>10. Starting'
  <2>1. CASE n # First
    BY <1>5, <1>6, <2>1, NodeFacts, StartingStays
  <2>2. CASE n = First /\ answered
    BY <1>4, <1>3, <1>7, <2>2 DEF Starting, Fresh
  <2>3. CASE n = First /\ ~answered /\ ~Registered(First)'
    <3>1. ~Registered(First)
      BY <1>4, <2>3, RecordTypes, RoleFacts, LeadershipAssumption DEF Registered, new
    <3>2. /\ missing'[First] = missing[First] + elapsed[First] /\ elapsed'[First] = 0
          /\ missing'[First] <= Spent(losses) + Slack
      BY <1>5, <1>6, <1>8, <2>3, <3>1, StartingFacts, CycleFacts, NodeFacts
    <3>3. ASSUME NEW m \in Node
          PROVE  missing'[m] + elapsed'[m] <= missing'[First] + elapsed'[First]
      <4>1. CASE m = First
        BY <3>2, <4>1, <1>6, <2>3
      <4>2. CASE m # First
        <5>1. missing[m] + elapsed[m] <= missing[First] + elapsed[First]
          BY <3>1, StartingFacts
        <5> QED BY <1>5, <2>3, <3>2, <4>2, <5>1, NodeFacts, CycleFacts DEF OnlyOne
      <4> QED BY <4>1, <4>2
    <3>4. pc'[First] = "retry" /\ losses' > 0 /\ missing'[First] + Cost <= Spent(losses') + Slack
      BY <1>3, <1>4, <1>6, <1>8, <2>3, <3>2, NodeFacts, CycleFacts
    <3> QED BY <3>3, <3>4 DEF Starting
  <2> QED BY <2>1, <2>2, <2>3 DEF Starting
<1> QED BY <1>1, <1>3, <1>4, <1>5, <1>7, <1>9, <1>10, Assembled

LEMMA HeartbeatCalm ==
  ASSUME Calm, TypeOK', NEW n \in Node, SendHeartbeat(n)
  PROVE  CalmInv'
<1> DEFINE new == [role |-> StartRole[n], age |-> 0]
<1>1. LookAtClock(n) /\ role' = role /\ view' = view
  BY DEF SendHeartbeat
<1>2. PICK answered \in BOOLEAN :
        /\ Goto(n, "asleep", IF answered THEN "fetch" ELSE "register")
        /\ PostHeartbeat(n, answered)
  BY DEF SendHeartbeat
<1>3. /\ pc[n] = "asleep" /\ pc'[n] = IF answered THEN "fetch" ELSE "register"
      /\ \A m \in Node \ {n} : pc'[m] = pc[m]
  BY <1>2 DEF Goto, Calm, TypeOK
<1>4. Registered(n)
  BY <1>3, NodeFacts DEF Fresh
<1>5. /\ expired' = expired
      /\ \A m \in Node \ {n} : peers'[m] = peers[m] /\ late'[m] = late[m]
      /\ late'[n] \in {late[n], StartRole[n]} /\ peers'[n] \in {peers[n], new}
      /\ losses' \in 0 .. MaxFaults
      /\ answered => peers'[n] = new /\ losses' = losses
      /\ ~answered => losses' = losses + 1
  BY <1>2, <1>4, PostFacts
<1> HIDE DEF new
<1>6. OnlyOne(n) /\ Losing /\ elapsed'[n] = 0
  BY <1>1, <1>3, <1>5, ClockTypes DEF OnlyOne, Losing, Calm
<1>7. missing'[n] <= missing[n] + elapsed[n] /\ missing'[n] \in Nat
  BY <1>1, ClockTypes, CycleFacts DEF Calm, TypeOK
<1>8. Fresh(n)'
  BY <1>3, <1>5, <1>6, RecordStays DEF new
<1>9. /\ Spent(losses') \in Nat /\ Spent(losses) \in Nat
      /\ losses' = losses + 1 => Spent(losses') = Spent(losses) + Cost
  BY <1>5, NodeFacts, BudgetFacts
<1>10. n # First => Waits(n)'
  <2> SUFFICES ASSUME n # First PROVE Waits(n)'
    OBVIOUS
  <2>1. missing'[n] <= Spent(losses) + Cost
    BY <1>3, <1>7, <1>9, NodeFacts, CycleFacts DEF Waits
  <2> QED BY <1>3, <1>5, <1>7, <1>9, <2>1, CycleFacts DEF Waits
<1>11. Starting'
  <2>1. CASE n # First
    BY <1>6, <1>7, <2>1, NodeFacts, StartingStays
  <2>2. CASE n = First
    <3>1. Registered(First)'
      BY <1>4, <1>5, <2>2, RecordTypes, RoleFacts, LeadershipAssumption DEF Registered, new, Records
    <3> QED BY <3>1 DEF Starting
  <2> QED BY <2>1, <2>2
<1> QED BY <1>1, <1>3, <1>5, <1>6, <1>8, <1>10, <1>11, Assembled

(* Nobody yields to a MASTER: none is listed but the first.                *)
LEMMA FetchCalm ==
  ASSUME Calm, TypeOK', NEW n \in Node, FetchPeers(n)
  PROVE  CalmInv'
<1>1. /\ expired' = expired /\ peers' = peers /\ late' = late
      /\ elapsed' = elapsed /\ missing' = missing /\ pc[n] = "fetch"
  BY DEF FetchPeers, Goto, hubVars
<1>2. \/ view' = [view EXCEPT ![n] = ActivePeers] /\ losses' = losses
      \/ view' = [view EXCEPT ![n] = NoPeers] /\ losses' = losses + 1 /\ losses' \in 0 .. MaxFaults
  BY LoseTypes DEF FetchPeers, Calm
<1>3. \A m \in DOMAIN view'[n] : m \in Node /\ view'[n][m] = StartRole[m]
  <2>1. \A m \in DOMAIN ActivePeers : m \in Node /\ ActivePeers[m] = StartRole[m]
    BY ListedFacts DEF ActivePeers, SeenWithin
  <2>2. DOMAIN NoPeers = {}
    BY DEF NoPeers
  <2>3. view'[n] = ActivePeers \/ view'[n] = NoPeers
    BY <1>2 DEF Calm, TypeOK
  <2> QED BY <2>1, <2>2, <2>3
<1>4. ~Yields(n, view'[n])
  BY <1>3, RoleFacts DEF Yields, Masters
<1>5. role' = role /\ pc' = [pc EXCEPT ![n] = "decide"]
  BY <1>4 DEF FetchPeers, Goto
<1>6. OnlyOne(n) /\ Losing /\ pc'[n] = "decide"
  BY <1>1, <1>2, <1>5, NodeFacts DEF OnlyOne, Losing, Calm, TypeOK
<1>7. /\ Spent(losses') \in Nat /\ Aging(losses') \in Nat
      /\ losses' = losses + 1 => Spent(losses') = Spent(losses) + Cost
      /\ Aging(losses) <= Aging(losses')
  BY <1>2, <1>6, NodeFacts, BudgetFacts, CycleFacts DEF Losing
<1>8. Fresh(n)'
  BY <1>1, <1>6, <1>7, NodeFacts DEF Fresh, Registered
<1>9. n # First => Waits(n)'
  <2> SUFFICES ASSUME n # First PROVE Waits(n)'
    OBVIOUS
  <2>1. missing[n] <= Spent(losses) + Cost
    BY <1>1, NodeFacts DEF Waits
  <2>2. CASE losses' = losses + 1
    BY <1>1, <1>6, <1>7, <2>1, <2>2 DEF Waits
  <2>3. CASE view' = [view EXCEPT ![n] = ActivePeers] /\ losses' = losses /\ Registered(First)
    <3>1. First \in DOMAIN view'[n]
      BY <2>3, RoleFacts, ListedFacts DEF ActivePeers, Calm, TypeOK
    <3> QED BY <1>1, <1>6, <2>1, <2>3, <3>1 DEF Waits
  <2>4. CASE losses' = losses /\ ~Registered(First)
    <3>1. missing[n] <= Slack \/ missing[n] <= Spent(losses)
      BY <2>4, StartingFacts, NodeFacts, RoleFacts, CycleFacts
    <3> QED BY <1>1, <1>6, <2>4, <3>1 DEF Waits
  <2> QED BY <1>2, <2>2, <2>3, <2>4
<1>10. Starting'
  <2>1. CASE n # First
    BY <1>1, <1>6, <2>1, NodeFacts, StartingStays
  <2>2. CASE n = First
    BY <1>1, <2>2, NodeFacts DEF Fresh, Starting, Registered
  <2> QED BY <2>1, <2>2
<1> QED BY <1>1, <1>3, <1>5, <1>6, <1>8, <1>9, <1>10, Assembled

(* A wait that a FOLLOWER ends without an answer was never long enough.    *)
LEMMA NotPromotable ==
  ASSUME Calm, NEW n \in Node, pc[n] = "decide", MissMaster(n)
  PROVE  /\ n # First /\ ~Promotable(n) /\ Losing
         /\ missing[n] <= Spent(losses') + Slack
<1>1. n # First /\ Waits(n)
  BY RoleFacts, NodeFacts DEF MissMaster
<1>2. Losing
  BY NodeFacts, LoseTypes DEF MissMaster, Losing, Calm
<1>3. /\ Spent(losses') \in Nat /\ Spent(losses) \in Nat /\ Spent(losses) <= Spent(losses')
      /\ losses' = losses + 1 => Spent(losses') = Spent(losses) + Cost
      /\ Spent(losses') <= Spent(MaxFaults)
  BY <1>2, NodeFacts, BudgetFacts, CycleFacts DEF Losing
<1>4. missing[n] <= Spent(losses') \/ missing[n] <= Slack
  <2>1. CASE missing[n] <= Spent(losses) \/ missing[n] <= Slack
    BY <1>3, <2>1, NodeFacts
  <2>2. CASE First \in DOMAIN view[n] /\ missing[n] <= Spent(losses) + Cost
    <3>1. /\ view[n][First] = "MASTER" /\ Answers(First) /\ First \in Masters(n, view[n])
          /\ \A m \in Masters(n, view[n]) : m = First
      <4>1. /\ DOMAIN view[n] \subseteq Node
            /\ \A m \in DOMAIN view[n] : view[n][m] = StartRole[m]
        BY DEF Calm, CalmInv, RolesStay, TypeOK
      <4> QED BY <1>1, <2>2, <4>1, RoleFacts DEF Masters
    <3>2. Lose
      BY <3>1 DEF MissMaster
    <3>3. losses' = losses + 1
      BY <3>2, LoseTypes DEF Calm
    <3> QED BY <1>3, <2>2, <3>3
  <2> QED BY <1>1, <2>1, <2>2 DEF Waits
<1>5. Spent(MaxFaults) <= StaleAfter /\ Slack <= StaleAfter /\ Spent(MaxFaults) \in Nat
  BY NodeFacts, BudgetFacts, CycleFacts DEF Calm, Timely
<1>6. missing[n] <= StaleAfter
  BY <1>3, <1>4, <1>5, NodeFacts, CycleFacts
<1>7. ~Promotable(n)
  BY <1>6, NodeFacts, CycleFacts DEF Promotable
<1>8. missing[n] <= Spent(losses') + Slack
  BY <1>3, <1>4, NodeFacts, CycleFacts
<1> QED BY <1>1, <1>2, <1>7, <1>8

LEMMA DecideCalm ==
  ASSUME Calm, TypeOK', NEW n \in Node, Decide(n)
  PROVE  CalmInv'
<1>1. /\ expired' = expired /\ peers' = peers /\ late' = late /\ elapsed' = elapsed
      /\ pc[n] = "decide" /\ pc' = [pc EXCEPT ![n] = "asleep"]
      /\ view' = [view EXCEPT ![n] = NoPeers]
  BY DEF Decide, Goto, hubVars
<1>2. /\ role' = role /\ Losing
      /\ \A m \in Node \ {n} : missing'[m] = missing[m]
      /\ missing'[n] <= missing[n]
      /\ n # First => missing'[n] <= Spent(losses') + Slack
  <2>1. CASE Reign(n)
    <3>1. n = First
      BY <2>1, RoleFacts DEF Reign
    <3> QED BY <2>1, <3>1, NodeFacts DEF Reign, Losing
  <2>2. CASE FindMaster(n)
    <3>1. /\ role' = role /\ losses' = losses /\ missing'[n] = 0
          /\ \A m \in Node \ {n} : missing'[m] = missing[m]
      BY <2>2 DEF FindMaster, Calm, TypeOK
    <3> QED BY <3>1, NodeFacts, CycleFacts DEF Losing
  <2>3. CASE MissMaster(n)
    <3>1. /\ n # First /\ ~Promotable(n) /\ Losing
          /\ missing[n] <= Spent(losses') + Slack
      BY <1>1, <2>3, NotPromotable
    <3>2. role' = role /\ missing' = missing
      BY <2>3, <3>1 DEF MissMaster
    <3> QED BY <3>1, <3>2, NodeFacts
  <2> QED BY <2>1, <2>2, <2>3 DEF Decide
<1>3. OnlyOne(n) /\ pc'[n] = "asleep" /\ view'[n] = NoPeers
  BY <1>1, <1>2 DEF OnlyOne, Calm, TypeOK
<1>4. /\ Spent(losses') \in Nat /\ Aging(losses') \in Nat
      /\ Aging(losses) <= Aging(losses')
  BY <1>2, NodeFacts, BudgetFacts, CycleFacts DEF Losing
<1>5. Fresh(n)'
  BY <1>1, <1>3, <1>4, NodeFacts DEF Fresh, Registered
<1>6. n # First => Waits(n)'
  BY <1>2, <1>3 DEF Waits
<1>7. Starting'
  <2>1. CASE n # First
    <3>1. missing'[n] \in Nat
      BY CycleFacts DEF TypeOK
    <3>2. missing'[n] + elapsed'[n] <= missing[n] + elapsed[n]
      BY <1>1, <1>2, <3>1, NodeFacts
    <3> QED BY <1>2, <1>3, <2>1, <3>2, StartingStays
  <2>2. CASE n = First
    BY <1>1, <2>2, NodeFacts DEF Fresh, Starting, Registered
  <2> QED BY <2>1, <2>2
<1>8. \A m \in DOMAIN view'[n] : view'[n][m] = StartRole[m]
  BY <1>3 DEF NoPeers
<1> QED BY <1>1, <1>2, <1>3, <1>5, <1>6, <1>7, <1>8, Assembled

LEMMA DeliverCalm ==
  ASSUME Calm, TypeOK', NEW n \in Node, DeliverLate(n)
  PROVE  CalmInv'
<1> DEFINE new == [role |-> StartRole[n], age |-> 0]
<1>1. /\ role' = role /\ pc' = pc /\ elapsed' = elapsed /\ missing' = missing /\ view' = view
      /\ losses' = losses /\ late' = [late EXCEPT ![n] = NoPost] /\ late[n] = StartRole[n]
  BY DEF DeliverLate, nodeVars, Calm, CalmInv, RolesStay
<1>2. /\ expired' = expired
      /\ peers' = peers \/ peers' = [peers EXCEPT ![n] = new]
  BY <1>1 DEF DeliverLate, Heartbeat, Put, hubVars
<1>3. new \in Records /\ new.role = StartRole[n] /\ new.age = 0
  BY RecordTypes, LeadershipAssumption
<1> HIDE DEF new
<1>4. peers'[n] \in {peers[n], new} /\ \A m \in Node \ {n} : peers'[m] = peers[m]
  BY <1>2 DEF Calm, TypeOK, HubTypeOK
<1>5. OnlyOne(n) /\ Losing /\ late'[n] = NoPost
  BY <1>1, <1>4, NodeFacts DEF OnlyOne, Losing, Calm, TypeOK
<1>6. Fresh(n)'
  BY <1>1, <1>3, <1>4, NodeFacts, RecordTypes DEF Fresh, Registered
<1>7. n # First => Waits(n)'
  BY <1>1, NodeFacts DEF Waits
<1>8. Starting'
  <2>1. Registered(First) => Registered(First)'
    BY <1>3, <1>4, RecordTypes, RoleFacts DEF Registered
  <2>2. Starting
    BY DEF Calm, CalmInv
  <2> QED BY <1>1, <2>1, <2>2 DEF Starting
<1>9. pc'[n] \notin {"down", "confirm"}
  BY <1>1 DEF Calm, CalmInv, RolesStay
<1> QED BY <1>1, <1>2, <1>5, <1>6, <1>7, <1>8, <1>9, Assembled

LEMMA HubCalm ==
  ASSUME Calm, Hub, crashes' = crashes
  PROVE  CalmInv'
<1>1. ~(HubRestart /\ Die)
  BY DEF Die, Calm, TypeOK
<1>2. ~\E n \in Node : Reap(n)
  BY DEF Reap, Calm, CalmInv, RecordsFresh
<1>3. ListExpired /\ UNCHANGED <<nodeVars, late, losses>>
  BY <1>1, <1>2 DEF Hub
<1>4. expired' = expired /\ peers' = peers
  BY <1>3, ListedFacts DEF ListExpired
<1> QED
  BY <1>3, <1>4
     DEF Calm, CalmInv, RolesStay, RecordsFresh, Fresh, Starting, Waits, Registered, nodeVars

(* Time passes for all nodes alike, and no record gets too old.            *)
LEMMA TickCalm ==
  ASSUME Calm, Tick
  PROVE  CalmInv'
<1>1. /\ role' = role /\ pc' = pc /\ missing' = missing /\ view' = view /\ late' = late
      /\ losses' = losses /\ expired' = expired
      /\ peers' = [n \in Node |-> Aged(peers[n])]
      /\ \A n \in Node : elapsed'[n] = elapsed[n] + 1
  BY RoleFacts DEF Tick, Age, faultVars
<1>2. ASSUME NEW n \in Node
      PROVE  Registered(n)' = Registered(n) /\ Fresh(n)'
  <2>1. CASE Registered(n)
    <3>1. peers[n] \in Records /\ peers[n].age < PeerTimeout /\ peers[n].role = StartRole[n]
      BY <2>1, ListedFacts DEF Calm, TypeOK, HubTypeOK, Registered, Records, SeenWithin
    <3>2. /\ peers'[n] = [peers[n] EXCEPT !.age = peers[n].age + 1]
          /\ peers'[n] \in Records \cup {NoRecord}
      BY <1>1, <2>1, <3>1, RecordTypes DEF Aged, Registered
    <3>3. peers'[n].age = peers[n].age + 1 /\ peers'[n].role = StartRole[n]
      BY <3>1, <3>2 DEF Records
    <3>4. [peers[n] EXCEPT !.age = peers[n].age + 1] \in Records
      BY <3>1, CycleFacts DEF Records
    <3>5. Registered(n)'
      BY <3>2, <3>4, RecordTypes DEF Registered
    <3> QED BY <1>1, <2>1, <3>1, <3>3, <3>5, NodeFacts, CycleFacts DEF Fresh
  <2>2. CASE ~Registered(n)
    <3>1. ~Registered(n)'
      BY <1>1, <2>2 DEF Registered, Aged
    <3>2. pc[n] \in {"register", "retry"}
      BY <2>2, NodeFacts DEF Fresh
    <3>3. Fresh(n)'
      BY <1>1, <3>1, <3>2 DEF Fresh
    <3> QED BY <2>2, <3>1, <3>3 DEF Registered
  <2> QED BY <2>1, <2>2
<1>3. RolesStay' /\ RecordsFresh'
  BY <1>1, <1>2 DEF Calm, CalmInv, RolesStay, RecordsFresh
<1>4. ASSUME NEW n \in Node \ {First} PROVE Waits(n)'
  BY <1>1, NodeFacts DEF Waits
<1>5. Starting'
  <2>1. /\ Starting /\ First \in Node /\ elapsed \in [Node -> Nat] /\ missing \in [Node -> Nat]
        /\ Registered(First)' = Registered(First)
    BY <1>2, RoleFacts, CycleFacts DEF Calm, CalmInv, TypeOK
  <2> QED BY <1>1, <2>1 DEF Starting
<1> QED BY <1>3, <1>4, <1>5 DEF CalmInv

LEMMA CalmStep ==
  ASSUME Calm, TypeOK', [Next]_vars, crashes' = 0, crashes = 0
  PROVE  CalmInv'
<1>1. ASSUME NEW n \in Node, Confirm(n) \/ Restart(n) \/ Crash(n) PROVE FALSE
  <2>1. pc[n] \notin {"down", "confirm"}
    BY DEF Calm, CalmInv, RolesStay
  <2>2. ~Die
    BY DEF Die, Calm, TypeOK
  <2> QED BY <1>1, <2>1, <2>2 DEF Confirm, Restart, Crash, Goto
<1>2. CASE UNCHANGED vars
  BY <1>2 DEF Calm, CalmInv, RolesStay, RecordsFresh, Fresh, Starting, Waits, Registered,
              vars, hubVars, nodeVars, faultVars
<1> QED
  BY <1>1, <1>2, RegisterCalm, HeartbeatCalm, FetchCalm, DecideCalm, DeliverCalm, HubCalm, TickCalm
     DEF Next, Poll

-----------------------------------------------------------------------------
(* Theorems.                                                               *)

LEMMA InitTypes == Init => TypeOK /\ LimitInv
<1> SUFFICES ASSUME Init PROVE TypeOK /\ LimitInv
  OBVIOUS
<1>1. HubTypeOK
  BY DEF Init, HubInit, HubTypeOK
<1>2. /\ role \in [Node -> Role] /\ pc \in [Node -> PC]
      /\ late \in [Node -> Role \cup {NoPost}]
  BY LeadershipAssumption DEF Init, PC
<1>3. view \in [Node -> Views]
  <2>1. NoPeers \in [{} -> Role]
    BY DEF NoPeers
  <2> QED BY <2>1 DEF Init, Views
<1>4. /\ elapsed \in [Node -> 0 .. MaxCycle] /\ missing \in [Node -> 0 .. StaleAfter + 1]
      /\ losses \in 0 .. MaxFaults /\ crashes \in 0 .. MaxFaults
  BY CycleFacts DEF Init
<1>5. LimitInv
  <2>1. \A n \in Node : elapsed[n] = 0 /\ Limit(n) = Slack
    BY DEF Init, Limit, Slack
  <2>2. 0 <= Slack
    BY CycleFacts
  <2> QED BY <2>1, <2>2 DEF LimitInv
<1> QED BY <1>1, <1>2, <1>3, <1>4, <1>5 DEF TypeOK, Views

LEMMA InitCalm == ASSUME Init, OneStarts PROVE CalmInv
<1>1. /\ First \in Node /\ role = StartRole /\ losses = 0 /\ expired = {}
      /\ \A n \in Node : /\ ~Registered(n) /\ pc[n] = "register" /\ missing[n] = 0
                          /\ elapsed[n] = 0 /\ late[n] = NoPost /\ DOMAIN view[n] = {}
  BY DEF Init, HubInit, OneStarts, Registered, NoPeers
<1>2. RolesStay /\ RecordsFresh
  BY <1>1 DEF RolesStay, RecordsFresh, Fresh
<1>3. Starting
  BY <1>1 DEF Starting
<1>4. \A n \in Node \ {First} : Waits(n)
  <2>1. ASSUME NEW n \in Node PROVE Waits(n)
    <3>1. pc[n] = "register" /\ missing[n] = 0 /\ Spent(losses) = 0
      BY <1>1, NothingSpent
    <3> QED BY <3>1 DEF Waits
  <2> QED BY <2>1
<1> QED BY <1>2, <1>3, <1>4 DEF CalmInv

(* The types of the hub's and the nodes' states, whatever is lost, crashes *)
(* or starts again (nexus_distributed_core.py async_polling_loop).         *)
THEOREM TypeCorrect == Spec => []TypeOK
<1>1. Init => TypeOK
  BY InitTypes
<1>2. TypeOK /\ [Next]_vars => TypeOK'
  BY TypeStep
<1> QED BY <1>1, <1>2, PTL DEF Spec

LEMMA CalmIsAlone == ASSUME Calm PROVE Cardinality(Reigning) <= 1
<1>1. Reigning \subseteq {First}
  BY RoleFacts DEF Reigning, Answers
<1>2. Cardinality({First}) = 1 /\ IsFiniteSet({First})
  BY FS_Singleton
<1> QED BY <1>1, <1>2, FS_Subset

(* Of any number of nodes, of which one is started as MASTER, no second    *)
(* one promotes itself before something crashes, whatever heartbeats,      *)
(* registrations, answers and probes are lost or late, as long as the      *)
(* time-outs of 15 and 30 seconds outlast the messages that are lost       *)
(* (nexus_distributed_core.py:1014-1215).                                  *)
THEOREM RolesAreSound == ASSUME Timely, OneStarts PROVE Spec => []RolesSound
<1>1. Init => LeadershipInv
  BY InitTypes, InitCalm DEF LeadershipInv
<1>2. LeadershipInv /\ [Next]_vars => LeadershipInv'
  <2> SUFFICES ASSUME LeadershipInv, [Next]_vars PROVE LeadershipInv'
    OBVIOUS
  <2>1. TypeOK' /\ LimitInv'
    BY TypeStep, LimitStep DEF LeadershipInv
  <2>2. ASSUME crashes' = 0 PROVE CalmInv'
    <3>1. crashes = 0
      <4>1. crashes' = crashes \/ (Die /\ crashes' = crashes + 1)
        BY LoseTypes
           DEF LeadershipInv, Next, Poll, Register, SendHeartbeat, FetchPeers, Confirm, Decide,
               DeliverLate, Crash, Restart, Hub, Tick, vars, faultVars
      <4> QED BY <2>2, <4>1 DEF LeadershipInv, TypeOK
    <3>2. Calm
      BY <3>1 DEF LeadershipInv, Calm
    <3> QED BY <2>1, <2>2, <3>1, <3>2, CalmStep
  <2> QED BY <2>1, <2>2 DEF LeadershipInv
<1>3. LeadershipInv => RolesSound
  <2>1. LeadershipInv /\ crashes = 0 => Calm
    BY DEF LeadershipInv, Calm
  <2> QED BY <2>1, CalmIsAlone DEF LeadershipInv, RolesSound, OneMaster
<1> QED BY <1>1, <1>2, <1>3, PTL DEF Spec
=============================================================================
