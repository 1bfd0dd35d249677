------------------------- MODULE HardenedHubProofs -------------------------
(***************************************************************************)
(* Proofs about HardenedHub, for any finite number of connections and any  *)
(* limits: type correctness, the accounting of slots and of connections    *)
(* per address, and what close() sees.                                     *)
(***************************************************************************)
EXTENDS HardenedHub, FiniteSetTheorems, TLAPS

(* The connection in the accept loop: untouched by any worker, but between *)
(* Track and Start, or Track and Untrack.                                  *)
HeldInv ==
  /\ acceptor.conn = NoConn <=> acceptor.pc \in {"select", "stopped"}
  /\ acceptor.conn # NoConn =>
       /\ sock[acceptor.conn] \in {"open", "cut"}
       /\ worker[acceptor.conn] = IF acceptor.pc \in {"start", "untrack"} THEN "created" ELSE "none"

(* What a worker thread that has not returned says about its connection.   *)
WorkerInv ==
  \A c \in Conns :
    /\ worker[c] = "created" => acceptor.conn = c
    /\ worker[c] \in {"created", "serving", "draining", "returned"} => c \in active \cap workers
    /\ worker[c] \in {"created", "serving", "draining", "returned", "untracked"} =>
         sock[c] \in {"open", "cut"}
    /\ worker[c] # "none" => sock[c] \notin {"none", "backlog"}

(* A connection that was turned away has no worker.                        *)
Rejected(c) == rejecter.conn = c \/ \E i \in DOMAIN rejectQueue : rejectQueue[i] = c

RejectInv ==
  /\ \A c \in Conns : Rejected(c) =>
       worker[c] = "none" /\ acceptor.conn # c /\ sock[c] \notin {"none", "backlog"}
  /\ rejecter.pc \in {"got", "answer"} => rejecter.conn \in Conns

(* From server_close() on the accept loop has ended.                       *)
CloseInv ==
  /\ closer.pc \in {"grace", "cut", "join", "clean", "dirty"} => acceptor.pc = "stopped"
  /\ closer.pc # "open" => closing

(* TypeOK but for what the accounting bounds: the number of free slots     *)
(* from above, the count of an address from below.                         *)
AcceptorType == [pc : AcceptorState, conn : ConnOrNone]
RejecterType == [pc : {"get", "got", "answer", "empty", "stopped"}, conn : ConnOrNone]
CloserType == [pc : CloserState, todo : SUBSET Conns, joined : SUBSET Conns]

HubTypes ==
  /\ sock \in [Conns -> SockState]
  /\ active \subseteq Conns /\ workers \subseteq Conns /\ marked \subseteq Conns
  /\ slots \in Nat
  /\ perClient \in [Clients -> Int] /\ \A k \in Clients : perClient[k] <= MaxPerClient
  /\ worker \in [Conns -> WorkerState]
  /\ acceptor \in AcceptorType
  /\ rejectQueue \in Seq(Conns) /\ Len(rejectQueue) <= RejectQueueSize
  /\ rejecter \in RejecterType
  /\ janitor \in [pc : {"wait", "stopped"}, todo : SUBSET Conns]
  /\ closing \in BOOLEAN
  /\ closer \in CloserType

-----------------------------------------------------------------------------
(* Moving the accept loop, a worker or close() keeps them well typed.      *)

LEMMA AcceptorMoves ==
  ASSUME NEW from, NEW to \in AcceptorState, acceptor \in AcceptorType, AcceptorGoes(from, to)
  PROVE  /\ acceptor' \in AcceptorType
         /\ acceptor.pc = from /\ acceptor'.pc = to /\ acceptor'.conn = acceptor.conn
  BY DEF AcceptorGoes, AcceptorType

LEMMA WorkerMoves ==
  ASSUME NEW c \in Conns, NEW from, NEW to \in WorkerState, worker \in [Conns -> WorkerState],
         WorkerGoes(c, from, to)
  PROVE  /\ worker' \in [Conns -> WorkerState]
         /\ worker[c] = from /\ worker'[c] = to
         /\ \A d \in Conns \ {c} : worker'[d] = worker[d]
  BY DEF WorkerGoes

LEMMA CloserMoves ==
  ASSUME NEW from, NEW to \in CloserState, closer \in CloserType, CloserGoes(from, to)
  PROVE  /\ closer' \in CloserType
         /\ closer.pc = from /\ closer'.pc = to
         /\ closer'.todo = closer.todo /\ closer'.joined = closer.joined
  BY DEF CloserGoes, CloserType

LEMMA Appended ==
  ASSUME NEW q \in Seq(Conns), NEW c \in Conns
  PROVE  /\ Append(q, c) \in Seq(Conns) /\ Len(Append(q, c)) = Len(q) + 1
         /\ \A i \in DOMAIN Append(q, c) :
              Append(q, c)[i] = c \/ \E j \in DOMAIN q : Append(q, c)[i] = q[j]
  OBVIOUS

LEMMA Tailed ==
  ASSUME NEW q \in Seq(Conns), q # <<>>
  PROVE  /\ Tail(q) \in Seq(Conns) /\ Len(Tail(q)) = Len(q) - 1 /\ Head(q) = q[1]
         /\ 1 \in DOMAIN q /\ q[1] \in Conns
         /\ \A i \in DOMAIN Tail(q) : \E j \in DOMAIN q : Tail(q)[i] = q[j]
<1>1. \A i \in DOMAIN Tail(q) : i + 1 \in DOMAIN q /\ Tail(q)[i] = q[i + 1]
  OBVIOUS
<1> QED BY <1>1

LEMMA TypesInit == Init => HubTypes
<1> SUFFICES ASSUME Init PROVE HubTypes
  OBVIOUS
<1>1. slots \in Nat /\ perClient \in [Clients -> Int] /\ \A k \in Clients : perClient[k] <= MaxPerClient
  BY LimitsValid DEF Init
<1>2. sock \in [Conns -> SockState] /\ worker \in [Conns -> WorkerState]
  BY DEF Init, SockState, WorkerState
<1>3. acceptor \in AcceptorType /\ rejecter \in RejecterType
  BY DEF Init, AcceptorType, RejecterType, AcceptorState, ConnOrNone
<1>4. closer \in CloserType /\ janitor \in [pc : {"wait", "stopped"}, todo : SUBSET Conns]
  BY DEF Init, CloserType, CloserState
<1>5. rejectQueue \in Seq(Conns) /\ Len(rejectQueue) <= RejectQueueSize
  BY LimitsValid DEF Init
<1> QED BY <1>1, <1>2, <1>3, <1>4, <1>5 DEF Init, HubTypes

LEMMA AcceptorTypes ==
  ASSUME HubTypes, HeldInv, AcceptorStep
  PROVE  HubTypes'
<1> USE DEF HubTypes, HeldClient, connVars, limitVars, serviceVars, closeVars
<1>1. acceptor.conn = NoConn <=> acceptor.pc \in {"select", "stopped"}
  BY DEF HeldInv
<1>2. \A to \in {"reject", "count", "slot", "uncount", "track", "start", "untrack", "unslot", "stopped"} :
         to \in AcceptorState
  BY DEF AcceptorState
<1>3. acceptor.pc \notin {"select", "stopped"} =>
         acceptor.conn \in Conns /\ ClientOf[acceptor.conn] \in Clients
  BY <1>1, LimitsValid DEF AcceptorType, ConnOrNone
<1>4. ASSUME NEW c \in Conns, Accept(c) PROVE HubTypes'
  BY <1>4 DEF Accept, AcceptorType, AcceptorState, ConnOrNone, SockState
<1>5. CASE Admit
  <2>1. acceptor' \in AcceptorType
    BY <1>5, <1>2, AcceptorMoves DEF Admit
  <2> QED BY <1>5, <2>1 DEF Admit
<1>6. CASE CountClient
  <2>1. acceptor' \in AcceptorType /\ acceptor.pc = "count"
    BY <1>6, <1>2, AcceptorMoves DEF CountClient
  <2>2. PICK k \in Clients : k = ClientOf[acceptor.conn]
    BY <1>3, <2>1
  <2>3. MaxPerClient \in Int /\ perClient[k] \in Int
    BY LimitsValid
  <2>4. \/ perClient' = perClient
        \/ perClient[k] < MaxPerClient /\ perClient' = [perClient EXCEPT ![k] = @ + 1]
    BY <1>6, <2>2 DEF CountClient
  <2>5. perClient[k] < MaxPerClient => perClient[k] + 1 \in Int /\ perClient[k] + 1 <= MaxPerClient
    BY <2>3
  <2>6. perClient' \in [Clients -> Int] /\ \A m \in Clients : perClient'[m] <= MaxPerClient
    BY <2>4, <2>5
  <2> QED BY <1>6, <2>1, <2>6 DEF CountClient
<1>7. CASE TakeSlot
  <2>1. acceptor' \in AcceptorType
    BY <1>7, <1>2, AcceptorMoves DEF TakeSlot
  <2> QED BY <1>7, <2>1 DEF TakeSlot
<1>8. CASE Track
  <2>1. acceptor' \in AcceptorType /\ acceptor.pc = "track"
    BY <1>8, <1>2, AcceptorMoves DEF Track
  <2> QED BY <1>8, <1>3, <2>1 DEF Track, WorkerState
<1>9. CASE Start
  <2>1. acceptor' \in AcceptorType
    BY <1>9 DEF Start, AcceptorType, AcceptorState, ConnOrNone
  <2> QED BY <1>9, <1>3, <2>1 DEF Start, WorkerState
<1>10. CASE StartFails
  <2>1. acceptor' \in AcceptorType
    BY <1>10, <1>2, AcceptorMoves DEF StartFails
  <2> QED BY <1>10, <2>1 DEF StartFails
<1>11. CASE Untrack
  <2>1. acceptor' \in AcceptorType /\ acceptor.pc = "untrack"
    BY <1>11, <1>2, AcceptorMoves DEF Untrack
  <2> QED BY <1>11, <1>3, <2>1 DEF Untrack, WorkerState
<1>12. CASE Unslot
  <2>1. acceptor' \in AcceptorType
    BY <1>12, <1>2, AcceptorMoves DEF Unslot
  <2> QED BY <1>12, <2>1 DEF Unslot
<1>13. CASE Uncount
  <2>1. acceptor' \in AcceptorType /\ acceptor.pc = "uncount"
    BY <1>13, <1>2, AcceptorMoves DEF Uncount
  <2> QED BY <1>13, <1>3, <2>1, LimitsValid DEF Uncount
<1>14. CASE Reject
  <2>1. acceptor' \in AcceptorType /\ acceptor.pc = "reject"
    BY <1>14 DEF Reject, AcceptorType, AcceptorState, ConnOrNone
  <2>2. acceptor.conn \in Conns
    BY <1>3, <2>1
  <2>3. CASE Len(rejectQueue) < RejectQueueSize /\ rejectQueue' = Append(rejectQueue, acceptor.conn)
             /\ UNCHANGED sock
    <3>1. rejectQueue' \in Seq(Conns) /\ Len(rejectQueue') = Len(rejectQueue) + 1
      BY <2>2, <2>3, Appended
    <3>2. Len(rejectQueue') <= RejectQueueSize
      BY <2>3, <3>1, LimitsValid
    <3> QED BY <1>14, <2>1, <2>3, <3>1, <3>2 DEF Reject
  <2>4. CASE sock' = [sock EXCEPT ![acceptor.conn] = "closed"] /\ UNCHANGED rejectQueue
    <3>1. sock' \in [Conns -> SockState]
      BY <2>4 DEF SockState
    <3> QED BY <1>14, <2>1, <2>4, <3>1 DEF Reject
  <2> QED BY <1>14, <2>3, <2>4 DEF Reject
<1>15. CASE StopServing
  <2>1. acceptor' \in AcceptorType
    BY <1>15, <1>2, AcceptorMoves DEF StopServing
  <2> QED BY <1>15, <2>1 DEF StopServing
<1> QED BY <1>4, <1>5, <1>6, <1>7, <1>8, <1>9, <1>10, <1>11, <1>12, <1>13, <1>14, <1>15
        DEF AcceptorStep

LEMMA WorkerTypes ==
  ASSUME HubTypes, NEW c \in Conns, Connect(c) \/ WorkerStep(c)
  PROVE  HubTypes'
<1> USE DEF HubTypes, connVars, limitVars, serviceVars, closeVars
<1>1. \A to \in {"returned", "draining", "untracked", "shut", "unslotted", "done"} : to \in WorkerState
  BY DEF WorkerState
<1>2. CASE Connect(c)
  BY <1>2 DEF Connect, SockState
<1>3. CASE Serve(c)
  <2>1. worker' \in [Conns -> WorkerState]
    BY <1>3, <1>1, WorkerMoves DEF Serve
  <2> QED BY <1>3, <2>1 DEF Serve
<1>4. CASE Drain(c)
  <2>1. worker' \in [Conns -> WorkerState]
    BY <1>4, <1>1, WorkerMoves DEF Drain
  <2> QED BY <1>4, <2>1 DEF Drain
<1>5. CASE ForgetWorker(c)
  <2>1. worker' \in [Conns -> WorkerState]
    BY <1>5, <1>1, WorkerMoves DEF ForgetWorker
  <2> QED BY <1>5, <2>1 DEF ForgetWorker
<1>6. CASE ShutRequest(c)
  <2>1. worker' \in [Conns -> WorkerState] /\ sock' \in [Conns -> SockState]
    BY <1>6, <1>1, WorkerMoves DEF ShutRequest, SockState
  <2> QED BY <1>6, <2>1 DEF ShutRequest
<1>7. CASE ReleaseSlot(c)
  <2>1. worker' \in [Conns -> WorkerState] /\ slots' \in Nat
    BY <1>7, <1>1, WorkerMoves DEF ReleaseSlot
  <2> QED BY <1>7, <2>1 DEF ReleaseSlot
<1>8. CASE ReleaseClient(c)
  <2>1. worker' \in [Conns -> WorkerState]
    BY <1>8, <1>1, WorkerMoves DEF ReleaseClient
  <2>2. PICK k \in Clients : k = ClientOf[c]
    BY LimitsValid
  <2>3. perClient' = [perClient EXCEPT ![k] = @ - 1]
    BY <1>8, <2>2 DEF ReleaseClient
  <2>4. MaxPerClient \in Int
    BY LimitsValid
  <2>5. perClient' \in [Clients -> Int] /\ \A m \in Clients : perClient'[m] <= MaxPerClient
    BY <2>3, <2>4
  <2> QED BY <1>8, <2>1, <2>5 DEF ReleaseClient
<1> QED BY <1>2, <1>3, <1>4, <1>5, <1>6, <1>7, <1>8 DEF WorkerStep

LEMMA ServiceTypes ==
  ASSUME HubTypes, RejectInv, RejecterStep \/ JanitorStep
  PROVE  HubTypes'
<1> USE DEF HubTypes, connVars, limitVars, serviceVars, closeVars, RejecterType
<1>1. CASE RejecterGet
  <2>1. CASE rejectQueue # <<>> /\ rejecter' = [pc |-> "got", conn |-> Head(rejectQueue)]
             /\ rejectQueue' = Tail(rejectQueue)
    <3>1. /\ rejectQueue' \in Seq(Conns) /\ Len(rejectQueue') = Len(rejectQueue) - 1
          /\ Head(rejectQueue) \in Conns
      BY <2>1, Tailed
    <3>2. Len(rejectQueue') <= RejectQueueSize
      BY <3>1, LimitsValid
    <3>3. rejecter' \in RejecterType
      BY <2>1, <3>1 DEF ConnOrNone
    <3> QED BY <1>1, <3>1, <3>2, <3>3 DEF RejecterGet
  <2>2. CASE rejecter' = [pc |-> "empty", conn |-> NoConn] /\ UNCHANGED rejectQueue
    BY <1>1, <2>2 DEF RejecterGet, ConnOrNone
  <2> QED BY <1>1, <2>1, <2>2 DEF RejecterGet
<1>2. CASE RejecterEmpty
  BY <1>2 DEF RejecterEmpty, ConnOrNone
<1>3. ASSUME CloseRejected, rejecter.conn \in Conns
      PROVE  rejecter' \in RejecterType /\ sock' \in [Conns -> SockState]
  BY <1>3 DEF CloseRejected, ConnOrNone, SockState
<1>4. CASE RejecterGot
  <2>1. rejecter' \in RejecterType /\ sock' \in [Conns -> SockState]
    BY <1>3, <1>4 DEF RejecterGot, RejectInv
  <2> QED BY <1>4, <2>1 DEF RejecterGot
<1>5. CASE FinishReject
  <2>1. rejecter' \in RejecterType /\ sock' \in [Conns -> SockState]
    BY <1>3, <1>5 DEF FinishReject, RejectInv
  <2> QED BY <1>5, <2>1 DEF FinishReject
<1>6. CASE JanitorScan
  BY <1>6 DEF JanitorScan
<1>7. CASE JanitorStop
  BY <1>7 DEF JanitorStop
<1>8. ASSUME NEW c \in Conns, JanitorCut(c) PROVE HubTypes'
  BY <1>8 DEF JanitorCut, CutSocket, SockState
<1> QED BY <1>1, <1>2, <1>4, <1>5, <1>6, <1>7, <1>8 DEF RejecterStep, JanitorStep

LEMMA CloserTypes ==
  ASSUME HubTypes, CloseBegin \/ CloserStep
  PROVE  HubTypes'
<1> USE DEF HubTypes, connVars, limitVars, serviceVars, closeVars
<1>1. \A to \in {"closing", "shutdown", "grace", "clean", "dirty"} : to \in CloserState
  BY DEF CloserState
<1>2. CASE CloseBegin
  <2>1. closer' \in CloserType
    BY <1>2, <1>1, CloserMoves DEF CloseBegin
  <2> QED BY <1>2, <2>1 DEF CloseBegin
<1>3. CASE CloseShutdown
  <2>1. closer' \in CloserType
    BY <1>3, <1>1, CloserMoves DEF CloseShutdown
  <2> QED BY <1>3, <2>1 DEF CloseShutdown
<1>4. CASE CloseListener
  <2>1. closer' \in CloserType
    BY <1>4, <1>1, CloserMoves DEF CloseListener
  <2>2. sock' \in [Conns -> SockState]
    BY <1>4 DEF CloseListener, SockState
  <2> QED BY <1>4, <2>1, <2>2 DEF CloseListener
<1>5. CASE CloseList
  BY <1>5 DEF CloseList, CloserType, CloserState
<1>6. CASE CloseJoin
  BY <1>6 DEF CloseJoin, CloserType, CloserState
<1>7. CASE CloseReport
  <2>1. closer' \in CloserType
    BY <1>7, <1>1, CloserMoves DEF CloseReport
  <2> QED BY <1>7, <2>1 DEF CloseReport
<1>8. ASSUME NEW c \in Conns, CloseCut(c) PROVE HubTypes'
  BY <1>8 DEF CloseCut, CutSocket, SockState, CloserType, CloserState
<1> QED BY <1>2, <1>3, <1>4, <1>5, <1>6, <1>7, <1>8 DEF CloserStep

-----------------------------------------------------------------------------
(* Whose connection it is: HeldInv, WorkerInv, RejectInv and CloseInv.     *)

SharedInv == HeldInv /\ WorkerInv /\ RejectInv /\ CloseInv

LEMMA SharedInit == Init => SharedInv
  BY LimitsValid DEF Init, SharedInv, HeldInv, WorkerInv, RejectInv, Rejected, CloseInv

LEMMA AcceptorShared ==
  ASSUME HubTypes, SharedInv, AcceptorStep
  PROVE  SharedInv'
<1> USE LimitsValid
    DEF HubTypes, SharedInv, HeldInv, WorkerInv, RejectInv, Rejected, CloseInv, HeldClient, AcceptorGoes,
        AcceptorType, ConnOrNone, connVars, limitVars, serviceVars, closeVars
<1>1. ASSUME NEW c \in Conns, Accept(c) PROVE SharedInv'
  BY <1>1 DEF Accept
<1>2. CASE Admit
  BY <1>2 DEF Admit
<1>3. CASE CountClient
  BY <1>3 DEF CountClient
<1>4. CASE TakeSlot
  BY <1>4 DEF TakeSlot
<1>5. CASE Track
  BY <1>5 DEF Track
<1>6. CASE Start
  BY <1>6 DEF Start
<1>7. CASE StartFails
  BY <1>7 DEF StartFails
<1>8. CASE Untrack
  BY <1>8 DEF Untrack
<1>9. CASE Unslot
  BY <1>9 DEF Unslot
<1>10. CASE Uncount
  BY <1>10 DEF Uncount
<1>11. CASE Reject
  <2>1. acceptor.conn \in Conns /\ worker[acceptor.conn] = "none" /\ sock[acceptor.conn] \in {"open", "cut"}
    BY <1>11 DEF Reject
  <2>2. CASE rejectQueue' = Append(rejectQueue, acceptor.conn) /\ UNCHANGED sock
    <3>1. \A c \in Conns : Rejected(c)' => Rejected(c) \/ c = acceptor.conn
      BY <1>11, <2>1, <2>2, Appended DEF Reject
    <3>2. RejectInv'
      BY <1>11, <2>1, <2>2, <3>1 DEF Reject
    <3>3. HeldInv' /\ WorkerInv' /\ CloseInv'
      BY <1>11, <2>1, <2>2 DEF Reject
    <3> QED BY <3>2, <3>3
  <2>3. CASE sock' = [sock EXCEPT ![acceptor.conn] = "closed"] /\ UNCHANGED rejectQueue
    BY <1>11, <2>1, <2>3 DEF Reject
  <2> QED BY <1>11, <2>2, <2>3 DEF Reject
<1>12. CASE StopServing
  BY <1>12 DEF StopServing
<1> QED BY <1>1, <1>2, <1>3, <1>4, <1>5, <1>6, <1>7, <1>8, <1>9, <1>10, <1>11, <1>12 DEF AcceptorStep

LEMMA WorkerShared ==
  ASSUME HubTypes, SharedInv, NEW c \in Conns, Connect(c) \/ WorkerStep(c)
  PROVE  SharedInv'
<1> USE LimitsValid
    DEF HubTypes, SharedInv, HeldInv, WorkerInv, RejectInv, Rejected, CloseInv, WorkerGoes,
        AcceptorType, ConnOrNone, connVars, limitVars, serviceVars, closeVars
<1>1. CASE Connect(c)
  BY <1>1 DEF Connect
<1>2. CASE Serve(c)
  <2>1. PICK to \in {"returned", "draining"} :
          worker[c] = "serving" /\ worker' = [worker EXCEPT ![c] = to]
    BY <1>2 DEF Serve
  <2> QED BY <1>2, <2>1 DEF Serve
<1>3. CASE Drain(c)
  BY <1>3 DEF Drain
<1>4. CASE ForgetWorker(c)
  BY <1>4 DEF ForgetWorker
<1>5. CASE ShutRequest(c)
  BY <1>5 DEF ShutRequest
<1>6. CASE ReleaseSlot(c)
  BY <1>6 DEF ReleaseSlot
<1>7. CASE ReleaseClient(c)
  BY <1>7 DEF ReleaseClient
<1> QED BY <1>1, <1>2, <1>3, <1>4, <1>5, <1>6, <1>7 DEF WorkerStep

LEMMA ServiceShared ==
  ASSUME HubTypes, SharedInv, RejecterStep \/ JanitorStep
  PROVE  SharedInv'
<1> USE LimitsValid
    DEF HubTypes, SharedInv, HeldInv, WorkerInv, RejectInv, Rejected, CloseInv, CloseRejected, CutSocket,
        AcceptorType, RejecterType, ConnOrNone, connVars, limitVars, serviceVars, closeVars
<1>1. CASE RejecterGet
  <2>1. CASE rejectQueue # <<>> /\ rejecter' = [pc |-> "got", conn |-> Head(rejectQueue)]
             /\ rejectQueue' = Tail(rejectQueue)
    <3>1. \A c \in Conns : Rejected(c)' => Rejected(c)
      BY <2>1, Tailed
    <3>2. rejecter'.conn \in Conns
      BY <2>1, Tailed
    <3> QED BY <1>1, <2>1, <3>1, <3>2 DEF RejecterGet
  <2>2. CASE rejecter' = [pc |-> "empty", conn |-> NoConn] /\ UNCHANGED rejectQueue
    BY <1>1, <2>2 DEF RejecterGet
  <2> QED BY <1>1, <2>1, <2>2 DEF RejecterGet
<1>2. CASE RejecterEmpty
  BY <1>2 DEF RejecterEmpty
<1>3. CASE RejecterGot
  BY <1>3 DEF RejecterGot
<1>4. CASE FinishReject
  BY <1>4 DEF FinishReject
<1>5. CASE JanitorScan
  BY <1>5 DEF JanitorScan
<1>6. CASE JanitorStop
  BY <1>6 DEF JanitorStop
<1>7. ASSUME NEW c \in Conns, JanitorCut(c) PROVE SharedInv'
  BY <1>7 DEF JanitorCut
<1> QED BY <1>1, <1>2, <1>3, <1>4, <1>5, <1>6, <1>7 DEF RejecterStep, JanitorStep

LEMMA CloserShared ==
  ASSUME HubTypes, SharedInv, CloseBegin \/ CloserStep
  PROVE  SharedInv'
<1> USE LimitsValid
    DEF HubTypes, SharedInv, HeldInv, WorkerInv, RejectInv, Rejected, CloseInv, CloserGoes, CutSocket,
        AcceptorType, CloserType, CloserState, ConnOrNone, connVars, limitVars, serviceVars, closeVars
<1>1. CASE CloseBegin
  BY <1>1 DEF CloseBegin
<1>2. CASE CloseShutdown
  BY <1>2 DEF CloseShutdown
<1>3. CASE CloseListener
  BY <1>3 DEF CloseListener, LoopStopped
<1>4. CASE CloseList
  BY <1>4 DEF CloseList
<1>5. CASE CloseJoin
  BY <1>5 DEF CloseJoin
<1>6. CASE CloseReport
  BY <1>6 DEF CloseReport
<1>7. ASSUME NEW c \in Conns, CloseCut(c) PROVE SharedInv'
  BY <1>7 DEF CloseCut
<1> QED BY <1>1, <1>2, <1>3, <1>4, <1>5, <1>6, <1>7 DEF CloserStep
-----------------------------------------------------------------------------
(* The accounting.  A step leaves the holders of slots alone, adds one, or *)
(* takes one away, and the number of free slots goes the other way.        *)

Holders == {c \in Conns : HoldsSlot(c)}

SlotKept == Holders' = Holders /\ slots' = slots
SlotTaken == \E c \in Conns \ Holders : Holders' = Holders \cup {c} /\ slots' = slots - 1
SlotFreed == \E c \in Holders : Holders' = Holders \ {c} /\ slots' = slots + 1

(* The same for the connections counted for an address.                    *)
CountedOf(k) == {c \in Conns : ClientOf[c] = k /\ Counted(c)}

CountKept(k) == CountedOf(k)' = CountedOf(k) /\ perClient'[k] = perClient[k]
CountTaken(k) ==
  \E c \in Conns \ CountedOf(k) : CountedOf(k)' = CountedOf(k) \cup {c} /\ perClient'[k] = perClient[k] + 1
CountFreed(k) ==
  \E c \in CountedOf(k) : CountedOf(k)' = CountedOf(k) \ {c} /\ perClient'[k] = perClient[k] - 1

LEMMA SlotsFollow ==
  ASSUME HubTypes, SlotsAccounted, SlotKept \/ SlotTaken \/ SlotFreed
  PROVE  SlotsAccounted'
<1>1. IsFiniteSet(Holders) /\ Cardinality(Holders) \in Nat
  BY LimitsValid, FS_Subset, FS_CardinalityType DEF Holders
<1>2. SlotsAccounted <=> slots + Cardinality(Holders) = MaxConnections
  BY DEF SlotsAccounted, Holders
<1>3. SlotsAccounted' <=> slots' + Cardinality(Holders') = MaxConnections
  BY DEF SlotsAccounted, Holders
<1>4. CASE SlotKept
  BY <1>2, <1>3, <1>4 DEF SlotKept
<1>5. CASE SlotTaken
  <2>1. PICK c \in Conns \ Holders : Holders' = Holders \cup {c} /\ slots' = slots - 1
    BY <1>5 DEF SlotTaken
  <2>2. Cardinality(Holders') = Cardinality(Holders) + 1
    BY <1>1, <2>1, FS_AddElement
  <2> QED BY <1>1, <1>2, <1>3, <2>1, <2>2 DEF HubTypes
<1>6. CASE SlotFreed
  <2>1. PICK c \in Holders : Holders' = Holders \ {c} /\ slots' = slots + 1
    BY <1>6 DEF SlotFreed
  <2>2. Cardinality(Holders') = Cardinality(Holders) - 1
    BY <1>1, <2>1, FS_RemoveElement
  <2> QED BY <1>1, <1>2, <1>3, <2>1, <2>2 DEF HubTypes
<1> QED BY <1>4, <1>5, <1>6

LEMMA CountsFollow ==
  ASSUME HubTypes, ClientsAccounted, \A k \in Clients : CountKept(k) \/ CountTaken(k) \/ CountFreed(k)
  PROVE  ClientsAccounted'
<1>1. SUFFICES ASSUME NEW k \in Clients PROVE perClient'[k] = Cardinality(CountedOf(k)')
  BY DEF ClientsAccounted, CountedOf
<1>2. IsFiniteSet(CountedOf(k)) /\ Cardinality(CountedOf(k)) \in Nat
  BY LimitsValid, FS_Subset, FS_CardinalityType DEF CountedOf
<1>3. perClient[k] = Cardinality(CountedOf(k))
  BY DEF ClientsAccounted, CountedOf
<1>4. CASE CountKept(k)
  BY <1>3, <1>4 DEF CountKept
<1>5. CASE CountTaken(k)
  <2>1. PICK c \in Conns \ CountedOf(k) :
          CountedOf(k)' = CountedOf(k) \cup {c} /\ perClient'[k] = perClient[k] + 1
    BY <1>5 DEF CountTaken
  <2>2. Cardinality(CountedOf(k)') = Cardinality(CountedOf(k)) + 1
    BY <1>2, <2>1, FS_AddElement
  <2> QED BY <1>3, <2>1, <2>2
<1>6. CASE CountFreed(k)
  <2>1. PICK c \in CountedOf(k) : CountedOf(k)' = CountedOf(k) \ {c} /\ perClient'[k] = perClient[k] - 1
    BY <1>6 DEF CountFreed
  <2>2. Cardinality(CountedOf(k)') = Cardinality(CountedOf(k)) - 1
    BY <1>2, <2>1, FS_RemoveElement
  <2> QED BY <1>3, <2>1, <2>2
<1> QED BY <1>4, <1>5, <1>6

LEMMA AccountsInit == Init => SlotsAccounted /\ ClientsAccounted
<1> SUFFICES ASSUME Init PROVE SlotsAccounted /\ ClientsAccounted
  OBVIOUS
<1>1. Holders = {} /\ \A k \in Clients : CountedOf(k) = {}
  BY LimitsValid DEF Init, Holders, HoldsSlot, CountedOf, Counted
<1>2. slots + Cardinality(Holders) = MaxConnections
  BY <1>1, FS_EmptySet, LimitsValid DEF Init
<1>3. \A k \in Clients : perClient[k] = Cardinality(CountedOf(k))
  BY <1>1, FS_EmptySet DEF Init
<1> QED BY <1>2, <1>3 DEF SlotsAccounted, ClientsAccounted, Holders, CountedOf

Followed ==
  /\ SlotKept \/ SlotTaken \/ SlotFreed
  /\ \A k \in Clients : CountKept(k) \/ CountTaken(k) \/ CountFreed(k)

Kept == SlotKept /\ \A k \in Clients : CountKept(k)

(* A step of the services or of close() moves no connection in or out.     *)
LEMMA ElsewhereKept ==
  ASSUME UNCHANGED <<worker, acceptor, limitVars>>
  PROVE  Kept
  BY DEF limitVars, Kept, SlotKept, CountKept, Holders, HoldsSlot, CountedOf, Counted
(* A step that moves one connection h.                                     *)
SlotMoved(h) ==
  \/ HoldsSlot(h) /\ HoldsSlot(h)' /\ slots' = slots
  \/ ~HoldsSlot(h) /\ ~HoldsSlot(h)' /\ slots' = slots
  \/ ~HoldsSlot(h) /\ HoldsSlot(h)' /\ slots' = slots - 1
  \/ HoldsSlot(h) /\ ~HoldsSlot(h)' /\ slots' = slots + 1

CountMoved(h) ==
  \/ Counted(h) /\ Counted(h)' /\ perClient' = perClient
  \/ ~Counted(h) /\ ~Counted(h)' /\ perClient' = perClient
  \/ ~Counted(h) /\ Counted(h)' /\ perClient' = [perClient EXCEPT ![ClientOf[h]] = @ + 1]
  \/ Counted(h) /\ ~Counted(h)' /\ perClient' = [perClient EXCEPT ![ClientOf[h]] = @ - 1]

OthersStay(h) ==
  \A c \in Conns \ {h} : (HoldsSlot(c)' <=> HoldsSlot(c)) /\ (Counted(c)' <=> Counted(c))

LEMMA OneMoved ==
  ASSUME HubTypes, NEW h \in Conns, OthersStay(h), SlotMoved(h), CountMoved(h)
  PROVE  Followed
<1>1. ClientOf[h] \in Clients /\ perClient \in [Clients -> Int]
  BY LimitsValid DEF HubTypes
<1>2. SlotKept \/ SlotTaken \/ SlotFreed
  <2>1. CASE (HoldsSlot(h) <=> HoldsSlot(h)') /\ slots' = slots
    BY <2>1 DEF OthersStay, Holders, SlotKept
  <2>2. CASE ~HoldsSlot(h) /\ HoldsSlot(h)' /\ slots' = slots - 1
    <3>1. h \in Conns \ Holders /\ Holders' = Holders \cup {h}
      BY <2>2 DEF OthersStay, Holders
    <3> QED BY <2>2, <3>1 DEF SlotTaken
  <2>3. CASE HoldsSlot(h) /\ ~HoldsSlot(h)' /\ slots' = slots + 1
    <3>1. h \in Holders /\ Holders' = Holders \ {h}
      BY <2>3 DEF OthersStay, Holders
    <3> QED BY <2>3, <3>1 DEF SlotFreed
  <2> QED BY <2>1, <2>2, <2>3 DEF SlotMoved
<1>3. \A k \in Clients \ {ClientOf[h]} : CountKept(k)
  BY <1>1 DEF OthersStay, CountMoved, CountKept, CountedOf
<1>4. CountKept(ClientOf[h]) \/ CountTaken(ClientOf[h]) \/ CountFreed(ClientOf[h])
  <2> DEFINE K == CountedOf(ClientOf[h])
  <2>1. CASE (Counted(h) <=> Counted(h)') /\ perClient' = perClient
    BY <2>1 DEF OthersStay, CountedOf, CountKept
  <2>2. CASE ~Counted(h) /\ Counted(h)' /\ perClient' = [perClient EXCEPT ![ClientOf[h]] = @ + 1]
    <3>1. h \in Conns \ K /\ K' = K \cup {h}
      BY <2>2 DEF OthersStay, CountedOf
    <3>2. perClient'[ClientOf[h]] = perClient[ClientOf[h]] + 1
      BY <1>1, <2>2
    <3> QED BY <3>1, <3>2 DEF CountTaken
  <2>3. CASE Counted(h) /\ ~Counted(h)' /\ perClient' = [perClient EXCEPT ![ClientOf[h]] = @ - 1]
    <3>1. h \in K /\ K' = K \ {h}
      BY <2>3 DEF OthersStay, CountedOf
    <3>2. perClient'[ClientOf[h]] = perClient[ClientOf[h]] - 1
      BY <1>1, <2>3
    <3> QED BY <3>1, <3>2 DEF CountFreed
  <2> QED BY <2>1, <2>2, <2>3 DEF CountMoved
<1> QED BY <1>2, <1>3, <1>4 DEF Followed

(* The accept loop goes on with the connection h it holds.                 *)
LEMMA HeldMoved ==
  ASSUME NEW h \in Conns, acceptor.conn = h, acceptor'.conn = h, worker[h] = "none", worker' = worker
  PROVE  /\ OthersStay(h)
         /\ HoldsSlot(h) <=> acceptor.pc \in {"track", "unslot"}
         /\ HoldsSlot(h)' <=> acceptor'.pc \in {"track", "unslot"}
         /\ Counted(h) <=> acceptor.pc \in {"slot", "track", "unslot", "uncount"}
         /\ Counted(h)' <=> acceptor'.pc \in {"slot", "track", "unslot", "uncount"}
  BY DEF OthersStay, HoldsSlot, Counted

LEMMA AcceptorFollowed ==
  ASSUME HubTypes, SharedInv, AcceptorStep
  PROVE  Followed
<1>1. ASSUME NEW c \in Conns, Accept(c) PROVE Followed
  <2>1. acceptor.conn = NoConn /\ worker[c] = "none" /\ acceptor.pc = "select"
    BY <1>1 DEF Accept, SharedInv, HeldInv, WorkerInv
  <2>2. \A d \in Conns : d # NoConn
    BY LimitsValid
  <2>3. Kept
    BY <1>1, <2>1, <2>2
       DEF Accept, Kept, SlotKept, CountKept, Holders, CountedOf, HoldsSlot, Counted, limitVars
  <2> QED BY <2>3 DEF Kept, Followed
<1>2. CASE StopServing
  <2>1. acceptor.conn = NoConn /\ acceptor'.conn = NoConn
    BY <1>2 DEF StopServing, AcceptorGoes, SharedInv, HeldInv, HubTypes, AcceptorType
  <2>2. \A d \in Conns : d # NoConn
    BY LimitsValid
  <2>3. Kept
    BY <1>2, <2>1, <2>2
       DEF StopServing, Kept, SlotKept, CountKept, Holders, CountedOf, HoldsSlot, Counted, limitVars
  <2> QED BY <2>3 DEF Kept, Followed
<1>3. ASSUME NEW h \in Conns, h = acceptor.conn,
             \/ Admit \/ CountClient \/ TakeSlot \/ Track \/ Start \/ StartFails
             \/ Untrack \/ Unslot \/ Uncount \/ Reject
      PROVE  Followed
  <2>1. /\ acceptor \in AcceptorType /\ worker \in [Conns -> WorkerState]
        /\ worker[h] = IF acceptor.pc \in {"start", "untrack"} THEN "created" ELSE "none"
        /\ h # NoConn
    BY <1>3, LimitsValid DEF HubTypes, SharedInv, HeldInv
  <2>2. SUFFICES OthersStay(h) /\ SlotMoved(h) /\ CountMoved(h)
    BY OneMoved
  <2> USE <1>3, <2>1 DEF SlotMoved, CountMoved, AcceptorGoes, AcceptorType, HeldClient, limitVars
  <2>3. CASE Admit
    BY <2>3, HeldMoved DEF Admit
  <2>4. CASE CountClient
    BY <2>4, HeldMoved DEF CountClient
  <2>5. CASE TakeSlot
    BY <2>5, HeldMoved DEF TakeSlot
  <2>6. CASE Unslot
    BY <2>6, HeldMoved DEF Unslot
  <2>7. CASE Uncount
    BY <2>7, HeldMoved DEF Uncount
  <2>8. CASE Track
    BY <2>8 DEF Track, OthersStay, HoldsSlot, Counted
  <2>9. CASE Start
    BY <2>9 DEF Start, OthersStay, HoldsSlot, Counted
  <2>10. CASE StartFails
    BY <2>10 DEF StartFails, OthersStay, HoldsSlot, Counted
  <2>11. CASE Untrack
    BY <2>11 DEF Untrack, OthersStay, HoldsSlot, Counted
  <2>12. CASE Reject
    BY <2>12 DEF Reject, OthersStay, HoldsSlot, Counted
  <2> QED BY <2>3, <2>4, <2>5, <2>6, <2>7, <2>8, <2>9, <2>10, <2>11, <2>12
<1>4. acceptor.conn \in Conns \/ acceptor.pc \in {"select", "stopped"}
  BY DEF HubTypes, AcceptorType, ConnOrNone, SharedInv, HeldInv
<1>5. acceptor.pc \in {"select", "stopped"} => StopServing \/ \E c \in Conns : Accept(c)
  BY DEF AcceptorStep, Admit, CountClient, TakeSlot, Track, Start, StartFails, Untrack, Unslot,
         Uncount, Reject, AcceptorGoes
<1> QED BY <1>1, <1>2, <1>3, <1>4, <1>5 DEF AcceptorStep

LEMMA WorkerFollowed ==
  ASSUME HubTypes, SharedInv, NEW c \in Conns, Connect(c) \/ WorkerStep(c)
  PROVE  Followed
<1>1. /\ worker \in [Conns -> WorkerState]
      /\ worker[c] \notin {"none", "created"} => acceptor.conn # c
  BY LimitsValid DEF HubTypes, SharedInv, HeldInv
<1>2. SUFFICES OthersStay(c) /\ SlotMoved(c) /\ CountMoved(c)
  BY OneMoved
<1> USE <1>1 DEF SlotMoved, CountMoved, OthersStay, HoldsSlot, Counted, WorkerGoes, limitVars
<1>3. CASE Connect(c)
  BY <1>3 DEF Connect
<1>4. CASE Serve(c)
  BY <1>4 DEF Serve
<1>5. CASE Drain(c)
  BY <1>5 DEF Drain
<1>6. CASE ForgetWorker(c)
  BY <1>6 DEF ForgetWorker
<1>7. CASE ShutRequest(c)
  BY <1>7 DEF ShutRequest
<1>8. CASE ReleaseSlot(c)
  BY <1>8 DEF ReleaseSlot
<1>9. CASE ReleaseClient(c)
  BY <1>9 DEF ReleaseClient
<1> QED BY <1>3, <1>4, <1>5, <1>6, <1>7, <1>8, <1>9 DEF WorkerStep

LEMMA OthersKept ==
  ASSUME RejecterStep \/ JanitorStep \/ CloseBegin \/ CloserStep \/ Quiet
  PROVE  Kept
<1> USE DEF connVars, limitVars, serviceVars, closeVars
<1>1. CASE RejecterStep
  BY <1>1, ElsewhereKept DEF RejecterStep, RejecterGet, RejecterEmpty, RejecterGot, FinishReject
<1>2. CASE JanitorStep
  BY <1>2, ElsewhereKept DEF JanitorStep, JanitorScan, JanitorStop, JanitorCut
<1>3. CASE CloseBegin \/ CloserStep
  BY <1>3, ElsewhereKept
     DEF CloseBegin, CloserStep, CloseShutdown, CloseListener, CloseList, CloseJoin, CloseReport, CloseCut
<1>4. CASE Quiet
  BY <1>4, ElsewhereKept DEF Quiet, vars
<1> QED BY <1>1, <1>2, <1>3, <1>4
-----------------------------------------------------------------------------
(* One pair of hands: a connection is queued once, is not queued while the *)
(* rejecter holds it, and while its socket is open somebody has it.        *)
QueueInv ==
  /\ \A i, j \in DOMAIN rejectQueue : rejectQueue[i] = rejectQueue[j] => i = j
  /\ rejecter.pc \in {"get", "empty", "stopped"} => rejecter.conn = NoConn
  /\ \A i \in DOMAIN rejectQueue : rejectQueue[i] # rejecter.conn

Owned(c) ==
  acceptor.conn = c \/ Rejected(c) \/ worker[c] \in {"serving", "draining", "returned", "untracked"}

OwnedInv == \A c \in Conns : sock[c] \in {"open", "cut"} => Owned(c)

LEMMA AppendedOnce ==
  ASSUME NEW q \in Seq(Conns), NEW c \in Conns, \A i \in DOMAIN q : q[i] # c,
         \A i, j \in DOMAIN q : q[i] = q[j] => i = j
  PROVE  /\ \A i, j \in DOMAIN Append(q, c) : Append(q, c)[i] = Append(q, c)[j] => i = j
         /\ \E i \in DOMAIN Append(q, c) : Append(q, c)[i] = c
         /\ \A i \in DOMAIN q : i \in DOMAIN Append(q, c) /\ Append(q, c)[i] = q[i]
  OBVIOUS

LEMMA TailedOnce ==
  ASSUME NEW q \in Seq(Conns), q # <<>>, \A i, j \in DOMAIN q : q[i] = q[j] => i = j
  PROVE  /\ \A i, j \in DOMAIN Tail(q) : Tail(q)[i] = Tail(q)[j] => i = j
         /\ \A i \in DOMAIN Tail(q) : Tail(q)[i] # Head(q)
         /\ \A i \in DOMAIN q : q[i] = Head(q) \/ \E j \in DOMAIN Tail(q) : Tail(q)[j] = q[i]
<1>1. \A i \in DOMAIN Tail(q) : i + 1 \in DOMAIN q /\ Tail(q)[i] = q[i + 1] /\ i \in Nat \ {0}
  OBVIOUS
<1>2. Head(q) = q[1] /\ 1 \in DOMAIN q
  OBVIOUS
<1>3. \A i \in DOMAIN q : i # 1 => i - 1 \in DOMAIN Tail(q) /\ Tail(q)[i - 1] = q[i]
  OBVIOUS
<1> QED BY <1>1, <1>2, <1>3

LEMMA HandsInit == Init => QueueInv /\ OwnedInv
  BY DEF Init, QueueInv, OwnedInv

LEMMA AcceptorHands ==
  ASSUME HubTypes, SharedInv, QueueInv, OwnedInv, AcceptorStep
  PROVE  QueueInv' /\ OwnedInv'
<1> DEFINE q == rejectQueue
<1> USE DEF connVars, limitVars, serviceVars, closeVars
<1>1. CASE Reject
  <2>1. acceptor.conn \in Conns /\ ~Rejected(acceptor.conn) /\ worker[acceptor.conn] = "none"
        /\ sock \in [Conns -> SockState] /\ q \in Seq(Conns)
    BY <1>1 DEF Reject, HubTypes, AcceptorType, ConnOrNone, SharedInv, HeldInv, RejectInv
  <2>2. CASE rejectQueue' = Append(rejectQueue, acceptor.conn) /\ UNCHANGED sock
    <3>1. QueueInv'
      BY <1>1, <2>1, <2>2, AppendedOnce, Appended DEF Reject, QueueInv, Rejected
    <3>2. \A c \in Conns : c = acceptor.conn \/ Rejected(c) => Rejected(c)'
      BY <1>1, <2>1, <2>2, AppendedOnce DEF Reject, Rejected, QueueInv
    <3>3. OwnedInv'
      BY <1>1, <2>2, <3>2 DEF Reject, OwnedInv, Owned
    <3> QED BY <3>1, <3>3
  <2>3. CASE sock' = [sock EXCEPT ![acceptor.conn] = "closed"] /\ UNCHANGED rejectQueue
    BY <1>1, <2>1, <2>3 DEF Reject, QueueInv, OwnedInv, Owned, Rejected
  <2> QED BY <1>1, <2>2, <2>3 DEF Reject
<1>2. ASSUME NEW c \in Conns, Accept(c) PROVE QueueInv' /\ OwnedInv'
  <2>1. acceptor.conn = NoConn /\ acceptor'.conn = c /\ \A d \in Conns : d # NoConn
    BY <1>2, LimitsValid DEF Accept, SharedInv, HeldInv
  <2> QED BY <1>2, <2>1 DEF Accept, HubTypes, QueueInv, OwnedInv, Owned, Rejected
<1>3. CASE Start
  <2>1. acceptor.conn \in Conns /\ worker'[acceptor.conn] = "serving"
        /\ \A d \in Conns \ {acceptor.conn} : worker'[d] = worker[d]
    BY <1>3 DEF Start, HubTypes, AcceptorType, ConnOrNone, SharedInv, HeldInv
  <2> QED BY <1>3, <2>1 DEF Start, QueueInv, OwnedInv, Owned, Rejected
<1>4. CASE Admit \/ CountClient \/ TakeSlot \/ Track \/ StartFails \/ Untrack \/ Unslot \/ Uncount \/ StopServing
  <2>1. acceptor'.conn = acceptor.conn /\ UNCHANGED <<sock, rejectQueue, rejecter>>
    BY <1>4 DEF HubTypes, AcceptorType, Admit, CountClient, TakeSlot, Track, StartFails, Untrack, Unslot, Uncount,
                StopServing, AcceptorGoes
  <2>2. \A c \in Conns \ {acceptor.conn} : worker'[c] = worker[c]
    BY <1>4 DEF HubTypes, Admit, CountClient, TakeSlot, Track, StartFails, Untrack, Unslot, Uncount, StopServing
  <2> QED BY <2>1, <2>2 DEF QueueInv, OwnedInv, Owned, Rejected
<1> QED BY <1>1, <1>2, <1>3, <1>4 DEF AcceptorStep

LEMMA WorkerHands ==
  ASSUME HubTypes, SharedInv, QueueInv, OwnedInv, NEW c \in Conns, Connect(c) \/ WorkerStep(c)
  PROVE  QueueInv' /\ OwnedInv'
<1> USE DEF HubTypes, connVars, limitVars, serviceVars, closeVars, WorkerGoes, QueueInv, OwnedInv, Owned, Rejected
<1>1. CASE Connect(c)
  BY <1>1 DEF Connect
<1>2. CASE Serve(c)
  <2>1. PICK to \in {"returned", "draining"} : worker' = [worker EXCEPT ![c] = to]
    BY <1>2 DEF Serve
  <2> QED BY <1>2, <2>1 DEF Serve
<1>3. CASE Drain(c)
  BY <1>3 DEF Drain
<1>4. CASE ForgetWorker(c)
  BY <1>4 DEF ForgetWorker
<1>5. CASE ShutRequest(c)
  BY <1>5 DEF ShutRequest
<1>6. CASE ReleaseSlot(c)
  BY <1>6 DEF ReleaseSlot
<1>7. CASE ReleaseClient(c)
  BY <1>7 DEF ReleaseClient
<1> QED BY <1>1, <1>2, <1>3, <1>4, <1>5, <1>6, <1>7 DEF WorkerStep

LEMMA ServiceHands ==
  ASSUME HubTypes, SharedInv, QueueInv, OwnedInv, RejecterStep \/ JanitorStep
  PROVE  QueueInv' /\ OwnedInv'
<1> USE DEF connVars, limitVars, serviceVars, closeVars
<1>1. CASE RejecterGet
  <2>1. CASE rejectQueue # <<>> /\ rejecter' = [pc |-> "got", conn |-> Head(rejectQueue)]
             /\ rejectQueue' = Tail(rejectQueue)
    <3>1. rejecter.conn = NoConn
      BY <1>1 DEF RejecterGet, QueueInv
    <3>2. QueueInv'
      BY <2>1, TailedOnce DEF QueueInv, HubTypes
    <3>3. \A c \in Conns : Rejected(c) => Rejected(c)'
      <4>1. \A i \in DOMAIN rejectQueue : rejectQueue[i] = Head(rejectQueue)
                \/ \E j \in DOMAIN Tail(rejectQueue) : Tail(rejectQueue)[j] = rejectQueue[i]
        BY <2>1, TailedOnce DEF HubTypes, QueueInv
      <4>2. rejecter'.conn = Head(rejectQueue) /\ NoConn \notin Conns
        BY <2>1, LimitsValid
      <4> QED BY <2>1, <3>1, <4>1, <4>2 DEF Rejected
    <3> QED BY <1>1, <3>2, <3>3 DEF RejecterGet, OwnedInv, Owned
  <2>2. CASE rejecter' = [pc |-> "empty", conn |-> NoConn] /\ UNCHANGED rejectQueue
    BY <1>1, <2>2 DEF RejecterGet, QueueInv, OwnedInv, Owned, Rejected
  <2> QED BY <1>1, <2>1, <2>2 DEF RejecterGet
<1>2. CASE RejecterEmpty
  BY <1>2 DEF RejecterEmpty, QueueInv, OwnedInv, Owned, Rejected
<1>3. \A i \in DOMAIN rejectQueue : rejectQueue[i] # NoConn
  BY LimitsValid DEF HubTypes
<1>4. ASSUME CloseRejected, UNCHANGED <<acceptor, worker, rejectQueue>> PROVE QueueInv' /\ OwnedInv'
  BY <1>3, <1>4 DEF CloseRejected, HubTypes, QueueInv, OwnedInv, Owned, Rejected
<1>5. CASE RejecterGot
  <2>1. CASE rejecter' = [rejecter EXCEPT !.pc = "answer"] /\ UNCHANGED sock
    <3>1. rejecter'.conn = rejecter.conn /\ rejecter'.pc = "answer"
      BY <2>1 DEF HubTypes, RejecterType
    <3> QED BY <1>5, <2>1, <3>1 DEF RejecterGot, QueueInv, OwnedInv, Owned, Rejected
  <2> QED BY <1>4, <1>5, <2>1 DEF RejecterGot
<1>6. CASE FinishReject
  BY <1>4, <1>6 DEF FinishReject
<1>7. CASE JanitorScan
  BY <1>7 DEF JanitorScan, QueueInv, OwnedInv, Owned, Rejected
<1>8. CASE JanitorStop
  BY <1>8 DEF JanitorStop, QueueInv, OwnedInv, Owned, Rejected
<1>9. ASSUME NEW c \in Conns, JanitorCut(c) PROVE QueueInv' /\ OwnedInv'
  BY <1>9 DEF JanitorCut, CutSocket, HubTypes, QueueInv, OwnedInv, Owned, Rejected
<1> QED BY <1>1, <1>2, <1>5, <1>6, <1>7, <1>8, <1>9 DEF RejecterStep, JanitorStep

LEMMA CloserHands ==
  ASSUME HubTypes, SharedInv, QueueInv, OwnedInv, CloseBegin \/ CloserStep
  PROVE  QueueInv' /\ OwnedInv'
<1> USE DEF connVars, limitVars, serviceVars, closeVars, QueueInv, OwnedInv, Owned, Rejected
<1>1. CASE CloseBegin
  BY <1>1 DEF CloseBegin
<1>2. CASE CloseShutdown
  BY <1>2 DEF CloseShutdown
<1>3. CASE CloseListener
  BY <1>3 DEF CloseListener
<1>4. CASE CloseList
  BY <1>4 DEF CloseList
<1>5. CASE CloseJoin
  BY <1>5 DEF CloseJoin
<1>6. CASE CloseReport
  BY <1>6 DEF CloseReport
<1>7. ASSUME NEW c \in Conns, CloseCut(c) PROVE QueueInv' /\ OwnedInv'
  BY <1>7 DEF CloseCut, CutSocket, HubTypes
<1> QED BY <1>1, <1>2, <1>3, <1>4, <1>5, <1>6, <1>7 DEF CloserStep

LEMMA InOneHand ==
  ASSUME HubTypes, SharedInv, QueueInv, OwnedInv
  PROVE  OneHand
<1> SUFFICES ASSUME NEW c \in Conns, sock[c] \in {"open", "cut"} PROVE Hands(c) = 1
  BY DEF OneHand
<1> DEFINE A == acceptor.conn = c
           Q == \E i \in DOMAIN rejectQueue : rejectQueue[i] = c
           R == rejecter.conn = c
           W == worker[c] \in {"serving", "draining", "returned", "untracked"}
           H == {p \in {"acceptor", "queue", "rejecter", "worker"} :
                   \/ p = "acceptor" /\ A
                   \/ p = "queue" /\ Q
                   \/ p = "rejecter" /\ R
                   \/ p = "worker" /\ W}
<1>1. A \/ Q \/ R \/ W
  BY DEF OwnedInv, Owned, Rejected
<1>2. c # NoConn
  BY LimitsValid
<1>3. (A => ~Q /\ ~R /\ ~W) /\ (Q => ~R /\ ~W) /\ (R => ~W)
  BY <1>2 DEF SharedInv, HeldInv, RejectInv, Rejected, QueueInv
<1> HIDE DEF A, Q, R, W
<1>4. \E p \in {"acceptor", "queue", "rejecter", "worker"} : H = {p}
  BY <1>1, <1>3
<1>5. Cardinality(H) = 1
  BY <1>4, FS_Singleton
<1> QED BY <1>5 DEF Hands, A, Q, R, W
-----------------------------------------------------------------------------
(* What close() sees.  No worker is in creation once the loop has ended.   *)

LEMMA NoneInCreation ==
  ASSUME SharedInv, closer.pc \in {"grace", "cut", "join", "clean", "dirty"}
  PROVE  acceptor.conn = NoConn /\ \A c \in Conns : worker[c] # "created"
  BY LimitsValid DEF SharedInv, HeldInv, WorkerInv, CloseInv

LEMMA SeenStays ==
  ASSUME HubTypes, SharedInv, CloseSeesAll,
         UNCHANGED closer,
         \A c \in Conns : worker'[c] \in {"serving", "draining"} => worker[c] \in {"serving", "draining"},
         \A c \in Conns : worker'[c] \in {"serving", "draining"} /\ sock[c] = "cut" => sock'[c] = "cut",
         \A c \in Conns : worker'[c] = "created" => worker[c] = "created"
  PROVE  CloseSeesAll'
<1>1. closer'.pc = closer.pc /\ closer'.todo = closer.todo /\ closer'.joined = closer.joined
  OBVIOUS
<1>2. closer.joined \subseteq Conns
  BY DEF HubTypes, CloserType
<1>3. ASSUME closer.pc \in {"cut", "join", "clean", "dirty"}, NEW c \in Conns, worker'[c] \in {"serving", "draining"}
      PROVE  sock'[c] = "cut" \/ c \in closer.todo
  BY <1>3 DEF CloseSeesAll
<1>4. ASSUME closer.pc \in {"join", "clean", "dirty"}, NEW c \in closer.joined
      PROVE  worker'[c] # "created"
  BY <1>2, <1>4 DEF CloseSeesAll
<1> QED BY <1>1, <1>3, <1>4 DEF CloseSeesAll

LEMMA AcceptorSeen ==
  ASSUME HubTypes, SharedInv, CloseSeesAll, AcceptorStep
  PROVE  CloseSeesAll'
<1>1. acceptor.pc # "stopped"
  BY DEF AcceptorStep, Accept, Admit, CountClient, TakeSlot, Track, Start, StartFails, Untrack, Unslot,
         Uncount, Reject, StopServing, AcceptorGoes
<1>2. closer.pc \notin {"grace", "cut", "join", "clean", "dirty"}
  BY <1>1 DEF SharedInv, CloseInv
<1>3. closer' = closer
  BY DEF AcceptorStep, Accept, Admit, CountClient, TakeSlot, Track, Start, StartFails, Untrack, Unslot,
         Uncount, Reject, StopServing, closeVars
<1> QED BY <1>2, <1>3 DEF CloseSeesAll

LEMMA WorkerSeen ==
  ASSUME HubTypes, SharedInv, CloseSeesAll, NEW c \in Conns, Connect(c) \/ WorkerStep(c)
  PROVE  CloseSeesAll'
<1>1. /\ UNCHANGED closer
      /\ \A d \in Conns :
           /\ worker'[d] \in {"serving", "draining"} => worker[d] \in {"serving", "draining"}
           /\ worker'[d] = "created" => worker[d] = "created"
  BY DEF HubTypes, Connect, WorkerStep, Serve, Drain, ForgetWorker, ShutRequest, ReleaseSlot, ReleaseClient,
         WorkerGoes, closeVars
<1>2. \A d \in Conns : worker'[d] \in {"serving", "draining"} /\ sock[d] = "cut" => sock'[d] = "cut"
  BY DEF HubTypes, Connect, WorkerStep, Serve, Drain, ForgetWorker, ShutRequest, ReleaseSlot, ReleaseClient,
         WorkerGoes, connVars
<1> QED BY <1>1, <1>2, SeenStays

LEMMA ServiceSeen ==
  ASSUME HubTypes, SharedInv, CloseSeesAll, RejecterStep \/ JanitorStep
  PROVE  CloseSeesAll'
<1>1. UNCHANGED <<closer, worker>>
  BY DEF RejecterStep, RejecterGet, RejecterEmpty, RejecterGot, FinishReject,
         JanitorStep, JanitorScan, JanitorStop, JanitorCut, closeVars
<1>2. \A c \in Conns : worker[c] \in {"serving", "draining"} => c # rejecter.conn
  BY DEF SharedInv, RejectInv, Rejected
<1>3. \A c \in Conns : worker[c] \in {"serving", "draining"} /\ sock[c] = "cut" => sock'[c] = "cut"
  BY <1>2 DEF HubTypes, RejecterStep, RejecterGet, RejecterEmpty, RejecterGot, FinishReject, CloseRejected,
         JanitorStep, JanitorScan, JanitorStop, JanitorCut, CutSocket, connVars
<1> QED BY <1>1, <1>3, SeenStays

LEMMA CloserSeen ==
  ASSUME HubTypes, SharedInv, CloseSeesAll, CloseBegin \/ CloserStep
  PROVE  CloseSeesAll'
<1>1. closer.pc \in {"open", "closing", "shutdown"} /\ closer'.pc \in {"closing", "shutdown", "grace"}
        => CloseSeesAll'
  BY DEF CloseSeesAll
<1>2. CASE CloseBegin
  BY <1>1, <1>2 DEF CloseBegin, CloserGoes, HubTypes, CloserType
<1>3. CASE CloseShutdown
  BY <1>1, <1>3 DEF CloseShutdown, CloserGoes, HubTypes, CloserType
<1>4. CASE CloseListener
  BY <1>1, <1>4 DEF CloseListener, CloserGoes, HubTypes, CloserType
<1>5. CASE CloseList
  BY <1>5 DEF CloseList, CloseSeesAll, HubTypes, CloserType, SharedInv, WorkerInv
<1>6. CASE CloseJoin
  <2>1. \A c \in Conns : worker[c] # "created"
    BY <1>6, NoneInCreation DEF CloseJoin
  <2>2. closer'.pc = "join" /\ closer'.joined \subseteq Conns /\ closer'.todo = closer.todo
        /\ closer.pc = "cut" /\ UNCHANGED <<worker, sock>>
    BY <1>6 DEF CloseJoin, HubTypes, CloserType, connVars
  <2> QED BY <2>1, <2>2 DEF CloseSeesAll
<1>7. CASE CloseReport
  <2>1. closer'.pc \in {"clean", "dirty"} /\ closer'.joined = closer.joined /\ closer'.todo = closer.todo
        /\ closer.pc = "join" /\ UNCHANGED <<worker, sock>>
    BY <1>7 DEF CloseReport, CloserGoes, HubTypes, CloserType, connVars
  <2> QED BY <2>1 DEF CloseSeesAll
<1>8. ASSUME NEW c \in Conns, CloseCut(c) PROVE CloseSeesAll'
  <2>1. closer.pc = "cut" /\ closer'.pc = "cut" /\ closer'.todo = closer.todo \ {c} /\ worker' = worker
    BY <1>8 DEF CloseCut, HubTypes, CloserType
  <2>2. \A d \in Conns : worker[d] \in {"serving", "draining"} => sock[d] \in {"open", "cut"}
    BY DEF SharedInv, WorkerInv
  <2>3. sock' = [sock EXCEPT ![c] = IF @ = "open" THEN "cut" ELSE @] /\ sock \in [Conns -> SockState]
    BY <1>8 DEF CloseCut, CutSocket, HubTypes
  <2> QED BY <2>1, <2>2, <2>3 DEF CloseSeesAll
<1> QED BY <1>2, <1>3, <1>4, <1>5, <1>6, <1>7, <1>8 DEF CloserStep

-----------------------------------------------------------------------------
(* The inductive invariant, and the theorems.                              *)

HubInv ==
  /\ HubTypes /\ SharedInv
  /\ SlotsAccounted /\ ClientsAccounted
  /\ QueueInv /\ OwnedInv
  /\ CloseSeesAll

LEMMA HubInvInit == Init => HubInv
<1>1. Init => CloseSeesAll
  BY DEF Init, CloseSeesAll
<1> QED BY <1>1, TypesInit, SharedInit, AccountsInit, HandsInit DEF HubInv

LEMMA HubInvNext == HubInv /\ [Next]_vars => HubInv'
<1> SUFFICES ASSUME HubInv, [Next]_vars PROVE HubInv'
  OBVIOUS
<1> USE DEF HubInv
<1>1. ASSUME Followed PROVE SlotsAccounted' /\ ClientsAccounted'
  BY <1>1, SlotsFollow, CountsFollow DEF Followed
<1>2. ASSUME Kept PROVE SlotsAccounted' /\ ClientsAccounted'
  BY <1>1, <1>2 DEF Kept, Followed
<1>3. ASSUME NEW c \in Conns, Connect(c) \/ WorkerStep(c) PROVE HubInv'
  <2>1. HubTypes' /\ SharedInv'
    BY <1>3, WorkerTypes, WorkerShared
  <2>2. SlotsAccounted' /\ ClientsAccounted'
    BY <1>1, <1>3, WorkerFollowed
  <2>3. QueueInv' /\ OwnedInv' /\ CloseSeesAll'
    BY <1>3, WorkerHands, WorkerSeen
  <2> QED BY <2>1, <2>2, <2>3
<1>4. CASE AcceptorStep
  <2>1. HubTypes' /\ SharedInv'
    BY <1>4, AcceptorTypes, AcceptorShared DEF SharedInv
  <2>2. SlotsAccounted' /\ ClientsAccounted'
    BY <1>1, <1>4, AcceptorFollowed
  <2>3. QueueInv' /\ OwnedInv' /\ CloseSeesAll'
    BY <1>4, AcceptorHands, AcceptorSeen
  <2> QED BY <2>1, <2>2, <2>3
<1>5. CASE RejecterStep \/ JanitorStep
  <2>1. HubTypes' /\ SharedInv'
    BY <1>5, ServiceTypes, ServiceShared DEF SharedInv
  <2>2. SlotsAccounted' /\ ClientsAccounted'
    BY <1>2, <1>5, OthersKept
  <2>3. QueueInv' /\ OwnedInv' /\ CloseSeesAll'
    BY <1>5, ServiceHands, ServiceSeen
  <2> QED BY <2>1, <2>2, <2>3
<1>6. CASE CloseBegin \/ CloserStep
  <2>1. HubTypes' /\ SharedInv'
    BY <1>6, CloserTypes, CloserShared
  <2>2. SlotsAccounted' /\ ClientsAccounted'
    BY <1>2, <1>6, OthersKept
  <2>3. QueueInv' /\ OwnedInv' /\ CloseSeesAll'
    BY <1>6, CloserHands, CloserSeen
  <2> QED BY <2>1, <2>2, <2>3
<1>7. CASE UNCHANGED vars
  <2> USE <1>7 DEF vars, connVars, limitVars, serviceVars, closeVars
  <2>1. HubTypes'
    BY DEF HubTypes
  <2>2. SharedInv'
    BY DEF SharedInv, HeldInv, WorkerInv, RejectInv, Rejected, CloseInv
  <2>3. SlotsAccounted' /\ ClientsAccounted'
    BY <1>2, ElsewhereKept
  <2>4. QueueInv' /\ OwnedInv' /\ CloseSeesAll'
    BY DEF QueueInv, OwnedInv, Owned, Rejected, CloseSeesAll
  <2> QED BY <2>1, <2>2, <2>3, <2>4
<1>8. Quiet => UNCHANGED vars
  BY DEF Quiet
<1> QED BY <1>3, <1>4, <1>5, <1>6, <1>7, <1>8 DEF Next

LEMMA TypesFollow ==
  ASSUME HubInv
  PROVE  TypeOK
<1>1. Cardinality(Holders) \in Nat /\ \A k \in Clients : Cardinality(CountedOf(k)) \in Nat
  BY LimitsValid, FS_Subset, FS_CardinalityType DEF Holders, CountedOf
<1>2. slots \in 0..MaxConnections
  BY <1>1, LimitsValid DEF HubInv, HubTypes, SlotsAccounted, Holders
<1>3. perClient \in [Clients -> 0..MaxPerClient]
  <2>1. \A k \in Clients : perClient[k] = Cardinality(CountedOf(k))
    BY DEF HubInv, ClientsAccounted, CountedOf
  <2>2. MaxPerClient \in Int
    BY LimitsValid
  <2>3. \A k \in Clients : perClient[k] \in 0..MaxPerClient
    BY <1>1, <2>1, <2>2 DEF HubInv, HubTypes
  <2> QED BY <2>3 DEF HubInv, HubTypes
<1> QED BY <1>2, <1>3 DEF HubInv, HubTypes, TypeOK, AcceptorType, RejecterType, CloserType

LEMMA HubInvAlways == Spec => []HubInv
  BY HubInvInit, HubInvNext, PTL DEF Spec

(* Every variable of the hub keeps its type; in particular the semaphore   *)
(* never passes max_connections and no count of an address goes below zero *)
(* (experimental_hub.py:404-454).                                          *)
THEOREM TypeCorrect == Spec => []TypeOK
  BY HubInvAlways, TypesFollow, PTL

(* Free slots and held slots add up to max_connections, and the count of   *)
(* an address is the number of its connections in the hub, whichever way a *)
(* connection leaves it (experimental_hub.py:404-454).                     *)
THEOREM LimitsNeverDrift == Spec => []LimitsAccounted
<1>1. HubInv => LimitsAccounted
  BY DEF HubInv, LimitsAccounted
<1> QED BY <1>1, HubInvAlways, PTL

(* No two threads have one open connection, and no open connection is      *)
(* nobody's (experimental_hub.py:354-454).                                 *)
THEOREM NeverTwoHands == Spec => []OneHand
<1>1. HubInv => OneHand
  BY InOneHand DEF HubInv
<1> QED BY <1>1, HubInvAlways, PTL

(* close() cuts or has listed every connection still served, and joins no  *)
(* thread that has not started (experimental_hub.py:511-538).              *)
THEOREM CloseMissesNothing == Spec => []CloseSeesAll
<1>1. HubInv => CloseSeesAll
  BY DEF HubInv
<1> QED BY <1>1, HubInvAlways, PTL
=============================================================================
