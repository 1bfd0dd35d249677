---------------------------- MODULE HardenedHub ----------------------------
(***************************************************************************)
(* The connection life cycle of HardenedHub (experimental_hub.py): one     *)
(* accept loop that admits or turns away, one worker thread for each       *)
(* admitted connection, the rejecter that answers those turned away, the   *)
(* janitor that cuts a connection past the deadline of its request, and    *)
(* close().  Left out: what a request says (its validation is the one of   *)
(* nexus_rendezvous.py, module Rendezvous), the reaper, and the counters.  *)
(***************************************************************************)
EXTENDS Integers, Sequences, FiniteSets

CONSTANTS
  Conns,            \* the connections that clients open
  NoConn,           \* none of them
  Clients,          \* the addresses they come from
  ClientOf,         \* the address of each connection
  Allowed,          \* the addresses inside allowed_networks
  Dripping,         \* connections whose client sends a byte now and then
  MaxConnections,   \* HubLimits.max_connections
  MaxPerClient,     \* HubLimits.max_per_client
  RejectQueueSize   \* REJECT_QUEUE_SIZE

ASSUME LimitsValid ==
  /\ IsFiniteSet(Conns) /\ NoConn \notin Conns
  /\ ClientOf \in [Conns -> Clients]
  /\ Allowed \subseteq Clients
  /\ Dripping \subseteq Conns
  /\ MaxConnections \in Nat \ {0}
  /\ MaxPerClient \in 1..MaxConnections
  /\ RejectQueueSize \in Nat \ {0}

VARIABLES
  sock,        \* what became of the socket of each connection
  active,      \* _active: connections the janitor and close() can cut
  workers,     \* _workers: connections whose thread close() can join
  marked,      \* connections whose entry of _active is infinity
  slots,       \* _slots: the free slots
  perClient,   \* _per_client: admitted connections of each address
  worker,      \* where the worker of each connection stands
  acceptor,    \* the accept loop: where it stands, the connection it holds
  rejectQueue, \* _reject_queue
  rejecter,    \* the rejecter thread: where it stands, the connection it holds
  janitor,     \* the janitor: whether it runs, the connections it has to cut
  closing,     \* _closing
  closer       \* close(): where it stands, what it has listed

connVars == <<sock, active, workers, marked>>
limitVars == <<slots, perClient>>
serviceVars == <<rejectQueue, rejecter, janitor>>
closeVars == <<closing, closer>>
vars == <<connVars, limitVars, worker, acceptor, serviceVars, closeVars>>

ConnOrNone == Conns \cup {NoConn}

SockState == {"none", "backlog", "open", "cut", "closed"}
WorkerState == {"none", "created", "serving", "draining", "returned", "untracked",
                "shut", "unslotted", "done"}
AcceptorState == {"select", "admit", "count", "slot", "track", "start", "untrack",
                  "unslot", "uncount", "reject", "stopped"}
CloserState == {"open", "closing", "shutdown", "grace", "cut", "join", "clean", "dirty"}

TypeOK ==
  /\ sock \in [Conns -> SockState]
  /\ active \subseteq Conns /\ workers \subseteq Conns
  /\ marked \subseteq Conns
  /\ slots \in 0..MaxConnections
  /\ perClient \in [Clients -> 0..MaxPerClient]
  /\ worker \in [Conns -> WorkerState]
  /\ acceptor \in [pc : AcceptorState, conn : ConnOrNone]
  /\ rejectQueue \in Seq(Conns) /\ Len(rejectQueue) <= RejectQueueSize
  /\ rejecter \in [pc : {"get", "got", "answer", "empty", "stopped"}, conn : ConnOrNone]
  /\ janitor \in [pc : {"wait", "stopped"}, todo : SUBSET Conns]
  /\ closing \in BOOLEAN
  /\ closer \in [pc : CloserState, todo : SUBSET Conns, joined : SUBSET Conns]

Init ==
  /\ sock = [c \in Conns |-> "none"]
  /\ active = {} /\ workers = {} /\ marked = {}
  /\ slots = MaxConnections
  /\ perClient = [k \in Clients |-> 0]
  /\ worker = [c \in Conns |-> "none"]
  /\ acceptor = [pc |-> "select", conn |-> NoConn]
  /\ rejectQueue = <<>>
  /\ rejecter = [pc |-> "get", conn |-> NoConn]
  /\ janitor = [pc |-> "wait", todo |-> {}]
  /\ closing = FALSE
  /\ closer = [pc |-> "open", todo |-> {}, joined |-> {}]

----------------------------------------------------------------------------
(* Clients.                                                                *)

Listening == closer.pc \in {"open", "closing", "shutdown"}

Connect(c) ==
  /\ Listening
  /\ sock[c] = "none"
  /\ sock' = [sock EXCEPT ![c] = "backlog"]
  /\ UNCHANGED <<active, workers, marked, limitVars, worker, acceptor, serviceVars, closeVars>>

----------------------------------------------------------------------------
(* The accept loop: serve_forever and process_request.                     *)

HeldClient == ClientOf[acceptor.conn]

AcceptorGoes(from, to) ==
  /\ acceptor.pc = from
  /\ acceptor' = [acceptor EXCEPT !.pc = to]

(* serve_forever hands one connection of the backlog to process_request.   *)
Accept(c) ==
  /\ acceptor.pc = "select"
  /\ closer.pc \in {"open", "closing"}
  /\ sock[c] = "backlog"
  /\ sock' = [sock EXCEPT ![c] = "open"]
  /\ acceptor' = [pc |-> "admit", conn |-> c]
  /\ UNCHANGED <<active, workers, marked, limitVars, worker, serviceVars, closeVars>>

(* The closing flag and the allowlist are read once, on entry.             *)
Admit ==
  /\ AcceptorGoes("admit", IF closing \/ HeldClient \notin Allowed THEN "reject" ELSE "count")
  /\ UNCHANGED <<connVars, limitVars, worker, serviceVars, closeVars>>

CountClient ==
  /\ \/ /\ AcceptorGoes("count", "reject")
        /\ perClient[HeldClient] >= MaxPerClient
        /\ UNCHANGED perClient
     \/ /\ AcceptorGoes("count", "slot")
        /\ perClient[HeldClient] < MaxPerClient
        /\ perClient' = [perClient EXCEPT ![HeldClient] = @ + 1]
  /\ UNCHANGED <<connVars, slots, worker, serviceVars, closeVars>>

TakeSlot ==
  /\ \/ /\ slots = 0
        /\ AcceptorGoes("slot", "uncount")
        /\ UNCHANGED slots
     \/ /\ slots > 0
        /\ AcceptorGoes("slot", "track")
        /\ slots' = slots - 1
  /\ UNCHANGED <<connVars, perClient, worker, serviceVars, closeVars>>

Track ==
  /\ AcceptorGoes("track", "start")
  /\ active' = active \cup {acceptor.conn}
  /\ workers' = workers \cup {acceptor.conn}
  /\ worker' = [worker EXCEPT ![acceptor.conn] = "created"]
  /\ UNCHANGED <<sock, marked, limitVars, serviceVars, closeVars>>

Start ==
  /\ acceptor.pc = "start"
  /\ acceptor' = [pc |-> "select", conn |-> NoConn]
  /\ worker' = [worker EXCEPT ![acceptor.conn] = "serving"]
  /\ UNCHANGED <<connVars, limitVars, serviceVars, closeVars>>

(* The operating system has no thread to give: thread.start() raises and   *)
(* process_request takes back, step by step, what it had reserved.         *)
StartFails ==
  /\ AcceptorGoes("start", "untrack")
  /\ UNCHANGED <<connVars, limitVars, worker, serviceVars, closeVars>>

(* Mutant: the slot of a thread that did not start is not given back.      *)
UntrackKeepsSlot ==
  /\ AcceptorGoes("untrack", "uncount")
  /\ active' = active \ {acceptor.conn}
  /\ workers' = workers \ {acceptor.conn}
  /\ worker' = [worker EXCEPT ![acceptor.conn] = "none"]
  /\ UNCHANGED <<sock, marked, limitVars, serviceVars, closeVars>>

Untrack ==
  /\ AcceptorGoes("untrack", "unslot")
  /\ active' = active \ {acceptor.conn}
  /\ workers' = workers \ {acceptor.conn}
  /\ worker' = [worker EXCEPT ![acceptor.conn] = "none"]
  /\ UNCHANGED <<sock, marked, limitVars, serviceVars, closeVars>>

Unslot ==
  /\ AcceptorGoes("unslot", "uncount")
  /\ slots' = slots + 1
  /\ UNCHANGED <<connVars, perClient, worker, serviceVars, closeVars>>

Uncount ==
  /\ AcceptorGoes("uncount", "reject")
  /\ perClient' = [perClient EXCEPT ![HeldClient] = @ - 1]
  /\ UNCHANGED <<connVars, slots, worker, serviceVars, closeVars>>

(* _reject never blocks the loop: a full queue closes the connection.      *)
Reject ==
  /\ acceptor.pc = "reject"
  /\ acceptor' = [pc |-> "select", conn |-> NoConn]
  /\ \/ /\ Len(rejectQueue) < RejectQueueSize
        /\ rejectQueue' = Append(rejectQueue, acceptor.conn)
        /\ UNCHANGED sock
     \/ /\ Len(rejectQueue) >= RejectQueueSize
        /\ sock' = [sock EXCEPT ![acceptor.conn] = "closed"]
        /\ UNCHANGED rejectQueue
  /\ UNCHANGED <<active, workers, marked, limitVars, worker, rejecter, janitor, closeVars>>

(* shutdown() has asked the loop to stop; it looks between two requests.   *)
StopServing ==
  /\ closer.pc = "shutdown"
  /\ AcceptorGoes("select", "stopped")
  /\ UNCHANGED <<connVars, limitVars, worker, serviceVars, closeVars>>

AcceptorStep ==
  \/ \E c \in Conns : Accept(c)
  \/ Admit \/ CountClient \/ TakeSlot \/ Track \/ Start \/ StartFails
  \/ Untrack \/ Unslot \/ Uncount \/ Reject \/ StopServing

----------------------------------------------------------------------------
(* A worker: _worker around finish_request.                                *)

WorkerGoes(c, from, to) ==
  /\ worker[c] = from
  /\ worker' = [worker EXCEPT ![c] = to]

(* The handler reads, answers and returns; it has its answer, or its       *)
(* socket times out, unless the client keeps sending a little.  A request  *)
(* whose body was not read is drained first, but not while closing.        *)
Serve(c) ==
  /\ c \in Dripping => sock[c] = "cut"
  /\ \/ WorkerGoes(c, "serving", "returned")
     \/ ~closing /\ WorkerGoes(c, "serving", "draining")
  /\ UNCHANGED <<connVars, limitVars, acceptor, serviceVars, closeVars>>

Drain(c) ==
  /\ WorkerGoes(c, "draining", "returned")
  /\ UNCHANGED <<connVars, limitVars, acceptor, serviceVars, closeVars>>

ForgetWorker(c) ==
  /\ WorkerGoes(c, "returned", "untracked")
  /\ active' = active \ {c}
  /\ workers' = workers \ {c}
  /\ UNCHANGED <<sock, marked, limitVars, acceptor, serviceVars, closeVars>>

ShutRequest(c) ==
  /\ WorkerGoes(c, "untracked", "shut")
  /\ sock' = [sock EXCEPT ![c] = "closed"]
  /\ UNCHANGED <<active, workers, marked, limitVars, acceptor, serviceVars, closeVars>>

ReleaseSlot(c) ==
  /\ WorkerGoes(c, "shut", "unslotted")
  /\ slots' = slots + 1
  /\ UNCHANGED <<connVars, perClient, acceptor, serviceVars, closeVars>>

ReleaseClient(c) ==
  /\ WorkerGoes(c, "unslotted", "done")
  /\ perClient' = [perClient EXCEPT ![ClientOf[c]] = @ - 1]
  /\ UNCHANGED <<connVars, slots, acceptor, serviceVars, closeVars>>

WorkerStep(c) ==
  Serve(c) \/ Drain(c) \/ ForgetWorker(c) \/ ShutRequest(c) \/ ReleaseSlot(c) \/ ReleaseClient(c)

----------------------------------------------------------------------------
(* The rejecter and the janitor.                                           *)

RejecterGet ==
  /\ rejecter.pc = "get"
  /\ \/ /\ rejectQueue # <<>>
        /\ rejecter' = [pc |-> "got", conn |-> Head(rejectQueue)]
        /\ rejectQueue' = Tail(rejectQueue)
     \/ /\ rejectQueue = <<>>
        /\ rejecter' = [pc |-> "empty", conn |-> NoConn]
        /\ UNCHANGED rejectQueue
  /\ UNCHANGED <<connVars, limitVars, worker, acceptor, janitor, closeVars>>

(* queue.Empty was raised; only now is the closing flag read.              *)
RejecterEmpty ==
  /\ rejecter.pc = "empty"
  /\ rejecter' = [pc |-> IF closing THEN "stopped" ELSE "get", conn |-> NoConn]
  /\ UNCHANGED <<connVars, limitVars, worker, acceptor, rejectQueue, janitor, closeVars>>

(* Mutant: the rejecter leaves the socket to the garbage collector.        *)
CloseRejectedNever ==
  /\ rejecter' = [pc |-> "get", conn |-> NoConn]
  /\ UNCHANGED sock

CloseRejected ==
  /\ rejecter' = [pc |-> "get", conn |-> NoConn]
  /\ sock' = [sock EXCEPT ![rejecter.conn] = "closed"]

RejecterGot ==
  /\ rejecter.pc = "got"
  /\ \/ closing /\ CloseRejected
     \/ /\ ~closing
        /\ rejecter' = [rejecter EXCEPT !.pc = "answer"]
        /\ UNCHANGED sock
  /\ UNCHANGED <<active, workers, marked, limitVars, worker, acceptor, rejectQueue, janitor, closeVars>>

FinishReject ==
  /\ rejecter.pc = "answer"
  /\ CloseRejected
  /\ UNCHANGED <<active, workers, marked, limitVars, worker, acceptor, rejectQueue, janitor, closeVars>>

RejecterStep == RejecterGet \/ RejecterEmpty \/ RejecterGot \/ FinishReject

(* Mutant: the entry is marked before its socket is put on the list.       *)
JanitorScanMarksFirst ==
  /\ janitor = [pc |-> "wait", todo |-> {}]
  /\ ~closing
  /\ active \ marked # {}
  /\ marked' = marked \cup active
  /\ UNCHANGED <<sock, active, workers, limitVars, worker, acceptor, serviceVars, closeVars>>

(* Time is not modelled: a scan may find any connection past its deadline. *)
JanitorScan ==
  /\ janitor = [pc |-> "wait", todo |-> {}]
  /\ ~closing
  /\ \E overdue \in SUBSET (active \ marked) \ {{}} :
       /\ marked' = marked \cup overdue
       /\ janitor' = [janitor EXCEPT !.todo = overdue]
  /\ UNCHANGED <<sock, active, workers, limitVars, worker, acceptor, rejectQueue, rejecter, closeVars>>

CutSocket(c) == sock' = [sock EXCEPT ![c] = IF @ = "open" THEN "cut" ELSE @]

JanitorCut(c) ==
  /\ c \in janitor.todo
  /\ janitor' = [janitor EXCEPT !.todo = @ \ {c}]
  /\ CutSocket(c)
  /\ UNCHANGED <<active, workers, marked, limitVars, worker, acceptor, rejectQueue, rejecter, closeVars>>

JanitorStop ==
  /\ closing
  /\ janitor = [pc |-> "wait", todo |-> {}]
  /\ janitor' = [janitor EXCEPT !.pc = "stopped"]
  /\ UNCHANGED <<connVars, limitVars, worker, acceptor, rejectQueue, rejecter, closeVars>>

JanitorStep == JanitorScan \/ JanitorStop \/ \E c \in Conns : JanitorCut(c)

----------------------------------------------------------------------------
(* close().                                                                *)

CloserGoes(from, to) ==
  /\ closer.pc = from
  /\ closer' = [closer EXCEPT !.pc = to]

CloseBegin ==
  /\ CloserGoes("open", "closing")
  /\ closing' = TRUE
  /\ UNCHANGED <<connVars, limitVars, worker, acceptor, serviceVars>>

CloseShutdown ==
  /\ CloserGoes("closing", "shutdown")
  /\ UNCHANGED <<connVars, limitVars, worker, acceptor, serviceVars, closing>>

(* Mutant: close() goes on while the loop may be admitting a connection.   *)
LoopNotAwaited == TRUE

LoopStopped == acceptor.pc = "stopped"

(* shutdown() returns when the loop has ended; server_close() then closes  *)
(* the listener and the operating system drops the backlog.                *)
CloseListener ==
  /\ CloserGoes("shutdown", "grace")
  /\ LoopStopped
  /\ sock' = [c \in Conns |-> IF sock[c] = "backlog" THEN "closed" ELSE sock[c]]
  /\ UNCHANGED <<active, workers, marked, limitVars, worker, acceptor, serviceVars, closing>>

(* The wait for requests in flight ends early or at the soft deadline.     *)
CloseList ==
  /\ closer.pc = "grace"
  /\ closer' = [closer EXCEPT !.pc = "cut", !.todo = active]
  /\ UNCHANGED <<connVars, limitVars, worker, acceptor, serviceVars, closing>>

CloseCut(c) ==
  /\ closer.pc = "cut"
  /\ c \in closer.todo
  /\ closer' = [closer EXCEPT !.todo = @ \ {c}]
  /\ CutSocket(c)
  /\ UNCHANGED <<active, workers, marked, limitVars, worker, acceptor, serviceVars, closing>>

CloseJoin ==
  /\ closer.pc = "cut" /\ closer.todo = {}
  /\ closer' = [closer EXCEPT !.pc = "join", !.joined = workers]
  /\ UNCHANGED <<connVars, limitVars, worker, acceptor, serviceVars, closing>>

Alive(c) == worker[c] \notin {"none", "created", "done"}

ServicesStopped ==
  acceptor.pc = "stopped" /\ janitor.pc = "stopped" /\ rejecter.pc = "stopped"

(* The joins end when every thread has, or at the hard deadline.           *)
CloseReport ==
  /\ CloserGoes("join", IF ServicesStopped /\ \A c \in closer.joined : ~Alive(c)
                        THEN "clean" ELSE "dirty")
  /\ UNCHANGED <<connVars, limitVars, worker, acceptor, serviceVars, closing>>

CloserStep ==
  CloseShutdown \/ CloseListener \/ CloseList \/ CloseJoin \/ CloseReport
    \/ \E c \in Conns : CloseCut(c)

----------------------------------------------------------------------------
Reported == closer.pc \in {"clean", "dirty"}

(* Every thread of the hub has ended: nothing is left to happen.           *)
Quiet ==
  /\ Reported /\ ServicesStopped
  /\ \A c \in Conns : ~Alive(c)
  /\ UNCHANGED vars

Next ==
  \/ \E c \in Conns : Connect(c) \/ WorkerStep(c)
  \/ AcceptorStep \/ RejecterStep \/ JanitorStep
  \/ CloseBegin \/ CloserStep
  \/ Quiet

Spec == Init /\ [][Next]_vars

(* Threads that can run do run; a scan of the janitor is one of them, for  *)
(* the deadline of a connection that stays does pass.  Nothing makes a     *)
(* client connect, a dripping one finish, or the owner close the hub.      *)
Fairness ==
  /\ WF_vars(AcceptorStep) /\ WF_vars(RejecterStep) /\ WF_vars(JanitorStep) /\ WF_vars(CloserStep)
  /\ \A c \in Conns : WF_vars(WorkerStep(c))

FairSpec == Spec /\ Fairness

----------------------------------------------------------------------------
(* The connections that hold a slot, and those counted for their address.  *)
HoldsSlot(c) ==
  \/ worker[c] \in {"created", "serving", "draining", "returned", "untracked", "shut"}
  \/ acceptor.conn = c /\ acceptor.pc \in {"track", "unslot"}

Counted(c) ==
  \/ worker[c] \in {"created", "serving", "draining", "returned", "untracked", "shut", "unslotted"}
  \/ acceptor.conn = c /\ acceptor.pc \in {"slot", "track", "unslot", "uncount"}

(* A slot is free or held by exactly one connection, through every path    *)
(* that gives it back (the end of a worker, a thread that did not start):  *)
(* the semaphore never drifts, and never more than max_connections are     *)
(* served (experimental_hub.py:411-454).                                   *)
SlotsAccounted ==
  slots + Cardinality({c \in Conns : HoldsSlot(c)}) = MaxConnections

(* The count of an address is the number of its connections in the hub,    *)
(* turned away ones included until they are given back: no address is shut *)
(* out for ever by connections that ended (experimental_hub.py:404-438).   *)
ClientsAccounted ==
  \A k \in Clients : perClient[k] = Cardinality({c \in Conns : ClientOf[c] = k /\ Counted(c)})

(* Once close() has listed what remains, every connection still served is  *)
(* cut, or on that list: none slipped in behind it, and no thread it joins *)
(* is one not started (experimental_hub.py:511-538).                       *)
CloseSeesAll ==
  /\ closer.pc \in {"cut", "join", "clean", "dirty"} =>
       \A c \in Conns : worker[c] \in {"serving", "draining"} =>
          sock[c] = "cut" \/ c \in closer.todo
  /\ closer.pc \in {"join", "clean", "dirty"} =>
       \A c \in closer.joined : worker[c] # "created"

(* A connection is in one pair of hands: the accept loop, the reject queue,*)
(* the rejecter, or its worker, and never in two of them.                  *)
Hands(c) ==
  Cardinality({p \in {"acceptor", "queue", "rejecter", "worker"} :
     \/ p = "acceptor" /\ acceptor.conn = c
     \/ p = "queue" /\ \E i \in DOMAIN rejectQueue : rejectQueue[i] = c
     \/ p = "rejecter" /\ rejecter.conn = c
     \/ p = "worker" /\ worker[c] \in {"serving", "draining", "returned", "untracked"}})

(* Every accepted connection whose socket is open is somebody's, and       *)
(* exactly one's, so that nobody answers one another thread has closed     *)
(* (experimental_hub.py:354-454).                                          *)
OneHand ==
  \A c \in Conns : sock[c] \in {"open", "cut"} => Hands(c) = 1

(* A connection a worker took is closed and its slot and its count come    *)
(* back, however slowly its client sends: the janitor, or close(), cuts it *)
(* (experimental_hub.py:440-474).  Connections are finitely many, so in    *)
(* the end no worker is left.                                              *)
EveryWorkerEnds == <>[](\A c \in Conns : ~Alive(c))

(* close() ends and reports, whatever its clients do.                      *)
CloseEnds == closing ~> Reported

(* Connections turned away are closed, as long as the rejecter runs.       *)
EveryRejectEnds == <>[](rejectQueue = <<>> \/ rejecter.pc = "stopped")

(* The two limits of the hub do not drift, on any of the paths that give   *)
(* back what was reserved (experimental_hub.py:404-454).                   *)
LimitsAccounted == SlotsAccounted /\ ClientsAccounted

(* Every worker, every rejection and close() itself come to an end.        *)
EverythingEnds == EveryWorkerEnds /\ EveryRejectEnds /\ CloseEnds
=============================================================================
