------------------------------ MODULE Leadership ------------------------------
(***************************************************************************)
(* The MASTER role: the polling loops of the nodes around the rendezvous   *)
(* hub (nexus_distributed_core.py async_polling_loop,                      *)
(* reconcile_master_role, probe_master_liveness, handle_master_probe).     *)
(*                                                                         *)
(* Covered: registration, the two heartbeats of a cycle, the fetch of the  *)
(* peers, reconciliation, the probe, staleness, candidate, cluster mode    *)
(* and quorum of a promotion; lost, unanswered and late requests, lost     *)
(* probes, restarts of the hub, crashes and restarts of nodes.             *)
(*                                                                         *)
(* Abstracted: time is counted in ticks of some fixed length; the MASTER   *)
(* that is probed is any of those listed, not the first one; signatures    *)
(* and replay caches are not part of it.  A registration that is handled   *)
(* late is taken for an unanswered one, and a late heartbeat is accepted   *)
(* however late it is, although the code refuses it after some time.       *)
(***************************************************************************)
EXTENDS Rendezvous, FiniteSets

CONSTANTS
  StaleAfter,   \* the 15 seconds without a MASTER, in ticks
  MinCycle,     \* the five seconds that a polling loop sleeps, in ticks
  MaxCycle,     \* bound: that and the requests of a cycle, in ticks
  Majority,     \* majority of the cluster, 0 for None
  SingleMode,   \* is the cluster mode "single"?
  StartRole,    \* the role argument each process is started with
  MaxFaults,    \* bound: disturbances, of the network or of processes
  NoPost        \* no request waits at the hub

ASSUME LeadershipAssumption ==
  /\ StaleAfter \in Nat /\ Majority \in Nat
  /\ MinCycle \in Nat \ {0} /\ MaxCycle \in Nat /\ MinCycle <= MaxCycle
  /\ MaxFaults \in Nat
  /\ SingleMode \in BOOLEAN
  /\ StartRole \in [Node -> Role]
  /\ NoPost \notin Role

VARIABLES
  role,     \* the role of each node
  pc,       \* where its polling loop is
  elapsed,  \* ticks since current_time was taken
  missing,  \* current_time - last_master_heartbeat, in ticks
  view,     \* raw_peers
  late,     \* the role in a heartbeat that the hub has yet to handle
  losses,   \* messages lost or late so far
  crashes   \* crashes of nodes and restarts of the hub so far

nodeVars == <<role, pc, elapsed, missing, view>>
faultVars == <<late, losses, crashes>>
vars == <<hubVars, nodeVars, faultVars>>

PC == {"down", "register", "retry", "asleep", "fetch", "confirm", "decide"}

NoPeers == [n \in {} |-> "FOLLOWER"]

Up(n) == pc[n] # "down"
Capped(t) == IF t > StaleAfter THEN StaleAfter + 1 ELSE t

TypeOK ==
  /\ HubTypeOK
  /\ role \in [Node -> Role]
  /\ pc \in [Node -> PC]
  /\ elapsed \in [Node -> 0 .. MaxCycle]
  /\ missing \in [Node -> 0 .. StaleAfter + 1]
  /\ view \in [Node -> UNION {[S -> Role] : S \in SUBSET Node}]
  /\ late \in [Node -> Role \cup {NoPost}]
  /\ losses \in 0 .. MaxFaults
  /\ crashes \in 0 .. MaxFaults

Init ==
  /\ HubInit
  /\ role = StartRole
  /\ pc = [n \in Node |-> "register"]
  /\ elapsed = [n \in Node |-> 0]
  /\ missing = [n \in Node |-> 0]
  /\ view = [n \in Node |-> NoPeers]
  /\ late = [n \in Node |-> NoPost]
  /\ losses = 0
  /\ crashes = 0

-----------------------------------------------------------------------------
Goto(n, here, there) ==
  /\ pc[n] = here
  /\ pc' = [pc EXCEPT ![n] = there]

Lose == losses + crashes < MaxFaults /\ losses' = losses + 1
Die == losses + crashes < MaxFaults /\ crashes' = crashes + 1

(* post_envelope: "answered" says whether the node sees status 200.  The   *)
(* hub handles the request or refuses it; a request may be lost, its       *)
(* answer may be lost, or the node may give up before the hub handles it.  *)
Post(n, answered, Handle, refuses) ==
  \/ /\ answered
     /\ Handle
     /\ UNCHANGED <<late, losses>>
  \/ /\ ~answered
     /\ refuses
     /\ UNCHANGED <<hubVars, late, losses>>
  \/ /\ ~answered
     /\ Handle
     /\ Lose
     /\ UNCHANGED late
  \/ /\ ~answered
     /\ Lose
     /\ UNCHANGED <<hubVars, late>>

PostHeartbeat(n, answered) ==
  \/ Post(n, answered, Heartbeat(n, role[n]), ~Registered(n))
  \/ /\ ~answered
     /\ late[n] = NoPost
     /\ late' = [late EXCEPT ![n] = role[n]]
     /\ Lose
     /\ UNCHANGED hubVars

(* The hub gets to a heartbeat whose sender has given up.                  *)
DeliverLate(n) ==
  /\ late[n] # NoPost
  /\ late' = [late EXCEPT ![n] = NoPost]
  /\ Heartbeat(n, late[n]) \/ (~Registered(n) /\ UNCHANGED hubVars)
  /\ UNCHANGED <<nodeVars, losses, crashes>>

-----------------------------------------------------------------------------
(* The polling loop.                                                       *)

(* The time that has passed since the last look at the clock.              *)
LookAtClock(n) ==
  /\ missing' = [missing EXCEPT ![n] = Capped(@ + elapsed[n])]
  /\ elapsed' = [elapsed EXCEPT ![n] = 0]

(* A registration that fails is tried again five seconds later.            *)
Register(n) ==
  /\ pc[n] = "retry" => elapsed[n] >= MinCycle
  /\ \E here \in {"register", "retry"} :
       \/ /\ Goto(n, here, "asleep")
          /\ Post(n, TRUE, RegisterPeer(n, role[n]), FALSE)
       \/ /\ Goto(n, here, "retry")
          /\ Post(n, FALSE, RegisterPeer(n, role[n]), FALSE)
  /\ LookAtClock(n)
  /\ UNCHANGED <<role, view, crashes>>

(* A cycle starts: current_time is taken and the hub told the role.        *)
SendHeartbeat(n) ==
  /\ elapsed[n] >= MinCycle
  /\ \/ Goto(n, "asleep", "fetch") /\ PostHeartbeat(n, TRUE)
     \/ Goto(n, "asleep", "register") /\ PostHeartbeat(n, FALSE)
  /\ LookAtClock(n)
  /\ UNCHANGED <<role, view, crashes>>

Masters(n, seen) == {m \in DOMAIN seen \ {n} : seen[m] = "MASTER"}

(* reconcile_master_role                                                   *)
Yields(n, seen) == role[n] = "MASTER" /\ \E m \in Masters(n, seen) : m > n

(* The peers are fetched and the role reconciled with them; a fetch that   *)
(* fails leaves no peers.                                                  *)
FetchPeers(n) ==
  /\ \/ view' = [view EXCEPT ![n] = ActivePeers] /\ UNCHANGED losses
     \/ view' = [view EXCEPT ![n] = NoPeers] /\ Lose
  /\ LET yields == Yields(n, view'[n]) IN
     /\ role' = IF yields THEN [role EXCEPT ![n] = "FOLLOWER"] ELSE role
     /\ Goto(n, "fetch", IF yields THEN "confirm" ELSE "decide")
  /\ UNCHANGED <<hubVars, elapsed, missing, late, crashes>>

(* A node that yielded tells the hub at once.                              *)
Confirm(n) ==
  /\ \/ /\ Goto(n, "confirm", "decide")
        /\ PostHeartbeat(n, TRUE)
        /\ UNCHANGED view
     \/ /\ Goto(n, "confirm", "register")
        /\ PostHeartbeat(n, FALSE)
        /\ view' = [view EXCEPT ![n] = NoPeers]
  /\ UNCHANGED <<role, elapsed, missing, crashes>>

(* The node misses the MASTER for too long, has the greatest id of the     *)
(* FOLLOWERs that are listed, and the nodes that are listed are a majority *)
(* (a cluster of one lists no other node).                                 *)
Promotable(n) ==
  /\ missing[n] > StaleAfter
  /\ \A m \in DOMAIN view[n] \ {n} : view[n][m] = "FOLLOWER" => m < n
  /\ LET visible == Cardinality(DOMAIN view[n] \cup {n}) IN
     /\ Majority > 0
     /\ ~(SingleMode /\ visible > 1)
     /\ visible >= Majority

(* A MASTER does no more in this cycle.                                    *)
Reign(n) ==
  /\ role[n] = "MASTER"
  /\ UNCHANGED <<role, missing, losses>>

Answers(m) == Up(m) /\ role[m] = "MASTER"

(* Mutant: a probe that is answered does not count as a sign of life.      *)
FindMasterUnnoticed(n) ==
  /\ role[n] = "FOLLOWER"
  /\ \E m \in Masters(n, view[n]) : Answers(m)
  /\ UNCHANGED <<role, missing, losses>>

(* A FOLLOWER whose probe is acknowledged by a MASTER.                     *)
FindMaster(n) ==
  /\ role[n] = "FOLLOWER"
  /\ \E m \in Masters(n, view[n]) : Answers(m)
  /\ missing' = [missing EXCEPT ![n] = 0]
  /\ UNCHANGED <<role, losses>>

(* A FOLLOWER that lists no MASTER, or probes one in vain.                 *)
MissMaster(n) ==
  /\ role[n] = "FOLLOWER"
  /\ \/ Masters(n, view[n]) = {} /\ UNCHANGED losses
     \/ \E m \in Masters(n, view[n]) : ~Answers(m) /\ UNCHANGED losses
     \/ \E m \in Masters(n, view[n]) : Answers(m) /\ Lose
  /\ role' = IF Promotable(n) THEN [role EXCEPT ![n] = "MASTER"] ELSE role
  /\ UNCHANGED missing

Decide(n) ==
  /\ Goto(n, "decide", "asleep")
  /\ Reign(n) \/ FindMaster(n) \/ MissMaster(n)
  /\ view' = [view EXCEPT ![n] = NoPeers]
  /\ UNCHANGED <<hubVars, elapsed, late, crashes>>

Poll(n) ==
  \/ Register(n) \/ SendHeartbeat(n) \/ FetchPeers(n) \/ Confirm(n) \/ Decide(n)

-----------------------------------------------------------------------------
(* The environment.                                                        *)

(* How long a node may stay where it is: every request has a time-out.     *)
Limit(n) == IF pc[n] \in {"retry", "asleep"} THEN MaxCycle ELSE MaxCycle - MinCycle

Tick ==
  /\ \A n \in Node : Up(n) => elapsed[n] < Limit(n)
  /\ \E n \in Node : Up(n)
  /\ elapsed' = [n \in Node |-> IF Up(n) THEN elapsed[n] + 1 ELSE 0]
  /\ Age
  /\ UNCHANGED <<role, pc, missing, view, faultVars>>

Crash(n) ==
  /\ Up(n)
  /\ Die
  /\ pc' = [pc EXCEPT ![n] = "down"]
  /\ role' = [role EXCEPT ![n] = StartRole[n]]
  /\ elapsed' = [elapsed EXCEPT ![n] = 0]
  /\ missing' = [missing EXCEPT ![n] = 0]
  /\ view' = [view EXCEPT ![n] = NoPeers]
  /\ UNCHANGED <<hubVars, late, losses>>

(* The process is started again with the same arguments.                   *)
Restart(n) ==
  /\ Goto(n, "down", "register")
  /\ UNCHANGED <<hubVars, role, elapsed, missing, view, faultVars>>

Hub ==
  /\ \/ ListExpired /\ UNCHANGED crashes
     \/ \E n \in Node : Reap(n) /\ UNCHANGED crashes
     \/ HubRestart /\ Die
  /\ UNCHANGED <<nodeVars, late, losses>>

Next ==
  \/ \E n \in Node : Poll(n) \/ DeliverLate(n) \/ Crash(n) \/ Restart(n)
  \/ Hub
  \/ Tick

Spec == Init /\ [][Next]_vars

(* Polling threads are scheduled and time goes on; nothing else has to     *)
(* happen: not a restart, not the reaper.                                  *)
FairSpec == Spec /\ (\A n \in Node : WF_vars(Poll(n))) /\ WF_vars(Tick)

-----------------------------------------------------------------------------
(* Properties *)

Reigning == {n \in Node : Answers(n)}

(* A MASTER that stays up stays the only one: no lost or late              *)
(* message, within the bound on them, makes a second node promote itself.  *)
(* (The role that reconcile_master_role and the probe are there to keep.)  *)
OneMaster == crashes = 0 => Cardinality(Reigning) <= 1

(* After the last disturbance the roles settle: if a majority is up, there *)
(* is exactly one MASTER from some time on, whoever crashed, restarted     *)
(* with which role, or was promoted meanwhile.                             *)
Settled ==
  Cardinality({n \in Node : Up(n)}) >= Majority => Cardinality(Reigning) = 1

Convergence == <>[]Settled

(* The roles and what the hub lists are sound: at most one reigning MASTER *)
(* (nexus_distributed_core.py:1014-1215).                                  *)
RolesSound == TypeOK /\ OneMaster
=============================================================================
