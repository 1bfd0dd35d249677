------------------------------ MODULE Rendezvous ------------------------------
(***************************************************************************)
(* The rendezvous hub (nexus_rendezvous.py): PEERS with the registration,  *)
(* heartbeat and listing handlers of its single-threaded HTTP server and   *)
(* the thread that reaps expired nodes.                                    *)
(*                                                                         *)
(* Abstracted: a record is its role and the time since last_seen; ports,   *)
(* capabilities and load are left out, and so is the verification of       *)
(* envelopes, which no message of a node fails.                            *)
(***************************************************************************)
EXTENDS Naturals

CONSTANTS
  Node,         \* node ids; their order is the order of the id strings
  PeerTimeout,  \* PEER_TIMEOUT, in ticks
  NoRecord      \* not in PEERS

ASSUME RendezvousAssumption ==
  /\ Node \subseteq Nat
  /\ PeerTimeout \in Nat \ {0}

Role == {"FOLLOWER", "MASTER"}

ASSUME NoRecordAssumption == NoRecord \notin [role : Role, age : 0 .. PeerTimeout]

VARIABLES
  peers,   \* PEERS
  expired  \* the nodes that the reaper is about to delete

hubVars == <<peers, expired>>

HubTypeOK ==
  /\ peers \in [Node -> [role : Role, age : 0 .. PeerTimeout] \cup {NoRecord}]
  /\ expired \subseteq Node

HubInit ==
  /\ peers = [n \in Node |-> NoRecord]
  /\ expired = {}

Registered(n) == peers[n] # NoRecord

SeenWithin(n, limit) == Registered(n) /\ peers[n].age < limit

(* What GET /peers answers.                                                *)
ActivePeers ==
  [n \in {m \in Node : SeenWithin(m, PeerTimeout)} |-> peers[n].role]

Put(n, role) == peers' = [peers EXCEPT ![n] = [role |-> role, age |-> 0]]

(* Mutant: a heartbeat keeps the role of the registration.                 *)
HeartbeatOldRole(n, role) == Registered(n) /\ Put(n, peers[n].role) /\ UNCHANGED expired

RegisterPeer(n, role) == Put(n, role) /\ UNCHANGED expired

Heartbeat(n, role) == Registered(n) /\ Put(n, role) /\ UNCHANGED expired

(* auto_reap_expired_nodes lists the expired nodes first and deletes them  *)
(* one by one.  Nothing makes the reaper go on: its thread dies when PEERS *)
(* changes while it lists it.                                              *)
ListExpired ==
  /\ expired = {}
  /\ expired' = {n \in Node : Registered(n) /\ ~SeenWithin(n, PeerTimeout)}
  /\ UNCHANGED peers

Reap(n) ==
  /\ n \in expired
  /\ expired' = expired \ {n}
  /\ peers' = [peers EXCEPT ![n] = NoRecord]

(* A tick later, the ages count up to the time-out.                        *)
Aged(record) ==
  IF record # NoRecord /\ record.age < PeerTimeout
    THEN [record EXCEPT !.age = @ + 1] ELSE record

Age == peers' = [n \in Node |-> Aged(peers[n])] /\ UNCHANGED expired

(* Nothing is persisted.                                                   *)
HubRestart ==
  /\ peers' = [n \in Node |-> NoRecord]
  /\ expired' = {}

=============================================================================
