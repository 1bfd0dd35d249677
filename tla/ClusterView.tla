----------------------------- MODULE ClusterView -----------------------------
(***************************************************************************)
(* The membership table one Nexus process keeps (nexus/cluster/manager.py, *)
(* class ClusterManager, reached through nexus/runtime/cluster.py): which  *)
(* nodes are members, which of them answer, and which one is MASTER.       *)
(*                                                                         *)
(* The table is plain dictionaries without a lock: readers on other        *)
(* threads see whatever the last call left.  The version counter and the   *)
(* export/import of the table are not here: no reader of this module's     *)
(* state looks at them.                                                    *)
(***************************************************************************)
CONSTANTS
  Node,         \* identifiers a cluster member can have
  NoNode,       \* "no leader": ClusterManager.leader() returned None
  NodesReturn   \* may a node that was lost be added or touched again?

ASSUME NoNodeAssumption == NoNode \notin Node
ASSUME NodesReturnAssumption == NodesReturn \in BOOLEAN

VARIABLES
  nodeStatus,   \* _nodes[n]["status"], "absent" when n is no member
  master        \* the member whose role is MASTER, or NoNode

clusterVars == <<nodeStatus, master>>

Status == {"absent", "ONLINE", "OFFLINE"}

ClusterTypeOK ==
  /\ nodeStatus \in [Node -> Status]
  /\ master \in Node \cup {NoNode}

OnlineNodes == {n \in Node : nodeStatus[n] = "ONLINE"}
Members == {n \in Node : nodeStatus[n] # "absent"}

(* A cluster whose nodes have been added and that has elected nobody yet.  *)
ClusterInit ==
  /\ nodeStatus = [n \in Node |-> "ONLINE"]
  /\ master = NoNode

AddNode(n) ==
  /\ NodesReturn
  /\ nodeStatus[n] = "absent"
  /\ nodeStatus' = [nodeStatus EXCEPT ![n] = "ONLINE"]
  /\ UNCHANGED master

(* Deleting the entry of the MASTER leaves the table without a leader.     *)
RemoveNode(n) ==
  /\ nodeStatus[n] # "absent"
  /\ nodeStatus' = [nodeStatus EXCEPT ![n] = "absent"]
  /\ master' = IF master = n THEN NoNode ELSE master

Touch(n) ==
  /\ NodesReturn
  /\ nodeStatus[n] = "OFFLINE"
  /\ nodeStatus' = [nodeStatus EXCEPT ![n] = "ONLINE"]
  /\ UNCHANGED master

(* Any set of members may have been silent for longer than the timeout.    *)
(* The role of a member that goes OFFLINE is left alone: the MASTER may be *)
(* OFFLINE.                                                                *)
CheckTimeouts(silent) ==
  /\ silent \subseteq OnlineNodes
  /\ silent # {}
  /\ nodeStatus' = [n \in Node |->
                      IF n \in silent THEN "OFFLINE" ELSE nodeStatus[n]]
  /\ UNCHANGED master

(* elect_leader asks only that the node is a member, not that it answers.  *)
ElectLeader(n) ==
  /\ n \in Members
  /\ master # n
  /\ master' = n
  /\ UNCHANGED nodeStatus

ClusterNext ==
  \/ \E n \in Node : AddNode(n) \/ RemoveNode(n) \/ Touch(n) \/ ElectLeader(n)
  \/ \E silent \in SUBSET OnlineNodes : CheckTimeouts(silent)

=============================================================================
