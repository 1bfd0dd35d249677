---------------------------- MODULE TaskOwnership ----------------------------
(***************************************************************************)
(* The registry of exclusive, generation-fenced task ownership             *)
(* (nexus/compute/task_ownership.py, class TaskOwnershipRegistry).  Every  *)
(* method runs under the registry's RLock, so each operator below is one   *)
(* atomic change of the registry.                                          *)
(***************************************************************************)
EXTENDS Naturals

CONSTANTS
  Task,       \* task identifiers
  Owner,      \* identifiers of the nodes that can own a task
  NoOwner     \* "no entry in _items"

VARIABLES
  owner,        \* _items: the current ownership of a task, or NoOwner
  generations   \* _generations: the last generation handed out, 0 for none

ownershipVars == <<owner, generations>>

Ownership == [node : Owner, gen : Nat \ {0}]

ASSUME NoOwnerAssumption == NoOwner \notin Ownership

OwnershipTypeOK ==
  /\ owner \in [Task -> Ownership \cup {NoOwner}]
  /\ generations \in [Task -> Nat]

OwnershipInit ==
  /\ owner = [t \in Task |-> NoOwner]
  /\ generations = [t \in Task |-> 0]

(* Mutant: the counter is derived from the entries instead of being kept   *)
(* across releases.                                                        *)
NextGenerationForgotten(t) == IF owner[t] = NoOwner THEN 1 ELSE owner[t].gen + 1

(* The generation the next claim of the task receives.                     *)
NextGeneration(t) == generations[t] + 1

(* claim: refused while somebody owns the task; the generation counter     *)
(* survives releases and reclaims, so no generation is handed out twice.   *)
Claim(t, n) ==
  /\ owner[t] = NoOwner
  /\ generations' = [generations EXCEPT ![t] = NextGeneration(t)]
  /\ owner' = [owner EXCEPT ![t] = [node |-> n, gen |-> NextGeneration(t)]]

(* assert_current: node and generation must both match the entry.          *)
Current(t, n, g) == owner[t] = [node |-> n, gen |-> g]

(* Mutant: only the node is compared, as owner() would suggest.            *)
ReleaseByNode(t, n, g) ==
  /\ owner' = IF owner[t] # NoOwner /\ owner[t].node = n
                THEN [owner EXCEPT ![t] = NoOwner] ELSE owner
  /\ UNCHANGED generations

(* release: drops the entry it matches; a stale one raises and changes     *)
(* nothing.                                                                *)
Release(t, n, g) ==
  /\ owner' = IF Current(t, n, g) THEN [owner EXCEPT ![t] = NoOwner] ELSE owner
  /\ UNCHANGED generations

(* reclaim_orphaned: revokes what nodes outside `online` hold.             *)
ReclaimOrphaned(online) ==
  /\ owner' = [t \in Task |->
                 IF owner[t] # NoOwner /\ owner[t].node \notin online
                   THEN NoOwner ELSE owner[t]]
  /\ UNCHANGED generations

=============================================================================
