---------------------------- MODULE PhysicalRun ----------------------------
(***************************************************************************)
(* One physical failover run (physical_runner.py): hub and nodes started   *)
(* as child processes, the baseline, the termination of the MASTER, the    *)
(* observation loop of orchestrate_failover and the clean-up; with the     *)
(* cluster it observes.  No executor is in the repository: the order in    *)
(* which the parts are called is the one their docstrings and tests imply. *)
(* A run holds one thread; the cluster moves between any two of its steps. *)
(***************************************************************************)
EXTENDS FailoverTimeline

CONSTANTS
  Hub,           \* the rendezvous hub, a child like the nodes
  StartOrder,    \* the children in the order in which they are started
  Plans,         \* the campaigns an operator may plan
  MaxUnread      \* bound: lines a survivor logs between two readings of its log

ASSUME RunAssumption ==
  /\ Hub \notin NodeIds
  /\ StartOrder \in [1..ClusterSize + 1 -> NodeIds \cup {Hub}]
  /\ ToSet(StartOrder) = NodeIds \cup {Hub}
  /\ Plans \subseteq [samples : Nat \ {0}, timeout : Nat, slow : Nat, observer : BOOLEAN,
                      named : BOOLEAN, faults : SUBSET {"cluster", "host"},
                      trouble : Nat]
  /\ MaxUnread \in Nat

VARIABLES
  plan,         \* the plan: how many samples, timeout_seconds, the most that the
                \* calls of one poll take (both in polls), whether
                \* observe_failed_master_liveness is given, whether the executor puts
                \* the run id into the summary, and the kinds and the bound of the
                \* faults: of the cluster and its answers, or of the host and the
                \* executors on it
  pc,           \* where the run stands
  started,      \* how many of StartOrder are in managed
  own,          \* the children of this run that are alive
  orphans,      \* children of earlier runs that nobody stopped
  stopErrors,   \* the children whose stop raised
  role,         \* the role of each node
  stage,        \* how far each survivor is towards MASTER
  unread,       \* the lines in each survivor's log that are not read yet
  registry,     \* what the hub lists
  now,          \* the clock, since T0
  timeline,     \* recorder
  peers,        \* the hub's last answer
  processAlive, \* the last poll of the master's process
  inconclusive, splitSeen, overlapSeen, promoted, converged, \* as in the loop
  masterThere,  \* whether the failed master was alive when peers was read
  yielded,      \* the nodes that stepped down in this run
  evidence,     \* what classify_run returned, or NoEvidence
  trouble       \* how many faults may still happen

Timeout == plan.timeout
observer == plan.observer
NoEvidence == [classification |-> "none"]

procVars == <<started, own, orphans, stopErrors>>
worldVars == <<role, stage, unread, registry>>
flagVars == <<processAlive, inconclusive, splitSeen, overlapSeen, promoted, converged>>
seenVars == <<now, timeline, peers, masterThere, yielded, flagVars>>
runVars == <<plan, pc, procVars, worldVars, seenVars, evidence, trouble>>

Alive(p) == p \in own \cup orphans
EmptyRegistry == [n \in {} |-> "FOLLOWER"]
Lose(kind) == kind \in plan.faults /\ trouble > 0 /\ trouble' = trouble - 1

-----------------------------------------------------------------------------
(* The observations of a run before T0.                                    *)
FreshObservations ==
  /\ now' = 0 /\ timeline' = EmptyTimeline /\ peers' = EmptyRegistry
  /\ masterThere' = FALSE /\ yielded' = {}
  /\ processAlive' = FALSE /\ inconclusive' = FALSE
  /\ splitSeen' = FALSE /\ overlapSeen' = FALSE /\ promoted' = NoNode /\ converged' = FALSE

(* Nodes that nobody stopped go on as they are, others start afresh.       *)
FreshWorld(kept) ==
  /\ role' = [n \in NodeIds |-> IF n \in kept THEN role[n]
                                ELSE IF n = FailedMaster THEN "MASTER" ELSE "FOLLOWER"]
  /\ stage' = [n \in Survivors |-> IF n \in kept THEN stage[n] ELSE "watching"]
  /\ unread' = [n \in Survivors |-> <<>>]
  /\ registry' = IF Hub \in kept THEN registry ELSE EmptyRegistry

InitRun ==
  /\ plan \in Plans
  /\ pc = "plan" /\ started = 0 /\ own = {} /\ orphans = {} /\ stopErrors = {}
  /\ role = [n \in NodeIds |-> IF n = FailedMaster THEN "MASTER" ELSE "FOLLOWER"]
  /\ stage = [n \in Survivors |-> "watching"]
  /\ unread = [n \in Survivors |-> <<>>]
  /\ registry = EmptyRegistry
  /\ now = 0 /\ timeline = EmptyTimeline /\ peers = EmptyRegistry
  /\ masterThere = FALSE /\ yielded = {}
  /\ processAlive = FALSE /\ inconclusive = FALSE
  /\ splitSeen = FALSE /\ overlapSeen = FALSE /\ promoted = NoNode /\ converged = FALSE
  /\ evidence = NoEvidence /\ trouble = plan.trouble

BeginBody ==
  /\ pc' = "start" /\ stopErrors' = {} /\ evidence' = NoEvidence
  /\ UNCHANGED <<started, own, orphans, worldVars, plan, seenVars, trouble>>

(* The body ends, by an exception or with evidence.                        *)
LeaveBody ==
  /\ pc' = "cleanup" /\ FreshObservations /\ unread' = [n \in Survivors |-> <<>>]
  /\ UNCHANGED <<procVars, role, stage, registry, plan>>

-----------------------------------------------------------------------------
(* start_process, the hub first.  Popen may raise; a child that finds its  *)
(* port taken by an orphan ends at once, which nobody looks at.            *)

StartRaises ==
  /\ pc = "start" /\ started < Len(StartOrder) /\ Lose("host")
  /\ LeaveBody
  /\ UNCHANGED evidence

PortTaken(p) == p \in orphans

StartChild ==
  /\ pc = "start" /\ started < Len(StartOrder)
  /\ LET p == StartOrder[started + 1]
     IN  own' = IF PortTaken(p) THEN own ELSE own \cup {p}
  /\ started' = started + 1
  /\ UNCHANGED <<pc, orphans, stopErrors, worldVars, plan, seenVars, evidence, trouble>>

AllStarted ==
  /\ pc = "start" /\ started = Len(StartOrder)
  /\ pc' = "baseline"
  /\ UNCHANGED <<procVars, worldVars, plan, seenVars, evidence, trouble>>

(* baseline_from_hub_state on one answer of the hub.  T0 is recorded and   *)
(* the MASTER told to end: the signal is sent, its exit comes later.       *)
Baseline ==
  /\ pc = "baseline" /\ Alive(Hub) /\ BaselineIn(registry)
  /\ timeline' = [timeline EXCEPT !["t0"] = 0]
  /\ pc' = "logs"
  /\ UNCHANGED <<procVars, worldVars, plan, now, peers, masterThere, yielded, flagVars, evidence,
                 trouble>>

(* The request raises, or the executor waits no longer.                    *)
NoBaseline ==
  /\ pc = "baseline" /\ ~(Alive(Hub) /\ BaselineIn(registry))
  /\ LeaveBody
  /\ UNCHANGED <<evidence, trouble>>

-----------------------------------------------------------------------------
(* The loop of orchestrate_failover.                                       *)

Observing == pc \in {"logs", "peers", "process", "endpoint"}

BeforeDeadline == now <= Timeout

(* The lines read_new_lines returns for a survivor.  A last line that is   *)
(* only half written is returned, and its end at the next call: neither    *)
(* half holds the marker.                                                  *)
LinesOf(n, torn) == IF n \in torn THEN Front(unread[n]) ELSE unread[n]

(* The executor reads one log after the other.                             *)
LogOrder == SetToSortSeq(Survivors, <)

ReadLogs ==
  /\ pc = "logs" /\ BeforeDeadline
  /\ \E t \in now..now + plan.slow : now' = t
  /\ \E torn \in SUBSET {n \in Survivors : unread[n] # <<>>} :
       /\ IF torn = {} THEN UNCHANGED trouble ELSE Lose("cluster")
       /\ \E lines \in {FlattenSeq([i \in DOMAIN LogOrder |-> LinesOf(LogOrder[i], torn)])} :
            timeline' = AfterLines(timeline, lines, now')
  /\ unread' = [n \in Survivors |-> <<>>]
  /\ pc' = "peers"
  /\ UNCHANGED <<procVars, role, stage, registry, plan, peers, masterThere, yielded, flagVars,
                 evidence>>

(* The end of an iteration on the answer seen, for which the hub and the   *)
(* endpoint were waited for: T4 at the first convergence after T3,         *)
(* otherwise the loop sleeps.  The deadline is not looked at again.        *)
EndsPoll(seen) ==
  /\ overlapSeen' = (overlapSeen \/ ActiveSplitBrain(seen))
  /\ promoted' = IF ConvergedIn(seen) THEN PromotedIn(seen) ELSE promoted
  /\ converged' = (ConvergedIn(seen) /\ timeline["t3"] # Never)
  /\ \E t \in now..now + plan.slow :
       /\ timeline' = IF converged' THEN [timeline EXCEPT !["t4"] = t] ELSE timeline
       /\ now' = IF converged' THEN t ELSE t + 1
  /\ pc' = IF converged' THEN "classify" ELSE "logs"
  /\ peers' = IF converged' THEN seen ELSE EmptyRegistry
  /\ processAlive' = FALSE /\ masterThere' = FALSE /\ UNCHANGED yielded

ReadPeersOnly ==
  /\ pc = "peers" /\ Alive(Hub) /\ ~observer
  /\ EndsPoll(registry)
  /\ UNCHANGED <<procVars, worldVars, plan, inconclusive, splitSeen, evidence, trouble>>

(* With an observer, its two observations come after the hub's answer.     *)
ReadPeers ==
  /\ pc = "peers" /\ Alive(Hub) /\ observer
  /\ peers' = registry /\ masterThere' = Alive(FailedMaster)
  /\ pc' = "process"
  /\ UNCHANGED <<procVars, worldVars, plan, now, timeline, yielded, flagVars, evidence, trouble>>

(* fetch_peers raises: nothing catches it, and no evidence is made.        *)
PeersRaise ==
  /\ pc = "peers"
  /\ IF Alive(Hub) THEN Lose("cluster") ELSE UNCHANGED trouble
  /\ LeaveBody
  /\ UNCHANGED evidence

(* observe_process_liveness: the poll of the child, never of an orphan.    *)
PollProcess ==
  /\ pc = "process"
  /\ processAlive' = (FailedMaster \in own)
  /\ pc' = "endpoint"
  /\ UNCHANGED <<procVars, worldVars, plan, now, timeline, peers, masterThere, yielded,
                 inconclusive, splitSeen, overlapSeen, promoted, converged, evidence, trouble>>

TrueAnswer == IF Alive(FailedMaster) THEN "self" ELSE "refused"

(* Mutant: the registry as it is now, not as it was when peers was read.   *)
PeersNow == registry

PeersJudged == peers

(* fetch_node_liveness, and what the loop makes of both observations.      *)
ProbeEndpoint ==
  /\ pc = "endpoint"
  /\ \E answer \in EndpointAnswers :
       /\ IF answer = TrueAnswer THEN UNCHANGED trouble ELSE Lose("cluster")
       /\ splitSeen' = (splitSeen \/
            /\ OperationallyAlive(processAlive, answer) = "alive"
            /\ Masters(PeersJudged) \ {FailedMaster} # {})
       /\ inconclusive' = (inconclusive \/
            OperationallyAlive(processAlive, answer) = "inconclusive")
  /\ EndsPoll(peers)
  /\ UNCHANGED <<procVars, worldVars, plan, evidence>>

DeadlinePassed ==
  /\ pc = "logs" /\ ~BeforeDeadline
  /\ pc' = "classify"
  /\ UNCHANGED <<procVars, worldVars, plan, seenVars, evidence, trouble>>

(* Mutant: an inconclusive observation is no reason.                       *)
CauseOfTimeout == IF ~converged THEN "timeout before external convergence" ELSE NoCause

Cause ==
  IF ~converged THEN "timeout before external convergence"
  ELSE IF observer /\ inconclusive THEN "operational liveness observation inconclusive"
  ELSE NoCause

SplitJudged == IF observer THEN splitSeen ELSE overlapSeen

Classify ==
  /\ pc = "classify"
  /\ evidence' = ClassifyRun(timeline, promoted, converged, SplitJudged, Cause)
  /\ LeaveBody
  /\ UNCHANGED trouble

-----------------------------------------------------------------------------
(* lifecycle_with_cleanup: every child in reverse order, whatever the stop *)
(* of the others did; stop_process may raise when even the kill is not     *)
(* confirmed in time.  The collected errors are returned to nobody.        *)

(* Mutant: the first error ends the clean-up.                              *)
FirstErrorEnds == IF stopErrors' # {} THEN 0 ELSE started - 1

(* Mutant: a stop is tried again as long as there are errors, which nobody *)
(* clears.                                                                 *)
UntilNoError == IF stopErrors' # {} THEN started ELSE started - 1

NextToStop == started - 1

StopNext ==
  /\ pc = "cleanup" /\ started > 0
  /\ LET p == StartOrder[started]
     IN  \/ /\ own' = own \ {p}
            /\ UNCHANGED <<stopErrors, trouble>>
         \/ /\ p \in own /\ Lose("host")
            /\ stopErrors' = stopErrors \cup {p}
            /\ UNCHANGED own
  /\ started' = NextToStop
  /\ UNCHANGED <<pc, orphans, worldVars, plan, seenVars, evidence>>

(* Without evidence the exception of the body goes on to the executor.     *)
CleanupDone ==
  /\ pc = "cleanup" /\ started = 0
  /\ pc' = IF evidence = NoEvidence THEN "down" ELSE "save"
  /\ orphans' = orphans \cup own /\ own' = {} /\ FreshWorld(orphans')
  /\ UNCHANGED <<started, stopErrors, plan, seenVars, evidence, trouble>>

RunnerStep ==
  \/ StartRaises \/ StartChild \/ AllStarted \/ Baseline \/ NoBaseline
  \/ ReadLogs \/ ReadPeersOnly \/ ReadPeers \/ PeersRaise \/ PollProcess \/ ProbeEndpoint
  \/ DeadlinePassed \/ Classify \/ StopNext \/ CleanupDone

-----------------------------------------------------------------------------
(* The cluster, as far as the runner can tell.                             *)

WorldMoves == pc = "baseline" \/ Observing

(* A node's heartbeat carries its role to the hub.                         *)
Register(n) ==
  /\ WorldMoves /\ Alive(n) /\ Alive(Hub)
  /\ n \in DOMAIN registry => registry[n] # role[n]
  /\ registry' = [m \in DOMAIN registry \cup {n} |-> IF m = n THEN role[n] ELSE registry[m]]
  /\ UNCHANGED <<pc, procVars, role, stage, unread, plan, seenVars, evidence, trouble>>

(* The reaper drops a silent node, or a live one whose heartbeat is late.  *)
Reap(n) ==
  /\ WorldMoves /\ Alive(Hub) /\ n \in DOMAIN registry
  /\ IF Alive(n) THEN Lose("cluster") ELSE UNCHANGED trouble
  /\ registry' = [m \in DOMAIN registry \ {n} |-> registry[m]]
  /\ UNCHANGED <<pc, procVars, role, stage, unread, plan, seenVars, evidence>>

(* A line of this run's child n.  One whose event is recorded already, or  *)
(* that repeats the last one, is left out: the loop ignores it.            *)
Logged(n, marker) ==
  LET old == unread[n]
      ignored == n \notin own \/ timeline[LogEventMap[marker]] # Never
                   \/ (old # <<>> /\ Last(old) = marker)
  IN  /\ ignored \/ Len(old) < MaxUnread
      /\ unread' = [unread EXCEPT ![n] = IF ignored THEN @ ELSE Append(@, marker)]

(* What a survivor that is no MASTER makes of the hub's list: the node it  *)
(* probes is the first MASTER there, dead ones included, and the candidate *)
(* the greatest of the listed followers and itself, given a majority.  The *)
(* list is taken as it is then; that it was fetched a little earlier is in *)
(* the module Leadership.                                                  *)
OtherMasters(n) == Masters(registry) \ {n}

ProbeFails(n) == OtherMasters(n) = {} \/ \E m \in OtherMasters(n) : ~Alive(m)

Majority == ClusterSize \div 2 + 1

Elected(n) ==
  /\ \A m \in DOMAIN registry \ {n} : registry[m] = "FOLLOWER" => m <= n
  /\ Cardinality(DOMAIN registry \cup {n}) >= Majority

(* A survivor that for 15 s finds no MASTER, or whose probes of it all     *)
(* fail, says so, and at once promotes itself if it is the candidate;      *)
(* another says so again at each round.                                    *)
LogMissing(n) ==
  /\ WorldMoves /\ Alive(n) /\ Alive(Hub) /\ stage[n] \in {"watching", "missing"}
  /\ IF ProbeFails(n) THEN UNCHANGED trouble ELSE Lose("cluster")
  /\ stage' = [stage EXCEPT ![n] = IF Elected(n) THEN "elected" ELSE "missing"]
  /\ Logged(n, "master_missing")
  /\ UNCHANGED <<pc, procVars, role, registry, plan, seenVars, evidence>>

PromotionStarts(n) ==
  /\ WorldMoves /\ Alive(n) /\ stage[n] = "elected"
  /\ stage' = [stage EXCEPT ![n] = "started"]
  /\ Logged(n, "leadership_promotion_started")
  /\ UNCHANGED <<pc, procVars, role, registry, plan, seenVars, evidence, trouble>>

Promoted(n) ==
  /\ WorldMoves /\ Alive(n) /\ stage[n] = "started"
  /\ stage' = [stage EXCEPT ![n] = "promoted"]
  /\ role' = [role EXCEPT ![n] = "MASTER"]
  /\ Logged(n, "leadership_promoted")
  /\ UNCHANGED <<pc, procVars, registry, plan, seenVars, evidence, trouble>>

(* reconcile_master_role: a MASTER yields to a greater one that the hub    *)
(* lists, dead or alive.                                                   *)
Yield(n) ==
  /\ WorldMoves /\ Alive(n) /\ Alive(Hub) /\ role[n] = "MASTER"
  /\ \E m \in OtherMasters(n) : m > n
  /\ role' = [role EXCEPT ![n] = "FOLLOWER"]
  /\ stage' = [m \in Survivors |-> IF m = n THEN "watching" ELSE stage[m]]
  /\ yielded' = yielded \cup {n}
  /\ UNCHANGED <<pc, procVars, unread, registry, plan, now, timeline, peers, masterThere,
                 flagVars, evidence, trouble>>

(* The terminated MASTER exits, or any child by itself.                    *)
ChildEnds(p) ==
  /\ WorldMoves /\ p \in own
  /\ IF p = FailedMaster /\ Observing THEN UNCHANGED trouble ELSE Lose("cluster")
  /\ own' = own \ {p}
  /\ UNCHANGED <<pc, started, orphans, stopErrors, worldVars, plan, seenVars, evidence>>

WorldStep ==
  \/ \E n \in NodeIds : Register(n) \/ Reap(n) \/ Yield(n)
  \/ \E n \in Survivors : LogMissing(n) \/ PromotionStarts(n) \/ Promoted(n)
  \/ \E p \in NodeIds \cup {Hub} : ChildEnds(p)
=============================================================================
