-------------------------- MODULE FailoverTimeline --------------------------
(***************************************************************************)
(* What the physical failover runner (physical_runner.py) computes from    *)
(* what it observes: the timeline T0..T4, the hub's state, the liveness of *)
(* the failed master and the classification of the run.  No state here.    *)
(***************************************************************************)
EXTENDS Integers, FiniteSets, SequencesExt

CONSTANTS
  NodeIds,       \* the node ids, ordered as numbers
  FailedMaster,  \* the MASTER of the topology, which the run terminates
  ClusterSize,   \* DEFAULT_CLUSTER_SIZE
  Never,         \* the time of an event that is not recorded
  NoNode,        \* the None of promoted_node
  NoRun          \* the run_id of a summary that has none

ASSUME TimelineAssumption ==
  /\ IsFiniteSet(NodeIds) /\ NodeIds \subseteq Nat /\ FailedMaster \in NodeIds
  /\ Cardinality(NodeIds) = ClusterSize
  /\ Never \notin Int /\ NoNode \notin NodeIds /\ NoRun \notin Int

Survivors == NodeIds \ {FailedMaster}
Roles == {"MASTER", "FOLLOWER"}

-----------------------------------------------------------------------------
(* The topology: a tuple of records [id, web, tcp, role].                  *)

NodeSpecValid(spec) ==
  /\ spec.web \in 1..65535 /\ spec.tcp \in 1..65535
  /\ spec.role \in Roles

PortsOf(specs) == {specs[i].web : i \in DOMAIN specs} \cup {specs[i].tcp : i \in DOMAIN specs}

ValidateTopology(specs) ==
  /\ Len(specs) = ClusterSize
  /\ Cardinality({specs[i].id : i \in DOMAIN specs}) = Len(specs)
  /\ Cardinality(PortsOf(specs)) = 2 * Len(specs)
  /\ Cardinality({i \in DOMAIN specs : specs[i].role = "MASTER"}) = 1

-----------------------------------------------------------------------------
(* TimelineRecorder: the time of each event, or Never.                     *)

TimelineEvents == <<"t0", "t1", "t2", "t3", "t4">>
Events == ToSet(TimelineEvents)
EmptyTimeline == [e \in Events |-> Never]

Earlier(e) == {TimelineEvents[i] : i \in 1..(CHOOSE i \in 1..5 : TimelineEvents[i] = e) - 1}

(* record raises on an event that is there, and on one that would come     *)
(* before an earlier event of the timeline.                                *)
Recordable(timeline, e, t) ==
  /\ timeline[e] = Never
  /\ \A f \in Earlier(e) : timeline[f] # Never => timeline[f] <= t

Complete(timeline) == \A e \in Events : timeline[e] # Never

Intervals ==
  [t0_to_t1 |-> <<"t0", "t1">>, t1_to_t2 |-> <<"t1", "t2">>, t2_to_t3 |-> <<"t2", "t3">>,
   t1_to_t3 |-> <<"t1", "t3">>, t3_to_t4 |-> <<"t3", "t4">>, t0_to_t4 |-> <<"t0", "t4">>]

TimingMs(timeline) ==
  LET known == {l \in DOMAIN Intervals : \A i \in 1..2 : timeline[Intervals[l][i]] # Never}
  IN  [l \in known |-> timeline[Intervals[l][2]] - timeline[Intervals[l][1]]]

(* observe_log_event and the guards of the loop on what it returns.  A     *)
(* line is the marker it carries; a line without one is not modelled.      *)
LogEventMap ==
  [master_missing |-> "t1", leadership_promotion_started |-> "t2", leadership_promoted |-> "t3"]

(* The loop goes through lines in order and records the event of a line,   *)
(* once, if the event before it is recorded by then, T0 always being so.   *)
(* The lines of one call all come at time t; the clock does not go back,   *)
(* so that record never raises here.                                       *)
Marks(line, e) == LogEventMap[line] = e

(* Whether an event is recorded once the lines at the places "read" are.   *)
T1By(timeline, lines, read) == timeline["t1"] # Never \/ \E i \in read : Marks(lines[i], "t1")

T2By(timeline, lines, read) ==
  \/ timeline["t2"] # Never
  \/ \E i \in read : Marks(lines[i], "t2") /\ T1By(timeline, lines, {j \in read : j < i})

(* Mutant: T3 is accepted before T2.                                       *)
T3Anyhow(timeline, lines, read) ==
  timeline["t3"] # Never \/ \E i \in read : Marks(lines[i], "t3")

T3By(timeline, lines, read) ==
  \/ timeline["t3"] # Never
  \/ \E i \in read : Marks(lines[i], "t3") /\ T2By(timeline, lines, {j \in read : j < i})

RecordedBy(timeline, lines, e) ==
  \/ e = "t1" /\ T1By(timeline, lines, DOMAIN lines)
  \/ e = "t2" /\ T2By(timeline, lines, DOMAIN lines)
  \/ e = "t3" /\ T3By(timeline, lines, DOMAIN lines)

AfterLines(timeline, lines, t) ==
  [e \in Events |->
     IF Recordable(timeline, e, t) /\ RecordedBy(timeline, lines, e) THEN t ELSE timeline[e]]

-----------------------------------------------------------------------------
(* The hub's answer: the role of each node it lists.                       *)

Masters(peers) == {n \in DOMAIN peers : peers[n] = "MASTER"}

ActiveSplitBrain(peers) == Cardinality(Masters(peers)) > 1

PromotedIn(peers) ==
  IF Cardinality(Masters(peers)) = 1 /\ FailedMaster \notin Masters(peers)
  THEN CHOOSE n \in Masters(peers) : TRUE
  ELSE NoNode

ConvergedIn(peers) ==
  /\ DOMAIN peers = Survivors
  /\ ~ActiveSplitBrain(peers)
  /\ PromotedIn(peers) # NoNode

BaselineIn(peers) == DOMAIN peers = NodeIds /\ Masters(peers) = {FailedMaster}

-----------------------------------------------------------------------------
(* The liveness of the failed master: the poll of its process, and what    *)
(* its /liveness endpoint answered: nothing, something unusable, another   *)
(* node's name, or its own.                                                *)

EndpointAnswers == {"refused", "unusable", "other", "self"}

OperationallyAlive(processAlive, answer) ==
  IF ~processAlive /\ answer = "refused" THEN "down"
  ELSE IF processAlive /\ answer = "self" THEN "alive"
  ELSE "inconclusive"

-----------------------------------------------------------------------------
(* classify_run.  cause is the invalid_reason of the caller, "" for None.  *)

NoCause == ""

(* The reasons classify_run finds by itself; without any it raises.        *)
OwnReasons(timeline, promoted, converged, split) ==
  {r \in {"incomplete timeline", "promoted node not observed",
          "external convergence not confirmed", "active split-brain observed"} :
     CASE r = "incomplete timeline" -> ~Complete(timeline)
       [] r = "promoted node not observed" -> promoted = NoNode
       [] r = "external convergence not confirmed" -> ~converged
       [] OTHER -> split}

Reasons(timeline, promoted, converged, split, cause) ==
  IF cause # NoCause THEN {cause} ELSE OwnReasons(timeline, promoted, converged, split)

(* Mutant: a split brain does not make a run invalid.                      *)
ValidWithSplit(timeline, promoted, converged, split, cause) ==
  Complete(timeline) /\ promoted # NoNode /\ converged /\ cause = NoCause

ClassifiedValid(timeline, promoted, converged, split, cause) ==
  /\ Complete(timeline) /\ promoted # NoNode /\ converged /\ ~split
  /\ cause = NoCause

(* initial_evidence names the experiment and no run, and neither does      *)
(* classify_run.                                                           *)
Experiment == "three-node-master-loss-failover"

ClassifyRun(timeline, promoted, converged, split, cause) ==
  LET valid == ClassifiedValid(timeline, promoted, converged, split, cause)
  IN  [run |-> NoRun, experiment |-> Experiment,
       classification |-> IF valid THEN "valid" ELSE "invalid",
       reasons |-> IF valid THEN {} ELSE Reasons(timeline, promoted, converged, split, cause),
       timing |-> TimingMs(timeline), promoted |-> promoted, converged |-> converged,
       split |-> split]

=============================================================================
