---------------------------- MODULE CampaignProofs ----------------------------
(***************************************************************************)
(* Proofs about Campaign for any nodes, any order of their start, any      *)
(* plans and any number of faults.                                         *)
(*                                                                         *)
(* Each of the invariants is about one owner of state: the children of a   *)
(* run, what its recorder holds, what the hub said when, and the           *)
(* directories.  The latter uses the others only for the evidence: that    *)
(* validate_run accepts whatever classify_run writes once it names its     *)
(* run.  The statistics are about any samples: Sorted is in order, a       *)
(* percentile is a point along it, and the summary of a campaign counts    *)
(* each of its runs once.                                                  *)
(***************************************************************************)
EXTENDS Campaign, FiniteSetTheorems, WellFoundedInduction, TLAPS

(* Where a run is.                                                         *)
Watching == {"logs", "peers", "process", "endpoint"}
Poll == {"peers", "process", "endpoint"}
Started == {"start", "baseline", "classify"} \cup Watching
Inside == Started \cup {"cleanup", "save", "write"}

Outside == {"plan", "refused", "next", "check", "mkdir", "mkdir_logs", "save", "write", "summarize",
            "blocked", "down", "done"}

-----------------------------------------------------------------------------
(* The parts of TypeOK.                                                    *)
PcType == pc \in Outside \cup Started \cup {"cleanup"}

ProcTypes ==
  /\ started \in 0..Len(StartOrder)
  /\ own \subseteq NodeIds \cup {Hub} /\ orphans \subseteq NodeIds \cup {Hub}
  /\ own \cap orphans = {} /\ stopErrors \subseteq own \cup orphans

WorldTypes ==
  /\ role \in [NodeIds -> Roles] /\ DOMAIN registry \subseteq NodeIds
  /\ \A n \in Survivors : role[n] = "MASTER" <=> stage[n] = "promoted"

TimeTypes ==
  /\ now \in 0..Limit + 1 /\ yielded \subseteq NodeIds
  /\ \A e \in Events : timeline[e] \in (0..now) \cup {Never}
  /\ promoted \in Survivors \cup {NoNode}

PlanTypes ==
  /\ trouble \in 0..plan.trouble /\ plan \in Plans /\ current \in RunIds
  /\ owner \in [RunIds -> {"none", "bare", "ours", "rival"}]

(* The children: whoever is alive is managed, or its stop has failed.      *)
ChildInv ==
  /\ \A p \in own : p \in stopErrors \/ \E i \in 1..started : StartOrder[i] = p
  /\ pc \in Outside => own = {} /\ started = 0
  /\ pc \in Started => stopErrors = {}
  /\ pc = "cleanup" => \A i \in 1..started : StartOrder[i] \notin stopErrors

(* The observations are fresh outside of the loop.                         *)
Fresh ==
  /\ now = 0 /\ timeline = EmptyTimeline
  /\ processAlive = FALSE /\ inconclusive = FALSE /\ splitSeen = FALSE
  /\ promoted = NoNode /\ converged = FALSE

FlagTypes ==
  /\ processAlive \in BOOLEAN /\ inconclusive \in BOOLEAN
  /\ splitSeen \in BOOLEAN /\ overlapSeen \in BOOLEAN /\ converged \in BOOLEAN

TimeInv ==
  /\ FlagTypes /\ timeline \in [Events -> Nat \cup {Never}]
  /\ pc \notin Watching \cup {"classify"} => Fresh
  /\ TimelineIsPrefix
  /\ pc \in Watching \cup {"classify"} => timeline["t0"] # Never
  /\ pc \in Poll => now <= Timeout + plan.slow
  /\ pc \in Watching => ~converged
  /\ converged => timeline["t3"] # Never /\ timeline["t4"] # Never /\ now <= Limit

(* What the hub said when, and what is so now: a survivor it lists as      *)
(* MASTER is one, unless it yielded since.                                 *)
Real(list) == \A n \in Survivors \cap Masters(list) : role[n] = "MASTER" \/ n \in yielded

PeersInv ==
  /\ DOMAIN stage = Survivors
  /\ pc \in Watching => Real(registry)
  /\ pc \in {"process", "endpoint"} \/ (pc = "classify" /\ converged) => Real(peers)
  /\ pc = "process" /\ FailedMaster \in own => masterThere
  /\ pc = "endpoint" => /\ FailedMaster \in own => processAlive
                        /\ processAlive => masterThere
  /\ pc = "classify" /\ converged =>
       /\ ConvergedIn(peers) /\ promoted = PromotedIn(peers)
       /\ observer /\ FailedMaster \in own => inconclusive \/ splitSeen

(* What a run is known by: evidence that validate_run accepts once it      *)
(* names its run, and that says of a valid run that it converged, without  *)
(* a split, in time.                                                       *)
Fields == {"run", "experiment", "classification", "reasons", "timing", "promoted",
           "converged", "split"}

Acceptable(s) ==
  /\ s.classification \in {"valid", "invalid"}
  /\ \A f \in TimingFields \cap DOMAIN s.timing : s.timing[f] >= 0
  /\ s.converged \in BOOLEAN /\ s.split \in BOOLEAN
  /\ s.classification = "valid" =>
       /\ TimingFields \subseteq DOMAIN s.timing
       /\ s.promoted # NoNode /\ s.reasons = {}
  /\ s.classification = "invalid" => s.reasons # {}

Sound(s, limit) ==
  /\ DOMAIN s = Fields /\ s.experiment = Experiment /\ Acceptable(s)
  /\ s.classification = "valid" =>
       s.converged /\ ~s.split /\ \A f \in TimingFields : s.timing[f] \in 0..limit

(* As classify_run leaves it.                                              *)
Unnamed(s, limit) == Sound(s, limit) /\ s.run = NoRun

(* A whole summary names the run of its directory, if the executor sees to *)
(* it.                                                                     *)
Written(r) ==
  \/ summary[r] \in {NoSummary, Torn}
  \/ Sound(summary[r], Limit) /\ summary[r].run = IF plan.named THEN r ELSE NoRun

PlanInv ==
  /\ DOMAIN summary = RunIds
  /\ \A r \in RunIds : Written(r) /\ (~Exists(r) => summary[r] = NoSummary)
  /\ evidence = NoEvidence \/ Unnamed(evidence, Limit)
  /\ pc \in {"save", "write"} => Unnamed(evidence, Limit)
  /\ InPlanOrder
  /\ pc \in {"check", "mkdir", "mkdir_logs"} =>
       /\ \A r \in RunIds : (r < current => HasSummary(r)) /\ (r > current => ~Exists(r))
       /\ summary[current] = NoSummary
  /\ pc \in Inside => /\ owner[current] = "ours"
                      /\ summary[current] = IF pc = "write" THEN Torn ELSE NoSummary
  /\ pc = "summarize" => \A r \in RunIds : Exists(r)
  /\ BlockedForCause /\ NamedWhenDone

CampaignInv == TypeOK /\ ChildInv /\ TimeInv /\ PeersInv /\ PlanInv
-----------------------------------------------------------------------------
(* The timeline.                                                           *)

LEMMA EventNames ==
  /\ Events = {"t0", "t1", "t2", "t3", "t4"}
  /\ Earlier("t1") = {"t0"}
  /\ Earlier("t2") = {"t0", "t1"}
  /\ Earlier("t3") = {"t0", "t1", "t2"}
<1>1. Events = {"t0", "t1", "t2", "t3", "t4"}
  BY DEF Events, ToSet, TimelineEvents
<1>2. /\ (CHOOSE i \in 1..5 : TimelineEvents[i] = "t1") = 2
      /\ (CHOOSE i \in 1..5 : TimelineEvents[i] = "t2") = 3
      /\ (CHOOSE i \in 1..5 : TimelineEvents[i] = "t3") = 4
  BY DEF TimelineEvents
<1>3. Earlier("t1") = {TimelineEvents[i] : i \in 1..2 - 1}
  BY <1>2 DEF Earlier
<1>4. Earlier("t2") = {TimelineEvents[i] : i \in 1..3 - 1}
  BY <1>2 DEF Earlier
<1>5. Earlier("t3") = {TimelineEvents[i] : i \in 1..4 - 1}
  BY <1>2 DEF Earlier
<1>6. 1..2 - 1 = {1} /\ 1..3 - 1 = {1, 2} /\ 1..4 - 1 = {1, 2, 3}
  OBVIOUS
<1>7. TimelineEvents[1] = "t0" /\ TimelineEvents[2] = "t1" /\ TimelineEvents[3] = "t2"
  BY DEF TimelineEvents
<1> QED BY <1>1, <1>3, <1>4, <1>5, <1>6, <1>7

Follows(line, e, f) == line[f] # Never => line[e] # Never /\ line[e] <= line[f]

Prefix(line) ==
  Follows(line, "t0", "t1") /\ Follows(line, "t1", "t2")
    /\ Follows(line, "t2", "t3") /\ Follows(line, "t3", "t4")

LEMMA PrefixIsTimeline ==
  (TimelineIsPrefix <=> Prefix(timeline)) /\ (TimelineIsPrefix' <=> Prefix(timeline'))
<1>1. /\ TimelineEvents[1] = "t0" /\ TimelineEvents[2] = "t1" /\ TimelineEvents[3] = "t2"
      /\ TimelineEvents[4] = "t3" /\ TimelineEvents[5] = "t4"
  BY DEF TimelineEvents
<1>2. 1..4 = {1, 2, 3, 4} /\ 1 + 1 = 2 /\ 2 + 1 = 3 /\ 3 + 1 = 4 /\ 4 + 1 = 5
  OBVIOUS
<1> QED BY <1>1, <1>2 DEF TimelineIsPrefix, Prefix, Follows

(* Whatever lines come in whatever order, at one time.                     *)
LEMMA AfterLinesEffect ==
  ASSUME NEW t \in Nat, NEW line \in [Events -> (0..t) \cup {Never}], NEW lines,
         Prefix(line), line["t0"] # Never
  PROVE  /\ AfterLines(line, lines, t) \in [Events -> (0..t) \cup {Never}]
         /\ Prefix(AfterLines(line, lines, t))
         /\ AfterLines(line, lines, t)["t0"] = line["t0"]
         /\ AfterLines(line, lines, t)["t4"] = line["t4"]
<1> DEFINE new == AfterLines(line, lines, t)
<1>0. t \in 0..t /\ Never \notin 0..t
  BY TimelineAssumption
<1>1. \A e \in Events : new[e] = IF Recordable(line, e, t) /\ RecordedBy(line, lines, e)
                                  THEN t ELSE line[e]
  BY DEF AfterLines
<1>2. new \in [Events -> (0..t) \cup {Never}]
  BY <1>0 DEF AfterLines
<1>3. new["t0"] = line["t0"] /\ new["t4"] = line["t4"]
  BY <1>1, EventNames DEF RecordedBy
<1>4. /\ line["t1"] # Never => new["t1"] = line["t1"]
      /\ line["t2"] # Never => new["t2"] = line["t2"]
      /\ line["t3"] # Never => new["t3"] = line["t3"]
  BY <1>1, EventNames DEF Recordable
<1>5. /\ line["t1"] = Never => new["t1"] = Never \/ new["t1"] = t
      /\ line["t2"] = Never => new["t2"] = Never \/ new["t2"] = t
      /\ line["t3"] = Never => new["t3"] = Never \/ new["t3"] = t
  BY <1>1, EventNames
<1>6. \A e \in Events : line[e] # Never => line[e] <= t /\ line[e] \in Int
  OBVIOUS
<1>7. T1By(line, lines, DOMAIN lines) => new["t1"] # Never
  BY <1>0, <1>1, <1>4, <1>6, EventNames DEF Recordable, RecordedBy, T1By
<1>8. T2By(line, lines, DOMAIN lines) => T1By(line, lines, DOMAIN lines)
  BY DEF T2By, T1By, Prefix, Follows
<1>9. T2By(line, lines, DOMAIN lines) => new["t2"] # Never
  BY <1>0, <1>1, <1>4, <1>6, EventNames DEF Recordable, RecordedBy, T2By
<1>10. T3By(line, lines, DOMAIN lines) => T2By(line, lines, DOMAIN lines)
  BY DEF T3By, T2By, T1By, Prefix, Follows
<1>11. new["t1"] # Never => T1By(line, lines, DOMAIN lines)
  BY <1>1, EventNames DEF RecordedBy, T1By
<1>12. new["t2"] # Never => T2By(line, lines, DOMAIN lines)
  BY <1>1, EventNames DEF RecordedBy, T2By
<1>13. new["t3"] # Never => T3By(line, lines, DOMAIN lines)
  BY <1>1, EventNames DEF RecordedBy, T3By
<1> HIDE DEF new
<1>14. Follows(new, "t0", "t1")
  BY <1>3, <1>4, <1>5, <1>6, EventNames DEF Prefix, Follows
<1>15. Follows(new, "t1", "t2")
  BY <1>4, <1>5, <1>6, <1>7, <1>8, <1>12, EventNames DEF Prefix, Follows
<1>16. Follows(new, "t2", "t3")
  BY <1>4, <1>5, <1>6, <1>9, <1>10, <1>13, EventNames DEF Prefix, Follows
<1>17. Follows(new, "t3", "t4")
  BY <1>3, <1>4, <1>6, EventNames DEF Prefix, Follows
<1> QED BY <1>2, <1>3, <1>14, <1>15, <1>16, <1>17 DEF new, Prefix

-----------------------------------------------------------------------------
(* Types and children.                                                     *)

LEMMA TypeParts ==
  /\ TypeOK <=> PcType /\ ProcTypes /\ WorldTypes /\ TimeTypes /\ PlanTypes
  /\ TypeOK' <=> (PcType /\ ProcTypes /\ WorldTypes /\ TimeTypes /\ PlanTypes)'
BY DEF TypeOK, PcType, Outside, Started, Watching, ProcTypes, WorldTypes, TimeTypes, PlanTypes

LEMMA PlanStays == ASSUME [Next]_vars PROVE UNCHANGED plan /\ RunIds' = RunIds
<1>1. UNCHANGED plan
  BY DEF Next, ExecutorStep, Plan, NextStep, CheckLayout, MakeParent, MakeLayout, BeginBody,
         Truncate, Write, SummarizeStep, Restart, RunnerStep, StartRaises, LeaveBody,
         StartChild, AllStarted, Baseline, NoBaseline, ReadLogs, ReadPeersOnly, ReadPeers,
         PeersRaise, PollProcess, ProbeEndpoint, DeadlinePassed, Classify, StopNext,
         CleanupDone, Crash, RivalPrepares, Stop, WorldStep, Register, Reap, Yield, LogMissing,
         PromotionStarts, Promoted, ChildEnds, vars, runVars
<1> QED BY <1>1 DEF RunIds, SampleCount

LEMMA StartOrderFacts ==
  /\ Len(StartOrder) = ClusterSize + 1 /\ ClusterSize \in Nat
  /\ \A i \in 1..ClusterSize + 1 : StartOrder[i] \in NodeIds \cup {Hub}
  /\ \A i, j \in 1..ClusterSize + 1 : StartOrder[i] = StartOrder[j] => i = j
<1> DEFINE n == ClusterSize + 1
           Children == NodeIds \cup {Hub}
<1>1. ClusterSize \in Nat /\ n \in Nat
  BY TimelineAssumption, FS_CardinalityType
<1>2. StartOrder \in [1..n -> Children] /\ ToSet(StartOrder) = Children
  BY RunAssumption
<1>3. IsFiniteSet(1..n) /\ Cardinality(1..n) = n
  <2>1. Cardinality(1..n) = IF 1 > n THEN 0 ELSE n - 1 + 1
    BY <1>1, FS_Interval
  <2> QED BY <1>1, <2>1, FS_Interval
<1>4. Cardinality(Children) = n
  BY TimelineAssumption, RunAssumption, FS_AddElement
<1>5. StartOrder \in Surjection(1..n, Children)
  BY <1>2 DEF Surjection, ToSet
<1>6. StartOrder \in Injection(1..n, Children)
  BY <1>3, <1>4, <1>5, FS_SurjSameCardinalityImpliesInj
<1>7. Len(StartOrder) = n
  BY <1>1, <1>2
<1> QED BY <1>1, <1>2, <1>6, <1>7 DEF Injection, IsInjective

LEMMA ChildInit == Init => ProcTypes /\ ChildInv
<1>1. 0 \in 0..Len(StartOrder)
  BY StartOrderFacts
<1> QED BY <1>1 DEF Init, InitRun, ProcTypes, ChildInv, Outside, Started, Watching

LEMMA ChildStep ==
  ASSUME PcType, ProcTypes, ChildInv, [Next]_vars
  PROVE  PcType' /\ ProcTypes' /\ ChildInv'
<1> USE DEF PcType, ProcTypes, ChildInv, Outside, Started, Watching
<1>1. ASSUME \/ StartRaises \/ NoBaseline \/ PeersRaise \/ Classify
      PROVE  pc \in Started /\ pc' = "cleanup" /\ UNCHANGED procVars
  BY <1>1 DEF StartRaises, NoBaseline, PeersRaise, Classify, LeaveBody
<1>2. ASSUME \/ AllStarted \/ Baseline \/ ReadLogs \/ ReadPeersOnly \/ ReadPeers
             \/ PollProcess \/ ProbeEndpoint \/ DeadlinePassed
      PROVE  pc \in Started /\ pc' \in Started /\ UNCHANGED procVars
  BY <1>2 DEF AllStarted, Baseline, ReadLogs, ReadPeersOnly, ReadPeers, PollProcess,
              ProbeEndpoint, DeadlinePassed, EndsPoll
<1>3. ASSUME \/ Plan \/ NextStep \/ CheckLayout \/ MakeParent \/ Truncate
             \/ SummarizeStep \/ RivalPrepares
             \/ MakeLayout /\ MkdirRaises(current)
      PROVE  pc \in Outside /\ pc' \in Outside /\ UNCHANGED procVars
  BY <1>3 DEF Plan, NextStep, CheckLayout, MakeParent, Truncate, SummarizeStep, RivalPrepares,
              MakeLayout
<1>4. ASSUME \/ UNCHANGED vars
             \/ \E n \in NodeIds : Register(n) \/ Reap(n) \/ Yield(n)
             \/ \E n \in Survivors : LogMissing(n) \/ PromotionStarts(n) \/ Promoted(n)
      PROVE  UNCHANGED <<pc, procVars>>
  BY <1>4 DEF vars, runVars, Register, Reap, Yield, LogMissing, PromotionStarts, Promoted, procVars
<1>5. ASSUME pc \in Started, pc' = "cleanup" \/ pc' \in Started, UNCHANGED procVars
      PROVE  PcType' /\ ProcTypes' /\ ChildInv'
  BY <1>5 DEF procVars
<1>6. ASSUME pc \in Outside, pc' \in Outside, UNCHANGED procVars
      PROVE  PcType' /\ ProcTypes' /\ ChildInv'
  BY <1>6 DEF procVars
<1>7. ASSUME UNCHANGED <<pc, procVars>> PROVE PcType' /\ ProcTypes' /\ ChildInv'
  BY <1>7 DEF procVars
<1>8. ASSUME MakeLayout, ~MkdirRaises(current) PROVE PcType' /\ ProcTypes' /\ ChildInv'
  BY <1>8 DEF MakeLayout, BeginBody
<1>9. ASSUME StartChild PROVE PcType' /\ ProcTypes' /\ ChildInv'
  <2>1. /\ pc = "start" /\ pc' = pc /\ started' = started + 1 /\ started < Len(StartOrder)
        /\ UNCHANGED <<orphans, stopErrors>>
        /\ \/ own' = own
           \/ own' = own \cup {StartOrder[started + 1]} /\ StartOrder[started + 1] \notin orphans
    BY <1>9 DEF StartChild, PortTaken
  <2>2. started' \in 0..Len(StartOrder) /\ 1..started \subseteq 1..started'
        /\ started + 1 \in 1..started'
    BY <2>1, StartOrderFacts
  <2>3. StartOrder[started + 1] \in NodeIds \cup {Hub}
    BY <2>1, <2>2, StartOrderFacts
  <2> QED BY <2>1, <2>2, <2>3
<1>10. ASSUME StopNext PROVE PcType' /\ ProcTypes' /\ ChildInv'
  <2> DEFINE p == StartOrder[started]
  <2>1. /\ pc = "cleanup" /\ pc' = pc /\ started > 0 /\ started' = started - 1
        /\ UNCHANGED orphans
        /\ \/ own' = own \ {p} /\ UNCHANGED stopErrors
           \/ p \in own /\ stopErrors' = stopErrors \cup {p} /\ UNCHANGED own
    BY <1>10 DEF StopNext, NextToStop
  <2>2. /\ started' \in 0..Len(StartOrder) /\ started \in 1..started
        /\ 1..started = (1..started') \cup {started} /\ started \notin 1..started'
    BY <2>1, StartOrderFacts
  <2>3. p \notin stopErrors
    BY <2>1, <2>2
  <2>4. \A i \in 1..started' : StartOrder[i] # p
    BY <2>2, StartOrderFacts
  <2> HIDE DEF p
  <2>5. ProcTypes'
    BY <2>1, <2>2, <2>3
  <2>6. \A q \in own' : q \in stopErrors' \/ \E i \in 1..started' : StartOrder[i] = q
    BY <2>1, <2>2 DEF p
  <2>7. \A i \in 1..started' : StartOrder[i] \notin stopErrors'
    BY <2>1, <2>2, <2>4
  <2> QED BY <2>1, <2>5, <2>6, <2>7
<1>11. ASSUME CleanupDone PROVE PcType' /\ ProcTypes' /\ ChildInv'
  BY <1>11 DEF CleanupDone
<1>12. ASSUME NEW p \in NodeIds \cup {Hub}, ChildEnds(p)
       PROVE  PcType' /\ ProcTypes' /\ ChildInv'
  BY <1>12 DEF ChildEnds, WorldMoves, Observing
<1>13. ASSUME Write PROVE PcType' /\ ProcTypes' /\ ChildInv'
  BY <1>13 DEF Write
<1>14. ASSUME Restart PROVE PcType' /\ ProcTypes' /\ ChildInv'
  BY <1>14 DEF Restart
<1>15. ASSUME Crash PROVE PcType' /\ ProcTypes' /\ ChildInv'
  BY <1>15, StartOrderFacts DEF Crash
<1>16. Stop => UNCHANGED vars
  BY DEF Stop
<1> QED BY <1>1, <1>2, <1>3, <1>4, <1>5, <1>6, <1>7, <1>8, <1>9, <1>10, <1>11, <1>12, <1>13,
           <1>14, <1>15, <1>16 DEF Next, ExecutorStep, RunnerStep, WorldStep

-----------------------------------------------------------------------------
(* Observations.                                                           *)

LEMMA PlanFacts ==
  ASSUME plan \in Plans
  PROVE  /\ Timeout \in Nat /\ plan.slow \in Nat /\ Limit \in Nat /\ Timeout + plan.slow <= Limit
         /\ observer \in BOOLEAN /\ SampleCount \in Nat \ {0}
<1>1. plan.timeout \in Nat /\ plan.slow \in Nat /\ plan.observer \in BOOLEAN
      /\ plan.samples \in Nat \ {0}
  BY RunAssumption
<1> QED BY <1>1 DEF Timeout, Limit, observer, SampleCount

(* A converged answer has one MASTER, a survivor.                          *)
LEMMA PromotedFacts ==
  ASSUME NEW seen, ConvergedIn(seen)
  PROVE  Masters(seen) = {PromotedIn(seen)} /\ PromotedIn(seen) \in Survivors
<1>1. DOMAIN seen = Survivors /\ PromotedIn(seen) # NoNode
  BY DEF ConvergedIn
<1>2. Cardinality(Masters(seen)) = 1 /\ PromotedIn(seen) = CHOOSE n \in Masters(seen) : TRUE
  BY <1>1 DEF PromotedIn
<1>3. Masters(seen) \subseteq Survivors
  BY <1>1 DEF Masters
<1>4. IsFiniteSet(Masters(seen))
  BY <1>3, TimelineAssumption, FS_Subset DEF Survivors
<1>5. \E m : Masters(seen) = {m}
  BY <1>2, <1>4, FS_Singleton
<1> QED BY <1>2, <1>3, <1>5

LEMMA EmptyIsPrefix ==
  /\ EmptyTimeline \in [Events -> {Never}]
  /\ Prefix(EmptyTimeline)
BY EventNames DEF EmptyTimeline, Prefix, Follows

(* A run that ends, or dies, leaves no observation.                        *)
LEMMA FreshEffect ==
  ASSUME plan \in Plans, UNCHANGED plan, FreshObservations, pc' \notin Watching \cup {"classify"},
         overlapSeen' = FALSE
  PROVE  TimeTypes' /\ TimeInv'
<1>1. Limit' = Limit /\ Limit \in Nat
  BY PlanFacts DEF Timeout, Limit
<1>2. /\ timeline' = EmptyTimeline /\ timeline' \in [Events -> {Never}]
      /\ TimelineIsPrefix' /\ now' = 0 /\ yielded' = {}
  BY EmptyIsPrefix, PrefixIsTimeline DEF FreshObservations
<1>3. Fresh' /\ FlagTypes' /\ promoted' = NoNode /\ converged' = FALSE
  BY DEF FreshObservations, Fresh, FlagTypes
<1>4. TimeTypes'
  BY <1>1, <1>2, <1>3 DEF TimeTypes
<1>5. timeline' \in [Events -> Nat \cup {Never}]
  BY <1>2
<1> QED BY <1>2, <1>3, <1>4, <1>5 DEF TimeInv, Poll, Watching

(* The end of a poll, whatever the hub has said.                           *)
LEMMA EndsPollEffect ==
  ASSUME plan \in Plans, UNCHANGED plan, TimeTypes, TimeInv, pc \in Poll, NEW seen, EndsPoll(seen),
         inconclusive' \in BOOLEAN, splitSeen' \in BOOLEAN
  PROVE  /\ TimeTypes' /\ TimeInv'
         /\ pc' \in {"logs", "classify"}
         /\ converged' => pc' = "classify" /\ peers' = seen /\ ConvergedIn(seen)
                          /\ promoted' = PromotedIn(seen)
         /\ pc' = "classify" => converged'
<1>1. /\ Timeout' = Timeout /\ Limit' = Limit /\ plan'.slow = plan.slow
      /\ Timeout \in Nat /\ plan.slow \in Nat /\ Limit = Timeout + 2 * plan.slow
  BY PlanFacts DEF Timeout, Limit
<1>2. /\ timeline \in [Events -> (0..now) \cup {Never}] /\ now \in Nat
      /\ now <= Timeout + plan.slow
      /\ timeline["t0"] # Never /\ Never \notin Int
      /\ Prefix(timeline)
  <2>1. /\ timeline \in [Events -> Nat \cup {Never}] /\ now \in Nat
        /\ now <= Timeout + plan.slow
        /\ timeline["t0"] # Never /\ TimelineIsPrefix
    BY <1>1 DEF TimeTypes, TimeInv, Poll, Watching
  <2>2. \A e \in Events : timeline[e] \in (0..now) \cup {Never}
    BY DEF TimeTypes
  <2> QED BY <2>1, <2>2, TimelineAssumption, PrefixIsTimeline
<1>3. PICK t \in now..now + plan.slow :
        /\ timeline' = IF converged' THEN [timeline EXCEPT !["t4"] = t] ELSE timeline
        /\ now' = IF converged' THEN t ELSE t + 1
  BY DEF EndsPoll
<1>4. t \in Nat /\ now <= t /\ t <= Limit /\ yielded' \subseteq NodeIds
  BY <1>1, <1>2, <1>3 DEF EndsPoll, TimeTypes
<1>5. CASE converged'
  <2>1. /\ ConvergedIn(seen) /\ timeline["t3"] # Never
        /\ timeline' = [timeline EXCEPT !["t4"] = t]
        /\ pc' = "classify" /\ now' = t /\ peers' = seen /\ promoted' = PromotedIn(seen)
    BY <1>3, <1>5 DEF EndsPoll
  <2>2. timeline \in [Events -> (0..t) \cup {Never}]
    <3>1. 0..now \subseteq 0..t
      BY <1>2, <1>4
    <3> QED BY <1>2, <3>1
  <2>3. timeline' \in [Events -> (0..t) \cup {Never}]
    <3>1. t \in 0..t
      BY <1>4
    <3> QED BY <2>1, <2>2, <3>1, Zenon
  <2>4. /\ Prefix(timeline')
        /\ timeline'["t0"] # Never /\ timeline'["t3"] # Never /\ timeline'["t4"] # Never
    BY <1>2, <1>4, <2>1, <2>2, EventNames DEF Prefix, Follows
  <2>5. promoted' \in Survivors
    BY <2>1, PromotedFacts
  <2>6. TimeTypes'
    BY <1>1, <1>4, <2>1, <2>3, <2>5 DEF TimeTypes
  <2>7. timeline' \in [Events -> Nat \cup {Never}]
    BY <1>4, <2>3
  <2>8. TimeInv'
    BY <1>1, <1>4, <1>5, <2>1, <2>4, <2>7, PrefixIsTimeline
       DEF EndsPoll, TimeInv, FlagTypes, Poll, Watching
  <2> QED BY <1>5, <2>1, <2>6, <2>8
<1>6. CASE ~converged'
  <2>1. /\ timeline' = timeline /\ pc' = "logs" /\ now' = t + 1 /\ processAlive' = FALSE
        /\ promoted' = IF ConvergedIn(seen) THEN PromotedIn(seen) ELSE promoted
        /\ converged' = FALSE /\ overlapSeen' \in BOOLEAN
    <3>1. converged' \in BOOLEAN /\ overlapSeen' \in BOOLEAN
      BY DEF EndsPoll
    <3> QED BY <1>3, <1>6, <3>1 DEF EndsPoll
  <2>2. promoted' \in Survivors \cup {NoNode}
    BY <2>1, PromotedFacts DEF TimeTypes
  <2>3. timeline' \in [Events -> (0..now') \cup {Never}] /\ now' \in 0..Limit + 1
    BY <1>1, <1>2, <1>4, <2>1
  <2> QED BY <1>1, <1>2, <1>4, <2>1, <2>2, <2>3, PrefixIsTimeline
          DEF TimeTypes, TimeInv, FlagTypes, Poll, Watching
<1> QED BY <1>5, <1>6

LEMMA TimeStep ==
  ASSUME plan \in Plans, PcType, TimeTypes, TimeInv, [Next]_vars
  PROVE  TimeTypes' /\ TimeInv'
<1>0. /\ UNCHANGED plan /\ Timeout' = Timeout /\ Limit' = Limit /\ plan'.slow = plan.slow
      /\ Timeout \in Nat /\ plan.slow \in Nat /\ Limit = Timeout + 2 * plan.slow
  BY PlanStays, PlanFacts DEF Timeout, Limit
<1>1. ASSUME \/ StartRaises \/ NoBaseline \/ PeersRaise \/ Classify \/ Crash
      PROVE  TimeTypes' /\ TimeInv'
  <2>1. FreshObservations /\ pc' \in {"cleanup", "down"} /\ overlapSeen' = FALSE
    BY <1>1 DEF StartRaises, NoBaseline, PeersRaise, Classify, Crash, LeaveBody, FreshObservations
  <2> QED BY <1>0, <2>1, FreshEffect DEF Watching
<1>2. ASSUME Baseline PROVE TimeTypes' /\ TimeInv'
  <2>1. /\ Fresh /\ pc' = "logs" /\ timeline' = [timeline EXCEPT !["t0"] = 0]
        /\ UNCHANGED <<now, yielded, flagVars>>
    BY <1>2 DEF Baseline, TimeInv, Watching
  <2>2. /\ timeline' \in [Events -> {0, Never}] /\ Prefix(timeline') /\ timeline'["t0"] # Never
        /\ now = 0
    BY <2>1, EventNames, EmptyIsPrefix, TimelineAssumption DEF Fresh, EmptyTimeline, Prefix, Follows
  <2> QED BY <1>0, <2>1, <2>2, PrefixIsTimeline
          DEF TimeTypes, TimeInv, FlagTypes, flagVars, Fresh, Poll, Watching
<1>3. ASSUME ReadLogs PROVE TimeTypes' /\ TimeInv'
  <2>1. PICK t \in now..now + plan.slow : now' = t
    BY <1>3 DEF ReadLogs
  <2>2. PICK lines : timeline' = AfterLines(timeline, lines, now')
    BY <1>3 DEF ReadLogs
  <2>3. /\ pc = "logs" /\ pc' = "peers" /\ now <= Timeout /\ UNCHANGED <<yielded, flagVars>>
        /\ now \in Nat
    BY <1>0, <1>3 DEF ReadLogs, BeforeDeadline, TimeTypes
  <2>4. t \in Nat /\ now <= t /\ t <= Timeout + plan.slow
    BY <1>0, <2>1, <2>3
  <2>5. timeline \in [Events -> (0..t) \cup {Never}]
    <3>1. timeline \in [Events -> Nat \cup {Never}]
      BY DEF TimeInv
    <3>2. \A e \in Events : timeline[e] \in (0..now) \cup {Never}
      BY DEF TimeTypes
    <3>3. \A e \in Events : timeline[e] \in (0..t) \cup {Never}
      BY <2>3, <2>4, <3>2
    <3> QED BY <3>1, <3>3
  <2>6. Prefix(timeline) /\ timeline["t0"] # Never
    BY <2>3, PrefixIsTimeline DEF TimeInv, Watching
  <2>7. /\ timeline' \in [Events -> (0..t) \cup {Never}] /\ Prefix(timeline')
        /\ timeline'["t0"] # Never
    BY <2>1, <2>2, <2>4, <2>5, <2>6, AfterLinesEffect
  <2>8. TimeTypes'
    BY <1>0, <2>1, <2>3, <2>4, <2>7 DEF TimeTypes, flagVars
  <2>9. timeline' \in [Events -> Nat \cup {Never}]
    BY <2>4, <2>7
  <2> QED BY <1>0, <2>1, <2>3, <2>4, <2>7, <2>8, <2>9, PrefixIsTimeline
          DEF TimeInv, FlagTypes, flagVars, Poll, Watching
<1>4. ASSUME ReadPeersOnly \/ ProbeEndpoint PROVE TimeTypes' /\ TimeInv'
  <2>1. PICK seen : EndsPoll(seen)
    BY <1>4 DEF ReadPeersOnly, ProbeEndpoint
  <2>2. pc \in Poll /\ inconclusive' \in BOOLEAN /\ splitSeen' \in BOOLEAN
    BY <1>4 DEF ReadPeersOnly, ProbeEndpoint, TimeInv, FlagTypes, Poll
  <2> QED BY <1>0, <2>1, <2>2, EndsPollEffect
<1>5. ASSUME ReadPeers \/ PollProcess PROVE TimeTypes' /\ TimeInv'
  <2>1. /\ pc \in Poll /\ pc' \in Poll /\ processAlive' \in BOOLEAN
        /\ UNCHANGED <<now, yielded, timeline, inconclusive, splitSeen, overlapSeen, promoted,
                       converged>>
    <3>1. CASE ReadPeers
      BY <3>1 DEF ReadPeers, flagVars, Poll, TimeInv, FlagTypes
    <3>2. CASE PollProcess
      <4>1. processAlive' \in BOOLEAN
        BY <3>2 DEF PollProcess
      <4> QED BY <3>2, <4>1 DEF PollProcess, Poll
    <3> QED BY <1>5, <3>1, <3>2
  <2> QED BY <1>0, <2>1 DEF TimeTypes, TimeInv, FlagTypes, TimelineIsPrefix, Poll, Watching
<1>6. ASSUME DeadlinePassed PROVE TimeTypes' /\ TimeInv'
  <2>1. pc = "logs" /\ pc' = "classify" /\ UNCHANGED <<now, timeline, yielded, flagVars>>
    BY <1>6 DEF DeadlinePassed, seenVars
  <2> QED BY <1>0, <2>1
          DEF TimeTypes, TimeInv, FlagTypes, TimelineIsPrefix, flagVars, Poll, Watching
<1>7. ASSUME UNCHANGED <<now, timeline, flagVars>>, yielded' \subseteq NodeIds,
             \/ pc' = pc
             \/ pc \notin Watching \cup {"classify"} /\ pc' \notin Watching \cup {"classify"}
      PROVE  TimeTypes' /\ TimeInv'
  BY <1>0, <1>7
     DEF TimeTypes, TimeInv, FlagTypes, Fresh, TimelineIsPrefix, flagVars, Poll, Watching
<1>8. ASSUME \/ Plan \/ NextStep \/ CheckLayout \/ MakeParent \/ MakeLayout \/ Truncate
             \/ Write \/ SummarizeStep \/ Restart \/ StartChild \/ AllStarted \/ StopNext
             \/ CleanupDone \/ RivalPrepares \/ UNCHANGED vars
      PROVE  /\ UNCHANGED <<now, timeline, flagVars>> /\ yielded' \subseteq NodeIds
             /\ \/ pc' = pc
                \/ /\ pc \notin Watching \cup {"classify"}
                   /\ pc' \notin Watching \cup {"classify"}
  <2>1. /\ UNCHANGED seenVars
        /\ \/ pc' = pc
           \/ /\ pc \notin Watching \cup {"classify"}
              /\ pc' \notin Watching \cup {"classify"}
    BY <1>8 DEF Plan, NextStep, CheckLayout, MakeParent, MakeLayout, BeginBody, Truncate, Write,
                SummarizeStep, Restart, StartChild, AllStarted, StopNext, CleanupDone,
                RivalPrepares, vars, runVars, Watching
  <2> QED BY <2>1 DEF seenVars, TimeTypes
<1>9. ASSUME WorldStep
      PROVE  UNCHANGED <<now, timeline, flagVars, pc>> /\ yielded' \subseteq NodeIds
  <2>1. CASE \E n \in NodeIds : Yield(n)
    BY <2>1 DEF Yield, TimeTypes
  <2>2. CASE WorldStep /\ ~ \E n \in NodeIds : Yield(n)
    BY <2>2 DEF WorldStep, Register, Reap, LogMissing, PromotionStarts, Promoted, ChildEnds,
                seenVars, TimeTypes
  <2> QED BY <1>9, <2>1, <2>2
<1> QED BY <1>1, <1>2, <1>3, <1>4, <1>5, <1>6, <1>7, <1>8, <1>9
        DEF Next, ExecutorStep, RunnerStep, Stop

-----------------------------------------------------------------------------
(* The cluster and what the hub says of it.                                *)

LEMMA FreshWorldEffect ==
  ASSUME WorldTypes, NEW kept, FreshWorld(kept)
  PROVE  WorldTypes' /\ DOMAIN stage' = Survivors
<1>1. "MASTER" \in Roles /\ "FOLLOWER" \in Roles /\ Survivors \subseteq NodeIds
      /\ FailedMaster \notin Survivors
  BY DEF Roles, Survivors
<1>2. role' \in [NodeIds -> Roles] /\ DOMAIN stage' = Survivors
  BY <1>1 DEF FreshWorld, WorldTypes
<1>3. DOMAIN registry' \subseteq NodeIds
  BY DEF FreshWorld, WorldTypes, EmptyRegistry
<1>4. \A n \in Survivors : role'[n] = "MASTER" <=> stage'[n] = "promoted"
  BY <1>1 DEF FreshWorld, WorldTypes
<1> QED BY <1>2, <1>3, <1>4 DEF WorldTypes

LEMMA PeersStep ==
  ASSUME plan \in Plans, PcType, ProcTypes, WorldTypes, TimeTypes, TimeInv, PeersInv, [Next]_vars
  PROVE  WorldTypes' /\ PeersInv'
<1> USE DEF Watching
<1>0. UNCHANGED plan /\ observer' = observer /\ FailedMaster \notin Survivors
      /\ Survivors \subseteq NodeIds
  BY PlanStays DEF observer, Survivors
<1>1. ASSUME WorldTypes', DOMAIN stage' = Survivors, pc' \notin Watching \cup {"classify"}
      PROVE  WorldTypes' /\ PeersInv'
  BY <1>1 DEF PeersInv
<1>2. ASSUME \/ StartRaises \/ NoBaseline \/ PeersRaise \/ Classify \/ Crash \/ CleanupDone
             \/ Restart
      PROVE  WorldTypes' /\ PeersInv'
  <2>1. pc' \notin Watching \cup {"classify"}
    BY <1>2 DEF StartRaises, NoBaseline, PeersRaise, Classify, Crash, CleanupDone, Restart,
                LeaveBody
  <2>2. CASE UNCHANGED <<role, stage, registry>>
    BY <1>1, <2>1, <2>2 DEF WorldTypes, PeersInv
  <2>3. ASSUME NEW kept, FreshWorld(kept) PROVE WorldTypes' /\ PeersInv'
    BY <1>1, <2>1, <2>3, FreshWorldEffect
  <2> QED BY <1>2, <2>2, <2>3 DEF StartRaises, NoBaseline, PeersRaise, Classify, Crash,
                                   CleanupDone, Restart, LeaveBody
<1>3. ASSUME UNCHANGED worldVars PROVE WorldTypes' /\ DOMAIN stage' = Survivors
  BY <1>3 DEF worldVars, WorldTypes, PeersInv
<1>4. ASSUME Baseline PROVE WorldTypes' /\ PeersInv'
  <2>1. Masters(registry) = {FailedMaster} /\ pc' = "logs" /\ UNCHANGED worldVars
    BY <1>4 DEF Baseline, BaselineIn
  <2>2. registry' = registry
    BY <2>1 DEF worldVars
  <2>3. Survivors \cap Masters(registry') = {}
    BY <1>0, <2>1, <2>2
  <2>4. pc' = "logs" /\ WorldTypes' /\ DOMAIN stage' = Survivors
    BY <1>3, <2>1
  <2> QED BY <2>3, <2>4 DEF PeersInv, Real
<1>5. ASSUME ReadLogs PROVE WorldTypes' /\ PeersInv'
  <2>1. pc = "logs" /\ pc' = "peers" /\ UNCHANGED <<role, stage, registry, yielded>>
    BY <1>5 DEF ReadLogs
  <2> QED BY <2>1 DEF PeersInv, Real, WorldTypes
<1>6. ASSUME ReadPeersOnly PROVE WorldTypes' /\ PeersInv'
  <2>1. pc = "peers" /\ ~observer /\ EndsPoll(registry) /\ UNCHANGED worldVars
        /\ inconclusive' \in BOOLEAN /\ splitSeen' \in BOOLEAN
    BY <1>6 DEF ReadPeersOnly, TimeInv, FlagTypes
  <2>2. /\ pc' \in {"logs", "classify"}
        /\ converged' => peers' = registry /\ ConvergedIn(registry)
                         /\ promoted' = PromotedIn(registry)
    BY <1>0, <2>1, EndsPollEffect DEF Poll
  <2>3. Real(registry) /\ UNCHANGED <<role, registry, yielded>>
    BY <2>1 DEF PeersInv, worldVars, EndsPoll
  <2> QED BY <1>0, <1>3, <2>1, <2>2, <2>3 DEF PeersInv, Real
<1>7. ASSUME ReadPeers PROVE WorldTypes' /\ PeersInv'
  <2>1. /\ pc = "peers" /\ pc' = "process" /\ UNCHANGED <<worldVars, own, orphans, yielded>>
        /\ peers' = registry /\ masterThere' = Alive(FailedMaster)
    BY <1>7 DEF ReadPeers, procVars
  <2> QED BY <1>3, <2>1 DEF PeersInv, Real, worldVars, Alive
<1>8. ASSUME PollProcess PROVE WorldTypes' /\ PeersInv'
  <2>1. /\ pc = "process" /\ pc' = "endpoint"
        /\ UNCHANGED <<worldVars, own, peers, masterThere, yielded>>
        /\ processAlive' = (FailedMaster \in own)
    BY <1>8 DEF PollProcess, procVars
  <2> QED BY <1>3, <2>1 DEF PeersInv, Real, worldVars
<1>9. ASSUME ProbeEndpoint PROVE WorldTypes' /\ PeersInv'
  <2>1. PICK answer \in EndpointAnswers :
          /\ splitSeen' = (splitSeen \/
               /\ OperationallyAlive(processAlive, answer) = "alive"
               /\ Masters(peers) \ {FailedMaster} # {})
          /\ inconclusive' = (inconclusive \/
               OperationallyAlive(processAlive, answer) = "inconclusive")
    BY <1>9 DEF ProbeEndpoint, PeersJudged
  <2>2. pc = "endpoint" /\ EndsPoll(peers) /\ UNCHANGED <<worldVars, own>>
    BY <1>9 DEF ProbeEndpoint, procVars
  <2>3. inconclusive' \in BOOLEAN /\ splitSeen' \in BOOLEAN
    BY <2>1
  <2>4. /\ pc' \in {"logs", "classify"}
        /\ converged' => peers' = peers /\ ConvergedIn(peers) /\ promoted' = PromotedIn(peers)
    BY <1>0, <2>2, <2>3, EndsPollEffect DEF Poll
  <2>5. converged' /\ FailedMaster \in own => inconclusive' \/ splitSeen'
    <3> SUFFICES ASSUME converged', FailedMaster \in own PROVE inconclusive' \/ splitSeen'
      OBVIOUS
    <3>1. processAlive /\ Masters(peers) \ {FailedMaster} # {}
      BY <1>0, <2>2, <2>4, PromotedFacts DEF PeersInv
    <3>2. OperationallyAlive(processAlive, answer) \in {"alive", "inconclusive"}
      BY <3>1 DEF OperationallyAlive
    <3> QED BY <2>1, <3>1, <3>2
  <2>6. /\ Real(registry) /\ Real(peers)
        /\ role' = role /\ registry' = registry /\ yielded' = yielded
    <3>1. role' = role /\ registry' = registry /\ yielded' = yielded
      BY <2>2 DEF worldVars, EndsPoll
    <3> QED BY <2>2, <3>1 DEF PeersInv
  <2> QED BY <1>3, <2>2, <2>4, <2>5, <2>6 DEF PeersInv, Real
<1>10. ASSUME DeadlinePassed PROVE WorldTypes' /\ PeersInv'
  <2>1. pc = "logs" /\ pc' = "classify" /\ ~converged' /\ UNCHANGED worldVars
    BY <1>10 DEF DeadlinePassed, seenVars, flagVars, TimeInv
  <2>2. UNCHANGED <<role, registry, yielded>>
    BY <1>10, <2>1 DEF DeadlinePassed, seenVars, worldVars
  <2> QED BY <1>3, <2>1, <2>2 DEF PeersInv, Real
<1>11. ASSUME NEW n \in NodeIds, Register(n) \/ Reap(n) PROVE WorldTypes' /\ PeersInv'
  <2>1. UNCHANGED <<pc, own, role, stage, plan, seenVars>> /\ pc # "classify"
    BY <1>11 DEF Register, Reap, procVars, WorldMoves, Observing
  <2>2. /\ DOMAIN registry' \subseteq NodeIds
        /\ \A m \in Masters(registry') : m \in Masters(registry) \/ role[m] = "MASTER"
    <3>1. CASE Register(n)
      <4>1. registry' = [m \in DOMAIN registry \cup {n} |-> IF m = n THEN role[n] ELSE registry[m]]
        BY <3>1 DEF Register
      <4> QED BY <4>1 DEF WorldTypes, Masters
    <3>2. CASE Reap(n)
      <4>1. registry' = [m \in DOMAIN registry \ {n} |-> registry[m]]
        BY <3>2 DEF Reap
      <4> QED BY <4>1 DEF WorldTypes, Masters
    <3> QED BY <1>11, <3>1, <3>2
  <2> QED BY <1>0, <2>1, <2>2 DEF WorldTypes, PeersInv, Real, seenVars, flagVars
<1>12. ASSUME NEW n \in Survivors, LogMissing(n) \/ PromotionStarts(n)
       PROVE  WorldTypes' /\ PeersInv'
  <2>1. /\ UNCHANGED <<pc, own, role, registry, plan, seenVars>> /\ pc # "classify"
        /\ stage[n] # "promoted"
        /\ \E s \in {"missing", "elected", "started"} : stage' = [stage EXCEPT ![n] = s]
    BY <1>12 DEF LogMissing, PromotionStarts, procVars, WorldMoves, Observing
  <2>2. /\ DOMAIN stage' = Survivors
        /\ \A m \in Survivors : stage'[m] = "promoted" <=> stage[m] = "promoted"
    BY <2>1 DEF PeersInv
  <2> QED BY <1>0, <2>1, <2>2 DEF WorldTypes, PeersInv, Real, seenVars, flagVars
<1>13. ASSUME NEW n \in Survivors, Promoted(n) PROVE WorldTypes' /\ PeersInv'
  <2>1. /\ UNCHANGED <<pc, own, registry, plan, seenVars>> /\ pc # "classify"
        /\ stage' = [stage EXCEPT ![n] = "promoted"]
        /\ role' = [role EXCEPT ![n] = "MASTER"]
    BY <1>13 DEF Promoted, procVars, WorldMoves, Observing
  <2>2. DOMAIN stage' = Survivors /\ role' \in [NodeIds -> Roles]
    BY <1>0, <2>1 DEF PeersInv, WorldTypes, Roles
  <2>3. \A m \in Survivors : /\ stage'[m] = IF m = n THEN "promoted" ELSE stage[m]
                             /\ role'[m] = IF m = n THEN "MASTER" ELSE role[m]
    BY <1>0, <2>1 DEF PeersInv, WorldTypes
  <2> QED BY <1>0, <2>1, <2>2, <2>3 DEF WorldTypes, PeersInv, Real, seenVars, flagVars
<1>14. ASSUME NEW p \in NodeIds \cup {Hub}, ChildEnds(p) PROVE WorldTypes' /\ PeersInv'
  <2>1. UNCHANGED <<pc, worldVars, plan, seenVars>> /\ own' \subseteq own /\ pc # "classify"
    BY <1>14 DEF ChildEnds, WorldMoves, Observing
  <2> QED BY <1>0, <2>1 DEF WorldTypes, PeersInv, Real, worldVars, seenVars, flagVars
<1>15. ASSUME \/ Plan \/ NextStep \/ CheckLayout \/ MakeParent \/ MakeLayout \/ Truncate \/ Write
              \/ SummarizeStep \/ StartChild \/ AllStarted \/ StopNext \/ RivalPrepares
       PROVE  WorldTypes' /\ PeersInv'
  <2>1. UNCHANGED worldVars /\ pc' \notin Watching \cup {"classify"}
    BY <1>15 DEF Plan, NextStep, CheckLayout, MakeParent, MakeLayout, BeginBody, Truncate,
                 Write, SummarizeStep, StartChild, AllStarted, StopNext, RivalPrepares
  <2> QED BY <1>1, <1>3, <2>1
<1>16. ASSUME UNCHANGED vars PROVE WorldTypes' /\ PeersInv'
  <2>1. UNCHANGED <<pc, own, worldVars, plan, seenVars>>
    BY <1>16 DEF vars, runVars, procVars
  <2> QED BY <1>0, <2>1 DEF WorldTypes, PeersInv, Real, worldVars, seenVars, flagVars
<1>17. ASSUME NEW n \in NodeIds, Yield(n) PROVE WorldTypes' /\ PeersInv'
  <2>1. /\ UNCHANGED <<pc, own, registry, plan, peers, masterThere, flagVars>> /\ pc # "classify"
        /\ role' = [role EXCEPT ![n] = "FOLLOWER"] /\ yielded' = yielded \cup {n}
        /\ stage' = [m \in Survivors |-> IF m = n THEN "watching" ELSE stage[m]]
    BY <1>17 DEF Yield, procVars, WorldMoves, Observing
  <2>2. DOMAIN stage' = Survivors /\ role' \in [NodeIds -> Roles]
    BY <1>0, <2>1 DEF WorldTypes, Roles
  <2>3. \A m \in Survivors : /\ stage'[m] = IF m = n THEN "watching" ELSE stage[m]
                             /\ role'[m] = IF m = n THEN "FOLLOWER" ELSE role[m]
    BY <1>0, <2>1 DEF WorldTypes
  <2>4. WorldTypes'
    BY <2>1, <2>2, <2>3 DEF WorldTypes
  <2>5. \A m \in Survivors : role[m] = "MASTER" \/ m \in yielded
                            => role'[m] = "MASTER" \/ m \in yielded'
    BY <2>1, <2>3
  <2>6. (Real(registry) => Real(registry)') /\ (Real(peers) => Real(peers)')
    BY <2>1, <2>5 DEF Real
  <2> QED BY <1>0, <2>1, <2>2, <2>4, <2>6 DEF PeersInv, flagVars
<1> QED BY <1>2, <1>4, <1>5, <1>6, <1>7, <1>8, <1>9, <1>10, <1>11, <1>12, <1>13, <1>14, <1>15,
           <1>16, <1>17 DEF Next, ExecutorStep, RunnerStep, WorldStep, Stop


-----------------------------------------------------------------------------
(* The plan.                                                               *)

LEMMA TroubleStep ==
  ASSUME plan \in Plans, trouble \in 0..plan.trouble, [Next]_vars
  PROVE  trouble' \in 0..plan'.trouble
<1>1. UNCHANGED plan /\ plan.trouble \in Nat
  BY PlanStays, RunAssumption
<1>2. UNCHANGED trouble \/ \E kind : Lose(kind)
  BY DEF Next, ExecutorStep, Plan, NextStep, CheckLayout, MakeParent, MakeLayout, BeginBody,
         Truncate, Write, SummarizeStep, Restart, RunnerStep, StartRaises, LeaveBody,
         StartChild, AllStarted, Baseline, NoBaseline, ReadLogs, ReadPeersOnly, ReadPeers,
         PeersRaise, PollProcess, ProbeEndpoint, DeadlinePassed, Classify, StopNext,
         CleanupDone, Crash, RivalPrepares, Stop, WorldStep, Register, Reap, Yield, LogMissing,
         PromotionStarts, Promoted, ChildEnds, vars, runVars
<1> QED BY <1>1, <1>2 DEF Lose

(* Every nonempty set of run ids has a least one.                          *)
LEMMA NextRunLeast ==
  ASSUME plan \in Plans, Pending # {}
  PROVE  NextRun \in Pending /\ \A r \in Pending : NextRun <= r
<1>1. Pending \subseteq Nat
  BY PlanFacts, PlanAssumption DEF Pending, RunIds
<1>2. \E x \in Pending : \A y \in Pending : ~ (<<y, x>> \in OpToRel(<, Nat))
  BY <1>1, NatLessThanWellFounded, WFMin
<1>3. PICK x \in Pending : \A y \in Pending : ~ (<<y, x>> \in OpToRel(<, Nat))
  BY <1>2
<1>4. \A y \in Nat : y < x => <<y, x>> \in OpToRel(<, Nat)
  <2> SUFFICES ASSUME NEW y \in Nat, y < x PROVE <<y, x>> \in OpToRel(<, Nat)
    OBVIOUS
  <2>1. <<y, x>> \in Nat \X Nat /\ <<y, x>>[1] < <<y, x>>[2]
    BY <1>1
  <2> QED BY <2>1 DEF OpToRel
<1>5. \A y \in Pending : ~(y < x)
  BY <1>1, <1>3, <1>4, Zenon
<1>6. \A y \in Pending : x <= y
  BY <1>1, <1>5
<1> QED BY <1>6 DEF NextRun, Min

(* Whatever classify_run makes of the observations can be accepted: the    *)
(* differences are not negative and an invalid run has a reason.           *)
LEMMA EvidenceSound ==
  ASSUME plan \in Plans, TimeTypes, TimeInv
  PROVE  Unnamed(ClassifyRun(timeline, promoted, converged, SplitJudged, Cause), Limit)
<1> DEFINE valid == ClassifiedValid(timeline, promoted, converged, SplitJudged, Cause)
           ev == ClassifyRun(timeline, promoted, converged, SplitJudged, Cause)
<1>1. /\ ev.classification = IF valid THEN "valid" ELSE "invalid"
      /\ ev.reasons = IF valid THEN {}
                      ELSE Reasons(timeline, promoted, converged, SplitJudged, Cause)
      /\ ev.timing = TimingMs(timeline) /\ ev.promoted = promoted
      /\ ev.converged = converged /\ ev.split = SplitJudged
      /\ ev.experiment = Experiment /\ ev.run = NoRun /\ DOMAIN ev = Fields
  BY DEF ClassifyRun, Fields
<1>2. converged \in BOOLEAN /\ SplitJudged \in BOOLEAN
  BY DEF TimeInv, FlagTypes, SplitJudged
<1> HIDE DEF ev
<1>3. /\ Prefix(timeline) /\ timeline \in [Events -> Nat \cup {Never}] /\ Never \notin Int
  BY PrefixIsTimeline, TimelineAssumption DEF TimeInv
<1> DEFINE known == {l \in DOMAIN Intervals : \A i \in 1..2 : timeline[Intervals[l][i]] # Never}
<1>4. /\ DOMAIN Intervals = {"t0_to_t1", "t1_to_t2", "t2_to_t3", "t1_to_t3", "t3_to_t4", "t0_to_t4"}
      /\ Intervals["t0_to_t1"] = <<"t0", "t1">> /\ Intervals["t1_to_t3"] = <<"t1", "t3">>
      /\ Intervals["t3_to_t4"] = <<"t3", "t4">> /\ Intervals["t0_to_t4"] = <<"t0", "t4">>
  BY DEF Intervals
<1>5. /\ DOMAIN TimingMs(timeline) = known
      /\ \A l \in known :
           TimingMs(timeline)[l] = timeline[Intervals[l][2]] - timeline[Intervals[l][1]]
  BY DEF TimingMs
<1>6. /\ "t0_to_t1" \in known <=> timeline["t0"] # Never /\ timeline["t1"] # Never
      /\ "t1_to_t3" \in known <=> timeline["t1"] # Never /\ timeline["t3"] # Never
      /\ "t3_to_t4" \in known <=> timeline["t3"] # Never /\ timeline["t4"] # Never
      /\ "t0_to_t4" \in known <=> timeline["t0"] # Never /\ timeline["t4"] # Never
  <2>1. 1..2 = {1, 2}
    OBVIOUS
  <2> QED BY <1>4, <2>1
<1> HIDE DEF known
<1>7. \A f \in TimingFields \cap DOMAIN ev.timing : ev.timing[f] >= 0
  <2>1. /\ \A f \in {"t0", "t1", "t2", "t3", "t4"} : timeline[f] \in Nat \cup {Never}
        /\ Follows(timeline, "t0", "t1") /\ Follows(timeline, "t1", "t2")
        /\ Follows(timeline, "t2", "t3") /\ Follows(timeline, "t3", "t4")
    BY <1>3, EventNames DEF Prefix
  <2>2. "t0_to_t1" \in known => timeline["t1"] - timeline["t0"] >= 0
    BY <1>3, <1>6, <2>1 DEF Follows
  <2>3. "t1_to_t3" \in known => timeline["t3"] - timeline["t1"] >= 0
    BY <1>3, <1>6, <2>1 DEF Follows
  <2>4. "t3_to_t4" \in known => timeline["t4"] - timeline["t3"] >= 0
    BY <1>3, <1>6, <2>1 DEF Follows
  <2>5. "t0_to_t4" \in known => timeline["t4"] - timeline["t0"] >= 0
    BY <1>3, <1>6, <2>1 DEF Follows
  <2> QED BY <1>1, <1>4, <1>5, <2>2, <2>3, <2>4, <2>5 DEF TimingFields
<1>8. valid => TimingFields \subseteq DOMAIN ev.timing /\ promoted # NoNode
  BY <1>1, <1>5, <1>6, EventNames DEF ClassifiedValid, Complete, TimingFields
<1>9. ~valid => Reasons(timeline, promoted, converged, SplitJudged, Cause) # {}
  <2>1. CASE Cause # NoCause
    BY <2>1 DEF Reasons
  <2>2. CASE Cause = NoCause
    <3>1. Reasons(timeline, promoted, converged, SplitJudged, Cause)
            = OwnReasons(timeline, promoted, converged, SplitJudged)
      BY <2>2 DEF Reasons
    <3> DEFINE own1 == OwnReasons(timeline, promoted, converged, SplitJudged)
    <3>2. ~Complete(timeline) => "incomplete timeline" \in own1
      BY DEF OwnReasons
    <3>3. promoted = NoNode => "promoted node not observed" \in own1
      BY DEF OwnReasons
    <3>4. ~converged => "external convergence not confirmed" \in own1
      BY DEF OwnReasons
    <3>5. SplitJudged => "active split-brain observed" \in own1
      BY DEF OwnReasons
    <3> HIDE DEF own1
    <3>6. ~valid => own1 # {}
      BY <1>2, <2>2, <3>2, <3>3, <3>4, <3>5 DEF ClassifiedValid
    <3> QED BY <3>1, <3>6 DEF own1
  <2> QED BY <2>1, <2>2
<1>10. valid => converged /\ ~SplitJudged /\ \A f \in TimingFields : ev.timing[f] \in 0..Limit
  <2> SUFFICES ASSUME valid PROVE \A f \in TimingFields : ev.timing[f] \in 0..Limit
    BY DEF ClassifiedValid
  <2>1. converged /\ now \in Nat /\ now <= Limit /\ Limit \in Nat
    BY PlanFacts DEF ClassifiedValid, TimeInv, TimeTypes
  <2>2. \A e \in {"t0", "t1", "t2", "t3", "t4"} : timeline[e] \in 0..now
    BY EventNames DEF ClassifiedValid, Complete, TimeTypes
  <2>3. /\ ev.timing["t0_to_t1"] = timeline["t1"] - timeline["t0"]
        /\ ev.timing["t1_to_t3"] = timeline["t3"] - timeline["t1"]
        /\ ev.timing["t3_to_t4"] = timeline["t4"] - timeline["t3"]
        /\ ev.timing["t0_to_t4"] = timeline["t4"] - timeline["t0"]
    BY <1>1, <1>4, <1>5, <1>6, EventNames DEF ClassifiedValid, Complete
  <2>4. \A f \in TimingFields : ev.timing[f] >= 0
    BY <1>7, <1>8
  <2> HIDE DEF valid
  <2> QED BY <2>1, <2>2, <2>3, <2>4 DEF TimingFields
<1> HIDE DEF valid
<1>11. Acceptable(ev)
  BY <1>1, <1>2, <1>7, <1>8, <1>9 DEF Acceptable
<1>12. Sound(ev, Limit)
  BY <1>1, <1>10, <1>11 DEF Sound
<1> QED BY <1>1, <1>12 DEF ev, Unnamed

(* With the run id in it, validate_run accepts it.                         *)
LEMMA NamedSound ==
  ASSUME NEW s, NEW limit, Sound(s, limit), NEW r
  PROVE  Sound([s EXCEPT !.run = r], limit) /\ [s EXCEPT !.run = r].run = r
<1> DEFINE new == [s EXCEPT !.run = r]
<1>1. "run" \in DOMAIN s /\ DOMAIN new = Fields /\ new.run = r
  BY DEF Sound, Fields
<1>2. /\ new.experiment = s.experiment /\ new.classification = s.classification
      /\ new.reasons = s.reasons /\ new.timing = s.timing /\ new.promoted = s.promoted
      /\ new.converged = s.converged /\ new.split = s.split
  BY DEF Sound, Fields
<1> HIDE DEF new
<1>3. Sound(new, limit)
  BY <1>1, <1>2 DEF Sound, Acceptable
<1> QED BY <1>1, <1>3 DEF new

LEMMA SoundIsValidated ==
  ASSUME NEW s, NEW limit, Sound(s, limit), s.run \in Int
  PROVE  ValidateRun(s)
BY TimelineAssumption DEF Sound, Acceptable, ValidateRun, Experiment

(* What a run, or the world about it, does to its place in the plan: it    *)
(* goes on, is given up, or comes to its save with evidence.               *)
LEMMA RunInPlan ==
  ASSUME plan \in Plans, PcType, TimeTypes, TimeInv,
         evidence = NoEvidence \/ Unnamed(evidence, Limit),
         RunnerStep \/ WorldStep
  PROVE  /\ pc \in Started \cup {"cleanup"}
         /\ pc' \in Started \cup {"cleanup", "down", "save"}
         /\ evidence' = NoEvidence \/ Unnamed(evidence', Limit)
         /\ pc' = "save" => Unnamed(evidence', Limit)
<1> USE DEF Started, Watching
<1>1. CASE Classify
  <2>1. pc = "classify" /\ pc' = "cleanup"
        /\ evidence' = ClassifyRun(timeline, promoted, converged, SplitJudged, Cause)
    BY <1>1 DEF Classify, LeaveBody
  <2> QED BY <2>1, EvidenceSound
<1>2. CASE CleanupDone
  <2>1. pc = "cleanup" /\ evidence' = evidence
        /\ pc' = IF evidence = NoEvidence THEN "down" ELSE "save"
    BY <1>2 DEF CleanupDone
  <2> QED BY <2>1
<1>3. CASE RunnerStep /\ ~Classify /\ ~CleanupDone
  <2>1. UNCHANGED evidence
    BY <1>3 DEF RunnerStep, StartRaises, LeaveBody, StartChild, AllStarted, Baseline, NoBaseline,
                ReadLogs, ReadPeersOnly, ReadPeers, PeersRaise, PollProcess, ProbeEndpoint,
                DeadlinePassed, StopNext
  <2>2. pc \in Started \cup {"cleanup"} /\ pc' \in Started \cup {"cleanup"}
    BY <1>3 DEF RunnerStep, StartRaises, LeaveBody, StartChild, AllStarted, Baseline, NoBaseline,
                ReadLogs, ReadPeersOnly, ReadPeers, PeersRaise, PollProcess, ProbeEndpoint,
                DeadlinePassed, StopNext, EndsPoll
  <2> QED BY <2>1, <2>2
<1>4. CASE WorldStep
  <2>1. UNCHANGED <<pc, evidence>> /\ WorldMoves
    BY <1>4 DEF WorldStep, Register, Reap, Yield, LogMissing, PromotionStarts, Promoted, ChildEnds
  <2> QED BY <2>1 DEF WorldMoves, Observing
<1> QED BY <1>1, <1>2, <1>3, <1>4

(* What EachRunOnce says of a step.                                        *)
OnceStep ==
  \A r \in RunIds :
    /\ owner[r] \in {"ours", "rival"} => owner'[r] = owner[r]
    /\ Exists(r) => owner'[r] # "none"
    /\ Intact(r) => summary'[r] = summary[r]
    /\ summary'[r] # summary[r] => owner[r] = "ours"

LEMMA PlanStep ==
  ASSUME plan \in Plans, PcType, TimeTypes, TimeInv, PlanTypes, PlanInv, [Next]_vars
  PROVE  PlanTypes' /\ PlanInv' /\ OnceStep
<1> USE DEF Inside, Started, Watching
<1> DEFINE Goal == PlanTypes' /\ PlanInv' /\ OnceStep
<1>0. /\ UNCHANGED plan /\ RunIds' = RunIds /\ trouble' \in 0..plan'.trouble
      /\ current \in RunIds /\ RunIds \subseteq Int /\ Limit' = Limit
  BY PlanStays, TroubleStep, PlanFacts, PlanAssumption DEF PlanTypes, RunIds, Limit, Timeout
<1>1. ASSUME UNCHANGED <<owner, summary, current>>,
             evidence' = NoEvidence \/ Unnamed(evidence', Limit),
             pc' \in {"save", "write"} => Unnamed(evidence', Limit),
             pc' \in {"check", "mkdir", "mkdir_logs"} => pc \in {"check", "mkdir", "mkdir_logs"},
             pc' \in Inside => pc \in Inside /\ (pc' = "write" <=> pc = "write"),
             pc' = "summarize" => \A r \in RunIds : Exists(r),
             pc' = "blocked" => BlockedForCause',
             pc' = "done" => pc = "done" \/ plan.named
      PROVE  Goal
  <2>1. PlanTypes'
    BY <1>0, <1>1 DEF PlanTypes
  <2>2. OnceStep
    BY <1>1 DEF Exists, OnceStep
  <2>3. BlockedForCause'
    BY <1>1 DEF BlockedForCause
  <2>4. NamedWhenDone'
    BY <1>0, <1>1 DEF PlanInv, NamedWhenDone
  <2>5. PlanInv'
    BY <1>0, <1>1, <2>3, <2>4 DEF PlanInv, InPlanOrder, Exists, HasSummary, Written
  <2> QED BY <2>1, <2>2, <2>5
<1>2. ASSUME RunnerStep \/ WorldStep, UNCHANGED campaignVars PROVE Goal
  <2>1. UNCHANGED <<owner, summary, current>>
    BY <1>2 DEF campaignVars
  <2> QED BY <1>1, <1>2, <2>1, RunInPlan DEF PlanInv
<1>3. ASSUME \/ Plan \/ CheckLayout \/ Crash \/ Restart \/ UNCHANGED vars
             \/ MakeLayout /\ MkdirRaises(current)
      PROVE  Goal
  <2>1. /\ UNCHANGED <<owner, summary, current>>
        /\ evidence' = evidence \/ evidence' = NoEvidence
    BY <1>3 DEF Plan, CheckLayout, Crash, Restart, MakeLayout, vars, runVars, campaignVars
  <2>2. \/ pc' = pc /\ evidence' = evidence
        \/ pc' \in {"next", "refused", "down"}
        \/ pc = "check" /\ pc' = "mkdir"
    BY <1>3 DEF Plan, CheckLayout, Crash, Restart, MakeLayout, vars, runVars
  <2>3. pc' = "blocked" => BlockedForCause'
    BY <2>1, <2>2, <1>0 DEF PlanInv, BlockedForCause, NamedWhenDone, Exists, Intact
  <2> QED BY <1>1, <2>1, <2>2, <2>3 DEF PlanInv
<1>4. ASSUME NextStep PROVE Goal
  <2>1. pc = "next" /\ UNCHANGED <<owner, summary, evidence>>
    BY <1>4 DEF NextStep
  <2>2. CASE ~PrefixValid /\ pc' = "blocked" /\ UNCHANGED current
    <3>1. PICK r \in RunIds : Exists(r) /\ ~HasSummary(r)
      BY <2>2 DEF PrefixValid, PlanInv, InPlanOrder, HasSummary
    <3>2. BlockedForCause'
      BY <1>0, <2>1, <3>1 DEF BlockedForCause, HasSummary, Intact, Exists
    <3> QED BY <1>1, <2>1, <2>2, <3>2 DEF PlanInv
  <2>3. CASE PrefixValid /\ Pending = {} /\ pc' = "summarize" /\ UNCHANGED current
    BY <1>1, <2>1, <2>3 DEF PlanInv, Pending
  <2>4. CASE PrefixValid /\ Pending # {} /\ pc' = "check" /\ current' = NextRun
    <3>1. current' \in RunIds /\ ~Exists(current') /\ \A r \in RunIds : ~Exists(r) => current' <= r
      BY <2>4, NextRunLeast DEF Pending
    <3>2. \A r \in RunIds : (r < current' => HasSummary(r)) /\ (r > current' => ~Exists(r))
      BY <1>0, <2>4, <3>1 DEF PrefixValid
    <3>3. PlanTypes'
      BY <1>0, <2>1, <3>1 DEF PlanTypes
    <3>4. OnceStep
      BY <2>1 DEF Exists, OnceStep
    <3>5. PlanInv'
      BY <1>0, <2>1, <2>4, <3>1, <3>2
         DEF PlanInv, BlockedForCause, NamedWhenDone, InPlanOrder, Exists, HasSummary, Written
    <3> QED BY <3>3, <3>4, <3>5
  <2> QED BY <1>4, <2>2, <2>3, <2>4 DEF NextStep
<1>5. ASSUME MakeLayout, ~MkdirRaises(current) PROVE Goal
  <2>1. /\ pc = "mkdir_logs" /\ pc' = "start" /\ UNCHANGED <<summary, current>>
        /\ owner' = [owner EXCEPT ![current] = "ours"] /\ evidence' = NoEvidence
        /\ owner[current] \notin {"ours", "rival"} /\ summary[current] = NoSummary
    BY <1>5 DEF MakeLayout, BeginBody, MkdirRaises, PlanInv
  <2>2. \A r \in RunIds : owner'[r] = IF r = current THEN "ours" ELSE owner[r]
    BY <2>1 DEF PlanTypes
  <2>3. PlanTypes'
    BY <1>0, <2>1 DEF PlanTypes
  <2>4. OnceStep
    BY <2>1, <2>2 DEF Exists, OnceStep
  <2>5. InPlanOrder'
    BY <1>0, <2>1, <2>2 DEF PlanInv, InPlanOrder, Exists, HasSummary
  <2>6. PlanInv'
    BY <1>0, <2>1, <2>2, <2>5 DEF PlanInv, BlockedForCause, NamedWhenDone, Exists, Written
  <2> QED BY <2>3, <2>4, <2>6
<1>6. ASSUME RivalPrepares \/ MakeParent PROVE Goal
  <2>1. /\ pc \in {"check", "mkdir", "mkdir_logs"} /\ pc' \in {"check", "mkdir", "mkdir_logs"}
        /\ UNCHANGED <<summary, current, evidence>> /\ summary[current] = NoSummary
    BY <1>6 DEF RivalPrepares, MakeParent, PlanInv
  <2>2. PICK o \in {"bare", "rival", "ours"} : /\ owner' = [owner EXCEPT ![current] = o]
                                             /\ \/ owner[current] = "none"
                                                \/ owner[current] = "bare" /\ o = "rival"
                                                \/ o = owner[current]
    <3>1. CASE RivalPrepares
      BY <3>1 DEF RivalPrepares
    <3>2. CASE MakeParent /\ Exists(current)
      <4>1. owner[current] \in {"bare", "rival", "ours"}
        BY <1>0, <3>2 DEF PlanTypes, Exists
      <4> QED BY <3>2, <4>1 DEF MakeParent
    <3>3. CASE MakeParent /\ ~Exists(current)
      BY <3>3 DEF MakeParent, Exists
    <3> QED BY <1>6, <3>1, <3>2, <3>3
  <2>3. \A r \in RunIds : owner'[r] = IF r = current THEN o ELSE owner[r]
    BY <2>2 DEF PlanTypes
  <2>4. PlanTypes'
    BY <1>0, <2>1, <2>2 DEF PlanTypes
  <2>5. OnceStep
    BY <2>1, <2>2, <2>3 DEF OnceStep, Exists
  <2>6. InPlanOrder'
    BY <1>0, <2>1, <2>3 DEF PlanInv, InPlanOrder, Exists, HasSummary
  <2>7. PlanInv'
    BY <1>0, <2>1, <2>3, <2>6
       DEF PlanInv, BlockedForCause, NamedWhenDone, Exists, HasSummary, Written
  <2> QED BY <2>4, <2>5, <2>7
<1>7. ASSUME Truncate PROVE Goal
  <2>1. /\ pc = "save" /\ pc' = "write" /\ UNCHANGED <<owner, current, evidence>>
        /\ summary' = [summary EXCEPT ![current] = Torn]
        /\ owner[current] = "ours" /\ summary[current] = NoSummary
    BY <1>7 DEF Truncate, PlanInv
  <2>2. \A r \in RunIds : summary'[r] = IF r = current THEN Torn ELSE summary[r]
    BY <2>1 DEF PlanInv
  <2>3. PlanTypes'
    BY <1>0, <2>1 DEF PlanTypes
  <2>4. OnceStep
    BY <2>1, <2>2 DEF Exists, OnceStep, Intact
  <2>5. Torn # NoSummary
    BY DEF Torn, NoSummary
  <2>6. InPlanOrder'
    BY <1>0, <2>1, <2>2, <2>5 DEF PlanInv, InPlanOrder, Exists, HasSummary
  <2>7. PlanInv'
    BY <1>0, <2>1, <2>2, <2>6 DEF PlanInv, BlockedForCause, NamedWhenDone, Exists, Written
  <2> QED BY <2>3, <2>4, <2>7
<1>8. ASSUME Write PROVE Goal
  <2> DEFINE new == IF plan.named THEN [evidence EXCEPT !.run = current] ELSE evidence
  <2>1. /\ pc = "write" /\ pc' = "next" /\ UNCHANGED <<owner, current>>
        /\ summary' = [summary EXCEPT ![current] = new] /\ evidence' = NoEvidence
        /\ owner[current] = "ours" /\ summary[current] = Torn /\ Unnamed(evidence, Limit)
    BY <1>8 DEF Write, PlanInv
  <2>2. Sound(new, Limit) /\ new.run = IF plan.named THEN current ELSE NoRun
    BY <2>1, NamedSound DEF Unnamed
  <2> HIDE DEF new
  <2>3. \A r \in RunIds : summary'[r] = IF r = current THEN new ELSE summary[r]
    BY <2>1 DEF PlanInv
  <2>4. PlanTypes'
    BY <1>0, <2>1 DEF PlanTypes
  <2>5. OnceStep
    BY <2>1, <2>3 DEF Exists, OnceStep, Intact
  <2>6. new # NoSummary
    BY <2>2 DEF Sound, Acceptable, NoSummary
  <2>7. InPlanOrder'
    BY <1>0, <2>1, <2>3, <2>6 DEF PlanInv, InPlanOrder, Exists, HasSummary
  <2>8. PlanInv'
    BY <1>0, <2>1, <2>2, <2>3, <2>7 DEF PlanInv, BlockedForCause, NamedWhenDone, Exists, Written
  <2> QED BY <2>4, <2>5, <2>8
<1>9. ASSUME SummarizeStep PROVE Goal
  <2>1. /\ pc = "summarize" /\ UNCHANGED <<owner, summary, current, evidence>>
        /\ \/ pc' = "done"
           \/ pc' = "blocked" /\ ~(Loaded /\ CampaignAccepted(Records))
    BY <1>9 DEF SummarizeStep
  <2>2. ASSUME pc' = "blocked", \A r \in RunIds : Intact(r), plan.named
        PROVE  \A r \in RunIds : summary[r].classification # "valid"
    <3>1. /\ DOMAIN Records = 1..SampleCount
          /\ \A i \in 1..SampleCount : Records[i] = summary[StartRun + i - 1]
      BY DEF Records
    <3>2. /\ \A i \in 1..SampleCount : StartRun + i - 1 \in RunIds
          /\ \A r \in RunIds : r - StartRun + 1 \in 1..SampleCount
                               /\ StartRun + (r - StartRun + 1) - 1 = r
      BY PlanFacts, PlanAssumption DEF RunIds
    <3>3. \A r \in RunIds : Sound(summary[r], Limit) /\ summary[r].run = r
      BY <2>2 DEF PlanInv, Written, Intact
    <3>4. \A r \in RunIds : ValidateRun(summary[r]) /\ summary[r].experiment = Experiment
      BY <1>0, <3>3, SoundIsValidated DEF Sound
    <3>5. \A i \in 1..SampleCount : /\ ValidateRun(Records[i]) /\ Records[i].run = StartRun + i - 1
                                    /\ Records[i].experiment = Experiment
      BY <3>1, <3>2, <3>3, <3>4
    <3>6. \A i, j \in 1..SampleCount : Records[i].run = Records[j].run => i = j
      BY <3>5, PlanFacts, PlanAssumption
    <3>7. ~CampaignAccepted(Records)
      BY <2>1, <2>2 DEF Loaded
    <3>8. \A i \in 1..SampleCount : Records[i].classification # "valid"
      BY <3>1, <3>5, <3>6, <3>7 DEF CampaignAccepted
    <3> QED BY <3>1, <3>2, <3>8
  <2>3. pc' = "blocked" => BlockedForCause'
    BY <1>0, <2>1, <2>2 DEF PlanInv, BlockedForCause, NamedWhenDone, Exists, Intact
  <2>4. ASSUME pc' = "done" PROVE plan.named
    <3>1. /\ StartRun \in RunIds /\ Records[1] = summary[StartRun] /\ 1 \in DOMAIN Records
      BY PlanFacts, PlanAssumption DEF RunIds, Records
    <3>2. Loaded /\ CampaignAccepted(Records)
      BY <1>9, <2>4 DEF SummarizeStep
    <3>3. summary[StartRun].run # NoRun
      BY <3>1, <3>2 DEF CampaignAccepted, ValidateRun
    <3> QED BY <3>1, <3>2, <3>3 DEF Loaded, Intact, PlanInv, Written
  <2> QED BY <1>1, <2>1, <2>3, <2>4 DEF PlanInv
<1> QED BY <1>2, <1>3, <1>4, <1>5, <1>6, <1>7, <1>8, <1>9 DEF Next, ExecutorStep, Stop

-----------------------------------------------------------------------------
(* The whole.                                                              *)

LEMMA InvInit == Init => CampaignInv
<1> SUFFICES ASSUME Init PROVE CampaignInv
  OBVIOUS
<1>1. ProcTypes /\ ChildInv
  BY ChildInit
<1>2. plan \in Plans /\ Limit \in Nat /\ plan.trouble \in Nat
  BY PlanFacts, RunAssumption DEF Init, InitRun
<1>3. PcType /\ pc = "plan" /\ timeline = EmptyTimeline /\ now = 0
  BY DEF Init, InitRun, PcType, Outside
<1>4. TimeTypes
  BY <1>2, <1>3, EmptyIsPrefix DEF Init, InitRun, TimeTypes
<1>5. TimelineIsPrefix /\ timeline \in [Events -> Nat \cup {Never}]
  BY <1>3, EmptyIsPrefix, PrefixIsTimeline
<1>6. TimeInv
  BY <1>3, <1>5 DEF Init, InitRun, TimeInv, FlagTypes, Fresh, Poll, Watching
<1>7. WorldTypes
  <2>1. role = [n \in NodeIds |-> IF n = FailedMaster THEN "MASTER" ELSE "FOLLOWER"]
        /\ stage = [n \in Survivors |-> "watching"] /\ DOMAIN registry = {}
    BY DEF Init, InitRun, EmptyRegistry
  <2> QED BY <2>1 DEF WorldTypes, Survivors, Roles
<1>8. PeersInv
  BY <1>3 DEF Init, InitRun, PeersInv, Watching
<1>9. StartRun \in RunIds /\ RunIds \subseteq Int /\ \A r \in RunIds : ~(r < StartRun)
  BY <1>2, PlanFacts, PlanAssumption DEF RunIds
<1>10. PlanTypes
  BY <1>2, <1>9 DEF Init, InitRun, PlanTypes
<1>11. PlanInv
  <2>1. /\ summary = [r \in RunIds |-> NoSummary] /\ evidence = NoEvidence
        /\ \A r \in RunIds : owner[r] # "none" => r = StartRun
    BY DEF Init, InitRun
  <2>2. InPlanOrder
    BY <1>9, <2>1 DEF InPlanOrder, Exists
  <2> QED BY <1>3, <2>1, <2>2 DEF PlanInv, Written, BlockedForCause, NamedWhenDone, Inside, Started,
                                     Watching
<1> QED BY <1>1, <1>3, <1>4, <1>6, <1>7, <1>8, <1>10, <1>11, TypeParts DEF CampaignInv

LEMMA InvStep == CampaignInv /\ [Next]_vars => CampaignInv' /\ OnceStep
<1> SUFFICES ASSUME CampaignInv, [Next]_vars PROVE CampaignInv' /\ OnceStep
  OBVIOUS
<1>1. /\ PcType /\ ProcTypes /\ WorldTypes /\ TimeTypes /\ PlanTypes /\ plan \in Plans
      /\ ChildInv /\ TimeInv /\ PeersInv /\ PlanInv
  BY TypeParts DEF CampaignInv, PlanTypes
<1>2. PcType' /\ ProcTypes' /\ ChildInv'
  BY <1>1, ChildStep
<1>3. TimeTypes' /\ TimeInv'
  BY <1>1, TimeStep
<1>4. WorldTypes' /\ PeersInv'
  BY <1>1, PeersStep
<1>5. PlanTypes' /\ PlanInv' /\ OnceStep
  BY <1>1, PlanStep
<1> QED BY <1>2, <1>3, <1>4, <1>5, TypeParts DEF CampaignInv

(* All of the above holds at every moment of every campaign, whatever the  *)
(* executor, the cluster and a rival do (campaign_runner.py:15-403,        *)
(* physical_runner.py).                                                    *)
THEOREM CampaignSafe == Spec => []CampaignInv
<1>1. Init => CampaignInv
  BY InvInit
<1>2. CampaignInv /\ [Next]_vars => CampaignInv'
  BY InvStep
<1> QED BY <1>1, <1>2, PTL DEF Spec

(* The plan is followed in its order, and a campaign stops short only for  *)
(* a summary that is missing or torn, for want of a valid run, or because  *)
(* the executor puts no run id into the summaries; and without them it     *)
(* never comes to its statistics (campaign_runner.py:292-403,              *)
(* statistical_resilience.py:128-365).                                     *)
THEOREM PlanIsFollowed == Spec => []PlanFollowed
<1>1. CampaignInv => PlanFollowed
  BY DEF CampaignInv, PlanInv, PlanFollowed
<1> QED BY <1>1, CampaignSafe, PTL

(* No run is taken over or repeated, and no summary is written twice       *)
(* (physical_runner.py:1334-1448).                                         *)
THEOREM RunsAreMadeOnce == Spec => EachRunOnce
<1>1. CampaignInv /\ [Next]_vars => [OnceStep]_vars
  BY InvStep
<1>2. [OnceStep]_vars => [\A r \in RunIds :
                            /\ owner[r] \in {"ours", "rival"} => owner'[r] = owner[r]
                            /\ Exists(r) => owner'[r] # "none"
                            /\ Intact(r) => summary'[r] = summary[r]
                            /\ summary'[r] # summary[r] => owner[r] = "ours"]_vars
  BY DEF OnceStep
<1> QED BY <1>1, <1>2, CampaignSafe, PTL DEF Spec, EachRunOnce

(* The recorder holds a prefix of T0..T4 in the order of the clock,        *)
(* whatever lines the logs return in whatever order                        *)
(* (physical_runner.py:227-343 and 1070-1332).                             *)
THEOREM TimelineIsSound == Spec => []TimelineIsPrefix
<1>1. CampaignInv => TimelineIsPrefix
  BY DEF CampaignInv, TimeInv
<1> QED BY <1>1, CampaignSafe, PTL

(* The clean-up leaves only the children whose own stop failed             *)
(* (physical_runner.py:1544-1587).                                         *)
THEOREM CleanupIsComplete == Spec => []OnlyFailedStopsSurvive
<1>1. CampaignInv => OnlyFailedStopsSurvive
  <2> SUFFICES ASSUME CampaignInv, pc = "cleanup", started = 0 PROVE own \subseteq stopErrors
    BY DEF OnlyFailedStopsSurvive
  <2>1. 1..started = {}
    OBVIOUS
  <2> QED BY <2>1 DEF CampaignInv, ChildInv
<1> QED BY <1>1, CampaignSafe, PTL

(* A run that is classified as valid shows a real failover: its times, the *)
(* last answer of the hub, the role of the promoted node and the end of    *)
(* the MASTER agree, and T4 is late by no more than the calls of one poll  *)
(* (physical_runner.py:354-426 and 1070-1332).                              *)
THEOREM ValidRunsAreReal == Spec => []ValidIsReal
<1>1. CampaignInv => ValidIsReal
  <2> SUFFICES ASSUME CampaignInv, pc = "classify",
                      ClassifiedValid(timeline, promoted, converged, SplitJudged, Cause)
               PROVE  /\ \A i \in 1..4 :
                           timeline[TimelineEvents[i]] <= timeline[TimelineEvents[i + 1]]
                      /\ timeline["t4"] <= Limit
                      /\ DOMAIN peers = Survivors /\ Masters(peers) = {promoted}
                      /\ role[promoted] = "MASTER" \/ promoted \in yielded
                      /\ observer => FailedMaster \notin own
    BY DEF ValidIsReal
  <2>1. /\ Complete(timeline) /\ converged /\ ~SplitJudged /\ Cause = NoCause
        /\ TimeInv /\ PeersInv /\ TimeTypes /\ plan \in Plans
    BY TypeParts DEF ClassifiedValid, CampaignInv, PlanTypes
  <2>2. \A i \in 1..4 : timeline[TimelineEvents[i]] <= timeline[TimelineEvents[i + 1]]
    <3>1. \A i \in 1..4 : TimelineEvents[i + 1] \in Events
      BY EventNames DEF TimelineEvents
    <3> QED BY <2>1, <3>1 DEF TimeInv, TimelineIsPrefix, Complete
  <2>3. timeline["t4"] <= Limit
    <3>1. timeline["t4"] \in 0..now /\ now <= Limit /\ now \in Nat /\ Limit \in Nat
      BY <2>1, EventNames, PlanFacts DEF TimeInv, TimeTypes, Complete
    <3> QED BY <3>1
  <2>4. /\ ConvergedIn(peers) /\ promoted = PromotedIn(peers)
        /\ \A n \in Survivors \cap Masters(peers) : role[n] = "MASTER" \/ n \in yielded
    BY <2>1 DEF PeersInv, Real
  <2>5. /\ DOMAIN peers = Survivors /\ Masters(peers) = {promoted}
        /\ role[promoted] = "MASTER" \/ promoted \in yielded
    BY <2>4, PromotedFacts DEF ConvergedIn
  <2>6. observer => ~inconclusive /\ ~splitSeen
    BY <2>1 DEF Cause, NoCause, SplitJudged
  <2>7. observer => FailedMaster \notin own
    BY <2>1, <2>6 DEF PeersInv
  <2> QED BY <2>2, <2>3, <2>5, <2>7
<1> QED BY <1>1, CampaignSafe, PTL

(* A split brain is reported from the liveness of the master only if it    *)
(* lived when the hub was asked and a survivor was listed as MASTER then   *)
(* (physical_runner.py:595-926, 1070-1332).                                 *)
THEOREM SplitsAreReal == Spec => SplitIsReal
<1>1. CampaignInv /\ [Next]_vars =>
        [~splitSeen /\ splitSeen' => masterThere /\ Masters(peers) \ {FailedMaster} # {}]_vars
  <2> SUFFICES ASSUME CampaignInv, [Next]_vars, ~splitSeen, splitSeen'
               PROVE  masterThere /\ Masters(peers) \ {FailedMaster} # {}
    OBVIOUS
  <2>1. ProbeEndpoint
    BY DEF Next, ExecutorStep, Plan, NextStep, CheckLayout, MakeParent, MakeLayout, BeginBody,
           Truncate, Write, SummarizeStep, Restart, RunnerStep, StartRaises, LeaveBody, StartChild,
           AllStarted, Baseline, NoBaseline, ReadLogs, ReadPeersOnly, ReadPeers, PeersRaise,
           PollProcess, DeadlinePassed, Classify, StopNext, CleanupDone, Crash, RivalPrepares,
           Stop, WorldStep, Register, Reap, Yield, LogMissing, PromotionStarts, Promoted, ChildEnds,
           FreshObservations, seenVars, flagVars, vars, runVars
  <2>2. PICK answer \in EndpointAnswers :
          /\ OperationallyAlive(processAlive, answer) = "alive"
          /\ Masters(peers) \ {FailedMaster} # {}
    BY <2>1 DEF ProbeEndpoint, PeersJudged
  <2>3. processAlive /\ pc = "endpoint"
    BY <2>1, <2>2 DEF ProbeEndpoint, OperationallyAlive
  <2> QED BY <2>2, <2>3 DEF CampaignInv, PeersInv
<1> QED BY <1>1, CampaignSafe, PTL DEF Spec, SplitIsReal


-----------------------------------------------------------------------------
(* The statistics.                                                         *)

LEMMA LeastExists ==
  ASSUME NEW S, S \subseteq Nat, S # {}
  PROVE  \E x \in S : \A y \in S : x <= y
<1>1. PICK x \in S : \A y \in S : ~ (<<y, x>> \in OpToRel(<, Nat))
  BY NatLessThanWellFounded, WFMin
<1>2. \A y \in Nat : y < x => <<y, x>> \in OpToRel(<, Nat)
  <2> SUFFICES ASSUME NEW y \in Nat, y < x PROVE <<y, x>> \in OpToRel(<, Nat)
    OBVIOUS
  <2>1. <<y, x>> \in Nat \X Nat /\ <<y, x>>[1] < <<y, x>>[2]
    OBVIOUS
  <2> QED BY <2>1 DEF OpToRel
<1>3. \A y \in S : ~(y < x)
  BY <1>1, <1>2, Zenon
<1> QED BY <1>3

LEMMA MinIsLeast ==
  ASSUME NEW S, S \subseteq Nat, S # {}
  PROVE  Min(S) \in S /\ Min(S) \in Nat /\ \A y \in S : Min(S) <= y
BY LeastExists DEF Min

(* A finite set of numbers has a greatest one: a smallest set without one  *)
(* would have one after all.                                               *)
LEMMA GreatestExists ==
  ASSUME NEW S, S \subseteq Nat, S # {}, IsFiniteSet(S)
  PROVE  \E x \in S : \A y \in S : y <= x
<1> DEFINE Bad(T) == /\ T \subseteq Nat /\ T # {} /\ IsFiniteSet(T)
                     /\ ~ \E x \in T : \A y \in T : y <= x
           sizes == {c \in Nat : \E T \in SUBSET Nat : Bad(T) /\ Cardinality(T) = c}
<1> SUFFICES ASSUME Bad(S) PROVE FALSE
  OBVIOUS
<1>1. Cardinality(S) \in sizes /\ sizes \subseteq Nat
  BY FS_CardinalityType
<1>2. PICK c \in sizes : \A d \in sizes : c <= d
  <2> HIDE DEF sizes
  <2> QED BY <1>1, LeastExists
<1>3. PICK T \in SUBSET Nat : Bad(T) /\ Cardinality(T) = c
  OBVIOUS
<1>4. PICK x \in T : TRUE
  BY <1>3
<1> DEFINE U == T \ {x}
<1>5. IsFiniteSet(U) /\ Cardinality(U) = c - 1 /\ c \in Nat
  BY <1>3, <1>4, FS_RemoveElement
<1>6. U # {}
  <2> SUFFICES ASSUME U = {} PROVE FALSE
    OBVIOUS
  <2>1. \A y \in T : y = x
    OBVIOUS
  <2>2. x <= x
    OBVIOUS
  <2> QED BY <1>3, <2>1, <2>2
<1>7. ~Bad(U)
  <2> SUFFICES ASSUME Bad(U) PROVE FALSE
    OBVIOUS
  <2>1. c - 1 \in Nat
    BY <1>5, FS_CardinalityType
  <2>2. c - 1 \in sizes
    BY <1>5, <2>1
  <2> QED BY <1>2, <1>5, <2>2
<1>8. PICK m \in U : \A y \in U : y <= m
  BY <1>5, <1>6, <1>7
<1>9. m \in T /\ m \in Nat /\ x \in Nat /\ T = U \cup {x}
  OBVIOUS
<1>10. CASE x <= m
  <2>1. \A y \in T : y <= m
    BY <1>8, <1>10
  <2> QED BY <1>3, <1>9, <2>1
<1>11. CASE m <= x
  <2>1. \A y \in U : y <= x
    BY <1>8, <1>9, <1>11
  <2>2. \A y \in T : y <= x
    BY <1>9, <2>1
  <2> QED BY <1>3, <1>4, <2>2
<1> QED BY <1>9, <1>10, <1>11

LEMMA MaxIsGreatest ==
  ASSUME NEW S, S \subseteq Nat, S # {}, IsFiniteSet(S)
  PROVE  Max(S) \in S /\ Max(S) \in Nat /\ \A y \in S : y <= Max(S)
<1>1. \E x \in S : \A y \in S : x >= y
  BY GreatestExists
<1> QED BY <1>1 DEF Max

(* The values of a sequence.                                               *)
LEMMA ValuesOf ==
  ASSUME NEW s \in Seq(Nat), Len(s) > 0
  PROVE  /\ DOMAIN s = 1..Len(s) /\ Len(s) \in Nat
         /\ ToSet(s) \subseteq Nat /\ ToSet(s) # {} /\ IsFiniteSet(ToSet(s))
         /\ Min(ToSet(s)) \in ToSet(s) /\ Max(ToSet(s)) \in ToSet(s)
         /\ \A v \in ToSet(s) : Min(ToSet(s)) <= v /\ v <= Max(ToSet(s))
         /\ \A i \in 1..Len(s) : s[i] \in ToSet(s)
<1>1. DOMAIN s = 1..Len(s) /\ Len(s) \in Nat /\ \A i \in 1..Len(s) : s[i] \in Nat
  OBVIOUS
<1>2. ToSet(s) \subseteq Nat /\ s[1] \in ToSet(s) /\ \A i \in 1..Len(s) : s[i] \in ToSet(s)
  BY <1>1 DEF ToSet
<1>3. IsFiniteSet(ToSet(s))
  <2>1. IsFiniteSet(1..Len(s))
    BY <1>1, FS_Interval
  <2>2. s \in Surjection(1..Len(s), ToSet(s))
    BY <1>1 DEF Surjection, ToSet
  <2> QED BY <2>1, <2>2, FS_Surjection
<1> QED BY <1>1, <1>2, <1>3, MinIsLeast, MaxIsGreatest

(* Sorted puts the samples in the order of their values.                   *)
LEMMA SortedInOrder ==
  ASSUME NEW s \in Seq(Nat), Len(s) > 0
  PROVE  /\ DOMAIN Sorted(s) = 1..Len(s)
         /\ \A k \in 1..Len(s) : Sorted(s)[k] \in ToSet(s) /\ Sorted(s)[k] \in Nat
         /\ \A k, l \in 1..Len(s) : k <= l => Sorted(s)[k] <= Sorted(s)[l]
<1> DEFINE upTo(v) == {i \in DOMAIN s : s[i] <= v}
           at(k) == {v \in ToSet(s) : Cardinality(upTo(v)) >= k}
<1>1. DOMAIN s = 1..Len(s) /\ Len(s) \in Nat /\ ToSet(s) \subseteq Nat
  BY ValuesOf
<1>2. /\ DOMAIN Sorted(s) = 1..Len(s)
      /\ \A k \in 1..Len(s) : Sorted(s)[k] = Min(at(k))
  BY <1>1 DEF Sorted
<1>3. \A v \in ToSet(s) : Cardinality(upTo(v)) \in Nat
  <2>1. IsFiniteSet(1..Len(s))
    BY <1>1, FS_Interval
  <2>2. \A v \in ToSet(s) : IsFiniteSet(upTo(v))
    <3>1. \A v : upTo(v) \subseteq 1..Len(s)
      BY <1>1
    <3> HIDE DEF upTo
    <3> QED BY <2>1, <3>1, FS_Subset
  <2> HIDE DEF upTo
  <2> QED BY <2>2, FS_CardinalityType
<1>4. Max(ToSet(s)) \in ToSet(s) /\ Cardinality(upTo(Max(ToSet(s)))) = Len(s)
  <2>1. upTo(Max(ToSet(s))) = 1..Len(s)
    BY <1>1, ValuesOf
  <2>2. Cardinality(1..Len(s)) = Len(s)
    BY <1>1, FS_Interval
  <2> QED BY <2>1, <2>2, ValuesOf
<1> HIDE DEF upTo
<1>5. \A k \in 1..Len(s) : at(k) \subseteq Nat /\ at(k) # {}
  BY <1>1, <1>4
<1>6. \A k \in 1..Len(s) : Min(at(k)) \in at(k) /\ Min(at(k)) \in Nat
                           /\ \A v \in at(k) : Min(at(k)) <= v
  <2> HIDE DEF at
  <2> QED BY <1>5, MinIsLeast
<1>7. \A k, l \in 1..Len(s) : k <= l => at(l) \subseteq at(k)
  BY <1>3
<1>8. ASSUME NEW k \in 1..Len(s), NEW l \in 1..Len(s), k <= l
      PROVE  Min(at(k)) <= Min(at(l))
  <2> HIDE DEF at
  <2> QED BY <1>6, <1>7, <1>8
<1>9. \A k \in 1..Len(s) : Min(at(k)) \in ToSet(s)
  BY <1>6
<1> HIDE DEF at
<1> QED BY <1>2, <1>6, <1>8, <1>9

(* The point at r hundredths along a list of values in order.              *)
Along(o, r) ==
  LET at == 1 + r \div 100
  IN  o[at] * (100 - (r % 100)) + o[IF r % 100 = 0 THEN at ELSE at + 1] * (r % 100)

LEMMA PercentileIsAlong ==
  ASSUME NEW s, NEW p
  PROVE  Percentile(s, p) = Along(Sorted(s), (Len(s) - 1) * p)
BY DEF Percentile, Along, LowerIndex, UpperIndex, Weight, Rank

LEMMA Product ==
  ASSUME NEW a \in Nat, NEW b \in Nat PROVE a * b \in Nat
OBVIOUS

(* Further from the smaller value is nearer to the larger one.             *)
LEMMA Mix ==
  ASSUME NEW a \in Nat, NEW b \in Nat, a <= b, NEW u \in 0..100, NEW v \in 0..100, u <= v
  PROVE  a * (100 - u) + b * u <= a * (100 - v) + b * v
<1>1. (b - a) * (v - u) \in Nat
  BY Product
<1>2. (b - a) * (v - u) = (a * (100 - v) + b * v) - (a * (100 - u) + b * u)
  OBVIOUS
<1>3. a * (100 - v) + b * v \in Nat /\ a * (100 - u) + b * u \in Nat
  BY Product
<1> QED BY <1>1, <1>2, <1>3

LEMMA Divided ==
  ASSUME NEW r \in Nat
  PROVE  /\ r \div 100 \in Nat /\ r % 100 \in 0..99
         /\ r = 100 * (r \div 100) + (r % 100)
OBVIOUS

(* It lies between its two neighbours, and goes up with r.                 *)
LEMMA AlongBetween ==
  ASSUME NEW n \in Nat, NEW o, \A k \in 1..n : o[k] \in Nat,
         \A k, l \in 1..n : k <= l => o[k] <= o[l],
         NEW r \in Nat, r <= 100 * (n - 1)
  PROVE  /\ r \div 100 + 1 \in 1..n /\ Along(o, r) \in Nat
         /\ r % 100 # 0 => r \div 100 + 2 \in 1..n
         /\ 100 * o[r \div 100 + 1] <= Along(o, r)
         /\ \A k \in 1..n : (k > r \div 100 + 1 \/ (k = r \div 100 + 1 /\ r % 100 = 0))
              => Along(o, r) <= 100 * o[k]
<1> DEFINE q == r \div 100
           w == r % 100
<1>1. q \in Nat /\ w \in 0..99 /\ r = 100 * q + w
  BY Divided
<1>2. Along(o, r) = o[q + 1] * (100 - w) + o[IF w = 0 THEN q + 1 ELSE q + 2] * w
  <2>1. 1 + q = q + 1 /\ 1 + q + 1 = q + 2
    BY <1>1
  <2> QED BY <2>1 DEF Along
<1> HIDE DEF q, w
<1>3. q + 1 \in 1..n /\ (w # 0 => q + 2 \in 1..n)
  BY <1>1
<1>4. CASE w = 0
  <2>1. o[q + 1] * (100 - w) = 100 * o[q + 1] /\ o[q + 1] * w = 0
    BY <1>3, <1>4
  <2>2. Along(o, r) = 100 * o[q + 1]
    BY <1>2, <1>3, <1>4, <2>1
  <2>3. \A k \in 1..n : k >= q + 1 => 100 * o[q + 1] <= 100 * o[k]
    BY <1>3
  <2>4. 100 * o[q + 1] \in Nat
    BY <1>3
  <2> QED BY <1>1, <1>3, <1>4, <2>2, <2>3, <2>4 DEF q, w
<1>5. CASE w # 0
  <2> DEFINE a == o[q + 1]
             b == o[q + 2]
  <2>1. a \in Nat /\ b \in Nat /\ a <= b
    BY <1>1, <1>3, <1>5
  <2>2. Along(o, r) = a * (100 - w) + b * w
    BY <1>2, <1>5
  <2> HIDE DEF a, b
  <2>3. a * (100 - 0) + b * 0 <= a * (100 - w) + b * w
    BY <1>1, <2>1, Mix
  <2>4. a * (100 - w) + b * w <= a * (100 - 100) + b * 100
    BY <1>1, <2>1, Mix
  <2>5. Along(o, r) \in Nat /\ 100 * a <= Along(o, r) /\ Along(o, r) <= 100 * b
    <3>1. a * (100 - w) \in Nat /\ b * w \in Nat
      BY <1>1, <2>1, Product
    <3> QED BY <2>1, <2>2, <2>3, <2>4, <3>1
  <2>6. ASSUME NEW k \in 1..n, k > q + 1 PROVE Along(o, r) <= 100 * o[k]
    <3>1. b <= o[k] /\ o[k] \in Nat
      BY <1>1, <1>3, <1>5, <2>6 DEF b
    <3> QED BY <2>1, <2>5, <3>1
  <2> QED BY <1>1, <1>3, <1>5, <2>5, <2>6 DEF q, w, a
<1> QED BY <1>4, <1>5

LEMMA AlongGoesUp ==
  ASSUME NEW n \in Nat, NEW o, \A k \in 1..n : o[k] \in Nat,
         \A k, l \in 1..n : k <= l => o[k] <= o[l],
         NEW r \in Nat, NEW t \in Nat, r <= t, t <= 100 * (n - 1)
  PROVE  Along(o, r) <= Along(o, t)
<1>1. /\ r \div 100 \in Nat /\ r % 100 \in 0..99 /\ r = 100 * (r \div 100) + (r % 100)
      /\ t \div 100 \in Nat /\ t % 100 \in 0..99 /\ t = 100 * (t \div 100) + (t % 100)
  BY Divided
<1>2. /\ r \div 100 + 1 \in 1..n /\ Along(o, r) \in Nat
      /\ \A k \in 1..n : (k > r \div 100 + 1 \/ (k = r \div 100 + 1 /\ r % 100 = 0))
           => Along(o, r) <= 100 * o[k]
  <2>1. r <= 100 * (n - 1)
    OBVIOUS
  <2> QED BY <2>1, AlongBetween
<1>3. /\ t \div 100 + 1 \in 1..n /\ Along(o, t) \in Nat
      /\ t % 100 # 0 => t \div 100 + 2 \in 1..n
      /\ 100 * o[t \div 100 + 1] <= Along(o, t)
  BY AlongBetween
<1>4. CASE r \div 100 < t \div 100
  <2>1. Along(o, r) <= 100 * o[t \div 100 + 1]
    BY <1>1, <1>2, <1>3, <1>4
  <2>2. o[t \div 100 + 1] \in Nat
    BY <1>3
  <2> QED BY <1>2, <1>3, <2>1, <2>2
<1>5. CASE r \div 100 = t \div 100 /\ r % 100 = 0
  <2>1. Along(o, r) <= 100 * o[t \div 100 + 1]
    BY <1>2, <1>3, <1>5
  <2>2. o[t \div 100 + 1] \in Nat
    BY <1>3
  <2> QED BY <1>2, <1>3, <2>1, <2>2
<1>6. CASE r \div 100 = t \div 100 /\ r % 100 # 0
  <2> DEFINE q == r \div 100
             u == r % 100
             v == t % 100
  <2>1. u <= v /\ u \in 0..100 /\ v \in 0..100 /\ u # 0 /\ v # 0 /\ q \in Nat
    BY <1>1, <1>6
  <2>2. q + 1 \in 1..n /\ q + 2 \in 1..n
    BY <1>1, <1>3, <1>6, <2>1
  <2>3. /\ Along(o, r) = o[q + 1] * (100 - u) + o[q + 2] * u
        /\ Along(o, t) = o[q + 1] * (100 - v) + o[q + 2] * v
    <3>1. 1 + q = q + 1 /\ 1 + q + 1 = q + 2
      BY <2>1
    <3>2. t \div 100 = q
      BY <1>6
    <3>3. r % 100 # 0 /\ t % 100 # 0
      BY <2>1
    <3> QED BY <3>1, <3>2, <3>3 DEF Along
  <2>4. o[q + 1] \in Nat /\ o[q + 2] \in Nat /\ o[q + 1] <= o[q + 2]
    BY <2>1, <2>2
  <2> DEFINE a == o[q + 1]
             b == o[q + 2]
  <2> HIDE DEF q, u, v, a, b
  <2>5. a * (100 - u) + b * u <= a * (100 - v) + b * v
    BY <2>1, <2>4, Mix DEF a, b
  <2> QED BY <2>3, <2>5 DEF a, b
<1>7. r \div 100 <= t \div 100
  BY <1>1
<1> QED BY <1>1, <1>4, <1>5, <1>6, <1>7

(* The percentiles of any samples in any order lie between the least and   *)
(* the most, in the order of their ranks (statistical_resilience.py:35-66). *)
THEOREM PercentilesAreOrdered ==
  ASSUME NEW s \in Seq(Nat), Len(s) > 0, NEW p \in 0..100, NEW q \in 0..100, p <= q
  PROVE  /\ Percentile(s, p) \in Nat /\ Percentile(s, p) <= Percentile(s, q)
         /\ 100 * Min(ToSet(s)) <= Percentile(s, p) /\ Percentile(s, q) <= 100 * Max(ToSet(s))
<1> DEFINE n == Len(s)
           o == Sorted(s)
<1>1. /\ n \in Nat /\ n >= 1
      /\ \A k \in 1..n : o[k] \in ToSet(s) /\ o[k] \in Nat
      /\ \A k, l \in 1..n : k <= l => o[k] <= o[l]
  BY SortedInOrder, ValuesOf
<1>2. /\ (n - 1) * p \in Nat /\ (n - 1) * q \in Nat
      /\ (n - 1) * p <= (n - 1) * q /\ (n - 1) * q <= 100 * (n - 1)
  <2> DEFINE m == n - 1
  <2>1. m \in Nat /\ p \in Nat /\ q \in Nat /\ q - p \in Nat /\ 100 - q \in Nat
    BY <1>1
  <2> HIDE DEF m
  <2>2. m * (q - p) \in Nat /\ m * (100 - q) \in Nat /\ m * p \in Nat /\ m * q \in Nat
    BY <2>1, Product
  <2>3. m * (q - p) = m * q - m * p /\ m * (100 - q) = 100 * m - m * q
    BY <2>1
  <2>4. m * p <= m * q /\ m * q <= 100 * m
    BY <2>1, <2>2, <2>3
  <2> QED BY <2>2, <2>4 DEF m
<1>3. Percentile(s, p) = Along(o, (n - 1) * p) /\ Percentile(s, q) = Along(o, (n - 1) * q)
  BY PercentileIsAlong
<1>4. /\ Min(ToSet(s)) \in Nat /\ Max(ToSet(s)) \in Nat
      /\ \A v \in ToSet(s) : Min(ToSet(s)) <= v /\ v <= Max(ToSet(s))
  BY ValuesOf
<1> DEFINE r == (n - 1) * p
           t == (n - 1) * q
<1> HIDE DEF n, o, r, t
<1>5. r \in Nat /\ t \in Nat /\ r <= t /\ t <= 100 * (n - 1)
  BY <1>2 DEF r, t
<1>6. Along(o, r) <= Along(o, t)
  BY <1>1, <1>5, AlongGoesUp
<1>7. /\ r \div 100 + 1 \in 1..n /\ Along(o, r) \in Nat
      /\ 100 * o[r \div 100 + 1] <= Along(o, r)
  <2>1. r <= 100 * (n - 1)
    BY <1>1, <1>5
  <2> QED BY <1>1, <1>5, <2>1, AlongBetween
<1>8. 100 * Min(ToSet(s)) <= Along(o, r)
  <2>1. Min(ToSet(s)) <= o[r \div 100 + 1] /\ o[r \div 100 + 1] \in Nat
    BY <1>1, <1>4, <1>7
  <2> QED BY <1>4, <1>7, <2>1
<1>9. Along(o, t) \in Nat /\ Along(o, t) <= 100 * o[n]
  <2>1. /\ t \div 100 + 1 \in 1..n /\ Along(o, t) \in Nat
        /\ t % 100 # 0 => t \div 100 + 2 \in 1..n
        /\ \A k \in 1..n : (k > t \div 100 + 1 \/ (k = t \div 100 + 1 /\ t % 100 = 0))
              => Along(o, t) <= 100 * o[k]
    BY <1>1, <1>5, AlongBetween
  <2>2. t \div 100 \in Nat /\ t % 100 \in 0..99
    BY <1>5, Divided
  <2>3. n > t \div 100 + 1 \/ (n = t \div 100 + 1 /\ t % 100 = 0)
    BY <1>1, <2>1, <2>2
  <2> QED BY <1>1, <2>1, <2>3
<1>10. Along(o, t) <= 100 * Max(ToSet(s))
  <2>1. o[n] <= Max(ToSet(s)) /\ o[n] \in Nat
    BY <1>1, <1>4
  <2> QED BY <1>4, <1>9, <2>1
<1> QED BY <1>3, <1>6, <1>7, <1>8, <1>9, <1>10 DEF r, t

(* The median of three samples is the middle one, of four the two in the   *)
(* middle.                                                                 *)
LEMMA PercentilesHold == PercentilesOrdered
<1> SUFFICES ASSUME NEW n \in 1..4, NEW s \in [1..n -> 0..2]
             PROVE  /\ 100 * Summarize(s).least <= Summarize(s).p50
                    /\ Summarize(s).p50 <= Summarize(s).p90
                    /\ Summarize(s).p90 <= Summarize(s).p95
                    /\ Summarize(s).p95 <= Summarize(s).p99
                    /\ Summarize(s).p99 <= 100 * Summarize(s).most
                    /\ Summarize(s).p50 = 50 * (Sorted(s)[(n + 1) \div 2] + Sorted(s)[n \div 2 + 1])
  BY DEF PercentilesOrdered
<1>1. /\ Summarize(s).least = Min(ToSet(s)) /\ Summarize(s).most = Max(ToSet(s))
      /\ Summarize(s).p50 = Percentile(s, 50) /\ Summarize(s).p90 = Percentile(s, 90)
      /\ Summarize(s).p95 = Percentile(s, 95) /\ Summarize(s).p99 = Percentile(s, 99)
  BY DEF Summarize
<1>2. s \in Seq(Nat) /\ Len(s) = n /\ n \in Nat /\ Len(s) > 0
  OBVIOUS
<1>3. /\ Percentile(s, 50) <= Percentile(s, 90) /\ 100 * Min(ToSet(s)) <= Percentile(s, 50)
      /\ Percentile(s, 90) <= Percentile(s, 95)
      /\ Percentile(s, 95) <= Percentile(s, 99) /\ Percentile(s, 99) <= 100 * Max(ToSet(s))
  <2>1. ASSUME NEW p \in 0..100, NEW q \in 0..100, p <= q
        PROVE  /\ Percentile(s, p) <= Percentile(s, q)
               /\ 100 * Min(ToSet(s)) <= Percentile(s, p)
               /\ Percentile(s, q) <= 100 * Max(ToSet(s))
    BY <1>2, <2>1, PercentilesAreOrdered, Zenon
  <2> QED BY <2>1
<1> DEFINE o == Sorted(s)
<1>4. \A k \in 1..n : o[k] \in Nat
  BY <1>2, SortedInOrder
<1>5. Percentile(s, 50) = Along(o, (n - 1) * 50)
  BY <1>2, PercentileIsAlong
<1> HIDE DEF o
<1>6. Along(o, (n - 1) * 50) = 50 * (o[(n + 1) \div 2] + o[n \div 2 + 1])
  <2>1. CASE n = 1
    <3>1. Along(o, 0) = o[1] * 100 + o[1] * 0
      BY DEF Along
    <3> QED BY <1>4, <2>1, <3>1
  <2>2. CASE n = 2
    <3>1. Along(o, 50) = o[1] * 50 + o[2] * 50
      BY DEF Along
    <3> QED BY <1>4, <2>2, <3>1
  <2>3. CASE n = 3
    <3>1. Along(o, 100) = o[2] * 100 + o[2] * 0
      BY DEF Along
    <3> QED BY <1>4, <2>3, <3>1
  <2>4. CASE n = 4
    <3>1. Along(o, 150) = o[2] * 50 + o[3] * 50
      BY DEF Along
    <3> QED BY <1>4, <2>4, <3>1
  <2> QED BY <2>1, <2>2, <2>3, <2>4
<1> QED BY <1>1, <1>3, <1>5, <1>6 DEF o

-----------------------------------------------------------------------------
(* The campaign's summary.                                                 *)

ValidIn(records) == {i \in DOMAIN records : records[i].classification = "valid"}

(* ValidOf has each of the valid records once.                             *)
LEMMA ValidOnce ==
  ASSUME NEW records, NEW n \in Nat, DOMAIN records = 1..n
  PROVE  /\ Cardinality(ValidIn(records)) \in Nat
         /\ DOMAIN ValidOf(records) = 1..Cardinality(ValidIn(records))
         /\ Len(ValidOf(records)) = Cardinality(ValidIn(records))
         /\ \A k \in DOMAIN ValidOf(records) :
              \E i \in ValidIn(records) : ValidOf(records)[k] = records[i]
<1> DEFINE V == ValidIn(records)
           c == Cardinality(V)
           f == SetToSeq(V)
<1>1. IsFiniteSet(V) /\ c \in Nat /\ ExistsBijection(1..c, V)
  <2>1. IsFiniteSet(1..n) /\ V \in SUBSET (1..n)
    BY FS_Interval DEF ValidIn
  <2> HIDE DEF V
  <2> QED BY <2>1, FS_Subset, FS_CardinalityType
<1>2. f \in [1..c -> V]
  <2>1. PICK g \in Bijection(1..c, V) : TRUE
    BY <1>1 DEF ExistsBijection
  <2>2. g \in [1..c -> V] /\ IsInjective(g)
    BY <2>1 DEF Bijection, Injection, Surjection, IsInjective
  <2> QED BY <2>2 DEF SetToSeq
<1>3. ValidOf(records) = [k \in DOMAIN f |-> records[f[k]]]
  BY DEF ValidOf, ValidIn
<1> HIDE DEF V, f
<1> HIDE DEF c
<1>4. ValidOf(records) = [k \in 1..c |-> records[f[k]]]
  BY <1>2, <1>3
<1>5. Len(ValidOf(records)) = c
  BY <1>1, <1>4
<1> QED BY <1>1, <1>2, <1>4, <1>5 DEF V, c

(* The values that Summarize counts are all there are: none is below 0 or  *)
(* above the timeout when none of the samples is.                          *)
LEMMA SummaryBounds ==
  ASSUME NEW s \in Seq(Nat), Len(s) > 0, NEW limit \in Nat,
         \A i \in 1..Len(s) : s[i] <= limit
  PROVE  /\ Summarize(s).count = Len(s)
         /\ 0 <= Summarize(s).least /\ Summarize(s).most <= limit
<1>1. /\ Summarize(s).count = Len(s)
      /\ Summarize(s).least = Min(ToSet(s)) /\ Summarize(s).most = Max(ToSet(s))
  BY DEF Summarize
<1>2. \A v \in ToSet(s) : v \in Nat /\ v <= limit
  BY DEF ToSet
<1>3. Min(ToSet(s)) \in ToSet(s) /\ Max(ToSet(s)) \in ToSet(s)
  BY ValuesOf
<1> QED BY <1>1, <1>2, <1>3

(* Whatever was accepted, the summary counts every run of it.              *)
LEMMA SummaryAccounts ==
  ASSUME NEW records, NEW n \in Nat \ {0}, DOMAIN records = 1..n, Len(records) = n,
         NEW limit \in Nat, \A i \in 1..n : Sound(records[i], limit),
         CampaignAccepted(records)
  PROVE  LET res == SummarizeCampaign(records)
         IN  /\ res.total = n /\ res.valid + res.invalid = n
             /\ res.split <= res.invalid /\ res.valid <= res.converged
             /\ \A f \in TimingFields :
                  /\ res.timing[f].count = res.valid
                  /\ 0 <= res.timing[f].least /\ res.timing[f].most <= limit
<1> DEFINE res == SummarizeCampaign(records)
           V == ValidIn(records)
           c == Cardinality(V)
           valid == ValidOf(records)
           split == {i \in DOMAIN records : records[i].split}
           agreed == {i \in DOMAIN records : records[i].converged}
           times(f) == [i \in DOMAIN valid |-> valid[i].timing[f]]
<1>1. /\ res.total = n /\ res.valid = Len(valid) /\ res.invalid = n - Len(valid)
      /\ res.timing = [f \in TimingFields |-> Summarize(times(f))]
  BY DEF SummarizeCampaign
<1>2. res.split = Cardinality(split) /\ res.converged = Cardinality(agreed)
  BY DEF SummarizeCampaign
<1>3. /\ c \in Nat /\ DOMAIN valid = 1..c /\ Len(valid) = c
      /\ \A k \in 1..c : \E i \in V : valid[k] = records[i]
  BY ValidOnce
<1>4. /\ \A i \in V : /\ i \in 1..n /\ records[i].converged /\ ~records[i].split
                      /\ \A f \in TimingFields : records[i].timing[f] \in 0..limit
      /\ V \subseteq 1..n /\ V # {}
  BY DEF ValidIn, Sound, CampaignAccepted
<1>5. IsFiniteSet(1..n) /\ Cardinality(1..n) = n
  BY FS_Interval
<1>6. /\ split \subseteq 1..n /\ V \cap split = {}
      /\ agreed \subseteq 1..n /\ V \subseteq agreed
  BY <1>4
<1> HIDE DEF res, V, valid, split, agreed
<1>7. IsFiniteSet(V) /\ IsFiniteSet(split) /\ IsFiniteSet(agreed)
  BY <1>4, <1>5, <1>6, FS_Subset
<1>8. c <= Cardinality(agreed) /\ Cardinality(agreed) \in Nat
  BY <1>6, <1>7, FS_Subset, FS_CardinalityType
<1>9. Cardinality(split) <= n - c
  <2>1. Cardinality(V \cup split) = c + Cardinality(split) - Cardinality(V \cap split)
    BY <1>7, FS_Union
  <2>2. Cardinality(V \cap split) = 0
    BY <1>6, FS_EmptySet
  <2>3. V \cup split \in SUBSET (1..n)
    BY <1>4, <1>6
  <2>4. Cardinality(V \cup split) <= n
    BY <1>5, <2>3, FS_Subset
  <2>5. Cardinality(split) \in Nat
    BY <1>7, FS_CardinalityType
  <2> QED BY <1>3, <2>1, <2>2, <2>4, <2>5
<1>10. c > 0
  BY <1>3, <1>4, <1>7, FS_EmptySet
<1> HIDE DEF c
<1>11. ASSUME NEW f \in TimingFields
       PROVE  /\ res.timing[f].count = c
              /\ 0 <= res.timing[f].least /\ res.timing[f].most <= limit
  <2> DEFINE s == times(f)
  <2>1. res.timing[f] = Summarize(s)
    BY <1>1
  <2>2. \A k \in 1..c : valid[k].timing[f] \in 0..limit
    BY <1>3, <1>4
  <2>3. /\ s = [k \in 1..c |-> valid[k].timing[f]]
    BY <1>3
  <2> HIDE DEF s
  <2>4. s \in Seq(Nat) /\ Len(s) = c /\ \A k \in 1..c : s[k] <= limit
    BY <1>3, <2>2, <2>3
  <2>5. /\ Summarize(s).count = Len(s)
        /\ 0 <= Summarize(s).least /\ Summarize(s).most <= limit
    BY <1>3, <1>10, <2>4, SummaryBounds
  <2> QED BY <2>1, <2>4, <2>5
<1>12. Cardinality(split) \in Nat
  BY <1>7, FS_CardinalityType
<1> QED BY <1>1, <1>2, <1>3, <1>8, <1>9, <1>11, <1>12 DEF res

(* The result of a campaign never changes once it is there, and it is made *)
(* of the whole plan.                                                      *)
LEMMA AccountingStep ==
  ASSUME CampaignInv, SampleAccounting, [Next]_vars
  PROVE  SampleAccounting'
<1>1. plan' = plan /\ plan \in Plans /\ Limit' = Limit /\ SampleCount' = SampleCount
  BY PlanStays, TypeParts DEF CampaignInv, PlanTypes, Limit, Timeout, SampleCount
<1>2. CASE UNCHANGED result
  BY <1>1, <1>2 DEF SampleAccounting
<1>3. CASE SummarizeStep /\ Loaded /\ CampaignAccepted(Records)
  <2>1. result' = SummarizeCampaign(Records)
    BY <1>3 DEF SummarizeStep
  <2>2. SampleCount \in Nat \ {0} /\ Limit \in Nat
    BY <1>1, PlanFacts
  <2>3. /\ DOMAIN Records = 1..SampleCount /\ Len(Records) = SampleCount
        /\ \A i \in 1..SampleCount : Records[i] = summary[StartRun + i - 1]
    BY <2>2 DEF Records
  <2>4. \A i \in 1..SampleCount : StartRun + i - 1 \in RunIds
    BY <2>2, PlanAssumption DEF RunIds
  <2>5. \A i \in 1..SampleCount : Sound(Records[i], Limit)
    BY <1>3, <2>3, <2>4 DEF CampaignInv, PlanInv, Written, Loaded, Intact
  <2>6. LET res == SummarizeCampaign(Records)
        IN  /\ res.total = SampleCount /\ res.valid + res.invalid = SampleCount
            /\ res.split <= res.invalid /\ res.valid <= res.converged
            /\ \A f \in TimingFields :
                 /\ res.timing[f].count = res.valid
                 /\ 0 <= res.timing[f].least /\ res.timing[f].most <= Limit
    BY <1>3, <2>2, <2>3, <2>5, SummaryAccounts
  <2> QED BY <1>1, <2>1, <2>6 DEF SampleAccounting
<1>4. UNCHANGED result \/ (SummarizeStep /\ Loaded /\ CampaignAccepted(Records))
  BY DEF Next, ExecutorStep, Plan, NextStep, CheckLayout, MakeParent, MakeLayout, Truncate, Write,
         SummarizeStep, Restart, Crash, RivalPrepares, Stop, vars, campaignVars
<1> QED BY <1>2, <1>3, <1>4

(* The statistics are about every run of the plan, with none of the        *)
(* latencies beyond the timeout and the calls of one poll, and their       *)
(* percentiles are in order                                                *)
(* (statistical_resilience.py:35-66, 118-201).                             *)
THEOREM StatisticsAreSound == Spec => []StatisticsSound
<1>1. Init => SampleAccounting
  BY DEF Init, SampleAccounting
<1>2. CampaignInv /\ SampleAccounting /\ [Next]_vars => SampleAccounting'
  BY AccountingStep
<1>3. PercentilesOrdered
  BY PercentilesHold
<1>4. SampleAccounting => StatisticsSound
  BY PercentilesHold DEF StatisticsSound
<1>5. Spec => []CampaignInv
  BY CampaignSafe
<1> QED BY <1>1, <1>2, <1>4, <1>5, PTL DEF Spec
=============================================================================
