------------------------------ MODULE Campaign ------------------------------
(***************************************************************************)
(* A campaign of physical runs (campaign_runner.py): a plan of run ids, a  *)
(* directory and a summary per run, and the statistics at the end; with    *)
(* the runs themselves, a crash of the executor at any step, and another   *)
(* executor on the same directory.                                         *)
(***************************************************************************)
EXTENDS PhysicalRun, CampaignStatistics

CONSTANTS
  StartRun,    \* start_run of CampaignPlan
  Topologies   \* topologies an operator may give

ASSUME PlanAssumption == StartRun \in Nat \ {0}

SampleCount == plan.samples

RunIds == StartRun..(StartRun + SampleCount - 1)

VARIABLES
  topology,  \* the NodeSpecs given
  owner,     \* who made the logs directory of each run: "none", "ours" or "rival";
             \* "bare" when there is only the directory of the run itself
  summary,   \* benchmark-summary.json of each run: NoSummary, Torn or what it says
  current,   \* the run this executor is at
  result     \* what summarize_campaign returned, or NoResult

campaignVars == <<topology, owner, summary, current, result>>
vars == <<runVars, campaignVars>>

NoSummary == [classification |-> "absent"]
Torn == [classification |-> "torn"]
NoResult == [total |-> 0]

Init ==
  /\ InitRun
  /\ topology \in Topologies
  /\ owner \in [RunIds -> {"none", "bare", "rival"}]
  /\ \A r \in RunIds : owner[r] # "none" => r = StartRun
  /\ summary = [r \in RunIds |-> NoSummary]
  /\ current = StartRun /\ result = NoResult

Exists(r) == owner[r] # "none"
HasSummary(r) == summary[r] # NoSummary          \* is_file: also of a torn one
Intact(r) == summary[r] \notin {NoSummary, Torn}

-----------------------------------------------------------------------------
(* Planning: a topology that holds, and no directory of the plan there.    *)

AssertPlanIsFresh == \A r \in RunIds : ~Exists(r)

Plan ==
  /\ pc = "plan"
  /\ pc' = IF ValidateTopology(topology) /\ AssertPlanIsFresh THEN "next" ELSE "refused"
  /\ UNCHANGED <<procVars, worldVars, plan, seenVars, evidence, trouble, campaignVars>>

(* Mutant: a directory counts as a completed run.                          *)
HolesOnly == \A r, q \in RunIds : (r < q /\ Exists(q)) => Exists(r)

(* validate_completed_prefix: it raises on a hole, and on a run without a  *)
(* summary.                                                                *)
PrefixValid ==
  /\ \A r, q \in RunIds : (r < q /\ Exists(q)) => Exists(r)
  /\ \A r \in RunIds : Exists(r) => HasSummary(r)

Pending == {r \in RunIds : ~Exists(r)}

(* next_campaign_run_id.                                                   *)
NextRun == Min(Pending)

NextStep ==
  /\ pc = "next"
  /\ \/ ~PrefixValid /\ pc' = "blocked" /\ UNCHANGED current
     \/ PrefixValid /\ Pending # {} /\ pc' = "check" /\ current' = NextRun
     \/ PrefixValid /\ Pending = {} /\ pc' = "summarize" /\ UNCHANGED current
  /\ UNCHANGED <<procVars, worldVars, plan, seenVars, evidence, trouble, topology, owner,
                 summary, result>>

(* prepare_run_layout: the check, then the mkdir of run/logs, which makes  *)
(* the directory of the run on its way and raises only when logs exists.   *)
CheckLayout ==
  /\ pc = "check"
  /\ pc' = IF Exists(current) THEN "down" ELSE "mkdir"
  /\ UNCHANGED <<procVars, worldVars, plan, seenVars, evidence, trouble, campaignVars>>

MakeParent ==
  /\ pc = "mkdir"
  /\ owner' = [owner EXCEPT ![current] = IF Exists(current) THEN @ ELSE "bare"]
  /\ pc' = "mkdir_logs"
  /\ UNCHANGED <<procVars, worldVars, plan, seenVars, evidence, trouble, topology, summary,
                 current, result>>

(* Mutant: exist_ok=True.                                                  *)
MkdirAnyway(r) == FALSE

MkdirRaises(r) == owner[r] \in {"ours", "rival"}

MakeLayout ==
  /\ pc = "mkdir_logs"
  /\ IF MkdirRaises(current)
     THEN /\ pc' = "down"
          /\ UNCHANGED <<procVars, worldVars, plan, seenVars, evidence, trouble, owner>>
     ELSE BeginBody /\ owner' = [owner EXCEPT ![current] = "ours"]
  /\ UNCHANGED <<topology, summary, current, result>>

(* save_evidence_json: write_text truncates the file and then fills it.    *)
Truncate ==
  /\ pc = "save"
  /\ summary' = [summary EXCEPT ![current] = Torn]
  /\ pc' = "write"
  /\ UNCHANGED <<procVars, worldVars, plan, seenVars, evidence, trouble, topology, owner,
                 current, result>>

(* The executor is to put the run id into the summary, which nothing here  *)
(* does for it.                                                            *)
Write ==
  /\ pc = "write"
  /\ summary' = [summary EXCEPT ![current] =
                    IF plan.named THEN [evidence EXCEPT !.run = current] ELSE evidence]
  /\ evidence' = NoEvidence /\ stopErrors' = {}
  /\ pc' = "next"
  /\ UNCHANGED <<started, own, orphans, worldVars, plan, seenVars, trouble, topology, owner,
                 current, result>>

-----------------------------------------------------------------------------
(* load_run_summaries raises on a missing file and on one that is no JSON. *)
Loaded == \A r \in RunIds : Intact(r)

Records == [i \in 1..SampleCount |-> summary[StartRun + i - 1]]

SummarizeStep ==
  /\ pc = "summarize"
  /\ IF Loaded /\ CampaignAccepted(Records)
     THEN pc' = "done" /\ result' = SummarizeCampaign(Records)
     ELSE pc' = "blocked" /\ UNCHANGED result
  /\ UNCHANGED <<procVars, worldVars, plan, seenVars, evidence, trouble, topology, owner,
                 summary, current>>

-----------------------------------------------------------------------------
(* The executor is killed: its children go on.  Later an operator starts   *)
(* it again, with or without ending what was left.                         *)

Ended == pc \in {"refused", "blocked", "done"}

Crash ==
  /\ ~Ended /\ pc \notin {"plan", "down"} /\ Lose("host")
  /\ pc' = "down" /\ started' = 0
  /\ orphans' = orphans \cup own /\ own' = {} /\ stopErrors' = {}
  /\ FreshObservations /\ FreshWorld(orphans') /\ evidence' = NoEvidence
  /\ UNCHANGED <<plan, campaignVars>>

Restart ==
  /\ pc = "down"
  /\ pc' = "next" /\ stopErrors' = {}
  /\ \E kept \in {{}, orphans} : orphans' = kept /\ FreshWorld(kept)
  /\ UNCHANGED <<started, own, plan, seenVars, evidence, trouble, campaignVars>>

(* Another executor, which found it absent, makes the directory of the run *)
(* this one is about to make, and maybe its logs too.                      *)
RivalPrepares ==
  /\ pc \in {"check", "mkdir", "mkdir_logs"} /\ Lose("host")
  /\ \E o \in {"bare", "rival"} :
       /\ owner[current] = "none" \/ (owner[current] = "bare" /\ o = "rival")
       /\ owner' = [owner EXCEPT ![current] = o]
  /\ UNCHANGED <<pc, procVars, worldVars, plan, seenVars, evidence, topology, summary,
                 current, result>>

Stop == Ended /\ UNCHANGED vars

ExecutorStep ==
  \/ Plan \/ NextStep \/ CheckLayout \/ MakeParent \/ MakeLayout \/ Truncate \/ Write
  \/ SummarizeStep
  \/ RunnerStep /\ UNCHANGED campaignVars

Next ==
  \/ ExecutorStep \/ Crash \/ Restart \/ RivalPrepares \/ Stop
  \/ WorldStep /\ UNCHANGED campaignVars

Spec == Init /\ [][Next]_vars

(* The executor is one thread whose every call returns or raises in time;  *)
(* that an operator starts it again is not assumed.                        *)
FairSpec == Spec /\ WF_vars(ExecutorStep)

-----------------------------------------------------------------------------
(* The latest T4: the deadline is looked at before the logs are read and   *)
(* the hub is asked, and not again.                                        *)
Limit == Timeout + 2 * plan.slow

TypeOK ==
  /\ pc \in {"plan", "refused", "next", "check", "mkdir", "mkdir_logs", "start", "baseline",
             "logs", "peers", "process", "endpoint", "classify", "cleanup", "save", "write",
             "summarize", "blocked", "down", "done"}
  /\ started \in 0..Len(StartOrder)
  /\ own \subseteq NodeIds \cup {Hub} /\ orphans \subseteq NodeIds \cup {Hub}
  /\ own \cap orphans = {} /\ stopErrors \subseteq own \cup orphans
  /\ role \in [NodeIds -> Roles] /\ DOMAIN registry \subseteq NodeIds
  /\ \A n \in Survivors : role[n] = "MASTER" <=> stage[n] = "promoted"
  /\ now \in 0..Limit + 1 /\ yielded \subseteq NodeIds
  /\ \A e \in Events : timeline[e] \in (0..now) \cup {Never}
  /\ promoted \in Survivors \cup {NoNode}
  /\ trouble \in 0..plan.trouble /\ plan \in Plans /\ current \in RunIds
  /\ owner \in [RunIds -> {"none", "bare", "ours", "rival"}]

(* A valid run shows a real failover: when it is classified, T0 <= T1 <=   *)
(* T2 <= T3 <= T4, T4 beyond the timeout by no more than the calls of one  *)
(* poll take, the hub's last answer lists exactly the survivors under the  *)
(* promoted one, which is MASTER or was until it yielded, and, if the      *)
(* master's liveness was observed, the master this run started is gone.    *)
ValidIsReal ==
  pc = "classify" /\ ClassifiedValid(timeline, promoted, converged, SplitJudged, Cause) =>
    /\ \A i \in 1..4 : timeline[TimelineEvents[i]] <= timeline[TimelineEvents[i + 1]]
    /\ timeline["t4"] <= Limit
    /\ DOMAIN peers = Survivors /\ Masters(peers) = {promoted}
    /\ role[promoted] = "MASTER" \/ promoted \in yielded
    /\ observer => FailedMaster \notin own

(* The recorder holds a prefix of T0..T4 in the order of the clock,        *)
(* whatever the order in which the survivors' lines come: an interval of   *)
(* a run, valid or not, is never negative.                                 *)
TimelineIsPrefix ==
  \A i \in 1..4 :
    timeline[TimelineEvents[i + 1]] # Never =>
      /\ timeline[TimelineEvents[i]] # Never
      /\ timeline[TimelineEvents[i]] <= timeline[TimelineEvents[i + 1]]

(* A split brain is reported from the liveness of the master only if, when *)
(* the hub was asked, the master lived and a survivor was listed as MASTER. *)
SplitIsReal ==
  [][~splitSeen /\ splitSeen' => masterThere /\ Masters(peers) \ {FailedMaster} # {}]_vars

(* A run begins only when every earlier run of the plan has its summary,   *)
(* also when the executor died and came back in between.                   *)
InPlanOrder == \A r, q \in RunIds : (r < q /\ Exists(q)) => HasSummary(r)

(* A run is never taken over or repeated: who made its directory stays, a  *)
(* whole summary is never written again, and this executor writes only     *)
(* into a directory of its own.                                            *)
EachRunOnce ==
  [][\A r \in RunIds :
       /\ owner[r] \in {"ours", "rival"} => owner'[r] = owner[r]
       /\ Exists(r) => owner'[r] # "none"
       /\ Intact(r) => summary'[r] = summary[r]
       /\ summary'[r] # summary[r] => owner[r] = "ours"]_vars

(* The campaign stops short only for a run whose summary is missing or     *)
(* torn, when no run is valid, or for want of the run ids: whatever        *)
(* classify_run writes is accepted by validate_run once it names its run.  *)
BlockedForCause ==
  pc = "blocked" =>
    \/ \E r \in RunIds : Exists(r) /\ ~Intact(r)
    \/ \A r \in RunIds : summary[r].classification # "valid"
    \/ ~plan.named

(* No campaign comes to its statistics unless the executor names the run   *)
(* in each summary.                                                        *)
NamedWhenDone == pc = "done" => plan.named

(* The statistics are about the whole plan: every run is counted, a run    *)
(* with a split brain only as invalid, and the latencies are those of the  *)
(* valid runs, none of them beyond the timeout and the calls of a poll.    *)
SampleAccounting ==
  result # NoResult =>
    /\ result.total = SampleCount /\ result.valid + result.invalid = SampleCount
    /\ result.split <= result.invalid /\ result.valid <= result.converged
    /\ \A f \in TimingFields :
         /\ result.timing[f].count = result.valid
         /\ 0 <= result.timing[f].least /\ result.timing[f].most <= Limit

(* After the clean-up the only children left are those whose own stop      *)
(* failed: one that cannot be stopped keeps none of the others alive.      *)
OnlyFailedStopsSurvive == pc = "cleanup" /\ started = 0 => own \subseteq stopErrors

(* The percentiles of any few samples, in any order, lie between the least *)
(* and the most in the order of their ranks, and the fiftieth is the       *)
(* median.                                                                 *)
PercentilesOrdered ==
  pc = "plan" =>
    \A n \in 1..4 : \A samples \in [1..n -> 0..2] :
      LET s == Summarize(samples)
          ordered == Sorted(samples)
      IN  /\ 100 * s.least <= s.p50 /\ s.p50 <= s.p90 /\ s.p90 <= s.p95
          /\ s.p95 <= s.p99 /\ s.p99 <= 100 * s.most
          /\ s.p50 = 50 * (ordered[(n + 1) \div 2] + ordered[n \div 2 + 1])

(* The executor always comes to an end, done or refused or blocked or by   *)
(* an exception, however the hub and the nodes behave: each loop has its   *)
(* deadline.                                                               *)
ExecutorEnds == []<>(Ended \/ pc = "down")

(* The plan is followed: its runs in their order, past no hole and past no *)
(* run without a summary, and it stops for no other reason                 *)
(* (campaign_runner.py:292-403, statistical_resilience.py:128-365).        *)
PlanFollowed == TypeOK /\ InPlanOrder /\ BlockedForCause /\ NamedWhenDone

(* The statistics are sound, of the runs counted and of the percentiles.   *)
StatisticsSound == SampleAccounting /\ PercentilesOrdered
=============================================================================
