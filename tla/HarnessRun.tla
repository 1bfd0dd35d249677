----------------------------- MODULE HarnessRun -----------------------------
(***************************************************************************)
(* One run of the S1/S5 harness on one host (class Run, s1s5_harness.py):  *)
(* the gates, the start of the hub and of the nodes as child processes,    *)
(* the sampling, the stop of the master (S5), the shutdown, the verdict    *)
(* and the evidence; with the cluster it observes, the interrupts and the  *)
(* hard kill of the harness itself.  Each sample also carries what the     *)
(* roles really were (field real), which the harness does not see.         *)
(***************************************************************************)
EXTENDS HarnessPreflight, HarnessVerdict

CONSTANTS
  Hub,             \* the rendezvous hub, a child like the nodes
  StartOrder,      \* the children in the order in which they are started
  Configs,         \* configurations an operator may give, numbered
  FactSets,        \* states of the host that preflight may find, numbered
  Settle,          \* settle_s
  Window,          \* s1_window_s
  Baseline,        \* s5_baseline_s
  Flush,           \* the 2 s of observation after a probe
  MinObservation,  \* s5_min_observation_s
  MaxFaults,       \* bound: failures around the runtime, lost answers included
  MaxChanges       \* bound: misbehaviours of the runtime

Members == Nodes \cup {Hub}

ASSUME StartValid ==
  /\ Hub \notin Nodes
  /\ StartOrder \in [1..Cardinality(Members) -> Members]
  /\ StartOrder[1] = Hub /\ StartOrder[2] = Master
  /\ {StartOrder[i] : i \in DOMAIN StartOrder} = Members

(* What is given and found has the types the code checks or produces.      *)
ASSUME InputsValid ==
  /\ DOMAIN Configs \subseteq Nat /\ DOMAIN FactSets \subseteq Nat /\ MinFreeFloor \in Int
  /\ \A i \in DOMAIN Configs :
       LET nodes == Configs[i].nodes
       IN  Configs[i].minFree \in Int /\ nodes \in Seq({nodes[k] : k \in DOMAIN nodes})
  /\ \A i \in DOMAIN FactSets :
       /\ FactSets[i].memory \in Int
       /\ FactSets[i].ports \subseteq [connects : BOOLEAN, wildcard : BOOLEAN, loopback : BOOLEAN]

ASSUME BoundsValid == MaxFaults \in Nat /\ MaxChanges \in Nat

VARIABLES
  scenario,    \* "s1" or "s5"
  config,      \* what the operator gave
  facts,       \* what preflight finds
  pc,          \* where the run stands
  guard,       \* OrphanGuard: what ends the children with the harness; "none"
               \* is also a guard whose calls fail, which the code swallows
  protected,   \* the children that guard ends
  started,     \* how many of StartOrder have been started
  child,       \* what became of each child process
  procs,       \* procs: the children recorded
  stopped,     \* Managed.stopped: no, or how it ended
  clock, since, \* the time (from the stop of the master on, since then), and
                \* when the present phase began
  data,        \* what run_s1 and run_s5 return
  conv,        \* t_conv, or Never
  role,        \* the role each node has
  hubView,     \* the role the hub lists for each node
  log,         \* what the nodes logged
  aborted,     \* whether the run was abandoned (for whatever reason)
  result,      \* the verdict
  evidence,    \* how much of the evidence is written
  faults, changes  \* how many of each have happened

gateVars == <<scenario, config, facts>>
guardVars == <<guard, protected>>
childVars == <<child, procs, stopped, guardVars>>
timeVars == <<clock, since>>
obsVars == <<data, conv, clock, since, log>>
worldVars == <<role, hubView>>
endVars == <<aborted, result, evidence>>
boundVars == <<faults, changes>>
vars == <<gateVars, pc, started, childVars, obsVars, worldVars, endVars, boundVars>>

Never == -1

Phases == {"config", "preflight", "ports", "fork", "forking", "adopt", "record", "hub_wait",
           "master_wait", "ready", "settle", "window", "probe", "flush", "stop_master",
           "failover", "probe_new", "flush_new", "judge", "shutdown", "classify", "write",
           "sums", "ended", "killed"}
Running == Phases \ {"config", "preflight", "judge", "shutdown", "classify", "write", "sums",
                     "ended", "killed"}
Gone == {"ended", "killed"}

NoData == [window |-> <<>>, start |-> 0, end |-> 0, qs |-> NoProbe,
           reasons |-> {}, post |-> <<>>, hub |-> HubSilent, qsNew |-> NoProbe]

TypeOK ==
  /\ scenario \in {"s1", "s5"} /\ config \in Nat /\ facts \in Nat
  /\ pc \in Phases
  /\ started \in 0..Len(StartOrder)
  /\ child \in [Members -> {"none", "forked", "alive", "sick", "exited"}]
  /\ guard \in {"pdeathsig", "job", "none"} /\ protected \subseteq Members
  /\ procs \subseteq {StartOrder[i] : i \in 1..started}
  /\ stopped \in [Members -> {"no", "confirmed", "unconfirmed"}]
  /\ clock \in Nat /\ since \in 0..clock
  /\ conv \in Nat \cup {Never}
  /\ role \in [Nodes -> {"MASTER", "FOLLOWER"}]
  /\ hubView \in [Nodes -> {"MASTER", "FOLLOWER", "absent"}]
  /\ aborted \in BOOLEAN
  /\ result \in {"none", "config_error", "PASS", "FAIL", "BLOCKED"}
  /\ evidence \in {"none", "unsummed", "complete"}
  /\ faults \in 0..MaxFaults /\ changes \in 0..MaxChanges

Init ==
  /\ scenario \in {"s1", "s5"} /\ config \in DOMAIN Configs /\ facts \in DOMAIN FactSets
  /\ pc = "config" /\ started = 0
  /\ child = [c \in Members |-> "none"] /\ procs = {}
  /\ stopped = [c \in Members |-> "no"]
  /\ guard \in {"pdeathsig", "job", "none"} /\ protected = {}
  /\ clock = 0 /\ since = 0
  /\ data = NoData /\ conv = Never
  /\ role = [n \in Nodes |-> StableRole(n)]
  /\ hubView = [n \in Nodes |-> "absent"]
  /\ log = {}
  /\ aborted = FALSE /\ result = "none" /\ evidence = "none"
  /\ faults = 0 /\ changes = 0

Goes(from, to) == pc = from /\ pc' = to

(* A bounded number of faults of the host and of the network.              *)
Fault(n) == faults + n <= MaxFaults /\ faults' = faults + n
NoFault == faults' = faults

(* What the scenario recorded is returned at its end, and lost before it;  *)
(* after it neither the time nor the logs matter.                          *)
Forget == data' = NoData /\ conv' = Never /\ clock' = 0 /\ since' = 0 /\ log' = {}

Abort == aborted' = TRUE /\ pc' = "shutdown" /\ Forget

(* An exit before the evidence is written leaves no verdict either.        *)
DropUnwritten ==
  \/ evidence = "none" /\ Forget /\ result' = "none"
  \/ evidence # "none" /\ UNCHANGED <<obsVars, result>>
NoAbort == UNCHANGED <<aborted, obsVars>>

----------------------------------------------------------------------------
(* The gates.                                                              *)

Given == Configs[config]
Host == FactSets[facts]

LoadConfig ==
  /\ pc = "config"
  /\ \/ /\ ParseConfig(Given)
        /\ pc' = "preflight" /\ UNCHANGED result
     \/ /\ ~ParseConfig(Given)
        /\ pc' = "ended" /\ result' = "config_error"
  /\ UNCHANGED <<gateVars, started, childVars, obsVars, worldVars, aborted, evidence, boundVars>>

Blocked == BlockedChecks(Given, Host) # {}

Preflight ==
  /\ pc = "preflight"
  /\ \/ ~Blocked /\ pc' = "ports" /\ UNCHANGED result
     \/ Blocked /\ pc' = "write" /\ result' = "BLOCKED"
  /\ UNCHANGED <<gateVars, started, childVars, obsVars, worldVars, aborted, evidence, boundVars>>

----------------------------------------------------------------------------
(* bring_up: the hub, the master once the hub answers, the followers once  *)
(* the hub lists the master, then samples until every node is ready.       *)

Starting == StartOrder[started + 1]

(* The ports are looked at again right before each start.                  *)
CheckPorts ==
  /\ pc = "ports"
  /\ \/ pc' = "fork" /\ NoFault /\ NoAbort
     \/ Fault(1) /\ Abort
  /\ UNCHANGED <<gateVars, started, childVars, worldVars, result, evidence, changes>>

(* start_process, on Linux: Popen forks, the child asks for its death with *)
(* its parent before exec, and only then does Popen return.  On Windows    *)
(* the child runs from the start and enters the job after Popen returned,  *)
(* unless that fails.                                                      *)
Fork ==
  /\ Goes("fork", "forking")
  /\ child' = [child EXCEPT ![Starting] = IF guard = "pdeathsig" THEN "forked" ELSE "alive"]
  /\ started' = started + 1
  /\ UNCHANGED <<gateVars, procs, stopped, guardVars, obsVars, worldVars, endVars, boundVars>>

(* The signal is for the death of a parent that is still there.            *)
SetDeathSignal(c) ==
  /\ child[c] = "forked"
  /\ child' = [child EXCEPT ![c] = "alive"]
  /\ protected' = IF pc \in Gone THEN protected ELSE protected \cup {c}
  /\ UNCHANGED <<gateVars, pc, started, procs, stopped, guard, obsVars, worldVars, endVars,
                 boundVars>>

Popen ==
  /\ Goes("forking", "adopt")
  /\ child[StartOrder[started]] # "forked"
  /\ UNCHANGED <<gateVars, started, childVars, obsVars, worldVars, endVars, boundVars>>

Adopt ==
  /\ Goes("adopt", "record")
  /\ \/ guard = "job" /\ protected' = protected \cup {StartOrder[started]} /\ NoFault
     \/ guard = "job" /\ Fault(1) /\ UNCHANGED protected
     \/ guard # "job" /\ NoFault /\ UNCHANGED protected
  /\ UNCHANGED <<gateVars, started, child, procs, stopped, guard, obsVars, worldVars, endVars,
                 changes>>

Record ==
  LET c == StartOrder[started]
  IN  /\ pc = "record"
      /\ procs' = procs \cup {c}
      /\ pc' = IF c = Hub THEN "hub_wait" ELSE IF c = Master THEN "master_wait"
               ELSE IF started < Len(StartOrder) THEN "ports" ELSE "ready"
      /\ UNCHANGED <<gateVars, started, child, stopped, guardVars, obsVars, worldVars, endVars,
                     boundVars>>

(* check_local_alive: a child that exited, or whose log shows the death of *)
(* a thread, is found at the next look.                                    *)
Found(allowedDead) == \E c \in procs \ allowedDead : child[c] \in {"exited", "sick"}

(* A loop that polls until a deadline: the condition comes true, a child   *)
(* is found dead, or the deadline passes.                                  *)
WaitFor(from, to, condition) ==
  /\ pc = from
  /\ \/ Found({}) /\ Abort /\ NoFault
     \/ ~Found({}) /\ condition /\ pc' = to /\ NoFault /\ NoAbort
     \/ ~Found({}) /\ Fault(1) /\ Abort
  /\ UNCHANGED <<gateVars, started, childVars, worldVars, result, evidence, changes>>

Ready == \A n \in Nodes : child[n] = "alive" /\ role[n] = StableRole(n) /\ hubView[n] = StableRole(n)

WaitHub == WaitFor("hub_wait", "ports", child[Hub] = "alive")
WaitMasterRegistered == WaitFor("master_wait", "ports", hubView[Master] = "MASTER")
WaitReady == WaitFor("ready", "settle", Ready)

----------------------------------------------------------------------------
(* sample(): the checks, then what every node and the hub answer.          *)

SamplingPhases == {"settle", "window", "flush", "failover", "flush_new"}

AllowedDead == IF pc \in {"failover", "flush_new"} THEN {Master} ELSE {}

SampleAborts ==
  /\ pc \in SamplingPhases
  /\ Found(AllowedDead) /\ Abort
  /\ UNCHANGED <<gateVars, started, childVars, worldVars, result, evidence, boundVars>>

Answering == {c \in Members : child[c] = "alive"}

(* A sample without the answers of lost; each answer that is lost may cost *)
(* its timeout.  The members are asked one after the other and one time is *)
(* noted for all: here they answer at that time.                           *)
Sample(lost) ==
  [t |-> clock,
   nodes |-> [n \in Nodes |-> IF n \in lost \/ child[n] # "alive" THEN "none" ELSE role[n]],
   hub |-> IF Hub \in lost \/ child[Hub] # "alive" THEN HubSilent ELSE hubView,
   real |-> role]

TimePasses(lost) == \E d \in 1..(1 + Cardinality(lost)) : clock' = clock + d

Observe(lost) ==
  /\ ~Found(AllowedDead)
  /\ Fault(Cardinality(lost))
  /\ TimePasses(lost)

Duration ==
  CASE pc = "settle" -> Settle
    [] pc = "window" -> IF scenario = "s1" THEN Window ELSE Baseline
    [] pc \in {"flush", "flush_new"} -> Flush

(* sample_for: the phase ends with the first sample that fills its time.   *)
SampleFor(phase, to) ==
  /\ pc = phase
  /\ \/ clock' - since < Duration /\ UNCHANGED <<pc, since>>
     \/ clock' - since >= Duration /\ pc' = to /\ since' = clock'

SampleSettle(lost) ==
  /\ pc = "settle"
  /\ Observe(lost)
  /\ SampleFor("settle", "window")
  /\ data' = [data EXCEPT !.start = clock']
  /\ UNCHANGED <<gateVars, started, childVars, conv, worldVars, log, endVars, changes>>

SampleWindow(lost) ==
  /\ pc \in {"window", "flush"}
  /\ Observe(lost)
  /\ \/ SampleFor("window", "probe")
     \/ SampleFor("flush", IF scenario = "s1" THEN "judge" ELSE "stop_master")
  /\ data' = [data EXCEPT !.window = Append(@, Sample(lost)), !.end = clock']
  /\ UNCHANGED <<gateVars, started, childVars, conv, worldVars, log, endVars, changes>>

(* Of what the hub answers after the stop of the master, only the last     *)
(* answer counts.                                                          *)
AppendPost(s) ==
  [data EXCEPT !.post = Append(@, [t |-> s.t, nodes |-> s.nodes, real |-> s.real]),
               !.hub = IF s.hub = HubSilent THEN @ ELSE s.hub]

SampleFlushNew(lost) ==
  /\ pc = "flush_new"
  /\ Observe(lost)
  /\ SampleFor("flush_new", "judge")
  /\ data' = AppendPost(Sample(lost))
  /\ UNCHANGED <<gateVars, started, childVars, conv, worldVars, log, endVars, changes>>

(* The probe of the nodes: refused and the refusal logged, unless an       *)
(* answer is lost or the runtime serves what it should refuse.             *)
Probe(phase, to, field) ==
  /\ Goes(phase, to)
  /\ \/ /\ data' = [data EXCEPT ![field] = [results |-> {"REFUSED_CLOSED"}, logged |-> TRUE]]
        /\ NoFault /\ UNCHANGED changes
     \/ /\ \E qs \in {[results |-> {"REFUSED_CLOSED", "UNREACHABLE"}, logged |-> TRUE],
                      [results |-> {"REFUSED_CLOSED"}, logged |-> FALSE]} :
             data' = [data EXCEPT ![field] = qs]
        /\ Fault(1) /\ UNCHANGED changes
     \/ /\ changes < MaxChanges /\ changes' = changes + 1 /\ NoFault
        /\ data' = [data EXCEPT ![field] = [results |-> {"ACCEPTED"}, logged |-> TRUE]]
  /\ since' = clock
  /\ UNCHANGED <<gateVars, started, childVars, clock, conv, worldVars, log, endVars>>

ProbeAll == Probe("probe", "flush", "qs")
ProbeNew == Probe("probe_new", "flush_new", "qsNew")

----------------------------------------------------------------------------
(* stop_process: terminate, then kill; it never raises, and an interrupt   *)
(* that arrives in it is noted and goes no further.  A second call returns *)
(* what the first one found.                                               *)

StopProcess(c) ==
  \/ stopped[c] # "no" /\ UNCHANGED <<child, stopped>> /\ NoFault
  \/ /\ stopped[c] = "no"
     /\ \/ /\ child' = [child EXCEPT ![c] = "exited"]
           /\ stopped' = [stopped EXCEPT ![c] = "confirmed"]
           /\ NoFault
        \/ /\ child[c] # "exited" /\ UNCHANGED child
           /\ stopped' = [stopped EXCEPT ![c] = "unconfirmed"]
           /\ Fault(1)

StableOf ==
  StableReasons(data.window, data.start, data.end, LogEvents(log, data.start, data.end), data.qs)

(* The baseline is judged here rather than at the end of the run: what it  *)
(* is judged by does not change any more.  What follows is judged from     *)
(* t_kill on, so the time starts again there.                              *)
StopMaster ==
  /\ Goes("stop_master", "failover")
  /\ StopProcess(Master)
  /\ data' = [NoData EXCEPT !.reasons = StableOf]
  /\ clock' = 0 /\ since' = 0 /\ log' = {}
  /\ UNCHANGED <<gateVars, started, procs, guardVars, conv, role, hubView, endVars, changes>>

(* The loop of run_s5: until the new roles have held, or it is too late.   *)
Good(s) == s.nodes[Candidate] = "MASTER" /\ FinalOk(s)

LoopEnds(t, c) ==
  \/ c # Never /\ t - c >= Hold /\ t >= MinObservation
  \/ c = Never /\ t > PromotionDeadline
  \/ t > PromotionDeadline + Hold + MinObservation

(* Mutant: a sample that is not good does not start the hold anew.         *)
NextConvSticks(s) == IF conv # Never THEN conv ELSE IF Good(s) THEN s.t ELSE Never

NextConv(s) == IF ~Good(s) THEN Never ELSE IF conv # Never THEN conv ELSE s.t

SampleFailover(lost) ==
  LET s == Sample(lost)
      c == NextConv(s)
      next == IF s.nodes[Candidate] = "MASTER" THEN "probe_new" ELSE "judge"
  IN  /\ pc = "failover"
      /\ Observe(lost)
      /\ data' = AppendPost(s)
      /\ conv' = c
      /\ pc' = IF LoopEnds(s.t, c) THEN next ELSE "failover"
      /\ UNCHANGED <<gateVars, started, childVars, since, worldVars, log, endVars, changes>>

SampleStep ==
  \/ SampleAborts
  \/ /\ pc \in SamplingPhases
     /\ \E lost \in UNION {kSubset(k, Answering) : k \in 0..(MaxFaults - faults)} :
          SampleSettle(lost) \/ SampleWindow(lost) \/ SampleFailover(lost) \/ SampleFlushNew(lost)

----------------------------------------------------------------------------
(* The end of a run.                                                       *)

(* Ctrl+C, a signal, or an error of the harness: the run is abandoned.     *)
Interrupt ==
  /\ pc \in Running
  /\ Fault(1) /\ Abort
  /\ UNCHANGED <<gateVars, started, childVars, worldVars, result, evidence, changes>>

(* An interrupt before or after that leaves execute(): main reports it and *)
(* exits.                                                                  *)
InterruptEnd ==
  /\ pc \in {"preflight", "shutdown", "classify", "write", "sums"}
  /\ Fault(1) /\ pc' = "ended" /\ DropUnwritten
  /\ UNCHANGED <<gateVars, started, childVars, worldVars, aborted, evidence, changes>>

HardKill ==
  /\ pc \notin Gone
  /\ Fault(1) /\ pc' = "killed" /\ DropUnwritten
  /\ UNCHANGED <<gateVars, started, childVars, worldVars, aborted, evidence, changes>>

(* The classification of what the scenario returns; the code computes it   *)
(* after the shutdown, which changes nothing it is computed from.          *)
ScenarioReasons ==
  IF scenario = "s1" THEN StableOf
  ELSE data.reasons \cup FailoverReasons(data.post, data.hub, stopped[Master] = "confirmed",
                                         LogEvents(log, 0, clock + 1), data.qsNew)

Judge ==
  /\ Goes("judge", "shutdown")
  /\ data' = [NoData EXCEPT !.reasons = ScenarioReasons]
  /\ conv' = Never /\ clock' = 0 /\ since' = 0 /\ log' = {}
  /\ UNCHANGED <<gateVars, started, childVars, worldVars, endVars, boundVars>>

(* shutdown: the nodes as they were started, then the hub.                 *)
Left == {i \in DOMAIN StartOrder : StartOrder[i] \in procs /\ stopped[StartOrder[i]] = "no"}

ShutdownStop(c) ==
  /\ pc = "shutdown" /\ Left # {}
  /\ c = IF Left = {1} THEN Hub ELSE StartOrder[Min(Left \ {1})]
  /\ StopProcess(c)
  /\ UNCHANGED <<gateVars, pc, started, procs, guardVars, obsVars, worldVars, endVars, changes>>

ShutdownDone ==
  /\ Goes("shutdown", "classify")
  /\ \A c \in procs : stopped[c] # "no"
  /\ UNCHANGED <<gateVars, started, childVars, obsVars, worldVars, endVars, boundVars>>

VerdictOf == IF aborted THEN "BLOCKED" ELSE VerdictFor(data.reasons)

(* Mutant: finish does not look at how the children were stopped.          *)
FinalVerdictUnchecked == VerdictOf

(* finish: no PASS with a child whose end is not confirmed.                *)
FinalVerdict ==
  IF VerdictOf = "PASS" /\ \E c \in procs : stopped[c] # "confirmed" THEN "BLOCKED" ELSE VerdictOf

Classify ==
  /\ Goes("classify", "write")
  /\ result' = FinalVerdict
  /\ UNCHANGED <<gateVars, started, childVars, obsVars, worldVars, aborted, evidence, boundVars>>

WriteEvidence ==
  /\ \/ Goes("write", "sums") /\ evidence' = "unsummed"
     \/ Goes("sums", "ended") /\ evidence' = "complete"
  /\ UNCHANGED <<gateVars, started, childVars, obsVars, worldVars, aborted, result, boundVars>>

HarnessStep ==
  \/ LoadConfig \/ Preflight
  \/ CheckPorts \/ Fork \/ Popen \/ Adopt \/ Record \/ WaitHub \/ WaitMasterRegistered \/ WaitReady
  \/ SampleStep \/ ProbeAll \/ ProbeNew \/ StopMaster \/ Judge
  \/ ShutdownDone \/ Classify \/ WriteEvidence
  \/ \E c \in Members : ShutdownStop(c)

----------------------------------------------------------------------------
(* The children and the cluster they form.                                 *)

childUnchanged ==
  <<gateVars, pc, started, procs, stopped, guardVars, obsVars, worldVars, endVars>>

(* A child exits, or one of its threads dies, on its own.                  *)
ChildFails(c) ==
  /\ pc \in Running /\ child[c] = "alive" /\ c \in procs
  /\ \E s \in {"exited", "sick"} : child' = [child EXCEPT ![c] = s]
  /\ Fault(1)
  /\ UNCHANGED <<childUnchanged, changes>>

Living == {c \in Members : child[c] \in {"alive", "sick"}}

(* Mutant: only the children the harness has recorded die with it.         *)
DeathSignalsRecorded ==
  /\ pc \in Gone /\ Living \cap protected \cap procs # {}
  /\ child' = [c \in Members |->
                IF c \in Living \cap protected \cap procs THEN "exited" ELSE child[c]]
  /\ UNCHANGED <<childUnchanged, boundVars>>

(* The harness gone, the children its guard has get their signal, or are   *)
(* killed with the job.                                                    *)
DeathSignals ==
  /\ pc \in Gone /\ Living \cap protected # {}
  /\ child' = [c \in Members |-> IF c \in Living \cap protected THEN "exited" ELSE child[c]]
  /\ UNCHANGED <<childUnchanged, boundVars>>

(* A kill that was not confirmed in time takes effect later.               *)
KillTakesEffect(c) ==
  /\ c \in Living /\ stopped[c] = "unconfirmed"
  /\ child' = [child EXCEPT ![c] = "exited"]
  /\ UNCHANGED <<childUnchanged, boundVars>>

Misbehave(legal) ==
  \/ legal /\ UNCHANGED changes
  \/ ~legal /\ changes < MaxChanges /\ changes' = changes + 1

worldUnchanged == <<gateVars, pc, started, childVars, data, conv, timeVars, endVars, faults>>

Register(n) ==
  /\ child[n] = "alive" /\ child[Hub] = "alive" /\ hubView[n] = "absent" /\ pc \in Running
  /\ hubView' = [hubView EXCEPT ![n] = role[n]]
  /\ UNCHANGED <<role, log, worldUnchanged, changes>>

(* What a node registers again, and the hub forgets, in the time of a run. *)
HubCatchesUp ==
  /\ pc \in {"window", "probe", "flush", "failover", "probe_new", "flush_new"}
  /\ child[Hub] = "alive"
  /\ hubView' = [n \in Nodes |-> IF child[n] = "alive" THEN role[n] ELSE "absent"]
  /\ hubView' # hubView
  /\ UNCHANGED <<role, log, worldUnchanged, changes>>

(* A follower promotes itself, as it should when its id is the greatest    *)
(* and the master has been gone for long enough.                           *)
Promote(n) ==
  /\ pc \in SamplingPhases
  /\ child[n] = "alive" /\ role[n] = "FOLLOWER"
  /\ Misbehave(/\ n = Candidate /\ child[Master] = "exited"
               /\ pc \in {"failover", "flush_new"} /\ clock >= MinPromotionDelay)
  /\ role' = [role EXCEPT ![n] = "MASTER"]
  /\ log' = log \cup {[event |-> e, t |-> clock] : e \in {"missing", "promoted"}}
  /\ UNCHANGED <<hubView, worldUnchanged>>

(* A MASTER steps down, as one that should not have promoted itself does.  *)
Yield(n) ==
  /\ pc \in SamplingPhases
  /\ child[n] = "alive" /\ role[n] = "MASTER"
  /\ Misbehave(n \notin {Master, Candidate})
  /\ role' = [role EXCEPT ![n] = "FOLLOWER"]
  /\ UNCHANGED <<hubView, log, worldUnchanged>>

WriteState ==
  /\ pc \in SamplingPhases
  /\ Misbehave(FALSE)
  /\ log' = log \cup {[event |-> "written", t |-> clock]}
  /\ UNCHANGED <<role, hubView, worldUnchanged>>

ClusterStep ==
  \/ HubCatchesUp \/ WriteState
  \/ \E n \in Nodes : Register(n) \/ Promote(n) \/ Yield(n)

----------------------------------------------------------------------------
Ended ==
  /\ pc \in Gone
  /\ Living \cap protected = {} /\ \A c \in Members : child[c] # "forked"
  /\ UNCHANGED vars

Next ==
  \/ HarnessStep \/ ClusterStep
  \/ \E c \in Members : SetDeathSignal(c) \/ ChildFails(c) \/ KillTakesEffect(c)
  \/ Interrupt \/ InterruptEnd \/ HardKill \/ DeathSignals
  \/ Ended

Spec == Init /\ [][Next]_vars

(* The harness and the operating system go on; the nodes do register.      *)
Fairness ==
  /\ WF_vars(HarnessStep)
  /\ WF_vars(DeathSignals \/ \E c \in Members : SetDeathSignal(c))
  /\ WF_vars(\E n \in Nodes : Register(n))

FairSpec == Spec /\ Fairness

----------------------------------------------------------------------------
(* "preflight first; nothing starts unless it passes"                      *)
(* (s1s5_harness.py:1803), and what passes is what the harness needs of    *)
(* this host: a secret, measured memory, free ports, the runtime as it is  *)
(* in the repository, an accepted exposure.                                *)
NothingStartsBlocked ==
  started = 1 =>
    /\ Host.secret >= MinSecretLength
    /\ Host.memory >= MinFreeFloor
    /\ \A p \in Host.ports : p = [connects |-> FALSE, wildcard |-> TRUE, loopback |-> TRUE]
    /\ (Host.files.git => ~Host.files.modified) /\ ~Host.files.missing
    /\ Host.accepted \/ ~Host.wildcardBinds

(* In a configuration that is run no two endpoints of one host are the     *)
(* same, whoever they belong to (s1s5_harness.py:316-328).                 *)
EndpointsNeverShared ==
  started = 1 =>
    LET n == Given.nodes
        slots == {<<HostKey(Given.hub), Given.hub.port>>}
                   \cup {<<HostKey(n[i]), n[i].web>> : i \in DOMAIN n}
                   \cup {<<HostKey(n[i]), n[i].tcp>> : i \in DOMAIN n}
    IN  Cardinality(slots) = 1 + 2 * Len(n)

(* "A run whose children are not confirmed stopped is never reported as    *)
(* PASS" (s1s5_harness.py:1846): when the verdict is PASS, every process   *)
(* the run started is dead, whatever was interrupted.                      *)
PassMeansStopped ==
  result = "PASS" => \A c \in Members : child[c] \in {"none", "exited"}

(* In S1 a lost answer, a dead child, an interrupt or an unconfirmed stop  *)
(* gives no FAIL: a FAIL is something the runtime did                      *)
(* (s1s5_harness.py:966).                                                  *)
StableFailIsReal == scenario = "s1" /\ result = "FAIL" => changes > 0

(* No PASS over a gap (s1s5_harness.py:967): with PASS in S1, a role that  *)
(* was wrong from one sample to another, or to the end of the window, was  *)
(* so for less than max_observation_gap_s: no answer showed it.            *)
PassSeesDeviations ==
  scenario = "s1" /\ pc = "judge" /\ VerdictFor(ScenarioReasons) = "PASS" =>
    LET w == data.window
        until(j) == IF j = Len(w) THEN data.end ELSE w[j].t
    IN  \A n \in Nodes : \A i, j \in DOMAIN w :
          (i <= j /\ \A k \in i..j : w[k].real[n] # StableRole(n)) => until(j) - w[i].t < MaxGap

(* With PASS in S5, the candidate was promoted after the master was        *)
(* stopped and not sooner than the runtime can have noticed, and at the    *)
(* last sample each survivor really had its final role, or had it at a     *)
(* sample of at most max_observation_gap_s before.                         *)
FailoverPassIsReal ==
  scenario = "s5" /\ pc = "judge" /\ VerdictFor(ScenarioReasons) = "PASS" =>
    LET p == data.post
    IN  /\ child[Master] = "exited"
        /\ \A i \in DOMAIN p : p[i].t < MinPromotionDelay => p[i].nodes[Candidate] # "MASTER"
        /\ \A n \in Followers : \E i \in DOMAIN p :
             /\ p[Len(p)].t - p[i].t <= MaxGap
             /\ p[i].real[n] = FailoverRole(n)

(* Two computations of one thing: when the loop of run_s5 ends because the *)
(* new roles have held, the classifier, which looks at the samples again   *)
(* and by other rules, does not find them unheld                           *)
(* (s1s5_harness.py:1707-1722 and 1214-1232).                              *)
HoldAgrees ==
  pc = "probe_new" /\ conv # Never /\ data.post[Len(data.post)].t - conv >= Hold
    => "not_converged" \notin FailoverWhy(data.post, data.hub, TRUE, {})

(* What the gates promise: nothing starts on a host or a configuration     *)
(* that the harness refuses (s1s5_harness.py:316-328 and 1803).            *)
GatesHold == TypeOK /\ NothingStartsBlocked /\ EndpointsNeverShared

(* What nothing ends: a child that no guard has, and that is not recorded, *)
(* or whose harness went before its shutdown was over, or could not        *)
(* confirm the stop.                                                       *)
Uncovered(c) ==
  /\ c \notin protected
  /\ c \notin procs \/ evidence = "none" \/ stopped[c] = "unconfirmed"

(* Every run ends, whatever fails, and no process that was started         *)
(* outlives it, recorded or not, but for those that nothing can end        *)
(* (s1s5_harness.py:1272-1366 and 1840).                                   *)
RunEndsClean ==
  <>[](pc \in Gone /\ \A c \in Members : child[c] \in {"none", "exited"} \/ Uncovered(c))
=============================================================================
