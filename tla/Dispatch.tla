------------------------------- MODULE Dispatch -------------------------------
(***************************************************************************)
(* Distributed execution of a compute task: several callers, each with its *)
(* own ComputeRuntime, share one ClusterBackend, one ClusterDispatcher and *)
(* one TaskOwnershipRegistry while the membership of the cluster changes   *)
(* underneath them (nexus/compute/runtime.py, cluster.py, dispatcher.py,   *)
(* task_ownership.py).                                                     *)
(*                                                                         *)
(* Covered: the retry loop, backend selection, the two reads of the leader *)
(* and the two reads of the online set, reclaim of orphaned ownership,     *)
(* claim, the execution authority of the dispatcher, assert_execution_     *)
(* current, the finally block, first-writer-wins publication of results    *)
(* and failures, convergence of stale executions, the completion of each   *)
(* caller.                                                                 *)
(*                                                                         *)
(* Abstracted: outputs are the generation that produced them, messages are *)
(* one name per raise statement, load figures are a free choice among the  *)
(* eligible nodes, counters and durations are left out.  A step of a       *)
(* caller reads or writes shared state at most once, except where the      *)
(* comment of the action says why two accesses can be taken together.      *)
(***************************************************************************)
EXTENDS ClusterView, TaskOwnership, FiniteSets

CONSTANTS
  Run,          \* calls of ComputeRuntime.run(backend="cluster")
  TaskOf,       \* the task each call submits
  Eligible,     \* the nodes whose capabilities satisfy each task
  LeaderOnly,   \* is there no capability provider?
  MaxAttempts,  \* RetryPolicy.max_attempts
  NoMsg         \* no message

ASSUME RunAssumption ==
  /\ TaskOf \in [Run -> Task]
  /\ Eligible \in [Task -> SUBSET Node]
  /\ LeaderOnly \in BOOLEAN
  /\ MaxAttempts \in Nat \ {0}
  /\ Owner = Node

(* One name per place that raises, "stale" for StaleTaskOwnershipError.    *)
Msg == {"unavailable", "no leader", "stale leader", "leader offline",
        "no eligible node", "already owned", "no authority", "executor", "stale"}

ASSUME NoMsgAssumption == NoMsg \notin Msg

VARIABLES
  pc,          \* where each call is
  attempt,     \* the attempt it is in
  selected,    \* has the scheduler returned a backend in this attempt?
  seenLeader,  \* leader that ClusterBackend.run read
  current,     \* leader that the dispatcher read
  seenOnline,  \* online set passed to reclaim_orphaned
  target,      \* node the attempt executes on
  gen,         \* generation it claimed
  exc,         \* exception the attempt ends with, NoMsg for none
  authority,   \* ClusterDispatcher._execution_authority, 0 for no entry
  result,      \* ClusterBackend._terminal_results, 0 for no entry
  failure,     \* ClusterBackend._terminal_failures, NoMsg for no entry
  completion   \* the call's own TaskCompletion

locals == <<attempt, selected, seenLeader, current, seenOnline, target, gen, exc>>
terminal == <<result, failure>>
vars == <<clusterVars, ownershipVars, pc, locals, authority, terminal, completion>>

PC == {"idle", "select", "begin", "dispatch", "reclaim", "claim", "authorise",
       "executing", "guarded", "finally", "release", "publish", "failed",
       "done"}

(* Program counters at which a call believes that it owns its task.        *)
Holding == {"authorise", "executing", "guarded", "finally", "release"}

Completion == [status : {"absent", "running", "completed", "failed"},
               result : Nat, error : Msg \cup {NoMsg}]

TypeOK ==
  /\ ClusterTypeOK
  /\ OwnershipTypeOK
  /\ pc \in [Run -> PC]
  /\ attempt \in [Run -> 1 .. MaxAttempts]
  /\ selected \in [Run -> BOOLEAN]
  /\ seenLeader \in [Run -> Node \cup {NoNode}]
  /\ current \in [Run -> Node \cup {NoNode}]
  /\ seenOnline \in [Run -> SUBSET Node]
  /\ target \in [Run -> Node \cup {NoNode}]
  /\ gen \in [Run -> Nat]
  /\ exc \in [Run -> Msg \cup {NoMsg}]
  /\ authority \in [Task \X Node -> Nat]
  /\ result \in [Task -> Nat]
  /\ failure \in [Task -> Msg \cup {NoMsg}]
  /\ completion \in [Run -> Completion]

Init ==
  /\ ClusterInit
  /\ OwnershipInit
  /\ pc = [r \in Run |-> "idle"]
  /\ attempt = [r \in Run |-> 1]
  /\ selected = [r \in Run |-> FALSE]
  /\ seenLeader = [r \in Run |-> NoNode]
  /\ current = [r \in Run |-> NoNode]
  /\ seenOnline = [r \in Run |-> {}]
  /\ target = [r \in Run |-> NoNode]
  /\ gen = [r \in Run |-> 0]
  /\ exc = [r \in Run |-> NoMsg]
  /\ authority = [k \in Task \X Node |-> 0]
  /\ result = [t \in Task |-> 0]
  /\ failure = [t \in Task |-> NoMsg]
  /\ completion = [r \in Run |->
                     [status |-> "absent", result |-> 0, error |-> NoMsg]]

-----------------------------------------------------------------------------
(* Moves of a call that several actions make.                              *)

Goto(r, here, there) ==
  /\ pc[r] = here
  /\ pc' = [pc EXCEPT ![r] = there]

Raise(r, here, msg) ==
  /\ Goto(r, here, "failed")
  /\ exc' = [exc EXCEPT ![r] = msg]

(* ClusterBackend.health()                                                 *)
Available == master # NoNode /\ OnlineNodes # {}

Key(r) == <<TaskOf[r], target[r]>>

Holds(r) == Current(TaskOf[r], target[r], gen[r])

-----------------------------------------------------------------------------
(* ComputeRuntime.run up to the retry loop: the completion is created and  *)
(* started in the caller's own registry, which nobody else touches.        *)
Start(r) ==
  /\ Goto(r, "idle", "select")
  /\ completion' = [completion EXCEPT ![r].status = "running"]
  /\ UNCHANGED <<clusterVars, ownershipVars, locals, authority, terminal>>

(* scheduler.select("cluster") asks the backend for its health; when it is *)
(* not available selected_backend is still None.                           *)
Select(r) ==
  /\ \/ /\ Available
        /\ Goto(r, "select", "begin")
        /\ selected' = [selected EXCEPT ![r] = TRUE]
        /\ UNCHANGED exc
     \/ /\ ~Available
        /\ Raise(r, "select", "unavailable")
        /\ UNCHANGED selected
  /\ UNCHANGED <<clusterVars, ownershipVars, attempt, seenLeader, current,
                 seenOnline, target, gen, authority, terminal, completion>>

(* ClusterBackend.run asks again, then reads the leader it will pass on.   *)
(* A leader lost between the two reads ends like one lost before them.     *)
Begin(r) ==
  /\ \/ /\ Available
        /\ Goto(r, "begin", "dispatch")
        /\ seenLeader' = [seenLeader EXCEPT ![r] = master]
        /\ UNCHANGED exc
     \/ /\ ~Available
        /\ Raise(r, "begin", "unavailable")
        /\ UNCHANGED seenLeader
  /\ UNCHANGED <<clusterVars, ownershipVars, attempt, selected, current,
                 seenOnline, target, gen, authority, terminal, completion>>

(* ClusterDispatcher.__call__: the current leader and the online set.      *)
Snapshot(r) ==
  /\ \/ /\ master # NoNode
        /\ Goto(r, "dispatch", "reclaim")
        /\ current' = [current EXCEPT ![r] = master]
        /\ seenOnline' = [seenOnline EXCEPT ![r] = OnlineNodes]
        /\ UNCHANGED <<exc, seenLeader>>
     \/ /\ master = NoNode
        /\ Raise(r, "dispatch", "no leader")
        /\ seenLeader' = [seenLeader EXCEPT ![r] = NoNode]
        /\ UNCHANGED <<current, seenOnline>>
  /\ UNCHANGED <<clusterVars, ownershipVars, attempt, selected, target, gen,
                 authority, terminal, completion>>

(* _resolve_target: without a capability provider the leader, else an      *)
(* eligible online node (which one depends on the load figures).           *)
Candidates(r) ==
  IF LeaderOnly THEN {seenLeader[r]} ELSE OnlineNodes \cap Eligible[TaskOf[r]]

ResolveTarget(r) ==
  \/ /\ seenLeader[r] # current[r]
     /\ Raise(r, "reclaim", "stale leader")
     /\ UNCHANGED target
  \/ /\ seenLeader[r] = current[r]
     /\ seenLeader[r] \notin OnlineNodes
     /\ Raise(r, "reclaim", "leader offline")
     /\ UNCHANGED target
  \/ /\ seenLeader[r] = current[r]
     /\ seenLeader[r] \in OnlineNodes
     /\ Candidates(r) = {}
     /\ Raise(r, "reclaim", "no eligible node")
     /\ UNCHANGED target
  \/ /\ seenLeader[r] = current[r]
     /\ seenLeader[r] \in OnlineNodes
     /\ \E n \in Candidates(r) : target' = [target EXCEPT ![r] = n]
     /\ Goto(r, "reclaim", "claim")
     /\ UNCHANGED exc

(* The reclaim uses the online set read before; the target is resolved     *)
(* with the one of now.  The reclaim does not read the membership and the  *)
(* resolution does not read the registry, so taking them together loses no *)
(* behaviour.  What was read before is not used again.                     *)
Reclaim(r) ==
  /\ ResolveTarget(r)
  /\ ReclaimOrphaned(seenOnline[r])
  /\ seenLeader' = [seenLeader EXCEPT ![r] = NoNode]
  /\ current' = [current EXCEPT ![r] = NoNode]
  /\ seenOnline' = [seenOnline EXCEPT ![r] = {}]
  /\ UNCHANGED <<clusterVars, attempt, selected, gen, authority, terminal,
                 completion>>

(* _execute_owned: claim, refused while another call owns the task.        *)
ClaimTask(r) ==
  /\ \/ /\ Goto(r, "claim", "authorise")
        /\ Claim(TaskOf[r], target[r])
        /\ gen' = [gen EXCEPT ![r] = NextGeneration(TaskOf[r])]
        /\ UNCHANGED <<exc, target>>
     \/ /\ owner[TaskOf[r]] # NoOwner
        /\ Raise(r, "claim", "already owned")
        /\ target' = [target EXCEPT ![r] = NoNode]
        /\ UNCHANGED <<ownershipVars, gen>>
  /\ UNCHANGED <<clusterVars, attempt, selected, seenLeader, current,
                 seenOnline, authority, terminal, completion>>

(* _execution_authority is keyed by task and node, not by generation.      *)
Authorise(r) ==
  /\ Goto(r, "authorise", "executing")
  /\ authority' = [authority EXCEPT ![Key(r)] = gen[r]]
  /\ UNCHANGED <<clusterVars, ownershipVars, locals, terminal, completion>>

(* Mutant: having an entry is taken for being current.                     *)
AuthorityPresent(r) == authority[Key(r)] # 0

(* What assert_execution_current decides for a call on its target node.    *)
AuthorityCurrent(r) ==
  /\ authority[Key(r)] # 0
  /\ Current(TaskOf[r], target[r], authority[Key(r)])

(* An executor may check its authority before a protected effect.  The     *)
(* lookup of the generation and the registry's check are taken together: a *)
(* check that passes would have passed at the lookup, and what a check     *)
(* raises after the ownership was lost is hidden by the release below.     *)
AssertExecutionCurrent(r) ==
  /\ pc[r] = "executing"
  /\ \/ /\ AuthorityCurrent(r)
        /\ Goto(r, "executing", "guarded")
        /\ UNCHANGED exc
     \/ /\ ~AuthorityCurrent(r)
        /\ Goto(r, "executing", "finally")
        /\ exc' = [exc EXCEPT ![r] = IF authority[Key(r)] = 0
                                       THEN "no authority" ELSE "stale"]
  /\ UNCHANGED <<clusterVars, ownershipVars, attempt, selected, seenLeader,
                 current, seenOnline, target, gen, authority, terminal, completion>>

(* The executor returns, with or without having made the check, ...        *)
ExecutorReturns(r) ==
  /\ \/ Goto(r, "executing", "finally")
     \/ Goto(r, "guarded", "finally")
  /\ UNCHANGED <<clusterVars, ownershipVars, locals, authority, terminal, completion>>

(* ... or raises.                                                          *)
ExecutorRaises(r) ==
  /\ Goto(r, "executing", "finally")
  /\ exc' = [exc EXCEPT ![r] = "executor"]
  /\ UNCHANGED <<clusterVars, ownershipVars, attempt, selected, seenLeader,
                 current, seenOnline, target, gen, authority, terminal, completion>>

(* Mutant: release after the executor call instead of in a finally block.  *)
ReleaseUnlessRaised(r) ==
  IF exc[r] = NoMsg THEN Release(TaskOf[r], target[r], gen[r])
                    ELSE UNCHANGED ownershipVars

ReleaseInFinally(r) == Release(TaskOf[r], target[r], gen[r])

(* Mutant: a stale release is ignored.                                     *)
StaleReleaseIgnored(r) == exc[r]

(* A stale release raises and hides what the executor did.                 *)
RaisedInFinally(r) == IF Holds(r) THEN exc[r] ELSE "stale"

(* The finally block: first the authority entry of the key goes, whoever   *)
(* put it there, ...                                                       *)
PopAuthority(r) ==
  /\ Goto(r, "finally", "release")
  /\ authority' = [authority EXCEPT ![Key(r)] = 0]
  /\ UNCHANGED <<clusterVars, ownershipVars, locals, terminal, completion>>

(* ... then the ownership is released.                                     *)
ReleaseOwnership(r) ==
  /\ pc[r] = "release"
  /\ ReleaseInFinally(r)
  /\ exc' = [exc EXCEPT ![r] = RaisedInFinally(r)]
  /\ Goto(r, "release", IF RaisedInFinally(r) \in {NoMsg, "stale"}
                          THEN "publish" ELSE "failed")
  /\ target' = [target EXCEPT ![r] = NoNode]
  /\ UNCHANGED <<clusterVars, attempt, selected, seenLeader, current,
                 seenOnline, gen, authority, terminal, completion>>

(* The call returns the result g: its completion becomes completed.        *)
Completes(r, g) ==
  /\ Goto(r, "publish", "done")
  /\ completion' = [completion EXCEPT ![r].status = "completed", ![r].result = g]

(* _publish_terminal_result: the first result stands; a failure that was   *)
(* published before it is raised instead.                                  *)
PublishResult(r) ==
  LET t == TaskOf[r] IN
  /\ pc[r] = "publish"
  /\ exc[r] = NoMsg
  /\ \/ /\ result[t] # 0
        /\ Completes(r, result[t])
        /\ UNCHANGED <<exc, result>>
     \/ /\ result[t] = 0
        /\ failure[t] # NoMsg
        /\ Raise(r, "publish", failure[t])
        /\ UNCHANGED <<result, completion>>
     \/ /\ result[t] = 0
        /\ failure[t] = NoMsg
        /\ result' = [result EXCEPT ![t] = gen[r]]
        /\ Completes(r, gen[r])
        /\ UNCHANGED exc
  /\ UNCHANGED <<clusterVars, ownershipVars, attempt, selected, seenLeader,
                 current, seenOnline, target, gen, authority, failure>>

(* A stale execution takes over the outcome that stands, if there is one.  *)
(* An outcome published between its two lookups is seen as if it had come  *)
(* before or after both.                                                   *)
ConvergeStale(r) ==
  LET t == TaskOf[r] IN
  /\ pc[r] = "publish"
  /\ exc[r] = "stale"
  /\ \/ /\ result[t] # 0
        /\ Completes(r, result[t])
        /\ UNCHANGED exc
     \/ /\ result[t] = 0
        /\ Raise(r, "publish", IF failure[t] # NoMsg THEN failure[t] ELSE "stale")
        /\ UNCHANGED completion
  /\ UNCHANGED <<clusterVars, ownershipVars, attempt, selected, seenLeader,
                 current, seenOnline, target, gen, authority, terminal>>

(* Mutant: the retry loop forgets to count.                                *)
RetryUncounted(r) ==
  /\ Goto(r, "failed", "select")
  /\ selected' = [selected EXCEPT ![r] = FALSE]
  /\ exc' = [exc EXCEPT ![r] = NoMsg]
  /\ UNCHANGED <<clusterVars, ownershipVars, attempt, seenLeader, current,
                 seenOnline, target, gen, authority, terminal, completion>>

(* The loop tries again while attempts are left, whatever was raised.      *)
Retry(r) ==
  /\ attempt[r] < MaxAttempts
  /\ Goto(r, "failed", "select")
  /\ attempt' = [attempt EXCEPT ![r] = @ + 1]
  /\ selected' = [selected EXCEPT ![r] = FALSE]
  /\ exc' = [exc EXCEPT ![r] = NoMsg]
  /\ UNCHANGED <<clusterVars, ownershipVars, seenLeader, current, seenOnline,
                 target, gen, authority, terminal, completion>>

Fails(r, msg) ==
  completion' = [completion EXCEPT ![r].status = "failed", ![r].error = msg]

(* Mutant: the failure of the last caller to fail stands.                  *)
GiveUpOverwriting(r) ==
  /\ attempt[r] = MaxAttempts
  /\ Goto(r, "failed", "done")
  /\ result[TaskOf[r]] = 0
  /\ failure' = [failure EXCEPT ![TaskOf[r]] = exc[r]]
  /\ Fails(r, exc[r])
  /\ UNCHANGED <<clusterVars, ownershipVars, locals, authority, result>>

(* After the last attempt: publish_terminal_failure, unless no backend was *)
(* selected or the exception is a stale ownership.  When a result already  *)
(* stands it raises, and the caller's completion is left running.          *)
GiveUp(r) ==
  LET t == TaskOf[r]
      publishes == selected[r] /\ exc[r] # "stale"
  IN
  /\ attempt[r] = MaxAttempts
  /\ Goto(r, "failed", "done")
  /\ \/ /\ ~publishes
        /\ Fails(r, exc[r])
        /\ UNCHANGED failure
     \/ /\ publishes
        /\ result[t] # 0
        /\ UNCHANGED <<failure, completion>>
     \/ /\ publishes
        /\ result[t] = 0
        /\ failure' = [failure EXCEPT ![t] = IF @ = NoMsg THEN exc[r] ELSE @]
        /\ Fails(r, failure'[t])
  /\ UNCHANGED <<clusterVars, ownershipVars, locals, authority, result>>

-----------------------------------------------------------------------------
Membership ==
  /\ ClusterNext
  /\ UNCHANGED <<ownershipVars, pc, locals, authority, terminal, completion>>

(* Everything a call does once it has been started.                        *)
Advance(r) ==
  \/ Select(r) \/ Begin(r) \/ Snapshot(r) \/ Reclaim(r) \/ ClaimTask(r)
  \/ Authorise(r) \/ AssertExecutionCurrent(r) \/ ExecutorReturns(r)
  \/ ExecutorRaises(r) \/ PopAuthority(r) \/ ReleaseOwnership(r)
  \/ PublishResult(r) \/ ConvergeStale(r) \/ Retry(r) \/ GiveUp(r)

Next == Membership \/ \E r \in Run : Start(r) \/ Advance(r)

Spec == Init /\ [][Next]_vars

-----------------------------------------------------------------------------
(* Properties *)

(* Every attempt claims at most once. *)
MaxGeneration == Cardinality(Run) * MaxAttempts

(* The finally block and the reclaim leave no task owned by nobody: every  *)
(* entry of the registry belongs to exactly one call that is still between *)
(* its claim and its release, however its executor and the membership      *)
(* behaved.                                                                *)
NoAbandonedOwnership ==
  \A t \in Task : owner[t] # NoOwner =>
    \E r \in Run : /\ pc[r] \in Holding
                   /\ TaskOf[r] = t
                   /\ Holds(r)

(* Two executions of one task never carry the same generation, even after  *)
(* the reclaim took it from one of them and gave it to the same node: at   *)
(* most one of them can be current.                                        *)
ExclusiveGeneration ==
  \A r, s \in Run :
    /\ r # s
    /\ TaskOf[r] = TaskOf[s]
    /\ pc[r] \in Holding
    /\ pc[s] \in Holding
    => gen[r] # gen[s]

(* The finally block of an execution that lost its task never clears the   *)
(* ownership of the execution that took over: an entry disappears because  *)
(* its node was missing from the online set that some dispatch had read,   *)
(* or in the finally block of the very execution that made it.             *)
ReleasedByItsOwner ==
  [][\A t \in Task :
       (owner[t] # NoOwner /\ owner'[t] = NoOwner) =>
         \/ \E r \in Run : /\ pc[r] = "reclaim" /\ pc'[r] # "reclaim"
                           /\ owner[t].node \notin seenOnline[r]
         \/ \E r \in Run : /\ TaskOf[r] = t /\ Holds(r)
                           /\ pc[r] = "release" /\ pc'[r] # "release"]_vars

(* Every caller that is told "completed" is told the result that stands,   *)
(* every caller that publishes a failure is told the failure that stands,  *)
(* and the two maps never disagree: no two callers of one task can be told *)
(* contradicting verdicts, in any order of publication and convergence.    *)
ReportsAgree ==
  /\ \A t \in Task : result[t] = 0 \/ failure[t] = NoMsg
  /\ \A r \in Run :
       /\ completion[r].status = "completed" =>
            /\ result[TaskOf[r]] # 0
            /\ completion[r].result = result[TaskOf[r]]
       /\ completion[r].status = "failed" =>
            \/ ~selected[r]
            \/ exc[r] = "stale"
            \/ completion[r].error = failure[TaskOf[r]]

(* Nothing stands for generation g of task t any more: it is not the owner *)
(* of the task, not its result, and no call is about to publish it.        *)
Spent(t, g) ==
  /\ g <= generations[t]
  /\ owner[t] # NoOwner => owner[t].gen # g
  /\ \A s \in Run : (TaskOf[s] = t /\ pc[s] = "publish" /\ exc[s] = NoMsg) => gen[s] # g
  /\ result[t] # g

(* An execution that lost its task while it was running is fenced for      *)
(* good: its generation is spent from then on, so its output never becomes *)
(* the result of the task, whether it ends before or after the execution   *)
(* that replaced it, and whatever is retried.  (The contract of the tests  *)
(* on stale executions.)                                                   *)
FencedNeverDecides ==
  /\ [](\A r \in Run : (pc[r] \in Holding /\ ~Holds(r)) => Spent(TaskOf[r], gen[r]))
  /\ [][\A t \in Task : \A g \in 1 .. MaxGeneration : Spent(t, g) => Spent(t, g)']_vars

(* How far a call has come in its attempt.                                 *)
Stage == [idle |-> 0, select |-> 1, begin |-> 2, dispatch |-> 3, reclaim |-> 4,
          claim |-> 5, authorise |-> 6, executing |-> 7, guarded |-> 8,
          finally |-> 9, release |-> 10, publish |-> 11, failed |-> 12, done |-> 13]

(* No step of a call leads back, unless it counts as a new attempt.        *)
GoesForward ==
  [][\A r \in Run : pc'[r] # pc[r] =>
       \/ attempt'[r] > attempt[r]
       \/ attempt'[r] = attempt[r] /\ Stage[pc'[r]] > Stage[pc[r]]]_vars

(* No lock, ownership or verdict makes a call wait: one that has been      *)
(* started can move on in every state until it is done.                    *)
NeverStuck ==
  \A r \in Run : pc[r] \in {"idle", "done"} \/ ENABLED (Advance(r) /\ pc'[r] # pc[r])

(* Every started call ends when its thread is scheduled, with any number   *)
(* of retries while the task is owned, orphaned or decided                 *)
(* (runtime.py:201-249).                                                   *)
EveryCallEnds == GoesForward /\ []NeverStuck

(* The docstring of assert_execution_current: "Require the active execution *)
(* generation to remain authoritative."  A check passes only for a call    *)
(* whose own generation is the current one.                                *)
GenerationFence ==
  [][\A r \in Run : (pc[r] = "executing" /\ pc'[r] = "guarded") => Holds(r)]_vars

-----------------------------------------------------------------------------
(* The promise kept, as a refinement of TaskOutcome.                       *)

ResultVerdict(g) == [kind |-> "result", result |-> g, error |-> NoMsg]
FailureVerdict(m) == [kind |-> "failure", result |-> 0, error |-> m]
NoVerdict == [kind |-> "none", result |-> 0, error |-> NoMsg]
NoReport == [kind |-> "turned away", result |-> 0, error |-> NoMsg]

Verdicts == [kind : {"result"}, result : Nat \ {0}, error : {NoMsg}]
            \cup [kind : {"failure"}, result : {0}, error : Msg]

taskVerdict ==
  [t \in Task |-> IF result[t] # 0 THEN ResultVerdict(result[t])
                  ELSE IF failure[t] # NoMsg THEN FailureVerdict(failure[t])
                  ELSE NoVerdict]

callReport ==
  [r \in Run |->
     CASE completion[r].status = "completed" -> ResultVerdict(completion[r].result)
       [] completion[r].status = "failed" ->
            IF selected[r] /\ exc[r] # "stale"
              THEN FailureVerdict(completion[r].error) ELSE NoReport
       [] OTHER -> NoVerdict]

Outcome == INSTANCE TaskOutcome
             WITH verdict <- taskVerdict, report <- callReport,
                  Verdict <- Verdicts, Undecided <- NoVerdict,
                  TurnedAway <- NoReport

(* Dispatch implements TaskOutcome: one verdict per task, decided by the   *)
(* first publication, and every report is that verdict or a refusal.       *)
ImplementsTaskOutcome == Outcome!AbstractSpec

=============================================================================
