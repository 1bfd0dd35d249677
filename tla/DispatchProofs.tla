---------------------------- MODULE DispatchProofs ----------------------------
(***************************************************************************)
(* Proofs about Dispatch, for every number of nodes, tasks, calls and      *)
(* attempts: type correctness, exclusive generation-fenced ownership that  *)
(* is never abandoned, agreement of all reports, the refinement of         *)
(* TaskOutcome, and that an execution fenced once never decides.           *)
(***************************************************************************)
EXTENDS Dispatch, TLAPS

(* Where a call stands says what it has in its hands.                      *)
LocalsInv ==
  \A r \in Run :
    /\ pc[r] \in Holding \cup {"claim"} => target[r] \in Node
    /\ pc[r] \in Holding \cup {"publish"} => gen[r] # 0
    /\ pc[r] \in Holding => gen[r] <= generations[TaskOf[r]]
    /\ pc[r] = "publish" => exc[r] \in {NoMsg, "stale"}
    /\ pc[r] = "failed" => exc[r] # NoMsg
    /\ pc[r] # "done" => completion[r].status \in {"absent", "running"}

LEMMA TypeInit == Init => TypeOK
  BY RunAssumption, NodesReturnAssumption
  DEF Init, TypeOK, ClusterInit, ClusterTypeOK, OwnershipInit, OwnershipTypeOK,
      Status, PC, Completion

(* The membership table stays well typed whatever is done to it.           *)
LEMMA MembershipType ==
  ASSUME TypeOK, Membership
  PROVE  TypeOK'
  BY DEF TypeOK, Membership, ClusterNext, ClusterTypeOK, AddNode, RemoveNode,
         Touch, ElectLeader, CheckTimeouts, OnlineNodes, Members, Status,
         OwnershipTypeOK, ownershipVars, locals, terminal

(* Moving and raising keep the program counters and exceptions well typed. *)
LEMMA GotoType ==
  ASSUME NEW r \in Run, NEW here, NEW there \in PC,
         pc \in [Run -> PC], Goto(r, here, there)
  PROVE  pc' \in [Run -> PC]
  BY DEF Goto

LEMMA RaiseType ==
  ASSUME NEW r \in Run, NEW here, NEW msg \in Msg \cup {NoMsg},
         pc \in [Run -> PC], exc \in [Run -> Msg \cup {NoMsg}], Raise(r, here, msg)
  PROVE  pc' \in [Run -> PC] /\ exc' \in [Run -> Msg \cup {NoMsg}]
  BY DEF Raise, Goto, PC

(* Ending a call keeps the completions well typed.                         *)
LEMMA CompletesType ==
  ASSUME NEW r \in Run, NEW g \in Nat,
         completion \in [Run -> Completion], Completes(r, g)
  PROVE  completion' \in [Run -> Completion]
<1>1. completion[r] \in Completion
  OBVIOUS
<1>2. [completion[r] EXCEPT !.status = "completed", !.result = g] \in Completion
  BY <1>1 DEF Completion
<1> QED BY <1>2 DEF Completes

LEMMA FailsType ==
  ASSUME NEW r \in Run, NEW msg \in Msg \cup {NoMsg},
         completion \in [Run -> Completion], Fails(r, msg)
  PROVE  completion' \in [Run -> Completion]
<1>1. completion[r] \in Completion
  OBVIOUS
<1>2. [completion[r] EXCEPT !.status = "failed", !.error = msg] \in Completion
  BY <1>1 DEF Completion
<1> QED BY <1>2 DEF Fails

LEMMA AdvanceType ==
  ASSUME TypeOK, LocalsInv, NEW r \in Run, Start(r) \/ Advance(r)
  PROVE  TypeOK'
<1> USE RunAssumption DEF TypeOK, ClusterTypeOK, OwnershipTypeOK, clusterVars,
        ownershipVars, locals, terminal
<1>a. /\ {"select", "begin", "dispatch", "reclaim", "claim", "authorise", "executing",
           "guarded", "finally", "release", "publish", "failed", "done"} \subseteq PC
      /\ {"unavailable", "no leader", "stale leader", "leader offline",
          "no eligible node", "already owned", "no authority", "executor",
          "stale"} \subseteq Msg
  BY DEF PC, Msg
<1>1. CASE Start(r)
  BY <1>1, <1>a, GotoType DEF Start, Completion
<1>2. CASE Select(r)
  <2>1. pc' \in [Run -> PC] /\ exc' \in [Run -> Msg \cup {NoMsg}]
    BY <1>2, <1>a, GotoType, RaiseType DEF Select
  <2> QED BY <1>2, <2>1 DEF Select
<1>3. CASE Begin(r)
  <2>1. pc' \in [Run -> PC] /\ exc' \in [Run -> Msg \cup {NoMsg}]
    BY <1>3, <1>a, GotoType, RaiseType DEF Begin
  <2> QED BY <1>3, <2>1 DEF Begin
<1>4. CASE Snapshot(r)
  <2>1. pc' \in [Run -> PC] /\ exc' \in [Run -> Msg \cup {NoMsg}]
    BY <1>4, <1>a, GotoType, RaiseType DEF Snapshot
  <2>2. OnlineNodes \in SUBSET Node
    BY DEF OnlineNodes
  <2>3. /\ current' \in [Run -> Node \cup {NoNode}]
        /\ seenLeader' \in [Run -> Node \cup {NoNode}]
    BY <1>4 DEF Snapshot
  <2>4. seenOnline' \in [Run -> SUBSET Node]
    BY <1>4, <2>2 DEF Snapshot
  <2> QED BY <1>4, <2>1, <2>3, <2>4 DEF Snapshot
<1>5. CASE Reclaim(r)
  <2>1. owner' \in [Task -> Ownership \cup {NoOwner}] /\ generations' = generations
    BY <1>5 DEF Reclaim, ReclaimOrphaned
  <2>2. pc' \in [Run -> PC] /\ exc' \in [Run -> Msg \cup {NoMsg}]
    BY <1>5, <1>a, GotoType, RaiseType DEF Reclaim, ResolveTarget
  <2>3. target' \in [Run -> Node \cup {NoNode}]
    BY <1>5 DEF Reclaim, ResolveTarget, Candidates, OnlineNodes
  <2> QED BY <1>5, <2>1, <2>2, <2>3 DEF Reclaim
<1>6. CASE ClaimTask(r)
  <2>1. pc' \in [Run -> PC] /\ exc' \in [Run -> Msg \cup {NoMsg}]
    BY <1>6, <1>a, GotoType, RaiseType DEF ClaimTask
  <2>2. CASE Goto(r, "claim", "authorise") /\ Claim(TaskOf[r], target[r])
    <3>1. target[r] \in Node
      BY <2>2 DEF LocalsInv, Goto
    <3>2. [node |-> target[r], gen |-> NextGeneration(TaskOf[r])] \in Ownership
      BY <3>1 DEF Ownership, NextGeneration
    <3>3. /\ owner' \in [Task -> Ownership \cup {NoOwner}]
          /\ generations' \in [Task -> Nat]
      BY <2>2, <3>2 DEF Claim, NextGeneration
    <3>4. pc[r] = "claim" /\ pc'[r] = "authorise"
      BY <2>2 DEF Goto
    <3>5. gen' = [gen EXCEPT ![r] = NextGeneration(TaskOf[r])] /\ UNCHANGED <<exc, target>>
      BY <1>6, <3>4 DEF ClaimTask, Raise, Goto
    <3>6. gen' \in [Run -> Nat]
      BY <3>5 DEF NextGeneration
    <3> QED BY <1>6, <2>1, <2>2, <3>3, <3>5, <3>6 DEF ClaimTask
  <2>3. CASE Raise(r, "claim", "already owned") /\ UNCHANGED <<ownershipVars, gen>>
    BY <1>6, <2>1, <2>3 DEF ClaimTask
  <2> QED BY <1>6, <2>2, <2>3 DEF ClaimTask
<1>7. CASE Authorise(r)
  BY <1>7, <1>a, GotoType DEF Authorise, Key
<1>8. CASE AssertExecutionCurrent(r)
  <2>1. pc' \in [Run -> PC]
    BY <1>8, <1>a, GotoType DEF AssertExecutionCurrent
  <2>2. exc' \in [Run -> Msg \cup {NoMsg}]
    BY <1>8, <1>a DEF AssertExecutionCurrent
  <2> QED BY <1>8, <2>1, <2>2 DEF AssertExecutionCurrent
<1>9. CASE ExecutorReturns(r)
  BY <1>9, <1>a, GotoType DEF ExecutorReturns
<1>10. CASE ExecutorRaises(r)
  BY <1>10, <1>a, GotoType DEF ExecutorRaises
<1>11. CASE PopAuthority(r)
  BY <1>11, <1>a, GotoType DEF PopAuthority
<1>12. CASE ReleaseOwnership(r)
  <2>1. exc' \in [Run -> Msg \cup {NoMsg}]
    BY <1>12, <1>a DEF ReleaseOwnership, RaisedInFinally
  <2>2. pc' \in [Run -> PC]
    BY <1>12, <1>a, GotoType DEF ReleaseOwnership
  <2>3. owner' \in [Task -> Ownership \cup {NoOwner}] /\ generations' = generations
    BY <1>12 DEF ReleaseOwnership, ReleaseInFinally, Release
  <2> QED BY <1>12, <2>1, <2>2, <2>3 DEF ReleaseOwnership
<1>13. CASE PublishResult(r)
  <2>1. pc' \in [Run -> PC] /\ exc' \in [Run -> Msg \cup {NoMsg}]
    BY <1>13, <1>a, GotoType, RaiseType DEF PublishResult, Completes
  <2>2. completion' \in [Run -> Completion]
    BY <1>13, CompletesType DEF PublishResult
  <2>3. result' \in [Task -> Nat]
    BY <1>13 DEF PublishResult
  <2> QED BY <1>13, <2>1, <2>2, <2>3 DEF PublishResult
<1>14. CASE ConvergeStale(r)
  <2>1. pc' \in [Run -> PC] /\ exc' \in [Run -> Msg \cup {NoMsg}]
    <3>1. CASE Completes(r, result[TaskOf[r]]) /\ UNCHANGED exc
      BY <3>1, <1>a, GotoType DEF Completes
    <3>2. CASE Raise(r, "publish", IF failure[TaskOf[r]] # NoMsg
                                     THEN failure[TaskOf[r]] ELSE "stale")
      BY <3>2, <1>a, RaiseType
    <3> QED BY <1>14, <3>1, <3>2 DEF ConvergeStale
  <2>2. completion' \in [Run -> Completion]
    BY <1>14, CompletesType DEF ConvergeStale
  <2> QED BY <1>14, <2>1, <2>2 DEF ConvergeStale
<1>15. CASE Retry(r)
  <2>1. pc' \in [Run -> PC]
    BY <1>15, <1>a, GotoType DEF Retry
  <2>2. attempt' \in [Run -> 1 .. MaxAttempts]
    BY <1>15 DEF Retry
  <2> QED BY <1>15, <2>1, <2>2 DEF Retry
<1>16. CASE GiveUp(r)
  <2>1. pc' \in [Run -> PC]
    BY <1>16, <1>a, GotoType DEF GiveUp
  <2>2. failure' \in [Task -> Msg \cup {NoMsg}]
    BY <1>16 DEF GiveUp
  <2>3. completion' \in [Run -> Completion]
    BY <1>16, <2>2, FailsType DEF GiveUp
  <2> QED BY <1>16, <2>1, <2>2, <2>3 DEF GiveUp
<1> QED
  BY <1>1, <1>2, <1>3, <1>4, <1>5, <1>6, <1>7, <1>8, <1>9, <1>10, <1>11, <1>12,
     <1>13, <1>14, <1>15, <1>16 DEF Advance

(* A call touches its own locals and completion only.                      *)
LEMMA OthersUnmoved ==
  ASSUME TypeOK, NEW r \in Run, Start(r) \/ Advance(r),
         NEW s \in Run, s # r
  PROVE  /\ pc'[s] = pc[s] /\ target'[s] = target[s] /\ gen'[s] = gen[s]
         /\ exc'[s] = exc[s] /\ selected'[s] = selected[s]
         /\ completion'[s] = completion[s]
<1> USE DEF TypeOK, locals, Goto, Raise
<1>1. CASE Start(r) \/ Select(r) \/ Begin(r) \/ Snapshot(r) \/ Authorise(r)
  BY <1>1 DEF Start, Select, Begin, Snapshot, Authorise
<1>2. CASE Reclaim(r)
  BY <1>2 DEF Reclaim, ResolveTarget
<1>3. CASE ClaimTask(r)
  BY <1>3 DEF ClaimTask
<1>4. CASE AssertExecutionCurrent(r) \/ ExecutorReturns(r) \/ ExecutorRaises(r)
  BY <1>4 DEF AssertExecutionCurrent, ExecutorReturns, ExecutorRaises
<1>5. CASE PopAuthority(r) \/ ReleaseOwnership(r)
  BY <1>5 DEF PopAuthority, ReleaseOwnership
<1>6. CASE PublishResult(r) \/ ConvergeStale(r)
  BY <1>6 DEF PublishResult, ConvergeStale, Completes
<1>7. CASE Retry(r) \/ GiveUp(r)
  BY <1>7 DEF Retry, GiveUp, Fails
<1> QED
  BY <1>1, <1>2, <1>3, <1>4, <1>5, <1>6, <1>7 DEF Advance

(* Only a claim moves the generation counter, and it moves it up by one.   *)
LEMMA GenerationsGrow ==
  ASSUME TypeOK, NEW r \in Run, Start(r) \/ Advance(r)
  PROVE  \/ UNCHANGED generations
         \/ /\ ClaimTask(r)
            /\ Goto(r, "claim", "authorise")
            /\ Claim(TaskOf[r], target[r])
            /\ gen' = [gen EXCEPT ![r] = NextGeneration(TaskOf[r])]
            /\ UNCHANGED target
  BY DEF Advance, Start, Select, Begin, Snapshot, Reclaim, ReclaimOrphaned,
         ClaimTask, Authorise, AssertExecutionCurrent, ExecutorReturns,
         ExecutorRaises, PopAuthority, ReleaseOwnership, ReleaseInFinally, Release,
         PublishResult, ConvergeStale, Retry, GiveUp, ownershipVars

LEMMA FreshGeneration ==
  \A g \in Nat : \A h, k : h = g + 1 /\ k = g + 1 => h # 0 /\ h <= k
  OBVIOUS

LEMMA LocalsInit == Init => LocalsInv
  BY DEF Init, LocalsInv, Holding

LEMMA AdvanceLocals ==
  ASSUME TypeOK, LocalsInv, NEW r \in Run, Start(r) \/ Advance(r)
  PROVE  LocalsInv'
<1> DEFINE L(s) ==
      /\ pc[s] \in Holding \cup {"claim"} => target[s] \in Node
      /\ pc[s] \in Holding \cup {"publish"} => gen[s] # 0
      /\ pc[s] \in Holding => gen[s] <= generations[TaskOf[s]]
      /\ pc[s] = "publish" => exc[s] \in {NoMsg, "stale"}
      /\ pc[s] = "failed" => exc[s] # NoMsg
      /\ pc[s] # "done" => completion[s].status \in {"absent", "running"}
<1>1. L(r)
  BY DEF LocalsInv
<1>2. \A t \in Task : generations[t] <= generations'[t]
  <2> SUFFICES ASSUME NEW t \in Task PROVE generations[t] <= generations'[t]
    OBVIOUS
  <2>1. generations \in [Task -> Nat]
    BY DEF TypeOK, OwnershipTypeOK
  <2>2. CASE UNCHANGED generations
    BY <2>1, <2>2
  <2>3. CASE Claim(TaskOf[r], target[r])
    BY <2>1, <2>3, RunAssumption DEF Claim, NextGeneration
  <2> QED BY <2>2, <2>3, GenerationsGrow
<1>3. ASSUME NEW s \in Run, s # r PROVE L(s)'
  <2>1. generations[TaskOf[s]] <= generations'[TaskOf[s]]
        /\ generations[TaskOf[s]] \in Nat /\ generations'[TaskOf[s]] \in Nat
        /\ gen[s] \in Nat
    BY <1>2, AdvanceType, RunAssumption DEF TypeOK, OwnershipTypeOK
  <2>2. L(s)
    BY DEF LocalsInv
  <2> QED BY <1>3, <2>1, <2>2, OthersUnmoved
<1>4. L(r)'
  <2> USE <1>1, NoMsgAssumption DEF TypeOK, locals, Goto, Raise, Holding, Msg
  <2>1. CASE Start(r)
    <3>1. completion'[r].status = "running" /\ pc'[r] = "select"
      BY <2>1 DEF Start, Completion
    <3> QED BY <3>1
  <2>10. CASE Select(r) \/ Begin(r) \/ Snapshot(r)
    BY <2>10 DEF Select, Begin, Snapshot
  <2>2. CASE Reclaim(r)
    <3>1. CASE pc'[r] = "failed"
      BY <2>2, <3>1 DEF Reclaim, ResolveTarget
    <3>2. CASE pc'[r] = "claim"
      <4>1. PICK n \in Candidates(r) : target' = [target EXCEPT ![r] = n]
        BY <2>2, <3>2 DEF Reclaim, ResolveTarget
      <4>2. seenLeader[r] \in OnlineNodes
        BY <2>2, <3>2 DEF Reclaim, ResolveTarget
      <4>3. n \in Node
        BY <4>2 DEF Candidates, OnlineNodes
      <4>4. target'[r] \in Node
        BY <4>1, <4>3
      <4>5. pc[r] = "reclaim" /\ UNCHANGED completion
        BY <2>2 DEF Reclaim, ResolveTarget
      <4> QED BY <3>2, <4>4, <4>5
    <3> QED BY <2>2, <3>1, <3>2 DEF Reclaim, ResolveTarget
  <2>3. CASE ClaimTask(r)
    <3>1. CASE pc'[r] = "failed"
      BY <2>3, <3>1 DEF ClaimTask
    <3>2. CASE pc'[r] = "authorise"
      <4>1. /\ gen'[r] = generations[TaskOf[r]] + 1
            /\ generations'[TaskOf[r]] = generations[TaskOf[r]] + 1
            /\ generations[TaskOf[r]] \in Nat
        BY <2>3, <3>2, RunAssumption
        DEF ClaimTask, Claim, NextGeneration, OwnershipTypeOK
      <4>2. UNCHANGED <<target, exc, completion>> /\ pc[r] = "claim"
        BY <2>3, <3>2 DEF ClaimTask
      <4>3. gen'[r] # 0 /\ gen'[r] <= generations'[TaskOf[r]]
        BY <4>1, FreshGeneration
      <4> QED BY <3>2, <4>2, <4>3
    <3> QED BY <2>3, <3>1, <3>2 DEF ClaimTask
  <2>4. CASE Authorise(r) \/ AssertExecutionCurrent(r) \/ ExecutorReturns(r)
             \/ ExecutorRaises(r) \/ PopAuthority(r)
    BY <2>4 DEF Authorise, AssertExecutionCurrent, ExecutorReturns, ExecutorRaises,
                PopAuthority, ownershipVars
  <2>5. CASE ReleaseOwnership(r)
    BY <2>5 DEF ReleaseOwnership, RaisedInFinally
  <2>6. CASE PublishResult(r)
    BY <2>6 DEF PublishResult, Completes
  <2>7. CASE ConvergeStale(r)
    BY <2>7 DEF ConvergeStale, Completes
  <2>8. CASE Retry(r)
    BY <2>8 DEF Retry
  <2>9. CASE GiveUp(r)
    BY <2>9 DEF GiveUp
  <2> QED
    BY <2>1, <2>2, <2>3, <2>4, <2>5, <2>6, <2>7, <2>8, <2>9, <2>10 DEF Advance
<1> QED BY <1>3, <1>4 DEF LocalsInv

LEMMA MembershipLocals ==
  ASSUME LocalsInv, Membership
  PROVE  LocalsInv'
  BY DEF LocalsInv, Membership, ownershipVars, locals

(* The values of all variables stay in their types, and a call that is     *)
(* about to claim has a target.                                            *)
THEOREM TypeCorrect == Spec => [](TypeOK /\ LocalsInv)
<1>1. Init => TypeOK /\ LocalsInv
  BY TypeInit, LocalsInit
<1>2. TypeOK /\ LocalsInv /\ [Next]_vars => (TypeOK /\ LocalsInv)'
  <2> SUFFICES ASSUME TypeOK, LocalsInv, [Next]_vars
               PROVE  (TypeOK /\ LocalsInv)'
    OBVIOUS
  <2>1. CASE Membership
    BY <2>1, MembershipType, MembershipLocals
  <2>2. ASSUME NEW r \in Run, Start(r) \/ Advance(r) PROVE (TypeOK /\ LocalsInv)'
    BY <2>2, AdvanceType, AdvanceLocals
  <2>3. CASE UNCHANGED vars
    BY <2>3 DEF vars, clusterVars, ownershipVars, locals, terminal, TypeOK,
                ClusterTypeOK, OwnershipTypeOK, LocalsInv
  <2> QED BY <2>1, <2>2, <2>3 DEF Next
<1> QED BY <1>1, <1>2, PTL DEF Spec

-----------------------------------------------------------------------------
(* Ownership.                                                              *)

Claims(r) ==
  /\ Goto(r, "claim", "authorise")
  /\ Claim(TaskOf[r], target[r])
  /\ gen' = [gen EXCEPT ![r] = NextGeneration(TaskOf[r])]
  /\ UNCHANGED target

(* A call enters the stretch between claim and release only by a claim,    *)
(* and leaves it only by a release.                                        *)
LEMMA HoldingKept ==
  ASSUME TypeOK, NEW r \in Run, Start(r) \/ Advance(r), ~Claims(r)
  PROVE  /\ pc'[r] \in Holding =>
              /\ pc[r] \in Holding
              /\ gen'[r] = gen[r] /\ target'[r] = target[r]
         /\ pc[r] \in Holding /\ pc'[r] \notin Holding =>
              ReleaseOwnership(r)
         /\ \A t \in Task : owner'[t] # NoOwner => owner'[t] = owner[t]
<1> USE DEF TypeOK, OwnershipTypeOK, locals, ownershipVars, Goto, Raise, Holding
<1>1. CASE Start(r) \/ Select(r) \/ Begin(r) \/ Snapshot(r) \/ Authorise(r)
  BY <1>1 DEF Start, Select, Begin, Snapshot, Authorise
<1>2. CASE Reclaim(r)
  <2>1. pc[r] = "reclaim" /\ pc'[r] \in {"failed", "claim"}
    BY <1>2 DEF Reclaim, ResolveTarget
  <2>2. \A t \in Task : owner'[t] # NoOwner => owner'[t] = owner[t]
    BY <1>2 DEF Reclaim, ReclaimOrphaned
  <2> QED BY <2>1, <2>2
<1>3. CASE ClaimTask(r)
  BY <1>3 DEF ClaimTask, Claims
<1>4. CASE AssertExecutionCurrent(r) \/ ExecutorReturns(r) \/ ExecutorRaises(r)
           \/ PopAuthority(r)
  BY <1>4 DEF AssertExecutionCurrent, ExecutorReturns, ExecutorRaises, PopAuthority
<1>5. CASE ReleaseOwnership(r)
  <2>1. pc[r] = "release" /\ pc'[r] \in {"publish", "failed"}
    BY <1>5 DEF ReleaseOwnership
  <2>2. \A t \in Task : owner'[t] # NoOwner => owner'[t] = owner[t]
    BY <1>5 DEF ReleaseOwnership, ReleaseInFinally, Release
  <2> QED BY <1>5, <2>1, <2>2
<1>6. CASE PublishResult(r) \/ ConvergeStale(r)
  BY <1>6 DEF PublishResult, ConvergeStale, Completes
<1>7. CASE Retry(r) \/ GiveUp(r)
  BY <1>7 DEF Retry, GiveUp
<1> QED
  BY <1>1, <1>2, <1>3, <1>4, <1>5, <1>6, <1>7 DEF Advance

LEMMA AdvanceExclusive ==
  ASSUME TypeOK, LocalsInv, ExclusiveGeneration, NEW r \in Run, Start(r) \/ Advance(r)
  PROVE  ExclusiveGeneration'
<1> SUFFICES ASSUME NEW s \in Run, s # r, TaskOf[s] = TaskOf[r],
                    pc'[s] \in Holding, pc'[r] \in Holding
             PROVE  gen'[s] # gen'[r]
  BY OthersUnmoved DEF ExclusiveGeneration
<1>1. pc[s] \in Holding /\ gen'[s] = gen[s]
  BY OthersUnmoved
<1>2. CASE Claims(r)
  <2>1. gen'[r] = generations[TaskOf[r]] + 1 /\ generations[TaskOf[r]] \in Nat
    BY <1>2, RunAssumption DEF Claims, NextGeneration, TypeOK, OwnershipTypeOK
  <2>2. gen[s] <= generations[TaskOf[r]] /\ gen[s] \in Nat
    BY <1>1 DEF LocalsInv, TypeOK
  <2> QED BY <1>1, <2>1, <2>2
<1>3. CASE ~Claims(r)
  BY <1>1, <1>3, HoldingKept DEF ExclusiveGeneration
<1> QED BY <1>2, <1>3

LEMMA AdvanceNoAbandoned ==
  ASSUME TypeOK, LocalsInv, NoAbandonedOwnership,
         NEW r \in Run, Start(r) \/ Advance(r)
  PROVE  NoAbandonedOwnership'
<1> SUFFICES ASSUME NEW t \in Task, owner'[t] # NoOwner
             PROVE  \E s \in Run : /\ pc'[s] \in Holding
                                   /\ TaskOf[s] = t
                                   /\ Holds(s)'
  BY DEF NoAbandonedOwnership
<1>1. CASE Claims(r) /\ TaskOf[r] = t
  <2>1. owner'[t] = [node |-> target'[r], gen |-> gen'[r]]
    BY <1>1 DEF Claims, Claim, TypeOK, OwnershipTypeOK
  <2>2. pc'[r] \in Holding
    BY <1>1 DEF Claims, Goto, TypeOK, Holding
  <2> QED BY <1>1, <2>1, <2>2 DEF Holds, Current
<1>2. CASE ~(Claims(r) /\ TaskOf[r] = t)
  <2>1. owner'[t] = owner[t] /\ owner[t] # NoOwner
    <3>1. CASE Claims(r)
      BY <1>2, <3>1, RunAssumption DEF Claims, Claim, TypeOK, OwnershipTypeOK
    <3>2. CASE ~Claims(r)
      BY <3>2, HoldingKept
    <3> QED BY <3>1, <3>2
  <2>2. PICK s \in Run : pc[s] \in Holding /\ TaskOf[s] = t /\ Holds(s)
    BY <2>1 DEF NoAbandonedOwnership
  <2>3. CASE s # r
    <3>1. pc'[s] = pc[s] /\ target'[s] = target[s] /\ gen'[s] = gen[s]
      BY <2>3, OthersUnmoved
    <3> QED BY <2>1, <2>2, <3>1 DEF Holds, Current
  <2>4. CASE s = r
    <3>1. ~Claims(r)
      BY <2>2, <2>4 DEF Claims, Goto, Holding
    <3>2. ~ReleaseOwnership(r)
      <4>1. SUFFICES ASSUME ReleaseOwnership(r) PROVE FALSE
        OBVIOUS
      <4>2. owner'[t] = NoOwner
        BY <2>2, <2>4, <4>1
        DEF ReleaseOwnership, ReleaseInFinally, Release, Holds, TypeOK, OwnershipTypeOK
      <4> QED BY <4>2
    <3>3. pc'[r] \in Holding /\ gen'[r] = gen[r] /\ target'[r] = target[r]
      BY <2>2, <2>4, <3>1, <3>2, HoldingKept
    <3> QED BY <2>1, <2>2, <2>4, <3>3 DEF Holds, Current
  <2> QED BY <2>3, <2>4
<1> QED BY <1>1, <1>2

(* In every behaviour, at most one of the executions of a task carries the *)
(* current generation, and whatever the registry says is owned is owned by *)
(* an execution that has not reached its release yet.                      *)
THEOREM OwnershipSafe == Spec => [](ExclusiveGeneration /\ NoAbandonedOwnership)
<1> DEFINE Own == ExclusiveGeneration /\ NoAbandonedOwnership
<1>1. Init => Own
  BY DEF Init, OwnershipInit, ExclusiveGeneration, NoAbandonedOwnership, Holding
<1>2. TypeOK /\ LocalsInv /\ Own /\ [Next]_vars => Own'
  <2> SUFFICES ASSUME TypeOK, LocalsInv, Own, [Next]_vars
               PROVE  Own'
    OBVIOUS
  <2>1. CASE Membership
    BY <2>1 DEF Membership, ownershipVars, locals, ExclusiveGeneration,
                NoAbandonedOwnership, Holds, Current
  <2>2. ASSUME NEW r \in Run, Start(r) \/ Advance(r) PROVE Own'
    BY <2>2, AdvanceExclusive, AdvanceNoAbandoned
  <2>3. CASE UNCHANGED vars
    BY <2>3 DEF vars, ownershipVars, locals, ExclusiveGeneration,
                NoAbandonedOwnership, Holds, Current
  <2> QED BY <2>1, <2>2, <2>3 DEF Next
<1>3. Own => ExclusiveGeneration /\ NoAbandonedOwnership
  OBVIOUS
<1> QED BY <1>1, <1>2, <1>3, TypeCorrect, PTL DEF Spec

(* No task stays owned by an execution that is over (dispatcher.py:306): the*)
(* second half of it, for the run that checks it alone.                    *)
THEOREM NeverAbandoned == Spec => []NoAbandonedOwnership
BY OwnershipSafe, PTL

(* An entry of the registry disappears only at the hands of the call that  *)
(* made it, or of a reclaim that did not see its node online: the release  *)
(* of an execution that was fenced never hits its successor.               *)
THEOREM FencedRelease == Spec => ReleasedByItsOwner
<1> DEFINE Step(t) ==
      (owner[t] # NoOwner /\ owner'[t] = NoOwner) =>
        \/ \E r \in Run : /\ pc[r] = "reclaim" /\ pc'[r] # "reclaim"
                          /\ owner[t].node \notin seenOnline[r]
        \/ \E r \in Run : /\ TaskOf[r] = t /\ Holds(r)
                          /\ pc[r] = "release" /\ pc'[r] # "release"
<1>1. ASSUME TypeOK, NEW t \in Task, NEW r \in Run, Reclaim(r) PROVE Step(t)
  <2>1. pc[r] = "reclaim" /\ pc'[r] # "reclaim"
    BY <1>1 DEF Reclaim, ResolveTarget, Goto, Raise, TypeOK
  <2>2. owner'[t] = NoOwner /\ owner[t] # NoOwner => owner[t].node \notin seenOnline[r]
    BY <1>1 DEF Reclaim, ReclaimOrphaned
  <2> QED BY <2>1, <2>2
<1>2. ASSUME TypeOK, NEW t \in Task, NEW r \in Run, ReleaseOwnership(r) PROVE Step(t)
  <2>1. pc[r] = "release" /\ pc'[r] # "release"
    BY <1>2 DEF ReleaseOwnership, Goto, TypeOK
  <2>2. owner'[t] = NoOwner /\ owner[t] # NoOwner => TaskOf[r] = t /\ Holds(r)
    BY <1>2, RunAssumption
    DEF ReleaseOwnership, ReleaseInFinally, Release, Holds, TypeOK, OwnershipTypeOK
  <2> QED BY <2>1, <2>2
<1>3. ASSUME TypeOK, NEW t \in Task, NEW r \in Run, Claims(r) PROVE Step(t)
  <2>1. owner'[t] # owner[t] => owner'[t] = [node |-> target[r], gen |-> NextGeneration(t)]
    BY <1>3, RunAssumption DEF Claims, Claim, TypeOK, OwnershipTypeOK
  <2>2. owner'[t] # owner[t] => t = TaskOf[r]
    BY <1>3 DEF Claims, Claim, TypeOK, OwnershipTypeOK
  <2>3. t = TaskOf[r] => owner[t] = NoOwner
    BY <1>3 DEF Claims, Claim
  <2> QED BY <2>2, <2>3
<1>4. ASSUME TypeOK, NEW t \in Task, NEW r \in Run, Start(r) \/ Advance(r),
             ~Reclaim(r), ~ReleaseOwnership(r), ~Claims(r)
      PROVE  UNCHANGED owner
  BY <1>4 DEF Advance, Start, Select, Begin, Snapshot, ClaimTask, Claims, Raise,
     Authorise, AssertExecutionCurrent, ExecutorReturns, ExecutorRaises, PopAuthority,
     PublishResult, ConvergeStale, Retry, GiveUp, ownershipVars
<1>5. TypeOK /\ [Next]_vars => \A t \in Task : Step(t)
  <2> SUFFICES ASSUME TypeOK, [Next]_vars, NEW t \in Task PROVE Step(t)
    OBVIOUS
  <2>1. CASE Membership \/ UNCHANGED vars
    BY <2>1 DEF Membership, vars, ownershipVars
  <2>2. ASSUME NEW r \in Run, Start(r) \/ Advance(r) PROVE Step(t)
    BY <2>2, <1>1, <1>2, <1>3, <1>4
  <2> QED BY <2>1, <2>2 DEF Next
<1>6. TypeOK /\ [Next]_vars =>
        [\A t \in Task : (owner[t] # NoOwner /\ owner'[t] = NoOwner) =>
         \/ \E r \in Run : /\ pc[r] = "reclaim" /\ pc'[r] # "reclaim"
                           /\ owner[t].node \notin seenOnline[r]
         \/ \E r \in Run : /\ TaskOf[r] = t /\ Holds(r)
                           /\ pc[r] = "release" /\ pc'[r] # "release"]_vars
  BY <1>5
<1> QED BY <1>6, TypeCorrect, PTL DEF Spec, ReleasedByItsOwner

-----------------------------------------------------------------------------
(* Verdicts.                                                               *)

(* A step of a call either leaves the verdicts and its own completion's    *)
(* status alone, or ends the call in one of five ways.                     *)
EndsCompleted(r) ==
  /\ pc[r] = "publish" /\ result[TaskOf[r]] # 0
  /\ UNCHANGED terminal
  /\ Completes(r, result[TaskOf[r]])

EndsDeciding(r) ==
  /\ pc[r] = "publish" /\ result[TaskOf[r]] = 0 /\ failure[TaskOf[r]] = NoMsg
  /\ result' = [result EXCEPT ![TaskOf[r]] = gen[r]]
  /\ UNCHANGED failure
  /\ Completes(r, gen[r])

EndsTurnedAway(r) ==
  /\ pc[r] = "failed" /\ ~(selected[r] /\ exc[r] # "stale")
  /\ Fails(r, exc[r])
  /\ UNCHANGED <<terminal, locals>>

EndsFailing(r) ==
  /\ pc[r] = "failed" /\ selected[r] /\ exc[r] # "stale"
  /\ result[TaskOf[r]] = 0
  /\ failure' = [failure EXCEPT ![TaskOf[r]] =
                                IF @ = NoMsg THEN exc[r] ELSE @]
  /\ Fails(r, failure'[TaskOf[r]])
  /\ UNCHANGED <<result, locals>>

LEMMA Endings ==
  ASSUME TypeOK, LocalsInv, NEW r \in Run, Start(r) \/ Advance(r)
  PROVE  \/ EndsCompleted(r) \/ EndsDeciding(r)
         \/ EndsTurnedAway(r) \/ EndsFailing(r)
         \/ /\ UNCHANGED terminal
            /\ completion[r].status \in {"absent", "running"}
            /\ completion'[r].status \in {"absent", "running"}
<1> USE DEF TypeOK, locals, terminal, Goto, Raise
<1>0. pc[r] # "done" => completion[r].status \in {"absent", "running"}
  BY DEF LocalsInv
<1>1. CASE Start(r)
  <2>1. completion'[r].status = "running"
    BY <1>1 DEF Start, Completion
  <2> QED BY <1>0, <1>1, <2>1 DEF Start
<1>2. CASE Select(r) \/ Begin(r) \/ Snapshot(r) \/ Authorise(r)
  BY <1>0, <1>2 DEF Select, Begin, Snapshot, Authorise
<1>3. CASE Reclaim(r) \/ ClaimTask(r)
  BY <1>0, <1>3 DEF Reclaim, ResolveTarget, ClaimTask
<1>4. CASE AssertExecutionCurrent(r) \/ ExecutorReturns(r) \/ ExecutorRaises(r)
           \/ PopAuthority(r) \/ ReleaseOwnership(r)
  BY <1>0, <1>4 DEF AssertExecutionCurrent, ExecutorReturns, ExecutorRaises,
                    PopAuthority, ReleaseOwnership
<1>5. CASE PublishResult(r)
  BY <1>0, <1>5 DEF PublishResult, EndsCompleted, EndsDeciding
<1>6. CASE ConvergeStale(r)
  BY <1>0, <1>6 DEF ConvergeStale, EndsCompleted
<1>7. CASE Retry(r)
  BY <1>0, <1>7 DEF Retry
<1>8. CASE GiveUp(r)
  BY <1>0, <1>8 DEF GiveUp, EndsTurnedAway, EndsFailing
<1> QED
  BY <1>1, <1>2, <1>3, <1>4, <1>5, <1>6, <1>7, <1>8 DEF Advance

(* What one caller was told is the verdict that stands.                    *)
Agrees(r) ==
  /\ completion[r].status = "completed" =>
       /\ result[TaskOf[r]] # 0
       /\ completion[r].result = result[TaskOf[r]]
  /\ completion[r].status = "failed" /\ selected[r] /\ exc[r] # "stale" =>
       /\ failure[TaskOf[r]] # NoMsg
       /\ completion[r].error = failure[TaskOf[r]]

OneVerdict == \A t \in Task : result[t] = 0 \/ failure[t] = NoMsg

VerdictInv == OneVerdict /\ \A r \in Run : Agrees(r)

LEMMA VerdictInvAgree == VerdictInv => ReportsAgree
  BY DEF VerdictInv, OneVerdict, Agrees, ReportsAgree

(* A completion that ends gets the status and the value it is ended with.  *)
LEMMA CompletesValue ==
  ASSUME TypeOK, NEW r \in Run, NEW g, Completes(r, g)
  PROVE  completion'[r].status = "completed" /\ completion'[r].result = g
  BY DEF Completes, TypeOK, Completion

LEMMA FailsValue ==
  ASSUME TypeOK, NEW r \in Run, NEW m, Fails(r, m)
  PROVE  completion'[r].status = "failed" /\ completion'[r].error = m
  BY DEF Fails, TypeOK, Completion

(* A verdict that was published stays.                                     *)
LEMMA VerdictsStand ==
  ASSUME TypeOK, LocalsInv, NEW r \in Run, Start(r) \/ Advance(r), NEW t \in Task
  PROVE  /\ result[t] # 0 => result'[t] = result[t]
         /\ failure[t] # NoMsg => failure'[t] = failure[t]
<1> USE RunAssumption DEF TypeOK, terminal
<1>1. CASE UNCHANGED terminal
  BY <1>1
<1>2. CASE EndsDeciding(r)
  BY <1>2 DEF EndsDeciding
<1>3. CASE EndsFailing(r)
  BY <1>3 DEF EndsFailing
<1> QED BY <1>1, <1>2, <1>3, Endings DEF EndsCompleted, EndsTurnedAway

LEMMA AdvanceVerdicts ==
  ASSUME TypeOK, LocalsInv, VerdictInv, NEW r \in Run, Start(r) \/ Advance(r)
  PROVE  VerdictInv'
<1> USE RunAssumption
<1>0. gen[r] \in Nat /\ exc[r] \in Msg \cup {NoMsg}
      /\ (pc[r] = "publish" => gen[r] # 0) /\ (pc[r] = "failed" => exc[r] # NoMsg)
      /\ TaskOf[r] \in Task
  BY DEF TypeOK, LocalsInv
<1>1. OneVerdict'
  <2>1. CASE UNCHANGED terminal
    BY <2>1 DEF terminal, VerdictInv, OneVerdict
  <2>2. CASE EndsDeciding(r)
    BY <2>2 DEF EndsDeciding, VerdictInv, OneVerdict, TypeOK
  <2>3. CASE EndsFailing(r)
    BY <2>3 DEF EndsFailing, VerdictInv, OneVerdict, TypeOK
  <2> QED BY <2>1, <2>2, <2>3, Endings DEF EndsCompleted, EndsTurnedAway
<1>2. ASSUME NEW s \in Run, s # r PROVE Agrees(s)'
  <2>1. Agrees(s) /\ TaskOf[s] \in Task
    BY DEF VerdictInv
  <2>2. /\ completion'[s] = completion[s]
        /\ selected'[s] = selected[s] /\ exc'[s] = exc[s]
    BY <1>2, OthersUnmoved
  <2>3. /\ result[TaskOf[s]] # 0 => result'[TaskOf[s]] = result[TaskOf[s]]
        /\ failure[TaskOf[s]] # NoMsg => failure'[TaskOf[s]] = failure[TaskOf[s]]
    BY <2>1, VerdictsStand
  <2> QED BY <2>1, <2>2, <2>3 DEF Agrees
<1>3. Agrees(r)'
  <2>1. CASE EndsCompleted(r)
    BY <2>1, CompletesValue DEF EndsCompleted, terminal, Agrees
  <2>2. CASE EndsDeciding(r)
    <3>1. result'[TaskOf[r]] = gen[r]
      BY <1>0, <2>2 DEF EndsDeciding, TypeOK
    <3>2. completion'[r].status = "completed" /\ completion'[r].result = gen[r]
      BY <2>2, CompletesValue DEF EndsDeciding
    <3> QED BY <1>0, <2>2, <3>1, <3>2 DEF EndsDeciding, Agrees
  <2>3. CASE EndsTurnedAway(r)
    <3>1. completion'[r].status = "failed"
      BY <2>3, FailsValue DEF EndsTurnedAway
    <3> QED BY <2>3, <3>1 DEF EndsTurnedAway, locals, Agrees
  <2>4. CASE EndsFailing(r)
    <3>1. failure'[TaskOf[r]] # NoMsg
      BY <1>0, <2>4 DEF EndsFailing, TypeOK
    <3>2. completion'[r].status = "failed"
          /\ completion'[r].error = failure'[TaskOf[r]]
      BY <2>4, FailsValue DEF EndsFailing
    <3> QED BY <3>1, <3>2 DEF Agrees
  <2>5. CASE completion'[r].status \in {"absent", "running"}
    BY <2>5 DEF Agrees
  <2> QED BY <2>1, <2>2, <2>3, <2>4, <2>5, Endings
<1> QED BY <1>1, <1>2, <1>3 DEF VerdictInv

LEMMA VerdictInit == Init => VerdictInv
  BY DEF Init, VerdictInv, OneVerdict, Agrees

LEMMA VerdictIdle ==
  ASSUME VerdictInv, Membership \/ UNCHANGED vars
  PROVE  VerdictInv'
  BY DEF VerdictInv, OneVerdict, Agrees, Membership, vars, terminal, locals

LEMMA VerdictSafe == Spec => []VerdictInv
<1>1. TypeOK /\ LocalsInv /\ VerdictInv /\ [Next]_vars => VerdictInv'
  BY AdvanceVerdicts, VerdictIdle DEF Next
<1> QED BY <1>1, VerdictInit, TypeCorrect, PTL DEF Spec

(* In every behaviour all callers of a task that are told something are    *)
(* told the same verdict, and it is the published one.                     *)
THEOREM Agreement == Spec => []ReportsAgree
  BY VerdictSafe, VerdictInvAgree, PTL

-----------------------------------------------------------------------------
(* Refinement of TaskOutcome.                                              *)

(* A task's verdict and a call's report, entry by entry.                   *)
LEMMA VerdictOf ==
  \A t \in Task :
    /\ result[t] # 0 => taskVerdict[t] = ResultVerdict(result[t])
    /\ result[t] = 0 /\ failure[t] # NoMsg => taskVerdict[t] = FailureVerdict(failure[t])
    /\ result[t] = 0 /\ failure[t] = NoMsg => taskVerdict[t] = NoVerdict
  BY DEF taskVerdict

LEMMA ReportOf ==
  \A r \in Run :
    /\ completion[r].status = "completed" =>
         callReport[r] = ResultVerdict(completion[r].result)
    /\ completion[r].status = "failed" /\ selected[r] /\ exc[r] # "stale" =>
         callReport[r] = FailureVerdict(completion[r].error)
    /\ completion[r].status = "failed" /\ ~(selected[r] /\ exc[r] # "stale") =>
         callReport[r] = NoReport
    /\ completion[r].status \in {"absent", "running"} => callReport[r] = NoVerdict
  BY DEF callReport

LEMMA KindsDiffer ==
  /\ \A g : ResultVerdict(g) # NoVerdict
  /\ \A m : FailureVerdict(m) # NoVerdict
  BY DEF ResultVerdict, FailureVerdict, NoVerdict

(* A step of a call touches the verdict of its task and its own report.    *)
LEMMA RefinementFrame ==
  ASSUME TypeOK, LocalsInv, NEW r \in Run, Start(r) \/ Advance(r)
  PROVE  /\ taskVerdict' = [taskVerdict EXCEPT ![TaskOf[r]] = taskVerdict'[TaskOf[r]]]
         /\ callReport' = [callReport EXCEPT ![r] = callReport'[r]]
<1>1. \A t \in Task : t # TaskOf[r] => result'[t] = result[t] /\ failure'[t] = failure[t]
  BY Endings, RunAssumption
  DEF EndsCompleted, EndsDeciding, EndsTurnedAway, EndsFailing, terminal, TypeOK
<1>2. \A t \in Task : t # TaskOf[r] => taskVerdict'[t] = taskVerdict[t]
  BY <1>1 DEF taskVerdict
<1>3. \A s \in Run : s # r => callReport'[s] = callReport[s]
  BY OthersUnmoved DEF callReport
<1>4. taskVerdict' = [t \in Task |-> taskVerdict'[t]]
      /\ taskVerdict = [t \in Task |-> taskVerdict[t]]
  BY DEF taskVerdict
<1>5. callReport' = [s \in Run |-> callReport'[s]]
      /\ callReport = [s \in Run |-> callReport[s]]
  BY DEF callReport
<1>6. taskVerdict' = [taskVerdict EXCEPT ![TaskOf[r]] = taskVerdict'[TaskOf[r]]]
  BY <1>2, <1>4
<1>7. callReport' = [callReport EXCEPT ![r] = callReport'[r]]
  BY <1>3, <1>5
<1> QED BY <1>6, <1>7

LEMMA SameTerminal == UNCHANGED terminal => UNCHANGED taskVerdict
  BY DEF terminal, taskVerdict

LEMMA RefinementStep ==
  ASSUME TypeOK, LocalsInv, VerdictInv, NEW r \in Run, Start(r) \/ Advance(r)
  PROVE  Outcome!AbstractNext \/ UNCHANGED <<taskVerdict, callReport>>
<1> DEFINE t == TaskOf[r]
<1>0. t \in Task
  BY RunAssumption
<1>1. pc[r] # "done" => callReport[r] = NoVerdict
  BY ReportOf DEF LocalsInv
<1>2. VerdictInv' /\ TypeOK'
  BY AdvanceVerdicts, AdvanceType
<1>3. CASE EndsCompleted(r)
  <2>1. UNCHANGED taskVerdict /\ taskVerdict[t] = ResultVerdict(result[t])
    BY <1>0, <1>3, SameTerminal, VerdictOf DEF EndsCompleted
  <2>2. callReport'[r] = taskVerdict[t]
    BY <1>0, <1>3, <2>1, CompletesValue DEF EndsCompleted, callReport
  <2>3. Outcome!Adopt(r)
    BY <1>1, <1>3, <2>1, <2>2, KindsDiffer, RefinementFrame
    DEF Outcome!Adopt, EndsCompleted
  <2> QED BY <2>3 DEF Outcome!AbstractNext
<1>4. CASE EndsDeciding(r)
  <2>1. taskVerdict[t] = NoVerdict
    BY <1>0, <1>4, VerdictOf DEF EndsDeciding
  <2>2. gen[r] \in Nat \ {0} /\ result'[t] = gen[r]
    BY <1>0, <1>4 DEF EndsDeciding, LocalsInv, TypeOK
  <2>3. taskVerdict'[t] = ResultVerdict(gen[r])
    BY <1>0, <2>2 DEF taskVerdict
  <2>4. callReport'[r] = ResultVerdict(gen[r])
    BY <1>4, CompletesValue DEF EndsDeciding, callReport
  <2>5. ResultVerdict(gen[r]) \in Verdicts
    BY <2>2 DEF ResultVerdict, Verdicts
  <2>6. Outcome!Decide(r)
    BY <1>1, <1>4, <2>1, <2>3, <2>4, <2>5, RefinementFrame
    DEF Outcome!Decide, EndsDeciding
  <2> QED BY <2>6 DEF Outcome!AbstractNext
<1>5. CASE EndsTurnedAway(r)
  <2>1. UNCHANGED taskVerdict
    BY <1>5, SameTerminal DEF EndsTurnedAway
  <2>2. callReport'[r] = NoReport
    <3>1. completion'[r].status = "failed"
      BY <1>5, FailsValue DEF EndsTurnedAway
    <3>2. ~(selected'[r] /\ exc'[r] # "stale")
      BY <1>5 DEF EndsTurnedAway, locals
    <3> QED BY <3>1, <3>2 DEF callReport
  <2>3. Outcome!TurnAway(r)
    BY <1>1, <1>5, <2>1, <2>2, RefinementFrame DEF Outcome!TurnAway, EndsTurnedAway
  <2> QED BY <2>3 DEF Outcome!AbstractNext
<1>6. CASE EndsFailing(r)
  <2>1. completion'[r].status = "failed" /\ completion'[r].error = failure'[t]
    BY <1>6, FailsValue DEF EndsFailing
  <2>2. selected'[r] /\ exc'[r] # "stale"
    BY <1>6 DEF EndsFailing, locals
  <2>3. callReport'[r] = FailureVerdict(failure'[t])
    BY <2>1, <2>2 DEF callReport
  <2>4. result[t] = 0 /\ result'[t] = 0
    BY <1>6 DEF EndsFailing
  <2>5. failure'[t] \in Msg
    BY <1>0, <1>2, <2>1, <2>2 DEF VerdictInv, Agrees, TypeOK
  <2>6. taskVerdict'[t] = FailureVerdict(failure'[t])
    BY <1>0, <2>4, <2>5, NoMsgAssumption DEF taskVerdict
  <2>7. CASE failure[t] = NoMsg
    <3>1. taskVerdict[t] = NoVerdict
      BY <1>0, <2>4, <2>7, VerdictOf
    <3>2. FailureVerdict(failure'[t]) \in Verdicts
      BY <2>5 DEF FailureVerdict, Verdicts
    <3>3. Outcome!Decide(r)
      BY <1>1, <1>6, <2>3, <2>6, <3>1, <3>2, RefinementFrame
      DEF Outcome!Decide, EndsFailing
    <3> QED BY <3>3 DEF Outcome!AbstractNext
  <2>8. CASE failure[t] # NoMsg
    <3>1. failure'[t] = failure[t]
      BY <1>0, <2>8, VerdictsStand
    <3>2. taskVerdict[t] = FailureVerdict(failure[t])
      BY <1>0, <2>4, <2>8, VerdictOf
    <3>3. UNCHANGED taskVerdict
      <4>1. taskVerdict'[t] = taskVerdict[t]
        BY <2>6, <3>1, <3>2
      <4>2. taskVerdict = [taskVerdict EXCEPT ![t] = taskVerdict[t]]
        BY <1>0 DEF taskVerdict
      <4> QED BY <4>1, <4>2, RefinementFrame
    <3>4. Outcome!Adopt(r)
      BY <1>1, <1>6, <2>3, <3>1, <3>2, <3>3, KindsDiffer, RefinementFrame
      DEF Outcome!Adopt, EndsFailing
    <3> QED BY <3>4 DEF Outcome!AbstractNext
  <2> QED BY <2>7, <2>8
<1>7. CASE /\ UNCHANGED terminal
           /\ completion[r].status \in {"absent", "running"}
           /\ completion'[r].status \in {"absent", "running"}
  <2>1. callReport'[r] = NoVerdict /\ callReport[r] = NoVerdict
    BY <1>7 DEF callReport
  <2>2. callReport = [callReport EXCEPT ![r] = callReport[r]]
    BY DEF callReport
  <2> QED BY <1>7, <2>1, <2>2, SameTerminal, RefinementFrame
<1> QED BY <1>3, <1>4, <1>5, <1>6, <1>7, Endings

(* Dispatch implements TaskOutcome: each step is a decision, an adoption,  *)
(* a refusal or invisible.                                                 *)
THEOREM Refinement == Spec => ImplementsTaskOutcome
<1>1. Init => Outcome!AbstractInit
  BY DEF Init, Outcome!AbstractInit, taskVerdict, callReport
<1>2. TypeOK /\ LocalsInv /\ VerdictInv /\ [Next]_vars
        => [Outcome!AbstractNext]_(Outcome!abstractVars)
  <2> SUFFICES ASSUME TypeOK, LocalsInv, VerdictInv, [Next]_vars
               PROVE  Outcome!AbstractNext \/ UNCHANGED <<taskVerdict, callReport>>
    BY DEF Outcome!abstractVars
  <2>1. CASE Membership \/ UNCHANGED vars
    BY <2>1 DEF Membership, vars, terminal, locals, taskVerdict, callReport
  <2>2. ASSUME NEW r \in Run, Start(r) \/ Advance(r)
        PROVE  Outcome!AbstractNext \/ UNCHANGED <<taskVerdict, callReport>>
    BY <2>2, RefinementStep
  <2> QED BY <2>1, <2>2 DEF Next
<1> QED
  BY <1>1, <1>2, TypeCorrect, VerdictSafe, PTL
  DEF Spec, ImplementsTaskOutcome, Outcome!AbstractSpec

-----------------------------------------------------------------------------
(* Fenced executions.                                                      *)

(* An execution that has a generation which may still become the result.   *)
InFlight(r) == pc[r] \in Holding \cup {"publish"}

(* Each generation is in the hands of one execution, until it is the       *)
(* result.                                                                 *)
GenerationsApart ==
  /\ \A t \in Task : result[t] <= generations[t]
  /\ \A r \in Run : InFlight(r) =>
       gen[r] <= generations[TaskOf[r]] /\ gen[r] # result[TaskOf[r]]
  /\ \A r, s \in Run : r # s /\ TaskOf[r] = TaskOf[s] /\ InFlight(r) /\ InFlight(s) =>
       gen[r] # gen[s]

Publishes(r) ==
  /\ pc[r] = "publish" /\ exc[r] = NoMsg /\ pc'[r] = "done"
  /\ result' = [result EXCEPT ![TaskOf[r]] = gen[r]]

(* What a step does to the generations: a claim makes the next one, a      *)
(* release takes one to its publication, a publication ends it.            *)
LEMMA GenerationStep ==
  ASSUME TypeOK, NEW r \in Run, Start(r) \/ Advance(r)
  PROVE  \/ Claims(r) /\ UNCHANGED <<result, exc>>
         \/ ReleaseOwnership(r)
         \/ UNCHANGED generations /\ Publishes(r)
         \/ /\ UNCHANGED <<generations, result>>
            /\ pc'[r] = "publish" => pc[r] = "publish" /\ UNCHANGED <<exc, gen>>
<1> USE DEF TypeOK, locals, ownershipVars, terminal, Goto, Raise
<1>1. CASE Start(r) \/ Select(r) \/ Begin(r) \/ Snapshot(r) \/ Authorise(r)
  BY <1>1 DEF Start, Select, Begin, Snapshot, Authorise
<1>2. CASE Reclaim(r)
  BY <1>2 DEF Reclaim, ResolveTarget, ReclaimOrphaned
<1>3. CASE ClaimTask(r)
  BY <1>3 DEF ClaimTask, Claims
<1>4. CASE AssertExecutionCurrent(r) \/ ExecutorReturns(r) \/ ExecutorRaises(r)
           \/ PopAuthority(r)
  BY <1>4 DEF AssertExecutionCurrent, ExecutorReturns, ExecutorRaises, PopAuthority
<1>5. CASE PublishResult(r)
  BY <1>5 DEF PublishResult, Completes, Publishes
<1>6. CASE ConvergeStale(r)
  BY <1>6 DEF ConvergeStale, Completes
<1>7. CASE Retry(r) \/ GiveUp(r)
  BY <1>7 DEF Retry, GiveUp
<1> QED
  BY <1>1, <1>2, <1>3, <1>4, <1>5, <1>6, <1>7 DEF Advance

LEMMA ReleaseGenerations ==
  ASSUME TypeOK, NEW r \in Run, ReleaseOwnership(r)
  PROVE  /\ pc[r] \in Holding /\ UNCHANGED <<generations, result, gen>>
         /\ exc'[r] = NoMsg => Holds(r)
  BY NoMsgAssumption
  DEF ReleaseOwnership, ReleaseInFinally, Release, RaisedInFinally, TypeOK, Holding,
      terminal, Msg

LEMMA AdvanceGenerations ==
  ASSUME TypeOK, LocalsInv, GenerationsApart, NEW r \in Run, Start(r) \/ Advance(r)
  PROVE  GenerationsApart'
<1>1. /\ generations \in [Task -> Nat] /\ result \in [Task -> Nat] /\ gen \in [Run -> Nat]
      /\ TaskOf[r] \in Task /\ \A s \in Run : TaskOf[s] \in Task
  BY RunAssumption DEF TypeOK, OwnershipTypeOK
<1>2. \A s \in Run : s # r => gen'[s] = gen[s] /\ (InFlight(s)' <=> InFlight(s))
  BY OthersUnmoved DEF InFlight
<1>3. CASE Claims(r) /\ UNCHANGED <<result, exc>>
  <2>1. /\ generations' = [generations EXCEPT ![TaskOf[r]] = @ + 1]
        /\ gen' = [gen EXCEPT ![r] = generations[TaskOf[r]] + 1]
    BY <1>3 DEF Claims, Claim, NextGeneration
  <2>2. \A t \in Task : generations'[t] = IF t = TaskOf[r] THEN generations[t] + 1 ELSE generations[t]
    BY <1>1, <2>1
  <2>3. gen'[r] = generations[TaskOf[r]] + 1
    BY <1>1, <2>1
  <2>4. \A s \in Run : s # r /\ InFlight(s)' =>
          /\ gen'[s] <= generations[TaskOf[s]] /\ gen'[s] # result'[TaskOf[s]] /\ gen'[s] \in Nat
    BY <1>1, <1>2, <1>3 DEF GenerationsApart
  <2>5. \A t \in Task : result'[t] <= generations[t] /\ result'[t] \in Nat /\ generations[t] \in Nat
    BY <1>1, <1>3 DEF GenerationsApart
  <2>6. ASSUME NEW a \in Run, NEW b \in Run, a # b, a # r, b # r, TaskOf[a] = TaskOf[b],
               InFlight(a)', InFlight(b)'
        PROVE  gen'[a] # gen'[b]
    <3>1. InFlight(a) /\ InFlight(b) /\ gen'[a] = gen[a] /\ gen'[b] = gen[b]
      BY <1>2, <2>6
    <3> QED BY <2>6, <3>1 DEF GenerationsApart
  <2> QED BY <1>1, <2>2, <2>3, <2>4, <2>5, <2>6 DEF GenerationsApart
<1>4. CASE UNCHANGED <<generations, result, gen>> /\ (InFlight(r)' => InFlight(r))
  BY <1>2, <1>4 DEF GenerationsApart
<1>5. CASE UNCHANGED generations /\ Publishes(r)
  <2>1. InFlight(r) /\ ~InFlight(r)'
    BY <1>5 DEF Publishes, InFlight, Holding
  <2>2. \A t \in Task : result'[t] = IF t = TaskOf[r] THEN gen[r] ELSE result[t]
    BY <1>1, <1>5 DEF Publishes
  <2> QED BY <1>1, <1>2, <1>5, <2>1, <2>2 DEF GenerationsApart
<1>6. CASE /\ ~Claims(r) /\ UNCHANGED <<generations, result>>
           /\ (pc'[r] = "publish" => pc[r] = "publish" /\ UNCHANGED <<exc, gen>>)
  <2>1. pc'[r] \in Holding => pc[r] \in Holding /\ gen'[r] = gen[r]
    BY <1>6, HoldingKept
  <2>2. InFlight(r)' => InFlight(r) /\ gen'[r] = gen[r]
    BY <1>6, <2>1 DEF InFlight
  <2> QED BY <1>1, <1>2, <1>6, <2>2 DEF GenerationsApart
<1>7. CASE ReleaseOwnership(r)
  <2>1. InFlight(r)
    BY <1>7, ReleaseGenerations DEF InFlight
  <2> QED BY <1>4, <1>7, <2>1, ReleaseGenerations
<1>8. Claims(r) => ~(UNCHANGED generations)
  BY <1>1 DEF Claims, Claim, NextGeneration
<1> QED BY <1>3, <1>5, <1>6, <1>7, <1>8, GenerationStep

(* The current entry is in the hands of one execution, so a holder that    *)
(* does not hold has nothing left to publish.                              *)
LEMMA FencedIsSpent ==
  ASSUME TypeOK, LocalsInv, NoAbandonedOwnership, GenerationsApart,
         NEW r \in Run, pc[r] \in Holding, ~Holds(r)
  PROVE  Spent(TaskOf[r], gen[r])
<1> DEFINE t == TaskOf[r]
<1>1. t \in Task /\ InFlight(r)
  BY RunAssumption DEF InFlight
<1>2. gen[r] <= generations[t] /\ result[t] # gen[r]
  BY <1>1 DEF GenerationsApart
<1>3. owner[t] # NoOwner => owner[t].gen # gen[r]
  <2> SUFFICES ASSUME owner[t] # NoOwner, owner[t].gen = gen[r] PROVE FALSE
    OBVIOUS
  <2>1. PICK s \in Run : pc[s] \in Holding /\ TaskOf[s] = t /\ Holds(s)
    BY <1>1 DEF NoAbandonedOwnership
  <2>2. s # r /\ gen[s] = gen[r] /\ InFlight(s)
    BY <2>1 DEF Holds, Current, InFlight
  <2> QED BY <1>1, <2>1, <2>2 DEF GenerationsApart
<1>4. ASSUME NEW s \in Run, TaskOf[s] = t, pc[s] = "publish", gen[s] = gen[r] PROVE FALSE
  <2>1. s # r /\ InFlight(s)
    BY <1>4 DEF Holding, InFlight
  <2> QED BY <1>1, <1>4, <2>1 DEF GenerationsApart
<1> QED BY <1>2, <1>3, <1>4 DEF Spent

LEMMA SpentStays ==
  ASSUME TypeOK, LocalsInv, NEW t \in Task, NEW g \in Nat, Spent(t, g),
         NEW r \in Run, Start(r) \/ Advance(r)
  PROVE  Spent(t, g)'
<1>1. /\ generations \in [Task -> Nat] /\ result \in [Task -> Nat] /\ gen \in [Run -> Nat]
      /\ TaskOf[r] \in Task
  BY RunAssumption DEF TypeOK, OwnershipTypeOK
<1>2. \A s \in Run : s # r => pc'[s] = pc[s] /\ exc'[s] = exc[s] /\ gen'[s] = gen[s]
  BY OthersUnmoved
<1>3. CASE Claims(r) /\ UNCHANGED <<result, exc>>
  <2>1. /\ generations' = [generations EXCEPT ![TaskOf[r]] = @ + 1]
        /\ owner' = [owner EXCEPT ![TaskOf[r]] =
                       [node |-> target[r], gen |-> generations[TaskOf[r]] + 1]]
        /\ owner \in [Task -> Ownership \cup {NoOwner}]
    BY <1>3 DEF Claims, Claim, NextGeneration, TypeOK, OwnershipTypeOK
  <2>2. g <= generations'[t]
    BY <1>1, <2>1 DEF Spent
  <2>3. owner'[t] # NoOwner => owner'[t].gen # g
    BY <1>1, <2>1 DEF Spent
  <2>4. pc'[r] = "authorise"
    BY <1>3 DEF Claims, Goto, TypeOK
  <2> QED BY <1>2, <1>3, <2>2, <2>3, <2>4 DEF Spent
<1>4. ASSUME ~Claims(r) PROVE owner'[t] # NoOwner => owner'[t].gen # g
  BY <1>4, HoldingKept DEF Spent
<1>5. CASE ReleaseOwnership(r)
  <2>1. UNCHANGED <<generations, result, gen>> /\ (exc'[r] = NoMsg => Holds(r))
    BY <1>5, ReleaseGenerations
  <2>2. ~Claims(r)
    BY <1>5 DEF ReleaseOwnership, Claims, Goto
  <2>3. Holds(r) /\ TaskOf[r] = t => gen[r] # g
    <3>1. target[r] \in Owner /\ gen[r] \in Nat \ {0}
      BY <1>1, <1>5, ReleaseGenerations, RunAssumption DEF LocalsInv
    <3>2. [node |-> target[r], gen |-> gen[r]] # NoOwner
      BY <3>1, NoOwnerAssumption DEF Ownership
    <3> QED BY <3>2 DEF Holds, Current, Spent
  <2> QED BY <1>2, <1>4, <2>1, <2>2, <2>3 DEF Spent
<1>6. CASE UNCHANGED generations /\ Publishes(r)
  <2>1. ~Claims(r)
    BY <1>6 DEF Publishes, Claims, Goto
  <2>2. result'[t] # g
    BY <1>1, <1>6 DEF Publishes, Spent
  <2> QED BY <1>2, <1>4, <1>6, <2>1, <2>2 DEF Spent, Publishes
<1>7. CASE /\ ~Claims(r) /\ UNCHANGED <<generations, result>>
           /\ (pc'[r] = "publish" => pc[r] = "publish" /\ UNCHANGED <<exc, gen>>)
  BY <1>2, <1>4, <1>7 DEF Spent
<1>8. Claims(r) => ~(UNCHANGED generations)
  BY <1>1 DEF Claims, Claim, NextGeneration
<1> QED BY <1>3, <1>5, <1>6, <1>7, <1>8, GenerationStep

(* Whatever an execution does after it lost its task, its generation is    *)
(* spent for good, so it never becomes the result                          *)
(* (dispatcher.py:269-306, cluster.py:130-190).                            *)
THEOREM FencedForGood == Spec => FencedNeverDecides
<1>1. Init => GenerationsApart
  BY DEF Init, OwnershipInit, GenerationsApart, InFlight, Holding
<1>2. TypeOK /\ LocalsInv /\ GenerationsApart /\ [Next]_vars => GenerationsApart'
  <2> SUFFICES ASSUME TypeOK, LocalsInv, GenerationsApart, [Next]_vars
               PROVE  GenerationsApart'
    OBVIOUS
  <2>1. CASE Membership \/ UNCHANGED vars
    BY <2>1 DEF Membership, vars, ownershipVars, locals, terminal, GenerationsApart, InFlight
  <2>2. ASSUME NEW r \in Run, Start(r) \/ Advance(r) PROVE GenerationsApart'
    BY <2>2, AdvanceGenerations
  <2> QED BY <2>1, <2>2 DEF Next
<1>3. Spec => []GenerationsApart
  BY <1>1, <1>2, TypeCorrect, PTL DEF Spec
<1> DEFINE Fenced == \A r \in Run : (pc[r] \in Holding /\ ~Holds(r)) => Spent(TaskOf[r], gen[r])
           Stays == \A t \in Task : \A g \in 1 .. MaxGeneration : Spent(t, g) => Spent(t, g)'
<1>4. TypeOK /\ LocalsInv /\ NoAbandonedOwnership /\ GenerationsApart => Fenced
  BY FencedIsSpent
<1>5. TypeOK /\ LocalsInv /\ [Next]_vars => [Stays]_vars
  <2> SUFFICES ASSUME TypeOK, LocalsInv, [Next]_vars,
                      NEW t \in Task, NEW g \in 1 .. MaxGeneration, Spent(t, g)
               PROVE  Spent(t, g)'
    OBVIOUS
  <2>1. CASE Membership \/ UNCHANGED vars
    BY <2>1 DEF Membership, vars, ownershipVars, locals, terminal, Spent
  <2>2. ASSUME NEW s \in Run, Start(s) \/ Advance(s) PROVE Spent(t, g)'
    <3>1. g \in Nat
      OBVIOUS
    <3> QED BY <2>2, <3>1, SpentStays
  <2> QED BY <2>1, <2>2 DEF Next
<1> HIDE DEF Fenced, Stays
<1>6. Spec => []Fenced /\ [][Stays]_vars
  BY <1>3, <1>4, <1>5, TypeCorrect, OwnershipSafe, PTL DEF Spec
<1> QED BY <1>6 DEF Fenced, Stays, FencedNeverDecides

-----------------------------------------------------------------------------
(* No step of a call leads back except into a counted attempt, of which    *)
(* there are at most MaxAttempts: each call takes finitely many steps      *)
(* (runtime.py:201-249, dispatcher.py:330-460).                            *)
THEOREM CallsGoForward == Spec => GoesForward
<1> DEFINE Ahead(r) == \/ attempt'[r] > attempt[r]
                       \/ attempt'[r] = attempt[r] /\ Stage[pc'[r]] > Stage[pc[r]]
           Goes == \A r \in Run : pc'[r] # pc[r] => Ahead(r)
<1>1. TypeOK /\ [Next]_vars => [Goes]_vars
  <2> SUFFICES ASSUME TypeOK, [Next]_vars, NEW r \in Run, pc'[r] # pc[r] PROVE Ahead(r)
    OBVIOUS
  <2>1. \A q \in Run : q # r /\ (Start(q) \/ Advance(q)) => pc'[r] = pc[r]
    BY OthersUnmoved
  <2>2. Start(r) \/ Advance(r)
    BY <2>1 DEF Next, Membership, vars
  <2>3. attempt \in [Run -> 1 .. MaxAttempts] /\ pc \in [Run -> PC]
    BY DEF TypeOK
  <2>4. CASE Retry(r)
    BY <2>3, <2>4, RunAssumption DEF Retry
  <2>5. Stage["idle"] = 0 /\ Stage["select"] = 1 /\ Stage["begin"] = 2 /\ Stage["dispatch"] = 3
        /\ Stage["reclaim"] = 4 /\ Stage["claim"] = 5 /\ Stage["authorise"] = 6
        /\ Stage["executing"] = 7 /\ Stage["guarded"] = 8 /\ Stage["finally"] = 9
        /\ Stage["release"] = 10 /\ Stage["failed"] = 12
    BY DEF Stage
  <2>6. CASE Start(r) \/ Select(r) \/ Begin(r)
    BY <2>3, <2>5, <2>6 DEF Start, Select, Begin, Goto, Raise, locals
  <2>7. CASE Snapshot(r) \/ Reclaim(r)
    <3>1. \/ pc[r] = "dispatch" /\ pc'[r] \in {"reclaim", "failed"}
          \/ pc[r] = "reclaim" /\ pc'[r] \in {"claim", "failed"}
      BY <2>3, <2>7 DEF Snapshot, Reclaim, ResolveTarget, Goto, Raise
    <3>2. attempt' = attempt
      BY <2>7 DEF Snapshot, Reclaim
    <3> QED BY <2>3, <2>5, <3>1, <3>2
  <2>8. CASE ClaimTask(r) \/ Authorise(r)
    <3>1. \/ pc[r] = "claim" /\ pc'[r] \in {"authorise", "failed"}
          \/ pc[r] = "authorise" /\ pc'[r] = "executing"
      BY <2>3, <2>8 DEF ClaimTask, Authorise, Goto, Raise
    <3>2. attempt' = attempt
      BY <2>8 DEF ClaimTask, Authorise, locals
    <3> QED BY <2>3, <2>5, <3>1, <3>2
  <2>9. CASE AssertExecutionCurrent(r) \/ ExecutorReturns(r) \/ ExecutorRaises(r)
              \/ PopAuthority(r)
    <3>1. \/ pc[r] \in {"executing", "guarded"} /\ pc'[r] = "finally"
          \/ pc[r] = "executing" /\ pc'[r] = "guarded"
          \/ pc[r] = "finally" /\ pc'[r] = "release"
      BY <2>3, <2>9 DEF AssertExecutionCurrent, ExecutorReturns, ExecutorRaises, PopAuthority,
                        Goto
    <3>2. attempt' = attempt
      BY <2>9 DEF AssertExecutionCurrent, ExecutorReturns, ExecutorRaises, PopAuthority, locals
    <3> QED BY <2>3, <2>5, <3>1, <3>2
  <2>10. CASE ReleaseOwnership(r)
    BY <2>3, <2>10 DEF ReleaseOwnership, Goto, Stage, locals
  <2>11. CASE PublishResult(r) \/ ConvergeStale(r)
    BY <2>3, <2>11 DEF PublishResult, ConvergeStale, Completes, Goto, Raise, Stage, locals
  <2>12. CASE GiveUp(r)
    BY <2>3, <2>12 DEF GiveUp, Goto, Stage, locals
  <2> QED BY <2>2, <2>4, <2>6, <2>7, <2>8, <2>9, <2>10, <2>11, <2>12
         DEF Advance
<1> HIDE DEF Goes
<1>2. Spec => [][Goes]_vars
  BY <1>1, TypeCorrect, PTL DEF Spec
<1> QED BY <1>2 DEF Goes, GoesForward
=============================================================================
