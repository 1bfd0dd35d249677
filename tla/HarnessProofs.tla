---------------------------- MODULE HarnessProofs ----------------------------
(***************************************************************************)
(* Proofs about HarnessRun for any nodes, configurations, hosts and times, *)
(* and any number of faults: what a PASS says of the processes that were   *)
(* started and what a FAIL of S1 says of the runtime; what a PASS says of  *)
(* the roles between and at the samples; that the loop of run_s5 and the   *)
(* classifier agree; and what the gates let through.                       *)
(***************************************************************************)
EXTENDS HarnessRun, FiniteSetTheorems, WellFoundedInduction, NaturalsInduction, TLAPS

(* Where a run stands.                                                     *)
Gates == {"config", "preflight"}
Starts == {"ports", "fork", "forking", "adopt", "record", "hub_wait", "master_wait"}
Stable == {"ready", "settle", "window", "probe", "flush", "stop_master"}
Late == Stable \cup {"failover", "probe_new", "flush_new", "judge"}
Ending == {"write", "sums", "ended", "killed"}

ChildStates == {"none", "forked", "alive", "sick", "exited"}

(* How far the start has come.                                             *)
StartInv ==
  /\ pc \in Phases
  /\ started \in 0..Len(StartOrder)
  /\ pc \in Gates => started = 0
  /\ pc \in Starts \ {"forking", "adopt", "record"} => started < Len(StartOrder)
  /\ pc \in {"forking", "adopt", "record"} => started > 0
  /\ pc \in Late => started = Len(StartOrder)

(* Whoever was started is recorded once it is in the job, if there is one. *)
Known(k) == \A i \in 1..k : StartOrder[i] \in procs

RecordInv ==
  /\ pc \in {"forking", "adopt", "record"} => Known(started - 1)
  /\ pc \in (Starts \ {"forking", "adopt", "record"}) \cup Late => Known(started)
  /\ pc \in {"shutdown", "classify"} /\ ~aborted => Known(started)

(* Whoever was not started does not live, and whoever is confirmed stopped *)
(* has exited.                                                             *)
ChildInv ==
  /\ child \in [Members -> ChildStates]
  /\ stopped \in [Members -> {"no", "confirmed", "unconfirmed"}]
  /\ pc \in Gates \cup Starts \cup Stable => \A c \in Members : stopped[c] = "no"
  /\ \A i \in 1..Len(StartOrder) : i > started => child[StartOrder[i]] \in {"none", "exited"}
  /\ \A c \in Members : stopped[c] = "confirmed" => child[c] = "exited"

PassInv ==
  /\ result = "PASS" => pc \in Ending
  /\ PassMeansStopped

RunInv == StartInv /\ RecordInv /\ ChildInv /\ PassInv

-----------------------------------------------------------------------------
LEMMA StartOrderFacts ==
  /\ Len(StartOrder) \in Nat /\ DOMAIN StartOrder = 1..Len(StartOrder) /\ Len(StartOrder) > 2
  /\ \A i \in 1..Len(StartOrder) : StartOrder[i] \in Members
  /\ \A c \in Members : \E i \in 1..Len(StartOrder) : StartOrder[i] = c
  /\ \A i, j \in 1..Len(StartOrder) : StartOrder[i] = StartOrder[j] => i = j
  /\ StartOrder[1] = Hub /\ StartOrder[2] = Master /\ Hub # Master
<1> DEFINE n == Cardinality(Members)
<1>1. IsFiniteSet(Members) /\ n \in Nat
  BY ClusterValid, FS_AddElement, FS_CardinalityType DEF Members
<1>2. StartOrder \in [1..n -> Members] /\ {StartOrder[i] : i \in 1..n} = Members
  BY StartValid
<1>3. IsFiniteSet(1..n) /\ Cardinality(1..n) = n
  <2>1. Cardinality(1..n) = IF 1 > n THEN 0 ELSE n - 1 + 1
    BY <1>1, FS_Interval
  <2> QED BY <1>1, <2>1, FS_Interval
<1>4. StartOrder \in Surjection(1..n, Members)
  BY <1>2 DEF Surjection
<1>5. StartOrder \in Injection(1..n, Members)
  BY <1>1, <1>3, <1>4, FS_SurjSameCardinalityImpliesInj
<1>6. Len(StartOrder) = n
  BY <1>1, <1>2
<1>7. Hub # Master /\ StartOrder[1] = Hub /\ StartOrder[2] = Master
  BY StartValid, ClusterValid
<1>8. n > 2
  <2>1. PICK f \in Nodes : f # Master
    BY ClusterValid
  <2>2. f \in Members /\ f # Hub /\ Hub \in Members /\ Master \in Members
    BY <2>1, StartValid, ClusterValid DEF Members
  <2>3. PICK i, j, k \in 1..n : StartOrder[i] = f /\ StartOrder[j] = Hub /\ StartOrder[k] = Master
    BY <1>2, <2>2
  <2>4. i # j /\ i # k /\ j # k
    BY <1>7, <2>1, <2>2, <2>3
  <2> QED BY <1>1, <2>3, <2>4
<1> QED BY <1>1, <1>2, <1>5, <1>6, <1>7, <1>8 DEF Injection, IsInjective

LEMMA RunInit == Init => RunInv
BY StartOrderFacts DEF Init, RunInv, StartInv, RecordInv, ChildInv, PassInv, PassMeansStopped,
   Phases, Gates, Starts, Stable, Late, ChildStates

(* A step that touches no child, whatever place in the run it leads to.    *)
Quiet == UNCHANGED <<started, child, procs, stopped>>

LEMMA QuietStep ==
  ASSUME RunInv, Quiet, pc' \in Phases,
         result' = "PASS" => result = "PASS",
         \/ pc' = pc
         \/ pc = "config" /\ pc' = "preflight"
         \/ pc = "preflight" /\ pc' = "ports"
         \/ pc = "ports" /\ pc' = "fork"
         \/ pc \in {"hub_wait", "master_wait"} /\ pc' = "ports"
         \/ pc \in Late /\ pc' \in Late /\ (pc' \in Stable => pc \in Stable)
         \/ pc \in Late /\ pc' = "shutdown"
         \/ pc = "shutdown" /\ pc' = "classify"
         \/ pc' \in Ending
         \/ pc' = "shutdown" /\ aborted' /\ pc \in Running,
         pc \in {"shutdown", "classify"} => aborted' = aborted
  PROVE  RunInv'
<1> USE DEF RunInv, Quiet
<1>1. Len(StartOrder) > 0 /\ Len(StartOrder) \in Nat
  BY StartOrderFacts
<1>2. StartInv'
  <2>1. pc' \in Gates => started' = 0
    BY DEF StartInv, Gates, Starts, Stable, Late, Ending
  <2>2. pc' \in Starts \ {"forking", "adopt", "record"} => started' < Len(StartOrder)
    BY <1>1 DEF StartInv, Gates, Starts, Stable, Late, Ending
  <2>3. pc' \in {"forking", "adopt", "record"} => started' > 0
    BY DEF StartInv, Gates, Starts, Stable, Late, Ending
  <2>4. pc' \in Late => started' = Len(StartOrder)
    BY DEF StartInv, Gates, Starts, Stable, Late, Ending
  <2> QED BY <2>1, <2>2, <2>3, <2>4 DEF StartInv
<1>3. RecordInv'
  BY DEF RecordInv, Known, StartInv, Starts, Stable, Late, Ending, Gates
<1>4. ChildInv'
  BY DEF ChildInv, Starts, Stable, Late, Ending, Gates
<1>5. PassInv'
  BY DEF PassInv, PassMeansStopped, Ending, Late, Stable, Running, Phases
<1> QED BY <1>2, <1>3, <1>4, <1>5

LEMMA StopEffect ==
  ASSUME NEW c, child \in [Members -> ChildStates],
         stopped \in [Members -> {"no", "confirmed", "unconfirmed"}],
         \A d \in Members : stopped[d] = "confirmed" => child[d] = "exited", StopProcess(c)
  PROVE  /\ child' \in [Members -> ChildStates]
         /\ stopped' \in [Members -> {"no", "confirmed", "unconfirmed"}]
         /\ \A d \in Members : /\ child'[d] \in {child[d], "exited"}
                               /\ stopped'[d] = "confirmed" => child'[d] = "exited"
<1>1. CASE UNCHANGED <<child, stopped>>
  BY <1>1
<1>2. CASE child' = [child EXCEPT ![c] = "exited"] /\ stopped' = [stopped EXCEPT ![c] = "confirmed"]
  BY <1>2 DEF ChildStates
<1>3. CASE UNCHANGED child /\ stopped' = [stopped EXCEPT ![c] = "unconfirmed"]
  BY <1>3
<1> QED BY <1>1, <1>2, <1>3 DEF StopProcess

(* Children that only change for the worse, in a run that stays put.       *)
LEMMA LossStep ==
  ASSUME RunInv, UNCHANGED <<pc, started, procs, stopped, aborted, result>>,
         child' \in [Members -> ChildStates],
         \A c \in Members : \/ child'[c] = child[c]
                            \/ child[c] = "forked" /\ result # "PASS"
                            \/ child'[c] = "exited"
                            \/ child[c] = "alive"
  PROVE  RunInv'
<1>1. \A i \in 1..Len(StartOrder) : StartOrder[i] \in Members
  BY StartOrderFacts
<1>2. StartInv' /\ RecordInv'
  BY DEF RunInv, StartInv, RecordInv, Known
<1>3. ChildInv'
  BY <1>1 DEF RunInv, ChildInv
<1>4. PassInv'
  BY DEF RunInv, PassInv, PassMeansStopped
<1> QED BY <1>2, <1>3, <1>4 DEF RunInv

LEMMA SampleFacts ==
  ASSUME SampleStep
  PROVE  /\ Quiet /\ UNCHANGED result
         /\ \/ Abort /\ pc \in Running
            \/ /\ pc \in Late /\ pc' \in Late /\ (pc' \in Stable => pc \in Stable)
               /\ UNCHANGED aborted
<1> USE DEF Late, Stable, Quiet, childVars
<1>1. CASE SampleAborts
  BY <1>1 DEF SampleAborts, SamplingPhases, Running, Phases
<1>2. ASSUME NEW lost, SampleSettle(lost) \/ SampleWindow(lost) \/ SampleFlushNew(lost)
      PROVE  /\ Quiet /\ UNCHANGED <<result, aborted>>
             /\ pc \in Late /\ pc' \in Late /\ (pc' \in Stable => pc \in Stable)
  BY <1>2 DEF SampleSettle, SampleWindow, SampleFlushNew, SampleFor, endVars
<1>3. ASSUME NEW lost, SampleFailover(lost)
      PROVE  /\ Quiet /\ UNCHANGED <<result, aborted>>
             /\ pc \in Late /\ pc' \in Late /\ (pc' \in Stable => pc \in Stable)
  BY <1>3 DEF SampleFailover, endVars
<1> QED BY <1>1, <1>2, <1>3 DEF SampleStep

LEMMA RunStep == ASSUME RunInv, [Next]_vars PROVE RunInv'
<1> USE DEF Quiet, childVars, endVars
<1>0. Len(StartOrder) \in Nat /\ started \in 0..Len(StartOrder)
  BY StartOrderFacts DEF RunInv, StartInv
<1>1. ASSUME LoadConfig \/ Preflight PROVE RunInv'
  BY <1>1, QuietStep DEF LoadConfig, Preflight, Phases, Ending
<1>2. ASSUME CheckPorts \/ WaitHub \/ WaitMasterRegistered \/ WaitReady PROVE RunInv'
  <2>1. /\ Quiet /\ UNCHANGED result
        /\ \/ pc = "ports" /\ pc' = "fork" /\ UNCHANGED aborted
           \/ pc \in {"hub_wait", "master_wait"} /\ pc' = "ports" /\ UNCHANGED aborted
           \/ pc = "ready" /\ pc' = "settle" /\ UNCHANGED aborted
           \/ pc \in {"ports", "hub_wait", "master_wait", "ready"} /\ Abort
    BY <1>2 DEF CheckPorts, WaitHub, WaitMasterRegistered, WaitReady, WaitFor, NoAbort
  <2> QED BY <2>1, QuietStep DEF Abort, Phases, Running, Late, Stable
<1>3. ASSUME Fork PROVE RunInv'
  <2>1. /\ pc = "fork" /\ pc' = "forking" /\ started' = started + 1
        /\ child' = [child EXCEPT ![StartOrder[started + 1]] =
                                 IF guard = "pdeathsig" THEN "forked" ELSE "alive"]
        /\ UNCHANGED <<procs, stopped, aborted, result>>
    BY <1>3 DEF Fork, Goes, Starting
  <2>2. /\ started < Len(StartOrder) /\ started \in Nat /\ Len(StartOrder) \in Nat
        /\ \A i \in 1..Len(StartOrder) : i > started' => i > started /\ i # started + 1
        /\ started + 1 \in 1..Len(StartOrder)
    BY <1>0, <2>1 DEF RunInv, StartInv, Starts
  <2>3. StartInv'
    BY <2>1, <2>2 DEF StartInv, Phases, Gates, Starts, Late, Stable
  <2>4. RecordInv'
    BY <2>1, <2>2 DEF RunInv, RecordInv, Known, Starts, Late, Stable
  <2>5. ChildInv'
    BY <2>1, <2>2, StartOrderFacts DEF RunInv, ChildInv, Gates, Starts, Stable, ChildStates
  <2>6. PassInv'
    BY <2>1 DEF RunInv, PassInv, PassMeansStopped, Ending
  <2> QED BY <2>3, <2>4, <2>5, <2>6 DEF RunInv
<1>4. ASSUME Popen \/ Adopt PROVE RunInv'
  <2>1. /\ \/ pc = "forking" /\ pc' = "adopt"
           \/ pc = "adopt" /\ pc' = "record"
        /\ UNCHANGED <<started, child, procs, stopped, aborted, result>>
    BY <1>4 DEF Popen, Adopt, Goes
  <2> QED BY <2>1 DEF RunInv, StartInv, RecordInv, Known, ChildInv, PassInv, PassMeansStopped,
                       Phases, Gates, Starts, Stable, Late, Ending
<1>5. ASSUME Record PROVE RunInv'
  <2> DEFINE c == StartOrder[started]
  <2>1. /\ pc = "record" /\ procs' = procs \cup {c}
        /\ pc' = IF c = Hub THEN "hub_wait" ELSE IF c = Master THEN "master_wait"
                 ELSE IF started < Len(StartOrder) THEN "ports" ELSE "ready"
        /\ UNCHANGED <<started, child, stopped, aborted, result>>
    BY <1>5 DEF Record
  <2>2. /\ started \in 1..Len(StartOrder) /\ Len(StartOrder) \in Nat
        /\ 1..started = (1..started - 1) \cup {started}
    BY <1>0, <2>1 DEF RunInv, StartInv
  <2>3. pc' \in {"hub_wait", "master_wait", "ports"} => started < Len(StartOrder)
    BY <2>1, <2>2, StartOrderFacts
  <2>4. StartInv'
    BY <2>1, <2>2, <2>3 DEF StartInv, Phases, Gates, Starts, Late, Stable
  <2>5. RecordInv'
    BY <2>1, <2>2 DEF RunInv, RecordInv, Known, Starts, Late, Stable
  <2>6. ChildInv' /\ PassInv'
    BY <2>1 DEF RunInv, ChildInv, PassInv, PassMeansStopped, Gates, Starts, Stable, Ending
  <2> QED BY <2>4, <2>5, <2>6 DEF RunInv
<1>6. ASSUME SampleStep PROVE RunInv'
  <2>1. /\ Quiet /\ UNCHANGED result /\ pc' \in Phases /\ pc \notin {"shutdown", "classify"}
        /\ \/ pc \in Late /\ pc' \in Late /\ (pc' \in Stable => pc \in Stable)
           \/ pc' = "shutdown" /\ aborted' /\ pc \in Running
    BY <1>6, SampleFacts DEF Abort, Phases, Running, Late, Stable
  <2> QED BY <2>1, QuietStep
<1>7. ASSUME ProbeAll \/ ProbeNew \/ Judge PROVE RunInv'
  <2>1. /\ Quiet /\ UNCHANGED <<result, aborted>>
        /\ \/ pc = "probe" /\ pc' = "flush"
           \/ pc = "probe_new" /\ pc' = "flush_new"
           \/ pc = "judge" /\ pc' = "shutdown"
    BY <1>7 DEF ProbeAll, ProbeNew, Probe, Judge, Goes
  <2> QED BY <2>1, QuietStep DEF Phases, Late, Stable
<1>8. ASSUME StopMaster \/ \E c \in Members : ShutdownStop(c) PROVE RunInv'
  <2>1. PICK c : StopProcess(c)
    BY <1>8 DEF StopMaster, ShutdownStop
  <2>2. /\ UNCHANGED <<started, procs, aborted, result>>
        /\ \/ pc = "stop_master" /\ pc' = "failover"
           \/ pc = "shutdown" /\ pc' = pc
    BY <1>8 DEF StopMaster, ShutdownStop, Goes
  <2>3. StartInv' /\ RecordInv'
    BY <2>2 DEF RunInv, StartInv, RecordInv, Known, Phases, Gates, Starts, Stable, Late
  <2>4. ChildInv'
    BY <2>1, <2>2, StopEffect, StartOrderFacts DEF RunInv, ChildInv, Gates, Starts, Stable
  <2>5. PassInv'
    BY <2>2 DEF RunInv, PassInv, PassMeansStopped, Ending
  <2> QED BY <2>3, <2>4, <2>5 DEF RunInv
<1>9. ASSUME ShutdownDone PROVE RunInv'
  BY <1>9, QuietStep DEF ShutdownDone, Goes, Phases
<1>10. ASSUME Classify PROVE RunInv'
  <2>1. pc = "classify" /\ pc' = "write" /\ result' = FinalVerdict /\ Quiet /\ UNCHANGED aborted
    BY <1>10 DEF Classify, Goes
  <2>2. StartInv' /\ RecordInv' /\ ChildInv'
    BY <2>1 DEF RunInv, StartInv, RecordInv, ChildInv, Phases, Gates, Starts, Stable, Late
  <2>3. ASSUME result' = "PASS" PROVE \A c \in Members : child'[c] \in {"none", "exited"}
    <3>1. ~aborted /\ \A c \in procs : stopped[c] = "confirmed"
      BY <2>1, <2>3 DEF FinalVerdict, VerdictOf
    <3>2. Known(started)
      BY <2>1, <3>1 DEF RunInv, RecordInv
    <3>3. \A i \in 1..Len(StartOrder) : child[StartOrder[i]] \in {"none", "exited"}
      <4>1. ASSUME NEW i \in 1..Len(StartOrder), i > started
            PROVE  child[StartOrder[i]] \in {"none", "exited"}
        BY <4>1 DEF RunInv, ChildInv
      <4>2. ASSUME NEW i \in 1..Len(StartOrder), ~(i > started)
            PROVE  child[StartOrder[i]] \in {"none", "exited"}
        <5>1. i \in 1..started
          BY <1>0, <4>2
        <5> QED BY <3>1, <3>2, <5>1, StartOrderFacts DEF Known, RunInv, ChildInv
      <4> QED BY <4>1, <4>2
    <3> QED BY <2>1, <3>3, StartOrderFacts
  <2> QED BY <2>1, <2>2, <2>3 DEF RunInv, PassInv, PassMeansStopped, Ending
<1>11. ASSUME WriteEvidence \/ InterruptEnd \/ HardKill PROVE RunInv'
  <2>1. Quiet /\ pc' \in Ending /\ UNCHANGED aborted /\ result' \in {result, "none"}
    BY <1>11 DEF WriteEvidence, InterruptEnd, HardKill, DropUnwritten, Goes, Ending, obsVars
  <2> QED BY <2>1, QuietStep DEF Ending, Phases
<1>12. ASSUME Interrupt PROVE RunInv'
  BY <1>12, QuietStep DEF Interrupt, Abort, Phases, Running
<1>13. ASSUME ClusterStep \/ Ended \/ UNCHANGED vars PROVE RunInv'
  <2>1. Quiet /\ UNCHANGED <<pc, aborted, result>>
    BY <1>13 DEF ClusterStep, HubCatchesUp, WriteState, Register, Promote, Yield, worldUnchanged,
                 Ended, vars
  <2> QED BY <2>1, QuietStep DEF RunInv, StartInv
<1>14. ASSUME NEW c \in Members, SetDeathSignal(c) \/ ChildFails(c) \/ KillTakesEffect(c)
       PROVE  RunInv'
  <2>1. /\ UNCHANGED <<pc, started, procs, stopped, aborted, result>>
        /\ \E s \in ChildStates : child' = [child EXCEPT ![c] = s]
                                    /\ (s = "exited" \/ child[c] \in {"forked", "alive"})
    BY <1>14 DEF SetDeathSignal, ChildFails, KillTakesEffect, childUnchanged, ChildStates, Living
  <2>2. result = "PASS" => child[c] # "forked"
    BY DEF RunInv, PassInv, PassMeansStopped
  <2>3. child' \in [Members -> ChildStates]
    BY <2>1 DEF RunInv, ChildInv
  <2>4. \A d \in Members : \/ child'[d] = child[d]
                           \/ child[d] = "forked" /\ result # "PASS"
                           \/ child'[d] = "exited"
                           \/ child[d] = "alive"
    BY <2>1, <2>2 DEF RunInv, ChildInv
  <2> QED BY <2>1, <2>3, <2>4, LossStep
<1>15. ASSUME DeathSignals PROVE RunInv'
  <2>1. /\ UNCHANGED <<pc, started, procs, stopped, aborted, result>>
        /\ child' = [c \in Members |-> IF c \in Living \cap protected THEN "exited" ELSE child[c]]
    BY <1>15 DEF DeathSignals, childUnchanged
  <2>2. child' \in [Members -> ChildStates]
    BY <2>1 DEF RunInv, ChildInv, ChildStates
  <2>3. \A d \in Members : child'[d] = child[d] \/ child'[d] = "exited"
    BY <2>1
  <2> QED BY <2>1, <2>2, <2>3, LossStep
<1> QED BY <1>1, <1>2, <1>3, <1>4, <1>5, <1>6, <1>7, <1>8, <1>9, <1>10, <1>11, <1>12, <1>13,
           <1>14, <1>15 DEF Next, HarnessStep

(* "A run whose children are not confirmed stopped is never reported as    *)
(* PASS" (s1s5_harness.py:1846): with PASS every process of the run is     *)
(* dead, recorded or not, whatever failed and whoever interrupted.         *)
THEOREM PassIsClean == Spec => []PassMeansStopped
<1>1. Init => RunInv
  BY RunInit
<1>2. RunInv /\ [Next]_vars => RunInv'
  BY RunStep
<1>3. RunInv => PassMeansStopped
  BY DEF RunInv, PassInv
<1> QED BY <1>1, <1>2, <1>3, PTL DEF Spec

-----------------------------------------------------------------------------
(* S1 with a runtime that does nothing wrong.                              *)
Honest == scenario = "s1" /\ changes = 0

StableRoles == [n \in Nodes |-> StableRole(n)]

(* What the harness can then record: roles that are right, or no answer.   *)
HonestSamples ==
  {s \in [t : Nat, nodes : [Nodes -> {"none", "MASTER", "FOLLOWER"}],
          hub : {HubSilent, StableRoles}, real : {StableRoles}] :
     \A n \in Nodes : s.nodes[n] \in {"none", StableRole(n)}}

HonestProbes == [results : SUBSET {"REFUSED_CLOSED", "UNREACHABLE"}, logged : BOOLEAN]

HonestData ==
  [window : Seq(HonestSamples), start : Nat, end : Nat, qs : HonestProbes,
   reasons : SUBSET Inconclusive, post : {<<>>}, hub : {HubSilent}, qsNew : {NoProbe}]

LEMMA HonestReasons ==
  ASSUME NEW w \in Seq(HonestSamples), NEW qs \in HonestProbes, NEW start, NEW end
  PROVE  StableReasons(w, start, end, {}, qs) \subseteq Inconclusive
<1>2. QsReasons(qs) \subseteq Inconclusive
  <2>1. "ACCEPTED" \notin qs.results /\ "UNEXPECTED_RESPONSE" \notin qs.results
    BY DEF HonestProbes
  <2> DEFINE p == ~("ACCEPTED" \in qs.results) /\ ~("UNEXPECTED_RESPONSE" \in qs.results)
                    /\ ~(qs.results \subseteq {"REFUSED_CLOSED"})
             l == ~qs.logged
             why == {<<"distributed_sync_accepted", FALSE>>, <<"qs_unexpected_response", FALSE>>,
                     <<"qs_inconclusive", p>>, <<"qs_not_corroborated", l>>}
  <2>2. QsReasons(qs) = Reasons(why)
    <3>1. /\ ("ACCEPTED" \in qs.results) = FALSE
          /\ (~("ACCEPTED" \in qs.results) /\ "UNEXPECTED_RESPONSE" \in qs.results) = FALSE
      BY <2>1
    <3> QED BY <3>1, Zenon DEF QsReasons
  <2> HIDE DEF p, l
  <2>3. ASSUME NEW x \in why, x[2] PROVE x[1] \in Inconclusive
    <3>1. ASSUME NEW name, x = <<name, FALSE>> PROVE FALSE
      BY <2>3, <3>1
    <3>2. x = <<"qs_inconclusive", p>> \/ x = <<"qs_not_corroborated", l>>
      BY <3>1
    <3> QED BY <3>2 DEF Inconclusive
  <2> QED BY <2>2, <2>3 DEF Reasons
<1>3. \A i \in DOMAIN w :
        /\ Masters(w[i], Followers) = {} /\ ~(Cardinality(Masters(w[i], Nodes)) >= 2)
        /\ w[i].nodes[Master] \in {"MASTER", "none"} /\ ~HubDiverges(w[i])
  <2> TAKE i \in DOMAIN w
  <2>1. w[i] \in HonestSamples
    OBVIOUS
  <2>2. \A n \in Nodes : w[i].nodes[n] \in {"none", StableRole(n)}
    BY <2>1 DEF HonestSamples
  <2>3. Masters(w[i], Followers) = {}
    BY <2>2 DEF Masters, Followers, StableRole
  <2>4. ~(Cardinality(Masters(w[i], Nodes)) >= 2)
    <3>1. Masters(w[i], Nodes) \in {{}, {Master}}
      BY <2>2 DEF Masters, StableRole
    <3>2. Cardinality({}) = 0 /\ Cardinality({Master}) = 1
      BY FS_EmptySet, FS_Singleton
    <3>3. CASE Masters(w[i], Nodes) = {}
      BY <3>2, <3>3
    <3>4. CASE Masters(w[i], Nodes) = {Master}
      BY <3>2, <3>4
    <3> QED BY <3>1, <3>3, <3>4
  <2>5. w[i].nodes[Master] \in {"MASTER", "none"}
    BY <2>2, ClusterValid DEF StableRole
  <2>6. w[i].hub = HubSilent \/ w[i].hub = StableRoles
    BY <2>1 DEF HonestSamples
  <2>7. ~HubDiverges(w[i])
    BY <2>6 DEF HubDiverges, StableRoles
  <2> QED BY <2>3, <2>4, <2>5, <2>7
<1>4. CASE w = <<>>
  BY <1>4 DEF StableReasons, Inconclusive
<1>5. CASE w # <<>>
  <2> DEFINE h == HubUnobservable(w)
             g == \E n \in Nodes : ObservabilityGap(w, n, start, end)
             why == {<<"follower_promoted", FALSE>>, <<"multiple_masters", FALSE>>,
                     <<"master_role_lost", FALSE>>, <<"hub_role_divergence", FALSE>>,
                     <<"hub_unobservable", h>>, <<"log_promoted", FALSE>>,
                     <<"log_master_missing", FALSE>>, <<"log_written", FALSE>>,
                     <<"observability_gap", g>>}
  <2>1. /\ (\E i \in DOMAIN w : Masters(w[i], Followers) # {}) = FALSE
        /\ (\E i \in DOMAIN w : Cardinality(Masters(w[i], Nodes)) >= 2) = FALSE
        /\ (\E i \in DOMAIN w : w[i].nodes[Master] \notin {"MASTER", "none"}) = FALSE
        /\ (\E i \in DOMAIN w : HubDiverges(w[i])) = FALSE
        /\ ("promoted" \in {}) = FALSE /\ ("missing" \in {}) = FALSE /\ ("written" \in {}) = FALSE
    BY <1>3
  <2>2. StableReasons(w, start, end, {}, qs) = QsReasons(qs) \cup Reasons(why)
    BY <1>5, <2>1, Zenon DEF StableReasons
  <2> HIDE DEF h, g
  <2>3. ASSUME NEW x \in why, x[2] PROVE x[1] \in Inconclusive
    <3>1. ASSUME NEW name, x = <<name, FALSE>> PROVE FALSE
      BY <2>3, <3>1
    <3>2. x = <<"hub_unobservable", h>> \/ x = <<"observability_gap", g>>
      BY <3>1
    <3> QED BY <3>2 DEF Inconclusive
  <2>4. Reasons(why) \subseteq Inconclusive
    BY <2>3 DEF Reasons
  <2> QED BY <1>2, <2>2, <2>4
<1> QED BY <1>4, <1>5

(* The children that are recorded have been started and have asked for     *)
(* their death signal.                                                     *)
LivesInv ==
  /\ \A c \in procs : \E i \in 1..started : StartOrder[i] = c
  /\ pc = "forking" => child[StartOrder[started]] \in {"forked", "alive", "sick", "exited"}
  /\ pc \in {"adopt", "record"} => child[StartOrder[started]] \in {"alive", "sick", "exited"}
  /\ pc \notin Gone => \A c \in procs : child[c] \in {"alive", "sick", "exited"}

LEMMA LivesStep == ASSUME RunInv, LivesInv, [Next]_vars PROVE LivesInv'
<1> USE DEF childVars, endVars
<1>0. /\ Len(StartOrder) \in Nat /\ started \in 0..Len(StartOrder)
      /\ child \in [Members -> ChildStates]
      /\ stopped \in [Members -> {"no", "confirmed", "unconfirmed"}]
      /\ \A d \in Members : stopped[d] = "confirmed" => child[d] = "exited"
      /\ \A i \in 1..started : StartOrder[i] \in Members
      /\ pc \in {"forking", "adopt", "record"} => started \in 1..started
      /\ \A c \in procs : c \in Members
  <2>1. Len(StartOrder) \in Nat /\ started \in 0..Len(StartOrder)
    BY StartOrderFacts DEF RunInv, StartInv
  <2>2. \A i \in 1..started : i \in 1..Len(StartOrder)
    BY <2>1
  <2>3. pc \in {"forking", "adopt", "record"} => started \in 1..started
    BY <2>1 DEF RunInv, StartInv
  <2>4. \A i \in 1..started : StartOrder[i] \in Members
    BY <2>2, StartOrderFacts
  <2> QED BY <2>1, <2>3, <2>4 DEF RunInv, ChildInv, LivesInv
<1>1. ASSUME UNCHANGED <<started, child, procs>>,
             \/ pc' = pc
             \/ pc' \notin {"forking", "adopt", "record"} /\ (pc \in Gone => pc' \in Gone)
      PROVE  LivesInv'
  BY <1>1 DEF LivesInv
<1>2. ASSUME Fork PROVE LivesInv'
  <2>1. /\ pc = "fork" /\ pc' = "forking" /\ started' = started + 1 /\ UNCHANGED procs
        /\ child' = [child EXCEPT ![StartOrder[started + 1]] =
                                 IF guard = "pdeathsig" THEN "forked" ELSE "alive"]
    BY <1>2 DEF Fork, Goes, Starting
  <2>2. started + 1 \in 1..Len(StartOrder) /\ 1..started \subseteq 1..started'
    BY <1>0, <2>1 DEF RunInv, StartInv, Starts
  <2>3. \A c \in procs : c # StartOrder[started + 1]
    <3>1. \A i \in 1..started : i \in 1..Len(StartOrder) /\ i # started + 1
      BY <1>0
    <3> QED BY <2>2, <3>1, StartOrderFacts DEF LivesInv
  <2>4. StartOrder[started'] \in Members
    BY <2>1, <2>2, StartOrderFacts
  <2> QED BY <1>0, <2>1, <2>2, <2>3, <2>4 DEF LivesInv, Gone
<1>3. ASSUME Popen \/ Adopt PROVE LivesInv'
  BY <1>3 DEF Popen, Adopt, Goes, LivesInv, Gone
<1>4. ASSUME Record PROVE LivesInv'
  <2>1. /\ pc = "record" /\ procs' = procs \cup {StartOrder[started]}
        /\ pc' \in {"hub_wait", "master_wait", "ports", "ready"} /\ UNCHANGED <<started, child>>
    BY <1>4 DEF Record
  <2> QED BY <1>0, <2>1 DEF LivesInv, Gone
(* A child changes only as a living one may.                               *)
<1>5. ASSUME UNCHANGED <<started, procs>>,
             \/ pc' = pc
             \/ pc' \notin {"forking", "adopt", "record"} /\ (pc \in Gone => pc' \in Gone),
             \A d \in Members : \/ child'[d] \in {child[d], "exited"}
                                \/ /\ child[d] \in {"forked", "alive"}
                                   /\ child'[d] \in {"alive", "sick"}
                                \/ child[d] = "forked" /\ pc \in Gone
      PROVE  LivesInv'
  BY <1>0, <1>5 DEF LivesInv, Gone
<1>6. ASSUME StopMaster \/ \E c \in Members : ShutdownStop(c) PROVE LivesInv'
  <2>1. PICK c : StopProcess(c)
    BY <1>6 DEF StopMaster, ShutdownStop
  <2>2. UNCHANGED <<started, procs>> /\ (pc' = pc \/ (pc = "stop_master" /\ pc' = "failover"))
    BY <1>6 DEF StopMaster, ShutdownStop, Goes
  <2> QED BY <1>0, <1>5, <2>1, <2>2, StopEffect DEF Gone
<1>7. ASSUME NEW c \in Members, SetDeathSignal(c) \/ ChildFails(c) \/ KillTakesEffect(c)
      PROVE  LivesInv'
  <2>1. UNCHANGED <<pc, started, procs>>
    BY <1>7 DEF SetDeathSignal, ChildFails, KillTakesEffect, childUnchanged
  <2>2. \E x : /\ child' = [child EXCEPT ![c] = x]
               /\ \/ x = "exited"
                  \/ child[c] \in {"forked", "alive"} /\ x \in {"alive", "sick"}
                  \/ child[c] = "forked" /\ pc \in Gone
    BY <1>7 DEF SetDeathSignal, ChildFails, KillTakesEffect
  <2> QED BY <1>0, <1>5, <2>1, <2>2
<1>8. ASSUME DeathSignals PROVE LivesInv'
  BY <1>5, <1>8 DEF DeathSignals, childUnchanged
<1>9. ASSUME ClusterStep \/ Ended \/ UNCHANGED vars PROVE LivesInv'
  BY <1>1, <1>9 DEF ClusterStep, HubCatchesUp, WriteState, Register, Promote, Yield,
                    worldUnchanged, Ended, vars
<1>10. ASSUME \/ LoadConfig \/ Preflight \/ CheckPorts \/ WaitHub \/ WaitMasterRegistered
              \/ WaitReady \/ ProbeAll \/ ProbeNew \/ Judge \/ ShutdownDone \/ Classify
              \/ WriteEvidence \/ InterruptEnd \/ HardKill \/ Interrupt
       PROVE  LivesInv'
  <2>1. /\ UNCHANGED <<started, child, procs>>
        /\ pc' \notin {"forking", "adopt", "record"} /\ (pc \in Gone => pc' \in Gone)
    BY <1>10 DEF LoadConfig, Preflight, CheckPorts, WaitHub, WaitMasterRegistered, WaitReady,
                 WaitFor, ProbeAll, ProbeNew, Probe, Judge, ShutdownDone, Classify, WriteEvidence,
                 InterruptEnd, HardKill, Interrupt, Abort, Goes, Gone, Running, Phases
  <2> QED BY <1>1, <2>1
<1>11. ASSUME SampleStep PROVE LivesInv'
  <2>1. /\ UNCHANGED <<started, child, procs>>
        /\ pc' \notin {"forking", "adopt", "record"} /\ pc \notin Gone
    BY <1>11, SampleFacts DEF Quiet, Abort, Late, Stable, Running, Phases, Gone
  <2> QED BY <1>1, <2>1
<1> QED BY <1>2, <1>3, <1>4, <1>6, <1>7, <1>8, <1>9, <1>10, <1>11 DEF Next, HarnessStep

(* What an honest runtime leaves to record, whatever fails around it.      *)
Views == [Nodes -> {"MASTER", "FOLLOWER", "absent"}]

HonestState ==
  /\ role = StableRoles /\ log = {} /\ clock \in Nat
  /\ data \in HonestData /\ hubView \in Views /\ result # "FAIL"
  /\ pc \in {"settle", "window", "probe", "flush"} =>
       \A n \in Nodes : child[n] \in {"sick", "exited"} \/ hubView[n] = StableRole(n)

HonestInv ==
  /\ changes \in Nat
  /\ pc \in {"stop_master", "failover", "probe_new", "flush_new"} => scenario # "s1"
  /\ Honest => HonestState

(* What is not there before a run, or after its judgement.                 *)
LEMMA NothingRecorded == \A r \in SUBSET Inconclusive : [NoData EXCEPT !.reasons = r] \in HonestData
<1>1. NoData \in HonestData
  BY DEF NoData, HonestData, HonestProbes, NoProbe
<1> QED BY <1>1 DEF HonestData

LEMMA HonestInit == Init => HonestInv /\ LivesInv
<1>1. NoData \in HonestData
  BY DEF NoData, HonestData, HonestProbes, NoProbe
<1> QED BY <1>1, StartOrderFacts
        DEF Init, HonestInv, HonestState, LivesInv, StableRoles, Views

(* The answers of an honest runtime, all, some or none of them lost.       *)
LEMMA HonestSample ==
  ASSUME RunInv, LivesInv, HonestInv, Honest, pc \in SamplingPhases, ~Found(AllowedDead), NEW lost
  PROVE  pc \in {"settle", "window", "flush"} /\ Sample(lost) \in HonestSamples
<1>1. pc \in {"settle", "window", "flush"} /\ AllowedDead = {}
  BY DEF SamplingPhases, AllowedDead, HonestInv, Honest
<1>2. \A c \in Members : child[c] = "alive"
  <2>1. \A c \in Members : c \in procs
    <3>1. started = Len(StartOrder) /\ Known(started)
      BY <1>1 DEF RunInv, StartInv, RecordInv, Late, Stable
    <3> QED BY <3>1, StartOrderFacts DEF Known
  <2> QED BY <1>1, <2>1 DEF LivesInv, Found, Gone
<1>3. HonestState /\ Nodes \subseteq Members /\ Hub \in Members
  BY DEF HonestInv, Members
<1>4. hubView = StableRoles
  <2>1. \A n \in Nodes : hubView[n] = StableRole(n)
    BY <1>1, <1>2, <1>3 DEF HonestState
  <2> QED BY <1>3, <2>1 DEF HonestState, Views, StableRoles
<1> DEFINE answers == [n \in Nodes |-> IF n \in lost \/ child[n] # "alive" THEN "none" ELSE role[n]]
           listed == IF Hub \in lost \/ child[Hub] # "alive" THEN HubSilent ELSE hubView
<1>5. /\ answers \in [Nodes -> {"none", "MASTER", "FOLLOWER"}]
      /\ \A n \in Nodes : answers[n] \in {"none", StableRole(n)}
  BY <1>3 DEF HonestState, StableRoles, StableRole
<1>6. listed \in {HubSilent, StableRoles}
  BY <1>4
<1>7. Sample(lost) = [t |-> clock, nodes |-> answers, hub |-> listed, real |-> role]
  BY DEF Sample
<1> HIDE DEF answers, listed
<1> QED BY <1>1, <1>3, <1>5, <1>6, <1>7 DEF HonestSamples, HonestState

LEMMA HonestStep == ASSUME RunInv, LivesInv, HonestInv, [Next]_vars PROVE HonestInv'
<1> USE DEF childVars, endVars, obsVars, timeVars
<1>1. UNCHANGED scenario
  BY DEF Next, HarnessStep, LoadConfig, Preflight, CheckPorts, Fork, Popen, Adopt, Record, WaitHub,
         WaitMasterRegistered, WaitReady, WaitFor, SampleStep, SampleAborts, SampleSettle,
         SampleWindow, SampleFailover, SampleFlushNew, ProbeAll, ProbeNew, Probe, StopMaster,
         Judge, ShutdownDone, Classify, WriteEvidence, ShutdownStop, ClusterStep, HubCatchesUp,
         WriteState, Register, Promote, Yield, worldUnchanged, SetDeathSignal, ChildFails,
         KillTakesEffect, childUnchanged, Interrupt, InterruptEnd, HardKill, DeathSignals, Ended,
         vars, gateVars
(* A step that adds nothing to what is recorded, or throws it away.        *)
<1>2. ASSUME UNCHANGED <<role, hubView, changes>>, result' # "FAIL" \/ UNCHANGED result,
             UNCHANGED <<data, clock, log>> \/ Forget,
             pc' = pc => \A n \in Nodes : child[n] \in {"sick", "exited"}
                                            => child'[n] \in {"sick", "exited"},
             pc' = pc \/ pc' \notin {"settle", "window", "flush", "probe", "stop_master",
                                     "failover", "probe_new", "flush_new"}
      PROVE  HonestInv'
  <2>1. NoData \in HonestData
    BY DEF NoData, HonestData, HonestProbes, NoProbe
  <2>2. Honest' => Honest
    BY <1>1, <1>2 DEF Honest
  <2>3. Honest' => HonestState'
    BY <1>2, <2>1, <2>2 DEF HonestInv, HonestState, Forget
  <2> QED BY <1>1, <1>2, <2>3 DEF HonestInv
<1>0. Nodes \subseteq Members /\ child \in [Members -> ChildStates]
      /\ stopped \in [Members -> {"no", "confirmed", "unconfirmed"}]
      /\ \A d \in Members : stopped[d] = "confirmed" => child[d] = "exited"
      /\ changes \in Nat
  BY DEF Members, RunInv, ChildInv, HonestInv
<1>3. ASSUME \/ LoadConfig \/ Preflight \/ CheckPorts \/ Popen \/ Adopt \/ Record \/ WaitHub
             \/ WaitMasterRegistered \/ ShutdownDone \/ WriteEvidence \/ InterruptEnd \/ HardKill
             \/ Interrupt \/ SampleAborts
      PROVE  HonestInv'
  <2>1. /\ UNCHANGED <<role, hubView, changes, child>>
        /\ pc' = pc \/ pc' \notin {"settle", "window", "flush", "probe", "stop_master",
                                     "failover", "probe_new", "flush_new"}
    BY <1>3 DEF LoadConfig, Preflight, CheckPorts, Popen, Adopt, Record, WaitHub,
                WaitMasterRegistered, WaitFor, ShutdownDone, WriteEvidence, InterruptEnd, HardKill, Interrupt,
                SampleAborts, Abort, Goes, worldVars, boundVars
  <2>2. UNCHANGED <<data, clock, log>> \/ Forget
    BY <1>3 DEF LoadConfig, Preflight, CheckPorts, Popen, Adopt, Record, WaitHub,
                WaitMasterRegistered, WaitFor, ShutdownDone, WriteEvidence, InterruptEnd, HardKill, Interrupt,
                SampleAborts, Abort, NoAbort, DropUnwritten
  <2>3. result' # "FAIL" \/ UNCHANGED result
    BY <1>3 DEF LoadConfig, Preflight, CheckPorts, Popen, Adopt, Record, WaitHub,
                WaitMasterRegistered, WaitFor, ShutdownDone, WriteEvidence, InterruptEnd, HardKill, Interrupt,
                SampleAborts, DropUnwritten
  <2> QED BY <1>2, <2>1, <2>2, <2>3
<1>4. ASSUME Fork PROVE HonestInv'
  BY <1>2, <1>4 DEF Fork, Goes, worldVars, boundVars
(* A step that costs a misbehaviour: nothing is claimed after it.          *)
<1>5. ASSUME changes' = changes + 1,
             pc' = pc \/ pc' \notin {"stop_master", "failover", "probe_new", "flush_new"}
      PROVE  HonestInv'
  <2>1. changes' \in Nat /\ changes' # 0
    <3>1. changes \in Nat
      BY DEF HonestInv
    <3> QED BY <1>5, <3>1
  <2> QED BY <1>1, <1>5, <2>1 DEF HonestInv, Honest
(* In S1 a step of a phase that only S5 has does not happen.               *)
<1>6. ASSUME scenario # "s1", UNCHANGED changes PROVE HonestInv'
  BY <1>1, <1>6 DEF HonestInv, Honest
<1>7. ASSUME WaitReady PROVE HonestInv'
  <2>1. /\ UNCHANGED <<role, hubView, changes, child, result>>
        /\ \/ pc' = "shutdown" /\ Forget
           \/ pc' = "settle" /\ Ready /\ UNCHANGED <<data, clock, log>>
    BY <1>7 DEF WaitReady, WaitFor, Abort, NoAbort, worldVars
  <2>2. CASE pc' = "shutdown" /\ Forget
    BY <1>2, <2>1, <2>2
  <2>3. CASE pc' = "settle" /\ Ready /\ UNCHANGED <<data, clock, log>>
    <3>1. \A n \in Nodes : hubView[n] = StableRole(n)
      BY <2>3 DEF Ready
    <3>2. Honest' => Honest
      BY <1>1, <2>1 DEF Honest
    <3>3. Honest' => HonestState'
      BY <2>1, <2>3, <3>1, <3>2 DEF HonestInv, HonestState
    <3> QED BY <1>0, <2>1, <2>3, <3>3 DEF HonestInv
  <2> QED BY <2>1, <2>2, <2>3
<1>8. ASSUME NEW lost, Cardinality(lost) \in Nat, pc \in SamplingPhases,
             \/ SampleSettle(lost) \/ SampleWindow(lost)
             \/ SampleFailover(lost) \/ SampleFlushNew(lost)
      PROVE  HonestInv'
  <2>1. /\ ~Found(AllowedDead) /\ TimePasses(lost)
        /\ UNCHANGED <<role, hubView, log, changes, child, result>>
    BY <1>8 DEF SampleSettle, SampleWindow, SampleFailover, SampleFlushNew, Observe, worldVars
  <2>2. CASE scenario # "s1"
    BY <1>6, <2>1, <2>2
  <2>3. CASE scenario = "s1" /\ changes # 0
    <3>1. ~Honest'
      BY <1>1, <2>1, <2>3 DEF Honest
    <3>2. pc' \notin {"stop_master", "failover", "probe_new", "flush_new"}
      BY <1>8, <2>3 DEF SampleSettle, SampleWindow, SampleFailover, SampleFlushNew, SampleFor,
                        HonestInv
    <3> QED BY <1>0, <2>1, <3>1, <3>2 DEF HonestInv
  <2>4. CASE Honest
    <3>1. /\ pc \in {"settle", "window", "flush"} /\ Sample(lost) \in HonestSamples
          /\ HonestState
      BY <1>8, <2>1, <2>4, HonestSample DEF HonestInv
    <3>2. clock' \in Nat
      <4>1. clock \in Nat
        BY <3>1 DEF HonestState
      <4>2. PICK d \in 1..(1 + Cardinality(lost)) : clock' = clock + d
        BY <2>1 DEF TimePasses
      <4> QED BY <1>8, <4>1, <4>2
    <3>3. /\ pc' \in {"settle", "window", "probe", "flush", "judge"}
          /\ \/ data' = [data EXCEPT !.start = clock']
             \/ data' = [data EXCEPT !.window = Append(@, Sample(lost)), !.end = clock']
      BY <1>8, <2>4, <3>1 DEF SampleSettle, SampleWindow, SampleFailover, SampleFlushNew,
                              SampleFor, Honest
    <3>4. data' \in HonestData
      <4>1. data \in HonestData
        BY <3>1 DEF HonestState
      <4>2. Append(data.window, Sample(lost)) \in Seq(HonestSamples)
        BY <3>1, <4>1 DEF HonestData
      <4>3. CASE data' = [data EXCEPT !.start = clock']
        BY <3>2, <4>1, <4>3 DEF HonestData
      <4>4. CASE data' = [data EXCEPT !.window = Append(@, Sample(lost)), !.end = clock']
        BY <3>2, <4>1, <4>2, <4>4 DEF HonestData
      <4> QED BY <3>3, <4>3, <4>4
    <3>5. HonestState'
      BY <2>1, <3>1, <3>2, <3>4 DEF HonestState
    <3> QED BY <1>0, <2>1, <3>3, <3>5 DEF HonestInv
  <2> QED BY <1>0, <2>2, <2>3, <2>4 DEF Honest
<1>9. ASSUME SampleStep PROVE HonestInv'
  <2>1. CASE SampleAborts
    BY <1>3, <2>1
  <2>2. ASSUME NEW k \in 0..(MaxFaults - faults), NEW lost \in kSubset(k, Answering),
               pc \in SamplingPhases,
               \/ SampleSettle(lost) \/ SampleWindow(lost)
               \/ SampleFailover(lost) \/ SampleFlushNew(lost)
        PROVE  HonestInv'
    <3>1. Cardinality(lost) = k /\ k \in Nat
      BY <2>2 DEF kSubset
    <3> QED BY <1>8, <2>2, <3>1
  <2> QED BY <1>9, <2>1, <2>2 DEF SampleStep
<1>10. ASSUME ProbeAll PROVE HonestInv'
  <2>1. /\ pc = "probe" /\ pc' = "flush" /\ UNCHANGED <<role, hubView, log, clock, child, result>>
        /\ \/ changes' = changes + 1
           \/ UNCHANGED changes /\ \E qs \in HonestProbes : data' = [data EXCEPT !["qs"] = qs]
    BY <1>10, Zenon DEF ProbeAll, Probe, Goes, worldVars, HonestProbes
  <2>2. CASE changes' = changes + 1
    BY <1>5, <2>1, <2>2
  <2>3. ASSUME UNCHANGED changes, NEW qs \in HonestProbes, data' = [data EXCEPT !["qs"] = qs]
        PROVE  HonestInv'
    <3>1. Honest' => Honest
      BY <1>1, <2>3 DEF Honest
    <3>2. data \in HonestData => data' \in HonestData
      BY <2>3 DEF HonestData
    <3>3. Honest' => HonestState'
      BY <2>1, <3>1, <3>2 DEF HonestInv, HonestState
    <3> QED BY <1>0, <2>1, <2>3, <3>3 DEF HonestInv
  <2> QED BY <2>1, <2>2, <2>3
<1>11. ASSUME ProbeNew \/ StopMaster PROVE HonestInv'
  <2>1. scenario # "s1" /\ (UNCHANGED changes \/ changes' = changes + 1)
    BY <1>11 DEF ProbeNew, Probe, StopMaster, Goes, HonestInv
  <2>2. changes' \in Nat
    <3>1. changes \in Nat
      BY DEF HonestInv
    <3> QED BY <2>1, <3>1
  <2> QED BY <1>1, <2>1, <2>2 DEF HonestInv, Honest
<1>12. ASSUME Judge PROVE HonestInv'
  <2>1. /\ pc = "judge" /\ pc' = "shutdown" /\ UNCHANGED <<role, hubView, changes, result>>
        /\ clock' = 0 /\ log' = {} /\ data' = [NoData EXCEPT !.reasons = ScenarioReasons]
    BY <1>12 DEF Judge, Goes, worldVars, boundVars
  <2>2. Honest' => Honest
    BY <1>1, <2>1 DEF Honest
  <2>3. ASSUME Honest PROVE ScenarioReasons \in SUBSET Inconclusive
    <3>1. data \in HonestData /\ log = {}
      BY <2>3 DEF HonestInv, HonestState
    <3>2. LogEvents(log, data.start, data.end) = {}
      BY <3>1 DEF LogEvents
    <3>3. data.window \in Seq(HonestSamples) /\ data.qs \in HonestProbes
      BY <3>1 DEF HonestData
    <3>4. StableReasons(data.window, data.start, data.end, {}, data.qs) \subseteq Inconclusive
      BY <3>3, HonestReasons
    <3> QED BY <2>3, <3>2, <3>4 DEF ScenarioReasons, StableOf, Honest
  <2>4. Honest' => HonestState'
    BY <2>1, <2>2, <2>3, NothingRecorded DEF HonestInv, HonestState
  <2> QED BY <1>0, <2>1, <2>4 DEF HonestInv
<1>13. ASSUME Classify PROVE HonestInv'
  <2>1. /\ pc' = "write" /\ UNCHANGED <<role, hubView, changes, data, clock, log>>
        /\ result' = FinalVerdict
    BY <1>13 DEF Classify, Goes, worldVars, boundVars
  <2>2. Honest' => Honest
    BY <1>1, <2>1 DEF Honest
  <2>3. ASSUME Honest PROVE FinalVerdict # "FAIL"
    <3>1. data.reasons \subseteq Inconclusive
      BY <2>3 DEF HonestInv, HonestState, HonestData
    <3> QED BY <3>1 DEF FinalVerdict, VerdictOf, VerdictFor
  <2>4. Honest' => HonestState'
    BY <2>1, <2>2, <2>3 DEF HonestInv, HonestState
  <2> QED BY <1>0, <2>1, <2>4 DEF HonestInv
(* A child that was not alive does not come back.                          *)
<1>14. ASSUME NEW c \in Members, ShutdownStop(c) PROVE HonestInv'
  <2>1. UNCHANGED <<role, hubView, changes, data, clock, log, result, pc>> /\ pc = "shutdown"
    BY <1>14 DEF ShutdownStop, worldVars
  <2>2. Honest' => HonestState'
    BY <1>1, <2>1 DEF HonestInv, HonestState, Honest
  <2> QED BY <1>0, <1>1, <2>1, <2>2 DEF HonestInv
<1>15. ASSUME NEW c \in Members, SetDeathSignal(c) \/ ChildFails(c) \/ KillTakesEffect(c)
       PROVE  HonestInv'
  <2>1. UNCHANGED <<role, hubView, changes, data, clock, log, result, pc>>
    BY <1>15 DEF SetDeathSignal, ChildFails, KillTakesEffect, childUnchanged, worldVars, boundVars
  <2>2. \E x : /\ child' = [child EXCEPT ![c] = x]
               /\ x \in {"sick", "exited"} \/ child[c] = "forked"
    BY <1>15 DEF SetDeathSignal, ChildFails, KillTakesEffect
  <2>3. \A n \in Nodes : child[n] \in {"sick", "exited"} => child'[n] \in {"sick", "exited"}
    BY <1>0, <2>2
  <2> QED BY <1>2, <2>1, <2>3
<1>16. ASSUME DeathSignals PROVE HonestInv'
  <2>1. /\ UNCHANGED <<role, hubView, changes, data, clock, log, result, pc>>
        /\ child' = [c \in Members |-> IF c \in Living \cap protected THEN "exited" ELSE child[c]]
    BY <1>16 DEF DeathSignals, childUnchanged, worldVars, boundVars
  <2>2. \A n \in Nodes : child[n] \in {"sick", "exited"} => child'[n] \in {"sick", "exited"}
    BY <1>0, <2>1
  <2> QED BY <1>2, <2>1, <2>2
<1>17. ASSUME NEW n \in Nodes, Register(n) PROVE HonestInv'
  <2>1. /\ UNCHANGED <<role, changes, data, clock, log, result, pc, child>>
        /\ hubView' = [hubView EXCEPT ![n] = role[n]]
    BY <1>17 DEF Register, worldUnchanged
  <2>2. Honest' => Honest
    BY <1>1, <2>1 DEF Honest
  <2>3. ASSUME HonestState PROVE HonestState'
    BY <2>1, <2>3 DEF HonestState, Views, StableRoles, StableRole
  <2> QED BY <1>0, <1>1, <2>1, <2>2, <2>3 DEF HonestInv
<1>18. ASSUME HubCatchesUp PROVE HonestInv'
  <2>1. /\ UNCHANGED <<role, changes, data, clock, log, result, pc, child>>
        /\ hubView' = [n \in Nodes |-> IF child[n] = "alive" THEN role[n] ELSE "absent"]
        /\ pc \in {"window", "probe", "flush", "failover", "probe_new", "flush_new"}
    BY <1>18 DEF HubCatchesUp, worldUnchanged
  <2>2. Honest' => Honest
    BY <1>1, <2>1 DEF Honest
  <2>3. \A n \in Nodes : child[n] \in {"alive", "sick", "exited"}
    <3>1. started = Len(StartOrder) /\ Known(started)
      BY <2>1 DEF RunInv, StartInv, RecordInv, Late, Stable
    <3>2. \A c \in Members : c \in procs
      BY <3>1, StartOrderFacts DEF Known
    <3> QED BY <1>0, <2>1, <3>2 DEF LivesInv, Gone
  <2>4. ASSUME HonestState PROVE HonestState'
    BY <2>1, <2>3, <2>4 DEF HonestState, Views, StableRoles, StableRole
  <2> QED BY <1>0, <1>1, <2>1, <2>2, <2>4 DEF HonestInv
<1>19. ASSUME NEW n \in Nodes, Promote(n) \/ Yield(n) PROVE HonestInv'
  <2>1. UNCHANGED <<data, clock, result, pc, child, hubView>>
    BY <1>19 DEF Promote, Yield, worldUnchanged
  <2>2. CASE changes' = changes + 1
    BY <1>5, <2>1, <2>2
  <2>3. CASE UNCHANGED changes
    <3>1. CASE Honest
      <4>1. role = StableRoles
        BY <3>1 DEF HonestInv, HonestState
      <4>2. CASE Promote(n) /\ pc \in {"failover", "flush_new"}
        BY <3>1, <4>2 DEF HonestInv, Honest
      <4>3. CASE Yield(n) /\ n # Master
        BY <4>1, <4>3 DEF Yield, StableRoles, StableRole
      <4>4. ~(changes' = changes + 1)
        BY <2>3 DEF HonestInv
      <4> QED
        BY <1>19, <4>2, <4>3, <4>4 DEF Promote, Yield, Misbehave
    <3>2. CASE ~Honest
      BY <1>0, <1>1, <2>1, <2>3, <3>2 DEF HonestInv, Honest
    <3> QED BY <3>1, <3>2
  <2> QED BY <1>19, <2>2, <2>3 DEF Promote, Yield, Misbehave
<1>20. ASSUME WriteState PROVE HonestInv'
  BY <1>5, <1>20 DEF WriteState, Misbehave, worldUnchanged
<1>21. ASSUME Ended \/ UNCHANGED vars PROVE HonestInv'
  BY <1>2, <1>21 DEF Ended, vars, worldVars, boundVars
<1> QED
  BY <1>3, <1>4, <1>7, <1>9, <1>10, <1>11, <1>12, <1>13, <1>14, <1>15, <1>16, <1>17, <1>18, <1>19,
     <1>20, <1>21
     DEF Next, HarnessStep, ClusterStep

(* For every cluster, window and number of faults: with any answers lost,  *)
(* any child dead, any interrupt and any stop unconfirmed, S1 says FAIL    *)
(* only of a runtime that did something it must not (s1s5_harness.py:966). *)
THEOREM FailIsReal == Spec => []StableFailIsReal
<1>1. Init => RunInv /\ LivesInv /\ HonestInv
  BY RunInit, HonestInit
<1>2. RunInv /\ LivesInv /\ HonestInv /\ [Next]_vars => (RunInv /\ LivesInv /\ HonestInv)'
  <2> SUFFICES ASSUME RunInv, LivesInv, HonestInv, [Next]_vars
               PROVE  RunInv' /\ LivesInv' /\ HonestInv'
    OBVIOUS
  <2> QED BY RunStep, LivesStep, HonestStep
<1>3. HonestInv => StableFailIsReal
  BY DEF HonestInv, HonestState, Honest, StableFailIsReal
<1> QED BY <1>1, <1>2, <1>3, PTL DEF Spec

-----------------------------------------------------------------------------
(* What is recorded of a run, with any runtime.                            *)
RoleNames == {"MASTER", "FOLLOWER"}

RealSamples ==
  {s \in [t : Nat, nodes : [Nodes -> RoleNames \cup {"none"}], hub : {HubSilent} \cup Views,
          real : [Nodes -> RoleNames]] :
     \A n \in Nodes : s.nodes[n] \in {"none", s.real[n]}}

RealPosts ==
  {s \in [t : Nat, nodes : [Nodes -> RoleNames \cup {"none"}], real : [Nodes -> RoleNames]] :
     \A n \in Nodes : s.nodes[n] \in {"none", s.real[n]}}

InOrder(samples) == \A i, j \in DOMAIN samples : i < j => samples[i].t < samples[j].t

DataTypes ==
  /\ data = [window |-> data.window, start |-> data.start, end |-> data.end, qs |-> data.qs,
             reasons |-> data.reasons, post |-> data.post, hub |-> data.hub,
             qsNew |-> data.qsNew]
  /\ data.window \in Seq(RealSamples) /\ data.post \in Seq(RealPosts)
  /\ data.start \in Nat /\ data.end \in Nat /\ clock \in Nat /\ conv \in Nat \cup {Never}

WorldTypes == role \in [Nodes -> RoleNames] /\ hubView \in Views

(* The samples are in the order of their times, between start and end.     *)
OrderInv ==
  /\ InOrder(data.window) /\ InOrder(data.post)
  /\ data.start <= clock /\ data.end <= clock
  /\ \A i \in DOMAIN data.window : data.start <= data.window[i].t /\ data.window[i].t < data.end
  /\ \A i \in DOMAIN data.post : data.post[i].t < clock

(* What has not been recorded yet.                                         *)
BeforeWindow == Gates \cup Starts \cup {"ready", "settle"}
BeforeStop == Gates \cup Starts \cup Stable

UnrecordedInv ==
  /\ pc \in BeforeWindow => data.window = <<>>
  /\ pc \in BeforeStop => data.post = <<>> /\ conv = Never

(* t_conv is the first of the good samples at the end.                     *)
ConvInv ==
  pc \in {"failover", "probe_new"} /\ conv # Never =>
    \E i \in DOMAIN data.post :
      /\ data.post[i].t = conv
      /\ \A j \in DOMAIN data.post : i <= j => Good(data.post[j])

DataInv == DataTypes /\ WorldTypes /\ OrderInv /\ UnrecordedInv /\ ConvInv

LEMMA NoDataFacts ==
  ASSUME NEW r, data' = [NoData EXCEPT !.reasons = r] \/ data' = NoData,
         clock' = 0, conv' = Never, WorldTypes'
  PROVE  DataInv'
<1>1. data' = [NoData EXCEPT !.reasons = data'.reasons]
  BY DEF NoData
<1> DEFINE x == data'.reasons
<1> HIDE DEF x
<1>2. data' = [window |-> <<>>, start |-> 0, end |-> 0, qs |-> NoProbe, reasons |-> x,
               post |-> <<>>, hub |-> HubSilent, qsNew |-> NoProbe]
  BY <1>1 DEF NoData, x
<1>3. data'.window = <<>> /\ data'.post = <<>> /\ data'.start = 0 /\ data'.end = 0
  BY <1>2
<1>4. /\ <<>> \in Seq(RealSamples) /\ <<>> \in Seq(RealPosts) /\ DOMAIN <<>> = {}
  OBVIOUS
<1>5. DataTypes'
  BY <1>2, <1>3, <1>4 DEF DataTypes
<1>6. OrderInv' /\ UnrecordedInv' /\ ConvInv'
  BY <1>3, <1>4 DEF OrderInv, InOrder, UnrecordedInv, ConvInv
<1> QED BY <1>5, <1>6 DEF DataInv

(* A step that records nothing.                                            *)
Stays(old, new) ==
  /\ new \in BeforeWindow => old \in BeforeWindow
  /\ new \in BeforeStop => old \in BeforeStop
  /\ new \in {"failover", "probe_new"} => new = old

LEMMA KeepsData ==
  ASSUME DataInv, WorldTypes', UNCHANGED <<conv, clock>>, Stays(pc, pc'),
         \/ data' = data
         \/ \E qs : data' = [data EXCEPT !.qs = qs] \/ data' = [data EXCEPT !.qsNew = qs]
  PROVE  DataInv'
<1>1. /\ data'.window = data.window /\ data'.post = data.post /\ data'.start = data.start
      /\ data'.end = data.end
  BY DEF DataInv, DataTypes
<1>2. DataTypes'
  <2>1. CASE data' = data
    BY <2>1 DEF DataInv, DataTypes
  <2>2. ASSUME NEW qs, data' = [data EXCEPT !.qs = qs] PROVE DataTypes'
    BY <1>1, <2>2 DEF DataInv, DataTypes
  <2>3. ASSUME NEW qs, data' = [data EXCEPT !.qsNew = qs] PROVE DataTypes'
    BY <1>1, <2>3 DEF DataInv, DataTypes
  <2> QED BY <2>1, <2>2, <2>3
<1>3. OrderInv'
  BY <1>1 DEF DataInv, OrderInv
<1>4. UnrecordedInv' /\ ConvInv'
  BY <1>1 DEF DataInv, UnrecordedInv, ConvInv, Stays
<1> QED BY <1>2, <1>3, <1>4 DEF DataInv

(* What a sample holds is what there was, or no answer.                    *)
LEMMA SampleIsReal ==
  ASSUME DataInv, NEW lost
  PROVE  /\ Sample(lost) \in RealSamples /\ Sample(lost).t = clock
         /\ [t |-> Sample(lost).t, nodes |-> Sample(lost).nodes, real |-> Sample(lost).real]
              \in RealPosts
<1> DEFINE answers == [n \in Nodes |-> IF n \in lost \/ child[n] # "alive" THEN "none" ELSE role[n]]
           listed == IF Hub \in lost \/ child[Hub] # "alive" THEN HubSilent ELSE hubView
<1>1. /\ answers \in [Nodes -> RoleNames \cup {"none"}]
      /\ \A n \in Nodes : answers[n] \in {"none", role[n]}
  BY DEF DataInv, WorldTypes
<1>2. listed \in {HubSilent} \cup Views /\ role \in [Nodes -> RoleNames] /\ clock \in Nat
  BY DEF DataInv, WorldTypes, DataTypes
<1>3. Sample(lost) = [t |-> clock, nodes |-> answers, hub |-> listed, real |-> role]
  BY DEF Sample
<1> HIDE DEF answers, listed
<1> QED BY <1>1, <1>2, <1>3 DEF RealSamples, RealPosts

LEMMA AppendInOrder ==
  ASSUME NEW S, NEW w \in Seq(S), NEW x, InOrder(w), \A i \in DOMAIN w : w[i].t < x.t
  PROVE  /\ InOrder(Append(w, x)) /\ DOMAIN Append(w, x) = 1 .. (Len(w) + 1)
         /\ \A i \in DOMAIN w : Append(w, x)[i] = w[i]
         /\ Append(w, x)[Len(w) + 1] = x /\ DOMAIN w = 1 .. Len(w) /\ Len(w) \in Nat
<1> DEFINE v == Append(w, x)
<1>1. /\ DOMAIN v = 1 .. (Len(w) + 1) /\ v[Len(w) + 1] = x /\ DOMAIN w = 1 .. Len(w)
      /\ \A i \in DOMAIN w : v[i] = w[i]
      /\ Len(w) \in Nat
  OBVIOUS
<1> HIDE DEF v
<1>2. ASSUME NEW i \in DOMAIN v, NEW j \in DOMAIN v, i < j PROVE v[i].t < v[j].t
  <2>1. i \in DOMAIN w /\ (j \in DOMAIN w \/ j = Len(w) + 1)
    BY <1>1, <1>2
  <2> QED BY <1>1, <1>2, <2>1 DEF InOrder
<1>3. InOrder(v)
  BY <1>2 DEF InOrder
<1> QED BY <1>1, <1>3 DEF v

LEMMA WindowGrows ==
  ASSUME DataInv, NEW lost, Cardinality(lost) \in Nat, SampleSettle(lost) \/ SampleWindow(lost)
  PROVE  DataInv'
<1> USE DEF timeVars, worldVars
<1>1. /\ clock' \in Nat /\ clock < clock'
      /\ UNCHANGED <<role, hubView, conv>> /\ WorldTypes'
  <2>1. TimePasses(lost) /\ UNCHANGED <<role, hubView, conv>>
    BY DEF SampleSettle, SampleWindow, Observe
  <2>2. PICK d \in 1..(1 + Cardinality(lost)) : clock' = clock + d
    BY <2>1 DEF TimePasses
  <2> QED BY <2>1, <2>2 DEF DataInv, DataTypes, WorldTypes
<1>2. CASE SampleSettle(lost)
  <2>1. /\ pc = "settle" /\ pc' \in {"settle", "window"} /\ data' = [data EXCEPT !.start = clock']
    BY <1>2 DEF SampleSettle, SampleFor
  <2>2. /\ data'.window = <<>> /\ data.window = <<>> /\ data'.post = data.post
        /\ data'.start = clock' /\ data'.end = data.end
    BY <2>1 DEF DataInv, DataTypes, UnrecordedInv, BeforeWindow
  <2>3. DataTypes'
    BY <1>1, <2>1, <2>2 DEF DataInv, DataTypes
  <2>4. OrderInv'
    BY <1>1, <2>2 DEF DataInv, DataTypes, OrderInv, RealPosts
  <2>5. UnrecordedInv' /\ ConvInv'
    BY <1>1, <2>1, <2>2 DEF DataInv, UnrecordedInv, ConvInv, BeforeWindow, BeforeStop, Stable
  <2> QED BY <1>1, <2>3, <2>4, <2>5 DEF DataInv
<1>3. CASE SampleWindow(lost)
  <2> DEFINE s == Sample(lost)
  <2>1. /\ pc \in {"window", "flush"}
        /\ pc' \in {"window", "flush", "probe", "judge", "stop_master"}
        /\ data' = [data EXCEPT !.window = Append(data.window, s), !.end = clock']
    BY <1>3 DEF SampleWindow, SampleFor
  <2>2. s \in RealSamples /\ s.t = clock
    BY SampleIsReal
  <2> HIDE DEF s
  <2>3. /\ data'.window = Append(data.window, s) /\ data'.post = data.post
        /\ data'.start = data.start /\ data'.end = clock'
    BY <2>1 DEF DataInv, DataTypes
  <2>4. DataTypes'
    <3>1. data'.window \in Seq(RealSamples)
      BY <2>2, <2>3 DEF DataInv, DataTypes
    <3>2. data' = [data' EXCEPT !.start = data'.start] /\ DataTypes
      BY <2>1 DEF DataInv, DataTypes
    <3>3. data' = [window |-> data'.window, start |-> data'.start, end |-> data'.end,
                   qs |-> data'.qs, reasons |-> data'.reasons, post |-> data'.post,
                   hub |-> data'.hub, qsNew |-> data'.qsNew]
      BY <2>1, <3>2 DEF DataTypes
    <3> QED BY <1>1, <2>3, <3>1, <3>2, <3>3 DEF DataTypes
  <2>5. /\ data.window \in Seq(RealSamples) /\ InOrder(data.window)
        /\ \A i \in DOMAIN data.window : data.window[i].t < s.t
        /\ \A i \in DOMAIN data.window : data.window[i].t \in Nat
    <3>1. data.window \in Seq(RealSamples) /\ InOrder(data.window)
      BY DEF DataInv, DataTypes, OrderInv
    <3>2. \A i \in DOMAIN data.window : data.window[i].t \in Nat
      BY <3>1 DEF RealSamples
    <3> QED BY <2>2, <3>1, <3>2 DEF DataInv, DataTypes, OrderInv
  <2>6. InOrder(data'.window)
    BY <2>3, <2>5, AppendInOrder
  <2>7. \A i \in DOMAIN data'.window :
          data'.start <= data'.window[i].t /\ data'.window[i].t < data'.end
    <3> SUFFICES ASSUME NEW i \in DOMAIN data'.window
                 PROVE  data'.start <= data'.window[i].t /\ data'.window[i].t < data'.end
      OBVIOUS
    <3>1. i \in DOMAIN data.window \/ i = Len(data.window) + 1
      BY <2>3, <2>5, AppendInOrder
    <3>2. CASE i \in DOMAIN data.window
      <4>1. data'.window[i] = data.window[i]
        BY <2>3, <2>5, <3>2, AppendInOrder
      <4> QED BY <1>1, <2>3, <2>5, <3>2, <4>1 DEF DataInv, DataTypes, OrderInv
    <3>3. CASE i = Len(data.window) + 1
      <4>1. data'.window[i] = s
        BY <2>3, <2>5, <3>3, AppendInOrder
      <4> QED BY <1>1, <2>2, <2>3, <4>1 DEF DataInv, DataTypes, OrderInv
    <3> QED BY <3>1, <3>2, <3>3
  <2>8. OrderInv'
    <3>1. \A i \in DOMAIN data.post : data.post[i].t \in Nat
      BY DEF DataInv, DataTypes, RealPosts
    <3> QED BY <1>1, <2>3, <2>6, <2>7, <3>1 DEF DataInv, DataTypes, OrderInv
  <2>9. UnrecordedInv' /\ ConvInv'
    BY <1>1, <2>1, <2>3
       DEF DataInv, UnrecordedInv, ConvInv, BeforeWindow, BeforeStop, Stable, Gates, Starts
  <2> QED BY <1>1, <2>4, <2>8, <2>9 DEF DataInv
<1> QED BY <1>2, <1>3

LEMMA PostGrows ==
  ASSUME DataInv, NEW lost, Cardinality(lost) \in Nat, SampleFailover(lost) \/ SampleFlushNew(lost)
  PROVE  DataInv'
<1> USE DEF timeVars, worldVars
<1> DEFINE s == Sample(lost)
           x == [t |-> s.t, nodes |-> s.nodes, real |-> s.real]
<1>1. /\ clock' \in Nat /\ clock < clock' /\ UNCHANGED <<role, hubView>> /\ WorldTypes'
  <2>1. TimePasses(lost) /\ UNCHANGED <<role, hubView>>
    BY DEF SampleFailover, SampleFlushNew, Observe
  <2>2. PICK d \in 1..(1 + Cardinality(lost)) : clock' = clock + d
    BY <2>1 DEF TimePasses
  <2> QED BY <2>1, <2>2 DEF DataInv, DataTypes, WorldTypes
<1>2. /\ x \in RealPosts /\ x.t = clock /\ s.t = clock /\ (Good(x) <=> Good(s))
  <2>1. x \in RealPosts /\ s.t = clock
    BY SampleIsReal
  <2>2. x.t = s.t /\ x.nodes = s.nodes
    OBVIOUS
  <2> HIDE DEF x, s
  <2> QED BY <2>1, <2>2 DEF Good, FinalOk
<1>3. /\ \E h : data' = [data EXCEPT !.post = Append(data.post, x), !.hub = h]
      /\ \/ pc = "failover" /\ pc' \in {"failover", "probe_new", "judge"} /\ conv' = NextConv(s)
         \/ pc = "flush_new" /\ pc' \in {"flush_new", "judge"} /\ conv' = conv
  BY DEF SampleFailover, SampleFlushNew, SampleFor, AppendPost
<1> HIDE DEF s, x
<1>4. PICK h : data' = [data EXCEPT !.post = Append(data.post, x), !.hub = h]
  BY <1>3
<1>5. /\ data'.window = data.window /\ data'.post = Append(data.post, x)
      /\ data'.start = data.start /\ data'.end = data.end
  BY <1>4 DEF DataInv, DataTypes
<1>6. /\ data.post \in Seq(RealPosts) /\ InOrder(data.post)
      /\ \A i \in DOMAIN data.post : data.post[i].t < x.t /\ data.post[i].t \in Nat
  BY <1>2 DEF DataInv, DataTypes, OrderInv, RealPosts
<1>7. conv' \in Nat \cup {Never}
  BY <1>1, <1>2, <1>3 DEF DataInv, DataTypes, NextConv
<1>8. DataTypes'
  <2>1. data'.post \in Seq(RealPosts)
    BY <1>2, <1>5, <1>6
  <2>2. DataTypes
    BY DEF DataInv
  <2>3. data' = [window |-> data'.window, start |-> data'.start, end |-> data'.end,
                 qs |-> data'.qs, reasons |-> data'.reasons, post |-> data'.post,
                 hub |-> data'.hub, qsNew |-> data'.qsNew]
    BY <1>4, <2>2 DEF DataTypes
  <2> QED BY <1>1, <1>5, <1>7, <2>1, <2>2, <2>3 DEF DataTypes
<1>9. /\ DOMAIN data'.post = 1 .. (Len(data.post) + 1) /\ DOMAIN data.post = 1 .. Len(data.post)
      /\ data'.post[Len(data.post) + 1] = x /\ Len(data.post) \in Nat
      /\ \A i \in DOMAIN data.post : data'.post[i] = data.post[i]
      /\ InOrder(data'.post)
  BY <1>5, <1>6, AppendInOrder
<1>10. OrderInv'
  <2>1. \A i \in DOMAIN data'.post : data'.post[i].t < clock'
    <3> SUFFICES ASSUME NEW i \in DOMAIN data'.post PROVE data'.post[i].t < clock'
      OBVIOUS
    <3>1. i \in DOMAIN data.post \/ i = Len(data.post) + 1
      BY <1>9
    <3>2. clock \in Nat
      BY DEF DataInv, DataTypes
    <3> QED BY <1>1, <1>2, <1>6, <1>9, <3>1, <3>2
  <2> QED BY <1>1, <1>5, <1>9, <2>1 DEF DataInv, DataTypes, OrderInv
<1>11. UnrecordedInv'
  BY <1>3 DEF UnrecordedInv, BeforeWindow, BeforeStop, Gates, Starts, Stable
<1>12. ConvInv'
  <2> SUFFICES ASSUME pc' \in {"failover", "probe_new"}, conv' # Never
               PROVE  \E i \in DOMAIN data'.post :
                        /\ data'.post[i].t = conv'
                        /\ \A j \in DOMAIN data'.post : i <= j => Good(data'.post[j])
    BY DEF ConvInv, Good, FinalOk
  <2>1. pc = "failover" /\ Good(x) /\ conv' = IF conv # Never THEN conv ELSE x.t
    BY <1>2, <1>3 DEF NextConv
  <2>2. CASE conv = Never
    <3>1. Len(data.post) + 1 \in DOMAIN data'.post
      BY <1>9
    <3>2. \A j \in DOMAIN data'.post : Len(data.post) + 1 <= j => data'.post[j] = x
      BY <1>9
    <3> QED BY <1>9, <2>1, <2>2, <3>1, <3>2
  <2>3. CASE conv # Never
    <3>1. PICK i \in DOMAIN data.post :
            /\ data.post[i].t = conv
            /\ \A j \in DOMAIN data.post : i <= j => Good(data.post[j])
      BY <2>1, <2>3 DEF DataInv, ConvInv
    <3>2. i \in DOMAIN data'.post /\ data'.post[i].t = conv'
      BY <1>9, <2>1, <2>3, <3>1
    <3>3. ASSUME NEW j \in DOMAIN data'.post, i <= j PROVE Good(data'.post[j])
      <4>1. j \in DOMAIN data.post \/ j = Len(data.post) + 1
        BY <1>9
      <4> QED BY <1>9, <2>1, <3>1, <3>3, <4>1
    <3> QED BY <3>2, <3>3
  <2> QED BY <2>2, <2>3
<1> QED BY <1>1, <1>8, <1>10, <1>11, <1>12 DEF DataInv

LEMMA DataInit == Init => DataInv
<1> SUFFICES ASSUME Init PROVE DataInv
  OBVIOUS
<1>1. data = NoData /\ clock = 0 /\ conv = Never /\ pc = "config" /\ WorldTypes
  BY DEF Init, WorldTypes, RoleNames, Views, StableRole
<1>2. data.window = <<>> /\ data.post = <<>> /\ data.start = 0 /\ data.end = 0
  BY <1>1 DEF NoData
<1>3. <<>> \in Seq(RealSamples) /\ <<>> \in Seq(RealPosts) /\ DOMAIN <<>> = {}
  OBVIOUS
<1>4. DataTypes
  BY <1>1, <1>2, <1>3 DEF DataTypes, NoData
<1>5. OrderInv /\ UnrecordedInv /\ ConvInv
  BY <1>1, <1>2, <1>3 DEF OrderInv, InOrder, UnrecordedInv, ConvInv
<1> QED BY <1>1, <1>4, <1>5 DEF DataInv

LEMMA WorldStep == ASSUME WorldTypes, [Next]_vars PROVE WorldTypes'
<1> USE DEF RoleNames, Views, WorldTypes
<1>1. CASE UNCHANGED worldVars
  BY <1>1 DEF worldVars
<1>2. ASSUME NEW n \in Nodes, Register(n) \/ Promote(n) \/ Yield(n) PROVE WorldTypes'
  BY <1>2 DEF Register, Promote, Yield
<1>3. CASE HubCatchesUp
  BY <1>3 DEF HubCatchesUp
<1>4. CASE WriteState
  BY <1>4 DEF WriteState
<1>5. CASE ~ClusterStep
  <2>1. UNCHANGED worldVars
    BY <1>5
       DEF Next, HarnessStep, LoadConfig, Preflight, CheckPorts, Fork, Popen, Adopt, Record,
           WaitHub,
         WaitMasterRegistered, WaitReady, WaitFor, SampleStep, SampleAborts, SampleSettle,
         SampleWindow, SampleFailover, SampleFlushNew, ProbeAll, ProbeNew, Probe, StopMaster,
         Judge, ShutdownDone, Classify, WriteEvidence, ShutdownStop, SetDeathSignal, ChildFails,
         KillTakesEffect, childUnchanged, Interrupt, InterruptEnd, HardKill, DeathSignals, Ended,
         vars, worldVars
  <2> QED BY <1>1, <2>1
<1> QED BY <1>2, <1>3, <1>4, <1>5 DEF ClusterStep

LEMMA DataStep == ASSUME DataInv, [Next]_vars PROVE DataInv'
<1> USE DEF childVars, endVars, obsVars, timeVars
<1>0. WorldTypes'
  BY WorldStep DEF DataInv
(* What was recorded is thrown away.                                       *)
<1>1. ASSUME Forget PROVE DataInv'
  BY <1>0, <1>1, NoDataFacts DEF Forget
<1>2. ASSUME UNCHANGED obsVars, Stays(pc, pc') PROVE DataInv'
  BY <1>0, <1>2, KeepsData
<1>3. ASSUME \/ LoadConfig \/ Preflight \/ Fork \/ Popen \/ Adopt \/ Record \/ ShutdownDone
             \/ Classify \/ WriteEvidence \/ \E c \in Members : ShutdownStop(c)
      PROVE  DataInv'
  <2>1. UNCHANGED obsVars
    BY <1>3 DEF LoadConfig, Preflight, Fork, Popen, Adopt, Record, ShutdownDone, Classify,
                WriteEvidence, ShutdownStop
  <2>2. Stays(pc, pc')
    BY <1>3 DEF LoadConfig, Preflight, Fork, Popen, Adopt, Record, ShutdownDone, Classify,
                WriteEvidence, ShutdownStop, Goes, Stays, BeforeWindow, BeforeStop, Gates, Starts,
                Stable
  <2> QED BY <1>2, <2>1, <2>2
<1>4. ASSUME CheckPorts \/ WaitHub \/ WaitMasterRegistered \/ WaitReady PROVE DataInv'
  <2>1. \/ Forget
        \/ /\ UNCHANGED obsVars
           /\ \/ pc = "ports" /\ pc' = "fork"
              \/ pc \in {"hub_wait", "master_wait"} /\ pc' = "ports"
              \/ pc = "ready" /\ pc' = "settle"
    BY <1>4 DEF CheckPorts, WaitHub, WaitMasterRegistered, WaitReady, WaitFor, Abort, NoAbort
  <2> QED BY <1>1, <1>2, <2>1 DEF Stays, BeforeWindow, BeforeStop, Gates, Starts, Stable
<1>5. ASSUME Interrupt \/ SampleAborts PROVE DataInv'
  BY <1>1, <1>5 DEF Interrupt, SampleAborts, Abort
<1>6. ASSUME InterruptEnd \/ HardKill PROVE DataInv'
  <2>1. /\ Forget \/ UNCHANGED obsVars
        /\ pc' \in {"ended", "killed"}
    BY <1>6 DEF InterruptEnd, HardKill, DropUnwritten
  <2> QED BY <1>1, <1>2, <2>1 DEF Stays, BeforeWindow, BeforeStop, Gates, Starts, Stable
<1>7. ASSUME NEW k \in 0..(MaxFaults - faults), NEW lost \in kSubset(k, Answering),
             \/ SampleSettle(lost) \/ SampleWindow(lost)
             \/ SampleFailover(lost) \/ SampleFlushNew(lost)
      PROVE  DataInv'
  <2>1. Cardinality(lost) \in Nat
    BY <1>7 DEF kSubset
  <2> QED BY <1>7, <2>1, WindowGrows, PostGrows
<1>8. ASSUME SampleStep PROVE DataInv'
  BY <1>5, <1>7, <1>8 DEF SampleStep
<1>9. ASSUME ProbeAll PROVE DataInv'
  <2>1. /\ UNCHANGED <<clock, conv>> /\ pc = "probe" /\ pc' = "flush"
        /\ \E qs : data' = [data EXCEPT !["qs"] = qs]
    BY <1>9 DEF ProbeAll, Probe, Goes
  <2> QED BY <1>0, <2>1, KeepsData DEF Stays, BeforeWindow, BeforeStop, Gates, Starts, Stable
<1>10. ASSUME ProbeNew PROVE DataInv'
  <2>1. /\ UNCHANGED <<clock, conv>> /\ pc = "probe_new" /\ pc' = "flush_new"
        /\ \E qs : data' = [data EXCEPT !["qsNew"] = qs]
    BY <1>10 DEF ProbeNew, Probe, Goes
  <2> QED BY <1>0, <2>1, KeepsData DEF Stays, BeforeWindow, BeforeStop, Gates, Starts, Stable
<1>11. ASSUME StopMaster PROVE DataInv'
  <2>1. /\ data' = [NoData EXCEPT !.reasons = StableOf] /\ clock' = 0 /\ conv' = conv
        /\ pc = "stop_master"
    BY <1>11 DEF StopMaster, Goes
  <2>2. conv = Never
    BY <2>1 DEF DataInv, UnrecordedInv, BeforeStop, Stable
  <2> QED BY <1>0, <2>1, <2>2, NoDataFacts
<1>12. ASSUME Judge PROVE DataInv'
  BY <1>0, <1>12, NoDataFacts DEF Judge
<1>13. ASSUME NEW c \in Members, SetDeathSignal(c) \/ ChildFails(c) \/ KillTakesEffect(c)
       PROVE  DataInv'
  BY <1>2, <1>13 DEF SetDeathSignal, ChildFails, KillTakesEffect, childUnchanged, Stays
<1>14. ASSUME DeathSignals \/ Ended \/ UNCHANGED vars PROVE DataInv'
  BY <1>2, <1>14 DEF DeathSignals, childUnchanged, Ended, vars, Stays
<1>15. ASSUME ClusterStep PROVE DataInv'
  <2>1. UNCHANGED <<data, conv, clock, pc>>
    BY <1>15 DEF ClusterStep, HubCatchesUp, WriteState, Register, Promote, Yield, worldUnchanged
  <2> QED BY <1>0, <2>1, KeepsData DEF Stays
<1> QED
  BY <1>3, <1>4, <1>5, <1>6, <1>8, <1>9, <1>10, <1>11, <1>12, <1>13, <1>14, <1>15
     DEF Next, HarnessStep

LEMMA DataAlways == Spec => []DataInv
<1>1. Init => DataInv
  BY DataInit
<1>2. DataInv /\ [Next]_vars => DataInv'
  BY DataStep
<1> QED BY <1>1, <1>2, PTL DEF Spec

-----------------------------------------------------------------------------
(* The verdicts.                                                           *)

LEMMA ReasonGiven ==
  ASSUME NEW why, NEW name, NEW p, <<name, p>> \in why, p
  PROVE  name \in Reasons(why)
<1>1. <<name, p>>[2] /\ <<name, p>>[1] = name
  OBVIOUS
<1>2. <<name, p>> \in {x \in why : x[2]}
  BY <1>1
<1> QED BY <1>1, <1>2 DEF Reasons

(* Whoever is held by the loop of run_s5 is held by the classifier.        *)
LEMMA LoopHolds ==
  ASSUME DataInv, pc = "probe_new", conv # Never, data.post[Len(data.post)].t - conv >= Hold
  PROVE  Held(data.post)
<1> DEFINE p == data.post
<1>1. PICK i \in DOMAIN p : p[i].t = conv /\ \A j \in DOMAIN p : i <= j => Good(p[j])
  BY DEF DataInv, ConvInv
<1>2. p \in Seq(RealPosts)
  BY DEF DataInv, DataTypes
<1> HIDE DEF p
<1>3. DOMAIN p = 1..Len(p) /\ Len(p) \in Nat /\ i \in 1..Len(p)
  BY <1>1, <1>2
<1>4. i \in PromotedAt(p)
  BY <1>1, <1>3 DEF PromotedAt, Good
<1>5. \A j \in i..Len(p) : FinalOk(p[j])
  BY <1>1, <1>3 DEF Good
<1>6. i \in Settled(p) /\ i <= i
  BY <1>3, <1>4, <1>5 DEF Settled
<1> QED BY <1>1, <1>6 DEF Held, p

LEMMA HeldConverges ==
  ASSUME NEW post, NEW hub, NEW stopping, NEW events, Held(post)
  PROVE  "not_converged" \notin FailoverWhy(post, hub, stopping, events)
<1> DEFINE within(t) == \E i \in PromotedAt(post) : post[i].t <= t
           p1 == ~stopping
           p2 == \E i \in DOMAIN post : post[i].t >= KillGrace /\ Observed(post[i], Master)
           p3 == \E i \in DOMAIN post : Masters(post[i], Followers \ {Candidate}) # {}
           p4 == \E i \in DOMAIN post : Cardinality(Masters(post[i], Followers)) >= 2
           p5 == ~within(PromotionDeadline)
           p6 == within(MinPromotionDelay - 1)
           p7 == PromotedAt(post) # {} /\ ~Held(post)
           p8 == Held(post) /\ \E i \in DOMAIN post : Converged(post, i) /\
             \E n \in Followers : ObservabilityGap(post, n, post[i].t, post[Len(post)].t)
           p9 == hub = HubSilent
           p10 == hub # HubSilent /\ \E n \in Followers : hub[n] # FailoverRole(n)
           p11 == hub # HubSilent /\ hub[Master] # "absent"
           p12 == "written" \in events
           why == {<<"master_not_stopped", p1>>, <<"still_serving", p2>>, <<"non_candidate", p3>>,
                   <<"multiple_masters", p4>>, <<"no_promotion", p5>>,
                   <<"premature_promotion", p6>>, <<"not_converged", p7>>,
                   <<"observability_gap", p8>>, <<"hub_unobservable", p9>>,
                   <<"hub_not_converged", p10>>, <<"hub_not_reaped", p11>>,
                   <<"state_written", p12>>}
<1>1. FailoverWhy(post, hub, stopping, events) = Reasons(why)
  BY Zenon DEF FailoverWhy
<1>2. ~p7
  OBVIOUS
<1> HIDE DEF p1, p2, p3, p4, p5, p6, p7, p8, p9, p10, p11, p12
<1>3. ASSUME NEW x \in why, x[1] = "not_converged" PROVE x = <<"not_converged", p7>>
  BY <1>3
<1>4. ASSUME NEW x \in why, x[1] = "not_converged", x[2] PROVE FALSE
  <2>1. <<"not_converged", p7>>[2]
    BY <1>3, <1>4
  <2> QED BY <1>2, <2>1
<1> QED BY <1>1, <1>4 DEF Reasons

(* The loop of run_s5 and the classifier find the same: for any samples,   *)
(* lost answers and times, roles that have held for the loop are not found *)
(* unheld at the end (s1s5_harness.py:1707-1722 and 1214-1232).            *)
THEOREM HoldIsAgreed == Spec => []HoldAgrees
<1>1. DataInv => HoldAgrees
  BY LoopHolds, HeldConverges DEF HoldAgrees
<1> QED BY <1>1, DataAlways, PTL

LEMMA LeastExists ==
  ASSUME NEW S, S \subseteq Nat, S # {}
  PROVE  \E x \in S : \A y \in S : x <= y
<1>1. PICK x \in S : \A y \in S : ~ (<<y, x>> \in OpToRel(<, Nat))
  BY NatLessThanWellFounded, WFMin
<1>2. \A y \in Nat : y < x => <<y, x>> \in OpToRel(<, Nat)
  <2> SUFFICES ASSUME NEW y \in Nat, y < x PROVE <<y, x>> \in OpToRel(<, Nat)
    OBVIOUS
  <2>1. <<y, x>> \in Nat \X Nat /\ <<y, x>>[1] < <<y, x>>[2]
    OBVIOUS
  <2> QED BY <2>1 DEF OpToRel
<1>3. \A y \in S : ~(y < x)
  BY <1>1, <1>2, Zenon
<1> QED BY <1>3

LEMMA GreatestExists ==
  ASSUME NEW S, S \subseteq Nat, NEW e \in S, NEW b \in Nat, \A x \in S : x <= b
  PROVE  \E m \in S : \A x \in S : x <= m
<1> DEFINE above == {u \in Nat : \A x \in S : x <= u}
<1>1. above \subseteq Nat /\ above # {}
  OBVIOUS
<1>2. PICK m \in above : \A u \in above : m <= u
  <2> HIDE DEF above
  <2> QED BY <1>1, LeastExists
<1>3. m \in Nat /\ \A x \in S : x <= m
  OBVIOUS
<1>4. m \in S
  <2> SUFFICES ASSUME m \notin S PROVE FALSE
    OBVIOUS
  <2>1. \A x \in S : x <= m - 1
    BY <1>3
  <2>2. m - 1 \in Nat
    BY <1>3, <2>1
  <2>3. m - 1 \in above
    BY <2>1, <2>2
  <2> QED BY <1>2, <1>3, <2>3
<1> QED BY <1>3, <1>4

(* Who must answer a share of the samples answers at least one.            *)
LEMMA SomeAnswer ==
  ASSUME NEW S, NEW w \in Seq(S), NEW n, NEW start,
         From(w, start) # {}, ~FewAnswers(w, n, start)
  PROVE  Answers(w, n, start) # {}
<1> DEFINE c == Cardinality(From(w, start))
<1>1. From(w, start) \subseteq 1..Len(w) /\ IsFiniteSet(1..Len(w))
  BY FS_Interval DEF From
<1>2. IsFiniteSet(From(w, start))
  BY <1>1, FS_Subset
<1>3. c \in Nat /\ c # 0
  BY <1>2, FS_CardinalityType, FS_EmptySet
<1> SUFFICES ASSUME Answers(w, n, start) = {} PROVE FALSE
  OBVIOUS
<1>4. Cardinality(Answers(w, n, start)) = 0
  BY FS_EmptySet
<1> HIDE DEF c
<1>5. MinAvailability \in Nat /\ MinAvailability >= 1
  <2>1. MinAvailability \in 1..100
    BY TimesValid
  <2> QED BY <2>1
<1>6. MinAvailability * c >= 1
  BY <1>3, <1>5
<1>7. 100 * 0 < MinAvailability * c
  BY <1>3, <1>5, <1>6
<1> QED BY <1>4, <1>7 DEF FewAnswers, c

LEMMA GapBounded ==
  ASSUME NEW P, ~LongGap(P), NEW a \in P, NEW e \in P, e > a
  PROVE  \E b \in P : b > a /\ ~(b - a > MaxGap)
BY DEF LongGap

LEMMA PassHasNoReason ==
  ASSUME NEW reasons, VerdictFor(reasons) = "PASS"
  PROVE  reasons = {}
BY DEF VerdictFor

LEMMA StableClean ==
  ASSUME NEW w, NEW start, NEW end, NEW events, NEW qs,
         StableReasons(w, start, end, events, qs) = {}
  PROVE  /\ w # <<>>
         /\ \A i \in DOMAIN w : /\ Masters(w[i], Followers) = {}
                                /\ w[i].nodes[Master] \in {"MASTER", "none"}
         /\ \A n \in Nodes : ~ObservabilityGap(w, n, start, end)
<1> DEFINE p1 == \E i \in DOMAIN w : Masters(w[i], Followers) # {}
           p2 == \E i \in DOMAIN w : Cardinality(Masters(w[i], Nodes)) >= 2
           p3 == \E i \in DOMAIN w : w[i].nodes[Master] \notin {"MASTER", "none"}
           p4 == \E i \in DOMAIN w : HubDiverges(w[i])
           p5 == HubUnobservable(w)
           p6 == "promoted" \in events
           p7 == "missing" \in events
           p8 == "written" \in events
           p9 == \E n \in Nodes : ObservabilityGap(w, n, start, end)
           why == {<<"follower_promoted", p1>>, <<"multiple_masters", p2>>,
                   <<"master_role_lost", p3>>, <<"hub_role_divergence", p4>>,
                   <<"hub_unobservable", p5>>, <<"log_promoted", p6>>,
                   <<"log_master_missing", p7>>, <<"log_written", p8>>,
                   <<"observability_gap", p9>>}
<1>1. w # <<>>
  BY DEF StableReasons
<1>2. StableReasons(w, start, end, events, qs) = QsReasons(qs) \cup Reasons(why)
  BY <1>1, Zenon DEF StableReasons
<1>3. Reasons(why) = {}
  BY <1>2
<1> HIDE DEF p1, p2, p3, p4, p5, p6, p7, p8, p9
<1>4. /\ <<"follower_promoted", p1>> \in why /\ <<"master_role_lost", p3>> \in why
      /\ <<"observability_gap", p9>> \in why
  OBVIOUS
<1> HIDE DEF why
<1>5. ~p1 /\ ~p3 /\ ~p9
  <2>1. ~p1
    BY <1>3, <1>4, ReasonGiven, Zenon
  <2>2. ~p3
    BY <1>3, <1>4, ReasonGiven, Zenon
  <2>3. ~p9
    BY <1>3, <1>4, ReasonGiven, Zenon
  <2> QED BY <2>1, <2>2, <2>3
<1> QED BY <1>1, <1>5 DEF p1, p3, p9

(* While nobody sees an answer of a node, less than the allowed gap passes: *)
(* each gap begins and ends with an answer or with an end of the window,    *)
(* and a node that never answers is answered for by the share of samples.   *)
LEMMA UnseenIsShort ==
  ASSUME NEW S, NEW w \in Seq(S), NEW n, NEW start \in Nat, NEW end \in Nat,
         InOrder(w), \A k \in DOMAIN w : w[k].t \in Nat /\ start <= w[k].t /\ w[k].t < end,
         ~ObservabilityGap(w, n, start, end),
         NEW i \in DOMAIN w, NEW j \in DOMAIN w, i <= j,
         \A k \in i..j : w[k].nodes[n] = "none"
  PROVE  (IF j = Len(w) THEN end ELSE w[j].t) - w[i].t < MaxGap
<1> DEFINE ans == AnswerTimes(w, n, start)
           P == {start, end} \cup ans
           until == IF j = Len(w) THEN end ELSE w[j].t
<1>1. /\ ~FewAnswers(w, n, start) /\ ~LongGap(P)
      /\ DOMAIN w = 1..Len(w) /\ Len(w) \in Nat /\ MaxGap \in Nat
  BY TimesValid DEF ObservabilityGap
<1>2. From(w, start) = DOMAIN w
  BY DEF From
<1>3. PICK q \in DOMAIN w : w[q].nodes[n] # "none"
  <2>1. Answers(w, n, start) # {}
    BY <1>1, <1>2, SomeAnswer
  <2> QED BY <1>2, <2>1 DEF Answers, Observed
<1>4. \A x \in ans : \E k \in DOMAIN w : w[k].t = x /\ w[k].nodes[n] # "none"
  BY <1>2 DEF AnswerTimes, Answers, Observed
<1>5. \A k \in DOMAIN w : w[k].nodes[n] # "none" => w[k].t \in ans
  BY <1>2 DEF AnswerTimes, Answers, Observed
<1> HIDE DEF ans
<1>6. P \subseteq Nat /\ start < end /\ \A x \in P : x <= end
  <2>1. \A x \in ans : x \in Nat /\ x <= end
    BY <1>4
  <2>2. start < end
    <3>1. w[i].t \in Nat /\ start <= w[i].t /\ w[i].t < end
      OBVIOUS
    <3> QED BY <3>1
  <2> QED BY <2>1, <2>2
<1>7. w[j].t \in Nat /\ w[i].t \in Nat /\ until \in Nat /\ w[j].t <= until
  OBVIOUS
<1>8. ASSUME NEW k \in DOMAIN w, w[k].nodes[n] # "none", w[k].t > w[i].t PROVE w[k].t > w[j].t
  <2>1. k \notin i..j
    BY <1>8
  <2>2. ~(k < i)
    BY <1>8 DEF InOrder
  <2>3. j < k
    BY <1>1, <2>1, <2>2
  <2> QED BY <2>3 DEF InOrder
(* The last of the ends and answers up to the first sample.                *)
<1>9. PICK a \in P : a <= w[i].t /\ \A x \in P : x <= w[i].t => x <= a
  <2> DEFINE A == {x \in P : x <= w[i].t}
  <2>1. A \subseteq Nat /\ start \in A /\ \A x \in A : x <= w[i].t
    BY <1>6
  <2>2. \E m \in A : \A x \in A : x <= m
    <3> HIDE DEF A
    <3> QED BY <1>7, <2>1, GreatestExists
  <2> QED BY <2>2
<1>10. PICK b \in P : b > a /\ ~(b - a > MaxGap)
  <2>1. end > a /\ end \in P
    BY <1>6, <1>7, <1>9
  <2> QED BY <1>1, <2>1, GapBounded
<1>11. a \in Nat /\ b \in Nat /\ b > w[i].t
  BY <1>6, <1>7, <1>9, <1>10
<1>12. b = end \/ b > w[j].t
  <2>1. CASE b \in ans
    BY <1>4, <1>8, <1>11, <2>1
  <2>2. CASE b = start
    BY <1>11, <2>2
  <2> QED BY <2>1, <2>2
<1>13. CASE j # Len(w)
  <2>1. until = w[j].t /\ w[j].t < end
    BY <1>13
  <2> QED BY <1>1, <1>7, <1>9, <1>10, <1>11, <1>12, <2>1
<1>14. CASE j = Len(w)
  <2>1. b = end
    <3> SUFFICES ASSUME b \in ans PROVE FALSE
      BY <1>11
    <3>1. PICK k \in DOMAIN w : w[k].t = b /\ w[k].nodes[n] # "none"
      BY <1>4
    <3>2. w[k].t > w[j].t
      BY <1>8, <1>11, <3>1
    <3>3. k < j \/ k = j
      BY <1>1, <1>14
    <3> QED BY <1>7, <3>2, <3>3 DEF InOrder
  <2>2. a # w[i].t
    <3> SUFFICES ASSUME a = w[i].t PROVE FALSE
      OBVIOUS
    <3>1. CASE a \in ans
      <4>1. PICK k \in DOMAIN w : w[k].t = a /\ w[k].nodes[n] # "none"
        BY <1>4, <3>1
      <4>2. k # i
        BY <4>1
      <4>3. w[k].t < w[i].t \/ w[i].t < w[k].t
        BY <1>1, <4>2 DEF InOrder
      <4> QED BY <1>7, <4>1, <4>3
    <3>2. CASE a = start
      <4>1. q \in i..j \/ q < i
        BY <1>1, <1>3, <1>14
      <4>2. q < i
        BY <1>3, <4>1
      <4>3. w[q].t < w[i].t
        BY <4>2 DEF InOrder
      <4> QED BY <1>7, <3>2, <4>3
    <3>3. CASE a = end
      <4>1. w[i].t < end
        OBVIOUS
      <4> QED BY <1>7, <3>3, <4>1
    <3> QED BY <3>1, <3>2, <3>3
  <2>3. a < w[i].t
    BY <1>7, <1>9, <1>11, <2>2
  <2>4. until = end
    BY <1>14
  <2> QED BY <1>1, <1>7, <1>10, <1>11, <2>1, <2>3, <2>4
<1> QED BY <1>13, <1>14

(* No PASS over a gap (s1s5_harness.py:967), for any samples, lost answers *)
(* and times: with PASS in S1 a role that was wrong from one sample to     *)
(* another was so for less than max_observation_gap_s.                     *)
THEOREM PassSeesWrongRoles == Spec => []PassSeesDeviations
<1>1. ASSUME DataInv PROVE PassSeesDeviations
  <2> DEFINE w == data.window
             until(j) == IF j = Len(w) THEN data.end ELSE w[j].t
  <2> SUFFICES ASSUME scenario = "s1", VerdictFor(ScenarioReasons) = "PASS",
                      NEW n \in Nodes, NEW i \in DOMAIN w, NEW j \in DOMAIN w, i <= j,
                      \A k \in i..j : w[k].real[n] # StableRole(n)
               PROVE  until(j) - w[i].t < MaxGap
    BY DEF PassSeesDeviations
  <2>1. StableReasons(w, data.start, data.end, LogEvents(log, data.start, data.end), data.qs) = {}
    BY PassHasNoReason DEF ScenarioReasons, StableOf
  <2>2. /\ \A k \in DOMAIN w : /\ Masters(w[k], Followers) = {}
                               /\ w[k].nodes[Master] \in {"MASTER", "none"}
        /\ ~ObservabilityGap(w, n, data.start, data.end)
    BY <2>1, StableClean
  <2>3. /\ w \in Seq(RealSamples) /\ InOrder(w) /\ data.start \in Nat /\ data.end \in Nat
        /\ \A k \in DOMAIN w : data.start <= w[k].t /\ w[k].t < data.end
    BY <1>1 DEF DataInv, DataTypes, OrderInv
  <2> HIDE DEF w
  <2>4. DOMAIN w = 1..Len(w) /\ \A k \in DOMAIN w : w[k] \in RealSamples
    BY <2>3
  <2>5. \A k \in DOMAIN w : w[k].t \in Nat
    BY <2>4 DEF RealSamples
  <2>6. ASSUME NEW k \in i..j PROVE w[k].nodes[n] = "none"
    <3>1. k \in DOMAIN w /\ w[k].real[n] # StableRole(n)
      BY <2>4
    <3>2. w[k].nodes[n] \in {"none", w[k].real[n]} /\ w[k].real[n] \in RoleNames
      BY <2>4, <3>1 DEF RealSamples
    <3>3. n # Master => w[k].nodes[n] # "MASTER"
      BY <2>2, <3>1 DEF Masters, Followers
    <3> QED BY <2>2, <3>1, <3>2, <3>3 DEF RoleNames, StableRole
  <2> QED BY <2>2, <2>3, <2>5, <2>6, UnseenIsShort
<1> QED BY <1>1, DataAlways, PTL

LEMMA FailoverClean ==
  ASSUME NEW post, NEW hub, NEW stopping, NEW events, NEW qsNew,
         FailoverReasons(post, hub, stopping, events, qsNew) = {}
  PROVE  /\ post # <<>> /\ stopping /\ Held(post)
         /\ ~ \E i \in PromotedAt(post) : post[i].t <= MinPromotionDelay - 1
         /\ \A i \in DOMAIN post : Converged(post, i) =>
              \A n \in Followers : ~ObservabilityGap(post, n, post[i].t, post[Len(post)].t)
<1> DEFINE within(t) == \E i \in PromotedAt(post) : post[i].t <= t
           p1 == ~stopping
           p2 == \E i \in DOMAIN post : post[i].t >= KillGrace /\ Observed(post[i], Master)
           p3 == \E i \in DOMAIN post : Masters(post[i], Followers \ {Candidate}) # {}
           p4 == \E i \in DOMAIN post : Cardinality(Masters(post[i], Followers)) >= 2
           p5 == ~within(PromotionDeadline)
           p6 == within(MinPromotionDelay - 1)
           p7 == PromotedAt(post) # {} /\ ~Held(post)
           p8 == Held(post) /\ \E i \in DOMAIN post : Converged(post, i) /\
             \E n \in Followers : ObservabilityGap(post, n, post[i].t, post[Len(post)].t)
           p9 == hub = HubSilent
           p10 == hub # HubSilent /\ \E n \in Followers : hub[n] # FailoverRole(n)
           p11 == hub # HubSilent /\ hub[Master] # "absent"
           p12 == "written" \in events
           why == {<<"master_not_stopped", p1>>, <<"still_serving", p2>>, <<"non_candidate", p3>>,
                   <<"multiple_masters", p4>>, <<"no_promotion", p5>>,
                   <<"premature_promotion", p6>>, <<"not_converged", p7>>,
                   <<"observability_gap", p8>>, <<"hub_unobservable", p9>>,
                   <<"hub_not_converged", p10>>, <<"hub_not_reaped", p11>>,
                   <<"state_written", p12>>}
<1>1. post # <<>>
  BY DEF FailoverReasons
<1>2. FailoverReasons(post, hub, stopping, events, qsNew)
        = QsReasons(qsNew) \cup FailoverWhy(post, hub, stopping, events)
  BY <1>1 DEF FailoverReasons
<1>3. FailoverWhy(post, hub, stopping, events) = Reasons(why)
  BY Zenon DEF FailoverWhy
<1>4. Reasons(why) = {}
  BY <1>2, <1>3
<1> HIDE DEF p1, p2, p3, p4, p5, p6, p7, p8, p9, p10, p11, p12
<1>5. /\ <<"master_not_stopped", p1>> \in why /\ <<"no_promotion", p5>> \in why
      /\ <<"premature_promotion", p6>> \in why /\ <<"not_converged", p7>> \in why
      /\ <<"observability_gap", p8>> \in why
  OBVIOUS
<1> HIDE DEF why
<1>6. ~p1
  BY <1>4, <1>5, ReasonGiven, Zenon
<1>7. ~p5
  BY <1>4, <1>5, ReasonGiven, Zenon
<1>8. ~p6
  BY <1>4, <1>5, ReasonGiven, Zenon
<1>9. ~p7
  BY <1>4, <1>5, ReasonGiven, Zenon
<1>10. ~p8
  BY <1>4, <1>5, ReasonGiven, Zenon
<1>11. Held(post)
  <2>1. PromotedAt(post) # {}
    BY <1>7 DEF p5
  <2> QED BY <1>9, <2>1 DEF p7
<1> QED BY <1>1, <1>6, <1>8, <1>10, <1>11, Zenon DEF p1, p6, p8

(* Whoever is held is held from some sample on, and not from before it.    *)
LEMMA ConvergesSomewhere ==
  ASSUME NEW S, NEW post \in Seq(S), Held(post)
  PROVE  \E m \in DOMAIN post : Converged(post, m)
<1>1. Settled(post) \subseteq 1..Len(post) /\ DOMAIN post = 1..Len(post) /\ Len(post) \in Nat
  BY DEF Settled
<1>2. Settled(post) \subseteq Nat /\ Settled(post) # {}
  BY <1>1 DEF Held
<1>3. PICK m \in Settled(post) : \A k \in Settled(post) : m <= k
  BY <1>2, LeastExists
<1>4. m - 1 \notin Settled(post)
  <2>1. m \in Nat
    BY <1>2, <1>3
  <2>2. ~(m <= m - 1)
    BY <2>1
  <2> QED BY <1>3, <2>2
<1> QED BY <1>1, <1>3, <1>4 DEF Converged

(* Whose answers have no gap up to the last sample answered shortly before *)
(* it, or at it.                                                           *)
LEMMA AnsweredRecently ==
  ASSUME NEW S, NEW post \in Seq(S), NEW n, NEW m \in DOMAIN post,
         \A k \in DOMAIN post : post[k].t \in Nat,
         InOrder(post), ~ObservabilityGap(post, n, post[m].t, post[Len(post)].t)
  PROVE  \E k \in DOMAIN post : /\ m <= k /\ post[k].nodes[n] # "none"
                                /\ post[Len(post)].t - post[k].t <= MaxGap
<1> DEFINE start == post[m].t
           end == post[Len(post)].t
           ans == AnswerTimes(post, n, start)
           P == {start, end} \cup ans
<1>1. /\ ~FewAnswers(post, n, start) /\ ~LongGap(P) /\ MaxGap \in Nat
      /\ DOMAIN post = 1..Len(post) /\ Len(post) \in Nat /\ Len(post) \in DOMAIN post
  BY TimesValid DEF ObservabilityGap
<1>2. start \in Nat /\ end \in Nat /\ m \in From(post, start)
  BY <1>1 DEF From
<1>3. \A k \in DOMAIN post : post[k].t <= end
  BY <1>1, <1>2 DEF InOrder
<1>4. ans # {}
  <2>1. Answers(post, n, start) # {}
    BY <1>1, <1>2, SomeAnswer
  <2> QED BY <2>1 DEF AnswerTimes
<1>5. \A x \in ans : \E k \in DOMAIN post :
        post[k].t = x /\ post[k].nodes[n] # "none" /\ start <= post[k].t
  BY <1>2 DEF AnswerTimes, Answers, From, Observed
<1> HIDE DEF start, end, ans
<1>6. \A x \in ans : x \in Nat /\ start <= x /\ x <= end
  BY <1>3, <1>5
<1>7. PICK a \in ans : \A x \in ans : x <= a
  BY <1>2, <1>4, <1>6, GreatestExists
<1>8. end - a <= MaxGap
  <2>1. CASE a = end
    BY <1>1, <1>2, <2>1
  <2>2. CASE a # end
    <3>1. a \in Nat /\ start <= a /\ a < end /\ a \in P /\ end \in P
      BY <1>2, <1>6, <1>7, <2>2
    <3>2. PICK b \in P : b > a /\ ~(b - a > MaxGap)
      <4> HIDE DEF P
      <4> QED BY <1>1, <3>1, GapBounded
    <3>3. b = end
      BY <1>2, <1>6, <1>7, <3>1, <3>2
    <3> QED BY <1>1, <1>2, <3>1, <3>2, <3>3
  <2> QED BY <2>1, <2>2
<1>9. PICK k \in DOMAIN post : post[k].t = a /\ post[k].nodes[n] # "none" /\ start <= post[k].t
  BY <1>5, <1>7
<1>10. m <= k
  <2>1. ~(k < m)
    BY <1>2, <1>9 DEF InOrder, start
  <2> QED BY <1>1, <2>1
<1> QED BY <1>8, <1>9, <1>10 DEF end

(* With PASS in S5 the candidate was promoted after the master was         *)
(* stopped, not too soon, and every survivor had its final role at most    *)
(* max_observation_gap_s before the last sample, whatever answers were     *)
(* lost (s1s5_harness.py:1155-1269).                                       *)
THEOREM PassIsAFailover == Spec => []FailoverPassIsReal
<1>1. ASSUME DataInv, RunInv PROVE FailoverPassIsReal
  <2> DEFINE p == data.post
             hub == data.hub
             ev == LogEvents(log, 0, clock + 1)
             qs == data.qsNew
             confirmed == stopped[Master] = "confirmed"
  <2> SUFFICES ASSUME scenario = "s5", VerdictFor(ScenarioReasons) = "PASS"
               PROVE  /\ child[Master] = "exited"
                      /\ \A i \in DOMAIN p : p[i].t < MinPromotionDelay
                                               => p[i].nodes[Candidate] # "MASTER"
                      /\ \A n \in Followers : \E i \in DOMAIN p :
                           /\ p[Len(p)].t - p[i].t <= MaxGap
                           /\ p[i].real[n] = FailoverRole(n)
    BY DEF FailoverPassIsReal
  <2>1. FailoverReasons(p, hub, confirmed, ev, qs) = {}
    <3>1. ScenarioReasons = data.reasons \cup FailoverReasons(p, hub, confirmed, ev, qs)
      BY DEF ScenarioReasons
    <3> HIDE DEF p, hub, ev, qs, confirmed
    <3> QED BY <3>1, PassHasNoReason
  <2>2. /\ p \in Seq(RealPosts) /\ InOrder(p)
        /\ DOMAIN p = 1..Len(p) /\ \A k \in DOMAIN p : p[k] \in RealPosts
    BY <1>1 DEF DataInv, DataTypes, OrderInv
  <2>3. child[Master] = "exited" \/ ~confirmed
    BY <1>1, ClusterValid DEF RunInv, ChildInv, Members
  <2> HIDE DEF p, hub, ev, qs, confirmed
  <2>4. /\ confirmed /\ Held(p)
        /\ ~ \E i \in PromotedAt(p) : p[i].t <= MinPromotionDelay - 1
        /\ \A i \in DOMAIN p : Converged(p, i) =>
             \A n \in Followers : ~ObservabilityGap(p, n, p[i].t, p[Len(p)].t)
    BY <2>1, FailoverClean
  <2>5. \A k \in DOMAIN p : p[k].t \in Nat
    BY <2>2 DEF RealPosts
  <2>6. ASSUME NEW i \in DOMAIN p, p[i].t < MinPromotionDelay
        PROVE  p[i].nodes[Candidate] # "MASTER"
    <3>1. p[i].t <= MinPromotionDelay - 1
      BY <2>5, <2>6, TimesValid
    <3> QED BY <2>4, <3>1 DEF PromotedAt
  <2>7. ASSUME NEW n \in Followers
        PROVE  \E i \in DOMAIN p : /\ p[Len(p)].t - p[i].t <= MaxGap
                                   /\ p[i].real[n] = FailoverRole(n)
    <3>1. PICK m \in DOMAIN p : Converged(p, m)
      BY <2>2, <2>4, ConvergesSomewhere
    <3>2. PICK k \in DOMAIN p : /\ m <= k /\ p[k].nodes[n] # "none"
                                /\ p[Len(p)].t - p[k].t <= MaxGap
      BY <2>2, <2>4, <2>5, <3>1, AnsweredRecently
    <3>3. FinalOk(p[k])
      <4>1. k \in m..Len(p)
        BY <2>2, <3>2
      <4> QED BY <3>1, <4>1 DEF Converged, Settled
    <3>4. n \in Nodes /\ p[k].nodes[n] \in {"none", p[k].real[n]}
      BY <2>2 DEF RealPosts, Followers
    <3> QED BY <3>2, <3>3, <3>4 DEF FinalOk
  <2> QED BY <2>3, <2>4, <2>6, <2>7
<1>2. Spec => []RunInv
  BY RunInit, RunStep, PTL DEF Spec
<1> QED BY <1>1, <1>2, DataAlways, PTL

-----------------------------------------------------------------------------
(* The gates.                                                              *)

LEMMA DistinctAt ==
  ASSUME NEW hub, NEW n, EndpointsDistinct(hub, n), NEW i \in DOMAIN n
  PROVE  LET h == <<HostKey(hub), hub.port>>
             e(k, s) == NodeEndpoints(n[k])[s]
         IN  /\ e(i, 1) # h /\ e(i, 2) # h /\ e(i, 2) # e(i, 1)
             /\ \A j \in 1..(i - 1), s, r \in 1..2 : e(i, s) # e(j, r)
<1> DEFINE h == <<HostKey(hub), hub.port>>
           e(k, s) == NodeEndpoints(n[k])[s]
           before == {h} \cup {NodeEndpoints(n[j])[s] : j \in 1..(i - 1), s \in 1..2}
<1>1. e(i, 1) \notin before /\ e(i, 2) \notin before \cup {e(i, 1)}
  BY DEF EndpointsDistinct
<1>2. h \in before
  OBVIOUS
<1>3. \A j \in 1..(i - 1), r \in 1..2 : e(j, r) \in before
  OBVIOUS
<1> HIDE DEF before, h, e
<1>4. \A s \in 1..2 : s = 1 \/ s = 2
  OBVIOUS
<1>5. /\ e(i, 1) # h /\ e(i, 2) # h /\ e(i, 2) # e(i, 1)
      /\ \A j \in 1..(i - 1), s, r \in 1..2 : e(i, s) # e(j, r)
  BY <1>1, <1>2, <1>3, <1>4
<1> QED BY <1>5 DEF h, e

(* A configuration whose endpoints are entered without a clash has as many *)
(* of them as the hub and two for each node.                               *)
LEMMA DistinctCount ==
  ASSUME NEW hub, NEW n, n \in Seq({n[k] : k \in DOMAIN n}), EndpointsDistinct(hub, n)
  PROVE  LET slots == {<<HostKey(hub), hub.port>>}
                        \cup {<<HostKey(n[i]), n[i].web>> : i \in DOMAIN n}
                        \cup {<<HostKey(n[i]), n[i].tcp>> : i \in DOMAIN n}
         IN  Cardinality(slots) = 1 + 2 * Len(n)
<1> DEFINE h == <<HostKey(hub), hub.port>>
           e(i, s) == NodeEndpoints(n[i])[s]
           pairs == (1..Len(n)) \X (1..2)
           index == pairs \cup {<<0, 1>>}
           f == [x \in index |-> IF x[1] = 0 THEN h ELSE e(x[1], x[2])]
           slots == {h} \cup {<<HostKey(n[i]), n[i].web>> : i \in DOMAIN n}
                        \cup {<<HostKey(n[i]), n[i].tcp>> : i \in DOMAIN n}
<1>1. Len(n) \in Nat /\ DOMAIN n = 1..Len(n)
  OBVIOUS
<1>2. \A i \in 1..Len(n) : /\ e(i, 1) = <<HostKey(n[i]), n[i].web>>
                           /\ e(i, 2) = <<HostKey(n[i]), n[i].tcp>>
  BY DEF NodeEndpoints
<1>3. \A i \in 1..Len(n) :
        /\ e(i, 1) # h /\ e(i, 2) # h /\ e(i, 2) # e(i, 1)
        /\ \A j \in 1..(i - 1), s, r \in 1..2 : e(i, s) # e(j, r)
  <2> SUFFICES ASSUME NEW i \in 1..Len(n)
               PROVE  /\ e(i, 1) # h /\ e(i, 2) # h /\ e(i, 2) # e(i, 1)
                      /\ \A j \in 1..(i - 1), s, r \in 1..2 : e(i, s) # e(j, r)
    OBVIOUS
  <2>1. i \in DOMAIN n
    BY <1>1
  <2> QED BY <2>1, DistinctAt
<1> HIDE DEF e, h
<1>4. f \in [index -> slots]
  <2> SUFFICES ASSUME NEW x \in index PROVE f[x] \in slots
    OBVIOUS
  <2>1. x[1] = 0 \/ (x[1] \in 1..Len(n) /\ x[2] \in 1..2 /\ x[1] # 0)
    OBVIOUS
  <2>2. CASE x[1] = 0
    BY <2>2
  <2>3. CASE x[1] \in 1..Len(n) /\ x[2] \in 1..2 /\ x[1] # 0
    <3>1. f[x] = e(x[1], x[2]) /\ (x[2] = 1 \/ x[2] = 2)
      BY <2>3
    <3> QED BY <1>1, <1>2, <2>3, <3>1
  <2> QED BY <2>1, <2>2, <2>3
<1>5. \A y \in slots : \E x \in index : f[x] = y
  <2> SUFFICES ASSUME NEW y \in slots PROVE \E x \in index : f[x] = y
    OBVIOUS
  <2>1. CASE y = h
    <3>1. <<0, 1>> \in index /\ f[<<0, 1>>] = h
      OBVIOUS
    <3> QED BY <2>1, <3>1
  <2>2. ASSUME NEW i \in DOMAIN n, NEW s \in 1..2, y = e(i, s) PROVE \E x \in index : f[x] = y
    <3>1. <<i, s>> \in index /\ i # 0
      BY <1>1
    <3>2. f[<<i, s>>] = e(i, s)
      BY <3>1
    <3> QED BY <2>2, <3>1, <3>2
  <2>3. y = h \/ \E i \in DOMAIN n : y = e(i, 1) \/ y = e(i, 2)
    BY <1>1, <1>2
  <2>4. 1 \in 1..2 /\ 2 \in 1..2
    OBVIOUS
  <2> HIDE DEF index, f, slots
  <2> QED BY <2>1, <2>2, <2>3, <2>4
<1>6. \A x, y \in index : f[x] = f[y] => x = y
  <2>1. ASSUME NEW x \in index, NEW y \in pairs, x[1] < y[1] PROVE f[x] # f[y]
    <3>1. y[1] \in 1..Len(n) /\ y[2] \in 1..2 /\ y[1] # 0 /\ y \in index
      OBVIOUS
    <3>2. f[y] = e(y[1], y[2])
      BY <3>1
    <3>3. CASE x[1] = 0
      <4>1. f[x] = h
        BY <3>3
      <4> QED BY <1>3, <3>1, <3>2, <4>1
    <3>4. CASE x[1] # 0
      <4>1. f[x] = e(x[1], x[2])
        BY <3>4
      <4>2. x[1] \in 1..(y[1] - 1) /\ x[2] \in 1..2
        BY <1>1, <2>1, <3>1, <3>4
      <4> QED BY <1>3, <3>1, <3>2, <4>1, <4>2
    <3> QED BY <3>3, <3>4
  <2>2. ASSUME NEW x \in pairs, NEW y \in pairs, x[1] = y[1], f[x] = f[y] PROVE x = y
    <3>1. /\ x[1] \in 1..Len(n) /\ x[2] \in 1..2 /\ y[2] \in 1..2 /\ x[1] # 0
          /\ x = <<x[1], x[2]>> /\ y = <<y[1], y[2]>>
      BY <2>2
    <3>2. e(x[1], x[2]) = e(x[1], y[2])
      BY <2>2, <3>1
    <3>3. x[2] = y[2]
      BY <1>3, <3>1, <3>2
    <3> QED BY <2>2, <3>1, <3>3
  <2> SUFFICES ASSUME NEW x \in index, NEW y \in index, f[x] = f[y] PROVE x = y
    OBVIOUS
  <2>3. /\ x[1] \in 0..Len(n) /\ y[1] \in 0..Len(n)
        /\ x \in pairs <=> x[1] # 0
        /\ y \in pairs <=> y[1] # 0
        /\ x[1] = 0 => x = <<0, 1>>
        /\ y[1] = 0 => y = <<0, 1>>
    BY <1>1
  <2> HIDE DEF f, pairs, index
  <2>4. CASE x[1] < y[1]
    BY <1>1, <2>1, <2>3, <2>4
  <2>5. CASE y[1] < x[1]
    BY <1>1, <2>1, <2>3, <2>5
  <2>6. CASE x[1] = y[1]
    BY <2>2, <2>3, <2>6
  <2> QED BY <1>1, <2>3, <2>4, <2>5, <2>6
<1>7. IsFiniteSet(index) /\ Cardinality(index) = 1 + 2 * Len(n)
  <2>1. IsFiniteSet(1..Len(n)) /\ Cardinality(1..Len(n)) = Len(n)
    BY <1>1, FS_Interval
  <2>2. IsFiniteSet(1..2) /\ Cardinality(1..2) = 2
    <3>1. 1 \in Int /\ 2 \in Int
      OBVIOUS
    <3>2. IsFiniteSet(1..2) /\ Cardinality(1..2) = IF 1 > 2 THEN 0 ELSE 2 - 1 + 1
      BY <3>1, FS_Interval
    <3> QED BY <3>2
  <2>3. IsFiniteSet(pairs) /\ Cardinality(pairs) = Len(n) * 2
    BY <2>1, <2>2, FS_Product
  <2>4. <<0, 1>> \notin pairs
    BY <1>1
  <2> HIDE DEF pairs
  <2>5. IsFiniteSet(index) /\ Cardinality(index) = Cardinality(pairs) + 1
    BY <2>3, <2>4, FS_AddElement
  <2>6. Len(n) \in Nat /\ \A k \in Nat : k * 2 + 1 = 1 + 2 * k
    BY <1>1
  <2>7. Cardinality(index) = Len(n) * 2 + 1
    BY <2>3, <2>5
  <2> HIDE DEF index
  <2> QED BY <2>5, <2>6, <2>7
<1> HIDE DEF f, index, pairs, slots
<1>8. f \in Bijection(index, slots)
  BY <1>4, <1>5, <1>6 DEF Bijection, Injection, Surjection, IsInjective
<1>9. Cardinality(slots) = Cardinality(index)
  BY <1>7, <1>8, FS_Bijection DEF ExistsBijection
<1> QED BY <1>7, <1>9 DEF slots, h

(* What is left of the types.                                              *)
CountInv == faults \in 0..MaxFaults /\ changes \in 0..MaxChanges

SinceInv == since \in 0..clock

EndTypes ==
  /\ aborted \in BOOLEAN
  /\ result \in {"none", "config_error", "PASS", "FAIL", "BLOCKED"}
  /\ evidence \in {"none", "unsummed", "complete"}

ProcsInv == procs \subseteq {StartOrder[i] : i \in 1..started}

GuardTypes == guard \in {"pdeathsig", "job", "none"} /\ protected \subseteq Members

(* What has passed the gates: nothing is started before the preflight.     *)
Passed == ParseConfig(Given) /\ ~Blocked

GateInv ==
  /\ scenario \in {"s1", "s5"} /\ config \in DOMAIN Configs /\ facts \in DOMAIN FactSets
  /\ pc = "preflight" => ParseConfig(Given)
  /\ started > 0 \/ pc \in Starts \cup Late => Passed

LEMMA LostAnswers ==
  ASSUME CountInv, SampleStep
  PROVE  \/ SampleAborts
         \/ \E n \in Nat : \E lost : Cardinality(lost) = n /\
              (SampleSettle(lost) \/ SampleWindow(lost) \/ SampleFailover(lost)
                 \/ SampleFlushNew(lost))
<1> SUFFICES ASSUME ~SampleAborts
             PROVE  \E n \in Nat : \E lost : Cardinality(lost) = n /\
                      (SampleSettle(lost) \/ SampleWindow(lost) \/ SampleFailover(lost)
                         \/ SampleFlushNew(lost))
  OBVIOUS
<1>1. PICK k \in 0..(MaxFaults - faults) : \E lost \in kSubset(k, Answering) :
        SampleSettle(lost) \/ SampleWindow(lost) \/ SampleFailover(lost) \/ SampleFlushNew(lost)
  BY DEF SampleStep
<1>2. PICK lost \in kSubset(k, Answering) :
        SampleSettle(lost) \/ SampleWindow(lost) \/ SampleFailover(lost) \/ SampleFlushNew(lost)
  BY <1>1
<1>3. k \in Nat /\ Cardinality(lost) = k
  BY DEF kSubset
<1> QED BY <1>2, <1>3

LEMMA CountStep == ASSUME CountInv, [Next]_vars PROVE CountInv'
<1>1. ASSUME NEW n \in Nat, Fault(n), changes' = changes PROVE CountInv'
  BY <1>1, BoundsValid DEF CountInv, Fault
<1>2. ASSUME faults' = faults,
             changes' = changes \/ (changes < MaxChanges /\ changes' = changes + 1)
      PROVE  CountInv'
  BY <1>2, BoundsValid DEF CountInv
<1>3. CASE SampleStep
  <2>1. CASE SampleAborts
    BY <1>2, <2>1 DEF SampleAborts, boundVars
  <2>2. ASSUME NEW n \in Nat, NEW lost, Cardinality(lost) = n,
               SampleSettle(lost) \/ SampleWindow(lost) \/ SampleFailover(lost)
                 \/ SampleFlushNew(lost)
        PROVE  CountInv'
    <3>1. Fault(n) /\ changes' = changes
      BY <2>2 DEF SampleSettle, SampleWindow, SampleFailover, SampleFlushNew, Observe
    <3> QED BY <1>1, <3>1
  <2> QED BY <1>3, <2>1, <2>2, LostAnswers
<1>4. CASE ~SampleStep
  <2>1. \/ Fault(1) /\ changes' = changes
        \/ /\ faults' = faults
           /\ changes' = changes \/ (changes < MaxChanges /\ changes' = changes + 1)
    BY <1>4
       DEF Next, HarnessStep, LoadConfig, Preflight, CheckPorts, Fork, Popen, Adopt, Record,
           WaitHub,
         WaitMasterRegistered, WaitReady, WaitFor, ProbeAll, ProbeNew, Probe, StopMaster,
         StopProcess, Judge, ShutdownDone, Classify, WriteEvidence, ShutdownStop, SetDeathSignal,
         ChildFails, KillTakesEffect, childUnchanged, Interrupt, InterruptEnd, HardKill,
         DeathSignals, Ended, ClusterStep, HubCatchesUp, WriteState, Register, Promote, Yield,
         Misbehave, worldUnchanged, NoFault, vars, boundVars
  <2>2. 1 \in Nat
    OBVIOUS
  <2> QED BY <1>1, <1>2, <2>1, <2>2
<1> QED BY <1>3, <1>4

LEMMA SinceStep == ASSUME SinceInv, clock \in Nat, CountInv, [Next]_vars PROVE SinceInv'
<1> USE DEF SinceInv
<1>1. CASE SampleStep
  <2>1. CASE SampleAborts
    BY <2>1 DEF SampleAborts, Abort, Forget
  <2>2. ASSUME NEW n \in Nat, NEW lost, Cardinality(lost) = n,
               SampleSettle(lost) \/ SampleWindow(lost) \/ SampleFailover(lost)
                 \/ SampleFlushNew(lost)
        PROVE  SinceInv'
    <3>1. TimePasses(lost)
      BY <2>2 DEF SampleSettle, SampleWindow, SampleFailover, SampleFlushNew, Observe
    <3>2. clock' \in Nat /\ clock <= clock'
      BY <2>2, <3>1 DEF TimePasses
    <3>3. since' = since \/ since' = clock'
      BY <2>2 DEF SampleSettle, SampleWindow, SampleFailover, SampleFlushNew, SampleFor
    <3> QED BY <3>2, <3>3
  <2> QED BY <1>1, <2>1, <2>2, LostAnswers
<1>2. CASE ~SampleStep
  <2>1. \/ UNCHANGED <<clock, since>>
        \/ clock' = 0 /\ since' = 0
        \/ clock' = clock /\ since' = clock
    BY <1>2
       DEF Next, HarnessStep, LoadConfig, Preflight, CheckPorts, Fork, Popen, Adopt, Record,
           WaitHub,
         WaitMasterRegistered, WaitReady, WaitFor, ProbeAll, ProbeNew, Probe, StopMaster,
         Judge, ShutdownDone, Classify, WriteEvidence, ShutdownStop, SetDeathSignal,
         ChildFails, KillTakesEffect, childUnchanged, Interrupt, InterruptEnd, HardKill,
         DeathSignals, Ended, ClusterStep, HubCatchesUp, WriteState, Register, Promote, Yield,
         worldUnchanged, timeVars, vars, obsVars, Abort, NoAbort, Forget, DropUnwritten
  <2> QED BY <2>1
<1> QED BY <1>1, <1>2

LEMMA EndStep == ASSUME EndTypes, [Next]_vars PROVE EndTypes'
<1>1. VerdictFor(data.reasons) \in {"PASS", "FAIL", "BLOCKED"}
  BY DEF VerdictFor
<1>2. FinalVerdict \in {"PASS", "FAIL", "BLOCKED"}
  BY <1>1 DEF FinalVerdict, VerdictOf
<1>3. CASE SampleStep
  BY <1>3
     DEF SampleStep, SampleAborts, SampleSettle, SampleWindow, SampleFailover, SampleFlushNew,
       Abort, EndTypes, endVars
<1>4. CASE ~SampleStep
  BY <1>2, <1>4
     DEF Next, HarnessStep, LoadConfig, Preflight, CheckPorts, Fork, Popen, Adopt, Record, WaitHub,
       WaitMasterRegistered, WaitReady, WaitFor, ProbeAll, ProbeNew, Probe, StopMaster,
       Judge, ShutdownDone, Classify, WriteEvidence, ShutdownStop, SetDeathSignal,
       ChildFails, KillTakesEffect, childUnchanged, Interrupt, InterruptEnd, HardKill,
       DeathSignals, Ended, ClusterStep, HubCatchesUp, WriteState, Register, Promote, Yield,
       worldUnchanged, vars, endVars, Abort, NoAbort, DropUnwritten, EndTypes
<1> QED BY <1>3, <1>4

LEMMA ProcsStep == ASSUME RunInv, ProcsInv, [Next]_vars PROVE ProcsInv'
<1> USE DEF ProcsInv
<1>1. started \in Nat
  BY DEF RunInv, StartInv
<1>2. CASE UNCHANGED <<procs, started>>
  BY <1>2
<1>3. CASE Fork
  BY <1>1, <1>3 DEF Fork
<1>4. CASE Record
  <2>1. procs' = procs \cup {StartOrder[started]} /\ started' = started /\ started > 0
    BY <1>4 DEF Record, RunInv, StartInv
  <2> QED BY <1>1, <2>1
<1>5. CASE ~Fork /\ ~Record
  <2>1. UNCHANGED <<procs, started>>
    BY <1>5
       DEF Next, HarnessStep, LoadConfig, Preflight, CheckPorts, Popen, Adopt, WaitHub,
         WaitMasterRegistered, WaitReady, WaitFor, ProbeAll, ProbeNew, Probe, StopMaster,
         SampleStep, SampleAborts, SampleSettle, SampleWindow, SampleFailover, SampleFlushNew,
         Judge, ShutdownDone, Classify, WriteEvidence, ShutdownStop, SetDeathSignal,
         ChildFails, KillTakesEffect, childUnchanged, Interrupt, InterruptEnd, HardKill,
         DeathSignals, Ended, ClusterStep, HubCatchesUp, WriteState, Register, Promote, Yield,
         worldUnchanged, vars, childVars
  <2> QED BY <1>2, <2>1
<1> QED BY <1>3, <1>4, <1>5

LEMMA GuardStep == ASSUME RunInv, GuardTypes, [Next]_vars PROVE GuardTypes'
<1> USE DEF GuardTypes
<1>1. CASE Adopt
  <2>1. UNCHANGED guard /\ protected' \subseteq protected \cup {StartOrder[started]}
    BY <1>1 DEF Adopt
  <2>2. started \in 0..Len(StartOrder) /\ started > 0
    BY <1>1 DEF Adopt, Goes, RunInv, StartInv
  <2>3. started \in 1..Len(StartOrder)
    BY <2>2, StartOrderFacts
  <2> QED BY <2>1, <2>3, StartOrderFacts
<1>2. CASE \E c \in Members : SetDeathSignal(c)
  BY <1>2 DEF SetDeathSignal
<1>3. CASE ~Adopt /\ ~\E c \in Members : SetDeathSignal(c)
  <2>1. UNCHANGED guardVars
    BY <1>3
       DEF Next, HarnessStep, LoadConfig, Preflight, CheckPorts, Fork, Popen, Record, WaitHub,
         WaitMasterRegistered, WaitReady, WaitFor, ProbeAll, ProbeNew, Probe, StopMaster,
         SampleStep, SampleAborts, SampleSettle, SampleWindow, SampleFailover, SampleFlushNew,
         Judge, ShutdownDone, Classify, WriteEvidence, ShutdownStop, ChildFails,
         KillTakesEffect, childUnchanged, Interrupt, InterruptEnd, HardKill,
         DeathSignals, Ended, ClusterStep, HubCatchesUp, WriteState, Register, Promote, Yield,
         worldUnchanged, vars, childVars
  <2> QED BY <2>1 DEF guardVars
<1> QED BY <1>1, <1>2, <1>3

LEMMA GateStep == ASSUME RunInv, GateInv, [Next]_vars PROVE GateInv'
<1>1. UNCHANGED gateVars
  BY DEF Next, HarnessStep, LoadConfig, Preflight, CheckPorts, Fork, Popen, Adopt, Record, WaitHub,
       WaitMasterRegistered, WaitReady, WaitFor, ProbeAll, ProbeNew, Probe, StopMaster,
       SampleStep, SampleAborts, SampleSettle, SampleWindow, SampleFailover, SampleFlushNew,
       Judge, ShutdownDone, Classify, WriteEvidence, ShutdownStop, SetDeathSignal,
       ChildFails, KillTakesEffect, childUnchanged, Interrupt, InterruptEnd, HardKill,
       DeathSignals, Ended, ClusterStep, HubCatchesUp, WriteState, Register, Promote, Yield,
       worldUnchanged, vars
<1>2. ParseConfig(Given)' = ParseConfig(Given) /\ Passed' = Passed
  BY <1>1 DEF gateVars, Given, Host, Passed, Blocked
<1>3. /\ pc' = "preflight" => pc = "preflight" \/ LoadConfig
      /\ pc' \in Starts \cup Late => pc \in Starts \cup Late \/ Preflight
      /\ started' # started => pc \in Starts
  BY DEF Next, HarnessStep, LoadConfig, Preflight, CheckPorts, Fork, Popen, Adopt, Record, WaitHub,
       WaitMasterRegistered, WaitReady, WaitFor, ProbeAll, ProbeNew, Probe, StopMaster,
       SampleStep, SampleAborts, SampleSettle, SampleWindow, SampleFailover, SampleFlushNew,
       SampleFor,
       Judge, ShutdownDone, Classify, WriteEvidence, ShutdownStop, SetDeathSignal,
       ChildFails, KillTakesEffect, childUnchanged, Interrupt, InterruptEnd, HardKill,
       DeathSignals, Ended, ClusterStep, HubCatchesUp, WriteState, Register, Promote, Yield,
       worldUnchanged, vars, Goes, Abort, Starts, Stable, Late
<1>4. LoadConfig /\ pc' = "preflight" => ParseConfig(Given)
  BY DEF LoadConfig
<1>5. Preflight /\ pc' \in Starts \cup Late => Passed
  BY DEF Preflight, GateInv, Passed, Starts, Stable, Late
<1> QED BY <1>1, <1>2, <1>3, <1>4, <1>5 DEF GateInv, gateVars

HarnessInv ==
  RunInv /\ DataInv /\ CountInv /\ SinceInv /\ EndTypes /\ ProcsInv
    /\ GuardTypes /\ GateInv

LEMMA HarnessAlways == Spec => []HarnessInv
<1>1. Init => HarnessInv
  <2> SUFFICES ASSUME Init PROVE HarnessInv
    OBVIOUS
  <2>1. CountInv /\ SinceInv /\ EndTypes /\ ProcsInv /\ GuardTypes
    <3>1. CountInv /\ SinceInv
      BY BoundsValid DEF Init, CountInv, SinceInv
    <3>2. ProcsInv /\ GuardTypes
      BY DEF Init, ProcsInv, GuardTypes
    <3>3. EndTypes
      BY Zenon DEF Init, EndTypes
    <3> QED BY <3>1, <3>2, <3>3
  <2>2. GateInv
    BY DEF Init, GateInv, Starts, Stable, Late
  <2> QED BY <2>1, <2>2, RunInit, DataInit DEF HarnessInv
<1>2. HarnessInv /\ [Next]_vars => HarnessInv'
  <2> SUFFICES ASSUME HarnessInv, [Next]_vars PROVE HarnessInv'
    OBVIOUS
  <2>1. RunInv' /\ DataInv'
    BY RunStep, DataStep DEF HarnessInv
  <2>2. CountInv' /\ EndTypes' /\ ProcsInv' /\ GuardTypes' /\ GateInv'
    BY CountStep, EndStep, ProcsStep, GuardStep, GateStep DEF HarnessInv
  <2>3. clock \in Nat
    BY DEF HarnessInv, DataInv, DataTypes
  <2>4. SinceInv'
    BY <2>3, SinceStep DEF HarnessInv
  <2> QED BY <2>1, <2>2, <2>4 DEF HarnessInv
<1> QED BY <1>1, <1>2, PTL DEF Spec

LEMMA TypesHold == HarnessInv => TypeOK
<1> SUFFICES ASSUME HarnessInv PROVE TypeOK
  OBVIOUS
<1>1. scenario \in {"s1", "s5"} /\ config \in Nat /\ facts \in Nat
  BY InputsValid DEF HarnessInv, GateInv
<1>2. pc \in Phases /\ started \in 0..Len(StartOrder)
  BY DEF HarnessInv, RunInv, StartInv
<1>3. /\ child \in [Members -> {"none", "forked", "alive", "sick", "exited"}]
      /\ stopped \in [Members -> {"no", "confirmed", "unconfirmed"}]
  BY DEF HarnessInv, RunInv, ChildInv, ChildStates
<1>4. procs \subseteq {StartOrder[i] : i \in 1..started} /\ since \in 0..clock
  BY DEF HarnessInv, ProcsInv, SinceInv
<1>5. clock \in Nat /\ conv \in Nat \cup {Never}
  BY DEF HarnessInv, DataInv, DataTypes
<1>6. /\ role \in [Nodes -> {"MASTER", "FOLLOWER"}]
      /\ hubView \in [Nodes -> {"MASTER", "FOLLOWER", "absent"}]
  BY DEF HarnessInv, DataInv, WorldTypes, RoleNames, Views
<1>7. EndTypes /\ CountInv /\ GuardTypes
  BY DEF HarnessInv
<1> QED BY <1>1, <1>2, <1>3, <1>4, <1>5, <1>6, <1>7 DEF TypeOK, EndTypes, CountInv, GuardTypes

LEMMA PassedFacts ==
  ASSUME GateInv, Passed
  PROVE  /\ Host.secret >= MinSecretLength /\ Host.memory >= MinFreeFloor
         /\ \A p \in Host.ports : p = [connects |-> FALSE, wildcard |-> TRUE, loopback |-> TRUE]
         /\ (Host.files.git => ~Host.files.modified) /\ ~Host.files.missing
         /\ Host.accepted \/ ~Host.wildcardBinds
<1> DEFINE c1 == SecretGate(Host.secret)
           c2 == MemoryGate(Host.memory, Given.minFree)
           c3 == RuntimeIntegrity(Host.files)
           c4 == \A p \in Host.ports : ~PortInUse(p)
           c5 == ClockCheck(SingleHost(Given), Host.offsets)
           c6 == ExposureAudit(Host.wildcardBinds, Host.accepted)
           passed == [secret |-> c1, memory |-> c2, runtime |-> c3, ports |-> c4, clock |-> c5,
                      exposure |-> c6]
<1>1. {check \in DOMAIN passed : ~passed[check]} = {}
  BY DEF Passed, Blocked, BlockedChecks
<1>2. c1 /\ c2 /\ c3 /\ c4 /\ c6
  <2> HIDE DEF c1, c2, c3, c4, c5, c6
  <2>1. \A check \in {"secret", "memory", "runtime", "ports", "clock", "exposure"} : passed[check]
    BY <1>1
  <2>2. passed["secret"] /\ passed["memory"] /\ passed["runtime"] /\ passed["ports"]
          /\ passed["exposure"]
    BY <2>1
  <2> QED BY <2>2
<1>3. /\ Host.memory \in Int /\ Given.minFree \in Int /\ MinFreeFloor \in Int
      /\ Host.ports \subseteq [connects : BOOLEAN, wildcard : BOOLEAN, loopback : BOOLEAN]
  BY InputsValid DEF GateInv, Host, Given
<1>4. Given.minFree >= MinFreeFloor
  BY DEF Passed, ParseConfig
<1>5. Host.memory >= MinFreeFloor
  BY <1>2, <1>3, <1>4 DEF MemoryGate
<1>6. ASSUME NEW p \in Host.ports
      PROVE  p = [connects |-> FALSE, wildcard |-> TRUE, loopback |-> TRUE]
  <2>1. p \in [connects : BOOLEAN, wildcard : BOOLEAN, loopback : BOOLEAN]
    BY <1>3
  <2>2. ~p.connects /\ p.wildcard /\ p.loopback
    BY <1>2 DEF PortInUse
  <2> QED BY <2>1, <2>2
<1> QED BY <1>2, <1>5, <1>6 DEF SecretGate, RuntimeIntegrity, ReportedModified, ExposureAudit

(* Nothing starts unless preflight passes (s1s5_harness.py:1803), and no   *)
(* two endpoints of a configuration that is run are the same (316-328),    *)
(* for any configurations and hosts.                                       *)
THEOREM GatesAreHeld == Spec => []GatesHold
<1>1. ASSUME HarnessInv, started = 1 PROVE NothingStartsBlocked /\ EndpointsNeverShared
  <2>1. GateInv /\ Passed
    BY <1>1 DEF HarnessInv, GateInv
  <2>2. NothingStartsBlocked
    BY <2>1, PassedFacts DEF NothingStartsBlocked
  <2>3. EndpointsDistinct(Given.hub, Given.nodes)
    BY <2>1 DEF Passed, ParseConfig
  <2>4. Given.nodes \in Seq({Given.nodes[k] : k \in DOMAIN Given.nodes})
    BY <2>1, InputsValid DEF GateInv, Given
  <2>5. EndpointsNeverShared
    BY <2>3, <2>4, DistinctCount DEF EndpointsNeverShared
  <2> QED BY <2>2, <2>5
<1>2. HarnessInv => NothingStartsBlocked /\ EndpointsNeverShared
  BY <1>1 DEF NothingStartsBlocked, EndpointsNeverShared
<1>3. HarnessInv => GatesHold
  BY <1>2, TypesHold DEF GatesHold
<1> QED BY <1>3, HarnessAlways, PTL
=============================================================================
