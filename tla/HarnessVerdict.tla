--------------------------- MODULE HarnessVerdict ---------------------------
(***************************************************************************)
(* What the S1/S5 harness concludes from what it recorded: the reasons of  *)
(* classify_stable_master (S1, and the baseline of S5) and of              *)
(* classify_failover (S5), and the verdict they give (s1s5_harness.py).    *)
(* A sample is [t, nodes, hub]: when it was begun, what each node answered *)
(* (its role, or "none"), and the roles the hub listed, or HubSilent.      *)
(* Metrics and warnings, which no verdict depends on, are left out, and so *)
(* is the name a node answers with (identity_mismatch).                    *)
(***************************************************************************)
EXTENDS Integers, Sequences, FiniteSets, FiniteSetsExt

CONSTANTS
  Nodes,              \* the node ids, whose order decides who is promoted
  Master,             \* the node that starts as MASTER
  HubSilent,          \* the hub gave no answer
  MinAvailability,    \* min_availability, in percent
  MaxGap,             \* max_observation_gap_s
  MinPromotionDelay,  \* min_promotion_delay_s
  PromotionDeadline,  \* s5_promotion_deadline_s
  Hold,               \* s5_hold_s
  KillGrace           \* how long a stopped master may still answer (2 s)

ASSUME ClusterValid ==
  /\ Nodes \subseteq Nat /\ IsFiniteSet(Nodes) /\ Master \in Nodes /\ Nodes # {Master}

ASSUME TimesValid ==
  /\ MinAvailability \in 1..100
  /\ {MaxGap, MinPromotionDelay, PromotionDeadline, Hold, KillGrace} \subseteq Nat

Followers == Nodes \ {Master}

(* expected_candidate: the greatest id among the survivors.                *)
Candidate == Max(Followers)

StableRole(n) == IF n = Master THEN "MASTER" ELSE "FOLLOWER"
FailoverRole(n) == IF n = Candidate THEN "MASTER" ELSE "FOLLOWER"

Observed(s, n) == s.nodes[n] # "none"
Masters(s, among) == {n \in among : s.nodes[n] = "MASTER"}

(* The reasons of a set of pairs of a reason and whether it is there.      *)
Reasons(why) == {r[1] : r \in {x \in why : x[2]}}

----------------------------------------------------------------------------
(* _availability, from start on: the share of the samples in which a node  *)
(* answered, and a time without an answer longer than max_observation_gap, *)
(* both ends of the window included.                                       *)

From(samples, start) == {i \in DOMAIN samples : samples[i].t >= start}
Answers(samples, n, start) == {i \in From(samples, start) : Observed(samples[i], n)}

FewAnswers(samples, n, start) ==
  100 * Cardinality(Answers(samples, n, start)) < MinAvailability * Cardinality(From(samples, start))

LongGap(points) ==
  \E a \in points : (\E b \in points : b > a) /\ \A b \in points : b > a => b - a > MaxGap

AnswerTimes(samples, n, start) == {samples[i].t : i \in Answers(samples, n, start)}

(* Mutant: the time from the last answer to the end is not looked at.      *)
GapInsideOnly(samples, n, start, end) ==
  \/ FewAnswers(samples, n, start)
  \/ LongGap({start} \cup AnswerTimes(samples, n, start))

ObservabilityGap(samples, n, start, end) ==
  \/ FewAnswers(samples, n, start)
  \/ LongGap({start, end} \cup AnswerTimes(samples, n, start))

(* _qs_reasons, for the results of the probe and whether the logs of the   *)
(* nodes confirm them.                                                     *)
NoProbe == [results |-> {}, logged |-> TRUE]

QsReasons(qs) ==
  LET accepted == "ACCEPTED" \in qs.results
      unexpected == "UNEXPECTED_RESPONSE" \in qs.results
  IN  Reasons({<<"distributed_sync_accepted", accepted>>,
               <<"qs_unexpected_response", ~accepted /\ unexpected>>,
               <<"qs_inconclusive", ~accepted /\ ~unexpected
                                      /\ ~(qs.results \subseteq {"REFUSED_CLOSED"})>>,
               <<"qs_not_corroborated", ~qs.logged>>})

Inconclusive ==
  {"no_observations", "observability_gap", "hub_unobservable", "qs_inconclusive",
   "qs_not_corroborated"}

(* Mutant: there is no third verdict.                                      *)
VerdictNoBlocked(reasons) == IF reasons = {} THEN "PASS" ELSE "FAIL"

(* verdict_for.  A reason of the baseline counts as the same reason.       *)
VerdictFor(reasons) ==
  IF ~(reasons \subseteq Inconclusive) THEN "FAIL"
  ELSE IF reasons # {} THEN "BLOCKED" ELSE "PASS"

----------------------------------------------------------------------------
(* A log is a set of [event, t]; the events are "promoted" (promotion      *)
(* started or done), "missing" (master_missing), and "written" (state that *)
(* must not be written with three nodes).                                  *)

LogEvents(log, from, until) == {e.event : e \in {x \in log : x.t >= from /\ x.t < until}}

HubUnobservable(samples) ==
  100 * Cardinality({i \in DOMAIN samples : samples[i].hub # HubSilent})
    < MinAvailability * Len(samples)

HubDiverges(s) == s.hub # HubSilent /\ \E n \in Nodes : s.hub[n] # StableRole(n)

(* classify_stable_master.                                                 *)
StableReasons(samples, start, end, events, qs) ==
  LET some(P(_)) == \E i \in DOMAIN samples : P(samples[i])
  IN  IF samples = <<>> THEN {"no_observations"}
      ELSE QsReasons(qs) \cup Reasons({
        <<"follower_promoted", some(LAMBDA s : Masters(s, Followers) # {})>>,
        <<"multiple_masters", some(LAMBDA s : Cardinality(Masters(s, Nodes)) >= 2)>>,
        <<"master_role_lost", some(LAMBDA s : s.nodes[Master] \notin {"MASTER", "none"})>>,
        <<"hub_role_divergence", some(HubDiverges)>>,
        <<"hub_unobservable", HubUnobservable(samples)>>,
        <<"log_promoted", "promoted" \in events>>,
        <<"log_master_missing", "missing" \in events>>,
        <<"log_written", "written" \in events>>,
        <<"observability_gap", \E n \in Nodes : ObservabilityGap(samples, n, start, end)>>})

(* final_ok: the survivors that answer have the roles of the end.          *)
FinalOk(s) == \A n \in Followers : s.nodes[n] \in {"none", FailoverRole(n)}

(* The samples after the stop of the master in which the candidate is      *)
(* MASTER, those from which on the roles are the final ones, and whether   *)
(* these have held.                                                        *)
PromotedAt(post) == {i \in DOMAIN post : post[i].nodes[Candidate] = "MASTER"}

Settled(post) ==
  {i \in DOMAIN post : /\ \E p \in PromotedAt(post) : p <= i
                      /\ \A j \in i..Len(post) : FinalOk(post[j])}

Held(post) == \E i \in Settled(post) : post[Len(post)].t - post[i].t >= Hold

Converged(post, i) == i \in Settled(post) /\ (i - 1) \notin Settled(post)

(* classify_failover, before the probe of the new master is looked at; hub *)
(* is its last answer, and times are counted from t_kill.                  *)
FailoverWhy(post, hub, stopped, events) ==
  LET within(t) == \E i \in PromotedAt(post) : post[i].t <= t
      some(P(_)) == \E i \in DOMAIN post : P(post[i])
  IN  Reasons({
        <<"master_not_stopped", ~stopped>>,
        <<"still_serving", some(LAMBDA s : s.t >= KillGrace /\ Observed(s, Master))>>,
        <<"non_candidate", some(LAMBDA s : Masters(s, Followers \ {Candidate}) # {})>>,
        <<"multiple_masters", some(LAMBDA s : Cardinality(Masters(s, Followers)) >= 2)>>,
        <<"no_promotion", ~within(PromotionDeadline)>>,
        <<"premature_promotion", within(MinPromotionDelay - 1)>>,
        <<"not_converged", PromotedAt(post) # {} /\ ~Held(post)>>,
        <<"observability_gap", Held(post) /\ \E i \in DOMAIN post : Converged(post, i) /\
             \E n \in Followers : ObservabilityGap(post, n, post[i].t, post[Len(post)].t)>>,
        <<"hub_unobservable", hub = HubSilent>>,
        <<"hub_not_converged", hub # HubSilent /\ \E n \in Followers : hub[n] # FailoverRole(n)>>,
        <<"hub_not_reaped", hub # HubSilent /\ hub[Master] # "absent">>,
        <<"state_written", "written" \in events>>})

(* Mutant: a promotion is good whenever it comes.                          *)
FailoverReasonsAnyTime(post, hub, stopped, events, qsNew) ==
  QsReasons(qsNew) \cup (FailoverWhy(post, hub, stopped, events) \ {"premature_promotion"})

FailoverReasons(post, hub, stopped, events, qsNew) ==
  IF post = <<>> THEN {"no_observations"} \cup (IF stopped THEN {} ELSE {"master_not_stopped"})
  ELSE QsReasons(qsNew) \cup FailoverWhy(post, hub, stopped, events)
=============================================================================
