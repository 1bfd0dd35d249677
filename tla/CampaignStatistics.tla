------------------------- MODULE CampaignStatistics -------------------------
(***************************************************************************)
(* The aggregation of a campaign (statistical_resilience.py): validate_run *)
(* on each summary, and the statistics of the valid ones.  Latencies are   *)
(* whole numbers; a percentile is kept times 100 and a mean as a sum, so   *)
(* that nothing is rounded.  The standard deviation is left out.           *)
(***************************************************************************)
EXTENDS FailoverTimeline

TimingFields == {"t0_to_t1", "t1_to_t3", "t3_to_t4", "t0_to_t4"}

(* validate_run: whether a summary is accepted.  It must name its run and  *)
(* its experiment.                                                         *)
ValidateRun(summary) ==
  /\ summary.run # NoRun /\ summary.experiment # ""
  /\ summary.classification \in {"valid", "invalid"}
  /\ \A f \in TimingFields \cap DOMAIN summary.timing : summary.timing[f] >= 0
  /\ summary.converged \in BOOLEAN /\ summary.split \in BOOLEAN
  /\ summary.classification = "valid" =>
       /\ TimingFields \subseteq DOMAIN summary.timing
       /\ summary.promoted # NoNode /\ summary.reasons = {}
  /\ summary.classification = "invalid" => summary.reasons # {}

-----------------------------------------------------------------------------
(* percentile, for p in 0..100 and samples in any order.                   *)

(* sorted: at place k is the least sample that k of them do not exceed.    *)
Sorted(samples) ==
  LET upTo(v) == {i \in DOMAIN samples : samples[i] <= v}
  IN  [k \in DOMAIN samples |-> Min({v \in ToSet(samples) : Cardinality(upTo(v)) >= k})]

Rank(n, p) == (n - 1) * p

LowerIndex(n, p) == 1 + Rank(n, p) \div 100

Weight(n, p) == Rank(n, p) % 100

UpperIndex(n, p) == IF Rank(n, p) % 100 = 0 THEN LowerIndex(n, p) ELSE LowerIndex(n, p) + 1

Percentile(samples, p) ==
  LET ordered == Sorted(samples)
      n == Len(samples)
  IN  ordered[LowerIndex(n, p)] * (100 - Weight(n, p)) + ordered[UpperIndex(n, p)] * Weight(n, p)

Summarize(samples) ==
  [count |-> Len(samples), least |-> Min(ToSet(samples)), most |-> Max(ToSet(samples)),
   sum |-> FoldLeft(LAMBDA x, y : x + y, 0, samples),
   p50 |-> Percentile(samples, 50), p90 |-> Percentile(samples, 90),
   p95 |-> Percentile(samples, 95), p99 |-> Percentile(samples, 99)]

-----------------------------------------------------------------------------
(* summarize_campaign on a sequence of summaries.                          *)

(* The valid ones, in some order: nothing that is made of them depends on  *)
(* it.                                                                     *)
ValidOf(records) ==
  LET valid == SetToSeq({i \in DOMAIN records : records[i].classification = "valid"})
  IN  [k \in DOMAIN valid |-> records[valid[k]]]

CampaignAccepted(records) ==
  /\ \A i \in DOMAIN records : ValidateRun(records[i])
  /\ \A i, j \in DOMAIN records : records[i].run = records[j].run => i = j
  /\ \E i \in DOMAIN records : records[i].classification = "valid"
  /\ \A i, j \in DOMAIN records : records[i].experiment = records[j].experiment

SummarizeCampaign(records) ==
  LET valid == ValidOf(records)
      Count(P(_)) == Cardinality({i \in DOMAIN records : P(records[i])})
  IN  [total |-> Len(records), valid |-> Len(valid), invalid |-> Len(records) - Len(valid),
       timing |-> [f \in TimingFields |->
                     Summarize([i \in DOMAIN valid |-> valid[i].timing[f]])],
       converged |-> Count(LAMBDA s : s.converged), split |-> Count(LAMBDA s : s.split),
       promoted |-> [n \in {valid[i].promoted : i \in DOMAIN valid} |->
                       Cardinality({i \in DOMAIN valid : valid[i].promoted = n})]]
=============================================================================
