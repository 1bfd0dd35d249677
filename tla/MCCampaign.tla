----------------------------- MODULE MCCampaign -----------------------------
(* Nodes 1, 2 and 3 as NODE-A, NODE-B and NODE-C, and a plan of two runs.   *)
EXTENDS Campaign

MCStartOrder == <<0, 1, 2, 3>>

MCSpec(id, web, tcp, r) == [id |-> id, web |-> web, tcp |-> tcp, role |-> r]

MCTopologies ==
  {<<MCSpec(1, 11, 12, "MASTER"), MCSpec(2, 21, 22, "FOLLOWER"), MCSpec(3, 31, 32, "FOLLOWER")>>,
   <<MCSpec(1, 11, 12, "MASTER"), MCSpec(2, 21, 22, "FOLLOWER"), MCSpec(3, 31, 21, "FOLLOWER")>>}

(* The plans: runs of three polls without a fault and of two with one, of   *)
(* one poll with two faults of the cluster, of slow polls, and of two runs  *)
(* of one poll; one of an executor that puts no run id into the summary.    *)
MCPlan(n, polls, slow, observed, named, kinds, faults) ==
  [samples |-> n, timeout |-> polls - 1, slow |-> slow, observer |-> observed,
   named |-> named, faults |-> kinds, trouble |-> faults]

Anything == {"cluster", "host"}

MCPlans ==
  {MCPlan(1, 3, 0, TRUE, TRUE, {}, 0), MCPlan(1, 2, 0, FALSE, TRUE, Anything, 1),
   MCPlan(1, 1, 0, TRUE, TRUE, {"cluster"}, 2), MCPlan(1, 2, 1, TRUE, TRUE, {}, 0),
   MCPlan(1, 1, 1, FALSE, FALSE, {}, 0), MCPlan(2, 1, 0, FALSE, TRUE, {"host"}, 1)}

(* Sorted is what sorting gives.                                            *)
ASSUME SortedSorts ==
  \A n \in 1..4 : \A s \in [1..n -> 0..3] : Sorted(s) = SortSeq(s, <)
=============================================================================
