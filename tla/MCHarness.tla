------------------------------ MODULE MCHarness ------------------------------
(* Three nodes and the hub on one host; node 1 starts as MASTER, so node 3  *)
(* is to be promoted.  Times are scaled to a few samples.                   *)
EXTENDS HarnessRun

MCStartOrder == <<0, 1, 2, 3>>

MCTimingBounds == [settle |-> [low |-> 1, high |-> 3], hold |-> [low |-> 2, high |-> 3]]

MCNode(id, master, host, web, tcp) ==
  [id |-> id, role |-> IF master THEN "MASTER" ELSE "FOLLOWER", host |-> host,
   web |-> web, tcp |-> tcp, local |-> TRUE]

MCConfig(hub, nodes, timing, minFree) ==
  [size |-> 3, hub |-> [host |-> hub, port |-> 85, local |-> TRUE], nodes |-> nodes,
   timing |-> timing, minFree |-> minFree]

MCNodes(w1, t1, w2) ==
  <<MCNode(1, TRUE, "loopback", w1, t1), MCNode(2, FALSE, "loopback", w2, 22),
    MCNode(3, FALSE, "lan", 31, 32)>>

MCConfigs ==
  <<MCConfig("loopback", MCNodes(11, 12, 21), [settle |-> 1], 20),
   MCConfig("loopback", MCNodes(11, 11, 21), [settle |-> 1], 20),
   MCConfig("loopback", MCNodes(11, 12, 12), [settle |-> 1], 20),
   MCConfig("loopback", MCNodes(85, 12, 21), [settle |-> 1], 20),
   MCConfig("<placeholder>", MCNodes(11, 12, 21), [settle |-> 1], 20),
   MCConfig("loopback", MCNodes(11, 12, 21), [settle |-> 0], 20),
   MCConfig("loopback", MCNodes(11, 12, 21), [settle |-> 1], 10)>>

(* Port 0 is free; each other number lacks something a free port has.       *)
MCPort(i) == [connects |-> i % 2 = 1, wildcard |-> (i \div 2) % 2 = 0, loopback |-> i \div 4 = 0]

(* A host that passes, without git to tell that its runtime was modified,   *)
(* and each way in which one thing is refused.                              *)
MCPassingFacts ==
  [secret |-> 16, memory |-> 20,
   files |-> [missing |-> FALSE, git |-> FALSE, modified |-> TRUE, otherCore |-> FALSE],
   ports |-> {MCPort(0)}, offsets |-> <<>>, wildcardBinds |-> TRUE, accepted |-> TRUE]

MCFactSets ==
  <<MCPassingFacts,
    [MCPassingFacts EXCEPT !.secret = 15], [MCPassingFacts EXCEPT !.accepted = FALSE],
    [MCPassingFacts EXCEPT !.memory = 19], [MCPassingFacts EXCEPT !.memory = Unmeasured],
    [MCPassingFacts EXCEPT !.files.git = TRUE]>>
  \o [i \in 1..7 |-> [MCPassingFacts EXCEPT !.ports = {MCPort(0), MCPort(i)}]]

(* A bound: scenario and guard are chosen once, and guards differ only in   *)
(* how a child is started and what ends it, so S1 has each guard and S5 the *)
(* one of Linux.                                                            *)
GuardOfScenario == scenario = "s5" => guard = "pdeathsig"
==============================================================================
