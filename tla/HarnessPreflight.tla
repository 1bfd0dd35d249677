-------------------------- MODULE HarnessPreflight --------------------------
(***************************************************************************)
(* What the S1/S5 harness demands before it starts anything: a             *)
(* configuration that parse_config accepts, and a preflight in which every *)
(* check passes (s1s5_harness.py).  Hosts are abstracted to the few the    *)
(* rules tell apart, times to the unit in which the bounds are given.      *)
(***************************************************************************)
EXTENDS Integers, Sequences, FiniteSets, SequencesExt

CONSTANTS
  ClusterSize,      \* EXPECTED_CLUSTER_SIZE
  HubPort,          \* HUB_PORT
  MinFreeFloor,     \* MIN_FREE_MB_FLOOR
  MinSecretLength,  \* MIN_SECRET_LENGTH
  MaxClockOffset,   \* MAX_ABS_NTP_OFFSET_S
  TimingBounds      \* TIMING_BOUNDS: for each key, its lowest and highest value

----------------------------------------------------------------------------
(* parse_config.  A member is [host, port...]; "loopback" is any spelling  *)
(* of the local address.                                                   *)

IsLoopback(host) == host = "loopback"

PlainHost(host) == host \notin {"", "<placeholder>"}

Port(p) == p \in 1..65535

NodeValid(n) ==
  /\ n.role \in {"MASTER", "FOLLOWER"}
  /\ PlainHost(n.host)
  /\ Port(n.web) /\ Port(n.tcp)

HubValid(hub) == PlainHost(hub.host) /\ hub.port = HubPort

OneMaster(nodes) == Cardinality({i \in DOMAIN nodes : nodes[i].role = "MASTER"}) = 1

(* The key under which an endpoint is entered: all local members share one *)
(* host, whatever address they are given.                                  *)
HostKey(m) == IF m.local THEN "local" ELSE m.host

NodeEndpoints(n) == <<<<HostKey(n), n.web>>, <<HostKey(n), n.tcp>>>>

(* Mutant: the two ports of one node are not compared with each other.     *)
EndpointsDistinctBetweenNodes(hub, nodes) ==
  LET ofNode(i) == ToSet(NodeEndpoints(nodes[i]))
  IN  \A i, j \in DOMAIN nodes :
        /\ i # j => ofNode(i) \cap ofNode(j) = {}
        /\ <<HostKey(hub), hub.port>> \notin ofNode(i)

(* The endpoints are entered node by node, the web port first, and none    *)
(* may be there already.                                                   *)
EndpointsDistinct(hub, nodes) ==
  LET before(i) == {<<HostKey(hub), hub.port>>}
                     \cup {NodeEndpoints(nodes[j])[s] : j \in 1..(i - 1), s \in 1..2}
  IN  \A i \in DOMAIN nodes :
        LET e == NodeEndpoints(nodes[i])
        IN  e[1] \notin before(i) /\ e[2] \notin before(i) \cup {e[1]}

AnyRemote(hub, nodes) == ~hub.local \/ \E i \in DOMAIN nodes : ~nodes[i].local

(* The hub advertises a node by the address it connects from, so loopback  *)
(* is refused as soon as one member is elsewhere.                          *)
ReachableFromAll(hub, nodes) ==
  AnyRemote(hub, nodes) =>
    ~IsLoopback(hub.host) /\ \A i \in DOMAIN nodes : ~IsLoopback(nodes[i].host)

(* Overrides may tighten the criteria and not loosen them.                 *)
TimingValid(timing) ==
  \A key \in DOMAIN timing :
    key \in DOMAIN TimingBounds /\ timing[key] \in TimingBounds[key].low..TimingBounds[key].high

(* What it accepts; the forms of ids and of the expected blob, and the      *)
(* bound of the HTTP timeout by the sample interval, are left out.         *)
ParseConfig(c) ==
  /\ c.size = ClusterSize
  /\ HubValid(c.hub)
  /\ Len(c.nodes) = ClusterSize
  /\ \A i \in DOMAIN c.nodes : NodeValid(c.nodes[i])
  /\ \A i, j \in DOMAIN c.nodes : i # j => c.nodes[i].id # c.nodes[j].id
  /\ OneMaster(c.nodes)
  /\ EndpointsDistinct(c.hub, c.nodes)
  /\ ReachableFromAll(c.hub, c.nodes)
  /\ \E i \in DOMAIN c.nodes : c.nodes[i].local
  /\ TimingValid(c.timing)
  /\ c.minFree >= MinFreeFloor

SingleHost(c) == ~AnyRemote(c.hub, c.nodes)

----------------------------------------------------------------------------
(* The checks of preflight, over the facts of this host.                   *)

SecretGate(length) == length >= MinSecretLength

Unmeasured == -1

(* Memory that cannot be measured blocks.                                  *)
MemoryGate(available, minFree) == available # Unmeasured /\ available >= minFree

(* A port is [connects, wildcard, loopback]: whether a connection to it    *)
(* succeeds, and whether each of the two binds does.  A foreign listener   *)
(* may refuse the connection, and one bound to loopback leave the wildcard *)
(* bind alone.                                                             *)
PortInUse(p) == p.connects \/ ~p.wildcard \/ ~p.loopback

(* statistics.median, doubled so that it stays an integer.                 *)
TwiceMedian(offsets) ==
  LET sorted == SortSeq(offsets, <)
      n == Len(offsets)
  IN  sorted[(n + 1) \div 2] + sorted[(n + 2) \div 2]

ClockCheck(singleHost, offsets) ==
  singleHost \/ /\ offsets # <<>>
                /\ TwiceMedian(offsets) \in -(2 * MaxClockOffset)..(2 * MaxClockOffset)

(* Git tells what was modified: where it is missing or fails, nothing is.  *)
ReportedModified(files) == files.git /\ files.modified

RuntimeIntegrity(files) == ~files.missing /\ ~ReportedModified(files) /\ ~files.otherCore

ExposureAudit(wildcardBinds, accepted) == wildcardBinds => accepted

(* preflight runs every check, and returns those that block.               *)
BlockedChecks(c, facts) ==
  LET passed == [secret   |-> SecretGate(facts.secret),
                 memory   |-> MemoryGate(facts.memory, c.minFree),
                 runtime  |-> RuntimeIntegrity(facts.files),
                 ports    |-> \A p \in facts.ports : ~PortInUse(p),
                 clock    |-> ClockCheck(SingleHost(c), facts.offsets),
                 exposure |-> ExposureAudit(facts.wildcardBinds, facts.accepted)]
  IN  {check \in DOMAIN passed : ~passed[check]}
=============================================================================
