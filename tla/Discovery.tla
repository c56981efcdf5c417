------------------------------ MODULE Discovery ------------------------------
(***************************************************************************)
(* ibnd_discover_fabric (libibnetdisc/src/ibnetdisc.c): the scan of a      *)
(* fabric by SMPs that run through the queue and the wire of SmpWire.      *)
(*                                                                         *)
(* Each answer runs a callback that records what it learnt and issues the  *)
(* next SMPs: NodeInfo finds a node and links two ports, PortInfo of a     *)
(* port that is up sends NodeInfo through it.  Answers arrive in any order *)
(* the wire allows.  The callback of one answer is the action of that      *)
(* answer plus one IssueNext step for every issue_smp it calls; until they *)
(* are done nothing else can happen.                                       *)
(*                                                                         *)
(* Abstractions.  The fabric does not change during a scan.  A LID stands  *)
(* for the LIDs of a port (LMC 0).  GUIDs are the node and port names.     *)
(* total_mads_used, NodeDescription and the fields nobody branches on are  *)
(* left out; chassis grouping (group_nodes) is a component of its own.     *)
(***************************************************************************)
EXTENDS SmpWire, Fabric

CONSTANTS
  EpiPorts,         \* ports with MLNX extended info to ask for: the flag
                    \* IBND_CONFIG_MLX_EPI, a known device, LinkUp at QDR
  Scans,            \* the calls of ibnd_discover_fabric to consider, see scan
  PathMax           \* the longest path add_port_to_dpath still extends

ASSUME DiscoveryAssumption ==
  /\ \A s \in Scans : /\ s.base[1] \in Nodes
                      /\ s.path \in Seq(Nat) /\ (s.lid => s.path = <<>>)
                      /\ s.hops \in Nat /\ s.faults \in Nat
  /\ PathMax \in Nat

VARIABLES
  scan,             \* ibnd_scan_t.  base: the port that `from`, by default this
                    \* host, names, where directed routes start; path:
                    \* from->drpath; lid: whether base is reached by its LID;
                    \* hops: cfg->max_hops; faults: how many failures the model
                    \* lets happen in it (a bound)
  todo,             \* SMPs the running callback has still to issue
  nodes,            \* fabric->nodes: path_portid of each node found
  ports,            \* node->ports[]: the ports that were allocated
  info,             \* the ports whose PortInfo was received
  baseLid,          \* base_lid of each port; a switch's smalid is its port 0's
  lid2guid,         \* the port found under each LID
  remote,           \* remoteport of each port
  from,             \* from_node and from_portnum
  maxhops,          \* maxhops_discovered
  faults,           \* failures so far
  result            \* "init", "scanning", "fabric" or "null"

vars == <<scan, queue, wire, todo, nodes, ports, info, baseLid, lid2guid, remote, from,
          maxhops, faults, result>>

learnt == <<scan, nodes, ports, info, baseLid, lid2guid, remote, from, maxhops>>

------------------------------------------------------------------------------
\* The port at which an SMP sent along path arrives.
Arrival(path) == ArrivalFrom(scan.base, path)

------------------------------------------------------------------------------
(***************************************************************************)
(* SMPs.  node and port are the callback data: for NodeInfo the port it    *)
(* was sent through (NoPort for the first one), else the port asked about. *)
(***************************************************************************)
Smp(attr, path, port) == [attr |-> attr, path |-> path, port |-> port]

Smps == [attr : {"NodeInfo", "NodeDesc", "SwitchInfo", "PortInfo", "ExtPortInfo"},
         path : Seq(Nat), port : Ports \cup {NoPort}]

NodeInfo(path, via) == Smp("NodeInfo", path, via)
PortInfo(path, port) == Smp("PortInfo", path, port)
ExtPortInfo(path, port) == Smp("ExtPortInfo", path, port)

\* SMPs queued, on the wire, or about to be issued.
Outstanding == Queued \cup wire \cup {todo[i] : i \in 1..Len(todo)}

Init ==
  /\ scan \in Scans
  /\ queue = <<>>
  /\ wire = {}
  /\ todo = <<>>
  /\ nodes = <<>>
  /\ ports = {}
  /\ info = {}
  /\ baseLid = [e \in Ports |-> 0]
  /\ lid2guid = <<>>
  /\ remote = [e \in Ports |-> NoPort]
  /\ from = NoPort
  /\ maxhops = 0
  /\ faults = 0
  /\ result = "init"

\* maxhops_discovered counts from the start node until the end of the scan.
FabricReturned ==
  /\ result' = "fabric"
  /\ maxhops' = maxhops + Len(scan.path)

------------------------------------------------------------------------------
\* Mutant of LinkPorts: the old peers keep their pointers.
LinkPortsOnly(r, a, b) == [r EXCEPT ![a] = b, ![b] = a]

(***************************************************************************)
(* link_ports: both old peers are unlinked, then the two ports are linked. *)
(***************************************************************************)
LinkPorts(r, a, b) ==
  [e \in DOMAIN r |-> IF e = a THEN b
                      ELSE IF e = b THEN a
                      ELSE IF e = r[a] \/ e = r[b] THEN NoPort
                      ELSE r[e]]

\* Mutant of HopsExhausted: an unset max_hops limits.
HopsExhaustedUnset == maxhops > scan.hops

\* max_hops is compared with the hops discovered anywhere in the scan.
HopsExhausted == scan.hops # 0 /\ maxhops > scan.hops

(***************************************************************************)
(* The tail of recv_port_info, recv_mlnx_ext_port_info and                 *)
(* mlnx_ext_port_info_err: whether NodeInfo is sent on from port p of node *)
(* n, whose SMP came along path and in through ingress.                    *)
(***************************************************************************)
LeadsOn(n, p, ingress) ==
  /\ p # 0
  /\ <<n, p>> \in DOMAIN Cable
  /\ (n \in Switches /\ p # ingress) \/ <<n, p>> = from

\* The scan started at a CA reached by a path: go back to the node before it.
Retracts(n, path) == n \notin Switches /\ n = from[1] /\ Len(path) > 1

CanExtend(n, path) == (~scan.lid \/ n \in Switches) /\ Len(path) <= PathMax

\* Mutant of Onward: the callback data names the wrong port.
OnwardViaFirst(n, p, path) == NodeInfo(path, <<n, 1>>)

\* NodeInfo along path, with the port it leaves node n by as callback data.
Onward(n, p, path) == NodeInfo(path, <<n, p>>)

\* The SMPs issued to go on (one or none), and maxhops_discovered after that.
GoOn(n, p, path, ingress) ==
  IF ~LeadsOn(n, p, ingress) \/ HopsExhausted
  THEN [smps |-> <<>>, hops |-> maxhops]
  ELSE IF Retracts(n, path)
  THEN [smps |-> <<Onward(n, p, SubSeq(path, 1, Len(path) - 1))>>,
        hops |-> maxhops + 1]
  ELSE IF CanExtend(n, path)
  THEN [smps |-> <<Onward(n, p, Append(path, p))>>,
        hops |-> IF Len(path) + 1 - Len(scan.path) > maxhops THEN maxhops + 1 ELSE maxhops]
  ELSE [smps |-> <<>>, hops |-> maxhops]

------------------------------------------------------------------------------
\* ibnd_discover_fabric sends the first NodeInfo.
Start ==
  /\ result = "init"
  /\ SendAll(<<NodeInfo(scan.path, NoPort)>>, wire)
  /\ result' = "scanning"
  /\ UNCHANGED <<todo, learnt, faults>>

\* It cannot be sent: process_mads is skipped, and the empty fabric returned.
StartFails ==
  /\ result = "init"
  /\ faults < scan.faults
  /\ SendFails(<<NodeInfo(scan.path, NoPort)>>, wire, 1)
  /\ faults' = faults + 1
  /\ FabricReturned
  /\ UNCHANGED <<scan, todo, nodes, ports, info, baseLid, lid2guid, remote, from>>

\* A callback issues its next SMP.
IssueNext ==
  /\ todo # <<>>
  /\ SendAll(Enqueue(queue, Head(todo)), wire)
  /\ todo' = Tail(todo)
  /\ UNCHANGED <<learnt, faults, result>>

\* umad_send fails; no callback looks at the result of issue_smp.
IssueNextFails ==
  /\ todo # <<>>
  /\ faults < scan.faults
  /\ LET q == Enqueue(queue, Head(todo))
     IN  \E n \in 1..Room(q, wire) : SendFails(q, wire, n)
  /\ todo' = Tail(todo)
  /\ faults' = faults + 1
  /\ UNCHANGED <<learnt, result>>

\* process_one_recv takes smp off the wire and refills the wire.
Receives(smp) ==
  /\ result = "scanning"
  /\ todo = <<>>
  /\ smp \in wire
  /\ SendAll(queue, wire \ {smp})

Answered(smp, attr) ==
  /\ smp.attr = attr
  /\ Receives(smp)
  /\ Arrival(smp.path) \in Ports

(***************************************************************************)
(* recv_node_info.  The node is created if its GUID is new, and a shell    *)
(* for the port the SMP came in by.  Without callback data it is the start *)
(* node, otherwise the two ports are linked.  A new node is asked for its  *)
(* description, a new switch for its SwitchInfo and port 0 as well; a CA   *)
(* is asked for this port every time it is met.                            *)
(***************************************************************************)
NodeQueries(path, at, new) ==
  (IF new THEN <<Smp("NodeDesc", path, at)>> ELSE <<>>)
  \o (IF new /\ at[1] \in Switches
      THEN <<Smp("SwitchInfo", path, at), PortInfo(path, <<at[1], 0>>)>> ELSE <<>>)
  \o (IF at[1] \notin Switches THEN <<PortInfo(path, at)>> ELSE <<>>)

RecvNodeInfo(smp) ==
  /\ Answered(smp, "NodeInfo")
  /\ LET at == Arrival(smp.path)
         new == at[1] \notin DOMAIN nodes
     IN  /\ nodes' = IF new THEN [n \in DOMAIN nodes \cup {at[1]} |->
                                    IF n = at[1] THEN smp.path ELSE nodes[n]]
                            ELSE nodes
         /\ ports' = ports \cup {at}
         /\ IF smp.port = NoPort
            THEN from' = at /\ UNCHANGED remote
            ELSE remote' = LinkPorts(remote, at, smp.port) /\ UNCHANGED from
         /\ todo' = NodeQueries(smp.path, at, new)
  /\ UNCHANGED <<scan, info, baseLid, lid2guid, maxhops, faults, result>>

\* recv_node_desc and recv_switch_info only copy what they were sent.
RecvDescription(smp) ==
  /\ Answered(smp, "NodeDesc") \/ Answered(smp, "SwitchInfo")
  /\ UNCHANGED <<todo, learnt, faults, result>>

\* Mutant of PortLid: the LID field of the answer is taken for every port.
PortLidRaw(port) == LidOf[port]

(***************************************************************************)
(* recv_port_info, and recv_port0_info for port 0 of a switch, which asks  *)
(* for every other port of the switch whatever recv_port_info returned.    *)
(* The first port entered under a LID stays.                               *)
(***************************************************************************)
PortLid(port) ==
  IF port[1] \in Switches /\ port[2] # 0 THEN baseLid[<<port[1], 0>>] ELSE LidOf[port]

\* add_to_portlid_hash; LID 0 is not entered.
EnterLid(tbl, lid, port) ==
  IF lid = 0 \/ lid \in DOMAIN tbl THEN tbl
  ELSE [l \in DOMAIN tbl \cup {lid} |-> IF l = lid THEN port ELSE tbl[l]]

PortQueries(path, n) == [p \in 1..NumPorts[n] |-> PortInfo(path, <<n, p>>)]

RecvPortInfo(smp) ==
  /\ Answered(smp, "PortInfo")
  /\ LET port == smp.port
         lid == PortLid(port)
         ingress == Arrival(smp.path)[2]
         on == IF port \in EpiPorts
               THEN [smps |-> <<ExtPortInfo(smp.path, port)>>, hops |-> maxhops]
               ELSE GoOn(port[1], port[2], smp.path, ingress)
     IN  /\ ports' = ports \cup {port}
         /\ info' = info \cup {port}
         /\ baseLid' = [baseLid EXCEPT ![port] = lid]
         /\ lid2guid' = EnterLid(lid2guid, lid, port)
         /\ todo' = on.smps \o (IF port[2] = 0 THEN PortQueries(smp.path, port[1]) ELSE <<>>)
         /\ maxhops' = on.hops
  /\ UNCHANGED <<scan, nodes, remote, from, faults, result>>

\* Mutant of ExtPortInfoDone: PortInfo is asked again to go on.
ExtPortInfoRepeats(smp) ==
  /\ smp.attr = "ExtPortInfo"
  /\ Receives(smp)
  /\ todo' = <<PortInfo(smp.path, smp.port)>>
  /\ UNCHANGED <<learnt, result>>

\* recv_mlnx_ext_port_info, and mlnx_ext_port_info_err if it was not answered:
\* the scan goes on either way.
ExtPortInfoDone(smp) ==
  /\ smp.attr = "ExtPortInfo"
  /\ Receives(smp)
  /\ LET on == GoOn(smp.port[1], smp.port[2], smp.path, Arrival(smp.path)[2])
     IN  todo' = on.smps /\ maxhops' = on.hops
  /\ UNCHANGED <<scan, nodes, ports, info, baseLid, lid2guid, remote, from, result>>

RecvExtPortInfo(smp) ==
  /\ Arrival(smp.path) \in Ports
  /\ ExtPortInfoDone(smp)
  /\ UNCHANGED faults

(***************************************************************************)
(* Failures.  A bad status or a timeout of any other SMP skips its         *)
(* callback; an error of umad_recv or of the refill ends the scan.         *)
(***************************************************************************)
RecvBadStatus(smp) ==
  /\ faults < scan.faults
  /\ faults' = faults + 1
  /\ \/ ExtPortInfoDone(smp)
     \/ /\ smp.attr # "ExtPortInfo"
        /\ Receives(smp)
        /\ UNCHANGED <<todo, learnt, result>>

RefillFails(smp) ==
  /\ result = "scanning"
  /\ todo = <<>>
  /\ smp \in wire
  /\ faults < scan.faults
  /\ \E n \in 1..Room(queue, wire \ {smp}) : SendFails(queue, wire \ {smp}, n)
  /\ faults' = faults + 1
  /\ result' = "null"
  /\ UNCHANGED <<todo, learnt>>

RecvFails ==
  /\ result = "scanning"
  /\ todo = <<>>
  /\ wire # {}
  /\ faults < scan.faults
  /\ faults' = faults + 1
  /\ result' = "null"
  /\ UNCHANGED <<queue, wire, todo, learnt>>

\* process_mads found the wire empty and returned 0.
Finish ==
  /\ result = "scanning"
  /\ todo = <<>>
  /\ wire = {}
  /\ FabricReturned
  /\ UNCHANGED <<scan, queue, wire, todo, nodes, ports, info, baseLid, lid2guid, remote,
                 from, faults>>

Recv(smp) ==
  \/ RecvNodeInfo(smp)
  \/ RecvDescription(smp)
  \/ RecvPortInfo(smp)
  \/ RecvExtPortInfo(smp)
  \/ RecvBadStatus(smp)
  \/ RefillFails(smp)

Next ==
  \/ Start
  \/ StartFails
  \/ IssueNext
  \/ IssueNextFails
  \/ \E smp \in wire : Recv(smp)
  \/ RecvFails
  \/ Finish

Spec == Init /\ [][Next]_vars

\* The scanning thread runs, and the kernel answers what is on the wire with a
\* response or, after its timeouts and retries, with an error.
FairSpec == Spec /\ WF_vars(Next)

------------------------------------------------------------------------------
TypeOK ==
  /\ queue \in Seq(Smps) /\ wire \subseteq Smps /\ todo \in Seq(Smps)
  /\ DOMAIN nodes \subseteq Nodes
  /\ ports \subseteq Ports
  /\ info \subseteq ports
  /\ remote \in [Ports -> Ports \cup {NoPort}]
  /\ from \in Ports \cup {NoPort}
  /\ maxhops \in Nat
  /\ faults \in 0..scan.faults
  /\ result \in {"init", "scanning", "fabric", "null"}
  \* No SMP is outstanding twice, so sets of SMPs lose none.
  /\ Cardinality(Outstanding) = Len(queue) + Cardinality(wire) + Len(todo)

\* Two ports are each other's remoteport: link_ports unlinks both old peers.
LinkSymmetric ==
  \A e \in Ports : remote[e] # NoPort => remote[remote[e]] = e

\* What the fabric shows as a link is a cable.
LinksAreCables ==
  \A e \in Ports : remote[e] # NoPort => e \in DOMAIN Cable /\ Cable[e] = remote[e]

\* The scan was asked to start at a CA reached by a path.  recv_node_info then
\* links ports that are not cabled, see RightLinks.
StartsAtRemoteCa == scan.path # <<>> /\ Arrival(scan.path)[1] \notin Switches

\* Links are cables in every other scan, in whichever order the answers from the
\* two ends of a cable, and from parallel cables, were processed.
RightLinks == ~StartsAtRemoteCa => LinksAreCables

\* The "Internal Error ... no port created" of recv_node_info cannot happen: a
\* NodeInfo is only sent through a port that PortInfo was received for.
ViaPortExists ==
  \A smp \in Outstanding : smp.attr = "NodeInfo" /\ smp.port # NoPort => smp.port \in info

\* A switch port is listed under its switch's LID: PortInfo of port 0 was
\* received before that of any other port was asked for.
SwitchPortsShareLid ==
  \A e \in info : e[1] \in Switches => baseLid[e] = LidOf[<<e[1], 0>>]

\* ibnd_find_port_lid finds the port that has the LID, never another port of
\* the same switch.
LidFindsItsPort == \A lid \in DOMAIN lid2guid : LidOf[lid2guid[lid]] = lid

\* The nodes at most k cables away from the start, over switches only.
Within(k) ==
  LET Grow(ns) == ns \cup {Cable[e][1] : e \in {x \in DOMAIN Cable :
                              x[1] \in ns /\ (x[1] \in Switches \/ x = Arrival(scan.path))}}
      Ring[i \in 0..k] == IF i = 0 THEN {Arrival(scan.path)[1]} ELSE Grow(Ring[i - 1])
  IN  Ring[k]

Reachable == Within(Cardinality(Nodes))

\* What WholeFabric asks of a scan: its start answers, is not a CA named by its LID
\* (nothing is sent on from there), and paths may be as long as there are nodes.
ScansCanGoOn ==
  /\ IsFiniteSet(Nodes)
  /\ \A s \in Scans : /\ ArrivalFrom(s.base, s.path) \in Ports
                      /\ s.lid => s.base[1] \in Switches
                      /\ Len(s.path) + Cardinality(Nodes) <= PathMax + 1

\* A scan without failures and without max_hops returns every node that can be
\* reached, every port of every switch and every cable of a switch, whatever
\* order the answers came in.
WholeFabric ==
  result = "fabric" /\ faults = 0 /\ scan.hops = 0 /\ ~StartsAtRemoteCa =>
    /\ DOMAIN nodes = Reachable
    /\ \A e \in Ports : e[1] \in Reachable \cap Switches => e \in info
    /\ \A e \in DOMAIN Cable : e[1] \in Reachable \cap Switches => remote[e] = Cable[e]

\* A scan ends, also in a fabric with loops and with failures.
ScanEnds == <>(result \in {"fabric", "null"})
=============================================================================
