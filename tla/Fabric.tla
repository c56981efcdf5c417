------------------------------- MODULE Fabric -------------------------------
(***************************************************************************)
(* An InfiniBand fabric as the programs see it through SMPs (external to   *)
(* the code): nodes, their ports, the cables between them and the ports    *)
(* that directed-route SMPs arrive at.  Discovery and RouteTrace run in    *)
(* it.                                                                     *)
(***************************************************************************)
EXTENDS Integers, Sequences

CONSTANTS
  Nodes,            \* the nodes of the fabric
  Switches,         \* those of type IB_NODE_SWITCH; the others are CAs
  NumPorts,         \* the number of ports of each node
  Cable,            \* the other end of each cabled (LinkUp) port
  LidOf             \* the LID in the PortInfo of a port, 0 if it has none

ASSUME FabricAssumption ==
  /\ Switches \subseteq Nodes
  /\ \A n \in Nodes : NumPorts[n] \in Nat \ {0}
  /\ "none" \notin Nodes
  /\ \A e \in DOMAIN Cable :
       /\ e = <<e[1], e[2]>> /\ e[1] \in Nodes /\ e[2] \in 1..NumPorts[e[1]]
       /\ Cable[e] \in DOMAIN Cable /\ Cable[Cable[e]] = e /\ Cable[e] # e

NoPort == <<"none", 0>>

\* Every port of every node; port 0 is a switch's own management port.
Ports == UNION {{<<n, p>> : p \in (IF n \in Switches THEN 0 ELSE 1)..NumPorts[n]} :
                n \in Nodes}

(***************************************************************************)
(* A directed-route SMP leaves its start through the first port of its     *)
(* path and every switch on the way through the next; port 0 of a switch   *)
(* is the switch itself, and a CA forwards nothing.                        *)
(***************************************************************************)
Hop(at, p, first) ==
  IF at # NoPort /\ (first \/ at[1] \in Switches)
  THEN IF <<at[1], p>> \in DOMAIN Cable THEN Cable[<<at[1], p>>]
       ELSE IF p = 0 /\ at[1] \in Switches THEN <<at[1], 0>>
       ELSE NoPort
  ELSE NoPort

\* The port at which an SMP sent from base along path arrives, or NoPort.
ArrivalFrom(base, path) ==
  LET At[i \in 0..Len(path)] ==
        IF i = 0 THEN base ELSE Hop(At[i - 1], path[i], i = 1)
  IN  At[Len(path)]
=============================================================================
