-------------------------- MODULE TopologyListing --------------------------
(***************************************************************************)
(* What ibnetdiscover prints of a discovered fabric (src/ibnetdiscover.c): *)
(* dump_topology, which with -g prints the numbered chassis first, slot by *)
(* slot, and then the nodes that are in none, and dump_ports_report (-p).  *)
(*                                                                         *)
(* The listing is a function of the fabric that group_nodes leaves.  An    *)
(* entry is a place in it where a node is printed: its section, the        *)
(* chassis and slot if it has one, and the node.  A node's entry is        *)
(* followed by a line for each of its ports that is connected; the order   *)
(* of the entries and the text of the lines are left out.                  *)
(***************************************************************************)
EXTENDS Chassis

CONSTANT Routers    \* the nodes that are routers; other nodes that are no
                    \* switches are CAs

ASSUME ListingAssumption == Routers \subseteq Nodes \ Switches

Entry(section, c, slot, n) == [section |-> section, chassis |-> c, slot |-> slot, node |-> n]

\* node->chassis && node->chassis->chassisnum
InNumbered(n) == chassisOf[n] # 0 /\ chassis[chassisOf[n]].num # 0

\* The slots that are looped over: slot 0 is not.
SlotsShown(side) == 1..(IF side = "line" THEN LinesMax ELSE SpinesMax)

\* The sections of one chassis.
SlotEntries(c, side) ==
  {Entry(side, c, i, chassis[c][side][i]) : i \in DOMAIN chassis[c][side] \cap SlotsShown(side)}

\* Mutant of MemberEntries: the boards are not left out.
MembersWithBoards(c) ==
  {Entry("member", c, 0, n) : n \in (chassis[c].nodes \cup Boards(c)) \ Routers}

\* "Chassis Switches" and "Chassis CAs": routers are in neither.
MemberEntries(c) == {Entry("member", c, 0, n) : n \in chassis[c].nodes \ Routers}

ChassisEntries(c) ==
  SlotEntries(c, "spine") \cup SlotEntries(c, "line") \cup MemberEntries(c)

\* The passes over the lists of nodes by type.
SwitchPass(grouped) ==
  {Entry("node", 0, 0, n) : n \in {m \in Present \cap Switches : ~(grouped /\ InNumbered(m))}}

CaPass(grouped) ==
  {Entry("node", 0, 0, n) :
     n \in {m \in (Present \ Switches) \ Routers : ~(grouped /\ InNumbered(m))}}

RouterPass(grouped) ==
  {Entry("node", 0, 0, n) : n \in {m \in Present \cap Routers : ~(grouped /\ InNumbered(m))}}

\* dump_topology
Topology(grouped) ==
  (IF grouped
   THEN UNION {ChassisEntries(c) : c \in {d \in 1..Len(chassis) : chassis[d].num # 0}}
   ELSE {})
  \cup SwitchPass(grouped) \cup CaPass(grouped) \cup RouterPass(grouped)

\* The ports printed under a node, each with the port it is connected to.
SwitchPortLines(n) == {<<e, Cable[e]>> : e \in {f \in fabric.links : f[1] = n /\ n \in Switches}}
CaPortLines(n) == {<<e, Cable[e]>> : e \in {f \in fabric.links : f[1] = n /\ n \notin Switches}}

\* dump_ports_report: every port that is not NULL, connected or not.
PortsReport ==
  {<<e, IF e \in fabric.links THEN Cable[e] ELSE NoPort>> :
     e \in {f \in fabric.seen : f[1] \in Present /\ f[2] > 0}}

------------------------------------------------------------------------------
\* Every chassis is small enough to be collected as a whole, see BoxIsWhole.
Collected ==
  \A s \in {n \in Present \cap Switches : Vendor[n] = "VTR" /\ IsSpine(n)} :
    \A t \in SpinesWithin(s, 6) : Within(t, 5) = Within(t, 6)

\* What ListedOnce asks of the hardware: the modules of a Voltaire chassis are switches
\* and CAs, those that the code calls routers as well.
ModulesAreNoRouters == \A n \in Routers : Vendor[n] # "VTR"

\* A Mellanox board whose slot number is out of range is put in slot 0.
OutOfSlots(n) ==
  Vendor[n] = "MLX" /\ rec[n].side # "none" /\ rec[n].slot \notin SlotsShown(rec[n].side)

\* "Grouping correlates IB nodes by different vendor specific schemes" (-g, see
\* doc/rst/ibnetdiscover.8.in.rst:37) and loses none (ibnetdiscover.c:548-688):
\* with or without it every node is listed, and listed once, with each of its
\* cables; so every cable is listed from both of its ends, and a listing by
\* chassis says the same as the report of the ports.  Two kinds of nodes of a
\* chassis are left out of the listing by chassis: routers, and boards in slot 0.
ListedOnce ==
  pc = "done" =>
    \A grouped \in BOOLEAN :
      LET entries == Topology(grouped)
          Hidden(n) == grouped /\ InNumbered(n) /\ (n \in Routers \/ OutOfSlots(n))
          shown == UNION {SwitchPortLines(x.node) \cup CaPortLines(x.node) : x \in entries}
      IN  Collected \/ ~grouped =>
            /\ \A n \in Present :
                 Cardinality({x \in entries : x.node = n}) = IF Hidden(n) THEN 0 ELSE 1
            /\ \A r \in PortsReport :
                 r[2] # NoPort /\ ~Hidden(r[1][1]) => r \in shown
=============================================================================
