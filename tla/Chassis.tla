------------------------------ MODULE Chassis ------------------------------
(***************************************************************************)
(* Grouping the nodes of a discovered fabric into chassis                  *)
(* (libibnetdisc/src/chassis.c: group_nodes and what it calls).            *)
(*                                                                         *)
(* Four loops over the nodes: fill in the slot of every board; from every  *)
(* Voltaire spine that is in no chassis yet, collect the boards of its     *)
(* chassis in passes over the internal links; count the other nodes by     *)
(* their system image GUID; group those of which there are several.        *)
(*                                                                         *)
(* A step is one turn of one of the loops.                                 *)
(*                                                                         *)
(* Abstractions.  A device ID is the name of a model.  A GUID is a record  *)
(* of what the code tells apart in it, see Sys.  The description of a      *)
(* Mellanox board is given as fill_mellanox_chassis_record parses it.      *)
(***************************************************************************)
EXTENDS Fabric, FiniteSets

CONSTANTS
  Vendor,           \* "VTR", "MLX", "TS" (also InfiniCon), "XS" or another
  Device,           \* the model of each node: a name of Spines, Lines, "IS4", ...
  Described,        \* the slot in a node's description: [side, num]; side is
                    \* "line" or "spine", "other" letters, "none" if it does not parse
  GuidMod4,         \* the last two bits of each node's GUID
  Sys,              \* system image GUIDs: [maker, box, loc, role], or NoGuid.
                    \* loc: the byte that is masked; role: Xsigo's node type
  Box,              \* the chassis a board is really in (external to the code)
  Discovered,       \* the fabrics to consider, see fabric
  CharMod           \* 256: chassisnum and nodecount are unsigned chars

LinesMax == 36      \* LINES_MAX_NUM
SpinesMax == 18     \* SPINES_MAX_NUM

NoGuid == [maker |-> "none", box |-> "none", loc |-> 0, role |-> "none"]

\* The chassis GUID of a Voltaire chassis: that of its first spine, minus 1.
GuidBefore(n) == [maker |-> "VTR", box |-> n, loc |-> 0, role |-> "chassis"]

Spines == {"9096", "9288", "2004", "2012", "4700", "4700x2", "4200"}
Lines == {"24", "8", "2024", "4018"}
RouterHosts == {"9096", "9288", "2012", "2004"}  \* spines with router modules

ASSUME ChassisAssumption ==
  /\ CharMod \in Nat \ {0, 1}
  /\ \A f \in Discovered :
       /\ f.order \in Seq(Nodes)
       \* a node is added to fabric->nodes when it is first seen
       /\ \A i, j \in DOMAIN f.order : f.order[i] = f.order[j] => i = j
       /\ f.links \subseteq DOMAIN Cable
       /\ \A e \in f.links : Cable[e] \in f.links
       /\ f.links \subseteq f.seen
  \* the tables have entries for 36 ports
  /\ \A e \in DOMAIN Cable :
       Device[e[1]] \in Spines => e[2] <= 36 /\ Cable[e][2] <= 36
  \* fill_mellanox_chassis_record lets slots 37 and 19 pass, which are past the arrays
  /\ \A n \in Nodes : /\ Described[n].num \in 0..255
                      /\ Described[n].side = "line" => Described[n].num # LinesMax + 1
                      /\ Described[n].side = "spine" => Described[n].num # SpinesMax + 1
  \* fill_voltaire_chassis_record follows every port of a router
  /\ \A f \in Discovered, n \in Switches :
       Vendor[n] = "VTR" /\ Device[n] = "router" =>
         \A p \in 1..NumPorts[n] : <<n, p>> \in f.seen => <<n, p>> \in f.links
  \* every GUID has the parts that NoGuid has
  /\ \A n \in Nodes : DOMAIN Sys[n] = DOMAIN NoGuid
  \* a vendor's GUIDs are its own
  /\ \A n \in Nodes : Vendor[n] # "VTR" => Sys[n].maker # "VTR"
  /\ \A n \in Nodes : Vendor[n] = "MLX" => Sys[n].maker = "MLX"

VARIABLES
  fabric,           \* order: fabric->nodes; links: the ports with a remoteport;
                    \* seen: the ports that are not NULL
  pc,               \* "fill", "search", "build", "count", "group", "done", "failed"
  at,               \* where the loop is in fabric.order
  rec,              \* ch_found, ch_slot, ch_slotnum, ch_anafanum, ch_type of a node
  chassisOf,        \* node->chassis, as an index of chassis; 0 if NULL
  chassis,          \* the list of chassis; spine and line hold the filled slots
  numbered,         \* chassisnum of group_nodes, an int
  pass,             \* the pass of build_chassis: 0, then 1 to 4
  visits            \* the ports this pass still has to look at

\* What an unsigned char keeps of an int.
Byte(i) == i % CharMod

vars == <<fabric, pc, at, rec, chassisOf, chassis, numbered, pass, visits>>

Positions ==
  [found : BOOLEAN, side : {"none", "line", "spine", "router"}, slot : 0..255, chip : 0..255,
   type : {"none", "9096", "9288", "2004", "2012", "4700", "4200"}]

TypeOK ==
  /\ fabric.links \subseteq DOMAIN Cable
  /\ pc \in {"fill", "search", "build", "count", "group", "done", "failed"}
  /\ at \in 1..(Len(fabric.order) + 1)
  /\ rec \in [Nodes -> Positions]
  /\ chassisOf \in [Nodes -> Nat]
  /\ pc # "failed" => \A n \in Nodes : chassisOf[n] <= Len(chassis)
  /\ \A c \in 1..Len(chassis) :
       /\ chassis[c].num \in 0..(CharMod - 1)
       /\ chassis[c].count \in 0..(CharMod - 1)
       /\ chassis[c].nodes \subseteq Nodes
       /\ \A i \in DOMAIN chassis[c].line : chassis[c].line[i] \in Nodes
       /\ \A i \in DOMAIN chassis[c].spine : chassis[c].spine[i] \in Nodes
  /\ numbered \in Nat
  /\ pass \in 0..4
  /\ visits \subseteq fabric.links

Init ==
  /\ fabric \in Discovered
  /\ pc = "fill"
  /\ at = 1
  /\ rec = [n \in Nodes |-> [found |-> FALSE, side |-> "none", slot |-> 0, chip |-> 0,
                             type |-> "none"]]
  /\ chassisOf = [n \in Nodes |-> 0]
  /\ chassis = <<>>
  /\ numbered = 0
  /\ pass = 0
  /\ visits = {}

------------------------------------------------------------------------------
\* The predicates on devices look at the device ID only, not at the vendor.
IsSpine(n) == Device[n] \in Spines
IsLine(n) == Device[n] \in Lines

\* The chassis type a spine gives itself and the boards next to it.
TypeOfSpine(s) == IF s = "4700x2" THEN "4700" ELSE s

\* Mutant of SpinePorts: those on the face of a double density spine as well.
SpinePortsAll(n) == 1..NumPorts[n]

\* The ports of a line board or a spine that lead inside the chassis: the others
\* are on its face.
LinePorts(n) == 1..(IF Device[n] = "4018" THEN 18 ELSE 12)
SpinePorts(n) == 1..(IF Device[n] = "4700x2" THEN 18 ELSE NumPorts[n])

\* The linked ports among them.
LinksIn(n, ports) == {e \in fabric.links : e[1] = n /\ e[2] \in ports}
Peer(e) == Cable[e][1]

\* The ports on the face, the ones voltaire_portmap maps.
FacePorts(n) ==
  CASE Device[n] \in {"4018", "4700x2"} -> 19..36
    [] IsLine(n) /\ Device[n] # "4018" -> 13..24
    [] OTHER -> {}

\* Cables that are not plugged into the face of a board stay in its chassis, and
\* connect a line board with a spine; the boards of a Mellanox chassis are those with
\* its system image GUID.
ASSUME WiredAsBuilt ==
  /\ \A f \in Discovered : \A e \in f.links :
       (IsLine(e[1]) \/ IsSpine(e[1])) /\ e[2] \notin FacePorts(e[1])
         => /\ Box[Peer(e)] = Box[e[1]]
            /\ IsLine(e[1]) => IsSpine(Peer(e))
  /\ \A m, n \in Nodes :
       Vendor[m] = "MLX" /\ Vendor[n] = "MLX" /\ Sys[m] = Sys[n] => Box[m] = Box[n]

(***************************************************************************)
(* The tables.  Which slot and chip a spine is at, from the port of the    *)
(* line board it is connected to; which slot and chip a line board or a    *)
(* router module is at, from the port of the spine.                        *)
(***************************************************************************)
SpineSlot(s, p) ==
  CASE s \in {"9096", "2004", "9288", "2012"} -> IF p <= 12 THEN (p + 2) \div 3 ELSE 0
    [] s \in {"4700", "4700x2"} -> IF p <= 18 THEN (p + 1) \div 2 ELSE 0
    [] s = "4200" -> CASE p <= 4 -> 1 [] p \in {5, 6} -> 0
                       [] p \in 7..18 -> (p + 1) \div 4 [] OTHER -> 0

SpineChip(s, p) ==
  CASE SpineSlot(s, p) = 0 -> IF s = "4200" /\ p \in {5, 6} THEN 1 ELSE 0
    [] s \in {"9288", "2012"} -> ((p - 1) % 3) + 1
    [] s = "4700x2" -> (p % 2) + 1
    [] OTHER -> 1

LineSlot(s, p) ==
  CASE s \in {"9096", "2004"} -> IF p <= 24 THEN (p + 5) \div 6 ELSE 0
    [] s \in {"9288", "2012"} -> IF p <= 24 THEN (p + 1) \div 2 ELSE 0
    [] s = "4700" -> (p + 1) \div 2
    [] s = "4700x2" -> IF p <= 18 THEN p ELSE 0
    [] s = "4200" -> (p + 3) \div 4

LineChip(s, p) ==
  CASE LineSlot(s, p) = 0 -> 0
    [] s \in {"9096", "2004"} -> (((p - 1) \div 3) % 2) + 1
    [] s \in {"9288", "2012"} -> ((p - 1) % 2) + 1
    [] OTHER -> 1

\* "a smart guess based on nodeguids order on sFB-12 module"
RouterChip(spine, p) ==
  IF Device[spine] \in {"9096", "2004"}
  THEN IF p <= 24 THEN 3 - ((p - 1) % 3) ELSE 0
  ELSE CASE GuidMod4[spine] = 3 -> 1 [] GuidMod4[spine] = 1 -> 3 [] OTHER -> 2

\* get_sfb_slot, e the port of the line board
AtSpineSlot(r, n, e) ==
  [found |-> r.found, side |-> "spine", type |-> TypeOfSpine(Device[n]),
   slot |-> SpineSlot(Device[n], e[2]), chip |-> SpineChip(Device[n], e[2])]

\* get_slb_slot, e the port of the spine; what is no spine places nothing
AtLineSlot(r, e) ==
  LET s == Device[e[1]]
  IN  IF s \in Spines
      THEN [found |-> r.found, side |-> "line", type |-> TypeOfSpine(s),
            slot |-> LineSlot(s, e[2]), chip |-> LineChip(s, e[2])]
      ELSE [r EXCEPT !.side = "line"]

\* get_router_slot, e the port of the spine
AtRouterSlot(r, e) ==
  LET s == Device[e[1]]
  IN  IF s \in RouterHosts
      THEN [found |-> TRUE, side |-> "router", type |-> s,
            slot |-> LineSlot(s, e[2]), chip |-> RouterChip(e[1], e[2])]
      ELSE [found |-> TRUE, side |-> "router", type |-> r.type, slot |-> r.slot,
            chip |-> r.chip]

FirstPort(S) == CHOOSE e \in S : \A f \in S : e[2] <= f[2]
LastPort(S) == CHOOSE e \in S : \A f \in S : f[2] <= e[2]

(***************************************************************************)
(* fill_voltaire_chassis_record.  A spine also places the router modules   *)
(* (CAs) at its ports; it takes its own slot from the first line board.    *)
(***************************************************************************)
FilledRouter(n) ==
  LET spines == {e \in fabric.links : e[1] = n /\ IsSpine(Peer(e))}
      known == {e \in spines : Device[Peer(e)] \in RouterHosts}
      r == [rec[n] EXCEPT !.found = TRUE]
  IN  [rec EXCEPT ![n] =
         IF spines = {} THEN r
         ELSE AtRouterSlot(r, Cable[LastPort(IF known = {} THEN spines ELSE known)])]

FilledSpine(n) ==
  LET inside == LinksIn(n, SpinePorts(n))
      lines == {e \in inside : Peer(e) \in Switches}
      routers == {e \in inside : Peer(e) \notin Switches /\ ~rec[Peer(e)].found}
      r == [rec[n] EXCEPT !.found = TRUE]
  IN  [m \in Nodes |->
         CASE m = n -> IF lines = {} THEN r ELSE AtSpineSlot(r, n, Cable[FirstPort(lines)])
           [] m # n /\ \E e \in routers : Peer(e) = m ->
                AtRouterSlot(rec[m], FirstPort({e \in routers : Peer(e) = m}))
           [] OTHER -> rec[m]]

FilledLine(n) ==
  LET inside == LinksIn(n, LinePorts(n))
      r == [rec[n] EXCEPT !.found = TRUE]
  IN  [rec EXCEPT ![n] = IF inside = {} THEN r ELSE AtLineSlot(r, Cable[FirstPort(inside)])]

FilledVoltaire(n) ==
  CASE rec[n].found -> rec
    [] ~rec[n].found /\ Device[n] = "router" -> FilledRouter(n)
    [] ~rec[n].found /\ IsSpine(n) -> FilledSpine(n)
    [] ~rec[n].found /\ IsLine(n) -> FilledLine(n)
    [] OTHER -> [rec EXCEPT ![n].found = TRUE]

\* fill_mellanox_chassis_record: a slot number that is out of range becomes 0.
SlotLimit(side) == IF side = "line" THEN LinesMax + 1 ELSE SpinesMax + 1

FilledMellanox(n) ==
  LET d == Described[n]
  IN  CASE rec[n].found \/ Device[n] # "IS4" \/ d.side = "none" -> rec
        [] OTHER ->
             IF d.side \in {"line", "spine"}
             THEN [rec EXCEPT ![n] =
                     [found |-> TRUE, side |-> d.side, chip |-> 1, type |-> @.type,
                      slot |-> IF d.num > SlotLimit(d.side) THEN 0 ELSE d.num]]
             ELSE [rec EXCEPT ![n].chip = 1]

Filled(n) ==
  CASE n \in Switches /\ Vendor[n] = "VTR" -> FilledVoltaire(n)
    [] n \in Switches /\ Vendor[n] = "MLX" -> FilledMellanox(n)
    [] OTHER -> rec

(***************************************************************************)
(* voltaire_portmap: the number on the face of the chassis of port p of a  *)
(* board, 0 if it has none.                                                *)
(***************************************************************************)
PortOnFace(device, chip, p) ==
  CASE device = "24" -> (<<6, 5, 4, 18, 17, 16, 1, 2, 3, 13, 14, 15>>)[p - 12] + 6 * (chip - 1)
    [] device = "2024" -> IF chip = 1 THEN p ELSE p - 12
    [] device = "8" -> (<<2, 6, 1, 5>>)[(p - 10) \div 3] + 2 * (chip - 1)
    [] device = "4018" -> p - 18
    [] device = "4700x2" -> (p - 19) \div 3 + (IF chip = 1 THEN 7 ELSE 1)

\* Mutant of ExtPort: the chip is ignored.
ExtPortOfSlot(n, p) ==
  IF rec[n].found /\ p \in FacePorts(n) THEN PortOnFace(Device[n], 1, p) ELSE 0

ExtPort(n, p) ==
  IF rec[n].found /\ p \in FacePorts(n) /\ rec[n].chip \in {1, 2}
  THEN PortOnFace(Device[n], rec[n].chip, p)
  ELSE 0

------------------------------------------------------------------------------
\* get_line_index and get_spine_index; an index outside the table is an error.
LineIndex(n) ==
  IF Device[n] = "4018" THEN rec[n].slot ELSE 3 * (rec[n].slot - 1) + rec[n].chip

SpineIndex(n) ==
  CASE Device[n] \in {"9288", "2012"} -> 3 * (rec[n].slot - 1) + rec[n].chip
    [] Device[n] \in {"4700", "4700x2"} -> 2 * (rec[n].slot - 1) + rec[n].chip
    [] OTHER -> rec[n].slot

Current == Len(chassis)

\* insert_line_router, insert_spine and insert_mellanox_line_and_spine: the first
\* board in a slot stays there.
WithBoard(slots, i, n) == [j \in DOMAIN slots \cup {i} |-> IF j = i THEN n ELSE slots[j]]

Insert(c, side, i, n) ==
  IF i \in DOMAIN chassis[c][side]
  THEN UNCHANGED <<chassis, chassisOf>>
  ELSE /\ chassis' = [chassis EXCEPT ![c][side] = WithBoard(@, i, n)]
       /\ chassisOf' = [chassisOf EXCEPT ![n] = c]

NoBoards == [i \in {} |-> 0]

NewChassis(guid, num, count, spines) ==
  [guid |-> guid, num |-> num, count |-> count, nodes |-> {}, spine |-> spines,
   line |-> NoBoards]

\* The way out of group_nodes when something went wrong: every chassis is freed.
Fail ==
  /\ pc' = "failed"
  /\ chassis' = <<>>
  /\ UNCHANGED <<at, rec, chassisOf, pass, visits>>

------------------------------------------------------------------------------
node == fabric.order[at]

Turn(loop) == pc = loop /\ at <= Len(fabric.order) /\ UNCHANGED fabric

\* One loop is over, the next one starts.
NextLoop ==
  /\ pc \in {"fill", "search", "count", "group"}
  /\ at > Len(fabric.order)
  /\ pc' = CASE pc = "fill" -> "search" [] pc = "search" -> "count"
              [] pc = "count" -> "group" [] pc = "group" -> "done"
  /\ at' = 1
  /\ UNCHANGED <<fabric, rec, chassisOf, chassis, numbered, pass, visits>>

FillRecord ==
  /\ Turn("fill")
  /\ rec' = Filled(node)
  /\ at' = at + 1
  /\ UNCHANGED <<pc, chassisOf, chassis, numbered, pass, visits>>

\* A spine that is in no chassis starts one.
StartsChassis(n) ==
  /\ n \in Switches /\ Vendor[n] = "VTR" /\ IsSpine(n) /\ rec[n].found
  /\ \A c \in 1..Len(chassis) : chassisOf[n] = c => chassis[c].num = 0

SkipNode ==
  /\ Turn("search")
  /\ ~StartsChassis(node)
  /\ at' = at + 1
  /\ UNCHANGED <<pc, rec, chassisOf, chassis, numbered, pass, visits>>

Initialized(ports) == {e \in ports : rec[Peer(e)].found}

\* add_chassis, and build_chassis up to its loop over the ports of the spine.
StartChassis ==
  /\ Turn("search")
  /\ StartsChassis(node)
  /\ numbered' = numbered + 1
  /\ IF SpineIndex(node) \in 1..SpinesMax
     THEN /\ chassis' = Append(chassis, NewChassis(NoGuid, Byte(numbered'), 0,
                                 WithBoard(NoBoards, SpineIndex(node), node)))
          /\ chassisOf' = [chassisOf EXCEPT ![node] = Len(chassis) + 1]
          /\ pc' = "build"
          /\ pass' = 0
          /\ visits' = Initialized(LinksIn(node, SpinePorts(node)))
          /\ UNCHANGED <<at, rec>>
     ELSE Fail

\* The boards of the current chassis that a pass starts from.
LineBoards == {n \in Nodes : \E i \in DOMAIN chassis[Current].line :
                               chassis[Current].line[i] = n /\ IsLine(n)}
SpineBoards == {n \in Nodes : \E i \in DOMAIN chassis[Current].spine :
                                chassis[Current].spine[i] = n}

\* The order in which a pass looks at the ports: by slot, then by number.
Before(e, f) ==
  LET Index(n) == IF pass \in {1, 3} THEN LineIndex(n) ELSE SpineIndex(n)
  IN  \/ Index(e[1]) < Index(f[1])
      \/ Index(e[1]) = Index(f[1]) /\ e[2] <= f[2]

Visiting(e) == e \in visits /\ \A f \in visits : Before(e, f)

\* pass_on_lines_catch_spines
CatchSpine ==
  /\ pc = "build" /\ pass \in {1, 3}
  /\ \E e \in visits :
       /\ Visiting(e)
       /\ IF SpineIndex(Peer(e)) \in 1..SpinesMax
          THEN /\ Insert(Current, "spine", SpineIndex(Peer(e)), Peer(e))
               /\ visits' = visits \ {e}
               /\ UNCHANGED <<pc, at, rec, pass>>
          ELSE Fail
  /\ UNCHANGED <<fabric, numbered>>

\* The loop over the ports of the first spine, which ignores what does not fit,
\* and pass_on_spines_catch_lines.
CatchLine ==
  /\ pc = "build" /\ pass \in {0, 2, 4}
  /\ \E e \in visits :
       /\ Visiting(e)
       /\ IF LineIndex(Peer(e)) \in 1..LinesMax
          THEN /\ Insert(Current, "line", LineIndex(Peer(e)), Peer(e))
               /\ visits' = visits \ {e}
               /\ UNCHANGED <<pc, at, rec, pass>>
          ELSE IF pass = 0
               THEN /\ visits' = visits \ {e}
                    /\ UNCHANGED <<pc, at, rec, pass, chassis, chassisOf>>
               ELSE Fail
  /\ UNCHANGED <<fabric, numbered>>

\* Mutant of LastPass: without "additional 2 passes".
LastPassOfTwo == 2

\* build_chassis passes four times over the boards it has.
LastPass == 4

StartPass ==
  /\ pc = "build" /\ visits = {} /\ pass < LastPass
  /\ pass' = pass + 1
  /\ visits' = Initialized(
                 IF pass' \in {1, 3} THEN UNION {LinksIn(n, LinePorts(n)) : n \in LineBoards}
                 ELSE UNION {LinksIn(n, SpinePorts(n)) : n \in SpineBoards})
  /\ UNCHANGED <<fabric, pc, at, rec, chassisOf, chassis, numbered>>

\* pass_on_spines_interpolate_chguid, and back to the loop over the switches.
EndChassis ==
  /\ pc = "build" /\ visits = {} /\ pass = LastPass
  /\ LET spine == chassis[Current].spine
         first == CHOOSE i \in DOMAIN spine : \A j \in DOMAIN spine : i <= j
     IN  chassis' = [chassis EXCEPT ![Current].guid = GuidBefore(spine[first])]
  /\ pc' = "search"
  /\ at' = at + 1
  /\ UNCHANGED <<fabric, rec, chassisOf, numbered, pass, visits>>

------------------------------------------------------------------------------
\* topspin_chassisguid, and what xsigo_chassisguid does to switches.
Masked(guid) == [guid EXCEPT !.loc = 0]

\* The second port type of an Xsigo switch: "Leaf 1".
IsLeafOne(guid) == guid.maker = "XS" /\ guid.role = "switch" /\ guid.loc = 2

\* xsigo_chassisguid: a CA belongs to the leaf it is connected to.
XsigoGuid(n) ==
  CASE Sys[n].maker = "XS" /\ Sys[n].role = "switch" -> Masked(Sys[n])
    [] Sys[n].maker = "XS" /\ Sys[n].role = "ca" ->
         CASE <<n, 1>> \notin fabric.seen -> NoGuid
           [] <<n, 1>> \in fabric.links /\ IsLeafOne(Sys[Peer(<<n, 1>>)]) ->
                Masked(Sys[Peer(<<n, 1>>)])
           [] OTHER -> Sys[n]
    [] OTHER -> Sys[n]

\* get_chassisguid
ChassisGuid(n) ==
  CASE Vendor[n] = "TS" -> Masked(Sys[n])
    [] Vendor[n] # "TS" /\ (Vendor[n] = "XS" \/ Sys[n].maker = "XS") -> XsigoGuid(n)
    [] OTHER -> Sys[n]

\* find_chassisguid: the first one with n's GUID, or 0.
Found(n) ==
  LET same == {c \in 1..Len(chassis) : chassis[c].guid = ChassisGuid(n)}
  IN  IF same = {} THEN 0 ELSE CHOOSE c \in same : \A d \in same : c <= d

\* The nodes grouped by system image GUID.
Grouped(n) == Vendor[n] # "VTR" /\ Sys[n] # NoGuid

CountNode ==
  /\ Turn("count")
  /\ chassis' =
       CASE ~Grouped(node) -> chassis
         [] Grouped(node) /\ Found(node) # 0 ->
              [chassis EXCEPT ![Found(node)].count = Byte(@ + 1)]
         [] OTHER -> Append(chassis, NewChassis(ChassisGuid(node), 0, 1, NoBoards))
  /\ at' = at + 1
  /\ UNCHANGED <<pc, rec, chassisOf, numbered, pass, visits>>

\* Mutant of IsChassis: one node is a chassis.
IsChassisOfOne(c) == chassis[c].count >= 1

\* "part of chassis (defined as chassis->nodecount > 1)"
IsChassis(c) == chassis[c].count > 1

\* A chassis gets its number with its first node.  A node that is not a board
\* goes to its list of nodes, a Mellanox board to its slot.
GroupNode ==
  /\ Turn("group")
  /\ LET c == Found(node)
         new == chassis[c].num = 0
         num == IF new THEN Byte(numbered + 1) ELSE chassis[c].num
         numberedChassis == [chassis EXCEPT ![c].num = num]
         side == rec[node].side
         slot == rec[node].slot
     IN  IF Grouped(node) /\ c # 0 /\ IsChassis(c)
         THEN /\ numbered' = IF new THEN numbered + 1 ELSE numbered
              /\ CASE ~rec[node].found ->
                        /\ rec' = [rec EXCEPT ![node].found = TRUE]
                        /\ chassis' = [numberedChassis EXCEPT ![c].nodes = @ \cup {node}]
                        /\ chassisOf' = [chassisOf EXCEPT ![node] = c]
                   [] rec[node].found /\ Vendor[node] = "MLX" /\ side \in {"line", "spine"}
                      /\ slot \notin DOMAIN chassis[c][side] ->
                        /\ chassis' = [numberedChassis EXCEPT ![c][side] =
                                         WithBoard(@, slot, node)]
                        /\ chassisOf' = [chassisOf EXCEPT ![node] = c]
                        /\ UNCHANGED rec
                   [] OTHER -> chassis' = numberedChassis /\ UNCHANGED <<rec, chassisOf>>
         ELSE UNCHANGED <<rec, chassisOf, chassis, numbered>>
  /\ at' = at + 1
  /\ UNCHANGED <<pc, pass, visits>>

Next ==
  \/ FillRecord \/ NextLoop
  \/ SkipNode \/ StartChassis \/ CatchSpine \/ CatchLine \/ StartPass \/ EndChassis
  \/ CountNode \/ GroupNode

Spec == Init /\ [][Next]_vars

------------------------------------------------------------------------------
Present == {fabric.order[i] : i \in 1..Len(fabric.order)}

BoardsIn(ch) == {ch.line[i] : i \in DOMAIN ch.line} \cup {ch.spine[i] : i \in DOMAIN ch.spine}

Boards(c) == BoardsIn(chassis[c])

\* The boards of one chassis object are boards of one real chassis, whatever
\* cables there are between the faces of chassis.
BoardsOfOneBox ==
  \A c \in 1..Len(chassis) : \A m, n \in Boards(c) : Box[m] = Box[n]

\* What internal links lead to from board n, over at most k of them.
InsidePorts(n) ==
  CASE IsLine(n) -> LinePorts(n) [] IsSpine(n) -> SpinePorts(n) [] OTHER -> {}

Within(n, k) ==
  LET R[i \in 0..k] ==
        IF i = 0 THEN {n}
        ELSE LET nearer == R[i - 1]
             IN  nearer \cup UNION {{Peer(e) : e \in LinksIn(m, InsidePorts(m))} : m \in nearer}
  IN  R[k]

SpinesWithin(n, k) == {m \in Within(n, k) \cap Switches : IsSpine(m)}

\* "extra pass to ensure that all related chips/modules inserted into the
\* chassis" (chassis.c, build_chassis): boards that are linked inside a chassis
\* are all in one chassis object, and nothing else is, from whichever spine it was
\* built.  A spine places itself by the first switch it sees, which is taken for
\* a line board.  This takes a chassis in which five links lead from every spine to
\* every board: what is further away is not reached, and starts a chassis of its
\* own that takes boards of the first one over.
BoxIsWhole ==
  pc = "done" =>
    \A s \in {n \in Present \cap Switches : Vendor[n] = "VTR" /\ IsSpine(n)} :
      (\A t \in SpinesWithin(s, 6) : Within(t, 5) = Within(t, 6)) =>
        /\ chassisOf[s] # 0
        /\ Within(s, 5) = Boards(chassisOf[s])
        /\ \A n \in Within(s, 5) : chassisOf[n] = chassisOf[s]

\* The slot of the chassis that the tables give for the other end of a cable.
SlotBehind(e) == LineSlot(Device[Peer(e)], Cable[e][2])

\* What ExternalPortsDiffer asks of the hardware: boards are switches, the inside
\* ports of a spine lead to no spine, and line boards of one chassis that are
\* cabled to the ports of one slot are of one model.
SlotsAsBuilt ==
  /\ \A n \in Nodes \ Switches : ~IsLine(n) /\ ~IsSpine(n)
  /\ \A e \in DOMAIN Cable :
       IsSpine(e[1]) /\ e[2] \notin FacePorts(e[1]) => ~IsSpine(Peer(e))
  /\ \A d, e \in {f \in DOMAIN Cable : IsLine(f[1]) /\ f[2] \notin FacePorts(f[1])} :
       Box[d[1]] = Box[e[1]] /\ SlotBehind(d) = SlotBehind(e) => Device[d[1]] = Device[e[1]]

\* No two chips in a slot show the same port on the face of the chassis.
ExternalPortsDiffer ==
  pc = "done" => \A c \in 1..Len(chassis) : \A m, n \in Boards(c) :
    m # n /\ rec[m].side = rec[n].side /\ rec[m].slot = rec[n].slot =>
      \A p \in FacePorts(m), q \in FacePorts(n) :
        ExtPort(m, p) # 0 => ExtPort(m, p) # ExtPort(n, q)

\* What GroupedBySystem asks of the hardware: what is inside a Voltaire chassis is
\* Voltaire's.
VoltaireInside ==
  \A e \in DOMAIN Cable :
    (IsLine(e[1]) \/ IsSpine(e[1])) /\ Vendor[e[1]] = "VTR" /\ e[2] \notin FacePorts(e[1])
      => Vendor[Peer(e)] = "VTR"

\* What BoxIsWhole asks of the hardware and of a scan of it.  Inside a chassis the
\* ports of a spine are cabled to line boards and router modules.
IsInside(e) ==
  (IsLine(e[1]) /\ e[2] \in LinePorts(e[1])) \/ (IsSpine(e[1]) /\ e[2] \notin FacePorts(e[1]))

InsideIsInside ==
  \A e \in DOMAIN Cable : IsInside(e) =>
    \/ (IsLine(Peer(e)) \/ IsSpine(Peer(e))) /\ IsInside(Cable[e])
    \/ Device[Peer(e)] = "router" /\ Device[e[1]] \in RouterHosts

\* What is behind port e of a spine has its place in the chassis to itself.
ChipBehind(e) ==
  IF Device[Peer(e)] = "router" THEN RouterChip(e[1], e[2]) ELSE LineChip(Device[e[1]], e[2])

IndexBehind(e) ==
  LET slot == LineSlot(Device[e[1]], e[2])
  IN  IF Device[Peer(e)] = "4018" THEN slot ELSE 3 * (slot - 1) + ChipBehind(e)

LinesApart ==
  LET inside == {e \in DOMAIN Cable : IsSpine(e[1]) /\ IsInside(e)}
  IN  /\ \A e \in inside : IndexBehind(e) \in 1..LinesMax
      /\ \A d, e \in inside :
           Box[d[1]] = Box[e[1]] /\ IndexBehind(d) = IndexBehind(e) => Peer(d) = Peer(e)

\* So has a spine, as far as the first switch it sees tells its place.
SpinePlace(links, s) ==
  LET e == Cable[FirstPort({d \in links : d[1] = s /\ IsInside(d) /\ Peer(d) \in Switches})]
      slot == SpineSlot(Device[s], e[2])
      chip == SpineChip(Device[s], e[2])
  IN  CASE Device[s] \in {"9288", "2012"} -> 3 * (slot - 1) + chip
        [] Device[s] \in {"4700", "4700x2"} -> 2 * (slot - 1) + chip
        [] OTHER -> slot

SpinesApart ==
  \A f \in Discovered :
    \A d, e \in {l \in f.links : IsSpine(l[1]) /\ IsInside(l) /\ Peer(l) \in Switches} :
      Box[d[1]] = Box[e[1]] /\ SpinePlace(f.links, d[1]) = SpinePlace(f.links, e[1])
        => d[1] = e[1]

\* The nodes at both ends of a link of a board were seen, and spines that are cabled
\* to one router module are also cabled to one line board.
SeenAsBuilt ==
  \A f \in Discovered :
    /\ \A e \in f.links : IsLine(e[1]) \/ IsSpine(e[1]) =>
         \A n \in {e[1], Peer(e)} : \E i \in DOMAIN f.order : f.order[i] = n
    /\ \A d, e \in {l \in f.links : IsSpine(l[1]) /\ IsInside(l)} :
         Peer(d) = Peer(e) /\ ~IsLine(Peer(d)) /\ d[1] # e[1] =>
           \E a, b \in f.links : /\ a[1] = d[1] /\ IsInside(a) /\ IsLine(Peer(a))
                                 /\ b[1] = e[1] /\ IsInside(b) /\ Peer(b) = Peer(a)

PlacesAsBuilt == InsideIsInside /\ LinesApart /\ SpinesApart /\ SeenAsBuilt

\* "make another pass to see which nodes are part of chassis (defined as
\* chassis->nodecount > 1)" (chassis.c, group_nodes): nodes with a common chassis
\* GUID are in one numbered chassis, nodes without a fellow in none.  Of Mellanox
\* boards that claim the same slot one has it.  The unsigned char counts must
\* not have wrapped.
GroupedBySystem ==
  pc = "done" /\ numbered < CharMod =>
    \A n \in {m \in Present : Grouped(m)} :
      LET same == {m \in Present : Grouped(m) /\ ChassisGuid(m) = ChassisGuid(n)}
          group == chassis[Found(n)]
          r == rec[n]
      IN  Cardinality(same) < CharMod =>
            IF same = {n} THEN chassisOf[n] = 0 /\ group.num = 0
            ELSE /\ group.num # 0
                 /\ group.nodes = {m \in same : rec[m].side = "none"}
                 /\ r.side = "none" => chassisOf[n] = Found(n)
                 /\ r.side \in {"line", "spine"} /\ Vendor[n] = "MLX" =>
                      /\ r.slot \in DOMAIN group[r.side]
                      /\ chassisOf[n] = IF group[r.side][r.slot] = n THEN Found(n) ELSE 0

=============================================================================
