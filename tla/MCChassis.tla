----------------------------- MODULE MCChassis -----------------------------
(***************************************************************************)
(* Three Voltaire chassis, wired as the tables of the code say, and nodes  *)
(* that are grouped by system image GUID.                                  *)
(*                                                                         *)
(*   a: ISR9096, spines a1..a4 in slots 1..4, line chips A1 and A2 in slot *)
(*      1, A3 in slot 2                                                    *)
(*   b: ISR4700, the chips b1 and b2 of a double density spine in slot 1,  *)
(*      line boards B1 and B18 in slots 1 and 18                           *)
(*   c: ISR9288, spine chips c1 and c2, line chips C1 (slot 1) and C12     *)
(*      (slot 12), a router R in slot 3 and one, Q, found as a switch      *)
(*   d: ISR4200, a spine d1 known from port 5 of a line board D1           *)
(*                                                                         *)
(* Faces: b1 and A1, B1 and A2 are cabled; V is a switch at A3.            *)
(***************************************************************************)
EXTENDS TopologyListing, TLC, SequencesExt

Cabled(pairs) ==
  [e \in {p[1] : p \in pairs} \cup {p[2] : p \in pairs} |->
     LET pair == CHOOSE p \in pairs : e \in {p[1], p[2]}
     IN  IF e = pair[1] THEN pair[2] ELSE pair[1]]

Spines9096 == [a1 |-> 1, a2 |-> 2, a3 |-> 3, a4 |-> 4]
Lines9096 == [A1 |-> <<1, 1>>, A2 |-> <<1, 2>>, A3 |-> <<2, 1>>]

\* One cable for each spine and line chip of chassis a; the hardware has three.
CablesA ==
  {<<<<s, 6 * (Lines9096[l][1] - 1) + 3 * (Lines9096[l][2] - 1) + 1>>,
     <<l, 3 * (Spines9096[s] - 1) + 1>>>> :
     s \in DOMAIN Spines9096, l \in DOMAIN Lines9096}

CablesB ==
  {<<<<"b1", 1>>, <<"B1", 1>>>>, <<<<"b2", 1>>, <<"B1", 2>>>>,
   <<<<"b1", 18>>, <<"B18", 1>>>>, <<<<"b2", 18>>, <<"B18", 2>>>>}

CablesC ==
  {<<<<"c1", 1>>, <<"C1", 1>>>>, <<<<"c2", 1>>, <<"C1", 2>>>>,
   <<<<"c1", 24>>, <<"C12", 1>>>>, <<<<"c2", 24>>, <<"C12", 2>>>>,
   <<<<"c1", 5>>, <<"R", 1>>>>, <<<<"c2", 23>>, <<"Q", 1>>>>}

CablesD == {<<<<"d1", 1>>, <<"D1", 5>>>>}

CablesBetween ==
  {<<<<"b1", 19>>, <<"A1", 13>>>>, <<<<"B1", 19>>, <<"A2", 13>>>>,
   <<<<"V", 1>>, <<"A3", 13>>>>}

CablesOther == {<<<<"leaf", 1>>, <<"xca", 1>>>>, <<<<"leaf", 2>>, <<"xcb", 2>>>>}

MCCable == Cabled(CablesA \cup CablesB \cup CablesC \cup CablesD \cup CablesBetween
                  \cup CablesOther)

Mellanox == {"mL1", "mL1x", "mS1", "mS1other", "mL36", "mL40", "mL41", "mBare"}
Hosts == {"h1", "h2", "h3", "h4", "h5", "alone", "zero"}
MCSwitches == ({e[1] : e \in DOMAIN MCCable} \ {"R", "xca", "xcb"})
              \cup Mellanox \cup {"t1", "t2"}
MCNodes == MCSwitches \cup Hosts \cup {"R", "xca", "xcb"}

MCRouters == {"h4"}

MCNumPorts == [n \in MCNodes |-> IF n \in {"R", "Q"} THEN 1
                                 ELSE IF n \in MCSwitches THEN 36 ELSE 2]

MCLids == [e \in Ports |-> 0]

MCVendor == [n \in MCNodes |-> CASE n \in Mellanox -> "MLX"
                                 [] n \in {"t1", "t2"} -> "TS"
                                 [] n \in {"leaf", "xca"} -> "XS"
                                 [] n \in Hosts \cup {"xcb"} -> "other"
                                 [] OTHER -> "VTR"]

MCDevice == [n \in MCNodes |->
  CASE n \in DOMAIN Spines9096 -> "9096" [] n \in DOMAIN Lines9096 -> "24"
    [] n \in {"b1", "b2"} -> "4700x2"    [] n \in {"B1", "B18"} -> "4018"
    [] n \in {"c1", "c2"} -> "9288"      [] n \in {"C1", "C12"} -> "2024"
    [] n = "d1" -> "4200"                [] n = "D1" -> "8"
    [] n \in {"R", "Q"} -> "router"
    [] n \in Mellanox -> "IS4"           [] OTHER -> "any"]

MCDescribed == [n \in MCNodes |->
  CASE n \in {"mL1", "mL1x"} -> [side |-> "line", num |-> 1]
    [] n \in {"mS1", "mS1other"} -> [side |-> "spine", num |-> 1]
    [] n = "mL36" -> [side |-> "line", num |-> 36]
    [] n \in {"mL40", "mL41"} -> [side |-> "line", num |-> 40]
    [] n = "mBare" -> [side |-> "other", num |-> 0]
    [] OTHER -> [side |-> "none", num |-> 0]]

MCGuidMod4 == [n \in MCNodes |-> CASE n = "c1" -> 1 [] n = "c2" -> 3 [] OTHER -> 0]

Guid(maker, box, loc, role) == [maker |-> maker, box |-> box, loc |-> loc, role |-> role]

MCSys == [n \in MCNodes |->
  CASE n = "mS1other" -> Guid("MLX", "m2", 0, "none")
    [] n \in Mellanox \ {"mS1other"} -> Guid("MLX", "m1", 0, "none")
    [] n = "t1" -> Guid("TS", "t", 1, "none")
    [] n = "t2" -> Guid("TS", "t", 2, "none")
    [] n = "leaf" -> Guid("XS", "x", 2, "switch")
    [] n = "xca" -> Guid("XS", "xca", 0, "ca")
    [] n = "xcb" -> Guid("XS", "xcb", 0, "ca")
    [] n \in {"h1", "h2"} -> Guid("any", "h12", 0, "none")
    [] n \in {"h3", "h4"} -> Guid("any", "h34", 0, "none")
    [] n \in {"h5", "alone"} -> Guid("any", n, 0, "none")
    [] n = "zero" -> NoGuid
    [] OTHER -> Guid("VTR", n, 0, "none")]

MCBox == [n \in MCNodes |->
  CASE n \in DOMAIN Spines9096 \cup DOMAIN Lines9096 -> "a"
    [] n \in {"b1", "b2", "B1", "B18"} -> "b"
    [] n \in {"c1", "c2", "C1", "C12", "R", "Q"} -> "c"
    [] n \in {"d1", "D1"} -> "d"
    [] n \in Mellanox -> MCSys[n].box
    [] OTHER -> n]

Ends(pairs) == {p[1] : p \in pairs} \cup {p[2] : p \in pairs}
Nodes1(pairs) == {e[1] : e \in Ends(pairs)}
EveryPort(ns) == {<<n, p>> : n \in ns, p \in 1..2}

\* The fabric of some cables, its nodes in the order given or in its reverse.
Joined(order, pairs) ==
  {[order |-> o, links |-> Ends(pairs), seen |-> Ends(pairs)] : o \in {order, Reverse(order)}}

\* Chassis a with three spines and any of its links; a board none of whose
\* links is up is not discovered.
SomeOfA ==
  LET pairs == {p \in CablesA : p[1][1] # "a4"}
      order == <<"a2", "A1", "a1", "A3", "a3", "A2">>
      In(up) == SelectSeq(order, LAMBDA n : n \in Nodes1(up))
  IN  UNION {Joined(In(up), up) : up \in SUBSET pairs}

\* Chassis a as one long chain: the fourth spine is six links from the first.
ChainA ==
  LET up == {<<<<"a1", 1>>, <<"A1", 1>>>>, <<<<"a2", 1>>, <<"A1", 4>>>>,
             <<<<"a2", 4>>, <<"A2", 4>>>>, <<<<"a3", 4>>, <<"A2", 7>>>>,
             <<<<"a3", 7>>, <<"A3", 7>>>>, <<<<"a4", 7>>, <<"A3", 10>>>>}
  IN  Joined(<<"a1", "a2", "a3", "a4", "A1", "A2", "A3">>, up)

\* Several chassis with cables between their faces; some inside links are down.
Several ==
  UNION {Joined(<<"A1", "b1", "a1", "B1", "A2", "V", "b2", "A3", "B18", "a2">>,
                {p \in CablesA : p[1][1] \in {"a1", "a2"}} \cup CablesBetween
                \cup (CablesB \ down)) :
         down \in {d \in SUBSET CablesB : Cardinality(d) <= 1}}

\* Router modules, with a switch that is one, and all the others.
WithRouters ==
  UNION {Joined(<<"R", "c2", "C1", "Q", "C12", "c1">>, CablesC \ down) :
         down \in SUBSET {<<<<"c1", 1>>, <<"C1", 1>>>>, <<<<"c1", 24>>, <<"C12", 1>>>>,
                          <<<<"c2", 24>>, <<"C12", 2>>>>}}

\* A spine none of whose links to line boards was discovered, one that is known
\* from a port its table does not place, and a Voltaire CA next to one.
Misplaced ==
  Joined(<<"D1", "d1">>, CablesD)
  \cup Joined(<<"R", "c1">>, {<<<<"c1", 5>>, <<"R", 1>>>>})

\* Nodes that are grouped by GUID.
OtherOrders ==
  {<<"h1", "t1", "mL1", "h2", "leaf", "xca", "h3">>,
   <<"h1", "h2", "h3", "h4", "mL1", "mS1", "mS1other", "t1", "t2">>,
   <<"mL1", "mL1x", "mS1", "mBare", "mL36", "mS1other", "zero">>,
   <<"mL40", "mS1", "h3", "mL41", "h4">>,
   <<"xca", "t1", "leaf", "t2", "xcb", "h5", "alone">>}

Others ==
  UNION {UNION {{[order |-> o, links |-> Ends(CablesOther), seen |-> seen] :
                 o \in {order, Reverse(order)}} : order \in OtherOrders} :
         seen \in {Ends(CablesOther), Ends(CablesOther) \cup EveryPort({"xcb"})}}

ASSUME MCSlotsAssumption == SlotsAsBuilt

ASSUME MCInsideAssumption == VoltaireInside

ASSUME MCPlacesAssumption == PlacesAsBuilt

ASSUME MCRoutersAssumption == ModulesAreNoRouters

MCDiscovered == SomeOfA \cup ChainA \cup Several \cup WithRouters \cup Misplaced \cup Others
=============================================================================
