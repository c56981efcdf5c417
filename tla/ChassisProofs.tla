--------------------------- MODULE ChassisProofs ---------------------------
(***************************************************************************)
(* Proofs about Chassis, for any number of chassis of every model and any  *)
(* cables between them.                                                    *)
(*                                                                         *)
(* A chassis that is being built knows one real chassis: the one its       *)
(* boards are in and the one behind every port the pass still visits.  The *)
(* chassis of Mellanox boards are told apart by their GUIDs.               *)
(*                                                                         *)
(* A slot of a chassis holds the board whose index it is, which is why two *)
(* boards that say they are in one place differ in their chip.             *)
(*                                                                         *)
(* The chassis that no spine has started are the groups of nodes with one  *)
(* GUID: what is known of one is what the nodes of it that were counted,   *)
(* and then those that were sorted, say.                                   *)
(*                                                                         *)
(* An assembly is what hangs together by the links inside a chassis.  Its  *)
(* boards are in no chassis object, or in the one being built, or all in   *)
(* one.  Each pass reaches one link further: five links from a spine are   *)
(* all of it.                                                              *)
(*                                                                         *)
(* A node is a board or a member of the chassis object it points at, and   *)
(* of no other that is listed: what is printed by chassis is printed once. *)
(***************************************************************************)
EXTENDS TopologyListing, FiniteSetTheorems, WellFoundedInduction, TLAPS

Slots == UNION {[S -> Nodes] : S \in SUBSET Nat}

Guids == {NoGuid} \cup {GuidBefore(n) : n \in Nodes} \cup {Sys[n] : n \in Nodes}
         \cup {Masked(Sys[n]) : n \in Nodes}

ChassisSet ==
  [guid : Guids, num : 0..(CharMod - 1), count : 0..(CharMod - 1), nodes : SUBSET Nodes,
   spine : Slots, line : Slots]

Typing ==
  /\ fabric \in Discovered
  /\ pc \in {"fill", "search", "build", "count", "group", "done", "failed"}
  /\ at \in 1..(Len(fabric.order) + 1)
  /\ rec \in [Nodes -> Positions]
  /\ chassisOf \in [Nodes -> Nat]
  /\ pc # "failed" => \A n \in Nodes : chassisOf[n] <= Len(chassis)
  /\ chassis \in Seq(ChassisSet)
  /\ numbered \in Nat
  /\ pass \in 0..4
  /\ visits \subseteq fabric.links
  /\ pc = "build" => /\ at <= Len(fabric.order)
                     /\ Len(chassis) # 0
                     /\ DOMAIN chassis[Len(chassis)].spine # {}

------------------------------------------------------------------------------
LEMMA FabricParts ==
  ASSUME NEW f \in Discovered
  PROVE  /\ f.order \in Seq(Nodes)
         /\ f.links \subseteq DOMAIN Cable
         /\ \A e \in f.links : Cable[e] \in f.links
BY ChassisAssumption

LEMMA LinkParts ==
  ASSUME NEW e \in DOMAIN Cable
  PROVE  /\ e[1] \in Nodes /\ e[2] \in Nat \ {0}
         /\ Cable[e] \in DOMAIN Cable
         /\ Peer(e) \in Nodes
         /\ Device[e[1]] \in Spines => e[2] \in 1..36 /\ Cable[e][2] \in 1..36
         /\ Device[Peer(e)] \in Spines => e[2] \in 1..36
<1>1. /\ e[1] \in Nodes /\ e[2] \in 1..NumPorts[e[1]] /\ NumPorts[e[1]] \in Nat \ {0}
      /\ Cable[e] \in DOMAIN Cable /\ Cable[Cable[e]] = e
  BY FabricAssumption
<1>2. Cable[e][1] \in Nodes /\ Cable[e][2] \in 1..NumPorts[Cable[e][1]]
      /\ NumPorts[Cable[e][1]] \in Nat \ {0}
  BY <1>1, FabricAssumption
<1>3. Device[e[1]] \in Spines => e[2] <= 36 /\ Cable[e][2] <= 36
  BY ChassisAssumption
<1>4. Device[Cable[e][1]] \in Spines => e[2] <= 36
  <2>1. Device[Cable[e][1]] \in Spines => Cable[Cable[e]][2] <= 36
    BY <1>1, ChassisAssumption
  <2> QED BY <1>1, <2>1
<1> QED BY <1>1, <1>2, <1>3, <1>4 DEF Peer

LEMMA ByteTyped ==
  ASSUME NEW i \in Nat
  PROVE  Byte(i) \in 0..(CharMod - 1)
BY ChassisAssumption DEF Byte

\* A set of natural numbers has a smallest one.
LEMMA Smallest ==
  ASSUME NEW N \in SUBSET Nat, N # {}
  PROVE  \E m \in N : \A k \in N : m <= k
<1> DEFINE R == OpToRel(<, Nat)
<1>1. IsWellFoundedOn(R, Nat)
  BY NatLessThanWellFounded
<1> HIDE DEF R
<1>2. PICK m \in N : \A k \in N : <<k, m>> \notin R
  BY <1>1, WFMin
<1>3. \A k \in N : k < m => <<k, m>> \in R
  BY DEF R, OpToRel
<1>4. \A k \in N : ~(k < m)
  BY <1>2, <1>3
<1>5. \A k \in N : k \in Nat /\ m \in Nat
  OBVIOUS
<1> QED BY <1>4, <1>5

\* Among some ports there is a first one.
LEMMA FirstPortIsOne ==
  ASSUME NEW S, S # {}, \A e \in S : e[2] \in Nat
  PROVE  FirstPort(S) \in S
<1> DEFINE N == {e[2] : e \in S}
<1>1. N \in SUBSET Nat /\ N # {}
  OBVIOUS
<1>2. PICK m \in N : \A k \in N : m <= k
  BY <1>1, Smallest
<1>3. PICK e \in S : e[2] = m
  BY <1>2
<1>4. \A f \in S : e[2] <= f[2]
  BY <1>2, <1>3
<1> QED BY <1>4 DEF FirstPort

\* Among ports with numbers up to 36 there is a last one.
LEMMA LastPortIsOne ==
  ASSUME NEW S, S # {}, \A e \in S : e[2] \in 1..36
  PROVE  LastPort(S) \in S
<1> DEFINE N == {36 - e[2] : e \in S}
<1>1. N \in SUBSET Nat /\ N # {}
  OBVIOUS
<1>2. PICK m \in N : \A k \in N : m <= k
  BY <1>1, Smallest
<1>3. PICK e \in S : 36 - e[2] = m
  BY <1>2
<1>4. \A f \in S : f[2] <= e[2]
  <2> TAKE f \in S
  <2>1. 36 - e[2] <= 36 - f[2]
    BY <1>2, <1>3
  <2> QED BY <2>1
<1> QED BY <1>4 DEF LastPort

LEMMA TablesTyped ==
  ASSUME NEW s \in Spines, NEW p \in 1..36
  PROVE  /\ SpineSlot(s, p) \in 0..255 /\ SpineChip(s, p) \in 0..255
         /\ LineSlot(s, p) \in 0..255 /\ LineChip(s, p) \in 0..255
<1>1. SpineSlot(s, p) \in 0..255
  BY DEF SpineSlot, Spines
<1>2. LineSlot(s, p) \in 0..255
  BY DEF LineSlot, Spines
<1>3. SpineChip(s, p) \in 0..255
  BY <1>1 DEF SpineChip, Spines
<1>4. LineChip(s, p) \in 0..255
  BY <1>2 DEF LineChip, Spines
<1> QED BY <1>1, <1>2, <1>3, <1>4

\* What each of the three functions that place a board makes of its record.
LEMMA PlacedTyped ==
  ASSUME NEW r \in Positions, NEW n, NEW e, Device[e[1]] \in Spines => e[2] \in 1..36
  PROVE  /\ Device[n] \in Spines /\ e[2] \in 1..36 => AtSpineSlot(r, n, e) \in Positions
         /\ AtLineSlot(r, e) \in Positions
         /\ AtRouterSlot(r, e) \in Positions
<1> DEFINE Types == {"none", "9096", "9288", "2004", "2012", "4700", "4200"}
<1>0. \A s \in Spines : TypeOfSpine(s) \in Types
  BY DEF TypeOfSpine, Spines
<1>1. ASSUME Device[n] \in Spines, e[2] \in 1..36
      PROVE  AtSpineSlot(r, n, e) \in Positions
  <2> DEFINE t == TypeOfSpine(Device[n])
             s == SpineSlot(Device[n], e[2])
             c == SpineChip(Device[n], e[2])
  <2>1. t \in Types
    BY <1>0, <1>1
  <2>2. s \in 0..255 /\ c \in 0..255
    BY <1>1, TablesTyped
  <2>3. AtSpineSlot(r, n, e) =
          [found |-> r.found, side |-> "spine", type |-> t, slot |-> s, chip |-> c]
    BY DEF AtSpineSlot
  <2> HIDE DEF t, s, c
  <2> QED BY <2>1, <2>2, <2>3 DEF Positions
<1>2. AtLineSlot(r, e) \in Positions
  <2> DEFINE t == TypeOfSpine(Device[e[1]])
             s == LineSlot(Device[e[1]], e[2])
             c == LineChip(Device[e[1]], e[2])
  <2>1. CASE Device[e[1]] \in Spines
    <3>1. t \in Types
      BY <1>0, <2>1
    <3>2. s \in 0..255 /\ c \in 0..255
      BY <2>1, TablesTyped
    <3>3. AtLineSlot(r, e) =
            [found |-> r.found, side |-> "line", type |-> t, slot |-> s, chip |-> c]
      BY <2>1 DEF AtLineSlot
    <3> HIDE DEF t, s, c
    <3> QED BY <3>1, <3>2, <3>3 DEF Positions
  <2>2. CASE Device[e[1]] \notin Spines
    BY <2>2 DEF AtLineSlot, Positions
  <2> QED BY <2>1, <2>2
<1>3. AtRouterSlot(r, e) \in Positions
  <2> DEFINE t == Device[e[1]]
             s == LineSlot(Device[e[1]], e[2])
             c == RouterChip(e[1], e[2])
  <2>1. CASE Device[e[1]] \in RouterHosts
    <3>1. t \in Types /\ t \in Spines
      BY <2>1 DEF RouterHosts, Spines
    <3>2. s \in 0..255
      BY <3>1, TablesTyped
    <3>3. c \in 0..255
      BY <3>1 DEF RouterChip
    <3>4. AtRouterSlot(r, e) =
            [found |-> TRUE, side |-> "router", type |-> t, slot |-> s, chip |-> c]
      BY <2>1 DEF AtRouterSlot
    <3> HIDE DEF t, s, c
    <3> QED BY <3>1, <3>2, <3>3, <3>4 DEF Positions
  <2>2. CASE Device[e[1]] \notin RouterHosts
    BY <2>2 DEF AtRouterSlot, Positions
  <2> QED BY <2>1, <2>2
<1> QED BY <1>1, <1>2, <1>3

LEMMA MarkedFound ==
  ASSUME NEW r \in Positions
  PROVE  [r EXCEPT !.found = TRUE] \in Positions
BY DEF Positions

LEMMA FilledRouterTyped ==
  ASSUME Typing, NEW n \in Nodes
  PROVE  FilledRouter(n) \in [Nodes -> Positions]
<1> DEFINE spines == {e \in fabric.links : e[1] = n /\ IsSpine(Peer(e))}
           known == {e \in spines : Device[Peer(e)] \in RouterHosts}
           S == IF known = {} THEN spines ELSE known
           r == [rec[n] EXCEPT !.found = TRUE]
<1>1. rec \in [Nodes -> Positions] /\ r \in Positions
  BY MarkedFound DEF Typing
<1>2. CASE spines = {}
  BY <1>1, <1>2 DEF FilledRouter
<1>3. CASE spines # {}
  <2>1. S # {} /\ S \subseteq spines
    BY <1>3
  <2>2. \A e \in S : e \in DOMAIN Cable /\ Device[Peer(e)] \in Spines
    BY <2>1, FabricParts DEF Typing, IsSpine
  <2>3. \A e \in S : e[2] \in 1..36
    BY <2>2, LinkParts
  <2> HIDE DEF S
  <2> DEFINE last == LastPort(S)
  <2>4. last \in S
    BY <2>1, <2>3, LastPortIsOne
  <2>5. Cable[last] \in DOMAIN Cable
    BY <2>2, <2>4, LinkParts
  <2>6. Device[Cable[last][1]] \in Spines => Cable[last][2] \in 1..36
    BY <2>5, LinkParts
  <2>7. AtRouterSlot(r, Cable[last]) \in Positions
    BY <1>1, <2>6, PlacedTyped
  <2>8. FilledRouter(n) = [rec EXCEPT ![n] = AtRouterSlot(r, Cable[last])]
    BY <1>3 DEF FilledRouter, S
  <2> QED BY <1>1, <2>7, <2>8
<1> QED BY <1>2, <1>3

LEMMA FilledSpineTyped ==
  ASSUME Typing, NEW n \in Nodes, IsSpine(n)
  PROVE  FilledSpine(n) \in [Nodes -> Positions]
<1> DEFINE inside == LinksIn(n, SpinePorts(n))
           lines == {e \in inside : Peer(e) \in Switches}
           routers == {e \in inside : Peer(e) \notin Switches /\ ~rec[Peer(e)].found}
           r == [rec[n] EXCEPT !.found = TRUE]
<1>1. rec \in [Nodes -> Positions] /\ r \in Positions
  BY MarkedFound DEF Typing
<1>2. \A e \in inside : e[1] = n /\ e[2] \in 1..36 /\ Cable[e][2] \in 1..36
  <2> TAKE e \in inside
  <2>1. e \in DOMAIN Cable /\ e[1] = n
    BY FabricParts DEF LinksIn, Typing
  <2> QED BY <2>1, LinkParts DEF IsSpine
<1>3. lines # {} => AtSpineSlot(r, n, Cable[FirstPort(lines)]) \in Positions
  <2> HAVE lines # {}
  <2>1. FirstPort(lines) \in lines
    BY <1>2, FirstPortIsOne
  <2>2. Cable[FirstPort(lines)][2] \in 1..36
    BY <1>2, <2>1
  <2> QED BY <1>1, <2>2, PlacedTyped DEF IsSpine
<1>4. ASSUME NEW m \in Nodes, \E e \in routers : Peer(e) = m
      PROVE  AtRouterSlot(rec[m], FirstPort({e \in routers : Peer(e) = m})) \in Positions
  <2> DEFINE S == {e \in routers : Peer(e) = m}
  <2>1. FirstPort(S) \in S
    BY <1>2, <1>4, FirstPortIsOne
  <2>2. FirstPort(S)[2] \in 1..36
    BY <1>2, <2>1
  <2>3. rec[m] \in Positions
    BY <1>1
  <2> QED BY <2>2, <2>3, PlacedTyped
<1>5. FilledSpine(n) =
        [m \in Nodes |->
           CASE m = n -> IF lines = {} THEN r ELSE AtSpineSlot(r, n, Cable[FirstPort(lines)])
             [] m # n /\ \E e \in routers : Peer(e) = m ->
                  AtRouterSlot(rec[m], FirstPort({e \in routers : Peer(e) = m}))
             [] OTHER -> rec[m]]
  BY DEF FilledSpine
<1> HIDE DEF inside, lines, routers, r
<1> QED BY <1>1, <1>3, <1>4, <1>5

LEMMA FilledLineTyped ==
  ASSUME Typing, NEW n \in Nodes
  PROVE  FilledLine(n) \in [Nodes -> Positions]
<1> DEFINE inside == LinksIn(n, LinePorts(n))
           r == [rec[n] EXCEPT !.found = TRUE]
           first == FirstPort(inside)
<1>1. rec \in [Nodes -> Positions] /\ r \in Positions
  BY MarkedFound DEF Typing
<1>2. CASE inside = {}
  BY <1>1, <1>2 DEF FilledLine
<1>3. CASE inside # {}
  <2>1. \A e \in inside : e \in DOMAIN Cable
    BY FabricParts DEF LinksIn, Typing
  <2>2. \A e \in inside : e[2] \in Nat
    BY <2>1, LinkParts
  <2>3. first \in inside
    BY <1>3, <2>2, FirstPortIsOne
  <2>4. Cable[first] \in DOMAIN Cable
    BY <2>1, <2>3, LinkParts
  <2>5. Device[Cable[first][1]] \in Spines => Cable[first][2] \in 1..36
    BY <2>4, LinkParts
  <2>6. AtLineSlot(r, Cable[first]) \in Positions
    BY <1>1, <2>5, PlacedTyped
  <2>7. FilledLine(n) = [rec EXCEPT ![n] = AtLineSlot(r, Cable[first])]
    BY <1>3 DEF FilledLine
  <2> QED BY <1>1, <2>6, <2>7
<1> QED BY <1>2, <1>3

LEMMA FilledTyped ==
  ASSUME Typing, NEW n \in Nodes
  PROVE  Filled(n) \in [Nodes -> Positions]
<1>1. rec \in [Nodes -> Positions]
  BY DEF Typing
<1>2. FilledVoltaire(n) \in [Nodes -> Positions]
  <2>1. [rec EXCEPT ![n].found = TRUE] \in [Nodes -> Positions]
    <3>1. [rec[n] EXCEPT !.found = TRUE] \in Positions
      BY <1>1, MarkedFound
    <3> QED BY <1>1, <3>1
  <2> QED BY <1>1, <2>1, FilledRouterTyped, FilledSpineTyped, FilledLineTyped
          DEF FilledVoltaire
<1>3. FilledMellanox(n) \in [Nodes -> Positions]
  <2> DEFINE d == Described[n]
             slot == IF d.num > SlotLimit(d.side) THEN 0 ELSE d.num
             p == [found |-> TRUE, side |-> d.side, chip |-> 1, type |-> rec[n].type,
                   slot |-> slot]
  <2>1. slot \in 0..255
    BY ChassisAssumption
  <2>2. [rec EXCEPT ![n].chip = 1] \in [Nodes -> Positions]
    BY <1>1 DEF Positions
  <2>3. ASSUME d.side \in {"line", "spine"}
        PROVE  [rec EXCEPT ![n] = p] \in [Nodes -> Positions]
    <3>1. rec[n].type \in {"none", "9096", "9288", "2004", "2012", "4700", "4200"}
      BY <1>1 DEF Positions
    <3>2. p \in Positions
      BY <2>1, <2>3, <3>1 DEF Positions
    <3> QED BY <1>1, <3>2
  <2> QED BY <1>1, <2>2, <2>3 DEF FilledMellanox
<1> QED BY <1>1, <1>2, <1>3 DEF Filled

------------------------------------------------------------------------------
LEMMA WithBoardTyped ==
  ASSUME NEW slots \in Slots, NEW i \in Nat, NEW n \in Nodes
  PROVE  /\ WithBoard(slots, i, n) \in Slots
         /\ DOMAIN WithBoard(slots, i, n) = DOMAIN slots \cup {i}
         /\ \A j \in DOMAIN WithBoard(slots, i, n) :
              \/ WithBoard(slots, i, n)[j] = n
              \/ j \in DOMAIN slots /\ WithBoard(slots, i, n)[j] = slots[j]
<1>1. PICK S \in SUBSET Nat : slots \in [S -> Nodes]
  BY DEF Slots
<1>2. WithBoard(slots, i, n) \in [S \cup {i} -> Nodes]
  BY <1>1 DEF WithBoard
<1>3. S \cup {i} \in SUBSET Nat
  OBVIOUS
<1> QED BY <1>1, <1>2, <1>3 DEF Slots, WithBoard

LEMMA NoBoardsTyped ==
  NoBoards \in Slots /\ DOMAIN NoBoards = {}
<1>1. NoBoards \in [{} -> Nodes]
  BY DEF NoBoards
<1> QED BY <1>1 DEF Slots, NoBoards

LEMMA NewChassisTyped ==
  ASSUME NEW guid \in Guids, NEW num \in 0..(CharMod - 1), NEW count \in 0..(CharMod - 1),
         NEW spines \in Slots
  PROVE  NewChassis(guid, num, count, spines) \in ChassisSet
BY NoBoardsTyped DEF NewChassis, ChassisSet

\* A board more in a slot of a chassis.
Put(ch, side, i, n) == [ch EXCEPT ![side] = WithBoard(@, i, n)]

LEMMA PutTyped ==
  ASSUME NEW ch \in ChassisSet, NEW side \in {"line", "spine"}, NEW i \in Nat, NEW n \in Nodes
  PROVE  /\ Put(ch, side, i, n) \in ChassisSet
         /\ Put(ch, side, i, n).guid = ch.guid
         /\ BoardsIn(Put(ch, side, i, n)) \subseteq BoardsIn(ch) \cup {n}
         /\ side = "line" => /\ Put(ch, side, i, n).spine = ch.spine
                             /\ Put(ch, side, i, n).line = WithBoard(ch.line, i, n)
         /\ side = "spine" => /\ Put(ch, side, i, n).spine = WithBoard(ch.spine, i, n)
                              /\ Put(ch, side, i, n).line = ch.line
<1>1. /\ ch.line \in Slots /\ ch.spine \in Slots
  BY DEF ChassisSet
<1>2. CASE side = "line"
  <2> DEFINE w == WithBoard(ch.line, i, n)
             put == [ch EXCEPT !.line = w]
  <2>1. w \in Slots /\ \A j \in DOMAIN w : w[j] = n \/ (j \in DOMAIN ch.line /\ w[j] = ch.line[j])
    BY <1>1, WithBoardTyped
  <2> HIDE DEF w
  <2>2. put \in ChassisSet /\ put.guid = ch.guid /\ put.line = w /\ put.spine = ch.spine
    BY <2>1 DEF ChassisSet
  <2> HIDE DEF put
  <2>3. BoardsIn(put) \subseteq BoardsIn(ch) \cup {n}
    BY <2>1, <2>2 DEF BoardsIn
  <2> QED BY <1>2, <2>2, <2>3 DEF Put, put, w
<1>3. CASE side = "spine"
  <2> DEFINE w == WithBoard(ch.spine, i, n)
             put == [ch EXCEPT !.spine = w]
  <2>1. w \in Slots /\ \A j \in DOMAIN w : w[j] = n \/ (j \in DOMAIN ch.spine /\ w[j] = ch.spine[j])
    BY <1>1, WithBoardTyped
  <2> HIDE DEF w
  <2>2. put \in ChassisSet /\ put.guid = ch.guid /\ put.spine = w /\ put.line = ch.line
    BY <2>1 DEF ChassisSet
  <2> HIDE DEF put
  <2>3. BoardsIn(put) \subseteq BoardsIn(ch) \cup {n}
    BY <2>1, <2>2 DEF BoardsIn
  <2> QED BY <1>3, <2>2, <2>3 DEF Put, put, w
<1> QED BY <1>2, <1>3

LEMMA BoardsAreNodes ==
  ASSUME NEW ch \in ChassisSet
  PROVE  /\ BoardsIn(ch) \subseteq Nodes
         /\ DOMAIN ch.spine \subseteq Nat
         /\ \A i \in DOMAIN ch.spine : ch.spine[i] \in Nodes
         /\ \A i \in DOMAIN ch.line : ch.line[i] \in Nodes
<1>1. PICK S \in SUBSET Nat : ch.spine \in [S -> Nodes]
  BY DEF ChassisSet, Slots
<1>2. PICK T \in SUBSET Nat : ch.line \in [T -> Nodes]
  BY DEF ChassisSet, Slots
<1> QED BY <1>1, <1>2 DEF BoardsIn

LEMMA GuidTyped ==
  ASSUME Typing, NEW n \in Nodes
  PROVE  ChassisGuid(n) \in Guids
<1>1. NoGuid \in Guids /\ \A m \in Nodes : Sys[m] \in Guids /\ Masked(Sys[m]) \in Guids
  BY DEF Guids
<1>2. <<n, 1>> \in fabric.links => Peer(<<n, 1>>) \in Nodes
  BY FabricParts, LinkParts DEF Typing
<1>3. XsigoGuid(n) \in Guids
  BY <1>1, <1>2 DEF XsigoGuid
<1> QED BY <1>1, <1>3 DEF ChassisGuid

LEMMA FoundIsOne ==
  ASSUME Typing, NEW n
  PROVE  /\ Found(n) \in 0..Len(chassis)
         /\ Found(n) # 0 => chassis[Found(n)].guid = ChassisGuid(n)
<1> DEFINE same == {c \in 1..Len(chassis) : chassis[c].guid = ChassisGuid(n)}
<1>1. Len(chassis) \in Nat
  BY DEF Typing
<1>2. CASE same = {}
  BY <1>1, <1>2 DEF Found
<1>3. CASE same # {}
  <2>1. same \in SUBSET Nat
    BY <1>1
  <2>2. PICK first \in same : \A d \in same : first <= d
    BY <1>3, <2>1, Smallest
  <2>3. (CHOOSE c \in same : \A d \in same : c <= d) \in same
    BY <2>2
  <2> QED BY <1>1, <1>3, <2>3 DEF Found
<1> QED BY <1>2, <1>3

------------------------------------------------------------------------------
LEMMA NodeTyped ==
  ASSUME Typing, at <= Len(fabric.order)
  PROVE  node \in Nodes /\ at + 1 \in 1..(Len(fabric.order) + 1)
<1>1. fabric.order \in Seq(Nodes) /\ Len(fabric.order) \in Nat
  BY FabricParts DEF Typing
<1>2. at \in 1..Len(fabric.order)
  BY <1>1 DEF Typing
<1> QED BY <1>1, <1>2 DEF node

\* Insert puts one more board in the chassis being built, or nothing.
LEMMA InsertTyped ==
  ASSUME Typing, Current # 0, NEW side \in {"line", "spine"}, NEW i \in Nat, NEW n \in Nodes,
         Insert(Current, side, i, n)
  PROVE  /\ chassis' \in Seq(ChassisSet)
         /\ Len(chassis') = Len(chassis)
         /\ chassisOf' \in [Nodes -> Nat]
         /\ \A m \in Nodes : chassisOf'[m] <= Len(chassis) \/ chassisOf'[m] = chassisOf[m]
         /\ \A c \in 1..Len(chassis) : c # Current => chassis'[c] = chassis[c]
         /\ chassis'[Current].guid = chassis[Current].guid
         /\ BoardsIn(chassis'[Current]) \subseteq BoardsIn(chassis[Current]) \cup {n}
         /\ DOMAIN chassis[Current].spine \subseteq DOMAIN chassis'[Current].spine
         /\ \A j \in DOMAIN chassis'[Current].spine :
              \/ side = "spine" /\ chassis'[Current].spine[j] = n
              \/ j \in DOMAIN chassis[Current].spine
                 /\ chassis'[Current].spine[j] = chassis[Current].spine[j]
         /\ chassis'[Current] \in {chassis[Current], Put(chassis[Current], side, i, n)}
<1> DEFINE ch == chassis[Current]
           put == Put(ch, side, i, n)
<1>1. /\ Len(chassis) \in Nat /\ Current \in 1..Len(chassis)
      /\ ch \in ChassisSet
      /\ chassisOf \in [Nodes -> Nat]
  BY DEF Typing, Current
<1>2. CASE i \in DOMAIN chassis[Current][side]
  <2>1. chassis' = chassis /\ chassisOf' = chassisOf
    BY <1>2 DEF Insert
  <2> QED BY <1>1, <2>1 DEF Typing
<1>3. CASE i \notin DOMAIN chassis[Current][side]
  <2>1. chassis' = [chassis EXCEPT ![Current] = put] /\ chassisOf' = [chassisOf EXCEPT ![n] = Current]
    BY <1>1, <1>3 DEF Insert, Put
  <2>2. /\ put \in ChassisSet /\ put.guid = ch.guid /\ BoardsIn(put) \subseteq BoardsIn(ch) \cup {n}
        /\ side = "line" => put.spine = ch.spine
        /\ side = "spine" => put.spine = WithBoard(ch.spine, i, n)
    <3>1. ch \in ChassisSet /\ side \in {"line", "spine"} /\ i \in Nat /\ n \in Nodes
      BY <1>1
    <3> HIDE DEF ch
    <3> QED BY <3>1, PutTyped
  <2>3. ch.spine \in Slots
    BY <1>1 DEF ChassisSet
  <2>4. /\ DOMAIN ch.spine \subseteq DOMAIN put.spine
        /\ \A j \in DOMAIN put.spine :
             \/ side = "spine" /\ put.spine[j] = n
             \/ j \in DOMAIN ch.spine /\ put.spine[j] = ch.spine[j]
    <3> DEFINE old == ch.spine
               new == put.spine
    <3>1. \/ side = "line" /\ new = old
          \/ side = "spine" /\ new = WithBoard(old, i, n)
      BY <2>2
    <3>2. /\ DOMAIN WithBoard(old, i, n) = DOMAIN old \cup {i}
          /\ \A j \in DOMAIN WithBoard(old, i, n) :
               \/ WithBoard(old, i, n)[j] = n
               \/ j \in DOMAIN old /\ WithBoard(old, i, n)[j] = old[j]
      BY <2>3, WithBoardTyped
    <3> HIDE DEF old, new
    <3>3. /\ DOMAIN old \subseteq DOMAIN new
          /\ \A j \in DOMAIN new : \/ side = "spine" /\ new[j] = n
                                   \/ j \in DOMAIN old /\ new[j] = old[j]
      BY <3>1, <3>2
    <3> QED BY <3>3 DEF old, new
  <2> HIDE DEF put, ch
  <2>5. /\ chassis' \in Seq(ChassisSet) /\ Len(chassis') = Len(chassis)
        /\ chassis'[Current] = put
        /\ \A c \in 1..Len(chassis) : c # Current => chassis'[c] = chassis[c]
    BY <1>1, <2>1, <2>2 DEF Typing
  <2>6. /\ chassisOf' \in [Nodes -> Nat]
        /\ \A m \in Nodes : chassisOf'[m] <= Len(chassis) \/ chassisOf'[m] = chassisOf[m]
    BY <1>1, <2>1
  <2> QED BY <2>2, <2>4, <2>5, <2>6 DEF ch, put
<1> QED BY <1>2, <1>3

LEMMA FailTyped ==
  ASSUME Typing, Fail, fabric' = fabric, numbered' \in Nat
  PROVE  Typing'
<1>1. chassis' \in Seq(ChassisSet)
  BY DEF Fail
<1> QED BY <1>1 DEF Fail, Typing

\* A node is found, and stays where it is.
SamePlaces(r, new) ==
  \A n \in Nodes : new[n].side = r[n].side /\ new[n].slot = r[n].slot /\ new[n].chip = r[n].chip

\* The slots of a chassis stay as they are, or one more is filled.
SameSlots(ch, new) == new.line = ch.line /\ new.spine = ch.spine

MoreSlots(ch, new, side, i, n) ==
  IF side = "line" THEN new.line = WithBoard(ch.line, i, n) /\ new.spine = ch.spine
  ELSE new.spine = WithBoard(ch.spine, i, n) /\ new.line = ch.line

\* A step of the passes leaves the chassis of the others alone.
LEMMA GroupNodeParts ==
  ASSUME Typing, GroupNode
  PROVE  /\ rec' \in [Nodes -> Positions] /\ SamePlaces(rec, rec')
         /\ chassisOf' \in [Nodes -> Nat]
         /\ \A n \in Nodes : chassisOf'[n] <= Len(chassis)
         /\ chassis' \in Seq(ChassisSet)
         /\ Len(chassis') = Len(chassis)
         /\ numbered' \in Nat
         /\ \A c \in 1..Len(chassis) :
              /\ chassis'[c].guid = chassis[c].guid
              /\ \/ BoardsIn(chassis'[c]) \subseteq BoardsIn(chassis[c])
                 \/ /\ BoardsIn(chassis'[c]) \subseteq BoardsIn(chassis[c]) \cup {node}
                    /\ Vendor[node] = "MLX"
                    /\ chassis[c].guid = ChassisGuid(node)
              /\ \/ SameSlots(chassis[c], chassis'[c])
                 \/ /\ Vendor[node] = "MLX" /\ rec[node].side \in {"line", "spine"}
                    /\ MoreSlots(chassis[c], chassis'[c], rec[node].side, rec[node].slot, node)
<1> DEFINE c == Found(node)
           new == chassis[c].num = 0
           num == IF new THEN Byte(numbered + 1) ELSE chassis[c].num
           numberedChassis == [chassis EXCEPT ![c].num = num]
           side == rec[node].side
           slot == rec[node].slot
<1>1. /\ node \in Nodes /\ Len(chassis) \in Nat /\ chassis \in Seq(ChassisSet)
      /\ chassisOf \in [Nodes -> Nat] /\ numbered \in Nat /\ rec \in [Nodes -> Positions]
      /\ \A n \in Nodes : chassisOf[n] <= Len(chassis)
  BY NodeTyped DEF Typing, GroupNode, Turn
<1>2. c \in 0..Len(chassis) /\ (c # 0 => chassis[c].guid = ChassisGuid(node))
  BY FoundIsOne
<1>5. rec' = rec => SamePlaces(rec, rec')
  BY DEF SamePlaces
<1> HIDE DEF c
<1>3. CASE ~(Grouped(node) /\ c # 0 /\ IsChassis(c))
  <2>1. UNCHANGED <<rec, chassisOf, chassis, numbered>>
    BY <1>3 DEF GroupNode, c
  <2>2. \A d \in 1..Len(chassis) : SameSlots(chassis[d], chassis'[d])
    BY <2>1 DEF SameSlots
  <2> QED BY <1>1, <1>5, <2>1, <2>2
<1>4. CASE Grouped(node) /\ c # 0 /\ IsChassis(c)
  <2>1. c \in 1..Len(chassis) /\ chassis[c] \in ChassisSet
    BY <1>1, <1>2, <1>4
  <2>2. num \in 0..(CharMod - 1)
    <3>1. Byte(numbered + 1) \in 0..(CharMod - 1)
      BY <1>1, ByteTyped
    <3>2. chassis[c].num \in 0..(CharMod - 1)
      BY <2>1 DEF ChassisSet
    <3> QED BY <3>1, <3>2
  <2> HIDE DEF num
  <2> DEFINE ch == [chassis[c] EXCEPT !.num = num]
  <2>3. /\ ch \in ChassisSet /\ ch.guid = chassis[c].guid
        /\ ch.line = chassis[c].line /\ ch.spine = chassis[c].spine /\ ch.nodes = chassis[c].nodes
    BY <2>1, <2>2 DEF ChassisSet
  <2>4. BoardsIn(ch) = BoardsIn(chassis[c])
    BY <2>3 DEF BoardsIn
  <2>5. numberedChassis = [chassis EXCEPT ![c] = ch]
    BY <1>1, <2>1
  <2> HIDE DEF ch, numberedChassis
  <2>6. /\ numberedChassis \in Seq(ChassisSet) /\ Len(numberedChassis) = Len(chassis)
        /\ numberedChassis[c] = ch
        /\ \A d \in 1..Len(chassis) : d # c => numberedChassis[d] = chassis[d]
    BY <1>1, <2>1, <2>3, <2>5
  <2>7. numbered' \in Nat
    BY <1>1, <1>4 DEF GroupNode, c
  <2>8. CASE ~rec[node].found
    <3> DEFINE more == [ch EXCEPT !.nodes = @ \cup {node}]
    <3>1. /\ rec' = [rec EXCEPT ![node].found = TRUE]
          /\ chassis' = [numberedChassis EXCEPT ![c].nodes = @ \cup {node}]
          /\ chassisOf' = [chassisOf EXCEPT ![node] = c]
      BY <1>4, <2>8 DEF GroupNode, c, numberedChassis, num
    <3>2. more \in ChassisSet /\ more.guid = ch.guid /\ more.line = ch.line /\ more.spine = ch.spine
      BY <1>1, <2>3 DEF ChassisSet
    <3>3. BoardsIn(more) = BoardsIn(ch)
      BY <3>2 DEF BoardsIn
    <3>4. chassis' = [numberedChassis EXCEPT ![c] = more]
      BY <2>1, <2>6, <3>1
    <3> HIDE DEF more
    <3>5. /\ chassis' \in Seq(ChassisSet) /\ Len(chassis') = Len(chassis) /\ chassis'[c] = more
          /\ \A d \in 1..Len(chassis) : d # c => chassis'[d] = chassis[d]
      BY <2>1, <2>6, <3>2, <3>4
    <3>6. rec' \in [Nodes -> Positions] /\ SamePlaces(rec, rec')
      <4> DEFINE r == [rec[node] EXCEPT !.found = TRUE]
      <4>1. r \in Positions
        BY <1>1, MarkedFound
      <4>2. r.side = rec[node].side /\ r.slot = rec[node].slot /\ r.chip = rec[node].chip
        BY <1>1 DEF Positions
      <4>3. rec' = [rec EXCEPT ![node] = r]
        BY <3>1
      <4> HIDE DEF r
      <4> QED BY <1>1, <4>1, <4>2, <4>3 DEF SamePlaces
    <3>7. chassisOf' \in [Nodes -> Nat] /\ \A n \in Nodes : chassisOf'[n] <= Len(chassis)
      BY <1>1, <2>1, <3>1
    <3>8. \A d \in 1..Len(chassis) : SameSlots(chassis[d], chassis'[d])
      BY <2>3, <2>6, <3>2, <3>5 DEF SameSlots
    <3> QED BY <2>3, <2>4, <2>6, <2>7, <3>2, <3>3, <3>5, <3>6, <3>7, <3>8
  <2>9. CASE /\ rec[node].found /\ Vendor[node] = "MLX" /\ side \in {"line", "spine"}
             /\ slot \notin DOMAIN chassis[c][side]
    <3> DEFINE put == Put(ch, side, slot, node)
    <3>1. /\ rec' = rec
          /\ chassis' = [numberedChassis EXCEPT ![c][side] = WithBoard(@, slot, node)]
          /\ chassisOf' = [chassisOf EXCEPT ![node] = c]
      BY <1>4, <2>9 DEF GroupNode, c, numberedChassis, num
    <3>2. slot \in Nat /\ side \in {"line", "spine"}
      <4>1. rec[node] \in Positions
        BY <1>1
      <4> QED BY <2>9, <4>1 DEF Positions
    <3> HIDE DEF side, slot
    <3>8. MoreSlots(chassis[c], put, side, slot, node)
      BY <1>1, <2>3, <3>2, PutTyped DEF MoreSlots
    <3>3. put \in ChassisSet /\ put.guid = ch.guid /\ BoardsIn(put) \subseteq BoardsIn(ch) \cup {node}
      BY <1>1, <2>3, <3>2, PutTyped
    <3>4. chassis' = [numberedChassis EXCEPT ![c] = put]
      BY <2>1, <2>6, <3>1 DEF Put
    <3> HIDE DEF put
    <3>5. /\ chassis' \in Seq(ChassisSet) /\ Len(chassis') = Len(chassis) /\ chassis'[c] = put
          /\ \A d \in 1..Len(chassis) : d # c => chassis'[d] = chassis[d]
      BY <2>1, <2>6, <3>3, <3>4
    <3>6. chassisOf' \in [Nodes -> Nat] /\ \A n \in Nodes : chassisOf'[n] <= Len(chassis)
      BY <1>1, <2>1, <3>1
    <3>7. /\ BoardsIn(chassis'[c]) \subseteq BoardsIn(chassis[c]) \cup {node}
          /\ chassis'[c].guid = chassis[c].guid
          /\ Vendor[node] = "MLX" /\ chassis[c].guid = ChassisGuid(node)
      BY <1>2, <2>1, <2>3, <2>4, <2>9, <3>3, <3>5
    <3>9. \A d \in 1..Len(chassis) :
            \/ SameSlots(chassis[d], chassis'[d])
            \/ MoreSlots(chassis[d], chassis'[d], side, slot, node)
      BY <2>6, <3>5, <3>8 DEF SameSlots
    <3> QED BY <1>1, <1>5, <2>6, <2>7, <2>9, <3>1, <3>2, <3>5, <3>6, <3>7, <3>9 DEF side, slot
  <2>10. CASE /\ rec[node].found
              /\ ~(Vendor[node] = "MLX" /\ side \in {"line", "spine"}
                   /\ slot \notin DOMAIN chassis[c][side])
    <3>1. chassis' = numberedChassis /\ UNCHANGED <<rec, chassisOf>>
      BY <1>4, <2>10 DEF GroupNode, c, numberedChassis, num
    <3>2. \A d \in 1..Len(chassis) : SameSlots(chassis[d], chassis'[d])
      BY <2>3, <2>6, <3>1 DEF SameSlots
    <3> QED BY <1>1, <1>5, <2>3, <2>4, <2>6, <2>7, <3>1, <3>2
  <2> QED BY <2>8, <2>9, <2>10
<1> QED BY <1>3, <1>4

------------------------------------------------------------------------------
LEMMA StartedTyped ==
  ASSUME Typing, StartChassis, SpineIndex(node) \in 1..SpinesMax
  PROVE  /\ node \in Nodes
         /\ chassis' \in Seq(ChassisSet)
         /\ Len(chassis') = Len(chassis) + 1
         /\ \A c \in 1..Len(chassis) : chassis'[c] = chassis[c]
         /\ chassis'[Len(chassis')].spine = WithBoard(NoBoards, SpineIndex(node), node)
         /\ DOMAIN chassis'[Len(chassis')].spine # {}
         /\ chassis'[Len(chassis')].line = NoBoards
         /\ BoardsIn(chassis'[Len(chassis')]) = {node}
<1> DEFINE i == SpineIndex(node)
           spines == WithBoard(NoBoards, i, node)
           ch == NewChassis(NoGuid, Byte(numbered'), 0, spines)
<1>1. /\ node \in Nodes /\ chassis \in Seq(ChassisSet) /\ Len(chassis) \in Nat
      /\ numbered' \in Nat
  BY NodeTyped DEF Typing, StartChassis, Turn
<1>2. i \in Nat
  BY DEF SpinesMax
<1>3. chassis' = Append(chassis, ch)
  BY DEF StartChassis
<1> HIDE DEF i
<1>4. spines \in Slots /\ DOMAIN spines = {i} /\ spines[i] = node
  <2>1. NoBoards \in Slots /\ DOMAIN NoBoards = {}
    BY NoBoardsTyped
  <2>2. DOMAIN spines = {i} /\ spines[i] = node
    BY <2>1 DEF WithBoard
  <2>3. spines \in Slots
    BY <1>1, <1>2, <2>1, WithBoardTyped
  <2> QED BY <2>2, <2>3
<1>5. ch \in ChassisSet
  <2>1. NoGuid \in Guids /\ Byte(numbered') \in 0..(CharMod - 1) /\ 0 \in 0..(CharMod - 1)
    BY <1>1, ByteTyped, ChassisAssumption DEF Guids
  <2> HIDE DEF spines
  <2> QED BY <1>4, <2>1, NewChassisTyped
<1>6. ch.spine = spines /\ ch.line = NoBoards
  BY DEF NewChassis
<1> HIDE DEF ch, spines
<1>7. BoardsIn(ch) = {node}
  BY <1>4, <1>6, NoBoardsTyped DEF BoardsIn
<1>8. /\ chassis' \in Seq(ChassisSet) /\ Len(chassis') = Len(chassis) + 1
      /\ chassis'[Len(chassis')] = ch
      /\ \A c \in 1..Len(chassis) : chassis'[c] = chassis[c]
  BY <1>1, <1>3, <1>5
<1> QED BY <1>1, <1>4, <1>6, <1>7, <1>8 DEF spines, i

LEMMA EndedTyped ==
  ASSUME Typing, EndChassis
  PROVE  /\ Current \in 1..Len(chassis)
         /\ chassis' \in Seq(ChassisSet)
         /\ Len(chassis') = Len(chassis)
         /\ \A c \in 1..Len(chassis) : c # Current => chassis'[c] = chassis[c]
         /\ BoardsIn(chassis'[Current]) = BoardsIn(chassis[Current])
         /\ SameSlots(chassis[Current], chassis'[Current])
         /\ chassis'[Current].guid.maker = "VTR"
<1> DEFINE spine == chassis[Current].spine
           first == CHOOSE i \in DOMAIN spine : \A j \in DOMAIN spine : i <= j
           ch == [chassis[Current] EXCEPT !.guid = GuidBefore(spine[first])]
<1>1. /\ Current \in 1..Len(chassis) /\ chassis \in Seq(ChassisSet) /\ Len(chassis) \in Nat
      /\ DOMAIN spine # {}
  BY DEF Typing, Current, EndChassis
<1>2. chassis[Current] \in ChassisSet
  BY <1>1
<1>3. spine[first] \in Nodes
  <2>1. DOMAIN spine \in SUBSET Nat /\ \A i \in DOMAIN spine : spine[i] \in Nodes
    BY <1>2, BoardsAreNodes
  <2>2. PICK i \in DOMAIN spine : \A j \in DOMAIN spine : i <= j
    BY <1>1, <2>1, Smallest
  <2>3. first \in DOMAIN spine
    BY <2>2
  <2> QED BY <2>1, <2>3
<1>4. GuidBefore(spine[first]) \in Guids /\ GuidBefore(spine[first]).maker = "VTR"
  BY <1>3 DEF Guids, GuidBefore
<1>5. chassis' = [chassis EXCEPT ![Current].guid = GuidBefore(spine[first])]
  BY DEF EndChassis
<1> HIDE DEF first
<1>6. /\ ch \in ChassisSet /\ ch.guid.maker = "VTR"
      /\ ch.line = chassis[Current].line /\ ch.spine = chassis[Current].spine
  BY <1>2, <1>4 DEF ChassisSet
<1>7. chassis' = [chassis EXCEPT ![Current] = ch]
  BY <1>1, <1>5
<1>8. BoardsIn(ch) = BoardsIn(chassis[Current]) /\ SameSlots(chassis[Current], ch)
  BY <1>6 DEF BoardsIn, SameSlots
<1> HIDE DEF ch
<1> QED BY <1>1, <1>6, <1>7, <1>8

LEMMA CountedTyped ==
  ASSUME Typing, CountNode
  PROVE  /\ chassis' \in Seq(ChassisSet)
         /\ Len(chassis') \in Len(chassis)..(Len(chassis) + 1)
         /\ \A c \in 1..Len(chassis) : /\ chassis'[c].guid = chassis[c].guid
                                       /\ BoardsIn(chassis'[c]) = BoardsIn(chassis[c])
                                       /\ SameSlots(chassis[c], chassis'[c])
         /\ Len(chassis') # Len(chassis) =>
              /\ BoardsIn(chassis'[Len(chassis')]) = {}
              /\ chassis'[Len(chassis')].line = NoBoards
              /\ chassis'[Len(chassis')].spine = NoBoards
<1>1. /\ node \in Nodes /\ chassis \in Seq(ChassisSet) /\ Len(chassis) \in Nat
  BY NodeTyped DEF Typing, CountNode, Turn
<1>2. CASE ~Grouped(node)
  BY <1>1, <1>2 DEF CountNode, SameSlots
<1>3. CASE Grouped(node) /\ Found(node) # 0
  <2> DEFINE c == Found(node)
             ch == [chassis[c] EXCEPT !.count = Byte(@ + 1)]
  <2>1. chassis' = [chassis EXCEPT ![c].count = Byte(@ + 1)]
    BY <1>3 DEF CountNode
  <2>2. c \in 1..Len(chassis)
    <3>1. c \in 0..Len(chassis)
      BY FoundIsOne
    <3> QED BY <1>1, <1>3, <3>1
  <2> HIDE DEF c
  <2>3. chassis[c] \in ChassisSet
    BY <1>1, <2>2
  <2>4. Byte(chassis[c].count + 1) \in 0..(CharMod - 1)
    <3>1. chassis[c].count \in 0..(CharMod - 1)
      BY <2>3 DEF ChassisSet
    <3>2. chassis[c].count + 1 \in Nat
      BY <3>1
    <3> QED BY <3>2, ByteTyped
  <2>5. /\ ch \in ChassisSet /\ ch.guid = chassis[c].guid
        /\ ch.line = chassis[c].line /\ ch.spine = chassis[c].spine
    BY <2>3, <2>4 DEF ChassisSet
  <2>6. BoardsIn(ch) = BoardsIn(chassis[c]) /\ SameSlots(chassis[c], ch)
    BY <2>5 DEF BoardsIn, SameSlots
  <2>8. \A d : SameSlots(chassis[d], chassis[d])
    BY DEF SameSlots
  <2>7. chassis' = [chassis EXCEPT ![c] = ch]
    BY <1>1, <2>1, <2>2
  <2> HIDE DEF ch
  <2> QED BY <1>1, <2>2, <2>5, <2>6, <2>7, <2>8
<1>4. CASE Grouped(node) /\ Found(node) = 0
  <2> DEFINE ch == NewChassis(ChassisGuid(node), 0, 1, NoBoards)
  <2>1. chassis' = Append(chassis, ch)
    BY <1>4 DEF CountNode
  <2>2. ch \in ChassisSet
    <3>1. ChassisGuid(node) \in Guids
      BY <1>1, GuidTyped
    <3>2. 0 \in 0..(CharMod - 1) /\ 1 \in 0..(CharMod - 1)
      BY ChassisAssumption
    <3> QED BY <3>1, <3>2, NoBoardsTyped, NewChassisTyped
  <2>3. BoardsIn(ch) = {} /\ ch.line = NoBoards /\ ch.spine = NoBoards
    BY NoBoardsTyped DEF BoardsIn, NewChassis
  <2>4. \A d : SameSlots(chassis[d], chassis[d])
    BY DEF SameSlots
  <2> HIDE DEF ch
  <2> QED BY <1>1, <2>1, <2>2, <2>3, <2>4
<1> QED BY <1>2, <1>3, <1>4

------------------------------------------------------------------------------
LEMMA InitTyped ==
  ASSUME Init
  PROVE  Typing
<1>1. fabric.order \in Seq(Nodes)
  BY FabricParts DEF Init
<1>2. rec \in [Nodes -> Positions]
  BY DEF Init, Positions
<1>3. chassis \in Seq(ChassisSet) /\ Len(chassis) = 0
  BY DEF Init
<1> QED BY <1>1, <1>2, <1>3 DEF Init, Typing

\* A board caught over one of the ports that a pass visits.
LEMMA CaughtTyped ==
  ASSUME Typing, pc = "build", NEW e \in visits, NEW side \in {"line", "spine"}, NEW i \in Nat,
         Insert(Current, side, i, Peer(e)), visits' = visits \ {e},
         UNCHANGED <<fabric, pc, at, rec, numbered, pass>>
  PROVE  Typing'
<1>1. Current # 0 /\ Len(chassis) = Current /\ Current \in Nat
  BY DEF Typing, Current
<1>2. Peer(e) \in Nodes
  BY FabricParts, LinkParts DEF Typing
<1>3. /\ chassis' \in Seq(ChassisSet)
      /\ Len(chassis') = Len(chassis)
      /\ chassisOf' \in [Nodes -> Nat]
      /\ \A m \in Nodes : chassisOf'[m] <= Len(chassis) \/ chassisOf'[m] = chassisOf[m]
      /\ DOMAIN chassis[Current].spine \subseteq DOMAIN chassis'[Current].spine
  BY <1>1, <1>2, InsertTyped
<1>4. \A m \in Nodes : chassisOf'[m] <= Len(chassis')
  BY <1>3 DEF Typing
<1>5. DOMAIN chassis'[Len(chassis')].spine # {}
  BY <1>1, <1>3 DEF Typing
<1>6. visits' \subseteq fabric'.links
  BY DEF Typing
<1> QED BY <1>1, <1>3, <1>4, <1>5, <1>6 DEF Typing

\* Every step keeps the types, one step of the proof for each action.
LEMMA TypeStep ==
  ASSUME Typing, [Next]_vars
  PROVE  Typing'
<1>0. /\ fabric \in Discovered /\ fabric.order \in Seq(Nodes) /\ Len(fabric.order) \in Nat
      /\ chassis \in Seq(ChassisSet) /\ Len(chassis) \in Nat /\ numbered \in Nat
      /\ at \in 1..(Len(fabric.order) + 1)
      /\ fabric.links \subseteq DOMAIN Cable
  BY FabricParts DEF Typing
<1>1. CASE FillRecord
  <2>1. node \in Nodes /\ at + 1 \in 1..(Len(fabric.order) + 1)
    BY <1>1, NodeTyped DEF FillRecord, Turn
  <2>2. rec' \in [Nodes -> Positions]
    BY <1>1, <2>1, FilledTyped DEF FillRecord
  <2> QED BY <1>1, <2>1, <2>2 DEF FillRecord, Turn, Typing
<1>2. CASE NextLoop
  <2>1. /\ pc' \in {"search", "count", "group", "done"}
        /\ at' = 1
        /\ UNCHANGED <<fabric, rec, chassisOf, chassis, numbered, pass, visits>>
    BY <1>2 DEF NextLoop
  <2>2. pc # "failed"
    BY <1>2 DEF NextLoop
  <2> QED BY <1>0, <2>1, <2>2 DEF Typing
<1>3. CASE SkipNode
  <2>1. at + 1 \in 1..(Len(fabric.order) + 1)
    BY <1>3, NodeTyped DEF SkipNode, Turn
  <2> QED BY <1>3, <2>1 DEF SkipNode, Turn, Typing
<1>4. CASE StartChassis
  <2>1. fabric' = fabric /\ numbered' \in Nat /\ at <= Len(fabric.order) /\ pc = "search"
    BY <1>0, <1>4 DEF StartChassis, Turn
  <2>2. CASE SpineIndex(node) \in 1..SpinesMax
    <3>1. /\ chassisOf' = [chassisOf EXCEPT ![node] = Len(chassis) + 1]
          /\ pc' = "build" /\ pass' = 0 /\ UNCHANGED <<at, rec>>
          /\ visits' = Initialized(LinksIn(node, SpinePorts(node)))
      BY <1>4, <2>2 DEF StartChassis
    <3>2. /\ chassis' \in Seq(ChassisSet) /\ Len(chassis') = Len(chassis) + 1
          /\ DOMAIN chassis'[Len(chassis')].spine # {}
      BY <1>4, <2>2, StartedTyped
    <3>3. visits' \subseteq fabric.links
      BY <3>1 DEF Initialized, LinksIn
    <3>4. chassisOf' \in [Nodes -> Nat] /\ \A n \in Nodes : chassisOf'[n] <= Len(chassis) + 1
      <4>1. chassisOf \in [Nodes -> Nat] /\ \A n \in Nodes : chassisOf[n] <= Len(chassis)
        BY <2>1 DEF Typing
      <4> DEFINE k == Len(chassis) + 1
                 all == [chassisOf EXCEPT ![node] = k]
      <4>2. k \in Nat /\ \A n \in Nodes : chassisOf[n] \in Nat /\ chassisOf[n] <= k
        BY <1>0, <4>1
      <4>3. chassisOf' = all
        BY <3>1
      <4> HIDE DEF k
      <4>4. all \in [Nodes -> Nat] /\ \A n \in Nodes : all[n] = k \/ all[n] = chassisOf[n]
        BY <4>1, <4>2
      <4>5. \A n \in Nodes : all[n] <= k
        BY <4>2, <4>4
      <4> HIDE DEF all
      <4> QED BY <4>3, <4>4, <4>5 DEF k
    <3> QED BY <1>0, <2>1, <3>1, <3>2, <3>3, <3>4 DEF Typing
  <2>3. CASE SpineIndex(node) \notin 1..SpinesMax
    <3>1. Fail
      BY <1>4, <2>3 DEF StartChassis
    <3> QED BY <2>1, <3>1, FailTyped
  <2> QED BY <2>2, <2>3
<1>5. CASE CatchSpine
  <2>1. PICK e \in visits :
          \/ /\ SpineIndex(Peer(e)) \in 1..SpinesMax
             /\ Insert(Current, "spine", SpineIndex(Peer(e)), Peer(e))
             /\ visits' = visits \ {e}
             /\ UNCHANGED <<pc, at, rec, pass>>
          \/ Fail
    BY <1>5 DEF CatchSpine
  <2>2. fabric' = fabric /\ numbered' = numbered /\ pc = "build" /\ Current # 0
    BY <1>5 DEF CatchSpine, Typing, Current
  <2>3. CASE Fail
    BY <1>0, <2>2, <2>3, FailTyped
  <2>4. CASE /\ SpineIndex(Peer(e)) \in 1..SpinesMax
             /\ Insert(Current, "spine", SpineIndex(Peer(e)), Peer(e))
             /\ visits' = visits \ {e}
             /\ UNCHANGED <<pc, at, rec, pass>>
    <3>1. SpineIndex(Peer(e)) \in Nat
      BY <2>4 DEF SpinesMax
    <3> QED BY <2>2, <2>4, <3>1, CaughtTyped
  <2> QED BY <2>1, <2>3, <2>4
<1>6. CASE CatchLine
  <2>1. PICK e \in visits :
          \/ /\ LineIndex(Peer(e)) \in 1..LinesMax
             /\ Insert(Current, "line", LineIndex(Peer(e)), Peer(e))
             /\ visits' = visits \ {e}
             /\ UNCHANGED <<pc, at, rec, pass>>
          \/ /\ visits' = visits \ {e}
             /\ UNCHANGED <<pc, at, rec, pass, chassis, chassisOf>>
          \/ Fail
    BY <1>6 DEF CatchLine
  <2>2. fabric' = fabric /\ numbered' = numbered /\ pc = "build" /\ Current # 0
    BY <1>6 DEF CatchLine, Typing, Current
  <2>3. CASE Fail
    BY <1>0, <2>2, <2>3, FailTyped
  <2>4. CASE /\ visits' = visits \ {e}
             /\ UNCHANGED <<pc, at, rec, pass, chassis, chassisOf>>
    <3>1. visits' \subseteq fabric.links
      BY <2>4 DEF Typing
    <3> QED BY <2>2, <2>4, <3>1 DEF Typing
  <2>5. CASE /\ LineIndex(Peer(e)) \in 1..LinesMax
             /\ Insert(Current, "line", LineIndex(Peer(e)), Peer(e))
             /\ visits' = visits \ {e}
             /\ UNCHANGED <<pc, at, rec, pass>>
    <3>1. LineIndex(Peer(e)) \in Nat
      BY <2>5 DEF LinesMax
    <3> QED BY <2>2, <2>5, <3>1, CaughtTyped
  <2> QED BY <2>1, <2>3, <2>4, <2>5
<1>7. CASE StartPass
  <2>1. pass' \in 0..4
    BY <1>7 DEF StartPass, LastPass, Typing
  <2>2. visits' \subseteq fabric.links
    BY <1>7 DEF StartPass, Initialized, LinksIn
  <2> QED BY <1>7, <2>1, <2>2 DEF StartPass, Typing
<1>8. CASE EndChassis
  <2>1. chassis' \in Seq(ChassisSet) /\ Len(chassis') = Len(chassis)
    BY <1>8, EndedTyped
  <2>2. /\ pc' = "search" /\ at' = at + 1 /\ pc = "build"
        /\ UNCHANGED <<fabric, rec, chassisOf, numbered, pass, visits>>
    BY <1>8 DEF EndChassis
  <2>3. at + 1 \in 1..(Len(fabric.order) + 1)
    BY <2>2, NodeTyped DEF Typing
  <2> QED BY <2>1, <2>2, <2>3 DEF Typing
<1>9. CASE CountNode
  <2>1. chassis' \in Seq(ChassisSet) /\ Len(chassis') \in Len(chassis)..(Len(chassis) + 1)
    BY <1>9, CountedTyped
  <2>2. /\ at' = at + 1 /\ pc = "count"
        /\ UNCHANGED <<fabric, pc, rec, chassisOf, numbered, pass, visits>>
    BY <1>9 DEF CountNode, Turn
  <2>3. at + 1 \in 1..(Len(fabric.order) + 1)
    BY <1>9, NodeTyped DEF CountNode, Turn
  <2>4. \A n \in Nodes : chassisOf[n] <= Len(chassis')
    BY <1>0, <2>1, <2>2 DEF Typing
  <2> QED BY <2>1, <2>2, <2>3, <2>4 DEF Typing
<1>10. CASE GroupNode
  <2>1. /\ at' = at + 1 /\ pc = "group"
        /\ UNCHANGED <<fabric, pc, pass, visits>>
    BY <1>10 DEF GroupNode, Turn
  <2>2. at + 1 \in 1..(Len(fabric.order) + 1)
    BY <1>10, NodeTyped DEF GroupNode, Turn
  <2>3. /\ rec' \in [Nodes -> Positions]
        /\ chassisOf' \in [Nodes -> Nat]
        /\ \A n \in Nodes : chassisOf'[n] <= Len(chassis')
        /\ chassis' \in Seq(ChassisSet)
        /\ numbered' \in Nat
    BY <1>10, GroupNodeParts
  <2> QED BY <2>1, <2>2, <2>3 DEF Typing
<1>11. CASE UNCHANGED vars
  BY <1>11 DEF vars, Typing
<1> QED BY <1>1, <1>2, <1>3, <1>4, <1>5, <1>6, <1>7, <1>8, <1>9, <1>10, <1>11 DEF Next

LEMMA TypingIsTypeOK ==
  ASSUME Typing
  PROVE  TypeOK
<1>1. fabric.links \subseteq DOMAIN Cable
  BY FabricParts DEF Typing
<1>2. ASSUME NEW c \in 1..Len(chassis)
      PROVE  /\ chassis[c].num \in 0..(CharMod - 1)
             /\ chassis[c].count \in 0..(CharMod - 1)
             /\ chassis[c].nodes \subseteq Nodes
             /\ \A i \in DOMAIN chassis[c].line : chassis[c].line[i] \in Nodes
             /\ \A i \in DOMAIN chassis[c].spine : chassis[c].spine[i] \in Nodes
  <2>1. chassis[c] \in ChassisSet
    BY DEF Typing
  <2>2. /\ chassis[c].num \in 0..(CharMod - 1)
        /\ chassis[c].count \in 0..(CharMod - 1)
        /\ chassis[c].nodes \subseteq Nodes
    BY <2>1 DEF ChassisSet
  <2> QED BY <2>1, <2>2, BoardsAreNodes
<1> QED BY <1>1, <1>2 DEF Typing, TypeOK

\* Type correctness, whatever was discovered: a record of every board with
\* a slot and chip of the tables, boards and chassis that exist, counters of one
\* byte (group_nodes and all it calls).
THEOREM TypeCorrect == Spec => []TypeOK
<1>1. Init => Typing
  BY InitTyped
<1>2. Typing /\ [Next]_vars => Typing'
  BY TypeStep
<1>3. Typing => TypeOK
  BY TypingIsTypeOK
<1> QED BY <1>1, <1>2, <1>3, PTL DEF Spec

------------------------------------------------------------------------------
\* A port that a pass visits leads to the real chassis of the boards it has.
VisitsStayInside ==
  pc = "build" => \A m \in Boards(Current), e \in visits : Box[Peer(e)] = Box[m]

\* What is in a spine slot is a spine: the ports of each model are known.
SpinesInside ==
  pc = "build" =>
    /\ \A i \in DOMAIN chassis[Current].spine : IsSpine(chassis[Current].spine[i])
    /\ pass \in {1, 3} => \A e \in visits : IsSpine(Peer(e))

\* GroupNode finds no chassis that a spine has started.
GuidsTellApart ==
  \A c \in 1..Len(chassis) :
    \/ chassis[c].guid.maker = "VTR"
    \/ pc = "build" /\ c = Current
    \/ \A m \in Boards(c) : Vendor[m] = "MLX" /\ Sys[m] = chassis[c].guid

OneBox == Typing /\ BoardsOfOneBox /\ VisitsStayInside /\ SpinesInside /\ GuidsTellApart

LEMMA InsideLinks ==
  ASSUME Typing, NEW n, NEW e
  PROVE  /\ IsSpine(n) /\ e \in LinksIn(n, SpinePorts(n)) => Box[Peer(e)] = Box[n]
         /\ IsLine(n) /\ e \in LinksIn(n, LinePorts(n)) =>
              Box[Peer(e)] = Box[n] /\ IsSpine(Peer(e))
<1>1. \A f \in fabric.links :
        (IsLine(f[1]) \/ IsSpine(f[1])) /\ f[2] \notin FacePorts(f[1])
          => Box[Peer(f)] = Box[f[1]] /\ (IsLine(f[1]) => IsSpine(Peer(f)))
  BY WiredAsBuilt DEF Typing
<1>2. ASSUME IsSpine(n), e \in LinksIn(n, SpinePorts(n))
      PROVE  e[2] \notin FacePorts(n)
  <2>1. CASE Device[n] = "4700x2"
    <3>1. e[2] \in 1..18 /\ FacePorts(n) = 19..36
      BY <1>2, <2>1 DEF LinksIn, SpinePorts, FacePorts, IsLine, Lines
    <3> QED BY <3>1
  <2>2. CASE Device[n] # "4700x2"
    <3>1. FacePorts(n) = {}
      BY <1>2, <2>2 DEF IsSpine, Spines, IsLine, Lines, FacePorts
    <3> QED BY <3>1
  <2> QED BY <2>1, <2>2
<1>3. ASSUME IsLine(n), e \in LinksIn(n, LinePorts(n))
      PROVE  e[2] \notin FacePorts(n)
  <2>1. CASE Device[n] = "4018"
    <3>1. e[2] \in 1..18 /\ FacePorts(n) = 19..36
      BY <1>3, <2>1 DEF LinksIn, LinePorts, FacePorts
    <3> QED BY <3>1
  <2>2. CASE Device[n] # "4018"
    <3>1. e[2] \in 1..12 /\ FacePorts(n) = 13..24
      BY <1>3, <2>2 DEF LinksIn, LinePorts, FacePorts, IsLine, Lines
    <3> QED BY <3>1
  <2> QED BY <2>1, <2>2
<1> QED BY <1>1, <1>2, <1>3 DEF LinksIn

\* A chassis that fails is freed with all the others.
LEMMA FailOneBox ==
  ASSUME Fail
  PROVE  BoardsOfOneBox' /\ VisitsStayInside' /\ SpinesInside' /\ GuidsTellApart'
<1>1. pc' = "failed" /\ Len(chassis') = 0
  BY DEF Fail
<1> QED BY <1>1 DEF BoardsOfOneBox, VisitsStayInside, SpinesInside, GuidsTellApart

LEMMA SpineBoardOfCurrent ==
  ASSUME Typing, pc = "build"
  PROVE  /\ Current \in 1..Len(chassis)
         /\ \E m \in Nodes : m \in Boards(Current)
<1>1. Current \in 1..Len(chassis) /\ DOMAIN chassis[Current].spine # {}
  BY DEF Typing, Current
<1>2. chassis[Current] \in ChassisSet
  BY <1>1 DEF Typing
<1>3. PICK i \in DOMAIN chassis[Current].spine : TRUE
  BY <1>1
<1>4. chassis[Current].spine[i] \in Boards(Current)
  BY <1>3 DEF Boards, BoardsIn
<1> QED BY <1>1, <1>2, <1>4, BoardsAreNodes DEF Boards

\* The board behind a port that a pass visits joins the boards of its chassis.
LEMMA CaughtOneBox ==
  ASSUME OneBox, pc = "build", NEW e \in visits, NEW side \in {"line", "spine"}, NEW i \in Nat,
         Insert(Current, side, i, Peer(e)), visits' = visits \ {e},
         UNCHANGED <<pc, pass>>, side = "spine" => IsSpine(Peer(e))
  PROVE  BoardsOfOneBox' /\ VisitsStayInside' /\ SpinesInside' /\ GuidsTellApart'
<1> DEFINE b == Peer(e)
<1>1. b \in Nodes /\ Current \in 1..Len(chassis) /\ Current # 0 /\ Len(chassis) \in Nat
  <2>1. fabric \in Discovered /\ e \in fabric.links /\ Len(chassis) \in Nat
    BY DEF Typing, OneBox
  <2>2. e \in DOMAIN Cable
    BY <2>1, FabricParts
  <2>3. b \in Nodes
    BY <2>2, LinkParts
  <2>4. Current \in 1..Len(chassis)
    BY SpineBoardOfCurrent DEF OneBox
  <2> QED BY <2>1, <2>3, <2>4
<1>2. PICK m \in Boards(Current) : TRUE
  BY SpineBoardOfCurrent DEF OneBox
<1>3. Box[b] = Box[m] /\ \A n \in Boards(Current) : Box[n] = Box[b]
  BY <1>1, <1>2 DEF OneBox, VisitsStayInside
<1>4. /\ Len(chassis') = Len(chassis)
      /\ \A c \in 1..Len(chassis) : c # Current => chassis'[c] = chassis[c]
      /\ BoardsIn(chassis'[Current]) \subseteq BoardsIn(chassis[Current]) \cup {b}
      /\ \A j \in DOMAIN chassis'[Current].spine :
           \/ side = "spine" /\ chassis'[Current].spine[j] = b
           \/ j \in DOMAIN chassis[Current].spine
              /\ chassis'[Current].spine[j] = chassis[Current].spine[j]
  BY <1>1, InsertTyped DEF OneBox
<1>5. Current' = Current
  BY <1>4 DEF Current
<1>6. \A n \in Boards(Current)' : Box[n] = Box[b]
  BY <1>3, <1>4, <1>5 DEF Boards
<1>7. BoardsOfOneBox'
  <2> SUFFICES ASSUME NEW c \in 1..Len(chassis'), NEW k \in Boards(c)', NEW n \in Boards(c)'
               PROVE  Box[k] = Box[n]
    BY DEF BoardsOfOneBox
  <2>1. CASE c = Current
    BY <1>5, <1>6, <2>1
  <2>2. CASE c # Current
    <3>1. k \in Boards(c) /\ n \in Boards(c) /\ c \in 1..Len(chassis)
      BY <1>4, <2>2 DEF Boards
    <3> QED BY <3>1 DEF OneBox, BoardsOfOneBox
  <2> QED BY <2>1, <2>2
<1>8. VisitsStayInside'
  <2> SUFFICES ASSUME NEW k \in Boards(Current)', NEW f \in visits'
               PROVE  Box[Peer(f)] = Box[k]
    BY DEF VisitsStayInside, Peer
  <2>1. f \in visits
    OBVIOUS
  <2>2. Box[Peer(f)] = Box[m]
    BY <1>2, <2>1 DEF OneBox, VisitsStayInside
  <2> QED BY <1>3, <1>6, <2>2
<1>9. SpinesInside'
  BY <1>4, <1>5 DEF OneBox, SpinesInside, IsSpine, Peer
<1>10. GuidsTellApart'
  BY <1>4, <1>5 DEF OneBox, GuidsTellApart, Boards
<1> QED BY <1>7, <1>8, <1>9, <1>10

LEMMA StartedOneBox ==
  ASSUME OneBox, StartChassis
  PROVE  BoardsOfOneBox' /\ VisitsStayInside' /\ SpinesInside' /\ GuidsTellApart'
<1>1. CASE SpineIndex(node) \notin 1..SpinesMax
  BY <1>1, FailOneBox DEF StartChassis
<1>2. CASE SpineIndex(node) \in 1..SpinesMax
  <2>1. /\ node \in Nodes
        /\ Len(chassis') = Len(chassis) + 1
        /\ \A c \in 1..Len(chassis) : chassis'[c] = chassis[c]
        /\ chassis'[Len(chassis')].spine = WithBoard(NoBoards, SpineIndex(node), node)
        /\ BoardsIn(chassis'[Len(chassis')]) = {node}
    BY <1>2, StartedTyped DEF OneBox
  <2>2. /\ pc' = "build" /\ pass' = 0 /\ IsSpine(node) /\ pc = "search"
        /\ visits' = Initialized(LinksIn(node, SpinePorts(node)))
    BY <1>2 DEF StartChassis, StartsChassis, Turn
  <2>3. Len(chassis) \in Nat /\ Current' = Len(chassis) + 1
    BY <2>1 DEF OneBox, Typing, Current
  <2>4. Boards(Current)' = {node}
    BY <2>1, <2>3 DEF Boards
  <2>5. BoardsOfOneBox'
    <3> SUFFICES ASSUME NEW c \in 1..Len(chassis'), NEW k \in Boards(c)', NEW n \in Boards(c)'
                 PROVE  Box[k] = Box[n]
      BY DEF BoardsOfOneBox
    <3>1. CASE c = Current'
      BY <2>4, <3>1
    <3>2. CASE c # Current'
      <4>1. c \in 1..Len(chassis)
        BY <2>1, <2>3, <3>2
      <4>2. k \in Boards(c) /\ n \in Boards(c)
        BY <2>1, <4>1 DEF Boards
      <4> QED BY <4>1, <4>2 DEF OneBox, BoardsOfOneBox
    <3> QED BY <3>1, <3>2
  <2>6. VisitsStayInside'
    <3> SUFFICES ASSUME NEW k \in Boards(Current)', NEW f \in visits'
                 PROVE  Box[Peer(f)] = Box[k]
      BY DEF VisitsStayInside, Peer
    <3>1. f \in LinksIn(node, SpinePorts(node))
      BY <2>2 DEF Initialized
    <3> QED BY <2>2, <2>4, <3>1, InsideLinks DEF OneBox
  <2>7. SpinesInside'
    <3>1. \A j \in DOMAIN chassis'[Current'].spine : chassis'[Current'].spine[j] = node
      <4>1. \A j \in DOMAIN WithBoard(NoBoards, SpineIndex(node), node) :
              WithBoard(NoBoards, SpineIndex(node), node)[j] = node
        <5>1. DOMAIN NoBoards = {}
          BY NoBoardsTyped
        <5> QED BY <5>1 DEF WithBoard
      <4>2. Current' = Len(chassis')
        BY DEF Current
      <4> QED BY <2>1, <4>1, <4>2
    <3> QED BY <2>2, <3>1 DEF SpinesInside, IsSpine
  <2>8. GuidsTellApart'
    <3> SUFFICES ASSUME NEW c \in 1..Len(chassis'), c # Current'
                 PROVE  \/ chassis'[c].guid.maker = "VTR"
                        \/ \A m \in Boards(c)' : Vendor[m] = "MLX" /\ Sys[m] = chassis'[c].guid
      BY <2>2 DEF GuidsTellApart
    <3>1. c \in 1..Len(chassis) /\ chassis'[c] = chassis[c] /\ Boards(c)' = Boards(c)
      BY <2>1, <2>3 DEF Boards
    <3> QED BY <2>2, <3>1 DEF OneBox, GuidsTellApart
  <2> QED BY <2>5, <2>6, <2>7, <2>8
<1> QED BY <1>1, <1>2

LEMMA PassOneBox ==
  ASSUME OneBox, StartPass
  PROVE  BoardsOfOneBox' /\ VisitsStayInside' /\ SpinesInside' /\ GuidsTellApart'
<1>1. /\ pc = "build" /\ UNCHANGED <<pc, chassis, fabric, rec>>
  BY DEF StartPass
<1>2. Current' = Current /\ \A c : Boards(c)' = Boards(c)
  BY <1>1 DEF Current, Boards
<1>3. ASSUME NEW e \in visits'
      PROVE  /\ e[1] \in Boards(Current) /\ Box[Peer(e)] = Box[e[1]]
             /\ pass' \in {1, 3} => IsSpine(Peer(e))
  <2>1. CASE pass' \in {1, 3}
    <3>1. PICK n \in LineBoards : e \in LinksIn(n, LinePorts(n))
      BY <2>1 DEF StartPass, Initialized
    <3>2. IsLine(n) /\ n \in Boards(Current)
      BY <3>1 DEF LineBoards, Boards, BoardsIn
    <3>3. e[1] = n
      BY <3>1 DEF LinksIn
    <3> QED BY <3>1, <3>2, <3>3, InsideLinks DEF OneBox
  <2>2. CASE pass' \notin {1, 3}
    <3>1. PICK n \in SpineBoards : e \in LinksIn(n, SpinePorts(n))
      BY <2>2 DEF StartPass, Initialized
    <3>2. IsSpine(n) /\ n \in Boards(Current)
      BY <1>1, <3>1 DEF SpineBoards, Boards, BoardsIn, OneBox, SpinesInside
    <3>3. e[1] = n
      BY <3>1 DEF LinksIn
    <3> QED BY <2>2, <3>1, <3>2, <3>3, InsideLinks DEF OneBox
  <2> QED BY <2>1, <2>2
<1>4. Current \in 1..Len(chassis)
  BY <1>1, SpineBoardOfCurrent DEF OneBox
<1>5. BoardsOfOneBox'
  BY <1>1, <1>2 DEF OneBox, BoardsOfOneBox
<1>6. VisitsStayInside'
  <2> SUFFICES ASSUME NEW k \in Boards(Current), NEW f \in visits'
               PROVE  Box[Peer(f)] = Box[k]
    BY <1>2 DEF VisitsStayInside, Peer
  <2>1. Box[f[1]] = Box[k]
    BY <1>3, <1>4 DEF OneBox, BoardsOfOneBox
  <2> QED BY <1>3, <2>1
<1>7. SpinesInside'
  BY <1>1, <1>2, <1>3 DEF OneBox, SpinesInside, IsSpine, Peer
<1>8. GuidsTellApart'
  BY <1>1, <1>2 DEF OneBox, GuidsTellApart
<1> QED BY <1>5, <1>6, <1>7, <1>8

LEMMA EndedOneBox ==
  ASSUME OneBox, EndChassis
  PROVE  BoardsOfOneBox' /\ VisitsStayInside' /\ SpinesInside' /\ GuidsTellApart'
<1>1. /\ Current \in 1..Len(chassis)
      /\ Len(chassis') = Len(chassis)
      /\ \A c \in 1..Len(chassis) : c # Current => chassis'[c] = chassis[c]
      /\ BoardsIn(chassis'[Current]) = BoardsIn(chassis[Current])
      /\ chassis'[Current].guid.maker = "VTR"
  BY EndedTyped DEF OneBox
<1>2. pc' = "search" /\ pc = "build"
  BY DEF EndChassis
<1>3. \A c \in 1..Len(chassis) : Boards(c)' = Boards(c)
  BY <1>1 DEF Boards
<1>4. BoardsOfOneBox'
  BY <1>1, <1>3 DEF OneBox, BoardsOfOneBox
<1>5. VisitsStayInside' /\ SpinesInside'
  BY <1>2 DEF VisitsStayInside, SpinesInside
<1>6. GuidsTellApart'
  <2> SUFFICES ASSUME NEW c \in 1..Len(chassis), c # Current
               PROVE  \/ chassis'[c].guid.maker = "VTR"
                      \/ \A m \in Boards(c)' : Vendor[m] = "MLX" /\ Sys[m] = chassis'[c].guid
    BY <1>1 DEF GuidsTellApart
  <2> QED BY <1>1, <1>2, <1>3 DEF OneBox, GuidsTellApart
<1> QED BY <1>4, <1>5, <1>6

LEMMA CountedOneBox ==
  ASSUME OneBox, CountNode
  PROVE  BoardsOfOneBox' /\ VisitsStayInside' /\ SpinesInside' /\ GuidsTellApart'
<1>1. /\ Len(chassis') \in Len(chassis)..(Len(chassis) + 1) /\ Len(chassis) \in Nat
      /\ \A c \in 1..Len(chassis) : /\ chassis'[c].guid = chassis[c].guid
                                    /\ BoardsIn(chassis'[c]) = BoardsIn(chassis[c])
      /\ Len(chassis') # Len(chassis) => BoardsIn(chassis'[Len(chassis')]) = {}
  BY CountedTyped DEF OneBox, Typing
<1>2. pc' = "count" /\ pc = "count"
  BY DEF CountNode, Turn
<1>3. \A c \in 1..Len(chassis') :
        \/ c \in 1..Len(chassis) /\ chassis'[c].guid = chassis[c].guid /\ Boards(c)' = Boards(c)
        \/ Boards(c)' = {}
  <2> TAKE c \in 1..Len(chassis')
  <2>1. CASE c \in 1..Len(chassis)
    BY <1>1, <2>1 DEF Boards
  <2>2. CASE c \notin 1..Len(chassis)
    <3>1. c = Len(chassis') /\ Len(chassis') # Len(chassis)
      BY <1>1, <2>2
    <3> QED BY <1>1, <3>1 DEF Boards
  <2> QED BY <2>1, <2>2
<1>4. BoardsOfOneBox'
  <2> SUFFICES ASSUME NEW c \in 1..Len(chassis'), NEW k \in Boards(c)', NEW n \in Boards(c)'
               PROVE  Box[k] = Box[n]
    BY DEF BoardsOfOneBox
  <2>1. c \in 1..Len(chassis) /\ Boards(c)' = Boards(c)
    BY <1>3
  <2> QED BY <2>1 DEF OneBox, BoardsOfOneBox
<1>5. VisitsStayInside' /\ SpinesInside'
  BY <1>2 DEF VisitsStayInside, SpinesInside
<1>6. GuidsTellApart'
  <2> SUFFICES ASSUME NEW c \in 1..Len(chassis')
               PROVE  \/ chassis'[c].guid.maker = "VTR"
                      \/ \A m \in Boards(c)' : Vendor[m] = "MLX" /\ Sys[m] = chassis'[c].guid
    BY DEF GuidsTellApart
  <2>1. CASE Boards(c)' = {}
    BY <2>1
  <2>2. CASE c \in 1..Len(chassis) /\ chassis'[c].guid = chassis[c].guid /\ Boards(c)' = Boards(c)
    BY <1>2, <2>2 DEF OneBox, GuidsTellApart
  <2> QED BY <1>3, <2>1, <2>2
<1> QED BY <1>4, <1>5, <1>6

\* The GUID of a Mellanox chassis is none that a Voltaire chassis was given, and
\* its boards have it.
LEMMA MellanoxGuid ==
  ASSUME NEW n \in Nodes, Vendor[n] = "MLX"
  PROVE  ChassisGuid(n) = Sys[n] /\ Sys[n].maker = "MLX"
BY ChassisAssumption DEF ChassisGuid

LEMMA GroupedOneBox ==
  ASSUME OneBox, GroupNode
  PROVE  BoardsOfOneBox' /\ VisitsStayInside' /\ SpinesInside' /\ GuidsTellApart'
<1>1. /\ Len(chassis') = Len(chassis)
      /\ \A c \in 1..Len(chassis) :
           /\ chassis'[c].guid = chassis[c].guid
           /\ \/ BoardsIn(chassis'[c]) \subseteq BoardsIn(chassis[c])
              \/ /\ BoardsIn(chassis'[c]) \subseteq BoardsIn(chassis[c]) \cup {node}
                 /\ Vendor[node] = "MLX"
                 /\ chassis[c].guid = ChassisGuid(node)
  BY GroupNodeParts DEF OneBox
<1>2. pc' = "group" /\ pc = "group" /\ node \in Nodes
  BY NodeTyped DEF OneBox, GroupNode, Turn
<1> HIDE DEF node
<1>3. ASSUME NEW c \in 1..Len(chassis), ~(Boards(c)' \subseteq Boards(c))
      PROVE  /\ Boards(c)' \subseteq Boards(c) \cup {node}
             /\ chassis[c].guid = Sys[node] /\ Vendor[node] = "MLX" /\ Sys[node].maker = "MLX"
             /\ \A m \in Boards(c) : Vendor[m] = "MLX" /\ Sys[m] = chassis[c].guid
  <2>1. /\ Boards(c)' \subseteq Boards(c) \cup {node} /\ Vendor[node] = "MLX"
        /\ chassis[c].guid = ChassisGuid(node)
    BY <1>1, <1>3 DEF Boards
  <2>2. chassis[c].guid = Sys[node] /\ Sys[node].maker = "MLX"
    BY <1>2, <2>1, MellanoxGuid
  <2> QED BY <1>2, <2>1, <2>2 DEF OneBox, GuidsTellApart
<1>4. \A c \in 1..Len(chassis) : Boards(c) \subseteq Nodes
  <2> TAKE c \in 1..Len(chassis)
  <2>1. chassis[c] \in ChassisSet
    BY DEF OneBox, Typing
  <2> QED BY <2>1, BoardsAreNodes DEF Boards
<1>5. BoardsOfOneBox'
  <2> SUFFICES ASSUME NEW c \in 1..Len(chassis), NEW k \in Boards(c)', NEW n \in Boards(c)'
               PROVE  Box[k] = Box[n]
    BY <1>1 DEF BoardsOfOneBox
  <2>1. CASE Boards(c)' \subseteq Boards(c)
    BY <2>1 DEF OneBox, BoardsOfOneBox
  <2>2. CASE ~(Boards(c)' \subseteq Boards(c))
    <3>1. \A m \in Boards(c) \cup {node} :
            m \in Nodes /\ Vendor[m] = "MLX" /\ Sys[m] = chassis[c].guid
      BY <1>2, <1>3, <1>4, <2>2
    <3>2. k \in Boards(c) \cup {node} /\ n \in Boards(c) \cup {node}
      BY <1>3, <2>2
    <3> QED BY <3>1, <3>2, WiredAsBuilt
  <2> QED BY <2>1, <2>2
<1>6. VisitsStayInside' /\ SpinesInside'
  BY <1>2 DEF VisitsStayInside, SpinesInside
<1>7. GuidsTellApart'
  <2> SUFFICES ASSUME NEW c \in 1..Len(chassis)
               PROVE  \/ chassis'[c].guid.maker = "VTR"
                      \/ \A m \in Boards(c)' : Vendor[m] = "MLX" /\ Sys[m] = chassis'[c].guid
    BY <1>1 DEF GuidsTellApart
  <2>1. CASE Boards(c)' \subseteq Boards(c)
    BY <1>1, <1>2, <2>1 DEF OneBox, GuidsTellApart
  <2>2. CASE ~(Boards(c)' \subseteq Boards(c))
    BY <1>1, <1>3, <2>2
  <2> QED BY <2>1, <2>2
<1> QED BY <1>5, <1>6, <1>7

\* Every step keeps the boards of different chassis apart.
LEMMA OneBoxStep ==
  ASSUME OneBox, [Next]_vars
  PROVE  OneBox'
<1> DEFINE Goal == BoardsOfOneBox' /\ VisitsStayInside' /\ SpinesInside' /\ GuidsTellApart'
<1>1. Typing'
  BY TypeStep DEF OneBox
<1>2. SUFFICES Goal
  BY <1>1 DEF OneBox
<1>3. ASSUME UNCHANGED <<chassis, visits, pass, fabric>>, pc' = pc \/ (pc # "build" /\ pc' # "build")
      PROVE  Goal
  <2>1. Current' = Current /\ \A c : Boards(c)' = Boards(c)
    BY <1>3 DEF Current, Boards
  <2>2. BoardsOfOneBox' /\ VisitsStayInside'
    BY <1>3, <2>1 DEF OneBox, BoardsOfOneBox, VisitsStayInside, Peer
  <2>3. SpinesInside' /\ GuidsTellApart'
    BY <1>3, <2>1 DEF OneBox, SpinesInside, GuidsTellApart, IsSpine, Peer
  <2> QED BY <2>2, <2>3
<1>4. CASE FillRecord
  BY <1>3, <1>4 DEF FillRecord, Turn
<1>5. CASE NextLoop
  <2>1. pc # "build" /\ pc' # "build"
    BY <1>5 DEF NextLoop
  <2> QED BY <1>3, <1>5, <2>1 DEF NextLoop
<1>6. CASE SkipNode
  BY <1>3, <1>6 DEF SkipNode, Turn
<1>7. CASE StartChassis
  BY <1>7, StartedOneBox
<1>8. CASE CatchSpine
  <2>1. PICK e \in visits :
          \/ /\ SpineIndex(Peer(e)) \in 1..SpinesMax
             /\ Insert(Current, "spine", SpineIndex(Peer(e)), Peer(e))
             /\ visits' = visits \ {e}
             /\ UNCHANGED <<pc, at, rec, pass>>
          \/ Fail
    BY <1>8 DEF CatchSpine
  <2>2. pc = "build" /\ IsSpine(Peer(e))
    BY <1>8 DEF CatchSpine, OneBox, SpinesInside
  <2>3. SpineIndex(Peer(e)) \in 1..SpinesMax => SpineIndex(Peer(e)) \in Nat
    BY DEF SpinesMax
  <2> QED BY <2>1, <2>2, <2>3, CaughtOneBox, FailOneBox
<1>9. CASE CatchLine
  <2>1. PICK e \in visits :
          \/ /\ LineIndex(Peer(e)) \in 1..LinesMax
             /\ Insert(Current, "line", LineIndex(Peer(e)), Peer(e))
             /\ visits' = visits \ {e}
             /\ UNCHANGED <<pc, at, rec, pass>>
          \/ /\ visits' = visits \ {e}
             /\ UNCHANGED <<pc, at, rec, pass, chassis, chassisOf>>
          \/ Fail
    BY <1>9 DEF CatchLine
  <2>2. pc = "build" /\ fabric' = fabric
    BY <1>9 DEF CatchLine
  <2>3. LineIndex(Peer(e)) \in 1..LinesMax => LineIndex(Peer(e)) \in Nat
    BY DEF LinesMax
  <2>4. CASE visits' = visits \ {e} /\ UNCHANGED <<pc, at, rec, pass, chassis, chassisOf>>
    <3>1. Current' = Current /\ \A c : Boards(c)' = Boards(c)
      BY <2>4 DEF Current, Boards
    <3>2. BoardsOfOneBox' /\ VisitsStayInside'
      BY <2>4, <3>1 DEF OneBox, BoardsOfOneBox, VisitsStayInside, Peer
    <3>3. SpinesInside' /\ GuidsTellApart'
      BY <2>4, <3>1 DEF OneBox, SpinesInside, GuidsTellApart, IsSpine, Peer
    <3> QED BY <3>2, <3>3
  <2> QED BY <2>1, <2>2, <2>3, <2>4, CaughtOneBox, FailOneBox
<1>10. CASE StartPass
  BY <1>10, PassOneBox
<1>11. CASE EndChassis
  BY <1>11, EndedOneBox
<1>12. CASE CountNode
  BY <1>12, CountedOneBox
<1>13. CASE GroupNode
  BY <1>13, GroupedOneBox
<1>14. CASE UNCHANGED vars
  BY <1>3, <1>14 DEF vars
<1> QED BY <1>4, <1>5, <1>6, <1>7, <1>8, <1>9, <1>10, <1>11, <1>12, <1>13, <1>14 DEF Next

\* However the faces of the chassis are cabled and in whatever order the nodes
\* were discovered, build_chassis and the grouping by GUID never put boards of
\* two real chassis into one: the passes follow internal links only.
THEOREM OneBoxEach == Spec => []BoardsOfOneBox
<1>1. Init => OneBox
  <2>1. Init => Typing
    BY InitTyped
  <2>2. Init => BoardsOfOneBox /\ VisitsStayInside /\ SpinesInside /\ GuidsTellApart
    BY DEF Init, BoardsOfOneBox, VisitsStayInside, SpinesInside, GuidsTellApart
  <2> QED BY <2>1, <2>2 DEF OneBox
<1>2. OneBox /\ [Next]_vars => OneBox'
  BY OneBoxStep
<1>3. OneBox => BoardsOfOneBox
  BY DEF OneBox
<1> QED BY <1>1, <1>2, <1>3, PTL DEF Spec

------------------------------------------------------------------------------
(* The numbers on the face of a chassis.  A slot of a table holds a board  *)
(* whose index it is, and boards in one slot of the chassis are of one      *)
(* model, so that boards with another index have another chip.              *)

LineAt(r, n) == IF Device[n] = "4018" THEN r[n].slot ELSE 3 * (r[n].slot - 1) + r[n].chip

SpineAt(r, n) ==
  CASE Device[n] \in {"9288", "2012"} -> 3 * (r[n].slot - 1) + r[n].chip
    [] Device[n] \in {"4700", "4700x2"} -> 2 * (r[n].slot - 1) + r[n].chip
    [] OTHER -> r[n].slot

\* A board that has ports on the face of a chassis is where it says.
IsPlaced(r, ch) ==
  /\ \A i \in DOMAIN ch.line : FacePorts(ch.line[i]) # {} =>
       IsLine(ch.line[i]) /\ LineAt(r, ch.line[i]) = i
  /\ \A i \in DOMAIN ch.spine : FacePorts(ch.spine[i]) # {} =>
       IsSpine(ch.spine[i]) /\ SpineAt(r, ch.spine[i]) = i

\* ... as it was told by its cables.
IsFiled(r, n) ==
  /\ IsLine(n) /\ r[n].chip # 0 =>
       /\ r[n].side = "line"
       /\ \E e \in DOMAIN Cable :
            e[1] = n /\ e[2] \notin FacePorts(n) /\ r[n].slot = SlotBehind(e)
  /\ IsSpine(n) /\ r[n].chip # 0 => r[n].side = "spine"
  /\ Vendor[n] = "MLX" /\ r[n].side \in {"line", "spine"} => FacePorts(n) = {}

Placed == \A c \in 1..Len(chassis) : IsPlaced(rec, chassis[c])
Filed == \A n \in Nodes : IsFiled(rec, n)
NoneYet == pc = "fill" => chassis = <<>>
LinesAhead == pc = "build" /\ pass \in {0, 2, 4} => \A e \in visits : ~IsSpine(Peer(e))

PlaceInv == OneBox /\ Placed /\ Filed /\ NoneYet /\ LinesAhead

LEMMA IndexIs ==
  \A n : LineIndex(n) = LineAt(rec, n) /\ SpineIndex(n) = SpineAt(rec, n)
BY DEF LineIndex, LineAt, SpineIndex, SpineAt

\* The models with ports on the face: all line boards, and one spine.
LEMMA FacesAre ==
  ASSUME NEW n
  PROVE  /\ FacePorts(n) # {} => IsLine(n) \/ Device[n] = "4700x2"
         /\ IsLine(n) => ~IsSpine(n)
         /\ Device[n] = "4700x2" => IsSpine(n)
         /\ FacePorts(n) # {} /\ IsSpine(n) => Device[n] = "4700x2"
         /\ Device[n] \in {"router", "IS4"} => FacePorts(n) = {} /\ ~IsLine(n) /\ ~IsSpine(n)
BY DEF FacePorts, IsLine, IsSpine, Lines, Spines

\* The ports that lead inside are none of the face.
LEMMA InsideIsNoFace ==
  ASSUME NEW n, NEW p
  PROVE  /\ IsSpine(n) /\ p \in SpinePorts(n) => p \notin FacePorts(n)
         /\ IsLine(n) /\ p \in LinePorts(n) => p \notin FacePorts(n)
<1>1. ASSUME IsSpine(n), p \in SpinePorts(n) PROVE p \notin FacePorts(n)
  <2>1. CASE Device[n] = "4700x2"
    BY <1>1, <2>1 DEF SpinePorts, FacePorts, IsLine, Lines
  <2>2. CASE Device[n] # "4700x2"
    BY <1>1, <2>2, FacesAre
  <2> QED BY <2>1, <2>2
<1>2. ASSUME IsLine(n), p \in LinePorts(n) PROVE p \notin FacePorts(n)
  BY <1>2 DEF LinePorts, FacePorts, IsLine, Lines
<1> QED BY <1>1, <1>2

LEMMA PlacedStays ==
  ASSUME NEW r, NEW r2, SamePlaces(r, r2), NEW ch \in ChassisSet, NEW new, SameSlots(ch, new),
         IsPlaced(r, ch)
  PROVE  IsPlaced(r2, new)
<1>1. \A n \in Nodes : LineAt(r2, n) = LineAt(r, n) /\ SpineAt(r2, n) = SpineAt(r, n)
  BY DEF SamePlaces, LineAt, SpineAt
<1>2. /\ \A i \in DOMAIN ch.spine : ch.spine[i] \in Nodes
      /\ \A i \in DOMAIN ch.line : ch.line[i] \in Nodes
  BY BoardsAreNodes
<1> QED BY <1>1, <1>2 DEF IsPlaced, SameSlots

LEMMA NothingIsPlaced ==
  ASSUME NEW r, NEW ch, ch.line = NoBoards, ch.spine = NoBoards
  PROVE  IsPlaced(r, ch)
BY NoBoardsTyped DEF IsPlaced

\* A board joins those of its chassis, in the slot that is its index.
LEMMA PlacedMore ==
  ASSUME NEW r, NEW ch \in ChassisSet, NEW new, NEW side \in {"line", "spine"},
         NEW i \in Nat, NEW n \in Nodes, MoreSlots(ch, new, side, i, n), IsPlaced(r, ch),
         FacePorts(n) # {} => IF side = "line" THEN IsLine(n) /\ LineAt(r, n) = i
                              ELSE IsSpine(n) /\ SpineAt(r, n) = i
  PROVE  IsPlaced(r, new)
<1>1. ch.line \in Slots /\ ch.spine \in Slots
  BY DEF ChassisSet
<1>2. ASSUME NEW slots \in Slots
      PROVE  \A j \in DOMAIN WithBoard(slots, i, n) :
               \/ j = i /\ WithBoard(slots, i, n)[j] = n
               \/ j \in DOMAIN slots /\ WithBoard(slots, i, n)[j] = slots[j]
  BY DEF WithBoard
<1>3. CASE side = "line"
  BY <1>1, <1>2, <1>3 DEF MoreSlots, IsPlaced
<1>4. CASE side = "spine"
  BY <1>1, <1>2, <1>4 DEF MoreSlots, IsPlaced
<1> QED BY <1>3, <1>4

------------------------------------------------------------------------------
\* What fill_voltaire_chassis_record and fill_mellanox_chassis_record say of a board.
LEMMA FiledBy ==
  ASSUME SlotsAsBuilt, Typing, Filed, NEW n \in Nodes, NEW m \in Nodes
  PROVE  IsFiled(Filled(n), m)
<1>1. rec \in [Nodes -> Positions] /\ IsFiled(rec, m)
  BY DEF Typing, Filed
<1>2. ASSUME NEW r \in [Nodes -> Positions], r[m].side = rec[m].side, r[m].slot = rec[m].slot,
             r[m].chip = rec[m].chip
      PROVE  IsFiled(r, m)
  BY <1>1, <1>2 DEF IsFiled
<1> DEFINE marked == [rec EXCEPT ![n].found = TRUE]
<1>3. IsFiled(marked, m)
  <2> DEFINE q == [rec[n] EXCEPT !.found = TRUE]
  <2>0. rec[n] \in Positions
    BY <1>1
  <2>1. /\ q \in Positions
        /\ q.side = rec[n].side /\ q.slot = rec[n].slot /\ q.chip = rec[n].chip
    BY <2>0, MarkedFound DEF Positions
  <2>2. marked = [rec EXCEPT ![n] = q]
    OBVIOUS
  <2> HIDE DEF q, marked
  <2>3. marked \in [Nodes -> Positions] /\ marked[m] = IF m = n THEN q ELSE rec[m]
    BY <1>1, <2>1, <2>2
  <2> QED BY <1>2, <2>1, <2>3
<1> HIDE DEF marked
<1>4. ASSUME Device[n] = "router", Vendor[n] = "VTR" PROVE IsFiled(FilledRouter(n), m)
  <2>1. FilledRouter(n) \in [Nodes -> Positions]
    BY FilledRouterTyped
  <2>2. CASE m # n
    <3>1. FilledRouter(n)[m] = rec[m]
      BY <1>1, <2>2 DEF FilledRouter
    <3> QED BY <1>2, <2>1, <3>1
  <2>3. CASE m = n
    BY <1>4, <2>3, FacesAre DEF IsFiled
  <2> QED BY <2>2, <2>3
<1>5. ASSUME IsSpine(n), Vendor[n] = "VTR" PROVE IsFiled(FilledSpine(n), m)
  <2> DEFINE inside == LinksIn(n, SpinePorts(n))
             lines == {e \in inside : Peer(e) \in Switches}
             routers == {e \in inside : Peer(e) \notin Switches /\ ~rec[Peer(e)].found}
             q == [rec[n] EXCEPT !.found = TRUE]
  <2>1. FilledSpine(n) \in [Nodes -> Positions]
    BY <1>5, FilledSpineTyped
  <2>2. FilledSpine(n)[m] =
           CASE m = n -> IF lines = {} THEN q ELSE AtSpineSlot(q, n, Cable[FirstPort(lines)])
             [] m # n /\ \E e \in routers : Peer(e) = m ->
                  AtRouterSlot(rec[m], FirstPort({e \in routers : Peer(e) = m}))
             [] OTHER -> rec[m]
    BY DEF FilledSpine
  <2>3. CASE m = n /\ lines = {}
    <3>1. q.side = rec[n].side /\ q.slot = rec[n].slot /\ q.chip = rec[n].chip
      BY <1>1 DEF Positions
    <3> HIDE DEF q, lines
    <3>2. FilledSpine(n)[m] = q
      BY <2>2, <2>3
    <3> QED BY <1>2, <2>1, <2>3, <3>1, <3>2
  <2>4. CASE m = n /\ lines # {}
    <3>1. FilledSpine(n)[m].side = "spine"
      BY <2>2, <2>4 DEF AtSpineSlot
    <3>2. ~IsLine(m) /\ Vendor[m] # "MLX"
      BY <1>5, <2>4, FacesAre
    <3> QED BY <3>1, <3>2 DEF IsFiled
  <2>5. CASE m # n /\ \E e \in routers : Peer(e) = m
    <3>1. m \notin Switches
      BY <2>5
    <3>2. FilledSpine(n)[m].side = "router"
      <4> HIDE DEF routers
      <4>1. FilledSpine(n)[m] = AtRouterSlot(rec[m], FirstPort({e \in routers : Peer(e) = m}))
        BY <2>2, <2>5
      <4> QED BY <4>1 DEF AtRouterSlot
    <3>3. ~IsLine(m) /\ ~IsSpine(m)
      BY <3>1 DEF SlotsAsBuilt
    <3> QED BY <3>2, <3>3 DEF IsFiled
  <2>6. CASE m # n /\ ~\E e \in routers : Peer(e) = m
    <3>1. FilledSpine(n)[m] = rec[m]
      <4> HIDE DEF routers
      <4> QED BY <2>2, <2>6
    <3> QED BY <1>2, <2>1, <3>1
  <2> QED BY <2>3, <2>4, <2>5, <2>6
<1>6. ASSUME IsLine(n), Vendor[n] = "VTR" PROVE IsFiled(FilledLine(n), m)
  <2> DEFINE inside == LinksIn(n, LinePorts(n))
             q == [rec[n] EXCEPT !.found = TRUE]
             e == FirstPort(inside)
  <2>1. FilledLine(n) \in [Nodes -> Positions]
    BY FilledLineTyped
  <2>2. FilledLine(n) = [rec EXCEPT ![n] = IF inside = {} THEN q ELSE AtLineSlot(q, Cable[e])]
    BY DEF FilledLine
  <2>3. CASE m # n
    <3>1. FilledLine(n)[m] = rec[m]
      BY <1>1, <2>2, <2>3
    <3> QED BY <1>2, <2>1, <3>1
  <2>4. CASE m = n /\ inside = {}
    <3>1. q.side = rec[n].side /\ q.slot = rec[n].slot /\ q.chip = rec[n].chip
      BY <1>1 DEF Positions
    <3> HIDE DEF q, inside
    <3>2. FilledLine(n)[m] = q
      BY <1>1, <2>2, <2>4
    <3> QED BY <1>2, <2>1, <2>4, <3>1, <3>2
  <2>5. CASE m = n /\ inside # {}
    <3>1. \A f \in inside : f \in DOMAIN Cable /\ f[2] \in Nat /\ f[1] = n /\ f[2] \in LinePorts(n)
      <4>1. \A f \in inside : f \in DOMAIN Cable /\ f[1] = n /\ f[2] \in LinePorts(n)
        BY FabricParts DEF LinksIn, Typing
      <4> QED BY <4>1, LinkParts
    <3>2. e \in inside
      BY <2>5, <3>1, FirstPortIsOne
    <3>3. IsSpine(Peer(e))
      BY <1>6, <3>2, InsideLinks
    <3>4. FilledLine(n)[m] = AtLineSlot(q, Cable[e])
      <4> HIDE DEF q, inside, e
      <4> QED BY <1>1, <2>2, <2>5
    <3>5. AtLineSlot(q, Cable[e]).side = "line" /\ AtLineSlot(q, Cable[e]).slot = SlotBehind(e)
      <4>1. Device[Cable[e][1]] \in Spines
        BY <3>3 DEF IsSpine, Peer
      <4> HIDE DEF q, e
      <4> QED BY <4>1 DEF AtLineSlot, SlotBehind, Peer
    <3>6. e \in DOMAIN Cable /\ e[1] = m /\ e[2] \notin FacePorts(m)
      BY <1>6, <2>5, <3>1, <3>2, InsideIsNoFace
    <3>7. ~IsSpine(m) /\ Vendor[m] # "MLX"
      BY <1>6, <2>5, FacesAre
    <3> HIDE DEF e, q, inside
    <3> QED BY <3>4, <3>5, <3>6, <3>7 DEF IsFiled
  <2> QED BY <2>3, <2>4, <2>5
<1>7. Vendor[n] = "VTR" => IsFiled(FilledVoltaire(n), m)
  BY <1>1, <1>3, <1>4, <1>5, <1>6 DEF FilledVoltaire, marked
<1>8. Vendor[n] = "MLX" => IsFiled(FilledMellanox(n), m)
  <2> SUFFICES ASSUME Vendor[n] = "MLX" PROVE IsFiled(FilledMellanox(n), m)
    OBVIOUS
  <2>1. CASE FilledMellanox(n) = rec
    BY <1>1, <2>1
  <2>2. CASE m = n /\ Device[n] = "IS4"
    BY <2>2, FacesAre DEF IsFiled
  <2>3. CASE m # n /\ FilledMellanox(n)[m] = rec[m]
    BY <1>1, <2>3 DEF IsFiled
  <2>4. Device[n] # "IS4" => FilledMellanox(n) = rec
    BY DEF FilledMellanox
  <2>5. m # n => FilledMellanox(n)[m] = rec[m]
    BY <1>1 DEF FilledMellanox
  <2> QED BY <2>1, <2>2, <2>3, <2>4, <2>5
<1> QED BY <1>1, <1>7, <1>8 DEF Filled

LEMMA FiledStays ==
  ASSUME NEW r, NEW r2, SamePlaces(r, r2), \A n \in Nodes : IsFiled(r, n)
  PROVE  \A n \in Nodes : IsFiled(r2, n)
<1> TAKE n \in Nodes
<1>1. /\ IsFiled(r, n)
      /\ r2[n].side = r[n].side /\ r2[n].slot = r[n].slot /\ r2[n].chip = r[n].chip
  BY DEF SamePlaces
<1> QED BY <1>1 DEF IsFiled

------------------------------------------------------------------------------
\* What a step leaves of this when the chassis keep their slots and the boards
\* their places.
LEMMA SlotsKept ==
  ASSUME Typing, Placed, SamePlaces(rec, rec'), Len(chassis') = Len(chassis),
         \A c \in 1..Len(chassis) : SameSlots(chassis[c], chassis'[c])
  PROVE  Placed'
<1> SUFFICES ASSUME NEW c \in 1..Len(chassis)
             PROVE  IsPlaced(rec', chassis'[c])
  BY DEF Placed
<1>1. chassis[c] \in ChassisSet /\ IsPlaced(rec, chassis[c]) /\ SameSlots(chassis[c], chassis'[c])
  BY DEF Typing, Placed
<1> QED BY <1>1, PlacedStays

LEMMA Unmoved ==
  /\ SamePlaces(rec, rec)
  /\ \A c : SameSlots(chassis[c], chassis[c])
BY DEF SamePlaces, SameSlots

LEMMA FailPlaced ==
  ASSUME Filed, Fail
  PROVE  Placed' /\ Filed' /\ NoneYet' /\ LinesAhead'
<1>1. pc' = "failed" /\ Len(chassis') = 0 /\ chassis' = <<>> /\ rec' = rec
  BY DEF Fail
<1> QED BY <1>1 DEF Placed, Filed, NoneYet, LinesAhead

LEMMA FillPlaced ==
  ASSUME SlotsAsBuilt, PlaceInv, FillRecord
  PROVE  Placed' /\ Filed' /\ NoneYet' /\ LinesAhead'
<1>1. /\ rec' = Filled(node) /\ chassis' = chassis /\ pc' = "fill" /\ pc = "fill"
      /\ node \in Nodes
  BY NodeTyped DEF FillRecord, Turn, PlaceInv, OneBox
<1>2. chassis = <<>> /\ Len(chassis') = 0
  BY <1>1 DEF PlaceInv, NoneYet
<1> HIDE DEF node
<1>3. Filed'
  <2>1. \A m \in Nodes : IsFiled(Filled(node), m)
    BY <1>1, FiledBy DEF PlaceInv, OneBox
  <2> QED BY <1>1, <2>1 DEF Filed
<1>4. Placed' /\ NoneYet' /\ LinesAhead'
  BY <1>1, <1>2 DEF Placed, NoneYet, LinesAhead
<1> QED BY <1>3, <1>4

\* The inside ports of a spine lead to the line boards.
LEMMA NoSpineBehind ==
  ASSUME SlotsAsBuilt, Typing, NEW n, IsSpine(n), NEW e \in LinksIn(n, SpinePorts(n))
  PROVE  ~IsSpine(Peer(e))
<1>1. e \in DOMAIN Cable /\ e[1] = n /\ e[2] \notin FacePorts(n)
  BY FabricParts, InsideIsNoFace DEF Typing, LinksIn
<1> QED BY <1>1 DEF SlotsAsBuilt

LEMMA StartedPlaced ==
  ASSUME SlotsAsBuilt, PlaceInv, StartChassis
  PROVE  Placed' /\ Filed' /\ NoneYet' /\ LinesAhead'
<1>1. CASE SpineIndex(node) \notin 1..SpinesMax
  <2>1. Fail
    BY <1>1 DEF StartChassis
  <2> QED BY <2>1, FailPlaced DEF PlaceInv
<1>2. CASE SpineIndex(node) \in 1..SpinesMax
  <2> DEFINE i == SpineIndex(node)
             new == chassis'[Len(chassis')]
  <2>1. /\ chassis \in Seq(ChassisSet) /\ Len(chassis) \in Nat
        /\ Len(chassis') = Len(chassis) + 1
        /\ \A c \in 1..Len(chassis) : chassis'[c] = chassis[c]
        /\ new.spine = WithBoard(NoBoards, i, node) /\ new.line = NoBoards
    BY <1>2, StartedTyped DEF PlaceInv, OneBox, Typing
  <2>2. /\ pc' = "build" /\ pass' = 0 /\ IsSpine(node) /\ rec' = rec
        /\ visits' = Initialized(LinksIn(node, SpinePorts(node)))
    BY <1>2 DEF StartChassis, StartsChassis
  <2>3. SpineAt(rec, node) = i
    BY IndexIs
  <2> HIDE DEF i, new
  <2>4. IsPlaced(rec, new)
    <3>1. DOMAIN new.line = {}
      BY <2>1, NoBoardsTyped
    <3>2. \A j \in DOMAIN new.spine : j = i /\ new.spine[j] = node
      BY <2>1, NoBoardsTyped DEF WithBoard
    <3> QED BY <2>2, <2>3, <3>1, <3>2 DEF IsPlaced
  <2>5. Placed'
    <3> SUFFICES ASSUME NEW c \in 1..Len(chassis')
                 PROVE  IsPlaced(rec, chassis'[c])
      BY <2>2 DEF Placed
    <3>1. CASE c \in 1..Len(chassis)
      BY <2>1, <3>1 DEF PlaceInv, Placed
    <3>2. CASE c \notin 1..Len(chassis)
      <4>1. c = Len(chassis')
        BY <2>1, <3>2
      <4> QED BY <2>4, <4>1 DEF new
    <3> QED BY <3>1, <3>2
  <2>6. LinesAhead'
    <3>1. \A e \in visits' : ~IsSpine(Peer(e))
      BY <2>2, NoSpineBehind DEF Initialized, PlaceInv, OneBox
    <3> QED BY <3>1 DEF LinesAhead, IsSpine, Peer
  <2>7. Filed' /\ NoneYet'
    BY <2>2 DEF PlaceInv, Filed, NoneYet
  <2> QED BY <2>5, <2>6, <2>7
<1> QED BY <1>1, <1>2

\* A board that is caught goes to the slot that is its index.
LEMMA CaughtPlaced ==
  ASSUME PlaceInv, pc = "build", NEW side \in {"line", "spine"}, NEW i \in Nat, NEW n \in Nodes,
         Insert(Current, side, i, n), NEW e, visits' = visits \ {e},
         UNCHANGED <<pc, rec, pass>>,
         FacePorts(n) # {} => IF side = "line" THEN IsLine(n) /\ LineAt(rec, n) = i
                              ELSE IsSpine(n) /\ SpineAt(rec, n) = i
  PROVE  Placed' /\ Filed' /\ NoneYet' /\ LinesAhead'
<1>1. Typing /\ Current \in 1..Len(chassis) /\ chassis[Current] \in ChassisSet
  BY SpineBoardOfCurrent DEF PlaceInv, OneBox, Typing
<1>2. /\ Len(chassis') = Len(chassis)
      /\ \A c \in 1..Len(chassis) : c # Current => chassis'[c] = chassis[c]
      /\ chassis'[Current] \in {chassis[Current], Put(chassis[Current], side, i, n)}
  <2>1. Current # 0
    BY <1>1
  <2> QED BY <1>1, <2>1, InsertTyped
<1>3. IsPlaced(rec, chassis[Current])
  BY <1>1 DEF PlaceInv, Placed
<1>4. IsPlaced(rec, Put(chassis[Current], side, i, n))
  <2> DEFINE put == Put(chassis[Current], side, i, n)
  <2>1. MoreSlots(chassis[Current], put, side, i, n)
    <3>1. CASE side = "line"
      BY <1>1, <3>1, PutTyped DEF MoreSlots
    <3>2. CASE side = "spine"
      BY <1>1, <3>2, PutTyped DEF MoreSlots
    <3> QED BY <3>1, <3>2
  <2> HIDE DEF put
  <2>2. IsPlaced(rec, put)
    BY <1>1, <1>3, <2>1, PlacedMore
  <2> QED BY <2>2 DEF put
<1>5. Placed'
  <2> SUFFICES ASSUME NEW c \in 1..Len(chassis)
               PROVE  IsPlaced(rec, chassis'[c])
    BY <1>2 DEF Placed
  <2>1. CASE c = Current
    BY <1>2, <1>3, <1>4, <2>1
  <2>2. CASE c # Current
    BY <1>2, <2>2 DEF PlaceInv, Placed
  <2> QED BY <2>1, <2>2
<1>6. Filed' /\ NoneYet'
  BY DEF PlaceInv, Filed, NoneYet
<1>7. LinesAhead'
  BY DEF PlaceInv, LinesAhead, IsSpine, Peer
<1> QED BY <1>5, <1>6, <1>7

LEMMA PassPlaced ==
  ASSUME SlotsAsBuilt, PlaceInv, StartPass
  PROVE  Placed' /\ Filed' /\ NoneYet' /\ LinesAhead'
<1>1. /\ pc = "build" /\ UNCHANGED <<pc, rec, chassis>>
      /\ pass' = pass + 1
  BY DEF StartPass
<1>2. LinesAhead'
  <2> SUFFICES ASSUME pass' \in {0, 2, 4}, NEW e \in visits'
               PROVE  ~IsSpine(Peer(e))
    BY DEF LinesAhead, IsSpine, Peer
  <2>1. pass' \notin {1, 3}
    OBVIOUS
  <2>2. PICK n \in SpineBoards : e \in LinksIn(n, SpinePorts(n))
    BY <2>1 DEF StartPass, Initialized
  <2>3. IsSpine(n)
    BY <1>1, <2>2 DEF SpineBoards, PlaceInv, OneBox, SpinesInside
  <2> QED BY <2>2, <2>3, NoSpineBehind DEF PlaceInv, OneBox
<1>3. Placed' /\ Filed' /\ NoneYet'
  BY <1>1 DEF PlaceInv, Placed, Filed, NoneYet
<1> QED BY <1>2, <1>3

LEMMA EndedPlaced ==
  ASSUME PlaceInv, EndChassis
  PROVE  Placed' /\ Filed' /\ NoneYet' /\ LinesAhead'
<1>1. /\ Current \in 1..Len(chassis) /\ Len(chassis') = Len(chassis)
      /\ \A c \in 1..Len(chassis) : c # Current => chassis'[c] = chassis[c]
      /\ SameSlots(chassis[Current], chassis'[Current])
  BY EndedTyped DEF PlaceInv, OneBox
<1>2. pc' = "search" /\ rec' = rec
  BY DEF EndChassis
<1>3. \A c \in 1..Len(chassis) : SameSlots(chassis[c], chassis'[c])
  BY <1>1 DEF SameSlots
<1>4. Placed'
  <2>1. SamePlaces(rec, rec')
    BY <1>2 DEF SamePlaces
  <2> QED BY <1>1, <1>3, <2>1, SlotsKept DEF PlaceInv, OneBox
<1>5. Filed' /\ NoneYet' /\ LinesAhead'
  BY <1>2 DEF PlaceInv, Filed, NoneYet, LinesAhead
<1> QED BY <1>4, <1>5

LEMMA CountedPlaced ==
  ASSUME PlaceInv, CountNode
  PROVE  Placed' /\ Filed' /\ NoneYet' /\ LinesAhead'
<1>1. /\ Len(chassis) \in Nat /\ Len(chassis') \in Len(chassis)..(Len(chassis) + 1)
      /\ \A c \in 1..Len(chassis) : SameSlots(chassis[c], chassis'[c])
      /\ Len(chassis') # Len(chassis) =>
           /\ chassis'[Len(chassis')].line = NoBoards
           /\ chassis'[Len(chassis')].spine = NoBoards
  BY CountedTyped DEF PlaceInv, OneBox, Typing
<1>2. pc' = "count" /\ rec' = rec
  BY DEF CountNode, Turn
<1>3. Placed'
  <2> SUFFICES ASSUME NEW c \in 1..Len(chassis')
               PROVE  IsPlaced(rec, chassis'[c])
    BY <1>2 DEF Placed
  <2>1. CASE c \in 1..Len(chassis)
    <3>1. chassis[c] \in ChassisSet /\ IsPlaced(rec, chassis[c])
      BY <2>1 DEF PlaceInv, OneBox, Typing, Placed
    <3>2. SameSlots(chassis[c], chassis'[c])
      BY <1>1, <2>1
    <3> QED BY <3>1, <3>2, Unmoved, PlacedStays
  <2>2. CASE c \notin 1..Len(chassis)
    <3>1. c = Len(chassis') /\ Len(chassis') # Len(chassis)
      BY <1>1, <2>2
    <3> QED BY <1>1, <3>1, NothingIsPlaced
  <2> QED BY <2>1, <2>2
<1>4. Filed' /\ NoneYet' /\ LinesAhead'
  BY <1>2 DEF PlaceInv, Filed, NoneYet, LinesAhead
<1> QED BY <1>3, <1>4

LEMMA GroupedPlaced ==
  ASSUME PlaceInv, GroupNode
  PROVE  Placed' /\ Filed' /\ NoneYet' /\ LinesAhead'
<1>1. /\ SamePlaces(rec, rec') /\ Len(chassis') = Len(chassis)
      /\ \A c \in 1..Len(chassis) :
           \/ SameSlots(chassis[c], chassis'[c])
           \/ /\ Vendor[node] = "MLX" /\ rec[node].side \in {"line", "spine"}
              /\ MoreSlots(chassis[c], chassis'[c], rec[node].side, rec[node].slot, node)
  BY GroupNodeParts DEF PlaceInv, OneBox
<1>2. /\ pc' = "group" /\ node \in Nodes /\ rec \in [Nodes -> Positions]
      /\ chassis \in Seq(ChassisSet)
  BY NodeTyped DEF PlaceInv, OneBox, Typing, GroupNode, Turn
<1>3. rec[node].slot \in Nat
  <2>1. rec[node] \in Positions
    BY <1>2
  <2>2. rec[node].slot \in 0..255
    BY <2>1 DEF Positions
  <2> QED BY <2>2
<1> HIDE DEF node
<1>4. Placed'
  <2> SUFFICES ASSUME NEW c \in 1..Len(chassis)
               PROVE  IsPlaced(rec', chassis'[c])
    BY <1>1 DEF Placed
  <2>1. chassis[c] \in ChassisSet /\ IsPlaced(rec, chassis[c])
    BY <1>2 DEF PlaceInv, Placed
  <2>2. CASE SameSlots(chassis[c], chassis'[c])
    BY <1>1, <2>1, <2>2, PlacedStays
  <2>3. CASE /\ Vendor[node] = "MLX" /\ rec[node].side \in {"line", "spine"}
             /\ MoreSlots(chassis[c], chassis'[c], rec[node].side, rec[node].slot, node)
    <3>1. FacePorts(node) = {}
      BY <1>2, <2>3 DEF PlaceInv, Filed, IsFiled
    <3>2. IsPlaced(rec', chassis[c])
      <4>1. SameSlots(chassis[c], chassis[c])
        BY DEF SameSlots
      <4> QED BY <1>1, <2>1, <4>1, PlacedStays
    <3> QED BY <1>2, <1>3, <2>1, <2>3, <3>1, <3>2, PlacedMore
  <2> QED BY <1>1, <2>2, <2>3
<1>5. Filed'
  <2>1. \A n \in Nodes : IsFiled(rec, n)
    BY DEF PlaceInv, Filed
  <2>2. \A n \in Nodes : IsFiled(rec', n)
    BY <1>1, <2>1, FiledStays
  <2> QED BY <2>2 DEF Filed
<1>6. NoneYet' /\ LinesAhead'
  BY <1>2 DEF NoneYet, LinesAhead
<1> QED BY <1>4, <1>5, <1>6

\* Every step keeps the boards where they say they are.
LEMMA PlaceStep ==
  ASSUME SlotsAsBuilt, PlaceInv, [Next]_vars
  PROVE  PlaceInv'
<1> DEFINE Goal == Placed' /\ Filed' /\ NoneYet' /\ LinesAhead'
<1>1. OneBox'
  BY OneBoxStep DEF PlaceInv
<1>2. SUFFICES Goal
  BY <1>1 DEF PlaceInv
<1>3. ASSUME UNCHANGED <<chassis, rec, visits, pass>>,
             pc' = pc \/ (pc' # "build" /\ pc' # "fill")
      PROVE  Goal
  BY <1>3 DEF PlaceInv, Placed, Filed, NoneYet, LinesAhead, IsSpine, Peer
<1>4. CASE FillRecord
  BY <1>4, FillPlaced
<1>5. CASE NextLoop
  <2>1. pc' # "build" /\ pc' # "fill"
    BY <1>5 DEF NextLoop
  <2> QED BY <1>3, <1>5, <2>1 DEF NextLoop
<1>6. CASE SkipNode
  BY <1>3, <1>6 DEF SkipNode, Turn
<1>7. CASE StartChassis
  BY <1>7, StartedPlaced
<1>8. CASE CatchSpine
  <2>1. PICK e \in visits :
          \/ /\ SpineIndex(Peer(e)) \in 1..SpinesMax
             /\ Insert(Current, "spine", SpineIndex(Peer(e)), Peer(e))
             /\ visits' = visits \ {e}
             /\ UNCHANGED <<pc, at, rec, pass>>
          \/ Fail
    BY <1>8 DEF CatchSpine
  <2>2. CASE Fail
    BY <2>2, FailPlaced DEF PlaceInv
  <2>3. CASE /\ SpineIndex(Peer(e)) \in 1..SpinesMax
             /\ Insert(Current, "spine", SpineIndex(Peer(e)), Peer(e))
             /\ visits' = visits \ {e}
             /\ UNCHANGED <<pc, at, rec, pass>>
    <3> DEFINE i == SpineIndex(Peer(e))
               n == Peer(e)
    <3>1. pc = "build" /\ IsSpine(n)
      BY <1>8 DEF CatchSpine, PlaceInv, OneBox, SpinesInside
    <3>2. i \in Nat /\ SpineAt(rec, n) = i /\ n \in Nodes
      <4>1. i \in Nat
        BY <2>3 DEF SpinesMax
      <4>2. e \in DOMAIN Cable
        BY FabricParts DEF PlaceInv, OneBox, Typing
      <4> QED BY <4>1, <4>2, IndexIs, LinkParts
    <3>3. /\ Insert(Current, "spine", i, n) /\ visits' = visits \ {e}
          /\ UNCHANGED <<pc, rec, pass>>
      BY <2>3
    <3> HIDE DEF i, n
    <3> QED BY <3>1, <3>2, <3>3, CaughtPlaced
  <2> QED BY <2>1, <2>2, <2>3
<1>9. CASE CatchLine
  <2>1. PICK e \in visits :
          \/ /\ LineIndex(Peer(e)) \in 1..LinesMax
             /\ Insert(Current, "line", LineIndex(Peer(e)), Peer(e))
             /\ visits' = visits \ {e}
             /\ UNCHANGED <<pc, at, rec, pass>>
          \/ /\ visits' = visits \ {e}
             /\ UNCHANGED <<pc, at, rec, pass, chassis, chassisOf>>
          \/ Fail
    BY <1>9 DEF CatchLine
  <2>2. CASE Fail
    BY <2>2, FailPlaced DEF PlaceInv
  <2>3. CASE /\ visits' = visits \ {e}
             /\ UNCHANGED <<pc, at, rec, pass, chassis, chassisOf>>
    BY <2>3 DEF PlaceInv, Placed, Filed, NoneYet, LinesAhead, IsSpine, Peer
  <2>4. CASE /\ LineIndex(Peer(e)) \in 1..LinesMax
             /\ Insert(Current, "line", LineIndex(Peer(e)), Peer(e))
             /\ visits' = visits \ {e}
             /\ UNCHANGED <<pc, at, rec, pass>>
    <3> DEFINE i == LineIndex(Peer(e))
               n == Peer(e)
    <3>1. pc = "build" /\ ~IsSpine(n)
      BY <1>9 DEF CatchLine, PlaceInv, LinesAhead
    <3>2. i \in Nat /\ LineAt(rec, n) = i /\ n \in Nodes
      <4>1. i \in Nat
        BY <2>4 DEF LinesMax
      <4>2. e \in DOMAIN Cable
        BY FabricParts DEF PlaceInv, OneBox, Typing
      <4> QED BY <4>1, <4>2, IndexIs, LinkParts
    <3>3. /\ Insert(Current, "line", i, n) /\ visits' = visits \ {e}
          /\ UNCHANGED <<pc, rec, pass>>
      BY <2>4
    <3> HIDE DEF i, n
    <3>4. FacePorts(n) # {} => IsLine(n)
      BY <3>1, FacesAre
    <3> QED BY <3>1, <3>2, <3>3, <3>4, CaughtPlaced
  <2> QED BY <2>1, <2>2, <2>3, <2>4
<1>10. CASE StartPass
  BY <1>10, PassPlaced
<1>11. CASE EndChassis
  BY <1>11, EndedPlaced
<1>12. CASE CountNode
  BY <1>12, CountedPlaced
<1>13. CASE GroupNode
  BY <1>13, GroupedPlaced
<1>14. CASE UNCHANGED vars
  BY <1>3, <1>14 DEF vars
<1> QED BY <1>4, <1>5, <1>6, <1>7, <1>8, <1>9, <1>10, <1>11, <1>12, <1>13, <1>14 DEF Next

------------------------------------------------------------------------------
\* The two chips of a slot have different ports on the face.
LEMMA ChipsDiffer ==
  ASSUME NEW m, NEW n, Device[m] = Device[n], Device[m] \in {"24", "8", "2024", "4700x2"},
         NEW p \in FacePorts(m), NEW q \in FacePorts(n)
  PROVE  PortOnFace(Device[m], 1, p) # PortOnFace(Device[n], 2, q)
<1>1. CASE Device[m] = "24"
  <2> DEFINE ports == <<6, 5, 4, 18, 17, 16, 1, 2, 3, 13, 14, 15>>
  <2>1. p \in 13..24 /\ q \in 13..24
    BY <1>1 DEF FacePorts, IsLine, Lines
  <2>2. p - 12 \in 1..12 /\ q - 12 \in 1..12
    BY <2>1
  <2>3. \A k \in 1..12 : ports[k] \in 1..6 \cup 13..18
    OBVIOUS
  <2> HIDE DEF ports
  <2>4. /\ PortOnFace(Device[m], 1, p) = ports[p - 12] + 6 * (1 - 1)
        /\ PortOnFace(Device[n], 2, q) = ports[q - 12] + 6 * (2 - 1)
    BY <1>1 DEF PortOnFace, ports
  <2>5. ports[p - 12] \in 1..6 \cup 13..18 /\ ports[q - 12] \in 1..6 \cup 13..18
    BY <2>2, <2>3
  <2> QED BY <2>4, <2>5
<1>2. CASE Device[m] = "8"
  <2> DEFINE ports == <<2, 6, 1, 5>>
  <2>1. p \in 13..24 /\ q \in 13..24
    BY <1>2 DEF FacePorts, IsLine, Lines
  <2>2. (p - 10) \div 3 \in 1..4 /\ (q - 10) \div 3 \in 1..4
    BY <2>1
  <2>3. \A k \in 1..4 : ports[k] \in {1, 2, 5, 6}
    OBVIOUS
  <2> HIDE DEF ports
  <2>4. /\ PortOnFace(Device[m], 1, p) = ports[(p - 10) \div 3] + 2 * (1 - 1)
        /\ PortOnFace(Device[n], 2, q) = ports[(q - 10) \div 3] + 2 * (2 - 1)
    BY <1>2 DEF PortOnFace, ports
  <2>5. ports[(p - 10) \div 3] \in {1, 2, 5, 6} /\ ports[(q - 10) \div 3] \in {1, 2, 5, 6}
    BY <2>2, <2>3
  <2> QED BY <2>4, <2>5
<1>3. CASE Device[m] = "2024"
  <2>1. p \in 13..24 /\ q \in 13..24
    BY <1>3 DEF FacePorts, IsLine, Lines
  <2>2. PortOnFace(Device[m], 1, p) = p /\ PortOnFace(Device[n], 2, q) = q - 12
    BY <1>3 DEF PortOnFace
  <2> QED BY <2>1, <2>2
<1>4. CASE Device[m] = "4700x2"
  <2>1. p \in 19..36 /\ q \in 19..36
    BY <1>4 DEF FacePorts, IsLine, Lines
  <2>2. /\ PortOnFace(Device[m], 1, p) = (p - 19) \div 3 + 7
        /\ PortOnFace(Device[n], 2, q) = (q - 19) \div 3 + 1
    BY <1>4 DEF PortOnFace
  <2>3. (p - 19) \div 3 \in 0..5 /\ (q - 19) \div 3 \in 0..5
    BY <2>1
  <2> QED BY <2>2, <2>3
<1> QED BY <1>1, <1>2, <1>3, <1>4

\* Boards of one chassis with the same place and ports on the face: the slots are
\* of one table and the models the same, so that the chips are not.
LEMMA PlacesDiffer ==
  ASSUME SlotsAsBuilt, PlaceInv, NEW c \in 1..Len(chassis), NEW m \in Boards(c),
         NEW n \in Boards(c), m # n, rec[m].side = rec[n].side, rec[m].slot = rec[n].slot,
         rec[m].chip \in {1, 2}, rec[n].chip \in {1, 2}, FacePorts(m) # {}, FacePorts(n) # {}
  PROVE  /\ Device[m] = Device[n] /\ Device[m] \in {"24", "8", "2024", "4700x2"}
         /\ rec[m].chip # rec[n].chip
<1>1. /\ chassis[c] \in ChassisSet /\ IsPlaced(rec, chassis[c]) /\ rec \in [Nodes -> Positions]
      /\ Box[m] = Box[n]
  BY DEF PlaceInv, OneBox, Typing, Placed, BoardsOfOneBox
<1>2. m \in Nodes /\ n \in Nodes
  BY <1>1, BoardsAreNodes DEF Boards
<1>3. IsFiled(rec, m) /\ IsFiled(rec, n)
  BY <1>2 DEF PlaceInv, Filed
<1>4. CASE IsLine(m)
  <2>1. rec[m].side = "line"
    BY <1>3, <1>4 DEF IsFiled
  <2>2. IsLine(n) /\ ~IsSpine(m) /\ ~IsSpine(n)
    <3>1. IsSpine(n) => rec[n].side = "spine"
      BY <1>3 DEF IsFiled
    <3>2. IsLine(n)
      BY <2>1, <3>1, FacesAre
    <3> QED BY <1>4, <3>2, FacesAre
  <2>3. PICK i \in DOMAIN chassis[c].line : chassis[c].line[i] = m
    BY <1>1, <2>2 DEF Boards, BoardsIn, IsPlaced
  <2>4. PICK j \in DOMAIN chassis[c].line : chassis[c].line[j] = n
    BY <1>1, <2>2 DEF Boards, BoardsIn, IsPlaced
  <2>5. LineAt(rec, m) = i /\ LineAt(rec, n) = j /\ i # j
    BY <1>1, <2>3, <2>4 DEF IsPlaced
  <2>6. Device[m] = Device[n]
    <3>1. PICK d \in DOMAIN Cable :
            d[1] = m /\ d[2] \notin FacePorts(m) /\ rec[m].slot = SlotBehind(d)
      BY <1>3, <1>4 DEF IsFiled
    <3>2. PICK e \in DOMAIN Cable :
            e[1] = n /\ e[2] \notin FacePorts(n) /\ rec[n].slot = SlotBehind(e)
      BY <1>3, <2>2 DEF IsFiled
    <3>3. /\ IsLine(d[1]) /\ d[2] \notin FacePorts(d[1])
          /\ IsLine(e[1]) /\ e[2] \notin FacePorts(e[1])
      BY <1>4, <2>2, <3>1, <3>2
    <3>4. Box[d[1]] = Box[e[1]] /\ SlotBehind(d) = SlotBehind(e)
      BY <1>1, <3>1, <3>2
    <3>5. Device[d[1]] = Device[e[1]]
      BY <3>3, <3>4 DEF SlotsAsBuilt
    <3> QED BY <3>1, <3>2, <3>5
  <2>7. Device[m] # "4018"
    BY <2>5, <2>6 DEF LineAt
  <2>8. rec[m].chip # rec[n].chip
    BY <2>5, <2>6, <2>7 DEF LineAt
  <2> QED BY <1>4, <2>6, <2>7, <2>8 DEF IsLine, Lines
<1>5. CASE ~IsLine(m)
  <2>1. IsSpine(m) /\ Device[m] = "4700x2"
    BY <1>5, FacesAre
  <2>2. rec[n].side = "spine"
    BY <1>3, <2>1 DEF IsFiled
  <2>3. ~IsLine(n)
    BY <1>3, <2>2 DEF IsFiled
  <2>4. IsSpine(n) /\ Device[n] = "4700x2"
    BY <2>3, FacesAre
  <2>5. PICK i \in DOMAIN chassis[c].spine : chassis[c].spine[i] = m
    BY <1>1, <1>5 DEF Boards, BoardsIn, IsPlaced
  <2>6. PICK j \in DOMAIN chassis[c].spine : chassis[c].spine[j] = n
    BY <1>1, <2>3 DEF Boards, BoardsIn, IsPlaced
  <2>7. SpineAt(rec, m) = i /\ SpineAt(rec, n) = j /\ i # j
    BY <1>1, <2>5, <2>6 DEF IsPlaced
  <2>8. rec[m].chip # rec[n].chip
    BY <2>1, <2>4, <2>7 DEF SpineAt
  <2> QED BY <2>1, <2>4, <2>8
<1> QED BY <1>4, <1>5

LEMMA PlacedFacesDiffer ==
  ASSUME SlotsAsBuilt, PlaceInv
  PROVE  ExternalPortsDiffer
<1> SUFFICES ASSUME NEW c \in 1..Len(chassis), NEW m \in Boards(c), NEW n \in Boards(c),
                    m # n, rec[m].side = rec[n].side, rec[m].slot = rec[n].slot,
                    NEW p \in FacePorts(m), NEW q \in FacePorts(n), ExtPort(m, p) # 0,
                    ExtPort(n, q) # 0
             PROVE  ExtPort(m, p) # ExtPort(n, q)
  BY DEF ExternalPortsDiffer
<1>1. /\ rec[m].chip \in {1, 2} /\ ExtPort(m, p) = PortOnFace(Device[m], rec[m].chip, p)
      /\ rec[n].chip \in {1, 2} /\ ExtPort(n, q) = PortOnFace(Device[n], rec[n].chip, q)
  BY DEF ExtPort
<1>2. /\ Device[m] = Device[n] /\ Device[m] \in {"24", "8", "2024", "4700x2"}
      /\ rec[m].chip # rec[n].chip
  BY <1>1, PlacesDiffer
<1>3. CASE rec[m].chip = 1 /\ rec[n].chip = 2
  BY <1>1, <1>2, <1>3, ChipsDiffer
<1>4. CASE rec[m].chip = 2 /\ rec[n].chip = 1
  BY <1>1, <1>2, <1>4, ChipsDiffer
<1> QED BY <1>1, <1>2, <1>3, <1>4

\* The tables of get_slb_slot, get_sfb_slot and voltaire_portmap fit together:
\* however many chassis there are and in whatever order they were discovered,
\* two chips in one slot never show the same port on the face.
THEOREM FacesDiffer ==
  ASSUME SlotsAsBuilt
  PROVE  Spec => []ExternalPortsDiffer
<1>1. Init => PlaceInv
  <2> SUFFICES ASSUME Init PROVE PlaceInv
    OBVIOUS
  <2>1. OneBox
    <3>1. Typing
      BY InitTyped
    <3>2. BoardsOfOneBox /\ VisitsStayInside /\ SpinesInside /\ GuidsTellApart
      BY DEF Init, BoardsOfOneBox, VisitsStayInside, SpinesInside, GuidsTellApart
    <3> QED BY <3>1, <3>2 DEF OneBox
  <2>2. Placed /\ NoneYet /\ LinesAhead
    BY DEF Init, Placed, NoneYet, LinesAhead
  <2>3. Filed
    <3>1. \A n \in Nodes : rec[n].chip = 0 /\ rec[n].side = "none"
      BY DEF Init
    <3> QED BY <3>1 DEF Filed, IsFiled
  <2> QED BY <2>1, <2>2, <2>3 DEF PlaceInv
<1>2. PlaceInv /\ [Next]_vars => PlaceInv'
  BY PlaceStep
<1>3. PlaceInv => ExternalPortsDiffer
  BY PlacedFacesDiffer
<1> QED BY <1>1, <1>2, <1>3, PTL DEF Spec

------------------------------------------------------------------------------
(* The groups of nodes with one GUID.  The first loop gives each a chassis *)
(* and counts it, the second one sorts its nodes into the chassis.         *)

\* The nodes of S with GUID g, guid being that of each node.
SameAs(S, guid, g) == {m \in S : Grouped(m) /\ guid[m] = g}

\* The nodes of the list before place k.
Ahead(order, k) == {order[i] : i \in 1..(k - 1)}

GuidOf == [n \in Nodes |-> ChassisGuid(n)]

\* The nodes that were counted, and those that were sorted.
Tallied == IF pc = "count" THEN Ahead(fabric.order, at) ELSE Present
Sorted ==
  IF pc = "group" THEN Ahead(fabric.order, at) ELSE IF pc = "done" THEN Present ELSE {}

\* The chassis that no spine has started.
Groups(chs) == {c \in 1..Len(chs) : chs[c].guid.maker # "VTR"}

\* What is known of a node that is not Voltaire's, once those of past were sorted.
OtherFiled(q, m, past) ==
  /\ q.side \in {"none", "line", "spine"}
  /\ q.side # "none" => q.found /\ Vendor[m] = "MLX" /\ m \in Switches
  /\ q.found => q.side # "none" \/ m \in past

OthersFiled == \A m \in Nodes : Vendor[m] # "VTR" => OtherFiled(rec[m], m, Sorted)

OthersFree ==
  pc # "failed" => \A m \in Nodes : Vendor[m] # "VTR" /\ m \notin Sorted => chassisOf[m] = 0

VoltaireBuilds ==
  pc = "build" => /\ \A m \in Boards(Current) : Vendor[m] = "VTR"
                  /\ \A e \in visits : Vendor[Peer(e)] = "VTR"

BuiltFirst ==
  pc \in {"fill", "search", "build"} =>
    \A c \in Groups(chassis) : pc = "build" /\ c = Current

Grouping == pc \in {"count", "group", "done"}

\* A group for each GUID, with its nodes counted while they fit in a byte.
TallyOk(chs, guid, S) ==
  /\ \A c, d \in Groups(chs) : chs[c].guid = chs[d].guid => c = d
  /\ \A n \in S : Grouped(n) => \E c \in Groups(chs) : chs[c].guid = guid[n]
  /\ \A c \in Groups(chs) :
       Cardinality(SameAs(S, guid, chs[c].guid)) < CharMod =>
         chs[c].count = Cardinality(SameAs(S, guid, chs[c].guid))

\* A board is in chassis c if it has its slot.
HasSlot(slots, i, m, c, of) == i \in DOMAIN slots /\ of[m] = IF slots[i] = m THEN c ELSE 0

\* Chassis ch, the c-th, when the nodes past of its nodes same were sorted.
GroupOk(ch, c, same, past, of, r) ==
  /\ BoardsIn(ch) \subseteq past
  /\ Cardinality(same) < CharMod /\ (Cardinality(same) < 2 \/ past = {}) =>
       ch.num = 0 /\ ch.nodes = {} /\ \A m \in past : of[m] = 0
  /\ Cardinality(same) < CharMod /\ ~(Cardinality(same) < 2 \/ past = {}) =>
       /\ ch.num # 0
       /\ ch.nodes = {m \in past : r[m].side = "none"}
       /\ \A m \in past : /\ r[m].side = "none" => of[m] = c
                          /\ r[m].side = "line" => HasSlot(ch.line, r[m].slot, m, c, of)
                          /\ r[m].side = "spine" => HasSlot(ch.spine, r[m].slot, m, c, of)

SortOk(chs, guid, all, past, of, r) ==
  \A c \in Groups(chs) :
    GroupOk(chs[c], c, SameAs(all, guid, chs[c].guid), SameAs(past, guid, chs[c].guid), of, r)

Tally == Grouping => TallyOk(chassis, GuidOf, Tallied)
Sorting ==
  Grouping /\ numbered < CharMod => SortOk(chassis, GuidOf, Present, Sorted, chassisOf, rec)

GroupInv ==
  OneBox /\ OthersFiled /\ OthersFree /\ VoltaireBuilds /\ BuiltFirst /\ Tally /\ Sorting

LEMMA OtherGuid ==
  ASSUME Typing, NEW n \in Nodes, Grouped(n)
  PROVE  GuidOf[n] = ChassisGuid(n) /\ ChassisGuid(n).maker # "VTR"
<1>1. Sys[n].maker # "VTR" /\ Vendor[n] # "VTR"
  BY ChassisAssumption DEF Grouped
<1>2. \A m \in Nodes : Masked(Sys[m]).maker = Sys[m].maker
  <2> TAKE m \in Nodes
  <2>1. DOMAIN Sys[m] = {"maker", "box", "loc", "role"}
    BY ChassisAssumption DEF NoGuid
  <2> QED BY <2>1 DEF Masked
<1>3. <<n, 1>> \in fabric.links => Peer(<<n, 1>>) \in Nodes
  BY FabricParts, LinkParts DEF Typing
<1>4. XsigoGuid(n).maker # "VTR"
  BY <1>1, <1>2, <1>3 DEF XsigoGuid, IsLeafOne, NoGuid
<1> QED BY <1>1, <1>2, <1>4 DEF ChassisGuid, GuidOf

LEMMA GuidsStay ==
  ASSUME fabric' = fabric
  PROVE  GuidOf' = GuidOf /\ Present' = Present
<1>1. \A n : ChassisGuid(n)' = ChassisGuid(n)
  BY DEF ChassisGuid, XsigoGuid, Masked, IsLeafOne, Peer, NoGuid
<1> QED BY <1>1 DEF GuidOf, Present

\* The list holds every node once.
LEMMA AheadIs ==
  ASSUME Typing
  PROVE  /\ Ahead(fabric.order, 1) = {}
         /\ at > Len(fabric.order) => Ahead(fabric.order, at) = Present
         /\ Ahead(fabric.order, at) \subseteq Present
         /\ at <= Len(fabric.order) =>
              /\ Ahead(fabric.order, at + 1) = Ahead(fabric.order, at) \cup {node}
              /\ node \notin Ahead(fabric.order, at) /\ node \in Present
         /\ Present \subseteq Nodes /\ IsFiniteSet(Present)
<1> DEFINE order == fabric.order
           last == Len(order)
<1>1. /\ order \in Seq(Nodes) /\ last \in Nat /\ at \in 1..(last + 1) /\ DOMAIN order = 1..last
      /\ \A i, j \in DOMAIN order : order[i] = order[j] => i = j
  <2>1. order \in Seq(Nodes) /\ \A i, j \in DOMAIN order : order[i] = order[j] => i = j
    BY ChassisAssumption DEF Typing
  <2> QED BY <2>1 DEF Typing
<1>2. Present = {order[i] : i \in 1..last}
  BY DEF Present
<1>3. node = order[at]
  BY DEF node
<1> HIDE DEF order, last
<1>4. Ahead(order, 1) = {}
  BY DEF Ahead
<1>5. at > last => Ahead(order, at) = Present
  <2>1. at > last => at - 1 = last
    BY <1>1
  <2> QED BY <1>2, <2>1 DEF Ahead
<1>6. Ahead(order, at) \subseteq Present
  <2>1. 1..(at - 1) \subseteq 1..last
    BY <1>1
  <2> QED BY <1>2, <2>1 DEF Ahead
<1>7. ASSUME at <= last
      PROVE  /\ Ahead(order, at + 1) = Ahead(order, at) \cup {node}
             /\ node \notin Ahead(order, at) /\ node \in Present
  <2>1. at \in 1..last /\ 1..(at + 1 - 1) = 1..(at - 1) \cup {at}
    BY <1>1, <1>7
  <2>2. Ahead(order, at + 1) = Ahead(order, at) \cup {node}
    BY <1>3, <2>1 DEF Ahead
  <2>3. \A i \in 1..(at - 1) : order[i] # order[at]
    <3>1. \A i \in 1..(at - 1) : i \in 1..last /\ i # at
      BY <1>1, <1>7
    <3> QED BY <1>1, <2>1, <3>1
  <2>4. node \notin Ahead(order, at)
    BY <1>3, <2>3 DEF Ahead
  <2> QED BY <1>2, <1>3, <2>1, <2>2, <2>4
<1>8. Present \subseteq Nodes
  BY <1>1, <1>2
<1>9. IsFiniteSet(Present)
  <2> DEFINE f == [i \in 1..last |-> order[i]]
  <2>1. f \in Surjection(1..last, Present)
    BY <1>2 DEF Surjection
  <2>2. IsFiniteSet(1..last)
    BY <1>1, FS_Interval
  <2> QED BY <2>1, <2>2, FS_Surjection
<1> QED BY <1>4, <1>5, <1>6, <1>7, <1>8, <1>9 DEF order, last

------------------------------------------------------------------------------
\* The first loop leaves a node that is not Voltaire's in no slot, or in the one that
\* a Mellanox board has in its description.
LEMMA OtherFiledBy ==
  ASSUME VoltaireInside, Typing, NEW n \in Nodes, NEW m \in Nodes, Vendor[m] # "VTR",
         OtherFiled(rec[m], m, {})
  PROVE  OtherFiled(Filled(n)[m], m, {})
<1>1. rec \in [Nodes -> Positions] /\ rec[m] \in Positions
  BY DEF Typing
<1>2. Vendor[n] = "VTR" => FilledVoltaire(n)[m] = rec[m]
  <2> SUFFICES ASSUME Vendor[n] = "VTR" PROVE FilledVoltaire(n)[m] = rec[m]
    OBVIOUS
  <2>1. m # n
    OBVIOUS
  <2>2. FilledRouter(n)[m] = rec[m]
    BY <1>1, <2>1 DEF FilledRouter
  <2>3. FilledLine(n)[m] = rec[m]
    BY <1>1, <2>1 DEF FilledLine
  <2>4. IsSpine(n) => FilledSpine(n)[m] = rec[m]
    <3> SUFFICES ASSUME IsSpine(n) PROVE FilledSpine(n)[m] = rec[m]
      OBVIOUS
    <3> DEFINE inside == LinksIn(n, SpinePorts(n))
    <3>1. \A e \in inside : Peer(e) # m
      <4> SUFFICES ASSUME NEW e \in inside PROVE Vendor[Peer(e)] = "VTR"
        OBVIOUS
      <4>1. e \in DOMAIN Cable /\ e[1] = n /\ e[2] \notin FacePorts(n)
        BY FabricParts, InsideIsNoFace DEF Typing, LinksIn
      <4> QED BY <4>1 DEF VoltaireInside
    <3> HIDE DEF inside
    <3>2. ~\E e \in {f \in inside : Peer(f) \notin Switches /\ ~rec[Peer(f)].found} : Peer(e) = m
      BY <3>1
    <3> QED BY <2>1, <3>2 DEF FilledSpine, inside
  <2>5. [rec EXCEPT ![n].found = TRUE][m] = rec[m]
    BY <1>1, <2>1
  <2> QED BY <2>2, <2>3, <2>4, <2>5 DEF FilledVoltaire
<1>3. n \in Switches /\ Vendor[n] = "MLX" => OtherFiled(FilledMellanox(n)[m], m, {})
  <2> SUFFICES ASSUME n \in Switches, Vendor[n] = "MLX" PROVE OtherFiled(FilledMellanox(n)[m], m, {})
    OBVIOUS
  <2> DEFINE d == Described[n]
             slot == IF d.num > SlotLimit(d.side) THEN 0 ELSE d.num
             q == [found |-> TRUE, side |-> d.side, chip |-> 1, type |-> rec[n].type,
                   slot |-> slot]
             lettered == [rec[n] EXCEPT !.chip = 1]
  <2>1. CASE FilledMellanox(n) = rec \/ m # n
    <3>1. FilledMellanox(n)[m] = rec[m]
      BY <1>1, <2>1 DEF FilledMellanox
    <3> QED BY <3>1
  <2>2. CASE FilledMellanox(n) # rec /\ m = n /\ d.side \in {"line", "spine"}
    <3>1. FilledMellanox(n) = [rec EXCEPT ![n] = q]
      BY <1>1, <2>2 DEF FilledMellanox
    <3>2. q.found = TRUE /\ q.side = d.side
      OBVIOUS
    <3> HIDE DEF q, d
    <3>3. FilledMellanox(n)[m] = q
      BY <1>1, <2>2, <3>1
    <3> QED BY <2>2, <3>2, <3>3 DEF OtherFiled
  <2>3. CASE FilledMellanox(n) # rec /\ m = n /\ d.side \notin {"line", "spine"}
    <3>1. FilledMellanox(n) = [rec EXCEPT ![n] = lettered]
      BY <1>1, <2>3 DEF FilledMellanox
    <3>2. lettered.found = rec[n].found /\ lettered.side = rec[n].side
      BY <1>1, <2>3 DEF Positions
    <3> HIDE DEF lettered
    <3>3. FilledMellanox(n)[m] = lettered
      BY <1>1, <2>3, <3>1
    <3> QED BY <2>3, <3>2, <3>3 DEF OtherFiled
  <2> QED BY <2>1, <2>2, <2>3
<1> QED BY <1>2, <1>3 DEF Filled

\* What the first three loops leave of the groups: there are none.
LEMMA FailGrouped ==
  ASSUME GroupInv, Fail, pc \in {"search", "build"}
  PROVE  OthersFiled' /\ OthersFree' /\ VoltaireBuilds' /\ BuiltFirst' /\ Tally' /\ Sorting'
<1>1. pc' = "failed" /\ rec' = rec
  BY DEF Fail
<1>2. Sorted = {} /\ Sorted' = {}
  BY <1>1 DEF Sorted
<1> QED BY <1>1, <1>2 DEF GroupInv, OthersFiled, OthersFree, VoltaireBuilds, BuiltFirst, Tally,
           Sorting, Grouping

LEMMA FillGrouped ==
  ASSUME VoltaireInside, GroupInv, FillRecord
  PROVE  OthersFiled' /\ OthersFree' /\ VoltaireBuilds' /\ BuiltFirst' /\ Tally' /\ Sorting'
<1>1. /\ rec' = Filled(node) /\ chassis' = chassis /\ chassisOf' = chassisOf
      /\ pc' = "fill" /\ pc = "fill" /\ node \in Nodes
  BY NodeTyped DEF FillRecord, Turn, GroupInv, OneBox
<1>2. Sorted = {} /\ Sorted' = {}
  BY <1>1 DEF Sorted
<1> HIDE DEF node
<1>3. OthersFiled'
  <2> SUFFICES ASSUME NEW m \in Nodes, Vendor[m] # "VTR" PROVE OtherFiled(Filled(node)[m], m, {})
    BY <1>1, <1>2 DEF OthersFiled
  <2>1. OtherFiled(rec[m], m, {})
    BY <1>2 DEF GroupInv, OthersFiled
  <2> QED BY <1>1, <2>1, OtherFiledBy DEF GroupInv, OneBox
<1>4. OthersFree' /\ VoltaireBuilds' /\ BuiltFirst' /\ Tally' /\ Sorting'
  BY <1>1, <1>2 DEF GroupInv, OthersFree, VoltaireBuilds, BuiltFirst, Tally, Sorting, Grouping
<1> QED BY <1>3, <1>4

\* Inside links of a Voltaire board lead to others.
LEMMA VoltaireBehind ==
  ASSUME VoltaireInside, Typing, NEW n, Vendor[n] = "VTR", NEW e,
         \/ IsSpine(n) /\ e \in LinksIn(n, SpinePorts(n))
         \/ IsLine(n) /\ e \in LinksIn(n, LinePorts(n))
  PROVE  Vendor[Peer(e)] = "VTR"
<1>1. e \in DOMAIN Cable /\ e[1] = n /\ e[2] \notin FacePorts(n)
  BY FabricParts, InsideIsNoFace DEF Typing, LinksIn
<1> QED BY <1>1 DEF VoltaireInside

LEMMA StartedGrouped ==
  ASSUME VoltaireInside, GroupInv, StartChassis
  PROVE  OthersFiled' /\ OthersFree' /\ VoltaireBuilds' /\ BuiltFirst' /\ Tally' /\ Sorting'
<1>1. CASE SpineIndex(node) \notin 1..SpinesMax
  <2>1. Fail /\ pc = "search"
    BY <1>1 DEF StartChassis, Turn
  <2> QED BY <2>1, FailGrouped
<1>2. CASE SpineIndex(node) \in 1..SpinesMax
  <2>1. /\ Len(chassis) \in Nat /\ Len(chassis') = Len(chassis) + 1
        /\ \A c \in 1..Len(chassis) : chassis'[c] = chassis[c]
        /\ BoardsIn(chassis'[Len(chassis')]) = {node}
    BY <1>2, StartedTyped DEF GroupInv, OneBox, Typing
  <2>2. /\ pc' = "build" /\ pc = "search" /\ IsSpine(node) /\ Vendor[node] = "VTR" /\ rec' = rec
        /\ visits' = Initialized(LinksIn(node, SpinePorts(node)))
        /\ chassisOf' = [chassisOf EXCEPT ![node] = Len(chassis) + 1]
    BY <1>2 DEF StartChassis, StartsChassis, Turn
  <2>3. Sorted = {} /\ Sorted' = {}
    BY <2>2 DEF Sorted
  <2> HIDE DEF node
  <2>4. OthersFiled'
    BY <2>2, <2>3 DEF GroupInv, OthersFiled
  <2>5. OthersFree'
    BY <2>2, <2>3 DEF GroupInv, OneBox, Typing, OthersFree
  <2>6. VoltaireBuilds'
    <3>1. \A e \in visits' : Vendor[Peer(e)] = "VTR"
      BY <2>2, VoltaireBehind DEF Initialized, GroupInv, OneBox
    <3>2. \A m \in Boards(Current)' : Vendor[m] = "VTR"
      BY <2>1, <2>2 DEF Boards, Current
    <3> QED BY <3>1, <3>2 DEF VoltaireBuilds, Peer
  <2>7. BuiltFirst'
    <3> SUFFICES ASSUME NEW c \in Groups(chassis'), c # Len(chassis') PROVE FALSE
      BY <2>2 DEF BuiltFirst, Current
    <3>1. c \in Groups(chassis)
      BY <2>1 DEF Groups
    <3> QED BY <2>2, <3>1 DEF GroupInv, BuiltFirst
  <2>8. Tally' /\ Sorting'
    BY <2>2 DEF Tally, Sorting, Grouping
  <2> QED BY <2>4, <2>5, <2>6, <2>7, <2>8
<1> QED BY <1>1, <1>2

LEMMA CaughtGrouped ==
  ASSUME GroupInv, pc = "build", NEW side \in {"line", "spine"}, NEW i \in Nat, NEW n \in Nodes,
         Vendor[n] = "VTR", Insert(Current, side, i, n), NEW e, visits' = visits \ {e},
         UNCHANGED <<pc, rec>>
  PROVE  OthersFiled' /\ OthersFree' /\ VoltaireBuilds' /\ BuiltFirst' /\ Tally' /\ Sorting'
<1>1. Typing /\ Current \in 1..Len(chassis)
  BY SpineBoardOfCurrent DEF GroupInv, OneBox
<1>2. /\ Len(chassis') = Len(chassis)
      /\ \A c \in 1..Len(chassis) : c # Current => chassis'[c] = chassis[c]
      /\ BoardsIn(chassis'[Current]) \subseteq BoardsIn(chassis[Current]) \cup {n}
  <2>1. Current # 0
    BY <1>1
  <2> QED BY <1>1, <2>1, InsertTyped
<1>3. chassisOf' = chassisOf \/ chassisOf' = [chassisOf EXCEPT ![n] = Current]
  BY DEF Insert
<1>4. Sorted = {} /\ Sorted' = {} /\ Current' = Current
  BY <1>2 DEF Sorted, Current
<1> HIDE DEF Current
<1>5. OthersFiled'
  BY <1>4 DEF GroupInv, OthersFiled
<1>6. OthersFree'
  BY <1>1, <1>3, <1>4 DEF GroupInv, Typing, OthersFree
<1>7. VoltaireBuilds'
  <2>1. \A m \in Boards(Current)' : m \in Boards(Current) \cup {n}
    BY <1>2, <1>4 DEF Boards
  <2> QED BY <1>4, <2>1 DEF GroupInv, VoltaireBuilds, Peer
<1>8. BuiltFirst'
  <2> SUFFICES ASSUME NEW c \in Groups(chassis'), c # Current PROVE FALSE
    BY <1>4 DEF BuiltFirst
  <2>1. c \in Groups(chassis)
    BY <1>2 DEF Groups
  <2> QED BY <2>1 DEF GroupInv, BuiltFirst
<1>9. Tally' /\ Sorting'
  BY DEF Tally, Sorting, Grouping
<1> QED BY <1>5, <1>6, <1>7, <1>8, <1>9

LEMMA PassGrouped ==
  ASSUME VoltaireInside, GroupInv, StartPass
  PROVE  OthersFiled' /\ OthersFree' /\ VoltaireBuilds' /\ BuiltFirst' /\ Tally' /\ Sorting'
<1>1. pc = "build" /\ UNCHANGED <<pc, rec, chassis, chassisOf, fabric>>
  BY DEF StartPass
<1>2. Sorted = {} /\ Sorted' = {} /\ Current' = Current
  BY <1>1 DEF Sorted, Current
<1>3. VoltaireBuilds'
  <2>1. ASSUME NEW e \in visits' PROVE Vendor[Peer(e)] = "VTR"
    <3>1. CASE pass' \in {1, 3}
      <4>1. PICK n \in LineBoards : e \in LinksIn(n, LinePorts(n))
        BY <3>1 DEF StartPass, Initialized
      <4>2. IsLine(n) /\ n \in Boards(Current)
        BY <4>1 DEF LineBoards, Boards, BoardsIn
      <4> QED BY <1>1, <4>1, <4>2, VoltaireBehind DEF GroupInv, OneBox, VoltaireBuilds
    <3>2. CASE pass' \notin {1, 3}
      <4>1. PICK n \in SpineBoards : e \in LinksIn(n, SpinePorts(n))
        BY <3>2 DEF StartPass, Initialized
      <4>2. IsSpine(n) /\ n \in Boards(Current)
        BY <1>1, <4>1 DEF SpineBoards, Boards, BoardsIn, GroupInv, OneBox, SpinesInside
      <4> QED BY <1>1, <4>1, <4>2, VoltaireBehind DEF GroupInv, OneBox, VoltaireBuilds
    <3> QED BY <3>1, <3>2
  <2>2. Boards(Current)' = Boards(Current)
    BY <1>1, <1>2 DEF Boards
  <2> QED BY <1>1, <2>1, <2>2 DEF GroupInv, VoltaireBuilds, Peer
<1>4. OthersFiled' /\ OthersFree' /\ BuiltFirst' /\ Tally' /\ Sorting'
  BY <1>1, <1>2 DEF GroupInv, OthersFiled, OthersFree, BuiltFirst, Tally, Sorting, Grouping
<1> QED BY <1>3, <1>4

LEMMA EndedGrouped ==
  ASSUME GroupInv, EndChassis
  PROVE  OthersFiled' /\ OthersFree' /\ VoltaireBuilds' /\ BuiltFirst' /\ Tally' /\ Sorting'
<1>1. /\ Current \in 1..Len(chassis) /\ Len(chassis') = Len(chassis)
      /\ \A c \in 1..Len(chassis) : c # Current => chassis'[c] = chassis[c]
      /\ chassis'[Current].guid.maker = "VTR"
  BY EndedTyped DEF GroupInv, OneBox
<1>2. pc = "build" /\ pc' = "search" /\ rec' = rec /\ chassisOf' = chassisOf
  BY DEF EndChassis
<1>3. Sorted = {} /\ Sorted' = {}
  BY <1>2 DEF Sorted
<1> HIDE DEF Current
<1>4. BuiltFirst'
  <2> SUFFICES ASSUME NEW c \in Groups(chassis') PROVE FALSE
    BY DEF BuiltFirst
  <2>1. c \in 1..Len(chassis) /\ c # Current
    BY <1>1 DEF Groups
  <2>2. c \in Groups(chassis)
    BY <1>1, <2>1 DEF Groups
  <2> QED BY <1>2, <2>1, <2>2 DEF GroupInv, BuiltFirst
<1>5. OthersFiled' /\ OthersFree' /\ VoltaireBuilds' /\ Tally' /\ Sorting'
  BY <1>2, <1>3 DEF GroupInv, OthersFiled, OthersFree, VoltaireBuilds, Tally, Sorting, Grouping
<1> QED BY <1>4, <1>5

------------------------------------------------------------------------------
LEMMA LoopGrouped ==
  ASSUME GroupInv, NextLoop
  PROVE  OthersFiled' /\ OthersFree' /\ VoltaireBuilds' /\ BuiltFirst' /\ Tally' /\ Sorting'
<1>1. /\ UNCHANGED <<fabric, rec, chassisOf, chassis, numbered>>
      /\ at' = 1 /\ at > Len(fabric.order)
      /\ \/ pc = "fill" /\ pc' = "search"
         \/ pc = "search" /\ pc' = "count"
         \/ pc = "count" /\ pc' = "group"
         \/ pc = "group" /\ pc' = "done"
  BY DEF NextLoop
<1>2. GuidOf' = GuidOf /\ Present' = Present
  BY <1>1, GuidsStay
<1>3. Ahead(fabric.order, 1) = {} /\ Ahead(fabric.order, at) = Present
  BY <1>1, AheadIs DEF GroupInv, OneBox
<1>4. Sorted' = Sorted
  BY <1>1, <1>2, <1>3 DEF Sorted
<1>5. OthersFiled' /\ OthersFree'
  BY <1>1, <1>4 DEF GroupInv, OthersFiled, OthersFree
<1>6. VoltaireBuilds' /\ BuiltFirst'
  BY <1>1 DEF GroupInv, VoltaireBuilds, BuiltFirst
<1>7. Tally' /\ Sorting'
  <2>1. CASE pc = "fill"
    BY <1>1, <2>1 DEF Tally, Sorting, Grouping
  <2>2. CASE pc = "search"
    <3>1. Groups(chassis) = {}
      BY <2>2 DEF GroupInv, BuiltFirst
    <3>2. Tallied' = {}
      BY <1>1, <1>3, <2>2 DEF Tallied
    <3>3. TallyOk(chassis, GuidOf, {})
      BY <3>1 DEF TallyOk
    <3>4. SortOk(chassis', GuidOf', Present', Sorted', chassisOf', rec')
      BY <1>1, <3>1 DEF SortOk
    <3> QED BY <1>1, <1>2, <3>2, <3>3, <3>4 DEF Tally, Sorting
  <2>3. CASE pc \in {"count", "group"}
    <3>1. Tallied' = Tallied
      BY <1>1, <1>2, <1>3, <2>3 DEF Tallied
    <3>2. Grouping
      BY <2>3 DEF Grouping
    <3> QED BY <1>1, <1>2, <1>4, <3>1, <3>2 DEF GroupInv, Tally, Sorting
  <2> QED BY <1>1, <2>1, <2>2, <2>3
<1> QED BY <1>5, <1>6, <1>7

LEMMA ByteIs ==
  ASSUME NEW i \in Nat, i < CharMod
  PROVE  Byte(i) = i
BY ChassisAssumption DEF Byte

\* The chassis with a node's GUID, if there is one.
LEMMA FoundNone ==
  ASSUME Typing, NEW n
  PROVE  Found(n) = 0 => \A c \in 1..Len(chassis) : chassis[c].guid # ChassisGuid(n)
<1> DEFINE same == {c \in 1..Len(chassis) : chassis[c].guid = ChassisGuid(n)}
<1>1. Len(chassis) \in Nat
  BY DEF Typing
<1>2. CASE same = {}
  BY <1>2
<1>3. CASE same # {}
  <2>1. same \in SUBSET Nat
    BY <1>1
  <2>2. PICK first \in same : \A d \in same : first <= d
    BY <1>3, <2>1, Smallest
  <2>3. (CHOOSE c \in same : \A d \in same : c <= d) \in same
    BY <2>2
  <2>4. Found(n) \in 1..Len(chassis)
    BY <1>1, <1>3, <2>3 DEF Found
  <2> QED BY <1>1, <2>4
<1> QED BY <1>2, <1>3

\* What the count of a node changes.
LEMMA CountParts ==
  ASSUME Typing, CountNode, Grouped(node), Found(node) # 0
  PROVE  /\ Found(node) \in 1..Len(chassis) /\ Len(chassis') = Len(chassis)
         /\ \A d \in 1..Len(chassis) : d # Found(node) => chassis'[d] = chassis[d]
         /\ chassis'[Found(node)].num = chassis[Found(node)].num
         /\ chassis'[Found(node)].nodes = chassis[Found(node)].nodes
         /\ chassis'[Found(node)].count = Byte(chassis[Found(node)].count + 1)
<1> DEFINE c == Found(node)
           b == Byte(chassis[c].count + 1)
           ch == [chassis[c] EXCEPT !.count = b]
<1>1. /\ chassis \in Seq(ChassisSet) /\ Len(chassis) \in Nat
      /\ chassis' = [chassis EXCEPT ![c].count = Byte(@ + 1)] /\ c \in 0..Len(chassis) /\ c # 0
  BY FoundIsOne DEF Typing, CountNode
<1> HIDE DEF c
<1>2. c \in 1..Len(chassis) /\ chassis[c] \in ChassisSet
  BY <1>1
<1>3. chassis' = [chassis EXCEPT ![c] = ch]
  BY <1>1, <1>2
<1> HIDE DEF b
<1>4. ch.num = chassis[c].num /\ ch.nodes = chassis[c].nodes /\ ch.count = b
  BY <1>2 DEF ChassisSet
<1> HIDE DEF ch
<1>5. Len(chassis') = Len(chassis) /\ chassis'[c] = ch
      /\ \A d \in 1..Len(chassis) : d # c => chassis'[d] = chassis[d]
  BY <1>1, <1>2, <1>3
<1>6. b = Byte(chassis[c].count + 1)
  BY DEF b
<1> QED BY <1>2, <1>4, <1>5, <1>6 DEF c

LEMMA NewGroupParts ==
  ASSUME Typing, CountNode, Grouped(node), Found(node) = 0
  PROVE  /\ Len(chassis') = Len(chassis) + 1
         /\ \A d \in 1..Len(chassis) : chassis'[d] = chassis[d]
         /\ chassis'[Len(chassis')].guid = ChassisGuid(node)
         /\ chassis'[Len(chassis')].num = 0
         /\ chassis'[Len(chassis')].nodes = {}
         /\ chassis'[Len(chassis')].count = 1
         /\ BoardsIn(chassis'[Len(chassis')]) = {}
<1> DEFINE ch == NewChassis(ChassisGuid(node), 0, 1, NoBoards)
<1>1. chassis \in Seq(ChassisSet) /\ Len(chassis) \in Nat /\ chassis' = Append(chassis, ch)
  BY DEF Typing, CountNode
<1>2. ch.guid = ChassisGuid(node) /\ ch.num = 0 /\ ch.nodes = {} /\ ch.count = 1
  BY DEF NewChassis
<1>3. BoardsIn(ch) = {}
  BY NoBoardsTyped DEF BoardsIn, NewChassis
<1> HIDE DEF ch
<1>4. /\ Len(chassis') = Len(chassis) + 1 /\ chassis'[Len(chassis')] = ch
      /\ \A d \in 1..Len(chassis) : chassis'[d] = chassis[d]
  BY <1>1
<1> QED BY <1>2, <1>3, <1>4

\* One more node of a set.
LEMMA OneMore ==
  ASSUME NEW S, IsFiniteSet(S), NEW n, n \notin S, NEW guid, NEW g,
         NEW T, T = S \cup {n}
  PROVE  /\ IsFiniteSet(SameAs(S, guid, g)) /\ Cardinality(SameAs(S, guid, g)) \in Nat
         /\ Grouped(n) /\ guid[n] = g =>
              Cardinality(SameAs(T, guid, g)) = Cardinality(SameAs(S, guid, g)) + 1
         /\ ~(Grouped(n) /\ guid[n] = g) => SameAs(T, guid, g) = SameAs(S, guid, g)
<1>1. SameAs(S, guid, g) \subseteq S
  BY DEF SameAs
<1>2. IsFiniteSet(SameAs(S, guid, g)) /\ n \notin SameAs(S, guid, g)
  BY <1>1, FS_Subset
<1>3. Cardinality(SameAs(S, guid, g)) \in Nat
  BY <1>2, FS_CardinalityType
<1>4. Cardinality(SameAs(S, guid, g) \cup {n}) = Cardinality(SameAs(S, guid, g)) + 1
  BY <1>2, FS_AddElement
<1>5. Grouped(n) /\ guid[n] = g => SameAs(T, guid, g) = SameAs(S, guid, g) \cup {n}
  BY DEF SameAs
<1>6. ~(Grouped(n) /\ guid[n] = g) => SameAs(T, guid, g) = SameAs(S, guid, g)
  BY DEF SameAs
<1> QED BY <1>2, <1>3, <1>4, <1>5, <1>6

\* The groups after one more node was counted: in no group, in one there was, in
\* a new one.
LEMMA TallyMore ==
  ASSUME NEW chs, NEW new, NEW guid, NEW S, NEW n, IsFiniteSet(S), n \notin S,
         NEW T, T = S \cup {n},
         TallyOk(chs, guid, S),
         \/ ~Grouped(n) /\ new = chs
         \/ /\ Grouped(n) /\ Len(new) = Len(chs)
            /\ \E c \in Groups(chs) :
                 /\ chs[c].guid = guid[n] /\ new[c].guid = chs[c].guid
                 /\ new[c].count = Byte(chs[c].count + 1)
                 /\ \A d \in 1..Len(chs) : d # c => new[d] = chs[d]
         \/ /\ Grouped(n) /\ Len(new) = Len(chs) + 1 /\ Len(chs) \in Nat
            /\ \A d \in 1..Len(chs) : new[d] = chs[d] /\ chs[d].guid # guid[n]
            /\ new[Len(chs) + 1].guid = guid[n] /\ guid[n].maker # "VTR"
            /\ new[Len(chs) + 1].count = 1
  PROVE  TallyOk(new, guid, T)
<1>1. CASE ~Grouped(n) /\ new = chs
  <2>1. \A g : SameAs(T, guid, g) = SameAs(S, guid, g)
    BY <1>1 DEF SameAs
  <2> QED BY <1>1, <2>1 DEF TallyOk
<1>2. CASE /\ Grouped(n) /\ Len(new) = Len(chs)
           /\ \E c \in Groups(chs) :
                /\ chs[c].guid = guid[n] /\ new[c].guid = chs[c].guid
                /\ new[c].count = Byte(chs[c].count + 1)
                /\ \A d \in 1..Len(chs) : d # c => new[d] = chs[d]
  <2>1. PICK c \in Groups(chs) :
                /\ chs[c].guid = guid[n] /\ new[c].guid = chs[c].guid
                /\ new[c].count = Byte(chs[c].count + 1)
                /\ \A d \in 1..Len(chs) : d # c => new[d] = chs[d]
    BY <1>2
  <2>2. \A d \in 1..Len(chs) : new[d].guid = chs[d].guid
    BY <2>1
  <2>3. Groups(new) = Groups(chs)
    BY <1>2, <2>2 DEF Groups
  <2>4. \A d, e \in Groups(new) : new[d].guid = new[e].guid => d = e
    BY <2>2, <2>3 DEF TallyOk, Groups
  <2>5. \A m \in T : Grouped(m) => \E d \in Groups(new) : new[d].guid = guid[m]
    <3>1. \A m \in S : Grouped(m) => \E d \in Groups(new) : new[d].guid = guid[m]
      BY <2>2, <2>3 DEF TallyOk, Groups
    <3> QED BY <2>1, <2>3, <3>1
  <2>6. ASSUME NEW d \in Groups(new), Cardinality(SameAs(T, guid, new[d].guid)) < CharMod
        PROVE  new[d].count = Cardinality(SameAs(T, guid, new[d].guid))
    <3>1. d \in Groups(chs) /\ d \in 1..Len(chs) /\ new[d].guid = chs[d].guid
      BY <2>2, <2>3 DEF Groups
    <3> DEFINE k == Cardinality(SameAs(S, guid, chs[d].guid))
    <3>2. k \in Nat /\ (k < CharMod => chs[d].count = k)
      BY <3>1, OneMore DEF TallyOk
    <3>3. CASE d = c
      <4>0. Cardinality(SameAs(T, guid, guid[n])) = Cardinality(SameAs(S, guid, guid[n])) + 1
        BY <1>2, OneMore
      <4>1. Cardinality(SameAs(T, guid, new[d].guid)) = k + 1
        BY <2>1, <3>1, <3>3, <4>0
      <4> HIDE DEF k
      <4>2. k + 1 < CharMod /\ CharMod \in Nat
        BY <2>6, <4>1, ChassisAssumption
      <4>3. chs[d].count = k /\ Byte(k + 1) = k + 1
        BY <3>2, <4>2, ByteIs
      <4> QED BY <2>1, <3>3, <4>1, <4>3
    <3>4. CASE d # c
      <4>1. chs[d].guid # guid[n]
        BY <2>1, <3>1, <3>4 DEF TallyOk
      <4>2. SameAs(T, guid, new[d].guid) = SameAs(S, guid, chs[d].guid)
        BY <3>1, <4>1, OneMore
      <4> QED BY <2>1, <2>6, <3>1, <3>2, <3>4, <4>2
    <3> QED BY <3>3, <3>4
  <2> QED BY <2>4, <2>5, <2>6 DEF TallyOk
<1>3. CASE /\ Grouped(n) /\ Len(new) = Len(chs) + 1 /\ Len(chs) \in Nat
           /\ \A d \in 1..Len(chs) : new[d] = chs[d] /\ chs[d].guid # guid[n]
           /\ new[Len(chs) + 1].guid = guid[n] /\ guid[n].maker # "VTR"
           /\ new[Len(chs) + 1].count = 1
  <2> DEFINE last == Len(chs) + 1
  <2>1. Groups(new) = Groups(chs) \cup {last} /\ last \notin 1..Len(chs)
    BY <1>3 DEF Groups
  <2>2. \A d \in Groups(chs) : new[d] = chs[d] /\ chs[d].guid # guid[n]
    BY <1>3 DEF Groups
  <2>3. new[last].guid = guid[n] /\ new[last].count = 1
    BY <1>3
  <2> HIDE DEF last
  <2>4. \A d, e \in Groups(new) : new[d].guid = new[e].guid => d = e
    BY <2>1, <2>2, <2>3 DEF TallyOk
  <2>5. \A m \in T : Grouped(m) => \E d \in Groups(new) : new[d].guid = guid[m]
    BY <2>1, <2>2, <2>3 DEF TallyOk
  <2>6. ASSUME NEW d \in Groups(new), Cardinality(SameAs(T, guid, new[d].guid)) < CharMod
        PROVE  new[d].count = Cardinality(SameAs(T, guid, new[d].guid))
    <3>1. CASE d = last
      <4>1. SameAs(S, guid, guid[n]) = {}
        BY <2>2 DEF TallyOk, SameAs
      <4>2. SameAs(T, guid, guid[n]) = {n}
        <5>1. SameAs(T, guid, guid[n]) = SameAs(S, guid, guid[n]) \cup {n}
          BY <1>3 DEF SameAs
        <5> QED BY <4>1, <5>1
      <4> QED BY <2>3, <3>1, <4>2, FS_Singleton
    <3>2. CASE d # last
      <4>1. d \in Groups(chs) /\ new[d] = chs[d] /\ chs[d].guid # guid[n]
        BY <2>1, <2>2, <3>2
      <4>2. SameAs(T, guid, chs[d].guid) = SameAs(S, guid, chs[d].guid)
        BY <4>1, OneMore
      <4> QED BY <2>6, <4>1, <4>2 DEF TallyOk
    <3> QED BY <3>1, <3>2
  <2> QED BY <2>4, <2>5, <2>6 DEF TallyOk
<1> QED BY <1>1, <1>2, <1>3

LEMMA CountedGrouped ==
  ASSUME GroupInv, CountNode
  PROVE  OthersFiled' /\ OthersFree' /\ VoltaireBuilds' /\ BuiltFirst' /\ Tally' /\ Sorting'
<1>1. /\ Typing /\ pc = "count" /\ pc' = "count" /\ at' = at + 1 /\ at <= Len(fabric.order)
      /\ UNCHANGED <<fabric, rec, chassisOf, numbered>> /\ node \in Nodes
  BY NodeTyped DEF GroupInv, OneBox, CountNode, Turn
<1>2. GuidOf' = GuidOf /\ Present' = Present /\ Sorted = {} /\ Sorted' = {}
  BY <1>1, GuidsStay DEF Sorted
<1>3. OthersFiled' /\ OthersFree' /\ VoltaireBuilds' /\ BuiltFirst'
  BY <1>1, <1>2 DEF GroupInv, OthersFiled, OthersFree, VoltaireBuilds, BuiltFirst
<1>4. /\ Tallied' = Tallied \cup {node} /\ node \notin Tallied /\ IsFiniteSet(Tallied)
  <2>1. /\ Ahead(fabric.order, at + 1) = Ahead(fabric.order, at) \cup {node}
        /\ node \notin Ahead(fabric.order, at)
        /\ IsFiniteSet(Present) /\ Ahead(fabric.order, at) \subseteq Present
    BY <1>1, AheadIs
  <2>2. Tallied = Ahead(fabric.order, at) /\ Tallied' = Ahead(fabric.order, at + 1)
    BY <1>1 DEF Tallied
  <2> QED BY <2>1, <2>2, FS_Subset
<1>5. TallyOk(chassis, GuidOf, Tallied) /\ Grouping /\ Grouping'
  BY <1>1 DEF GroupInv, Tally, Grouping
<1>6. /\ Len(chassis) \in Nat
      /\ \A c \in 1..Len(chassis) : /\ chassis'[c].guid = chassis[c].guid
                                    /\ BoardsIn(chassis'[c]) = BoardsIn(chassis[c])
  BY <1>1, CountedTyped DEF Typing
<1>7. Grouped(node) => GuidOf[node] = ChassisGuid(node) /\ ChassisGuid(node).maker # "VTR"
  BY <1>1, OtherGuid
<1>8. TallyOk(chassis', GuidOf, Tallied \cup {node})
  <2>1. CASE ~Grouped(node)
    <3>1. chassis' = chassis
      BY <2>1 DEF CountNode
    <3> QED BY <1>4, <1>5, <2>1, <3>1, TallyMore
  <2>2. CASE Grouped(node) /\ Found(node) # 0
    <3> DEFINE c == Found(node)
    <3>1. /\ c \in 1..Len(chassis) /\ Len(chassis') = Len(chassis)
          /\ \A d \in 1..Len(chassis) : d # c => chassis'[d] = chassis[d]
          /\ chassis'[c].count = Byte(chassis[c].count + 1)
          /\ chassis[c].guid = ChassisGuid(node)
      BY <1>1, <2>2, CountParts, FoundIsOne
    <3> HIDE DEF c
    <3>2. c \in Groups(chassis) /\ chassis[c].guid = GuidOf[node] /\ chassis'[c].guid = chassis[c].guid
      BY <1>6, <1>7, <2>2, <3>1 DEF Groups
    <3> HIDE DEF node
    <3> QED BY <1>4, <1>5, <2>2, <3>1, <3>2, TallyMore
  <2>3. CASE Grouped(node) /\ Found(node) = 0
    <3>1. /\ Len(chassis') = Len(chassis) + 1
          /\ \A d \in 1..Len(chassis) : chassis'[d] = chassis[d] /\ chassis[d].guid # ChassisGuid(node)
          /\ chassis'[Len(chassis) + 1].guid = ChassisGuid(node)
          /\ chassis'[Len(chassis) + 1].count = 1
      BY <1>1, <2>3, NewGroupParts, FoundNone
    <3>2. /\ \A d \in 1..Len(chassis) : chassis'[d] = chassis[d] /\ chassis[d].guid # GuidOf[node]
          /\ chassis'[Len(chassis) + 1].guid = GuidOf[node] /\ GuidOf[node].maker # "VTR"
      BY <1>7, <2>3, <3>1
    <3> HIDE DEF node
    <3> QED BY <1>4, <1>5, <1>6, <2>3, <3>1, <3>2, TallyMore
  <2> QED BY <2>1, <2>2, <2>3
<1>9. Sorting'
  <2> SUFFICES ASSUME numbered < CharMod, NEW c \in Groups(chassis')
               PROVE  GroupOk(chassis'[c], c, SameAs(Present, GuidOf, chassis'[c].guid),
                              SameAs({}, GuidOf, chassis'[c].guid), chassisOf, rec)
    BY <1>1, <1>2 DEF Sorting, SortOk
  <2>1. ASSUME BoardsIn(chassis'[c]) = {}, 
               Cardinality(SameAs(Present, GuidOf, chassis'[c].guid)) < CharMod =>
                 chassis'[c].num = 0 /\ chassis'[c].nodes = {}
        PROVE  GroupOk(chassis'[c], c, SameAs(Present, GuidOf, chassis'[c].guid),
                              SameAs({}, GuidOf, chassis'[c].guid), chassisOf, rec)
    <3>1. SameAs({}, GuidOf, chassis'[c].guid) = {}
      BY DEF SameAs
    <3> QED BY <2>1, <3>1 DEF GroupOk
  <2>2. CASE c \in 1..Len(chassis)
    <3>1. c \in Groups(chassis)
      BY <1>6, <2>2 DEF Groups
    <3>2. GroupOk(chassis[c], c, SameAs(Present, GuidOf, chassis[c].guid),
                  SameAs({}, GuidOf, chassis[c].guid), chassisOf, rec)
      BY <1>2, <1>5, <3>1 DEF GroupInv, Sorting, SortOk
    <3>3. BoardsIn(chassis[c]) = {}
      BY <3>2 DEF GroupOk, SameAs
    <3>4. Cardinality(SameAs(Present, GuidOf, chassis[c].guid)) < CharMod =>
            chassis[c].num = 0 /\ chassis[c].nodes = {}
      <4>1. SameAs({}, GuidOf, chassis[c].guid) = {}
        BY DEF SameAs
      <4> QED BY <3>2, <4>1 DEF GroupOk
    <3>5. chassis'[c].num = chassis[c].num /\ chassis'[c].nodes = chassis[c].nodes
      <4>1. CASE ~Grouped(node)
        BY <4>1 DEF CountNode
      <4>2. CASE Grouped(node) /\ Found(node) # 0
        BY <1>1, <2>2, <4>2, CountParts
      <4>3. CASE Grouped(node) /\ Found(node) = 0
        BY <1>1, <2>2, <4>3, NewGroupParts
      <4> QED BY <4>1, <4>2, <4>3
    <3> HIDE DEF node
    <3> QED BY <1>6, <2>1, <2>2, <3>3, <3>4, <3>5
  <2>3. CASE c \notin 1..Len(chassis)
    <3>1. Grouped(node) /\ Found(node) = 0 /\ c = Len(chassis')
      <4>1. c \in 1..Len(chassis')
        BY DEF Groups
      <4>2. CASE ~Grouped(node)
        BY <2>3, <4>1, <4>2 DEF CountNode
      <4>3. CASE Grouped(node) /\ Found(node) # 0
        BY <1>1, <2>3, <4>1, <4>3, CountParts
      <4>4. CASE Grouped(node) /\ Found(node) = 0
        <5>1. Len(chassis') = Len(chassis) + 1
          BY <1>1, <4>4, NewGroupParts
        <5> QED BY <1>6, <2>3, <4>1, <4>4, <5>1
      <4> QED BY <4>2, <4>3, <4>4
    <3>2. BoardsIn(chassis'[c]) = {} /\ chassis'[c].num = 0 /\ chassis'[c].nodes = {}
      BY <1>1, <3>1, NewGroupParts
    <3> QED BY <2>1, <3>2
  <2> QED BY <2>2, <2>3
<1>10. Tally'
  BY <1>2, <1>4, <1>8 DEF Tally
<1> QED BY <1>3, <1>9, <1>10

------------------------------------------------------------------------------
\* What the last loop does to the chassis c of a node.
Numbered(ch, num, new) ==
  new.num = IF ch.num = 0 THEN Byte(num + 1) ELSE ch.num

LEMMA GroupParts ==
  ASSUME Typing, GroupNode
  PROVE  /\ ~(Grouped(node) /\ Found(node) # 0 /\ IsChassis(Found(node))) =>
              UNCHANGED <<rec, chassisOf, chassis, numbered>>
         /\ Grouped(node) /\ Found(node) # 0 /\ IsChassis(Found(node)) =>
              LET c == Found(node)
                  side == rec[node].side
                  slot == rec[node].slot
              IN  /\ c \in 1..Len(chassis) /\ Len(chassis') = Len(chassis)
                  /\ \A d \in 1..Len(chassis) : d # c => chassis'[d] = chassis[d]
                  /\ numbered' = IF chassis[c].num = 0 THEN numbered + 1 ELSE numbered
                  /\ Numbered(chassis[c], numbered, chassis'[c])
                  /\ chassis'[c].guid = chassis[c].guid /\ chassis'[c].count = chassis[c].count
                  /\ \/ /\ ~rec[node].found
                        /\ rec' = [rec EXCEPT ![node].found = TRUE]
                        /\ chassisOf' = [chassisOf EXCEPT ![node] = c]
                        /\ chassis'[c].nodes = chassis[c].nodes \cup {node}
                        /\ SameSlots(chassis[c], chassis'[c])
                     \/ /\ rec[node].found /\ Vendor[node] = "MLX" /\ side \in {"line", "spine"}
                        /\ slot \notin DOMAIN chassis[c][side]
                        /\ rec' = rec
                        /\ chassisOf' = [chassisOf EXCEPT ![node] = c]
                        /\ chassis'[c].nodes = chassis[c].nodes
                        /\ MoreSlots(chassis[c], chassis'[c], side, slot, node)
                     \/ /\ rec[node].found
                        /\ ~(Vendor[node] = "MLX" /\ side \in {"line", "spine"}
                             /\ slot \notin DOMAIN chassis[c][side])
                        /\ rec' = rec /\ chassisOf' = chassisOf
                        /\ chassis'[c].nodes = chassis[c].nodes
                        /\ SameSlots(chassis[c], chassis'[c])
<1> DEFINE c == Found(node)
           num == IF chassis[c].num = 0 THEN Byte(numbered + 1) ELSE chassis[c].num
           numberedChassis == [chassis EXCEPT ![c].num = num]
           side == rec[node].side
           slot == rec[node].slot
           Kept == /\ Len(chassis') = Len(chassis)
                   /\ \A d \in 1..Len(chassis) : d # c => chassis'[d] = chassis[d]
                   /\ Numbered(chassis[c], numbered, chassis'[c])
                   /\ chassis'[c].guid = chassis[c].guid /\ chassis'[c].count = chassis[c].count
<1>1. /\ node \in Nodes /\ Len(chassis) \in Nat /\ chassis \in Seq(ChassisSet)
      /\ rec \in [Nodes -> Positions] /\ c \in 0..Len(chassis)
  BY NodeTyped, FoundIsOne DEF Typing, GroupNode, Turn
<1> HIDE DEF c
<1>2. CASE ~(Grouped(node) /\ c # 0 /\ IsChassis(c))
  BY <1>2 DEF GroupNode, c
<1>3. CASE Grouped(node) /\ c # 0 /\ IsChassis(c)
  <2>1. c \in 1..Len(chassis) /\ chassis[c] \in ChassisSet
    BY <1>1, <1>3
  <2>2. num = IF chassis[c].num = 0 THEN Byte(numbered + 1) ELSE chassis[c].num
    OBVIOUS
  <2> HIDE DEF num
  <2> DEFINE ch == [chassis[c] EXCEPT !.num = num]
  <2>3. /\ DOMAIN ch = DOMAIN chassis[c] /\ ch.num = num
        /\ ch.guid = chassis[c].guid /\ ch.count = chassis[c].count
        /\ ch.line = chassis[c].line /\ ch.spine = chassis[c].spine /\ ch.nodes = chassis[c].nodes
    BY <2>1 DEF ChassisSet
  <2>4. numberedChassis = [chassis EXCEPT ![c] = ch]
    BY <1>1, <2>1
  <2> HIDE DEF ch, numberedChassis
  <2>5. /\ Len(numberedChassis) = Len(chassis) /\ DOMAIN numberedChassis = 1..Len(chassis)
        /\ numberedChassis[c] = ch
        /\ \A d \in 1..Len(chassis) : d # c => numberedChassis[d] = chassis[d]
    BY <1>1, <2>1, <2>4
  <2>6. numbered' = IF chassis[c].num = 0 THEN numbered + 1 ELSE numbered
    BY <1>3 DEF GroupNode, c
  <2>7. ASSUME NEW new, new.num = ch.num, new.guid = ch.guid, new.count = ch.count,
               chassis' = [numberedChassis EXCEPT ![c] = new]
        PROVE  Kept /\ chassis'[c] = new
    <3>1. Len(chassis') = Len(chassis) /\ chassis'[c] = new
          /\ \A d \in 1..Len(chassis) : d # c => chassis'[d] = chassis[d]
      BY <1>1, <2>1, <2>4, <2>5, <2>7
    <3> QED BY <2>2, <2>3, <2>7, <3>1 DEF Numbered
  <2>8. CASE ~rec[node].found
    <3> DEFINE more == [ch EXCEPT !.nodes = @ \cup {node}]
    <3>1. /\ rec' = [rec EXCEPT ![node].found = TRUE]
          /\ chassis' = [numberedChassis EXCEPT ![c].nodes = @ \cup {node}]
          /\ chassisOf' = [chassisOf EXCEPT ![node] = c]
      BY <1>3, <2>8 DEF GroupNode, c, numberedChassis, num
    <3>2. /\ more.num = ch.num /\ more.guid = ch.guid /\ more.count = ch.count
          /\ more.line = ch.line /\ more.spine = ch.spine /\ more.nodes = ch.nodes \cup {node}
      BY <2>1, <2>3 DEF ChassisSet
    <3>3. chassis' = [numberedChassis EXCEPT ![c] = more]
      BY <2>1, <2>5, <3>1
    <3> HIDE DEF more
    <3>4. Kept /\ chassis'[c] = more
      BY <2>7, <3>2, <3>3
    <3>5. chassis'[c].nodes = chassis[c].nodes \cup {node} /\ SameSlots(chassis[c], chassis'[c])
      BY <2>3, <3>2, <3>4 DEF SameSlots
    <3> HIDE DEF Kept
    <3> QED BY <1>3, <2>1, <2>6, <2>8, <3>1, <3>4, <3>5 DEF c, Kept
  <2>9. CASE /\ rec[node].found /\ Vendor[node] = "MLX" /\ side \in {"line", "spine"}
             /\ slot \notin DOMAIN chassis[c][side]
    <3> DEFINE put == Put(ch, side, slot, node)
    <3>1. /\ rec' = rec
          /\ chassis' = [numberedChassis EXCEPT ![c][side] = WithBoard(@, slot, node)]
          /\ chassisOf' = [chassisOf EXCEPT ![node] = c]
      BY <1>3, <2>9 DEF GroupNode, c, numberedChassis, num
    <3>2. /\ put.num = ch.num /\ put.guid = ch.guid /\ put.count = ch.count
          /\ put.nodes = ch.nodes
      BY <2>1, <2>3, <2>9 DEF Put, ChassisSet
    <3>3. MoreSlots(chassis[c], put, side, slot, node)
      <4>1. CASE side = "line"
        <5>1. put.line = WithBoard(ch.line, slot, node) /\ put.spine = ch.spine
          BY <2>1, <2>3, <4>1 DEF Put, ChassisSet
        <5> QED BY <2>3, <4>1, <5>1 DEF MoreSlots
      <4>2. CASE side = "spine"
        <5>1. put.spine = WithBoard(ch.spine, slot, node) /\ put.line = ch.line
          BY <2>1, <2>3, <4>2 DEF Put, ChassisSet
        <5> QED BY <2>3, <4>2, <5>1 DEF MoreSlots
      <4> QED BY <2>9, <4>1, <4>2
    <3>4. chassis' = [numberedChassis EXCEPT ![c] = put]
      BY <2>1, <2>5, <3>1 DEF Put
    <3> HIDE DEF put
    <3>5. Kept /\ chassis'[c] = put
      BY <2>7, <3>2, <3>4
    <3>6. chassis'[c].nodes = chassis[c].nodes /\ MoreSlots(chassis[c], chassis'[c], side, slot, node)
      BY <2>3, <3>2, <3>3, <3>5
    <3> HIDE DEF Kept
    <3> QED BY <1>3, <2>1, <2>6, <2>9, <3>1, <3>5, <3>6 DEF c, Kept
  <2>10. CASE /\ rec[node].found
              /\ ~(Vendor[node] = "MLX" /\ side \in {"line", "spine"}
                   /\ slot \notin DOMAIN chassis[c][side])
    <3>1. chassis' = numberedChassis /\ UNCHANGED <<rec, chassisOf>>
      BY <1>3, <2>10 DEF GroupNode, c, numberedChassis, num
    <3>2. Kept /\ chassis'[c] = ch
      BY <2>2, <2>3, <2>5, <3>1 DEF Numbered
    <3>3. chassis'[c].nodes = chassis[c].nodes /\ SameSlots(chassis[c], chassis'[c])
      BY <2>3, <3>2 DEF SameSlots
    <3> HIDE DEF Kept
    <3> QED BY <1>3, <2>1, <2>6, <2>10, <3>1, <3>2, <3>3 DEF c, Kept
  <2> QED BY <2>8, <2>9, <2>10
<1> QED BY <1>2, <1>3 DEF c

\* Two states in which the nodes of past are sorted alike.
SortedAlike(past, of, r, new, r2) ==
  \A m \in past : new[m] = of[m] /\ r2[m].side = r[m].side /\ r2[m].slot = r[m].slot

OneMoreIn(T, S, n) == n \notin S /\ T = S \cup {n}

\* Node n was sorted into chassis to, the c-th, which was ch: it is no board; its slot
\* was free; its slot was taken.
SortedInto(ch, to, c, n, of, q) ==
  \/ /\ q.side = "none" /\ of[n] = c
     /\ to.nodes = ch.nodes \cup {n} /\ SameSlots(ch, to)
  \/ /\ q.side \in {"line", "spine"} /\ of[n] = c
     /\ q.slot \notin DOMAIN ch[q.side]
     /\ to.nodes = ch.nodes /\ MoreSlots(ch, to, q.side, q.slot, n)
  \/ /\ q.side \in {"line", "spine"} /\ of[n] = 0
     /\ q.slot \in DOMAIN ch[q.side]
     /\ to.nodes = ch.nodes /\ SameSlots(ch, to)

\* A chassis of other nodes than the one that is sorted.
LEMMA GroupStays ==
  ASSUME NEW ch, NEW c, NEW same, NEW past, NEW of, NEW r, NEW new, NEW r2,
         GroupOk(ch, c, same, past, of, r), SortedAlike(past, of, r, new, r2)
  PROVE  GroupOk(ch, c, same, past, new, r2)
<1>1. \A m \in past : \A slots :
        HasSlot(slots, r2[m].slot, m, c, new) <=> HasSlot(slots, r[m].slot, m, c, of)
  BY DEF HasSlot, SortedAlike
<1>2. {m \in past : r2[m].side = "none"} = {m \in past : r[m].side = "none"}
  BY DEF SortedAlike
<1> QED BY <1>1, <1>2 DEF GroupOk, SortedAlike

\* A node without a fellow is sorted into no chassis.
LEMMA GroupAlone ==
  ASSUME NEW ch, NEW c, NEW same, NEW past, NEW n, NEW T, OneMoreIn(T, past, n),
         NEW of, NEW new, NEW r, NEW r2,
         GroupOk(ch, c, same, past, of, r), SortedAlike(past, of, r, new, r2),
         Cardinality(same) < CharMod => Cardinality(same) < 2, new[n] = 0
  PROVE  GroupOk(ch, c, same, T, new, r2)
BY DEF GroupOk, OneMoreIn, SortedAlike

\* A chassis with one more of its nodes sorted.
LEMMA GroupMore ==
  ASSUME NEW ch \in ChassisSet, NEW to, NEW c, NEW same, NEW past, NEW n, NEW T,
         OneMoreIn(T, past, n), NEW of, NEW new, NEW r, NEW r2,
         GroupOk(ch, c, same, past, of, r), SortedAlike(past, of, r, new, r2),
         ~(Cardinality(same) < 2), Cardinality(same) < CharMod => to.num # 0,
         SortedInto(ch, to, c, n, new, r2[n])
  PROVE  GroupOk(to, c, same, T, new, r2)
<1>1. n \notin past /\ T = past \cup {n}
  BY DEF OneMoreIn
<1>2. BoardsIn(ch) \subseteq past
  BY DEF GroupOk
<1>3. GroupOk(ch, c, same, past, new, r2)
  BY GroupStays
<1>4. ASSUME Cardinality(same) < CharMod
      PROVE  /\ ch.nodes = {m \in past : r2[m].side = "none"}
             /\ \A m \in past :
                  /\ r2[m].side = "none" => new[m] = c
                  /\ r2[m].side = "line" => HasSlot(ch.line, r2[m].slot, m, c, new)
                  /\ r2[m].side = "spine" => HasSlot(ch.spine, r2[m].slot, m, c, new)
  <2>1. CASE past = {}
    BY <1>3, <1>4, <2>1 DEF GroupOk
  <2>2. CASE past # {}
    BY <1>3, <1>4, <2>2 DEF GroupOk
  <2> QED BY <2>1, <2>2
<1>5. CASE /\ r2[n].side = "none" /\ new[n] = c
           /\ to.nodes = ch.nodes \cup {n} /\ SameSlots(ch, to)
  <2>1. BoardsIn(to) \subseteq T
    BY <1>1, <1>2, <1>5 DEF SameSlots, BoardsIn
  <2> QED BY <1>1, <1>4, <1>5, <2>1 DEF GroupOk, SameSlots
<1>6. CASE /\ r2[n].side \in {"line", "spine"} /\ new[n] = 0
           /\ r2[n].slot \in DOMAIN ch[r2[n].side]
           /\ to.nodes = ch.nodes /\ SameSlots(ch, to)
  <2>1. BoardsIn(to) \subseteq T
    BY <1>1, <1>2, <1>6 DEF SameSlots, BoardsIn
  <2>2. ch[r2[n].side][r2[n].slot] # n
    BY <1>1, <1>2, <1>6 DEF BoardsIn
  <2>3. /\ r2[n].side = "line" => HasSlot(ch.line, r2[n].slot, n, c, new)
        /\ r2[n].side = "spine" => HasSlot(ch.spine, r2[n].slot, n, c, new)
    BY <1>6, <2>2 DEF HasSlot
  <2> QED BY <1>1, <1>4, <1>6, <2>1, <2>3 DEF GroupOk, SameSlots
<1>7. CASE /\ r2[n].side \in {"line", "spine"} /\ new[n] = c
           /\ r2[n].slot \notin DOMAIN ch[r2[n].side]
           /\ to.nodes = ch.nodes /\ MoreSlots(ch, to, r2[n].side, r2[n].slot, n)
  <2> DEFINE i == r2[n].slot
  <2>1. /\ DOMAIN WithBoard(ch.line, i, n) = DOMAIN ch.line \cup {i}
        /\ DOMAIN WithBoard(ch.spine, i, n) = DOMAIN ch.spine \cup {i}
        /\ \A j \in DOMAIN ch.line \cup {i} :
             WithBoard(ch.line, i, n)[j] = IF j = i THEN n ELSE ch.line[j]
        /\ \A j \in DOMAIN ch.spine \cup {i} :
             WithBoard(ch.spine, i, n)[j] = IF j = i THEN n ELSE ch.spine[j]
    BY DEF WithBoard
  <2>2. \/ /\ r2[n].side = "line" /\ i \notin DOMAIN ch.line
           /\ to.line = WithBoard(ch.line, i, n) /\ to.spine = ch.spine
        \/ /\ r2[n].side = "spine" /\ i \notin DOMAIN ch.spine
           /\ to.spine = WithBoard(ch.spine, i, n) /\ to.line = ch.line
    BY <1>7 DEF MoreSlots
  <2>3. BoardsIn(to) \subseteq T
    BY <1>1, <1>2, <2>1, <2>2 DEF BoardsIn
  <2> HIDE DEF i
  <2>4. \A j \in DOMAIN ch.line : j \in DOMAIN to.line /\ to.line[j] = ch.line[j]
    BY <2>1, <2>2
  <2>5. \A j \in DOMAIN ch.spine : j \in DOMAIN to.spine /\ to.spine[j] = ch.spine[j]
    BY <2>1, <2>2
  <2>6. /\ r2[n].side = "line" => i \in DOMAIN to.line /\ to.line[i] = n
        /\ r2[n].side = "spine" => i \in DOMAIN to.spine /\ to.spine[i] = n
    BY <2>1, <2>2
  <2>7. /\ r2[n].side = "line" => HasSlot(to.line, r2[n].slot, n, c, new)
        /\ r2[n].side = "spine" => HasSlot(to.spine, r2[n].slot, n, c, new)
    BY <1>7, <2>6 DEF HasSlot, i
  <2>8. ASSUME Cardinality(same) < CharMod, NEW m \in past
        PROVE  /\ r2[m].side = "line" => HasSlot(to.line, r2[m].slot, m, c, new)
               /\ r2[m].side = "spine" => HasSlot(to.spine, r2[m].slot, m, c, new)
    BY <1>4, <2>4, <2>5, <2>8 DEF HasSlot
  <2> QED BY <1>1, <1>4, <1>7, <2>3, <2>7, <2>8 DEF GroupOk
<1> QED BY <1>5, <1>6, <1>7 DEF SortedInto

LEMMA SortedGrouped ==
  ASSUME GroupInv, GroupNode
  PROVE  OthersFiled' /\ OthersFree' /\ VoltaireBuilds' /\ BuiltFirst' /\ Tally' /\ Sorting'
<1> DEFINE n == node
<1>1. /\ Typing /\ pc = "group" /\ pc' = "group" /\ at' = at + 1 /\ at <= Len(fabric.order)
      /\ fabric' = fabric /\ n \in Nodes /\ rec \in [Nodes -> Positions]
      /\ chassisOf \in [Nodes -> Nat] /\ chassis \in Seq(ChassisSet) /\ Len(chassis) \in Nat
      /\ numbered \in Nat /\ numbered' \in Nat
  BY NodeTyped, GroupNodeParts DEF GroupInv, OneBox, Typing, GroupNode, Turn
<1>2. GuidOf' = GuidOf /\ Present' = Present /\ Tallied = Present /\ Tallied' = Present
  BY <1>1, GuidsStay DEF Tallied
<1>3. /\ Sorted' = Sorted \cup {n} /\ n \notin Sorted
      /\ Sorted \subseteq Present /\ n \in Present /\ IsFiniteSet(Present)
  <2>1. /\ Ahead(fabric.order, at + 1) = Ahead(fabric.order, at) \cup {n}
        /\ n \notin Ahead(fabric.order, at) /\ n \in Present
        /\ IsFiniteSet(Present) /\ Ahead(fabric.order, at) \subseteq Present
    BY <1>1, AheadIs
  <2>2. Sorted = Ahead(fabric.order, at) /\ Sorted' = Ahead(fabric.order, at + 1)
    BY <1>1 DEF Sorted
  <2> QED BY <2>1, <2>2
<1>4. TallyOk(chassis, GuidOf, Present) /\ Grouping
  BY <1>1, <1>2 DEF GroupInv, Tally, Grouping
<1> DEFINE c == Found(n)
           joins == Grouped(n) /\ c # 0 /\ IsChassis(c)
           side == rec[n].side
           slot == rec[n].slot
           InList == /\ ~rec[n].found
                     /\ rec' = [rec EXCEPT ![n].found = TRUE]
                     /\ chassisOf' = [chassisOf EXCEPT ![n] = c]
                     /\ chassis'[c].nodes = chassis[c].nodes \cup {n}
                     /\ SameSlots(chassis[c], chassis'[c])
           InSlot == /\ rec[n].found /\ Vendor[n] = "MLX" /\ side \in {"line", "spine"}
                     /\ slot \notin DOMAIN chassis[c][side]
                     /\ rec' = rec
                     /\ chassisOf' = [chassisOf EXCEPT ![n] = c]
                     /\ chassis'[c].nodes = chassis[c].nodes
                     /\ MoreSlots(chassis[c], chassis'[c], side, slot, n)
           Nowhere == /\ rec[n].found
                      /\ ~(Vendor[n] = "MLX" /\ side \in {"line", "spine"}
                           /\ slot \notin DOMAIN chassis[c][side])
                      /\ rec' = rec /\ chassisOf' = chassisOf
                      /\ chassis'[c].nodes = chassis[c].nodes
                      /\ SameSlots(chassis[c], chassis'[c])
<1>5. ~joins => UNCHANGED <<rec, chassisOf, chassis, numbered>>
  BY <1>1, GroupParts
<1>6. joins => /\ c \in 1..Len(chassis) /\ Len(chassis') = Len(chassis)
               /\ \A d \in 1..Len(chassis) : d # c => chassis'[d] = chassis[d]
               /\ numbered' = IF chassis[c].num = 0 THEN numbered + 1 ELSE numbered
               /\ Numbered(chassis[c], numbered, chassis'[c])
               /\ chassis'[c].guid = chassis[c].guid /\ chassis'[c].count = chassis[c].count
               /\ InList \/ InSlot \/ Nowhere
  BY <1>1, GroupParts
<1>7. c # 0 => c \in 1..Len(chassis) /\ chassis[c].guid = ChassisGuid(n)
  BY <1>1, FoundIsOne
<1>8. c = 0 => \A d \in 1..Len(chassis) : chassis[d].guid # ChassisGuid(n)
  BY <1>1, FoundNone
<1>9. IsChassis(c) <=> chassis[c].count > 1
  BY DEF IsChassis
<1>10. Grouped(n) => GuidOf[n] = ChassisGuid(n) /\ ChassisGuid(n).maker # "VTR" /\ Vendor[n] # "VTR"
  BY <1>1, OtherGuid DEF Grouped
<1> HIDE DEF n, c
<1>11. \A m \in Nodes : /\ rec'[m].side = rec[m].side /\ rec'[m].slot = rec[m].slot
                        /\ rec'[m].found => rec[m].found \/ m = n
                        /\ rec[m].found => rec'[m].found
                        /\ m # n => chassisOf'[m] = chassisOf[m]
  <2>1. CASE ~joins
    BY <1>5, <2>1
  <2>2. CASE joins
    <3>1. CASE InList
      <4> DEFINE r == [rec[n] EXCEPT !.found = TRUE]
      <4>1. r.side = rec[n].side /\ r.slot = rec[n].slot /\ r.found
        BY <1>1 DEF Positions
      <4>2. rec' = [rec EXCEPT ![n] = r] /\ chassisOf' = [chassisOf EXCEPT ![n] = c]
        BY <3>1
      <4> HIDE DEF r
      <4>3. \A m \in Nodes : rec'[m] = IF m = n THEN r ELSE rec[m]
        BY <1>1, <4>2
      <4>4. \A m \in Nodes : m # n => chassisOf'[m] = chassisOf[m]
        BY <1>1, <4>2
      <4> HIDE DEF InList
      <4> QED BY <4>1, <4>3, <4>4
    <3>2. CASE InSlot
      <4>1. rec' = rec /\ chassisOf' = [chassisOf EXCEPT ![n] = c]
        BY <3>2
      <4> QED BY <1>1, <4>1
    <3>3. CASE Nowhere
      <4>1. rec' = rec /\ chassisOf' = chassisOf
        BY <3>3
      <4> QED BY <4>1
    <3> QED BY <1>6, <2>2, <3>1, <3>2, <3>3
  <2> QED BY <2>1, <2>2
<1>12. OthersFiled' /\ OthersFree'
  <2>1. OthersFiled'
    <3> SUFFICES ASSUME NEW m \in Nodes, Vendor[m] # "VTR"
                 PROVE  OtherFiled(rec'[m], m, Sorted')
      BY DEF OthersFiled
    <3>1. OtherFiled(rec[m], m, Sorted)
      BY DEF GroupInv, OthersFiled
    <3>2. /\ rec'[m].side = rec[m].side
          /\ rec'[m].found => rec[m].found \/ m = n
          /\ rec[m].found => rec'[m].found
      BY <1>11
    <3> QED BY <1>3, <3>1, <3>2 DEF OtherFiled
  <2>2. OthersFree'
    <3> SUFFICES ASSUME NEW m \in Nodes, Vendor[m] # "VTR", m \notin Sorted'
                 PROVE  chassisOf'[m] = 0
      BY DEF OthersFree
    <3>1. m # n /\ m \notin Sorted
      BY <1>3
    <3> QED BY <1>1, <1>11, <3>1 DEF GroupInv, OthersFree
  <2> QED BY <2>1, <2>2
<1>13. VoltaireBuilds' /\ BuiltFirst'
  BY <1>1 DEF VoltaireBuilds, BuiltFirst
<1>14. /\ Len(chassis') = Len(chassis)
       /\ \A d \in 1..Len(chassis) : /\ chassis'[d].guid = chassis[d].guid
                                     /\ chassis'[d].count = chassis[d].count
       /\ Groups(chassis') = Groups(chassis)
  <2>1. /\ Len(chassis') = Len(chassis)
        /\ \A d \in 1..Len(chassis) : /\ chassis'[d].guid = chassis[d].guid
                                      /\ chassis'[d].count = chassis[d].count
    <3> HIDE DEF joins, InList, InSlot, Nowhere
    <3>1. CASE ~joins
      BY <1>5, <3>1
    <3>2. CASE joins
      BY <1>6, <3>2
    <3> QED BY <3>1, <3>2
  <2> QED BY <2>1 DEF Groups
<1>15. Tally'
  <2>1. TallyOk(chassis', GuidOf, Present)
    BY <1>4, <1>14 DEF TallyOk, Groups
  <2> QED BY <1>2, <2>1 DEF Tally
<1>16. Sorting'
  <2> SUFFICES ASSUME numbered' < CharMod, NEW d \in Groups(chassis')
               PROVE  GroupOk(chassis'[d], d, SameAs(Present, GuidOf, chassis'[d].guid),
                              SameAs(Sorted', GuidOf, chassis'[d].guid), chassisOf', rec')
    BY <1>2 DEF Sorting, SortOk
  <2> DEFINE g == chassis[d].guid
             same == SameAs(Present, GuidOf, g)
             past == SameAs(Sorted, GuidOf, g)
             more == SameAs(Sorted', GuidOf, g)
  <2>1. d \in Groups(chassis) /\ d \in 1..Len(chassis) /\ chassis'[d].guid = g
    BY <1>14 DEF Groups
  <2>2. SUFFICES GroupOk(chassis'[d], d, same, more, chassisOf', rec')
    BY <2>1
  <2>3. CharMod \in Nat \ {0, 1} /\ numbered < CharMod
    <3>1. numbered' = numbered \/ numbered' = numbered + 1
      <4> HIDE DEF joins, InList, InSlot, Nowhere
      <4> QED BY <1>5, <1>6
    <3> QED BY <1>1, <3>1, ChassisAssumption
  <2>4. GroupOk(chassis[d], d, same, past, chassisOf, rec)
    BY <1>4, <2>1, <2>3 DEF GroupInv, Sorting, SortOk
  <2>5. past \subseteq Sorted /\ past \subseteq Nodes
    <3>1. Present \subseteq Nodes
      BY <1>1, AheadIs
    <3> QED BY <1>3, <3>1 DEF SameAs
  <2>6. n \notin past /\ SortedAlike(past, chassisOf, rec, chassisOf', rec')
    BY <1>3, <1>11, <2>5 DEF SortedAlike
  <2>7. CASE ~(Grouped(n) /\ GuidOf[n] = g)
    <3>1. more = past
      BY <1>3, <2>7 DEF SameAs
    <3>2. chassis'[d] = chassis[d]
      <4> HIDE DEF InList, InSlot, Nowhere
      <4>1. CASE ~joins
        BY <1>5, <4>1
      <4>2. CASE joins
        <5>1. d # c
          BY <1>7, <1>10, <2>7, <4>2
        <5> QED BY <1>6, <2>1, <4>2, <5>1
      <4> QED BY <4>1, <4>2
    <3> HIDE DEF same, past, more
    <3> QED BY <2>4, <2>6, <3>1, <3>2, GroupStays
  <2>8. CASE Grouped(n) /\ GuidOf[n] = g
    <3>1. c = d
      <4>1. c # 0
        BY <1>8, <1>10, <2>1, <2>8
      <4>2. c \in Groups(chassis)
        BY <1>7, <1>10, <2>8, <4>1 DEF Groups
      <4> QED BY <1>4, <1>7, <1>10, <2>1, <2>8, <4>1, <4>2 DEF TallyOk
    <3>2. OneMoreIn(more, past, n)
      <4>1. more = past \cup {n}
        BY <1>3, <2>8 DEF SameAs
      <4> QED BY <2>6, <4>1 DEF OneMoreIn
    <3>3. Cardinality(same) \in Nat
      <4>1. same \subseteq Present
        BY DEF SameAs
      <4> QED BY <1>3, <4>1, FS_Subset, FS_CardinalityType
    <3>4. Cardinality(same) < CharMod => chassis[d].count = Cardinality(same)
      BY <1>4, <2>1 DEF TallyOk
    <3>5. OtherFiled(rec[n], n, Sorted) /\ chassisOf[n] = 0
      BY <1>1, <1>3, <1>10, <2>8 DEF GroupInv, OthersFiled, OthersFree
    <3>6. rec'[n].side = rec[n].side /\ rec'[n].slot = rec[n].slot
      BY <1>1, <1>11
    <3>7. chassis[d] \in ChassisSet
      BY <1>1, <2>1
    <3> HIDE DEF same, past, more, g
    <3>8. CASE ~joins
      <4>1. chassis'[d] = chassis[d] /\ chassisOf'[n] = 0
        BY <1>5, <3>5, <3>8
      <4>2. Cardinality(same) < CharMod => Cardinality(same) < 2
        <5>1. ~(chassis[d].count > 1)
          BY <1>7, <1>9, <2>1, <2>8, <3>1, <3>8
        <5> QED BY <2>3, <3>3, <3>4, <5>1
      <4> QED BY <2>4, <2>6, <3>2, <4>1, <4>2, GroupAlone
    <3>9. CASE joins
      <4>1. ~(Cardinality(same) < 2)
        <5>1. chassis[d].count > 1
          BY <1>9, <3>1, <3>9
        <5> QED BY <2>3, <3>3, <3>4, <5>1
      <4>2. chassis'[d].num # 0
        <5>1. /\ numbered' = IF chassis[d].num = 0 THEN numbered + 1 ELSE numbered
              /\ chassis'[d].num = IF chassis[d].num = 0 THEN Byte(numbered + 1) ELSE chassis[d].num
          BY <1>6, <3>1, <3>9 DEF Numbered
        <5>2. CASE chassis[d].num = 0
          <6>1. Byte(numbered + 1) = numbered + 1
            BY <1>1, <5>1, <5>2, ByteIs
          <6> QED BY <1>1, <5>1, <5>2, <6>1
        <5> QED BY <5>1, <5>2
      <4>3. SortedInto(chassis[d], chassis'[d], d, n, chassisOf', rec'[n])
        <5>1. CASE InList
          <6>1. rec'[n].side = "none"
            BY <3>5, <3>6, <5>1 DEF OtherFiled
          <6>2. chassisOf'[n] = d
            BY <1>1, <3>1, <5>1
          <6>3. /\ chassis'[d].nodes = chassis[d].nodes \cup {n}
                /\ SameSlots(chassis[d], chassis'[d])
            BY <3>1, <5>1
          <6> QED BY <6>1, <6>2, <6>3 DEF SortedInto
        <5>2. CASE InSlot
          <6>1. chassisOf'[n] = d
            BY <1>1, <3>1, <5>2
          <6>2. /\ rec'[n].side \in {"line", "spine"}
                /\ rec'[n].slot \notin DOMAIN chassis[d][rec'[n].side]
                /\ chassis'[d].nodes = chassis[d].nodes
                /\ MoreSlots(chassis[d], chassis'[d], rec'[n].side, rec'[n].slot, n)
            BY <3>1, <3>6, <5>2
          <6> QED BY <6>1, <6>2 DEF SortedInto
        <5>3. CASE Nowhere
          <6>1. side \in {"line", "spine"} /\ Vendor[n] = "MLX"
            BY <1>3, <3>5, <5>3 DEF OtherFiled
          <6>2. /\ rec'[n].side \in {"line", "spine"}
                /\ rec'[n].slot \in DOMAIN chassis[d][rec'[n].side]
                /\ chassis'[d].nodes = chassis[d].nodes /\ SameSlots(chassis[d], chassis'[d])
            BY <3>1, <3>6, <5>3, <6>1
          <6>3. chassisOf'[n] = 0
            BY <3>5, <5>3
          <6> QED BY <6>2, <6>3 DEF SortedInto
        <5> QED BY <1>6, <3>9, <5>1, <5>2, <5>3
      <4> HIDE DEF InList, InSlot, Nowhere, joins
      <4> QED BY <2>4, <2>6, <3>2, <3>7, <4>1, <4>2, <4>3, GroupMore
    <3> QED BY <3>8, <3>9
  <2> QED BY <2>7, <2>8
<1> QED BY <1>12, <1>13, <1>15, <1>16

\* Every step keeps the groups and what is sorted into them.
LEMMA GroupStep ==
  ASSUME VoltaireInside, GroupInv, [Next]_vars
  PROVE  GroupInv'
<1> DEFINE Goal ==
      OthersFiled' /\ OthersFree' /\ VoltaireBuilds' /\ BuiltFirst' /\ Tally' /\ Sorting'
<1>1. OneBox'
  BY OneBoxStep DEF GroupInv
<1>2. SUFFICES Goal
  BY <1>1 DEF GroupInv
<1>3. CASE FillRecord
  BY <1>3, FillGrouped
<1>4. CASE NextLoop
  BY <1>4, LoopGrouped
<1>5. CASE SkipNode
  <2>1. /\ pc = "search" /\ pc' = "search" /\ UNCHANGED <<rec, chassisOf, chassis, visits>>
    BY <1>5 DEF SkipNode, Turn
  <2>2. Sorted = {} /\ Sorted' = {}
    BY <2>1 DEF Sorted
  <2> QED BY <2>1, <2>2 DEF GroupInv, OthersFiled, OthersFree, VoltaireBuilds, BuiltFirst,
             Tally, Sorting, Grouping
<1>6. CASE StartChassis
  BY <1>6, StartedGrouped
<1>7. CASE CatchSpine
  <2>1. PICK e \in visits :
          \/ /\ SpineIndex(Peer(e)) \in 1..SpinesMax
             /\ Insert(Current, "spine", SpineIndex(Peer(e)), Peer(e))
             /\ visits' = visits \ {e}
             /\ UNCHANGED <<pc, at, rec, pass>>
          \/ Fail
    BY <1>7 DEF CatchSpine
  <2>2. CASE Fail
    BY <1>7, <2>2, FailGrouped DEF CatchSpine
  <2>3. CASE /\ SpineIndex(Peer(e)) \in 1..SpinesMax
             /\ Insert(Current, "spine", SpineIndex(Peer(e)), Peer(e))
             /\ visits' = visits \ {e}
             /\ UNCHANGED <<pc, at, rec, pass>>
    <3> DEFINE i == SpineIndex(Peer(e))
               n == Peer(e)
    <3>1. pc = "build" /\ Vendor[n] = "VTR"
      BY <1>7 DEF CatchSpine, GroupInv, VoltaireBuilds
    <3>2. i \in Nat /\ n \in Nodes
      <4>1. i \in Nat
        BY <2>3 DEF SpinesMax
      <4>2. e \in DOMAIN Cable
        BY FabricParts DEF GroupInv, OneBox, Typing
      <4> QED BY <4>1, <4>2, LinkParts
    <3>3. Insert(Current, "spine", i, n) /\ visits' = visits \ {e} /\ UNCHANGED <<pc, rec>>
      BY <2>3
    <3> HIDE DEF i, n
    <3> QED BY <3>1, <3>2, <3>3, CaughtGrouped
  <2> QED BY <2>1, <2>2, <2>3
<1>8. CASE CatchLine
  <2>1. PICK e \in visits :
          \/ /\ LineIndex(Peer(e)) \in 1..LinesMax
             /\ Insert(Current, "line", LineIndex(Peer(e)), Peer(e))
             /\ visits' = visits \ {e}
             /\ UNCHANGED <<pc, at, rec, pass>>
          \/ /\ visits' = visits \ {e}
             /\ UNCHANGED <<pc, at, rec, pass, chassis, chassisOf>>
          \/ Fail
    BY <1>8 DEF CatchLine
  <2>2. CASE Fail
    BY <1>8, <2>2, FailGrouped DEF CatchLine
  <2>3. CASE /\ visits' = visits \ {e}
             /\ UNCHANGED <<pc, at, rec, pass, chassis, chassisOf>>
    <3>1. pc = "build"
      BY <1>8 DEF CatchLine
    <3>2. Sorted = {} /\ Sorted' = {}
      BY <2>3, <3>1 DEF Sorted
    <3>3. Boards(Current)' = Boards(Current) /\ Current' = Current
      BY <2>3 DEF Boards, Current
    <3> QED BY <2>3, <3>1, <3>2, <3>3 DEF GroupInv, OthersFiled, OthersFree, VoltaireBuilds,
               BuiltFirst, Tally, Sorting, Grouping, Peer
  <2>4. CASE /\ LineIndex(Peer(e)) \in 1..LinesMax
             /\ Insert(Current, "line", LineIndex(Peer(e)), Peer(e))
             /\ visits' = visits \ {e}
             /\ UNCHANGED <<pc, at, rec, pass>>
    <3> DEFINE i == LineIndex(Peer(e))
               n == Peer(e)
    <3>1. pc = "build" /\ Vendor[n] = "VTR"
      BY <1>8 DEF CatchLine, GroupInv, VoltaireBuilds
    <3>2. i \in Nat /\ n \in Nodes
      <4>1. i \in Nat
        BY <2>4 DEF LinesMax
      <4>2. e \in DOMAIN Cable
        BY FabricParts DEF GroupInv, OneBox, Typing
      <4> QED BY <4>1, <4>2, LinkParts
    <3>3. Insert(Current, "line", i, n) /\ visits' = visits \ {e} /\ UNCHANGED <<pc, rec>>
      BY <2>4
    <3> HIDE DEF i, n
    <3> QED BY <3>1, <3>2, <3>3, CaughtGrouped
  <2> QED BY <2>1, <2>2, <2>3, <2>4
<1>9. CASE StartPass
  BY <1>9, PassGrouped
<1>10. CASE EndChassis
  BY <1>10, EndedGrouped
<1>11. CASE CountNode
  BY <1>11, CountedGrouped
<1>12. CASE GroupNode
  BY <1>12, SortedGrouped
<1>13. CASE UNCHANGED vars
  <2>1. UNCHANGED <<fabric, pc, at, rec, chassisOf, chassis, numbered, visits>>
    BY <1>13 DEF vars
  <2>2. GuidOf' = GuidOf /\ Present' = Present
    BY <2>1, GuidsStay
  <2>3. Sorted' = Sorted /\ Tallied' = Tallied
    BY <2>1, <2>2 DEF Sorted, Tallied
  <2>4. Boards(Current)' = Boards(Current) /\ Current' = Current
    BY <2>1 DEF Boards, Current
  <2> QED BY <2>1, <2>2, <2>3, <2>4 DEF GroupInv, OthersFiled, OthersFree, VoltaireBuilds,
             BuiltFirst, Tally, Sorting, Grouping, Peer
<1> QED BY <1>3, <1>4, <1>5, <1>6, <1>7, <1>8, <1>9, <1>10, <1>11, <1>12, <1>13 DEF Next

\* When all nodes were sorted, each is where it belongs.
LEMMA SortedIsGrouped ==
  ASSUME GroupInv
  PROVE  GroupedBySystem
<1> SUFFICES ASSUME pc = "done", numbered < CharMod, NEW n \in Present, Grouped(n),
                    Cardinality({m \in Present : Grouped(m) /\ ChassisGuid(m) = ChassisGuid(n)})
                      < CharMod
             PROVE
      LET same == {m \in Present : Grouped(m) /\ ChassisGuid(m) = ChassisGuid(n)}
          group == chassis[Found(n)]
          r == rec[n]
      IN  IF same = {n} THEN chassisOf[n] = 0 /\ group.num = 0
          ELSE /\ group.num # 0
               /\ group.nodes = {m \in same : rec[m].side = "none"}
               /\ r.side = "none" => chassisOf[n] = Found(n)
               /\ r.side \in {"line", "spine"} /\ Vendor[n] = "MLX" =>
                    /\ r.slot \in DOMAIN group[r.side]
                    /\ chassisOf[n] = IF group[r.side][r.slot] = n THEN Found(n) ELSE 0
  BY DEF GroupedBySystem
<1> DEFINE same == {m \in Present : Grouped(m) /\ ChassisGuid(m) = ChassisGuid(n)}
           c == Found(n)
           g == chassis[c].guid
<1>1. Typing /\ Sorted = Present /\ Tallied = Present /\ Grouping
  BY DEF GroupInv, OneBox, Sorted, Tallied, Grouping
<1>2. Present \subseteq Nodes /\ IsFiniteSet(Present)
  BY <1>1, AheadIs
<1>3. TallyOk(chassis, GuidOf, Present) /\ SortOk(chassis, GuidOf, Present, Present, chassisOf, rec)
  BY <1>1 DEF GroupInv, Tally, Sorting
<1>4. GuidOf[n] = ChassisGuid(n) /\ ChassisGuid(n).maker # "VTR"
  BY <1>1, <1>2, OtherGuid
<1>5. c \in Groups(chassis) /\ g = ChassisGuid(n)
  <2>1. \E d \in Groups(chassis) : chassis[d].guid = ChassisGuid(n)
    BY <1>3, <1>4 DEF TallyOk
  <2>2. c # 0
    BY <1>1, <2>1, FoundNone DEF Groups
  <2>3. c \in 0..Len(chassis) /\ chassis[c].guid = ChassisGuid(n) /\ Len(chassis) \in Nat
    BY <1>1, <2>2, FoundIsOne DEF Typing
  <2> QED BY <1>4, <2>2, <2>3 DEF Groups
<1>6. SameAs(Present, GuidOf, g) = same
  <2>1. \A m \in Present : GuidOf[m] = ChassisGuid(m)
    BY <1>2 DEF GuidOf
  <2> QED BY <1>5, <2>1 DEF SameAs
<1> HIDE DEF g, c
<1>7. GroupOk(chassis[c], c, same, same, chassisOf, rec)
  BY <1>3, <1>5, <1>6 DEF SortOk, g
<1>8. n \in same /\ IsFiniteSet(same) /\ Cardinality(same) < CharMod
  <2>1. same \subseteq Present
    OBVIOUS
  <2> QED BY <1>2, <2>1, FS_Subset
<1>9. Cardinality(same) < 2 <=> same = {n}
  <2>1. Cardinality(same) \in Nat
    BY <1>8, FS_CardinalityType
  <2>2. Cardinality({n}) = 1
    BY FS_Singleton
  <2>3. Cardinality(same) # 0
    BY <1>8, FS_EmptySet
  <2>4. ASSUME Cardinality(same) = 1 PROVE same = {n}
    <3>1. PICK x : same = {x}
      BY <1>8, <2>4, FS_Singleton
    <3> QED BY <1>8, <3>1
  <2> HIDE DEF same
  <2> QED BY <2>1, <2>2, <2>3, <2>4
<1>10. CASE same = {n}
  <2>1. chassisOf[n] = 0 /\ chassis[c].num = 0
    BY <1>7, <1>8, <1>9, <1>10 DEF GroupOk
  <2> QED BY <1>10, <2>1 DEF c
<1>11. CASE same # {n}
  <2> DEFINE ch == chassis[c]
  <2>1. /\ ch.num # 0
        /\ ch.nodes = {m \in same : rec[m].side = "none"}
        /\ rec[n].side = "none" => chassisOf[n] = c
        /\ rec[n].side = "line" => HasSlot(ch.line, rec[n].slot, n, c, chassisOf)
        /\ rec[n].side = "spine" => HasSlot(ch.spine, rec[n].slot, n, c, chassisOf)
    <3>1. ~(Cardinality(same) < 2 \/ same = {}) /\ Cardinality(same) < CharMod
      BY <1>8, <1>9, <1>11
    <3> HIDE DEF same
    <3> QED BY <1>7, <1>8, <3>1 DEF GroupOk
  <2>2. rec[n].side \in {"line", "spine"} =>
          /\ rec[n].slot \in DOMAIN ch[rec[n].side]
          /\ chassisOf[n] = IF ch[rec[n].side][rec[n].slot] = n THEN c ELSE 0
    BY <2>1 DEF HasSlot
  <2> QED BY <1>11, <2>1, <2>2 DEF c
<1> QED BY <1>10, <1>11

LEMMA InitGrouped ==
  ASSUME Init
  PROVE  GroupInv
<1>1. OneBox
  <2>1. Typing
    BY InitTyped
  <2>2. BoardsOfOneBox /\ VisitsStayInside /\ SpinesInside /\ GuidsTellApart
    BY DEF Init, BoardsOfOneBox, VisitsStayInside, SpinesInside, GuidsTellApart
  <2> QED BY <2>1, <2>2 DEF OneBox
<1>2. pc = "fill" /\ chassis = <<>> /\ \A n \in Nodes : chassisOf[n] = 0
  BY DEF Init
<1>3. OthersFiled
  <2>1. \A n \in Nodes : rec[n].side = "none" /\ rec[n].found = FALSE
    BY DEF Init
  <2> QED BY <2>1 DEF OthersFiled, OtherFiled
<1>4. OthersFree /\ VoltaireBuilds /\ BuiltFirst /\ Tally /\ Sorting
  BY <1>2 DEF OthersFree, VoltaireBuilds, BuiltFirst, Groups, Tally, Sorting, Grouping
<1> QED BY <1>1, <1>3, <1>4 DEF GroupInv

\* group_nodes gives a number and all their boards and nodes to the systems of several
\* nodes and to no others, whatever the order of the nodes, the number of systems
\* and the Voltaire chassis that were built before them.
THEOREM GroupsAreRight ==
  ASSUME VoltaireInside
  PROVE  Spec => []GroupedBySystem
<1>1. Init => GroupInv
  BY InitGrouped
<1>2. GroupInv /\ [Next]_vars => GroupInv'
  BY GroupStep
<1>3. GroupInv => GroupedBySystem
  BY SortedIsGrouped
<1> QED BY <1>1, <1>2, <1>3, PTL DEF Spec

------------------------------------------------------------------------------
(* Assemblies: boards that hang together by links inside a chassis.        *)

InsideOf(f) == {e \in f.links : IsInside(e)}

\* S and what internal links lead to from its boards, and what is reached over i links.
Beyond(f, S) == S \cup {Peer(e) : e \in {d \in InsideOf(f) : d[1] \in S}}

Reach(f, t, i) ==
  LET a == Beyond(f, {t})
      b == Beyond(f, a)
      c == Beyond(f, b)
      d == Beyond(f, c)
  IN  CASE i = 0 -> {t} [] i = 1 -> a [] i = 2 -> b [] i = 3 -> c [] i = 4 -> d
        [] i = 5 -> Beyond(f, d) [] OTHER -> Beyond(f, Beyond(f, d))

LEMMA ReachNext ==
  ASSUME NEW f, NEW t
  PROVE  /\ Reach(f, t, 0) = {t}
         /\ \A i \in 0..5 : Reach(f, t, i + 1) = Beyond(f, Reach(f, t, i))
<1> DEFINE B(S) == Beyond(f, S)
<1>1. /\ Reach(f, t, 0) = {t} /\ Reach(f, t, 1) = B({t}) /\ Reach(f, t, 2) = B(B({t}))
      /\ Reach(f, t, 3) = B(B(B({t}))) /\ Reach(f, t, 4) = B(B(B(B({t}))))
      /\ Reach(f, t, 5) = B(B(B(B(B({t}))))) /\ Reach(f, t, 6) = B(B(B(B(B(B({t}))))))
  BY DEF Reach
<1> HIDE DEF B
<1>2. /\ Reach(f, t, 0 + 1) = B(Reach(f, t, 0)) /\ Reach(f, t, 1 + 1) = B(Reach(f, t, 1))
      /\ Reach(f, t, 2 + 1) = B(Reach(f, t, 2)) /\ Reach(f, t, 3 + 1) = B(Reach(f, t, 3))
      /\ Reach(f, t, 4 + 1) = B(Reach(f, t, 4)) /\ Reach(f, t, 5 + 1) = B(Reach(f, t, 5))
  BY <1>1
<1>3. \A i \in 0..5 : i \in {0, 1, 2, 3, 4, 5}
  OBVIOUS
<1>4. \A i \in 0..5 : Reach(f, t, i + 1) = B(Reach(f, t, i))
  BY <1>2, <1>3
<1> QED BY <1>1, <1>4 DEF B

LEMMA InsideIs ==
  ASSUME NEW e \in DOMAIN Cable
  PROVE  IsInside(e) <=> e[2] \in InsidePorts(e[1])
<1>1. e[1] \in Nodes /\ e[2] \in 1..NumPorts[e[1]]
  BY FabricAssumption
<1>2. CASE IsLine(e[1])
  BY <1>2, FacesAre DEF InsidePorts, IsInside
<1>3. CASE IsSpine(e[1]) /\ Device[e[1]] = "4700x2"
  <2>1. e[2] \in 1..36 /\ ~IsLine(e[1])
    BY <1>3, LinkParts, FacesAre DEF IsSpine
  <2>2. FacePorts(e[1]) = 19..36 /\ InsidePorts(e[1]) = 1..18
    BY <1>3, <2>1 DEF FacePorts, InsidePorts, SpinePorts
  <2> QED BY <1>3, <2>1, <2>2 DEF IsInside
<1>4. CASE IsSpine(e[1]) /\ Device[e[1]] # "4700x2"
  <2>1. ~IsLine(e[1]) /\ FacePorts(e[1]) = {}
    BY <1>4, FacesAre
  <2>2. InsidePorts(e[1]) = 1..NumPorts[e[1]]
    BY <1>4, <2>1 DEF InsidePorts, SpinePorts
  <2> QED BY <1>1, <1>4, <2>1, <2>2 DEF IsInside
<1>5. CASE ~IsLine(e[1]) /\ ~IsSpine(e[1])
  BY <1>5 DEF IsInside, InsidePorts
<1> QED BY <1>2, <1>3, <1>4, <1>5

LEMMA InsideLinksAre ==
  ASSUME Typing, NEW n
  PROVE  /\ LinksIn(n, InsidePorts(n)) = {e \in InsideOf(fabric) : e[1] = n}
         /\ IsSpine(n) => LinksIn(n, SpinePorts(n)) = {e \in InsideOf(fabric) : e[1] = n}
         /\ IsLine(n) => LinksIn(n, LinePorts(n)) = {e \in InsideOf(fabric) : e[1] = n}
<1>1. LinksIn(n, InsidePorts(n)) = {e \in InsideOf(fabric) : e[1] = n}
  <2>1. \A e \in fabric.links : IsInside(e) <=> e[2] \in InsidePorts(e[1])
    BY FabricParts, InsideIs DEF Typing
  <2> QED BY <2>1 DEF LinksIn, InsideOf
<1>2. (IsSpine(n) => InsidePorts(n) = SpinePorts(n)) /\ (IsLine(n) => InsidePorts(n) = LinePorts(n))
  BY FacesAre DEF InsidePorts
<1> QED BY <1>1, <1>2

\* Within counts the links from a board.
LEMMA WithinIs ==
  ASSUME Typing, NEW n, NEW k \in {5, 6}
  PROVE  Within(n, k) = Reach(fabric, n, k)
<1> DEFINE Out(S) == S \cup UNION {{Peer(e) : e \in LinksIn(m, InsidePorts(m))} : m \in S}
           Is(R) == R = [i \in 0..k |-> IF i = 0 THEN {n} ELSE Out(R[i - 1])]
           W == [i \in 0..k |-> Reach(fabric, n, i)]
<1>1. \A S : Out(S) = Beyond(fabric, S)
  <2> TAKE S
  <2>1. \A x : x \in UNION {{Peer(e) : e \in LinksIn(m, InsidePorts(m))} : m \in S}
                 <=> \E e \in InsideOf(fabric) : e[1] \in S /\ x = Peer(e)
    <3> TAKE x
    <3>1. \A m : LinksIn(m, InsidePorts(m)) = {e \in InsideOf(fabric) : e[1] = m}
      BY InsideLinksAre
    <3> QED BY <3>1
  <2> QED BY <2>1 DEF Beyond
<1>2. Within(n, k) = (CHOOSE R : Is(R))[k]
  BY DEF Within
<1>3. /\ Reach(fabric, n, 0) = {n}
      /\ \A i \in 0..5 : Reach(fabric, n, i + 1) = Beyond(fabric, Reach(fabric, n, i))
  BY ReachNext
<1> HIDE DEF Out
<1>4. Is(W)
  <2>1. \A i \in 0..k : Reach(fabric, n, i) = IF i = 0 THEN {n} ELSE Out(W[i - 1])
    <3> TAKE i \in 0..k
    <3>1. CASE i = 0
      BY <1>3, <3>1
    <3>2. CASE i # 0
      <4>1. i - 1 \in 0..5 /\ i - 1 \in 0..k /\ (i - 1) + 1 = i
        BY <3>2
      <4>2. Reach(fabric, n, i) = Beyond(fabric, Reach(fabric, n, i - 1))
        BY <1>3, <4>1
      <4> QED BY <1>1, <3>2, <4>1, <4>2
    <3> QED BY <3>1, <3>2
  <2> QED BY <2>1
<1>5. \A R : Is(R) => \A i \in 0..k : R[i] = Reach(fabric, n, i)
  <2> TAKE R
  <2> HAVE Is(R)
  <2>0. \A i \in 0..k : R[i] = IF i = 0 THEN {n} ELSE Out(R[i - 1])
    OBVIOUS
  <2>1. R[0] = {n} /\ \A i \in 1..k : R[i] = Beyond(fabric, R[i - 1])
    <3>1. 0 \in 0..k /\ \A i \in 1..k : i \in 0..k /\ i # 0
      OBVIOUS
    <3> QED BY <1>1, <2>0, <3>1
  <2> HIDE DEF Is
  <2>2. \A i \in 1..6 : i <= k => R[i] = Beyond(fabric, R[i - 1])
    BY <2>1
  <2>3. R[0] = Reach(fabric, n, 0)
    BY <1>3, <2>1
  <2>4. \A i \in 0..5 : i + 1 <= k /\ R[i] = Reach(fabric, n, i)
                          => R[i + 1] = Reach(fabric, n, i + 1)
    <3> TAKE i \in 0..5
    <3>1. i + 1 \in 1..6 /\ (i + 1) - 1 = i
      OBVIOUS
    <3> QED BY <1>3, <2>2, <3>1
  <2>5. /\ R[1] = Reach(fabric, n, 1) /\ R[2] = Reach(fabric, n, 2) /\ R[3] = Reach(fabric, n, 3)
        /\ R[4] = Reach(fabric, n, 4) /\ R[5] = Reach(fabric, n, 5)
        /\ k = 6 => R[6] = Reach(fabric, n, 6)
    <3>1. R[0 + 1] = Reach(fabric, n, 0 + 1)
      BY <2>3, <2>4
    <3>2. R[1 + 1] = Reach(fabric, n, 1 + 1)
      BY <2>4, <3>1
    <3>3. R[2 + 1] = Reach(fabric, n, 2 + 1)
      BY <2>4, <3>2
    <3>4. R[3 + 1] = Reach(fabric, n, 3 + 1)
      BY <2>4, <3>3
    <3>5. R[4 + 1] = Reach(fabric, n, 4 + 1)
      BY <2>4, <3>4
    <3>6. k = 6 => R[5 + 1] = Reach(fabric, n, 5 + 1)
      BY <2>4, <3>5
    <3> QED BY <3>1, <3>2, <3>3, <3>4, <3>5, <3>6
  <2>6. \A i \in 0..k : i \in {0, 1, 2, 3, 4, 5, 6} /\ (i = 6 => k = 6)
    OBVIOUS
  <2> QED BY <2>3, <2>5, <2>6
<1> HIDE DEF Is
<1>6. Is(CHOOSE R : Is(R))
  BY <1>4
<1> QED BY <1>2, <1>5, <1>6

------------------------------------------------------------------------------
\* An internal link is a cable that starts at no face, and where it leads to.
LEMMA InsideParts ==
  ASSUME NEW f \in Discovered, NEW e \in InsideOf(f)
  PROVE  /\ e \in DOMAIN Cable /\ e \in f.links /\ IsInside(e) /\ e[2] \notin FacePorts(e[1])
         /\ e[1] \in Nodes /\ Peer(e) \in Nodes /\ e[2] \in Nat
         /\ IsLine(e[1]) \/ IsSpine(e[1])
         /\ Box[Peer(e)] = Box[e[1]] /\ (IsLine(e[1]) => IsSpine(Peer(e)))
<1>1. e \in DOMAIN Cable /\ e \in f.links /\ IsInside(e)
  BY FabricParts DEF InsideOf
<1>2. e[2] \notin FacePorts(e[1]) /\ (IsLine(e[1]) \/ IsSpine(e[1]))
  BY <1>1, InsideIsNoFace DEF IsInside
<1>3. Box[Peer(e)] = Box[e[1]] /\ (IsLine(e[1]) => IsSpine(Peer(e)))
  BY <1>1, <1>2, WiredAsBuilt
<1> QED BY <1>1, <1>2, <1>3, LinkParts

\* An internal link between boards can be followed both ways.
LEMMA BackInside ==
  ASSUME PlacesAsBuilt, NEW f \in Discovered, NEW e \in InsideOf(f),
         IsLine(Peer(e)) \/ IsSpine(Peer(e))
  PROVE  Cable[e] \in InsideOf(f) /\ Cable[e][1] = Peer(e) /\ Peer(Cable[e]) = e[1]
<1>1. e \in DOMAIN Cable /\ e \in f.links /\ IsInside(e)
  BY InsideParts
<1>2. Cable[e] \in f.links /\ Cable[Cable[e]] = e
  BY <1>1, FabricParts, FabricAssumption
<1>3. Device[Peer(e)] # "router"
  BY FacesAre
<1>4. IsInside(Cable[e])
  BY <1>1, <1>3 DEF PlacesAsBuilt, InsideIsInside
<1> QED BY <1>2, <1>4 DEF InsideOf, Peer

IsClosed(f, S) == \A e \in InsideOf(f) : e[1] \in S => Peer(e) \in S

LEMMA ReachStays ==
  ASSUME NEW f, NEW t, NEW S, IsClosed(f, S), t \in S
  PROVE  Reach(f, t, 5) \subseteq S
<1>1. \A T : T \subseteq S => Beyond(f, T) \subseteq S
  BY DEF Beyond, IsClosed
<1>2. /\ Reach(f, t, 0) = {t}
      /\ \A i \in 0..5 : Reach(f, t, i + 1) = Beyond(f, Reach(f, t, i))
  BY ReachNext
<1>3. \A i \in 0..5 : Reach(f, t, i) \subseteq S => Reach(f, t, i + 1) \subseteq S
  BY <1>1, <1>2
<1>4. Reach(f, t, 0 + 1) \subseteq S
  BY <1>2, <1>3
<1>5. Reach(f, t, 1 + 1) \subseteq S
  BY <1>3, <1>4
<1>6. Reach(f, t, 2 + 1) \subseteq S
  BY <1>3, <1>5
<1>7. Reach(f, t, 3 + 1) \subseteq S
  BY <1>3, <1>6
<1>8. Reach(f, t, 4 + 1) \subseteq S
  BY <1>3, <1>7
<1> QED BY <1>8

\* What is reached is the start, or behind a link of something reached.
LEMMA ReachedBy ==
  ASSUME NEW f, NEW t
  PROVE  /\ t \in Reach(f, t, 5)
         /\ \A n \in Reach(f, t, 5) :
              n = t \/ \E e \in InsideOf(f) : e[1] \in Reach(f, t, 5) /\ Peer(e) = n
<1> DEFINE Ok(S) == /\ t \in S
                    /\ \A n \in S : n = t \/ \E e \in InsideOf(f) : e[1] \in S /\ Peer(e) = n
<1>1. Ok({t})
  OBVIOUS
<1>2. \A S : Ok(S) => Ok(Beyond(f, S))
  BY DEF Beyond
<1> HIDE DEF Ok
<1>3. /\ Reach(f, t, 0) = {t}
      /\ \A i \in 0..5 : Reach(f, t, i + 1) = Beyond(f, Reach(f, t, i))
  BY ReachNext
<1>4. \A i \in 0..5 : Ok(Reach(f, t, i)) => Ok(Reach(f, t, i + 1))
  BY <1>2, <1>3
<1>5. Ok(Reach(f, t, 0 + 1))
  BY <1>1, <1>3, <1>4
<1>6. Ok(Reach(f, t, 1 + 1))
  BY <1>4, <1>5
<1>7. Ok(Reach(f, t, 2 + 1))
  BY <1>4, <1>6
<1>8. Ok(Reach(f, t, 3 + 1))
  BY <1>4, <1>7
<1>9. Ok(Reach(f, t, 4 + 1))
  BY <1>4, <1>8
<1>10. Ok(Reach(f, t, 5))
  BY <1>9
<1> QED BY <1>10 DEF Ok

\* If one link more leads no further, no link leads further, and none comes from
\* elsewhere.
LEMMA ReachClosed ==
  ASSUME NEW f, NEW t, Reach(f, t, 5) = Reach(f, t, 6)
  PROVE  IsClosed(f, Reach(f, t, 5))
<1>1. Reach(f, t, 5 + 1) = Beyond(f, Reach(f, t, 5))
  BY ReachNext
<1> QED BY <1>1 DEF IsClosed, Beyond

LEMMA NoneFromElsewhere ==
  ASSUME SlotsAsBuilt, PlacesAsBuilt, NEW f \in Discovered, NEW t, IsSpine(t),
         IsClosed(f, Reach(f, t, 5)), NEW e \in InsideOf(f), Peer(e) \in Reach(f, t, 5)
  PROVE  e[1] \in Reach(f, t, 5)
<1> DEFINE T == Reach(f, t, 5)
<1>1. t \in T /\ \A n \in T : n = t \/ \E d \in InsideOf(f) : d[1] \in T /\ Peer(d) = n
  BY ReachedBy
<1>2. IsClosed(f, T) /\ Peer(e) \in T
  OBVIOUS
<1> SUFFICES e[1] \in T
  OBVIOUS
<1> HIDE DEF T
<1>3. \A d \in InsideOf(f) :
        (IsLine(Peer(d)) \/ IsSpine(Peer(d))) /\ Peer(d) \in T => d[1] \in T
  <2> SUFFICES ASSUME NEW d \in InsideOf(f), IsLine(Peer(d)) \/ IsSpine(Peer(d)), Peer(d) \in T
               PROVE  d[1] \in T
    OBVIOUS
  <2>1. Cable[d] \in InsideOf(f) /\ Cable[d][1] = Peer(d) /\ Peer(Cable[d]) = d[1]
    BY BackInside
  <2> QED BY <1>2, <2>1 DEF IsClosed
<1>4. CASE IsLine(Peer(e)) \/ IsSpine(Peer(e))
  BY <1>2, <1>3, <1>4
<1>5. CASE ~IsLine(Peer(e)) /\ ~IsSpine(Peer(e))
  <2>1. PICK d \in InsideOf(f) : d[1] \in T /\ Peer(d) = Peer(e)
    BY <1>1, <1>2, <1>5
  <2>2. /\ d \in f.links /\ IsInside(d) /\ IsSpine(d[1])
        /\ e \in f.links /\ IsInside(e) /\ IsSpine(e[1])
    BY <1>5, <2>1, InsideParts
  <2>3. CASE d[1] = e[1]
    BY <2>1, <2>3
  <2>4. CASE d[1] # e[1]
    <3>1. PICK a, b \in f.links : /\ a[1] = d[1] /\ IsInside(a) /\ IsLine(Peer(a))
                                  /\ b[1] = e[1] /\ IsInside(b) /\ Peer(b) = Peer(a)
      BY <1>5, <2>1, <2>2, <2>4 DEF PlacesAsBuilt, SeenAsBuilt
    <3>2. a \in InsideOf(f) /\ b \in InsideOf(f)
      BY <3>1 DEF InsideOf
    <3>3. Peer(b) \in T /\ IsLine(Peer(b))
      BY <1>2, <2>1, <3>1, <3>2 DEF IsClosed
    <3> QED BY <1>3, <3>1, <3>2, <3>3
  <2> QED BY <2>3, <2>4
<1> QED BY <1>4, <1>5

\* The boards and modules that hang together by internal links.
IsAssembly(f, K) ==
  /\ K \subseteq Nodes /\ K # {}
  /\ \A e \in InsideOf(f) : e[1] \in K <=> Peer(e) \in K
  /\ \A t \in K : IsSpine(t) => Reach(f, t, 5) = K
  /\ \A n \in K : /\ Vendor[n] = "VTR" /\ \E i \in DOMAIN f.order : f.order[i] = n
                  /\ IsSpine(n) \/ \E e \in InsideOf(f) : Peer(e) = n

\* A spine that could be collected with all its chassis.
IsGood(s) ==
  /\ s \in Present \cap Switches /\ Vendor[s] = "VTR" /\ IsSpine(s)
  /\ \A t \in SpinesWithin(s, 6) : Within(t, 5) = Within(t, 6)

LEMMA GoodIsAssembly ==
  ASSUME SlotsAsBuilt, VoltaireInside, PlacesAsBuilt, Typing, NEW s, IsGood(s)
  PROVE  IsAssembly(fabric, Within(s, 5)) /\ s \in Within(s, 5)
<1> DEFINE f == fabric
           K == Reach(f, s, 5)
<1>0. f \in Discovered /\ IsSpine(s) /\ s \in Present /\ s \in Switches
  BY DEF Typing, IsGood
<1>1. \A t : Within(t, 5) = Reach(f, t, 5) /\ Within(t, 6) = Reach(f, t, 6)
  BY WithinIs
<1>2. s \in K /\ \A n \in K : n = s \/ \E e \in InsideOf(f) : e[1] \in K /\ Peer(e) = n
  BY ReachedBy
<1>3. Reach(f, s, 6) = Beyond(f, K)
  <2>1. Reach(f, s, 5 + 1) = Beyond(f, Reach(f, s, 5))
    BY ReachNext
  <2> QED BY <2>1
<1>4. \A t \in K : IsSpine(t) => t \in SpinesWithin(s, 6)
  <2> SUFFICES ASSUME NEW t \in K, IsSpine(t) PROVE t \in SpinesWithin(s, 6)
    OBVIOUS
  <2>1. t \in Nodes
    <3>1. s \in Nodes
      BY <1>0, FabricAssumption
    <3>2. \A e \in InsideOf(f) : Peer(e) \in Nodes
      BY <1>0, InsideParts
    <3> QED BY <1>2, <3>1, <3>2
  <2>2. t \in Switches
    BY <2>1 DEF SlotsAsBuilt
  <2> QED BY <1>1, <1>3, <2>2 DEF SpinesWithin, Beyond
<1>5. \A t \in K : IsSpine(t) => Reach(f, t, 5) = Reach(f, t, 6)
  BY <1>1, <1>4 DEF IsGood
<1>6. IsClosed(f, K)
  BY <1>0, <1>2, <1>5, ReachClosed
<1>7. \A e \in InsideOf(f) : e[1] \in K <=> Peer(e) \in K
  BY <1>0, <1>6, NoneFromElsewhere DEF IsClosed
<1>8. ASSUME NEW t \in K, IsSpine(t)
      PROVE  Reach(f, t, 5) = K
  <2> DEFINE T == Reach(f, t, 5)
  <2>1. IsClosed(f, T)
    BY <1>5, <1>8, ReachClosed
  <2>2. \A e \in InsideOf(f) : Peer(e) \in T => e[1] \in T
    BY <1>0, <1>8, <2>1, NoneFromElsewhere
  <2>3. T \subseteq K
    BY <1>6, ReachStays
  <2>4. t \in T
    BY ReachedBy
  <2> HIDE DEF T
  <2>5. IsClosed(f, K \ T)
    BY <1>6, <2>2 DEF IsClosed
  <2>6. s \in T
    <3>1. s \notin T => K \subseteq K \ T
      BY <1>2, <2>5, ReachStays
    <3> QED BY <2>4, <3>1
  <2>7. K \subseteq T
    BY <2>1, <2>6, ReachStays
  <2> QED BY <2>3, <2>7 DEF T
<1>9. ASSUME NEW n \in K
      PROVE  n \in Nodes /\ Vendor[n] = "VTR" /\ \E i \in DOMAIN f.order : f.order[i] = n
  <2> DEFINE V == {m \in Nodes : Vendor[m] = "VTR" /\ \E i \in DOMAIN f.order : f.order[i] = m}
  <2>1. s \in V
    <3>1. s \in Nodes /\ Vendor[s] = "VTR"
      BY <1>0, FabricAssumption DEF IsGood
    <3>2. \E i \in DOMAIN f.order : f.order[i] = s
      <4>1. f.order \in Seq(Nodes)
        BY <1>0, FabricParts
      <4>2. DOMAIN f.order = 1..Len(f.order)
        BY <4>1
      <4> QED BY <1>0, <4>2 DEF Present
    <3> QED BY <3>1, <3>2
  <2>2. IsClosed(f, V)
    <3> SUFFICES ASSUME NEW e \in InsideOf(f), e[1] \in V PROVE Peer(e) \in V
      BY DEF IsClosed
    <3>1. /\ e \in DOMAIN Cable /\ e \in f.links /\ e[2] \notin FacePorts(e[1])
          /\ Peer(e) \in Nodes /\ (IsLine(e[1]) \/ IsSpine(e[1]))
      BY <1>0, InsideParts
    <3>2. Vendor[Peer(e)] = "VTR"
      BY <3>1 DEF VoltaireInside
    <3>3. \E i \in DOMAIN f.order : f.order[i] = Peer(e)
      BY <1>0, <3>1 DEF PlacesAsBuilt, SeenAsBuilt
    <3> QED BY <3>1, <3>2, <3>3
  <2> HIDE DEF V
  <2>3. K \subseteq V
    BY <2>1, <2>2, ReachStays
  <2> QED BY <2>3 DEF V
<1>10. \A n \in K : IsSpine(n) \/ \E e \in InsideOf(f) : Peer(e) = n
  BY <1>0, <1>2
<1> HIDE DEF K
<1>11. IsAssembly(f, K)
  <2>1. K # {}
    BY <1>2 DEF K
  <2> QED BY <1>7, <1>8, <1>9, <1>10, <2>1 DEF IsAssembly
<1> QED BY <1>1, <1>2, <1>11 DEF K

------------------------------------------------------------------------------
\* What the first loop says of a Voltaire board: where it is, as one of the spines next
\* to it or the first of its line boards tells; a spine also finds its router modules.
LinksBehind(f, n) == {e \in InsideOf(f) : Peer(e) = n}

SwitchLinks(f, s) == {d \in f.links : d[1] = s /\ IsInside(d) /\ Peer(d) \in Switches}

IsLearnt(f, r, n) ==
  /\ ~r[n].found => r[n].slot = 0 /\ r[n].chip = 0
  /\ r[n].found /\ ~IsSpine(n) /\ LinksBehind(f, n) # {} =>
       \E e \in LinksBehind(f, n) : LineAt(r, n) = IndexBehind(e)
  /\ r[n].found /\ IsSpine(n) =>
       /\ SpineAt(r, n) \in 1..SpinesMax =>
            SwitchLinks(f, n) # {} /\ SpineAt(r, n) = SpinePlace(f.links, n)
       /\ \A e \in InsideOf(f) : e[1] = n /\ Peer(e) \notin Switches => r[Peer(e)].found

LEMMA LearntStays ==
  ASSUME NEW f, NEW r, NEW r2, NEW n, r2[n] = r[n], IsLearnt(f, r, n),
         \A e \in InsideOf(f) : r[Peer(e)].found => r2[Peer(e)].found
  PROVE  IsLearnt(f, r2, n)
<1>1. LineAt(r2, n) = LineAt(r, n) /\ SpineAt(r2, n) = SpineAt(r, n)
  BY DEF LineAt, SpineAt
<1> QED BY <1>1 DEF IsLearnt

\* The ports that lead into a board or module that is no spine are those of spines.
LEMMA BehindIsSpine ==
  ASSUME PlacesAsBuilt, NEW f \in Discovered, NEW n, ~IsSpine(n), NEW e \in LinksBehind(f, n)
  PROVE  /\ e \in InsideOf(f) /\ IsSpine(e[1]) /\ Peer(e) = n
         /\ IsLine(n) \/ (Device[n] = "router" /\ Device[e[1]] \in RouterHosts)
<1>1. e \in InsideOf(f) /\ Peer(e) = n
  BY DEF LinksBehind
<1>2. e \in DOMAIN Cable /\ IsInside(e) /\ IsSpine(e[1])
  BY <1>1, InsideParts
<1> QED BY <1>1, <1>2 DEF PlacesAsBuilt, InsideIsInside

LEMMA HostsHaveNoFace ==
  ASSUME NEW n, Device[n] \in RouterHosts
  PROVE  IsSpine(n) /\ FacePorts(n) = {}
<1>1. IsSpine(n) /\ Device[n] # "4700x2"
  BY DEF RouterHosts, IsSpine, Spines
<1> QED BY <1>1, FacesAre

LEMMA RouterLearnt ==
  ASSUME PlacesAsBuilt, Typing, NEW n \in Nodes, Device[n] = "router"
  PROVE  /\ FilledRouter(n)[n].found
         /\ LinksBehind(fabric, n) # {} =>
              \E e \in LinksBehind(fabric, n) : LineAt(FilledRouter(n), n) = IndexBehind(e)
<1> DEFINE f == fabric
           spines == {e \in f.links : e[1] = n /\ IsSpine(Peer(e))}
           known == {e \in spines : Device[Peer(e)] \in RouterHosts}
           S == IF known = {} THEN spines ELSE known
           q == [rec[n] EXCEPT !.found = TRUE]
           r2 == FilledRouter(n)
           last == LastPort(S)
<1>1. f \in Discovered /\ rec \in [Nodes -> Positions] /\ rec[n] \in Positions
  BY DEF Typing
<1>2. r2[n] = IF spines = {} THEN q ELSE AtRouterSlot(q, Cable[last])
  BY <1>1 DEF FilledRouter
<1>3. q.found = TRUE /\ q \in Positions
  BY <1>1, MarkedFound DEF Positions
<1>4. \A e : AtRouterSlot(q, e).found = TRUE
  BY DEF AtRouterSlot
<1>5. ASSUME LinksBehind(f, n) # {}
      PROVE  \E e \in LinksBehind(f, n) : LineAt(r2, n) = IndexBehind(e)
  <2>1. ~IsSpine(n) /\ ~IsLine(n)
    BY FacesAre
  <2>2. PICK d \in LinksBehind(f, n) : TRUE
    BY <1>5
  <2>3. d \in InsideOf(f) /\ Peer(d) = n /\ Device[d[1]] \in RouterHosts /\ IsSpine(d[1])
    BY <1>1, <2>1, <2>2, BehindIsSpine
  <2>4. Cable[d] \in f.links /\ Cable[Cable[d]] = d
    BY <1>1, <2>3, FabricParts, FabricAssumption, InsideParts
  <2>5. Cable[d] \in known
    BY <2>3, <2>4 DEF Peer
  <2>6. \A e \in known : e \in f.links /\ e[1] = n /\ e[2] \in 1..36 /\ Device[Peer(e)] \in RouterHosts
    <3> TAKE e \in known
    <3>1. e \in DOMAIN Cable /\ IsSpine(Peer(e))
      BY <1>1, FabricParts
    <3> QED BY <3>1, LinkParts DEF IsSpine
  <2>7. S = known /\ spines # {}
    BY <2>5
  <2> HIDE DEF S, known, spines
  <2>8. last \in known
    BY <2>5, <2>6, <2>7, LastPortIsOne
  <2> DEFINE c == Cable[last]
  <2>9. /\ last \in f.links /\ last[1] = n /\ Device[c[1]] \in RouterHosts
        /\ last \in DOMAIN Cable
    BY <1>1, <2>6, <2>8, FabricParts DEF Peer
  <2>10. c \in f.links /\ Cable[c] = last
    BY <1>1, <2>9, FabricParts, FabricAssumption
  <2>11. r2[n] = AtRouterSlot(q, c)
    BY <1>2, <2>7
  <2> HIDE DEF c, q, last, r2
  <2>12. Peer(c) = n
    BY <2>9, <2>10 DEF Peer
  <2>13. c \in LinksBehind(f, n)
    BY <2>9, <2>10, <2>12, HostsHaveNoFace DEF LinksBehind, InsideOf, IsInside
  <2>14. r2[n].slot = LineSlot(Device[c[1]], c[2]) /\ r2[n].chip = RouterChip(c[1], c[2])
    BY <2>9, <2>11 DEF AtRouterSlot
  <2>15. LineAt(r2, n) = IndexBehind(c)
    BY <2>12, <2>14 DEF LineAt, IndexBehind, ChipBehind
  <2> QED BY <2>13, <2>15
<1> QED BY <1>2, <1>3, <1>4, <1>5

LEMMA LineLearnt ==
  ASSUME PlacesAsBuilt, Typing, NEW n \in Nodes, IsLine(n)
  PROVE  /\ FilledLine(n)[n].found
         /\ LinksBehind(fabric, n) # {} =>
              \E e \in LinksBehind(fabric, n) : LineAt(FilledLine(n), n) = IndexBehind(e)
<1> DEFINE f == fabric
           inside == LinksIn(n, LinePorts(n))
           q == [rec[n] EXCEPT !.found = TRUE]
           r2 == FilledLine(n)
           first == FirstPort(inside)
<1>1. f \in Discovered /\ rec \in [Nodes -> Positions] /\ rec[n] \in Positions
  BY DEF Typing
<1>2. r2[n] = IF inside = {} THEN q ELSE AtLineSlot(q, Cable[first])
  BY <1>1 DEF FilledLine
<1>3. q.found = TRUE /\ q \in Positions
  BY <1>1, MarkedFound DEF Positions
<1>4. \A e : AtLineSlot(q, e).found = TRUE
  BY <1>3 DEF AtLineSlot, Positions
<1>5. ASSUME LinksBehind(f, n) # {}
      PROVE  \E e \in LinksBehind(f, n) : LineAt(r2, n) = IndexBehind(e)
  <2>1. inside = {e \in InsideOf(f) : e[1] = n}
    BY InsideLinksAre
  <2>2. PICK d \in LinksBehind(f, n) : TRUE
    BY <1>5
  <2>3. Cable[d] \in inside
    <3>1. d \in InsideOf(f) /\ Peer(d) = n
      BY <2>2 DEF LinksBehind
    <3> QED BY <1>1, <2>1, <3>1, BackInside
  <2>4. \A e \in inside : e[2] \in Nat
    BY <1>1, <2>1, InsideParts
  <2>5. first \in inside
    <3> HIDE DEF inside
    <3> QED BY <2>3, <2>4, FirstPortIsOne
  <2> DEFINE c == Cable[first]
  <2>6. first \in InsideOf(f) /\ first[1] = n
    BY <2>1, <2>5
  <2>7. IsSpine(Peer(first))
    BY <1>1, <2>6, InsideParts
  <2>8. c \in InsideOf(f) /\ c[1] = Peer(first) /\ Peer(c) = n
    BY <1>1, <2>6, <2>7, BackInside
  <2>9. r2[n] = AtLineSlot(q, c)
    BY <1>2, <2>3
  <2> HIDE DEF c, q, first, r2, inside
  <2>10. Device[c[1]] \in Spines
    BY <2>7, <2>8 DEF IsSpine
  <2>11. r2[n].slot = LineSlot(Device[c[1]], c[2]) /\ r2[n].chip = LineChip(Device[c[1]], c[2])
    BY <2>9, <2>10 DEF AtLineSlot
  <2>12. Device[n] # "router"
    BY FacesAre
  <2>13. LineAt(r2, n) = IndexBehind(c)
    BY <2>8, <2>11, <2>12 DEF LineAt, IndexBehind, ChipBehind
  <2> QED BY <2>8, <2>13 DEF LinksBehind
<1> QED BY <1>2, <1>3, <1>4, <1>5

LEMMA SpineLearnt ==
  ASSUME SlotsAsBuilt, PlacesAsBuilt, Typing, NEW n \in Nodes, IsSpine(n), ~rec[n].found,
         rec[n].slot = 0 /\ rec[n].chip = 0
  PROVE  /\ IsLearnt(fabric, FilledSpine(n), n)
         /\ \A m \in Nodes : rec[m].found => FilledSpine(n)[m].found
         /\ \A m \in Nodes \ {n} :
              \/ FilledSpine(n)[m] = rec[m]
              \/ /\ m \notin Switches /\ FilledSpine(n)[m].found
                 /\ \E e \in LinksBehind(fabric, m) : LineAt(FilledSpine(n), m) = IndexBehind(e)
<1> DEFINE f == fabric
           inside == LinksIn(n, SpinePorts(n))
           lines == {e \in inside : Peer(e) \in Switches}
           routers == {e \in inside : Peer(e) \notin Switches /\ ~rec[Peer(e)].found}
           q == [rec[n] EXCEPT !.found = TRUE]
           r2 == FilledSpine(n)
           To(m) == {e \in routers : Peer(e) = m}
<1>1. f \in Discovered /\ rec \in [Nodes -> Positions] /\ rec[n] \in Positions
  BY DEF Typing
<1>2. inside = {e \in InsideOf(f) : e[1] = n}
  BY InsideLinksAre
<1>3. lines = SwitchLinks(f, n)
  BY <1>2 DEF SwitchLinks, InsideOf
<1>4. \A m \in Nodes :
        r2[m] = CASE m = n -> IF lines = {} THEN q ELSE AtSpineSlot(q, n, Cable[FirstPort(lines)])
                  [] m # n /\ To(m) # {} -> AtRouterSlot(rec[m], FirstPort(To(m)))
                  [] OTHER -> rec[m]
  <2> TAKE m \in Nodes
  <2>1. r2[m] =
          CASE m = n -> IF lines = {} THEN q ELSE AtSpineSlot(q, n, Cable[FirstPort(lines)])
            [] m # n /\ \E e \in routers : Peer(e) = m -> AtRouterSlot(rec[m], FirstPort(To(m)))
            [] OTHER -> rec[m]
    BY DEF FilledSpine
  <2>2. (\E e \in routers : Peer(e) = m) <=> To(m) # {}
    OBVIOUS
  <2> HIDE DEF To, routers, lines, q, r2
  <2> QED BY <2>1, <2>2
<1>5. q.found = TRUE /\ q.slot = 0 /\ q.chip = 0
  BY <1>1 DEF Positions
<1>6. \A e \in inside : e[2] \in Nat /\ e \in InsideOf(f) /\ e[1] = n
  BY <1>1, <1>2, InsideParts
<1>7. \A m \in Nodes : To(m) # {} =>
        /\ FirstPort(To(m)) \in InsideOf(f) /\ FirstPort(To(m))[1] = n
        /\ Peer(FirstPort(To(m))) = m /\ m \notin Switches
  <2> SUFFICES ASSUME NEW m \in Nodes, To(m) # {}
               PROVE  FirstPort(To(m)) \in To(m)
    BY <1>6
  <2>1. \A e \in To(m) : e[2] \in Nat
    BY <1>6
  <2> HIDE DEF To
  <2> QED BY <2>1, FirstPortIsOne
<1>8. \A e \in InsideOf(f) : e[1] = n /\ Peer(e) \notin Switches =>
        rec[Peer(e)].found \/ To(Peer(e)) # {}
  BY <1>2
<1> HIDE DEF inside, lines, routers, q, r2, To
<1>9. r2[n].found
  <2>1. r2[n] = IF lines = {} THEN q ELSE AtSpineSlot(q, n, Cable[FirstPort(lines)])
    BY <1>4
  <2> QED BY <1>5, <2>1 DEF AtSpineSlot
<1>10. \A m \in Nodes \ {n} : To(m) # {} => r2[m] = AtRouterSlot(rec[m], FirstPort(To(m)))
  BY <1>4
<1>11. \A m \in Nodes \ {n} : To(m) # {} => r2[m].found
  <2>1. \A r, e : AtRouterSlot(r, e).found = TRUE
    BY DEF AtRouterSlot
  <2> QED BY <1>10, <2>1
<1>12. \A m \in Nodes : rec[m].found => r2[m].found
  <2> TAKE m \in Nodes
  <2>1. CASE m = n
    BY <1>9, <2>1
  <2>2. CASE m # n /\ To(m) = {}
    <3>1. r2[m] = rec[m]
      BY <1>4, <2>2
    <3> QED BY <3>1
  <2>3. CASE m # n /\ To(m) # {}
    BY <1>11, <2>3
  <2> QED BY <2>1, <2>2, <2>3
<1>13. IsLearnt(f, r2, n)
  <2>1. ASSUME SpineAt(r2, n) \in 1..SpinesMax
        PROVE  SwitchLinks(f, n) # {} /\ SpineAt(r2, n) = SpinePlace(f.links, n)
    <3>1. lines # {}
      <4> SUFFICES ASSUME lines = {} PROVE FALSE
        OBVIOUS
      <4>1. r2[n].slot = 0 /\ r2[n].chip = 0
        BY <1>4, <1>5
      <4>2. SpineAt(r2, n) \in {-3, -2, 0}
        BY <4>1 DEF SpineAt
      <4> QED BY <2>1, <4>2 DEF SpinesMax
    <3> DEFINE e == Cable[FirstPort(lines)]
    <3>2. r2[n] = AtSpineSlot(q, n, e)
      BY <1>4, <3>1
    <3>3. r2[n].slot = SpineSlot(Device[n], e[2]) /\ r2[n].chip = SpineChip(Device[n], e[2])
      BY <3>2 DEF AtSpineSlot
    <3>4. e = Cable[FirstPort({d \in f.links : d[1] = n /\ IsInside(d) /\ Peer(d) \in Switches})]
      BY <1>3 DEF SwitchLinks
    <3> HIDE DEF e
    <3>5. SpineAt(r2, n) = SpinePlace(f.links, n)
      BY <3>3, <3>4 DEF SpineAt, SpinePlace
    <3> QED BY <1>3, <3>1, <3>5
  <2>2. \A e \in InsideOf(f) : e[1] = n /\ Peer(e) \notin Switches => r2[Peer(e)].found
    <3> SUFFICES ASSUME NEW e \in InsideOf(f), e[1] = n, Peer(e) \notin Switches
                 PROVE  r2[Peer(e)].found
      OBVIOUS
    <3>1. Peer(e) \in Nodes
      BY <1>1, InsideParts
    <3>2. Peer(e) # n
      <4>1. n \in Switches
        BY DEF SlotsAsBuilt
      <4> QED BY <4>1
    <3> QED BY <1>8, <1>11, <1>12, <3>1, <3>2
  <2> QED BY <1>9, <2>1, <2>2 DEF IsLearnt
<1>14. ASSUME NEW m \in Nodes \ {n}, r2[m] # rec[m]
       PROVE  /\ m \notin Switches /\ r2[m].found
              /\ \E e \in LinksBehind(f, m) : LineAt(r2, m) = IndexBehind(e)
  <2>1. To(m) # {}
    BY <1>4, <1>14
  <2> DEFINE e == FirstPort(To(m))
  <2>2. e \in InsideOf(f) /\ e[1] = n /\ Peer(e) = m /\ m \notin Switches
    BY <1>7, <2>1
  <2>3. r2[m] = AtRouterSlot(rec[m], e)
    BY <1>10, <2>1
  <2> HIDE DEF e
  <2>4. e \in LinksBehind(f, m)
    BY <2>2 DEF LinksBehind
  <2>5. ~IsSpine(m) /\ ~IsLine(m)
    BY <2>2 DEF SlotsAsBuilt
  <2>6. Device[m] = "router" /\ Device[n] \in RouterHosts
    BY <1>1, <2>2, <2>4, <2>5, BehindIsSpine
  <2>7. r2[m].slot = LineSlot(Device[n], e[2]) /\ r2[m].chip = RouterChip(n, e[2])
    BY <2>2, <2>3, <2>6 DEF AtRouterSlot
  <2>8. LineAt(r2, m) = IndexBehind(e)
    BY <2>2, <2>6, <2>7 DEF LineAt, IndexBehind, ChipBehind
  <2> QED BY <1>11, <2>1, <2>2, <2>4, <2>8
<1> QED BY <1>12, <1>13, <1>14 DEF r2

\* A turn of the first loop.
LEMMA FilledLearnt ==
  ASSUME SlotsAsBuilt, VoltaireInside, PlacesAsBuilt, Typing, NEW n \in Nodes,
         \A m \in Nodes : Vendor[m] = "VTR" => IsLearnt(fabric, rec, m)
  PROVE  /\ \A m \in Nodes : Vendor[m] = "VTR" => IsLearnt(fabric, Filled(n), m)
         /\ \A m \in Nodes : rec[m].found => Filled(n)[m].found
         /\ n \in Switches /\ Vendor[n] = "VTR" => Filled(n)[n].found
<1> DEFINE f == fabric
           Grows(r2) == \A m \in Nodes : rec[m].found => r2[m].found
           Good(r2) == Grows(r2) /\ \A m \in Nodes : Vendor[m] = "VTR" => IsLearnt(f, r2, m)
<1>1. f \in Discovered /\ rec \in [Nodes -> Positions]
  BY DEF Typing
<1>2. \A e \in InsideOf(f) : Peer(e) \in Nodes
  BY <1>1, InsideParts
<1>3. ASSUME NEW r2, Grows(r2), NEW m \in Nodes, Vendor[m] = "VTR", r2[m] = rec[m]
      PROVE  IsLearnt(f, r2, m)
  BY <1>2, <1>3, LearntStays
<1>4. Good(rec)
  OBVIOUS
<1>5. ASSUME NEW r2, r2[n].found, ~IsSpine(n),
             \A m \in Nodes \ {n} : r2[m] = rec[m],
             LinksBehind(f, n) # {} => \E e \in LinksBehind(f, n) : LineAt(r2, n) = IndexBehind(e)
      PROVE  Good(r2)
  <2>1. Grows(r2)
    BY <1>5
  <2>2. IsLearnt(f, r2, n)
    BY <1>5 DEF IsLearnt
  <2> HIDE DEF Grows
  <2> QED BY <1>3, <1>5, <2>1, <2>2
<1>6. ASSUME Vendor[n] = "VTR", ~rec[n].found
      PROVE  Good(FilledVoltaire(n)) /\ FilledVoltaire(n)[n].found
  <2>1. CASE Device[n] = "router"
    <3>1. FilledVoltaire(n) = FilledRouter(n) /\ ~IsSpine(n)
      BY <1>6, <2>1, FacesAre DEF FilledVoltaire
    <3>2. \A m \in Nodes \ {n} : FilledRouter(n)[m] = rec[m]
      BY <1>1 DEF FilledRouter
    <3>3. /\ FilledRouter(n)[n].found
          /\ LinksBehind(f, n) # {} =>
               \E e \in LinksBehind(f, n) : LineAt(FilledRouter(n), n) = IndexBehind(e)
      BY <2>1, RouterLearnt
    <3> HIDE DEF Good
    <3> QED BY <1>5, <3>1, <3>2, <3>3
  <2>2. CASE IsLine(n)
    <3>1. FilledVoltaire(n) = FilledLine(n) /\ ~IsSpine(n)
      <4>1. Device[n] # "router" /\ ~IsSpine(n)
        BY <2>2, FacesAre
      <4> QED BY <1>6, <2>2, <4>1 DEF FilledVoltaire
    <3>2. \A m \in Nodes \ {n} : FilledLine(n)[m] = rec[m]
      BY <1>1 DEF FilledLine
    <3>3. /\ FilledLine(n)[n].found
          /\ LinksBehind(f, n) # {} =>
               \E e \in LinksBehind(f, n) : LineAt(FilledLine(n), n) = IndexBehind(e)
      BY <2>2, LineLearnt
    <3> HIDE DEF Good
    <3> QED BY <1>5, <3>1, <3>2, <3>3
  <2>3. CASE IsSpine(n)
    <3>1. FilledVoltaire(n) = FilledSpine(n)
      <4>1. Device[n] # "router" /\ ~IsLine(n)
        BY <2>3, FacesAre
      <4> QED BY <1>6, <2>3, <4>1 DEF FilledVoltaire
    <3>2. rec[n].slot = 0 /\ rec[n].chip = 0
      BY <1>6 DEF IsLearnt
    <3> DEFINE r2 == FilledSpine(n)
    <3>3. /\ IsLearnt(f, r2, n)
          /\ Grows(r2)
          /\ \A m \in Nodes \ {n} :
               \/ r2[m] = rec[m]
               \/ /\ m \notin Switches /\ r2[m].found
                  /\ \E e \in LinksBehind(f, m) : LineAt(r2, m) = IndexBehind(e)
      BY <1>6, <2>3, <3>2, SpineLearnt
    <3> HIDE DEF r2, Grows
    <3>4. ASSUME NEW m \in Nodes, Vendor[m] = "VTR" PROVE IsLearnt(f, r2, m)
      <4>1. CASE m = n
        BY <3>3, <4>1
      <4>2. CASE m # n /\ r2[m] = rec[m]
        BY <1>3, <3>3, <3>4, <4>2
      <4>3. CASE m # n /\ r2[m] # rec[m]
        <5>1. /\ m \notin Switches /\ r2[m].found
              /\ \E e \in LinksBehind(f, m) : LineAt(r2, m) = IndexBehind(e)
          BY <3>3, <4>3
        <5>2. ~IsSpine(m)
          BY <5>1 DEF SlotsAsBuilt
        <5> QED BY <5>1, <5>2 DEF IsLearnt
      <4> QED BY <4>1, <4>2, <4>3
    <3>5. r2[n].found
      <4> DEFINE lines == {e \in LinksIn(n, SpinePorts(n)) : Peer(e) \in Switches}
                 q == [rec[n] EXCEPT !.found = TRUE]
      <4>1. r2[n] = IF lines = {} THEN q ELSE AtSpineSlot(q, n, Cable[FirstPort(lines)])
        BY DEF FilledSpine, r2
      <4>2. q.found
        BY <1>1 DEF Positions
      <4> HIDE DEF q, lines
      <4> QED BY <4>1, <4>2 DEF AtSpineSlot
    <3> QED BY <3>1, <3>3, <3>4, <3>5 DEF r2
  <2>4. CASE Device[n] # "router" /\ ~IsLine(n) /\ ~IsSpine(n)
    <3> DEFINE r2 == [rec EXCEPT ![n].found = TRUE]
    <3>1. FilledVoltaire(n) = r2
      BY <1>6, <2>4 DEF FilledVoltaire
    <3>2. r2[n].found /\ \A m \in Nodes \ {n} : r2[m] = rec[m]
      BY <1>1 DEF Positions
    <3>3. LinksBehind(f, n) = {}
      BY <1>1, <2>4, BehindIsSpine
    <3> HIDE DEF r2, Good
    <3> QED BY <1>5, <2>4, <3>1, <3>2, <3>3
  <2> QED BY <2>1, <2>2, <2>3, <2>4
<1>7. ASSUME Vendor[n] = "VTR"
      PROVE  Good(FilledVoltaire(n)) /\ FilledVoltaire(n)[n].found
  <2>1. rec[n].found => FilledVoltaire(n) = rec
    BY DEF FilledVoltaire
  <2> HIDE DEF Good
  <2> QED BY <1>4, <1>6, <1>7, <2>1
<1>8. Vendor[n] = "MLX" => Good(FilledMellanox(n))
  <2> SUFFICES ASSUME Vendor[n] = "MLX" PROVE Good(FilledMellanox(n))
    OBVIOUS
  <2> DEFINE r2 == FilledMellanox(n)
  <2>1. \A m \in Nodes \ {n} : r2[m] = rec[m]
    BY <1>1 DEF FilledMellanox
  <2>2. rec[n].found => r2 = rec
    BY DEF FilledMellanox
  <2> HIDE DEF r2
  <2>3. Grows(r2)
    BY <2>1, <2>2
  <2> HIDE DEF Grows
  <2> QED BY <1>3, <2>1, <2>3 DEF r2
<1>9. Good(Filled(n))
  <2> HIDE DEF Good
  <2> QED BY <1>4, <1>7, <1>8 DEF Filled
<1>10. n \in Switches /\ Vendor[n] = "VTR" => Filled(n)[n].found
  BY <1>7 DEF Filled
<1> QED BY <1>9, <1>10

------------------------------------------------------------------------------
(* The chassis objects and an assembly: none has its boards, or one has    *)
(* them all.  One that is being built has what its passes have reached,    *)
(* and what it has not lies behind a port that is still to be visited.     *)

Learnt == \A n \in Nodes : Vendor[n] = "VTR" => IsLearnt(fabric, rec, n)

AllFound ==
  \A n \in (IF pc = "fill" THEN Ahead(fabric.order, at) ELSE Present) :
    n \in Switches /\ Vendor[n] = "VTR" => rec[n].found

\* The boards that a pass starts from.
IsFrom(p, n) == IF p \in {1, 3} THEN IsLine(n) ELSE IsSpine(n)

VisitsAreFrom ==
  pc = "build" =>
    /\ IsSpine(node)
    /\ \A e \in visits :
         e \in InsideOf(fabric) /\ e[1] \in Boards(Current) /\ IsFrom(pass, e[1])

SlotsRight(r, ch) ==
  /\ \A i \in DOMAIN ch.line : ~IsSpine(ch.line[i]) /\ LineAt(r, ch.line[i]) = i
  /\ \A i \in DOMAIN ch.spine : IsSpine(ch.spine[i]) /\ SpineAt(r, ch.spine[i]) = i

\* A chassis object that has boards of K but was left: its number is 0, the number
\* that stands for none.
OthersLeft(chs, K, c) ==
  \A d \in 1..Len(chs) : d # c /\ BoardsIn(chs[d]) \cap K # {} => chs[d].num = 0

IsUntouched(chs, of, K) ==
  (\A n \in K : of[n] = 0) /\ \A d \in 1..Len(chs) : BoardsIn(chs[d]) \cap K = {}

IsHeldBy(chs, of, r, K, c) ==
  /\ c \in 1..Len(chs) /\ BoardsIn(chs[c]) = K /\ SlotsRight(r, chs[c])
  /\ chs[c].guid.maker = "VTR"
  /\ \A n \in K : of[n] = c
  /\ OthersLeft(chs, K, c)

IsKept(chs, of, r, K) == IsUntouched(chs, of, K) \/ \E c \in 1..Len(chs) : IsHeldBy(chs, of, r, K, c)

\* In pass p of the chassis that spine s started, with the ports vis to visit.
IsBuilt(f, chs, of, r, vis, s, p, K) ==
  LET c == Len(chs)
      boards == BoardsIn(chs[c])
  IN  /\ boards \subseteq K /\ SlotsRight(r, chs[c])
      /\ \A n \in boards : of[n] = c
      /\ OthersLeft(chs, K, c)
      /\ Reach(f, s, p) \subseteq boards
      /\ \A e \in InsideOf(f) :
           e[1] \in boards /\ (IsFrom(p, e[1]) \/ e[1] \in Reach(f, s, p))
             => Peer(e) \in boards \/ e \in vis

\* The nodes that the second loop has passed.
Searched ==
  IF pc \in {"search", "build"} THEN Ahead(fabric.order, at)
  ELSE IF pc = "fill" THEN {} ELSE Present

AssemblyOk(K) ==
  /\ pc = "fill" => IsUntouched(chassis, chassisOf, K)
  /\ pc = "build" /\ node \in K =>
       IsBuilt(fabric, chassis, chassisOf, rec, visits, node, pass, K)
  /\ ~(pc = "build" /\ node \in K) => IsKept(chassis, chassisOf, rec, K)
  /\ pc = "build" /\ node \notin K => Boards(Current) \cap K = {}
  /\ \A s \in K \cap Searched : IsSpine(s) => chassisOf[s] # 0

Assemblies == pc # "failed" => \A K \in SUBSET Nodes : IsAssembly(fabric, K) => AssemblyOk(K)

BuildInv == GroupInv /\ Learnt /\ AllFound /\ VisitsAreFrom /\ Assemblies

\* Boards of one box in one slot are one board, and a line board has a slot.
LEMMA OneInSlot ==
  ASSUME PlacesAsBuilt, NEW f \in Discovered, NEW r, NEW K, IsAssembly(f, K),
         \A n \in K : r[n].found /\ IsLearnt(f, r, n)
  PROVE  /\ \A n \in K : ~IsSpine(n) => LineAt(r, n) \in 1..LinesMax
         /\ \A m, n \in K : Box[m] = Box[n] /\ ~IsSpine(m) /\ ~IsSpine(n)
                              /\ LineAt(r, m) = LineAt(r, n) => m = n
         /\ \A m, n \in K : Box[m] = Box[n] /\ IsSpine(m) /\ IsSpine(n)
                              /\ SpineAt(r, m) = SpineAt(r, n) /\ SpineAt(r, n) \in 1..SpinesMax
                              => m = n
<1>1. ASSUME NEW n \in K, ~IsSpine(n)
      PROVE  \E e \in DOMAIN Cable : /\ IsSpine(e[1]) /\ IsInside(e) /\ Peer(e) = n
                                     /\ Box[e[1]] = Box[n] /\ LineAt(r, n) = IndexBehind(e)
  <2>1. LinksBehind(f, n) # {}
    BY <1>1 DEF IsAssembly, LinksBehind
  <2>2. PICK e \in LinksBehind(f, n) : LineAt(r, n) = IndexBehind(e)
    BY <1>1, <2>1 DEF IsLearnt
  <2>3. e \in InsideOf(f) /\ IsSpine(e[1]) /\ Peer(e) = n
    BY <1>1, <2>2, BehindIsSpine
  <2>4. e \in DOMAIN Cable /\ IsInside(e) /\ Box[e[1]] = Box[n]
    BY <2>3, InsideParts
  <2> QED BY <2>2, <2>3, <2>4
<1>2. \A n \in K : ~IsSpine(n) => LineAt(r, n) \in 1..LinesMax
  BY <1>1 DEF PlacesAsBuilt, LinesApart
<1>3. \A m, n \in K : Box[m] = Box[n] /\ ~IsSpine(m) /\ ~IsSpine(n)
                        /\ LineAt(r, m) = LineAt(r, n) => m = n
  <2> SUFFICES ASSUME NEW m \in K, NEW n \in K, Box[m] = Box[n], ~IsSpine(m), ~IsSpine(n),
                      LineAt(r, m) = LineAt(r, n)
               PROVE  m = n
    OBVIOUS
  <2>1. PICK d \in DOMAIN Cable : /\ IsSpine(d[1]) /\ IsInside(d) /\ Peer(d) = m
                                  /\ Box[d[1]] = Box[m] /\ LineAt(r, m) = IndexBehind(d)
    BY <1>1
  <2>2. PICK e \in DOMAIN Cable : /\ IsSpine(e[1]) /\ IsInside(e) /\ Peer(e) = n
                                  /\ Box[e[1]] = Box[n] /\ LineAt(r, n) = IndexBehind(e)
    BY <1>1
  <2> QED BY <2>1, <2>2 DEF PlacesAsBuilt, LinesApart
<1>4. \A m, n \in K : Box[m] = Box[n] /\ IsSpine(m) /\ IsSpine(n)
                        /\ SpineAt(r, m) = SpineAt(r, n) /\ SpineAt(r, n) \in 1..SpinesMax
                        => m = n
  <2> SUFFICES ASSUME NEW m \in K, NEW n \in K, Box[m] = Box[n], IsSpine(m), IsSpine(n),
                      SpineAt(r, m) = SpineAt(r, n), SpineAt(r, n) \in 1..SpinesMax
               PROVE  m = n
    OBVIOUS
  <2>1. PICK d \in SwitchLinks(f, m) : SpineAt(r, m) = SpinePlace(f.links, m)
    BY DEF IsLearnt
  <2>2. PICK e \in SwitchLinks(f, n) : SpineAt(r, n) = SpinePlace(f.links, n)
    BY DEF IsLearnt
  <2>3. /\ d \in f.links /\ d[1] = m /\ IsInside(d) /\ Peer(d) \in Switches
        /\ e \in f.links /\ e[1] = n /\ IsInside(e) /\ Peer(e) \in Switches
    BY <2>1, <2>2 DEF SwitchLinks
  <2> QED BY <2>1, <2>2, <2>3 DEF PlacesAsBuilt, SpinesApart
<1> QED BY <1>2, <1>3, <1>4

\* After the first loop the nodes of an assembly have their records.
LEMMA AssemblyFound ==
  ASSUME SlotsAsBuilt, BuildInv, pc # "fill", NEW K, IsAssembly(fabric, K)
  PROVE  \A n \in K : rec[n].found /\ IsLearnt(fabric, rec, n) /\ n \in Present
<1> SUFFICES ASSUME NEW n \in K PROVE rec[n].found /\ IsLearnt(fabric, rec, n) /\ n \in Present
  OBVIOUS
<1>1. Typing /\ fabric \in Discovered /\ fabric.order \in Seq(Nodes)
  BY FabricParts DEF BuildInv, GroupInv, OneBox, Typing
<1>2. n \in Nodes /\ Vendor[n] = "VTR" /\ \E i \in DOMAIN fabric.order : fabric.order[i] = n
  BY DEF IsAssembly
<1>3. \A m \in K : m \in Present
  <2> TAKE m \in K
  <2>1. \E i \in DOMAIN fabric.order : fabric.order[i] = m
    BY DEF IsAssembly
  <2>2. DOMAIN fabric.order = 1..Len(fabric.order)
    BY <1>1
  <2> QED BY <2>1, <2>2 DEF Present
<1>4. \A m \in K : m \in Switches => rec[m].found
  BY <1>3 DEF BuildInv, AllFound, IsAssembly
<1>5. CASE n \in Switches
  BY <1>2, <1>3, <1>4, <1>5 DEF BuildInv, Learnt
<1>6. CASE n \notin Switches
  <2>1. ~IsSpine(n) /\ ~IsLine(n)
    BY <1>2, <1>6 DEF SlotsAsBuilt
  <2>2. PICK e \in InsideOf(fabric) : Peer(e) = n
    BY <2>1 DEF IsAssembly
  <2>3. e[1] \in K /\ (IsLine(e[1]) \/ IsSpine(e[1])) /\ (IsLine(e[1]) => IsSpine(n))
    BY <1>1, <2>2, InsideParts DEF IsAssembly
  <2>4. IsSpine(e[1]) /\ e[1] \in Nodes /\ Vendor[e[1]] = "VTR"
    BY <2>1, <2>3 DEF IsAssembly
  <2>5. e[1] \in Switches
    BY <2>4 DEF SlotsAsBuilt
  <2>6. rec[e[1]].found /\ IsLearnt(fabric, rec, e[1])
    BY <1>4, <2>3, <2>4, <2>5 DEF BuildInv, Learnt
  <2>7. rec[n].found
    BY <1>6, <2>2, <2>4, <2>6 DEF IsLearnt
  <2> QED BY <1>2, <1>3, <2>7 DEF BuildInv, Learnt
<1> QED BY <1>5, <1>6

LEMMA BuildParts ==
  ASSUME BuildInv
  PROVE  /\ Typing /\ OneBox /\ GroupInv /\ fabric \in Discovered
         /\ rec \in [Nodes -> Positions] /\ chassisOf \in [Nodes -> Nat]
         /\ chassis \in Seq(ChassisSet) /\ Len(chassis) \in Nat
         /\ \A c \in 1..Len(chassis) : chassis[c] \in ChassisSet
BY DEF BuildInv, GroupInv, OneBox, Typing

\* The first loop learns the places of the boards, which no later loop changes.
LEMMA LearntStep ==
  ASSUME SlotsAsBuilt, VoltaireInside, PlacesAsBuilt, BuildInv, [Next]_vars
  PROVE  Learnt' /\ AllFound'
<1> USE BuildParts
<1>1. fabric' = fabric
  BY DEF Next, vars, FillRecord, NextLoop, SkipNode, StartChassis, CatchSpine, CatchLine, StartPass,
         EndChassis, CountNode, GroupNode, Turn
<1>2. Present' = Present
  BY <1>1, GuidsStay
<1>3. CASE rec' = rec /\ pc # "fill" /\ pc' # "fill"
  <2>1. Learnt'
    BY <1>1, <1>3 DEF BuildInv, Learnt
  <2>2. AllFound'
    BY <1>2, <1>3 DEF BuildInv, AllFound
  <2> QED BY <2>1, <2>2
<1>4. CASE FillRecord
  <2>1. /\ pc = "fill" /\ pc' = "fill" /\ rec' = Filled(node) /\ at' = at + 1
        /\ at <= Len(fabric.order) /\ node \in Nodes
    BY <1>4, NodeTyped DEF FillRecord, Turn
  <2>2. /\ \A m \in Nodes : Vendor[m] = "VTR" => IsLearnt(fabric, Filled(node), m)
        /\ \A m \in Nodes : rec[m].found => Filled(node)[m].found
        /\ node \in Switches /\ Vendor[node] = "VTR" => Filled(node)[node].found
    <3>1. \A m \in Nodes : Vendor[m] = "VTR" => IsLearnt(fabric, rec, m)
      BY DEF BuildInv, Learnt
    <3> HIDE DEF node
    <3> QED BY <2>1, <3>1, FilledLearnt
  <2>3. Learnt'
    BY <1>1, <2>1, <2>2 DEF Learnt
  <2>4. AllFound'
    <3>1. /\ Ahead(fabric.order, at + 1) = Ahead(fabric.order, at) \cup {node}
          /\ Ahead(fabric.order, at) \subseteq Nodes
      BY <2>1, AheadIs
    <3>2. \A n \in Ahead(fabric.order, at) : n \in Switches /\ Vendor[n] = "VTR" => rec[n].found
      BY <2>1 DEF BuildInv, AllFound
    <3> HIDE DEF node
    <3>3. \A n \in Ahead(fabric.order, at + 1) :
            n \in Switches /\ Vendor[n] = "VTR" => Filled(node)[n].found
      BY <2>2, <3>1, <3>2
    <3> QED BY <1>1, <2>1, <3>3 DEF AllFound
  <2> QED BY <2>3, <2>4
<1>5. CASE NextLoop
  <2>1. /\ rec' = rec /\ pc' # "fill" /\ at > Len(fabric.order)
    BY <1>5 DEF NextLoop
  <2>2. Learnt'
    BY <1>1, <2>1 DEF BuildInv, Learnt
  <2>3. Ahead(fabric.order, at) = Present
    BY <2>1, AheadIs
  <2>4. AllFound'
    BY <1>2, <2>1, <2>3 DEF BuildInv, AllFound
  <2> QED BY <2>2, <2>4
<1>6. CASE GroupNode
  <2>1. /\ pc = "group" /\ pc' = "group"
        /\ rec' \in {rec, [rec EXCEPT ![node] = [@ EXCEPT !.found = TRUE]]}
    BY <1>6 DEF GroupNode, Turn
  <2>2. \A m \in Nodes : rec[m].found => rec'[m].found
    BY <2>1 DEF Positions
  <2>3. \A m \in Nodes : Vendor[m] = "VTR" => rec'[m] = rec[m]
    <3>1. rec' # rec => Grouped(node)
      BY <1>6 DEF GroupNode
    <3> QED BY <2>1, <3>1 DEF Grouped
  <2>4. \A e \in InsideOf(fabric) : Peer(e) \in Nodes
    BY InsideParts
  <2>5. ASSUME NEW m \in Nodes, Vendor[m] = "VTR" PROVE IsLearnt(fabric, rec', m)
    <3>1. IsLearnt(fabric, rec, m) /\ rec'[m] = rec[m]
      BY <2>3, <2>5 DEF BuildInv, Learnt
    <3> QED BY <2>2, <2>4, <3>1, LearntStays
  <2>6. Learnt'
    BY <1>1, <2>5 DEF Learnt
  <2>7. AllFound'
    <3>1. Present \subseteq Nodes
      BY AheadIs
    <3> QED BY <1>2, <2>1, <2>2, <3>1 DEF BuildInv, AllFound
  <2> QED BY <2>6, <2>7
<1>7. \/ FillRecord \/ NextLoop \/ GroupNode
      \/ rec' = rec /\ pc # "fill" /\ pc' # "fill"
      \/ UNCHANGED vars
  BY DEF Next, SkipNode, StartChassis, CatchSpine, CatchLine, StartPass, EndChassis,
         CountNode, Turn, Fail
<1>8. CASE UNCHANGED vars
  <2>1. Learnt'
    BY <1>8 DEF BuildInv, Learnt, vars
  <2>2. AllFound'
    BY <1>2, <1>8 DEF BuildInv, AllFound, vars
  <2> QED BY <2>1, <2>2
<1> QED BY <1>3, <1>4, <1>5, <1>6, <1>7, <1>8

\* A board is caught: it is in its slot then, unless another one is.
LEMMA PutExact ==
  ASSUME NEW ch \in ChassisSet, NEW side \in {"line", "spine"}, NEW i \in Nat, NEW n \in Nodes,
         i \notin DOMAIN ch[side]
  PROVE  /\ BoardsIn(Put(ch, side, i, n)) = BoardsIn(ch) \cup {n}
         /\ MoreSlots(ch, Put(ch, side, i, n), side, i, n)
         /\ \A r : SlotsRight(r, ch)
                   /\ (IF side = "line" THEN ~IsSpine(n) /\ LineAt(r, n) = i
                       ELSE IsSpine(n) /\ SpineAt(r, n) = i)
                   => SlotsRight(r, Put(ch, side, i, n))
<1> DEFINE new == Put(ch, side, i, n)
<1>1. /\ side = "line" => new.spine = ch.spine /\ new.line = WithBoard(ch.line, i, n)
      /\ side = "spine" => new.spine = WithBoard(ch.spine, i, n) /\ new.line = ch.line
  BY PutTyped
<1> HIDE DEF new
<1>2. \A slots : i \notin DOMAIN slots =>
        /\ DOMAIN WithBoard(slots, i, n) = DOMAIN slots \cup {i}
        /\ WithBoard(slots, i, n)[i] = n
        /\ \A j \in DOMAIN slots : WithBoard(slots, i, n)[j] = slots[j]
  BY DEF WithBoard
<1>3. BoardsIn(new) = BoardsIn(ch) \cup {n} /\ MoreSlots(ch, new, side, i, n)
  <2>1. CASE side = "line"
    <3> DEFINE w == WithBoard(ch.line, i, n)
    <3>1. /\ DOMAIN w = DOMAIN ch.line \cup {i} /\ w[i] = n
          /\ \A j \in DOMAIN ch.line : w[j] = ch.line[j]
      BY <1>2, <2>1
    <3>2. new.line = w /\ new.spine = ch.spine
      BY <1>1, <2>1
    <3>3. MoreSlots(ch, new, side, i, n)
      BY <2>1, <3>2 DEF MoreSlots
    <3> HIDE DEF w
    <3>4. {w[j] : j \in DOMAIN w} = {ch.line[j] : j \in DOMAIN ch.line} \cup {n}
      BY <3>1
    <3> QED BY <3>2, <3>3, <3>4 DEF BoardsIn
  <2>2. CASE side = "spine"
    <3> DEFINE w == WithBoard(ch.spine, i, n)
    <3>1. /\ DOMAIN w = DOMAIN ch.spine \cup {i} /\ w[i] = n
          /\ \A j \in DOMAIN ch.spine : w[j] = ch.spine[j]
      BY <1>2, <2>2
    <3>2. new.spine = w /\ new.line = ch.line
      BY <1>1, <2>2
    <3>3. MoreSlots(ch, new, side, i, n)
      BY <2>2, <3>2 DEF MoreSlots
    <3> HIDE DEF w
    <3>4. {w[j] : j \in DOMAIN w} = {ch.spine[j] : j \in DOMAIN ch.spine} \cup {n}
      BY <3>1
    <3> QED BY <3>2, <3>3, <3>4 DEF BoardsIn
  <2> QED BY <2>1, <2>2
<1>4. ASSUME NEW r, SlotsRight(r, ch),
             IF side = "line" THEN ~IsSpine(n) /\ LineAt(r, n) = i
             ELSE IsSpine(n) /\ SpineAt(r, n) = i
      PROVE  SlotsRight(r, new)
  <2>1. CASE side = "line"
    <3>1. /\ DOMAIN new.line = DOMAIN ch.line \cup {i} /\ new.line[i] = n
          /\ \A j \in DOMAIN ch.line : new.line[j] = ch.line[j]
          /\ new.spine = ch.spine
      BY <1>1, <1>2, <2>1
    <3> QED BY <1>4, <2>1, <3>1 DEF SlotsRight
  <2>2. CASE side = "spine"
    <3>1. /\ DOMAIN new.spine = DOMAIN ch.spine \cup {i} /\ new.spine[i] = n
          /\ \A j \in DOMAIN ch.spine : new.spine[j] = ch.spine[j]
          /\ new.line = ch.line
      BY <1>1, <1>2, <2>2
    <3> QED BY <1>4, <2>2, <3>1 DEF SlotsRight
  <2> QED BY <2>1, <2>2
<1> QED BY <1>3, <1>4 DEF new

\* What Insert does to the chassis that is being built.
LEMMA InsertIs ==
  ASSUME BuildInv, pc = "build", NEW side \in {"line", "spine"}, NEW i \in Nat,
         NEW n \in Nodes, Insert(Current, side, i, n)
  PROVE  /\ Current \in 1..Len(chassis) /\ chassis[Current] \in ChassisSet
         /\ Len(chassis') = Len(chassis)
         /\ \A c \in 1..Len(chassis) : c # Current => chassis'[c] = chassis[c]
         /\ BoardsIn(chassis[Current]) \subseteq BoardsIn(chassis'[Current])
         /\ \A m \in Nodes : m # n => chassisOf'[m] = chassisOf[m]
         /\ \/ /\ i \in DOMAIN chassis[Current][side]
               /\ chassis' = chassis /\ chassisOf' = chassisOf
            \/ /\ i \notin DOMAIN chassis[Current][side]
               /\ chassis'[Current] = Put(chassis[Current], side, i, n)
               /\ BoardsIn(chassis'[Current]) = BoardsIn(chassis[Current]) \cup {n}
               /\ chassisOf'[n] = Current
<1>1. /\ Current \in 1..Len(chassis) /\ chassis[Current] \in ChassisSet
      /\ chassis \in Seq(ChassisSet) /\ chassisOf \in [Nodes -> Nat]
  BY BuildParts, SpineBoardOfCurrent
<1>2. CASE i \in DOMAIN chassis[Current][side]
  <2>1. chassis' = chassis /\ chassisOf' = chassisOf
    BY <1>2 DEF Insert
  <2> QED BY <1>1, <1>2, <2>1
<1>3. CASE i \notin DOMAIN chassis[Current][side]
  <2> DEFINE new == Put(chassis[Current], side, i, n)
  <2>1. chassis' = [chassis EXCEPT ![Current] = new] /\ chassisOf' = [chassisOf EXCEPT ![n] = Current]
    BY <1>1, <1>3 DEF Insert, Put
  <2>2. BoardsIn(new) = BoardsIn(chassis[Current]) \cup {n}
    BY <1>1, <1>3, PutExact
  <2> HIDE DEF new
  <2>3. /\ Len(chassis') = Len(chassis) /\ chassis'[Current] = new
        /\ \A c \in 1..Len(chassis) : c # Current => chassis'[c] = chassis[c]
    BY <1>1, <2>1
  <2>4. chassisOf'[n] = Current /\ \A m \in Nodes : m # n => chassisOf'[m] = chassisOf[m]
    BY <1>1, <2>1
  <2> QED BY <1>1, <1>3, <2>2, <2>3, <2>4 DEF new
<1> QED BY <1>2, <1>3

\* A board that is caught over a port of the current chassis.
LEMMA CaughtIs ==
  ASSUME BuildInv, pc = "build", NEW e \in visits
  PROVE  /\ e \in InsideOf(fabric) /\ e \in fabric.links
         /\ e[1] \in Boards(Current) /\ IsFrom(pass, e[1])
         /\ e[1] \in Nodes /\ Peer(e) \in Nodes
<1>1. e \in InsideOf(fabric) /\ e[1] \in Boards(Current) /\ IsFrom(pass, e[1])
  BY DEF BuildInv, VisitsAreFrom
<1> QED BY <1>1, BuildParts, InsideParts

LEMMA CatchSteps ==
  ASSUME BuildInv, CatchSpine \/ CatchLine, pc' # "failed"
  PROVE  /\ pc = "build" /\ UNCHANGED <<fabric, pc, at, rec, pass, numbered>>
         /\ \E e \in visits :
              /\ visits' = visits \ {e}
              /\ \/ /\ pass \in {1, 3} /\ SpineIndex(Peer(e)) \in 1..SpinesMax
                    /\ Insert(Current, "spine", SpineIndex(Peer(e)), Peer(e))
                 \/ /\ pass \in {0, 2, 4} /\ LineIndex(Peer(e)) \in 1..LinesMax
                    /\ Insert(Current, "line", LineIndex(Peer(e)), Peer(e))
                 \/ /\ pass = 0 /\ LineIndex(Peer(e)) \notin 1..LinesMax
                    /\ UNCHANGED <<chassis, chassisOf>>
<1>1. CASE CatchSpine
  <2>1. PICK e \in visits :
          /\ SpineIndex(Peer(e)) \in 1..SpinesMax
          /\ Insert(Current, "spine", SpineIndex(Peer(e)), Peer(e))
          /\ visits' = visits \ {e}
          /\ UNCHANGED <<pc, at, rec, pass>>
    BY <1>1 DEF CatchSpine, Fail
  <2> HIDE DEF Insert
  <2> QED BY <1>1, <2>1 DEF CatchSpine
<1>2. CASE CatchLine
  <2>1. PICK e \in visits :
          /\ visits' = visits \ {e} /\ UNCHANGED <<pc, at, rec, pass>>
          /\ \/ /\ LineIndex(Peer(e)) \in 1..LinesMax
                /\ Insert(Current, "line", LineIndex(Peer(e)), Peer(e))
             \/ /\ pass = 0 /\ LineIndex(Peer(e)) \notin 1..LinesMax
                /\ UNCHANGED <<chassis, chassisOf>>
    BY <1>2 DEF CatchLine, Fail
  <2> QED BY <1>2, <2>1 DEF CatchLine
<1> QED BY <1>1, <1>2

LEMMA VisitsStep ==
  ASSUME SlotsAsBuilt, BuildInv, [Next]_vars
  PROVE  VisitsAreFrom'
<1> USE BuildParts
<1>1. fabric' = fabric
  BY DEF Next, vars, FillRecord, NextLoop, SkipNode, StartChassis, CatchSpine, CatchLine, StartPass,
         EndChassis, CountNode, GroupNode, Turn
<1>2. CASE pc' # "build"
  BY <1>2 DEF VisitsAreFrom
<1>3. CASE UNCHANGED vars
  BY <1>3 DEF BuildInv, VisitsAreFrom, vars, node, Current, Boards
<1>4. CASE StartChassis /\ SpineIndex(node) \in 1..SpinesMax
  <2>1. /\ IsSpine(node) /\ pass' = 0 /\ at' = at
        /\ visits' \subseteq LinksIn(node, SpinePorts(node))
    BY <1>4 DEF StartChassis, StartsChassis, Initialized
  <2>2. BoardsIn(chassis'[Len(chassis')]) = {node}
    BY <1>4, StartedTyped
  <2>3. node' = node /\ Boards(Current)' = {node}
    BY <1>1, <2>1, <2>2 DEF node, Current, Boards
  <2>4. \A e \in visits' : e \in InsideOf(fabric) /\ e[1] = node
    BY <2>1, InsideLinksAre
  <2> HIDE DEF node
  <2> QED BY <1>1, <2>1, <2>3, <2>4 DEF VisitsAreFrom, IsFrom, IsSpine
<1>5. CASE (CatchSpine \/ CatchLine) /\ pc' # "failed"
  <2>1. /\ pc = "build" /\ UNCHANGED <<fabric, pc, at, rec, pass, numbered>>
    BY <1>5, CatchSteps
  <2>2. PICK e \in visits :
              /\ visits' = visits \ {e}
              /\ \/ /\ pass \in {1, 3} /\ SpineIndex(Peer(e)) \in 1..SpinesMax
                    /\ Insert(Current, "spine", SpineIndex(Peer(e)), Peer(e))
                 \/ /\ pass \in {0, 2, 4} /\ LineIndex(Peer(e)) \in 1..LinesMax
                    /\ Insert(Current, "line", LineIndex(Peer(e)), Peer(e))
                 \/ /\ pass = 0 /\ LineIndex(Peer(e)) \notin 1..LinesMax
                    /\ UNCHANGED <<chassis, chassisOf>>
    BY <1>5, CatchSteps
  <2>3. Peer(e) \in Nodes
    BY <2>1, CaughtIs
  <2>4. /\ Len(chassis') = Len(chassis)
        /\ BoardsIn(chassis[Current]) \subseteq BoardsIn(chassis'[Current])
    <3>1. ASSUME NEW side \in {"line", "spine"}, NEW i \in Nat, Insert(Current, side, i, Peer(e))
          PROVE  /\ Len(chassis') = Len(chassis)
                 /\ BoardsIn(chassis[Current]) \subseteq BoardsIn(chassis'[Current])
      BY <2>1, <2>3, <3>1, InsertIs
    <3>2. 1..SpinesMax \subseteq Nat /\ 1..LinesMax \subseteq Nat
      BY DEF SpinesMax, LinesMax
    <3> HIDE DEF Insert
    <3>3. CASE Insert(Current, "spine", SpineIndex(Peer(e)), Peer(e)) /\ SpineIndex(Peer(e)) \in 1..SpinesMax
      BY <3>1, <3>2, <3>3
    <3>4. CASE Insert(Current, "line", LineIndex(Peer(e)), Peer(e)) /\ LineIndex(Peer(e)) \in 1..LinesMax
      BY <3>1, <3>2, <3>4
    <3> QED BY <2>2, <3>3, <3>4
  <2>5. node' = node /\ Current' = Current
    BY <2>1, <2>4 DEF node, Current
  <2>6. Boards(Current) \subseteq Boards(Current)'
    BY <2>4, <2>5 DEF Boards
  <2> QED BY <2>1, <2>2, <2>5, <2>6 DEF BuildInv, VisitsAreFrom, IsFrom, IsSpine, IsLine
<1>6. CASE StartPass
  <2>1. pc = "build" /\ UNCHANGED <<fabric, pc, at, rec, chassisOf, chassis, numbered>>
    BY <1>6 DEF StartPass
  <2>2. node' = node /\ Boards(Current)' = Boards(Current) /\ IsSpine(node)
    BY <2>1 DEF node, Current, Boards, BuildInv, VisitsAreFrom
  <2>3. ASSUME NEW e \in visits'
        PROVE  e \in InsideOf(fabric) /\ e[1] \in Boards(Current) /\ IsFrom(pass', e[1])
    <3>1. CASE pass' \in {1, 3}
      <4>1. PICK n \in LineBoards : e \in LinksIn(n, LinePorts(n))
        BY <1>6, <2>3, <3>1 DEF StartPass, Initialized
      <4>2. IsLine(n) /\ n \in Boards(Current)
        BY <4>1 DEF LineBoards, Boards, BoardsIn
      <4>3. e \in InsideOf(fabric) /\ e[1] = n
        BY <4>1, <4>2, InsideLinksAre
      <4> QED BY <3>1, <4>2, <4>3 DEF IsFrom
    <3>2. CASE pass' \notin {1, 3}
      <4>1. PICK n \in SpineBoards : e \in LinksIn(n, SpinePorts(n))
        BY <1>6, <2>3, <3>2 DEF StartPass, Initialized
      <4>2. IsSpine(n) /\ n \in Boards(Current)
        BY <2>1, <4>1 DEF SpineBoards, Boards, BoardsIn, OneBox, SpinesInside
      <4>3. e \in InsideOf(fabric) /\ e[1] = n
        BY <4>1, <4>2, InsideLinksAre
      <4> QED BY <3>2, <4>2, <4>3 DEF IsFrom
    <3> QED BY <3>1, <3>2
  <2> HIDE DEF node
  <2> QED BY <1>1, <2>2, <2>3 DEF VisitsAreFrom, IsFrom, IsSpine, IsLine
<1>7. \/ pc' # "build" \/ UNCHANGED vars
      \/ StartChassis /\ SpineIndex(node) \in 1..SpinesMax
      \/ (CatchSpine \/ CatchLine) /\ pc' # "failed"
      \/ StartPass
  BY DEF Next, FillRecord, NextLoop, SkipNode, StartChassis, EndChassis, CountNode, GroupNode, Turn,
         Fail
<1> QED BY <1>2, <1>3, <1>4, <1>5, <1>6, <1>7

\* A chassis keeps its boards while the others change.
LEMMA KeptStays ==
  ASSUME NEW chs, NEW chs2, NEW of, NEW of2, NEW r, NEW r2, NEW K \in SUBSET Nodes, K # {},
         SamePlaces(r, r2), Len(chs) \in Nat, Len(chs2) \in Nat, Len(chs) <= Len(chs2),
         \A d \in 1..Len(chs) : BoardsIn(chs[d]) \cap K # {} =>
           SameSlots(chs[d], chs2[d]) /\ chs2[d].guid = chs[d].guid /\ chs2[d].num = chs[d].num,
         \A d \in 1..Len(chs2) : BoardsIn(chs2[d]) \cap K # {} =>
           d \in 1..Len(chs) /\ BoardsIn(chs[d]) \cap K # {},
         \A n \in K : of2[n] = of[n],
         IsKept(chs, of, r, K)
  PROVE  IsKept(chs2, of2, r2, K)
<1>1. CASE IsUntouched(chs, of, K)
  BY <1>1 DEF IsUntouched, IsKept
<1>2. ASSUME NEW c \in 1..Len(chs), IsHeldBy(chs, of, r, K, c)
      PROVE  IsHeldBy(chs2, of2, r2, K, c)
  <2>1. BoardsIn(chs[c]) = K /\ SlotsRight(r, chs[c])
    BY <1>2 DEF IsHeldBy
  <2>2. SameSlots(chs[c], chs2[c]) /\ chs2[c].guid = chs[c].guid
    BY <2>1
  <2>3. BoardsIn(chs2[c]) = K
    BY <2>1, <2>2 DEF SameSlots, BoardsIn
  <2>4. SlotsRight(r2, chs2[c])
    <3>1. \A n \in K : LineAt(r2, n) = LineAt(r, n) /\ SpineAt(r2, n) = SpineAt(r, n)
      BY DEF SamePlaces, LineAt, SpineAt
    <3>2. /\ \A i \in DOMAIN chs[c].line : chs[c].line[i] \in K
          /\ \A i \in DOMAIN chs[c].spine : chs[c].spine[i] \in K
      BY <2>1 DEF BoardsIn
    <3> QED BY <2>1, <2>2, <3>1, <3>2 DEF SlotsRight, SameSlots
  <2>5. OthersLeft(chs2, K, c)
    BY <1>2 DEF IsHeldBy, OthersLeft
  <2> QED BY <1>2, <2>2, <2>3, <2>4, <2>5 DEF IsHeldBy
<1> QED BY <1>1, <1>2 DEF IsKept

LEMMA SameLoops ==
  ASSUME BuildInv, pc \notin {"fill", "build", "failed"}, pc' \notin {"fill", "build", "failed"},
         fabric' = fabric, Searched' = Searched, SamePlaces(rec, rec'),
         NEW K, IsAssembly(fabric, K), AssemblyOk(K),
         Len(chassis') \in Nat, Len(chassis) <= Len(chassis'),
         \A d \in 1..Len(chassis) : BoardsIn(chassis[d]) \cap K # {} =>
           SameSlots(chassis[d], chassis'[d]) /\ chassis'[d].guid = chassis[d].guid /\ chassis'[d].num = chassis[d].num,
         \A d \in 1..Len(chassis') : BoardsIn(chassis'[d]) \cap K # {} =>
           d \in 1..Len(chassis) /\ BoardsIn(chassis[d]) \cap K # {},
         \A n \in K : chassisOf'[n] = chassisOf[n]
  PROVE  AssemblyOk(K)'
<1>1. IsKept(chassis, chassisOf, rec, K) /\ K \in SUBSET Nodes /\ K # {} /\ Len(chassis) \in Nat
  BY BuildParts DEF AssemblyOk, IsAssembly
<1>2. IsKept(chassis', chassisOf', rec', K)
  BY <1>1, KeptStays
<1>3. \A s \in K \cap Searched : IsSpine(s) => chassisOf[s] # 0
  BY DEF AssemblyOk
<1> QED BY <1>2, <1>3 DEF AssemblyOk, IsSpine

\* The first loop and the steps from one loop to the next.
LEMMA FillAssembly ==
  ASSUME BuildInv, FillRecord, NEW K, IsAssembly(fabric, K), AssemblyOk(K)
  PROVE  AssemblyOk(K)'
<1>1. pc = "fill" /\ pc' = "fill" /\ chassis' = chassis /\ chassisOf' = chassisOf
  BY DEF FillRecord, Turn
<1>2. IsUntouched(chassis', chassisOf', K)
  BY <1>1 DEF AssemblyOk
<1>3. Searched' = {}
  BY <1>1 DEF Searched
<1> QED BY <1>1, <1>2, <1>3 DEF AssemblyOk, IsKept

LEMMA LoopAssembly ==
  ASSUME BuildInv, NextLoop, NEW K, IsAssembly(fabric, K), AssemblyOk(K)
  PROVE  AssemblyOk(K)'
<1>1. /\ UNCHANGED <<fabric, rec, chassisOf, chassis>>
      /\ at > Len(fabric.order) /\ at' = 1
      /\ \/ pc = "fill" /\ pc' = "search"
         \/ pc = "search" /\ pc' = "count"
         \/ pc = "count" /\ pc' = "group"
         \/ pc = "group" /\ pc' = "done"
  BY DEF NextLoop
<1>2. Present' = Present
  BY <1>1, GuidsStay
<1>3. Ahead(fabric.order, 1) = {} /\ Ahead(fabric.order, at) = Present
  BY <1>1, AheadIs, BuildParts
<1>4. Searched' = Searched
  BY <1>1, <1>2, <1>3 DEF Searched
<1>5. IsKept(chassis, chassisOf, rec, K)
  BY <1>1 DEF AssemblyOk
<1>6. \A s \in K \cap Searched : IsSpine(s) => chassisOf[s] # 0
  BY DEF AssemblyOk
<1> QED BY <1>1, <1>4, <1>5, <1>6 DEF AssemblyOk, IsSpine

\* The loop over the switches leaves a spine only when it is in a chassis.
LEMMA SkipAssembly ==
  ASSUME SlotsAsBuilt, BuildInv, SkipNode, NEW K, IsAssembly(fabric, K), AssemblyOk(K)
  PROVE  AssemblyOk(K)'
<1>1. /\ UNCHANGED <<fabric, pc, rec, chassisOf, chassis>> /\ pc = "search" /\ at' = at + 1
      /\ at <= Len(fabric.order) /\ ~StartsChassis(node)
  BY DEF SkipNode, Turn
<1>2. Searched' = Searched \cup {node}
  BY <1>1, AheadIs, BuildParts DEF Searched
<1>3. ASSUME node \in K, IsSpine(node)
      PROVE  chassisOf[node] # 0
  <2>1. rec[node].found
    BY <1>1, <1>3, AssemblyFound
  <2>2. Vendor[node] = "VTR" /\ node \in Nodes
    BY <1>3 DEF IsAssembly
  <2>3. node \in Switches
    BY <1>3, <2>2 DEF SlotsAsBuilt
  <2>4. PICK c \in 1..Len(chassis) : chassisOf[node] = c
    BY <1>1, <1>3, <2>1, <2>2, <2>3 DEF StartsChassis
  <2> QED BY <2>4
<1>4. \A s \in K \cap Searched : IsSpine(s) => chassisOf[s] # 0
  BY DEF AssemblyOk
<1>5. IsKept(chassis, chassisOf, rec, K)
  BY <1>1 DEF AssemblyOk
<1> HIDE DEF node
<1> QED BY <1>1, <1>2, <1>3, <1>4, <1>5 DEF AssemblyOk, IsSpine

LEMMA StartAssembly ==
  ASSUME SlotsAsBuilt, BuildInv, StartChassis, pc' # "failed", NEW K, IsAssembly(fabric, K),
         AssemblyOk(K)
  PROVE  AssemblyOk(K)'
<1> DEFINE i == SpineIndex(node)
           new == chassis'[Len(chassis')]
<1>0. i \in 1..SpinesMax
  BY DEF StartChassis, Fail
<1>1. /\ node \in Nodes
      /\ chassis \in Seq(ChassisSet) /\ Len(chassis) \in Nat
      /\ Len(chassis') = Len(chassis) + 1
      /\ \A c \in 1..Len(chassis) : chassis'[c] = chassis[c]
      /\ new.spine = WithBoard(NoBoards, i, node) /\ new.line = NoBoards
      /\ BoardsIn(new) = {node}
  BY <1>0, StartedTyped, BuildParts
<1>2. /\ pc = "search" /\ pc' = "build" /\ pass' = 0 /\ UNCHANGED <<fabric, at, rec>>
      /\ chassisOf' = [chassisOf EXCEPT ![node] = Len(chassis) + 1]
      /\ visits' = Initialized(LinksIn(node, SpinePorts(node)))
      /\ IsSpine(node) /\ \A c \in 1..Len(chassis) : chassisOf[node] = c => chassis[c].num = 0
  BY <1>0 DEF StartChassis, StartsChassis, Turn
<1>3. node' = node /\ Current' = Len(chassis') /\ Searched' = Searched
  BY <1>2 DEF node, Current, Searched
<1>4. SpineAt(rec, node) = i
  BY IndexIs
<1>5. K \in SUBSET Nodes /\ K # {} /\ IsKept(chassis, chassisOf, rec, K)
      /\ chassisOf \in [Nodes -> Nat]
  BY <1>2, BuildParts DEF AssemblyOk, IsAssembly
<1> HIDE DEF node, i, new
<1>6. \A s \in K \cap Searched : IsSpine(s) => chassisOf'[s] # 0
  <2>1. \A s \in K \cap Searched : IsSpine(s) => chassisOf[s] # 0
    BY DEF AssemblyOk
  <2> QED BY <1>1, <1>2, <1>5, <2>1
<1>7. ASSUME node \notin K
      PROVE  IsKept(chassis', chassisOf', rec', K)
  <2>1. \A d \in 1..Len(chassis') : BoardsIn(chassis'[d]) \cap K # {} =>
          d \in 1..Len(chassis) /\ BoardsIn(chassis[d]) \cap K # {}
    <3> SUFFICES ASSUME NEW d \in 1..Len(chassis'), BoardsIn(chassis'[d]) \cap K # {}
                 PROVE  d \in 1..Len(chassis)
      BY <1>1
    <3>1. d # Len(chassis')
      BY <1>1, <1>7 DEF new
    <3> QED BY <1>1, <3>1
  <2>2. \A n \in K : chassisOf'[n] = chassisOf[n]
    BY <1>1, <1>2, <1>5, <1>7
  <2>3. SamePlaces(rec, rec') /\ \A c \in 1..Len(chassis) : SameSlots(chassis[c], chassis'[c])
    BY <1>1, <1>2 DEF SamePlaces, SameSlots
  <2>4. Len(chassis') \in Nat /\ Len(chassis) <= Len(chassis')
    BY <1>1
  <2> QED BY <1>1, <1>5, <2>1, <2>2, <2>3, <2>4, KeptStays
<1>8. ASSUME node \in K
      PROVE  IsBuilt(fabric, chassis', chassisOf', rec, visits', node, 0, K)
  <2>1. SlotsRight(rec, new)
    <3>1. DOMAIN new.line = {} /\ \A j \in DOMAIN new.spine : j = i /\ new.spine[j] = node
      BY <1>1, NoBoardsTyped DEF WithBoard
    <3> QED BY <1>2, <1>4, <3>1 DEF SlotsRight
  <2>2. chassisOf'[node] = Len(chassis')
    BY <1>1, <1>2, <1>5
  <2>3. OthersLeft(chassis', K, Len(chassis'))
    <3> SUFFICES ASSUME NEW d \in 1..Len(chassis'), d # Len(chassis'),
                        BoardsIn(chassis'[d]) \cap K # {}
                 PROVE  chassis'[d].num = 0
      BY DEF OthersLeft
    <3>1. d \in 1..Len(chassis) /\ chassis'[d] = chassis[d]
      BY <1>1
    <3>2. ~IsUntouched(chassis, chassisOf, K)
      BY <3>1 DEF IsUntouched
    <3>3. PICK c \in 1..Len(chassis) : IsHeldBy(chassis, chassisOf, rec, K, c)
      BY <1>5, <3>2 DEF IsKept
    <3>4. chassis[c].num = 0
      BY <1>2, <1>8, <3>3 DEF IsHeldBy
    <3>5. d # c => chassis[d].num = 0
      BY <3>1, <3>3 DEF IsHeldBy, OthersLeft
    <3> QED BY <3>1, <3>4, <3>5
  <2>4. Reach(fabric, node, 0) = {node}
    BY ReachNext
  <2>5. \A e \in InsideOf(fabric) : e[1] = node => e \in visits'
    <3> SUFFICES ASSUME NEW e \in InsideOf(fabric), e[1] = node PROVE e \in visits'
      OBVIOUS
    <3>1. e \in LinksIn(node, SpinePorts(node))
      BY <1>2, InsideLinksAre, BuildParts
    <3>2. Peer(e) \in K
      BY <1>8 DEF IsAssembly
    <3>3. rec[Peer(e)].found
      BY <1>2, <3>2, AssemblyFound
    <3> QED BY <1>2, <3>1, <3>3 DEF Initialized
  <2> QED BY <1>1, <1>8, <2>1, <2>2, <2>3, <2>4, <2>5 DEF IsBuilt, new
<1>9. Boards(Current)' = {node}
  BY <1>1, <1>3 DEF Boards, new
<1>10. (node \in K)' <=> node \in K
  BY <1>3
<1> QED BY <1>2, <1>3, <1>6, <1>7, <1>8, <1>9 DEF AssemblyOk, IsSpine

LEMMA PassAssembly ==
  ASSUME SlotsAsBuilt, BuildInv, StartPass, NEW K, IsAssembly(fabric, K), AssemblyOk(K)
  PROVE  AssemblyOk(K)'
<1>1. /\ pc = "build" /\ visits = {} /\ pass' = pass + 1 /\ pass \in 0..3
      /\ UNCHANGED <<fabric, pc, at, rec, chassisOf, chassis, numbered>>
      /\ visits' = Initialized(
                 IF pass' \in {1, 3} THEN UNION {LinksIn(n, LinePorts(n)) : n \in LineBoards}
                 ELSE UNION {LinksIn(n, SpinePorts(n)) : n \in SpineBoards})
  BY BuildParts DEF StartPass, LastPass, Typing
<1>2. node' = node /\ Boards(Current)' = Boards(Current) /\ Searched' = Searched
  BY <1>1 DEF node, Current, Boards, Searched
<1> HIDE DEF node
<1>3. ASSUME node \in K
      PROVE  IsBuilt(fabric, chassis, chassisOf, rec, visits', node, pass', K)
  <2> DEFINE boards == BoardsIn(chassis[Len(chassis)])
  <2>1. IsBuilt(fabric, chassis, chassisOf, rec, {}, node, pass, K)
    BY <1>1, <1>3 DEF AssemblyOk
  <2>2. /\ boards \subseteq K /\ SlotsRight(rec, chassis[Len(chassis)])
        /\ \A n \in boards : chassisOf[n] = Len(chassis)
        /\ OthersLeft(chassis, K, Len(chassis))
        /\ Reach(fabric, node, pass) \subseteq boards
        /\ \A e \in InsideOf(fabric) :
             e[1] \in boards /\ (IsFrom(pass, e[1]) \/ e[1] \in Reach(fabric, node, pass))
               => Peer(e) \in boards
    BY <2>1 DEF IsBuilt
  <2> HIDE DEF boards
  <2>3. Reach(fabric, node, pass') = Beyond(fabric, Reach(fabric, node, pass))
    <3>1. pass \in 0..5
      BY <1>1
    <3> QED BY <1>1, <3>1, ReachNext
  <2>4. Reach(fabric, node, pass') \subseteq boards
    BY <2>2, <2>3 DEF Beyond
  <2>5. ASSUME NEW e \in InsideOf(fabric), e[1] \in boards, ~IsFrom(pass', e[1])
        PROVE  Peer(e) \in boards
    <3>1. IsLine(e[1]) \/ IsSpine(e[1])
      BY InsideParts, BuildParts
    <3>2. IsFrom(pass, e[1])
      <4>1. pass' \in {1, 3} <=> pass \notin {1, 3}
        BY <1>1
      <4> QED BY <2>5, <3>1, <4>1 DEF IsFrom
    <3> QED BY <2>2, <2>5, <3>2
  <2>6. ASSUME NEW e \in InsideOf(fabric), e[1] \in boards, IsFrom(pass', e[1])
        PROVE  e \in visits'
    <3>1. Peer(e) \in K
      BY <2>2, <2>6 DEF IsAssembly
    <3>2. rec[Peer(e)].found
      BY <1>1, <3>1, AssemblyFound
    <3>3. CASE pass' \in {1, 3}
      <4>1. IsLine(e[1]) /\ ~IsSpine(e[1])
        BY <2>6, <3>3, FacesAre DEF IsFrom
      <4>2. e[1] \in LineBoards
        <5>1. e[1] \in Nodes
          BY InsideParts, BuildParts
        <5>2. \E i \in DOMAIN chassis[Current].line : chassis[Current].line[i] = e[1]
          BY <2>2, <2>6, <4>1 DEF SlotsRight, BoardsIn, boards, Current
        <5> QED BY <4>1, <5>1, <5>2 DEF LineBoards
      <4>3. e \in LinksIn(e[1], LinePorts(e[1]))
        BY <4>1, InsideLinksAre, BuildParts
      <4> QED BY <1>1, <3>2, <3>3, <4>2, <4>3 DEF Initialized
    <3>4. CASE pass' \notin {1, 3}
      <4>1. IsSpine(e[1])
        BY <2>6, <3>4 DEF IsFrom
      <4>2. e[1] \in SpineBoards
        <5>1. e[1] \in Nodes
          BY InsideParts, BuildParts
        <5>2. \E i \in DOMAIN chassis[Current].spine : chassis[Current].spine[i] = e[1]
          BY <2>2, <2>6, <4>1 DEF SlotsRight, BoardsIn, boards, Current
        <5> QED BY <5>1, <5>2 DEF SpineBoards
      <4>3. e \in LinksIn(e[1], SpinePorts(e[1]))
        BY <4>1, InsideLinksAre, BuildParts
      <4> QED BY <1>1, <3>2, <3>4, <4>2, <4>3 DEF Initialized
    <3> QED BY <3>3, <3>4
  <2> QED BY <2>2, <2>4, <2>5, <2>6 DEF IsBuilt, boards
<1>4. node \notin K => IsKept(chassis, chassisOf, rec, K) /\ Boards(Current) \cap K = {}
  BY <1>1 DEF AssemblyOk
<1>5. \A s \in K \cap Searched : IsSpine(s) => chassisOf[s] # 0
  BY DEF AssemblyOk
<1> QED BY <1>1, <1>2, <1>3, <1>4, <1>5 DEF AssemblyOk, IsSpine

\* After the last pass the chassis has everything within five links.
LEMMA EndAssembly ==
  ASSUME BuildInv, EndChassis, NEW K, IsAssembly(fabric, K), AssemblyOk(K)
  PROVE  AssemblyOk(K)'
<1>1. /\ pc = "build" /\ visits = {} /\ pass = 4 /\ pc' = "search" /\ at' = at + 1
      /\ UNCHANGED <<fabric, rec, chassisOf, numbered, pass, visits>>
      /\ at <= Len(fabric.order)
  BY BuildParts DEF EndChassis, LastPass, Typing
<1>2. /\ Current \in 1..Len(chassis) /\ Len(chassis) \in Nat
      /\ Len(chassis') = Len(chassis)
      /\ \A c \in 1..Len(chassis) : c # Current => chassis'[c] = chassis[c]
      /\ BoardsIn(chassis'[Current]) = BoardsIn(chassis[Current])
      /\ SameSlots(chassis[Current], chassis'[Current])
      /\ chassis'[Current].guid.maker = "VTR"
  BY EndedTyped, BuildParts
<1>3. Searched' = Searched \cup {node}
  BY <1>1, AheadIs, BuildParts DEF Searched
<1>4. K \in SUBSET Nodes /\ K # {}
  BY DEF IsAssembly
<1>5. IsSpine(node)
  BY <1>1 DEF BuildInv, VisitsAreFrom
<1> HIDE DEF node
<1>6. \A s \in K \cap Searched : IsSpine(s) => chassisOf[s] # 0
  BY DEF AssemblyOk
<1>7. ASSUME node \notin K
      PROVE  IsKept(chassis', chassisOf', rec', K)
  <2>1. IsKept(chassis, chassisOf, rec, K) /\ BoardsIn(chassis[Current]) \cap K = {}
    BY <1>1, <1>7 DEF AssemblyOk, Boards
  <2>2. SamePlaces(rec, rec') /\ \A d \in 1..Len(chassis) : d # Current => SameSlots(chassis[d], chassis'[d])
    BY <1>1, <1>2 DEF SamePlaces, SameSlots
  <2>3. \A d \in 1..Len(chassis) : BoardsIn(chassis[d]) \cap K # {} =>
           SameSlots(chassis[d], chassis'[d]) /\ chassis'[d].guid = chassis[d].guid
           /\ chassis'[d].num = chassis[d].num
    BY <1>2, <2>1, <2>2
  <2>4. \A d \in 1..Len(chassis') : BoardsIn(chassis'[d]) \cap K # {} =>
           d \in 1..Len(chassis) /\ BoardsIn(chassis[d]) \cap K # {}
    BY <1>2, <2>1
  <2> QED BY <1>1, <1>2, <1>4, <2>1, <2>2, <2>3, <2>4, KeptStays
<1>8. ASSUME node \in K
      PROVE  IsHeldBy(chassis', chassisOf', rec', K, Current)
  <2> DEFINE boards == BoardsIn(chassis[Len(chassis)])
  <2>1. IsBuilt(fabric, chassis, chassisOf, rec, {}, node, 4, K)
    BY <1>1, <1>8 DEF AssemblyOk
  <2>2. /\ boards \subseteq K /\ SlotsRight(rec, chassis[Len(chassis)])
        /\ \A n \in boards : chassisOf[n] = Len(chassis)
        /\ OthersLeft(chassis, K, Len(chassis))
        /\ Reach(fabric, node, 4) \subseteq boards
        /\ \A e \in InsideOf(fabric) :
             e[1] \in boards /\ e[1] \in Reach(fabric, node, 4) => Peer(e) \in boards
    BY <2>1 DEF IsBuilt
  <2> HIDE DEF boards
  <2>3. Reach(fabric, node, 4 + 1) = Beyond(fabric, Reach(fabric, node, 4))
    BY ReachNext
  <2>4. Reach(fabric, node, 5) \subseteq boards
    BY <2>2, <2>3 DEF Beyond
  <2>5. boards = K
    BY <1>5, <1>8, <2>2, <2>4 DEF IsAssembly
  <2>6. Current = Len(chassis)
    BY DEF Current
  <2>7. SlotsRight(rec', chassis'[Current])
    BY <1>1, <1>2, <2>2, <2>6 DEF SlotsRight, SameSlots
  <2>8. OthersLeft(chassis', K, Current)
    BY <1>2, <2>2, <2>6 DEF OthersLeft
  <2> QED BY <1>1, <1>2, <2>2, <2>5, <2>6, <2>7, <2>8 DEF IsHeldBy, boards
<1>9. IsKept(chassis', chassisOf', rec', K)
  BY <1>2, <1>7, <1>8 DEF IsKept
<1>10. node \in K => chassisOf'[node] # 0
  <2>1. Current # 0
    BY <1>2
  <2> QED BY <1>8, <2>1 DEF IsHeldBy
<1> QED BY <1>1, <1>3, <1>6, <1>9, <1>10 DEF AssemblyOk, IsSpine

\* A board that is caught has its slot afterwards: no other board has its index.
LEMMA CaughtInSlot ==
  ASSUME SlotsAsBuilt, PlacesAsBuilt, BuildInv, pc = "build", NEW K, IsAssembly(fabric, K),
         SlotsRight(rec, chassis[Current]), BoardsIn(chassis[Current]) \subseteq K,
         \A m \in BoardsIn(chassis[Current]) : chassisOf[m] = Current,
         NEW side \in {"line", "spine"}, NEW i \in Nat, NEW e \in visits, Peer(e) \in K,
         IF side = "line" THEN ~IsSpine(Peer(e)) /\ LineAt(rec, Peer(e)) = i
         ELSE IsSpine(Peer(e)) /\ SpineAt(rec, Peer(e)) = i /\ i \in 1..SpinesMax,
         Insert(Current, side, i, Peer(e))
  PROVE  /\ BoardsIn(chassis'[Current]) = BoardsIn(chassis[Current]) \cup {Peer(e)}
         /\ SlotsRight(rec, chassis'[Current])
         /\ \A m \in BoardsIn(chassis'[Current]) : chassisOf'[m] = Current
<1> DEFINE n == Peer(e)
           ch == chassis[Current]
<1>1. n \in Nodes /\ K \subseteq Nodes
  BY DEF IsAssembly
<1>2. /\ Current \in 1..Len(chassis) /\ ch \in ChassisSet
      /\ \A m \in Nodes : m # n => chassisOf'[m] = chassisOf[m]
      /\ \/ i \in DOMAIN ch[side] /\ chassis' = chassis /\ chassisOf' = chassisOf
         \/ /\ i \notin DOMAIN ch[side]
            /\ chassis'[Current] = Put(ch, side, i, n)
            /\ BoardsIn(chassis'[Current]) = BoardsIn(ch) \cup {n}
            /\ chassisOf'[n] = Current
  <2> HIDE DEF Insert, n
  <2>1. Insert(Current, side, i, n)
    BY DEF n
  <2> QED BY <1>1, <2>1, InsertIs
<1>3. \A m \in BoardsIn(ch) : Box[m] = Box[n]
  BY BuildParts DEF OneBox, VisitsStayInside, Boards
<1>4. SlotsRight(rec, ch) /\ BoardsIn(ch) \subseteq K /\ \A m \in BoardsIn(ch) : chassisOf[m] = Current
  OBVIOUS
<1>5. IF side = "line" THEN ~IsSpine(n) /\ LineAt(rec, n) = i
      ELSE IsSpine(n) /\ SpineAt(rec, n) = i /\ i \in 1..SpinesMax
  OBVIOUS
<1>6. n \in K
  OBVIOUS
<1> HIDE DEF n, ch
<1>7. CASE i \in DOMAIN ch[side] /\ chassis' = chassis /\ chassisOf' = chassisOf
  <2>0. fabric \in Discovered /\ \A m \in K : rec[m].found /\ IsLearnt(fabric, rec, m)
    BY AssemblyFound, BuildParts
  <2>1. n \in BoardsIn(ch)
    <3>1. CASE side = "line"
      <4> DEFINE m == ch.line[i]
      <4>1. m \in BoardsIn(ch) /\ ~IsSpine(m) /\ LineAt(rec, m) = i
        BY <1>4, <1>7, <3>1 DEF SlotsRight, BoardsIn
      <4> HIDE DEF m
      <4>2. \A x, y \in K : Box[x] = Box[y] /\ ~IsSpine(x) /\ ~IsSpine(y)
                              /\ LineAt(rec, x) = LineAt(rec, y) => x = y
        BY <2>0, OneInSlot
      <4>3. m \in K /\ Box[m] = Box[n]
        BY <1>3, <1>4, <4>1
      <4>4. m = n
        BY <1>5, <1>6, <3>1, <4>1, <4>2, <4>3
      <4> QED BY <4>1, <4>4
    <3>2. CASE side = "spine"
      <4> DEFINE m == ch.spine[i]
      <4>1. m \in BoardsIn(ch) /\ IsSpine(m) /\ SpineAt(rec, m) = i
        BY <1>4, <1>7, <3>2 DEF SlotsRight, BoardsIn
      <4> HIDE DEF m
      <4>2. \A x, y \in K : Box[x] = Box[y] /\ IsSpine(x) /\ IsSpine(y)
                              /\ SpineAt(rec, x) = SpineAt(rec, y)
                              /\ SpineAt(rec, y) \in 1..SpinesMax => x = y
        BY <2>0, OneInSlot
      <4>3. m \in K /\ Box[m] = Box[n]
        BY <1>3, <1>4, <4>1
      <4>4. m = n
        BY <1>5, <1>6, <3>2, <4>1, <4>2, <4>3
      <4> QED BY <4>1, <4>4
    <3> QED BY <3>1, <3>2
  <2>2. chassis'[Current] = ch
    BY <1>7 DEF ch
  <2>3. BoardsIn(ch) = BoardsIn(ch) \cup {n}
    BY <2>1
  <2> QED BY <1>4, <1>7, <2>2, <2>3 DEF n, ch
<1>8. CASE /\ i \notin DOMAIN ch[side]
           /\ chassis'[Current] = Put(ch, side, i, n)
           /\ BoardsIn(chassis'[Current]) = BoardsIn(ch) \cup {n}
           /\ chassisOf'[n] = Current
  <2>1. SlotsRight(rec, Put(ch, side, i, n))
    <3>1. IF side = "line" THEN ~IsSpine(n) /\ LineAt(rec, n) = i
          ELSE IsSpine(n) /\ SpineAt(rec, n) = i
      BY <1>5
    <3> QED BY <1>1, <1>2, <1>4, <1>8, <3>1, PutExact
  <2>2. \A m \in BoardsIn(chassis'[Current]) : chassisOf'[m] = Current
    <3> SUFFICES ASSUME NEW m \in BoardsIn(ch) \cup {n} PROVE chassisOf'[m] = Current
      BY <1>8
    <3>1. CASE m = n
      BY <1>8, <3>1
    <3>2. CASE m # n
      BY <1>1, <1>2, <1>4, <3>2
    <3> QED BY <3>1, <3>2
  <2> QED BY <1>8, <2>1, <2>2 DEF n, ch
<1> QED BY <1>2, <1>7, <1>8

\* A step of the passes: the board behind a port goes to its slot, or a line board that
\* has none is ignored.
LEMMA CatchIs ==
  ASSUME SlotsAsBuilt, BuildInv, CatchSpine \/ CatchLine, pc' # "failed"
  PROVE  \E e \in visits :
           /\ visits' = visits \ {e}
           /\ ~IsFrom(pass, Peer(e))
           /\ \/ \E side \in {"line", "spine"}, i \in Nat :
                   /\ Insert(Current, side, i, Peer(e))
                   /\ IF side = "line" THEN ~IsSpine(Peer(e)) /\ LineAt(rec, Peer(e)) = i
                      ELSE IsSpine(Peer(e)) /\ SpineAt(rec, Peer(e)) = i /\ i \in 1..SpinesMax
              \/ /\ ~IsSpine(Peer(e)) /\ LineAt(rec, Peer(e)) \notin 1..LinesMax
                 /\ UNCHANGED <<chassis, chassisOf>>
<1>1. pc = "build"
  BY CatchSteps
<1>2. PICK e \in visits :
          /\ visits' = visits \ {e}
          /\ \/ /\ pass \in {1, 3} /\ SpineIndex(Peer(e)) \in 1..SpinesMax
                /\ Insert(Current, "spine", SpineIndex(Peer(e)), Peer(e))
             \/ /\ pass \in {0, 2, 4} /\ LineIndex(Peer(e)) \in 1..LinesMax
                /\ Insert(Current, "line", LineIndex(Peer(e)), Peer(e))
             \/ /\ pass = 0 /\ LineIndex(Peer(e)) \notin 1..LinesMax
                /\ UNCHANGED <<chassis, chassisOf>>
  BY CatchSteps
<1>3. e \in InsideOf(fabric) /\ IsFrom(pass, e[1])
  BY <1>1, CaughtIs
<1>4. 1..SpinesMax \subseteq Nat /\ 1..LinesMax \subseteq Nat
  BY DEF SpinesMax, LinesMax
<1>5. SpineIndex(Peer(e)) = SpineAt(rec, Peer(e)) /\ LineIndex(Peer(e)) = LineAt(rec, Peer(e))
  BY IndexIs
<1>6. pass \in {1, 3} => IsSpine(Peer(e)) /\ ~IsLine(Peer(e))
  <2>1. pass \in {1, 3} => IsSpine(Peer(e))
    BY <1>1, BuildParts DEF OneBox, SpinesInside
  <2> QED BY <2>1, FacesAre
<1>7. pass \notin {1, 3} => ~IsSpine(Peer(e))
  <2>1. e \in DOMAIN Cable /\ e[2] \notin FacePorts(e[1])
    BY <1>3, InsideParts, BuildParts
  <2> QED BY <1>3, <2>1 DEF IsFrom, SlotsAsBuilt
<1>8. ~IsFrom(pass, Peer(e))
  BY <1>6, <1>7 DEF IsFrom
<1> HIDE DEF Insert
<1>9. CASE pass \in {1, 3}
  <2>1. /\ SpineIndex(Peer(e)) \in 1..SpinesMax
        /\ Insert(Current, "spine", SpineIndex(Peer(e)), Peer(e))
    BY <1>2, <1>9
  <2> QED BY <1>2, <1>4, <1>5, <1>6, <1>8, <1>9, <2>1
<1>10. CASE pass \notin {1, 3} /\ LineIndex(Peer(e)) \in 1..LinesMax
  <2>1. Insert(Current, "line", LineIndex(Peer(e)), Peer(e))
    BY <1>2, <1>10
  <2> QED BY <1>2, <1>4, <1>5, <1>7, <1>8, <1>10, <2>1
<1>11. CASE pass \notin {1, 3} /\ LineIndex(Peer(e)) \notin 1..LinesMax
  <2>1. UNCHANGED <<chassis, chassisOf>>
    BY <1>2, <1>11
  <2> QED BY <1>2, <1>5, <1>7, <1>8, <1>11, <2>1
<1> QED BY <1>9, <1>10, <1>11

LEMMA CatchAssembly ==
  ASSUME SlotsAsBuilt, PlacesAsBuilt, BuildInv, CatchSpine \/ CatchLine, pc' # "failed",
         NEW K, IsAssembly(fabric, K), AssemblyOk(K)
  PROVE  AssemblyOk(K)'
<1>1. pc = "build" /\ UNCHANGED <<fabric, pc, at, rec, pass, numbered>>
  BY CatchSteps
<1>2. PICK e \in visits :
           /\ visits' = visits \ {e}
           /\ ~IsFrom(pass, Peer(e))
           /\ \/ \E side \in {"line", "spine"}, i \in Nat :
                   /\ Insert(Current, side, i, Peer(e))
                   /\ IF side = "line" THEN ~IsSpine(Peer(e)) /\ LineAt(rec, Peer(e)) = i
                      ELSE IsSpine(Peer(e)) /\ SpineAt(rec, Peer(e)) = i /\ i \in 1..SpinesMax
              \/ /\ ~IsSpine(Peer(e)) /\ LineAt(rec, Peer(e)) \notin 1..LinesMax
                 /\ UNCHANGED <<chassis, chassisOf>>
  BY CatchIs
<1> DEFINE n == Peer(e)
           ch == chassis[Current]
           new == chassis'[Current]
<1>3. /\ e \in InsideOf(fabric) /\ e[1] \in BoardsIn(ch) /\ n \in Nodes
  BY <1>1, CaughtIs DEF Boards
<1>4. /\ Current \in 1..Len(chassis) /\ Len(chassis) \in Nat /\ Current = Len(chassis)
      /\ chassisOf \in [Nodes -> Nat]
  BY <1>1, SpineBoardOfCurrent, BuildParts DEF Current
<1>5. n \in K <=> e[1] \in K
  BY <1>3 DEF IsAssembly
<1>6. K \in SUBSET Nodes /\ K # {}
  BY DEF IsAssembly
<1>7. /\ Len(chassis') = Len(chassis)
      /\ \A c \in 1..Len(chassis) : c # Current => chassis'[c] = chassis[c]
      /\ BoardsIn(new) \subseteq BoardsIn(ch) \cup {n}
      /\ \A m \in Nodes : m # n => chassisOf'[m] = chassisOf[m]
      /\ chassisOf'[n] \in {chassisOf[n], Current}
  <2>1. CASE UNCHANGED <<chassis, chassisOf>>
    BY <2>1
  <2>2. ASSUME NEW side \in {"line", "spine"}, NEW i \in Nat, Insert(Current, side, i, n)
        PROVE  /\ Len(chassis') = Len(chassis)
               /\ \A c \in 1..Len(chassis) : c # Current => chassis'[c] = chassis[c]
               /\ BoardsIn(new) \subseteq BoardsIn(ch) \cup {n}
               /\ \A m \in Nodes : m # n => chassisOf'[m] = chassisOf[m]
               /\ chassisOf'[n] \in {chassisOf[n], Current}
    <3> HIDE DEF Insert, n
    <3>1. /\ Len(chassis') = Len(chassis)
          /\ \A c \in 1..Len(chassis) : c # Current => chassis'[c] = chassis[c]
          /\ \A m \in Nodes : m # n => chassisOf'[m] = chassisOf[m]
          /\ \/ chassis' = chassis /\ chassisOf' = chassisOf
             \/ BoardsIn(chassis'[Current]) = BoardsIn(chassis[Current]) \cup {n}
                /\ chassisOf'[n] = Current
      BY <1>1, <1>3, <2>2, InsertIs
    <3> QED BY <3>1
  <2> HIDE DEF Insert, n, ch, new
  <2> QED BY <1>2, <2>1, <2>2 DEF n
<1>8. node' = node /\ Current' = Current /\ Searched' = Searched
  BY <1>1, <1>7 DEF node, Current, Searched
<1>9. Boards(Current)' = BoardsIn(new) /\ Boards(Current) = BoardsIn(ch)
  BY <1>8 DEF Boards
<1> HIDE DEF Insert, n, ch, new, node
<1>10. \A s \in K \cap Searched : IsSpine(s) => chassisOf'[s] # 0
  <2>1. \A s \in K \cap Searched : IsSpine(s) => chassisOf[s] # 0
    BY DEF AssemblyOk
  <2>2. Current # 0
    BY <1>4
  <2> QED BY <1>6, <1>7, <2>1, <2>2
<1>11. ASSUME node \notin K
       PROVE  IsKept(chassis', chassisOf', rec', K) /\ Boards(Current)' \cap K = {}
  <2>1. IsKept(chassis, chassisOf, rec, K) /\ BoardsIn(ch) \cap K = {}
    BY <1>1, <1>9, <1>11 DEF AssemblyOk
  <2>2. n \notin K
    BY <1>3, <1>5, <2>1
  <2>3. BoardsIn(new) \cap K = {}
    BY <1>7, <2>1, <2>2
  <2>4. \A d \in 1..Len(chassis) : d # Current => SameSlots(chassis[d], chassis'[d])
    BY <1>7 DEF SameSlots
  <2>5. \A d \in 1..Len(chassis) : BoardsIn(chassis[d]) \cap K # {} =>
           SameSlots(chassis[d], chassis'[d]) /\ chassis'[d].guid = chassis[d].guid
           /\ chassis'[d].num = chassis[d].num
    BY <1>7, <2>1, <2>4 DEF ch
  <2>6. \A d \in 1..Len(chassis') : BoardsIn(chassis'[d]) \cap K # {} =>
           d \in 1..Len(chassis) /\ BoardsIn(chassis[d]) \cap K # {}
    BY <1>7, <2>3 DEF new
  <2>7. SamePlaces(rec, rec') /\ \A m \in K : chassisOf'[m] = chassisOf[m]
    BY <1>1, <1>6, <1>7, <2>2 DEF SamePlaces
  <2>8. IsKept(chassis', chassisOf', rec', K)
    BY <1>4, <1>6, <1>7, <2>1, <2>5, <2>6, <2>7, KeptStays
  <2> QED BY <1>9, <2>3, <2>8
<1>12. ASSUME node \in K
       PROVE  IsBuilt(fabric, chassis', chassisOf', rec, visits', node, pass, K)
  <2>1. IsBuilt(fabric, chassis, chassisOf, rec, visits, node, pass, K)
    BY <1>1, <1>12 DEF AssemblyOk
  <2>2. /\ BoardsIn(ch) \subseteq K /\ SlotsRight(rec, ch)
        /\ \A m \in BoardsIn(ch) : chassisOf[m] = Current
        /\ OthersLeft(chassis, K, Current)
        /\ Reach(fabric, node, pass) \subseteq BoardsIn(ch)
        /\ \A d \in InsideOf(fabric) :
             d[1] \in BoardsIn(ch) /\ (IsFrom(pass, d[1]) \/ d[1] \in Reach(fabric, node, pass))
               => Peer(d) \in BoardsIn(ch) \/ d \in visits
    BY <1>4, <2>1 DEF IsBuilt, ch
  <2>3. n \in K
    BY <1>3, <1>5, <2>2
  <2>4. /\ BoardsIn(new) = BoardsIn(ch) \cup {n}
        /\ SlotsRight(rec, new)
        /\ \A m \in BoardsIn(new) : chassisOf'[m] = Current
    <3>1. CASE ~IsSpine(n) /\ LineAt(rec, n) \notin 1..LinesMax
      <4>1. fabric \in Discovered /\ \A m \in K : rec[m].found /\ IsLearnt(fabric, rec, m)
        BY <1>1, AssemblyFound, BuildParts
      <4>2. \A m \in K : ~IsSpine(m) => LineAt(rec, m) \in 1..LinesMax
        BY <4>1, OneInSlot
      <4> QED BY <2>3, <3>1, <4>2
    <3>2. ASSUME NEW side \in {"line", "spine"}, NEW i \in Nat,
                 Insert(Current, side, i, n),
                 IF side = "line" THEN ~IsSpine(n) /\ LineAt(rec, n) = i
                 ELSE IsSpine(n) /\ SpineAt(rec, n) = i /\ i \in 1..SpinesMax
          PROVE  /\ BoardsIn(new) = BoardsIn(ch) \cup {n}
                 /\ SlotsRight(rec, new)
                 /\ \A m \in BoardsIn(new) : chassisOf'[m] = Current
      <4>1. BoardsIn(chassis[Current]) \subseteq K /\ SlotsRight(rec, chassis[Current])
            /\ \A m \in BoardsIn(chassis[Current]) : chassisOf[m] = Current
        BY <2>2 DEF ch
      <4>2. Peer(e) \in K /\ Insert(Current, side, i, Peer(e))
        BY <2>3, <3>2 DEF n
      <4>3. IF side = "line" THEN ~IsSpine(Peer(e)) /\ LineAt(rec, Peer(e)) = i
            ELSE IsSpine(Peer(e)) /\ SpineAt(rec, Peer(e)) = i /\ i \in 1..SpinesMax
        BY <3>2 DEF n
      <4> QED BY <1>1, <4>1, <4>2, <4>3, CaughtInSlot DEF n, ch, new
    <3> QED BY <1>2, <3>1, <3>2 DEF n
  <2>5. OthersLeft(chassis', K, Current)
    BY <1>7, <2>2 DEF OthersLeft
  <2>6. ASSUME NEW d \in InsideOf(fabric), d[1] \in BoardsIn(new),
               IsFrom(pass, d[1]) \/ d[1] \in Reach(fabric, node, pass)
        PROVE  Peer(d) \in BoardsIn(new) \/ d \in visits'
    <3>1. d[1] \in BoardsIn(ch)
      <4>1. d[1] # n \/ d[1] \in BoardsIn(ch)
        BY <1>2, <2>2, <2>6 DEF n
      <4> QED BY <2>4, <2>6, <4>1
    <3>2. Peer(d) \in BoardsIn(ch) \/ d \in visits
      BY <2>2, <2>6, <3>1
    <3>3. d = e => Peer(d) = n
      BY DEF n
    <3> QED BY <1>2, <2>4, <3>2, <3>3
  <2>7. Len(chassis') = Current /\ new = chassis'[Len(chassis')]
    BY <1>4, <1>7 DEF new
  <2>8. BoardsIn(new) \subseteq K /\ Reach(fabric, node, pass) \subseteq BoardsIn(new)
    BY <2>2, <2>3, <2>4
  <2> QED BY <2>4, <2>5, <2>6, <2>7, <2>8 DEF IsBuilt
<1> QED BY <1>1, <1>8, <1>10, <1>11, <1>12 DEF AssemblyOk, IsSpine

\* The last two loops leave the chassis of the boards alone.
LEMMA CountAssembly ==
  ASSUME BuildInv, CountNode, NEW K, IsAssembly(fabric, K), AssemblyOk(K)
  PROVE  AssemblyOk(K)'
<1>1. /\ pc = "count" /\ pc' = "count" /\ UNCHANGED <<fabric, rec, chassisOf>>
  BY DEF CountNode, Turn
<1>2. Searched' = Searched
  <2>1. Present' = Present
    BY <1>1, GuidsStay
  <2> QED BY <1>1, <2>1 DEF Searched
<1>3. /\ Len(chassis) \in Nat /\ Len(chassis') \in Len(chassis)..(Len(chassis) + 1)
      /\ \A c \in 1..Len(chassis) : /\ chassis'[c].guid = chassis[c].guid
                                    /\ BoardsIn(chassis'[c]) = BoardsIn(chassis[c])
                                    /\ SameSlots(chassis[c], chassis'[c])
      /\ Len(chassis') # Len(chassis) => BoardsIn(chassis'[Len(chassis')]) = {}
  BY CountedTyped, BuildParts
<1>4. \A d \in 1..Len(chassis) : chassis'[d].num = chassis[d].num
  <2>1. CASE ~Grouped(node)
    BY <2>1 DEF CountNode
  <2>2. CASE Grouped(node) /\ Found(node) # 0
    BY <2>2, CountParts, BuildParts
  <2>3. CASE Grouped(node) /\ Found(node) = 0
    BY <2>3, NewGroupParts, BuildParts
  <2> QED BY <2>1, <2>2, <2>3
<1>5. Len(chassis') \in Nat /\ Len(chassis) <= Len(chassis')
  BY <1>3
<1>6. \A d \in 1..Len(chassis') : BoardsIn(chassis'[d]) \cap K # {} =>
           d \in 1..Len(chassis) /\ BoardsIn(chassis[d]) \cap K # {}
  <2> SUFFICES ASSUME NEW d \in 1..Len(chassis'), BoardsIn(chassis'[d]) \cap K # {}
               PROVE  d \in 1..Len(chassis)
    BY <1>3
  <2>1. CASE Len(chassis') = Len(chassis)
    BY <2>1
  <2>2. CASE Len(chassis') # Len(chassis)
    <3>1. d # Len(chassis') /\ Len(chassis') = Len(chassis) + 1
      BY <1>3, <2>2
    <3> QED BY <1>3, <3>1
  <2> QED BY <2>1, <2>2
<1>7. SamePlaces(rec, rec')
  BY <1>1 DEF SamePlaces
<1> QED BY <1>1, <1>2, <1>3, <1>4, <1>5, <1>6, <1>7, SameLoops

LEMMA GroupAssembly ==
  ASSUME BuildInv, GroupNode, NEW K, IsAssembly(fabric, K), AssemblyOk(K)
  PROVE  AssemblyOk(K)'
<1>1. /\ pc = "group" /\ pc' = "group" /\ fabric' = fabric /\ node \in Nodes
  BY NodeTyped, BuildParts DEF GroupNode, Turn
<1>2. Searched' = Searched
  <2>1. Present' = Present
    BY <1>1, GuidsStay
  <2> QED BY <1>1, <2>1 DEF Searched
<1>3. SamePlaces(rec, rec') /\ Len(chassis') = Len(chassis) /\ Len(chassis) \in Nat
  BY GroupNodeParts, BuildParts
<1>4. K \subseteq Nodes /\ \A n \in K : Vendor[n] = "VTR"
  BY DEF IsAssembly
<1>5. ASSUME NEW d \in 1..Len(chassis), chassis'[d] # chassis[d]
      PROVE  BoardsIn(chassis[d]) \cap K = {} /\ BoardsIn(chassis'[d]) \cap K = {}
  <2>1. Grouped(node) /\ d = Found(node) /\ d # 0 /\ IsChassis(Found(node))
    BY <1>5, GroupParts, BuildParts
  <2>2. chassis[d].guid.maker # "VTR"
    BY <1>1, <2>1, FoundIsOne, OtherGuid, BuildParts
  <2>3. \A m \in Boards(d) : Vendor[m] = "MLX"
    BY <1>1, <2>2, BuildParts DEF OneBox, GuidsTellApart
  <2>4. BoardsIn(chassis'[d]) \subseteq BoardsIn(chassis[d]) \cup {node}
    BY GroupNodeParts, BuildParts
  <2>5. Vendor[node] # "VTR"
    BY <2>1 DEF Grouped
  <2> QED BY <1>4, <2>3, <2>4, <2>5 DEF Boards
<1>6. \A d \in 1..Len(chassis) : BoardsIn(chassis[d]) \cap K # {} =>
        SameSlots(chassis[d], chassis'[d]) /\ chassis'[d].guid = chassis[d].guid
        /\ chassis'[d].num = chassis[d].num
  BY <1>5 DEF SameSlots
<1>7. \A d \in 1..Len(chassis') : BoardsIn(chassis'[d]) \cap K # {} =>
           d \in 1..Len(chassis) /\ BoardsIn(chassis[d]) \cap K # {}
  <2> SUFFICES ASSUME NEW d \in 1..Len(chassis), BoardsIn(chassis'[d]) \cap K # {}
               PROVE  BoardsIn(chassis[d]) \cap K # {}
    BY <1>3
  <2>1. chassis'[d] = chassis[d]
    BY <1>5
  <2> QED BY <2>1
<1>8. \A n \in K : chassisOf'[n] = chassisOf[n]
  <2>1. ASSUME Grouped(node) PROVE node \notin K
    BY <1>4, <2>1 DEF Grouped
  <2>2. chassisOf' = chassisOf \/ (Grouped(node) /\ chassisOf' = [chassisOf EXCEPT ![node] = Found(node)])
    BY GroupParts, BuildParts
  <2> QED BY <1>4, <2>1, <2>2, BuildParts
<1>9. Len(chassis') \in Nat /\ Len(chassis) <= Len(chassis')
  BY <1>3
<1> QED BY <1>1, <1>2, <1>3, <1>6, <1>7, <1>8, <1>9, SameLoops

LEMMA AssembliesStep ==
  ASSUME SlotsAsBuilt, VoltaireInside, PlacesAsBuilt, BuildInv, [Next]_vars
  PROVE  Assemblies'
<1>1. fabric' = fabric /\ (pc' # "failed" => pc # "failed")
  BY DEF Next, vars, FillRecord, NextLoop, SkipNode, StartChassis, CatchSpine, CatchLine, StartPass,
         EndChassis, CountNode, GroupNode, Turn, Fail
<1>2. SUFFICES ASSUME pc' # "failed", NEW K \in SUBSET Nodes, IsAssembly(fabric, K)
               PROVE  AssemblyOk(K)'
  BY <1>1 DEF Assemblies
<1>3. AssemblyOk(K)
  BY <1>1, <1>2 DEF BuildInv, Assemblies
<1>4. CASE UNCHANGED vars
  <2>1. UNCHANGED <<fabric, pc, at, rec, chassisOf, chassis, pass, visits>>
    BY <1>4 DEF vars
  <2>2. node' = node /\ Boards(Current)' = Boards(Current) /\ Searched' = Searched
    BY <2>1 DEF node, Boards, Current, Searched, Present
  <2> QED BY <1>3, <2>1, <2>2 DEF AssemblyOk, IsSpine
<1> QED BY <1>2, <1>3, <1>4, FillAssembly, LoopAssembly, SkipAssembly, StartAssembly, CatchAssembly,
           PassAssembly, EndAssembly, CountAssembly, GroupAssembly DEF Next

LEMMA InitBuilds ==
  ASSUME Init
  PROVE  BuildInv
<1>1. GroupInv
  BY InitGrouped
<1>2. /\ pc = "fill" /\ at = 1 /\ chassis = <<>> /\ visits = {}
      /\ \A n \in Nodes : chassisOf[n] = 0
  BY DEF Init
<1>3. Learnt
  <2>1. \A n \in Nodes : rec[n].found = FALSE /\ rec[n].slot = 0 /\ rec[n].chip = 0
    BY DEF Init
  <2> QED BY <2>1 DEF Learnt, IsLearnt
<1>4. AllFound
  <2>1. Ahead(fabric.order, 1) = {}
    BY <1>1, AheadIs DEF GroupInv, OneBox
  <2> QED BY <1>2, <2>1 DEF AllFound
<1>5. VisitsAreFrom
  BY <1>2 DEF VisitsAreFrom
<1>6. Assemblies
  <2> SUFFICES ASSUME NEW K \in SUBSET Nodes PROVE AssemblyOk(K)
    BY DEF Assemblies
  <2>1. IsUntouched(chassis, chassisOf, K)
    BY <1>2 DEF IsUntouched
  <2>2. Searched = {}
    BY <1>2 DEF Searched
  <2> QED BY <1>2, <2>1, <2>2 DEF AssemblyOk, IsKept
<1> QED BY <1>1, <1>3, <1>4, <1>5, <1>6 DEF BuildInv

LEMMA BuiltIsWhole ==
  ASSUME SlotsAsBuilt, VoltaireInside, PlacesAsBuilt, BuildInv
  PROVE  BoxIsWhole
<1> SUFFICES ASSUME pc = "done", NEW s \in Present \cap Switches, Vendor[s] = "VTR", IsSpine(s),
                    \A t \in SpinesWithin(s, 6) : Within(t, 5) = Within(t, 6)
             PROVE  /\ chassisOf[s] # 0
                    /\ Within(s, 5) = Boards(chassisOf[s])
                    /\ \A n \in Within(s, 5) : chassisOf[n] = chassisOf[s]
  BY DEF BoxIsWhole
<1> DEFINE K == Within(s, 5)
<1>1. IsAssembly(fabric, K) /\ s \in K
  BY GoodIsAssembly, BuildParts DEF IsGood
<1> HIDE DEF K
<1>2. AssemblyOk(K)
  BY <1>1 DEF BuildInv, Assemblies, IsAssembly
<1>3. chassisOf[s] # 0 /\ IsKept(chassis, chassisOf, rec, K)
  BY <1>1, <1>2 DEF AssemblyOk, Searched
<1>4. PICK c \in 1..Len(chassis) : IsHeldBy(chassis, chassisOf, rec, K, c)
  BY <1>1, <1>3 DEF IsKept, IsUntouched
<1>5. BoardsIn(chassis[c]) = K /\ \A n \in K : chassisOf[n] = c
  BY <1>4 DEF IsHeldBy
<1> QED BY <1>1, <1>3, <1>5 DEF Boards, K

LEMMA BuildStep ==
  ASSUME SlotsAsBuilt, VoltaireInside, PlacesAsBuilt, BuildInv, [Next]_vars
  PROVE  BuildInv'
<1>1. GroupInv'
  BY GroupStep DEF BuildInv
<1>2. Learnt' /\ AllFound'
  BY LearntStep
<1>3. VisitsAreFrom'
  BY VisitsStep
<1>4. Assemblies'
  BY AssembliesStep
<1> QED BY <1>1, <1>2, <1>3, <1>4 DEF BuildInv

\* Boards that hang together by internal links, five of which lead from every spine
\* among them to all of them, end up in one chassis object, and nothing else is in it:
\* from whichever spine build_chassis started, in whatever order the nodes were
\* discovered, and also when chassisnum has wrapped and a chassis is started again.
THEOREM BoxesAreWhole ==
  ASSUME SlotsAsBuilt, VoltaireInside, PlacesAsBuilt
  PROVE  Spec => []BoxIsWhole
<1>1. Init => BuildInv
  BY InitBuilds
<1>2. BuildInv /\ [Next]_vars => BuildInv'
  BY BuildStep
<1>3. BuildInv => BoxIsWhole
  BY BuiltIsWhole
<1> QED BY <1>1, <1>2, <1>3, PTL DEF Spec

------------------------------------------------------------------------------
(* The listing.  A node with a chassis is a board or a member of it, and   *)
(* of no other that is listed; what an object lists of a group says where  *)
(* it is in it.                                                            *)

\* Board n is on this side of chassis d, in slot i, as its record says.
IsIn(r, of, n, side, i, d) ==
  /\ n \in Switches /\ Vendor[n] = "MLX"
  /\ r[n].side = side /\ r[n].slot = i /\ of[n] = d

IsGroup(ch, d, of, r) ==
  /\ \A i \in DOMAIN ch.line : IsIn(r, of, ch.line[i], "line", i, d)
  /\ \A i \in DOMAIN ch.spine : IsIn(r, of, ch.spine[i], "spine", i, d)

HasPlace(chs, of) == \A n \in Nodes : of[n] # 0 => n \in BoardsIn(chs[of[n]]) \cup chs[of[n]].nodes

MembersAre(chs, of, r) ==
  \A d \in 1..Len(chs) : \A m \in chs[d].nodes :
    /\ Vendor[m] # "VTR" /\ r[m].side = "none" /\ of[m] = d
    /\ chs[d].guid.maker # "VTR"

GroupsAre(chs, of, r) ==
  \A d \in 1..Len(chs) : chs[d].guid.maker # "VTR" => IsGroup(chs[d], d, of, r)

\* A chassis that was built has the spine that started it, and slots of the tables.
HasSpine(ch, S) == \E s \in BoardsIn(ch) : s \in S /\ Vendor[s] = "VTR" /\ IsSpine(s)

InTables(ch) ==
  /\ \A i \in DOMAIN ch.line : i \in 1..LinesMax
  /\ \A i \in DOMAIN ch.spine : i \in 1..SpinesMax

IsStarted(ch, S) == HasSpine(ch, S) /\ InTables(ch)

SpinesStay(chs, S) == \A d \in 1..Len(chs) : chs[d].guid.maker = "VTR" => IsStarted(chs[d], S)

PlacesKept ==
  pc # "failed" =>
    /\ HasPlace(chassis, chassisOf) /\ MembersAre(chassis, chassisOf, rec)
    /\ pc # "build" => GroupsAre(chassis, chassisOf, rec)
    /\ SpinesStay(chassis, Present \cap Switches)
    /\ pc = "build" => chassis[Current].nodes = {} /\ IsStarted(chassis[Current], Present \cap Switches)

ListInv == BuildInv /\ NoneYet /\ PlacesKept

LEMMA MembersAreNodes ==
  ASSUME BuildInv
  PROVE  \A d \in 1..Len(chassis) : chassis[d].nodes \subseteq Nodes
<1>1. \A ch \in ChassisSet : ch.nodes \subseteq Nodes
  BY DEF ChassisSet
<1> QED BY <1>1, BuildParts

LEMMA FillPlaces ==
  ASSUME ListInv, FillRecord
  PROVE  PlacesKept'
<1>1. /\ pc = "fill" /\ pc' = "fill" /\ chassis' = chassis /\ chassisOf' = chassisOf
  BY DEF FillRecord, Turn
<1>2. /\ chassis = <<>> /\ Len(chassis) = 0
      /\ chassisOf \in [Nodes -> Nat] /\ \A n \in Nodes : chassisOf[n] <= Len(chassis)
  BY <1>1, BuildParts DEF ListInv, NoneYet, Typing
<1>3. \A n \in Nodes : chassisOf'[n] = 0
  BY <1>1, <1>2
<1>4. 1..Len(chassis') = {}
  BY <1>1, <1>2
<1> QED BY <1>1, <1>3, <1>4 DEF PlacesKept, HasPlace, MembersAre, GroupsAre, SpinesStay

LEMMA SamePlacesKept ==
  ASSUME ListInv, UNCHANGED <<fabric, rec, chassisOf, chassis>>, pc # "failed", pc' # "failed",
         pc' = "build" <=> pc = "build"
  PROVE  PlacesKept'
<1>1. Present' = Present
  BY GuidsStay
<1>2. Current' = Current
  BY DEF Current
<1> QED BY <1>1, <1>2 DEF ListInv, PlacesKept

LEMMA StartPlaces ==
  ASSUME ListInv, StartChassis, pc' # "failed"
  PROVE  PlacesKept'
<1> DEFINE new == chassis'[Len(chassis')]
           S == Present \cap Switches
           ch == NewChassis(NoGuid, Byte(numbered'), 0, WithBoard(NoBoards, SpineIndex(node), node))
<1>0. SpineIndex(node) \in 1..SpinesMax /\ BuildInv
  BY DEF StartChassis, Fail, ListInv
<1>1. /\ node \in Nodes
      /\ chassis \in Seq(ChassisSet) /\ Len(chassis) \in Nat /\ chassisOf \in [Nodes -> Nat]
      /\ Len(chassis') = Len(chassis) + 1
      /\ \A c \in 1..Len(chassis) : chassis'[c] = chassis[c]
      /\ BoardsIn(new) = {node}
  BY <1>0, StartedTyped, BuildParts
<1>2. /\ pc = "search" /\ pc' = "build" /\ UNCHANGED <<fabric, at, rec>>
      /\ chassisOf' = [chassisOf EXCEPT ![node] = Len(chassis) + 1]
      /\ node \in Switches /\ Vendor[node] = "VTR" /\ IsSpine(node)
      /\ chassis' = Append(chassis, ch) /\ at <= Len(fabric.order)
  BY <1>0 DEF StartChassis, StartsChassis, Turn
<1>3. new.nodes = {} /\ new.guid.maker # "VTR"
  <2>1. ch.nodes = {} /\ ch.guid = NoGuid
    BY DEF NewChassis
  <2> HIDE DEF ch
  <2>2. new = ch
    BY <1>1, <1>2
  <2> QED BY <2>1, <2>2 DEF NoGuid
<1>4. node \in S
  BY <1>0, <1>2, AheadIs, BuildParts
<1>5. Present' = Present /\ Current' = Len(chassis')
  BY <1>2, GuidsStay DEF Current
<1>6. /\ HasPlace(chassis, chassisOf) /\ MembersAre(chassis, chassisOf, rec)
      /\ SpinesStay(chassis, S)
      /\ \A n \in Nodes : chassisOf[n] <= Len(chassis)
  BY <1>2, BuildParts DEF ListInv, PlacesKept, Typing
<1> HIDE DEF node, new, S, ch
<1>7. \A d \in 1..Len(chassis') : d \in 1..Len(chassis) \/ (d = Len(chassis') /\ chassis'[d] = new)
  BY <1>1 DEF new
<1>8. HasPlace(chassis', chassisOf')
  <2> SUFFICES ASSUME NEW n \in Nodes, chassisOf'[n] # 0
               PROVE  n \in BoardsIn(chassis'[chassisOf'[n]]) \cup chassis'[chassisOf'[n]].nodes
    BY DEF HasPlace
  <2>1. CASE n = node
    <3>1. chassisOf'[n] = Len(chassis')
      BY <1>1, <1>2, <2>1
    <3> QED BY <1>1, <2>1, <3>1 DEF new
  <2>2. CASE n # node
    <3>1. chassisOf'[n] = chassisOf[n]
      BY <1>1, <1>2, <2>2
    <3>2. chassisOf[n] \in 1..Len(chassis)
      BY <1>1, <1>6, <3>1
    <3> QED BY <1>1, <1>6, <3>1, <3>2 DEF HasPlace
  <2> QED BY <2>1, <2>2
<1>9. MembersAre(chassis', chassisOf', rec')
  <2> SUFFICES ASSUME NEW d \in 1..Len(chassis'), NEW m \in chassis'[d].nodes
               PROVE  /\ Vendor[m] # "VTR" /\ rec[m].side = "none" /\ chassisOf'[m] = d
                      /\ chassis'[d].guid.maker # "VTR"
    BY <1>2 DEF MembersAre
  <2>1. d \in 1..Len(chassis) /\ chassis'[d] = chassis[d]
    BY <1>1, <1>3, <1>7
  <2>2. Vendor[m] # "VTR" /\ rec[m].side = "none" /\ chassisOf[m] = d
        /\ chassis[d].guid.maker # "VTR"
    BY <1>6, <2>1 DEF MembersAre
  <2>3. m \in Nodes
    BY <1>0, <2>1, MembersAreNodes
  <2> QED BY <1>1, <1>2, <2>1, <2>2, <2>3
<1>10. IsStarted(new, S)
  <2>1. HasSpine(new, S)
    BY <1>1, <1>2, <1>4 DEF HasSpine
  <2>2. new.line = NoBoards /\ new.spine = WithBoard(NoBoards, SpineIndex(node), node)
    BY <1>0, StartedTyped, BuildParts DEF new
  <2>3. InTables(new)
    BY <1>0, <2>2 DEF InTables, WithBoard, NoBoards
  <2> QED BY <2>1, <2>3 DEF IsStarted
<1>11. SpinesStay(chassis', S)
  BY <1>1, <1>3, <1>6, <1>7 DEF SpinesStay
<1> QED BY <1>2, <1>3, <1>5, <1>8, <1>9, <1>10, <1>11 DEF PlacesKept, new, S

LEMMA CatchPlaces ==
  ASSUME SlotsAsBuilt, ListInv, CatchSpine \/ CatchLine, pc' # "failed"
  PROVE  PlacesKept'
<1> DEFINE S == Present \cap Switches
<1>1. BuildInv /\ pc = "build" /\ pc' = "build" /\ UNCHANGED <<fabric, rec>>
  BY CatchSteps DEF ListInv
<1>2. PICK e \in visits :
        \/ \E side \in {"line", "spine"}, i \in Nat :
             /\ Insert(Current, side, i, Peer(e))
             /\ i \in 1..(IF side = "line" THEN LinesMax ELSE SpinesMax)
        \/ UNCHANGED <<chassis, chassisOf>>
  <2>1. /\ \A e \in visits : SpineIndex(Peer(e)) \in 1..SpinesMax => SpineIndex(Peer(e)) \in Nat
        /\ \A e \in visits : LineIndex(Peer(e)) \in 1..LinesMax => LineIndex(Peer(e)) \in Nat
    BY DEF SpinesMax, LinesMax
  <2> QED BY <1>1, <2>1, CatchSteps
<1> DEFINE n == Peer(e)
           ch == chassis[Current]
<1>3. n \in Nodes /\ Vendor[n] = "VTR"
  BY <1>1, CaughtIs DEF BuildInv, GroupInv, VoltaireBuilds
<1>4. CASE UNCHANGED <<chassis, chassisOf>>
  BY <1>1, <1>4, SamePlacesKept
<1>5. ASSUME NEW side \in {"line", "spine"}, NEW i \in Nat, Insert(Current, side, i, n),
             i \in 1..(IF side = "line" THEN LinesMax ELSE SpinesMax)
      PROVE  PlacesKept'
  <2> HIDE DEF Insert, n
  <2>0. Insert(Current, side, i, n)
    BY <1>5
  <2>1. /\ Current \in 1..Len(chassis) /\ ch \in ChassisSet
        /\ Len(chassis') = Len(chassis)
        /\ \A c \in 1..Len(chassis) : c # Current => chassis'[c] = chassis[c]
        /\ BoardsIn(ch) \subseteq BoardsIn(chassis'[Current])
        /\ \A m \in Nodes : m # n => chassisOf'[m] = chassisOf[m]
        /\ \/ chassis' = chassis /\ chassisOf' = chassisOf
           \/ /\ chassis'[Current] = Put(ch, side, i, n)
              /\ BoardsIn(chassis'[Current]) = BoardsIn(ch) \cup {n}
              /\ chassisOf'[n] = Current
    BY <1>1, <1>3, <2>0, InsertIs
  <2>2. chassis'[Current].guid = ch.guid /\ chassis'[Current].nodes = ch.nodes
    <3>1. \A slots : [ch EXCEPT !.line = slots].guid = ch.guid /\ [ch EXCEPT !.line = slots].nodes = ch.nodes
      BY <2>1 DEF ChassisSet
    <3>2. \A slots : [ch EXCEPT !.spine = slots].guid = ch.guid /\ [ch EXCEPT !.spine = slots].nodes = ch.nodes
      BY <2>1 DEF ChassisSet
    <3>3. Put(ch, side, i, n).guid = ch.guid /\ Put(ch, side, i, n).nodes = ch.nodes
      <4>1. CASE side = "line"
        BY <3>1, <4>1 DEF Put
      <4>2. CASE side = "spine"
        BY <3>2, <4>2 DEF Put
      <4> QED BY <4>1, <4>2
    <3> QED BY <2>1, <3>3
  <2>3. /\ HasPlace(chassis, chassisOf) /\ MembersAre(chassis, chassisOf, rec)
        /\ SpinesStay(chassis, S) /\ ch.nodes = {} /\ IsStarted(ch, S)
        /\ chassis \in Seq(ChassisSet) /\ Len(chassis) \in Nat /\ chassisOf \in [Nodes -> Nat]
        /\ \A m \in Nodes : chassisOf[m] <= Len(chassis)
    BY <1>1, BuildParts DEF ListInv, PlacesKept, Typing
  <2>4. Present' = Present /\ Current' = Current
    BY <1>1, <2>1, GuidsStay DEF Current
  <2> HIDE DEF ch, S
  <2>5. HasPlace(chassis', chassisOf')
    <3> SUFFICES ASSUME NEW m \in Nodes, chassisOf'[m] # 0
                 PROVE  m \in BoardsIn(chassis'[chassisOf'[m]]) \cup chassis'[chassisOf'[m]].nodes
      BY DEF HasPlace
    <3>1. CASE chassisOf'[m] = chassisOf[m]
      <4>1. m \in BoardsIn(chassis[chassisOf[m]]) \cup chassis[chassisOf[m]].nodes
            /\ chassisOf[m] \in 1..Len(chassis)
        BY <2>3, <3>1 DEF HasPlace
      <4> QED BY <2>1, <2>2, <3>1, <4>1 DEF ch
    <3>2. CASE chassisOf'[m] # chassisOf[m]
      <4>1. m = n /\ chassisOf'[n] = Current /\ BoardsIn(chassis'[Current]) = BoardsIn(ch) \cup {n}
        BY <2>1, <3>2
      <4> QED BY <4>1
    <3> QED BY <3>1, <3>2
  <2>6. MembersAre(chassis', chassisOf', rec')
    <3> SUFFICES ASSUME NEW d \in 1..Len(chassis), NEW m \in chassis'[d].nodes
                 PROVE  /\ Vendor[m] # "VTR" /\ rec[m].side = "none" /\ chassisOf'[m] = d
                        /\ chassis'[d].guid.maker # "VTR"
      BY <1>1, <2>1 DEF MembersAre
    <3>1. d # Current /\ chassis'[d] = chassis[d]
      BY <2>1, <2>2, <2>3
    <3>2. Vendor[m] # "VTR" /\ rec[m].side = "none" /\ chassisOf[m] = d
          /\ chassis[d].guid.maker # "VTR"
      BY <2>3, <3>1 DEF MembersAre
    <3>3. m \in Nodes
      BY <1>1, <3>1, MembersAreNodes
    <3>4. m # n
      BY <1>3, <3>2
    <3> QED BY <2>1, <3>1, <3>2, <3>3, <3>4
  <2>7. IsStarted(chassis'[Current], S)
    <3>1. HasSpine(chassis'[Current], S)
      BY <2>1, <2>3 DEF HasSpine, IsStarted
    <3>2. InTables(chassis'[Current])
      <4>1. CASE chassis' = chassis
        BY <2>3, <4>1 DEF ch, IsStarted
      <4>2. CASE chassis'[Current] = Put(ch, side, i, n)
        <5>1. InTables(ch)
          BY <2>3 DEF IsStarted
        <5>2. ASSUME side = "line" PROVE InTables(Put(ch, side, i, n))
          <6>1. Put(ch, side, i, n).line = WithBoard(ch.line, i, n) /\ Put(ch, side, i, n).spine = ch.spine
            BY <1>3, <2>1, <5>2, PutTyped
          <6>2. DOMAIN WithBoard(ch.line, i, n) = DOMAIN ch.line \cup {i}
            BY DEF WithBoard
          <6>3. i \in 1..LinesMax
            BY <1>5, <5>2
          <6> QED BY <5>1, <6>1, <6>2, <6>3 DEF InTables
        <5>3. ASSUME side = "spine" PROVE InTables(Put(ch, side, i, n))
          <6>1. Put(ch, side, i, n).spine = WithBoard(ch.spine, i, n) /\ Put(ch, side, i, n).line = ch.line
            BY <1>3, <2>1, <5>3, PutTyped
          <6>2. DOMAIN WithBoard(ch.spine, i, n) = DOMAIN ch.spine \cup {i}
            BY DEF WithBoard
          <6>3. i \in 1..SpinesMax
            BY <1>5, <5>3
          <6> QED BY <5>1, <6>1, <6>2, <6>3 DEF InTables
        <5> QED BY <4>2, <5>2, <5>3
      <4> QED BY <2>1, <4>1, <4>2
    <3> QED BY <3>1, <3>2 DEF IsStarted
  <2>8. SpinesStay(chassis', S)
    <3> SUFFICES ASSUME NEW d \in 1..Len(chassis), chassis'[d].guid.maker = "VTR"
                 PROVE  IsStarted(chassis'[d], S)
      BY <2>1 DEF SpinesStay
    <3>1. CASE d = Current
      BY <2>7, <3>1
    <3>2. CASE d # Current
      BY <2>1, <2>3, <3>2 DEF SpinesStay
    <3> QED BY <3>1, <3>2
  <2> QED BY <1>1, <2>2, <2>3, <2>4, <2>5, <2>6, <2>7, <2>8 DEF PlacesKept, S
<1> QED BY <1>2, <1>4, <1>5

LEMMA EndPlaces ==
  ASSUME ListInv, EndChassis
  PROVE  PlacesKept'
<1> DEFINE S == Present \cap Switches
<1>1. BuildInv /\ pc = "build" /\ pc' = "search" /\ UNCHANGED <<fabric, rec, chassisOf>>
  BY DEF EndChassis, ListInv
<1>2. /\ Current \in 1..Len(chassis)
      /\ Len(chassis') = Len(chassis)
      /\ \A c \in 1..Len(chassis) : c # Current => chassis'[c] = chassis[c]
      /\ BoardsIn(chassis'[Current]) = BoardsIn(chassis[Current])
      /\ chassis'[Current].guid.maker = "VTR"
      /\ SameSlots(chassis[Current], chassis'[Current])
  BY <1>1, EndedTyped, BuildParts
<1>3. /\ HasPlace(chassis, chassisOf) /\ MembersAre(chassis, chassisOf, rec)
      /\ SpinesStay(chassis, S) /\ chassis[Current].nodes = {} /\ IsStarted(chassis[Current], S)
      /\ chassis \in Seq(ChassisSet) /\ Len(chassis) \in Nat /\ chassisOf \in [Nodes -> Nat]
      /\ \A m \in Nodes : chassisOf[m] <= Len(chassis)
  BY <1>1, BuildParts DEF ListInv, PlacesKept, Typing
<1>4. chassis'[Current].nodes = {}
  <2>1. \A guid : [chassis EXCEPT ![Current].guid = guid][Current].nodes = chassis[Current].nodes
    <3>1. chassis[Current] \in ChassisSet
      BY <1>2, <1>3
    <3>2. \A guid : [chassis[Current] EXCEPT !.guid = guid].nodes = chassis[Current].nodes
      BY <3>1 DEF ChassisSet
    <3> QED BY <1>2, <1>3, <3>2
  <2> QED BY <1>3, <2>1 DEF EndChassis
<1>5. Present' = Present
  BY <1>1, GuidsStay
<1>6. GroupsAre(chassis', chassisOf', rec')
  <2> SUFFICES ASSUME NEW d \in 1..Len(chassis'), chassis'[d].guid.maker # "VTR" PROVE FALSE
    BY DEF GroupsAre
  <2>1. d # Current /\ chassis'[d] = chassis[d] /\ d \in 1..Len(chassis)
    BY <1>2
  <2> QED BY <1>1, <2>1 DEF BuildInv, GroupInv, BuiltFirst, Groups
<1> HIDE DEF S
<1>7. HasPlace(chassis', chassisOf')
  <2> SUFFICES ASSUME NEW m \in Nodes, chassisOf[m] # 0
               PROVE  m \in BoardsIn(chassis'[chassisOf[m]]) \cup chassis'[chassisOf[m]].nodes
    BY <1>1 DEF HasPlace
  <2>1. m \in BoardsIn(chassis[chassisOf[m]]) \cup chassis[chassisOf[m]].nodes
        /\ chassisOf[m] \in 1..Len(chassis)
    BY <1>3 DEF HasPlace
  <2>2. CASE chassisOf[m] = Current
    BY <1>2, <1>3, <1>4, <2>1, <2>2
  <2>3. CASE chassisOf[m] # Current
    BY <1>2, <2>1, <2>3
  <2> QED BY <2>2, <2>3
<1>8. MembersAre(chassis', chassisOf', rec')
  <2> SUFFICES ASSUME NEW d \in 1..Len(chassis), NEW m \in chassis'[d].nodes
               PROVE  /\ Vendor[m] # "VTR" /\ rec[m].side = "none" /\ chassisOf[m] = d
                      /\ chassis'[d].guid.maker # "VTR"
    BY <1>1, <1>2 DEF MembersAre
  <2>1. d # Current /\ chassis'[d] = chassis[d]
    BY <1>2, <1>4
  <2> QED BY <1>3, <2>1 DEF MembersAre
<1>9. SpinesStay(chassis', S)
  <2> SUFFICES ASSUME NEW d \in 1..Len(chassis), chassis'[d].guid.maker = "VTR"
               PROVE  IsStarted(chassis'[d], S)
    BY <1>2 DEF SpinesStay
  <2>1. CASE d = Current
    BY <1>2, <1>3, <2>1 DEF HasSpine, IsStarted, InTables, SameSlots
  <2>2. CASE d # Current
    BY <1>2, <1>3, <2>2 DEF SpinesStay
  <2> QED BY <2>1, <2>2
<1> QED BY <1>1, <1>5, <1>6, <1>7, <1>8, <1>9 DEF PlacesKept, S

\* What stays true of the chassis while only their counts and numbers change and
\* empty ones are added.
LEMMA SameGroups ==
  ASSUME NEW chs, NEW new, NEW of, NEW r, NEW S, Len(chs) \in Nat, Len(new) \in Nat,
         Len(chs) <= Len(new), \A n \in Nodes : of[n] \in Nat /\ of[n] <= Len(chs),
         \A d \in 1..Len(chs) : /\ SameSlots(chs[d], new[d]) /\ new[d].guid = chs[d].guid
                                /\ new[d].nodes = chs[d].nodes,
         \A d \in 1..Len(new) : d \notin 1..Len(chs) =>
           /\ new[d].line = NoBoards /\ new[d].spine = NoBoards
           /\ new[d].guid.maker # "VTR" /\ new[d].nodes = {},
         HasPlace(chs, of), MembersAre(chs, of, r), GroupsAre(chs, of, r), SpinesStay(chs, S)
  PROVE  /\ HasPlace(new, of) /\ MembersAre(new, of, r) /\ GroupsAre(new, of, r)
         /\ SpinesStay(new, S)
<1>1. \A d \in 1..Len(chs) : d \in 1..Len(new)
  OBVIOUS
<1>2. \A d \in 1..Len(chs) : BoardsIn(new[d]) = BoardsIn(chs[d])
  BY DEF SameSlots, BoardsIn
<1>3. HasPlace(new, of)
  <2> SUFFICES ASSUME NEW n \in Nodes, of[n] # 0
               PROVE  n \in BoardsIn(new[of[n]]) \cup new[of[n]].nodes
    BY DEF HasPlace
  <2>1. of[n] \in 1..Len(chs)
    OBVIOUS
  <2> QED BY <1>2, <2>1 DEF HasPlace
<1>4. MembersAre(new, of, r)
  <2> SUFFICES ASSUME NEW d \in 1..Len(new), NEW m \in new[d].nodes
               PROVE  /\ Vendor[m] # "VTR" /\ r[m].side = "none" /\ of[m] = d
                      /\ new[d].guid.maker # "VTR"
    BY DEF MembersAre
  <2>1. d \in 1..Len(chs)
    OBVIOUS
  <2> QED BY <2>1 DEF MembersAre
<1>5. GroupsAre(new, of, r)
  <2> SUFFICES ASSUME NEW d \in 1..Len(new), new[d].guid.maker # "VTR"
               PROVE  IsGroup(new[d], d, of, r)
    BY DEF GroupsAre
  <2>1. CASE d \in 1..Len(chs)
    BY <2>1 DEF GroupsAre, IsGroup, SameSlots
  <2>2. CASE d \notin 1..Len(chs)
    BY <2>2 DEF IsGroup, NoBoards
  <2> QED BY <2>1, <2>2
<1>6. SpinesStay(new, S)
  <2> SUFFICES ASSUME NEW d \in 1..Len(new), new[d].guid.maker = "VTR"
               PROVE  IsStarted(new[d], S)
    BY DEF SpinesStay
  <2>1. d \in 1..Len(chs)
    OBVIOUS
  <2> QED BY <1>2, <2>1 DEF SpinesStay, HasSpine, IsStarted, InTables, SameSlots
<1> QED BY <1>3, <1>4, <1>5, <1>6

LEMMA CountPlaces ==
  ASSUME ListInv, CountNode
  PROVE  PlacesKept'
<1> DEFINE S == Present \cap Switches
<1>1. /\ BuildInv /\ pc = "count" /\ pc' = "count" /\ UNCHANGED <<fabric, rec, chassisOf>>
      /\ at <= Len(fabric.order)
  BY DEF CountNode, Turn, ListInv
<1>2. /\ HasPlace(chassis, chassisOf) /\ MembersAre(chassis, chassisOf, rec)
      /\ GroupsAre(chassis, chassisOf, rec) /\ SpinesStay(chassis, S)
      /\ Len(chassis) \in Nat /\ \A n \in Nodes : chassisOf[n] \in Nat /\ chassisOf[n] <= Len(chassis)
  BY <1>1, BuildParts DEF ListInv, PlacesKept, Typing
<1>3. /\ Len(chassis') \in Len(chassis)..(Len(chassis) + 1)
      /\ \A d \in 1..Len(chassis) : /\ chassis'[d].guid = chassis[d].guid
                                    /\ SameSlots(chassis[d], chassis'[d])
      /\ Len(chassis') # Len(chassis) =>
           /\ chassis'[Len(chassis')].line = NoBoards
           /\ chassis'[Len(chassis')].spine = NoBoards
  BY <1>1, CountedTyped, BuildParts
<1>4. /\ \A d \in 1..Len(chassis) : chassis'[d].nodes = chassis[d].nodes
      /\ Len(chassis') # Len(chassis) =>
           chassis'[Len(chassis')].guid.maker # "VTR" /\ chassis'[Len(chassis')].nodes = {}
  <2>1. CASE ~Grouped(node)
    BY <2>1 DEF CountNode
  <2>2. CASE Grouped(node) /\ Found(node) # 0
    BY <1>1, <2>2, CountParts, BuildParts
  <2>3. CASE Grouped(node) /\ Found(node) = 0
    <3>1. node \in Nodes
      BY <1>1, NodeTyped, BuildParts
    <3>2. ChassisGuid(node).maker # "VTR"
      BY <1>1, <2>3, <3>1, OtherGuid, BuildParts
    <3> QED BY <1>1, <2>3, <3>2, NewGroupParts, BuildParts
  <2> QED BY <2>1, <2>2, <2>3
<1>5. Len(chassis') \in Nat /\ Len(chassis) <= Len(chassis')
  BY <1>2, <1>3
<1>6. \A d \in 1..Len(chassis') : d \notin 1..Len(chassis) =>
        d = Len(chassis') /\ Len(chassis') # Len(chassis)
  BY <1>2, <1>3
<1>7. Present' = Present
  BY <1>1, GuidsStay
<1> HIDE DEF S
<1>8. /\ HasPlace(chassis', chassisOf) /\ MembersAre(chassis', chassisOf, rec)
      /\ GroupsAre(chassis', chassisOf, rec) /\ SpinesStay(chassis', S)
  <2>1. \A d \in 1..Len(chassis') : d \notin 1..Len(chassis) =>
           /\ chassis'[d].line = NoBoards /\ chassis'[d].spine = NoBoards
           /\ chassis'[d].guid.maker # "VTR" /\ chassis'[d].nodes = {}
    BY <1>3, <1>4, <1>6
  <2> QED BY <1>2, <1>3, <1>4, <1>5, <2>1, SameGroups
<1> QED BY <1>1, <1>7, <1>8 DEF PlacesKept, S

Added(slots, new, i, n) ==
  /\ DOMAIN new = DOMAIN slots \cup {i} /\ new[i] = n
  /\ \A j \in DOMAIN slots : j # i /\ new[j] = slots[j]

LEMMA BoardAdded ==
  ASSUME NEW slots, NEW i, NEW n, i \notin DOMAIN slots
  PROVE  Added(slots, WithBoard(slots, i, n), i, n)
BY DEF WithBoard, Added

\* Node n becomes a member of a chassis, or gets a slot of it that is free.
FindsPlace(ch, new, r, n) ==
  \/ new.nodes = ch.nodes \cup {n} /\ SameSlots(ch, new) /\ r[n].side = "none"
  \/ /\ new.nodes = ch.nodes /\ n \in Switches /\ Vendor[n] = "MLX"
     /\ \E side \in {"line", "spine"} : /\ r[n].side = side /\ r[n].slot \notin DOMAIN ch[side]
                                       /\ MoreSlots(ch, new, side, r[n].slot, n)

PutIn(chs, new, of, to, r, n, c) ==
  /\ Len(new) = Len(chs) /\ new[c].guid = chs[c].guid /\ FindsPlace(chs[c], new[c], r, n)
  /\ \A d \in 1..Len(chs) : d # c => new[d] = chs[d]
  /\ of[n] = 0 /\ to[n] = c /\ \A m \in Nodes : m # n => to[m] = of[m]

\* A node without a chassis is put in one.
LEMMA PlacesGrow ==
  ASSUME NEW chs, NEW new, NEW of, NEW to, NEW r, NEW S, NEW n \in Nodes, NEW c \in 1..Len(chs),
         Len(chs) \in Nat, \A m \in Nodes : of[m] \in 0..Len(chs),
         \A d \in 1..Len(chs) : \A m \in chs[d].nodes : m \in Nodes,
         Vendor[n] # "VTR", chs[c].guid.maker # "VTR", PutIn(chs, new, of, to, r, n, c),
         HasPlace(chs, of), MembersAre(chs, of, r), GroupsAre(chs, of, r), SpinesStay(chs, S)
  PROVE  /\ HasPlace(new, to) /\ MembersAre(new, to, r) /\ GroupsAre(new, to, r)
         /\ SpinesStay(new, S)
<1>10. /\ Len(new) = Len(chs) /\ new[c].guid = chs[c].guid /\ FindsPlace(chs[c], new[c], r, n)
       /\ \A d \in 1..Len(chs) : d # c => new[d] = chs[d]
       /\ of[n] = 0 /\ to[n] = c /\ \A m \in Nodes : m # n => to[m] = of[m]
  BY DEF PutIn
<1> USE <1>10
<1> DEFINE Member == new[c].nodes = chs[c].nodes \cup {n} /\ SameSlots(chs[c], new[c])
                     /\ r[n].side = "none"
           Board(side) == /\ new[c].nodes = chs[c].nodes /\ n \in Switches /\ Vendor[n] = "MLX"
                          /\ r[n].side = side /\ r[n].slot \notin DOMAIN chs[c][side]
                          /\ MoreSlots(chs[c], new[c], side, r[n].slot, n)
<1>1. Member \/ Board("line") \/ Board("spine")
  BY DEF FindsPlace
<1>9. /\ Board("line") => new[c].spine = chs[c].spine /\ Added(chs[c].line, new[c].line, r[n].slot, n)
      /\ Board("spine") => new[c].line = chs[c].line /\ Added(chs[c].spine, new[c].spine, r[n].slot, n)
  <2>1. ASSUME Board("line")
        PROVE  /\ new[c].line = WithBoard(chs[c].line, r[n].slot, n) /\ new[c].spine = chs[c].spine
               /\ r[n].slot \notin DOMAIN chs[c].line
    BY <2>1 DEF MoreSlots
  <2>2. ASSUME Board("spine")
        PROVE  /\ new[c].spine = WithBoard(chs[c].spine, r[n].slot, n) /\ new[c].line = chs[c].line
               /\ r[n].slot \notin DOMAIN chs[c].spine
    BY <2>2 DEF MoreSlots
  <2> HIDE DEF Board
  <2> QED BY <2>1, <2>2, BoardAdded
<1>2. to[n] = c /\ \A m \in Nodes : m # n => to[m] = of[m]
  OBVIOUS
<1>3. /\ BoardsIn(chs[c]) \cup chs[c].nodes \cup {n} \subseteq BoardsIn(new[c]) \cup new[c].nodes
      /\ new[c].nodes \subseteq chs[c].nodes \cup (IF r[n].side = "none" THEN {n} ELSE {})
  <2>1. CASE Member
    BY <2>1 DEF SameSlots, BoardsIn
  <2>2. CASE Board("line")
    BY <1>9, <2>2 DEF BoardsIn, Added
  <2>3. CASE Board("spine")
    BY <1>9, <2>3 DEF BoardsIn, Added
  <2> QED BY <1>1, <2>1, <2>2, <2>3
<1>4. IsGroup(new[c], c, to, r)
  <2>1. /\ \A i \in DOMAIN chs[c].line : IsIn(r, of, chs[c].line[i], "line", i, c)
        /\ \A i \in DOMAIN chs[c].spine : IsIn(r, of, chs[c].spine[i], "spine", i, c)
    BY DEF GroupsAre, IsGroup
  <2>2. \A m, side, i : IsIn(r, of, m, side, i, c) => IsIn(r, to, m, side, i, c)
    <3>1. \A m \in Switches : of[m] = c => to[m] = c
      BY FabricAssumption, <1>2
    <3> QED BY <3>1 DEF IsIn
  <2>3. CASE Member
    BY <2>1, <2>2, <2>3 DEF SameSlots, IsGroup
  <2>4. CASE Board("line")
    <3>1. IsIn(r, to, n, "line", r[n].slot, c)
      BY <1>2, <2>4 DEF IsIn
    <3> QED BY <1>9, <2>1, <2>2, <2>4, <3>1 DEF IsGroup, Added
  <2>5. CASE Board("spine")
    <3>1. IsIn(r, to, n, "spine", r[n].slot, c)
      BY <1>2, <2>5 DEF IsIn
    <3> QED BY <1>9, <2>1, <2>2, <2>5, <3>1 DEF IsGroup, Added
  <2> QED BY <1>1, <2>3, <2>4, <2>5
<1> HIDE DEF Member, Board
<1>5. HasPlace(new, to)
  <2> SUFFICES ASSUME NEW m \in Nodes, to[m] # 0
               PROVE  m \in BoardsIn(new[to[m]]) \cup new[to[m]].nodes
    BY DEF HasPlace
  <2>1. CASE m = n
    BY <1>2, <1>3, <2>1
  <2>2. CASE m # n
    <3>1. to[m] = of[m] /\ of[m] \in 1..Len(chs) /\ m \in BoardsIn(chs[of[m]]) \cup chs[of[m]].nodes
      BY <1>2, <2>2 DEF HasPlace
    <3>2. CASE of[m] = c
      BY <1>3, <3>1, <3>2
    <3>3. CASE of[m] # c
      BY <3>1, <3>3
    <3> QED BY <3>2, <3>3
  <2> QED BY <2>1, <2>2
<1>6. MembersAre(new, to, r)
  <2> SUFFICES ASSUME NEW d \in 1..Len(chs), NEW m \in new[d].nodes
               PROVE  /\ Vendor[m] # "VTR" /\ r[m].side = "none" /\ to[m] = d
                      /\ new[d].guid.maker # "VTR"
    BY DEF MembersAre
  <2>1. CASE m \in chs[d].nodes
    <3>1. /\ Vendor[m] # "VTR" /\ r[m].side = "none" /\ of[m] = d /\ m \in Nodes
          /\ chs[d].guid.maker # "VTR"
      BY <2>1 DEF MembersAre
    <3>2. m # n
      BY <3>1
    <3>3. new[d].guid.maker # "VTR"
      BY <3>1
    <3> QED BY <1>2, <3>1, <3>2, <3>3
  <2>2. CASE m \notin chs[d].nodes
    <3>1. d = c /\ m = n /\ r[n].side = "none"
      BY <1>3, <2>2
    <3> QED BY <1>2, <3>1
  <2> QED BY <2>1, <2>2
<1>7. GroupsAre(new, to, r)
  <2> SUFFICES ASSUME NEW d \in 1..Len(chs), new[d].guid.maker # "VTR", d # c
               PROVE  IsGroup(new[d], d, to, r)
    BY <1>4 DEF GroupsAre
  <2>1. new[d] = chs[d] /\ IsGroup(chs[d], d, of, r)
    BY DEF GroupsAre
  <2>2. \A m \in Switches : of[m] = d => to[m] = d
    BY FabricAssumption, <1>2
  <2> QED BY <2>1, <2>2 DEF IsGroup, IsIn
<1>8. SpinesStay(new, S)
  <2> SUFFICES ASSUME NEW d \in 1..Len(chs), new[d].guid.maker = "VTR"
               PROVE  IsStarted(new[d], S)
    BY DEF SpinesStay
  <2>1. d # c
    OBVIOUS
  <2> QED BY <2>1 DEF SpinesStay
<1> QED BY <1>5, <1>6, <1>7, <1>8

\* Only the sides and slots in the records matter.
LEMMA PlacesBySlots ==
  ASSUME NEW chs, NEW of, NEW r, NEW new, SamePlaces(r, new),
         \A d \in 1..Len(chs) : chs[d].nodes \subseteq Nodes,
         MembersAre(chs, of, r), GroupsAre(chs, of, r)
  PROVE  MembersAre(chs, of, new) /\ GroupsAre(chs, of, new)
<1>1. MembersAre(chs, of, new)
  BY DEF MembersAre, SamePlaces
<1>2. \A m, side, i, d : IsIn(r, of, m, side, i, d) => IsIn(new, of, m, side, i, d)
  BY FabricAssumption DEF IsIn, SamePlaces
<1>3. GroupsAre(chs, of, new)
  <2> SUFFICES ASSUME NEW d \in 1..Len(chs), chs[d].guid.maker # "VTR"
               PROVE  IsGroup(chs[d], d, of, new)
    BY DEF GroupsAre
  <2> QED BY <1>2 DEF GroupsAre, IsGroup
<1> QED BY <1>1, <1>3

LEMMA GroupPlaces ==
  ASSUME ListInv, GroupNode
  PROVE  PlacesKept'
<1> DEFINE S == Present \cap Switches
           c == Found(node)
<1>1. /\ BuildInv /\ pc = "group" /\ pc' = "group" /\ fabric' = fabric /\ at <= Len(fabric.order)
  BY DEF GroupNode, Turn, ListInv
<1>2. /\ HasPlace(chassis, chassisOf) /\ MembersAre(chassis, chassisOf, rec)
      /\ GroupsAre(chassis, chassisOf, rec) /\ SpinesStay(chassis, S)
      /\ Len(chassis) \in Nat /\ chassisOf \in [Nodes -> Nat]
      /\ \A n \in Nodes : chassisOf[n] <= Len(chassis)
  BY <1>1, BuildParts DEF ListInv, PlacesKept, Typing
<1>3. Present' = Present
  BY <1>1, GuidsStay
<1>4. SamePlaces(rec, rec')
  BY <1>1, GroupNodeParts, BuildParts
<1>5. \A d \in 1..Len(chassis) : chassis[d].nodes \subseteq Nodes
  BY <1>1, MembersAreNodes
<1>6. node \in Nodes
  BY <1>1, NodeTyped, BuildParts
<1> HIDE DEF S
<1>7. SUFFICES /\ HasPlace(chassis', chassisOf') /\ MembersAre(chassis', chassisOf', rec')
               /\ GroupsAre(chassis', chassisOf', rec') /\ SpinesStay(chassis', S)
  BY <1>1, <1>3 DEF PlacesKept, S
<1>8. CASE ~(Grouped(node) /\ c # 0 /\ IsChassis(c))
  BY <1>1, <1>2, <1>8, GroupParts, BuildParts
<1>9. CASE Grouped(node) /\ c # 0 /\ IsChassis(c)
  <2>1. /\ c \in 1..Len(chassis) /\ Len(chassis') = Len(chassis)
        /\ \A d \in 1..Len(chassis) : d # c => chassis'[d] = chassis[d]
        /\ chassis'[c].guid = chassis[c].guid
        /\ \/ /\ ~rec[node].found
              /\ chassisOf' = [chassisOf EXCEPT ![node] = c]
              /\ chassis'[c].nodes = chassis[c].nodes \cup {node}
              /\ SameSlots(chassis[c], chassis'[c])
           \/ /\ rec[node].found /\ Vendor[node] = "MLX" /\ rec[node].side \in {"line", "spine"}
              /\ rec[node].slot \notin DOMAIN chassis[c][rec[node].side]
              /\ chassisOf' = [chassisOf EXCEPT ![node] = c]
              /\ chassis'[c].nodes = chassis[c].nodes
              /\ MoreSlots(chassis[c], chassis'[c], rec[node].side, rec[node].slot, node)
           \/ /\ chassisOf' = chassisOf
              /\ chassis'[c].nodes = chassis[c].nodes
              /\ SameSlots(chassis[c], chassis'[c])
    BY <1>1, <1>9, GroupParts, BuildParts
  <2>2. Vendor[node] # "VTR" /\ chassis[c].guid.maker # "VTR"
    <3>1. chassis[c].guid = ChassisGuid(node)
      BY <1>1, <1>9, FoundIsOne, BuildParts
    <3>2. ChassisGuid(node).maker # "VTR"
      BY <1>1, <1>6, <1>9, OtherGuid, BuildParts
    <3> QED BY <1>9, <3>1, <3>2 DEF Grouped
  <2>3. node \notin Sorted
    BY <1>1, AheadIs, BuildParts DEF Sorted
  <2>4. /\ chassisOf[node] = 0
        /\ rec[node].side \in {"none", "line", "spine"}
        /\ rec[node].side # "none" => rec[node].found /\ node \in Switches
    BY <1>1, <1>6, <2>2, <2>3 DEF BuildInv, GroupInv, OthersFree, OthersFiled, OtherFiled
  <2> HIDE DEF c
  <2>5. CASE chassisOf' = [chassisOf EXCEPT ![node] = c]
             /\ \/ /\ chassis'[c].nodes = chassis[c].nodes \cup {node}
                   /\ SameSlots(chassis[c], chassis'[c]) /\ rec[node].side = "none"
                \/ /\ chassis'[c].nodes = chassis[c].nodes /\ node \in Switches /\ Vendor[node] = "MLX"
                   /\ \E side \in {"line", "spine"} :
                        /\ rec[node].side = side /\ rec[node].slot \notin DOMAIN chassis[c][side]
                        /\ MoreSlots(chassis[c], chassis'[c], side, rec[node].slot, node)
    <3>1. /\ HasPlace(chassis', chassisOf') /\ MembersAre(chassis', chassisOf', rec)
          /\ GroupsAre(chassis', chassisOf', rec) /\ SpinesStay(chassis', S)
      <4> DEFINE new == chassis'
                 to == chassisOf'
      <4>1. PutIn(chassis, new, chassisOf, to, rec, node, c)
        BY <1>2, <1>6, <2>1, <2>4, <2>5 DEF FindsPlace, PutIn
      <4>3. /\ \A m \in Nodes : chassisOf[m] \in 0..Len(chassis)
            /\ \A d \in 1..Len(chassis) : \A m \in chassis[d].nodes : m \in Nodes
        BY <1>2, <1>5
      <4> HIDE DEF new, to
      <4>2. /\ HasPlace(new, to) /\ MembersAre(new, to, rec)
            /\ GroupsAre(new, to, rec) /\ SpinesStay(new, S)
        BY <1>2, <1>6, <2>1, <2>2, <4>1, <4>3, PlacesGrow
      <4> QED BY <4>2 DEF new, to
    <3>2. \A d \in 1..Len(chassis') : chassis'[d].nodes \subseteq Nodes
      BY <1>5, <1>6, <2>1, <2>5
    <3> QED BY <1>4, <3>1, <3>2, PlacesBySlots
  <2>6. CASE chassisOf' = chassisOf /\ chassis'[c].nodes = chassis[c].nodes
             /\ SameSlots(chassis[c], chassis'[c])
    <3>1. \A d \in 1..Len(chassis) : /\ SameSlots(chassis[d], chassis'[d])
                                     /\ chassis'[d].guid = chassis[d].guid
                                     /\ chassis'[d].nodes = chassis[d].nodes
      BY <2>1, <2>6 DEF SameSlots
    <3>2. \A n \in Nodes : chassisOf[n] \in Nat /\ chassisOf[n] <= Len(chassis)
      BY <1>2
    <3>5. /\ Len(chassis') \in Nat /\ Len(chassis) <= Len(chassis')
          /\ \A d \in 1..Len(chassis') : d \notin 1..Len(chassis) =>
               /\ chassis'[d].line = NoBoards /\ chassis'[d].spine = NoBoards
               /\ chassis'[d].guid.maker # "VTR" /\ chassis'[d].nodes = {}
      BY <1>2, <2>1
    <3>3. /\ HasPlace(chassis', chassisOf) /\ MembersAre(chassis', chassisOf, rec)
          /\ GroupsAre(chassis', chassisOf, rec) /\ SpinesStay(chassis', S)
      BY <1>2, <3>1, <3>2, <3>5, SameGroups
    <3>4. \A d \in 1..Len(chassis') : chassis'[d].nodes \subseteq Nodes
      BY <1>5, <2>1, <2>6
    <3> QED BY <1>4, <2>6, <3>3, <3>4, PlacesBySlots
  <2>7. ~rec[node].found => rec[node].side = "none"
    BY <2>4
  <2>8. Vendor[node] = "MLX" /\ rec[node].side \in {"line", "spine"} => node \in Switches
    BY <2>4
  <2> QED BY <2>1, <2>5, <2>6, <2>7, <2>8
<1> QED BY <1>8, <1>9

LEMMA ListStep ==
  ASSUME SlotsAsBuilt, VoltaireInside, PlacesAsBuilt, ListInv, [Next]_vars
  PROVE  NoneYet' /\ PlacesKept'
<1>1. NoneYet'
  BY DEF ListInv, NoneYet, Next, vars, FillRecord, NextLoop, SkipNode, StartChassis, CatchSpine,
         CatchLine, StartPass, EndChassis, CountNode, GroupNode, Turn, Fail
<1>2. SUFFICES ASSUME pc' # "failed" PROVE PlacesKept'
  BY <1>1 DEF PlacesKept
<1>3. CASE NextLoop \/ SkipNode \/ StartPass \/ UNCHANGED vars
  <2>1. /\ UNCHANGED <<fabric, rec, chassisOf, chassis>> /\ pc # "failed"
        /\ pc' = "build" <=> pc = "build"
    BY <1>2, <1>3 DEF NextLoop, SkipNode, StartPass, Turn, vars
  <2> QED BY <1>2, <2>1, SamePlacesKept
<1> QED BY <1>2, <1>3, FillPlaces, StartPlaces, CatchPlaces, EndPlaces, CountPlaces, GroupPlaces DEF Next

LEMMA InitLists ==
  ASSUME Init
  PROVE  ListInv
<1>1. BuildInv
  BY InitBuilds
<1>2. chassis = <<>> /\ pc = "fill" /\ (\A n \in Nodes : chassisOf[n] = 0) /\ 1..Len(chassis) = {}
  BY DEF Init
<1>3. PlacesKept
  BY <1>2 DEF PlacesKept, HasPlace, MembersAre, GroupsAre, SpinesStay
<1> QED BY <1>1, <1>2, <1>3 DEF ListInv, NoneYet

\* Every node of chassis d is in one place of it, and in no other chassis.
IsTidy(ch, d) ==
  /\ \A i \in DOMAIN ch.line : chassisOf[ch.line[i]] = d /\ ch.line[i] \notin Routers
  /\ \A i \in DOMAIN ch.spine : chassisOf[ch.spine[i]] = d /\ ch.spine[i] \notin Routers
  /\ \A i, j \in DOMAIN ch.line : ch.line[i] = ch.line[j] => i = j
  /\ \A i, j \in DOMAIN ch.spine : ch.spine[i] = ch.spine[j] => i = j
  /\ \A i \in DOMAIN ch.line, j \in DOMAIN ch.spine : ch.line[i] # ch.spine[j]
  /\ \A m \in ch.nodes : chassisOf[m] = d /\ m \notin BoardsIn(ch) /\ ~OutOfSlots(m)
  /\ \A i \in DOMAIN ch.line : i \in SlotsShown("line") <=> ~OutOfSlots(ch.line[i])
  /\ \A i \in DOMAIN ch.spine : i \in SlotsShown("spine") <=> ~OutOfSlots(ch.spine[i])

LEMMA ListedIsTidy ==
  ASSUME SlotsAsBuilt, VoltaireInside, PlacesAsBuilt, ModulesAreNoRouters, ListInv, pc = "done",
         Collected, NEW d \in 1..Len(chassis), chassis[d].num # 0
  PROVE  IsTidy(chassis[d], d)
<1> DEFINE ch == chassis[d]
<1>1. /\ MembersAre(chassis, chassisOf, rec) /\ GroupsAre(chassis, chassisOf, rec)
      /\ SpinesStay(chassis, Present \cap Switches) /\ BuildInv
  BY DEF ListInv, PlacesKept
<1>2. CASE ch.guid.maker = "VTR"
  <2>1. PICK s \in BoardsIn(ch) : s \in Present \cap Switches /\ Vendor[s] = "VTR" /\ IsSpine(s)
    BY <1>1, <1>2 DEF SpinesStay, IsStarted, HasSpine
  <2>2. IsGood(s)
    BY <2>1 DEF Collected, IsGood
  <2> DEFINE K == Within(s, 5)
  <2>3. IsAssembly(fabric, K) /\ s \in K
    BY <1>1, <2>2, GoodIsAssembly, BuildParts
  <2> HIDE DEF K
  <2>4. K \subseteq Nodes /\ \A n \in K : Vendor[n] = "VTR"
    BY <2>3 DEF IsAssembly
  <2>5. AssemblyOk(K)
    BY <1>1, <2>3, <2>4 DEF BuildInv, Assemblies
  <2>6. chassisOf[s] # 0 /\ IsKept(chassis, chassisOf, rec, K)
    BY <2>1, <2>3, <2>5 DEF AssemblyOk, Searched
  <2>7. PICK c \in 1..Len(chassis) : IsHeldBy(chassis, chassisOf, rec, K, c)
    BY <2>3, <2>6 DEF IsKept, IsUntouched
  <2>8. d = c
    BY <2>1, <2>3, <2>7 DEF IsHeldBy, OthersLeft
  <2>9. /\ BoardsIn(ch) = K /\ \A n \in K : chassisOf[n] = d
        /\ SlotsRight(rec, ch)
    BY <2>7, <2>8 DEF IsHeldBy
  <2>10. \A n \in K : n \notin Routers
    BY <2>4 DEF ModulesAreNoRouters
  <2>11. ch.nodes = {}
    BY <1>1, <1>2 DEF MembersAre
  <2>13. \A n \in K : ~OutOfSlots(n)
    BY <2>4 DEF OutOfSlots
  <2>14. InTables(ch)
    BY <1>1, <1>2 DEF SpinesStay, IsStarted
  <2> HIDE DEF ch
  <2>12. /\ \A i \in DOMAIN ch.line : ch.line[i] \in K
         /\ \A i \in DOMAIN ch.spine : ch.spine[i] \in K
    BY <2>9 DEF BoardsIn
  <2> QED BY <2>9, <2>10, <2>11, <2>12, <2>13, <2>14 DEF IsTidy, SlotsRight, InTables, SlotsShown, ch
<1>3. CASE ch.guid.maker # "VTR"
  <2>1. /\ \A i \in DOMAIN ch.line : IsIn(rec, chassisOf, ch.line[i], "line", i, d)
        /\ \A i \in DOMAIN ch.spine : IsIn(rec, chassisOf, ch.spine[i], "spine", i, d)
    BY <1>1, <1>3 DEF GroupsAre, IsGroup
  <2>2. \A m \in ch.nodes : rec[m].side = "none" /\ chassisOf[m] = d
    BY <1>1 DEF MembersAre
  <2>3. \A n \in BoardsIn(ch) : rec[n].side # "none"
    BY <2>1 DEF BoardsIn, IsIn
  <2>4. \A n \in Switches : n \notin Routers
    BY ListingAssumption
  <2> QED BY <2>1, <2>2, <2>3, <2>4 DEF IsTidy, IsIn, OutOfSlots
<1> QED BY <1>2, <1>3

LeftOut(n) == n \in Routers \/ OutOfSlots(n)

\* The entries of a chassis that is in order.
LEMMA EntriesOfOne ==
  ASSUME NEW d \in 1..Len(chassis), IsTidy(chassis[d], d)
  PROVE  /\ \A x \in ChassisEntries(d) : chassisOf[x.node] = d /\ ~LeftOut(x.node)
         /\ \A x, y \in ChassisEntries(d) : x.node = y.node => x = y
         /\ \A n \in BoardsIn(chassis[d]) \cup chassis[d].nodes :
              ~LeftOut(n) => \E x \in ChassisEntries(d) : x.node = n
<1> DEFINE ch == chassis[d]
           IsSpineEntry(x, i) ==
             i \in DOMAIN ch.spine /\ i \in SlotsShown("spine") /\ x = Entry("spine", d, i, ch.spine[i])
           IsLineEntry(x, i) ==
             i \in DOMAIN ch.line /\ i \in SlotsShown("line") /\ x = Entry("line", d, i, ch.line[i])
           IsMember(x) == \E m \in ch.nodes \ Routers : x = Entry("member", d, 0, m)
<1>1. \A x : x \in ChassisEntries(d) <=>
               (\E i : IsSpineEntry(x, i)) \/ (\E i : IsLineEntry(x, i)) \/ IsMember(x)
  BY DEF ChassisEntries, SlotEntries, MemberEntries
<1>2. /\ \A x, i : IsSpineEntry(x, i) => x.node = ch.spine[i]
      /\ \A x, i : IsLineEntry(x, i) => x.node = ch.line[i]
      /\ \A x : IsMember(x) => x.node \in ch.nodes \ Routers /\ x = Entry("member", d, 0, x.node)
  BY DEF Entry
<1>3. /\ \A x, i : IsSpineEntry(x, i) => x.node \in BoardsIn(ch)
      /\ \A x, i : IsLineEntry(x, i) => x.node \in BoardsIn(ch)
  BY <1>2 DEF BoardsIn
<1>4. ASSUME NEW x \in ChassisEntries(d) PROVE chassisOf[x.node] = d /\ ~LeftOut(x.node)
  BY <1>1, <1>2 DEF IsTidy, LeftOut
<1>5. ASSUME NEW x \in ChassisEntries(d), NEW y \in ChassisEntries(d), x.node = y.node PROVE x = y
  <2>1. CASE IsMember(x)
    <3>1. IsMember(y)
      BY <1>1, <1>2, <1>3, <1>5, <2>1 DEF IsTidy
    <3> QED BY <1>2, <1>5, <2>1, <3>1
  <2>2. ASSUME NEW i, IsSpineEntry(x, i) PROVE x = y
    <3>1. PICK j : IsSpineEntry(y, j)
      BY <1>1, <1>2, <1>3, <1>5, <2>2 DEF IsTidy
    <3>2. i = j
      BY <1>2, <1>5, <2>2, <3>1 DEF IsTidy
    <3> QED BY <2>2, <3>1, <3>2
  <2>3. ASSUME NEW i, IsLineEntry(x, i) PROVE x = y
    <3>1. PICK j : IsLineEntry(y, j)
      BY <1>1, <1>2, <1>3, <1>5, <2>3 DEF IsTidy
    <3>2. i = j
      BY <1>2, <1>5, <2>3, <3>1 DEF IsTidy
    <3> QED BY <2>3, <3>1, <3>2
  <2> QED BY <1>1, <2>1, <2>2, <2>3
<1>6. ASSUME NEW n \in BoardsIn(ch), ~LeftOut(n) PROVE \E x \in ChassisEntries(d) : x.node = n
  <2>1. CASE \E i \in DOMAIN ch.line : n = ch.line[i]
    <3>1. PICK i \in DOMAIN ch.line : n = ch.line[i]
      BY <2>1
    <3>2. IsLineEntry(Entry("line", d, i, n), i)
      BY <1>6, <3>1 DEF IsTidy, LeftOut
    <3> QED BY <1>1, <1>2, <3>1, <3>2
  <2>2. CASE \E i \in DOMAIN ch.spine : n = ch.spine[i]
    <3>1. PICK i \in DOMAIN ch.spine : n = ch.spine[i]
      BY <2>2
    <3>2. IsSpineEntry(Entry("spine", d, i, n), i)
      BY <1>6, <3>1 DEF IsTidy, LeftOut
    <3> QED BY <1>1, <1>2, <3>1, <3>2
  <2> QED BY <2>1, <2>2 DEF BoardsIn
<1>7. ASSUME NEW n \in ch.nodes \ Routers PROVE \E x \in ChassisEntries(d) : x.node = n
  <2>1. IsMember(Entry("member", d, 0, n)) /\ Entry("member", d, 0, n).node = n
    BY DEF Entry
  <2> QED BY <1>1, <2>1
<1> QED BY <1>4, <1>5, <1>6, <1>7 DEF LeftOut

LEMMA PassesAre ==
  ASSUME NEW g \in BOOLEAN, NEW x
  PROVE  x \in SwitchPass(g) \cup CaPass(g) \cup RouterPass(g) <=>
           \E n \in Present : ~(g /\ InNumbered(n)) /\ x = Entry("node", 0, 0, n)
BY ListingAssumption DEF SwitchPass, CaPass, RouterPass

Hides(g, n) == g /\ InNumbered(n) /\ LeftOut(n)

\* What is listed of a node: nothing, or one entry.
LEMMA EntriesOfNode ==
  ASSUME SlotsAsBuilt, VoltaireInside, PlacesAsBuilt, ModulesAreNoRouters, ListInv, pc = "done",
         NEW g \in BOOLEAN, Collected \/ ~g, NEW n \in Present
  PROVE  /\ Hides(g, n) => \A x \in Topology(g) : x.node # n
         /\ ~Hides(g, n) => /\ \E x \in Topology(g) : x.node = n
                            /\ \A x, y \in Topology(g) : x.node = n /\ y.node = n => x = y
<1> DEFINE Listed == {d \in 1..Len(chassis) : chassis[d].num # 0}
           InPass(x) == x \in SwitchPass(g) \cup CaPass(g) \cup RouterPass(g)
           c == chassisOf[n]
<1>1. \A x : x \in Topology(g) <=> (g /\ \E d \in Listed : x \in ChassisEntries(d)) \/ InPass(x)
  BY DEF Topology
<1>2. /\ BuildInv /\ HasPlace(chassis, chassisOf) /\ n \in Nodes
      /\ c \in Nat /\ c <= Len(chassis) /\ Len(chassis) \in Nat
  BY AheadIs, BuildParts DEF ListInv, PlacesKept, Typing
<1>3. \A x : x.node = n => (InPass(x) <=> ~(g /\ InNumbered(n)) /\ x = Entry("node", 0, 0, n))
  <2>1. \A m : Entry("node", 0, 0, m).node = m
    BY DEF Entry
  <2> QED BY <2>1, PassesAre
<1>4. ASSUME g, NEW d \in Listed
      PROVE  /\ \A x \in ChassisEntries(d) : chassisOf[x.node] = d /\ ~LeftOut(x.node)
             /\ \A x, y \in ChassisEntries(d) : x.node = y.node => x = y
             /\ \A m \in BoardsIn(chassis[d]) \cup chassis[d].nodes :
                  ~LeftOut(m) => \E x \in ChassisEntries(d) : x.node = m
  BY <1>4, ListedIsTidy, EntriesOfOne
<1> HIDE DEF InPass
<1>5. CASE g /\ InNumbered(n)
  <2>1. c \in Listed /\ n \in BoardsIn(chassis[c]) \cup chassis[c].nodes
    BY <1>2, <1>5 DEF InNumbered, HasPlace
  <2> HIDE DEF Listed, c
  <2>2. ASSUME NEW x \in Topology(g), x.node = n PROVE x \in ChassisEntries(c)
    <3>1. ~InPass(x)
      BY <1>3, <1>5, <2>2
    <3>2. PICK d \in Listed : x \in ChassisEntries(d)
      BY <1>1, <3>1
    <3>3. chassisOf[x.node] = d
      BY <1>4, <1>5, <3>2
    <3> QED BY <2>2, <3>2, <3>3 DEF c
  <2>5. /\ \A x \in ChassisEntries(c) : ~LeftOut(x.node)
        /\ \A x, y \in ChassisEntries(c) : x.node = y.node => x = y
        /\ ~LeftOut(n) => \E x \in ChassisEntries(c) : x.node = n
    BY <1>4, <1>5, <2>1
  <2>3. CASE LeftOut(n)
    <3>1. \A x \in Topology(g) : x.node # n
      BY <2>2, <2>3, <2>5
    <3> QED BY <1>5, <2>3, <3>1 DEF Hides
  <2>4. CASE ~LeftOut(n)
    <3>1. \E x \in ChassisEntries(c) : x.node = n
      BY <2>1, <2>4, <2>5
    <3>2. \E x \in Topology(g) : x.node = n
      BY <1>1, <1>5, <2>1, <3>1
    <3>3. ASSUME NEW x \in Topology(g), NEW y \in Topology(g), x.node = n, y.node = n PROVE x = y
      <4>1. x \in ChassisEntries(c) /\ y \in ChassisEntries(c)
        BY <2>2, <3>3
      <4> QED BY <2>5, <3>3, <4>1
    <3> QED BY <2>4, <3>2, <3>3 DEF Hides
  <2> QED BY <2>3, <2>4
<1>6. CASE ~(g /\ InNumbered(n))
  <2>1. Entry("node", 0, 0, n).node = n
    BY DEF Entry
  <2>2. Entry("node", 0, 0, n) \in Topology(g)
    BY <1>1, <1>3, <1>6, <2>1
  <2>3. \A x \in Topology(g) : x.node = n => x = Entry("node", 0, 0, n)
    <3> SUFFICES ASSUME NEW x \in Topology(g), x.node = n PROVE InPass(x)
      BY <1>3
    <3>1. ASSUME g, NEW d \in Listed, x \in ChassisEntries(d) PROVE FALSE
      <4>1. d = c
        BY <1>4, <3>1
      <4>2. d \in 1..Len(chassis) /\ chassis[d].num # 0
        OBVIOUS
      <4> QED BY <1>6, <3>1, <4>1, <4>2 DEF InNumbered
    <3> QED BY <1>1, <3>1
  <2> QED BY <1>6, <2>1, <2>2, <2>3 DEF Hides
<1> QED BY <1>5, <1>6

LEMMA ListedWhole ==
  ASSUME SlotsAsBuilt, VoltaireInside, PlacesAsBuilt, ModulesAreNoRouters, ListInv
  PROVE  ListedOnce
<1> SUFFICES ASSUME pc = "done", NEW g \in BOOLEAN, Collected \/ ~g
             PROVE  /\ \A n \in Present :
                         Cardinality({x \in Topology(g) : x.node = n}) = IF Hides(g, n) THEN 0 ELSE 1
                    /\ \A r \in PortsReport :
                         r[2] # NoPort /\ ~Hides(g, r[1][1]) =>
                           r \in UNION {SwitchPortLines(x.node) \cup CaPortLines(x.node) :
                                          x \in Topology(g)}
  BY DEF ListedOnce, Hides, LeftOut
<1>1. ASSUME NEW n \in Present
      PROVE  Cardinality({x \in Topology(g) : x.node = n}) = IF Hides(g, n) THEN 0 ELSE 1
  <2> DEFINE X == {x \in Topology(g) : x.node = n}
  <2>1. CASE Hides(g, n)
    <3>1. X = {}
      BY <2>1, EntriesOfNode
    <3> QED BY <2>1, <3>1, FS_EmptySet
  <2>2. CASE ~Hides(g, n)
    <3>1. PICK x \in Topology(g) : x.node = n
      BY <2>2, EntriesOfNode
    <3>2. X = {x}
      BY <2>2, <3>1, EntriesOfNode
    <3> QED BY <2>2, <3>2, FS_Singleton
  <2> QED BY <2>1, <2>2
<1>2. ASSUME NEW r \in PortsReport, r[2] # NoPort, ~Hides(g, r[1][1])
      PROVE  r \in UNION {SwitchPortLines(x.node) \cup CaPortLines(x.node) : x \in Topology(g)}
  <2>1. PICK e \in fabric.seen :
          e[1] \in Present /\ r = <<e, IF e \in fabric.links THEN Cable[e] ELSE NoPort>>
    BY <1>2 DEF PortsReport
  <2>2. e \in fabric.links /\ r = <<e, Cable[e]>> /\ r[1] = e
    BY <1>2, <2>1
  <2>3. PICK x \in Topology(g) : x.node = e[1]
    BY <1>2, <2>1, <2>2, EntriesOfNode
  <2>4. r \in SwitchPortLines(e[1]) \cup CaPortLines(e[1])
    BY <2>2 DEF SwitchPortLines, CaPortLines
  <2> QED BY <2>3, <2>4
<1> QED BY <1>1, <1>2

\* With or without -g ibnetdiscover prints every node of the fabric, and prints it once,
\* with all its cables, but for the routers and the boards in slot 0 of a chassis: no
\* board is in two chassis that have a number, nor in two slots of one, a node that was
\* put in a chassis is in it, and what is in no listed chassis is in a list by type.
THEOREM NodesAreListed ==
  ASSUME SlotsAsBuilt, VoltaireInside, PlacesAsBuilt, ModulesAreNoRouters
  PROVE  Spec => []ListedOnce
<1>1. Init => ListInv
  BY InitLists
<1>2. ListInv /\ [Next]_vars => ListInv'
  <2> SUFFICES ASSUME ListInv, [Next]_vars PROVE ListInv'
    OBVIOUS
  <2>1. BuildInv'
    BY BuildStep DEF ListInv
  <2> QED BY <2>1, ListStep DEF ListInv
<1>3. ListInv => ListedOnce
  BY ListedWhole
<1> QED BY <1>1, <1>2, <1>3, PTL DEF Spec
=============================================================================
