------------------------- MODULE FabricCacheProofs -------------------------
(***************************************************************************)
(* What a load of the cache returns, for any fabrics, any number of tools  *)
(* that store, load and edit under one name, and any failures: the fabric  *)
(* that was stored in the file it opened; and what a comparison with it    *)
(* tells of the two fabrics.                                               *)
(*                                                                         *)
(* The first part is about data: a fabric written as items and rebuilt     *)
(* from them is a copy of it (Copy), its ports renumbered by their place   *)
(* in the table.  The second is about files: what is in one is a           *)
(* beginning of the items of the fabric of the tool that created it, and   *)
(* its header counts them only when they are all there (Stored).  The last *)
(* part is about the comparisons: SameLinks and SameFabric are what two    *)
(* fabrics share when nothing is printed, and when nothing differs.        *)
(***************************************************************************)
EXTENDS FabricCache, FiniteSetTheorems, WellFoundedInduction, TLAPS

------------------------------------------------------------------------------
(* Finding the last of several. *)

\* A set of numbers has a least one.
LEMMA LeastNat ==
  ASSUME NEW T, T \subseteq Nat, T # {}
  PROVE \E m \in T : \A n \in T : m <= n
<1> DEFINE F == {0..n : n \in T}
<1>1. F \subseteq FiniteSubsetsOf(Nat) /\ F # {}
  <2>1. ASSUME NEW n \in T PROVE IsFiniteSet(0..n) /\ 0..n \subseteq Nat
    BY FS_Interval
  <2> QED BY <2>1 DEF FiniteSubsetsOf
<1>2. \E x \in F : \A y \in F : ~(<<y, x>> \in StrictSubsetOrdering(Nat))
  <2> HIDE DEF F
  <2> QED BY <1>1, FS_StrictSubsetOrderingWellFounded, WFMin
<1>3. PICK m \in T : \A n \in T : ~(<<0..n, 0..m>> \in StrictSubsetOrdering(Nat))
  BY <1>2
<1>4. ASSUME NEW n \in T PROVE m <= n
  <2>1. SUFFICES ASSUME n < m PROVE FALSE
    OBVIOUS
  <2>2. 0..n \subseteq 0..m /\ 0..n # 0..m /\ 0..n \in SUBSET Nat /\ 0..m \in SUBSET Nat
    <3>1. m \in 0..m /\ m \notin 0..n BY <2>1
    <3> QED BY <2>1, <3>1
  <2>3. <<0..n, 0..m>> \in StrictSubsetOrdering(Nat)
    BY <2>2 DEF StrictSubsetOrdering
  <2> QED BY <2>3, <1>3
<1> QED BY <1>4

LEMMA GreatestNat ==
  ASSUME NEW N \in Nat, NEW S, S \subseteq 1..N, S # {}
  PROVE  \E m \in S : \A n \in S : m >= n
<1> DEFINE T == {N - n : n \in S}
<1>1. T \subseteq Nat /\ T # {}
  <2>1. ASSUME NEW n \in S PROVE N - n \in Nat
    BY DEF T
  <2>2. QED
    BY <2>1
<1>2. PICK k \in T : \A l \in T : k <= l
  <2> HIDE DEF T
  <2> QED BY <1>1, LeastNat
<1>3. PICK m \in S : k = N - m
  OBVIOUS
<1>4. ASSUME NEW n \in S PROVE m >= n
  <2>1. N - m <= N - n
    BY <1>2, <1>3
  <2>2. m \in Int /\ n \in Int
    OBVIOUS
  <2> QED BY <2>1, <2>2
<1> QED BY <1>4

------------------------------------------------------------------------------
(* The items of a fabric. *)

NodeItems(f) == [n \in 1..Len(f.nodes) |-> NodeItem(f, n)]
PortItems(f) == [i \in 1..Len(f.table) |-> PortItem(f, f.table[i])]

LEMMA WholeTypes ==
  ASSUME NEW f, Whole(f)
  PROVE  /\ Len(f.nodes) \in Nat /\ DOMAIN f.nodes = 1..Len(f.nodes)
         /\ Len(f.table) \in Nat /\ DOMAIN f.table = 1..Len(f.table)
         /\ DOMAIN f.ports = 1..Len(f.ports) /\ Len(f.ports) \in Nat
         /\ f.from \in Nat /\ f.hops \in Nat
         /\ \A n \in 1..Len(f.nodes) : IsNode(f.nodes[n])
         /\ \A p \in 1..Len(f.ports) : f.ports[p] \in PortObjects
         /\ \A i \in 1..Len(f.table) : f.table[i] \in Nat /\ f.table[i] \in Entered(f)
         /\ \A p \in Entered(f) : p \in Nat /\ p \in 1..Len(f.ports) /\ p # 0
<1>1. IsFabric(f)
  BY DEF Whole
<1>2. /\ f.nodes \in Seq({f.nodes[n] : n \in DOMAIN f.nodes}) /\ f.ports \in Seq(PortObjects)
      /\ f.table \in Seq(Nat) /\ f.from \in Nat /\ f.hops \in Nat
      /\ \A n \in DOMAIN f.nodes : IsNode(f.nodes[n])
  BY <1>1 DEF IsFabric
<1>3. /\ Len(f.nodes) \in Nat /\ DOMAIN f.nodes = 1..Len(f.nodes)
      /\ Len(f.ports) \in Nat /\ DOMAIN f.ports = 1..Len(f.ports)
      /\ Len(f.table) \in Nat /\ DOMAIN f.table = 1..Len(f.table)
  BY <1>2
<1>4. \A p \in 1..Len(f.ports) : f.ports[p] \in PortObjects
  BY <1>2, <1>3
<1>5. \A i \in 1..Len(f.table) : f.table[i] \in Nat /\ f.table[i] \in Entered(f)
  BY <1>2, <1>3 DEF Entered
<1>6. ASSUME NEW p \in Entered(f) PROVE p \in Nat /\ p \in 1..Len(f.ports) /\ p # 0
  <2>1. p \in DOMAIN f.ports
    BY DEF Whole
  <2>2. QED
    BY <1>3, <2>1
<1>7. \A n \in 1..Len(f.nodes) : IsNode(f.nodes[n])
  BY <1>2, <1>3
<1> HIDE <1>1
<1>8. QED
  BY <1>2, <1>3, <1>4, <1>5, <1>6, <1>7

LEMMA NodeTypes ==
  ASSUME NEW node, IsNode(node)
  PROVE  /\ node.guid \in Nat /\ node.type \in Types /\ node.lid \in Nat
         /\ node.desc \in Nat /\ node.sys \in Nat
         /\ Numports(node) \in 0..255
         /\ DOMAIN node.slots = 0..Numports(node)
         /\ \A k \in DOMAIN node.slots : node.slots[k] \in Nat
         /\ node \in [guid : Nat, type : Types, lid : Nat, desc : Nat, sys : Nat,
                      slots : {node.slots}]
<1>1. PICK m \in 0..255 : DOMAIN node.slots = 0..m
  BY DEF IsNode
<1>2. Cardinality(0..m) = m + 1
  BY FS_Interval
<1>3. Numports(node) = m
  BY <1>1, <1>2 DEF Numports
<1>4. QED
  BY <1>1, <1>3 DEF IsNode

\* The file holds the items of the nodes, then those of the ports.
LEMMA ItemsAre ==
  ASSUME NEW f, Whole(f)
  PROVE  LET N == Len(f.nodes)
             M == Len(f.table)
         IN  /\ Len(Items(f)) = N + M
             /\ \E S : Items(f) \in Seq(S)
             /\ SubSeq(Items(f), 1, N) = NodeItems(f)
             /\ SubSeq(Items(f), N + 1, N + M) = PortItems(f)
             /\ Len(NodeItems(f)) = N /\ Len(PortItems(f)) = M
<1> DEFINE N == Len(f.nodes)
           M == Len(f.table)
           a == NodeItems(f)
           b == PortItems(f)
           S == {a[n] : n \in 1..N} \cup {b[i] : i \in 1..M}
<1>1. N \in Nat /\ M \in Nat
  BY WholeTypes
<1>2. Items(f) = a \o b
  BY DEF Items, NodeItems, PortItems
<1>3. DOMAIN a = 1..N /\ DOMAIN b = 1..M
  BY DEF NodeItems, PortItems
<1>4. a = [n \in 1..N |-> a[n]] /\ b = [i \in 1..M |-> b[i]]
  BY DEF NodeItems, PortItems
<1> HIDE DEF a, b, N, M
<1>5. a \in Seq(S) /\ b \in Seq(S) /\ Len(a) = N /\ Len(b) = M
  <2>1. a \in [1..N -> S] /\ b \in [1..M -> S]
    BY <1>4
  <2> HIDE DEF S
  <2>2. QED
    BY <1>1, <1>3, <2>1
<1> HIDE DEF S
<1>6. a \o b \in Seq(S) /\ Len(a \o b) = N + M
  BY <1>1, <1>5
<1>7. /\ \A n \in 1..N : (a \o b)[n] = a[n]
      /\ \A i \in 1..M : (a \o b)[N + i] = b[i]
  BY <1>1, <1>5
<1>8. SubSeq(a \o b, 1, N) = a
  <2>1. SubSeq(a \o b, 1, N) = [n \in 1..N |-> (a \o b)[n]]
    BY <1>1, <1>6
  <2>2. QED
    BY <1>4, <1>7, <2>1
<1>9. SubSeq(a \o b, N + 1, N + M) = b
  <2>1. SubSeq(a \o b, N + 1, N + M) = [i \in 1..M |-> (a \o b)[N + i]]
    BY <1>1, <1>6
  <2>2. QED
    BY <1>4, <1>7, <2>1
<1>10. QED
  BY <1>2, <1>5, <1>6, <1>8, <1>9 DEF a, b, N, M
------------------------------------------------------------------------------
(* What is found in them. *)

KeyOf(item) == <<item.guid, item.num>>

LEMMA ItemFields ==
  ASSUME NEW f, Whole(f)
  PROVE  /\ \A n \in 1..Len(f.nodes) :
              /\ NodeItems(f)[n] = NodeItem(f, n)
              /\ NodeItem(f, n).guid = f.nodes[n].guid
         /\ \A i \in 1..Len(f.table) :
              /\ PortItems(f)[i] = PortItem(f, f.table[i])
              /\ KeyOf(PortItem(f, f.table[i])) = Key(f, f.table[i])
BY DEF NodeItems, PortItems, NodeItem, PortItem, KeyOf, Key

\* The place of a port in the table.
Place(f, q) == FindPort(PortItems(f), Key(f, q))

LEMMA PlaceIs ==
  ASSUME NEW f, Whole(f), NEW q \in Entered(f)
  PROVE  /\ Place(f, q) \in 1..Len(f.table)
         /\ f.table[Place(f, q)] = q
         /\ Place(f, q) # 0
<1> DEFINE ps == PortItems(f)
           M == Len(f.table)
           found == {p \in 1..Len(ps) : <<ps[p].guid, ps[p].num>> = Key(f, q)}
<1>1. Len(ps) = M /\ M \in Nat /\ DOMAIN f.table = 1..M
  BY ItemsAre, WholeTypes
<1>2. \A i \in 1..M : <<ps[i].guid, ps[i].num>> = Key(f, f.table[i])
  BY ItemFields DEF KeyOf
<1>3. PICK i \in 1..M : f.table[i] = q
  BY <1>1 DEF Entered
<1> HIDE DEF ps, M
<1>4. found \subseteq 1..M /\ i \in found
  BY <1>1, <1>2, <1>3
<1>5. PICK m \in found : \A n \in found : m >= n
  <2> HIDE DEF found
  <2>1. QED
    BY <1>1, <1>4, GreatestNat
<1>6. Place(f, q) = CHOOSE p \in found : \A n \in found : p >= n
  BY <1>4 DEF Place, FindPort, ps
<1>7. Place(f, q) \in found
  <2> HIDE DEF found
  <2>1. QED
    BY <1>5, <1>6
<1>8. Place(f, q) \in 1..M /\ Key(f, f.table[Place(f, q)]) = Key(f, q)
  BY <1>1, <1>2, <1>7
<1>9. f.table[Place(f, q)] \in Entered(f)
  BY <1>1, <1>8 DEF Entered
<1>10. f.table[Place(f, q)] = q
  BY <1>8, <1>9 DEF Whole
<1>11. QED
  BY <1>1, <1>8, <1>10 DEF M

\* The place of a port at its place is that place.
LEMMA PlaceOfTable ==
  ASSUME NEW f, Whole(f), NEW i \in 1..Len(f.table)
  PROVE  Place(f, f.table[i]) = i
<1>1. DOMAIN f.table = 1..Len(f.table) /\ f.table[i] \in Entered(f)
  BY WholeTypes
<1>2. /\ Place(f, f.table[i]) \in DOMAIN f.table
      /\ f.table[Place(f, f.table[i])] = f.table[i]
  BY <1>1, PlaceIs
<1>3. QED
  BY <1>1, <1>2 DEF Whole

LEMMA FoundNode ==
  ASSUME NEW f, Whole(f), NEW n \in 1..Len(f.nodes)
  PROVE  FindNode(NodeItems(f), f.nodes[n].guid) = n
<1> DEFINE ns == NodeItems(f)
           N == Len(f.nodes)
           found == {m \in 1..Len(ns) : ns[m].guid = f.nodes[n].guid}
<1>1. Len(ns) = N /\ N \in Nat /\ DOMAIN f.nodes = 1..N
  BY ItemsAre, WholeTypes
<1>2. \A m \in 1..N : ns[m].guid = f.nodes[m].guid
  BY ItemFields
<1>3. \A m, k \in 1..N : f.nodes[m].guid = f.nodes[k].guid => m = k
  BY <1>1 DEF Whole
<1>4. n \in 1..N
  OBVIOUS
<1> HIDE DEF ns, N
<1>5. found = {n}
  BY <1>1, <1>2, <1>3, <1>4
<1>6. FindNode(ns, f.nodes[n].guid) = CHOOSE m \in found : \A k \in found : m >= k
  BY <1>5 DEF FindNode
<1>7. n \in Nat
  BY <1>1, <1>4
<1>8. QED
  <2> HIDE DEF found
  <2>1. QED
    BY <1>5, <1>6, <1>7 DEF ns

\* The ports of a node.
PortsOf(f, n) == {f.nodes[n].slots[k] : k \in DOMAIN f.nodes[n].slots} \ {0}

LEMMA PortsOfNode ==
  ASSUME NEW f, Whole(f), NEW n \in 1..Len(f.nodes)
  PROVE  /\ NodeItems(f)[n].keys = {Key(f, p) : p \in PortsOf(f, n)}
         /\ \A p \in PortsOf(f, n) :
              /\ p \in Entered(f) /\ f.ports[p].node = n
              /\ f.ports[p].num \in DOMAIN f.nodes[n].slots
              /\ f.nodes[n].slots[f.ports[p].num] = p
<1>1. NodeItems(f)[n].keys = {Key(f, p) : p \in PortsOf(f, n)}
  <2>1. NodeItems(f)[n] = NodeItem(f, n)
    BY ItemFields
  <2>2. NodeItem(f, n).keys = {Key(f, p) : p \in PortsOf(f, n)}
    BY DEF NodeItem, PortsOf
  <2>3. QED
    BY <2>1, <2>2
<1>2. n \in DOMAIN f.nodes
  BY WholeTypes
<1>3. QED
  BY <1>1, <1>2 DEF Whole, PortsOf

LEMMA EnteredIsOfNode ==
  ASSUME NEW f, Whole(f), NEW p \in Entered(f)
  PROVE  f.ports[p].node \in 1..Len(f.nodes) /\ p \in PortsOf(f, f.ports[p].node)
<1>1. /\ f.ports[p].node \in DOMAIN f.nodes
      /\ f.ports[p].num \in DOMAIN f.nodes[f.ports[p].node].slots
      /\ f.nodes[f.ports[p].node].slots[f.ports[p].num] = p
  BY DEF Whole
<1>2. p # 0 /\ DOMAIN f.nodes = 1..Len(f.nodes)
  BY WholeTypes
<1>3. QED
  BY <1>1, <1>2 DEF PortsOf

\* The checks of a load succeed.
LEMMA ItemsAreValid ==
  ASSUME NEW f, Whole(f), f.from # 0
  PROVE  Valid(NodeItems(f), PortItems(f), f.nodes[f.from].guid)
<1> DEFINE ns == NodeItems(f)
           ps == PortItems(f)
           N == Len(f.nodes)
           M == Len(f.table)
<1>1. /\ Len(ns) = N /\ Len(ps) = M /\ N \in Nat /\ M \in Nat
      /\ DOMAIN f.nodes = 1..N /\ DOMAIN f.table = 1..M
  BY ItemsAre, WholeTypes
<1>2. FindNode(ns, f.nodes[f.from].guid) # 0
  <2>1. f.from \in 1..N /\ f.from <= N
    BY WholeTypes DEF Whole
  <2>2. QED
    BY <2>1, FoundNode
<1>3. ASSUME NEW n \in 1..N, NEW key \in ns[n].keys
      PROVE  /\ FindPort(ps, key) # 0
             /\ \A m \in 1..N : key \in ns[m].keys => m = n
  <2>1. PICK p \in PortsOf(f, n) : key = Key(f, p)
    BY <1>3, PortsOfNode
  <2>2. p \in Entered(f) /\ f.ports[p].node = n
    BY <2>1, PortsOfNode
  <2>3. FindPort(ps, key) # 0
    BY <2>1, <2>2, PlaceIs DEF Place
  <2>4. ASSUME NEW m \in 1..N, key \in ns[m].keys PROVE m = n
    <3>1. PICK q \in PortsOf(f, m) : key = Key(f, q)
      BY <2>4, PortsOfNode
    <3>2. q \in Entered(f) /\ f.ports[q].node = m
      BY <3>1, PortsOfNode
    <3>3. p = q
      BY <2>1, <2>2, <3>1, <3>2 DEF Whole
    <3>4. QED
      BY <2>2, <3>2, <3>3
  <2>5. QED
    BY <2>3, <2>4
<1>4. ASSUME NEW i \in 1..M
      PROVE  /\ FindNode(ns, ps[i].node) # 0
             /\ ps[i].remote # <<>> => FindPort(ps, ps[i].remote) # 0
  <2> DEFINE p == f.table[i]
  <2>1. p \in Entered(f)
    BY WholeTypes
  <2>2. /\ ps[i].node = f.nodes[f.ports[p].node].guid
        /\ ps[i].remote = IF f.ports[p].remote = 0 THEN <<>> ELSE Key(f, f.ports[p].remote)
    <3>1. ps[i] = PortItem(f, p)
      BY ItemFields
    <3>2. /\ PortItem(f, p).node = f.nodes[f.ports[p].node].guid
          /\ PortItem(f, p).remote = IF f.ports[p].remote = 0 THEN <<>> ELSE Key(f, f.ports[p].remote)
      BY DEF PortItem
    <3>3. QED
      BY <3>1, <3>2
  <2>3. f.ports[p].node \in 1..N /\ f.ports[p].remote \in Entered(f) \cup {0}
    BY <1>1, <2>1 DEF Whole
  <2>4. FindNode(ns, ps[i].node) = f.ports[p].node /\ f.ports[p].node # 0
    BY <2>2, <2>3, FoundNode
  <2>5. ps[i].remote # <<>> => FindPort(ps, ps[i].remote) # 0
    BY <2>2, <2>3, PlaceIs DEF Place
  <2>6. QED
    BY <2>4, <2>5
<1>5. QED
  BY <1>1, <1>2, <1>3, <1>4 DEF Valid

------------------------------------------------------------------------------
(* What is rebuilt from them. *)

Moved(f, p) == IF p = 0 THEN 0 ELSE Place(f, p)

CopyNode(f, n) ==
  [guid |-> f.nodes[n].guid, type |-> f.nodes[n].type, lid |-> f.nodes[n].lid,
   desc |-> f.nodes[n].desc, sys |-> f.nodes[n].sys,
   slots |-> [k \in DOMAIN f.nodes[n].slots |-> Moved(f, f.nodes[n].slots[k])]]

CopyPort(f, i) ==
  LET port == f.ports[f.table[i]]
  IN  [guid |-> port.guid, num |-> port.num, lid |-> port.lid, state |-> port.state,
       ext |-> 0, node |-> port.node, remote |-> Moved(f, port.remote)]

\* The same fabric, with the ports in the order of the table.
Copy(f) ==
  [nodes |-> [n \in 1..Len(f.nodes) |-> CopyNode(f, n)],
   ports |-> [i \in 1..Len(f.table) |-> CopyPort(f, i)],
   table |-> [i \in 1..Len(f.table) |-> i],
   from |-> f.from,
   hops |-> f.hops]

LEMMA SlotIsMoved ==
  ASSUME NEW f, Whole(f), NEW n \in 1..Len(f.nodes), NEW k \in DOMAIN f.nodes[n].slots
  PROVE  LET at == {key \in NodeItems(f)[n].keys : key[2] = k}
         IN  (IF at = {} THEN 0 ELSE FindPort(PortItems(f), CHOOSE key \in at : TRUE))
               = Moved(f, f.nodes[n].slots[k])
<1> DEFINE keys == NodeItems(f)[n].keys
           at == {key \in keys : key[2] = k}
           p == f.nodes[n].slots[k]
<1>1. keys = {Key(f, q) : q \in PortsOf(f, n)}
  BY PortsOfNode
<1>2. \A q : Key(f, q)[2] = f.ports[q].num
  BY DEF Key
<1>3. \A q \in PortsOf(f, n) : f.nodes[n].slots[f.ports[q].num] = q
  BY PortsOfNode
<1>4. n \in DOMAIN f.nodes
  BY WholeTypes
<1>5. p # 0 => p \in PortsOf(f, n) /\ f.ports[p].num = k
  BY <1>4 DEF Whole, PortsOf
<1> HIDE DEF keys
<1>6. CASE p = 0
  <2>1. \A key \in keys : key[2] # k
    <3> SUFFICES ASSUME NEW q \in PortsOf(f, n), Key(f, q)[2] = k PROVE FALSE
      BY <1>1
    <3>1. q = 0
      BY <1>2, <1>3, <1>6
    <3>2. QED
      BY <3>1 DEF PortsOf
  <2>2. at = {}
    BY <2>1
  <2>3. QED
    BY <1>6, <2>2 DEF Moved, keys
<1>7. CASE p # 0
  <2>1. at = {Key(f, p)}
    <3>1. Key(f, p) \in at
      BY <1>1, <1>2, <1>5, <1>7
    <3>2. ASSUME NEW q \in PortsOf(f, n), Key(f, q)[2] = k PROVE q = p
      BY <1>2, <1>3, <3>2
    <3>3. QED
      BY <1>1, <3>1, <3>2
  <2>2. (CHOOSE key \in at : TRUE) = Key(f, p)
    <3> HIDE DEF at
    <3>1. QED
      BY <2>1
  <2>3. QED
    BY <1>7, <2>1, <2>2 DEF Moved, Place, keys
<1>8. QED
  BY <1>6, <1>7

LEMMA NodesAreCopied ==
  ASSUME NEW f, Whole(f)
  PROVE  Rebuild(NodeItems(f), PortItems(f), Header(f)).nodes = Copy(f).nodes
<1> DEFINE ns == NodeItems(f)
           ps == PortItems(f)
           Slots(n) == [k \in 0..ns[n].numports |->
                          LET at == {key \in ns[n].keys : key[2] = k}
                          IN  IF at = {} THEN 0 ELSE FindPort(ps, CHOOSE key \in at : TRUE)]
           R(n) == [guid |-> ns[n].guid, type |-> ns[n].type, lid |-> ns[n].lid,
                    desc |-> ns[n].desc, sys |-> ns[n].sys, slots |-> Slots(n)]
<1>1. Rebuild(ns, ps, Header(f)).nodes = [n \in 1..Len(ns) |-> R(n)]
  BY DEF Rebuild
<1>2. ASSUME NEW n \in 1..Len(f.nodes) PROVE R(n) = CopyNode(f, n)
  <2>1. ns[n] = NodeItem(f, n)
    BY ItemFields
  <2>2. /\ ns[n].guid = f.nodes[n].guid /\ ns[n].type = f.nodes[n].type
        /\ ns[n].lid = f.nodes[n].lid /\ ns[n].desc = f.nodes[n].desc
        /\ ns[n].sys = f.nodes[n].sys /\ ns[n].numports = Numports(f.nodes[n])
    BY <2>1 DEF NodeItem
  <2>3. DOMAIN f.nodes[n].slots = 0..Numports(f.nodes[n])
    BY WholeTypes, NodeTypes
  <2>4. \A k \in DOMAIN f.nodes[n].slots :
          (LET at == {key \in ns[n].keys : key[2] = k}
           IN  IF at = {} THEN 0 ELSE FindPort(ps, CHOOSE key \in at : TRUE))
            = Moved(f, f.nodes[n].slots[k])
    BY SlotIsMoved
  <2>5. Slots(n) = [k \in DOMAIN f.nodes[n].slots |-> Moved(f, f.nodes[n].slots[k])]
    <3> HIDE DEF ns, ps
    <3>1. QED
      BY <2>2, <2>3, <2>4
  <2> HIDE DEF ns, ps, Slots
  <2>6. QED
    BY <2>2, <2>5 DEF CopyNode
<1>3. Len(ns) = Len(f.nodes)
  BY ItemsAre
<1> HIDE DEF R, ns, ps
<1>4. [n \in 1..Len(ns) |-> R(n)] = [n \in 1..Len(f.nodes) |-> CopyNode(f, n)]
  BY <1>2, <1>3
<1>5. QED
  BY <1>1, <1>4 DEF Copy, ns, ps

LEMMA PortsAreCopied ==
  ASSUME NEW f, Whole(f)
  PROVE  Rebuild(NodeItems(f), PortItems(f), Header(f)).ports = Copy(f).ports
<1> DEFINE ns == NodeItems(f)
           ps == PortItems(f)
           R(i) == [guid |-> ps[i].guid, num |-> ps[i].num, lid |-> ps[i].lid,
                    state |-> ps[i].state, ext |-> 0, node |-> FindNode(ns, ps[i].node),
                    remote |-> IF ps[i].remote = <<>> THEN 0 ELSE FindPort(ps, ps[i].remote)]
<1>1. Rebuild(ns, ps, Header(f)).ports = [i \in 1..Len(ps) |-> R(i)]
  BY DEF Rebuild
<1>2. ASSUME NEW i \in 1..Len(f.table) PROVE R(i) = CopyPort(f, i)
  <2> DEFINE p == f.table[i]
             far == f.ports[p].remote
  <2>1. ps[i] = PortItem(f, p)
    BY ItemFields
  <2>2. /\ ps[i].guid = f.ports[p].guid /\ ps[i].num = f.ports[p].num
        /\ ps[i].lid = f.ports[p].lid /\ ps[i].state = f.ports[p].state
        /\ ps[i].node = f.nodes[f.ports[p].node].guid
        /\ ps[i].remote = IF far = 0 THEN <<>> ELSE Key(f, far)
    BY <2>1 DEF PortItem
  <2>3. p \in Entered(f)
    BY WholeTypes
  <2>4. f.ports[p].node \in 1..Len(f.nodes)
    BY <2>3, EnteredIsOfNode
  <2>5. FindNode(ns, ps[i].node) = f.ports[p].node
    BY <2>2, <2>4, FoundNode
  <2>6. Key(f, far) # <<>>
    BY DEF Key
  <2>7. (IF ps[i].remote = <<>> THEN 0 ELSE FindPort(ps, ps[i].remote)) = Moved(f, far)
    BY <2>2, <2>6 DEF Moved, Place
  <2> HIDE DEF ns, ps
  <2>8. QED
    BY <2>2, <2>5, <2>7 DEF CopyPort
<1>3. Len(ps) = Len(f.table)
  BY ItemsAre
<1> HIDE DEF R, ns, ps
<1>4. [i \in 1..Len(ps) |-> R(i)] = [i \in 1..Len(f.table) |-> CopyPort(f, i)]
  BY <1>2, <1>3
<1>5. QED
  BY <1>1, <1>4 DEF Copy, ns, ps

\* All ports of the table are filled in, one after the other.
FirstNats(n) == [i \in 1..n |-> i]

IsFilling(g, ns, ps) ==
  g = [p \in 0..Len(ps) |->
         IF p = 0 THEN <<>>
         ELSE IF \E n \in 1..Len(ns) : <<ps[p].guid, ps[p].num>> \in ns[n].keys
         THEN Append(g[p - 1], p) ELSE g[p - 1]]

LEMMA AppendNext ==
  ASSUME NEW n \in Nat, n # 0
  PROVE  Append(FirstNats(n - 1), n) = FirstNats(n)
<1> DEFINE a == FirstNats(n - 1)
<1>1. a \in [1..(n - 1) -> Nat] /\ n - 1 \in Nat
  BY DEF FirstNats
<1>2. \A i \in 1..(n - 1) : a[i] = i
  BY DEF FirstNats
<1> HIDE DEF a
<1>3. a \in Seq(Nat) /\ Len(a) = n - 1
  BY <1>1
<1>4. Append(a, n) \in Seq(Nat) /\ Len(Append(a, n)) = n
  BY <1>3
<1>5. \A i \in 1..n : Append(a, n)[i] = i
  BY <1>2, <1>3
<1>6. Append(a, n) = [i \in 1..n |-> Append(a, n)[i]]
  <2> DEFINE c == Append(a, n)
  <2>1. c \in Seq(Nat) /\ Len(c) = n
    BY <1>4
  <2> HIDE DEF c
  <2>2. c \in [1..n -> Nat]
    BY <2>1
  <2>3. c = [i \in 1..n |-> c[i]]
    BY <2>2
  <2>4. QED
    BY <2>3 DEF c
<1>7. QED
  BY <1>5, <1>6 DEF FirstNats, a

LEMMA AllAreFilledIn ==
  ASSUME NEW f, Whole(f)
  PROVE  FilledIn(NodeItems(f), PortItems(f)) = FirstNats(Len(f.table))
<1> DEFINE ns == NodeItems(f)
           ps == PortItems(f)
           M == Len(f.table)
           Has(p) == \E n \in 1..Len(ns) : <<ps[p].guid, ps[p].num>> \in ns[n].keys
           w == [p \in 0..M |-> FirstNats(p)]
           F == CHOOSE g : IsFilling(g, ns, ps)
<1>1. Len(ps) = M /\ M \in Nat /\ Len(ns) = Len(f.nodes)
  BY ItemsAre, WholeTypes
<1>2. ASSUME NEW p \in 1..M PROVE Has(p)
  <2> DEFINE q == f.table[p]
             n == f.ports[q].node
  <2>1. q \in Entered(f)
    BY WholeTypes
  <2>2. n \in 1..Len(ns) /\ q \in PortsOf(f, n)
    BY <1>1, <2>1, EnteredIsOfNode
  <2>3. <<ps[p].guid, ps[p].num>> = Key(f, q)
    BY ItemFields DEF KeyOf
  <2>4. Key(f, q) \in ns[n].keys
    BY <1>1, <2>2, PortsOfNode
  <2>5. QED
    BY <2>2, <2>3, <2>4
<1> HIDE DEF ns, ps, M
<1>3. IsFilling(w, ns, ps)
  <2>1. ASSUME NEW p \in 0..M
        PROVE  FirstNats(p) = IF p = 0 THEN <<>>
                              ELSE IF Has(p) THEN Append(w[p - 1], p) ELSE w[p - 1]
    <3>1. CASE p = 0
      <4>1. FirstNats(0) = <<>>
        <5>1. 1..0 = {}
          OBVIOUS
        <5>2. QED
          BY <5>1 DEF FirstNats
      <4>2. QED
        BY <3>1, <4>1
    <3>2. CASE p # 0
      <4>1. p \in 1..M /\ p \in Nat /\ p - 1 \in 0..M
        BY <1>1, <3>2
      <4>2. w[p - 1] = FirstNats(p - 1)
        BY <4>1
      <4>3. Append(w[p - 1], p) = FirstNats(p)
        BY <3>2, <4>1, <4>2, AppendNext
      <4> HIDE DEF w, Has
      <4>4. QED
        BY <1>2, <3>2, <4>1, <4>3
    <3>3. QED
      BY <3>1, <3>2
  <2> DEFINE v == [p \in 0..M |-> IF p = 0 THEN <<>>
                                 ELSE IF Has(p) THEN Append(w[p - 1], p) ELSE w[p - 1]]
  <2>2. w = v
    <3> HIDE DEF Has
    <3>1. QED
      BY <2>1
  <2>3. QED
    BY <1>1, <2>2 DEF IsFilling
<1>4. IsFilling(F, ns, ps)
  BY <1>3
<1>5. FilledIn(ns, ps) = F[M]
  BY <1>1 DEF FilledIn, IsFilling
<1> HIDE DEF F, w
<1>6. ASSUME NEW p \in 0..M
      PROVE  F[p] = IF p = 0 THEN <<>> ELSE IF Has(p) THEN Append(F[p - 1], p) ELSE F[p - 1]
  BY <1>1, <1>4 DEF IsFilling
<1> HIDE DEF Has
<1> DEFINE T == {p \in 0..M : F[p] # FirstNats(p)}
<1>7. T = {}
  <2> SUFFICES ASSUME T # {} PROVE FALSE
    OBVIOUS
  <2>1. T \subseteq Nat
    BY <1>1
  <2>2. PICK p \in T : \A q \in T : p <= q
    <3> HIDE DEF T
    <3>1. QED
      BY <2>1, LeastNat
  <2>3. p \in 0..M /\ F[p] # FirstNats(p) /\ p \in Nat
    BY <1>1, <2>2
  <2>4. CASE p = 0
    <3>1. FirstNats(0) = <<>>
      <4>1. 1..0 = {}
        OBVIOUS
      <4>2. QED
        BY <4>1 DEF FirstNats
    <3>2. QED
      BY <1>6, <2>3, <2>4, <3>1
  <2>5. CASE p # 0
    <3>1. p \in 1..M /\ p - 1 \in 0..M /\ ~(p <= p - 1)
      BY <1>1, <2>3, <2>5
    <3>2. p - 1 \notin T
      <4> HIDE DEF T
      <4>1. QED
        BY <2>2, <3>1
    <3>3. F[p - 1] = FirstNats(p - 1)
      BY <3>1, <3>2
    <3>4. F[p] = Append(F[p - 1], p)
      BY <1>2, <1>6, <2>3, <2>5, <3>1
    <3>5. QED
      BY <2>3, <2>5, <3>3, <3>4, AppendNext
  <2>6. QED
    BY <2>4, <2>5
<1>8. QED
  <2>1. M \in 0..M
    BY <1>1
  <2>2. QED
    BY <1>5, <1>7, <2>1 DEF M, ns, ps

\* What is rebuilt from the items of a fabric is a copy of it.
LEMMA RebuiltIsCopy ==
  ASSUME NEW f, Whole(f), f.from # 0
  PROVE  Rebuild(NodeItems(f), PortItems(f), Header(f)) = Copy(f)
<1> DEFINE r == Rebuild(NodeItems(f), PortItems(f), Header(f))
<1>1. r.nodes = Copy(f).nodes /\ r.ports = Copy(f).ports
  BY NodesAreCopied, PortsAreCopied
<1>2. r.table = Copy(f).table
  <2>1. r.table = FilledIn(NodeItems(f), PortItems(f))
    BY DEF Rebuild
  <2>2. QED
    BY <2>1, AllAreFilledIn DEF Copy, FirstNats
<1>3. r.from = Copy(f).from
  <2>1. r.from = FindNode(NodeItems(f), f.nodes[f.from].guid)
    BY DEF Rebuild, Header
  <2>2. f.from \in 1..Len(f.nodes)
    BY WholeTypes DEF Whole
  <2>3. QED
    BY <2>1, <2>2, FoundNode DEF Copy
<1>4. r.hops = Copy(f).hops
  BY DEF Rebuild, Header, Copy
<1>5. /\ r = [nodes |-> r.nodes, ports |-> r.ports, table |-> r.table, from |-> r.from,
              hops |-> r.hops]
      /\ Copy(f) = [nodes |-> Copy(f).nodes, ports |-> Copy(f).ports, table |-> Copy(f).table,
                    from |-> Copy(f).from, hops |-> Copy(f).hops]
  BY DEF Rebuild, Copy
<1> HIDE DEF r
<1>6. QED
  BY <1>1, <1>2, <1>3, <1>4, <1>5 DEF r

------------------------------------------------------------------------------
(* A copy looks the same, and can be stored again. *)

LEMMA KeptIs ==
  ASSUME NEW f, Whole(f)
  PROVE  /\ Kept(f).nodes = f.nodes /\ Kept(f).from = f.from /\ Kept(f).hops = f.hops
         /\ \A p \in 1..Len(f.ports) :
              LET port == Kept(f).ports[p]
              IN  /\ port.guid = f.ports[p].guid /\ port.num = f.ports[p].num
                  /\ port.lid = f.ports[p].lid /\ port.state = f.ports[p].state
                  /\ port.ext = 0 /\ port.node = f.ports[p].node
                  /\ port.remote = f.ports[p].remote
<1>1. f \in [nodes : {f.nodes}, ports : {f.ports}, table : {f.table}, from : {f.from}, hops : {f.hops}]
  BY DEF Whole, IsFabric
<1>2. /\ Kept(f).nodes = f.nodes /\ Kept(f).from = f.from /\ Kept(f).hops = f.hops
      /\ Kept(f).ports = [p \in DOMAIN f.ports |-> [f.ports[p] EXCEPT !.ext = 0]]
  BY <1>1 DEF Kept
<1>3. ASSUME NEW p \in 1..Len(f.ports)
      PROVE  Kept(f).ports[p] = [f.ports[p] EXCEPT !.ext = 0] /\ f.ports[p] \in PortObjects
  BY <1>2, WholeTypes
<1>4. QED
  BY <1>2, <1>3 DEF PortObjects

LEMMA CopiedPort ==
  ASSUME NEW f, Whole(f), NEW q \in Entered(f)
  PROVE  LET port == Copy(f).ports[Place(f, q)]
         IN  /\ port.guid = f.ports[q].guid /\ port.num = f.ports[q].num
             /\ port.lid = f.ports[q].lid /\ port.state = f.ports[q].state
             /\ port.ext = 0 /\ port.node = f.ports[q].node
             /\ port.remote = Moved(f, f.ports[q].remote)
             /\ Copy(f).nodes[port.node].guid = f.nodes[f.ports[q].node].guid
<1>1. Place(f, q) \in 1..Len(f.table) /\ f.table[Place(f, q)] = q
  BY PlaceIs
<1>2. Copy(f).ports[Place(f, q)] = CopyPort(f, Place(f, q))
  BY <1>1 DEF Copy
<1>3. f.ports[q].node \in 1..Len(f.nodes)
  BY EnteredIsOfNode
<1>4. Copy(f).nodes[f.ports[q].node] = CopyNode(f, f.ports[q].node)
  BY <1>3 DEF Copy
<1>5. CopyNode(f, f.ports[q].node).guid = f.nodes[f.ports[q].node].guid
  BY DEF CopyNode
<1>6. QED
  BY <1>1, <1>2, <1>4, <1>5 DEF CopyPort

LEMMA SamePortView ==
  ASSUME NEW f, Whole(f), NEW q \in Entered(f) \cup {0}
  PROVE  PortView(Copy(f), Moved(f, q)) = PortView(Kept(f), q)
<1> DEFINE c == Copy(f)
           g == Kept(f)
           i == Place(f, q)
           far == f.ports[q].remote
<1>1. CASE q = 0
  BY <1>1 DEF Moved, PortView
<1>2. CASE q # 0
  <2>1. q \in Entered(f) /\ q \in 1..Len(f.ports) /\ i # 0 /\ Moved(f, q) = i
    BY <1>2, WholeTypes, PlaceIs DEF Moved
  <2>2. /\ c.ports[i].guid = f.ports[q].guid /\ c.ports[i].num = f.ports[q].num
        /\ c.ports[i].lid = f.ports[q].lid /\ c.ports[i].state = f.ports[q].state
        /\ c.ports[i].ext = 0 /\ c.ports[i].remote = Moved(f, far)
        /\ c.nodes[c.ports[i].node].guid = f.nodes[f.ports[q].node].guid
    BY <2>1, CopiedPort
  <2>3. /\ g.ports[q].guid = f.ports[q].guid /\ g.ports[q].num = f.ports[q].num
        /\ g.ports[q].lid = f.ports[q].lid /\ g.ports[q].state = f.ports[q].state
        /\ g.ports[q].ext = 0 /\ g.ports[q].remote = far
        /\ g.nodes[g.ports[q].node].guid = f.nodes[f.ports[q].node].guid
    BY <2>1, KeptIs
  <2> DEFINE RemoteOf(h, port) ==
        IF port.remote = 0 THEN <<>>
        ELSE LET end == h.ports[port.remote]
             IN  <<h.nodes[end.node].guid, end.guid, end.num>>
  <2>4. RemoteOf(c, c.ports[i]) = RemoteOf(g, g.ports[q])
    <3>1. CASE far = 0
      BY <2>2, <2>3, <3>1 DEF Moved
    <3>2. CASE far # 0
      <4>1. far \in Entered(f) /\ far \in 1..Len(f.ports)
        BY <2>1, <3>2, WholeTypes DEF Whole
      <4>2. Moved(f, far) = Place(f, far) /\ Place(f, far) # 0
        BY <3>2, <4>1, PlaceIs DEF Moved
      <4>3. /\ c.ports[Place(f, far)].guid = f.ports[far].guid
            /\ c.ports[Place(f, far)].num = f.ports[far].num
            /\ c.nodes[c.ports[Place(f, far)].node].guid = f.nodes[f.ports[far].node].guid
        BY <4>1, CopiedPort
      <4>4. /\ g.ports[far].guid = f.ports[far].guid /\ g.ports[far].num = f.ports[far].num
            /\ g.nodes[g.ports[far].node].guid = f.nodes[f.ports[far].node].guid
        BY <4>1, KeptIs
      <4> HIDE DEF c, g
      <4>5. QED
        BY <2>2, <2>3, <3>2, <4>2, <4>3, <4>4
    <3>3. QED
      BY <3>1, <3>2
  <2>5. PortView(c, i) = [guid |-> c.ports[i].guid, num |-> c.ports[i].num,
          lid |-> c.ports[i].lid, state |-> c.ports[i].state, ext |-> c.ports[i].ext,
          node |-> c.nodes[c.ports[i].node].guid, remote |-> RemoteOf(c, c.ports[i])]
    BY <2>1 DEF PortView
  <2>6. PortView(g, q) = [guid |-> g.ports[q].guid, num |-> g.ports[q].num,
          lid |-> g.ports[q].lid, state |-> g.ports[q].state, ext |-> g.ports[q].ext,
          node |-> g.nodes[g.ports[q].node].guid, remote |-> RemoteOf(g, g.ports[q])]
    BY <1>2 DEF PortView
  <2> HIDE DEF c, g, i, RemoteOf
  <2>7. PortView(c, i) = PortView(g, q)
    BY <2>2, <2>3, <2>4, <2>5, <2>6
  <2>8. QED
    BY <2>1, <2>7 DEF c, g
<1>3. QED
  BY <1>1, <1>2

LEMMA CopyLooksTheSame ==
  ASSUME NEW f, Whole(f), f.from # 0
  PROVE  View(Copy(f)) = View(Kept(f))
<1> DEFINE c == Copy(f)
           g == Kept(f)
           N == Len(f.nodes)
           V(h, n) == [h.nodes[n] EXCEPT !.slots = [k \in DOMAIN @ |-> PortView(h, @[k])]]
<1>1. N \in Nat /\ Len(c.nodes) = N /\ Len(g.nodes) = N /\ f.from \in 1..N
  <2>1. N \in Nat /\ f.from \in 1..N
    BY WholeTypes DEF Whole
  <2>2. Len(g.nodes) = N
    BY KeptIs
  <2>3. c.nodes = [n \in 1..N |-> CopyNode(f, n)]
    BY DEF Copy
  <2>4. Len(c.nodes) = N
    BY <2>1, <2>3
  <2>5. QED
    BY <2>1, <2>2, <2>4
<1>2. ASSUME NEW n \in 1..N PROVE V(c, n) = V(g, n)
  <2> DEFINE node == f.nodes[n]
  <2>1. c.nodes[n] = CopyNode(f, n) /\ g.nodes[n] = node
    BY KeptIs DEF Copy
  <2>2. IsNode(node) /\ n \in DOMAIN f.nodes
    BY WholeTypes
  <2>3. node \in [guid : Nat, type : Types, lid : Nat, desc : Nat, sys : Nat,
                  slots : {node.slots}]
    BY <2>2, NodeTypes
  <2>4. \A k \in DOMAIN node.slots : node.slots[k] \in Entered(f) \cup {0}
    BY <2>2 DEF Whole
  <2> DEFINE views == [k \in DOMAIN node.slots |-> PortView(g, node.slots[k])]
  <2>5. V(g, n) = [guid |-> node.guid, type |-> node.type, lid |-> node.lid,
                   desc |-> node.desc, sys |-> node.sys, slots |-> views]
    <3> HIDE DEF g, node
    <3>1. QED
      BY <2>1, <2>3
  <2>6. V(c, n) = [guid |-> node.guid, type |-> node.type, lid |-> node.lid,
                   desc |-> node.desc, sys |-> node.sys,
                   slots |-> [k \in DOMAIN node.slots |-> PortView(c, Moved(f, node.slots[k]))]]
    <3> DEFINE x == c.nodes[n]
               moved == [k \in DOMAIN node.slots |-> Moved(f, node.slots[k])]
    <3>1. x = [guid |-> node.guid, type |-> node.type, lid |-> node.lid,
               desc |-> node.desc, sys |-> node.sys, slots |-> moved]
      BY <2>1 DEF CopyNode
    <3>2. [k \in DOMAIN moved |-> PortView(c, moved[k])]
            = [k \in DOMAIN node.slots |-> PortView(c, Moved(f, node.slots[k]))]
      <4> HIDE DEF c
      <4>1. QED
        OBVIOUS
    <3>3. V(c, n) = [x EXCEPT !.slots = [k \in DOMAIN x.slots |-> PortView(c, x.slots[k])]]
      OBVIOUS
    <3> HIDE DEF x, moved, c
    <3>4. x.slots = moved
      BY <3>1
    <3>5. [x EXCEPT !.slots = [k \in DOMAIN moved |-> PortView(c, moved[k])]]
            = [guid |-> node.guid, type |-> node.type, lid |-> node.lid,
               desc |-> node.desc, sys |-> node.sys,
               slots |-> [k \in DOMAIN moved |-> PortView(c, moved[k])]]
      BY <3>1
    <3>6. QED
      BY <3>2, <3>3, <3>4, <3>5
  <2>7. \A k \in DOMAIN node.slots :
          PortView(c, Moved(f, node.slots[k])) = PortView(g, node.slots[k])
    BY <2>4, SamePortView
  <2> HIDE DEF c, g, node
  <2>8. QED
    BY <2>5, <2>6, <2>7
<1>3. c.nodes[c.from].guid = g.nodes[g.from].guid
  <2>1. c.from = f.from /\ c.nodes[f.from] = CopyNode(f, f.from)
    BY <1>1 DEF Copy
  <2>2. QED
    BY <2>1, KeptIs DEF CopyNode
<1>4. c.hops = g.hops
  BY KeptIs DEF Copy
<1>5. \A h : View(h) = [nodes |-> [n \in 1..Len(h.nodes) |-> V(h, n)],
                        from |-> h.nodes[h.from].guid, hops |-> h.hops]
  BY DEF View
<1> HIDE DEF c, g, V
<1>6. View(c) = View(g)
  BY <1>1, <1>2, <1>3, <1>4, <1>5
<1>7. QED
  BY <1>6 DEF c, g

LEMMA CopyIsFabric ==
  ASSUME NEW f, Whole(f)
  PROVE  IsFabric(Copy(f))
<1> DEFINE c == Copy(f)
           N == Len(f.nodes)
           M == Len(f.table)
<1>1. N \in Nat /\ M \in Nat /\ f.from \in Nat /\ f.hops \in Nat
  BY WholeTypes
<1>2. /\ c.nodes = [n \in 1..N |-> CopyNode(f, n)] /\ c.ports = [i \in 1..M |-> CopyPort(f, i)]
      /\ c.table = [i \in 1..M |-> i] /\ c.from = f.from /\ c.hops = f.hops
      /\ c = [nodes |-> c.nodes, ports |-> c.ports, table |-> c.table, from |-> c.from,
              hops |-> c.hops]
  BY DEF Copy
<1>3. ASSUME NEW q \in Entered(f) \cup {0} PROVE Moved(f, q) \in Nat
  BY <1>1, PlaceIs DEF Moved
<1>4. ASSUME NEW n \in 1..N PROVE IsNode(CopyNode(f, n))
  <2> DEFINE node == f.nodes[n]
             x == CopyNode(f, n)
  <2>1. IsNode(node) /\ n \in DOMAIN f.nodes
    BY WholeTypes
  <2>2. \A k \in DOMAIN node.slots : node.slots[k] \in Entered(f) \cup {0}
    BY <2>1 DEF Whole
  <2>3. [k \in DOMAIN node.slots |-> Moved(f, node.slots[k])] \in [DOMAIN node.slots -> Nat]
    BY <1>3, <2>2
  <2> DEFINE s == [k \in DOMAIN node.slots |-> Moved(f, node.slots[k])]
             S == [DOMAIN node.slots -> Nat]
  <2>4. x = [guid |-> node.guid, type |-> node.type, lid |-> node.lid, desc |-> node.desc,
             sys |-> node.sys, slots |-> s]
    BY DEF CopyNode
  <2>5. s \in S /\ DOMAIN s = DOMAIN node.slots
    BY <2>3
  <2>6. /\ node.guid \in Nat /\ node.type \in Types /\ node.lid \in Nat
        /\ node.desc \in Nat /\ node.sys \in Nat
        /\ \E m \in 0..255 : DOMAIN node.slots = 0..m
    BY <2>1, NodeTypes
  <2> HIDE DEF x, s, S
  <2>7. x \in [guid : Nat, type : Types, lid : Nat, desc : Nat, sys : Nat, slots : S]
    <3> HIDE DEF node
    <3>1. QED
      BY <2>4, <2>5, <2>6
  <2>8. DOMAIN x.slots = DOMAIN node.slots
    BY <2>4, <2>5
  <2>9. IsNode(x)
    BY <2>6, <2>7, <2>8 DEF IsNode, S
  <2>10. QED
    BY <2>9 DEF x
<1>5. ASSUME NEW i \in 1..M PROVE CopyPort(f, i) \in PortObjects
  <2>1. f.table[i] \in Entered(f) /\ f.ports[f.table[i]] \in PortObjects
    BY WholeTypes
  <2>2. f.ports[f.table[i]].remote \in Entered(f) \cup {0}
    BY <2>1 DEF Whole
  <2>3. Moved(f, f.ports[f.table[i]].remote) \in Nat
    BY <1>3, <2>2
  <2>4. QED
    BY <2>1, <2>3 DEF CopyPort, PortObjects
<1> HIDE DEF c, N, M
<1>6. Len(c.nodes) = N /\ DOMAIN c.nodes = 1..N /\ \A n \in 1..N : c.nodes[n] = CopyNode(f, n)
  BY <1>1, <1>2
<1>7. c.nodes \in Seq({c.nodes[n] : n \in DOMAIN c.nodes})
  <2> DEFINE S == {c.nodes[n] : n \in 1..N}
  <2>1. c.nodes \in [1..N -> S]
    BY <1>2, <1>6
  <2> HIDE DEF S
  <2>2. c.nodes \in Seq(S)
    BY <1>1, <2>1
  <2>3. QED
    BY <1>6, <2>2 DEF S
<1>8. c.ports \in Seq(PortObjects) /\ c.table \in Seq(Nat)
  <2>1. c.ports \in [1..M -> PortObjects] /\ c.table \in [1..M -> Nat]
    BY <1>2, <1>5
  <2>2. QED
    BY <1>1, <2>1
<1>9. \A n \in DOMAIN c.nodes : IsNode(c.nodes[n])
  BY <1>4, <1>6
<1> DEFINE X == Seq({c.nodes[n] : n \in DOMAIN c.nodes})
<1>10. c \in [nodes : X, ports : Seq(PortObjects), table : Seq(Nat), from : Nat, hops : Nat]
  <2> HIDE DEF X
  <2>1. c.nodes \in X
    BY <1>7 DEF X
  <2>2. c.from \in Nat /\ c.hops \in Nat
    BY <1>1, <1>2
  <2>3. QED
    BY <1>2, <1>8, <2>1, <2>2
<1>11. QED
  BY <1>9, <1>10 DEF IsFabric, c

LEMMA CopyIsWhole ==
  ASSUME NEW f, Whole(f), f.from # 0
  PROVE  Whole(Copy(f)) /\ Guids(Copy(f)) \subseteq Guids(f) /\ Copy(f).from # 0
<1> DEFINE c == Copy(f)
           N == Len(f.nodes)
           M == Len(f.table)
<1>1. /\ N \in Nat /\ M \in Nat /\ DOMAIN f.nodes = 1..N /\ DOMAIN f.table = 1..M
      /\ f.from \in Nat
  BY WholeTypes
<1>2. /\ DOMAIN c.nodes = 1..N /\ Len(c.nodes) = N
      /\ DOMAIN c.ports = 1..M /\ DOMAIN c.table = 1..M
      /\ c.from = f.from
  <2>1. /\ c.nodes = [n \in 1..N |-> CopyNode(f, n)] /\ c.ports = [i \in 1..M |-> CopyPort(f, i)]
        /\ c.table = [i \in 1..M |-> i] /\ c.from = f.from
    BY DEF Copy
  <2>2. QED
    BY <1>1, <2>1
<1>3. ASSUME NEW n \in 1..N
      PROVE  /\ c.nodes[n].guid = f.nodes[n].guid
             /\ DOMAIN c.nodes[n].slots = DOMAIN f.nodes[n].slots
             /\ \A k \in DOMAIN f.nodes[n].slots :
                  c.nodes[n].slots[k] = Moved(f, f.nodes[n].slots[k])
  <2>1. c.nodes[n] = CopyNode(f, n)
    BY DEF Copy
  <2>2. QED
    BY <2>1 DEF CopyNode
<1>4. ASSUME NEW i \in 1..M
      PROVE  /\ c.table[i] = i
             /\ c.ports[i].guid = f.ports[f.table[i]].guid
             /\ c.ports[i].num = f.ports[f.table[i]].num
             /\ c.ports[i].node = f.ports[f.table[i]].node
             /\ c.ports[i].remote = Moved(f, f.ports[f.table[i]].remote)
             /\ f.table[i] \in Entered(f)
             /\ Key(c, i) = Key(f, f.table[i])
  <2>1. c.table[i] = i /\ c.ports[i] = CopyPort(f, i)
    BY DEF Copy
  <2>2. f.table[i] \in Entered(f)
    BY WholeTypes
  <2>3. QED
    BY <2>1, <2>2 DEF CopyPort, Key
<1>5. Entered(c) = 1..M
  BY <1>2, <1>4 DEF Entered
<1>6. ASSUME NEW q \in Entered(f)
      PROVE  Moved(f, q) \in 1..M /\ f.table[Moved(f, q)] = q /\ Moved(f, q) # 0
  <2>1. q # 0
    BY WholeTypes
  <2>2. QED
    BY <2>1, PlaceIs DEF Moved
<1>7. IsFabric(c)
  BY CopyIsFabric
<1> HIDE DEF c, N, M
<1>8. c.from <= Len(c.nodes)
  BY <1>2 DEF Whole, N
<1>9. \A n, m \in DOMAIN c.nodes : c.nodes[n].guid = c.nodes[m].guid => n = m
  BY <1>1, <1>2, <1>3 DEF Whole
<1>10. ASSUME NEW n \in DOMAIN c.nodes, NEW k \in DOMAIN c.nodes[n].slots,
              c.nodes[n].slots[k] # 0
       PROVE  LET i == c.nodes[n].slots[k]
              IN  i \in Entered(c) /\ c.ports[i].node = n /\ c.ports[i].num = k
  <2> DEFINE q == f.nodes[n].slots[k]
  <2>1. n \in 1..N /\ k \in DOMAIN f.nodes[n].slots /\ c.nodes[n].slots[k] = Moved(f, q)
    BY <1>2, <1>3, <1>10
  <2>2. q # 0
    BY <1>10, <2>1 DEF Moved
  <2>3. q \in Entered(f) /\ f.ports[q].node = n /\ f.ports[q].num = k
    BY <1>1, <2>1, <2>2 DEF Whole
  <2>4. Moved(f, q) \in 1..M /\ f.table[Moved(f, q)] = q
    BY <1>6, <2>3
  <2>5. QED
    BY <1>4, <1>5, <2>1, <2>3, <2>4
<1>11. ASSUME NEW i \in Entered(c)
       PROVE  /\ i \in DOMAIN c.ports
              /\ c.ports[i].node \in DOMAIN c.nodes
              /\ c.ports[i].num \in DOMAIN c.nodes[c.ports[i].node].slots
              /\ c.nodes[c.ports[i].node].slots[c.ports[i].num] = i
              /\ c.ports[i].remote \in Entered(c) \cup {0}
  <2> DEFINE q == f.table[i]
  <2>1. i \in 1..M
    BY <1>5
  <2>2. /\ c.ports[i].num = f.ports[q].num /\ c.ports[i].node = f.ports[q].node
        /\ c.ports[i].remote = Moved(f, f.ports[q].remote) /\ q \in Entered(f)
    BY <1>4, <2>1
  <2>3. /\ f.ports[q].node \in 1..N
        /\ f.ports[q].num \in DOMAIN f.nodes[f.ports[q].node].slots
        /\ f.nodes[f.ports[q].node].slots[f.ports[q].num] = q
        /\ f.ports[q].remote \in Entered(f) \cup {0}
    BY <1>1, <2>2 DEF Whole
  <2>4. c.nodes[f.ports[q].node].slots[f.ports[q].num] = Moved(f, q)
    BY <1>3, <2>3
  <2>5. Moved(f, q) = i
    <3>1. q # 0 /\ Place(f, q) = i
      BY <2>1, <2>2, WholeTypes, PlaceOfTable DEF M
    <3>2. QED
      BY <3>1 DEF Moved
  <2>6. Moved(f, f.ports[q].remote) \in 1..M \cup {0}
    <3>1. Moved(f, 0) = 0
      BY DEF Moved
    <3>2. QED
      BY <1>6, <2>3, <3>1
  <2>7. QED
    BY <1>2, <1>3, <1>5, <2>1, <2>2, <2>3, <2>4, <2>5, <2>6
<1>12. ASSUME NEW i \in Entered(c), NEW j \in Entered(c), Key(c, i) = Key(c, j) PROVE i = j
  <2>1. i \in 1..M /\ j \in 1..M
    BY <1>5
  <2>2. /\ f.table[i] \in Entered(f) /\ f.table[j] \in Entered(f)
        /\ Key(f, f.table[i]) = Key(f, f.table[j])
    BY <1>4, <1>12, <2>1
  <2>3. f.table[i] = f.table[j]
    BY <2>2 DEF Whole
  <2>4. QED
    BY <1>1, <2>1, <2>3 DEF Whole
<1>13. \A i, j \in DOMAIN c.table : c.table[i] = c.table[j] => i = j
  BY <1>2, <1>4
<1>14. Whole(c)
  BY <1>7, <1>8, <1>9, <1>10, <1>11, <1>12, <1>13 DEF Whole
<1>15. Guids(c) \subseteq Guids(f)
  <2>1. \A n \in DOMAIN c.nodes : c.nodes[n].guid \in Guids(f)
    BY <1>1, <1>2, <1>3 DEF Guids
  <2>2. \A i \in DOMAIN c.ports : c.ports[i].guid \in Guids(f)
    <3> SUFFICES ASSUME NEW i \in 1..M PROVE c.ports[i].guid \in Guids(f)
      BY <1>2
    <3>1. c.ports[i].guid = f.ports[f.table[i]].guid /\ f.table[i] \in Entered(f)
      BY <1>4
    <3>2. f.table[i] \in DOMAIN f.ports
      BY <3>1 DEF Whole
    <3>3. QED
      BY <3>1, <3>2 DEF Guids
  <2>3. QED
    BY <2>1, <2>2 DEF Guids
<1>16. QED
  BY <1>2, <1>14, <1>15 DEF c

\* A fabric that was stored whole is loaded as it was.
LEMMA RoundTrip ==
  ASSUME NEW f, Whole(f), f.from # 0
  PROVE  /\ Readable(Items(f), Header(f))
         /\ Loaded(Items(f), Header(f)) = Copy(f)
         /\ View(Copy(f)) = View(Kept(f))
<1>1. /\ SubSeq(Items(f), 1, Header(f).nodes) = NodeItems(f)
      /\ SubSeq(Items(f), Header(f).nodes + 1, Header(f).nodes + Header(f).ports) = PortItems(f)
      /\ Header(f).from = f.nodes[f.from].guid
  <2>1. Header(f).nodes = Len(f.nodes) /\ Header(f).ports = Len(f.table)
        /\ Header(f).from = f.nodes[f.from].guid
    BY DEF Header
  <2>2. QED
    BY <2>1, ItemsAre
<1>2. Readable(Items(f), Header(f))
  BY <1>1, ItemsAreValid DEF Readable
<1>3. Loaded(Items(f), Header(f)) = Copy(f)
  BY <1>1, RebuiltIsCopy DEF Loaded
<1>4. QED
  BY <1>2, <1>3, CopyLooksTheSame

\* A file without counts cannot be read.
LEMMA NothingIsUnreadable ==
  ASSUME NEW f
  PROVE  ~Readable(<<>>, FirstHeader(f))
<1>1. FirstHeader(f).nodes = 0 /\ FirstHeader(f).ports = 0
  BY DEF FirstHeader
<1>2. SubSeq(<<>>, 1, 0) = <<>> /\ Len(<<>>) = 0 /\ 1..0 = {}
  OBVIOUS
<1>3. FindNode(<<>>, FirstHeader(f).from) = 0
  BY <1>2 DEF FindNode
<1>4. QED
  BY <1>1, <1>2, <1>3 DEF Readable, Valid

------------------------------------------------------------------------------
(* An edit keeps a fabric whole. *)

\* g is f with other GUIDs at some nodes and ports, taken from R, and other system
\* image GUIDs.
SameShape(f, g) ==
  /\ g \in [nodes : {g.nodes}, ports : {g.ports}, table : {f.table}, from : {f.from},
           hops : {f.hops}]
  /\ g.nodes = [n \in DOMAIN f.nodes |-> g.nodes[n]]
  /\ g.ports = [p \in DOMAIN f.ports |-> g.ports[p]]

WithGuids(node, guid, sys) == [node EXCEPT !.guid = guid, !.sys = sys]

Renamed(f, g, R) ==
  /\ SameShape(f, g)
  /\ \A n \in DOMAIN f.nodes :
       \E guid \in {f.nodes[n].guid} \cup R, sys \in Nat :
         g.nodes[n] = WithGuids(f.nodes[n], guid, sys)
  /\ \A p \in DOMAIN f.ports :
       \E guid \in {f.ports[p].guid} \cup R : g.ports[p] = [f.ports[p] EXCEPT !.guid = guid]

LEMMA RenamedNode ==
  ASSUME NEW node, IsNode(node), NEW guid \in Nat, NEW sys \in Nat
  PROVE  /\ IsNode(WithGuids(node, guid, sys))
         /\ WithGuids(node, guid, sys).guid = guid
         /\ WithGuids(node, guid, sys).slots = node.slots
<1> DEFINE x == WithGuids(node, guid, sys)
           S == [DOMAIN node.slots -> Nat]
<1>1. node \in [guid : Nat, type : Types, lid : Nat, desc : Nat, sys : Nat, slots : S]
  BY DEF IsNode
<1> HIDE DEF S
<1>2. /\ x \in [guid : Nat, type : Types, lid : Nat, desc : Nat, sys : Nat, slots : S]
      /\ x.guid = guid /\ x.slots = node.slots
  BY <1>1 DEF WithGuids
<1> HIDE DEF x
<1>3. IsNode(x)
  BY <1>2 DEF IsNode, S
<1>4. QED
  BY <1>2, <1>3 DEF x

IsRenamed(f, g, R) ==
  /\ g.table = f.table /\ g.from = f.from /\ g.hops = f.hops
  /\ DOMAIN g.nodes = 1..Len(f.nodes) /\ Len(g.nodes) = Len(f.nodes)
  /\ DOMAIN g.ports = 1..Len(f.ports) /\ Len(g.ports) = Len(f.ports)
  /\ \A n \in 1..Len(f.nodes) :
       /\ IsNode(g.nodes[n]) /\ g.nodes[n].slots = f.nodes[n].slots
       /\ g.nodes[n].guid \in {f.nodes[n].guid} \cup R
  /\ \A p \in 1..Len(f.ports) :
       /\ g.ports[p] \in PortObjects
       /\ g.ports[p].num = f.ports[p].num /\ g.ports[p].node = f.ports[p].node
       /\ g.ports[p].remote = f.ports[p].remote
       /\ g.ports[p].guid \in {f.ports[p].guid} \cup R
  /\ Entered(g) = Entered(f)

LEMMA RenamedIs ==
  ASSUME NEW f, Whole(f), NEW R, R \subseteq Nat, NEW g, Renamed(f, g, R)
  PROVE  IsRenamed(f, g, R)
<1>1. /\ Len(f.nodes) \in Nat /\ DOMAIN f.nodes = 1..Len(f.nodes)
      /\ DOMAIN f.ports = 1..Len(f.ports) /\ Len(f.ports) \in Nat
  BY WholeTypes
<1>2. /\ g.table = f.table /\ g.from = f.from /\ g.hops = f.hops
      /\ g.nodes = [n \in DOMAIN f.nodes |-> g.nodes[n]]
      /\ g.ports = [p \in DOMAIN f.ports |-> g.ports[p]]
  <2>1. SameShape(f, g)
    BY DEF Renamed
  <2>2. QED
    BY <2>1 DEF SameShape
<1>3. /\ DOMAIN g.nodes = 1..Len(f.nodes) /\ Len(g.nodes) = Len(f.nodes)
      /\ DOMAIN g.ports = 1..Len(f.ports) /\ Len(g.ports) = Len(f.ports)
  BY <1>1, <1>2
<1>4. ASSUME NEW n \in 1..Len(f.nodes)
      PROVE  /\ IsNode(g.nodes[n]) /\ g.nodes[n].slots = f.nodes[n].slots
             /\ g.nodes[n].guid \in {f.nodes[n].guid} \cup R
  <2>1. IsNode(f.nodes[n]) /\ f.nodes[n].guid \in Nat
    BY WholeTypes, NodeTypes
  <2>2. PICK guid \in {f.nodes[n].guid} \cup R, sys \in Nat :
          g.nodes[n] = WithGuids(f.nodes[n], guid, sys)
    BY <1>1 DEF Renamed
  <2>3. guid \in Nat
    BY <2>1
  <2>4. /\ IsNode(WithGuids(f.nodes[n], guid, sys))
        /\ WithGuids(f.nodes[n], guid, sys).guid = guid
        /\ WithGuids(f.nodes[n], guid, sys).slots = f.nodes[n].slots
    BY <2>1, <2>3, RenamedNode
  <2>5. QED
    BY <2>2, <2>4
<1>5. ASSUME NEW p \in 1..Len(f.ports)
      PROVE  /\ g.ports[p] \in PortObjects
             /\ g.ports[p].num = f.ports[p].num /\ g.ports[p].node = f.ports[p].node
             /\ g.ports[p].remote = f.ports[p].remote
             /\ g.ports[p].guid \in {f.ports[p].guid} \cup R
  <2>1. f.ports[p] \in PortObjects
    BY WholeTypes
  <2>2. PICK guid \in {f.ports[p].guid} \cup R : g.ports[p] = [f.ports[p] EXCEPT !.guid = guid]
    BY <1>1 DEF Renamed
  <2>3. guid \in Nat
    BY <2>1 DEF PortObjects
  <2>4. QED
    BY <2>1, <2>2, <2>3 DEF PortObjects
<1>6. Entered(g) = Entered(f)
  BY <1>2 DEF Entered
<1>7. QED
  BY <1>2, <1>3, <1>4, <1>5, <1>6 DEF IsRenamed

LEMMA RenamedIsWhole ==
  ASSUME NEW f, Whole(f), NEW R, R \subseteq Nat, NEW g, Renamed(f, g, R),
         \A n, m \in 1..Len(f.nodes) : g.nodes[n].guid = g.nodes[m].guid => n = m,
         \A p, q \in Entered(f) : Key(g, p) = Key(g, q) => p = q
  PROVE  Whole(g) /\ Guids(g) \subseteq Guids(f) \cup R /\ g.from = f.from
<1>0. IsRenamed(f, g, R)
  BY RenamedIs
<1> DEFINE X == Seq({g.nodes[n] : n \in DOMAIN g.nodes})
<1>1. /\ Len(f.nodes) \in Nat /\ DOMAIN f.nodes = 1..Len(f.nodes)
      /\ DOMAIN f.ports = 1..Len(f.ports) /\ Len(f.ports) \in Nat
      /\ f.from \in Nat /\ f.hops \in Nat /\ f.table \in Seq(Nat)
  BY WholeTypes DEF Whole, IsFabric
<1>2. g.nodes \in X
  <2> DEFINE S == {g.nodes[n] : n \in 1..Len(f.nodes)}
  <2>1. g.nodes \in [1..Len(f.nodes) -> S]
    <3>1. g.nodes = [n \in 1..Len(f.nodes) |-> g.nodes[n]]
      BY <1>1 DEF Renamed, SameShape
    <3>2. QED
      BY <3>1
  <2> DEFINE N == Len(f.nodes)
  <2> HIDE DEF S, N
  <2>2. g.nodes \in Seq(S)
    <3>1. g.nodes \in [1..N -> S] /\ N \in Nat
      BY <1>1, <2>1 DEF N
    <3>2. QED
      BY <3>1
  <2>3. QED
    BY <2>2, <1>0 DEF S, IsRenamed
<1>3. g.ports \in Seq(PortObjects)
  <2>1. g.ports \in [1..Len(f.ports) -> PortObjects]
    <3>1. g.ports = [p \in 1..Len(f.ports) |-> g.ports[p]]
      BY <1>1 DEF Renamed, SameShape
    <3>2. \A p \in 1..Len(f.ports) : g.ports[p] \in PortObjects
      BY <1>0 DEF IsRenamed
    <3>3. QED
      BY <3>1, <3>2
  <2> DEFINE M == Len(f.ports)
             P == PortObjects
  <2>2. g.ports \in [1..M -> P] /\ M \in Nat
    BY <1>1, <2>1
  <2> HIDE DEF M, P
  <2>3. g.ports \in Seq(P)
    BY <2>2
  <2>4. QED
    BY <2>3 DEF P
<1> HIDE DEF X
<1>4. g \in [nodes : X, ports : Seq(PortObjects), table : Seq(Nat), from : Nat, hops : Nat]
  <2>1. g \in [nodes : {g.nodes}, ports : {g.ports}, table : {f.table}, from : {f.from},
              hops : {f.hops}]
    BY DEF Renamed, SameShape
  <2>2. QED
    BY <1>1, <1>2, <1>3, <2>1
<1>5. IsFabric(g)
  <2>1. \A n \in DOMAIN g.nodes : IsNode(g.nodes[n])
    BY <1>0 DEF IsRenamed
  <2>2. QED
    BY <1>4, <2>1 DEF IsFabric, X
<1>6. g.from <= Len(g.nodes)
  BY <1>0 DEF Whole, IsRenamed
<1>7. \A n, m \in DOMAIN g.nodes : g.nodes[n].guid = g.nodes[m].guid => n = m
  BY <1>0 DEF IsRenamed
<1>8. ASSUME NEW n \in DOMAIN g.nodes, NEW k \in DOMAIN g.nodes[n].slots, g.nodes[n].slots[k] # 0
      PROVE  LET p == g.nodes[n].slots[k]
             IN  p \in Entered(g) /\ g.ports[p].node = n /\ g.ports[p].num = k
  <2> DEFINE p == f.nodes[n].slots[k]
  <2>1. n \in 1..Len(f.nodes) /\ k \in DOMAIN f.nodes[n].slots /\ g.nodes[n].slots[k] = p /\ p # 0
    BY <1>8, <1>0 DEF IsRenamed
  <2>2. p \in Entered(f) /\ f.ports[p].node = n /\ f.ports[p].num = k
    BY <1>1, <2>1 DEF Whole
  <2>3. p \in 1..Len(f.ports)
    BY <2>2, WholeTypes
  <2>4. QED
    BY <2>1, <2>2, <2>3, <1>0 DEF IsRenamed
<1>9. ASSUME NEW p \in Entered(g)
      PROVE  /\ p \in DOMAIN g.ports
             /\ g.ports[p].node \in DOMAIN g.nodes
             /\ g.ports[p].num \in DOMAIN g.nodes[g.ports[p].node].slots
             /\ g.nodes[g.ports[p].node].slots[g.ports[p].num] = p
             /\ g.ports[p].remote \in Entered(g) \cup {0}
  <2>1. p \in Entered(f)
    BY <1>0 DEF IsRenamed
  <2>2. p \in 1..Len(f.ports)
    BY <2>1, WholeTypes
  <2>3. /\ f.ports[p].node \in 1..Len(f.nodes)
        /\ f.ports[p].num \in DOMAIN f.nodes[f.ports[p].node].slots
        /\ f.nodes[f.ports[p].node].slots[f.ports[p].num] = p
        /\ f.ports[p].remote \in Entered(f) \cup {0}
    BY <1>1, <2>1 DEF Whole
  <2>4. /\ g.ports[p].node = f.ports[p].node /\ g.ports[p].num = f.ports[p].num
        /\ g.ports[p].remote = f.ports[p].remote
        /\ g.nodes[f.ports[p].node].slots = f.nodes[f.ports[p].node].slots
        /\ Entered(g) = Entered(f) /\ DOMAIN g.nodes = 1..Len(f.nodes)
        /\ DOMAIN g.ports = 1..Len(f.ports)
    BY <2>2, <2>3, <1>0 DEF IsRenamed
  <2>5. QED
    BY <2>2, <2>3, <2>4
<1>10. \A p, q \in Entered(g) : Key(g, p) = Key(g, q) => p = q
  BY <1>0 DEF IsRenamed
<1>11. \A i, j \in DOMAIN g.table : g.table[i] = g.table[j] => i = j
  BY <1>0 DEF Whole, IsRenamed
<1>12. Whole(g)
  BY <1>5, <1>6, <1>7, <1>8, <1>9, <1>10, <1>11 DEF Whole
<1>13. Guids(g) \subseteq Guids(f) \cup R
  <2>1. \A n \in DOMAIN g.nodes : g.nodes[n].guid \in Guids(f) \cup R
    BY <1>1, <1>0 DEF Guids, IsRenamed
  <2>2. \A p \in DOMAIN g.ports : g.ports[p].guid \in Guids(f) \cup R
    BY <1>1, <1>0 DEF Guids, IsRenamed
  <2>3. QED
    BY <2>1, <2>2 DEF Guids
<1>14. QED
  BY <1>12, <1>13, <1>0 DEF IsRenamed

LEMMA OwnGuids ==
  ASSUME NEW node, IsNode(node), NEW a
  PROVE  /\ node = WithGuids(node, node.guid, node.sys)
         /\ [node EXCEPT !.guid = a] = WithGuids(node, a, node.sys)
         /\ [node EXCEPT !.sys = a] = WithGuids(node, node.guid, a)
<1>1. node \in [guid : Nat, type : Types, lid : Nat, desc : Nat, sys : Nat, slots : {node.slots}]
  BY NodeTypes
<1>2. QED
  BY <1>1 DEF WithGuids

LEMMA OwnGuid ==
  ASSUME NEW port \in PortObjects
  PROVE  port = [port EXCEPT !.guid = port.guid]
BY DEF PortObjects

LEMMA FabricIs ==
  ASSUME NEW f, Whole(f)
  PROVE  f \in [nodes : {f.nodes}, ports : {f.ports}, table : {f.table}, from : {f.from},
                hops : {f.hops}]
BY DEF Whole, IsFabric

LEMMA UnchangedIsRenamed ==
  ASSUME NEW f, Whole(f), NEW R
  PROVE  Renamed(f, f, R)
<1>1. SameShape(f, f)
  <2>1. f.nodes = [n \in DOMAIN f.nodes |-> f.nodes[n]] /\ f.ports = [p \in DOMAIN f.ports |-> f.ports[p]]
    BY DEF Whole, IsFabric
  <2>2. QED
    BY <2>1, FabricIs DEF SameShape
<1>2. ASSUME NEW n \in DOMAIN f.nodes
      PROVE  \E guid \in {f.nodes[n].guid} \cup R, sys \in Nat :
               f.nodes[n] = WithGuids(f.nodes[n], guid, sys)
  <2>1. IsNode(f.nodes[n])
    BY WholeTypes
  <2>2. f.nodes[n].sys \in Nat /\ f.nodes[n] = WithGuids(f.nodes[n], f.nodes[n].guid, f.nodes[n].sys)
    BY <2>1, NodeTypes, OwnGuids
  <2>3. QED
    BY <2>2
<1>3. ASSUME NEW p \in DOMAIN f.ports
      PROVE  \E guid \in {f.ports[p].guid} \cup R : f.ports[p] = [f.ports[p] EXCEPT !.guid = guid]
  <2>1. f.ports[p] \in PortObjects
    BY WholeTypes
  <2>2. QED
    BY <2>1, OwnGuid
<1>4. QED
  BY <1>1, <1>2, <1>3 DEF Renamed

\* The nodes that ReplaceNodeGuid changes: at most one; and, of a switch, its ports.
Hit(f, type, before) ==
  {n \in 1..Len(f.nodes) : f.nodes[n].type = type /\ f.nodes[n].guid = before}
HitPorts(f, type, before) ==
  {p \in 1..Len(f.ports) :
     type = "sw" /\ \E n \in Hit(f, type, before) : p \in {f.nodes[n].slots[k] :
                                                         k \in DOMAIN f.nodes[n].slots}}

LEMMA NodeGuidIs ==
  ASSUME NEW f, Whole(f), NEW type, NEW before, NEW after
  PROVE  LET g == ReplaceNodeGuid(f, type, before, after)
         IN  /\ SameShape(f, g)
             /\ \A n \in 1..Len(f.nodes) :
                  g.nodes[n] = IF n \in Hit(f, type, before)
                               THEN [f.nodes[n] EXCEPT !.guid = after] ELSE f.nodes[n]
             /\ \A p \in 1..Len(f.ports) :
                  g.ports[p] = IF p \in HitPorts(f, type, before)
                               THEN [f.ports[p] EXCEPT !.guid = after] ELSE f.ports[p]
<1> DEFINE g == ReplaceNodeGuid(f, type, before, after)
           ns == [n \in 1..Len(f.nodes) |-> IF n \in Hit(f, type, before)
                                         THEN [f.nodes[n] EXCEPT !.guid = after] ELSE f.nodes[n]]
           ps == [p \in 1..Len(f.ports) |-> IF p \in HitPorts(f, type, before)
                                         THEN [f.ports[p] EXCEPT !.guid = after] ELSE f.ports[p]]
           qs == [p \in 1..Len(f.ports) |->
                    IF type = "sw" /\ \E n \in Hit(f, type, before) : p \in {f.nodes[n].slots[k] :
                                                           k \in DOMAIN f.nodes[n].slots}
                    THEN [f.ports[p] EXCEPT !.guid = after] ELSE f.ports[p]]
<1>1. DOMAIN f.nodes = 1..Len(f.nodes) /\ DOMAIN f.ports = 1..Len(f.ports)
  BY WholeTypes
<1>2. g = [f EXCEPT !.nodes = ns, !.ports = qs]
  BY <1>1 DEF ReplaceNodeGuid, Hit
<1>3. qs = ps
  BY DEF HitPorts
<1> HIDE DEF ns, ps, qs, g
<1>4. /\ g \in [nodes : {ns}, ports : {ps}, table : {f.table}, from : {f.from}, hops : {f.hops}]
      /\ g.nodes = ns /\ g.ports = ps
  <2>1. f \in [nodes : {f.nodes}, ports : {f.ports}, table : {f.table}, from : {f.from},
              hops : {f.hops}]
    BY FabricIs
  <2>2. g = [nodes |-> ns, ports |-> ps, table |-> f.table, from |-> f.from, hops |-> f.hops]
    BY <1>2, <1>3, <2>1
  <2>3. QED
    BY <2>2
<1>5. ns = [n \in DOMAIN f.nodes |-> ns[n]] /\ ps = [p \in DOMAIN f.ports |-> ps[p]]
  BY <1>1 DEF ns, ps
<1>6. SameShape(f, g)
  BY <1>4, <1>5 DEF SameShape
<1>7. QED
  BY <1>4, <1>6 DEF ns, ps, g

\* f, with after put in at some nodes and ports.
LEMMA PutInIsRenamed ==
  ASSUME NEW f, Whole(f), NEW after, NEW g, SameShape(f, g),
         \A n \in 1..Len(f.nodes) :
           g.nodes[n] = f.nodes[n] \/ g.nodes[n] = [f.nodes[n] EXCEPT !.guid = after],
         \A p \in 1..Len(f.ports) :
           g.ports[p] = f.ports[p] \/ g.ports[p] = [f.ports[p] EXCEPT !.guid = after]
  PROVE  Renamed(f, g, {after})
<1>1. DOMAIN f.nodes = 1..Len(f.nodes) /\ DOMAIN f.ports = 1..Len(f.ports)
  BY WholeTypes
<1>2. ASSUME NEW n \in DOMAIN f.nodes
      PROVE  \E guid \in {f.nodes[n].guid} \cup {after}, sys \in Nat :
               g.nodes[n] = WithGuids(f.nodes[n], guid, sys)
  <2>1. IsNode(f.nodes[n])
    BY WholeTypes
  <2>2. f.nodes[n].sys \in Nat /\ f.nodes[n] = WithGuids(f.nodes[n], f.nodes[n].guid, f.nodes[n].sys)
    BY <2>1, NodeTypes, OwnGuids
  <2>3. [f.nodes[n] EXCEPT !.guid = after] = WithGuids(f.nodes[n], after, f.nodes[n].sys)
    BY <2>1, OwnGuids
  <2>4. \/ g.nodes[n] = WithGuids(f.nodes[n], f.nodes[n].guid, f.nodes[n].sys)
        \/ g.nodes[n] = WithGuids(f.nodes[n], after, f.nodes[n].sys)
    BY <1>1, <2>2, <2>3
  <2>5. QED
    BY <2>2, <2>4
<1>3. ASSUME NEW p \in DOMAIN f.ports
      PROVE  \E guid \in {f.ports[p].guid} \cup {after} :
               g.ports[p] = [f.ports[p] EXCEPT !.guid = guid]
  <2>1. f.ports[p] \in PortObjects
    BY WholeTypes
  <2>2. f.ports[p] = [f.ports[p] EXCEPT !.guid = f.ports[p].guid]
    BY <2>1, OwnGuid
  <2>3. \/ g.ports[p] = [f.ports[p] EXCEPT !.guid = f.ports[p].guid]
        \/ g.ports[p] = [f.ports[p] EXCEPT !.guid = after]
    BY <1>1, <2>2
  <2>4. QED
    BY <2>3
<1>4. QED
  BY <1>2, <1>3 DEF Renamed

LEMMA NodeGuidPutIn ==
  ASSUME NEW a, NEW node, IsNode(node)
  PROVE  [node EXCEPT !.guid = a].guid = a
<1>1. node \in [guid : Nat, type : Types, lid : Nat, desc : Nat, sys : Nat, slots : {node.slots}]
  BY NodeTypes
<1>2. QED
  BY <1>1

LEMMA PortGuidPutIn ==
  ASSUME NEW a, NEW port \in PortObjects
  PROVE  [port EXCEPT !.guid = a].guid = a /\ [port EXCEPT !.guid = a].num = port.num
BY DEF PortObjects

KeepsWhole(f, g, R) == Whole(g) /\ Guids(g) \subseteq Guids(f) \cup R /\ g.from = f.from

\* A new node GUID tells the node from the others, and the ports of a switch,
\* which all get it, are told apart by their numbers.
LEMMA NodeGuidKeepsWhole ==
  ASSUME NEW f, Whole(f), NEW type, NEW before, NEW after \in Nat, after \notin Guids(f)
  PROVE  KeepsWhole(f, ReplaceNodeGuid(f, type, before, after), {after})
<1> DEFINE g == ReplaceNodeGuid(f, type, before, after)
           hit == Hit(f, type, before)
           hits == HitPorts(f, type, before)
<1>1. /\ SameShape(f, g)
      /\ \A n \in 1..Len(f.nodes) :
           g.nodes[n] = IF n \in hit THEN [f.nodes[n] EXCEPT !.guid = after] ELSE f.nodes[n]
      /\ \A p \in 1..Len(f.ports) :
           g.ports[p] = IF p \in hits THEN [f.ports[p] EXCEPT !.guid = after] ELSE f.ports[p]
  BY NodeGuidIs
<1> HIDE DEF g
<1>2. Renamed(f, g, {after})
  <2> HIDE DEF hit, hits
  <2>1. QED
    BY <1>1, PutInIsRenamed
<1>3. /\ DOMAIN f.nodes = 1..Len(f.nodes) /\ DOMAIN f.ports = 1..Len(f.ports)
      /\ \A n \in 1..Len(f.nodes) : IsNode(f.nodes[n]) /\ f.nodes[n].guid \in Guids(f)
      /\ \A p \in 1..Len(f.ports) : f.ports[p] \in PortObjects /\ f.ports[p].guid \in Guids(f)
  BY WholeTypes DEF Guids
<1>4. ASSUME NEW n \in 1..Len(f.nodes)
      PROVE  g.nodes[n].guid = IF n \in hit THEN after ELSE f.nodes[n].guid
  <2>1. [f.nodes[n] EXCEPT !.guid = after].guid = after
    BY <1>3, NodeGuidPutIn
  <2>2. QED
    BY <1>1, <2>1
<1>5. ASSUME NEW p \in 1..Len(f.ports)
      PROVE  /\ g.ports[p].guid = IF p \in hits THEN after ELSE f.ports[p].guid
             /\ g.ports[p].num = f.ports[p].num
  <2>1. /\ [f.ports[p] EXCEPT !.guid = after].guid = after
        /\ [f.ports[p] EXCEPT !.guid = after].num = f.ports[p].num
    BY <1>3, PortGuidPutIn
  <2>2. QED
    BY <1>1, <2>1
<1>6. \A n, m \in 1..Len(f.nodes) : n \in hit /\ m \in hit => n = m
  BY <1>3 DEF Hit, Whole
<1>7. \A n, m \in 1..Len(f.nodes) : g.nodes[n].guid = g.nodes[m].guid => n = m
  <2> SUFFICES ASSUME NEW n \in 1..Len(f.nodes), NEW m \in 1..Len(f.nodes),
                      g.nodes[n].guid = g.nodes[m].guid
               PROVE  n = m
    OBVIOUS
  <2>1. \/ n \in hit /\ m \in hit
        \/ f.nodes[n].guid = f.nodes[m].guid
    BY <1>3, <1>4
  <2>2. QED
    BY <1>3, <1>6, <2>1 DEF Whole
<1>8. ASSUME NEW p \in Entered(f), p \in hits
      PROVE  \E n \in hit : p = f.nodes[n].slots[f.ports[p].num]
  <2>1. PICK n \in hit : p \in {f.nodes[n].slots[k] : k \in DOMAIN f.nodes[n].slots}
    BY <1>8 DEF HitPorts
  <2>2. PICK k \in DOMAIN f.nodes[n].slots : p = f.nodes[n].slots[k]
    BY <2>1
  <2>3. p # 0 /\ n \in DOMAIN f.nodes
    BY <1>3, WholeTypes DEF Hit
  <2>4. f.ports[p].num = k
    BY <2>2, <2>3 DEF Whole
  <2>5. QED
    BY <2>2, <2>4
<1>9. \A p, q \in Entered(f) : Key(g, p) = Key(g, q) => p = q
  <2> SUFFICES ASSUME NEW p \in Entered(f), NEW q \in Entered(f), Key(g, p) = Key(g, q)
               PROVE  p = q
    OBVIOUS
  <2>1. p \in 1..Len(f.ports) /\ q \in 1..Len(f.ports)
    BY WholeTypes
  <2>2. g.ports[p].guid = g.ports[q].guid /\ f.ports[p].num = f.ports[q].num
    BY <1>5, <2>1 DEF Key
  <2>3. \/ p \in hits /\ q \in hits
        \/ f.ports[p].guid = f.ports[q].guid
    BY <1>3, <1>5, <2>1, <2>2
  <2>4. CASE p \in hits /\ q \in hits
    <3>1. PICK n \in hit : p = f.nodes[n].slots[f.ports[p].num]
      BY <1>8, <2>4
    <3>2. PICK m \in hit : q = f.nodes[m].slots[f.ports[q].num]
      BY <1>8, <2>4
    <3>3. n = m
      BY <1>6 DEF Hit
    <3>4. QED
      BY <2>2, <3>1, <3>2, <3>3
  <2>5. CASE f.ports[p].guid = f.ports[q].guid
    <3>1. Key(f, p) = Key(f, q)
      BY <2>2, <2>5 DEF Key
    <3>2. QED
      BY <3>1 DEF Whole
  <2>6. QED
    BY <2>3, <2>4, <2>5
<1>10. QED
  <2>1. {after} \subseteq Nat
    OBVIOUS
  <2>2. Whole(g) /\ Guids(g) \subseteq Guids(f) \cup {after} /\ g.from = f.from
    BY <1>2, <1>7, <1>9, <2>1, RenamedIsWhole
  <2>3. QED
    BY <2>2 DEF KeepsWhole, g

LEMMA SysGuidKeepsWhole ==
  ASSUME NEW f, Whole(f), NEW before, NEW after \in Nat
  PROVE  KeepsWhole(f, ReplaceSysGuid(f, before, after), {})
<1> DEFINE g == ReplaceSysGuid(f, before, after)
           ns == [n \in 1..Len(f.nodes) |->
                    IF f.nodes[n].sys = before THEN [f.nodes[n] EXCEPT !.sys = after] ELSE f.nodes[n]]
<1>1. DOMAIN f.nodes = 1..Len(f.nodes) /\ DOMAIN f.ports = 1..Len(f.ports)
  BY WholeTypes
<1>2. g = [f EXCEPT !.nodes = ns]
  BY <1>1 DEF ReplaceSysGuid
<1> HIDE DEF ns, g
<1>3. g = [nodes |-> ns, ports |-> f.ports, table |-> f.table, from |-> f.from, hops |-> f.hops]
  BY <1>2, FabricIs
<1>4. ns = [n \in DOMAIN f.nodes |-> ns[n]] /\ f.ports = [p \in DOMAIN f.ports |-> f.ports[p]]
  <2>1. SameShape(f, f)
    BY UnchangedIsRenamed DEF Renamed
  <2>2. QED
    BY <1>1, <2>1 DEF ns, SameShape
<1>5. SameShape(f, g)
  BY <1>3, <1>4 DEF SameShape
<1>6. ASSUME NEW n \in DOMAIN f.nodes
      PROVE  /\ \E guid \in {f.nodes[n].guid} \cup {}, sys \in Nat :
                  g.nodes[n] = WithGuids(f.nodes[n], guid, sys)
             /\ g.nodes[n].guid = f.nodes[n].guid
  <2>1. IsNode(f.nodes[n])
    BY WholeTypes
  <2>2. f.nodes[n].sys \in Nat /\ f.nodes[n].guid \in Nat
    BY <2>1, NodeTypes
  <2>3. /\ f.nodes[n] = WithGuids(f.nodes[n], f.nodes[n].guid, f.nodes[n].sys)
        /\ [f.nodes[n] EXCEPT !.sys = after] = WithGuids(f.nodes[n], f.nodes[n].guid, after)
    BY <2>1, OwnGuids
  <2>4. g.nodes[n] = IF f.nodes[n].sys = before THEN [f.nodes[n] EXCEPT !.sys = after] ELSE f.nodes[n]
    BY <1>1, <1>3 DEF ns
  <2>5. \/ g.nodes[n] = WithGuids(f.nodes[n], f.nodes[n].guid, f.nodes[n].sys)
        \/ g.nodes[n] = WithGuids(f.nodes[n], f.nodes[n].guid, after)
    BY <2>3, <2>4
  <2>6. /\ WithGuids(f.nodes[n], f.nodes[n].guid, f.nodes[n].sys).guid = f.nodes[n].guid
        /\ WithGuids(f.nodes[n], f.nodes[n].guid, after).guid = f.nodes[n].guid
    BY <2>1, <2>2, RenamedNode
  <2>7. QED
    BY <2>2, <2>5, <2>6
<1>7. ASSUME NEW p \in DOMAIN f.ports
      PROVE  \E guid \in {f.ports[p].guid} \cup {} : g.ports[p] = [f.ports[p] EXCEPT !.guid = guid]
  <2>1. f.ports[p] \in PortObjects /\ g.ports[p] = f.ports[p]
    BY <1>3, WholeTypes
  <2>2. QED
    BY <2>1, OwnGuid
<1>8. Renamed(f, g, {})
  BY <1>5, <1>6, <1>7 DEF Renamed
<1>9. \A n, m \in 1..Len(f.nodes) : g.nodes[n].guid = g.nodes[m].guid => n = m
  BY <1>1, <1>6 DEF Whole
<1>10. \A p, q \in Entered(f) : Key(g, p) = Key(g, q) => p = q
  BY <1>3 DEF Whole, Key
<1>11. Whole(g) /\ Guids(g) \subseteq Guids(f) \cup {} /\ g.from = f.from
  BY <1>8, <1>9, <1>10, RenamedIsWhole
<1>12. QED
  BY <1>11 DEF KeepsWhole, g

LEMMA UnchangedKeepsWhole ==
  ASSUME NEW f, Whole(f), NEW R
  PROVE  KeepsWhole(f, f, R)
BY DEF KeepsWhole

\* One port of a CA gets the new GUID.
LEMMA OnePortKeepsWhole ==
  ASSUME NEW f, Whole(f), NEW x, NEW after \in Nat, after \notin Guids(f)
  PROVE  KeepsWhole(f, [f EXCEPT !.ports[x].guid = after], {after})
<1> DEFINE g == [f EXCEPT !.ports[x].guid = after]
           ps == [f.ports EXCEPT ![x].guid = after]
<1>1. DOMAIN f.nodes = 1..Len(f.nodes) /\ DOMAIN f.ports = 1..Len(f.ports)
  BY WholeTypes
<1>2. g = [f EXCEPT !.ports = ps]
  OBVIOUS
<1>3. /\ ps = [p \in DOMAIN f.ports |-> ps[p]]
      /\ \A p \in 1..Len(f.ports) :
           ps[p] = IF p = x THEN [f.ports[p] EXCEPT !.guid = after] ELSE f.ports[p]
  <2>1. f.ports = [p \in 1..Len(f.ports) |-> f.ports[p]]
    BY <1>1, UnchangedIsRenamed DEF Renamed, SameShape
  <2>2. QED
    BY <1>1, <2>1
<1> HIDE DEF ps, g
<1>4. g = [nodes |-> f.nodes, ports |-> ps, table |-> f.table, from |-> f.from, hops |-> f.hops]
  BY <1>2, FabricIs
<1>5. SameShape(f, g)
  <2>1. SameShape(f, f)
    BY UnchangedIsRenamed DEF Renamed
  <2>2. QED
    BY <1>3, <1>4, <2>1 DEF SameShape
<1>6. Renamed(f, g, {after})
  <2>1. /\ \A n \in 1..Len(f.nodes) : g.nodes[n] = f.nodes[n]
        /\ \A p \in 1..Len(f.ports) :
             g.ports[p] = f.ports[p] \/ g.ports[p] = [f.ports[p] EXCEPT !.guid = after]
    BY <1>3, <1>4
  <2>2. QED
    BY <1>5, <2>1, PutInIsRenamed
<1>7. \A n, m \in 1..Len(f.nodes) : g.nodes[n].guid = g.nodes[m].guid => n = m
  BY <1>1, <1>4 DEF Whole
<1>8. ASSUME NEW p \in 1..Len(f.ports)
      PROVE  /\ g.ports[p].guid = IF p = x THEN after ELSE f.ports[p].guid
             /\ g.ports[p].num = f.ports[p].num
             /\ f.ports[p].guid # after
  <2>1. f.ports[p] \in PortObjects /\ f.ports[p].guid \in Guids(f)
    BY <1>1, WholeTypes DEF Guids
  <2>2. /\ [f.ports[p] EXCEPT !.guid = after].guid = after
        /\ [f.ports[p] EXCEPT !.guid = after].num = f.ports[p].num
    BY <2>1, PortGuidPutIn
  <2>3. QED
    BY <1>3, <1>4, <2>1, <2>2
<1>9. \A p, q \in Entered(f) : Key(g, p) = Key(g, q) => p = q
  <2> SUFFICES ASSUME NEW p \in Entered(f), NEW q \in Entered(f), Key(g, p) = Key(g, q), p # q
               PROVE  FALSE
    OBVIOUS
  <2>1. p \in 1..Len(f.ports) /\ q \in 1..Len(f.ports)
    BY WholeTypes
  <2>2. g.ports[p].guid = g.ports[q].guid /\ f.ports[p].num = f.ports[q].num
    BY <1>8, <2>1 DEF Key
  <2>3. f.ports[p].guid = f.ports[q].guid
    BY <1>8, <2>1, <2>2
  <2>4. Key(f, p) = Key(f, q)
    BY <2>2, <2>3 DEF Key
  <2>5. QED
    BY <2>4 DEF Whole
<1>10. QED
  <2>1. {after} \subseteq Nat
    OBVIOUS
  <2>2. Whole(g) /\ Guids(g) \subseteq Guids(f) \cup {after} /\ g.from = f.from
    BY <1>6, <1>7, <1>9, <2>1, RenamedIsWhole
  <2>3. QED
    BY <2>2 DEF KeepsWhole, g

NewGuids(c) == IF c.what = "sysimgguid" THEN {} ELSE {c.after}

LEMMA EditKeepsWhole ==
  ASSUME NEW f, Whole(f), NEW c, IsChange(c), NewGuids(c) \cap Guids(f) = {}
  PROVE  KeepsWhole(f, Edit(f, c), NewGuids(c))
<1>1. /\ c.what \in {"switchguid", "caguid", "sysimgguid", "portguid"}
      /\ c.after \in Nat
  BY DEF IsChange
<1>2. CASE c.what = "switchguid"
  <2>1. Edit(f, c) = ReplaceNodeGuid(f, "sw", c.before, c.after)
    BY <1>2 DEF Edit
  <2>2. QED
    BY <1>1, <1>2, <2>1, NodeGuidKeepsWhole DEF NewGuids
<1>3. CASE c.what = "caguid"
  <2>1. Edit(f, c) = ReplaceNodeGuid(f, "ca", c.before, c.after)
    BY <1>3 DEF Edit
  <2>2. QED
    BY <1>1, <1>3, <2>1, NodeGuidKeepsWhole DEF NewGuids
<1>4. CASE c.what = "sysimgguid"
  <2>1. Edit(f, c) = ReplaceSysGuid(f, c.before, c.after)
    BY <1>4 DEF Edit
  <2>2. QED
    BY <1>1, <1>4, <2>1, SysGuidKeepsWhole DEF NewGuids
<1>5. CASE c.what = "portguid"
  <2>1. Edit(f, c) = IF FindNodeGuid(f, c.node) = 0 THEN f
                     ELSE ReplacePortGuid(f, c.node, c.before, c.after)
    BY <1>5 DEF Edit
  <2>2. NewGuids(c) = {c.after} /\ c.after \notin Guids(f)
    BY <1>5 DEF NewGuids
  <2>3. \/ Edit(f, c) = f
        \/ Edit(f, c) = ReplaceNodeGuid(f, "sw", c.before, c.after)
        \/ \E x : Edit(f, c) = [f EXCEPT !.ports[x].guid = c.after]
    BY <2>1 DEF ReplacePortGuid
  <2>4. QED
    BY <1>1, <2>2, <2>3, UnchangedKeepsWhole, NodeGuidKeepsWhole, OnePortKeepsWhole
<1>6. QED
  BY <1>1, <1>2, <1>3, <1>4, <1>5

------------------------------------------------------------------------------
(* The files. *)

Files == Tools \cup {Initial}

Loading == {"open", "header", "items"}
Early == Loading \cup {"stat", "unlink", "create"}
Storing == {"stat", "unlink", "create", "head", "body", "close"}

\* A fabric nothing is wrong with, and that has no GUID an edit still to come
\* puts in.
Sound(does, at, f) ==
  /\ Whole(f)
  /\ \A u \in Tools : at[u] \in Loading /\ PutsIn(does[u].change)
                        => does[u].change.after \notin Guids(f)

Begins(b, s) == \E n \in 0..Len(s) : b = SubSeq(s, 1, n)

\* What is in a file, of the fabric of the tool that created it.
Written(does, at, c, f) ==
  /\ Sound(does, at, f) /\ f.from # 0
  /\ c.header \in {FirstHeader(f), Header(f)}
  /\ Begins(c.body, Items(f))

Typed ==
  /\ \E job \in Jobs : plan = job.plan
  /\ dir \in Files \cup {None}
  /\ file = [i \in Files |-> [header |-> file[i].header, body |-> file[i].body]]
  /\ pc = [t \in Tools |-> pc[t]]
  /\ ino \in [Tools -> Files \cup {None}]
  /\ got = [t \in Tools |-> got[t]]
  /\ want = [t \in Tools |-> want[t]]
  /\ old = [t \in Tools |-> old[t]]
  /\ fab = [i \in Files |-> fab[i]]

\* Until a tool has created its file there is nothing in it and nobody has it open.
Aside ==
  \A t \in Tools :
    /\ pc[t] \in Early \cup {"head"} => file[t] = Empty
    /\ pc[t] \in Early => dir # t /\ \A u \in Tools : ino[u] # t

Unloaded ==
  \A t \in Tools :
    /\ pc[t] \in Loading => fab[t] = plan[t].scan /\ old[t] = None
    /\ pc[t] \in {"open", "header"} => got[t] = <<>>
    /\ pc[t] \in {"header", "items"} => ino[t] \in Files

\* What a tool has read so far.
Taken(does, at, f, header, items) ==
  /\ Sound(does, at, f) /\ f.from # 0
  /\ header \in {FirstHeader(f), Header(f)}
  /\ Begins(items, Items(f))
  /\ Len(items) <= header.nodes + header.ports

Reading ==
  \A t \in Tools : pc[t] = "items" => Taken(plan, pc, fab[ino[t]], want[t], got[t])

Remembered ==
  \A t \in Tools : old[t] # None => ino[t] \in Files /\ View(old[t]) = View(Kept(fab[ino[t]]))

InHand == \A t \in Tools : pc[t] \in Storing => Sound(plan, pc, fab[t])

Stored ==
  /\ \A i \in Files : file[i] = Empty \/ Written(plan, pc, file[i], fab[i])
  /\ \A t \in Tools : pc[t] \in {"body", "close"} => Written(plan, pc, file[t], fab[t])

\* A fabric that is all in its file.
Complete(c, f) ==
  Whole(f) /\ f.from # 0 /\ c.header = Header(f) /\ c.body = Items(f)

Finished ==
  \A t \in Tools :
    /\ pc[t] = "close" => Complete(file[t], fab[t])
    /\ pc[t] = "done" /\ plan[t].store /\ t \notin cut => Complete(file[t], fab[t])

IInv == /\ Typed /\ Aside /\ Unloaded /\ Reading /\ Remembered /\ InHand /\ Stored /\ Finished

LEMMA BeginsWithNothing ==
  ASSUME NEW S, NEW s \in Seq(S)
  PROVE  Begins(<<>>, s)
<1>1. 0 \in 0..Len(s) /\ SubSeq(s, 1, 0) = <<>>
  OBVIOUS
<1>2. QED
  BY <1>1 DEF Begins

LEMMA BeginningIs ==
  ASSUME NEW S, NEW s \in Seq(S), NEW b, Begins(b, s)
  PROVE  /\ b \in Seq(S) /\ Len(b) \in 0..Len(s)
         /\ b = SubSeq(s, 1, Len(b))
         /\ Len(b) >= Len(s) => b = s
<1>1. PICK n \in 0..Len(s) : b = SubSeq(s, 1, n)
  BY DEF Begins
<1>2. b \in Seq(S) /\ Len(b) = n
  BY <1>1
<1>3. SubSeq(s, 1, Len(s)) = s
  OBVIOUS
<1>4. Len(b) >= Len(s) => n = Len(s)
  BY <1>1, <1>2
<1>5. QED
  BY <1>1, <1>2, <1>3, <1>4

LEMMA BeginningGrows ==
  ASSUME NEW S, NEW s \in Seq(S), NEW b, Begins(b, s), Len(b) < Len(s)
  PROVE  /\ Begins(Append(b, s[Len(b) + 1]), s)
         /\ Len(Append(b, s[Len(b) + 1])) = Len(b) + 1
<1>1. b \in Seq(S) /\ Len(b) \in 0..Len(s) /\ b = SubSeq(s, 1, Len(b))
  BY BeginningIs
<1> DEFINE n == Len(b)
<1>2. n + 1 \in 0..Len(s) /\ n \in Nat
  BY <1>1
<1> HIDE DEF n
<1>3. SubSeq(s, 1, n + 1) = Append(SubSeq(s, 1, n), s[n + 1])
  BY <1>2
<1>4. Append(b, s[n + 1]) = SubSeq(s, 1, n + 1)
  BY <1>1, <1>3 DEF n
<1>5. Len(SubSeq(s, 1, n + 1)) = n + 1
  BY <1>2
<1>6. QED
  BY <1>2, <1>4, <1>5 DEF Begins, n

LEMMA BeginningIsCut ==
  ASSUME NEW S, NEW s \in Seq(S), NEW b, Begins(b, s), NEW k \in 0..Len(b)
  PROVE  Begins(SubSeq(b, 1, k), s)
<1>1. PICK n \in 0..Len(s) : b = SubSeq(s, 1, n)
  BY DEF Begins
<1>2. Len(b) = n
  BY <1>1
<1>3. SubSeq(SubSeq(s, 1, n), 1, k) = SubSeq(s, 1, k)
  BY <1>1, <1>2
<1>4. k \in 0..Len(s)
  BY <1>1, <1>2
<1>5. QED
  BY <1>1, <1>3, <1>4 DEF Begins

\* What is in a beginning is in the whole at its place.
LEMMA NextOfBeginning ==
  ASSUME NEW S, NEW s \in Seq(S), NEW b, Begins(b, s), NEW k \in Nat, k < Len(b)
  PROVE  b[k + 1] = s[k + 1] /\ k < Len(s)
<1>1. PICK n \in 0..Len(s) : b = SubSeq(s, 1, n)
  BY DEF Begins
<1>2. Len(b) = n
  BY <1>1
<1>3. QED
  BY <1>1, <1>2

------------------------------------------------------------------------------
(* Nothing gets worse when a tool goes on. *)

Later(at, then) == \A u \in Tools : then[u] \in Loading => at[u] \in Loading

LEMMA SoundStays ==
  ASSUME NEW does, NEW at, NEW then, Later(at, then), NEW f, Sound(does, at, f)
  PROVE  Sound(does, then, f)
BY DEF Later, Sound

LEMMA WrittenStays ==
  ASSUME NEW does, NEW at, NEW then, Later(at, then), NEW c, NEW f, Written(does, at, c, f)
  PROVE  Written(does, then, c, f)
BY SoundStays DEF Written

LEMMA TakenStays ==
  ASSUME NEW does, NEW at, NEW then, Later(at, then), NEW f, NEW header, NEW items,
         Taken(does, at, f, header, items)
  PROVE  Taken(does, then, f, header, items)
BY SoundStays DEF Taken

LEMMA ItemsSeq ==
  ASSUME NEW f, Whole(f)
  PROVE  \E S : Items(f) \in Seq(S)
BY ItemsAre

LEMMA HeaderCounts ==
  ASSUME NEW f, Whole(f), NEW h \in {FirstHeader(f), Header(f)}
  PROVE  h.nodes \in Nat /\ h.ports \in Nat
BY WholeTypes DEF FirstHeader, Header

\* A fabric that was scanned is sound.
LEMMA ScanIsSound ==
  ASSUME GuidsAreNew, NEW job \in Jobs, NEW at, NEW t \in Tools, job.plan[t].scan # None
  PROVE  Sound(job.plan, at, job.plan[t].scan)
<1>1. Whole(job.plan[t].scan)
  BY FabricCacheAssumption DEF IsPlan
<1>2. QED
  BY <1>1 DEF GuidsAreNew, Sound

LEMMA BeforeIsSound ==
  ASSUME GuidsAreNew, NEW job \in Jobs, NEW at, job.before # None
  PROVE  Sound(job.plan, at, job.before) /\ job.before.from # 0
<1>1. Whole(job.before) /\ job.before.from # 0
  BY FabricCacheAssumption
<1>2. QED
  BY <1>1 DEF GuidsAreNew, Sound

\* What tool t edits is sound afterwards.
LEMMA EditIsSound ==
  ASSUME GuidsAreNew, NEW job \in Jobs, NEW at, NEW then, Later(at, then), NEW t \in Tools,
         at[t] \in Loading, then[t] \notin Loading, job.plan[t].change # None,
         NEW f, Sound(job.plan, at, f), NEW g, Whole(g), Guids(g) \subseteq Guids(f)
  PROVE  LET h == Edit(g, job.plan[t].change)
         IN  Sound(job.plan, then, h) /\ h.from = g.from
<1> DEFINE c == job.plan[t].change
           h == Edit(g, c)
<1>1. IsChange(c)
  BY FabricCacheAssumption DEF IsPlan
<1>2. PutsIn(c) => c.after \notin Guids(f)
  BY DEF Sound
<1>3. NewGuids(c) \cap Guids(g) = {}
  BY <1>2 DEF NewGuids, PutsIn
<1>4. KeepsWhole(g, h, NewGuids(c))
  <2> HIDE DEF c
  <2>1. QED
    BY <1>1, <1>3, EditKeepsWhole
<1>5. Whole(h) /\ Guids(h) \subseteq Guids(g) \cup NewGuids(c) /\ h.from = g.from
  BY <1>4 DEF KeepsWhole
<1>6. ASSUME NEW u \in Tools, then[u] \in Loading, PutsIn(job.plan[u].change)
      PROVE  job.plan[u].change.after \notin Guids(h)
  <2>1. u # t /\ at[u] \in Loading
    BY <1>6 DEF Later
  <2>2. job.plan[u].change.after \notin Guids(g)
    BY <1>6, <2>1 DEF Sound
  <2>3. job.plan[u].change.after \notin NewGuids(c)
    <3>1. PutsIn(c) => job.plan[u].change.after # c.after
      BY <1>6, <2>1 DEF GuidsAreNew
    <3>2. QED
      BY <3>1 DEF NewGuids, PutsIn
  <2>4. QED
    BY <1>5, <2>2, <2>3
<1> HIDE DEF h
<1>7. Sound(job.plan, then, h)
  BY <1>5, <1>6 DEF Sound
<1>8. QED
  BY <1>5, <1>7 DEF h

------------------------------------------------------------------------------
(* The steps. *)

LEMMA WentTo ==
  ASSUME Typed, NEW t \in Tools, NEW l, Goto(t, l)
  PROVE  /\ \A u \in Tools : pc'[u] = IF u = t THEN l ELSE pc[u]
         /\ pc' = [u \in Tools |-> pc'[u]]
BY DEF Typed, Goto

\* A step that goes on to l, and may remove the name.
GoesTo(t, l) ==
  /\ Goto(t, l)
  /\ dir' \in {dir, None}
  /\ UNCHANGED <<plan, file, ino, got, want, old, fab, cut>>
  /\ l \notin Loading \cup {"head", "body", "close"}
  /\ l \in Early => pc[t] \in Early
  /\ l \in Storing => pc[t] \in Storing
  /\ l = "done" => pc[t] = "close"

LEMMA GoesToKeeps ==
  ASSUME IInv, NEW t \in Tools, NEW l, GoesTo(t, l)
  PROVE  IInv'
<1> USE DEF IInv
<1>1. /\ \A u \in Tools : pc'[u] = IF u = t THEN l ELSE pc[u]
      /\ pc' = [u \in Tools |-> pc'[u]]
  BY WentTo DEF GoesTo
<1>2. /\ plan' = plan /\ file' = file /\ ino' = ino /\ got' = got /\ want' = want /\ old' = old
      /\ fab' = fab /\ cut' = cut /\ dir' \in {dir, None}
      /\ l \notin Loading \cup {"head", "body", "close"}
      /\ l \in Early => pc[t] \in Early
      /\ l \in Storing => pc[t] \in Storing
      /\ l = "done" => pc[t] = "close"
  BY DEF GoesTo
<1>3. \A u \in Tools : /\ pc'[u] \in Loading \cup {"head", "body", "close"} => pc'[u] = pc[u]
                       /\ pc'[u] \in Early => pc[u] \in Early
                       /\ pc'[u] \in Storing => pc[u] \in Storing
                       /\ pc'[u] = "done" => pc[u] \in {"close", "done"}
  BY <1>1, <1>2
<1>4. Later(pc, pc')
  BY <1>3 DEF Later
<1>5. Typed'
  BY <1>1, <1>2 DEF Typed
<1>6. Aside'
  BY <1>2, <1>3, FabricCacheAssumption DEF Aside, Files
<1>7. Unloaded'
  BY <1>2, <1>3 DEF Unloaded, Loading
<1>8. Reading'
  <2> SUFFICES ASSUME NEW u \in Tools, pc'[u] = "items"
               PROVE  Taken(plan', pc', fab'[ino'[u]], want'[u], got'[u])
    BY DEF Reading
  <2>1. Taken(plan, pc, fab[ino[u]], want[u], got[u])
    BY <1>3 DEF Reading, Loading
  <2>2. QED
    BY <1>2, <1>4, <2>1, TakenStays
<1>9. Remembered'
  BY <1>2 DEF Remembered
<1>10. InHand'
  <2> SUFFICES ASSUME NEW u \in Tools, pc'[u] \in Storing PROVE Sound(plan', pc', fab'[u])
    BY DEF InHand
  <2>1. Sound(plan, pc, fab[u])
    BY <1>3 DEF InHand
  <2>2. QED
    BY <1>2, <1>4, <2>1, SoundStays
<1>11. Stored'
  <2>1. ASSUME NEW i \in Files PROVE file'[i] = Empty \/ Written(plan', pc', file'[i], fab'[i])
    BY <1>2, <1>4, WrittenStays DEF Stored
  <2>2. ASSUME NEW u \in Tools, pc'[u] \in {"body", "close"}
        PROVE  Written(plan', pc', file'[u], fab'[u])
    BY <1>2, <1>3, <1>4, <2>2, WrittenStays DEF Stored
  <2>3. QED
    BY <2>1, <2>2 DEF Stored
<1>12. Finished'
  BY <1>2, <1>3 DEF Finished
<1>13. QED
  BY <1>5, <1>6, <1>7, <1>8, <1>9, <1>10, <1>11, <1>12

LEMMA OpenReadKeeps ==
  ASSUME IInv, NEW t \in Tools, OpenRead(t)
  PROVE  IInv'
<1> USE DEF IInv
<1>1. CASE dir = None
  <2>1. GoesTo(t, "failed")
    BY <1>1 DEF OpenRead, GoesTo, Loading, Early, Storing
  <2>2. QED
    BY <2>1, GoesToKeeps
<1>2. CASE dir # None
  <2>1. /\ pc[t] = "open" /\ Goto(t, "header") /\ ino' = [ino EXCEPT ![t] = dir]
        /\ plan' = plan /\ dir' = dir /\ file' = file /\ got' = got /\ want' = want
        /\ old' = old /\ fab' = fab /\ cut' = cut
    BY <1>2 DEF OpenRead
  <2>2. /\ \A u \in Tools : pc'[u] = IF u = t THEN "header" ELSE pc[u]
        /\ pc' = [u \in Tools |-> pc'[u]]
    BY <2>1, WentTo
  <2>3. dir \in Files /\ \A u \in Tools : ino'[u] = IF u = t THEN dir ELSE ino[u]
    BY <1>2, <2>1 DEF Typed
  <2>4. \A u \in Tools : /\ pc'[u] \in Loading <=> pc[u] \in Loading
                         /\ pc'[u] \in Early <=> pc[u] \in Early
                         /\ u # t => pc'[u] = pc[u]
    BY <2>1, <2>2 DEF Loading, Early
  <2>5. Later(pc, pc')
    BY <2>4 DEF Later
  <2>6. Typed'
    BY <2>1, <2>2, <2>3 DEF Typed
  <2>7. Aside'
    <3> SUFFICES ASSUME NEW u \in Tools
                 PROVE  /\ pc'[u] \in Early \cup {"head"} => file'[u] = Empty
                        /\ pc'[u] \in Early => dir' # u /\ \A v \in Tools : ino'[v] # u
      BY DEF Aside
    <3>1. pc'[u] \in Early \cup {"head"} => file'[u] = Empty
      BY <2>1, <2>2, <2>4 DEF Aside, Early, Loading
    <3>2. ASSUME pc'[u] \in Early PROVE dir' # u /\ \A v \in Tools : ino'[v] # u
      BY <2>1, <2>3, <2>4, <3>2 DEF Aside
    <3>3. QED
      BY <3>1, <3>2
  <2>8. Unloaded'
    BY <2>1, <2>2, <2>3 DEF Unloaded, Loading
  <2>9. Reading'
    <3> SUFFICES ASSUME NEW u \in Tools, pc'[u] = "items"
                 PROVE  Taken(plan', pc', fab'[ino'[u]], want'[u], got'[u])
      BY DEF Reading
    <3>1. u # t /\ pc[u] = "items" /\ ino'[u] = ino[u]
      BY <2>2, <2>3
    <3>2. Taken(plan, pc, fab[ino[u]], want[u], got[u])
      BY <3>1 DEF Reading
    <3>3. QED
      BY <2>1, <2>5, <3>1, <3>2, TakenStays
  <2>10. Remembered'
    <3>1. old[t] = None
      BY <2>1 DEF Unloaded, Loading
    <3>2. QED
      BY <2>1, <2>3, <3>1 DEF Remembered
  <2>11. InHand'
    BY <2>1, <2>2, <2>5, SoundStays DEF InHand, Storing
  <2>12. Stored'
    BY <2>1, <2>2, <2>5, WrittenStays DEF Stored
  <2>13. Finished'
    BY <2>1, <2>2 DEF Finished
  <2>14. QED
    BY <2>6, <2>7, <2>8, <2>9, <2>10, <2>11, <2>12, <2>13
<1>3. QED
  BY <1>1, <1>2

LEMMA ReadHeaderKeeps ==
  ASSUME IInv, NEW t \in Tools, ReadHeader(t)
  PROVE  IInv'
<1> USE DEF IInv
<1> DEFINE h == file[ino[t]].header
<1>1. CASE h = None
  <2>1. GoesTo(t, "failed")
    BY <1>1 DEF ReadHeader, GoesTo, Loading, Early, Storing, Opened
  <2>2. QED
    BY <2>1, GoesToKeeps
<1>2. CASE h # None
  <2>1. /\ pc[t] = "header" /\ Goto(t, "items") /\ want' = [want EXCEPT ![t] = h]
        /\ plan' = plan /\ dir' = dir /\ file' = file /\ got' = got /\ ino' = ino
        /\ old' = old /\ fab' = fab /\ cut' = cut
    BY <1>2 DEF ReadHeader, Opened
  <2>2. /\ \A u \in Tools : pc'[u] = IF u = t THEN "items" ELSE pc[u]
        /\ pc' = [u \in Tools |-> pc'[u]]
    BY <2>1, WentTo
  <2>3. \A u \in Tools : want'[u] = IF u = t THEN h ELSE want[u]
    BY <2>1 DEF Typed
  <2>4. \A u \in Tools : /\ pc'[u] \in Loading <=> pc[u] \in Loading
                         /\ pc'[u] \in Early <=> pc[u] \in Early
                         /\ u # t => pc'[u] = pc[u]
    BY <2>1, <2>2 DEF Loading, Early
  <2>5. Later(pc, pc')
    BY <2>4 DEF Later
  <2>6. Typed'
    BY <2>1, <2>2, <2>3 DEF Typed
  <2>7. Aside'
    <3>1. \A u \in Tools : pc'[u] = "head" <=> pc[u] = "head"
      BY <2>1, <2>2
    <3>2. QED
      BY <2>1, <2>4, <3>1 DEF Aside
  <2>8. Unloaded'
    BY <2>1, <2>2 DEF Unloaded, Loading
  <2>9. Reading'
    <3>1. Taken(plan, pc, fab[ino[t]], h, got[t])
      <4> DEFINE f == fab[ino[t]]
      <4>1. ino[t] \in Files /\ got[t] = <<>>
        BY <2>1 DEF Unloaded
      <4>2. Written(plan, pc, file[ino[t]], f)
        BY <1>2, <4>1 DEF Stored, Empty
      <4>3. /\ Sound(plan, pc, f) /\ f.from # 0 /\ Whole(f)
            /\ h \in {FirstHeader(f), Header(f)}
        BY <4>2 DEF Written, Sound
      <4> HIDE DEF f, h
      <4>4. PICK S : Items(f) \in Seq(S)
        BY <4>3, ItemsSeq
      <4>5. Begins(<<>>, Items(f))
        BY <4>4, BeginsWithNothing
      <4>6. h.nodes \in Nat /\ h.ports \in Nat
        BY <4>3, HeaderCounts
      <4>7. Len(<<>>) <= h.nodes + h.ports
        BY <4>6
      <4>8. Taken(plan, pc, f, h, <<>>)
        BY <4>3, <4>5, <4>7 DEF Taken
      <4>9. QED
        BY <4>1, <4>8 DEF f
    <3> SUFFICES ASSUME NEW u \in Tools, pc'[u] = "items"
                 PROVE  Taken(plan', pc', fab'[ino'[u]], want'[u], got'[u])
      BY DEF Reading
    <3>2. Taken(plan, pc, fab[ino[u]], want'[u], got[u])
      <4>1. CASE u = t
        BY <2>3, <3>1, <4>1
      <4>2. CASE u # t
        BY <2>2, <2>3, <4>2 DEF Reading
      <4>3. QED
        BY <4>1, <4>2
    <3>3. QED
      BY <2>1, <2>5, <3>2, TakenStays
  <2>10. Remembered'
    BY <2>1 DEF Remembered
  <2>11. InHand'
    BY <2>1, <2>2, <2>5, SoundStays DEF InHand, Storing
  <2>12. Stored'
    BY <2>1, <2>2, <2>5, WrittenStays DEF Stored
  <2>13. Finished'
    BY <2>1, <2>2 DEF Finished
  <2>14. QED
    BY <2>6, <2>7, <2>8, <2>9, <2>10, <2>11, <2>12, <2>13
<1>3. QED
  BY <1>1, <1>2

LEMMA TakeItemKeeps ==
  ASSUME IInv, NEW t \in Tools, TakeItem(t)
  PROVE  IInv'
<1> USE DEF IInv
<1>1. CASE ReadsShort(t)
  <2>1. GoesTo(t, "failed")
    BY <1>1 DEF TakeItem, GoesTo, Loading, Early, Storing
  <2>2. QED
    BY <2>1, GoesToKeeps
<1>2. CASE ~ReadsShort(t)
  <2> DEFINE b == file[ino[t]].body
             g == got[t]
             x == Append(g, b[Len(g) + 1])
             f == fab[ino[t]]
             h == want[t]
  <2>1. /\ pc[t] = "items" /\ got' = [got EXCEPT ![t] = x] /\ pc' = pc
        /\ plan' = plan /\ dir' = dir /\ file' = file /\ want' = want /\ ino' = ino
        /\ old' = old /\ fab' = fab /\ cut' = cut
        /\ ~(Len(g) >= Len(b)) /\ Len(g) < h.nodes + h.ports
    BY <1>2 DEF TakeItem, ReadsShort, Opened, Missing
  <2>2. \A u \in Tools : got'[u] = IF u = t THEN x ELSE got[u]
    BY <2>1 DEF Typed
  <2>3. Typed'
    BY <2>1, <2>2 DEF Typed
  <2>4. Taken(plan, pc, f, h, x)
    <3>1. Taken(plan, pc, f, h, g) /\ ino[t] \in Files
      BY <2>1 DEF Reading, Unloaded
    <3>2. /\ Sound(plan, pc, f) /\ f.from # 0 /\ Whole(f)
          /\ h \in {FirstHeader(f), Header(f)} /\ Begins(g, Items(f))
      BY <3>1 DEF Taken, Sound
    <3>3. PICK S : Items(f) \in Seq(S)
      BY <3>2, ItemsSeq
    <3> HIDE DEF g, f, h
    <3>4. Len(g) \in Nat
      BY <3>2, <3>3, BeginningIs
    <3>5. Begins(b, Items(f))
      <4>1. file[ino[t]] # Empty
        <5>1. Len(<<>>) = 0
          OBVIOUS
        <5>2. QED
          BY <2>1, <3>4, <5>1 DEF Empty
      <4>2. Written(plan, pc, file[ino[t]], f)
        BY <3>1, <4>1 DEF Stored, f
      <4>3. QED
        BY <4>2 DEF Written
    <3> HIDE DEF b
    <3>6. Len(b) \in Nat
      BY <3>3, <3>5, BeginningIs
    <3>7. b[Len(g) + 1] = Items(f)[Len(g) + 1] /\ Len(g) < Len(Items(f))
      BY <2>1, <3>3, <3>4, <3>5, <3>6, NextOfBeginning
    <3>8. Begins(x, Items(f)) /\ Len(x) = Len(g) + 1
      BY <3>2, <3>3, <3>7, BeginningGrows
    <3>9. h.nodes \in Nat /\ h.ports \in Nat
      BY <3>2, HeaderCounts
    <3>10. Len(x) <= h.nodes + h.ports
      BY <2>1, <3>4, <3>8, <3>9
    <3> HIDE DEF x
    <3>11. QED
      BY <3>2, <3>8, <3>10 DEF Taken
  <2> HIDE DEF x
  <2>5. Reading'
    <3> SUFFICES ASSUME NEW u \in Tools, pc'[u] = "items"
                 PROVE  Taken(plan', pc', fab'[ino'[u]], want'[u], got'[u])
      BY DEF Reading
    <3>1. CASE u = t
      BY <2>1, <2>2, <2>4, <3>1
    <3>2. CASE u # t
      BY <2>1, <2>2, <3>2 DEF Reading
    <3>3. QED
      BY <3>1, <3>2
  <2>6. Unloaded'
    BY <2>1, <2>2 DEF Unloaded
  <2>7. Aside' /\ Remembered' /\ InHand' /\ Stored' /\ Finished'
    BY <2>1 DEF Aside, Remembered, InHand, Stored, Finished
  <2>8. QED
    BY <2>3, <2>5, <2>6, <2>7
<1>3. QED
  BY <1>1, <1>2

\* What a tool has read to the end is what was stored.
LEMMA ReadToTheEnd ==
  ASSUME IInv, NEW t \in Tools, pc[t] = "items", ~Missing(t), Readable(got[t], want[t])
  PROVE  /\ Sound(plan, pc, fab[ino[t]]) /\ fab[ino[t]].from # 0
         /\ Loaded(got[t], want[t]) = Copy(fab[ino[t]])
<1> DEFINE f == fab[ino[t]]
           h == want[t]
           g == got[t]
<1>1. Taken(plan, pc, f, h, g)
  BY DEF IInv, Reading
<1>2. Len(g) >= h.nodes + h.ports
  <2>1. ~(Len(g) < h.nodes + h.ports)
    BY DEF Missing
  <2> HIDE DEF f, h, g
  <2>2. /\ Whole(f) /\ h \in {FirstHeader(f), Header(f)} /\ Begins(g, Items(f))
    BY <1>1 DEF Taken, Sound
  <2>3. PICK S : Items(f) \in Seq(S)
    BY <2>2, ItemsSeq
  <2>4. Len(g) \in Nat
    BY <2>2, <2>3, BeginningIs
  <2>5. h.nodes \in Nat /\ h.ports \in Nat
    BY <2>2, HeaderCounts
  <2>6. QED
    BY <2>1, <2>4, <2>5
<1>3. Readable(g, h)
  OBVIOUS
<1> HIDE DEF f, h, g
<1>4. /\ Sound(plan, pc, f) /\ f.from # 0 /\ Whole(f) /\ Begins(g, Items(f))
      /\ h \in {FirstHeader(f), Header(f)} /\ Len(g) <= h.nodes + h.ports
  BY <1>1 DEF Taken, Sound
<1>5. PICK S : Items(f) \in Seq(S)
  BY <1>4, ItemsSeq
<1>6. h = Header(f)
  <2>1. SUFFICES ASSUME h = FirstHeader(f) PROVE FALSE
    BY <1>4
  <2>2. h.nodes = 0 /\ h.ports = 0
    BY <2>1 DEF FirstHeader
  <2>3. g \in Seq(S) /\ Len(g) = 0
    BY <1>4, <1>5, <2>2, BeginningIs
  <2>4. g = <<>>
    BY <2>3
  <2>5. QED
    BY <1>3, <2>1, <2>4, NothingIsUnreadable
<1>7. h.nodes + h.ports = Len(Items(f))
  BY <1>4, <1>6, ItemsAre DEF Header
<1>8. g = Items(f)
  BY <1>2, <1>4, <1>5, <1>7, BeginningIs
<1>9. Loaded(g, h) = Copy(f)
  BY <1>4, <1>6, <1>8, RoundTrip
<1>10. QED
  BY <1>4, <1>9 DEF f, g, h

\* The end of a load: l is where the tool goes on, f what it has loaded, g what it has
\* in hand.
Uses(t, l, f, g) ==
  /\ pc[t] = "items" /\ Goto(t, l)
  /\ l \in {"stat", "done", "failed", "killed"}
  /\ l = "stat" => Sound(plan, pc', g)
  /\ l = "done" => ~plan[t].store
  /\ View(f) = View(Kept(fab[ino[t]]))
  /\ old' = [old EXCEPT ![t] = f] /\ fab' = [fab EXCEPT ![t] = g]
  /\ UNCHANGED <<plan, dir, file, ino, got, want, cut>>

LEMMA UsesKeeps ==
  ASSUME IInv, NEW t \in Tools, NEW l, NEW f, NEW g, Uses(t, l, f, g)
  PROVE  IInv'
<1> USE DEF IInv
<1>1. /\ pc[t] = "items" /\ l \in {"stat", "done", "failed", "killed"}
      /\ plan' = plan /\ dir' = dir /\ file' = file /\ ino' = ino /\ got' = got
      /\ want' = want /\ cut' = cut
  BY DEF Uses
<1>2. /\ \A u \in Tools : pc'[u] = IF u = t THEN l ELSE pc[u]
      /\ pc' = [u \in Tools |-> pc'[u]]
  BY WentTo DEF Uses
<1>3. /\ t \in Files /\ Initial # t
      /\ \A u \in Tools : old'[u] = IF u = t THEN f ELSE old[u]
      /\ \A i \in Files : fab'[i] = IF i = t THEN g ELSE fab[i]
      /\ old' = [u \in Tools |-> old'[u]] /\ fab' = [i \in Files |-> fab'[i]]
  BY FabricCacheAssumption DEF Uses, Typed, Files
<1>4. \A u \in Tools : /\ pc'[u] \in Loading => u # t /\ pc'[u] = pc[u]
                       /\ pc'[u] \in Early => pc[u] \in Early
                       /\ pc'[u] \in {"head", "body", "close"} => u # t /\ pc'[u] = pc[u]
  BY <1>1, <1>2 DEF Loading, Early
<1>5. Later(pc, pc')
  BY <1>4 DEF Later
<1>6. /\ file[t] = Empty /\ dir # t /\ \A u \in Tools : ino[u] # t
  BY <1>1 DEF Aside, Early, Loading
<1>7. Typed'
  BY <1>1, <1>2, <1>3 DEF Typed
<1>8. Aside'
  BY <1>1, <1>4 DEF Aside
<1>9. Unloaded'
  <2> SUFFICES ASSUME NEW u \in Tools
               PROVE  /\ pc'[u] \in Loading => fab'[u] = plan'[u].scan /\ old'[u] = None
                      /\ pc'[u] \in {"open", "header"} => got'[u] = <<>>
                      /\ pc'[u] \in {"header", "items"} => ino'[u] \in Files
    BY DEF Unloaded
  <2>1. u \in Files
    BY DEF Files
  <2>2. QED
    BY <1>1, <1>2, <1>3, <2>1 DEF Unloaded, Loading
<1>10. Reading'
  <2> SUFFICES ASSUME NEW u \in Tools, pc'[u] = "items"
               PROVE  Taken(plan', pc', fab'[ino'[u]], want'[u], got'[u])
    BY DEF Reading
  <2>1. u # t /\ pc[u] = "items" /\ ino[u] \in Files /\ ino[u] # t
    BY <1>4, <1>6 DEF Loading, Unloaded
  <2>2. Taken(plan, pc, fab[ino[u]], want[u], got[u])
    BY <2>1 DEF Reading
  <2>3. QED
    BY <1>1, <1>3, <1>5, <2>1, <2>2, TakenStays
<1>11. Remembered'
  <2> SUFFICES ASSUME NEW u \in Tools, old'[u] # None
               PROVE  ino'[u] \in Files /\ View(old'[u]) = View(Kept(fab'[ino'[u]]))
    BY DEF Remembered
  <2>1. ino[u] \in Files /\ View(old'[u]) = View(Kept(fab[ino[u]]))
    <3>1. CASE u = t
      BY <1>1, <1>3, <3>1 DEF Uses, Unloaded
    <3>2. CASE u # t
      BY <1>3, <3>2 DEF Remembered
    <3>3. QED
      BY <3>1, <3>2
  <2>2. fab'[ino[u]] = fab[ino[u]]
    BY <1>3, <1>6, <2>1
  <2>3. QED
    BY <1>1, <2>1, <2>2
<1>12. InHand'
  <2> SUFFICES ASSUME NEW u \in Tools, pc'[u] \in Storing PROVE Sound(plan', pc', fab'[u])
    BY DEF InHand
  <2>1. CASE u = t
    <3>1. l = "stat"
      BY <1>1, <1>2, <2>1 DEF Storing
    <3>2. QED
      BY <1>1, <1>3, <2>1, <3>1 DEF Uses
  <2>2. CASE u # t
    <3>1. Sound(plan, pc, fab[u]) /\ fab'[u] = fab[u]
      BY <1>2, <1>3, <2>2 DEF InHand, Files
    <3>2. QED
      BY <1>1, <1>5, <3>1, SoundStays
  <2>3. QED
    BY <2>1, <2>2
<1>13. Stored'
  <2>1. ASSUME NEW i \in Files PROVE file'[i] = Empty \/ Written(plan', pc', file'[i], fab'[i])
    <3>1. CASE i = t
      BY <1>1, <1>6, <3>1 DEF Empty
    <3>2. CASE i # t
      <4>1. file[i] = Empty \/ Written(plan, pc, file[i], fab[i])
        BY DEF Stored
      <4>2. QED
        BY <1>1, <1>3, <1>5, <3>2, <4>1, WrittenStays DEF Empty
    <3>3. QED
      BY <3>1, <3>2
  <2>2. ASSUME NEW u \in Tools, pc'[u] \in {"body", "close"}
        PROVE  Written(plan', pc', file'[u], fab'[u])
    <3>1. u # t /\ Written(plan, pc, file[u], fab[u])
      BY <1>4, <2>2 DEF Stored
    <3>2. fab'[u] = fab[u]
      BY <1>3, <3>1 DEF Files
    <3>3. QED
      BY <1>1, <1>5, <3>1, <3>2, WrittenStays
  <2>3. QED
    BY <2>1, <2>2 DEF Stored
<1>14. Finished'
  <2> SUFFICES ASSUME NEW u \in Tools
               PROVE  /\ pc'[u] = "close" => Complete(file'[u], fab'[u])
                      /\ pc'[u] = "done" /\ plan'[u].store /\ u \notin cut' => Complete(file'[u], fab'[u])
    BY DEF Finished
  <2>1. CASE u = t
    BY <1>1, <1>2, <2>1 DEF Uses
  <2>2. CASE u # t
    <3>1. fab'[u] = fab[u] /\ pc'[u] = pc[u]
      BY <1>2, <1>3, <2>2 DEF Files
    <3>2. QED
      BY <1>1, <3>1 DEF Finished
  <2>3. QED
    BY <2>1, <2>2
<1>15. QED
  BY <1>7, <1>8, <1>9, <1>10, <1>11, <1>12, <1>13, <1>14

LEMMA UseKeeps ==
  ASSUME GuidsAreNew, IInv, NEW t \in Tools, Use(t)
  PROVE  IInv'
<1> DEFINE f == Loaded(got[t], want[t])
           s == fab[ino[t]]
<1>1. CASE ~Readable(got[t], want[t])
  <2>1. GoesTo(t, "failed")
    BY <1>1 DEF Use, GoesTo, Loading, Early, Storing
  <2>2. QED
    BY <2>1, GoesToKeeps
<1>2. CASE Readable(got[t], want[t])
  <2>1. pc[t] = "items" /\ ~Missing(t)
    BY DEF Use
  <2>2. Sound(plan, pc, s) /\ s.from # 0 /\ f = Copy(s)
    BY <1>2, <2>1, ReadToTheEnd
  <2>3. /\ View(f) = View(Kept(s))
        /\ Whole(f) /\ Guids(f) \subseteq Guids(s) /\ f.from # 0
    BY <2>2, RoundTrip, CopyIsWhole DEF Sound
  <2>4. PICK job \in Jobs : plan = job.plan
    BY DEF IInv, Typed
  <2>5. IsPlan(plan[t])
    BY <2>4, FabricCacheAssumption
  <2>6. /\ plan' = plan /\ dir' = dir /\ file' = file /\ ino' = ino /\ got' = got /\ want' = want
        /\ cut' = cut /\ old' = [old EXCEPT ![t] = f]
    BY <1>2 DEF Use
  <2>7. \A l : Goto(t, l) /\ l \notin Loading => Later(pc, pc')
    BY WentTo DEF IInv, Later
  <2>8. After(t) \in {"stat", "done"} /\ (After(t) = "done" => ~plan[t].store)
        /\ (After(t) = "stat" => plan[t].store)
    BY DEF After
  <2>9. CASE plan[t].diff # None
    <3>1. fab' = fab /\ (Goto(t, "killed") \/ Goto(t, After(t)))
      BY <1>2, <2>9 DEF Use
    <3>2. fab' = [fab EXCEPT ![t] = fab[t]] /\ fab[t] = plan[t].scan
      BY <2>1, <3>1 DEF IInv, Typed, Unloaded, Loading, Files
    <3>3. plan[t].store => plan[t].scan # None
      BY <2>5, <2>9 DEF IsPlan
    <3>4. After(t) = "stat" => Sound(plan, pc', fab[t])
      BY <2>4, <2>8, <3>2, <3>3, ScanIsSound
    <3> HIDE DEF f, s
    <3>5. Uses(t, "killed", f, fab[t]) \/ Uses(t, After(t), f, fab[t])
      BY <2>1, <2>3, <2>6, <2>8, <3>1, <3>2, <3>4 DEF Uses, s
    <3>6. QED
      BY <3>5, UsesKeeps
  <2>10. CASE plan[t].diff = None /\ plan[t].change # None
    <3> DEFINE h == Edit(f, plan[t].change)
    <3>1. fab' = [fab EXCEPT ![t] = h] /\ (Goto(t, "failed") \/ Goto(t, After(t)))
      BY <1>2, <2>10 DEF Use
    <3>2. ASSUME NEW l \in {"failed", "stat", "done"}, Goto(t, l) PROVE Sound(plan, pc', h)
      <4>1. Later(pc, pc') /\ pc'[t] = l /\ pc'[t] \notin Loading /\ pc[t] \in Loading
        BY <2>1, <2>7, <3>2, WentTo DEF IInv, Loading
      <4> HIDE DEF f, s
      <4>2. QED
        BY <2>2, <2>3, <2>4, <2>10, <4>1, EditIsSound
    <3>3. After(t) = "stat" /\ Goto(t, After(t)) => Sound(plan, pc', h)
      BY <3>2
    <3> HIDE DEF f, s, h
    <3>4. Uses(t, "failed", f, h) \/ Uses(t, After(t), f, h)
      BY <2>1, <2>3, <2>6, <2>8, <3>1, <3>3 DEF Uses, s
    <3>5. QED
      BY <3>4, UsesKeeps
  <2>11. CASE plan[t].diff = None /\ plan[t].change = None
    <3>1. fab' = [fab EXCEPT ![t] = f] /\ Goto(t, After(t))
      BY <1>2, <2>11 DEF Use
    <3>2. Sound(plan, pc', f)
      <4>1. Later(pc, pc')
        BY <2>7, <2>8, <3>1 DEF Loading
      <4> HIDE DEF f, s
      <4>2. Sound(plan, pc, f)
        BY <2>2, <2>3 DEF Sound
      <4>3. QED
        BY <4>1, <4>2, SoundStays
    <3> HIDE DEF f, s
    <3>3. Uses(t, After(t), f, f)
      BY <2>1, <2>3, <2>6, <2>8, <3>1, <3>2 DEF Uses, s
    <3>4. QED
      BY <3>3, UsesKeeps
  <2>12. QED
    BY <2>9, <2>10, <2>11
<1>3. QED
  BY <1>1, <1>2

LEMMA CreateKeeps ==
  ASSUME IInv, NEW t \in Tools, Create(t)
  PROVE  IInv'
<1> USE DEF IInv
<1>1. CASE dir # None
  <2>1. GoesTo(t, "failed")
    BY <1>1 DEF Create, GoesTo, Loading, Early, Storing, load_vars
  <2>2. QED
    BY <2>1, GoesToKeeps
<1>2. CASE dir = None
  <2>1. /\ pc[t] = "create" /\ Goto(t, "head") /\ dir' = t
        /\ plan' = plan /\ file' = file /\ ino' = ino /\ got' = got /\ want' = want
        /\ old' = old /\ fab' = fab /\ cut' = cut
    BY <1>2 DEF Create, load_vars
  <2>2. /\ \A u \in Tools : pc'[u] = IF u = t THEN "head" ELSE pc[u]
        /\ pc' = [u \in Tools |-> pc'[u]]
    BY <2>1, WentTo
  <2>3. Later(pc, pc')
    BY <2>2 DEF Later, Loading
  <2>4. Typed'
    BY <2>1, <2>2 DEF Typed, Files
  <2>5. Aside'
    <3> SUFFICES ASSUME NEW u \in Tools
                 PROVE  /\ pc'[u] \in Early \cup {"head"} => file'[u] = Empty
                        /\ pc'[u] \in Early => dir' # u /\ \A v \in Tools : ino'[v] # u
      BY DEF Aside
    <3>1. CASE u = t
      BY <2>1, <2>2, <3>1 DEF Aside, Early, Loading
    <3>2. CASE u # t
      BY <2>1, <2>2, <3>2 DEF Aside
    <3>3. QED
      BY <3>1, <3>2
  <2>6. Unloaded'
    BY <2>1, <2>2 DEF Unloaded, Loading
  <2>7. Reading'
    <3> SUFFICES ASSUME NEW u \in Tools, pc'[u] = "items"
                 PROVE  Taken(plan', pc', fab'[ino'[u]], want'[u], got'[u])
      BY DEF Reading
    <3>1. Taken(plan, pc, fab[ino[u]], want[u], got[u])
      BY <2>2 DEF Reading
    <3>2. QED
      BY <2>1, <2>3, <3>1, TakenStays
  <2>8. Remembered'
    BY <2>1 DEF Remembered
  <2>9. InHand'
    BY <2>1, <2>2, <2>3, SoundStays DEF InHand, Storing
  <2>10. Stored'
    BY <2>1, <2>2, <2>3, WrittenStays DEF Stored
  <2>11. Finished'
    BY <2>1, <2>2 DEF Finished
  <2>12. QED
    BY <2>4, <2>5, <2>6, <2>7, <2>8, <2>9, <2>10, <2>11
<1>3. QED
  BY <1>1, <1>2

\* A step that puts c in the file of the tool, which it has created.
Writes(t, l, c) ==
  /\ pc[t] \in {"head", "body"} /\ l \in {"body", "close"}
  /\ Goto(t, l)
  /\ c = [header |-> c.header, body |-> c.body]
  /\ Written(plan, pc, c, fab[t])
  /\ l = "close" => Complete(c, fab[t])
  /\ file' = [file EXCEPT ![t] = c]
  /\ UNCHANGED <<plan, dir, ino, got, want, old, fab, cut>>

LEMMA WritesKeeps ==
  ASSUME IInv, NEW t \in Tools, NEW l, NEW c, Writes(t, l, c)
  PROVE  IInv'
<1> USE DEF IInv
<1>1. /\ pc[t] \in {"head", "body"} /\ l \in {"body", "close"}
      /\ plan' = plan /\ dir' = dir /\ ino' = ino /\ got' = got /\ want' = want
      /\ old' = old /\ fab' = fab /\ cut' = cut
      /\ Written(plan, pc, c, fab[t]) /\ c = [header |-> c.header, body |-> c.body]
      /\ l = "close" => Complete(c, fab[t])
  BY DEF Writes
<1>2. /\ \A u \in Tools : pc'[u] = IF u = t THEN l ELSE pc[u]
      /\ pc' = [u \in Tools |-> pc'[u]]
  BY WentTo DEF Writes
<1>3. /\ \A i \in Files : file'[i] = IF i = t THEN c ELSE file[i]
      /\ file' = [i \in Files |-> [header |-> file'[i].header, body |-> file'[i].body]]
  <2>1. DOMAIN file = Files /\ \A i \in Files : file[i] = [header |-> file[i].header, body |-> file[i].body]
    BY DEF Typed
  <2>2. file' = [file EXCEPT ![t] = c]
    BY DEF Writes
  <2>3. \A i \in Files : file'[i] = IF i = t THEN c ELSE file[i]
    BY <2>1, <2>2
  <2>4. file' = [i \in Files |-> file'[i]]
    BY <2>1, <2>2
  <2>5. \A i \in Files : file'[i] = [header |-> file'[i].header, body |-> file'[i].body]
    BY <1>1, <2>1, <2>3
  <2>6. QED
    BY <2>3, <2>4, <2>5
<1>4. Later(pc, pc')
  BY <1>1, <1>2 DEF Later, Loading
<1>5. Typed'
  BY <1>1, <1>2, <1>3 DEF Typed
<1>6. Aside'
  <2> SUFFICES ASSUME NEW u \in Tools
               PROVE  /\ pc'[u] \in Early \cup {"head"} => file'[u] = Empty
                      /\ pc'[u] \in Early => dir' # u /\ \A v \in Tools : ino'[v] # u
    BY DEF Aside
  <2>1. CASE u = t
    BY <1>1, <1>2, <2>1 DEF Early, Loading
  <2>2. CASE u # t
    <3>1. u \in Files
      BY DEF Files
    <3>2. file'[u] = file[u] /\ pc'[u] = pc[u]
      BY <1>2, <1>3, <2>2, <3>1
    <3>3. QED
      BY <1>1, <3>2 DEF Aside, Empty
  <2>3. QED
    BY <2>1, <2>2
<1>7. Unloaded'
  BY <1>1, <1>2 DEF Unloaded, Loading
<1>8. Reading'
  <2> SUFFICES ASSUME NEW u \in Tools, pc'[u] = "items"
               PROVE  Taken(plan', pc', fab'[ino'[u]], want'[u], got'[u])
    BY DEF Reading
  <2>1. Taken(plan, pc, fab[ino[u]], want[u], got[u])
    BY <1>1, <1>2 DEF Reading
  <2>2. QED
    BY <1>1, <1>4, <2>1, TakenStays
<1>9. Remembered'
  BY <1>1 DEF Remembered
<1>10. InHand'
  <2> SUFFICES ASSUME NEW u \in Tools, pc'[u] \in Storing PROVE Sound(plan', pc', fab'[u])
    BY DEF InHand
  <2>1. Sound(plan, pc, fab[u])
    BY <1>1, <1>2 DEF InHand, Storing
  <2>2. QED
    BY <1>1, <1>4, <2>1, SoundStays
<1>11. Stored'
  <2>1. ASSUME NEW i \in Files PROVE file'[i] = Empty \/ Written(plan', pc', file'[i], fab'[i])
    <3>1. file'[i] = Empty \/ Written(plan, pc, file'[i], fab[i])
      <4>1. CASE i = t
        BY <1>1, <1>3, <4>1
      <4>2. CASE i # t
        BY <1>3, <4>2 DEF Stored, Empty
      <4>3. QED
        BY <4>1, <4>2
    <3>2. QED
      BY <1>1, <1>4, <3>1, WrittenStays DEF Empty
  <2>2. ASSUME NEW u \in Tools, pc'[u] \in {"body", "close"}
        PROVE  Written(plan', pc', file'[u], fab'[u])
    <3>1. u \in Files
      BY DEF Files
    <3>2. Written(plan, pc, file'[u], fab[u])
      <4>1. CASE u = t
        BY <1>1, <1>3, <3>1, <4>1
      <4>2. CASE u # t
        BY <1>2, <1>3, <2>2, <3>1, <4>2 DEF Stored
      <4>3. QED
        BY <4>1, <4>2
    <3>3. QED
      BY <1>1, <1>4, <3>2, WrittenStays
  <2>3. QED
    BY <2>1, <2>2 DEF Stored
<1>12. Finished'
  <2> SUFFICES ASSUME NEW u \in Tools
               PROVE  /\ pc'[u] = "close" => Complete(file'[u], fab'[u])
                      /\ pc'[u] = "done" /\ plan'[u].store /\ u \notin cut' => Complete(file'[u], fab'[u])
    BY DEF Finished
  <2>1. u \in Files
    BY DEF Files
  <2>2. CASE u = t
    BY <1>1, <1>2, <1>3, <2>1, <2>2
  <2>3. CASE u # t
    <3>1. file'[u] = file[u] /\ pc'[u] = pc[u]
      BY <1>2, <1>3, <2>1, <2>3
    <3>2. QED
      BY <1>1, <3>1 DEF Finished
  <2>4. QED
    BY <2>2, <2>3
<1>13. QED
  BY <1>5, <1>6, <1>7, <1>8, <1>9, <1>10, <1>11, <1>12

LEMMA WriteHeaderKeeps ==
  ASSUME IInv, NEW t \in Tools, WriteHeader(t)
  PROVE  IInv'
<1> DEFINE f == fab[t]
<1>1. CASE f.from = 0
  <2>1. GoesTo(t, "killed")
    BY <1>1 DEF WriteHeader, GoesTo, Loading, Early, Storing, load_vars
  <2>2. QED
    BY <2>1, GoesToKeeps
<1>2. CASE f.from # 0
  <2> DEFINE h == FirstHeader(f)
             c == [header |-> h, body |-> <<>>]
  <2>1. /\ pc[t] = "head" /\ Goto(t, "body")
        /\ file' = [file EXCEPT ![t].header = h]
        /\ UNCHANGED <<plan, dir, ino, got, want, old, fab, cut>>
    BY <1>2 DEF WriteHeader, load_vars
  <2>2. file[t] = Empty
    BY <2>1 DEF IInv, Aside
  <2>3. file' = [file EXCEPT ![t] = c]
    <3>1. [file[t] EXCEPT !.header = h] = c
      <4> HIDE DEF h
      <4>1. QED
        BY <2>2 DEF Empty
    <3> HIDE DEF h, c
    <3>2. QED
      BY <2>1, <3>1
  <2>4. Sound(plan, pc, f) /\ Whole(f)
    BY <2>1 DEF IInv, InHand, Storing, Sound
  <2>5. PICK S : Items(f) \in Seq(S)
    BY <2>4, ItemsSeq
  <2> HIDE DEF f
  <2>6. Begins(<<>>, Items(f))
    BY <2>5, BeginsWithNothing
  <2>7. Written(plan, pc, c, f)
    BY <1>2, <2>4, <2>6 DEF Written
  <2>8. c = [header |-> c.header, body |-> c.body]
    OBVIOUS
  <2> HIDE DEF c
  <2>9. Writes(t, "body", c)
    BY <2>1, <2>3, <2>7, <2>8 DEF Writes, f
  <2>10. QED
    BY <2>9, WritesKeeps
<1>3. QED
  BY <1>1, <1>2

LEMMA PutItemKeeps ==
  ASSUME IInv, NEW t \in Tools, PutItem(t)
  PROVE  IInv'
<1> DEFINE f == fab[t]
           b == file[t].body
           x == Append(b, Items(f)[Len(b) + 1])
           c == [header |-> file[t].header, body |-> x]
<1>1. /\ pc[t] = "body" /\ Len(b) < Len(Items(f)) /\ pc' = pc
      /\ file' = [file EXCEPT ![t].body = x]
      /\ UNCHANGED <<plan, dir, ino, got, want, old, fab, cut>>
  BY DEF PutItem, load_vars
<1>2. Goto(t, "body")
  BY <1>1 DEF Goto, IInv, Typed
<1>3. file[t] = [header |-> file[t].header, body |-> b]
  BY DEF IInv, Typed, Files
<1>4. file' = [file EXCEPT ![t] = c]
  <2> DEFINE h == file[t].header
  <2>1. [file[t] EXCEPT !.body = x] = c
    <3> HIDE DEF x, h, b
    <3>1. QED
      BY <1>3 DEF h
  <2> HIDE DEF x, c
  <2>2. QED
    BY <1>1, <2>1
<1>5. Written(plan, pc, file[t], f)
  BY <1>1 DEF IInv, Stored
<1>6. /\ Sound(plan, pc, f) /\ f.from # 0 /\ Whole(f)
      /\ file[t].header \in {FirstHeader(f), Header(f)} /\ Begins(b, Items(f))
  BY <1>5 DEF Written, Sound
<1>7. PICK S : Items(f) \in Seq(S)
  BY <1>6, ItemsSeq
<1>8. Begins(x, Items(f))
  <2> HIDE DEF f, b
  <2>1. QED
    BY <1>1, <1>6, <1>7, BeginningGrows
<1> HIDE DEF f, x
<1>9. Written(plan, pc, c, f)
  BY <1>6, <1>8 DEF Written
<1>10. c = [header |-> c.header, body |-> c.body]
  OBVIOUS
<1> HIDE DEF c
<1>11. Writes(t, "body", c)
  BY <1>1, <1>2, <1>4, <1>9, <1>10 DEF Writes, f
<1>12. QED
  BY <1>11, WritesKeeps

LEMMA WriteCountsKeeps ==
  ASSUME IInv, NEW t \in Tools, WriteCounts(t)
  PROVE  IInv'
<1> DEFINE f == fab[t]
           b == file[t].body
           h == Header(f)
           c == [header |-> h, body |-> b]
<1>1. /\ pc[t] = "body" /\ Len(b) = Len(Items(f)) /\ Goto(t, "close")
      /\ file' = [file EXCEPT ![t].header = h]
      /\ UNCHANGED <<plan, dir, ino, got, want, old, fab, cut>>
  BY DEF WriteCounts, load_vars
<1>2. file[t] = [header |-> file[t].header, body |-> b]
  BY DEF IInv, Typed, Files
<1>3. file' = [file EXCEPT ![t] = c]
  <2> DEFINE a == file[t].header
  <2>1. [file[t] EXCEPT !.header = h] = c
    <3> HIDE DEF h, b, a
    <3>1. QED
      BY <1>2 DEF a
  <2> HIDE DEF h, c
  <2>2. QED
    BY <1>1, <2>1
<1>4. Written(plan, pc, file[t], f)
  BY <1>1 DEF IInv, Stored
<1>5. /\ Sound(plan, pc, f) /\ f.from # 0 /\ Whole(f) /\ Begins(b, Items(f))
  BY <1>4 DEF Written, Sound
<1>6. PICK S : Items(f) \in Seq(S)
  BY <1>5, ItemsSeq
<1> HIDE DEF f, b
<1>7. b = Items(f)
  BY <1>1, <1>5, <1>6, BeginningIs
<1>8. Written(plan, pc, c, f) /\ Complete(c, f)
  BY <1>5, <1>7 DEF Written, Complete
<1>9. c = [header |-> c.header, body |-> c.body]
  OBVIOUS
<1> HIDE DEF c
<1>10. Writes(t, "close", c)
  BY <1>1, <1>3, <1>8, <1>9 DEF Writes, f
<1>11. QED
  BY <1>10, WritesKeeps

LEMMA CutKeeps ==
  ASSUME IInv, NEW i \in Files, Cut(i)
  PROVE  IInv'
<1> USE DEF IInv
<1>1. /\ plan' = plan /\ dir' = dir /\ ino' = ino /\ got' = got /\ want' = want
      /\ old' = old /\ fab' = fab /\ pc' = pc /\ cut' = cut \cup {i}
      /\ i \in Tools => pc[i] \in {"done", "failed", "killed"}
      /\ \/ file' = [file EXCEPT ![i] = Empty]
         \/ \E left \in 0..Len(file[i].body) :
              file' = [file EXCEPT ![i].body = SubSeq(file[i].body, 1, left)]
  BY DEF Cut, Ended, load_vars
<1>2. PICK c : /\ c = [header |-> c.header, body |-> c.body]
               /\ file' = [file EXCEPT ![i] = c]
               /\ c = Empty \/ Written(plan, pc, c, fab[i])
  <2>1. CASE file' = [file EXCEPT ![i] = Empty]
    BY <2>1 DEF Empty
  <2>2. ASSUME NEW left \in 0..Len(file[i].body),
               file' = [file EXCEPT ![i].body = SubSeq(file[i].body, 1, left)]
        PROVE  \E c : /\ c = [header |-> c.header, body |-> c.body]
                      /\ file' = [file EXCEPT ![i] = c]
                      /\ c = Empty \/ Written(plan, pc, c, fab[i])
    <3> DEFINE b == file[i].body
               h == file[i].header
               x == SubSeq(b, 1, left)
               c == [header |-> h, body |-> x]
               f == fab[i]
    <3>1. file[i] = [header |-> h, body |-> b]
      BY DEF Typed
    <3>2. file' = [file EXCEPT ![i] = c]
      <4>1. [file[i] EXCEPT !.body = x] = c
        <5> HIDE DEF x, h, b
        <5>1. QED
          BY <3>1
      <4> HIDE DEF x, c
      <4>2. QED
        BY <2>2, <4>1 DEF x
    <3>3. c = Empty \/ Written(plan, pc, c, f)
      <4>1. CASE file[i] = Empty
        <5>1. b = <<>> /\ h = None
          BY <4>1 DEF Empty
        <5>2. x = <<>>
          <6>1. left \in 0..Len(<<>>) /\ SubSeq(<<>>, 1, 0) = <<>> /\ Len(<<>>) = 0
            BY <5>1
          <6>2. QED
            BY <5>1, <6>1
        <5> HIDE DEF x, h
        <5>3. QED
          BY <5>1, <5>2 DEF Empty
      <4>2. CASE file[i] # Empty
        <5>1. Written(plan, pc, file[i], f)
          BY <4>2 DEF Stored
        <5>2. /\ Sound(plan, pc, f) /\ f.from # 0 /\ Whole(f)
              /\ h \in {FirstHeader(f), Header(f)} /\ Begins(b, Items(f))
          BY <5>1 DEF Written, Sound
        <5>3. PICK S : Items(f) \in Seq(S)
          BY <5>2, ItemsSeq
        <5> HIDE DEF f, b
        <5>4. left \in 0..Len(b)
          BY DEF b
        <5>5. Begins(x, Items(f))
          BY <5>2, <5>3, <5>4, BeginningIsCut
        <5> HIDE DEF x, h
        <5>6. QED
          BY <5>2, <5>5 DEF Written
      <4>3. QED
        BY <4>1, <4>2
    <3>4. c = [header |-> c.header, body |-> c.body]
      OBVIOUS
    <3> HIDE DEF c
    <3>5. QED
      BY <3>2, <3>3, <3>4
  <2>3. QED
    BY <1>1, <2>1, <2>2
<1>3. /\ \A j \in Files : file'[j] = IF j = i THEN c ELSE file[j]
      /\ file' = [j \in Files |-> [header |-> file'[j].header, body |-> file'[j].body]]
  <2>1. DOMAIN file = Files /\ \A j \in Files : file[j] = [header |-> file[j].header, body |-> file[j].body]
    BY DEF Typed
  <2>2. \A j \in Files : file'[j] = IF j = i THEN c ELSE file[j]
    BY <1>2, <2>1
  <2>3. file' = [j \in Files |-> file'[j]]
    BY <1>2, <2>1
  <2>4. \A j \in Files : file'[j] = [header |-> file'[j].header, body |-> file'[j].body]
    BY <1>2, <2>1, <2>2
  <2>5. QED
    BY <2>2, <2>3, <2>4
<1>4. \A u \in Tools : /\ u \in Files
                       /\ pc[u] \notin {"done", "failed", "killed"} => file'[u] = file[u]
  BY <1>1, <1>3 DEF Files
<1>5. Typed'
  BY <1>1, <1>3 DEF Typed
<1>6. Aside'
  BY <1>1, <1>4 DEF Aside, Early, Loading, Empty
<1>7. Unloaded' /\ Reading' /\ Remembered' /\ InHand'
  BY <1>1 DEF Unloaded, Reading, Remembered, InHand
<1>8. Stored'
  <2>1. ASSUME NEW j \in Files PROVE file'[j] = Empty \/ Written(plan', pc', file'[j], fab'[j])
    BY <1>1, <1>2, <1>3 DEF Stored, Empty
  <2>2. ASSUME NEW u \in Tools, pc'[u] \in {"body", "close"}
        PROVE  Written(plan', pc', file'[u], fab'[u])
    BY <1>1, <1>4, <2>2 DEF Stored
  <2>3. QED
    BY <2>1, <2>2 DEF Stored
<1>9. Finished'
  <2> SUFFICES ASSUME NEW u \in Tools
               PROVE  /\ pc'[u] = "close" => Complete(file'[u], fab'[u])
                      /\ pc'[u] = "done" /\ plan'[u].store /\ u \notin cut' => Complete(file'[u], fab'[u])
    BY DEF Finished
  <2>1. u # i => file'[u] = file[u]
    BY <1>3, <1>4
  <2>2. QED
    BY <1>1, <1>4, <2>1 DEF Finished
<1>10. QED
  BY <1>5, <1>6, <1>7, <1>8, <1>9

LEMMA InitIsInv ==
  ASSUME GuidsAreNew, Init
  PROVE  IInv
<1>1. PICK job \in Jobs :
        /\ plan = job.plan
        /\ dir = IF job.before = None THEN None ELSE Initial
        /\ file = [i \in Tools \cup {Initial} |->
                     IF i = dir THEN [header |-> Header(job.before), body |-> Items(job.before)]
                     ELSE Empty]
        /\ pc = [t \in Tools |-> IF plan[t].load THEN "open" ELSE After(t)]
        /\ ino = [t \in Tools |-> None]
        /\ got = [t \in Tools |-> <<>>]
        /\ want = [t \in Tools |-> None]
        /\ old = [t \in Tools |-> None]
        /\ fab = [t \in Tools \cup {Initial} |-> IF t = Initial THEN job.before ELSE plan[t].scan]
        /\ cut = {}
  BY DEF Init
<1>2. \A t \in Tools : /\ t # Initial /\ t # dir
                       /\ pc[t] = IF plan[t].load THEN "open" ELSE After(t)
                       /\ ino[t] = None /\ got[t] = <<>> /\ old[t] = None
                       /\ file[t] = Empty /\ fab[t] = plan[t].scan
                       /\ None # t
  BY <1>1, FabricCacheAssumption
<1>3. \A t \in Tools : /\ pc[t] \in {"open", "stat", "done"}
                       /\ pc[t] = "stat" => plan[t].store /\ ~plan[t].load
                       /\ pc[t] = "done" => ~plan[t].store
  BY <1>2 DEF After
<1>4. Typed
  <2>1. file = [i \in Files |-> [header |-> file[i].header, body |-> file[i].body]]
    BY <1>1 DEF Files, Empty
  <2>2. dir \in Files \cup {None}
    BY <1>1 DEF Files
  <2>3. QED
    BY <1>1, <2>1, <2>2 DEF Typed, Files
<1>5. Aside
  BY <1>2 DEF Aside
<1>6. Unloaded
  BY <1>2, <1>3 DEF Unloaded
<1>7. Reading
  BY <1>3 DEF Reading
<1>8. Remembered
  BY <1>2 DEF Remembered
<1>9. InHand
  <2> SUFFICES ASSUME NEW t \in Tools, pc[t] \in Storing PROVE Sound(plan, pc, fab[t])
    BY DEF InHand
  <2>1. plan[t].store /\ ~plan[t].load
    BY <1>3 DEF Storing
  <2>2. IsPlan(plan[t])
    BY <1>1, FabricCacheAssumption
  <2>3. plan[t].scan # None
    BY <2>1, <2>2 DEF IsPlan
  <2>4. QED
    BY <1>1, <1>2, <2>3, ScanIsSound
<1>10. Stored
  <2>1. ASSUME NEW i \in Files PROVE file[i] = Empty \/ Written(plan, pc, file[i], fab[i])
    <3>1. CASE i # dir
      BY <1>1, <3>1 DEF Files
    <3>2. CASE i = dir
      <4> DEFINE f == job.before
      <4>1. i = Initial /\ f # None
        BY <1>1, <3>2, FabricCacheAssumption DEF Files
      <4>2. file[i].header = Header(f) /\ file[i].body = Items(f) /\ fab[i] = f
        BY <1>1, <3>2, <4>1
      <4>3. Sound(plan, pc, f) /\ f.from # 0 /\ Whole(f)
        BY <1>1, <4>1, BeforeIsSound DEF Sound
      <4> HIDE DEF f
      <4>4. PICK S : Items(f) \in Seq(S)
        BY <4>3, ItemsSeq
      <4>5. Begins(Items(f), Items(f))
        <5>1. Len(Items(f)) \in 0..Len(Items(f)) /\ Items(f) = SubSeq(Items(f), 1, Len(Items(f)))
          BY <4>4
        <5>2. QED
          BY <5>1 DEF Begins
      <4>6. QED
        BY <4>2, <4>3, <4>5 DEF Written
    <3>3. QED
      BY <3>1, <3>2
  <2>2. QED
    BY <1>3, <2>1 DEF Stored
<1>11. Finished
  BY <1>3 DEF Finished
<1>12. QED
  BY <1>4, <1>5, <1>6, <1>7, <1>8, <1>9, <1>10, <1>11 DEF IInv

LEMMA StepKeepsInv ==
  ASSUME GuidsAreNew, IInv, [Next]_vars
  PROVE  IInv'
<1>1. ASSUME NEW t \in Tools, Load(t) PROVE IInv'
  <2>1. CASE OpenRead(t)
    BY <2>1, OpenReadKeeps
  <2>2. CASE ReadHeader(t)
    BY <2>2, ReadHeaderKeeps
  <2>3. CASE ReadNode(t) \/ ReadPort(t)
    BY <2>3, TakeItemKeeps DEF ReadNode, ReadPort
  <2>4. CASE ReadFails(t)
    <3>1. GoesTo(t, "failed")
      BY <2>4 DEF ReadFails, GoesTo, Loading, Early, Storing, load_vars
    <3>2. QED
      BY <3>1, GoesToKeeps
  <2>5. CASE Use(t)
    BY <2>5, UseKeeps
  <2>6. QED
    BY <1>1, <2>1, <2>2, <2>3, <2>4, <2>5 DEF Load
<1>2. ASSUME NEW t \in Tools, Store(t) PROVE IInv'
  <2>1. CASE Stat(t)
    <3>1. \E l \in {"create", "failed", "unlink"} : GoesTo(t, l)
      BY <2>1 DEF Stat, GoesTo, Loading, Early, Storing, load_vars
    <3>2. QED
      BY <3>1, GoesToKeeps
  <2>2. CASE Unlink(t)
    <3>1. \E l \in {"create", "failed"} : GoesTo(t, l)
      BY <2>2 DEF Unlink, GoesTo, Loading, Early, Storing, load_vars
    <3>2. QED
      BY <3>1, GoesToKeeps
  <2>3. CASE Create(t)
    BY <2>3, CreateKeeps
  <2>4. CASE WriteHeader(t)
    BY <2>4, WriteHeaderKeeps
  <2>5. CASE WriteNode(t) \/ WritePort(t)
    BY <2>5, PutItemKeeps DEF WriteNode, WritePort
  <2>6. CASE WriteCounts(t)
    BY <2>6, WriteCountsKeeps
  <2>7. CASE Close(t)
    <3>1. GoesTo(t, "done")
      BY <2>7 DEF Close, GoesTo, Loading, Early, Storing, load_vars
    <3>2. QED
      BY <3>1, GoesToKeeps
  <2>8. CASE WriteFails(t)
    <3>1. GoesTo(t, "cleanup")
      BY <2>8 DEF WriteFails, GoesTo, Loading, Early, Storing, load_vars
    <3>2. QED
      BY <3>1, GoesToKeeps
  <2>9. CASE Cleanup(t)
    <3>1. GoesTo(t, "failed")
      BY <2>9 DEF Cleanup, GoesTo, Loading, Early, Storing, load_vars
    <3>2. QED
      BY <3>1, GoesToKeeps
  <2>10. QED
    BY <1>2, <2>1, <2>2, <2>3, <2>4, <2>5, <2>6, <2>7, <2>8, <2>9 DEF Store
<1>3. ASSUME NEW t \in Tools, Kill(t) PROVE IInv'
  <2>1. GoesTo(t, "killed")
    BY <1>3 DEF Kill, GoesTo, Loading, Early, Storing, load_vars
  <2>2. QED
    BY <2>1, GoesToKeeps
<1>4. ASSUME NEW i \in Tools \cup {Initial}, Cut(i) PROVE IInv'
  BY <1>4, CutKeeps DEF Files
<1>5. CASE UNCHANGED vars
  BY <1>5 DEF vars, IInv, Typed, Aside, Unloaded, Reading, Remembered, InHand, Stored, Finished
<1>6. QED
  BY <1>1, <1>2, <1>3, <1>4, <1>5 DEF Next

------------------------------------------------------------------------------
(* The comparison of two fabrics. *)

LEMMA NodeWithGuid ==
  ASSUME NEW f, Whole(f), NEW guid
  PROVE  LET n == FindNodeGuid(f, guid)
         IN  IF n = 0 THEN \A m \in 1..Len(f.nodes) : f.nodes[m].guid # guid
             ELSE n \in 1..Len(f.nodes) /\ f.nodes[n].guid = guid
<1> DEFINE N == Len(f.nodes)
           found == {n \in 1..N : f.nodes[n].guid = guid}
<1>1. N \in Nat
  BY WholeTypes
<1>2. CASE found = {}
  BY <1>2 DEF FindNodeGuid
<1>3. CASE found # {}
  <2>1. \E n \in found : \A m \in found : n >= m
    <3>1. found \subseteq 1..N
      OBVIOUS
    <3> HIDE DEF found, N
    <3>2. QED
      BY <1>1, <1>3, <3>1, GreatestNat
  <2>2. FindNodeGuid(f, guid) = CHOOSE n \in found : \A m \in found : n >= m
    BY <1>3 DEF FindNodeGuid
  <2>3. FindNodeGuid(f, guid) \in found
    <3> HIDE DEF found
    <3>1. QED
      BY <2>1, <2>2
  <2>4. FindNodeGuid(f, guid) # 0
    BY <1>1, <2>3
  <2>5. QED
    BY <2>3, <2>4
<1>4. QED
  BY <1>2, <1>3

LEMMA NodeWithItsGuid ==
  ASSUME NEW f, Whole(f), NEW n \in 1..Len(f.nodes)
  PROVE  FindNodeGuid(f, f.nodes[n].guid) = n
<1> DEFINE m == FindNodeGuid(f, f.nodes[n].guid)
<1>1. m \in 1..Len(f.nodes) /\ f.nodes[m].guid = f.nodes[n].guid
  BY NodeWithGuid
<1>2. DOMAIN f.nodes = 1..Len(f.nodes)
  BY WholeTypes
<1>3. QED
  BY <1>1, <1>2 DEF Whole

\* What is at a number of a node, and the place of a port.
LEMMA SlotIs ==
  ASSUME NEW f, Whole(f), NEW n \in 1..Len(f.nodes), NEW k \in 0..Numports(f.nodes[n]),
         f.nodes[n].slots[k] # 0
  PROVE  LET p == f.nodes[n].slots[k]
         IN  p \in Entered(f) /\ f.ports[p].node = n /\ f.ports[p].num = k
<1>1. n \in DOMAIN f.nodes /\ k \in DOMAIN f.nodes[n].slots
  BY WholeTypes, NodeTypes
<1>2. QED
  BY <1>1 DEF Whole

LEMMA PortIs ==
  ASSUME NEW f, Whole(f), NEW p \in Entered(f)
  PROVE  /\ p # 0 /\ p \in 1..Len(f.ports)
         /\ f.ports[p].node \in 1..Len(f.nodes)
         /\ Numports(f.nodes[f.ports[p].node]) \in Nat
         /\ f.ports[p].num \in 0..Numports(f.nodes[f.ports[p].node])
         /\ f.nodes[f.ports[p].node].slots[f.ports[p].num] = p
         /\ f.ports[p].remote \in Entered(f) \cup {0}
<1>1. p # 0 /\ p \in 1..Len(f.ports) /\ DOMAIN f.nodes = 1..Len(f.nodes)
  BY WholeTypes
<1>2. /\ f.ports[p].node \in DOMAIN f.nodes
      /\ f.ports[p].num \in DOMAIN f.nodes[f.ports[p].node].slots
      /\ f.nodes[f.ports[p].node].slots[f.ports[p].num] = p
      /\ f.ports[p].remote \in Entered(f) \cup {0}
  BY DEF Whole
<1> DEFINE node == f.nodes[f.ports[p].node]
<1>3. IsNode(node)
  BY <1>1, <1>2, WholeTypes
<1>4. Numports(node) \in 0..255
  <2> HIDE DEF node
  <2>1. QED
    BY <1>3, NodeTypes
<1>5. Numports(node) \in Nat /\ f.ports[p].num \in 0..Numports(node)
  <2>1. f.ports[p].num \in DOMAIN node.slots
    BY <1>2
  <2> HIDE DEF node
  <2>2. f.ports[p].num \in 0..Numports(node)
    BY <1>3, <2>1, NodeTypes
  <2>3. Numports(node) \in Nat
    BY <1>4
  <2>4. QED
    BY <2>2, <2>3
<1>6. QED
  BY <1>1, <1>2, <1>5

\* Two ports, or none, are connected to ports with the same GUID, or both are not.
Agree(f, p, g, q) ==
  /\ (p = 0) = (q = 0)
  /\ p # 0 /\ q # 0 =>
       /\ (f.ports[p].remote = 0) = (g.ports[q].remote = 0)
       /\ f.ports[p].remote # 0 =>
            f.ports[f.ports[p].remote].guid = g.ports[g.ports[q].remote].guid

LEMMA SilentDiffPort ==
  ASSUME NEW f, NEW p, NEW g, NEW q, NEW flags, NEW prefix, "port" \in flags,
         DiffPort(f, p, g, q, flags, prefix) = {}
  PROVE  Agree(f, p, g, q)
<1>1. ~Gone(f, p, g, q) /\ ~Gone(g, q, f, p) /\ ~BothDiffer(f, p, g, q, flags)
  BY DEF DiffPort
<1>2. QED
  BY <1>1 DEF Gone, BothDiffer, FarGuidDiffers, Remote, Agree

LEMMA SilentLinkPort ==
  ASSUME NEW f, NEW p, NEW g, NEW q, NEW flags, NEW prefix, "port" \in flags,
         LinkPort(f, p, g, q, flags, prefix) = {}
  PROVE  Agree(f, p, g, q)
<1>1. CASE p = 0 /\ q = 0
  BY <1>1 DEF Agree
<1>2. CASE p # 0 \/ q # 0
  <2>1. ~LinkDiffers(f, p, g, q, flags)
    BY <1>2 DEF LinkPort
  <2>2. QED
    BY <2>1 DEF LinkDiffers, FarGuidDiffers, Remote, Agree
<1>3. QED
  BY <1>1, <1>2

PortsAt(f, n) == {k \in 1..Numports(f.nodes[n]) : f.nodes[n].slots[k] # 0}

\* A node is in the other fabric, with the same links; or it has no ports.
Matched(f, n, g) ==
  LET m == FindNodeGuid(g, f.nodes[n].guid)
  IN  IF m = 0 THEN PortsAt(f, n) = {}
      ELSE /\ Numports(f.nodes[n]) = Numports(g.nodes[m])
           /\ \A k \in 1..Numports(f.nodes[n]) :
                Agree(f, f.nodes[n].slots[k], g, g.nodes[m].slots[k])

\* A node is in the other fabric, or it has no ports.
Known(g, m, f) == FindNodeGuid(f, g.nodes[m].guid) = 0 => PortsAt(g, m) = {}

SameLinks(f, g) ==
  /\ \A n \in 1..Len(f.nodes) : Matched(f, n, g)
  /\ \A m \in 1..Len(g.nodes) : Known(g, m, f)

\* A port of either fabric and the one at its place in the other one.
LEMMA SamePlace ==
  ASSUME NEW f, Whole(f), NEW g, Whole(g), SameLinks(f, g),
         NEW n \in 1..Len(f.nodes), NEW m \in 1..Len(g.nodes),
         f.nodes[n].guid = g.nodes[m].guid
  PROVE  /\ Numports(f.nodes[n]) = Numports(g.nodes[m])
         /\ \A k \in 1..Numports(f.nodes[n]) :
              Agree(f, f.nodes[n].slots[k], g, g.nodes[m].slots[k])
<1>1. FindNodeGuid(g, f.nodes[n].guid) = m
  BY NodeWithItsGuid
<1>2. m # 0 /\ Matched(f, n, g)
  BY WholeTypes DEF SameLinks
<1>3. QED
  BY <1>1, <1>2 DEF Matched

LEMMA CablesAreIn ==
  ASSUME NEW f, Whole(f), NEW g, Whole(g), SameLinks(f, g)
  PROVE  Cables(f) \subseteq Cables(g)
<1> SUFFICES ASSUME NEW p \in Entered(f), f.ports[p].num > 0, f.ports[p].remote # 0
             PROVE  <<f.nodes[f.ports[p].node].guid, f.ports[p].num,
                      f.ports[f.ports[p].remote].guid>> \in Cables(g)
  BY DEF Cables
<1> DEFINE n == f.ports[p].node
           k == f.ports[p].num
           m == FindNodeGuid(g, f.nodes[n].guid)
           q == g.nodes[m].slots[k]
<1>1. /\ n \in 1..Len(f.nodes) /\ k \in 1..Numports(f.nodes[n])
      /\ f.nodes[n].slots[k] = p /\ p # 0
  BY PortIs
<1>2. Matched(f, n, g)
  BY <1>1 DEF SameLinks
<1>3. k \in PortsAt(f, n)
  BY <1>1 DEF PortsAt
<1>4. m # 0
  BY <1>2, <1>3 DEF Matched
<1>5. m \in 1..Len(g.nodes) /\ g.nodes[m].guid = f.nodes[n].guid
  BY <1>4, NodeWithGuid
<1>6. Numports(f.nodes[n]) = Numports(g.nodes[m]) /\ Agree(f, p, g, q)
  BY <1>1, <1>2, <1>4 DEF Matched
<1>7. q # 0 /\ g.ports[q].remote # 0
      /\ g.ports[g.ports[q].remote].guid = f.ports[f.ports[p].remote].guid
  BY <1>1, <1>6 DEF Agree
<1>8. q \in Entered(g) /\ g.ports[q].node = m /\ g.ports[q].num = k
  <2>1. k \in 1..Numports(g.nodes[m])
    BY <1>1, <1>6
  <2> HIDE DEF m, k
  <2>2. k \in 0..Numports(g.nodes[m])
    BY <2>1
  <2>3. g.nodes[m].slots[k] # 0 /\ m \in 1..Len(g.nodes)
    BY <1>5, <1>7
  <2>4. QED
    BY <2>2, <2>3, SlotIs
<1>9. q \in {x \in Entered(g) : g.ports[x].num > 0 /\ g.ports[x].remote # 0}
  BY <1>7, <1>8
<1>10. <<f.nodes[n].guid, k, f.ports[f.ports[p].remote].guid>>
         = <<g.nodes[g.ports[q].node].guid, g.ports[q].num, g.ports[g.ports[q].remote].guid>>
  BY <1>5, <1>7, <1>8
<1> HIDE DEF q, n, k
<1>11. QED
  BY <1>9, <1>10 DEF Cables, n, k

LEMMA AgreeBack ==
  ASSUME NEW f, NEW g, NEW p, NEW q, Agree(f, p, g, q)
  PROVE  Agree(g, q, f, p)
BY DEF Agree

LEMMA SameLinksBack ==
  ASSUME NEW f, Whole(f), NEW g, Whole(g), SameLinks(f, g)
  PROVE  SameLinks(g, f)
<1>1. ASSUME NEW m \in 1..Len(g.nodes) PROVE Matched(g, m, f)
  <2> DEFINE n == FindNodeGuid(f, g.nodes[m].guid)
  <2>1. CASE n = 0
    BY <2>1 DEF SameLinks, Known, Matched
  <2>2. CASE n # 0
    <3>1. n \in 1..Len(f.nodes) /\ f.nodes[n].guid = g.nodes[m].guid
      BY <2>2, NodeWithGuid
    <3>2. /\ Numports(f.nodes[n]) = Numports(g.nodes[m])
          /\ \A k \in 1..Numports(f.nodes[n]) :
               Agree(f, f.nodes[n].slots[k], g, g.nodes[m].slots[k])
      BY <3>1, SamePlace
    <3>3. ASSUME NEW k \in 1..Numports(g.nodes[m])
          PROVE  Agree(g, g.nodes[m].slots[k], f, f.nodes[n].slots[k])
      BY <3>2, AgreeBack
    <3>4. QED
      BY <2>2, <3>2, <3>3 DEF Matched
  <2>3. QED
    BY <2>1, <2>2
<1>2. ASSUME NEW n \in 1..Len(f.nodes) PROVE Known(f, n, g)
  BY DEF SameLinks, Matched, Known
<1>3. QED
  BY <1>1, <1>2 DEF SameLinks

LEMMA SameCables ==
  ASSUME NEW f, Whole(f), NEW g, Whole(g), SameLinks(f, g)
  PROVE  Cables(f) = Cables(g)
<1>1. SameLinks(g, f)
  BY SameLinksBack
<1>2. Cables(f) \subseteq Cables(g) /\ Cables(g) \subseteq Cables(f)
  BY <1>1, CablesAreIn
<1>3. QED
  BY <1>2

\* Every node is in the other fabric.
AllKnown(f, g) == \A n \in 1..Len(f.nodes) : FindNodeGuid(g, f.nodes[n].guid) # 0

LEMMA SeenIsIn ==
  ASSUME NEW f, Whole(f), NEW g, Whole(g), SameLinks(f, g), NEW d,
         d.tool = "ibnetdiscover" => AllKnown(f, g)
  PROVE  Seen(d, f) \subseteq Seen(d, g)
<1> SUFFICES ASSUME NEW n \in 1..Len(f.nodes),
                    d.tool = "ibnetdiscover" \/ PortsAt(f, n) # {}
             PROVE  f.nodes[n].guid \in Seen(d, g)
  BY DEF Seen, PortsAt
<1> DEFINE m == FindNodeGuid(g, f.nodes[n].guid)
<1>1. m # 0
  BY DEF AllKnown, SameLinks, Matched
<1>2. m \in 1..Len(g.nodes) /\ g.nodes[m].guid = f.nodes[n].guid
  BY <1>1, NodeWithGuid
<1>3. PortsAt(f, n) # {} => PortsAt(g, m) # {}
  <2> SUFFICES ASSUME NEW k \in PortsAt(f, n) PROVE k \in PortsAt(g, m)
    OBVIOUS
  <2>1. k \in 1..Numports(f.nodes[n]) /\ f.nodes[n].slots[k] # 0
    BY DEF PortsAt
  <2>2. /\ Numports(f.nodes[n]) = Numports(g.nodes[m])
        /\ Agree(f, f.nodes[n].slots[k], g, g.nodes[m].slots[k])
    BY <1>2, <2>1, SamePlace
  <2>3. QED
    BY <2>1, <2>2 DEF Agree, PortsAt
<1> HIDE DEF m
<1>4. m \in {x \in 1..Len(g.nodes) :
                \/ d.tool = "ibnetdiscover"
                \/ \E k \in 1..Numports(g.nodes[x]) : g.nodes[x].slots[k] # 0}
  BY <1>2, <1>3 DEF PortsAt
<1>5. QED
  BY <1>2, <1>4 DEF Seen

LEMMA SeenIsSame ==
  ASSUME NEW f, Whole(f), NEW g, Whole(g), SameLinks(f, g), NEW d,
         d.tool = "ibnetdiscover" => AllKnown(f, g) /\ AllKnown(g, f)
  PROVE  Seen(d, f) = Seen(d, g)
<1>1. SameLinks(g, f)
  BY SameLinksBack
<1>2. Seen(d, f) \subseteq Seen(d, g) /\ Seen(d, g) \subseteq Seen(d, f)
  BY <1>1, SeenIsIn
<1>3. QED
  BY <1>2

\* ibnetdiscover --diff of everything.
LEMMA SilentDiff ==
  ASSUME NEW f, Whole(f), NEW g, Whole(g), NEW flags, "port" \in flags, Types \subseteq flags,
         Diff(f, g, flags) = {}
  PROVE  SameLinks(f, g) /\ AllKnown(f, g) /\ AllKnown(g, f)
<1>1. ASSUME NEW n \in 1..Len(f.nodes) PROVE DiffNode(f, n, g, flags, "<") = {}
  <2>1. f.nodes[n].type \in flags
    BY WholeTypes, NodeTypes
  <2>2. n \in {m \in 1..Len(f.nodes) : f.nodes[m].type \in flags}
    BY <2>1
  <2>3. DiffNode(f, n, g, flags, "<") \subseteq Diff(f, g, flags)
    BY <2>2 DEF Diff
  <2>4. QED
    BY <2>3
<1> DEFINE rest == flags \ {"port", "lid", "nodedesc"}
<1>2. ASSUME NEW m \in 1..Len(g.nodes) PROVE DiffNode(g, m, f, rest, ">") = {}
  <2>1. g.nodes[m].type \in flags
    BY WholeTypes, NodeTypes
  <2>2. m \in {n \in 1..Len(g.nodes) : g.nodes[n].type \in flags}
    BY <2>1
  <2>3. DiffNode(g, m, f, rest, ">") \subseteq DiffBack(f, g, flags)
    BY <2>2 DEF DiffBack
  <2>4. DiffBack(f, g, flags) \subseteq Diff(f, g, flags)
    <3>1. ASSUME NEW x \in DiffBack(f, g, flags) PROVE x \in Diff(f, g, flags)
      BY SMT DEF Diff
    <3>2. QED
      BY <3>1
  <2>5. QED
    BY <2>3, <2>4
<1>3. \A m \in 1..Len(g.nodes) : FindNodeGuid(f, g.nodes[m].guid) # 0
  BY <1>2 DEF DiffNode
<1>4. ASSUME NEW n \in 1..Len(f.nodes)
      PROVE  FindNodeGuid(g, f.nodes[n].guid) # 0 /\ Matched(f, n, g)
  <2> DEFINE m == FindNodeGuid(g, f.nodes[n].guid)
  <2>1. m # 0
    BY <1>1 DEF DiffNode
  <2>2. Numports(f.nodes[n]) = Numports(g.nodes[m])
    BY <1>1, <2>1 DEF DiffNode, Both
  <2>3. ASSUME NEW k \in 1..Numports(f.nodes[n])
        PROVE  DiffPort(f, f.nodes[n].slots[k], g, g.nodes[m].slots[k], flags, "<") = {}
    <3> DEFINE D(j) == DiffPort(f, f.nodes[n].slots[j], g, g.nodes[m].slots[j], flags, "<")
    <3>1. UNION {D(j) : j \in 1..Numports(f.nodes[n])} \subseteq DiffNode(f, n, g, flags, "<")
      BY <2>1, <2>2 DEF DiffNode
    <3>2. D(k) \subseteq UNION {D(j) : j \in 1..Numports(f.nodes[n])}
      <4> HIDE DEF D
      <4>1. QED
        OBVIOUS
    <3>3. QED
      BY <1>1, <3>1, <3>2
  <2> HIDE DEF m
  <2>4. \A k \in 1..Numports(f.nodes[n]) : Agree(f, f.nodes[n].slots[k], g, g.nodes[m].slots[k])
    BY <2>3, SilentDiffPort
  <2>5. QED
    BY <2>1, <2>2, <2>4 DEF Matched, m
<1>5. QED
  BY <1>3, <1>4 DEF SameLinks, Known, AllKnown

\* iblinkinfo --diff of everything.
LEMMA SilentLinkDiff ==
  ASSUME NEW f, Whole(f), NEW g, Whole(g), NEW flags, "port" \in flags, NEW line,
         LinkDiff(f, g, flags, line) = {}
  PROVE  SameLinks(f, g)
<1>1. ASSUME NEW n \in 1..Len(f.nodes) PROVE LinkNode(f, n, g, flags, "<", line) = {}
  BY DEF LinkDiff
<1>2. ASSUME NEW m \in 1..Len(g.nodes) PROVE LinkNode(g, m, f, {}, ">", line) = {}
  <2>1. ASSUME NEW x \in LinkNode(g, m, f, {}, ">", line) PROVE x \in LinkDiff(f, g, flags, line)
    BY SMT DEF LinkDiff
  <2>2. QED
    BY <2>1
<1>3. ASSUME NEW h, NEW n, NEW prefix, PrintNode(h, n, prefix) = {} PROVE PortsAt(h, n) = {}
  <2>1. {h.nodes[n].slots[k] : k \in 1..Numports(h.nodes[n])} \ {0} = {}
    BY <1>3 DEF PrintNode
  <2>2. QED
    BY <2>1 DEF PortsAt
<1>4. ASSUME NEW m \in 1..Len(g.nodes) PROVE Known(g, m, f)
  <2> SUFFICES ASSUME FindNodeGuid(f, g.nodes[m].guid) = 0 PROVE PortsAt(g, m) = {}
    BY DEF Known
  <2>1. PrintNode(g, m, ">") = {}
    BY <1>2 DEF LinkNode
  <2>2. QED
    BY <1>3, <2>1
<1>5. ASSUME NEW n \in 1..Len(f.nodes) PROVE Matched(f, n, g)
  <2> DEFINE m == FindNodeGuid(g, f.nodes[n].guid)
  <2>1. CASE m = 0
    <3>1. PrintNode(f, n, "<") = {}
      BY <1>1, <2>1 DEF LinkNode
    <3>2. QED
      BY <1>3, <2>1, <3>1 DEF Matched
  <2>2. CASE m # 0
    <3> DEFINE D(j) == LinkPort(f, f.nodes[n].slots[j], g, g.nodes[m].slots[j], flags, "<")
               Ports == UNION {D(j) : j \in 1..Numports(f.nodes[n])}
    <3>1. /\ Numports(f.nodes[n]) = Numports(g.nodes[m])
          /\ LinkNode(f, n, g, flags, "<", line) = Ports
      BY <1>1, <2>2 DEF LinkNode, Both
    <3>2. ASSUME NEW k \in 1..Numports(f.nodes[n]) PROVE D(k) = {}
      <4> HIDE DEF D
      <4>1. D(k) \subseteq Ports
        OBVIOUS
      <4>2. QED
        BY <1>1, <3>1, <4>1
    <3> HIDE DEF m
    <3>3. \A k \in 1..Numports(f.nodes[n]) :
            Agree(f, f.nodes[n].slots[k], g, g.nodes[m].slots[k])
      BY <3>2, SilentLinkPort
    <3>4. QED
      BY <2>2, <3>1, <3>3 DEF Matched, m
  <2>3. QED
    BY <2>1, <2>2
<1>6. QED
  BY <1>4, <1>5 DEF SameLinks

------------------------------------------------------------------------------
(* Fabrics that look the same from outside. *)

SamePort(f, p, g, q) ==
  /\ (p = 0) = (q = 0)
  /\ p # 0 /\ q # 0 =>
       LET far == f.ports[p].remote
           end == g.ports[q].remote
       IN  /\ f.ports[p].guid = g.ports[q].guid /\ f.ports[p].lid = g.ports[q].lid
           /\ f.ports[p].state = g.ports[q].state
           /\ (far = 0) = (end = 0)
           /\ far # 0 /\ end # 0 =>
                /\ f.ports[far].guid = g.ports[end].guid
                /\ f.ports[far].num = g.ports[end].num
                /\ f.nodes[f.ports[far].node].guid = g.nodes[g.ports[end].node].guid

SameNode(f, g, n) ==
  /\ f.nodes[n].guid = g.nodes[n].guid /\ f.nodes[n].type = g.nodes[n].type
  /\ f.nodes[n].lid = g.nodes[n].lid /\ f.nodes[n].desc = g.nodes[n].desc
  /\ Numports(f.nodes[n]) = Numports(g.nodes[n])
  /\ \A k \in 0..Numports(f.nodes[n]) : SamePort(f, f.nodes[n].slots[k], g, g.nodes[n].slots[k])

SameFabric(f, g) ==
  Len(f.nodes) = Len(g.nodes) /\ \A n \in 1..Len(f.nodes) : SameNode(f, g, n)

LEMMA SamePortBack ==
  ASSUME NEW f, NEW p, NEW g, NEW q, SamePort(f, p, g, q)
  PROVE  SamePort(g, q, f, p)
BY DEF SamePort

LEMMA SameFabricBack ==
  ASSUME NEW f, NEW g, SameFabric(f, g)
  PROVE  SameFabric(g, f)
<1>1. ASSUME NEW n \in 1..Len(g.nodes) PROVE SameNode(g, f, n)
  <2>1. SameNode(f, g, n)
    BY DEF SameFabric
  <2>2. ASSUME NEW k \in 0..Numports(g.nodes[n])
        PROVE  SamePort(g, g.nodes[n].slots[k], f, f.nodes[n].slots[k])
    <3>1. SamePort(f, f.nodes[n].slots[k], g, g.nodes[n].slots[k])
      BY <2>1 DEF SameNode
    <3>2. QED
      BY <3>1, SamePortBack
  <2>3. QED
    BY <2>1, <2>2 DEF SameNode
<1>2. QED
  BY <1>1 DEF SameFabric

LEMMA SameFabricItself ==
  ASSUME NEW f
  PROVE  SameFabric(f, f)
BY DEF SameFabric, SameNode, SamePort

\* The remote ends of the same port of two such fabrics do not differ either.
LEMMA SameFarPort ==
  ASSUME NEW f, Whole(f), NEW g, Whole(g), SameFabric(f, g),
         NEW p \in Entered(f), NEW q \in Entered(g), SamePort(f, p, g, q),
         f.ports[p].remote # 0
  PROVE  LET far == f.ports[p].remote
             end == g.ports[q].remote
         IN  /\ end # 0
             /\ f.ports[far].guid = g.ports[end].guid
             /\ f.ports[far].lid = g.ports[end].lid
             /\ f.nodes[f.ports[far].node].desc = g.nodes[g.ports[end].node].desc
<1> DEFINE far == f.ports[p].remote
           end == g.ports[q].remote
           n == f.ports[far].node
           m == g.ports[end].node
           k == f.ports[far].num
<1>1. p # 0 /\ q # 0 /\ far \in Entered(f) /\ end \in Entered(g)
  <2>1. p # 0 /\ q # 0
    BY PortIs
  <2>2. end # 0
    BY <2>1 DEF SamePort
  <2>3. far \in Entered(f) \cup {0} /\ end \in Entered(g) \cup {0}
    BY PortIs
  <2>4. QED
    BY <2>1, <2>2, <2>3
<1>2. far # 0 /\ end # 0
  BY <1>1, PortIs
<1>3. /\ f.ports[far].guid = g.ports[end].guid /\ g.ports[end].num = k
      /\ f.nodes[n].guid = g.nodes[m].guid
  BY <1>1, <1>2 DEF SamePort
<1> HIDE DEF far, end
<1>4. /\ n \in 1..Len(f.nodes) /\ m \in 1..Len(g.nodes)
      /\ k \in 0..Numports(f.nodes[n])
      /\ f.nodes[n].slots[k] = far
  BY <1>1, PortIs
<1>5. g.nodes[m].slots[k] = end
  <2>1. g.nodes[m].slots[g.ports[end].num] = end
    BY <1>1, PortIs
  <2> HIDE DEF k, m
  <2>2. QED
    BY <1>3, <2>1
<1>6. m \in 1..Len(f.nodes) /\ SameNode(f, g, m) /\ SameNode(f, g, n)
  BY <1>4 DEF SameFabric
<1>7. f.nodes[m].guid = f.nodes[n].guid
  BY <1>3, <1>6 DEF SameNode
<1>8. m = n
  <2>1. FindNodeGuid(f, f.nodes[m].guid) = m /\ FindNodeGuid(f, f.nodes[n].guid) = n
    <3> HIDE DEF m, n
    <3>1. QED
      BY <1>4, <1>6, NodeWithItsGuid
  <2>2. QED
    BY <1>7, <2>1
<1>9. SamePort(f, far, g, end)
  BY <1>4, <1>5, <1>6, <1>8 DEF SameNode
<1>10. f.ports[far].lid = g.ports[end].lid
  BY <1>2, <1>9 DEF SamePort
<1>11. f.nodes[n].desc = g.nodes[m].desc
  BY <1>6, <1>8 DEF SameNode
<1>12. QED
  BY <1>2, <1>3, <1>10, <1>11 DEF far, end

\* What the comparison of two ports looks at.
NoDifference(f, p, g, q) ==
  /\ (p = 0) = (q = 0)
  /\ p # 0 /\ q # 0 =>
       LET far == f.ports[p].remote
           end == g.ports[q].remote
       IN  /\ f.ports[p].guid = g.ports[q].guid /\ f.ports[p].lid = g.ports[q].lid
           /\ f.ports[p].state = g.ports[q].state
           /\ (far = 0) = (end = 0)
           /\ far # 0 /\ end # 0 =>
                /\ f.ports[far].guid = g.ports[end].guid
                /\ f.ports[far].lid = g.ports[end].lid
                /\ f.nodes[f.ports[far].node].desc = g.nodes[g.ports[end].node].desc

LEMMA PortsDoNotDiffer ==
  ASSUME NEW f, Whole(f), NEW g, Whole(g), SameFabric(f, g),
         NEW n \in 1..Len(f.nodes), NEW k \in 0..Numports(f.nodes[n])
  PROVE  NoDifference(f, f.nodes[n].slots[k], g, g.nodes[n].slots[k])
<1> DEFINE p == f.nodes[n].slots[k]
           q == g.nodes[n].slots[k]
<1>1. SamePort(f, p, g, q) /\ n \in 1..Len(g.nodes) /\ k \in 0..Numports(g.nodes[n])
  BY DEF SameFabric, SameNode
<1>2. p # 0 => p \in Entered(f)
  BY SlotIs
<1>3. q # 0 => q \in Entered(g)
  BY <1>1, SlotIs
<1> HIDE DEF p, q
<1>4. ASSUME p = 0 \/ q = 0 PROVE NoDifference(f, p, g, q)
  BY <1>1, <1>4 DEF SamePort, NoDifference
<1>5. ASSUME p # 0, q # 0 PROVE NoDifference(f, p, g, q)
  <2>1. CASE f.ports[p].remote = 0
    BY <1>1, <1>5, <2>1 DEF SamePort, NoDifference
  <2>2. CASE f.ports[p].remote # 0
    <3> DEFINE far == f.ports[p].remote
               end == g.ports[q].remote
    <3>1. /\ end # 0
          /\ f.ports[far].guid = g.ports[end].guid
          /\ f.ports[far].lid = g.ports[end].lid
          /\ f.nodes[f.ports[far].node].desc = g.nodes[g.ports[end].node].desc
      BY <1>1, <1>2, <1>3, <1>5, <2>2, SameFarPort
    <3>2. /\ f.ports[p].guid = g.ports[q].guid /\ f.ports[p].lid = g.ports[q].lid
          /\ f.ports[p].state = g.ports[q].state
      BY <1>1, <1>5 DEF SamePort
    <3>3. QED
      BY <1>5, <2>2, <3>1, <3>2 DEF NoDifference
  <2>3. QED
    BY <2>1, <2>2
<1>6. NoDifference(f, p, g, q)
  BY <1>4, <1>5
<1>7. QED
  BY <1>6 DEF p, q

LEMMA NoDifferenceIsSilent ==
  ASSUME NEW f, NEW p, NEW g, NEW q, NoDifference(f, p, g, q), NEW flags, NEW prefix
  PROVE  DiffPort(f, p, g, q, flags, prefix) = {} /\ LinkPort(f, p, g, q, flags, prefix) = {}
<1>1. ~Gone(f, p, g, q) /\ ~Gone(g, q, f, p)
  BY DEF NoDifference, Gone, Remote
<1>2. ~FarDiffers(f, p, g, q, flags)
  BY DEF NoDifference, FarDiffers, Remote
<1>3. ~FarGuidDiffers(f, p, g, q)
  BY DEF NoDifference, FarGuidDiffers, Remote
<1>4. ~BothDiffer(f, p, g, q, flags)
  BY <1>2, <1>3 DEF NoDifference, BothDiffer
<1>5. ~LinkDiffers(f, p, g, q, flags)
  BY <1>2, <1>3 DEF NoDifference, LinkDiffers, Remote
<1>6. QED
  BY <1>1, <1>4, <1>5 DEF DiffPort, LinkPort

LEMMA SameNodeIsSilent ==
  ASSUME NEW f, Whole(f), NEW g, Whole(g), SameFabric(f, g), NEW n \in 1..Len(f.nodes),
         NEW flags, NEW prefix, NEW line
  PROVE  DiffNode(f, n, g, flags, prefix) = {} /\ LinkNode(f, n, g, flags, prefix, line) = {}
<1> DEFINE m == FindNodeGuid(g, f.nodes[n].guid)
           D(k) == DiffPort(f, f.nodes[n].slots[k], g, g.nodes[n].slots[k], flags, prefix)
           L(k) == LinkPort(f, f.nodes[n].slots[k], g, g.nodes[n].slots[k], flags, prefix)
           K == 1..Numports(f.nodes[n])
<1>1. SameNode(f, g, n) /\ n \in 1..Len(g.nodes) /\ n # 0
  BY WholeTypes DEF SameFabric
<1>2. m = n
  <2>1. f.nodes[n].guid = g.nodes[n].guid
    BY <1>1 DEF SameNode
  <2>2. QED
    BY <1>1, <2>1, NodeWithItsGuid
<1>3. ASSUME NEW k \in K PROVE D(k) = {} /\ L(k) = {}
  <2>1. k \in 0..Numports(f.nodes[n])
    OBVIOUS
  <2>2. NoDifference(f, f.nodes[n].slots[k], g, g.nodes[n].slots[k])
    BY <2>1, PortsDoNotDiffer
  <2>3. QED
    BY <2>2, NoDifferenceIsSilent
<1>4. UNION {D(k) : k \in K} = {} /\ UNION {L(k) : k \in K} = {}
  <2> HIDE DEF D, L
  <2>1. QED
    BY <1>3
<1>5. ~NodeDiffers(f.nodes[n], g.nodes[n], flags)
  BY <1>1 DEF SameNode, NodeDiffers
<1>6. DiffNode(f, n, g, flags, prefix) = {}
  BY <1>1, <1>2, <1>4, <1>5 DEF DiffNode, SameNode
<1>7. LinkNode(f, n, g, flags, prefix, line) = {}
  BY <1>1, <1>2, <1>4 DEF LinkNode, SameNode
<1>8. QED
  BY <1>6, <1>7

LEMMA SameIsSilent ==
  ASSUME NEW f, Whole(f), NEW g, Whole(g), SameFabric(f, g), NEW d, d.tool # "links"
  PROVE  Report(d, f, g) = {}
<1>1. SameFabric(g, f) /\ SameFabric(g, g) /\ SameFabric(f, g)
  BY SameFabricBack, SameFabricItself
<1>2. \A n \in 1..Len(f.nodes) : \A flags :
        DiffNode(f, n, g, flags, "<") = {} /\ LinkNode(f, n, g, flags, "<", d.line) = {}
  BY SameNodeIsSilent
<1>3. \A n \in 1..Len(g.nodes) : \A flags :
        /\ DiffNode(g, n, f, flags, ">") = {} /\ LinkNode(g, n, f, flags, ">", d.line) = {}
        /\ LinkNode(g, n, g, flags, "<", d.line) = {}
  BY <1>1, SameNodeIsSilent
<1>4. Diff(f, g, d.flags) = {}
  BY <1>2, <1>3 DEF Diff, DiffBack
<1>5. LinkDiff(f, g, d.flags, d.line) = {}
  BY <1>2, <1>3 DEF LinkDiff
<1>6. LinkDiffOne(f, g, d.node, d.flags, d.line) = {}
  <2>1. FindNodeGuid(g, d.node) \in 1..Len(g.nodes) \cup {0}
    BY NodeWithGuid
  <2>2. QED
    BY <1>3, <2>1 DEF LinkDiffOne
<1>7. QED
  BY <1>4, <1>5, <1>6 DEF Report

------------------------------------------------------------------------------
\* What a view shows of a node.
NodeView(f, n) == [f.nodes[n] EXCEPT !.slots = [k \in DOMAIN @ |-> PortView(f, @[k])]]

LEMMA NodeViewIs ==
  ASSUME NEW f, NEW n, IsNode(f.nodes[n])
  PROVE  LET v == NodeView(f, n)
             node == f.nodes[n]
         IN  /\ v.guid = node.guid /\ v.type = node.type /\ v.lid = node.lid
             /\ v.desc = node.desc
             /\ v.slots = [k \in 0..Numports(node) |-> PortView(f, node.slots[k])]
<1> DEFINE node == f.nodes[n]
<1>1. NodeView(f, n) = [node EXCEPT !.slots = [k \in DOMAIN node.slots |-> PortView(f, node.slots[k])]]
  BY DEF NodeView
<1>2. /\ node \in [guid : Nat, type : Types, lid : Nat, desc : Nat, sys : Nat,
                   slots : {node.slots}]
      /\ DOMAIN node.slots = 0..Numports(node)
  BY NodeTypes
<1> DEFINE views == [k \in DOMAIN node.slots |-> PortView(f, node.slots[k])]
<1>3. views = [k \in 0..Numports(node) |-> PortView(f, node.slots[k])]
  <2> HIDE DEF node
  <2>1. QED
    BY <1>2
<1>4. /\ [node EXCEPT !.slots = views].slots = views
      /\ [node EXCEPT !.slots = views].guid = node.guid
      /\ [node EXCEPT !.slots = views].type = node.type
      /\ [node EXCEPT !.slots = views].lid = node.lid
      /\ [node EXCEPT !.slots = views].desc = node.desc
  <2> HIDE DEF node, views
  <2>1. QED
    BY <1>2
<1>5. QED
  BY <1>1, <1>3, <1>4

LEMMA PortsThatLookTheSame ==
  ASSUME NEW f, NEW p, NEW g, NEW q, PortView(f, p) = PortView(g, q)
  PROVE  SamePort(f, p, g, q)
<1> DEFINE RemoteOf(h, port) ==
      IF port.remote = 0 THEN <<>>
      ELSE LET end == h.ports[port.remote]
           IN  <<h.nodes[end.node].guid, end.guid, end.num>>
    V(h, x) == [guid |-> h.ports[x].guid, num |-> h.ports[x].num,
                lid |-> h.ports[x].lid, state |-> h.ports[x].state, ext |-> h.ports[x].ext,
                node |-> h.nodes[h.ports[x].node].guid, remote |-> RemoteOf(h, h.ports[x])]
<1>1. \A h : PortView(h, 0) = [guid |-> 0]
  BY DEF PortView
<1>2. \A h, x : x # 0 => PortView(h, x) = V(h, x)
  BY DEF PortView
<1>3. \A h, x : x # 0 => "num" \in DOMAIN PortView(h, x)
  BY <1>2
<1>4. \A h : "num" \notin DOMAIN PortView(h, 0)
  BY <1>1
<1>5. (p = 0) = (q = 0)
  BY <1>3, <1>4
<1>6. CASE p = 0
  BY <1>5, <1>6 DEF SamePort
<1>7. CASE p # 0
  <2>1. V(f, p) = V(g, q)
    BY <1>2, <1>5, <1>7
  <2>2. /\ f.ports[p].guid = g.ports[q].guid /\ f.ports[p].lid = g.ports[q].lid
        /\ f.ports[p].state = g.ports[q].state
        /\ RemoteOf(f, f.ports[p]) = RemoteOf(g, g.ports[q])
    <3> HIDE DEF RemoteOf
    <3>1. V(f, p).guid = V(g, q).guid /\ V(f, p).lid = V(g, q).lid
          /\ V(f, p).state = V(g, q).state /\ V(f, p).remote = V(g, q).remote
      BY <2>1
    <3>2. QED
      BY <3>1
  <2> DEFINE far == f.ports[p].remote
             end == g.ports[q].remote
             a == <<f.nodes[f.ports[far].node].guid, f.ports[far].guid, f.ports[far].num>>
             b == <<g.nodes[g.ports[end].node].guid, g.ports[end].guid, g.ports[end].num>>
  <2>3. (IF far = 0 THEN <<>> ELSE a) = (IF end = 0 THEN <<>> ELSE b)
    BY <2>2
  <2>4. a # <<>> /\ b # <<>>
    OBVIOUS
  <2>5. (far = 0) = (end = 0) /\ (far # 0 => a = b)
    <3> HIDE DEF a, b, far, end
    <3>1. QED
      BY <2>3, <2>4
  <2>6. QED
    BY <1>5, <1>7, <2>2, <2>5 DEF SamePort
<1>8. QED
  BY <1>6, <1>7

LEMMA SameViewIsSame ==
  ASSUME NEW f, \A n \in 1..Len(f.nodes) : IsNode(f.nodes[n]), Len(f.nodes) \in Nat,
         NEW g, \A n \in 1..Len(g.nodes) : IsNode(g.nodes[n]), Len(g.nodes) \in Nat,
         View(f) = View(g)
  PROVE  SameFabric(f, g)
<1> DEFINE Views(h) == [n \in 1..Len(h.nodes) |-> NodeView(h, n)]
<1>1. \A h : View(h) = [nodes |-> Views(h), from |-> h.nodes[h.from].guid, hops |-> h.hops]
  BY DEF View, NodeView
<1>2. Views(f) = Views(g)
  <2> HIDE DEF Views
  <2>1. View(f).nodes = Views(f) /\ View(g).nodes = Views(g)
    BY <1>1
  <2>2. QED
    BY <2>1
<1>3. Len(f.nodes) = Len(g.nodes)
  <2>1. DOMAIN Views(f) = 1..Len(f.nodes) /\ DOMAIN Views(g) = 1..Len(g.nodes)
    OBVIOUS
  <2>2. Len(Views(f)) = Len(f.nodes) /\ Len(Views(g)) = Len(g.nodes)
    OBVIOUS
  <2> HIDE DEF Views
  <2>3. QED
    BY <1>2, <2>2
<1>4. ASSUME NEW n \in 1..Len(f.nodes) PROVE SameNode(f, g, n)
  <2> DEFINE node == f.nodes[n]
             node2 == g.nodes[n]
             v == NodeView(f, n)
             w == NodeView(g, n)
  <2>1. v = w
    <3>1. Views(f)[n] = v /\ Views(g)[n] = w
      BY <1>3
    <3>2. QED
      BY <1>2, <3>1
  <2>2. IsNode(node) /\ IsNode(node2)
    BY <1>3
  <2>3. /\ v.guid = node.guid /\ v.type = node.type /\ v.lid = node.lid
        /\ v.desc = node.desc
        /\ v.slots = [k \in 0..Numports(node) |-> PortView(f, node.slots[k])]
    BY <2>2, NodeViewIs
  <2>4. /\ w.guid = node2.guid /\ w.type = node2.type /\ w.lid = node2.lid
        /\ w.desc = node2.desc
        /\ w.slots = [k \in 0..Numports(node2) |-> PortView(g, node2.slots[k])]
    BY <2>2, NodeViewIs
  <2>5. Numports(node) \in Nat /\ Numports(node2) \in Nat
    <3>1. \A x : IsNode(x) => Numports(x) \in 0..255
      BY NodeTypes
    <3>2. \A i \in 0..255 : i \in Nat
      OBVIOUS
    <3>3. QED
      BY <2>2, <3>1, <3>2, Zenon
  <2> HIDE DEF node, node2, v, w
  <2>6. 0..Numports(node) = 0..Numports(node2)
    <3>1. DOMAIN v.slots = 0..Numports(node)
      BY <2>3, Zenon
    <3>2. DOMAIN w.slots = 0..Numports(node2)
      BY <2>4, Zenon
    <3>3. QED
      BY <2>1, <3>1, <3>2, Zenon
  <2>7. Numports(node) = Numports(node2)
    <3>1. \A x : x \in 0..Numports(node) <=> x \in 0..Numports(node2)
      BY <2>6, Zenon
    <3>2. Numports(node) \in 0..Numports(node2) /\ Numports(node2) \in 0..Numports(node)
      BY <2>5, <3>1
    <3>3. QED
      BY <2>5, <3>2
  <2>8. ASSUME NEW k \in 0..Numports(node) PROVE SamePort(f, node.slots[k], g, node2.slots[k])
    <3>1. v.slots[k] = PortView(f, node.slots[k])
      BY <2>3
    <3>2. w.slots[k] = PortView(g, node2.slots[k])
      BY <2>4, <2>7
    <3>3. PortView(f, node.slots[k]) = PortView(g, node2.slots[k])
      BY <2>1, <3>1, <3>2
    <3>4. QED
      BY <3>3, PortsThatLookTheSame
  <2>9. QED
    BY <2>1, <2>3, <2>4, <2>7, <2>8 DEF SameNode, node, node2
<1>5. QED
  BY <1>3, <1>4 DEF SameFabric

LEMMA SameViewIsSilent ==
  ASSUME NEW f, Whole(f), NEW g, Whole(g), View(f) = View(Kept(g)), NEW d, d.tool # "links"
  PROVE  Report(d, f, g) = {}
<1>1. Kept(g).nodes = g.nodes
  BY KeptIs
<1>2. SameFabric(f, Kept(g))
  <2>1. /\ Len(f.nodes) \in Nat /\ \A n \in 1..Len(f.nodes) : IsNode(f.nodes[n])
        /\ Len(g.nodes) \in Nat /\ \A n \in 1..Len(g.nodes) : IsNode(g.nodes[n])
    BY WholeTypes
  <2> DEFINE h == Kept(g)
  <2>2. Len(h.nodes) \in Nat /\ \A n \in 1..Len(h.nodes) : IsNode(h.nodes[n])
    BY <1>1, <2>1
  <2> HIDE DEF h
  <2>3. SameFabric(f, h)
    BY <2>1, <2>2, SameViewIsSame DEF h
  <2>4. QED
    BY <2>3 DEF h
<1>3. ASSUME NEW n \in 1..Len(g.nodes), NEW k \in 0..Numports(g.nodes[n])
      PROVE  SamePort(f, f.nodes[n].slots[k], g, g.nodes[n].slots[k])
  <2> DEFINE p == f.nodes[n].slots[k]
             q == g.nodes[n].slots[k]
  <2>1. SamePort(f, p, Kept(g), q)
    BY <1>1, <1>2 DEF SameFabric, SameNode
  <2>2. q # 0 => q \in Entered(g)
    BY SlotIs
  <2> HIDE DEF p, q
  <2>3. q = 0 => SamePort(f, p, g, q)
    BY <2>1 DEF SamePort
  <2>4. ASSUME q # 0 PROVE SamePort(f, p, g, q)
    <3>1. q \in 1..Len(g.ports) /\ g.ports[q].remote \in Entered(g) \cup {0}
      BY <2>2, <2>4, PortIs
    <3>2. g.ports[q].remote # 0 => g.ports[q].remote \in 1..Len(g.ports)
      BY <3>1, PortIs
    <3>3. /\ Kept(g).ports[q].guid = g.ports[q].guid /\ Kept(g).ports[q].lid = g.ports[q].lid
          /\ Kept(g).ports[q].state = g.ports[q].state
          /\ Kept(g).ports[q].remote = g.ports[q].remote
      BY <3>1, KeptIs
    <3> DEFINE end == g.ports[q].remote
    <3>4. end # 0 => /\ Kept(g).ports[end].guid = g.ports[end].guid
                     /\ Kept(g).ports[end].num = g.ports[end].num
                     /\ Kept(g).ports[end].node = g.ports[end].node
      BY <3>2, KeptIs
    <3>5. QED
      BY <1>1, <2>1, <2>4, <3>3, <3>4 DEF SamePort
  <2>5. SamePort(f, p, g, q)
    BY <2>3, <2>4
  <2>6. QED
    BY <2>5 DEF p, q
<1>4. SameFabric(f, g)
  BY <1>1, <1>2, <1>3 DEF SameFabric, SameNode
<1>5. QED
  BY <1>4, SameIsSilent

------------------------------------------------------------------------------
(* The listing of links, without the ports that were down before. *)

LEMMA FilteredIsDown ==
  ASSUME NEW f, Whole(f), NEW node, NEW p, p.num \in Nat, p.num > 0
  PROVE  FilteredDown(f, node, p) <=> <<node.guid, p.num>> \in DownIn(f)
<1> DEFINE m == FindNodeGuid(f, node.guid)
           k == p.num
<1>1. ASSUME FilteredDown(f, node, p) PROVE <<node.guid, k>> \in DownIn(f)
  <2> DEFINE was == f.nodes[m].slots[k]
  <2>1. /\ m # 0 /\ k <= Numports(f.nodes[m])
        /\ was # 0 /\ f.ports[was].state = "down"
    BY <1>1 DEF FilteredDown
  <2>2. m \in 1..Len(f.nodes) /\ f.nodes[m].guid = node.guid
    BY <2>1, NodeWithGuid
  <2>3. k \in 0..Numports(f.nodes[m])
    <3>1. IsNode(f.nodes[m])
      BY <2>2, WholeTypes
    <3>2. Numports(f.nodes[m]) \in 0..255
      <4> HIDE DEF m
      <4>1. QED
        BY <3>1, NodeTypes
    <3>3. QED
      BY <2>1, <3>2
  <2>4. was \in Entered(f) /\ f.ports[was].node = m /\ f.ports[was].num = k
    <3> HIDE DEF m, k
    <3>1. QED
      BY <2>1, <2>2, <2>3, SlotIs
  <2>5. was \in {q \in Entered(f) : f.ports[q].num > 0 /\ f.ports[q].state = "down"}
    BY <2>1, <2>4
  <2>6. <<node.guid, k>> = <<f.nodes[f.ports[was].node].guid, f.ports[was].num>>
    BY <2>2, <2>4
  <2> HIDE DEF was, k
  <2>7. QED
    BY <2>5, <2>6 DEF DownIn
<1>2. ASSUME <<node.guid, k>> \in DownIn(f) PROVE FilteredDown(f, node, p)
  <2>1. PICK q \in Entered(f) : /\ f.ports[q].num > 0 /\ f.ports[q].state = "down"
                                /\ <<node.guid, k>> = <<f.nodes[f.ports[q].node].guid, f.ports[q].num>>
    BY <1>2 DEF DownIn
  <2>2. f.nodes[f.ports[q].node].guid = node.guid /\ f.ports[q].num = k
    BY <2>1
  <2>3. /\ q # 0 /\ f.ports[q].node \in 1..Len(f.nodes)
        /\ f.ports[q].num \in 0..Numports(f.nodes[f.ports[q].node])
        /\ f.nodes[f.ports[q].node].slots[f.ports[q].num] = q
    BY PortIs
  <2>4. m = f.ports[q].node /\ m # 0
    <3>1. FindNodeGuid(f, f.nodes[f.ports[q].node].guid) = f.ports[q].node
      BY <2>3, NodeWithItsGuid
    <3>2. QED
      BY <2>2, <2>3, <3>1
  <2>5. k <= Numports(f.nodes[m]) /\ f.nodes[m].slots[k] = q
    BY <2>2, <2>3, <2>4
  <2>6. QED
    BY <2>1, <2>3, <2>4, <2>5 DEF FilteredDown
<1>3. QED
  BY <1>1, <1>2

LineKey(x) == <<x.guid, x.num>>
PlaceOf(f, p) == <<f.nodes[f.ports[p].node].guid, f.ports[p].num>>

LEMMA NewlyDownIsIn ==
  ASSUME NEW f, Whole(f), NEW g, Whole(g), NEW flags, Types \subseteq flags,
         NEW q \in Entered(g), g.ports[q].num > 0, g.ports[q].state = "down",
         PlaceOf(g, q) \notin DownIn(f)
  PROVE  PortLine("", g, q) \in LinkList(g, f, flags)
<1> DEFINE n == g.ports[q].node
           k == g.ports[q].num
<1>1. /\ q # 0 /\ n \in 1..Len(g.nodes) /\ k \in 1..Numports(g.nodes[n])
      /\ g.nodes[n].slots[k] = q /\ k \in Nat
  BY PortIs
<1>2. ~FilteredDown(f, g.nodes[n], g.ports[q])
  BY <1>1, FilteredIsDown DEF PlaceOf
<1>3. PortLine("", g, q) \in LinkLine(g, q, f)
  BY <1>2 DEF LinkLine
<1>4. q \in LinksOf(g, n, "down" \in flags)
  BY <1>1 DEF LinksOf
<1>5. n \in {m \in 1..Len(g.nodes) : g.nodes[m].type \in flags}
  <2>1. g.nodes[n].type \in Types
    <3>1. IsNode(g.nodes[n])
      BY <1>1, WholeTypes
    <3> HIDE DEF n
    <3>2. QED
      BY <3>1, NodeTypes
  <2>2. QED
    BY <1>1, <2>1
<1> DEFINE Lines(m) == UNION {LinkLine(g, p, f) : p \in LinksOf(g, m, "down" \in flags)}
<1>6. PortLine("", g, q) \in Lines(n)
  <2> HIDE DEF n
  <2>1. QED
    BY <1>3, <1>4
<1>7. QED
  <2>1. LinkList(g, f, flags) = UNION {Lines(m) : m \in {x \in 1..Len(g.nodes) : g.nodes[x].type \in flags}}
    BY DEF LinkList
  <2> HIDE DEF Lines, n
  <2>2. QED
    BY <1>5, <1>6, <2>1

LEMMA ListedIsNewlyDown ==
  ASSUME NEW f, Whole(f), NEW g, Whole(g), NEW flags, NEW x \in LinkList(g, f, flags),
         LineKey(x) \in DownIn(g)
  PROVE  LineKey(x) \notin DownIn(f)
<1> DEFINE Lines(n) == UNION {LinkLine(g, p, f) : p \in LinksOf(g, n, "down" \in flags)}
<1>1. PICK n \in 1..Len(g.nodes) : x \in Lines(n)
  BY DEF LinkList
<1>2. PICK p \in LinksOf(g, n, "down" \in flags) : x \in LinkLine(g, p, f)
  BY <1>1
<1>3. PICK k \in 1..Numports(g.nodes[n]) : g.nodes[n].slots[k] = p /\ p # 0
  BY DEF LinksOf
<1>4. p \in Entered(g) /\ g.ports[p].node = n /\ g.ports[p].num = k
  BY <1>3, SlotIs
<1>5. x = PortLine("", g, p)
  BY <1>2 DEF LinkLine
<1>6. LineKey(x) = PlaceOf(g, p)
  BY <1>5 DEF LineKey, PortLine, PlaceOf
<1>7. PICK q \in Entered(g) : g.ports[q].num > 0 /\ g.ports[q].state = "down" /\ PlaceOf(g, q) = LineKey(x)
  BY DEF DownIn, PlaceOf
<1>8. /\ g.nodes[g.ports[q].node].guid = g.nodes[n].guid /\ g.ports[q].num = k
      /\ g.ports[q].node \in 1..Len(g.nodes)
      /\ g.nodes[g.ports[q].node].slots[g.ports[q].num] = q
  BY <1>4, <1>6, <1>7, PortIs DEF PlaceOf
<1>9. g.ports[q].node = n
  <2>1. FindNodeGuid(g, g.nodes[g.ports[q].node].guid) = g.ports[q].node
    BY <1>8, NodeWithItsGuid
  <2>2. FindNodeGuid(g, g.nodes[n].guid) = n
    BY NodeWithItsGuid
  <2>3. QED
    BY <1>8, <2>1, <2>2
<1>10. p = q
  BY <1>3, <1>8, <1>9
<1>11. ~FilteredDown(f, g.nodes[n], g.ports[p])
  BY <1>2, <1>4, <1>7, <1>10 DEF LinkLine
<1>12. g.ports[p].num \in Nat /\ g.ports[p].num > 0
  BY <1>4
<1>13. <<g.nodes[n].guid, g.ports[p].num>> \notin DownIn(f)
  BY <1>11, <1>12, FilteredIsDown
<1>14. QED
  BY <1>4, <1>6, <1>13 DEF PlaceOf

LEMMA NewlyDownAreListed ==
  ASSUME NEW f, Whole(f), NEW g, Whole(g), NEW flags, Types \subseteq flags
  PROVE  {<<x.guid, x.num>> : x \in LinkList(g, f, flags)} \cap DownIn(g)
           = DownIn(g) \ DownIn(f)
<1> DEFINE Listed == {<<x.guid, x.num>> : x \in LinkList(g, f, flags)}
<1>1. ASSUME NEW y \in DownIn(g), y \notin DownIn(f) PROVE y \in Listed
  <2>1. PICK q \in Entered(g) : g.ports[q].num > 0 /\ g.ports[q].state = "down" /\ PlaceOf(g, q) = y
    BY DEF DownIn, PlaceOf
  <2>2. PortLine("", g, q) \in LinkList(g, f, flags)
    BY <1>1, <2>1, NewlyDownIsIn
  <2>3. <<PortLine("", g, q).guid, PortLine("", g, q).num>> = y
    BY <2>1 DEF PortLine, PlaceOf
  <2>4. QED
    BY <2>2, <2>3
<1>2. ASSUME NEW y \in Listed, y \in DownIn(g) PROVE y \notin DownIn(f)
  <2>1. PICK x \in LinkList(g, f, flags) : y = LineKey(x)
    BY DEF LineKey
  <2>2. QED
    BY <1>2, <2>1, ListedIsNewlyDown
<1> HIDE DEF Listed
<1>3. Listed \cap DownIn(g) = DownIn(g) \ DownIn(f)
  BY <1>1, <1>2
<1>4. QED
  BY <1>3 DEF Listed

------------------------------------------------------------------------------
(* What was reported. *)

\* A comparison is of the fabric loaded, which is whole.
Told ==
  /\ report = [t \in Tools |-> report[t]]
  /\ \A t \in Tools :
       old[t] # None =>
         /\ Whole(old[t])
         /\ plan[t].diff # None => report[t] = Report(plan[t].diff, old[t], plan[t].scan)

LEMMA InitIsTold ==
  ASSUME Init
  PROVE  Told
<1>1. report = [t \in Tools |-> {}] /\ old = [t \in Tools |-> None]
  BY DEF Init
<1>2. QED
  BY <1>1 DEF Told

LEMMA UseKeepsTold ==
  ASSUME IInv, Told, NEW t \in Tools, Use(t)
  PROVE  Told'
<1> DEFINE f == Loaded(got[t], want[t])
<1>1. plan' = plan
  BY DEF Use
<1>2. CASE ~Readable(got[t], want[t])
  BY <1>1, <1>2 DEF Use, Told
<1>3. CASE Readable(got[t], want[t])
  <2>1. old' = [old EXCEPT ![t] = f] /\ pc[t] = "items" /\ ~Missing(t)
    BY <1>3 DEF Use
  <2>2. Whole(f)
    <3>1. Sound(plan, pc, fab[ino[t]]) /\ fab[ino[t]].from # 0 /\ f = Copy(fab[ino[t]])
      BY <1>3, <2>1, ReadToTheEnd
    <3>2. QED
      BY <3>1, CopyIsWhole DEF Sound
  <2> DEFINE r == Report(plan[t].diff, f, plan[t].scan)
  <2>3. IF plan[t].diff # None THEN report' = [report EXCEPT ![t] = r] ELSE report' = report
    BY <1>3 DEF Use
  <2> HIDE DEF f, r
  <2>4. \A u \in Tools : old'[u] = IF u = t THEN f ELSE old[u]
    BY <2>1 DEF IInv, Typed
  <2>5. /\ report' = [u \in Tools |-> report'[u]]
        /\ \A u \in Tools : u # t => report'[u] = report[u]
        /\ plan[t].diff # None => report'[t] = r
    BY <2>3 DEF Told
  <2>6. ASSUME NEW u \in Tools, old'[u] # None
        PROVE  /\ Whole(old'[u])
               /\ plan[u].diff # None => report'[u] = Report(plan[u].diff, old'[u], plan[u].scan)
    <3>1. CASE u = t
      BY <2>2, <2>4, <2>5, <3>1 DEF r
    <3>2. CASE u # t
      BY <2>4, <2>5, <2>6, <3>2 DEF Told
    <3>3. QED
      BY <3>1, <3>2
  <2>7. QED
    BY <1>1, <2>5, <2>6 DEF Told
<1>4. QED
  BY <1>2, <1>3

LEMMA StepKeepsTold ==
  ASSUME IInv, Told, [Next]_vars
  PROVE  Told'
<1>1. (\E t \in Tools : Use(t)) \/ UNCHANGED <<plan, old, report>>
  BY DEF Next, vars, load_vars, Load, Store, OpenRead, ReadHeader, ReadNode, ReadPort, TakeItem,
         ReadFails, Stat, Unlink, Create, WriteHeader, WriteNode, WritePort, PutItem, WriteCounts,
         Close, WriteFails, Cleanup, Kill, Cut
<1>2. CASE UNCHANGED <<plan, old, report>>
  BY <1>2 DEF Told
<1>3. QED
  BY <1>1, <1>2, UseKeepsTold

LEMMA ToldIsRight ==
  ASSUME IInv, Told
  PROVE  SilentIffSame
<1> SUFFICES ASSUME NEW t \in Tools, old[t] # None, plan[t].diff # None
             PROVE  LET d == plan[t].diff
                        new == plan[t].scan
                    IN  /\ d.tool # "links" /\ View(old[t]) = View(Kept(new)) => report[t] = {}
                        /\ /\ d.tool # "links" /\ "port" \in d.flags /\ d.node = 0
                           /\ d.tool = "ibnetdiscover" => Types \subseteq d.flags
                           /\ report[t] = {}
                           => Seen(d, old[t]) = Seen(d, new) /\ Cables(old[t]) = Cables(new)
                        /\ d.tool = "links" /\ Types \subseteq d.flags =>
                             {<<x.guid, x.num>> : x \in report[t]} \cap DownIn(new)
                               = DownIn(new) \ DownIn(old[t])
  BY DEF SilentIffSame, SameFabricIsSilent, SilenceMeansSameFabric, NewlyDownIsListed, Compared
<1> DEFINE d == plan[t].diff
           new == plan[t].scan
           f == old[t]
<1>1. Whole(f) /\ report[t] = Report(d, f, new)
  BY DEF Told
<1>2. Whole(new)
  <2>1. PICK job \in Jobs : plan = job.plan
    BY DEF IInv, Typed
  <2>2. IsPlan(plan[t])
    BY <2>1, FabricCacheAssumption
  <2>3. QED
    BY <2>2 DEF IsPlan
<1> HIDE DEF d, new, f
<1>3. ASSUME d.tool # "links", View(f) = View(Kept(new)) PROVE report[t] = {}
  BY <1>1, <1>2, <1>3, SameViewIsSilent
<1>4. ASSUME d.tool # "links", "port" \in d.flags, d.node = 0,
             d.tool = "ibnetdiscover" => Types \subseteq d.flags, report[t] = {}
      PROVE  Seen(d, f) = Seen(d, new) /\ Cables(f) = Cables(new)
  <2>1. CASE d.tool = "ibnetdiscover"
    <3>1. Diff(f, new, d.flags) = {}
      BY <1>1, <1>4, <2>1 DEF Report
    <3>2. SameLinks(f, new) /\ AllKnown(f, new) /\ AllKnown(new, f)
      BY <1>1, <1>2, <1>4, <2>1, <3>1, SilentDiff
    <3>3. QED
      BY <1>1, <1>2, <3>2, SeenIsSame, SameCables
  <2>2. CASE d.tool # "ibnetdiscover"
    <3>1. LinkDiff(f, new, d.flags, d.line) = {}
      BY <1>1, <1>4, <2>2 DEF Report
    <3>2. SameLinks(f, new)
      BY <1>1, <1>2, <1>4, <3>1, SilentLinkDiff
    <3>3. QED
      BY <1>1, <1>2, <2>2, <3>2, SeenIsSame, SameCables
  <2>3. QED
    BY <2>1, <2>2
<1>5. ASSUME d.tool = "links", Types \subseteq d.flags
      PROVE  {<<x.guid, x.num>> : x \in report[t]} \cap DownIn(new) = DownIn(new) \ DownIn(f)
  <2>1. report[t] = LinkList(new, f, d.flags)
    BY <1>1, <1>5 DEF Report
  <2>2. QED
    BY <1>1, <1>2, <1>5, <2>1, NewlyDownAreListed
<1>6. QED
  BY <1>3, <1>4, <1>5 DEF d, new, f

------------------------------------------------------------------------------
(* The theorems. *)

\* However stores and loads by any number of tools overlap, fail, are killed or find
\* a file cut short, the fabric ibnd_load_fabric returns is the one that was stored
\* in the file it opened: the counts are written last, and every read is checked.
\* A GUID that ibcacheedit gives to a node or a port must be a new one.
THEOREM LoadsAreStored ==
  ASSUME GuidsAreNew
  PROVE  Spec => []LoadedIsStored
<1>1. Init => IInv
  BY InitIsInv
<1>2. IInv /\ [Next]_vars => IInv'
  BY StepKeepsInv
<1>3. IInv => LoadedIsStored
  BY DEF IInv, Remembered, LoadedIsStored
<1>4. QED
  BY <1>1, <1>2, <1>3, PTL DEF Spec

\* What ibnd_cache_fabric has returned 0 for can be loaded, unless the file was cut
\* short since, and is the fabric that was in hand: scanned, or loaded and edited.
THEOREM CachesCanBeLoaded ==
  ASSUME GuidsAreNew
  PROVE  Spec => []CachedCanBeLoaded
<1>1. Init => IInv
  BY InitIsInv
<1>2. IInv /\ [Next]_vars => IInv'
  BY StepKeepsInv
<1>3. IInv => CachedCanBeLoaded
  <2> SUFFICES ASSUME IInv, NEW t \in Tools, pc[t] = "done", plan[t].store, t \notin cut
               PROVE  /\ Readable(file[t].body, file[t].header)
                      /\ View(Loaded(file[t].body, file[t].header)) = View(Kept(fab[t]))
    BY DEF CachedCanBeLoaded
  <2>1. Complete(file[t], fab[t])
    BY DEF IInv, Finished
  <2>2. QED
    BY <2>1, RoundTrip DEF Complete
<1>4. QED
  BY <1>1, <1>2, <1>3, PTL DEF Spec

\* A comparison with the cache of the same fabric prints nothing; one that compares
\* everything and prints nothing is of two fabrics with the same nodes and cables; and
\* iblinkinfo --filterdownports lists every port that has gone down since the cache was
\* stored, and none that was down then: for all fabrics, all flags and both tools, and
\* whatever other tools do to the cache meanwhile.
THEOREM ReportsTellFabrics ==
  ASSUME GuidsAreNew
  PROVE  Spec => []SilentIffSame
<1>1. Init => IInv /\ Told
  BY InitIsInv, InitIsTold
<1>2. IInv /\ Told /\ [Next]_vars => IInv' /\ Told'
  BY StepKeepsInv, StepKeepsTold
<1>3. IInv /\ Told => SilentIffSame
  BY ToldIsRight
<1>4. QED
  BY <1>1, <1>2, <1>3, PTL DEF Spec

=============================================================================
