--------------------------- MODULE MCFabricCache ----------------------------
(***************************************************************************)
(* Fabrics of a switch S (GUID 10), a dual-port CA A (GUID 20, ports 21    *)
(* and 22) and a CA B (GUID 30, port 31), or of two switches joined by two *)
(* cables, and two tools that store, load, compare and edit them.          *)
(***************************************************************************)
EXTENDS FabricCache, TLC

Node(guid, type, lid, slots) ==
  [guid |-> guid, type |-> type, lid |-> lid, desc |-> guid, sys |-> 1, slots |-> slots]

Slots(s) == [k \in 0..(Len(s) - 1) |-> s[k + 1]]

Port(guid, num, node, remote) ==
  [guid |-> guid, num |-> num, node |-> node, remote |-> remote,
   lid |-> IF node = 1 THEN 1 ELSE guid, state |-> IF remote = 0 THEN "down" ELSE "up",
   ext |-> IF guid = 31 THEN 1 ELSE 0]

\* S has ports 0 to 3.  far[k] is the port of A or B at the other end of the
\* cable at port k of S: object 5 (A port 1), 6 (A port 2), 7 (B) or none.
Star(far, lid) ==
  [nodes |-> <<Node(10, "sw", lid, Slots(<<1, 2, 3, 4>>)), Node(20, "ca", 0, Slots(<<0, 5, 6>>)),
               Node(30, "ca", 0, Slots(<<0, 7>>))>>,
   ports |-> [p \in 1..7 |->
     LET end == {k \in 1..3 : far[k] = p}
     IN  CASE p <= 4 -> Port(10, p - 1, 1, IF p = 1 THEN 0 ELSE far[p - 1])
           [] p = 5 -> Port(21, 1, 2, IF end = {} THEN 0 ELSE 1 + CHOOSE k \in end : TRUE)
           [] p = 6 -> Port(22, 2, 2, IF end = {} THEN 0 ELSE 1 + CHOOSE k \in end : TRUE)
           [] p = 7 -> Port(31, 1, 3, IF end = {} THEN 0 ELSE 1 + CHOOSE k \in end : TRUE)],
   table |-> <<4, 1, 7, 2, 5, 3, 6>>, from |-> 2, hops |-> 2]

Straight == Star(<<5, 6, 7>>, 1)
Crossed == Star(<<6, 5, 7>>, 1)
Unplugged == Star(<<5, 6, 0>>, 1)

\* B is gone: its node, and the cable at port 3 of S.
Smaller ==
  LET f == Unplugged
  IN  [f EXCEPT !.nodes = SubSeq(@, 1, 2), !.ports = SubSeq(@, 1, 6), !.table = <<4, 1, 2, 5, 3, 6>>]

\* B is found, but not its port.
Portless == [Smaller EXCEPT !.nodes = Append(@, Node(30, "ca", 0, Slots(<<0, 0>>)))]

\* A switch and one CA: two of these differ in everything but their size.
Cable(sw, ca) ==
  [nodes |-> <<Node(sw, "sw", 1, Slots(<<1, 2>>)), Node(ca, "ca", 0, Slots(<<0, 3>>))>>,
   ports |-> <<Port(sw, 0, 1, 0), Port(sw, 1, 1, 3), Port(ca + 1, 1, 2, 2)>>,
   table |-> <<3, 1, 2>>, from |-> 2, hops |-> 1]

\* Two switches, joined by parallel cables (or crossed ones), scanned from the
\* first.
Pair(crossed) ==
  [nodes |-> <<Node(10, "sw", 1, Slots(<<1, 2, 3>>)), Node(11, "sw", 2, Slots(<<4, 5, 6>>))>>,
   ports |-> <<Port(10, 0, 1, 0), Port(10, 1, 1, IF crossed THEN 6 ELSE 5),
               Port(10, 2, 1, IF crossed THEN 5 ELSE 6), Port(11, 0, 2, 0),
               Port(11, 1, 2, IF crossed THEN 3 ELSE 2), Port(11, 2, 2, IF crossed THEN 2 ELSE 3)>>,
   table |-> <<1, 2, 3, 4, 5, 6>>, from |-> 1, hops |-> 1]

NotStarted == [Straight EXCEPT !.from = 0]

Does(load, scan, change, diff, store, keep) ==
  [load |-> load, scan |-> scan, change |-> change, diff |-> diff, store |-> store, keep |-> keep]
Caches(f) == Does(FALSE, f, None, None, TRUE, FALSE)
Keeps(f) == Does(FALSE, f, None, None, TRUE, TRUE)
Loads == Does(TRUE, None, None, None, FALSE, FALSE)
Idle == Does(FALSE, None, None, None, FALSE, FALSE)
Edits(c) == Does(TRUE, None, c, None, TRUE, FALSE)
Compares(d, f) == Does(TRUE, f, None, d, FALSE, FALSE)

Change(what, node, before, after) ==
  [what |-> what, node |-> node, before |-> before, after |-> after]
Changes == {Change("switchguid", 0, 10, 12), Change("caguid", 0, 20, 23),
            Change("sysimgguid", 0, 1, 2), Change("portguid", 20, 22, 24),
            Change("portguid", 10, 10, 12), Change("portguid", 20, 31, 32)}

Ibnetdiscover(flags) == [tool |-> "ibnetdiscover", flags |-> flags, node |-> 0, line |-> FALSE]
Iblinkinfo(flags, node, line) ==
  [tool |-> "iblinkinfo", flags |-> flags, node |-> node, line |-> line]
Diffs == {Ibnetdiscover(Types \cup {"port"}), Ibnetdiscover({"ca", "port", "nodedesc"}),
          Iblinkinfo({"port", "state"}, 0, FALSE), Iblinkinfo({"port", "lid", "nodedesc"}, 0, TRUE),
          Iblinkinfo({"port", "state"}, 10, FALSE)}

Links(flags) == [tool |-> "links", flags |-> flags, node |-> 0, line |-> FALSE]

Two(a, b) == [t \in {"a", "b"} |-> IF t = "a" THEN a ELSE b]
Job(before, a, b) == [before |-> before, plan |-> Two(a, b)]

Overlapping ==
  {Job(before, Caches(Cable(10, 20)), b) : before \in {None, Cable(11, 30)},
     b \in {Loads, Caches(Cable(12, 40)), Keeps(Cable(12, 40)),
            Edits(Change("switchguid", 0, 10, 12))}}

Editing == {Job(Straight, Edits(c), Idle) : c \in Changes}

Comparing ==
  {Job(before, Idle, Compares(d, scan)) :
     before \in {Straight, Unplugged}, d \in Diffs, scan \in {Straight, Crossed, Unplugged, Smaller}}
  \cup {Job(Pair(FALSE), Idle, Compares(d, Pair(c))) : c \in BOOLEAN, d \in Diffs}
  \cup {Job(Smaller, Idle, Compares(d, scan)) : d \in Diffs, scan \in {Straight, Portless}}
  \cup {Job(Portless, Idle, Compares(d, scan)) : d \in Diffs, scan \in {Straight, Smaller}}

Listing ==
  {Job(before, Idle, Compares(Links(flags), scan)) :
     before \in {Straight, Unplugged, Smaller}, scan \in {Straight, Unplugged, Smaller},
     flags \in {Types, Types \cup {"down"}, {"sw"}}}

MCJobs == Overlapping \cup Editing \cup Comparing \cup Listing \cup {Job(None, Caches(NotStarted), Loads)}

ASSUME MCGuidsAssumption == GuidsAreNew

=============================================================================
