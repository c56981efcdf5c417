----------------------------- MODULE FabricDiff -----------------------------
(***************************************************************************)
(* The comparison of two fabrics: ibnetdiscover --diff                     *)
(* (src/ibnetdiscover.c) and iblinkinfo --diff (src/iblinkinfo.c).         *)
(*                                                                         *)
(* The output is the set of its lines.  A line is about one of the two     *)
(* fabrics, "<" the old one or ">" the new one: a node, a port, the number *)
(* of ports or, what = "detail", a node whose LID or description changed.  *)
(* The line Crash stands for the tool dereferencing NULL.                  *)
(***************************************************************************)
EXTENDS IbndFabric

Types == {"sw", "ca", "rt"}

Crash == [what |-> "crash"]

\* Below, f is the fabric whose nodes are gone through, prefix its prefix, and
\* f2 the other one.
NodeLine(prefix, node) == [what |-> "node", side |-> prefix, guid |-> node.guid]
PortLine(prefix, f, p) ==
  [what |-> "port", side |-> prefix, guid |-> f.nodes[f.ports[p].node].guid,
   num |-> f.ports[p].num]

Swap(prefix) == IF prefix = "<" THEN ">" ELSE "<"

Both(what, prefix, node, node2) ==
  {[what |-> what, side |-> prefix, guid |-> node.guid],
   [what |-> what, side |-> Swap(prefix), guid |-> node2.guid]}

Remote(f, p) == IF p = 0 THEN 0 ELSE f.ports[p].remote

\* The remote ends of two connected ports differ in what is asked for.
FarDiffers(f, p, f2, p2, flags) ==
  /\ "port" \in flags
  /\ Remote(f, p) # 0 /\ Remote(f2, p2) # 0
  /\ LET far == f.ports[f.ports[p].remote]
         far2 == f2.ports[f2.ports[p2].remote]
     IN  \/ "nodedesc" \in flags /\ f.nodes[far.node].desc # f2.nodes[far2.node].desc
         \/ "lid" \in flags /\ far.lid # far2.lid

\* Mutant of FarGuidDiffers: only whether a port is connected is compared.
FarGuidIgnored(f, p, f2, p2) == FALSE

FarGuidDiffers(f, p, f2, p2) ==
  /\ Remote(f, p) # 0 /\ Remote(f2, p2) # 0
  /\ f.ports[Remote(f, p)].guid # f2.ports[Remote(f2, p2)].guid

------------------------------------------------------------------------------
\* diff_ports of ibnetdiscover prints a port of a side if its flag is set, and
\* out_switch_port and out_ca_port follow its remoteport.
OutPort(prefix, f, p) == IF Remote(f, p) = 0 THEN Crash ELSE PortLine(prefix, f, p)

\* Only in the first fabric: the port, or the connection.
Gone(f, p, f2, p2) ==
  (p # 0 /\ p2 = 0) \/ (p # 0 /\ p2 # 0 /\ Remote(f, p) # 0 /\ Remote(f2, p2) = 0)

BothDiffer(f, p, f2, p2, flags) ==
  /\ p # 0 /\ p2 # 0
  /\ \/ /\ "port" \in flags
        /\ ~Gone(f, p, f2, p2) /\ ~Gone(f2, p2, f, p)
        /\ f.ports[p].guid # f2.ports[p2].guid \/ FarGuidDiffers(f, p, f2, p2)
     \/ "lid" \in flags /\ f.ports[p].lid # f2.ports[p2].lid
     \/ FarDiffers(f, p, f2, p2, flags)

DiffPort(f, p, f2, p2, flags, prefix) ==
  (IF ("port" \in flags /\ Gone(f, p, f2, p2)) \/ BothDiffer(f, p, f2, p2, flags)
   THEN {OutPort(prefix, f, p)} ELSE {})
  \cup
  (IF ("port" \in flags /\ Gone(f2, p2, f, p)) \/ BothDiffer(f, p, f2, p2, flags)
   THEN {OutPort(Swap(prefix), f2, p2)} ELSE {})

NodeDiffers(node, node2, flags) ==
  \/ "lid" \in flags /\ node.lid # node2.lid
  \/ "nodedesc" \in flags /\ node.desc # node2.desc

\* diff_iter_func
DiffNode(f, n, f2, flags, prefix) ==
  LET node == f.nodes[n]
      n2 == FindNodeGuid(f2, node.guid)
      node2 == f2.nodes[n2]
  IN  IF n2 = 0
      THEN {NodeLine(prefix, node)} \cup
           {PortLine(prefix, f, node.slots[k]) :
              k \in {j \in 1..Numports(node) : Remote(f, node.slots[j]) # 0}}
      ELSE IF flags \cap {"port", "lid", "nodedesc"} = {} THEN {}
      ELSE (IF NodeDiffers(node, node2, flags)
            THEN Both("detail", prefix, node, node2) ELSE {})
           \cup
           (IF Numports(node) # Numports(node2) THEN Both("numports", prefix, node, node2)
            ELSE IF flags \cap {"port", "lid"} = {} THEN {}
            ELSE UNION {DiffPort(f, node.slots[k], f2, node2.slots[k], flags, prefix) :
                          k \in 1..Numports(node)})

\* The second pass of diff_common only looks for nodes the first did not know.
DiffBack(old, new, flags) ==
  UNION {DiffNode(new, n, old, flags \ {"port", "lid", "nodedesc"}, ">") :
           n \in {m \in 1..Len(new.nodes) : new.nodes[m].type \in flags}}

\* diff and diff_common, for the node types asked for.
Diff(old, new, flags) ==
  (UNION {DiffNode(old, n, new, flags, "<") :
            n \in {m \in 1..Len(old.nodes) : old.nodes[m].type \in flags}})
  \cup DiffBack(old, new, flags)

------------------------------------------------------------------------------
\* print_node of iblinkinfo prints every port of a node there is.
PrintNode(f, n, prefix) ==
  {PortLine(prefix, f, p) :
     p \in {f.nodes[n].slots[k] : k \in 1..Numports(f.nodes[n])} \ {0}}

\* diff_node_ports, for one port number.
LinkDiffers(f, p, f2, p2, flags) ==
  \/ /\ "port" \in flags
     /\ \/ (p = 0) # (p2 = 0)
        \/ p # 0 /\ p2 # 0 /\ (Remote(f, p) = 0) # (Remote(f2, p2) = 0)
        \/ FarGuidDiffers(f, p, f2, p2)
  \/ "state" \in flags /\ p # 0 /\ p2 # 0 /\ f.ports[p].state # f2.ports[p2].state
  \/ p # 0 /\ p2 # 0 /\ FarDiffers(f, p, f2, p2, flags)

LinkPort(f, p, f2, p2, flags, prefix) ==
  IF ~LinkDiffers(f, p, f2, p2, flags) THEN {}
  ELSE {PortLine(prefix, f, q) : q \in {p} \ {0}}
       \cup {PortLine(Swap(prefix), f2, q) : q \in {p2} \ {0}}

\* diff_node_iter.  print_node_header is given no flag to count in where a
\* node's LID or description differs; it counts unless -l is given.
LinkNode(f, n, f2, flags, prefix, line) ==
  LET node == f.nodes[n]
      n2 == FindNodeGuid(f2, node.guid)
      node2 == f2.nodes[n2]
  IN  IF n2 = 0 THEN PrintNode(f, n, prefix)
      ELSE IF flags \cap {"port", "state", "lid", "nodedesc"} = {} THEN {}
      ELSE IF /\ ~line
              /\ \/ node.type = "sw" /\ "lid" \in flags /\ node.lid # node2.lid
                 \/ "nodedesc" \in flags /\ node.desc # node2.desc
           THEN {Crash}
      ELSE IF Numports(node) # Numports(node2) THEN Both("numports", prefix, node, node2)
      ELSE UNION {LinkPort(f, node.slots[k], f2, node2.slots[k], flags, prefix) :
                    k \in 1..Numports(node)}

\* diff_node, for all nodes.
LinkDiff(old, new, flags, line) ==
  (UNION {LinkNode(old, n, new, flags, "<", line) : n \in 1..Len(old.nodes)})
  \cup (UNION {LinkNode(new, n, old, {}, ">", line) : n \in 1..Len(new.nodes)})

\* diff_node, for the one node a partial scan was asked for: it is a node of the
\* new fabric in both passes.
LinkDiffOne(old, new, guid, flags, line) ==
  LET n == FindNodeGuid(new, guid)
  IN  IF n = 0 THEN {}
      ELSE LinkNode(new, n, new, flags, "<", line) \cup LinkNode(new, n, old, {}, ">", line)

------------------------------------------------------------------------------
\* Mutant of FilteredDown: the port's present state is looked at.
FilteredAnyway(filter, node, p) == p.state = "down"

\* filterdownport_check: the cache has the port, and has it down.
FilteredDown(filter, node, p) ==
  LET m == FindNodeGuid(filter, node.guid)
  IN  /\ m # 0 /\ p.num <= Numports(filter.nodes[m])
      /\ LET was == filter.nodes[m].slots[p.num]
         IN  was # 0 /\ filter.ports[was].state = "down"

\* print_port: the line of a port, unless it is filtered.
LinkLine(f, p, filter) ==
  IF f.ports[p].state = "down" /\ FilteredDown(filter, f.nodes[f.ports[p].node], f.ports[p])
  THEN {} ELSE {PortLine("", f, p)}

\* print_node, with --down
LinksOf(f, n, downOnly) ==
  {p \in {f.nodes[n].slots[k] : k \in 1..Numports(f.nodes[n])} \ {0} :
     downOnly => f.ports[p].state = "down"}

\* iblinkinfo --filterdownports, without --diff: the links of the nodes of some
\* types, or only those that are down, with a cache that says which were down.
LinkList(f, filter, flags) ==
  UNION {UNION {LinkLine(f, p, filter) : p \in LinksOf(f, n, "down" \in flags)} :
           n \in {m \in 1..Len(f.nodes) : f.nodes[m].type \in flags}}

\* What is asked for: of which tool, with which checks (flags; for ibnetdiscover
\* and a listing of links also the node types), for which node (0: all), with -l.
Report(d, old, new) ==
  IF d.tool = "ibnetdiscover" THEN Diff(old, new, d.flags)
  ELSE IF d.tool = "links" THEN LinkList(new, old, d.flags)
  ELSE IF d.node = 0 THEN LinkDiff(old, new, d.flags, d.line)
  ELSE LinkDiffOne(old, new, d.node, d.flags, d.line)
=============================================================================
