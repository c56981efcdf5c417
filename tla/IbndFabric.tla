----------------------------- MODULE IbndFabric -----------------------------
(***************************************************************************)
(* A fabric in memory, as libibnetdisc keeps it (ibnd_fabric_t), and what  *)
(* ibcacheedit changes in one.                                             *)
(*                                                                         *)
(* Nodes and ports are objects that point at each other.  An object is     *)
(* identified by its place in the sequence nodes or ports; 0 is NULL.      *)
(*                                                                         *)
(*   nodes[n]  guid, type, lid, desc, sys (system image GUID) and          *)
(*             slots: the array node->ports, from 0 to numports            *)
(*   ports[p]  guid, num, node, remote, lid, state, ext (ext_info)         *)
(*   table     the ports entered in portstbl, in the order of its buckets  *)
(*   from      from_node                                                   *)
(***************************************************************************)
EXTENDS Naturals, Sequences, FiniteSets

Numports(node) == Cardinality(DOMAIN node.slots) - 1

\* ibnd_find_node_guid: the node with that GUID, or NULL.
FindNodeGuid(f, guid) ==
  LET found == {n \in 1..Len(f.nodes) : f.nodes[n].guid = guid}
  IN  IF found = {} THEN 0 ELSE CHOOSE n \in found : \A m \in found : n >= m

\* The objects seen from outside: what each points at, named by GUIDs.
PortView(f, p) ==
  IF p = 0 THEN [guid |-> 0]
  ELSE LET port == f.ports[p]
       IN  [guid |-> port.guid, num |-> port.num, lid |-> port.lid, state |-> port.state,
            ext |-> port.ext, node |-> f.nodes[port.node].guid,
            remote |-> IF port.remote = 0 THEN <<>>
                       ELSE LET far == f.ports[port.remote]
                            IN  <<f.nodes[far.node].guid, far.guid, far.num>>]

View(f) ==
  [nodes |-> [n \in 1..Len(f.nodes) |->
                [f.nodes[n] EXCEPT !.slots = [k \in DOMAIN @ |-> PortView(f, @[k])]]],
   from |-> f.nodes[f.from].guid,
   hops |-> f.hops]

------------------------------------------------------------------------------
\* A change ibcacheedit is asked for: before and after are GUIDs, node is the
\* GUID of the node with -portguid.

\* replace_node_guid, and update_switchportguids for a switch.
ReplaceNodeGuid(f, type, before, after) ==
  LET hit == {n \in 1..Len(f.nodes) : f.nodes[n].type = type /\ f.nodes[n].guid = before}
  IN  [f EXCEPT
         !.nodes = [n \in DOMAIN @ |-> IF n \in hit THEN [@[n] EXCEPT !.guid = after] ELSE @[n]],
         !.ports = [p \in DOMAIN @ |->
                      IF type = "sw" /\ \E n \in hit : p \in {f.nodes[n].slots[k] :
                                                           k \in DOMAIN f.nodes[n].slots}
                      THEN [@[p] EXCEPT !.guid = after] ELSE @[p]]]

ReplaceSysGuid(f, before, after) ==
  [f EXCEPT !.nodes = [n \in DOMAIN @ |->
                         IF @[n].sys = before THEN [@[n] EXCEPT !.sys = after] ELSE @[n]]]

\* replace_portguid: for a switch its own GUID; else the first port that has it.
ReplacePortGuid(f, node, before, after) ==
  LET n == FindNodeGuid(f, node)
      hit == {k \in 1..Numports(f.nodes[n]) :
                f.nodes[n].slots[k] # 0 /\ f.ports[f.nodes[n].slots[k]].guid = before}
  IN  IF f.nodes[n].type = "sw"
      THEN IF node = before THEN ReplaceNodeGuid(f, "sw", before, after) ELSE f
      ELSE IF hit = {} THEN f
           ELSE [f EXCEPT !.ports[f.nodes[n].slots[CHOOSE k \in hit : \A j \in hit : k <= j]].guid
                            = after]

Edit(f, c) ==
  CASE c.what = "switchguid" -> ReplaceNodeGuid(f, "sw", c.before, c.after)
    [] c.what = "caguid"     -> ReplaceNodeGuid(f, "ca", c.before, c.after)
    [] c.what = "sysimgguid" -> ReplaceSysGuid(f, c.before, c.after)
    [] c.what = "portguid"   ->
         IF FindNodeGuid(f, c.node) = 0 THEN f
         ELSE ReplacePortGuid(f, c.node, c.before, c.after)
=============================================================================
