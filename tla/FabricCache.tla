----------------------------- MODULE FabricCache -----------------------------
(***************************************************************************)
(* The fabric cache (libibnetdisc/src/ibnetdisc_cache.c) and the tools     *)
(* that store and load one under the same name: ibnetdiscover --cache,     *)
(* --load-cache and --diff, iblinkinfo --diff, ibcacheedit.                *)
(*                                                                         *)
(* A store removes the file, creates a new one, writes a header without    *)
(* counts, the nodes, the ports, and at last the counts.  A load reads the *)
(* header, as many nodes and ports as it counts, and rebuilds the fabric.  *)
(* Both are done a write or a read at a time, by several tools at once:    *)
(* each can fail at any of them, be killed, or find the file cut short.    *)
(*                                                                         *)
(* Abstractions.  The bytes are a header and a sequence of items; an item  *)
(* is written and read whole (an item cut short is read as none is).       *)
(* Switch, node and port information is desc, state and sys.  A file is    *)
(* named by the tool that created it, Initial by none.  Hash tables are    *)
(* lookups: the last one stored is found first.  Chassis are grouped again *)
(* after a load as after a scan (module Chassis).                          *)
(***************************************************************************)
EXTENDS FabricDiff

CONSTANTS
  Tools,            \* the processes
  Jobs,             \* what the tools are run for: plan, and the fabric cached
                    \* before them, or None
  Initial,          \* the file that holds it
  MaxCuts,          \* bound: how many files lose their end
  None              \* no file, no fabric, no comparison, no change

VARIABLES
  plan,             \* load: whether the cache is loaded; scan: the fabric found
                    \* by a scan, or None; change: see Edit, or None; diff: a
                    \* comparison of the loaded and the scanned fabric, or None;
                    \* store: whether the fabric is cached; keep: NO_OVERWRITE
  dir,              \* the file under the name, or None
  file,             \* contents: [header, body]
  pc,               \* of each tool
  ino,              \* the file it has open for reading
  got,              \* the items read from it
  want,             \* the header read from it
  old,              \* the fabric loaded, or None
  fab,              \* the fabric in hand: scanned, or loaded and edited
  report,           \* the output of the comparison
  cut               \* files that lost their end

vars == <<plan, dir, file, pc, ino, got, want, old, fab, report, cut>>
load_vars == <<ino, got, want, old, report>>

Empty == [header |-> None, body |-> <<>>]

------------------------------------------------------------------------------
\* The key of a port in the file.
Key(f, p) == <<f.ports[p].guid, f.ports[p].num>>

\* numports is kept in 8 bits.
IsNode(node) ==
  /\ node \in [guid : Nat, type : Types, lid : Nat, desc : Nat, sys : Nat,
               slots : [DOMAIN node.slots -> Nat]]
  /\ \E m \in 0..255 : DOMAIN node.slots = 0..m

PortObjects ==
  [guid : Nat, num : Nat, lid : Nat, state : {"up", "down"}, ext : Nat, node : Nat,
   remote : Nat]

IsFabric(f) ==
  /\ f \in [nodes : Seq({f.nodes[n] : n \in DOMAIN f.nodes}), ports : Seq(PortObjects),
            table : Seq(Nat), from : Nat, hops : Nat]
  /\ \A n \in DOMAIN f.nodes : IsNode(f.nodes[n])

Entered(f) == {f.table[i] : i \in DOMAIN f.table}

Guids(f) ==
  {f.nodes[n].guid : n \in DOMAIN f.nodes} \cup {f.ports[p].guid : p \in DOMAIN f.ports}

\* What a scan makes (module Discovery): a node has its ports at their numbers, every
\* port is in the table once, and GUIDs, with port numbers, tell nodes and ports apart.
Whole(f) ==
  /\ IsFabric(f)
  /\ f.from <= Len(f.nodes)
  /\ \A n, m \in DOMAIN f.nodes : f.nodes[n].guid = f.nodes[m].guid => n = m
  /\ \A n \in DOMAIN f.nodes : \A k \in DOMAIN f.nodes[n].slots :
       LET p == f.nodes[n].slots[k]
       IN  p # 0 => p \in Entered(f) /\ f.ports[p].node = n /\ f.ports[p].num = k
  /\ \A p \in Entered(f) :
       /\ p \in DOMAIN f.ports
       /\ f.ports[p].node \in DOMAIN f.nodes
       /\ f.ports[p].num \in DOMAIN f.nodes[f.ports[p].node].slots
       /\ f.nodes[f.ports[p].node].slots[f.ports[p].num] = p
       /\ f.ports[p].remote \in Entered(f) \cup {0}
  /\ \A p, q \in Entered(f) : Key(f, p) = Key(f, q) => p = q
  /\ \A i, j \in DOMAIN f.table : f.table[i] = f.table[j] => i = j

IsChange(c) ==
  /\ c.what \in {"switchguid", "caguid", "sysimgguid", "portguid"}
  /\ c.node \in Nat /\ c.before \in Nat /\ c.after \in Nat

\* What a tool stores it has scanned or loaded; what it compares with, scanned.
IsPlan(plan1) ==
  /\ plan1.scan # None => Whole(plan1.scan)
  /\ plan1.change # None => IsChange(plan1.change)
  /\ plan1.store => plan1.scan # None \/ (plan1.load /\ plan1.diff = None)
  /\ plan1.diff # None => plan1.scan # None

ASSUME FabricCacheAssumption ==
  /\ None \notin Tools \cup {Initial} /\ Initial \notin Tools
  /\ \A job \in Jobs :
       /\ job.before # None => Whole(job.before) /\ job.before.from # 0
       /\ \A t \in Tools : IsPlan(job.plan[t])

\* What gives a node or a port another GUID.
PutsIn(c) == c # None /\ c.what # "sysimgguid"

\* The GUIDs that ibcacheedit gives to nodes and ports are not in use.
GuidsAreNew ==
  \A job \in Jobs, t \in Tools :
    LET c == job.plan[t].change
    IN  PutsIn(c) =>
          /\ job.before # None => c.after \notin Guids(job.before)
          /\ \A u \in Tools :
               /\ job.plan[u].scan # None => c.after \notin Guids(job.plan[u].scan)
               /\ u # t /\ PutsIn(job.plan[u].change) => job.plan[u].change.after # c.after

\* _cache_node
NodeItem(f, n) ==
  LET node == f.nodes[n]
  IN  [kind |-> "node", guid |-> node.guid, type |-> node.type, lid |-> node.lid,
       desc |-> node.desc, sys |-> node.sys, numports |-> Numports(node),
       keys |-> {Key(f, p) : p \in {node.slots[k] : k \in DOMAIN node.slots} \ {0}}]

\* Mutant of PortItem: the remote port is looked up by its node's GUID.
PortItemByNode(f, p) ==
  LET port == f.ports[p]
  IN  [kind |-> "port", guid |-> port.guid, num |-> port.num, lid |-> port.lid,
       state |-> port.state, node |-> f.nodes[port.node].guid,
       remote |-> IF port.remote = 0 THEN <<>>
                  ELSE <<f.nodes[f.ports[port.remote].node].guid, f.ports[port.remote].num>>]

\* _cache_port: ext_info is not stored.
PortItem(f, p) ==
  LET port == f.ports[p]
  IN  [kind |-> "port", guid |-> port.guid, num |-> port.num, lid |-> port.lid,
       state |-> port.state, node |-> f.nodes[port.node].guid,
       remote |-> IF port.remote = 0 THEN <<>> ELSE Key(f, port.remote)]

\* What ibnd_cache_fabric writes after the header: the nodes of the list, the
\* ports of the GUID table.
Items(f) ==
  [n \in 1..Len(f.nodes) |-> NodeItem(f, n)]
  \o [i \in 1..Len(f.table) |-> PortItem(f, f.table[i])]

\* _cache_header_info
FirstHeader(f) ==
  [nodes |-> 0, ports |-> 0, from |-> f.nodes[f.from].guid, hops |-> f.hops]

\* The header once _cache_header_counts has put in the counts.
Header(f) ==
  [nodes |-> Len(f.nodes), ports |-> Len(f.table),
   from |-> f.nodes[f.from].guid, hops |-> f.hops]

------------------------------------------------------------------------------
\* Mutant of FindPort: the port number is not compared.
FindPortByGuid(ps, key) ==
  LET found == {p \in 1..Len(ps) : ps[p].guid = key[1]}
  IN  IF found = {} THEN 0 ELSE CHOOSE p \in found : \A q \in found : p >= q

\* _find_port
FindPort(ps, key) ==
  LET found == {p \in 1..Len(ps) : <<ps[p].guid, ps[p].num>> = key}
  IN  IF found = {} THEN 0 ELSE CHOOSE p \in found : \A q \in found : p >= q

\* _find_node
FindNode(ns, guid) ==
  LET found == {n \in 1..Len(ns) : ns[n].guid = guid}
  IN  IF found = {} THEN 0 ELSE CHOOSE n \in found : \A m \in found : n >= m

\* ns and ps make a fabric: the checks of ibnd_load_fabric, _fill_port and
\* _rebuild_ports.
Valid(ns, ps, from) ==
  /\ FindNode(ns, from) # 0
  /\ \A n \in 1..Len(ns) : \A key \in ns[n].keys :
       /\ FindPort(ps, key) # 0
       /\ \A m \in 1..Len(ns) : key \in ns[m].keys => m = n
  /\ \A p \in 1..Len(ps) :
       /\ FindNode(ns, ps[p].node) # 0
       /\ ps[p].remote # <<>> => FindPort(ps, ps[p].remote) # 0

\* The ports filled in are entered in the GUID table.
FilledIn(ns, ps) ==
  LET upto[p \in 0..Len(ps)] ==
        IF p = 0 THEN <<>>
        ELSE IF \E n \in 1..Len(ns) : <<ps[p].guid, ps[p].num>> \in ns[n].keys
        THEN Append(upto[p - 1], p) ELSE upto[p - 1]
  IN  upto[Len(ps)]

\* _rebuild_nodes and _rebuild_ports.
Rebuild(ns, ps, header) ==
  [nodes |-> [n \in 1..Len(ns) |->
     [guid |-> ns[n].guid, type |-> ns[n].type, lid |-> ns[n].lid,
      desc |-> ns[n].desc, sys |-> ns[n].sys,
      slots |-> [k \in 0..ns[n].numports |->
                   LET at == {key \in ns[n].keys : key[2] = k}
                   IN  IF at = {} THEN 0 ELSE FindPort(ps, CHOOSE key \in at : TRUE)]]],
   ports |-> [p \in 1..Len(ps) |->
     [guid |-> ps[p].guid, num |-> ps[p].num, lid |-> ps[p].lid, state |-> ps[p].state,
      ext |-> 0, node |-> FindNode(ns, ps[p].node),
      remote |-> IF ps[p].remote = <<>> THEN 0 ELSE FindPort(ps, ps[p].remote)]],
   table |-> FilledIn(ns, ps),
   from |-> FindNode(ns, header.from),
   hops |-> header.hops]

Readable(body, header) ==
  Valid(SubSeq(body, 1, header.nodes),
        SubSeq(body, header.nodes + 1, header.nodes + header.ports), header.from)

Loaded(body, header) ==
  LET ns == SubSeq(body, 1, header.nodes)
      ps == SubSeq(body, header.nodes + 1, header.nodes + header.ports)
  IN  Rebuild(ns, ps, header)

------------------------------------------------------------------------------
After(t) == IF plan[t].store THEN "stat" ELSE "done"

Init ==
  \E job \in Jobs :
    /\ plan = job.plan
    /\ dir = IF job.before = None THEN None ELSE Initial
    /\ file = [i \in Tools \cup {Initial} |->
                 IF i = dir THEN [header |-> Header(job.before), body |-> Items(job.before)]
                 ELSE Empty]
    /\ pc = [t \in Tools |-> IF plan[t].load THEN "open" ELSE After(t)]
    /\ ino = [t \in Tools |-> None]
    /\ got = [t \in Tools |-> <<>>]
    /\ want = [t \in Tools |-> None]
    /\ old = [t \in Tools |-> None]
    /\ fab = [t \in Tools \cup {Initial} |-> IF t = Initial THEN job.before ELSE plan[t].scan]
    /\ report = [t \in Tools |-> {}]
    /\ cut = {}

Goto(t, l) == pc' = [pc EXCEPT ![t] = l]

\* ibnd_load_fabric opens the file.  What it reads from now on is that file,
\* whatever happens to the name.
OpenRead(t) ==
  /\ pc[t] = "open"
  /\ IF dir = None THEN Goto(t, "failed") /\ UNCHANGED ino
     ELSE Goto(t, "header") /\ ino' = [ino EXCEPT ![t] = dir]
  /\ UNCHANGED <<plan, dir, file, got, want, old, fab, report, cut>>

Opened(t) == file[ino[t]]

\* _load_header_info
ReadHeader(t) ==
  /\ pc[t] = "header"
  /\ IF Opened(t).header = None THEN Goto(t, "failed") /\ UNCHANGED want
     ELSE Goto(t, "items") /\ want' = [want EXCEPT ![t] = Opened(t).header]
  /\ UNCHANGED <<plan, dir, file, ino, got, old, fab, report, cut>>

Missing(t) == Len(got[t]) < want[t].nodes + want[t].ports

\* ibnd_read finds fewer bytes than it wants.
ReadsShort(t) == Len(got[t]) >= Len(Opened(t).body)

TakeItem(t) ==
  /\ pc[t] = "items" /\ Missing(t)
  /\ IF ReadsShort(t) THEN Goto(t, "failed") /\ UNCHANGED got
     ELSE /\ got' = [got EXCEPT ![t] = Append(@, Opened(t).body[Len(@) + 1])]
          /\ UNCHANGED pc
  /\ UNCHANGED <<plan, dir, file, ino, want, old, fab, report, cut>>

\* _load_node
ReadNode(t) == TakeItem(t) /\ Len(got[t]) < want[t].nodes

\* _load_port
ReadPort(t) == TakeItem(t) /\ Len(got[t]) >= want[t].nodes

\* A read fails (_load_header_info, _load_node, _load_port).
ReadFails(t) ==
  /\ \/ pc[t] = "header"
     \/ pc[t] = "items" /\ Missing(t)
  /\ Goto(t, "failed")
  /\ UNCHANGED <<plan, dir, file, load_vars, fab, cut>>

\* The rest of ibnd_load_fabric, and what the tool does with the fabric:
\* ibcacheedit changes it, and gives up if there is nothing to change; a
\* comparison is with the scan; --load-cache keeps it.
Use(t) ==
  LET f == Loaded(got[t], want[t])
  IN  /\ pc[t] = "items" /\ ~Missing(t)
      /\ IF ~Readable(got[t], want[t])
         THEN Goto(t, "failed") /\ UNCHANGED <<old, fab, report>>
         ELSE /\ old' = [old EXCEPT ![t] = f]
              /\ IF plan[t].diff # None
                 THEN /\ report' = [report EXCEPT ![t] = Report(plan[t].diff, f, plan[t].scan)]
                      /\ IF Crash \in report'[t] THEN Goto(t, "killed") ELSE Goto(t, After(t))
                      /\ UNCHANGED fab
                 ELSE IF plan[t].change # None
                 THEN /\ fab' = [fab EXCEPT ![t] = Edit(f, plan[t].change)]
                      /\ IF fab'[t] = f THEN Goto(t, "failed") ELSE Goto(t, After(t))
                      /\ UNCHANGED report
                 ELSE /\ fab' = [fab EXCEPT ![t] = f]
                      /\ Goto(t, After(t))
                      /\ UNCHANGED report
      /\ UNCHANGED <<plan, dir, file, ino, got, want, cut>>

------------------------------------------------------------------------------
\* ibnd_cache_fabric looks whether the file exists.
Stat(t) ==
  /\ pc[t] = "stat"
  /\ Goto(t, IF dir = None THEN "create" ELSE IF plan[t].keep THEN "failed" ELSE "unlink")
  /\ UNCHANGED <<plan, dir, file, load_vars, fab, cut>>

\* If another tool was faster there is nothing to unlink.
Unlink(t) ==
  /\ pc[t] = "unlink"
  /\ dir' = None
  /\ Goto(t, IF dir = None THEN "failed" ELSE "create")
  /\ UNCHANGED <<plan, file, load_vars, fab, cut>>

\* O_CREAT | O_EXCL
Create(t) ==
  /\ pc[t] = "create"
  /\ IF dir # None THEN Goto(t, "failed") /\ UNCHANGED dir
     ELSE Goto(t, "head") /\ dir' = t
  /\ UNCHANGED <<plan, file, load_vars, fab, cut>>

\* _cache_header_info dereferences from_node.
WriteHeader(t) ==
  /\ pc[t] = "head"
  /\ IF fab[t].from = 0 THEN Goto(t, "killed") /\ UNCHANGED file
     ELSE /\ file' = [file EXCEPT ![t].header = FirstHeader(fab[t])]
          /\ Goto(t, "body")
  /\ UNCHANGED <<plan, dir, load_vars, fab, cut>>

PutItem(t) ==
  LET put == Len(file[t].body)
  IN  /\ pc[t] = "body" /\ put < Len(Items(fab[t]))
      /\ file' = [file EXCEPT ![t].body = Append(@, Items(fab[t])[put + 1])]
      /\ UNCHANGED <<plan, dir, pc, load_vars, fab, cut>>

\* The loop over the nodes, then the one over the table of ports.
WriteNode(t) == PutItem(t) /\ Len(file[t].body) < Len(fab[t].nodes)
WritePort(t) == PutItem(t) /\ Len(file[t].body) >= Len(fab[t].nodes)

\* _cache_header_counts
WriteCounts(t) ==
  /\ pc[t] = "body" /\ Len(file[t].body) = Len(Items(fab[t]))
  /\ file' = [file EXCEPT ![t].header = Header(fab[t])]
  /\ Goto(t, "close")
  /\ UNCHANGED <<plan, dir, load_vars, fab, cut>>

Close(t) ==
  /\ pc[t] = "close"
  /\ Goto(t, "done")
  /\ UNCHANGED <<plan, dir, file, load_vars, fab, cut>>

\* A write, or the close, fails.
WriteFails(t) ==
  /\ pc[t] \in {"head", "body", "close"}
  /\ Goto(t, "cleanup")
  /\ UNCHANGED <<plan, dir, file, load_vars, fab, cut>>

\* The file is unlinked by its name, whatever is there by now.
Cleanup(t) ==
  /\ pc[t] = "cleanup"
  /\ dir' = None
  /\ Goto(t, "failed")
  /\ UNCHANGED <<plan, file, load_vars, fab, cut>>

Ended(t) == pc[t] \in {"done", "failed", "killed"}

Kill(t) ==
  /\ ~Ended(t)
  /\ Goto(t, "killed")
  /\ UNCHANGED <<plan, dir, file, load_vars, fab, cut>>

\* A file nobody writes loses its end (a full disk, a lost block).
Cut(i) ==
  /\ i \in Tools => Ended(i)
  /\ i \notin cut /\ Cardinality(cut) < MaxCuts
  /\ cut' = cut \cup {i}
  /\ \/ file' = [file EXCEPT ![i] = Empty]
     \/ \E left \in 0..Len(file[i].body) :
          file' = [file EXCEPT ![i].body = SubSeq(@, 1, left)]
  /\ UNCHANGED <<plan, dir, pc, load_vars, fab>>

Load(t) == OpenRead(t) \/ ReadHeader(t) \/ ReadNode(t) \/ ReadPort(t) \/ ReadFails(t) \/ Use(t)

Store(t) ==
  \/ Stat(t) \/ Unlink(t) \/ Create(t) \/ WriteHeader(t) \/ WriteNode(t)
  \/ WritePort(t) \/ WriteCounts(t) \/ Close(t) \/ WriteFails(t) \/ Cleanup(t)

Next ==
  \/ \E t \in Tools : Load(t) \/ Store(t) \/ Kill(t)
  \/ \E i \in Tools \cup {Initial} : Cut(i)

Spec == Init /\ [][Next]_vars

------------------------------------------------------------------------------
\* What the cache keeps of a fabric: ext_info is lost, so that a link at FDR10
\* is reported at another speed from the cache.
Kept(f) == [f EXCEPT !.ports = [p \in DOMAIN @ |-> [@[p] EXCEPT !.ext = 0]]]

\* However stores and loads overlap, fail, are killed or find a file cut short,
\* a load that succeeds returns, node for node, port for port and link for link,
\* the one fabric that was stored in the file it opened; this rests on the
\* counts being written last and on every read being checked.
LoadedIsStored ==
  \A t \in Tools : old[t] # None => View(old[t]) = View(Kept(fab[ino[t]]))

\* "This cache may be used by other tools for later analysis"
\* (doc/rst/common/opt_cache.rst): what ibnd_cache_fabric returned 0 for can be
\* loaded, and is the fabric that was in hand, scanned or edited.
CachedCanBeLoaded ==
  \A t \in Tools :
    pc[t] = "done" /\ plan[t].store /\ t \notin cut =>
      /\ Readable(file[t].body, file[t].header)
      /\ View(Loaded(file[t].body, file[t].header)) = View(Kept(fab[t]))

\* A comparison was made, and not a listing of links.
Compared(t) == old[t] # None /\ plan[t].diff # None /\ plan[t].diff.tool # "links"

\* A comparison with a cache of the same fabric prints nothing.
SameFabricIsSilent ==
  \A t \in Tools :
    Compared(t) =>
      (View(old[t]) = View(Kept(plan[t].scan)) => report[t] = {})

\* The cables of a fabric, named from one end: node GUID and port number there,
\* port GUID of the far end.  Port 0 of a switch is inside of it.
Cables(f) ==
  {<<f.nodes[f.ports[p].node].guid, f.ports[p].num, f.ports[f.ports[p].remote].guid>> :
     p \in {q \in Entered(f) : f.ports[q].num > 0 /\ f.ports[q].remote # 0}}

\* The nodes of a fabric a tool tells of.  iblinkinfo prints the ports of a node, and
\* so nothing of one none of whose ports answered the scan.
Seen(d, f) ==
  {f.nodes[n].guid : n \in {m \in 1..Len(f.nodes) :
                             \/ d.tool = "ibnetdiscover"
                             \/ \E k \in 1..Numports(f.nodes[m]) : f.nodes[m].slots[k] # 0}}

\* "displayed showing differences between the old and current fabric ...
\* switches, channel adapters, routers, and port connections"
\* (doc/rst/common/opt_diff.rst): a comparison of everything that prints nothing
\* means that there are the same nodes, and that every cable leads from the same
\* port to a port with the same GUID.  Which of the ports of a switch it leads
\* to is not compared: they have the same GUID.
SilenceMeansSameFabric ==
  \A t \in Tools :
    /\ Compared(t)
    /\ "port" \in plan[t].diff.flags /\ plan[t].diff.node = 0
    /\ plan[t].diff.tool = "ibnetdiscover" => Types \subseteq plan[t].diff.flags
    /\ report[t] = {}
    => LET new == plan[t].scan
       IN  /\ Seen(plan[t].diff, old[t]) = Seen(plan[t].diff, new)
           /\ Cables(old[t]) = Cables(new)

DownIn(f) ==
  {<<f.nodes[f.ports[p].node].guid, f.ports[p].num>> :
     p \in {q \in Entered(f) : f.ports[q].num > 0 /\ f.ports[q].state = "down"}}

\* "If a port was previously indicated as down in the specified cache, and is still
\* down, do not output it" (doc/rst/iblinkinfo.8.in.rst:89): a port that went down
\* since the cache was stored is listed.
NewlyDownIsListed ==
  \A t \in Tools :
    /\ old[t] # None /\ plan[t].diff # None /\ plan[t].diff.tool = "links"
    /\ Types \subseteq plan[t].diff.flags
    => {<<x.guid, x.num>> : x \in report[t]} \cap DownIn(plan[t].scan)
         = DownIn(plan[t].scan) \ DownIn(old[t])

\* What is printed with the help of a cache tells the same fabric from another, and
\* a port that has gone down from one that was down.
SilentIffSame == SameFabricIsSilent /\ SilenceMeansSameFabric /\ NewlyDownIsListed
=============================================================================
