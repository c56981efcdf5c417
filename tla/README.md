# A TLA+ development of infiniband-diags

infiniband-diags is a set of command-line tools that look at, and sometimes
change, an InfiniBand fabric, on top of two libraries: `libibmad` builds,
sends and matches management datagrams (MADs), `libibnetdisc` scans a whole
fabric. The modules here model the parts of it where order, failure and
bounds matter; TLC checks them on small instances, and TLAPS proves the most
important facts for every value of the constants.

## 1. The system

| Component | State it keeps | Operations | What is hard | What makes it correct |
|---|---|---|---|---|
| SMP engine (`query_smp.c`) | FIFO of SMPs to send, SMPs on the wire, counters | `issue_smp`, `process_mads`, `process_one_recv`, callbacks that issue more, destroy | answers in any order, callbacks nested in the receive path, failure of one send, end of the loop | bounded wire, no SMP lost, leaked or freed twice, success only when nothing is left, termination |
| Fabric discovery (`ibnetdisc.c`) | nodes, ports, links, LID table, start node, deepest hop | one callback per attribute; each records and sends on | loops and parallel cables, answers in any order, lost answers, hop limit, start in the middle of a fabric | links symmetric, right and complete; switch LIDs shared; every scan ends |
| Chassis grouping (`chassis.c`) | slot and chip of each board, chassis with their slots, numbers | `group_nodes` after a scan: place boards, build chassis from spines, group by system GUID | links that are down, any node order, cables between faces, 8-bit numbers | boards of one chassis together, of two apart; a group is a chassis |
| Topology listing (`ibnetdiscover.c`) | none: a function of the fabric | list by chassis and by node, report of ports | a node is reached from several lists | every node and cable is listed once |
| Fabric cache (`ibnetdisc_cache.c`, `ibcacheedit.c`) | a file, and the fabric being rebuilt | store, load, edit | two tools under one name, a crash or a full disk in the middle, a file cut short, counts written last | a load gives back what was stored, or fails |
| Topology comparison (`--diff` of `ibnetdiscover.c` and `iblinkinfo.c`) | none | walk two fabrics, one as the reference of the other | things that are in one only | silent for the same fabric and only for it |
| MAD calls (`rpc.c`, `mad.c`) | transaction id, portid, retries; the kernel's sends and reports | `mad_rpc`, `mad_rpc_rmpp` | lost, late and stale reports, two timeouts racing, redirection, errno | data belongs to the call, retries bounded, calls end |
| Wrappers (`smp.c`, `gs.c`, `sa.c`, `vendor.c`, `cc.c`, `bm.c`) and address resolution (`resolve.c`, `portid.c`) | the portid that all calls of a run share | fill in a request, call `mad_rpc`; name a port by LID, GUID, route or not at all | one call's redirection steers the next; the subnet manager moves | the port that answers is the port that was named |
| Congestion control (`ibccquery.c`, `ibccconfig.c`) | the block read before a write | read and write settings in blocks | blocks computed in three places, a Set whose answer is lost | only what was asked for is changed; all of it is shown |
| Agents and servers (`register.c`, `serv.c`, `ibping.c`, `ibsysstat.c`) | registered agents, kernel queues | register, receive, respond; ping and count | the server's own sends come back to it, late answers, restarts | one response per request; counts are earned |
| `ibtracert` | a directed route and the node it leads to, static search tables | follow forwarding tables (unicast), search multicast tables | loops, bad tables, path length, two legs over one path, several pairs | prints what the tables do; finds what exists; ends |
| `perfquery`, `ibqueryerrors` | counters being added up | read, add, reset | counting between read and reset, saturation, resets sent twice, failed queries | nothing reported twice, nothing erased unread, every port looked at |
| `ibportstate` | a copy of PortInfo | read, modify, write; peer port too | the subnet manager writes as well; one of two writes fails; a Set sent twice | only what was asked for is changed |
| `ibroute`, `dump_fts` | a buffer, a range, the path numbering | print tables by block and chunk | ends of the range, failed blocks, tables changing meanwhile | what is printed was true, what is valid is printed |
| `fields.c`, `dump.c` | none | encode, decode, print | widths | round trip |
| other tools | none beyond one query | one query, then print | - | - |

How they interact: a tool opens a port (`register.c`), and either calls
`mad_rpc` (synchronous, one request at a time, through a wrapper) or
`ibnd_discover_fabric`, which runs its own engine directly on `libibumad` with
several SMPs outstanding and then calls `group_nodes`. Tools walk the fabric
it returns, or a cached one, and often query each port through `mad_rpc`.
There are no threads; concurrency is between the program, other runs of the
tools, the kernel, which keeps sends, retries and reports, the subnet manager,
and the agents and counters in the fabric.

`PROJECT.json` lists all components with their status, and under `hazards`
what is hard to test in this code, line by line.

## 2. The modules

    SmpWire ──┬── SmpEngine ── (refines) SmpService      SmpEngineProofs
              └── Discovery ──── MCDiscovery             FabricProofs
    Fabric ───┬── Discovery
              ├── RouteTrace ── Ibtracert ── MCIbtracert    FabricProofs
              └── Chassis ── TopologyListing ── MCChassis   ChassisProofs
    IbndFabric ── FabricDiff ── FabricCache ── MCFabricCache   FabricCacheProofs
    MadRpc ────── MCMadRpc                               MadRpcProofs
    ToolSession ── Congestion ── MCCongestion            ToolProofs
    MadServer ─── MCMadServer                            AgentProofs
    PerfCounters ── MCPerfCounters                       AgentProofs
    PortState ──── MCPortState                           PortStateProofs
    FwdTables ──── MCFwdTables                           ToolProofs

The mutants that `PROJECT.json` lists stand in the modules next to the definitions
they replace, and are marked as such.

**SmpWire** holds what `queue_smp`, `get_smp` and `process_smp_queue` do to
the queue and the wire (`cfg->max_smps`), including a send that fails in the
middle. SmpEngine and Discovery are both built on it, so what is proved of it
serves both.

**SmpEngine** is the engine with an arbitrary client. One action per outcome of
`issue_smp`, of `process_one_recv` (callback run, bad status, refill failed,
receive failed), of the callback's return, and the end of `process_mads` and
`smp_engine_destroy`. `freed` is a history of `free()`, so that a leak or a
double free can be stated. **SmpService** is what the engine promises, without
queue, wire or callbacks: every accepted request is finished at most once,
and "complete" is said only when none is outstanding. SmpEngine implements it
(`ServiceSpec`).

**Fabric** is the world: nodes, ports, cables, LIDs, and the port at which a
directed-route SMP arrives. It is external to the code.

**Discovery** is `ibnd_discover_fabric`. The callback of an answer is the action
of that answer (`RecvNodeInfo`, `RecvPortInfo`, ...) followed by one step per
`issue_smp` that it calls (`todo`), during which nothing else can happen. A scan
(`scan`) is the arguments of the call: a start given locally, by LID or by a
directed route, `max_hops`, and how many failures the model injects.

**MadRpc** is `_do_madrpc`, `mad_rpc` and `mad_rpc_rmpp`, called by the four kinds
of wrappers, with the kernel (`outstanding`, `inbox`) and the ports that answer.
A late or second answer matches no send and is dropped by the kernel, so it is
a step that changes nothing; a *report* that comes after the caller gave up
stays in `inbox` for the next call.

**ToolSession** is one run of a tool after another, each against one port: how the
name of the port becomes an `ib_portid_t` (by LID, GUID, directed route, a route
that starts at a LID, the local port, the subnet manager), and what each class
function does to that portid before it sends. The exchange of a call is left to
MadRpc; here a call is answered, redirected or fails, and a redirection changes
the portid for the calls after it (`rpc.c:195`). **Congestion** extends it with
`ibccquery` and `ibccconfig`, tools whose operations are several calls: a setting
is changed by reading a block, changing an entry and writing a block.

**MadServer** is a server process of ibping or ibsysstat, registered with its
kernel, and clients that call it over a network of bags of messages. The kernel
hands back to a sender what it sent with a timeout and was not answered
(`HandBack`), which is why `ibping_serv` must look at `umad_status`.

**RouteTrace** is the unicast part of ibtracert: `get_route`'s two runs of
`find_route`. Its actions (`Advance`, `Arrive`, `Stop`, `GiveUp`, `Lose`)
are the ways through one turn of its loop. The forwarding tables are chosen
freely in the initial state. `Way` is the reference: where the tables take
a packet, defined without the trace. **Ibtracert** is the whole tool: `main` over
one or two pairs, and `find_mcpath`, the breadth-first search over multicast
tables with its two static tables that nothing clears between pairs.

**Chassis** is `group_nodes` with all it calls. A step is one turn of one of its
loops: a board is placed (`FillRecord`), a spine starts a chassis (`StartChassis`),
a pass looks at one port (`CatchSpine`, `CatchLine`), the next pass collects the
ports it will look at (`StartPass`), a node is counted or grouped. The slot
and chip tables are written as functions of the port number. `Discovered` is the set
of fabrics a scan may have returned, with their node order and the links that
were up. `Box`, which real chassis a board is in, is external: the code never
sees it. `WiredAsBuilt` ties the two together: a cable that is not plugged into
the face of a board stays in its chassis and joins a line board to a spine.
In the code the passes go over the slots of the chassis; no pass adds to the
kind of slots it goes over, so `visits` can be fixed when it starts.
**TopologyListing** is what `ibnetdiscover` then prints: `dump_topology`, with and
without `-g`, and `dump_ports_report`, as the set of places where a node is listed.

**IbndFabric** is a fabric in memory: objects that point at each other by their
place in a sequence, `portstbl`, and the changes of `ibcacheedit`. **FabricDiff**
is what the comparisons of ibnetdiscover and iblinkinfo print for two of them, a
set of lines. **FabricCache** is any number of tools that store, load, edit and
compare under one file name; a step is one write or one read, and may fail; a tool
may be killed and a file may lose its end.

**PerfCounters** is perfquery and ibqueryerrors as a list of operations, each a
call, over counters that go on counting and stop at their cap. **PortState** is
ibportstate over a port and its peer, against the subnet manager and a link that
trains again. **FwdTables** is ibroute and dump_fts: ranges, blocks, chunks, the
buffer, and the numbering of paths. In all three the agents are external, a Set is
carried out once for each time `mad_rpc` sends it, and a call that failed may have
been carried out.

Data that nobody branches on is left out: descriptions, keys, formatting.
GUIDs are the names of nodes and ports; LMC is 0 except in FwdTables.

## 3. What is checked

| Run | Instance | Shows |
|---|---|---|
| `smp_engine` | 2 SMPs on the wire, 5 issued, 2 kinds of requests | `WorkConserving` (something waits only while the wire is full, which is why the loop may look at the wire alone), `OnePlace` (no leak, double free or use after free), `SentInOrder`, the refinement of SmpService, `Terminates` |
| `discovery` | 3 fabrics: a loop with parallel cables, a tree, a leaf; 5 scans; up to 1 failure | `LinkSymmetric`, `RightLinks`, `SwitchPortsShareLid`, `WholeFabric`, `ScanEnds` |
| `mad_rpc` | 2 calls; a serving, a redirecting and a GID-redirecting port; retries set to -1, 1 or the default 2 | `OwnReply`, `OneInFlight`, `TimeoutIsEarned`, `CallEnds` |
| `ibtracert` | 2 switches, 2 parallel cables, 5 kinds of end points, every pair of unicast tables for the LIDs involved, every multicast table of one switch against several of the other; ports down, `-f`, lost SMPs; one pair or two | `TrailIsForwarding`, `RouteIsFound`, `McPathIsShortest` |
| `chassis` | chassis of four models, cabled to each other, with any of the inside links of one of them down, in two orders; Mellanox (two boards of it with a slot out of range), TopSpin, Xsigo nodes and hosts; counters of two bits | `BoardsOfOneBox`, `BoxIsWhole`, `ExternalPortsDiffer`, `GroupedBySystem`, `ListedOnce` |
| `cache` | two tools, fabrics of two and three nodes, with a dual-port CA or parallel cables; one file loses its end | `LoadedIsStored`, `CachedCanBeLoaded`, `SilentIffSame` |
| `counters` | a switch with ports 0 and 1, counters of one bit, 2 events, a reset sent up to 2 times; 12 ways to run one or two tools, one of them a monitor | `NothingReportedTwice`, `EveryPortIsReported`, `ErasedWasRead` |
| `port_admin` | a port and its peer, one or two tools, up to 2 acts of the subnet manager or the link, Sets sent up to twice; widths, speeds, a disabled and an unconfigured port | `UnaskedIsUntouched`, `PartIsExtended`, `WarnsIfNotBest` |
| `tables` | blocks of 4 LIDs, chunks of 2 ports, LIDs to 11 unicast and 12 to 17 multicast; whole tables and ranges that begin and end inside blocks; one switch, or two (dump_fts); one write meanwhile | `DumpedWasTrue`, `ValidIsDumped` |
| `server` | one client with 2 packets and 2 tries, a server started twice | `AnswersAreAsked`, `RepliedWasServed`, `ServerFallsSilent` |
| `sessions` | 5 ports whose agents answer, redirect to another QP, to another port, to one that redirects on, or by GID; 2 SMs; 8 tools, 2 runs; routes of up to 4 hops; blocks of 3, 2 and 2 | `AnswersAreNamed`, `RouteIsKept`, `ShownIsSet`, `OnlyAskedChanges` |
| `cc_block` | the same, asked to set port 2 | `OnlyAskedChanges` fails (section 5) |

**Bounds and why they are enough.** With two slots on the wire, answers can
overtake each other, refills can happen while a callback runs and a third SMP
has to queue; five SMPs let the queue hold more than one while the wire is
full. In Discovery the loop has two ways to every switch, so a switch is met
again while its first SMPs are still out, and parallel cables let `link_ports`
be called with ports that are linked already. In MadRpc two calls suffice for
a stale report, since a report is matched against one running call; two tries
distinguish the first from the last. In Ibtracert `MaxHops` 5 and
`RouteMax` 6 stand for 63 and 62: routes of length up to the limit, loops that
exceed each of the two and routes that return to their source all occur. The
multicast tables include trees, circles over both cables and dead ends, and
searches from all kinds of ports; two pairs suffice for tables that are stale.

In Chassis `CharMod` 4 stands for 256: TLC meets four and more chassis and nodes
of one group, where the counters wrap, and the properties say for which
numbers they claim something. Every subset of the links of one chassis that a
run considers is a fabric, among them chains in which every one of the four passes
is needed, and `ChainA` is one longer than the passes reach.

In FabricCache two tools are one that stores and one that is in its way: they
share nothing but the name and the files. The fabrics compared pairwise are the
same, one with two cables crossed, one with a port down, and one with a node gone;
those stored by tools that overlap have the same size and differ in everything
else, so that a mixture of them would be well formed.

`Cap` 1 makes counters saturate, and makes the sum of two ports exceed the width.
Two events are what a monitor needs to count one and miss one. In PortState two acts
are one between read and write and one between two writes. In FwdTables a write may move a group from one chunk to another between their reads; there are
three blocks of unicast and two of multicast LIDs, so that there is a first, a middle
and a last block; ports with one, two and four LIDs begin inside a block, at its
start, and reach over its end. In the server run the second packet shares queues with
the late answers to the first, and the second start finds what the first left.
In ToolSession an address is resolved, used, redirected and used again within a run,
and a second run finds nothing of the first. The block sizes 3 and 2 stand for 48 and
32: ports are in one block of both, of one, and past the end.

**Fairness.** For the engine, the scans and the calls weak fairness is assumed of the
program's own steps and, for the engine and the scans, of the kernel's reports:
`umad_recv` is called without a timeout there, and the kernel reports every SMP it
accepted, with an answer or with ETIMEDOUT after the timeout and retries given to
`umad_send`. MadRpc assumes nothing of the kernel or of the ports, because its
`umad_recv` has a timeout. `ServerFallsSilent` assumes that the server process runs
and that the kernel's timeouts pass, and nothing of the clients or the network. The
other modules claim no liveness: their tools make a finite list of calls, each of
which ends (`CallEnds`).

**Deadlock** is checked in `server`, where the only state without another step is
that every client is done. In the other runs the program ends, and the model with it.

Each property has a mutant: a definition of the model changed as a plausible
bug would change the code. The run of the property refutes each of them.

## 4. What is proved

TLAPS checks the following for all values of the constants under the named
assumptions of the modules, which only say what the constants are: a wire of at
least one SMP, cables that have two ends, redirections that lead to a port or
nowhere, blocks of at least one entry, arguments of the kinds PortInfo has, fabrics
whose objects point at each other. ChassisProofs also assumes
`WiredAsBuilt`, a fact about the hardware. Two parts of `ChassisAssumption` are
conditions the code itself relies on without a test: ports of boards are within
the tables, and every port of a router module that was seen has a peer.

Some theorems have a hypothesis besides, a condition under which the code is right. Each
is a definition of the component's module, and the MC module of the component assumes
it, so that TLC confirms that the instance meets it:

| Hypothesis | Theorem | What it says, and what happens without it |
|---|---|---|
| `GoesDown(rank)` (MadRpc, ToolSession) | `TimeoutsAreEarned`, `NamedAnswer` | Redirections do not lead back to a port. Otherwise a call sends to that port again, and more often than `max_retries`. |
| `AgentsApart` (ToolSession) | `NamedAnswer` | An agent serves in the place of one port. Otherwise nothing in an answer tells for which. |
| `ScansCanGoOn` (Discovery) | `WholeFabricIsFound` | The start answers and is not a CA named by its LID, and paths may be as long as there are nodes. A path that is too long is given up (`ibnetdisc.c:93`). |
| `GuidsAreNew` (FabricCache) | `LoadsAreStored`, `CachesCanBeLoaded`, `ReportsTellFabrics` | A GUID given to ibcacheedit for a node or a port is not in use. Otherwise the file it stores may be refused when loaded, or loaded with nodes mixed up. |
| `MasksAreKnown` (PortState) | `WarningsAreRight` | The masks of the near port hold bits that ibportstate knows. |
| `SlotsAsBuilt` (Chassis) | `FacesDiffer`, `BoxesAreWhole`, `NodesAreListed` | Inside a chassis spines are cabled to line boards only, and line boards at the ports of one slot are of one model. Two models number the ports of their slot differently, so that their numbers may collide. |
| `VoltaireInside` (Chassis) | `GroupsAreRight`, `BoxesAreWhole`, `NodesAreListed` | What is cabled to a Voltaire board inside its chassis is Voltaire's. The code looks at the device alone: another vendor's would be marked as placed, and be missing from the nodes of its own system. |
| `PlacesAsBuilt` (Chassis) | `BoxesAreWhole`, `NodesAreListed` | What `SpinesApart`, `LinesApart`, `InsideIsInside` and `SeenAsBuilt` say: in one chassis no two boards have one index in the tables of `chassis.c`, from whichever of their links it is read; a link that is inside for one board is inside for the other; the nodes at both ends of a link were seen; and spines that share a router module share a line board. Two boards with one index get one slot, and the second is left out (`chassis.c:850`). |
| `ModulesAreNoRouters` (TopologyListing) | `NodesAreListed` | What is in a Voltaire chassis is a switch or a CA. A router in one has an entry in the list of a slot, which `-g` prints whatever is in it, while those of other chassis are left out. |
| `LidsDiffer` (RouteTrace) | `TrailFollowsTables`, `RoutesAreFound` | A LID that `-f` looks for is the LID of one port. Otherwise a trace ends at the first port that has it. |
| `PortsFit` (RouteTrace) | `RoutesAreFound` | Switches have fewer than 128 ports; the code reads an entry as an `int8_t` (section 5). |
| `SameBlocks` (ToolProofs) | `OnlyAskedIsChanged` | Section 5. |
| `PortsDiffer` (PerfCounters) | `NothingIsReportedTwice`, `PortsAreReported` | No port is named twice on perfquery's command line. Otherwise it is read, reported and added up twice. |
| `LidsOfPorts` (FwdTables) | `DumpsAreTrue` | The LIDs of a port follow its base LID, and LID 0 is no port's. Otherwise paths are numbered past the LIDs of a port. |

Recursively defined functions of the modules (`ArrivalFrom`, `Way`, `Within`, `FilledIn`) are
reasoned about by the least number at which a claim about them would fail, with
`WFMin` of the theorem library, since the induction theorems themselves take an operator.
The sums of PerfCounters are folds over sets of ports; for them it is the least number of
members of a set for which the claim would fail (`SumWithout`, `SumSame`).

**SmpEngineProofs.** `TypeCorrect`, `WireIsBounded`, `WorkIsConserved`,
`SendingIsOrdered`, `DoneIsComplete`. The invariant joins typing, the bound,
work conservation and order. Order alone is not inductive: a refill moves SMPs
from the head of the queue to the wire, so it has to say that *everything* on
the wire and in the callback is older than everything queued. The lemmas about
`Room`, `SendAll` and `SendFails` carry the arithmetic. `DoneIsComplete` follows
from work conservation: the wire is empty and not full, so nothing is queued.

`SmpsAreInOnePlace` and `EngineIsService`, the refinement: every
step of SmpEngine is a step of SmpService or a stutter. The invariant follows the
SMPs that are live (queued, on the wire or in the callback) and those freed: together
they are those issued, no SMP is both, and on the wire no two have one id. That an SMP
moved to the wire is not there already follows from the order of the queue.
Refills move SMPs within the live set, also one that fails in the
middle and frees the SMP it could not send. What is pending for the service is what is
live, and what is finished what was freed.

**FabricProofs**, about scans. `LinksAreSymmetric`, `SwitchLidsAreShared`,
`LidsFindTheirPorts`, `ViaPortsExist`. The invariant has to speak of SMPs that
are still out (`Sound`): a NodeInfo sent through a port names a port that exists,
PortInfo is asked only of nodes that were found, and PortInfo of another port
of a switch is only ever asked for after port 0's was received
(`PortZeroFirst`). The latter is what makes the copy of the LID from port 0 right.
Symmetry rests on one lemma about `link_ports` (`LinkPortsSymmetric`): unlinking
both old peers before linking keeps the relation an involution.

`LinksAreRight`: every link is a cable. `Routed` says of every SMP where its path leads:
PortInfo and ExtPortInfo to the node of their port, a NodeInfo to the other end of the
cable of the port it is sent through. That a path extended by a hop arrives one
cable further (`ArrivalAppend`, `HopOver`) is shown on the route as a function, at the first hop at
which two routes would differ. For a scan that starts at a CA without a route,
`AtHome` says that nothing else is outstanding until the switch next to it is found, and
`Outward` that this switch is then asked along the path that enters it from the CA.

`WholeFabricIsFound`: nothing is missing. `Pending` says of all that is not found yet
what will find it: a switch whose port 0 was not received has PortInfo of it
outstanding, a switch whose port 0 was has every other port received or outstanding, and
a cable of a received port is linked or NodeInfo is on its way over it. When nothing is
outstanding any more, the set of nodes is closed under cables of switches, hence all
of `Reachable`. `Known` bounds the paths by the number of nodes found, without which a
path could be given up. That the SMPs end is not needed: the claim is about scans that
did.

**FabricProofs**, about ibtracert. `TrailFollowsTables` and `RoutesAreFound`, for every fabric,
all forwarding tables, any number of pairs, in which multicast traces may be mixed.
They compare the trace with `Way`, which is defined without it. What is not obvious is that
the directed route, the port the trace believes it is at and the table it looks into
belong together, in particular after a step back from a CA, where the port number
is taken from the path and not from the answer: `OnRoute` says so and `Advancing` shows that
a turn keeps it. `TrailInv` then ties the end of the trail to the port the trace is at.
It is conditional, as the property is: once the trail has come back to the source, the way
of a packet and the trace part. For `RoutesAreFound` the invariant `FoundInv` puts the trace
where a packet is after as many hops as the loop has used up, with a path not
longer than them (a step back makes it shorter); `TurnOnTheWay` goes through every
check of a turn and shows that on the way of a packet that arrives none of them stops it.

**MadRpcProofs.** `RepliesAreOwn`, `OneSendInFlight`, `CallsAreTyped`. `InFlight`
(at most one send or report of the running call, for the port last addressed)
is inductive once the kernel is known to hold no transaction id from the
future (`Kernel`) and a running call to have returned nothing (`Unanswered`).
Data is then the call's own because the report that carries its id is the
report of its last send, even though rpc.c compares nothing else and keeps
the id when it is redirected. `TimeoutsAreEarned` counts sends: `Tried` ties the tries of
the running call to the sends to the port it is at, and says that the ports it may still
be redirected to, those of a lower rank, were not asked.

**ChassisProofs.** `TypeCorrect`, `OneBoxEach`, `FacesDiffer`, `GroupsAreRight`, `BoxesAreWhole` and
`NodesAreListed`, for any number of chassis of every model. That a chassis object holds boards of one real chassis is not inductive:
`VisitsStayInside` says that every port a pass still visits leads to the real chassis
of the boards collected so far, `SpinesInside` that what is in a spine slot is a
spine (or its ports would not be known to lead inside), and `GuidsTellApart` that
GroupNode, which adds Mellanox boards by GUID, cannot meet a chassis that a
spine has started. The lemma `InsideLinks` is where the port ranges of the code
(`portnum > 18`, `portnum > 12`) meet the faces of the boards.

`FacesDiffer` is about the tables of `chassis.c`, which are written by hand and have to fit
together: `get_slb_slot` and `get_sfb_slot` place a board by its cables,
`get_line_index` and `get_spine_index` make a slot of a table of the place, and
`voltaire_portmap` makes a number on the face of it. `Filed` says that a place comes
from a cable of the board, `Placed` that a slot holds the board whose index it is, so
that two boards in one place differ in their chip (`PlacesDiffer`), and two chips show
different numbers (`ChipsDiffer`). `NoneYet` is why a place may still change
while the records are filled in, and `LinesAhead` why no spine is
taken for a line board.

`GroupsAreRight` follows a system of other vendors through all four loops of
`group_nodes`. Before the third loop there is no chassis but those the spines started
(`BuiltFirst`), and no node of the system is in one (`OthersFree`, which needs
`VoltaireBuilds`: a pass collects Voltaire boards only). `Tally` says of the third loop
that a chassis counts those nodes of its GUID that were seen so far, up to the width of
the counter, and that no GUID has two. `Sorting` says of the fourth that a
chassis holds just those of its nodes that were sorted, each in the list or in its
slot, and has a number as soon as it has one of them. The step it turns on is that `ch_found`,
which `fill_mellanox_chassis_record` sets for a board and the fourth loop for a node of
the list, is unset for a node whose turn has not come unless it is a board
(`OthersFiled`).

`BoxesAreWhole` is about `build_chassis` as a search over the links inside a chassis. An
assembly is a set of boards that hang together by such links, five of which lead from
every spine to all of it (`IsAssembly`; that the antecedent of `BoxIsWhole` gives one is
`GoodIsAssembly`). `Assemblies` says of each of them that its boards are in no chassis
object, or all in one, in the slots that are their indexes, or in the one being built; and
then that what is `p` links from the first spine is collected when pass `p` is over, or
behind a port still to visit. So after four passes everything is in. Before, it has
to be known that the records of all boards were filled in, in whichever order, from a link
inside (`Learnt`), and that a board that is caught finds its slot free, which is what
`PlacesAsBuilt` asks of the hardware. Since `chassisnum` may be 0 when it has
wrapped, a later spine may start the same chassis once more and take its boards over:
`OthersLeft` says that what held them before has no number.

`NodesAreListed` needs that a node is printed where `node->chassis` points, and nowhere
else. `PlacesKept` says so through all loops: a node with a chassis is a board or
a member of it (`HasPlace`), a member is in one chassis and no board (`MembersAre`), a board
of a group is on the side and in the slot of its record (`GroupsAre`); for the
chassis the spines started it is `Assemblies`.

**AgentProofs**, about servers. `TypeCorrect`, `ServerAnswersAreAsked`, `RepliesWereServed`, for
any number of clients, packets, tries and restarts. That a transaction is answered no
more often than it was delivered is not inductive: `Owed` adds what is queued for the
server to what it has answered. That a client counts only what was answered needs
`Backed` (an answer on its way is one the server gave) and `CountedOnce`, which compares
what a client has counted with the answered calls among those that are *over*: the
answer that ends a call adds a call to both.

**AgentProofs**, about counters. `NothingIsReportedTwice`, `WhatIsErasedWasRead` and
`PortsAreReported`, for any ports, any options, any tools side by side, and any events,
failures and repeated resets. All three rest on what a tool's list of operations looks
like at each moment, so the plans are lemmas: those of ibqueryerrors read every port and
clear it only after that (`Thorough`), those of perfquery read the ports of a loop and
then reset the same, each once (`Plan`). `CountersInv` is typing with the order of the list
(`CountersTyped`).

For a monitor, `MonitorInv` compares what it has reported with what happened. A port is
*clean* when what was reported of it and what stands in its counters together are no more
than its events; every port is clean, or has been read and not yet reset, and is then not
read again before it is. A reset makes a port clean, and one by somebody else or
one that is carried out twice does no harm. For what is erased, `ReadInv` says that a
port a tool will reset has been read, or will be before, and that a counter
has grown since by no more than was counted. For ibqueryerrors, `ReportInv`
says that a port beyond the threshold at first has been reported, or still is beyond it
and *ahead*: read later in the list before anything resets it. A read of all ports that
shows less than the threshold leaves none behind, since no port counts more than the capped
sum. For `perfquery -a`, `SumInv` says that the sum is that of the ports of the loop
that are not to be read any more; adding with a cap port by port is adding and then
capping (`AddsOne`), and the test for a wrapped sum in wide counters is the same cap
(`AggregateIs`).

**ToolProofs**, about congestion control. `OnlyAskedIsChanged` and `FirstPortsAreSafe`, for any number of
ports, any block sizes and any calls that fail or are repeated. The invariant
`BufferIsTrue` says that between the Get and the end of the run the buffer holds for
every port but the one asked for what the agent has; it survives a Set that was
carried out and whose answer was lost, which is why a retry does no harm. The first
theorem assumes `SameBlocks`, that a port has one place in the blocks read and in those
written. That is what the code gets wrong for ports from 32 on; the second theorem
says it is right for every port below.

`QueriesAreTrue` is about ibccquery: after each block what is shown is the beginning of
what the agent has, up to the block asked for next, and a block ends it exactly if
nothing is left (`SpShown`, `CtShown`); that the last block may be full, begun, or hold
one entry is where the divisions of the code are at stake.

`RoutesAreKept` and `NamedAnswer` are about the portid that all calls of a run share.
The invariant says where it leads, at which QP and with which key, as a function of how
the port was named and of the last redirection (`Addressed`, `Keyed`, `CountedAt`), for
every kind of tool. Every wrapper changes the portid before it sends, and those changes
are lemmas (what `smp.c`, `gs.c`, `vendor.c`, `cc.c`, `bm.c`, `sa.c` and ibqueryerrors make of one). From where the
call goes follows who answers: an agent at QP 1 is the port's own, and one at another QP
was named by a redirection. `Onward` says that a redirection is some port's and has led
away from the named port, which is what excludes being sent back to it by another.
`RoutesAreKept` is about counter queries only, before the run sends an SMP.
`NamedAnswer` is about every answer, and what it says is not always that the port the user
named has answered: that holds up to a redirection to another port, and for counter
queries after it until an SMP is sent. From there on it says which port answers
instead: the one the redirection names or, at another QP than 1, the one that
redirected the run last. Section 5 has the lines of the code that make it so.

**ToolProofs**, about forwarding tables. `DumpsAreTrue` and `ValidsAreDumped`, for any
tables of any number of switches, any size of blocks and chunks, any range, and any
writes and failed reads between. `ReadIsSo`: each chunk in the buffer is a chunk of
some value that its entry has had, and all chunks are there unless a read failed.
`DoneSo`: of the LIDs behind the tool, those of the switches before and of the blocks
before, each that must be printed is. Between them stand the lines of a block: the
loop over its LIDs is a recursive function, and by the least place at which a claim
would fail its lines are true, every LID to be printed has one (`LinesAreTrue`), and
what is remembered of a port is that port's LIDs when the loop comes to a LID
(`Numbered`, `LinesAreNumbered`). That no LID falls between two blocks, or behind the
last, is about the divisions in `Align` and `LastBlock` (`BlocksRead`, `BlocksPast`).
Because what is read in chunks is joined, an entry has to be valid in one chunk all
the time to be printed (`StaysValid`); section 5 says what happens to others.

**FabricCacheProofs.** `LoadsAreStored`, `CachesCanBeLoaded` and `ReportsTellFabrics`,
for any fabrics, any number of tools that store, load and edit, and any pattern of
failing writes, kills and files cut short. The first part is about data: the items of a
fabric, read again, are readable and rebuild a copy of it (`RoundTrip`), in which ports
are renumbered by their place in the table; a copy is again a whole fabric with the same
GUIDs (`CopyIsWhole`), so it may be stored again; and an edit with a new GUID keeps a
fabric whole (`EditKeepsWhole`). The second part is about files. `Stored`: what is in a
file is a beginning of the items of the fabric of the tool that created it, under a
header that counts nothing until all items are there. `Reading`: what a tool has read is
a beginning of the same items, which is what makes a load that overlaps a store fail or
succeed but never mix. `Aside`: a file is its creator's alone until it is created,
whatever name it will have. A file that was cut short is still a beginning. The third
part is about comparisons, and needs one more conjunct of the invariant (`Told`): a
report is made from the loaded fabric, which is whole. GUIDs then tell nodes apart, so a
node of one fabric has one counterpart in the other. Fabrics with the same view have the
same links and far ends (`SameFabric`), and nothing of what is compared differs; when
nothing is printed, every port agrees with the one at its place about being there and
about where its cable leads (`SameLinks`), in both directions, although iblinkinfo
compares the ports of one fabric only.

**PortStateProofs.** `TypeCorrect`, `UnaskedStays`, `PartsAreExtended`, for any number of
ibportstates on a port, any fields and masks, and any number of sends of a Set. That a
write leaves alone what was not asked for joins two facts that hold at different times:
`Prepared`, from the decision to the end, says that the buffer is what was read but for
what was asked, and `ReadIsTrue`, from the read on, that the port is what was read but
for what others changed since (`dirty`). `ReadIsTrue` survives the tool's own write
because of `Prepared`, so a write that is sent again is no worse than the first.
`Shape` says what lists of operations look like: a decision is the last of its list, so
all that it rests on was read, and the Sets stand alone, the extended one first.
`Progress` gives the order of the two Sets from it. Steps of all other actors are one
case, `Aside`.

`WarningsAreRight` is about a query that nobody disturbs: the near port is kept aside
before the buffer is used for the far one (`Undisturbed`), so what is compared is one
against the other. That a warning is given exactly when it is due is then about bits:
the values in the order in which they are tried are in the order of their widths and
speeds, which the bits themselves are not.

**Only model-checked.** Liveness (`Terminates`, `ScanEnds`, `CallEnds`,
`ServerFallsSilent`), which is out of the prover's reach. One invariant,
`McPathIsShortest`: a breadth-first search in tables that outlive a search and are
keyed by node. That the search is complete at each distance is induction over the
length of all paths.

## 5. Where the code and its documents disagree

The run `cc_block` shows one disagreement: `ibccconfig` says it reads the current
settings because it modifies "only 1 port" (`ibccconfig.c:388`), but it reads block
`portnum / 32` and writes block `portnum / 48`. For ports 32 to 47 the settings of
other ports are overwritten. The others below were met while modelling; the
properties are stated so as not to claim them, and the modules follow the code.

*Scans* (`Discovery`)

* A scan that starts at a CA named by a directed route steps back along that route
  to the CA's switch; the answer names the switch port that faces the host, and the CA
  is linked to it (`ibnetdisc.c:424`, `571`). `RightLinks` leaves such scans out.
* `max_hops` is compared with a counter of the whole scan, and with `>`
  (`ibnetdisc.c:126`); the nodes returned are not those within that many hops.
* When the first SMP fails, a fabric without a start node is returned instead of NULL
  (`ibnetdisc.c:827`).
* The callback data of a NodeInfo that fails is not freed (`ibnetdisc.c:271`).

*Chassis* (`Chassis`, `TopologyListing`)

* The slot of a Mellanox board is compared with one more than the number of slots, so
  `L37` and `S19` pass and index one past the arrays (`chassis.c:706`).
  `ChassisAssumption` leaves these two out.
* A Mellanox board whose slot number is out of range (`L40`) gets slot 0
  (`chassis.c:709`) and is put in the chassis there. `ibnetdiscover -g` prints slots 1 and
  up (`ibnetdiscover.c:593`, `610`), and no node that is in a numbered chassis after that:
  the board is in no list. `OutOfSlots` excepts it from `ListedOnce`.
* Grouping fails as a whole over a board that cannot be placed (`chassis.c:834`).
* The four passes of `build_chassis`, meant "to ensure that all related chips/modules"
  are inserted, reach five links far; in a chassis with so few links up that this is
  not enough, a second chassis object is started and takes boards over (the antecedent
  of `BoxIsWhole`). A Xsigo CA whose port 1 was not seen has chassis GUID 0, and all
  such CAs form one chassis.
* `ibnetdiscover -g` prints no router that is in a numbered chassis
  (`ibnetdiscover.c:530`, `640`).

*Cache and comparison* (`FabricCache`, `FabricDiff`)

* A fabric without a start node is stored by dereferencing it; one whose scan lost the
  PortInfo of a CA's port is stored with success and cannot be loaded again
  (`ibnetdisc_cache.c:943`).
* The cache loses `ext_info`; a failed store removes the file under the name, which may
  be another tool's by then.
* `iblinkinfo --diff` of one node (`-S`, `-D`) compares the node with itself
  (`iblinkinfo.c:478`, `733`), and `--diffcheck` of LIDs or descriptions dereferences
  NULL; so can ibnetdiscover's comparison of ports that are not connected. Remote ports
  are compared by GUID, so that two cables crossed between two switches go unnoticed.
  `iblinkinfo --diff` prints nothing of a node that is in one fabric only and none of
  whose ports answered the scan (`iblinkinfo.c:314`); `Seen` leaves it out.
* A GUID that `ibcacheedit` changes to one that exists gives a fabric with two nodes of
  one GUID.

*Calls* (`MadRpc`, `ToolSession`)

* `gs.c` and `vendor.c` assign `rpc.error` to errno; it is 0 when sending or receiving
  failed or the answer has an error status (`gs.c:83`, `vendor.c:106`).
* An SMP resets the QP of a portid that was redirected (`smp.c:73`), and `cc.c` and
  `bm.c` always use QP 1: later calls go to QP 1 at the LID of the redirection, and SMPs
  to the port there, which then answers for the port the user named; `AnswersAreNamed` says
  in which calls. After a redirection by GID the LID is 0. `pma_query` says "only lid
  routed is supported" and checks for a LID of -1 only (`gs.c:61`).

*Tracing* (`RouteTrace`, `Ibtracert`)

* Forwarding table entries are signed bytes, so a route through port 128 or above is
  reported as a bad table (`ibtracert.c:97`); the test for a bad port says `&&` where
  `||` is meant (`ibtracert.c:189`).
* Tables that lead back to a source CA make ibtracert go round instead of stopping, and
  a route to a switch fails if the switch's own entry for itself is bad, since the table
  is read before the node is compared (`TrailIsForwarding`).
* With `-m` the tables of the search are not cleared for the next pair
  (`ibtracert.c:116`): the second pair of a ports file is searched for among the
  nodes found for the first, and its path is printed from the first's source, though
  a ports file is for "multiple source and destination pairs"
  (`doc/rst/common/sec_ports-file.rst:6`). Among them is a node whose path was left
  longer, or shorter, by the search that returned from it (`ibtracert.c:662`), so that
  the second search asks another node for its table. No property speaks of the second
  pair.
* A target switch next to a remote CA source is printed with the port that faces the
  host; a distance of 62 indexes one past `nodesdist`.

*Counters* (`PerfCounters`)

* ibqueryerrors clears the counters of a port whose query failed
  (`ibqueryerrors.c:843`), though "Clear error counters after read" (1014);
  `--counters -k` clears error counters that were never read. `ErasedWasRead` claims
  neither.
* `perfquery -a` without a destination queries the local port instead of all ports
  (`perfquery.c:912`); a port given twice is added up twice; with `-x` the mask for a reset ignores its
  bits 16 to 27.

*Ports* (`PortState`)

* "on" for a port that is enabled silently ignores all other arguments
  (`ibportstate.c:577`). The extended information of the near port is used for a peer
  that has none (`ibportstate.c:715`). The manual page says that enable, disable and
  reset "are only allowed on switch ports" (`ibportstate.8.in.rst:37`); the code does
  not check it.

*Tables* (`FwdTables`)

* A last LID that is a multiple of 64 is not printed (`ibroute.c:363`,
  `dump_fts.c:344`): `LeftOut` in `ValidIsDumped`.
* A multicast entry is read in chunks of 16 ports, each by a packet of its own
  (`ibroute.c:211`, `dump_fts.c:186`). If the subnet manager moves a group from a port
  of a later chunk to one of an earlier chunk between the two reads, both are read
  without it: the entry, which never was empty, is taken for empty and not printed.
* dump_fts prints what is in its buffer after a read that failed (`dump_fts.c:348`);
  `DumpedWasTrue` is of lines that were read. ibroute's exit status is 0 when a block
  could not be read.
* Ports above 127 are taken for invalid, and the numbers of an "illegal path" are one
  too low (`ibroute.c:272`).

*Congestion control and servers*

* The example of a whole table in `ibccconfig`'s usage (`ibccconfig.c:578`) is refused
  by its own check of arguments.
* The server of ibsysstat ends when a receive fails. `mad_register_client_via`
  overwrites an agent that is registered already.

## 6. What is not modelled

* `fields.c`, `dump.c`: bit layouts and formatting. Five hundred table rows without
  control; a property about them would restate the table.
* `saquery.c`, `ibdiag_sa.c`: one request and a table of records; where the request goes
  is in ToolSession, how it is exchanged in MadRpc. The rest is parsing and printing.
* Tools that make one query and print it (`smpquery`, `ibaddr`, `vendstat`, `smpdump`,
  ...), or send one SMP (`sminfo`, `ibsendtrap`): their control is a straight line. Their
  use of the portid is in ToolSession.
* `mcm_rereg_test.c`, a test program for subnet administrators, run by hand.
* Option parsing, name maps, Perl and shell scripts, documents.
* Running out of memory, in every module; opening and closing of ports.
* Within modelled components: the notes in `PROJECT.json`.
