----------------------------- MODULE RouteTrace -----------------------------
(***************************************************************************)
(* ibtracert's unicast trace (src/ibtracert.c: get_route, find_route).     *)
(*                                                                         *)
(* find_route follows the linear forwarding tables of the switches, one    *)
(* hop at a time, and keeps a directed route to where it is.  get_route    *)
(* runs it twice: from this host to the source port, to learn a directed   *)
(* route to it, and from there to the destination port.  Only the second   *)
(* one prints.                                                             *)
(*                                                                         *)
(* A step is one turn of the loop of find_route; what get_node and         *)
(* switch_lookup ask is answered by the fabric or lost.                    *)
(*                                                                         *)
(* Abstractions.  A port is identified as by its port GUID: all ports of a *)
(* switch have the same one.  A forwarding table is a function from the    *)
(* LIDs asked for to bytes; 255 also stands for a LID above linearFDBtop.  *)
(* Ports are given by LID or GUID (not by directed route) and resolved.    *)
(***************************************************************************)
EXTENDS Fabric

CONSTANTS
  Jobs,             \* the traces to consider, see job
  MaxHops,          \* MAXHOPS
  RouteMax           \* longest path extend_dpath produces
                    \* (IB_SUBNET_PATH_HOPS_MAX - 2)

ASSUME RouteTraceAssumption ==
  /\ MaxHops \in Nat \ {0}
  /\ RouteMax \in Nat
  /\ \A j \in Jobs :
       /\ {j.base, j.src, j.dest} \subseteq Ports
       /\ {j.force, j.mcast} \subseteq BOOLEAN
       /\ \A n \in Switches, e \in {j.src, j.dest} : j.tables[n][LidOf[e]] \in 0..255

VARIABLES
  job,              \* the trace.  base: this host's port; src, dest: the ports
                    \* asked for; tables: the forwarding tables; down: ports
                    \* whose state is not Active; force, mcast: the options
                    \* -f and -m
  leg,              \* 1: from base to src, 2: from src to dest
  pc,               \* "start", "loop", "done", "failed"
  path,             \* from->drpath
  fromport,         \* the port find_route started at
  toport,           \* the port it looks for, NoPort if it did not answer (-f)
  here,             \* port (and node)
  out,              \* next_sw_outport
  hops,             \* maxhops
  trail,            \* what leg 2 printed: the hops [out |-> outport, port |-> port]
  lost              \* whether an SMP was lost

tracevars == <<job, leg, pc, path, fromport, toport, here, out, hops, trail, lost>>

TraceTypeOK ==
  /\ leg \in {1, 2}
  /\ pc \in {"start", "loop", "done", "failed"}
  /\ path \in Seq(0..255)
  /\ Len(path) <= RouteMax
  /\ {fromport, toport, here} \subseteq Ports \cup {NoPort}
  /\ out \in 0..255
  /\ hops \in 0..MaxHops
  /\ trail \in Seq([out : 0..255, port : Ports])
  /\ lost \in BOOLEAN

\* The state in which get_route calls find_route.
Begins ==
  /\ leg = 1
  /\ pc = "start"
  /\ path = <<>>
  /\ fromport = NoPort
  /\ toport = NoPort
  /\ here = NoPort
  /\ out = 0
  /\ hops = MaxHops
  /\ trail = <<>>
  /\ lost = FALSE

TraceInit == job \in Jobs /\ Begins

------------------------------------------------------------------------------
Target == IF leg = 1 THEN job.src ELSE job.dest
Lid == LidOf[Target]

IsSwitch(e) == e[1] \in Switches

\* Ports with the same port GUID.
SameGuid(a, b) == a[1] = b[1] /\ (IsSwitch(a) \/ a[2] = b[2])

\* The LID in the PortInfo get_node asks for.
LidAt(e) == IF IsSwitch(e) THEN LidOf[<<e[1], 0>>] ELSE LidOf[e]

\* sameport(port, &toport)
SamePort(e) ==
  \/ toport # NoPort /\ SameGuid(e, toport)
  \/ job.force /\ LidAt(e) = Lid

\* is_port_inactive; job.down names a switch by its port 0, if it is enhanced.
Inactive(e) == (IF IsSwitch(e) THEN <<e[1], 0>> ELSE e) \in job.down

\* switch_lookup: the entry is read as an int8_t.
Lookup(n) ==
  LET entry == job.tables[n][Lid] IN IF entry > 127 THEN entry - 256 ELSE entry

BadEntry(n, entry) == entry < 0 \/ entry > NumPorts[n]

\* find_route at e has to know the entry of e's table, if e is on a switch.
NextEntry(e) == IF IsSwitch(e) THEN Lookup(e[1]) ELSE out
BadTable(e) == IsSwitch(e) /\ BadEntry(e[1], Lookup(e[1]))

Fail ==
  /\ pc' = "failed"
  /\ UNCHANGED <<job, leg, path, fromport, toport, here, out, trail>>

------------------------------------------------------------------------------
\* find_route up to its loop.  With -f a destination that does not answer is
\* looked for by its LID.
StartRoute ==
  /\ pc = "start"
  /\ \E answers \in BOOLEAN :
       LET at == ArrivalFrom(job.base, path)
       IN  /\ lost' = (lost \/ ~answers)
           /\ IF at \in Ports /\ (answers \/ job.force) /\ ~BadTable(at)
              THEN /\ pc' = "loop"
                   /\ fromport' = at
                   /\ here' = at
                   /\ toport' = IF answers THEN Target ELSE NoPort
                   /\ out' = NextEntry(at)
                   /\ UNCHANGED <<job, leg, path, trail>>
              ELSE Fail
  /\ UNCHANGED hops

\* Mutant of Found: the last turn is not used.
FoundLate(left) ==
  IF left <= 1
  THEN Fail /\ hops' = left /\ UNCHANGED lost
  ELSE /\ pc' = IF leg = 1 THEN "start" ELSE "done"
       /\ leg' = 2
       /\ hops' = IF leg = 1 THEN MaxHops ELSE left
       /\ UNCHANGED <<job, path, fromport, toport, here, out, trail, lost>>

\* Mutant of Found: leg 2 starts at this host.
FoundForgetsPath(left) ==
  /\ left > 0
  /\ pc' = IF leg = 1 THEN "start" ELSE "done"
  /\ leg' = 2
  /\ path' = <<>>
  /\ hops' = IF leg = 1 THEN MaxHops ELSE left
  /\ UNCHANGED <<job, fromport, toport, here, out, trail, lost>>

\* The loop was left by a break, with its counter at left: find_route returns
\* 0, unless left is 0.  After leg 1, src_portid becomes the path found.
Found(left) ==
  IF left <= 0
  THEN Fail /\ hops' = left /\ UNCHANGED lost
  ELSE /\ pc' = IF leg = 1 THEN "start" ELSE "done"
       /\ leg' = 2
       /\ hops' = IF leg = 1 THEN MaxHops ELSE left
       /\ UNCHANGED <<job, path, fromport, toport, here, out, trail, lost>>

(***************************************************************************)
(* The next node.  From a switch through the port of its table; from the   *)
(* CA the trace starts at, one hop back along the path that led to it or,  *)
(* if it is this host, out of its port.  outport is what is printed, next  *)
(* the new path.                                                           *)
(***************************************************************************)
AtStart == ~IsSwitch(here) /\ SameGuid(here, fromport)
StepsBack == AtStart /\ path # <<>>

outport == IF IsSwitch(here) THEN out ELSE here[2]

next == IF StepsBack THEN SubSeq(path, 1, Len(path) - 1) ELSE Append(path, outport)

\* Mutant of Facing: the port number of the SMP's own way is kept.
FacingIngress(at) == at

\* After a step back the SMP came in from the other side: the port that faces
\* the CA is the one its path left through.
Facing(at) == IF StepsBack THEN <<at[1], path[Len(path)]>> ELSE at

At == ArrivalFrom(job.base, next)

\* A turn gets as far as looking at the next node.
Turning == pc = "loop" /\ hops > 0 /\ ~Inactive(here)

\* What makes it give up there: a CA in the middle of the route, a path that
\* is too long, a port with nothing behind it, an entry that names the switch
\* itself (if that were the destination it would have been found), a bad entry
\* of the next switch, or a next port that is not active.
Blocked ==
  \/ ~IsSwitch(here) /\ ~AtStart
  \/ Len(next) > RouteMax
  \/ At \notin Ports
  \/ IsSwitch(here) /\ outport = 0
  \/ BadTable(At)
  \/ Inactive(Facing(At))

GiveUp ==
  /\ pc = "loop"
  /\ hops = 0 \/ Inactive(here)
  /\ Fail
  /\ UNCHANGED <<hops, lost>>

Arrive == Turning /\ SamePort(here) /\ Found(hops - 1)

Stop ==
  /\ Turning /\ ~SamePort(here) /\ Blocked
  /\ Fail
  /\ hops' = hops - 1
  /\ UNCHANGED lost

\* An SMP of get_node or switch_lookup is lost in this turn.
Lose ==
  /\ Turning /\ ~SamePort(here)
  /\ Fail
  /\ hops' = hops - 1
  /\ lost' = TRUE

\* The route goes on: every SMP of the turn is answered.
Advance ==
  /\ Turning /\ ~SamePort(here) /\ ~Blocked
  /\ hops' = hops - 1
  /\ path' = next
  /\ here' = Facing(At)
  /\ out' = NextEntry(At)
  /\ trail' = IF leg = 1 THEN trail
              ELSE Append(trail, [out |-> outport, port |-> Facing(At)])
  /\ UNCHANGED <<job, leg, pc, fromport, toport, lost>>

TraceNext == StartRoute \/ GiveUp \/ Arrive \/ Stop \/ Lose \/ Advance

TraceSpec == TraceInit /\ [][TraceNext]_tracevars

------------------------------------------------------------------------------
(***************************************************************************)
(* The way of a packet for port dest from port src, as the forwarding      *)
(* tables say: where it is after k hops, and NoPort once it is dropped.    *)
(***************************************************************************)
Forward(tables, e, dest, first) ==
  LET port == IF IsSwitch(e) THEN tables[e[1]][LidOf[dest]] ELSE e[2]
  IN  IF (IsSwitch(e) \/ first) /\ <<e[1], port>> \in DOMAIN Cable
      THEN Cable[<<e[1], port>>]
      ELSE NoPort

Way(tables, src, dest, k) ==
  LET W[i \in 0..k] ==
        IF i = 0 THEN src
        ELSE IF W[i - 1] = NoPort THEN NoPort ELSE Forward(tables, W[i - 1], dest, i = 1)
  IN  W[k]

\* The packet arrives after exactly k hops, and every port on its way is active.
\* A switch takes a packet for itself if its table says 0.
DeliveredIn(src, dest, k) ==
  LET After(i) == Way(job.tables, src, dest, i)
  IN  /\ \A i \in 0..k : After(i) # NoPort /\ ~Inactive(After(i))
      /\ \A i \in 0..(k - 1) : ~SameGuid(After(i), dest)
      /\ SameGuid(After(k), dest)
      /\ IsSwitch(dest) => job.tables[dest[1]][LidOf[dest]] = 0

\* e is the port asked for or, with -f, another one that has its LID.
IsAsked(e, port) == SameGuid(e, port) \/ (job.force /\ LidAt(e) = LidOf[port])

\* Leg 2 starts at the port that was asked for, to which the directed route that
\* leg 1 built leads (ibtracert.c:830), and a trace that succeeds ends at the
\* destination.  Every hop printed is one a packet for dest takes: over a cable,
\* out of the port the switch's table names, and into the port printed.  This holds
\* until tables lead back to a source that is a CA: a packet ends there, but the
\* trace takes the CA for its start again and goes round until its hops are used up.
TrailIsForwarding ==
  /\ leg = 2 /\ pc = "loop" => IsAsked(fromport, job.src)
  /\ pc = "done" /\ ~job.mcast => IsAsked(here, job.dest)
  /\ \A i \in 1..Len(trail) :
       (\A j \in 1..(i - 1) : ~SameGuid(trail[j].port, fromport)) =>
       /\ trail[i].port = Way(job.tables, job.src, job.dest, i)
       /\ LET before == Way(job.tables, job.src, job.dest, i - 1)
          IN  Cable[<<before[1], trail[i].out>>] = trail[i].port

\* What TrailIsForwarding asks of the subnet manager: a LID that -f may look for is
\* the LID of one port.
LidsDiffer ==
  \A j \in {k \in Jobs : k.force} : \A e \in Ports, f \in {j.src, j.dest} :
    LidAt(e) = LidOf[f] => SameGuid(e, f)

\* What RouteIsFound asks of the hardware: switch_lookup reads an entry as an int8_t.
PortsFit == \A n \in Switches : NumPorts[n] < 128

\* "Each hop along the path is displayed until the destination is reached or a
\* hop does not respond" (doc/rst/ibtracert.8.in.rst): if nothing is lost, a
\* route that the tables provide and whose length the program allows is found.
RouteIsFound ==
  pc = "failed" /\ ~lost /\ ~job.mcast =>
    \A k, m \in 0..(MaxHops - 2) :
      k + m <= RouteMax =>
        ~(DeliveredIn(job.base, job.src, k) /\ DeliveredIn(job.src, job.dest, m))
=============================================================================
