----------------------------- MODULE Ibtracert -----------------------------
(***************************************************************************)
(* ibtracert (src/ibtracert.c): main, get_route and the multicast trace,   *)
(* find_mcpath, on top of the unicast trace of RouteTrace.                 *)
(*                                                                         *)
(* A run traces one pair of ports or, with --ports-file, several.  Every   *)
(* trace begins with find_route from this host to the source; a multicast  *)
(* trace then searches, breadth first from the source, the ports the       *)
(* switches forward the group to.  The nodes found are kept in static      *)
(* tables (nodestbl by GUID, nodesdist by distance), which nothing clears  *)
(* between the traces of a run.                                            *)
(*                                                                         *)
(* A step is one turn of a loop of find_mcpath: a node is taken from its   *)
(* list, or one of its ports is followed.  Any SMP may be lost.            *)
(*                                                                         *)
(* Abstractions.  A port with a cable is LinkUp, one without is not.       *)
(* The SMPs of one get_node, or one switch_mclookup, are lost together.    *)
(***************************************************************************)
EXTENDS RouteTrace, FiniteSets, SequencesExt

CONSTANT Runs       \* the runs to consider: sequences of Jobs.  With -m
                    \* a job has one more field, mtables: the ports each switch
                    \* forwards the group to, for the switches that have a
                    \* multicast table for it

ASSUME TracertAssumption == \A r \in Runs : r \in Seq(Jobs) /\ r # <<>>

VARIABLES
  run,              \* the traces asked for
  pairs,            \* num_port_pairs: the one that is traced
  known,            \* nodestbl: a record for each node inserted
  level,            \* nodesdist: the list of nodes at each distance
  target,           \* target_portguid
  dist, list, node, \* the loops: distance, nodes left at it, node being searched
  rest,             \* ports of node still to be followed
  leafport,
  portnum,          \* port->portnum
  found             \* what find_mcpath returned: a node record, or NoNode

mvars == <<run, pairs, known, level, target, dist, list, node, rest, leafport, portnum, found>>
allvars == <<tracevars, mvars>>

NoNode == [at |-> NoPort]

Dists == 0..MaxHops

TracertInit ==
  /\ run \in Runs
  /\ pairs = 1
  /\ job = run[pairs]
  /\ Begins
  /\ known = <<>>
  /\ level = [d \in Dists |-> <<>>]
  /\ target = NoPort
  /\ dist = 0 /\ list = <<>> /\ node = "none" /\ rest = {}
  /\ leafport = 0 /\ portnum = 0
  /\ found = NoNode

------------------------------------------------------------------------------
\* get_route runs find_route: once for a multicast trace, else twice.
FindRoute ==
  /\ ~(job.mcast /\ leg = 2 /\ pc = "start")
  /\ TraceNext
  /\ UNCHANGED mvars

McReturns(verdict) ==
  /\ pc' = verdict
  /\ UNCHANGED <<job, leg, path, fromport, toport, here, out, hops, trail>>

\* The search goes on.
McGoesOn == UNCHANGED tracevars

\* A node of the tree found: where its SMP arrived, its distance, directed route,
\* and the node and port it was reached from.
NodeOf(at, d, route, upnode, via) ==
  [at |-> at, dist |-> d, path |-> route, upport |-> IF upnode = "none" THEN 0 ELSE at[2],
   upnode |-> upnode, via |-> via]

\* insert_node: a GUID that is known stays as it is.
Entered(tbl, new) ==
  IF new.at[1] \in DOMAIN tbl THEN tbl ELSE (new.at[1] :> new) @@ tbl

\* new_node puts what was inserted at the head of the list of its distance.
Listed(new) ==
  IF new.at[1] \in DOMAIN known THEN level
  ELSE [level EXCEPT ![new.dist] = <<new.at[1]>> \o @]

\* switch_mclookup
McPorts(n) == job.mtables[n]
HasTable(n) == n \in DOMAIN job.mtables

(***************************************************************************)
(* find_target_portguid, and find_mcpath up to its loops.  A target that   *)
(* does not answer has GUID -1, which is not 0 and is then searched for.   *)
(* A trace from a node to itself succeeds for a switch that forwards the   *)
(* group to its own port 0.                                                *)
(***************************************************************************)
McStart ==
  /\ job.mcast /\ leg = 2 /\ pc = "start"
  /\ \E toAnswers, fromAnswers, mapAnswers \in BOOLEAN :
       LET at == ArrivalFrom(job.base, path)
           goal == IF toAnswers THEN job.dest ELSE NoPort
           found0 == goal # NoPort /\ SameGuid(at, goal)
       IN  /\ (~found0 \/ ~IsSwitch(at)) => mapAnswers
           /\ lost' = (lost \/ ~(toAnswers /\ fromAnswers /\ mapAnswers))
           /\ target' = goal
           /\ portnum' = at[2]
           /\ IF ~fromAnswers
              THEN McReturns("failed") /\ UNCHANGED <<known, level, list, found>>
              ELSE IF found0
              THEN /\ IF IsSwitch(at) /\ mapAnswers /\ HasTable(at[1]) /\ 0 \in McPorts(at[1])
                      THEN McReturns("done") /\ found' = NodeOf(at, -1, path, "none", 0)
                      ELSE McReturns("failed") /\ UNCHANGED found
                   /\ UNCHANGED <<known, level, list>>
              ELSE /\ known' = Entered(known, NodeOf(at, 0, path, "none", 0))
                   /\ level' = Listed(NodeOf(at, 0, path, "none", 0))
                   /\ list' = level'[0]
                   /\ pc' = "mcast"
                   /\ fromport' = at
                   /\ UNCHANGED <<job, leg, path, toport, here, out, hops, trail, found>>
           /\ dist' = 0 /\ rest' = {} /\ leafport' = 0
  /\ UNCHANGED <<run, pairs, node>>

\* Mutant of UpPort: the port the SMP came in by, whichever way it went.
UpPortAsMet(n) == known[n].upport

\* From a remote CA the search goes back along the path, and the first switch is
\* entered through the port the path left it by.
UpPort(n) ==
  IF dist = 1 /\ leafport # 0 /\ n \in Switches THEN leafport
  ELSE IF dist = 0 /\ n \notin Switches THEN 0 ELSE known[n].upport

\* The next node at this distance.  CAs are followed only where the trace starts; a
\* switch is skipped if what its path leads to has no table for the group (after an
\* earlier pair that may be another node, see McFound).
McVisit ==
  /\ pc = "mcast" /\ rest = {} /\ list # <<>>
  /\ LET n == Head(list)
         route == known[n].path
         up == UpPort(n)
         asked == ArrivalFrom(job.base, route)[1]
     IN  /\ list' = Tail(list)
         /\ node' = n
         /\ \E answers \in BOOLEAN :
              /\ n \notin Switches => answers
              /\ lost' = (lost \/ ~answers)
              /\ rest' = IF n \notin Switches THEN (IF dist = 0 THEN {portnum} ELSE {})
                         ELSE IF answers /\ HasTable(asked) THEN (McPorts(asked) \cap 1..NumPorts[n]) \ {up}
                         ELSE {}
         /\ leafport' = IF n \notin Switches /\ dist = 0
                        THEN (IF route = <<>> THEN 0 ELSE Last(route)) ELSE leafport
         /\ known' = [known EXCEPT ![n].upport = up]
  /\ McReturns("mcast")
  /\ UNCHANGED <<run, pairs, level, target, dist, portnum, found>>

\* The distances still to be searched that have nodes.
Ahead == {d \in (dist + 1)..(MaxHops - 1) : level[d] # <<>>}

McNextDist ==
  /\ pc = "mcast" /\ rest = {} /\ list = <<>>
  /\ dist' \in Ahead
  /\ \A d \in Ahead : dist' <= d
  /\ list' = level[dist']
  /\ McGoesOn
  /\ UNCHANGED <<run, pairs, known, level, target, node, rest, leafport, portnum, found>>

McNotFound ==
  /\ pc = "mcast" /\ rest = {} /\ list = <<>> /\ Ahead = {}
  /\ McReturns("failed")
  /\ UNCHANGED <<mvars, lost>>

------------------------------------------------------------------------------
\* One turn of the loop over the ports of a node: port lowest, the lowest one left.
lowest == CHOOSE p \in rest : \A q \in rest : p <= q
Following == pc = "mcast" /\ rest # {}
Back == dist = 0 /\ leafport # 0
Route == known[node].path
Stepped == IF ~Back THEN Append(Route, lowest)
           ELSE IF path # <<>> THEN Front(Route) ELSE Route
\* the port get_port asks about, at the node the path leads to
AskedPort == <<ArrivalFrom(job.base, Route)[1], lowest>>
Met == ArrivalFrom(job.base, Stepped)

\* get_port or extend_dpath fails: the whole search is given up.
McAbandon ==
  /\ Following /\ ~Back
  /\ \/ lost' = TRUE
     \/ /\ AskedPort \notin Ports \/ (AskedPort \in DOMAIN Cable /\ Len(Stepped) > RouteMax)
        /\ UNCHANGED lost
  /\ McReturns("failed")
  /\ UNCHANGED mvars

\* The port is not LinkUp.
McPortDown ==
  /\ Following /\ ~Back /\ AskedPort \in Ports /\ AskedPort \notin DOMAIN Cable
  /\ rest' = rest \ {lowest}
  /\ portnum' = lowest
  /\ McGoesOn
  /\ UNCHANGED <<run, pairs, known, level, target, dist, list, node, leafport, found>>

Reaches == Following /\ (Back \/ (AskedPort \in DOMAIN Cable /\ Len(Stepped) <= RouteMax))

\* After the turn the last hop is taken off the path, also off one that was
\* shortened by stepping back.
Restored == [known EXCEPT ![node].path = IF Stepped = <<>> THEN <<>> ELSE Front(Stepped)]

McSkip ==
  /\ Reaches
  /\ lost' = TRUE
  /\ rest' = rest \ {lowest}
  /\ portnum' = IF Back THEN portnum ELSE lowest
  /\ known' = Restored
  /\ McReturns("mcast")
  /\ UNCHANGED <<run, pairs, level, target, dist, list, node, leafport, found>>

\* The node met, and the port of the one before that leads there.
New == NodeOf(Met, dist + 1, Stepped, node, IF Back THEN portnum ELSE lowest)

\* The search returns before the path is restored: node keeps the one that leads to
\* what was found, and a later pair's search starts from it.
McFound ==
  /\ Reaches /\ target # NoPort /\ SameGuid(Met, target)
  /\ found' = New
  /\ known' = [known EXCEPT ![node].path = Stepped]
  /\ McReturns("done")
  /\ UNCHANGED <<run, pairs, level, target, dist, list, node, rest, leafport, portnum, lost>>

McMeet ==
  /\ Reaches /\ ~(target # NoPort /\ SameGuid(Met, target))
  /\ known' = Entered(Restored, New)
  /\ level' = Listed(New)
  /\ rest' = rest \ {lowest}
  /\ portnum' = IF Back THEN portnum ELSE lowest
  /\ McGoesOn
  /\ UNCHANGED <<run, pairs, target, dist, list, node, leafport, found>>

------------------------------------------------------------------------------
\* main: the next line of the ports file, unless a trace failed.
NextPair ==
  /\ pc = "done" /\ pairs < Len(run)
  /\ pairs' = pairs + 1
  /\ job' = run[pairs + 1]
  /\ leg' = 1 /\ pc' = "start" /\ path' = <<>>
  /\ fromport' = NoPort /\ toport' = NoPort /\ here' = NoPort
  /\ out' = 0 /\ hops' = MaxHops /\ trail' = <<>>
  /\ found' = NoNode
  /\ UNCHANGED <<run, known, level, target, dist, list, node, rest, leafport, portnum, lost>>

TracertNext ==
  \/ FindRoute
  \/ McStart \/ McVisit \/ McNextDist \/ McNotFound
  \/ McAbandon \/ McPortDown \/ McSkip \/ McFound \/ McMeet
  \/ NextPair

TracertSpec == TracertInit /\ [][TracertNext]_allvars

------------------------------------------------------------------------------
McFoundPath == pc = "done" /\ job.mcast

\* The nodes dump_mcpath prints: what was found and the nodes it was reached by.
Printed ==
  LET Up[k \in 0..MaxHops] ==
        IF k = 0 THEN {found}
        ELSE UNION {{x} \cup {known[n] : n \in {x.upnode} \cap DOMAIN known} : x \in Up[k - 1]}
  IN  Up[MaxHops]

Root == CHOOSE x \in Printed : x.upnode = "none"

\* The ports group packets from src arrive at after k hops.  A CA sends from its
\* port; a switch forwards to every port of its table but the one they came in by.
Spread(src, k) ==
  LET Out(e, first) ==
        IF ~IsSwitch(e) THEN IF first THEN {e[2]} ELSE {}
        ELSE IF HasTable(e[1]) THEN McPorts(e[1]) \ {e[2]} ELSE {}
      Wave[j \in 0..k] ==
        IF j = 0 THEN {src}
        ELSE UNION {{Cable[x] : x \in {y \in DOMAIN Cable : y[1] = e[1] /\ y[2] \in Out(e, j = 1)}} :
                    e \in Wave[j - 1]}
  IN  Wave[k]

ArrivesIn(k) == \E e \in Spread(job.src, k) : SameGuid(e, job.dest)

\* What is printed starts at the source, and every hop is one the
\* group's packets take: out of a port of the switch's table, over a cable, into the
\* port printed.  Of a switch next to a remote source that is itself the destination
\* the port printed faces this host: only a node that is searched is corrected.
PrintedIsForwarding ==
  /\ SameGuid(Root.at, job.src)
  /\ \A x \in Printed \ {Root} :
       LET before == <<x.upnode, x.via>>
       IN  /\ before \in DOMAIN Cable
           /\ x.upnode \in Switches => x.via \in McPorts(x.upnode)
           /\ Cable[before][1] = x.at[1]
           /\ Cable[before][2] = x.upport
              \/ (x = found /\ IsSwitch(x.at) /\ x.upnode = Root.at[1] /\ path # <<>>)

\* Of the first pair (the tables of find_mcpath are not cleared for the next,
\* ibtracert.c:116): the path printed is one that group packets take, and a shortest
\* one, and if none is found and no SMP was lost the group's packets do not get from
\* the source to the destination within the lengths the program allows.
McPathIsShortest ==
  /\ McFoundPath /\ pairs = 1 => PrintedIsForwarding
  /\ pairs = 1 /\ job.mcast /\ leg = 2 /\ ~SameGuid(job.src, job.dest) =>
       /\ pc = "done" /\ ~lost => /\ ArrivesIn(Cardinality(Printed) - 1)
                                  /\ \A k \in 0..(Cardinality(Printed) - 2) : ~ArrivesIn(k)
       /\ pc = "failed" /\ ~lost =>
            \A k \in 0..MaxHops : Len(path) + k <= RouteMax => ~ArrivesIn(k)

=============================================================================
