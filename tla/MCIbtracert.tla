---------------------------- MODULE MCIbtracert -----------------------------
(***************************************************************************)
(* Host H, switches S and T joined by two cables, CAs C and D, and K       *)
(* connected to H's second port without a switch:                          *)
(*                                                                         *)
(*   K.1 - H.2   H.1 - S.1   S.2 = T.1   S.3 = T.2   T.3 - C.1   T.4 - C.2 *)
(*                                                                         *)
(* All forwarding tables of S and T are considered, for any source and     *)
(* destination: loops, dead ends, entries that name the switch itself, a   *)
(* port it does not have, or nothing (255).  Multicast tables of S and T    *)
(* likewise, and pairs of traces over one tree.                            *)
(***************************************************************************)
EXTENDS Ibtracert

Cabled(cables) ==
  [e \in {p[1] : p \in cables} \cup {p[2] : p \in cables} |->
     LET pair == CHOOSE p \in cables : e \in {p[1], p[2]}
     IN  IF e = pair[1] THEN pair[2] ELSE pair[1]]

MCSwitches == {"S", "T"}
MCNodes == MCSwitches \cup {"H", "C", "K"}
MCNumPorts == [n \in MCNodes |-> CASE n \in {"H", "C"} -> 2 [] n \in {"S", "T"} -> 4
                                   [] OTHER -> 1]
MCCable ==
  Cabled({<<<<"K", 1>>, <<"H", 2>>>>, <<<<"H", 1>>, <<"S", 1>>>>,
          <<<<"S", 2>>, <<"T", 1>>>>, <<<<"S", 3>>, <<"T", 2>>>>,
          <<<<"T", 3>>, <<"C", 1>>>>, <<<<"T", 4>>, <<"C", 2>>>>})
MCLids ==
  [e \in Ports |-> CASE e = <<"H", 1>> -> 1 [] e = <<"H", 2>> -> 2 [] e = <<"S", 0>> -> 3
                     [] e = <<"T", 0>> -> 4 [] e = <<"C", 1>> -> 5 [] e = <<"C", 2>> -> 6
                     [] e = <<"K", 1>> -> 7 [] OTHER -> 0]

\* The tables of S and T for two LIDs.
Tables(a, b) ==
  {s @@ t : s \in [{"S"} -> [{a, b} -> {0, 1, 2, 3, 255}]],
            t \in [{"T"} -> [{a, b} -> {0, 1, 3, 4, 5}]]}

Traces(base, srcs, dests, downs, forces) ==
  UNION {[base : {base}, src : {s}, dest : {d}, tables : Tables(LidOf[s], LidOf[d]),
          down : downs, force : forces, mcast : {FALSE}] : s \in srcs, d \in dests}

\* Forwarding tables as a subnet manager sets them, for all LIDs.
GoodTables == ("S" :> [l \in 1..7 |-> CASE l = 1 -> 1 [] l = 3 -> 0 [] OTHER -> 2])
           @@ ("T" :> [l \in 1..7 |-> CASE l = 4 -> 0 [] l = 5 -> 3 [] l = 6 -> 4
                                        [] OTHER -> 1])

UnicastJobs ==
  \* every table, between all kinds of ports
  Traces(<<"H", 1>>, {<<"H", 1>>}, {<<"C", 2>>, <<"S", 0>>}, {{}}, {FALSE})
  \cup Traces(<<"H", 1>>, {<<"C", 1>>}, {<<"H", 1>>, <<"C", 2>>}, {{}}, {FALSE})
  \cup Traces(<<"H", 1>>, {<<"T", 0>>}, {<<"C", 2>>}, {{}}, {FALSE})
  \* ports that are not active, and the option -f
  \cup Traces(<<"H", 1>>, {<<"C", 1>>}, {<<"H", 1>>},
              {{<<"T", 0>>}, {<<"C", 1>>}}, {TRUE})
  \* a host connected to a CA without a switch
  \cup [base : {<<"H", 2>>}, src : {<<"K", 1>>, <<"H", 2>>},
        dest : {<<"H", 2>>, <<"K", 1>>, <<"C", 1>>}, tables : {GoodTables}, down : {{}},
        force : {FALSE}, mcast : {FALSE}]

\* A multicast trace over given tables; two joined switches may forward to each
\* other over both cables, in a circle, or not at all, and T may have no table.
McJobs(base, srcs, dests, sPorts, tPorts) ==
  [base : {base}, src : srcs, dest : dests, tables : {GoodTables}, down : {{}},
   force : {FALSE}, mcast : {TRUE},
   mtables : {s @@ t : s \in {"S" :> p : p \in sPorts},
                       t \in {<<>>} \cup {"T" :> p : p \in tPorts}}]

MulticastJobs ==
  McJobs(<<"H", 1>>, {<<"H", 1>>, <<"C", 1>>, <<"T", 0>>},
         {<<"H", 1>>, <<"C", 2>>, <<"S", 0>>, <<"T", 0>>},
         SUBSET (1..3) \cup {{0, 1, 2}, {2, 4}},
         {{1}, {1, 4}, {0, 1, 4}, {1, 3, 4}, {1, 2, 3, 4}, {1, 4, 5}, {2, 4}})
  \cup McJobs(<<"H", 2>>, {<<"K", 1>>, <<"H", 2>>}, {<<"K", 1>>, <<"H", 2>>}, {{}}, {})

\* Two pairs in one run, in a spanning tree.
FilePairs ==
  LET jobs == McJobs(<<"H", 1>>, {<<"H", 1>>, <<"C", 1>>}, {<<"H", 1>>, <<"C", 2>>, <<"S", 0>>},
                     {{0, 1, 2}}, {{1, 3, 4}})
  IN  {<<a, b>> : a \in jobs, b \in jobs}

MCRuns == {<<j>> : j \in UnicastJobs \cup MulticastJobs} \cup FilePairs
MCJobs == {r[1] : r \in MCRuns} \cup {r[2] : r \in FilePairs}

ASSUME MCLidsAssumption == LidsDiffer

ASSUME MCPortsAssumption == PortsFit
=============================================================================
