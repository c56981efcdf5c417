----------------------------- MODULE MCDiscovery -----------------------------
(***************************************************************************)
(* Three small fabrics, side by side, and the scans made of them.          *)
(*                                                                         *)
(*   Loop   H.1 - S.1   S.2 = T.1 and S.3 = T.2 (parallel)   T.3 - C.1     *)
(*          T.4 - H.2                                                      *)
(*   Star   I.1 - Q.1   Q.2 - R.1   R.2 - D.1   Q.3 - E.1                  *)
(*   Leaf   J.1 - L.1   L.2 - F.1   L.3 is down                            *)
(*                                                                         *)
(* H, I and J are the hosts that scan; S, T, Q, R and L are switches; C, D,*)
(* E and F are other CAs.                                                  *)
(***************************************************************************)
EXTENDS Discovery

\* The cables of a set of pairs of ports, seen from both ends.
Cabled(pairs) ==
  [e \in {p[1] : p \in pairs} \cup {p[2] : p \in pairs} |->
     LET pair == CHOOSE p \in pairs : e \in {p[1], p[2]}
     IN  IF e = pair[1] THEN pair[2] ELSE pair[1]]

MCSwitches == {"S", "T", "Q", "R", "L"}
MCNodes == MCSwitches \cup {"H", "C", "I", "D", "E", "J", "F"}
MCNumPorts ==
  [n \in MCNodes |-> CASE n \in {"H", "R"} -> 2 [] n \in {"S", "Q", "L"} -> 3
                       [] n = "T" -> 4 [] OTHER -> 1]
MCCable ==
  Cabled({<<<<"H", 1>>, <<"S", 1>>>>, <<<<"S", 2>>, <<"T", 1>>>>,
          <<<<"S", 3>>, <<"T", 2>>>>, <<<<"T", 3>>, <<"C", 1>>>>,
          <<<<"T", 4>>, <<"H", 2>>>>,
          <<<<"I", 1>>, <<"Q", 1>>>>, <<<<"Q", 2>>, <<"R", 1>>>>,
          <<<<"R", 2>>, <<"D", 1>>>>, <<<<"Q", 3>>, <<"E", 1>>>>,
          <<<<"J", 1>>, <<"L", 1>>>>, <<<<"L", 2>>, <<"F", 1>>>>})

\* LIDs as a subnet manager assigns them: a switch has one, at its port 0.
MCLids ==
  [e \in Ports |->
     CASE e = <<"H", 1>> -> 1 [] e = <<"S", 0>> -> 2 [] e = <<"T", 0>> -> 3
       [] e = <<"C", 1>> -> 4 [] e = <<"H", 2>> -> 5
       [] e = <<"I", 1>> -> 1 [] e = <<"Q", 0>> -> 2 [] e = <<"R", 0>> -> 3
       [] e = <<"D", 1>> -> 4 [] e = <<"E", 1>> -> 5
       [] e = <<"J", 1>> -> 1 [] e = <<"L", 0>> -> 2 [] e = <<"F", 1>> -> 3
       [] OTHER -> 0]

MCEpiPorts == {<<"S", 2>>}

LoopScan == [base |-> <<"H", 1>>, path |-> <<>>, lid |-> FALSE, hops |-> 0,
             faults |-> 1]
LidScan == [base |-> <<"Q", 1>>, path |-> <<>>, lid |-> TRUE, hops |-> 0,
            faults |-> 0]
HopScan == [base |-> <<"I", 1>>, path |-> <<>>, lid |-> FALSE, hops |-> 1,
            faults |-> 0]
SwitchScan == [base |-> <<"I", 1>>, path |-> <<1>>, lid |-> FALSE, hops |-> 0,
               faults |-> 0]
LeafScan == [base |-> <<"J", 1>>, path |-> <<1, 2>>, lid |-> FALSE, hops |-> 0,
             faults |-> 1]

AllScans == {LoopScan, LidScan, SwitchScan, HopScan, LeafScan}

\* The scans of these fabrics meet what FabricProofs asks of them.
ASSUME MCScansAssumption == ScansCanGoOn
=============================================================================
