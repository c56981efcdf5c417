---------------------------- MODULE MCFwdTables ----------------------------
(***************************************************************************)
(* Tables in blocks of four LIDs and chunks of two ports, of one switch or *)
(* two.                                                                    *)
(***************************************************************************)
EXTENDS FwdTables, TLC

\* LIDs 2 and 3 belong to one port, and 4 to 7 to another.
Owner == [l \in Lids |-> CASE l \in {2, 3} -> [base |-> 2, size |-> 2]
                           [] l \in 4..7 -> [base |-> 4, size |-> 4]
                           [] OTHER -> [base |-> l, size |-> 1]]

Ucast(ports) == [l \in Lids |-> IF l \in 1..Len(ports) THEN {ports[l]} ELSE {255}]
Groups(sets) == [l \in Lids |-> IF l - MinMcast + 1 \in DOMAIN sets THEN sets[l - MinMcast + 1] ELSE {}]

Sw(top, mtop, entries) == [nports |-> 3, top |-> top, mtop |-> mtop, cap |-> 6, entry |-> entries]

DoJob(tool, multicast, all, brief, start, end) ==
  [tool |-> tool, multicast |-> multicast, all |-> all, brief |-> brief, start |-> start, end |-> end]

Unicast(tool, all, brief, start, end, switches) ==
  [ job |-> DoJob(tool, FALSE, all, brief, start, end),
    switches |-> switches, owner |-> Owner,
    written |-> {2, 5, 7}, values |-> {{1}, {255}} ]

S1(top) == Sw(top, 0, Ucast(<<1, 2, 255, 3, 1, 1, 2, 0, 1>>))
S2(top) == Sw(top, 0, Ucast(<<2, 1, 1, 255, 255, 3, 1, 2, 2>>))

Multicast(tool, all, brief, start, end, switches) ==
  [ job |-> DoJob(tool, TRUE, all, brief, start, end),
    switches |-> switches, owner |-> Owner,
    written |-> {MinMcast + 1, MinMcast + 4}, values |-> {{}, {0}, {0, 3}} ]

M1(mtop) == Sw(0, mtop, Groups(<<{0, 1}, {2}, {}, {1, 3}, {3}, {0}>>))
M2(mtop) == Sw(0, mtop, Groups(<<{}, {1}, {1, 2}, {}, {0, 1, 2}, {}>>))


MCScenarios ==
  { Unicast("ibroute", all, FALSE, r[1], r[2], <<S1(top)>>) :
      all \in BOOLEAN, r \in {<<0, 0>>, <<3, 6>>, <<5, 20>>}, top \in {6, 8, 9} }
  \cup { Unicast("dump_fts", FALSE, FALSE, 0, 0, <<S1(6), S2(6)>>) }
  \cup { Multicast("ibroute", all, TRUE, r[1], r[2], <<M1(mtop)>>) :
      all \in BOOLEAN, r \in {<<0, 0>>, <<MinMcast + 1, MinMcast + 4>>},
      mtop \in {0, MinMcast - 1, MinMcast + 4} }
  \cup { Multicast("dump_fts", FALSE, FALSE, 0, 0, <<M1(0), M2(MinMcast + 3)>>) }

FtsScenarios == {s \in MCScenarios : s.job.tool = "dump_fts"}

\* The LIDs of these ports are what DumpedWasTrue asks for.
ASSUME MCLidsAssumption == LidsOfPorts
=============================================================================
