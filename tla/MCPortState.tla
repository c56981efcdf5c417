---------------------------- MODULE MCPortState ----------------------------
(***************************************************************************)
(* One or two ibportstates at a switch port and its peer.                  *)
(***************************************************************************)
EXTENDS PortState, TLC

NoArgs == [f \in {} |-> 0]
DoJob(op, args, fdr10) == [op |-> op, args |-> args, fdr10 |-> fdr10]
Query == DoJob("query", NoArgs, "unset")

Port(lid, state, phys, width, active) ==
  [ plain |-> ("lid" :> lid) @@ ("smlid" :> 1) @@ ("mtu" :> 2) @@ ("mkey" :> 1),
    state |-> state, phys |-> phys,
    enabled |-> ("width" :> width) @@ ("speed" :> AllOnes) @@ ("espeed" :> AllOnes),
    active |-> ("width" :> active) @@ ("speed" :> 4) @@ ("espeed" :> 2),
    ext |-> [enabled |-> TRUE, active |-> FALSE] ]

Cap1(switch, espeed, epi, width) ==
  [ switch |-> switch, espeed |-> espeed, epi |-> epi,
    supported |-> ("width" :> width) @@ ("speed" :> {1, 2, 4}) @@ ("espeed" :> {1, 2}) ]

\* A port that allows one speed only, so that the link always has it.
OneSpeed(port) == [port EXCEPT !.enabled["speed"] = {4}, !.enabled["espeed"] = {2}]

Far == Port(2, "active", "up", AllOnes, 2)

\* One tool, or two, that write.
Writers ==
  { [ cap |-> ("near" :> Cap1(switch, TRUE, TRUE, {2}) @@ ("far" :> Cap1(TRUE, TRUE, FALSE, {2}))),
      reg |-> ("near" :> OneSpeed(p) @@ ("far" :> Far)), jobs |-> j, events |-> 2 ] :
    switch \in BOOLEAN,
    p \in {Port(0, "init", "up", {2}, 2), Port(3, "active", "up", {2}, 2),
           Port(65535, "down", "disabled", {2}, 2)},
    j \in { ("a" :> DoJob(op, NoArgs, "unset")) : op \in {"on", "off", "down", "arm", "active"} }
          \cup { ("a" :> DoJob("query", "mkey" :> 2, "unset")),
                 ("a" :> DoJob("query", "mtu" :> 4, "on")),
                 ("a" :> DoJob("query", "lid" :> 4 @@ "width" :> {1}, "unset"))
                   @@ ("b" :> DoJob("query", "mtu" :> 4, "unset")) } }

\* One tool that asks.
Askers ==
  { [ cap |-> ("near" :> Cap1(TRUE, es, es, ws) @@ ("far" :> Cap1(TRUE, es, epi, {1, 2, 16}))),
      reg |-> ("near" :> Port(3, "active", "up", we, wa) @@ ("far" :> far)),
      jobs |-> "a" :> Query, events |-> 1 ] :
    es \in BOOLEAN, epi \in {TRUE}, ws \in {{1, 2, 8, 16}, {1, 16}}, we \in {AllOnes, {1, 16}, {8}},
    wa \in {1, 2, 16}, far \in {Far, [Far EXCEPT !.enabled["width"] = {1, 2}]} }

MCScenarios == Writers \cup Askers

ASSUME MCMasksAssumption == MasksAreKnown

=============================================================================
