--------------------------- MODULE MCPerfCounters ---------------------------
(***************************************************************************)
(* Ports 0 and 1 of a switch with counters of one bit.  One or two         *)
(* tools run side by side.                                                 *)
(***************************************************************************)
EXTENDS PerfCounters, TLC

Perfquery(all, loop, ports, self, reset) ==
  [tool |-> "perfquery", all |-> all, loop |-> loop, ports |-> ports, self |-> self,
   reset |-> reset, detail |-> FALSE, runs |-> 1]

Ibqueryerrors(clear, countersOnly) ==
  [tool |-> "ibqueryerrors", clear |-> clear, countersOnly |-> countersOnly, runs |-> 1]

Once == Perfquery(TRUE, FALSE, <<>>, 0, "after")        \* perfquery -a -r <lid>
Monitor == [Once EXCEPT !.runs = 2]                      \* the same, again and again

MCScenarios ==
  { ("a" :> Monitor),
    ("a" :> Perfquery(TRUE, FALSE, <<0, 1>>, 0, "after")),   \* -a -r <lid> 0,1
    ("a" :> Perfquery(TRUE, TRUE, <<>>, 0, "no")),           \* -a -l <lid>
    ("a" :> Perfquery(FALSE, FALSE, <<255>>, 0, "only")),    \* -R <lid> 255
    ("a" :> Perfquery(TRUE, FALSE, <<>>, 1, "after")),       \* -a -r
    ("a" :> [Once EXCEPT !.detail = TRUE]),                  \* -X -a -r <lid>
    ("a" :> [Perfquery(FALSE, FALSE, <<1>>, 0, "only") EXCEPT !.detail = TRUE]),
    ("a" :> Ibqueryerrors({"err"}, FALSE)),                  \* -k
    ("a" :> Ibqueryerrors({"err", "data"}, TRUE)),           \* --counters -k -K
    ("a" :> Ibqueryerrors({}, FALSE)) @@ ("b" :> Perfquery(FALSE, FALSE, <<1>>, 0, "no")) }

Pairs ==
  { ("a" :> Perfquery(FALSE, FALSE, <<0, 1>>, 0, "after")) @@ ("b" :> Once),
    ("a" :> Perfquery(FALSE, FALSE, <<1>>, 0, "after")) @@ ("b" :> Ibqueryerrors({"err"}, FALSE)) }

AllScenarios == MCScenarios \cup Pairs

ASSUME MCPortsAssumption == PortsDiffer

=============================================================================
