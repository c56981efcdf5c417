---------------------------- MODULE PerfCounters ----------------------------
(***************************************************************************)
(* The performance counters of a node, and the tools that read, add up and *)
(* reset them while they count: perfquery (src/perfquery.c) and            *)
(* ibqueryerrors (src/ibqueryerrors.c, print_node).                        *)
(*                                                                         *)
(* A tool works through a list of operations, each a MAD call: first the   *)
(* capabilities (ClassPortInfo), from which it plans what to read and what *)
(* to reset.  A call may fail; then perfquery exits (IBEXIT), while        *)
(* ibqueryerrors counts the failure and goes on.  mad_rpc sends a reset    *)
(* again when its answer is late, so the agent may carry it out more than  *)
(* once, and may have carried out one that fails.                          *)
(*                                                                         *)
(* Abstractions.  One counter of each kind stands for those treated alike: *)
(* errors are compared with a threshold and added up in the counter's own  *)
(* width, data is added up in the width of the tool's variable.  The       *)
(* extended counters (-x) are used by the same control as the others.  Of  *)
(* the optional attributes (-X, -S, ...) a run uses one instead.           *)
(* The agent is external: it counts, caps its counters, and, if it has     *)
(* AllPortSelect, takes port 255 for all ports.                            *)
(***************************************************************************)
EXTENDS Integers, FiniteSets, FiniteSetsExt, Sequences, SequencesExt

CONSTANTS
  NumPorts,         \* the ports of the node
  PortZero,         \* whether it is a switch with an enhanced port 0
  Cap,              \* the highest value of a counter (all ones)
  Threshold,        \* of ibqueryerrors, for errors
  Scenarios,        \* which tools run side by side: functions to options
  Counts,           \* values a counter may have at first
  MaxEvents,        \* events, the counted ones included (a bound for the checker)
  MaxSends          \* times that a reset is sent (retries of mad_rpc)

Kinds == {"err", "data"}
AllPorts == 255     \* ALL_PORTS
StartPort == IF PortZero THEN 0 ELSE 1
Ports == StartPort..NumPorts
Unread == -1

\* The ports that a tool is given are there, and it is given one unless there is port 0.
Understood(o) ==
  /\ o.runs \in Nat
  /\ \/ /\ o.tool = "perfquery"
        /\ {o.all, o.loop, o.detail} \subseteq BOOLEAN /\ o.reset \in {"no", "after", "only"}
        /\ o.ports \in Seq(Ports \cup {AllPorts}) /\ o.self \in Ports \cup {0}
        /\ PortZero \/ o.self # 0 \/ o.ports # <<>> \/ o.all
     \/ /\ o.tool = "ibqueryerrors"
        /\ o.countersOnly \in BOOLEAN /\ o.clear \subseteq Kinds

ASSUME PerfCountersAssumption ==
  /\ NumPorts \in 1..(AllPorts - 1) /\ PortZero \in BOOLEAN
  /\ Cap \in Nat /\ Threshold \in 0..(Cap - 1)
  /\ Counts \subseteq 0..Cap
  /\ \A s \in Scenarios : \A t \in DOMAIN s : Understood(s[t])

VARIABLES
  scenario,
  allSelect,        \* whether the agent has AllPortSelect
  counter,          \* the counters
  events,           \* what happened at each port
  todo,             \* of each tool: the operations left
  phase,            \* "run", "done", "exit"
  sends,            \* times the reset at the head of todo was carried out
  seen,             \* values read in this run, by port
  since,            \* events when they were read
  first,            \* the counters when the run began
  sum,              \* perf_count
  bad,              \* ports ibqueryerrors reported
  failures,         \* summary.pma_query_failures
  total,            \* what a tool reported over all its runs
  runs

agent == <<scenario, allSelect, events>>
countervars == <<agent, counter, todo, phase, sends, seen, since, first, sum, bad, failures, total, runs>>

Tools == DOMAIN scenario
Opt(t) == scenario[t]
IsPerfquery(t) == Opt(t).tool = "perfquery"

Op(name, p) == [op |-> name, port |-> p]
ForPorts(name, ps) == [j \in 1..Len(ps) |-> Op(name, ps[j])]
PortList == [j \in 1..(NumPorts + 1 - StartPort) |-> StartPort + j - 1]

Zero == [k \in Kinds |-> 0]
SumOver(f, ps, k) == FoldSet(LAMBDA p, acc : acc + f[p][k], 0, ps)
Total(f) == SumOver(f, Ports, "err") + SumOver(f, Ports, "data")
Nothing == [p \in Ports \cup {AllPorts} |-> [k \in Kinds |-> Unread]]

CountersInit ==
  /\ scenario \in Scenarios
  /\ allSelect \in BOOLEAN
  /\ counter \in {c \in [Ports -> [Kinds -> Counts]] : Total(c) <= MaxEvents}
  /\ events = counter
  /\ todo = [t \in Tools |-> <<Op("caps", 0)>>]
  /\ phase = [t \in Tools |-> "run"]
  /\ sends = [t \in Tools |-> 0]
  /\ seen = [t \in Tools |-> Nothing]
  /\ since = [t \in Tools |-> counter]
  /\ first = [t \in Tools |-> counter]
  /\ sum = [t \in Tools |-> Zero]
  /\ bad = [t \in Tools |-> {}]
  /\ failures = [t \in Tools |-> 0]
  /\ total = [t \in Tools |-> [p \in Ports |-> Zero]]
  /\ runs = [t \in Tools |-> 1]

------------------------------------------------------------------------------
(* The agent. *)

Capped(n) == IF n > Cap THEN Cap ELSE n

Event(p, k) ==
  /\ Total(events) < MaxEvents
  /\ events' = [events EXCEPT ![p][k] = @ + 1]
  /\ counter' = [counter EXCEPT ![p][k] = Capped(@ + 1)]
  /\ UNCHANGED <<scenario, allSelect, todo, phase, sends, seen, since, first, sum, bad,
                 failures, total, runs>>

Answers(p) == p # AllPorts \/ allSelect

\* What the agent answers to a Get of a port.
Value(p) == IF p = AllPorts THEN [k \in Kinds |-> Capped(SumOver(counter, Ports, k))]
            ELSE counter[p]

------------------------------------------------------------------------------
(* What the tools plan, once they know the agent's capabilities. *)

\* info.port: the local port if no destination was given (resolve_self stores
\* it there, also over the 255 of -a), else the first of the ports named, or 255.
InfoPort(t) ==
  IF Opt(t).self # 0 THEN Opt(t).self
  ELSE IF Opt(t).ports # <<>> THEN Opt(t).ports[1]
  ELSE IF Opt(t).all THEN AllPorts ELSE 0

\* all_ports_loop: AllPortSelect has to be emulated.
Emulates(t) == ~allSelect /\ Opt(t).all /\ InfoPort(t) = AllPorts

Looping(t) == Emulates(t) \/ (Opt(t).loop /\ (Opt(t).all \/ InfoPort(t) = AllPorts))

\* The ports perfquery loops over, to read and then to reset.
Loop(t) ==
  IF Looping(t) THEN PortList
  ELSE IF Len(Opt(t).ports) > 1 THEN Opt(t).ports
  ELSE <<InfoPort(t)>>

\* Mutant of ResetLoop: the loop starts at port 1.
ResetLoopFromOne(t) == SelectSeq(Loop(t), LAMBDA p : p # 0)

ResetLoop(t) == Loop(t)

Aggregates(t) ==
  /\ IsPerfquery(t) /\ ~Opt(t).loop /\ Opt(t).all /\ ~Opt(t).detail
  /\ Emulates(t) \/ Len(Opt(t).ports) > 1

\* The other counters (-X, -S, ...): one port, whatever was asked (common_func).
DetailPlan(t) ==
  (IF Opt(t).reset = "only" THEN <<>> ELSE <<Op("read", InfoPort(t))>>)
  \o (IF Opt(t).reset = "no" THEN <<>> ELSE <<Op("reset", InfoPort(t))>>)

PerfqueryPlan(t) ==
  IF ~allSelect /\ ~Opt(t).all /\ InfoPort(t) = AllPorts THEN <<Op("exit", 0)>>
  ELSE IF Opt(t).detail THEN DetailPlan(t)
  ELSE (IF Looping(t) THEN <<Op("ports", 0)>> ELSE <<>>)
       \o (IF Opt(t).reset = "only" THEN <<>> ELSE ForPorts("read", Loop(t)))
       \o (IF Opt(t).reset = "no" THEN <<>> ELSE ForPorts("reset", ResetLoop(t)))

\* clear_port sends a Set only if there is something to clear.
Clear(t, p) == IF Opt(t).clear = {} THEN <<>> ELSE <<Op("reset", p)>>

\* Mutant of EachPort: port 0 is never looked at.
EachPortFromOne(t, clears) ==
  FlattenSeq([p \in 1..NumPorts |-> <<Op("read", p)>> \o (IF clears THEN Clear(t, p) ELSE <<>>)])

\* Mutant of EachPort: the port is cleared before it is read.
ClearedFirst(t, clears) ==
  FlattenSeq([j \in 1..Len(PortList) |->
    (IF clears THEN Clear(t, PortList[j]) ELSE <<>>) \o <<Op("read", PortList[j])>>])

\* print_node's loops over the ports.
EachPort(t, clears) ==
  FlattenSeq([j \in 1..Len(PortList) |->
    <<Op("read", PortList[j])>> \o (IF clears THEN Clear(t, PortList[j]) ELSE <<>>)])

\* Ports are cleared one by one unless all of them are, at the end.  A node that
\* does not answer for its capabilities is taken for one without AllPortSelect.
PrintNodePlan(t, all) ==
  IF ~all THEN EachPort(t, TRUE)
  ELSE (IF Opt(t).countersOnly THEN EachPort(t, FALSE) ELSE <<Op("read", AllPorts)>>)
       \o Clear(t, AllPorts)

------------------------------------------------------------------------------
(* The tools. *)

Head1(t) == todo[t][1]
Doing(t, name) == phase[t] = "run" /\ todo[t] # <<>> /\ Head1(t).op = name
Go(t, ops) == todo' = [todo EXCEPT ![t] = ops \o Tail(@)]

Exits(t) ==
  /\ todo' = [todo EXCEPT ![t] = <<>>]
  /\ phase' = [phase EXCEPT ![t] = "exit"]

\* A call of ibqueryerrors that fails is counted, one of perfquery is the end.
CallFails(t) ==
  IF IsPerfquery(t) THEN Exits(t) /\ UNCHANGED failures
  ELSE /\ failures' = [failures EXCEPT ![t] = @ + 1]
       /\ UNCHANGED phase
       /\ todo' = [todo EXCEPT ![t] = Tail(@)]

QueryCaps(t) ==
  /\ Doing(t, "caps")
  /\ Go(t, IF IsPerfquery(t) THEN PerfqueryPlan(t) ELSE PrintNodePlan(t, allSelect))
  /\ UNCHANGED <<agent, counter, phase, sends, seen, since, first, sum, bad, failures, total, runs>>

CapsFail(t) ==
  /\ Doing(t, "caps")
  /\ IF IsPerfquery(t) THEN Exits(t) /\ UNCHANGED failures
     ELSE /\ failures' = [failures EXCEPT ![t] = @ + 1]
          /\ Go(t, PrintNodePlan(t, FALSE))
          /\ UNCHANGED phase
  /\ UNCHANGED <<agent, counter, sends, seen, since, first, sum, bad, total, runs>>

\* NodeInfo and SwitchInfo, for the ports to loop over.
QueryPorts(t) ==
  /\ Doing(t, "ports")
  /\ \/ Go(t, <<>>) /\ UNCHANGED phase
     \/ Exits(t)
  /\ UNCHANGED <<agent, counter, sends, seen, since, first, sum, bad, failures, total, runs>>

\* Mutant of Aggregate: data is capped like errors only after it has wrapped.
AggregateWraps(k, dest, val) ==
  IF k = "err" THEN Capped(dest + val) ELSE (dest + val) % (Cap + 1)

\* aggregate_16bit and aggregate_32bit (and _4bit, _8bit and _64bit): narrow
\* counters are added in 32 bits and compared with their highest value, wide ones
\* wrap around, and are then smaller than before.
Aggregate(k, dest, val) ==
  IF k = "err" THEN Capped(dest + val)
  ELSE IF (dest + val) % (Cap + 1) < dest THEN Cap ELSE (dest + val) % (Cap + 1)

\* ibqueryerrors --counters looks at data only.
Reads(t) == IF ~IsPerfquery(t) /\ Opt(t).countersOnly THEN {"data"} ELSE Kinds

Exceeds(value) == value["err"] > Threshold

\* A port is read: added up, reported and, for all ports at once and beyond the
\* threshold, followed by each of them.
Read(t) ==
  /\ Doing(t, "read") /\ Answers(Head1(t).port)
  /\ LET p == Head1(t).port
         value == Value(p)
     IN  /\ seen' = [seen EXCEPT ![t][p] = [k \in Kinds |-> IF k \in Reads(t) THEN value[k] ELSE @[k]]]
         /\ since' = IF p = AllPorts THEN since ELSE [since EXCEPT ![t][p] = events[p]]
         /\ sum' = IF Aggregates(t)
                   THEN [sum EXCEPT ![t] = [k \in Kinds |-> Aggregate(k, @[k], value[k])]]
                   ELSE sum
         /\ bad' = IF ~IsPerfquery(t) /\ p # AllPorts /\ ~Opt(t).countersOnly /\ Exceeds(value)
                   THEN [bad EXCEPT ![t] = @ \cup {p}] ELSE bad
         /\ total' = IF p = AllPorts THEN total
                     ELSE [total EXCEPT ![t][p] = [k \in Kinds |-> @[k] + value[k]]]
         /\ Go(t, IF ~IsPerfquery(t) /\ p = AllPorts /\ Exceeds(value)
                  THEN EachPort(t, FALSE) ELSE <<>>)
  /\ UNCHANGED <<agent, counter, phase, sends, first, failures, runs>>

ReadFails(t) ==
  /\ Doing(t, "read")
  /\ CallFails(t)
  /\ UNCHANGED <<agent, counter, sends, seen, since, first, sum, bad, total, runs>>

\* The kinds of counters a reset is for: without a mask, all of them.
Mask(t) == IF IsPerfquery(t) THEN Kinds ELSE Opt(t).clear

\* The agent carries out a reset, once for each time it is sent.
Reset(t) ==
  /\ Doing(t, "reset") /\ sends[t] < MaxSends /\ Answers(Head1(t).port)
  /\ LET p == Head1(t).port
     IN  counter' = [q \in Ports |-> [k \in Kinds |->
                     IF p \in {q, AllPorts} /\ k \in Mask(t) THEN 0 ELSE counter[q][k]]]
  /\ sends' = [sends EXCEPT ![t] = @ + 1]
  /\ UNCHANGED <<agent, todo, phase, seen, since, first, sum, bad, failures, total, runs>>

ResetDone(t) ==
  /\ Doing(t, "reset") /\ sends[t] > 0
  /\ Go(t, <<>>)
  /\ sends' = [sends EXCEPT ![t] = 0]
  /\ UNCHANGED <<agent, counter, phase, seen, since, first, sum, bad, failures, total, runs>>

\* No answer came, whether the agent carried the reset out or not.  ibqueryerrors
\* says so and goes on.
ResetFails(t) ==
  /\ Doing(t, "reset")
  /\ sends' = [sends EXCEPT ![t] = 0]
  /\ IF IsPerfquery(t) THEN Exits(t) ELSE Go(t, <<>>) /\ UNCHANGED phase
  /\ UNCHANGED <<agent, counter, seen, since, first, sum, bad, failures, total, runs>>

NoAllSelect(t) ==
  /\ Doing(t, "exit")
  /\ Exits(t)
  /\ UNCHANGED <<agent, counter, sends, seen, since, first, sum, bad, failures, total, runs>>

Finish(t) ==
  /\ phase[t] = "run" /\ todo[t] = <<>>
  /\ phase' = [phase EXCEPT ![t] = "done"]
  /\ UNCHANGED <<agent, counter, todo, sends, seen, since, first, sum, bad, failures, total, runs>>

\* The tool is run again, as a monitor does.
Again(t) ==
  /\ phase[t] = "done" /\ runs[t] < Opt(t).runs
  /\ runs' = [runs EXCEPT ![t] = @ + 1]
  /\ phase' = [phase EXCEPT ![t] = "run"]
  /\ todo' = [todo EXCEPT ![t] = <<Op("caps", 0)>>]
  /\ seen' = [seen EXCEPT ![t] = Nothing]
  /\ since' = [since EXCEPT ![t] = events]
  /\ first' = [first EXCEPT ![t] = counter]
  /\ sum' = [sum EXCEPT ![t] = Zero]
  /\ bad' = [bad EXCEPT ![t] = {}]
  /\ failures' = [failures EXCEPT ![t] = 0]
  /\ UNCHANGED <<agent, counter, sends, total>>

Step(t) ==
  \/ QueryCaps(t) \/ CapsFail(t) \/ NoAllSelect(t) \/ QueryPorts(t)
  \/ Read(t) \/ ReadFails(t)
  \/ Reset(t) \/ ResetDone(t) \/ ResetFails(t)
  \/ Finish(t) \/ Again(t)

CountersNext ==
  \/ \E p \in Ports, k \in Kinds : Event(p, k)
  \/ \E t \in Tools : Step(t)

CountersSpec == CountersInit /\ [][CountersNext]_countervars

------------------------------------------------------------------------------
\* No port is named twice; what is read twice is reported and added up twice.
PortsDiffer ==
  \A s \in Scenarios : \A t \in DOMAIN s :
    LET ports == s[t].ports
    IN  s[t].tool = "perfquery" =>
          \A i, j \in 1..Len(ports) : i # j => ports[i] # ports[j]

\* A monitor that runs perfquery -r again and again reports no event twice, as long as
\* none of its runs fails: what it reads is reset before it is read again, for every
\* port, also when others reset the counters and when resets are sent twice.
NothingReportedTwice ==
  \A t \in Tools :
    IsPerfquery(t) /\ Opt(t).reset = "after" /\ phase[t] # "exit" =>
      \A p \in Ports, k \in Kinds : total[t][p][k] <= events[p][k]

\* t has read counter k of port p in this run, on its own or with all others.
HasRead(t, p, k) == \E q \in {p, AllPorts} : seen[t][q][k] # Unread

\* What a tool erases it has read, or it was counted after that: of the counters it
\* looks at nothing is lost that was counted before, provided its queries were
\* answered (and it was not told to reset only).
ErasedWasRead ==
  [][ \A t \in Tools, p \in Ports, k \in Kinds :
        /\ Doing(t, "reset") /\ sends'[t] > sends[t]
        /\ counter'[p][k] < counter[p][k]
        /\ ~(IsPerfquery(t) /\ Opt(t).reset = "only")
        /\ failures[t] = 0 /\ k \in Reads(t)
        => /\ HasRead(t, p, k)
           /\ seen[t][p][k] # Unread =>
                counter[p][k] <= seen[t][p][k] + (events[p][k] - since[t][p][k])
    ]_countervars

\* ibqueryerrors reports every port that was beyond the threshold when it came to the
\* node (print_node, ibqueryerrors.c:775), whether or not it could look at all ports at
\* once, unless queries failed or another tool reset the port.  What perfquery -a prints
\* is the sum over every port of the counters as they were read, capped at their highest
\* value ("IB semantics is to cap counters if count has exceeded limits",
\* perfquery.c), whether they are narrow or as wide as the sum.
EveryPortIsReported ==
  \A t \in Tools :
    /\ /\ ~IsPerfquery(t) /\ ~Opt(t).countersOnly /\ phase[t] = "done" /\ failures[t] = 0
       /\ \A u \in Tools \ {t} : IsPerfquery(u) /\ Opt(u).reset = "no"
       => \A p \in Ports : Exceeds(first[t][p]) => p \in bad[t]
    /\ Aggregates(t) /\ phase[t] = "done" /\ Opt(t).reset # "only" =>
         \A k \in Kinds :
           sum[t][k] = Capped(SumOver(seen[t], {Loop(t)[j] : j \in DOMAIN Loop(t)}, k))
=============================================================================
