-------------------------- MODULE PortStateProofs --------------------------
(***************************************************************************)
(* What ibportstate leaves alone, for any number of ibportstates at work   *)
(* on a port, any fields and any retries, and whatever the subnet manager  *)
(* and the link do meanwhile; and what it says of a link.                  *)
(*                                                                         *)
(* A tool reads the port, decides, and writes.  What it writes is what it  *)
(* read but for what it was asked (Prepared); what it read is what the     *)
(* port holds but for what others have changed since (ReadIsTrue).  One    *)
(* that was only asked reads the far port over the near one, which it has  *)
(* put aside by then, and compares the two (Undisturbed).                  *)
(***************************************************************************)
EXTENDS PortState, TLAPS

------------------------------------------------------------------------------
(* Types. *)

OpNames == {"node", "capmask", "port", "ext", "decide", "validate", "setext", "set"}
Operations == [op : OpNames, end : Ends]
Fields == PlainFields \cup Aspects \cup {"state", "phys", "link", "ext"}

\* A buffer may also say that nothing is to be done.
Buffers ==
  [plain : [PlainFields -> Nat], state : States \cup {Nop}, phys : PhysStates \cup {Nop},
   enabled : [Aspects -> Masks], active : [Aspects -> Nat], ext : ExtInfos]

WorldTyped ==
  /\ scenario \in Scenarios
  /\ reg \in [Ends -> PortInfos]

ToolsTyped ==
  /\ todo \in [Tools -> Seq(Operations)]
  /\ pc \in [Tools -> {"run", "done", "exit"}]
  /\ sends \in [Tools -> Nat]
  /\ data \in [Tools -> Buffers]
  /\ data2 \in [Tools -> ExtInfos]
  /\ carried \in [Tools -> SUBSET (OpNames \cup {"validated"})]
  /\ read \in [Tools -> PortInfos]
  /\ dirty \in [Tools -> SUBSET Fields]

TypeOK == WorldTyped /\ ToolsTyped

LEMMA PortsFitBuffers == PortInfos \subseteq Buffers
BY DEF PortInfos, Buffers

LEMMA AskedIsTyped ==
  ASSUME TypeOK, NEW t \in Tools, NEW f \in Asked(t)
  PROVE  /\ f \in PlainFields => Job[t].args[f] \in Nat
         /\ f \in Aspects => Job[t].args[f] \in Masks
<1>1. ArgsAreTyped(Job[t].args)
  BY PortStateAssumption DEF TypeOK, WorldTyped, Tools, Job
<1>2. QED
  BY <1>1, PortStateAssumption DEF Asked, ArgsAreTyped

LEMMA ChangesTyped ==
  ASSUME TypeOK, NEW t \in Tools
  PROVE  Changes(t) \in Buffers
<1>1. data[t] \in Buffers
  BY DEF TypeOK, ToolsTyped
<1>2. [f \in PlainFields |-> Plain(t, f)] \in [PlainFields -> Nat]
  <2> SUFFICES ASSUME NEW f \in PlainFields PROVE Plain(t, f) \in Nat
    OBVIOUS
  <2>1. data[t].plain[f] \in Nat
    BY <1>1 DEF Buffers
  <2>2. QED
    BY <2>1, AskedIsTyped DEF Plain, Unlikely
<1>3. [a \in Aspects |-> EnabledOf(t, a)] \in [Aspects -> Masks]
  <2> SUFFICES ASSUME NEW a \in Aspects PROVE EnabledOf(t, a) \in Masks
    OBVIOUS
  <2>1. Nops \in Masks
    BY DEF Nops, Masks
  <2>2. QED
    BY <2>1, AskedIsTyped DEF EnabledOf
<1>4. StateOf(t) \in States \cup {Nop} /\ PhysOf(t) \in PhysStates \cup {Nop}
  BY DEF StateOf, PhysOf, States, PhysStates
<1>5. QED
  BY <1>1, <1>2, <1>3, <1>4 DEF Changes, Buffers

LEMMA WrittenTyped ==
  ASSUME NEW old \in PortInfos, NEW new \in Buffers
  PROVE  Written(old, new) \in PortInfos
<1>1. [a \in Aspects |-> IF new.enabled[a] = Nops THEN old.enabled[a] ELSE new.enabled[a]]
        \in [Aspects -> Masks]
  BY DEF PortInfos, Buffers
<1>2. (IF new.phys = Nop THEN old.phys ELSE new.phys) \in PhysStates
  BY DEF PortInfos, Buffers
<1>3. (IF new.phys # Nop THEN "down" ELSE IF new.state = Nop THEN old.state ELSE new.state)
        \in States
  BY DEF PortInfos, Buffers, States
<1>4. QED
  BY <1>1, <1>2, <1>3 DEF Written, PortInfos, Buffers

------------------------------------------------------------------------------
(* The list of operations. *)

LEMMA TailOps ==
  ASSUME NEW s \in Seq(Operations), s # <<>>
  PROVE  /\ s[1] \in Operations
         /\ Tail(s) \in Seq(Operations)
         /\ Len(Tail(s)) = Len(s) - 1
         /\ \A i \in 1..Len(Tail(s)) : i + 1 \in 1..Len(s) /\ Tail(s)[i] = s[i + 1]
         /\ <<>> \o Tail(s) = Tail(s)
OBVIOUS

\* What reads port e.
ReadOps(e) == {Op(name, e) : name \in {"capmask", "port", "ext"}}

\* Reading a port ends with what is made of it.
LEMMA ReadsThen ==
  ASSUME NEW e \in Ends, NEW last \in Operations
  PROVE  LET s == Reads(e) \o <<last>>
         IN  /\ s \in Seq(Operations) /\ Len(s) >= 1
             /\ s[Len(s)] = last
             /\ \A i \in 1..Len(s) :
                  i # Len(s) => s[i].op \in {"capmask", "port", "ext"} /\ s[i].end = e
<1> DEFINE S == ReadOps(e)
           cap == IF Cap[e].switch THEN <<Op("capmask", e)>> ELSE <<>>
           ext == IF Cap[e].epi THEN <<Op("ext", e)>> ELSE <<>>
<1>1. Op("capmask", e) \in S /\ Op("port", e) \in S /\ Op("ext", e) \in S
  BY DEF ReadOps
<1>2. S \subseteq Operations
  BY DEF ReadOps, Op, Operations, OpNames
<1>3. \A o \in S : o.op \in {"capmask", "port", "ext"} /\ o.end = e
  BY DEF ReadOps, Op
<1> HIDE DEF S
<1>4. cap \in Seq(S) /\ ext \in Seq(S) /\ <<Op("port", e)>> \in Seq(S)
  BY <1>1
<1> HIDE DEF cap, ext
<1>5. (cap \o <<Op("port", e)>>) \o ext \in Seq(S)
  BY <1>4
<1>6. Reads(e) \in Seq(S)
  BY <1>5 DEF Reads, cap, ext
<1> DEFINE r == Reads(e)
<1>7. r \in Seq(S)
  BY <1>6
<1> HIDE DEF r
<1>8. /\ r \o <<last>> \in Seq(Operations) /\ Len(r \o <<last>>) = Len(r) + 1
      /\ (r \o <<last>>)[Len(r) + 1] = last
      /\ \A i \in 1..Len(r) : (r \o <<last>>)[i] = r[i] /\ r[i] \in S
  BY <1>2, <1>7
<1>9. QED
  BY <1>3, <1>7, <1>8 DEF r

LEMMA SetsAre ==
  ASSUME NEW t
  PROVE  /\ Sets(t) \in Seq(Operations)
         /\ Job[t].fdr10 = "unset" => Len(Sets(t)) = 1 /\ Sets(t)[1] = Op("set", "near")
         /\ Job[t].fdr10 # "unset" => /\ Len(Sets(t)) = 2
                                      /\ Sets(t)[1] = Op("setext", "near")
                                      /\ Sets(t)[2] = Op("set", "near")
<1>1. Op("setext", "near") \in Operations /\ Op("set", "near") \in Operations
  BY DEF Op, Operations, OpNames, Ends
<1>2. QED
  BY <1>1 DEF Sets

\* What a list looks like: reads are followed by the decision they are for, and the
\* Sets stand alone.
Deciding(s) ==
  \E i \in 1..Len(s) : s[i].op = "decide" \/ (s[i].op = "node" /\ s[i].end = "near")
Setting(s) == \E i \in 1..Len(s) : s[i].op = "set"

LastIsLast(s) ==
  \A i \in 1..Len(s) : s[i].op \in {"node", "decide", "validate", "set"} => i = Len(s)

\* The extended information is set first.
ExtIsFirst(s) ==
  \A i \in 1..Len(s) : s[i].op = "setext" => i = 1 /\ Len(s) = 2 /\ s[2].op = "set"

Shape(s) ==
  /\ LastIsLast(s)
  /\ ExtIsFirst(s)
  /\ Deciding(s) => \A i \in 1..Len(s) : s[i].end = "near"
  /\ Setting(s) => \A i \in 1..Len(s) : s[i].op \in {"set", "setext"} /\ s[i].end = "near"

LEMMA PopShape ==
  ASSUME NEW s \in Seq(Operations), s # <<>>, Shape(s)
  PROVE  /\ Shape(Tail(s))
         /\ Deciding(Tail(s)) => Deciding(s)
         /\ Setting(Tail(s)) => Setting(s)
         /\ Setting(s) /\ s[1].op # "set" => Setting(Tail(s))
         /\ s[1].op \in {"node", "decide", "validate", "set"} => Tail(s) = <<>>
<1> DEFINE r == Tail(s)
<1>1. /\ s[1] \in Operations /\ r \in Seq(Operations) /\ Len(r) = Len(s) - 1 /\ Len(s) \in Nat \ {0}
      /\ \A i \in 1..Len(r) : i + 1 \in 1..Len(s) /\ r[i] = s[i + 1]
  BY TailOps
<1> HIDE DEF r
<1>2. Deciding(r) => Deciding(s)
  BY <1>1 DEF Deciding
<1>3. Setting(r) => Setting(s)
  BY <1>1 DEF Setting
<1>4. ASSUME Setting(s), s[1].op # "set" PROVE Setting(r)
  <2>1. PICK i \in 1..Len(s) : s[i].op = "set"
    BY <1>4 DEF Setting
  <2>2. i # 1 /\ i - 1 \in 1..Len(r)
    BY <1>1, <1>4, <2>1
  <2>3. r[i - 1] = s[i]
    BY <1>1, <2>2
  <2>4. QED
    BY <2>1, <2>2, <2>3 DEF Setting
<1>5. ASSUME s[1].op \in {"node", "decide", "validate", "set"} PROVE r = <<>>
  <2>1. Len(s) = 1
    BY <1>1, <1>5 DEF Shape, LastIsLast
  <2>2. QED
    BY <1>1, <2>1
<1>6. LastIsLast(r)
  <2> SUFFICES ASSUME NEW i \in 1..Len(r), r[i].op \in {"node", "decide", "validate", "set"}
               PROVE  i = Len(r)
    BY DEF LastIsLast
  <2>1. i + 1 = Len(s)
    BY <1>1 DEF Shape, LastIsLast
  <2>2. QED
    BY <1>1, <2>1
<1>7. ExtIsFirst(r)
  <2> SUFFICES ASSUME NEW i \in 1..Len(r), r[i].op = "setext" PROVE FALSE
    BY DEF ExtIsFirst
  <2>1. i + 1 = 1
    BY <1>1 DEF Shape, ExtIsFirst
  <2>2. QED
    BY <1>1, <2>1
<1>8. Deciding(r) => \A i \in 1..Len(r) : r[i].end = "near"
  BY <1>1, <1>2 DEF Shape
<1>9. Setting(r) => \A i \in 1..Len(r) : r[i].op \in {"set", "setext"} /\ r[i].end = "near"
  BY <1>1, <1>3 DEF Shape
<1>10. QED
  BY <1>2, <1>3, <1>4, <1>5, <1>6, <1>7, <1>8, <1>9 DEF Shape, r

\* The lists that take the place of a last operation.
LEMMA ReadsShape ==
  ASSUME NEW e \in Ends, NEW name \in {"decide", "validate"},
         name = "decide" => e = "near"
  PROVE  LET s == Reads(e) \o <<Op(name, "near")>>
         IN  /\ s \in Seq(Operations)
             /\ Shape(s) /\ ~Setting(s)
             /\ Deciding(s) => e = "near"
<1> DEFINE last == Op(name, "near")
           s == Reads(e) \o <<last>>
<1>1. last \in Operations /\ last.op = name /\ last.end = "near"
  BY DEF Op, Operations, OpNames, Ends
<1> HIDE DEF last
<1>2. /\ s \in Seq(Operations) /\ Len(s) >= 1 /\ s[Len(s)] = last
      /\ \A i \in 1..Len(s) :
           i # Len(s) => s[i].op \in {"capmask", "port", "ext"} /\ s[i].end = e
  BY <1>1, ReadsThen
<1> HIDE DEF s
<1>3. \A i \in 1..Len(s) : s[i].op \notin {"set", "setext", "node"}
  BY <1>1, <1>2
<1>4. LastIsLast(s) /\ ExtIsFirst(s) /\ ~Setting(s)
  BY <1>1, <1>2, <1>3 DEF LastIsLast, ExtIsFirst, Setting
<1>5. Deciding(s) => name = "decide"
  BY <1>1, <1>2, <1>3 DEF Deciding
<1>6. Deciding(s) => \A i \in 1..Len(s) : s[i].end = "near"
  BY <1>1, <1>2, <1>5
<1>7. QED
  BY <1>2, <1>4, <1>5, <1>6 DEF Shape, s, last

LEMMA SetsShape ==
  ASSUME NEW t
  PROVE  /\ Sets(t) \in Seq(Operations) /\ Sets(t) # <<>>
         /\ Shape(Sets(t)) /\ ~Deciding(Sets(t)) /\ Setting(Sets(t))
         /\ Job[t].fdr10 # "unset" => Sets(t)[1].op = "setext"
<1> DEFINE s == Sets(t)
<1>1. /\ Op("set", "near").op = "set" /\ Op("set", "near").end = "near"
      /\ Op("setext", "near").op = "setext" /\ Op("setext", "near").end = "near"
  BY DEF Op
<1>2. CASE Job[t].fdr10 = "unset"
  <2>1. s \in Seq(Operations) /\ Len(s) = 1 /\ s[1].op = "set" /\ s[1].end = "near"
    BY <1>1, <1>2, SetsAre
  <2> HIDE DEF s
  <2>2. Shape(s) /\ ~Deciding(s) /\ Setting(s) /\ s # <<>>
    BY <2>1 DEF Shape, LastIsLast, ExtIsFirst, Deciding, Setting
  <2>3. QED
    BY <1>2, <2>1, <2>2 DEF s
<1>3. CASE Job[t].fdr10 # "unset"
  <2>1. /\ s \in Seq(Operations) /\ Len(s) = 2
        /\ s[1].op = "setext" /\ s[1].end = "near" /\ s[2].op = "set" /\ s[2].end = "near"
    BY <1>1, <1>3, SetsAre
  <2> HIDE DEF s
  <2>2. Shape(s) /\ ~Deciding(s) /\ Setting(s) /\ s # <<>>
    BY <2>1 DEF Shape, LastIsLast, ExtIsFirst, Deciding, Setting
  <2>3. QED
    BY <2>1, <2>2 DEF s
<1>4. QED
  BY <1>2, <1>3

LEMMA EmptyShape == Shape(<<>>) /\ ~Deciding(<<>>) /\ ~Setting(<<>>)
BY DEF Shape, LastIsLast, ExtIsFirst, Deciding, Setting

------------------------------------------------------------------------------
(* Steps keep the types. *)

LEMMA BecomesTyped ==
  ASSUME TypeOK, NEW e \in Ends, NEW new \in PortInfos, NEW t, Becomes(e, new, t),
         UNCHANGED scenario
  PROVE  reg' \in [Ends -> PortInfos] /\ dirty' \in [Tools -> SUBSET Fields]
<1>1. Differs(reg[e], new) \subseteq Fields
  BY DEF Differs, Fields
<1>2. QED
  BY <1>1 DEF Becomes, TypeOK, WorldTyped, ToolsTyped

LEMMA SameTools ==
  ASSUME UNCHANGED scenario
  PROVE  Tools' = Tools /\ Job' = Job /\ Cap' = Cap
BY DEF Tools, Job, Cap

\* The subnet manager and the link.
LEMMA OthersBecome ==
  ASSUME TypeOK, SmConfigures \/ SmAdvances \/ Retrain
  PROVE  /\ UNCHANGED <<scenario, todo, pc, sends, data, data2, near, warned, carried, read>>
         /\ \E new \in PortInfos : Becomes("near", new, "sm")
<1>1. UNCHANGED <<scenario, todo, pc, sends, data, data2, near, warned, carried, read>>
  BY DEF SmConfigures, SmAdvances, Retrain, External
<1>2. reg["near"] \in PortInfos /\ "near" \in Ends
  BY DEF TypeOK, WorldTyped, Ends
<1>3. PICK new \in PortInfos : Becomes("near", new, "sm")
  <2>1. CASE SmConfigures
    <3>1. PICK f \in PlainFields :
            Becomes("near", [reg["near"] EXCEPT !.plain[f] = SmValue], "sm")
      BY <2>1 DEF SmConfigures
    <3>2. [reg["near"] EXCEPT !.plain[f] = SmValue] \in PortInfos
      BY <1>2, PortStateAssumption DEF PortInfos
    <3>3. QED
      BY <3>1, <3>2
  <2>2. CASE SmAdvances
    <3>1. /\ [reg["near"] EXCEPT !.state = "armed"] \in PortInfos
          /\ [reg["near"] EXCEPT !.state = "active"] \in PortInfos
      BY <1>2 DEF PortInfos, States
    <3>2. QED
      BY <2>2, <3>1 DEF SmAdvances
  <2>3. CASE Retrain
    <3>1. PICK active \in [Aspects -> {1, 2, 4, 8, 16}] :
            Becomes("near", [reg["near"] EXCEPT !.active = active, !.state = "init",
                                                !.phys = "up"], "sm")
      BY <2>3 DEF Retrain
    <3>2. active \in [Aspects -> Nat]
      OBVIOUS
    <3>3. [reg["near"] EXCEPT !.active = active, !.state = "init", !.phys = "up"] \in PortInfos
      BY <1>2, <3>2 DEF PortInfos, States, PhysStates
    <3>4. QED
      BY <3>1, <3>3
  <2>4. QED
    BY <2>1, <2>2, <2>3
<1>4. QED
  BY <1>1, <1>3

LEMMA OthersTyped ==
  ASSUME TypeOK, SmConfigures \/ SmAdvances \/ Retrain
  PROVE  TypeOK'
<1>1. UNCHANGED <<scenario, todo, pc, sends, data, data2, near, warned, carried, read>>
  BY OthersBecome
<1>2. PICK new \in PortInfos : Becomes("near", new, "sm")
  BY OthersBecome
<1>3. reg' \in [Ends -> PortInfos] /\ dirty' \in [Tools -> SUBSET Fields]
  BY <1>1, <1>2, BecomesTyped DEF Ends
<1>4. QED
  BY <1>1, <1>3, SameTools DEF TypeOK, WorldTyped, ToolsTyped

\* The list of t goes on with ops, which are the rest of it or take the place of its
\* last operation.
LEMMA GoTyped ==
  ASSUME TypeOK, NEW t \in Tools, todo[t] # <<>>, NEW ops \in Seq(Operations), Go(t, ops)
  PROVE  /\ todo' \in [Tools -> Seq(Operations)]
         /\ pc' = pc
         /\ \A u \in Tools : u # t => todo'[u] = todo[u]
         /\ ops = <<>> => todo'[t] = Tail(todo[t])
         /\ Tail(todo[t]) = <<>> => todo'[t] = ops
<1>1. todo[t] \in Seq(Operations)
  BY DEF TypeOK, ToolsTyped
<1>2. Tail(todo[t]) \in Seq(Operations) /\ <<>> \o Tail(todo[t]) = Tail(todo[t])
  BY <1>1, TailOps
<1>3. ops \o Tail(todo[t]) \in Seq(Operations) /\ ops \o <<>> = ops
  BY <1>2
<1>4. todo' = [todo EXCEPT ![t] = ops \o Tail(todo[t])] /\ pc' = pc
  BY DEF Go
<1>5. QED
  BY <1>2, <1>3, <1>4 DEF TypeOK, ToolsTyped

LEMMA ExitsTyped ==
  ASSUME TypeOK, NEW t \in Tools, Exits(t)
  PROVE  /\ todo' \in [Tools -> Seq(Operations)]
         /\ pc' \in [Tools -> {"run", "done", "exit"}]
         /\ \A u \in Tools : u # t => todo'[u] = todo[u] /\ pc'[u] = pc[u]
         /\ todo'[t] = <<>> /\ pc'[t] = "exit"
<1>1. <<>> \in Seq(Operations)
  OBVIOUS
<1>2. QED
  BY <1>1 DEF Exits, TypeOK, ToolsTyped

------------------------------------------------------------------------------
(* The invariant of a tool. *)

\* A LID that was not valid when it was read.
Unset(t, f) == f \in LidFields /\ read[t].plain[f] \in {0, 65535}

Prepared(t) ==
  /\ \A f \in PlainFields \ Asked(t) :
       data[t].plain[f] = read[t].plain[f] \/ Unset(t, f)
  /\ Job[t].op = "query" => data[t].state = Nop /\ data[t].phys = Nop
  /\ \A a \in Aspects \ Asked(t) : data[t].enabled[a] = Nops

ReadIsTrue(t) ==
  \A f \in PlainFields \ Asked(t) :
    f \in dirty[t] \/ reg["near"].plain[f] = read[t].plain[f] \/ Unset(t, f)

\* The Sets: one that was sent is at the head of the list and was carried out, that of
\* the extended information comes first, that of PortInfo follows, and nothing is left
\* to be done in the end.
Progress(t) ==
  /\ sends[t] > 0 => /\ todo[t] # <<>> /\ todo[t][1].op \in {"set", "setext"}
                     /\ todo[t][1].op \in carried[t]
  /\ Job[t].fdr10 # "unset" =>
       /\ "set" \in carried[t] => "setext" \in carried[t]
       /\ Setting(todo[t]) => "setext" \in carried[t] \/ todo[t][1].op = "setext"
  /\ pc[t] # "exit" /\ "setext" \in carried[t] => Setting(todo[t]) \/ "set" \in carried[t]
  /\ pc[t] = "done" => todo[t] = <<>>

OnTrack(t) ==
  /\ Shape(todo[t])
  /\ Deciding(todo[t]) => data[t] = read[t]
  /\ Setting(todo[t]) => Prepared(t)
  /\ ReadIsTrue(t)
  /\ Progress(t)

IInv == TypeOK /\ \A t \in Tools : OnTrack(t)

\* What a step leaves of a tool that takes no part in it.
Aside(u) ==
  /\ todo'[u] = todo[u] /\ pc'[u] = pc[u] /\ sends'[u] = sends[u] /\ data'[u] = data[u]
  /\ carried'[u] = carried[u] /\ read'[u] = read[u]
  /\ dirty[u] \subseteq dirty'[u]
  /\ \A f \in PlainFields :
       f \in dirty'[u] \/ reg'["near"].plain[f] = reg["near"].plain[f]

LEMMA AsideKeeps ==
  ASSUME TypeOK, UNCHANGED scenario, NEW u \in Tools, OnTrack(u), Aside(u)
  PROVE  OnTrack(u)'
<1>1. Job' = Job
  BY SameTools
<1>2. Asked(u)' = Asked(u)
  BY <1>1 DEF Asked
<1>3. \A f : Unset(u, f)' = Unset(u, f)
  BY DEF Unset, Aside
<1>4. Prepared(u) => Prepared(u)'
  BY <1>1, <1>2, <1>3 DEF Prepared, Aside
<1>5. ReadIsTrue(u)'
  BY <1>2, <1>3 DEF ReadIsTrue, Aside, OnTrack
<1>6. Progress(u)'
  BY <1>1 DEF Progress, Aside, OnTrack
<1>7. QED
  BY <1>4, <1>5, <1>6 DEF OnTrack, Aside

\* Nobody else is disturbed by a step of t that leaves the port alone.
LEMMA ReaderAside ==
  ASSUME TypeOK, NEW t \in Tools, UNCHANGED reg,
         \A u \in Tools : u # t =>
           /\ todo'[u] = todo[u] /\ pc'[u] = pc[u] /\ sends'[u] = sends[u] /\ data'[u] = data[u]
           /\ carried'[u] = carried[u] /\ read'[u] = read[u] /\ dirty'[u] = dirty[u]
  PROVE  \A u \in Tools : u # t => Aside(u)
BY DEF Aside

\* A step that ends an operation other than a Set and touches nothing else of the tool.
LEMMA PopKeeps ==
  ASSUME TypeOK, UNCHANGED scenario, NEW t \in Tools, OnTrack(t), todo[t] # <<>>,
         todo[t][1].op \notin {"set", "setext"}, todo'[t] = Tail(todo[t]),
         UNCHANGED <<reg, pc, sends, data, carried, read, dirty>>
  PROVE  OnTrack(t)'
<1>1. todo[t] \in Seq(Operations) /\ sends[t] \in Nat
  BY DEF TypeOK, ToolsTyped
<1>2. /\ Shape(todo'[t])
      /\ Deciding(todo'[t]) => Deciding(todo[t])
      /\ Setting(todo'[t]) <=> Setting(todo[t])
  BY <1>1, PopShape DEF OnTrack
<1>3. ~(sends[t] > 0)
  BY DEF OnTrack, Progress
<1>4. Job' = Job
  BY SameTools
<1>5. Asked(t)' = Asked(t)
  BY <1>4 DEF Asked
<1>6. \A f : Unset(t, f)' = Unset(t, f)
  BY DEF Unset
<1>7. Prepared(t) => Prepared(t)'
  BY <1>4, <1>5, <1>6 DEF Prepared
<1>8. ReadIsTrue(t)'
  BY <1>5, <1>6 DEF ReadIsTrue, OnTrack
<1>9. ~Setting(todo[t])
  <2> SUFFICES ASSUME Setting(todo[t]) PROVE FALSE
    OBVIOUS
  <2>1. 1 \in 1..Len(todo[t])
    BY <1>1
  <2>2. QED
    BY <2>1 DEF OnTrack, Shape
<1>10. Progress(t)'
  BY <1>2, <1>3, <1>4, <1>9 DEF Progress, OnTrack
<1>11. QED
  BY <1>2, <1>7, <1>8, <1>10 DEF OnTrack

LEMMA HeadFacts ==
  ASSUME TypeOK, NEW t \in Tools, OnTrack(t), todo[t] # <<>>,
         todo[t][1].op \notin {"set", "setext"}
  PROVE  /\ ~Setting(todo[t]) /\ ~(sends[t] > 0) /\ sends[t] \in Nat
         /\ 1 \in 1..Len(todo[t])
         /\ Shape(Tail(todo[t])) /\ ~Setting(Tail(todo[t]))
         /\ Deciding(Tail(todo[t])) => Deciding(todo[t])
         /\ todo[t][1].op \in {"node", "decide", "validate"} => Tail(todo[t]) = <<>>
<1>1. todo[t] \in Seq(Operations) /\ sends[t] \in Nat
  BY DEF TypeOK, ToolsTyped
<1>2. 1 \in 1..Len(todo[t])
  BY <1>1
<1>3. ~Setting(todo[t])
  BY <1>2 DEF OnTrack, Shape
<1>4. ~(sends[t] > 0)
  BY DEF OnTrack, Progress
<1>5. QED
  BY <1>1, <1>2, <1>3, <1>4, PopShape DEF OnTrack

\* A step of t after which it has no Set to make.
LEMMA NoSetKeeps ==
  ASSUME TypeOK, UNCHANGED scenario, NEW t \in Tools, OnTrack(t), todo[t] # <<>>,
         todo[t][1].op \notin {"set", "setext"},
         Shape(todo'[t]), ~Setting(todo'[t]), Deciding(todo'[t]) => data'[t] = read'[t],
         ReadIsTrue(t)', UNCHANGED <<sends, carried>>,
         pc'[t] = pc[t] \/ pc'[t] = "exit"
  PROVE  OnTrack(t)'
<1>1. ~Setting(todo[t]) /\ ~(sends[t] > 0)
  BY HeadFacts
<1>2. Job' = Job
  BY SameTools
<1>3. Progress(t)'
  BY <1>1, <1>2 DEF Progress, OnTrack
<1>4. QED
  BY <1>3 DEF OnTrack

LEMMA SameRead ==
  ASSUME UNCHANGED scenario, NEW t, ReadIsTrue(t), reg' = reg, read'[t] = read[t],
         dirty'[t] = dirty[t]
  PROVE  ReadIsTrue(t)'
<1>1. Job' = Job
  BY SameTools
<1>2. Asked(t)' = Asked(t)
  BY <1>1 DEF Asked
<1>3. QED
  BY <1>2 DEF ReadIsTrue, Unset

------------------------------------------------------------------------------
(* The steps of a tool. *)

StepResult(t) == TypeOK' /\ OnTrack(t)' /\ \A u \in Tools : u # t => Aside(u)

LEMMA NodeKeeps ==
  ASSUME IInv, NEW t \in Tools, GetNodeInfo(t)
  PROVE  StepResult(t)
<1>1. /\ todo[t] # <<>> /\ todo[t][1].op = "node" /\ OnTrack(t) /\ TypeOK
      /\ UNCHANGED <<scenario, reg, sends, data, data2, carried, read, dirty>>
  BY DEF GetNodeInfo, Doing, Head1, IInv, world
<1>2. todo[t] \in Seq(Operations)
  BY <1>1 DEF TypeOK, ToolsTyped
<1>3. ReadIsTrue(t)'
  BY <1>1, SameRead DEF OnTrack
<1>4. Tail(todo[t]) = <<>>
  BY <1>1, HeadFacts
<1>5. CASE Exits(t)
  <2>1. TypeOK'
    BY <1>1, <1>5, ExitsTyped, SameTools DEF TypeOK, WorldTyped, ToolsTyped
  <2>2. OnTrack(t)'
    BY <1>1, <1>3, <1>5, ExitsTyped, EmptyShape, NoSetKeeps
  <2>3. QED
    BY <1>1, <1>5, <2>1, <2>2, ExitsTyped, ReaderAside DEF StepResult
<1>6. CASE ~KeyRefused(t)
  <2> DEFINE e == todo[t][1].end
             name == IF e = "near" THEN "decide" ELSE "validate"
             ops == Reads(e) \o <<Op(name, "near")>>
  <2>1. Go(t, ops)
    BY <1>6 DEF GetNodeInfo, Head1
  <2>2. e \in Ends
    BY <1>1, <1>2, TailOps DEF Operations
  <2>3. ops \in Seq(Operations) /\ Shape(ops) /\ ~Setting(ops) /\ (Deciding(ops) => e = "near")
    BY <2>2, ReadsShape
  <2>4. e = "near" => data[t] = read[t]
    <3>1. 1 \in 1..Len(todo[t])
      BY <1>1, <1>2
    <3>2. e = "near" => Deciding(todo[t])
      BY <1>1, <3>1 DEF Deciding
    <3>3. QED
      BY <1>1, <3>2 DEF OnTrack
  <2> HIDE DEF ops
  <2>5. /\ todo' \in [Tools -> Seq(Operations)] /\ pc' = pc /\ todo'[t] = ops
        /\ \A u \in Tools : u # t => todo'[u] = todo[u]
    BY <1>1, <1>4, <2>1, <2>3, GoTyped
  <2>6. TypeOK'
    BY <1>1, <2>5, SameTools DEF TypeOK, WorldTyped, ToolsTyped
  <2>7. OnTrack(t)'
    BY <1>1, <1>3, <2>3, <2>4, <2>5, NoSetKeeps
  <2>8. QED
    BY <1>1, <2>5, <2>6, <2>7, ReaderAside DEF StepResult
<1>7. QED
  BY <1>5, <1>6 DEF GetNodeInfo

\* Steps that end an operation and leave the tool as it is.
LEMMA PassKeeps ==
  ASSUME IInv, NEW t \in Tools, todo[t] # <<>>, todo[t][1].op \notin {"set", "setext"},
         Go(t, <<>>), data2' \in [Tools -> ExtInfos],
         UNCHANGED <<scenario, reg, sends, data, carried, read, dirty>>
  PROVE  StepResult(t)
<1>1. TypeOK /\ OnTrack(t) /\ <<>> \in Seq(Operations)
  BY DEF IInv
<1>2. /\ todo' \in [Tools -> Seq(Operations)] /\ pc' = pc /\ todo'[t] = Tail(todo[t])
      /\ \A u \in Tools : u # t => todo'[u] = todo[u]
  BY <1>1, GoTyped
<1>3. TypeOK'
  BY <1>1, <1>2, SameTools DEF TypeOK, WorldTyped, ToolsTyped
<1>4. OnTrack(t)'
  BY <1>1, <1>2, PopKeeps
<1>5. QED
  BY <1>1, <1>2, <1>3, <1>4, ReaderAside DEF StepResult

LEMMA ReadKeeps ==
  ASSUME IInv, NEW t \in Tools, GetCapMask(t) \/ GetPortInfo(t) \/ GetExtPortInfo(t)
  PROVE  StepResult(t)
<1>1. CASE GetCapMask(t)
  BY <1>1, PassKeeps DEF GetCapMask, Doing, Head1, IInv, world, TypeOK, ToolsTyped
<1>2. CASE GetExtPortInfo(t)
  <2>1. todo[t] # <<>> /\ todo[t][1].op = "ext"
    BY <1>2 DEF GetExtPortInfo, Doing, Head1
  <2>2. todo[t] \in Seq(Operations)
    BY DEF IInv, TypeOK, ToolsTyped
  <2>3. todo[t][1].end \in Ends
    BY <2>1, <2>2, TailOps DEF Operations
  <2>4. data2' \in [Tools -> ExtInfos]
    BY <1>2, <2>3 DEF GetExtPortInfo, Head1, IInv, TypeOK, ToolsTyped, WorldTyped, PortInfos
  <2>5. QED
    BY <1>2, <2>1, <2>4, PassKeeps DEF GetExtPortInfo, world
<1>3. CASE GetPortInfo(t)
  <2> DEFINE e == todo[t][1].end
  <2>1. /\ todo[t] # <<>> /\ todo[t][1].op = "port" /\ Go(t, <<>>) /\ OnTrack(t) /\ TypeOK
        /\ data' = [data EXCEPT ![t] = reg[e]]
        /\ read' = IF e = "near" THEN [read EXCEPT ![t] = reg[e]] ELSE read
        /\ dirty' = IF e = "near" THEN [dirty EXCEPT ![t] = {}] ELSE dirty
        /\ UNCHANGED <<scenario, reg, sends, data2, carried>>
    BY <1>3 DEF GetPortInfo, Doing, Head1, IInv, world
  <2>2. todo[t] \in Seq(Operations) /\ <<>> \in Seq(Operations)
    BY <2>1 DEF TypeOK, ToolsTyped
  <2>3. e \in Ends
    BY <2>1, <2>2, TailOps DEF Operations
  <2>4. reg[e] \in PortInfos /\ reg[e] \in Buffers
    BY <2>1, <2>3, PortsFitBuffers DEF TypeOK, WorldTyped
  <2>5. /\ todo' \in [Tools -> Seq(Operations)] /\ pc' = pc /\ todo'[t] = Tail(todo[t])
        /\ \A u \in Tools : u # t => todo'[u] = todo[u]
    BY <2>1, <2>2, GoTyped
  <2>6. /\ data' \in [Tools -> Buffers] /\ read' \in [Tools -> PortInfos]
        /\ dirty' \in [Tools -> SUBSET Fields]
    BY <2>1, <2>4 DEF TypeOK, ToolsTyped
  <2>7. TypeOK'
    BY <2>1, <2>5, <2>6, SameTools DEF TypeOK, WorldTyped, ToolsTyped
  <2>8. /\ Shape(todo'[t]) /\ ~Setting(todo'[t])
        /\ Deciding(todo'[t]) => Deciding(todo[t])
        /\ 1 \in 1..Len(todo[t])
    BY <2>1, <2>5, HeadFacts
  <2>9. Deciding(todo'[t]) => data'[t] = read'[t]
    <3>1. Deciding(todo[t]) => e = "near"
      BY <2>1, <2>8 DEF OnTrack, Shape
    <3>2. QED
      BY <2>1, <2>8, <3>1 DEF TypeOK, ToolsTyped
  <2>10. ReadIsTrue(t)'
    <3>1. CASE e = "near"
      <4>1. read'[t] = reg["near"]
        BY <2>1, <3>1 DEF TypeOK, ToolsTyped
      <4>2. QED
        BY <2>1, <4>1 DEF ReadIsTrue
    <3>2. CASE e # "near"
      BY <2>1, <3>2, SameRead DEF OnTrack
    <3>3. QED
      BY <3>1, <3>2
  <2>11. OnTrack(t)'
    BY <2>1, <2>5, <2>8, <2>9, <2>10, NoSetKeeps
  <2>12. \A u \in Tools : u # t => data'[u] = data[u] /\ read'[u] = read[u] /\ dirty'[u] = dirty[u]
    BY <2>1 DEF TypeOK, ToolsTyped
  <2>13. \A u \in Tools : u # t => Aside(u)
    BY <2>1, <2>5, <2>12, ReaderAside
  <2>14. QED
    BY <2>7, <2>11, <2>13 DEF StepResult
<1>4. QED
  BY <1>1, <1>2, <1>3

\* What is about to be written is what was read, but for what was asked.
LEMMA ChangesPrepared ==
  ASSUME TypeOK, NEW t \in Tools, data[t] = read[t], UNCHANGED <<scenario, read>>,
         data'[t] = Changes(t)
  PROVE  Prepared(t)'
<1>1. Job' = Job
  BY SameTools
<1>2. Asked(t)' = Asked(t)
  BY <1>1 DEF Asked
<1>3. data[t] \in Buffers
  BY DEF TypeOK, ToolsTyped
<1>4. /\ data'[t].plain = [f \in PlainFields |-> Plain(t, f)]
      /\ data'[t].state = StateOf(t) /\ data'[t].phys = PhysOf(t)
      /\ data'[t].enabled = [a \in Aspects |-> EnabledOf(t, a)]
  BY <1>3 DEF Changes, Buffers
<1>5. ASSUME NEW f \in PlainFields \ Asked(t)
      PROVE  data'[t].plain[f] = read'[t].plain[f] \/ Unset(t, f)'
  <2>1. data'[t].plain[f] = IF Placeholder(t, f) THEN Unlikely ELSE data[t].plain[f]
    BY <1>4 DEF Plain
  <2>2. Placeholder(t, f) => Unset(t, f)'
    BY DEF Placeholder, Unset
  <2>3. QED
    BY <2>1, <2>2
<1>6. Job[t].op = "query" => data'[t].state = Nop /\ data'[t].phys = Nop
  BY <1>4 DEF StateOf, PhysOf
<1>7. \A a \in Aspects \ Asked(t) : data'[t].enabled[a] = Nops
  BY <1>4 DEF EnabledOf
<1>8. QED
  BY <1>1, <1>2, <1>5, <1>6, <1>7 DEF Prepared

LEMMA DecideKeeps ==
  ASSUME IInv, NEW t \in Tools, DecideSet(t)
  PROVE  StepResult(t)
<1>1. /\ todo[t] # <<>> /\ todo[t][1].op = "decide" /\ OnTrack(t) /\ TypeOK
      /\ UNCHANGED <<scenario, reg, sends, carried, read, dirty>>
  BY DEF DecideSet, Doing, Head1, IInv, world
<1>2. CASE AlreadyOn(t)
  BY <1>1, <1>2, PassKeeps DEF DecideSet, TypeOK, ToolsTyped
<1>3. CASE ~AlreadyOn(t)
  <2>1. /\ data' = [data EXCEPT ![t] = Changes(t)]
        /\ data2' = IF Job[t].fdr10 = "unset" THEN data2
                    ELSE [data2 EXCEPT ![t].enabled = (Job[t].fdr10 = "on")]
        /\ Go(t, Sets(t))
    BY <1>3 DEF DecideSet
  <2>2. /\ Tail(todo[t]) = <<>> /\ ~(sends[t] > 0) /\ ~Setting(todo[t])
        /\ 1 \in 1..Len(todo[t])
    BY <1>1, HeadFacts
  <2>3. /\ Sets(t) \in Seq(Operations) /\ Sets(t) # <<>> /\ Shape(Sets(t))
        /\ ~Deciding(Sets(t)) /\ Setting(Sets(t))
        /\ Job[t].fdr10 # "unset" => Sets(t)[1].op = "setext"
    BY SetsShape
  <2>4. /\ todo' \in [Tools -> Seq(Operations)] /\ pc' = pc /\ todo'[t] = Sets(t)
        /\ \A u \in Tools : u # t => todo'[u] = todo[u]
    BY <1>1, <2>1, <2>2, <2>3, GoTyped
  <2>5. data' \in [Tools -> Buffers] /\ data'[t] = Changes(t)
    BY <1>1, <2>1, ChangesTyped DEF TypeOK, ToolsTyped
  <2>6. data2' \in [Tools -> ExtInfos]
    <3>1. data2 \in [Tools -> ExtInfos] /\ data2[t] \in ExtInfos
      BY <1>1 DEF TypeOK, ToolsTyped
    <3> DEFINE on == Job[t].fdr10 = "on"
    <3>2. [data2[t] EXCEPT !.enabled = on] \in ExtInfos
      BY <3>1 DEF ExtInfos
    <3>3. data2' = data2 \/ data2' = [data2 EXCEPT ![t] = [data2[t] EXCEPT !.enabled = on]]
      BY <2>1
    <3> HIDE DEF on
    <3>4. QED
      BY <3>1, <3>2, <3>3
  <2>7. TypeOK'
    BY <1>1, <2>4, <2>5, <2>6, SameTools DEF TypeOK, WorldTyped, ToolsTyped
  <2>8. data[t] = read[t]
    BY <1>1, <2>2 DEF Deciding, OnTrack
  <2>9. Prepared(t)'
    BY <1>1, <2>5, <2>8, ChangesPrepared
  <2>10. ReadIsTrue(t)'
    BY <1>1, SameRead DEF OnTrack
  <2>11. Progress(t)'
    <3>1. Job' = Job
      BY <1>1, SameTools
    <3>2. QED
      BY <1>1, <2>2, <2>3, <2>4, <3>1 DEF Progress, OnTrack
  <2>12. OnTrack(t)'
    BY <2>3, <2>4, <2>9, <2>10, <2>11 DEF OnTrack
  <2>13. \A u \in Tools : u # t => data'[u] = data[u]
    BY <1>1, <2>1 DEF TypeOK, ToolsTyped
  <2>14. \A u \in Tools : u # t => Aside(u)
    BY <1>1, <2>4, <2>13, ReaderAside
  <2>15. QED
    BY <2>7, <2>12, <2>14 DEF StepResult
<1>4. QED
  BY <1>2, <1>3

LEMMA PeerKeeps ==
  ASSUME IInv, NEW t \in Tools, DecidePeer(t)
  PROVE  StepResult(t)
<1>1. /\ todo[t] # <<>> /\ todo[t][1].op = "decide" /\ OnTrack(t) /\ TypeOK
      /\ UNCHANGED <<scenario, reg, sends, data, data2, carried, read, dirty>>
  BY DEF DecidePeer, Doing, Head1, IInv, world
<1>2. CASE Go(t, <<>>)
  BY <1>1, <1>2, PassKeeps DEF TypeOK, ToolsTyped
<1>3. CASE Go(t, <<Op("node", "far")>>)
  <2> DEFINE ops == <<Op("node", "far")>>
  <2>1. /\ ops \in Seq(Operations) /\ Len(ops) = 1 /\ ops[1].op = "node" /\ ops[1].end = "far"
    BY DEF Op, Operations, OpNames, Ends
  <2>2. Go(t, ops)
    BY <1>3
  <2> HIDE DEF ops
  <2>3. Shape(ops) /\ ~Setting(ops) /\ ~Deciding(ops)
    BY <2>1 DEF Shape, LastIsLast, ExtIsFirst, Setting, Deciding
  <2>4. Tail(todo[t]) = <<>>
    BY <1>1, HeadFacts
  <2>5. /\ todo' \in [Tools -> Seq(Operations)] /\ pc' = pc /\ todo'[t] = ops
        /\ \A u \in Tools : u # t => todo'[u] = todo[u]
    BY <1>1, <2>1, <2>2, <2>4, GoTyped
  <2>6. TypeOK'
    BY <1>1, <2>5, SameTools DEF TypeOK, WorldTyped, ToolsTyped
  <2>7. ReadIsTrue(t)'
    BY <1>1, SameRead DEF OnTrack
  <2>8. OnTrack(t)'
    BY <1>1, <2>3, <2>5, <2>7, NoSetKeeps
  <2>9. QED
    BY <1>1, <2>5, <2>6, <2>8, ReaderAside DEF StepResult
<1>4. QED
  BY <1>2, <1>3 DEF DecidePeer

LEMMA ValidateKeeps ==
  ASSUME IInv, NEW t \in Tools, Validate(t)
  PROVE  StepResult(t)
<1>1. /\ todo[t] # <<>> /\ todo[t][1].op = "validate" /\ OnTrack(t) /\ TypeOK
      /\ Go(t, <<>>) /\ <<>> \in Seq(Operations)
      /\ carried' = [carried EXCEPT ![t] = {"validated"}]
      /\ UNCHANGED <<scenario, reg, sends, data, data2, read, dirty>>
  BY DEF Validate, Doing, Head1, IInv, world
<1>2. Tail(todo[t]) = <<>> /\ ~(sends[t] > 0)
  BY <1>1, HeadFacts
<1>3. /\ todo' \in [Tools -> Seq(Operations)] /\ pc' = pc /\ todo'[t] = <<>>
      /\ \A u \in Tools : u # t => todo'[u] = todo[u]
  BY <1>1, <1>2, GoTyped
<1>4. /\ carried' \in [Tools -> SUBSET (OpNames \cup {"validated"})]
      /\ carried'[t] = {"validated"}
      /\ \A u \in Tools : u # t => carried'[u] = carried[u]
  BY <1>1 DEF TypeOK, ToolsTyped
<1>5. TypeOK'
  BY <1>1, <1>3, <1>4, SameTools DEF TypeOK, WorldTyped, ToolsTyped
<1>6. ReadIsTrue(t)'
  BY <1>1, SameRead DEF OnTrack
<1>7. Progress(t)'
  BY <1>1, <1>2, <1>3, <1>4, EmptyShape DEF Progress
<1>8. OnTrack(t)'
  BY <1>3, <1>6, <1>7, EmptyShape DEF OnTrack
<1>9. \A u \in Tools : u # t => Aside(u)
  BY <1>1, <1>3, <1>4, ReaderAside
<1>10. QED
  BY <1>5, <1>8, <1>9 DEF StepResult

\* A Set is carried out: of the others, all find the port changed.
LEMMA WriterAside ==
  ASSUME TypeOK, NEW t \in Tools, NEW new \in PortInfos, Becomes("near", new, t),
         UNCHANGED <<todo, pc, data, read>>,
         \A u \in Tools : u # t => sends'[u] = sends[u] /\ carried'[u] = carried[u]
  PROVE  \A u \in Tools : u # t => Aside(u)
<1> SUFFICES ASSUME NEW u \in Tools, u # t PROVE Aside(u)
  OBVIOUS
<1>1. reg'["near"] = new
  BY DEF Becomes, TypeOK, WorldTyped, Ends
<1>2. dirty'[u] = dirty[u] \cup Differs(reg["near"], new)
  BY DEF Becomes
<1>3. ASSUME NEW f \in PlainFields, f \notin dirty'[u]
      PROVE  new.plain[f] = reg["near"].plain[f]
  BY <1>2, <1>3 DEF Differs
<1>4. QED
  BY <1>1, <1>2, <1>3 DEF Aside

LEMMA SentFacts ==
  ASSUME IInv, NEW t \in Tools, NEW name \in {"set", "setext"}, Sent(t, name)
  PROVE  /\ TypeOK /\ OnTrack(t) /\ todo[t] # <<>> /\ todo[t][1].op = name
         /\ 1 \in 1..Len(todo[t]) /\ Setting(todo[t]) /\ pc[t] = "run"
         /\ sends' \in [Tools -> Nat] /\ sends'[t] = sends[t] + 1
         /\ carried' \in [Tools -> SUBSET (OpNames \cup {"validated"})]
         /\ carried'[t] = carried[t] \cup {name}
         /\ \A u \in Tools : u # t => sends'[u] = sends[u] /\ carried'[u] = carried[u]
<1>1. /\ TypeOK /\ OnTrack(t) /\ todo[t] # <<>> /\ todo[t][1].op = name /\ pc[t] = "run"
      /\ sends' = [sends EXCEPT ![t] = @ + 1]
      /\ carried' = [carried EXCEPT ![t] = @ \cup {name}]
  BY DEF Sent, Doing, Head1, IInv
<1>2. todo[t] \in Seq(Operations) /\ name \in OpNames
  BY <1>1 DEF TypeOK, ToolsTyped, OpNames
<1>3. 1 \in 1..Len(todo[t])
  BY <1>1, <1>2
<1>4. Setting(todo[t])
  <2>1. CASE name = "set"
    BY <1>1, <1>3, <2>1 DEF Setting
  <2>2. CASE name = "setext"
    <3>1. Len(todo[t]) = 2 /\ todo[t][2].op = "set"
      BY <1>1, <1>3, <2>2 DEF OnTrack, Shape, ExtIsFirst
    <3>2. QED
      BY <3>1 DEF Setting
  <2>3. QED
    BY <2>1, <2>2
<1>5. QED
  BY <1>1, <1>2, <1>3, <1>4 DEF TypeOK, ToolsTyped

LEMMA ExtSetKeeps ==
  ASSUME IInv, NEW t \in Tools, CarryOutExt(t)
  PROVE  StepResult(t)
<1> DEFINE new == [reg["near"] EXCEPT !.ext.enabled = data2[t].enabled]
<1>1. /\ Sent(t, "setext") /\ Becomes("near", new, t)
      /\ UNCHANGED <<scenario, todo, pc, data, data2, read>>
  BY DEF CarryOutExt, world
<1>2. /\ TypeOK /\ OnTrack(t) /\ todo[t] # <<>> /\ todo[t][1].op = "setext"
      /\ Setting(todo[t]) /\ pc[t] = "run"
      /\ sends' \in [Tools -> Nat]
      /\ carried' \in [Tools -> SUBSET (OpNames \cup {"validated"})]
      /\ carried'[t] = carried[t] \cup {"setext"}
      /\ \A u \in Tools : u # t => sends'[u] = sends[u] /\ carried'[u] = carried[u]
  BY <1>1, SentFacts
<1>3. new \in PortInfos /\ new.plain = reg["near"].plain
  <2>1. reg["near"] \in PortInfos /\ data2[t] \in ExtInfos
    BY <1>2 DEF TypeOK, WorldTyped, ToolsTyped, Ends
  <2>2. [reg["near"].ext EXCEPT !.enabled = data2[t].enabled] \in ExtInfos
    BY <2>1 DEF PortInfos, ExtInfos
  <2>3. new = [reg["near"] EXCEPT !.ext = [reg["near"].ext EXCEPT !.enabled = data2[t].enabled]]
    BY <2>1 DEF PortInfos
  <2>4. QED
    BY <2>1, <2>2, <2>3 DEF PortInfos
<1> HIDE DEF new
<1>4. "near" \in Ends
  BY DEF Ends
<1>5. reg' \in [Ends -> PortInfos] /\ dirty' \in [Tools -> SUBSET Fields]
  BY <1>1, <1>2, <1>3, <1>4, BecomesTyped
<1>6. TypeOK'
  BY <1>1, <1>2, <1>5, SameTools DEF TypeOK, WorldTyped, ToolsTyped
<1>7. reg'["near"] = new /\ dirty'[t] = dirty[t]
  BY <1>1, <1>2, <1>4 DEF Becomes, TypeOK, WorldTyped
<1>8. Job' = Job
  BY <1>1, SameTools
<1>9. Asked(t)' = Asked(t)
  BY <1>8 DEF Asked
<1>10. ReadIsTrue(t)'
  BY <1>1, <1>2, <1>3, <1>7, <1>9 DEF OnTrack, ReadIsTrue, Unset
<1>11. Progress(t)'
  BY <1>1, <1>2, <1>8 DEF OnTrack, Progress
<1>12. Prepared(t)'
  BY <1>1, <1>2, <1>8, <1>9 DEF OnTrack, Prepared, Unset
<1>13. OnTrack(t)'
  BY <1>1, <1>2, <1>10, <1>11, <1>12 DEF OnTrack
<1>14. \A u \in Tools : u # t => Aside(u)
  BY <1>1, <1>2, <1>3, WriterAside
<1>15. QED
  BY <1>6, <1>13, <1>14 DEF StepResult

LEMMA SetKeeps ==
  ASSUME IInv, NEW t \in Tools, CarryOut(t)
  PROVE  StepResult(t)
<1> DEFINE new == Written(reg["near"], data[t])
<1>1. /\ Sent(t, "set") /\ Becomes("near", new, t)
      /\ UNCHANGED <<scenario, todo, pc, data, data2, read>>
  BY DEF CarryOut, world
<1>2. /\ TypeOK /\ OnTrack(t) /\ todo[t] # <<>> /\ todo[t][1].op = "set"
      /\ Setting(todo[t]) /\ pc[t] = "run"
      /\ sends' \in [Tools -> Nat]
      /\ carried' \in [Tools -> SUBSET (OpNames \cup {"validated"})]
      /\ carried'[t] = carried[t] \cup {"set"}
      /\ \A u \in Tools : u # t => sends'[u] = sends[u] /\ carried'[u] = carried[u]
  BY <1>1, SentFacts
<1>3. new \in PortInfos /\ new.plain = data[t].plain
  <2>1. reg["near"] \in PortInfos /\ data[t] \in Buffers
    BY <1>2 DEF TypeOK, WorldTyped, ToolsTyped, Ends
  <2>2. new \in PortInfos
    BY <2>1, WrittenTyped
  <2>3. new.plain = data[t].plain
    BY <2>1 DEF Written, PortInfos
  <2>4. QED
    BY <2>2, <2>3
<1> HIDE DEF new
<1>4. "near" \in Ends
  BY DEF Ends
<1>5. reg' \in [Ends -> PortInfos] /\ dirty' \in [Tools -> SUBSET Fields]
  BY <1>1, <1>2, <1>3, <1>4, BecomesTyped
<1>6. TypeOK'
  BY <1>1, <1>2, <1>5, SameTools DEF TypeOK, WorldTyped, ToolsTyped
<1>7. reg'["near"] = new
  BY <1>1, <1>2, <1>4 DEF Becomes, TypeOK, WorldTyped
<1>8. Job' = Job
  BY <1>1, SameTools
<1>9. Asked(t)' = Asked(t)
  BY <1>8 DEF Asked
<1>10. Prepared(t)'
  BY <1>1, <1>2, <1>8, <1>9 DEF OnTrack, Prepared, Unset
<1>11. ReadIsTrue(t)'
  BY <1>1, <1>3, <1>7, <1>10 DEF ReadIsTrue, Prepared
<1>12. Progress(t)'
  BY <1>1, <1>2, <1>8 DEF OnTrack, Progress
<1>13. OnTrack(t)'
  BY <1>1, <1>2, <1>10, <1>11, <1>12 DEF OnTrack
<1>14. \A u \in Tools : u # t => Aside(u)
  BY <1>1, <1>2, <1>3, WriterAside
<1>15. QED
  BY <1>6, <1>13, <1>14 DEF StepResult

LEMMA SetDoneKeeps ==
  ASSUME IInv, NEW t \in Tools, SetDone(t)
  PROVE  StepResult(t)
<1>1. /\ sends[t] > 0 /\ sends' = [sends EXCEPT ![t] = 0] /\ Go(t, <<>>)
      /\ TypeOK /\ OnTrack(t) /\ <<>> \in Seq(Operations)
      /\ UNCHANGED <<scenario, reg, data, data2, carried, read, dirty>>
  BY DEF SetDone, IInv, world
<1>2. /\ todo[t] # <<>> /\ todo[t][1].op \in {"set", "setext"}
      /\ todo[t][1].op \in carried[t] /\ todo[t] \in Seq(Operations)
  BY <1>1 DEF OnTrack, Progress, TypeOK, ToolsTyped
<1>3. /\ todo' \in [Tools -> Seq(Operations)] /\ pc' = pc /\ todo'[t] = Tail(todo[t])
      /\ \A u \in Tools : u # t => todo'[u] = todo[u]
  BY <1>1, <1>2, GoTyped
<1>4. /\ Shape(todo'[t])
      /\ Deciding(todo'[t]) => Deciding(todo[t])
      /\ Setting(todo'[t]) => Setting(todo[t]) /\ todo[t][1].op # "set"
      /\ Setting(todo[t]) /\ todo[t][1].op # "set" => Setting(todo'[t])
  BY <1>1, <1>2, <1>3, PopShape, EmptyShape DEF OnTrack
<1>5. sends' \in [Tools -> Nat] /\ sends'[t] = 0 /\ \A u \in Tools : u # t => sends'[u] = sends[u]
  BY <1>1 DEF TypeOK, ToolsTyped
<1>6. TypeOK'
  BY <1>1, <1>3, <1>5, SameTools DEF TypeOK, WorldTyped, ToolsTyped
<1>7. Job' = Job
  BY <1>1, SameTools
<1>8. Asked(t)' = Asked(t)
  BY <1>7 DEF Asked
<1>9. Prepared(t) => Prepared(t)'
  BY <1>1, <1>7, <1>8 DEF Prepared, Unset
<1>10. ReadIsTrue(t)'
  BY <1>1, SameRead DEF OnTrack
<1>11. Progress(t)'
  BY <1>1, <1>2, <1>3, <1>4, <1>5, <1>7 DEF OnTrack, Progress
<1>12. OnTrack(t)'
  BY <1>1, <1>4, <1>9, <1>10, <1>11 DEF OnTrack
<1>13. \A u \in Tools : u # t => Aside(u)
  BY <1>1, <1>3, <1>5, ReaderAside
<1>14. QED
  BY <1>6, <1>12, <1>13 DEF StepResult

LEMMA EndKeeps ==
  ASSUME IInv, NEW t \in Tools, CallFails(t) \/ Finish(t)
  PROVE  StepResult(t)
<1>1. TypeOK /\ OnTrack(t) /\ UNCHANGED <<scenario, reg, data, data2, carried, read, dirty>>
  BY DEF CallFails, Finish, IInv, world
<1>2. Job' = Job /\ ReadIsTrue(t)'
  BY <1>1, SameTools, SameRead DEF OnTrack
<1>3. CASE CallFails(t)
  <2>1. /\ todo' \in [Tools -> Seq(Operations)]
        /\ pc' \in [Tools -> {"run", "done", "exit"}]
        /\ \A u \in Tools : u # t => todo'[u] = todo[u] /\ pc'[u] = pc[u]
        /\ todo'[t] = <<>> /\ pc'[t] = "exit"
    BY <1>1, <1>3, ExitsTyped DEF CallFails
  <2>2. /\ sends' \in [Tools -> Nat] /\ sends'[t] = 0
        /\ \A u \in Tools : u # t => sends'[u] = sends[u]
    BY <1>1, <1>3 DEF CallFails, TypeOK, ToolsTyped
  <2>3. TypeOK'
    BY <1>1, <2>1, <2>2, SameTools DEF TypeOK, WorldTyped, ToolsTyped
  <2>4. Progress(t)'
    BY <1>1, <1>2, <2>1, <2>2, EmptyShape DEF OnTrack, Progress
  <2>5. OnTrack(t)'
    BY <1>2, <2>1, <2>4, EmptyShape DEF OnTrack
  <2>6. QED
    BY <1>1, <2>1, <2>2, <2>3, <2>5, ReaderAside DEF StepResult
<1>4. CASE Finish(t)
  <2>1. /\ todo' = todo /\ sends' = sends /\ todo[t] = <<>>
        /\ pc[t] = "run" /\ pc' = [pc EXCEPT ![t] = "done"]
    BY <1>4 DEF Finish
  <2>2. /\ pc' \in [Tools -> {"run", "done", "exit"}] /\ pc'[t] = "done"
        /\ \A u \in Tools : u # t => pc'[u] = pc[u]
    BY <1>1, <2>1 DEF TypeOK, ToolsTyped
  <2>3. TypeOK'
    BY <1>1, <2>1, <2>2, SameTools DEF TypeOK, WorldTyped, ToolsTyped
  <2>4. Progress(t)'
    BY <1>1, <1>2, <2>1, <2>2 DEF OnTrack, Progress
  <2>5. OnTrack(t)'
    BY <1>2, <2>1, <2>4, EmptyShape DEF OnTrack
  <2>6. QED
    BY <1>1, <2>1, <2>2, <2>3, <2>5, ReaderAside DEF StepResult
<1>5. QED
  BY <1>3, <1>4

------------------------------------------------------------------------------
(* The invariant is inductive. *)

LEMMA OthersKeep ==
  ASSUME IInv, SmConfigures \/ SmAdvances \/ Retrain
  PROVE  IInv'
<1>1. /\ TypeOK
      /\ UNCHANGED <<scenario, todo, pc, sends, data, data2, near, warned, carried, read>>
  BY OthersBecome DEF IInv
<1>2. PICK new \in PortInfos : Becomes("near", new, "sm")
  BY <1>1, OthersBecome
<1>3. TypeOK'
  BY <1>1, OthersTyped
<1>4. "sm" \notin Tools
  BY <1>1, PortStateAssumption DEF TypeOK, WorldTyped, Tools, Job
<1>5. reg'["near"] = new
  BY <1>1, <1>2 DEF Becomes, TypeOK, WorldTyped, Ends
<1>6. ASSUME NEW u \in Tools PROVE OnTrack(u)'
  <2>1. dirty'[u] = dirty[u] \cup Differs(reg["near"], new)
    BY <1>2, <1>4 DEF Becomes
  <2>2. \A f \in PlainFields : f \in dirty'[u] \/ new.plain[f] = reg["near"].plain[f]
    BY <2>1 DEF Differs
  <2>3. Aside(u)
    BY <1>1, <1>5, <2>1, <2>2 DEF Aside
  <2>4. QED
    BY <1>1, <2>3, AsideKeeps DEF IInv
<1>7. QED
  BY <1>1, <1>3, <1>6, SameTools DEF IInv

LEMMA StepIsResult ==
  ASSUME IInv, NEW t \in Tools, Step(t)
  PROVE  StepResult(t)
<1>1. CASE GetNodeInfo(t)
  BY <1>1, NodeKeeps
<1>2. CASE GetCapMask(t) \/ GetPortInfo(t) \/ GetExtPortInfo(t)
  BY <1>2, ReadKeeps
<1>3. CASE DecideSet(t)
  BY <1>3, DecideKeeps
<1>4. CASE DecidePeer(t)
  BY <1>4, PeerKeeps
<1>5. CASE Validate(t)
  BY <1>5, ValidateKeeps
<1>6. CASE CarryOutExt(t)
  BY <1>6, ExtSetKeeps
<1>7. CASE CarryOut(t)
  BY <1>7, SetKeeps
<1>8. CASE SetDone(t)
  BY <1>8, SetDoneKeeps
<1>9. CASE CallFails(t) \/ Finish(t)
  BY <1>9, EndKeeps
<1>10. QED
  BY <1>1, <1>2, <1>3, <1>4, <1>5, <1>6, <1>7, <1>8, <1>9 DEF Step

LEMMA ToolKeeps ==
  ASSUME IInv, NEW t \in Tools, Step(t)
  PROVE  IInv'
<1>1. StepResult(t)
  BY StepIsResult
<1>2. UNCHANGED scenario
  BY DEF Step, GetNodeInfo, GetCapMask, GetPortInfo, GetExtPortInfo, DecideSet, DecidePeer,
         Validate, CarryOutExt, CarryOut, SetDone, CallFails, Finish, world
<1>3. Tools' = Tools
  BY <1>2, SameTools
<1>4. \A u \in Tools : OnTrack(u)'
  BY <1>1, <1>2, AsideKeeps DEF IInv, StepResult
<1>5. QED
  BY <1>1, <1>3, <1>4 DEF IInv, StepResult

LEMMA StillKeeps ==
  ASSUME IInv, UNCHANGED vars
  PROVE  IInv'
<1>1. UNCHANGED <<scenario, reg, todo, pc, sends, data, data2, carried, read, dirty>>
  BY DEF vars, world
<1>2. Tools' = Tools /\ TypeOK'
  BY <1>1, SameTools DEF IInv, TypeOK, WorldTyped, ToolsTyped
<1>3. \A u \in Tools : Aside(u)
  BY <1>1 DEF Aside
<1>4. \A u \in Tools : OnTrack(u)'
  BY <1>1, <1>3, AsideKeeps DEF IInv
<1>5. QED
  BY <1>2, <1>4 DEF IInv

LEMMA StartsOnTrack ==
  ASSUME Init
  PROVE  IInv
<1>1. scenario \in Scenarios /\ reg \in [Ends -> PortInfos]
  BY PortStateAssumption DEF Init
<1>2. reg["near"] \in PortInfos /\ reg["near"] \in Buffers /\ ZeroExt \in ExtInfos
  BY <1>1, PortsFitBuffers DEF Ends, ZeroExt, ExtInfos
<1> DEFINE start == <<Op("node", "near")>>
<1>3. /\ start \in Seq(Operations) /\ Len(start) = 1
      /\ start[1].op = "node" /\ start[1].end = "near"
  BY DEF Op, Operations, OpNames, Ends
<1>4. todo = [t \in Tools |-> start]
  BY DEF Init
<1> HIDE DEF start
<1>5. TypeOK
  BY <1>1, <1>2, <1>3, <1>4 DEF Init, TypeOK, WorldTyped, ToolsTyped
<1>6. Shape(start) /\ ~Setting(start)
  BY <1>3 DEF Shape, LastIsLast, ExtIsFirst, Setting
<1>7. ASSUME NEW t \in Tools PROVE OnTrack(t)
  <2>1. /\ todo[t] = start /\ data[t] = reg["near"] /\ read[t] = reg["near"]
        /\ sends[t] = 0 /\ carried[t] = {} /\ pc[t] = "run"
    BY <1>4 DEF Init
  <2>2. QED
    BY <1>6, <2>1 DEF OnTrack, ReadIsTrue, Progress
<1>8. QED
  BY <1>5, <1>7 DEF IInv

THEOREM InvariantHolds == Spec => []IInv
<1>1. Init => IInv
  BY StartsOnTrack
<1>2. IInv /\ [Next]_vars => IInv'
  BY OthersKeep, ToolKeeps, StillKeeps DEF Next
<1>3. QED
  BY <1>1, <1>2, PTL DEF Spec

\* Buffers, lists of operations and ports are what their fields are declared to be
\* (ibportstate.c:227 and following): a mask and a state of "no change" go into
\* the buffers and are never what a port holds.
THEOREM TypeCorrect == Spec => []TypeOK
<1>1. IInv => TypeOK
  BY DEF IInv
<1>2. QED
  BY <1>1, InvariantHolds, PTL

------------------------------------------------------------------------------
(* What a write leaves alone. *)

\* What holds of a step in which t has a Set carried out.
LeavesUnasked(t) ==
  /\ \A f \in PlainFields \ Asked(t) :
       reg'["near"].plain[f] # reg["near"].plain[f] =>
         f \in dirty[t] \/ (f \in LidFields /\ read[t].plain[f] \in {0, 65535})
  /\ Job[t].op = "query" => /\ reg'["near"].state = reg["near"].state
                            /\ reg'["near"].phys = reg["near"].phys
  /\ \A a \in Aspects \ Asked(t) : reg'["near"].enabled[a] = reg["near"].enabled[a]

LEMMA SetLeaves ==
  ASSUME IInv, NEW t \in Tools, CarryOut(t)
  PROVE  LeavesUnasked(t)
<1>1. Sent(t, "set") /\ Becomes("near", Written(reg["near"], data[t]), t)
  BY DEF CarryOut
<1>2. TypeOK /\ OnTrack(t) /\ Setting(todo[t])
  BY <1>1, SentFacts
<1>3. Prepared(t) /\ ReadIsTrue(t)
  BY <1>2 DEF OnTrack
<1>4. reg["near"] \in PortInfos
  BY <1>2 DEF TypeOK, WorldTyped, Ends
<1>5. reg'["near"] = Written(reg["near"], data[t])
  BY <1>1, <1>2 DEF Becomes, TypeOK, WorldTyped, Ends
<1>6. reg'["near"].plain = data[t].plain
  BY <1>4, <1>5 DEF Written, PortInfos
<1>7. reg'["near"].enabled = [a \in Aspects |-> IF data[t].enabled[a] = Nops
                                               THEN reg["near"].enabled[a]
                                               ELSE data[t].enabled[a]]
  BY <1>4, <1>5 DEF Written, PortInfos
<1>8. data[t].state = Nop /\ data[t].phys = Nop =>
        reg'["near"].state = reg["near"].state /\ reg'["near"].phys = reg["near"].phys
  BY <1>4, <1>5 DEF Written, PortInfos
<1>9. QED
  BY <1>3, <1>6, <1>7, <1>8 DEF LeavesUnasked, Prepared, ReadIsTrue, Unset

LEMMA ExtSetLeaves ==
  ASSUME IInv, NEW t \in Tools, CarryOutExt(t)
  PROVE  LeavesUnasked(t)
<1>1. reg["near"] \in PortInfos /\ "near" \in Ends
  BY DEF IInv, TypeOK, WorldTyped, Ends
<1>2. reg'["near"] = [reg["near"] EXCEPT !.ext.enabled = data2[t].enabled]
  BY <1>1 DEF CarryOutExt, Becomes, IInv, TypeOK, WorldTyped
<1>3. /\ reg'["near"].plain = reg["near"].plain /\ reg'["near"].state = reg["near"].state
      /\ reg'["near"].phys = reg["near"].phys /\ reg'["near"].enabled = reg["near"].enabled
  BY <1>1, <1>2 DEF PortInfos
<1>4. QED
  BY <1>3 DEF LeavesUnasked

\* A tool has a Set carried out only in a step of its own.
LEMMA OthersDoNotFire ==
  ASSUME IInv, NEW t \in Tools, NEW u \in Tools, u # t,
         CarryOut(u) \/ CarryOutExt(u)
  PROVE  ~Fires(t)
<1>1. PICK name \in {"set", "setext"} : Sent(u, name)
  BY DEF CarryOut, CarryOutExt
<1>2. sends'[t] = sends[t] /\ carried'[t] = carried[t] /\ sends[t] \in Nat
  BY <1>1, SentFacts DEF TypeOK, ToolsTyped
<1>3. QED
  BY <1>2 DEF Fires

LEMMA QuietSteps ==
  ASSUME IInv, NEW t \in Tools, Fires(t), [Next]_vars
  PROVE  UNCHANGED reg \/ \E u \in Tools : CarryOut(u) \/ CarryOutExt(u)
<1>1. sends \in [Tools -> Nat] /\ TypeOK
  BY DEF IInv, TypeOK, ToolsTyped
<1>2. CASE SmConfigures \/ SmAdvances \/ Retrain
  <2>1. UNCHANGED <<sends, carried>>
    BY <1>1, <1>2, OthersBecome
  <2>2. QED
    BY <1>1, <2>1 DEF Fires
<1>3. ASSUME NEW u \in Tools, Step(u)
      PROVE  UNCHANGED reg \/ CarryOut(u) \/ CarryOutExt(u)
  BY <1>3 DEF Step, GetNodeInfo, GetCapMask, GetPortInfo, GetExtPortInfo, DecideSet,
              DecidePeer, Validate, SetDone, CallFails, Finish
<1>4. CASE UNCHANGED vars
  BY <1>4 DEF vars
<1>5. QED
  BY <1>2, <1>3, <1>4 DEF Next

\* A write of PortInfo (ibportstate.c:637) changes nothing that was not asked for, but
\* for the placeholder of a LID that was not valid, and what somebody else changed since
\* the port was read: for any number of tools, any fields, and any number of times that
\* the write is sent.
THEOREM UnaskedStays == Spec => UnaskedIsUntouched
<1>1. ASSUME IInv, [Next]_vars, NEW t \in Tools, Fires(t)
      PROVE  LeavesUnasked(t)
  <2>1. CASE UNCHANGED reg
    BY <2>1 DEF LeavesUnasked
  <2>2. ASSUME NEW u \in Tools, CarryOut(u) \/ CarryOutExt(u)
        PROVE  LeavesUnasked(t)
    <3>1. u = t
      BY <1>1, <2>2, OthersDoNotFire
    <3>2. QED
      BY <1>1, <2>2, <3>1, SetLeaves, ExtSetLeaves
  <2>3. QED
    BY <1>1, <2>1, <2>2, QuietSteps
<1>2. IInv /\ [Next]_vars =>
        [\A t \in Tools : Fires(t) => LeavesUnasked(t)]_vars
  BY <1>1
<1>3. QED
  BY <1>2, InvariantHolds, PTL DEF Spec, UnaskedIsUntouched, LeavesUnasked

\* A tool that fails leaves done what it does first (ibportstate.c:625): PortInfo is not
\* changed unless the extended port information was, and one that ends well has done both.
THEOREM PartsAreExtended == Spec => []PartIsExtended
<1>1. IInv => PartIsExtended
  <2> SUFFICES ASSUME IInv, NEW t \in Tools
               PROVE  /\ "set" \in carried[t] /\ Job[t].fdr10 # "unset" => "setext" \in carried[t]
                      /\ pc[t] = "done" /\ "setext" \in carried[t] => "set" \in carried[t]
    BY DEF PartIsExtended
  <2>1. Progress(t)
    BY DEF IInv, OnTrack
  <2>2. QED
    BY <2>1, EmptyShape DEF Progress
<1>2. QED
  BY <1>1, InvariantHolds, PTL

------------------------------------------------------------------------------
(* What a query says of the link, if nobody touches it meanwhile. *)

Asks(t) == Job[t].op = "query" /\ ~Changed(t)
Alone(t) == events = 0 /\ Tools = {t}

\* Lists that lead to a comparison, that end in one, and in which the peer is still to
\* be read.
Comparing(s) ==
  \E i \in 1..Len(s) : s[i].op = "validate" \/ (s[i].op = "node" /\ s[i].end = "far")
Judging(s) == \E i \in 1..Len(s) : s[i].op = "validate"
Awaits(s) == \E i \in 1..Len(s) : s[i].op = "port" /\ s[i].end = "far"

FarOnly(s) == Comparing(s) => \A i \in 1..Len(s) : s[i].op = "port" => s[i].end = "far"

Allowed(e, a) == Effective(reg[e].enabled[a], Cap[e].supported[a])

\* It warned of what the two ends, as they are, give reason to.
Judged(t) ==
  \A a \in Aspects :
    Extended \/ a # "espeed" =>
      (a \in warned[t]
         <=> Warns(a, Allowed("near", a), Allowed("far", a), reg["near"].active[a]))

\* The near port is in the buffer until it is decided what to do with it, and kept when
\* the buffer is used for the far one.
Undisturbed(t) ==
  /\ reg = scenario.reg
  /\ ~Setting(todo[t])
  /\ Deciding(todo[t]) => data[t] = reg["near"]
  /\ Comparing(todo[t]) => near[t].port = reg["near"]
  /\ Judging(todo[t]) /\ ~Awaits(todo[t]) => data[t] = reg["far"]
  /\ "validated" \in carried[t] => Judged(t)

Compares(t) ==
  /\ FarOnly(todo[t])
  /\ Comparing(todo[t]) \/ "validated" \in carried[t] => Asks(t)
  /\ Alone(t) /\ Asks(t) => Undisturbed(t)

QInv ==
  /\ events \in Nat
  /\ DOMAIN near = Tools /\ DOMAIN warned = Tools
  /\ \A t \in Tools : Compares(t)

LEMMA PopQuery ==
  ASSUME NEW s \in Seq(Operations), s # <<>>
  PROVE  /\ Comparing(Tail(s)) => Comparing(s)
         /\ Judging(Tail(s)) => Judging(s)
         /\ FarOnly(s) => FarOnly(Tail(s))
         /\ Awaits(s) => Awaits(Tail(s)) \/ (s[1].op = "port" /\ s[1].end = "far")
<1> DEFINE r == Tail(s)
<1>1. /\ r \in Seq(Operations) /\ Len(r) = Len(s) - 1 /\ Len(s) \in Nat \ {0}
      /\ \A i \in 1..Len(r) : i + 1 \in 1..Len(s) /\ r[i] = s[i + 1]
  BY TailOps
<1> HIDE DEF r
<1>2. Comparing(r) => Comparing(s)
  BY <1>1 DEF Comparing
<1>3. Judging(r) => Judging(s)
  BY <1>1 DEF Judging
<1>4. FarOnly(s) => FarOnly(r)
  BY <1>1, <1>2 DEF FarOnly
<1>5. ASSUME Awaits(s), ~(s[1].op = "port" /\ s[1].end = "far") PROVE Awaits(r)
  <2>1. PICK i \in 1..Len(s) : s[i].op = "port" /\ s[i].end = "far"
    BY <1>5 DEF Awaits
  <2>2. i # 1 /\ i - 1 \in 1..Len(r)
    BY <1>1, <1>5, <2>1
  <2>3. r[i - 1] = s[i]
    BY <1>1, <2>2
  <2>4. QED
    BY <2>1, <2>2, <2>3 DEF Awaits
<1>6. QED
  BY <1>2, <1>3, <1>4, <1>5 DEF r

LEMMA EmptyQuery == ~Comparing(<<>>) /\ ~Judging(<<>>) /\ FarOnly(<<>>)
BY DEF Comparing, Judging, FarOnly

LEMMA SetsQuery ==
  ASSUME NEW t
  PROVE  ~Comparing(Sets(t)) /\ FarOnly(Sets(t))
<1>1. \A i \in 1..Len(Sets(t)) : Sets(t)[i].op \in {"set", "setext"}
  BY SetsShape DEF Shape
<1>2. QED
  BY <1>1 DEF Comparing, FarOnly

LEMMA ReadsQuery ==
  ASSUME NEW e \in Ends, NEW name \in {"decide", "validate"},
         e = "near" <=> name = "decide"
  PROVE  LET s == Reads(e) \o <<Op(name, "near")>>
         IN  /\ e = "near" => ~Comparing(s)
             /\ FarOnly(s)
             /\ e = "far" => Awaits(s) /\ ~Deciding(s)
<1> DEFINE last == Op(name, "near")
           s == Reads(e) \o <<last>>
           cap == IF Cap[e].switch THEN <<Op("capmask", e)>> ELSE <<>>
           ext == IF Cap[e].epi THEN <<Op("ext", e)>> ELSE <<>>
<1>1. last \in Operations /\ last.op = name /\ last.end = "near"
  BY DEF Op, Operations, OpNames, Ends
<1>2. /\ Op("port", e) \in Operations /\ Op("port", e).op = "port" /\ Op("port", e).end = e
      /\ Op("capmask", e) \in Operations /\ Op("ext", e) \in Operations
  BY DEF Op, Operations, OpNames, Ends
<1>3. cap \in Seq(Operations) /\ ext \in Seq(Operations)
  BY <1>2
<1>4. s = (cap \o <<Op("port", e)>>) \o ext \o <<last>>
  BY DEF Reads, cap, ext
<1> HIDE DEF last, cap, ext, s
<1>5. Len(cap) + 1 \in 1..Len(s) /\ s[Len(cap) + 1] = Op("port", e)
  BY <1>1, <1>2, <1>3, <1>4
<1>6. /\ s \in Seq(Operations) /\ Len(s) >= 1 /\ s[Len(s)] = last
      /\ \A i \in 1..Len(s) :
           i # Len(s) => s[i].op \in {"capmask", "port", "ext"} /\ s[i].end = e
  BY <1>1, ReadsThen DEF s
<1>7. e = "near" => ~Comparing(s)
  BY <1>1, <1>6 DEF Comparing
<1>8. e = "far" => \A i \in 1..Len(s) : s[i].op = "port" => s[i].end = "far"
  BY <1>1, <1>6
<1>9. FarOnly(s)
  BY <1>7, <1>8 DEF FarOnly, Ends
<1>10. e = "far" => Awaits(s)
  BY <1>2, <1>5 DEF Awaits
<1>11. e = "far" => ~Deciding(s)
  BY <1>1, <1>6 DEF Deciding
<1>12. QED
  BY <1>7, <1>9, <1>10, <1>11 DEF s, last

\* What these speak of does not change.
LEMMA QuerySame ==
  ASSUME UNCHANGED scenario
  PROVE  /\ \A t : Asks(t)' = Asks(t)
         /\ \A t : Alone(t) /\ events' = events => Alone(t)'
         /\ Extended' = Extended
<1>1. Tools' = Tools /\ Job' = Job /\ Cap' = Cap
  BY SameTools
<1>2. QED
  BY <1>1 DEF Asks, Alone, Extended, Changed, Asked

\* The step leaves what t does, and what it found, alone.
LEMMA SameCompares ==
  ASSUME NEW t \in Tools, Compares(t), UNCHANGED <<scenario, reg, events>>,
         todo'[t] = todo[t], data'[t] = data[t], near'[t] = near[t],
         warned'[t] = warned[t], carried'[t] = carried[t]
  PROVE  Compares(t)'
<1>1. /\ Asks(t)' = Asks(t) /\ Alone(t)' = Alone(t) /\ Extended' = Extended
      /\ Cap' = Cap /\ Tools' = Tools
  BY QuerySame, SameTools DEF Alone
<1>2. Judged(t) => Judged(t)'
  BY <1>1 DEF Judged, Allowed
<1>3. Undisturbed(t) => Undisturbed(t)'
  BY <1>2 DEF Undisturbed
<1>4. QED
  BY <1>1, <1>3 DEF Compares

\* A step of another, with what it changes of the world.
LEMMA NotAlone ==
  ASSUME NEW t \in Tools, Compares(t), UNCHANGED scenario,
         NEW u \in Tools, u # t, todo'[t] = todo[t], carried'[t] = carried[t]
  PROVE  Compares(t)'
<1>1. Asks(t)' = Asks(t) /\ Tools' = Tools
  BY QuerySame, SameTools
<1>2. ~Alone(t)'
  BY <1>1 DEF Alone
<1>3. QED
  BY <1>1, <1>2 DEF Compares

\* A step of t that ends a read or a Set.
LEMMA PopCompares ==
  ASSUME IInv, NEW t \in Tools, Compares(t), todo[t] # <<>>,
         todo'[t] = Tail(todo[t]), UNCHANGED <<scenario, reg, events>>,
         near'[t] = near[t], warned'[t] = warned[t], carried'[t] = carried[t],
         todo[t][1].op \in {"set", "setext"} => Setting(todo[t]),
         todo[t][1].op # "port" => data'[t] = data[t],
         todo[t][1].op = "port" => data'[t] = reg[todo[t][1].end]
  PROVE  Compares(t)'
<1>1. todo[t] \in Seq(Operations) /\ Shape(todo[t])
  BY DEF IInv, TypeOK, ToolsTyped, OnTrack
<1>2. /\ Comparing(todo'[t]) => Comparing(todo[t])
      /\ Judging(todo'[t]) => Judging(todo[t])
      /\ FarOnly(todo[t]) => FarOnly(todo'[t])
      /\ Awaits(todo[t]) => Awaits(todo'[t]) \/ (todo[t][1].op = "port" /\ todo[t][1].end = "far")
  BY <1>1, PopQuery
<1>3. /\ Deciding(todo'[t]) => Deciding(todo[t])
      /\ Setting(todo'[t]) => Setting(todo[t])
  BY <1>1, PopShape
<1>4. /\ Asks(t)' = Asks(t) /\ Alone(t)' = Alone(t) /\ Extended' = Extended
      /\ Cap' = Cap /\ Tools' = Tools
  BY QuerySame, SameTools DEF Alone
<1>5. Judged(t) => Judged(t)'
  BY <1>4 DEF Judged, Allowed
<1>6. 1 \in 1..Len(todo[t])
  BY <1>1
<1>7. Deciding(todo[t]) => todo[t][1].end = "near"
  BY <1>1, <1>6 DEF Shape
<1>8. Judging(todo[t]) => Comparing(todo[t])
  BY DEF Judging, Comparing
<1>9. Comparing(todo[t]) /\ todo[t][1].op = "port" => todo[t][1].end = "far"
  BY <1>6 DEF Compares, FarOnly
<1>10. ASSUME Undisturbed(t) PROVE Undisturbed(t)'
  <2>1. Deciding(todo'[t]) => data'[t] = reg["near"]
    BY <1>3, <1>7, <1>10 DEF Undisturbed
  <2>2. Judging(todo'[t]) /\ ~Awaits(todo'[t]) => data'[t] = reg["far"]
    BY <1>2, <1>8, <1>9, <1>10 DEF Undisturbed
  <2>3. QED
    BY <1>2, <1>3, <1>5, <1>10, <2>1, <2>2 DEF Undisturbed
<1>11. QED
  BY <1>2, <1>4, <1>10 DEF Compares

\* A step of t after which nothing of its list is left.
LEMMA EndCompares ==
  ASSUME IInv, NEW t \in Tools, Compares(t), todo'[t] = <<>>, UNCHANGED <<scenario, reg, events>>,
         near'[t] = near[t], warned'[t] = warned[t], carried'[t] = carried[t], data'[t] = data[t]
  PROVE  Compares(t)'
<1>1. /\ Asks(t)' = Asks(t) /\ Alone(t)' = Alone(t) /\ Extended' = Extended
      /\ Cap' = Cap /\ Tools' = Tools
  BY QuerySame, SameTools DEF Alone
<1>2. Judged(t) => Judged(t)'
  BY <1>1 DEF Judged, Allowed
<1>3. Undisturbed(t) => Undisturbed(t)'
  BY <1>2, EmptyShape, EmptyQuery DEF Undisturbed
<1>4. QED
  BY <1>1, <1>3, EmptyQuery DEF Compares

LEMMA NodeCompares ==
  ASSUME IInv, NEW t \in Tools, Compares(t), GetNodeInfo(t)
  PROVE  Compares(t)'
<1>1. /\ todo[t] # <<>> /\ todo[t][1].op = "node" /\ OnTrack(t) /\ TypeOK
      /\ UNCHANGED <<scenario, reg, events, data, near, warned, carried>>
  BY DEF GetNodeInfo, Doing, Head1, IInv, world
<1>2. todo[t] \in Seq(Operations) /\ Tail(todo[t]) = <<>> /\ 1 \in 1..Len(todo[t])
  BY <1>1, HeadFacts DEF TypeOK, ToolsTyped
<1>3. CASE Exits(t)
  BY <1>1, <1>3, ExitsTyped, EndCompares
<1>4. CASE ~KeyRefused(t)
  <2> DEFINE e == todo[t][1].end
             name == IF e = "near" THEN "decide" ELSE "validate"
             ops == Reads(e) \o <<Op(name, "near")>>
  <2>1. Go(t, ops)
    BY <1>4 DEF GetNodeInfo, Head1
  <2>2. e \in Ends
    BY <1>1, <1>2, TailOps DEF Operations
  <2>3. /\ ops \in Seq(Operations) /\ ~Setting(ops)
        /\ Deciding(ops) => e = "near"
        /\ e = "near" => ~Comparing(ops)
        /\ FarOnly(ops)
        /\ e = "far" => Awaits(ops)
    BY <2>2, ReadsShape, ReadsQuery
  <2> HIDE DEF ops
  <2>4. todo'[t] = ops
    BY <1>1, <1>2, <2>1, <2>3, GoTyped
  <2>5. e = "near" => Deciding(todo[t])
    BY <1>1, <1>2 DEF Deciding
  <2>6. Comparing(ops) => Comparing(todo[t])
    BY <1>1, <1>2, <2>2, <2>3 DEF Comparing, Ends
  <2>7. Judging(ops) => Comparing(ops)
    BY DEF Judging, Comparing
  <2>8. /\ Asks(t)' = Asks(t) /\ Alone(t)' = Alone(t) /\ Extended' = Extended
        /\ Cap' = Cap /\ Tools' = Tools
    BY <1>1, QuerySame, SameTools DEF Alone
  <2>9. Judged(t) => Judged(t)'
    BY <1>1, <2>8 DEF Judged, Allowed
  <2>10. Undisturbed(t) => Undisturbed(t)'
    BY <1>1, <2>2, <2>3, <2>4, <2>5, <2>6, <2>7, <2>9 DEF Undisturbed, Ends
  <2>11. QED
    BY <1>1, <2>3, <2>4, <2>6, <2>8, <2>10 DEF Compares
<1>5. QED
  BY <1>3, <1>4 DEF GetNodeInfo

LEMMA ReadCompares ==
  ASSUME IInv, NEW t \in Tools, Compares(t), GetCapMask(t) \/ GetPortInfo(t) \/ GetExtPortInfo(t)
  PROVE  Compares(t)'
<1>1. /\ todo[t] # <<>> /\ todo[t][1].op \in {"capmask", "port", "ext"} /\ Go(t, <<>>)
      /\ UNCHANGED <<scenario, reg, events, near, warned, carried>>
      /\ todo[t][1].op # "port" => data' = data
      /\ todo[t][1].op = "port" => data' = [data EXCEPT ![t] = reg[todo[t][1].end]]
  BY DEF GetCapMask, GetPortInfo, GetExtPortInfo, Doing, Head1, world
<1>2. TypeOK /\ <<>> \in Seq(Operations)
  BY DEF IInv
<1>3. todo'[t] = Tail(todo[t])
  BY <1>1, <1>2, GoTyped
<1>4. todo[t][1].op = "port" => data'[t] = reg[todo[t][1].end]
  BY <1>1, <1>2 DEF TypeOK, ToolsTyped
<1>5. QED
  BY <1>1, <1>3, <1>4, PopCompares

LEMMA DecideCompares ==
  ASSUME IInv, NEW t \in Tools, Compares(t), DecideSet(t)
  PROVE  Compares(t)'
<1>1. /\ todo[t] # <<>> /\ todo[t][1].op = "decide" /\ OnTrack(t) /\ TypeOK /\ ~Asks(t)
      /\ Go(t, <<>>) \/ Go(t, Sets(t))
      /\ UNCHANGED <<scenario, carried>>
  BY DEF DecideSet, Doing, Head1, IInv, world, Asks
<1>2. Tail(todo[t]) = <<>> /\ <<>> \in Seq(Operations) /\ Sets(t) \in Seq(Operations)
  BY <1>1, HeadFacts, SetsShape
<1>3. todo'[t] = <<>> \/ todo'[t] = Sets(t)
  BY <1>1, <1>2, GoTyped
<1>4. ~Comparing(todo'[t]) /\ FarOnly(todo'[t])
  BY <1>3, EmptyQuery, SetsQuery
<1>5. QED
  BY <1>1, <1>4, QuerySame DEF Compares

LEMMA PeerCompares ==
  ASSUME IInv, QInv, NEW t \in Tools, Compares(t), DecidePeer(t)
  PROVE  Compares(t)'
<1>1. /\ todo[t] # <<>> /\ todo[t][1].op = "decide" /\ OnTrack(t) /\ TypeOK /\ Asks(t)
      /\ UNCHANGED <<scenario, reg, events, data, warned, carried>>
  BY DEF DecidePeer, Doing, Head1, IInv, world, Asks
<1>2. /\ Tail(todo[t]) = <<>> /\ <<>> \in Seq(Operations) /\ 1 \in 1..Len(todo[t])
  <2>1. <<>> \in Seq(Operations)
    OBVIOUS
  <2>2. QED
    BY <1>1, <2>1, HeadFacts
<1>3. CASE Go(t, <<>>) /\ UNCHANGED near
  BY <1>1, <1>2, <1>3, GoTyped, EndCompares
<1>4. CASE Go(t, <<Op("node", "far")>>) /\ near' = [near EXCEPT ![t] = [port |-> data[t], ext |-> data2[t]]]
  <2> DEFINE ops == <<Op("node", "far")>>
  <2>1. /\ ops \in Seq(Operations) /\ Len(ops) = 1 /\ ops[1].op = "node" /\ ops[1].end = "far"
    BY DEF Op, Operations, OpNames, Ends
  <2>2. Go(t, ops)
    BY <1>4
  <2> HIDE DEF ops
  <2>3. todo'[t] = ops
    BY <1>1, <1>2, <2>1, <2>2, GoTyped
  <2>4. ~Setting(ops) /\ ~Deciding(ops) /\ ~Judging(ops) /\ FarOnly(ops)
    BY <2>1 DEF Setting, Deciding, Judging, FarOnly
  <2>5. Deciding(todo[t])
    BY <1>1, <1>2 DEF Deciding
  <2>6. near'[t].port = data[t]
    BY <1>4 DEF QInv
  <2>7. /\ Asks(t)' = Asks(t) /\ Alone(t)' = Alone(t) /\ Extended' = Extended
        /\ Cap' = Cap /\ Tools' = Tools
    BY <1>1, QuerySame, SameTools DEF Alone
  <2>8. Judged(t) => Judged(t)'
    BY <1>1, <2>7 DEF Judged, Allowed
  <2>9. Undisturbed(t) => Undisturbed(t)'
    BY <1>1, <2>3, <2>4, <2>5, <2>6, <2>8 DEF Undisturbed
  <2>10. QED
    BY <1>1, <2>3, <2>4, <2>7, <2>9 DEF Compares
<1>5. QED
  BY <1>3, <1>4 DEF DecidePeer

LEMMA ValidateCompares ==
  ASSUME IInv, QInv, NEW t \in Tools, Compares(t), Validate(t)
  PROVE  Compares(t)'
<1>1. /\ todo[t] # <<>> /\ todo[t][1].op = "validate" /\ OnTrack(t) /\ TypeOK
      /\ Go(t, <<>>) /\ <<>> \in Seq(Operations)
      /\ warned' = [warned EXCEPT ![t] = Warnings(t)]
      /\ UNCHANGED <<scenario, reg, events, data, near>>
  BY DEF Validate, Doing, Head1, IInv, world
<1>2. /\ Tail(todo[t]) = <<>> /\ todo[t] \in Seq(Operations) /\ 1 \in 1..Len(todo[t])
  BY <1>1, HeadFacts DEF TypeOK, ToolsTyped
<1>3. todo'[t] = <<>>
  BY <1>1, <1>2, GoTyped
<1>4. /\ Judging(todo[t]) /\ Comparing(todo[t])
  BY <1>1, <1>2 DEF Judging, Comparing
<1>5. ~Awaits(todo[t])
  <2>1. Len(todo[t]) = 1
    BY <1>1, <1>2 DEF OnTrack, Shape, LastIsLast
  <2>2. QED
    BY <1>1, <2>1 DEF Awaits
<1>6. /\ Asks(t)' = Asks(t) /\ Alone(t)' = Alone(t) /\ Extended' = Extended
      /\ Cap' = Cap /\ Tools' = Tools
  BY <1>1, QuerySame, SameTools DEF Alone
<1>7. warned'[t] = Warnings(t)
  BY <1>1 DEF QInv
<1>8. ASSUME Undisturbed(t) PROVE Undisturbed(t)'
  <2>1. data[t] = reg["far"] /\ near[t].port = reg["near"]
    BY <1>4, <1>5, <1>8 DEF Undisturbed
  <2>2. ASSUME NEW a \in Aspects, Extended \/ a # "espeed"
        PROVE  a \in Warnings(t)
                 <=> Warns(a, Allowed("near", a), Allowed("far", a), reg["near"].active[a])
    <3>1. a # "fdr10"
      BY DEF Aspects
    <3>2. QED
      BY <2>1, <2>2, <3>1 DEF Warnings, Allowed
  <2>3. Judged(t)'
    BY <1>1, <1>6, <1>7, <2>2 DEF Judged, Allowed
  <2>4. QED
    BY <1>1, <1>3, <1>8, <2>3, EmptyShape, EmptyQuery DEF Undisturbed
<1>9. QED
  BY <1>3, <1>4, <1>6, <1>8, EmptyQuery DEF Compares

\* A tool that was only asked has no Set to make.
LEMMA SetCompares ==
  ASSUME IInv, NEW t \in Tools, Compares(t), CarryOut(t) \/ CarryOutExt(t)
  PROVE  Compares(t)'
<1>1. PICK name \in {"set", "setext"} : Sent(t, name)
  BY DEF CarryOut, CarryOutExt
<1>2. UNCHANGED <<scenario, events, todo>>
  BY DEF CarryOut, CarryOutExt, world
<1>3. Setting(todo[t]) /\ carried'[t] = carried[t] \cup {name}
  BY <1>1, SentFacts
<1>4. ~(Alone(t) /\ Asks(t))
  BY <1>3 DEF Compares, Undisturbed
<1>5. /\ Asks(t)' = Asks(t) /\ Alone(t)' = Alone(t)
  BY <1>2, QuerySame, SameTools DEF Alone
<1>6. "validated" \in carried'[t] => "validated" \in carried[t]
  BY <1>3
<1>7. QED
  BY <1>2, <1>4, <1>5, <1>6 DEF Compares

LEMMA DoneCompares ==
  ASSUME IInv, NEW t \in Tools, Compares(t), SetDone(t)
  PROVE  Compares(t)'
<1>1. /\ sends[t] > 0 /\ Go(t, <<>>) /\ TypeOK /\ OnTrack(t) /\ <<>> \in Seq(Operations)
      /\ UNCHANGED <<scenario, reg, events, data, near, warned, carried>>
  BY DEF SetDone, IInv, world
<1>2. todo[t] # <<>> /\ todo[t][1].op \in {"set", "setext"} /\ todo[t] \in Seq(Operations)
  BY <1>1 DEF OnTrack, Progress, TypeOK, ToolsTyped
<1>3. 1 \in 1..Len(todo[t])
  BY <1>2
<1>4. Setting(todo[t])
  <2>1. CASE todo[t][1].op = "set"
    BY <1>3, <2>1 DEF Setting
  <2>2. CASE todo[t][1].op = "setext"
    <3>1. Len(todo[t]) = 2 /\ todo[t][2].op = "set"
      BY <1>1, <1>3, <2>2 DEF OnTrack, Shape, ExtIsFirst
    <3>2. QED
      BY <3>1 DEF Setting
  <2>3. QED
    BY <1>2, <2>1, <2>2
<1>5. todo'[t] = Tail(todo[t])
  BY <1>1, <1>2, GoTyped
<1>6. QED
  BY <1>1, <1>2, <1>4, <1>5, PopCompares

LEMMA StopCompares ==
  ASSUME IInv, NEW t \in Tools, Compares(t), CallFails(t) \/ Finish(t)
  PROVE  Compares(t)'
<1>1. /\ TypeOK /\ UNCHANGED <<scenario, reg, events, data, near, warned, carried>>
  BY DEF CallFails, Finish, IInv, world
<1>2. CASE CallFails(t)
  BY <1>1, <1>2, ExitsTyped, EndCompares DEF CallFails
<1>3. CASE Finish(t)
  BY <1>1, <1>3, SameCompares DEF Finish
<1>4. QED
  BY <1>2, <1>3

\* A step of another tool.
LEMMA AsideCompares ==
  ASSUME IInv, NEW u \in Tools, Step(u), NEW t \in Tools, t # u, Compares(t)
  PROVE  Compares(t)'
<1>1. Aside(t)
  <2>1. StepResult(u)
    BY StepIsResult
  <2>2. QED
    BY <2>1 DEF StepResult
<1>2. UNCHANGED scenario
  BY DEF Step, GetNodeInfo, GetCapMask, GetPortInfo, GetExtPortInfo, DecideSet, DecidePeer,
         Validate, CarryOutExt, CarryOut, SetDone, CallFails, Finish, world
<1>3. QED
  BY <1>1, <1>2, NotAlone DEF Aside

LEMMA ToolCompares ==
  ASSUME IInv, QInv, NEW u \in Tools, Step(u)
  PROVE  QInv'
<1>1. UNCHANGED <<scenario, events>>
  BY DEF Step, GetNodeInfo, GetCapMask, GetPortInfo, GetExtPortInfo, DecideSet, DecidePeer,
         Validate, CarryOutExt, CarryOut, SetDone, CallFails, Finish, world
<1>2. Tools' = Tools
  BY <1>1, SameTools
<1>3. DOMAIN near' = Tools /\ DOMAIN warned' = Tools
  BY DEF QInv, Step, GetNodeInfo, GetCapMask, GetPortInfo, GetExtPortInfo, DecideSet, DecidePeer,
         Validate, CarryOutExt, CarryOut, SetDone, CallFails, Finish
<1>4. Compares(u)
  BY DEF QInv
<1>5. Compares(u)'
  <2>1. CASE GetNodeInfo(u)
    BY <1>4, <2>1, NodeCompares
  <2>2. CASE GetCapMask(u) \/ GetPortInfo(u) \/ GetExtPortInfo(u)
    BY <1>4, <2>2, ReadCompares
  <2>3. CASE DecideSet(u)
    BY <1>4, <2>3, DecideCompares
  <2>4. CASE DecidePeer(u)
    BY <1>4, <2>4, PeerCompares
  <2>5. CASE Validate(u)
    BY <1>4, <2>5, ValidateCompares
  <2>6. CASE CarryOut(u) \/ CarryOutExt(u)
    BY <1>4, <2>6, SetCompares
  <2>7. CASE SetDone(u)
    BY <1>4, <2>7, DoneCompares
  <2>8. CASE CallFails(u) \/ Finish(u)
    BY <1>4, <2>8, StopCompares
  <2>9. QED
    BY <2>1, <2>2, <2>3, <2>4, <2>5, <2>6, <2>7, <2>8 DEF Step
<1>6. ASSUME NEW t \in Tools PROVE Compares(t)'
  BY <1>5, AsideCompares DEF QInv
<1>7. QED
  BY <1>1, <1>2, <1>3, <1>6 DEF QInv

LEMMA OthersCompare ==
  ASSUME IInv, QInv, SmConfigures \/ SmAdvances \/ Retrain
  PROVE  QInv'
<1>1. /\ UNCHANGED <<scenario, todo, near, warned, carried>>
      /\ events' = events + 1
  BY DEF SmConfigures, SmAdvances, Retrain, External
<1>2. events' \in Nat /\ events' # 0 /\ Tools' = Tools
  BY <1>1, SameTools DEF QInv
<1>3. ASSUME NEW t \in Tools PROVE Compares(t)'
  <2>1. Asks(t)' = Asks(t) /\ ~Alone(t)'
    BY <1>1, <1>2, QuerySame DEF Alone
  <2>2. QED
    BY <1>1, <2>1 DEF Compares, QInv
<1>4. QED
  BY <1>1, <1>2, <1>3 DEF QInv

LEMMA StillCompares ==
  ASSUME QInv, UNCHANGED vars
  PROVE  QInv'
<1>1. UNCHANGED <<scenario, reg, events, todo, data, near, warned, carried>>
  BY DEF vars, world
<1>2. Tools' = Tools
  BY <1>1, SameTools
<1>3. ASSUME NEW t \in Tools PROVE Compares(t)'
  BY <1>1, <1>3, SameCompares DEF QInv
<1>4. QED
  BY <1>1, <1>2, <1>3 DEF QInv

LEMMA StartsToCompare ==
  ASSUME Init
  PROVE  QInv
<1> DEFINE start == <<Op("node", "near")>>
<1>1. Len(start) = 1 /\ start[1].op = "node" /\ start[1].end = "near"
  BY DEF Op
<1>2. todo = [t \in Tools |-> start]
  BY DEF Init
<1>3. /\ reg = scenario.reg /\ events = 0
      /\ data = [t \in Tools |-> reg["near"]] /\ carried = [t \in Tools |-> {}]
      /\ DOMAIN near = Tools /\ DOMAIN warned = Tools
  BY DEF Init
<1> HIDE DEF start
<1>4. ~Setting(start) /\ ~Comparing(start) /\ ~Judging(start) /\ FarOnly(start)
  BY <1>1 DEF Setting, Comparing, Judging, FarOnly
<1>5. ASSUME NEW t \in Tools PROVE Compares(t)
  BY <1>2, <1>3, <1>4 DEF Compares, Undisturbed
<1>6. QED
  BY <1>3, <1>5 DEF QInv

LEMMA QueriesInvariant == Spec => [](IInv /\ QInv)
<1>1. Init => QInv
  BY StartsToCompare
<1>2. IInv /\ QInv /\ [Next]_vars => QInv'
  BY ToolCompares, OthersCompare, StillCompares DEF Next
<1>3. QED
  BY <1>1, <1>2, InvariantHolds, PTL DEF Spec

\* The bits are tried from the greatest width, or speed, to the least.
LEMMA GreatestFirst ==
  ASSUME NEW a \in Aspects, NEW both \in SUBSET Bits(a), both # {}
  PROVE  \E i \in DOMAIN Order(a) :
           /\ Order(a)[i] \in both
           /\ \A j \in 1..(i - 1) : Order(a)[j] \notin both
           /\ \A q \in both : /\ Magnitude(a, q) <= Magnitude(a, Order(a)[i])
                              /\ q = Order(a)[i] \/ Magnitude(a, q) < Magnitude(a, Order(a)[i])
<1>1. CASE a = "width"
  <2>1. /\ DOMAIN Order(a) = 1..5 /\ Order(a)[1] = 8 /\ Order(a)[2] = 4 /\ Order(a)[3] = 2
        /\ Order(a)[4] = 16 /\ Order(a)[5] = 1
    BY <1>1 DEF Order
  <2>2. /\ Magnitude(a, 8) = 12 /\ Magnitude(a, 4) = 8 /\ Magnitude(a, 2) = 4
        /\ Magnitude(a, 16) = 2 /\ Magnitude(a, 1) = 1
    BY <1>1 DEF Magnitude
  <2>3. \A q \in both : q \in {1, 2, 4, 8, 16}
    BY <1>1 DEF Bits
  <2>4. CASE 8 \in both
    BY <2>1, <2>2, <2>3, <2>4
  <2>5. CASE 8 \notin both /\ 4 \in both
    BY <2>1, <2>2, <2>3, <2>5
  <2>6. CASE 8 \notin both /\ 4 \notin both /\ 2 \in both
    BY <2>1, <2>2, <2>3, <2>6
  <2>7. CASE 8 \notin both /\ 4 \notin both /\ 2 \notin both /\ 16 \in both
    BY <2>1, <2>2, <2>3, <2>7
  <2>8. CASE 8 \notin both /\ 4 \notin both /\ 2 \notin both /\ 16 \notin both
    BY <2>1, <2>2, <2>3, <2>8
  <2>9. QED
    BY <2>4, <2>5, <2>6, <2>7, <2>8
<1>2. CASE a # "width"
  <2>1. DOMAIN Order(a) = 1..3 /\ Order(a)[1] = 4 /\ Order(a)[2] = 2 /\ Order(a)[3] = 1
    BY <1>2 DEF Order
  <2>2. \A q \in both : q \in {1, 2, 4} /\ Magnitude(a, q) = q
    BY <1>2 DEF Bits, Magnitude
  <2>3. QED
    BY <2>1, <2>2
<1>3. QED
  BY <1>1, <1>2

\* A warning is given exactly if the link is not at the best that both ends allow.
LEMMA WarnsOfLess ==
  ASSUME NEW a \in Aspects, NEW mine, NEW peer, NEW active,
         mine \cap peer \subseteq Bits(a), mine \cap peer # {}
  PROVE  Warns(a, mine, peer, active)
           <=> ~(/\ active \in mine \cap peer
                 /\ \A q \in mine \cap peer : Magnitude(a, q) <= Magnitude(a, active))
<1> DEFINE both == mine \cap peer
<1>1. both \in SUBSET Bits(a) /\ both # {}
  OBVIOUS
<1> HIDE DEF both
<1>2. PICK i \in DOMAIN Order(a) :
        /\ Order(a)[i] \in both
        /\ \A j \in 1..(i - 1) : Order(a)[j] \notin both
        /\ \A q \in both : /\ Magnitude(a, q) <= Magnitude(a, Order(a)[i])
                           /\ q = Order(a)[i] \/ Magnitude(a, q) < Magnitude(a, Order(a)[i])
  BY <1>1, GreatestFirst
<1>3. DOMAIN Order(a) = 1..5 \/ DOMAIN Order(a) = 1..3
  BY DEF Order
<1>4. ASSUME NEW k \in DOMAIN Order(a), Order(a)[k] \in both,
             \A j \in 1..(k - 1) : Order(a)[j] \notin both
      PROVE  k = i
  <2>1. k \in Int /\ i \in Int /\ k >= 1 /\ i >= 1
    BY <1>3
  <2>2. ~(k < i) /\ ~(i < k)
    BY <1>2, <1>4, <2>1
  <2>3. QED
    BY <2>1, <2>2
<1>5. Warns(a, mine, peer, active) <=> active # Order(a)[i]
  BY <1>2, <1>4 DEF Warns, both
<1>6. \A q \in both : Magnitude(a, q) \in Int
  BY <1>1 DEF Magnitude, Bits
<1>7. (active \in both /\ \A q \in both : Magnitude(a, q) <= Magnitude(a, active))
         <=> active = Order(a)[i]
  BY <1>2, <1>6
<1>8. QED
  BY <1>5, <1>7 DEF both

\* A query of a link that nobody touches meanwhile warns exactly if the link is not as
\* wide, and not as fast, as both its ends allow (ibportstate.c:306): the bits, which are
\* not in the order of the widths, are tried from the widest on, and what is compared is
\* the near port and then the far one, read into the same buffer.
THEOREM WarningsAreRight ==
  ASSUME MasksAreKnown
  PROVE  Spec => []WarnsIfNotBest
<1>1. IInv /\ QInv => WarnsIfNotBest
  <2> SUFFICES ASSUME IInv, QInv, NEW t \in Tools, pc[t] = "done", "validated" \in carried[t],
                      events = 0, Tools = {t},
                      NEW a \in IF Extended THEN Aspects ELSE {"width", "speed"}, Common(a) # {}
               PROVE  a \in warned[t] <=> ~Best(a, reg["near"].active[a])
    BY DEF WarnsIfNotBest
  <2>1. a \in Aspects /\ (Extended \/ a # "espeed")
    BY DEF Aspects
  <2>2. Undisturbed(t)
    BY DEF QInv, Compares, Alone
  <2>3. reg = scenario.reg /\ Judged(t)
    BY <2>2 DEF Undisturbed
  <2>4. a \in warned[t]
          <=> Warns(a, Allowed("near", a), Allowed("far", a), reg["near"].active[a])
    BY <2>1, <2>3 DEF Judged
  <2>5. Common(a) = Allowed("near", a) \cap Allowed("far", a)
    BY DEF Common, Allowed
  <2>6. scenario \in Scenarios
    BY DEF IInv, TypeOK, WorldTyped
  <2>7. /\ Cap["near"].supported[a] \subseteq Bits(a)
        /\ reg["near"].enabled[a] = AllOnes \/ reg["near"].enabled[a] \subseteq Bits(a)
    BY <2>1, <2>3, <2>6 DEF MasksAreKnown, Cap
  <2>8. Allowed("near", a) \subseteq Bits(a)
    BY <2>7 DEF Allowed, Effective
  <2>9. QED
    BY <2>1, <2>4, <2>5, <2>8, WarnsOfLess DEF Best
<1>2. QED
  BY <1>1, QueriesInvariant, PTL

=============================================================================
