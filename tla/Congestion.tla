----------------------------- MODULE Congestion -----------------------------
(***************************************************************************)
(* ibccquery and ibccconfig (src/ibccquery.c, src/ibccconfig.c): sessions, *)
(* see ToolSession, whose calls read and write the congestion settings of  *)
(* the ports of a switch and the congestion control table of an agent.     *)
(*                                                                         *)
(* The settings are read and written in blocks.  A Set carries a whole     *)
(* block, so that of one port is a Get, a change and a Set; when the       *)
(* answer of a Set is lost, it may have been carried out.  The other       *)
(* attributes of the tools are each one Get or one Set.                    *)
(*                                                                         *)
(* The agent (external): settings are those of one switch.  A Get of a     *)
(* block past the last port is answered with zeros or with an error.       *)
(***************************************************************************)
EXTENDS ToolSession, FiniteSets

CONSTANTS
  Switch,           \* the port (0) of the switch
  NumPorts,         \* its NumPorts; port 0 has a setting too
  SpBlock,          \* 48: the settings in a MAD
  SpRead,           \* 32: what ibccconfig takes for it when it reads
  CtBlock,          \* 64: the table entries in a MAD
  MaxLimit,         \* bound of the model: of CCTI_Limit
  AskedPorts,       \* the ports ibccconfig is asked to set
  Attrs             \* the attributes that are not read or written in blocks

ASSUME CongestionAssumption ==
  /\ Switch \in Ports
  /\ NumPorts \in Nat /\ AskedPorts \subseteq Nat /\ MaxLimit \in Nat
  /\ SpBlock \in Nat \ {0} /\ SpRead \in 1..SpBlock /\ CtBlock \in Nat \ {0}

VARIABLES
  op,               \* the operation and its arguments
  step,             \* the call the operation makes next, or "done"
  block,            \* i, the block of a query that shows several
  buf,              \* data, payload
  shown,            \* what the tool has printed: pairs of an index and a value
  sp,               \* agent: the settings of the ports
  table, limit,     \* agent: the table and CCTI_Limit
  attr              \* agent: the values of the other attributes

tooling == <<op, step, block, buf, shown>>
agent == <<sp, table, limit, attr>>
vars == <<session, tooling, agent>>

CcTools == {"ibccquery", "ibccconfig"}

NoOp == [kind |-> "none"]

\* The values of a Set: those of the agent at first are different ones.
NewValue == 1

\* The attributes of a MAD of one Get or Set: CongestionKeyInfo and the settings
\* of a switch and of a CA, which can be written, and what can only be read:
\* ClassPortInfo, CongestionInfo, the log and the time stamp.
Writable == Attrs \cap {"CongestionKeyInfo", "SwitchCongestionSetting", "CACongestionSetting"}

Ops(t) ==
  CASE t = "ibccconfig" ->
         [kind : {"SpSet"}, port : AskedPorts]
         \cup [kind : {"CtSet"}, limit : 0..MaxLimit, index : 0..(MaxLimit \div CtBlock),
               count : 0..CtBlock]
         \cup [kind : {"Set"}, attr : Writable]
    [] t = "ibccquery" -> [kind : {"SpGet"}, port : 0..(NumPorts + 1)] \cup [kind : {"CtGet"}]
         \cup [kind : {"Get"}, attr : Attrs]
    [] OTHER -> {NoOp}

\* The steps of an operation begin with a NodeInfo for the settings of ports.
FirstStep(o) ==
  CASE o.kind \in {"SpSet", "SpGet"} -> "nodeinfo"
    [] o.kind \in {"CtGet", "Get"} -> "get"
    [] o.kind \in {"CtSet", "Set"} -> "set"
    [] OTHER -> "done"

\* congestion_control_table: the last entry given is the one of the limit.
ArgumentsFit(o) ==
  o.kind = "CtSet" /\ o.limit # 0 => o.limit + 1 = o.index * CtBlock + o.count

------------------------------------------------------------------------------
Block(b) == {b * SpBlock + i : i \in 0..(SpBlock - 1)}

\* What an agent answers to the Get of a block of settings or of the table.
Settings(b) ==
  [i \in 0..(SpBlock - 1) |->
     IF b * SpBlock + i \in DOMAIN sp THEN sp[b * SpBlock + i] ELSE 0]

Entries(b) ==
  [i \in 0..(CtBlock - 1) |->
     IF b * CtBlock + i \in DOMAIN table THEN table[b * CtBlock + i] ELSE 0]

\* Mutant of ReadBlock: the setting is not read first.
NoRead == [i \in 0..(SpBlock - 1) |-> 0]

\* switch_port_congestion_setting of ibccconfig: the block that is read, ...
ReadBlock == Settings(op.port \div SpRead)

\* ... the setting in it that is changed, and the block that is written.
Changed == [buf EXCEPT ![op.port % SpRead] = NewValue]
WrittenBlock == op.port \div SpBlock

\* congestion_control_table of ibccconfig: the rest of the block is zero.
NewEntries == [i \in 0..(CtBlock - 1) |-> IF i < op.count THEN NewValue ELSE 0]

\* What a Set does at the agent.
SpCarriedOut ==
  /\ sp' = [p \in DOMAIN sp |->
              IF p \in Block(WrittenBlock) THEN Changed[p % SpBlock] ELSE sp[p]]
  /\ UNCHANGED <<table, limit, attr>>

CtCarriedOut ==
  /\ table' = [i \in DOMAIN table |->
                 IF i \div CtBlock = op.index THEN NewEntries[i % CtBlock] ELSE table[i]]
  /\ limit' = op.limit
  /\ UNCHANGED <<sp, attr>>

AttrCarriedOut ==
  /\ attr' = [attr EXCEPT ![op.attr] = NewValue]
  /\ UNCHANGED <<sp, table, limit>>

CarriedOut ==
  \/ op.kind = "SpSet" /\ SpCarriedOut
  \/ op.kind = "CtSet" /\ CtCarriedOut
  \/ op.kind = "Set" /\ AttrCarriedOut

------------------------------------------------------------------------------
\* Blocks and entries that a query without a port prints.
Shown(values, per, top) ==
  {<<block * per + i, values[i]>> : i \in {j \in 0..(per - 1) : block * per + j <= top}}

\* Mutant of LastSpBlock: as many blocks as hold NumPorts ports.
LastSpBlockShort == (NumPorts - 1) \div SpBlock

\* switch_port_congestion_setting of ibccquery: maxblocks - 1.
LastSpBlock == NumPorts \div SpBlock

\* The class of the call a step makes.
ClassOf(s) == IF s = "nodeinfo" THEN "smp" ELSE "cc"

CcStart(t, n, given) ==
  /\ Start(t, n, given)
  /\ op' \in {o \in Ops(t) : ArgumentsFit(o)}
  /\ step' = FirstStep(op')
  /\ block' = 0
  /\ buf' = NoRead
  /\ shown' = {}
  /\ UNCHANGED agent

\* A destination with a LID is never refused.
CcAsk ==
  /\ step # "done"
  /\ Ask(ClassOf(step))
  /\ UNCHANGED <<tooling, agent>>

\* The tool exits when the destination is no switch or has no such port.
NodeInfoAnswered ==
  /\ step = "nodeinfo"
  /\ Answered
  /\ step' = IF answer'.port # Switch \/ op.port > NumPorts THEN "done" ELSE "get"
  /\ UNCHANGED <<op, block, buf, shown, agent>>

SpReadAnswered ==
  /\ step = "get" /\ op.kind = "SpSet"
  /\ Answered
  /\ buf' = ReadBlock
  /\ step' = "set"
  /\ UNCHANGED <<op, block, shown, agent>>

\* A query of one port, whose number is not 0.
PortAnswered ==
  /\ step = "get" /\ op.kind = "SpGet" /\ op.port # 0
  /\ Answered
  /\ shown' = {<<op.port, Settings(op.port \div SpBlock)[op.port % SpBlock]>>}
  /\ step' = "done"
  /\ UNCHANGED <<op, block, buf, agent>>

BlockAnswered ==
  /\ step = "get" /\ op.kind = "SpGet" /\ op.port = 0
  /\ Answered
  /\ shown' = shown \cup Shown(Settings(block), SpBlock, NumPorts)
  /\ IF block < LastSpBlock
     THEN block' = block + 1 /\ UNCHANGED step
     ELSE step' = "done" /\ UNCHANGED block
  /\ UNCHANGED <<op, buf, agent>>

\* congestion_control_table of ibccquery: nothing is printed of a table whose
\* limit is 0.
EntriesAnswered ==
  /\ step = "get" /\ op.kind = "CtGet"
  /\ Answered
  /\ shown' = IF limit = 0 THEN {} ELSE shown \cup Shown(Entries(block), CtBlock, limit)
  /\ IF block < limit \div CtBlock
     THEN block' = block + 1 /\ UNCHANGED step
     ELSE step' = "done" /\ UNCHANGED block
  /\ UNCHANGED <<op, buf, agent>>

\* class_port_info, congestion_info, ..., timestamp_dump of ibccquery
AttrAnswered ==
  /\ step = "get" /\ op.kind = "Get"
  /\ Answered
  /\ shown' = {<<op.attr, attr[op.attr]>>}
  /\ step' = "done"
  /\ UNCHANGED <<op, block, buf, agent>>

SetAnswered ==
  /\ step = "set"
  /\ Answered
  /\ CarriedOut
  /\ step' = "done"
  /\ UNCHANGED <<op, block, buf, shown>>

\* The call fails; a Set may have been carried out, its answer lost.
CcNotAnswered ==
  /\ NotAnswered
  /\ UNCHANGED tooling
  /\ \/ UNCHANGED agent
     \/ step = "set" /\ Servers(asking, portid) # {} /\ CarriedOut

Done ==
  /\ step = "done"
  /\ Finish
  /\ UNCHANGED <<tooling, agent>>

CcNext ==
  \/ CcAsk
  \/ NodeInfoAnswered \/ SpReadAnswered \/ PortAnswered \/ BlockAnswered
  \/ EntriesAnswered \/ AttrAnswered \/ SetAnswered
  \/ CcNotAnswered
  \/ Done

\* The calls of the other tools.
FreeNext ==
  /\ \/ \E c \in ClassesOf(tool) : Ask(c) \/ AskRefused(c)
     \/ Answered \/ NotAnswered \/ NextPort \/ Finish
  /\ UNCHANGED <<tooling, agent>>

\* Bound of the model: only ibccquery and ibccconfig, which leave something at
\* the agent, run after another tool.
RunsAfter(t) == runs = 0 \/ {tool, t} \subseteq CcTools

Next ==
  \/ \E t \in Tools, given \in BOOLEAN : \E n \in Destinations(t) :
       RunsAfter(t) /\ CcStart(t, n, given)
  \/ (Setup \/ Redirected \/ RedirectRefused \/ Environment) /\ UNCHANGED <<tooling, agent>>
  \/ tool \in CcTools /\ CcNext
  \/ tool \notin CcTools /\ FreeNext

InitCc ==
  /\ Init
  /\ op = NoOp /\ step = "done" /\ block = 0 /\ buf = NoRead /\ shown = {}
  /\ sp = [p \in 0..NumPorts |-> p + 2]
  /\ table = [i \in 0..MaxLimit |-> i + 2]
  /\ limit = MaxLimit
  /\ attr = [a \in Attrs |-> 2]

Spec == InitCc /\ [][Next]_vars

------------------------------------------------------------------------------
\* "We are modifying only 1 port, so get the current config" (ibccconfig.c:388):
\* a run of ibccconfig changes the setting of the port, or the attribute, it was
\* asked to change, to the values it was given, and no other, whichever of its
\* calls are lost and also when its Set was carried out and its answer lost.
OnlyAskedChanges ==
  [][/\ \A p \in DOMAIN sp : sp'[p] # sp[p] => p = op.port /\ sp'[p] = NewValue
     /\ \A a \in Attrs : attr'[a] # attr[a] => a = op.attr /\ attr'[a] = NewValue]_vars

\* A query that ends without a failure has printed every port of the switch, or
\* every entry of the table up to its limit, once and with the value the agent
\* has for it, however they are spread over blocks (ibccquery.c:236, 307).
ShownIsSet ==
  tool = "ibccquery" /\ step = "done" /\ shown # {} =>
    CASE op.kind = "SpGet" /\ op.port # 0 -> shown = {<<op.port, sp[op.port]>>}
      [] op.kind = "SpGet" /\ op.port = 0 -> shown = {<<p, sp[p]>> : p \in DOMAIN sp}
      [] op.kind = "Get" -> shown = {<<op.attr, attr[op.attr]>>}
      [] op.kind = "CtGet" -> shown = {<<i, table[i]>> : i \in 0..limit}
=============================================================================
