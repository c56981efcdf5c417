---------------------------- MODULE ToolProofs -----------------------------
(***************************************************************************)
(* Proofs about tools that work in blocks: Congestion, with the runs of    *)
(* tools of ToolSession, and FwdTables; for any number of ports, any size  *)
(* of blocks, any fabric and any calls that fail.                          *)
(*                                                                         *)
(* ibccconfig changes only what it was asked to, provided a port has the   *)
(* same place in the blocks it reads and in those it writes (SameBlocks).  *)
(* In the code these have 32 and 48 entries (ibccconfig.c: 388 and 416):   *)
(* ports below 32 have, and the run cc_block shows what comes of it for    *)
(* others.  What ibccquery shows was read (QueriesAreTrue).  Until a run   *)
(* sends an SMP, its counter queries keep the path they were given or told *)
(* (RoutesAreKept).  Where no redirection leads back, answers come from    *)
(* the port that was named, up to a redirection to another port, and from  *)
(* one that this redirection determines after it (NamedAnswer).            *)
(*                                                                         *)
(* What ibroute and dump_fts print of a forwarding table was there, and    *)
(* what was there all the time is printed, while the subnet manager writes *)
(* (DumpsAreTrue, ValidsAreDumped).                                        *)
(***************************************************************************)
EXTENDS Congestion, FwdTables, FiniteSetTheorems, WellFoundedInduction, TLAPS

------------------------------------------------------------------------------
(* Blocks. *)

LEMMA SamePlace ==
  ASSUME NEW size \in Nat \ {0}, NEW b \in Nat, NEW c \in Nat,
         NEW i \in 0..(size - 1), NEW j \in 0..(size - 1),
         b * size + i = c * size + j
  PROVE  b = c /\ i = j
<1>1. ~(b >= c + 1)
  <2> SUFFICES ASSUME b >= c + 1 PROVE FALSE
    OBVIOUS
  <2>1. b * size >= (c + 1) * size
    OBVIOUS
  <2>2. (c + 1) * size = c * size + size
    OBVIOUS
  <2>3. QED
    BY <2>1, <2>2
<1>2. ~(c >= b + 1)
  <2> SUFFICES ASSUME c >= b + 1 PROVE FALSE
    OBVIOUS
  <2>1. c * size >= (b + 1) * size
    OBVIOUS
  <2>2. (b + 1) * size = b * size + size
    OBVIOUS
  <2>3. QED
    BY <2>1, <2>2
<1>3. b = c
  BY <1>1, <1>2
<1>4. QED
  BY <1>3

\* The place of a port in its block.
LEMMA PlaceOf ==
  ASSUME NEW size \in Nat \ {0}, NEW n \in Nat
  PROVE  /\ n \div size \in Nat /\ n % size \in 0..(size - 1)
         /\ n = ((n \div size) * size) + (n % size)
OBVIOUS

LEMMA InBlock ==
  ASSUME NEW b \in Nat, NEW p \in Block(b)
  PROVE  /\ p \in Nat
         /\ p % SpBlock \in 0..(SpBlock - 1)
         /\ p = (b * SpBlock) + (p % SpBlock)
<1> DEFINE size == SpBlock
<1>1. size \in Nat \ {0}
  BY CongestionAssumption
<1>2. PICK i \in 0..(size - 1) : p = b * size + i
  BY DEF Block
<1>3. b * size \in Nat
  BY <1>1
<1>4. p \in Nat
  BY <1>1, <1>2, <1>3
<1> HIDE DEF size
<1>5. p \div size \in Nat /\ p % size \in 0..(size - 1) /\ p = ((p \div size) * size) + (p % size)
  BY <1>1, <1>4, PlaceOf
<1>6. p \div size = b
  BY <1>1, <1>2, <1>5, SamePlace
<1>7. QED
  BY <1>4, <1>5, <1>6 DEF size

\* The ports that can be set have one place, however it is computed.
SameBlocks ==
  \A p \in AskedPorts :
    p <= NumPorts => p \div SpRead = p \div SpBlock /\ p % SpRead = p % SpBlock

------------------------------------------------------------------------------
(* The invariant. *)

Shaped ==
  /\ sp = [p \in 0..NumPorts |-> sp[p]]
  /\ attr = [a \in Attrs |-> attr[a]]
  /\ op.kind = "SpSet" => op.port \in AskedPorts /\ op.port \in Nat
  /\ op.kind = "SpSet" /\ step \in {"get", "set"} => op.port <= NumPorts
  /\ buf = [i \in 0..(SpBlock - 1) |-> buf[i]]

(* Between the Get and the end of the run the buffer holds, for every port   *)
(* but the one asked for, what the agent has.  This also holds after a Set   *)
(* that was carried out, so a Set that is repeated does no harm.             *)
BufferIsTrue ==
  step = "set" /\ op.kind = "SpSet" =>
    \A p \in DOMAIN sp :
      p \in Block(WrittenBlock) /\ p # op.port => buf[p % SpBlock] = sp[p]

IInv == Shaped /\ BufferIsTrue

LEMMA OpsHavePorts ==
  ASSUME NEW t, NEW o \in Ops(t), o.kind = "SpSet"
  PROVE  o.port \in AskedPorts /\ o.port \in Nat
<1>1. t = "ibccconfig"
  <2>1. CASE t = "ibccquery"
    BY <2>1 DEF Ops
  <2>2. CASE t \notin {"ibccquery", "ibccconfig"}
    BY <2>2 DEF Ops, NoOp
  <2>3. QED
    BY <2>1, <2>2
<1>2. o \in [kind : {"SpSet"}, port : AskedPorts]
  BY <1>1 DEF Ops
<1>3. QED
  BY <1>2, CongestionAssumption

\* What a Set makes of the settings.
LEMMA SpSetAsked ==
  ASSUME IInv, SameBlocks, step = "set", op.kind = "SpSet", SpCarriedOut
  PROVE  /\ sp' = [p \in 0..NumPorts |-> sp'[p]]
         /\ \A p \in DOMAIN sp : p # op.port => sp'[p] = sp[p]
         /\ \A p \in DOMAIN sp : sp'[p] # sp[p] => p = op.port /\ sp'[p] = NewValue
<1>1. op.port \in Nat /\ SpBlock \in Nat \ {0}
  BY CongestionAssumption DEF IInv, Shaped
<1>2. /\ WrittenBlock \in Nat /\ op.port % SpBlock \in 0..(SpBlock - 1)
      /\ op.port = (WrittenBlock * SpBlock) + (op.port % SpBlock)
  BY <1>1, PlaceOf DEF WrittenBlock
<1>3. op.port % SpRead = op.port % SpBlock
  BY DEF SameBlocks, IInv, Shaped
<1>4. sp' = [p \in DOMAIN sp |->
               IF p \in Block(WrittenBlock) THEN Changed[p % SpBlock] ELSE sp[p]]
  BY DEF SpCarriedOut
<1>5. ASSUME NEW p \in DOMAIN sp, p \in Block(WrittenBlock)
      PROVE  sp'[p] = IF p = op.port THEN NewValue ELSE sp[p]
  <2>1. /\ p % SpBlock \in 0..(SpBlock - 1)
        /\ p = (WrittenBlock * SpBlock) + (p % SpBlock)
    BY <1>2, <1>5, InBlock
  <2>2. sp'[p] = Changed[p % SpBlock]
    BY <1>4, <1>5
  <2>3. Changed[p % SpBlock]
          = IF p % SpBlock = op.port % SpBlock THEN NewValue ELSE buf[p % SpBlock]
    BY <1>3, <1>2, <2>1 DEF Changed, IInv, Shaped
  <2>4. p % SpBlock = op.port % SpBlock <=> p = op.port
    BY <1>2, <2>1
  <2>5. p # op.port => buf[p % SpBlock] = sp[p]
    BY <1>5 DEF IInv, BufferIsTrue
  <2>6. QED
    BY <2>2, <2>3, <2>4, <2>5
<1>6. ASSUME NEW p \in DOMAIN sp, p \notin Block(WrittenBlock)
      PROVE  sp'[p] = sp[p]
  BY <1>4, <1>6
<1>7. DOMAIN sp = 0..NumPorts
  BY DEF IInv, Shaped
<1>8. sp' = [p \in 0..NumPorts |-> sp'[p]]
  BY <1>4, <1>7
<1>9. QED
  BY <1>5, <1>6, <1>8

\* What any Set makes of the agent.
LEMMA CarriedOutAsked ==
  ASSUME IInv, SameBlocks, step = "set", CarriedOut
  PROVE  /\ sp' = [p \in 0..NumPorts |-> sp'[p]]
         /\ attr' = [a \in Attrs |-> attr'[a]]
         /\ \A p \in DOMAIN sp : p # op.port => sp'[p] = sp[p]
         /\ \A p \in DOMAIN sp : sp'[p] # sp[p] => p = op.port /\ sp'[p] = NewValue
         /\ \A a \in Attrs : attr'[a] # attr[a] => a = op.attr /\ attr'[a] = NewValue
         /\ op.kind # "SpSet" => sp' = sp
<1>1. CASE op.kind = "SpSet" /\ SpCarriedOut
  BY <1>1, SpSetAsked DEF SpCarriedOut, IInv, Shaped
<1>2. CASE op.kind = "CtSet" /\ CtCarriedOut
  BY <1>2 DEF CtCarriedOut, IInv, Shaped
<1>3. CASE op.kind = "Set" /\ AttrCarriedOut
  BY <1>3 DEF AttrCarriedOut, IInv, Shaped
<1>4. QED
  BY <1>1, <1>2, <1>3 DEF CarriedOut
------------------------------------------------------------------------------
(* The steps. *)

AskedChange ==
  /\ \A p \in DOMAIN sp : sp'[p] # sp[p] => p = op.port /\ sp'[p] = NewValue
  /\ \A a \in Attrs : attr'[a] # attr[a] => a = op.attr /\ attr'[a] = NewValue

LEMMA NothingChanged ==
  ASSUME IInv, UNCHANGED <<tooling, agent>>
  PROVE  IInv' /\ AskedChange
BY DEF tooling, agent, IInv, Shaped, BufferIsTrue, AskedChange, WrittenBlock

LEMMA StartKeeps ==
  ASSUME IInv, NEW t, NEW n, NEW given, CcStart(t, n, given)
  PROVE  IInv' /\ AskedChange
<1>1. op' \in Ops(t) /\ step' = FirstStep(op') /\ buf' = NoRead /\ UNCHANGED agent
  BY DEF CcStart
<1>2. op'.kind = "SpSet" =>
        op'.port \in AskedPorts /\ op'.port \in Nat /\ step' = "nodeinfo"
  BY <1>1, OpsHavePorts DEF FirstStep
<1>3. buf' = [i \in 0..(SpBlock - 1) |-> buf'[i]]
  BY <1>1 DEF NoRead
<1>4. QED
  BY <1>1, <1>2, <1>3 DEF agent, IInv, Shaped, BufferIsTrue, AskedChange

\* A step of the tool that leaves the agent alone and sends no Set next.
LEMMA QueryKeeps ==
  ASSUME IInv, UNCHANGED <<op, buf, agent>>, step' # "set",
         step' = "get" => step = "get" \/ op.kind # "SpSet" \/ op.port <= NumPorts
  PROVE  IInv' /\ AskedChange
BY DEF agent, IInv, Shaped, BufferIsTrue, AskedChange

LEMMA ReadKeeps ==
  ASSUME IInv, SameBlocks, SpReadAnswered
  PROVE  IInv' /\ AskedChange
<1>1. buf' = Settings(WrittenBlock) /\ UNCHANGED <<op, agent>>
  <2>1. op.port \in AskedPorts /\ op.port <= NumPorts
    BY DEF SpReadAnswered, IInv, Shaped
  <2>2. ReadBlock = Settings(WrittenBlock)
    BY <2>1 DEF ReadBlock, WrittenBlock, SameBlocks
  <2>3. QED
    BY <2>2 DEF SpReadAnswered
<1>2. Shaped'
  <2>1. step = "get"
    BY DEF SpReadAnswered
  <2>2. QED
    BY <1>1, <2>1 DEF agent, IInv, Shaped, Settings
<1>3. op.kind = "SpSet" => WrittenBlock \in Nat
  <2>1. SpBlock \in Nat \ {0}
    BY CongestionAssumption
  <2>2. QED
    BY <2>1, PlaceOf DEF WrittenBlock, IInv, Shaped
<1>4. BufferIsTrue'
  <2> SUFFICES ASSUME op.kind = "SpSet", NEW p \in DOMAIN sp, p \in Block(WrittenBlock)
               PROVE  buf'[p % SpBlock] = sp[p]
    BY <1>1 DEF agent, BufferIsTrue, WrittenBlock
  <2>1. /\ p % SpBlock \in 0..(SpBlock - 1)
        /\ p = (WrittenBlock * SpBlock) + (p % SpBlock)
    BY <1>3, InBlock
  <2>2. QED
    BY <1>1, <2>1 DEF Settings
<1>5. AskedChange
  BY <1>1 DEF agent, AskedChange
<1>6. QED
  BY <1>2, <1>4, <1>5 DEF IInv

LEMMA SetKeeps ==
  ASSUME IInv, SameBlocks, step = "set", CarriedOut, UNCHANGED <<op, buf>>,
         step' \in {"set", "done"}
  PROVE  IInv' /\ AskedChange
<1>1. Shaped'
  BY CarriedOutAsked DEF IInv, Shaped
<1>2. BufferIsTrue'
  <2> SUFFICES ASSUME op.kind = "SpSet", NEW p \in DOMAIN sp', p \in Block(WrittenBlock),
                      p # op.port
               PROVE  buf[p % SpBlock] = sp'[p]
    BY DEF BufferIsTrue, WrittenBlock
  <2>1. DOMAIN sp' = 0..NumPorts /\ DOMAIN sp = 0..NumPorts
    BY CarriedOutAsked DEF IInv, Shaped
  <2>2. sp'[p] = sp[p]
    BY <2>1, CarriedOutAsked
  <2>3. buf[p % SpBlock] = sp[p]
    BY <2>1 DEF IInv, BufferIsTrue
  <2>4. QED
    BY <2>2, <2>3
<1>3. AskedChange
  BY CarriedOutAsked DEF AskedChange
<1>4. QED
  BY <1>1, <1>2, <1>3 DEF IInv

LEMMA CcKeeps ==
  ASSUME IInv, SameBlocks, CcNext
  PROVE  IInv' /\ AskedChange
<1>1. CASE CcAsk \/ Done
  BY <1>1, NothingChanged DEF CcAsk, Done
<1>2. CASE NodeInfoAnswered
  <2>1. /\ step' \in {"done", "get"} /\ UNCHANGED <<op, buf, agent>>
        /\ step' = "get" => ~(op.port > NumPorts)
    BY <1>2 DEF NodeInfoAnswered
  <2>2. op.kind = "SpSet" /\ ~(op.port > NumPorts) => op.port <= NumPorts
    BY CongestionAssumption DEF IInv, Shaped
  <2>3. QED
    BY <2>1, <2>2, QueryKeeps
<1>3. CASE SpReadAnswered
  BY <1>3, ReadKeeps
<1>4. CASE PortAnswered \/ AttrAnswered
  <2>1. step' = "done" /\ UNCHANGED <<op, buf, agent>>
    BY <1>4 DEF PortAnswered, AttrAnswered
  <2>2. QED
    BY <2>1, QueryKeeps
<1>5. CASE BlockAnswered \/ EntriesAnswered
  <2>1. step = "get" /\ step' \in {"done", "get"} /\ UNCHANGED <<op, buf, agent>>
    BY <1>5 DEF BlockAnswered, EntriesAnswered
  <2>2. QED
    BY <2>1, QueryKeeps
<1>6. CASE SetAnswered
  BY <1>6, SetKeeps DEF SetAnswered
<1>7. CASE CcNotAnswered
  <2>1. CASE UNCHANGED <<tooling, agent>>
    BY <2>1, NothingChanged
  <2>2. CASE step = "set" /\ CarriedOut /\ UNCHANGED tooling
    BY <2>2, SetKeeps DEF tooling
  <2>3. QED
    BY <1>7, <2>1, <2>2 DEF CcNotAnswered
<1>8. QED
  BY <1>1, <1>2, <1>3, <1>4, <1>5, <1>6, <1>7 DEF CcNext

LEMMA StepKeeps ==
  ASSUME IInv, SameBlocks, [Next]_vars
  PROVE  IInv' /\ AskedChange
<1>1. ASSUME NEW t \in Tools, NEW given \in BOOLEAN, NEW n \in Destinations(t),
             CcStart(t, n, given)
      PROVE  IInv' /\ AskedChange
  BY <1>1, StartKeeps
<1>2. CASE UNCHANGED <<tooling, agent>>
  BY <1>2, NothingChanged
<1>3. CASE CcNext
  BY <1>3, CcKeeps
<1>4. CASE FreeNext
  BY <1>2, <1>4 DEF FreeNext
<1>5. CASE UNCHANGED vars
  BY <1>2, <1>5 DEF vars
<1>6. QED
  BY <1>1, <1>2, <1>3, <1>4, <1>5 DEF Next

LEMMA InitKeeps == InitCc => IInv
<1> SUFFICES ASSUME InitCc PROVE IInv
  OBVIOUS
<1>1. op.kind = "none" /\ step = "done"
  BY DEF InitCc, NoOp
<1>2. Shaped
  BY <1>1 DEF InitCc, Shaped, NoRead
<1>3. QED
  BY <1>1, <1>2 DEF IInv, BufferIsTrue

\* If ibccconfig reads the block that it writes, it changes no setting and no attribute
\* but the one it was asked for, whichever calls fail and however often a Set is
\* carried out (ibccconfig.c:388-418).
THEOREM OnlyAskedIsChanged ==
  ASSUME SameBlocks
  PROVE  Spec => OnlyAskedChanges
<1>1. InitCc => IInv
  BY InitKeeps
<1>2. IInv /\ [Next]_vars => IInv'
  BY StepKeeps
<1>3. IInv /\ [Next]_vars
        => [/\ \A p \in DOMAIN sp : sp'[p] # sp[p] => p = op.port /\ sp'[p] = NewValue
            /\ \A a \in Attrs : attr'[a] # attr[a] => a = op.attr /\ attr'[a] = NewValue]_vars
  BY StepKeeps DEF AskedChange
<1>4. QED
  BY <1>1, <1>2, <1>3, PTL DEF Spec, OnlyAskedChanges

\* As the code is, that holds for the ports in its first block of 32, so for every
\* port of a switch with fewer ports.
THEOREM FirstPortsAreSafe ==
  ASSUME \A p \in AskedPorts : p <= NumPorts => p < SpRead
  PROVE  Spec => OnlyAskedChanges
<1>1. SameBlocks
  <2> SUFFICES ASSUME NEW p \in AskedPorts, p <= NumPorts
               PROVE  p \div SpRead = p \div SpBlock /\ p % SpRead = p % SpBlock
    BY DEF SameBlocks
  <2>1. p \in Nat /\ SpRead \in Nat \ {0} /\ SpBlock \in Nat \ {0} /\ SpRead <= SpBlock
    BY CongestionAssumption
  <2>2. p < SpRead /\ p < SpBlock
    BY <2>1
  <2>3. p \div SpRead = 0 /\ p % SpRead = p
    BY <2>1, <2>2
  <2>4. p \div SpBlock = 0 /\ p % SpBlock = p
    BY <2>1, <2>2
  <2>5. QED
    BY <2>3, <2>4
<1>2. QED
  BY <1>1, OnlyAskedIsChanged

------------------------------------------------------------------------------
(* What a query prints. *)

\* The first n entries of what an agent has.
FirstOf(f, n) == {<<i, f[i]>> : i \in {j \in Nat : j < n}}

\* The entries of a block that begins at base.
BlockOf(values, base, size, top) ==
  {<<base + i, values[i]>> : i \in {j \in 0..(size - 1) : base + j <= top}}

\* It holds the entries of f, up to the top.
IsBlockOf(values, f, base, size, top) ==
  \A i \in 0..(size - 1) : base + i <= top => values[i] = f[base + i]

\* A block that is printed after those before it.
LEMMA BlockShown ==
  ASSUME NEW base \in Nat, NEW size \in Nat \ {0}, NEW top \in Nat, base <= top,
         NEW f, NEW values, IsBlockOf(values, f, base, size, top),
         NEW end \in Nat, end = IF base + size <= top THEN base + size ELSE top + 1
  PROVE  FirstOf(f, base) \cup BlockOf(values, base, size, top) = FirstOf(f, end)
<1> DEFINE new == BlockOf(values, base, size, top)
<1>1. FirstOf(f, base) \subseteq FirstOf(f, end)
  BY DEF FirstOf
<1>2. ASSUME NEW i \in 0..(size - 1), base + i <= top
      PROVE  <<base + i, values[i]>> \in FirstOf(f, end)
  <2>1. values[i] = f[base + i] /\ base + i \in Nat /\ base + i < end
    BY <1>2 DEF IsBlockOf
  <2>2. QED
    BY <2>1 DEF FirstOf
<1>3. ASSUME NEW i \in Nat, i < end, ~(i < base)
      PROVE  <<i, f[i]>> \in new
  <2>1. i - base \in 0..(size - 1) /\ base + (i - base) = i /\ i <= top
    BY <1>3
  <2>2. values[i - base] = f[i]
    BY <2>1 DEF IsBlockOf
  <2>3. QED
    BY <2>1, <2>2 DEF BlockOf
<1>4. new \subseteq FirstOf(f, end)
  BY <1>2 DEF BlockOf
<1>5. FirstOf(f, end) \subseteq FirstOf(f, base) \cup new
  <2> HIDE DEF new
  <2> QED
    BY <1>3 DEF FirstOf
<1>6. QED
  BY <1>1, <1>4, <1>5

\* A block is the last one, or the next one begins below the top, too.
LEMMA LastBlockShown ==
  ASSUME NEW size \in Nat \ {0}, NEW top \in Nat, NEW b \in 0..(top \div size)
  PROVE  /\ b * size \in Nat /\ b * size <= top
         /\ b < top \div size => (b * size) + size <= top /\ (b + 1) * size = (b * size) + size
         /\ ~(b < top \div size) => ~((b * size) + size <= top)
<1> DEFINE last == top \div size
<1>1. last \in Nat /\ top % size \in 0..(size - 1) /\ top = (last * size) + (top % size)
  BY PlaceOf
<1> HIDE DEF last
<1>2. b \in Nat /\ b <= last
  BY <1>1 DEF last
<1>3. b * size \in Nat /\ last * size \in Nat
  BY <1>1, <1>2
<1>4. b * size <= last * size
  BY <1>1, <1>2
<1>5. (b + 1) * size = (b * size) + size
  BY <1>2
<1>6. CASE b < last
  <2>1. (b + 1) * size <= last * size
    BY <1>1, <1>2, <1>6
  <2>2. QED
    BY <1>1, <1>3, <1>4, <1>5, <1>6, <2>1 DEF last
<1>7. CASE b = last
  BY <1>1, <1>3, <1>5, <1>7 DEF last
<1>8. QED
  BY <1>1, <1>2, <1>6, <1>7

\* The agent keeps a setting for every port and an entry up to every limit.
AgentShape ==
  /\ sp = [p \in 0..NumPorts |-> sp[p]]
  /\ table = [i \in 0..MaxLimit |-> table[i]]
  /\ limit \in 0..MaxLimit

OpFits == op = NoOp \/ op \in Ops(tool)

SpShown ==
  op.kind = "SpGet" =>
    /\ op.port \in Nat
    /\ step = "nodeinfo" => shown = {} /\ block = 0
    /\ step = "get" => op.port <= NumPorts
    /\ op.port # 0 =>
         shown = {} \/ (step = "done" /\ shown = {<<op.port, sp[op.port]>>})
    /\ op.port = 0 =>
         /\ block \in 0..LastSpBlock
         /\ step = "get" => shown = FirstOf(sp, block * SpBlock)
         /\ step = "done" => shown = {} \/ shown = FirstOf(sp, NumPorts + 1)

CtShown ==
  op.kind = "CtGet" =>
    /\ block \in 0..(limit \div CtBlock)
    /\ step # "nodeinfo"
    /\ step = "get" => shown = FirstOf(table, block * CtBlock)
    /\ step = "done" => shown = {} \/ shown = FirstOf(table, limit + 1)

AttrShown ==
  op.kind = "Get" =>
    shown = {} \/ (step = "done" /\ shown = {<<op.attr, attr[op.attr]>>})

\* A query has printed the blocks before the one it asks for next, and leaves the
\* agent alone.
QuerySoFar ==
  tool = "ibccquery" =>
    /\ op.kind \in {"none", "SpGet", "CtGet", "Get"}
    /\ step \in {"nodeinfo", "get", "done"}
    /\ op.kind = "none" => shown = {} /\ step = "done"
    /\ SpShown /\ CtShown /\ AttrShown

QInv == AgentShape /\ OpFits /\ QuerySoFar

\* Where the kinds of operations come from.
LEMMA KindsOfOps ==
  ASSUME NEW t, NEW o \in Ops(t)
  PROVE  /\ t = "ibccquery" => o.kind \in {"SpGet", "CtGet", "Get"}
         /\ t = "ibccquery" /\ o.kind = "SpGet" => o.port \in Nat
         /\ t # "ibccquery" => o.kind \in {"none", "SpSet", "CtSet", "Set"}
         /\ o.kind = "CtSet" => o.limit \in 0..MaxLimit
<1>1. CASE t = "ibccquery"
  <2>1. \/ o \in [kind : {"SpGet"}, port : 0..(NumPorts + 1)]
        \/ o \in [kind : {"CtGet"}]
        \/ o \in [kind : {"Get"}, attr : Attrs]
    BY <1>1 DEF Ops
  <2>2. QED
    BY <1>1, <2>1, CongestionAssumption
<1>2. CASE t = "ibccconfig"
  <2>1. \/ o \in [kind : {"SpSet"}, port : AskedPorts]
        \/ o \in [kind : {"CtSet"}, limit : 0..MaxLimit, index : 0..(MaxLimit \div CtBlock),
                  count : 0..CtBlock]
        \/ o \in [kind : {"Set"}, attr : Writable]
    BY <1>2 DEF Ops
  <2>2. QED
    BY <1>2, <2>1
<1>3. CASE t \notin {"ibccquery", "ibccconfig"}
  <2>1. o = NoOp
    BY <1>3 DEF Ops
  <2>2. QED
    BY <1>3, <2>1 DEF NoOp
<1>4. QED
  BY <1>1, <1>2, <1>3

\* A Set changes the agent only in a run of ibccconfig.
LEMMA CarriedOutShape ==
  ASSUME QInv, CarriedOut
  PROVE  AgentShape' /\ tool # "ibccquery"
<1>1. op.kind \in {"SpSet", "CtSet", "Set"}
  BY DEF CarriedOut
<1>2. op \in Ops(tool)
  BY <1>1 DEF QInv, OpFits, NoOp
<1>3. tool # "ibccquery" /\ (op.kind = "CtSet" => op.limit \in 0..MaxLimit)
  BY <1>1, <1>2, KindsOfOps
<1>4. CASE op.kind = "SpSet" /\ SpCarriedOut
  <2>1. DOMAIN sp = 0..NumPorts /\ table' = table /\ limit' = limit
    BY <1>4 DEF SpCarriedOut, QInv, AgentShape
  <2>2. sp' = [p \in DOMAIN sp |->
                 IF p \in Block(WrittenBlock) THEN Changed[p % SpBlock] ELSE sp[p]]
    BY <1>4 DEF SpCarriedOut
  <2>3. sp' = [p \in 0..NumPorts |-> sp'[p]]
    BY <2>1, <2>2
  <2>4. QED
    BY <1>3, <2>1, <2>3 DEF QInv, AgentShape
<1>5. CASE op.kind = "CtSet" /\ CtCarriedOut
  <2>1. DOMAIN table = 0..MaxLimit /\ sp' = sp /\ limit' = op.limit
    BY <1>5 DEF CtCarriedOut, QInv, AgentShape
  <2>2. table' = [i \in DOMAIN table |->
                    IF i \div CtBlock = op.index THEN NewEntries[i % CtBlock] ELSE table[i]]
    BY <1>5 DEF CtCarriedOut
  <2>3. table' = [i \in 0..MaxLimit |-> table'[i]]
    BY <2>1, <2>2
  <2>4. QED
    BY <1>3, <1>5, <2>1, <2>3 DEF QInv, AgentShape
<1>6. CASE op.kind = "Set" /\ AttrCarriedOut
  BY <1>3, <1>6 DEF AttrCarriedOut, QInv, AgentShape
<1>7. QED
  BY <1>3, <1>4, <1>5, <1>6 DEF CarriedOut

LEMMA QueryStart ==
  ASSUME QInv, NEW t, NEW n, NEW given, CcStart(t, n, given)
  PROVE  QInv'
<1>1. /\ op' \in Ops(t) /\ step' = FirstStep(op') /\ block' = 0 /\ shown' = {}
      /\ tool' = t /\ UNCHANGED agent
  BY DEF CcStart, Start, Started
<1>2. AgentShape' /\ OpFits'
  BY <1>1 DEF agent, QInv, AgentShape, OpFits
<1>3. ASSUME t = "ibccquery" PROVE QuerySoFar'
  <2>1. op'.kind \in {"SpGet", "CtGet", "Get"} /\ (op'.kind = "SpGet" => op'.port \in Nat)
    BY <1>1, <1>3, KindsOfOps
  <2>2. step' = IF op'.kind = "SpGet" THEN "nodeinfo" ELSE "get"
    BY <1>1, <2>1 DEF FirstStep
  <2>3. 0 \in 0..LastSpBlock /\ 0 \in 0..(limit' \div CtBlock)
    BY <1>2, CongestionAssumption, PlaceOf DEF AgentShape, LastSpBlock
  <2>4. FirstOf(table', 0 * CtBlock) = {}
    BY CongestionAssumption DEF FirstOf
  <2>5. SpShown' /\ CtShown' /\ AttrShown'
    BY <1>1, <2>1, <2>2, <2>3, <2>4 DEF SpShown, CtShown, AttrShown
  <2>6. QED
    BY <2>1, <2>2, <2>5 DEF QuerySoFar
<1>4. QED
  BY <1>1, <1>2, <1>3 DEF QInv, QuerySoFar

\* A step that leaves what the tool shows and the agent alone.
LEMMA QueryIdle ==
  ASSUME QInv, UNCHANGED <<tool, tooling, agent>>
  PROVE  QInv'
BY DEF tooling, agent, QInv, AgentShape, OpFits, QuerySoFar, SpShown, CtShown, AttrShown

LEMMA QueryBlock ==
  ASSUME QInv, BlockAnswered
  PROVE  QInv'
<1>1. /\ step = "get" /\ op.kind = "SpGet" /\ op.port = 0
      /\ shown' = shown \cup Shown(Settings(block), SpBlock, NumPorts)
      /\ IF block < LastSpBlock
         THEN block' = block + 1 /\ step' = "get"
         ELSE step' = "done" /\ block' = block
      /\ UNCHANGED <<op, buf, agent, tool>>
  BY DEF BlockAnswered, Answered
<1>2. AgentShape' /\ OpFits'
  BY <1>1 DEF agent, QInv, AgentShape, OpFits
<1>3. ASSUME tool = "ibccquery" PROVE QuerySoFar'
  <2> DEFINE base == block * SpBlock
             last == NumPorts \div SpBlock
             end == IF base + SpBlock <= NumPorts THEN base + SpBlock ELSE NumPorts + 1
             values == Settings(block)
  <2>1. block \in 0..last /\ shown = FirstOf(sp, base)
    BY <1>1, <1>3 DEF QInv, QuerySoFar, SpShown, LastSpBlock
  <2>2. SpBlock \in Nat \ {0} /\ NumPorts \in Nat
    BY CongestionAssumption
  <2>3. /\ base \in Nat /\ base <= NumPorts
        /\ block < last => base + SpBlock <= NumPorts /\ (block + 1) * SpBlock = base + SpBlock
        /\ ~(block < last) => ~(base + SpBlock <= NumPorts)
        /\ last \in Nat
    BY <2>1, <2>2, LastBlockShown, PlaceOf
  <2>4. DOMAIN sp = 0..NumPorts
    BY DEF QInv, AgentShape
  <2>5. IsBlockOf(values, sp, base, SpBlock, NumPorts)
    BY <2>2, <2>3, <2>4 DEF Settings, IsBlockOf
  <2>6. end \in Nat
    BY <2>2, <2>3
  <2>7. Shown(values, SpBlock, NumPorts) = BlockOf(values, base, SpBlock, NumPorts)
    BY DEF Shown, BlockOf
  <2>8. shown' = FirstOf(sp, end)
    <3> HIDE DEF base, values
    <3>0. end = IF base + SpBlock <= NumPorts THEN base + SpBlock ELSE NumPorts + 1
      OBVIOUS
    <3> HIDE DEF end
    <3>1. base \in Nat /\ base <= NumPorts
      BY <2>3
    <3>2. FirstOf(sp, base) \cup BlockOf(values, base, SpBlock, NumPorts) = FirstOf(sp, end)
      BY <2>2, <2>5, <2>6, <3>0, <3>1, BlockShown
    <3>3. shown' = FirstOf(sp, base) \cup Shown(values, SpBlock, NumPorts)
      BY <1>1, <2>1 DEF values
    <3>4. QED
      BY <2>7, <3>2, <3>3
  <2> HIDE DEF base, values, end, last
  <2>9. sp' = sp
    BY <1>1 DEF agent
  <2>10. SpShown'
    <3>1. CASE block < last
      <4>1. end = (block + 1) * SpBlock
        BY <2>3, <3>1 DEF end
      <4>2. block' \in 0..last /\ step' = "get" /\ block' = block + 1
        BY <1>1, <2>1, <2>3, <3>1 DEF LastSpBlock, last
      <4>3. QED
        BY <1>1, <2>2, <2>8, <2>9, <4>1, <4>2 DEF SpShown, LastSpBlock, last
    <3>2. CASE ~(block < last)
      <4>1. end = NumPorts + 1
        BY <2>3, <3>2 DEF end
      <4>2. block' = block /\ step' = "done"
        BY <1>1, <3>2 DEF LastSpBlock, last
      <4>3. QED
        BY <1>1, <2>1, <2>8, <2>9, <4>1, <4>2 DEF SpShown, LastSpBlock, last
    <3>3. QED
      BY <3>1, <3>2
  <2>11. step' \in {"get", "done"}
    BY <1>1
  <2>12. QED
    BY <1>1, <2>10, <2>11 DEF QuerySoFar, CtShown, AttrShown
<1>4. QED
  BY <1>1, <1>2, <1>3 DEF QInv, QuerySoFar

LEMMA QueryEntries ==
  ASSUME QInv, EntriesAnswered
  PROVE  QInv'
<1>1. /\ step = "get" /\ op.kind = "CtGet"
      /\ shown' = IF limit = 0 THEN {} ELSE shown \cup Shown(Entries(block), CtBlock, limit)
      /\ IF block < limit \div CtBlock
         THEN block' = block + 1 /\ step' = "get"
         ELSE step' = "done" /\ block' = block
      /\ UNCHANGED <<op, buf, agent, tool>>
  BY DEF EntriesAnswered, Answered
<1>2. AgentShape' /\ OpFits'
  BY <1>1 DEF agent, QInv, AgentShape, OpFits
<1>3. ASSUME tool = "ibccquery" PROVE QuerySoFar'
  <2> DEFINE base == block * CtBlock
             last == limit \div CtBlock
             end == IF base + CtBlock <= limit THEN base + CtBlock ELSE limit + 1
             values == Entries(block)
  <2>1. block \in 0..last /\ shown = FirstOf(table, base)
    BY <1>1, <1>3 DEF QInv, QuerySoFar, CtShown
  <2>2. CtBlock \in Nat \ {0} /\ limit \in Nat /\ MaxLimit \in Nat /\ limit <= MaxLimit
    BY CongestionAssumption DEF QInv, AgentShape
  <2>3. /\ base \in Nat /\ base <= limit
        /\ block < last => base + CtBlock <= limit /\ (block + 1) * CtBlock = base + CtBlock
        /\ ~(block < last) => ~(base + CtBlock <= limit)
        /\ last \in Nat
    BY <2>1, <2>2, LastBlockShown, PlaceOf
  <2>4. DOMAIN table = 0..MaxLimit
    BY DEF QInv, AgentShape
  <2>5. IsBlockOf(values, table, base, CtBlock, limit)
    BY <2>2, <2>3, <2>4 DEF Entries, IsBlockOf
  <2>6. end \in Nat
    BY <2>2, <2>3
  <2>7. Shown(values, CtBlock, limit) = BlockOf(values, base, CtBlock, limit)
    BY DEF Shown, BlockOf
  <2>8. limit # 0 => shown' = FirstOf(table, end)
    <3> HIDE DEF base, values
    <3>0. end = IF base + CtBlock <= limit THEN base + CtBlock ELSE limit + 1
      OBVIOUS
    <3> HIDE DEF end
    <3>1. base \in Nat /\ base <= limit
      BY <2>3
    <3>2. FirstOf(table, base) \cup BlockOf(values, base, CtBlock, limit) = FirstOf(table, end)
      BY <2>2, <2>5, <2>6, <3>0, <3>1, BlockShown
    <3>3. limit # 0 => shown' = FirstOf(table, base) \cup Shown(values, CtBlock, limit)
      BY <1>1, <2>1 DEF values
    <3>4. QED
      BY <2>7, <3>2, <3>3
  <2> HIDE DEF base, values, end, last
  <2>9. table' = table /\ limit' = limit
    BY <1>1 DEF agent
  <2>10. CtShown'
    <3>1. CASE block < last
      <4>1. end = (block + 1) * CtBlock /\ limit # 0
        BY <2>2, <2>3, <3>1 DEF end
      <4>2. block' \in 0..last /\ step' = "get" /\ block' = block + 1
        BY <1>1, <2>1, <2>3, <3>1 DEF last
      <4>3. QED
        BY <1>1, <2>8, <2>9, <4>1, <4>2 DEF CtShown, last
    <3>2. CASE ~(block < last)
      <4>1. end = limit + 1
        BY <2>3, <3>2 DEF end
      <4>2. block' = block /\ step' = "done"
        BY <1>1, <3>2 DEF last
      <4>3. CASE limit = 0
        BY <1>1, <2>1, <2>9, <4>2, <4>3 DEF CtShown, last
      <4>4. CASE limit # 0
        BY <1>1, <2>1, <2>8, <2>9, <4>1, <4>2, <4>4 DEF CtShown, last
      <4>5. QED
        BY <4>3, <4>4
    <3>3. QED
      BY <3>1, <3>2
  <2>11. step' \in {"get", "done"}
    BY <1>1
  <2>12. QED
    BY <1>1, <2>10, <2>11 DEF QuerySoFar, SpShown, AttrShown
<1>4. QED
  BY <1>1, <1>2, <1>3 DEF QInv, QuerySoFar

LEMMA QueryPort ==
  ASSUME QInv, PortAnswered
  PROVE  QInv'
<1>1. /\ step = "get" /\ op.kind = "SpGet" /\ op.port # 0 /\ step' = "done"
      /\ shown' = {<<op.port, Settings(op.port \div SpBlock)[op.port % SpBlock]>>}
      /\ UNCHANGED <<op, block, buf, agent, tool>>
  BY DEF PortAnswered, Answered
<1>2. AgentShape' /\ OpFits'
  BY <1>1 DEF agent, QInv, AgentShape, OpFits
<1>3. ASSUME tool = "ibccquery" PROVE QuerySoFar'
  <2>1. op.port \in Nat /\ op.port <= NumPorts
    BY <1>1, <1>3 DEF QInv, QuerySoFar, SpShown
  <2>2. SpBlock \in Nat \ {0} /\ NumPorts \in Nat
    BY CongestionAssumption
  <2>3. /\ op.port % SpBlock \in 0..(SpBlock - 1)
        /\ op.port = ((op.port \div SpBlock) * SpBlock) + (op.port % SpBlock)
    BY <2>1, <2>2, PlaceOf
  <2>4. op.port \in DOMAIN sp
    BY <2>1, <2>2 DEF QInv, AgentShape
  <2>5. Settings(op.port \div SpBlock)[op.port % SpBlock] = sp[op.port]
    BY <2>3, <2>4 DEF Settings
  <2>6. SpShown'
    BY <1>1, <2>1, <2>5 DEF agent, SpShown
  <2>7. QED
    BY <1>1, <2>6 DEF QuerySoFar, CtShown, AttrShown
<1>4. QED
  BY <1>1, <1>2, <1>3 DEF QInv, QuerySoFar

LEMMA QueryNodeInfo ==
  ASSUME QInv, NodeInfoAnswered
  PROVE  QInv'
<1>1. /\ step = "nodeinfo" /\ step' \in {"done", "get"}
      /\ step' = "get" => ~(op.port > NumPorts)
      /\ UNCHANGED <<op, block, buf, shown, agent, tool>>
  BY DEF NodeInfoAnswered, Answered
<1>2. AgentShape' /\ OpFits'
  BY <1>1 DEF agent, QInv, AgentShape, OpFits
<1>3. ASSUME tool = "ibccquery" PROVE QuerySoFar'
  <2>1. CASE op.kind = "SpGet"
    <3>1. op.port \in Nat /\ shown = {} /\ block = 0
      BY <1>1, <1>3, <2>1 DEF QInv, QuerySoFar, SpShown
    <3>2. step' = "get" => op.port <= NumPorts
      BY <1>1, <3>1, CongestionAssumption
    <3>3. 0 \in 0..LastSpBlock
      BY CongestionAssumption, PlaceOf DEF LastSpBlock
    <3>4. FirstOf(sp', 0 * SpBlock) = {}
      BY CongestionAssumption DEF FirstOf
    <3>5. SpShown'
      BY <1>1, <3>1, <3>2, <3>3, <3>4 DEF SpShown
    <3>6. QED
      BY <1>1, <2>1, <3>5 DEF QuerySoFar, CtShown, AttrShown
  <2>2. CASE op.kind = "CtGet"
    BY <1>1, <1>3, <2>2 DEF QInv, QuerySoFar, CtShown
  <2>3. CASE op.kind = "Get"
    BY <1>1, <1>3, <2>3 DEF agent, QInv, QuerySoFar, SpShown, CtShown, AttrShown
  <2>4. CASE op.kind = "none"
    BY <1>1, <1>3, <2>4 DEF QInv, QuerySoFar
  <2>5. QED
    BY <1>3, <2>1, <2>2, <2>3, <2>4 DEF QInv, QuerySoFar
<1>4. QED
  BY <1>1, <1>2, <1>3 DEF QInv, QuerySoFar

LEMMA QueryStep ==
  ASSUME QInv, [Next]_vars
  PROVE  QInv'
<1>1. ASSUME NEW t \in Tools, NEW given \in BOOLEAN, NEW n \in Destinations(t),
             CcStart(t, n, given)
      PROVE  QInv'
  BY <1>1, QueryStart
<1>2. CASE (Setup \/ Redirected \/ RedirectRefused \/ Environment) /\ UNCHANGED <<tooling, agent>>
  <2>1. UNCHANGED tool
    BY <1>2 DEF Setup, Resolve, ResolveSm, ResolvePath, ResolveFails, Redirected,
                RedirectRefused, CallFails, Environment, HandOver, TellSmLid, run
  <2>2. QED
    BY <1>2, <2>1, QueryIdle
<1>3. CASE CcNext
  <2>1. CASE CcAsk \/ Done
    BY <2>1, QueryIdle DEF CcAsk, Done, Ask, Finish
  <2>2. CASE NodeInfoAnswered
    BY <2>2, QueryNodeInfo
  <2>3. CASE SpReadAnswered
    <3>1. op.kind = "SpSet" /\ UNCHANGED <<tool, op, agent>>
      BY <2>3 DEF SpReadAnswered, Answered
    <3>2. tool # "ibccquery"
      BY <3>1 DEF QInv, QuerySoFar
    <3>3. QED
      BY <3>1, <3>2 DEF agent, QInv, AgentShape, OpFits, QuerySoFar
  <2>4. CASE PortAnswered
    BY <2>4, QueryPort
  <2>5. CASE BlockAnswered
    BY <2>5, QueryBlock
  <2>6. CASE EntriesAnswered
    BY <2>6, QueryEntries
  <2>7. CASE AttrAnswered
    <3>1. /\ op.kind = "Get" /\ step' = "done" /\ shown' = {<<op.attr, attr[op.attr]>>}
          /\ UNCHANGED <<tool, op, agent>>
      BY <2>7 DEF AttrAnswered, Answered
    <3>2. QED
      BY <3>1 DEF agent, QInv, AgentShape, OpFits, QuerySoFar, SpShown, CtShown, AttrShown
  <2>8. CASE SetAnswered
    <3>1. UNCHANGED <<tool, op>> /\ CarriedOut
      BY <2>8 DEF SetAnswered, Answered
    <3>2. QED
      BY <3>1, CarriedOutShape DEF QInv, OpFits, QuerySoFar
  <2>9. CASE CcNotAnswered
    <3>1. UNCHANGED <<tool, tooling>> /\ (UNCHANGED agent \/ CarriedOut)
      BY <2>9 DEF CcNotAnswered, NotAnswered, CallFails
    <3>2. CASE UNCHANGED agent
      BY <3>1, <3>2, QueryIdle
    <3>3. CASE CarriedOut
      BY <3>1, <3>3, CarriedOutShape DEF tooling, QInv, OpFits, QuerySoFar
    <3>4. QED
      BY <3>1, <3>2, <3>3
  <2>10. QED
    BY <1>3, <2>1, <2>2, <2>3, <2>4, <2>5, <2>6, <2>7, <2>8, <2>9 DEF CcNext
<1>4. CASE FreeNext
  <2>1. UNCHANGED <<tool, tooling, agent>>
    BY <1>4 DEF FreeNext, Ask, AskRefused, CallFails, Answered, NotAnswered, NextPort, Finish
  <2>2. QED
    BY <2>1, QueryIdle
<1>5. CASE UNCHANGED vars
  BY <1>5, QueryIdle DEF vars, session, run
<1>6. QED
  BY <1>1, <1>2, <1>3, <1>4, <1>5 DEF Next

LEMMA QueryInit == InitCc => QInv
<1> SUFFICES ASSUME InitCc PROVE QInv
  OBVIOUS
<1>1. op = NoOp /\ op.kind = "none" /\ step = "done" /\ shown = {}
  BY DEF InitCc, NoOp
<1>2. AgentShape
  BY CongestionAssumption DEF InitCc, AgentShape
<1>3. QED
  BY <1>1, <1>2 DEF QInv, OpFits, QuerySoFar, SpShown, CtShown, AttrShown

LEMMA QueryShows == QInv => ShownIsSet
<1> SUFFICES ASSUME QInv, tool = "ibccquery", step = "done", shown # {}
             PROVE  ShownIsSet
  BY DEF ShownIsSet
<1>1. NumPorts \in Nat /\ limit \in Nat
  BY CongestionAssumption DEF QInv, AgentShape
<1>2. FirstOf(sp, NumPorts + 1) = {<<p, sp[p]>> : p \in DOMAIN sp}
  <2>1. DOMAIN sp = 0..NumPorts /\ {j \in Nat : j < NumPorts + 1} = 0..NumPorts
    BY <1>1 DEF QInv, AgentShape
  <2>2. QED
    BY <2>1 DEF FirstOf
<1>3. FirstOf(table, limit + 1) = {<<i, table[i]>> : i \in 0..limit}
  <2>1. {j \in Nat : j < limit + 1} = 0..limit
    BY <1>1
  <2>2. QED
    BY <2>1 DEF FirstOf
<1>4. /\ op.kind \in {"SpGet", "CtGet", "Get"}
      /\ op.kind = "SpGet" /\ op.port # 0 => shown = {<<op.port, sp[op.port]>>}
      /\ op.kind = "SpGet" /\ op.port = 0 => shown = FirstOf(sp, NumPorts + 1)
      /\ op.kind = "CtGet" => shown = FirstOf(table, limit + 1)
      /\ op.kind = "Get" => shown = {<<op.attr, attr[op.attr]>>}
  BY DEF QInv, QuerySoFar, SpShown, CtShown, AttrShown
<1>5. QED
  BY <1>2, <1>3, <1>4 DEF ShownIsSet

\* Whatever a query that ends has printed is what the agent has for every port, or
\* for every entry up to the limit, for blocks of any size and with a last block that
\* is full, begun or empty but for one (ibccquery.c:236-262, 307-338).
THEOREM QueriesAreTrue == Spec => []ShownIsSet
<1>1. InitCc => QInv
  BY QueryInit
<1>2. QInv /\ [Next]_vars => QInv'
  BY QueryStep
<1>3. QInv => ShownIsSet
  BY QueryShows
<1>4. QED
  BY <1>1, <1>2, <1>3, PTL DEF Spec

------------------------------------------------------------------------------
(* The portid of a run (ToolSession). *)

Hows == {"lid", "guid", "gid", "self", "sm", "fabric", "drpath", "drslid"}
ByRoute == {"drpath", "drslid"}

\* The tools whose calls follow a redirection, and those with calls that keep to it.
Redirectable == {"perfquery", "ibqueryerrors", "ibccquery", "ibccconfig", "client"}
Counting == {"perfquery", "ibqueryerrors"}

PortIds == [lid : Int, qp : Nat, qkey : Nat, sl : Nat,
            drslid : 0..Permissive, drdlid : 0..Permissive, path : Seq(Nat)]

SessionShape ==
  /\ tool \in Tools
  /\ named \in [how : Hows, target : Ports, from : Ports, route : Seq(Nat)]
  /\ phase \in {"resolve", "path", "ready", "ended"}
  /\ phase # "ended" => named.how \in HowsOf(tool)
  /\ portid \in PortIds
  /\ told \in {NotTold, ByGid} \cup Redirections
  /\ smpSince \in BOOLEAN
  /\ master \in Ports /\ \E p \in Ports : smLid = LidOf[p]

\* What a step of a run finds before it is ready, and while it waits for an answer.
SessionPhase ==
  /\ asking # "none" => phase = "ready" /\ asking \in ClassesOf(tool) /\ answer = NoAnswer
  /\ phase \in {"resolve", "path"} =>
       portid = Zeroed /\ told = NotTold /\ answer = NoAnswer /\ asking = "none" /\ ~smpSince
  /\ phase = "path" => named.how \in {"guid", "gid"}

\* The user named a port, or a route to it.
Destined ==
  /\ named.how \in ByRoute =>
       named.route \in Routes /\ Leads[named.from, named.route] = named.target
  /\ named.how = "drpath" => named.from = Local
  /\ named.how = "self" => named.target = Local

NamedLid ==
  CASE named.how = "drpath" -> 0
    [] named.how = "drslid" -> LidOf[named.from]
    [] OTHER -> LidOf[named.target]

\* Where the calls of a run go: to the port it named or was redirected to.
Addressed ==
  phase = "ready" =>
    /\ told = NotTold => portid.lid = NamedLid
    /\ told = ByGid => portid.lid = 0 /\ tool = "ibqueryerrors"
    /\ told \in Redirections => portid.lid = LidOf[told.to]
    /\ told # NotTold => tool \in Redirectable
    /\ named.how \notin ByRoute => portid.drslid = 0 /\ portid.drdlid = 0
    /\ named.how \in ByRoute =>
         /\ portid.path = named.route /\ portid.drdlid = Permissive
         /\ portid.drslid = IF named.how = "drslid" THEN LidOf[Local] ELSE Permissive

\* At which QP and with which key.
Keyed ==
  phase = "ready" =>
    /\ told = NotTold => portid.qp \in {0, 1} /\ portid.qkey \in {0, 1}
    /\ told \in Redirections => portid.qp \in {0, 1, told.qp} /\ portid.qkey = told.qkey
    /\ asking \notin {"none", "smp"} => portid.qp # 0 /\ portid.qkey # 0

\* Counters are asked for along the path that was resolved or told, until an SMP
\* is sent.
CountedAt ==
  phase = "ready" /\ tool \in Counting /\ ~smpSince =>
    /\ told = NotTold /\ named.how \notin {"fabric", "self"} =>
         portid.sl = IF named.how = "guid" THEN PathSl[named.target] ELSE 0
    /\ told \in Redirections =>
         /\ portid.qp = told.qp /\ told = Agent[named.target]
         /\ tool # "ibqueryerrors" => portid.sl = told.sl

RInv == SessionShape /\ SessionPhase /\ Destined /\ Addressed /\ Keyed /\ CountedAt

------------------------------------------------------------------------------
(* Addresses. *)

LEMMA PermissiveIs == Permissive \in Nat /\ Permissive > 1
BY SMT DEF Permissive

LEMMA SessionFacts ==
  /\ NoPort \notin Ports /\ Local \in Ports /\ Managers \subseteq Ports
  /\ \A p \in Ports : LidOf[p] \in 1..(Permissive - 1)
  /\ \A p, q \in Ports : LidOf[p] = LidOf[q] => p = q
  /\ \A r \in Routes : r \in Seq(Nat)
  /\ \A p \in Ports : PathSl[p] \in Nat
  /\ \A p \in Ports : Agent[p] \in {Here(p), ByGid} \cup Redirections
BY SessionAssumption

LEMMA PortAtLid ==
  /\ \A p \in Ports : PortAt(LidOf[p]) = p
  /\ PortAt(0) = NoPort
<1>1. ASSUME NEW p \in Ports PROVE PortAt(LidOf[p]) = p
  BY SessionFacts DEF PortAt
<1>2. PortAt(0) = NoPort
  BY SessionFacts DEF PortAt
<1>3. QED
  BY <1>1, <1>2

\* The three kinds of agents are told apart.
LEMMA AgentKinds ==
  /\ NotTold \notin Redirections /\ ByGid \notin Redirections /\ NotTold # ByGid
  /\ \A p \in Ports : Here(p) \notin Redirections
  /\ \A t \in Redirections : t.to \in Ports /\ t.qp \in Nat \ {0, 1} /\ t.qkey \in Nat \ {0, 1}
BY SessionFacts DEF NotTold, ByGid, Here, Redirections, DefaultKey

LEMMA KnownRun ==
  ASSUME SessionShape
  PROVE  /\ phase # "ended" => named.how \in HowsOf(tool)
         /\ tool \in KnownTools
         /\ named.how \in ByRoute /\ phase # "ended" => tool = "smpquery"
         /\ tool = "saquery" /\ phase # "ended" => named.how = "sm"
         /\ ClassesOf(tool) \subseteq {"smp", "pma", "sa", "vendor", "bm", "cc"}
         /\ tool \in Counting <=> "pma" \in ClassesOf(tool)
         /\ tool = "smpquery" => ClassesOf(tool) = {"smp"}
         /\ tool = "ibqueryerrors" => ClassesOf(tool) = {"pma"}
         /\ ClassesOf(tool) \cap {"pma", "cc", "bm"} # {} => tool \in Redirectable
         /\ "sa" \in ClassesOf(tool) => tool = "saquery"
<1>1. tool \in KnownTools
  BY SessionAssumption DEF SessionShape
<1>2. QED
  BY <1>1 DEF SessionShape, HowsOf, ClassesOf, KnownTools, ByRoute, Counting, Redirectable

\* What a call makes of the portid.
LEMMA PreparedShape ==
  ASSUME NEW c \in {"smp", "pma", "sa", "vendor", "bm", "cc"}, NEW p \in PortIds
  PROVE  /\ Prepared(c, p) \in PortIds
         /\ Prepared(c, p).lid = p.lid /\ Prepared(c, p).path = p.path
         /\ Prepared(c, p).drslid = p.drslid /\ Prepared(c, p).drdlid = p.drdlid
         /\ c = "smp" => Prepared(c, p).qp = 0 /\ Prepared(c, p).qkey = p.qkey
         /\ c # "smp" => /\ Prepared(c, p).qp = IF c = "pma" /\ p.qp # 0 THEN p.qp ELSE 1
                         /\ Prepared(c, p).qkey = IF p.qkey = 0 THEN 1 ELSE p.qkey
                         /\ Prepared(c, p).sl = p.sl
<1>1. CASE c = "smp"
  BY <1>1 DEF Prepared, SmpCall, PortIds
<1>2. CASE c = "pma"
  BY <1>2 DEF Prepared, PmaCall, WithKey, PortIds, DefaultKey
<1>3. CASE c = "sa"
  BY <1>3 DEF Prepared, SaCall, WithKey, PortIds, DefaultKey
<1>4. CASE c = "vendor"
  BY <1>4 DEF Prepared, VendorCall, WithKey, PortIds, DefaultKey
<1>5. CASE c = "bm"
  BY <1>5 DEF Prepared, BmCall, WithKey, PortIds, DefaultKey
<1>6. CASE c = "cc"
  BY <1>6 DEF Prepared, CcCall, WithKey, PortIds, DefaultKey
<1>7. QED
  BY <1>1, <1>2, <1>3, <1>4, <1>5, <1>6

\* Where the MADs of a call go by LID.
LEMMA ReachedByLid ==
  ASSUME NEW c, NEW p \in PortIds, NEW q \in Ports, p.lid = LidOf[q],
         c # "smp" \/ (p.drslid = 0 /\ p.drdlid = 0)
  PROVE  Reached(c, p) = q
<1>1. p.lid \in 1..(Permissive - 1) /\ PortAt(p.lid) = q
  BY SessionFacts, PortAtLid
<1>2. ~(c = "smp" /\ SmpIsDirect(p))
  BY <1>1, PermissiveIs DEF SmpIsDirect
<1>3. SentTo(c, p) = p.lid /\ p.lid # Permissive
  BY <1>1, <1>2, PermissiveIs DEF SentTo
<1>4. QED
  BY <1>1, <1>2, <1>3 DEF Reached

LEMMA ReachedNowhere ==
  ASSUME NEW c, c # "smp", NEW p \in PortIds, p.lid = 0
  PROVE  Reached(c, p) = NoPort
BY PortAtLid, PermissiveIs DEF SentTo, Reached

\* A call goes to the port the run was redirected to ...
LEMMA ReachedTold ==
  ASSUME RInv, phase = "ready", NEW c \in ClassesOf(tool), told \in Redirections
  PROVE  Reached(c, portid) = told.to
<1>1. portid \in PortIds /\ portid.lid = LidOf[told.to] /\ told.to \in Ports
  BY AgentKinds DEF RInv, SessionShape, Addressed
<1>2. tool \in Redirectable
  BY AgentKinds DEF RInv, Addressed
<1>3. named.how \notin ByRoute
  BY <1>2, KnownRun DEF RInv, Redirectable
<1>4. portid.drslid = 0 /\ portid.drdlid = 0
  BY <1>3 DEF RInv, Addressed
<1>5. QED
  BY <1>1, <1>4, ReachedByLid

\* ... and otherwise to the port that was named, by LID or along the route.
LEMMA ReachedNamed ==
  ASSUME RInv, phase = "ready", NEW c \in ClassesOf(tool), told = NotTold
  PROVE  Reached(c, portid) = named.target
<1>1. /\ portid \in PortIds /\ portid.lid = NamedLid
      /\ named.target \in Ports /\ named.from \in Ports /\ named.how \in Hows
  BY DEF RInv, SessionShape, Addressed
<1>2. CASE named.how \notin ByRoute
  <2>1. portid.lid = LidOf[named.target] /\ portid.drslid = 0 /\ portid.drdlid = 0
    BY <1>1, <1>2 DEF RInv, Addressed, NamedLid, ByRoute
  <2>2. QED
    BY <1>1, <2>1, ReachedByLid
<1>3. CASE named.how \in ByRoute
  <2>1. c = "smp"
    BY <1>3, KnownRun DEF RInv
  <2>2. /\ portid.path = named.route /\ portid.drdlid = Permissive
        /\ portid.drslid = IF named.how = "drslid" THEN LidOf[Local] ELSE Permissive
    BY <1>3 DEF RInv, Addressed
  <2>7. Leads[named.from, portid.path] = named.target
    BY <1>3, <2>2 DEF RInv, Destined
  <2>3. SmpIsDirect(portid)
    BY <2>2 DEF SmpIsDirect
  <2>4. CASE named.how = "drpath"
    <3>1. named.from = Local /\ SentTo(c, portid) = Permissive
      BY <2>1, <2>2, <2>3, <2>4 DEF RInv, Destined, SentTo
    <3>2. QED
      BY <2>1, <2>2, <2>3, <2>7, <3>1, SessionFacts DEF Reached
  <2>5. CASE named.how = "drslid"
    <3>1. portid.lid = LidOf[named.from]
      BY <1>1, <2>5 DEF NamedLid
    <3>2. portid.lid \in 1..(Permissive - 1) /\ PortAt(portid.lid) = named.from
      BY <1>1, <3>1, SessionFacts, PortAtLid
    <3>3. portid.drslid # Permissive
      BY <2>2, <2>5, SessionFacts, PermissiveIs
    <3>4. SentTo(c, portid) = portid.lid /\ portid.lid # Permissive
      BY <3>2, <3>3, PermissiveIs DEF SentTo
    <3>5. QED
      BY <1>1, <2>1, <2>2, <2>3, <2>7, <3>2, <3>4, SessionFacts DEF Reached
  <2>6. QED
    BY <1>3, <2>4, <2>5 DEF ByRoute
<1>4. QED
  BY <1>2, <1>3

\* The port that redirects a call has an agent elsewhere, and was asked at QP 1.
LEMMA RedirectorIs ==
  ASSUME RInv, asking \in {"pma", "cc", "bm"}, Redirector(asking, portid) # NoPort
  PROVE  /\ Redirector(asking, portid) = Reached(asking, portid) /\ portid.qp = 1
         /\ Redirector(asking, portid) \in Ports /\ told # ByGid
         /\ told = NotTold => Redirector(asking, portid) = named.target
         /\ told \in Redirections => Redirector(asking, portid) = told.to
         /\ Agent[Redirector(asking, portid)] \in {ByGid} \cup Redirections
         /\ phase = "ready" /\ tool \in Redirectable /\ asking \in ClassesOf(tool)
<1> DEFINE r == Reached(asking, portid)
<1>1. Redirector(asking, portid) = r /\ portid.qp = 1 /\ r # NoPort /\ Agent[r] # Here(r)
  BY DEF Redirector
<1>2. /\ phase = "ready" /\ asking \in ClassesOf(tool) /\ portid \in PortIds
      /\ told \in {NotTold, ByGid} \cup Redirections /\ named.target \in Ports
  BY DEF RInv, SessionPhase, SessionShape
<1>3. told # ByGid
  <2> SUFFICES ASSUME told = ByGid PROVE FALSE
    OBVIOUS
  <2>1. portid.lid = 0
    BY <1>2 DEF RInv, Addressed
  <2>2. QED
    BY <1>1, <1>2, <2>1, ReachedNowhere
<1>4. told = NotTold => r = named.target
  BY <1>2, ReachedNamed
<1>5. told \in Redirections => r = told.to
  BY <1>2, ReachedTold
<1>6. r \in Ports
  BY <1>2, <1>3, <1>4, <1>5, AgentKinds
<1>7. tool \in Redirectable
  BY <1>2, KnownRun DEF RInv
<1>8. QED
  BY <1>1, <1>2, <1>3, <1>4, <1>5, <1>6, <1>7, SessionFacts

------------------------------------------------------------------------------
(* The steps of a run. *)

LEMMA RunInit == InitCc => RInv
<1> SUFFICES ASSUME InitCc PROVE RInv
  OBVIOUS
<1>1. /\ tool \in Tools /\ phase = "ended" /\ portid = Zeroed /\ asking = "none"
      /\ told = NotTold /\ smpSince = FALSE /\ master \in Managers /\ smLid = LidOf[master]
      /\ named = [how |-> "self", target |-> Local, from |-> Local, route |-> <<>>]
  BY DEF InitCc, Init
<1>2. <<>> \in Seq(Nat)
  OBVIOUS
<1>3. Zeroed \in PortIds
  BY <1>2, PermissiveIs DEF Zeroed, PortIds
<1>4. SessionShape
  BY <1>1, <1>2, <1>3, SessionFacts DEF SessionShape, Hows
<1>5. QED
  BY <1>1, <1>4 DEF RInv, SessionPhase, Destined, Addressed, Keyed, CountedAt, ByRoute

LEMMA RunStart ==
  ASSUME RInv, NEW t \in Tools, NEW n \in Destinations(t), NEW given, Start(t, n, given)
  PROVE  RInv'
<1>1. /\ tool' = t /\ named' = n /\ phase' = "resolve" /\ portid' = Zeroed /\ asking' = "none"
      /\ answer' = NoAnswer /\ told' = NotTold /\ smpSince' = FALSE
      /\ UNCHANGED <<master, smLid>>
  BY DEF Start, Started, subnet
<1>2. t \in KnownTools
  BY SessionAssumption
<1>3. HowsOf(t) \subseteq Hows
  BY <1>2 DEF HowsOf, Hows, KnownTools
<1>4. /\ n \in [how : HowsOf(t), target : Ports, from : Ports, route : Routes]
      /\ IF n.how \in ByRoute
         THEN Leads[n.from, n.route] = n.target /\ (n.how = "drpath" => n.from = Local)
         ELSE n.how \in {"self", "sm"} => n.target = Local
  BY DEF Destinations, ByRoute
<1>5. n \in [how : Hows, target : Ports, from : Ports, route : Seq(Nat)]
  BY <1>3, <1>4, SessionFacts
<1>6. Zeroed \in PortIds
  BY PermissiveIs DEF Zeroed, PortIds
<1>7. SessionShape'
  BY <1>1, <1>4, <1>5, <1>6 DEF RInv, SessionShape
<1>8. Destined'
  BY <1>1, <1>4 DEF Destined, ByRoute
<1>9. QED
  BY <1>1, <1>7, <1>8 DEF RInv, SessionPhase, Addressed, Keyed, CountedAt

\* A portid of a route.
LEMMA RoutedIs ==
  ASSUME NEW p \in PortIds, NEW route \in Seq(Nat), NEW drslid \in 0..Permissive,
         NEW r, r = Routed(p, route, drslid, 0)
  PROVE  /\ r \in PortIds
         /\ r.lid = p.lid /\ r.qp = p.qp /\ r.qkey = p.qkey /\ r.sl = p.sl
         /\ r.path = route /\ r.drdlid = Permissive
         /\ r.drslid = IF drslid # 0 THEN drslid ELSE Permissive
<1> DEFINE d == IF drslid # 0 THEN drslid ELSE Permissive
<1>1. d \in 0..Permissive /\ Permissive \in 0..Permissive
  BY PermissiveIs
<1> HIDE DEF d
<1>2. r = [p EXCEPT !.path = route, !.drslid = d, !.drdlid = Permissive]
  BY DEF Routed, d
<1>3. /\ r \in PortIds
      /\ r.lid = p.lid /\ r.qp = p.qp /\ r.qkey = p.qkey /\ r.sl = p.sl
      /\ r.path = route /\ r.drdlid = Permissive /\ r.drslid = d
  BY <1>1, <1>2 DEF PortIds
<1>4. QED
  BY <1>3 DEF d

\* A portid of a LID.
LEMMA ByLidIs ==
  ASSUME NEW l \in Int, NEW sl \in Nat, NEW r,
         (r = ByLid(l) /\ sl = 0) \/ r = [ByLid(l) EXCEPT !.sl = sl]
  PROVE  /\ r \in PortIds
         /\ r.lid = l /\ r.qp = 0 /\ r.qkey = 0 /\ r.sl = sl /\ r.drslid = 0 /\ r.drdlid = 0
<1>1. ByLid(l)
        = [lid |-> l, qp |-> 0, qkey |-> 0, sl |-> 0, drslid |-> 0, drdlid |-> 0, path |-> <<>>]
  BY DEF ByLid, Zeroed
<1>2. r = [lid |-> l, qp |-> 0, qkey |-> 0, sl |-> sl, drslid |-> 0, drdlid |-> 0, path |-> <<>>]
  BY <1>1
<1>3. <<>> \in Seq(Nat) /\ 0 \in 0..Permissive
  BY PermissiveIs
<1>4. QED
  BY <1>2, <1>3 DEF PortIds

LEMMA RunResolve ==
  ASSUME RInv, Resolve
  PROVE  RInv'
<1>1. /\ phase = "resolve" /\ phase' = "ready" /\ named.how \notin {"guid", "gid"}
      /\ portid' = Direct(named)
      /\ named' = IF named.how = "sm" THEN [named EXCEPT !.target = PortAt(smLid)] ELSE named
      /\ UNCHANGED <<tool, smId, asking, answer, told, smpSince, master, smLid>>
  BY DEF Resolve, subnet
<1>2. /\ told = NotTold /\ asking = "none" /\ ~smpSince
      /\ named \in [how : Hows, target : Ports, from : Ports, route : Seq(Nat)]
      /\ named.how \in HowsOf(tool)
  BY <1>1 DEF RInv, SessionPhase, SessionShape
<1>3. PICK m \in Ports : smLid = LidOf[m]
  BY DEF RInv, SessionShape
<1>4. PortAt(smLid) = m /\ SmSl \in Nat /\ smLid \in 1..(Permissive - 1)
  BY <1>3, PortAtLid, SessionFacts DEF SmSl
<1>5. /\ named' \in [how : Hows, target : Ports, from : Ports, route : Seq(Nat)]
      /\ named'.how = named.how /\ named'.from = named.from /\ named'.route = named.route
      /\ named.how = "sm" => named'.target = m
      /\ named.how # "sm" => named'.target = named.target
  BY <1>1, <1>2, <1>4
<1>6. Zeroed \in PortIds /\ \A l \in Int : ByLid(l) = [Zeroed EXCEPT !.lid = l]
  BY PermissiveIs DEF Zeroed, PortIds, ByLid
<1>7. /\ portid' \in PortIds
      /\ portid'.lid = NamedLid' /\ portid'.qp = 0 /\ portid'.qkey = 0
      /\ named.how \notin ByRoute => portid'.drslid = 0 /\ portid'.drdlid = 0
      /\ named.how \in ByRoute =>
           /\ portid'.path = named.route /\ portid'.drdlid = Permissive
           /\ portid'.drslid = IF named.how = "drslid" THEN LidOf[Local] ELSE Permissive
      /\ named.how \notin {"fabric", "self", "sm"} => portid'.sl = 0
  <2> DEFINE z == [lid |-> LidOf[named.from], qp |-> 0, qkey |-> 0, sl |-> 0, drslid |-> 0,
                   drdlid |-> 0, path |-> <<>>]
  <2>3. CASE named.how \in {"lid", "fabric"}
    <3>1. portid' = ByLid(LidOf[named.target])
      BY <1>1, <2>3 DEF Direct
    <3>2. LidOf[named.target] \in Int
      BY <1>2, SessionFacts
    <3>3. /\ portid' \in PortIds /\ portid'.lid = LidOf[named.target]
          /\ portid'.qp = 0 /\ portid'.qkey = 0 /\ portid'.sl = 0
          /\ portid'.drslid = 0 /\ portid'.drdlid = 0
      BY <3>1, <3>2, ByLidIs
    <3>4. QED
      BY <1>5, <2>3, <3>3 DEF NamedLid, ByRoute
  <2>4. CASE named.how = "self"
    <3>1. portid' = [ByLid(LidOf[Local]) EXCEPT !.sl = SmSl] /\ named.target = Local
      BY <1>1, <2>4 DEF Direct, RInv, Destined
    <3>2. LidOf[Local] \in Int
      BY SessionFacts
    <3>3. /\ portid' \in PortIds /\ portid'.lid = LidOf[Local]
          /\ portid'.qp = 0 /\ portid'.qkey = 0
          /\ portid'.drslid = 0 /\ portid'.drdlid = 0
      BY <1>4, <3>1, <3>2, ByLidIs
    <3>4. QED
      BY <1>5, <2>4, <3>1, <3>3 DEF NamedLid, ByRoute
  <2>5. CASE named.how = "sm"
    <3>1. portid' = [ByLid(smLid) EXCEPT !.sl = SmSl]
      BY <1>1, <2>5 DEF Direct
    <3>2. smLid \in Int
      BY <1>4
    <3>3. /\ portid' \in PortIds /\ portid'.lid = smLid
          /\ portid'.qp = 0 /\ portid'.qkey = 0
          /\ portid'.drslid = 0 /\ portid'.drdlid = 0
      BY <1>4, <3>1, <3>2, ByLidIs
    <3>4. QED
      BY <1>3, <1>5, <2>5, <3>3 DEF NamedLid, ByRoute
  <2>6. CASE named.how = "drpath"
    <3>1. portid' = Routed(Zeroed, named.route, 0, 0)
      BY <1>1, <2>6 DEF Direct
    <3>2. 0 \in 0..Permissive /\ named.route \in Seq(Nat)
      BY <1>2, PermissiveIs
    <3>3. /\ portid' \in PortIds
          /\ portid'.lid = Zeroed.lid /\ portid'.qp = Zeroed.qp
          /\ portid'.qkey = Zeroed.qkey /\ portid'.sl = Zeroed.sl
          /\ portid'.path = named.route /\ portid'.drdlid = Permissive
          /\ portid'.drslid = Permissive
      BY <1>6, <3>1, <3>2, RoutedIs
    <3>4. QED
      BY <1>5, <2>6, <3>3 DEF NamedLid, ByRoute, Zeroed
  <2>7. CASE named.how = "drslid"
    <3>1. portid' = Routed(z, named.route, LidOf[Local], 0)
      BY <1>1, <2>7 DEF Direct, ByDrSlid, Zeroed
    <3>2. z \in PortIds /\ LidOf[Local] \in 1..(Permissive - 1)
      BY <1>2, SessionFacts, PermissiveIs DEF PortIds
    <3>3. LidOf[Local] \in 0..Permissive /\ LidOf[Local] # 0
      BY <3>2, PermissiveIs
    <3> HIDE DEF z
    <3>4. /\ portid' \in PortIds
          /\ portid'.lid = z.lid /\ portid'.qp = z.qp /\ portid'.qkey = z.qkey /\ portid'.sl = z.sl
          /\ portid'.path = named.route /\ portid'.drdlid = Permissive
          /\ portid'.drslid = LidOf[Local]
      BY <1>2, <3>1, <3>2, <3>3, RoutedIs
    <3>5. QED
      BY <1>5, <2>7, <3>4 DEF NamedLid, ByRoute, z
  <2>8. QED
    BY <1>1, <1>2, <2>3, <2>4, <2>5, <2>6, <2>7 DEF Hows
<1>8. SessionShape'
  BY <1>1, <1>2, <1>5, <1>7 DEF RInv, SessionShape
<1>9. Destined'
  BY <1>5 DEF RInv, Destined, ByRoute
<1>10. tool \in Counting => named.how # "sm"
  BY <1>2, KnownRun DEF RInv, HowsOf, Counting
<1>11. QED
  BY <1>1, <1>2, <1>5, <1>7, <1>8, <1>9, <1>10, AgentKinds
     DEF RInv, SessionPhase, Addressed, Keyed, CountedAt

LEMMA RunResolveSm ==
  ASSUME RInv, ResolveSm
  PROVE  RInv'
<1>1. /\ phase = "resolve" /\ phase' = "path" /\ named.how \in {"guid", "gid"}
      /\ UNCHANGED <<tool, named, portid, asking, answer, told, smpSince, master, smLid>>
  BY DEF ResolveSm, subnet
<1>2. SessionShape' /\ SessionPhase' /\ Destined'
  BY <1>1 DEF RInv, SessionShape, SessionPhase, Destined
<1>3. QED
  BY <1>1, <1>2 DEF RInv, Addressed, Keyed, CountedAt

LEMMA RunResolvePath ==
  ASSUME RInv, ResolvePath
  PROVE  RInv'
<1>1. /\ phase = "path" /\ phase' = "ready"
      /\ portid' = [Zeroed EXCEPT !.lid = LidOf[named.target],
                                  !.sl = IF named.how = "guid" THEN PathSl[named.target] ELSE 0]
      /\ UNCHANGED <<tool, named, asking, answer, told, smpSince, master, smLid>>
  BY DEF ResolvePath, subnet
<1>2. /\ named.target \in Ports /\ named.how \in {"guid", "gid"} /\ told = NotTold
      /\ asking = "none" /\ ~smpSince
  BY <1>1 DEF RInv, SessionShape, SessionPhase
<1> DEFINE sl == IF named.how = "guid" THEN PathSl[named.target] ELSE 0
           l == LidOf[named.target]
<1>3. sl \in Nat /\ l \in Int
  BY <1>2, SessionFacts
<1>4. portid' = [Zeroed EXCEPT !.lid = l, !.sl = sl]
  BY <1>1
<1> HIDE DEF sl, l
<1>5. portid' = [lid |-> l, qp |-> 0, qkey |-> 0, sl |-> sl, drslid |-> 0, drdlid |-> 0,
                 path |-> <<>>]
  BY <1>4 DEF Zeroed
<1>6. portid' \in PortIds
  <2>1. <<>> \in Seq(Nat) /\ 0 \in 0..Permissive
    BY PermissiveIs
  <2>2. QED
    BY <1>3, <1>5, <2>1 DEF PortIds
<1>7. SessionShape' /\ SessionPhase' /\ Destined'
  BY <1>1, <1>2, <1>6 DEF RInv, SessionShape, SessionPhase, Destined
<1>8. Addressed' /\ Keyed'
  <2>1. named'.how \notin ByRoute /\ told' = NotTold /\ phase' = "ready" /\ asking' = "none"
    BY <1>1, <1>2 DEF ByRoute
  <2>2. NamedLid' = l
    BY <1>1, <1>2 DEF NamedLid, l
  <2>3. /\ portid'.lid = l /\ portid'.qp = 0 /\ portid'.qkey = 0
        /\ portid'.drslid = 0 /\ portid'.drdlid = 0
    BY <1>5
  <2>4. QED
    BY <2>1, <2>2, <2>3, AgentKinds DEF Addressed, Keyed
<1>9. CountedAt'
  BY <1>1, <1>2, <1>5, AgentKinds DEF CountedAt, sl
<1>10. QED
  BY <1>7, <1>8, <1>9 DEF RInv

LEMMA RunResolveFails ==
  ASSUME RInv, ResolveFails
  PROVE  RInv'
<1>1. /\ phase \in {"resolve", "path"} /\ phase' = "ended"
      /\ portid' = [portid EXCEPT !.lid = IF phase = "path" THEN -1 ELSE @]
      /\ UNCHANGED <<tool, named, asking, answer, told, smpSince, master, smLid>>
  BY DEF ResolveFails, subnet
<1>2. portid' \in PortIds
  <2>1. portid \in PortIds /\ -1 \in Int
    BY DEF RInv, SessionShape
  <2>2. QED
    BY <1>1, <2>1 DEF PortIds
<1>3. SessionShape' /\ SessionPhase' /\ Destined'
  BY <1>1, <1>2 DEF RInv, SessionShape, SessionPhase, Destined
<1>4. QED
  BY <1>1, <1>3 DEF RInv, Addressed, Keyed, CountedAt

\* The functions of ibqueryerrors overwrite the SL, and nothing else.
LEMMA WithSlIs ==
  ASSUME RInv, NEW p \in WithSl(portid)
  PROVE  /\ p \in PortIds
         /\ p.lid = portid.lid /\ p.qp = portid.qp /\ p.qkey = portid.qkey
         /\ p.path = portid.path /\ p.drslid = portid.drslid /\ p.drdlid = portid.drdlid
         /\ tool # "ibqueryerrors" => p = portid
<1>1. portid \in PortIds
  BY DEF RInv, SessionShape
<1>2. CASE p = portid
  BY <1>1, <1>2
<1>3. CASE tool = "ibqueryerrors"
           /\ p = [portid EXCEPT !.sl = IF PortAt(portid.lid) = NoPort THEN 0
                                        ELSE PathSl[PortAt(portid.lid)]]
  <2> DEFINE sl == IF PortAt(portid.lid) = NoPort THEN 0 ELSE PathSl[PortAt(portid.lid)]
  <2>1. sl \in Nat
    BY SessionFacts DEF PortAt
  <2> HIDE DEF sl
  <2>2. p = [portid EXCEPT !.sl = sl]
    BY <1>3 DEF sl
  <2>3. QED
    BY <1>1, <1>3, <2>1, <2>2 DEF PortIds
<1>4. QED
  BY <1>2, <1>3 DEF WithSl

LEMMA RunAsk ==
  ASSUME RInv, NEW c, Ask(c)
  PROVE  RInv'
<1>1. /\ phase = "ready" /\ asking = "none" /\ c \in ClassesOf(tool) /\ asking' = c
      /\ answer' = NoAnswer /\ smpSince' = (smpSince \/ c = "smp")
      /\ UNCHANGED <<tool, named, phase, told, master, smLid>>
  BY DEF Ask, subnet
<1>2. PICK p \in WithSl(portid) : portid' = Prepared(c, p)
  BY DEF Ask
<1>3. c \in {"smp", "pma", "sa", "vendor", "bm", "cc"}
  BY <1>1, KnownRun DEF RInv
<1>4. /\ p \in PortIds
      /\ p.lid = portid.lid /\ p.qp = portid.qp /\ p.qkey = portid.qkey
      /\ p.path = portid.path /\ p.drslid = portid.drslid /\ p.drdlid = portid.drdlid
      /\ tool # "ibqueryerrors" => p = portid
  BY WithSlIs
<1>5. /\ portid' \in PortIds
      /\ portid'.lid = portid.lid /\ portid'.path = portid.path
      /\ portid'.drslid = portid.drslid /\ portid'.drdlid = portid.drdlid
      /\ c = "smp" => portid'.qp = 0 /\ portid'.qkey = portid.qkey
      /\ c # "smp" => /\ portid'.qp = IF c = "pma" /\ portid.qp # 0 THEN portid.qp ELSE 1
                      /\ portid'.qkey = IF portid.qkey = 0 THEN 1 ELSE portid.qkey
                      /\ tool # "ibqueryerrors" => portid'.sl = portid.sl
  BY <1>2, <1>3, <1>4, PreparedShape
<1>6. SessionShape' /\ SessionPhase' /\ Destined'
  BY <1>1, <1>3, <1>5 DEF RInv, SessionShape, SessionPhase, Destined
<1>7. Addressed'
  BY <1>1, <1>5 DEF RInv, Addressed, NamedLid
<1>8. Keyed'
  <2>1. told = NotTold => portid.qp \in {0, 1} /\ portid.qkey \in {0, 1}
    BY <1>1 DEF RInv, Keyed
  <2>2. told \in Redirections => portid.qp \in {0, 1, told.qp} /\ portid.qkey = told.qkey
    BY <1>1 DEF RInv, Keyed
  <2>3. told \in Redirections => told.qkey # 0
    BY AgentKinds
  <2>4. QED
    BY <1>1, <1>5, <2>1, <2>2, <2>3 DEF Keyed
<1>9. CountedAt'
  <2> SUFFICES ASSUME tool \in Counting, ~smpSince, c # "smp"
               PROVE  CountedAt'
    BY <1>1 DEF CountedAt
  <2>1. c = "pma"
    BY <1>1, <1>3 DEF ClassesOf, Counting
  <2>2. told \in Redirections => portid.qp = told.qp /\ told.qp # 0
    BY <1>1, AgentKinds DEF RInv, CountedAt
  <2>3. named.how \notin {"fabric", "self"} => tool # "ibqueryerrors"
    BY <1>1, KnownRun DEF RInv, HowsOf
  <2>4. QED
    BY <1>1, <1>5, <2>1, <2>2, <2>3 DEF RInv, CountedAt
<1>10. QED
  BY <1>6, <1>7, <1>8, <1>9 DEF RInv

\* A call that fails leaves the portid alone, but for a redirection by GID.
LEMMA RunCallFails ==
  ASSUME RInv, phase = "ready", CallFails, UNCHANGED <<portid, told>>
  PROVE  RInv'
<1>1. /\ asking' = "none" /\ phase' \in {"ready", "ended"}
      /\ UNCHANGED <<tool, named, portid, told, answer, smpSince, master, smLid>>
  BY DEF CallFails, subnet
<1>2. SessionShape' /\ SessionPhase' /\ Destined'
  BY <1>1 DEF RInv, SessionShape, SessionPhase, Destined
<1>3. Addressed' /\ Keyed' /\ CountedAt'
  BY <1>1 DEF RInv, Addressed, NamedLid, Keyed, CountedAt
<1>4. QED
  BY <1>2, <1>3 DEF RInv

LEMMA RunRedirectRefused ==
  ASSUME RInv, RedirectRefused
  PROVE  RInv'
<1>1. /\ asking \in {"pma", "cc", "bm"} /\ Redirector(asking, portid) # NoPort
      /\ portid' = [portid EXCEPT !.lid = 0] /\ told' = ByGid /\ asking' = "none"
      /\ phase' = IF GoesOn(tool) THEN "ready" ELSE "ended"
      /\ UNCHANGED <<tool, named, answer, smpSince, master, smLid>>
  BY DEF RedirectRefused, CallFails, subnet
<1>2. phase = "ready" /\ tool \in Redirectable
  BY <1>1, RedirectorIs
<1>3. portid \in PortIds
  BY DEF RInv, SessionShape
<1>4. /\ portid' \in PortIds /\ portid'.lid = 0 /\ portid'.path = portid.path
      /\ portid'.drslid = portid.drslid /\ portid'.drdlid = portid.drdlid
  BY <1>1, <1>3 DEF PortIds
<1>5. SessionShape' /\ SessionPhase' /\ Destined'
  BY <1>1, <1>2, <1>4 DEF RInv, SessionShape, SessionPhase, Destined
<1>6. Addressed'
  BY <1>1, <1>2, <1>4, AgentKinds DEF RInv, Addressed, GoesOn
<1>7. Keyed' /\ CountedAt'
  BY <1>1, AgentKinds DEF Keyed, CountedAt
<1>8. QED
  BY <1>5, <1>6, <1>7 DEF RInv

LEMMA RunAnswered ==
  ASSUME RInv, Answered
  PROVE  RInv'
<1>1. /\ asking # "none" /\ asking' = "none"
      /\ UNCHANGED <<tool, named, phase, portid, told, smpSince, master, smLid>>
  BY DEF Answered, subnet
<1>2. phase = "ready"
  BY <1>1 DEF RInv, SessionPhase
<1>3. SessionShape' /\ SessionPhase' /\ Destined'
  BY <1>1, <1>2 DEF RInv, SessionShape, SessionPhase, Destined
<1>4. Addressed' /\ Keyed' /\ CountedAt'
  BY <1>1 DEF RInv, Addressed, NamedLid, Keyed, CountedAt
<1>5. QED
  BY <1>3, <1>4 DEF RInv

\* While no SMP was sent, or only before, the port that redirects is the one that
\* was named.
LEMMA RedirectorIsNamed ==
  ASSUME RInv, asking \in {"pma", "cc", "bm"}, Redirector(asking, portid) # NoPort,
         tool \in Counting, ~(smpSince /\ Strayed)
  PROVE  Redirector(asking, portid) = named.target
<1>1. told = NotTold => Redirector(asking, portid) = named.target
  BY RedirectorIs
<1>2. ASSUME told \in Redirections
      PROVE  Redirector(asking, portid) = named.target
  <2>1. phase = "ready" /\ portid.qp = 1 /\ Redirector(asking, portid) = told.to
    BY <1>2, RedirectorIs
  <2>2. smpSince
    BY <1>2, <2>1, AgentKinds DEF RInv, CountedAt
  <2>3. told.to = named.target
    BY <1>2, <2>2, AgentKinds DEF Strayed
  <2>4. QED
    BY <2>1, <2>3
<1>3. QED
  BY <1>1, <1>2, RedirectorIs DEF RInv, SessionShape

LEMMA RunRedirected ==
  ASSUME RInv, Redirected
  PROVE  RInv'
<1> DEFINE r == Redirector(asking, portid)
<1>1. /\ asking \in {"pma", "cc", "bm"} /\ r # NoPort /\ Agent[r] # ByGid
      /\ portid' = [portid EXCEPT !.lid = LidOf[Agent[r].to], !.qp = Agent[r].qp,
                                  !.qkey = Agent[r].qkey, !.sl = Agent[r].sl]
      /\ told' = Agent[r] /\ smpSince' = (smpSince /\ Strayed)
      /\ UNCHANGED <<tool, named, phase, asking, answer, master, smLid>>
  BY DEF Redirected, subnet
<1>2. /\ r \in Ports /\ Agent[r] \in Redirections
      /\ phase = "ready" /\ tool \in Redirectable
  BY <1>1, RedirectorIs
<1>3. /\ Agent[r].to \in Ports /\ Agent[r].qp \in Nat \ {0, 1} /\ Agent[r].qkey \in Nat \ {0, 1}
      /\ Agent[r].sl \in Nat /\ LidOf[Agent[r].to] \in Int
  BY <1>2, SessionFacts DEF Redirections
<1>4. portid \in PortIds
  BY DEF RInv, SessionShape
<1> DEFINE a == Agent[r]
<1>5. /\ portid' \in PortIds /\ portid'.lid = LidOf[a.to] /\ portid'.qp = a.qp
      /\ portid'.qkey = a.qkey /\ portid'.sl = a.sl /\ portid'.path = portid.path
      /\ portid'.drslid = portid.drslid /\ portid'.drdlid = portid.drdlid
  <2> HIDE DEF r
  <2> QED
    BY <1>1, <1>3, <1>4 DEF PortIds
<1>6. tool \in Counting /\ ~smpSince' => r = named.target
  BY <1>1, RedirectorIsNamed
<1> HIDE DEF r
<1>7. SessionShape' /\ SessionPhase' /\ Destined'
  <2>1. smpSince' \in BOOLEAN
    BY <1>1 DEF RInv, SessionShape
  <2>2. QED
    BY <1>1, <1>2, <1>5, <2>1 DEF RInv, SessionShape, SessionPhase, Destined
<1>8. Addressed'
  BY <1>1, <1>2, <1>5, AgentKinds DEF RInv, Addressed
<1>9. Keyed'
  BY <1>1, <1>2, <1>3, <1>5, AgentKinds DEF Keyed
<1>10. CountedAt'
  BY <1>1, <1>2, <1>5, <1>6, AgentKinds DEF CountedAt
<1>11. QED
  BY <1>7, <1>8, <1>9, <1>10 DEF RInv

LEMMA RunNextPort ==
  ASSUME RInv, NextPort
  PROVE  RInv'
<1>1. /\ tool = "ibqueryerrors" /\ phase = "ready" /\ asking = "none"
      /\ told' = NotTold /\ answer' = NoAnswer
      /\ UNCHANGED <<tool, phase, asking, smpSince, master, smLid>>
  BY DEF NextPort, subnet
<1>2. PICK p \in Ports : /\ named' = [named EXCEPT !.target = p]
                         /\ portid' = [portid EXCEPT !.lid = LidOf[p], !.qp = 0, !.qkey = 0]
  BY DEF NextPort
<1>3. named.how = "fabric"
  BY <1>1, KnownRun DEF RInv, HowsOf
<1>4. /\ portid \in PortIds /\ LidOf[p] \in Int
      /\ named \in [how : Hows, target : Ports, from : Ports, route : Seq(Nat)]
  BY SessionFacts DEF RInv, SessionShape
<1>5. /\ named' \in [how : Hows, target : Ports, from : Ports, route : Seq(Nat)]
      /\ named'.how = "fabric" /\ named'.target = p
  BY <1>2, <1>3, <1>4
<1>6. /\ portid' \in PortIds /\ portid'.lid = LidOf[p] /\ portid'.qp = 0 /\ portid'.qkey = 0
      /\ portid'.drslid = portid.drslid /\ portid'.drdlid = portid.drdlid
  BY <1>2, <1>4 DEF PortIds
<1>7. SessionShape' /\ SessionPhase' /\ Destined'
  BY <1>1, <1>3, <1>5, <1>6 DEF RInv, SessionShape, SessionPhase, Destined, ByRoute
<1>8. Addressed' /\ Keyed' /\ CountedAt'
  BY <1>1, <1>3, <1>5, <1>6, AgentKinds
     DEF RInv, Addressed, NamedLid, ByRoute, Keyed, CountedAt
<1>9. QED
  BY <1>7, <1>8 DEF RInv

\* The end of a run, and what happens in the subnet.
LEMMA RunIdle ==
  ASSUME RInv, UNCHANGED <<tool, named, portid, asking, answer, told, smpSince>>,
         phase' = phase \/ (phase' = "ended" /\ asking = "none"),
         master' \in Ports, smLid' = smLid \/ smLid' = LidOf[master]
  PROVE  RInv'
<1>1. SessionShape' /\ SessionPhase' /\ Destined'
  BY DEF RInv, SessionShape, SessionPhase, Destined
<1>2. Addressed' /\ Keyed' /\ CountedAt'
  BY DEF RInv, Addressed, NamedLid, Keyed, CountedAt
<1>3. QED
  BY <1>1, <1>2 DEF RInv

LEMMA RunStep ==
  ASSUME RInv, [Next]_vars
  PROVE  RInv'
<1>1. ASSUME NEW t \in Tools, NEW given \in BOOLEAN, NEW n \in Destinations(t),
             CcStart(t, n, given)
      PROVE  RInv'
  BY <1>1, RunStart DEF CcStart
<1>2. CASE Setup
  BY <1>2, RunResolve, RunResolveSm, RunResolvePath, RunResolveFails DEF Setup
<1>3. CASE Redirected \/ RedirectRefused
  BY <1>3, RunRedirected, RunRedirectRefused
<1>4. CASE Environment
  <2>1. /\ UNCHANGED <<tool, named, portid, asking, answer, told, smpSince, phase>>
        /\ master' \in Ports /\ (smLid' = smLid \/ smLid' = LidOf[master])
    BY <1>4, SessionFacts DEF Environment, HandOver, TellSmLid, run, RInv, SessionShape
  <2>2. QED
    BY <2>1, RunIdle
<1>5. ASSUME NEW c, Ask(c) PROVE RInv'
  BY <1>5, RunAsk
<1>6. CASE Answered
  BY <1>6, RunAnswered
<1>7. CASE NotAnswered
  <2>1. phase = "ready"
    BY <1>7 DEF NotAnswered, RInv, SessionPhase
  <2>2. QED
    BY <1>7, <2>1, RunCallFails DEF NotAnswered
<1>8. ASSUME NEW c, AskRefused(c) PROVE RInv'
  BY <1>8, RunCallFails DEF AskRefused
<1>9. CASE NextPort
  BY <1>9, RunNextPort
<1>10. CASE Finish \/ UNCHANGED vars
  <2>1. /\ UNCHANGED <<tool, named, portid, asking, answer, told, smpSince, master, smLid>>
        /\ phase' = phase \/ (phase' = "ended" /\ asking = "none")
        /\ master' \in Ports
    BY <1>10 DEF Finish, vars, session, run, subnet, RInv, SessionShape
  <2>2. QED
    BY <2>1, RunIdle
<1>11. CASE CcNext
  <2>1. \/ CcAsk \/ Answered \/ NotAnswered \/ Finish
    BY <1>11 DEF CcNext, NodeInfoAnswered, SpReadAnswered, PortAnswered, BlockAnswered,
                 EntriesAnswered, AttrAnswered, SetAnswered, CcNotAnswered, Done
  <2>2. QED
    BY <2>1, <1>5, <1>6, <1>7, <1>10 DEF CcAsk
<1>12. CASE FreeNext
  BY <1>12, <1>5, <1>6, <1>7, <1>8, <1>9, <1>10 DEF FreeNext
<1>13. QED
  BY <1>1, <1>2, <1>3, <1>4, <1>10, <1>11, <1>12 DEF Next

LEMMA CountersAreKept == RInv => RouteIsKept
<1> SUFFICES ASSUME RInv, asking = "pma", ~smpSince, told # ByGid PROVE RouteIsKept
  BY DEF RouteIsKept
<1>1. phase = "ready" /\ asking \in ClassesOf(tool) /\ told \in {NotTold} \cup Redirections
  BY DEF RInv, SessionShape, SessionPhase
<1>2. tool \in Counting
  BY <1>1, KnownRun DEF RInv
<1>3. CASE told = NotTold
  <2>1. portid.qp = 1 /\ portid.qkey = DefaultKey
    BY <1>1, <1>3 DEF RInv, Keyed, DefaultKey
  <2>2. named.how \notin ByRoute
    BY <1>1, <1>2, KnownRun DEF RInv, Counting
  <2>3. portid.lid = LidOf[named.target]
    BY <1>1, <1>3, <2>2 DEF RInv, Addressed, NamedLid, ByRoute
  <2>4. named.how \notin {"fabric", "self"} =>
          portid.sl = IF named.how = "guid" THEN PathSl[named.target] ELSE 0
    BY <1>1, <1>2, <1>3 DEF RInv, CountedAt
  <2>5. QED
    BY <1>3, <2>1, <2>3, <2>4 DEF RouteIsKept
<1>4. CASE told \in Redirections
  <2>1. told # NotTold
    BY <1>4, AgentKinds
  <2>2. /\ portid.lid = LidOf[told.to] /\ portid.qp = told.qp /\ portid.qkey = told.qkey
        /\ tool # "ibqueryerrors" => portid.sl = told.sl
    BY <1>1, <1>2, <1>4 DEF RInv, Addressed, Keyed, CountedAt
  <2>3. QED
    BY <2>1, <2>2 DEF RouteIsKept
<1>5. QED
  BY <1>1, <1>3, <1>4

\* Until it sends an SMP, a tool asks for counters where and how its path or the last
\* redirection says, for any fabric, any agents that redirect and any subnet manager
\* that takes over (rpc.c:195-209, gs.c:62-66).
THEOREM RoutesAreKept == Spec => []RouteIsKept
<1>1. InitCc => RInv
  BY RunInit
<1>2. RInv /\ [Next]_vars => RInv'
  BY RunStep
<1>3. RInv => RouteIsKept
  BY CountersAreKept
<1>4. QED
  BY <1>1, <1>2, <1>3, PTL DEF Spec

------------------------------------------------------------------------------
(* Who answers. *)

\* A redirection is some port's; it leads on, away from the port that was named, or
\* is its own.
Onward(rank) ==
  phase = "ready" /\ told \in Redirections =>
    /\ \E r \in Ports : told = Agent[r]
    /\ IF told.to = named.target THEN told = Agent[named.target]
       ELSE rank[told.to] < rank[named.target]

\* What AnswersAreNamed says of a call of class c that port q answers.
AnswersFor(c, q) ==
  IF ~Strayed \/ (c = "pma" /\ ~smpSince) THEN q = named.target
  ELSE IF c = "smp" THEN q = told.to
  ELSE q = told.to \/ told = Agent[q]

NInv(rank) == RInv /\ Onward(rank) /\ AnswersAreNamed

\* An agent at QP 1 is that of the port; one at another QP serves in the place of
\* the port that redirects there.
LEMMA ServedBy ==
  ASSUME RInv, AgentsApart, asking \in {"pma", "cc", "bm", "vendor"},
         NEW q \in Servers(asking, portid)
  PROVE  /\ q \in Ports /\ Reached(asking, portid) \in Ports /\ told # ByGid
         /\ portid.qp = 1 => q = Reached(asking, portid)
         /\ portid.qp # 1 => told \in Redirections /\ \A r \in Ports : told = Agent[r] => q = r
<1> DEFINE port == Reached(asking, portid)
<1>1. /\ port # NoPort /\ q \in Ports
      /\ Agent[q] = [Here(port) EXCEPT !.qp = portid.qp, !.qkey = portid.qkey, !.sl = Agent[q].sl]
  BY DEF Servers
<1>2. /\ phase = "ready" /\ asking \in ClassesOf(tool) /\ portid \in PortIds
      /\ told \in {NotTold, ByGid} \cup Redirections /\ named.target \in Ports
  BY DEF RInv, SessionPhase, SessionShape
<1> HIDE DEF port
<1>3. Agent[q].to = port /\ Agent[q].qp = portid.qp /\ Agent[q].qkey = portid.qkey
  BY <1>1 DEF Here
<1>4. told # ByGid
  <2> SUFFICES ASSUME told = ByGid PROVE FALSE
    OBVIOUS
  <2>1. portid.lid = 0
    BY <1>2 DEF RInv, Addressed
  <2>2. QED
    BY <1>1, <1>2, <2>1, ReachedNowhere DEF port
<1>5. port \in Ports
  BY <1>2, <1>4, ReachedNamed, ReachedTold, AgentKinds DEF port
<1>6. portid.qp # 0
  BY <1>2 DEF RInv, Keyed
<1>7. ASSUME portid.qp = 1
      PROVE  q = port
  <2>1. Agent[q] \notin Redirections /\ Agent[q] # ByGid
    BY <1>3, <1>7, AgentKinds DEF ByGid
  <2>2. Agent[q] = Here(q)
    BY <1>1, <2>1, SessionFacts
  <2>3. QED
    BY <1>3, <2>2 DEF Here
<1>8. ASSUME portid.qp # 1
      PROVE  told \in Redirections /\ \A r \in Ports : told = Agent[r] => q = r
  <2>1. told \in Redirections
    BY <1>2, <1>4, <1>6, <1>8 DEF RInv, Keyed
  <2>2. portid.qp = told.qp /\ portid.qkey = told.qkey /\ port = told.to
    BY <1>2, <1>6, <1>8, <2>1, ReachedTold DEF RInv, Keyed, port
  <2>3. told.qp \in Nat \ {0, 1}
    BY <2>1, AgentKinds
  <2>4. Agent[q] \in Redirections
    BY <1>1, <1>3, <2>2, <2>3, SessionFacts DEF Here, ByGid
  <2>5. QED
    BY <1>1, <1>3, <2>1, <2>2, <2>4 DEF AgentsApart
<1>9. QED
  BY <1>1, <1>4, <1>5, <1>7, <1>8 DEF port

\* SMPs, and questions to the SA, are answered by the port they reach.
LEMMA ServedItself ==
  ASSUME RInv, asking \in {"smp", "sa"}, NEW q \in Servers(asking, portid)
  PROVE  AnswersFor(asking, q)
<1>1. q = Reached(asking, portid)
  BY DEF Servers
<1>2. /\ phase = "ready" /\ asking \in ClassesOf(tool) /\ named.target \in Ports
      /\ told \in {NotTold, ByGid} \cup Redirections
  BY DEF RInv, SessionPhase, SessionShape
<1>3. CASE told = NotTold
  BY <1>1, <1>2, <1>3, ReachedNamed DEF Strayed, AnswersFor
<1>4. CASE told # NotTold
  <2>1. asking = "smp"
    <3>1. tool \in Redirectable
      BY <1>2, <1>4 DEF RInv, Addressed
    <3>2. QED
      BY <1>2, <3>1, KnownRun DEF RInv, Redirectable
  <2>2. told # ByGid
    <3>1. told = ByGid => tool = "ibqueryerrors"
      BY <1>2 DEF RInv, Addressed
    <3>2. QED
      BY <1>2, <2>1, <3>1 DEF ClassesOf
  <2>3. q = told.to
    BY <1>1, <1>2, <1>4, <2>2, ReachedTold
  <2>4. QED
    BY <1>4, <2>1, <2>3 DEF Strayed, AnswersFor
<1>5. QED
  BY <1>3, <1>4

LEMMA AnsweredNamed ==
  ASSUME NEW rank, NInv(rank), AgentsApart, NEW q \in Servers(asking, portid), asking # "none"
  PROVE  AnswersFor(asking, q)
<1>1. /\ phase = "ready" /\ asking \in ClassesOf(tool) /\ named.target \in Ports
      /\ asking \in {"smp", "pma", "sa", "vendor", "bm", "cc"}
  BY KnownRun DEF NInv, RInv, SessionPhase, SessionShape
<1>2. CASE asking \in {"smp", "sa"}
  BY <1>2, ServedItself DEF NInv
<1>3. CASE asking \in {"pma", "cc", "bm", "vendor"}
  <2>1. /\ q \in Ports /\ told # ByGid
        /\ portid.qp = 1 => q = Reached(asking, portid)
        /\ portid.qp # 1 => told \in Redirections /\ \A r \in Ports : told = Agent[r] => q = r
    BY <1>3, ServedBy DEF NInv
  <2>2. CASE told = NotTold
    <3>1. Reached(asking, portid) = named.target
      BY <1>1, <2>2, ReachedNamed DEF NInv
    <3>2. told \notin Redirections
      BY <2>2, AgentKinds
    <3>3. q = named.target /\ ~Strayed
      BY <2>1, <2>2, <3>1, <3>2 DEF Strayed
    <3>4. QED
      BY <3>3 DEF AnswersFor
  <2>3. CASE told \in Redirections
    <3>1. Reached(asking, portid) = told.to /\ told # NotTold /\ told.qp \in Nat \ {0, 1}
      BY <1>1, <2>3, ReachedTold, AgentKinds DEF NInv
    <3>2. ASSUME ~Strayed PROVE q = named.target
      <4>1. told.to = named.target /\ told = Agent[named.target]
        BY <1>1, <2>3, <3>1, <3>2 DEF Strayed, NInv, Onward
      <4>2. QED
        BY <1>1, <2>1, <3>1, <4>1
    <3>3. ASSUME asking = "pma", ~smpSince PROVE q = named.target
      <4>1. tool \in Counting
        BY <1>1, <3>3, KnownRun DEF NInv, RInv
      <4>2. portid.qp = told.qp /\ told = Agent[named.target]
        BY <1>1, <2>3, <3>3, <4>1 DEF NInv, RInv, CountedAt
      <4>3. QED
        BY <1>1, <2>1, <3>1, <4>2
    <3>4. q = told.to \/ told = Agent[q]
      <4>1. PICK r \in Ports : told = Agent[r]
        BY <1>1, <2>3 DEF NInv, Onward
      <4>2. QED
        BY <2>1, <3>1, <4>1
    <3>5. QED
      BY <1>3, <3>2, <3>3, <3>4 DEF AnswersFor
  <2>4. QED
    BY <2>1, <2>2, <2>3 DEF NInv, RInv, SessionShape
<1>4. QED
  BY <1>1, <1>2, <1>3

\* The port that redirects is the one named, or further on.
LEMMA RedirectedOnward ==
  ASSUME NEW rank \in [Ports -> Nat], GoesDown(rank), NInv(rank), Redirected
  PROVE  Onward(rank)'
<1> DEFINE r == Redirector(asking, portid)
<1>1. /\ asking \in {"pma", "cc", "bm"} /\ r # NoPort /\ Agent[r] # ByGid
      /\ told' = Agent[r] /\ UNCHANGED <<named, phase>>
  BY DEF Redirected
<1>2. /\ r \in Ports /\ Agent[r] \in Redirections /\ phase = "ready" /\ told # ByGid
      /\ told = NotTold => r = named.target
      /\ told \in Redirections => r = told.to
  BY <1>1, RedirectorIs DEF NInv
<1> HIDE DEF r
<1>3. /\ Agent[r].to \in Ports /\ named.target \in Ports
      /\ told \in {NotTold, ByGid} \cup Redirections
      /\ \A p \in Ports : rank[p] \in Nat
  BY <1>2, AgentKinds DEF NInv, RInv, SessionShape
<1>4. Agent[r].to # r => rank[Agent[r].to] < rank[r]
  BY <1>2, <1>3 DEF GoesDown
<1>5. r = named.target \/ rank[r] < rank[named.target]
  BY <1>2, <1>3 DEF NInv, Onward
<1>6. told' \in Redirections /\ \E p \in Ports : told' = Agent[p]
  BY <1>1, <1>2
<1>7. IF told'.to = named'.target THEN told' = Agent[named'.target]
      ELSE rank[told'.to] < rank[named'.target]
  BY <1>1, <1>2, <1>3, <1>4, <1>5
<1>8. QED
  BY <1>6, <1>7 DEF Onward

LEMMA NamedInit == ASSUME NEW rank PROVE InitCc => NInv(rank)
<1> SUFFICES ASSUME InitCc PROVE NInv(rank)
  OBVIOUS
<1>1. phase = "ended" /\ answer = NoAnswer
  BY DEF InitCc, Init
<1>2. QED
  BY <1>1, RunInit DEF NInv, Onward, AnswersAreNamed, NoAnswer

\* A step after which the run has the answer it had, or none.
LEMMA NamedIdle ==
  ASSUME NEW rank, NInv(rank), RInv',
         answer' = NoAnswer \/ UNCHANGED <<named, told, smpSince, answer>>,
         \/ phase' # "ready" \/ told' \notin Redirections
         \/ phase = "ready" /\ UNCHANGED <<named, told>>
  PROVE  NInv(rank)'
<1>1. AnswersAreNamed'
  BY DEF NInv, AnswersAreNamed, NoAnswer, Strayed
<1>2. Onward(rank)'
  BY DEF NInv, Onward
<1>3. QED
  BY <1>1, <1>2 DEF NInv

LEMMA NamedStep ==
  ASSUME NEW rank \in [Ports -> Nat], GoesDown(rank), AgentsApart, NInv(rank), [Next]_vars
  PROVE  NInv(rank)'
<1>1. RInv'
  BY RunStep DEF NInv
<1>2. ASSUME NEW t \in Tools, NEW given \in BOOLEAN, NEW n \in Destinations(t),
             CcStart(t, n, given)
      PROVE  NInv(rank)'
  <2>1. answer' = NoAnswer /\ phase' # "ready"
    BY <1>2 DEF CcStart, Start, Started
  <2>2. QED
    BY <1>1, <2>1, NamedIdle
<1>3. CASE Setup
  <2>1. /\ phase \in {"resolve", "path"} /\ UNCHANGED <<answer, told>>
    BY <1>3 DEF Setup, Resolve, ResolveSm, ResolvePath, ResolveFails
  <2>2. answer' = NoAnswer /\ told' \notin Redirections
    BY <2>1, AgentKinds DEF NInv, RInv, SessionPhase
  <2>3. QED
    BY <1>1, <2>2, NamedIdle
<1>4. CASE Redirected
  <2>1. asking # "none" /\ answer' = answer
    BY <1>4 DEF Redirected
  <2>2. answer' = NoAnswer
    BY <2>1 DEF NInv, RInv, SessionPhase
  <2>3. AnswersAreNamed'
    BY <2>2 DEF AnswersAreNamed, NoAnswer
  <2>4. Onward(rank)'
    BY <1>4, RedirectedOnward
  <2>5. QED
    BY <1>1, <2>3, <2>4 DEF NInv
<1>5. CASE RedirectRefused
  <2>1. asking # "none" /\ answer' = answer /\ told' = ByGid
    BY <1>5 DEF RedirectRefused, CallFails
  <2>2. answer' = NoAnswer /\ told' \notin Redirections
    BY <2>1, AgentKinds DEF NInv, RInv, SessionPhase
  <2>3. QED
    BY <1>1, <2>2, NamedIdle
<1>6. ASSUME UNCHANGED <<named, told, smpSince, answer>>,
             phase' = "ready" => phase = "ready"
      PROVE  NInv(rank)'
  BY <1>1, <1>6, NamedIdle
<1>7. ASSUME NEW c, Ask(c) PROVE NInv(rank)'
  <2>1. answer' = NoAnswer /\ phase = "ready" /\ UNCHANGED <<named, told>>
    BY <1>7 DEF Ask
  <2>2. QED
    BY <1>1, <2>1, NamedIdle
<1>8. CASE Answered
  <2>1. PICK q \in Servers(asking, portid) : answer' = [class |-> asking, port |-> q]
    BY <1>8 DEF Answered
  <2>2. asking # "none" /\ UNCHANGED <<named, phase, told, smpSince>>
    BY <1>8 DEF Answered
  <2>3. AnswersFor(asking, q)
    BY <2>2, AnsweredNamed
  <2>4. AnswersAreNamed'
    BY <2>1, <2>2, <2>3 DEF AnswersAreNamed, AnswersFor, Strayed
  <2>5. Onward(rank)'
    BY <2>2 DEF NInv, Onward
  <2>6. QED
    BY <1>1, <2>4, <2>5 DEF NInv
<1>9. CASE NotAnswered
  <2>1. phase = "ready" /\ UNCHANGED <<named, told, smpSince, answer>>
    BY <1>9 DEF NotAnswered, CallFails, NInv, RInv, SessionPhase
  <2>2. QED
    BY <1>6, <2>1
<1>10. ASSUME NEW c, AskRefused(c) PROVE NInv(rank)'
  BY <1>6, <1>10 DEF AskRefused, CallFails
<1>11. CASE NextPort
  <2>1. answer' = NoAnswer /\ told' \notin Redirections
    BY <1>11, AgentKinds DEF NextPort
  <2>2. QED
    BY <1>1, <2>1, NamedIdle
<1>12. CASE Environment \/ Finish \/ UNCHANGED vars
  <2>1. UNCHANGED <<named, told, smpSince, answer>> /\ (phase' = phase \/ phase' # "ready")
    BY <1>12 DEF Environment, HandOver, TellSmLid, run, Finish, vars, session
  <2>2. QED
    BY <1>6, <2>1
<1>13. CASE CcNext
  <2>1. \/ CcAsk \/ Answered \/ NotAnswered \/ Finish
    BY <1>13 DEF CcNext, NodeInfoAnswered, SpReadAnswered, PortAnswered, BlockAnswered,
                 EntriesAnswered, AttrAnswered, SetAnswered, CcNotAnswered, Done
  <2>2. QED
    BY <2>1, <1>7, <1>8, <1>9, <1>12 DEF CcAsk
<1>14. CASE FreeNext
  BY <1>14, <1>7, <1>8, <1>9, <1>10, <1>11, <1>12 DEF FreeNext
<1>15. QED
  BY <1>2, <1>3, <1>4, <1>5, <1>12, <1>13, <1>14 DEF Next

\* The answers a tool gets are those of the port it was given, by LID, by GUID, by GID
\* or along a route, as long as the run is not redirected to another port, and those of
\* counter queries, or of the agent in its place, after that too until an SMP is sent.
\* From then on the port that was named is lost: an SMP is answered by the port the
\* redirection named, any other call by that port or the one that last redirected it;
\* if an agent serves for one port and redirections do not lead back to a port
\* (resolve.c:75-190, rpc.c:195-209, gs.c:62-66, smp.c:73).
THEOREM NamedAnswer ==
  ASSUME AgentsApart, NEW rank \in [Ports -> Nat], GoesDown(rank)
  PROVE  Spec => []AnswersAreNamed
<1>1. InitCc => NInv(rank)
  BY NamedInit
<1>2. NInv(rank) /\ [Next]_vars => NInv(rank)'
  BY NamedStep
<1>3. NInv(rank) => AnswersAreNamed
  BY DEF NInv
<1>4. QED
  BY <1>1, <1>2, <1>3, PTL DEF Spec

------------------------------------------------------------------------------
(***************************************************************************)
(* Forwarding tables.  Numbers first: a range in blocks.                   *)
(***************************************************************************)
\* A set of numbers has a least one.
LEMMA LeastOf ==
  ASSUME NEW T, T \subseteq Nat, T # {}
  PROVE \E m \in T : \A k \in T : m <= k
<1> DEFINE F == {0..k : k \in T}
<1>1. F \subseteq FiniteSubsetsOf(Nat) /\ F # {}
  <2>1. ASSUME NEW k \in T PROVE IsFiniteSet(0..k) /\ 0..k \subseteq Nat
    BY FS_Interval
  <2> QED BY <2>1 DEF FiniteSubsetsOf
<1>2. \E x \in F : \A y \in F : ~(<<y, x>> \in StrictSubsetOrdering(Nat))
  <2> HIDE DEF F
  <2> QED BY <1>1, FS_StrictSubsetOrderingWellFounded, WFMin
<1>3. PICK m \in T : \A k \in T : ~(<<0..k, 0..m>> \in StrictSubsetOrdering(Nat))
  BY <1>2
<1>4. ASSUME NEW k \in T PROVE m <= k
  <2>1. SUFFICES ASSUME k < m PROVE FALSE
    OBVIOUS
  <2>2. 0..k \subseteq 0..m /\ 0..k # 0..m /\ 0..k \in SUBSET Nat /\ 0..m \in SUBSET Nat
    <3>1. m \in 0..m /\ m \notin 0..k BY <2>1
    <3> QED BY <2>1, <3>1
  <2>3. <<0..k, 0..m>> \in StrictSubsetOrdering(Nat)
    BY <2>2 DEF StrictSubsetOrdering
  <2> QED BY <2>3, <1>3
<1> QED BY <1>4

\* Rounding up.
LEMMA Ceiling ==
  ASSUME NEW size \in Nat \ {0}, NEW e \in Nat, NEW k, k = (e + size - 1) \div size
  PROVE  /\ k \in Nat /\ (k * size) \in Nat
         /\ e <= k * size /\ k * size <= e + size - 1
         /\ k * size = e => e % size = 0
         /\ (k * size) \div size = k
<1> DEFINE r == (e + size - 1) % size
<1>1. e + size - 1 \in Nat
  OBVIOUS
<1>2. k \in Nat /\ r \in 0..(size - 1) /\ e + size - 1 = (k * size) + r
  BY <1>1, PlaceOf
<1> HIDE DEF r
<1>3. k * size \in Nat
  BY <1>2
<1>4. e <= k * size /\ k * size <= e + size - 1
  <2>1. \A x \in Nat : e + size - 1 = x + r => e <= x /\ x <= e + size - 1
    BY <1>2
  <2> QED BY <1>2, <1>3, <2>1
<1>5. (k * size) \div size = k /\ (k * size) % size = 0
  <2> DEFINE x == k * size
             d == x \div size
             m == x % size
  <2>1. d \in Nat /\ m \in 0..(size - 1) /\ x = (d * size) + m
    BY <1>3, PlaceOf
  <2>2. x = (k * size) + 0 /\ 0 \in 0..(size - 1)
    BY <1>2, <1>3
  <2> HIDE DEF d, m, x
  <2>3. d = k /\ m = 0
    <3>1. (d * size) + m = (k * size) + 0
      BY <2>1, <2>2
    <3> QED BY <1>2, <2>1, <2>2, <3>1, SamePlace
  <2> QED BY <2>3 DEF d, m, x
<1> QED BY <1>2, <1>3, <1>4, <1>5

LEMMA Times ==
  ASSUME NEW size \in Nat \ {0}, NEW a \in Nat, NEW b \in Nat
  PROVE  /\ a * size \in Nat
         /\ (b + 1) * size = (b * size) + size
         /\ a <= b => a * size <= b * size
OBVIOUS

\* The arguments and the switches.
LEMMA TableParts ==
  ASSUME scenario \in Scenarios
  PROVE  /\ Job.multicast \in BOOLEAN /\ Job.all \in BOOLEAN
         /\ StartLid \in Nat /\ 1 \in Switches
         /\ BlockSize \in Nat \ {0} /\ ChunkSize \in Nat \ {0} /\ MaxMcast \in Nat
         /\ \A s \in Switches : /\ End(scenario.switches[s]) \in Nat
                                /\ End(scenario.switches[s]) <= MaxMcast
                                /\ scenario.switches[s].nports \in Nat
                                /\ scenario.switches[s].entry \in [Lids -> SUBSET Nat]
<1> DEFINE j == scenario.job
<1>1. /\ j.multicast \in BOOLEAN /\ j.all \in BOOLEAN /\ j.start \in Nat /\ j.end \in Nat
      /\ Len(scenario.switches) \in Nat \ {0}
      /\ MaxUcast \in Nat /\ MinMcast \in Nat \ {0} /\ MaxMcast \in Nat
      /\ MaxUcast < MinMcast /\ MinMcast <= MaxMcast
      /\ BlockSize \in Nat \ {0} /\ ChunkSize \in Nat \ {0}
  BY FwdTablesAssumption
<1>2. 1 \in Switches
  BY <1>1 DEF Switches
<1>3. StartLid \in Nat
  BY <1>1 DEF StartLid, Job
<1>4. ASSUME NEW s \in Switches
      PROVE  /\ End(scenario.switches[s]) \in Nat
             /\ End(scenario.switches[s]) <= MaxMcast
             /\ scenario.switches[s].nports \in Nat
             /\ scenario.switches[s].entry \in [Lids -> SUBSET Nat]
  <2> DEFINE sw == scenario.switches[s]
  <2>1. /\ sw.nports \in Nat /\ sw.top \in Nat /\ sw.mtop \in Nat /\ sw.cap \in Nat \ {0}
        /\ sw.entry \in [Lids -> SUBSET Nat]
    BY FwdTablesAssumption DEF Switches, Lids
  <2> HIDE DEF sw
  <2>2. UnicastEnd(sw) \in Nat /\ UnicastEnd(sw) <= MaxMcast
    BY <1>1, <2>1 DEF UnicastEnd, Least, Job
  <2>3. MulticastEnd(sw) \in Nat /\ MulticastEnd(sw) <= MaxMcast
    <3> DEFINE last == MinMcast + sw.cap - 1
               end == IF Job.end = 0 \/ Job.end > last THEN last ELSE Job.end
               below == IF ~Job.all /\ sw.mtop # 0 /\ sw.mtop < end /\ sw.mtop >= MinMcast - 1
                        THEN sw.mtop ELSE end
    <3>1. last \in Nat
      BY <1>1, <2>1
    <3>2. Job.end \in Nat
      BY <1>1 DEF Job
    <3>3. end \in Nat
      BY <3>1, <3>2
    <3>4. below \in Nat
      BY <2>1, <3>3
    <3>5. MulticastEnd(sw) = IF below < MaxMcast THEN below ELSE MaxMcast
      BY DEF MulticastEnd, Least
    <3> HIDE DEF below
    <3> QED BY <1>1, <3>4, <3>5
  <2>4. End(sw) \in Nat /\ End(sw) <= MaxMcast
    BY <2>2, <2>3 DEF End
  <2> QED BY <2>1, <2>4 DEF sw
<1> QED BY <1>1, <1>2, <1>3, <1>4 DEF Job

\* The blocks read lie in the tables, and those after the last lie behind the range.
LEMMA BlocksRead ==
  ASSUME scenario \in Scenarios, NEW e \in Nat, e <= MaxMcast, NEW b \in Nat, b <= LastBlock(e)
  PROVE  /\ b * BlockSize \in Nat /\ b * BlockSize <= e
         /\ \A q \in Places : (b * BlockSize) + q \in Lids
<1> DEFINE size == BlockSize
<1>1. size \in Nat \ {0} /\ MaxMcast \in Nat
  BY TableParts
<1>2. b * size \in Nat /\ (b + 1) * size = (b * size) + size
  BY <1>1, Times
<1>3. b * size <= e
  <2>1. CASE Job.multicast
    <3> DEFINE k == e \div size
               r == e % size
    <3>1. k \in Nat /\ r \in 0..(size - 1) /\ e = (k * size) + r
      BY <1>1, PlaceOf
    <3>2. b <= k
      BY <2>1 DEF LastBlock
    <3> HIDE DEF k, r
    <3>3. b * size <= k * size /\ k * size \in Nat
      BY <1>1, <3>1, <3>2, Times
    <3> QED BY <1>2, <3>1, <3>3
  <2>2. CASE ~Job.multicast
    <3> DEFINE k == (e + size - 1) \div size
    <3>1. /\ k \in Nat /\ k * size \in Nat /\ k * size <= e + size - 1
          /\ (k * size) \div size = k
      BY <1>1, Ceiling
    <3>2. b <= k - 1
      BY <2>2, <3>1 DEF LastBlock, Align
    <3> HIDE DEF k
    <3>3. b + 1 <= k /\ b + 1 \in Nat
      BY <3>1, <3>2
    <3>4. (b + 1) * size <= k * size
      BY <1>1, <3>1, <3>3, Times
    <3> QED BY <1>1, <1>2, <3>1, <3>4
  <2> QED BY <2>1, <2>2
<1>4. ASSUME NEW q \in Places PROVE (b * size) + q \in Lids
  <2>1. q \in 0..(size - 1)
    BY DEF Places
  <2>2. (b * size) + q \in Nat /\ (b * size) + q <= MaxMcast + size
    <3>1. \A x \in Nat : x <= e => x + q \in Nat /\ x + q <= MaxMcast + size
      BY <1>1, <2>1
    <3> QED BY <1>2, <1>3, <3>1
  <2> QED BY <1>1, <2>2 DEF Lids
<1> QED BY <1>2, <1>3, <1>4

LEMMA BlocksPast ==
  ASSUME scenario \in Scenarios, NEW e \in Nat, NEW b \in Nat, ~(b <= LastBlock(e)),
         NEW l \in Nat, l <= e, Job.multicast \/ l # e \/ l % BlockSize # 0
  PROVE  l < b * BlockSize
<1> DEFINE size == BlockSize
<1>1. size \in Nat \ {0}
  BY TableParts
<1>2. b * size \in Nat
  BY <1>1, Times
<1>3. CASE Job.multicast
  <2> DEFINE k == e \div size
             r == e % size
  <2>1. k \in Nat /\ r \in 0..(size - 1) /\ e = (k * size) + r
    BY <1>1, PlaceOf
  <2>2. ~(b <= k)
    BY <1>3 DEF LastBlock
  <2> HIDE DEF k, r
  <2>3. k + 1 \in Nat /\ k + 1 <= b
    BY <2>1, <2>2
  <2>4. /\ (k + 1) * size <= b * size /\ k * size \in Nat
        /\ (k + 1) * size = (k * size) + size
    BY <1>1, <2>1, <2>3, Times
  <2>5. \A x, y \in Nat : e = x + r /\ x + size <= y => e < y
    BY <1>1, <2>1
  <2>6. e < b * size
    BY <1>2, <2>1, <2>4, <2>5
  <2> QED BY <1>2, <2>6
<1>4. CASE ~Job.multicast
  <2> DEFINE k == (e + size - 1) \div size
  <2>1. /\ k \in Nat /\ k * size \in Nat /\ e <= k * size
        /\ k * size = e => e % size = 0
        /\ (k * size) \div size = k
    BY <1>1, Ceiling
  <2>2. ~(b <= k - 1)
    BY <1>4, <2>1 DEF LastBlock, Align
  <2> HIDE DEF k
  <2>3. k <= b
    BY <2>1, <2>2
  <2>4. k * size <= b * size
    BY <1>1, <2>1, <2>3, Times
  <2>5. l < k * size
    <3>1. CASE l = e
      <4>1. e % size # 0
        BY <1>4, <3>1
      <4> QED BY <2>1, <3>1, <4>1
    <3>2. CASE l # e
      BY <2>1, <3>2
    <3> QED BY <3>1, <3>2
  <2> QED BY <1>2, <2>1, <2>4, <2>5
<1> QED BY <1>3, <1>4

------------------------------------------------------------------------------
\* What is put together of the chunks is, chunk by chunk, what they are.
LEMMA ValueIs ==
  ASSUME scenario \in Scenarios, node \in Switches,
         buffer \in [AllChunks -> [Places -> SUBSET Nat]],
         NEW l, Index(l) \in Places, NEW c \in Chunks(CurrentSwitch)
  PROVE  /\ InChunk(c, Value(l)) = InChunk(c, buffer[c][Index(l)])
         /\ ~Job.multicast => Value(l) = buffer[c][Index(l)]
         /\ buffer[c][Index(l)] \subseteq Nat
<1>1. \A d \in Chunks(CurrentSwitch) : d \in AllChunks
  BY DEF AllChunks, CurrentSwitch
<1>2. \A d \in Chunks(CurrentSwitch) : buffer[d][Index(l)] \subseteq Nat
  BY <1>1
<1>3. CASE Job.multicast
  <2>1. \A d, ports : InChunk(d, ports) = {p \in ports : p \div ChunkSize = d}
    BY <1>3 DEF InChunk
  <2>2. Value(l) = UNION {InChunk(d, buffer[d][Index(l)]) : d \in Chunks(CurrentSwitch)}
    BY DEF Value
  <2> QED BY <1>2, <1>3, <2>1, <2>2
<1>4. CASE ~Job.multicast
  <2>1. Chunks(CurrentSwitch) = {0} /\ \A d, ports : InChunk(d, ports) = ports
    BY <1>4 DEF Chunks, InChunk
  <2>2. Value(l) = UNION {buffer[0][Index(l)]} /\ c = 0
    BY <2>1 DEF Value
  <2> QED BY <1>2, <2>1, <2>2
<1> QED BY <1>3, <1>4

LEMMA InChunkTwice == ASSUME NEW c, NEW ports PROVE InChunk(c, InChunk(c, ports)) = InChunk(c, ports)
BY DEF InChunk

\* A LID of a block has its place in it.
LEMMA PlaceInBlock ==
  ASSUME scenario \in Scenarios, NEW b \in Nat, NEW q \in Places
  PROVE  Index((b * BlockSize) + q) = q
<1> DEFINE size == BlockSize
           l == (b * size) + q
           d == l \div size
           m == l % size
<1>1. size \in Nat \ {0} /\ q \in 0..(size - 1)
  BY TableParts DEF Places
<1>2. l \in Nat
  BY <1>1, Times
<1>3. d \in Nat /\ m \in 0..(size - 1) /\ l = (d * size) + m
  BY <1>1, <1>2, PlaceOf
<1> HIDE DEF d, m
<1>4. m = q
  BY <1>1, <1>3, SamePlace
<1> QED BY <1>4 DEF Index, m

------------------------------------------------------------------------------
(* The lines of a block. *)

\* f is the recursive function of Lines.
IsLines(f, known) ==
  f = [q \in 0..BlockSize |->
         IF q = 0 THEN [at |-> numbering, lines |-> {}]
         ELSE WithLid(f[q - 1], (tblock * BlockSize) + (q - 1), known)]

LEMMA LinesIs ==
  ASSUME NEW known, BlockSize \in Nat \ {0}
  PROVE  \E f : IsLines(f, known) /\ Lines(known) = f[BlockSize]
<1> DEFINE First == [at |-> numbering, lines |-> {}]
           On(so, q) == WithLid(so, (tblock * BlockSize) + (q - 1), known)
           Is(f, k) == f = [q \in 0..k |-> IF q = 0 THEN First ELSE On(f[q - 1], q)]
           T == {k \in 0..BlockSize : ~\E f : Is(f, k)}
<1>0. /\ \A f : Is(f, BlockSize) <=> IsLines(f, known)
      /\ Lines(known) = (CHOOSE f : Is(f, BlockSize))[BlockSize]
  BY DEF IsLines, Lines
<1>1. \A f, k : Is(f, k) <=> f = [q \in 0..k |-> IF q = 0 THEN First ELSE On(f[q - 1], q)]
  OBVIOUS
<1> HIDE DEF Is, On, First
<1>2. SUFFICES ASSUME T # {} PROVE FALSE
  <2>1. BlockSize \in 0..BlockSize
    OBVIOUS
  <2>2. \E f : Is(f, BlockSize)
    BY <2>1
  <2> QED BY <1>0, <2>2
<1>3. PICK k \in T : \A m \in T : k <= m
  <2>1. T \subseteq Nat
    OBVIOUS
  <2> HIDE DEF T
  <2> QED BY <1>2, <2>1, LeastOf
<1>4. k \in 0..BlockSize /\ ~\E f : Is(f, k)
  BY <1>3
<1>5. k # 0
  <2>1. 0..0 = {0}
    OBVIOUS
  <2>2. Is([q \in {0} |-> First], 0)
    BY <2>1, <1>1
  <2> QED BY <1>4, <2>2
<1>6. k - 1 \in 0..BlockSize /\ k - 1 \notin T
  <2>1. k - 1 \in 0..BlockSize /\ ~(k <= k - 1)
    BY <1>4, <1>5
  <2> HIDE DEF T
  <2> QED BY <1>3, <2>1
<1>7. PICK f : Is(f, k - 1)
  BY <1>6
<1> DEFINE g == [q \in 0..k |-> IF q = k THEN On(f[k - 1], k) ELSE f[q]]
<1>8. g = [q \in 0..k |-> IF q = 0 THEN First ELSE On(g[q - 1], q)]
  <2> SUFFICES ASSUME NEW q \in 0..k
               PROVE  g[q] = IF q = 0 THEN First ELSE On(g[q - 1], q)
    OBVIOUS
  <2>1. k \in Nat /\ q \in Nat
    BY <1>4
  <2>2. CASE q = k
    BY <1>5, <2>1, <2>2
  <2>3. CASE q # k
    <3>1. q \in 0..(k - 1) /\ g[q] = f[q]
      BY <2>1, <2>3
    <3>2. f[q] = IF q = 0 THEN First ELSE On(f[q - 1], q)
      BY <1>1, <1>7, <3>1
    <3>3. q # 0 => q - 1 \in 0..k /\ q - 1 # k
      BY <2>1
    <3> QED BY <3>1, <3>2, <3>3
  <2> QED BY <2>2, <2>3
<1> HIDE DEF g
<1> QED BY <1>1, <1>4, <1>8

------------------------------------------------------------------------------
(* The invariant. *)

TablesShaped ==
  /\ scenario \in Scenarios
  /\ node \in Switches
  /\ entry \in [Switches -> [Lids -> SUBSET Nat]]
  /\ was \in [Switches -> [Lids -> SUBSET SUBSET Nat]]
  /\ \A s \in Switches, l \in Lids : entry[s][l] \in was[s][l]
  /\ endlid \in Nat /\ tblock \in Nat /\ chunk \in Nat
  /\ buffer \in [AllChunks -> [Places -> SUBSET Nat]]
  /\ pc = "read" => endlid = End(CurrentSwitch)
  /\ pc = "done" => node + 1 \notin Switches

\* What was read of the block was in the tables, and all of it was read, or a read failed.
ReadIsSo ==
  pc = "read" =>
    /\ fresh \subseteq Chunks(CurrentSwitch)
    /\ node \notin failed => \A c \in Chunks(CurrentSwitch) : c < chunk => c \in fresh
    /\ \A c \in fresh, q \in Places :
         /\ (tblock * BlockSize) + q \in Lids
         /\ \E v \in was[node][(tblock * BlockSize) + q] : buffer[c][q] = InChunk(c, v)

TrueLine(r) ==
  /\ r.node \in Switches /\ r.lid \in Lids
  /\ r.fresh => EntryHad(r)

\* What is behind the tool is printed.
Behind(s, l) ==
  s < node \/ (s = node /\ (pc = "done" \/ (pc = "read" /\ l < tblock * BlockSize)))

DoneSo ==
  \A s \in Switches, l \in Lids : Behind(s, l) => LeftOut(s, l) \/ Complete(s, l)

TInv == TablesShaped /\ ReadIsSo /\ (\A r \in dumped : TrueLine(r)) /\ DoneSo

\* The LIDs from base to last of what is remembered are those of a port.
Numbered(at, next) ==
  /\ at.base \in Nat /\ at.last \in Nat /\ at.base <= next
  /\ \A m \in Lids : m \in at.base..at.last =>
       /\ scenario.owner[m].base = at.base
       /\ scenario.owner[m].size = at.last - at.base + 1

NumberedLine(r) ==
  r.says.kind = "path" =>
    /\ scenario.owner[r.lid].size = r.says.of
    /\ scenario.owner[r.lid].base = r.lid - r.says.index + 1

PInv ==
  /\ pc = "read" => Numbered(numbering, tblock * BlockSize)
  /\ \A r \in dumped : NumberedLine(r)

------------------------------------------------------------------------------
\* Whether the LID at place q of the block is printed.
Printed(q) ==
  LET l == (tblock * BlockSize) + q
  IN  l \in ToPrint(tblock) /\ (Job.all \/ Valid(CurrentSwitch, Value(l)))

LEMMA WithLidKeeps ==
  ASSUME TablesShaped, ReadIsSo, pc = "read", tblock <= LastBlock(endlid),
         NEW known, NEW so, NEW q \in Places, \A r \in so.lines : TrueLine(r)
  PROVE  LET l == (tblock * BlockSize) + q
             to == WithLid(so, l, known)
         IN  /\ \A r \in to.lines : TrueLine(r)
             /\ so.lines \subseteq to.lines
             /\ Printed(q) => \E r \in to.lines : r.node = node /\ r.lid = l
<1> DEFINE l == (tblock * BlockSize) + q
           to == WithLid(so, l, known)
           d == Describe(so.at, l, Valid(CurrentSwitch, Value(l)), l \in known)
           line == Line(l, d.says)
           skipped == l \notin ToPrint(tblock) \/ (~Valid(CurrentSwitch, Value(l)) /\ ~Job.all)
           Kept == /\ \A r \in to.lines : TrueLine(r)
                   /\ so.lines \subseteq to.lines
                   /\ Printed(q) => \E r \in to.lines : r.node = node /\ r.lid = l
<1>1. ASSUME skipped PROVE Kept
  <2>1. to = so /\ ~Printed(q)
    BY <1>1 DEF WithLid, Printed
  <2> HIDE DEF to
  <2> QED BY <2>1
<1>2. ASSUME ~skipped PROVE Kept
  <2>1. to = [at |-> d.at, lines |-> so.lines \cup {line}]
    BY <1>2 DEF WithLid
  <2>2. /\ line.node = node /\ line.lid = l /\ line.value = Value(l)
        /\ line.fresh => fresh = Chunks(CurrentSwitch)
    BY DEF Line
  <2>3. node \in Switches /\ l \in Lids
    BY BlocksRead, TableParts DEF TablesShaped, CurrentSwitch
  <2>4. Index(l) = q
    BY PlaceInBlock DEF TablesShaped
  <2> HIDE DEF to, line, l, d
  <2>5. ASSUME line.fresh PROVE EntryHad(line)
    <3>1. fresh = Chunks(CurrentSwitch)
      BY <2>2, <2>5
    <3>2. ASSUME NEW c \in Chunks(CurrentSwitch)
          PROVE  \E v \in was[node][l] : InChunk(c, Value(l)) = InChunk(c, v)
      <4>1. PICK v \in was[node][l] : buffer[c][q] = InChunk(c, v)
        BY <3>1, <3>2 DEF ReadIsSo, l
      <4>2. InChunk(c, Value(l)) = InChunk(c, buffer[c][q])
        <5>1. Index(l) \in Places
          BY <2>4
        <5> QED BY <2>4, <5>1, <3>2, ValueIs DEF TablesShaped
      <4> QED BY <4>1, <4>2, InChunkTwice
    <3> QED BY <2>2, <3>2 DEF EntryHad, CurrentSwitch
  <2>6. TrueLine(line)
    BY <2>2, <2>3, <2>5 DEF TrueLine
  <2>7. to.lines = so.lines \cup {line}
    BY <2>1
  <2>8. /\ \A r \in to.lines : TrueLine(r)
        /\ so.lines \subseteq to.lines
        /\ \E r \in to.lines : r.node = node /\ r.lid = l
    BY <2>2, <2>6, <2>7
  <2> QED BY <2>8
<1> HIDE DEF skipped, to
<1> QED BY <1>1, <1>2 DEF to

LEMMA LinesAreTrue ==
  ASSUME TablesShaped, ReadIsSo, pc = "read", tblock <= LastBlock(endlid), NEW known
  PROVE  /\ \A r \in Lines(known).lines : TrueLine(r)
         /\ \A q \in Places : Printed(q) =>
              \E r \in Lines(known).lines : r.node = node /\ r.lid = (tblock * BlockSize) + q
<1>1. BlockSize \in Nat \ {0} /\ tblock \in Nat
  BY TableParts DEF TablesShaped
<1>2. PICK f : IsLines(f, known) /\ Lines(known) = f[BlockSize]
  BY <1>1, LinesIs
<1> DEFINE Has(k, j) == \E r \in f[k].lines : r.node = node /\ r.lid = (tblock * BlockSize) + j
           Good(k) == /\ \A r \in f[k].lines : TrueLine(r)
                      /\ \A j \in Places : j < k /\ Printed(j) => Has(k, j)
           T == {k \in 0..BlockSize : ~Good(k)}
<1>3. f[0].lines = {}
  <2>1. 0 \in 0..BlockSize
    BY <1>1
  <2> QED BY <1>2, <2>1 DEF IsLines
<1>4. ASSUME NEW k \in 0..BlockSize, k # 0
      PROVE  k - 1 \in Places /\ f[k] = WithLid(f[k - 1], (tblock * BlockSize) + (k - 1), known)
  <2>1. k - 1 \in Places
    BY <1>1, <1>4 DEF Places
  <2>2. f[k] = IF k = 0 THEN [at |-> numbering, lines |-> {}]
               ELSE WithLid(f[k - 1], (tblock * BlockSize) + (k - 1), known)
    BY <1>2, <1>4 DEF IsLines
  <2> QED BY <1>4, <2>1, <2>2
<1>5. T = {}
  <2>1. SUFFICES ASSUME T # {} PROVE FALSE
    OBVIOUS
  <2>2. PICK k \in T : \A m \in T : k <= m
    <3>1. T \subseteq Nat
      OBVIOUS
    <3> HIDE DEF T
    <3> QED BY <2>1, <3>1, LeastOf
  <2>3. k \in 0..BlockSize /\ ~Good(k)
    BY <2>2
  <2>4. k # 0
    <3>1. ASSUME k = 0 PROVE Good(k)
      <4>1. \A j \in Places : ~(j < 0)
        BY <1>1 DEF Places
      <4> QED BY <1>3, <3>1, <4>1
    <3> QED BY <2>3, <3>1
  <2>5. k - 1 \in 0..BlockSize /\ Good(k - 1)
    <3>1. k - 1 \in 0..BlockSize /\ ~(k <= k - 1)
      BY <1>1, <2>3, <2>4
    <3>2. k - 1 \notin T
      <4> HIDE DEF T
      <4> QED BY <2>2, <3>1
    <3> HIDE DEF Good
    <3> QED BY <3>1, <3>2
  <2>6. \A r \in f[k - 1].lines : TrueLine(r)
    BY <2>5
  <2> DEFINE q == k - 1
  <2>7. q \in Places /\ f[k] = WithLid(f[q], (tblock * BlockSize) + q, known)
    BY <1>4, <2>3, <2>4
  <2> HIDE DEF q
  <2>8. /\ \A r \in f[k].lines : TrueLine(r)
        /\ f[q].lines \subseteq f[k].lines
        /\ Printed(q) => Has(k, q)
    <3>1. \A r \in f[q].lines : TrueLine(r)
      BY <2>6 DEF q
    <3> QED BY <2>7, <3>1, WithLidKeeps
  <2>9. ASSUME NEW j \in Places, j < k, Printed(j) PROVE Has(k, j)
    <3>1. CASE j = q
      BY <2>8, <2>9, <3>1
    <3>2. CASE j # q
      <4>1. j < k - 1
        BY <1>1, <2>3, <2>9, <3>2 DEF q, Places
      <4>2. Has(q, j)
        BY <2>5, <2>9, <4>1 DEF q
      <4> QED BY <2>8, <4>2
    <3> QED BY <3>1, <3>2
  <2> QED BY <2>3, <2>8, <2>9
<1>6. Good(BlockSize)
  <2>1. BlockSize \in 0..BlockSize
    BY <1>1
  <2> HIDE DEF Good
  <2> QED BY <1>5, <2>1
<1>7. \A j \in Places : j < BlockSize
  BY <1>1 DEF Places
<1> QED BY <1>2, <1>6, <1>7

------------------------------------------------------------------------------
(* Numbered paths. *)

LEMMA WithLidNumbers ==
  ASSUME LidsOfPorts, scenario \in Scenarios, NEW known, NEW so, NEW l \in Lids,
         Numbered(so.at, l), \A r \in so.lines : NumberedLine(r)
  PROVE  LET to == WithLid(so, l, known)
         IN  Numbered(to.at, l + 1) /\ \A r \in to.lines : NumberedLine(r)
<1> DEFINE valid == Valid(CurrentSwitch, Value(l))
           owner == scenario.owner[l]
           d == Describe(so.at, l, valid, l \in known)
           line == Line(l, d.says)
           to == WithLid(so, l, known)
           path == [kind |-> "path", index |-> l - so.at.base + 1, of |-> so.at.last - so.at.base + 1]
<1>1. l \in Nat /\ so.at.base \in Nat /\ so.at.last \in Nat /\ so.at.base <= l
  BY DEF Numbered, Lids
<1>2. Numbered(so.at, l + 1)
  BY <1>1 DEF Numbered
<1>3. \/ d.at = so.at
      \/ d.at = [last |-> LastPath(owner), base |-> owner.base]
  BY DEF Describe
<1>4. d.says.kind = "path" => d.says = path /\ l <= so.at.last
  BY DEF Describe
<1>5. line.lid = l /\ line.says = d.says
  BY DEF Line
<1>6. \/ to = so
      \/ to = [at |-> d.at, lines |-> so.lines \cup {line}]
  BY DEF WithLid
<1>7. /\ owner.base \in Nat /\ owner.size \in Nat \ {0} /\ owner.base <= l
      /\ \A m \in Lids : m \in owner.base..(owner.base + owner.size - 1) => scenario.owner[m] = owner
  BY DEF LidsOfPorts
<1> HIDE DEF valid, owner, d, line, to
<1>8. Numbered([last |-> LastPath(owner), base |-> owner.base], l + 1)
  <2>1. LastPath(owner) = owner.base + owner.size - 1
    BY DEF LastPath
  <2>2. /\ owner.base <= l + 1 /\ owner.base + owner.size - 1 \in Nat
        /\ (owner.base + owner.size - 1) - owner.base + 1 = owner.size
    BY <1>1, <1>7
  <2> QED BY <1>7, <2>1, <2>2 DEF Numbered
<1>9. NumberedLine(line)
  <2>1. SUFFICES ASSUME d.says.kind = "path"
                 PROVE  /\ scenario.owner[l].size = d.says.of
                        /\ scenario.owner[l].base = l - d.says.index + 1
    BY <1>5 DEF NumberedLine
  <2>2. d.says = path /\ l \in so.at.base..so.at.last
    BY <1>1, <1>4, <2>1
  <2>3. scenario.owner[l].base = so.at.base /\ scenario.owner[l].size = so.at.last - so.at.base + 1
    BY <2>2 DEF Numbered
  <2>4. d.says.of = so.at.last - so.at.base + 1 /\ d.says.index = l - so.at.base + 1
    BY <2>2
  <2>5. l - (l - so.at.base + 1) + 1 = so.at.base
    BY <1>1
  <2> QED BY <2>3, <2>4, <2>5
<1>10. Numbered(to.at, l + 1) /\ \A r \in to.lines : NumberedLine(r)
  <2>1. Numbered(d.at, l + 1)
    BY <1>2, <1>3, <1>8
  <2>2. CASE to = so
    BY <1>2, <2>2
  <2>3. CASE to = [at |-> d.at, lines |-> so.lines \cup {line}]
    BY <1>9, <2>1, <2>3
  <2> QED BY <1>6, <2>2, <2>3
<1> QED BY <1>10 DEF to

LEMMA LinesAreNumbered ==
  ASSUME LidsOfPorts, TablesShaped, pc = "read", tblock <= LastBlock(endlid),
         Numbered(numbering, tblock * BlockSize), NEW known
  PROVE  /\ Numbered(Lines(known).at, (tblock + 1) * BlockSize)
         /\ \A r \in Lines(known).lines : NumberedLine(r)
<1>1. BlockSize \in Nat \ {0} /\ tblock \in Nat /\ scenario \in Scenarios
  BY TableParts DEF TablesShaped
<1>2. PICK f : IsLines(f, known) /\ Lines(known) = f[BlockSize]
  BY <1>1, LinesIs
<1> DEFINE from == tblock * BlockSize
           Good(k) == Numbered(f[k].at, from + k) /\ \A r \in f[k].lines : NumberedLine(r)
           T == {k \in 0..BlockSize : ~Good(k)}
<1>3. from \in Nat /\ (tblock + 1) * BlockSize = from + BlockSize
  BY <1>1, Times
<1>4. \A q \in Places : from + q \in Lids
  BY BlocksRead, TableParts DEF TablesShaped, CurrentSwitch
<1>5. f[0] = [at |-> numbering, lines |-> {}]
  <2>1. 0 \in 0..BlockSize
    BY <1>1
  <2> QED BY <1>2, <2>1 DEF IsLines
<1>6. ASSUME NEW k \in 0..BlockSize, k # 0
      PROVE  k - 1 \in Places /\ f[k] = WithLid(f[k - 1], from + (k - 1), known)
  <2>1. k - 1 \in Places
    BY <1>1, <1>6 DEF Places
  <2>2. f[k] = IF k = 0 THEN [at |-> numbering, lines |-> {}]
               ELSE WithLid(f[k - 1], from + (k - 1), known)
    BY <1>2, <1>6 DEF IsLines
  <2> QED BY <1>6, <2>1, <2>2
<1>7. Numbered(numbering, from)
  OBVIOUS
<1> HIDE DEF from
<1>8. T = {}
  <2>1. SUFFICES ASSUME T # {} PROVE FALSE
    OBVIOUS
  <2>2. PICK k \in T : \A m \in T : k <= m
    <3>1. T \subseteq Nat
      OBVIOUS
    <3> HIDE DEF T
    <3> QED BY <2>1, <3>1, LeastOf
  <2>3. k \in 0..BlockSize /\ ~Good(k)
    BY <2>2
  <2>4. k # 0
    <3>1. from + 0 = from
      BY <1>3
    <3>2. Good(0)
      BY <1>5, <1>7, <3>1
    <3> HIDE DEF Good
    <3> QED BY <2>3, <3>2
  <2>5. k - 1 \in 0..BlockSize /\ Good(k - 1)
    <3>1. k - 1 \in 0..BlockSize /\ ~(k <= k - 1)
      BY <1>1, <2>3, <2>4
    <3>2. k - 1 \notin T
      <4> HIDE DEF T
      <4> QED BY <2>2, <3>1
    <3> HIDE DEF Good
    <3> QED BY <3>1, <3>2
  <2> DEFINE q == k - 1
  <2>6. q \in Places /\ f[k] = WithLid(f[q], from + q, known)
    BY <1>6, <2>3, <2>4
  <2>7. Numbered(f[q].at, from + q) /\ \A r \in f[q].lines : NumberedLine(r)
    BY <2>5
  <2>8. (from + q) + 1 = from + k
    BY <1>1, <1>3, <2>3
  <2> HIDE DEF q
  <2>9. from + q \in Lids
    BY <1>4, <2>6
  <2>10. Numbered(f[k].at, (from + q) + 1) /\ \A r \in f[k].lines : NumberedLine(r)
    BY <1>1, <2>6, <2>7, <2>9, WithLidNumbers
  <2> QED BY <2>3, <2>8, <2>10
<1>9. Good(BlockSize)
  <2>1. BlockSize \in 0..BlockSize
    BY <1>1
  <2> HIDE DEF Good
  <2> QED BY <1>8, <2>1
<1> QED BY <1>2, <1>3, <1>9

------------------------------------------------------------------------------
(* The steps. *)

LEMMA TablesStart == TablesInit => TInv /\ PInv
<1> SUFFICES ASSUME TablesInit PROVE TInv /\ PInv
  OBVIOUS
<1>1. /\ scenario \in Scenarios /\ node = 1 /\ pc = "begin" /\ dumped = {} /\ failed = {}
      /\ endlid = 0 /\ tblock = 0 /\ chunk = 0
      /\ entry = [s \in Switches |-> scenario.switches[s].entry]
      /\ was = [s \in Switches |-> [l \in Lids |-> {entry[s][l]}]]
      /\ buffer = Zeros
  BY DEF TablesInit
<1>2. node \in Switches /\ \A s \in Switches : ~(s < node)
  BY <1>1, TableParts DEF Switches
<1>3. \A s \in Switches : entry[s] = scenario.switches[s].entry
                          /\ entry[s] \in [Lids -> SUBSET Nat]
  BY <1>1, TableParts
<1>4. entry \in [Switches -> [Lids -> SUBSET Nat]]
  BY <1>1, <1>3
<1>5. \A s \in Switches, l \in Lids : was[s][l] = {entry[s][l]} /\ entry[s][l] \in SUBSET Nat
  BY <1>1, <1>3
<1>6. was \in [Switches -> [Lids -> SUBSET SUBSET Nat]]
  <2>1. \A s \in Switches : [l \in Lids |-> {entry[s][l]}] \in [Lids -> SUBSET SUBSET Nat]
    BY <1>5
  <2> QED BY <1>1, <2>1
<1>7. buffer \in [AllChunks -> [Places -> SUBSET Nat]]
  <2>1. [q \in Places |-> IF Job.multicast THEN {} ELSE {0}] \in [Places -> SUBSET Nat]
    OBVIOUS
  <2> QED BY <1>1, <2>1 DEF Zeros
<1>8. TablesShaped
  BY <1>1, <1>2, <1>4, <1>5, <1>6, <1>7 DEF TablesShaped
<1>9. ReadIsSo /\ DoneSo
  BY <1>1, <1>2 DEF ReadIsSo, DoneSo, Behind
<1> QED BY <1>1, <1>8, <1>9 DEF TInv, PInv

\* The job does not change.
LEMMA SameJob ==
  ASSUME scenario' = scenario
  PROVE  /\ Job' = Job /\ Switches' = Switches /\ StartLid' = StartLid
         /\ AllChunks' = AllChunks
         /\ \A s : /\ Chunks(scenario.switches[s])' = Chunks(scenario.switches[s])
                   /\ End(scenario.switches[s])' = End(scenario.switches[s])
                   /\ \A l : InRange(s, l)' = InRange(s, l) /\ LeftOut(s, l)' = LeftOut(s, l)
                   /\ \A v : Valid(scenario.switches[s], v)' = Valid(scenario.switches[s], v)
         /\ \A c, v : InChunk(c, v)' = InChunk(c, v)
<1>1. Job' = Job /\ Switches' = Switches
  BY DEF Job, Switches
<1>2. /\ StartLid' = StartLid
      /\ \A s : /\ Chunks(scenario.switches[s])' = Chunks(scenario.switches[s])
                /\ \A v : Valid(scenario.switches[s], v)' = Valid(scenario.switches[s], v)
      /\ \A c, v : InChunk(c, v)' = InChunk(c, v)
  BY <1>1 DEF StartLid, Chunks, Valid, InChunk
<1>3. \A s : End(scenario.switches[s])' = End(scenario.switches[s])
  BY <1>1 DEF End, MulticastEnd, UnicastEnd, Least
<1>4. AllChunks' = AllChunks
  BY <1>1, <1>2 DEF AllChunks
<1>5. \A s, l : InRange(s, l)' = InRange(s, l) /\ LeftOut(s, l)' = LeftOut(s, l)
  BY <1>1, <1>2, <1>3 DEF InRange, LeftOut
<1> QED BY <1>1, <1>2, <1>3, <1>4, <1>5

\* What the tables were is not forgotten: what a line says stays true, and a value that
\* is valid all the time was so before.
WasGrows ==
  /\ scenario' = scenario
  /\ \A s \in Switches, l \in Lids : was[s][l] \subseteq was'[s][l]

LEMMA TrueStays ==
  ASSUME WasGrows, NEW r, TrueLine(r)
  PROVE  TrueLine(r)'
<1>1. scenario' = scenario /\ r.node \in Switches /\ r.lid \in Lids
  BY DEF WasGrows, TrueLine
<1>2. ASSUME r.fresh, NEW c \in Chunks(scenario.switches[r.node])'
      PROVE  \E v \in was'[r.node][r.lid] : InChunk(c, r.value)' = InChunk(c, v)'
  <2>1. c \in Chunks(scenario.switches[r.node])
    BY <1>1, <1>2, SameJob
  <2>2. PICK v \in was[r.node][r.lid] : InChunk(c, r.value) = InChunk(c, v)
    BY <1>2, <2>1 DEF TrueLine, EntryHad
  <2>3. v \in was'[r.node][r.lid]
    BY <1>1, <2>2 DEF WasGrows
  <2> QED BY <1>1, <2>2, <2>3, SameJob
<1>3. r.fresh => EntryHad(r)'
  BY <1>2 DEF EntryHad
<1> QED BY <1>1, <1>3, SameJob DEF TrueLine

LEMMA CompleteStays ==
  ASSUME WasGrows, failed \subseteq failed', dumped \subseteq dumped',
         NEW s \in Switches, NEW l \in Lids, LeftOut(s, l) \/ Complete(s, l)
  PROVE  (LeftOut(s, l) \/ Complete(s, l))'
<1>1. scenario' = scenario
  BY DEF WasGrows
<1>2. StaysValid(s, l)' => StaysValid(s, l)
  <2>1. \A v \in was[s][l] : v \in was'[s][l]
    BY DEF WasGrows
  <2> QED BY <1>1, <2>1, SameJob DEF StaysValid
<1>3. LeftOut(s, l)' = LeftOut(s, l) /\ InRange(s, l)' = InRange(s, l) /\ Job' = Job
  BY <1>1, SameJob
<1> QED BY <1>2, <1>3 DEF Complete

\* A step that reads nothing, while the tables stay as they are.
LEMMA SameWas ==
  ASSUME TablesShaped, UNCHANGED tables
  PROVE  /\ WasGrows
         /\ TablesShaped' <=>
              /\ node' \in Switches
              /\ endlid' \in Nat /\ tblock' \in Nat /\ chunk' \in Nat
              /\ buffer' \in [AllChunks -> [Places -> SUBSET Nat]]
              /\ pc' = "read" => endlid' = End(scenario.switches[node'])
              /\ pc' = "done" => node' + 1 \notin Switches
<1>1. scenario' = scenario /\ entry' = entry /\ was' = was
  BY DEF tables
<1>2. WasGrows
  BY <1>1 DEF WasGrows
<1>3. /\ Switches' = Switches /\ AllChunks' = AllChunks
      /\ \A s : End(scenario.switches[s])' = End(scenario.switches[s])
  BY <1>1, SameJob
<1>4. End(CurrentSwitch)' = End(scenario.switches[node'])
  BY <1>1 DEF CurrentSwitch, End, MulticastEnd, UnicastEnd, Least, Job
<1> QED BY <1>1, <1>2, <1>3, <1>4 DEF TablesShaped

\* What was printed stays printed, and what was behind the tool stays behind.
LEMMA DoneStays ==
  ASSUME TInv, WasGrows, failed \subseteq failed', dumped \subseteq dumped',
         \A s \in Switches, l \in Lids :
            Behind(s, l)' => Behind(s, l) \/ (LeftOut(s, l) \/ Complete(s, l))'
  PROVE  DoneSo'
<1>1. Switches' = Switches
  BY SameJob DEF WasGrows
<1>2. ASSUME NEW s \in Switches, NEW l \in Lids, Behind(s, l)'
      PROVE  (LeftOut(s, l) \/ Complete(s, l))'
  <2>1. CASE Behind(s, l)
    <3>1. LeftOut(s, l) \/ Complete(s, l)
      BY <2>1 DEF TInv, DoneSo
    <3> QED BY <3>1, CompleteStays
  <2>2. CASE ~Behind(s, l)
    BY <1>2, <2>2
  <2> QED BY <2>1, <2>2
<1> QED BY <1>1, <1>2 DEF DoneSo

LEMMA SmWritesStep ==
  ASSUME TInv, SmWrites
  PROVE  TInv'
<1>1. PICK s \in Switches, l \in Lids \cap scenario.written, ports \in scenario.values :
        /\ entry' = [entry EXCEPT ![s][l] = ports]
        /\ was' = [was EXCEPT ![s][l] = @ \cup {ports}]
  BY DEF SmWrites
<1>2. /\ UNCHANGED <<scenario, node, pc, endlid, tblock, chunk, buffer, fresh, dumped, failed>>
      /\ TablesShaped
  BY DEF SmWrites, TInv
<1>3. ports \in SUBSET Nat
  BY <1>1, <1>2, FwdTablesAssumption DEF TablesShaped
<1>4. /\ entry' \in [Switches -> [Lids -> SUBSET Nat]]
      /\ \A t \in Switches, m \in Lids :
           entry'[t][m] = IF t = s /\ m = l THEN ports ELSE entry[t][m]
  BY <1>1, <1>2, <1>3 DEF TablesShaped
<1>5. /\ was' \in [Switches -> [Lids -> SUBSET SUBSET Nat]]
      /\ \A t \in Switches, m \in Lids :
           was'[t][m] = IF t = s /\ m = l THEN was[t][m] \cup {ports} ELSE was[t][m]
  BY <1>1, <1>2, <1>3 DEF TablesShaped
<1>6. WasGrows
  BY <1>2, <1>5 DEF WasGrows
<1>7. /\ Switches' = Switches /\ AllChunks' = AllChunks /\ CurrentSwitch' = CurrentSwitch
      /\ Chunks(CurrentSwitch)' = Chunks(CurrentSwitch)
      /\ End(CurrentSwitch)' = End(CurrentSwitch)
      /\ \A c, v : InChunk(c, v)' = InChunk(c, v)
  BY <1>2, SameJob DEF CurrentSwitch
<1>8. TablesShaped'
  <2>1. \A t \in Switches, m \in Lids : entry'[t][m] \in was'[t][m]
    BY <1>2, <1>4, <1>5 DEF TablesShaped
  <2>2. /\ pc' = "read" => endlid' = End(CurrentSwitch)'
        /\ pc' = "done" => node' + 1 \notin Switches'
    BY <1>2, <1>7 DEF TablesShaped
  <2>3. /\ scenario' \in Scenarios /\ node' \in Switches' /\ endlid' \in Nat
        /\ tblock' \in Nat /\ chunk' \in Nat /\ buffer' \in [AllChunks' -> [Places -> SUBSET Nat]]
    BY <1>2, <1>7 DEF TablesShaped
  <2> QED BY <1>4, <1>5, <1>7, <2>1, <2>2, <2>3 DEF TablesShaped
<1>9. ReadIsSo'
  <2>1. ASSUME pc = "read", NEW c \in fresh, NEW q \in Places
        PROVE  /\ (tblock * BlockSize) + q \in Lids
               /\ \E v \in was'[node][(tblock * BlockSize) + q] : buffer[c][q] = InChunk(c, v)
    <3>1. /\ (tblock * BlockSize) + q \in Lids
          /\ \E v \in was[node][(tblock * BlockSize) + q] : buffer[c][q] = InChunk(c, v)
      BY <2>1 DEF TInv, ReadIsSo
    <3>2. was[node][(tblock * BlockSize) + q] \subseteq was'[node][(tblock * BlockSize) + q]
      BY <1>2, <1>6, <3>1 DEF WasGrows, TablesShaped
    <3> QED BY <3>1, <3>2
  <2>2. ASSUME pc = "read", node \notin failed
        PROVE  \A c \in Chunks(CurrentSwitch) : c < chunk => c \in fresh
    BY <2>2 DEF TInv, ReadIsSo
  <2>3. pc = "read" => fresh \subseteq Chunks(CurrentSwitch)
    BY DEF TInv, ReadIsSo
  <2> QED BY <1>2, <1>7, <2>1, <2>2, <2>3 DEF ReadIsSo
<1>10. \A r \in dumped' : TrueLine(r)'
  BY <1>2, <1>6, TrueStays DEF TInv
<1>11. DoneSo'
  BY <1>2, <1>6, DoneStays DEF Behind
<1> QED BY <1>8, <1>9, <1>10, <1>11 DEF TInv

\* Lines printed before stay true.
LEMMA DumpedStays ==
  ASSUME TInv, WasGrows, dumped' = dumped
  PROVE  \A r \in dumped' : TrueLine(r)'
BY TrueStays DEF TInv

\* The first block begins before the range.
LEMMA BeginStep ==
  ASSUME TInv, Begin
  PROVE  TInv'
<1>1. /\ pc = "begin" /\ pc' = "read" /\ endlid' = End(CurrentSwitch)
      /\ tblock' = StartLid \div BlockSize /\ chunk' = 0 /\ fresh' = {}
      /\ buffer' = IF Job.multicast THEN buffer ELSE Zeros
      /\ UNCHANGED <<tables, node, dumped, failed>>
  BY DEF Begin
<1>2. TablesShaped /\ scenario \in Scenarios /\ node \in Switches /\ scenario' = scenario
  BY <1>1 DEF TInv, TablesShaped, tables
<1>3. WasGrows
  BY <1>1, <1>2, SameWas
<1>4. BlockSize \in Nat \ {0} /\ StartLid \in Nat
  BY <1>2, TableParts
<1>5. /\ tblock' \in Nat /\ tblock' * BlockSize \in Nat
      /\ tblock' * BlockSize <= StartLid
  <2>1. tblock' \in Nat /\ StartLid % BlockSize \in 0..(BlockSize - 1)
        /\ StartLid = (tblock' * BlockSize) + (StartLid % BlockSize)
    BY <1>1, <1>4, PlaceOf
  <2>2. tblock' * BlockSize \in Nat
    BY <1>4, <2>1, Times
  <2>3. \A x \in Nat, y \in 0..(BlockSize - 1) : StartLid = x + y => x <= StartLid
    BY <1>4
  <2> DEFINE x == tblock' * BlockSize
             y == StartLid % BlockSize
  <2>4. x \in Nat /\ y \in 0..(BlockSize - 1) /\ StartLid = x + y
    BY <2>1, <2>2
  <2> HIDE DEF x, y
  <2>5. x <= StartLid
    BY <2>3, <2>4
  <2> QED BY <2>1, <2>2, <2>5 DEF x
<1>6. buffer' \in [AllChunks -> [Places -> SUBSET Nat]]
  <2>1. [q \in Places |-> IF Job.multicast THEN {} ELSE {0}] \in [Places -> SUBSET Nat]
    OBVIOUS
  <2>2. Zeros \in [AllChunks -> [Places -> SUBSET Nat]]
    BY <2>1 DEF Zeros
  <2> QED BY <1>1, <1>2, <2>2 DEF TablesShaped
<1>7. endlid' \in Nat /\ endlid' = End(scenario.switches[node'])
  BY <1>1, <1>2, TableParts DEF CurrentSwitch
<1>8. TablesShaped'
  BY <1>1, <1>2, <1>5, <1>6, <1>7, SameWas
<1>9. ReadIsSo'
  <2>1. Chunks(CurrentSwitch)' = Chunks(CurrentSwitch)
    BY <1>1, <1>2, SameJob DEF CurrentSwitch
  <2>2. \A c \in Chunks(CurrentSwitch) : ~(c < 0)
    BY <1>2, TableParts DEF Chunks, CurrentSwitch
  <2> QED BY <1>1, <2>1, <2>2 DEF ReadIsSo
<1>10. DoneSo'
  <2>1. ASSUME NEW s \in Switches, NEW l \in Lids, Behind(s, l)'
        PROVE  Behind(s, l) \/ (LeftOut(s, l) \/ Complete(s, l))'
    <3>1. CASE s < node
      BY <3>1 DEF Behind
    <3>2. CASE ~(s < node)
      <4>1. s = node /\ l < tblock' * BlockSize
        BY <1>1, <2>1, <3>2 DEF Behind
      <4>2. l \in Nat
        BY DEF Lids
      <4>3. ~InRange(s, l)
        <5> DEFINE x == tblock' * BlockSize
        <5>0. x \in Nat /\ x <= StartLid /\ l < x
          BY <1>5, <4>1
        <5> HIDE DEF x
        <5>1. ~(StartLid <= l)
          BY <1>4, <4>2, <5>0
        <5> HIDE DEF StartLid
        <5> QED BY <5>1 DEF InRange
      <4>4. ~InRange(s, l)'
        BY <1>2, <4>3, SameJob
      <4> QED BY <4>4 DEF Complete
    <3> QED BY <3>1, <3>2
  <2> QED BY <1>1, <1>3, <2>1, DoneStays
<1>11. \A r \in dumped' : TrueLine(r)'
  BY <1>1, <1>3, DumpedStays
<1> QED BY <1>8, <1>9, <1>10, <1>11 DEF TInv

LEMMA NoSwitchStep ==
  ASSUME TInv, NoSwitch
  PROVE  TInv'
<1>1. /\ pc = "begin" /\ pc' = "failed"
      /\ UNCHANGED <<tables, node, endlid, tblock, chunk, buffer, dumped, failed>>
  BY DEF NoSwitch
<1>2. TablesShaped
  BY DEF TInv
<1>3. WasGrows
  BY <1>1, <1>2, SameWas
<1>4. TablesShaped'
  BY <1>1, <1>2, SameWas DEF TablesShaped
<1>5. ReadIsSo'
  BY <1>1 DEF ReadIsSo
<1>6. DoneSo'
  BY <1>1, <1>3, DoneStays DEF Behind
<1>7. \A r \in dumped' : TrueLine(r)'
  BY <1>1, <1>3, DumpedStays
<1> QED BY <1>4, <1>5, <1>6, <1>7 DEF TInv

\* The chunks before one that is no chunk of the switch are all.
LEMMA ChunksAreFirst ==
  ASSUME scenario \in Scenarios, node \in Switches, NEW k \in Nat, k \notin Chunks(CurrentSwitch)
  PROVE  \A c \in Chunks(CurrentSwitch) : c < k
<1>1. CASE Job.multicast
  <2> DEFINE n == (CurrentSwitch.nports + ChunkSize) \div ChunkSize
  <2>1. Chunks(CurrentSwitch) = 0..(n - 1)
    BY <1>1 DEF Chunks
  <2>2. n \in Nat
    <3>1. CurrentSwitch.nports + ChunkSize \in Nat /\ ChunkSize \in Nat \ {0}
      BY TableParts DEF CurrentSwitch
    <3> QED BY <3>1, PlaceOf
  <2> HIDE DEF n
  <2> QED BY <2>1, <2>2
<1>2. CASE ~Job.multicast
  BY <1>2 DEF Chunks
<1> QED BY <1>1, <1>2

LEMMA ChunksAreNat ==
  ASSUME scenario \in Scenarios, node \in Switches
  PROVE  Chunks(CurrentSwitch) \subseteq Nat
BY DEF Chunks

LEMMA ReadChunkStep ==
  ASSUME TInv, ReadChunk
  PROVE  TInv'
<1> DEFINE Read == [q \in Places |-> InChunk(chunk, entry[node][tblock * BlockSize + q])]
<1>1. /\ pc = "read" /\ tblock <= LastBlock(endlid) /\ chunk \in Chunks(CurrentSwitch)
      /\ buffer' = [buffer EXCEPT ![chunk] = Read]
      /\ fresh' = fresh \cup {chunk} /\ chunk' = chunk + 1
      /\ UNCHANGED <<tables, node, pc, endlid, tblock, dumped, failed>>
  BY DEF ReadChunk, Reading
<1>2. TablesShaped /\ scenario \in Scenarios /\ node \in Switches /\ scenario' = scenario
  BY <1>1 DEF TInv, TablesShaped, tables
<1>3. WasGrows
  BY <1>1, <1>2, SameWas
<1>4. \A q \in Places : (tblock * BlockSize) + q \in Lids
  BY <1>1, <1>2, BlocksRead, TableParts DEF TablesShaped, CurrentSwitch
<1>5. \A q \in Places :
        LET l == (tblock * BlockSize) + q
        IN  Read[q] = InChunk(chunk, entry[node][l]) /\ entry[node][l] \in was[node][l]
  BY <1>2, <1>4 DEF TablesShaped
<1>6. Read \in [Places -> SUBSET Nat]
  <2>1. \A l \in Lids : entry[node][l] \subseteq Nat
    BY <1>2 DEF TablesShaped
  <2>2. \A c, v : v \subseteq Nat => InChunk(c, v) \subseteq Nat
    BY DEF InChunk
  <2> QED BY <1>4, <2>1, <2>2
<1> HIDE DEF Read
<1>7. chunk \in AllChunks
  BY <1>1, <1>2 DEF AllChunks, CurrentSwitch
<1>8. /\ buffer' \in [AllChunks -> [Places -> SUBSET Nat]]
      /\ buffer'[chunk] = Read
      /\ \A c \in AllChunks : c # chunk => buffer'[c] = buffer[c]
  BY <1>1, <1>2, <1>6, <1>7 DEF TablesShaped
<1>9. TablesShaped'
  BY <1>1, <1>2, <1>8, SameWas DEF TablesShaped, CurrentSwitch
<1>10. ReadIsSo'
  <2>1. Chunks(CurrentSwitch)' = Chunks(CurrentSwitch) /\ \A c, v : InChunk(c, v)' = InChunk(c, v)
    BY <1>1, <1>2, SameJob DEF CurrentSwitch
  <2>2. fresh' \subseteq Chunks(CurrentSwitch)
    BY <1>1 DEF TInv, ReadIsSo
  <2>3. ASSUME node \notin failed, NEW c \in Chunks(CurrentSwitch), c < chunk + 1
        PROVE  c \in fresh'
    <3>1. c < chunk => c \in fresh
      BY <1>1, <2>3 DEF TInv, ReadIsSo
    <3>2. c \in Nat /\ chunk \in Nat
      BY <1>2, <2>3, ChunksAreNat DEF TablesShaped
    <3>3. c < chunk \/ c = chunk
      BY <2>3, <3>2
    <3> QED BY <1>1, <3>1, <3>3
  <2>4. ASSUME NEW c \in fresh', NEW q \in Places
        PROVE  \E v \in was[node][(tblock * BlockSize) + q] : buffer'[c][q] = InChunk(c, v)
    <3>1. CASE c = chunk
      BY <1>5, <1>8, <3>1
    <3>2. CASE c # chunk
      <4>1. c \in fresh /\ c \in AllChunks
        BY <1>1, <1>2, <2>2, <3>2 DEF AllChunks, CurrentSwitch
      <4>2. buffer'[c] = buffer[c]
        BY <1>8, <3>2, <4>1
      <4> QED BY <1>1, <4>1, <4>2 DEF TInv, ReadIsSo
    <3> QED BY <3>1, <3>2
  <2>5. was' = was
    BY <1>1 DEF tables
  <2> QED BY <1>1, <1>4, <2>1, <2>2, <2>3, <2>4, <2>5 DEF ReadIsSo
<1>11. DoneSo'
  BY <1>1, <1>3, DoneStays DEF Behind
<1>12. \A r \in dumped' : TrueLine(r)'
  BY <1>1, <1>3, DumpedStays
<1> QED BY <1>9, <1>10, <1>11, <1>12 DEF TInv

LEMMA ReadFailsStep ==
  ASSUME TInv, ReadFails
  PROVE  TInv'
<1>1. /\ pc = "read" /\ failed' = failed \cup {node}
      /\ (pc' = "failed" /\ chunk' = chunk) \/ (pc' = pc /\ chunk' = chunk + 1)
      /\ UNCHANGED <<tables, node, endlid, tblock, buffer, fresh, dumped>>
  BY DEF ReadFails, Reading
<1>2. TablesShaped /\ scenario \in Scenarios /\ node \in Switches /\ scenario' = scenario
  BY <1>1 DEF TInv, TablesShaped, tables
<1>3. WasGrows
  BY <1>1, <1>2, SameWas
<1>4. TablesShaped'
  BY <1>1, <1>2, SameWas DEF TablesShaped, CurrentSwitch
<1>5. ReadIsSo'
  <2>1. Chunks(CurrentSwitch)' = Chunks(CurrentSwitch) /\ \A c, v : InChunk(c, v)' = InChunk(c, v)
    BY <1>1, <1>2, SameJob DEF CurrentSwitch
  <2>2. was' = was
    BY <1>1 DEF tables
  <2> QED BY <1>1, <2>1, <2>2 DEF ReadIsSo, TInv
<1>6. DoneSo'
  BY <1>1, <1>3, DoneStays DEF Behind
<1>7. \A r \in dumped' : TrueLine(r)'
  BY <1>1, <1>3, DumpedStays
<1> QED BY <1>4, <1>5, <1>6, <1>7 DEF TInv

\* A block that was read wholly shows an entry that was valid all the time as valid.
LEMMA ReadIsValid ==
  ASSUME TInv, pc = "read", fresh = Chunks(CurrentSwitch), tblock <= LastBlock(endlid),
         NEW q \in Places, StaysValid(node, (tblock * BlockSize) + q)
  PROVE  Valid(CurrentSwitch, Value((tblock * BlockSize) + q))
<1> DEFINE l == (tblock * BlockSize) + q
<1>1. /\ TablesShaped /\ scenario \in Scenarios /\ node \in Switches
      /\ buffer \in [AllChunks -> [Places -> SUBSET Nat]]
  BY DEF TInv, TablesShaped
<1>2. Index(l) = q
  BY <1>1, PlaceInBlock DEF TablesShaped
<1>3. ASSUME NEW c \in Chunks(CurrentSwitch)
      PROVE  \E v \in was[node][l] : buffer[c][q] = InChunk(c, v)
  BY <1>3 DEF TInv, ReadIsSo
<1> HIDE DEF l
<1>4. ASSUME NEW c \in Chunks(CurrentSwitch)
      PROVE  /\ InChunk(c, Value(l)) = InChunk(c, buffer[c][q])
             /\ ~Job.multicast => Value(l) = buffer[c][q]
  <2>1. Index(l) \in Places
    BY <1>2
  <2> QED BY <1>1, <1>2, <1>4, <2>1, ValueIs
<1>5. CASE Job.multicast
  <2>1. PICK c \in Chunks(CurrentSwitch) : \A v \in was[node][l] : InChunk(c, v) # {}
    BY <1>5 DEF StaysValid, CurrentSwitch, l
  <2>2. PICK v \in was[node][l] : buffer[c][q] = InChunk(c, v)
    BY <1>3
  <2>3. InChunk(c, Value(l)) # {}
    BY <1>4, <2>1, <2>2, InChunkTwice
  <2>4. Value(l) # {}
    BY <2>3 DEF InChunk
  <2> QED BY <1>5, <2>4 DEF Valid, l
<1>6. CASE ~Job.multicast
  <2>1. 0 \in Chunks(CurrentSwitch)
    BY <1>6 DEF Chunks
  <2>2. PICK v \in was[node][l] : buffer[0][q] = InChunk(0, v)
    BY <1>3, <2>1
  <2>3. Value(l) = v
    BY <1>4, <1>6, <2>1, <2>2 DEF InChunk
  <2>4. Valid(CurrentSwitch, v)
    BY <1>6, <2>2 DEF StaysValid, CurrentSwitch, l
  <2> QED BY <2>3, <2>4 DEF l
<1> QED BY <1>5, <1>6

LEMMA PrintBlockStep ==
  ASSUME TInv, PrintBlock
  PROVE  TInv'
<1>1. /\ pc = "read" /\ tblock <= LastBlock(endlid) /\ chunk \notin Chunks(CurrentSwitch)
      /\ tblock' = tblock + 1 /\ chunk' = 0 /\ fresh' = {}
      /\ UNCHANGED <<tables, node, pc, endlid, buffer, failed>>
  BY DEF PrintBlock
<1>2. PICK known : dumped' = dumped \cup Lines(known).lines
  BY DEF PrintBlock
<1>3. TablesShaped /\ scenario \in Scenarios /\ node \in Switches /\ scenario' = scenario
  BY <1>1 DEF TInv, TablesShaped, tables
<1>4. WasGrows
  BY <1>1, <1>3, SameWas
<1>5. /\ \A r \in Lines(known).lines : TrueLine(r)
      /\ \A q \in Places : Printed(q) =>
           \E r \in Lines(known).lines : r.node = node /\ r.lid = (tblock * BlockSize) + q
  BY <1>1, LinesAreTrue DEF TInv
<1>6. TablesShaped'
  BY <1>1, <1>3, SameWas DEF TablesShaped, CurrentSwitch
<1>7. BlockSize \in Nat \ {0} /\ tblock \in Nat /\ chunk \in Nat /\ endlid = End(CurrentSwitch)
      /\ endlid \in Nat /\ StartLid \in Nat
  BY <1>1, <1>3, TableParts DEF TablesShaped
<1>8. ReadIsSo'
  <2>1. Chunks(CurrentSwitch)' = Chunks(CurrentSwitch)
    BY <1>1, <1>3, SameJob DEF CurrentSwitch
  <2>2. \A c \in Chunks(CurrentSwitch) : ~(c < 0)
    BY <1>3, ChunksAreNat
  <2> QED BY <1>1, <2>1, <2>2 DEF ReadIsSo
<1>9. \A r \in dumped' : TrueLine(r)'
  <2>1. ASSUME NEW r \in dumped' PROVE TrueLine(r)
    BY <1>2, <1>5, <2>1 DEF TInv
  <2> QED BY <1>4, <2>1, TrueStays
<1>10. node \notin failed => fresh = Chunks(CurrentSwitch)
  <2>1. \A c \in Chunks(CurrentSwitch) : c < chunk
    BY <1>1, <1>3, <1>7, ChunksAreFirst
  <2> QED BY <1>1, <2>1 DEF TInv, ReadIsSo
<1>11. ASSUME NEW s \in Switches, s = node, NEW l \in Lids,
              ~(l < tblock * BlockSize), l < (tblock + 1) * BlockSize
       PROVE  Complete(s, l)'
  <2> DEFINE x == tblock * BlockSize
             q == l - x
  <2>1. x \in Nat /\ (tblock + 1) * BlockSize = x + BlockSize
    BY <1>7, Times
  <2>2. ~(l < x) /\ l < x + BlockSize
    BY <1>11, <2>1
  <2>3. l \in Nat
    BY DEF Lids
  <2> HIDE DEF x
  <2>4. q \in Places /\ x + q = l
    BY <1>7, <2>1, <2>2, <2>3 DEF Places
  <2> HIDE DEF q
  <2>5. SUFFICES ASSUME InRange(node, l), node \notin failed, Job.all \/ StaysValid(node, l)
                 PROVE  \E r \in dumped' : r.node = node /\ r.lid = l
    <3>1. InRange(s, l)' = InRange(s, l) /\ Job' = Job
      BY <1>3, SameJob
    <3>2. StaysValid(s, l)' => StaysValid(s, l)
      <4>1. was' = was
        BY <1>1 DEF tables
      <4> QED BY <1>3, <4>1, SameJob DEF StaysValid
    <3> QED BY <1>1, <1>11, <3>1, <3>2 DEF Complete
  <2>6. l \in ToPrint(tblock)
    <3>1. l \in StartLid..endlid
      BY <1>7, <2>5 DEF InRange, CurrentSwitch
    <3>2. StartLid <= l /\ l <= endlid
      BY <1>7, <2>3, <3>1
    <3>3. (IF x < StartLid THEN StartLid ELSE x) <= l
      BY <1>7, <2>1, <2>2, <2>3, <3>2
    <3>4. l <= (IF x + BlockSize - 1 < endlid THEN x + BlockSize - 1 ELSE endlid)
      BY <1>7, <2>1, <2>2, <2>3, <3>2
    <3>5. ToPrint(tblock) = (IF x < StartLid THEN StartLid ELSE x)..
                            (IF x + BlockSize - 1 < endlid THEN x + BlockSize - 1 ELSE endlid)
      BY DEF ToPrint, FirstLid, Least, x
    <3>6. /\ (IF x < StartLid THEN StartLid ELSE x) \in Int
          /\ (IF x + BlockSize - 1 < endlid THEN x + BlockSize - 1 ELSE endlid) \in Int
      BY <1>7, <2>1
    <3> QED BY <2>3, <3>3, <3>4, <3>5, <3>6
  <2>7. Job.all \/ Valid(CurrentSwitch, Value(x + q))
    <3>1. CASE Job.all
      BY <3>1
    <3>2. CASE StaysValid(node, l)
      <4>1. StaysValid(node, (tblock * BlockSize) + q)
        BY <2>4, <3>2 DEF x
      <4> QED BY <1>1, <1>10, <2>4, <2>5, <4>1, ReadIsValid DEF x
    <3> QED BY <2>5, <3>1, <3>2
  <2>8. Printed(q)
    BY <2>4, <2>6, <2>7 DEF Printed, x
  <2> QED BY <1>2, <1>5, <2>4, <2>8 DEF x
<1>12. DoneSo'
  <2>1. ASSUME NEW s \in Switches, NEW l \in Lids, Behind(s, l)'
        PROVE  Behind(s, l) \/ (LeftOut(s, l) \/ Complete(s, l))'
    <3>1. CASE Behind(s, l)
      BY <3>1
    <3>2. CASE ~Behind(s, l)
      <4>1. s = node /\ ~(l < tblock * BlockSize) /\ l < (tblock + 1) * BlockSize
        BY <1>1, <2>1, <3>2 DEF Behind
      <4> QED BY <1>11, <4>1
    <3> QED BY <3>1, <3>2
  <2> QED BY <1>1, <1>2, <1>4, <2>1, DoneStays
<1> QED BY <1>6, <1>8, <1>9, <1>12 DEF TInv

LEMMA EndSwitchStep ==
  ASSUME TInv, EndSwitch
  PROVE  TInv'
<1>1. /\ pc = "read" /\ ~(tblock <= LastBlock(endlid))
      /\ \/ node' = node + 1 /\ node + 1 \in Switches /\ pc' = "begin"
         \/ node' = node /\ node + 1 \notin Switches /\ pc' = "done"
      /\ UNCHANGED <<tables, endlid, tblock, chunk, buffer, fresh, dumped, failed>>
  <2>1. TablesShaped
    BY DEF TInv
  <2>2. tblock \in Nat /\ LastBlock(endlid) \in Int /\ node \in Switches
    <3>1. BlockSize \in Nat \ {0} /\ endlid \in Nat /\ tblock \in Nat /\ node \in Switches
      BY <2>1, TableParts DEF TablesShaped
    <3>2. endlid \div BlockSize \in Int
      BY <3>1, PlaceOf
    <3>3. (endlid + BlockSize - 1) \div BlockSize \in Nat
          /\ ((endlid + BlockSize - 1) \div BlockSize) * BlockSize \in Nat
          /\ (((endlid + BlockSize - 1) \div BlockSize) * BlockSize) \div BlockSize
                = (endlid + BlockSize - 1) \div BlockSize
      BY <3>1, Ceiling
    <3>4. Align(endlid) \div BlockSize - 1 \in Int
      BY <3>3 DEF Align
    <3> QED BY <3>1, <3>2, <3>4 DEF LastBlock
  <2> QED BY <2>2 DEF EndSwitch
<1>2. TablesShaped /\ scenario \in Scenarios /\ node \in Switches /\ scenario' = scenario
  BY <1>1 DEF TInv, TablesShaped, tables
<1>3. WasGrows
  BY <1>1, <1>2, SameWas
<1>4. TablesShaped'
  BY <1>1, <1>2, SameWas DEF TablesShaped
<1>5. ReadIsSo'
  BY <1>1 DEF ReadIsSo
<1>6. endlid = End(CurrentSwitch) /\ endlid \in Nat /\ tblock \in Nat /\ StartLid \in Nat
      /\ endlid <= MaxMcast /\ node \in Nat
  BY <1>1, <1>2, TableParts DEF TablesShaped, CurrentSwitch, Switches
<1>7. DoneSo'
  <2>1. ASSUME NEW s \in Switches, NEW l \in Lids, Behind(s, l)'
        PROVE  Behind(s, l) \/ (LeftOut(s, l) \/ Complete(s, l))'
    <3>1. s < node \/ s = node
      <4>1. s \in Nat
        BY DEF Switches
      <4> QED BY <1>1, <1>6, <2>1, <4>1 DEF Behind
    <3>2. CASE s < node
      BY <3>2 DEF Behind
    <3>3. CASE s = node
      <4>1. l \in Nat
        BY DEF Lids
      <4>2. CASE ~(l <= endlid)
        <5>1. l \notin StartLid..endlid
          BY <1>6, <4>1, <4>2
        <5>2. ~InRange(s, l)
          BY <1>6, <3>3, <5>1 DEF InRange, CurrentSwitch
        <5>3. ~InRange(s, l)'
          BY <1>2, <5>2, SameJob
        <5> QED BY <5>3 DEF Complete
      <4>3. CASE l <= endlid /\ (Job.multicast \/ l # endlid \/ l % BlockSize # 0)
        <5>1. l < tblock * BlockSize
          BY <1>1, <1>2, <1>6, <4>1, <4>3, BlocksPast
        <5> QED BY <1>1, <3>3, <5>1 DEF Behind
      <4>4. CASE ~Job.multicast /\ l = endlid /\ l % BlockSize = 0
        <5>1. LeftOut(s, l)
          BY <1>6, <3>3, <4>4 DEF LeftOut, CurrentSwitch
        <5>2. LeftOut(s, l)'
          BY <1>2, <5>1, SameJob
        <5> QED BY <5>2
      <4> QED BY <4>2, <4>3, <4>4
    <3> QED BY <3>1, <3>2, <3>3
  <2> QED BY <1>1, <1>3, <2>1, DoneStays
<1>8. \A r \in dumped' : TrueLine(r)'
  BY <1>1, <1>3, DumpedStays
<1> QED BY <1>4, <1>5, <1>7, <1>8 DEF TInv

LEMMA TablesStep == TInv /\ [TablesNext]_tablevars => TInv'
<1>1. SUFFICES ASSUME TInv, [TablesNext]_tablevars PROVE TInv'
  OBVIOUS
<1>2. ASSUME UNCHANGED tablevars PROVE TInv'
  <2>1. UNCHANGED <<tables, node, pc, endlid, tblock, chunk, buffer, fresh, dumped, failed>>
    BY <1>2 DEF tablevars
  <2>2. TablesShaped /\ scenario' = scenario /\ was' = was
    BY <1>1, <2>1 DEF TInv, tables
  <2>3. WasGrows
    BY <2>1, <2>2, SameWas
  <2>4. TablesShaped'
    BY <2>1, <2>2, SameWas DEF TablesShaped, CurrentSwitch
  <2>5. ReadIsSo'
    <3>1. Chunks(CurrentSwitch)' = Chunks(CurrentSwitch) /\ \A c, v : InChunk(c, v)' = InChunk(c, v)
      BY <2>1, <2>2, SameJob DEF CurrentSwitch
    <3> QED BY <1>1, <2>1, <2>2, <3>1 DEF TInv, ReadIsSo
  <2>6. DoneSo'
    BY <1>1, <2>1, <2>3, DoneStays DEF Behind
  <2>7. \A r \in dumped' : TrueLine(r)'
    BY <1>1, <2>1, <2>3, DumpedStays
  <2> QED BY <2>4, <2>5, <2>6, <2>7 DEF TInv
<1> QED BY <1>1, <1>2, SmWritesStep, BeginStep, NoSwitchStep, ReadChunkStep, ReadFailsStep,
           PrintBlockStep, EndSwitchStep DEF TablesNext

\* Lines keep their numbers.
LEMMA NumbersStep == LidsOfPorts /\ TInv /\ PInv /\ [TablesNext]_tablevars => PInv'
<1> SUFFICES ASSUME LidsOfPorts, TInv, PInv, [TablesNext]_tablevars PROVE PInv'
  OBVIOUS
<1>1. scenario' = scenario
  BY DEF TablesNext, SmWrites, Begin, NoSwitch, ReadChunk, ReadFails, PrintBlock, EndSwitch,
         tablevars, tables
<1>2. \A r : NumberedLine(r)' <=> NumberedLine(r)
  BY <1>1 DEF NumberedLine
<1>3. \A at, next : Numbered(at, next)' <=> Numbered(at, next)
  BY <1>1 DEF Numbered
<1>4. CASE Begin
  <2>1. numbering' = [last |-> 0, base |-> 0] /\ dumped' = dumped
        /\ tblock' = StartLid \div BlockSize
    BY <1>4 DEF Begin
  <2>2. tblock' * BlockSize \in Nat
    <3>1. BlockSize \in Nat \ {0} /\ StartLid \in Nat
      BY TableParts DEF TInv, TablesShaped
    <3>2. tblock' \in Nat
      BY <2>1, <3>1, PlaceOf
    <3> QED BY <3>1, <3>2, Times
  <2>3. Numbered([last |-> 0, base |-> 0], tblock' * BlockSize)
    <3>1. scenario.owner[0] = [base |-> 0, size |-> 1]
      <4>1. 0 \in Lids /\ scenario \in Scenarios
        BY TableParts DEF Lids, TInv, TablesShaped
      <4> QED BY <4>1 DEF LidsOfPorts
    <3>2. \A m \in 0..0 : m = 0
      OBVIOUS
    <3> DEFINE x == tblock' * BlockSize
    <3>3. x \in Nat
      BY <2>2
    <3> HIDE DEF x
    <3>4. Numbered([last |-> 0, base |-> 0], x)
      BY <3>1, <3>2, <3>3 DEF Numbered
    <3> QED BY <3>4 DEF x
  <2>4. Numbered(numbering, tblock * BlockSize)'
    BY <1>1, <2>1, <2>3 DEF Numbered
  <2> QED BY <1>2, <2>1, <2>4 DEF PInv
<1>5. CASE PrintBlock
  <2>1. PICK known : dumped' = dumped \cup Lines(known).lines /\ numbering' = Lines(known).at
    BY <1>5 DEF PrintBlock
  <2>2. pc = "read" /\ tblock <= LastBlock(endlid) /\ tblock' = tblock + 1
    BY <1>5 DEF PrintBlock
  <2>3. /\ Numbered(Lines(known).at, (tblock + 1) * BlockSize)
        /\ \A r \in Lines(known).lines : NumberedLine(r)
    BY <2>2, LinesAreNumbered DEF TInv, PInv
  <2>4. Numbered(numbering, tblock * BlockSize)'
    BY <1>1, <2>1, <2>2, <2>3 DEF Numbered
  <2>5. \A r \in dumped' : NumberedLine(r)
    BY <2>1, <2>3 DEF PInv
  <2> QED BY <1>2, <2>4, <2>5 DEF PInv
<1>6. CASE SmWrites \/ NoSwitch \/ ReadChunk \/ ReadFails \/ EndSwitch \/ UNCHANGED tablevars
  <2>1. UNCHANGED <<numbering, tblock, dumped>> /\ (pc' = "read" => pc = "read")
    BY <1>6 DEF SmWrites, NoSwitch, ReadChunk, ReadFails, EndSwitch, tablevars
  <2>2. pc = "read" => Numbered(numbering, tblock * BlockSize)'
    BY <1>1, <2>1 DEF PInv, Numbered
  <2> QED BY <1>2, <2>1, <2>2 DEF PInv
<1> QED BY <1>4, <1>5, <1>6 DEF TablesNext

\* Every line is what the entry was, chunk by chunk, and the paths to a port are numbered
\* as that port's, for any tables, any size of blocks and chunks, and any writes of the
\* subnet manager and failed reads between, if the LIDs of a port are those from its base
\* LID on (ibroute.c:255, dump_fts.c:348).
THEOREM DumpsAreTrue ==
  ASSUME LidsOfPorts
  PROVE  TablesSpec => []DumpedWasTrue
<1>1. TablesInit => TInv /\ PInv
  BY TablesStart
<1>2. (TInv /\ PInv) /\ [TablesNext]_tablevars => (TInv /\ PInv)'
  BY TablesStep, NumbersStep
<1>3. TInv /\ PInv => DumpedWasTrue
  BY DEF TInv, PInv, TrueLine, NumberedLine, DumpedWasTrue
<1> QED BY <1>1, <1>2, <1>3, PTL DEF TablesSpec

\* A tool that could read every block printed each entry in the range that was valid all
\* the time, but for a last LID that begins a block of a unicast table, whatever the
\* subnet manager wrote meanwhile (ibroute.c:210, 355-377; dump_fts.c:330-345).
THEOREM ValidsAreDumped == TablesSpec => []ValidIsDumped
<1>1. TablesInit => TInv
  BY TablesStart
<1>2. TInv /\ [TablesNext]_tablevars => TInv'
  BY TablesStep
<1>3. TInv => ValidIsDumped
  <2> SUFFICES ASSUME TInv, pc = "done", NEW s \in Switches, NEW l \in Lids
               PROVE  LeftOut(s, l) \/ Complete(s, l)
    BY DEF ValidIsDumped
  <2>1. node \in Switches /\ node + 1 \notin Switches
    BY DEF TInv, TablesShaped
  <2>2. Len(scenario.switches) \in Nat
    BY FwdTablesAssumption DEF TInv, TablesShaped
  <2>3. s < node \/ s = node
    BY <2>1, <2>2 DEF Switches
  <2>4. Behind(s, l)
    BY <2>3 DEF Behind
  <2> QED BY <2>4 DEF TInv, DoneSo
<1> QED BY <1>1, <1>2, <1>3, PTL DEF TablesSpec
=============================================================================
