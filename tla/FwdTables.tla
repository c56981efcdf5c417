----------------------------- MODULE FwdTables -----------------------------
(***************************************************************************)
(* ibroute (src/ibroute.c) and dump_fts (src/dump_fts.c): they print the   *)
(* forwarding tables of one switch, or of all switches of a fabric that    *)
(* was scanned before, block by block, while the subnet manager writes     *)
(* them.  Unicast tables give a port for each LID; multicast tables give a *)
(* set of ports for each group, read in chunks of ports.                   *)
(*                                                                         *)
(* Abstractions.  The entry of a LID is a set of ports, of one port for    *)
(* unicast.  Of the description of a destination only what numbers the     *)
(* paths to it is kept.  Printing is left out, and so are ports above 127, *)
(* which the char lft[] of both programs takes for invalid ones.           *)
(***************************************************************************)
EXTENDS Integers, Sequences

CONSTANTS
  BlockSize,        \* entries in a block: IB_SMP_DATA_SIZE, IB_MLIDS_IN_BLOCK
  ChunkSize,        \* ports in a chunk of a multicast table (16)
  MaxUcast,         \* IB_MAX_UCAST_LID
  MinMcast,         \* IB_MIN_MCAST_LID
  MaxMcast,         \* IB_MAX_MCAST_LID
  Scenarios,        \* switches, the LIDs of ports, and what is asked for
  MaxEvents         \* writes of the subnet manager (a bound)

ASSUME FwdTablesAssumption ==
  /\ BlockSize \in Nat \ {0} /\ ChunkSize \in Nat \ {0}
  /\ {MaxUcast, MinMcast, MaxMcast} \subseteq Nat
  /\ MinMcast % BlockSize = 0 /\ MaxUcast < MinMcast /\ MinMcast <= MaxMcast
  /\ \A s \in Scenarios :
       /\ {s.job.multicast, s.job.all, s.job.brief} \subseteq BOOLEAN
       /\ {s.job.start, s.job.end} \subseteq Nat
       /\ Len(s.switches) \in Nat \ {0}
       /\ \A i \in 1..Len(s.switches) :
            LET sw == s.switches[i]
            IN  /\ {sw.nports, sw.top, sw.mtop} \subseteq Nat /\ sw.cap \in Nat \ {0}
                /\ sw.entry \in [0..(MaxMcast + BlockSize) -> SUBSET Nat]
       /\ s.values \subseteq SUBSET Nat

Lids == 0..(MaxMcast + BlockSize)

VARIABLES
  scenario,
  entry,            \* the tables, by switch and LID
  was,              \* the values an entry has had since the tool began
  events,
  node,             \* the switch at hand
  pc,               \* "begin", "read", "done", "failed"
  endlid,           \* last LID to print
  tblock, chunk,    \* what is read next
  buffer,           \* lft, mft: by chunk and place in the block
  fresh,            \* chunks of this block that were read
  dumped,           \* lines printed
  numbering,        \* last_port_lid, base_port_lid
  failed            \* switches of which a block could not be read

tables == <<scenario, entry, was, events>>
tablevars == <<tables, node, pc, endlid, tblock, chunk, buffer, fresh, dumped, numbering, failed>>

Job == scenario.job
Switches == 1..Len(scenario.switches)
CurrentSwitch == scenario.switches[node]
Places == 0..(BlockSize - 1)

Chunks(sw) == IF Job.multicast THEN 0..((sw.nports + ChunkSize) \div ChunkSize - 1) ELSE {0}
InChunk(c, ports) == IF Job.multicast THEN {p \in ports : p \div ChunkSize = c} ELSE ports
AllChunks == UNION {Chunks(scenario.switches[s]) : s \in Switches}

\* lft is a local variable, set to zeros; mft is static.
Zeros == [c \in AllChunks |-> [q \in Places |-> IF Job.multicast THEN {} ELSE {0}]]

TablesInit ==
  /\ scenario \in Scenarios
  /\ entry = [s \in Switches |-> scenario.switches[s].entry]
  /\ was = [s \in Switches |-> [l \in Lids |-> {entry[s][l]}]]
  /\ events = 0
  /\ node = 1 /\ pc = "begin" /\ endlid = 0 /\ tblock = 0 /\ chunk = 0
  /\ buffer = Zeros /\ fresh = {}
  /\ dumped = {} /\ numbering = [last |-> 0, base |-> 0]
  /\ failed = {}

\* The subnet manager routes a LID another way.
SmWrites ==
  /\ events < MaxEvents /\ events' = events + 1
  /\ \E s \in Switches, l \in Lids \cap scenario.written, ports \in scenario.values :
       /\ entry' = [entry EXCEPT ![s][l] = ports]
       /\ was' = [was EXCEPT ![s][l] = @ \cup {ports}]
  /\ UNCHANGED <<scenario, node, pc, endlid, tblock, chunk, buffer, fresh, dumped, numbering, failed>>

------------------------------------------------------------------------------
(* The range. *)

Least(a, b) == IF a < b THEN a ELSE b

UnicastEnd(sw) ==
  Least(IF Job.end = 0 \/ Job.end > sw.top THEN sw.top ELSE Job.end, MaxUcast)

\* mcast top is used unless it says nothing (0) or is no multicast LID.
MulticastEnd(sw) ==
  LET last == MinMcast + sw.cap - 1
      end == IF Job.end = 0 \/ Job.end > last THEN last ELSE Job.end
  IN  Least(IF ~Job.all /\ sw.mtop # 0 /\ sw.mtop < end /\ sw.mtop >= MinMcast - 1
            THEN sw.mtop ELSE end, MaxMcast)

StartLid == IF Job.multicast /\ Job.start < MinMcast THEN MinMcast ELSE Job.start
End(sw) == IF Job.multicast THEN MulticastEnd(sw) ELSE UnicastEnd(sw)

\* ALIGN(l, size)
Align(l) == ((l + BlockSize - 1) \div BlockSize) * BlockSize

\* Mutant of LastBlock: the last block of a multicast table is taken for one past it.
LastBlockPast(end) == Align(end) \div BlockSize - 1

\* Unicast tables are read up to the block before ALIGN(endlid), multicast tables up
\* to the block of endlid.
LastBlock(end) == IF Job.multicast THEN end \div BlockSize ELSE Align(end) \div BlockSize - 1

FirstLid(b) == IF b * BlockSize < StartLid THEN StartLid ELSE b * BlockSize

ToPrint(b) == FirstLid(b)..Least(b * BlockSize + BlockSize - 1, endlid)

------------------------------------------------------------------------------
(* Lines. *)

\* Mutant of Index: the place in the block is counted from the first LID printed.
IndexFromStart(l) == (l - StartLid) % BlockSize

Index(l) == l % BlockSize

Value(l) == UNION {InChunk(c, buffer[c][Index(l)]) : c \in Chunks(CurrentSwitch)}

Valid(sw, ports) ==
  IF Job.multicast THEN ports # {} ELSE \A p \in ports : p <= sw.nports

\* Mutant of LastPath: one LID too many.
LastPathPast(owner) == owner.base + owner.size

LastPath(owner) == owner.base + owner.size - 1

\* dump_lid: what is said of the destination, and what is remembered of it.  The
\* LIDs of a port that has several are numbered once its first line is printed.
Describe(at, l, valid, known) ==
  LET owner == scenario.owner[l]
      Says(kind, index, of) == [kind |-> kind, index |-> index, of |-> of]
  IN  IF Job.brief \/ Job.multicast THEN [at |-> at, says |-> Says("nothing", 0, 0)]
      ELSE IF l <= at.last
      THEN [at |-> at, says |-> IF valid THEN Says("path", l - at.base + 1, at.last - at.base + 1)
                                ELSE Says("illegal path", l - at.base, 0)]
      ELSE IF ~valid THEN [at |-> at, says |-> Says("illegal", 0, 0)]
      ELSE IF ~known THEN [at |-> at, says |-> Says("unknown", 0, 0)]
      ELSE [ at |-> IF owner.size > 1 THEN [last |-> LastPath(owner), base |-> owner.base] ELSE at,
             says |-> Says("port", 0, 0) ]

Line(l, says) ==
  [node |-> node, lid |-> l, value |-> Value(l), fresh |-> fresh = Chunks(CurrentSwitch),
   says |-> says]

\* One turn of the loop over the LIDs of the block, l not yet treated: lines are the
\* lines before it, at what is remembered of the destinations.
WithLid(so, l, known) ==
  LET valid == Valid(CurrentSwitch, Value(l))
      d == Describe(so.at, l, valid, l \in known)
  IN  IF l \notin ToPrint(tblock) \/ (~valid /\ ~Job.all) THEN so
      ELSE [at |-> d.at, lines |-> so.lines \cup {Line(l, d.says)}]

\* The lines of the block, and what is remembered after them.
Lines(known) ==
  LET Upto[q \in 0..BlockSize] ==
        IF q = 0 THEN [at |-> numbering, lines |-> {}]
        ELSE WithLid(Upto[q - 1], (tblock * BlockSize) + (q - 1), known)
  IN  Upto[BlockSize]

------------------------------------------------------------------------------
(* The tools. *)

IsIbroute == Job.tool = "ibroute"

\* What the switch says of its tables, or (dump_fts) said when the fabric was scanned.
Begin ==
  /\ pc = "begin"
  /\ pc' = "read"
  /\ endlid' = End(CurrentSwitch)
  /\ tblock' = StartLid \div BlockSize
  /\ chunk' = 0 /\ fresh' = {}
  /\ buffer' = IF Job.multicast THEN buffer ELSE Zeros
  /\ numbering' = [last |-> 0, base |-> 0]
  /\ UNCHANGED <<tables, node, dumped, failed>>

\* check_switch
NoSwitch ==
  /\ pc = "begin" /\ IsIbroute
  /\ pc' = "failed"
  /\ UNCHANGED <<tables, node, endlid, tblock, chunk, buffer, fresh, dumped, numbering, failed>>

Reading == pc = "read" /\ tblock <= LastBlock(endlid) /\ chunk \in Chunks(CurrentSwitch)

ReadChunk ==
  /\ Reading
  /\ buffer' = [buffer EXCEPT ![chunk] =
                  [q \in Places |-> InChunk(chunk, entry[node][tblock * BlockSize + q])]]
  /\ fresh' = fresh \cup {chunk}
  /\ chunk' = chunk + 1
  /\ UNCHANGED <<tables, node, pc, endlid, tblock, dumped, numbering, failed>>

\* ibroute ends; dump_fts goes on with what is in the buffer.
ReadFails ==
  /\ Reading
  /\ failed' = failed \cup {node}
  /\ IF IsIbroute THEN pc' = "failed" /\ UNCHANGED chunk
     ELSE chunk' = chunk + 1 /\ UNCHANGED pc
  /\ UNCHANGED <<tables, node, endlid, tblock, buffer, fresh, dumped, numbering>>

PrintBlock ==
  /\ pc = "read" /\ tblock <= LastBlock(endlid) /\ chunk \notin Chunks(CurrentSwitch)
  /\ \E known \in IF Job.brief \/ Job.multicast THEN {{}} ELSE SUBSET ToPrint(tblock) :
       /\ dumped' = dumped \cup Lines(known).lines
       /\ numbering' = Lines(known).at
  /\ tblock' = tblock + 1 /\ chunk' = 0 /\ fresh' = {}
  /\ UNCHANGED <<tables, node, pc, endlid, buffer, failed>>

\* The next switch, if there is one (process_switch).
EndSwitch ==
  /\ pc = "read" /\ tblock > LastBlock(endlid)
  /\ IF node \in Switches /\ node + 1 \in Switches THEN node' = node + 1 /\ pc' = "begin"
     ELSE pc' = "done" /\ UNCHANGED node
  /\ UNCHANGED <<tables, endlid, tblock, chunk, buffer, fresh, dumped, numbering, failed>>

TablesNext == SmWrites \/ Begin \/ NoSwitch \/ ReadChunk \/ ReadFails \/ PrintBlock \/ EndSwitch

TablesSpec == TablesInit /\ [][TablesNext]_tablevars

------------------------------------------------------------------------------
EntryHad(r) ==
  \A c \in Chunks(scenario.switches[r.node]) :
    \E v \in was[r.node][r.lid] : InChunk(c, r.value) = InChunk(c, v)

\* A line whose block was read says what the entry of that LID, in that switch, was at
\* some time since the tool began, chunk of ports by chunk of ports, whatever the
\* subnet manager writes meanwhile (after a read that failed dump_fts prints what is
\* in its buffer, dump_fts.c:348).  And a line that numbers the paths to a port numbers
\* those to the port that has the LID, whether or not the lines before it were printed,
\* resolved, or valid (ibroute.c:255).
DumpedWasTrue ==
  \A r \in dumped :
    /\ r.fresh => EntryHad(r)
    /\ r.says.kind = "path" =>
         /\ scenario.owner[r.lid].size = r.says.of
         /\ scenario.owner[r.lid].base = r.lid - r.says.index + 1

InRange(s, l) == l \in StartLid..End(scenario.switches[s])

\* An entry that was valid all the time.  A multicast entry is read in chunks: one of
\* them has to have had ports all the time, or the ports may change sides meanwhile.
StaysValid(s, l) ==
  LET sw == scenario.switches[s]
  IN  IF Job.multicast THEN \E c \in Chunks(sw) : \A v \in was[s][l] : InChunk(c, v) # {}
      ELSE \A v \in was[s][l] : Valid(sw, v)

\* "all valid entries in the range 1...FDBTop" and of the range asked for
\* (doc/rst/ibroute.8.in.rst).
Complete(s, l) ==
  InRange(s, l) /\ s \notin failed /\ (Job.all \/ StaysValid(s, l))
    => \E r \in dumped : r.node = s /\ r.lid = l

\* A last LID that begins a block of a unicast table is not read.
LeftOut(s, l) == ~Job.multicast /\ l = End(scenario.switches[s]) /\ l % BlockSize = 0

\* A tool that could read every block prints every entry in the range that was valid
\* all the time, but for a last LID that begins a block of a unicast table.
ValidIsDumped ==
  pc = "done" => \A s \in Switches, l \in Lids : LeftOut(s, l) \/ Complete(s, l)

\* What DumpedWasTrue asks of the subnet manager: the LIDs of a port are those from its
\* base LID on, and LID 0 is no port's.
LidsOfPorts ==
  \A s \in Scenarios : \A l \in Lids :
    LET owner == s.owner[l]
    IN  /\ owner.base \in Nat /\ owner.size \in Nat \ {0}
        /\ owner.base <= l
        /\ \A m \in Lids : m \in owner.base..(owner.base + owner.size - 1) => s.owner[m] = owner
        /\ l = 0 => owner = [base |-> 0, size |-> 1]

=============================================================================
