------------------------------- MODULE SmpWire -------------------------------
(***************************************************************************)
(* The two places an SMP of libibnetdisc can wait in: the FIFO queue of    *)
(* the engine and the wire, which holds at most cfg->max_smps SMPs         *)
(* (libibnetdisc/src/query_smp.c: queue_smp, get_smp, process_smp_queue).  *)
(* SmpEngine and Discovery are built on these operators.                   *)
(***************************************************************************)
EXTENDS Integers, Sequences, FiniteSets

CONSTANT MaxSmps    \* cfg->max_smps

\* set_config (ibnetdisc.c) replaces a max_smps of 0 by its default.
ASSUME MaxSmpsAssumption == MaxSmps \in Nat \ {0}

VARIABLES
  queue,            \* smp_queue_head .. smp_queue_tail
  wire              \* smps_on_wire

Queued == {queue[i] : i \in 1..Len(queue)}

\* Mutant of Enqueue: a new SMP goes to the head.
EnqueueFirst(q, smp) == <<smp>> \o q

\* queue_smp: a new SMP goes to the tail.
Enqueue(q, smp) == Append(q, smp)

\* Mutant of Room: the wire takes one SMP too few.
RoomTooFew(q, w) ==
  LET free == MaxSmps - 1 - Cardinality(w)
  IN  IF free < 0 THEN 0 ELSE IF free < Len(q) THEN free ELSE Len(q)

(***************************************************************************)
(* process_smp_queue.  It moves SMPs from the head of q to the wire w      *)
(* until the wire is full or the queue empty.  If a umad_send fails, that  *)
(* SMP is freed, the error is returned and the rest stays queued.          *)
(***************************************************************************)
Room(q, w) ==
  LET free == MaxSmps - Cardinality(w)
  IN  IF free < 0 THEN 0 ELSE IF free < Len(q) THEN free ELSE Len(q)

\* Every SMP that fits is sent, nothing fails.
SendAll(q, w) ==
  LET n == Room(q, w)
  IN  /\ wire' = w \cup {q[i] : i \in 1..n}
      /\ queue' = SubSeq(q, n + 1, Len(q))

\* The sends before the n-th work and the n-th fails.
SendFails(q, w, n) ==
  /\ wire' = w \cup {q[i] : i \in 1..(n - 1)}
  /\ queue' = SubSeq(q, n + 1, Len(q))

\* Never more than max_smps SMPs on the wire: process_smp_queue stops there
\* whichever of issue_smp and process_one_recv called it.
WireBound == Cardinality(wire) <= MaxSmps

\* An SMP waits in q only while the wire w is full.
Full(q, w) == q # <<>> => Cardinality(w) = MaxSmps
=============================================================================
