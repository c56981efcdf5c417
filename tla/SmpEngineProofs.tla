--------------------------- MODULE SmpEngineProofs ---------------------------
(***************************************************************************)
(* Proofs about SmpEngine for every max_smps, every set of requests and    *)
(* every bound on the number of SMPs.                                      *)
(*                                                                         *)
(* WorkConserving is not inductive alone.  It needs WireBound (a refill    *)
(* adds at most one SMP), and the order of transaction ids (the SMP taken  *)
(* from the queue is not on the wire already, so the wire grows).          *)
(*                                                                         *)
(* The second half is that the engine implements SmpService: what is       *)
(* queued, on the wire or in a callback is what is pending there.          *)
(***************************************************************************)
EXTENDS SmpEngine, SequenceTheorems, FiniteSetTheorems, TLAPS

\* No SMP has an id that mad_trid has yet to hand out.
IdsIssued ==
  /\ \A i \in 1..Len(queue) : queue[i].trid <= trid
  /\ \A s \in wire \cup current : s.trid <= trid

\* Only a running callback owns an SMP taken off the wire.
CallbackOwner == pc # "callback" => current = {}

IInv ==
  /\ TypeOK
  /\ WireBound
  /\ WorkConserving
  /\ SentInOrder
  /\ IdsIssued
  /\ CallbackOwner
  /\ DoneMeansNothingLeft

------------------------------------------------------------------------------
\* The two lists process_smp_queue is called with: at most one SMP can move.
AtMostOneMoves(q, w) ==
  q # <<>> => Len(q) = 1 \/ Cardinality(w) >= MaxSmps - 1

LEMMA RoomValue ==
  ASSUME NEW q \in Seq(Smps), NEW w \in SUBSET Smps, IsFiniteSet(w),
         Cardinality(w) <= MaxSmps, AtMostOneMoves(q, w)
  PROVE  Room(q, w) = IF q = <<>> \/ Cardinality(w) = MaxSmps THEN 0 ELSE 1
<1> DEFINE c == Cardinality(w)
           l == Len(q)
<1>1. /\ c \in Nat /\ l \in Nat /\ c <= MaxSmps
      /\ q = <<>> <=> l = 0
      /\ q # <<>> => l = 1 \/ c >= MaxSmps - 1
  BY FS_CardinalityType, EmptySeq, LenProperties DEF AtMostOneMoves
<1>2. MaxSmps \in Nat
  BY MaxSmpsAssumption
<1>3. Room(q, w) = IF MaxSmps - c < 0 THEN 0
                   ELSE IF MaxSmps - c < l THEN MaxSmps - c ELSE l
  BY DEF Room
<1> HIDE DEF c, l
<1>4. Room(q, w) = IF q = <<>> \/ c = MaxSmps THEN 0 ELSE 1
  BY <1>1, <1>2, <1>3
<1> QED BY <1>4 DEF c

(***************************************************************************)
(* What process_smp_queue does when at most one SMP can move and every     *)
(* umad_send works: nothing, or the head of the queue goes to the wire.    *)
(***************************************************************************)
LEMMA SendAllStep ==
  ASSUME NEW q \in Seq(Smps), NEW w \in SUBSET Smps, IsFiniteSet(w),
         Cardinality(w) <= MaxSmps, AtMostOneMoves(q, w), SendAll(q, w)
  PROVE  \/ wire' = w /\ queue' = q /\ (q = <<>> \/ Cardinality(w) = MaxSmps)
         \/ /\ q # <<>>
            /\ Cardinality(w) < MaxSmps
            /\ wire' = w \cup {q[1]}
            /\ queue' = Tail(q)
<1>1. Cardinality(w) \in Nat /\ MaxSmps \in Nat
  BY FS_CardinalityType, MaxSmpsAssumption
<1>2. CASE q = <<>> \/ Cardinality(w) = MaxSmps
  <2>1. Room(q, w) = 0
    BY <1>2, RoomValue
  <2>2. wire' = w
    BY <2>1 DEF SendAll
  <2>3. queue' = q
    BY <2>1, SubSeqFull DEF SendAll
  <2> QED BY <1>2, <2>2, <2>3
<1>3. CASE q # <<>> /\ Cardinality(w) # MaxSmps
  <2>1. Room(q, w) = 1
    BY <1>3, RoomValue
  <2>2. wire' = w \cup {q[1]}
    <3>1. {q[i] : i \in 1..1} = {q[1]}
      OBVIOUS
    <3> QED BY <2>1, <3>1 DEF SendAll
  <2>3. queue' = Tail(q)
    BY <2>1, <1>3, TailIsSubSeq DEF SendAll
  <2> QED BY <1>1, <1>3, <2>2, <2>3
<1> QED BY <1>2, <1>3

\* The same when a umad_send fails: the head of the queue is dropped.
LEMMA SendFailsStep ==
  ASSUME NEW q \in Seq(Smps), NEW w \in SUBSET Smps, IsFiniteSet(w),
         Cardinality(w) <= MaxSmps, AtMostOneMoves(q, w),
         NEW n \in 1..Room(q, w), SendFails(q, w, n)
  PROVE  /\ n = 1
         /\ q # <<>>
         /\ Cardinality(w) < MaxSmps
         /\ wire' = w
         /\ queue' = Tail(q)
<1>1. Cardinality(w) \in Nat /\ MaxSmps \in Nat
  BY FS_CardinalityType, MaxSmpsAssumption
<1>2. Room(q, w) = IF q = <<>> \/ Cardinality(w) = MaxSmps THEN 0 ELSE 1
  BY RoomValue
<1>3. n = 1 /\ q # <<>> /\ Cardinality(w) # MaxSmps
  BY <1>2
<1>4. wire' = w
  BY <1>3 DEF SendFails
<1>5. queue' = Tail(q)
  BY <1>3, TailIsSubSeq DEF SendFails
<1> QED BY <1>1, <1>3, <1>4, <1>5

------------------------------------------------------------------------------
(***************************************************************************)
(* The list facts a refill of the wire w from the queue q preserves, with  *)
(* c the SMPs (a callback's) that left the wire before.                    *)
(***************************************************************************)
Backlog(q, w, c, id) ==
  /\ q \in Seq(Smps)
  /\ w \subseteq Smps
  /\ IsFiniteSet(w)
  /\ Cardinality(w) <= MaxSmps
  /\ Ordered(q, w \cup c)
  /\ \A i \in 1..Len(q) : q[i].trid <= id
  /\ \A s \in w \cup c : s.trid <= id

\* Dropping the head of the queue, whether it was sent or not.
LEMMA TailKeepsOrder ==
  ASSUME NEW q \in Seq(Smps), NEW smps, NEW id, q # <<>>,
         Ordered(q, smps), \A i \in 1..Len(q) : q[i].trid <= id
  PROVE  /\ Tail(q) \in Seq(Smps)
         /\ Ordered(Tail(q), smps \cup {q[1]})
         /\ \A i \in 1..Len(Tail(q)) : Tail(q)[i].trid <= id
         /\ q[1] \in Smps
         /\ q[1] \notin smps
         /\ q[1].trid <= id
<1>1. /\ Tail(q) \in Seq(Smps)
      /\ Len(Tail(q)) = Len(q) - 1
      /\ \A i \in 1..Len(Tail(q)) : Tail(q)[i] = q[i + 1]
  BY HeadTailProperties
<1>2. Len(q) \in Nat /\ 1 \in 1..Len(q)
  BY EmptySeq, LenProperties
<1>3. \A i \in 1..Len(Tail(q)) : i + 1 \in 1..Len(q) /\ 1 < i + 1
  BY <1>1, <1>2
<1>4. q[1] \in Smps
  BY <1>2, ElementOfSeq
<1>5. q[1].trid \in Nat
  BY <1>4 DEF Smps
<1>6. q[1] \notin smps
  BY <1>2, <1>5 DEF Ordered
<1>7. \A i, j \in 1..Len(Tail(q)) : i < j => Tail(q)[i].trid < Tail(q)[j].trid
  <2> SUFFICES ASSUME NEW i \in 1..Len(Tail(q)), NEW j \in 1..Len(Tail(q)), i < j
               PROVE  Tail(q)[i].trid < Tail(q)[j].trid
    OBVIOUS
  <2>1. i + 1 \in 1..Len(q) /\ j + 1 \in 1..Len(q) /\ i + 1 < j + 1
    BY <1>3
  <2> QED BY <1>1, <2>1 DEF Ordered
<1>8. \A i \in 1..Len(Tail(q)), s \in smps \cup {q[1]} : s.trid < Tail(q)[i].trid
  BY <1>1, <1>2, <1>3 DEF Ordered
<1> QED BY <1>1, <1>2, <1>3, <1>4, <1>6, <1>7, <1>8 DEF Ordered

\* A refill that works leaves the queue empty or the wire full.
LEMMA SendAllFills ==
  ASSUME NEW q, NEW w, NEW c, NEW id,
         Backlog(q, w, c, id), AtMostOneMoves(q, w), SendAll(q, w)
  PROVE  Backlog(queue', wire', c, id) /\ Full(queue', wire')
<1> USE DEF Backlog
<1>1. CASE wire' = w /\ queue' = q /\ (q = <<>> \/ Cardinality(w) = MaxSmps)
  BY <1>1 DEF Full
<1>2. CASE /\ q # <<>>
           /\ Cardinality(w) < MaxSmps
           /\ wire' = w \cup {q[1]}
           /\ queue' = Tail(q)
  <2>1. /\ Tail(q) \in Seq(Smps)
        /\ Ordered(Tail(q), (w \cup c) \cup {q[1]})
        /\ \A i \in 1..Len(Tail(q)) : Tail(q)[i].trid <= id
        /\ q[1] \in Smps
        /\ q[1] \notin w \cup c
        /\ q[1].trid <= id
    BY <1>2, TailKeepsOrder
  <2>2. /\ IsFiniteSet(wire')
        /\ Cardinality(wire') = Cardinality(w) + 1
    BY <1>2, <2>1, FS_AddElement
  <2>3. Cardinality(w) \in Nat /\ MaxSmps \in Nat
    BY FS_CardinalityType, MaxSmpsAssumption
  <2>4. Ordered(queue', wire' \cup c)
    <3>1. wire' \cup c = (w \cup c) \cup {q[1]}
      BY <1>2
    <3> QED BY <1>2, <2>1, <3>1
  <2>5. Cardinality(wire') <= MaxSmps
    BY <1>2, <2>2, <2>3
  <2>6. Full(queue', wire')
    <3>1. q # <<>> => Len(q) = 1 \/ Cardinality(w) >= MaxSmps - 1
      BY DEF AtMostOneMoves
    <3>2. Len(q) = 1 => Tail(q) = <<>>
      BY <1>2, HeadTailProperties, EmptySeq
    <3>3. Cardinality(w) >= MaxSmps - 1 => Cardinality(wire') = MaxSmps
      BY <1>2, <2>2, <2>3
    <3> QED BY <1>2, <3>1, <3>2, <3>3 DEF Full
  <2>7. \A s \in wire' \cup c : s.trid <= id
    BY <1>2, <2>1
  <2> QED BY <1>2, <2>1, <2>2, <2>4, <2>5, <2>6, <2>7
<1> QED BY <1>1, <1>2, SendAllStep

\* A refill whose umad_send fails keeps the order; nothing goes to the wire.
LEMMA SendFailsKeeps ==
  ASSUME NEW q, NEW w, NEW c, NEW id, Backlog(q, w, c, id),
         AtMostOneMoves(q, w), NEW n \in 1..Room(q, w), SendFails(q, w, n)
  PROVE  /\ Backlog(queue', wire', c, id)
         /\ n = 1
         /\ q # <<>>
         /\ Cardinality(w) < MaxSmps
         /\ wire' = w
         /\ queue' = Tail(q)
<1>1. /\ n = 1
      /\ q # <<>>
      /\ Cardinality(w) < MaxSmps
      /\ wire' = w
      /\ queue' = Tail(q)
  BY SendFailsStep DEF Backlog
<1>2. /\ Tail(q) \in Seq(Smps)
      /\ Ordered(Tail(q), (w \cup c) \cup {q[1]})
      /\ \A i \in 1..Len(Tail(q)) : Tail(q)[i].trid <= id
  BY <1>1, TailKeepsOrder DEF Backlog
<1>3. Ordered(Tail(q), w \cup c)
  BY <1>2 DEF Ordered
<1> QED BY <1>1, <1>2, <1>3 DEF Backlog

------------------------------------------------------------------------------
\* The part of the invariant that a refill disturbs.
QueueInv == Backlog(queue, wire, current, trid)

LEMMA IInvQueue == IInv => QueueInv
  BY DEF IInv, QueueInv, Backlog, TypeOK, WireBound, SentInOrder, IdsIssued

\* issue_smp appends one SMP; then at most one can be sent.
LEMMA IssueBacklog ==
  ASSUME IInv, NEW req \in Reqs, pc # "failed"
  PROVE  /\ Backlog(Enqueue(queue, NewSmp(req)), wire, current, trid + 1)
         /\ AtMostOneMoves(Enqueue(queue, NewSmp(req)), wire)
<1> DEFINE q == Enqueue(queue, NewSmp(req))
<1>1. trid \in Nat /\ queue \in Seq(Smps) /\ QueueInv
  BY IInvQueue DEF IInv, TypeOK
<1>2. NewSmp(req) \in Smps /\ NewSmp(req).trid = trid + 1
  BY <1>1 DEF NewSmp, Smps
<1>3. /\ q \in Seq(Smps)
      /\ Len(q) = Len(queue) + 1
      /\ \A i \in 1..Len(queue) : q[i] = queue[i]
      /\ q[Len(queue) + 1] = NewSmp(req)
  BY <1>1, <1>2, AppendProperties DEF Enqueue
<1>4. Len(queue) \in Nat
  BY <1>1, LenProperties
<1>5. \A i \in 1..Len(q) : i \in 1..Len(queue) \/ i = Len(queue) + 1
  BY <1>3, <1>4
<1>6. \A i \in 1..Len(queue) : queue[i].trid \in Nat /\ queue[i].trid <= trid
  <2>1. \A i \in 1..Len(queue) : queue[i] \in Smps
    BY <1>1, ElementOfSeq
  <2> QED BY <1>1, <2>1 DEF QueueInv, Backlog, Smps
<1>7. \A s \in wire \cup current : s.trid \in Nat /\ s.trid <= trid
  BY DEF IInv, TypeOK, IdsIssued, Smps
<1>8. Ordered(q, wire \cup current)
  <2>1. \A i, j \in 1..Len(q) : i < j => q[i].trid < q[j].trid
    <3> SUFFICES ASSUME NEW i \in 1..Len(q), NEW j \in 1..Len(q), i < j
                 PROVE  q[i].trid < q[j].trid
      OBVIOUS
    <3>1. i \in 1..Len(queue)
      BY <1>3, <1>4
    <3>2. CASE j \in 1..Len(queue)
      BY <1>3, <3>1, <3>2 DEF IInv, SentInOrder, Ordered
    <3>3. CASE j = Len(queue) + 1
      BY <1>1, <1>2, <1>3, <1>6, <3>1, <3>3
    <3> QED BY <1>5, <3>2, <3>3
  <2>2. \A i \in 1..Len(q), s \in wire \cup current : s.trid < q[i].trid
    <3> SUFFICES ASSUME NEW i \in 1..Len(q), NEW s \in wire \cup current
                 PROVE  s.trid < q[i].trid
      OBVIOUS
    <3>1. CASE i \in 1..Len(queue)
      BY <1>3, <3>1 DEF IInv, SentInOrder, Ordered
    <3>2. CASE i = Len(queue) + 1
      BY <1>1, <1>2, <1>3, <1>7, <3>2
    <3> QED BY <1>5, <3>1, <3>2
  <2> QED BY <2>1, <2>2 DEF Ordered
<1>9. \A i \in 1..Len(q) : q[i].trid <= trid + 1
  <2> SUFFICES ASSUME NEW i \in 1..Len(q) PROVE q[i].trid <= trid + 1
    OBVIOUS
  <2>1. CASE i \in 1..Len(queue)
    BY <1>1, <1>3, <1>6, <2>1
  <2>2. CASE i = Len(queue) + 1
    BY <1>1, <1>2, <1>3, <2>2
  <2> QED BY <1>5, <2>1, <2>2
<1>10. Backlog(q, wire, current, trid + 1)
  BY <1>1, <1>3, <1>7, <1>8, <1>9 DEF QueueInv, Backlog
<1>11. AtMostOneMoves(q, wire)
  <2>1. CASE queue = <<>>
    BY <1>3, <2>1, EmptySeq DEF AtMostOneMoves
  <2>2. CASE queue # <<>>
    BY <2>2, MaxSmpsAssumption DEF IInv, WorkConserving, Full, AtMostOneMoves
  <2> QED BY <2>1, <2>2
<1> QED BY <1>10, <1>11

\* process_one_recv takes one SMP off the wire; then at most one can be sent.
LEMMA RecvBacklog ==
  ASSUME IInv, NEW s \in wire, pc = "recv"
  PROVE  /\ Backlog(queue, wire \ {s}, {s}, trid)
         /\ Backlog(queue, wire \ {s}, {}, trid)
         /\ AtMostOneMoves(queue, wire \ {s})
<1>1. QueueInv /\ current = {}
  BY IInvQueue DEF IInv, CallbackOwner
<1>2. /\ IsFiniteSet(wire \ {s})
      /\ Cardinality(wire \ {s}) = Cardinality(wire) - 1
  BY <1>1, FS_RemoveElement DEF QueueInv, Backlog
<1>3. Cardinality(wire) \in Nat /\ MaxSmps \in Nat /\ Cardinality(wire) <= MaxSmps
  BY <1>1, FS_CardinalityType, MaxSmpsAssumption DEF QueueInv, Backlog
<1>4. Cardinality(wire \ {s}) <= MaxSmps
  BY <1>2, <1>3
<1>5. (wire \ {s}) \cup {s} = wire /\ (wire \ {s}) \cup {} \subseteq wire
  OBVIOUS
<1>6. Ordered(queue, (wire \ {s}) \cup {s}) /\ Ordered(queue, (wire \ {s}) \cup {})
  BY <1>1, <1>5 DEF QueueInv, Backlog, Ordered
<1>7. AtMostOneMoves(queue, wire \ {s})
  <2>1. queue # <<>> => Cardinality(wire) = MaxSmps
    BY DEF IInv, WorkConserving, Full
  <2> QED BY <1>2, <1>3, <2>1 DEF AtMostOneMoves
<1> QED BY <1>1, <1>2, <1>4, <1>5, <1>6, <1>7 DEF QueueInv, Backlog

------------------------------------------------------------------------------
LEMMA InitIInv == Init => IInv
<1> SUFFICES ASSUME Init PROVE IInv
  OBVIOUS
<1>1. Cardinality(wire) = 0 /\ IsFiniteSet(wire)
  BY FS_EmptySet DEF Init
<1>2. MaxSmps \in Nat
  BY MaxSmpsAssumption
<1>3. TypeOK
  BY <1>1, EmptySeq DEF Init, TypeOK
<1>4. Len(queue) = 0
  BY EmptySeq DEF Init
<1>5. SentInOrder /\ IdsIssued
  BY <1>4 DEF Init, SentInOrder, Ordered, IdsIssued
<1> QED BY <1>1, <1>2, <1>3, <1>5
        DEF Init, IInv, WireBound, WorkConserving, Full, CallbackOwner, DoneMeansNothingLeft

\* The ids freed in a step are ids of SMPs.
LEMMA NewlyFreed ==
  ASSUME TypeOK
  PROVE  /\ Trids(Queued) \subseteq Nat \ {0}
         /\ Trids(wire) \subseteq Nat \ {0}
         /\ Trids(current) \subseteq Nat \ {0}
<1>1. \A i \in 1..Len(queue) : queue[i] \in Smps
  BY ElementOfSeq DEF TypeOK
<1> QED BY <1>1 DEF TypeOK, Smps, Trids, Queued

LEMMA RoomIsNat ==
  ASSUME NEW q \in Seq(Smps), NEW w \in SUBSET Smps, IsFiniteSet(w)
  PROVE  Room(q, w) \in Nat
<1> DEFINE c == Cardinality(w)
           l == Len(q)
<1>1. c \in Nat /\ l \in Nat /\ MaxSmps \in Nat
  BY FS_CardinalityType, LenProperties, MaxSmpsAssumption
<1>2. Room(q, w) = IF MaxSmps - c < 0 THEN 0
                   ELSE IF MaxSmps - c < l THEN MaxSmps - c ELSE l
  BY DEF Room
<1> HIDE DEF c, l
<1> QED BY <1>1, <1>2

\* Each operation of the engine preserves the invariant.
LEMMA NextIInv == IInv /\ [Next]_vars => IInv'
<1> SUFFICES ASSUME IInv, [Next]_vars PROVE IInv'
  OBVIOUS
<1>0. TypeOK /\ QueueInv
  BY IInvQueue DEF IInv
<1>1. ASSUME NEW req \in Reqs, IssueOk(req) PROVE IInv'
  <2> DEFINE q == Enqueue(queue, NewSmp(req))
  <2>1. pc \in {"caller", "callback"}
    BY <1>1 DEF IssueOk, MayIssue
  <2>2. Backlog(q, wire, current, trid + 1) /\ AtMostOneMoves(q, wire)
    BY <2>1, IssueBacklog
  <2>3. Backlog(queue', wire', current, trid + 1) /\ Full(queue', wire')
    BY <1>1, <2>2, SendAllFills DEF IssueOk
  <2>4. total' \in Nat
    <3>1. Room(q, wire) \in Nat
      BY <2>2, RoomIsNat DEF Backlog
    <3> QED BY <1>0, <1>1, <3>1 DEF IssueOk, SendAll, TypeOK
  <2> QED BY <1>0, <1>1, <2>1, <2>3, <2>4
          DEF IssueOk, IInv, TypeOK, WireBound, WorkConserving, SentInOrder,
              IdsIssued, CallbackOwner, DoneMeansNothingLeft, Backlog, Full
<1>2. ASSUME NEW req \in Reqs, IssueFails(req) PROVE IInv'
  <2> DEFINE q == Enqueue(queue, NewSmp(req))
  <2>1. pc \in {"caller", "callback"}
    BY <1>2 DEF IssueFails, MayIssue
  <2>2. Backlog(q, wire, current, trid + 1) /\ AtMostOneMoves(q, wire)
    BY <2>1, IssueBacklog
  <2>3. PICK n \in 1..Room(q, wire) :
          /\ SendFails(q, wire, n)
          /\ total' = total + (n - 1)
          /\ freed' = freed \cup {q[n].trid}
    BY <1>2 DEF IssueFails
  <2>4. /\ Backlog(queue', wire', current, trid + 1)
        /\ n = 1
        /\ q # <<>>
        /\ Cardinality(wire) < MaxSmps
        /\ wire' = wire
        /\ queue' = Tail(q)
    BY <2>2, <2>3, SendFailsKeeps
  <2>5. queue' = <<>>
    <3>1. queue = <<>>
      <4>1. Cardinality(wire) \in Nat /\ MaxSmps \in Nat
        BY <1>0, FS_CardinalityType, MaxSmpsAssumption DEF TypeOK
      <4> QED BY <2>1, <2>4, <4>1 DEF IInv, WorkConserving, Full
    <3>2. NewSmp(req) \in Smps
      BY <1>0 DEF TypeOK, NewSmp, Smps
    <3> QED BY <2>4, <3>1, <3>2, HeadTailAppend, EmptySeq DEF Enqueue
  <2>6. q[n].trid \in Nat \ {0}
    <3>1. q \in Seq(Smps) /\ 1 \in 1..Len(q)
      BY <2>2, <2>4, EmptySeq DEF Backlog
    <3>2. q[1] \in Smps
      BY <3>1, ElementOfSeq
    <3> QED BY <2>4, <3>2 DEF Smps
  <2>7. total' \in Nat
    BY <1>0, <2>3, <2>4 DEF TypeOK
  <2>8. trid' = trid + 1 /\ UNCHANGED <<current, pc>>
    BY <1>2 DEF IssueFails
  <2>9. TypeOK'
    <3>1. freed' \subseteq Nat \ {0}
      BY <1>0, <2>3, <2>6 DEF TypeOK
    <3>2. trid' \in Nat /\ current' \subseteq Smps
      BY <1>0, <2>8 DEF TypeOK
    <3>3. queue' \in Seq(Smps) /\ wire' \subseteq Smps /\ IsFiniteSet(wire')
      BY <2>4 DEF Backlog
    <3> QED BY <1>0, <2>7, <2>8, <3>1, <3>2, <3>3 DEF TypeOK
  <2>10. WireBound' /\ WorkConserving' /\ SentInOrder' /\ IdsIssued'
    BY <2>4, <2>5, <2>8 DEF WireBound, WorkConserving, Full, SentInOrder, IdsIssued, Backlog
  <2>11. CallbackOwner' /\ DoneMeansNothingLeft'
    BY <2>1, <2>8 DEF IInv, CallbackOwner, DoneMeansNothingLeft
  <2> QED BY <2>9, <2>10, <2>11 DEF IInv
<1>3. ASSUME Run PROVE IInv'
  BY <1>0, <1>3 DEF Run, IInv, TypeOK, WireBound, WorkConserving, Full, SentInOrder,
     IdsIssued, CallbackOwner, DoneMeansNothingLeft
<1>4. ASSUME NEW s \in wire, RecvRunsCallback(s) PROVE IInv'
  <2>1. pc = "recv"
    BY <1>4 DEF RecvRunsCallback, Arrives
  <2>2. Backlog(queue, wire \ {s}, {s}, trid) /\ AtMostOneMoves(queue, wire \ {s})
    BY <2>1, RecvBacklog
  <2>3. Backlog(queue', wire', {s}, trid) /\ Full(queue', wire')
    BY <1>4, <2>2, SendAllFills DEF RecvRunsCallback
  <2>4. total' \in Nat
    <3>1. Room(queue, wire \ {s}) \in Nat
      BY <2>2, RoomIsNat DEF Backlog
    <3> QED BY <1>0, <1>4, <3>1 DEF RecvRunsCallback, SendAll, TypeOK
  <2> QED BY <1>0, <1>4, <2>1, <2>3, <2>4
          DEF RecvRunsCallback, IInv, TypeOK, WireBound, WorkConserving, SentInOrder,
              IdsIssued, CallbackOwner, DoneMeansNothingLeft, Backlog, Full
<1>5. ASSUME NEW s \in wire, RecvBadStatus(s) PROVE IInv'
  <2>1. pc = "recv" /\ current = {}
    BY <1>5 DEF RecvBadStatus, Arrives, IInv, CallbackOwner
  <2>2. Backlog(queue, wire \ {s}, {}, trid) /\ AtMostOneMoves(queue, wire \ {s})
    BY <2>1, RecvBacklog
  <2>3. Backlog(queue', wire', {}, trid) /\ Full(queue', wire')
    BY <1>5, <2>2, SendAllFills DEF RecvBadStatus
  <2>4. total' \in Nat
    <3>1. Room(queue, wire \ {s}) \in Nat
      BY <2>2, RoomIsNat DEF Backlog
    <3> QED BY <1>0, <1>5, <3>1 DEF RecvBadStatus, SendAll, TypeOK
  <2>5. freed' \subseteq Nat \ {0}
    BY <1>0, <1>5 DEF RecvBadStatus, TypeOK, Smps
  <2> QED BY <1>0, <1>5, <2>1, <2>3, <2>4, <2>5
          DEF RecvBadStatus, IInv, TypeOK, WireBound, WorkConserving, SentInOrder,
              IdsIssued, CallbackOwner, DoneMeansNothingLeft, Backlog, Full
<1>6. ASSUME NEW s \in wire, RecvRefillFails(s) PROVE IInv'
  <2>1. pc = "recv" /\ current = {}
    BY <1>6 DEF RecvRefillFails, Arrives, IInv, CallbackOwner
  <2>2. Backlog(queue, wire \ {s}, {}, trid) /\ AtMostOneMoves(queue, wire \ {s})
    BY <2>1, RecvBacklog
  <2>3. PICK n \in 1..Room(queue, wire \ {s}) :
          /\ SendFails(queue, wire \ {s}, n)
          /\ total' = total + (n - 1)
          /\ freed' = freed \cup {s.trid, queue[n].trid}
    BY <1>6 DEF RecvRefillFails
  <2>4. /\ Backlog(queue', wire', {}, trid)
        /\ n = 1
        /\ queue # <<>>
    BY <2>2, <2>3, SendFailsKeeps
  <2>5. queue[n] \in Smps
    <3>1. 1 \in 1..Len(queue)
      BY <1>0, <2>4, EmptySeq DEF TypeOK
    <3> QED BY <1>0, <2>4, <3>1, ElementOfSeq DEF TypeOK
  <2>6. freed' \subseteq Nat \ {0}
    BY <1>0, <2>3, <2>5 DEF TypeOK, Smps
  <2>7. total' \in Nat
    BY <1>0, <2>3, <2>4 DEF TypeOK
  <2> QED BY <1>0, <1>6, <2>1, <2>4, <2>6, <2>7
          DEF RecvRefillFails, IInv, TypeOK, WireBound, WorkConserving, Full, SentInOrder,
              IdsIssued, CallbackOwner, DoneMeansNothingLeft, Backlog
<1>7. ASSUME RecvFails PROVE IInv'
  BY <1>0, <1>7 DEF RecvFails, IInv, TypeOK, WireBound, WorkConserving, Full, SentInOrder,
     IdsIssued, CallbackOwner, DoneMeansNothingLeft
<1>8. ASSUME NEW rc \in {0, -1}, CallbackReturns(rc) PROVE IInv'
  <2>1. /\ pc = "callback" /\ pc' \in {"recv", "failed"}
        /\ current' = {}
        /\ freed' = freed \cup Trids(current)
        /\ UNCHANGED <<trid, queue, wire, total>>
    BY <1>8 DEF CallbackReturns
  <2>2. freed' \subseteq Nat \ {0}
    BY <1>0, <2>1, NewlyFreed DEF TypeOK
  <2>3. SentInOrder'
    BY <2>1 DEF IInv, SentInOrder, Ordered
  <2> QED BY <1>0, <2>1, <2>2, <2>3
          DEF IInv, TypeOK, WireBound, WorkConserving, Full,
              IdsIssued, CallbackOwner, DoneMeansNothingLeft
<1>9. ASSUME AllReceived PROVE IInv'
  <2>1. Cardinality(wire) = 0 /\ MaxSmps \in Nat \ {0}
    BY <1>9, FS_EmptySet, MaxSmpsAssumption DEF AllReceived
  <2>2. queue = <<>>
    BY <1>9, <2>1 DEF AllReceived, IInv, WorkConserving, Full
  <2> QED BY <1>0, <1>9, <2>2
          DEF AllReceived, IInv, TypeOK, WireBound, WorkConserving, Full, SentInOrder,
              IdsIssued, CallbackOwner, DoneMeansNothingLeft
<1>10. ASSUME Destroy PROVE IInv'
  <2>1. /\ freed' = freed \cup Trids(Queued) \cup Trids(wire)
        /\ queue' = <<>> /\ wire' = {} /\ pc' = "closed"
        /\ UNCHANGED <<trid, current, total>>
        /\ current = {}
    BY <1>10 DEF Destroy, IInv, CallbackOwner
  <2>2. freed' \subseteq Nat \ {0}
    BY <1>0, <2>1, NewlyFreed DEF TypeOK
  <2>3. Cardinality(wire') = 0 /\ IsFiniteSet(wire') /\ MaxSmps \in Nat
    BY <2>1, FS_EmptySet, MaxSmpsAssumption
  <2>4. queue' \in Seq(Smps) /\ Len(queue') = 0
    BY <2>1, EmptySeq
  <2>5. SentInOrder' /\ IdsIssued'
    BY <2>1, <2>4 DEF SentInOrder, Ordered, IdsIssued
  <2> QED BY <1>0, <2>1, <2>2, <2>3, <2>4, <2>5
          DEF IInv, TypeOK, WireBound, WorkConserving, Full, CallbackOwner, DoneMeansNothingLeft
<1>11. CASE UNCHANGED vars
  BY <1>0, <1>11 DEF vars, IInv, TypeOK, WireBound, WorkConserving, Full, SentInOrder,
     IdsIssued, CallbackOwner, DoneMeansNothingLeft
<1> QED BY <1>1, <1>2, <1>3, <1>4, <1>5, <1>6, <1>7, <1>8, <1>9, <1>10, <1>11
        DEF Next, Recv

------------------------------------------------------------------------------
\* The engine's state is always well formed, whatever fails (query_smp.c).
THEOREM TypeCorrect == Spec => []TypeOK
<1>1. IInv => TypeOK
  BY DEF IInv
<1> QED BY <1>1, InitIInv, NextIInv, PTL DEF Spec

\* process_smp_queue never puts more than max_smps SMPs on the wire, from
\* whichever of issue_smp, a callback or process_one_recv it is called.
THEOREM WireIsBounded == Spec => []WireBound
<1>1. IInv => WireBound
  BY DEF IInv
<1> QED BY <1>1, InitIInv, NextIInv, PTL DEF Spec

\* An SMP is queued only while the wire is full, so an answer is awaited.
THEOREM WorkIsConserved == Spec => []WorkConserving
<1>1. IInv => WorkConserving
  BY DEF IInv
<1> QED BY <1>1, InitIInv, NextIInv, PTL DEF Spec

\* SMPs are sent in the order in which issue_smp was called.
THEOREM SendingIsOrdered == Spec => []SentInOrder
<1>1. IInv => SentInOrder
  BY DEF IInv
<1> QED BY <1>1, InitIInv, NextIInv, PTL DEF Spec

\* process_mads, which only looks at the wire, returns 0 with an empty queue.
THEOREM DoneIsComplete == Spec => []DoneMeansNothingLeft
<1>1. IInv => DoneMeansNothingLeft
  BY DEF IInv
<1> QED BY <1>1, InitIInv, NextIInv, PTL DEF Spec

------------------------------------------------------------------------------
(***************************************************************************)
(* That SmpEngine implements SmpService, and that every SMP is in one      *)
(* place.                                                                  *)
(*                                                                         *)
(* A step of the engine is looked at through two sets: the ids of the SMPs *)
(* that are queued, on the wire or in a callback (Live), and those that    *)
(* were freed.  The order of the queue shows that an SMP that is moved to  *)
(* the wire is not there already, so the two sets never meet and an SMP is *)
(* freed once.                                                             *)
(***************************************************************************)
Ids(q) == {q[i].trid : i \in 1..Len(q)}

Live == Ids(queue) \cup Trids(wire) \cup Trids(current)

\* Two SMPs on the wire have different ids.
Apart(w) == \A s, t \in w : s.trid = t.trid => s = t

Placed ==
  /\ Live \cup freed = 1..trid
  /\ Live \cap freed = {}
  /\ Trids(wire) \cap Trids(current) = {}
  /\ Apart(wire)
  /\ pc = "callback" => current # {}

LEMMA QueuedIds == Trids(Queued) = Ids(queue)
BY DEF Trids, Queued, Ids

------------------------------------------------------------------------------
(* The queue. *)

LEMMA HeadId ==
  ASSUME NEW q \in Seq(Smps), q # <<>>,
         \A i, j \in 1..Len(q) : i < j => q[i].trid < q[j].trid
  PROVE  /\ Ids(q) = {q[1].trid} \cup Ids(Tail(q))
         /\ q[1].trid \notin Ids(Tail(q))
         /\ q[1].trid \in Nat
<1>1. /\ Len(Tail(q)) = Len(q) - 1
      /\ \A i \in 1..Len(Tail(q)) : Tail(q)[i] = q[i + 1]
  BY HeadTailProperties
<1>2. Len(q) \in Nat /\ 1 \in 1..Len(q)
  BY EmptySeq, LenProperties
<1>3. q[1].trid \in Nat
  <2>1. q[1] \in Smps
    BY <1>2, ElementOfSeq
  <2>2. QED
    BY <2>1 DEF Smps
<1>4. \A i \in 1..Len(Tail(q)) : i + 1 \in 1..Len(q) /\ 1 < i + 1
  BY <1>1, <1>2
<1>5. Ids(Tail(q)) \subseteq Ids(q)
  BY <1>1, <1>4 DEF Ids
<1>6. ASSUME NEW i \in 1..Len(q), i # 1 PROVE q[i].trid \in Ids(Tail(q))
  <2>1. i - 1 \in 1..Len(Tail(q)) /\ (i - 1) + 1 = i
    BY <1>1, <1>2, <1>6
  <2>2. Tail(q)[i - 1] = q[i]
    BY <1>1, <2>1
  <2>3. QED
    BY <2>1, <2>2 DEF Ids
<1>7. Ids(q) \subseteq {q[1].trid} \cup Ids(Tail(q))
  BY <1>6 DEF Ids
<1>8. q[1].trid \in Ids(q)
  BY <1>2 DEF Ids
<1>9. q[1].trid \notin Ids(Tail(q))
  <2> SUFFICES ASSUME NEW i \in 1..Len(Tail(q)), Tail(q)[i].trid = q[1].trid
               PROVE  FALSE
    BY DEF Ids
  <2>1. q[1].trid < q[i + 1].trid
    BY <1>2, <1>4
  <2>2. QED
    BY <1>1, <1>3, <2>1
<1>10. QED
  BY <1>3, <1>5, <1>7, <1>8, <1>9

\* What is queued was issued after everything else.
LEMMA QueueApart ==
  ASSUME NEW q, NEW w, NEW c \in SUBSET Smps, NEW id, Backlog(q, w, c, id)
  PROVE  Ids(q) \cap (Trids(w) \cup Trids(c)) = {}
<1> SUFFICES ASSUME NEW i \in 1..Len(q), NEW s \in w \cup c, q[i].trid = s.trid
             PROVE  FALSE
  BY DEF Ids, Trids
<1>1. s.trid < q[i].trid
  BY DEF Backlog, Ordered
<1>2. s.trid \in Nat
  BY DEF Backlog, Smps
<1>3. QED
  BY <1>1, <1>2

\* A refill that works moves ids from the queue to the wire.
LEMMA SendAllKeepsIds ==
  ASSUME NEW q, NEW w, NEW c \in SUBSET Smps, NEW id, Backlog(q, w, c, id),
         AtMostOneMoves(q, w), SendAll(q, w),
         Apart(w), Trids(w) \cap Trids(c) = {}
  PROVE  /\ Ids(queue') \cup Trids(wire') = Ids(q) \cup Trids(w)
         /\ Apart(wire')
         /\ Trids(wire') \cap Trids(c) = {}
<1>1. CASE wire' = w /\ queue' = q
  BY <1>1
<1>2. CASE q # <<>> /\ wire' = w \cup {q[1]} /\ queue' = Tail(q)
  <2>1. q \in Seq(Smps) /\ \A i, j \in 1..Len(q) : i < j => q[i].trid < q[j].trid
    BY DEF Backlog, Ordered
  <2>2. Ids(q) = {q[1].trid} \cup Ids(Tail(q))
    BY <1>2, <2>1, HeadId
  <2>3. Trids(wire') = Trids(w) \cup {q[1].trid}
    BY <1>2 DEF Trids
  <2>4. q[1].trid \notin Trids(w) \cup Trids(c)
    BY <2>2, QueueApart
  <2>5. Apart(wire')
    BY <1>2, <2>4 DEF Apart, Trids
  <2>6. QED
    BY <1>2, <2>2, <2>3, <2>4, <2>5
<1>3. QED
  BY <1>1, <1>2, SendAllStep DEF Backlog

\* One whose umad_send fails drops the id of the head.
LEMMA SendFailsDropsId ==
  ASSUME NEW q, NEW w, NEW c \in SUBSET Smps, NEW id, Backlog(q, w, c, id),
         AtMostOneMoves(q, w), NEW n \in 1..Room(q, w), SendFails(q, w, n)
  PROVE  /\ wire' = w
         /\ q[n].trid \in Ids(q)
         /\ Ids(queue') = Ids(q) \ {q[n].trid}
         /\ q[n].trid \notin Trids(w) \cup Trids(c)
<1>1. n = 1 /\ q # <<>> /\ wire' = w /\ queue' = Tail(q)
  BY SendFailsKeeps
<1>2. q \in Seq(Smps) /\ \A i, j \in 1..Len(q) : i < j => q[i].trid < q[j].trid
  BY DEF Backlog, Ordered
<1>3. Ids(q) = {q[1].trid} \cup Ids(Tail(q)) /\ q[1].trid \notin Ids(Tail(q))
  BY <1>1, <1>2, HeadId
<1>4. QED
  BY <1>1, <1>3, QueueApart

------------------------------------------------------------------------------
(* What each operation does to the two sets. *)

Accepts(new) == Live' = Live \cup {new} /\ freed' = freed
Discards(new) == Live' = Live /\ freed' = freed \cup {new}
Ends(ids) == ids # {} /\ ids \subseteq Live /\ Live' = Live \ ids /\ freed' = freed \cup ids
Keeps == Live' = Live /\ freed' = freed

WireKept == Apart(wire)' /\ (Trids(wire) \cap Trids(current))' = {}

LEMMA IssuedIds ==
  ASSUME IInv, NEW req \in Reqs
  PROVE  Ids(Enqueue(queue, NewSmp(req))) = Ids(queue) \cup {trid + 1}
<1> DEFINE q == Enqueue(queue, NewSmp(req))
<1>1. queue \in Seq(Smps) /\ NewSmp(req) \in Smps
  BY DEF IInv, TypeOK, NewSmp, Smps
<1>2. /\ Len(q) = Len(queue) + 1
      /\ \A i \in 1..Len(queue) : q[i] = queue[i]
      /\ q[Len(queue) + 1] = NewSmp(req)
  BY <1>1, AppendProperties DEF Enqueue
<1>3. Len(queue) \in Nat
  BY <1>1, LenProperties
<1>4. 1..Len(q) = (1..Len(queue)) \cup {Len(queue) + 1}
  BY <1>2, <1>3
<1>5. NewSmp(req).trid = trid + 1
  BY DEF NewSmp
<1> HIDE DEF q
<1>6. Ids(q) = Ids(queue) \cup {trid + 1}
  BY <1>2, <1>4, <1>5 DEF Ids
<1>7. QED
  BY <1>6 DEF q

LEMMA IssueOkIds ==
  ASSUME IInv, Placed, NEW req \in Reqs, IssueOk(req)
  PROVE  Accepts(trid + 1) /\ WireKept
<1> DEFINE q == Enqueue(queue, NewSmp(req))
<1>1. pc # "failed" /\ current \subseteq Smps
  BY DEF IssueOk, MayIssue, IInv, TypeOK
<1>2. Backlog(q, wire, current, trid + 1) /\ AtMostOneMoves(q, wire)
  BY <1>1, IssueBacklog
<1>3. SendAll(q, wire) /\ UNCHANGED <<current, freed>>
  BY DEF IssueOk
<1>4. /\ Ids(queue') \cup Trids(wire') = Ids(q) \cup Trids(wire)
      /\ Apart(wire')
      /\ Trids(wire') \cap Trids(current) = {}
  BY <1>1, <1>2, <1>3, SendAllKeepsIds DEF Placed
<1>5. Ids(q) = Ids(queue) \cup {trid + 1}
  BY IssuedIds
<1>6. Trids(current') = Trids(current)
  BY <1>3
<1> HIDE DEF q
<1>7. QED
  BY <1>3, <1>4, <1>5, <1>6 DEF Accepts, WireKept, Live

LEMMA IssueFailsIds ==
  ASSUME IInv, Placed, NEW req \in Reqs, IssueFails(req)
  PROVE  Discards(trid + 1) /\ WireKept
<1> DEFINE q == Enqueue(queue, NewSmp(req))
<1>1. pc # "failed" /\ current \subseteq Smps
  BY DEF IssueFails, MayIssue, IInv, TypeOK
<1>2. Backlog(q, wire, current, trid + 1) /\ AtMostOneMoves(q, wire)
  BY <1>1, IssueBacklog
<1>3. PICK n \in 1..Room(q, wire) : SendFails(q, wire, n) /\ freed' = freed \cup {q[n].trid}
  BY DEF IssueFails
<1>4. n = 1 /\ q # <<>> /\ Cardinality(wire) < MaxSmps /\ wire' = wire /\ queue' = Tail(q)
  BY <1>2, <1>3, SendFailsKeeps
<1>5. queue = <<>>
  <2>1. Cardinality(wire) \in Nat /\ MaxSmps \in Nat
    BY FS_CardinalityType, MaxSmpsAssumption DEF IInv, TypeOK
  <2>2. QED
    BY <1>1, <1>4, <2>1 DEF IInv, WorkConserving, Full
<1>6. Ids(queue) = {}
  BY <1>5, EmptySeq DEF Ids
<1>7. Ids(q) = {trid + 1}
  BY <1>6, IssuedIds
<1>8. q[n].trid \in Ids(q) /\ Ids(queue') = Ids(q) \ {q[n].trid}
  BY <1>1, <1>2, <1>3, SendFailsDropsId
<1>9. q[n].trid = trid + 1 /\ Ids(queue') = {}
  BY <1>7, <1>8
<1>10. current' = current
  BY DEF IssueFails
<1> HIDE DEF q
<1>11. QED
  BY <1>3, <1>4, <1>6, <1>9, <1>10 DEF Discards, WireKept, Live, Placed

LEMMA TakenOff ==
  ASSUME IInv, Placed, NEW s \in wire, pc = "recv"
  PROVE  /\ current = {}
         /\ Trids(wire) = Trids(wire \ {s}) \cup {s.trid}
         /\ s.trid \notin Trids(wire \ {s}) \cup Ids(queue)
         /\ Apart(wire \ {s})
         /\ Trids({s}) = {s.trid} /\ Trids({}) = {}
         /\ {s} \subseteq Smps
<1>1. current = {} /\ {s} \subseteq Smps
  BY DEF IInv, CallbackOwner, TypeOK
<1>2. Trids(wire) = Trids(wire \ {s}) \cup {s.trid} /\ s.trid \notin Trids(wire \ {s})
  BY DEF Placed, Apart, Trids
<1>3. Apart(wire \ {s}) /\ Trids({s}) = {s.trid} /\ Trids({}) = {}
  BY DEF Placed, Apart, Trids
<1>4. s.trid \notin Ids(queue)
  <2>1. Ids(queue) \cap (Trids(wire) \cup Trids(current)) = {}
    BY IInvQueue, QueueApart DEF QueueInv, IInv, TypeOK
  <2>2. QED
    BY <1>2, <2>1
<1>5. QED
  BY <1>1, <1>2, <1>3, <1>4

LEMMA RunsCallbackIds ==
  ASSUME IInv, Placed, NEW s \in wire, RecvRunsCallback(s)
  PROVE  Keeps /\ WireKept
<1>1. pc = "recv"
  BY DEF RecvRunsCallback, Arrives
<1>2. Backlog(queue, wire \ {s}, {s}, trid) /\ AtMostOneMoves(queue, wire \ {s})
  BY <1>1, RecvBacklog
<1>3. SendAll(queue, wire \ {s}) /\ current' = {s} /\ freed' = freed
  BY DEF RecvRunsCallback
<1>4. Trids(wire \ {s}) \cap Trids({s}) = {}
  BY <1>1, TakenOff
<1>5. /\ Ids(queue') \cup Trids(wire') = Ids(queue) \cup Trids(wire \ {s})
      /\ Apart(wire')
      /\ Trids(wire') \cap Trids({s}) = {}
  BY <1>1, <1>2, <1>3, <1>4, TakenOff, SendAllKeepsIds
<1>6. Trids(current') = {s.trid} /\ Trids(current) = {}
  BY <1>1, <1>3, TakenOff
<1>7. Trids(wire) = Trids(wire \ {s}) \cup {s.trid}
  BY <1>1, TakenOff
<1>8. QED
  BY <1>3, <1>5, <1>6, <1>7 DEF Keeps, WireKept, Live

LEMMA BadStatusIds ==
  ASSUME IInv, Placed, NEW s \in wire, RecvBadStatus(s)
  PROVE  Ends({s.trid}) /\ WireKept
<1>1. pc = "recv"
  BY DEF RecvBadStatus, Arrives
<1>2. Backlog(queue, wire \ {s}, {}, trid) /\ AtMostOneMoves(queue, wire \ {s})
  BY <1>1, RecvBacklog
<1>3. SendAll(queue, wire \ {s}) /\ current' = current /\ freed' = freed \cup {s.trid}
  BY DEF RecvBadStatus
<1>4. /\ Ids(queue') \cup Trids(wire') = Ids(queue) \cup Trids(wire \ {s})
      /\ Apart(wire')
  <2>1. Apart(wire \ {s}) /\ Trids(wire \ {s}) \cap Trids({}) = {} /\ {} \in SUBSET Smps
    BY <1>1, TakenOff
  <2>2. QED
    BY <1>2, <1>3, <2>1, SendAllKeepsIds
<1>5. Trids(current) = {} /\ Trids(current') = {}
  BY <1>1, <1>3, TakenOff
<1>6. /\ Trids(wire) = Trids(wire \ {s}) \cup {s.trid}
      /\ s.trid \notin Trids(wire \ {s}) \cup Ids(queue)
  BY <1>1, TakenOff
<1>7. QED
  BY <1>3, <1>4, <1>5, <1>6 DEF Ends, WireKept, Live

LEMMA RefillFailsIds ==
  ASSUME IInv, Placed, NEW s \in wire, RecvRefillFails(s)
  PROVE  (\E ids \in SUBSET Live : Ends(ids)) /\ WireKept
<1>1. pc = "recv"
  BY DEF RecvRefillFails, Arrives
<1>2. Backlog(queue, wire \ {s}, {}, trid) /\ AtMostOneMoves(queue, wire \ {s})
  BY <1>1, RecvBacklog
<1>3. PICK n \in 1..Room(queue, wire \ {s}) :
        /\ SendFails(queue, wire \ {s}, n)
        /\ freed' = freed \cup {s.trid, queue[n].trid}
  BY DEF RecvRefillFails
<1>4. /\ wire' = wire \ {s}
      /\ queue[n].trid \in Ids(queue)
      /\ Ids(queue') = Ids(queue) \ {queue[n].trid}
      /\ queue[n].trid \notin Trids(wire \ {s})
  BY <1>2, <1>3, SendFailsDropsId
<1>5. current' = current /\ Trids(current) = {} /\ Trids(current') = {}
  <2>1. current' = current
    BY DEF RecvRefillFails
  <2>2. QED
    BY <1>1, <2>1, TakenOff
<1>6. /\ Trids(wire) = Trids(wire \ {s}) \cup {s.trid}
      /\ s.trid \notin Trids(wire \ {s}) \cup Ids(queue)
      /\ Apart(wire \ {s})
  BY <1>1, TakenOff
<1>7. Ends({s.trid, queue[n].trid})
  BY <1>3, <1>4, <1>5, <1>6 DEF Ends, Live
<1>8. QED
  BY <1>4, <1>5, <1>6, <1>7 DEF Ends, WireKept

LEMMA CallbackIds ==
  ASSUME IInv, Placed, NEW rc \in {0, -1}, CallbackReturns(rc)
  PROVE  Ends(Trids(current)) /\ WireKept
<1>1. /\ pc = "callback" /\ current' = {} /\ freed' = freed \cup Trids(current)
      /\ UNCHANGED <<queue, wire>>
  BY DEF CallbackReturns
<1>2. current # {} /\ Trids(current) # {}
  BY <1>1 DEF Placed, Trids
<1>3. Ids(queue) \cap Trids(current) = {}
  BY IInvQueue, QueueApart DEF QueueInv, IInv, TypeOK
<1>4. Trids(current') = {}
  BY <1>1 DEF Trids
<1>5. QED
  BY <1>1, <1>2, <1>3, <1>4 DEF Ends, WireKept, Live, Placed
LEMMA DestroyIds ==
  ASSUME IInv, Placed, Destroy
  PROVE  /\ Live' = {} /\ freed' = freed \cup Live
         /\ WireKept
<1>1. /\ pc # "callback" /\ freed' = freed \cup Trids(Queued) \cup Trids(wire)
      /\ queue' = <<>> /\ wire' = {} /\ current' = current
  BY DEF Destroy
<1>2. Trids(current) = {} /\ Trids(current') = {}
  BY <1>1 DEF IInv, CallbackOwner, Trids
<1>3. Ids(queue') = {} /\ Trids(wire') = {}
  BY <1>1, EmptySeq DEF Ids, Trids
<1>4. Apart(wire')
  BY <1>1 DEF Apart
<1>5. QED
  BY <1>1, <1>2, <1>3, <1>4, QueuedIds DEF WireKept, Live

------------------------------------------------------------------------------
(* Each SMP is in one place. *)

LEMMA InitPlaced == Init => Placed
<1> SUFFICES ASSUME Init PROVE Placed
  OBVIOUS
<1>1. Ids(queue) = {}
  BY EmptySeq DEF Init, Ids
<1>2. Trids(wire) = {} /\ Trids(current) = {}
  BY DEF Init, Trids
<1>3. 1..trid = {}
  BY DEF Init
<1>4. QED
  BY <1>1, <1>2, <1>3 DEF Init, Placed, Live, Apart

\* The last conjunct of Placed: a callback is one of an SMP.
LEMMA CallbackHasSmp ==
  ASSUME IInv, Placed, [Next]_vars
  PROVE  pc' = "callback" => current' # {}
<1>1. CASE UNCHANGED <<pc, current>>
  BY <1>1 DEF Placed
<1>2. CASE \E req \in Reqs : IssueOk(req) \/ IssueFails(req)
  BY <1>1, <1>2 DEF IssueOk, IssueFails
<1>3. CASE Recv
  BY <1>3 DEF Recv, RecvRunsCallback, RecvBadStatus, RecvRefillFails, RecvFails, AllReceived,
              Arrives
<1>4. CASE Run \/ Destroy \/ \E rc \in {0, -1} : CallbackReturns(rc)
  BY <1>4 DEF Run, Destroy, CallbackReturns
<1>5. QED
  BY <1>1, <1>2, <1>3, <1>4 DEF Next, vars

\* The ways a step can change the two sets.
LEMMA StepIds ==
  ASSUME IInv, Placed, [Next]_vars
  PROVE  /\ WireKept
         /\ \/ trid' = trid + 1 /\ (Accepts(trid + 1) \/ Discards(trid + 1))
            \/ trid' = trid /\ (Keeps \/ \E ids \in SUBSET Live : Ends(ids))
            \/ trid' = trid /\ Live' = {} /\ freed' = freed \cup Live
<1>1. CASE UNCHANGED <<trid, queue, wire, current, freed>>
  BY <1>1 DEF Keeps, Live, WireKept, Placed
<1>2. ASSUME NEW req \in Reqs, IssueOk(req) \/ IssueFails(req)
      PROVE  WireKept /\ trid' = trid + 1 /\ (Accepts(trid + 1) \/ Discards(trid + 1))
  BY <1>2, IssueOkIds, IssueFailsIds DEF IssueOk, IssueFails
<1>3. ASSUME NEW s \in wire, RecvRunsCallback(s)
      PROVE  WireKept /\ trid' = trid /\ Keeps
  BY <1>3, RunsCallbackIds DEF RecvRunsCallback
<1>4. ASSUME NEW s \in wire, RecvBadStatus(s) \/ RecvRefillFails(s)
      PROVE  WireKept /\ trid' = trid /\ \E ids \in SUBSET Live : Ends(ids)
  <2>1. trid' = trid
    BY <1>4 DEF RecvBadStatus, RecvRefillFails
  <2>2. CASE RecvBadStatus(s)
    BY <2>1, <2>2, BadStatusIds DEF Ends
  <2>3. CASE RecvRefillFails(s)
    BY <2>1, <2>3, RefillFailsIds
  <2>4. QED
    BY <1>4, <2>2, <2>3
<1>5. ASSUME NEW rc \in {0, -1}, CallbackReturns(rc)
      PROVE  WireKept /\ trid' = trid /\ \E ids \in SUBSET Live : Ends(ids)
  BY <1>5, CallbackIds DEF CallbackReturns, Ends
<1>6. CASE Destroy
  BY <1>6, DestroyIds DEF Destroy
<1>7. CASE Run \/ RecvFails \/ AllReceived \/ UNCHANGED vars
  BY <1>7, <1>1 DEF Run, RecvFails, AllReceived, vars
<1>8. QED
  BY <1>2, <1>3, <1>4, <1>5, <1>6, <1>7 DEF Next, Recv

LEMMA PlacedStep ==
  ASSUME IInv, Placed, [Next]_vars
  PROVE  Placed'
<1>0. trid \in Nat
  BY DEF IInv, TypeOK
<1>1. /\ Live \cup freed = 1..trid /\ Live \cap freed = {}
  BY DEF Placed
<1>2. 1..(trid + 1) = (1..trid) \cup {trid + 1} /\ trid + 1 \notin 1..trid
  BY <1>0
<1>3. (Live \cup freed)' = 1..trid' /\ (Live \cap freed)' = {}
  <2>1. CASE trid' = trid + 1 /\ (Accepts(trid + 1) \/ Discards(trid + 1))
    BY <2>1, <1>1, <1>2 DEF Accepts, Discards
  <2>2. CASE trid' = trid /\ (Keeps \/ \E ids \in SUBSET Live : Ends(ids))
    BY <2>2, <1>1 DEF Keeps, Ends
  <2>3. CASE trid' = trid /\ Live' = {} /\ freed' = freed \cup Live
    BY <2>3, <1>1
  <2>4. QED
    BY <2>1, <2>2, <2>3, StepIds
<1>4. QED
  BY <1>3, StepIds, CallbackHasSmp DEF Placed, WireKept

\* No SMP is leaked, freed twice or used after it was freed, whichever of
\* issue_smp, process_one_recv and smp_engine_destroy handles it (query_smp.c).
THEOREM SmpsAreInOnePlace == Spec => []OnePlace
<1>1. Init => IInv /\ Placed
  BY InitIInv, InitPlaced
<1>2. IInv /\ Placed /\ [Next]_vars => IInv' /\ Placed'
  BY NextIInv, PlacedStep
<1>3. IInv /\ Placed => OnePlace
  <2> SUFFICES ASSUME IInv, Placed PROVE OnePlace
    OBVIOUS
  <2>1. Ids(queue) \cap (Trids(wire) \cup Trids(current)) = {}
    BY IInvQueue, QueueApart DEF QueueInv, IInv, TypeOK
  <2>2. Trids(Queued) = Ids(queue)
    BY QueuedIds
  <2>3. /\ Trids(Queued \cup wire) = Trids(Queued) \cup Trids(wire)
        /\ Trids(Queued \cup wire \cup current)
             = Trids(Queued) \cup Trids(wire) \cup Trids(current)
    BY DEF Trids
  <2>4. QED
    BY <2>1, <2>2, <2>3 DEF OnePlace, Placed, Live, Apart
<1>4. QED
  BY <1>1, <1>2, <1>3, PTL DEF Spec

------------------------------------------------------------------------------
(* The refinement. *)

\* The two values the refinement mapping of SmpEngine computes.
Pending == Trids(Queued) \cup Trids(wire) \cup Trids(current)

Verdict == CASE pc \in {"caller", "recv", "callback"} -> "running"
             [] pc = "done" -> "complete"
             [] pc = "failed" -> "aborted"
             [] pc = "closed" -> "closed"

LEMMA PendingIsLive == Pending = Live /\ Pending' = Live'
BY DEF Pending, Live, Trids, Queued, Ids

LEMMA InitService == Init => Service!Init
<1> SUFFICES ASSUME Init PROVE Service!Init
  OBVIOUS
<1>1. Ids(queue) = {} /\ Trids(wire) = {} /\ Trids(current) = {}
  BY EmptySeq DEF Init, Ids, Trids
<1>2. QED
  BY <1>1, QueuedIds DEF Init, Service!Init
LEMMA IssueService ==
  ASSUME IInv, Placed, NEW req \in Reqs, IssueOk(req) \/ IssueFails(req)
  PROVE  Service!Accept
<1>1. /\ pc \in {"caller", "callback"} /\ pc' = pc /\ trid < MaxIssued /\ trid \in Nat
  BY DEF IssueOk, IssueFails, MayIssue, IInv, TypeOK
<1>2. Verdict = "running" /\ Verdict' = "running"
  BY <1>1 DEF Verdict
<1>3. trid + 1 \in (1..MaxIssued) \ (Pending \cup freed)
  <2>1. Pending \cup freed = 1..trid
    BY PendingIsLive DEF Placed
  <2>2. QED
    BY <1>1, <2>1, SmpEngineAssumption
<1>4. Accepts(trid + 1) \/ Discards(trid + 1)
  BY IssueOkIds, IssueFailsIds
<1>5. \/ Pending' = Pending \cup {trid + 1} /\ freed' = freed
      \/ Pending' = Pending /\ freed' = freed \cup {trid + 1}
  BY <1>4, PendingIsLive DEF Accepts, Discards
<1>6. QED
  BY <1>2, <1>3, <1>5 DEF Service!Accept, Pending, Verdict

LEMMA EndsService ==
  ASSUME IInv, Placed, NEW ids \in SUBSET Live, Ends(ids),
         pc \in {"recv", "callback"}, pc' \in {"recv", "failed"}
  PROVE  Service!Finish
<1>1. Verdict = "running" /\ Verdict' \in {"running", "aborted"}
  BY DEF Verdict
<1>2. /\ ids \in SUBSET Pending /\ ids # {}
      /\ Pending' = Pending \ ids /\ freed' = freed \cup ids
  BY PendingIsLive DEF Ends
<1>3. QED
  BY <1>1, <1>2 DEF Service!Finish, Pending, Verdict

LEMMA StepService ==
  ASSUME IInv, Placed, [Next]_vars
  PROVE  [Service!Next]_(Service!vars)
<1>1. ASSUME NEW req \in Reqs, IssueOk(req) \/ IssueFails(req)
      PROVE  Service!Next
  BY <1>1, IssueService DEF Service!Next
<1>2. ASSUME NEW s \in wire, RecvRunsCallback(s)
      PROVE  UNCHANGED Service!vars
  <2>1. Pending' = Pending /\ freed' = freed
    BY <1>2, RunsCallbackIds, PendingIsLive DEF Keeps
  <2>2. Verdict' = Verdict
    BY <1>2 DEF RecvRunsCallback, Arrives, Verdict
  <2>3. QED
    BY <2>1, <2>2 DEF Service!vars, Pending, Verdict
<1>3. ASSUME NEW s \in wire, RecvBadStatus(s)
      PROVE  Service!Next
  <2>1. Ends({s.trid}) /\ {s.trid} \in SUBSET Live
    BY <1>3, BadStatusIds DEF Ends
  <2>2. pc = "recv" /\ pc' = "recv"
    BY <1>3 DEF RecvBadStatus, Arrives
  <2>3. QED
    BY <2>1, <2>2, EndsService DEF Service!Next
<1>4. ASSUME NEW s \in wire, RecvRefillFails(s)
      PROVE  Service!Next
  <2>1. PICK ids \in SUBSET Live : Ends(ids)
    BY <1>4, RefillFailsIds
  <2>2. pc = "recv" /\ pc' = "failed"
    BY <1>4 DEF RecvRefillFails, Arrives
  <2>3. QED
    BY <2>1, <2>2, EndsService DEF Service!Next
<1>5. ASSUME NEW rc \in {0, -1}, CallbackReturns(rc)
      PROVE  Service!Next
  <2>1. Ends(Trids(current)) /\ Trids(current) \in SUBSET Live
    BY <1>5, CallbackIds DEF Live
  <2>2. pc = "callback" /\ pc' \in {"recv", "failed"}
    BY <1>5 DEF CallbackReturns
  <2>3. QED
    BY <2>1, <2>2, EndsService DEF Service!Next
<1>6. CASE Run
  <2>1. Pending' = Pending /\ freed' = freed /\ Verdict' = Verdict
    BY <1>6 DEF Run, Pending, Verdict, Queued, Trids
  <2>2. QED
    BY <2>1 DEF Service!vars, Pending, Verdict
<1>7. CASE RecvFails
  <2>1. Pending' = Pending /\ freed' = freed
    BY <1>7 DEF RecvFails, Pending, Queued, Trids
  <2>2. Verdict = "running" /\ Verdict' = "aborted"
    BY <1>7 DEF RecvFails, Verdict
  <2>3. Service!Abort
    BY <2>1, <2>2 DEF Service!Abort, Pending, Verdict
  <2>4. QED
    BY <2>3 DEF Service!Next
<1>8. CASE AllReceived
  <2>1. Pending' = Pending /\ freed' = freed
    BY <1>8 DEF AllReceived, Pending, Queued, Trids
  <2>2. Verdict = "running" /\ Verdict' = "complete"
    BY <1>8 DEF AllReceived, Verdict
  <2>3. Pending = {}
    <3>1. DoneMeansNothingLeft'
      BY NextIInv DEF IInv
    <3>2. queue = <<>> /\ wire = {} /\ current = {}
      BY <1>8, <3>1 DEF AllReceived, DoneMeansNothingLeft
    <3>3. QED
      BY <3>2, EmptySeq DEF Pending, Queued, Trids
  <2>4. Service!Complete
    BY <2>1, <2>2, <2>3 DEF Service!Complete, Pending, Verdict
  <2>5. QED
    BY <2>4 DEF Service!Next
<1>9. CASE Destroy
  <2>1. Pending' = {} /\ freed' = freed \cup Pending
    BY <1>9, DestroyIds, PendingIsLive
  <2>2. Verdict # "closed" /\ Verdict' = "closed"
    BY <1>9 DEF Destroy, Verdict
  <2>3. Service!Close
    BY <2>1, <2>2 DEF Service!Close, Pending, Verdict
  <2>4. QED
    BY <2>3 DEF Service!Next
<1>10. CASE UNCHANGED vars
  <2>1. Pending' = Pending /\ freed' = freed /\ Verdict' = Verdict
    BY <1>10 DEF vars, Pending, Verdict, Queued, Trids
  <2>2. QED
    BY <2>1 DEF Service!vars, Pending, Verdict
<1>11. QED
  BY <1>1, <1>2, <1>3, <1>4, <1>5, <1>6, <1>7, <1>8, <1>9, <1>10 DEF Next, Recv

\* What the engine does with its queue, its wire and its callbacks is, for the scan
\* that uses it, a service that finishes each request once and says "complete"
\* only when none is outstanding.
THEOREM EngineIsService == Spec => ServiceSpec
<1>1. Init => IInv /\ Placed
  BY InitIInv, InitPlaced
<1>2. IInv /\ Placed /\ [Next]_vars => IInv' /\ Placed'
  BY NextIInv, PlacedStep
<1>3. IInv /\ Placed /\ [Next]_vars => [Service!Next]_(Service!vars)
  BY StepService
<1>4. QED
  BY <1>1, <1>2, <1>3, InitService, PTL DEF Spec, ServiceSpec, Service!Spec
=============================================================================
