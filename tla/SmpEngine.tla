------------------------------ MODULE SmpEngine ------------------------------
(***************************************************************************)
(* The SMP engine of libibnetdisc (libibnetdisc/src/query_smp.c).          *)
(*                                                                         *)
(* One thread owns the engine.  issue_smp appends an SMP to a FIFO queue   *)
(* and fills the wire from its head, never beyond cfg->max_smps;           *)
(* process_mads takes one answer at a time from the kernel, refills the    *)
(* wire and only then runs the SMP's callback, which may issue more SMPs.  *)
(* The kernel answers the SMPs on the wire in any order, each with a       *)
(* response or with an error status (its own timeout after cfg->retries,   *)
(* or a bad MAD status); umad_send and umad_recv may fail at any call.     *)
(*                                                                         *)
(* Abstractions.  The transaction id of mad_trid() is a counter that never *)
(* wraps: a scan would have to issue 2^32 SMPs for the 32 bits compared by *)
(* process_one_recv to repeat.  What an SMP asks for is an element of Reqs.*)
(* Allocation failures are left out.                                       *)
(***************************************************************************)
EXTENDS SmpWire

CONSTANTS
  Reqs,             \* what an SMP can ask for
  ErrReqs,          \* requests whose error status is handed to an error
                    \* callback (attribute MLNX_EXT_PORT_INFO)
  MaxIssued         \* bound of the model: SMPs issued in one behaviour

ASSUME SmpEngineAssumption ==
  /\ ErrReqs \subseteq Reqs
  /\ MaxIssued \in Nat

VARIABLES
  trid,             \* the last transaction id mad_trid() returned
  current,          \* the SMP whose callback runs, as a set of at most one
  freed,            \* transaction ids of the SMPs that were free()d
  total,            \* total_smps
  pc                \* where the thread is, see TypeOK

vars == <<trid, queue, wire, current, freed, total, pc>>

Smps == [trid : Nat \ {0}, req : Reqs]

Trids(smps) == {s.trid : s \in smps}

TypeOK ==
  /\ trid \in Nat
  /\ queue \in Seq(Smps)
  /\ wire \subseteq Smps
  /\ IsFiniteSet(wire)
  /\ current \subseteq Smps
  /\ freed \subseteq Nat \ {0}
  /\ total \in Nat
  /\ pc \in {"caller",     \* before process_mads is called
             "recv",       \* at the head of the loop of process_mads
             "callback",   \* inside smp->cb or mlnx_ext_port_info_err
             "done",       \* process_mads returned 0
             "failed",     \* process_mads returned an error
             "closed"}     \* after smp_engine_destroy

Init ==
  /\ trid = 0
  /\ queue = <<>>
  /\ wire = {}
  /\ current = {}
  /\ freed = {}
  /\ total = 0
  /\ pc = "caller"

------------------------------------------------------------------------------
(***************************************************************************)
(* issue_smp, called once by ibnd_discover_fabric before process_mads, and *)
(* then by callbacks.  The result of process_smp_queue is returned:        *)
(* IssueOk is the result 0.                                                *)
(***************************************************************************)
MayIssue ==
  /\ pc = "caller" => trid = 0
  /\ pc \in {"caller", "callback"}
  /\ trid < MaxIssued

NewSmp(req) == [trid |-> trid + 1, req |-> req]

IssueOk(req) ==
  /\ MayIssue
  /\ trid' = trid + 1
  /\ SendAll(Enqueue(queue, NewSmp(req)), wire)
  /\ total' = total + Room(Enqueue(queue, NewSmp(req)), wire)
  /\ UNCHANGED <<current, freed, pc>>

IssueFails(req) ==
  /\ MayIssue
  /\ trid' = trid + 1
  /\ LET q == Enqueue(queue, NewSmp(req))
     IN  \E n \in 1..Room(q, wire) :
           /\ SendFails(q, wire, n)
           /\ total' = total + (n - 1)
           /\ freed' = freed \cup {q[n].trid}
  /\ UNCHANGED <<current, pc>>

\* The client calls process_mads.
Run ==
  /\ pc = "caller"
  /\ pc' = "recv"
  /\ UNCHANGED <<trid, queue, wire, current, freed, total>>

(***************************************************************************)
(* process_one_recv: an answer for s arrived.  The wire is refilled before *)
(* the status is looked at.                                                *)
(***************************************************************************)
Arrives(s) == pc = "recv" /\ s \in wire

\* Mutants: the SMP stays on the wire; a failed refill returns without freeing
\* the SMP.
RecvRunsCallbackKeeps(s) ==
  /\ Arrives(s)
  /\ current' = {s}
  /\ pc' = "callback"
  /\ UNCHANGED <<trid, queue, wire, freed, total>>

RecvRefillFailsLeaks(s) ==
  /\ Arrives(s)
  /\ \E n \in 1..Room(queue, wire \ {s}) :
       /\ SendFails(queue, wire \ {s}, n)
       /\ total' = total + (n - 1)
       /\ freed' = freed \cup {queue[n].trid}
  /\ pc' = "failed"
  /\ UNCHANGED <<trid, current>>

\* An answer whose callback is run (or, for an ErrReqs request with a bad
\* status, mlnx_ext_port_info_err).
RecvRunsCallback(s) ==
  /\ Arrives(s)
  /\ SendAll(queue, wire \ {s})
  /\ total' = total + Room(queue, wire \ {s})
  /\ current' = {s}
  /\ pc' = "callback"
  /\ UNCHANGED <<trid, freed>>

\* A bad status: the error is logged and the SMP freed, its callback not run.
RecvBadStatus(s) ==
  /\ Arrives(s)
  /\ s.req \notin ErrReqs
  /\ SendAll(queue, wire \ {s})
  /\ total' = total + Room(queue, wire \ {s})
  /\ freed' = freed \cup {s.trid}
  /\ UNCHANGED <<trid, current, pc>>

\* Refilling the wire failed: the answer is thrown away with its SMP and
\* process_mads returns the error.
RecvRefillFails(s) ==
  /\ Arrives(s)
  /\ \E n \in 1..Room(queue, wire \ {s}) :
       /\ SendFails(queue, wire \ {s}, n)
       /\ total' = total + (n - 1)
       /\ freed' = freed \cup {s.trid, queue[n].trid}
  /\ pc' = "failed"
  /\ UNCHANGED <<trid, current>>

\* umad_recv failed, or the answer matches no SMP on the wire.
RecvFails ==
  /\ pc = "recv"
  /\ wire # {}
  /\ pc' = "failed"
  /\ UNCHANGED <<trid, queue, wire, current, freed, total>>

\* The callback returns: 0 continues the loop, anything else ends it.
CallbackReturns(rc) ==
  /\ pc = "callback"
  /\ pc' = IF rc = 0 THEN "recv" ELSE "failed"
  /\ freed' = freed \cup Trids(current)
  /\ current' = {}
  /\ UNCHANGED <<trid, queue, wire, total>>

\* process_mads: nothing is on the wire.
AllReceived ==
  /\ pc = "recv"
  /\ wire = {}
  /\ pc' = "done"
  /\ UNCHANGED <<trid, queue, wire, current, freed, total>>

\* Mutant of Destroy: the SMPs on the wire are not freed.
DestroyKeepsWire ==
  /\ pc \in {"caller", "done", "failed"}
  /\ freed' = freed \cup Trids(Queued)
  /\ queue' = <<>>
  /\ wire' = {}
  /\ pc' = "closed"
  /\ UNCHANGED <<trid, current, total>>

\* smp_engine_destroy frees what is queued and what is on the wire.
Destroy ==
  /\ pc \in {"caller", "done", "failed"}
  /\ freed' = freed \cup Trids(Queued) \cup Trids(wire)
  /\ queue' = <<>>
  /\ wire' = {}
  /\ pc' = "closed"
  /\ UNCHANGED <<trid, current, total>>

------------------------------------------------------------------------------
Recv ==
  \/ \E s \in wire : RecvRunsCallback(s) \/ RecvBadStatus(s) \/ RecvRefillFails(s)
  \/ RecvFails
  \/ AllReceived

Next ==
  \/ \E req \in Reqs : IssueOk(req) \/ IssueFails(req)
  \/ Run
  \/ Recv
  \/ \E rc \in {0, -1} : CallbackReturns(rc)
  \/ Destroy

Spec == Init /\ [][Next]_vars

(***************************************************************************)
(* The thread keeps running, and umad_recv with no timeout returns because *)
(* the kernel answers every SMP it accepted: with the response, or with    *)
(* the status ETIMEDOUT after timeout_ms and retries given to umad_send.   *)
(* A callback returns.                                                     *)
(***************************************************************************)
FairSpec == Spec /\ WF_vars(Next)

------------------------------------------------------------------------------
\* An SMP waits in the queue only while the wire is full, except after an
\* error ended process_mads.  This is why process_mads may stop as soon as the
\* wire is empty without looking at the queue.
WorkConserving ==
  pc # "failed" => Full(queue, wire)

\* Every SMP ever issued is in exactly one place: queued, on the wire, in its
\* callback, or freed.  None is leaked, freed twice or used after its free.
OnePlace ==
  /\ Trids(Queued) \cup Trids(wire) \cup Trids(current) \cup freed = 1..trid
  /\ Trids(Queued) \cap Trids(wire) = {}
  /\ Trids(Queued \cup wire) \cap Trids(current) = {}
  /\ Trids(Queued \cup wire \cup current) \cap freed = {}
  /\ \A s, t \in wire : s.trid = t.trid => s = t

\* The SMPs of q were issued in the order of q, and all after those of smps.
Ordered(q, smps) ==
  /\ \A i, j \in 1..Len(q) : i < j => q[i].trid < q[j].trid
  /\ \A i \in 1..Len(q), s \in smps : s.trid < q[i].trid

\* SMPs leave in the order in which they were issued: get_smp takes the head
\* and queue_smp adds at the tail, across any nesting of calls.
SentInOrder == Ordered(queue, wire \cup current)

\* process_mads reports success only when no SMP is left anywhere: the scan's
\* callers take the fabric as it then is.
DoneMeansNothingLeft == pc = "done" => queue = <<>> /\ wire = {} /\ current = {}

\* A scan ends: process_mads returns and the engine is destroyed.
Terminates == <>(pc = "closed")

------------------------------------------------------------------------------
\* The engine implements the request service it promises to the scan.
Service ==
  INSTANCE SmpService
    WITH Ids <- 1..MaxIssued,
         pending <- Trids(Queued) \cup Trids(wire) \cup Trids(current),
         finished <- freed,
         verdict <- CASE pc \in {"caller", "recv", "callback"} -> "running"
                      [] pc = "done" -> "complete"
                      [] pc = "failed" -> "aborted"
                      [] pc = "closed" -> "closed"

ServiceSpec == Service!Spec
=============================================================================
