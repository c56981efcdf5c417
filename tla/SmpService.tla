----------------------------- MODULE SmpService -----------------------------
(***************************************************************************)
(* What the SMP engine of libibnetdisc promises to the code that scans a   *)
(* fabric, with no word of how: every request that was accepted is         *)
(* finished at most once, and the scan may only be reported complete when  *)
(* no request is outstanding.  A scan that cannot be completed is          *)
(* reported as aborted, and closing the engine finishes what is left.      *)
(*                                                                         *)
(* SmpEngine, which has a queue, a bounded set of SMPs on the wire and a   *)
(* callback running, implements this specification.                        *)
(***************************************************************************)
CONSTANT Ids        \* the identities (transaction ids) of requests

VARIABLES
  pending,          \* ids accepted and not finished yet
  finished,         \* ids answered, failed or discarded
  verdict           \* "running", "complete", "aborted" or "closed"

vars == <<pending, finished, verdict>>

TypeOK ==
  /\ pending \subseteq Ids
  /\ finished \subseteq Ids
  /\ verdict \in {"running", "complete", "aborted", "closed"}

Init ==
  /\ pending = {}
  /\ finished = {}
  /\ verdict = "running"

\* A new request is accepted; it, or an older one, may fail to be sent and is
\* finished in the same step.
Accept ==
  /\ verdict = "running"
  /\ \E id \in Ids \ (pending \cup finished) :
       \/ /\ pending' = pending \cup {id}
          /\ finished' = finished
       \/ /\ pending' = pending
          /\ finished' = finished \cup {id}
  /\ UNCHANGED verdict

\* Requests reach their end: an answer, an error or a failed transmission.
Finish ==
  /\ verdict = "running"
  /\ \E ids \in SUBSET pending :
       /\ ids # {}
       /\ pending' = pending \ ids
       /\ finished' = finished \cup ids
  /\ verdict' \in {"running", "aborted"}

Complete ==
  /\ verdict = "running"
  /\ pending = {}
  /\ verdict' = "complete"
  /\ UNCHANGED <<pending, finished>>

Abort ==
  /\ verdict = "running"
  /\ verdict' = "aborted"
  /\ UNCHANGED <<pending, finished>>

\* The caller may also close an engine it never ran.
Close ==
  /\ verdict # "closed"
  /\ verdict' = "closed"
  /\ pending' = {}
  /\ finished' = finished \cup pending

Next == Accept \/ Finish \/ Complete \/ Abort \/ Close

Spec == Init /\ [][Next]_vars
=============================================================================
