------------------------------- MODULE MadRpc -------------------------------
(***************************************************************************)
(* The request/response calls of libibmad (libibmad/src/rpc.c, mad.c),     *)
(* which every tool uses: mad_rpc under smp.c, gs.c and vendor.c, and      *)
(* mad_rpc_rmpp under sa.c.                                                *)
(*                                                                         *)
(* One thread calls.  A call sends its MAD at most mad_get_retries times,  *)
(* waiting after each send for a report of the kernel that carries its     *)
(* transaction id; a redirected call starts over at the port it was        *)
(* redirected to, with the same transaction id.                            *)
(*                                                                         *)
(* The kernel (external) keeps the sends that await an answer.  It reports *)
(* each of them at most once, with the first answer that matches its       *)
(* transaction id and its destination or, after the timeout given to       *)
(* umad_send, with the status ETIMEDOUT.  An answer that matches no send   *)
(* is dropped: a lost request, a lost answer and a second or late answer   *)
(* are steps that change nothing here.  The wait of umad_recv has the same *)
(* timeout, so it may end before the kernel's report, and the report is    *)
(* then found by a later call.                                             *)
(*                                                                         *)
(* Abstractions.  A destination is an element of Dests; payloads, P_Keys   *)
(* and Q_Keys are left out.  Transaction ids do not wrap (32 bits).  The   *)
(* rmpp argument of mad_rpc_rmpp is NULL, as in sa.c.  RMPP segments are   *)
(* the kernel's.                                                           *)
(***************************************************************************)
EXTENDS Integers, Sequences

CONSTANTS
  Dests,            \* ports that can be addressed
  NoLid,            \* the destination of a portid whose lid is 0
  Redirect,         \* where each port redirects calls to: itself if it serves
                    \* them, NoLid for a redirection by GID
  Settings,         \* values of port->retries
  DefRetries,       \* madrpc_retries
  MaxCalls          \* bound of the model: calls in one behaviour

ASSUME MadRpcAssumption ==
  /\ NoLid \notin Dests
  /\ Redirect \in [Dests -> Dests \cup {NoLid}]
  /\ Settings \subseteq Int
  /\ DefRetries \in Nat \ {0}     \* madrpc_set_retries refuses others
  /\ MaxCalls \in Nat

Ports == Dests \cup {NoLid}

VARIABLES
  pc,               \* where the thread is
  kind,             \* who called, see Kinds
  trid,             \* rpc->trid
  dport,            \* the portid of the call; redirection overwrites it
  max,              \* max_retries
  tries,            \* retries, the loop counter of _do_madrpc
  result,           \* what the last call returned
  errno,            \* as the caller finds it after a call
  outstanding,      \* kernel: sends that await an answer
  inbox,            \* kernel: reports that umad_recv has not returned yet
  sent              \* history: sends of the call to each port

client == <<pc, kind, trid, dport, max, tries, result, errno, sent>>
vars == <<client, outstanding, inbox>>

\* The callers: smp.c and gs.c call mad_rpc, vendor.c and sa.c mad_rpc_rmpp;
\* gs.c and vendor.c pass an ib_rpc_v1_t, which has an error field.
Kinds == {"smp", "gs", "vendor", "sa"}
Rmpp == kind \in {"vendor", "sa"}
Version1 == kind \in {"gs", "vendor"}

Sends == [trid : Nat, dest : Ports]

Reports ==
  [trid : Nat, from : Ports, status : {"ok", "ENOMEM", "ETIMEDOUT"},
   mad : {"ok", "error", "redirect", "none"}]

Outcome(out, id, port) == [out |-> out, trid |-> id, from |-> port]

TypeOK ==
  /\ pc \in {"idle", "send", "recv"}
  /\ kind \in Kinds
  /\ trid \in Nat
  /\ dport \in Ports
  /\ max \in Int
  /\ tries \in Nat
  /\ result \in [out : {"none", "data", "failed"}, trid : Nat, from : Ports]
  /\ errno \in {"0", "EINVAL", "EIO", "ETIMEDOUT", "ESYS"}
  /\ outstanding \subseteq Sends
  /\ inbox \in Seq(Reports)
  /\ sent \in [Ports -> Nat]

Init ==
  /\ pc = "idle"
  /\ kind = "smp"
  /\ trid = 0
  /\ dport \in Dests
  /\ max = 0
  /\ tries = 0
  /\ result = Outcome("none", 0, NoLid)
  /\ errno = "0"
  /\ outstanding = {}
  /\ inbox = <<>>
  /\ sent = [d \in Ports |-> 0]

------------------------------------------------------------------------------
\* mad_get_retries
MaxRetries(setting) == IF setting # 0 THEN setting ELSE DefRetries

\* A tool calls, to a port d of its choice or with the portid an earlier call
\* left.  mad_encode takes a new transaction id.
Call(k, d, setting) ==
  /\ pc = "idle"
  /\ trid < MaxCalls
  /\ d \in Dests \cup {dport}
  /\ pc' = "send"
  /\ kind' = k
  /\ trid' = trid + 1
  /\ dport' = d
  /\ max' = MaxRetries(setting)
  /\ tries' = 0
  /\ result' = Outcome("none", 0, NoLid)
  /\ sent' = [p \in Ports |-> 0]
  /\ UNCHANGED <<errno, outstanding, inbox>>

\* A call fails: system is the errno of the function that failed, error what
\* is left in rpc.error.  gs.c and vendor.c then assign rpc.error to errno.
Fails(system, error) ==
  /\ pc' = "idle"
  /\ result' = Outcome("failed", trid, NoLid)
  /\ errno' = IF Version1 THEN error ELSE system
  /\ UNCHANGED <<kind, trid, max, tries, sent>>

\* mad_build_pkt: the directed route is too long.
BuildFails ==
  /\ pc = "send" /\ kind = "smp" /\ tries = 0 /\ sent = [p \in Ports |-> 0]
  /\ Fails("EINVAL", "0")
  /\ UNCHANGED <<dport, outstanding, inbox>>

\* _do_madrpc refuses a port whose retries were set to a negative number.
RefusesRetries ==
  /\ pc = "send"
  /\ max <= 0
  /\ Fails("EINVAL", "EINVAL")
  /\ UNCHANGED <<dport, outstanding, inbox>>

Send ==
  /\ pc = "send"
  /\ max > 0
  /\ outstanding' = outstanding \cup {[trid |-> trid, dest |-> dport]}
  /\ sent' = [sent EXCEPT ![dport] = @ + 1]
  /\ pc' = "recv"
  /\ UNCHANGED <<kind, trid, dport, max, tries, result, errno, inbox>>

SendFails ==
  /\ pc = "send"
  /\ max > 0
  /\ Fails("ESYS", "0")
  /\ UNCHANGED <<dport, outstanding, inbox>>

------------------------------------------------------------------------------
\* Mutant of Mine: transaction ids are not compared.
MineAny(r) == TRUE

\* A report is for this call if it carries its transaction id.
Mine(r) == r.trid = trid

\* umad_recv returns the first report there is.
Takes(r) ==
  /\ pc = "recv"
  /\ inbox # <<>>
  /\ r = Head(inbox)
  /\ inbox' = Tail(inbox)
  /\ UNCHANGED outstanding

\* A report left by an earlier call: umad_recv is called again.
RecvStale(r) ==
  /\ Takes(r)
  /\ ~Mine(r)
  /\ UNCHANGED client

\* Mutant of RecvTimeout: the last try is not made.
RecvTimeoutEarly(r) ==
  /\ Takes(r) /\ Mine(r)
  /\ r.status = "ETIMEDOUT"
  /\ IF tries + 2 < max
     THEN /\ pc' = "send"
          /\ tries' = tries + 1
          /\ UNCHANGED <<kind, trid, max, result, errno, sent>>
     ELSE Fails("ETIMEDOUT", "ETIMEDOUT")
  /\ UNCHANGED dport

\* The kernel gave up on this send: the next try, or the end of the call.
RecvTimeout(r) ==
  /\ Takes(r) /\ Mine(r)
  /\ r.status = "ETIMEDOUT"
  /\ IF tries + 1 < max
     THEN /\ pc' = "send"
          /\ tries' = tries + 1
          /\ UNCHANGED <<kind, trid, max, result, errno, sent>>
     ELSE Fails("ETIMEDOUT", "ETIMEDOUT")
  /\ UNCHANGED dport

\* An answer; a report with ENOMEM (truncated) is taken for one as well.
Answer(r) == Takes(r) /\ Mine(r) /\ r.status \in {"ok", "ENOMEM"}

RecvData(r) ==
  /\ Answer(r)
  /\ r.mad = "ok"
  /\ pc' = "idle"
  /\ result' = Outcome("data", r.trid, r.from)
  /\ errno' = IF Version1 THEN "0" ELSE errno
  /\ UNCHANGED <<kind, trid, dport, max, tries, sent>>

\* mad_rpc follows a redirection; redirect_port has already overwritten the
\* portid when it refuses one by GID, and the call ends with the status of the
\* redirection.  mad_rpc_rmpp takes every redirection for an error.
RecvRedirect(r) ==
  /\ Answer(r)
  /\ r.mad = "redirect" /\ ~Rmpp
  /\ dport' = Redirect[r.from]
  /\ IF Redirect[r.from] # NoLid
     THEN /\ pc' = "send"
          /\ tries' = 0
          /\ UNCHANGED <<kind, trid, max, result, errno, sent>>
     ELSE Fails("EIO", "0")

RecvError(r) ==
  /\ Answer(r)
  /\ r.mad = "error" \/ (r.mad = "redirect" /\ Rmpp)
  /\ Fails("EIO", "0")
  /\ UNCHANGED dport

\* Mutant of PollTimesOut: the MAD is sent again instead.
PollRetries ==
  /\ pc = "recv"
  /\ inbox = <<>>
  /\ tries + 1 < max
  /\ tries' = tries + 1
  /\ pc' = "send"
  /\ UNCHANGED <<kind, trid, dport, max, result, errno, sent, outstanding, inbox>>

\* Mutant of PollTimesOut: the wait goes on.
PollAgain ==
  /\ pc = "recv"
  /\ inbox = <<>>
  /\ UNCHANGED vars

\* umad_recv waited for the whole timeout, or failed: the call fails at once,
\* whatever tries it has left.
PollTimesOut ==
  /\ pc = "recv"
  /\ inbox = <<>>
  /\ Fails("ESYS", "0")
  /\ UNCHANGED <<dport, outstanding, inbox>>

------------------------------------------------------------------------------
\* The kernel reports a send and forgets it.
ReportOf(o, status, mad) ==
  /\ outstanding' = outstanding \ {o}
  /\ inbox' = Append(inbox, [trid |-> o.trid, from |-> o.dest,
                             status |-> status, mad |-> mad])
  /\ UNCHANGED client

KernelTimeout(o) == ReportOf(o, "ETIMEDOUT", "none")

\* The port that was asked answers, redirects or returns an error status.
Answers(o) ==
  /\ o.dest \in Dests
  /\ \E status \in {"ok", "ENOMEM"} :
       \E mad \in IF Redirect[o.dest] = o.dest THEN {"ok", "error"} ELSE {"redirect"} :
         ReportOf(o, status, mad)

Recv ==
  \E r \in {inbox[i] : i \in 1..Len(inbox)} :
    RecvStale(r) \/ RecvTimeout(r) \/ RecvData(r) \/ RecvRedirect(r) \/ RecvError(r)

Running ==
  \/ BuildFails \/ RefusesRetries \/ Send \/ SendFails
  \/ Recv
  \/ PollTimesOut

Next ==
  \/ \E k \in Kinds, d \in Ports, s \in Settings : Call(k, d, s)
  \/ Running
  \/ \E o \in outstanding : KernelTimeout(o) \/ Answers(o)

Spec == Init /\ [][Next]_vars

(***************************************************************************)
(* The thread runs, and umad_recv returns after its timeout at the latest. *)
(* Nothing is assumed of the kernel or of the ports.                       *)
(***************************************************************************)
FairSpec == Spec /\ WF_vars(Running)

------------------------------------------------------------------------------
\* Data is returned only if a port that serves the call answered this very
\* call, at the address it was last sent to: never the late report of an
\* earlier call, nor an answer from before a redirection (rpc.c compares only
\* transaction ids, and a redirected call keeps its own).
OwnReply ==
  result.out = "data" => /\ result.trid = trid
                         /\ result.from = dport
                         /\ Redirect[dport] = dport

\* At most one send of the running call awaits a report or an answer in the
\* inbox, and it is the last one: the kernel would refuse a second one with
\* the same transaction id (EINVAL), and two would let an answer be mistaken.
OneInFlight ==
  LET flying == {o \in outstanding : o.trid = trid}
      landed == {i \in 1..Len(inbox) : inbox[i].trid = trid}
  IN  /\ pc = "send" => flying = {} /\ landed = {}
      /\ \A o \in flying : landed = {} /\ (pc = "recv" => o.dest = dport)
      /\ \A i \in landed : pc = "recv" => inbox[i].from = dport
      /\ \A o, p \in flying : o = p
      /\ \A i, j \in landed : i = j

\* What TimeoutIsEarned asks of the ports: redirections never come back.
GoesDown(rank) ==
  \A p \in Dests : Redirect[p] \in Dests \ {p} => rank[Redirect[p]] < rank[p]

\* A call is sent to one port at most max_retries times, however it is
\* redirected (unless redirections come back to the port), and ETIMEDOUT means
\* that as many sends to the last port went unanswered.
TimeoutIsEarned ==
  /\ \A p \in Ports : sent[p] > 0 => sent[p] <= max
  /\ result.out = "failed" /\ errno = "ETIMEDOUT" => sent[dport] = max

\* Every call returns.
CallEnds == pc # "idle" ~> pc = "idle"
=============================================================================
