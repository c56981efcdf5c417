---------------------------- MODULE MadRpcProofs ----------------------------
(***************************************************************************)
(* Proofs about MadRpc, for every set of ports, redirections, retries and  *)
(* number of calls.  OneInFlight is inductive once it is known that the    *)
(* kernel holds no transaction id from the future, and OwnReply follows    *)
(* from it.  TimeoutIsEarned needs redirections that never come back to a  *)
(* port: then a port that a call is redirected to was not asked before.    *)
(***************************************************************************)
EXTENDS MadRpc, TLAPS

\* The transaction ids the kernel holds were given to calls that were made,
\* and its reports say what the ports they come from do.
Kernel ==
  /\ \A o \in outstanding : o.trid <= trid
  /\ \A i \in 1..Len(inbox) :
       /\ inbox[i].trid <= trid
       /\ inbox[i].mad = "ok" =>
            inbox[i].from \in Dests /\ Redirect[inbox[i].from] = inbox[i].from
       /\ inbox[i].mad = "redirect" =>
            inbox[i].from \in Dests /\ Redirect[inbox[i].from] # inbox[i].from

\* OneInFlight without its local definitions.
InFlight ==
  /\ pc = "send" => /\ \A o \in outstanding : o.trid # trid
                    /\ \A i \in 1..Len(inbox) : inbox[i].trid # trid
  /\ \A o \in outstanding : o.trid = trid =>
       /\ \A i \in 1..Len(inbox) : inbox[i].trid # trid
       /\ \A p \in outstanding : p.trid = trid => o = p
       /\ pc = "recv" => o.dest = dport
  /\ \A i \in 1..Len(inbox) : inbox[i].trid = trid =>
       /\ \A j \in 1..Len(inbox) : inbox[j].trid = trid => i = j
       /\ pc = "recv" => inbox[i].from = dport

\* A call that runs has returned nothing.
Unanswered == pc # "idle" => result.out = "none"

IInv == TypeOK /\ Kernel /\ InFlight /\ Unanswered /\ OwnReply

\* InFlight and OneInFlight say the same.
LEMMA SameInFlight == InFlight <=> OneInFlight
  BY DEF InFlight, OneInFlight

LEMMA InitOK == Init => IInv
  BY MadRpcAssumption
  DEF Init, IInv, TypeOK, Kernel, InFlight, Unanswered, OwnReply, Ports, Outcome, Sends, Reports, Kinds

-----------------------------------------------------------------------------
\* Facts about the inbox when its first report is taken.
LEMMA TakesOK ==
  ASSUME TypeOK, NEW r, Takes(r)
  PROVE  /\ r = inbox[1]
         /\ r \in Reports
         /\ 1 \in 1..Len(inbox)
         /\ inbox' \in Seq(Reports)
         /\ Len(inbox') = Len(inbox) - 1
         /\ \A i \in 1..Len(inbox') : i + 1 \in 1..Len(inbox) /\ inbox'[i] = inbox[i + 1]
         /\ outstanding' = outstanding
         /\ pc = "recv"
  BY DEF TypeOK, Takes

\* Taking a report leaves the kernel as it was, less that report.
LEMMA TakesKernel ==
  ASSUME TypeOK, Kernel, InFlight, NEW r, Takes(r), trid' = trid
  PROVE  /\ Kernel'
         /\ dport' = dport /\ pc' = pc => InFlight'
         /\ Mine(r) => /\ \A o \in outstanding : o.trid # trid
                       /\ \A i \in 1..Len(inbox') : inbox'[i].trid # trid
                       /\ r.from = dport
         /\ r.mad = "ok" => r.from \in Dests /\ Redirect[r.from] = r.from
         /\ r.mad = "redirect" => r.from \in Dests /\ Redirect[r.from] # r.from
<1>1. /\ r = inbox[1]
      /\ 1 \in 1..Len(inbox)
      /\ Len(inbox') = Len(inbox) - 1
      /\ \A i \in 1..Len(inbox') : i + 1 \in 1..Len(inbox) /\ inbox'[i] = inbox[i + 1]
      /\ outstanding' = outstanding
      /\ pc = "recv"
      /\ Len(inbox) \in Nat
  BY TakesOK DEF TypeOK
<1>2. Kernel'
  BY <1>1 DEF Kernel
<1>3. ASSUME dport' = dport, pc' = pc
      PROVE  InFlight'
  <2>1. pc' = "recv"
    BY <1>1, <1>3
  <2>2. \A o \in outstanding' : o.trid = trid' =>
          /\ \A i \in 1..Len(inbox') : inbox'[i].trid # trid'
          /\ \A p \in outstanding' : p.trid = trid' => o = p
          /\ o.dest = dport'
    BY <1>1, <1>3 DEF InFlight
  <2>3. ASSUME NEW i \in 1..Len(inbox'), inbox'[i].trid = trid'
        PROVE  /\ \A j \in 1..Len(inbox') : inbox'[j].trid = trid' => i = j
               /\ inbox'[i].from = dport'
    <3>1. \A j \in 1..Len(inbox') : inbox'[j].trid = trid' => i + 1 = j + 1
      BY <1>1, <2>3 DEF InFlight
    <3>2. inbox'[i].from = dport'
      BY <1>1, <1>3, <2>3 DEF InFlight
    <3>. QED
      BY <3>1, <3>2
  <2>. QED
    BY <2>1, <2>2, <2>3 DEF InFlight
<1>4. ASSUME Mine(r)
      PROVE  /\ \A o \in outstanding : o.trid # trid
             /\ \A i \in 1..Len(inbox') : inbox'[i].trid # trid
             /\ r.from = dport
  <2>1. inbox[1].trid = trid
    BY <1>1, <1>4 DEF Mine
  <2>2. \A j \in 1..Len(inbox) : inbox[j].trid = trid => 1 = j
    BY <1>1, <2>1 DEF InFlight
  <2>3. \A i \in 1..Len(inbox') : inbox'[i].trid # trid
    BY <1>1, <2>2
  <2>4. r.from = dport
    BY <1>1, <2>1 DEF InFlight
  <2>5. \A o \in outstanding : o.trid # trid
    BY <1>1, <2>1 DEF InFlight
  <2>. QED
    BY <2>3, <2>4, <2>5
<1>. QED
  BY <1>1, <1>2, <1>3, <1>4 DEF Kernel

-----------------------------------------------------------------------------
LEMMA NextOK == IInv /\ [Next]_vars => IInv'
<1>. SUFFICES ASSUME IInv, [Next]_vars
              PROVE  IInv'
  OBVIOUS
<1>. USE MadRpcAssumption
<1>i. TypeOK /\ Kernel /\ InFlight /\ Unanswered /\ OwnReply
  BY DEF IInv
<1>1. ASSUME NEW k \in Kinds, NEW d \in Ports, NEW s \in Settings, Call(k, d, s)
      PROVE  IInv'
  <2>1. TypeOK'
    BY <1>i, <1>1 DEF TypeOK, Kinds, Call, MaxRetries, Outcome, Ports
  <2>k. /\ trid \in Nat /\ trid' = trid + 1
        /\ outstanding' = outstanding /\ inbox' = inbox
        /\ \A o \in outstanding : o.trid \in Nat
        /\ \A i \in 1..Len(inbox) : inbox[i].trid \in Nat
    <3>1. \A i \in 1..Len(inbox) : inbox[i] \in Reports
      BY <1>i DEF TypeOK
    <3>. QED
      BY <1>i, <1>1, <3>1 DEF TypeOK, Sends, Reports, Call
  <2>2. Kernel'
    BY <1>i, <2>k DEF Kernel
  <2>3. InFlight'
    <3>1. \A o \in outstanding' : o.trid # trid'
      BY <1>i, <1>1 DEF TypeOK, Sends, Kernel, Call
    <3>2. \A i \in 1..Len(inbox') : inbox'[i].trid # trid'
      BY <1>i, <1>1 DEF TypeOK, Reports, Kernel, Call
    <3>. QED
      BY <3>1, <3>2 DEF InFlight
  <2>4. Unanswered' /\ OwnReply'
    BY <1>1 DEF Unanswered, OwnReply, Call, Outcome
  <2>. QED
    BY <2>1, <2>2, <2>3, <2>4 DEF IInv
<1>2. CASE BuildFails \/ RefusesRetries \/ SendFails \/ PollTimesOut
  <2>1. TypeOK'
    BY <1>i, <1>2 DEF TypeOK, BuildFails, RefusesRetries, SendFails, PollTimesOut, Fails, Outcome, Ports
  <2>2. Kernel' /\ InFlight'
    BY <1>i, <1>2 DEF Kernel, InFlight, BuildFails, RefusesRetries, SendFails, PollTimesOut, Fails
  <2>3. Unanswered' /\ OwnReply'
    BY <1>2 DEF Unanswered, OwnReply, BuildFails, RefusesRetries, SendFails, PollTimesOut, Fails, Outcome
  <2>. QED
    BY <2>1, <2>2, <2>3 DEF IInv
<1>3. CASE Send
  <2>1. TypeOK'
    BY <1>i, <1>3 DEF TypeOK, Send, Sends
  <2>2. Kernel'
    BY <1>i, <1>3 DEF TypeOK, Kernel, Send
  <2>3. InFlight'
    BY <1>i, <1>3 DEF InFlight, Send
  <2>4. Unanswered' /\ OwnReply'
    BY <1>i, <1>3 DEF Unanswered, OwnReply, Send
  <2>. QED
    BY <2>1, <2>2, <2>3, <2>4 DEF IInv
<1>4. ASSUME NEW r, RecvStale(r)
      PROVE  IInv'
  <2>1. TypeOK'
    BY <1>i, <1>4, TakesOK DEF TypeOK, RecvStale, client
  <2>2. Kernel' /\ InFlight'
    BY <1>i, <1>4, TakesKernel DEF RecvStale, client
  <2>3. Unanswered' /\ OwnReply'
    BY <1>i, <1>4 DEF Unanswered, OwnReply, RecvStale, client
  <2>. QED
    BY <2>1, <2>2, <2>3 DEF IInv
<1>5. ASSUME NEW r, Takes(r), Mine(r), r \in Reports,
             RecvTimeout(r) \/ RecvData(r) \/ RecvRedirect(r) \/ RecvError(r)
      PROVE  IInv'
  <2>1. trid' = trid
    BY <1>5 DEF RecvTimeout, RecvData, RecvRedirect, RecvError, Fails
  <2>2. Kernel'
    BY <1>i, <1>5, <2>1, TakesKernel
  <2>3. /\ \A o \in outstanding' : o.trid # trid'
        /\ \A i \in 1..Len(inbox') : inbox'[i].trid # trid'
    BY <1>i, <1>5, <2>1, TakesKernel, TakesOK
  <2>4. InFlight'
    BY <2>3 DEF InFlight
  <2>5. /\ r.from = dport
        /\ r.mad = "ok" => r.from \in Dests /\ Redirect[r.from] = r.from
        /\ r.mad = "redirect" => r.from \in Dests /\ Redirect[r.from] # r.from
    BY <1>i, <1>5, <2>1, TakesKernel
  <2>6. inbox' \in Seq(Reports) /\ outstanding' = outstanding
    BY <1>i, <1>5, TakesOK
  <2>7. TypeOK'
    <3>1. r.from \in Ports /\ r.trid \in Nat
      BY <1>5 DEF Reports
    <3>2. CASE RecvTimeout(r)
      BY <1>i, <2>6, <3>2 DEF TypeOK, RecvTimeout, Fails, Outcome, Ports
    <3>3. CASE RecvData(r)
      BY <1>i, <2>6, <3>1, <3>3 DEF TypeOK, RecvData, Outcome
    <3>4. CASE RecvRedirect(r)
      BY <1>i, <2>5, <2>6, <3>1, <3>4 DEF TypeOK, RecvRedirect, Answer, Fails, Outcome, Ports
    <3>5. CASE RecvError(r)
      BY <1>i, <2>6, <3>5 DEF TypeOK, RecvError, Fails, Outcome, Ports
    <3>. QED
      BY <1>5, <3>2, <3>3, <3>4, <3>5
  <2>8. Unanswered' /\ OwnReply'
    <3>1. CASE RecvTimeout(r) \/ RecvError(r) \/ RecvRedirect(r)
      <4>1. result' = result \/ result' = Outcome("failed", trid, NoLid)
        BY <3>1 DEF RecvTimeout, RecvError, RecvRedirect, Fails
      <4>2. result'.out \in {"none", "failed"}
        BY <1>i, <1>5, <4>1 DEF Unanswered, Outcome, Takes
      <4>3. pc' # "idle" => result' = result
        BY <1>5, <3>1 DEF RecvTimeout, RecvError, RecvRedirect, Fails
      <4>4. result'.out # "data"
        BY <4>2
      <4>5. result.out = "none"
        BY <1>i, <1>5 DEF Unanswered, Takes
      <4>. QED
        BY <4>3, <4>4, <4>5 DEF Unanswered, OwnReply
    <3>2. CASE RecvData(r)
      BY <1>5, <2>5, <3>2 DEF Unanswered, OwnReply, RecvData, Mine, Outcome
    <3>. QED
      BY <1>5, <3>1, <3>2
  <2>. QED
    BY <2>2, <2>4, <2>7, <2>8 DEF IInv
<1>6. ASSUME NEW o \in outstanding, KernelTimeout(o) \/ Answers(o)
      PROVE  IInv'
  <2>1. PICK status \in {"ok", "ENOMEM", "ETIMEDOUT"}, mad \in {"ok", "error", "redirect", "none"} :
          /\ ReportOf(o, status, mad)
          /\ mad = "ok" => o.dest \in Dests /\ Redirect[o.dest] = o.dest
          /\ mad = "redirect" => o.dest \in Dests /\ Redirect[o.dest] # o.dest
    BY <1>6 DEF KernelTimeout, Answers
  <2>2. DEFINE rep == [trid |-> o.trid, from |-> o.dest, status |-> status, mad |-> mad]
  <2>3. /\ rep \in Reports
        /\ o.trid \in Nat
        /\ o.trid <= trid
        /\ Len(inbox) \in Nat
        /\ inbox' = Append(inbox, rep)
        /\ outstanding' = outstanding \ {o}
        /\ UNCHANGED client
    BY <1>i, <2>1 DEF TypeOK, Kernel, ReportOf, Sends, Reports
  <2>4. /\ Len(inbox') = Len(inbox) + 1
        /\ inbox'[Len(inbox) + 1] = rep
        /\ \A i \in 1..Len(inbox) : inbox'[i] = inbox[i]
        /\ inbox' \in Seq(Reports)
    BY <1>i, <2>3 DEF TypeOK
  <2>5. TypeOK'
    BY <1>i, <2>3, <2>4 DEF TypeOK, client
  <2>6. Kernel'
    <3>1. \A p \in outstanding' : p.trid <= trid'
      BY <1>i, <2>3 DEF Kernel, client
    <3>2. ASSUME NEW i \in 1..Len(inbox')
          PROVE  /\ inbox'[i].trid <= trid'
                 /\ inbox'[i].mad = "ok" =>
                      inbox'[i].from \in Dests /\ Redirect[inbox'[i].from] = inbox'[i].from
                 /\ inbox'[i].mad = "redirect" =>
                      inbox'[i].from \in Dests /\ Redirect[inbox'[i].from] # inbox'[i].from
      <4>1. CASE i = Len(inbox) + 1
        BY <2>1, <2>3, <2>4, <4>1 DEF client
      <4>2. CASE i \in 1..Len(inbox)
        BY <1>i, <2>3, <2>4, <4>2 DEF Kernel, client
      <4>. QED
        BY <2>3, <2>4, <4>1, <4>2
    <3>. QED
      BY <3>1, <3>2 DEF Kernel
  <2>7. InFlight'
    <3>u. trid' = trid /\ pc' = pc /\ dport' = dport
      BY <2>3 DEF client
    <3>1. CASE o.trid # trid
      <4>1. \A i \in 1..Len(inbox') : inbox'[i].trid = trid => i \in 1..Len(inbox) /\ inbox[i].trid = trid
        BY <2>3, <2>4, <3>1
      <4>2. \A i \in 1..Len(inbox') : inbox'[i].trid = trid => inbox'[i] = inbox[i]
        BY <2>4, <4>1
      <4>. QED
        BY <1>i, <2>3, <3>u, <4>1, <4>2 DEF InFlight
    <3>2. CASE o.trid = trid
      <4>1. \A p \in outstanding' : p.trid # trid
        BY <1>i, <2>3, <3>2 DEF InFlight
      <4>2. \A i \in 1..Len(inbox') : inbox'[i].trid = trid => i = Len(inbox) + 1
        BY <1>i, <2>3, <2>4, <3>2 DEF InFlight
      <4>3. pc # "send" /\ (pc = "recv" => rep.from = dport)
        BY <1>i, <3>2 DEF InFlight
      <4>. QED
        BY <2>4, <3>u, <4>1, <4>2, <4>3 DEF InFlight
    <3>. QED
      BY <3>1, <3>2
  <2>8. Unanswered' /\ OwnReply'
    BY <1>i, <2>3 DEF Unanswered, OwnReply, client
  <2>. QED
    BY <2>5, <2>6, <2>7, <2>8 DEF IInv
<1>7. CASE UNCHANGED vars
  BY <1>i, <1>7 DEF IInv, TypeOK, Kernel, InFlight, Unanswered, OwnReply, vars, client
<1>8. ASSUME NEW r, RecvTimeout(r) \/ RecvData(r) \/ RecvRedirect(r) \/ RecvError(r)
      PROVE  Takes(r) /\ Mine(r)
  BY <1>8 DEF RecvTimeout, RecvData, RecvRedirect, RecvError, Answer
<1>9. CASE Recv
  <2>1. PICK r : RecvStale(r) \/ RecvTimeout(r) \/ RecvData(r) \/ RecvRedirect(r) \/ RecvError(r)
    BY <1>9 DEF Recv
  <2>2. CASE RecvStale(r)
    BY <1>4, <2>2
  <2>3. CASE ~RecvStale(r)
    <3>1. Takes(r) /\ Mine(r)
      BY <1>8, <2>1, <2>3
    <3>2. r \in Reports
      BY <1>i, <3>1, TakesOK
    <3>. QED
      BY <1>5, <2>1, <2>3, <3>1, <3>2
  <2>. QED
    BY <2>2, <2>3
<1>. QED
  BY <1>1, <1>2, <1>3, <1>6, <1>7, <1>9 DEF Next, Running

\* IInv holds in every state that mad_rpc and mad_rpc_rmpp reach.
LEMMA Invariant == Spec => []IInv
  BY InitOK, NextOK, PTL DEF Spec

\* Data that mad_rpc or mad_rpc_rmpp returns is the answer to that very call
\* by a port that serves it, whatever is lost, late or redirected.
THEOREM RepliesAreOwn == Spec => []OwnReply
<1>1. IInv => OwnReply
  BY DEF IInv
<1>. QED
  BY <1>1, Invariant, PTL

\* The kernel never holds two sends of the running call: _do_madrpc sends
\* again only after the report of the send before.
THEOREM OneSendInFlight == Spec => []OneInFlight
<1>1. IInv => OneInFlight
  BY SameInFlight DEF IInv
<1>. QED
  BY <1>1, Invariant, PTL

\* Every state of the calls is well typed.
THEOREM CallsAreTyped == Spec => []TypeOK
<1>1. IInv => TypeOK
  BY DEF IInv
<1>. QED
  BY <1>1, Invariant, PTL

-----------------------------------------------------------------------------
(* The tries of a call. *)

\* A call has been sent to the port it is at as often as it has tried, and not at
\* all to the ports it may still be redirected to.
Tried(rank) ==
  /\ pc = "send" => sent[dport] = tries
  /\ pc = "recv" => sent[dport] = tries + 1
  /\ pc # "idle" /\ max > 0 => tries < max
  /\ pc # "idle" /\ dport \in Dests =>
       \A p \in Dests : rank[p] < rank[dport] => sent[p] = 0

\* A call that ran out of tries, as opposed to one that failed otherwise.
LEMMA FailsOtherwise ==
  ASSUME NEW rank, NEW system, NEW error, Fails(system, error),
         system # "ETIMEDOUT", error # "ETIMEDOUT", TimeoutIsEarned
  PROVE  Tried(rank)' /\ TimeoutIsEarned'
<1>1. pc' = "idle" /\ errno' # "ETIMEDOUT" /\ sent' = sent /\ max' = max
  BY DEF Fails
<1>2. QED
  BY <1>1 DEF Tried, TimeoutIsEarned

LEMMA TriedStep ==
  ASSUME NEW rank \in [Dests -> Nat], GoesDown(rank), IInv, Tried(rank), TimeoutIsEarned,
         [Next]_vars
  PROVE  Tried(rank)' /\ TimeoutIsEarned'
<1> USE MadRpcAssumption
<1>i. /\ TypeOK /\ Kernel /\ InFlight /\ Unanswered
      /\ tries \in Nat /\ max \in Int /\ dport \in Ports /\ sent \in [Ports -> Nat]
      /\ NoLid \notin Dests
  BY DEF IInv, TypeOK
<1>1. ASSUME NEW k \in Kinds, NEW d \in Ports, NEW s \in Settings, Call(k, d, s)
      PROVE  Tried(rank)' /\ TimeoutIsEarned'
  <2>1. /\ pc' = "send" /\ tries' = 0 /\ dport' \in Ports /\ sent' = [p \in Ports |-> 0]
        /\ result'.out = "none"
    BY <1>i, <1>1 DEF Call, Outcome, Ports
  <2>2. QED
    BY <2>1 DEF Tried, TimeoutIsEarned, Ports
<1>2. CASE BuildFails \/ RefusesRetries \/ SendFails \/ PollTimesOut
  <2>1. Fails("EINVAL", "0") \/ Fails("EINVAL", "EINVAL") \/ Fails("ESYS", "0")
    BY <1>2 DEF BuildFails, RefusesRetries, SendFails, PollTimesOut
  <2>2. QED
    BY <2>1, FailsOtherwise
<1>3. CASE Send
  <2>1. /\ pc = "send" /\ pc' = "recv" /\ max > 0 /\ sent' = [sent EXCEPT ![dport] = @ + 1]
        /\ UNCHANGED <<dport, max, tries, result, errno>>
    BY <1>3 DEF Send
  <2>2. sent[dport] = tries /\ tries < max
    BY <2>1 DEF Tried
  <2>3. sent'[dport] = tries + 1 /\ \A p \in Ports : p # dport => sent'[p] = sent[p]
    BY <1>i, <2>1, <2>2
  <2>4. ASSUME dport \in Dests, NEW p \in Dests, rank[p] < rank[dport]
        PROVE  sent'[p] = 0
    <3>1. rank[p] \in Nat /\ rank[dport] \in Nat
      BY <2>4
    <3>2. p # dport /\ p \in Ports
      BY <2>4, <3>1 DEF Ports
    <3>3. sent[p] = 0
      BY <2>1, <2>4 DEF Tried
    <3>4. QED
      BY <2>3, <3>2, <3>3
  <2>5. Tried(rank)'
    <3>1. max' = max /\ tries' = tries /\ dport' = dport /\ pc' = "recv"
      BY <2>1
    <3>2. QED
      BY <2>2, <2>3, <2>4, <3>1 DEF Tried
  <2>6. result'.out = "none"
    BY <2>1 DEF IInv, Unanswered
  <2>7. ASSUME NEW p \in Ports, sent'[p] > 0
        PROVE  sent'[p] <= max'
    <3>1. CASE p = dport
      BY <1>i, <2>1, <2>2, <2>3, <3>1
    <3>2. CASE p # dport
      BY <2>1, <2>3, <2>7, <3>2 DEF TimeoutIsEarned
    <3>3. QED
      BY <3>1, <3>2
  <2>8. QED
    BY <2>5, <2>6, <2>7 DEF TimeoutIsEarned
<1>4. CASE UNCHANGED client
  BY <1>4 DEF client, Tried, TimeoutIsEarned
<1>5. ASSUME NEW r, RecvTimeout(r)
      PROVE  Tried(rank)' /\ TimeoutIsEarned'
  <2>1. pc = "recv" /\ UNCHANGED <<dport, max, sent>>
    BY <1>5 DEF RecvTimeout, Takes, Fails
  <2>2. sent[dport] = tries + 1 /\ sent[dport] <= max
    BY <1>i, <2>1 DEF Tried, TimeoutIsEarned
  <2>3. CASE tries + 1 < max
    BY <1>5, <1>i, <2>1, <2>2, <2>3 DEF RecvTimeout, Tried, TimeoutIsEarned
  <2>4. CASE ~(tries + 1 < max)
    <3>1. sent[dport] = max
      BY <1>i, <2>2, <2>4
    <3>2. pc' = "idle"
      BY <1>5, <2>4 DEF RecvTimeout, Fails
    <3>3. QED
      BY <2>1, <3>1, <3>2 DEF Tried, TimeoutIsEarned
  <2>5. QED
    BY <2>3, <2>4
<1>6. ASSUME NEW r, RecvData(r)
      PROVE  Tried(rank)' /\ TimeoutIsEarned'
  BY <1>6 DEF RecvData, Tried, TimeoutIsEarned, Outcome
<1>7. ASSUME NEW r, RecvRedirect(r)
      PROVE  Tried(rank)' /\ TimeoutIsEarned'
  <2>1. /\ Takes(r) /\ Mine(r) /\ r.mad = "redirect" /\ trid' = trid
        /\ dport' = Redirect[r.from] /\ pc = "recv"
    BY <1>7 DEF RecvRedirect, Answer, Takes, Fails
  <2>2. r.from = dport /\ dport \in Dests /\ Redirect[dport] # dport
    BY <1>i, <2>1, TakesKernel
  <2>3. CASE Redirect[dport] = NoLid
    BY <1>7, <2>2, <2>3, FailsOtherwise DEF RecvRedirect
  <2>4. CASE Redirect[dport] # NoLid
    <3>1. /\ pc' = "send" /\ tries' = 0 /\ UNCHANGED <<max, result, errno, sent>>
          /\ dport' = Redirect[dport] /\ dport' \in Dests
      BY <1>7, <2>2, <2>4 DEF RecvRedirect
    <3>2. rank[dport'] < rank[dport]
      BY <2>2, <3>1 DEF GoesDown
    <3>3. \A p \in Dests : rank[p] < rank[dport] => sent[p] = 0
      BY <2>1, <2>2 DEF Tried
    <3>4. \A p \in Dests : rank[p] \in Nat
      OBVIOUS
    <3>5. \A p \in Dests : rank[p] < rank[dport'] => sent'[p] = 0
      BY <2>2, <3>1, <3>2, <3>3, <3>4
    <3>6. sent'[dport'] = 0
      BY <3>1, <3>2, <3>3
    <3>7. Tried(rank)'
      BY <3>1, <3>5, <3>6 DEF Tried
    <3>8. result.out = "none"
      BY <2>1 DEF IInv, Unanswered
    <3>9. TimeoutIsEarned'
      BY <3>1, <3>8 DEF TimeoutIsEarned
    <3>10. QED
      BY <3>7, <3>9
  <2>5. QED
    BY <2>3, <2>4
<1>8. ASSUME NEW r, RecvError(r)
      PROVE  Tried(rank)' /\ TimeoutIsEarned'
  BY <1>8, FailsOtherwise DEF RecvError
<1>9. CASE Recv
  BY <1>4, <1>5, <1>6, <1>7, <1>8, <1>9 DEF Recv, RecvStale
<1>10. ASSUME NEW o, KernelTimeout(o) \/ Answers(o)
       PROVE  Tried(rank)' /\ TimeoutIsEarned'
  BY <1>4, <1>10 DEF KernelTimeout, Answers, ReportOf
<1>11. CASE UNCHANGED vars
  BY <1>4, <1>11 DEF vars
<1>12. QED
  BY <1>1, <1>2, <1>3, <1>9, <1>10, <1>11 DEF Next, Running

\* If redirections do not lead back to a port, a call is sent to each port at most
\* max_retries times, and one that fails with ETIMEDOUT was sent to its last port exactly
\* as often (_do_madrpc, rpc.c:123-193, and mad_rpc, rpc.c:216-274).
THEOREM TimeoutsAreEarned ==
  ASSUME NEW rank \in [Dests -> Nat], GoesDown(rank)
  PROVE  Spec => []TimeoutIsEarned
<1>1. Init => Tried(rank) /\ TimeoutIsEarned
  BY DEF Init, Tried, TimeoutIsEarned, Outcome
<1>2. IInv /\ Tried(rank) /\ TimeoutIsEarned /\ [Next]_vars
        => Tried(rank)' /\ TimeoutIsEarned'
  BY TriedStep
<1>3. QED
  BY <1>1, <1>2, Invariant, PTL DEF Spec
=============================================================================
