----------------------------- MODULE MadServer -----------------------------
(***************************************************************************)
(* The two tools with a server of their own, ibping.c and ibsysstat.c, and *)
(* the server side of libibmad under them (serv.c, register.c): one server *)
(* process registers for a vendor class and answers what it receives; the  *)
(* clients call it over a network that loses, delays and reorders.         *)
(*                                                                         *)
(* The kernel of the server (external) queues requests for the registered  *)
(* agent and drops them when there is none.  It also hands back to the     *)
(* server the server's OWN sends that were given a timeout and that nobody *)
(* answered: mad_respond_via of ibping sends with the default timeout, so  *)
(* every answer comes back that way; server_respond of ibsysstat sends     *)
(* with the timeout 0, so none does.  Only umad_status tells a send handed *)
(* back from a request.                                                    *)
(*                                                                         *)
(* Abstractions.  The queues of the kernel and the network are bags: how   *)
(* many messages of each transaction they hold.  A client call is the one  *)
(* of MadRpc, reduced to sends with one transaction id, an answer or a     *)
(* timeout.  The texts that are exchanged and the round-trip times are     *)
(* left out, and so is resolving the address.                              *)
(***************************************************************************)
EXTENDS Integers, FiniteSets

CONSTANTS
  Clients,          \* the client processes
  ToolNames,        \* which of the tools: a subset of {"ibping", "ibsysstat"}
  MaxCount,         \* bound of the model: the values of ibping -c
  MaxTries,         \* mad_get_retries of the clients
  MaxStarts         \* bound of the model: times the server is started

ASSUME MadServerAssumption ==
  /\ ToolNames \subseteq {"ibping", "ibsysstat"}
  /\ MaxCount \in Nat \ {0}
  /\ MaxTries \in Nat \ {0}
  /\ MaxStarts \in Nat

Trids == 1..MaxCount
Msgs == Clients \X Trids          \* transactions: who asks, transaction id

VARIABLES
  tool,
  up, starts,       \* the server process is registered; how often it was
  queued,           \* server kernel: requests to be received
  own,              \* server kernel: sends of the server that have a timeout
  returned,         \* server kernel: such sends, handed back after it
  wire, back,       \* network: requests and answers under way
  delivered,        \* history: requests queued for the server
  answered,         \* history: answers the server sent
  pc,               \* of each client
  count,            \* of each client: what is left of -c
  tries,            \* of each client: sends of the call
  ntrans, replied, lost,          \* the statistics of each client
  printed           \* of each client: the statistics report() printed

server == <<up, starts, queued, own, returned, delivered, answered>>
stats == <<count, ntrans, replied, lost, printed>>
clients == <<pc, tries, stats>>
vars == <<tool, server, wire, back, clients>>

Bags == [Msgs -> Nat]
Empty == [m \in Msgs |-> 0]
Add(bag, m) == [bag EXCEPT ![m] = @ + 1]
Drop(bag, m) == [bag EXCEPT ![m] = @ - 1]

Statistics == [ntrans : Nat, replied : Nat, lost : Nat]
NotPrinted == [ntrans |-> 0, replied |-> 0, lost |-> 0]

TypeOK ==
  /\ tool \in ToolNames
  /\ up \in BOOLEAN /\ starts \in Nat
  /\ queued \in Bags /\ own \in Bags /\ returned \in Bags
  /\ wire \in Bags /\ back \in Bags
  /\ delivered \in Bags /\ answered \in Bags
  /\ pc \in [Clients -> {"idle", "call", "out"}]
  /\ count \in [Clients -> 0..MaxCount]
  /\ tries \in [Clients -> Nat]
  /\ ntrans \in [Clients -> Nat]
  /\ replied \in [Clients -> Nat] /\ lost \in [Clients -> Nat]
  /\ printed \in [Clients -> Statistics]

\* ibsysstat makes one call; ibping as many as -c says.
Init ==
  /\ tool \in ToolNames
  /\ up = FALSE /\ starts = 0
  /\ queued = Empty /\ own = Empty /\ returned = Empty
  /\ wire = Empty /\ back = Empty
  /\ delivered = Empty /\ answered = Empty
  /\ pc = [c \in Clients |-> "idle"]
  /\ count \in [Clients -> IF tool = "ibping" THEN 1..MaxCount ELSE {1}]
  /\ tries = [c \in Clients |-> 0]
  /\ ntrans = [c \in Clients |-> 0]
  /\ replied = [c \in Clients |-> 0]
  /\ lost = [c \in Clients |-> 0]
  /\ printed = [c \in Clients |-> NotPrinted]

------------------------------------------------------------------------------
(***************************************************************************)
(* The server.                                                             *)
(***************************************************************************)

\* mad_register_server_via: the class is not registered in this process and
\* the kernel accepts the agent.  A refusal ends the tool (no step).
RegisterServer ==
  /\ ~up
  /\ starts < MaxStarts
  /\ up' = TRUE
  /\ starts' = starts + 1
  /\ UNCHANGED <<tool, queued, own, returned, delivered, answered, wire, back, clients>>

\* mad_receive_via returns NULL (an error, a MAD longer than 256 bytes), which
\* ends the loop of both servers, or the process is killed: the kernel forgets
\* its queue and its sends.
ServerOut ==
  /\ up
  /\ up' = FALSE
  /\ queued' = Empty /\ own' = Empty /\ returned' = Empty
  /\ UNCHANGED <<tool, starts, delivered, answered, wire, back, clients>>

\* mad_respond_via sends with the default timeout, server_respond with none.
HasTimeout == tool = "ibping"

\* umad_send of the answer: mad_respond_via for ibping, server_respond for
\* ibsysstat.  Both copy class, attribute, OUI and transaction id.
Sends(m) ==
  /\ answered' = Add(answered, m)
  /\ back' = Add(back, m)
  /\ own' = IF HasTimeout THEN Add(own, m) ELSE own

\* umad_send fails: the server says so in its debug output and goes on.
SendFails == UNCHANGED <<answered, back, own>>

\* A MAD with status 0 is answered.
Respond(m) ==
  /\ up
  /\ queued[m] > 0
  /\ queued' = Drop(queued, m)
  /\ Sends(m) \/ SendFails
  /\ UNCHANGED <<tool, up, starts, returned, delivered, wire, clients>>

\* Mutant of DropReturned: the status is not looked at.
AnswerReturned(m) ==
  /\ up
  /\ returned[m] > 0
  /\ returned' = Drop(returned, m)
  /\ Sends(m) \/ SendFails
  /\ UNCHANGED <<tool, up, starts, queued, delivered, wire, clients>>

\* Mutant of DropReturned: the loop goes on without the next umad_recv.
LoopOnReturned(m) ==
  /\ up
  /\ returned[m] > 0
  /\ UNCHANGED vars

\* Any other status: a send of the server's own, handed back.
DropReturned(m) ==
  /\ up
  /\ returned[m] > 0
  /\ returned' = Drop(returned, m)
  /\ UNCHANGED <<tool, up, starts, queued, own, delivered, answered, wire, back, clients>>

Serve == \E m \in Msgs : Respond(m) \/ DropReturned(m)

\* The kernel's timeout of a send of the server.
HandBack(m) ==
  /\ own[m] > 0
  /\ own' = Drop(own, m)
  /\ returned' = Add(returned, m)
  /\ UNCHANGED <<tool, up, starts, queued, delivered, answered, wire, back, clients>>

------------------------------------------------------------------------------
(***************************************************************************)
(* The network.                                                            *)
(***************************************************************************)
Arrive(m) ==
  /\ wire[m] > 0
  /\ wire' = Drop(wire, m)
  /\ IF up THEN /\ queued' = Add(queued, m)
                /\ delivered' = Add(delivered, m)
           ELSE UNCHANGED <<queued, delivered>>
  /\ UNCHANGED <<tool, up, starts, own, returned, answered, back, clients>>

\* A request is lost; or an answer, or the kernel of the client drops it: no
\* send with its transaction id waits.
LoseRequest(m) ==
  /\ wire[m] > 0
  /\ wire' = Drop(wire, m)
  /\ UNCHANGED <<tool, server, back, clients>>

LoseAnswer(m) ==
  /\ back[m] > 0
  /\ back' = Drop(back, m)
  /\ UNCHANGED <<tool, server, wire, clients>>

------------------------------------------------------------------------------
(***************************************************************************)
(* The clients.  The transaction id of a client is the number of its call. *)
(***************************************************************************)
Current(c) == <<c, ntrans[c]>>

\* The next call, with its first send.
Ask(c) ==
  /\ pc[c] = "idle"
  /\ count[c] > 0
  /\ count' = [count EXCEPT ![c] = @ - 1]
  /\ ntrans' = [ntrans EXCEPT ![c] = @ + 1]
  /\ pc' = [pc EXCEPT ![c] = "call"]
  /\ tries' = [tries EXCEPT ![c] = 1]
  /\ wire' = Add(wire, <<c, ntrans[c] + 1>>)
  /\ UNCHANGED <<tool, server, back, replied, lost, printed>>

\* A call ends.  ibsysstat exits after its call, ibping goes on.
Ends(c) == pc' = [pc EXCEPT ![c] = IF tool = "ibping" THEN "idle" ELSE "out"]

\* Mutant of Answered: any answer for the client will do.
AnsweredByAny(c) ==
  \E t \in Trids :
    /\ pc[c] = "call"
    /\ back[<<c, t>>] > 0
    /\ back' = Drop(back, <<c, t>>)
    /\ replied' = [replied EXCEPT ![c] = @ + 1]
    /\ Ends(c)
    /\ UNCHANGED <<tool, server, wire, count, tries, ntrans, lost, printed>>

\* An answer with the transaction id of the call.
Answered(c) ==
  /\ pc[c] = "call"
  /\ back[Current(c)] > 0
  /\ back' = Drop(back, Current(c))
  /\ replied' = [replied EXCEPT ![c] = @ + 1]
  /\ Ends(c)
  /\ UNCHANGED <<tool, server, wire, count, tries, ntrans, lost, printed>>

\* mad_rpc_rmpp under ibping sends again with the same transaction id;
\* ibsysstat sends once.
TriesAgain(c) ==
  /\ pc[c] = "call"
  /\ tool = "ibping"
  /\ tries[c] < MaxTries
  /\ tries' = [tries EXCEPT ![c] = @ + 1]
  /\ wire' = Add(wire, Current(c))
  /\ UNCHANGED <<tool, server, back, pc, stats>>

\* The last timeout, umad_recv failed, or umad_send did.
GivesUp(c) ==
  /\ pc[c] = "call"
  /\ lost' = [lost EXCEPT ![c] = @ + 1]
  /\ Ends(c)
  /\ UNCHANGED <<tool, server, wire, back, count, tries, ntrans, replied, printed>>

\* report: at the end of the count, or at any moment by SIGINT or SIGTERM.
Report(c) ==
  /\ tool = "ibping"
  /\ pc[c] # "out"
  /\ pc' = [pc EXCEPT ![c] = "out"]
  /\ printed' = [printed EXCEPT
       ![c] = [ntrans |-> ntrans[c], replied |-> replied[c], lost |-> lost[c]]]
  /\ UNCHANGED <<tool, server, wire, back, count, tries, ntrans, replied, lost>>

ClientStep(c) ==
  Ask(c) \/ Answered(c) \/ TriesAgain(c) \/ GivesUp(c) \/ Report(c)

Done ==
  /\ \A c \in Clients : pc[c] = "out"
  /\ UNCHANGED vars

Next ==
  \/ RegisterServer \/ ServerOut \/ Serve
  \/ \E m \in Msgs : HandBack(m) \/ Arrive(m) \/ LoseRequest(m) \/ LoseAnswer(m)
  \/ \E c \in Clients : ClientStep(c)
  \/ Done

Spec == Init /\ [][Next]_vars

\* The server runs, and the kernel's timeouts pass.
FairSpec ==
  /\ Spec
  /\ WF_vars(Serve)
  /\ WF_vars(\E m \in Msgs : HandBack(m))

------------------------------------------------------------------------------
\* The server sends no more answers to a transaction than requests of it were
\* delivered, whatever the kernel hands back to it: a server that answered its
\* own sends would answer for ever (the test of umad_status in ibping_serv and
\* ibsystat_serv), and over any number of restarts.
AnswersAreAsked == \A m \in Msgs : answered[m] <= delivered[m]

\* What ibping counts as received was answered by the server, each packet by an
\* answer to that very packet: retries and late answers, which share queues
\* with later packets, make no packet count twice.
RepliedWasServed ==
  \A c \in Clients :
    replied[c] <= Cardinality({t \in Trids : answered[<<c, t>>] > 0})

\* The server falls silent: its own sends are handed back and dropped, and
\* every request it received is dealt with.
ServerFallsSilent ==
  <>[](queued = Empty /\ own = Empty /\ returned = Empty)
=============================================================================
