---------------------------- MODULE ToolSession ----------------------------
(***************************************************************************)
(* One run of a tool that talks to one port: how the port it names becomes *)
(* an ib_portid_t (src/ibdiag_common.c, libibmad/src/resolve.c), and what  *)
(* the calls of the management classes (libibmad/src/smp.c, gs.c, sa.c,    *)
(* vendor.c, bm.c, cc.c) make of it.                                       *)
(*                                                                         *)
(* All calls of a run share the portid.  Each class function overwrites    *)
(* some of its fields before it sends, and mad_rpc overwrites its address  *)
(* when the answer is a redirection, so what a call is sent to depends on  *)
(* the calls before it.  Meanwhile another subnet manager may take over.   *)
(*                                                                         *)
(* Which calls a tool makes, in which order, is left open: any calls of    *)
(* its classes.  The exchange of a call's MADs is modelled in MadRpc; here *)
(* a call is answered, redirected or fails.  LIDs do not change, no two    *)
(* ports share one, and the local port has one.                            *)
(***************************************************************************)
EXTENDS Integers, Sequences

CONSTANTS
  Ports, NoPort,
  Local,            \* the port the tool sends from
  LidOf,            \* the LID of each port
  Routes,           \* directed routes that can be given, as port numbers
  Leads,            \* where a route leads from a port
  MaxHops,          \* IB_SUBNET_PATH_HOPS_MAX
  PathSl,           \* the SL of the path from Local to each port
  Agent,            \* where the agents of each port redirect to
  Managers,         \* ports that run a subnet manager
  Tools,            \* the tools that are run
  MaxRuns           \* bound of the model: runs of tools in one behaviour

Permissive == 65535         \* 0xffff
DefaultKey == 1             \* IB_DEFAULT_QP1_QKEY

\* A port's own agents answer at QP 1; other agents redirect to the QP of an
\* agent that serves in their place, or by GID.
Here(p) == [to |-> p, qp |-> 1, qkey |-> DefaultKey, sl |-> 0]
ByGid == [to |-> NoPort, qp |-> 0, qkey |-> 0, sl |-> 0]
Redirections == [to : Ports, qp : Nat \ {0, 1}, qkey : Nat \ {0, 1}, sl : Nat]

KnownTools == {"smpquery", "perfquery", "ibqueryerrors", "vendstat", "saquery",
               "ibccquery", "ibccconfig", "client"}

ASSUME SessionAssumption ==
  /\ NoPort \notin Ports
  /\ Local \in Ports /\ Managers \subseteq Ports
  /\ LidOf \in [Ports -> 1..(Permissive - 1)]
  /\ \A p, q \in Ports : LidOf[p] = LidOf[q] => p = q
  /\ \A r \in Routes : r \in Seq(Nat)
  /\ Leads \in [Ports \X Routes -> Ports \cup {NoPort}]
  /\ PathSl \in [Ports -> Nat]
  /\ \A p \in Ports : Agent[p] \in {Here(p), ByGid} \cup Redirections
  /\ Tools \subseteq KnownTools
  /\ MaxHops \in Nat /\ MaxRuns \in Nat

PortAt(lid) == IF \E p \in Ports : LidOf[p] = lid
               THEN CHOOSE p \in Ports : LidOf[p] = lid ELSE NoPort

VARIABLES
  runs,             \* tools started
  tool,
  named,            \* the port the user names, and how
  phase,            \* "resolve", "path", "ready" or "ended"
  portid,
  smId,             \* the SM the user gave with -s, or NoSm
  asking,           \* the class of the call that is under way
  answer,           \* the last call that was answered: its class and port
  told,             \* history: the last redirection of the run
  smpSince,         \* history: an SMP was sent, and not only before the run was
                    \* redirected
  master,           \* the port of the master SM
  smLid             \* the SM LID in the PortInfo of the local port

run == <<tool, named, phase, portid, smId, asking, answer, told, smpSince>>
subnet == <<master, smLid>>
session == <<runs, run, subnet>>

\* An ib_portid_t that was set to zero.
Zeroed == [lid |-> 0, qp |-> 0, qkey |-> 0, sl |-> 0, drslid |-> 0, drdlid |-> 0, path |-> <<>>]

NoSm == Zeroed
NotTold == Here(Local)
NoAnswer == [class |-> "none", port |-> NoPort]

------------------------------------------------------------------------------
\* The classes of the calls a tool makes.  "client" is a program that uses
\* libibmad itself, without the functions of ibdiag_common.c.
ClassesOf(t) ==
  CASE t = "smpquery" -> {"smp"}                \* also ibportstate, ibaddr, sminfo
    [] t = "perfquery" -> {"pma", "smp"}
    [] t = "ibqueryerrors" -> {"pma"}
    [] t = "vendstat" -> {"vendor"}             \* also ibping, ibsysstat
    [] t = "saquery" -> {"sa"}
    [] t \in {"ibccquery", "ibccconfig"} -> {"cc", "smp"}
    [] t = "client" -> {"smp", "bm"}

\* The ways a tool's destination can be named: the options it does not exclude.
HowsOf(t) ==
  CASE t = "smpquery" -> {"lid", "guid", "drpath", "drslid", "sm"}
    [] t = "perfquery" -> {"lid", "guid", "self"}
    [] t = "ibqueryerrors" -> {"fabric"}
    [] t \in {"vendstat", "ibccquery", "ibccconfig"} -> {"lid", "guid"}
    [] t = "saquery" -> {"sm"}
    [] t = "client" -> {"lid", "guid", "gid", "self"}

\* Only ibqueryerrors goes on when a call fails; the others exit.
GoesOn(t) == t = "ibqueryerrors"

\* A port, and for a directed route the port it starts at.
Destinations(t) ==
  {n \in [how : HowsOf(t), target : Ports, from : Ports, route : Routes] :
     IF n.how \in {"drpath", "drslid"}
     THEN /\ Leads[n.from, n.route] = n.target
          /\ n.how = "drpath" => n.from = Local
     ELSE /\ n.from = Local /\ n.route = <<>>
          /\ n.how \in {"self", "sm"} => n.target = Local}

------------------------------------------------------------------------------
\* str2drpath, with the drslid and drdlid it is given.
Routed(p, route, drslid, drdlid) ==
  [p EXCEPT !.path = route,
            !.drslid = IF drslid # 0 THEN drslid ELSE Permissive,
            !.drdlid = IF drdlid # 0 THEN drdlid ELSE Permissive]

\* Mutant of ByDrSlid: the route is taken from the local port.
ByDrSlidLost(n) == Routed([Zeroed EXCEPT !.lid = LidOf[n.from]], n.route, 0, 0)

\* IB_DEST_DRSLID: a route from the port with a LID; the DrSLID is the local LID.
ByDrSlid(n) ==
  Routed([Zeroed EXCEPT !.lid = LidOf[n.from]], n.route, LidOf[Local], 0)

\* ib_portid_set, on a portid that was set to zero.
ByLid(lid) == [Zeroed EXCEPT !.lid = lid]

\* resolve_self and resolve_sm_portid: as the local port knows itself.
SmSl == PathSl[PortAt(smLid)]

\* The destinations that need no SA.
Direct(n) ==
  CASE n.how = "lid" -> ByLid(LidOf[n.target])
    [] n.how = "drpath" -> Routed(Zeroed, n.route, 0, 0)
    [] n.how = "drslid" -> ByDrSlid(n)
    [] n.how = "self" -> [ByLid(LidOf[Local]) EXCEPT !.sl = SmSl]
    [] n.how = "sm" -> [ByLid(smLid) EXCEPT !.sl = SmSl]
    [] n.how = "fabric" -> ByLid(LidOf[n.target])

Resolve ==
  /\ phase = "resolve"
  /\ named.how \notin {"guid", "gid"}
  /\ portid' = Direct(named)
  /\ named' = IF named.how = "sm" THEN [named EXCEPT !.target = PortAt(smLid)] ELSE named
  /\ phase' = "ready"
  /\ UNCHANGED <<runs, tool, smId, asking, answer, told, smpSince, subnet>>

\* The SM to ask: the one given, or the one of the local port.
ResolveSm ==
  /\ phase = "resolve"
  /\ named.how \in {"guid", "gid"}
  /\ smId' = IF smId # NoSm THEN smId ELSE [ByLid(smLid) EXCEPT !.sl = SmSl]
  /\ phase' = "path"
  /\ UNCHANGED <<runs, tool, named, portid, asking, answer, told, smpSince, subnet>>

\* ib_path_query_via, answered by the master; by GUID the SL of the path is
\* kept, by GID only its LID.
ResolvePath ==
  /\ phase = "path"
  /\ PortAt(smId.lid) = master
  /\ portid' = [Zeroed EXCEPT !.lid = LidOf[named.target],
                              !.sl = IF named.how = "guid" THEN PathSl[named.target] ELSE 0]
  /\ phase' = "ready"
  /\ UNCHANGED <<runs, tool, named, smId, asking, answer, told, smpSince, subnet>>

ResolveFails ==
  /\ phase \in {"resolve", "path"}
  /\ phase' = "ended"
  /\ portid' = [portid EXCEPT !.lid = IF phase = "path" THEN -1 ELSE @]
  /\ UNCHANGED <<runs, tool, named, smId, asking, answer, told, smpSince, subnet>>


------------------------------------------------------------------------------
\* Mutant of SmpIsDirect: a route that starts at a LID is not recognised.
SmpByLid(p) == p.lid <= 0

\* smp_query_status_via, smp_set_status_via: IB_SMI_DIRECT_CLASS or IB_SMI_CLASS.
SmpIsDirect(p) == p.lid <= 0 \/ Permissive \in {p.drslid, p.drdlid}

\* What the function of a class makes of the portid before it sends.
SmpCall(p) == [p EXCEPT !.sl = 0, !.qp = 0]

\* The QP and the key of the general services, unless the portid has others.
WithKey(p) == [p EXCEPT !.qkey = IF @ = 0 THEN DefaultKey ELSE @]

\* Mutant of PmaCall: to QP 1, like the other classes.
PmaCallAtOne(p) == WithKey([p EXCEPT !.qp = 1])

PmaCall(p) == WithKey([p EXCEPT !.qp = IF @ # 0 THEN @ ELSE 1])

SaCall(p) == WithKey([p EXCEPT !.qp = 1])
VendorCall(p) == WithKey([p EXCEPT !.qp = 1])
BmCall(p) == WithKey([p EXCEPT !.qp = 1])
CcCall(p) == WithKey([p EXCEPT !.qp = 1])

Prepared(c, p) ==
  CASE c = "smp" -> SmpCall(p)
    [] c = "pma" -> PmaCall(p)
    [] c = "sa" -> SaCall(p)
    [] c = "vendor" -> VendorCall(p)
    [] c = "bm" -> BmCall(p)
    [] c = "cc" -> CcCall(p)

\* Calls that fail before anything is sent: those of the classes that go by LID
\* only, and SMPs by a route that mad_encode finds too long.
LidRefused(c, p) ==
  \/ c \in {"sa", "vendor", "bm"} /\ p.lid <= 0
  \/ c = "pma" /\ p.lid = -1

RouteTooLong(c, p) == c = "smp" /\ SmpIsDirect(p) /\ Len(p.path) >= MaxHops

Refused(c, p) == LidRefused(c, p) \/ RouteTooLong(c, p)

\* mad_build_pkt: the LID a MAD is sent to, the permissive one for a route that
\* starts at the local port.
SentTo(c, p) ==
  IF c = "smp" /\ SmpIsDirect(p) /\ ~(p.drslid # Permissive /\ p.lid > 0)
  THEN Permissive ELSE p.lid

\* The port a MAD reaches.
Reached(c, p) ==
  LET entry == IF SentTo(c, p) = Permissive THEN Local ELSE PortAt(p.lid)
  IN  IF entry # NoPort /\ c = "smp" /\ SmpIsDirect(p) THEN Leads[entry, p.path] ELSE entry

\* The ports whose agents serve a call: the one reached, or one that redirects
\* to the QP that was reached.
Servers(c, p) ==
  LET port == Reached(c, p)
      Serves(q) == Agent[q] = [Here(port) EXCEPT !.qp = p.qp, !.qkey = p.qkey, !.sl = Agent[q].sl]
  IN  IF port = NoPort THEN {}
      ELSE IF c = "smp" THEN {port}
      ELSE IF c = "sa" THEN {port} \cap {master}
      ELSE {q \in Ports : Serves(q)}

\* A port whose agent answers with a redirection.
Redirector(c, p) ==
  LET port == Reached(c, p)
  IN  IF /\ c \notin {"smp", "sa"} /\ port # NoPort /\ p.qp = 1
         /\ Agent[port] # Here(port)
      THEN port ELSE NoPort

------------------------------------------------------------------------------
\* The functions of ibqueryerrors start by taking the SL of lid2sl_table.
WithSl(p) ==
  {p} \cup (IF tool = "ibqueryerrors"
            THEN {[p EXCEPT !.sl = IF PortAt(p.lid) = NoPort THEN 0 ELSE PathSl[PortAt(p.lid)]]}
            ELSE {})

Ask(c) ==
  /\ phase = "ready" /\ asking = "none"
  /\ c \in ClassesOf(tool)
  /\ ~Refused(c, portid)
  /\ \E p \in WithSl(portid) : portid' = Prepared(c, p)
  /\ asking' = c
  /\ answer' = NoAnswer
  /\ smpSince' = (smpSince \/ c = "smp")
  /\ UNCHANGED <<runs, tool, named, phase, smId, told, subnet>>

\* A call fails; most tools exit.
CallFails ==
  /\ asking' = "none"
  /\ phase' = IF GoesOn(tool) THEN "ready" ELSE "ended"
  /\ UNCHANGED <<runs, tool, named, smId, answer, smpSince, subnet>>

AskRefused(c) ==
  /\ phase = "ready" /\ asking = "none"
  /\ c \in ClassesOf(tool)
  /\ Refused(c, portid)
  /\ CallFails
  /\ UNCHANGED <<portid, told>>

Answered ==
  /\ asking # "none"
  /\ \E q \in Servers(asking, portid) : answer' = [class |-> asking, port |-> q]
  /\ asking' = "none"
  /\ UNCHANGED <<runs, tool, named, phase, portid, smId, told, smpSince, subnet>>

\* The run was redirected to another port than the one that was named.
Strayed == told # NotTold /\ told.to # named.target

\* redirect_port: the call is sent again, to where it was redirected.
Redirected ==
  /\ asking \in {"pma", "cc", "bm"}
  /\ LET to == Agent[Redirector(asking, portid)]
     IN  /\ Redirector(asking, portid) # NoPort
         /\ to # ByGid
         /\ portid' = [portid EXCEPT !.lid = LidOf[to.to], !.qp = to.qp,
                                     !.qkey = to.qkey, !.sl = to.sl]
         /\ told' = to
  /\ smpSince' = (smpSince /\ Strayed)
  /\ UNCHANGED <<runs, tool, named, phase, smId, asking, answer, subnet>>

\* A redirection by GID is refused when the LID has been overwritten.
RedirectRefused ==
  /\ asking \in {"pma", "cc", "bm"}
  /\ Redirector(asking, portid) # NoPort
  /\ Agent[Redirector(asking, portid)] = ByGid
  /\ portid' = [portid EXCEPT !.lid = 0]
  /\ told' = ByGid
  /\ CallFails

\* No answer, or one with an error status: mad_rpc_rmpp, used by vendor.c and
\* sa.c, takes a redirection for one.
NotAnswered ==
  /\ asking # "none"
  /\ CallFails
  /\ UNCHANGED <<portid, told>>

\* ibqueryerrors goes on to the next port; ib_portid_set.
NextPort ==
  /\ tool = "ibqueryerrors" /\ phase = "ready" /\ asking = "none"
  /\ \E p \in Ports :
       /\ named' = [named EXCEPT !.target = p]
       /\ portid' = [portid EXCEPT !.lid = LidOf[p], !.qp = 0, !.qkey = 0]
  /\ told' = NotTold
  /\ answer' = NoAnswer
  /\ UNCHANGED <<runs, tool, phase, smId, asking, smpSince, subnet>>

Finish ==
  /\ phase = "ready" /\ asking = "none"
  /\ phase' = "ended"
  /\ UNCHANGED <<runs, tool, named, portid, smId, asking, answer, told, smpSince, subnet>>

------------------------------------------------------------------------------
\* A tool is started; the user may give the LID of the master with -s.
Started(t, n, given) ==
  /\ tool' = t
  /\ named' = n
  /\ smId' = IF given THEN ByLid(LidOf[master]) ELSE NoSm
  /\ phase' = "resolve"
  /\ portid' = Zeroed
  /\ asking' = "none"
  /\ answer' = NoAnswer
  /\ told' = NotTold
  /\ smpSince' = FALSE

Start(t, n, given) ==
  /\ phase = "ended"
  /\ runs < MaxRuns
  /\ n.how \notin {"guid", "gid"} => ~given
  /\ Started(t, n, given)
  /\ runs' = runs + 1
  /\ UNCHANGED subnet

\* Another SM becomes master, and some time later tells the local port.
HandOver ==
  /\ master' \in Managers \ {master}
  /\ smLid = LidOf[master]
  /\ UNCHANGED <<runs, run, smLid>>

TellSmLid ==
  /\ smLid # LidOf[master]
  /\ smLid' = LidOf[master]
  /\ UNCHANGED <<runs, run, master>>

Init ==
  /\ runs = 0
  /\ tool \in Tools
  /\ named = [how |-> "self", target |-> Local, from |-> Local, route |-> <<>>]
  /\ phase = "ended"
  /\ portid = Zeroed
  /\ smId = NoSm
  /\ asking = "none"
  /\ answer = NoAnswer
  /\ told = NotTold
  /\ smpSince = FALSE
  /\ master \in Managers
  /\ smLid = LidOf[master]

\* The steps of a run, but for those of a call.
Setup == Resolve \/ ResolveSm \/ ResolvePath \/ ResolveFails

Environment == HandOver \/ TellSmLid

------------------------------------------------------------------------------
\* What AnswersAreNamed asks of the agents: one that serves in the place of a
\* port serves for no other, ...
AgentsApart ==
  \A p, q \in Ports :
    /\ {Agent[p], Agent[q]} \subseteq Redirections
    /\ Agent[p].to = Agent[q].to /\ Agent[p].qp = Agent[q].qp /\ Agent[p].qkey = Agent[q].qkey
    => p = q

\* ... and redirections from port to port never come back: they go down.
GoesDown(rank) ==
  \A p \in Ports : Agent[p].to \in Ports \ {p} => rank[Agent[p].to] < rank[p]

\* Who answers a call.  Until the run is redirected to another port than the one the
\* user named, it is that port: for a route that starts at a LID (resolve.c:164), and
\* for an address an SM gave that is no longer the master.  A counter query that no
\* SMP precedes is answered in its place in any case, by the agent it redirected to.
\* Every other call of such a run is answered elsewhere: an SMP by the port the
\* redirection named, since redirect_port overwrote the LID (rpc.c:197); and a call
\* of another class by that port or, as the call that was redirected, by the agent
\* that serves for the port that redirected it, because an SMP reset the QP
\* (smp.c:73) or the class always sends to QP 1 (cc.c, bm.c).
AnswersAreNamed ==
  answer.class # "none" =>
    IF ~Strayed \/ (answer.class = "pma" /\ ~smpSince) THEN answer.port = named.target
    ELSE IF answer.class = "smp" THEN answer.port = told.to
    ELSE answer.port = told.to \/ told = Agent[answer.port]

\* As long as a tool sends no SMP, its counters are asked for along the path it
\* resolved or, once redirected, exactly as the redirection said (rpc.c:195), in
\* every call and not only in the one that was redirected.
RouteIsKept ==
  asking = "pma" /\ ~smpSince /\ told # ByGid =>
    LET sl == IF named.how = "guid" THEN PathSl[named.target] ELSE 0
        Goes(lid, qp, qkey) == portid.lid = lid /\ portid.qp = qp /\ portid.qkey = qkey
    IN  IF told # NotTold
        THEN /\ Goes(LidOf[told.to], told.qp, told.qkey)
             /\ tool # "ibqueryerrors" => portid.sl = told.sl
        ELSE /\ Goes(LidOf[named.target], 1, DefaultKey)
             /\ named.how \notin {"fabric", "self"} => portid.sl = sl
=============================================================================
