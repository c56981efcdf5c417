---------------------------- MODULE MCCongestion ----------------------------
(***************************************************************************)
(* The host h, a switch s whose agents redirect to another QP at s, and a  *)
(* CA c whose agents redirect to an agent at s, behind s; SMs at h and c.  *)
(* The CA b at the switch redirects by GID, and the CA d to c, whose agent *)
(* redirects on.                                                           *)
(***************************************************************************)
EXTENDS Congestion

MCPorts == {"h", "s", "c", "b", "d"}

MCLidOf == [h |-> 1, s |-> 2, c |-> 3, b |-> 4, d |-> 5]

MCRoutes == {<<>>, <<1>>, <<2>>, <<1, 2>>, <<1, 1>>, <<1, 2, 1, 2>>}

\* Port 1 of the host and of the CAs is at the switch, whose ports 1 to 4
\* are at h, c, b and d.
MCLeads ==
  [e \in MCPorts \X MCRoutes |->
     CASE e[2] = <<>> -> e[1]
       [] e[2] = <<1>> -> IF e[1] = "s" THEN "h" ELSE "s"
       [] e[2] = <<2>> -> IF e[1] = "s" THEN "c" ELSE "none"
       [] e[2] = <<1, 2>> -> IF e[1] = "s" THEN "none" ELSE "c"
       [] e[2] = <<1, 1>> -> IF e[1] = "s" THEN "s" ELSE "h"
       [] e[2] = <<1, 2, 1, 2>> -> IF e[1] = "s" THEN "none" ELSE "c"]

MCPathSl == [h |-> 0, s |-> 1, c |-> 2, b |-> 3, d |-> 4]

MCAgent == [h |-> Here("h"),
            s |-> [to |-> "s", qp |-> 2, qkey |-> 2, sl |-> 4],
            c |-> [to |-> "s", qp |-> 3, qkey |-> 3, sl |-> 5],
            b |-> ByGid,
            d |-> [to |-> "c", qp |-> 4, qkey |-> 4, sl |-> 6]]

MCManagers == {"h", "c"}

MCTools == {"smpquery", "perfquery", "ibqueryerrors", "vendstat", "saquery",
            "ibccquery", "ibccconfig", "client"}

MCAttrs == {"CACongestionSetting", "CongestionLog"}

\* No redirection comes back.
ASSUME MCAgentsAssumption ==
  AgentsApart /\ \E rank \in [Ports -> 0..2] : GoesDown(rank)

\* Only the tools of the settings.
MCCcTools == {"ibccquery", "ibccconfig"}
=============================================================================
