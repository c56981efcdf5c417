------------------------------ MODULE MCMadRpc ------------------------------
(***************************************************************************)
(* Port 1 redirects to port 2, which serves calls; port 3 redirects by     *)
(* GID.  A port may be set to -1 or 1 retry, or left at 0 for the default. *)
(***************************************************************************)
EXTENDS MadRpc

Redirections == <<2, 2, 0>>
PortRetries == {-1, 0, 1}

\* No redirection comes back.
ASSUME MCRedirectAssumption == \E rank \in [Dests -> 0..1] : GoesDown(rank)
=============================================================================
