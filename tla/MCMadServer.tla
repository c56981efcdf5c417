---------------------------- MODULE MCMadServer ----------------------------
(***************************************************************************)
(* A client of one server.                                                 *)
(***************************************************************************)
EXTENDS MadServer, TLC

CONSTANT c1

McClients == {c1}
McTools == {"ibping", "ibsysstat"}
=============================================================================
