----------------------------- MODULE MCSmpEngine -----------------------------
(* A small instance of SmpEngine: a plain and an error-callback request.    *)
EXTENDS SmpEngine
CONSTANTS plain, extinfo
MCReqs == {plain, extinfo}
MCErrReqs == {extinfo}
=============================================================================
