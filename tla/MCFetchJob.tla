----------------------------- MODULE MCFetchJob -----------------------------
(***************************************************************************)
(* Instances of FetchJob for TLC.                                          *)
(***************************************************************************)
EXTENDS FetchJob

CONSTANT c1
=============================================================================
