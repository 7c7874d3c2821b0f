--------------------------- MODULE MCUploadClient ---------------------------
(***************************************************************************)
(* Instances of UploadClient for TLC.                                      *)
(***************************************************************************)
EXTENDS UploadClient

CONSTANTS s1, s2, r1, r2
=============================================================================
