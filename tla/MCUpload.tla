------------------------------ MODULE MCUpload ------------------------------
(***************************************************************************)
(* Instances of Upload for TLC. Requests are interchangeable, and so are   *)
(* sessions that declare no checksum.                                      *)
(***************************************************************************)
EXTENDS Upload, TLC

CONSTANTS s1, s2, r1, r2

RequestSym == Permutations({r1, r2})
AllSym     == RequestSym \cup Permutations({s1, s2})
=============================================================================
