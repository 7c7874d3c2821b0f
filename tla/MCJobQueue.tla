----------------------------- MODULE MCJobQueue -----------------------------
(***************************************************************************)
(* Instances of JobQueue for TLC. Requests are interchangeable; jobs are   *)
(* not, since the queue is ordered.                                        *)
(***************************************************************************)
EXTENDS JobQueue, TLC

CONSTANTS c1, c2

RequestSym == Permutations({c1, c2})
=============================================================================
