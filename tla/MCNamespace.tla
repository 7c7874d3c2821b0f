----------------------------- MODULE MCNamespace -----------------------------
(***************************************************************************)
(* Instances of Namespace for TLC. Requests are interchangeable, and so    *)
(* are the names of one level.                                             *)
(***************************************************************************)
EXTENDS Namespace, TLC

CONSTANTS r1, r2, a, b, c

Symmetry == Permutations({r1, r2}) \cup Permutations({a, b})
=============================================================================
