------------------------------ MODULE MCSignIn ------------------------------
(***************************************************************************)
(* Instances of SignIn for TLC.                                            *)
(***************************************************************************)
EXTENDS SignIn, TLC

CONSTANTS r1, r2

Symmetry == Permutations({r1, r2})
=============================================================================
