----------------------------- MODULE MCAccounts -----------------------------
(***************************************************************************)
(* Instances of Accounts for TLC.                                          *)
(***************************************************************************)
EXTENDS Accounts, TLC

CONSTANTS r1, r2

\* Promote, demote, disable, enable, and demote and disable at once.
MCBodies == {<<"yes", "keep">>, <<"no", "keep">>, <<"keep", "yes">>, <<"keep", "no">>, <<"no", "yes">>}
Symmetry == Permutations({r1, r2})
=============================================================================
