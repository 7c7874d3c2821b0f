----------------------------- MODULE MCContent ------------------------------
(***************************************************************************)
(* Instances of Content for TLC.                                           *)
(***************************************************************************)
EXTENDS Content, TLC

CONSTANTS r1, r2, a, b

\* Everything; nothing; one file, by a rule of its own; all but one file, with or without a rule beneath it.
MCRights ==
  {[read |-> {Top, a, b}, lead |-> {}], [read |-> {}, lead |-> {}], [read |-> {a}, lead |-> {Top}],
   [read |-> {Top, a}, lead |-> {}], [read |-> {Top, a}, lead |-> {Top, b}]}
MCSelections == {<<a>>, <<a, b>>, <<Top>>}
Symmetry == Permutations({r1, r2})
=============================================================================
