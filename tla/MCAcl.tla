------------------------------- MODULE MCAcl -------------------------------
(***************************************************************************)
(* Instances of Acl for TLC: a folder in a folder.                         *)
(***************************************************************************)
EXTENDS Acl, TLC

CONSTANTS k, m1, m2, x, y

MCPath == {<<>>, <<x>>, <<x, y>>}
\* Opening a file, listing its folder and the root, and seeing the folder in the root.
MCQuestions == {[what |-> "permitted", want |-> "read", path |-> <<x, y>>]}
               \cup [what : {"list", "show"}, want : {"read"}, path : {<<x>>}]
               \cup [what : {"list"}, want : {"read"}, path : {<<>>}]
Symmetry == Permutations({m1, m2})
=============================================================================
