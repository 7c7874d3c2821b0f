----------------------------- MODULE MCDerived ------------------------------
(***************************************************************************)
(* Instances of Derived for TLC.                                           *)
(***************************************************************************)
EXTENDS Derived, TLC

CONSTANTS j1, j2, r

Entry(n, d, p, s) == [name |-> n, declared |-> d, packed |-> p, real |-> s]
\* An honest archive; one that declares less than it holds; one whose sum of declared sizes comes round to little;
\* one that names an entry twice; one that packs too tightly.
MCArchives == <<
  <<Entry(1, 2, 2, 2), Entry(2, 1, 1, 1)>>,
  <<Entry(1, 1, 2, 4), Entry(2, 1, 2, 4)>>,
  <<Entry(1, 5, 3, 5), Entry(2, 15, 3, 5)>>,
  <<Entry(1, 1, 1, 1), Entry(1, 1, 1, 1)>>,
  <<Entry(1, 1, 1, 4)>> >>
Symmetry == Permutations({j1, j2})
=============================================================================
