---------------------------- MODULE MCFrozenDict ----------------------------
(* The instance of FrozenDict that TLC checks. *)
EXTENDS FrozenDict

Symmetry == Permutations(Keys) \cup Permutations(Lists)
                \cup Permutations(Contents) \cup Permutations(FrozenDicts)
                \cup Permutations(Seeds)
=============================================================================
