---- MODULE MCRelease ----
(* Instances of Release for TLC. *)
EXTENDS Release, TLC

\* Operators and release ids are interchangeable.
Symmetry == Permutations(Operators) \union Permutations(Releases)
====
