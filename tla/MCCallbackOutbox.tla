---- MODULE MCCallbackOutbox ----
(* Instances of CallbackOutbox for TLC. *)
EXTENDS CallbackOutbox, TLC

\* Rows and dispatchers are interchangeable (safety runs only).
Symmetry == Permutations(Rows) \union Permutations(Dispatchers)
====
