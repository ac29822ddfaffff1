---- MODULE MCOrderLedger ----
(* Instances of OrderLedger for TLC. *)
EXTENDS OrderLedger, TLC

\* The model values of these sets are interchangeable (safety runs only).
Symmetry == Permutations(Biz) \union Permutations(Payloads) \union Permutations(Threads)
              \union Permutations(Handlers) \union Permutations(Callbacks)
====
