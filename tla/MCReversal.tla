----------------------------- MODULE MCReversal -----------------------------
(* Instances of Reversal for TLC. *)
EXTENDS Reversal, TLC

MCSubjects == Orders \X Statuses

\* Requests, settlers and reversals are interchangeable (safety runs only).
Symmetry == Permutations(Threads) \union Permutations(Settlers) \union Permutations(Reversals)
=============================================================================
