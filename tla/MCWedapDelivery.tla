---- MODULE MCWedapDelivery ----
(* Instances of WedapDelivery for TLC. *)
EXTENDS WedapDelivery, TLC

\* The kinds of result file.  SUCCESS lists no line; EXPIRED is a batch that
\* wedap's watchdog failed, without lines; REJECTED one that failed with lines, of
\* which recon can record some; in DRIFTED nothing follows the contract.
MCImportStatus ==
  [f \in Files |-> CASE f = "SUCCESS"               -> "SUCCESS"
                     [] f \in {"EXPIRED", "REJECTED"} -> "FAILED"
                     [] OTHER                        -> "UNKNOWN"]
MCBadLines ==
  [f \in Files |-> CASE f = "REJECTED" -> {"recordable", "illegible"}
                     [] f = "DRIFTED"  -> {"illegible"}
                     [] OTHER          -> {}]

\* Workers are interchangeable (safety runs only).
Symmetry == Permutations(Workers)
====
