---- MODULE MCReconFiles ----
(* Instances of ReconFiles for TLC. *)
EXTENDS ReconFiles, TLC

CONSTANTS a, b  \* tenants

\* Two versions of one tenant, and one of another with the same number.
MCTasks == {<<a, 1>>, <<a, 2>>, <<b, 1>>}
====
