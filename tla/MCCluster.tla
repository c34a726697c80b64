------------------------------ MODULE MCCluster ------------------------------
(***************************************************************************)
(* Cluster on small instances.  Worker ids are interchangeable: nothing in *)
(* the loggers compares two of them, so permutations of Workers are a      *)
(* symmetry of every safety run.                                           *)
(***************************************************************************)
EXTENDS Cluster, TLC

Symmetry == Permutations(Workers)
=============================================================================
