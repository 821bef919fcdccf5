--------------------------- MODULE MCThreadSafeList ----------------------------
(* Instances of ThreadSafeList for TLC. *)
EXTENDS ThreadSafeList, TLC

NodeSymmetry == Permutations(Nodes)
================================================================================
