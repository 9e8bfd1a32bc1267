------------------------------ MODULE MCRetention ------------------------------
(* Instances of Retention for TLC. *)
EXTENDS RetentionLoop, TLC

RootSymmetry == Permutations(Roots)
================================================================================
