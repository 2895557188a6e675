-------------------------------- MODULE MCApps --------------------------------
(***************************************************************************)
(* Instances of Apps for TLC: every kind of block; the callers are alike.  *)
(***************************************************************************)
EXTENDS Apps

CallerSymmetry == Permutations(Requests)
===============================================================================
