------------------------------ MODULE MCPasskeys ------------------------------
(***************************************************************************)
(* Instance of Passkeys for TLC.  Passkeys, assertions and requests are    *)
(* numbered in the order they come, which leaves no symmetry to declare.   *)
(***************************************************************************)
EXTENDS Passkeys
================================================================================
