---- MODULE MCApprovalFlow ----
(***************************************************************************)
(* Instances of ApprovalFlow for TLC, without symmetry: they have liveness *)
(* properties.                                                             *)
(***************************************************************************)
EXTENDS ApprovalFlow
====
