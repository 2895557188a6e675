---- MODULE MCGatewayRefresh ----
(***************************************************************************)
(* Instances of GatewayRefresh for TLC.  Servers, tools and jobs are       *)
(* interchangeable.                                                        *)
(***************************************************************************)
EXTENDS GatewayRefresh, TLC

NameSymmetry == Permutations(Servers) \cup Permutations(Tools) \cup Permutations(Jobs)
====
