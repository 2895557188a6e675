---- MODULE MCRefreshSessions ----
(***************************************************************************)
(* Instances of RefreshSessions for TLC.  Requests and tokens are numbered *)
(* in the order they come, which leaves no symmetry to declare.            *)
(***************************************************************************)
EXTENDS RefreshSessions
====
