---- MODULE MCSubMcpAuth ----
(* SubMcpAuth with four requests of one user for one server.  Explored to  *)
(* its end is what follows one kind of mishap, not what follows a second   *)
(* kind; and nothing is explored after a start that went wrong, since all  *)
(* it can do to a later request is to have an exchange or a refresh        *)
(* refused, which may happen anyway.                                       *)
EXTENDS SubMcpAuth, FiniteSets

Explored == Cardinality(mishaps) <= 1 /\ "starts" \notin mishaps
=============================================================================
