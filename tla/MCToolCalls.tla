------------------------------ MODULE MCToolCalls ------------------------------
(***************************************************************************)
(* Instance of ToolCalls for TLC: a native tool that always needs approval *)
(* and a forwarded one that write mode lets through.                       *)
(***************************************************************************)
EXTENDS ToolCalls

MCTools == {[forwarded |-> FALSE, sensitivity |-> "danger"],
            [forwarded |-> TRUE, sensitivity |-> "write"]}
================================================================================
