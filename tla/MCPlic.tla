------------------------------- MODULE MCPlic -------------------------------
(* Two harts and two sources: both harts after one source, and a claim that  *)
(* has a choice.                                                             *)
EXTENDS Plic
=============================================================================
