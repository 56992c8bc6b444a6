-------------------------- MODULE MCPaperRuntimeBook --------------------------
(* A small instance of the runtime and of the book it implements.          *)
EXTENDS PaperRuntimeBook

(* One losing and one winning exit; the loss exceeds what one settlement   *)
(* leaves of the initial equity, so a second loss is refused.              *)
MCPnLs == {-2, 1}
=============================================================================
