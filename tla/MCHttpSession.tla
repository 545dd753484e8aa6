--------------------------- MODULE MCHttpSession ---------------------------
(***************************************************************************)
(* Responses of two pieces and a kernel that holds three of them.          *)
(***************************************************************************)
EXTENDS HttpSession
============================================================================
