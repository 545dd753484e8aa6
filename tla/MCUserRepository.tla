-------------------------- MODULE MCUserRepository --------------------------
(***************************************************************************)
(* Server processes that register and look up the same login.              *)
(***************************************************************************)
EXTENDS UserRepository
============================================================================
