-------------------------- MODULE MCFlatRepository --------------------------
(***************************************************************************)
(* Up to three server processes on one database with one flat.             *)
(***************************************************************************)
EXTENDS FlatRepository
============================================================================
