---------------------------- MODULE MCHttpServer ----------------------------
(***************************************************************************)
(* A server with descriptors for two connections.  Responses have three    *)
(* pieces, and the kernel holds two of them.                               *)
(***************************************************************************)
EXTENDS HttpServer
============================================================================
