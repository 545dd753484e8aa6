---------------------------- MODULE MCTcpSession ----------------------------
(***************************************************************************)
(* Connections of one server, and two logins to switch between; a role     *)
(* that is empty, one that is read as "moderator", and one that is not     *)
(* because two line ends are behind it.                                    *)
(***************************************************************************)
EXTENDS TcpSession

const_Roles == {<<>>, <<"moderator", CR, LF>>, <<"moderator", LF, LF>>}
=============================================================================
