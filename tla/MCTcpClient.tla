---------------------------- MODULE MCTcpClient ----------------------------
(***************************************************************************)
(* One client whose user logs in as one of two users, lists flats and      *)
(* quits, without waiting for answers if he likes.  One of the roles still *)
(* holds a line end when it has been read.                                 *)
(***************************************************************************)
EXTENDS TcpClient

const_Roles == {<<"moderator">>, <<"user", LF, LF>>}

\* Bound: who has such a role is the only one in the table.
OddAlone == Plain \/ \A l, m \in Logins : users[l] # NoRow /\ users[m] # NoRow => l = m

MCInit == ClientInit /\ OddAlone
MCNext == ClientNext /\ OddAlone'
MCSpec == MCInit /\ [][MCNext]_allVars /\ ClientFairness
============================================================================
