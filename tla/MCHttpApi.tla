----------------------------- MODULE MCHttpApi -----------------------------
(***************************************************************************)
(* The longest login whose token is accepted under either role, and the    *)
(* shortest whose token is accepted under neither; tokens that live for    *)
(* one second of three.                                                    *)
(***************************************************************************)
EXTENDS HttpApi

const_Width == [l \in Logins |-> IF l = "short" THEN 434 ELSE 440]

\* Bound: one login over HTTP on record, and one over TCP.
OneOfEach == \A i, j \in issued : i.over = j.over => i = j

MCNext == Next /\ OneOfEach'
MCSpec == Init /\ [][MCNext]_vars
============================================================================
