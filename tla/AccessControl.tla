--------------------------- MODULE AccessControl ---------------------------
(***************************************************************************)
(* What the line service promises about who may do what, with no lines,    *)
(* buffers, sockets or tokens in sight:                                    *)
(*   - a session acts for nobody, until someone who is registered logs in  *)
(*     on it, and then for him until he logs out, another logs in, or the  *)
(*     service goes down;                                                  *)
(*   - what it does for anybody it does for the one it acts for now, and   *)
(*     it moderates only for one who is registered as a moderator;         *)
(*   - a registration is never taken back, nor its role changed.           *)
(* A role is here what the service reads in the users table, so whoever is *)
(* read as a moderator is one.                                             *)
(* TcpSession implements this specification, alone and with its client.    *)
(***************************************************************************)
CONSTANTS
  Sessions, Logins,
  Roles,            \* the roles that may be read
  Moderator,        \* the one that moderates
  Unregistered      \* what is read where there is nothing

VARIABLES
  roles,            \* roles[l]: the role login l is registered with, or Unregistered
  actor,            \* actor[s]: the login that session s acts for, or "none"
  granted           \* what a session has just done for its actor, or Nothing

vars == <<roles, actor, granted>>

Nothing            == [by |-> "none", moderating |-> FALSE]
Grant(s, moderating) == [by |-> s, moderating |-> moderating]

Init == /\ roles \in [Logins -> Roles \cup {Unregistered}]
        /\ actor = [s \in Sessions |-> "none"]
        /\ granted = Nothing

\* Here or elsewhere.
Register(l, r) == /\ roles[l] = Unregistered
                  /\ roles' = [roles EXCEPT ![l] = r]
                  /\ granted' \in {granted, Nothing}
                  /\ UNCHANGED actor

LogIn(s, l) == /\ roles[l] # Unregistered
               /\ actor' = [actor EXCEPT ![s] = l]
               /\ granted' = Nothing
               /\ UNCHANGED roles

LogOut(s) == /\ actor' = [actor EXCEPT ![s] = "none"]
             /\ granted' = Nothing
             /\ UNCHANGED roles

GoDown == /\ actor' = [s \in Sessions |-> "none"]
          /\ granted' = Nothing
          /\ UNCHANGED roles

Act(s, moderating) == /\ actor[s] # "none"
                      /\ moderating => roles[actor[s]] = Moderator
                      /\ granted' = Grant(s, moderating)
                      /\ UNCHANGED <<roles, actor>>

Refuse == granted' = Nothing /\ UNCHANGED <<roles, actor>>

Next == \/ \E l \in Logins, r \in Roles : Register(l, r)
        \/ \E s \in Sessions, l \in Logins : LogIn(s, l)
        \/ \E s \in Sessions : LogOut(s)
        \/ \E s \in Sessions, moderating \in BOOLEAN : Act(s, moderating)
        \/ GoDown \/ Refuse

Spec == Init /\ [][Next]_vars

----------------------------------------------------------------------------

\* Whatever has just been done was done for someone who is registered, logged in on
\* that session and has not logged out, and moderation for a moderator.
Earned ==
  granted.by # "none" =>
    /\ actor[granted.by] # "none"
    /\ roles[actor[granted.by]] # Unregistered
    /\ granted.moderating => roles[actor[granted.by]] = Moderator

\* The inductive invariant.
AccessInv ==
  /\ roles \in [Logins -> Roles \cup {Unregistered}]
  /\ actor \in [Sessions -> Logins \cup {"none"}]
  /\ granted # Nothing => granted.by \in Sessions
  /\ \A s \in Sessions : actor[s] # "none" => roles[actor[s]] # Unregistered
  /\ Earned

=============================================================================
