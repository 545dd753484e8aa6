---------------------------- MODULE UserRegistry ----------------------------
(***************************************************************************)
(* What the users table promises to those who log in, with no processes,   *)
(* transactions or failures in sight: a login is registered once, with a   *)
(* password and a role that it keeps, and a lookup finds these or nothing. *)
(* UserRepository implements this specification.                           *)
(***************************************************************************)
CONSTANTS Logins, Accounts, None

VARIABLES
  accounts,         \* accounts[l]: what login l is registered with, or None
  found             \* <<l, a>> that lookups have found

vars == <<accounts, found>>

Init == /\ accounts = [l \in Logins |-> None]
        /\ found = {}

\* The first registration of a login is the only one.
Register(l, a) == /\ accounts[l] = None
                  /\ accounts' = [accounts EXCEPT ![l] = a]
                  /\ UNCHANGED found

LookUp(l) == /\ accounts[l] # None
             /\ found' = found \cup {<<l, accounts[l]>>}
             /\ UNCHANGED accounts

Next == \E l \in Logins : LookUp(l) \/ \E a \in Accounts : Register(l, a)

Spec == Init /\ [][Next]_vars

============================================================================
