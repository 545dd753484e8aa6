--------------------------- MODULE FlatLifecycle ---------------------------
(***************************************************************************)
(* What the flats table promises to the people who use it, with no        *)
(* connections, transactions or failures in sight:                        *)
(*   - a flat is created, is taken on moderation once, and is then         *)
(*     approved or declined once, for good;                                *)
(*   - of all the moderators who ask for the same change of the same       *)
(*     flat, at most one is ever told that it was he who made it, and       *)
(*     nobody is told so of a change that has not happened.                *)
(* FlatRepository implements this specification.                           *)
(***************************************************************************)
EXTENDS Naturals

CONSTANT Flats      \* the ids a row of the flats table can have

Verdicts  == {"approved", "declined"}
Moderated == {"on_moderation"} \cup Verdicts
Status    == {"absent", "created"} \cup Moderated

VARIABLES
  status,           \* status[f]: the status column of row f, "absent" if no row
  acks              \* acks[f][s]: callers told that they moved f to s

vars == <<status, acks>>

(***************************************************************************)
(* Before(s) is the only status from which a flat may move to s.           *)
(***************************************************************************)
Before(s) == IF s \in Verdicts THEN "on_moderation"
             ELSE IF s = "on_moderation" THEN "created" ELSE "absent"

\* f has reached s, now or earlier.
Passed(f, s) == IF s \in Verdicts THEN status[f] = s ELSE status[f] \in Moderated

----------------------------------------------------------------------------

Init == /\ status = [f \in Flats |-> "absent"]
        /\ acks   = [f \in Flats |-> [s \in Moderated |-> 0]]

Advance(f, s) == /\ status[f] = Before(s)
                 /\ status' = [status EXCEPT ![f] = s]
                 /\ UNCHANGED acks

Acknowledge(f, s) == /\ Passed(f, s)
                     /\ acks[f][s] = 0
                     /\ acks' = [acks EXCEPT ![f][s] = 1]
                     /\ UNCHANGED status

Next == \/ \E f \in Flats, s \in {"created"} \cup Moderated : Advance(f, s)
        \/ \E f \in Flats, s \in Moderated : Acknowledge(f, s)

Spec == Init /\ [][Next]_vars

============================================================================
