--------------------------- MODULE FlatRepository ---------------------------
(***************************************************************************)
(* PostgresFlatRepository and PostgresHouseRepository, as the server       *)
(* processes that share one PostgreSQL database run them.                  *)
(*                                                                         *)
(* A caller is one server process: it is single-threaded and every         *)
(* repository call blocks it, so it has at most one call in progress.      *)
(* A call opens a connection and a transaction, executes one statement,    *)
(* commits, and returns; any exception on the way is caught, logged and    *)
(* turned into the value that means "nothing done".  Calls of different    *)
(* callers interleave at the statement, at the commit and at the return.   *)
(*                                                                         *)
(* The database is external.  It runs at READ COMMITTED: an UPDATE whose   *)
(* WHERE clause matches a row locked by another transaction waits and      *)
(* looks at the row again; a transaction whose client is gone stays, with  *)
(* its locks, until the server notices, and a COMMIT that was already on   *)
(* its way still takes effect.                                             *)
(***************************************************************************)
EXTENDS Naturals

CONSTANTS
  Callers,          \* server processes
  Flats,            \* row ids the flats sequence may hand out
  Houses            \* row ids the houses sequence may hand out

ASSUME CallersAssumption == {"free", "orphan"} \cap Callers = {}

VARIABLES
  status,           \* status[f]: committed status of row f, "absent" if no row
  home,             \* home[f]: the house_id column of row f
  houses,           \* committed rows of the houses table
  fresh,            \* flat ids the sequence has not handed out
  lock,             \* lock[f]: caller whose transaction wrote f, "free" or "orphan"
  written,          \* written[f]: uncommitted status of a locked row
  pc,               \* pc[w]: where the call of w is
  call,             \* call[w]: the call in progress, with its arguments
  acks,             \* history: acks[f][s], calls that returned true for f and s
  shown             \* history: flats some caller got for the role "user"

vars == <<status, home, houses, fresh, lock, written, pc, call, acks, shown>>
rows == <<status, home, houses, fresh, lock, written>>

Lifecycle == INSTANCE FlatLifecycle WITH Flats <- Flats, status <- status, acks <- acks

Verdicts  == Lifecycle!Verdicts
Moderated == Lifecycle!Moderated
Status    == Lifecycle!Status

Move(f, s)     == [op |-> "move", flat |-> f, to |-> s]
Moves          == [op : {"move"}, flat : Flats, to : Moderated]
Reads          == [op : {"read"}, house : Houses, role : {"user", "moderator", "other"}]
FlatInserts    == [op : {"saveFlat"}, house : Houses]
HouseInserts   == [op : {"saveHouse"}]
NoCall         == [op |-> "none"]
Calls          == Moves \cup Reads \cup FlatInserts \cup HouseInserts \cup {NoCall}

----------------------------------------------------------------------------
(***************************************************************************)
(* The calls.                                                              *)
(***************************************************************************)

Begin(w, c) == /\ pc[w] = "idle"
               /\ pc'   = [pc EXCEPT ![w] = "exec"]
               /\ call' = [call EXCEPT ![w] = c]
               /\ UNCHANGED <<rows, acks, shown>>

takeFlat(w, f)            == Begin(w, Move(f, "on_moderation"))
UpdateFlatStatus(w, f, s) == Begin(w, Move(f, s))
saveFlat(w, h)            == Begin(w, [op |-> "saveFlat", house |-> h])
saveHouse(w)              == Begin(w, [op |-> "saveHouse"])
getFlatForHouseID(w, h, r) == Begin(w, [op |-> "read", house |-> h, role |-> r])

----------------------------------------------------------------------------
(***************************************************************************)
(* The statement of the call of w.                                         *)
(***************************************************************************)

GoTo(w, label) == pc' = [pc EXCEPT ![w] = label] /\ UNCHANGED call

\* The call is over, and with it its arguments.
End(w, label) == /\ pc'   = [pc EXCEPT ![w] = label]
                 /\ call' = [call EXCEPT ![w] = NoCall]

\* The row is in the status the WHERE clause of the UPDATE asks for.
Matches_NoStatusClause(c) == status[c.flat] # "absent"
Matches_NotAlready(c) == status[c.flat] \notin {"absent", c.to}
Matches(c) == status[c.flat] = Lifecycle!Before(c.to)

\* UPDATE flats SET status = .. WHERE id = .. AND status = .. RETURNING id, one row.
LockRow(w, f, s) == /\ lock[f] = "free"
                    /\ lock'    = [lock EXCEPT ![f] = w]
                    /\ written' = [written EXCEPT ![f] = s]

ExecMove(w) ==
  LET c == call[w] IN
  /\ pc[w] = "exec" /\ c.op = "move"
  /\ Matches(c)
  /\ LockRow(w, c.flat, c.to)
  /\ GoTo(w, "commit")
  /\ UNCHANGED <<status, home, houses, fresh, acks, shown>>

\* The UPDATE changed no row: return false, the transaction is dropped.
ExecNoRow(w) ==
  /\ pc[w] = "exec" /\ call[w].op = "move"
  /\ ~ Matches(call[w])
  /\ End(w, "idle")
  /\ UNCHANGED <<rows, acks, shown>>

\* INSERT INTO flats: takes an id, checks the foreign key, status defaults to 'created'.
ReferencedHouse_Unchecked(h) == TRUE
ReferencedHouse(h) == h \in houses

ExecInsertFlat(w) ==
  /\ pc[w] = "exec" /\ call[w].op = "saveFlat"
  /\ ReferencedHouse(call[w].house)
  /\ \E f \in fresh :
       /\ fresh' = fresh \ {f}
       /\ home'  = [home EXCEPT ![f] = call[w].house]
       /\ LockRow(w, f, "created")
  /\ GoTo(w, "commit")
  /\ UNCHANGED <<status, houses, acks, shown>>

\* A foreign key that does not exist, or no id left: the id is spent, nothing is written.
ExecRejected(w) ==
  /\ pc[w] = "exec" /\ call[w].op = "saveFlat"
  /\ fresh = {} \/ ~ ReferencedHouse(call[w].house)
  /\ \/ fresh = {} /\ UNCHANGED fresh
     \/ \E f \in fresh : fresh' = fresh \ {f}
  /\ End(w, "idle")
  /\ UNCHANGED <<status, home, houses, lock, written, acks, shown>>

ExecInsertHouse(w) ==
  /\ pc[w] = "exec" /\ call[w].op = "saveHouse"
  /\ GoTo(w, "commit")
  /\ UNCHANGED <<rows, acks, shown>>

\* SELECT .. FROM flats, with the filter the role gets; no commit.
Visible_NoFilter(role) == {f \in Flats : status[f] # "absent"}
Visible(role) == CASE role = "user"      -> {f \in Flats : status[f] = "approved"}
                   [] role = "moderator" -> {f \in Flats : status[f] # "absent"}
                   [] OTHER              -> {}

ExecSelect(w) ==
  LET c == call[w] IN
  /\ pc[w] = "exec" /\ c.op = "read"
  /\ shown' = IF c.role = "user"
                THEN shown \cup {f \in Visible(c.role) : home[f] = c.house}
                ELSE shown
  /\ End(w, "idle")
  /\ UNCHANGED <<rows, acks>>

----------------------------------------------------------------------------
(***************************************************************************)
(* Commit, return, failure.                                                *)
(***************************************************************************)

\* The database applies the COMMIT of whoever holds row f.
Apply(f) == /\ status' = [status EXCEPT ![f] = written[f]]
            /\ lock'   = [lock EXCEPT ![f] = "free"]

\* One more row in houses; past the ids of the model a row is not recorded.
InsertHouse == \/ \E h \in Houses \ houses : houses' = houses \cup {h}
               \/ houses = Houses /\ UNCHANGED houses

CommitRow(w) ==
  /\ pc[w] = "commit"
  /\ \E f \in Flats : lock[f] = w /\ Apply(f)
  /\ GoTo(w, "reply")
  /\ UNCHANGED <<home, houses, fresh, written, acks, shown>>

CommitHouse(w) ==
  /\ pc[w] = "commit" /\ call[w].op = "saveHouse"
  /\ InsertHouse
  /\ GoTo(w, "reply")
  /\ UNCHANGED <<status, home, fresh, lock, written, acks, shown>>

\* The call returns normally: true from takeFlat and UpdateFlatStatus.
Return(w) ==
  LET c == call[w] IN
  /\ pc[w] = "reply"
  /\ End(w, "idle")
  /\ acks' = IF c.op = "move" THEN [acks EXCEPT ![c.flat][c.to] = @ + 1] ELSE acks
  /\ UNCHANGED <<rows, shown>>

\* The client of a transaction goes away: the database keeps it until it notices.
Abandon_Leaked(w) == UNCHANGED <<lock, houses>>
Abandon(w) ==
  /\ lock' = [f \in Flats |-> IF lock[f] = w THEN "orphan" ELSE lock[f]]
  /\ \/ UNCHANGED houses
     \/ /\ pc[w] = "commit" /\ call[w].op = "saveHouse"
        /\ InsertHouse

\* An exception in connection, exec_params or commit: the catch block returns
\* false, an empty list or nothing.  In "reply" it is a commit in doubt.
Fail(w) ==
  /\ pc[w] \in {"exec", "commit", "reply"}
  /\ Abandon(w)
  /\ End(w, "idle")
  /\ UNCHANGED <<status, home, fresh, written, acks, shown>>

\* The server process dies and is started again; it remembers nothing.
Crash(w) ==
  /\ pc[w] # "down"
  /\ Abandon(w)
  /\ End(w, "down")
  /\ UNCHANGED <<status, home, fresh, written, acks, shown>>

Restart(w) ==
  /\ pc[w] = "down"
  /\ End(w, "idle")
  /\ UNCHANGED <<rows, acks, shown>>

\* The database finds the client of a transaction gone and rolls it back, ..
OrphanAbort(f) ==
  /\ lock[f] = "orphan"
  /\ lock' = [lock EXCEPT ![f] = "free"]
  /\ UNCHANGED <<status, home, houses, fresh, written, pc, call, acks, shown>>

\* .. or gets the COMMIT that the client sent before it gave up.
OrphanCommit(f) ==
  /\ lock[f] = "orphan"
  /\ Apply(f)
  /\ UNCHANGED <<home, houses, fresh, written, pc, call, acks, shown>>

----------------------------------------------------------------------------

\* The tables have just been created, with a first house when they were created
\* by hand and without one when by the migration: there the INSERT of the
\* house follows a CREATE TABLE with no semicolon and fails with it.
Init ==
  /\ status  = [f \in Flats |-> "absent"]
  /\ home    \in {[f \in Flats |-> h] : h \in Houses}
  /\ houses  \in {{}} \cup {{h} : h \in Houses}
  /\ fresh   = Flats
  /\ lock    = [f \in Flats |-> "free"]
  /\ written = [f \in Flats |-> "created"]
  /\ pc      = [w \in Callers |-> "idle"]
  /\ call    = [w \in Callers |-> NoCall]
  /\ acks    = [f \in Flats |-> [s \in Moderated |-> 0]]
  /\ shown   = {}

Invoke(w) ==
  \/ \E f \in Flats : takeFlat(w, f)
  \/ \E f \in Flats, s \in Verdicts : UpdateFlatStatus(w, f, s)
  \/ \E h \in Houses : saveFlat(w, h)
  \/ saveHouse(w)
  \/ \E h \in Houses, r \in {"user", "moderator", "other"} : getFlatForHouseID(w, h, r)

Statement(w) == \/ ExecMove(w)
                \/ ExecNoRow(w)
                \/ ExecInsertFlat(w)
                \/ ExecRejected(w)
                \/ ExecInsertHouse(w)
                \/ ExecSelect(w)

Finish(w) == CommitRow(w) \/ CommitHouse(w) \/ Return(w)

Next ==
  \/ \E w \in Callers : Invoke(w) \/ Statement(w) \/ Finish(w)
  \/ \E w \in Callers : Fail(w) \/ Crash(w) \/ Restart(w)
  \/ \E f \in Flats : OrphanAbort(f) \/ OrphanCommit(f)

Spec == Init /\ [][Next]_vars

\* A process goes on with its call, and the libraries answer it.  PostgreSQL
\* queues the transactions that wait for a row, hence the strong fairness, and
\* its keepalive ends the transactions of clients that are gone.  No process has
\* to call, to fail, to die or to come back.
Fairness ==
  /\ \A w \in Callers : WF_vars(Statement(w)) /\ SF_vars(ExecMove(w)) /\ WF_vars(Finish(w))
  /\ \A f \in Flats : WF_vars(OrphanAbort(f))

FairSpec == Spec /\ Fairness

----------------------------------------------------------------------------
(***************************************************************************)
(* Properties.                                                             *)
(***************************************************************************)

TypeOK ==
  /\ status  \in [Flats -> Status]
  /\ home    \in [Flats -> Houses]
  /\ houses  \subseteq Houses
  /\ fresh   \subseteq Flats
  /\ lock    \in [Flats -> Callers \cup {"free", "orphan"}]
  /\ written \in [Flats -> {"created"} \cup Moderated]
  /\ pc      \in [Callers -> {"idle", "exec", "commit", "reply", "down"}]
  /\ call    \in [Callers -> Calls]
  /\ acks    \in [Flats -> [Moderated -> Nat]]
  /\ shown   \subseteq Flats

\* Of all the calls of takeFlat and UpdateFlatStatus that ever ask for one change
\* of one flat, in any process, across failures and crashes, at most one
\* returns true; and of the two verdicts at most one is ever confirmed.
AtMostOneWinner ==
  \A f \in Flats : /\ \A s \in Moderated : acks[f][s] <= 1
                   /\ acks[f]["approved"] + acks[f]["declined"] <= 1

\* What getFlatForHouseID once gave a user as approved stays approved: no later
\* call, not even one that was already executing, takes the verdict back.
ShownStaysApproved == shown \subseteq {f \in Flats : status[f] = "approved"}

\* A flat that exists belongs to a house that exists, whatever saveFlat was given.
FlatHasHouse == \A f \in Flats : status[f] # "absent" => home[f] \in houses

\* The processes together keep the promise of FlatLifecycle: one creation, one
\* taking, one verdict per flat, and a true answer only for a change made.
ImplementsLifecycle == Lifecycle!Spec

\* Every call returns, even one that waits for a row held by a transaction
\* whose client died, unless its own process dies.
EveryCallReturns ==
  \A w \in Callers : pc[w] \in {"exec", "commit", "reply"} ~> pc[w] \in {"idle", "down"}

\* A call to UpdateFlatStatus that returns false means what UpdateFlatStatusCommand
\* then tells the moderator: that the flat does not exist or is no longer on
\* moderation.
FalseMeansRefused ==
  [][\A w \in Callers :
       (/\ pc[w] \in {"exec", "commit", "reply"} /\ pc'[w] = "idle"
        /\ call[w].op = "move" /\ call[w].to \in Verdicts /\ UNCHANGED acks)
         => ~ Matches(call[w])]_vars

----------------------------------------------------------------------------
(***************************************************************************)
(* The inductive invariant behind them.                                    *)
(***************************************************************************)

\* The transaction of w wrote s into f.
Wrote(w, f, s) == \/ call[w].op = "move" /\ call[w].flat = f /\ call[w].to = s
                  \/ call[w].op = "saveFlat" /\ s = "created"

\* A row lock belongs to the one statement that wrote the row, and while it is
\* held the committed status is the one that the statement found.
LockInv ==
  /\ \A f \in Flats : lock[f] \in Callers =>
       pc[lock[f]] = "commit" /\ Wrote(lock[f], f, written[f])
  /\ \A f, g \in Flats : lock[f] = lock[g] /\ lock[f] \in Callers => f = g
  /\ \A f \in Flats : lock[f] # "free" => status[f] = Lifecycle!Before(written[f])
  /\ \A f \in fresh : lock[f] = "free" /\ status[f] = "absent"

\* w is about to return true for f and s.
Winning(w, f, s) == pc[w] = "reply" /\ call[w] = Move(f, s)

\* A change is confirmed, or about to be, only once it is made, and by one call.
AckInv ==
  \A f \in Flats, s \in Moderated :
    /\ acks[f][s] \in {0, 1}
    /\ acks[f][s] = 1 => Lifecycle!Passed(f, s)
    /\ \A w \in Callers : Winning(w, f, s) => Lifecycle!Passed(f, s) /\ acks[f][s] = 0
    /\ \A v, w \in Callers : Winning(v, f, s) /\ Winning(w, f, s) => v = w

\* A flat that exists, or is being inserted, belongs to a house that exists.
HouseInv ==
  \A f \in Flats : status[f] # "absent" \/ lock[f] # "free" => home[f] \in houses

\* What the theorems are proved from: the parts above together are inductive,
\* which the properties of the calls alone are not.
IInv == TypeOK /\ LockInv /\ AckInv /\ HouseInv /\ ShownStaysApproved
============================================================================
