--------------------------- MODULE UserRepository ---------------------------
(***************************************************************************)
(* PostgresUserRepository and the two commands that use it, as server      *)
(* processes that share one database run them.  Calls are made and fail    *)
(* as in FlatRepository: a caller is one single-threaded process, a call   *)
(* interleaves with those of others at its statement, its commit and its   *)
(* return, and an exception becomes a return value.                        *)
(*                                                                         *)
(* saveUser returns nothing and swallows every exception, so whoever asked *)
(* for a registration is told of a success in every case: the HTTP answer  *)
(* is 201, and the process can only fail to give it by dying.              *)
(***************************************************************************)
CONSTANTS
  Callers,          \* server processes
  Logins,
  Accounts,         \* what a login is registered with: its password and its role
  None              \* no account

ASSUME UserAssumption == /\ {"free", "orphan"} \cap Callers = {}
                         /\ None \notin Accounts

VARIABLES
  table,            \* the users table exists (the migration does not create it)
  users,            \* users[l]: committed account of login l
  lock,             \* lock[l]: caller with an uncommitted row for l, "free" or "orphan"
  written,          \* written[l]: the account in that row
  pc, call,         \* as in FlatRepository
  told,             \* history: told[l], accounts whose registration was answered 201
  known             \* history: <<l, a>> that findUserByLogin has returned

vars == <<table, users, lock, written, pc, call, told, known>>

NoCall  == [op |-> "none"]
Saves   == [op : {"saveUser"}, login : Logins, account : Accounts]
Lookups == [op : {"find"}, login : Logins]
Calls   == Saves \cup Lookups \cup {NoCall}

----------------------------------------------------------------------------

Begin(w, c) == /\ pc[w] = "idle"
               /\ pc'   = [pc EXCEPT ![w] = "exec"]
               /\ call' = [call EXCEPT ![w] = c]
               /\ UNCHANGED <<table, users, lock, written, told, known>>

saveUser(w, l, a)     == Begin(w, [op |-> "saveUser", login |-> l, account |-> a])
findUserByLogin(w, l) == Begin(w, [op |-> "find", login |-> l])

End(w, label) == /\ pc'   = [pc EXCEPT ![w] = label]
                 /\ call' = [call EXCEPT ![w] = NoCall]

\* The call is over, in whatever way: RegisterCommand::execute returns to
\* process_request, which answers 201.
Reply(w) == told' = IF call[w].op = "saveUser"
                      THEN [told EXCEPT ![call[w].login] = @ \cup {call[w].account}]
                      ELSE told

\* The UNIQUE index on login: an INSERT waits for one that is not yet decided.
MayInsert(l) == lock[l] = "free" /\ users[l] = None

ExecInsert(w) ==
  LET c == call[w] IN
  /\ pc[w] = "exec" /\ c.op = "saveUser"
  /\ table /\ MayInsert(c.login)
  /\ lock'    = [lock EXCEPT ![c.login] = w]
  /\ written' = [written EXCEPT ![c.login] = c.account]
  /\ pc'      = [pc EXCEPT ![w] = "commit"]
  /\ UNCHANGED <<table, users, call, told, known>>

\* The login is taken, or there is no table: an SQL error, swallowed.
ExecRejected(w) ==
  /\ pc[w] = "exec" /\ call[w].op = "saveUser"
  /\ ~ table \/ users[call[w].login] # None
  /\ End(w, "idle") /\ Reply(w)
  /\ UNCHANGED <<table, users, lock, written, known>>

\* The SELECT sees committed rows; its result is returned to LoginCommand.
Seen_Uncommitted(l) == IF lock[l] = "free" THEN users[l] ELSE written[l]
Seen(l) == users[l]

ExecSelect(w) ==
  LET l == call[w].login IN
  /\ pc[w] = "exec" /\ call[w].op = "find"
  /\ known' = IF Seen(l) # None THEN known \cup {<<l, Seen(l)>>} ELSE known
  /\ End(w, "idle")
  /\ UNCHANGED <<table, users, lock, written, told>>

Apply(l) == /\ users' = [users EXCEPT ![l] = written[l]]
            /\ lock'  = [lock EXCEPT ![l] = "free"]

Commit(w) ==
  /\ pc[w] = "commit"
  /\ \E l \in Logins : lock[l] = w /\ Apply(l)
  /\ pc' = [pc EXCEPT ![w] = "reply"]
  /\ UNCHANGED <<table, written, call, told, known>>

Return(w) == /\ pc[w] = "reply"
             /\ End(w, "idle") /\ Reply(w)
             /\ UNCHANGED <<table, users, lock, written, known>>

Abandon_Leaked(w) == UNCHANGED lock
Abandon(w) == lock' = [l \in Logins |-> IF lock[l] = w THEN "orphan" ELSE lock[l]]

\* The connection, the statement or the commit throws; saveUser returns all the same.
Fail(w) ==
  /\ pc[w] \in {"exec", "commit", "reply"}
  /\ Abandon(w)
  /\ End(w, "idle") /\ Reply(w)
  /\ UNCHANGED <<table, users, written, known>>

Crash(w) ==
  /\ pc[w] # "down"
  /\ Abandon(w)
  /\ End(w, "down")
  /\ UNCHANGED <<table, users, written, told, known>>

Restart(w) ==
  /\ pc[w] = "down"
  /\ End(w, "idle")
  /\ UNCHANGED <<table, users, lock, written, told, known>>

OrphanAbort(l) ==
  /\ lock[l] = "orphan"
  /\ lock' = [lock EXCEPT ![l] = "free"]
  /\ UNCHANGED <<table, users, written, pc, call, told, known>>

OrphanCommit(l) ==
  /\ lock[l] = "orphan"
  /\ Apply(l)
  /\ UNCHANGED <<table, written, pc, call, told, known>>

----------------------------------------------------------------------------

Init ==
  /\ table   \in BOOLEAN
  /\ users   = [l \in Logins |-> None]
  /\ lock    = [l \in Logins |-> "free"]
  /\ written = [l \in Logins |-> None]
  /\ pc      = [w \in Callers |-> "idle"]
  /\ call    = [w \in Callers |-> NoCall]
  /\ told    = [l \in Logins |-> {}]
  /\ known   = {}

Invoke(w) == \/ \E l \in Logins, a \in Accounts : saveUser(w, l, a)
             \/ \E l \in Logins : findUserByLogin(w, l)

Work(w) == \/ ExecInsert(w) \/ ExecRejected(w) \/ ExecSelect(w)
           \/ Commit(w) \/ Return(w)

Next == \/ \E w \in Callers : Invoke(w) \/ Work(w) \/ Fail(w) \/ Crash(w) \/ Restart(w)
        \/ \E l \in Logins : OrphanAbort(l) \/ OrphanCommit(l)

Spec == Init /\ [][Next]_vars

\* As in FlatRepository: calls go on, waiters for an index entry are served in
\* turn, and the database ends the transactions of clients that are gone.
Fairness == /\ \A w \in Callers : WF_vars(Work(w)) /\ SF_vars(ExecInsert(w))
            /\ \A l \in Logins : WF_vars(OrphanAbort(l))

FairSpec == Spec /\ Fairness

----------------------------------------------------------------------------

TypeOK ==
  /\ table   \in BOOLEAN
  /\ users   \in [Logins -> Accounts \cup {None}]
  /\ lock    \in [Logins -> Callers \cup {"free", "orphan"}]
  /\ written \in [Logins -> Accounts \cup {None}]
  /\ pc      \in [Callers -> {"idle", "exec", "commit", "reply", "down"}]
  /\ call    \in [Callers -> Calls]
  /\ told    \in [Logins -> SUBSET Accounts]
  /\ known   \subseteq Logins \X Accounts

\* What a login was found with, it still has: the role that LoginCommand puts into
\* a session, or into a token that lives for a day, never differs from the
\* one in the table, however registrations of that login race.
LookupsStayTrue == \A k \in known : users[k[1]] = k[2]

\* An uncommitted row belongs to the one call that wrote it, and the login it is
\* for has no account; nothing is in a table that is not there.
LockInv ==
  /\ \A l \in Logins : lock[l] \in Callers =>
       /\ pc[lock[l]] = "commit" /\ call[lock[l]].op = "saveUser"
       /\ call[lock[l]].login = l /\ call[lock[l]].account = written[l]
  /\ \A l \in Logins : lock[l] # "free" => users[l] = None /\ written[l] # None /\ table
  /\ \A l \in Logins : users[l] # None => table

\* The inductive invariant.
IInv == TypeOK /\ LockInv /\ LookupsStayTrue

\* The processes together keep the promise of UserRegistry, on whichever of them a
\* registration is made or fails, and on whichever the login is looked up.
Registry == INSTANCE UserRegistry WITH accounts <- users, found <- known
ImplementsRegistry == Registry!Spec

\* A registration returns even when it waits for one whose process died.
EveryCallReturns ==
  \A w \in Callers : pc[w] \in {"exec", "commit", "reply"} ~> pc[w] \in {"idle", "down"}

\* A registration of a login that is taken is not answered with success: while a
\* login has an account, only that account is ever told to be registered.
TakenLoginRefused ==
  [][\A l \in Logins : users[l] # None => told'[l] \subseteq told[l] \cup {users[l]}]_vars

============================================================================
