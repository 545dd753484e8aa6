----------------------- MODULE UserRepository_proofs -----------------------
(***************************************************************************)
(* What the users table keeps for every number of server processes and     *)
(* logins.                                                                 *)
(***************************************************************************)
EXTENDS UserRepository, TLAPS

\* A call is told by its op.
LEMMA CallShape ==
  /\ \A c \in Calls : /\ c.op = "saveUser" => c.login \in Logins /\ c.account \in Accounts
                      /\ c.op = "find" => c.login \in Logins
  /\ \A l \in Logins, a \in Accounts : [op |-> "saveUser", login |-> l, account |-> a] \in Calls
  /\ \A l \in Logins : [op |-> "find", login |-> l] \in Calls
  /\ NoCall \in Calls
  BY DEF Calls, Saves, Lookups, NoCall

LEMMA InitIInv == Init => IInv
  BY CallShape, UserAssumption DEF Init, IInv, TypeOK, LockInv, LookupsStayTrue

LEMMA InvokeIInv ==
  ASSUME IInv, NEW w \in Callers, Invoke(w)
  PROVE  IInv'
  <1>1. PICK c \in Calls : Begin(w, c)
    BY CallShape DEF Invoke, saveUser, findUserByLogin
  <1>2. TypeOK'
    BY <1>1 DEF IInv, TypeOK, Begin
  <1>3. LockInv' /\ LookupsStayTrue'
    BY <1>1 DEF IInv, TypeOK, LockInv, LookupsStayTrue, Begin
  <1> QED BY <1>2, <1>3 DEF IInv

\* An INSERT gets past the index only for a login that has no account.
LEMMA ExecInsertIInv ==
  ASSUME IInv, NEW w \in Callers, ExecInsert(w)
  PROVE  IInv'
  <1> USE DEF IInv, ExecInsert, MayInsert
  <1>1. TypeOK'
    BY CallShape DEF TypeOK, LockInv
  <1>2. LockInv'
    BY CallShape, UserAssumption DEF TypeOK, LockInv
  <1>3. LookupsStayTrue'
    BY CallShape, UserAssumption DEF TypeOK, LockInv, LookupsStayTrue
  <1> QED BY <1>1, <1>2, <1>3

\* A refused INSERT changes no row.
LEMMA ExecRejectedIInv ==
  ASSUME IInv, NEW w \in Callers, ExecRejected(w)
  PROVE  IInv'
  <1> USE DEF IInv, ExecRejected, End, Reply
  <1>1. TypeOK'
    BY CallShape DEF TypeOK, LockInv
  <1>2. LockInv'
    BY CallShape, UserAssumption DEF TypeOK, LockInv
  <1>3. LookupsStayTrue'
    BY CallShape, UserAssumption DEF TypeOK, LockInv, LookupsStayTrue
  <1> QED BY <1>1, <1>2, <1>3

\* A lookup finds what is in the table.
LEMMA ExecSelectIInv ==
  ASSUME IInv, NEW w \in Callers, ExecSelect(w)
  PROVE  IInv'
  <1> USE DEF IInv, ExecSelect, Seen, End
  <1>1. TypeOK'
    BY CallShape DEF TypeOK, LockInv
  <1>2. LockInv'
    BY CallShape, UserAssumption DEF TypeOK, LockInv
  <1>3. LookupsStayTrue'
    BY CallShape, UserAssumption DEF TypeOK, LockInv, LookupsStayTrue
  <1> QED BY <1>1, <1>2, <1>3

\* A commit gives an account to a login that had none.
LEMMA CommitIInv ==
  ASSUME IInv, NEW w \in Callers, Commit(w)
  PROVE  IInv'
  <1> USE DEF IInv, Commit, Apply
  <1>1. TypeOK'
    BY CallShape DEF TypeOK, LockInv
  <1>2. LockInv'
    BY CallShape, UserAssumption DEF TypeOK, LockInv
  <1>3. LookupsStayTrue'
    BY CallShape, UserAssumption DEF TypeOK, LockInv, LookupsStayTrue
  <1> QED BY <1>1, <1>2, <1>3

\* A return changes no row.
LEMMA ReturnIInv ==
  ASSUME IInv, NEW w \in Callers, Return(w)
  PROVE  IInv'
  <1> USE DEF IInv, Return, End, Reply
  <1>1. TypeOK'
    BY CallShape DEF TypeOK, LockInv
  <1>2. LockInv'
    BY CallShape, UserAssumption DEF TypeOK, LockInv
  <1>3. LookupsStayTrue'
    BY CallShape, UserAssumption DEF TypeOK, LockInv, LookupsStayTrue
  <1> QED BY <1>1, <1>2, <1>3

\* A failed call leaves its row to the database.
LEMMA FailIInv ==
  ASSUME IInv, NEW w \in Callers, Fail(w)
  PROVE  IInv'
  <1> USE DEF IInv, Fail, Abandon, End, Reply
  <1>1. TypeOK'
    BY CallShape DEF TypeOK, LockInv
  <1>2. LockInv'
    BY CallShape, UserAssumption DEF TypeOK, LockInv
  <1>3. LookupsStayTrue'
    BY CallShape, UserAssumption DEF TypeOK, LockInv, LookupsStayTrue
  <1> QED BY <1>1, <1>2, <1>3

\* So does a process that dies.
LEMMA CrashIInv ==
  ASSUME IInv, NEW w \in Callers, Crash(w)
  PROVE  IInv'
  <1> USE DEF IInv, Crash, Abandon, End
  <1>1. TypeOK'
    BY CallShape DEF TypeOK, LockInv
  <1>2. LockInv'
    BY CallShape, UserAssumption DEF TypeOK, LockInv
  <1>3. LookupsStayTrue'
    BY CallShape, UserAssumption DEF TypeOK, LockInv, LookupsStayTrue
  <1> QED BY <1>1, <1>2, <1>3

\* A process that starts has no call in progress.
LEMMA RestartIInv ==
  ASSUME IInv, NEW w \in Callers, Restart(w)
  PROVE  IInv'
  <1> USE DEF IInv, Restart, End
  <1>1. TypeOK'
    BY CallShape DEF TypeOK, LockInv
  <1>2. LockInv'
    BY CallShape, UserAssumption DEF TypeOK, LockInv
  <1>3. LookupsStayTrue'
    BY CallShape, UserAssumption DEF TypeOK, LockInv, LookupsStayTrue
  <1> QED BY <1>1, <1>2, <1>3

\* A rolled back row never was.
LEMMA OrphanAbortIInv ==
  ASSUME IInv, NEW l \in Logins, OrphanAbort(l)
  PROVE  IInv'
  <1> USE DEF IInv, OrphanAbort
  <1>1. TypeOK'
    BY CallShape DEF TypeOK, LockInv
  <1>2. LockInv'
    BY CallShape, UserAssumption DEF TypeOK, LockInv
  <1>3. LookupsStayTrue'
    BY CallShape, UserAssumption DEF TypeOK, LockInv, LookupsStayTrue
  <1> QED BY <1>1, <1>2, <1>3

\* A commit in doubt is a commit.
LEMMA OrphanCommitIInv ==
  ASSUME IInv, NEW l \in Logins, OrphanCommit(l)
  PROVE  IInv'
  <1> USE DEF IInv, OrphanCommit, Apply
  <1>1. TypeOK'
    BY CallShape DEF TypeOK, LockInv
  <1>2. LockInv'
    BY CallShape, UserAssumption DEF TypeOK, LockInv
  <1>3. LookupsStayTrue'
    BY CallShape, UserAssumption DEF TypeOK, LockInv, LookupsStayTrue
  <1> QED BY <1>1, <1>2, <1>3

----------------------------------------------------------------------------

\* Every step keeps the invariant.
LEMMA NextIInv == IInv /\ [Next]_vars => IInv'
  <1> SUFFICES ASSUME IInv, [Next]_vars PROVE IInv' OBVIOUS
  <1>1. ASSUME NEW w \in Callers, Invoke(w) PROVE IInv'
    BY <1>1, InvokeIInv
  <1>2. ASSUME NEW w \in Callers, Work(w) PROVE IInv'
    BY <1>2, ExecInsertIInv, ExecRejectedIInv, ExecSelectIInv, CommitIInv, ReturnIInv DEF Work
  <1>3. ASSUME NEW w \in Callers, Fail(w) \/ Crash(w) \/ Restart(w) PROVE IInv'
    BY <1>3, FailIInv, CrashIInv, RestartIInv
  <1>4. ASSUME NEW l \in Logins, OrphanAbort(l) \/ OrphanCommit(l) PROVE IInv'
    BY <1>4, OrphanAbortIInv, OrphanCommitIInv
  <1>5. CASE UNCHANGED vars
    BY <1>5 DEF vars, IInv, TypeOK, LockInv, LookupsStayTrue
  <1> QED BY <1>1, <1>2, <1>3, <1>4, <1>5 DEF Next

\* The rows, the index and the calls in progress stay consistent.
THEOREM Invariance == Spec => []IInv
  <1> QED BY InitIInv, NextIInv, PTL DEF Spec

\* However many processes register a login at once, and whichever of them fail,
\* an account that was once found is the account of that login for good.
THEOREM AccountsAreForever == Spec => []LookupsStayTrue
  <1>1. IInv => LookupsStayTrue
    BY DEF IInv
  <1> QED BY <1>1, Invariance, PTL

----------------------------------------------------------------------------
(***************************************************************************)
(* UserRepository implements UserRegistry.                                 *)
(***************************************************************************)

\* A commit, of a process or of the database for one that is gone, registers a login
\* that was free.
LEMMA ApplyRegisters ==
  ASSUME IInv, NEW l \in Logins, lock[l] # "free", Apply(l), UNCHANGED known
  PROVE  \E a \in Accounts : Registry!Register(l, a)
  <1>1. users[l] = None /\ written[l] \in Accounts
    BY DEF IInv, TypeOK, LockInv
  <1> QED BY <1>1 DEF Apply, Registry!Register

\* A lookup finds the account of its login, or nothing.
LEMMA SelectLooksUp ==
  ASSUME IInv, NEW w \in Callers, ExecSelect(w)
  PROVE  [Registry!Next]_<<users, known>>
  <1>1. call[w].login \in Logins
    BY CallShape DEF IInv, TypeOK, ExecSelect
  <1>2. CASE users[call[w].login] = None
    BY <1>2 DEF ExecSelect, Seen
  <1>3. CASE users[call[w].login] # None
    <2>1. Registry!LookUp(call[w].login)
      BY <1>3 DEF ExecSelect, Seen, Registry!LookUp
    <2> QED BY <2>1, <1>1 DEF Registry!Next
  <1> QED BY <1>2, <1>3

\* Every step is one of UserRegistry, or changes nothing that it speaks of.
LEMMA StepRefines == IInv /\ [Next]_vars => [Registry!Next]_<<users, known>>
  <1> SUFFICES ASSUME IInv, [Next]_vars PROVE [Registry!Next]_<<users, known>> OBVIOUS
  <1>1. ASSUME NEW w \in Callers, Invoke(w) PROVE UNCHANGED <<users, known>>
    BY <1>1 DEF Invoke, saveUser, findUserByLogin, Begin
  <1>2. ASSUME NEW w \in Callers, Work(w) PROVE [Registry!Next]_<<users, known>>
    <2>1. CASE Commit(w)
      <3>1. PICK l \in Logins : lock[l] = w /\ Apply(l)
        BY <2>1 DEF Commit
      <3>2. lock[l] # "free" /\ UNCHANGED known
        BY <3>1, <2>1, UserAssumption DEF Commit
      <3> QED BY <3>1, <3>2, ApplyRegisters DEF Registry!Next
    <2>2. CASE ExecSelect(w)
      BY <2>2, SelectLooksUp
    <2>3. CASE ExecInsert(w) \/ ExecRejected(w) \/ Return(w)
      BY <2>3 DEF ExecInsert, ExecRejected, Return
    <2> QED BY <1>2, <2>1, <2>2, <2>3 DEF Work
  <1>3. ASSUME NEW w \in Callers, Fail(w) \/ Crash(w) \/ Restart(w) PROVE UNCHANGED <<users, known>>
    BY <1>3 DEF Fail, Crash, Restart
  <1>4. ASSUME NEW l \in Logins, OrphanCommit(l) PROVE [Registry!Next]_<<users, known>>
    <2>1. \E a \in Accounts : Registry!Register(l, a)
      BY <1>4, ApplyRegisters DEF OrphanCommit
    <2> QED BY <2>1 DEF Registry!Next
  <1>5. ASSUME NEW l \in Logins, OrphanAbort(l) PROVE UNCHANGED <<users, known>>
    BY <1>5 DEF OrphanAbort
  <1>6. CASE UNCHANGED vars
    BY <1>6 DEF vars
  <1> QED BY <1>1, <1>2, <1>3, <1>4, <1>5, <1>6 DEF Next

\* However many processes share the users table and however they fail, they are
\* one registry, in which a login has one account.
THEOREM Implementation == Spec => ImplementsRegistry
  <1>1. Init => Registry!Init
    BY DEF Init, Registry!Init
  <1>2. IInv /\ [Next]_vars => [Registry!Next]_Registry!vars
    BY StepRefines DEF Registry!vars
  <1> QED BY <1>1, <1>2, Invariance, PTL DEF Spec, ImplementsRegistry, Registry!Spec

============================================================================
