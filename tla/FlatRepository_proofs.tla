----------------------- MODULE FlatRepository_proofs -----------------------
(***************************************************************************)
(* What the repositories keep for every number of server processes, flats  *)
(* and houses: the inductive invariant, what follows from it, and that     *)
(* they implement FlatLifecycle.                                           *)
(***************************************************************************)
EXTENDS FlatRepository, TLAPS

USE DEF Verdicts, Moderated, Status, Lifecycle!Verdicts, Lifecycle!Moderated, Lifecycle!Status

\* A call is told by its op: what a call in progress has for arguments.
LEMMA CallShape ==
  ASSUME NEW c \in Calls
  PROVE  /\ c.op = "move" => c.flat \in Flats /\ c.to \in Moderated /\ c = Move(c.flat, c.to)
         /\ c.op = "saveFlat" => c.house \in Houses
         /\ c.op = "read" => c.house \in Houses
  BY DEF Calls, Moves, Reads, FlatInserts, HouseInserts, NoCall, Move

\* The calls a process can make are calls.
LEMMA CallsInvoked ==
  /\ \A f \in Flats, s \in Moderated : Move(f, s) \in Calls
  /\ \A h \in Houses : [op |-> "saveFlat", house |-> h] \in Calls
  /\ [op |-> "saveHouse"] \in Calls
  /\ \A h \in Houses, r \in {"user", "moderator", "other"} :
       [op |-> "read", house |-> h, role |-> r] \in Calls
  /\ NoCall \in Calls
  BY DEF Calls, Moves, Reads, FlatInserts, HouseInserts, NoCall, Move

\* The status a flat moves from is a status, and is never the one it moves to.
LEMMA BeforeIsStatus ==
  ASSUME NEW s \in {"created"} \cup Moderated
  PROVE  Lifecycle!Before(s) \in Status /\ Lifecycle!Before(s) # s
  BY DEF Lifecycle!Before

\* What a flat has passed it has passed for good: a change made from the status
\* before it takes no flat back.
LEMMA PassedStays ==
  ASSUME status \in [Flats -> Status], NEW f \in Flats, NEW s \in {"created"} \cup Moderated,
         status[f] = Lifecycle!Before(s), status' = [status EXCEPT ![f] = s],
         NEW g \in Flats, NEW t \in Moderated, Lifecycle!Passed(g, t)
  PROVE  Lifecycle!Passed(g, t)'
  BY DEF Lifecycle!Passed, Lifecycle!Before

----------------------------------------------------------------------------

LEMMA InitIInv == Init => IInv
  <1> SUFFICES ASSUME Init PROVE IInv OBVIOUS
  <1>1. TypeOK
    BY CallsInvoked DEF Init, TypeOK
  <1>2. LockInv
    BY CallersAssumption DEF Init, LockInv
  <1>3. AckInv
    BY CallsInvoked DEF Init, AckInv, Winning
  <1>4. HouseInv /\ ShownStaysApproved
    BY DEF Init, HouseInv, ShownStaysApproved
  <1> QED BY <1>1, <1>2, <1>3, <1>4 DEF IInv

----------------------------------------------------------------------------

LEMMA InvokeIInv ==
  ASSUME IInv, NEW w \in Callers, Invoke(w)
  PROVE  IInv'
  <1> USE DEF IInv
  <1>1. PICK c \in Calls : Begin(w, c)
    BY CallsInvoked DEF Invoke, takeFlat, UpdateFlatStatus, saveFlat, saveHouse, getFlatForHouseID
  <1>2. TypeOK'
    BY <1>1 DEF TypeOK, Begin, rows
  <1>3. LockInv'
    BY <1>1 DEF TypeOK, LockInv, Wrote, Begin, rows
  <1>4. AckInv'
    BY <1>1 DEF TypeOK, AckInv, Winning, Lifecycle!Passed, Begin, rows
  <1>5. HouseInv' /\ ShownStaysApproved'
    BY <1>1 DEF HouseInv, ShownStaysApproved, Begin, rows
  <1> QED BY <1>2, <1>3, <1>4, <1>5

\* The UPDATE that finds its row locks it in the status it found.
LEMMA ExecMoveIInv ==
  ASSUME IInv, NEW w \in Callers, ExecMove(w)
  PROVE  IInv'
  <1> USE DEF IInv, ExecMove, Matches, LockRow, GoTo, rows
  <1>1. TypeOK'
    BY CallShape, CallsInvoked DEF TypeOK
  <1>2. LockInv'
    BY CallShape, CallsInvoked, CallersAssumption DEF TypeOK, LockInv, Wrote, Move, Lifecycle!Before
  <1>3. AckInv'
    BY CallShape, CallsInvoked DEF TypeOK, LockInv, Wrote, AckInv, Winning, Move, NoCall, Lifecycle!Passed, Lifecycle!Before
  <1>4. HouseInv'
    BY CallShape DEF TypeOK, LockInv, HouseInv, Lifecycle!Before
  <1>5. ShownStaysApproved'
    BY CallShape DEF TypeOK, LockInv, ShownStaysApproved, Lifecycle!Before
  <1> QED BY <1>1, <1>2, <1>3, <1>4, <1>5

\* An UPDATE without a row changes nothing.
LEMMA ExecNoRowIInv ==
  ASSUME IInv, NEW w \in Callers, ExecNoRow(w)
  PROVE  IInv'
  <1> USE DEF IInv, ExecNoRow, End, rows
  <1>1. TypeOK'
    BY CallShape, CallsInvoked DEF TypeOK
  <1>2. LockInv'
    BY CallShape, CallsInvoked, CallersAssumption DEF TypeOK, LockInv, Wrote, Move, Lifecycle!Before
  <1>3. AckInv'
    BY CallShape, CallsInvoked DEF TypeOK, LockInv, Wrote, AckInv, Winning, Move, NoCall, Lifecycle!Passed, Lifecycle!Before
  <1>4. HouseInv'
    BY CallShape DEF TypeOK, LockInv, HouseInv
  <1>5. ShownStaysApproved'
    BY CallShape DEF TypeOK, LockInv, ShownStaysApproved, Lifecycle!Before
  <1> QED BY <1>1, <1>2, <1>3, <1>4, <1>5

\* The row of an INSERT has an id that nobody has, and a house.
LEMMA ExecInsertFlatIInv ==
  ASSUME IInv, NEW w \in Callers, ExecInsertFlat(w)
  PROVE  IInv'
  <1> USE DEF IInv, ExecInsertFlat, ReferencedHouse, LockRow, GoTo
  <1>1. TypeOK'
    BY CallShape, CallsInvoked DEF TypeOK
  <1>2. LockInv'
    BY CallShape, CallsInvoked, CallersAssumption DEF TypeOK, LockInv, Wrote, Move, Lifecycle!Before
  <1>3. AckInv'
    BY CallShape, CallsInvoked DEF TypeOK, LockInv, Wrote, AckInv, Winning, Move, NoCall, Lifecycle!Passed, Lifecycle!Before
  <1>4. HouseInv'
    BY CallShape DEF TypeOK, LockInv, HouseInv
  <1>5. ShownStaysApproved'
    BY CallShape DEF TypeOK, LockInv, ShownStaysApproved, Lifecycle!Before
  <1> QED BY <1>1, <1>2, <1>3, <1>4, <1>5

\* A refused INSERT spends an id at most.
LEMMA ExecRejectedIInv ==
  ASSUME IInv, NEW w \in Callers, ExecRejected(w)
  PROVE  IInv'
  <1> USE DEF IInv, ExecRejected, End
  <1>1. TypeOK'
    BY CallShape, CallsInvoked DEF TypeOK
  <1>2. LockInv'
    BY CallShape, CallsInvoked, CallersAssumption DEF TypeOK, LockInv, Wrote, Move, Lifecycle!Before
  <1>3. AckInv'
    BY CallShape, CallsInvoked DEF TypeOK, LockInv, Wrote, AckInv, Winning, Move, NoCall, Lifecycle!Passed, Lifecycle!Before
  <1>4. HouseInv'
    BY CallShape DEF TypeOK, LockInv, HouseInv
  <1>5. ShownStaysApproved'
    BY CallShape DEF TypeOK, LockInv, ShownStaysApproved, Lifecycle!Before
  <1> QED BY <1>1, <1>2, <1>3, <1>4, <1>5

\* An INSERT into houses conflicts with nothing.
LEMMA ExecInsertHouseIInv ==
  ASSUME IInv, NEW w \in Callers, ExecInsertHouse(w)
  PROVE  IInv'
  <1> USE DEF IInv, ExecInsertHouse, GoTo, rows
  <1>1. TypeOK'
    BY CallShape, CallsInvoked DEF TypeOK
  <1>2. LockInv'
    BY CallShape, CallsInvoked, CallersAssumption DEF TypeOK, LockInv, Wrote, Move, Lifecycle!Before
  <1>3. AckInv'
    BY CallShape, CallsInvoked DEF TypeOK, LockInv, Wrote, AckInv, Winning, Move, NoCall, Lifecycle!Passed, Lifecycle!Before
  <1>4. HouseInv'
    BY CallShape DEF TypeOK, LockInv, HouseInv
  <1>5. ShownStaysApproved'
    BY CallShape DEF TypeOK, LockInv, ShownStaysApproved, Lifecycle!Before
  <1> QED BY <1>1, <1>2, <1>3, <1>4, <1>5

\* A user is shown approved flats only.
LEMMA ExecSelectIInv ==
  ASSUME IInv, NEW w \in Callers, ExecSelect(w)
  PROVE  IInv'
  <1> USE DEF IInv, ExecSelect, Visible, End, rows
  <1>1. TypeOK'
    BY CallShape, CallsInvoked DEF TypeOK
  <1>2. LockInv'
    BY CallShape, CallsInvoked, CallersAssumption DEF TypeOK, LockInv, Wrote, Move, Lifecycle!Before
  <1>3. AckInv'
    BY CallShape, CallsInvoked DEF TypeOK, LockInv, Wrote, AckInv, Winning, Move, NoCall, Lifecycle!Passed, Lifecycle!Before
  <1>4. HouseInv'
    BY CallShape DEF TypeOK, LockInv, HouseInv
  <1>5. ShownStaysApproved'
    BY CallShape DEF TypeOK, LockInv, ShownStaysApproved, Lifecycle!Before
  <1> QED BY <1>1, <1>2, <1>3, <1>4, <1>5

\* A commit moves the row on from the status that its UPDATE found.
LEMMA CommitRowIInv ==
  ASSUME IInv, NEW w \in Callers, CommitRow(w)
  PROVE  IInv'
  <1> USE DEF IInv
  <1>1. PICK f \in Flats : lock[f] = w /\ Apply(f)
    BY DEF CommitRow
  <1>2. /\ written[f] \in {"created"} \cup Moderated
        /\ status[f] = Lifecycle!Before(written[f])
        /\ Wrote(w, f, written[f])
        /\ \A g \in Flats : lock[g] = w => g = f
    BY <1>1, CallersAssumption DEF TypeOK, LockInv
  <1>3. TypeOK'
    BY <1>1, <1>2 DEF TypeOK, CommitRow, Apply, GoTo
  <1>4. LockInv'
    BY <1>1, <1>2, CallersAssumption DEF TypeOK, LockInv, Wrote, CommitRow, Apply, GoTo
  <1>5. AckInv'
    <2> SUFFICES ASSUME NEW g \in Flats, NEW s \in Moderated
                 PROVE  /\ acks'[g][s] \in {0, 1}
                        /\ acks'[g][s] = 1 => Lifecycle!Passed(g, s)'
                        /\ \A v \in Callers : Winning(v, g, s)' => Lifecycle!Passed(g, s)' /\ acks'[g][s] = 0
                        /\ \A u, v \in Callers : Winning(u, g, s)' /\ Winning(v, g, s)' => u = v
      BY DEF AckInv
    <2>1. Lifecycle!Passed(g, s) => Lifecycle!Passed(g, s)'
      BY <1>1, <1>2, PassedStays DEF Apply, TypeOK
    <2>2. \A v \in Callers : v # w => (Winning(v, g, s)' <=> Winning(v, g, s))
      BY DEF TypeOK, CommitRow, GoTo, Winning
    <2>3. Winning(w, g, s)' => /\ g = f /\ s = written[f]
                               /\ ~ Lifecycle!Passed(g, s) /\ Lifecycle!Passed(g, s)'
      <3> SUFFICES ASSUME Winning(w, g, s)'
                   PROVE  /\ g = f /\ s = written[f]
                          /\ ~ Lifecycle!Passed(g, s) /\ Lifecycle!Passed(g, s)'
        OBVIOUS
      <3>1. call[w] = Move(g, s)
        BY DEF CommitRow, GoTo, Winning
      <3>2. g = f /\ s = written[f]
        BY <3>1, <1>2 DEF Wrote, Move
      <3> QED BY <3>2, <1>1, <1>2 DEF Apply, TypeOK, Lifecycle!Passed, Lifecycle!Before
    <2> QED BY <2>1, <2>2, <2>3 DEF AckInv, CommitRow
  <1>6. HouseInv'
    BY <1>1, CallersAssumption DEF TypeOK, HouseInv, CommitRow, Apply
  <1>7. ShownStaysApproved'
    BY <1>1, <1>2 DEF TypeOK, ShownStaysApproved, CommitRow, Apply, Lifecycle!Before
  <1> QED BY <1>3, <1>4, <1>5, <1>6, <1>7

\* A committed house is one more house.
LEMMA CommitHouseIInv ==
  ASSUME IInv, NEW w \in Callers, CommitHouse(w)
  PROVE  IInv'
  <1> USE DEF IInv, CommitHouse, InsertHouse, GoTo
  <1>1. TypeOK'
    BY CallShape, CallsInvoked DEF TypeOK
  <1>2. LockInv'
    BY CallShape, CallsInvoked, CallersAssumption DEF TypeOK, LockInv, Wrote, Move, Lifecycle!Before
  <1>3. AckInv'
    BY CallShape, CallsInvoked DEF TypeOK, LockInv, Wrote, AckInv, Winning, Move, NoCall, Lifecycle!Passed, Lifecycle!Before
  <1>4. HouseInv'
    BY CallShape DEF TypeOK, LockInv, HouseInv
  <1>5. ShownStaysApproved'
    BY CallShape DEF TypeOK, LockInv, ShownStaysApproved, Lifecycle!Before
  <1> QED BY <1>1, <1>2, <1>3, <1>4, <1>5

\* The caller that is told true is the one whose commit made the change.
LEMMA ReturnIInv ==
  ASSUME IInv, NEW w \in Callers, Return(w)
  PROVE  IInv'
  <1> USE DEF IInv, Return, End, rows
  <1>1. TypeOK'
    BY CallShape, CallsInvoked DEF TypeOK
  <1>2. LockInv'
    BY CallShape, CallsInvoked, CallersAssumption DEF TypeOK, LockInv, Wrote, Move, Lifecycle!Before
  <1>3. AckInv'
    BY CallShape, CallsInvoked DEF TypeOK, LockInv, Wrote, AckInv, Winning, Move, NoCall, Lifecycle!Passed, Lifecycle!Before
  <1>4. HouseInv'
    BY CallShape DEF TypeOK, LockInv, HouseInv
  <1>5. ShownStaysApproved'
    BY CallShape DEF TypeOK, LockInv, ShownStaysApproved, Lifecycle!Before
  <1> QED BY <1>1, <1>2, <1>3, <1>4, <1>5

\* A call that fails, or whose process dies, leaves its lock to the database.
LEMMA AbandonedIInv ==
  ASSUME IInv, NEW w \in Callers, Abandon(w), NEW label \in {"idle", "down"}, End(w, label),
         UNCHANGED <<status, home, fresh, written, acks, shown>>
  PROVE  IInv'
  <1> USE DEF IInv, Abandon, InsertHouse, End
  <1>1. TypeOK'
    BY CallShape, CallsInvoked DEF TypeOK
  <1>2. LockInv'
    BY CallShape, CallsInvoked, CallersAssumption DEF TypeOK, LockInv, Wrote, Move, Lifecycle!Before
  <1>3. AckInv'
    BY CallShape, CallsInvoked DEF TypeOK, LockInv, Wrote, AckInv, Winning, Move, NoCall, Lifecycle!Passed, Lifecycle!Before
  <1>4. HouseInv'
    <2>1. ASSUME NEW f \in Flats PROVE lock'[f] # "free" => lock[f] # "free"
      BY CallersAssumption DEF TypeOK
    <2> QED BY <2>1 DEF TypeOK, HouseInv
  <1>5. ShownStaysApproved'
    BY CallShape DEF TypeOK, LockInv, ShownStaysApproved, Lifecycle!Before
  <1> QED BY <1>1, <1>2, <1>3, <1>4, <1>5

\* A process that starts has no call in progress.
LEMMA RestartIInv ==
  ASSUME IInv, NEW w \in Callers, Restart(w)
  PROVE  IInv'
  <1> USE DEF IInv, Restart, End, rows
  <1>1. TypeOK'
    BY CallShape, CallsInvoked DEF TypeOK
  <1>2. LockInv'
    BY CallShape, CallsInvoked, CallersAssumption DEF TypeOK, LockInv, Wrote, Move, Lifecycle!Before
  <1>3. AckInv'
    BY CallShape, CallsInvoked DEF TypeOK, LockInv, Wrote, AckInv, Winning, Move, NoCall, Lifecycle!Passed, Lifecycle!Before
  <1>4. HouseInv'
    BY CallShape DEF TypeOK, LockInv, HouseInv
  <1>5. ShownStaysApproved'
    BY CallShape DEF TypeOK, LockInv, ShownStaysApproved, Lifecycle!Before
  <1> QED BY <1>1, <1>2, <1>3, <1>4, <1>5

\* A rolled back transaction leaves the row as it was.
LEMMA OrphanAbortIInv ==
  ASSUME IInv, NEW f \in Flats, OrphanAbort(f)
  PROVE  IInv'
  <1> USE DEF IInv, OrphanAbort
  <1>1. TypeOK'
    BY CallShape, CallsInvoked DEF TypeOK
  <1>2. LockInv'
    BY CallShape, CallsInvoked, CallersAssumption DEF TypeOK, LockInv, Wrote, Move, Lifecycle!Before
  <1>3. AckInv'
    BY CallShape, CallsInvoked DEF TypeOK, LockInv, Wrote, AckInv, Winning, Move, NoCall, Lifecycle!Passed, Lifecycle!Before
  <1>4. HouseInv'
    BY CallShape DEF TypeOK, LockInv, HouseInv
  <1>5. ShownStaysApproved'
    BY CallShape DEF TypeOK, LockInv, ShownStaysApproved, Lifecycle!Before
  <1> QED BY <1>1, <1>2, <1>3, <1>4, <1>5

\* A commit in doubt moves the row on as any commit does.
LEMMA OrphanCommitIInv ==
  ASSUME IInv, NEW f \in Flats, OrphanCommit(f)
  PROVE  IInv'
  <1> USE DEF IInv, OrphanCommit, Apply
  <1>1. TypeOK'
    BY CallShape, CallsInvoked DEF TypeOK
  <1>2. LockInv'
    BY CallShape, CallsInvoked, CallersAssumption DEF TypeOK, LockInv, Wrote, Move, Lifecycle!Before
  <1>3. AckInv'
    BY CallShape, CallsInvoked DEF TypeOK, LockInv, Wrote, AckInv, Winning, Move, NoCall, Lifecycle!Passed, Lifecycle!Before
  <1>4. HouseInv'
    BY CallShape DEF TypeOK, LockInv, HouseInv
  <1>5. ShownStaysApproved'
    BY CallShape DEF TypeOK, LockInv, ShownStaysApproved, Lifecycle!Before
  <1> QED BY <1>1, <1>2, <1>3, <1>4, <1>5

----------------------------------------------------------------------------

\* Every step keeps the invariant.
LEMMA NextIInv == IInv /\ [Next]_vars => IInv'
  <1> SUFFICES ASSUME IInv, [Next]_vars PROVE IInv' OBVIOUS
  <1>1. ASSUME NEW w \in Callers, Invoke(w) PROVE IInv'
    BY <1>1, InvokeIInv
  <1>2. ASSUME NEW w \in Callers, Statement(w) PROVE IInv'
    BY <1>2, ExecMoveIInv, ExecNoRowIInv, ExecInsertFlatIInv, ExecRejectedIInv,
       ExecInsertHouseIInv, ExecSelectIInv DEF Statement
  <1>3. ASSUME NEW w \in Callers, Finish(w) PROVE IInv'
    BY <1>3, CommitRowIInv, CommitHouseIInv, ReturnIInv DEF Finish
  <1>4. ASSUME NEW w \in Callers, Fail(w) PROVE IInv'
    BY <1>4, AbandonedIInv DEF Fail
  <1>5. ASSUME NEW w \in Callers, Crash(w) PROVE IInv'
    BY <1>5, AbandonedIInv DEF Crash
  <1>6. ASSUME NEW w \in Callers, Restart(w) PROVE IInv'
    BY <1>6, RestartIInv
  <1>7. ASSUME NEW f \in Flats, OrphanAbort(f) \/ OrphanCommit(f) PROVE IInv'
    BY <1>7, OrphanAbortIInv, OrphanCommitIInv
  <1>8. CASE UNCHANGED vars
    BY <1>8 DEF vars, IInv, TypeOK, LockInv, Wrote, AckInv, Winning, HouseInv,
                ShownStaysApproved, Lifecycle!Passed
  <1> QED BY <1>1, <1>2, <1>3, <1>4, <1>5, <1>6, <1>7, <1>8 DEF Next

\* The rows, the locks and the calls in progress stay consistent.
THEOREM Invariance == Spec => []IInv
  <1> QED BY InitIInv, NextIInv, PTL DEF Spec

\* Every variable keeps its type.
THEOREM TypeCorrect == Spec => []TypeOK
  <1>1. IInv => TypeOK
    BY DEF IInv
  <1> QED BY <1>1, Invariance, PTL

\* Whatever the number of processes and whichever of them fail or die at
\* whichever point, no two calls are told that they made the same change, and
\* no two verdicts on one flat are confirmed.
THEOREM OneWinner == Spec => []AtMostOneWinner
  <1>1. IInv => AtMostOneWinner
    <2> SUFFICES ASSUME IInv, NEW f \in Flats
                 PROVE  /\ \A s \in Moderated : acks[f][s] <= 1
                        /\ acks[f]["approved"] + acks[f]["declined"] <= 1
      BY DEF AtMostOneWinner
    <2>1. \A s \in Moderated : acks[f][s] \in {0, 1} /\ (acks[f][s] = 1 => Lifecycle!Passed(f, s))
      BY DEF IInv, AckInv
    <2>2. ~ (acks[f]["approved"] = 1 /\ acks[f]["declined"] = 1)
      BY <2>1 DEF Lifecycle!Passed
    <2> QED BY <2>1, <2>2
  <1> QED BY <1>1, Invariance, PTL

\* What a user was shown as approved is approved for ever.
THEOREM NoVerdictTakenBack == Spec => []ShownStaysApproved
  <1>1. IInv => ShownStaysApproved
    BY DEF IInv
  <1> QED BY <1>1, Invariance, PTL

\* No flat is without a house.
THEOREM HousedFlats == Spec => []FlatHasHouse
  <1>1. IInv => FlatHasHouse
    BY DEF IInv, HouseInv, FlatHasHouse
  <1> QED BY <1>1, Invariance, PTL

----------------------------------------------------------------------------

\* A commit, by the process or by the database alone, is one step of the life
\* of its flat.
LEMMA ApplyAdvances ==
  ASSUME IInv, NEW f \in Flats, lock[f] # "free", Apply(f), UNCHANGED acks
  PROVE  Lifecycle!Next
  <1>1. written[f] \in {"created"} \cup Moderated /\ status[f] = Lifecycle!Before(written[f])
    BY DEF IInv, TypeOK, LockInv
  <1>2. Lifecycle!Advance(f, written[f])
    BY <1>1 DEF Apply, Lifecycle!Advance
  <1> QED BY <1>1, <1>2 DEF Lifecycle!Next

\* A true answer acknowledges a change that is made, and does so first.
LEMMA ReturnAcknowledges ==
  ASSUME IInv, NEW w \in Callers, Return(w)
  PROVE  [Lifecycle!Next]_Lifecycle!vars
  <1> DEFINE c == call[w]
  <1>1. CASE c.op # "move"
    BY <1>1 DEF Return, rows, Lifecycle!vars
  <1>2. CASE c.op = "move"
    <2>1. c.flat \in Flats /\ c.to \in Moderated /\ Winning(w, c.flat, c.to)
      BY <1>2, CallShape DEF IInv, TypeOK, Return, Winning
    <2>2. Lifecycle!Passed(c.flat, c.to) /\ acks[c.flat][c.to] = 0
      BY <2>1 DEF IInv, AckInv
    <2>3. Lifecycle!Acknowledge(c.flat, c.to)
      BY <1>2, <2>1, <2>2 DEF Return, rows, IInv, TypeOK, Lifecycle!Acknowledge
    <2> QED BY <2>1, <2>3 DEF Lifecycle!Next
  <1> QED BY <1>1, <1>2

\* Each step of the processes and of the database is a step of FlatLifecycle, or
\* changes nothing that FlatLifecycle sees.
LEMMA StepRefines == IInv /\ [Next]_vars => [Lifecycle!Next]_Lifecycle!vars
  <1> SUFFICES ASSUME IInv, [Next]_vars PROVE [Lifecycle!Next]_Lifecycle!vars OBVIOUS
  <1>1. ASSUME NEW w \in Callers, Invoke(w) PROVE UNCHANGED Lifecycle!vars
    BY <1>1 DEF Invoke, takeFlat, UpdateFlatStatus, saveFlat, saveHouse, getFlatForHouseID,
                Begin, rows, Lifecycle!vars
  <1>2. ASSUME NEW w \in Callers, Statement(w) PROVE UNCHANGED Lifecycle!vars
    BY <1>2 DEF Statement, ExecMove, ExecNoRow, ExecInsertFlat, ExecRejected, ExecInsertHouse,
                ExecSelect, rows, Lifecycle!vars
  <1>3. ASSUME NEW w \in Callers, CommitRow(w) PROVE Lifecycle!Next
    BY <1>3, CallersAssumption, ApplyAdvances DEF CommitRow
  <1>4. ASSUME NEW w \in Callers, CommitHouse(w) PROVE UNCHANGED Lifecycle!vars
    BY <1>4 DEF CommitHouse, Lifecycle!vars
  <1>5. ASSUME NEW w \in Callers, Return(w) PROVE [Lifecycle!Next]_Lifecycle!vars
    BY <1>5, ReturnAcknowledges
  <1>6. ASSUME NEW w \in Callers, Fail(w) \/ Crash(w) \/ Restart(w) PROVE UNCHANGED Lifecycle!vars
    BY <1>6 DEF Fail, Crash, Restart, rows, Lifecycle!vars
  <1>7. ASSUME NEW f \in Flats, OrphanAbort(f) PROVE UNCHANGED Lifecycle!vars
    BY <1>7 DEF OrphanAbort, Lifecycle!vars
  <1>8. ASSUME NEW f \in Flats, OrphanCommit(f) PROVE Lifecycle!Next
    BY <1>8, ApplyAdvances DEF OrphanCommit
  <1>9. CASE UNCHANGED vars
    BY <1>9 DEF vars, Lifecycle!vars
  <1> QED BY <1>1, <1>2, <1>3, <1>4, <1>5, <1>6, <1>7, <1>8, <1>9 DEF Next, Finish

\* The repositories implement FlatLifecycle: through failures, crashes and commits
\* in doubt, a flat lives the life that the abstract specification gives it.
THEOREM Refinement == Spec => ImplementsLifecycle
  <1>1. Init => Lifecycle!Init
    BY DEF Init, Lifecycle!Init
  <1> QED BY <1>1, Invariance, StepRefines, PTL DEF Spec, ImplementsLifecycle, Lifecycle!Spec

============================================================================
