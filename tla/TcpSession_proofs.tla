------------------------- MODULE TcpSession_proofs -------------------------
(***************************************************************************)
(* For whom a session of the line protocol acts, for every number of       *)
(* connections, logins and lines that wait.                                *)
(***************************************************************************)
EXTENDS TcpSession, SequenceTheorems, TLAPS

\* The part of the type invariant that is about lines, kept by whatever
\* leaves the inboxes alone.
Lines == /\ inbox    \in [Sessions -> Seq(Beginnings)]
         /\ buffered \in [Sessions -> Nat]
         /\ \A s \in Sessions : buffered[s] <= Len(inbox[s])

----------------------------------------------------------------------------
(***************************************************************************)
(* What is read of a role.                                                 *)
(***************************************************************************)

LEMMA WithoutShape ==
  ASSUME NEW S, NEW r \in Seq(S), NEW c
  PROVE  Without(r, c) \in Seq(S) /\ r \in {Without(r, c), Append(Without(r, c), c)}
  <1>1. CASE r # <<>> /\ r[Len(r)] = c
    <2>0. Len(r) \in Nat \ {0}
      BY <1>1, EmptySeq
    <2> DEFINE q == SubSeq(r, 1, Len(r) - 1)
    <2>1. q \in Seq(S) /\ Len(q) = Len(r) - 1 /\ (\A i \in 1..Len(q) : q[i] = r[i])
      <3>1. \A i \in 1..Len(r) - 1 : r[i] \in S
        BY <2>0, ElementOfSeq
      <3>2. 1 \in Int /\ Len(r) - 1 \in Int
        BY <2>0
      <3> DEFINE n == Len(r) - 1
      <3> HIDE DEF n
      <3>3. /\ SubSeq(r, 1, n) \in Seq(S)
            /\ Len(SubSeq(r, 1, n)) = IF 1 <= n THEN n - 1 + 1 ELSE 0
            /\ \A i \in 1..n - 1 + 1 : SubSeq(r, 1, n)[i] = r[1 + i - 1]
        BY <3>1, <3>2, SubSeqProperties DEF n
      <3>4. n \in Nat
        BY <2>0 DEF n
      <3>5. Len(SubSeq(r, 1, n)) = n
        BY <3>3, <3>4
      <3>6. \A i \in 1..n : SubSeq(r, 1, n)[i] = r[i]
        <4> SUFFICES ASSUME NEW i \in 1..n PROVE SubSeq(r, 1, n)[i] = r[i]
          OBVIOUS
        <4>1. i \in 1..n - 1 + 1 /\ 1 + i - 1 = i
          BY <3>4
        <4> QED BY <3>3, <4>1
      <3> QED BY <3>3, <3>5, <3>6 DEF n
    <2>2. Append(q, c) = r
      <3>1. Append(q, c) \in Seq(S) /\ Len(Append(q, c)) = Len(r)
        BY <1>1, <2>0, <2>1
      <3>2. ASSUME NEW i \in 1..Len(r) PROVE Append(q, c)[i] = r[i]
        BY <1>1, <2>0, <2>1
      <3> QED BY <3>1, <3>2, SeqEqual
    <2> QED BY <1>1, <2>1, <2>2 DEF Without
  <1>2. CASE ~ (r # <<>> /\ r[Len(r)] = c)
    BY <1>2 DEF Without
  <1> QED BY <1>1, <1>2

\* It is a role, or at least not the absence of one; and who is read as a moderator is
\* in the table as one, but for a line end.
LEMMA StrippedShape ==
  ASSUME NEW r \in Roles
  PROVE  /\ Stripped(r) \in Seq(STRING) /\ Stripped(r) # NoRow /\ r # NoRow
         /\ Stripped(r) = Moderator => r \in AreModerators
  <1> DEFINE Word == STRING \ {"none"}
             q == Without(r, LF)
  <1>1. r \in Seq(Word)
    BY TcpAssumption
  <1>2. q \in Seq(Word) /\ r \in {q, Append(q, LF)}
    BY <1>1, WithoutShape
  <1>3. Without(q, CR) \in Seq(Word) /\ q \in {Without(q, CR), Append(Without(q, CR), CR)}
    BY <1>2, WithoutShape
  <1>4. NoRow \notin Seq(Word)
    <2>1. Len(NoRow) = 1 /\ NoRow[1] = "none"
      BY DEF NoRow
    <2> QED BY <2>1
  <1>5. Stripped(r) = Without(q, CR)
    BY DEF Stripped
  <1>6. Stripped(r) = Moderator => r \in AreModerators
    BY <1>2, <1>3, <1>5 DEF AreModerators
  <1>7. Stripped(r) \in Seq(STRING)
    BY <1>3, <1>5
  <1> QED BY <1>1, <1>3, <1>4, <1>5, <1>6, <1>7

----------------------------------------------------------------------------

\* The rest of the type invariant.
People == /\ users   \in [Logins -> Roles \cup {NoRow}]
          /\ conn    \in [Sessions -> {"off", "open", "eof", "quit"}]
          /\ autorized \subseteq Sessions
          /\ session \in [Sessions -> [login : Logins \cup {"none"}, role : Seq(STRING)]]
          /\ proof   \in [Sessions -> Logins \cup {"none"}]

Recorded == last \in [session : Sessions \cup {"none"}, cmd : Cmds, token : Tokens, reply : Replies]

LEMMA TypeParts == TypeOK <=> Lines /\ People /\ Recorded
  BY DEF TypeOK, Lines, People, Recorded

\* A reply is recorded as one.
LEMMA ReplyType ==
  ASSUME NEW s \in Sessions, NEW c \in Cmds, NEW token \in Tokens, NEW text \in Replies,
         Reply(s, c, token, text)
  PROVE  Recorded'
  BY DEF Reply, Recorded

LEMMA SilentType == last' = Silent => Recorded'
  <1>1. "none" \in Cmds /\ "" \in Tokens /\ "none" \in Replies
    BY DEF Cmds, Tokens, Replies
  <1>2. Silent \in [session : Sessions \cup {"none"}, cmd : Cmds, token : Tokens, reply : Replies]
    BY <1>1 DEF Silent
  <1> QED BY <1>2 DEF Recorded

\* Every command records what became of it.
LEMMA CommandRecords ==
  ASSUME NEW s \in Sessions, NEW b, execute_command(s, b)
  PROVE  Recorded'
  <1>1. "" \in Tokens /\ {"ok", "error", "refused", "malformed", "none"} \subseteq Replies
    BY DEF Tokens, Replies
  <1>2. /\ {"/login", "/register", "/quit", "/commands", "unknown"} \subseteq Cmds
        /\ Protected \subseteq Cmds
    BY DEF Cmds
  <1>3. PICK c \in Cmds, token \in Tokens, text \in Replies : Reply(s, c, token, text)
    <2>1. CASE Unknown(s)
      BY <1>1, <1>2, <2>1 DEF Unknown
    <2>2. CASE Malformed(s)
      BY <1>1, <1>2, <2>2 DEF Malformed
    <2>3. CASE Login(s)
      BY <1>1, <1>2, <2>3 DEF Login
    <2>4. CASE Register(s)
      BY <1>1, <1>2, <2>4 DEF Register
    <2>5. CASE Guarded(s)
      BY <1>1, <1>2, <2>5 DEF Guarded
    <2>6. CASE Quit(s)
      BY <1>1, <1>2, <2>6 DEF Quit
    <2>7. CASE Commands(s)
      BY <1>1, <1>2, <2>7 DEF Commands
    <2> QED BY <2>1, <2>2, <2>3, <2>4, <2>5, <2>6, <2>7 DEF execute_command
  <1> QED BY <1>3, ReplyType

LEMMA NobodyType ==
  Nobody \in [login : Logins \cup {"none"}, role : Seq(STRING)]
  BY DEF Nobody

\* What becomes of a line is a sequence of at most one beginning.
LEMMA BeheadShape ==
  ASSUME NEW b \in Beginnings, NEW c \in Behead(b)
  PROVE  c \in Seq(Beginnings) /\ Len(c) \in {0, 1} /\ (c # <<>> => Len(c) = 1)
  <1>1. CASE b = "stray"
    <2>1. c = <<"command">>
      BY <1>1 DEF Behead
    <2> QED BY <2>1 DEF Beginnings
  <1>2. CASE b = "command"
    <2>1. c = <<"headless">>
      BY <1>2 DEF Behead
    <2> QED BY <2>1 DEF Beginnings
  <1>3. CASE b = "headless"
    <2>1. c = <<"headless">> \/ c = <<"blank">>
      BY <1>3 DEF Behead
    <2>2. <<"headless">> \in Seq(Beginnings) /\ Len(<<"headless">>) = 1
      BY DEF Beginnings
    <2>3. <<"blank">> \in Seq(Beginnings) /\ Len(<<"blank">>) = 1
      BY DEF Beginnings
    <2> QED BY <2>1, <2>2, <2>3
  <1>4. CASE b = "blank"
    <2>1. c = <<>> \/ c = <<"blank">>
      BY <1>4 DEF Behead
    <2>2. <<>> \in Seq(Beginnings) /\ Len(<<>>) = 0
      BY EmptySeq
    <2>3. <<"blank">> \in Seq(Beginnings) /\ Len(<<"blank">>) = 1
      BY DEF Beginnings
    <2> QED BY <2>1, <2>2, <2>3
  <1> QED BY <1>1, <1>2, <1>3, <1>4 DEF Beginnings

\* Taking a line out of responce leaves lines, and no more of them whole than there are.
LEMMA EraseLines ==
  ASSUME Lines, NEW s \in Sessions, buffered[s] > 0, Erase(s)
  PROVE  Lines'
  <1> DEFINE box == inbox[s]
             rest == Tail(box)
  <1>1. box \in Seq(Beginnings) /\ buffered[s] \in Nat /\ buffered[s] <= Len(box)
    BY DEF Lines
  <1>2. box # <<>> /\ rest \in Seq(Beginnings) /\ Len(rest) = Len(box) - 1
    BY <1>1
  <1>3. CASE /\ buffered[s] = 1
             /\ inbox'    = [inbox EXCEPT ![s] = rest]
             /\ buffered' = [buffered EXCEPT ![s] = 0]
    BY <1>2, <1>3 DEF Lines
  <1>4. CASE /\ rest # <<>>
             /\ \E b \in Behead(Head(rest)) :
                  /\ buffered[s] = 1 => b # <<>>
                  /\ inbox'    = [inbox EXCEPT ![s] = b \o Tail(rest)]
                  /\ buffered' = [buffered EXCEPT ![s] = @ - 1 - (1 - Len(b))]
    <2>1. PICK b \in Behead(Head(rest)) :
                  /\ buffered[s] = 1 => b # <<>>
                  /\ inbox'    = [inbox EXCEPT ![s] = b \o Tail(rest)]
                  /\ buffered' = [buffered EXCEPT ![s] = @ - 1 - (1 - Len(b))]
      BY <1>4
    <2>2. Head(rest) \in Beginnings /\ Tail(rest) \in Seq(Beginnings) /\ Len(Tail(rest)) = Len(rest) - 1
      BY <1>2, <1>4
    <2>3. b \in Seq(Beginnings) /\ Len(b) \in {0, 1} /\ (b # <<>> => Len(b) = 1)
      BY <2>2, BeheadShape
    <2> DEFINE n == buffered[s] - 1 - (1 - Len(b))
               after == b \o Tail(rest)
    <2>4. after \in Seq(Beginnings) /\ Len(after) = Len(b) + Len(rest) - 1
      BY <2>2, <2>3
    <2>5. n \in Nat /\ n <= Len(after)
      <3> DEFINE k == buffered[s]
                 m == Len(box)
                 e == Len(b)
      <3>1. k \in Nat /\ m \in Nat /\ k <= m /\ k > 0
        BY <1>1
      <3>2. e \in {0, 1} /\ (k = 1 => e = 1)
        BY <2>1, <2>3
      <3>3. Len(after) = e + (m - 1) - 1
        BY <1>2, <2>4
      <3> HIDE DEF k, m, e, after
      <3>4. k - 1 - (1 - e) \in Nat /\ k - 1 - (1 - e) <= e + (m - 1) - 1
        BY <3>1, <3>2
      <3> QED BY <3>3, <3>4 DEF k, e
    <2> HIDE DEF n, after
    <2>6. inbox' = [inbox EXCEPT ![s] = after] /\ buffered' = [buffered EXCEPT ![s] = n]
      BY <2>1 DEF n, after
    <2> QED BY <2>4, <2>5, <2>6 DEF Lines
  <1> QED BY <1>3, <1>4 DEF Erase

\* A row of another login changes nobody's role.
LEMMA InsertKeeps ==
  ASSUME People, RoleIsCurrent, NEW l \in Logins, NEW r \in Roles, Insert(l, r),
         UNCHANGED <<conn, autorized, session, proof>>
  PROVE  People' /\ RoleIsCurrent'
  <1>1. People'
    BY DEF Insert, People
  <1>2. ASSUME NEW s \in Sessions, s \in autorized, conn[s] # "off"
        PROVE  users'[proof[s]] = users[proof[s]]
    <2>1. proof[s] \in Logins /\ users[proof[s]] # NoRow
      BY <1>2 DEF People, RoleIsCurrent
    <2> QED BY <2>1 DEF Insert, People
  <1> QED BY <1>1, <1>2 DEF RoleIsCurrent

\* A command leaves its session acting for whoever gave his password last.
LEMMA CommandKeeps ==
  ASSUME People, RoleIsCurrent, NEW s \in Sessions, NEW b, execute_command(s, b), conn[s] # "off"
  PROVE  People' /\ RoleIsCurrent'
  <1>1. CASE Unknown(s)
    BY <1>1 DEF Unknown, NoChange, People, RoleIsCurrent
  <1>2. CASE Malformed(s)
    BY <1>2 DEF Malformed, NoChange, People, RoleIsCurrent
  <1>3. CASE Login(s)
    <2>1. ASSUME NEW l \in Logins, users[l] # NoRow, autorize(s, l, Stripped(users[l])),
                 proof' = [proof EXCEPT ![s] = l], Reply(s, "/login", "", "ok"),
                 UNCHANGED <<users, conn>>
          PROVE  People' /\ RoleIsCurrent'
      <3> DEFINE role == Stripped(users[l])
      <3>1. role \in Seq(STRING)
        BY <2>1, StrippedShape DEF People
      <3> HIDE DEF role
      <3>2. People'
        BY <2>1, <3>1 DEF autorize, People, role
      <3>3. session' = [session EXCEPT ![s] = [login |-> l, role |-> role]]
        BY <2>1 DEF autorize, role
      <3>4. ASSUME NEW t \in Sessions, t # s, conn'[t] # "off"
            PROVE  /\ session'[t].login = proof'[t]
                   /\ t \in autorized' <=> proof'[t] # "none"
                   /\ t \in autorized' => /\ users'[proof'[t]] # NoRow
                                         /\ session'[t].role = Stripped(users'[proof'[t]])
        BY <2>1, <3>4 DEF autorize, People, RoleIsCurrent
      <3>5. /\ session'[s].login = proof'[s] /\ s \in autorized' /\ proof'[s] = l /\ l # "none"
            /\ session'[s].role = Stripped(users'[proof'[s]]) /\ users'[proof'[s]] # NoRow
        <4>1. session'[s] = [login |-> l, role |-> role]
          BY <3>3 DEF People
        <4>2. proof'[s] = l /\ users' = users /\ l # "none" /\ users[l] # NoRow
          BY <2>1, TcpAssumption DEF People
        <4>3. s \in autorized'
          BY <2>1 DEF autorize
        <4> QED BY <4>1, <4>2, <4>3 DEF role
      <3> QED BY <3>2, <3>4, <3>5 DEF RoleIsCurrent
    <2>2. ASSUME Reply(s, "/login", "", "error"), NoChange
          PROVE  People' /\ RoleIsCurrent'
      BY <2>2 DEF NoChange, People, RoleIsCurrent
    <2> QED BY <1>3, <2>1, <2>2 DEF Login
  <1>4. CASE Register(s)
    <2>1. CASE UNCHANGED users
      BY <1>4, <2>1 DEF Register, People, RoleIsCurrent
    <2>2. ASSUME NEW l \in Logins, NEW r \in Roles, Insert(l, r) PROVE People' /\ RoleIsCurrent'
      BY <1>4, <2>2, InsertKeeps DEF Register
    <2> QED BY <1>4, <2>1, <2>2 DEF Register
  <1>5. CASE Guarded(s)
    BY <1>5 DEF Guarded, NoChange, People, RoleIsCurrent
  <1>6. CASE Quit(s)
    BY <1>6, NobodyType DEF Quit, logout, Nobody, People, RoleIsCurrent
  <1>7. CASE Commands(s)
    BY <1>7 DEF Commands, NoChange, People, RoleIsCurrent
  <1> QED BY <1>1, <1>2, <1>3, <1>4, <1>5, <1>6, <1>7 DEF execute_command

LEMMA InitIInv == Init => IInv
  <1> SUFFICES ASSUME Init PROVE IInv
    OBVIOUS
  <1>1. Lines
    BY EmptySeq DEF Init, Lines
  <1>2. People
    BY NobodyType DEF Init, People
  <1>3. "none" \in Cmds /\ "" \in Tokens /\ "none" \in Replies
    BY DEF Cmds, Tokens, Replies
  <1>4. Recorded
    BY <1>3 DEF Init, Silent, Recorded
  <1>5. RoleIsCurrent
    BY DEF Init, RoleIsCurrent
  <1> QED BY <1>1, <1>2, <1>4, <1>5, TypeParts DEF IInv

\* Every step keeps the invariant.
LEMMA NextIInv == IInv /\ [Next]_vars => IInv'
  <1> SUFFICES ASSUME IInv, [Next]_vars PROVE IInv' OBVIOUS
  <1>0. Lines /\ People /\ Recorded /\ RoleIsCurrent
    BY TypeParts DEF IInv
  <1>1. ASSUME NEW s \in Sessions, Connect(s) PROVE Lines' /\ People' /\ RoleIsCurrent'
    <2>1. Lines'
      BY <1>0, <1>1 DEF Connect, Lines
    <2>2. People'
      BY <1>0, <1>1, NobodyType DEF Connect, People
    <2>3. RoleIsCurrent'
      BY <1>0, <1>1 DEF Connect, People, RoleIsCurrent, Nobody
    <2> QED BY <2>1, <2>2, <2>3
  <1>2. ASSUME NEW s \in Sessions, SendLine(s) PROVE Lines' /\ People' /\ RoleIsCurrent'
    <2>1. PICK b \in Beginnings : inbox' = [inbox EXCEPT ![s] = Append(@, b)]
      BY <1>2 DEF SendLine
    <2>2. Append(inbox[s], b) \in Seq(Beginnings) /\ Len(Append(inbox[s], b)) = Len(inbox[s]) + 1
      BY <1>0 DEF Lines
    <2>3. Lines'
      BY <1>0, <1>2, <2>1, <2>2 DEF SendLine, Lines
    <2> QED BY <1>0, <1>2, <2>3 DEF SendLine, People, RoleIsCurrent
  <1>3. ASSUME NEW s \in Sessions, HangUp(s) PROVE Lines' /\ People' /\ RoleIsCurrent'
    BY <1>0, <1>3 DEF HangUp, Lines, People, RoleIsCurrent
  <1>4. ASSUME NEW s \in Sessions, Receive(s) PROVE Lines' /\ People' /\ RoleIsCurrent'
    BY <1>0, <1>4 DEF Receive, Lines, People, RoleIsCurrent
  <1>5. ASSUME NEW s \in Sessions, ReadFails(s) PROVE Lines' /\ People' /\ RoleIsCurrent'
    BY <1>0, <1>5 DEF ReadFails, Lines, People, RoleIsCurrent
  <1>6. ASSUME NEW s \in Sessions, RunLine(s) PROVE Lines' /\ People' /\ RoleIsCurrent'
    BY <1>0, <1>6, EraseLines, CommandKeeps DEF RunLine
  <1>7. ASSUME Die PROVE Lines' /\ People' /\ RoleIsCurrent'
    <2>1. Lines'
      BY <1>0, <1>7 DEF Die, Lines
    <2>2. People'
      BY <1>0, <1>7 DEF Die, People
    <2>3. RoleIsCurrent'
      BY <1>7 DEF Die, RoleIsCurrent
    <2> QED BY <2>1, <2>2, <2>3
  <1>8. ASSUME RegisterElsewhere PROVE Lines' /\ People' /\ RoleIsCurrent'
    BY <1>0, <1>8, InsertKeeps DEF RegisterElsewhere, Lines
  <1>9. ASSUME UNCHANGED vars PROVE Lines' /\ People' /\ RoleIsCurrent'
    <2>1. Lines'
      BY <1>0, <1>9 DEF vars, Lines
    <2>2. People' /\ RoleIsCurrent'
      BY <1>0, <1>9 DEF vars, People, RoleIsCurrent
    <2> QED BY <2>1, <2>2
  <1>10. Lines' /\ People' /\ RoleIsCurrent'
    <2>1. ASSUME NEW s \in Sessions, Connect(s) \/ SendLine(s) \/ HangUp(s)
          PROVE  Lines' /\ People' /\ RoleIsCurrent'
      BY <2>1, <1>1, <1>2, <1>3
    <2>2. ASSUME NEW s \in Sessions, Receive(s) \/ ReadFails(s) \/ RunLine(s)
          PROVE  Lines' /\ People' /\ RoleIsCurrent'
      BY <2>2, <1>4, <1>5, <1>6
    <2> QED BY <2>1, <2>2, <1>7, <1>8, <1>9 DEF Next
  <1>11. Recorded'
    <2>1. CASE last' = Silent
      BY <2>1, SilentType
    <2>2. CASE UNCHANGED last
      BY <1>0, <2>2 DEF Recorded
    <2>3. ASSUME NEW s \in Sessions, RunLine(s) PROVE Recorded'
      BY <2>3, CommandRecords DEF RunLine
    <2> QED BY <2>1, <2>2, <2>3
            DEF Next, vars, Connect, SendLine, HangUp, Receive, ReadFails, Die, RegisterElsewhere
  <1> QED BY <1>10, <1>11 DEF IInv, TypeOK, Lines, People, Recorded

\* The invariant that the theorems rest on.
THEOREM Invariance == Spec => []IInv
  <1> QED BY InitIInv, NextIInv, PTL DEF Spec

\* A session acts under the role of whoever gave his password last on it.
THEOREM ActsForItsUser == Spec => []RoleIsCurrent
  <1>1. IInv => RoleIsCurrent
    BY DEF IInv
  <1> QED BY <1>1, Invariance, PTL

\* A repository is called for moderation only where the role of the session allows it.
LEMMA GuardedByRole ==
  ASSUME IInv, NEW s \in Sessions, conn[s] # "off", Guarded(s),
         last'.cmd \in Moderation, last'.reply \in {"ok", "error"}
  PROVE  proof[s] # "none" /\ users[proof[s]] \in AreModerators
  <1>1. PICK c \in Protected, token \in Tokens :
          \/ Permits(s, c, token) /\ last' = [session |-> s, cmd |-> c, token |-> token, reply |-> "ok"]
          \/ Permits(s, c, token) /\ last' = [session |-> s, cmd |-> c, token |-> token, reply |-> "error"]
          \/ last' = [session |-> s, cmd |-> c, token |-> token, reply |-> "refused"]
    BY DEF Guarded, Reply
  <1>2. c \in Moderation /\ Permits(s, c, token)
    BY <1>1
  <1>3. /\ proof[s] # "none" /\ users[proof[s]] # NoRow /\ Stripped(users[proof[s]]) = Moderator
    BY <1>2 DEF Permits, IInv, RoleIsCurrent
  <1>4. users[proof[s]] \in Roles
    BY <1>3 DEF IInv, TypeOK
  <1> QED BY <1>3, <1>4, StrippedShape

\* Only a moderator who has logged in on a connection moderates on it.
THEOREM Moderators == Spec => []OnlyModeratorsModerate
  <1> USE DEF OnlyModeratorsModerate
  <1>1. Init => OnlyModeratorsModerate
    <2>1. Silent.cmd = "none"
      BY DEF Silent
    <2> QED BY <2>1 DEF Init, Moderation
  <1>2. IInv /\ OnlyModeratorsModerate /\ [Next]_vars => OnlyModeratorsModerate'
    <2> SUFFICES ASSUME IInv, OnlyModeratorsModerate, [Next]_vars PROVE OnlyModeratorsModerate'
      OBVIOUS
    <2>1. CASE last' = Silent
      BY <2>1 DEF Silent, Moderation
    <2>2. CASE UNCHANGED <<last, proof, users>>
      BY <2>2
    <2>3. CASE RegisterElsewhere
      <3>1. PICK l \in Logins, r \in Roles : users[l] = NoRow /\ users' = [users EXCEPT ![l] = r]
        BY <2>3 DEF RegisterElsewhere, Insert
      <3>2. UNCHANGED <<last, proof>>
        BY <2>3 DEF RegisterElsewhere
      <3>3. ASSUME last.cmd \in Moderation, last.reply \in {"ok", "error"}
            PROVE  proof[last.session] # "none" /\ users'[proof[last.session]] \in AreModerators
        <4>1. proof[last.session] # "none" /\ users[proof[last.session]] \in AreModerators
          BY <3>3
        <4>2. NoRow \notin AreModerators
          BY DEF NoRow, AreModerators, Moderator, LF, CR
        <4>3. proof[last.session] # l
          BY <3>1, <4>1, <4>2
        <4> QED BY <3>1, <4>1, <4>3 DEF IInv, TypeOK
      <3> QED BY <3>2, <3>3
    <2>4. ASSUME NEW s \in Sessions, RunLine(s) PROVE OnlyModeratorsModerate'
      <3>1. CASE Guarded(s)
        <4>1. last'.session = s /\ UNCHANGED <<proof, users>>
          BY <3>1 DEF Guarded, Reply, NoChange
        <4> QED BY <2>4, <3>1, <4>1, GuardedByRole DEF RunLine
      <3>2. CASE Unknown(s) \/ Malformed(s) \/ Login(s) \/ Register(s) \/ Quit(s) \/ Commands(s)
        <4>1. CASE Malformed(s)
          <5>1. last'.reply \in {"malformed", "none"}
            <6>1. \A c, token, text : Reply(s, c, token, text) => last'.reply = text
              BY DEF Reply
            <6> QED BY <4>1, <6>1 DEF Malformed
          <5> QED BY <5>1
        <4>2. CASE ~ Malformed(s)
          <5>1. last'.cmd \in {"unknown", "/login", "/register", "/quit", "/commands"}
            <6>1. \A c, token, text : Reply(s, c, token, text) => last'.cmd = c
              BY DEF Reply
            <6> QED BY <3>2, <4>2, <6>1 DEF Unknown, Login, Register, Quit, Commands
          <5> QED BY <5>1 DEF Moderation
        <4> QED BY <4>1, <4>2
      <3> QED BY <2>4, <3>1, <3>2 DEF RunLine, execute_command
    <2> QED BY <2>1, <2>2, <2>3, <2>4
            DEF Next, vars, Connect, SendLine, HangUp, Receive, ReadFails, Die
  <1> QED BY <1>1, <1>2, Invariance, PTL DEF Spec

----------------------------------------------------------------------------
(***************************************************************************)
(* The sessions implement AccessControl: every step of theirs is one of    *)
(* its steps, or changes neither who acts nor what is granted.             *)
(***************************************************************************)

Allowed == Access!Next \/ UNCHANGED <<RoleRead, Actor, Granted>>

\* A registration is read as one.
LEMMA InsertRead ==
  ASSUME IInv, NEW l \in Logins, NEW r \in Roles, Insert(l, r)
  PROVE  /\ RoleRead[l] = NoRow
         /\ RoleRead' = [RoleRead EXCEPT ![l] = Stripped(r)]
  <1>1. users[l] = NoRow /\ users' = [users EXCEPT ![l] = r] /\ users \in [Logins -> Roles \cup {NoRow}]
    BY DEF Insert, IInv, TypeOK
  <1>2. r # NoRow
    BY StrippedShape
  <1> QED BY <1>1, <1>2 DEF RoleRead

\* Whoever has a row has a role that is read.
LEMMA RowRead ==
  ASSUME IInv
  PROVE  /\ RoleRead \in [Logins -> {Stripped(r) : r \in Roles} \cup {NoRow}]
         /\ \A l \in Logins : users[l] # NoRow => RoleRead[l] # NoRow /\ RoleRead[l] = Stripped(users[l])
  <1>1. users \in [Logins -> Roles \cup {NoRow}]
    BY DEF IInv, TypeOK
  <1>2. ASSUME NEW l \in Logins, users[l] # NoRow PROVE Stripped(users[l]) # NoRow
    BY <1>1, <1>2, StrippedShape
  <1> QED BY <1>1, <1>2 DEF RoleRead

LEMMA ActorType == IInv => /\ Actor \in [Sessions -> Logins \cup {"none"}]
                           /\ \A s \in Sessions : conn[s] # "off" => Actor[s] = proof[s]
  BY DEF IInv, TypeOK, Actor

LEMMA NothingGranted ==
  ASSUME last'.cmd \notin Protected \/ last'.reply \notin {"ok", "error"}
  PROVE  Granted' = Access!Nothing
  BY DEF Granted, Access!Nothing

LEMMA SilentGrantsNothing == last' = Silent => Granted' = Access!Nothing
  <1>1. Silent.cmd = "none" /\ "none" \notin Protected
    BY DEF Silent, Protected, Moderation
  <1> QED BY <1>1, NothingGranted

\* Nobody comes or goes, and nothing is granted.
LEMMA Refused ==
  ASSUME UNCHANGED <<users, conn, proof>>, Granted' = Access!Nothing
  PROVE  Allowed
  <1>1. Actor' = Actor /\ RoleRead' = RoleRead
    BY DEF Actor, RoleRead
  <1> QED BY <1>1, Zenon DEF Allowed, Access!Next, Access!Refuse

\* A session ends, or its user quits.
LEMMA LeavesAllowed ==
  ASSUME IInv, NEW s \in Sessions, UNCHANGED users, Granted' = Access!Nothing,
         \/ conn' = [conn EXCEPT ![s] = "off"] /\ proof' = proof
         \/ conn' = [conn EXCEPT ![s] = "quit"] /\ proof' = [proof EXCEPT ![s] = "none"]
  PROVE  Allowed
  <1>1. conn \in [Sessions -> {"off", "open", "eof", "quit"}] /\ proof \in [Sessions -> Logins \cup {"none"}]
    BY DEF IInv, TypeOK
  <1>2. Actor' = [Actor EXCEPT ![s] = "none"]
    <2>1. Actor' \in [Sessions -> {proof'[t] : t \in Sessions} \cup {"none"}] /\ Actor \in [Sessions -> Logins \cup {"none"}]
      BY <1>1 DEF Actor
    <2>2. ASSUME NEW t \in Sessions PROVE Actor'[t] = [Actor EXCEPT ![s] = "none"][t]
      BY <1>1, <2>1 DEF Actor
    <2>3. DOMAIN Actor' = Sessions /\ DOMAIN [Actor EXCEPT ![s] = "none"] = Sessions
      BY <2>1
    <2> QED BY <2>2, <2>3 DEF Actor
  <1>3. RoleRead' = RoleRead
    BY DEF RoleRead
  <1>4. Access!LogOut(s)
    BY <1>2, <1>3 DEF Access!LogOut
  <1> QED BY <1>4 DEF Allowed, Access!Next

\* A row is inserted, by a session or by another process.
LEMMA InsertAllowed ==
  ASSUME IInv, NEW l \in Logins, NEW r \in Roles, Insert(l, r), UNCHANGED <<conn, proof>>,
         Granted' \in {Granted, Access!Nothing}
  PROVE  Allowed
  <1>1. Actor' = Actor
    BY DEF Actor
  <1>2. Access!Register(l, Stripped(r))
    BY <1>1, InsertRead DEF Access!Register
  <1>3. Stripped(r) \in {Stripped(q) : q \in Roles}
    OBVIOUS
  <1> QED BY <1>2, <1>3 DEF Allowed, Access!Next

LEMMA LoginAllowed ==
  ASSUME IInv, NEW s \in Sessions, conn[s] # "off", Login(s)
  PROVE  Allowed
  <1>1. Granted' = Access!Nothing
    <2>1. last'.cmd = "/login"
      <3>1. \A c, token, text : Reply(s, c, token, text) => last'.cmd = c
        BY DEF Reply
      <3> QED BY <3>1 DEF Login
    <2>2. "/login" \notin Protected
      BY DEF Protected, Moderation
    <2> QED BY <2>1, <2>2, NothingGranted
  <1>2. CASE UNCHANGED <<users, conn, proof>>
    BY <1>1, <1>2, Refused
  <1>3. ASSUME NEW l \in Logins, users[l] # NoRow, proof' = [proof EXCEPT ![s] = l], UNCHANGED <<users, conn>>
        PROVE  Allowed
    <2>1. conn \in [Sessions -> {"off", "open", "eof", "quit"}] /\ proof \in [Sessions -> Logins \cup {"none"}]
      BY DEF IInv, TypeOK
    <2>2. Actor' = [Actor EXCEPT ![s] = l]
      BY <1>3, <2>1 DEF Actor
    <2>3. RoleRead[l] # NoRow /\ RoleRead' = RoleRead
      BY <1>3, RowRead DEF RoleRead
    <2>4. Access!LogIn(s, l)
      BY <1>1, <2>2, <2>3 DEF Access!LogIn
    <2> QED BY <2>4 DEF Allowed, Access!Next
  <1> QED BY <1>2, <1>3 DEF Login, NoChange

\* Whatever Guarded grants is granted to the one the session acts for, who has the
\* role that it takes.
LEMMA GuardedAllowed ==
  ASSUME IInv, NEW s \in Sessions, conn[s] # "off", Guarded(s)
  PROVE  Allowed
  <1>1. PICK c \in Protected, token \in Tokens, text \in {"ok", "error", "refused"} :
          /\ last' = [session |-> s, cmd |-> c, token |-> token, reply |-> text]
          /\ text # "refused" => Permits(s, c, token)
    BY DEF Guarded, Reply
  <1>2. UNCHANGED <<users, conn, proof>>
    BY DEF Guarded, NoChange
  <1>3. CASE text = "refused"
    BY <1>1, <1>2, <1>3, NothingGranted, Refused
  <1>4. CASE text # "refused"
    <2>1. /\ s \in autorized
          /\ c \in Moderation => session[s].role = Moderator
      BY <1>1, <1>4 DEF Permits
    <2>2. /\ proof[s] # "none" /\ proof[s] \in Logins /\ users[proof[s]] # NoRow
          /\ c \in Moderation => Stripped(users[proof[s]]) = Moderator
      BY <2>1 DEF IInv, TypeOK, RoleIsCurrent
    <2>3. Actor' = Actor /\ RoleRead' = RoleRead
      BY <1>2 DEF Actor, RoleRead
    <2>4. Granted' = Access!Grant(s, c \in Moderation)
      BY <1>1, <1>4 DEF Granted, Access!Grant
    <2>5. Actor[s] # "none" /\ (c \in Moderation => RoleRead[Actor[s]] = Moderator)
      BY <2>2, ActorType, RowRead
    <2>6. CASE c \in Moderation
      <3>1. Granted' = Access!Grant(s, TRUE)
        BY <2>4, <2>6 DEF Access!Grant
      <3>2. Access!Act(s, TRUE)
        BY <1>2, <2>3, <2>5, <2>6, <3>1 DEF Access!Act
      <3> QED BY <3>2 DEF Allowed, Access!Next
    <2>7. CASE c \notin Moderation
      <3>1. (c \in Moderation) = FALSE
        BY <2>7
      <3>2. Granted' = Access!Grant(s, FALSE)
        BY <2>4, <3>1, Zenon
      <3>3. Access!Act(s, FALSE)
        BY <1>2, <2>3, <2>5, <2>7, <3>2 DEF Access!Act
      <3> QED BY <3>3 DEF Allowed, Access!Next
    <2> QED BY <2>6, <2>7
  <1> QED BY <1>3, <1>4

LEMMA CommandAllowed ==
  ASSUME IInv, NEW s \in Sessions, conn[s] # "off", NEW b, execute_command(s, b)
  PROVE  Allowed
  <1>1. CASE Login(s)
    BY <1>1, LoginAllowed
  <1>2. CASE Guarded(s)
    BY <1>2, GuardedAllowed
  <1>3. CASE Malformed(s)
    <2>1. last'.reply \in {"malformed", "none"} /\ UNCHANGED <<users, conn, proof>>
      <3>1. \A c, token, text : Reply(s, c, token, text) => last'.reply = text
        BY DEF Reply
      <3> QED BY <1>3, <3>1 DEF Malformed, NoChange
    <2> QED BY <2>1, NothingGranted, Refused
  <1>4. CASE Unknown(s) \/ Register(s) \/ Quit(s) \/ Commands(s)
    <2>1. last'.cmd \in {"unknown", "/register", "/quit", "/commands"}
      <3>1. \A c, token, text : Reply(s, c, token, text) => last'.cmd = c
        BY DEF Reply
      <3> QED BY <1>4, <3>1 DEF Unknown, Register, Quit, Commands
    <2>2. Granted' = Access!Nothing
      <3>1. {"unknown", "/register", "/quit", "/commands"} \cap Protected = {}
        BY DEF Protected, Moderation
      <3> QED BY <2>1, <3>1, NothingGranted
    <2>3. CASE Unknown(s) \/ Commands(s)
      BY <2>2, <2>3, Refused DEF Unknown, Commands, NoChange
    <2>4. CASE Register(s)
      <3>1. UNCHANGED <<conn, proof>>
        BY <2>4 DEF Register
      <3>2. CASE UNCHANGED users
        BY <2>2, <3>1, <3>2, Refused
      <3>3. ASSUME NEW l \in Logins, NEW r \in Roles, Insert(l, r) PROVE Allowed
        BY <2>2, <3>1, <3>3, InsertAllowed
      <3> QED BY <2>4, <3>2, <3>3 DEF Register
    <2>5. CASE Quit(s)
      BY <2>2, <2>5, LeavesAllowed DEF Quit
    <2> QED BY <1>4, <2>3, <2>4, <2>5
  <1> QED BY <1>1, <1>2, <1>3, <1>4 DEF execute_command

\* A new session acts for nobody, like the one that has ended.
LEMMA ConnectAllowed ==
  ASSUME IInv, NEW s \in Sessions, Connect(s)
  PROVE  Allowed
  <1>1. conn \in [Sessions -> {"off", "open", "eof", "quit"}] /\ proof \in [Sessions -> Logins \cup {"none"}]
    BY DEF IInv, TypeOK
  <1>2. /\ conn[s] = "off" /\ conn' = [conn EXCEPT ![s] = "open"] /\ proof' = [proof EXCEPT ![s] = "none"]
        /\ last' = Silent /\ users' = users
    BY DEF Connect
  <1>3. Actor' = Actor /\ RoleRead' = RoleRead
    BY <1>1, <1>2 DEF Actor, RoleRead
  <1>4. Granted' = Access!Nothing
    BY <1>2, SilentGrantsNothing
  <1> QED BY <1>3, <1>4, Zenon DEF Allowed, Access!Next, Access!Refuse

\* Only the connection changes, and not whether there is a session.
LEMMA StillThere ==
  ASSUME UNCHANGED <<users, proof, last>>, \A s \in Sessions : conn'[s] = "off" <=> conn[s] = "off"
  PROVE  Allowed
  <1>1. Actor' = Actor /\ RoleRead' = RoleRead
    BY DEF Actor, RoleRead
  <1>2. Granted' = Granted
    BY DEF Granted
  <1> QED BY <1>1, <1>2 DEF Allowed

LEMMA DieAllowed == IInv /\ Die => Allowed
  <1> SUFFICES ASSUME IInv, Die PROVE Allowed
    OBVIOUS
  <1>1. Actor' = [s \in Sessions |-> "none"]
    BY DEF Die, Actor
  <1>2. Granted' = Access!Nothing /\ RoleRead' = RoleRead
    BY SilentGrantsNothing DEF Die, RoleRead
  <1> QED BY <1>1, <1>2 DEF Allowed, Access!Next, Access!GoDown

LEMMA StepAllowed == IInv /\ [Next]_vars => Allowed
  <1> SUFFICES ASSUME IInv, [Next]_vars PROVE Allowed
    OBVIOUS
  <1>1. ASSUME NEW s \in Sessions, Connect(s) PROVE Allowed
    BY <1>1, ConnectAllowed
  <1>2. ASSUME NEW s \in Sessions, SendLine(s) \/ Receive(s) PROVE Allowed
    BY <1>2, StillThere DEF SendLine, Receive
  <1>3. ASSUME NEW s \in Sessions, HangUp(s) PROVE Allowed
    <2>1. \A t \in Sessions : conn'[t] = "off" <=> conn[t] = "off"
      BY <1>3 DEF HangUp, IInv, TypeOK
    <2> QED BY <1>3, <2>1, StillThere DEF HangUp
  <1>4. ASSUME NEW s \in Sessions, ReadFails(s) PROVE Allowed
    BY <1>4, SilentGrantsNothing, LeavesAllowed DEF ReadFails
  <1>5. ASSUME NEW s \in Sessions, RunLine(s) PROVE Allowed
    BY <1>5, CommandAllowed DEF RunLine
  <1>6. CASE RegisterElsewhere
    <2>1. PICK l \in Logins, r \in Roles : Insert(l, r)
      BY <1>6 DEF RegisterElsewhere
    <2>2. UNCHANGED <<conn, proof>> /\ Granted' = Granted
      BY <1>6 DEF RegisterElsewhere, Granted
    <2> QED BY <2>1, <2>2, InsertAllowed
  <1>7. CASE UNCHANGED vars
    BY <1>7, StillThere DEF vars
  <1> QED BY <1>1, <1>2, <1>3, <1>4, <1>5, <1>6, <1>7, DieAllowed DEF Next

LEMMA InitAllowed == Init => Access!Init
  <1> SUFFICES ASSUME Init PROVE Access!Init
    OBVIOUS
  <1>1. Actor = [s \in Sessions |-> "none"]
    BY DEF Init, Actor
  <1>3. RoleRead \in [Logins -> {Stripped(r) : r \in Roles} \cup {NoRow}]
    BY DEF Init, RoleRead
  <1>2. Granted = Access!Nothing
    <2>1. Silent.cmd = "none" /\ "none" \notin Protected
      BY DEF Silent, Protected, Moderation
    <2> QED BY <2>1 DEF Init, Granted, Access!Nothing
  <1> QED BY <1>1, <1>2, <1>3 DEF Access!Init

\* Whoever sends whatever lines to the service, on any number of connections: a session
\* does for him what AccessControl allows, and no more.
THEOREM OnlyWhatIsAllowed == Spec => ImplementsAccess
  <1>1. Allowed => [Access!Next]_Access!vars
    BY DEF Allowed, Access!vars
  <1> QED BY <1>1, InitAllowed, StepAllowed, Invariance, PTL DEF Spec, ImplementsAccess, Access!Spec

----------------------------------------------------------------------------
(***************************************************************************)
(* What that is worth: a service that does what AccessControl allows works *)
(* for nobody who has not earned it.                                       *)
(***************************************************************************)

LEMMA AccessInitInv == Access!Init => Access!AccessInv
  BY DEF Access!Init, Access!AccessInv, Access!Earned, Access!Nothing

\* Whoever is logged in is registered, so no registration is his.
LEMMA AccessRegisterInv ==
  ASSUME Access!AccessInv, NEW l \in Logins, NEW r \in {Stripped(q) : q \in Roles}, Access!Register(l, r)
  PROVE  Access!AccessInv'
  <1>1. /\ RoleRead \in [Logins -> {Stripped(q) : q \in Roles} \cup {NoRow}]
        /\ Actor \in [Sessions -> Logins \cup {"none"}]
        /\ Granted # Access!Nothing => Granted.by \in Sessions
        /\ \A s \in Sessions : Actor[s] # "none" => RoleRead[Actor[s]] # NoRow
    BY DEF Access!AccessInv
  <1>2. /\ RoleRead[l] = NoRow /\ RoleRead' = [RoleRead EXCEPT ![l] = r]
        /\ Granted' \in {Granted, Access!Nothing} /\ Actor' = Actor
    BY DEF Access!Register
  <1>3. /\ RoleRead' \in [Logins -> {Stripped(q) : q \in Roles} \cup {NoRow}]
        /\ \A k \in Logins : RoleRead[k] # NoRow => RoleRead'[k] = RoleRead[k]
    BY <1>1, <1>2
  <1>4. \A s \in Sessions : Actor[s] # "none" => RoleRead'[Actor[s]] = RoleRead[Actor[s]]
    BY <1>1, <1>3
  <1>5. Access!Earned'
    <2>1. CASE Granted' = Access!Nothing
      BY <2>1 DEF Access!Earned, Access!Nothing
    <2>2. CASE Granted' = Granted /\ Granted # Access!Nothing
      <3>1. Granted.by \in Sessions /\ Access!Earned
        BY <1>1, <2>2 DEF Access!AccessInv
      <3> QED BY <1>2, <1>4, <2>2, <3>1 DEF Access!Earned
    <2> QED BY <1>2, <2>1, <2>2
  <1>6. (Granted # Access!Nothing => Granted.by \in Sessions)'
    BY <1>1, <1>2 DEF Access!Nothing
  <1> QED BY <1>1, <1>2, <1>3, <1>4, <1>5, <1>6 DEF Access!AccessInv

\* Nobody gets anything while someone comes or goes.
LEMMA AccessLogInv ==
  ASSUME Access!AccessInv, UNCHANGED RoleRead, Granted' = Access!Nothing,
         Actor' \in [Sessions -> Logins \cup {"none"}],
         \A s \in Sessions : Actor'[s] # "none" => RoleRead[Actor'[s]] # NoRow
  PROVE  Access!AccessInv'
  <1>1. Access!Earned'
    BY DEF Access!Earned, Access!Nothing
  <1>2. Access!Nothing' = Access!Nothing
    BY DEF Access!Nothing
  <1> QED BY <1>1, <1>2 DEF Access!AccessInv

LEMMA AccessActInv ==
  ASSUME Access!AccessInv, NEW s \in Sessions, NEW m \in BOOLEAN, Access!Act(s, m)
  PROVE  Access!AccessInv'
  <1>1. /\ Granted' = Access!Grant(s, m) /\ UNCHANGED <<RoleRead, Actor>>
        /\ Actor[s] # "none" /\ RoleRead[Actor[s]] # NoRow
        /\ m => RoleRead[Actor[s]] = Moderator
    BY DEF Access!Act, Access!AccessInv
  <1>2. Granted'.by = s /\ Granted'.moderating = m
    BY <1>1 DEF Access!Grant
  <1>3. Access!Earned'
    BY <1>1, <1>2, Zenon DEF Access!Earned
  <1> QED BY <1>1, <1>2, <1>3 DEF Access!AccessInv

LEMMA AccessNextInv == Access!AccessInv /\ [Access!Next]_Access!vars => Access!AccessInv'
  <1> SUFFICES ASSUME Access!AccessInv, [Access!Next]_Access!vars PROVE Access!AccessInv'
    OBVIOUS
  <1>1. /\ Actor \in [Sessions -> Logins \cup {"none"}]
        /\ \A s \in Sessions : Actor[s] # "none" => RoleRead[Actor[s]] # NoRow
    BY DEF Access!AccessInv
  <1>2. ASSUME NEW s \in Sessions, NEW l \in Logins, Access!LogIn(s, l) PROVE Access!AccessInv'
    BY <1>1, <1>2, AccessLogInv DEF Access!LogIn
  <1>3. ASSUME NEW s \in Sessions, Access!LogOut(s) PROVE Access!AccessInv'
    BY <1>1, <1>3, AccessLogInv DEF Access!LogOut
  <1>4. CASE Access!GoDown \/ Access!Refuse
    BY <1>1, <1>4, AccessLogInv DEF Access!GoDown, Access!Refuse
  <1>5. CASE UNCHANGED Access!vars
    BY <1>5 DEF Access!vars, Access!AccessInv, Access!Earned, Access!Nothing
  <1> QED BY <1>2, <1>3, <1>4, <1>5, AccessRegisterInv, AccessActInv DEF Access!Next

\* Who implements AccessControl never works for anybody but a registered user who has
\* logged in, and moderates for moderators only.
THEOREM AccessIsEarned == ImplementsAccess => []Access!Earned
  <1>1. Access!AccessInv => Access!Earned
    BY DEF Access!AccessInv
  <1> QED BY <1>1, AccessInitInv, AccessNextInv, PTL DEF ImplementsAccess, Access!Spec

============================================================================
