-------------------------- MODULE TcpClient_proofs --------------------------
(***************************************************************************)
(* The client at work with its session, for every set of logins and of     *)
(* commands, and every number of lines and answers under way.              *)
(***************************************************************************)
EXTENDS TcpClient, TcpSession_proofs

Busy == {"store", "print"}

\* What the reading thread does now, by where it is.
LEMMA ReaderNow ==
  /\ reader = Loop => Now = "loop"
  /\ reader = <<"recv">> => Now = "recv"
  /\ reader = <<"done">> => Now = "done"
  /\ reader = <<"print">> => Now = "print" /\ Tail(reader) = Loop
  /\ reader = <<"store", "print">> => Now = "store" /\ Tail(reader) = <<"print">>
  <1>1. \A a : <<a>> # <<>> /\ Head(<<a>>) = a /\ Tail(<<a>>) = <<>>
    OBVIOUS
  <1>2. \A a, b : <<a, b>> # <<>> /\ Head(<<a, b>>) = a /\ Tail(<<a, b>>) = <<b>>
    OBVIOUS
  <1> QED BY <1>1, <1>2, Zenon DEF Now, Loop

LEMMA ReaderStates ==
  ASSUME ClientTypeOK
  PROVE  /\ Now \in {"loop", "recv", "done", "store", "print"}
         /\ Now = "loop"  => reader = Loop
         /\ Now = "print" => reader = <<"print">>
         /\ Now = "store" => reader = <<"store", "print">>
         /\ Quiet => Now \notin Busy
  <1>1. reader \in {Loop, <<"recv">>, <<"done">>, <<"print">>, <<"store", "print">>}
    BY DEF ClientTypeOK
  <1>2. "print" \in Range(<<"print">>)
    <2>1. 1 \in DOMAIN <<"print">> /\ <<"print">>[1] = "print"
      OBVIOUS
    <2> QED BY <2>1, Zenon DEF Range
  <1>3. "print" \in Range(<<"store", "print">>)
    <2>1. 2 \in DOMAIN <<"store", "print">> /\ <<"store", "print">>[2] = "print"
      OBVIOUS
    <2> QED BY <2>1, Zenon DEF Range
  <1> QED BY <1>1, <1>2, <1>3, ReaderNow DEF Quiet, Busy

----------------------------------------------------------------------------
(***************************************************************************)
(* The session keeps its own invariant.                                    *)
(***************************************************************************)

LEMMA ServerStaysInv == IInv /\ ServerStays => IInv'
  <1> SUFFICES ASSUME IInv, ServerStays PROVE IInv'
    OBVIOUS
  <1>1. Recorded'
    BY SilentType DEF ServerStays
  <1>2. Lines' /\ People' /\ RoleIsCurrent'
    BY DEF ServerStays, IInv, TypeOK, Lines, People, RoleIsCurrent
  <1> QED BY <1>1, <1>2 DEF IInv, TypeOK, Lines, People, Recorded

\* Lines come to an inbox, or are cut off behind those that are in responce.
LEMMA InboxInv ==
  ASSUME IInv, NEW box \in Seq(Beginnings), inbox' = [inbox EXCEPT ![Me] = box],
         buffered[Me] <= Len(box), last' = Silent,
         conn' = conn \/ conn' = [conn EXCEPT ![Me] = "eof"], conn[Me] # "off" \/ conn' = conn,
         UNCHANGED <<users, autorized, session, proof, buffered>>
  PROVE  IInv'
  <1>1. Recorded'
    BY SilentType
  <1>2. Lines'
    BY ClientAssumption DEF IInv, TypeOK, Lines
  <1>3. conn \in [Sessions -> {"off", "open", "eof", "quit"}]
    BY DEF IInv, TypeOK
  <1>4. conn' \in [Sessions -> {"off", "open", "eof", "quit"}]
    <2>1. CASE conn' = conn
      BY <1>3, <2>1, Zenon
    <2>2. CASE conn' = [conn EXCEPT ![Me] = "eof"]
      BY <1>3, <2>2
    <2> QED BY <2>1, <2>2
  <1>5. \A s \in Sessions : conn'[s] # "off" => conn[s] # "off"
    <2>1. CASE conn' = conn
      BY <2>1, Zenon
    <2>2. CASE conn[Me] # "off" /\ conn' = [conn EXCEPT ![Me] = "eof"]
      BY <1>3, <2>2
    <2> QED BY <2>1, <2>2
  <1>6. People'
    BY <1>4 DEF IInv, TypeOK, People
  <1>7. RoleIsCurrent'
    BY <1>5 DEF IInv, RoleIsCurrent
  <1> QED BY <1>1, <1>2, <1>6, <1>7 DEF IInv, TypeOK, Lines, People, Recorded

\* A step of the session is one of TcpSession.tla.
LEMMA SessionStepInv ==
  ASSUME IInv, \/ Connect(Me) \/ RunLine(Me) \/ Receive(Me) \/ ReadFails(Me)
               \/ Die \/ RegisterElsewhere
  PROVE  IInv'
  BY NextIInv, ClientAssumption DEF Next

----------------------------------------------------------------------------
(***************************************************************************)
(* What a step does to the lines and to the answers under way.             *)
(***************************************************************************)

\* The lines that are left are some of those that were there.
Fewer == /\ lines' \in Seq(Sent) /\ Len(lines') = Len(inbox'[Me])
         /\ \A i \in 1..Len(lines') : \E j \in 1..Len(lines) : lines'[i] = lines[j]
         /\ \A i \in 1..Len(inbox'[Me]) : inbox'[Me][i] = "blank" =>
              \E j \in 1..Len(inbox[Me]) : inbox[Me][j] = "blank"

LEMMA SameIsFewer == ClientTypeOK /\ lines' = lines /\ inbox' = inbox => Fewer
  BY DEF ClientTypeOK, Fewer

\* Rows are inserted and never change: a table that is plain was plain before.
TableGrows == users' = users \/ \E l \in Logins, r \in Roles : Insert(l, r)

LEMMA PlainBefore == IInv /\ TableGrows => (Plain' => Plain)
  <1> SUFFICES ASSUME IInv, TableGrows, Plain', NEW l \in Logins, users[l] # NoRow
               PROVE  ~ OddRole(Stripped(users[l]))
    BY DEF Plain
  <1>1. users'[l] = users[l]
    <2>1. ASSUME NEW k \in Logins, NEW r \in Roles, Insert(k, r) PROVE users'[l] = users[l]
      <3>1. k # l /\ users' = [users EXCEPT ![k] = r] /\ users \in [Logins -> Roles \cup {NoRow}]
        BY <2>1 DEF Insert, IInv, TypeOK
      <3> QED BY <3>1
    <2>2. CASE users' = users
      BY <2>2
    <2> QED BY <2>1, <2>2 DEF TableGrows
  <1>2. Stripped(users'[l]) = Stripped(users[l])
    BY <1>1, Zenon
  <1>3. users'[l] # NoRow => ~ OddRole(Stripped(users'[l]))
    <2>1. Plain' = \A k \in Logins : users'[k] # NoRow => ~ OddRole(Stripped(users'[k]))
      BY DEF Plain, OddRole, Stripped, Without
    <2> QED BY <2>1, Zenon
  <1> QED BY <1>1, <1>2, <1>3, Zenon

LEMMA ServerStaysGrows == ServerStays => TableGrows
  BY DEF ServerStays, TableGrows

LEMMA PatientKeeps ==
  ASSUME PatientInv, Fewer, patient' = patient, Plain' => Plain,
         patient /\ Plain => token' # "poison",
         NoToken => NoToken', NoList => NoList'
  PROVE  PatientInv'
  <1> SUFFICES ASSUME patient PROVE PatientInv'
    BY DEF PatientInv
  <1>1. PatientTokensAreWhole'
    BY DEF PatientInv, PatientTokensAreWhole, Fewer
  <1>2. PatientClientsKillNobody'
    BY DEF PatientInv, PatientClientsKillNobody, Fewer
  <1> QED BY <1>1, <1>2 DEF PatientInv

\* Pieces that move from wire to ans, or are lost, are no new ones.
LEMMA NoNewPieces ==
  ASSUME Fewer,
         \A i \in 1..Len(wire') : \E j \in 1..Len(wire) : wire'[i] = wire[j],
         \A i \in 1..Len(ans') : \/ \E j \in 1..Len(wire) : ans'[i] = wire[j]
                                \/ \E j \in 1..Len(ans) : ans'[i] = ans[j]
  PROVE  /\ NoToken => NoToken'
         /\ NoList => NoList'
         /\ NothingOdd(ans) /\ NothingOdd(wire) => NothingOdd(ans') /\ NothingOdd(wire')
  <1>1. ASSUME NoToken PROVE NoToken'
    BY <1>1 DEF Fewer, NoToken
  <1>2. ASSUME NoList PROVE NoList'
    BY <1>2 DEF Fewer, NoList
  <1>3. ASSUME NothingOdd(ans), NothingOdd(wire) PROVE NothingOdd(ans') /\ NothingOdd(wire')
    BY <1>3 DEF NothingOdd
  <1> QED BY <1>1, <1>2, <1>3

\* A step that brings no line, no answer and no token.
LEMMA NothingNew ==
  ASSUME ClientInv, IInv', Fewer, TableGrows,
         link' \in {"up", "late", "reset"}, writer' \in {"prompt", "leaving", "closed"},
         reader' \in {Loop, <<"recv">>, <<"done">>, <<"print">>, <<"store", "print">>},
         Now' = "store" <=> Now = "store", Now' \in Busy <=> Now \in Busy,
         UNCHANGED <<token, ans, patient, framed>>,
         wire' = wire \/ (wire' = <<>> /\ conn'[Me] # "open"),
         conn'[Me] = "open" => conn[Me] = "open" /\ proof'[Me] = proof[Me]
  PROVE  ClientInv'
  <1> USE DEF ClientInv
  <1>1. wire' \in Seq(Pieces) /\ Len(<<>>) = 0
    <2>1. wire \in Seq(Pieces)
      BY DEF ClientTypeOK
    <2>2. <<>> \in Seq(Pieces) /\ Len(<<>>) = 0
      OBVIOUS
    <2> QED BY <2>1, <2>2, Zenon
  <1>2. ClientTypeOK'
    BY <1>1, Zenon DEF ClientTypeOK, Fewer, Sent, Pieces, Loop
  <1>6. Plain' => Plain
    BY PlainBefore
  <1>7. \A i \in 1..Len(wire') : \E j \in 1..Len(wire) : wire'[i] = wire[j]
    BY <1>1
  <1>8. /\ NoToken => NoToken'
        /\ NoList => NoList'
        /\ NothingOdd(ans) /\ NothingOdd(wire) => NothingOdd(ans') /\ NothingOdd(wire')
    BY <1>7, NoNewPieces
  <1>3. StreamInv'
    <2>1. Plain' => NothingOdd(ans') /\ NothingOdd(wire')
      BY <1>6, <1>8, Zenon DEF StreamInv
    <2>2. CASE wire' = wire
      BY <2>1, <2>2 DEF StreamInv, Marked, Busy
    <2>3. CASE wire' = <<>>
      BY <1>1, <2>1, <2>3 DEF StreamInv, Marked, Busy
    <2> QED BY <2>2, <2>3
  <1>4. PatientInv'
    BY <1>6, <1>8, PatientKeeps DEF PatientInv
  <1>5. FramedInv'
    <2>1. CASE wire' = wire
      BY <2>1 DEF FramedInv, Due, IsRest, Mine, TokenText, Text
    <2>2. CASE wire' = <<>> /\ conn'[Me] # "open"
      BY <2>2 DEF FramedInv, TokenText, Text
    <2> QED BY <2>1, <2>2
  <1> QED BY <1>2, <1>3, <1>4, <1>5

\* .. as are most of the steps of the client.
LEMMA CloseInv == ClientInv /\ Close => ClientInv'
  <1> SUFFICES ASSUME ClientInv, Close PROVE ClientInv'
    OBVIOUS
  <1>1. UNCHANGED <<lines, inbox, wire, link, token, reader, ans, patient, framed, conn, proof>> /\ writer' = "closed"
    BY DEF Close, ServerStays
  <1>2. IInv' /\ Fewer /\ TableGrows
    BY <1>1, ServerStaysInv, ServerStaysGrows, SameIsFewer DEF ClientInv, Close
  <1> QED BY <1>1, <1>2, NothingNew DEF ClientInv, ClientTypeOK, Now

LEMMA CallReadInv == ClientInv /\ CallRead => ClientInv'
  <1> SUFFICES ASSUME ClientInv, CallRead PROVE ClientInv'
    OBVIOUS
  <1>1. /\ UNCHANGED <<lines, inbox, wire, link, token, writer, ans, patient, framed, conn, proof>>
        /\ Now = "loop" /\ reader' \in {<<"recv">>, <<"done">>}
    BY DEF CallRead, ServerStays
  <1>2. IInv' /\ Fewer /\ TableGrows
    BY <1>1, ServerStaysInv, ServerStaysGrows, SameIsFewer DEF ClientInv, CallRead
  <1>3. Now' \in {"recv", "done"}
    BY <1>1 DEF Now, Loop
  <1> QED BY <1>1, <1>2, <1>3, NothingNew DEF ClientInv, ClientTypeOK, Busy

LEMMA ReadErrorInv == ClientInv /\ ReadError => ClientInv'
  <1> SUFFICES ASSUME ClientInv, ReadError PROVE ClientInv'
    OBVIOUS
  <1>1. /\ UNCHANGED <<lines, inbox, wire, link, token, writer, ans, patient, framed, conn, proof>>
        /\ Now = "recv" /\ reader' = <<"done">>
    BY DEF ReadError, ReadEnds, ServerStays
  <1>2. IInv' /\ Fewer /\ TableGrows
    BY <1>1, ServerStaysInv, ServerStaysGrows, SameIsFewer DEF ClientInv, ReadError
  <1>3. Now' = "done"
    BY <1>1 DEF Now, Loop
  <1> QED BY <1>1, <1>2, <1>3, NothingNew DEF ClientInv, ClientTypeOK, Busy

LEMMA ResetArrivesInv == ClientInv /\ ResetArrives => ClientInv'
  <1> SUFFICES ASSUME ClientInv, ResetArrives PROVE ClientInv'
    OBVIOUS
  <1>1. UNCHANGED <<lines, inbox, wire, token, writer, reader, ans, patient, framed, conn, proof>> /\ link' = "reset"
    BY DEF ResetArrives, ServerStays
  <1>2. IInv' /\ Fewer /\ TableGrows
    BY <1>1, ServerStaysInv, ServerStaysGrows, SameIsFewer DEF ClientInv, ResetArrives
  <1> QED BY <1>1, <1>2, NothingNew DEF ClientInv, ClientTypeOK, Now

\* .. and of the session when it does not run a line.
LEMMA ServerStepInv == ClientInv /\ (ServerReads \/ Elsewhere) => ClientInv'
  <1> SUFFICES ASSUME ClientInv, ServerReads \/ Elsewhere PROVE ClientInv'
    OBVIOUS
  <1>1. UNCHANGED clientVars /\ inbox' = inbox /\ proof' = proof
    BY DEF ServerReads, Elsewhere, Receive, ReadFails, RegisterElsewhere
  <1>2. conn'[Me] = "open" => conn[Me] = "open"
    <2>1. conn' = conn \/ conn' = [conn EXCEPT ![Me] = "off"]
      BY DEF ServerReads, Elsewhere, Receive, ReadFails, RegisterElsewhere
    <2> QED BY <2>1, ClientAssumption DEF ClientInv, IInv, TypeOK
  <1>4. TableGrows
    BY DEF ServerReads, Elsewhere, Receive, ReadFails, RegisterElsewhere, TableGrows
  <1>3. IInv' /\ Fewer
    BY <1>1, SessionStepInv, SameIsFewer DEF ClientInv, ServerReads, Elsewhere, clientVars
  <1> QED BY <1>1, <1>2, <1>3, <1>4, NothingNew DEF ClientInv, ClientTypeOK, Now, clientVars

LEMMA ServerDiesInv == ClientInv /\ ServerDies => ClientInv'
  <1> SUFFICES ASSUME ClientInv, ServerDies PROVE ClientInv'
    OBVIOUS
  <1>1. /\ Die /\ conn'[Me] = "off" /\ inbox' = inbox
        /\ UNCHANGED <<lines, token, writer, reader, ans, patient, framed>>
    BY ClientAssumption DEF ServerDies, Die
  <1>2. wire' \in {wire, <<>>} /\ link' \in {"up", "late", "reset"}
    BY DEF ServerDies, Closing, ClientInv, ClientTypeOK
  <1>3. IInv' /\ Fewer /\ TableGrows
    BY <1>1, SessionStepInv, SameIsFewer DEF ClientInv, Die, TableGrows
  <1> QED BY <1>1, <1>2, <1>3, NothingNew DEF ClientInv, ClientTypeOK, Now

----------------------------------------------------------------------------
(***************************************************************************)
(* The reading thread.                                                     *)
(***************************************************************************)

LEMMA ShowInv == ClientInv /\ Show => ClientInv'
  <1> SUFFICES ASSUME ClientInv, Show PROVE ClientInv'
    OBVIOUS
  <1> USE DEF ClientInv
  <1>1. /\ UNCHANGED <<lines, inbox, wire, link, token, writer, patient, framed, conn, proof>>
        /\ Now = "print" /\ reader' = Loop /\ ans' = <<>> /\ Now' = "loop"
    BY ReaderStates, ReaderNow DEF Show, StepDone, ServerStays, Now, Loop
  <1>2. IInv' /\ Fewer /\ (Plain' => Plain)
    BY <1>1, ServerStaysInv, ServerStaysGrows, PlainBefore, SameIsFewer DEF Show
  <1>3. ans' \in Seq(Pieces) /\ Len(ans') = 0
    BY <1>1
  <1>4. ClientTypeOK'
    BY <1>1, <1>2, <1>3, Zenon DEF ClientTypeOK, Fewer, Sent, Pieces, Loop
  <1>8. /\ NoToken => NoToken'
        /\ NoList => NoList'
        /\ NothingOdd(ans) /\ NothingOdd(wire) => NothingOdd(ans') /\ NothingOdd(wire')
    BY <1>1, <1>2, <1>3, NoNewPieces
  <1>5. StreamInv'
    <2>1. Plain' => NothingOdd(ans') /\ NothingOdd(wire')
      BY <1>2, <1>8, Zenon DEF StreamInv
    <2> QED BY <1>1, <1>3, <2>1 DEF StreamInv, Marked
  <1>6. PatientInv'
    BY <1>1, <1>2, <1>8, PatientKeeps DEF PatientInv
  <1>7. FramedInv'
    BY <1>1 DEF FramedInv, Due, IsRest, Mine
  <1> QED BY <1>2, <1>4, <1>5, <1>6, <1>7

\* What is stored is never half a string or the name of nobody, and has an empty
\* line in it only if a list or an odd answer was read with it.
LEMMA StoredType ==
  ASSUME ClientTypeOK, StreamInv, ans # <<>>, NEW t \in Stored(ans)
  PROVE  /\ t \in Logins \cup {"", "cut", "tangle", "poison"}
         /\ t = "poison" => \E i \in 1..Len(ans) : ans[i].kind \in {"spaced", "odd"}
  <1>1. ans \in Seq(Pieces) /\ Len(ans) \in Nat /\ Len(ans) > 0
    <2>1. ans \in Seq(Pieces)
      BY Zenon DEF ClientTypeOK
    <2> QED BY <2>1
  <1>2. \A i \in 1..Len(ans) : ans[i].kind = "mark" => ans[i].of \in Logins
    BY <1>1 DEF Pieces
  <1>3. ASSUME NEW i \in 1..Len(ans), ans[i].kind = "mark", Len(ans) \in {i, i + 1}, t \in Clean(ans)
        PROVE  t \in Logins \cup {"", "cut"}
    <2>1. CASE ans[Len(ans)].kind = "mark"
      BY <2>1, <1>3 DEF Clean
    <2>2. CASE ans[Len(ans)].kind # "mark"
      <3>1. Len(ans) = i + 1
        BY <1>3, <2>2
      <3>2. Marked(ans, i)
        <4>1. i # Len(ans)
          BY <1>3, <2>2
        <4> QED BY <1>3, <4>1, Zenon DEF StreamInv
      <3>3. ans[i + 1].of = ans[i].of
        BY <3>2 DEF Marked
      <3>4. t = ans[Len(ans)].of
        BY <1>3, <2>2 DEF Clean
      <3> QED BY <1>2, <1>3, <3>1, <3>3, <3>4
    <2> QED BY <2>1, <2>2
  <1>4. t \in Tangled(ans) => t = "tangle" \/ (t = "poison" /\ \E i \in 1..Len(ans) : ans[i].kind \in {"spaced", "odd"})
    BY DEF Tangled
  <1>5. "poison" \notin Logins \cup {"", "cut"}
    BY ClientAssumption
  <1>6. CASE ans[1].kind = "mark" /\ Len(ans) <= 2
    <2>1. t \in Clean(ans)
      BY <1>6 DEF Stored
    <2>2. 1 \in 1..Len(ans) /\ Len(ans) \in {1, 1 + 1}
      <3>1. \A n \in Nat : n > 0 /\ n <= 2 => 1 \in 1..n /\ n \in {1, 1 + 1}
        OBVIOUS
      <3> QED BY <1>1, <1>6, <3>1, Zenon
    <2>3. t \in Logins \cup {"", "cut"}
      BY <1>3, <1>6, <2>1, <2>2, Zenon
    <2> QED BY <1>5, <2>3
  <1>7. CASE ans[1].kind # "mark" /\ Len(ans) \in {2, 3} /\ ans[2].kind = "mark"
    <2>1. t \in Clean(ans) \/ t \in Tangled(ans)
      <3>1. ~ (ans[1].kind = "mark" /\ Len(ans) <= 2) /\ ~ (Len(ans) = 1 /\ ans[1].kind # "mark")
        BY <1>7
      <3>2. Stored(ans) = Clean(ans) \cup Tangled(ans)
        BY <1>7, <3>1, Zenon DEF Stored
      <3> QED BY <3>2
    <2>2. 2 \in 1..Len(ans) /\ Len(ans) \in {2, 2 + 1}
      BY <1>1, <1>7
    <2>3. t \in Clean(ans) => t \in Logins \cup {"", "cut"}
      BY <1>3, <1>7, <2>2, Zenon
    <2> QED BY <1>4, <1>5, <2>1, <2>3
  <1>8. CASE /\ ~ (ans[1].kind = "mark" /\ Len(ans) <= 2)
             /\ ~ (ans[1].kind # "mark" /\ Len(ans) \in {2, 3} /\ ans[2].kind = "mark")
    <2>1. t = "" \/ t \in Tangled(ans)
      <3>1. CASE Len(ans) = 1 /\ ans[1].kind # "mark"
        BY <1>8, <3>1 DEF Stored
      <3>2. CASE ~ (Len(ans) = 1 /\ ans[1].kind # "mark")
        BY <1>8, <3>2, Zenon DEF Stored
      <3> QED BY <3>1, <3>2
    <2> QED BY <1>4, <1>5, <2>1
  <1> QED BY <1>6, <1>7, <1>8

\* From a read that is the token of a login, that token is taken.
LEMMA StoredFramed ==
  ASSUME NEW l \in Logins, ans = TokenText(l), NEW t \in Stored(ans)
  PROVE  t = ans[2].of
  <1>1. ans[1].kind = "mark" /\ Len(ans) = 2 /\ ans[2].kind = "rest"
    BY DEF TokenText
  <1>2. t \in Clean(ans)
    BY <1>1 DEF Stored
  <1> QED BY <1>1, <1>2 DEF Clean

LEMMA StoreInv == ClientInv /\ Store => ClientInv'
  <1> SUFFICES ASSUME ClientInv, Store PROVE ClientInv'
    OBVIOUS
  <1> USE DEF ClientInv
  <1>1. /\ UNCHANGED <<lines, inbox, wire, link, writer, patient, framed, conn, proof>>
        /\ Now = "store" /\ token' \in Stored(ans)
    BY DEF Store, ServerStays
  <1>2. reader' = <<"print">> /\ Now' = "print" /\ ans' = ans
    <2>1. reader' = <<"print">>
      BY <1>1, ReaderStates, ReaderNow DEF Store, StepDone
    <2>2. <<"print">> # Loop /\ Head(<<"print">>) = "print"
      BY DEF Loop
    <2> QED BY <2>1, <2>2 DEF Store, StepDone, Now
  <1>3. IInv' /\ Fewer /\ (Plain' => Plain)
    BY <1>1, ServerStaysInv, ServerStaysGrows, PlainBefore, SameIsFewer DEF Store
  <1>4. ans # <<>>
    BY <1>1 DEF StreamInv
  <1>5. /\ token' \in Logins \cup {"", "cut", "tangle", "poison"}
        /\ token' = "poison" => \E i \in 1..Len(ans) : ans[i].kind \in {"spaced", "odd"}
    BY <1>1, <1>4, StoredType
  <1>6. ClientTypeOK'
    BY <1>1, <1>2, <1>3, <1>5, Zenon DEF ClientTypeOK, Fewer, Sent, Pieces, Loop
  <1>10. /\ NoToken => NoToken'
         /\ NoList => NoList'
         /\ NothingOdd(ans) /\ NothingOdd(wire) => NothingOdd(ans') /\ NothingOdd(wire')
    BY <1>1, <1>2, <1>3, NoNewPieces
  <1>7. StreamInv'
    <2>1. Plain' => NothingOdd(ans') /\ NothingOdd(wire')
      BY <1>3, <1>10, Zenon DEF StreamInv
    <2> QED BY <1>1, <1>2, <1>4, <2>1 DEF StreamInv, Marked
  <1>8. PatientInv'
    <2> SUFFICES ASSUME patient, Plain PROVE token' # "poison"
      BY <1>1, <1>3, <1>10, PatientKeeps
    <2>1. \A i \in 1..Len(ans) : ans[i].kind # "odd"
      BY DEF StreamInv, NothingOdd
    <2>2. \E i \in 1..Len(ans) : ans[i].kind = "mark"
      BY <1>1, <2>1 DEF StreamInv
    <2>3. \A i \in 1..Len(ans) : ans[i].kind # "spaced"
      BY <2>2 DEF PatientInv, NoToken, NoList
    <2> QED BY <1>5, <2>1, <2>3
  <1>9. FramedInv'
    <2> SUFFICES ASSUME framed PROVE FramedInv'
      BY <1>1 DEF FramedInv
    <2>1. CASE \E l \in Logins : ans = TokenText(l)
      <3>1. token' = ans[2].of
        BY <1>1, <2>1, StoredFramed
      <3> QED BY <1>1, <1>2, <3>1 DEF FramedInv, Due, IsRest, Mine
    <2>2. CASE conn[Me] = "open" => Due
      BY <1>1, <1>2, <2>2 DEF FramedInv, Due, IsRest, Mine
    <2> QED BY <1>1, <2>1, <2>2 DEF FramedInv
  <1> QED BY <1>3, <1>6, <1>7, <1>8, <1>9

\* The beginning of a sequence.
LEMMA Beginning1 ==
  ASSUME NEW S, NEW s \in Seq(S), NEW n \in 0..Len(s)
  PROVE  /\ SubSeq(s, 1, n) \in Seq(S) /\ Len(SubSeq(s, 1, n)) = n
         /\ \A i \in 1..n : SubSeq(s, 1, n)[i] = s[i] /\ i \in 1..Len(s)
  <1> DEFINE len == Len(s)
  <1>1. len \in Nat /\ \A i \in 1..len : s[i] \in S
    OBVIOUS
  <1> HIDE DEF len
  <1>2. n \in 0..len
    BY DEF len
  <1>3. \A i \in 1..n : s[i] \in S /\ i \in 1..len
    BY <1>1, <1>2
  <1>4. /\ SubSeq(s, 1, n) \in Seq(S)
        /\ Len(SubSeq(s, 1, n)) = IF 1 <= n THEN n - 1 + 1 ELSE 0
        /\ \A i \in 1..n - 1 + 1 : SubSeq(s, 1, n)[i] = s[1 + i - 1]
    <2>1. n \in Int /\ 1 \in Int
      BY <1>2
    <2> QED BY <1>3, <2>1, SubSeqProperties
  <1> QED BY <1>2, <1>3, <1>4 DEF len

\* The end of a sequence.
LEMMA Ending1 ==
  ASSUME NEW S, NEW s \in Seq(S), NEW k \in 0..Len(s)
  PROVE  /\ SubSeq(s, k + 1, Len(s)) \in Seq(S) /\ Len(SubSeq(s, k + 1, Len(s))) = Len(s) - k
         /\ \A i \in 1..Len(s) - k : SubSeq(s, k + 1, Len(s))[i] = s[k + i] /\ k + i \in 1..Len(s)
  <1>1. PICK n \in Nat : n = Len(s)
    OBVIOUS
  <1>2. k \in 0..n /\ \A i \in k + 1..n : s[i] \in S
    BY <1>1
  <1>3. k + 1 \in Int /\ n \in Int
    BY <1>2
  <1>4. /\ SubSeq(s, k + 1, n) \in Seq(S)
        /\ Len(SubSeq(s, k + 1, n)) = IF k + 1 <= n THEN n - (k + 1) + 1 ELSE 0
        /\ \A i \in 1..n - (k + 1) + 1 : SubSeq(s, k + 1, n)[i] = s[k + 1 + i - 1]
    BY <1>2, <1>3, SubSeqProperties
  <1>5. /\ Len(SubSeq(s, k + 1, n)) = n - k
        /\ \A i \in 1..n - k : SubSeq(s, k + 1, n)[i] = s[k + i] /\ k + i \in 1..n
    BY <1>2, <1>4
  <1> QED BY <1>1, <1>4, <1>5

\* A read takes some pieces off the front.
LEMMA ReadSplit ==
  ASSUME ClientTypeOK, NEW n \in 1..Len(wire),
         ans' = SubSeq(wire, 1, n), wire' = SubSeq(wire, n + 1, Len(wire))
  PROVE  /\ ans' \in Seq(Pieces) /\ Len(ans') = n /\ \A i \in 1..n : ans'[i] = wire[i]
         /\ wire' \in Seq(Pieces) /\ Len(wire') = Len(wire) - n
         /\ \A i \in 1..Len(wire') : wire'[i] = wire[n + i]
  <1>1. wire \in Seq(Pieces)
    BY Zenon DEF ClientTypeOK
  <1>2. n \in 0..Len(wire)
    BY <1>1
  <1>3. ans' \in Seq(Pieces) /\ Len(ans') = n /\ \A i \in 1..n : ans'[i] = wire[i]
    BY <1>1, <1>2, Beginning1
  <1>4. /\ wire' \in Seq(Pieces) /\ Len(wire') = Len(wire) - n
        /\ \A i \in 1..Len(wire) - n : wire'[i] = wire[n + i]
    BY <1>1, <1>2, Ending1
  <1> QED BY <1>3, <1>4, Zenon

LEMMA ReadInv == ClientInv /\ Read => ClientInv'
  <1> SUFFICES ASSUME ClientInv, Read PROVE ClientInv'
    OBVIOUS
  <1> USE DEF ClientInv
  <1>1. PICK n \in 1..Len(wire) : ans' = SubSeq(wire, 1, n) /\ wire' = SubSeq(wire, n + 1, Len(wire))
    BY DEF Read
  <1>2. PICK found \in SaysToken(ans') : reader' = Steps(found)
    BY DEF Read
  <1>3. /\ UNCHANGED <<lines, inbox, link, token, writer, patient, conn, proof>>
        /\ framed' = (framed /\ ans' \in Texts) /\ Now = "recv"
    BY DEF Read, ServerStays
  <1>4. /\ ans' \in Seq(Pieces) /\ Len(ans') = n /\ \A i \in 1..n : ans'[i] = wire[i]
        /\ wire' \in Seq(Pieces) /\ Len(wire') = Len(wire) - n
        /\ \A i \in 1..Len(wire') : wire'[i] = wire[n + i]
    BY <1>1, ReadSplit
  <1>5. n \in Nat /\ Len(wire) \in Nat /\ n > 0 /\ n <= Len(wire)
    <2>1. wire \in Seq(Pieces)
      BY Zenon DEF ClientTypeOK
    <2> QED BY <2>1
  <1>6. /\ reader' \in {<<"print">>, <<"store", "print">>}
        /\ Now' = IF found THEN "store" ELSE "print"
    <2>1. <<"print">> # Loop /\ Head(<<"print">>) = "print"
      BY DEF Loop
    <2>2. <<"store", "print">> # Loop /\ Head(<<"store", "print">>) = "store"
      BY DEF Loop
    <2> QED BY <1>2, <2>1, <2>2 DEF Steps, Now
  <1>7. IInv' /\ Fewer /\ (Plain' => Plain)
    BY <1>3, ServerStaysInv, ServerStaysGrows, PlainBefore, SameIsFewer DEF Read
  <1>8. ClientTypeOK'
    <2>1. patient' \in BOOLEAN /\ framed' \in BOOLEAN
      BY <1>3, Zenon DEF ClientTypeOK
    <2> QED BY <1>3, <1>4, <1>6, <1>7, <2>1, Zenon DEF ClientTypeOK, Fewer, Sent, Pieces, Loop
  <1>9. found => \E i \in 1..n : ans'[i].kind \in {"mark", "odd"}
    <2>1. CASE \E i \in 1..Len(ans') - 1 : ans'[i].kind = "mark"
      BY <1>4, <1>5, <2>1
    <2>2. CASE \E i \in 1..Len(ans') : ans'[i].kind \in {"mark", "odd"}
      BY <1>4, <1>5, <2>2
    <2>3. CASE /\ ~ (\E i \in 1..Len(ans') - 1 : ans'[i].kind = "mark")
               /\ ~ (\E i \in 1..Len(ans') : ans'[i].kind \in {"mark", "odd"})
      <3>1. SaysToken(ans') = {FALSE}
        BY <2>3, Zenon DEF SaysToken
      <3> QED BY <1>2, <3>1, Zenon
    <2> QED BY <2>1, <2>2, <2>3
  <1>13. /\ NoToken => NoToken'
         /\ NoList => NoList'
         /\ NothingOdd(ans) /\ NothingOdd(wire) => NothingOdd(ans') /\ NothingOdd(wire')
    <2>1. \A i \in 1..Len(wire') : n + i \in 1..Len(wire)
      BY <1>4, <1>5
    <2>2. \A i \in 1..Len(ans') : i \in 1..Len(wire)
      BY <1>4, <1>5
    <2> QED BY <1>4, <1>7, <2>1, <2>2, NoNewPieces
  <1>10. StreamInv'
    <2>1. \A i \in 1..Len(ans') : ans'[i].kind = "mark" => i = Len(ans') \/ Marked(ans, i)'
      <3> SUFFICES ASSUME NEW i \in 1..n, ans'[i].kind = "mark", i # n PROVE Marked(ans, i)'
        BY <1>4
      <3>1. i \in 1..Len(wire) /\ i + 1 \in 1..n /\ i < n
        BY <1>5
      <3>2. Marked(wire, i)
        BY <1>4, <3>1 DEF StreamInv
      <3>3. ans'[i] = wire[i] /\ ans'[i + 1] = wire[i + 1]
        BY <1>4, <3>1
      <3> QED BY <1>4, <3>1, <3>2, <3>3 DEF Marked
    <2>2. \A i \in 1..Len(wire') : wire'[i].kind = "mark" => Marked(wire, i)'
      <3> SUFFICES ASSUME NEW i \in 1..Len(wire'), wire'[i].kind = "mark" PROVE Marked(wire, i)'
        OBVIOUS
      <3>1. n + i \in 1..Len(wire) /\ n + i + 1 = n + (i + 1)
        BY <1>4, <1>5
      <3>2. Marked(wire, n + i)
        BY <1>4, <3>1 DEF StreamInv
      <3>3. i < Len(wire') /\ i + 1 \in 1..Len(wire')
        BY <1>4, <1>5, <3>2 DEF Marked
      <3> QED BY <1>4, <3>1, <3>2, <3>3 DEF Marked
    <2>3. \A i \in 2..Len(wire') : wire'[i].kind = "rest" => wire'[i - 1].kind = "mark"
      <3> SUFFICES ASSUME NEW i \in 2..Len(wire'), wire'[i].kind = "rest" PROVE wire'[i - 1].kind = "mark"
        OBVIOUS
      <3>1. n + i \in 2..Len(wire) /\ n + i - 1 = n + (i - 1) /\ i \in 1..Len(wire') /\ i - 1 \in 1..Len(wire')
        BY <1>4, <1>5
      <3>2. wire[n + i].kind = "rest"
        BY <1>4, <3>1
      <3>3. wire[n + i - 1].kind = "mark"
        BY <3>1, <3>2 DEF StreamInv
      <3>4. wire'[i - 1] = wire[n + (i - 1)]
        BY <1>4, <3>1
      <3> QED BY <3>1, <3>3, <3>4
    <2>4. ans' # <<>>
      BY <1>4, <1>5
    <2>5. Now' = "store" => \E i \in 1..Len(ans') : ans'[i].kind \in {"mark", "odd"}
      BY <1>4, <1>6, <1>9
    <2>6. \A i \in 1..Len(wire') : wire'[i].kind = "odd" => i < Len(wire') /\ wire'[i + 1].kind = "mark"
      <3> SUFFICES ASSUME NEW i \in 1..Len(wire'), wire'[i].kind = "odd"
                   PROVE  i < Len(wire') /\ wire'[i + 1].kind = "mark"
        OBVIOUS
      <3>1. n + i \in 1..Len(wire) /\ (n + i) + 1 = n + (i + 1)
        BY <1>4, <1>5
      <3>2. n + i < Len(wire) /\ wire[(n + i) + 1].kind = "mark"
        BY <1>4, <3>1 DEF StreamInv
      <3>3. i < Len(wire') /\ i + 1 \in 1..Len(wire')
        BY <1>4, <1>5, <3>2
      <3> QED BY <1>4, <3>1, <3>2, <3>3
    <2>7. Plain' => NothingOdd(ans') /\ NothingOdd(wire')
      BY <1>7, <1>13, Zenon DEF StreamInv
    <2> QED BY <1>6, <2>1, <2>2, <2>3, <2>4, <2>5, <2>6, <2>7 DEF StreamInv
  <1>11. PatientInv'
    BY <1>3, <1>7, <1>13, PatientKeeps DEF PatientInv
  <1>12. FramedInv'
    <2> SUFFICES ASSUME framed, ans' \in Texts PROVE FramedInv'
      BY <1>3 DEF FramedInv
    <2>1. \/ \E l \in Logins : ans' = TokenText(l)
          \/ \E k \in {"said", "spaced", "odd"} : ans' = Text(k)
      BY DEF Texts
    <2>2. ans'[n].kind # "mark"
      <3>1. ASSUME NEW l \in Logins, ans' = TokenText(l) PROVE ans'[n].kind # "mark"
        <4>1. Len(ans') = 2 /\ ans'[2].kind = "rest"
          BY <3>1 DEF TokenText
        <4> QED BY <1>4, <4>1
      <3>2. ASSUME NEW k \in {"said", "spaced", "odd"}, ans' = Text(k) PROVE ans'[n].kind # "mark"
        <4>1. Len(ans') = 1 /\ ans'[1].kind = k
          BY <3>2 DEF Text
        <4> QED BY <1>4, <4>1
      <3> QED BY <2>1, <3>1, <3>2
    <2>3. wire' # <<>> => wire'[1].kind # "rest"
      <3> SUFFICES ASSUME Len(wire') > 0, wire'[1].kind = "rest" PROVE FALSE
        BY <1>4
      <3>1. n + 1 \in 2..Len(wire) /\ n + 1 - 1 = n /\ wire'[1] = wire[n + 1]
        BY <1>4, <1>5
      <3>2. wire[n].kind = "mark"
        BY <3>1 DEF StreamInv
      <3> QED BY <1>4, <1>5, <2>2, <3>2
    <2>7. ASSUME ans' = Text("odd") PROVE \E i \in 1..Len(wire') : wire'[i].kind = "rest"
      <3>1. n = 1 /\ wire[1].kind = "odd" /\ 1 \in 1..Len(wire)
        <4>1. Len(ans') = 1 /\ ans'[1].kind = "odd"
          BY <2>7 DEF Text
        <4> QED BY <1>4, <1>5, <4>1
      <3>2. 1 < Len(wire) /\ wire[1 + 1].kind = "mark"
        BY <3>1 DEF StreamInv
      <3>3. 2 \in 1..Len(wire) /\ wire[2].kind = "mark"
        BY <1>5, <3>2
      <3>4. 2 < Len(wire) /\ wire[2 + 1].kind = "rest"
        <4>1. Marked(wire, 2)
          BY <3>3 DEF StreamInv
        <4> QED BY <4>1 DEF Marked
      <3>5. 2 \in 1..Len(wire') /\ wire'[2] = wire[1 + 2]
        BY <1>4, <1>5, <3>1, <3>4
      <3> QED BY <3>4, <3>5
    <2>4. Now' = "store" => \/ \E l \in Logins : ans' = TokenText(l)
                            \/ ans' = Text("odd") /\ \E i \in 1..Len(wire') : wire'[i].kind = "rest"
      <3>1. Now' = "store" => \E i \in 1..n : ans'[i].kind \in {"mark", "odd"}
        BY <1>6, <1>9
      <3>2. ASSUME NEW k \in {"said", "spaced"}, ans' = Text(k)
            PROVE  \A i \in 1..n : ans'[i].kind \notin {"mark", "odd"}
        BY <1>4, <3>2 DEF Text
      <3> QED BY <2>1, <2>7, <3>1, <3>2
    <2>5. ASSUME conn[Me] = "open", \E i \in 1..Len(wire') : wire'[i].kind = "rest",
                 NEW i \in 1..Len(wire'), wire'[i].kind = "rest",
                 \A j \in i + 1..Len(wire') : wire'[j].kind # "rest"
          PROVE  Mine(wire'[i].of)
      <3>1. n + i \in 1..Len(wire) /\ wire'[i] = wire[n + i]
        BY <1>4, <1>5
      <3>2. \A j \in n + i + 1..Len(wire) : wire[j].kind # "rest"
        <4> TAKE j \in n + i + 1..Len(wire)
        <4>1. j - n \in i + 1..Len(wire') /\ j - n \in 1..Len(wire') /\ n + (j - n) = j
          BY <1>4, <1>5
        <4> QED BY <1>4, <2>5, <4>1
      <3> QED BY <2>5, <3>1, <3>2 DEF FramedInv, Due, IsRest
    <2>6. ASSUME conn[Me] = "open", ~ \E i \in 1..Len(wire') : wire'[i].kind = "rest"
          PROVE  IF Now' = "store" THEN Mine(ans'[2].of) ELSE Mine(token)
      <3>1. \A j \in n + 1..Len(wire) : wire[j].kind # "rest"
        <4> TAKE j \in n + 1..Len(wire)
        <4>1. j - n \in 1..Len(wire') /\ n + (j - n) = j
          BY <1>4, <1>5
        <4> QED BY <1>4, <2>6, <4>1
      <3>2. ASSUME NEW l \in Logins, ans' = TokenText(l)
            PROVE  Now' = "store" /\ Mine(ans'[2].of)
        <4>1. n = 2 /\ ans'[1].kind = "mark" /\ ans'[2].kind = "rest"
          BY <1>4, <3>2 DEF TokenText
        <4>2. found
          <5>1. 1 \in 1..Len(ans') - 1
            BY <1>4, <4>1
          <5>2. SaysToken(ans') = {TRUE}
            BY <4>1, <5>1, Zenon DEF SaysToken
          <5> QED BY <1>2, <5>2, Zenon
        <4>3. 2 \in 1..Len(wire) /\ wire[2] = ans'[2] /\ \A j \in 2 + 1..Len(wire) : wire[j].kind # "rest"
          BY <1>4, <1>5, <3>1, <4>1
        <4> QED BY <1>6, <2>6, <4>1, <4>2, <4>3 DEF FramedInv, Due, IsRest
      <3>3. ASSUME NEW k \in {"said", "spaced"}, ans' = Text(k)
            PROVE  Now' # "store" /\ Mine(token)
        <4>1. n = 1 /\ ans'[1].kind = k
          BY <1>4, <3>3 DEF Text
        <4>2. ~ found
          BY <1>4, <1>9, <4>1
        <4>3. \A j \in 1..Len(wire) : wire[j].kind # "rest"
          BY <1>4, <1>5, <3>1, <4>1
        <4> QED BY <1>3, <1>6, <2>6, <4>2, <4>3 DEF FramedInv, Due, IsRest
      <3> QED BY <2>1, <2>6, <2>7, <3>2, <3>3
    <2> QED BY <1>3, <2>3, <2>4, <2>5, <2>6 DEF FramedInv, Due, IsRest, Mine, TokenText, Text
  <1> QED BY <1>7, <1>8, <1>10, <1>11, <1>12


----------------------------------------------------------------------------
(***************************************************************************)
(* The network.                                                            *)
(***************************************************************************)

LEMMA ReleaseInv == ClientInv /\ Release => ClientInv'
  <1> SUFFICES ASSUME ClientInv, Release PROVE ClientInv'
    OBVIOUS
  <1> DEFINE box == inbox[Me]
  <1>1. PICK n \in buffered[Me]..Len(box) :
               /\ inbox' = [inbox EXCEPT ![Me] = SubSeq(box, 1, n)]
               /\ lines' = SubSeq(lines, 1, n)
    BY DEF Release
  <1>2. /\ conn[Me] = "open" /\ conn' = [conn EXCEPT ![Me] = "eof"] /\ wire' = <<>> /\ last' = Silent
        /\ UNCHANGED <<users, autorized, session, proof, buffered, link, token, writer, reader, ans, patient, framed>>
    BY DEF Release
  <1>3. /\ box \in Seq(Beginnings) /\ buffered[Me] \in Nat /\ conn'[Me] = "eof"
        /\ lines \in Seq(Sent) /\ Len(lines) = Len(box)
        /\ \A b : [inbox EXCEPT ![Me] = b][Me] = b
    BY <1>2, ClientAssumption DEF ClientInv, ClientTypeOK, IInv, TypeOK
  <1>4. n \in 0..Len(box) /\ n \in 0..Len(lines) /\ buffered[Me] <= n
    BY <1>3
  <1>5. /\ SubSeq(box, 1, n) \in Seq(Beginnings) /\ Len(SubSeq(box, 1, n)) = n
        /\ \A i \in 1..n : SubSeq(box, 1, n)[i] = box[i] /\ i \in 1..Len(box)
    BY <1>3, <1>4, Beginning1
  <1>6. /\ SubSeq(lines, 1, n) \in Seq(Sent) /\ Len(SubSeq(lines, 1, n)) = n
        /\ \A i \in 1..n : SubSeq(lines, 1, n)[i] = lines[i] /\ i \in 1..Len(lines)
    BY <1>3, <1>4, Beginning1
  <1>7. inbox'[Me] = SubSeq(box, 1, n)
    BY <1>1, <1>3
  <1> HIDE DEF box
  <1>8. Fewer
    <2>1. Fewer <=> /\ lines' \in Seq(Sent) /\ Len(lines') = Len(inbox'[Me])
                    /\ \A i \in 1..Len(lines') : \E j \in 1..Len(lines) : lines'[i] = lines[j]
                    /\ \A i \in 1..Len(inbox'[Me]) : inbox'[Me][i] = "blank" =>
                         \E j \in 1..Len(box) : box[j] = "blank"
      BY DEF Fewer, box
    <2> QED BY <1>1, <1>5, <1>6, <1>7, <2>1
  <1>9. IInv'
    BY <1>1, <1>2, <1>4, <1>5, InboxInv DEF ClientInv
  <1> QED BY <1>2, <1>3, <1>8, <1>9, NothingNew DEF ClientInv, ClientTypeOK, Now, TableGrows

----------------------------------------------------------------------------
(***************************************************************************)
(* The main thread sends a command.                                        *)
(***************************************************************************)

\* What the main thread may find in token.
Tokenlike == Logins \cup {"", "cut", "tangle", "poison", "torn"}

\* The lines of a command: itself and what a bad token makes of it.
LEMMA NewLines ==
  ASSUME NEW cmd \in Typed, NEW t \in Tokenlike,
         NEW made \in LinesOf(cmd, t)
  PROVE  /\ made \in Seq(Sent) /\ Len(made) \in 1..3
         /\ \A i \in 1..Len(made) : /\ made[i].cmd \in {cmd, "unknown", "blank"}
                                    /\ made[i].cmd = "blank" => t = "poison"
                                    /\ made[i].token = "torn" => t = "torn"
  <1>1. /\ \A u \in {t, ""} : Line(cmd, u) \in Sent /\ Line(cmd, u).cmd = cmd /\ Line(cmd, u).token = u
        /\ Junk \in Sent /\ Junk.cmd = "unknown" /\ Junk.token = ""
        /\ Line("blank", "") \in Sent /\ Line("blank", "").cmd = "blank" /\ Line("blank", "").token = ""
    BY DEF Line, Junk, Sent, Tokenlike
  <1>2. cmd # "blank"
    BY ClientAssumption DEF Protected, Moderation
  <1>3. \/ \E u \in {t, ""} : made = <<Line(cmd, u)>>
        \/ made = <<Line(cmd, t), Junk>>
        \/ t = "poison" /\ made = <<Line(cmd, t), Line("blank", ""), Junk>>
    <2>1. CASE cmd \notin Protected \cup {"unknown"}
      <3>1. LinesOf(cmd, t) = {<<Line(cmd, "")>>}
        BY <2>1, Zenon DEF LinesOf
      <3> QED BY <3>1
    <2>2. CASE cmd \in Protected \cup {"unknown"} /\ t = "tangle"
      BY <2>2 DEF LinesOf
    <2>3. CASE cmd \in Protected \cup {"unknown"} /\ t = "poison"
      BY <2>3 DEF LinesOf
    <2>4. CASE cmd \in Protected \cup {"unknown"} /\ t \notin {"tangle", "poison"}
      BY <2>4 DEF LinesOf
    <2> QED BY <2>1, <2>2, <2>3, <2>4
  <1>4. \A S : \A a \in S : <<a>> \in Seq(S) /\ Len(<<a>>) = 1 /\ <<a>>[1] = a
    OBVIOUS
  <1>5. \A S : \A a, b \in S : <<a, b>> \in Seq(S) /\ Len(<<a, b>>) = 2 /\ <<a, b>>[1] = a /\ <<a, b>>[2] = b
    OBVIOUS
  <1>6. \A S : \A a, b, c \in S :
          /\ <<a, b, c>> \in Seq(S) /\ Len(<<a, b, c>>) = 3
          /\ <<a, b, c>>[1] = a /\ <<a, b, c>>[2] = b /\ <<a, b, c>>[3] = c
    OBVIOUS
  <1>7. 1..1 = {1} /\ 1..2 = {1, 2} /\ 1..3 = {1, 2, 3}
    OBVIOUS
  <1>8. CASE \E u \in {t, ""} : made = <<Line(cmd, u)>>
    <2>1. PICK u \in {t, ""} : made = <<Line(cmd, u)>>
      BY <1>8
    <2>2. made \in Seq(Sent) /\ Len(made) = 1 /\ made[1] = Line(cmd, u)
      BY <1>1, <1>4, <2>1, Zenon
    <2> QED BY <1>1, <1>2, <1>7, <2>2
  <1>9. CASE made = <<Line(cmd, t), Junk>>
    <2>1. made \in Seq(Sent) /\ Len(made) = 2 /\ made[1] = Line(cmd, t) /\ made[2] = Junk
      BY <1>1, <1>5, <1>9, Zenon
    <2> QED BY <1>1, <1>2, <1>7, <2>1
  <1>10. CASE t = "poison" /\ made = <<Line(cmd, t), Line("blank", ""), Junk>>
    <2>1. made \in Seq(Sent) /\ Len(made) = 3 /\ made[1] = Line(cmd, t) /\ made[2] = Line("blank", "") /\ made[3] = Junk
      BY <1>1, <1>6, <1>10, Zenon
    <2>2. \A i \in {1, 2, 3} : /\ made[i].cmd \in {cmd, "unknown", "blank"}
                               /\ made[i].cmd = "blank" => t = "poison"
                               /\ made[i].token = "torn" => t = "torn"
      BY <1>1, <1>10, <2>1
    <2> QED BY <1>7, <2>1, <2>2, Zenon
  <1> QED BY <1>3, <1>8, <1>9, <1>10

\* Whoever has waited finds nothing under way.
LEMMA QuietIsEmpty ==
  ASSUME ClientTypeOK, IInv, StreamInv, Quiet
  PROVE  wire = <<>> /\ ans = <<>> /\ inbox[Me] = <<>> /\ lines = <<>> /\ Seen = {token}
  <1>1. Now \notin Busy /\ wire = <<>> /\ inbox[Me] = <<>>
    BY ReaderStates DEF Quiet
  <1>2. ans = <<>> /\ Seen = {token}
    BY <1>1 DEF StreamInv, Busy, Seen
  <1>3. Len(lines) = 0 /\ lines \in Seq(Sent)
    <2>1. Len(lines) = Len(inbox[Me]) /\ lines \in Seq(Sent)
      BY DEF ClientTypeOK
    <2> QED BY <1>1, <2>1
  <1> QED BY <1>1, <1>2, <1>3


\* A line is sent, or nothing is.
LEMMA TypeInv == ClientInv /\ (\E cmd \in Typed : Type(cmd)) => ClientInv'
  <1> SUFFICES ASSUME ClientInv, NEW cmd \in Typed, Type(cmd) PROVE ClientInv'
    OBVIOUS
  <1> USE DEF ClientInv
  <1> DEFINE box == inbox[Me]
  <1>1. /\ patient' = (patient /\ Quiet) /\ last' = Silent
        /\ UNCHANGED <<users, autorized, session, proof, conn, buffered, wire, token, reader, ans, framed>>
    BY DEF Type
  <1>2. writer' \in {"prompt", "leaving"}
    BY DEF Type, NextPrompt
  <1>3. /\ box \in Seq(Beginnings) /\ buffered[Me] \in Nat /\ buffered[Me] <= Len(box)
        /\ lines \in Seq(Sent) /\ Len(lines) = Len(box)
        /\ \A b : [inbox EXCEPT ![Me] = b][Me] = b
        /\ wire \in Seq(Pieces) /\ ans \in Seq(Pieces) /\ link \in {"up", "late", "reset"}
        /\ token \in Tokenlike /\ token # "torn"
    BY ClientAssumption DEF ClientTypeOK, IInv, TypeOK, Tokenlike
  <1>9. Plain' => Plain
    BY <1>1, PlainBefore DEF TableGrows
  <1>4. StreamInv'
    <2>1. Plain' => NothingOdd(ans) /\ NothingOdd(wire)
      BY <1>9, Zenon DEF StreamInv
    <2> QED BY <1>1, <2>1 DEF StreamInv, Marked, NothingOdd, Now
  <1>5. FramedInv'
    BY <1>1 DEF FramedInv, Due, IsRest, Mine, Now
  <1>6. patient' \in BOOLEAN /\ framed' \in BOOLEAN
    BY <1>1, Zenon DEF ClientTypeOK
  <1>7. CASE UNCHANGED <<lines, inbox>> /\ link' = IF link = "up" THEN "late" ELSE link
    <2>1. IInv'
      BY <1>1, <1>7, ServerStaysInv DEF ServerStays
    <2>2. link' \in {"up", "late", "reset"}
      BY <1>3, <1>7
    <2>3. ClientTypeOK'
      BY <1>1, <1>2, <1>6, <1>7, <2>2, Zenon DEF ClientTypeOK, Sent, Pieces, Loop
    <2>4. PatientInv'
      <3> SUFFICES ASSUME patient, Quiet PROVE PatientInv'
        BY <1>1 DEF PatientInv
      <3>1. lines' = <<>> /\ inbox'[Me] = <<>> /\ Len(<<>>) = 0 /\ wire' = <<>> /\ ans' = <<>> /\ (Plain' => token' # "poison")
        BY <1>1, <1>7, <1>9, QuietIsEmpty DEF PatientInv
      <3> QED BY <3>1 DEF PatientInv, NoToken, PatientTokensAreWhole, PatientClientsKillNobody
    <2> QED BY <1>4, <1>5, <2>1, <2>3, <2>4
  <1>8. CASE /\ conn[Me] = "open" /\ UNCHANGED link
             /\ \E t \in Seen : \E made \in LinesOf(cmd, t) :
                  /\ lines' = lines \o made
                  /\ inbox' = [inbox EXCEPT ![Me] = @ \o [i \in 1..Len(made) |-> Beginning(made[i])]]
    <2>0. PICK t \in Seen : \E made \in LinesOf(cmd, t) :
                  /\ lines' = lines \o made
                  /\ inbox' = [inbox EXCEPT ![Me] = box \o [i \in 1..Len(made) |-> Beginning(made[i])]]
      BY <1>8
    <2>1. PICK made \in LinesOf(cmd, t) :
                  /\ lines' = lines \o made
                  /\ inbox' = [inbox EXCEPT ![Me] = box \o [i \in 1..Len(made) |-> Beginning(made[i])]]
      BY <2>0
    <2> DEFINE kinds == [i \in 1..Len(made) |-> Beginning(made[i])]
    <2>2. t \in Tokenlike
      BY <1>3 DEF Seen, Tokenlike
    <2>3. /\ made \in Seq(Sent) /\ Len(made) \in 1..3
          /\ \A i \in 1..Len(made) : /\ made[i].cmd \in {cmd, "unknown", "blank"}
                                     /\ made[i].cmd = "blank" => t = "poison"
                                     /\ made[i].token = "torn" => t = "torn"
      BY <2>1, <2>2, NewLines
    <2>4. kinds \in Seq(Beginnings) /\ Len(kinds) = Len(made)
      <3>1. \A l : Beginning(l) \in Beginnings
        BY DEF Beginning, Beginnings
      <3>2. Len(made) \in Nat
        BY <2>3
      <3> DEFINE len == Len(made)
      <3> HIDE DEF len
      <3>3. len \in Nat
        BY <3>2 DEF len
      <3>4. /\ [i \in 1..len |-> Beginning(made[i])] \in Seq(Beginnings)
            /\ Len([i \in 1..len |-> Beginning(made[i])]) = len
        BY <3>1, <3>3
      <3> QED BY <3>4 DEF len
    <2>5. \A i \in 1..Len(made) : kinds[i] = "blank" => t = "poison"
      <3>1. \A l : Beginning(l) = "blank" => l.cmd = "blank"
        BY DEF Beginning
      <3>2. \A i \in 1..Len(made) : kinds[i] = Beginning(made[i])
        OBVIOUS
      <3> QED BY <2>3, <3>1, <3>2
    <2> HIDE DEF kinds
    <2>6. /\ box \o kinds \in Seq(Beginnings) /\ Len(box \o kinds) = Len(box) + Len(made)
          /\ \A i \in 1..Len(box) + Len(made) :
               (box \o kinds)[i] = IF i <= Len(box) THEN box[i] ELSE kinds[i - Len(box)]
      <3>1. box \in Seq(Beginnings) /\ kinds \in Seq(Beginnings)
        BY <1>3, <2>4
      <3> HIDE DEF box
      <3>2. /\ box \o kinds \in Seq(Beginnings) /\ Len(box \o kinds) = Len(box) + Len(kinds)
            /\ \A i \in 1..Len(box) + Len(kinds) :
                 (box \o kinds)[i] = IF i <= Len(box) THEN box[i] ELSE kinds[i - Len(box)]
        BY <3>1, ConcatProperties, Zenon
      <3> QED BY <2>4, <3>2, Zenon
    <2>7. /\ lines' \in Seq(Sent) /\ Len(lines') = Len(box) + Len(made)
          /\ \A i \in 1..Len(box) + Len(made) :
               lines'[i] = IF i <= Len(box) THEN lines[i] ELSE made[i - Len(box)]
      <3>1. lines \in Seq(Sent) /\ made \in Seq(Sent) /\ Len(lines) = Len(box)
        BY <1>3, <2>3
      <3> HIDE DEF box
      <3>2. /\ lines \o made \in Seq(Sent) /\ Len(lines \o made) = Len(lines) + Len(made)
            /\ \A i \in 1..Len(lines) + Len(made) :
                 (lines \o made)[i] = IF i <= Len(lines) THEN lines[i] ELSE made[i - Len(lines)]
        BY <3>1, ConcatProperties, Zenon
      <3>3. lines' = lines \o made
        BY <2>1
      <3> QED BY <3>1, <3>2, <3>3, Zenon
    <2>8. inbox' = [inbox EXCEPT ![Me] = box \o kinds] /\ inbox'[Me] = box \o kinds
      BY <1>3, <2>1 DEF kinds
    <2>9. buffered[Me] <= Len(box \o kinds)
      <3>1. Len(box) \in Nat /\ Len(made) \in Nat
        BY <1>3, <2>3
      <3> HIDE DEF box
      <3> QED BY <1>3, <2>6, <3>1
    <2> HIDE DEF box
    <2>10. IInv'
      BY <1>1, <2>6, <2>8, <2>9, InboxInv DEF box
    <2>11. ClientTypeOK'
      <3>1. lines' \in Seq(Sent) /\ Len(lines') = Len(inbox'[Me])
        BY <2>6, <2>7, <2>8
      <3> QED BY <1>1, <1>2, <1>6, <1>8, <3>1, Zenon DEF ClientTypeOK, Sent, Pieces, Loop
    <2>12. PatientInv'
      <3> SUFFICES ASSUME patient, Quiet PROVE PatientInv'
        BY <1>1 DEF PatientInv
      <3>1. wire = <<>> /\ ans = <<>> /\ box = <<>> /\ t = token /\ (Plain' => token # "poison")
        BY <1>9, QuietIsEmpty DEF PatientInv, box
      <3>2. Len(box) = 0
        BY <3>1
      <3>3. lines' \in Seq(Sent) /\ Len(lines') = Len(made) /\ \A i \in 1..Len(made) : lines'[i] = made[i]
        BY <2>3, <2>7, <3>2
      <3>4. Len(inbox'[Me]) = Len(made) /\ \A i \in 1..Len(made) : inbox'[Me][i] = kinds[i]
        BY <2>3, <2>6, <2>8, <3>2
      <3>5. token # "torn"
        BY <1>3, ClientAssumption
      <3>6. PatientTokensAreWhole'
        <4>1. \A i \in 1..Len(made) : made[i].token # "torn"
          BY <2>3, <3>1, <3>5
        <4> QED BY <3>3, <4>1, Zenon DEF PatientTokensAreWhole
      <3>7. PatientClientsKillNobody'
        BY <2>5, <3>1, <3>4 DEF PatientClientsKillNobody
      <3>8. wire' = <<>> /\ ans' = <<>> /\ Len(<<>>) = 0
        BY <1>1, <3>1
      <3>9. NoToken' \/ NoList'
        <4>1. CASE cmd = "/login"
          <5>1. \A i \in 1..Len(made) : made[i].cmd # "/get_flats"
            BY <2>3, <4>1
          <5>2. \A i \in 1..Len(lines') : lines'[i].cmd # "/get_flats"
            BY <3>3, <5>1, Zenon
          <5> QED BY <3>8, <5>2 DEF NoList
        <4>2. CASE cmd # "/login"
          <5>1. \A i \in 1..Len(made) : made[i].cmd # "/login"
            BY <2>3, <4>2
          <5>2. \A i \in 1..Len(lines') : lines'[i].cmd # "/login"
            BY <3>3, <5>1, Zenon
          <5> QED BY <3>8, <5>2 DEF NoToken
        <4> QED BY <4>1, <4>2
      <3> QED BY <1>1, <3>1, <3>6, <3>7, <3>9 DEF PatientInv
    <2> QED BY <1>4, <1>5, <2>10, <2>11, <2>12
  <1> QED BY <1>7, <1>8 DEF Type


----------------------------------------------------------------------------
(***************************************************************************)
(* The client is started.                                                  *)
(***************************************************************************)

\* A client that has nothing under way, and whose session has nobody.
Untouched ==
  /\ lines = <<>> /\ wire = <<>> /\ ans = <<>> /\ link = "up" /\ token = ""
  /\ writer \in {"prompt", "leaving", "closed"} /\ reader \in {<<>>, <<"done">>}
  /\ patient = TRUE /\ framed = TRUE
  /\ inbox[Me] = <<>> /\ proof[Me] = "none"

LEMMA UntouchedInv == IInv /\ Untouched => ClientInv
  <1> SUFFICES ASSUME IInv, Untouched PROVE ClientInv
    OBVIOUS
  <1>1. \A S : <<>> \in Seq(S)
    OBVIOUS
  <1>2. Len(<<>>) = 0 /\ 1..0 = {} /\ 2..0 = {}
    OBVIOUS
  <1>0. /\ lines = <<>> /\ wire = <<>> /\ ans = <<>> /\ link = "up" /\ inbox[Me] = <<>>
        /\ writer \in {"prompt", "leaving", "closed"} /\ reader \in {<<>>, <<"done">>}
    BY Zenon DEF Untouched
  <1>3. patient \in BOOLEAN /\ framed \in BOOLEAN
    BY Zenon DEF Untouched
  <1>4. reader \in {Loop, <<"recv">>, <<"done">>, <<"print">>, <<"store", "print">>} /\ Now \in {"loop", "done"}
    <2>1. reader = Loop \/ reader = <<"done">>
      BY Zenon DEF Untouched, Loop
    <2> QED BY <2>1, ReaderNow, Zenon
  <1>5. ClientTypeOK
    BY <1>1, <1>3, <1>4, Zenon DEF ClientTypeOK, Untouched
  <1>6. StreamInv
    <2>1. NothingOdd(ans) /\ NothingOdd(wire)
      BY <1>0, <1>2, Zenon DEF NothingOdd
    <2> QED BY <1>0, <1>2, <1>4, <2>1 DEF StreamInv
  <1>7. PatientInv
    <2>1. token # "poison"
      BY Zenon DEF Untouched
    <2>2. NoToken /\ PatientTokensAreWhole /\ PatientClientsKillNobody
      BY <1>0, <1>2 DEF NoToken, PatientTokensAreWhole, PatientClientsKillNobody
    <2> QED BY <2>1, <2>2, Zenon DEF PatientInv
  <1>8. FramedInv
    <2>1. Mine(token)
      BY Zenon DEF Mine, Untouched
    <2>2. Now # "store" /\ ~ Due
      BY <1>0, <1>2, <1>4 DEF Due
    <2> QED BY <1>0, <2>1, <2>2, Zenon DEF FramedInv
  <1> QED BY <1>5, <1>6, <1>7, <1>8, Zenon DEF ClientInv

LEMMA InitClientInv == ClientInit => ClientInv
  <1> SUFFICES ASSUME ClientInit PROVE ClientInv
    OBVIOUS
  <1>1. IInv
    BY InitIInv DEF ClientInit
  <1>2. inbox[Me] = <<>> /\ proof[Me] = "none"
    BY ClientAssumption DEF ClientInit, Init
  <1>3. Untouched
    BY <1>2, Zenon DEF ClientInit, Untouched
  <1> QED BY <1>1, <1>3, UntouchedInv

LEMMA StartClientInv == ClientInv /\ StartClient => ClientInv'
  <1> SUFFICES ASSUME ClientInv, StartClient PROVE ClientInv'
    OBVIOUS
  <1>1. IInv'
    BY SessionStepInv DEF ClientInv, StartClient
  <1>2. inbox'[Me] = <<>> /\ proof'[Me] = "none"
    BY ClientAssumption DEF StartClient, Connect, ClientInv, IInv, TypeOK
  <1>3. Untouched'
    BY <1>2, Zenon DEF StartClient, Untouched, Loop
  <1> QED BY <1>1, <1>3, UntouchedInv, PTL


----------------------------------------------------------------------------
(***************************************************************************)
(* The session runs a line.                                                *)
(***************************************************************************)

LEMMA Joined ==
  ASSUME NEW S, NEW s \in Seq(S), NEW t \in Seq(S)
  PROVE  /\ s \o t \in Seq(S) /\ Len(s \o t) = Len(s) + Len(t)
         /\ \A i \in 1..Len(s) : (s \o t)[i] = s[i]
         /\ \A i \in 1..Len(t) : (s \o t)[Len(s) + i] = t[i]
  OBVIOUS

LEMMA Shifted == \A m, k \in Nat : \A i \in 1..k : m + i \in 1..m + k
  OBVIOUS

\* An answer joins those that are under way.
LEMMA AnswerComes ==
  ASSUME ClientInv, IInv', Fewer, TableGrows,
         UNCHANGED <<link, token, writer, reader, ans, patient, framed>>,
         NEW a \in Seq(Pieces), wire' = wire \o a, conn[Me] = "open",
         \A i \in 1..Len(a) : a[i].kind = "mark" => Marked(a, i),
         \A i \in 1..Len(a) : a[i].kind = "rest" =>
           i # 1 /\ a[i - 1].kind = "mark" /\ proof'[Me] # "none" /\ a[i].of = proof'[Me],
         (\A i \in 1..Len(a) : a[i].kind # "rest") => proof'[Me] = proof[Me],
         \A i \in 1..Len(a) : a[i].kind = "odd" => i < Len(a) /\ a[i + 1].kind = "mark",
         Plain' => NothingOdd(a),
         NoToken => \A i \in 1..Len(a) : a[i].kind \notin {"mark", "rest", "odd"},
         NoList => \A i \in 1..Len(a) : a[i].kind # "spaced"
  PROVE  ClientInv'
  <1> USE DEF ClientInv
  <1>0. wire \in Seq(Pieces)
    BY DEF ClientTypeOK
  <1>m. PICK m \in Nat : m = Len(wire)
    BY <1>0
  <1>k. PICK k \in Nat : k = Len(a)
    OBVIOUS
  <1>1. /\ m \in Nat /\ k \in Nat /\ wire' \in Seq(Pieces) /\ Len(wire') = m + k
        /\ \A i \in 1..m : wire'[i] = wire[i]
        /\ \A i \in 1..k : wire'[m + i] = a[i]
    <2>1. /\ wire \o a \in Seq(Pieces) /\ Len(wire \o a) = Len(wire) + Len(a)
          /\ \A i \in 1..Len(wire) : (wire \o a)[i] = wire[i]
          /\ \A i \in 1..Len(a) : (wire \o a)[Len(wire) + i] = a[i]
      <3> USE <1>0
      <3>1. wire \o a \in Seq(Pieces) /\ Len(wire \o a) = Len(wire) + Len(a)
        BY Joined
      <3>2. \A i \in 1..Len(wire) : (wire \o a)[i] = wire[i]
        BY Joined
      <3>3. \A i \in 1..Len(a) : (wire \o a)[Len(wire) + i] = a[i]
        BY Joined
      <3> QED BY <3>1, <3>2, <3>3, Zenon
    <2>2. wire' = wire \o a
      OBVIOUS
    <2> QED BY <1>m, <1>k, <2>1, <2>2, Zenon
  <1>p. \A i \in 1..k : m + i \in 1..m + k
    BY <1>1, Shifted, Zenon
  <1>2. Now' = Now /\ ans' = ans /\ token' = token
    BY DEF Now
  <1>3. ClientTypeOK'
    BY <1>1, Zenon DEF ClientTypeOK, Fewer, Sent, Pieces, Loop
  <1>4. \A i \in 1..m + k : i \in 1..m \/ \E j \in 1..k : i = m + j
    <2> TAKE i \in 1..m + k
    <2>1. i \in 1..m \/ (i - m \in 1..k /\ i = m + (i - m))
      BY <1>1
    <2> QED BY <2>1
  <1>5. StreamInv'
    <2>1. \A i \in 1..m : wire[i].kind = "mark" => Marked(wire, i)
      BY <1>m DEF StreamInv
    <2>2. \A i \in 2..m : wire[i].kind = "rest" => wire[i - 1].kind = "mark"
      BY <1>m DEF StreamInv
    <2>3. \A i \in 1..Len(ans') : ans'[i].kind = "mark" => i = Len(ans') \/ Marked(ans, i)'
      BY <1>2 DEF StreamInv, Marked
    <2>4. \A i \in 1..m : Marked(wire, i) => Marked(wire, i)'
      <3> SUFFICES ASSUME NEW i \in 1..m, Marked(wire, i) PROVE Marked(wire, i)'
        OBVIOUS
      <3>1. i < m /\ wire[i + 1] = [kind |-> "rest", of |-> wire[i].of]
        BY <1>m DEF Marked
      <3>2. i \in 1..m /\ i + 1 \in 1..m /\ i < m + k
        BY <1>1, <3>1
      <3> QED BY <1>1, <3>1, <3>2, Zenon DEF Marked
    <2>5. \A i \in 1..k : Marked(a, i) => Marked(wire, m + i)'
      <3> SUFFICES ASSUME NEW i \in 1..k, Marked(a, i) PROVE Marked(wire, m + i)'
        OBVIOUS
      <3>1. i < k /\ a[i + 1] = [kind |-> "rest", of |-> a[i].of]
        BY <1>k DEF Marked
      <3>2. i \in 1..k /\ i + 1 \in 1..k /\ m + i < m + k /\ (m + i) + 1 = m + (i + 1)
        BY <1>1, <3>1
      <3> QED BY <1>1, <3>1, <3>2, Zenon DEF Marked
    <2>6. \A i \in 1..m + k : wire'[i].kind = "mark" => Marked(wire, i)'
      <3> SUFFICES ASSUME NEW i \in 1..m + k, wire'[i].kind = "mark" PROVE Marked(wire, i)'
        OBVIOUS
      <3>1. CASE i \in 1..m
        BY <1>1, <2>1, <2>4, <3>1, Zenon
      <3>2. ASSUME NEW j \in 1..k, i = m + j PROVE Marked(wire, i)'
        <4>1. a[j].kind = "mark"
          BY <1>1, <3>2
        <4>2. Marked(a, j)
          BY <1>k, <4>1
        <4> QED BY <2>5, <3>2, <4>2
      <3> QED BY <1>4, <3>1, <3>2
    <2>7. \A i \in 2..m + k : wire'[i].kind = "rest" => wire'[i - 1].kind = "mark"
      <3> SUFFICES ASSUME NEW i \in 2..m + k, wire'[i].kind = "rest" PROVE wire'[i - 1].kind = "mark"
        OBVIOUS
      <3>0. i \in 1..m + k
        BY <1>1
      <3>1. CASE i \in 1..m
        <4>1. i - 1 \in 1..m /\ i \in 2..m
          BY <1>1, <3>1
        <4> QED BY <1>1, <2>2, <3>1, <4>1
      <3>2. ASSUME NEW j \in 1..k, i = m + j PROVE wire'[i - 1].kind = "mark"
        <4>1. a[j].kind = "rest"
          BY <1>1, <3>2
        <4>2. j # 1 /\ a[j - 1].kind = "mark"
          BY <1>k, <4>1
        <4>3. j - 1 \in 1..k /\ i - 1 = m + (j - 1)
          BY <1>1, <3>2, <4>2
        <4> QED BY <1>1, <4>2, <4>3
      <3> QED BY <1>4, <3>0, <3>1, <3>2
    <2>8. \A i \in 1..m + k : wire'[i].kind = "odd" => i < m + k /\ wire'[i + 1].kind = "mark"
      <3> SUFFICES ASSUME NEW i \in 1..m + k, wire'[i].kind = "odd"
                   PROVE  i < m + k /\ wire'[i + 1].kind = "mark"
        OBVIOUS
      <3>1. CASE i \in 1..m
        <4>1. i < m /\ wire[i + 1].kind = "mark"
          BY <1>1, <1>m, <3>1 DEF StreamInv
        <4>2. i + 1 \in 1..m /\ i < m + k
          BY <1>1, <3>1, <4>1
        <4> QED BY <1>1, <4>1, <4>2
      <3>2. ASSUME NEW j \in 1..k, i = m + j PROVE i < m + k /\ wire'[i + 1].kind = "mark"
        <4>1. a[j].kind = "odd"
          BY <1>1, <3>2
        <4>2. j < k /\ a[j + 1].kind = "mark"
          BY <1>k, <4>1
        <4>3. j + 1 \in 1..k /\ i + 1 = m + (j + 1) /\ i < m + k
          BY <1>1, <3>2, <4>2
        <4> QED BY <1>1, <4>2, <4>3
      <3> QED BY <1>4, <3>1, <3>2
    <2>9. Plain' => NothingOdd(ans') /\ NothingOdd(wire')
      <3> SUFFICES ASSUME Plain' PROVE NothingOdd(ans') /\ NothingOdd(wire')
        OBVIOUS
      <3>1. NothingOdd(ans) /\ NothingOdd(wire) /\ NothingOdd(a)
        BY PlainBefore DEF StreamInv
      <3>2. \A i \in 1..m : wire[i].kind # "odd"
        BY <1>m, <3>1 DEF NothingOdd
      <3>3. \A i \in 1..k : a[i].kind # "odd"
        BY <1>k, <3>1 DEF NothingOdd
      <3>4. \A i \in 1..m + k : wire'[i].kind # "odd"
        <4> SUFFICES ASSUME NEW i \in 1..m + k PROVE wire'[i].kind # "odd"
          OBVIOUS
        <4>1. CASE i \in 1..m
          BY <1>1, <3>2, <4>1
        <4>2. ASSUME NEW j \in 1..k, i = m + j PROVE wire'[i].kind # "odd"
          BY <1>1, <3>3, <4>2
        <4> QED BY <1>4, <4>1, <4>2
      <3> QED BY <1>1, <1>2, <3>1, <3>4 DEF NothingOdd
    <2> QED BY <1>1, <1>2, <2>3, <2>6, <2>7, <2>8, <2>9 DEF StreamInv
  <1>6. \A i \in 1..Len(wire') : (\E j \in 1..m : wire'[i] = wire[j]) \/ \E j \in 1..k : wire'[i] = a[j]
    <2> SUFFICES ASSUME NEW i \in 1..m + k
                 PROVE  (\E j \in 1..m : wire'[i] = wire[j]) \/ \E j \in 1..k : wire'[i] = a[j]
      BY <1>1
    <2>1. CASE i \in 1..m
      BY <1>1, <2>1
    <2>2. ASSUME NEW j \in 1..k, i = m + j PROVE \E q \in 1..k : wire'[i] = a[q]
      BY <1>1, <2>2
    <2> QED BY <1>4, <2>1, <2>2
  <1>7. PatientInv'
    <2>0. ans' = ans /\ Len(wire') \in Nat
      BY <1>1
    <2>1. ASSUME NoToken PROVE NoToken'
      <3>1. \A i \in 1..Len(lines') : lines'[i].cmd # "/login"
        BY <2>1, Zenon DEF NoToken, Fewer
      <3>2. \A i \in 1..Len(wire') : wire'[i].kind \notin {"mark", "rest", "odd"}
        <4>1. \A j \in 1..m : wire[j].kind \notin {"mark", "rest", "odd"}
          BY <1>m, <2>1 DEF NoToken
        <4>2. \A j \in 1..k : a[j].kind \notin {"mark", "rest", "odd"}
          BY <1>k, <2>1, Zenon
        <4> QED BY <1>6, <4>1, <4>2
      <3> QED BY <2>0, <2>1, <3>1, <3>2, Zenon DEF NoToken
    <2>2. ASSUME NoList PROVE NoList'
      <3>1. \A i \in 1..Len(lines') : lines'[i].cmd # "/get_flats"
        BY <2>2, Zenon DEF NoList, Fewer
      <3>2. \A i \in 1..Len(wire') : wire'[i].kind # "spaced"
        <4>1. \A j \in 1..m : wire[j].kind # "spaced"
          BY <1>m, <2>2 DEF NoList
        <4>2. \A j \in 1..k : a[j].kind # "spaced"
          BY <1>k, <2>2, Zenon
        <4>3. ASSUME NEW i \in 1..Len(wire') PROVE wire'[i].kind # "spaced"
          <5>1. ASSUME NEW j \in 1..m, wire'[i] = wire[j] PROVE wire'[i].kind # "spaced"
            <6>1. wire[j].kind # "spaced"
              BY <4>1, Zenon
            <6> QED BY <5>1, <6>1
          <5>2. ASSUME NEW j \in 1..k, wire'[i] = a[j] PROVE wire'[i].kind # "spaced"
            <6>1. a[j].kind # "spaced"
              BY <4>2, Zenon
            <6> QED BY <5>2, <6>1
          <5>3. (\E j \in 1..m : wire'[i] = wire[j]) \/ \E j \in 1..k : wire'[i] = a[j]
            BY <1>6, <4>3, Zenon
          <5> QED BY <5>1, <5>2, <5>3, Zenon
        <4> QED BY <4>3, Zenon
      <3> QED BY <2>0, <2>2, <3>1, <3>2, Zenon DEF NoList
    <2>3. Plain' => Plain
      BY PlainBefore
    <2> QED BY <2>1, <2>2, <2>3, PatientKeeps DEF PatientInv
  <1>8. FramedInv'
    <2> SUFFICES ASSUME framed PROVE FramedInv'
      BY DEF FramedInv
    <2>0. PICK due \in BOOLEAN : due <=> \E i \in 1..m + k : wire'[i].kind = "rest"
      OBVIOUS
    <2>9. Due' <=> due
      BY <1>1, <2>0 DEF Due, IsRest
    <2>1. /\ wire # <<>> => wire[1].kind # "rest"
          /\ Now = "store" => \/ \E l \in Logins : ans = TokenText(l)
                              \/ ans = Text("odd") /\ \E i \in 1..m : wire[i].kind = "rest"
      BY <1>m DEF FramedInv, Due, IsRest
    <2>7. Now' = "store" => (\E l \in Logins : ans' = TokenText(l)) \/ (ans' = Text("odd") /\ due)
      <3>1. \A i \in 1..m : i \in 1..m + k
        BY <1>1
      <3> QED BY <1>1, <1>2, <2>0, <2>1, <3>1
    <2>8. (due => \A i \in 1..m + k : wire'[i].kind = "rest" /\ (\A j \in i + 1..m + k : wire'[j].kind # "rest")
                                      => Mine(wire[i].of)')
          /\ (~ due => IF Now' = "store" THEN Mine(ans[2].of)' ELSE Mine(token)')
          /\ (wire' # <<>> => wire'[1].kind # "rest")
          => FramedInv'
      BY <1>1, <2>7, <2>9, Zenon DEF FramedInv, IsRest, TokenText, Text
    <2>2. m = 0 <=> wire = <<>>
      BY <1>0, <1>m
    <2>3. m + k = 0 <=> wire' = <<>>
      BY <1>1
    <2>4. wire' # <<>> => wire'[1].kind # "rest"
      <3>1. CASE m > 0
        <4>1. 1 \in 1..m /\ m # 0
          BY <3>1
        <4> QED BY <1>1, <2>1, <2>2, <4>1, Zenon
      <3>2. CASE m = 0 /\ k > 0
        <4>1. 1 \in 1..k /\ m + 1 = 1
          BY <1>1, <3>2
        <4>2. a[1].kind # "rest"
          BY <1>k, <4>1
        <4>3. wire'[1] = a[1]
          BY <1>1, <4>1, Zenon
        <4> QED BY <4>2, <4>3
      <3> QED BY <1>1, <2>3, <3>1, <3>2
    <2>5. CASE \E i \in 1..k : a[i].kind = "rest"
      <3>1. ASSUME NEW i \in 1..m + k, wire'[i].kind = "rest", \A j \in i + 1..m + k : wire'[j].kind # "rest"
            PROVE  Mine(wire[i].of)'
        <4>1. PICK q \in 1..k : a[q].kind = "rest"
          BY <2>5
        <4>2. wire'[m + q].kind = "rest" /\ m + q \in 1..m + k
          BY <1>1, <1>p, <4>1, Zenon
        <4>3. ~ (i < m + q)
          BY <1>1, <3>1, <4>2
        <4>4. i - m \in 1..k /\ i = m + (i - m)
          BY <1>1, <4>3
        <4>5. wire'[i] = a[i - m]
          BY <1>1, <4>4
        <4>6. proof'[Me] # "none" /\ wire'[i].of = proof'[Me]
          BY <1>k, <3>1, <4>4, <4>5
        <4> QED BY <4>6, Zenon DEF Mine
      <3>2. \E i \in 1..m + k : wire'[i].kind = "rest"
        <4>1. PICK q \in 1..k : a[q].kind = "rest"
          BY <2>5
        <4>2. wire'[m + q].kind = "rest" /\ m + q \in 1..m + k
          BY <1>1, <1>p, <4>1, Zenon
        <4> QED BY <4>2
      <3> QED BY <2>0, <2>4, <2>8, <3>1, <3>2, Zenon
    <2>6. CASE \A i \in 1..k : a[i].kind # "rest"
      <3>1. proof'[Me] = proof[Me]
        BY <1>k, <2>6
      <3>2. \A t : Mine(t)' <=> Mine(t)
        BY <3>1, Zenon DEF Mine
      <3>3. \A i \in 1..m + k : wire'[i].kind = "rest" => i \in 1..m /\ wire'[i] = wire[i]
        <4> SUFFICES ASSUME NEW i \in 1..m + k, wire'[i].kind = "rest" PROVE i \in 1..m
          BY <1>1
        <4>1. ASSUME NEW j \in 1..k, i = m + j PROVE FALSE
          BY <1>1, <2>6, <4>1
        <4> QED BY <1>4, <4>1
      <3>4. \A i \in 1..m : i \in 1..m + k /\ \A j \in i + 1..m : j \in i + 1..m + k /\ j \in 1..m
        BY <1>1
      <3>5. (\E i \in 1..m + k : wire'[i].kind = "rest") <=> \E i \in 1..m : wire[i].kind = "rest"
        BY <1>1, <3>3, <3>4, Zenon
      <3>6. IF \E i \in 1..m : wire[i].kind = "rest"
              THEN \A i \in 1..m : wire[i].kind = "rest" /\ (\A j \in i + 1..m : wire[j].kind # "rest") => Mine(wire[i].of)
              ELSE IF Now = "store" THEN Mine(ans[2].of) ELSE Mine(token)
        BY <1>m, Zenon DEF FramedInv, Due, IsRest
      <3>7. ASSUME NEW i \in 1..m + k, wire'[i].kind = "rest", \A j \in i + 1..m + k : wire'[j].kind # "rest"
            PROVE  Mine(wire[i].of)'
        <4>1. i \in 1..m /\ wire'[i] = wire[i]
          BY <3>3, <3>7
        <4>2. \A j \in i + 1..m : wire[j].kind # "rest"
          BY <1>1, <3>4, <3>7, <4>1, Zenon
        <4>3. Mine(wire[i].of)
          BY <3>6, <3>7, <4>1, <4>2, Zenon
        <4>4. Mine(wire[i].of) => wire[i].of = IF proof'[Me] = "none" THEN "" ELSE proof'[Me]
          BY <3>1, Zenon DEF Mine
        <4> QED BY <4>1, <4>3, <4>4, Zenon DEF Mine
      <3>8. ~ (\E i \in 1..m + k : wire'[i].kind = "rest") =>
              IF Now' = "store" THEN Mine(ans[2].of)' ELSE Mine(token)'
        BY <1>2, <3>1, <3>5, <3>6, Zenon DEF Mine
      <3> QED BY <2>0, <2>4, <2>8, <3>7, <3>8, Zenon
    <2> QED BY <2>5, <2>6
  <1> QED BY <1>3, <1>5, <1>7, <1>8


\* Taking out a line, and with it perhaps the first character of the next one.
LEMMA LineGone ==
  ASSUME ClientInv, RunLine(Me), RunsHead
  PROVE  Fewer /\ lines # <<>>
  <1> USE DEF ClientInv
  <1> DEFINE box == inbox[Me]
             rest == Tail(box)
  <1>1. /\ box \in Seq(Beginnings) /\ lines \in Seq(Sent) /\ Len(lines) = Len(box)
        /\ \A b : [inbox EXCEPT ![Me] = b][Me] = b
    BY ClientAssumption DEF IInv, TypeOK, ClientTypeOK
  <1>2. box # <<>>
    <2>1. buffered[Me] \in Nat /\ buffered[Me] <= Len(box) /\ buffered[Me] > 0
      BY ClientAssumption DEF IInv, TypeOK, RunLine
    <2> QED BY <1>1, <2>1
  <1>3. /\ rest \in Seq(Beginnings) /\ Len(rest) = Len(box) - 1
        /\ \A i \in 1..Len(rest) : rest[i] = box[i + 1] /\ i + 1 \in 1..Len(box)
    BY <1>1, <1>2
  <1>4. \/ inbox'[Me] = rest
        \/ rest # <<>> /\ \E b \in Behead(Head(rest)) : inbox'[Me] = b \o Tail(rest)
    <2>1. Erase(Me)
      BY DEF RunLine
    <2>2. CASE inbox' = [inbox EXCEPT ![Me] = rest]
      BY <1>1, <2>2
    <2>3. CASE rest # <<>> /\ \E b \in Behead(Head(rest)) : inbox' = [inbox EXCEPT ![Me] = b \o Tail(rest)]
      BY <1>1, <2>3
    <2> QED BY <2>1, <2>2, <2>3 DEF Erase
  <1>5. PICK n \in Nat : n = Len(box)
    BY <1>1
  <1>6. PICK left : left = inbox'[Me]
    OBVIOUS
  <1>7. ASSUME rest # <<>>, NEW b \in Behead(Head(rest)), left = b \o Tail(rest)
        PROVE  /\ left \in Seq(Beginnings) /\ Len(b) \in {0, 1} /\ n >= 2 /\ Len(left) = Len(b) + (n - 2)
               /\ \A i \in 1..Len(b) + (n - 2) :
                    i <= Len(b) \/ (i - Len(b) + 2 \in 1..n /\ left[i] = box[i - Len(b) + 2])
    <2>1. PICK after : after = Tail(rest)
      OBVIOUS
    <2>2. /\ after \in Seq(Beginnings) /\ Len(after) = n - 2 /\ n >= 2
          /\ \A j \in 1..n - 2 : after[j] = box[j + 2]
      <3>1. /\ after \in Seq(Beginnings) /\ Len(after) = Len(rest) - 1 /\ Len(rest) \in Nat /\ Len(rest) > 0
            /\ \A j \in 1..Len(after) : after[j] = rest[j + 1]
        <4>1. rest \in Seq(Beginnings) /\ rest # <<>>
          BY <1>3, <1>7
        <4>2. Len(rest) \in Nat /\ Len(rest) > 0
          BY <4>1, EmptySeq
        <4>3. /\ Tail(rest) \in Seq(Beginnings) /\ Len(Tail(rest)) = Len(rest) - 1
              /\ \A j \in 1..Len(Tail(rest)) : Tail(rest)[j] = rest[j + 1]
          BY <4>1, HeadTailProperties, Zenon
        <4> QED BY <2>1, <4>2, <4>3, Zenon
      <3>2. Len(rest) = n - 1
        BY <1>3, <1>5
      <3>3. Len(after) = n - 2 /\ n >= 2
        BY <3>1, <3>2
      <3>4. \A j \in 1..n - 2 : j + 1 \in 1..n - 1 /\ (j + 1) + 1 = j + 2
        OBVIOUS
      <3> QED BY <1>3, <3>1, <3>2, <3>3, <3>4
    <2>3. b \in Seq(Beginnings) /\ Len(b) \in {0, 1}
      BY <1>3, <1>7, BeheadShape
    <2>4. PICK e \in {0, 1} : e = Len(b)
      BY <2>3
    <2>5. /\ left \in Seq(Beginnings) /\ Len(left) = Len(b) + Len(after)
          /\ \A i \in 1..Len(b) + Len(after) : left[i] = IF i <= Len(b) THEN b[i] ELSE after[i - Len(b)]
      BY <1>7, <2>1, <2>2, <2>3, ConcatProperties, Zenon
    <2>6. \A i \in 1..e + (n - 2) : i <= e \/ left[i] = after[i - e]
      BY <2>2, <2>4, <2>5, Zenon
    <2>7. \A i \in 1..e + (n - 2) : i <= e \/ (i - e + 2 \in 1..n /\ i - e \in 1..n - 2)
      BY <2>2
    <2>8. \A i \in 1..e + (n - 2) : i <= e \/ (i - e + 2 \in 1..n /\ left[i] = box[i - e + 2])
      BY <2>2, <2>6, <2>7, Zenon
    <2> QED BY <2>2, <2>3, <2>4, <2>5, <2>8, Zenon
  <1>8. left \in Seq(Beginnings) /\ Len(left) \in 0..n - 1
    <2>1. CASE left = rest
      BY <1>3, <1>5, <2>1
    <2>2. ASSUME rest # <<>>, NEW b \in Behead(Head(rest)), left = b \o Tail(rest)
          PROVE  left \in Seq(Beginnings) /\ Len(left) \in 0..n - 1
      <3>1. /\ left \in Seq(Beginnings) /\ Len(b) \in {0, 1} /\ n >= 2 /\ Len(left) = Len(b) + (n - 2)
        BY <1>7, <2>2
      <3>2. PICK e \in {0, 1} : e = Len(b)
        BY <3>1
      <3>3. e + (n - 2) \in 0..n - 1
        BY <3>1, <3>2
      <3> QED BY <3>1, <3>2, <3>3, Zenon
    <2> QED BY <1>4, <1>6, <2>1, <2>2
  <1>9. \A i \in 1..Len(left) : left[i] = "blank" => \E j \in 1..n : box[j] = "blank"
    <2>1. CASE left = rest
      BY <1>3, <1>5, <2>1
    <2>2. ASSUME left # rest, rest # <<>>, NEW b \in Behead(Head(rest)), left = b \o Tail(rest),
                 NEW i \in 1..Len(left), left[i] = "blank"
          PROVE  \E j \in 1..n : box[j] = "blank"
      <3>1. /\ left \in Seq(Beginnings) /\ Len(b) \in {0, 1} /\ n >= 2 /\ Len(left) = Len(b) + (n - 2)
            /\ i <= Len(b) \/ (i - Len(b) + 2 \in 1..n /\ left[i] = box[i - Len(b) + 2])
        BY <1>7, <2>2
      <3>2. ~ (i <= Len(b))
        <4> SUFFICES ASSUME i <= Len(b) PROVE FALSE
          OBVIOUS
        <4>0. PICK e \in {0, 1} : e = Len(b)
          BY <3>1
        <4>1. i = 1
          <5>1. i \in Nat /\ i >= 1 /\ i <= e
            BY <1>8, <2>2, <4>0
          <5> QED BY <5>1
        <4>2. left # <<>> /\ Head(left) = "blank"
          BY <1>8, <2>2, <4>1
        <4>3. left = Tail(box)
          BY <1>6, <4>2 DEF RunsHead
        <4> QED BY <2>2, <4>3
      <3> QED BY <2>2, <3>1, <3>2
    <2> QED BY <1>4, <1>6, <2>1, <2>2
  <1>10. PICK k \in 0..n : k = n - Len(left)
    BY <1>8
  <1>11. lines' = SubSeq(lines, k + 1, Len(lines))
    <2>1. 1 + Len(box) - Len(left) = k + 1
      BY <1>5, <1>8, <1>10
    <2> QED BY <1>6, <2>1 DEF RunsHead
  <1>12. /\ lines' \in Seq(Sent) /\ Len(lines') = Len(lines) - k
         /\ \A i \in 1..Len(lines) - k : lines'[i] = lines[k + i] /\ k + i \in 1..Len(lines)
    BY <1>1, <1>5, <1>10, <1>11, Ending1
  <1>13. Len(lines') = Len(left)
    BY <1>1, <1>5, <1>8, <1>10, <1>12
  <1>14. lines # <<>>
    BY <1>1, <1>2
  <1> QED BY <1>5, <1>6, <1>9, <1>12, <1>13, <1>14 DEF Fewer


\* What an answer may look like: a text, and the token behind it if it is the answer
\* to a login.
LEMMA AnswerShape ==
  ASSUME NEW cmd, NEW reply, NEW now, cmd = "/login" /\ reply = "ok" => now.login \in Logins,
         NEW a \in Answers(cmd, reply, now)
  PROVE  /\ a \in Seq(Pieces)
         /\ \A i \in 1..Len(a) : a[i].kind = "mark" => Marked(a, i)
         /\ \A i \in 1..Len(a) : a[i].kind = "rest" => i # 1 /\ a[i - 1].kind = "mark" /\ a[i].of = now.login
         /\ \A i \in 1..Len(a) : a[i].kind = "odd" => i < Len(a) /\ a[i + 1].kind = "mark" /\ OddRole(now.role)
         /\ \A i \in 1..Len(a) : a[i].kind \in {"mark", "rest", "odd"} => cmd = "/login" /\ reply = "ok"
         /\ cmd = "/login" /\ reply = "ok" => \E i \in 1..Len(a) : a[i].kind = "rest"
         /\ \A i \in 1..Len(a) : a[i].kind = "spaced" => cmd = "/get_flats"
  <1> DEFINE said   == [kind |-> "said", of |-> "none"]
             spaced == [kind |-> "spaced", of |-> "none"]
             odd    == [kind |-> "odd", of |-> "none"]
             greet  == IF OddRole(now.role) THEN odd ELSE said
             mark   == [kind |-> "mark", of |-> now.login]
             rest   == [kind |-> "rest", of |-> now.login]
  <1>1. said \in Pieces /\ spaced \in Pieces /\ odd \in Pieces
    BY DEF Pieces
  <1>2. CASE reply = "none"
    <2>1. a = <<>>
      BY <1>2 DEF Answers
    <2>2. a \in Seq(Pieces) /\ Len(a) = 0 /\ 1..0 = {}
      BY <2>1
    <2> QED BY <1>2, <2>2, Zenon
  <1>3. CASE cmd = "/login" /\ reply = "ok"
    <2>1. a = Greeting(now.role) \o TokenText(now.login)
      BY <1>3 DEF Answers
    <2>2. mark \in Pieces /\ rest \in Pieces
      BY <1>3 DEF Pieces
    <2>3. Greeting(now.role) = <<greet>> /\ TokenText(now.login) = <<mark, rest>>
      BY DEF Greeting, Text, TokenText
    <2>8. greet \in Pieces /\ greet \in {said, odd} /\ (greet = odd => OddRole(now.role))
      <3>1. said # odd
        OBVIOUS
      <3> QED BY <1>1, <3>1
    <2> HIDE DEF greet, mark, rest
    <2>4. /\ Greeting(now.role) \in Seq(Pieces) /\ Len(Greeting(now.role)) = 1 /\ Greeting(now.role)[1] = greet
          /\ TokenText(now.login) \in Seq(Pieces) /\ Len(TokenText(now.login)) = 2
          /\ TokenText(now.login)[1] = mark /\ TokenText(now.login)[2] = rest
      <3>1. <<greet>> \in Seq(Pieces) /\ <<mark, rest>> \in Seq(Pieces)
        BY <2>2, <2>8
      <3>2. /\ Len(<<greet>>) = 1 /\ <<greet>>[1] = greet /\ Len(<<mark, rest>>) = 2
            /\ <<mark, rest>>[1] = mark /\ <<mark, rest>>[2] = rest
        OBVIOUS
      <3> QED BY <2>3, <3>1, <3>2, Zenon
    <2>5. /\ a \in Seq(Pieces) /\ Len(a) = 1 + 2
          /\ \A i \in 1..1 + 2 : a[i] = IF i <= 1 THEN Greeting(now.role)[i] ELSE TokenText(now.login)[i - 1]
      <3>1. PICK p \in Seq(Pieces) : p = Greeting(now.role) /\ Len(p) = 1
        BY <2>4
      <3>2. PICK q \in Seq(Pieces) : q = TokenText(now.login) /\ Len(q) = 2
        BY <2>4
      <3>3. /\ p \o q \in Seq(Pieces) /\ Len(p \o q) = Len(p) + Len(q)
            /\ \A i \in 1..Len(p) + Len(q) : (p \o q)[i] = IF i <= Len(p) THEN p[i] ELSE q[i - Len(p)]
        BY ConcatProperties, Zenon
      <3> QED BY <2>1, <3>1, <3>2, <3>3, Zenon
    <2>6. Len(a) = 3 /\ a[1] = greet /\ a[2] = mark /\ a[3] = rest
      BY <2>4, <2>5
    <2>7. 1..3 = {1, 2, 3} /\ 3 - 1 = 2 /\ 2 + 1 = 3 /\ 2 < 3
      OBVIOUS
    <2> QED BY <1>3, <2>5, <2>6, <2>7, <2>8 DEF Marked, mark, rest
  <1>4. CASE reply # "none" /\ ~ (cmd = "/login" /\ reply = "ok")
    <2>1. a = Text("said") \/ (a = Text("spaced") /\ cmd = "/get_flats")
      <3>1. CASE cmd = "/get_flats" /\ reply = "ok"
        BY <1>4, <3>1 DEF Answers
      <3>2. CASE ~ (cmd = "/get_flats" /\ reply = "ok")
        BY <1>4, <3>2 DEF Answers
      <3> QED BY <3>1, <3>2
    <2>2. PICK x \in {said, spaced} : a = <<x>> /\ (x = spaced => cmd = "/get_flats")
      BY <2>1 DEF Text
    <2>3. \A S : \A y \in S : <<y>> \in Seq(S)
      OBVIOUS
    <2>4. a \in Seq(Pieces)
      BY <1>1, <2>2, <2>3, Zenon
    <2>5. Len(a) = 1 /\ a[1] = x /\ 1..1 = {1}
      BY <2>2
    <2> QED BY <1>4, <2>2, <2>4, <2>5
  <1> QED BY <1>2, <1>3, <1>4

\* What running a line does to the connection and to who is logged in on it.
LEMMA CommandRun ==
  ASSUME IInv, NEW b, execute_command(Me, b)
  PROVE  /\ conn'[Me] \in {conn[Me], "quit"}
         /\ conn'[Me] = "quit" \/ proof' = proof \/ (last'.cmd = "/login" /\ last'.reply = "ok")
         /\ last'.cmd = "/login" /\ last'.reply = "ok" => proof'[Me] \in Logins
         /\ b # "command" => last'.cmd = "unknown"
  <1>1. \A c, t, r : Reply(Me, c, t, r) => last'.cmd = c /\ last'.reply = r
    BY DEF Reply
  <1>2. Me \in Sessions /\ conn \in [Sessions -> {"off", "open", "eof", "quit"}] /\ proof \in [Sessions -> Logins \cup {"none"}]
    BY ClientAssumption DEF IInv, TypeOK
  <1>3. NoChange => conn' = conn /\ proof' = proof
    BY DEF NoChange
  <1>4. CASE Unknown(Me)
    BY <1>1, <1>3, <1>4 DEF Unknown
  <1>5. CASE b = "command" /\ Malformed(Me)
    <2>1. last'.reply \in {"malformed", "none"}
      BY <1>1, <1>5 DEF Malformed
    <2> QED BY <1>3, <1>5, <2>1 DEF Malformed
  <1>6. CASE b = "command" /\ Login(Me)
    <2>1. ASSUME NEW l \in Logins, proof' = [proof EXCEPT ![Me] = l], Reply(Me, "/login", "", "ok"), conn' = conn
          PROVE  proof'[Me] \in Logins
      BY <1>2, <2>1
    <2>2. ASSUME Reply(Me, "/login", "", "error") PROVE last'.reply = "error"
      BY <1>1, <2>2
    <2> QED BY <1>1, <1>3, <1>6, <2>1, <2>2 DEF Login
  <1>7. CASE b = "command" /\ Register(Me)
    BY <1>1, <1>7 DEF Register
  <1>8. CASE b = "command" /\ Guarded(Me)
    <2>1. last'.cmd \in Protected
      BY <1>1, <1>8 DEF Guarded
    <2> QED BY <1>3, <1>8, <2>1 DEF Guarded, Protected, Moderation
  <1>9. CASE b = "command" /\ Quit(Me)
    <2>1. conn'[Me] = "quit" /\ last'.cmd = "/quit"
      BY <1>1, <1>2, <1>9 DEF Quit
    <2> QED BY <1>9, <2>1
  <1>10. CASE b = "command" /\ Commands(Me)
    <2>1. last'.cmd = "/commands" /\ NoChange
      BY <1>1, <1>10, Zenon DEF Commands
    <2> QED BY <1>3, <1>10, <2>1
  <1> QED BY <1>4, <1>5, <1>6, <1>7, <1>8, <1>9, <1>10 DEF execute_command

\* The line that is run is the first of those that were sent.
LEMMA ServeInv == ClientInv /\ Serve => ClientInv'
  <1> SUFFICES ASSUME ClientInv, Serve PROVE ClientInv'
    OBVIOUS
  <1>1. /\ RunLine(Me) /\ RunsHead /\ execute_command(Me, Head(inbox[Me]))
        /\ UNCHANGED <<token, writer, reader, ans, patient, framed>>
    BY DEF Serve, RunLine
  <1>2. IInv' /\ Fewer /\ lines # <<>>
    BY <1>1, LineGone, SessionStepInv DEF ClientInv
  <1>7. TableGrows
    <2>1. CASE Register(Me)
      BY <2>1 DEF Register, TableGrows
    <2>2. CASE ~ Register(Me)
      BY <1>1, <2>2 DEF execute_command, Unknown, Malformed, Login, Guarded, Quit, Commands, NoChange, TableGrows
    <2> QED BY <2>1, <2>2
  <1>3. /\ conn'[Me] \in {conn[Me], "quit"}
        /\ conn'[Me] = "quit" \/ proof' = proof \/ (last'.cmd = "/login" /\ last'.reply = "ok")
        /\ last'.cmd = "/login" /\ last'.reply = "ok" => proof'[Me] \in Logins
        /\ Head(inbox[Me]) # "command" => last'.cmd = "unknown"
    BY <1>1, CommandRun DEF ClientInv
  <1>4. 1 \in 1..Len(lines) /\ (last'.cmd \in {"/login", "/get_flats"} => lines[1].cmd = last'.cmd)
    <2>1. lines \in Seq(Sent)
      BY DEF ClientInv, ClientTypeOK
    <2>2. 1 \in 1..Len(lines) /\ Head(lines) = lines[1]
      BY <1>2, <2>1
    <2>3. Head(inbox[Me]) = "command" => last'.cmd = Head(lines).cmd
      BY <1>1 DEF RunsHead
    <2> QED BY <1>3, <2>2, <2>3
  <1>5. CASE conn[Me] = "open" /\ conn'[Me] # "quit"
    <2>1. PICK a \in Answers(last'.cmd, last'.reply, session'[Me]) : wire' = wire \o a /\ UNCHANGED link
      BY <1>5 DEF Serve
    <2>7. /\ session'[Me].login = proof'[Me]
          /\ proof'[Me] # "none" => /\ users'[proof'[Me]] # NoRow
                                    /\ session'[Me].role = Stripped(users'[proof'[Me]])
      <3>1. conn'[Me] # "off"
        BY <1>3, <1>5
      <3> QED BY <1>2, <3>1, ClientAssumption DEF IInv, RoleIsCurrent
    <2>8. "none" \notin Logins
      BY TcpAssumption
    <2>2. /\ a \in Seq(Pieces)
          /\ \A i \in 1..Len(a) : a[i].kind = "mark" => Marked(a, i)
          /\ \A i \in 1..Len(a) : a[i].kind = "rest" => i # 1 /\ a[i - 1].kind = "mark" /\ a[i].of = proof'[Me]
          /\ \A i \in 1..Len(a) : a[i].kind = "odd" => /\ i < Len(a) /\ a[i + 1].kind = "mark"
                                                       /\ OddRole(session'[Me].role)
          /\ \A i \in 1..Len(a) : a[i].kind \in {"mark", "rest", "odd"} => last'.cmd = "/login" /\ last'.reply = "ok"
          /\ last'.cmd = "/login" /\ last'.reply = "ok" => \E i \in 1..Len(a) : a[i].kind = "rest"
          /\ \A i \in 1..Len(a) : a[i].kind = "spaced" => last'.cmd = "/get_flats"
      BY <1>3, <2>1, <2>7, AnswerShape
    <2>3. \A i \in 1..Len(a) : a[i].kind = "rest" =>
            i # 1 /\ a[i - 1].kind = "mark" /\ proof'[Me] # "none" /\ a[i].of = proof'[Me]
      BY <1>3, <2>2, <2>8
    <2>4. (\A i \in 1..Len(a) : a[i].kind # "rest") => proof'[Me] = proof[Me]
      BY <1>3, <1>5, <2>2
    <2>5. NoToken => \A i \in 1..Len(a) : a[i].kind \notin {"mark", "rest", "odd"}
      BY <1>4, <2>2 DEF NoToken
    <2>6. NoList => \A i \in 1..Len(a) : a[i].kind # "spaced"
      BY <1>4, <2>2 DEF NoList
    <2>9. Plain' => NothingOdd(a)
      <3> SUFFICES ASSUME Plain', NEW i \in 1..Len(a), a[i].kind = "odd" PROVE FALSE
        BY DEF NothingOdd
      <3>1. proof'[Me] \in Logins /\ proof'[Me] # "none" /\ OddRole(session'[Me].role)
        BY <1>3, <2>2, <2>8
      <3>2. OddRole(Stripped(users'[proof'[Me]]))
        BY <2>7, <3>1, Zenon
      <3>3. Plain' = \A k \in Logins : users'[k] # NoRow => ~ OddRole(Stripped(users'[k]))
        BY DEF Plain, OddRole, Stripped, Without
      <3> QED BY <2>7, <3>1, <3>2, <3>3, Zenon
    <2> QED BY <1>1, <1>2, <1>5, <1>7, <2>1, <2>2, <2>3, <2>4, <2>5, <2>6, <2>9, AnswerComes
  <1>6. CASE conn[Me] # "open" \/ conn'[Me] = "quit"
    <2>1. conn'[Me] # "open" /\ (wire' = wire \/ wire' = <<>>) /\ link' \in {"up", "late", "reset"}
      <3>1. link \in {"up", "late", "reset"}
        BY DEF ClientInv, ClientTypeOK
      <3>2. (UNCHANGED <<wire, link>>) \/ Closing(wire)
        BY <1>6 DEF Serve
      <3> QED BY <1>3, <1>6, <3>1, <3>2 DEF Closing
    <2>2. writer' \in {"prompt", "leaving", "closed"} /\ Now' = Now
          /\ reader' \in {Loop, <<"recv">>, <<"done">>, <<"print">>, <<"store", "print">>}
      BY <1>1 DEF ClientInv, ClientTypeOK, Now
    <2> QED BY <1>1, <1>2, <1>7, <2>1, <2>2, NothingNew
  <1> QED BY <1>5, <1>6

----------------------------------------------------------------------------

LEMMA NextClientInv == ClientInv /\ [ClientNext]_allVars => ClientInv'
  <1> SUFFICES ASSUME ClientInv, [ClientNext]_allVars PROVE ClientInv'
    OBVIOUS
  <1>1. CASE UNCHANGED allVars
    <2>1. /\ UNCHANGED <<lines, inbox, wire, link, token, writer, reader, ans, patient, framed, conn, proof>>
          /\ UNCHANGED vars
      BY <1>1 DEF allVars, clientVars, vars
    <2>2. IInv' /\ Fewer /\ TableGrows
      BY <2>1, NextIInv, SameIsFewer DEF ClientInv, TableGrows, vars
    <2> QED BY <2>1, <2>2, NothingNew DEF ClientInv, ClientTypeOK, Now
  <1>2. CASE ClientNext
    BY <1>2, StartClientInv, TypeInv, CloseInv, CallReadInv, ReadInv, ReadErrorInv, StoreInv, ShowInv,
       ReleaseInv, ResetArrivesInv, ServeInv, ServerDiesInv, ServerStepInv
       DEF ClientNext, MainThread, ReaderThread
  <1> QED BY <1>1, <1>2

\* The invariant that the theorems rest on.
THEOREM ClientInvariance == ClientSpec => []ClientInv
  <1> QED BY InitClientInv, NextClientInv, PTL DEF ClientSpec

\* A client whose user waits for the answers never sends a torn token, whatever
\* reads return and whenever its other thread runs.
THEOREM WholeTokens == ClientSpec => []PatientTokensAreWhole
  <1>1. ClientInv => PatientTokensAreWhole
    BY Zenon DEF ClientInv, PatientInv, PatientTokensAreWhole
  <1> QED BY <1>1, ClientInvariance, PTL

\* .. and, as long as no role in the users table holds a line end or a marker when it
\* is read, never sends the empty line that kills the server.
THEOREM NoFatalLine == ClientSpec => []PatientClientsKillNobody
  <1>1. ClientInv => PatientClientsKillNobody
    BY Zenon DEF ClientInv, PatientInv, PatientClientsKillNobody
  <1> QED BY <1>1, ClientInvariance, PTL

\* A client whose reads return whole answers has the token of the user that the
\* session acts for, whenever nothing is under way.
THEOREM OwnToken == ClientSpec => []FramedTokenIsMine
  <1>1. ClientInv => FramedTokenIsMine
    <2> SUFFICES ASSUME ClientInv, framed, Quiet, conn[Me] = "open" PROVE Mine(token)
      BY Zenon DEF FramedTokenIsMine, Mine
    <2>1. wire = <<>> /\ Now # "store"
      BY QuietIsEmpty, ReaderStates DEF ClientInv, Busy
    <2>2. ~ Due
      BY <2>1 DEF Due
    <2> QED BY <2>1, <2>2, Zenon DEF ClientInv, FramedInv
  <1> QED BY <1>1, ClientInvariance, PTL

\* The variables of the client keep their types.
THEOREM ClientTypes == ClientSpec => []ClientTypeOK
  <1>1. ClientInv => ClientTypeOK
    BY DEF ClientInv
  <1> QED BY <1>1, ClientInvariance, PTL

----------------------------------------------------------------------------
(***************************************************************************)
(* With its client, whose lines are what the two threads make of them, the *)
(* session still does only what AccessControl allows.                      *)
(***************************************************************************)

\* A step of the client that leaves the session where it is ends what was granted.
LEMMA ClientAllowed ==
  ASSUME UNCHANGED <<users, proof>>, last' = Silent,
         \A s \in Sessions : conn'[s] = "off" <=> conn[s] = "off"
  PROVE  Allowed
  <1>1. Actor' = Actor /\ RoleRead' = RoleRead
    BY DEF Actor, RoleRead
  <1>2. Granted' = Access!Nothing
    BY SilentGrantsNothing
  <1> QED BY <1>1, <1>2, Zenon DEF Allowed, Access!Next, Access!Refuse

LEMMA ReleaseAllowed == IInv /\ Release => Allowed
  <1> SUFFICES ASSUME IInv, Release PROVE Allowed
    OBVIOUS
  <1>1. UNCHANGED <<users, proof>> /\ last' = Silent
    BY DEF Release
  <1>2. \A s \in Sessions : conn'[s] = "off" <=> conn[s] = "off"
    BY ClientAssumption DEF Release, IInv, TypeOK
  <1> QED BY <1>1, <1>2, ClientAllowed

LEMMA ClientStepAllowed == IInv /\ [ClientNext]_allVars => Allowed
  <1> SUFFICES ASSUME IInv, [ClientNext]_allVars PROVE Allowed
    OBVIOUS
  <1>1. CASE UNCHANGED allVars
    <2>1. UNCHANGED vars
      BY <1>1 DEF allVars
    <2> QED BY <2>1, StepAllowed
  <1>2. CASE StartClient \/ Serve \/ ServerDies \/ ServerReads \/ Elsewhere
    <2>1. \/ Connect(Me) \/ RunLine(Me) \/ Receive(Me) \/ ReadFails(Me)
          \/ Die \/ RegisterElsewhere
      BY <1>2 DEF StartClient, Serve, ServerDies, ServerReads, Elsewhere
    <2> QED BY <2>1, ClientAssumption, StepAllowed DEF Next
  <1>3. CASE ServerStays
    BY <1>3, ClientAllowed DEF ServerStays
  <1>4. ASSUME NEW cmd \in Typed, Type(cmd) PROVE Allowed
    BY <1>4, ClientAllowed DEF Type
  <1>5. CASE Close \/ ReaderThread \/ ResetArrives
    BY <1>3, <1>5 DEF Close, ReaderThread, CallRead, Read, ReadError, Store, Show, ResetArrives
  <1>6. CASE Release
    BY <1>6, ReleaseAllowed
  <1> QED BY <1>1, <1>2, <1>4, <1>5, <1>6 DEF ClientNext, MainThread

\* Tokens that are cut, tangled or torn, and lines that lose characters, get a client
\* nothing that AccessControl does not allow the one whose password it gave.
THEOREM ClientGetsOnlyWhatIsAllowed == ClientSpec => ImplementsAccess
  <1>1. ClientInit => Access!Init
    BY InitAllowed DEF ClientInit
  <1>2. ClientInv => IInv
    BY DEF ClientInv
  <1>3. Allowed => [Access!Next]_Access!vars
    BY DEF Allowed, Access!vars
  <1> QED BY <1>1, <1>2, <1>3, ClientStepAllowed, ClientInvariance, PTL
          DEF ClientSpec, ImplementsAccess, Access!Spec

\* .. so whatever a client has got done was earned: by someone registered, who had
\* logged in on its connection, and who is a moderator if it was moderation.
THEOREM ClientsEarnWhatTheyGet == ClientSpec => []Access!Earned
  <1> QED BY ClientGetsOnlyWhatIsAllowed, AccessIsEarned, PTL

=============================================================================
