------------------------------ MODULE TcpClient ------------------------------
(***************************************************************************)
(* The client of the line protocol at work with its session: two threads   *)
(* on one socket and one string, against the server of TcpSession.tla.     *)
(*                                                                         *)
(* The main thread reads commands from the user, puts the token into those *)
(* that need one, and sends them.  The other thread reads whatever has     *)
(* arrived, takes a token out of it if it says "TOKEN: ", and prints it.   *)
(* A read has no notion of where an answer begins or ends, and the token   *)
(* is everything behind the first space of what was read.                  *)
(*                                                                         *)
(* A bad token can contain line ends, and the command that it is put into  *)
(* then is several lines.                                                  *)
(*                                                                         *)
(* TCP is external: bytes arrive in order and in portions of any size; a   *)
(* socket that another thread is blocked in stays open until that thread   *)
(* comes back, whatever close() has returned.                              *)
(***************************************************************************)
EXTENDS TcpSession, Functions

CONSTANTS
  Me,               \* the connection of the client
  Typed,            \* the commands that its user types
  MaxUnread         \* bound: lines and pieces under way when the user types

ASSUME ClientAssumption ==
  /\ Me \in Sessions
  /\ Typed \subseteq Protected \cup {"/login", "/register", "/quit", "/commands", "unknown"}
  /\ MaxUnread \in Nat
  /\ Logins \cap {"", "none", "cut", "tangle", "poison", "torn"} = {}

VARIABLES
  lines,            \* what the lines of inbox[Me] say: [cmd, token]
  wire,             \* pieces of answers that the client has not read
  link,             \* "up", "late" (a line went to a closed socket), "reset"
  token,            \* Client::token
  writer,           \* main thread: "prompt", "leaving" (its loop) or "closed" (the socket)
  reader,           \* the other: what it has to do before it calls read_some again
  ans,              \* what it has read last
  patient,          \* history: the user has always waited for all the server had to say
  framed            \* history: every read has returned one answer, and a whole one

clientVars == <<lines, wire, link, token, writer, reader, ans, patient, framed>>
allVars    == <<vars, clientVars>>

\* A step of the client ends what TcpSession.tla remembers of the last command.
ServerStays == UNCHANGED <<users, conn, inbox, buffered, autorized, session, proof>> /\ last' = Silent

----------------------------------------------------------------------------
(***************************************************************************)
(* Answers, in the pieces that they may be cut into where it matters: an   *)
(* answer, or "TOKEN: " or a part of it, and the rest, of the token of a   *)
(* login.  A list of flats is "spaced": it has empty lines.  The answer to *)
(* a login quotes the role of the user, which nobody has checked: it is    *)
(* "odd" when that holds a line end, and so perhaps an empty line or one   *)
(* too short to lose a character, or the marker of a token itself.         *)
(***************************************************************************)

Text(kind)   == <<[kind |-> kind, of |-> "none"]>>
TokenText(l) == <<[kind |-> "mark", of |-> l], [kind |-> "rest", of |-> l]>>
Texts        == {Text("said"), Text("spaced"), Text("odd")} \cup {TokenText(l) : l \in Logins}

OddRole(role) == \E i \in 1..Len(role) : role[i] \in {LF, "TOKEN: "}
Greeting(role) == IF OddRole(role) THEN Text("odd") ELSE Text("said")

\* What the session has sent about the command it has just run.
Answers_LoginSpaced(cmd, reply, now) ==
  CASE reply = "none" -> {<<>>}
    [] cmd = "/login" /\ reply = "ok" -> {Text("spaced") \o TokenText(now.login)}
    [] OTHER -> {Text("said"), Text("spaced")}
Answers(cmd, reply, now) ==
  CASE reply = "none" -> {<<>>}
    [] cmd = "/login" /\ reply = "ok" -> {Greeting(now.role) \o TokenText(now.login)}
    [] cmd = "/get_flats" /\ reply = "ok" -> {Text("said"), Text("spaced")}
    [] OTHER -> {Text("said")}

----------------------------------------------------------------------------
(***************************************************************************)
(* The token of the client is "", a login that stands for his whole token, *)
(* "cut" (a part of one), "tangle" (one with other text, and perhaps line  *)
(* ends, before or behind it), "poison" (the same with an empty line) or   *)
(* "torn" (read while the other thread was writing it).                    *)
(***************************************************************************)

\* ans.find("TOKEN: ") finds something: perhaps, when the marker may be cut, or be
\* part of a role.
SaysToken_Always(a) == {TRUE}
SaysToken(a) ==
  IF \E i \in 1..Len(a) - 1 : a[i].kind = "mark" THEN {TRUE}
  ELSE IF \E i \in 1..Len(a) : a[i].kind \in {"mark", "odd"} THEN BOOLEAN
  ELSE {FALSE}

\* ans.substr(ans.find(' ') + 1), without the line end.  What was read may begin
\* behind the last space of an answer.
Clean(a) == IF a[Len(a)].kind = "mark" THEN {"", "cut"} ELSE {a[Len(a)].of}
Tangled(a) ==
  {"tangle"} \cup (IF \E i \in 1..Len(a) : a[i].kind \in {"spaced", "odd"} THEN {"poison"} ELSE {})

Stored_Whole(a) == {"TOKEN: .."}
Stored(a) ==
  CASE a[1].kind = "mark" /\ Len(a) <= 2 -> Clean(a)
    [] a[1].kind # "mark" /\ Len(a) \in {2, 3} /\ a[2].kind = "mark" -> Clean(a) \cup Tangled(a)
    [] Len(a) = 1 /\ a[1].kind # "mark" -> {""} \cup Tangled(a)
    [] OTHER -> Tangled(a)

\* What the reading thread does now; Loop is the head of its loop.
Loop == <<>>
Now  == IF reader = Loop THEN "loop" ELSE Head(reader)

\* What the other thread may see of token while it is being stored.
Seen == IF Now = "store" THEN {token, "torn"} ELSE {token}

----------------------------------------------------------------------------
(***************************************************************************)
(* The main thread.                                                        *)
(***************************************************************************)

Line(cmd, t) == [cmd |-> cmd, token |-> t]
Junk         == Line("unknown", "")

\* command.insert(pos + 1, token + " "): what is sent for cmd, as lines.
\* Bound: of the line ends in a tangle, the first.
LinesOf(cmd, t) ==
  IF cmd \notin Protected \cup {"unknown"} THEN {<<Line(cmd, "")>>}
  ELSE CASE t = "tangle" -> {<<Line(cmd, t)>>, <<Line(cmd, t), Junk>>}
         [] t = "poison" -> {<<Line(cmd, t), Line("blank", ""), Junk>>}
         [] OTHER -> {<<Line(cmd, t)>>}

Beginning(l) == CASE l.cmd = "unknown" -> "headless" [] l.cmd = "blank" -> "blank" [] OTHER -> "command"

\* Everything that was sent has been run, and every answer printed.
Quiet == wire = <<>> /\ inbox[Me] = <<>> /\ "print" \notin Range(reader)

\* After /quit, or an error, the loop is left.
NextPrompt_Always(cmd, failed) == writer' = IF cmd = "/quit" THEN "leaving" ELSE "prompt"
NextPrompt(cmd, failed) == writer' = IF cmd = "/quit" \/ failed THEN "leaving" ELSE "prompt"

\* The user enters a command and it is written to the socket.
Type(cmd) ==
  /\ writer = "prompt"
  /\ patient' = (patient /\ Quiet)
  /\ NextPrompt(cmd, link = "reset")
  /\ \/ /\ conn[Me] = "open" /\ link # "reset"
        /\ Len(inbox[Me]) + Len(wire) < MaxUnread
        /\ \E t \in Seen : \E new \in LinesOf(cmd, t) :
             /\ lines' = lines \o new
             /\ inbox' = [inbox EXCEPT ![Me] = @ \o [i \in 1..Len(new) |-> Beginning(new[i])]]
        /\ UNCHANGED link
     \/ /\ conn[Me] # "open" \/ link = "reset"
        /\ link' = IF link = "up" THEN "late" ELSE link
        /\ UNCHANGED <<lines, inbox>>
  /\ last' = Silent
  /\ UNCHANGED <<users, autorized, session, proof, conn, buffered, wire, token, reader, ans, framed>>

\* m_socket.close(), and then the destructor waits for the other thread.
Close == /\ writer = "leaving"
         /\ writer' = "closed"
         /\ ServerStays /\ UNCHANGED <<lines, wire, link, token, reader, ans, patient, framed>>

----------------------------------------------------------------------------
(***************************************************************************)
(* The reading thread.                                                     *)
(***************************************************************************)

\* read_some is called: on a closed socket it fails at once.
CallRead == /\ Now = "loop"
            /\ reader' = IF writer = "closed" THEN <<"done">> ELSE <<"recv">>
            /\ ServerStays /\ UNCHANGED <<lines, wire, link, token, writer, ans, patient, framed>>

\* What is done with what was read, if the marker was found in it or not.
Steps_Swapped(found) == IF found THEN <<"print", "store">> ELSE <<"print">>
Steps(found) == IF found THEN <<"store", "print">> ELSE <<"print">>

Read ==
  /\ Now = "recv" /\ link # "reset"
  /\ \E n \in 1..Len(wire) : ans' = SubSeq(wire, 1, n) /\ wire' = SubSeq(wire, n + 1, Len(wire))
  /\ framed' = (framed /\ ans' \in Texts)
  /\ \E found \in SaysToken(ans') : reader' = Steps(found)
  /\ ServerStays /\ UNCHANGED <<lines, link, token, writer, patient>>

\* End of file, or an error: the loop is left.
ReadEnds == reader' = <<"done">>

ReadError ==
  /\ Now = "recv"
  /\ link = "reset" \/ (wire = <<>> /\ conn[Me] # "open")
  /\ ReadEnds
  /\ ServerStays /\ UNCHANGED <<lines, wire, link, token, writer, ans, patient, framed>>

\* The strings of a round are gone at its end.
StepDone == /\ reader' = Tail(reader)
            /\ ans' = IF reader' = Loop THEN <<>> ELSE ans

\* token = .., and the line end taken off it.
Store == /\ Now = "store"
         /\ token' \in Stored(ans)
         /\ StepDone
         /\ ServerStays /\ UNCHANGED <<lines, wire, link, writer, patient, framed>>

Show  == /\ Now = "print"
         /\ StepDone
         /\ ServerStays /\ UNCHANGED <<lines, wire, link, token, writer, patient, framed>>

----------------------------------------------------------------------------
(***************************************************************************)
(* The network.                                                            *)
(***************************************************************************)

\* The client has closed its socket and nobody is blocked in it: the connection
\* ends, abruptly if the client has left something unread.
Release ==
  /\ writer = "closed" /\ Now # "recv" /\ conn[Me] = "open"
  /\ conn' = [conn EXCEPT ![Me] = "eof"]
  /\ \E n \in buffered[Me]..Len(inbox[Me]) :
       /\ wire = <<>> => n = Len(inbox[Me])
       /\ inbox' = [inbox EXCEPT ![Me] = SubSeq(@, 1, n)]
       /\ lines' = SubSeq(lines, 1, n)
  /\ wire' = <<>>
  /\ last' = Silent
  /\ UNCHANGED <<users, autorized, session, proof, buffered, link, token, writer, reader, ans, patient, framed>>

\* The client hears that the socket it has written to is closed.
ResetArrives == /\ link = "late"
                /\ link' = "reset"
                /\ ServerStays /\ UNCHANGED <<lines, wire, token, writer, reader, ans, patient, framed>>

\* The server closes its socket: with lines unread, the client may lose what it
\* has not received.
Closing(pieces) == \/ wire' = pieces /\ UNCHANGED link
                   \/ /\ Len(inbox[Me]) > buffered[Me]
                      /\ wire' = <<>> /\ link' = "reset"

----------------------------------------------------------------------------
(***************************************************************************)
(* The server, as in TcpSession.tla, running the lines of the client.      *)
(***************************************************************************)

TokenSeen(t) == IF t = "" THEN "" ELSE IF t = proof[Me] THEN "issued" ELSE "other"

\* The line that is run, is the line that was sent; none is so short that it
\* turns blank when it loses a character.
RunsHead ==
  /\ Head(inbox[Me]) = "command" =>
       /\ last'.cmd = Head(lines).cmd
       /\ last'.reply \in {"ok", "error", "refused"} => last'.token = TokenSeen(Head(lines).token)
  /\ inbox'[Me] # <<>> /\ Head(inbox'[Me]) = "blank" => inbox'[Me] = Tail(inbox[Me])
  /\ lines' = SubSeq(lines, 1 + Len(inbox[Me]) - Len(inbox'[Me]), Len(lines))

Serve ==
  /\ RunLine(Me)
  /\ RunsHead
  /\ IF conn[Me] = "open"
       THEN \E a \in Answers(last'.cmd, last'.reply, session'[Me]) :
              IF conn'[Me] = "quit" THEN Closing(wire) ELSE wire' = wire \o a /\ UNCHANGED link
       ELSE UNCHANGED <<wire, link>>
  /\ UNCHANGED <<token, writer, reader, ans, patient, framed>>

ServerDies == /\ Die
              /\ IF conn[Me] = "open" THEN Closing(wire) ELSE UNCHANGED <<wire, link>>
              /\ UNCHANGED <<lines, token, writer, reader, ans, patient, framed>>

ServerReads == (Receive(Me) \/ ReadFails(Me)) /\ UNCHANGED clientVars

Elsewhere == RegisterElsewhere /\ UNCHANGED clientVars

----------------------------------------------------------------------------

\* Both threads have ended, and so has the program.
Ended == writer = "closed" /\ Now = "done"

\* The program is started (again): start() connects, and starts the other thread.
StartClient ==
  /\ Ended
  /\ Connect(Me)
  /\ lines' = <<>> /\ wire' = <<>> /\ link' = "up" /\ token' = ""
  /\ writer' = "prompt" /\ reader' = Loop /\ ans' = <<>>
  /\ patient' = TRUE /\ framed' = TRUE

ClientInit ==
  /\ Init
  /\ lines = <<>> /\ wire = <<>> /\ link = "up" /\ token = ""
  /\ writer = "closed" /\ reader = <<"done">> /\ ans = <<>>
  /\ patient = TRUE /\ framed = TRUE

MainThread   == (\E cmd \in Typed : Type(cmd)) \/ Close
ReaderThread == CallRead \/ Read \/ ReadError \/ Store \/ Show

ClientNext == \/ StartClient \/ MainThread \/ ReaderThread
              \/ Release \/ ResetArrives
              \/ Serve \/ ServerDies \/ ServerReads \/ Elsewhere

ClientSpec == ClientInit /\ [][ClientNext]_allVars

\* Threads go on, the network delivers, and the event loop of the server runs what
\* is due.  Nobody has to start the client or to type.
ClientFairness == /\ WF_allVars(Close) /\ WF_allVars(ReaderThread)
                  /\ WF_allVars(Release) /\ WF_allVars(ResetArrives)
                  /\ WF_allVars(Serve) /\ WF_allVars(ServerDies) /\ WF_allVars(ServerReads)

FairClientSpec == ClientSpec /\ ClientFairness

----------------------------------------------------------------------------

Sent   == [cmd : Typed \cup {"unknown", "blank"}, token : Logins \cup {"", "cut", "tangle", "poison", "torn"}]
Pieces == [kind : {"said", "spaced", "odd"}, of : {"none"}] \cup [kind : {"mark", "rest"}, of : Logins]

ClientTypeOK ==
  /\ lines \in Seq(Sent) /\ Len(lines) = Len(inbox[Me])
  /\ wire \in Seq(Pieces) /\ ans \in Seq(Pieces)
  /\ link \in {"up", "late", "reset"}
  /\ token \in Logins \cup {"", "cut", "tangle", "poison"}
  /\ writer \in {"prompt", "leaving", "closed"}
  /\ reader \in {Loop, <<"recv">>, <<"done">>, <<"print">>, <<"store", "print">>}
  /\ patient \in BOOLEAN /\ framed \in BOOLEAN

\* Whoever waits for all that the server has to say before he types on never sends
\* a token that the other thread is just writing.
PatientTokensAreWhole == patient => \A i \in 1..Len(lines) : lines[i].token # "torn"

\* No role that the answer to a login may quote holds a line end or a marker.
Plain == \A l \in Logins : users[l] # NoRow => ~ OddRole(Stripped(users[l]))

\* .. and, as long as all roles are plain, never sends the empty line that kills the
\* server and all its sessions, although a token may take in line ends from other
\* answers.  Under a role that has an empty line in it he does: his token then is the
\* end of the login's answer.
PatientClientsKillNobody == patient /\ Plain => \A i \in 1..Len(inbox[Me]) : inbox[Me][i] # "blank"

\* As long as every answer comes in a read of its own, the client has the token of
\* the user that the session acts for, once it has read everything.
FramedTokenIsMine ==
  framed /\ Quiet /\ conn[Me] = "open" =>
    token = IF proof[Me] = "none" THEN "" ELSE proof[Me]

\* A marker is followed by its token, in a read unless it ends with the marker, and
\* so is no token without one; what was read is kept until it is printed.  An odd
\* answer is one to a login, with its token behind it, and comes of an odd role.
Marked(s, i) == i < Len(s) /\ s[i + 1] = [kind |-> "rest", of |-> s[i].of]
NothingOdd(s) == \A i \in 1..Len(s) : s[i].kind # "odd"

StreamInv ==
  /\ \A i \in 1..Len(ans)  : ans[i].kind  = "mark" => i = Len(ans) \/ Marked(ans, i)
  /\ \A i \in 1..Len(wire) : wire[i].kind = "mark" => Marked(wire, i)
  /\ \A i \in 2..Len(wire) : wire[i].kind = "rest" => wire[i - 1].kind = "mark"
  /\ \A i \in 1..Len(wire) : wire[i].kind = "odd"  => i < Len(wire) /\ wire[i + 1].kind = "mark"
  /\ ans = <<>> <=> Now \notin {"store", "print"}
  /\ Now = "store" => \E i \in 1..Len(ans) : ans[i].kind \in {"mark", "odd"}
  /\ Plain => NothingOdd(ans) /\ NothingOdd(wire)

\* Between two moments at which a patient user types, there is either no token on
\* its way or no list: they never meet in one read.
NoToken == /\ \A i \in 1..Len(lines) : lines[i].cmd # "/login"
           /\ \A i \in 1..Len(ans)  : ans[i].kind  \notin {"mark", "rest", "odd"}
           /\ \A i \in 1..Len(wire) : wire[i].kind \notin {"mark", "rest", "odd"}
NoList  == /\ \A i \in 1..Len(lines) : lines[i].cmd # "/get_flats"
           /\ \A i \in 1..Len(ans)  : ans[i].kind  # "spaced"
           /\ \A i \in 1..Len(wire) : wire[i].kind # "spaced"

PatientInv ==
  patient => /\ NoToken \/ NoList
             /\ Plain => token # "poison"
             /\ PatientTokensAreWhole /\ PatientClientsKillNobody

\* With reads that are whole answers, the token that is on its way last, or if there
\* is none the one being stored, or the one stored, is that of the session's user.
Mine(t) == t = (IF proof[Me] = "none" THEN "" ELSE proof[Me])
IsRest(i) == wire[i].kind = "rest"
Due == \E i \in 1..Len(wire) : IsRest(i)
FramedInv ==
  framed => /\ wire # <<>> => ~ IsRest(1)
            /\ Now = "store" => \/ \E l \in Logins : ans = TokenText(l)
                                \/ ans = Text("odd") /\ (conn[Me] = "open" => Due)
            /\ conn[Me] = "open" =>
                 IF Due
                   THEN \A i \in 1..Len(wire) :
                          IsRest(i) /\ (\A j \in i + 1..Len(wire) : ~ IsRest(j)) => Mine(wire[i].of)
                   ELSE IF Now = "store" THEN Mine(ans[2].of) ELSE Mine(token)

\* The inductive invariant of the client and its session.
ClientInv == IInv /\ ClientTypeOK /\ StreamInv /\ PatientInv /\ FramedInv

\* A main thread that has left its loop, by /quit or by an error, ends the program
\* and the session with it: the thread that is blocked in read_some comes back.  (A
\* patient user also waits until a command that has no answer has been run.)
QuitEnds == patient /\ writer # "prompt" ~> Ended /\ conn[Me] = "off"

\* When the server is gone the program ends, provided that its user types on, even if never /quit: the
\* main thread learns of it from a write that fails, the second one at the earliest.
WriterNotices ==
  WF_allVars(\E cmd \in Typed \ {"/quit"} : Type(cmd)) => (conn[Me] = "off" ~> Ended)

============================================================================
