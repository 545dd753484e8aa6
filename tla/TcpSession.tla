----------------------------- MODULE TcpSession -----------------------------
(***************************************************************************)
(* The sessions of one server of the line protocol: a connection that      *)
(* logs in, acts under the role it logged in with, and quits.              *)
(*                                                                         *)
(* One thread runs all handlers.  The handler of do_read takes a line out  *)
(* of the buffer, runs its command to the end, its repository call         *)
(* included, and reads again.  It erases one byte too many: when the next  *)
(* line has begun to arrive it loses its first character.                  *)
(*                                                                         *)
(* Of a line that has not been run the model keeps only how it begins;     *)
(* what else it says is chosen when it is run.  Replies travel as in       *)
(* HttpSession.tla, and the repositories' calls go on as in                *)
(* FlatRepository.tla and UserRepository.tla: here they succeed or fail.   *)
(***************************************************************************)
EXTENDS Naturals, Sequences

CONSTANTS
  Sessions,         \* connections
  Logins,
  Roles,            \* what may be registered as a role: words and line ends in any order
  MaxPending        \* bound: lines of a connection that wait to be run

LF == "LF"          \* the line ends that a role may hold
CR == "CR"

NoRow     == <<"none">>
Moderator == <<"moderator">>

ASSUME TcpAssumption == /\ Roles \subseteq Seq(STRING \ {"none"})
                        /\ "none" \notin Logins
                        /\ MaxPending \in Nat

VARIABLES
  users,            \* users[l]: the role login l is registered with, or NoRow
  conn,             \* conn[s]: "off", "open", "eof" (client gone) or "quit" (socket closed)
  inbox,            \* inbox[s]: lines that are not run, in the socket or in responce
  buffered,         \* buffered[s]: how many of them are whole in responce
  autorized,        \* the sessions whose is_autorized is set
  session,          \* session[s]: current_login and current_role
  proof,            \* history: login whose password s gave last, or "none"
  last              \* history: the command run last, in which session, and its reply

vars == <<users, conn, inbox, buffered, autorized, session, proof, last>>

(***************************************************************************)
(* How a line begins: with a command, with one character and then a        *)
(* command, not at all, or with something that is no command.              *)
(***************************************************************************)
Beginnings == {"command", "stray", "blank", "headless"}

Moderation == {"/create_house", "/take_flat", "/update_flat_status"}
Protected  == {"/create_flat", "/get_flats"} \cup Moderation
Tokens     == {"", "issued", "other"}     \* "issued": by the last login of the session

Nobody == [login |-> "none", role |-> <<>>]
Silent == [session |-> "none", cmd |-> "none", token |-> "", reply |-> "none"]

----------------------------------------------------------------------------
(***************************************************************************)
(* Sending and receiving lines.                                            *)
(***************************************************************************)

\* Server::do_accept: a new Session, which starts to read.
Connect(s) ==
  /\ conn[s] = "off"
  /\ conn'     = [conn EXCEPT ![s] = "open"]
  /\ inbox'    = [inbox EXCEPT ![s] = <<>>]
  /\ buffered' = [buffered EXCEPT ![s] = 0]
  /\ session'  = [session EXCEPT ![s] = Nobody]
  /\ autorized' = autorized \ {s}
  /\ proof'    = [proof EXCEPT ![s] = "none"]
  /\ last'     = Silent
  /\ UNCHANGED users

SendLine(s) ==
  /\ conn[s] = "open" /\ Len(inbox[s]) < MaxPending
  /\ \E b \in Beginnings : inbox' = [inbox EXCEPT ![s] = Append(@, b)]
  /\ UNCHANGED <<users, conn, buffered, autorized, session, proof, last>>

HangUp(s) == /\ conn[s] = "open"
             /\ conn' = [conn EXCEPT ![s] = "eof"]
             /\ UNCHANGED <<users, inbox, buffered, autorized, session, proof, last>>

\* async_read_until finds no whole line in responce and reads from the socket.
Receive(s) ==
  /\ conn[s] \in {"open", "eof"} /\ buffered[s] = 0
  /\ \E n \in 1..Len(inbox[s]) : buffered' = [buffered EXCEPT ![s] = n]
  /\ UNCHANGED <<users, conn, inbox, autorized, session, proof, last>>

\* It fails: at the end of the stream, or because logout closed the socket, and
\* then the library may or may not have run first what was still in responce.
ReadFails(s) ==
  /\ \/ conn[s] = "eof" /\ inbox[s] = <<>>
     \/ conn[s] = "quit"
  /\ conn' = [conn EXCEPT ![s] = "off"]
  /\ last' = Silent
  /\ UNCHANGED <<users, inbox, buffered, autorized, session, proof>>

\* What may become of a line that loses its first character.
Behead(b) == CASE b = "stray"    -> {<<"command">>}
               [] b = "command"  -> {<<"headless">>}
               [] b = "headless" -> {<<"headless">>, <<"blank">>}
               [] b = "blank"    -> {<<>>, <<"blank">>}       \* the \r of a \r\n

\* responce.erase(0, length + 1), the first line having length bytes: the next line
\* loses one when it is in responce, wholly or in part.
Erase_Nothing(s) == UNCHANGED <<inbox, buffered>>
Erase(s) ==
  LET rest == Tail(inbox[s]) IN
  \/ /\ buffered[s] = 1
     /\ inbox'    = [inbox EXCEPT ![s] = rest]
     /\ buffered' = [buffered EXCEPT ![s] = 0]
  \/ /\ rest # <<>>
     /\ \E b \in Behead(Head(rest)) :
          /\ buffered[s] = 1 => b # <<>>
          /\ inbox'    = [inbox EXCEPT ![s] = b \o Tail(rest)]
          /\ buffered' = [buffered EXCEPT ![s] = @ - 1 - (1 - Len(b))]

----------------------------------------------------------------------------
(***************************************************************************)
(* Commands.                                                               *)
(***************************************************************************)

Reply(s, c, token, text) == last' = [session |-> s, cmd |-> c, token |-> token, reply |-> text]

NoChange == UNCHANGED <<users, conn, autorized, session, proof>>

\* current_token: setToken has no caller, and logout clears what is empty.
current_token == ""
checkToken(token) == token = current_token

\* The constructor of the command throws: on the number of arguments after a
\* reply, on std::stoi or the status without one.
Malformed(s) ==
  /\ \/ \E c \in Protected \cup {"/login", "/register"} : Reply(s, c, "", "malformed")
     \/ \E c \in Protected \ {"/create_house"} : Reply(s, c, "", "none")
  /\ NoChange

Unknown(s) == Reply(s, "unknown", "", "error") /\ NoChange

\* findUserByLogin takes one \n and then one \r off the end of the role that it has
\* read; no role is refused at registration, so that what is left may be empty, may
\* still hold line ends, or may be "moderator" where the table says something longer.
Without(role, end) == IF role # <<>> /\ role[Len(role)] = end
                        THEN SubSeq(role, 1, Len(role) - 1) ELSE role
Stripped(role) == Without(Without(role, LF), CR)

\* Every field of the session is set.
autorize_KeepsRole(s, l, role) ==
  /\ autorized' = autorized \cup {s}
  /\ session'   = [session EXCEPT ![s] = [login |-> l, role |-> IF @.role = <<>> THEN role ELSE @.role]]
autorize(s, l, role) ==
  /\ autorized' = autorized \cup {s}
  /\ session'   = [session EXCEPT ![s] = [login |-> l, role |-> role]]

Login(s) == \E l \in Logins :
  \/ /\ users[l] # NoRow                        \* found, and the password is right
     /\ autorize(s, l, Stripped(users[l]))
     /\ proof' = [proof EXCEPT ![s] = l]
     /\ Reply(s, "/login", "", "ok")
     /\ UNCHANGED <<users, conn>>
  \/ Reply(s, "/login", "", "error") /\ NoChange

\* saveUser: the row is inserted, or is not, for whatever reason; there is no reply.
Insert(l, r) == users[l] = NoRow /\ users' = [users EXCEPT ![l] = r]

Register(s) ==
  /\ \/ \E l \in Logins, r \in Roles : Insert(l, r)
     \/ UNCHANGED users
  /\ Reply(s, "/register", "", "none")
  /\ UNCHANGED <<conn, autorized, session, proof>>

\* What execute asks before it calls the repository.
Permits(s, c, token) ==
  /\ s \in autorized
  /\ checkToken(token)
  /\ c \in Moderation => session[s].role = Moderator
  /\ c = "/get_flats" => session[s].role # <<>>

\* The repository is called; only takeFlat and UpdateFlatStatus tell of a failure.
Guarded(s) == \E c \in Protected, token \in Tokens :
  /\ \/ Permits(s, c, token) /\ Reply(s, c, token, "ok")
     \/ /\ Permits(s, c, token) /\ c \in {"/take_flat", "/update_flat_status"}
        /\ Reply(s, c, token, "error")
     \/ ~ Permits(s, c, token) /\ Reply(s, c, token, "refused")
  /\ NoChange

logout_Closes(s) == UNCHANGED <<autorized, session>>
logout(s) == /\ autorized' = autorized \ {s}
             /\ session'   = [session EXCEPT ![s] = Nobody]

Quit_KeepsOpen(s) == /\ logout(s)
                     /\ proof' = [proof EXCEPT ![s] = "none"]
                     /\ Reply(s, "/quit", "", "none")
                     /\ UNCHANGED <<users, conn>>
Quit(s) == /\ logout(s)
           /\ conn'  = [conn EXCEPT ![s] = "quit"]
           /\ proof' = [proof EXCEPT ![s] = "none"]
           /\ Reply(s, "/quit", "", "none")
           /\ UNCHANGED users

Commands(s) == Reply(s, "/commands", "", "ok") /\ NoChange

execute_command(s, beginning) ==
  \/ beginning # "command" /\ Unknown(s)
  \/ /\ beginning = "command"
     /\ \/ Malformed(s) \/ Login(s) \/ Register(s) \/ Guarded(s) \/ Quit(s) \/ Commands(s)

RunLine(s) ==
  /\ conn[s] # "off" /\ buffered[s] > 0
  /\ Head(inbox[s]) # "blank"
  /\ Erase(s)
  /\ execute_command(s, Head(inbox[s]))

\* parse_line[0] of a blank line does not exist: the process reads at address
\* zero and dies, with all its sessions, and is started again.
Die ==
  /\ \E s \in Sessions : conn[s] # "off" /\ buffered[s] > 0 /\ Head(inbox[s]) = "blank"
  /\ conn' = [s \in Sessions |-> "off"]
  /\ last' = Silent
  /\ UNCHANGED <<users, inbox, buffered, autorized, session, proof>>

\* Another process, that of the REST API for one, registers a login.
RegisterElsewhere == /\ \E l \in Logins, r \in Roles : Insert(l, r)
                     /\ UNCHANGED <<conn, inbox, buffered, autorized, session, proof, last>>

----------------------------------------------------------------------------

Init ==
  /\ users    \in [Logins -> Roles \cup {NoRow}]
  /\ conn     = [s \in Sessions |-> "off"]
  /\ inbox    = [s \in Sessions |-> <<>>]
  /\ buffered = [s \in Sessions |-> 0]
  /\ autorized = {}
  /\ session  = [s \in Sessions |-> Nobody]
  /\ proof    = [s \in Sessions |-> "none"]
  /\ last     = Silent

Next == \/ \E s \in Sessions : Connect(s) \/ SendLine(s) \/ HangUp(s)
        \/ \E s \in Sessions : Receive(s) \/ ReadFails(s) \/ RunLine(s)
        \/ Die
        \/ RegisterElsewhere

Spec == Init /\ [][Next]_vars

\* The event loop runs what is due.  Nobody has to connect, to send or to hang up.
Fairness == /\ \A s \in Sessions : WF_vars(Receive(s)) /\ WF_vars(ReadFails(s)) /\ WF_vars(RunLine(s))
            /\ WF_vars(Die)

FairSpec == Spec /\ Fairness

----------------------------------------------------------------------------

Cmds    == Protected \cup {"/login", "/register", "/quit", "/commands", "unknown", "none"}
Replies == {"ok", "error", "refused", "malformed", "none"}

TypeOK ==
  /\ users    \in [Logins -> Roles \cup {NoRow}]
  /\ conn     \in [Sessions -> {"off", "open", "eof", "quit"}]
  /\ inbox    \in [Sessions -> Seq(Beginnings)]
  /\ buffered \in [Sessions -> Nat]
  /\ \A s \in Sessions : buffered[s] <= Len(inbox[s])
  /\ autorized \subseteq Sessions
  /\ session  \in [Sessions -> [login : Logins \cup {"none"}, role : Seq(STRING)]]
  /\ proof    \in [Sessions -> Logins \cup {"none"}]
  /\ last \in [session : Sessions \cup {"none"}, cmd : Cmds, token : Tokens, reply : Replies]

\* A session acts for the one who gave his password last and under the role that is
\* read for him in the users table, whoever was logged in before on the same connection.
RoleIsCurrent ==
  \A s \in Sessions : conn[s] # "off" =>
    /\ session[s].login = proof[s]
    /\ s \in autorized <=> proof[s] # "none"
    /\ s \in autorized => /\ users[proof[s]] # NoRow
                         /\ session[s].role = Stripped(users[proof[s]])

\* The inductive invariant.
IInv == TypeOK /\ RoleIsCurrent

\* Who moderates, by what the table says: "moderator", and perhaps one line end.
AreModerators == {Moderator, Append(Moderator, CR), Append(Moderator, LF),
                  Append(Append(Moderator, CR), LF)}

\* Moderation is done for nobody but a moderator who has given his password on this
\* connection and has not quit, even by a line that was sent behind /quit.  The table
\* says so but for one line end: with more of them he is no moderator.
OnlyModeratorsModerate ==
  last.cmd \in Moderation /\ last.reply \in {"ok", "error"} =>
    /\ proof[last.session] # "none"
    /\ users[proof[last.session]] \in AreModerators

\* A session acts for the login that gave its password last, until it quits or ends;
\* a command that calls the repository, with success or not, is done for him.
Actor   == [s \in Sessions |-> IF conn[s] = "off" THEN "none" ELSE proof[s]]
Granted == IF last.cmd \in Protected /\ last.reply \in {"ok", "error"}
           THEN [by |-> last.session, moderating |-> last.cmd \in Moderation]
           ELSE [by |-> "none", moderating |-> FALSE]

\* The role of a login as findUserByLogin returns it.
RoleRead == [l \in Logins |-> IF users[l] = NoRow THEN NoRow ELSE Stripped(users[l])]

Access == INSTANCE AccessControl WITH Roles <- {Stripped(r) : r \in Roles}, Unregistered <- NoRow,
                                      roles <- RoleRead, actor <- Actor, granted <- Granted

\* The sessions do what AccessControl allows, whatever lines they are sent and however
\* the lines are cut and run together, and nothing else.
ImplementsAccess == Access!Spec

\* When a client has sent its last line, all that it sent are run in the end, with
\* whatever result, unless the session ends before.
LinesRun == \A s \in Sessions :
  <>[][~ SendLine(s)]_vars => <>[](inbox[s] = <<>> \/ conn[s] = "off") \/ []<>(conn[s] = "off")

\* A protected command that carries the token which the login of the session gave
\* out, from someone who may use it, is not refused.
IssuedTokenOpens ==
  (last.cmd \in Protected /\ last.token = "issued" /\ proof[last.session] # "none"
     /\ (last.cmd \in Moderation => users[proof[last.session]] \in AreModerators)
     /\ (last.cmd = "/get_flats" => users[proof[last.session]] = Moderator))
    => last.reply # "refused"

============================================================================
