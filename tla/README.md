# FlatHub in TLA+

FlatHub keeps a database of houses and flats. Users log in, create flats and look
at the approved ones; moderators create houses, take a flat on moderation and
approve or decline it. This directory models the program in `src/` with TLA+,
model-checks it with TLC, and proves its most important properties with TLAPS.

- `tlc -config MCx.cfg MCy` checks a run; the runs are listed in section 4.
- `tlapm X_proofs.tla` checks the proofs of section 6.
- `PROJECT.json` maps every definition to the lines it stands for, and lists the
  hazards of the code with the properties that are about them.

Line numbers below are those of `src/`; `http_session.cpp` without a directory is
`src/src/service/http_session.cpp`, and so on.

## 1. Inventory

### The parts and how they interact

```
 REST client --HTTP--> HttpServer --> HttpSession --> JWTUtils
                                          |  \--> RegisterCommand --\
 Client -----lines---> Server -----> Session --> CommandFactory      \
                                          \--> nine commands -------> repositories --> PostgreSQL
```

A server is one process with one thread: `main_server.cpp` runs one
`io_context`, so all handlers of all connections run one after the other and each
to its end, the blocking calls to PostgreSQL included. Concurrency comes from
several server processes on one database ("horizontal scalability", README.md:176),
from the kernel and asio between two handlers, and from the clients.

| component | source | state | operations | what makes it hard |
|---|---|---|---|---|
| Flat and house repositories | `FlatRepository.cpp`, `HouseRepository.cpp` | rows in PostgreSQL; none of their own | `saveFlat`, `saveHouse`, `takeFlat`, `UpdateFlatStatus`, `getFlatForHouseID` | two processes change one row; a failure during `commit()` leaves the caller not knowing; every exception is swallowed; a process dies between statement and commit |
| User repository | `UserRepository.cpp`, `RegisterCommand.cpp` | rows in PostgreSQL | `saveUser`, `findUserByLogin` | racing registrations of one login; `saveUser` tells nobody of a refusal |
| Database schema | `migrations/001_init.sql` | - | foreign key, default status, unique login | the script lacks a semicolon after `CREATE TABLE users` |
| JWT utilities | `jwt_utils.cpp` | the key | `generateToken`, `validateToken`, Base64 both ways | expiry at the second; a fixed buffer of 512 bytes |
| REST API handlers | `http_session.cpp:135-595` | `request_` (one object for all requests of a connection) | eight endpoints | what a handler parses depends on earlier requests; who may do what, and how long |
| HTTP connection | `http_session.cpp:30-130, 230-270` | socket, `buffer_`, pending operations | `do_read`, `do_write` | `do_read` goes on before the answer is sent; the response is destroyed while it may be in use, and may be longer than what the kernel takes |
| HTTP server | `http_server.cpp`, `main_server.cpp` | acceptor | `start`, `stop`, `on_accept` | an accept error ends accepting |
| TCP session and commands | `session.cpp`, `factory.cpp`, `patterns/*.cpp` | `is_autorized`, `current_login`, `current_role`, `current_token`, `responce` | nine commands, reading and erasing of lines | a second login on one connection; roles that change when they are read; lines behind `/quit`; lines that lose a character; throwing constructors |
| TCP server | `server.cpp` | acceptor | `do_accept` | - |
| TCP client | `client.cpp`, `main_client.cpp` | `token`, socket | a writing and a reading thread | a data race on `token`; a token cut by the framing of reads; a role with line ends in the answer to a login; closing under a blocked reader |
| Logger | `logger.cpp` | file, mutex | `log` | nothing the program depends on |
| DatabaseManager | `DatabaseManager.hpp` | three repositories | getters | - |
| Build and deployment | `CMakeLists.txt` | - | - | `server.cpp`, the TCP server, is part of no target |

### What makes each part correct

- **Repositories.** A flat lives `created -> on_moderation -> approved | declined`,
  each step once. Whoever is told `true` made that step, and nobody else is told so,
  through races, failures, crashes and commits in doubt. No approved flat that a
  user was shown is taken back. Every flat has a house. Every call returns.
- **Users.** A login has one account for ever, the one that lookups find.
- **Tokens.** A token of the server is good until its expiry second and not beyond;
  nothing else is.
- **REST handlers.** Who gets through an endpoint has a right to, by his token.
- **HTTP connection.** Each answer arrives once, in order and without a gap, and its
  beginning as it was made; sessions end.
- **TCP session.** It acts for whoever gave a password last, with the role that is read
  for him; only who is read as a moderator moderates; every line that arrives is run.
- **HTTP server.** Everybody is accepted until an accept fails; after that nobody waits
  for ever.
- **Client.** A user who waits for his answers never sends half a token and, as long as
  no role holds a line end, never kills the server; the program ends after `/quit` and when the server is gone.

## 2. Modules

| module | models | state in the model / in the code |
|---|---|---|
| `FlatLifecycle` | the promise of the flats table, without processes | `status`: the column; `acks`: who was told `true` |
| `FlatRepository` | flat and house repositories in many processes on one PostgreSQL | `status`, `home`, `houses`, `fresh`: rows and sequences. `lock`, `written`: uncommitted rows. `pc`, `call`: the call of each process. `acks`, `shown`: history |
| `UserRegistry` | the promise of the users table, without processes | `accounts`: login to account; `found`: what lookups have returned |
| `UserRepository` | user repository and registration, likewise | `users`, `table`, `lock`, `written`, `pc`, `call`; `told`, `known`: history |
| `JwtUtils` | what the two Base64 functions and the two token functions do to a token | operators only |
| `HttpApi` (extends `JwtUtils`) | the endpoints, on any number of connections | `body`: `request_.body()` as JSON; `users`: the roles as they are read; `issued`: logins over HTTP and TCP, and their tokens; `now`; `last` answer |
| `HttpSession` | one connection: asio reads and writes | `inbox`, `reading`: `buffer_` and the pending read. `waiting`, `posted`, `kernel`: writes in asio and pieces in the kernel. `got`: what the client has |
| `HttpServer` (extends `HttpSession`) | the accept loop, the end of the process, and that session among those of others | `accepting`: a pending `async_accept`. `running`: `run()` has not returned. `queue`: the kernel's. `mine`, `others`: the sessions. `failed`: history |
| `AccessControl` | the promise of the line service: who may do what, without lines, sockets or tokens | `roles`: the users table; `actor`: whom a session acts for; `granted`: what it has just done for him |
| `TcpSession` | the sessions of one TCP server, with all commands | `conn`, `inbox`, `buffered`: socket and `responce`. `autorized`, `session`: the fields of `Session`. `users`: the table, with roles as they were registered. `proof`, `last`: history |
| `TcpClient` (extends `TcpSession`) | the two threads of a client, their socket, and the session they talk to | `token`: `Client::token`. `writer`, `reader`: what each thread does next, `ans`: what was read last. `lines`, `wire`: what is under way in either direction. `link`: what the client's kernel knows of the server. `patient`, `framed`: history |
| `*_proofs` | theorems about the module of that name | - |
| `MC*` | instances for TLC | - |

How they fit: `FlatRepository` implements `FlatLifecycle`, `UserRepository`
implements `UserRegistry`, and `TcpSession`, alone or with the client of `TcpClient`,
implements `AccessControl` (each an `INSTANCE` with the refinement mapping written
out). `HttpApi` uses `JwtUtils`. `HttpApi` says what is answered, `HttpSession` how it
travels, and `HttpServer` who gets a session at all. `TcpSession` takes the outcome of
a repository call as success or failure, which is what `FlatRepository` and
`UserRepository` show a call to be. `TcpClient` runs a client against the actions of
`TcpSession`: its lines are the session's `inbox`, and what the session replies is
cut into the pieces that the client's reads put together again.

### Choices that matter

- **A repository call** is one action to begin it, one for its statement, one for its
  commit and one for its return, since that is where calls of two processes
  interleave. `Fail` and `Crash` can come before each. READ COMMITTED is in
  `Matches` being evaluated when the row is free: PostgreSQL looks at the `WHERE`
  clause again after waiting. `Matches` holding and the row locked is the wait.
  The code sets no isolation level, so this is PostgreSQL's default.
- **Commits in doubt.** A transaction whose client is gone, in whatever way, becomes
  `orphan`: it may still be rolled back or, if the COMMIT was sent, be committed.
  For transactions that never sent one this is an extra behaviour: the model allows
  more than the database does, and what is checked holds all the same.
- **Swallowed exceptions** are `Fail`: the call ends like one that did nothing.
- **Tokens** are records with the length of their payload. The decoder's buffer
  (`jwt_utils.cpp:55`) holds 511 bytes, so a longer payload does not parse. The
  signature is an oracle: it is `signed` or it is not.
- **Documents** of HTTP requests are members of a small set. Two of them one after
  the other are `"garbled"`: two JSON documents together are not one.
- **Logins** are made over HTTP or by a TCP server with the same key and table: only
  the latter asks the table (`LoginOverTcp`). In `HttpApi` a role is what is read there,
  and "user" stands for every role but "moderator".
- **Roles** are words and line ends in any order, since `/api/register` takes any string
  (`http_session.cpp:124`). `findUserByLogin` takes one `\n` and then one `\r` off the end
  (`UserRepository.cpp:52-54`, `Stripped`): the session acts under what is left, which may be
  empty. `AccessControl` is about roles as they are read (`RoleRead`); what that means for
  the table is in `OnlyModeratorsModerate`, whose `AreModerators` are the four entries
  that are read as "moderator".
- **Lines** of the TCP protocol are known, before they are run, by how they begin
  only; that is what `erase(0, length + 1)` (`session.cpp:20`) can change.
- **What is sent after `do_write` has returned** is read from a destroyed
  response; the model chooses whether the bytes are still intact. Nothing bounds a
  response by what the kernel takes: handlers quote strings of bodies of up to a
  megabyte. `Length` and `Room` are any positive numbers.
- **Answers** of the TCP protocol are pieces, cut where it matters to the client: before
  the marker `TOKEN: `, and between the marker and the token. A read returns any
  number of pieces that have arrived. A list of flats is "spaced": it contains
  empty lines (`GetFlatsCommand.cpp:45`). The answer to a login is "odd" when the role
  that it quotes (`LoginCommand.cpp:48`) holds a line end or the marker itself.
- **The client's token** is a login (his whole token), `""`, `"cut"` (a part of one),
  `"tangle"` (with other text), `"poison"` (with an empty line) or, while the
  reading thread assigns the string, `"torn"` for the other thread: the race on
  `token` (`client.cpp:43`, `:99`) as the outcomes that it can have. `LinesOf` is what a
  command becomes when such a token is put into it.
- **`close()` under a blocked reader** (`client.cpp:65`) releases nothing until the reader
  comes back: on Linux it neither wakes the other thread nor ends the connection.
- **Writing to a dead server** succeeds the first time; the reset arrives later
  (`ResetArrives`), and the write after that fails.
- **An accept fails** for any reason (`AcceptFails`); when no descriptor is left it must
  (`AcceptEnds`), even with an empty queue: asio tries at once. When `run()` returns, `main` does, and the kernel resets
  whoever is still in its queue.

## 3. Plan

Done, in this order: `FlatLifecycle`, `FlatRepository` and its proofs;
`UserRepository` and its proofs; `JwtUtils`, `HttpApi`; `HttpSession`; `TcpSession`
and its proofs; then `TcpClient`, `HttpServer`, `UserRegistry` with the refinement, and
the proofs about `HttpApi`, `HttpSession`, `HttpServer` and `TcpClient`; then the proof of
`NothingLost`, and `AccessControl` with the refinement.

What could be added:

1. A composition of `TcpSession` with the statements of `FlatRepository`, so that a
   moderator's connection is followed down to the row: who is confirmed a verdict
   had the role at that moment.
2. The replies of a TCP login: two `async_write`s of strings that are gone
   (`session.cpp:32-45`, `LoginCommand.cpp:48-52`), as `HttpSession` does for responses.
   Replies are short, so that needs a client that does not read for a long time.

## 4. Runs

Runs that must pass:

| run | instance | shows |
|---|---|---|
| `flat_repository` | 3 processes, 1 flat, 1 house, no symmetry | `AtMostOneWinner`, `ShownStaysApproved`, `FlatHasHouse`, the inductive invariant `IInv`, that the flat lives the life of `FlatLifecycle`, and `EveryCallReturns`: nobody waits for ever for a row, even one locked by the dead |
| `user_repository` | 3 processes, 1 login, 2 accounts | `LookupsStayTrue`: the account once found stays the account; every call returns; together the processes are the one registry of `UserRegistry` |
| `http_api` | 1 connection, logins of 434 and 440 bytes over HTTP and TCP, tokens of 1 s in 3 s | `TokensDie` (on every protected endpoint, those of moderators included), `ModeratorsOnly`, `LoginIsGood`, and what each endpoint can answer (`TypeOK`) |
| `http_session` | 3 requests, responses of 3 pieces, a kernel that holds 2; 2 descriptors, 2 in the queue | of the connection: `PatientClientsAreServed`, `NothingLost`, `AnswersArrive`, `SessionsEnd`; of the process: `ConnectedAreServed`, `NobodyWaitsForEver`; and the inductive invariant `ServerInv` |
| `tcp_session` | 1 connection, 2 logins, 3 roles (empty, read as "moderator", not read as "moderator" for a second line end), 2 lines ahead of the server | `RoleIsCurrent`, `OnlyModeratorsModerate`, `LinesRun`, and that the sessions do only what `AccessControl` allows |
| `tcp_client` | 1 client, 2 logins, a plain role and one with a line end left, `/login`, `/get_flats` and `/quit`, 2 lines or pieces under way when the user types | `PatientTokensAreWhole`, `PatientClientsKillNobody`, `FramedTokenIsMine`, `QuitEnds`, `WriterNotices`, and the inductive invariant `ClientInv` |

Runs that find a promise broken (section 5): `flat_false_answer`,
`user_duplicate`, `http_keep_alive`, `http_moderator`, `http_pipelining`, `tcp_token`.

### Bounds, and why they are enough

- *Processes.* Two are needed for a race on one row; the third lets one wait for a
  row while a second has it and a third asks for the other verdict. Calls about
  different flats touch no row in common but the house, which they only read, so one flat is
  enough; the proofs are about any number. One house: houses matter through existing
  or not, and the run starts with none or one.
  Nothing counts up: `acks` does in the type, and the invariant keeps it at 1.
- *Users.* Rows of different logins do not touch one another, so one login is enough;
  two accounts make a second registration differ from the first.
- *Tokens.* A lifetime of 1 s in 3 s (`MaxNow` = 2) has a token in its first second,
  its last, and the first after. The login lengths are the longest whose token is
  accepted under either role and the shortest whose token never is; that the limit for a
  user is 439 exactly is theorem `TokenLife`. `MaxIssued` = 2 logins are on record, one
  over HTTP and one over TCP (`OneOfEach`), of the same user or of two: the token of a
  moderator can be tried while that of a user is there, and no property relates more
  than the token that is used to its login. Connections share `users` and `issued` only, and the
  handlers read neither for anything but tokens a client has; one connection that
  is closed and opened again shows them.
- *Responses.* Three pieces and a kernel that holds two: the last piece of every
  response, a patient client's too, is sent from freed memory, and a write stops in
  the middle. With three requests one response can be half sent while two wait behind
  it. `MaxRequests` bounds the client, so the run ends: deadlock is not checked there.
- *Lines.* `MaxPending` = 2: the line that is run, and the one behind it that loses a
  character; a third is touched only when the second has become the first. Sessions of
  one server share only the `users` table, which `RegisterElsewhere` changes at any
  time, and the death of the process, `Die`; so one session is enough for the run,
  and the proof is about any number.
- *Server.* With two descriptors a session of another client and mine fill the process; with
  two places in the queue one can be before or behind me. `MaxQueued` bounds what
  the kernel keeps. `MCHttpSession` remains for `http_pipelining`, which is about the
  connection alone.
- *Client.* `MaxUnread` = 2 bounds what is under way when a line is typed; with one bad
  token a line becomes three. `/login` brings tokens, `/get_flats` lists and empty
  lines, `/quit` the end; other protected commands are sent as `/get_flats` is and
  answered without empty lines. Of the roles one is plain, and one still ends
  in a line end when it has been read; whoever has the latter is the only user in the
  table (`OddAlone`): two users with such a role only add states of the same kind, and for
  what is not liveness the proofs cover them. Two logins make a token that is another user's. Of
  the line ends in a tangled token only the first is followed.

### Fairness, and why the code justifies it

- *Repositories* (`Fairness`): a process inside a call goes on with it, unless it
  fails or dies (weak fairness). `ExecMove` and `ExecInsert`, which may have to
  wait for a lock, get strong fairness: PostgreSQL queues the transactions that
  wait for a row, so one that could proceed again and again does. `OrphanAbort`
  is weakly fair: the TCP keepalive of the database ends the sessions of clients
  that are gone. Nothing is said of `Invoke`, `Fail`, `Crash`, `Restart` and
  `OrphanCommit`: nobody has to call, fail, die, come back or be committed.
- *HTTP connection*: `io_context.run()` runs every handler that is due, one at a
  time, and the client receives what has reached it. A client need not send or
  close, so only what is said about answers depends on it staying.
- *HTTP server*: the acceptor is part of the same loop, and `main` returns when `run()`
  does. Nobody has to connect, send or leave; `NobodyWaitsForEver` assumes in its
  own words that other clients leave now and then.
- *TCP session*: the event loop again. Clients need not connect, send or quit.
- *TCP client*: either thread goes on when it can, the kernels release a socket and deliver a
  reset, and the server's loop runs. The user need not type; `WriterNotices`
  assumes in its own words that he does. Deadlock is not checked there: after the
  hang described in section 5 nothing happens any more, and that is the program.
- *Failing accepts*: no accept need fail while there are descriptors, and none need
  succeed after one has failed.

## 5. Where the code differs from what the repository says

Each has a run whose trace shows it, and an entry under "findings".

- **A refusal that is none** (`flat_false_answer`). `UpdateFlatStatus` returns `false`
  for a database error as well as for a flat in another status
  (`FlatRepository.cpp:152`); the moderator is then told the flat does not exist or
  is not on moderation (`UpdateFlatStatusCommand.cpp:40`).
- **201 for a taken login** (`user_duplicate`). `TESTING_GUIDE.md:176` expects 409.
  `saveUser` swallows the unique violation and the handler answers 201.
- **Bodies pile up** (`http_keep_alive`). `request_` is never cleared and the parser
  appends: the second request with a body on one connection is garbled.
- **The moderator who is a user** (`http_moderator`). TESTING_GUIDE.md:276-325 registers a
  moderator, logs him in over HTTP, shows the role "moderator" in the answer and has a house
  created with his token; README.md:549 says the same. `handle_login_request` is a
  stub that never reads the users table and gives everybody the role "user"
  (`http_session.cpp:299`): the endpoints of moderators open for the tokens of a TCP server
  only, which `ModeratorsOnly` and `TokensDie` are about. For the same reason a wrong
  password and an unknown login get 200, not the 401 and 404 of TESTING_GUIDE.md:234 and :259.
- **Answers overtake** (`http_pipelining`). The class comment
  (`http_session.hpp:29-30`) has the answer sent before the next request is
  processed; `do_read` is called at once. A client that waits for its answers gets
  them in order nevertheless, and as much of each as the kernel takes at once intact
  (`PatientClientsAreServed`).
- **The token that opens nothing** (`tcp_token`). README.md:265 has the token stored in
  the session; nothing stores it. Protected commands accept the empty token, and
  refuse the one that the login gave out.

Found by reading; a run would only repeat the reading:

- The migration lacks a semicolon after `CREATE TABLE users`, so neither the table nor
  the first house come into being. `Init` of `FlatRepository` and `table` of
  `UserRepository` start both ways.
- Of the REST endpoints only registration reaches a repository, so "immediate data
  storage" (README.md:174) is true of users only. `GET /api/flats` returns an empty
  list and asks for no token, against the 401 of TESTING_GUIDE.md:570 and :588, and a flat is
  taken twice, against the 409 of :619.
- The guide's bodies do not fit the handlers: `"new_status"` (TESTING_GUIDE.md:477, :637) for
  `"status"`, and `"flat_number":"101"` (:388) for a number. Both get 400.
- A response longer than what the kernel takes at once is partly sent from freed
  memory, however patient the client is (`http_session.cpp:245-262`).
- A request whose target is no UTF-8 is answered 500, not 404: the message quotes it and
  `dump()` throws (`http_session.cpp:224`, action `NotFound`).
- Whoever registers under the role "moderator" with a line end behind it moderates on TCP
  (`UserRepository.cpp:52-54`); behind two of them he does not.
- `/create_flat` and `/create_house` answer OK for an INSERT that was refused
  (`FlatCommand.cpp:29`), against README.md's "writes a new row".
- A token for a login of more than 439 bytes is signed, given out and never accepted.
- A blank line kills the TCP server (`session.cpp:51`, action `Die`).

Found with the models of the client and the HTTP server, whose properties are worded
around them:

- *The client may hang after `/quit`.* A `/quit` that reaches the server while the line before
  it is still in `responce` loses its first character (`session.cpp:20`) and is
  answered "unknown command". The client has left its loop, closes the socket under
  the reading thread and joins it (`client.cpp:65`), and the server, which never saw
  the connection end, waits for the next line. The prompt promises that `/quit` exits
  (`client.cpp:14`). `QuitEnds` holds for a user who has waited for his answers.
- *Answers that arrive together spoil the token.* The token is everything behind the first
  space of a read (`client.cpp:93-99`). "OK" and "TOKEN: .." in one read give a
  token with a line end in it, and the next command becomes two lines. With a
  list of flats in the same read the token has an empty line in it, and the next
  command kills the server with all its sessions. Users who wait are spared the
  second (`PatientClientsKillNobody`), not the first.
- *A role with an empty line* in it (`LoginCommand.cpp:48`) needs no second answer: when
  the answer to the login is read together with a marker of a token, or the role holds one,
  the token has the empty line in it, and the next command of a user who has waited
  kills the server. `PatientClientsKillNobody` therefore asks for roles without line ends
  (`Plain`).
- *A token that is cut* by the boundary of a read is stored in part; if the marker is cut it
  is not stored at all, and after a second login the client goes on with the token
  of the first. `FramedTokenIsMine` therefore asks for reads that are whole answers.
- A client that never had a token sends none and is served; one that sends the token it
  was given is refused (see `tcp_token`). What the races do to the token matters to the
  lines it makes, not to who is let in.
- The main thread learns only from its second write that the server is gone
  (`client.cpp:52`).
- After a failed accept the HTTP server never accepts again (`http_server.cpp:81-85`), and
  when its last session ends it exits with status 0. The TCP server accepts again.
- README.md:757 has the "legacy TCP client" run against port 8080, where the server that
  is built speaks HTTP only.

## 6. Proofs

Proved for every value of the constants, from the assumptions declared with them:
`CallersAssumption` (no process is called "free" or "orphan"), `UserAssumption` (the
same, and `None` is no account), `TcpAssumption` (a role is a sequence of strings, none of
them "none"; "none" is no login; the bound is a number), `ApiAssumption` (lengths, times
and the bound are numbers), `SessionAssumption` (a response has at least one piece, and the
kernel room for at least one; neither is bounded by the other), `ServerAssumption` (the two
bounds are positive), `ClientAssumption` (the user types commands, and no login is called
like a spoilt token).

- **`FlatRepository_proofs`.** `Invariance`, `TypeCorrect`, `OneWinner`,
  `NoVerdictTakenBack`, `HousedFlats`, `Refinement`. `AtMostOneWinner` alone is not
  inductive: that a second call cannot win follows from the first having moved the
  row beyond what the `WHERE` clause asks for. `IInv` adds
  `LockInv` (a lock belongs to the one statement that wrote the row, and under it the
  committed status is still the one the statement found), `AckInv` (a change is
  confirmed, or about to be, only once it is made, and by one call) and `HouseInv`
  (the house exists already while the flat is being inserted). One lemma per action
  shows it preserved; `Fail` and `Crash` share `AbandonedIInv`.
  `Refinement` maps a commit, its own or an orphan's, to `Advance`, a `true` answer to
  `Acknowledge`, and all else to a stutter; `LockInv` says the commit starts from the
  status before, and `AckInv` that the answer is true and the first.
- **`UserRepository_proofs`.** `Invariance`, `AccountsAreForever`, `Implementation`. The strengthening is
  again about uncommitted rows: while there is one, its login has no account, so a
  commit never replaces what a lookup has returned. `Implementation` maps the commit of a
  registration, its own or an orphan's, to `Register`, the statement of a lookup to
  `LookUp`, and all else to a stutter.
- **`JwtUtils_proofs`.** `RoundTrip`: decoding gives back what was encoded exactly up
  to 511 bytes. `TokenLife`: a token of the server is valid exactly through its expiry
  second, and exactly if a user's login takes at most 439 bytes: the rest of his payload takes 72.
- **`TcpSession_proofs`.** `Invariance`, `ActsForItsUser`, `Moderators`, on any number
  of connections. `RoleIsCurrent` with the types is inductive: roles in `users` are
  never changed once set, and the session's is always the `Stripped` one. That only four
  entries of the table are read as "moderator" is what `Moderators` adds. The proof treats the type invariant in three parts, the
  lines (`Lines`), the users and sessions (`People`) and the reply (`Recorded`), since
  no command touches the first and reading touches only it. `OnlyModeratorsModerate`
  then is about single steps.
  `OnlyWhatIsAllowed` is the refinement: a login maps to `LogIn`, `/quit` and the end of a
  session to `LogOut`, the death of the process to `GoDown`, a command that calls a
  repository to `Act`, one that does not to `Refuse`, and moving lines to a stutter.
  That `Act` may be taken is `RoleIsCurrent`: the fields that `execute` asks are
  those of the one who gave his password. `AccessIsEarned` says what the abstract
  specification is worth, from its own invariant `AccessInv`: nothing is done but for
  a registered user who is logged in, and moderation for moderators only.

- **`HttpApi_proofs`.** `TokensExpire`, `ModerationIsForModerators`, `LoginsOpen`,
  `AnswersAreTyped`, all from the inductive invariant `IInv`. Its strengthening is
  `IssuedInv`: every token on record is the one that `generateToken` makes of its login, of
  the second it was made in and of its role, "user" over HTTP and that of the table over
  TCP, which stays what it is. So a token that still validates is young enough, and one
  that says "moderator" is a moderator's. That it validates at all is `TokenLife`.
- **`HttpSession_proofs`, `HttpServer_proofs`.** `SessionInvariance` for a connection alone,
  `ServerInvariance` for one in the process, and from it `PatienceIsRewarded`,
  `ServerTypes`, `SessionTypes` and `EveryPieceOnce`. `PatientClientsAreServed` is not inductive; `PatientInv`
  says why it holds: a client that has had all answers has emptied the kernel, so of the
  next response as much as there is room for goes out at once, from the response
  itself; only the rest of this one write can be pending, and it is read from freed
  memory. A response for which there is room is therefore intact as a whole. The pieces are numbered through by `Due`, whose quotient and remainder are
  the lemma `DueOf`. `EveryPieceOnce` (for a connection alone, `SessionLosesNothing`) is
  about any client, however many writes wait at once. `AccountInv` strengthens it
  to an account of every answer: what a write has still to send comes behind all
  that has been sent of its answer; each answer has at most one write; and every
  piece of an answer that was begun is sent or owed. It is
  stated per piece and not as a sum over the writes, since what a sum over a
  sequence is would take an induction. `SentAccount` is the step that sends, and
  `AppendWrites` and `TailWrites` say what queueing does to the writes. `ServerInv` adds that descriptors are counted right, that a connection
  is queued once, and that before it is accepted the process knows nothing of it.
- **`TcpClient_proofs`.** `ClientInvariance`, and from it `WholeTokens`, `NoFatalLine`,
  `OwnToken`, `ClientTypes`, `ClientGetsOnlyWhatIsAllowed`, `ClientsEarnWhatTheyGet`, for every set of logins and of commands. Three parts, each
  inductive only with `IInv` of the session and the types: `StreamInv` (a marker is
  followed by its token wherever a read has cut, and what is stored came with a marker);
  `PatientInv` (between two moments at which a patient user types, there is either no
  token on its way or no list, so that no token takes in an empty line); `FramedInv`
  (the last token on its way, or else the one being stored, or else the one
  stored, is that of the session's user). What needs plain roles says so: `NoFatalLine` is
  about them alone, the others hold for any roles. Steps that bring neither a line, nor an
  answer, nor a token share the lemma `NothingNew`; `AnswerComes` is about a reply and
  `LineGone` about the line that is taken out and the next one that loses a character.
  The refinement of `AccessControl` takes over the steps of the session
  from `TcpSession_proofs`; those of the client move neither who acts nor who is
  registered, and `Release` leaves the session where it is (`ReleaseAllowed`).

Only model-checked: all liveness (`EveryCallReturns`, `AnswersArrive`, `SessionsEnd`,
`ConnectedAreServed`, `NobodyWaitsForEver`, `LinesRun`, `QuitEnds`, `WriterNotices`),
which TLAPS does not reach here. Every invariant, action property and refinement
that a run finds to hold is proved.

## 7. What is not modelled, and why

- Columns that nothing reads back (number, price, rooms, address); the wording of
  replies and of JSON; log lines and the logger.
- HMAC, Base64 and JSON as computations: what they do to lengths, and whether a
  signature is right, is what the properties tell apart. A failure inside
  `generateToken`, which returns an empty token, is left out.
- A data race or freed memory beyond its effect on what is sent.
- `HttpServer::stop`, signals and shutdown: nothing calls them.
- Errors of accepting in the TCP server, which only tries again (`server.cpp`), and so
  affects nobody who is connected.
- In the client: a command that the program rejects by itself without
  sending it, and the end of its input, at which it loops for ever without doing
  anything (`client.cpp:15-17`).
- The two writes of a TCP login as writes in progress (section 3, item 2).
- `DatabaseManager`, the build and the tests have no behaviour of their own.
