------------------------------ MODULE HttpApi ------------------------------
(***************************************************************************)
(* The REST API: what HttpSession answers to each request on the           *)
(* connections of one server, and what that changes.  How requests and     *)
(* answers travel is the subject of HttpSession.tla.                       *)
(*                                                                         *)
(* A request is read into the member request_, which is the same object    *)
(* for all requests of a connection and is never cleared.  The parser      *)
(* clears its header fields but appends to its body, so what a handler     *)
(* parses as JSON is every document the connection has received so far,    *)
(* one after the other.                                                    *)
(*                                                                         *)
(* Of the handlers only registration reaches a repository.  Logging in is  *)
(* a stub that accepts everybody as a "user"; the others echo their input. *)
(*                                                                         *)
(* A TCP server makes its tokens with the same key, out of the users table *)
(* that both share; only these may say "moderator".  A role is here what    *)
(* is read in that table, "user" being any but "moderator"; TcpSession.tla *)
(* has what reading does to it.                                            *)
(***************************************************************************)
EXTENDS Sequences, FiniteSets, JwtUtils

CONSTANTS
  Conns,            \* connections
  Logins,
  Width,            \* Width[l]: bytes of login l in JSON
  Lifetime,         \* seconds: 86400 in the code
  MaxNow,           \* bound: the last second of the model
  MaxIssued         \* bound: logins on record

ASSUME ApiAssumption == /\ Width \in [Logins -> Nat]
                        /\ Lifetime \in Nat /\ MaxNow \in Nat /\ MaxIssued \in Nat

VARIABLES
  body,             \* body[c]: request_.body(): <<>> or what it reads as, as JSON
  users,            \* users[l]: the role that findUserByLogin reads for login l, or "none"
  issued,           \* history: tokens given out, when, over what, and to whom
  now,              \* std::time
  last              \* the request just answered and its answer

vars == <<body, users, issued, now, last>>

Moderation == {"house", "take", "status"}
Protected  == {"flat"} \cup Moderation
Endpoints  == {"login", "register", "flats", "other"} \cup Protected

(***************************************************************************)
(* A document is JSON with the fields that one endpoint asks for, or       *)
(* "garbled".  No two of them make a JSON document when put together.      *)
(***************************************************************************)
Documents == {"login", "flat", "house", "take", "status", "garbled"}

Needs == [login |-> "login", register |-> "login", flat |-> "flat",
          house |-> "house", take |-> "take", status |-> "status"]

Fits(doc, endpoint) == doc = Needs[endpoint] \/ (doc = "status" /\ endpoint = "take")

Tokens == {i.token : i \in issued} \cup {Forged(r) : r \in TokenRoles}

----------------------------------------------------------------------------
(***************************************************************************)
(* Reading and answering.                                                  *)
(***************************************************************************)

\* What async_read leaves in request_.body(): string_body appends.
Content(c, docs) == IF docs = <<>> THEN body[c]
                    ELSE IF body[c] = <<>> THEN docs ELSE <<"garbled">>

\* json::parse and the fields the handler takes out of it.
Parsed(c, docs, endpoint) == /\ Content(c, docs) # <<>>
                             /\ Fits(Content(c, docs)[1], endpoint)

\* extract_bearer_token, validate_token: the role, or "nobody".
RoleOf(token) == IF validateToken(token, now) THEN token.role ELSE "nobody"

\* The document is read, and the answer goes out.
Answer(c, endpoint, docs, token, status) ==
  /\ body' = [body EXCEPT ![c] = Content(c, docs)]
  /\ last' = [to |-> endpoint, docs |-> docs, token |-> token,
              first |-> body[c] = <<>>, status |-> status]
  /\ UNCHANGED now

NoToken == Forged("user")

Silence == [to |-> "other", docs |-> <<>>, token |-> NoToken, first |-> TRUE, status |-> 404]

\* A login of l: the token, and what the users table says of him at the time.
Issue(l, over, role) ==
  /\ issued' = issued \cup {[at |-> now, login |-> l, over |-> over, as |-> users[l],
                             token |-> generateToken(Width[l], role, now, Lifetime)]}
  /\ Cardinality(issued') <= MaxIssued

\* The role that handle_login_request puts into the token, whoever logs in.
GrantedRole_AsAsked(asked) == asked
GrantedRole(asked) == "user"

\* POST /api/login: any login and password will do, registered or not.  The role that
\* the user was registered with plays no part.
handle_login_request(c, docs, l, role) ==
  /\ \/ /\ Parsed(c, docs, "login")
        /\ Issue(l, "http", GrantedRole(role))
        /\ Answer(c, "login", docs, NoToken, 200)
     \/ /\ ~ Parsed(c, docs, "login")
        /\ Answer(c, "login", docs, NoToken, 400)
        /\ UNCHANGED issued
  /\ UNCHANGED users

\* LoginCommand of a TCP server: the token says what the users table says.
LoginOverTcp(l) == /\ users[l] # "none"
                   /\ Issue(l, "tcp", users[l])
                   /\ last' = Silence
                   /\ UNCHANGED <<body, users, now>>

\* POST /api/register: the row may be refused or the database away, 201 it is;
\* a body that does not parse ends in the catch of process_request.
Register(c, docs, l, role) ==
  /\ \/ /\ Parsed(c, docs, "register")
        /\ \/ users[l] = "none" /\ users' = [users EXCEPT ![l] = role]
           \/ UNCHANGED users
        /\ Answer(c, "register", docs, NoToken, 201)
     \/ /\ ~ Parsed(c, docs, "register")
        /\ Answer(c, "register", docs, NoToken, 500)
        /\ UNCHANGED users
  /\ UNCHANGED issued

\* 401 where any valid token would do, 403 where it takes a moderator's.
Denied_Alike(endpoint) == 401
Denied(endpoint) == IF endpoint = "flat" THEN 401 ELSE 403

\* POST /api/flat: any valid token.
handle_create_flat_request(c, docs, token) ==
  /\ Answer(c, "flat", docs, token,
            IF RoleOf(token) = "nobody" THEN Denied("flat")
            ELSE IF Parsed(c, docs, "flat") THEN 201 ELSE 400)
  /\ UNCHANGED <<users, issued>>

\* GET /api/flats/{house_id}: no token, and no flats either; the id must be a number.
handle_get_flats_request(c, docs, isNumber) ==
  /\ Answer(c, "flats", docs, NoToken, IF isNumber THEN 200 ELSE 400)
  /\ UNCHANGED <<users, issued>>

\* POST /api/house and /api/flat/take, PUT /api/flat/status: for moderators.
Permits(role) == role = "moderator"

Moderate(c, endpoint, docs, token) ==
  /\ Answer(c, endpoint, docs, token,
            IF ~ Permits(RoleOf(token)) THEN Denied(endpoint)
            ELSE IF ~ Parsed(c, docs, endpoint) THEN 400
            ELSE IF endpoint = "house" THEN 201 ELSE 200)
  /\ UNCHANGED <<users, issued>>

handle_create_house_request(c, docs, token)       == Moderate(c, "house", docs, token)
handle_take_flat_request(c, docs, token)          == Moderate(c, "take", docs, token)
handle_update_flat_status_request(c, docs, token) == Moderate(c, "status", docs, token)

\* The message quotes the target, and a target that is no UTF-8 cannot be put into
\* JSON: the answer is then that of the catch of process_request.
NotFound(c, docs, isUtf8) ==
  /\ Answer(c, "other", docs, NoToken, IF isUtf8 THEN 404 ELSE 500)
  /\ UNCHANGED <<users, issued>>

\* The client closes its connection and opens another: a new HttpSession.
Reconnect(c) == /\ body' = [body EXCEPT ![c] = <<>>]
                /\ last' = Silence
                /\ UNCHANGED <<users, issued, now>>

Tick == /\ now < MaxNow
        /\ now' = now + 1
        /\ last' = Silence
        /\ UNCHANGED <<body, users, issued>>

----------------------------------------------------------------------------

Init ==
  /\ body   = [c \in Conns |-> <<>>]
  /\ users  = [l \in Logins |-> "none"]
  /\ issued = {}
  /\ now    = 0
  /\ last   = Silence

\* A request carries one document or none.
Bodies == {<<>>} \cup {<<d>> : d \in Documents}

Handle(c, docs) ==
  \/ \E l \in Logins, r \in TokenRoles : handle_login_request(c, docs, l, r)
  \/ \E l \in Logins, r \in TokenRoles : Register(c, docs, l, r)
  \/ \E t \in Tokens : \/ handle_create_flat_request(c, docs, t)
                       \/ handle_create_house_request(c, docs, t)
                       \/ handle_take_flat_request(c, docs, t)
                       \/ handle_update_flat_status_request(c, docs, t)
  \/ \E b \in BOOLEAN : handle_get_flats_request(c, docs, b) \/ NotFound(c, docs, b)

Next == \/ \E c \in Conns, docs \in Bodies : Handle(c, docs)
        \/ \E c \in Conns : Reconnect(c)
        \/ \E l \in Logins : LoginOverTcp(l)
        \/ Tick

Spec == Init /\ [][Next]_vars

----------------------------------------------------------------------------

\* What each endpoint can answer at all.  TESTING_GUIDE.md has more: no login ends in
\* 401 or 404 (lines 234, 259), no list of flats in 401 (570, 588), and no flat is
\* taken with a 409 (619).
Statuses == [login    |-> {200, 400},      register |-> {201, 500},
             flats    |-> {200, 400},      flat     |-> {201, 400, 401},
             house    |-> {201, 400, 403}, take     |-> {200, 400, 403},
             status   |-> {200, 400, 403}, other    |-> {404, 500}]

TypeOK ==
  /\ body \in [Conns -> Bodies]
  /\ users \in [Logins -> TokenRoles \cup {"none"}]
  /\ \A i \in issued : /\ i.login \in Logins /\ i.at \in 0..now /\ i.token.signed
                      /\ i.over \in {"http", "tcp"} /\ i.as \in TokenRoles \cup {"none"}
  /\ now \in 0..MaxNow
  /\ last.to \in Endpoints /\ last.status \in Statuses[last.to]

Succeeded == last.status \in {200, 201}

\* A protected request that succeeds, with any role, carries a token that was given
\* out at a login not longer ago than its lifetime.
TokensDie ==
  last.to \in Protected /\ Succeeded =>
    \E i \in issued : i.token = last.token /\ now <= i.at + Lifetime

\* Only a login over TCP, of someone read as a moderator in the users table, gives a token that opens
\* the endpoints of moderators: neither registering as one nor asking for the role at
\* login does over HTTP.  (That the guide promises a moderator more is the subject of
\* RegisteredModeratorsModerate.)
ModeratorsOnly ==
  last.to \in Moderation /\ Succeeded =>
    \E i \in issued : i.token = last.token /\ i.over = "tcp" /\ users[i.login] = "moderator"

\* Whoever logs in over HTTP under a login of at most 439 bytes can create a flat on a
\* new connection until the last second of his token.
LoginIsGood ==
  last.to = "flat" /\ last.first /\ last.docs = <<"flat">> =>
    \A i \in issued :
      (i.over = "http" /\ i.token = last.token /\ now <= i.at + Lifetime /\ Width[i.login] <= 439)
        => last.status = 201

\* A token says when it was made, for a login of what length, and a role: "user" over
\* HTTP, and over TCP that of the users table, which stays what it is.
IssuedInv ==
  \A i \in issued :
    /\ i.token = generateToken(Width[i.login], IF i.over = "http" THEN "user" ELSE i.as, i.at, Lifetime)
    /\ i.as # "none" => users[i.login] = i.as

\* The inductive invariant.
IInv == TypeOK /\ IssuedInv /\ TokensDie /\ ModeratorsOnly /\ LoginIsGood

\* Whoever is registered as a moderator and then logs in, over HTTP or TCP, creates
\* houses with the token he gets, on a new connection and until its last second.
RegisteredModeratorsModerate ==
  last.to = "house" /\ last.first /\ last.docs = <<"house">> =>
    \A i \in issued :
      (i.token = last.token /\ i.as = "moderator" /\ now <= i.at + Lifetime /\ Width[i.login] <= 434)
        => last.status = 201

\* On a connection that is used again a request is answered as on a new one.
KeepAliveIsTransparent ==
  last.to = "login" /\ last.docs = <<"login">> => last.status = 200

============================================================================
