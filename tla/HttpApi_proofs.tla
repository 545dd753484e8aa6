--------------------------- MODULE HttpApi_proofs ---------------------------
(***************************************************************************)
(* Who gets what from the REST API, for every number of connections, every *)
(* login and every lifetime of tokens.                                     *)
(***************************************************************************)
EXTENDS HttpApi, JwtUtils_proofs

\* A request leaves a document in the body, or none.
LEMMA ContentType ==
  ASSUME TypeOK, NEW c \in Conns, NEW docs \in Bodies
  PROVE  Content(c, docs) \in Bodies
  BY DEF TypeOK, Content, Bodies, Documents

IssuedType ==
  \A i \in issued : /\ i.login \in Logins /\ i.at \in 0..now /\ i.token.signed
                    /\ i.over \in {"http", "tcp"} /\ i.as \in TokenRoles \cup {"none"}

\* The answers are those that the endpoint can give, and the body stays a document.
LEMMA AnswerType ==
  ASSUME TypeOK, NEW c \in Conns, NEW docs \in Bodies, NEW e \in Endpoints,
         NEW t, NEW s \in Statuses[e], Answer(c, e, docs, t, s),
         users' \in [Logins -> TokenRoles \cup {"none"}], IssuedType'
  PROVE  TypeOK'
  <1>1. body' \in [Conns -> Bodies]
    BY ContentType DEF TypeOK, Answer
  <1>2. last'.to = e /\ last'.status = s /\ now' = now
    BY DEF Answer
  <1> QED BY <1>1, <1>2 DEF TypeOK, IssuedType

\* What a login puts on record has its type and describes its token.
LEMMA IssueStep ==
  ASSUME IInv, NEW l \in Logins, NEW over \in {"http", "tcp"}, NEW r,
         over = "http" => r = "user", over = "tcp" => r = users[l],
         Issue(l, over, r), UNCHANGED <<users, now>>
  PROVE  IssuedType' /\ IssuedInv'
  <1> DEFINE t == generateToken(Width[l], r, now, Lifetime)
             new == [at |-> now, login |-> l, over |-> over, as |-> users[l], token |-> t]
  <1>1. issued' = issued \cup {new}
    BY DEF Issue
  <1>2. t.signed
    BY DEF generateToken
  <1>3. users[l] \in TokenRoles \cup {"none"} /\ now \in 0..now
    BY DEF IInv, TypeOK
  <1>4. IssuedType'
    BY <1>1, <1>2, <1>3 DEF IInv, TypeOK, IssuedType
  <1>5. /\ new.token = generateToken(Width[new.login], IF new.over = "http" THEN "user" ELSE new.as, new.at, Lifetime)
        /\ new.as # "none" => users'[new.login] = new.as
    OBVIOUS
  <1> HIDE DEF new
  <1>6. IssuedInv'
    BY <1>1, <1>5 DEF IInv, IssuedInv
  <1> QED BY <1>4, <1>6

\* The token that a login gives out is the one that its record describes.
LEMMA LoginStep ==
  ASSUME IInv, NEW c \in Conns, NEW docs \in Bodies, NEW l \in Logins, NEW r \in TokenRoles,
         handle_login_request(c, docs, l, r)
  PROVE  IInv'
  <1> USE DEF IInv
  <1>1. PICK s \in {200, 400} : Answer(c, "login", docs, NoToken, s)
    BY DEF handle_login_request
  <1>2. IssuedType' /\ IssuedInv'
    <2>1. CASE Issue(l, "http", "user")
      BY <1>1, <2>1, IssueStep DEF handle_login_request, Answer
    <2>2. CASE UNCHANGED issued
      BY <1>1, <2>2 DEF handle_login_request, Answer, TypeOK, IssuedType, IssuedInv
    <2> QED BY <2>1, <2>2 DEF handle_login_request, GrantedRole
  <1>3. TypeOK'
    <2>1. "login" \in Endpoints /\ s \in Statuses["login"]
      BY DEF Endpoints, Statuses
    <2>2. users' \in [Logins -> TokenRoles \cup {"none"}]
      BY DEF handle_login_request, TypeOK
    <2> QED BY <1>1, <1>2, <2>1, <2>2, AnswerType
  <1>4. last'.to = "login"
    BY <1>1 DEF Answer
  <1> QED BY <1>2, <1>3, <1>4 DEF TokensDie, ModeratorsOnly, LoginIsGood, Protected, Moderation

\* An answer from an endpoint that asks for no token.
LEMMA OpenStep ==
  ASSUME IInv, NEW c \in Conns, NEW docs \in Bodies, NEW e \in {"register", "flats", "other"},
         NEW s \in Statuses[e], Answer(c, e, docs, NoToken, s),
         \A l \in Logins : users[l] # "none" => users'[l] = users[l],
         users' \in [Logins -> TokenRoles \cup {"none"}], UNCHANGED issued
  PROVE  IInv'
  <1> USE DEF IInv
  <1>1. TypeOK'
    <2>1. e \in Endpoints
      BY DEF Endpoints
    <2>2. IssuedType'
      BY DEF TypeOK, IssuedType, Answer
    <2> QED BY <2>1, <2>2, AnswerType
  <1>2. IssuedInv'
    BY DEF IssuedInv, TypeOK, Answer
  <1>3. last'.to = e
    BY DEF Answer
  <1> QED BY <1>1, <1>2, <1>3 DEF TokensDie, ModeratorsOnly, LoginIsGood, Protected, Moderation

\* A token that opens anything has been given out and has not expired; if it says
\* "moderator" it was given out over TCP, to a moderator.
LEMMA GoodToken ==
  ASSUME IInv, NEW t \in Tokens, RoleOf(t) # "nobody"
  PROVE  \E i \in issued :
           /\ i.token = t /\ now <= i.at + Lifetime
           /\ RoleOf(t) = "moderator" => i.over = "tcp" /\ users[i.login] = "moderator"
  <1>1. validateToken(t, now) /\ RoleOf(t) = t.role
    BY DEF RoleOf
  <1>2. ~ \E r \in TokenRoles : t = Forged(r)
    BY <1>1 DEF validateToken, Forged
  <1>3. PICK i \in issued : i.token = t
    BY <1>2 DEF Tokens
  <1> DEFINE r == IF i.over = "http" THEN "user" ELSE i.as
  <1>4. /\ t = generateToken(Width[i.login], r, i.at, Lifetime)
        /\ i.as # "none" => users[i.login] = i.as
    BY <1>3 DEF IInv, IssuedInv
  <1>5. i.at \in Nat /\ now \in Nat /\ i.over \in {"http", "tcp"}
    BY DEF IInv, TypeOK
  <1>6. t.role = r /\ t.exp = i.at + Lifetime
    BY <1>4 DEF generateToken
  <1>7. now <= i.at + Lifetime
    BY <1>1, <1>5, <1>6, ApiAssumption DEF validateToken, Expired
  <1>8. t.role = "moderator" => i.over = "tcp" /\ users[i.login] = "moderator"
    BY <1>4, <1>5, <1>6
  <1> QED BY <1>1, <1>3, <1>7, <1>8

\* A flat is created for whoever has a valid token.
LEMMA FlatStep ==
  ASSUME IInv, NEW c \in Conns, NEW docs \in Bodies, NEW t \in Tokens,
         handle_create_flat_request(c, docs, t)
  PROVE  IInv'
  <1> USE DEF IInv
  <1> DEFINE s == IF RoleOf(t) = "nobody" THEN Denied("flat")
                  ELSE IF Parsed(c, docs, "flat") THEN 201 ELSE 400
  <1>1. Answer(c, "flat", docs, t, s) /\ UNCHANGED <<users, issued>>
    BY DEF handle_create_flat_request
  <1>2. s \in Statuses["flat"]
    BY DEF Denied, Statuses
  <1>3. TypeOK'
    <2>1. "flat" \in Endpoints
      BY DEF Endpoints, Protected
    <2>2. users' \in [Logins -> TokenRoles \cup {"none"}] /\ IssuedType'
      BY <1>1 DEF TypeOK, IssuedType, Answer
    <2> QED BY <1>1, <1>2, <2>1, <2>2, AnswerType
  <1>4. IssuedInv'
    BY <1>1 DEF IssuedInv
  <1>5. /\ last'.to = "flat" /\ last'.token = t /\ last'.status = s
        /\ last'.docs = docs /\ last'.first = (body[c] = <<>>) /\ now' = now
    BY <1>1 DEF Answer
  <1>6. TokensDie'
    <2>1. Succeeded' => RoleOf(t) # "nobody"
      BY <1>5 DEF Succeeded, Denied
    <2> QED BY <1>1, <1>5, <2>1, GoodToken DEF TokensDie
  <1>7. ModeratorsOnly'
    BY <1>5 DEF ModeratorsOnly, Moderation
  <1>8. LoginIsGood'
    <2> SUFFICES ASSUME last'.first, last'.docs = <<"flat">>,
                        NEW i \in issued, i.over = "http",
                        i.token = t, now <= i.at + Lifetime, Width[i.login] <= 439
                 PROVE  s = 201
      BY <1>1, <1>5 DEF LoginIsGood
    <2>1. Content(c, docs) = <<"flat">>
      BY <1>5 DEF Content
    <2>2. Parsed(c, docs, "flat")
      BY <2>1 DEF Parsed, Fits, Needs
    <2>3. t = generateToken(Width[i.login], "user", i.at, Lifetime)
      BY DEF IssuedInv
    <2>4. i.at \in Nat /\ now \in Nat /\ Width[i.login] \in Nat /\ Lifetime \in Nat
      BY ApiAssumption DEF TypeOK
    <2>5. validateToken(t, now)
      BY <2>3, <2>4, TokenLife
    <2>6. RoleOf(t) = "user"
      BY <2>3, <2>5 DEF RoleOf, generateToken
    <2> QED BY <2>2, <2>6
  <1> QED BY <1>3, <1>4, <1>6, <1>7, <1>8

\* Moderation is for tokens that say "moderator".
LEMMA ModerateStep ==
  ASSUME IInv, NEW c \in Conns, NEW docs \in Bodies, NEW t \in Tokens,
         NEW e \in Moderation, Moderate(c, e, docs, t)
  PROVE  IInv'
  <1> USE DEF IInv
  <1> DEFINE s == IF ~ Permits(RoleOf(t)) THEN Denied(e)
                  ELSE IF ~ Parsed(c, docs, e) THEN 400
                  ELSE IF e = "house" THEN 201 ELSE 200
  <1>1. Answer(c, e, docs, t, s) /\ UNCHANGED <<users, issued>>
    BY DEF Moderate
  <1>2. s \in Statuses[e] /\ Denied(e) = 403
    BY DEF Denied, Statuses, Moderation
  <1>3. TypeOK'
    <2>1. e \in Endpoints
      BY DEF Endpoints, Protected
    <2>2. users' \in [Logins -> TokenRoles \cup {"none"}] /\ IssuedType'
      BY <1>1 DEF TypeOK, IssuedType, Answer
    <2> QED BY <1>1, <1>2, <2>1, <2>2, AnswerType
  <1>4. IssuedInv'
    BY <1>1 DEF IssuedInv
  <1>5. last'.to = e /\ last'.token = t /\ last'.status = s /\ now' = now
    BY <1>1 DEF Answer
  <1>6. Succeeded' => RoleOf(t) = "moderator"
    BY <1>2, <1>5 DEF Succeeded, Permits
  <1>7. TokensDie'
    BY <1>1, <1>5, <1>6, GoodToken DEF TokensDie
  <1>8. ModeratorsOnly'
    BY <1>1, <1>5, <1>6, GoodToken DEF ModeratorsOnly
  <1>9. LoginIsGood'
    BY <1>5 DEF LoginIsGood, Moderation
  <1> QED BY <1>3, <1>4, <1>7, <1>8, <1>9

\* Every request keeps the invariant.
LEMMA HandleStep ==
  ASSUME IInv, NEW c \in Conns, NEW docs \in Bodies, Handle(c, docs)
  PROVE  IInv'
  <1>1. ASSUME NEW l \in Logins, NEW r \in TokenRoles, handle_login_request(c, docs, l, r) PROVE IInv'
    BY <1>1, LoginStep
  <1>2. ASSUME NEW l \in Logins, NEW r \in TokenRoles, Register(c, docs, l, r) PROVE IInv'
    <2>1. /\ users' \in [Logins -> TokenRoles \cup {"none"}] /\ UNCHANGED issued
          /\ \A k \in Logins : users[k] # "none" => users'[k] = users[k]
      <3>1. users \in [Logins -> TokenRoles \cup {"none"}]
        BY DEF IInv, TypeOK
      <3>2. users' = users \/ (users[l] = "none" /\ users' = [users EXCEPT ![l] = r])
        BY <1>2 DEF Register
      <3> QED BY <1>2, <3>1, <3>2 DEF Register
    <2>2. PICK s \in Statuses["register"] : Answer(c, "register", docs, NoToken, s)
      BY <1>2 DEF Register, Statuses
    <2> QED BY <2>1, <2>2, OpenStep
  <1>3. ASSUME NEW t \in Tokens, handle_create_flat_request(c, docs, t) PROVE IInv'
    BY <1>3, FlatStep
  <1>4. ASSUME NEW t \in Tokens, NEW e \in Moderation, Moderate(c, e, docs, t) PROVE IInv'
    BY <1>4, ModerateStep
  <1>5. ASSUME NEW b \in BOOLEAN, handle_get_flats_request(c, docs, b) PROVE IInv'
    <2>1. users' = users /\ users \in [Logins -> TokenRoles \cup {"none"}] /\ UNCHANGED issued
      BY <1>5 DEF handle_get_flats_request, IInv, TypeOK
    <2>2. PICK s \in Statuses["flats"] : Answer(c, "flats", docs, NoToken, s)
      BY <1>5 DEF handle_get_flats_request, Statuses
    <2> QED BY <2>1, <2>2, OpenStep
  <1>6. ASSUME NEW b \in BOOLEAN, NotFound(c, docs, b) PROVE IInv'
    <2>1. users' = users /\ users \in [Logins -> TokenRoles \cup {"none"}] /\ UNCHANGED issued
      BY <1>6 DEF NotFound, IInv, TypeOK
    <2>2. PICK s \in Statuses["other"] : Answer(c, "other", docs, NoToken, s)
      BY <1>6 DEF NotFound, Statuses
    <2> QED BY <2>1, <2>2, OpenStep
  <1> QED BY <1>1, <1>2, <1>3, <1>4, <1>5, <1>6
          DEF Handle, Moderation, handle_create_house_request, handle_take_flat_request,
              handle_update_flat_status_request

----------------------------------------------------------------------------

\* Nothing has been answered at the start.
LEMMA InitIInv == Init => IInv
  BY ApiAssumption
  DEF Init, IInv, TypeOK, IssuedInv, TokensDie, ModeratorsOnly, LoginIsGood, Silence,
      Statuses, Endpoints, Protected, Moderation, Bodies

\* Time and new connections concern no answer.
LEMMA NextIInv == IInv /\ [Next]_vars => IInv'
  <1> SUFFICES ASSUME IInv, [Next]_vars PROVE IInv' OBVIOUS
  <1>1. ASSUME NEW c \in Conns, NEW docs \in Bodies, Handle(c, docs) PROVE IInv'
    BY <1>1, HandleStep
  <1>2. ASSUME last' = Silence, TypeOK', IssuedInv' PROVE IInv'
    BY <1>2 DEF IInv, TokensDie, ModeratorsOnly, LoginIsGood, Silence, Protected, Moderation
  <1>3. ASSUME NEW c \in Conns, Reconnect(c) PROVE IInv'
    BY <1>2, <1>3 DEF IInv, TypeOK, IssuedInv, Reconnect, Silence, Statuses, Endpoints, Bodies
  <1>4. CASE Tick
    BY <1>2, <1>4, ApiAssumption DEF IInv, TypeOK, IssuedInv, Tick, Silence, Statuses, Endpoints
  <1>5. ASSUME NEW l \in Logins, LoginOverTcp(l) PROVE IInv'
    <2>1. IssuedType' /\ IssuedInv'
      BY <1>5, IssueStep DEF LoginOverTcp
    <2>2. TypeOK'
      BY <1>5, <2>1 DEF LoginOverTcp, IInv, TypeOK, IssuedType, Silence, Statuses, Endpoints
    <2> QED BY <1>2, <1>5, <2>1, <2>2 DEF LoginOverTcp
  <1>6. CASE UNCHANGED vars
    BY <1>6 DEF vars, IInv, TypeOK, IssuedInv, TokensDie, ModeratorsOnly, LoginIsGood, Succeeded
  <1> QED BY <1>1, <1>3, <1>4, <1>5, <1>6 DEF Next

\* The inductive invariant holds throughout.
LEMMA ApiInvariance == Spec => []IInv
  <1> QED BY InitIInv, NextIInv, PTL DEF Spec

\* No token opens anything after its lifetime, and none that nobody gave out does.
THEOREM TokensExpire == Spec => []TokensDie
  <1>1. IInv => TokensDie
    BY DEF IInv
  <1> QED BY <1>1, ApiInvariance, PTL

\* The endpoints of moderators open with nothing but the token of a login over TCP, of
\* someone who is registered as a moderator.
THEOREM ModerationIsForModerators == Spec => []ModeratorsOnly
  <1>1. IInv => ModeratorsOnly
    BY DEF IInv
  <1> QED BY <1>1, ApiInvariance, PTL

\* Whoever has logged in can create flats until the last second of his token, if his
\* login is short enough for a token.
THEOREM LoginsOpen == Spec => []LoginIsGood
  <1>1. IInv => LoginIsGood
    BY DEF IInv
  <1> QED BY <1>1, ApiInvariance, PTL

\* Every answer is one of those that its endpoint gives.
THEOREM AnswersAreTyped == Spec => []TypeOK
  <1>1. IInv => TypeOK
    BY DEF IInv
  <1> QED BY <1>1, ApiInvariance, PTL

============================================================================
