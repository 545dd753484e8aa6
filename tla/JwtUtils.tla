------------------------------ MODULE JwtUtils ------------------------------
(***************************************************************************)
(* JWTUtils: what becomes of a token between generateToken and             *)
(* validateToken.                                                          *)
(*                                                                         *)
(* HMAC-SHA256 is taken as perfect: a signature verifies exactly when      *)
(* generateToken made it with this key.  JSON and Base64 are modelled by   *)
(* what they do to sizes: the payload is JSON text of some length, and     *)
(* base64_url_decode gives back at most what its buffer holds, so that a   *)
(* longer payload comes back cut short and is no JSON any more.            *)
(***************************************************************************)
EXTENDS Naturals

TokenRoles == {"user", "moderator"}

Least(a, b) == IF a < b THEN a ELSE b

\* Characters that base64_url_encode makes of n bytes, the padding removed.
EncodedLength(n) == (4 * n + 2) \div 3

\* char buffer[512], and BIO_read is asked for one byte less.
Readable == 511

\* Bytes that base64_url_decode gets back from m characters.
DecodedLength(m) == Least((3 * m) \div 4, Readable)

(***************************************************************************)
(* The payload {"exp":..,"iat":..,"login":"..","role":"..","user_id":1}:   *)
(* times of ten digits, an id of one, and the login as JSON writes it.     *)
(***************************************************************************)
PayloadLength(width, role) == 68 + width + (IF role = "moderator" THEN 9 ELSE 4)

\* A token that anyone could write: it lacks the signature of the server.
Forged(role) == [signed |-> FALSE, length |-> 0, role |-> role, exp |-> 0]

generateToken(width, role, now, expiry_seconds) ==
  [signed |-> TRUE,
   length |-> PayloadLength(width, role),
   role   |-> role,
   exp    |-> now + expiry_seconds]

Expired_AtOnce(token, now) == now >= token.exp
Expired_Never(token, now) == FALSE
Expired(token, now) == now > token.exp

\* json::parse of the decoded payload: it must have come back whole.
Parses(token) == DecodedLength(EncodedLength(token.length)) = token.length

validateToken(token, now) == /\ token.signed
                             /\ Parses(token)
                             /\ ~ Expired(token, now)

isTokenExpired(token, now) == ~ validateToken(token, now)

============================================================================
