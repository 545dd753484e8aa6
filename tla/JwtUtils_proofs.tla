-------------------------- MODULE JwtUtils_proofs --------------------------
(***************************************************************************)
(* For which payloads the two Base64 functions are inverse to each other,  *)
(* and hence which tokens validate.                                        *)
(***************************************************************************)
EXTENDS JwtUtils, TLAPS

\* A number is three times something, and zero, one or two more.
LEMMA Thirds ==
  ASSUME NEW n \in Nat
  PROVE  \E k \in Nat : n = 3 * k \/ n = 3 * k + 1 \/ n = 3 * k + 2
  <1> DEFINE k == n \div 3
  <1>1. k \in Nat /\ 3 * k <= n /\ n < 3 * k + 3
    OBVIOUS
  <1> QED BY <1>1

\* Removing the padding loses nothing: the encoded length gives back the length.
LEMMA LengthsInvert ==
  ASSUME NEW n \in Nat
  PROVE  (3 * EncodedLength(n)) \div 4 = n
  <1>1. PICK k \in Nat : n = 3 * k \/ n = 3 * k + 1 \/ n = 3 * k + 2
    BY Thirds
  <1>2. CASE n = 3 * k
    BY <1>2 DEF EncodedLength
  <1>3. CASE n = 3 * k + 1
    BY <1>3 DEF EncodedLength
  <1>4. CASE n = 3 * k + 2
    BY <1>4 DEF EncodedLength
  <1> QED BY <1>1, <1>2, <1>3, <1>4

\* base64_url_decode undoes base64_url_encode up to 511 bytes and never beyond.
THEOREM RoundTrip ==
  ASSUME NEW n \in Nat
  PROVE  DecodedLength(EncodedLength(n)) = n <=> n <= 511
  <1>1. DecodedLength(EncodedLength(n)) = Least(n, 511)
    BY LengthsInvert DEF DecodedLength, Readable
  <1> QED BY <1>1 DEF Least

\* A token of the server validates exactly until its expiry second and exactly when
\* its payload fits the buffer: for the role user, a login of at most 439 bytes.
THEOREM TokenLife ==
  ASSUME NEW width \in Nat, NEW now \in Nat, NEW ttl \in Nat, NEW later \in Nat
  PROVE  validateToken(generateToken(width, "user", now, ttl), later)
           <=> width <= 439 /\ later <= now + ttl
  <1> DEFINE t == generateToken(width, "user", now, ttl)
  <1>1. t.signed /\ t.length = 72 + width /\ t.exp = now + ttl
    BY DEF generateToken, PayloadLength
  <1>2. Parses(t) <=> 72 + width <= 511
    BY <1>1, RoundTrip DEF Parses
  <1> HIDE DEF t
  <1>3. validateToken(t, later) <=> 72 + width <= 511 /\ ~ (later > now + ttl)
    BY <1>1, <1>2 DEF validateToken, Expired
  <1> QED BY <1>3 DEF t

============================================================================
