------------------------- MODULE HttpSession_proofs -------------------------
(***************************************************************************)
(* How answers travel, for every number of requests, every length of a     *)
(* response and every room in the kernel.  HttpServer_proofs uses the      *)
(* lemmas on single steps for the session among others.                    *)
(***************************************************************************)
EXTENDS HttpSession, SequenceTheorems, TLAPS

Writes == [id : 1..MaxRequests, left : 1..Length]

\* Pieces from + 1 to from + k of an answer.
LEMMA PiecesType ==
  ASSUME NEW n \in 1..MaxRequests, NEW from \in Nat, NEW k \in Nat, from + k <= Length,
         NEW ok \in BOOLEAN
  PROVE  /\ Pieces(n, from, k, ok) \in Seq(Piece)
         /\ Len(Pieces(n, from, k, ok)) = k
         /\ \A i \in 1..k : Pieces(n, from, k, ok)[i] = [id |-> n, part |-> from + i, intact |-> ok]
  <1>1. \A i \in 1..k : from + i \in 1..Length
    BY SessionAssumption
  <1>2. Pieces(n, from, k, ok) \in [1..k -> Piece]
    BY <1>1 DEF Pieces, Piece
  <1>3. Pieces(n, from, k, ok) \in Seq(Piece)
    BY <1>2, IsASeq
  <1>4. Len(Pieces(n, from, k, ok)) = k
    BY <1>2, LenProperties DEF Pieces
  <1> QED BY <1>3, <1>4 DEF Pieces

\* Of the pieces in order, the p-th of answer a + 1.
LEMMA DueOf ==
  ASSUME NEW a \in Nat, NEW p \in 1..Length
  PROVE  Due(a * Length + p) = [id |-> a + 1, part |-> p]
  <1> DEFINE i == a * Length + p
  <1>1. Length \in Nat \ {0} /\ a * Length \in Nat
    BY SessionAssumption
  <1>2. (i - 1) \div Length = a
    BY <1>1, SMTT(30)
  <1>3. (i - 1) % Length = p - 1
    BY <1>1, SMTT(30)
  <1>4. Due(i) = [id |-> 1 + a, part |-> 1 + (p - 1)]
    <2> HIDE DEF i
    <2> QED BY <1>2, <1>3 DEF Due
  <1>5. 1 + a = a + 1 /\ 1 + (p - 1) = p
    OBVIOUS
  <1> QED BY <1>4, <1>5, Zenon

LEMMA Joined ==
  ASSUME NEW S, NEW s \in Seq(S), NEW t \in Seq(S)
  PROVE  /\ s \o t \in Seq(S) /\ Len(s \o t) = Len(s) + Len(t)
         /\ Len(s) \in Nat /\ Len(t) \in Nat
         /\ \A i \in 1..Len(s) : (s \o t)[i] = s[i]
         /\ \A i \in 1..Len(t) : (s \o t)[Len(s) + i] = t[i]
  OBVIOUS

LEMMA Rejoined ==
  ASSUME NEW a \in Seq(Piece), NEW b \in Seq(Piece), NEW c \in Seq(Piece)
  PROVE  (a \o b) \o c = a \o (b \o c)
  BY ConcatAssociative

LEMMA OneLess ==
  ASSUME NEW a \in Nat \ {0}, NEW b \in Nat
  PROVE  a * b = (a - 1) * b + b /\ (a - 1) * b \in Nat
  OBVIOUS

\* What has been sent in order goes on with the next pieces of an answer.
LEMMA NextInOrder ==
  ASSUME NEW out \in Seq(Piece), InOrder(out),
         NEW n \in 1..MaxRequests, NEW from \in Nat, NEW k \in Nat, from + k <= Length,
         NEW ok \in BOOLEAN, ok \/ from >= Room,
         Len(out) = (n - 1) * Length + from
  PROVE  /\ InOrder(out \o Pieces(n, from, k, ok))
         /\ Len(out \o Pieces(n, from, k, ok)) = Len(out) + k
  <1> DEFINE new == Pieces(n, from, k, ok)
             l   == Len(out)
  <1>1. /\ new \in Seq(Piece) /\ Len(new) = k
        /\ \A i \in 1..k : new[i] = [id |-> n, part |-> from + i, intact |-> ok]
    BY PiecesType
  <1> HIDE DEF new
  <1>2. /\ Len(out \o new) = l + k /\ l \in Nat
        /\ \A i \in 1..l : (out \o new)[i] = out[i]
        /\ \A i \in 1..k : (out \o new)[l + i] = new[i]
    <2>1. /\ Len(out \o new) = Len(out) + Len(new) /\ Len(out) \in Nat
          /\ \A i \in 1..Len(out) : (out \o new)[i] = out[i]
          /\ \A i \in 1..Len(new) : (out \o new)[Len(out) + i] = new[i]
      <3>1. out \in Seq(Piece) /\ new \in Seq(Piece)
        BY <1>1
      <3> HIDE DEF l
      <3>2. /\ Len(out \o new) = Len(out) + Len(new) /\ Len(out) \in Nat
            /\ \A i \in 1..Len(out) : (out \o new)[i] = out[i]
        BY <3>1, Joined
      <3>3. \A i \in 1..Len(new) : (out \o new)[Len(out) + i] = new[i]
        BY <3>1, Joined
      <3> QED BY <3>2, <3>3, Zenon
    <2> QED BY <1>1, <2>1
  <1>3. ASSUME NEW i \in 1..k PROVE Due(l + i) = [id |-> n, part |-> from + i]
    <2> DEFINE a == n - 1
               p == from + i
    <2>1. a \in Nat /\ p \in 1..Length /\ a + 1 = n
      BY SessionAssumption
    <2>2. l + i = a * Length + p
      <3>1. a * Length \in Nat
        BY <2>1, SessionAssumption
      <3> DEFINE m == a * Length
      <3>2. l = m + from /\ m \in Nat
        BY <3>1
      <3> HIDE DEF m
      <3>3. l + i = m + (from + i)
        BY <3>2
      <3> QED BY <3>3 DEF m
    <2>3. Due(a * Length + p) = [id |-> a + 1, part |-> p]
      <3> HIDE DEF a, p
      <3> QED BY <2>1, DueOf
    <2> QED BY <2>1, <2>2, <2>3
  <1>4. ASSUME NEW i \in 1..Len(out \o new)
        PROVE  /\ (out \o new)[i].id = Due(i).id /\ (out \o new)[i].part = Due(i).part
               /\ (out \o new)[i].part <= Room => (out \o new)[i].intact
    <2>1. CASE i \in 1..l
      BY <1>2, <2>1 DEF InOrder
    <2>2. CASE i \notin 1..l
      <3>1. i - l \in 1..k /\ i = l + (i - l)
        BY <1>2, <2>2
      <3>2. PICK j \in 1..k : i = l + j
        BY <3>1
      <3>3. (out \o new)[i] = [id |-> n, part |-> from + j, intact |-> ok]
        BY <1>1, <1>2, <3>2
      <3>4. Due(i) = [id |-> n, part |-> from + j]
        BY <1>3, <3>2
      <3>5. from + j <= Room => ok
        BY SessionAssumption
      <3> QED BY <3>3, <3>4, <3>5
    <2> QED BY <2>1, <2>2
  <1>5. InOrder(out \o new)
    BY <1>4 DEF InOrder
  <1> QED BY <1>2, <1>5 DEF new

----------------------------------------------------------------------------
(***************************************************************************)
(* Sending.                                                                *)
(***************************************************************************)

LEMMA TransmitType ==
  ASSUME TypeOK, NEW w \in Writes, NEW ok \in BOOLEAN, NEW k \in 1..Length,
         Transmit(w, ok, k)
  PROVE  /\ kernel' \in Seq(Piece) /\ Len(kernel') <= Room
         /\ k <= w.left
         /\ client # "open" => kernel' = kernel
  <1>1. /\ Length \in Nat /\ Room \in Nat
        /\ w.id \in 1..MaxRequests /\ w.left \in 1..Length
        /\ kernel \in Seq(Piece) /\ Len(kernel) \in Nat /\ Len(kernel) <= Room
    BY SessionAssumption DEF TypeOK, Writes
  <1>2. k <= w.left /\ k <= Room - Len(kernel)
    BY <1>1 DEF Transmit, Least
  <1>3. CASE client = "open"
    <2> DEFINE from == Length - w.left
               new  == Pieces(w.id, from, k, ok)
    <2>1. new \in Seq(Piece) /\ Len(new) = k
      <3>1. from \in Nat /\ k \in Nat /\ from + k <= Length
        BY <1>1, <1>2
      <3>2. w.id \in 1..MaxRequests
        BY <1>1
      <3>3. ok \in BOOLEAN
        OBVIOUS
      <3> HIDE DEF from
      <3>4. Pieces(w.id, from, k, ok) \in Seq(Piece)
        BY <3>1, <3>2, <3>3, PiecesType, Zenon
      <3>5. Len(Pieces(w.id, from, k, ok)) = k
        BY <3>1, LenProperties DEF Pieces
      <3> QED BY <3>4, <3>5
    <2>2. kernel' = kernel \o new
      BY <1>3 DEF Transmit
    <2> QED BY <1>1, <1>2, <1>3, <2>1, <2>2, ConcatProperties
  <1>4. CASE client # "open"
    BY <1>1, <1>2, <1>4 DEF Transmit
  <1> QED BY <1>3, <1>4

LEMMA CompleteType ==
  ASSUME TypeOK, NEW w \in Writes, NEW k \in 1..Length, k <= w.left,
         NEW pending \in Seq(Writes), Complete(w, k, pending)
  PROVE  posted' \in Seq(Writes)
  <1>1. CASE client = "open" /\ k < w.left
    <2>1. Write(w.id, w.left - k) \in Writes
      BY <1>1, SessionAssumption DEF Write, Writes
    <2> QED BY <1>1, <2>1, AppendProperties DEF Complete
  <1>2. CASE ~ (client = "open" /\ k < w.left)
    BY <1>2 DEF Complete
  <1> QED BY <1>1, <1>2

LEMMA StartType ==
  ASSUME TypeOK, NEW w \in Writes, NEW ok \in BOOLEAN, NEW pending \in Seq(Writes),
         Start(w, ok, pending)
  PROVE  /\ waiting' \in Seq(Writes) /\ posted' \in Seq(Writes)
         /\ kernel' \in Seq(Piece) /\ Len(kernel') <= Room
         /\ client # "open" => kernel' = kernel
  <1>1. waiting \in Seq(Writes) /\ kernel \in Seq(Piece) /\ Len(kernel) <= Room
    BY DEF TypeOK, Writes
  <1>2. CASE waiting = <<>> /\ Len(kernel) < Room
    <2>1. PICK k \in 1..Length : Transmit(w, ok, k) /\ Complete(w, k, pending)
      BY <1>2 DEF Start
    <2>2. waiting' = waiting
      BY <1>2 DEF Start
    <2> QED BY <1>1, <2>1, <2>2, TransmitType, CompleteType
  <1>3. CASE ~ (waiting = <<>> /\ Len(kernel) < Room)
    <2>1. waiting' = Append(waiting, w) /\ posted' = pending /\ kernel' = kernel
      BY <1>3 DEF Start
    <2> QED BY <1>1, <2>1, AppendProperties
  <1> QED BY <1>2, <1>3

----------------------------------------------------------------------------
(***************************************************************************)
(* What becomes of the pieces of every answer.                             *)
(***************************************************************************)

\* The first of the writes is taken out, ...
LEMMA TailWrites ==
  ASSUME NEW ws \in Seq(Writes), ws # <<>>, OneEach(ws)
  PROVE  /\ Head(ws) \in Writes /\ Tail(ws) \in Seq(Writes) /\ OneEach(Tail(ws))
         /\ Range(ws) = Range(Tail(ws)) \cup {Head(ws)}
         /\ \A w \in Range(Tail(ws)) : w.id # Head(ws).id
  <1>1. /\ Head(ws) \in Writes /\ Tail(ws) \in Seq(Writes) /\ Len(Tail(ws)) = Len(ws) - 1
        /\ Len(ws) \in Nat /\ Len(ws) >= 1 /\ Head(ws) = ws[1]
        /\ \A i \in 1..Len(ws) - 1 : Tail(ws)[i] = ws[i + 1]
    BY HeadTailProperties
  <1>2. DOMAIN ws = 1..Len(ws) /\ DOMAIN Tail(ws) = 1..Len(Tail(ws))
    BY <1>1, LenProperties
  <1>3. OneEach(Tail(ws))
    <2> SUFFICES ASSUME NEW i \in 1..Len(Tail(ws)), NEW j \in 1..Len(Tail(ws)), Tail(ws)[i].id = Tail(ws)[j].id
                 PROVE  i = j
      BY DEF OneEach
    <2>1. i + 1 \in 1..Len(ws) /\ j + 1 \in 1..Len(ws) /\ ws[i + 1].id = ws[j + 1].id
      BY <1>1
    <2>2. i + 1 = j + 1
      BY <2>1, Zenon DEF OneEach
    <2> QED BY <1>1, <2>2
  <1>4. Range(ws) = Range(Tail(ws)) \cup {Head(ws)}
    <2>1. ASSUME NEW w \in Range(ws) PROVE w \in Range(Tail(ws)) \cup {Head(ws)}
      <3>1. PICK i \in 1..Len(ws) : w = ws[i]
        BY <1>2, <2>1 DEF Range
      <3>2. CASE i = 1
        BY <1>1, <3>1, <3>2
      <3>3. CASE i # 1
        <4>1. i - 1 \in 1..Len(ws) - 1 /\ (i - 1) + 1 = i
          BY <1>1, <3>3
        <4>2. i - 1 \in DOMAIN Tail(ws) /\ Tail(ws)[i - 1] = w
          BY <1>1, <1>2, <3>1, <4>1
        <4> QED BY <4>2 DEF Range
      <3> QED BY <3>2, <3>3
    <2>2. ASSUME NEW w \in Range(Tail(ws)) PROVE w \in Range(ws)
      <3>1. PICK i \in 1..Len(ws) - 1 : w = ws[i + 1]
        BY <1>1, <1>2, <2>2 DEF Range
      <3>2. i + 1 \in DOMAIN ws
        BY <1>1, <1>2
      <3> QED BY <3>1, <3>2 DEF Range
    <2>3. Head(ws) \in Range(ws)
      BY <1>1, <1>2 DEF Range
    <2> QED BY <2>1, <2>2, <2>3
  <1>5. ASSUME NEW w \in Range(Tail(ws)) PROVE w.id # Head(ws).id
    <2>1. PICK i \in 1..Len(ws) - 1 : w = ws[i + 1]
      BY <1>1, <1>2, <1>5 DEF Range
    <2>2. i + 1 \in 1..Len(ws) /\ 1 \in 1..Len(ws) /\ i + 1 # 1
      BY <1>1
    <2> QED BY <1>1, <2>1, <2>2 DEF OneEach
  <1> QED BY <1>1, <1>3, <1>4, <1>5

\* ... and one of another answer comes behind the last.
LEMMA AppendWrites ==
  ASSUME NEW ws \in Seq(Writes), NEW w \in Writes, OneEach(ws), \A v \in Range(ws) : v.id # w.id
  PROVE  OneEach(Append(ws, w)) /\ Range(Append(ws, w)) = Range(ws) \cup {w}
  <1>1. /\ Append(ws, w) \in Seq(Writes) /\ Len(Append(ws, w)) = Len(ws) + 1 /\ Len(ws) \in Nat
        /\ Append(ws, w)[Len(ws) + 1] = w
        /\ \A i \in 1..Len(ws) : Append(ws, w)[i] = ws[i]
    BY AppendProperties
  <1>2. DOMAIN ws = 1..Len(ws) /\ DOMAIN Append(ws, w) = 1..Len(ws) + 1
    BY <1>1, LenProperties
  <1>3. \A i \in 1..Len(ws) : ws[i].id # w.id
    BY <1>2 DEF Range
  <1>4. OneEach(Append(ws, w))
    <2> SUFFICES ASSUME NEW i \in 1..Len(ws) + 1, NEW j \in 1..Len(ws) + 1,
                        Append(ws, w)[i].id = Append(ws, w)[j].id
                 PROVE  i = j
      BY <1>1 DEF OneEach
    <2>1. CASE i \in 1..Len(ws) /\ j \in 1..Len(ws)
      BY <1>1, <2>1 DEF OneEach
    <2>2. CASE i = Len(ws) + 1 \/ j = Len(ws) + 1
      BY <1>1, <1>3, <2>2
    <2> QED BY <1>1, <2>1, <2>2
  <1>5. Range(Append(ws, w)) = Range(ws) \cup {w}
    <2>1. \A i \in 1..Len(ws) + 1 : i \in 1..Len(ws) \/ i = Len(ws) + 1
      BY <1>1
    <2>2. Len(ws) + 1 \in 1..Len(ws) + 1 /\ \A i \in 1..Len(ws) : i \in 1..Len(ws) + 1
      BY <1>1
    <2>3. \A v : v \in Range(Append(ws, w)) <=> v \in Range(ws) \/ v = w
      BY <1>1, <1>2, <2>1, <2>2, Zenon DEF Range
    <2> QED BY <2>3
  <1> QED BY <1>4, <1>5

\* A request is answered: its write still has all pieces to send.
LEMMA NewAccount ==
  ASSUME NEW out \in Seq(Piece), NEW ws \in SUBSET Writes, NEW n \in Nat, Account(out, ws, n)
  PROVE  Account(out, ws \cup {Write(n + 1, Length)}, n + 1)
  <1> DEFINE w == Write(n + 1, Length)
  <1>1. w.id = n + 1 /\ w.left = Length /\ Length \in Nat \ {0}
    BY SessionAssumption DEF Write
  <1>2. \A i \in 1..Len(out) : out[i].id \in Nat /\ out[i].id <= n /\ out[i].id <= n + 1 /\ out[i].id # n + 1
    <2> SUFFICES ASSUME NEW i \in 1..Len(out) PROVE out[i].id \in Nat /\ out[i].id <= n
      OBVIOUS
    <2>1. out[i] \in Piece
      BY ElementOfSeq
    <2> QED BY <2>1, SessionAssumption DEF Account, Piece
  <1>3. \A v \in ws : v.id \in Nat /\ v.id <= n /\ v.id <= n + 1
    BY SessionAssumption DEF Account, Writes
  <1>4. ASSUME NEW v \in ws \cup {w}
        PROVE  /\ v.id <= n + 1
               /\ \A i \in 1..Len(out) : out[i].id = v.id => out[i].part + v.left <= Length
    <2>1. CASE v \in ws
      BY <1>3, <2>1 DEF Account
    <2>2. CASE v = w
      <3> HIDE DEF w
      <3> QED BY <1>1, <1>2, <2>2
    <2> QED BY <2>1, <2>2
  <1>5. ASSUME NEW m \in 1..n + 1, NEW p \in 1..Length
        PROVE  In(out, m, p) \/ Owed(ws \cup {w}, m, p)
    <2>1. CASE m = n + 1
      <3>1. Length - w.left < p
        BY <1>1
      <3>2. w.id = m /\ w \in ws \cup {w}
        BY <1>1, <2>1
      <3> HIDE DEF w
      <3> QED BY <3>1, <3>2 DEF Owed
    <2>2. CASE m \in 1..n
      <3>1. In(out, m, p) \/ Owed(ws, m, p)
        BY <2>2 DEF Account
      <3> HIDE DEF w
      <3> QED BY <3>1 DEF Owed
    <2> QED BY <2>1, <2>2
  <1>6. Ascending(out)
    BY DEF Account
  <1> HIDE DEF w
  <1>7. Account(out, ws \cup {w}, n + 1)
    BY <1>2, <1>4, <1>5, <1>6, Zenon DEF Account
  <1> QED BY <1>7 DEF w

\* What a write has still to send when k pieces are sent.
Rest(w, k) == IF k < w.left THEN {Write(w.id, w.left - k)} ELSE {}

\* A write sends its next pieces, and what is left of it stays to be sent.
LEMMA SentAccount ==
  ASSUME NEW out \in Seq(Piece), NEW ws \in SUBSET Writes, NEW w \in Writes,
         \A v \in ws : v.id # w.id,
         NEW n \in Nat, Account(out, ws \cup {w}, n),
         NEW k \in 1..Length, k <= w.left, NEW ok \in BOOLEAN
  PROVE  Account(out \o Pieces(w.id, Length - w.left, k, ok), ws \cup Rest(w, k), n)
  <1> DEFINE from == Length - w.left
             new  == Pieces(w.id, from, k, ok)
             all  == out \o new
             l    == Len(out)
  <1>1. /\ Length \in Nat \ {0} /\ w.left \in 1..Length /\ from \in Nat /\ from + w.left = Length
        /\ w.id \in 1..MaxRequests /\ k \in Nat /\ from + k <= Length
    BY SessionAssumption DEF Writes
  <1>2. /\ new \in Seq(Piece) /\ Len(new) = k
        /\ \A i \in 1..k : new[i] = [id |-> w.id, part |-> from + i, intact |-> ok]
    <2> HIDE DEF from
    <2>1. ok \in BOOLEAN
      OBVIOUS
    <2>2. Pieces(w.id, from, k, ok) \in Seq(Piece)
      BY <1>1, <2>1, PiecesType, Zenon
    <2>3. Len(Pieces(w.id, from, k, ok)) = k
      BY <1>1, LenProperties DEF Pieces
    <2>4. \A i \in 1..k : Pieces(w.id, from, k, ok)[i] = [id |-> w.id, part |-> from + i, intact |-> ok]
      BY <1>1 DEF Pieces
    <2> QED BY <2>2, <2>3, <2>4
  <1> HIDE DEF new
  <1>3. /\ l \in Nat /\ Len(all) = l + k
        /\ \A i \in 1..l : all[i] = out[i]
        /\ \A i \in 1..k : all[l + i] = new[i]
        /\ \A i \in 1..Len(all) : i \in 1..l \/ \E j \in 1..k : i = l + j
    <2>1. out \in Seq(Piece)
      OBVIOUS
    <2>2. Len(out) \in Nat /\ Len(out \o new) = Len(out) + k
      BY <1>2, <2>1, Joined
    <2>3. /\ \A i \in 1..Len(out) : (out \o new)[i] = out[i]
          /\ \A i \in 1..k : (out \o new)[Len(out) + i] = new[i]
      BY <1>2, <2>1, Joined
    <2>4. \A i \in 1..Len(out \o new) : i \in 1..Len(out) \/ \E j \in 1..k : i = Len(out) + j
      <3> SUFFICES ASSUME NEW i \in 1..Len(out \o new), i \notin 1..Len(out) PROVE \E j \in 1..k : i = Len(out) + j
        OBVIOUS
      <3>1. i - Len(out) \in 1..k /\ i = Len(out) + (i - Len(out))
        BY <2>2
      <3> QED BY <3>1
    <2> QED BY <2>2, <2>3, <2>4, Zenon
  <1> HIDE DEF all, l, from
  <1>4. \A i \in 1..k : all[l + i].id = w.id /\ all[l + i].part = from + i
    BY <1>2, <1>3
  <1>5. \A i \in 1..l : out[i].id \in Nat /\ out[i].part \in Nat
    <2> SUFFICES ASSUME NEW i \in 1..l PROVE out[i].id \in Nat /\ out[i].part \in Nat
      OBVIOUS
    <2>1. out[i] \in Piece
      BY ElementOfSeq DEF l
    <2> QED BY <2>1, SessionAssumption DEF Piece
  <1>6. /\ \A i, j \in 1..l : i < j /\ out[i].id = out[j].id => out[i].part < out[j].part
        /\ \A i \in 1..l : out[i].id <= n
        /\ w.id <= n
        /\ \A i \in 1..l : out[i].id = w.id => out[i].part <= from
    <2>1. \A i \in 1..l : out[i].id = w.id => out[i].part + w.left <= Length
      BY DEF Account, l
    <2>2. w.id <= n /\ \A i \in 1..l : out[i].id <= n
      BY DEF Account, l
    <2>3. \A i, j \in 1..l : i < j /\ out[i].id = out[j].id => out[i].part < out[j].part
      BY DEF Account, Ascending, l
    <2> QED BY <1>1, <1>5, <2>1, <2>2, <2>3
  <1>7. Ascending(all)
    <2> SUFFICES ASSUME NEW i \in 1..Len(all), NEW j \in 1..Len(all), i < j, all[i].id = all[j].id
                 PROVE  all[i].part < all[j].part
      BY DEF Ascending
    <2>1. CASE i \in 1..l /\ j \in 1..l
      BY <1>3, <1>6, <2>1
    <2>2. ASSUME i \in 1..l, NEW b \in 1..k, j = l + b PROVE all[i].part < all[j].part
      <3>1. out[i].part <= from /\ all[i].part = out[i].part /\ all[j].part = from + b
        BY <1>3, <1>4, <1>6, <2>2
      <3> QED BY <1>1, <1>5, <2>2, <3>1
    <2>3. ASSUME NEW a \in 1..k, i = l + a, NEW b \in 1..k, j = l + b PROVE all[i].part < all[j].part
      <3>1. a < b
        BY <1>3, <2>3
      <3>2. all[i].part = from + a /\ all[j].part = from + b
        BY <1>4, <2>3, Zenon
      <3> QED BY <1>1, <3>1, <3>2
    <2>4. ASSUME NEW a \in 1..k, i = l + a PROVE j \notin 1..l
      BY <1>3, <2>4
    <2> QED BY <1>3, <2>1, <2>2, <2>3, <2>4
  <1>8. \A i \in 1..Len(all) : all[i].id <= n
    BY <1>3, <1>4, <1>6
  <1>9. ASSUME NEW v \in ws \cup Rest(w, k)
        PROVE  /\ v.id <= n
               /\ \A i \in 1..Len(all) : all[i].id = v.id => all[i].part + v.left <= Length
    <2>1. CASE v \in ws
      <3>1. v.id <= n /\ \A i \in 1..l : out[i].id = v.id => out[i].part + v.left <= Length
        BY <2>1 DEF Account, l
      <3>2. \A i \in 1..k : all[l + i].id # v.id
        BY <1>4, <2>1
      <3> QED BY <1>3, <3>1, <3>2
    <2>2. CASE v \in Rest(w, k)
      <3>1. v.id = w.id /\ v.left = w.left - k /\ k < w.left
        BY <2>2 DEF Rest, Write
      <3>2. ASSUME NEW i \in 1..l, all[i].id = v.id PROVE all[i].part + v.left <= Length
        <4>1. all[i] = out[i] /\ out[i].id = w.id
          BY <1>3, <3>1, <3>2, Zenon
        <4>2. out[i].part <= from /\ out[i].part \in Nat
          BY <1>5, <1>6, <4>1, Zenon
        <4>3. all[i].part <= from /\ all[i].part \in Nat
          BY <4>1, <4>2
        <4> QED BY <1>1, <3>1, <4>3
      <3>3. \A i \in 1..k : all[l + i].part + v.left <= Length
        BY <1>1, <1>4, <3>1
      <3> QED BY <1>3, <1>6, <3>1, <3>2, <3>3
    <2> QED BY <2>1, <2>2
  <1>10. ASSUME NEW m \in 1..n, NEW p \in 1..Length
         PROVE  In(all, m, p) \/ Owed(ws \cup Rest(w, k), m, p)
    <2>1. In(out, m, p) \/ Owed(ws \cup {w}, m, p)
      BY DEF Account
    <2>2. CASE In(out, m, p)
      <3>1. PICK i \in 1..l : out[i].id = m /\ out[i].part = p
        BY <2>2 DEF In, l
      <3>2. i \in 1..Len(all) /\ all[i] = out[i]
        BY <1>1, <1>3
      <3> QED BY <3>1, <3>2 DEF In
    <2>3. CASE Owed(ws, m, p)
      BY <2>3 DEF Owed
    <2>4. CASE w.id = m /\ from < p
      <3>1. CASE p <= from + k
        <4>1. p - from \in 1..k /\ from + (p - from) = p
          BY <1>1, <2>4, <3>1
        <4>2. l + (p - from) \in 1..Len(all)
          BY <1>3, <4>1
        <4>3. all[l + (p - from)].id = m /\ all[l + (p - from)].part = p
          BY <1>4, <2>4, <4>1
        <4> QED BY <4>2, <4>3 DEF In
      <3>2. CASE p > from + k
        <4>1. k < w.left /\ Length - (w.left - k) < p
          BY <1>1, <3>2
        <4>2. Write(w.id, w.left - k) \in Rest(w, k)
          BY <4>1 DEF Rest
        <4>3. Write(w.id, w.left - k).id = m /\ Write(w.id, w.left - k).left = w.left - k
          BY <2>4 DEF Write
        <4> QED BY <4>1, <4>2, <4>3 DEF Owed
      <3> QED BY <1>1, <3>1, <3>2
    <2> QED BY <2>1, <2>2, <2>3, <2>4 DEF Owed, from
  <1>11. Account(all, ws \cup Rest(w, k), n)
    BY <1>7, <1>8, <1>9, <1>10, Zenon DEF Account
  <1> QED BY <1>11 DEF all, new, from

LEMMA RangeType == ASSUME NEW ws \in Seq(Writes) PROVE Range(ws) \in SUBSET Writes
  <1>1. DOMAIN ws = 1..Len(ws) /\ \A i \in 1..Len(ws) : ws[i] \in Writes
    BY LenProperties, ElementOfSeq
  <1> QED BY <1>1 DEF Range

\* The write w sends, while those in line wait for the socket and those in pending
\* for their turn.
LEMMA SendsInv ==
  ASSUME TypeOK, client = "open", got' = got,
         NEW w \in Writes, NEW ok \in BOOLEAN, NEW k \in 1..Length, Transmit(w, ok, k),
         NEW line \in Seq(Writes), waiting' = line,
         NEW pending \in Seq(Writes), Complete(w, k, pending),
         OneEach(line), OneEach(pending),
         \A v \in Range(line), u \in Range(pending) : v.id # u.id,
         \A v \in Range(line) \cup Range(pending) : v.id # w.id,
         NEW n \in Nat, Account(Out, (Range(line) \cup Range(pending)) \cup {w}, n)
  PROVE  OneWrite' /\ Account(Out', Unfinished', n)
  <1> DEFINE ws  == Range(line) \cup Range(pending)
             new == Pieces(w.id, Length - w.left, k, ok)
  <1>1. k <= w.left
    BY TransmitType
  <1>2. kernel' = kernel \o new
    BY DEF Transmit
  <1>3. Out' = Out \o new
    <2>1. got \in Seq(Piece) /\ kernel \in Seq(Piece)
      BY DEF TypeOK
    <2>2. new \in Seq(Piece)
      <3> DEFINE from == Length - w.left
      <3>1. w.id \in 1..MaxRequests /\ from \in Nat /\ k \in Nat /\ from + k <= Length
        BY <1>1, SessionAssumption DEF Writes
      <3>2. ok \in BOOLEAN
        OBVIOUS
      <3> HIDE DEF from
      <3>3. Pieces(w.id, from, k, ok) \in Seq(Piece)
        BY <3>1, <3>2, PiecesType, Zenon
      <3> QED BY <3>3 DEF from
    <2> HIDE DEF new
    <2>3. (got \o kernel) \o new = got \o (kernel \o new)
      BY <2>1, <2>2, Rejoined
    <2> QED BY <1>2, <2>3, Zenon DEF Out
  <1>4. ws \in SUBSET Writes
    BY RangeType
  <1>5. Out \in Seq(Piece)
    BY DEF Out, TypeOK
  <1>6. Account(Out', ws \cup Rest(w, k), n)
    <2>1. \A v \in ws : v.id # w.id
      OBVIOUS
    <2>2. Account(Out, ws \cup {w}, n)
      OBVIOUS
    <2> HIDE DEF ws
    <2> QED BY <1>1, <1>3, <1>4, <1>5, <2>1, <2>2, SentAccount
  <1>7. /\ Range(posted') = Range(pending) \cup Rest(w, k) /\ OneEach(posted')
        /\ \A v \in Range(line), u \in Range(posted') : v.id # u.id
    <2>1. CASE k < w.left
      <3>1. Write(w.id, w.left - k) \in Writes /\ Write(w.id, w.left - k).id = w.id
        BY <1>1, <2>1, SessionAssumption DEF Writes, Write
      <3>2. posted' = Append(pending, Write(w.id, w.left - k))
        BY <2>1 DEF Complete
      <3>3. \A v \in Range(pending) : v.id # Write(w.id, w.left - k).id
        BY <3>1
      <3>4. OneEach(posted') /\ Range(posted') = Range(pending) \cup {Write(w.id, w.left - k)}
        BY <3>1, <3>2, <3>3, AppendWrites
      <3> QED BY <2>1, <3>1, <3>4 DEF Rest
    <2>2. CASE ~ (k < w.left)
      BY <2>2 DEF Complete, Rest
    <2> QED BY <2>1, <2>2
  <1>8. Unfinished' = ws \cup Rest(w, k)
    BY <1>7 DEF Unfinished
  <1> QED BY <1>6, <1>7, <1>8 DEF OneWrite

\* async_write is called for w: it sends or waits.
LEMMA StartsInv ==
  ASSUME TypeOK, client = "open", got' = got,
         NEW w \in Writes, NEW ok \in BOOLEAN,
         NEW pending \in Seq(Writes), Start(w, ok, pending),
         OneEach(waiting), OneEach(pending),
         \A v \in Range(waiting), u \in Range(pending) : v.id # u.id,
         \A v \in Range(waiting) \cup Range(pending) : v.id # w.id,
         NEW n \in Nat, Account(Out, (Range(waiting) \cup Range(pending)) \cup {w}, n)
  PROVE  OneWrite' /\ Account(Out', Unfinished', n)
  <1>1. waiting \in Seq(Writes)
    BY DEF TypeOK, Writes
  <1>2. CASE waiting = <<>> /\ Len(kernel) < Room
    <2>1. PICK k \in 1..Length : Transmit(w, ok, k) /\ Complete(w, k, pending)
      BY <1>2 DEF Start
    <2>2. waiting' = waiting
      BY <1>2 DEF Start
    <2> QED BY <1>1, <2>1, <2>2, SendsInv
  <1>3. CASE ~ (waiting = <<>> /\ Len(kernel) < Room)
    <2>1. waiting' = Append(waiting, w) /\ posted' = pending /\ kernel' = kernel
      BY <1>3 DEF Start
    <2>2. OneEach(waiting') /\ Range(waiting') = Range(waiting) \cup {w}
      BY <1>1, <2>1, AppendWrites
    <2>3. OneWrite'
      BY <2>1, <2>2 DEF OneWrite
    <2>4. Out' = Out /\ Unfinished' = (Range(waiting) \cup Range(pending)) \cup {w}
      BY <2>1, <2>2 DEF Out, Unfinished
    <2> QED BY <2>3, <2>4
  <1> QED BY <1>2, <1>3

----------------------------------------------------------------------------
(***************************************************************************)
(* The client.                                                             *)
(***************************************************************************)

LEMMA ClientSendInv == SessionInv /\ ClientSend => SessionInv'
  <1> SUFFICES ASSUME SessionInv, ClientSend PROVE SessionInv'
    OBVIOUS
  <1> USE DEF SessionInv
  <1>1. PICK k \in Kinds : inbox' = Append(inbox, k)
    BY DEF ClientSend
  <1>2. inbox' \in Seq(Kinds) /\ Len(inbox') = Len(inbox) + 1
    BY <1>1, AppendProperties DEF TypeOK
  <1>3. /\ sent' = sent + 1 /\ sent' \in 0..MaxRequests
        /\ patient' = (patient /\ Len(got) = sent * Length)
        /\ UNCHANGED <<client, reading, answered, waiting, posted, kernel, got>>
    BY SessionAssumption DEF ClientSend, TypeOK
  <1>4. TypeOK'
    BY <1>2, <1>3 DEF TypeOK, Piece
  <1>5. answered' + Len(inbox') <= sent'
    BY <1>2, <1>3 DEF TypeOK
  <1>6. PatientInv'
    <2> SUFFICES ASSUME patient' PROVE PatientInv'
      BY DEF PatientInv
    <2>1. Len(got) = sent * Length /\ patient
      BY <1>3, Zenon
    <2>2. sent' - 1 = sent
      BY <1>3 DEF TypeOK
    <2>3. (sent' - 1) * Length = Len(got')
      BY <1>3, <2>1, <2>2
    <2>4. Len(got') >= Len(got')
      BY <1>3 DEF TypeOK
    <2>5. UNCHANGED <<Out, Rests, Left>>
      BY <1>3 DEF Out, Rests, Left
    <2>6. PatientInv /\ patient
      BY <2>1
    <2> QED BY <1>3, <2>3, <2>4, <2>5, <2>6 DEF PatientInv, InOrder, Due
  <1> QED BY <1>3, <1>4, <1>5, <1>6

LEMMA ClientReceiveInv == SessionInv /\ ClientReceive => SessionInv'
  <1> SUFFICES ASSUME SessionInv, ClientReceive PROVE SessionInv'
    OBVIOUS
  <1> USE DEF SessionInv
  <1>1. /\ client = "open" /\ kernel # <<>>
        /\ got' = Append(got, Head(kernel)) /\ kernel' = Tail(kernel)
        /\ UNCHANGED <<client, sent, inbox, patient, reading, answered, waiting, posted>>
    BY DEF ClientReceive
  <1>2. kernel \in Seq(Piece) /\ got \in Seq(Piece) /\ Len(kernel) \in Nat /\ Len(kernel) <= Room
    BY DEF TypeOK
  <1>3. /\ Head(kernel) \in Piece /\ kernel' \in Seq(Piece) /\ Len(kernel') = Len(kernel) - 1
    BY <1>1, <1>2, HeadTailProperties
  <1>4. got' \in Seq(Piece) /\ Len(got') = Len(got) + 1
    BY <1>1, <1>2, <1>3, AppendProperties
  <1>5. TypeOK'
    BY <1>1, <1>2, <1>3, <1>4, SessionAssumption DEF TypeOK, Piece
  <1>6. got' \o kernel' = got \o kernel
    BY <1>1, <1>2, <1>3, <1>4
  <1>7. PatientInv'
    <2> SUFFICES ASSUME patient PROVE PatientInv'
      BY <1>1 DEF PatientInv
    <2>1. Len(got') + Len(kernel') = Len(got) + Len(kernel)
      BY <1>2, <1>3, <1>4
    <2>2. sent' > 0 => Len(got') >= (sent' - 1) * Length
      <3>1. (sent - 1) * Length \in Int /\ Len(got) \in Nat
        BY <1>2, SessionAssumption DEF TypeOK
      <3> QED BY <1>1, <1>4, <3>1 DEF PatientInv
    <2>3. UNCHANGED <<Out, Rests, Left>>
      BY <1>1, <1>6 DEF Out, Rests, Left
    <2>4. PatientInv /\ Len(got) \in Nat /\ Len(kernel) \in Nat /\ Len(got') \in Nat /\ Len(kernel') \in Nat
      BY <1>2, <1>3, <1>4
    <2> QED BY <1>1, <2>1, <2>2, <2>3, <2>4 DEF PatientInv, InOrder, Due
  <1> QED BY <1>1, <1>5, <1>7

\* What a connection that ends does to a client: it gets nothing any more.
LEMMA GoneInv ==
  ASSUME SessionInv, client' \in {"closed", "reset"}, kernel' = <<>>, inbox' \in {inbox, <<>>},
         UNCHANGED <<sent, patient, reading, answered, waiting, posted, got>>
  PROVE  SessionInv'
  <1> USE DEF SessionInv
  <1>1. /\ inbox' \in Seq(Kinds) /\ Len(inbox') <= Len(inbox)
        /\ kernel' \in Seq(Piece) /\ Len(kernel') = 0
    <2>1. inbox \in Seq(Kinds) /\ Len(inbox) \in Nat
      BY DEF TypeOK
    <2>2. <<>> \in Seq(Kinds) /\ <<>> \in Seq(Piece) /\ Len(<<>>) = 0
      BY EmptySeq
    <2>3. CASE inbox' = inbox
      BY <2>1, <2>2, <2>3
    <2>4. CASE inbox' = <<>>
      BY <2>1, <2>2, <2>4
    <2> QED BY <2>3, <2>4
  <1>2. TypeOK'
    BY <1>1, SessionAssumption DEF TypeOK, Piece
  <1>3. answered' + Len(inbox') <= sent'
    BY <1>1 DEF TypeOK
  <1>4. PatientInv'
    <2> SUFFICES ASSUME patient PROVE PatientInv'
      BY DEF PatientInv
    <2>1. /\ Out' = got /\ Len(got) <= Len(Out) /\ Len(got) \in Nat /\ Len(Out) \in Nat
          /\ \A i \in 1..Len(got) : Out[i] = got[i]
      BY DEF TypeOK, Out
    <2>2. InOrder(Out')
      <3>1. InOrder(Out)
        BY DEF PatientInv
      <3> QED BY <2>1, <3>1 DEF InOrder
    <2> QED BY <2>2 DEF PatientInv, InOrder, Due
  <1> QED BY <1>2, <1>3, <1>4

LEMMA ClientCloseInv == SessionInv /\ ClientClose => SessionInv'
  BY GoneInv DEF ClientClose

LEMMA DestroyInv == SessionInv /\ Destroy => SessionInv'
  BY GoneInv DEF Destroy

----------------------------------------------------------------------------
(***************************************************************************)
(* The handlers.                                                           *)
(***************************************************************************)

\* Nothing of the session moves, except that it starts or ceases to read.
LEMMA ReadingInv ==
  ASSUME SessionInv, reading' \in BOOLEAN,
         UNCHANGED <<client, sent, inbox, patient, answered, waiting, posted, kernel, got>>
  PROVE  SessionInv'
  BY DEF SessionInv, TypeOK, PatientInv, InOrder, Out, Rests, Left, Piece, Due

LEMMA ReadFailsInv == SessionInv /\ ReadFails => SessionInv'
  BY ReadingInv DEF ReadFails, ReadError

\* The only write of a patient client is the first in every line.
LEMMA OneRest ==
  ASSUME TypeOK, Len(Rests) <= 1
  PROVE  /\ waiting # <<>> => posted = <<>> /\ Tail(waiting) = <<>> /\ Rests # <<>> /\ Rests[1] = Head(waiting)
         /\ posted # <<>> => waiting = <<>> /\ Tail(posted) = <<>> /\ Rests # <<>> /\ Rests[1] = Head(posted)
  <1>1. /\ waiting \in Seq(Writes) /\ posted \in Seq(Writes)
        /\ Len(waiting) \in Nat /\ Len(posted) \in Nat
    BY DEF TypeOK, Writes
  <1>2. Len(Rests) = Len(waiting) + Len(posted) /\ Rests \in Seq(Writes)
    BY <1>1 DEF Rests
  <1>3. ASSUME waiting # <<>>
        PROVE  posted = <<>> /\ Tail(waiting) = <<>> /\ Rests # <<>> /\ Rests[1] = Head(waiting)
    <2>1. Len(waiting) = 1 /\ Len(posted) = 0
      <3>1. Len(waiting) \in Nat \ {0}
        BY <1>1, <1>3, EmptySeq
      <3> DEFINE a == Len(waiting)
                 b == Len(posted)
      <3>2. a \in Nat \ {0} /\ b \in Nat /\ a + b <= 1
        BY <1>1, <1>2, <3>1
      <3> HIDE DEF a, b
      <3>3. a = 1 /\ b = 0
        BY <3>2
      <3> QED BY <3>3 DEF a, b
    <2>2. posted = <<>>
      BY <1>1, <2>1, EmptySeq
    <2>3. Tail(waiting) = <<>>
      <3>1. Tail(waiting) \in Seq(Writes) /\ Len(Tail(waiting)) = 0
        BY <1>1, <1>3, <2>1, HeadTailProperties
      <3> QED BY <3>1, EmptySeq
    <2>4. Rests = waiting
      BY <1>1, <2>2 DEF Rests
    <2> QED BY <1>1, <1>3, <2>2, <2>3, <2>4, HeadTailProperties
  <1>4. ASSUME posted # <<>>
        PROVE  waiting = <<>> /\ Tail(posted) = <<>> /\ Rests # <<>> /\ Rests[1] = Head(posted)
    <2>1. Len(posted) = 1 /\ Len(waiting) = 0
      <3>1. Len(posted) \in Nat \ {0}
        BY <1>1, <1>4, EmptySeq
      <3> DEFINE a == Len(posted)
                 b == Len(waiting)
      <3>2. a \in Nat \ {0} /\ b \in Nat /\ a + b <= 1
        BY <1>1, <1>2, <3>1
      <3> HIDE DEF a, b
      <3>3. a = 1 /\ b = 0
        BY <3>2
      <3> QED BY <3>3 DEF a, b
    <2>2. waiting = <<>>
      BY <1>1, <2>1, EmptySeq
    <2>3. Tail(posted) = <<>>
      <3>1. Tail(posted) \in Seq(Writes) /\ Len(Tail(posted)) = 0
        BY <1>1, <1>4, <2>1, HeadTailProperties
      <3> QED BY <3>1, EmptySeq
    <2>4. Rests = posted
      BY <1>1, <2>2 DEF Rests
    <2> QED BY <1>1, <1>4, <2>2, <2>3, <2>4, HeadTailProperties
  <1> QED BY <1>3, <1>4

\* The write w, the only one, sends what there is room for or waits.  Either it has
\* sent all that there was room for before, or this is its first call and the kernel
\* is empty.
LEMMA PatientWrites ==
  ASSUME TypeOK, client = "open", InOrder(Out),
         NEW w \in Writes, NEW ok \in BOOLEAN,
         Len(got) + Len(kernel) + w.left = w.id * Length,
         w.left + Room <= Length \/ (ok /\ w.left = Length /\ kernel = <<>>),
         UNCHANGED <<client, patient, sent, got>>, answered' = w.id,
         sent > 0 => Len(got) >= (sent - 1) * Length,
         \/ \E k \in 1..Length : Transmit(w, ok, k) /\ Complete(w, k, <<>>) /\ waiting' = <<>>
         \/ w.left + Room <= Length /\ waiting' = <<w>> /\ posted' = <<>> /\ kernel' = kernel
  PROVE  PatientInv'
  <1>1. /\ got \in Seq(Piece) /\ kernel \in Seq(Piece) /\ Len(kernel) <= Room
        /\ Len(got) \in Nat /\ Len(kernel) \in Nat /\ Room \in Nat \ {0} /\ Length \in Nat \ {0}
        /\ w.id \in 1..MaxRequests /\ w.left \in 1..Length /\ MaxRequests \in Nat
    BY SessionAssumption DEF TypeOK, Writes
  <1>2. Out \in Seq(Piece) /\ Len(Out) = Len(got) + Len(kernel)
    BY <1>1 DEF Out
  <1>3. CASE waiting' = <<w>> /\ posted' = <<>> /\ kernel' = kernel /\ w.left + Room <= Length
    <2>1. Rests' = <<w>> /\ Out' = Out
      BY <1>3 DEF Rests, Out
    <2>2. Rests' # <<>> /\ Len(Rests') = 1 /\ Rests'[1] = w /\ Left' = w.left
      BY <2>1 DEF Left
    <2>3. InOrder(Out)'
      BY <2>1 DEF InOrder, Due
    <2>4. Len(got') + Len(kernel') + Left' = answered' * Length
      BY <1>3, <2>2
    <2>5. /\ client' = "open" /\ Rests'[1].id = answered' /\ Left' + Room <= Length /\ Len(Rests') <= 1
          /\ sent' > 0 => Len(got') >= (sent' - 1) * Length
      BY <1>3, <2>2
    <2> QED BY <2>3, <2>4, <2>5, Zenon DEF PatientInv
  <1>4. ASSUME NEW k \in 1..Length, Transmit(w, ok, k), Complete(w, k, <<>>), waiting' = <<>>
        PROVE  PatientInv'
    <2> DEFINE from == Length - w.left
               new  == Pieces(w.id, from, k, ok)
    <2>1. k <= w.left /\ (k < w.left => k = Room - Len(kernel)) /\ kernel' = kernel \o new
      <3>1. k = Least(w.left, Room - Len(kernel)) /\ kernel' = kernel \o new
        BY <1>4 DEF Transmit
      <3> DEFINE x == w.left
                 y == Room - Len(kernel)
      <3>2. x \in Nat /\ y \in Nat
        BY <1>1
      <3> HIDE DEF x, y
      <3>4. k = Least(x, y)
        BY <3>1, Zenon DEF x, y
      <3>3. k <= x /\ (k < x => k = y)
        BY <3>2, <3>4 DEF Least
      <3>5. k <= w.left /\ (k < w.left => k = Room - Len(kernel))
        BY <3>3, Zenon DEF x, y
      <3> QED BY <3>1, <3>5
    <2>2. from \in Nat /\ k \in Nat /\ from + k <= Length /\ (ok \/ from >= Room)
      <3>1. from \in Nat /\ k \in Nat
        BY <1>1
      <3>2. from + k <= Length
        BY <1>1, <2>1
      <3>3. w.left + Room <= Length => from >= Room
        BY <1>1
      <3> QED BY <3>1, <3>2, <3>3, Zenon
    <2>3. Len(Out) = (w.id - 1) * Length + from
      <3> DEFINE all    == w.id * Length
                 before == (w.id - 1) * Length
      <3>1. all = before + Length /\ before \in Nat
        <4>1. w.id \in Nat \ {0} /\ Length \in Nat
          BY <1>1
        <4> QED BY <4>1, OneLess
      <3>2. Len(got) + Len(kernel) + w.left = all
        OBVIOUS
      <3> DEFINE g == Len(got) + Len(kernel)
                 x == w.left
      <3>4. g + x = all /\ Len(Out) = g /\ g \in Nat /\ x \in Nat /\ Length \in Nat
        BY <1>1, <1>2, <3>2
      <3> HIDE DEF all, before, g, x
      <3>5. g = before + (Length - x)
        BY <3>1, <3>4
      <3>3. Len(Out) = before + (Length - w.left)
        BY <3>4, <3>5 DEF x
      <3> QED BY <3>3 DEF before
    <2> HIDE DEF from
    <2>4. InOrder(Out \o new) /\ Len(Out \o new) = Len(Out) + k
      <3>1. Out \in Seq(Piece) /\ InOrder(Out) /\ w.id \in 1..MaxRequests /\ ok \in BOOLEAN
        BY <1>1, <1>2
      <3>2. /\ InOrder(Out \o Pieces(w.id, from, k, ok))
            /\ Len(Out \o Pieces(w.id, from, k, ok)) = Len(Out) + k
        BY <2>2, <2>3, <3>1, NextInOrder, Zenon
      <3> QED BY <3>2
    <2>5. new \in Seq(Piece) /\ Len(new) = k
      <3>1. w.id \in 1..MaxRequests /\ ok \in BOOLEAN
        BY <1>1
      <3>2. Pieces(w.id, from, k, ok) \in Seq(Piece)
        BY <2>2, <3>1, PiecesType, Zenon
      <3>3. Len(Pieces(w.id, from, k, ok)) = k
        BY <2>2, LenProperties DEF Pieces
      <3> QED BY <3>2, <3>3
    <2> HIDE DEF new
    <2>6. Out' = Out \o new /\ Len(got') + Len(kernel') = Len(got) + Len(kernel) + k
      <3>1. (got \o kernel) \o new = got \o (kernel \o new)
        BY <1>1, <2>5, Rejoined
      <3>2. Len(kernel \o new) = Len(kernel) + k
        BY <1>1, <2>5, Joined
      <3> QED BY <1>1, <2>1, <3>1, <3>2 DEF Out
    <2>7. CASE k < w.left
      <3> DEFINE r == Write(w.id, w.left - k)
      <3>1. posted' = <<r>> /\ r.id = w.id /\ r.left = w.left - k
        BY <1>4, <2>7 DEF Complete, Write
      <3> HIDE DEF r
      <3>2. Rests' = <<r>>
        BY <1>4, <3>1 DEF Rests
      <3>3. Rests' # <<>> /\ Len(Rests') = 1 /\ Rests'[1] = r /\ Left' = w.left - k
        BY <3>1, <3>2 DEF Left
      <3>4. Left' + Room <= Length
        <4>1. CASE w.left + Room <= Length
          BY <1>1, <3>3, <4>1
        <4>2. CASE w.left = Length /\ kernel = <<>>
          BY <1>1, <2>1, <2>7, <3>3, <4>2
        <4> QED BY <4>1, <4>2
      <3>5. Len(got') + Len(kernel') + Left' = answered' * Length
        <4> DEFINE all == w.id * Length
        <4>1. Len(got) + Len(kernel) + w.left = all /\ answered' * Length = all
          OBVIOUS
        <4> DEFINE g == Len(got) + Len(kernel)
                   h == Len(got') + Len(kernel')
                   x == w.left
        <4>2. /\ g + x = all /\ h = g + k /\ Left' = x - k
              /\ g \in Nat /\ x \in Nat /\ k \in Nat
          <5>1. g + x = all
            BY <4>1
          <5>2. h = g + k
            BY <2>6
          <5>3. Left' = x - k
            BY <3>3
          <5>4. g \in Nat /\ x \in Nat /\ k \in Nat
            BY <1>1
          <5> QED BY <5>1, <5>2, <5>3, <5>4, Zenon
        <4> HIDE DEF all, g, h, x
        <4>3. h + Left' = all
          BY <4>2
        <4> QED BY <4>1, <4>3 DEF h
      <3> QED BY <2>4, <2>6, <3>1, <3>3, <3>4, <3>5 DEF PatientInv, InOrder, Due
    <2>8. CASE ~ (k < w.left)
      <3>1. posted' = <<>> /\ k = w.left
        BY <1>1, <1>4, <2>1, <2>8 DEF Complete
      <3>2. Rests' = <<>> /\ Len(Rests') = 0 /\ Left' = 0
        BY <1>4, <3>1 DEF Rests, Left
      <3>3. Len(got') + Len(kernel') + Left' = answered' * Length
        <4> DEFINE all == w.id * Length
        <4>1. Len(got) + Len(kernel) + w.left = all /\ answered' * Length = all
          OBVIOUS
        <4> HIDE DEF all
        <4>2. Len(got') + Len(kernel') + 0 = all
          BY <1>1, <2>6, <3>1, <4>1
        <4> QED BY <3>2, <4>1, <4>2
      <3> QED BY <2>4, <2>6, <3>2, <3>3 DEF PatientInv, InOrder, Due
    <2> QED BY <2>7, <2>8
  <1> QED BY <1>3, <1>4

\* When the client is gone nothing is sent, whatever becomes of the writes.
LEMMA GoneWrites ==
  ASSUME PatientInv, client # "open", kernel' = kernel, UNCHANGED <<client, sent, patient, got>>
  PROVE  PatientInv'
  BY DEF PatientInv, InOrder, Due, Out

\* A write goes on.
LEMMA LaterInv ==
  ASSUME SessionInv, PatientInv',
         waiting' \in Seq(Writes), posted' \in Seq(Writes),
         kernel' \in Seq(Piece), Len(kernel') <= Room,
         client # "open" => kernel' = kernel,
         UNCHANGED <<client, sent, inbox, patient, reading, answered, got>>
  PROVE  SessionInv'
  <1>1. TypeOK'
    BY DEF SessionInv, TypeOK, Piece, Writes
  <1> QED BY <1>1 DEF SessionInv

LEMMA SocketWritableInv == SessionInv /\ SocketWritable => SessionInv'
  <1> SUFFICES ASSUME SessionInv, SocketWritable PROVE SessionInv'
    OBVIOUS
  <1>1. TypeOK /\ waiting \in Seq(Writes) /\ posted \in Seq(Writes) /\ waiting # <<>>
    BY DEF SessionInv, TypeOK, Writes, SocketWritable
  <1>2. Head(waiting) \in Writes /\ waiting' = Tail(waiting) /\ waiting' \in Seq(Writes)
    BY <1>1, HeadTailProperties DEF SocketWritable
  <1>3. PICK ok \in BOOLEAN, k \in 1..Length :
          Transmit(Head(waiting), ok, k) /\ Complete(Head(waiting), k, posted)
    BY DEF SocketWritable
  <1>4. /\ kernel' \in Seq(Piece) /\ Len(kernel') <= Room /\ k <= Head(waiting).left
        /\ client # "open" => kernel' = kernel
    BY <1>1, <1>2, <1>3, TransmitType
  <1>5. posted' \in Seq(Writes)
    BY <1>1, <1>2, <1>3, <1>4, CompleteType
  <1>6. UNCHANGED <<client, sent, inbox, patient, reading, answered, got>>
    BY DEF SocketWritable
  <1>7. PatientInv'
    <2>1. CASE patient /\ client = "open"
      <3>1. Len(Rests) <= 1 /\ InOrder(Out) /\ (sent > 0 => Len(got) >= (sent - 1) * Length)
        BY <2>1 DEF SessionInv, PatientInv
      <3>2. posted = <<>> /\ Tail(waiting) = <<>> /\ Rests # <<>> /\ Rests[1] = Head(waiting)
        BY <1>1, <3>1, OneRest
      <3>3. Head(waiting).id = answered /\ Head(waiting).left = Left
        BY <2>1, <3>2 DEF SessionInv, PatientInv, Left
      <3>4. /\ Head(waiting).left + Room <= Length
            /\ Len(got) + Len(kernel) + Head(waiting).left = Head(waiting).id * Length
        BY <2>1, <3>2, <3>3 DEF SessionInv, PatientInv
      <3> QED BY <1>1, <1>2, <1>3, <1>6, <2>1, <3>1, <3>2, <3>3, <3>4, PatientWrites
    <2>2. CASE patient /\ client # "open"
      BY <1>4, <1>6, <2>2, GoneWrites DEF SessionInv
    <2>3. CASE ~ patient
      BY <1>6, <2>3 DEF PatientInv
    <2> QED BY <2>1, <2>2, <2>3
  <1> QED BY <1>2, <1>4, <1>5, <1>6, <1>7, LaterInv

LEMMA WriteSomeInv == SessionInv /\ WriteSome => SessionInv'
  <1> SUFFICES ASSUME SessionInv, WriteSome PROVE SessionInv'
    OBVIOUS
  <1>1. TypeOK /\ posted \in Seq(Writes) /\ posted # <<>>
    BY DEF SessionInv, TypeOK, Writes, WriteSome
  <1>2. Head(posted) \in Writes /\ Tail(posted) \in Seq(Writes)
    BY <1>1, HeadTailProperties
  <1>3. PICK ok \in BOOLEAN : Start(Head(posted), ok, Tail(posted))
    BY DEF WriteSome
  <1>4. /\ waiting' \in Seq(Writes) /\ posted' \in Seq(Writes)
        /\ kernel' \in Seq(Piece) /\ Len(kernel') <= Room
        /\ client # "open" => kernel' = kernel
    BY <1>1, <1>2, <1>3, StartType
  <1>5. UNCHANGED <<client, sent, inbox, patient, reading, answered, got>>
    BY DEF WriteSome
  <1>6. PatientInv'
    <2>1. CASE patient /\ client = "open"
      <3>1. Len(Rests) <= 1 /\ InOrder(Out) /\ (sent > 0 => Len(got) >= (sent - 1) * Length)
        BY <2>1 DEF SessionInv, PatientInv
      <3>2. waiting = <<>> /\ Tail(posted) = <<>> /\ Rests # <<>> /\ Rests[1] = Head(posted)
        BY <1>1, <3>1, OneRest
      <3>3. Head(posted).id = answered /\ Head(posted).left = Left
        BY <2>1, <3>2 DEF SessionInv, PatientInv, Left
      <3>4. /\ Head(posted).left + Room <= Length
            /\ Len(got) + Len(kernel) + Head(posted).left = Head(posted).id * Length
        BY <2>1, <3>2, <3>3 DEF SessionInv, PatientInv
      <3>5. \/ \E k \in 1..Length :
                  Transmit(Head(posted), ok, k) /\ Complete(Head(posted), k, <<>>) /\ waiting' = <<>>
            \/ waiting' = <<Head(posted)>> /\ posted' = <<>> /\ kernel' = kernel
        <4>1. Append(<<>>, Head(posted)) = <<Head(posted)>>
          OBVIOUS
        <4> QED BY <1>3, <3>2, <4>1, Zenon DEF Start
      <3> QED BY <1>1, <1>2, <1>5, <2>1, <3>1, <3>3, <3>4, <3>5, PatientWrites
    <2>2. CASE patient /\ client # "open"
      BY <1>4, <1>5, <2>2, GoneWrites DEF SessionInv
    <2>3. CASE ~ patient
      BY <1>5, <2>3 DEF PatientInv
    <2> QED BY <2>1, <2>2, <2>3
  <1> QED BY <1>4, <1>5, <1>6, LaterInv

\* The answer to a patient client finds the kernel empty and no other write, since
\* the client had received all before when it asked.
LEMMA FirstAnswer ==
  ASSUME SessionInv, patient, ReadRequest
  PROVE  PatientInv'
  <1> DEFINE w == Write(answered + 1, Length)
  <1>1. /\ Length \in Nat \ {0} /\ Room \in Nat \ {0} /\ MaxRequests \in Nat
        /\ got \in Seq(Piece) /\ kernel \in Seq(Piece) /\ Len(got) \in Nat /\ Len(kernel) \in Nat
        /\ Len(inbox) \in Nat /\ Len(inbox) > 0
        /\ waiting \in Seq(Writes) /\ posted \in Seq(Writes)
        /\ sent \in 0..MaxRequests /\ answered \in 0..sent /\ answered + Len(inbox) <= sent
    BY SessionAssumption DEF SessionInv, TypeOK, ReadRequest, Writes
  <1>2. answered + 1 \in 1..MaxRequests /\ answered <= sent - 1 /\ sent > 0
    BY <1>1
  <1>3. UNCHANGED <<client, sent, patient, got>> /\ answered' = answered + 1 /\ Start(w, TRUE, posted)
    BY DEF ReadRequest, do_write
  <1>4. w \in Writes /\ w.id = answered + 1 /\ w.left = Length
    BY <1>1, <1>2 DEF Writes, Write
  <1> HIDE DEF w
  <1>5. CASE client = "open"
    <2>1. /\ Len(Rests) <= 1 /\ InOrder(Out) /\ Len(got) >= (sent - 1) * Length
          /\ Rests # <<>> => Left + Room <= Length
          /\ Len(got) + Len(kernel) + Left = answered * Length
      BY <1>2, <1>5 DEF SessionInv, PatientInv
    <2>2. Rests \in Seq(Writes) /\ (Rests # <<>> => Left \in 1..Length) /\ (Rests = <<>> => Left = 0)
      <3>1. Rests \in Seq(Writes)
        BY <1>1 DEF Rests
      <3>2. Rests # <<>> => Rests[1] \in Writes
        BY <3>1, EmptySeq, ElementOfSeq
      <3> QED BY <3>1, <3>2 DEF Left, Writes
    <2>3. Len(kernel) = 0 /\ Left = 0
      <3>1. (sent - 1) * Length >= answered * Length
        BY <1>1, <1>2
      <3>2. (sent - 1) * Length \in Int /\ answered * Length \in Int
        BY <1>1
      <3>3. Left \in Nat
        BY <1>1, <2>2
      <3> DEFINE a == (sent - 1) * Length
                 b == answered * Length
      <3>4. Len(got) >= a /\ a >= b /\ Len(got) + Len(kernel) + Left = b /\ a \in Int /\ b \in Int
        BY <2>1, <3>1, <3>2
      <3> HIDE DEF a, b
      <3> QED BY <1>1, <3>3, <3>4
    <2>4. Rests = <<>> /\ kernel = <<>>
      BY <1>1, <2>2, <2>3, EmptySeq
    <2>5. waiting = <<>> /\ posted = <<>>
      BY <1>1, <2>1, <2>4, OneRest DEF SessionInv
    <2>6. \E k \in 1..Length : Transmit(w, TRUE, k) /\ Complete(w, k, <<>>) /\ waiting' = <<>>
      <3>1. Len(kernel) < Room /\ Len(kernel) # Room
        BY <1>1, <2>3
      <3> QED BY <1>3, <2>5, <3>1, Zenon DEF Start
    <2>7. Len(got) + Len(kernel) + w.left = w.id * Length
      <3> DEFINE b == answered * Length
                 c == (answered + 1) * Length
      <3>1. c = b + Length /\ b \in Nat
        <4>1. answered + 1 \in Nat \ {0} /\ (answered + 1) - 1 = answered /\ Length \in Nat
          BY <1>1
        <4>2. c = ((answered + 1) - 1) * Length + Length /\ ((answered + 1) - 1) * Length \in Nat
          BY <4>1, OneLess
        <4> QED BY <4>1, <4>2
      <3>2. Len(got) + Len(kernel) + Left = b
        BY <2>1
      <3> HIDE DEF b, c
      <3>3. Len(got) + Len(kernel) + Length = c
        BY <1>1, <2>3, <3>1, <3>2
      <3> QED BY <1>4, <3>3 DEF c
    <2>8. TypeOK /\ TRUE \in BOOLEAN /\ (sent > 0 => Len(got) >= (sent - 1) * Length) /\ answered' = w.id
      BY <1>3, <1>4, <2>1 DEF SessionInv
    <2> QED BY <1>3, <1>4, <1>5, <2>1, <2>4, <2>6, <2>7, <2>8, PatientWrites
  <1>6. CASE client # "open"
    <2>1. kernel' = kernel
      <3>1. posted \in Seq(Writes) /\ TypeOK /\ TRUE \in BOOLEAN
        BY <1>1 DEF SessionInv
      <3> QED BY <1>3, <1>4, <1>6, <3>1, StartType
    <2> QED BY <1>3, <1>6, <2>1, GoneWrites DEF SessionInv
  <1> QED BY <1>5, <1>6

LEMMA ReadRequestInv == SessionInv /\ ReadRequest => SessionInv'
  <1> SUFFICES ASSUME SessionInv, ReadRequest PROVE SessionInv'
    OBVIOUS
  <1> USE DEF SessionInv
  <1>1. /\ inbox \in Seq(Kinds) /\ inbox # <<>> /\ inbox' = Tail(inbox)
        /\ answered' = answered + 1 /\ do_write(answered + 1)
        /\ UNCHANGED <<client, sent, patient, reading, got>>
    BY DEF TypeOK, ReadRequest, Consume
  <1>2. inbox' \in Seq(Kinds) /\ Len(inbox') = Len(inbox) - 1 /\ Len(inbox) \in Nat /\ Len(inbox) > 0
    BY <1>1, HeadTailProperties
  <1>3. answered + 1 \in 1..sent /\ answered + 1 \in 1..MaxRequests /\ answered' + Len(inbox') <= sent'
    BY <1>1, <1>2, SessionAssumption DEF TypeOK
  <1>4. Write(answered + 1, Length) \in Writes
    BY <1>3, SessionAssumption DEF Write, Writes
  <1>5. /\ waiting' \in Seq(Writes) /\ posted' \in Seq(Writes)
        /\ kernel' \in Seq(Piece) /\ Len(kernel') <= Room
        /\ client # "open" => kernel' = kernel
    <2>1. posted \in Seq(Writes)
      BY DEF TypeOK, Writes
    <2> QED BY <1>1, <1>4, <2>1, StartType DEF do_write
  <1>6. TypeOK'
    BY <1>1, <1>2, <1>3, <1>5 DEF TypeOK, Writes, Piece
  <1>7. PatientInv'
    <2>1. CASE patient
      BY <2>1, FirstAnswer
    <2>2. CASE ~ patient
      BY <1>1, <2>2 DEF PatientInv
    <2> QED BY <2>1, <2>2
  <1> QED BY <1>1, <1>3, <1>5, <1>6, <1>7

----------------------------------------------------------------------------
(***************************************************************************)
(* Every step keeps the account.                                           *)
(***************************************************************************)

\* Nothing is sent, and no write comes or goes.
LEMMA SameAccount ==
  ASSUME AccountInv, client' = client, Out' = Out, UNCHANGED <<waiting, posted, answered>>
  PROVE  AccountInv'
  BY DEF AccountInv, OneWrite, Unfinished

LEMMA ClientReceiveAccount == SessionInv /\ AccountInv /\ ClientReceive => AccountInv'
  <1> SUFFICES ASSUME SessionInv, AccountInv, ClientReceive PROVE AccountInv'
    OBVIOUS
  <1>1. kernel \in Seq(Piece) /\ got \in Seq(Piece) /\ kernel # <<>>
    BY DEF SessionInv, TypeOK, ClientReceive
  <1>2. Append(got, Head(kernel)) \o Tail(kernel) = got \o kernel
    BY <1>1
  <1>3. Out' = Out
    BY <1>2 DEF Out, ClientReceive
  <1> QED BY <1>3, SameAccount DEF ClientReceive

LEMMA ClientStepAccount == SessionInv /\ AccountInv /\ (ClientSend \/ ClientReceive \/ ClientClose) => AccountInv'
  <1>1. AccountInv /\ ClientSend => AccountInv'
    BY SameAccount DEF ClientSend, Out
  <1>2. ClientClose => AccountInv'
    BY DEF ClientClose, AccountInv
  <1> QED BY <1>1, <1>2, ClientReceiveAccount

LEMMA SocketWritableAccount == SessionInv /\ AccountInv /\ SocketWritable => AccountInv'
  <1> SUFFICES ASSUME SessionInv, AccountInv, SocketWritable, client' = "open" PROVE AccountInv'
    BY DEF AccountInv
  <1>1. /\ TypeOK /\ waiting \in Seq(Writes) /\ posted \in Seq(Writes) /\ waiting # <<>>
        /\ waiting' = Tail(waiting) /\ answered \in Nat
        /\ UNCHANGED <<client, answered, got>>
    BY DEF SessionInv, TypeOK, Writes, SocketWritable
  <1>2. OneWrite /\ Account(Out, Unfinished, answered) /\ client = "open"
    BY <1>1 DEF AccountInv
  <1>3. /\ Head(waiting) \in Writes /\ Tail(waiting) \in Seq(Writes) /\ OneEach(Tail(waiting))
        /\ Range(waiting) = Range(Tail(waiting)) \cup {Head(waiting)}
        /\ \A v \in Range(Tail(waiting)) : v.id # Head(waiting).id
    BY <1>1, <1>2, TailWrites DEF OneWrite
  <1>4. PICK ok \in BOOLEAN, k \in 1..Length :
          Transmit(Head(waiting), ok, k) /\ Complete(Head(waiting), k, posted)
    BY DEF SocketWritable
  <1>5. /\ OneEach(posted)
        /\ \A v \in Range(Tail(waiting)), u \in Range(posted) : v.id # u.id
        /\ \A v \in Range(Tail(waiting)) \cup Range(posted) : v.id # Head(waiting).id
    BY <1>2, <1>3 DEF OneWrite
  <1>6. Account(Out, (Range(Tail(waiting)) \cup Range(posted)) \cup {Head(waiting)}, answered)
    <2>1. Unfinished = (Range(Tail(waiting)) \cup Range(posted)) \cup {Head(waiting)}
      BY <1>3 DEF Unfinished
    <2> QED BY <1>2, <2>1
  <1>7. OneWrite' /\ Account(Out', Unfinished', answered)
    BY <1>1, <1>2, <1>3, <1>4, <1>5, <1>6, SendsInv
  <1> QED BY <1>1, <1>7 DEF AccountInv

LEMMA WriteSomeAccount == SessionInv /\ AccountInv /\ WriteSome => AccountInv'
  <1> SUFFICES ASSUME SessionInv, AccountInv, WriteSome, client' = "open" PROVE AccountInv'
    BY DEF AccountInv
  <1>1. /\ TypeOK /\ waiting \in Seq(Writes) /\ posted \in Seq(Writes) /\ posted # <<>>
        /\ answered \in Nat /\ UNCHANGED <<client, answered, got>>
    BY DEF SessionInv, TypeOK, Writes, WriteSome
  <1>2. OneWrite /\ Account(Out, Unfinished, answered) /\ client = "open"
    BY <1>1 DEF AccountInv
  <1>3. /\ Head(posted) \in Writes /\ Tail(posted) \in Seq(Writes) /\ OneEach(Tail(posted))
        /\ Range(posted) = Range(Tail(posted)) \cup {Head(posted)}
        /\ \A v \in Range(Tail(posted)) : v.id # Head(posted).id
    BY <1>1, <1>2, TailWrites DEF OneWrite
  <1>4. PICK ok \in BOOLEAN : Start(Head(posted), ok, Tail(posted))
    BY DEF WriteSome
  <1>5. /\ OneEach(waiting)
        /\ \A v \in Range(waiting), u \in Range(Tail(posted)) : v.id # u.id
        /\ \A v \in Range(waiting) \cup Range(Tail(posted)) : v.id # Head(posted).id
    BY <1>2, <1>3 DEF OneWrite
  <1>6. Account(Out, (Range(waiting) \cup Range(Tail(posted))) \cup {Head(posted)}, answered)
    <2>1. Unfinished = (Range(waiting) \cup Range(Tail(posted))) \cup {Head(posted)}
      BY <1>3 DEF Unfinished
    <2> QED BY <1>2, <2>1
  <1>7. OneWrite' /\ Account(Out', Unfinished', answered)
    BY <1>1, <1>2, <1>3, <1>4, <1>5, <1>6, StartsInv
  <1> QED BY <1>1, <1>7 DEF AccountInv

LEMMA ReadRequestAccount == SessionInv /\ AccountInv /\ ReadRequest => AccountInv'
  <1> SUFFICES ASSUME SessionInv, AccountInv, ReadRequest, client' = "open" PROVE AccountInv'
    BY DEF AccountInv
  <1> DEFINE w == Write(answered + 1, Length)
  <1>1. /\ TypeOK /\ waiting \in Seq(Writes) /\ posted \in Seq(Writes) /\ answered \in Nat
        /\ inbox \in Seq(Kinds) /\ inbox # <<>> /\ answered + Len(inbox) <= sent /\ sent \in 0..MaxRequests
        /\ answered' = answered + 1 /\ Start(w, TRUE, posted)
        /\ UNCHANGED <<client, got>>
    <2>1. answered' = answered + 1 /\ do_write(answered + 1) /\ inbox # <<>> /\ UNCHANGED <<client, got>>
      BY Zenon DEF ReadRequest
    <2>2. Start(w, TRUE, posted)
      BY <2>1, Zenon DEF do_write
    <2>3. /\ TypeOK /\ waiting \in Seq(Writes) /\ posted \in Seq(Writes) /\ inbox \in Seq(Kinds)
          /\ answered + Len(inbox) <= sent /\ sent \in 0..MaxRequests
      BY Zenon DEF SessionInv, TypeOK, Writes
    <2>4. answered \in Nat
      BY DEF SessionInv, TypeOK
    <2> QED BY <2>1, <2>2, <2>3, <2>4
  <1>2. OneWrite /\ Account(Out, Unfinished, answered) /\ client = "open"
    BY <1>1 DEF AccountInv
  <1>3. w \in Writes /\ w.id = answered + 1
    <2>1. Len(inbox) \in Nat /\ Len(inbox) >= 1
      BY <1>1
    <2>2. answered + 1 \in 1..MaxRequests
      BY <1>1, <2>1, SessionAssumption
    <2> QED BY <2>2, SessionAssumption DEF Write, Writes
  <1>4. Unfinished \in SUBSET Writes
    BY <1>1, RangeType DEF Unfinished
  <1>5. \A v \in Range(waiting) \cup Range(posted) : v.id # w.id
    <2> SUFFICES ASSUME NEW v \in Unfinished PROVE v.id # answered + 1
      BY <1>3 DEF Unfinished
    <2>1. v.id <= answered /\ v.id \in Nat
      BY <1>2, <1>4, SessionAssumption DEF Account, Writes
    <2> QED BY <1>1, <2>1
  <1>6. Out \in Seq(Piece)
    BY <1>1 DEF Out, TypeOK
  <1>7. Account(Out, (Range(waiting) \cup Range(posted)) \cup {w}, answered + 1)
    BY <1>1, <1>2, <1>4, <1>6, NewAccount DEF Unfinished
  <1>8. answered + 1 \in Nat /\ TRUE \in BOOLEAN
    BY <1>1
  <1> HIDE DEF w
  <1>9. OneWrite' /\ Account(Out', Unfinished', answered + 1)
    BY <1>1, <1>2, <1>3, <1>5, <1>7, <1>8, StartsInv DEF OneWrite
  <1> QED BY <1>1, <1>9 DEF AccountInv

LEMMA ServerAccount == SessionInv /\ AccountInv /\ Server => AccountInv'
  <1>1. AccountInv /\ ReadFails => AccountInv'
    BY SameAccount DEF ReadFails, Out
  <1>2. Destroy => AccountInv'
    BY DEF Destroy, AccountInv
  <1> QED BY <1>1, <1>2, ReadRequestAccount, SocketWritableAccount, WriteSomeAccount DEF Server

\* A connection on which nothing has happened owes nothing.
LEMMA NewConnection ==
  ASSUME answered = 0, waiting = <<>>, posted = <<>>, got = <<>>, kernel = <<>>
  PROVE  AccountInv
  <1>1. Out = <<>> /\ Len(<<>>) = 0
    BY DEF Out
  <1>2. Range(waiting) = {} /\ Range(posted) = {}
    BY DEF Range
  <1>3. OneWrite
    BY <1>1, <1>2 DEF OneWrite, OneEach
  <1>4. Account(Out, Unfinished, answered)
    BY <1>1, <1>2 DEF Account, Unfinished, Ascending
  <1> QED BY <1>3, <1>4 DEF AccountInv

\* By the account, what is sent and what is still to be sent are two halves.
LEMMA AccountLosesNothing == SessionInv /\ AccountInv => NothingLost
  <1> SUFFICES ASSUME SessionInv, AccountInv, client = "open" PROVE NothingLost
    BY DEF NothingLost
  <1>1. OneWrite /\ Account(Out, Unfinished, answered)
    BY DEF AccountInv
  <1>2. Unfinished \in SUBSET Writes
    <2>1. waiting \in Seq(Writes) /\ posted \in Seq(Writes)
      BY DEF SessionInv, TypeOK, Writes
    <2> QED BY <2>1, RangeType DEF Unfinished
  <1>3. ASSUME NEW n \in 1..answered, NEW p \in 1..Length, In(Out, n, p), Owed(Unfinished, n, p)
        PROVE  FALSE
    <2>1. PICK i \in 1..Len(Out) : Out[i].id = n /\ Out[i].part = p
      BY <1>3 DEF In
    <2>2. PICK w \in Unfinished : w.id = n /\ Length - w.left < p
      BY <1>3 DEF Owed
    <2>3. p + w.left <= Length
      BY <1>1, <2>1, <2>2 DEF Account
    <2> QED BY <1>2, <2>2, <2>3, SessionAssumption DEF Writes
  <1>4. \A n \in 1..answered, p \in 1..Length : In(Out, n, p) \/ Owed(Unfinished, n, p)
    BY <1>1 DEF Account
  <1> QED BY <1>1, <1>3, <1>4, Zenon DEF NothingLost, Account

----------------------------------------------------------------------------

LEMMA NewPatient ==
  ASSUME sent = 0, answered = 0, waiting = <<>>, posted = <<>>, got = <<>>, kernel = <<>>
  PROVE  PatientInv
  <1>1. Out = <<>> /\ Len(<<>>) = 0 /\ Rests = <<>>
    BY DEF Out, Rests
  <1>2. InOrder(Out) /\ Left = 0 /\ answered * Length = 0
    BY <1>1, SessionAssumption DEF InOrder, Left
  <1> QED BY <1>1, <1>2 DEF PatientInv

LEMMA InitSessionInv == Init => SessionInv
  <1> SUFFICES ASSUME Init PROVE SessionInv
    OBVIOUS
  <1>1. TypeOK
    BY SessionAssumption DEF Init, TypeOK
  <1>2. PatientInv
    BY NewPatient DEF Init
  <1> QED BY <1>1, <1>2 DEF Init, SessionInv

LEMMA NextSessionInv == SessionInv /\ [Next]_vars => SessionInv'
  <1> SUFFICES ASSUME SessionInv, [Next]_vars PROVE SessionInv'
    OBVIOUS
  <1>1. CASE UNCHANGED vars
    BY <1>1, ReadingInv DEF vars, SessionInv, TypeOK
  <1>2. CASE ClientSend \/ ClientReceive \/ ClientClose
    BY <1>2, ClientSendInv, ClientReceiveInv, ClientCloseInv
  <1>3. CASE Server
    BY <1>3, ReadRequestInv, ReadFailsInv, SocketWritableInv, WriteSomeInv, DestroyInv DEF Server
  <1> QED BY <1>1, <1>2, <1>3 DEF Next

\* The session by itself keeps count of requests and answers.
THEOREM SessionInvariance == Spec => []SessionInv
  <1> QED BY InitSessionInv, NextSessionInv, PTL DEF Spec

\* The session by itself keeps its promise about pieces, to clients that do not wait
\* for their answers too.
THEOREM SessionLosesNothing == Spec => []NothingLost
  <1>1. Init => SessionInv /\ AccountInv
    BY InitSessionInv, NewConnection DEF Init
  <1>2. (SessionInv /\ AccountInv) /\ [Next]_vars => (SessionInv /\ AccountInv)'
    <2> SUFFICES ASSUME SessionInv, AccountInv, [Next]_vars PROVE AccountInv'
      BY NextSessionInv
    <2>1. CASE UNCHANGED vars
      BY <2>1, SameAccount DEF vars, Out
    <2>2. CASE ClientSend \/ ClientReceive \/ ClientClose \/ Server
      BY <2>2, ClientStepAccount, ServerAccount
    <2> QED BY <2>1, <2>2 DEF Next
  <1>3. SessionInv /\ AccountInv => NothingLost
    BY AccountLosesNothing
  <1> QED BY <1>1, <1>2, <1>3, PTL DEF Spec

\* What the client has is the beginning of what was in order.
LEMMA InvServes == SessionInv => PatientClientsAreServed
  <1> SUFFICES ASSUME SessionInv, patient PROVE InOrder(got)
    BY DEF PatientClientsAreServed
  <1>1. got \in Seq(Piece) /\ kernel \in Seq(Piece)
    BY DEF SessionInv, TypeOK
  <1>2. \A i \in 1..Len(got) : i \in 1..Len(Out) /\ Out[i] = got[i]
    BY <1>1 DEF Out
  <1>3. InOrder(Out)
    BY DEF SessionInv, PatientInv
  <1> QED BY <1>2, <1>3 DEF InOrder

=============================================================================
