---------------------------- MODULE HttpSession ----------------------------
(***************************************************************************)
(* One HttpSession: how requests come in and answers go out on one         *)
(* connection.  What the answers say is the subject of HttpApi.tla.        *)
(*                                                                         *)
(* One thread runs all handlers, each of them to its end.  The handler of  *)
(* do_read answers the request with do_write and at once reads again; it   *)
(* does not wait for the answer to be sent.                                *)
(*                                                                         *)
(* do_write hands asio a response that is a parameter of its own, gone     *)
(* when do_write returns.  What can be sent at once is sent from the       *)
(* response; whatever is sent later is read from freed memory, and may or  *)
(* may not be what was there before.  A response may be longer than what   *)
(* the kernel keeps for a client: the handlers put strings of the request  *)
(* into it, whose body may have a megabyte.                                *)
(*                                                                         *)
(* asio is external: an async_write sends what the kernel takes at once if *)
(* no other write of the socket is waiting, and else waits behind it; when *)
(* it has sent a part only, its completion handler starts it again for the *)
(* rest, behind the writes that have come to wait meanwhile.               *)
(***************************************************************************)
EXTENDS Naturals, Sequences, Functions

CONSTANTS
  MaxRequests,      \* bound: requests the client sends
  Length,           \* pieces of a response
  Room              \* pieces the kernel keeps for the client

ASSUME SessionAssumption == /\ MaxRequests \in Nat
                            /\ Length \in Nat \ {0}
                            /\ Room \in Nat \ {0}

VARIABLES
  client,           \* "open", "closed" by the client, or "reset" by the server's kernel
  sent,             \* requests the client has sent
  inbox,            \* those that are in the socket or in buffer_
  patient,          \* the client has had every answer before it sent the next request
  reading,          \* an async_read of this session is pending
  answered,         \* responses handed to do_write
  waiting,          \* writes that wait for the socket, in order: [id, left]
  posted,           \* completion handlers of partial writes that are due: [id, left]
  kernel,           \* pieces the kernel holds: [id, part, intact]
  got               \* pieces the client has received

vars == <<client, sent, inbox, patient, reading, answered, waiting, posted, kernel, got>>

Kinds == {"request", "malformed"}

Write(n, left) == [id |-> n, left |-> left]

----------------------------------------------------------------------------
(***************************************************************************)
(* The client.                                                             *)
(***************************************************************************)

ClientSend ==
  /\ client = "open" /\ sent < MaxRequests
  /\ \E k \in Kinds : inbox' = Append(inbox, k)
  /\ sent'    = sent + 1
  /\ patient' = (patient /\ Len(got) = sent * Length)
  /\ UNCHANGED <<client, reading, answered, waiting, posted, kernel, got>>

ClientReceive ==
  /\ client = "open" /\ kernel # <<>>
  /\ got'    = Append(got, Head(kernel))
  /\ kernel' = Tail(kernel)
  /\ UNCHANGED <<client, sent, inbox, patient, reading, answered, waiting, posted>>

\* Requests that have not been read may be lost with the connection.
ClientClose ==
  /\ client = "open"
  /\ client' = "closed"
  /\ kernel' = <<>>
  /\ inbox' \in {inbox, <<>>}
  /\ UNCHANGED <<sent, patient, reading, answered, waiting, posted, got>>

----------------------------------------------------------------------------
(***************************************************************************)
(* Sending (asio).                                                         *)
(***************************************************************************)

Least(a, b) == IF a < b THEN a ELSE b

Pieces(n, from, k, ok) ==
  [i \in 1..k |-> [id |-> n, part |-> from + i, intact |-> ok]]

\* The write w puts as many pieces as there is room for into the kernel; once the
\* client is gone they go nowhere and the write ends with an error.
Transmit(w, ok, k) ==
  /\ k = Least(w.left, Room - Len(kernel))
  /\ kernel' = IF client = "open" THEN kernel \o Pieces(w.id, Length - w.left, k, ok) ELSE kernel

\* After k pieces: the completion handler of do_write if these were the last, or
\* that of the composed operation, which goes on with the rest.
Complete_FirstPartOnly(w, k, pending) == posted' = pending
Complete(w, k, pending) ==
  posted' = IF client = "open" /\ k < w.left
              THEN Append(pending, Write(w.id, w.left - k)) ELSE pending

\* async_write is called for w.
Start(w, ok, pending) ==
  \/ /\ waiting = <<>> /\ Len(kernel) < Room
     /\ \E k \in 1..Length : Transmit(w, ok, k) /\ Complete(w, k, pending)
     /\ UNCHANGED waiting
  \/ /\ waiting # <<>> \/ Len(kernel) = Room
     /\ waiting' = Append(waiting, w)
     /\ posted' = pending
     /\ UNCHANGED kernel

\* The socket takes data again: the first write that waits goes on, from memory
\* that is not the response's any more.
SocketWritable ==
  /\ waiting # <<>> /\ Len(kernel) < Room
  /\ \E ok \in BOOLEAN, k \in 1..Length :
       Transmit(Head(waiting), ok, k) /\ Complete(Head(waiting), k, posted)
  /\ waiting' = Tail(waiting)
  /\ UNCHANGED <<client, sent, inbox, patient, reading, answered, got>>

\* The composed write goes on with the rest of its response.
WriteSome ==
  /\ posted # <<>>
  /\ \E ok \in BOOLEAN : Start(Head(posted), ok, Tail(posted))
  /\ UNCHANGED <<client, sent, inbox, patient, reading, answered, got>>

----------------------------------------------------------------------------
(***************************************************************************)
(* The handlers of the session.                                            *)
(***************************************************************************)

\* The response n, as process_request has made it, goes to async_write.
do_write_Later(n) == /\ waiting' = Append(waiting, Write(n, Length))
                     /\ UNCHANGED <<posted, kernel>>
do_write(n) == Start(Write(n, Length), TRUE, posted)

\* async_read takes the request it has completed out of the stream.
Consume_Kept == UNCHANGED inbox
Consume == inbox' = Tail(inbox)

\* A request is complete: process_request answers it, and do_read reads again.
ReadRequest ==
  /\ reading
  /\ inbox # <<>> /\ Head(inbox) = "request"
  /\ Consume
  /\ answered' = answered + 1
  /\ do_write(answered + 1)
  /\ UNCHANGED <<client, sent, patient, reading, got>>

\* async_read fails, on bytes that are no HTTP or at the end of the stream: the
\* handler logs and returns, and does not read again.
ReadError_Retried == reading' = TRUE
ReadError == reading' = FALSE

ReadFails ==
  /\ reading
  /\ \/ inbox # <<>> /\ Head(inbox) = "malformed"
     \/ inbox = <<>> /\ client = "closed"
  /\ ReadError
  /\ UNCHANGED <<client, sent, inbox, patient, answered, waiting, posted, kernel, got>>

\* Nothing holds a shared_ptr to the session any more; its socket is closed.
Freed == ~ reading /\ waiting = <<>> /\ posted = <<>>

\* A socket closed with requests unread resets the connection, and what the
\* client has not received yet is lost.
Destroy ==
  /\ Freed /\ client = "open" /\ Len(inbox) > 1
  /\ client' = "reset"
  /\ kernel' = <<>>
  /\ UNCHANGED <<sent, inbox, patient, reading, answered, waiting, posted, got>>

----------------------------------------------------------------------------

Init ==
  /\ client   = "open"
  /\ sent     = 0
  /\ inbox    = <<>>
  /\ patient  = TRUE
  /\ reading  = TRUE
  /\ answered = 0
  /\ waiting  = <<>>
  /\ posted   = <<>>
  /\ kernel   = <<>>
  /\ got      = <<>>

Server == ReadRequest \/ ReadFails \/ SocketWritable \/ WriteSome \/ Destroy

Next == ClientSend \/ ClientReceive \/ ClientClose \/ Server

Spec == Init /\ [][Next]_vars

\* The event loop runs every handler that is due, and a client receives what the
\* network has for it.  It need not send or close.
Fairness == /\ WF_vars(ReadRequest) /\ WF_vars(ReadFails)
            /\ WF_vars(SocketWritable) /\ WF_vars(WriteSome)
            /\ WF_vars(ClientReceive)

FairSpec == Spec /\ Fairness

----------------------------------------------------------------------------

Piece == [id : 1..MaxRequests, part : 1..Length, intact : BOOLEAN]

TypeOK ==
  /\ client \in {"open", "closed", "reset"}
  /\ sent \in 0..MaxRequests /\ answered \in 0..sent
  /\ inbox \in Seq(Kinds)
  /\ patient \in BOOLEAN /\ reading \in BOOLEAN
  /\ waiting \in Seq([id : 1..MaxRequests, left : 1..Length])
  /\ posted \in Seq([id : 1..MaxRequests, left : 1..Length])
  /\ kernel \in Seq(Piece) /\ Len(kernel) <= Room
  /\ got \in Seq(Piece)

\* The i-th piece of all answers, in order.
Due(i) == [id |-> 1 + ((i - 1) \div Length), part |-> 1 + ((i - 1) % Length)]

\* The pieces of the answers in order, the first Room ones of each as they were made.
InOrder(out) == \A i \in 1..Len(out) : /\ out[i].id = Due(i).id
                                       /\ out[i].part = Due(i).part
                                       /\ out[i].part <= Room => out[i].intact

\* A client that waits for each answer before it asks again gets the answers in order
\* and without a gap, and as much of each as the kernel takes at once is as it was made,
\* although none outlives its do_write.  That is the whole of an answer for which there
\* is room; of a longer one the rest is sent from freed memory.
PatientClientsAreServed == patient => InOrder(got)

\* The client has been sent the piece p of answer n; a write is still to send it.
Out            == got \o kernel
Unfinished     == Range(waiting) \cup Range(posted)
In(out, n, p)  == \E i \in 1..Len(out) : out[i].id = n /\ out[i].part = p
Owed(ws, n, p) == \E w \in ws : w.id = n /\ Length - w.left < p

\* Why: with a patient client only the last answer may not have been sent as a whole,
\* and then all that there was room for has been, since the client had emptied the
\* kernel when it asked.
Rests == waiting \o posted
Left  == IF Rests = <<>> THEN 0 ELSE Rests[1].left

PatientInv ==
  patient => /\ InOrder(Out)
             /\ client = "open" =>
                  /\ Len(Rests) <= 1
                  /\ Rests # <<>> => Rests[1].id = answered /\ Left + Room <= Length
                  /\ Len(got) + Len(kernel) + Left = answered * Length
             /\ sent > 0 => Len(got) >= (sent - 1) * Length

\* No request is answered that was not sent, none is answered twice, and nothing is
\* kept for a client that is gone.
SessionInv ==
  /\ TypeOK
  /\ answered + Len(inbox) <= sent
  /\ client # "open" => kernel = <<>>
  /\ PatientInv

\* No two pieces of an answer have changed places, and none is there twice.
Ascending(out) == \A i, j \in 1..Len(out) :
                    i < j /\ out[i].id = out[j].id => out[i].part < out[j].part

\* Each answer has one write at most, and that waits in one place.
OneEach(ws) == \A i, j \in 1..Len(ws) : ws[i].id = ws[j].id => i = j
OneWrite    == /\ OneEach(waiting) /\ OneEach(posted)
               /\ \A v \in Range(waiting), w \in Range(posted) : v.id # w.id

\* However writes interleave, each piece of every answer is either sent or still to
\* be sent by one write: none is lost, none is sent twice, and those of one answer
\* are sent in order.
NothingLost ==
  client = "open" =>
    /\ \A n \in 1..answered, p \in 1..Length : ~ (In(Out, n, p) <=> Owed(Unfinished, n, p))
    /\ Ascending(Out)
    /\ OneWrite

\* Why: what a write has still to send comes behind all that has been sent of its
\* answer, and nothing is sent for a request that is not answered yet.
Account(out, ws, n) ==
  /\ Ascending(out)
  /\ \A i \in 1..Len(out) : out[i].id <= n
  /\ \A w \in ws : /\ w.id <= n
                   /\ \A i \in 1..Len(out) : out[i].id = w.id => out[i].part + w.left <= Length
  /\ \A m \in 1..n, p \in 1..Length : In(out, m, p) \/ Owed(ws, m, p)

AccountInv == client = "open" => OneWrite /\ Account(Out, Unfinished, answered)

\* Each answer is delivered whole in the end, to a client that stays.
AnswersArrive ==
  \A n \in 1..MaxRequests :
    answered >= n ~> \/ client # "open"
                     \/ \E i \in 1..Len(got) : got[i].id = n /\ got[i].part = Length

\* When its client has closed, nothing keeps the session for ever.
SessionsEnd == client = "closed" ~> Freed

\* The cycle of the class comment: a request is processed, its answer is sent, and
\* then the next request is processed.
AnswerBeforeNext == [][answered' # answered => waiting = <<>> /\ posted = <<>>]_vars

============================================================================
