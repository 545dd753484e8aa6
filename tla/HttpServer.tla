------------------------------ MODULE HttpServer ------------------------------
(***************************************************************************)
(* The process of the REST API: HttpServer, which accepts connections, and *)
(* the session of HttpSession.tla among those of other clients.            *)
(*                                                                         *)
(* The process runs as long as its io_context has something to wait for.   *)
(* An accept that fails is not followed by another one: from then on the   *)
(* process serves those that it has, and when the last of them is gone,    *)
(* run() returns and it ends.  A client that has connected meanwhile       *)
(* waits in the kernel's queue, its requests with it.                      *)
(*                                                                         *)
(* The kernel is external: it queues connections by itself, in order, and  *)
(* fails an accept when no descriptor is left, whether anybody is in the   *)
(* queue or not (asio tries an accept as soon as it is asked for one), and *)
(* may fail one for reasons of its own.                                    *)
(* Of another client the model keeps that it has a session; it leaves when *)
(* it likes, and SessionsEnd says that its session then is freed.          *)
(***************************************************************************)
EXTENDS HttpSession

CONSTANTS
  MaxOpen,          \* descriptors that the process can have for connections
  MaxQueued         \* bound: connections in the kernel's queue

ASSUME ServerAssumption == MaxOpen \in Nat \ {0} /\ MaxQueued \in Nat \ {0}

VARIABLES
  running,          \* io_context::run() has not returned
  accepting,        \* an async_accept is pending
  failed,           \* history: an accept has failed
  queue,            \* connections that are not accepted yet: "me" or "other"
  mine,             \* the client of HttpSession: "away", "queued", "served" or "dropped"
  others            \* sessions of other clients

serverVars == <<running, accepting, failed, queue, mine, others>>
allVars    == <<vars, serverVars>>

\* Sessions that exist, each with a descriptor.
Held == others + (IF mine = "served" /\ ~ Freed THEN 1 ELSE 0)

----------------------------------------------------------------------------

\* The kernel establishes a connection, mine or another client's.
Connect ==
  /\ running /\ Len(queue) < MaxQueued
  /\ \/ mine = "away" /\ mine' = "queued" /\ queue' = Append(queue, "me")
     \/ UNCHANGED mine /\ queue' = Append(queue, "other")
  /\ UNCHANGED <<vars, running, accepting, failed, others>>

do_accept_Once == accepting' = FALSE
do_accept == accepting' = TRUE

\* on_accept: a session for the first in the queue, which starts to read; and then
\* do_accept again.
Accept ==
  /\ accepting /\ queue # <<>> /\ Held < MaxOpen
  /\ queue' = Tail(queue)
  /\ IF Head(queue) = "me" THEN mine' = "served" /\ reading' = TRUE /\ UNCHANGED others
                           ELSE others' = others + 1 /\ UNCHANGED <<mine, reading>>
  /\ do_accept
  /\ UNCHANGED <<running, failed, client, sent, inbox, patient, answered, waiting, posted, kernel, got>>

\* on_accept with an error, whatever it is: it logs and returns.
AcceptFails ==
  /\ accepting
  /\ accepting' = FALSE
  /\ failed' = TRUE
  /\ UNCHANGED <<vars, running, queue, mine, others>>

\* What must happen to an accept; it need not fail while there are descriptors.
AcceptEnds == Accept \/ (Held = MaxOpen /\ AcceptFails)

OtherLeaves == /\ others > 0
               /\ others' = others - 1
               /\ UNCHANGED <<vars, running, accepting, failed, queue, mine>>

\* What io_context::run() returns on: neither an accept nor a session is left.
OutOfWork_Poll      == Held = 0
OutOfWork_WorkGuard == FALSE
OutOfWork == ~ accepting /\ Held = 0

\* main returns, and the kernel resets whoever is in its queue.
Exit ==
  /\ running /\ OutOfWork
  /\ running' = FALSE
  /\ queue'   = <<>>
  /\ IF mine = "queued" THEN /\ mine' = "dropped"
                             /\ client' = IF client = "open" THEN "reset" ELSE client
                        ELSE UNCHANGED <<mine, client>>
  /\ UNCHANGED <<accepting, failed, others>>
  /\ UNCHANGED <<sent, inbox, patient, reading, answered, waiting, posted, kernel, got>>

\* A client may send, and hang up, before it is accepted.
Mine == /\ mine # "away"
        /\ ClientSend \/ ClientReceive \/ ClientClose
        /\ UNCHANGED serverVars

\* The handlers of my session.
Served    == mine = "served" /\ UNCHANGED serverVars
MySession == Served /\ Server

----------------------------------------------------------------------------

\* start() has been called, nobody has connected.
ServerInit ==
  /\ client = "open" /\ sent = 0 /\ inbox = <<>> /\ patient = TRUE /\ reading = FALSE
  /\ answered = 0 /\ waiting = <<>> /\ posted = <<>> /\ kernel = <<>> /\ got = <<>>
  /\ running = TRUE /\ accepting = TRUE /\ failed = FALSE
  /\ queue = <<>> /\ mine = "away" /\ others = 0

ServerNext == \/ Connect \/ Accept \/ AcceptFails \/ OtherLeaves \/ Exit
              \/ Mine \/ MySession

ServerSpec == ServerInit /\ [][ServerNext]_allVars

\* The event loop runs every handler that is due, of the acceptor and of a session,
\* the process ends when it has returned, and the network delivers.  No client,
\* mine or another, has to connect, to send or to leave.
ServerFairness == /\ WF_allVars(AcceptEnds) /\ WF_allVars(Exit)
                  /\ WF_allVars(Served /\ ReadRequest) /\ WF_allVars(Served /\ ReadFails)
                  /\ WF_allVars(Served /\ SocketWritable) /\ WF_allVars(Served /\ WriteSome)
                  /\ WF_allVars(Served /\ ClientReceive)

FairServerSpec == ServerSpec /\ ServerFairness

----------------------------------------------------------------------------

\* The types, and what is left when the process has ended: no session and no accept.
ServerTypeOK ==
  /\ running \in BOOLEAN /\ accepting \in BOOLEAN /\ failed \in BOOLEAN
  /\ queue \in Seq({"me", "other"}) /\ Len(queue) <= MaxQueued
  /\ mine \in {"away", "queued", "served", "dropped"}
  /\ others \in 0..MaxOpen /\ Held <= MaxOpen
  /\ ~ running => ~ accepting /\ Held = 0 /\ queue = <<>>

\* A connection is queued once at most.
QueuedOnce ==
  \A i, j \in 1..Len(queue) :
    queue[i] = "me" => mine = "queued" /\ (queue[j] = "me" => i = j)

\* Before it is accepted, the process knows nothing of a connection.
UnknownBefore == mine # "served" => Freed /\ kernel = <<>> /\ answered = 0

\* The inductive invariant of the process: that of the session, which no step of
\* the acceptor or of another client disturbs, and that of the acceptor.
ServerInv == SessionInv /\ AccountInv /\ ServerTypeOK /\ QueuedOnce /\ UnknownBefore

\* Whoever connects is served, whatever others do, as long as no accept has failed.
ConnectedAreServed == mine = "queued" ~> mine = "served" \/ failed

\* After that nobody is served, but nobody waits for ever either, provided that the
\* clients which have sessions leave now and then: the process ends, and the queue
\* with it.
NobodyWaitsForEver == []<>(others = 0) => (mine = "queued" ~> mine # "queued")

============================================================================
