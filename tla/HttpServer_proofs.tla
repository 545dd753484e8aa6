------------------------- MODULE HttpServer_proofs -------------------------
(***************************************************************************)
(* The process of the REST API, for every number of descriptors and every  *)
(* queue of the kernel: what it owes to the session of a client, and what  *)
(* is left of it when it has ended.                                        *)
(***************************************************************************)
EXTENDS HttpServer, HttpSession_proofs

LEMMA EmptyQueue == <<>> \in Seq({"me", "other"}) /\ Len(<<>>) <= MaxQueued
  BY ServerAssumption

LEMMA HeldType == ServerTypeOK => Held \in Nat /\ others <= Held /\ Held <= others + 1 /\ others \in Nat
  BY ServerAssumption DEF ServerTypeOK, Held

\* A session that is gone stays gone.
LEMMA FreedStays == Freed /\ (ClientSend \/ ClientReceive \/ ClientClose \/ Server) => Freed'
  BY DEF Freed, ClientSend, ClientReceive, ClientClose, Server,
         ReadRequest, ReadFails, SocketWritable, WriteSome, Destroy

\* Whatever the acceptor and other clients do, unless a session is made.
LEMMA OutsideInv ==
  ASSUME ServerInv, UNCHANGED vars, ServerTypeOK', QueuedOnce', mine' # "served" => mine # "served"
  PROVE  ServerInv'
  <1>1. SessionInv'
    BY ReadingInv DEF ServerInv, SessionInv, TypeOK, vars
  <1>3. AccountInv'
    BY SameAccount DEF ServerInv, vars, Out
  <1>2. UnknownBefore'
    <2>1. Freed' = Freed /\ kernel' = kernel /\ answered' = answered
      BY DEF vars, Freed
    <2>2. SUFFICES ASSUME mine' # "served" PROVE Freed' /\ kernel' = <<>> /\ answered' = 0
      BY DEF UnknownBefore
    <2>3. mine # "served"
      BY <2>2
    <2> QED BY <2>1, <2>3 DEF ServerInv, UnknownBefore
  <1> QED BY <1>1, <1>2, <1>3 DEF ServerInv

LEMMA ConnectInv == ServerInv /\ Connect => ServerInv'
  <1> SUFFICES ASSUME ServerInv, Connect PROVE ServerInv'
    OBVIOUS
  <1> USE DEF ServerInv
  <1>1. PICK who \in {"me", "other"} :
          /\ queue' = Append(queue, who)
          /\ IF who = "me" THEN mine = "away" /\ mine' = "queued" ELSE mine' = mine
    BY DEF Connect
  <1>2. UNCHANGED <<vars, running, accepting, failed, others>> /\ running /\ Len(queue) < MaxQueued
    BY DEF Connect
  <1>3. /\ queue \in Seq({"me", "other"}) /\ Len(queue) \in Nat
        /\ queue' \in Seq({"me", "other"}) /\ Len(queue') = Len(queue) + 1
        /\ queue'[Len(queue) + 1] = who /\ \A i \in 1..Len(queue) : queue'[i] = queue[i]
    BY <1>1, AppendProperties DEF ServerTypeOK
  <1>4. Held' = Held
    <2>1. mine' = "served" <=> mine = "served"
      BY <1>1
    <2> QED BY <1>2, <2>1 DEF Held, Freed, vars
  <1>5. ServerTypeOK'
    BY <1>1, <1>2, <1>3, <1>4, ServerAssumption DEF ServerTypeOK
  <1>6. QueuedOnce'
    BY <1>1, <1>3 DEF QueuedOnce
  <1> QED BY <1>1, <1>2, <1>5, <1>6, OutsideInv

LEMMA AcceptInv == ServerInv /\ Accept => ServerInv'
  <1> SUFFICES ASSUME ServerInv, Accept PROVE ServerInv'
    OBVIOUS
  <1> USE DEF ServerInv
  <1>1. /\ accepting /\ queue # <<>> /\ Held < MaxOpen /\ queue' = Tail(queue) /\ accepting' = TRUE
        /\ UNCHANGED <<running, failed, client, sent, inbox, patient, answered, waiting, posted, kernel, got>>
    BY DEF Accept, do_accept
  <1>2. /\ queue \in Seq({"me", "other"}) /\ Len(queue) \in Nat /\ Len(queue) > 0
        /\ queue' \in Seq({"me", "other"}) /\ Len(queue') = Len(queue) - 1
        /\ Head(queue) = queue[1] /\ Head(queue) \in {"me", "other"}
        /\ \A i \in 1..Len(queue') : queue'[i] = queue[i + 1]
    BY <1>1, HeadTailProperties DEF ServerTypeOK
  <1>3. running
    BY <1>1 DEF ServerTypeOK
  <1>4. CASE Head(queue) = "me"
    <2>1. mine' = "served" /\ reading' = TRUE /\ others' = others
      BY <1>4 DEF Accept
    <2>2. mine = "queued"
      BY <1>2, <1>4 DEF QueuedOnce
    <2>3. SessionInv'
      BY <1>1, <2>1, ReadingInv
    <2>4. Held = others /\ Held' = others + 1
      BY <2>1, <2>2, HeldType DEF Held, Freed
    <2>5. ServerTypeOK'
      BY <1>1, <1>2, <1>3, <2>1, <2>4, HeldType, ServerAssumption DEF ServerTypeOK
    <2>6. \A i \in 1..Len(queue') : queue'[i] # "me"
      <3> SUFFICES ASSUME NEW i \in 1..Len(queue'), queue'[i] = "me" PROVE FALSE
        OBVIOUS
      <3>1. i + 1 \in 1..Len(queue) /\ 1 \in 1..Len(queue) /\ i + 1 # 1
        BY <1>2
      <3> QED BY <1>2, <1>4, <3>1 DEF QueuedOnce
    <2>7. AccountInv'
      BY <1>1, SameAccount DEF Out
    <2> QED BY <2>1, <2>3, <2>5, <2>6, <2>7 DEF QueuedOnce, UnknownBefore
  <1>5. CASE Head(queue) = "other"
    <2>1. others' = others + 1 /\ mine' = mine /\ reading' = reading
      BY <1>5 DEF Accept
    <2>2. UNCHANGED vars
      BY <1>1, <2>1 DEF vars
    <2>3. Held' = Held + 1
      BY <1>1, <2>1, HeldType DEF Held, Freed
    <2>4. ServerTypeOK'
      BY <1>1, <1>2, <1>3, <2>1, <2>3, HeldType, ServerAssumption DEF ServerTypeOK
    <2>5. QueuedOnce'
      <3> SUFFICES ASSUME NEW i \in 1..Len(queue'), NEW j \in 1..Len(queue'), queue'[i] = "me"
                   PROVE  mine = "queued" /\ (queue'[j] = "me" => i = j)
        BY <2>1 DEF QueuedOnce
      <3>1. i + 1 \in 1..Len(queue) /\ j + 1 \in 1..Len(queue) /\ (i + 1 = j + 1 => i = j)
        BY <1>2
      <3> QED BY <1>2, <3>1 DEF QueuedOnce
    <2> QED BY <2>1, <2>2, <2>4, <2>5, OutsideInv
  <1> QED BY <1>2, <1>4, <1>5

LEMMA AcceptFailsInv == ServerInv /\ AcceptFails => ServerInv'
  <1> SUFFICES ASSUME ServerInv, AcceptFails PROVE ServerInv'
    OBVIOUS
  <1> USE DEF ServerInv
  <1>1. Held' = Held
    BY DEF AcceptFails, Held, Freed, vars
  <1>2. ServerTypeOK'
    BY <1>1 DEF ServerTypeOK, AcceptFails
  <1>3. QueuedOnce'
    BY DEF QueuedOnce, AcceptFails
  <1> QED BY <1>2, <1>3, OutsideInv DEF AcceptFails

LEMMA OtherLeavesInv == ServerInv /\ OtherLeaves => ServerInv'
  <1> SUFFICES ASSUME ServerInv, OtherLeaves PROVE ServerInv'
    OBVIOUS
  <1> USE DEF ServerInv
  <1>1. Held' = Held - 1 /\ others' = others - 1 /\ others > 0
    BY HeldType DEF OtherLeaves, Held, Freed, vars
  <1>2. ServerTypeOK'
    BY <1>1, HeldType, ServerAssumption DEF ServerTypeOK, OtherLeaves
  <1>3. QueuedOnce'
    BY DEF QueuedOnce, OtherLeaves
  <1> QED BY <1>2, <1>3, OutsideInv DEF OtherLeaves

\* The process ends, and the kernel resets whom it has not accepted.
LEMMA ExitInv == ServerInv /\ Exit => ServerInv'
  <1> SUFFICES ASSUME ServerInv, Exit PROVE ServerInv'
    OBVIOUS
  <1> USE DEF ServerInv
  <1>1. /\ OutOfWork /\ running' = FALSE /\ queue' = <<>>
        /\ UNCHANGED <<accepting, failed, others, sent, inbox, patient, reading, answered, waiting, posted, kernel, got>>
    BY DEF Exit
  <1>2. \/ mine' = mine /\ client' = client
        \/ mine = "queued" /\ mine' = "dropped" /\ client' = client
        \/ mine = "queued" /\ mine' = "dropped" /\ client' = "reset"
    BY DEF Exit
  <1>3. SessionInv'
    <2>1. CASE client' = client
      BY <1>1, <2>1, ReadingInv DEF SessionInv, TypeOK
    <2>2. CASE mine = "queued" /\ client' = "reset"
      BY <1>1, <2>2, GoneInv DEF UnknownBefore
    <2> QED BY <1>2, <2>1, <2>2
  <1>4. Held' = 0 /\ ~ accepting /\ mine' \in {"away", "queued", "served", "dropped"}
    <2>1. Held = 0 /\ ~ accepting
      BY <1>1 DEF OutOfWork
    <2>2. Freed' = Freed
      BY <1>1 DEF Freed
    <2>3. mine' = "served" <=> mine = "served"
      BY <1>2
    <2> QED BY <1>1, <1>2, <2>1, <2>2, <2>3 DEF Held, ServerTypeOK
  <1>5. ServerTypeOK'
    <2>1. queue' \in Seq({"me", "other"}) /\ Len(queue') <= MaxQueued
      BY <1>1, EmptyQueue
    <2>2. others' \in 0..MaxOpen /\ Held' <= MaxOpen
      BY <1>1, <1>4, ServerAssumption DEF ServerTypeOK
    <2>3. running' \in BOOLEAN /\ accepting' \in BOOLEAN /\ failed' \in BOOLEAN
      BY <1>1, Zenon DEF ServerTypeOK
    <2> QED BY <1>1, <1>4, <2>1, <2>2, <2>3, Zenon DEF ServerTypeOK
  <1>6. QueuedOnce'
    BY <1>1 DEF QueuedOnce
  <1>7. UnknownBefore'
    BY <1>1, <1>2 DEF UnknownBefore, Freed
  <1>8. AccountInv'
    <2>1. CASE client' = client
      BY <1>1, <2>1, SameAccount DEF Out
    <2>2. CASE client' = "reset"
      BY <2>2 DEF AccountInv
    <2> QED BY <1>2, <2>1, <2>2
  <1> QED BY <1>3, <1>5, <1>6, <1>7, <1>8

\* A step of the session or of its client, as the acceptor sees it.
LEMMA SessionStep ==
  ASSUME ServerInv, SessionInv', AccountInv', UNCHANGED serverVars, Freed => Freed', UnknownBefore'
  PROVE  ServerInv'
  <1> USE DEF ServerInv
  <1>1. Held' \in 0..Held
    BY HeldType DEF Held, serverVars
  <1>2. ServerTypeOK'
    BY <1>1, HeldType, ServerAssumption DEF ServerTypeOK, serverVars
  <1>3. QueuedOnce'
    BY DEF QueuedOnce, serverVars
  <1> QED BY <1>2, <1>3

LEMMA MineInv == ServerInv /\ Mine => ServerInv'
  <1> SUFFICES ASSUME ServerInv, Mine PROVE ServerInv'
    OBVIOUS
  <1>1. (ClientSend \/ ClientReceive \/ ClientClose) /\ UNCHANGED serverVars
    BY DEF Mine
  <1>2. SessionInv'
    BY <1>1, ClientSendInv, ClientReceiveInv, ClientCloseInv DEF ServerInv
  <1>3. UnknownBefore'
    BY <1>1 DEF ServerInv, UnknownBefore, Freed, serverVars, ClientSend, ClientReceive, ClientClose
  <1>4. AccountInv'
    BY <1>1, ClientStepAccount DEF ServerInv
  <1> QED BY <1>1, <1>2, <1>3, <1>4, FreedStays, SessionStep

LEMMA MySessionInv == ServerInv /\ MySession => ServerInv'
  <1> SUFFICES ASSUME ServerInv, MySession PROVE ServerInv'
    OBVIOUS
  <1>1. mine = "served" /\ UNCHANGED serverVars /\ Server
    BY DEF MySession, Served
  <1>2. SessionInv'
    BY <1>1, ReadRequestInv, ReadFailsInv, SocketWritableInv, WriteSomeInv, DestroyInv DEF Server, ServerInv
  <1>3. UnknownBefore'
    BY <1>1 DEF UnknownBefore, serverVars
  <1>4. AccountInv'
    BY <1>1, ServerAccount DEF ServerInv
  <1> QED BY <1>1, <1>2, <1>3, <1>4, FreedStays, SessionStep

----------------------------------------------------------------------------

LEMMA InitServerInv == ServerInit => ServerInv
  <1> SUFFICES ASSUME ServerInit PROVE ServerInv
    OBVIOUS
  <1>1. SessionInv
    <2>1. TypeOK
      <3>1. <<>> \in Seq(Kinds) /\ <<>> \in Seq(Writes) /\ <<>> \in Seq(Piece) /\ Len(<<>>) = 0
        OBVIOUS
      <3>2. /\ inbox \in Seq(Kinds) /\ waiting \in Seq(Writes) /\ posted \in Seq(Writes)
            /\ kernel \in Seq(Piece) /\ Len(kernel) <= Room /\ got \in Seq(Piece)
        BY <3>1, SessionAssumption DEF ServerInit
      <3>3. patient \in BOOLEAN /\ reading \in BOOLEAN /\ client \in {"open", "closed", "reset"}
        BY Zenon DEF ServerInit
      <3>4. sent \in 0..MaxRequests /\ answered \in 0..sent
        BY SessionAssumption DEF ServerInit
      <3> QED BY <3>2, <3>3, <3>4, Zenon DEF TypeOK, Writes
    <2>2. PatientInv
      BY NewPatient DEF ServerInit
    <2> QED BY <2>1, <2>2 DEF ServerInit, SessionInv
  <1>2. ServerTypeOK
    <2>1. Held = 0 /\ queue \in Seq({"me", "other"}) /\ Len(queue) <= MaxQueued
      BY EmptyQueue DEF ServerInit, Held
    <2>2. others \in 0..MaxOpen /\ Held <= MaxOpen
      BY <2>1, ServerAssumption DEF ServerInit
    <2>3. running \in BOOLEAN /\ accepting \in BOOLEAN /\ failed \in BOOLEAN /\ running
      BY Zenon DEF ServerInit
    <2>4. mine \in {"away", "queued", "served", "dropped"}
      BY DEF ServerInit
    <2> QED BY <2>1, <2>2, <2>3, <2>4, Zenon DEF ServerTypeOK
  <1>3. AccountInv
    BY NewConnection DEF ServerInit
  <1> QED BY <1>1, <1>2, <1>3 DEF ServerInit, ServerInv, QueuedOnce, UnknownBefore, Freed

LEMMA NextServerInv == ServerInv /\ [ServerNext]_allVars => ServerInv'
  <1> SUFFICES ASSUME ServerInv, [ServerNext]_allVars PROVE ServerInv'
    OBVIOUS
  <1>1. CASE UNCHANGED allVars
    <2>1. SessionInv'
      BY <1>1, ReadingInv DEF allVars, vars, ServerInv, SessionInv, TypeOK
    <2>2. UnknownBefore'
      BY <1>1 DEF allVars, vars, serverVars, ServerInv, UnknownBefore, Freed
    <2>3. AccountInv'
      BY <1>1, SameAccount DEF allVars, vars, ServerInv, Out
    <2> QED BY <1>1, <2>1, <2>2, <2>3, SessionStep DEF allVars, vars, Freed
  <1>2. CASE Connect \/ Accept \/ AcceptFails \/ OtherLeaves \/ Exit
    BY <1>2, ConnectInv, AcceptInv, AcceptFailsInv, OtherLeavesInv, ExitInv
  <1>3. CASE Mine \/ MySession
    BY <1>3, MineInv, MySessionInv
  <1> QED BY <1>1, <1>2, <1>3 DEF ServerNext

\* Descriptors are counted right, a connection waits once, and a process that has
\* ended has left neither an accept nor a session behind.
THEOREM ServerInvariance == ServerSpec => []ServerInv
  <1> QED BY InitServerInv, NextServerInv, PTL DEF ServerSpec

\* A client of the process that waits for its answers has them whole and in order,
\* whatever the length of a response, the room in the kernel and other clients.
THEOREM PatienceIsRewarded == ServerSpec => []PatientClientsAreServed
  <1>1. ServerInv => PatientClientsAreServed
    BY InvServes DEF ServerInv
  <1> QED BY <1>1, ServerInvariance, PTL

\* However many requests a client sends ahead, and however their answers interleave,
\* of every answer each piece is sent once and in order, as long as the client stays.
THEOREM EveryPieceOnce == ServerSpec => []NothingLost
  <1>1. ServerInv => NothingLost
    BY AccountLosesNothing DEF ServerInv
  <1> QED BY <1>1, ServerInvariance, PTL

\* The process never holds more connections than descriptors, and ends without one.
THEOREM ServerTypes == ServerSpec => []ServerTypeOK
  <1>1. ServerInv => ServerTypeOK
    BY DEF ServerInv
  <1> QED BY <1>1, ServerInvariance, PTL

\* The variables of the connection keep their types, whatever becomes of the process.
THEOREM SessionTypes == ServerSpec => []TypeOK
  <1>1. ServerInv => TypeOK
    BY DEF ServerInv, SessionInv
  <1> QED BY <1>1, ServerInvariance, PTL

=============================================================================
