-------------------------- MODULE ChatServerProofs --------------------------
(***************************************************************************)
(* What is proved about ChatServer for every value of its constants.       *)
(***************************************************************************)
EXTENDS ChatServerProperties, TLAPS

-----------------------------------------------------------------------------
(* The building blocks keep the types.                                     *)

(* The three requests the server makes are requests.                       *)
LEMMA RequestsAreTyped ==
  /\ \A id \in UserIDs, state \in InfoStates, peer \in Peers, n \in Nat,
        awaited \in BOOLEAN :
       ToOne(id, state, peer, n, awaited) \in QueuedRequest
  /\ \A id \in UserIDs, activeOnly \in BOOLEAN, peer \in Peers, n \in Nat :
       ToAll(id, activeOnly, peer, n) \in QueuedRequest
  /\ \A conn \in Conns : Goodbye(conn) \in QueuedRequest
PROOF
  BY RegistryAssumption
     DEF ToOne, ToAll, Goodbye, QueuedRequest, InfoStates, UserIDs, Peers,
         InvalidUserID

(* QueueRequest adds a request or does nothing.                            *)
LEMMA QueueRequestType ==
  ASSUME sendQueue \in Seq(QueuedRequest), NEW req \in QueuedRequest,
         QueueRequest(req)
  PROVE  sendQueue' \in Seq(QueuedRequest)
PROOF
  BY DEF QueueRequest

(* SendStringToConnection adds a request to what each connection was sent. *)
LEMMA SendToType ==
  ASSUME outbox \in [Conns -> Seq(QueuedRequest)], NEW req \in QueuedRequest,
         NEW conns, SendTo(conns, req)
  PROVE  outbox' \in [Conns -> Seq(QueuedRequest)]
PROOF
  BY DEF SendTo

(* CloseConnection leaves a network of the right type.                     *)
LEMMA CloseConnectionType ==
  ASSUME NetworkOK, NEW conn \in Conns, CloseConnection(conn),
         UNCHANGED <<callbacks, outbox, serial>>
  PROVE  NetworkOK'
PROOF
  BY DEF CloseConnection, NetworkOK

(* Erasing keeps the types of both tables.                                 *)
LEMMA EraseType ==
  ASSUME TablesOK, NEW conn, NEW id, Erase(conn, id)
  PROVE  /\ mapClients' \in ClientsMap
         /\ mapConnections' \in ConnectionsMap
PROOF
  BY RegistryAssumption
     DEF Erase, TablesOK, ClientsMap, ConnectionsMap, UserIDs, InvalidUserID

(* A reserved entry is an entry.                                           *)
LEMMA ReservedClientType == ReservedClient \in HClient
PROOF
  BY RegistryAssumption
     DEF ReservedClient, HClient, InfoStates, UserIDs, InvalidUserID

(* ReserveUserID gives back a table of clients.                            *)
LEMMA ReserveType ==
  ASSUME NEW clients \in ClientsMap, NEW id \in UserIDs
  PROVE  ReserveUserID(clients, id) \in ClientsMap
PROOF
  BY ReservedClientType DEF ReserveUserID, ClientsMap

(* ChangeClientID gives back both tables.                                  *)
LEMMA ChangeType ==
  ASSUME NEW clients \in ClientsMap, NEW connections \in ConnectionsMap,
         NEW currentID \in UserIDs, NEW newID \in UserIDs
  PROVE  /\ ChangeClientID(clients, connections, currentID, newID)[1]
              \in ClientsMap
         /\ ChangeClientID(clients, connections, currentID, newID)[2]
              \in ConnectionsMap
PROOF
  <1> DEFINE old == clients[currentID]
             moved == [old EXCEPT !.userID = newID]
             swapped == [clients EXCEPT ![currentID] = NoClient,
                                        ![newID] = moved]
             pointed == [connections EXCEPT ![moved.connection] = newID]
  <1>1. old # NoClient => moved \in HClient
    BY DEF ClientsMap, HClient
  <1>2. old # NoClient => swapped \in ClientsMap
    BY <1>1 DEF ClientsMap
  <1>3. pointed \in ConnectionsMap
    BY DEF ConnectionsMap
  <1>4. ReserveUserID(clients, newID) \in ClientsMap
    BY ReserveType
  <1> HIDE DEF moved, swapped, pointed
  <1> QED
    BY <1>2, <1>3, <1>4, Zenon DEF ChangeClientID, moved, swapped, pointed

-----------------------------------------------------------------------------
(* Type correctness: one lemma per thread.                                 *)

(* The kinds of threads do not overlap.                                    *)
LEMMA ThreadsDiffer ==
  /\ ConnThread \in CallbackThreads /\ ReqThread \notin CallbackThreads
  /\ ConnThread \notin OtherCallbackThreads
  /\ CallbackThreads \subseteq Threads /\ ReqThread \in Threads
  /\ UserThreads \subseteq Threads
  /\ \A u \in UserThreads : u \notin CallbackThreads /\ u # ReqThread
PROOF
  BY ServerAssumption DEF CallbackThreads, Threads

(* A thread that runs callbacks goes from one of its labels to another.    *)
LEMMA CallbackGoto ==
  ASSUME ThreadsOK, NEW t \in CallbackThreads, NEW label \in CallbackLabels,
         Goto(t, label)
  PROVE  /\ ThreadsOK'
         /\ pc'[t] = label
         /\ \A s \in Threads : s # t => pc'[s] = pc[s]
PROOF
  <1>1. /\ pc' \in [Threads -> ConnLabels \cup ReqLabels \cup {"idle", "closing"}]
        /\ pc'[t] = label
        /\ \A s \in Threads : s # t => pc'[s] = pc[s]
    BY ThreadsDiffer DEF Goto, ThreadsOK, ConnLabels
  <1> QED
    BY <1>1, ThreadsDiffer DEF ThreadsOK, ConnLabels, CallbackThreads

(* The connection thread goes from one of its labels to another.           *)
LEMMA ConnGoto ==
  ASSUME ThreadsOK, NEW label \in ConnLabels, Goto(ConnThread, label)
  PROVE  /\ ThreadsOK'
         /\ pc'[ConnThread] = label
         /\ \A s \in Threads : s # ConnThread => pc'[s] = pc[s]
PROOF
  <1>1. /\ pc' \in [Threads -> ConnLabels \cup ReqLabels \cup {"idle", "closing"}]
        /\ pc'[ConnThread] = label
        /\ \A s \in Threads : s # ConnThread => pc'[s] = pc[s]
    BY ThreadsDiffer DEF Goto, ThreadsOK
  <1> QED
    BY <1>1, ThreadsDiffer DEF ThreadsOK, CallbackThreads

(* The request thread goes from one of its labels to another.              *)
LEMMA ReqGoto ==
  ASSUME ThreadsOK, NEW label \in ReqLabels, Goto(ReqThread, label)
  PROVE  /\ ThreadsOK'
         /\ pc'[ReqThread] = label
         /\ \A s \in Threads : s # ReqThread => pc'[s] = pc[s]
PROOF
  <1>1. /\ pc' \in [Threads -> ConnLabels \cup ReqLabels \cup {"idle", "closing"}]
        /\ pc'[ReqThread] = label
        /\ \A s \in Threads : s # ReqThread => pc'[s] = pc[s]
    BY ThreadsDiffer DEF Goto, ThreadsOK
  <1> QED
    BY <1>1, ThreadsDiffer DEF ThreadsOK, CallbackThreads

(* The initial state is well typed.                                        *)
LEMMA TypeInit == Init => TypeOK
PROOF
  <1> SUFFICES ASSUME Init PROVE TypeOK
    OBVIOUS
  <1> USE RegistryAssumption, ServerAssumption
  <1>1. NetworkOK
    BY DEF Init, NetworkOK
  <1>2. TablesOK
    BY DEF Init, TablesOK, ClientsMap, ConnectionsMap, UserIDs, InvalidUserID
  <1>3. QueuesOK
    <2>1. pushEnabled \in BOOLEAN /\ goingExit \in BOOLEAN
      BY Zenon DEF Init
    <2>2. sendQueue \in Seq(QueuedRequest) /\ handleQueue \in Seq(HandledRequest)
      BY DEF Init
    <2> QED
      BY <2>1, <2>2, Zenon DEF QueuesOK
  <1>4. ThreadsOK
    BY ThreadsDiffer
       DEF Init, ThreadsOK, Threads, CallbackThreads, ConnLabels, ReqLabels,
           CallbackLabels
  <1>5. PlacesOK
    <2>1. \A t \in CallbackThreads : pc[t] \in {"top", "callbacks"}
      BY ThreadsDiffer DEF Init, CallbackThreads, Threads
    <2>2. place \in [CallbackThreads -> [conn : Peers, id : UserIDs]]
      BY DEF Init, Nowhere, Peers, UserIDs, InvalidUserID
    <2> QED
      BY <2>1, <2>2 DEF PlacesOK, AcceptLabels, GeneratedLabels
  <1>6. HandsOK
    <2>1. pc[ConnThread] = "top" /\ pc[ReqThread] = "top"
      BY ThreadsDiffer DEF Init
    <2> QED
      BY <2>1 DEF Init, HandsOK, SendLabels, HandleLabels
  <1> QED
    BY <1>1, <1>2, <1>3, <1>4, <1>5, <1>6 DEF TypeOK

(* The peers only change the network.                                      *)
LEMMA TypeEnvironment == ASSUME TypeOK, Environment PROVE TypeOK'
PROOF
  <1>1. NetworkOK'
    <2> SUFFICES ASSUME NEW conn \in Conns,
                        PeerConnects(conn) \/ PeerCloses(conn) \/ PeerSends(conn),
                        UNCHANGED outbox
                 PROVE  NetworkOK'
      BY DEF Environment
    <2>1. CASE PeerConnects(conn)
      BY <2>1 DEF PeerConnects, TypeOK, NetworkOK, Callback
    <2>2. CASE PeerCloses(conn)
      BY <2>2 DEF PeerCloses, TypeOK, NetworkOK, Callback
    <2>3. CASE PeerSends(conn)
      <3> PICK type \in RequestTypes, claim \in Claims :
             inbox' = [inbox EXCEPT ![conn] =
                         Append(@, [type |-> type, claim |-> claim,
                                    serial |-> serial + 1])]
        BY <2>3 DEF PeerSends
      <3>1. [type |-> type, claim |-> claim, serial |-> serial + 1]
               \in IncomingRequest
        BY ServerAssumption DEF IncomingRequest, TypeOK, NetworkOK
      <3> QED
        BY <2>3, <3>1 DEF PeerSends, TypeOK, NetworkOK
    <2> QED
      BY <2>1, <2>2, <2>3
  <1>2. TablesOK' /\ QueuesOK' /\ ThreadsOK' /\ PlacesOK' /\ HandsOK'
    BY DEF Environment, TypeOK, TablesOK, QueuesOK, ThreadsOK, PlacesOK,
           HandsOK, tables, queues, work
  <1> QED
    BY <1>1, <1>2 DEF TypeOK

(* When a callback thread is at a new label, what is said of the hands     *)
(* stays true.                                                             *)
LEMMA CallbackHands ==
  ASSUME ThreadsOK, HandsOK, NEW t \in CallbackThreads,
         NEW label \in CallbackLabels, Goto(t, label),
         UNCHANGED <<polls, received, sending, handling>>
  PROVE  HandsOK'
PROOF
  BY CallbackGoto, ThreadsDiffer
     DEF HandsOK, CallbackLabels, AcceptLabels, SendLabels, HandleLabels

(* It keeps the place it had, and the new label asks no more of it.        *)
LEMMA CallbackKeepsPlace ==
  ASSUME ThreadsOK, PlacesOK, NEW t \in CallbackThreads,
         NEW label \in CallbackLabels, Goto(t, label), UNCHANGED place,
         pc[t] \in AcceptLabels,
         label \in GeneratedLabels => pc[t] \in GeneratedLabels
  PROVE  PlacesOK'
PROOF
  BY CallbackGoto, ThreadsDiffer DEF PlacesOK, CallbackLabels

(* It has left its place.                                                  *)
LEMMA CallbackLeavesPlace ==
  ASSUME ThreadsOK, PlacesOK, NEW t \in CallbackThreads,
         Goto(t, "callbacks"), place' = [place EXCEPT ![t] = Nowhere]
  PROVE  PlacesOK'
PROOF
  <1>1. /\ pc'[t] = "callbacks"
        /\ \A s \in Threads : s # t => pc'[s] = pc[s]
    BY CallbackGoto DEF CallbackLabels
  <1>2. Nowhere \in [conn : Peers, id : UserIDs]
    BY RegistryAssumption DEF Nowhere, Peers, UserIDs, InvalidUserID
  <1> QED
    BY <1>1, <1>2, ThreadsDiffer DEF PlacesOK, AcceptLabels, GeneratedLabels

(* A callback keeps the types.                                             *)
LEMMA TypeNextCallback ==
  ASSUME TypeOK, NEW t \in CallbackThreads, CallbackStep(t),
         OnConnecting(t) \/ OnClosedWhileConnecting(t) \/ OnClosedWhileConnected(t)
  PROVE  TypeOK'
PROOF
  <1> DEFINE conn == Head(callbacks).conn
  <1>1. /\ conn \in Conns /\ callbacks' \in Seq(Callback)
        /\ pc[t] = "callbacks"
        /\ UNCHANGED <<tables, lock, sendQueue, outbox, serial, handleQueue,
                       pushEnabled, goingExit, polls, received, sending, handling>>
    <2>1. callbacks \in Seq(Callback) /\ callbacks # <<>>
          /\ callbacks' = Tail(callbacks)
      BY DEF TypeOK, NetworkOK, OnConnecting, OnClosedWhileConnecting,
             OnClosedWhileConnected, NextCallback
    <2>2. Head(callbacks) \in Callback /\ Tail(callbacks) \in Seq(Callback)
      BY <2>1
    <2> QED
      BY <2>1, <2>2
         DEF Callback, CallbackStep, OnConnecting, OnClosedWhileConnecting,
             OnClosedWhileConnected, NextCallback
  <1> HIDE DEF conn
  <1>2. TablesOK' /\ QueuesOK'
    BY <1>1 DEF TypeOK, TablesOK, QueuesOK, tables
  <1>3. CASE OnClosedWhileConnected(t)
    <2>1. Goto(t, "remove") /\ "remove" \in CallbackLabels
      BY <1>3 DEF OnClosedWhileConnected, CallbackLabels
    <2>2. ThreadsOK' /\ HandsOK'
      BY <2>1, <1>1, CallbackGoto, CallbackHands DEF TypeOK
    <2>3. NetworkOK'
      BY <1>1, <1>3 DEF OnClosedWhileConnected, TypeOK, NetworkOK
    <2>4. PlacesOK'
      <3>1. place' = [place EXCEPT ![t].conn = conn]
        BY <1>3 DEF OnClosedWhileConnected, conn
      <3>2. /\ pc'[t] = "remove"
            /\ \A s \in Threads : s # t => pc'[s] = pc[s]
        BY <2>1, CallbackGoto DEF TypeOK
      <3> QED
        BY <1>1, <3>1, <3>2, ThreadsDiffer
           DEF TypeOK, PlacesOK, GeneratedLabels, Peers
    <2> QED
      BY <1>2, <2>2, <2>3, <2>4 DEF TypeOK
  <1>4. CASE \/ OnClosedWhileConnecting(t)
             \/ OnConnecting(t) /\ connState[conn] # "Connecting"
    <2>1. CloseConnection(conn) /\ UNCHANGED <<pc, place>>
      BY <1>4 DEF OnClosedWhileConnecting, OnConnecting, conn
    <2>2. NetworkOK'
      BY <1>1, <2>1 DEF CloseConnection, TypeOK, NetworkOK
    <2>3. ThreadsOK' /\ PlacesOK' /\ HandsOK'
      BY <1>1, <2>1 DEF TypeOK, ThreadsOK, PlacesOK, HandsOK
    <2> QED
      BY <1>2, <2>2, <2>3 DEF TypeOK
  <1>5. CASE OnConnecting(t) /\ connState[conn] = "Connecting"
    <2>1. /\ connState' = [connState EXCEPT ![conn] = "Connected"]
          /\ place' = [place EXCEPT ![t].conn = conn]
          /\ Goto(t, "generate") /\ UNCHANGED inbox
          /\ "generate" \in CallbackLabels
      BY <1>5 DEF OnConnecting, conn, CallbackLabels, AcceptLabels
    <2>2. ThreadsOK' /\ HandsOK'
      BY <2>1, <1>1, CallbackGoto, CallbackHands DEF TypeOK
    <2>3. NetworkOK'
      BY <1>1, <2>1 DEF TypeOK, NetworkOK
    <2>4. PlacesOK'
      <3>1. /\ pc'[t] = "generate"
            /\ \A s \in Threads : s # t => pc'[s] = pc[s]
        BY <2>1, CallbackGoto DEF TypeOK
      <3> QED
        BY <1>1, <2>1, <3>1, ThreadsDiffer
           DEF TypeOK, PlacesOK, GeneratedLabels, Peers
    <2> QED
      BY <1>2, <2>2, <2>3, <2>4 DEF TypeOK
  <1> QED
    BY <1>3, <1>4, <1>5

(* Removing a client keeps the types.                                      *)
LEMMA TypeRemoveByConnection ==
  ASSUME TypeOK, NEW t \in CallbackThreads, CallbackStep(t),
         RemoveClientByConnection(t)
  PROVE  TypeOK'
PROOF
  <1> USE DEF RemoveClientByConnection
  <1>1. place[t].conn \in Conns
    BY DEF TypeOK, PlacesOK
  <1>2. NetworkOK'
    BY <1>1, CloseConnectionType DEF CallbackStep, TypeOK
  <1>3. TablesOK'
    <2>1. Erase(place[t].conn, mapConnections[place[t].conn])
      OBVIOUS
    <2>2. mapClients' \in ClientsMap /\ mapConnections' \in ConnectionsMap
      BY <2>1, EraseType DEF TypeOK
    <2> QED
      BY <2>2 DEF TypeOK, TablesOK
  <1>4. QueuesOK'
    BY DEF CallbackStep, TypeOK, QueuesOK
  <1>5. ThreadsOK' /\ PlacesOK' /\ HandsOK'
    BY CallbackGoto, CallbackLeavesPlace, CallbackHands
       DEF CallbackStep, TypeOK, CallbackLabels
  <1> QED
    BY <1>2, <1>3, <1>4, <1>5 DEF TypeOK

(* Generating an id keeps the types.                                       *)
LEMMA TypeGenerate ==
  ASSUME TypeOK, NEW t \in CallbackThreads, CallbackStep(t),
         \/ SkipTakenID(t) \/ ReadTakenID(t) \/ PassTakenID(t)
         \/ FindFreeID(t) \/ TakeID(t) \/ AdvanceID(t)
  PROVE  TypeOK'
PROOF
  <1> USE DEF SkipTakenID, ReadTakenID, PassTakenID, FindFreeID, TakeID, AdvanceID
  <1>1. NetworkOK' /\ QueuesOK'
    BY DEF CallbackStep, TypeOK, NetworkOK, QueuesOK
  <1>2. /\ "take" \in CallbackLabels /\ "advance" \in CallbackLabels
        /\ "reserve" \in CallbackLabels /\ "generate" \in CallbackLabels
        /\ "skip" \in CallbackLabels /\ "skipping" \in CallbackLabels
    BY DEF CallbackLabels, AcceptLabels
  <1>3. CASE SkipTakenID(t)
    <2>1. TablesOK'
      BY <1>3 DEF TypeOK, TablesOK, tables
    <2>2. PlacesOK'
      BY <1>2, <1>3, CallbackKeepsPlace DEF TypeOK, AcceptLabels, GeneratedLabels
    <2>3. ThreadsOK' /\ HandsOK'
      BY <1>2, <1>3, CallbackGoto, CallbackHands DEF CallbackStep, TypeOK
    <2> QED
      BY <1>1, <2>1, <2>2, <2>3 DEF TypeOK
  <1>4. CASE ReadTakenID(t)
    <2>1. TablesOK'
      BY <1>4 DEF TypeOK, TablesOK, tables
    <2>2. PlacesOK'
      <3>1. /\ pc'[t] = "skipping"
            /\ \A s \in Threads : s # t => pc'[s] = pc[s]
        BY <1>2, <1>4, CallbackGoto DEF TypeOK
      <3>2. place[t].conn \in Conns
        BY <1>4 DEF TypeOK, PlacesOK, AcceptLabels
      <3>3. lastFreeID \in UserIDs /\ ~IsLibReservedID(lastFreeID)
        BY <1>4, RegistryAssumption DEF TypeOK, TablesOK, IsLibReservedID
      <3>4. place' = [place EXCEPT ![t].id = lastFreeID]
        BY <1>4
      <3> QED
        BY <3>1, <3>2, <3>3, <3>4, ThreadsDiffer DEF TypeOK, PlacesOK
    <2>3. ThreadsOK' /\ HandsOK'
      BY <1>2, <1>4, CallbackGoto, CallbackHands DEF CallbackStep, TypeOK
    <2> QED
      BY <1>1, <2>1, <2>2, <2>3 DEF TypeOK
  <1>5. CASE PassTakenID(t)
    <2>1. TablesOK'
      <3>1. place[t].id \in UserIDs /\ ~IsLibReservedID(place[t].id)
        BY <1>5 DEF TypeOK, PlacesOK, GeneratedLabels
      <3>2. lastFreeID' \in LibReservedUserIDs..(MaxUserID + 1)
        BY <1>5, <3>1, RegistryAssumption DEF UserIDs, IsLibReservedID
      <3> QED
        BY <1>5, <3>2 DEF TypeOK, TablesOK
    <2>2. PlacesOK'
      BY <1>2, <1>5, CallbackKeepsPlace DEF TypeOK, AcceptLabels, GeneratedLabels
    <2>3. ThreadsOK' /\ HandsOK'
      BY <1>2, <1>5, CallbackGoto, CallbackHands DEF CallbackStep, TypeOK
    <2> QED
      BY <1>1, <2>1, <2>2, <2>3 DEF TypeOK
  <1>6. CASE FindFreeID(t)
    <2>1. TablesOK'
      BY <1>6 DEF TypeOK, TablesOK, tables
    <2>2. PlacesOK'
      BY <1>2, <1>6, CallbackKeepsPlace DEF TypeOK, AcceptLabels, GeneratedLabels
    <2>3. ThreadsOK' /\ HandsOK'
      BY <1>2, <1>6, CallbackGoto, CallbackHands DEF CallbackStep, TypeOK
    <2> QED
      BY <1>1, <2>1, <2>2, <2>3 DEF TypeOK
  <1>7. CASE TakeID(t)
    <2>1. TablesOK'
      BY <1>7 DEF TypeOK, TablesOK, tables
    <2>2. PlacesOK'
      <3>1. /\ pc'[t] = "advance"
            /\ \A s \in Threads : s # t => pc'[s] = pc[s]
        BY <1>2, <1>7, CallbackGoto DEF TypeOK
      <3>2. place[t].conn \in Conns
        BY <1>7 DEF TypeOK, PlacesOK, AcceptLabels
      <3>3. lastFreeID \in UserIDs /\ ~IsLibReservedID(lastFreeID)
        BY <1>7, RegistryAssumption DEF TypeOK, TablesOK, IsLibReservedID
      <3>4. place' = [place EXCEPT ![t].id = lastFreeID]
        BY <1>7
      <3> QED
        BY <3>1, <3>2, <3>3, <3>4, ThreadsDiffer DEF TypeOK, PlacesOK
    <2>3. ThreadsOK' /\ HandsOK'
      BY <1>2, <1>7, CallbackGoto, CallbackHands DEF CallbackStep, TypeOK
    <2> QED
      BY <1>1, <2>1, <2>2, <2>3 DEF TypeOK
  <1>8. CASE AdvanceID(t)
    <2>1. TablesOK'
      <3>1. place[t].id \in UserIDs /\ ~IsLibReservedID(place[t].id)
        BY <1>8 DEF TypeOK, PlacesOK, GeneratedLabels
      <3>2. lastFreeID' \in LibReservedUserIDs..(MaxUserID + 1)
        BY <1>8, <3>1, RegistryAssumption DEF UserIDs, IsLibReservedID
      <3> QED
        BY <1>8, <3>2 DEF TypeOK, TablesOK
    <2>2. PlacesOK'
      BY <1>2, <1>8, CallbackKeepsPlace DEF TypeOK, AcceptLabels, GeneratedLabels
    <2>3. ThreadsOK' /\ HandsOK'
      BY <1>2, <1>8, CallbackGoto, CallbackHands DEF CallbackStep, TypeOK
    <2> QED
      BY <1>1, <2>1, <2>2, <2>3 DEF TypeOK
  <1> QED
    BY <1>3, <1>4, <1>5, <1>6, <1>7, <1>8

(* The rest of AcceptClient keeps the types.                               *)
LEMMA TypeAccept ==
  ASSUME TypeOK, NEW t \in CallbackThreads, CallbackStep(t),
         \/ ReserveGeneratedID(t) \/ PreAcceptClient(t)
         \/ InsertClient(t) \/ BindClient(t)
  PROVE  TypeOK'
PROOF
  <1>1. /\ "preAccept" \in CallbackLabels /\ "insert" \in CallbackLabels
        /\ "bind" \in CallbackLabels /\ "callbacks" \in CallbackLabels
    BY DEF CallbackLabels, AcceptLabels
  <1>2. place[t].id \in UserIDs
    BY DEF TypeOK, PlacesOK
  <1>3. /\ UNCHANGED <<outbox, serial, handleQueue, pushEnabled, goingExit>>
        /\ UNCHANGED <<polls, received, sending, handling>>
    BY DEF CallbackStep
  <1>4. CASE ReserveGeneratedID(t)
    <2> USE DEF ReserveGeneratedID
    <2>1. NetworkOK' /\ QueuesOK'
      BY <1>3, <1>4 DEF TypeOK, NetworkOK, QueuesOK
    <2>2. TablesOK'
      BY <1>2, <1>4, ReserveType DEF TypeOK, TablesOK
    <2>3. PlacesOK'
      BY <1>1, <1>4, CallbackKeepsPlace DEF TypeOK, AcceptLabels, GeneratedLabels
    <2>4. ThreadsOK' /\ HandsOK'
      BY <1>1, <1>3, <1>4, CallbackGoto, CallbackHands DEF TypeOK
    <2> QED
      BY <2>1, <2>2, <2>3, <2>4 DEF TypeOK
  <1>5. CASE PreAcceptClient(t)
    <2> USE DEF PreAcceptClient
    <2>1. QueuesOK' /\ TablesOK'
      BY <1>3, <1>5 DEF TypeOK, QueuesOK, TablesOK, tables
    <2>2. CASE Goto(t, "insert") /\ UNCHANGED <<connState, inbox, place>>
      <3>1. NetworkOK'
        BY <1>3, <1>5, <2>2 DEF TypeOK, NetworkOK
      <3>2. PlacesOK'
        BY <1>1, <1>5, <2>2, CallbackKeepsPlace
           DEF TypeOK, AcceptLabels, GeneratedLabels
      <3>3. ThreadsOK' /\ HandsOK'
        BY <1>1, <1>3, <2>2, CallbackGoto, CallbackHands DEF TypeOK
      <3> QED
        BY <2>1, <3>1, <3>2, <3>3 DEF TypeOK
    <2>3. CASE /\ CloseConnection(place[t].conn)
               /\ place' = [place EXCEPT ![t] = Nowhere]
               /\ Goto(t, "callbacks")
      <3>1. place[t].conn \in Conns
        BY <1>5 DEF TypeOK, PlacesOK, AcceptLabels
      <3>2. NetworkOK'
        BY <1>3, <1>5, <2>3, <3>1, CloseConnectionType DEF TypeOK
      <3>3. ThreadsOK' /\ HandsOK' /\ PlacesOK'
        BY <1>1, <1>3, <2>3, CallbackGoto, CallbackHands, CallbackLeavesPlace
           DEF TypeOK
      <3> QED
        BY <2>1, <3>2, <3>3 DEF TypeOK
    <2> QED
      BY <1>5, <2>2, <2>3
  <1>6. CASE InsertClient(t)
    <2> USE DEF InsertClient
    <2>1. NetworkOK' /\ QueuesOK'
      BY <1>3, <1>6 DEF TypeOK, NetworkOK, QueuesOK
    <2>2. TablesOK'
      <3>1. mapClients' \in ClientsMap
        BY <1>2, <1>6, ReservedClientType DEF TypeOK, TablesOK, ClientsMap
      <3>2. mapConnections' \in ConnectionsMap /\ boundID' \in [Conns -> UserIDs]
        BY <1>2, <1>6 DEF TypeOK, TablesOK, ConnectionsMap
      <3>3. lock' \in [UserIDs -> Threads \cup {NoThread}]
        BY <1>2, <1>6, ThreadsDiffer DEF UnlockAllBut, TypeOK, TablesOK
      <3> QED
        BY <1>6, <3>1, <3>2, <3>3 DEF TypeOK, TablesOK
    <2>3. PlacesOK'
      BY <1>1, <1>6, CallbackKeepsPlace DEF TypeOK, AcceptLabels, GeneratedLabels
    <2>4. ThreadsOK' /\ HandsOK'
      BY <1>1, <1>3, <1>6, CallbackGoto, CallbackHands DEF TypeOK
    <2> QED
      BY <2>1, <2>2, <2>3, <2>4 DEF TypeOK
  <1>7. CASE BindClient(t)
    <2> USE DEF BindClient
    <2>1. place[t].conn \in Conns
      BY <1>7 DEF TypeOK, PlacesOK, AcceptLabels
    <2>2. NetworkOK'
      BY <1>3, <1>7 DEF TypeOK, NetworkOK
    <2>3. TablesOK'
      <3>1. [connection |-> place[t].conn, userID |-> place[t].id,
             state |-> "Unauthorized"] \in HClient
        BY <1>2, <2>1 DEF HClient, InfoStates
      <3> QED
        BY <1>2, <1>7, <3>1 DEF TypeOK, TablesOK, ClientsMap
    <2>4. QueuesOK'
      <3>1. ToOne(place[t].id, "Unauthorized", place[t].conn, 0, FALSE)
              \in QueuedRequest
        BY <1>2, <2>1, RequestsAreTyped DEF InfoStates, Peers
      <3>2. sendQueue' \in Seq(QueuedRequest)
        BY <1>7, <3>1, QueueRequestType DEF TypeOK, QueuesOK
      <3> QED
        BY <1>3, <3>2 DEF TypeOK, QueuesOK
    <2>5. ThreadsOK' /\ HandsOK' /\ PlacesOK'
      BY <1>1, <1>3, <1>7, CallbackGoto, CallbackHands, CallbackLeavesPlace
         DEF TypeOK
    <2> QED
      BY <2>2, <2>3, <2>4, <2>5 DEF TypeOK
  <1> QED
    BY <1>4, <1>5, <1>6, <1>7

(* Whatever a thread does in a callback keeps the types.                   *)
LEMMA TypeCallbackStep ==
  ASSUME TypeOK, NEW t \in CallbackThreads, CallbackStep(t)
  PROVE  TypeOK'
PROOF
  BY TypeNextCallback, TypeRemoveByConnection, TypeGenerate, TypeAccept
     DEF CallbackStep

(* The loops of the connection thread keep the types.                      *)
LEMMA TypeLoopStep == ASSUME TypeOK, LoopStep PROVE TypeOK'
PROOF
  <1> USE DEF LoopStep, ConnTop, CallbacksDone, IncomingDone, QueuedDone
  <1>1. NetworkOK' /\ TablesOK' /\ QueuesOK'
    BY DEF TypeOK, NetworkOK, TablesOK, QueuesOK, network, tables, queues
  <1>2. PICK label \in {"sweep", "callbacks", "incoming", "queued", "top"} :
          Goto(ConnThread, label)
    BY Zenon
  <1>3. label \in ConnLabels
    BY DEF ConnLabels, CallbackLabels
  <1>4. /\ ThreadsOK' /\ pc'[ConnThread] = label
        /\ \A s \in Threads : s # ConnThread => pc'[s] = pc[s]
    BY <1>2, <1>3, ConnGoto DEF TypeOK
  <1>5. PlacesOK'
    BY <1>4, ThreadsDiffer DEF TypeOK, PlacesOK, AcceptLabels, GeneratedLabels
  <1>6. HandsOK'
    <2>1. polls' \in Nat
      BY DEF TypeOK, HandsOK
    <2> QED
      BY <1>4, <2>1, ThreadsDiffer, ServerAssumption
         DEF TypeOK, HandsOK, SendLabels
  <1> QED
    BY <1>1, <1>4, <1>5, <1>6 DEF TypeOK

(* The id found for a connection is an id.                                 *)
LEMMA FoundIDType ==
  ASSUME TablesOK, NEW conn \in Conns
  PROVE  ClientIDByConnection(mapClients, mapConnections, conn) \in UserIDs
PROOF
  <1>1. mapConnections[conn] \in UserIDs
    BY DEF TablesOK, ConnectionsMap
  <1>2. mapClients[mapConnections[conn]] # NoClient =>
          mapClients[mapConnections[conn]].userID \in UserIDs
    BY <1>1 DEF TablesOK, ClientsMap, HClient
  <1> QED
    BY <1>1, <1>2, RegistryAssumption
       DEF ClientIDByConnection, UserIDs, InvalidUserID

(* Receiving a message keeps the types.                                    *)
LEMMA TypeIncomingStep == ASSUME TypeOK, IncomingStep PROVE TypeOK'
PROOF
  <1>1. /\ "lockClient" \in ConnLabels /\ "incoming" \in ConnLabels
    BY DEF ConnLabels
  <1>2. InvalidUserID \in UserIDs
    BY RegistryAssumption DEF InvalidUserID, UserIDs
  <1>3. ASSUME NEW conn \in Conns, ReceiveMessage(conn)
        PROVE  TypeOK'
    <2> USE DEF ReceiveMessage
    <2>1. inbox[conn] \in Seq(IncomingRequest) /\ inbox[conn] # <<>>
      BY <1>3 DEF TypeOK, NetworkOK
    <2>2. /\ Head(inbox[conn]) \in IncomingRequest
          /\ Tail(inbox[conn]) \in Seq(IncomingRequest)
      BY <2>1
    <2>3. NetworkOK'
      BY <1>3, <2>2 DEF IncomingStep, TypeOK, NetworkOK
    <2>4. TablesOK'
      BY <1>2, <1>3, ThreadsDiffer DEF IncomingStep, TypeOK, TablesOK, tables
    <2>5. QueuesOK'
      BY <1>3 DEF IncomingStep, TypeOK, QueuesOK
    <2>6. /\ ThreadsOK' /\ pc'[ConnThread] = "lockClient"
          /\ \A s \in Threads : s # ConnThread => pc'[s] = pc[s]
      BY <1>1, <1>3, ConnGoto DEF TypeOK
    <2>7. PlacesOK'
      <3> DEFINE id == ClientIDByConnection(mapClients, mapConnections, conn)
      <3>1. id \in UserIDs
        BY FoundIDType DEF TypeOK
      <3>2. place' = [place EXCEPT ![ConnThread] = [conn |-> conn, id |-> id]]
        BY <1>3
      <3> HIDE DEF id
      <3> QED
        BY <2>6, <3>1, <3>2, ThreadsDiffer
           DEF TypeOK, PlacesOK, GeneratedLabels, Peers
    <2>8. HandsOK'
      BY <1>3, <2>2, <2>6, ThreadsDiffer, ServerAssumption
         DEF IncomingStep, TypeOK, HandsOK, SendLabels
    <2> QED
      BY <2>3, <2>4, <2>5, <2>6, <2>7, <2>8 DEF TypeOK
  <1>4. ASSUME PushIncoming PROVE TypeOK'
    <2> USE DEF PushIncoming
    <2>1. NetworkOK'
      BY <1>4 DEF IncomingStep, TypeOK, NetworkOK
    <2>2. TablesOK'
      BY <1>2, <1>4 DEF IncomingStep, TypeOK, TablesOK, tables
    <2>3. /\ ThreadsOK' /\ pc'[ConnThread] = "incoming"
          /\ \A s \in Threads : s # ConnThread => pc'[s] = pc[s]
      BY <1>1, <1>4, ConnGoto DEF TypeOK
    <2>4. QueuesOK'
      <3> DEFINE request ==
            [type |-> received.type, claim |-> received.claim,
             serial |-> received.serial, userID |-> place[ConnThread].id,
             peer |-> place[ConnThread].conn, found |-> FALSE, grant |-> FALSE]
      <3>1. received \in IncomingRequest
        BY <1>4 DEF TypeOK, HandsOK
      <3>2. place[ConnThread].id \in UserIDs /\ place[ConnThread].conn \in Conns
        BY <1>4, ThreadsDiffer DEF TypeOK, PlacesOK
      <3>3. request \in HandledRequest
        BY <3>1, <3>2 DEF HandledRequest, IncomingRequest
      <3>4. \/ handleQueue' = handleQueue
            \/ handleQueue' = Append(handleQueue, request)
        BY <1>4
      <3> HIDE DEF request
      <3>5. handleQueue' \in Seq(HandledRequest)
        BY <3>3, <3>4 DEF TypeOK, QueuesOK
      <3> QED
        BY <1>4, <3>5 DEF IncomingStep, TypeOK, QueuesOK
    <2>5. PlacesOK'
      <3>1. Nowhere \in [conn : Peers, id : UserIDs]
        BY <1>2 DEF Nowhere, Peers
      <3> QED
        BY <1>4, <2>3, <3>1, ThreadsDiffer
           DEF TypeOK, PlacesOK, GeneratedLabels, AcceptLabels
    <2>6. HandsOK'
      BY <1>4, <2>3, ThreadsDiffer, ServerAssumption
         DEF IncomingStep, TypeOK, HandsOK, SendLabels
    <2> QED
      BY <2>1, <2>2, <2>3, <2>4, <2>5, <2>6 DEF TypeOK
  <1> QED
    BY <1>3, <1>4 DEF IncomingStep

(* Sending the queued requests keeps the types.                            *)
LEMMA TypeQueuedStep == ASSUME TypeOK, QueuedStep PROVE TypeOK'
PROOF
  <1>1. /\ {"lookup", "queued", "startAll", "broadcast"} \subseteq ConnLabels
        /\ SendLabels = {"lookup", "startAll", "broadcast"}
        /\ InvalidUserID \in UserIDs
    BY RegistryAssumption DEF ConnLabels, SendLabels, InvalidUserID, UserIDs
  <1>2. UNCHANGED <<connState, callbacks, inbox, serial, tables, handleQueue,
                    pushEnabled, goingExit, received, handling>>
    BY DEF QueuedStep
  <1>3. CASE PopQueued
    <2> USE DEF PopQueued
    <2>1. /\ Head(sendQueue) \in QueuedRequest
          /\ Tail(sendQueue) \in Seq(QueuedRequest)
      BY <1>3 DEF TypeOK, QueuesOK
    <2>2. NetworkOK' /\ TablesOK' /\ QueuesOK'
      BY <1>2, <1>3, <2>1 DEF TypeOK, NetworkOK, TablesOK, QueuesOK, tables
    <2>3. /\ ThreadsOK' /\ pc'[ConnThread] = "lookup"
          /\ \A s \in Threads : s # ConnThread => pc'[s] = pc[s]
      BY <1>1, <1>3, ConnGoto DEF TypeOK
    <2>4. PlacesOK'
      BY <1>3, <2>3, ThreadsDiffer
         DEF TypeOK, PlacesOK, GeneratedLabels, AcceptLabels
    <2>5. HandsOK'
      BY <1>2, <1>3, <2>1, <2>3, ThreadsDiffer, ServerAssumption
         DEF TypeOK, HandsOK
    <2> QED
      BY <2>2, <2>3, <2>4, <2>5 DEF TypeOK
  <1>4. CASE SendToOne
    <2> USE DEF SendToOne
    <2>1. sending \in QueuedRequest
      BY <1>1, <1>4 DEF TypeOK, HandsOK
    <2>2. NetworkOK'
      BY <1>2, <1>4, <2>1, SendToType DEF TypeOK, NetworkOK
    <2>3. TablesOK' /\ QueuesOK'
      BY <1>2, <1>4 DEF TypeOK, TablesOK, QueuesOK, tables
    <2>4. /\ ThreadsOK' /\ pc'[ConnThread] = "queued"
          /\ \A s \in Threads : s # ConnThread => pc'[s] = pc[s]
      BY <1>1, <1>4, ConnGoto DEF TypeOK
    <2>5. PlacesOK' /\ HandsOK'
      BY <1>1, <1>2, <1>4, <2>4, ThreadsDiffer, ServerAssumption
         DEF TypeOK, PlacesOK, HandsOK, GeneratedLabels, AcceptLabels
    <2> QED
      BY <2>2, <2>3, <2>4, <2>5 DEF TypeOK
  <1>5. CASE FindExcluded
    <2> USE DEF FindExcluded
    <2>1. NetworkOK' /\ TablesOK' /\ QueuesOK'
      BY <1>2, <1>5 DEF TypeOK, NetworkOK, TablesOK, QueuesOK, tables
    <2>2. /\ ThreadsOK' /\ pc'[ConnThread] = "startAll"
          /\ \A s \in Threads : s # ConnThread => pc'[s] = pc[s]
      BY <1>1, <1>5, ConnGoto DEF TypeOK
    <2>3. PlacesOK'
      <3>1. sending.userID \in UserIDs
        BY <1>1, <1>5 DEF TypeOK, HandsOK, QueuedRequest
      <3>2. mapClients[sending.userID] # NoClient =>
              mapClients[sending.userID].connection \in Peers
        BY <3>1 DEF TypeOK, TablesOK, ClientsMap, HClient, Peers
      <3>3. PICK conn \in Peers : place' = [place EXCEPT ![ConnThread].conn = conn]
        BY <1>5, <3>2 DEF Peers
      <3> QED
        BY <2>2, <3>3, ThreadsDiffer
           DEF TypeOK, PlacesOK, GeneratedLabels, AcceptLabels
    <2>4. HandsOK'
      BY <1>1, <1>2, <1>5, <2>2, ThreadsDiffer, ServerAssumption
         DEF TypeOK, HandsOK
    <2> QED
      BY <2>1, <2>2, <2>3, <2>4 DEF TypeOK
  <1>6. CASE StartBroadcast
    <2> USE DEF StartBroadcast
    <2>1. NetworkOK' /\ QueuesOK'
      BY <1>2, <1>6 DEF TypeOK, NetworkOK, QueuesOK
    <2>2. TablesOK'
      BY <1>1, <1>2, <1>6, ThreadsDiffer DEF TypeOK, TablesOK, tables
    <2>3. /\ ThreadsOK' /\ pc'[ConnThread] = "broadcast"
          /\ \A s \in Threads : s # ConnThread => pc'[s] = pc[s]
      BY <1>1, <1>6, ConnGoto DEF TypeOK
    <2>4. PlacesOK' /\ HandsOK'
      BY <1>1, <1>2, <1>6, <2>3, ThreadsDiffer, ServerAssumption
         DEF TypeOK, PlacesOK, HandsOK, GeneratedLabels, AcceptLabels
    <2> QED
      BY <2>1, <2>2, <2>3, <2>4 DEF TypeOK
  <1>7. ASSUME NEW id \in UserIDs, BroadcastTo(id) PROVE TypeOK'
    <2> USE DEF BroadcastTo
    <2>1. sending \in QueuedRequest
      BY <1>1, <1>7 DEF TypeOK, HandsOK
    <2>2. NetworkOK'
      BY <1>2, <1>7, <2>1, SendToType DEF TypeOK, NetworkOK
    <2>3. TablesOK' /\ QueuesOK' /\ ThreadsOK' /\ HandsOK'
      BY <1>2, <1>7 DEF TypeOK, TablesOK, QueuesOK, ThreadsOK, HandsOK, tables
    <2>4. PlacesOK'
      BY <1>7, ThreadsDiffer
         DEF TypeOK, PlacesOK, GeneratedLabels, AcceptLabels
    <2> QED
      BY <2>2, <2>3, <2>4 DEF TypeOK
  <1>8. CASE EndBroadcast
    <2> USE DEF EndBroadcast
    <2>1. NetworkOK' /\ QueuesOK'
      BY <1>2, <1>8 DEF TypeOK, NetworkOK, QueuesOK
    <2>2. TablesOK'
      BY <1>1, <1>2, <1>8 DEF TypeOK, TablesOK, tables
    <2>3. /\ ThreadsOK' /\ pc'[ConnThread] = "queued"
          /\ \A s \in Threads : s # ConnThread => pc'[s] = pc[s]
      BY <1>1, <1>8, ConnGoto DEF TypeOK
    <2>4. Nowhere \in [conn : Peers, id : UserIDs]
      BY <1>1 DEF Nowhere, Peers
    <2>5. PlacesOK' /\ HandsOK'
      BY <1>1, <1>2, <1>8, <2>3, <2>4, ThreadsDiffer, ServerAssumption
         DEF TypeOK, PlacesOK, HandsOK, GeneratedLabels, AcceptLabels
    <2> QED
      BY <2>1, <2>2, <2>3, <2>5 DEF TypeOK
  <1> QED
    BY <1>3, <1>4, <1>5, <1>6, <1>7, <1>8 DEF QueuedStep

(* The shutdown keeps the types.                                           *)
LEMMA TypeShutdownStep == ASSUME TypeOK, ShutdownStep PROVE TypeOK'
PROOF
  <1>1. {"kill", "exited"} \subseteq ConnLabels /\ InvalidUserID \in UserIDs
    BY RegistryAssumption DEF ConnLabels, InvalidUserID, UserIDs
  <1>2. PICK label \in {"kill", "exited"} : Goto(ConnThread, label)
    BY Zenon DEF ShutdownStep, Sweep, KillInterface
  <1>3. /\ ThreadsOK' /\ pc'[ConnThread] = label
        /\ \A s \in Threads : s # ConnThread => pc'[s] = pc[s]
    BY <1>1, <1>2, ConnGoto DEF TypeOK
  <1>4. PlacesOK' /\ HandsOK'
    BY <1>3, ThreadsDiffer, ServerAssumption
       DEF ShutdownStep, work, TypeOK, PlacesOK, HandsOK, GeneratedLabels,
           AcceptLabels, SendLabels
  <1>5. QueuesOK'
    BY DEF ShutdownStep, queues, TypeOK, QueuesOK
  <1>6. TablesOK'
    BY <1>1
       DEF ShutdownStep, Sweep, KillInterface, tables, TypeOK, TablesOK,
           ClientsMap, ConnectionsMap
  <1>7. NetworkOK'
    <2>1. CASE Sweep
      <3>1. outbox' \in [Conns -> Seq(QueuedRequest)]
        <4>1. PICK told : outbox' = [c \in Conns |->
                 IF c \in told /\ connState[c] = "Connected"
                 THEN Append(outbox[c], Goodbye(c)) ELSE outbox[c]]
          BY <2>1, Zenon DEF Sweep
        <4>2. \A c \in Conns : Goodbye(c) \in QueuedRequest
          BY RequestsAreTyped
        <4> QED
          BY <4>1, <4>2 DEF TypeOK, NetworkOK
      <3>2. connState' \in [Conns -> {"Unused", "Connecting", "Connected",
                                     "Closed", "Dead"}]
        BY <2>1 DEF Sweep, TypeOK, NetworkOK
      <3>3. inbox' \in [Conns -> Seq(IncomingRequest)]
        BY <2>1 DEF Sweep, TypeOK, NetworkOK
      <3> QED
        BY <2>1, <3>1, <3>2, <3>3 DEF Sweep, ShutdownStep, TypeOK, NetworkOK
    <2>2. CASE KillInterface
      BY <2>2 DEF KillInterface, ShutdownStep, TypeOK, NetworkOK
    <2> QED
      BY <2>1, <2>2 DEF ShutdownStep
  <1> QED
    BY <1>3, <1>4, <1>5, <1>6, <1>7 DEF TypeOK

(* A ClientInfo stored by the request thread is one: the entry of a client *)
(* with its state and id replaced.                                         *)
LEMMA TypeStoreAndAnswer ==
  ASSUME TypeOK, NEW awaited \in BOOLEAN, StoreAndAnswer(awaited)
  PROVE  mapClients' \in ClientsMap /\ sendQueue' \in Seq(QueuedRequest)
PROOF
  <1> DEFINE id == handling.userID
             client == mapClients[id]
             info == IF handling.grant
                     THEN [client EXCEPT !.state = "Active", !.userID = id]
                     ELSE client
  <1>1. id \in UserIDs /\ handling.peer \in Peers /\ handling.serial \in Nat
    BY DEF StoreAndAnswer, TypeOK, HandsOK, HandleLabels, HandledRequest, Peers
  <1>2. client \in HClient
    BY <1>1 DEF StoreAndAnswer, TypeOK, TablesOK, ClientsMap
  <1>3. info \in HClient /\ info.state \in InfoStates
    BY <1>1, <1>2 DEF HClient, InfoStates
  <1>4. /\ mapClients' = [mapClients EXCEPT ![id] = info]
        /\ QueueRequest(ToOne(id, info.state, handling.peer, handling.serial,
                              awaited))
    BY Zenon DEF StoreAndAnswer
  <1> HIDE DEF info, client, id
  <1>5. mapClients' \in ClientsMap
    BY <1>1, <1>3, <1>4 DEF TypeOK, TablesOK, ClientsMap
  <1>6. ToOne(id, info.state, handling.peer, handling.serial, awaited)
          \in QueuedRequest
    BY <1>1, <1>3, RequestsAreTyped
  <1> QED
    BY <1>4, <1>5, <1>6, QueueRequestType DEF TypeOK, QueuesOK

(* Handling requests keeps the types.                                      *)
LEMMA TypeReqStep == ASSUME TypeOK, ReqStep PROVE TypeOK'
PROOF
  <1> USE DEF Handled
  <1>1. UNCHANGED <<KeptByRequests, lock>>
    BY DEF ReqStep
  <1>2. NetworkOK'
    BY <1>1 DEF KeptByRequests, network, TypeOK, NetworkOK
  <1>3. mapClients' \in ClientsMap => TablesOK'
    BY <1>1 DEF KeptByRequests, TypeOK, TablesOK
  <1>4. /\ sendQueue' \in Seq(QueuedRequest)
        /\ handleQueue' \in Seq(HandledRequest)
        => QueuesOK'
    BY <1>1 DEF KeptByRequests, TypeOK, QueuesOK
  <1>5. ASSUME NEW label \in ReqLabels, Goto(ReqThread, label),
               label \in HandleLabels => handling' \in HandledRequest
        PROVE  ThreadsOK' /\ PlacesOK' /\ HandsOK'
    <2>1. /\ ThreadsOK' /\ pc'[ReqThread] = label
          /\ \A s \in Threads : s # ReqThread => pc'[s] = pc[s]
      BY <1>5, ReqGoto DEF TypeOK
    <2>2. PlacesOK'
      BY <1>1, <2>1, ThreadsDiffer DEF KeptByRequests, TypeOK, PlacesOK
    <2>3. HandsOK'
      BY <1>1, <1>5, <2>1, ThreadsDiffer, ServerAssumption
         DEF KeptByRequests, TypeOK, HandsOK
    <2> QED
      BY <2>1, <2>2, <2>3
  <1>6. /\ {"top", "drain", "exited"} \subseteq ReqLabels \ HandleLabels
        /\ {"ClientInfo", "authorize", "Message", "forward"} \subseteq ReqLabels
    BY DEF ReqLabels, HandleLabels
  <1>7. /\ mapClients \in ClientsMap
        /\ sendQueue \in Seq(QueuedRequest)
        /\ handleQueue \in Seq(HandledRequest)
    BY DEF TypeOK, TablesOK, QueuesOK
  <1>8. pc[ReqThread] \in HandleLabels => handling \in HandledRequest
    BY DEF TypeOK, HandsOK
  <1>9. CASE RequestTop
    BY <1>2, <1>3, <1>4, <1>5, <1>6, <1>7, <1>9 DEF RequestTop, TypeOK
  <1>10. CASE DrainDone
    BY <1>2, <1>3, <1>4, <1>5, <1>6, <1>7, <1>10 DEF DrainDone, TypeOK
  <1>11. CASE PopHandle
    <2> DEFINE request == Head(handleQueue)
    <2>1. request \in HandledRequest /\ Tail(handleQueue) \in Seq(HandledRequest)
      BY <1>7, <1>11 DEF PopHandle
    <2>2. QueuesOK' /\ TablesOK'
      BY <1>3, <1>4, <1>7, <1>11, <2>1 DEF PopHandle
    <2>3. CASE request.type \in {"ClientInfo", "Message"}
      <3>1. handling' = request /\ Goto(ReqThread, request.type)
        BY <1>11, <2>3 DEF PopHandle
      <3> HIDE DEF request
      <3> QED
        BY <1>2, <1>5, <1>6, <2>1, <2>2, <2>3, <3>1 DEF TypeOK
    <2>4. CASE request.type \notin {"ClientInfo", "Message"}
      <3>1. UNCHANGED <<handling, pc>>
        BY <1>11, <2>4 DEF PopHandle
      <3> QED
        BY <1>1, <1>2, <2>2, <3>1
           DEF KeptByRequests, TypeOK, ThreadsOK, PlacesOK, HandsOK
    <2> QED
      BY <2>3, <2>4
  <1>12. CASE JudgeClientInfo
    <2>1. handling \in HandledRequest
      BY <1>8, <1>12 DEF JudgeClientInfo, HandleLabels
    <2>2. QueuesOK' /\ TablesOK'
      BY <1>3, <1>4, <1>7, <1>12 DEF JudgeClientInfo
    <2>3. PICK grant \in BOOLEAN :
            \/ Handled
            \/ /\ handling' = [handling EXCEPT !.grant = grant]
               /\ Goto(ReqThread, "authorize")
      BY <1>12, Zenon DEF JudgeClientInfo
    <2>4. [handling EXCEPT !.grant = grant] \in HandledRequest
      BY <2>1 DEF HandledRequest
    <2> QED
      BY <1>2, <1>5, <1>6, <2>2, <2>3, <2>4 DEF TypeOK
  <1>13. CASE Authorize
    <2>1. mapClients' \in ClientsMap /\ sendQueue' \in Seq(QueuedRequest)
      BY <1>13, TypeStoreAndAnswer DEF Authorize
    <2>2. QueuesOK' /\ TablesOK'
      BY <1>3, <1>4, <1>7, <1>13, <2>1 DEF Authorize, StoreAndAnswer
    <2> QED
      BY <1>2, <1>5, <1>6, <1>13, <2>2 DEF Authorize, TypeOK
  <1>14. CASE AuthorizeNobody
    BY <1>2, <1>3, <1>4, <1>5, <1>6, <1>7, <1>14 DEF AuthorizeNobody, TypeOK
  <1>15. CASE FindAuthor
    <2>1. handling \in HandledRequest
      BY <1>8, <1>15 DEF FindAuthor, HandleLabels
    <2>2. PICK found \in BOOLEAN : handling' = [handling EXCEPT !.found = found]
      BY <1>15, Zenon DEF FindAuthor
    <2>3. handling' \in HandledRequest
      BY <2>1, <2>2 DEF HandledRequest
    <2> QED
      BY <1>2, <1>3, <1>4, <1>5, <1>6, <1>7, <1>15, <2>3 DEF FindAuthor, TypeOK
  <1>16. CASE ForwardMessage
    <2>1. handling \in HandledRequest
      BY <1>8, <1>16 DEF ForwardMessage, HandleLabels
    <2>2. ToAll(handling.userID, TRUE, handling.peer, handling.serial)
            \in QueuedRequest
      BY <2>1, RequestsAreTyped DEF HandledRequest, Peers
    <2>3. sendQueue' \in Seq(QueuedRequest)
      BY <1>7, <1>16, <2>2, QueueRequestType DEF ForwardMessage
    <2> QED
      BY <1>2, <1>3, <1>4, <1>5, <1>6, <1>7, <1>16, <2>3 DEF ForwardMessage, TypeOK
  <1> QED
    BY <1>9, <1>10, <1>11, <1>12, <1>13, <1>14, <1>15, <1>16 DEF ReqStep

(* What the users do keeps the types.                                      *)
LEMMA TypeUserStep ==
  ASSUME TypeOK, NEW u \in UserThreads, UserStep(u)
  PROVE  TypeOK'
PROOF
  <1>1. UNCHANGED <<callbacks, outbox, lastFreeID, boundID, lock, handleQueue, work>>
    BY DEF UserStep
  <1>2. UNCHANGED pc => ThreadsOK' /\ PlacesOK' /\ HandsOK'
    BY <1>1 DEF work, TypeOK, ThreadsOK, PlacesOK, HandsOK
  <1>3. UNCHANGED <<connState, inbox, serial>> => NetworkOK'
    BY <1>1 DEF TypeOK, NetworkOK
  <1>4. mapClients' \in ClientsMap /\ mapConnections' \in ConnectionsMap => TablesOK'
    BY <1>1 DEF TypeOK, TablesOK
  <1>5. mapClients \in ClientsMap /\ mapConnections \in ConnectionsMap
    BY DEF TypeOK, TablesOK
  <1>6. UNCHANGED <<sendQueue, pushEnabled, goingExit>> => QueuesOK'
    BY <1>1 DEF TypeOK, QueuesOK
  <1>7. ASSUME NEW label \in {"idle", "closing"}, Goto(u, label)
        PROVE  ThreadsOK' /\ PlacesOK' /\ HandsOK'
    <2>1. /\ pc' \in [Threads -> ConnLabels \cup ReqLabels \cup {"idle", "closing"}]
          /\ pc'[u] = label
          /\ \A s \in Threads : s # u => pc'[s] = pc[s]
      BY <1>7, ThreadsDiffer DEF Goto, TypeOK, ThreadsOK
    <2>2. /\ \A t \in CallbackThreads : pc'[t] = pc[t]
          /\ pc'[ReqThread] = pc[ReqThread]
      BY <2>1, ThreadsDiffer
    <2>3. ThreadsOK'
      BY <2>1, <2>2, ThreadsDiffer DEF TypeOK, ThreadsOK, CallbackThreads
    <2> QED
      BY <1>1, <2>2, <2>3, ThreadsDiffer DEF work, TypeOK, PlacesOK, HandsOK
  <1>8. ASSUME NEW id \in UserIDs, UserRemovesClient(u, id) PROVE TypeOK'
    <2> DEFINE conn == mapClients[id].connection
    <2>1. conn = NoConn \/ conn \in Conns
      BY <1>5, <1>8 DEF UserRemovesClient, ClientsMap, HClient
    <2>2. NetworkOK'
      BY <1>1, <1>3, <1>8, <2>1, CloseConnectionType DEF UserRemovesClient, TypeOK
    <2>3. Erase(conn, id)
      BY <1>8 DEF UserRemovesClient
    <2>4. TablesOK'
      BY <1>4, <2>3, EraseType DEF TypeOK
    <2> QED
      BY <1>2, <1>6, <1>8, <2>2, <2>4 DEF UserRemovesClient, TypeOK
  <1>9. ASSUME NEW id \in UserIDs, UserReservesID(u, id) PROVE TypeOK'
    BY <1>2, <1>3, <1>4, <1>5, <1>6, <1>9, ReserveType DEF UserReservesID, TypeOK
  <1>10. ASSUME NEW currentID \in UserIDs, NEW newID \in UserIDs,
                UserChangesID(u, currentID, newID)
         PROVE  TypeOK'
    <2>1. mapClients' \in ClientsMap /\ mapConnections' \in ConnectionsMap
      BY <1>5, <1>10, ChangeType DEF UserChangesID
    <2> QED
      BY <1>2, <1>3, <1>4, <1>6, <1>10, <2>1 DEF UserChangesID, TypeOK
  <1>11. ASSUME UserSends(u) PROVE TypeOK'
    <2>1. NetworkOK'
      BY <1>1, <1>11 DEF UserSends, TypeOK, NetworkOK
    <2>2. sendQueue' \in Seq(QueuedRequest)
      <3>1. PICK activeOnly \in BOOLEAN :
              \/ QueueRequest(ToAll(InvalidUserID, activeOnly, NoConn, serial + 1))
              \/ \E id \in UserIDs :
                   /\ GetUserIDState(mapClients, id) = "Busy" /\ ~IsLibReservedID(id)
                   /\ QueueRequest([ToOne(id, mapClients[id].state,
                           mapClients[id].connection, serial + 1, FALSE)
                         EXCEPT !.activeOnly = activeOnly])
        BY <1>11, Zenon DEF UserSends
      <3>2. serial + 1 \in Nat /\ sendQueue \in Seq(QueuedRequest)
        BY DEF TypeOK, NetworkOK, QueuesOK
      <3>3. ToAll(InvalidUserID, activeOnly, NoConn, serial + 1) \in QueuedRequest
        BY <3>2, RequestsAreTyped, RegistryAssumption
           DEF InvalidUserID, UserIDs, Peers
      <3>4. ASSUME NEW id \in UserIDs, GetUserIDState(mapClients, id) = "Busy",
                   ~IsLibReservedID(id)
            PROVE  [ToOne(id, mapClients[id].state, mapClients[id].connection,
                          serial + 1, FALSE) EXCEPT !.activeOnly = activeOnly]
                     \in QueuedRequest
        <4>1. mapClients[id] \in HClient
          BY <1>5, <3>4 DEF GetUserIDState, ClientsMap
        <4>2. ToOne(id, mapClients[id].state, mapClients[id].connection,
                    serial + 1, FALSE) \in QueuedRequest
          BY <3>2, <4>1, RequestsAreTyped DEF HClient, Peers
        <4> HIDE DEF ToOne
        <4> QED
          BY <4>2 DEF QueuedRequest
      <3> QED
        BY <3>1, <3>2, <3>3, <3>4, QueueRequestType
    <2> QED
      BY <1>1, <1>2, <1>4, <1>5, <1>11, <2>1, <2>2
         DEF UserSends, TypeOK, QueuesOK
  <1>12. ASSUME UserDisablesPush(u) PROVE TypeOK'
    <2>1. QueuesOK'
      BY <1>1, <1>12 DEF UserDisablesPush, TypeOK, QueuesOK
    <2> QED
      BY <1>3, <1>4, <1>5, <1>7, <1>12, <2>1 DEF UserDisablesPush, TypeOK
  <1>13. ASSUME UserSetsGoingExit(u) PROVE TypeOK'
    <2>1. QueuesOK'
      BY <1>1, <1>13 DEF UserSetsGoingExit, TypeOK, QueuesOK
    <2> QED
      BY <1>3, <1>4, <1>5, <1>7, <1>13, <2>1 DEF UserSetsGoingExit, TypeOK
  <1> QED
    BY <1>8, <1>9, <1>10, <1>11, <1>12, <1>13 DEF UserStep

(* Every step keeps the types.                                             *)
LEMMA TypeStep == TypeOK /\ [Next]_vars => TypeOK'
PROOF
  <1> SUFFICES ASSUME TypeOK, [Next]_vars PROVE TypeOK'
    OBVIOUS
  <1>1. ASSUME UNCHANGED vars PROVE TypeOK'
    BY <1>1 DEF vars, network, tables, queues, work, TypeOK, NetworkOK,
                TablesOK, QueuesOK, ThreadsOK, PlacesOK, HandsOK
  <1>2. ASSUME ConnStep PROVE TypeOK'
    BY <1>2, ThreadsDiffer, TypeCallbackStep, TypeLoopStep, TypeIncomingStep,
       TypeQueuedStep, TypeShutdownStep
       DEF ConnStep
  <1>3. ASSUME NEW t \in OtherCallbackThreads, CallbackStep(t) PROVE TypeOK'
    BY <1>3, TypeCallbackStep DEF CallbackThreads
  <1> QED
    BY <1>1, <1>2, <1>3, TypeEnvironment, TypeReqStep, TypeUserStep
       DEF Next, Terminated

(* Type correctness of the server, for any number of connections, threads  *)
(* that run callbacks, users and requests.                                 *)
THEOREM TypeCorrect == Spec => []TypeOK
PROOF
  BY TypeInit, TypeStep, PTL DEF Spec

-----------------------------------------------------------------------------
(* AcceptClient finds the entry it has inserted.  BindFindsEntry is not    *)
(* inductive: the entry stays because the thread holds the lock of its id, *)
(* and whoever erases entries needs every lock.                            *)

BindOwnsID ==
  \A t \in CallbackThreads :
    pc[t] = "bind" =>
      lock[place[t].id] = t /\ mapClients[place[t].id] # NoClient

(* While a thread is between insertion and binding, nobody gets all locks. *)
LEMMA BindBlocksAll ==
  ASSUME TypeOK, BindOwnsID, AllFree, NEW t \in CallbackThreads
  PROVE  pc[t] # "bind"
PROOF
  <1>1. place[t].id \in UserIDs
    BY DEF TypeOK, PlacesOK
  <1>2. t \in Threads /\ NoThread \notin Threads
    BY ThreadsDiffer, ServerAssumption
  <1> QED
    BY <1>1, <1>2 DEF BindOwnsID, AllFree, IsFree

(* What a step must respect: who is binding, where, with which lock and    *)
(* which entry.                                                            *)
LEMMA BindKept ==
  ASSUME TypeOK, BindOwnsID,
         NEW T \in SUBSET CallbackThreads,
         \A t \in CallbackThreads \ T : pc'[t] = pc[t] /\ place'[t] = place[t],
         \A t \in T : pc'[t] # "bind",
         \A t \in CallbackThreads \ T : pc[t] = "bind" =>
           /\ lock'[place[t].id] = lock[place[t].id]
           /\ mapClients[place[t].id] # NoClient => mapClients'[place[t].id] # NoClient
  PROVE  BindOwnsID'
PROOF
  BY DEF BindOwnsID

(* Ids given out are not the library's, in particular not 0.               *)
LEMMA BindNotZero ==
  ASSUME TypeOK, NEW t \in CallbackThreads, pc[t] = "bind"
  PROVE  place[t].id \in UserIDs /\ place[t].id # InvalidUserID
PROOF
  BY RegistryAssumption
     DEF TypeOK, PlacesOK, GeneratedLabels, IsLibReservedID, InvalidUserID

(* Reserving an id erases no entry.                                        *)
LEMMA ReserveErasesNothing ==
  ASSUME NEW clients \in ClientsMap, NEW id \in UserIDs, NEW other \in UserIDs,
         clients[other] # NoClient
  PROVE  ReserveUserID(clients, id)[other] = clients[other]
PROOF
  <1>1. id = other => GetUserIDState(clients, id) # "Free"
    BY DEF GetUserIDState
  <1> QED
    BY <1>1 DEF ReserveUserID, ClientsMap

(* In a callback a thread moves no other.                                  *)
LEMMA CallbackMovesOne ==
  ASSUME TypeOK, NEW t \in CallbackThreads, CallbackStep(t)
  PROVE  \A s \in CallbackThreads : s # t =>
           pc'[s] = pc[s] /\ place'[s] = place[s]
PROOF
  <1>1. /\ pc \in [Threads -> ConnLabels \cup ReqLabels \cup {"idle", "closing"}]
        /\ place \in [CallbackThreads -> [conn : Peers, id : UserIDs]]
    BY DEF TypeOK, ThreadsOK, PlacesOK
  <1>2. \/ UNCHANGED pc
        \/ \E label : Goto(t, label)
    BY Zenon DEF CallbackStep, OnConnecting, OnClosedWhileConnecting,
         OnClosedWhileConnected, RemoveClientByConnection,
         SkipTakenID, ReadTakenID, PassTakenID,
         FindFreeID, TakeID, AdvanceID, ReserveGeneratedID, PreAcceptClient,
         InsertClient, BindClient
  <1>3. \/ UNCHANGED place
        \/ \E conn : place' = [place EXCEPT ![t].conn = conn]
        \/ \E id : place' = [place EXCEPT ![t].id = id]
        \/ place' = [place EXCEPT ![t] = Nowhere]
    BY Zenon DEF CallbackStep, OnConnecting, OnClosedWhileConnecting,
         OnClosedWhileConnected, RemoveClientByConnection,
         SkipTakenID, ReadTakenID, PassTakenID,
         FindFreeID, TakeID, AdvanceID, ReserveGeneratedID, PreAcceptClient,
         InsertClient, BindClient
  <1>4. \A s \in CallbackThreads : s # t => pc'[s] = pc[s]
    BY <1>1, <1>2, ThreadsDiffer DEF Goto
  <1>5. \A s \in CallbackThreads : s # t => place'[s] = place[s]
    BY <1>1, <1>3
  <1> QED
    BY <1>4, <1>5

(* Callbacks respect those who bind.                                       *)
LEMMA BindCallbackStep ==
  ASSUME TypeOK, BindOwnsID, NEW t \in CallbackThreads, CallbackStep(t)
  PROVE  BindOwnsID'
PROOF
  <1>1. \A s \in CallbackThreads \ {t} : pc'[s] = pc[s] /\ place'[s] = place[s]
    BY CallbackMovesOne
  <1>2. pc \in [Threads -> ConnLabels \cup ReqLabels \cup {"idle", "closing"}]
        /\ t \in Threads
    BY ThreadsDiffer DEF TypeOK, ThreadsOK
  <1>3. place[t].id \in UserIDs /\ mapClients \in ClientsMap
        /\ lock \in [UserIDs -> Threads \cup {NoThread}]
    BY DEF TypeOK, PlacesOK, TablesOK
  <1>4. ASSUME UNCHANGED <<mapClients, lock>>, pc'[t] # "bind"
        PROVE  BindOwnsID'
    <2> {t} \in SUBSET CallbackThreads
      OBVIOUS
    <2> QED
      BY <1>1, <1>4, BindKept
  <1>5. CASE \/ OnConnecting(t) \/ OnClosedWhileConnecting(t)
             \/ OnClosedWhileConnected(t)
    <2>1. UNCHANGED <<mapClients, lock>>
      BY <1>5 DEF OnConnecting, OnClosedWhileConnecting, OnClosedWhileConnected,
                  NextCallback, tables
    <2>2. pc'[t] # "bind"
      BY <1>2, <1>5 DEF Goto, OnConnecting, OnClosedWhileConnecting,
                        OnClosedWhileConnected, NextCallback
    <2> QED
      BY <1>4, <2>1, <2>2
  <1>6. CASE \/ SkipTakenID(t) \/ ReadTakenID(t) \/ PassTakenID(t)
             \/ FindFreeID(t) \/ TakeID(t) \/ AdvanceID(t)
             \/ PreAcceptClient(t)
    <2>1. UNCHANGED <<mapClients, lock>>
      BY <1>6 DEF SkipTakenID, ReadTakenID, PassTakenID,
                  FindFreeID, TakeID, AdvanceID, PreAcceptClient,
                  tables
    <2>2. pc'[t] # "bind"
      BY <1>2, <1>6 DEF Goto, SkipTakenID, ReadTakenID, PassTakenID,
                        FindFreeID, TakeID, AdvanceID,
                        PreAcceptClient
    <2> QED
      BY <1>4, <2>1, <2>2
  <1>7. CASE RemoveClientByConnection(t)
    <2>1. AllFree /\ pc'[t] # "bind"
      BY <1>2, <1>7 DEF RemoveClientByConnection, Goto
    <2> QED
      BY <1>1, <2>1, BindBlocksAll DEF BindOwnsID
  <1>8. CASE ReserveGeneratedID(t)
    <2>1. /\ mapClients' = ReserveUserID(mapClients, place[t].id)
          /\ lock' = lock /\ pc'[t] # "bind"
      BY <1>2, <1>8 DEF ReserveGeneratedID, Goto
    <2>2. \A other \in UserIDs : mapClients[other] # NoClient =>
            mapClients'[other] # NoClient
      BY <1>3, <2>1, ReserveErasesNothing
    <2>3. \A s \in CallbackThreads : place[s].id \in UserIDs
      BY DEF TypeOK, PlacesOK
    <2> QED
      BY <1>1, <2>1, <2>2, <2>3 DEF BindOwnsID
  <1>9. CASE InsertClient(t)
    <2>1. AllFree /\ place' = place
      BY <1>9 DEF InsertClient
    <2>2. \A s \in CallbackThreads \ {t} : pc'[s] # "bind"
      BY <1>1, <2>1, BindBlocksAll
    <2>3. lock'[place[t].id] = t
      BY <1>3, <1>9 DEF InsertClient, UnlockAllBut
    <2>4. mapClients'[place[t].id] # NoClient
      BY <1>3, <1>9, ReservedClientType, NoClientAssumption
         DEF InsertClient, ClientsMap
    <2> QED
      BY <2>1, <2>2, <2>3, <2>4 DEF BindOwnsID
  <1>10. CASE BindClient(t)
    <2>1. pc'[t] # "bind" /\ pc[t] = "bind"
      BY <1>2, <1>10 DEF BindClient, Goto
    <2>2. \A s \in CallbackThreads \ {t} :
            pc[s] = "bind" => place[s].id # place[t].id
      BY <2>1 DEF BindOwnsID
    <2>3. \A s \in CallbackThreads : place[s].id \in UserIDs
      BY DEF TypeOK, PlacesOK
    <2>4. \A id \in UserIDs : id # place[t].id =>
            lock'[id] = lock[id] /\ mapClients'[id] = mapClients[id]
      BY <1>3, <1>10 DEF BindClient, ClientsMap
    <2> QED
      BY <1>1, <2>1, <2>2, <2>3, <2>4 DEF BindOwnsID
  <1> QED
    BY <1>5, <1>6, <1>7, <1>8, <1>9, <1>10 DEF CallbackStep

(* Outside callbacks the connection thread accepts nobody, and hands out   *)
(* no id.                                                                  *)
LEMMA ConnOutside ==
  ASSUME TypeOK, LoopStep \/ IncomingStep \/ QueuedStep \/ ShutdownStep
  PROVE  /\ pc[ConnThread] \notin AcceptLabels
         /\ pc'[ConnThread] \notin AcceptLabels
         /\ \A t \in CallbackThreads : t # ConnThread =>
              pc'[t] = pc[t] /\ place'[t] = place[t]
         /\ UNCHANGED <<lastFreeID, boundID>>
PROOF
  <1>1. /\ place \in [CallbackThreads -> [conn : Peers, id : UserIDs]]
        /\ pc \in [Threads -> ConnLabels \cup ReqLabels \cup {"idle", "closing"}]
    BY DEF TypeOK, PlacesOK, ThreadsOK
  <1>2. \E label \in {"top", "callbacks", "incoming", "queued", "sweep", "kill",
                     "lockClient", "lookup", "startAll", "broadcast", "exited"} :
          Goto(ConnThread, label) \/ (UNCHANGED pc /\ pc[ConnThread] = label)
    BY Zenon DEF LoopStep, ConnTop, CallbacksDone, IncomingDone, QueuedDone,
         IncomingStep, ReceiveMessage, PushIncoming, QueuedStep, PopQueued,
         SendToOne, FindExcluded, StartBroadcast, BroadcastTo, EndBroadcast,
         ShutdownStep, Sweep, KillInterface
  <1>3. /\ pc'[ConnThread] \notin AcceptLabels
        /\ \A t \in CallbackThreads : t # ConnThread => pc'[t] = pc[t]
    BY <1>1, <1>2, ThreadsDiffer DEF Goto, AcceptLabels
  <1>4. pc[ConnThread] \notin AcceptLabels
    BY DEF LoopStep, ConnTop, CallbacksDone, IncomingDone, QueuedDone,
         IncomingStep, ReceiveMessage, PushIncoming, QueuedStep, PopQueued,
         SendToOne, FindExcluded, StartBroadcast, BroadcastTo, EndBroadcast,
         ShutdownStep, Sweep, KillInterface, AcceptLabels
  <1>5. \/ UNCHANGED place
        \/ \E new : place' = [place EXCEPT ![ConnThread] = new]
        \/ \E conn : place' = [place EXCEPT ![ConnThread].conn = conn]
        \/ \E id : place' = [place EXCEPT ![ConnThread].id = id]
    BY Zenon DEF LoopStep, IncomingStep, ReceiveMessage, PushIncoming,
         QueuedStep, PopQueued, SendToOne, FindExcluded, StartBroadcast,
         BroadcastTo, EndBroadcast, ShutdownStep, work
  <1>6. \A t \in CallbackThreads : t # ConnThread => place'[t] = place[t]
    BY <1>1, <1>5
  <1>7. UNCHANGED <<lastFreeID, boundID>>
    BY DEF LoopStep, IncomingStep, QueuedStep, ShutdownStep, Sweep,
           KillInterface, tables
  <1> QED
    BY <1>3, <1>4, <1>6, <1>7

(* The request thread and the users move no thread that runs callbacks.    *)
LEMMA OthersStay ==
  ASSUME TypeOK, ReqStep \/ \E u \in UserThreads : UserStep(u)
  PROVE  /\ \A t \in CallbackThreads : pc'[t] = pc[t]
         /\ UNCHANGED <<place, lock, lastFreeID, boundID, callbacks>>
PROOF
  <1>1. \/ UNCHANGED pc
        \/ \E t \in UserThreads \cup {ReqThread} : \E label : Goto(t, label)
    <2>1. ReqStep => UNCHANGED pc \/ \E label : Goto(ReqThread, label)
      BY Zenon DEF ReqStep, RequestTop, DrainDone, PopHandle, JudgeClientInfo,
           Authorize, AuthorizeNobody, FindAuthor, ForwardMessage, Handled
    <2>2. \A u \in UserThreads :
            UserStep(u) => UNCHANGED pc \/ \E label : Goto(u, label)
      BY Zenon DEF UserStep, UserRemovesClient, UserReservesID, UserChangesID,
           UserSends, UserDisablesPush, UserSetsGoingExit
    <2> QED
      BY <2>1, <2>2
  <1>2. \A t \in CallbackThreads : pc'[t] = pc[t]
    BY <1>1, ThreadsDiffer DEF Goto, TypeOK, ThreadsOK
  <1>3. UNCHANGED <<place, lock, lastFreeID, boundID, callbacks>>
    BY DEF ReqStep, KeptByRequests, network, UserStep, work
  <1> QED
    BY <1>2, <1>3

(* The rest of the connection thread: it is not binding, locks and unlocks *)
(* id 0 only, and erases entries under all locks.                          *)
LEMMA BindConnStep ==
  ASSUME TypeOK, BindOwnsID,
         LoopStep \/ IncomingStep \/ QueuedStep \/ ShutdownStep
  PROVE  BindOwnsID'
PROOF
  <1>1. /\ pc'[ConnThread] # "bind"
        /\ \A t \in CallbackThreads : t # ConnThread =>
             pc'[t] = pc[t] /\ place'[t] = place[t]
    BY ConnOutside DEF AcceptLabels
  <1>2. CASE \/ LoopStep \/ IncomingStep \/ QueuedStep
             \/ (KillInterface /\ UNCHANGED lock)
    <2>1. mapClients' = mapClients
      BY <1>2 DEF LoopStep, IncomingStep, QueuedStep, KillInterface, tables
    <2>2. \/ UNCHANGED lock
          \/ \E t \in {ConnThread, NoThread} :
                 lock' = [lock EXCEPT ![InvalidUserID] = t]
      BY <1>2, Zenon
         DEF LoopStep, IncomingStep, ReceiveMessage, PushIncoming, QueuedStep,
             PopQueued, SendToOne, FindExcluded, StartBroadcast, BroadcastTo,
             EndBroadcast
    <2>3. \A id \in UserIDs : id # InvalidUserID => lock'[id] = lock[id]
      BY <2>2 DEF TypeOK, TablesOK
    <2> QED
      BY <1>1, <2>1, <2>3, BindNotZero DEF BindOwnsID
  <1>3. CASE Sweep
    BY <1>1, <1>3, BindBlocksAll DEF Sweep, BindOwnsID
  <1> QED
    BY <1>2, <1>3 DEF ShutdownStep

(* The request thread replaces entries by entries.                         *)
LEMMA ReqKeepsEntries ==
  ASSUME TypeOK, ReqStep, NEW id \in UserIDs
  PROVE  \/ mapClients'[id] = mapClients[id]
         \/ /\ mapClients[id] \in HClient
            /\ mapClients'[id] = [mapClients[id] EXCEPT !.state = "Active",
                                                       !.userID = id]
PROOF
  <1>1. mapClients \in ClientsMap
    BY DEF TypeOK, TablesOK
  <1>2. CASE Authorize
    <2>1. PICK info : mapClients' = [mapClients EXCEPT ![handling.userID] = info]
      BY <1>2, Zenon DEF Authorize, StoreAndAnswer
    <2>2. handling.userID \in UserIDs /\ mapClients[handling.userID] \in HClient
      BY <1>1, <1>2
         DEF Authorize, StoreAndAnswer, TypeOK, HandsOK, HandleLabels,
             HandledRequest, ClientsMap
    <2>3. \/ mapClients'[handling.userID] = mapClients[handling.userID]
          \/ mapClients'[handling.userID] =
               [mapClients[handling.userID] EXCEPT
                  !.state = "Active", !.userID = handling.userID]
      BY <1>1, <1>2, <2>2 DEF Authorize, StoreAndAnswer, ClientsMap
    <2>4. id # handling.userID => mapClients'[id] = mapClients[id]
      BY <1>1, <2>1 DEF ClientsMap
    <2> QED
      BY <2>2, <2>3, <2>4
  <1>3. CASE ~Authorize
    BY <1>3 DEF ReqStep, RequestTop, DrainDone, PopHandle, JudgeClientInfo,
       AuthorizeNobody, FindAuthor, ForwardMessage
  <1> QED
    BY <1>2, <1>3

(* So it takes none from those who bind.                                   *)
LEMMA BindReqStep ==
  ASSUME TypeOK, BindOwnsID, ReqStep
  PROVE  BindOwnsID'
PROOF
  <1>1. \A id \in UserIDs : mapClients[id] # NoClient => mapClients'[id] # NoClient
    <2> SUFFICES ASSUME NEW id \in UserIDs, mapClients[id] \in HClient
                 PROVE  [mapClients[id] EXCEPT !.state = "Active", !.userID = id]
                          # NoClient
      BY ReqKeepsEntries
    <2>1. [mapClients[id] EXCEPT !.state = "Active", !.userID = id] \in HClient
      BY DEF HClient, InfoStates
    <2> QED
      BY <2>1, NoClientAssumption
  <1> QED
    BY <1>1, OthersStay DEF BindOwnsID, TypeOK, PlacesOK

(* Users erase and move entries under all locks.                           *)
LEMMA BindUserStep ==
  ASSUME TypeOK, BindOwnsID, NEW u \in UserThreads, UserStep(u)
  PROVE  BindOwnsID'
PROOF
  <1>1. CASE AllFree
    BY <1>1, OthersStay, BindBlocksAll DEF BindOwnsID
  <1>2. ASSUME NEW id \in UserIDs, UserReservesID(u, id) PROVE BindOwnsID'
    <2>1. \A other \in UserIDs : mapClients[other] # NoClient =>
            mapClients'[other] # NoClient
      BY <1>2, ReserveErasesNothing DEF UserReservesID, TypeOK, TablesOK
    <2> QED
      BY <2>1, OthersStay DEF BindOwnsID, TypeOK, PlacesOK
  <1>3. ASSUME UNCHANGED mapClients PROVE BindOwnsID'
    BY <1>3, OthersStay DEF BindOwnsID
  <1> QED
    BY <1>1, <1>2, <1>3
       DEF UserStep, UserRemovesClient, UserChangesID, UserSends,
           UserDisablesPush, UserSetsGoingExit

(* No step takes the entry or the lock from a thread that binds.           *)
LEMMA BindStep == TypeOK /\ BindOwnsID /\ [Next]_vars => BindOwnsID'
PROOF
  <1> SUFFICES ASSUME TypeOK, BindOwnsID, [Next]_vars PROVE BindOwnsID'
    OBVIOUS
  <1>1. ASSUME Environment \/ UNCHANGED vars PROVE BindOwnsID'
    BY <1>1 DEF Environment, vars, tables, work, BindOwnsID
  <1>2. ASSUME ConnStep PROVE BindOwnsID'
    BY <1>2, ThreadsDiffer, BindCallbackStep, BindConnStep DEF ConnStep
  <1>3. ASSUME NEW t \in OtherCallbackThreads, CallbackStep(t) PROVE BindOwnsID'
    BY <1>3, BindCallbackStep DEF CallbackThreads
  <1> QED
    BY <1>1, <1>2, <1>3, BindReqStep, BindUserStep DEF Next, Terminated

(* Nobody binds in the beginning.                                          *)
LEMMA BindInit == Init => BindOwnsID
PROOF
  <1>1. ASSUME Init, NEW t \in CallbackThreads PROVE pc[t] # "bind"
    BY <1>1, ThreadsDiffer, ServerAssumption DEF Init, CallbackThreads, Threads
  <1> QED
    BY <1>1 DEF BindOwnsID

(* m_mapClients.at(id) at the end of AcceptClient never throws, whichever  *)
(* threads run callbacks and whatever the users do.                        *)
THEOREM AcceptFindsEntry == Spec => []BindFindsEntry
PROOF
  <1>1. BindOwnsID => BindFindsEntry
    BY DEF BindOwnsID, BindFindsEntry
  <1> QED
    BY <1>1, BindInit, BindStep, TypeCorrect, PTL DEF Spec

=============================================================================
