----------------------------- MODULE ChatServer -----------------------------
(***************************************************************************)
(* ChatServer of NickSVChat, with the part of ChatSocket it runs on: the   *)
(* connection thread (connection callbacks, incoming requests, queued      *)
(* requests, shutdown), the request thread (handlers), and user threads    *)
(* that call the public methods.  One process is modelled; the peers and   *)
(* GameNetworkingSockets (GNS) are external.                               *)
(*                                                                         *)
(* Each action is what one thread does between two points at which another *)
(* thread can tell the difference: a lock it may wait for, or an access to *)
(* shared state made without one.  The build is a release build, so        *)
(* CHAT_ASSERT and CHAT_EXPECT do nothing; the ones that matter are        *)
(* properties in ChatServerProperties.                                     *)
(*                                                                         *)
(* A definition Op_Flaw stands before Op: it is Op with a plausible bug,   *)
(* is used by no action, and serves to see a property fail.                *)
(***************************************************************************)
EXTENDS ClientRegistry, FiniteSets, Sequences

CONSTANTS
  ConnThread,      \* runs ConnectionThreadFunction
  ReqThread,       \* runs RequestThreadFunction
  OtherCallbackThreads, \* connection threads of other sockets of the process:
                   \* RunCallbacks of the shared GNS interface delivers there
                   \* the callbacks of this server too
  UserThreads,     \* threads of the library user
  NoThread,        \* owner of a free lock
  UserOps,         \* public methods the user threads call, a subset of
                   \* {"remove", "reserve", "change", "send", "close"}
  RequestTypes,    \* types of the requests the peers send
  Claims,          \* user ids the peers put in their ClientInfoRequests
  Verdicts,        \* what the user's OnPre... methods return
  MaxQueueSize,    \* Constant::MaxSendRequestsQueueSize (100 in the code)
  PollLimit,       \* iterations of a while_limit loop (30 in the code)
  MaxRequests,     \* bound: requests sent by the peers and by the user
  SendMayFail,     \* may GNS refuse a message (send buffer full)?
  NoRequest        \* "no request in hand"

CallbackThreads == {ConnThread} \cup OtherCallbackThreads

Threads == CallbackThreads \cup {ReqThread} \cup UserThreads

ASSUME ServerAssumption ==
  /\ ConnThread # ReqThread /\ NoThread \notin Threads
  /\ OtherCallbackThreads \cap {ConnThread, ReqThread} = {}
  /\ UserThreads \cap (CallbackThreads \cup {ReqThread}) = {}
  /\ RequestTypes \subseteq {"ClientInfo", "Message", "Unknown", "Short"}
  /\ UserOps \subseteq {"remove", "reserve", "change", "send", "close"}
  /\ Verdicts \subseteq {"Success", "InvalidRequest", "Error"}
  /\ Claims \subseteq UserIDs
  /\ MaxQueueSize \in Nat \ {0} /\ PollLimit \in Nat \ {0}
  /\ MaxRequests \in Nat
  /\ SendMayFail \in BOOLEAN

VARIABLES
  connState,       \* GNS: state of each connection
  callbacks,       \* GNS: status changes not yet delivered by RunCallbacks
  inbox,           \* GNS: messages received on each connection
  outbox,          \* GNS: messages the server has sent on each connection
  serial,          \* history: requests issued so far; numbers them
  mapClients,      \* m_mapClients
  mapConnections,  \* m_mapConnections
  lastFreeID,      \* m_lastFreeID
  boundID,         \* history: the id each connection was accepted under
  lock,            \* m_ClientLock: the thread that holds each id
  sendQueue,       \* m_sendRequestsQueue
  handleQueue,     \* m_handleRequestsQueue
  pushEnabled,     \* m_bPushEnabled of both queues
  goingExit,       \* m_bGoingExit
  pc,              \* where each thread is
  place,           \* the connection and the id a callback thread works on
  polls,           \* iterations of the running while_limit loop
  received,        \* incoming request in the connection thread's hand
  sending,         \* queued request in the connection thread's hand
  handling         \* request in the request thread's hand

network == <<connState, callbacks, inbox, outbox, serial>>
tables  == <<mapClients, mapConnections, lastFreeID, boundID>>
queues  == <<sendQueue, handleQueue, pushEnabled, goingExit>>
work    == <<place, polls, received, sending, handling>>
vars    == <<network, tables, lock, queues, pc, work>>

-----------------------------------------------------------------------------
(* Requests.  peer is history: the connection a request came from, or the  *)
(* one a reply is meant for.                                               *)

Peers == Conns \cup {NoConn}

IncomingRequest == [type : RequestTypes, claim : UserIDs, serial : Nat]

HandledRequest == [type : RequestTypes, claim : UserIDs, serial : Nat,
                   userID : UserIDs, peer : Conns,
                   found : BOOLEAN, grant : BOOLEAN]

QueuedRequest == [type : {"ClientInfo", "Message", "Goodbye"},
                  userID : UserIDs, state : InfoStates,
                  toAll : BOOLEAN, activeOnly : BOOLEAN,
                  peer : Peers, serial : Nat, awaited : BOOLEAN]

(* A status change the handler does not ignore: to Connecting if old is    *)
(* "None", to ClosedByPeer or ProblemDetectedLocally otherwise.            *)
Callback == [conn : Conns, old : {"None", "Connecting", "Connected"}]

ToOne(id, state, peer, n, awaited) ==
  [type |-> "ClientInfo", userID |-> id, state |-> state, toAll |-> FALSE,
   activeOnly |-> FALSE, peer |-> peer, serial |-> n, awaited |-> awaited]

ToAll(id, activeOnly, peer, n) ==
  [type |-> "Message", userID |-> id, state |-> "Invalid", toAll |-> TRUE,
   activeOnly |-> activeOnly, peer |-> peer, serial |-> n, awaited |-> FALSE]

Goodbye(conn) ==
  [type |-> "Goodbye", userID |-> InvalidUserID, state |-> "Invalid",
   toAll |-> FALSE, activeOnly |-> FALSE, peer |-> conn, serial |-> 0,
   awaited |-> FALSE]


-----------------------------------------------------------------------------
(* Building blocks of the actions.  What no action of a thread changes is  *)
(* left unchanged once, where the actions of the thread are put together.  *)

Nowhere == [conn |-> NoConn, id |-> InvalidUserID]

Goto(t, label) == pc' = [pc EXCEPT ![t] = label]

IsFree(id) == lock[id] = NoThread

(* LockAll() returns once nobody holds any id, 0 included.                 *)
AllFree == \A id \in UserIDs : IsFree(id)

(* QueueRequest: nothing is queued once CloseSocket has disabled the push, *)
(* nor beyond the limit.  (The check of the size and the push are one step *)
(* here.)                                                                  *)
QueueRequest_OffByOne(req) ==
  sendQueue' = IF pushEnabled /\ Len(sendQueue) < MaxQueueSize - 1
               THEN Append(sendQueue, req)
               ELSE sendQueue

QueueRequest_InFront(req) ==
  sendQueue' = IF pushEnabled /\ Len(sendQueue) < MaxQueueSize
               THEN <<req>> \o sendQueue
               ELSE sendQueue

QueueRequest(req) ==
  sendQueue' = IF pushEnabled /\ Len(sendQueue) < MaxQueueSize
               THEN Append(sendQueue, req)
               ELSE sendQueue

(* GNS: the handle dies, and with it the messages nobody received yet.     *)
CloseConnection(conn) ==
  /\ connState' = [connState EXCEPT ![conn] = "Dead"]
  /\ inbox' = [inbox EXCEPT ![conn] = <<>>]

(* Erase the entry of a client from each table; a table without it (NoConn *)
(* and InvalidUserID are never keys) stays as it is.                       *)
Erase_KeepsConnection(conn, id) ==
  /\ mapClients' = [i \in UserIDs |-> IF i = id THEN NoClient ELSE mapClients[i]]
  /\ UNCHANGED mapConnections

Erase_LeavesReserved(conn, id) ==
  /\ mapClients' = [mapClients EXCEPT ![id] = ReservedClient]
  /\ mapConnections' = [mapConnections EXCEPT ![conn] = InvalidUserID]

Erase(conn, id) ==
  /\ mapClients' = [i \in UserIDs |-> IF i = id THEN NoClient ELSE mapClients[i]]
  /\ mapConnections' = [c \in Conns |-> IF c = conn THEN InvalidUserID
                                        ELSE mapConnections[c]]

(* Sets of connections GNS may refuse a message for.                       *)
Refusals == IF SendMayFail THEN SUBSET Conns ELSE {{}}

(* SendStringToConnection on every connection of conns.                    *)
SendTo(conns, req) ==
  \E refused \in Refusals :
    outbox' = [c \in Conns |->
                 IF c \in conns \ refused /\ connState[c] = "Connected"
                 THEN Append(outbox[c], req)
                 ELSE outbox[c]]

Init ==
  /\ connState = [c \in Conns |-> "Unused"]
  /\ callbacks = <<>>
  /\ inbox = [c \in Conns |-> <<>>]
  /\ outbox = [c \in Conns |-> <<>>]
  /\ serial = 0
  /\ mapClients = [id \in UserIDs |-> NoClient]
  /\ mapConnections = [c \in Conns |-> InvalidUserID]
  /\ lastFreeID = LibReservedUserIDs
  /\ boundID = [c \in Conns |-> InvalidUserID]
  /\ lock = [id \in UserIDs |-> NoThread]
  /\ sendQueue = <<>> /\ handleQueue = <<>>
  /\ pushEnabled = TRUE /\ goingExit = FALSE
  /\ pc = [t \in Threads |->
             CASE t \in {ConnThread, ReqThread}  -> "top"
               [] t \in OtherCallbackThreads    -> "callbacks"
               [] t \in UserThreads             -> "idle"]
  /\ place = [t \in CallbackThreads |-> Nowhere]
  /\ polls = 0
  /\ received = NoRequest /\ sending = NoRequest /\ handling = NoRequest

-----------------------------------------------------------------------------
(* The peers and GNS.                                                      *)

PeerConnects(conn) ==
  /\ connState[conn] = "Unused" /\ pc[ConnThread] # "exited"
  /\ connState' = [connState EXCEPT ![conn] = "Connecting"]
  /\ callbacks' = Append(callbacks, [conn |-> conn, old |-> "None"])
  /\ UNCHANGED <<inbox, serial>>

(* The peer closes the connection, or it times out.  What it has sent can  *)
(* still be received.                                                      *)
PeerCloses(conn) ==
  /\ connState[conn] \in {"Connecting", "Connected"}
  /\ connState' = [connState EXCEPT ![conn] = "Closed"]
  /\ callbacks' = Append(callbacks, [conn |-> conn, old |-> connState[conn]])
  /\ UNCHANGED <<inbox, serial>>

PeerSends(conn) ==
  /\ connState[conn] = "Connected" /\ serial < MaxRequests
  /\ serial' = serial + 1
  /\ \E type \in RequestTypes, claim \in Claims :
       inbox' = [inbox EXCEPT ![conn] =
                   Append(@, [type |-> type, claim |-> claim,
                              serial |-> serial + 1])]
  /\ UNCHANGED <<connState, callbacks>>

Environment ==
  /\ \E conn \in Conns :
       PeerConnects(conn) \/ PeerCloses(conn) \/ PeerSends(conn)
  /\ UNCHANGED <<outbox, tables, lock, queues, pc, work>>

-----------------------------------------------------------------------------
(* Connection callbacks: OnSteamNetConnectionStatusChanged, run by         *)
(* RunCallbacks in the connection thread of this server or of another      *)
(* socket of the process.                                                  *)

NextCallback(t, old) ==
  /\ pc[t] = "callbacks" /\ callbacks # <<>> /\ Head(callbacks).old = old
  /\ callbacks' = Tail(callbacks)
  /\ UNCHANGED <<tables, lock, sendQueue>>

OnClosedWhileConnected(t) ==
  /\ NextCallback(t, "Connected")
  /\ place' = [place EXCEPT ![t].conn = Head(callbacks).conn]
  /\ Goto(t, "remove")
  /\ UNCHANGED <<connState, inbox>>

OnClosedWhileConnecting(t) ==
  /\ NextCallback(t, "Connecting")
  /\ CloseConnection(Head(callbacks).conn)
  /\ UNCHANGED <<pc, place>>

(* AcceptConnection fails if the peer has closed in the meantime.          *)
OnConnecting(t) ==
  /\ NextCallback(t, "None")
  /\ LET conn == Head(callbacks).conn
     IN  IF connState[conn] = "Connecting"
         THEN /\ connState' = [connState EXCEPT ![conn] = "Connected"]
              /\ place' = [place EXCEPT ![t].conn = conn]
              /\ Goto(t, "generate")
              /\ UNCHANGED inbox
         ELSE /\ CloseConnection(conn)
              /\ UNCHANGED <<pc, place>>

(* Under LockAll: erase both entries, close the connection in any case.    *)
RemoveClientByConnection_LeavesConnection(t) ==
  /\ pc[t] = "remove" /\ AllFree
  /\ Erase(place[t].conn, mapConnections[place[t].conn])
  /\ place' = [place EXCEPT ![t] = Nowhere]
  /\ Goto(t, "callbacks")
  /\ UNCHANGED <<connState, callbacks, inbox, lastFreeID, boundID, lock,
                 sendQueue>>

RemoveClientByConnection(t) ==
  /\ pc[t] = "remove" /\ AllFree
  /\ LET conn == place[t].conn
     IN  /\ CloseConnection(conn)
         /\ Erase(conn, mapConnections[conn])
  /\ place' = [place EXCEPT ![t] = Nowhere]
  /\ Goto(t, "callbacks")
  /\ UNCHANGED <<callbacks, lastFreeID, boundID, lock, sendQueue>>

(* GenerateUniqueUserID reads the table and m_lastFreeID without a lock;   *)
(* ++m_lastFreeID is a read and a write, as is m_lastFreeID++ below.       *)
SkipTakenID(t) ==
  /\ pc[t] = "generate" /\ lastFreeID < MaxUserID
  /\ GetUserIDState(mapClients, lastFreeID) # "Free"
  /\ Goto(t, "skip")
  /\ UNCHANGED <<connState, callbacks, inbox, tables, lock, sendQueue, place>>

ReadTakenID(t) ==
  /\ pc[t] = "skip" /\ lastFreeID \in UserIDs
  /\ place' = [place EXCEPT ![t].id = lastFreeID]
  /\ Goto(t, "skipping")
  /\ UNCHANGED <<connState, callbacks, inbox, tables, lock, sendQueue>>

PassTakenID(t) ==
  /\ pc[t] = "skipping"
  /\ lastFreeID' = place[t].id + 1
  /\ Goto(t, "generate")
  /\ UNCHANGED <<connState, callbacks, inbox, mapClients, mapConnections,
                 boundID, lock, sendQueue, place>>

FindFreeID(t) ==
  /\ pc[t] = "generate" /\ lastFreeID < MaxUserID
  /\ GetUserIDState(mapClients, lastFreeID) = "Free"
  /\ Goto(t, "take")
  /\ UNCHANGED <<connState, callbacks, inbox, tables, lock, sendQueue, place>>

TakeID(t) ==
  /\ pc[t] = "take" /\ lastFreeID \in UserIDs
  /\ place' = [place EXCEPT ![t].id = lastFreeID]
  /\ Goto(t, "advance")
  /\ UNCHANGED <<connState, callbacks, inbox, tables, lock, sendQueue>>

AdvanceID_Forgotten(t) ==
  /\ pc[t] = "advance"
  /\ Goto(t, "reserve")
  /\ UNCHANGED <<connState, callbacks, inbox, tables, lock, sendQueue, place>>

AdvanceID(t) ==
  /\ pc[t] = "advance"
  /\ lastFreeID' = place[t].id + 1
  /\ Goto(t, "reserve")
  /\ UNCHANGED <<connState, callbacks, inbox, mapClients, mapConnections,
                 boundID, lock, sendQueue, place>>

(* The rest of AcceptClient.  It ignores that the id may not be free.      *)
ReserveGeneratedID(t) ==
  /\ pc[t] = "reserve" /\ IsFree(place[t].id)
  /\ mapClients' = ReserveUserID(mapClients, place[t].id)
  /\ Goto(t, "preAccept")
  /\ UNCHANGED <<connState, callbacks, inbox, mapConnections, lastFreeID,
                 boundID, lock, sendQueue, place>>

(* OnPreAcceptClient.  The id of a rejected connection stays reserved.     *)
PreAcceptClient_KeepsConnection(t) ==
  /\ pc[t] = "preAccept"
  /\ \E verdict \in Verdicts :
       IF verdict = "Success"
       THEN Goto(t, "insert") /\ UNCHANGED place
       ELSE /\ place' = [place EXCEPT ![t] = Nowhere]
            /\ Goto(t, "callbacks")
  /\ UNCHANGED <<connState, callbacks, inbox, tables, lock, sendQueue>>

PreAcceptClient(t) ==
  /\ pc[t] = "preAccept"
  /\ \E verdict \in Verdicts :
       IF verdict = "Success"
       THEN /\ Goto(t, "insert")
            /\ UNCHANGED <<connState, inbox, place>>
       ELSE /\ CloseConnection(place[t].conn)
            /\ place' = [place EXCEPT ![t] = Nowhere]
            /\ Goto(t, "callbacks")
  /\ UNCHANGED <<callbacks, tables, lock, sendQueue>>

(* UnlockAll(id): the lock of id stays with the thread.                    *)
UnlockAllBut_UnlocksAll(t, id) == UNCHANGED lock

UnlockAllBut(t, id) == lock' = [lock EXCEPT ![id] = t]

(* LockAll, insert, UnlockAll(id).                                         *)
InsertClient(t) ==
  /\ pc[t] = "insert" /\ AllFree
  /\ LET id == place[t].id
     IN  /\ mapClients' = [mapClients EXCEPT ![id] =
                              IF @ = NoClient THEN ReservedClient ELSE @]
         /\ mapConnections' = [mapConnections EXCEPT ![place[t].conn] = id]
         /\ boundID' = [boundID EXCEPT ![place[t].conn] = id]
         /\ UnlockAllBut(t, id)
  /\ Goto(t, "bind")
  /\ UNCHANGED <<connState, callbacks, inbox, lastFreeID, sendQueue, place>>

(* Fill in the entry, queue the authentication request, unlock the id.     *)
BindClient_ForgetsUserID(t) ==
  /\ pc[t] = "bind"
  /\ LET id == place[t].id
     IN  /\ mapClients' = [mapClients EXCEPT ![id].connection = place[t].conn,
                                             ![id].state = "Unauthorized"]
         /\ QueueRequest(ToOne(id, "Unauthorized", place[t].conn, 0, FALSE))
         /\ lock' = [lock EXCEPT ![id] = NoThread]
  /\ place' = [place EXCEPT ![t] = Nowhere]
  /\ Goto(t, "callbacks")
  /\ UNCHANGED <<connState, callbacks, inbox, mapConnections, lastFreeID,
                 boundID>>

BindClient(t) ==
  /\ pc[t] = "bind"
  /\ LET id == place[t].id
     IN  /\ mapClients' = [mapClients EXCEPT ![id] =
                              [connection |-> place[t].conn, userID |-> id,
                               state |-> "Unauthorized"]]
         /\ QueueRequest(ToOne(id, "Unauthorized", place[t].conn, 0, FALSE))
         /\ lock' = [lock EXCEPT ![id] = NoThread]
  /\ place' = [place EXCEPT ![t] = Nowhere]
  /\ Goto(t, "callbacks")
  /\ UNCHANGED <<connState, callbacks, inbox, mapConnections, lastFreeID,
                 boundID>>

CallbackStep(t) ==
  /\ \/ OnConnecting(t) \/ OnClosedWhileConnecting(t)
     \/ OnClosedWhileConnected(t) \/ RemoveClientByConnection(t)
     \/ SkipTakenID(t) \/ ReadTakenID(t) \/ PassTakenID(t)
     \/ FindFreeID(t) \/ TakeID(t) \/ AdvanceID(t)
     \/ ReserveGeneratedID(t) \/ PreAcceptClient(t)
     \/ InsertClient(t) \/ BindClient(t)
  /\ UNCHANGED <<outbox, serial, handleQueue, pushEnabled, goingExit, polls,
                 received, sending, handling>>

-----------------------------------------------------------------------------
(* The connection thread: ConnectionThreadFunction.                        *)

ConnTop ==
  /\ pc[ConnThread] = "top"
  /\ Goto(ConnThread, IF goingExit THEN "sweep" ELSE "callbacks")
  /\ UNCHANGED <<polls>>

(* RunCallbacks returns when it has delivered every callback.              *)
CallbacksDone ==
  /\ pc[ConnThread] = "callbacks" /\ callbacks = <<>>
  /\ polls' = 0
  /\ Goto(ConnThread, "incoming")

(* No more messages, or the limit of the loop, or the socket is closing.   *)
IncomingDone_IgnoresExit ==
  /\ pc[ConnThread] = "incoming"
  /\ \/ polls >= PollLimit
     \/ IsFree(InvalidUserID) /\ \A c \in Conns : inbox[c] = <<>>
  /\ polls' = 0
  /\ Goto(ConnThread, "queued")

IncomingDone ==
  /\ pc[ConnThread] = "incoming"
  /\ \/ goingExit \/ polls >= PollLimit
     \/ IsFree(InvalidUserID) /\ \A c \in Conns : inbox[c] = <<>>
  /\ polls' = 0
  /\ Goto(ConnThread, "queued")

QueuedDone ==
  /\ pc[ConnThread] = "queued"
  /\ goingExit \/ polls >= PollLimit \/ sendQueue = <<>>
  /\ polls' = 0
  /\ Goto(ConnThread, "top")

LoopStep ==
  /\ ConnTop \/ CallbacksDone \/ IncomingDone \/ QueuedDone
  /\ UNCHANGED <<network, tables, lock, queues, place, received, sending,
                 handling>>

(* PollIncomingRequests: under Lock(0) take a message and find the client; *)
(* then wait for the lock of that client before letting go of 0.           *)
ReceiveMessage(conn) ==
  /\ pc[ConnThread] = "incoming" /\ ~goingExit /\ polls < PollLimit
  /\ IsFree(InvalidUserID) /\ inbox[conn] # <<>>
  /\ lock' = [lock EXCEPT ![InvalidUserID] = ConnThread]
  /\ received' = Head(inbox[conn])
  /\ inbox' = [inbox EXCEPT ![conn] = Tail(@)]
  /\ place' = [place EXCEPT ![ConnThread] =
       [conn |-> conn,
        id   |-> ClientIDByConnection(mapClients, mapConnections, conn)]]
  /\ Goto(ConnThread, "lockClient")
  /\ UNCHANGED <<handleQueue, polls>>

(* Too short a message and a full queue both drop the request.             *)
PushIncoming ==
  LET here    == place[ConnThread]
      request == [type |-> received.type, claim |-> received.claim,
                  serial |-> received.serial, userID |-> here.id,
                  peer |-> here.conn, found |-> FALSE, grant |-> FALSE]
  IN  /\ pc[ConnThread] = "lockClient" /\ IsFree(here.id)
      /\ handleQueue' = IF /\ received.type # "Short" /\ pushEnabled
                           /\ Len(handleQueue) < MaxQueueSize
                        THEN Append(handleQueue, request)
                        ELSE handleQueue
      /\ lock' = [lock EXCEPT ![InvalidUserID] = NoThread]
      /\ received' = NoRequest
      /\ place' = [place EXCEPT ![ConnThread] = Nowhere]
      /\ polls' = polls + 1
      /\ Goto(ConnThread, "incoming")
      /\ UNCHANGED inbox

IncomingStep ==
  /\ (\E conn \in Conns : ReceiveMessage(conn)) \/ PushIncoming
  /\ UNCHANGED <<connState, callbacks, outbox, serial, tables, sendQueue,
                 pushEnabled, goingExit, sending, handling>>

(* PollQueuedRequests.                                                     *)
PopQueued ==
  /\ pc[ConnThread] = "queued" /\ ~goingExit /\ polls < PollLimit
  /\ sendQueue # <<>>
  /\ sending' = Head(sendQueue)
  /\ sendQueue' = Tail(sendQueue)
  /\ polls' = polls + 1
  /\ Goto(ConnThread, "lookup")
  /\ UNCHANGED <<outbox, lock, place>>

(* A request for one client, under Lock(RequestInfo::userID): nothing is   *)
(* sent if the client is gone, or is not Active and must be.               *)
SendToOne ==
  LET client == mapClients[sending.userID]
  IN  /\ pc[ConnThread] = "lookup" /\ ~sending.toAll
      /\ IsFree(sending.userID)
      /\ IF \/ client = NoClient
            \/ sending.activeOnly /\ client.state # "Active"
         THEN UNCHANGED outbox
         ELSE SendTo({client.connection}, sending)
      /\ sending' = NoRequest
      /\ Goto(ConnThread, "queued")
      /\ UNCHANGED <<lock, sendQueue, place, polls>>

(* A request for all: find the connection of RequestInfo::userID under its *)
(* lock, unlock, then Lock(0) and walk through m_mapClients, locking each  *)
(* client while sending to it.                                             *)
FindExcluded_FindsNobody ==
  /\ pc[ConnThread] = "lookup" /\ sending.toAll /\ IsFree(sending.userID)
  /\ Goto(ConnThread, "startAll")
  /\ UNCHANGED <<outbox, lock, sendQueue, place, polls, sending>>

FindExcluded ==
  LET client == mapClients[sending.userID]
  IN  /\ pc[ConnThread] = "lookup" /\ sending.toAll
      /\ IsFree(sending.userID)
      /\ place' = [place EXCEPT ![ConnThread].conn =
                     IF client = NoClient THEN NoConn ELSE client.connection]
      /\ Goto(ConnThread, "startAll")
      /\ UNCHANGED <<outbox, lock, sendQueue, polls, sending>>

StartBroadcast ==
  /\ pc[ConnThread] = "startAll" /\ IsFree(InvalidUserID)
  /\ lock' = [lock EXCEPT ![InvalidUserID] = ConnThread]
  /\ Goto(ConnThread, "broadcast")
  /\ UNCHANGED <<outbox, sendQueue, place, polls, sending>>

(* Keys of m_mapClients ahead of the iterator.                             *)
KeysAhead_OffByOne ==
  {id \in UserIDs : id >= place[ConnThread].id /\ mapClients[id] # NoClient}

KeysAhead ==
  {id \in UserIDs : id > place[ConnThread].id /\ mapClients[id] # NoClient}

BroadcastTo(id) ==
  LET client == mapClients[id]
  IN  /\ pc[ConnThread] = "broadcast"
      /\ id \in KeysAhead /\ \A other \in KeysAhead : id <= other
      /\ IsFree(id)
      /\ IF \/ client.connection = place[ConnThread].conn
            \/ sending.activeOnly /\ client.state # "Active"
         THEN UNCHANGED outbox
         ELSE SendTo({client.connection}, sending)
      /\ place' = [place EXCEPT ![ConnThread].id = id]
      /\ UNCHANGED <<lock, sendQueue, pc, polls, sending>>

EndBroadcast ==
  /\ pc[ConnThread] = "broadcast" /\ KeysAhead = {}
  /\ lock' = [lock EXCEPT ![InvalidUserID] = NoThread]
  /\ place' = [place EXCEPT ![ConnThread] = Nowhere]
  /\ sending' = NoRequest
  /\ Goto(ConnThread, "queued")
  /\ UNCHANGED <<outbox, sendQueue, polls>>

QueuedStep ==
  /\ \/ PopQueued \/ SendToOne \/ FindExcluded \/ StartBroadcast
     \/ (\E id \in UserIDs : BroadcastTo(id)) \/ EndBroadcast
  /\ UNCHANGED <<connState, callbacks, inbox, serial, tables, handleQueue,
                 pushEnabled, goingExit, received, handling>>

(* Shutdown, under LockAll: say goodbye to every client, close, forget.    *)
Sweep ==
  /\ pc[ConnThread] = "sweep" /\ AllFree
  /\ LET swept == {c \in Conns : \E id \in UserIDs :
                      mapClients[id] # NoClient /\ mapClients[id].connection = c}
     IN  /\ \E refused \in Refusals :
              outbox' = [c \in Conns |->
                 IF c \in swept \ refused /\ connState[c] = "Connected"
                 THEN Append(outbox[c], Goodbye(c))
                 ELSE outbox[c]]
         /\ connState' = [c \in Conns |-> IF c \in swept THEN "Dead"
                                          ELSE connState[c]]
         /\ inbox' = [c \in Conns |-> IF c \in swept THEN <<>> ELSE inbox[c]]
  /\ mapClients' = [id \in UserIDs |-> NoClient]
  /\ mapConnections' = [c \in Conns |-> InvalidUserID]
  /\ Goto(ConnThread, "kill")
  /\ UNCHANGED <<callbacks, lastFreeID, boundID>>

(* CloseListenSocket, DestroyPollGroup, GameNetworkingSockets_Kill.        *)
KillInterface ==
  /\ pc[ConnThread] = "kill"
  /\ connState' = [c \in Conns |-> IF connState[c] = "Unused" THEN "Unused"
                                   ELSE "Dead"]
  /\ inbox' = [c \in Conns |-> <<>>]
  /\ callbacks' = <<>>
  /\ Goto(ConnThread, "exited")
  /\ UNCHANGED <<outbox, tables>>

ShutdownStep ==
  /\ Sweep \/ KillInterface
  /\ UNCHANGED <<serial, lock, queues, work>>

ConnStep ==
  \/ CallbackStep(ConnThread)
  \/ LoopStep \/ IncomingStep \/ QueuedStep \/ ShutdownStep

-----------------------------------------------------------------------------
(* The request thread: RequestThreadFunction and the two HandleRequest.    *)

RequestTop ==
  /\ pc[ReqThread] = "top"
  /\ Goto(ReqThread, IF goingExit THEN "exited" ELSE "drain")
  /\ UNCHANGED <<mapClients, sendQueue, handleQueue, handling>>

DrainDone ==
  /\ pc[ReqThread] = "drain" /\ handleQueue = <<>>
  /\ Goto(ReqThread, "top")
  /\ UNCHANGED <<mapClients, sendQueue, handleQueue, handling>>

(* The inner loop does not look at m_bGoingExit.  A request of unknown     *)
(* type is dropped by the dispatch.                                        *)
PopHandle ==
  /\ pc[ReqThread] = "drain" /\ handleQueue # <<>>
  /\ handleQueue' = Tail(handleQueue)
  /\ LET request == Head(handleQueue)
     IN  IF request.type \in {"ClientInfo", "Message"}
         THEN handling' = request /\ Goto(ReqThread, request.type)
         ELSE UNCHANGED <<handling, pc>>
  /\ UNCHANGED <<mapClients, sendQueue>>

Handled ==
  /\ handling' = NoRequest
  /\ Goto(ReqThread, "drain")

(* HandleRequest(ClientInfoRequest) up to its lock: the user's verdict and *)
(* the comparison of the claimed id with the id of the client.             *)
JudgeClientInfo_TrustsClaim ==
  /\ pc[ReqThread] = "ClientInfo"
  /\ \E verdict \in Verdicts :
       IF verdict \notin {"Success", "InvalidRequest"} \/ IsLibReservedID(handling.userID)
       THEN Handled
       ELSE /\ handling' = [handling EXCEPT !.grant = verdict = "Success"]
            /\ Goto(ReqThread, "authorize")
  /\ UNCHANGED <<mapClients, sendQueue, handleQueue>>

JudgeClientInfo ==
  /\ pc[ReqThread] = "ClientInfo"
  /\ \E verdict \in Verdicts :
       IF \/ verdict \notin {"Success", "InvalidRequest"}
          \/ IsLibReservedID(handling.claim)
          \/ IsLibReservedID(handling.userID)
       THEN Handled
       ELSE /\ handling' = [handling EXCEPT !.grant =
                              /\ verdict = "Success"
                              /\ handling.claim = handling.userID]
            /\ Goto(ReqThread, "authorize")
  /\ UNCHANGED <<mapClients, sendQueue, handleQueue>>

(* The rest, under the lock of the client: store the info if it is good,   *)
(* queue the answer.                                                       *)
StoreAndAnswer(awaited) ==
  LET id     == handling.userID
      client == mapClients[id]
      info   == IF handling.grant
                THEN [client EXCEPT !.state = "Active", !.userID = id]
                ELSE client
  IN  /\ pc[ReqThread] = "authorize" /\ IsFree(id) /\ client # NoClient
      /\ mapClients' = [mapClients EXCEPT ![id] = info]
      /\ QueueRequest(ToOne(id, info.state, handling.peer, handling.serial,
                            awaited))
      /\ UNCHANGED handleQueue

Authorize_StoresNothing ==
  /\ pc[ReqThread] = "authorize" /\ IsFree(handling.userID)
  /\ mapClients[handling.userID] # NoClient
  /\ QueueRequest(ToOne(handling.userID, "Active", handling.peer,
                        handling.serial, FALSE))
  /\ Handled
  /\ UNCHANGED <<mapClients, handleQueue>>

Authorize == StoreAndAnswer(FALSE) /\ Handled

AuthorizeNobody ==
  /\ pc[ReqThread] = "authorize" /\ IsFree(handling.userID)
  /\ mapClients[handling.userID] = NoClient
  /\ Handled
  /\ UNCHANGED <<mapClients, sendQueue, handleQueue>>

(* HandleRequest(MessageRequest), all without a lock: look up the author   *)
(* and keep the reference...                                               *)
FindAuthor ==
  /\ pc[ReqThread] = "Message"
  /\ handling' = [handling EXCEPT !.found =
                    mapClients[handling.userID] # NoClient]
  /\ Goto(ReqThread, "forward")
  /\ UNCHANGED <<mapClients, sendQueue, handleQueue>>

(* ... read its state, report, but go on in any case; ask the user, queue  *)
(* the message for every Active client but the author.                     *)
ForwardMessage_TrustsSenderID ==
  /\ pc[ReqThread] = "forward"
  /\ QueueRequest(ToAll(handling.claim, TRUE, handling.peer, handling.serial))
  /\ Handled
  /\ UNCHANGED <<mapClients, handleQueue>>

ForwardMessage ==
  /\ pc[ReqThread] = "forward"
  /\ \E verdict \in Verdicts :
       IF verdict = "Success"
       THEN QueueRequest(ToAll(handling.userID, TRUE, handling.peer,
                               handling.serial))
       ELSE UNCHANGED sendQueue
  /\ Handled
  /\ UNCHANGED <<mapClients, handleQueue>>

KeptByRequests == <<network, mapConnections, lastFreeID, boundID, pushEnabled,
                    goingExit, place, polls, received, sending>>

ReqStep ==
  /\ \/ RequestTop \/ DrainDone \/ PopHandle
     \/ JudgeClientInfo \/ Authorize \/ AuthorizeNobody
     \/ FindAuthor \/ ForwardMessage
  /\ UNCHANGED <<KeptByRequests, lock>>

-----------------------------------------------------------------------------
(* The user's threads.  A method that is "NOT protected inside" is called  *)
(* under the lock its documentation asks for.                              *)

MayCall(u, op) == pc[u] = "idle" /\ op \in UserOps

UserRemovesClient(u, id) ==
  /\ MayCall(u, "remove") /\ ~IsLibReservedID(id)
  /\ AllFree /\ mapClients[id] # NoClient
  /\ LET conn == mapClients[id].connection
     IN  /\ IF conn = NoConn THEN UNCHANGED <<connState, inbox>>
                            ELSE CloseConnection(conn)
         /\ Erase(conn, id)
  /\ UNCHANGED <<serial, sendQueue, pushEnabled, goingExit, pc>>

(* Lock(id), ReserveUserID(id), Unlock(id).                                *)
UserReservesID(u, id) ==
  /\ MayCall(u, "reserve") /\ IsFree(id)
  /\ mapClients' = ReserveUserID(mapClients, id)
  /\ UNCHANGED <<connState, inbox, serial, mapConnections, sendQueue,
                 pushEnabled, goingExit, pc>>

(* LockAll(), ChangeClientID(currentID, newID), UnlockAll().               *)
UserChangesID(u, currentID, newID) ==
  /\ MayCall(u, "change") /\ AllFree
  /\ LET new == ChangeClientID(mapClients, mapConnections, currentID, newID)
     IN  /\ mapClients' = new[1]
         /\ mapConnections' = new[2]
  /\ UNCHANGED <<connState, inbox, serial, sendQueue, pushEnabled, goingExit, pc>>

(* SendRequest, of its ClientInfo to one client or of a message to all;    *)
(* if the client must be Active is up to the user.                         *)
UserSends(u) ==
  /\ MayCall(u, "send") /\ serial < MaxRequests
  /\ serial' = serial + 1
  /\ \E activeOnly \in BOOLEAN :
       \/ QueueRequest(ToAll(InvalidUserID, activeOnly, NoConn, serial + 1))
       \/ \E id \in UserIDs :
            /\ GetUserIDState(mapClients, id) = "Busy" /\ ~IsLibReservedID(id)
            /\ IsFree(id)
            /\ QueueRequest([ToOne(id, mapClients[id].state,
                                   mapClients[id].connection, serial + 1, FALSE)
                             EXCEPT !.activeOnly = activeOnly])
  /\ UNCHANGED <<connState, inbox, mapClients, mapConnections, pushEnabled,
                 goingExit, pc>>

(* CloseSocket: the pushes are disabled before m_bGoingExit is set.        *)
UserDisablesPush(u) ==
  /\ MayCall(u, "close") /\ ~goingExit
  /\ pushEnabled' = FALSE
  /\ Goto(u, "closing")
  /\ UNCHANGED <<connState, inbox, serial, mapClients, mapConnections, sendQueue,
                 goingExit>>

UserSetsGoingExit(u) ==
  /\ pc[u] = "closing"
  /\ goingExit' = TRUE
  /\ Goto(u, "idle")
  /\ UNCHANGED <<connState, inbox, serial, mapClients, mapConnections, sendQueue,
                 pushEnabled>>

UserStep(u) ==
  /\ \/ \E id \in UserIDs : UserRemovesClient(u, id) \/ UserReservesID(u, id)
     \/ \E currentID, newID \in UserIDs : UserChangesID(u, currentID, newID)
     \/ UserSends(u) \/ UserDisablesPush(u) \/ UserSetsGoingExit(u)
  /\ UNCHANGED <<callbacks, outbox, lastFreeID, boundID, lock, handleQueue, work>>

-----------------------------------------------------------------------------
(* The server has shut down.                                               *)
Terminated ==
  /\ pc[ConnThread] = "exited" /\ pc[ReqThread] = "exited"
  /\ \A u \in UserThreads : pc[u] = "idle"
  /\ UNCHANGED vars

Next ==
  \/ Environment
  \/ ConnStep
  \/ \E t \in OtherCallbackThreads : CallbackStep(t)
  \/ ReqStep
  \/ \E u \in UserThreads : UserStep(u)
  \/ Terminated

Spec == Init /\ [][Next]_vars

(* The operating system runs every thread that is not waiting for a lock.  *)
(* The peers may stop at any time and the user need not call anything, but *)
(* a call of CloseSocket that began comes to its end.                      *)
Fairness ==
  /\ WF_vars(ConnStep) /\ WF_vars(ReqStep)
  /\ \A u \in UserThreads : WF_vars(pc[u] = "closing" /\ UserStep(u))

FairSpec == Spec /\ Fairness

=============================================================================
