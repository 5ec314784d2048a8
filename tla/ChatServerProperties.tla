------------------------ MODULE ChatServerProperties ------------------------
(***************************************************************************)
(* What ChatServer promises: stated over the variables of ChatServer,      *)
(* model-checked through MCChatServer, and in part proved in               *)
(* ChatServerProofs.                                                       *)
(***************************************************************************)
EXTENDS ChatServer

AcceptLabels == {"generate", "skip", "skipping", "take", "advance", "reserve",
                 "preAccept", "insert", "bind"}

CallbackLabels == AcceptLabels \cup {"callbacks", "remove"}

SendLabels == {"lookup", "startAll", "broadcast"}

ConnLabels == CallbackLabels \cup SendLabels
              \cup {"top", "incoming", "lockClient", "queued", "sweep", "kill",
                    "exited"}

HandleLabels == {"ClientInfo", "authorize", "Message", "forward"}

ReqLabels == HandleLabels \cup {"top", "drain", "exited"}

(* The id in place is one GenerateUniqueUserID has read or given out.      *)
GeneratedLabels == {"skipping", "advance", "reserve", "preAccept", "insert",
                    "bind"}

NetworkOK ==
  /\ connState \in [Conns -> {"Unused", "Connecting", "Connected", "Closed",
                              "Dead"}]
  /\ callbacks \in Seq(Callback)
  /\ inbox \in [Conns -> Seq(IncomingRequest)]
  /\ outbox \in [Conns -> Seq(QueuedRequest)]
  /\ serial \in Nat

TablesOK ==
  /\ mapClients \in ClientsMap
  /\ mapConnections \in ConnectionsMap
  /\ lastFreeID \in LibReservedUserIDs..(MaxUserID + 1)
  /\ boundID \in [Conns -> UserIDs]
  /\ lock \in [UserIDs -> Threads \cup {NoThread}]

QueuesOK ==
  /\ sendQueue \in Seq(QueuedRequest)
  /\ handleQueue \in Seq(HandledRequest)
  /\ pushEnabled \in BOOLEAN /\ goingExit \in BOOLEAN

ThreadsOK ==
  /\ pc \in [Threads -> ConnLabels \cup ReqLabels \cup {"idle", "closing"}]
  /\ \A t \in OtherCallbackThreads : pc[t] \in CallbackLabels
  /\ pc[ConnThread] \in ConnLabels /\ pc[ReqThread] \in ReqLabels
  /\ \A u \in UserThreads : pc[u] \in {"idle", "closing"}

PlacesOK ==
  /\ place \in [CallbackThreads -> [conn : Peers, id : UserIDs]]
  /\ \A t \in CallbackThreads :
       /\ pc[t] \in AcceptLabels \cup {"remove", "lockClient"} =>
            place[t].conn \in Conns
       /\ pc[t] \in GeneratedLabels => ~IsLibReservedID(place[t].id)

HandsOK ==
  /\ polls \in Nat
  /\ pc[ConnThread] = "lockClient" => received \in IncomingRequest
  /\ pc[ConnThread] \in SendLabels => sending \in QueuedRequest
  /\ pc[ReqThread] \in HandleLabels => handling \in HandledRequest

(* Every variable has its type, and every thread has in hand what its      *)
(* place in the code needs.                                                *)
TypeOK ==
  NetworkOK /\ TablesOK /\ QueuesOK /\ ThreadsOK /\ PlacesOK /\ HandsOK

-----------------------------------------------------------------------------
(* The tables.                                                             *)

(* Between UnlockAll(id) and the end of AcceptClient the entry of id is    *)
(* incomplete.                                                             *)
Binding(id) == \E t \in CallbackThreads : pc[t] = "bind" /\ place[t].id = id

(* doc/Protocol.txt, rule 2: m_mapClients and m_mapConnections agree, the  *)
(* client info carries the key it is stored under, the library's ids are   *)
(* not used.  The iterators AcceptClient, RemoveClient and                 *)
(* RemoveClientByConnection dereference rely on it.                        *)
ConnectionsAgree ==
  \A c \in Conns : LET id == mapConnections[c] IN
    id # InvalidUserID =>
      /\ ~IsLibReservedID(id)
      /\ mapClients[id] # NoClient
      /\ \/ Binding(id)
         \/ mapClients[id].connection = c /\ mapClients[id].userID = id

ClientsAgree ==
  \A id \in UserIDs :
    mapClients[id] # NoClient =>
      /\ ~IsLibReservedID(id)
      /\ mapClients[id].connection # NoConn =>
           mapConnections[mapClients[id].connection] = id

TablesAgree == ConnectionsAgree /\ ClientsAgree

(* GenerateUniqueUserID: no id is ever given to two connections, not even  *)
(* after the first of them has been removed.                               *)
IdsUnique ==
  \A c, d \in Conns :
    c # d /\ boundID[c] = boundID[d] => boundID[c] = InvalidUserID

(* Every connection GNS has not released is known to the server: it has a  *)
(* client, or a callback about it is pending or being handled.  Otherwise  *)
(* nobody would ever call CloseConnection for it.                          *)
NoLeakedConnection ==
  \A c \in Conns :
    connState[c] \in {"Connecting", "Connected", "Closed"} =>
      \/ mapConnections[c] # InvalidUserID
      \/ \E i \in 1..Len(callbacks) : callbacks[i].conn = c
      \/ \E t \in CallbackThreads :
           pc[t] \in AcceptLabels \cup {"remove"} /\ place[t].conn = c

(* No client is left behind on a handle the server has already released.   *)
NoDeadClient ==
  \A c \in Conns :
    mapConnections[c] # InvalidUserID => connState[c] \in {"Connected", "Closed"}

(* Ids in the Reserved state that no AcceptClient under way has reserved.  *)
InAccept(id) ==
  \E t \in CallbackThreads :
    pc[t] \in {"preAccept", "insert", "bind"} /\ place[t].id = id

StuckIDs == {id \in UserIDs :
               GetUserIDState(mapClients, id) = "Reserved" /\ ~InAccept(id)}

(* The connections the server has let go without a client for them.        *)
TurnedAway == {c \in Conns : connState[c] = "Dead" /\ boundID[c] = InvalidUserID}

(* A reserved id is in use by the AcceptClient that reserved it.  Refuted: *)
(* after a rejection it stays reserved (the FIXME at ChatServer.cpp:475).  *)
NoReservedLeak == StuckIDs = {}

(* Only a rejection leaves an id Reserved for ever, and each only one: the *)
(* stuck ids never belonged to a client, and there are no more of them     *)
(* than connections that were turned away.  Removals, shutdown and closes  *)
(* in the middle of an AcceptClient leave none behind.                     *)
OnlyRejectionsLeak ==
  /\ \A id \in StuckIDs, c \in Conns : boundID[c] # id
  /\ \E paidBy \in [StuckIDs -> TurnedAway] :
       \A i, j \in StuckIDs : paidBy[i] = paidBy[j] => i = j

(* ChatServer.cpp:489, m_mapClients.at(id) in AcceptClient, cannot throw:  *)
(* from the insertion on the id is locked, so the entry stays.             *)
BindFindsEntry ==
  \A t \in CallbackThreads :
    pc[t] = "bind" => mapClients[place[t].id] # NoClient

(* ChatServer.cpp:211: a message comes from a connection the server has a  *)
(* client for.  Otherwise the thread would lock id 0 twice.                *)
NoOrphanMessage == pc[ConnThread] = "lockClient" => place[ConnThread].id # InvalidUserID

(* ChatServer.cpp:469: the id AcceptClient is about to reserve is free.    *)
GeneratedIdIsFree ==
  \A t \in CallbackThreads :
    pc[t] = "reserve" => GetUserIDState(mapClients, place[t].id) = "Free"

-----------------------------------------------------------------------------
(* The server as an implementation of Membership.  A connection joins when *)
(* it is inserted into the tables; while its entry is being filled in it   *)
(* has joined already.                                                     *)
StageOf(c) ==
  LET id == mapConnections[c] IN
  IF id # InvalidUserID
  THEN IF ~Binding(id) /\ mapClients[id] # NoClient /\ mapClients[id].state = "Active"
       THEN "active" ELSE "joined"
  ELSE IF boundID[c] = InvalidUserID THEN "outside" ELSE "gone"

(* The client infos of a connection that are on their way: received by     *)
(* GNS, in the hand of the connection thread, in the queue, being handled. *)
IsClaim(request, id) == request.type = "ClientInfo" /\ request.claim = id

HasClaimed(c, id) ==
  \/ \E i \in 1..Len(inbox[c]) : IsClaim(inbox[c][i], id)
  \/ /\ pc[ConnThread] = "lockClient" /\ place[ConnThread].conn = c
     /\ IsClaim(received, id)
  \/ \E i \in 1..Len(handleQueue) :
       handleQueue[i].peer = c /\ IsClaim(handleQueue[i], id)
  \/ /\ pc[ReqThread] \in {"ClientInfo", "authorize"} /\ handling.peer = c
     /\ IsClaim(handling, id)

GivenIDs == {id \in UserIDs : ~IsLibReservedID(id)}

Members == INSTANCE Membership
  WITH NoID   <- InvalidUserID,
       stage  <- [c \in Conns |-> StageOf(c)],
       idOf   <- boundID,
       claims <- {p \in Conns \X UserIDs : HasClaimed(p[1], p[2])}

(* Connections join once, under an id nobody ever had, become Active only  *)
(* by sending back their own id, whoever's requests are still in the       *)
(* queues, and leave once (ChatServer.cpp:108-155, 370-501).               *)
IsMembership == Members!MemberSpec

-----------------------------------------------------------------------------
(* What the peers get.                                                     *)

(* A request for one client reaches only the connection it was made for,   *)
(* though it is addressed by id and sent later.                            *)
NoMisdelivery ==
  \A c \in Conns : \A i \in 1..Len(outbox[c]) :
    ~outbox[c][i].toAll => outbox[c][i].peer = c

(* An author does not get its own message back.                            *)
NoEcho ==
  \A c \in Conns : \A i \in 1..Len(outbox[c]) :
    outbox[c][i].toAll => outbox[c][i].peer # c

(* The sender id in a message is the id its author was accepted under.     *)
SenderIsAuthor ==
  \A c \in Conns : \A i \in 1..Len(outbox[c]) :
    LET msg == outbox[c][i] IN
    msg.toAll /\ msg.peer # NoConn => boundID[msg.peer] = msg.userID

Broadcasts(c) == {i \in 1..Len(outbox[c]) : outbox[c][i].toAll}

(* The messages of one author arrive in the order it sent them, once each. *)
AuthorOrder ==
  \A c \in Conns : \A i, j \in Broadcasts(c) :
    i < j /\ outbox[c][i].peer = outbox[c][j].peer =>
      outbox[c][i].serial < outbox[c][j].serial

(* Two clients that both get two messages get them in the same order,      *)
(* whoever the authors are.                                                *)
SameOrder ==
  \A c, d \in Conns :
    \A i, j \in Broadcasts(c) : \A k, l \in Broadcasts(d) :
      /\ outbox[c][i].serial = outbox[d][k].serial
      /\ outbox[c][j].serial = outbox[d][l].serial
      => (i < j <=> k < l)

(* doc/Protocol.txt, last rows of the table: an Unauthorized client cannot *)
(* communicate; its message is not passed on.                              *)
UnauthorizedCannotTalk ==
  [][ /\ pc[ReqThread] = "forward"
      /\ mapClients[handling.userID] # NoClient
      /\ mapClients[handling.userID].state = "Unauthorized"
      /\ pc'[ReqThread] # "forward"
      => sendQueue' = sendQueue ]_vars

(* HandleRequest(MessageRequest) uses its reference to a ClientInfo only   *)
(* while the client exists.                                                *)
NoDanglingReference ==
  pc[ReqThread] = "forward" /\ handling.found =>
    mapClients[handling.userID] # NoClient

-----------------------------------------------------------------------------
(* Liveness, under the fairness of FairSpec.                               *)

(* A connection that its peer has closed is released.                      *)
ClosedIsReleased ==
  \A c \in Conns : connState[c] = "Closed" ~> connState[c] = "Dead"

(* The client of c has gone, or the server stops.                          *)
Ended(c) == connState[c] \in {"Closed", "Dead"} \/ ~pushEnabled

(* A connected client is told its id, unless it goes, the server stops, or *)
(* the requests of others fill the send queue: then its authentication     *)
(* request may be dropped, and nobody makes another.                       *)
Greeting(req, c) == req.type = "ClientInfo" /\ req.peer = c

GreetingQueued(c) ==
  \/ \E i \in 1..Len(sendQueue) : Greeting(sendQueue[i], c)
  \/ pc[ConnThread] = "lookup" /\ Greeting(sending, c)

HandshakeStarts ==
  \A c \in Conns :
    connState[c] = "Connecting" ~>
      \/ outbox[c] # <<>> \/ connState[c] \in {"Closed", "Dead"} \/ ~pushEnabled
      \/ Len(sendQueue) >= MaxQueueSize /\ ~GreetingQueued(c)

(* A client that sends back the id it was given becomes Active, unless it  *)
(* goes, the server stops, or the requests of others fill the handle queue *)
(* while its own is not in there: then it may be dropped                   *)
(* (ChatServer.cpp:232), and the client is not told.                       *)
OwnInfo(request, c) ==
  request.type = "ClientInfo" /\ request.claim = mapConnections[c]

InfoArrived(c) == \E i \in 1..Len(inbox[c]) : OwnInfo(inbox[c][i], c)

InfoTaken(c) ==
  \/ \E i \in 1..Len(handleQueue) :
       handleQueue[i].peer = c /\ OwnInfo(handleQueue[i], c)
  \/ /\ pc[ReqThread] \in {"ClientInfo", "authorize"}
     /\ handling.peer = c /\ OwnInfo(handling, c)

HandshakeCompletes ==
  \A c \in Conns :
    mapConnections[c] # InvalidUserID /\ InfoArrived(c) ~>
      \/ mapConnections[c] = InvalidUserID \/ ~pushEnabled
      \/ mapClients[mapConnections[c]].state = "Active"
      \/ Len(handleQueue) >= MaxQueueSize /\ ~InfoTaken(c)

(* After CloseSocket both threads end, so that Wait() returns, and no      *)
(* connection is left.                                                     *)
ShutdownCompletes ==
  goingExit ~> /\ pc[ConnThread] = "exited" /\ pc[ReqThread] = "exited"
               /\ \A c \in Conns : connState[c] \in {"Unused", "Dead"}

=============================================================================
