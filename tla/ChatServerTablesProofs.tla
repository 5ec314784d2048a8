----------------------- MODULE ChatServerTablesProofs -----------------------
(***************************************************************************)
(* The ids and the tables of a server whose callbacks run on its own       *)
(* connection thread only: no id is given out twice; m_mapClients and      *)
(* m_mapConnections agree, as long as the user does not move a client to   *)
(* the id AcceptClient has just generated and not yet reserved; the id is  *)
(* free, if he neither reserves nor changes ids.                           *)
(***************************************************************************)
EXTENDS ChatServerProofs

(* No other socket of the process runs this server's callbacks.            *)
OwnCallbacksOnly == OtherCallbackThreads = {}

-----------------------------------------------------------------------------
(* The invariants.                                                         *)

(* Every id given out is below m_lastFreeID; the one on its way is not yet *)
(* anybody's.                                                              *)
GeneratedIsNew ==
  LET here == place[ConnThread] IN
    /\ pc[ConnThread] \in {"skipping", "advance"} => here.id = lastFreeID
    /\ pc[ConnThread] \in {"reserve", "preAccept", "insert", "bind"} =>
         here.id < lastFreeID
    /\ pc[ConnThread] \in {"reserve", "preAccept", "insert"} =>
         \A c \in Conns : boundID[c] # here.id

BoundBelow == \A c \in Conns : boundID[c] < lastFreeID

IdsInv == BoundBelow /\ GeneratedIsNew /\ IdsUnique

(* A connection is accepted once: until its first callback is handled      *)
(* nobody has bound it or is about to.                                     *)
Accepting(c) == pc[ConnThread] \in AcceptLabels /\ place[ConnThread].conn = c

Untouched(c) == boundID[c] = InvalidUserID /\ ~Accepting(c)

CallbacksAreFresh ==
  \A i \in 1..Len(callbacks) : callbacks[i].old = "None" =>
    connState[callbacks[i].conn] # "Unused" /\ Untouched(callbacks[i].conn)

CallbacksDiffer ==
  \A i, j \in 1..Len(callbacks) :
    /\ i # j /\ callbacks[i].old = "None" /\ callbacks[j].old = "None"
    => callbacks[i].conn # callbacks[j].conn

UnusedIsFresh == \A c \in Conns : connState[c] = "Unused" => Untouched(c)

AcceptedIsUnbound ==
  pc[ConnThread] \in AcceptLabels \ {"bind"} =>
    boundID[place[ConnThread].conn] = InvalidUserID

FreshInv ==
  CallbacksAreFresh /\ CallbacksDiffer /\ UnusedIsFresh /\ AcceptedIsUnbound

(* The id AcceptClient has found free, from then on until it is inserted.  *)
AwaitingLabels == {"take", "advance", "reserve", "preAccept", "insert"}

GeneratedID == IF pc[ConnThread] = "take" THEN lastFreeID ELSE place[ConnThread].id

(* Nobody is connected under it.                                           *)
HasNoClient(id) == mapClients[id] = NoClient \/ mapClients[id].connection = NoConn

GeneratedIsVacant ==
  pc[ConnThread] \in AwaitingLabels =>
    GeneratedID \in UserIDs /\ HasNoClient(GeneratedID)

(* A connection in the table has been accepted; while its entry is being   *)
(* filled in it is the only one under its id.                              *)
MappedWasBound ==
  \A c \in Conns :
    mapConnections[c] # InvalidUserID => boundID[c] # InvalidUserID

BindIsMapped ==
  pc[ConnThread] = "bind" =>
    \A c \in Conns :
      mapConnections[c] = place[ConnThread].id <=> c = place[ConnThread].conn

TablesInv == MappedWasBound /\ GeneratedIsVacant /\ BindIsMapped /\ TablesAgree

(* Nobody changes ids: a connection is in the table under the id it was    *)
(* accepted under.                                                         *)
MappedIsBound ==
  \A c \in Conns :
    mapConnections[c] # InvalidUserID => boundID[c] = mapConnections[c]

-----------------------------------------------------------------------------
(* What the types say of the tables, for the leaves.                       *)
LEMMA TableTypes ==
  ASSUME TypeOK
  PROVE  /\ mapClients \in ClientsMap /\ mapConnections \in ConnectionsMap
         /\ boundID \in [Conns -> UserIDs] /\ lastFreeID \in Int
         /\ lock \in [UserIDs -> Threads \cup {NoThread}]
         /\ connState \in [Conns -> {"Unused", "Connecting", "Connected",
                                     "Closed", "Dead"}]
         /\ callbacks \in Seq(Callback)
         /\ pc \in [Threads -> ConnLabels \cup ReqLabels \cup {"idle", "closing"}]
         /\ place \in [CallbackThreads -> [conn : Peers, id : UserIDs]]
         /\ ConnThread \in Threads /\ ConnThread \in CallbackThreads
         /\ place[ConnThread].id \in UserIDs
         /\ pc[ConnThread] \in AcceptLabels \cup {"remove"} =>
              place[ConnThread].conn \in Conns
         /\ pc[ConnThread] \in GeneratedLabels =>
              ~IsLibReservedID(place[ConnThread].id)
PROOF
  <1>1. ConnThread \in CallbackThreads
    BY ThreadsDiffer
  <1>2. lastFreeID \in Int
    BY RegistryAssumption DEF TypeOK, TablesOK
  <1> QED
    BY <1>1, <1>2, ThreadsDiffer
       DEF TypeOK, TablesOK, NetworkOK, ThreadsOK, PlacesOK

-----------------------------------------------------------------------------
(* Ids.                                                                    *)

(* Ids stay unique when none is given out and the thread that generates    *)
(* them stays where it is or has nothing to do with them.                  *)
LEMMA IdsKept ==
  ASSUME IdsInv, UNCHANGED <<boundID, lastFreeID>>,
         \/ pc'[ConnThread] \notin GeneratedLabels
         \/ pc'[ConnThread] = pc[ConnThread] /\ place'[ConnThread] = place[ConnThread]
  PROVE  IdsInv'
PROOF
  BY DEF IdsInv, BoundBelow, GeneratedIsNew, IdsUnique, GeneratedLabels

(* Accepting a client gives it an id above those given out before.         *)
LEMMA IdsCallbackStep ==
  ASSUME TypeOK, IdsInv, CallbackStep(ConnThread)
  PROVE  IdsInv'
PROOF
  <1>1. CASE \/ OnConnecting(ConnThread) \/ OnClosedWhileConnecting(ConnThread)
             \/ OnClosedWhileConnected(ConnThread)
    <2>1. UNCHANGED <<boundID, lastFreeID>> /\ pc'[ConnThread] \notin GeneratedLabels
      BY <1>1, TableTypes
         DEF OnConnecting, OnClosedWhileConnecting, OnClosedWhileConnected,
             NextCallback, tables, Goto, GeneratedLabels
    <2> QED
      BY <2>1, IdsKept
  <1>2. CASE \/ RemoveClientByConnection(ConnThread) \/ BindClient(ConnThread)
             \/ FindFreeID(ConnThread)
    <2>1. UNCHANGED <<boundID, lastFreeID>> /\ pc'[ConnThread] \notin GeneratedLabels
      BY <1>2, TableTypes
         DEF RemoveClientByConnection, BindClient, FindFreeID, tables, Goto,
             GeneratedLabels
    <2> QED
      BY <2>1, IdsKept
  <1>3. CASE SkipTakenID(ConnThread)
    <2>1. UNCHANGED <<boundID, lastFreeID>> /\ pc'[ConnThread] = "skip"
      BY <1>3, TableTypes DEF SkipTakenID, Goto, tables
    <2> QED
      BY <2>1, IdsKept DEF GeneratedLabels
  <1>4. CASE ReadTakenID(ConnThread)
    <2>1. UNCHANGED <<boundID, lastFreeID>> /\ pc'[ConnThread] = "skipping"
          /\ place'[ConnThread].id = lastFreeID
      BY <1>4, TableTypes DEF ReadTakenID, Goto, tables
    <2> QED
      BY <2>1 DEF IdsInv, BoundBelow, IdsUnique, GeneratedIsNew
  <1>5. CASE PassTakenID(ConnThread)
    <2>1. UNCHANGED boundID /\ lastFreeID' = lastFreeID + 1
          /\ pc'[ConnThread] = "generate"
      BY <1>5, TableTypes DEF PassTakenID, Goto, IdsInv, GeneratedIsNew
    <2>2. BoundBelow'
      BY <2>1, TableTypes DEF BoundBelow, IdsInv, UserIDs
    <2>3. IdsUnique' /\ GeneratedIsNew'
      BY <2>1 DEF IdsInv, IdsUnique, GeneratedIsNew
    <2> QED
      BY <2>2, <2>3 DEF IdsInv
  <1>6. CASE TakeID(ConnThread)
    <2>1. UNCHANGED <<boundID, lastFreeID>> /\ pc'[ConnThread] = "advance"
          /\ place'[ConnThread].id = lastFreeID
      BY <1>6, TableTypes DEF TakeID, Goto, tables
    <2> QED
      BY <2>1 DEF IdsInv, BoundBelow, IdsUnique, GeneratedIsNew
  <1>7. CASE AdvanceID(ConnThread)
    <2>1. /\ UNCHANGED <<boundID, place>> /\ pc'[ConnThread] = "reserve"
          /\ lastFreeID' = lastFreeID + 1 /\ place[ConnThread].id = lastFreeID
      BY <1>7, TableTypes DEF AdvanceID, Goto, IdsInv, GeneratedIsNew
    <2>2. BoundBelow' /\ GeneratedIsNew'
      BY <2>1, TableTypes DEF IdsInv, BoundBelow, GeneratedIsNew, UserIDs
    <2> QED
      BY <2>1, <2>2 DEF IdsInv, IdsUnique
  <1>8. CASE ReserveGeneratedID(ConnThread)
    <2>1. /\ UNCHANGED <<boundID, lastFreeID, place>>
          /\ pc[ConnThread] = "reserve" /\ pc'[ConnThread] = "preAccept"
      BY <1>8, TableTypes DEF ReserveGeneratedID, Goto
    <2> QED
      BY <2>1 DEF IdsInv, BoundBelow, IdsUnique, GeneratedIsNew
  <1>9. CASE PreAcceptClient(ConnThread)
    <2>1. /\ UNCHANGED <<boundID, lastFreeID>> /\ pc[ConnThread] = "preAccept"
          /\ \/ pc'[ConnThread] = "insert" /\ UNCHANGED place
             \/ pc'[ConnThread] = "callbacks"
      BY <1>9, TableTypes DEF PreAcceptClient, Goto, tables
    <2>2. CASE pc'[ConnThread] = "callbacks"
      BY <2>1, <2>2, IdsKept DEF GeneratedLabels
    <2> QED
      BY <2>1, <2>2 DEF IdsInv, BoundBelow, IdsUnique, GeneratedIsNew
  <1>10. CASE InsertClient(ConnThread)
    <2>1. /\ boundID' = [boundID EXCEPT ![place[ConnThread].conn] =
                           place[ConnThread].id]
          /\ UNCHANGED <<lastFreeID, place>>
          /\ pc[ConnThread] = "insert" /\ pc'[ConnThread] = "bind"
      BY <1>10, TableTypes DEF InsertClient, Goto
    <2>2. place[ConnThread].id < lastFreeID
          /\ \A c \in Conns : boundID[c] # place[ConnThread].id
      BY <2>1 DEF IdsInv, GeneratedIsNew
    <2>3. BoundBelow' /\ GeneratedIsNew' /\ IdsUnique'
      BY <2>1, <2>2, TableTypes DEF IdsInv, BoundBelow, GeneratedIsNew, IdsUnique
    <2> QED
      BY <2>3 DEF IdsInv
  <1> QED
    BY <1>1, <1>2, <1>3, <1>4, <1>5, <1>6, <1>7, <1>8, <1>9, <1>10
      DEF CallbackStep

(* No step gives out an id twice.                                          *)
LEMMA IdsStep ==
  ASSUME OwnCallbacksOnly, TypeOK, IdsInv, [Next]_vars
  PROVE  IdsInv'
PROOF
  <1>1. CASE Environment \/ UNCHANGED vars
    BY <1>1, IdsKept DEF Environment, vars, tables, work
  <1>2. CASE LoopStep \/ IncomingStep \/ QueuedStep \/ ShutdownStep
    BY <1>2, ConnOutside, IdsKept DEF AcceptLabels, GeneratedLabels
  <1>3. CASE ReqStep \/ \E u \in UserThreads : UserStep(u)
    BY <1>3, OthersStay, IdsKept, ThreadsDiffer
  <1> QED
    BY <1>1, <1>2, <1>3, IdsCallbackStep
       DEF Next, ConnStep, Terminated, OwnCallbacksOnly

(* In the beginning no id has been given out.                              *)
LEMMA IdsInit == Init => IdsInv
PROOF
  <1>1. Init => /\ pc[ConnThread] = "top"
                /\ boundID = [c \in Conns |-> InvalidUserID]
                /\ lastFreeID = LibReservedUserIDs
    BY ThreadsDiffer DEF Init
  <1> QED
    BY <1>1, RegistryAssumption
       DEF IdsInv, BoundBelow, GeneratedIsNew, IdsUnique, InvalidUserID

(* GenerateUniqueUserID never gives an id to two connections, however many *)
(* come and go, as long as no other socket runs this server's callbacks    *)
(* (TLC finds two with one id otherwise).                                  *)
THEOREM IdsAreUnique ==
  ASSUME OwnCallbacksOnly
  PROVE  Spec => []IdsUnique
PROOF
  <1>1. TypeOK /\ IdsInv /\ [Next]_vars => IdsInv'
    BY IdsStep
  <1>2. IdsInv => IdsUnique
    BY DEF IdsInv
  <1> QED
    BY <1>1, <1>2, IdsInit, TypeCorrect, PTL DEF Spec

-----------------------------------------------------------------------------
(* Each connection is accepted at most once.                               *)

(* Callbacks are about connections.                                        *)
LEMMA CallbackConns ==
  ASSUME TypeOK
  PROVE  /\ Len(callbacks) \in Nat
         /\ \A i \in 1..Len(callbacks) : callbacks[i].conn \in Conns
         /\ callbacks # <<>> =>
              /\ 1 \in 1..Len(callbacks) /\ Head(callbacks) = callbacks[1]
              /\ \A i \in 1..Len(Tail(callbacks)) :
                   /\ i + 1 \in 1..Len(callbacks)
                   /\ Tail(callbacks)[i] = callbacks[i + 1]
PROOF
  <1>1. callbacks \in Seq(Callback)
    BY TableTypes
  <1>2. Len(callbacks) \in Nat /\ \A i \in 1..Len(callbacks) : callbacks[i] \in Callback
    BY <1>1
  <1>3. \A i \in 1..Len(callbacks) : callbacks[i].conn \in Conns
    BY <1>2 DEF Callback
  <1>4. ASSUME callbacks # <<>>
        PROVE  /\ 1 \in 1..Len(callbacks) /\ Head(callbacks) = callbacks[1]
               /\ \A i \in 1..Len(Tail(callbacks)) :
                    /\ i + 1 \in 1..Len(callbacks)
                    /\ Tail(callbacks)[i] = callbacks[i + 1]
    BY <1>1, <1>4
  <1> QED
    BY <1>2, <1>3, <1>4

(* Taking the first callback leaves different ones.                        *)
LEMMA TailDiffers ==
  ASSUME TypeOK, CallbacksDiffer, callbacks # <<>>, callbacks' = Tail(callbacks)
  PROVE  CallbacksDiffer'
PROOF
  <1>1. \A i \in 1..Len(callbacks') :
          i + 1 \in 1..Len(callbacks) /\ callbacks'[i] = callbacks[i + 1]
    BY CallbackConns
  <1> QED
    BY <1>1 DEF CallbacksDiffer

(* What keeps it so: callbacks are only consumed, connections that exist   *)
(* go on existing, nothing is bound, nothing new is accepted.              *)
LEMMA FreshKept ==
  ASSUME TypeOK, FreshInv, UNCHANGED boundID,
         callbacks' = callbacks \/ callbacks' = <<>>
           \/ (callbacks # <<>> /\ callbacks' = Tail(callbacks)),
         \A c \in Conns : connState'[c] = "Unused" => connState[c] = "Unused",
         pc'[ConnThread] \in AcceptLabels =>
           /\ pc[ConnThread] \in AcceptLabels \ {"bind"}
           /\ place'[ConnThread].conn = place[ConnThread].conn
  PROVE  FreshInv'
PROOF
  <1>1. \A c : Untouched(c) => Untouched(c)'
    BY DEF Untouched, Accepting
  <1>2. UnusedIsFresh'
    BY <1>1 DEF FreshInv, UnusedIsFresh
  <1>3. AcceptedIsUnbound'
    BY DEF FreshInv, AcceptedIsUnbound
  <1>4. CASE callbacks' = callbacks \/ callbacks' = <<>>
    <2>1. \A i \in 1..Len(callbacks') :
            i \in 1..Len(callbacks) /\ callbacks'[i] = callbacks[i]
      BY <1>4
    <2>2. CallbacksDiffer'
      BY <2>1 DEF FreshInv, CallbacksDiffer
    <2>3. CallbacksAreFresh'
      BY <1>1, <2>1, CallbackConns DEF FreshInv, CallbacksAreFresh
    <2> QED
      BY <1>2, <1>3, <2>2, <2>3 DEF FreshInv
  <1>5. CASE callbacks # <<>> /\ callbacks' = Tail(callbacks)
    <2>1. \A i \in 1..Len(callbacks') :
            i + 1 \in 1..Len(callbacks) /\ callbacks'[i] = callbacks[i + 1]
      BY <1>5, CallbackConns
    <2>2. CallbacksDiffer'
      BY <1>5, TailDiffers DEF FreshInv
    <2>3. CallbacksAreFresh'
      BY <1>1, <2>1, CallbackConns DEF FreshInv, CallbacksAreFresh
    <2> QED
      BY <1>2, <1>3, <2>2, <2>3 DEF FreshInv
  <1> QED
    BY <1>4, <1>5

(* The only new callback about a new connection is PeerConnects's.         *)
LEMMA FreshEnvironment ==
  ASSUME TypeOK, FreshInv, Environment
  PROVE  FreshInv'
PROOF
  <1>1. UNCHANGED <<boundID, pc, place>>
    BY DEF Environment, tables, work
  <1>2. \A c : Untouched(c)' <=> Untouched(c)
    BY <1>1 DEF Untouched, Accepting
  <1>3. AcceptedIsUnbound'
    BY <1>1 DEF FreshInv, AcceptedIsUnbound
  <1>4. PICK conn \in Conns :
          PeerConnects(conn) \/ PeerCloses(conn) \/ PeerSends(conn)
    BY DEF Environment
  <1>5. CASE PeerSends(conn)
    BY <1>1, <1>2, <1>3, <1>5
       DEF PeerSends, FreshInv, CallbacksAreFresh, CallbacksDiffer, UnusedIsFresh
  <1>6. CASE PeerConnects(conn) \/ PeerCloses(conn)
    <2>1. PICK old \in {"None", "Connecting", "Connected"} :
            /\ callbacks' = Append(callbacks, [conn |-> conn, old |-> old])
            /\ old = "None" => connState[conn] = "Unused"
      BY <1>6, Zenon DEF PeerConnects, PeerCloses
    <2>2. \A c \in Conns : connState'[c] = "Unused" =>
            c # conn /\ connState[c] = "Unused"
      BY <1>6, TableTypes DEF PeerConnects, PeerCloses
    <2>3. \A i \in 1..Len(callbacks') :
            \/ i \in 1..Len(callbacks) /\ callbacks'[i] = callbacks[i]
            \/ i = Len(callbacks) + 1 /\ callbacks'[i] = [conn |-> conn, old |-> old]
      BY <2>1, TableTypes
    <2>4. old = "None" => Untouched(conn) /\ \A i \in 1..Len(callbacks) :
            callbacks[i].old = "None" => callbacks[i].conn # conn
      BY <2>1 DEF FreshInv, UnusedIsFresh, CallbacksAreFresh
    <2>5. CallbacksAreFresh'
      BY <1>2, <2>2, <2>3, <2>4, CallbackConns DEF FreshInv, CallbacksAreFresh
    <2>6. CallbacksDiffer'
      BY <2>3, <2>4 DEF FreshInv, CallbacksDiffer
    <2>7. UnusedIsFresh'
      BY <1>2, <2>2 DEF FreshInv, UnusedIsFresh
    <2> QED
      BY <1>3, <2>5, <2>6, <2>7 DEF FreshInv
  <1> QED
    BY <1>4, <1>5, <1>6

(* A callback takes a connection nobody has touched, or none.              *)
LEMMA FreshCallbackStep ==
  ASSUME TypeOK, FreshInv, CallbackStep(ConnThread)
  PROVE  FreshInv'
PROOF
  <1> DEFINE conn == Head(callbacks).conn
  <1>1. CASE \/ OnClosedWhileConnecting(ConnThread)
             \/ OnClosedWhileConnected(ConnThread)
             \/ OnConnecting(ConnThread) /\ connState[conn] # "Connecting"
    <2>1. /\ UNCHANGED boundID /\ callbacks # <<>> /\ callbacks' = Tail(callbacks)
          /\ pc'[ConnThread] \notin AcceptLabels
      BY <1>1, TableTypes
         DEF OnConnecting, OnClosedWhileConnecting, OnClosedWhileConnected,
             NextCallback, tables, Goto, AcceptLabels
    <2>2. \A c \in Conns : connState'[c] = "Unused" => connState[c] = "Unused"
      BY <1>1, TableTypes
         DEF OnConnecting, OnClosedWhileConnecting, OnClosedWhileConnected,
             CloseConnection
    <2> QED
      BY <2>1, <2>2, FreshKept
  <1>2. CASE OnConnecting(ConnThread) /\ connState[conn] = "Connecting"
    <2>1. /\ callbacks # <<>> /\ callbacks' = Tail(callbacks)
          /\ callbacks[1].old = "None" /\ callbacks[1].conn = conn
          /\ UNCHANGED boundID /\ pc[ConnThread] = "callbacks"
          /\ 1 \in 1..Len(callbacks) /\ conn \in Conns
      BY <1>2, CallbackConns DEF OnConnecting, NextCallback, tables
    <2> HIDE DEF conn
    <2>2. /\ pc'[ConnThread] = "generate" /\ place'[ConnThread].conn = conn
          /\ \A c \in Conns : connState'[c] = "Unused" => connState[c] = "Unused"
      BY <1>2, <2>1, TableTypes DEF conn, OnConnecting, Goto, Peers
    <2>3. boundID[conn] = InvalidUserID /\ connState[conn] # "Unused"
      BY <2>1 DEF FreshInv, CallbacksAreFresh, Untouched
    <2>4. \A c : c # conn /\ Untouched(c) => Untouched(c)'
      BY <2>1, <2>2 DEF Untouched, Accepting
    <2>5. \A i \in 1..Len(callbacks') :
            i + 1 \in 1..Len(callbacks) /\ callbacks'[i] = callbacks[i + 1]
      <3>1. callbacks # <<>> /\ callbacks' = Tail(callbacks)
        BY <2>1
      <3> QED
        BY <3>1, CallbackConns
    <2>6. CallbacksDiffer'
      <3>1. callbacks # <<>> /\ callbacks' = Tail(callbacks)
        BY <2>1
      <3> QED
        BY <3>1, TailDiffers DEF FreshInv
    <2>7. CallbacksAreFresh'
      <3>1. \A i \in 1..Len(callbacks') : callbacks'[i].old = "None" =>
              callbacks'[i].conn # conn
        BY <2>1, <2>5 DEF FreshInv, CallbacksDiffer
      <3> QED
        BY <2>2, <2>4, <2>5, <3>1, CallbackConns DEF FreshInv, CallbacksAreFresh
    <2>8. UnusedIsFresh'
      BY <2>2, <2>3, <2>4 DEF FreshInv, UnusedIsFresh
    <2>9. AcceptedIsUnbound'
      BY <2>1, <2>2, <2>3 DEF AcceptedIsUnbound
    <2> QED
      BY <2>6, <2>7, <2>8, <2>9 DEF FreshInv
  <1>3. CASE RemoveClientByConnection(ConnThread) \/ BindClient(ConnThread)
    <2>1. UNCHANGED <<boundID, callbacks>> /\ pc'[ConnThread] = "callbacks"
      BY <1>3, TableTypes DEF RemoveClientByConnection, BindClient, Goto
    <2>2. \A c \in Conns : connState'[c] = "Unused" => connState[c] = "Unused"
      BY <1>3, TableTypes DEF RemoveClientByConnection, BindClient, CloseConnection
    <2> QED
      BY <2>1, <2>2, FreshKept DEF AcceptLabels
  <1>4. CASE \/ SkipTakenID(ConnThread) \/ ReadTakenID(ConnThread) \/ PassTakenID(ConnThread)
             \/ FindFreeID(ConnThread)
             \/ TakeID(ConnThread) \/ AdvanceID(ConnThread)
             \/ ReserveGeneratedID(ConnThread) \/ PreAcceptClient(ConnThread)
    <2>1. UNCHANGED <<boundID, callbacks>>
      BY <1>4 DEF SkipTakenID, ReadTakenID, PassTakenID, FindFreeID, TakeID, AdvanceID,
                  ReserveGeneratedID, PreAcceptClient, tables
    <2>2. \A c \in Conns : connState'[c] = "Unused" => connState[c] = "Unused"
      BY <1>4, TableTypes
         DEF SkipTakenID, ReadTakenID, PassTakenID,
             FindFreeID, TakeID, AdvanceID, ReserveGeneratedID,
             PreAcceptClient, CloseConnection
    <2>3. pc[ConnThread] \in AcceptLabels \ {"bind"}
      BY <1>4 DEF SkipTakenID, ReadTakenID, PassTakenID, FindFreeID, TakeID, AdvanceID,
                  ReserveGeneratedID, PreAcceptClient, AcceptLabels
    <2>4. \/ place'[ConnThread].conn = place[ConnThread].conn
          \/ pc'[ConnThread] = "callbacks"
      BY <1>4, TableTypes
         DEF SkipTakenID, ReadTakenID, PassTakenID,
             FindFreeID, TakeID, AdvanceID, ReserveGeneratedID,
             PreAcceptClient, Goto
    <2> QED
      BY <2>1, <2>2, <2>3, <2>4, FreshKept DEF AcceptLabels
  <1>5. CASE InsertClient(ConnThread)
    <2>1. /\ boundID' = [boundID EXCEPT ![place[ConnThread].conn] =
                           place[ConnThread].id]
          /\ UNCHANGED <<callbacks, connState, place>>
          /\ pc[ConnThread] = "insert" /\ pc'[ConnThread] = "bind"
      BY <1>5, TableTypes DEF InsertClient, Goto
    <2>2. \A c \in Conns : Untouched(c) => Untouched(c)'
      BY <2>1, TableTypes DEF Untouched, Accepting, AcceptLabels
    <2> QED
      BY <2>1, <2>2, CallbackConns
         DEF FreshInv, CallbacksAreFresh, CallbacksDiffer, UnusedIsFresh,
             AcceptedIsUnbound
  <1> QED
    BY <1>1, <1>2, <1>3, <1>4, <1>5 DEF CallbackStep

(* No connection is accepted twice.                                        *)
LEMMA FreshStep ==
  ASSUME OwnCallbacksOnly, TypeOK, FreshInv, [Next]_vars
  PROVE  FreshInv'
PROOF
  <1>1. CASE UNCHANGED vars \/ Terminated
    BY <1>1 DEF Terminated, vars, network, tables, work, FreshInv,
       CallbacksAreFresh, CallbacksDiffer, UnusedIsFresh, AcceptedIsUnbound,
       Untouched, Accepting
  <1>2. CASE LoopStep \/ IncomingStep \/ QueuedStep \/ ShutdownStep
    <2>1. callbacks' = callbacks \/ callbacks' = <<>>
      BY <1>2 DEF LoopStep, IncomingStep, QueuedStep, ShutdownStep, Sweep,
                  KillInterface, network
    <2>2. \A c \in Conns : connState'[c] = "Unused" => connState[c] = "Unused"
      BY <1>2 DEF LoopStep, IncomingStep, QueuedStep, ShutdownStep, Sweep,
                  KillInterface, network
    <2> QED
      BY <1>2, <2>1, <2>2, ConnOutside, FreshKept
  <1>3. CASE ReqStep \/ \E u \in UserThreads : UserStep(u)
    <2>1. \A c \in Conns : connState'[c] = "Unused" => connState[c] = "Unused"
      BY <1>3, TableTypes
         DEF ReqStep, KeptByRequests, network, UserStep, UserRemovesClient,
             UserReservesID, UserChangesID, UserSends, UserDisablesPush,
             UserSetsGoingExit, CloseConnection
    <2>2. /\ pc'[ConnThread] = pc[ConnThread]
          /\ UNCHANGED <<place, boundID, callbacks>>
      BY <1>3, OthersStay, ThreadsDiffer
    <2> QED
      BY <2>1, <2>2, CallbackConns
         DEF FreshInv, CallbacksAreFresh, CallbacksDiffer, UnusedIsFresh,
             AcceptedIsUnbound, Untouched, Accepting
  <1> QED
    BY <1>1, <1>2, <1>3, FreshEnvironment, FreshCallbackStep
       DEF Next, ConnStep, OwnCallbacksOnly

-----------------------------------------------------------------------------
(* The tables.                                                             *)

(* The user does not call ChangeClientID; or no call of his moves a client *)
(* to the very id AcceptClient has found and not yet inserted.             *)
NoIdChange == "change" \notin UserOps

TakesGeneratedID(u) ==
  /\ pc[ConnThread] \in AwaitingLabels
  /\ \E currentID \in UserIDs :
       ~IsLibReservedID(currentID) /\ UserChangesID(u, currentID, GeneratedID)

ChangesSpareGenerated ==
  \A u \in UserThreads : ~(UserStep(u) /\ TakesGeneratedID(u))

(* Only the connection thread can be between insertion and binding.        *)
LEMMA BindingIsConn ==
  ASSUME OwnCallbacksOnly
  PROVE  \A id : Binding(id) <=>
           pc[ConnThread] = "bind" /\ place[ConnThread].id = id
PROOF
  BY DEF OwnCallbacksOnly, Binding, CallbackThreads

(* The same one step later.                                                *)
LEMMA BindingIsConnNext ==
  ASSUME OwnCallbacksOnly
  PROVE  \A id : Binding(id)' <=>
           pc'[ConnThread] = "bind" /\ place'[ConnThread].id = id
PROOF
  BY DEF OwnCallbacksOnly, Binding, CallbackThreads

(* What a step may do to an entry without touching the other table: leave  *)
(* it, reserve it, or write a client info that carries its key.            *)
Replaces(old, new, id) ==
  \/ new = old
  \/ old = NoClient /\ new = ReservedClient /\ ~IsLibReservedID(id)
  \/ /\ old \in HClient /\ new \in HClient
     /\ new.connection = old.connection /\ new.userID = id

(* The generated id stays vacant when entries are only replaced that way.  *)
LEMMA VacantKept ==
  ASSUME TypeOK, GeneratedIsVacant,
         \A id \in UserIDs : Replaces(mapClients[id], mapClients'[id], id),
         pc'[ConnThread] \in AwaitingLabels =>
           pc[ConnThread] \in AwaitingLabels /\ GeneratedID' = GeneratedID
  PROVE  GeneratedIsVacant'
PROOF
  <1> SUFFICES ASSUME pc'[ConnThread] \in AwaitingLabels
               PROVE  GeneratedID' \in UserIDs /\ HasNoClient(GeneratedID)'
    BY DEF GeneratedIsVacant
  <1>1. PICK id \in UserIDs : id = GeneratedID /\ HasNoClient(id)
    BY DEF GeneratedIsVacant
  <1>2. Replaces(mapClients[id], mapClients'[id], id) /\ ReservedClient.connection = NoConn
        /\ NoClient \notin HClient
    BY NoClientAssumption DEF ReservedClient
  <1>3. HasNoClient(id)'
    BY <1>1, <1>2 DEF HasNoClient, Replaces
  <1>4. GeneratedID' = id
    BY <1>1
  <1> QED
    BY <1>1, <1>3, <1>4 DEF HasNoClient

(* The tables agree when entries are only replaced that way.               *)
LEMMA TablesKept ==
  ASSUME OwnCallbacksOnly, TypeOK, TablesInv, GeneratedIsVacant',
         UNCHANGED <<mapConnections, boundID>>,
         \A id \in UserIDs : Replaces(mapClients[id], mapClients'[id], id),
         pc[ConnThread] = "bind" <=> pc'[ConnThread] = "bind",
         pc[ConnThread] = "bind" => place'[ConnThread] = place[ConnThread]
  PROVE  TablesInv'
PROOF
  <1>1. /\ mapConnections \in ConnectionsMap /\ mapClients \in ClientsMap
        /\ NoClient \notin HClient
    BY TableTypes, NoClientAssumption
  <1>2. \A id : Binding(id)' <=> Binding(id)
    BY BindingIsConn, BindingIsConnNext
  <1>3. MappedWasBound' /\ BindIsMapped'
    BY DEF TablesInv, MappedWasBound, BindIsMapped
  <1>4. ConnectionsAgree'
    <2> SUFFICES ASSUME NEW c \in Conns, mapConnections[c] # InvalidUserID
                 PROVE  LET id == mapConnections[c]
                        IN  /\ ~IsLibReservedID(id)
                            /\ mapClients'[id] # NoClient
                            /\ \/ Binding(id)
                               \/ /\ mapClients'[id].connection = c
                                  /\ mapClients'[id].userID = id
      BY <1>2 DEF ConnectionsAgree
    <2> DEFINE id == mapConnections[c]
    <2>1. id \in UserIDs /\ Replaces(mapClients[id], mapClients'[id], id)
      BY <1>1 DEF ConnectionsMap
    <2>2. /\ ~IsLibReservedID(id) /\ mapClients[id] # NoClient
          /\ \/ Binding(id)
             \/ mapClients[id].connection = c /\ mapClients[id].userID = id
      BY DEF TablesInv, TablesAgree, ConnectionsAgree
    <2> QED
      BY <1>1, <2>1, <2>2 DEF Replaces
  <1>5. ClientsAgree'
    <2> SUFFICES ASSUME NEW id \in UserIDs, mapClients'[id] # NoClient
                 PROVE  /\ ~IsLibReservedID(id)
                        /\ mapClients'[id].connection # NoConn =>
                             mapConnections[mapClients'[id].connection] = id
      BY DEF ClientsAgree
    <2>1. ReservedClient.connection = NoConn
      BY DEF ReservedClient
    <2>2. mapClients[id] # NoClient =>
            /\ ~IsLibReservedID(id)
            /\ mapClients[id].connection # NoConn =>
                 mapConnections[mapClients[id].connection] = id
      BY DEF TablesInv, TablesAgree, ClientsAgree
    <2> QED
      BY <1>1, <2>1, <2>2 DEF Replaces
  <1> QED
    BY <1>3, <1>4, <1>5 DEF TablesInv, TablesAgree

(* Reserving an id is such a replacement.                                  *)
LEMMA ReserveReplaces ==
  ASSUME NEW clients \in ClientsMap, NEW id \in UserIDs, NEW other \in UserIDs
  PROVE  Replaces(clients[other], ReserveUserID(clients, id)[other], other)
PROOF
  <1>1. CASE GetUserIDState(clients, id) = "Free"
    <2>1. ~IsLibReservedID(id) /\ clients[id] = NoClient
      BY <1>1 DEF GetUserIDState
    <2> QED
      BY <1>1, <2>1 DEF Replaces, ReserveUserID, ClientsMap
  <1> QED
    BY <1>1 DEF Replaces, ReserveUserID

(* Erasing a client from both tables keeps them in agreement.              *)
LEMMA TablesErase ==
  ASSUME OwnCallbacksOnly, TypeOK, TablesInv, UNCHANGED boundID,
         pc[ConnThread] # "bind", pc'[ConnThread] # "bind",
         pc'[ConnThread] \in AwaitingLabels =>
           pc[ConnThread] \in AwaitingLabels /\ GeneratedID' = GeneratedID,
         NEW conn, NEW id, Erase(conn, id),
         conn \in Conns => mapConnections[conn] = id,
         \A c \in Conns :
           mapConnections[c] = id /\ id # InvalidUserID => c = conn
  PROVE  TablesInv'
PROOF
  <1>1. mapConnections \in ConnectionsMap /\ mapClients \in ClientsMap
    BY TableTypes
  <1>2. /\ \A i \in UserIDs :
             mapClients'[i] = IF i = id THEN NoClient ELSE mapClients[i]
        /\ \A c \in Conns :
             mapConnections'[c] = IF c = conn THEN InvalidUserID
                                  ELSE mapConnections[c]
    BY DEF Erase
  <1>3. \A i : ~Binding(i) /\ ~Binding(i)'
    BY BindingIsConn, BindingIsConnNext
  <1>4. MappedWasBound' /\ BindIsMapped'
    BY <1>2 DEF TablesInv, MappedWasBound, BindIsMapped
  <1>5. ConnectionsAgree'
    <2> SUFFICES ASSUME NEW c \in Conns, mapConnections'[c] # InvalidUserID
                 PROVE  LET i == mapConnections'[c]
                        IN  /\ ~IsLibReservedID(i)
                            /\ mapClients'[i] # NoClient
                            /\ mapClients'[i].connection = c
                            /\ mapClients'[i].userID = i
      BY DEF ConnectionsAgree
    <2>1. /\ c # conn /\ mapConnections'[c] = mapConnections[c]
          /\ mapConnections[c] # id /\ mapConnections[c] \in UserIDs
      BY <1>1, <1>2 DEF ConnectionsMap
    <2> QED
      BY <1>2, <1>3, <2>1 DEF TablesInv, TablesAgree, ConnectionsAgree
  <1>6. ClientsAgree'
    <2> SUFFICES ASSUME NEW i \in UserIDs, mapClients'[i] # NoClient
                 PROVE  /\ ~IsLibReservedID(i)
                        /\ mapClients'[i].connection # NoConn =>
                             mapConnections'[mapClients'[i].connection] = i
      BY DEF ClientsAgree
    <2>1. i # id /\ mapClients'[i] = mapClients[i] /\ mapClients[i] \in HClient
      BY <1>1, <1>2 DEF ClientsMap
    <2>2. /\ ~IsLibReservedID(i)
          /\ mapClients[i].connection # NoConn =>
               /\ mapClients[i].connection \in Conns
               /\ mapConnections[mapClients[i].connection] = i
      BY <2>1 DEF TablesInv, TablesAgree, ClientsAgree, HClient
    <2> QED
      BY <1>2, <2>1, <2>2
  <1>7. GeneratedIsVacant'
    <2> SUFFICES ASSUME pc'[ConnThread] \in AwaitingLabels
                 PROVE  GeneratedID' \in UserIDs /\ HasNoClient(GeneratedID)'
      BY DEF GeneratedIsVacant
    <2>1. PICK g \in UserIDs : g = GeneratedID /\ HasNoClient(g)
      BY DEF TablesInv, GeneratedIsVacant
    <2>2. HasNoClient(g)' /\ GeneratedID' = g
      BY <1>2, <2>1 DEF HasNoClient
    <2> QED
      BY <2>2 DEF HasNoClient
  <1> QED
    BY <1>4, <1>5, <1>6, <1>7 DEF TablesInv, TablesAgree

(* The insertion: the new id is in neither table, the connection in none.  *)
LEMMA TablesInsert ==
  ASSUME OwnCallbacksOnly, TypeOK, FreshInv, TablesInv,
         InsertClient(ConnThread)
  PROVE  TablesInv'
PROOF
  <1> DEFINE conn == place[ConnThread].conn
             new == place[ConnThread].id
  <1>1. /\ pc[ConnThread] = "insert" /\ pc'[ConnThread] = "bind"
        /\ UNCHANGED place /\ conn \in Conns /\ new \in UserIDs
        /\ ~IsLibReservedID(new) /\ new # InvalidUserID
    BY TableTypes, RegistryAssumption
       DEF InsertClient, Goto, AcceptLabels, GeneratedLabels, IsLibReservedID,
           InvalidUserID
  <1>2. /\ \A c \in Conns : mapConnections[c] # new
        /\ mapConnections[conn] = InvalidUserID
    <2>1. HasNoClient(new) /\ \A i : ~Binding(i)
      BY <1>1, BindingIsConn DEF TablesInv, GeneratedIsVacant, GeneratedID, AwaitingLabels
    <2>2. \A c \in Conns : mapConnections[c] # new
      BY <1>1, <2>1, RegistryAssumption
         DEF HasNoClient, TablesInv, TablesAgree, ConnectionsAgree
    <2>3. mapConnections[conn] = InvalidUserID
      BY <1>1 DEF TablesInv, MappedWasBound, FreshInv, AcceptedIsUnbound, AcceptLabels
    <2> QED
      BY <2>2, <2>3
  <1>3. /\ mapConnections' = [mapConnections EXCEPT ![conn] = new]
        /\ boundID' = [boundID EXCEPT ![conn] = new]
        /\ mapClients' = [mapClients EXCEPT ![new] =
             IF mapClients[new] = NoClient THEN ReservedClient
             ELSE mapClients[new]]
    BY <1>1, TableTypes DEF InsertClient, ClientsMap
  <1>4. /\ mapConnections \in ConnectionsMap /\ mapClients \in ClientsMap
        /\ boundID \in [Conns -> UserIDs]
        /\ ReservedClient # NoClient /\ ReservedClient.connection = NoConn
    BY TableTypes, ReservedClientType, NoClientAssumption DEF ReservedClient
  <1>5. \A i : ~Binding(i) /\ (Binding(i)' <=> i = new)
    BY <1>1, BindingIsConn, BindingIsConnNext
  <1> HIDE DEF conn, new
  <1>6. MappedWasBound' /\ GeneratedIsVacant'
    BY <1>1, <1>3, <1>4
       DEF TablesInv, MappedWasBound, ConnectionsMap, GeneratedIsVacant, AwaitingLabels
  <1>7. BindIsMapped'
    BY <1>1, <1>2, <1>3, <1>4 DEF BindIsMapped, ConnectionsMap, conn, new
  <1>8. ConnectionsAgree'
    BY <1>1, <1>2, <1>3, <1>4, <1>5
       DEF TablesInv, TablesAgree, ConnectionsAgree, ConnectionsMap, ClientsMap
  <1>9. ClientsAgree'
    <2> SUFFICES ASSUME NEW i \in UserIDs, mapClients'[i] # NoClient
                 PROVE  /\ ~IsLibReservedID(i)
                        /\ mapClients'[i].connection # NoConn =>
                             mapConnections'[mapClients'[i].connection] = i
      BY DEF ClientsAgree
    <2>1. CASE mapClients[i] = NoClient
      BY <1>1, <1>3, <1>4, <2>1 DEF ClientsMap
    <2>2. CASE mapClients[i] # NoClient
      <3>1. mapClients'[i] = mapClients[i] /\ mapClients[i] \in HClient
        BY <1>1, <1>3, <1>4, <2>2 DEF ClientsMap
      <3>2. /\ ~IsLibReservedID(i)
            /\ mapClients[i].connection # NoConn =>
                 /\ mapClients[i].connection \in Conns
                 /\ mapConnections[mapClients[i].connection] = i
        BY <2>2, <3>1 DEF TablesInv, TablesAgree, ClientsAgree, HClient
      <3>3. i # InvalidUserID
        BY <3>2, RegistryAssumption DEF IsLibReservedID, InvalidUserID
      <3> QED
        BY <1>2, <1>3, <1>4, <3>1, <3>2, <3>3 DEF ConnectionsMap
    <2> QED
      BY <2>1, <2>2
  <1> QED
    BY <1>6, <1>7, <1>8, <1>9 DEF TablesInv, TablesAgree

(* Binding: the entry now points back to its connection.                   *)
LEMMA TablesBind ==
  ASSUME OwnCallbacksOnly, TypeOK, TablesInv, BindClient(ConnThread)
  PROVE  TablesInv'
PROOF
  <1> DEFINE conn == place[ConnThread].conn
             new == place[ConnThread].id
             client == [connection |-> conn, userID |-> new,
                        state |-> "Unauthorized"]
  <1>1. /\ pc[ConnThread] = "bind" /\ pc'[ConnThread] = "callbacks"
        /\ conn \in Conns /\ new \in UserIDs
        /\ ~IsLibReservedID(new) /\ new # InvalidUserID
    BY TableTypes, RegistryAssumption
       DEF BindClient, Goto, AcceptLabels, GeneratedLabels, IsLibReservedID,
           InvalidUserID
  <1>2. /\ mapClients' = [mapClients EXCEPT ![new] = client]
        /\ UNCHANGED <<mapConnections, boundID>>
    BY DEF BindClient
  <1>3. mapConnections[conn] = new
    BY <1>1 DEF TablesInv, BindIsMapped
  <1>4. \A c \in Conns : mapConnections[c] = new => c = conn
    BY <1>1 DEF TablesInv, BindIsMapped
  <1>5. /\ mapConnections \in ConnectionsMap /\ mapClients \in ClientsMap
        /\ client \in HClient /\ client # NoClient
    BY <1>1, TableTypes, NoClientAssumption DEF HClient, InfoStates
  <1>6. \A i : (Binding(i) <=> i = new) /\ ~Binding(i)'
    BY <1>1, BindingIsConn, BindingIsConnNext
  <1>7. client.connection = conn /\ client.userID = new
    OBVIOUS
  <1> HIDE DEF conn, new, client
  <1>8. MappedWasBound' /\ BindIsMapped' /\ GeneratedIsVacant'
    BY <1>1, <1>2
       DEF TablesInv, MappedWasBound, BindIsMapped, GeneratedIsVacant, AwaitingLabels
  <1>9. ConnectionsAgree'
    <2> SUFFICES ASSUME NEW c \in Conns, mapConnections[c] # InvalidUserID
                 PROVE  LET i == mapConnections[c]
                        IN  /\ ~IsLibReservedID(i)
                            /\ mapClients'[i] # NoClient
                            /\ mapClients'[i].connection = c
                            /\ mapClients'[i].userID = i
      BY <1>2 DEF ConnectionsAgree
    <2>1. CASE mapConnections[c] = new
      BY <1>1, <1>2, <1>4, <1>5, <1>7, <2>1 DEF ClientsMap
    <2>2. CASE mapConnections[c] # new
      <3>1. mapConnections[c] \in UserIDs
        BY <1>5 DEF ConnectionsMap
      <3> QED
        BY <1>2, <1>5, <1>6, <2>2, <3>1
           DEF TablesInv, TablesAgree, ConnectionsAgree, ClientsMap
    <2> QED
      BY <2>1, <2>2
  <1>10. ClientsAgree'
    BY <1>1, <1>2, <1>3, <1>5, <1>7
       DEF TablesInv, TablesAgree, ClientsAgree, ClientsMap
  <1> QED
    BY <1>8, <1>9, <1>10 DEF TablesInv, TablesAgree

(* Callbacks keep the tables in agreement.                                 *)
LEMMA TablesCallbackStep ==
  ASSUME OwnCallbacksOnly, TypeOK, FreshInv, TablesInv, CallbackStep(ConnThread)
  PROVE  TablesInv'
PROOF
  <1>1. CASE \/ OnConnecting(ConnThread) \/ OnClosedWhileConnecting(ConnThread)
             \/ OnClosedWhileConnected(ConnThread)
             \/ SkipTakenID(ConnThread) \/ ReadTakenID(ConnThread) \/ PassTakenID(ConnThread)
             \/ TakeID(ConnThread) \/ AdvanceID(ConnThread) \/ PreAcceptClient(ConnThread)
    <2>1. UNCHANGED <<mapClients, mapConnections, boundID>>
      BY <1>1 DEF OnConnecting, OnClosedWhileConnecting, OnClosedWhileConnected,
                  NextCallback, SkipTakenID, ReadTakenID, PassTakenID,
                  TakeID, AdvanceID, PreAcceptClient, tables
    <2>2. pc[ConnThread] # "bind" /\ pc'[ConnThread] # "bind"
      BY <1>1, TableTypes
         DEF OnConnecting, OnClosedWhileConnecting, OnClosedWhileConnected,
             NextCallback, SkipTakenID, ReadTakenID, PassTakenID,
             TakeID, AdvanceID, PreAcceptClient, Goto
    <2>3. pc'[ConnThread] \in AwaitingLabels =>
            pc[ConnThread] \in AwaitingLabels /\ GeneratedID' = GeneratedID
      <3>1. CASE OnConnecting(ConnThread) \/ OnClosedWhileConnecting(ConnThread)
                 \/ OnClosedWhileConnected(ConnThread)
                 \/ SkipTakenID(ConnThread) \/ ReadTakenID(ConnThread) \/ PassTakenID(ConnThread)
        BY <3>1, TableTypes
           DEF OnConnecting, OnClosedWhileConnecting, OnClosedWhileConnected,
               NextCallback, SkipTakenID, ReadTakenID, PassTakenID, Goto, AwaitingLabels
      <3>2. CASE TakeID(ConnThread)
        BY <3>2, TableTypes DEF TakeID, Goto, GeneratedID, AwaitingLabels
      <3>3. CASE AdvanceID(ConnThread) \/ PreAcceptClient(ConnThread)
        BY <3>3, TableTypes DEF AdvanceID, PreAcceptClient, Goto, GeneratedID, AwaitingLabels
      <3> QED
        BY <1>1, <3>1, <3>2, <3>3
    <2>4. GeneratedIsVacant'
      BY <2>1, <2>3, VacantKept DEF TablesInv, Replaces
    <2> QED
      BY <2>1, <2>2, <2>4, TablesKept DEF Replaces
  <1>2. CASE FindFreeID(ConnThread)
    <2>1. /\ UNCHANGED <<mapClients, mapConnections, boundID, lastFreeID>>
          /\ pc[ConnThread] # "bind" /\ pc'[ConnThread] = "take"
          /\ lastFreeID < MaxUserID /\ GetUserIDState(mapClients, lastFreeID) = "Free"
      BY <1>2, TableTypes DEF FindFreeID, Goto, tables
    <2>2. lastFreeID \in UserIDs
      BY <2>1, RegistryAssumption DEF TypeOK, TablesOK, UserIDs
    <2>3. HasNoClient(lastFreeID)
      BY <2>1 DEF HasNoClient, GetUserIDState
    <2>4. GeneratedIsVacant'
      BY <2>1, <2>2, <2>3 DEF GeneratedIsVacant, GeneratedID, HasNoClient
    <2> QED
      BY <2>1, <2>4, TablesKept DEF Replaces
  <1>3. CASE ReserveGeneratedID(ConnThread)
    <2>1. /\ mapClients' = ReserveUserID(mapClients, place[ConnThread].id)
          /\ UNCHANGED <<mapConnections, boundID, place>>
          /\ pc[ConnThread] = "reserve" /\ pc'[ConnThread] = "preAccept"
      BY <1>3, TableTypes DEF ReserveGeneratedID, Goto
    <2>2. \A id \in UserIDs : Replaces(mapClients[id], mapClients'[id], id)
      BY <2>1, ReserveReplaces, TableTypes
    <2>3. GeneratedIsVacant'
      BY <2>1, <2>2, VacantKept DEF TablesInv, GeneratedID, AwaitingLabels
    <2> QED
      BY <2>1, <2>2, <2>3, TablesKept
  <1>4. CASE RemoveClientByConnection(ConnThread)
    <2> DEFINE conn == place[ConnThread].conn
    <2>1. /\ conn \in Conns /\ Erase(conn, mapConnections[conn])
          /\ UNCHANGED boundID
          /\ pc[ConnThread] = "remove" /\ pc'[ConnThread] = "callbacks"
      BY <1>4, TableTypes DEF RemoveClientByConnection, Goto
    <2>2. \A c \in Conns :
            /\ mapConnections[c] = mapConnections[conn]
            /\ mapConnections[conn] # InvalidUserID
            => c = conn
      BY <2>1, BindingIsConn DEF TablesInv, TablesAgree, ConnectionsAgree
    <2> QED
      BY <2>1, <2>2, TablesErase DEF AwaitingLabels
  <1> QED
    BY <1>1, <1>2, <1>3, <1>4, TablesInsert, TablesBind DEF CallbackStep

(* The rest of the connection thread leaves the tables alone or clears     *)
(* both.                                                                   *)
LEMMA TablesConnStep ==
  ASSUME OwnCallbacksOnly, TypeOK, TablesInv,
         LoopStep \/ IncomingStep \/ QueuedStep \/ ShutdownStep
  PROVE  TablesInv'
PROOF
  <1>1. /\ pc[ConnThread] # "bind" /\ pc'[ConnThread] \notin AwaitingLabels \cup {"bind"}
        /\ UNCHANGED boundID
    BY ConnOutside DEF AcceptLabels, AwaitingLabels
  <1>2. CASE UNCHANGED <<mapClients, mapConnections>>
    BY <1>1, <1>2, TablesKept DEF Replaces, GeneratedIsVacant
  <1>3. CASE Sweep
    <2>1. /\ mapClients' = [id \in UserIDs |-> NoClient]
          /\ mapConnections' = [c \in Conns |-> InvalidUserID]
      BY <1>3 DEF Sweep
    <2> QED
      BY <1>1, <2>1 DEF TablesInv, MappedWasBound, GeneratedIsVacant, BindIsMapped,
                        TablesAgree, ConnectionsAgree, ClientsAgree
  <1> QED
    BY <1>2, <1>3
       DEF LoopStep, IncomingStep, QueuedStep, ShutdownStep, KillInterface, tables

(* The request thread writes a client info with the right id.              *)
LEMMA TablesReqStep ==
  ASSUME OwnCallbacksOnly, TypeOK, TablesInv, ReqStep
  PROVE  TablesInv'
PROOF
  <1>1. \A id \in UserIDs : Replaces(mapClients[id], mapClients'[id], id)
    <2> SUFFICES ASSUME NEW id \in UserIDs, mapClients[id] \in HClient
                 PROVE  LET new == [mapClients[id] EXCEPT !.state = "Active",
                                                          !.userID = id]
                        IN  /\ new \in HClient /\ new.userID = id
                            /\ new.connection = mapClients[id].connection
      BY ReqKeepsEntries DEF Replaces
    <2> QED
      BY DEF HClient, InfoStates
  <1>2. UNCHANGED <<mapConnections, boundID, place, lastFreeID>>
        /\ pc'[ConnThread] = pc[ConnThread]
    BY OthersStay, ThreadsDiffer DEF ReqStep, KeptByRequests
  <1>3. GeneratedIsVacant'
    BY <1>1, <1>2, VacantKept DEF TablesInv, GeneratedID
  <1> QED
    BY <1>1, <1>2, <1>3, TablesKept

(* ChangeClientID moves a client in both tables; nobody is being bound.    *)
LEMMA TablesChange ==
  ASSUME OwnCallbacksOnly, TypeOK, TablesInv, pc[ConnThread] # "bind",
         pc'[ConnThread] = pc[ConnThread], UNCHANGED <<boundID, place, lastFreeID>>,
         NEW currentID \in UserIDs, NEW newID \in UserIDs,
         currentID # newID, mapClients[currentID] # NoClient,
         GetUserIDState(mapClients, newID) = "Free",
         pc[ConnThread] \in AwaitingLabels => newID # GeneratedID,
         <<mapClients', mapConnections'>> =
           ChangeClientID(mapClients, mapConnections, currentID, newID)
  PROVE  TablesInv'
PROOF
  <1> DEFINE old == mapClients[currentID]
             conn == old.connection
  <1>1. /\ mapClients \in ClientsMap /\ mapConnections \in ConnectionsMap
        /\ old \in HClient /\ conn \in Peers /\ NoClient \notin HClient
    BY TableTypes, NoClientAssumption DEF ClientsMap, HClient, Peers
  <1>2. /\ ~IsLibReservedID(currentID)
        /\ conn # NoConn => mapConnections[conn] = currentID
    BY DEF TablesInv, TablesAgree, ClientsAgree
  <1>3. /\ ~IsLibReservedID(newID) /\ mapClients[newID] = NoClient
        /\ newID # InvalidUserID /\ currentID # InvalidUserID
    BY <1>2, RegistryAssumption DEF GetUserIDState, IsLibReservedID, InvalidUserID
  <1>4. PICK moved \in HClient :
          /\ moved.connection = conn /\ moved.userID = newID
          /\ mapClients' = [mapClients EXCEPT ![currentID] = NoClient, ![newID] = moved]
          /\ mapConnections' = IF conn # NoConn
                               THEN [mapConnections EXCEPT ![conn] = newID]
                               ELSE mapConnections
    <2> DEFINE moved == [old EXCEPT !.userID = newID]
    <2>1. moved \in HClient /\ moved.connection = conn /\ moved.userID = newID
      BY <1>1 DEF HClient
    <2>2. GetUserIDState(mapClients, currentID) = IF conn = NoConn THEN "Reserved" ELSE "Busy"
      BY <1>2 DEF GetUserIDState
    <2>3. mapClients' = [mapClients EXCEPT ![currentID] = NoClient, ![newID] = moved]
      BY <2>2 DEF ChangeClientID
    <2>4. mapConnections' = IF conn # NoConn
                            THEN [mapConnections EXCEPT ![moved.connection] = newID]
                            ELSE mapConnections
      BY <2>2 DEF ChangeClientID
    <2> QED
      BY <2>1, <2>3, <2>4
  <1> HIDE DEF old, conn
  <1>5. /\ mapClients'[currentID] = NoClient /\ mapClients'[newID] = moved
        /\ \A i \in UserIDs \ {currentID, newID} : mapClients'[i] = mapClients[i]
    BY <1>1, <1>4 DEF ClientsMap
  <1>6. \A c \in Conns : mapConnections'[c] = IF c = conn THEN newID ELSE mapConnections[c]
    BY <1>1, <1>4, RegistryAssumption DEF ConnectionsMap, Peers
  <1>7. \A i : ~Binding(i) /\ ~Binding(i)'
    BY BindingIsConn, BindingIsConnNext
  <1>8. \A c \in Conns : c # conn => mapConnections[c] \notin {currentID, newID}
    BY <1>3, <1>7 DEF old, conn, TablesInv, TablesAgree, ConnectionsAgree
  <1>9. MappedWasBound'
    <2>1. conn \in Conns => mapConnections[conn] # InvalidUserID
      BY <1>2, <1>3, RegistryAssumption
    <2> QED
      BY <1>6, <2>1 DEF TablesInv, MappedWasBound
  <1>10. GeneratedIsVacant'
    <2> SUFFICES ASSUME pc[ConnThread] \in AwaitingLabels
                 PROVE  GeneratedID' \in UserIDs /\ HasNoClient(GeneratedID)'
      BY DEF GeneratedIsVacant
    <2>1. PICK g \in UserIDs : g = GeneratedID /\ HasNoClient(g)
      BY DEF TablesInv, GeneratedIsVacant
    <2>2. GeneratedID' = g
      BY <2>1 DEF GeneratedID
    <2>3. HasNoClient(g)'
      BY <1>5, <2>1 DEF HasNoClient
    <2> QED
      BY <2>2, <2>3 DEF HasNoClient
  <1>11. BindIsMapped'
    BY DEF BindIsMapped
  <1>12. ConnectionsAgree'
    <2> SUFFICES ASSUME NEW c \in Conns, mapConnections'[c] # InvalidUserID
                 PROVE  LET i == mapConnections'[c]
                        IN  /\ ~IsLibReservedID(i)
                            /\ mapClients'[i] # NoClient
                            /\ mapClients'[i].connection = c
                            /\ mapClients'[i].userID = i
      BY DEF ConnectionsAgree
    <2>1. CASE c = conn
      BY <1>1, <1>3, <1>4, <1>5, <1>6, <2>1
    <2>2. CASE c # conn
      <3>1. /\ mapConnections'[c] = mapConnections[c]
            /\ mapConnections[c] \in UserIDs \ {currentID, newID}
        BY <1>1, <1>6, <1>8, <2>2 DEF ConnectionsMap
      <3> QED
        BY <1>5, <1>7, <3>1 DEF TablesInv, TablesAgree, ConnectionsAgree
    <2> QED
      BY <2>1, <2>2
  <1>13. ClientsAgree'
    <2> SUFFICES ASSUME NEW i \in UserIDs, mapClients'[i] # NoClient
                 PROVE  /\ ~IsLibReservedID(i)
                        /\ mapClients'[i].connection # NoConn =>
                             mapConnections'[mapClients'[i].connection] = i
      BY DEF ClientsAgree
    <2>1. CASE i = newID
      <3>1. conn # NoConn => conn \in Conns
        BY <1>1 DEF Peers
      <3> QED
        BY <1>3, <1>4, <1>5, <1>6, <2>1, <3>1
    <2>2. CASE i # newID
      <3>1. i # currentID /\ mapClients'[i] = mapClients[i] /\ mapClients[i] \in HClient
        BY <1>1, <1>5, <2>2 DEF ClientsMap
      <3>2. /\ ~IsLibReservedID(i)
            /\ mapClients[i].connection # NoConn =>
                 /\ mapClients[i].connection \in Conns
                 /\ mapConnections[mapClients[i].connection] = i
        BY <3>1 DEF TablesInv, TablesAgree, ClientsAgree, HClient
      <3>3. mapClients[i].connection # NoConn => mapClients[i].connection # conn
        BY <1>2, <3>1, <3>2
      <3> QED
        BY <1>6, <3>1, <3>2, <3>3
    <2> QED
      BY <2>1, <2>2
  <1> QED
    BY <1>9, <1>10, <1>11, <1>12, <1>13 DEF TablesInv, TablesAgree

(* A call of ChangeClientID does nothing, reserves an id (and throws), or  *)
(* moves a client.                                                         *)
LEMMA TablesUserChanges ==
  ASSUME OwnCallbacksOnly, ChangesSpareGenerated, TypeOK, BindOwnsID, TablesInv,
         NEW u \in UserThreads, UserStep(u),
         NEW currentID \in UserIDs, NEW newID \in UserIDs, UserChangesID(u, currentID, newID)
  PROVE  TablesInv'
PROOF
  <1>1. /\ UNCHANGED <<boundID, place, lastFreeID>> /\ pc'[ConnThread] = pc[ConnThread]
        /\ AllFree /\ pc[ConnThread] # "bind"
    BY OthersStay, ThreadsDiffer, BindBlocksAll DEF UserStep, UserChangesID
  <1>2. <<mapClients', mapConnections'>> =
          ChangeClientID(mapClients, mapConnections, currentID, newID)
    <2> DEFINE new == ChangeClientID(mapClients, mapConnections, currentID, newID)
    <2>1. mapClients' = new[1] /\ mapConnections' = new[2]
      BY DEF UserChangesID
    <2>2. \E a, b : new = <<a, b>>
      BY DEF ChangeClientID
    <2> QED
      BY <2>1, <2>2
  <1>3. CASE \/ UNCHANGED <<mapClients, mapConnections>>
             \/ UNCHANGED mapConnections /\ mapClients' = ReserveUserID(mapClients, newID)
    <2>1. UNCHANGED mapConnections
      BY <1>3
    <2>2. \A id \in UserIDs : Replaces(mapClients[id], mapClients'[id], id)
      BY <1>3, ReserveReplaces, TableTypes DEF Replaces
    <2>3. GeneratedIsVacant'
      BY <1>1, <2>2, VacantKept DEF TablesInv, GeneratedID
    <2> QED
      BY <1>1, <2>1, <2>2, <2>3, TablesKept
  <1>4. CASE /\ currentID # newID /\ mapClients[currentID] # NoClient
             /\ GetUserIDState(mapClients, newID) = "Free"
    <2>1. ~IsLibReservedID(currentID)
      BY <1>4 DEF TablesInv, TablesAgree, ClientsAgree
    <2>2. pc[ConnThread] \in AwaitingLabels => newID # GeneratedID
      BY <2>1 DEF ChangesSpareGenerated, TakesGeneratedID
    <2> QED
      BY <1>1, <1>2, <1>4, <2>2, TablesChange
  <1> QED
    BY <1>2, <1>3, <1>4 DEF ChangeClientID

(* Users reserve ids, remove clients and change their ids; removals and    *)
(* changes wait for all locks, so nobody is binding.                       *)
LEMMA TablesUserStep ==
  ASSUME OwnCallbacksOnly, ChangesSpareGenerated, TypeOK, BindOwnsID, TablesInv,
         NEW u \in UserThreads, UserStep(u)
  PROVE  TablesInv'
PROOF
  <1>1. /\ UNCHANGED <<boundID, place, lastFreeID>> /\ pc'[ConnThread] = pc[ConnThread]
        /\ GeneratedID' = GeneratedID
    BY OthersStay, ThreadsDiffer DEF UserStep, GeneratedID
  <1>2. ASSUME NEW id \in UserIDs, UserRemovesClient(u, id) PROVE TablesInv'
    <2> DEFINE conn == mapClients[id].connection
    <2>1. /\ mapClients[id] # NoClient /\ Erase(conn, id)
          /\ pc[ConnThread] # "bind" /\ pc'[ConnThread] # "bind"
      BY <1>1, <1>2, BindBlocksAll, ThreadsDiffer DEF UserRemovesClient
    <2>2. conn \in Conns => mapConnections[conn] = id
      BY <2>1, RegistryAssumption DEF TablesInv, TablesAgree, ClientsAgree
    <2>3. \A c \in Conns :
            mapConnections[c] = id /\ id # InvalidUserID => c = conn
      BY <2>1, BindingIsConn DEF TablesInv, TablesAgree, ConnectionsAgree
    <2> QED
      BY <1>1, <2>1, <2>2, <2>3, TablesErase
  <1>3. ASSUME NEW id \in UserIDs, UserReservesID(u, id) PROVE TablesInv'
    <2>1. \A other \in UserIDs :
            Replaces(mapClients[other], mapClients'[other], other)
      BY <1>3, ReserveReplaces, TableTypes DEF UserReservesID
    <2>2. GeneratedIsVacant'
      BY <1>1, <2>1, VacantKept DEF TablesInv
    <2> QED
      BY <1>1, <1>3, <2>1, <2>2, TablesKept DEF UserReservesID
  <1>4. CASE UNCHANGED <<mapClients, mapConnections>>
    <2>1. GeneratedIsVacant'
      BY <1>1, <1>4, VacantKept DEF TablesInv, Replaces
    <2> QED
      BY <1>1, <1>4, <2>1, TablesKept DEF Replaces
  <1> QED
    BY <1>2, <1>3, <1>4, TablesUserChanges
       DEF UserStep, UserSends, UserDisablesPush, UserSetsGoingExit

(* No step makes the tables disagree.                                      *)
LEMMA TablesStep ==
  ASSUME OwnCallbacksOnly, ChangesSpareGenerated \/ UNCHANGED vars, TypeOK, BindOwnsID,
         FreshInv, TablesInv, [Next]_vars
  PROVE  TablesInv'
PROOF
  <1>1. CASE Environment \/ UNCHANGED vars
    <2>1. UNCHANGED <<mapClients, mapConnections, boundID, pc, place, lastFreeID>>
      BY <1>1 DEF Environment, vars, tables, work
    <2>2. GeneratedIsVacant'
      BY <2>1, VacantKept DEF TablesInv, Replaces, GeneratedID
    <2> QED
      BY <2>1, <2>2, TablesKept DEF Replaces
  <1> QED
    BY <1>1, TablesCallbackStep, TablesConnStep, TablesReqStep, TablesUserStep
       DEF Next, ConnStep, Terminated, OwnCallbacksOnly

(* A connection gets into the table with the id it is accepted under, and  *)
(* stays under it until it is erased.                                      *)
LEMMA BoundStep ==
  ASSUME OwnCallbacksOnly, NoIdChange, TypeOK, MappedIsBound, [Next]_vars
  PROVE  MappedIsBound'
PROOF
  <1>1. CASE /\ UNCHANGED boundID
             /\ \A c \in Conns : mapConnections'[c] \in {mapConnections[c], InvalidUserID}
    BY <1>1 DEF MappedIsBound
  <1>2. CASE UNCHANGED <<boundID, mapConnections>>
    BY <1>1, <1>2
  <1>3. CASE CallbackStep(ConnThread)
    <2>1. CASE RemoveClientByConnection(ConnThread)
      BY <1>1, <2>1 DEF RemoveClientByConnection, Erase
    <2>2. CASE InsertClient(ConnThread)
      BY <2>2, TableTypes DEF InsertClient, MappedIsBound, ConnectionsMap
    <2>3. CASE \/ OnConnecting(ConnThread) \/ OnClosedWhileConnecting(ConnThread)
               \/ OnClosedWhileConnected(ConnThread)
               \/ SkipTakenID(ConnThread) \/ ReadTakenID(ConnThread) \/ PassTakenID(ConnThread)
               \/ FindFreeID(ConnThread) \/ TakeID(ConnThread) \/ AdvanceID(ConnThread)
               \/ ReserveGeneratedID(ConnThread) \/ PreAcceptClient(ConnThread)
               \/ BindClient(ConnThread)
      BY <1>2, <2>3
         DEF OnConnecting, OnClosedWhileConnecting, OnClosedWhileConnected, NextCallback,
             SkipTakenID, ReadTakenID, PassTakenID,
             FindFreeID, TakeID, AdvanceID, ReserveGeneratedID,
             PreAcceptClient, BindClient, tables
    <2> QED
      BY <1>3, <2>1, <2>2, <2>3 DEF CallbackStep
  <1>4. CASE LoopStep \/ IncomingStep \/ QueuedStep \/ ShutdownStep
    BY <1>1, <1>2, <1>4
       DEF LoopStep, IncomingStep, QueuedStep, ShutdownStep, Sweep, KillInterface, tables
  <1>5. CASE Environment \/ ReqStep \/ UNCHANGED vars
    BY <1>2, <1>5 DEF Environment, ReqStep, KeptByRequests, vars, tables
  <1>6. ASSUME NEW u \in UserThreads, UserStep(u) PROVE MappedIsBound'
    BY <1>1, <1>2, <1>6
       DEF UserStep, UserRemovesClient, Erase, UserReservesID, UserChangesID, MayCall,
           NoIdChange, UserSends, UserDisablesPush, UserSetsGoingExit
  <1> QED
    BY <1>3, <1>4, <1>5, <1>6 DEF Next, ConnStep, Terminated, OwnCallbacksOnly

(* Without changes of ids there is nothing to spare.                       *)
LEMMA NoChangeSpares ==
  ASSUME NoIdChange
  PROVE  ChangesSpareGenerated
PROOF
  BY DEF NoIdChange, ChangesSpareGenerated, TakesGeneratedID, UserChangesID, MayCall

(* The initial state has empty tables, no callbacks and nobody accepting.  *)
LEMMA TablesInit == Init => FreshInv /\ TablesInv /\ MappedIsBound
PROOF
  <1> SUFFICES ASSUME Init PROVE FreshInv /\ TablesInv /\ MappedIsBound
    OBVIOUS
  <1>1. /\ pc[ConnThread] = "top" /\ callbacks = <<>>
        /\ boundID = [c \in Conns |-> InvalidUserID]
        /\ mapClients = [id \in UserIDs |-> NoClient]
        /\ mapConnections = [c \in Conns |-> InvalidUserID]
    BY ThreadsDiffer DEF Init
  <1>2. FreshInv
    BY <1>1 DEF FreshInv, CallbacksAreFresh, CallbacksDiffer, UnusedIsFresh,
                AcceptedIsUnbound, Untouched, Accepting, AcceptLabels
  <1>3. TablesInv
    BY <1>1 DEF TablesInv, MappedWasBound, GeneratedIsVacant, AwaitingLabels,
                BindIsMapped, TablesAgree, ConnectionsAgree, ClientsAgree
  <1> QED
    BY <1>1, <1>2, <1>3 DEF MappedIsBound

(* m_mapClients and m_mapConnections agree (doc/Protocol.txt, rule 2), so  *)
(* that the iterators RemoveClient, RemoveClientByConnection and           *)
(* AcceptClient dereference unchecked in a release build are valid,        *)
(* whatever ids the user changes (ChatServer.cpp:503-520), as long as      *)
(* callbacks run on the server's own thread and no client is moved to the  *)
(* very id AcceptClient is about to use.                                   *)
THEOREM TablesAgreeAcrossChanges ==
  ASSUME OwnCallbacksOnly
  PROVE  Spec /\ [][ChangesSpareGenerated]_vars => []TablesAgree
PROOF
  <1>1. TypeOK /\ BindOwnsID /\ FreshInv /\ TablesInv
          /\ [Next]_vars /\ [ChangesSpareGenerated]_vars
          => BindOwnsID' /\ FreshInv' /\ TablesInv'
    BY BindStep, FreshStep, TablesStep
  <1>2. TablesInv => TablesAgree
    BY DEF TablesInv
  <1> QED
    BY <1>1, <1>2, TablesInit, BindInit, TypeCorrect, PTL DEF Spec

(* In particular they agree if the user changes no ids at all.             *)
THEOREM TablesAlwaysAgree ==
  ASSUME OwnCallbacksOnly, NoIdChange
  PROVE  Spec => []TablesAgree
PROOF
  <1>1. ChangesSpareGenerated
    BY NoChangeSpares
  <1>2. Spec /\ [][ChangesSpareGenerated]_vars => []TablesAgree
    BY TablesAgreeAcrossChanges
  <1> QED
    BY <1>1, <1>2, PTL

-----------------------------------------------------------------------------
(* Of a server whose user neither reserves nor changes ids: nobody but     *)
(* AcceptClient puts an id into the table, and only ids below m_lastFreeID.*)
OnlyAcceptReserves == {"reserve", "change"} \cap UserOps = {}

KeysBelow == \A id \in UserIDs : mapClients[id] # NoClient => id < lastFreeID

FreeInv == KeysBelow /\ GeneratedIdIsFree

(* Steps that put nothing into the table and find no id.                   *)
LEMMA FreeKept ==
  ASSUME OwnCallbacksOnly, TypeOK, FreeInv, lastFreeID' \in {lastFreeID, lastFreeID + 1},
         \A id \in UserIDs : mapClients'[id] # NoClient => mapClients[id] # NoClient,
         pc'[ConnThread] = "reserve" =>
           pc[ConnThread] = "reserve" /\ place'[ConnThread] = place[ConnThread]
  PROVE  FreeInv'
PROOF
  <1>1. /\ lastFreeID \in Int /\ place[ConnThread].id \in UserIDs
        /\ UserIDs \subseteq Int
    BY TableTypes, RegistryAssumption DEF UserIDs
  <1>2. KeysBelow'
    <2> SUFFICES ASSUME NEW id \in UserIDs, mapClients'[id] # NoClient
                 PROVE  id < lastFreeID'
      BY DEF KeysBelow
    <2>1. mapClients[id] # NoClient
      OBVIOUS
    <2>2. id < lastFreeID
      BY <2>1, Zenon DEF FreeInv, KeysBelow
    <2>3. id \in Int
      BY <1>1, Zenon
    <2> QED
      BY <1>1, <2>2, <2>3
  <1>3. CallbackThreads = {ConnThread}
    BY DEF OwnCallbacksOnly, CallbackThreads
  <1>4. GeneratedIdIsFree'
    <2> SUFFICES ASSUME pc'[ConnThread] = "reserve"
                 PROVE  GetUserIDState(mapClients', place[ConnThread].id) = "Free"
      BY <1>3 DEF GeneratedIdIsFree
    <2>1. GetUserIDState(mapClients, place[ConnThread].id) = "Free"
      BY <1>3 DEF FreeInv, GeneratedIdIsFree
    <2> QED
      BY <1>1, <2>1 DEF GetUserIDState
  <1> QED
    BY <1>2, <1>4 DEF FreeInv

(* AcceptClient's own steps: m_lastFreeID has no entry, and what is put    *)
(* into the table is below it.                                             *)
LEMMA FreeCallbackStep ==
  ASSUME OwnCallbacksOnly, TypeOK, IdsInv, FreeInv, CallbackStep(ConnThread)
  PROVE  FreeInv'
PROOF
  <1> DEFINE new == place[ConnThread].id
  <1>1. /\ lastFreeID \in Int /\ new \in UserIDs /\ UserIDs \subseteq Int
        /\ CallbackThreads = {ConnThread} /\ mapClients \in ClientsMap
    BY TableTypes, RegistryAssumption DEF UserIDs, OwnCallbacksOnly, CallbackThreads
  <1>2. CASE \/ OnConnecting(ConnThread) \/ OnClosedWhileConnecting(ConnThread)
             \/ OnClosedWhileConnected(ConnThread) \/ RemoveClientByConnection(ConnThread)
             \/ SkipTakenID(ConnThread) \/ ReadTakenID(ConnThread) \/ PassTakenID(ConnThread)
             \/ FindFreeID(ConnThread) \/ TakeID(ConnThread)
             \/ PreAcceptClient(ConnThread)
    <2>1. lastFreeID' \in {lastFreeID, lastFreeID + 1}
      BY <1>2 DEF OnConnecting, OnClosedWhileConnecting, OnClosedWhileConnected,
                  NextCallback, RemoveClientByConnection,
                  SkipTakenID, ReadTakenID, PassTakenID,
                  FindFreeID, TakeID, PreAcceptClient, tables, IdsInv, GeneratedIsNew
    <2>2. \A id \in UserIDs : mapClients'[id] # NoClient => mapClients[id] # NoClient
      BY <1>2 DEF OnConnecting, OnClosedWhileConnecting, OnClosedWhileConnected,
                  NextCallback, RemoveClientByConnection, Erase, SkipTakenID, ReadTakenID, PassTakenID,
                  FindFreeID,
                  TakeID, PreAcceptClient, tables
    <2>3. pc'[ConnThread] # "reserve"
      BY <1>2, TableTypes
         DEF OnConnecting, OnClosedWhileConnecting, OnClosedWhileConnected,
             NextCallback, RemoveClientByConnection, SkipTakenID, ReadTakenID, PassTakenID,
             FindFreeID, TakeID,
             PreAcceptClient, Goto
    <2> QED
      BY <2>1, <2>2, <2>3, FreeKept
  <1>3. CASE AdvanceID(ConnThread)
    <2>1. /\ UNCHANGED <<mapClients, place>> /\ pc[ConnThread] = "advance"
          /\ new = lastFreeID /\ lastFreeID' = lastFreeID + 1
      BY <1>3 DEF AdvanceID, IdsInv, GeneratedIsNew
    <2>2. mapClients[new] = NoClient /\ ~IsLibReservedID(new)
      BY <1>1, <2>1, TableTypes DEF FreeInv, KeysBelow, GeneratedLabels
    <2>3. KeysBelow'
      BY <1>1, <2>1 DEF FreeInv, KeysBelow
    <2> QED
      BY <1>1, <2>1, <2>2, <2>3 DEF FreeInv, GeneratedIdIsFree, GetUserIDState
  <1>4. CASE \/ ReserveGeneratedID(ConnThread) \/ InsertClient(ConnThread)
             \/ BindClient(ConnThread)
    <2>1. /\ UNCHANGED lastFreeID /\ pc[ConnThread] \in {"reserve", "insert", "bind"}
          /\ \A id \in UserIDs : id # new => mapClients'[id] = mapClients[id]
      BY <1>1, <1>4
         DEF ReserveGeneratedID, ReserveUserID, InsertClient, BindClient, ClientsMap
    <2>2. pc'[ConnThread] # "reserve"
      BY <1>4, TableTypes DEF ReserveGeneratedID, InsertClient, BindClient, Goto
    <2>3. new < lastFreeID
      BY <2>1 DEF IdsInv, GeneratedIsNew
    <2> QED
      BY <1>1, <2>1, <2>2, <2>3 DEF FreeInv, KeysBelow, GeneratedIdIsFree
  <1> QED
    BY <1>2, <1>3, <1>4 DEF CallbackStep

(* Nobody else finds ids or inserts them.                                  *)
LEMMA FreeStep ==
  ASSUME OwnCallbacksOnly, OnlyAcceptReserves, TypeOK, IdsInv, FreeInv, [Next]_vars
  PROVE  FreeInv'
PROOF
  <1>1. CASE Environment \/ UNCHANGED vars
    <2>1. UNCHANGED <<mapClients, pc, place, lastFreeID>>
      BY <1>1 DEF Environment, vars, tables, work
    <2> QED
      BY <2>1, FreeKept
  <1>2. CASE LoopStep \/ IncomingStep \/ QueuedStep \/ ShutdownStep
    <2>1. /\ UNCHANGED lastFreeID
          /\ \A i \in UserIDs : mapClients'[i] = mapClients[i] \/ mapClients'[i] = NoClient
      BY <1>2
         DEF LoopStep, IncomingStep, QueuedStep, ShutdownStep, Sweep, KillInterface, tables
    <2> QED
      BY <1>2, <2>1, ConnOutside, FreeKept DEF AcceptLabels
  <1>3. CASE ReqStep
    <2>1. \A i \in UserIDs : mapClients'[i] # NoClient => mapClients[i] # NoClient
      BY <1>3, ReqKeepsEntries, NoClientAssumption
    <2> QED
      BY <1>3, <2>1, OthersStay, ThreadsDiffer, FreeKept DEF ReqStep, KeptByRequests
  <1>4. ASSUME NEW u \in UserThreads, UserStep(u) PROVE FreeInv'
    <2>1. \A i \in UserIDs : mapClients'[i] = mapClients[i] \/ mapClients'[i] = NoClient
      BY <1>4
         DEF UserStep, UserRemovesClient, Erase, UserReservesID, UserChangesID, MayCall,
             OnlyAcceptReserves, UserSends, UserDisablesPush, UserSetsGoingExit
    <2> QED
      BY <1>4, <2>1, OthersStay, ThreadsDiffer, FreeKept DEF UserStep
  <1> QED
    BY <1>1, <1>2, <1>3, <1>4, FreeCallbackStep
       DEF Next, ConnStep, Terminated, OwnCallbacksOnly

(* ChatServer.cpp:469 holds though GenerateUniqueUserID reads without a    *)
(* lock: the id AcceptClient is about to reserve is free, if callbacks run *)
(* on the server's own thread and the user neither reserves nor changes    *)
(* ids (TLC finds it taken otherwise).                                     *)
THEOREM GeneratedIsFree ==
  ASSUME OwnCallbacksOnly, OnlyAcceptReserves
  PROVE  Spec => []GeneratedIdIsFree
PROOF
  <1>1. Init => FreeInv
    <2>1. Init => \A t \in CallbackThreads : pc[t] # "reserve"
      BY ThreadsDiffer DEF Init, OwnCallbacksOnly, CallbackThreads
    <2> QED
      BY <2>1 DEF Init, FreeInv, KeysBelow, GeneratedIdIsFree
  <1>2. TypeOK /\ IdsInv /\ FreeInv /\ [Next]_vars => IdsInv' /\ FreeInv'
    BY IdsStep, FreeStep
  <1>3. FreeInv => GeneratedIdIsFree
    BY DEF FreeInv
  <1> QED
    BY <1>1, <1>2, <1>3, IdsInit, TypeCorrect, PTL DEF Spec

=============================================================================
