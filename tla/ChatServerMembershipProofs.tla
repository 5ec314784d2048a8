--------------------- MODULE ChatServerMembershipProofs ---------------------
(***************************************************************************)
(* What a server promises about its clients and their messages, proved     *)
(* from the agreement of the tables: no connection is forgotten, messages  *)
(* carry the id of their author and go to everybody else, answers go to    *)
(* those who asked, only rejections leave ids reserved, and the server     *)
(* implements Membership.  Callbacks run on the server's own thread.  What *)
(* is about connections holds whatever ids the user changes, as the tables *)
(* do; what is about ids, if he changes none.                              *)
(***************************************************************************)
EXTENDS ChatServerTablesProofs

(* The invariants of ChatServerTablesProofs that hold whatever ids change, *)
(* as long as no client gets the one AcceptClient is about to use, ...     *)
RegistryBase == TypeOK /\ BindOwnsID /\ FreshInv /\ TablesInv

(* ... and all of them.                                                    *)
TablesBase == RegistryBase /\ IdsInv /\ MappedIsBound

(* They hold in every reachable state.                                     *)
LEMMA RegistryAlways ==
  ASSUME OwnCallbacksOnly
  PROVE  Spec /\ [][ChangesSpareGenerated]_vars => []RegistryBase
PROOF
  <1>1. TypeOK /\ BindOwnsID /\ FreshInv /\ TablesInv
          /\ [Next]_vars /\ [ChangesSpareGenerated]_vars
          => BindOwnsID' /\ FreshInv' /\ TablesInv'
    BY BindStep, FreshStep, TablesStep
  <1> QED
    BY <1>1, TablesInit, BindInit, TypeCorrect, PTL DEF Spec, RegistryBase

(* Without changes of ids, an execution is one that spares the new id.     *)
LEMMA SparingSpec ==
  ASSUME NoIdChange
  PROVE  Spec => Spec /\ [][ChangesSpareGenerated]_vars
PROOF
  <1>1. ChangesSpareGenerated
    BY NoChangeSpares
  <1> QED
    BY <1>1, PTL

LEMMA BaseAlways ==
  ASSUME OwnCallbacksOnly, NoIdChange
  PROVE  Spec => []TablesBase
PROOF
  <1>1. RegistryBase /\ IdsInv /\ MappedIsBound /\ [Next]_vars => IdsInv' /\ MappedIsBound'
    BY IdsStep, BoundStep DEF RegistryBase
  <1>2. Init => MappedIsBound
    BY TablesInit
  <1> QED
    BY <1>1, <1>2, IdsInit, RegistryAlways, SparingSpec, PTL DEF Spec, TablesBase

-----------------------------------------------------------------------------
(* Entries, connections and ids.                                           *)

(* A client's connection is in the table.                                  *)
LEMMA EntryIsMapped ==
  ASSUME RegistryBase, NEW id \in UserIDs, mapClients[id] # NoClient
  PROVE  /\ mapClients[id] \in HClient
         /\ mapClients[id].connection # NoConn =>
              /\ mapClients[id].connection \in Conns
              /\ mapConnections[mapClients[id].connection] = id
              /\ boundID[mapClients[id].connection] # InvalidUserID
         /\ id # InvalidUserID
PROOF
  <1>1. mapClients[id] \in HClient
    BY TableTypes DEF RegistryBase, ClientsMap
  <1>2. ~IsLibReservedID(id) /\ id # InvalidUserID
    BY RegistryAssumption
       DEF RegistryBase, TablesInv, TablesAgree, ClientsAgree, IsLibReservedID,
           InvalidUserID
  <1>3. mapClients[id].connection # NoConn =>
          /\ mapClients[id].connection \in Conns
          /\ mapConnections[mapClients[id].connection] = id
    BY <1>1 DEF RegistryBase, TablesInv, TablesAgree, ClientsAgree, HClient
  <1> QED
    BY <1>1, <1>2, <1>3 DEF RegistryBase, TablesInv, MappedWasBound

(* Its connection was accepted under its id, if nobody changes ids.        *)
LEMMA EntryIsBound ==
  ASSUME TablesBase, NEW id \in UserIDs, mapClients[id] # NoClient
  PROVE  /\ mapClients[id] \in HClient
         /\ mapClients[id].connection # NoConn =>
              /\ mapClients[id].connection \in Conns
              /\ mapConnections[mapClients[id].connection] = id
              /\ boundID[mapClients[id].connection] = id
         /\ id # InvalidUserID
PROOF
  BY EntryIsMapped DEF TablesBase, MappedIsBound

(* A connection in the table has an entry, and the entry points back unless *)
(* it is being filled in.                                                   *)
LEMMA MappedHasClient ==
  ASSUME RegistryBase, NEW c \in Conns, mapConnections[c] # InvalidUserID
  PROVE  LET id == mapConnections[c] IN
         /\ id \in UserIDs /\ ~IsLibReservedID(id)
         /\ mapClients[id] \in HClient
         /\ Binding(id) \/ (mapClients[id].connection = c /\ mapClients[id].userID = id)
PROOF
  <1> DEFINE id == mapConnections[c]
  <1>1. id \in UserIDs /\ mapClients \in ClientsMap
    BY TableTypes DEF RegistryBase, ConnectionsMap
  <1>2. /\ ~IsLibReservedID(id) /\ mapClients[id] # NoClient
        /\ Binding(id) \/ (mapClients[id].connection = c /\ mapClients[id].userID = id)
    BY DEF RegistryBase, TablesInv, TablesAgree, ConnectionsAgree
  <1> QED
    BY <1>1, <1>2 DEF ClientsMap

LEMMA MappedHasEntry ==
  ASSUME TablesBase, NEW c \in Conns, mapConnections[c] # InvalidUserID
  PROVE  LET id == mapConnections[c] IN
         /\ id \in UserIDs /\ ~IsLibReservedID(id) /\ boundID[c] = id
         /\ mapClients[id] \in HClient
         /\ Binding(id) \/ (mapClients[id].connection = c /\ mapClients[id].userID = id)
PROOF
  BY MappedHasClient DEF TablesBase, MappedIsBound

(* Whoever changes ids leaves every connection in the table that is in it, *)
(* and touches neither connections nor their messages.                     *)
LEMMA ChangeKeepsMapped ==
  ASSUME RegistryBase, NEW u, NEW currentID \in UserIDs, NEW newID \in UserIDs,
         UserChangesID(u, currentID, newID)
  PROVE  /\ UNCHANGED <<connState, inbox>>
         /\ \A c \in Conns : mapConnections'[c] # InvalidUserID <=>
                             mapConnections[c] # InvalidUserID
PROOF
  <1> DEFINE conn == mapClients[currentID].connection
             moved == [mapClients[currentID] EXCEPT !.userID = newID]
  <1>1. UNCHANGED <<connState, inbox>>
        /\ mapConnections' =
             ChangeClientID(mapClients, mapConnections, currentID, newID)[2]
    BY DEF UserChangesID
  <1>2. CASE mapConnections' = mapConnections
    BY <1>1, <1>2
  <1>3. CASE mapConnections' # mapConnections
    <2>1. /\ mapClients[currentID] # NoClient /\ GetUserIDState(mapClients, newID) = "Free"
          /\ GetUserIDState(mapClients, currentID) = "Busy"
          /\ mapConnections' = [mapConnections EXCEPT ![moved.connection] = newID]
      BY <1>1, <1>3 DEF ChangeClientID
    <2>2. ~IsLibReservedID(currentID) /\ ~IsLibReservedID(newID)
      BY <2>1 DEF GetUserIDState, RegistryBase, TablesInv, TablesAgree, ClientsAgree
    <2>3. newID # InvalidUserID /\ conn # NoConn
      BY <2>1, <2>2, RegistryAssumption DEF GetUserIDState, IsLibReservedID, InvalidUserID
    <2>4. /\ mapClients[currentID] \in HClient /\ conn \in Conns
          /\ mapConnections[conn] = currentID /\ currentID # InvalidUserID
      BY <2>1, <2>3, EntryIsMapped
    <2>5. moved.connection = conn
      BY <2>4 DEF HClient
    <2>6. mapConnections \in ConnectionsMap
      BY TableTypes DEF RegistryBase
    <2> HIDE DEF conn, moved
    <2> QED
      BY <1>1, <2>1, <2>3, <2>4, <2>5, <2>6 DEF ConnectionsMap
  <1> QED
    BY <1>2, <1>3

(* An id tells one connection.                                             *)
LEMMA IdTellsConnection ==
  ASSUME TablesBase, NEW c \in Conns, NEW d \in Conns,
         boundID[c] = boundID[d], boundID[c] # InvalidUserID
  PROVE  c = d
PROOF
  BY DEF TablesBase, RegistryBase, IdsInv, IdsUnique

(* A connection keeps its id for good.                                     *)
LEMMA BoundStays ==
  ASSUME OwnCallbacksOnly, TablesBase, [Next]_vars, NEW c \in Conns,
         boundID[c] # InvalidUserID
  PROVE  boundID'[c] = boundID[c]
PROOF
  <1>1. CASE CallbackStep(ConnThread)
    <2>1. CASE InsertClient(ConnThread)
      <3>1. /\ place[ConnThread].conn # c
            /\ boundID' = [boundID EXCEPT ![place[ConnThread].conn] = place[ConnThread].id]
        BY <2>1 DEF InsertClient, TablesBase, RegistryBase, FreshInv, AcceptedIsUnbound, AcceptLabels
      <3> QED
        BY <3>1, TableTypes DEF TablesBase, RegistryBase
    <2> QED
      BY <1>1, <2>1
         DEF CallbackStep, OnConnecting, OnClosedWhileConnecting, OnClosedWhileConnected,
             NextCallback, RemoveClientByConnection, SkipTakenID, ReadTakenID, PassTakenID,
             FindFreeID, TakeID,
             AdvanceID, ReserveGeneratedID, PreAcceptClient, BindClient, tables
  <1>2. CASE LoopStep \/ IncomingStep \/ QueuedStep \/ ShutdownStep
    BY <1>2, ConnOutside DEF TablesBase, RegistryBase
  <1>3. CASE ReqStep \/ \E u \in UserThreads : UserStep(u)
    BY <1>3, OthersStay DEF TablesBase, RegistryBase
  <1> QED
    BY <1>1, <1>2, <1>3
       DEF Next, ConnStep, Terminated, Environment, vars, tables, OwnCallbacksOnly

-----------------------------------------------------------------------------
(* Connections are attended to.                                            *)

(* The server has the connection in the table, or in its hands.            *)
Attended(c) ==
  \/ mapConnections[c] # InvalidUserID
  \/ pc[ConnThread] \in AcceptLabels \cup {"remove"} /\ place[ConnThread].conn = c

Pending(c) == \E i \in 1..Len(callbacks) : callbacks[i].conn = c

Open(c) == connState[c] \in {"Connecting", "Connected", "Closed"}

(* The connection can bring messages.                                      *)
Live(c) == connState[c] = "Connected" \/ inbox[c] # <<>>

AttendedInv ==
  \A c \in Conns : (Live(c) => Attended(c)) /\ (Open(c) => Attended(c) \/ Pending(c))

(* Whoever takes the first callback leaves the others.                     *)
LEMMA OthersPending ==
  ASSUME TypeOK, callbacks # <<>>, callbacks' = Tail(callbacks), NEW c \in Conns,
         c # Head(callbacks).conn, Pending(c)
  PROVE  Pending(c)'
PROOF
  <1>1. PICK i \in 1..Len(callbacks) : callbacks[i].conn = c
    BY DEF Pending
  <1>2. callbacks \in Seq(Callback) /\ Head(callbacks) = callbacks[1] /\ i # 1
    BY <1>1, TableTypes
  <1>3. i - 1 \in 1..Len(Tail(callbacks)) /\ Tail(callbacks)[i - 1] = callbacks[i]
    BY <1>1, <1>2
  <1> QED
    BY <1>1, <1>3 DEF Pending

(* A closed handle needs nobody.                                           *)
LEMMA ClosedNeedsNobody ==
  ASSUME TypeOK, NEW c \in Conns, CloseConnection(c)
  PROVE  /\ ~Live(c)' /\ ~Open(c)'
         /\ \A d \in Conns : d # c => (Live(d)' <=> Live(d)) /\ (Open(d)' <=> Open(d))
PROOF
  <1>1. /\ connState' = [connState EXCEPT ![c] = "Dead"] /\ inbox' = [inbox EXCEPT ![c] = <<>>]
        /\ connState \in [Conns -> {"Unused", "Connecting", "Connected", "Closed", "Dead"}]
        /\ DOMAIN inbox = Conns
    BY TableTypes DEF CloseConnection, TypeOK, NetworkOK
  <1>2. connState'[c] = "Dead" /\ inbox'[c] = <<>>
        /\ \A d \in Conns : d # c => connState'[d] = connState[d] /\ inbox'[d] = inbox[d]
    BY <1>1
  <1> QED
    BY <1>2 DEF Live, Open

(* The peers bring connections with their callbacks, and messages on       *)
(* connections that are Connected.                                         *)
LEMMA AttendedEnvironment ==
  ASSUME RegistryBase, AttendedInv, Environment
  PROVE  AttendedInv'
PROOF
  <1>1. PICK conn \in Conns : PeerConnects(conn) \/ PeerCloses(conn) \/ PeerSends(conn)
    BY DEF Environment
  <1>2. \A c \in Conns : Attended(c)' <=> Attended(c)
    BY DEF Environment, tables, work, Attended
  <1>3. /\ callbacks \in Seq(Callback) /\ DOMAIN inbox = Conns
        /\ connState \in [Conns -> {"Unused", "Connecting", "Connected", "Closed", "Dead"}]
    BY TableTypes DEF RegistryBase, TypeOK, NetworkOK
  <1>4. CASE PeerSends(conn)
    <2>1. UNCHANGED <<connState, callbacks>> /\ connState[conn] = "Connected"
          /\ \A c \in Conns : c # conn => inbox'[c] = inbox[c]
      BY <1>3, <1>4 DEF PeerSends
    <2> QED
      BY <1>2, <2>1 DEF AttendedInv, Live, Open, Pending
  <1>5. CASE PeerConnects(conn) \/ PeerCloses(conn)
    <2>1. PICK old : callbacks' = Append(callbacks, [conn |-> conn, old |-> old])
      BY <1>5, Zenon DEF PeerConnects, PeerCloses
    <2>2. \A c \in Conns : Pending(c) => Pending(c)'
      <3> SUFFICES ASSUME NEW c \in Conns, NEW i \in 1..Len(callbacks), callbacks[i].conn = c
                   PROVE  Pending(c)'
        BY DEF Pending
      <3>1. i \in 1..Len(callbacks') /\ callbacks'[i] = callbacks[i]
        BY <1>3, <2>1
      <3> QED
        BY <3>1 DEF Pending
    <2>3. Pending(conn)'
      <3>1. Len(callbacks) + 1 \in 1..Len(callbacks')
            /\ callbacks'[Len(callbacks) + 1] = [conn |-> conn, old |-> old]
        BY <1>3, <2>1
      <3> QED
        BY <3>1 DEF Pending
    <2>4. UNCHANGED inbox /\ connState'[conn] # "Connected"
          /\ \A c \in Conns : c # conn => connState'[c] = connState[c]
      BY <1>3, <1>5 DEF PeerConnects, PeerCloses
    <2> QED
      BY <1>2, <2>2, <2>3, <2>4 DEF AttendedInv, Live, Open
  <1> QED
    BY <1>1, <1>4, <1>5

(* What is enough for a step: it attends to a connection, closes it, or    *)
(* takes nothing away from it.                                             *)
LEMMA AttendedKept ==
  ASSUME AttendedInv,
         \A c \in Conns :
           \/ Attended(c)'
           \/ ~Live(c)' /\ ~Open(c)'
           \/ /\ (Live(c)' => Live(c)) /\ (Open(c)' => Open(c))
              /\ (Attended(c) => Attended(c)') /\ (Pending(c) => Pending(c)')
  PROVE  AttendedInv'
PROOF
  BY DEF AttendedInv

(* A callback closes its connection, accepts it or goes to remove it.      *)
LEMMA AttendedNextCallback ==
  ASSUME RegistryBase, AttendedInv,
         \/ OnConnecting(ConnThread) \/ OnClosedWhileConnecting(ConnThread)
         \/ OnClosedWhileConnected(ConnThread)
  PROVE  AttendedInv'
PROOF
  <1>0. PICK conn \in Conns : conn = Head(callbacks).conn
    BY CallbackConns DEF RegistryBase, OnConnecting, OnClosedWhileConnecting,
       OnClosedWhileConnected, NextCallback
  <1>1. /\ callbacks # <<>> /\ callbacks' = Tail(callbacks)
        /\ pc[ConnThread] = "callbacks" /\ UNCHANGED mapConnections
    BY DEF OnConnecting, OnClosedWhileConnecting, OnClosedWhileConnected, NextCallback,
           tables
  <1>2. \A c \in Conns : c # conn => (Pending(c) => Pending(c)')
    BY <1>0, <1>1, OthersPending DEF RegistryBase
  <1>3. \A c \in Conns : Attended(c) <=> mapConnections[c] # InvalidUserID
    BY <1>1 DEF Attended, AcceptLabels
  <1>4. CASE \/ OnClosedWhileConnecting(ConnThread)
             \/ OnConnecting(ConnThread) /\ connState[conn] # "Connecting"
    <2>1. CloseConnection(conn)
      BY <1>0, <1>4 DEF OnClosedWhileConnecting, OnConnecting
    <2>2. \A c \in Conns : Attended(c) => Attended(c)'
      BY <1>1, <1>3 DEF Attended
    <2> QED
      BY <1>1, <1>2, <2>1, <2>2, ClosedNeedsNobody, AttendedKept DEF RegistryBase
  <1>5. CASE \/ OnClosedWhileConnected(ConnThread)
             \/ OnConnecting(ConnThread) /\ connState[conn] = "Connecting"
    <2>1. /\ UNCHANGED inbox
          /\ \A c \in Conns : c # conn => connState'[c] = connState[c]
      BY <1>0, <1>5, TableTypes DEF RegistryBase, OnClosedWhileConnected, OnConnecting
    <2>2. Attended(conn)'
      <3>1. pc'[ConnThread] \in {"remove", "generate"} /\ place'[ConnThread].conn = conn
        BY <1>0, <1>1, <1>5, TableTypes
           DEF RegistryBase, OnClosedWhileConnected, OnConnecting, Goto, Peers
      <3> QED
        BY <3>1 DEF Attended, AcceptLabels
    <2>3. \A c \in Conns : Attended(c) => Attended(c)'
      BY <1>1, <1>3 DEF Attended
    <2>4. \A c \in Conns : c # conn => (Live(c)' => Live(c)) /\ (Open(c)' => Open(c))
      BY <2>1 DEF Live, Open
    <2> QED
      BY <1>2, <2>2, <2>3, <2>4, AttendedKept
  <1> QED
    BY <1>4, <1>5

(* The rest of the callbacks: whom the thread lets go of is in the table   *)
(* or closed.                                                              *)
LEMMA AttendedCallbackStep ==
  ASSUME RegistryBase, AttendedInv, CallbackStep(ConnThread)
  PROVE  AttendedInv'
PROOF
  <1> DEFINE conn == place[ConnThread].conn
  <1>0. TypeOK
    BY DEF RegistryBase
  <1>1. CASE RemoveClientByConnection(ConnThread)
    <2>1. /\ conn \in Conns /\ CloseConnection(conn) /\ UNCHANGED callbacks
          /\ \A c \in Conns : c # conn => mapConnections'[c] = mapConnections[c]
          /\ pc[ConnThread] = "remove"
      BY <1>0, <1>1, TableTypes DEF RemoveClientByConnection, Erase
    <2>2. \A c \in Conns : c # conn => (Attended(c) => Attended(c)')
      BY <2>1 DEF Attended
    <2>3. \A c \in Conns : Pending(c)' <=> Pending(c)
      BY <2>1 DEF Pending
    <2> QED
      BY <1>0, <2>1, <2>2, <2>3, ClosedNeedsNobody, AttendedKept
  <1>2. CASE PreAcceptClient(ConnThread) /\ CloseConnection(conn)
    <2>1. /\ conn \in Conns /\ UNCHANGED <<callbacks, mapConnections>>
          /\ pc[ConnThread] = "preAccept"
      BY <1>0, <1>2, TableTypes DEF PreAcceptClient, tables, AcceptLabels
    <2>2. \A c \in Conns : c # conn => (Attended(c) => Attended(c)')
      BY <2>1 DEF Attended
    <2>3. \A c \in Conns : Pending(c)' <=> Pending(c)
      BY <2>1 DEF Pending
    <2> QED
      BY <1>0, <1>2, <2>1, <2>2, <2>3, ClosedNeedsNobody, AttendedKept
  <1>3. CASE \/ SkipTakenID(ConnThread) \/ ReadTakenID(ConnThread) \/ PassTakenID(ConnThread)
             \/ FindFreeID(ConnThread) \/ TakeID(ConnThread)
             \/ AdvanceID(ConnThread) \/ ReserveGeneratedID(ConnThread)
             \/ PreAcceptClient(ConnThread) /\ UNCHANGED <<connState, inbox, place>>
                  /\ pc'[ConnThread] = "insert"
             \/ InsertClient(ConnThread)
    <2>1. UNCHANGED <<callbacks, connState, inbox>>
      BY <1>3 DEF SkipTakenID, ReadTakenID, PassTakenID,
                  FindFreeID, TakeID, AdvanceID, ReserveGeneratedID,
                  PreAcceptClient, InsertClient
    <2>2. pc'[ConnThread] \in AcceptLabels /\ place'[ConnThread].conn = conn
      BY <1>0, <1>3, TableTypes
         DEF SkipTakenID, ReadTakenID, PassTakenID,
             FindFreeID, TakeID, AdvanceID, ReserveGeneratedID,
             PreAcceptClient, InsertClient, Goto, AcceptLabels
    <2>3. \A c \in Conns : c # conn => mapConnections'[c] = mapConnections[c]
      BY <1>0, <1>3, TableTypes
         DEF SkipTakenID, ReadTakenID, PassTakenID,
             FindFreeID, TakeID, AdvanceID, ReserveGeneratedID,
             PreAcceptClient, InsertClient, tables, ConnectionsMap
    <2>4. \A c \in Conns : Attended(c) => Attended(c)'
      BY <2>2, <2>3 DEF Attended
    <2>5. \A c \in Conns : (Live(c)' <=> Live(c)) /\ (Open(c)' <=> Open(c))
                           /\ (Pending(c)' <=> Pending(c))
      BY <2>1 DEF Live, Open, Pending
    <2> QED
      BY <2>4, <2>5, AttendedKept
  <1>4. CASE BindClient(ConnThread)
    <2>1. UNCHANGED <<callbacks, connState, inbox, mapConnections>> /\ pc[ConnThread] = "bind"
      BY <1>4 DEF BindClient
    <2>2. mapConnections[conn] # InvalidUserID
      <3>1. conn \in Conns
        BY <2>1, TableTypes DEF RegistryBase, AcceptLabels
      <3> QED
        BY <1>0, <2>1, <3>1, BindNotZero, ThreadsDiffer
           DEF RegistryBase, TablesInv, BindIsMapped
    <2>3. \A c \in Conns : Attended(c) => Attended(c)'
      BY <2>1, <2>2 DEF Attended
    <2>4. \A c \in Conns : (Live(c)' <=> Live(c)) /\ (Open(c)' <=> Open(c))
                           /\ (Pending(c)' <=> Pending(c))
      BY <2>1 DEF Live, Open, Pending
    <2> QED
      BY <2>3, <2>4, AttendedKept
  <1>5. CASE PreAcceptClient(ConnThread)
    <2>1. \/ CloseConnection(conn)
          \/ UNCHANGED <<connState, inbox, place>> /\ pc'[ConnThread] = "insert"
      BY <1>0, <1>5, TableTypes DEF PreAcceptClient, Goto
    <2> QED
      BY <1>2, <1>3, <1>5, <2>1
  <1> QED
    BY <1>1, <1>3, <1>4, <1>5, AttendedNextCallback DEF CallbackStep

(* The rest of the connection thread closes every client, or none.         *)
LEMMA AttendedConnStep ==
  ASSUME OwnCallbacksOnly, RegistryBase, AttendedInv,
         LoopStep \/ IncomingStep \/ QueuedStep \/ ShutdownStep
  PROVE  AttendedInv'
PROOF
  <1>0. TypeOK
    BY DEF RegistryBase
  <1>1. pc[ConnThread] \notin AcceptLabels \cup {"remove"}
    BY <1>0, ConnOutside
       DEF LoopStep, ConnTop, CallbacksDone, IncomingDone, QueuedDone, IncomingStep,
           ReceiveMessage, PushIncoming, QueuedStep, PopQueued, SendToOne, FindExcluded,
           StartBroadcast, BroadcastTo, EndBroadcast, ShutdownStep, Sweep, KillInterface
  <1>2. CASE LoopStep \/ IncomingStep \/ QueuedStep
    <2>1. UNCHANGED <<callbacks, connState, mapConnections>>
      BY <1>2 DEF LoopStep, IncomingStep, QueuedStep, network, tables
    <2>2. \A c \in Conns : inbox'[c] # <<>> => inbox[c] # <<>>
      <3>1. \/ UNCHANGED inbox
            \/ \E d \in Conns : inbox[d] # <<>> /\ inbox' = [inbox EXCEPT ![d] = Tail(@)]
        BY <1>2 DEF LoopStep, IncomingStep, ReceiveMessage, PushIncoming, QueuedStep, network
      <3> QED
        BY <1>0, <3>1 DEF TypeOK, NetworkOK
    <2>3. \A c \in Conns : Attended(c) => Attended(c)'
      BY <1>1, <2>1 DEF Attended
    <2>4. \A c \in Conns : (Live(c)' => Live(c)) /\ (Open(c)' <=> Open(c))
                           /\ (Pending(c)' <=> Pending(c))
      BY <2>1, <2>2 DEF Live, Open, Pending
    <2> QED
      BY <2>3, <2>4, AttendedKept
  <1>3. CASE Sweep
    <2> SUFFICES ASSUME NEW c \in Conns
                 PROVE  \/ ~Live(c)' /\ ~Open(c)'
                        \/ /\ (Live(c)' => Live(c)) /\ (Open(c)' => Open(c))
                           /\ (Attended(c) => Attended(c)') /\ (Pending(c) => Pending(c)')
      BY AttendedKept
    <2>1. CASE mapConnections[c] # InvalidUserID
      <3>1. ~Binding(mapConnections[c])
        BY <1>1, BindingIsConn DEF AcceptLabels
      <3>2. \E id \in UserIDs : mapClients[id] # NoClient /\ mapClients[id].connection = c
        BY <2>1, <3>1, MappedHasClient, NoClientAssumption
      <3>3. connState'[c] = "Dead" /\ inbox'[c] = <<>>
        BY <1>3, <3>2 DEF Sweep
      <3> QED
        BY <3>3 DEF Live, Open
    <2>2. CASE mapConnections[c] = InvalidUserID
      <3>1. ~Attended(c)
        BY <1>1, <2>2 DEF Attended
      <3>2. /\ connState'[c] \in {connState[c], "Dead"} /\ inbox'[c] \in {inbox[c], <<>>}
            /\ UNCHANGED callbacks
        BY <1>3 DEF Sweep
      <3>3. (Live(c)' => Live(c)) /\ (Open(c)' => Open(c)) /\ (Pending(c) => Pending(c)')
        BY <3>2 DEF Live, Open, Pending
      <3> QED
        BY <3>1, <3>3
    <2> QED
      BY <2>1, <2>2
  <1>4. CASE KillInterface
    <2>1. \A c \in Conns : connState'[c] \in {"Unused", "Dead"} /\ inbox'[c] = <<>>
      BY <1>4 DEF KillInterface
    <2> QED
      BY <2>1, AttendedKept DEF Live, Open
  <1> QED
    BY <1>2, <1>3, <1>4 DEF ShutdownStep

(* Nor do the request thread and the users forget anybody.                 *)
LEMMA AttendedOthers ==
  ASSUME RegistryBase, AttendedInv,
         ReqStep \/ \E u \in UserThreads : UserStep(u)
  PROVE  AttendedInv'
PROOF
  <1>1. pc'[ConnThread] = pc[ConnThread] /\ UNCHANGED <<place, callbacks>>
    BY OthersStay, ThreadsDiffer DEF RegistryBase
  <1>2. \A c \in Conns : Pending(c)' <=> Pending(c)
    BY <1>1 DEF Pending
  <1>3. CASE UNCHANGED <<connState, inbox, mapConnections>>
    <2>1. \A c \in Conns : (Live(c)' <=> Live(c)) /\ (Open(c)' <=> Open(c))
                           /\ (Attended(c)' <=> Attended(c))
      BY <1>1, <1>3 DEF Live, Open, Attended
    <2> QED
      BY <1>2, <2>1, AttendedKept
  <1>4. ASSUME NEW u \in UserThreads, NEW id \in UserIDs, UserRemovesClient(u, id)
        PROVE  AttendedInv'
    <2> DEFINE conn == mapClients[id].connection
    <2>1. \A c \in Conns : c # conn => mapConnections'[c] = mapConnections[c]
      BY <1>4 DEF UserRemovesClient, Erase
    <2>2. \A c \in Conns : c # conn => (Attended(c) => Attended(c)')
      BY <1>1, <2>1 DEF Attended
    <2>3. CASE conn = NoConn
      <3>1. UNCHANGED <<connState, inbox>> /\ conn \notin Conns
        BY <1>4, <2>3, RegistryAssumption DEF UserRemovesClient
      <3>2. \A c \in Conns : (Live(c)' <=> Live(c)) /\ (Open(c)' <=> Open(c))
        BY <3>1 DEF Live, Open
      <3> QED
        BY <1>2, <2>2, <3>1, <3>2, AttendedKept
    <2>4. CASE conn # NoConn
      <3>1. CloseConnection(conn) /\ conn \in Conns
        BY <1>4, <2>4, EntryIsMapped DEF UserRemovesClient
      <3> HIDE DEF conn
      <3> QED
        BY <1>2, <2>2, <3>1, ClosedNeedsNobody, AttendedKept DEF RegistryBase
    <2> QED
      BY <2>3, <2>4
  <1>5. ASSUME NEW u \in UserThreads, NEW currentID \in UserIDs, NEW newID \in UserIDs,
               UserChangesID(u, currentID, newID)
        PROVE  AttendedInv'
    <2>1. \A c \in Conns : (Live(c)' <=> Live(c)) /\ (Open(c)' <=> Open(c))
                           /\ (Attended(c)' <=> Attended(c))
      BY <1>1, <1>5, ChangeKeepsMapped DEF Live, Open, Attended
    <2> QED
      BY <1>2, <2>1, AttendedKept
  <1> QED
    BY <1>3, <1>4, <1>5
       DEF ReqStep, KeptByRequests, network, UserStep, UserReservesID, UserSends,
           UserDisablesPush, UserSetsGoingExit

(* No step forgets a connection.                                           *)
LEMMA AttendedStep ==
  ASSUME OwnCallbacksOnly, RegistryBase, AttendedInv, [Next]_vars
  PROVE  AttendedInv'
PROOF
  <1>1. CASE UNCHANGED vars
    BY <1>1 DEF vars, network, tables, work, AttendedInv, Live, Open, Attended, Pending
  <1> QED
    BY <1>1, AttendedEnvironment, AttendedCallbackStep, AttendedConnStep, AttendedOthers
       DEF Next, ConnStep, Terminated, OwnCallbacksOnly

(* In the beginning there are no connections.                              *)
LEMMA AttendedInit == Init => AttendedInv
PROOF
  BY DEF Init, AttendedInv, Live, Open

(* AttendedInv in every reachable state.                                   *)
LEMMA AttendedAlways ==
  ASSUME OwnCallbacksOnly
  PROVE  Spec /\ [][ChangesSpareGenerated]_vars => [](RegistryBase /\ AttendedInv)
PROOF
  <1>1. RegistryBase /\ AttendedInv /\ [Next]_vars => AttendedInv'
    BY AttendedStep
  <1> QED
    BY <1>1, AttendedInit, RegistryAlways, PTL DEF Spec

(* A message comes from a connection in the table, whose entry is complete.*)
LEMMA ReceivedFromClient ==
  ASSUME OwnCallbacksOnly, RegistryBase, AttendedInv, NEW c \in Conns, ReceiveMessage(c)
  PROVE  /\ place'[ConnThread] = [conn |-> c, id |-> mapConnections[c]]
         /\ mapConnections[c] # InvalidUserID
         /\ pc'[ConnThread] = "lockClient"
PROOF
  <1>0. TypeOK
    BY DEF RegistryBase
  <1>1. Attended(c) /\ pc[ConnThread] = "incoming"
    BY DEF ReceiveMessage, AttendedInv, Live
  <1>2. mapConnections[c] # InvalidUserID
    BY <1>1 DEF Attended, AcceptLabels
  <1>3. ~Binding(mapConnections[c])
    BY <1>1, BindingIsConn
  <1>4. /\ mapClients[mapConnections[c]] # NoClient
        /\ mapClients[mapConnections[c]].userID = mapConnections[c]
    BY <1>2, <1>3, MappedHasClient, NoClientAssumption
  <1>5. ClientIDByConnection(mapClients, mapConnections, c) = mapConnections[c]
    BY <1>2, <1>4 DEF ClientIDByConnection
  <1> QED
    BY <1>0, <1>1, <1>2, <1>5, TableTypes DEF ReceiveMessage, Goto

(* Nobody else changes the id of the message in hand.                      *)
LEMMA OrphanStep ==
  ASSUME OwnCallbacksOnly, RegistryBase, AttendedInv, NoOrphanMessage, [Next]_vars
  PROVE  NoOrphanMessage'
PROOF
  <1>0. TypeOK
    BY DEF RegistryBase
  <1>1. CASE \E c \in Conns : ReceiveMessage(c)
    <2>1. PICK c \in Conns : ReceiveMessage(c)
      BY <1>1
    <2>2. /\ place'[ConnThread] = [conn |-> c, id |-> mapConnections[c]]
          /\ mapConnections[c] # InvalidUserID
      BY <2>1, ReceivedFromClient
    <2>3. place'[ConnThread].id # InvalidUserID
      BY <2>2
    <2> QED
      BY <2>3 DEF NoOrphanMessage
  <1>2. CASE pc'[ConnThread] # "lockClient"
    BY <1>2 DEF NoOrphanMessage
  <1>3. CASE pc'[ConnThread] = pc[ConnThread] /\ place'[ConnThread] = place[ConnThread]
    BY <1>3 DEF NoOrphanMessage
  <1>4. CASE CallbackStep(ConnThread)
    <2>1. pc'[ConnThread] # "lockClient"
      BY <1>0, <1>4, TableTypes
         DEF CallbackStep, OnConnecting, OnClosedWhileConnecting, OnClosedWhileConnected,
             NextCallback, RemoveClientByConnection, SkipTakenID, ReadTakenID, PassTakenID,
             FindFreeID, TakeID,
             AdvanceID, ReserveGeneratedID, PreAcceptClient, InsertClient, BindClient, Goto
    <2> QED
      BY <1>2, <2>1
  <1>5. CASE LoopStep \/ QueuedStep \/ ShutdownStep \/ PushIncoming
    <2>1. pc'[ConnThread] # "lockClient"
      BY <1>0, <1>5, TableTypes
         DEF LoopStep, ConnTop, CallbacksDone, IncomingDone, QueuedDone, PushIncoming,
             QueuedStep, PopQueued, SendToOne, FindExcluded, StartBroadcast, BroadcastTo,
             EndBroadcast, ShutdownStep, Sweep, KillInterface, Goto
    <2> QED
      BY <1>2, <2>1
  <1>6. CASE ReqStep \/ \E u \in UserThreads : UserStep(u)
    BY <1>0, <1>3, <1>6, OthersStay, ThreadsDiffer
  <1>7. CASE Environment \/ UNCHANGED vars
    BY <1>3, <1>7 DEF Environment, vars, work
  <1> QED
    BY <1>1, <1>4, <1>5, <1>6, <1>7
       DEF Next, ConnStep, IncomingStep, Terminated, OwnCallbacksOnly

-----------------------------------------------------------------------------
(* Requests know who sent them.                                            *)

(* The user id of a request is the one its peer was accepted under.        *)
FromItsClient(request) ==
  request.userID # InvalidUserID /\ boundID[request.peer] = request.userID

HereIsKnown ==
  pc[ConnThread] = "lockClient" =>
    /\ place[ConnThread].id # InvalidUserID
    /\ boundID[place[ConnThread].conn] = place[ConnThread].id

QueueIsKnown == \A i \in 1..Len(handleQueue) : FromItsClient(handleQueue[i])

HandIsKnown == pc[ReqThread] \in HandleLabels => FromItsClient(handling)

(* Only what the client has claimed itself is granted.                     *)
GrantIsClaimed ==
  /\ pc[ReqThread] \in {"ClientInfo", "authorize"} => handling.type = "ClientInfo"
  /\ pc[ReqThread] = "authorize" =>
       /\ ~IsLibReservedID(handling.userID)
       /\ handling.grant => handling.claim = handling.userID

HandledInv == HereIsKnown /\ QueueIsKnown /\ HandIsKnown /\ GrantIsClaimed

(* The types of requests, for the leaves.                                  *)
LEMMA RequestTypesOK ==
  ASSUME TypeOK
  PROVE  /\ handleQueue \in Seq(HandledRequest) /\ sendQueue \in Seq(QueuedRequest)
         /\ outbox \in [Conns -> Seq(QueuedRequest)]
         /\ \A i \in 1..Len(handleQueue) : handleQueue[i].peer \in Conns
         /\ pc[ReqThread] \in HandleLabels =>
              handling \in HandledRequest /\ handling.peer \in Conns
         /\ pc[ConnThread] \in SendLabels => sending \in QueuedRequest
         /\ pc[ConnThread] = "lockClient" =>
              received \in IncomingRequest /\ place[ConnThread].conn \in Conns
         /\ pc \in [Threads -> ConnLabels \cup ReqLabels \cup {"idle", "closing"}]
         /\ ReqThread \in Threads /\ ConnThread \in Threads /\ ReqThread # ConnThread
PROOF
  <1>1. handleQueue \in Seq(HandledRequest) /\ sendQueue \in Seq(QueuedRequest)
    BY DEF TypeOK, QueuesOK
  <1>2. \A i \in 1..Len(handleQueue) : handleQueue[i] \in HandledRequest
    BY <1>1
  <1>3. \A i \in 1..Len(handleQueue) : handleQueue[i].peer \in Conns
    BY <1>2 DEF HandledRequest
  <1> QED
    BY <1>1, <1>3, ThreadsDiffer
       DEF TypeOK, NetworkOK, HandsOK, PlacesOK, ThreadsOK, HandledRequest

(* What a peer was accepted under does not change.                         *)
LEMMA FromStays ==
  ASSUME OwnCallbacksOnly, TablesBase, [Next]_vars
  PROVE  \A request : request.peer \in Conns /\ FromItsClient(request) =>
           FromItsClient(request)'
PROOF
  <1> TAKE request
  <1> HAVE request.peer \in Conns /\ FromItsClient(request)
  <1>1. boundID'[request.peer] = boundID[request.peer]
    BY BoundStays DEF FromItsClient
  <1> QED
    BY <1>1 DEF FromItsClient

(* Requests that move within the server keep their peer and their id.      *)
LEMMA HandledKept ==
  ASSUME OwnCallbacksOnly, TablesBase, HandledInv, [Next]_vars, UNCHANGED handleQueue,
         pc'[ConnThread] = "lockClient" =>
           pc[ConnThread] = "lockClient" /\ place'[ConnThread] = place[ConnThread],
         pc'[ReqThread] = pc[ReqThread] /\ handling' = handling
  PROVE  HandledInv'
PROOF
  <1>0. TypeOK
    BY DEF TablesBase, RegistryBase
  <1>1. HereIsKnown'
    <2> SUFFICES ASSUME pc'[ConnThread] = "lockClient"
                 PROVE  HereIsKnown'
      BY DEF HereIsKnown
    <2>1. /\ place'[ConnThread] = place[ConnThread] /\ place[ConnThread].conn \in Conns
          /\ place[ConnThread].id # InvalidUserID
          /\ boundID[place[ConnThread].conn] = place[ConnThread].id
      BY <1>0, RequestTypesOK DEF HandledInv, HereIsKnown
    <2>2. boundID'[place[ConnThread].conn] = boundID[place[ConnThread].conn]
      BY <2>1, BoundStays
    <2> QED
      BY <2>1, <2>2 DEF HereIsKnown
  <1>2. QueueIsKnown'
    BY <1>0, FromStays, RequestTypesOK DEF HandledInv, QueueIsKnown
  <1>3. HandIsKnown'
    BY <1>0, FromStays, RequestTypesOK DEF HandledInv, HandIsKnown
  <1>4. GrantIsClaimed'
    BY DEF HandledInv, GrantIsClaimed
  <1> QED
    BY <1>1, <1>2, <1>3, <1>4 DEF HandledInv

(* A message is taken for the client's on whose connection it comes.       *)
LEMMA HandledReceive ==
  ASSUME OwnCallbacksOnly, TablesBase, AttendedInv, NEW c \in Conns, ReceiveMessage(c)
  PROVE  /\ place'[ConnThread] = [conn |-> c, id |-> mapConnections[c]]
         /\ mapConnections[c] # InvalidUserID /\ boundID[c] = mapConnections[c]
         /\ pc'[ConnThread] = "lockClient"
PROOF
  BY ReceivedFromClient DEF TablesBase, MappedIsBound

(* It is queued under the id of this client.                               *)
LEMMA HandledPush ==
  ASSUME OwnCallbacksOnly, TablesBase, HandledInv, PushIncoming, [Next]_vars,
         pc'[ReqThread] = pc[ReqThread] /\ handling' = handling
  PROVE  HandledInv'
PROOF
  <1>0. TypeOK
    BY DEF TablesBase, RegistryBase
  <1> DEFINE here == place[ConnThread]
             request == [type |-> received.type, claim |-> received.claim,
                         serial |-> received.serial, userID |-> here.id,
                         peer |-> here.conn, found |-> FALSE, grant |-> FALSE]
  <1>1. /\ handleQueue' = Append(handleQueue, request) \/ UNCHANGED handleQueue
        /\ pc'[ConnThread] = "incoming" /\ pc[ConnThread] = "lockClient"
    BY <1>0, RequestTypesOK DEF PushIncoming, Goto
  <1>2. /\ request.peer = here.conn /\ request.userID = here.id /\ here.conn \in Conns
        /\ here.id # InvalidUserID /\ boundID[here.conn] = here.id
    BY <1>0, <1>1, RequestTypesOK DEF HandledInv, HereIsKnown
  <1> HIDE DEF request
  <1>3. FromItsClient(request) /\ request.peer \in Conns
    BY <1>2 DEF FromItsClient
  <1>4. \A i \in 1..Len(handleQueue') :
          \/ i \in 1..Len(handleQueue) /\ handleQueue'[i] = handleQueue[i]
          \/ handleQueue'[i] = request
    BY <1>0, <1>1, RequestTypesOK
  <1>5. QueueIsKnown'
    <2> SUFFICES ASSUME NEW i \in 1..Len(handleQueue')
                 PROVE  /\ handleQueue'[i].userID # InvalidUserID
                        /\ boundID'[handleQueue'[i].peer] = handleQueue'[i].userID
      BY DEF QueueIsKnown, FromItsClient
    <2>1. handleQueue'[i].peer \in Conns /\ FromItsClient(handleQueue'[i])
      BY <1>0, <1>3, <1>4, RequestTypesOK DEF HandledInv, QueueIsKnown
    <2> QED
      BY <2>1, BoundStays DEF FromItsClient
  <1>6. HandIsKnown'
    BY <1>0, FromStays, RequestTypesOK DEF HandledInv, HandIsKnown
  <1>7. HereIsKnown' /\ GrantIsClaimed'
    BY <1>1 DEF HandledInv, HereIsKnown, GrantIsClaimed
  <1> QED
    BY <1>5, <1>6, <1>7 DEF HandledInv

(* The request thread handles what it takes from the queue.                *)
LEMMA HandledReqStep ==
  ASSUME OwnCallbacksOnly, TablesBase, HandledInv, ReqStep, [Next]_vars
  PROVE  HandledInv'
PROOF
  <1>0. TypeOK
    BY DEF TablesBase, RegistryBase
  <1>1. pc'[ConnThread] = pc[ConnThread] /\ UNCHANGED place
    BY <1>0, OthersStay, ThreadsDiffer
  <1>2. HereIsKnown'
    <2> SUFFICES ASSUME pc[ConnThread] = "lockClient"
                 PROVE  HereIsKnown'
      BY <1>1 DEF HereIsKnown
    <2>1. boundID'[place[ConnThread].conn] = boundID[place[ConnThread].conn]
      BY <1>0, BoundStays, RequestTypesOK DEF HandledInv, HereIsKnown
    <2> QED
      BY <1>1, <2>1 DEF HandledInv, HereIsKnown
  <1>3. CASE PopHandle
    <2>1. handleQueue # <<>> /\ handleQueue' = Tail(handleQueue)
      BY <1>3 DEF PopHandle
    <2>2. /\ Head(handleQueue) = handleQueue[1] /\ 1 \in 1..Len(handleQueue)
          /\ \A i \in 1..Len(handleQueue') :
               i + 1 \in 1..Len(handleQueue) /\ handleQueue'[i] = handleQueue[i + 1]
      BY <1>0, <2>1, RequestTypesOK
    <2>3. QueueIsKnown'
      <3> SUFFICES ASSUME NEW i \in 1..Len(handleQueue')
                   PROVE  /\ handleQueue'[i].userID # InvalidUserID
                          /\ boundID'[handleQueue'[i].peer] = handleQueue'[i].userID
        BY DEF QueueIsKnown, FromItsClient
      <3>1. handleQueue'[i].peer \in Conns /\ FromItsClient(handleQueue'[i])
        BY <1>0, <2>2, RequestTypesOK DEF HandledInv, QueueIsKnown
      <3> QED
        BY <3>1, BoundStays DEF FromItsClient
    <2>4. /\ pc[ReqThread] = "drain"
          /\ \/ pc'[ReqThread] = "drain"
             \/ /\ handling' = handleQueue[1] /\ pc'[ReqThread] = handling'.type
                /\ handling'.type \in {"ClientInfo", "Message"}
      BY <1>0, <1>3, <2>2, RequestTypesOK DEF PopHandle, Goto
    <2>5. HandIsKnown'
      <3> SUFFICES ASSUME handling' = handleQueue[1]
                   PROVE  FromItsClient(handling)'
        BY <2>4 DEF HandIsKnown, HandleLabels
      <3>1. handling'.peer \in Conns /\ FromItsClient(handling')
        BY <1>0, <2>2, RequestTypesOK DEF HandledInv, QueueIsKnown
      <3> QED
        BY <3>1, BoundStays DEF FromItsClient
    <2>6. GrantIsClaimed'
      BY <2>4 DEF GrantIsClaimed
    <2> QED
      BY <1>2, <2>3, <2>5, <2>6 DEF HandledInv
  <1>4. CASE UNCHANGED handleQueue
    <2>1. QueueIsKnown'
      BY <1>0, <1>4, FromStays, RequestTypesOK DEF HandledInv, QueueIsKnown
    <2>2. CASE pc'[ReqThread] \notin HandleLabels
      BY <1>2, <2>1, <2>2 DEF HandledInv, HandIsKnown, GrantIsClaimed, HandleLabels
    <2>3. CASE /\ pc[ReqThread] = "ClientInfo" /\ pc'[ReqThread] = "authorize"
               /\ JudgeClientInfo
      <3>1. /\ handling'.userID = handling.userID /\ handling'.peer = handling.peer
            /\ handling'.type = handling.type
            /\ handling'.grant => handling'.claim = handling'.userID
            /\ ~IsLibReservedID(handling'.userID)
        <4>1. handling \in HandledRequest
          BY <1>0, <2>3, RequestTypesOK DEF HandleLabels
        <4>2. /\ handling' = [handling EXCEPT !.grant = handling'.grant]
              /\ handling'.grant => handling.claim = handling.userID
              /\ ~IsLibReservedID(handling.userID)
          BY <1>0, <2>3, <4>1, RequestTypesOK DEF JudgeClientInfo, Handled, Goto, HandledRequest
        <4> QED
          BY <4>1, <4>2 DEF HandledRequest
      <3>2. HandIsKnown'
        BY <1>0, <2>3, <3>1, BoundStays, RequestTypesOK
           DEF HandledInv, HandIsKnown, HandleLabels, FromItsClient
      <3>3. GrantIsClaimed'
        BY <2>3, <3>1 DEF HandledInv, GrantIsClaimed
      <3> QED
        BY <1>2, <2>1, <3>2, <3>3 DEF HandledInv
    <2>4. CASE pc[ReqThread] = "Message" /\ pc'[ReqThread] = "forward" /\ FindAuthor
      <3>1. handling'.userID = handling.userID /\ handling'.peer = handling.peer
        <4>1. handling \in HandledRequest
          BY <1>0, <2>4, RequestTypesOK DEF HandleLabels
        <4> QED
          BY <2>4, <4>1 DEF FindAuthor, HandledRequest
      <3>2. HandIsKnown'
        BY <1>0, <2>4, <3>1, BoundStays, RequestTypesOK
           DEF HandledInv, HandIsKnown, HandleLabels, FromItsClient
      <3>3. GrantIsClaimed'
        BY <2>4 DEF GrantIsClaimed
      <3> QED
        BY <1>2, <2>1, <3>2, <3>3 DEF HandledInv
    <2>5. \/ pc'[ReqThread] \notin HandleLabels
          \/ pc[ReqThread] = "ClientInfo" /\ pc'[ReqThread] = "authorize" /\ JudgeClientInfo
          \/ pc[ReqThread] = "Message" /\ pc'[ReqThread] = "forward" /\ FindAuthor
          \/ PopHandle
      BY <1>0, RequestTypesOK
         DEF ReqStep, RequestTop, DrainDone, JudgeClientInfo, Authorize, AuthorizeNobody,
             FindAuthor, ForwardMessage, StoreAndAnswer, Handled, Goto, HandleLabels
    <2> QED
      BY <1>3, <2>2, <2>3, <2>4, <2>5
  <1> QED
    BY <1>3, <1>4
       DEF ReqStep, RequestTop, DrainDone, JudgeClientInfo, Authorize, AuthorizeNobody,
           FindAuthor, ForwardMessage, StoreAndAnswer

(* The connection thread and the users leave the request thread alone.     *)
LEMMA HandStays ==
  ASSUME OwnCallbacksOnly, TypeOK, ConnStep \/ \E u \in UserThreads : UserStep(u)
  PROVE  pc'[ReqThread] = pc[ReqThread] /\ handling' = handling
PROOF
  <1>1. \/ UNCHANGED pc
        \/ \E t \in UserThreads \cup {ConnThread} : \E label : Goto(t, label)
    <2>1. CallbackStep(ConnThread) => UNCHANGED pc \/ \E label : Goto(ConnThread, label)
      BY Zenon DEF CallbackStep, OnConnecting, OnClosedWhileConnecting,
           OnClosedWhileConnected, RemoveClientByConnection,
           SkipTakenID, ReadTakenID, PassTakenID,
           FindFreeID, TakeID, AdvanceID, ReserveGeneratedID, PreAcceptClient,
           InsertClient, BindClient
    <2>2. LoopStep \/ IncomingStep \/ QueuedStep \/ ShutdownStep =>
            UNCHANGED pc \/ \E label : Goto(ConnThread, label)
      BY Zenon DEF LoopStep, ConnTop, CallbacksDone, IncomingDone, QueuedDone,
           IncomingStep, ReceiveMessage, PushIncoming, QueuedStep, PopQueued,
           SendToOne, FindExcluded, StartBroadcast, BroadcastTo, EndBroadcast,
           ShutdownStep, Sweep, KillInterface
    <2>3. \A u \in UserThreads :
            UserStep(u) => UNCHANGED pc \/ \E label : Goto(u, label)
      BY Zenon DEF UserStep, UserRemovesClient, UserReservesID, UserChangesID,
           UserSends, UserDisablesPush, UserSetsGoingExit
    <2> QED
      BY <2>1, <2>2, <2>3 DEF ConnStep
  <1>2. pc'[ReqThread] = pc[ReqThread]
    BY <1>1, ThreadsDiffer, RequestTypesOK DEF Goto
  <1>3. handling' = handling
    BY DEF ConnStep, CallbackStep, LoopStep, IncomingStep, QueuedStep, ShutdownStep, work,
           UserStep
  <1> QED
    BY <1>2, <1>3

(* No step loses track of whose request is whose.                          *)
LEMMA HandledStep ==
  ASSUME OwnCallbacksOnly, TablesBase, AttendedInv, HandledInv, [Next]_vars
  PROVE  HandledInv'
PROOF
  <1>0. TypeOK
    BY DEF TablesBase, RegistryBase
  <1>1. CASE Environment \/ UNCHANGED vars
    BY <1>1, HandledKept DEF Environment, vars, queues, work
  <1>2. CASE ConnStep
    <2>1. pc'[ReqThread] = pc[ReqThread] /\ handling' = handling
      BY <1>0, <1>2, HandStays
    <2>2. ASSUME NEW c \in Conns, ReceiveMessage(c), IncomingStep PROVE HandledInv'
      <3>1. place'[ConnThread] = [conn |-> c, id |-> mapConnections[c]]
            /\ mapConnections[c] # InvalidUserID /\ boundID[c] = mapConnections[c]
        BY <2>2, HandledReceive
      <3>2. boundID' = boundID /\ handleQueue' = handleQueue
        BY <2>2 DEF IncomingStep, ReceiveMessage, tables
      <3>3. HereIsKnown'
        BY <3>1, <3>2 DEF HereIsKnown
      <3>4. QueueIsKnown'
        BY <3>2 DEF HandledInv, QueueIsKnown, FromItsClient
      <3>5. HandIsKnown' /\ GrantIsClaimed'
        BY <2>1, <3>2 DEF HandledInv, HandIsKnown, GrantIsClaimed, FromItsClient
      <3> QED
        BY <3>3, <3>4, <3>5 DEF HandledInv
    <2>3. CASE \/ CallbackStep(ConnThread) \/ LoopStep \/ QueuedStep \/ ShutdownStep
      <3>1. UNCHANGED handleQueue
        BY <2>3 DEF CallbackStep, LoopStep, QueuedStep, ShutdownStep, queues
      <3>2. pc'[ConnThread] # "lockClient"
        <4>1. CASE CallbackStep(ConnThread)
          BY <1>0, <4>1, RequestTypesOK
             DEF CallbackStep, OnConnecting, OnClosedWhileConnecting,
                 OnClosedWhileConnected, NextCallback, RemoveClientByConnection,
                 SkipTakenID, ReadTakenID, PassTakenID,
                 FindFreeID, TakeID, AdvanceID, ReserveGeneratedID, PreAcceptClient,
                 InsertClient, BindClient, Goto
        <4>2. CASE LoopStep \/ QueuedStep \/ ShutdownStep
          BY <1>0, <4>2, RequestTypesOK
             DEF LoopStep, ConnTop, CallbacksDone, IncomingDone, QueuedDone, QueuedStep,
                 PopQueued, SendToOne, FindExcluded, StartBroadcast, BroadcastTo,
                 EndBroadcast, ShutdownStep, Sweep, KillInterface, Goto
        <4> QED
          BY <2>3, <4>1, <4>2
      <3> QED
        BY <2>1, <3>1, <3>2, HandledKept
    <2> QED
      BY <1>2, <2>1, <2>2, <2>3, HandledPush DEF ConnStep, IncomingStep
  <1>3. CASE \E u \in UserThreads : UserStep(u)
    <2>1. pc'[ReqThread] = pc[ReqThread] /\ handling' = handling
      BY <1>0, <1>3, HandStays
    <2>2. pc'[ConnThread] = pc[ConnThread] /\ UNCHANGED <<place, handleQueue>>
      BY <1>0, <1>3, OthersStay, ThreadsDiffer DEF UserStep
    <2> QED
      BY <2>1, <2>2, HandledKept
  <1> QED
    BY <1>1, <1>2, <1>3, HandledReqStep DEF Next, Terminated, OwnCallbacksOnly

(* In the beginning there are no requests.                                 *)
LEMMA HandledInit == Init => HandledInv
PROOF
  <1> SUFFICES ASSUME Init PROVE HandledInv
    OBVIOUS
  <1>1. pc[ConnThread] = "top" /\ pc[ReqThread] = "top"
    BY ThreadsDiffer DEF Init, CallbackThreads
  <1>2. handleQueue = <<>>
    BY DEF Init
  <1> QED
    BY <1>1, <1>2 DEF HandledInv, HereIsKnown, QueueIsKnown, HandIsKnown, GrantIsClaimed,
                HandleLabels

(* HandledInv in every reachable state.                                    *)
LEMMA HandledAlways ==
  ASSUME OwnCallbacksOnly, NoIdChange
  PROVE  Spec => [](TablesBase /\ AttendedInv /\ HandledInv)
PROOF
  <1>1. TablesBase /\ AttendedInv /\ HandledInv /\ [Next]_vars => HandledInv'
    BY HandledStep
  <1> QED
    BY <1>1, HandledInit, BaseAlways, AttendedAlways, SparingSpec, PTL DEF Spec

-----------------------------------------------------------------------------
(* Answers and messages find the right peers.                              *)

(* A queued request names the client it is for or from by the id this      *)
(* client was accepted under.                                              *)
Addressed(req) ==
  \/ req.toAll /\ req.peer = NoConn
  \/ /\ req.peer \in Conns /\ req.userID # InvalidUserID
     /\ boundID[req.peer] = req.userID

(* What a peer finds in its mail: answers meant for it, messages of others. *)
Delivered(c, req) ==
  /\ ~req.toAll => req.peer = c
  /\ req.toAll => req.peer # c /\ Addressed(req)

QueueAddressed == \A i \in 1..Len(sendQueue) : Addressed(sendQueue[i])

SendingAddressed == pc[ConnThread] \in SendLabels => Addressed(sending)

(* During a broadcast the author is the excluded connection, or gone.      *)
AuthorExcluded ==
  pc[ConnThread] \in {"startAll", "broadcast"} =>
    /\ sending.toAll
    /\ sending.peer \in Conns =>
         \/ place[ConnThread].conn = sending.peer
         \/ mapConnections[sending.peer] = InvalidUserID

OutboxOK == \A c \in Conns : \A i \in 1..Len(outbox[c]) : Delivered(c, outbox[c][i])

QueuedInv == QueueAddressed /\ SendingAddressed /\ AuthorExcluded /\ OutboxOK

(* Nobody is put into the table twice.                                     *)
LEMMA UnmappedStays ==
  ASSUME OwnCallbacksOnly, NoIdChange, TablesBase, [Next]_vars, NEW c \in Conns,
         boundID[c] # InvalidUserID, mapConnections[c] = InvalidUserID
  PROVE  mapConnections'[c] = InvalidUserID
PROOF
  <1>0. TypeOK
    BY DEF TablesBase, RegistryBase
  <1>1. CASE CallbackStep(ConnThread)
    <2>1. CASE InsertClient(ConnThread)
      <3>1. /\ place[ConnThread].conn # c
            /\ mapConnections' =
                 [mapConnections EXCEPT ![place[ConnThread].conn] = place[ConnThread].id]
        BY <2>1 DEF InsertClient, TablesBase, RegistryBase, FreshInv, AcceptedIsUnbound, AcceptLabels
      <3> QED
        BY <1>0, <3>1, TableTypes DEF ConnectionsMap
    <2> QED
      BY <1>1, <2>1
         DEF CallbackStep, OnConnecting, OnClosedWhileConnecting, OnClosedWhileConnected,
             NextCallback, RemoveClientByConnection, SkipTakenID, ReadTakenID, PassTakenID,
             FindFreeID, TakeID,
             AdvanceID, ReserveGeneratedID, PreAcceptClient, BindClient, tables, Erase
  <1>2. CASE LoopStep \/ IncomingStep \/ QueuedStep \/ ShutdownStep
    BY <1>2 DEF LoopStep, IncomingStep, QueuedStep, ShutdownStep, Sweep, KillInterface, tables
  <1>3. CASE ReqStep
    BY <1>3 DEF ReqStep, KeptByRequests
  <1>4. CASE \E u \in UserThreads : UserStep(u)
    BY <1>4 DEF UserStep, UserRemovesClient, UserReservesID, UserChangesID, MayCall,
                NoIdChange, UserSends, UserDisablesPush, UserSetsGoingExit, Erase
  <1> QED
    BY <1>1, <1>2, <1>3, <1>4
       DEF Next, ConnStep, Terminated, Environment, vars, tables, OwnCallbacksOnly

(* It is enough that a step respects QueuedInv as the ids are before it.   *)
LEMMA QueuedKept ==
  ASSUME OwnCallbacksOnly, NoIdChange, TablesBase, [Next]_vars,
         \A i \in 1..Len(sendQueue') : Addressed(sendQueue'[i]),
         pc'[ConnThread] \in SendLabels => Addressed(sending'),
         pc'[ConnThread] \in {"startAll", "broadcast"} =>
           /\ sending'.toAll
           /\ sending'.peer \in Conns =>
                \/ place'[ConnThread].conn = sending'.peer
                \/ mapConnections[sending'.peer] = InvalidUserID,
         \A c \in Conns : \A i \in 1..Len(outbox'[c]) : Delivered(c, outbox'[c][i])
  PROVE  QueuedInv'
PROOF
  <1>1. \A req : Addressed(req) => Addressed(req)'
    <2> TAKE req
    <2> HAVE Addressed(req)
    <2> QED
      BY BoundStays DEF Addressed
  <1>2. \A c, req : Delivered(c, req) => Delivered(c, req)'
    BY <1>1 DEF Delivered
  <1>3. QueueAddressed' /\ SendingAddressed'
    BY <1>1 DEF QueueAddressed, SendingAddressed
  <1>4. OutboxOK'
    BY <1>2 DEF OutboxOK
  <1>5. AuthorExcluded'
    <2> SUFFICES ASSUME pc'[ConnThread] \in {"startAll", "broadcast"},
                        sending'.peer \in Conns,
                        mapConnections[sending'.peer] = InvalidUserID
                 PROVE  mapConnections'[sending'.peer] = InvalidUserID
      BY DEF AuthorExcluded
    <2>1. boundID[sending'.peer] # InvalidUserID
      BY RegistryAssumption DEF Addressed, SendLabels
    <2> QED
      BY <2>1, UnmappedStays
  <1> QED
    BY <1>3, <1>4, <1>5 DEF QueuedInv

(* QueueRequest adds at most its request.                                  *)
LEMMA QueueGrows ==
  ASSUME TypeOK, QueueAddressed, NEW req, QueueRequest(req), Addressed(req)
  PROVE  \A i \in 1..Len(sendQueue') : Addressed(sendQueue'[i])
PROOF
  <1>1. \A i \in 1..Len(sendQueue') :
          \/ i \in 1..Len(sendQueue) /\ sendQueue'[i] = sendQueue[i]
          \/ sendQueue'[i] = req
    BY RequestTypesOK DEF QueueRequest
  <1> QED
    BY <1>1 DEF QueueAddressed

(* SendTo adds at most its request, to the connection it is for.           *)
LEMMA OutboxGrows ==
  ASSUME TypeOK, OutboxOK, NEW conn, NEW req, SendTo({conn}, req),
         conn \in Conns => Delivered(conn, req)
  PROVE  \A c \in Conns : \A i \in 1..Len(outbox'[c]) : Delivered(c, outbox'[c][i])
PROOF
  <1> SUFFICES ASSUME NEW c \in Conns, NEW i \in 1..Len(outbox'[c])
               PROVE  Delivered(c, outbox'[c][i])
    OBVIOUS
  <1>1. \/ outbox'[c] = outbox[c]
        \/ outbox'[c] = Append(outbox[c], req) /\ c = conn
    BY DEF SendTo
  <1>2. outbox[c] \in Seq(QueuedRequest)
    BY RequestTypesOK
  <1>3. \/ i \in 1..Len(outbox[c]) /\ outbox'[c][i] = outbox[c][i]
        \/ outbox'[c][i] = req /\ c = conn
    BY <1>1, <1>2
  <1> QED
    BY <1>3 DEF OutboxOK

(* The connection thread sends to one client, whom the request was for, or *)
(* to all but the author.                                                  *)
LEMMA QueuedConnQueue ==
  ASSUME OwnCallbacksOnly, NoIdChange, TablesBase, QueuedInv, QueuedStep, [Next]_vars
  PROVE  QueuedInv'
PROOF
  <1>0. TypeOK /\ QueueAddressed /\ SendingAddressed /\ AuthorExcluded /\ OutboxOK
        /\ ConnThread \in CallbackThreads
        /\ place \in [CallbackThreads -> [conn : Peers, id : UserIDs]]
    BY TableTypes DEF TablesBase, RegistryBase, QueuedInv
  <1>1. CASE PopQueued
    <2>1. /\ sendQueue # <<>> /\ sendQueue' = Tail(sendQueue) /\ sending' = Head(sendQueue)
          /\ UNCHANGED outbox /\ pc'[ConnThread] = "lookup"
      BY <1>0, <1>1, RequestTypesOK DEF PopQueued, Goto
    <2>2. /\ Head(sendQueue) = sendQueue[1] /\ 1 \in 1..Len(sendQueue)
          /\ \A i \in 1..Len(sendQueue') :
               i + 1 \in 1..Len(sendQueue) /\ sendQueue'[i] = sendQueue[i + 1]
      BY <1>0, <2>1, RequestTypesOK
    <2> QED
      BY <1>0, <2>1, <2>2, QueuedKept DEF QueueAddressed, OutboxOK
  <1>2. CASE SendToOne
    <2> DEFINE client == mapClients[sending.userID]
    <2>1. /\ UNCHANGED sendQueue /\ pc'[ConnThread] = "queued" /\ ~sending.toAll
          /\ Addressed(sending) /\ sending \in QueuedRequest
          /\ \/ UNCHANGED outbox
             \/ client # NoClient /\ SendTo({client.connection}, sending)
      BY <1>0, <1>2, RequestTypesOK DEF SendToOne, Goto, SendingAddressed, SendLabels
    <2>2. ASSUME client # NoClient, client.connection \in Conns
          PROVE  Delivered(client.connection, sending)
      <3>1. sending.userID \in UserIDs /\ client.connection # NoConn
        BY <2>1, <2>2, RegistryAssumption DEF QueuedRequest
      <3>2. boundID[client.connection] = sending.userID
        BY <2>2, <3>1, EntryIsBound
      <3>3. client.connection = sending.peer
        BY <2>1, <2>2, <3>2, IdTellsConnection DEF Addressed
      <3> QED
        BY <2>1, <3>3 DEF Delivered
    <2>3. \A c \in Conns : \A i \in 1..Len(outbox'[c]) : Delivered(c, outbox'[c][i])
      <3> HIDE DEF client
      <3> QED
        BY <1>0, <2>1, <2>2, OutboxGrows DEF OutboxOK
    <2> QED
      BY <1>0, <2>1, <2>3, QueuedKept DEF QueueAddressed, SendLabels
  <1>3. CASE FindExcluded
    <2> DEFINE client == mapClients[sending.userID]
    <2>1. /\ UNCHANGED <<sendQueue, sending, outbox>> /\ pc'[ConnThread] = "startAll"
          /\ sending.toAll /\ pc[ConnThread] = "lookup"
          /\ Addressed(sending) /\ sending \in QueuedRequest
          /\ place'[ConnThread].conn =
               IF client = NoClient THEN NoConn ELSE client.connection
      BY <1>0, <1>3, RequestTypesOK DEF FindExcluded, Goto, SendingAddressed, SendLabels
    <2>2. ASSUME sending.peer \in Conns, mapConnections[sending.peer] # InvalidUserID
          PROVE  place'[ConnThread].conn = sending.peer
      <3>1. mapConnections[sending.peer] = sending.userID
        BY <2>1, <2>2, MappedHasEntry, RegistryAssumption DEF Addressed
      <3>2. ~Binding(sending.userID)
        BY <2>1, BindingIsConn
      <3>3. client # NoClient /\ client.connection = sending.peer
        BY <2>2, <3>1, <3>2, MappedHasEntry, NoClientAssumption
      <3> QED
        BY <2>1, <3>3
    <2> QED
      BY <1>0, <2>1, <2>2, QueuedKept DEF QueueAddressed, OutboxOK
  <1>4. CASE StartBroadcast
    <2>1. /\ UNCHANGED <<sendQueue, sending, outbox, place>>
          /\ pc[ConnThread] = "startAll" /\ pc'[ConnThread] = "broadcast"
      BY <1>0, <1>4, RequestTypesOK DEF StartBroadcast, Goto
    <2> QED
      BY <1>0, <2>1, QueuedKept
         DEF QueueAddressed, OutboxOK, AuthorExcluded, SendingAddressed, SendLabels
  <1>5. ASSUME NEW id \in UserIDs, BroadcastTo(id) PROVE QueuedInv'
    <2> DEFINE client == mapClients[id]
    <2>1. /\ UNCHANGED <<sendQueue, sending, pc>> /\ pc[ConnThread] = "broadcast"
          /\ client # NoClient /\ Addressed(sending) /\ sending.toAll
          /\ place'[ConnThread].conn = place[ConnThread].conn
          /\ \/ UNCHANGED outbox
             \/ /\ client.connection # place[ConnThread].conn
                /\ SendTo({client.connection}, sending)
      BY <1>0, <1>5
         DEF BroadcastTo, KeysAhead, SendingAddressed, AuthorExcluded, SendLabels
    <2>2. ASSUME client.connection \in Conns, client.connection # place[ConnThread].conn
          PROVE  Delivered(client.connection, sending)
      <3>1. mapConnections[client.connection] = id /\ id # InvalidUserID
        BY <2>1, <2>2, EntryIsBound, RegistryAssumption
      <3>2. client.connection # sending.peer
        BY <1>0, <2>1, <2>2, <3>1 DEF AuthorExcluded
      <3> QED
        BY <2>1, <3>2 DEF Delivered
    <2>3. \A c \in Conns : \A i \in 1..Len(outbox'[c]) : Delivered(c, outbox'[c][i])
      <3> HIDE DEF client
      <3> QED
        BY <1>0, <2>1, <2>2, OutboxGrows DEF OutboxOK
    <2> QED
      BY <1>0, <2>1, <2>3, QueuedKept
         DEF QueueAddressed, AuthorExcluded, SendingAddressed, SendLabels
  <1>6. CASE EndBroadcast
    <2>1. UNCHANGED <<sendQueue, outbox>> /\ pc'[ConnThread] = "queued"
      BY <1>0, <1>6, RequestTypesOK DEF EndBroadcast, Goto
    <2> QED
      BY <1>0, <2>1, QueuedKept DEF QueueAddressed, OutboxOK, SendLabels
  <1> QED
    BY <1>1, <1>2, <1>3, <1>4, <1>5, <1>6 DEF QueuedStep

(* A thread that sends nothing may queue a request.                        *)
LEMMA QueuedPush ==
  ASSUME OwnCallbacksOnly, NoIdChange, TablesBase, QueuedInv, [Next]_vars, UNCHANGED outbox,
         UNCHANGED sendQueue \/ \E req : QueueRequest(req) /\ Addressed(req),
         \/ pc'[ConnThread] \notin SendLabels
         \/ pc'[ConnThread] = pc[ConnThread] /\ UNCHANGED <<place, sending>>
  PROVE  QueuedInv'
PROOF
  <1>1. \A i \in 1..Len(sendQueue') : Addressed(sendQueue'[i])
    BY QueueGrows DEF QueuedInv, QueueAddressed, TablesBase, RegistryBase
  <1> QED
    BY <1>1, QueuedKept
       DEF QueuedInv, OutboxOK, SendingAddressed, AuthorExcluded, SendLabels

(* The callbacks queue the authentication request of whom they accept.     *)
LEMMA QueuedCallbackStep ==
  ASSUME OwnCallbacksOnly, NoIdChange, TablesBase, QueuedInv, CallbackStep(ConnThread),
         [Next]_vars
  PROVE  QueuedInv'
PROOF
  <1>0. TypeOK
    BY DEF TablesBase, RegistryBase
  <1>1. pc'[ConnThread] \notin SendLabels
    BY <1>0, RequestTypesOK
       DEF CallbackStep, OnConnecting, OnClosedWhileConnecting, OnClosedWhileConnected,
           NextCallback, RemoveClientByConnection, SkipTakenID, ReadTakenID, PassTakenID,
           FindFreeID, TakeID,
           AdvanceID, ReserveGeneratedID, PreAcceptClient, InsertClient, BindClient, Goto,
           SendLabels
  <1>2. UNCHANGED outbox
    BY DEF CallbackStep
  <1>3. UNCHANGED sendQueue \/ \E req : QueueRequest(req) /\ Addressed(req)
    <2>1. CASE BindClient(ConnThread)
      <3> DEFINE req == ToOne(place[ConnThread].id, "Unauthorized",
                              place[ConnThread].conn, 0, FALSE)
      <3>1. QueueRequest(req) /\ pc[ConnThread] = "bind"
        BY <2>1 DEF BindClient
      <3>2. /\ place[ConnThread].conn \in Conns /\ place[ConnThread].id # InvalidUserID
            /\ mapConnections[place[ConnThread].conn] = place[ConnThread].id
        BY <1>0, <3>1, TableTypes, BindNotZero
           DEF AcceptLabels, TablesBase, RegistryBase, TablesInv, BindIsMapped
      <3>3. boundID[place[ConnThread].conn] = place[ConnThread].id
        BY <3>2 DEF TablesBase, RegistryBase, TablesInv, MappedIsBound
      <3>4. Addressed(req)
        BY <3>2, <3>3 DEF Addressed, ToOne
      <3> QED
        BY <3>1, <3>4
    <2> QED
      BY <2>1
         DEF CallbackStep, OnConnecting, OnClosedWhileConnecting, OnClosedWhileConnected,
             NextCallback, RemoveClientByConnection, SkipTakenID, ReadTakenID, PassTakenID,
             FindFreeID, TakeID,
             AdvanceID, ReserveGeneratedID, PreAcceptClient, InsertClient
  <1> QED
    BY <1>1, <1>2, <1>3, QueuedPush

(* The farewells of the shutdown go to whom they are for.                  *)
LEMMA QueuedShutdown ==
  ASSUME OwnCallbacksOnly, NoIdChange, TablesBase, QueuedInv, ShutdownStep, [Next]_vars
  PROVE  QueuedInv'
PROOF
  <1>0. TypeOK
    BY DEF TablesBase, RegistryBase
  <1>1. UNCHANGED <<sendQueue, place, sending>> /\ pc'[ConnThread] \in {"kill", "exited"}
    BY <1>0, RequestTypesOK DEF ShutdownStep, Sweep, KillInterface, Goto, queues, work
  <1>2. \A c \in Conns : outbox'[c] = outbox[c] \/ outbox'[c] = Append(outbox[c], Goodbye(c))
    BY <1>0, RequestTypesOK DEF ShutdownStep, Sweep, KillInterface
  <1>3. ASSUME NEW c \in Conns, NEW i \in 1..Len(outbox'[c])
        PROVE  Delivered(c, outbox'[c][i])
    <2>1. outbox[c] \in Seq(QueuedRequest)
      BY <1>0, RequestTypesOK
    <2>2. \/ i \in 1..Len(outbox[c]) /\ outbox'[c][i] = outbox[c][i]
          \/ outbox'[c][i] = Goodbye(c)
      BY <1>2, <2>1
    <2>3. Delivered(c, Goodbye(c))
      BY DEF Goodbye, Delivered
    <2> QED
      BY <2>2, <2>3 DEF QueuedInv, OutboxOK
  <1> QED
    BY <1>1, <1>3, QueuedKept DEF QueuedInv, QueueAddressed, SendLabels

(* The request thread answers the peer and passes on its message under the *)
(* id the request came with.                                               *)
LEMMA QueuedReqStep ==
  ASSUME OwnCallbacksOnly, NoIdChange, TablesBase, HandledInv, QueuedInv, ReqStep, [Next]_vars
  PROVE  QueuedInv'
PROOF
  <1>0. TypeOK
    BY DEF TablesBase, RegistryBase
  <1>1. pc'[ConnThread] = pc[ConnThread] /\ UNCHANGED <<place, sending, outbox>>
    BY <1>0, OthersStay, ThreadsDiffer DEF ReqStep, KeptByRequests, network
  <1>2. pc[ReqThread] \in HandleLabels =>
          /\ handling.peer \in Conns /\ handling.userID # InvalidUserID
          /\ boundID[handling.peer] = handling.userID
    BY <1>0, RequestTypesOK DEF HandledInv, HandIsKnown, FromItsClient
  <1>3. UNCHANGED sendQueue \/ \E req : QueueRequest(req) /\ Addressed(req)
    <2>1. CASE Authorize
      <3>1. PICK state : QueueRequest(ToOne(handling.userID, state, handling.peer,
                                            handling.serial, FALSE))
        BY <2>1 DEF Authorize, StoreAndAnswer
      <3>2. pc[ReqThread] = "authorize"
        BY <2>1 DEF Authorize, StoreAndAnswer
      <3>3. Addressed(ToOne(handling.userID, state, handling.peer, handling.serial, FALSE))
        BY <1>2, <3>2 DEF Addressed, ToOne, HandleLabels
      <3> QED
        BY <3>1, <3>3
    <2>2. CASE ForwardMessage
      <3>1. /\ pc[ReqThread] = "forward"
            /\ \/ UNCHANGED sendQueue
               \/ QueueRequest(ToAll(handling.userID, TRUE, handling.peer, handling.serial))
        BY <2>2 DEF ForwardMessage
      <3>2. Addressed(ToAll(handling.userID, TRUE, handling.peer, handling.serial))
        BY <1>2, <3>1 DEF Addressed, ToAll, HandleLabels
      <3> QED
        BY <3>1, <3>2
    <2> QED
      BY <2>1, <2>2 DEF ReqStep, RequestTop, DrainDone, PopHandle, JudgeClientInfo,
                        AuthorizeNobody, FindAuthor
  <1> QED
    BY <1>1, <1>3, QueuedPush

(* The user sends to all in nobody's name, or to a client it has looked up. *)
LEMMA QueuedUserStep ==
  ASSUME OwnCallbacksOnly, NoIdChange, TablesBase, QueuedInv, NEW u \in UserThreads,
         UserStep(u), [Next]_vars
  PROVE  QueuedInv'
PROOF
  <1>0. TypeOK
    BY DEF TablesBase, RegistryBase
  <1>1. pc'[ConnThread] = pc[ConnThread] /\ UNCHANGED <<place, sending, outbox>>
    BY <1>0, OthersStay, ThreadsDiffer DEF UserStep, work
  <1>2. UNCHANGED sendQueue \/ \E req : QueueRequest(req) /\ Addressed(req)
    <2>1. CASE UserSends(u)
      <3>1. CASE \E activeOnly \in BOOLEAN :
                   QueueRequest(ToAll(InvalidUserID, activeOnly, NoConn, serial + 1))
        BY <3>1 DEF Addressed, ToAll
      <3>2. ASSUME NEW activeOnly \in BOOLEAN, NEW id \in UserIDs,
                   GetUserIDState(mapClients, id) = "Busy", ~IsLibReservedID(id),
                   QueueRequest([ToOne(id, mapClients[id].state, mapClients[id].connection,
                                       serial + 1, FALSE) EXCEPT !.activeOnly = activeOnly])
            PROVE  \E req : QueueRequest(req) /\ Addressed(req)
        <4> DEFINE req == [ToOne(id, mapClients[id].state, mapClients[id].connection,
                                 serial + 1, FALSE) EXCEPT !.activeOnly = activeOnly]
        <4>1. mapClients[id] # NoClient /\ mapClients[id].connection # NoConn
          BY <3>2 DEF GetUserIDState
        <4>2. req.peer = mapClients[id].connection /\ req.userID = id
          BY DEF ToOne
        <4>3. Addressed(req)
          BY <4>1, <4>2, EntryIsBound DEF Addressed
        <4> QED
          BY <3>2, <4>3
      <3> QED
        BY <2>1, <3>1, <3>2 DEF UserSends
    <2> QED
      BY <2>1 DEF UserStep, UserRemovesClient, UserReservesID, UserChangesID,
                  UserDisablesPush, UserSetsGoingExit
  <1> QED
    BY <1>1, <1>2, QueuedPush

(* No step misdirects a request.                                           *)
LEMMA QueuedRequestsStep ==
  ASSUME OwnCallbacksOnly, NoIdChange, TablesBase, HandledInv, QueuedInv, [Next]_vars
  PROVE  QueuedInv'
PROOF
  <1>0. TypeOK
    BY DEF TablesBase, RegistryBase
  <1>1. CASE Environment \/ UNCHANGED vars
    BY <1>1, QueuedPush DEF Environment, vars, network, queues, work
  <1>2. CASE LoopStep \/ IncomingStep
    <2>1. pc'[ConnThread] \notin SendLabels
      BY <1>0, <1>2, RequestTypesOK
         DEF LoopStep, ConnTop, CallbacksDone, IncomingDone, QueuedDone, IncomingStep,
             ReceiveMessage, PushIncoming, Goto, SendLabels
    <2>2. UNCHANGED <<outbox, sendQueue>>
      BY <1>2 DEF LoopStep, IncomingStep, network, queues
    <2> QED
      BY <2>1, <2>2, QueuedPush
  <1> QED
    BY <1>1, <1>2, QueuedCallbackStep, QueuedConnQueue, QueuedShutdown, QueuedReqStep,
       QueuedUserStep DEF Next, ConnStep, Terminated, OwnCallbacksOnly

(* In the beginning nothing is queued or sent.                             *)
LEMMA QueuedInit == Init => QueuedInv
PROOF
  <1> SUFFICES ASSUME Init PROVE QueuedInv
    OBVIOUS
  <1>1. pc[ConnThread] = "top"
    BY ThreadsDiffer DEF Init, CallbackThreads
  <1>2. sendQueue = <<>> /\ \A c \in Conns : outbox[c] = <<>>
    BY DEF Init
  <1> QED
    BY <1>1, <1>2
       DEF QueuedInv, QueueAddressed, SendingAddressed, AuthorExcluded, OutboxOK, SendLabels

(* QueuedInv in every reachable state.                                     *)
LEMMA QueuedAlways ==
  ASSUME OwnCallbacksOnly, NoIdChange
  PROVE  Spec => []QueuedInv
PROOF
  <1>1. TablesBase /\ HandledInv /\ QueuedInv /\ [Next]_vars => QueuedInv'
    BY QueuedRequestsStep
  <1> QED
    BY <1>1, QueuedInit, HandledAlways, PTL DEF Spec

(* A request for one client reaches only the connection it was made for:   *)
(* it is addressed by id and sent later, but an id never goes to another   *)
(* connection (ChatServer.cpp:244-290).                                    *)
THEOREM AnswersReachTheirClient ==
  ASSUME OwnCallbacksOnly, NoIdChange
  PROVE  Spec => []NoMisdelivery
PROOF
  <1>1. QueuedInv => NoMisdelivery
    BY DEF QueuedInv, OutboxOK, Delivered, NoMisdelivery
  <1> QED
    BY <1>1, QueuedAlways, PTL

(* The sender id a client reads in a message is the one its author was     *)
(* accepted under, whatever the author put into the message                *)
(* (ChatServer.cpp:157-193, 209-236).                                      *)
THEOREM SendersAreAuthors ==
  ASSUME OwnCallbacksOnly, NoIdChange
  PROVE  Spec => []SenderIsAuthor
PROOF
  <1>1. QueuedInv => SenderIsAuthor
    BY DEF QueuedInv, OutboxOK, Delivered, Addressed, SenderIsAuthor
  <1> QED
    BY <1>1, QueuedAlways, PTL

(* An author does not get its own message back, even if it leaves while    *)
(* the message is being sent (ChatServer.cpp:261-309).                     *)
THEOREM AuthorsHearNoEcho ==
  ASSUME OwnCallbacksOnly, NoIdChange
  PROVE  Spec => []NoEcho
PROOF
  <1>1. QueuedInv => NoEcho
    BY DEF QueuedInv, OutboxOK, Delivered, NoEcho
  <1> QED
    BY <1>1, QueuedAlways, PTL

-----------------------------------------------------------------------------
(* No client outlives its handle.                                          *)

(* The server works on the connection, or has a client for it.             *)
Served(c) == mapConnections[c] # InvalidUserID \/ Accepting(c)

(* It was given up before the server saw it, and will not be accepted.     *)
Doomed(c) == Untouched(c) /\ connState[c] \in {"Closed", "Dead"}

ConnectingIsFresh == \A c \in Conns : connState[c] = "Connecting" => Untouched(c)

AbortedIsDoomed ==
  \A i \in 1..Len(callbacks) :
    callbacks[i].old = "Connecting" => Doomed(callbacks[i].conn)

ServedIsAlive == \A c \in Conns : Served(c) => connState[c] \in {"Connected", "Closed"}

SweptIsEmpty ==
  pc[ConnThread] \in {"kill", "exited"} =>
    \A c \in Conns : mapConnections[c] = InvalidUserID

AliveInv == ConnectingIsFresh /\ AbortedIsDoomed /\ ServedIsAlive /\ SweptIsEmpty

(* Only the handler of its first callback touches a connection.            *)
LEMMA UntouchedStays ==
  ASSUME OwnCallbacksOnly, RegistryBase, [Next]_vars, NEW c \in Conns, Untouched(c),
         ~(OnConnecting(ConnThread) /\ Head(callbacks).conn = c /\ connState[c] = "Connecting")
  PROVE  Untouched(c)'
PROOF
  <1>0. TypeOK
    BY DEF RegistryBase
  <1>1. CASE CallbackStep(ConnThread)
    <2>1. CASE OnConnecting(ConnThread)
      <3>1. /\ pc[ConnThread] = "callbacks" /\ UNCHANGED boundID
            /\ Head(callbacks).conn \in Conns
        BY <1>0, <2>1, CallbackConns DEF OnConnecting, NextCallback, tables
      <3>2. ~(pc'[ConnThread] \in AcceptLabels /\ place'[ConnThread].conn = c)
        <4>1. CASE connState[Head(callbacks).conn] = "Connecting"
          <5>1. place'[ConnThread].conn = Head(callbacks).conn
            BY <1>0, <2>1, <3>1, <4>1, TableTypes DEF OnConnecting, Peers
          <5> QED
            BY <2>1, <4>1, <5>1
        <4>2. CASE connState[Head(callbacks).conn] # "Connecting"
          BY <2>1, <3>1, <4>2 DEF OnConnecting, AcceptLabels
        <4> QED
          BY <4>1, <4>2
      <3> QED
        BY <3>1, <3>2 DEF Untouched, Accepting
    <2>2. CASE \/ OnClosedWhileConnecting(ConnThread) \/ OnClosedWhileConnected(ConnThread)
               \/ RemoveClientByConnection(ConnThread) \/ BindClient(ConnThread)
      <3>1. UNCHANGED boundID /\ pc'[ConnThread] \notin AcceptLabels
        BY <1>0, <2>2, TableTypes
           DEF OnClosedWhileConnecting, OnClosedWhileConnected, NextCallback, tables,
               RemoveClientByConnection, BindClient, Goto, AcceptLabels
      <3> QED
        BY <3>1 DEF Untouched, Accepting
    <2>3. CASE \/ SkipTakenID(ConnThread) \/ ReadTakenID(ConnThread) \/ PassTakenID(ConnThread)
               \/ FindFreeID(ConnThread) \/ TakeID(ConnThread)
               \/ AdvanceID(ConnThread) \/ ReserveGeneratedID(ConnThread)
               \/ PreAcceptClient(ConnThread) \/ InsertClient(ConnThread)
      <3>1. pc[ConnThread] \in AcceptLabels
        BY <2>3 DEF SkipTakenID, ReadTakenID, PassTakenID,
                    FindFreeID, TakeID, AdvanceID, ReserveGeneratedID,
                    PreAcceptClient, InsertClient, AcceptLabels
      <3>2. place[ConnThread].conn # c
        BY <3>1 DEF Untouched, Accepting
      <3>3. boundID'[c] = boundID[c]
        BY <1>0, <2>3, <3>2, TableTypes
           DEF SkipTakenID, ReadTakenID, PassTakenID,
               FindFreeID, TakeID, AdvanceID, ReserveGeneratedID,
               PreAcceptClient, InsertClient, tables
      <3>4. place'[ConnThread].conn # c
        BY <1>0, <2>3, <3>2, TableTypes, RegistryAssumption
           DEF SkipTakenID, ReadTakenID, PassTakenID,
               FindFreeID, TakeID, AdvanceID, ReserveGeneratedID,
               PreAcceptClient, InsertClient, Nowhere
      <3> QED
        BY <3>3, <3>4 DEF Untouched, Accepting
    <2> QED
      BY <1>1, <2>1, <2>2, <2>3 DEF CallbackStep
  <1>2. CASE LoopStep \/ IncomingStep \/ QueuedStep \/ ShutdownStep
    BY <1>0, <1>2, ConnOutside DEF Untouched, Accepting
  <1>3. CASE ReqStep \/ \E u \in UserThreads : UserStep(u)
    <2>1. pc'[ConnThread] = pc[ConnThread] /\ UNCHANGED <<place, boundID>>
      BY <1>0, <1>3, OthersStay, ThreadsDiffer
    <2> QED
      BY <2>1 DEF Untouched, Accepting
  <1>4. CASE Environment \/ UNCHANGED vars
    BY <1>4 DEF Environment, vars, tables, work, Untouched, Accepting
  <1> QED
    BY <1>1, <1>2, <1>3, <1>4 DEF Next, ConnStep, Terminated, OwnCallbacksOnly

(* What is enough for a step: it accepts nobody, releases only whom the    *)
(* server does not serve afterwards, and brings no new callback.           *)
LEMMA AliveKept ==
  ASSUME TypeOK, AliveInv,
         \A c \in Conns : Untouched(c) => Untouched(c)',
         \A c \in Conns : \/ connState'[c] = connState[c]
                          \/ connState'[c] = "Dead" /\ ~Served(c)',
         \A c \in Conns : Served(c)' => Served(c),
         \/ callbacks' = callbacks \/ callbacks' = <<>>
         \/ callbacks # <<>> /\ callbacks' = Tail(callbacks),
         pc'[ConnThread] \in {"kill", "exited"} =>
           \A c \in Conns : mapConnections'[c] = InvalidUserID
  PROVE  AliveInv'
PROOF
  <1>1. \A c \in Conns : Doomed(c) => Doomed(c)'
    BY DEF Doomed
  <1>2. ConnectingIsFresh'
    BY DEF AliveInv, ConnectingIsFresh
  <1>3. AbortedIsDoomed'
    <2>1. \A i \in 1..Len(callbacks') :
            \E j \in 1..Len(callbacks) : callbacks'[i] = callbacks[j]
      BY CallbackConns
    <2> QED
      BY <1>1, <2>1, CallbackConns DEF AliveInv, AbortedIsDoomed
  <1>4. ServedIsAlive'
    BY DEF AliveInv, ServedIsAlive
  <1>5. SweptIsEmpty'
    BY DEF SweptIsEmpty
  <1> QED
    BY <1>2, <1>3, <1>4, <1>5 DEF AliveInv

(* Whom nobody has touched the server does not serve.                      *)
LEMMA UntouchedNotServed ==
  ASSUME RegistryBase, NEW c \in Conns, Untouched(c)
  PROVE  ~Served(c)
PROOF
  BY DEF RegistryBase, TablesInv, MappedWasBound, Untouched, Served

(* The peers touch nobody, and close those the server works on but keep    *)
(* their handles.                                                          *)
LEMMA AliveEnvironment ==
  ASSUME RegistryBase, AliveInv, Environment
  PROVE  AliveInv'
PROOF
  <1>0. TypeOK
    BY DEF RegistryBase
  <1>1. UNCHANGED <<mapConnections, boundID, pc, place>>
    BY DEF Environment, tables, work
  <1>2. \A c : (Untouched(c)' <=> Untouched(c)) /\ (Served(c)' <=> Served(c))
    BY <1>1 DEF Untouched, Accepting, Served
  <1>3. PICK conn \in Conns : PeerConnects(conn) \/ PeerCloses(conn) \/ PeerSends(conn)
    BY DEF Environment
  <1>4. CASE PeerSends(conn)
    <2>1. UNCHANGED <<connState, callbacks>>
      BY <1>4 DEF PeerSends
    <2> QED
      BY <1>1, <1>2, <2>1
         DEF AliveInv, ConnectingIsFresh, AbortedIsDoomed, Doomed, ServedIsAlive, SweptIsEmpty
  <1>5. CASE PeerConnects(conn)
    <2>1. /\ connState[conn] = "Unused" /\ connState' = [connState EXCEPT ![conn] = "Connecting"]
          /\ callbacks' = Append(callbacks, [conn |-> conn, old |-> "None"])
          /\ Untouched(conn)
      BY <1>5 DEF PeerConnects, RegistryBase, FreshInv, UnusedIsFresh
    <2>2. ~Served(conn)
      BY <2>1, UntouchedNotServed
    <2>3. /\ connState'[conn] = "Connecting"
          /\ \A c \in Conns : c # conn => connState'[c] = connState[c]
      BY <1>0, <2>1, TableTypes
    <2>4. \A i \in 1..Len(callbacks') :
            \/ i \in 1..Len(callbacks) /\ callbacks'[i] = callbacks[i]
            \/ callbacks'[i].old = "None"
      BY <1>0, <2>1, TableTypes
    <2>5. ConnectingIsFresh' /\ ServedIsAlive' /\ SweptIsEmpty'
      BY <1>1, <1>2, <2>1, <2>2, <2>3
         DEF AliveInv, ConnectingIsFresh, ServedIsAlive, SweptIsEmpty
    <2>6. AbortedIsDoomed'
      <3>1. \A c \in Conns : Doomed(c) => Doomed(c)'
        BY <1>2, <2>1, <2>3 DEF Doomed
      <3> QED
        BY <1>0, <2>4, <3>1, CallbackConns DEF AliveInv, AbortedIsDoomed
    <2> QED
      BY <2>5, <2>6 DEF AliveInv
  <1>6. CASE PeerCloses(conn)
    <2>1. /\ connState[conn] \in {"Connecting", "Connected"}
          /\ connState' = [connState EXCEPT ![conn] = "Closed"]
          /\ callbacks' = Append(callbacks, [conn |-> conn, old |-> connState[conn]])
      BY <1>6 DEF PeerCloses
    <2>2. /\ connState'[conn] = "Closed"
          /\ \A c \in Conns : c # conn => connState'[c] = connState[c]
      BY <1>0, <2>1, TableTypes
    <2>3. \A i \in 1..Len(callbacks') :
            \/ i \in 1..Len(callbacks) /\ callbacks'[i] = callbacks[i]
            \/ callbacks'[i].conn = conn /\ callbacks'[i].old = connState[conn]
      BY <1>0, <2>1, TableTypes
    <2>4. ConnectingIsFresh' /\ ServedIsAlive' /\ SweptIsEmpty'
      BY <1>1, <1>2, <2>2 DEF AliveInv, ConnectingIsFresh, ServedIsAlive, SweptIsEmpty
    <2>5. AbortedIsDoomed'
      <3>1. \A c \in Conns : Doomed(c) => Doomed(c)'
        BY <1>2, <2>2 DEF Doomed
      <3>2. connState[conn] = "Connecting" => Doomed(conn)'
        BY <1>2, <2>2 DEF AliveInv, ConnectingIsFresh, Doomed
      <3> QED
        BY <1>0, <2>3, <3>1, <3>2, CallbackConns DEF AliveInv, AbortedIsDoomed
    <2> QED
      BY <2>4, <2>5 DEF AliveInv
  <1> QED
    BY <1>3, <1>4, <1>5, <1>6

(* The callbacks accept whom they find Connecting, and release whom they   *)
(* do not serve any more.                                                  *)
LEMMA AliveCallbackStep ==
  ASSUME OwnCallbacksOnly, RegistryBase, AliveInv, CallbackStep(ConnThread), [Next]_vars
  PROVE  AliveInv'
PROOF
  <1>0. TypeOK
    BY DEF RegistryBase
  <1>1. CASE OnConnecting(ConnThread) /\ connState[Head(callbacks).conn] = "Connecting"
    <2>1. PICK conn \in Conns : conn = Head(callbacks).conn
      BY <1>0, <1>1, CallbackConns DEF OnConnecting, NextCallback
    <2>2. /\ callbacks # <<>> /\ callbacks' = Tail(callbacks) /\ pc[ConnThread] = "callbacks"
          /\ connState' = [connState EXCEPT ![conn] = "Connected"]
          /\ place'[ConnThread].conn = conn /\ pc'[ConnThread] = "generate"
          /\ UNCHANGED mapConnections /\ connState[conn] = "Connecting"
      BY <1>0, <1>1, <2>1, TableTypes DEF OnConnecting, NextCallback, tables, Goto, Peers
    <2>3. /\ connState'[conn] = "Connected"
          /\ \A c \in Conns : c # conn => connState'[c] = connState[c]
      BY <1>0, <2>2, TableTypes
    <2>4. \A c \in Conns : c # conn /\ Untouched(c) => Untouched(c)'
      BY <2>1, UntouchedStays
    <2>5. \A c \in Conns : c # conn /\ Served(c)' => Served(c)
      BY <2>2 DEF Served, Accepting
    <2>6. \A i \in 1..Len(callbacks') :
            i + 1 \in 1..Len(callbacks) /\ callbacks'[i] = callbacks[i + 1]
      BY <1>0, <2>2, CallbackConns
    <2>7. ConnectingIsFresh' /\ ServedIsAlive'
      BY <2>3, <2>4, <2>5 DEF AliveInv, ConnectingIsFresh, ServedIsAlive
    <2>8. AbortedIsDoomed'
      <3>1. \A c \in Conns : Doomed(c) => Doomed(c)'
        BY <2>2, <2>3, <2>4 DEF Doomed
      <3> QED
        BY <1>0, <2>6, <3>1, CallbackConns DEF AliveInv, AbortedIsDoomed
    <2>9. SweptIsEmpty'
      BY <2>2 DEF SweptIsEmpty
    <2> QED
      BY <2>7, <2>8, <2>9 DEF AliveInv
  <1>2. CASE ~(OnConnecting(ConnThread) /\ connState[Head(callbacks).conn] = "Connecting")
    <2>1. \A c \in Conns : Untouched(c) => Untouched(c)'
      BY <1>2, UntouchedStays
    <2>2. pc'[ConnThread] \notin {"kill", "exited"}
      BY <1>0, RequestTypesOK
         DEF CallbackStep, OnConnecting, OnClosedWhileConnecting, OnClosedWhileConnected,
             NextCallback, RemoveClientByConnection, SkipTakenID, ReadTakenID, PassTakenID,
             FindFreeID, TakeID,
             AdvanceID, ReserveGeneratedID, PreAcceptClient, InsertClient, BindClient, Goto
    <2>3. CASE OnConnecting(ConnThread) \/ OnClosedWhileConnecting(ConnThread)
      <3>1. PICK conn \in Conns : conn = Head(callbacks).conn
        BY <1>0, <2>3, CallbackConns DEF OnConnecting, OnClosedWhileConnecting, NextCallback
      <3>2. /\ callbacks # <<>> /\ callbacks' = Tail(callbacks) /\ CloseConnection(conn)
            /\ pc[ConnThread] = "callbacks" /\ UNCHANGED <<mapConnections, pc, place>>
        BY <1>2, <2>3, <3>1
           DEF OnConnecting, OnClosedWhileConnecting, NextCallback, tables
      <3>3. Untouched(conn)
        BY <1>0, <2>3, <3>1, CallbackConns
           DEF OnConnecting, OnClosedWhileConnecting, NextCallback, RegistryBase, FreshInv,
               CallbacksAreFresh, AliveInv, AbortedIsDoomed, Doomed
      <3>4. ~Served(conn)
        BY <3>3, UntouchedNotServed
      <3>5. \A c : Served(c)' <=> Served(c)
        BY <3>2 DEF Served, Accepting
      <3>6. \A c \in Conns : \/ connState'[c] = connState[c]
                             \/ connState'[c] = "Dead" /\ ~Served(c)'
        BY <1>0, <3>2, <3>4, <3>5, TableTypes DEF CloseConnection
      <3> QED
        BY <1>0, <2>1, <2>2, <3>2, <3>5, <3>6, AliveKept
    <2>4. CASE OnClosedWhileConnected(ConnThread)
      <3>1. /\ callbacks # <<>> /\ callbacks' = Tail(callbacks)
            /\ UNCHANGED <<connState, mapConnections>> /\ pc'[ConnThread] = "remove"
        BY <1>0, <2>4, TableTypes DEF OnClosedWhileConnected, NextCallback, tables, Goto
      <3>2. \A c : Served(c)' => Served(c)
        BY <3>1 DEF Served, Accepting, AcceptLabels
      <3> QED
        BY <1>0, <2>1, <2>2, <3>1, <3>2, AliveKept
    <2>5. CASE RemoveClientByConnection(ConnThread)
      <3>1. PICK conn \in Conns : conn = place[ConnThread].conn
        BY <1>0, <2>5, TableTypes DEF RemoveClientByConnection
      <3>2. /\ CloseConnection(conn) /\ UNCHANGED callbacks
            /\ mapConnections' = [c \in Conns |-> IF c = conn THEN InvalidUserID
                                                  ELSE mapConnections[c]]
            /\ pc'[ConnThread] = "callbacks"
        BY <1>0, <2>5, <3>1, TableTypes DEF RemoveClientByConnection, Erase, Goto
      <3>3. \A c \in Conns : Served(c)' => Served(c) /\ c # conn
        BY <3>2 DEF Served, Accepting, AcceptLabels
      <3>4. \A c \in Conns : \/ connState'[c] = connState[c]
                             \/ connState'[c] = "Dead" /\ c = conn
        BY <1>0, <3>2, TableTypes DEF CloseConnection
      <3> QED
        BY <1>0, <2>1, <2>2, <3>2, <3>3, <3>4, AliveKept
    <2>6. CASE PreAcceptClient(ConnThread) /\ pc'[ConnThread] = "callbacks"
      <3>1. PICK conn \in Conns : conn = place[ConnThread].conn
        BY <1>0, <2>6, TableTypes DEF PreAcceptClient, AcceptLabels
      <3>2. /\ CloseConnection(conn) /\ UNCHANGED <<callbacks, mapConnections>>
            /\ pc[ConnThread] = "preAccept"
        BY <1>0, <2>6, <3>1, TableTypes DEF PreAcceptClient, Goto, tables
      <3>3. mapConnections[conn] = InvalidUserID
        BY <3>1, <3>2 DEF RegistryBase, FreshInv, AcceptedIsUnbound, AcceptLabels, TablesInv,
                          MappedWasBound
      <3>4. \A c \in Conns : Served(c)' => Served(c) /\ c # conn
        BY <2>6, <3>2, <3>3 DEF Served, Accepting, AcceptLabels
      <3>5. \A c \in Conns : \/ connState'[c] = connState[c]
                             \/ connState'[c] = "Dead" /\ c = conn
        BY <1>0, <3>2, TableTypes DEF CloseConnection
      <3> QED
        BY <1>0, <2>1, <2>2, <3>2, <3>4, <3>5, AliveKept
    <2>7. CASE \/ SkipTakenID(ConnThread) \/ ReadTakenID(ConnThread) \/ PassTakenID(ConnThread)
               \/ FindFreeID(ConnThread) \/ TakeID(ConnThread)
               \/ AdvanceID(ConnThread) \/ ReserveGeneratedID(ConnThread)
               \/ PreAcceptClient(ConnThread) /\ pc'[ConnThread] # "callbacks"
               \/ InsertClient(ConnThread) \/ BindClient(ConnThread)
      <3>1. UNCHANGED <<connState, callbacks>>
        BY <1>0, <2>7, TableTypes
           DEF SkipTakenID, ReadTakenID, PassTakenID,
               FindFreeID, TakeID, AdvanceID, ReserveGeneratedID,
               PreAcceptClient, InsertClient, BindClient, Goto
      <3>2. /\ pc[ConnThread] \in AcceptLabels
            /\ \/ pc'[ConnThread] = "callbacks"
               \/ place'[ConnThread].conn = place[ConnThread].conn
        BY <1>0, <2>7, TableTypes
           DEF SkipTakenID, ReadTakenID, PassTakenID,
               FindFreeID, TakeID, AdvanceID, ReserveGeneratedID,
               PreAcceptClient, InsertClient, BindClient, Goto, AcceptLabels
      <3>3. \A c \in Conns :
              c # place[ConnThread].conn => mapConnections'[c] = mapConnections[c]
        BY <1>0, <2>7, TableTypes
           DEF SkipTakenID, ReadTakenID, PassTakenID,
               FindFreeID, TakeID, AdvanceID, ReserveGeneratedID,
               PreAcceptClient, InsertClient, BindClient, tables, ConnectionsMap
      <3>4. \A c \in Conns : Served(c)' => Served(c)
        BY <3>2, <3>3 DEF Served, Accepting, AcceptLabels
      <3> QED
        BY <1>0, <2>1, <2>2, <3>1, <3>4, AliveKept
    <2> QED
      BY <2>3, <2>4, <2>5, <2>6, <2>7 DEF CallbackStep
  <1> QED
    BY <1>1, <1>2

(* The shutdown releases every handle, after it has emptied the table.     *)
LEMMA AliveConnStep ==
  ASSUME OwnCallbacksOnly, RegistryBase, AliveInv,
         LoopStep \/ IncomingStep \/ QueuedStep \/ ShutdownStep, [Next]_vars
  PROVE  AliveInv'
PROOF
  <1>0. TypeOK /\ pc[ConnThread] \notin AcceptLabels /\ pc'[ConnThread] \notin AcceptLabels
    BY ConnOutside DEF RegistryBase
  <1>1. \A c \in Conns : Untouched(c) => Untouched(c)'
    BY <1>0, UntouchedStays DEF OnConnecting, NextCallback, LoopStep, ConnTop,
       CallbacksDone, IncomingDone, QueuedDone, IncomingStep, ReceiveMessage, PushIncoming,
       QueuedStep, PopQueued, SendToOne, FindExcluded, StartBroadcast, BroadcastTo,
       EndBroadcast, ShutdownStep, Sweep, KillInterface
  <1>2. CASE LoopStep \/ IncomingStep \/ QueuedStep
    <2>1. UNCHANGED <<connState, callbacks, mapConnections>>
      BY <1>2 DEF LoopStep, IncomingStep, QueuedStep, network, tables
    <2>2. pc'[ConnThread] \notin {"kill", "exited"}
      BY <1>0, <1>2, RequestTypesOK
         DEF LoopStep, ConnTop, CallbacksDone, IncomingDone, QueuedDone, IncomingStep,
             ReceiveMessage, PushIncoming, QueuedStep, PopQueued, SendToOne, FindExcluded,
             StartBroadcast, BroadcastTo, EndBroadcast, Goto
    <2>3. \A c \in Conns : Served(c)' => Served(c)
      BY <1>0, <2>1 DEF Served, Accepting
    <2> QED
      BY <1>0, <1>1, <2>1, <2>2, <2>3, AliveKept
  <1>3. CASE Sweep
    <2>1. /\ \A c \in Conns : mapConnections'[c] = InvalidUserID
          /\ \A c \in Conns : connState'[c] \in {connState[c], "Dead"}
          /\ UNCHANGED callbacks
      BY <1>3 DEF Sweep
    <2>2. \A c \in Conns : ~Served(c)'
      BY <1>0, <2>1 DEF Served, Accepting
    <2> QED
      BY <1>0, <1>1, <2>1, <2>2, AliveKept
  <1>4. CASE KillInterface
    <2>1. /\ pc[ConnThread] = "kill" /\ callbacks' = <<>> /\ UNCHANGED mapConnections
          /\ \A c \in Conns : connState'[c] \in {connState[c], "Dead"}
      BY <1>4 DEF KillInterface, tables
    <2>2. \A c \in Conns : mapConnections'[c] = InvalidUserID
      BY <2>1 DEF AliveInv, SweptIsEmpty
    <2>3. \A c \in Conns : ~Served(c)'
      BY <1>0, <2>2 DEF Served, Accepting
    <2> QED
      BY <1>0, <1>1, <2>1, <2>2, <2>3, AliveKept
  <1> QED
    BY <1>2, <1>3, <1>4 DEF ShutdownStep

(* RemoveClient forgets whom it releases; AcceptClient is not working on   *)
(* it, for it holds the lock of the id while the entry is incomplete.      *)
LEMMA AliveOthers ==
  ASSUME OwnCallbacksOnly, RegistryBase, AliveInv,
         ReqStep \/ \E u \in UserThreads : UserStep(u), [Next]_vars
  PROVE  AliveInv'
PROOF
  <1>0. TypeOK
    BY DEF RegistryBase
  <1>1. pc'[ConnThread] = pc[ConnThread] /\ UNCHANGED <<place, callbacks, boundID>>
    BY <1>0, OthersStay, ThreadsDiffer
  <1>2. \A c : (Accepting(c)' <=> Accepting(c)) /\ (Untouched(c)' <=> Untouched(c))
    BY <1>1 DEF Accepting, Untouched
  <1>3. CASE UNCHANGED <<connState, mapConnections>>
    <2>1. \A c : Served(c)' <=> Served(c)
      BY <1>2, <1>3 DEF Served
    <2> QED
      BY <1>0, <1>1, <1>2, <1>3, <2>1, AliveKept DEF AliveInv, SweptIsEmpty
  <1>4. ASSUME NEW u \in UserThreads, NEW id \in UserIDs, UserRemovesClient(u, id)
        PROVE  AliveInv'
    <2>1. PICK conn : conn = mapClients[id].connection
      OBVIOUS
    <2>2. /\ mapClients[id] # NoClient /\ AllFree
          /\ IF conn = NoConn THEN UNCHANGED connState ELSE CloseConnection(conn)
          /\ mapConnections' = [c \in Conns |-> IF c = conn THEN InvalidUserID
                                                ELSE mapConnections[c]]
      BY <1>4, <2>1 DEF UserRemovesClient, Erase
    <2>3. conn # NoConn => conn \in Conns /\ boundID[conn] # InvalidUserID
      BY <2>1, <2>2, EntryIsMapped
    <2>4. ~Accepting(conn)
      <3>1. pc[ConnThread] # "bind"
        BY <1>0, <2>2, BindBlocksAll, ThreadsDiffer DEF RegistryBase
      <3>2. Accepting(conn) => boundID[conn] = InvalidUserID /\ conn \in Conns
        BY <1>0, <3>1, TableTypes DEF Accepting, RegistryBase, FreshInv, AcceptedIsUnbound
      <3> QED
        BY <2>3, <3>2, RegistryAssumption
    <2>5. \A c \in Conns : Served(c)' => Served(c) /\ c # conn
      BY <1>2, <2>2, <2>4 DEF Served
    <2>6. \A c \in Conns : \/ connState'[c] = connState[c]
                           \/ connState'[c] = "Dead" /\ c = conn
      BY <1>0, <2>2, TableTypes DEF CloseConnection
    <2>7. pc'[ConnThread] \in {"kill", "exited"} =>
            \A c \in Conns : mapConnections'[c] = InvalidUserID
      BY <1>1, <2>2 DEF AliveInv, SweptIsEmpty
    <2> QED
      BY <1>0, <1>1, <1>2, <2>5, <2>6, <2>7, AliveKept
  <1>5. ASSUME NEW u \in UserThreads, NEW currentID \in UserIDs, NEW newID \in UserIDs,
               UserChangesID(u, currentID, newID)
        PROVE  AliveInv'
    <2>1. /\ UNCHANGED connState /\ \A c \in Conns : Served(c)' <=> Served(c)
          /\ \A c \in Conns : mapConnections'[c] # InvalidUserID <=>
                              mapConnections[c] # InvalidUserID
      BY <1>2, <1>5, ChangeKeepsMapped DEF Served
    <2> QED
      BY <1>0, <1>1, <1>2, <2>1, AliveKept DEF AliveInv, SweptIsEmpty
  <1> QED
    BY <1>3, <1>4, <1>5
       DEF ReqStep, KeptByRequests, network, UserStep, UserReservesID, UserSends,
           UserDisablesPush, UserSetsGoingExit

(* No step leaves a client on a dead handle.                               *)
LEMMA AliveStep ==
  ASSUME OwnCallbacksOnly, RegistryBase, AliveInv, [Next]_vars
  PROVE  AliveInv'
PROOF
  <1>1. CASE UNCHANGED vars
    BY <1>1 DEF vars, network, tables, work, AliveInv, ConnectingIsFresh, AbortedIsDoomed,
                Doomed, Untouched, ServedIsAlive, Served, Accepting, SweptIsEmpty
  <1> QED
    BY <1>1, AliveEnvironment, AliveCallbackStep, AliveConnStep, AliveOthers
       DEF Next, ConnStep, Terminated, OwnCallbacksOnly

(* In the beginning there are neither connections nor callbacks.           *)
LEMMA AliveInit == Init => AliveInv
PROOF
  <1> SUFFICES ASSUME Init PROVE AliveInv
    OBVIOUS
  <1>1. pc[ConnThread] = "top"
    BY ThreadsDiffer DEF Init, CallbackThreads
  <1>2. /\ callbacks = <<>> /\ \A c \in Conns : connState[c] = "Unused"
        /\ \A c \in Conns : mapConnections[c] = InvalidUserID
    BY DEF Init
  <1> QED
    BY <1>1, <1>2 DEF AliveInv, ConnectingIsFresh, AbortedIsDoomed, ServedIsAlive, Served,
                      Accepting, AcceptLabels, SweptIsEmpty

(* Whatever ids the user changes and whatever comes and goes, as long as   *)
(* no client is moved to the very id AcceptClient is about to use: every   *)
(* connection GNS has not released has a client, or a callback about it    *)
(* waits or is being handled; no client is left on a released one; every   *)
(* message comes from a client's connection, so that PollIncomingRequests  *)
(* never locks id 0, which it holds already (ChatServer.cpp:88-104, 211-   *)
(* 215, 370-439, 452-529).                                                 *)
THEOREM ConnectionsAcrossChanges ==
  ASSUME OwnCallbacksOnly
  PROVE  Spec /\ [][ChangesSpareGenerated]_vars =>
           [](NoLeakedConnection /\ NoDeadClient /\ NoOrphanMessage)
PROOF
  <1>1. AttendedInv => NoLeakedConnection
    <2>1. ConnThread \in CallbackThreads
      BY ThreadsDiffer
    <2> QED
      BY <2>1 DEF AttendedInv, NoLeakedConnection, Open, Attended, Pending
  <1>2. RegistryBase /\ AliveInv /\ [Next]_vars => AliveInv'
    BY AliveStep
  <1>3. AliveInv => NoDeadClient
    BY DEF AliveInv, ServedIsAlive, Served, NoDeadClient
  <1>4. RegistryBase /\ AttendedInv /\ NoOrphanMessage /\ [Next]_vars => NoOrphanMessage'
    BY OrphanStep
  <1>5. Init => NoOrphanMessage
    BY ThreadsDiffer DEF Init, NoOrphanMessage
  <1> QED
    BY <1>1, <1>2, <1>3, <1>4, <1>5, AliveInit, AttendedAlways, PTL DEF Spec

(* In particular when the user changes no ids: no connection is forgotten, *)
THEOREM NoneIsForgotten ==
  ASSUME OwnCallbacksOnly, NoIdChange
  PROVE  Spec => []NoLeakedConnection
PROOF
  BY ConnectionsAcrossChanges, SparingSpec, PTL

(* no client outlives its handle (ChatServer.cpp:88-104, 370-439),         *)
THEOREM ClientsAreAlive ==
  ASSUME OwnCallbacksOnly, NoIdChange
  PROVE  Spec => []NoDeadClient
PROOF
  BY ConnectionsAcrossChanges, SparingSpec, PTL

(* and no message is taken for one of nobody (ChatServer.cpp:211-215).     *)
THEOREM NoMessageIsOrphaned ==
  ASSUME OwnCallbacksOnly, NoIdChange
  PROVE  Spec => []NoOrphanMessage
PROOF
  BY ConnectionsAcrossChanges, SparingSpec, PTL

-----------------------------------------------------------------------------
(* Reserved ids, of a server whose user neither reserves nor changes any.  *)

ReservingLabels == {"preAccept", "insert", "bind"}

(* An entry that keeps its connection keeps its state; a free id is not    *)
(* Reserved.                                                               *)
LEMMA SameConnectionSameState ==
  ASSUME NEW old, NEW new, NEW id,
         new[id] = NoClient \/ (new[id].connection = old[id].connection /\ old[id] # NoClient),
         GetUserIDState(new, id) = "Reserved"
  PROVE  GetUserIDState(old, id) = "Reserved"
PROOF
  BY DEF GetUserIDState

(* What is turned away stays so: a released handle is not used again, and  *)
(* only the connection being accepted, which is none, gets an id.          *)
LEMMA TurnedAwayStays ==
  ASSUME OwnCallbacksOnly, RegistryBase, AliveInv, [Next]_vars,
         NEW c \in Conns, c \in TurnedAway
  PROVE  c \in TurnedAway'
PROOF
  <1>1. /\ connState[c] = "Dead" /\ boundID[c] = InvalidUserID /\ TypeOK
        /\ connState \in [Conns -> {"Unused", "Connecting", "Connected", "Closed", "Dead"}]
    BY TableTypes DEF TurnedAway, RegistryBase
  <1>2. connState'[c] = "Dead"
    <2>1. CASE Environment
      BY <1>1, <2>1 DEF Environment, PeerConnects, PeerCloses, PeerSends
    <2>2. CASE CallbackStep(ConnThread)
      BY <1>1, <2>2
         DEF CallbackStep, OnConnecting, OnClosedWhileConnecting, OnClosedWhileConnected,
             NextCallback, RemoveClientByConnection, CloseConnection,
             SkipTakenID, ReadTakenID,
             PassTakenID, FindFreeID, TakeID, AdvanceID, ReserveGeneratedID, PreAcceptClient,
             InsertClient, BindClient
    <2>3. CASE LoopStep \/ IncomingStep \/ QueuedStep \/ ShutdownStep \/ ReqStep \/ UNCHANGED vars
      BY <1>1, <2>3
         DEF LoopStep, IncomingStep, QueuedStep, ShutdownStep, Sweep, KillInterface, ReqStep,
             KeptByRequests, vars, network
    <2>4. CASE \E u \in UserThreads : UserStep(u)
      BY <1>1, <2>4
         DEF UserStep, UserRemovesClient, CloseConnection, UserReservesID, UserChangesID,
             UserSends, UserDisablesPush, UserSetsGoingExit
    <2> QED
      BY <2>1, <2>2, <2>3, <2>4 DEF Next, ConnStep, Terminated, OwnCallbacksOnly
  <1>3. boundID'[c] = boundID[c]
    <2>1. CASE CallbackStep(ConnThread)
      <3>1. CASE InsertClient(ConnThread)
        <4>1. Accepting(place[ConnThread].conn) /\ place[ConnThread].conn \in Conns
          BY <1>1, <3>1, TableTypes DEF InsertClient, Accepting, AcceptLabels
        <4>2. place[ConnThread].conn # c
          BY <1>1, <4>1 DEF AliveInv, ServedIsAlive, Served
        <4> QED
          BY <1>1, <3>1, <4>2, TableTypes DEF InsertClient
      <3> QED
        BY <2>1, <3>1
           DEF CallbackStep, OnConnecting, OnClosedWhileConnecting, OnClosedWhileConnected,
               NextCallback, RemoveClientByConnection,
               SkipTakenID, ReadTakenID, PassTakenID,
               FindFreeID, TakeID, AdvanceID, ReserveGeneratedID, PreAcceptClient, BindClient,
               tables
    <2>2. CASE LoopStep \/ IncomingStep \/ QueuedStep \/ ShutdownStep
      BY <1>1, <2>2, ConnOutside
    <2>3. CASE ReqStep \/ \E u \in UserThreads : UserStep(u)
      BY <1>1, <2>3, OthersStay
    <2> QED
      BY <2>1, <2>2, <2>3
         DEF Next, ConnStep, Terminated, Environment, vars, tables, OwnCallbacksOnly
  <1> QED
    BY <1>1, <1>2, <1>3 DEF TurnedAway

(* No id gets stuck if none becomes Reserved and who has reserved one goes *)
(* on with it.                                                             *)
LEMMA StuckKept ==
  ASSUME \A id \in UserIDs : GetUserIDState(mapClients', id) = "Reserved" =>
                               GetUserIDState(mapClients, id) = "Reserved",
         \A t \in CallbackThreads : pc[t] \in ReservingLabels =>
           pc'[t] \in ReservingLabels /\ place'[t].id = place[t].id
  PROVE  StuckIDs' \subseteq StuckIDs
PROOF
  BY DEF StuckIDs, InAccept, ReservingLabels

(* Then each is still paid for.                                            *)
LEMMA PaidKept ==
  ASSUME OnlyRejectionsLeak, StuckIDs' \subseteq StuckIDs, TurnedAway \subseteq TurnedAway',
         \A id \in StuckIDs', c \in Conns : boundID'[c] # id
  PROVE  OnlyRejectionsLeak'
PROOF
  <1>1. PICK paidBy \in [StuckIDs -> TurnedAway] :
          \A i, j \in StuckIDs : paidBy[i] = paidBy[j] => i = j
    BY DEF OnlyRejectionsLeak
  <1> DEFINE rest == [id \in StuckIDs' |-> paidBy[id]]
  <1>2. rest \in [StuckIDs' -> TurnedAway']
    BY <1>1
  <1>3. \A i, j \in StuckIDs' : rest[i] = rest[j] => i = j
    BY <1>1
  <1> HIDE DEF rest
  <1> QED
    BY <1>2, <1>3 DEF OnlyRejectionsLeak

(* AcceptClient's own steps: the id it leaves Reserved when it rejects a   *)
(* connection belonged to nobody, and this connection pays for it.         *)
LEMMA PaidCallbackStep ==
  ASSUME OwnCallbacksOnly, RegistryBase, IdsInv, AliveInv, OnlyRejectionsLeak,
         [Next]_vars, CallbackStep(ConnThread)
  PROVE  OnlyRejectionsLeak'
PROOF
  <1> DEFINE t == ConnThread
             id == place[t].id
             conn == place[t].conn
  <1>1. /\ mapClients \in ClientsMap /\ id \in UserIDs /\ t \in Threads
        /\ CallbackThreads = {t} /\ TypeOK
        /\ pc \in [Threads -> ConnLabels \cup ReqLabels \cup {"idle", "closing"}]
        /\ place \in [CallbackThreads -> [conn : Peers, id : UserIDs]]
        /\ boundID \in [Conns -> UserIDs]
    BY TableTypes DEF RegistryBase, OwnCallbacksOnly, CallbackThreads
  <1>2. TurnedAway \subseteq TurnedAway'
    BY TurnedAwayStays DEF TurnedAway
  <1>3. CASE \/ OnConnecting(t) \/ OnClosedWhileConnecting(t) \/ OnClosedWhileConnected(t)
             \/ SkipTakenID(t) \/ ReadTakenID(t) \/ PassTakenID(t)
             \/ FindFreeID(t) \/ TakeID(t) \/ AdvanceID(t)
    <2>1. UNCHANGED <<mapClients, boundID>> /\ pc[t] \notin ReservingLabels
      BY <1>3
         DEF OnConnecting, OnClosedWhileConnecting, OnClosedWhileConnected, NextCallback,
             SkipTakenID, ReadTakenID, PassTakenID,
             FindFreeID, TakeID, AdvanceID, tables,
             ReservingLabels
    <2>2. StuckIDs' \subseteq StuckIDs
      BY <1>1, <2>1, StuckKept
    <2> QED
      BY <1>2, <2>1, <2>2, PaidKept DEF OnlyRejectionsLeak
  <1>4. CASE RemoveClientByConnection(t)
    <2>1. /\ pc[t] = "remove" /\ UNCHANGED boundID
          /\ \A i \in UserIDs : mapClients'[i] \in {NoClient, mapClients[i]}
      BY <1>4 DEF RemoveClientByConnection, Erase
    <2>2. \A i \in UserIDs : GetUserIDState(mapClients', i) = "Reserved" =>
                             GetUserIDState(mapClients, i) = "Reserved"
      BY <2>1 DEF GetUserIDState
    <2>3. StuckIDs' \subseteq StuckIDs
      BY <1>1, <2>1, <2>2, StuckKept DEF ReservingLabels
    <2> QED
      BY <1>2, <2>1, <2>3, PaidKept DEF OnlyRejectionsLeak
  <1>5. CASE ReserveGeneratedID(t)
    <2>1. /\ pc[t] = "reserve" /\ pc'[t] = "preAccept" /\ UNCHANGED <<place, boundID>>
          /\ mapClients' = ReserveUserID(mapClients, id)
      BY <1>1, <1>5 DEF ReserveGeneratedID, Goto
    <2>2. \A i \in UserIDs : i # id => mapClients'[i] = mapClients[i]
      BY <1>1, <2>1 DEF ReserveUserID, ClientsMap
    <2>3. \A i \in UserIDs : i # id /\ GetUserIDState(mapClients', i) = "Reserved" =>
                             GetUserIDState(mapClients, i) = "Reserved"
      BY <2>2 DEF GetUserIDState
    <2>4. StuckIDs' \subseteq StuckIDs
      BY <1>1, <2>1, <2>3 DEF StuckIDs, InAccept
    <2> QED
      BY <1>2, <2>1, <2>4, PaidKept DEF OnlyRejectionsLeak
  <1>6. CASE PreAcceptClient(t)
    <2>1. /\ pc[t] = "preAccept" /\ UNCHANGED <<mapClients, boundID>>
          /\ \/ pc'[t] = "insert" /\ UNCHANGED place
             \/ pc'[t] = "callbacks" /\ CloseConnection(conn)
      BY <1>1, <1>6 DEF PreAcceptClient, Goto, tables
    <2>2. CASE pc'[t] = "insert" /\ UNCHANGED place
      <3>1. StuckIDs' \subseteq StuckIDs
        BY <1>1, <2>1, <2>2, StuckKept DEF ReservingLabels
      <3> QED
        BY <1>2, <2>1, <3>1, PaidKept DEF OnlyRejectionsLeak
    <2>3. CASE pc'[t] = "callbacks" /\ CloseConnection(conn)
      <3>1. conn \in Conns /\ conn \notin TurnedAway
        <4>1. conn \in Conns /\ Accepting(conn)
          BY <1>1, <2>1, TableTypes DEF Accepting, AcceptLabels
        <4> QED
          BY <4>1 DEF AliveInv, ServedIsAlive, Served, TurnedAway
      <3>2. conn \in TurnedAway'
        <4>1. boundID[conn] = InvalidUserID
          BY <2>1 DEF RegistryBase, FreshInv, AcceptedIsUnbound, AcceptLabels
        <4>2. connState'[conn] = "Dead"
          BY <1>1, <2>3, <3>1, TableTypes DEF CloseConnection
        <4> QED
          BY <2>1, <3>1, <4>1, <4>2 DEF TurnedAway
      <3>3. StuckIDs' \subseteq StuckIDs \cup {id}
        BY <1>1, <2>1 DEF StuckIDs, InAccept
      <3>4. id \notin StuckIDs /\ \A c \in Conns : boundID'[c] # id
        BY <1>1, <2>1 DEF StuckIDs, InAccept, IdsInv, GeneratedIsNew
      <3>5. PICK paidBy \in [StuckIDs -> TurnedAway] :
              \A i, j \in StuckIDs : paidBy[i] = paidBy[j] => i = j
        BY DEF OnlyRejectionsLeak
      <3> DEFINE more == [i \in StuckIDs' |-> IF i = id THEN conn ELSE paidBy[i]]
      <3>6. more \in [StuckIDs' -> TurnedAway']
        BY <1>2, <3>2, <3>3, <3>5
      <3>7. \A i, j \in StuckIDs' : more[i] = more[j] => i = j
        BY <3>1, <3>3, <3>5
      <3> HIDE DEF more
      <3>8. \A i \in StuckIDs', c \in Conns : boundID'[c] # i
        BY <2>1, <3>3, <3>4 DEF OnlyRejectionsLeak
      <3> QED
        BY <3>6, <3>7, <3>8 DEF OnlyRejectionsLeak
    <2> QED
      BY <2>1, <2>2, <2>3
  <1>7. CASE InsertClient(t)
    <2>1. /\ pc[t] = "insert" /\ pc'[t] = "bind" /\ UNCHANGED place
          /\ \A i \in UserIDs : i # id => mapClients'[i] = mapClients[i]
          /\ boundID' = [boundID EXCEPT ![conn] = id]
      BY <1>1, <1>7 DEF InsertClient, Goto, ClientsMap
    <2>2. \A i \in UserIDs : i # id /\ GetUserIDState(mapClients', i) = "Reserved" =>
                             GetUserIDState(mapClients, i) = "Reserved"
      BY <2>1 DEF GetUserIDState
    <2>3. StuckIDs' \subseteq StuckIDs /\ id \notin StuckIDs'
      BY <1>1, <2>1, <2>2 DEF StuckIDs, InAccept
    <2>4. \A i \in StuckIDs', c \in Conns : boundID'[c] # i
      BY <1>1, <2>1, <2>3 DEF OnlyRejectionsLeak
    <2> QED
      BY <1>2, <2>3, <2>4, PaidKept
  <1>8. CASE BindClient(t)
    <2>1. /\ pc[t] = "bind" /\ conn \in Conns /\ UNCHANGED boundID
          /\ \A i \in UserIDs : i # id => mapClients'[i] = mapClients[i]
          /\ mapClients'[id].connection = conn
      BY <1>1, <1>8, TableTypes DEF BindClient, ClientsMap, AcceptLabels
    <2>2. /\ GetUserIDState(mapClients', id) # "Reserved"
          /\ \A i \in UserIDs : i # id /\ GetUserIDState(mapClients', i) = "Reserved" =>
                                GetUserIDState(mapClients, i) = "Reserved"
      BY <2>1, RegistryAssumption DEF GetUserIDState
    <2>3. StuckIDs' \subseteq StuckIDs
      BY <1>1, <2>1, <2>2 DEF StuckIDs, InAccept
    <2> QED
      BY <1>2, <2>1, <2>3, PaidKept DEF OnlyRejectionsLeak
  <1> QED
    BY <1>3, <1>4, <1>5, <1>6, <1>7, <1>8 DEF CallbackStep

LEMMA PaidStep ==
  ASSUME OwnCallbacksOnly, OnlyAcceptReserves, RegistryBase, IdsInv, AliveInv,
         OnlyRejectionsLeak, [Next]_vars
  PROVE  OnlyRejectionsLeak'
PROOF
  <1>0. TypeOK /\ TurnedAway \subseteq TurnedAway'
    BY TurnedAwayStays DEF TurnedAway, RegistryBase
  <1>1. CASE Environment \/ UNCHANGED vars
    <2>1. UNCHANGED <<mapClients, pc, place, boundID>>
      BY <1>1 DEF Environment, vars, tables, work
    <2>2. StuckIDs' \subseteq StuckIDs
      BY <2>1, StuckKept
    <2> QED
      BY <1>0, <2>1, <2>2, PaidKept DEF OnlyRejectionsLeak
  <1>2. CASE LoopStep \/ IncomingStep \/ QueuedStep \/ ShutdownStep
    <2>1. \A i \in UserIDs : mapClients'[i] = mapClients[i] \/ mapClients'[i] = NoClient
      BY <1>2 DEF LoopStep, IncomingStep, QueuedStep, ShutdownStep, Sweep, KillInterface, tables
    <2>2. \A i \in UserIDs : GetUserIDState(mapClients', i) = "Reserved" =>
                             GetUserIDState(mapClients, i) = "Reserved"
      BY <2>1 DEF GetUserIDState
    <2>3. StuckIDs' \subseteq StuckIDs /\ UNCHANGED boundID
      BY <1>0, <1>2, <2>2, ConnOutside, StuckKept DEF ReservingLabels, AcceptLabels
    <2> QED
      BY <1>0, <2>3, PaidKept DEF OnlyRejectionsLeak
  <1>3. CASE ReqStep
    <2>1. \A i \in UserIDs : GetUserIDState(mapClients', i) = "Reserved" =>
                             GetUserIDState(mapClients, i) = "Reserved"
      <3> SUFFICES ASSUME NEW i \in UserIDs, GetUserIDState(mapClients', i) = "Reserved"
                   PROVE  GetUserIDState(mapClients, i) = "Reserved"
        OBVIOUS
      <3>1. CASE mapClients'[i] = mapClients[i]
        BY <3>1 DEF GetUserIDState
      <3>2. CASE /\ mapClients[i] \in HClient
                 /\ mapClients'[i] = [mapClients[i] EXCEPT !.state = "Active", !.userID = i]
        <4>1. mapClients'[i].connection = mapClients[i].connection /\ mapClients[i] # NoClient
          BY <3>2, NoClientAssumption DEF HClient
        <4> QED
          BY <4>1, SameConnectionSameState
      <3> QED
        BY <1>0, <1>3, <3>1, <3>2, ReqKeepsEntries
    <2>2. StuckIDs' \subseteq StuckIDs /\ UNCHANGED boundID
      BY <1>0, <1>3, <2>1, OthersStay, StuckKept
    <2> QED
      BY <1>0, <2>2, PaidKept DEF OnlyRejectionsLeak
  <1>4. ASSUME NEW u \in UserThreads, UserStep(u) PROVE OnlyRejectionsLeak'
    <2>1. \A i \in UserIDs : mapClients'[i] = mapClients[i] \/ mapClients'[i] = NoClient
      BY <1>4
         DEF UserStep, UserRemovesClient, Erase, UserReservesID, UserChangesID, MayCall,
             OnlyAcceptReserves, UserSends, UserDisablesPush, UserSetsGoingExit
    <2>2. \A i \in UserIDs : GetUserIDState(mapClients', i) = "Reserved" =>
                             GetUserIDState(mapClients, i) = "Reserved"
      BY <2>1 DEF GetUserIDState
    <2>3. StuckIDs' \subseteq StuckIDs /\ UNCHANGED boundID
      BY <1>0, <1>4, <2>2, OthersStay, StuckKept
    <2> QED
      BY <1>0, <2>3, PaidKept DEF OnlyRejectionsLeak
  <1> QED
    BY <1>1, <1>2, <1>3, <1>4, PaidCallbackStep
       DEF Next, ConnStep, Terminated, OwnCallbacksOnly

(* Whatever the user's verdicts are, and however removals, closes and the  *)
(* shutdown fall into an AcceptClient: an id stays Reserved only because a *)
(* connection was turned away, and a connection that was turned away costs *)
(* one id at most (ChatServer.cpp:462-497, the FIXME at 475).              *)
THEOREM RejectionsCostOneID ==
  ASSUME OwnCallbacksOnly, OnlyAcceptReserves
  PROVE  Spec => []OnlyRejectionsLeak
PROOF
  <1>1. NoIdChange
    BY DEF OnlyAcceptReserves, NoIdChange
  <1>2. Init => OnlyRejectionsLeak
    <2>1. Init => StuckIDs = {}
      BY DEF Init, StuckIDs, GetUserIDState
    <2>2. StuckIDs = {} => OnlyRejectionsLeak
      <3> SUFFICES ASSUME StuckIDs = {} PROVE OnlyRejectionsLeak
        OBVIOUS
      <3> DEFINE nothing == [id \in StuckIDs |-> NoConn]
      <3>1. nothing \in [StuckIDs -> TurnedAway]
        OBVIOUS
      <3> QED
        BY <3>1, Zenon DEF OnlyRejectionsLeak
    <2> QED
      BY <2>1, <2>2
  <1>3. RegistryBase /\ IdsInv /\ AliveInv /\ OnlyRejectionsLeak /\ [Next]_vars
          => OnlyRejectionsLeak'
    BY PaidStep
  <1>4. RegistryBase /\ AliveInv /\ [Next]_vars => AliveInv'
    BY AliveStep
  <1> QED
    BY <1>1, <1>2, <1>3, <1>4, AliveInit, BaseAlways, PTL DEF Spec, TablesBase

-----------------------------------------------------------------------------
(* The server implements Membership.  First, what a step must show to be a *)
(* step of Membership.                                                     *)

NoNewClaims ==
  \A c \in Conns, id \in UserIDs : HasClaimed(c, id)' => HasClaimed(c, id)

(* Nobody comes, goes or becomes Active.                                   *)
LEMMA ToForget ==
  ASSUME NoNewClaims, UNCHANGED boundID, \A c \in Conns : StageOf(c)' = StageOf(c)
  PROVE  Members!MemberNext
PROOF
  <1>1. Members!Forget
    BY DEF NoNewClaims, Members!Forget, Members!ClaimsShrink
  <1> QED
    BY <1>1 DEF Members!MemberNext

(* A client leaves.                                                        *)
LEMMA ToLeave ==
  ASSUME NoNewClaims, UNCHANGED boundID, NEW c \in Conns,
         StageOf(c) \in {"joined", "active"}, StageOf(c)' = "gone",
         \A d \in Conns : d # c => StageOf(d)' = StageOf(d)
  PROVE  Members!MemberNext
PROOF
  <1>1. Members!Leave(c)
    BY DEF NoNewClaims, Members!Leave, Members!IsMember, Members!ClaimsShrink
  <1> QED
    BY <1>1 DEF Members!MemberNext

(* All clients leave.                                                      *)
LEMMA ToLeaveAll ==
  ASSUME NoNewClaims, UNCHANGED boundID,
         \A c \in Conns : StageOf(c)' = IF StageOf(c) \in {"joined", "active"} THEN "gone"
                                        ELSE StageOf(c)
  PROVE  Members!MemberNext
PROOF
  <1>1. Members!LeaveAll
    BY DEF NoNewClaims, Members!LeaveAll, Members!IsMember, Members!ClaimsShrink
  <1> QED
    BY <1>1 DEF Members!MemberNext

(* A client becomes Active.                                                *)
LEMMA ToActivate ==
  ASSUME NoNewClaims, UNCHANGED boundID, NEW c \in Conns, NEW id \in UserIDs,
         StageOf(c) = "joined", StageOf(c)' = "active",
         boundID[c] = id, HasClaimed(c, id),
         \A d \in Conns : d # c => StageOf(d)' = StageOf(d)
  PROVE  Members!MemberNext
PROOF
  <1>1. Members!Activate(c)
    BY DEF NoNewClaims, Members!Activate, Members!ClaimsShrink
  <1> QED
    BY <1>1 DEF Members!MemberNext

(* A connection joins.                                                     *)
LEMMA ToJoin ==
  ASSUME NEW c \in Conns, NEW id \in UserIDs, ~IsLibReservedID(id),
         StageOf(c) = "outside", StageOf(c)' = "joined",
         \A d \in Conns : boundID[d] # id,
         boundID' = [boundID EXCEPT ![c] = id],
         \A d \in Conns, n \in UserIDs : HasClaimed(d, n)' <=> HasClaimed(d, n),
         \A d \in Conns : d # c => StageOf(d)' = StageOf(d)
  PROVE  Members!MemberNext
PROOF
  <1>1. Members!Join(c, id)
    BY DEF Members!Join
  <1>2. id \in GivenIDs
    BY DEF GivenIDs
  <1> QED
    BY <1>1, <1>2 DEF Members!MemberNext

(* A connection sends a client info.                                       *)
LEMMA ToClaim ==
  ASSUME NEW c \in Conns, NEW id \in UserIDs, UNCHANGED boundID,
         \A d \in Conns, n \in UserIDs :
           HasClaimed(d, n)' <=> HasClaimed(d, n) \/ (d = c /\ n = id),
         \A d \in Conns : StageOf(d)' = StageOf(d)
  PROVE  Members!MemberNext
PROOF
  <1>1. Members!Claim(c, id)
    BY DEF Members!Claim
  <1> QED
    BY <1>1 DEF Members!MemberNext

(* In the beginning everybody is outside and nobody has claimed anything.  *)
LEMMA MembershipInit == Init => Members!MemberInit
PROOF
  <1> SUFFICES ASSUME Init PROVE Members!MemberInit
    OBVIOUS
  <1>1. pc[ConnThread] = "top" /\ pc[ReqThread] = "top"
    BY ThreadsDiffer DEF Init, CallbackThreads
  <1>2. handleQueue = <<>> /\ \A c \in Conns : inbox[c] = <<>>
    BY DEF Init
  <1>3. \A c \in Conns, id \in UserIDs : ~HasClaimed(c, id)
    BY <1>1, <1>2 DEF HasClaimed
  <1>4. \A c \in Conns : mapConnections[c] = InvalidUserID /\ boundID[c] = InvalidUserID
    BY DEF Init
  <1>5. \A c \in Conns : StageOf(c) = "outside"
    BY <1>4 DEF StageOf
  <1>6. boundID = [c \in Conns |-> InvalidUserID]
    BY DEF Init
  <1> QED
    BY <1>3, <1>5, <1>6 DEF Members!MemberInit

(* The stage, with a single callback thread.                               *)
LEMMA StageIs ==
  ASSUME OwnCallbacksOnly, NEW c \in Conns
  PROVE  StageOf(c) =
           IF mapConnections[c] # InvalidUserID
           THEN IF /\ ~(pc[ConnThread] = "bind" /\ place[ConnThread].id = mapConnections[c])
                   /\ mapClients[mapConnections[c]] # NoClient
                   /\ mapClients[mapConnections[c]].state = "Active"
                THEN "active" ELSE "joined"
           ELSE IF boundID[c] = InvalidUserID THEN "outside" ELSE "gone"
PROOF
  BY DEF OwnCallbacksOnly, CallbackThreads, Binding, StageOf

(* The same in the next state.                                             *)
LEMMA StageIsNext ==
  ASSUME OwnCallbacksOnly, NEW c \in Conns
  PROVE  StageOf(c)' =
           IF mapConnections'[c] # InvalidUserID
           THEN IF /\ ~(pc'[ConnThread] = "bind" /\ place'[ConnThread].id = mapConnections'[c])
                   /\ mapClients'[mapConnections'[c]] # NoClient
                   /\ mapClients'[mapConnections'[c]].state = "Active"
                THEN "active" ELSE "joined"
           ELSE IF boundID'[c] = InvalidUserID THEN "outside" ELSE "gone"
PROOF
  BY DEF OwnCallbacksOnly, CallbackThreads, Binding, StageOf

(* Client infos on their way.                                              *)

InInbox(c, id) == \E i \in 1..Len(inbox[c]) : IsClaim(inbox[c][i], id)

InQueue(c, id) ==
  \E i \in 1..Len(handleQueue) : handleQueue[i].peer = c /\ IsClaim(handleQueue[i], id)

InConnHand(c, id) ==
  pc[ConnThread] = "lockClient" /\ place[ConnThread].conn = c /\ IsClaim(received, id)

InReqHand(c, id) ==
  /\ pc[ReqThread] \in {"ClientInfo", "authorize"} /\ handling.peer = c
  /\ IsClaim(handling, id)

(* HasClaimed in these terms, now and in the next state.                   *)
LEMMA ClaimPlaces ==
  ASSUME NEW c, NEW id
  PROVE  /\ HasClaimed(c, id) <=>
              InInbox(c, id) \/ InConnHand(c, id) \/ InQueue(c, id) \/ InReqHand(c, id)
         /\ HasClaimed(c, id)' <=>
              InInbox(c, id)' \/ InConnHand(c, id)' \/ InQueue(c, id)' \/ InReqHand(c, id)'
PROOF
  BY DEF HasClaimed, InInbox, InConnHand, InQueue, InReqHand

(* Most steps leave them where they are, or close their connection.        *)
LEMMA ClaimsKept ==
  ASSUME \A c \in Conns : inbox'[c] = inbox[c] \/ inbox'[c] = <<>>,
         UNCHANGED handleQueue,
         \/ pc'[ConnThread] # "lockClient"
         \/ pc'[ConnThread] = pc[ConnThread] /\ UNCHANGED <<place, received>>,
         \/ pc'[ReqThread] \notin {"ClientInfo", "authorize"}
         \/ pc'[ReqThread] = pc[ReqThread] /\ UNCHANGED handling
  PROVE  NoNewClaims
PROOF
  <1> SUFFICES ASSUME NEW c \in Conns, NEW id \in UserIDs
               PROVE  HasClaimed(c, id)' => HasClaimed(c, id)
    BY DEF NoNewClaims
  <1>1. InInbox(c, id)' => InInbox(c, id)
    BY DEF InInbox
  <1>2. InQueue(c, id)' => InQueue(c, id)
    BY DEF InQueue
  <1>3. InConnHand(c, id)' => InConnHand(c, id)
    BY DEF InConnHand
  <1>4. InReqHand(c, id)' => InReqHand(c, id)
    BY DEF InReqHand
  <1> QED
    BY <1>1, <1>2, <1>3, <1>4, ClaimPlaces

(* The connection thread carries them from its connections to the queue.   *)
LEMMA ClaimsIncoming ==
  ASSUME TypeOK, IncomingStep,
         pc'[ReqThread] = pc[ReqThread] /\ UNCHANGED handling
  PROVE  NoNewClaims
PROOF
  <1> SUFFICES ASSUME NEW c \in Conns, NEW id \in UserIDs
               PROVE  HasClaimed(c, id)' => HasClaimed(c, id)
    BY DEF NoNewClaims
  <1>1. InReqHand(c, id)' => InReqHand(c, id)
    BY DEF InReqHand
  <1>2. ASSUME NEW conn \in Conns, ReceiveMessage(conn)
        PROVE  HasClaimed(c, id)' => HasClaimed(c, id)
    <2>1. /\ inbox[conn] # <<>> /\ received' = Head(inbox[conn])
          /\ inbox' = [inbox EXCEPT ![conn] = Tail(inbox[conn])]
          /\ place'[ConnThread].conn = conn /\ UNCHANGED handleQueue
      BY <1>2, TableTypes DEF ReceiveMessage
    <2>2. /\ inbox[conn] \in Seq(IncomingRequest) /\ DOMAIN inbox = Conns
      BY DEF TypeOK, NetworkOK
    <2>3. /\ Head(inbox[conn]) = inbox[conn][1] /\ 1 \in 1..Len(inbox[conn])
          /\ \A i \in 1..Len(Tail(inbox[conn])) :
               i + 1 \in 1..Len(inbox[conn]) /\ Tail(inbox[conn])[i] = inbox[conn][i + 1]
      BY <2>1, <2>2
    <2>4. inbox'[conn] = Tail(inbox[conn])
          /\ \A d \in Conns : d # conn => inbox'[d] = inbox[d]
      BY <2>1, <2>2
    <2>5. InInbox(c, id)' => InInbox(c, id)
      <3>1. CASE c = conn
        BY <2>3, <2>4, <3>1 DEF InInbox
      <3>2. CASE c # conn
        BY <2>4, <3>2 DEF InInbox
      <3> QED
        BY <3>1, <3>2
    <2>6. InConnHand(c, id)' => InInbox(c, id)
      BY <2>1, <2>3 DEF InConnHand, InInbox
    <2>7. InQueue(c, id)' => InQueue(c, id)
      BY <2>1 DEF InQueue
    <2> QED
      BY <1>1, <2>5, <2>6, <2>7, ClaimPlaces
  <1>3. CASE PushIncoming
    <2> DEFINE request == [type |-> received.type, claim |-> received.claim,
                           serial |-> received.serial, userID |-> place[ConnThread].id,
                           peer |-> place[ConnThread].conn, found |-> FALSE,
                           grant |-> FALSE]
    <2>1. /\ handleQueue' = Append(handleQueue, request) \/ UNCHANGED handleQueue
          /\ pc'[ConnThread] = "incoming" /\ pc[ConnThread] = "lockClient"
          /\ UNCHANGED inbox
      BY <1>3, RequestTypesOK DEF PushIncoming, Goto
    <2>2. request.peer = c /\ IsClaim(request, id) => InConnHand(c, id)
      BY <2>1 DEF InConnHand, IsClaim
    <2> HIDE DEF request
    <2>3. \A i \in 1..Len(handleQueue') :
            \/ i \in 1..Len(handleQueue) /\ handleQueue'[i] = handleQueue[i]
            \/ handleQueue'[i] = request
      BY <2>1, RequestTypesOK
    <2>4. InQueue(c, id)' => InQueue(c, id) \/ InConnHand(c, id)
      BY <2>2, <2>3 DEF InQueue
    <2>5. ~InConnHand(c, id)' /\ (InInbox(c, id)' => InInbox(c, id))
      BY <2>1 DEF InConnHand, InInbox
    <2> QED
      BY <1>1, <2>4, <2>5, ClaimPlaces
  <1> QED
    BY <1>2, <1>3 DEF IncomingStep

(* The request thread takes them from the queue.                           *)
LEMMA ClaimsReqStep ==
  ASSUME TypeOK, ReqStep
  PROVE  NoNewClaims
PROOF
  <1>1. pc'[ConnThread] = pc[ConnThread] /\ UNCHANGED <<place, received, inbox>>
    BY OthersStay, ThreadsDiffer DEF ReqStep, KeptByRequests, network
  <1>2. CASE PopHandle
    <2> SUFFICES ASSUME NEW c \in Conns, NEW id \in UserIDs
                 PROVE  HasClaimed(c, id)' => HasClaimed(c, id)
      BY DEF NoNewClaims
    <2>1. /\ handleQueue # <<>> /\ handleQueue' = Tail(handleQueue)
          /\ pc[ReqThread] = "drain"
          /\ handling' = Head(handleQueue) \/ pc'[ReqThread] = "drain"
      BY <1>2 DEF PopHandle
    <2>2. /\ Head(handleQueue) = handleQueue[1] /\ 1 \in 1..Len(handleQueue)
          /\ \A i \in 1..Len(handleQueue') :
               i + 1 \in 1..Len(handleQueue) /\ handleQueue'[i] = handleQueue[i + 1]
      BY <2>1, RequestTypesOK
    <2>3. InQueue(c, id)' => InQueue(c, id)
      BY <2>2 DEF InQueue
    <2>4. InReqHand(c, id)' => InQueue(c, id)
      BY <2>1, <2>2 DEF InReqHand, InQueue
    <2>5. (InInbox(c, id)' => InInbox(c, id)) /\ (InConnHand(c, id)' => InConnHand(c, id))
      BY <1>1 DEF InInbox, InConnHand
    <2> QED
      BY <2>3, <2>4, <2>5, ClaimPlaces
  <1>3. CASE JudgeClientInfo
    <2> SUFFICES ASSUME NEW c \in Conns, NEW id \in UserIDs
                 PROVE  HasClaimed(c, id)' => HasClaimed(c, id)
      BY DEF NoNewClaims
    <2>1. /\ pc[ReqThread] = "ClientInfo" /\ UNCHANGED handleQueue
          /\ handling \in HandledRequest
      BY <1>3, RequestTypesOK DEF JudgeClientInfo, HandleLabels
    <2>2. \/ pc'[ReqThread] = "drain"
          \/ \E grant : handling' = [handling EXCEPT !.grant = grant]
      BY <1>3, RequestTypesOK, Zenon DEF JudgeClientInfo, Handled, Goto
    <2>3. InReqHand(c, id)' => InReqHand(c, id)
      <3>1. ASSUME NEW grant, handling' = [handling EXCEPT !.grant = grant]
            PROVE  /\ handling'.peer = handling.peer /\ handling'.type = handling.type
                   /\ handling'.claim = handling.claim
        BY <2>1, <3>1 DEF HandledRequest
      <3> QED
        BY <2>1, <2>2, <3>1 DEF InReqHand, IsClaim
    <2>4. (InInbox(c, id)' => InInbox(c, id)) /\ (InConnHand(c, id)' => InConnHand(c, id))
          /\ (InQueue(c, id)' => InQueue(c, id))
      BY <1>1, <2>1 DEF InInbox, InConnHand, InQueue
    <2> QED
      BY <2>3, <2>4, ClaimPlaces
  <1>4. CASE RequestTop \/ DrainDone \/ Authorize \/ AuthorizeNobody \/ FindAuthor
             \/ ForwardMessage
    <2>1. UNCHANGED handleQueue /\ pc'[ReqThread] \notin {"ClientInfo", "authorize"}
      BY <1>4, RequestTypesOK
         DEF RequestTop, DrainDone, Authorize, AuthorizeNobody, FindAuthor, ForwardMessage,
             StoreAndAnswer, Handled, Goto
    <2> QED
      BY <1>1, <2>1, ClaimsKept
  <1> QED
    BY <1>2, <1>3, <1>4 DEF ReqStep

(* Only the peers make new claims.                                         *)
LEMMA ClaimsShrink ==
  ASSUME OwnCallbacksOnly, TypeOK, [Next]_vars,
         ~(Environment /\ \E c \in Conns : PeerSends(c))
  PROVE  NoNewClaims
PROOF
  <1>1. CASE Environment \/ UNCHANGED vars
    <2>1. UNCHANGED <<inbox, handleQueue, pc, place, received, handling>>
      BY <1>1 DEF Environment, PeerConnects, PeerCloses, vars, network, queues, work
    <2> QED
      BY <2>1, ClaimsKept
  <1>2. CASE ConnStep
    <2>1. pc'[ReqThread] = pc[ReqThread] /\ UNCHANGED handling
      BY <1>2, HandStays
    <2>2. CASE CallbackStep(ConnThread)
      <3>1. \A c \in Conns : inbox'[c] = inbox[c] \/ inbox'[c] = <<>>
        BY <2>2
           DEF TypeOK, NetworkOK, CallbackStep, OnConnecting, OnClosedWhileConnecting,
               OnClosedWhileConnected, RemoveClientByConnection, SkipTakenID, ReadTakenID, PassTakenID,
               FindFreeID,
               TakeID, AdvanceID, ReserveGeneratedID, PreAcceptClient, InsertClient,
               BindClient, CloseConnection
      <3>2. pc'[ConnThread] # "lockClient"
        BY <2>2, RequestTypesOK
           DEF CallbackStep, OnConnecting, OnClosedWhileConnecting,
               OnClosedWhileConnected, NextCallback, RemoveClientByConnection,
               SkipTakenID, ReadTakenID, PassTakenID,
               FindFreeID, TakeID, AdvanceID, ReserveGeneratedID, PreAcceptClient,
               InsertClient, BindClient, Goto
      <3>3. UNCHANGED handleQueue
        BY <2>2 DEF CallbackStep
      <3> QED
        BY <2>1, <3>1, <3>2, <3>3, ClaimsKept
    <2>3. CASE LoopStep \/ QueuedStep \/ ShutdownStep
      <3>1. \A c \in Conns : inbox'[c] = inbox[c] \/ inbox'[c] = <<>>
        BY <2>3 DEF LoopStep, QueuedStep, ShutdownStep, Sweep, KillInterface, network
      <3>2. pc'[ConnThread] # "lockClient"
        BY <2>3, RequestTypesOK
           DEF LoopStep, ConnTop, CallbacksDone, IncomingDone, QueuedDone, QueuedStep,
               PopQueued, SendToOne, FindExcluded, StartBroadcast, BroadcastTo,
               EndBroadcast, ShutdownStep, Sweep, KillInterface, Goto
      <3>3. UNCHANGED handleQueue
        BY <2>3 DEF LoopStep, QueuedStep, ShutdownStep, queues
      <3> QED
        BY <2>1, <3>1, <3>2, <3>3, ClaimsKept
    <2> QED
      BY <1>2, <2>1, <2>2, <2>3, ClaimsIncoming DEF ConnStep
  <1>3. CASE \E u \in UserThreads : UserStep(u)
    <2>1. pc'[ReqThread] = pc[ReqThread] /\ UNCHANGED handling
      BY <1>3, HandStays
    <2>2. pc'[ConnThread] = pc[ConnThread] /\ UNCHANGED <<place, received, handleQueue>>
      BY <1>3, OthersStay, ThreadsDiffer DEF UserStep, work
    <2>3. \A c \in Conns : inbox'[c] = inbox[c] \/ inbox'[c] = <<>>
      BY <1>3 DEF TypeOK, NetworkOK, UserStep, UserRemovesClient, UserReservesID,
         UserChangesID, UserSends, UserDisablesPush, UserSetsGoingExit, CloseConnection
    <2> QED
      BY <2>1, <2>2, <2>3, ClaimsKept
  <1> QED
    BY <1>1, <1>2, <1>3, ClaimsReqStep DEF Next, Terminated, OwnCallbacksOnly

(* Steps of Membership.                                                    *)

Filling(id) == pc[ConnThread] = "bind" /\ place[ConnThread].id = id

(* The stage of a connection is that of its entries.                       *)
LEMMA StageKept ==
  ASSUME OwnCallbacksOnly, NEW c \in Conns,
         mapConnections'[c] = mapConnections[c], boundID'[c] = boundID[c],
         mapConnections[c] # InvalidUserID =>
           /\ mapClients'[mapConnections[c]] = mapClients[mapConnections[c]]
           /\ Filling(mapConnections[c]) <=>
                pc'[ConnThread] = "bind" /\ place'[ConnThread].id = mapConnections[c]
  PROVE  StageOf(c)' = StageOf(c)
PROOF
  BY StageIs, StageIsNext DEF Filling

(* The entry of a connection in the table.                                 *)
LEMMA MappedEntry ==
  ASSUME TablesBase, NEW c \in Conns, mapConnections[c] # InvalidUserID
  PROVE  /\ mapConnections[c] \in UserIDs /\ ~IsLibReservedID(mapConnections[c])
         /\ boundID[c] = mapConnections[c]
         /\ mapClients[mapConnections[c]] # NoClient
PROOF
  BY MappedHasEntry, NoClientAssumption

(* Steps that leave the clients' entries as they are.                      *)
LEMMA MemberQuiet ==
  ASSUME OwnCallbacksOnly, TablesBase, NoNewClaims, UNCHANGED <<mapConnections, boundID>>,
         \A id \in UserIDs : mapClients[id] # NoClient => mapClients'[id] = mapClients[id],
         pc[ConnThread] = "bind" <=> pc'[ConnThread] = "bind",
         pc[ConnThread] = "bind" => place'[ConnThread] = place[ConnThread]
  PROVE  Members!MemberNext
PROOF
  <1>1. \A c \in Conns : StageOf(c)' = StageOf(c)
    <2> SUFFICES ASSUME NEW c \in Conns PROVE StageOf(c)' = StageOf(c)
      OBVIOUS
    <2> QED
      BY MappedEntry, StageKept DEF Filling
  <1> QED
    BY <1>1, ToForget

(* Erasing the entries of a connection and its id: the client leaves.      *)
LEMMA MemberErase ==
  ASSUME OwnCallbacksOnly, TablesBase, NoNewClaims, UNCHANGED boundID,
         pc[ConnThread] # "bind", pc'[ConnThread] # "bind",
         NEW c \in Conns, Erase(c, mapConnections[c])
  PROVE  Members!MemberNext
PROOF
  <1>1. /\ mapClients' = [i \in UserIDs |-> IF i = mapConnections[c] THEN NoClient
                                            ELSE mapClients[i]]
        /\ mapConnections' = [d \in Conns |-> IF d = c THEN InvalidUserID
                                              ELSE mapConnections[d]]
    BY DEF Erase
  <1>2. \A d \in Conns : d # c => StageOf(d)' = StageOf(d)
    <2> SUFFICES ASSUME NEW d \in Conns, d # c PROVE StageOf(d)' = StageOf(d)
      OBVIOUS
    <2>1. mapConnections'[d] = mapConnections[d] /\ boundID'[d] = boundID[d]
      BY <1>1
    <2>2. mapConnections[d] # InvalidUserID =>
            mapConnections[d] # mapConnections[c] /\ mapConnections[d] \in UserIDs
      BY MappedEntry, IdTellsConnection
    <2>3. mapConnections[d] # InvalidUserID =>
            mapClients'[mapConnections[d]] = mapClients[mapConnections[d]]
      BY <1>1, <2>2
    <2> QED
      BY <2>1, <2>3, StageKept DEF Filling
  <1>3. CASE mapConnections[c] = InvalidUserID
    <2>1. StageOf(c)' = StageOf(c)
      BY <1>1, <1>3, StageIs, StageIsNext
    <2> QED
      BY <1>2, <2>1, ToForget
  <1>4. CASE mapConnections[c] # InvalidUserID
    <2>1. StageOf(c) \in {"joined", "active"}
      BY <1>4, StageIs
    <2>2. mapConnections'[c] = InvalidUserID /\ boundID'[c] # InvalidUserID
      BY <1>1, <1>4, MappedEntry
    <2>3. StageOf(c)' = "gone"
      BY <2>2, StageIsNext
    <2> QED
      BY <1>2, <2>1, <2>3, ToLeave
  <1> QED
    BY <1>3, <1>4

(* Insertion into the tables is joining, under an id nobody ever had.      *)
LEMMA MemberInsert ==
  ASSUME OwnCallbacksOnly, TablesBase, InsertClient(ConnThread), CallbackStep(ConnThread)
  PROVE  Members!MemberNext
PROOF
  <1>0. TypeOK
    BY DEF TablesBase, RegistryBase
  <1>1. PICK c \in Conns, id \in UserIDs : c = place[ConnThread].conn /\ id = place[ConnThread].id
    BY <1>0, TableTypes DEF InsertClient, AcceptLabels
  <1>2. /\ pc[ConnThread] = "insert" /\ pc'[ConnThread] = "bind"
        /\ UNCHANGED <<place, inbox, handleQueue, handling>>
        /\ mapClients' = [mapClients EXCEPT ![id] = IF @ = NoClient THEN ReservedClient ELSE @]
        /\ mapConnections' = [mapConnections EXCEPT ![c] = id]
        /\ boundID' = [boundID EXCEPT ![c] = id]
    BY <1>0, <1>1, TableTypes DEF InsertClient, CallbackStep, Goto
  <1>3. /\ ~IsLibReservedID(id) /\ id # InvalidUserID
        /\ boundID[c] = InvalidUserID /\ mapConnections[c] = InvalidUserID
        /\ \A d \in Conns : boundID[d] # id
    <2>1. ~IsLibReservedID(id) /\ id # InvalidUserID
      BY <1>0, <1>1, <1>2, TableTypes, RegistryAssumption
         DEF GeneratedLabels, IsLibReservedID, InvalidUserID
    <2>2. boundID[c] = InvalidUserID /\ \A d \in Conns : boundID[d] # id
      BY <1>1, <1>2 DEF TablesBase, RegistryBase, FreshInv, AcceptedIsUnbound, AcceptLabels, IdsInv,
                        GeneratedIsNew
    <2>3. mapConnections[c] = InvalidUserID
      BY <2>2 DEF TablesBase, RegistryBase, TablesInv, MappedIsBound
    <2> QED
      BY <2>1, <2>2, <2>3
  <1>4. StageOf(c) = "outside" /\ StageOf(c)' = "joined"
    <2>1. mapConnections'[c] = id /\ place'[ConnThread].id = id
      BY <1>0, <1>1, <1>2, TableTypes DEF ConnectionsMap
    <2> QED
      BY <1>2, <1>3, <2>1, StageIs, StageIsNext
  <1>5. \A d \in Conns : d # c => StageOf(d)' = StageOf(d)
    <2> SUFFICES ASSUME NEW d \in Conns, d # c PROVE StageOf(d)' = StageOf(d)
      OBVIOUS
    <2>1. mapConnections'[d] = mapConnections[d] /\ boundID'[d] = boundID[d]
      BY <1>0, <1>2, TableTypes DEF ConnectionsMap
    <2>2. mapConnections[d] # InvalidUserID =>
            mapConnections[d] # id /\ mapConnections[d] \in UserIDs
      BY <1>3, MappedEntry
    <2>3. mapConnections[d] # InvalidUserID =>
            mapClients'[mapConnections[d]] = mapClients[mapConnections[d]]
      BY <1>0, <1>2, <2>2, TableTypes DEF ClientsMap
    <2> QED
      BY <1>1, <1>2, <2>1, <2>2, <2>3, StageKept DEF Filling
  <1>6. \A d \in Conns, n \in UserIDs : HasClaimed(d, n)' <=> HasClaimed(d, n)
    <2>1. pc'[ReqThread] = pc[ReqThread]
      BY <1>0, HandStays DEF ConnStep
    <2> QED
      BY <1>2, <2>1 DEF HasClaimed
  <1> QED
    BY <1>2, <1>3, <1>4, <1>5, <1>6, ToJoin

(* Filling in the entry changes nothing: the client is Unauthorized.       *)
LEMMA MemberBind ==
  ASSUME OwnCallbacksOnly, TablesBase, NoNewClaims, BindClient(ConnThread)
  PROVE  Members!MemberNext
PROOF
  <1>0. TypeOK
    BY DEF TablesBase, RegistryBase
  <1>1. PICK c \in Conns, id \in UserIDs : c = place[ConnThread].conn /\ id = place[ConnThread].id
    BY <1>0, TableTypes DEF BindClient, AcceptLabels
  <1>2. /\ pc[ConnThread] = "bind" /\ pc'[ConnThread] = "callbacks"
        /\ mapClients' = [mapClients EXCEPT ![id] = [connection |-> c, userID |-> id,
                                                     state |-> "Unauthorized"]]
        /\ UNCHANGED <<mapConnections, boundID>>
    BY <1>0, <1>1, TableTypes DEF BindClient, Goto
  <1>3. \A d \in Conns : StageOf(d)' = StageOf(d)
    <2> SUFFICES ASSUME NEW d \in Conns PROVE StageOf(d)' = StageOf(d)
      OBVIOUS
    <2>1. CASE mapConnections[d] = id /\ id # InvalidUserID
      <3>1. mapClients'[id].state = "Unauthorized"
        BY <1>0, <1>2, TableTypes DEF ClientsMap
      <3> QED
        BY <1>1, <1>2, <2>1, <3>1, StageIs, StageIsNext
    <2>2. CASE mapConnections[d] # id \/ id = InvalidUserID
      <3>1. mapConnections[d] # InvalidUserID =>
              /\ mapConnections[d] # id
              /\ mapClients'[mapConnections[d]] = mapClients[mapConnections[d]]
        BY <1>0, <1>2, <2>2, MappedEntry, TableTypes DEF ClientsMap
      <3> QED
        BY <1>1, <1>2, <3>1, StageKept DEF Filling
    <2> QED
      BY <2>1, <2>2
  <1> QED
    BY <1>2, <1>3, ToForget

(* The callbacks.                                                          *)
LEMMA MemberCallbackStep ==
  ASSUME OwnCallbacksOnly, TablesBase, NoNewClaims, CallbackStep(ConnThread)
  PROVE  Members!MemberNext
PROOF
  <1>0. TypeOK
    BY DEF TablesBase, RegistryBase
  <1>1. CASE RemoveClientByConnection(ConnThread)
    <2>1. PICK c \in Conns : c = place[ConnThread].conn
      BY <1>0, <1>1, TableTypes DEF RemoveClientByConnection
    <2>2. /\ pc[ConnThread] = "remove" /\ pc'[ConnThread] = "callbacks"
          /\ UNCHANGED boundID /\ Erase(c, mapConnections[c])
      BY <1>0, <1>1, <2>1, TableTypes DEF RemoveClientByConnection, Goto
    <2> QED
      BY <2>2, MemberErase
  <1>2. CASE \/ OnConnecting(ConnThread) \/ OnClosedWhileConnecting(ConnThread)
             \/ OnClosedWhileConnected(ConnThread)
             \/ SkipTakenID(ConnThread) \/ ReadTakenID(ConnThread) \/ PassTakenID(ConnThread)
             \/ FindFreeID(ConnThread) \/ TakeID(ConnThread) \/ AdvanceID(ConnThread)
             \/ ReserveGeneratedID(ConnThread) \/ PreAcceptClient(ConnThread)
    <2>1. UNCHANGED <<mapConnections, boundID>>
      BY <1>2 DEF OnConnecting, OnClosedWhileConnecting, OnClosedWhileConnected,
         NextCallback, SkipTakenID, ReadTakenID, PassTakenID,
         FindFreeID, TakeID, AdvanceID, ReserveGeneratedID,
         PreAcceptClient, tables
    <2>2. pc[ConnThread] # "bind" /\ pc'[ConnThread] # "bind"
      BY <1>0, <1>2, TableTypes
         DEF OnConnecting, OnClosedWhileConnecting, OnClosedWhileConnected, NextCallback,
             SkipTakenID, ReadTakenID, PassTakenID,
             FindFreeID, TakeID, AdvanceID, ReserveGeneratedID,
             PreAcceptClient, Goto
    <2>3. \/ UNCHANGED mapClients
          \/ mapClients' = ReserveUserID(mapClients, place[ConnThread].id)
      BY <1>2 DEF OnConnecting, OnClosedWhileConnecting, OnClosedWhileConnected,
         NextCallback, SkipTakenID, ReadTakenID, PassTakenID,
         FindFreeID, TakeID, AdvanceID, ReserveGeneratedID,
         PreAcceptClient, tables
    <2>4. \A id \in UserIDs : mapClients[id] # NoClient => mapClients'[id] = mapClients[id]
      BY <1>0, <2>3, ReserveErasesNothing, TableTypes
    <2> QED
      BY <2>1, <2>2, <2>4, MemberQuiet
  <1> QED
    BY <1>1, <1>2, MemberInsert, MemberBind DEF CallbackStep

(* The rest of the connection thread; at the shutdown all clients leave.   *)
LEMMA MemberConnStep ==
  ASSUME OwnCallbacksOnly, TablesBase, NoNewClaims,
         LoopStep \/ IncomingStep \/ QueuedStep \/ ShutdownStep
  PROVE  Members!MemberNext
PROOF
  <1>0. /\ TypeOK /\ UNCHANGED boundID
        /\ pc[ConnThread] # "bind" /\ pc'[ConnThread] # "bind"
    BY ConnOutside DEF TablesBase, RegistryBase, AcceptLabels
  <1>1. CASE Sweep
    <2>1. \A c \in Conns : mapConnections'[c] = InvalidUserID
      BY <1>1 DEF Sweep
    <2>2. \A c \in Conns : StageOf(c)' = IF StageOf(c) \in {"joined", "active"} THEN "gone"
                                         ELSE StageOf(c)
      <3> SUFFICES ASSUME NEW c \in Conns
                   PROVE  StageOf(c)' = IF StageOf(c) \in {"joined", "active"} THEN "gone"
                                        ELSE StageOf(c)
        OBVIOUS
      <3>1. mapConnections[c] # InvalidUserID => boundID[c] # InvalidUserID
        BY MappedEntry
      <3> QED
        BY <1>0, <2>1, <3>1, StageIs, StageIsNext
    <2> QED
      BY <1>0, <2>2, ToLeaveAll
  <1>2. CASE LoopStep \/ IncomingStep \/ QueuedStep \/ KillInterface
    <2>1. UNCHANGED <<mapClients, mapConnections>>
      BY <1>2 DEF LoopStep, IncomingStep, QueuedStep, KillInterface, tables
    <2> QED
      BY <1>0, <2>1, MemberQuiet
  <1> QED
    BY <1>1, <1>2 DEF ShutdownStep

(* Only who has claimed its own id becomes Active.                         *)
LEMMA MemberReqStep ==
  ASSUME OwnCallbacksOnly, TablesBase, HandledInv, NoNewClaims, ReqStep
  PROVE  Members!MemberNext
PROOF
  <1>0. /\ TypeOK /\ UNCHANGED <<mapConnections, boundID, place>>
        /\ pc'[ConnThread] = pc[ConnThread]
    BY OthersStay, ThreadsDiffer DEF TablesBase, RegistryBase, ReqStep, KeptByRequests
  <1>1. CASE UNCHANGED mapClients
    BY <1>0, <1>1, MemberQuiet
  <1>2. CASE Authorize /\ handling.grant
    <2>0. /\ pc[ReqThread] = "authorize" /\ handling \in HandledRequest
          /\ handling.type = "ClientInfo" /\ handling.claim = handling.userID
          /\ handling.userID # InvalidUserID /\ boundID[handling.peer] = handling.userID
      <3>1. pc[ReqThread] = "authorize"
        BY <1>2 DEF Authorize, StoreAndAnswer
      <3> QED
        BY <1>0, <1>2, <3>1, RequestTypesOK
           DEF HandledInv, HandIsKnown, GrantIsClaimed, FromItsClient, HandleLabels
    <2>1. PICK id \in UserIDs, peer \in Conns : id = handling.userID /\ peer = handling.peer
      BY <2>0 DEF HandledRequest
    <2>2. /\ IsFree(id) /\ mapClients[id] # NoClient
          /\ mapClients' = [mapClients EXCEPT ![id] = [mapClients[id] EXCEPT !.state = "Active",
                                                                             !.userID = id]]
      BY <1>2, <2>1 DEF Authorize, StoreAndAnswer
    <2>3. mapClients[id] \in HClient
      BY <1>0, <2>2, TableTypes DEF ClientsMap
    <2>4. ~Filling(id)
      <3>1. ConnThread \in CallbackThreads /\ ConnThread # NoThread
        BY ThreadsDiffer, ServerAssumption
      <3> QED
        BY <2>1, <2>2, <3>1 DEF TablesBase, RegistryBase, BindOwnsID, IsFree, Filling
    <2>5. mapClients'[id] = [mapClients[id] EXCEPT !.state = "Active", !.userID = id]
          /\ \A n \in UserIDs : n # id => mapClients'[n] = mapClients[n]
      BY <1>0, <2>2, TableTypes DEF ClientsMap
    <2>6. mapClients'[id] \in HClient /\ mapClients'[id].state = "Active"
      BY <2>3, <2>5 DEF HClient, InfoStates
    <2>7. \A d \in Conns : d # peer => StageOf(d)' = StageOf(d)
      <3> SUFFICES ASSUME NEW d \in Conns, d # peer PROVE StageOf(d)' = StageOf(d)
        OBVIOUS
      <3>1. mapConnections[d] # InvalidUserID =>
              mapConnections[d] # id /\ mapConnections[d] \in UserIDs
        BY <2>0, <2>1, MappedEntry, IdTellsConnection
      <3> QED
        BY <1>0, <2>5, <3>1, StageKept DEF Filling
    <2>8. HasClaimed(peer, id)
      BY <2>0, <2>1 DEF HasClaimed, IsClaim
    <2>9. CASE StageOf(peer)' = StageOf(peer)
      BY <1>0, <2>7, <2>9, ToForget
    <2>10. CASE StageOf(peer)' # StageOf(peer)
      <3>1. mapConnections[peer] # InvalidUserID
        BY <1>0, <2>10, StageIs, StageIsNext
      <3>2. mapConnections[peer] = id
        BY <2>0, <2>1, <3>1, MappedEntry
      <3>3. StageOf(peer)' = "active"
        BY <1>0, <2>4, <2>6, <3>1, <3>2, StageIsNext, NoClientAssumption DEF Filling
      <3>4. StageOf(peer) = "joined"
        BY <2>10, <3>1, <3>3, StageIs
      <3> QED
        BY <1>0, <2>0, <2>1, <2>7, <2>8, <3>3, <3>4, ToActivate
    <2> QED
      BY <2>9, <2>10
  <1>3. CASE Authorize /\ ~handling.grant
    <2>1. mapClients' = [mapClients EXCEPT ![handling.userID] = mapClients[handling.userID]]
      BY <1>3 DEF Authorize, StoreAndAnswer
    <2>2. UNCHANGED mapClients
      BY <1>0, <2>1, TableTypes DEF ClientsMap
    <2> QED
      BY <1>1, <2>2
  <1> QED
    BY <1>1, <1>2, <1>3
       DEF ReqStep, RequestTop, DrainDone, PopHandle, JudgeClientInfo, Handled,
           AuthorizeNobody, FindAuthor, ForwardMessage

(* The user makes a client leave by removing it.                           *)
LEMMA MemberUserStep ==
  ASSUME OwnCallbacksOnly, NoIdChange, TablesBase, NoNewClaims,
         NEW u \in UserThreads, UserStep(u)
  PROVE  Members!MemberNext
PROOF
  <1>0. TypeOK /\ UNCHANGED <<boundID, place>> /\ pc'[ConnThread] = pc[ConnThread]
    BY OthersStay, ThreadsDiffer DEF TablesBase, RegistryBase
  <1>1. ASSUME NEW id \in UserIDs, UserRemovesClient(u, id)
        PROVE  Members!MemberNext
    <2>1. PICK c : c = mapClients[id].connection
      OBVIOUS
    <2>2. mapClients[id] # NoClient /\ AllFree /\ Erase(c, id)
      BY <1>1, <2>1 DEF UserRemovesClient
    <2>3. pc[ConnThread] # "bind"
      BY <1>0, <2>2, BindBlocksAll, ThreadsDiffer DEF TablesBase, RegistryBase
    <2>4. CASE c # NoConn
      <3>1. c \in Conns /\ mapConnections[c] = id
        BY <2>1, <2>2, <2>4, EntryIsBound
      <3> QED
        BY <1>0, <2>2, <2>3, <3>1, MemberErase
    <2>5. CASE c = NoConn
      <3>1. \A d \in Conns : mapConnections'[d] = mapConnections[d]
        BY <2>2, <2>5, RegistryAssumption DEF Erase
      <3>2. \A n \in UserIDs : n # id => mapClients'[n] = mapClients[n]
        BY <2>2 DEF Erase
      <3>3. \A d \in Conns : mapConnections[d] # InvalidUserID => mapConnections[d] # id
        <4> SUFFICES ASSUME NEW d \in Conns, mapConnections[d] # InvalidUserID
                     PROVE  mapConnections[d] # id
          OBVIOUS
        <4>1. ~Binding(mapConnections[d])
          BY <2>3, BindingIsConn
        <4>2. mapClients[mapConnections[d]].connection = d
          BY <4>1, MappedHasEntry
        <4> QED
          BY <2>1, <2>5, <4>2, RegistryAssumption
      <3>4. \A d \in Conns : StageOf(d)' = StageOf(d)
        <4> SUFFICES ASSUME NEW d \in Conns PROVE StageOf(d)' = StageOf(d)
          OBVIOUS
        <4> QED
          BY <1>0, <3>1, <3>2, <3>3, MappedEntry, StageKept DEF Filling
      <3> QED
        BY <1>0, <3>4, ToForget
    <2> QED
      BY <2>4, <2>5
  <1>2. CASE UNCHANGED mapConnections
             /\ (UNCHANGED mapClients
                 \/ \E id \in UserIDs : mapClients' = ReserveUserID(mapClients, id))
    <2>1. \A id \in UserIDs : mapClients[id] # NoClient => mapClients'[id] = mapClients[id]
      BY <1>0, <1>2, ReserveErasesNothing, TableTypes
    <2> QED
      BY <1>0, <1>2, <2>1, MemberQuiet
  <1> QED
    BY <1>1, <1>2
       DEF UserStep, UserReservesID, UserChangesID, MayCall, NoIdChange, UserSends,
           UserDisablesPush, UserSetsGoingExit

(* A peer sends: a new claim, or something else.                           *)
LEMMA MemberPeerSends ==
  ASSUME OwnCallbacksOnly, TablesBase, Environment, NEW c \in Conns, PeerSends(c)
  PROVE  Members!MemberNext
PROOF
  <1>0. /\ TypeOK
        /\ UNCHANGED <<mapClients, mapConnections, boundID, pc, place, handleQueue,
                       received, handling>>
    BY DEF TablesBase, RegistryBase, Environment, tables, queues, work
  <1>1. PICK type \in RequestTypes, id \in Claims :
          inbox' = [inbox EXCEPT ![c] = Append(inbox[c], [type |-> type, claim |-> id,
                                                          serial |-> serial + 1])]
    BY DEF PeerSends
  <1>2. inbox \in [Conns -> Seq(IncomingRequest)] /\ id \in UserIDs
    BY <1>0, ServerAssumption DEF TypeOK, NetworkOK
  <1>3. \A d \in Conns : StageOf(d)' = StageOf(d)
    <2> SUFFICES ASSUME NEW d \in Conns PROVE StageOf(d)' = StageOf(d)
      OBVIOUS
    <2> QED
      BY <1>0, StageKept DEF Filling
  <1> DEFINE new == [type |-> type, claim |-> id, serial |-> serial + 1]
  <1>4. /\ \A d \in Conns : d # c => inbox'[d] = inbox[d]
        /\ inbox'[c] = Append(inbox[c], new)
    BY <1>1, <1>2
  <1>5. \A n : IsClaim(new, n) <=> type = "ClientInfo" /\ n = id
    BY DEF IsClaim
  <1> HIDE DEF new
  <1>6. /\ Len(inbox[c]) + 1 \in 1..Len(inbox'[c]) /\ inbox'[c][Len(inbox[c]) + 1] = new
        /\ \A i \in 1..Len(inbox[c]) : i \in 1..Len(inbox'[c]) /\ inbox'[c][i] = inbox[c][i]
        /\ \A i \in 1..Len(inbox'[c]) :
             \/ i \in 1..Len(inbox[c]) /\ inbox'[c][i] = inbox[c][i]
             \/ inbox'[c][i] = new
    BY <1>2, <1>4
  <1>7. \A d \in Conns, n \in UserIDs :
          InInbox(d, n)' <=> InInbox(d, n) \/ (d = c /\ IsClaim(new, n))
    BY <1>4, <1>6 DEF InInbox
  <1>8. \A d, n : /\ InConnHand(d, n)' <=> InConnHand(d, n)
                  /\ InQueue(d, n)' <=> InQueue(d, n)
                  /\ InReqHand(d, n)' <=> InReqHand(d, n)
    BY <1>0 DEF InConnHand, InQueue, InReqHand
  <1>9. \A d \in Conns, n \in UserIDs :
          HasClaimed(d, n)' <=> HasClaimed(d, n) \/ (d = c /\ IsClaim(new, n))
    BY <1>7, <1>8, ClaimPlaces
  <1>10. CASE type = "ClientInfo"
    <2>1. \A d \in Conns, n \in UserIDs :
            HasClaimed(d, n)' <=> HasClaimed(d, n) \/ (d = c /\ n = id)
      BY <1>5, <1>9, <1>10
    <2> QED
      BY <1>0, <1>2, <1>3, <2>1, ToClaim
  <1>11. CASE type # "ClientInfo"
    <2>1. NoNewClaims
      BY <1>5, <1>9, <1>11 DEF NoNewClaims
    <2> QED
      BY <1>0, <1>3, <2>1, ToForget
  <1> QED
    BY <1>10, <1>11

(* Every step of the server is a step of Membership.                       *)
LEMMA MembershipStep ==
  ASSUME OwnCallbacksOnly, NoIdChange, TablesBase, HandledInv, [Next]_vars
  PROVE  Members!MemberNext
PROOF
  <1>0. TypeOK
    BY DEF TablesBase, RegistryBase
  <1>1. CASE Environment /\ \E c \in Conns : PeerSends(c)
    BY <1>1, MemberPeerSends
  <1>2. CASE ~(Environment /\ \E c \in Conns : PeerSends(c))
    <2>1. NoNewClaims
      BY <1>0, <1>2, ClaimsShrink
    <2>2. CASE Environment \/ UNCHANGED vars
      <3>1. UNCHANGED <<mapClients, mapConnections, boundID, pc, place>>
        BY <2>2 DEF Environment, vars, tables, work
      <3> QED
        BY <2>1, <3>1, MemberQuiet
    <2> QED
      BY <2>1, <2>2, MemberCallbackStep, MemberConnStep, MemberReqStep, MemberUserStep
         DEF Next, ConnStep, Terminated, OwnCallbacksOnly
  <1> QED
    BY <1>1, <1>2

(* The server implements Membership: connections join once, under an id    *)
(* nobody ever had, become Active only by sending back their own id,       *)
(* whatever else waits in the queues, and leave once and for good          *)
(* (ChatServer.cpp:108-155, 370-529).                                      *)
THEOREM ServerImplementsMembership ==
  ASSUME OwnCallbacksOnly, NoIdChange
  PROVE  Spec => IsMembership
PROOF
  <1>1. TablesBase /\ HandledInv /\ [Next]_vars =>
          [Members!MemberNext]_(Members!memberVars)
    BY MembershipStep
  <1> QED
    BY <1>1, MembershipInit, HandledAlways, PTL DEF Spec, IsMembership, Members!MemberSpec

=============================================================================
