--------------------------- MODULE ClientRegistry ---------------------------
(***************************************************************************)
(* The two tables of ChatServer and the operations on them.                *)
(*                                                                         *)
(* m_mapClients is a std::map from a user id to an HClient (connection,    *)
(* client info), here a total function whose value NoClient stands for     *)
(* "no such key".  m_mapConnections is a map from a connection to the id   *)
(* of its client, here a total function whose value InvalidUserID stands   *)
(* for "no such key" (id 0 never is a value of the table).                 *)
(*                                                                         *)
(* Of a ClientInfo only the user id and the state are kept: no behaviour   *)
(* of the library depends on its version or additional data.               *)
(***************************************************************************)
EXTENDS Integers

CONSTANTS
  Conns,              \* connection handles GameNetworkingSockets hands out
  NoConn,             \* k_HSteamNetConnection_Invalid
  NoClient,           \* "not a key of m_mapClients"
  LibReservedUserIDs, \* Constant::LibReservedUserIDs (256 in the code)
  MaxUserID           \* bound: ids above it are never needed by an instance

ASSUME RegistryAssumption ==
  /\ LibReservedUserIDs \in Nat /\ LibReservedUserIDs > 1
  /\ MaxUserID \in Nat /\ LibReservedUserIDs <= MaxUserID
  /\ NoConn \notin Conns

UserIDs == 0..MaxUserID

InvalidUserID == 0

IsLibReservedID(id) == id < LibReservedUserIDs

(* EState of a ClientInfo; "Invalid" is the value of a default one.        *)
InfoStates == {"Invalid", "Unauthorized", "Active"}

HClient == [connection : Conns \cup {NoConn},
            userID     : UserIDs,
            state      : InfoStates]

ASSUME NoClientAssumption == NoClient \notin HClient

ClientsMap == [UserIDs -> HClient \cup {NoClient}]

ConnectionsMap == [Conns -> UserIDs]

(* What operator[] of the map inserts: a null connection, a default info.  *)
(* (Op_Flaw, here and in the other modules, is Op with a plausible bug: it *)
(* is used by no definition and serves to see a property fail.)            *)
ReservedClient_Uninitialized == [connection |-> "garbage",
                                 userID     |-> InvalidUserID,
                                 state      |-> "Invalid"]

ReservedClient == [connection |-> NoConn,
                   userID     |-> InvalidUserID,
                   state      |-> "Invalid"]

GetUserIDState(clients, id) ==
  CASE IsLibReservedID(id)               -> "Busy"
    [] /\ ~IsLibReservedID(id)
       /\ clients[id] = NoClient         -> "Free"
    [] /\ ~IsLibReservedID(id)
       /\ clients[id] # NoClient
       /\ clients[id].connection = NoConn -> "Reserved"
    [] OTHER                             -> "Busy"

(* m_mapClients after ReserveUserID(id).                                   *)
ReserveUserID(clients, id) ==
  IF GetUserIDState(clients, id) = "Free"
  THEN [clients EXCEPT ![id] = ReservedClient]
  ELSE clients

(* ClientInfo::UserID() of what GetClientInfoByConnection returns: the id  *)
(* stored in the info, or 0, the id of the default instance.               *)
ClientIDByConnection(clients, connections, conn) ==
  LET id == connections[conn]
  IN  IF id = InvalidUserID \/ clients[id] = NoClient
      THEN InvalidUserID
      ELSE clients[id].userID

(* The two tables after ChangeClientID(currentID, newID), as a pair.  A    *)
(* currentID the library reserves is "Busy", so newID is inserted before   *)
(* at(currentID) throws: the insertion stays.                              *)
ChangeClientID_KeepsConnections(clients, connections, currentID, newID) ==
  IF \/ currentID = newID \/ clients[currentID] = NoClient
     \/ GetUserIDState(clients, newID) # "Free"
  THEN <<clients, connections>>
  ELSE <<[clients EXCEPT ![currentID] = NoClient,
                         ![newID] = [clients[currentID] EXCEPT !.userID = newID]],
         connections>>

ChangeClientID(clients, connections, currentID, newID) ==
  LET oldState == GetUserIDState(clients, currentID)
      moved    == [clients[currentID] EXCEPT !.userID = newID]
  IN  CASE currentID = newID \/ oldState = "Free"
           \/ GetUserIDState(clients, newID) # "Free"
             -> <<clients, connections>>
        [] OTHER
             -> IF clients[currentID] = NoClient
                THEN <<ReserveUserID(clients, newID), connections>>
                ELSE <<[clients EXCEPT ![currentID] = NoClient,
                                       ![newID]     = moved],
                       IF oldState = "Busy"
                       THEN [connections EXCEPT ![moved.connection] = newID]
                       ELSE connections>>

=============================================================================
