------------------------ MODULE ChatClientProperties ------------------------
(* What a ChatClient promises, alone and together with the server.         *)
EXTENDS ChatClient

ClientTypeOK ==
  /\ hConnection \in {NoHandle} \cup Handles
  /\ clientInfo \in Infos
  /\ sendQueue \in SafeQueues(Infos) /\ handleQueue \in SafeQueues(Infos \cup {Farewell})
  /\ goingExit \in BOOLEAN /\ place \in Places
  /\ caller \in {"Run", "callback"} /\ attempts \in 0..MaxAttempts
  /\ connState \in [Handles -> ConnStates]
  /\ callbacks \in Seq([conn : Handles, state : ConnStates])
  /\ inbox \in [Handles -> Seq(Infos \cup {Farewell})] /\ outbox \in [Handles -> Seq(Infos)]
  /\ granted \in [Handles -> {"Unauthorized", "Active"}]
  /\ dropped \subseteq Handles /\ forgotBy \in [Handles -> Handles \cup {NoHandle}]
  /\ place = "sleep" => hConnection # NoHandle

(* A connection the client has opened, neither released nor in use, was    *)
(* forgotten because of a late report about an earlier one, which Connect  *)
(* had given up; and no report makes the client forget two                 *)
(* (ChatClient.cpp:118, 303-318).                                          *)
ForgottenByLateReport ==
  /\ \A h \in Handles : Alive(h) /\ h # hConnection =>
       forgotBy[h] \in 1..(h - 1) /\ connState[forgotBy[h]] = "Released"
  /\ \A g, h \in Handles : g # h /\ forgotBy[g] # NoHandle => forgotBy[g] # forgotBy[h]

(* A client that takes itself for Active under the id of its connection is *)
(* Active for the server, too: no answer to an earlier connection, no      *)
(* reconnection and no lost message makes it believe so                    *)
(* (ChatClient.cpp:252-268, ChatServer.cpp:118-150).                       *)
ActiveWasGranted ==
  clientInfo.state = "Active" /\ clientInfo.id = hConnection /\ hConnection # NoHandle
    => granted[hConnection] = "Active"

(* The polls of a running client have a connection: FatalError at          *)
(* ChatClient.cpp:165 is never reached, a lost connection is either        *)
(* replaced or ends the client before.                                     *)
PollsHaveConnection == place = "incoming" /\ ~goingExit => hConnection # NoHandle

(* ChatClient.cpp:303, CHAT_ASSERT(pInfo->m_hConn == m_hConnection ||      *)
(* m_hConnection == k_HSteamNetConnection_Invalid, "").                    *)
CallbackIsOurs ==
  place = "callbacks" /\ callbacks # <<>> => hConnection \in {NoHandle, Head(callbacks).conn}

(* No connection goes on with nobody to read or to close it: the client     *)
(* forgets none.                                                           *)
NoLeakedHandle == \A h \in Handles : Alive(h) => h = hConnection

(* Types.h:193, of EState::Active: "Connected and ready to get messages".  *)
ActiveMeansReady ==
  place = "queued" /\ ~goingExit /\ clientInfo.state = "Active" => granted[hConnection] = "Active"

(* ChatSocket.cpp:204: every request the client takes out of its queue     *)
(* parses.                                                                 *)
EveryRequestParses == \A i \in 1..Size(handleQueue) : handleQueue.items[i] # Farewell

-----------------------------------------------------------------------------
(* A running client gets to be Active on its connection, over              *)
(* reconnections and whatever is left in the queues from before them,      *)
(* unless something about this very connection was refused or found a      *)
(* queue full, on either side.                                             *)
HandshakeConverges ==
  []<>(\/ ~Running \/ hConnection \in dropped
       \/ clientInfo = [id |-> hConnection, state |-> "Active"])

Lost(h) == connState[h] \in {"ClosedByPeer", "Problem"}

(* A connection that was lost or closed while the client runs is released  *)
(* in the end, unless the client was made to forget it.                    *)
LostIsReleased ==
  \A h \in Handles : Lost(h) ~> connState[h] = "Released" \/ forgotBy[h] # NoHandle

(* The same without the exception.                                         *)
AllLostAreReleased == \A h \in Handles : Lost(h) ~> connState[h] = "Released"

(* Once CloseSocket was called, by whomever, the connection thread ends,   *)
(* also out of a reconnection (ChatClient.cpp:192, 218-224).               *)
ClosedClientEnds == goingExit /\ place \in {"top", "callbacks", "incoming", "queued"} ~> place = "ended"

=============================================================================
