----------------------------- MODULE ChatClient -----------------------------
(***************************************************************************)
(* The client: Connect with its attempts, the callbacks and the            *)
(* reconnection, the polls, and its side of the handshake; composed with   *)
(* GNS and with what the server does to one connection.                    *)
(*                                                                         *)
(* A handle stands for the connection at both of its ends, and is the id   *)
(* the server gives the client on it: ids are fresh for each connection    *)
(* (ChatServerTablesProofs, IdsAreUnique).                                 *)
(***************************************************************************)
EXTENDS SafeQueue

CONSTANTS
  MaxHandles,    \* bound: connections the client opens
  MaxAttempts,   \* of one Connect
  MaxQueueSize,  \* Constant::MaxSendRequestsQueueSize
  MayRunAgain,   \* whether the user calls Run again after a Wait
  MayRefuse      \* whether the users of client and server refuse client
                 \* infos, and the server's queues may be full

ASSUME ClientAssumption ==
  /\ MayRunAgain \in BOOLEAN /\ MayRefuse \in BOOLEAN
  /\ MaxHandles \in Nat \ {0} /\ MaxAttempts \in Nat \ {0} /\ MaxQueueSize \in Nat \ {0}

Handles == 1..MaxHandles
NoHandle == 0                      \* k_HSteamNetConnection_Invalid
InvalidUserID == 0

VARIABLES
  hConnection,   \* m_hConnection
  clientInfo,    \* m_clientInfo
  sendQueue,     \* m_sendRequestsQueue: the client infos to return
  handleQueue,   \* m_handleRequestsQueue
  goingExit,     \* m_bGoingExit
  place,         \* in Run, then in the connection thread
  caller,        \* of Connect: "Run" or "callback"
  attempts,      \* countRetries
  connState,     \* GNS: the state of each connection
  callbacks,     \* GNS: changes of state not delivered yet
  inbox,         \* GNS: from the server
  outbox,        \* GNS: to the server
  granted,       \* the state the server has for the client of each connection
  dropped,       \* history: connections of whose handshake something was
                 \* refused or found a queue full
  forgotBy       \* history: the connection whose late report made the client
                 \* forget each one it had

clientVars == <<hConnection, clientInfo, sendQueue, handleQueue, goingExit, place, caller, attempts>>
gnsVars    == <<connState, callbacks, inbox, outbox>>
history    == <<dropped, forgotBy>>
vars       == <<clientVars, gnsVars, granted, history>>

(* "ClosedByPeer" and "Problem" stay until the client releases the handle. *)
ConnStates == {"None", "Connecting", "Connected", "ClosedByPeer", "Problem", "Released"}

Infos == [id : {InvalidUserID} \cup Handles, state : {"Unauthorized", "Active"}]

Farewell == [id |-> InvalidUserID, state |-> "farewell"]

Places == {"run", "attempt", "sleep", "top", "callbacks", "incoming", "queued", "ended"}

Running == place \notin {"run", "ended"} /\ ~goingExit

-----------------------------------------------------------------------------
(* GNS and the server.                                                     *)

ChangeState(h, state) ==
  /\ connState' = [connState EXCEPT ![h] = state]
  /\ callbacks' = Append(callbacks, [conn |-> h, state |-> state])

Alive(h) == connState[h] \notin {"None", "Released"}

(* CloseConnection: drops what was received; nothing for a handle that is  *)
(* not in use.  The callbacks the release makes are ignored by the client, *)
(* and left out.                                                           *)
CloseConnection(h) ==
  /\ connState' = [g \in Handles |-> IF g = h /\ Alive(g) THEN "Released" ELSE connState[g]]
  /\ inbox' = [g \in Handles |-> IF g = h THEN <<>> ELSE inbox[g]]

SendInfo(h, state) ==
  inbox' = [inbox EXCEPT ![h] = Append(@, [id |-> h, state |-> state])]

Drop(h) == dropped' = dropped \cup {h}

(* QueueRequest of the server's client info, and its delivery.             *)
ServerSends(h, state) ==
  \/ SendInfo(h, state) /\ UNCHANGED dropped
  \/ MayRefuse /\ Drop(h) /\ UNCHANGED inbox

ServerAccepts(h) ==
  /\ connState[h] = "Connecting"
  /\ ChangeState(h, "Connected")
  /\ granted' = [granted EXCEPT ![h] = "Unauthorized"]
  /\ ServerSends(h, "Unauthorized")
  /\ UNCHANGED <<clientVars, outbox, forgotBy>>

(* The server answers a client info with what it has for the client, after *)
(* having made him Active if the id is right and the user agrees.  Any     *)
(* verdict but Success and InvalidRequest leaves it without an answer, and *)
(* so does a full handle queue.                                            *)
ServerHandlesInfo(h) ==
  /\ connState[h] = "Connected" /\ outbox[h] # <<>>
  /\ outbox' = [outbox EXCEPT ![h] = Tail(@)]
  /\ \/ /\ Head(outbox[h]).id = h
        /\ granted' = [granted EXCEPT ![h] = "Active"]
        /\ ServerSends(h, "Active")
     \/ /\ Head(outbox[h]).id # h
        /\ ServerSends(h, granted[h]) /\ UNCHANGED granted
     \/ /\ MayRefuse /\ Drop(h) /\ UNCHANGED granted
        /\ SendInfo(h, granted[h]) \/ UNCHANGED inbox
  /\ UNCHANGED <<clientVars, connState, callbacks, forgotBy>>

(* The server rejects or removes the client, or shuts down with a farewell.*)
ServerCloses(h) ==
  /\ connState[h] \in {"Connecting", "Connected"}
  /\ ChangeState(h, "ClosedByPeer")
  /\ \/ UNCHANGED inbox
     \/ /\ connState[h] = "Connected"
        /\ inbox' = [inbox EXCEPT ![h] = Append(@, Farewell)]
  /\ UNCHANGED <<clientVars, outbox, granted, history>>

ConnectionFails(h) ==
  /\ connState[h] \in {"Connecting", "Connected"}
  /\ ChangeState(h, "Problem")
  /\ UNCHANGED <<clientVars, inbox, outbox, granted, history>>

-----------------------------------------------------------------------------
(* Connect, called by Run and by the callback of a lost connection.        *)

CloseSocket == goingExit' = TRUE /\ sendQueue' = DisablePush(sendQueue) /\ handleQueue' = DisablePush(handleQueue)

KeepSocket == UNCHANGED <<goingExit, sendQueue, handleQueue>>

Connect(from) == place' = "attempt" /\ caller' = from /\ attempts' = 0

(* The constructor leaves m_hConnection uninitialised: it is anything.  A  *)
(* client whose Run failed, or that was waited for, may run again; it keeps *)
(* its client info, and what is left in its queues.                        *)
RunConnects ==
  /\ place = "run" \/ (place = "ended" /\ MayRunAgain)
  /\ goingExit /\ Connect("Run")
  /\ sendQueue' = EnablePush(sendQueue) /\ handleQueue' = EnablePush(handleQueue)
  /\ CloseConnection(hConnection)
  /\ hConnection' = NoHandle
  /\ UNCHANGED <<clientInfo, goingExit, callbacks, outbox, granted, history>>

(* ConnectByIPAddress; without a handle, the attempt is over at once.      *)
Attempt_Unchecked ==
  /\ place = "attempt" /\ attempts < MaxAttempts
  /\ attempts' = attempts + 1
  /\ \/ \E h \in Handles :
          /\ connState[h] = "None" /\ \A g \in 1..(h - 1) : connState[g] # "None"
          /\ hConnection' = h
          /\ ChangeState(h, "Connecting")
     \/ UNCHANGED <<hConnection, connState, callbacks>>
  /\ place' = "sleep"
  /\ UNCHANGED <<clientInfo, sendQueue, handleQueue, goingExit, caller, inbox, outbox, granted, history>>

Attempt ==
  /\ place = "attempt" /\ attempts < MaxAttempts
  /\ attempts' = attempts + 1
  /\ \/ \E h \in Handles :
          /\ connState[h] = "None" /\ \A g \in 1..(h - 1) : connState[g] # "None"
          /\ hConnection' = h
          /\ ChangeState(h, "Connecting")
          /\ place' = "sleep"
     \/ UNCHANGED <<hConnection, connState, callbacks, place>>
  /\ UNCHANGED <<clientInfo, sendQueue, handleQueue, goingExit, caller, inbox, outbox, granted, history>>

Succeeds ==
  /\ place = "sleep" /\ connState[hConnection] = "Connected"
  /\ IF caller = "Run" THEN place' = "top" /\ goingExit' = FALSE
                       ELSE place' = "callbacks" /\ UNCHANGED goingExit
  /\ UNCHANGED <<hConnection, clientInfo, sendQueue, handleQueue, caller, attempts, gnsVars, granted, history>>

AttemptFails ==
  /\ place = "sleep" /\ connState[hConnection] # "Connected"
  /\ CloseConnection(hConnection)
  /\ hConnection' = NoHandle
  /\ place' = "attempt"
  /\ UNCHANGED <<clientInfo, sendQueue, handleQueue, goingExit, caller, attempts, callbacks, outbox, granted, history>>

(* Attempts or time are over, or the user's OnPreConnect refuses.  Run     *)
(* fails and ends GNS; a reconnection is given up with FatalError.         *)
KillGNS ==
  /\ connState' = [h \in Handles |-> IF Alive(h) THEN "Released" ELSE connState[h]]
  /\ callbacks' = <<>>
  /\ inbox' = [h \in Handles |-> <<>>]

GiveUp ==
  /\ place = "attempt"
  /\ IF caller = "Run" THEN place' = "run" /\ KillGNS /\ KeepSocket
                       ELSE place' = "callbacks" /\ CloseSocket /\ UNCHANGED <<connState, callbacks, inbox>>
  /\ UNCHANGED <<hConnection, clientInfo, caller, attempts, outbox, granted, history>>

-----------------------------------------------------------------------------
(* OnSteamNetConnectionStatusChanged.                                      *)

NextCallback(state) ==
  /\ place = "callbacks" /\ callbacks # <<>>
  /\ Head(callbacks).state = state
  /\ callbacks' = Tail(callbacks)

(* A report about another connection than the one in use: the latter is    *)
(* forgotten.                                                              *)
LoseConnection ==
  LET reported == Head(callbacks).conn IN
    /\ hConnection' = NoHandle
    /\ forgotBy' = [h \in Handles |-> IF h = hConnection /\ h # reported THEN reported ELSE forgotBy[h]]

OnClosedByPeer_Unnoticed ==
  /\ NextCallback("ClosedByPeer")
  /\ UNCHANGED <<clientVars, connState, inbox, outbox, granted, history>>

OnClosedByPeer_KeepsRunning ==
  /\ NextCallback("ClosedByPeer")
  /\ CloseConnection(Head(callbacks).conn)
  /\ LoseConnection
  /\ UNCHANGED <<clientInfo, sendQueue, handleQueue, goingExit, place, caller, attempts, outbox, granted, dropped>>

OnClosedByPeer ==
  /\ NextCallback("ClosedByPeer")
  /\ CloseConnection(Head(callbacks).conn)
  /\ LoseConnection
  /\ CloseSocket
  /\ UNCHANGED <<clientInfo, place, caller, attempts, outbox, granted, dropped>>

OnProblem_KeepsConnection ==
  /\ NextCallback("Problem")
  /\ LoseConnection
  /\ Connect("callback")
  /\ UNCHANGED <<clientInfo, sendQueue, handleQueue, goingExit, connState, inbox, outbox, granted, dropped>>

OnProblem ==
  /\ NextCallback("Problem")
  /\ CloseConnection(Head(callbacks).conn)
  /\ LoseConnection
  /\ Connect("callback")
  /\ UNCHANGED <<clientInfo, sendQueue, handleQueue, goingExit, outbox, granted, dropped>>

OnOther ==
  /\ \E state \in {"Connecting", "Connected"} : NextCallback(state)
  /\ UNCHANGED <<clientVars, connState, inbox, outbox, granted, history>>

-----------------------------------------------------------------------------
(* The loop of the connection thread.                                      *)

Goto(from, to) == place = from /\ place' = to

Top ==
  /\ ~goingExit /\ Goto("top", "callbacks")
  /\ UNCHANGED <<hConnection, clientInfo, sendQueue, handleQueue, goingExit, caller, attempts, gnsVars, granted, history>>

ThreadEnds ==
  /\ goingExit /\ Goto("top", "ended")
  /\ CloseConnection(hConnection)
  /\ hConnection' = NoHandle
  /\ UNCHANGED <<clientInfo, sendQueue, handleQueue, goingExit, caller, attempts, callbacks, outbox, granted, history>>

CallbacksDone ==
  /\ callbacks = <<>> /\ Goto("callbacks", "incoming")
  /\ UNCHANGED <<hConnection, clientInfo, sendQueue, handleQueue, goingExit, caller, attempts, gnsVars, granted, history>>

HasRoom(q) == Size(q) < MaxQueueSize

(* One message is read; it is dropped if the queue is full.                *)
ReceiveMessage ==
  /\ place = "incoming" /\ ~goingExit /\ hConnection # NoHandle /\ inbox[hConnection] # <<>>
  /\ \/ /\ HasRoom(handleQueue)
        /\ handleQueue' = Push(handleQueue, Head(inbox[hConnection])) /\ UNCHANGED dropped
     \/ ~HasRoom(handleQueue) /\ Drop(hConnection) /\ UNCHANGED handleQueue
  /\ inbox' = [inbox EXCEPT ![hConnection] = Tail(@)]
  /\ UNCHANGED <<hConnection, clientInfo, sendQueue, goingExit, place, caller, attempts, connState, callbacks, outbox, granted, forgotBy>>

IncomingDone ==
  /\ Goto("incoming", "queued")
  /\ ~goingExit /\ hConnection # NoHandle => inbox[hConnection] = <<>>
  /\ IF ~goingExit /\ hConnection = NoHandle THEN CloseSocket    \* FatalError
                                             ELSE KeepSocket
  /\ UNCHANGED <<hConnection, clientInfo, caller, attempts, gnsVars, granted, history>>

SendQueued ==
  /\ place = "queued" /\ ~goingExit /\ ~IsEmpty(sendQueue)
  /\ sendQueue' = Pop(sendQueue)
  /\ outbox' = [h \in Handles |-> IF h = hConnection /\ connState[h] = "Connected"
                                  THEN Append(outbox[h], Front(sendQueue)) ELSE outbox[h]]
  /\ UNCHANGED <<hConnection, clientInfo, handleQueue, goingExit, place, caller, attempts, connState, callbacks, inbox, granted, history>>

QueuedDone_WaitsForEmpty ==
  /\ IsEmpty(sendQueue)
  /\ Goto("queued", "top")
  /\ UNCHANGED <<hConnection, clientInfo, sendQueue, handleQueue, goingExit, caller, attempts, gnsVars, granted, history>>

QueuedDone ==
  /\ goingExit \/ IsEmpty(sendQueue)
  /\ Goto("queued", "top")
  /\ UNCHANGED <<hConnection, clientInfo, sendQueue, handleQueue, goingExit, caller, attempts, gnsVars, granted, history>>

-----------------------------------------------------------------------------
(* HandleRequest(ClientInfoRequest), in the request thread, which drains   *)
(* its queue also after CloseSocket.  A farewell does not parse.           *)

RequestThreadRuns == place # "run" /\ ~(place \in {"attempt", "sleep"} /\ caller = "Run")

Answer(info) ==
  \/ HasRoom(sendQueue) /\ sendQueue' = Push(sendQueue, info) /\ UNCHANGED dropped
  \/ ~HasRoom(sendQueue) /\ Drop(info.id) /\ UNCHANGED sendQueue

TakeInfo_KeepsID(info) ==
  LET kept == [id |-> clientInfo.id, state |-> info.state]
  IN  clientInfo' = kept /\ Answer(kept)

TakeInfo_BelievesAtOnce(info) ==
  /\ clientInfo' = [id |-> info.id, state |-> "Active"]
  /\ Answer(info)

TakeInfo(info) == clientInfo' = info /\ Answer(info)

HandleRequest ==
  /\ RequestThreadRuns /\ ~IsEmpty(handleQueue)
  /\ LET info == Front(handleQueue) IN
       \/ info.state = "Unauthorized" /\ TakeInfo(info)
       \/ /\ info.state = "Active"
          /\ clientInfo' = [id |-> clientInfo.id, state |-> "Active"]
          /\ UNCHANGED <<sendQueue, dropped>>
       \/ /\ MayRefuse /\ info # Farewell    \* OnPreHandleRequest
          /\ Drop(info.id) /\ UNCHANGED <<clientInfo, sendQueue>>
       \/ info = Farewell /\ UNCHANGED <<clientInfo, sendQueue, dropped>>
  /\ handleQueue' = Pop(handleQueue)
  /\ UNCHANGED <<hConnection, goingExit, place, caller, attempts, gnsVars, granted, forgotBy>>

-----------------------------------------------------------------------------
(* The user closes the socket: in one step here, the rest is ChatSocket's. *)
UserCloses ==
  /\ ~goingExit /\ CloseSocket
  /\ UNCHANGED <<hConnection, clientInfo, place, caller, attempts, gnsVars, granted, history>>

Init ==
  /\ hConnection \in {NoHandle} \cup Handles
  /\ clientInfo = [id |-> InvalidUserID, state |-> "Unauthorized"]
  /\ sendQueue = NewSafeQueue /\ handleQueue = NewSafeQueue
  /\ goingExit = TRUE
  /\ place = "run" /\ caller = "Run" /\ attempts = 0
  /\ connState = [h \in Handles |-> "None"]
  /\ callbacks = <<>>
  /\ inbox = [h \in Handles |-> <<>>] /\ outbox = [h \in Handles |-> <<>>]
  /\ granted = [h \in Handles |-> "Unauthorized"]
  /\ dropped = {} /\ forgotBy = [h \in Handles |-> NoHandle]

ConnectStep == Attempt \/ Succeeds \/ AttemptFails \/ GiveUp

CallbackStep == OnClosedByPeer \/ OnProblem \/ OnOther

LoopStep ==
  \/ Top \/ ThreadEnds \/ CallbacksDone
  \/ ReceiveMessage \/ IncomingDone \/ SendQueued \/ QueuedDone

ConnStep == ConnectStep \/ CallbackStep \/ LoopStep

Next ==
  \/ RunConnects \/ ConnStep \/ HandleRequest \/ UserCloses
  \/ \E h \in Handles : ServerAccepts(h) \/ ServerHandlesInfo(h) \/ ServerCloses(h) \/ ConnectionFails(h)

Spec == Init /\ [][Next]_vars

(* The client's threads and the server's run.  The server may accept,      *)
(* reject and close, the network may fail, at any time or never.           *)
Fairness ==
  /\ WF_vars(ConnStep) /\ WF_vars(HandleRequest)
  /\ \A h \in Handles : WF_vars(ServerHandlesInfo(h))

FairSpec == Spec /\ Fairness

=============================================================================
