-------------------------- MODULE ChatClientProofs --------------------------
(***************************************************************************)
(* Proofs about ChatClient, for any number of connections and attempts and *)
(* any limit of the queues.                                                *)
(***************************************************************************)
EXTENDS ChatClientProperties, TLAPS

Opened(h) == connState[h] # "None"

(* Where a running client is, it has a connection.                         *)
Polls == {"top", "callbacks", "incoming", "queued"}

PollInv ==
  /\ place \in Polls /\ ~goingExit => hConnection # NoHandle
  /\ place = "sleep" => hConnection # NoHandle

(* Handles are opened in order, and the client uses the last one or none;  *)
(* before its first Run, its handle is anything and none is open.          *)
HandleInv ==
  /\ \A h \in Handles : Opened(h) => \A g \in 1..(h - 1) : Opened(g)
  /\ hConnection # NoHandle =>
       \/ place = "run" /\ \A h \in Handles : ~Opened(h)
       \/ Opened(hConnection) /\ \A h \in Handles : Opened(h) => h <= hConnection

(* What the server wrote about h: an Active client stays Active.           *)
Granted(info, h, state) ==
  info.state # "farewell" => info.id = h /\ (info.state = "Active" => state = "Active")

MessagesInv ==
  /\ \A h \in Handles : connState[h] \in {"None", "Connecting"} => granted[h] = "Unauthorized"
  /\ \A h \in Handles : Opened(h) \/ inbox[h] = <<>>
  /\ \A h \in Handles : \A k \in 1..Len(inbox[h]) : Granted(inbox[h][k], h, granted[h])

(* What waits to be handled is in the order of the connections.            *)
FromServer(k) == handleQueue.items[k].state # "farewell"

QueueInv ==
  /\ \A k \in 1..Len(handleQueue.items) :
       FromServer(k) =>
         LET info == handleQueue.items[k] IN
           /\ info.id \in Handles /\ Opened(info.id) /\ Granted(info, info.id, granted[info.id])
           /\ clientInfo.id <= info.id
           /\ \A j \in 1..k : FromServer(j) => handleQueue.items[j].id <= info.id
  /\ clientInfo.id # InvalidUserID => Opened(clientInfo.id)

ClientInv == ClientTypeOK /\ HandleInv /\ MessagesInv /\ QueueInv /\ ActiveWasGranted

(* A step that opens no connection and neither receives nor handles a      *)
(* message.                                                                *)
Mild ==
  /\ \A h \in Handles : Opened(h)' <=> Opened(h)
  /\ \A h \in Handles : connState'[h] \in {"None", "Connecting"} =>
                           connState'[h] = connState[h] /\ granted'[h] = granted[h]
  /\ \A h \in Handles : granted[h] = "Active" => granted'[h] = "Active"
  /\ clientInfo' = clientInfo /\ handleQueue'.items = handleQueue.items
  /\ hConnection' \in {hConnection, NoHandle}
  /\ place = "run" /\ place' # "run" => hConnection' = NoHandle
  /\ \A h \in Handles :
       \/ inbox'[h] \in {inbox[h], <<>>}
       \/ Opened(h) /\ \E m : inbox'[h] = Append(inbox[h], m) /\ m \in Infos \cup {Farewell} /\ Granted(m, h, granted'[h])

-----------------------------------------------------------------------------
LEMMA Numbers == MaxHandles \in Nat /\ MaxAttempts \in Nat /\ MaxQueueSize \in Nat
<1>1. MaxHandles \in Nat \ {0} /\ MaxAttempts \in Nat \ {0} /\ MaxQueueSize \in Nat \ {0} BY ClientAssumption
<1> QED BY <1>1

LEMMA HandleNumbers == \A h \in Handles : h \in Nat /\ h > 0 /\ h # NoHandle
BY Numbers DEF Handles, NoHandle

LEMMA MildStep ==
  ASSUME ClientInv, Mild, ClientTypeOK'
  PROVE  ClientInv'
<1> USE DEF ClientInv
<1>0. /\ connState \in [Handles -> ConnStates] /\ connState' \in [Handles -> ConnStates]
      /\ granted \in [Handles -> {"Unauthorized", "Active"}] /\ granted' \in [Handles -> {"Unauthorized", "Active"}]
      /\ inbox \in [Handles -> Seq(Infos \cup {Farewell})] /\ inbox' \in [Handles -> Seq(Infos \cup {Farewell})]
      /\ clientInfo \in Infos /\ hConnection \in {NoHandle} \cup Handles
      /\ handleQueue.items \in Seq(Infos \cup {Farewell})
  BY DEF ClientTypeOK, SafeQueues
<1>1. HandleInv'
  <2>1. \A h \in Handles : Opened(h)' => \A g \in 1..(h - 1) : Opened(g)'
    <3> TAKE h \in Handles
    <3> HAVE Opened(h)'
    <3> TAKE g \in 1..(h - 1)
    <3>1. g \in Handles BY HandleNumbers, Numbers DEF Handles
    <3>2. Opened(h) BY DEF Mild
    <3>3. Opened(g) BY <3>2 DEF HandleInv
    <3> QED BY <3>1, <3>3 DEF Mild
  <2>2. ASSUME hConnection' # NoHandle
        PROVE  \/ place' = "run" /\ \A h \in Handles : ~Opened(h)'
               \/ Opened(hConnection)' /\ \A h \in Handles : Opened(h)' => h <= hConnection'
    <3>1. hConnection' = hConnection /\ (place = "run" => place' = "run") BY <2>2 DEF Mild
    <3>2. CASE place = "run" /\ \A h \in Handles : ~Opened(h) BY <3>1, <3>2 DEF Mild
    <3>3. CASE Opened(hConnection) /\ \A h \in Handles : Opened(h) => h <= hConnection
      <4>1. hConnection \in Handles BY <1>0, <2>2, <3>1
      <4>2. connState'[hConnection] # "None" BY <3>3, <4>1 DEF Mild, Opened
      <4>3. Opened(hConnection)' BY <3>1, <4>2 DEF Opened
      <4> QED BY <3>1, <3>3, <4>3 DEF Mild
    <3> QED BY <2>2, <3>1, <3>2, <3>3 DEF HandleInv
  <2> QED BY <2>1, <2>2 DEF HandleInv
<1>2. ASSUME NEW info, NEW h \in Handles, Granted(info, h, granted[h]) PROVE Granted(info, h, granted'[h])
  BY <1>2 DEF Granted, Mild
<1>3. MessagesInv'
  <2>1. \A h \in Handles : connState'[h] \in {"None", "Connecting"} => granted'[h] = "Unauthorized"
    BY DEF Mild, MessagesInv
  <2>2. \A h \in Handles : Opened(h)' \/ inbox'[h] = <<>>
    BY DEF Mild, MessagesInv
  <2>3. ASSUME NEW h \in Handles, NEW k \in 1..Len(inbox'[h])
        PROVE  Granted(inbox'[h][k], h, granted'[h])
    <3>1. CASE inbox'[h] = inbox[h]
      BY <1>2, <2>3, <3>1 DEF MessagesInv
    <3>2. CASE inbox'[h] = <<>>
      BY <2>3, <3>2
    <3>3. ASSUME NEW m, m \in Infos \cup {Farewell}, inbox'[h] = Append(inbox[h], m), Granted(m, h, granted'[h])
          PROVE  Granted(inbox'[h][k], h, granted'[h])
      <4>1. inbox[h] \in Seq(Infos \cup {Farewell}) BY <1>0
      <4>2. (k \in 1..Len(inbox[h]) /\ inbox'[h][k] = inbox[h][k]) \/ inbox'[h][k] = m BY <2>3, <3>3, <4>1
      <4>3. ASSUME k \in 1..Len(inbox[h]), inbox'[h][k] = inbox[h][k] PROVE Granted(inbox'[h][k], h, granted'[h])
        <5>1. Granted(inbox[h][k], h, granted[h]) BY <4>3 DEF MessagesInv
        <5> QED BY <1>2, <4>3, <5>1
      <4>4. ASSUME inbox'[h][k] = m PROVE Granted(inbox'[h][k], h, granted'[h])
        BY <3>3, <4>4 DEF Granted
      <4> QED BY <4>2, <4>3, <4>4
    <3> QED BY <3>1, <3>2, <3>3 DEF Mild
  <2> QED BY <2>1, <2>2, <2>3 DEF MessagesInv
<1>4. QueueInv'
  <2>1. clientInfo' = clientInfo /\ handleQueue'.items = handleQueue.items BY DEF Mild
  <2>2. \A k : FromServer(k)' <=> FromServer(k) BY <2>1 DEF FromServer
  <2>3. ASSUME NEW k \in 1..Len(handleQueue.items), FromServer(k)
        PROVE  LET info == handleQueue.items[k] IN
                 /\ info.id \in Handles /\ Opened(info.id)' /\ Granted(info, info.id, granted'[info.id])
                 /\ clientInfo.id <= info.id
                 /\ \A j \in 1..k : FromServer(j) => handleQueue.items[j].id <= info.id
    <3> DEFINE info == handleQueue.items[k]
    <3>1. /\ info.id \in Handles /\ Opened(info.id) /\ Granted(info, info.id, granted[info.id])
          /\ clientInfo.id <= info.id
          /\ \A j \in 1..k : FromServer(j) => handleQueue.items[j].id <= info.id
      BY <2>3 DEF QueueInv
    <3>2. Granted(info, info.id, granted'[info.id]) BY <1>2, <3>1
    <3>3. Opened(info.id)'
      <4>1. connState'[info.id] # "None" BY <3>1 DEF Mild, Opened
      <4> QED BY <2>1, <4>1 DEF Opened
    <3> QED BY <3>1, <3>2, <3>3
  <2>4. clientInfo.id # InvalidUserID => Opened(clientInfo.id)'
    <3>1. clientInfo.id \in {InvalidUserID} \cup Handles BY <1>0 DEF Infos
    <3>2. ASSUME clientInfo.id # InvalidUserID PROVE Opened(clientInfo.id)'
      <4>1. Opened(clientInfo.id) /\ clientInfo.id \in Handles BY <3>1, <3>2 DEF QueueInv
      <4>2. connState'[clientInfo.id] # "None" BY <4>1 DEF Mild, Opened
      <4> QED BY <2>1, <4>2 DEF Opened
    <3> QED BY <3>2
  <2> QED BY <2>1, <2>2, <2>3, <2>4 DEF QueueInv
<1>5. ActiveWasGranted'
  <2>1. ASSUME clientInfo.state = "Active", clientInfo.id = hConnection', hConnection' # NoHandle
        PROVE  granted'[hConnection'] = "Active"
    <3>1. hConnection' = hConnection BY <2>1 DEF Mild
    <3>2. hConnection \in Handles BY <1>0, <2>1, <3>1
    <3>3. granted[hConnection] = "Active" BY <2>1, <3>1 DEF ActiveWasGranted
    <3> QED BY <3>1, <3>2, <3>3 DEF Mild
  <2> QED BY <2>1 DEF ActiveWasGranted, Mild
<1> QED BY <1>1, <1>3, <1>4, <1>5

-----------------------------------------------------------------------------
(* The helpers.                                                            *)

LEMMA QueueMethods ==
  ASSUME NEW T, NEW q \in SafeQueues(T), NEW v \in T
  PROVE  /\ EnablePush(q) \in SafeQueues(T) /\ EnablePush(q).items = q.items
         /\ DisablePush(q) \in SafeQueues(T) /\ DisablePush(q).items = q.items
         /\ Push(q, v) \in SafeQueues(T)
         /\ Push(q, v).items \in {q.items, Append(q.items, v)}
  BY DEF SafeQueues, EnablePush, DisablePush, Push, PushAllowed

LEMMA QueuePop ==
  ASSUME NEW T, NEW q \in SafeQueues(T), ~IsEmpty(q)
  PROVE  Front(q) \in T /\ Front(q) = Head(q.items) /\ Pop(q) \in SafeQueues(T) /\ Pop(q).items = Tail(q.items)
  <1>1. q.items \in Seq(T) /\ q.items # <<>>
    BY DEF SafeQueues, IsEmpty
  <1>2. Tail(q.items) \in Seq(T) /\ Head(q.items) \in T
    BY <1>1
  <1>3. QED
    BY <1>2 DEF SafeQueues, Front, Pop

(* A message of each kind is an element of the types of the queues.        *)
LEMMA MessageTypes ==
  /\ Farewell \in Infos \cup {Farewell} /\ Farewell.state = "farewell" /\ Farewell.id = InvalidUserID
  /\ \A h \in Handles : \A state \in {"Unauthorized", "Active"} :
       /\ [id |-> h, state |-> state] \in Infos
       /\ Granted([id |-> h, state |-> state], h, state)
  /\ \A info \in Infos : /\ info.id \in {InvalidUserID} \cup Handles /\ info.state \in {"Unauthorized", "Active"}
                         /\ info.state # "farewell" /\ info # Farewell
BY DEF Infos, Farewell, Granted

LEMMA CloseSocketKeepsItems ==
  ASSUME ClientTypeOK, CloseSocket
  PROVE  /\ goingExit' \in BOOLEAN /\ sendQueue' \in SafeQueues(Infos)
         /\ handleQueue' \in SafeQueues(Infos \cup {Farewell}) /\ handleQueue'.items = handleQueue.items
<1>1. sendQueue \in SafeQueues(Infos) /\ handleQueue \in SafeQueues(Infos \cup {Farewell}) BY DEF ClientTypeOK
<1>2. goingExit' = TRUE /\ sendQueue' = DisablePush(sendQueue) /\ handleQueue' = DisablePush(handleQueue) BY DEF CloseSocket
<1>3. DisablePush(sendQueue) \in SafeQueues(Infos) BY <1>1 DEF SafeQueues, DisablePush
<1>4. DisablePush(handleQueue) \in SafeQueues(Infos \cup {Farewell}) BY <1>1 DEF SafeQueues, DisablePush
<1>5. DisablePush(handleQueue).items = handleQueue.items BY DEF DisablePush
<1> QED BY <1>2, <1>3, <1>4, <1>5

(* What is left of GNS after a connection was closed, or all of them.      *)
GnsShrinks ==
  /\ connState' \in [Handles -> ConnStates] /\ inbox' \in [Handles -> Seq(Infos \cup {Farewell})]
  /\ \A h \in Handles : /\ Opened(h)' <=> Opened(h)
                        /\ connState'[h] \in {"None", "Connecting"} => connState'[h] = connState[h]
                        /\ inbox'[h] \in {inbox[h], <<>>}

LEMMA CloseConnectionShrinks ==
  ASSUME NEW c, ClientTypeOK, CloseConnection(c)
  PROVE  GnsShrinks
BY DEF ClientTypeOK, CloseConnection, Alive, ConnStates, GnsShrinks, Opened

LEMMA KillShrinks ==
  ASSUME ClientTypeOK, KillGNS
  PROVE  GnsShrinks /\ callbacks' \in Seq([conn : Handles, state : ConnStates])
BY DEF ClientTypeOK, KillGNS, Alive, ConnStates, GnsShrinks, Opened

LEMMA SameShrinks ==
  ASSUME ClientTypeOK, connState' = connState, inbox' = inbox
  PROVE  GnsShrinks
BY DEF ClientTypeOK, GnsShrinks, Opened

LEMMA StateChanges ==
  ASSUME ClientTypeOK, NEW h \in Handles, Opened(h), NEW state \in {"Connected", "ClosedByPeer", "Problem"}, ChangeState(h, state)
  PROVE  /\ connState' \in [Handles -> ConnStates] /\ callbacks' \in Seq([conn : Handles, state : ConnStates])
         /\ \A g \in Handles : /\ Opened(g)' <=> Opened(g)
                               /\ connState'[g] \in {"None", "Connecting"} => connState'[g] = connState[g]
         /\ connState'[h] = state
<1>1. connState \in [Handles -> ConnStates] /\ callbacks \in Seq([conn : Handles, state : ConnStates]) BY DEF ClientTypeOK
<1>2. connState' = [connState EXCEPT ![h] = state] /\ callbacks' = Append(callbacks, [conn |-> h, state |-> state])
  BY DEF ChangeState
<1>3. state \in ConnStates BY DEF ConnStates
<1>4. callbacks' \in Seq([conn : Handles, state : ConnStates]) BY <1>1, <1>2, <1>3
<1> QED BY <1>1, <1>2, <1>3, <1>4 DEF Opened

LEMMA HeadAndTail ==
  ASSUME NEW T, NEW s \in Seq(T), s # <<>>
  PROVE  Head(s) \in T /\ Tail(s) \in Seq(T)
OBVIOUS

LEMMA TailElements ==
  ASSUME NEW T, NEW s \in Seq(T), s # <<>>
  PROVE  /\ Len(Tail(s)) = Len(s) - 1 /\ Len(s) \in Nat
         /\ \A k \in 1..(Len(s) - 1) : k + 1 \in 1..Len(s) /\ Tail(s)[k] = s[k + 1]
OBVIOUS

LEMMA AppendElements ==
  ASSUME NEW T, NEW s \in Seq(T), NEW v \in T
  PROVE  /\ Len(Append(s, v)) = Len(s) + 1 /\ Append(s, v)[Len(s) + 1] = v
         /\ \A k \in 1..Len(s) : Append(s, v)[k] = s[k]
OBVIOUS

LEMMA NextCallbackIs ==
  ASSUME ClientTypeOK, NEW state, NextCallback(state)
  PROVE  /\ place = "callbacks" /\ Head(callbacks).conn \in Handles
         /\ callbacks' \in Seq([conn : Handles, state : ConnStates])
<1>1. callbacks \in Seq([conn : Handles, state : ConnStates]) /\ callbacks # <<>> BY DEF ClientTypeOK, NextCallback
<1>2. Head(callbacks) \in [conn : Handles, state : ConnStates] /\ Tail(callbacks) \in Seq([conn : Handles, state : ConnStates])
  BY <1>1, HeadAndTail
<1> QED BY <1>2 DEF NextCallback

(* A step of the client that leaves its messages alone.                    *)
LEMMA QuietStep ==
  ASSUME ClientInv, GnsShrinks,
         clientInfo' = clientInfo, handleQueue'.items = handleQueue.items, granted' = granted, outbox' = outbox,
         hConnection' \in {hConnection, NoHandle},
         place' \in Places, place = "run" => place' = "run" \/ hConnection' = NoHandle,
         place' = "sleep" => hConnection' # NoHandle,
         sendQueue' \in SafeQueues(Infos), handleQueue' \in SafeQueues(Infos \cup {Farewell}),
         goingExit' \in BOOLEAN, caller' \in {"Run", "callback"}, attempts' \in 0..MaxAttempts,
         callbacks' \in Seq([conn : Handles, state : ConnStates]),
         dropped' = dropped, forgotBy' \in [Handles -> Handles \cup {NoHandle}]
  PROVE  ClientInv'
<1>1. ClientTypeOK'
  BY Zenon DEF ClientInv, ClientTypeOK, GnsShrinks
<1>2. Mild
  BY DEF Mild, GnsShrinks
<1> QED BY <1>1, <1>2, MildStep

-----------------------------------------------------------------------------
(* The steps of Connect, of the callbacks and of the loop.                 *)

LEMMA Types ==
  ASSUME ClientInv
  PROVE  /\ ClientTypeOK /\ hConnection \in {NoHandle} \cup Handles
         /\ sendQueue \in SafeQueues(Infos) /\ handleQueue \in SafeQueues(Infos \cup {Farewell})
         /\ goingExit \in BOOLEAN /\ place \in Places
         /\ caller \in {"Run", "callback"} /\ attempts \in 0..MaxAttempts
         /\ callbacks \in Seq([conn : Handles, state : ConnStates])
         /\ dropped \subseteq Handles /\ forgotBy \in [Handles -> Handles \cup {NoHandle}]
         /\ place = "sleep" => hConnection # NoHandle
BY Zenon DEF ClientInv, ClientTypeOK

LEMMA ZeroAttempts == 0 \in 0..MaxAttempts
BY Numbers

LEMMA RunConnectsInv == ClientInv /\ RunConnects => ClientInv'
<1> SUFFICES ASSUME ClientInv, RunConnects PROVE ClientInv'
    OBVIOUS
<1>1. ClientTypeOK /\ sendQueue \in SafeQueues(Infos) /\ handleQueue \in SafeQueues(Infos \cup {Farewell}) BY Types
<1>2. GnsShrinks BY <1>1, CloseConnectionShrinks DEF RunConnects
<1>3. EnablePush(sendQueue) \in SafeQueues(Infos) BY <1>1 DEF SafeQueues, EnablePush
<1>4. EnablePush(handleQueue) \in SafeQueues(Infos \cup {Farewell}) /\ EnablePush(handleQueue).items = handleQueue.items
  BY <1>1 DEF SafeQueues, EnablePush
<1>5. /\ sendQueue' = EnablePush(sendQueue) /\ handleQueue' = EnablePush(handleQueue) /\ hConnection' = NoHandle
      /\ place' = "attempt" /\ caller' = "Run" /\ attempts' = 0
      /\ clientInfo' = clientInfo /\ goingExit' = goingExit /\ callbacks' = callbacks /\ outbox' = outbox /\ granted' = granted
      /\ dropped' = dropped /\ forgotBy' = forgotBy
  BY DEF RunConnects, Connect, history
<1>6. place' \in Places \ {"run"} /\ place' # "sleep" /\ handleQueue'.items = handleQueue.items BY <1>4, <1>5 DEF Places
<1> QED BY <1>2, <1>3, <1>4, <1>5, <1>6, Types, ZeroAttempts, QuietStep

LEMMA ConnectStepInv == ClientInv /\ (Succeeds \/ AttemptFails \/ GiveUp) => ClientInv'
<1> SUFFICES ASSUME ClientInv, Succeeds \/ AttemptFails \/ GiveUp PROVE ClientInv'
    OBVIOUS
<1>0. ClientTypeOK BY Types
<1>1. CASE Succeeds
  <2>1. GnsShrinks BY <1>0, <1>1, SameShrinks DEF Succeeds, gnsVars
  <2>2. /\ place = "sleep" /\ place' \in {"top", "callbacks"} /\ goingExit' \in {goingExit, FALSE}
        /\ hConnection' = hConnection /\ clientInfo' = clientInfo /\ sendQueue' = sendQueue /\ handleQueue' = handleQueue
        /\ caller' = caller /\ attempts' = attempts /\ callbacks' = callbacks /\ outbox' = outbox /\ granted' = granted
        /\ dropped' = dropped /\ forgotBy' = forgotBy
    BY <1>1 DEF Succeeds, gnsVars, history
  <2>3. place' \in Places \ {"run"} /\ place # "run" /\ place' # "sleep" BY <2>2 DEF Places
  <2>4. goingExit' \in BOOLEAN BY <2>2, Types
  <2> QED BY <2>1, <2>2, <2>3, <2>4, Types, QuietStep
<1>2. CASE AttemptFails
  <2>1. GnsShrinks BY <1>0, <1>2, CloseConnectionShrinks DEF AttemptFails
  <2>2. /\ place' = "attempt" /\ hConnection' = NoHandle /\ clientInfo' = clientInfo /\ sendQueue' = sendQueue
        /\ handleQueue' = handleQueue /\ goingExit' = goingExit
        /\ caller' = caller /\ attempts' = attempts /\ callbacks' = callbacks /\ outbox' = outbox /\ granted' = granted
        /\ dropped' = dropped /\ forgotBy' = forgotBy
    BY <1>2 DEF AttemptFails, history
  <2>3. place' \in Places \ {"run"} /\ place' # "sleep" BY <2>2 DEF Places
  <2> QED BY <2>1, <2>2, <2>3, Types, QuietStep
<1>3. CASE GiveUp
  <2>0. /\ place = "attempt" /\ hConnection' = hConnection /\ clientInfo' = clientInfo
        /\ caller' = caller /\ attempts' = attempts /\ outbox' = outbox /\ granted' = granted
        /\ dropped' = dropped /\ forgotBy' = forgotBy
    BY <1>3 DEF GiveUp, history
  <2>1. CASE caller = "Run"
    <3>1. place' = "run" /\ KillGNS /\ goingExit' = goingExit /\ sendQueue' = sendQueue /\ handleQueue' = handleQueue
      BY <1>3, <2>1 DEF GiveUp, KeepSocket
    <3>2. GnsShrinks /\ callbacks' \in Seq([conn : Handles, state : ConnStates]) BY <1>0, <3>1, KillShrinks
    <3>3. place' \in Places /\ place # "run" /\ place' # "sleep" BY <2>0, <3>1 DEF Places
    <3> QED BY <2>0, <3>1, <3>2, <3>3, Types, QuietStep
  <2>2. CASE caller # "Run"
    <3>1. place' = "callbacks" /\ CloseSocket /\ connState' = connState /\ callbacks' = callbacks /\ inbox' = inbox
      BY <1>3, <2>2 DEF GiveUp
    <3>2. GnsShrinks BY <1>0, <3>1, SameShrinks
    <3>3. place' \in Places \ {"run"} /\ place # "run" /\ place' # "sleep" BY <2>0, <3>1 DEF Places
    <3>4. /\ goingExit' \in BOOLEAN /\ sendQueue' \in SafeQueues(Infos)
          /\ handleQueue' \in SafeQueues(Infos \cup {Farewell}) /\ handleQueue'.items = handleQueue.items
      BY <1>0, <3>1, CloseSocketKeepsItems
    <3> QED BY <2>0, <3>1, <3>2, <3>3, <3>4, Types, QuietStep
  <2> QED BY <2>1, <2>2
<1> QED BY <1>1, <1>2, <1>3

LEMMA LoseConnectionTyped ==
  ASSUME ClientTypeOK, Head(callbacks).conn \in Handles, LoseConnection
  PROVE  forgotBy' \in [Handles -> Handles \cup {NoHandle}]
BY DEF ClientTypeOK, LoseConnection

LEMMA CallbackStepInv == ClientInv /\ CallbackStep => ClientInv'
<1> SUFFICES ASSUME ClientInv, CallbackStep PROVE ClientInv'
    OBVIOUS
<1>0. ClientTypeOK BY Types
<1>1. CASE OnClosedByPeer
  <2>1. place = "callbacks" /\ callbacks' \in Seq([conn : Handles, state : ConnStates])
    BY <1>0, <1>1, NextCallbackIs DEF OnClosedByPeer
  <2>2. GnsShrinks BY <1>0, <1>1, CloseConnectionShrinks DEF OnClosedByPeer
  <2>3. /\ goingExit' \in BOOLEAN /\ sendQueue' \in SafeQueues(Infos)
        /\ handleQueue' \in SafeQueues(Infos \cup {Farewell}) /\ handleQueue'.items = handleQueue.items
    BY <1>0, <1>1, CloseSocketKeepsItems DEF OnClosedByPeer
  <2>4. /\ hConnection' = NoHandle /\ clientInfo' = clientInfo /\ place' = place
        /\ caller' = caller /\ attempts' = attempts /\ outbox' = outbox /\ granted' = granted /\ dropped' = dropped
    BY <1>1 DEF OnClosedByPeer, LoseConnection
  <2>6. forgotBy' \in [Handles -> Handles \cup {NoHandle}]
    BY <1>0, <1>1, NextCallbackIs, LoseConnectionTyped DEF OnClosedByPeer
  <2>5. place' \in Places \ {"run"} /\ place' # "sleep" BY <2>1, <2>4 DEF Places
  <2> QED BY <2>2, <2>1, <2>3, <2>4, <2>5, <2>6, Types, QuietStep
<1>2. CASE OnProblem
  <2>1. place = "callbacks" /\ callbacks' \in Seq([conn : Handles, state : ConnStates])
    BY <1>0, <1>2, NextCallbackIs DEF OnProblem
  <2>2. GnsShrinks BY <1>0, <1>2, CloseConnectionShrinks DEF OnProblem
  <2>3. /\ hConnection' = NoHandle /\ clientInfo' = clientInfo /\ place' = "attempt" /\ caller' = "callback" /\ attempts' = 0
        /\ sendQueue' = sendQueue /\ handleQueue' = handleQueue /\ goingExit' = goingExit /\ outbox' = outbox /\ granted' = granted
        /\ dropped' = dropped
    BY <1>2 DEF OnProblem, Connect, LoseConnection
  <2>5. forgotBy' \in [Handles -> Handles \cup {NoHandle}]
    BY <1>0, <1>2, NextCallbackIs, LoseConnectionTyped DEF OnProblem
  <2>4. place' \in Places \ {"run"} /\ place' # "sleep" BY <2>3 DEF Places
  <2> QED BY <2>2, <2>1, <2>3, <2>4, <2>5, Types, ZeroAttempts, QuietStep
<1>3. CASE OnOther
  <2>1. place = "callbacks" /\ callbacks' \in Seq([conn : Handles, state : ConnStates])
    BY <1>0, <1>3, NextCallbackIs DEF OnOther
  <2>2. /\ hConnection' = hConnection /\ clientInfo' = clientInfo /\ place' = place /\ caller' = caller /\ attempts' = attempts
        /\ sendQueue' = sendQueue /\ handleQueue' = handleQueue /\ goingExit' = goingExit /\ outbox' = outbox /\ granted' = granted
        /\ connState' = connState /\ inbox' = inbox /\ dropped' = dropped /\ forgotBy' = forgotBy
    BY <1>3 DEF OnOther, clientVars, history
  <2>3. GnsShrinks BY <1>0, <2>2, SameShrinks
  <2>4. place' \in Places \ {"run"} /\ place' # "sleep" /\ place # "run" BY <2>1, <2>2 DEF Places
  <2> QED BY <2>1, <2>2, <2>3, <2>4, Types, QuietStep
<1> QED BY <1>1, <1>2, <1>3 DEF CallbackStep

LEMMA MoveInv ==
  ClientInv /\ (Top \/ CallbacksDone \/ IncomingDone \/ QueuedDone \/ ThreadEnds) => ClientInv'
<1> SUFFICES ASSUME ClientInv, Top \/ CallbacksDone \/ IncomingDone \/ QueuedDone \/ ThreadEnds PROVE ClientInv'
    OBVIOUS
<1>0. ClientTypeOK BY Types
<1>1. CASE Top \/ CallbacksDone \/ QueuedDone
  <2>1. /\ hConnection' = hConnection /\ clientInfo' = clientInfo /\ caller' = caller /\ attempts' = attempts
        /\ sendQueue' = sendQueue /\ handleQueue' = handleQueue /\ goingExit' = goingExit /\ outbox' = outbox /\ granted' = granted
        /\ connState' = connState /\ inbox' = inbox /\ callbacks' = callbacks /\ dropped' = dropped /\ forgotBy' = forgotBy
    BY <1>1 DEF Top, CallbacksDone, QueuedDone, gnsVars, history
  <2>2. place \in {"top", "callbacks", "queued"} /\ place' \in {"callbacks", "incoming", "top"}
    BY <1>1 DEF Top, CallbacksDone, QueuedDone, Goto
  <2>3. GnsShrinks BY <1>0, <2>1, SameShrinks
  <2>4. place' \in Places \ {"run"} /\ place' # "sleep" /\ place # "run" BY <2>2 DEF Places
  <2> QED BY <2>1, <2>3, <2>4, Types, QuietStep
<1>2. CASE IncomingDone
  <2>1. /\ hConnection' = hConnection /\ clientInfo' = clientInfo /\ caller' = caller /\ attempts' = attempts
        /\ outbox' = outbox /\ granted' = granted /\ connState' = connState /\ inbox' = inbox /\ callbacks' = callbacks
        /\ place = "incoming" /\ place' = "queued" /\ dropped' = dropped /\ forgotBy' = forgotBy
    BY <1>2 DEF IncomingDone, Goto, gnsVars, history
  <2>2. CloseSocket \/ KeepSocket BY <1>2 DEF IncomingDone
  <2>3. /\ goingExit' \in BOOLEAN /\ sendQueue' \in SafeQueues(Infos)
        /\ handleQueue' \in SafeQueues(Infos \cup {Farewell}) /\ handleQueue'.items = handleQueue.items
    <3>1. CASE CloseSocket BY <1>0, <3>1, CloseSocketKeepsItems
    <3>2. CASE KeepSocket BY <3>2, Types DEF KeepSocket
    <3> QED BY <2>2, <3>1, <3>2
  <2>4. GnsShrinks BY <1>0, <2>1, SameShrinks
  <2>5. place' \in Places \ {"run"} /\ place' # "sleep" /\ place # "run" BY <2>1 DEF Places
  <2> QED BY <2>1, <2>3, <2>4, <2>5, Types, QuietStep
<1>3. CASE ThreadEnds
  <2>1. GnsShrinks BY <1>0, <1>3, CloseConnectionShrinks DEF ThreadEnds
  <2>2. /\ place = "top" /\ place' = "ended" /\ hConnection' = NoHandle /\ clientInfo' = clientInfo /\ sendQueue' = sendQueue
        /\ handleQueue' = handleQueue /\ goingExit' = goingExit
        /\ caller' = caller /\ attempts' = attempts /\ callbacks' = callbacks /\ outbox' = outbox /\ granted' = granted
        /\ dropped' = dropped /\ forgotBy' = forgotBy
    BY <1>3 DEF ThreadEnds, Goto, history
  <2>3. place' \in Places \ {"run"} /\ place' # "sleep" BY <2>2 DEF Places
  <2> QED BY <2>1, <2>2, <2>3, Types, QuietStep
<1> QED BY <1>1, <1>2, <1>3

LEMMA SendQueuedInv == ClientInv /\ SendQueued => ClientInv'
<1> SUFFICES ASSUME ClientInv, SendQueued PROVE ClientInv'
    OBVIOUS
<1>0. ClientTypeOK BY Types
<1>1. /\ hConnection' = hConnection /\ clientInfo' = clientInfo /\ place' = place /\ caller' = caller /\ attempts' = attempts
      /\ handleQueue' = handleQueue /\ goingExit' = goingExit /\ granted' = granted
      /\ connState' = connState /\ inbox' = inbox /\ callbacks' = callbacks /\ sendQueue' = Pop(sendQueue)
      /\ dropped' = dropped /\ forgotBy' = forgotBy
  BY DEF SendQueued, history
<1>2. Front(sendQueue) \in Infos /\ sendQueue' \in SafeQueues(Infos) BY <1>1, Types, QueuePop DEF SendQueued
<1>3. outbox' \in [Handles -> Seq(Infos)]
  <2>1. outbox \in [Handles -> Seq(Infos)] BY <1>0 DEF ClientTypeOK
  <2>2. PICK info \in Infos : info = Front(sendQueue) BY <1>2
  <2>3. outbox' = [h \in Handles |-> IF h = hConnection /\ connState[h] = "Connected" THEN Append(outbox[h], info) ELSE outbox[h]]
    BY <2>2 DEF SendQueued
  <2>4. \A h \in Handles : Append(outbox[h], info) \in Seq(Infos) /\ outbox[h] \in Seq(Infos) BY <2>1
  <2> QED BY <2>3, <2>4
<1>4. ClientTypeOK' BY <1>0, <1>1, <1>2, <1>3, Zenon DEF ClientTypeOK
<1>5. Mild BY <1>1 DEF Mild, Opened
<1> QED BY <1>4, <1>5, MildStep

LEMMA UserClosesInv == ClientInv /\ UserCloses => ClientInv'
<1> SUFFICES ASSUME ClientInv, UserCloses PROVE ClientInv'
    OBVIOUS
<1>0. ClientTypeOK BY Types
<1>1. /\ hConnection' = hConnection /\ clientInfo' = clientInfo /\ place' = place /\ caller' = caller /\ attempts' = attempts
      /\ granted' = granted /\ connState' = connState /\ inbox' = inbox /\ outbox' = outbox /\ callbacks' = callbacks /\ CloseSocket
      /\ dropped' = dropped /\ forgotBy' = forgotBy
  BY DEF UserCloses, gnsVars, history
<1>2. /\ goingExit' \in BOOLEAN /\ sendQueue' \in SafeQueues(Infos)
      /\ handleQueue' \in SafeQueues(Infos \cup {Farewell}) /\ handleQueue'.items = handleQueue.items
  BY <1>0, <1>1, CloseSocketKeepsItems
<1>3. ClientTypeOK' BY <1>0, <1>1, <1>2, Zenon DEF ClientTypeOK
<1>4. Mild BY <1>1, <1>2 DEF Mild, Opened
<1> QED BY <1>3, <1>4, MildStep

LEMMA StutterInv == ClientInv /\ UNCHANGED vars => ClientInv'
<1> SUFFICES ASSUME ClientInv, UNCHANGED vars PROVE ClientInv'
    OBVIOUS
<1>1. /\ hConnection' = hConnection /\ clientInfo' = clientInfo /\ place' = place /\ caller' = caller /\ attempts' = attempts
      /\ sendQueue' = sendQueue /\ handleQueue' = handleQueue /\ goingExit' = goingExit
      /\ granted' = granted /\ connState' = connState /\ inbox' = inbox /\ outbox' = outbox /\ callbacks' = callbacks
      /\ dropped' = dropped /\ forgotBy' = forgotBy
  BY DEF vars, clientVars, gnsVars, history
<1>2. ClientTypeOK' BY <1>1, Types, Zenon DEF ClientTypeOK
<1>3. Mild BY <1>1 DEF Mild, Opened
<1> QED BY <1>2, <1>3, MildStep

-----------------------------------------------------------------------------
(* The steps of the server and of GNS.                                     *)

(* A message of the server for h, if any.                                  *)
LEMMA ServerStep ==
  ASSUME ClientInv, NEW h \in Handles, Opened(h), NEW m \in Infos \cup {Farewell},
         hConnection' = hConnection, clientInfo' = clientInfo, sendQueue' = sendQueue, handleQueue' = handleQueue,
         goingExit' = goingExit, place' = place, caller' = caller, attempts' = attempts,
         connState' \in [Handles -> ConnStates], callbacks' \in Seq([conn : Handles, state : ConnStates]),
         \A g \in Handles : Opened(g)' <=> Opened(g),
         \A g \in Handles : connState'[g] \in {"None", "Connecting"} => connState'[g] = connState[g] /\ granted'[g] = granted[g],
         outbox' \in [Handles -> Seq(Infos)],
         granted' \in [Handles -> {"Unauthorized", "Active"}], \A g \in Handles : granted[g] = "Active" => granted'[g] = "Active",
         inbox' \in {inbox, [inbox EXCEPT ![h] = Append(@, m)]}, Granted(m, h, granted'[h]),
         dropped' \subseteq Handles, forgotBy' = forgotBy
  PROVE  ClientInv'
<1>1. inbox \in [Handles -> Seq(Infos \cup {Farewell})] BY Types DEF ClientTypeOK
<1>2. \A g \in Handles : inbox'[g] = inbox[g] \/ (g = h /\ inbox'[g] = Append(inbox[g], m))
  <2>1. PICK longer : longer = Append(inbox[h], m) OBVIOUS
  <2>2. inbox' = inbox \/ inbox' = [inbox EXCEPT ![h] = longer] BY <2>1
  <2>3. \A g \in Handles : inbox'[g] = inbox[g] \/ (g = h /\ inbox'[g] = longer) BY <1>1, <2>2
  <2> QED BY <2>1, <2>3
<1>3. inbox' \in [Handles -> Seq(Infos \cup {Farewell})]
  <2>1. Append(inbox[h], m) \in Seq(Infos \cup {Farewell}) BY <1>1
  <2> QED BY <1>1, <2>1
<1>4. ClientTypeOK' BY <1>3, Types, Zenon DEF ClientTypeOK
<1>5. Mild
  <2>1. ASSUME NEW g \in Handles
        PROVE  \/ inbox'[g] \in {inbox[g], <<>>}
               \/ Opened(g) /\ \E n : inbox'[g] = Append(inbox[g], n) /\ n \in Infos \cup {Farewell} /\ Granted(n, g, granted'[g])
    BY <1>2
  <2> QED BY <2>1, Zenon DEF Mild
<1> QED BY <1>4, <1>5, MildStep

LEMMA ServerSendsOne ==
  ASSUME NEW h \in Handles, NEW state, dropped \subseteq Handles, ServerSends(h, state)
  PROVE  inbox' \in {inbox, [inbox EXCEPT ![h] = Append(@, [id |-> h, state |-> state])]} /\ dropped' \subseteq Handles
BY DEF ServerSends, SendInfo, Drop

LEMMA ServerAcceptsInv == ASSUME NEW h \in Handles PROVE ClientInv /\ ServerAccepts(h) => ClientInv'
<1> SUFFICES ASSUME ClientInv, ServerAccepts(h) PROVE ClientInv'
    OBVIOUS
<1> DEFINE m == [id |-> h, state |-> "Unauthorized"]
<1>0. ClientTypeOK /\ connState[h] = "Connecting" /\ Opened(h) BY Types DEF ServerAccepts, Opened
<1>1. /\ connState' \in [Handles -> ConnStates] /\ callbacks' \in Seq([conn : Handles, state : ConnStates])
      /\ \A g \in Handles : Opened(g)' <=> Opened(g)
      /\ \A g \in Handles : connState'[g] \in {"None", "Connecting"} => connState'[g] = connState[g]
  BY <1>0, StateChanges DEF ServerAccepts
<1>2. granted \in [Handles -> {"Unauthorized", "Active"}] /\ outbox \in [Handles -> Seq(Infos)] BY <1>0 DEF ClientTypeOK
<1>3. granted[h] = "Unauthorized" BY <1>0 DEF ClientInv, MessagesInv
<1>4. granted' = granted BY <1>2, <1>3 DEF ServerAccepts
<1>5. m \in Infos \cup {Farewell} /\ Granted(m, h, granted'[h]) BY <1>3, <1>4, MessageTypes
<1>6. inbox' \in {inbox, [inbox EXCEPT ![h] = Append(@, m)]} /\ dropped' \subseteq Handles
  BY ServerSendsOne, Types DEF ServerAccepts
<1>7. /\ hConnection' = hConnection /\ clientInfo' = clientInfo /\ sendQueue' = sendQueue /\ handleQueue' = handleQueue
      /\ goingExit' = goingExit /\ place' = place /\ caller' = caller /\ attempts' = attempts /\ outbox' = outbox
      /\ forgotBy' = forgotBy
  BY DEF ServerAccepts, clientVars
<1> HIDE DEF m
<1> QED BY <1>0, <1>1, <1>2, <1>4, <1>5, <1>6, <1>7, ServerStep

LEMMA ServerHandlesInfoInv == ASSUME NEW h \in Handles PROVE ClientInv /\ ServerHandlesInfo(h) => ClientInv'
<1> SUFFICES ASSUME ClientInv, ServerHandlesInfo(h) PROVE ClientInv'
    OBVIOUS
<1> DEFINE m(state) == [id |-> h, state |-> state]
<1>0. ClientTypeOK /\ connState[h] = "Connected" /\ Opened(h) /\ outbox[h] # <<>> BY Types DEF ServerHandlesInfo, Opened
<1>1. /\ granted \in [Handles -> {"Unauthorized", "Active"}] /\ outbox \in [Handles -> Seq(Infos)]
      /\ connState \in [Handles -> ConnStates] /\ callbacks \in Seq([conn : Handles, state : ConnStates])
  BY <1>0 DEF ClientTypeOK
<1>2. PICK state \in {"Unauthorized", "Active"} :
        /\ granted[h] = "Active" => state = "Active"
        /\ granted' = [granted EXCEPT ![h] = state]
        /\ inbox' \in {inbox, [inbox EXCEPT ![h] = Append(@, m(state))]} /\ dropped' \subseteq Handles
  <2>1. dropped \subseteq Handles /\ granted[h] \in {"Unauthorized", "Active"} BY <1>1, Types
  <2>2. CASE granted' = [granted EXCEPT ![h] = "Active"] /\ ServerSends(h, "Active")
    BY <2>1, <2>2, ServerSendsOne
  <2>3. CASE ServerSends(h, granted[h]) /\ granted' = granted
    <3>1. granted' = [granted EXCEPT ![h] = granted[h]] BY <1>1, <2>3
    <3>2. inbox' \in {inbox, [inbox EXCEPT ![h] = Append(@, m(granted[h]))]} /\ dropped' \subseteq Handles
      BY <2>1, <2>3, ServerSendsOne
    <3> QED BY <2>1, <3>1, <3>2
  <2>4. CASE Drop(h) /\ granted' = granted /\ (SendInfo(h, granted[h]) \/ UNCHANGED inbox)
    <3>1. granted' = [granted EXCEPT ![h] = granted[h]] BY <1>1, <2>4
    <3>2. inbox' \in {inbox, [inbox EXCEPT ![h] = Append(@, m(granted[h]))]} /\ dropped' \subseteq Handles
      BY <2>1, <2>4 DEF SendInfo, Drop
    <3> QED BY <2>1, <3>1, <3>2
  <2> QED BY <2>2, <2>3, <2>4 DEF ServerHandlesInfo
<1>3. outbox' = [outbox EXCEPT ![h] = Tail(@)] /\ connState' = connState /\ callbacks' = callbacks
  BY DEF ServerHandlesInfo
<1>4. /\ hConnection' = hConnection /\ clientInfo' = clientInfo /\ sendQueue' = sendQueue /\ handleQueue' = handleQueue
      /\ goingExit' = goingExit /\ place' = place /\ caller' = caller /\ attempts' = attempts /\ forgotBy' = forgotBy
  BY DEF ServerHandlesInfo, clientVars
<1>5. m(state) \in Infos \cup {Farewell} /\ Granted(m(state), h, state) BY MessageTypes
<1> HIDE DEF m
<1>6. /\ granted' \in [Handles -> {"Unauthorized", "Active"}] /\ granted'[h] = state
      /\ \A g \in Handles : granted[g] = "Active" => granted'[g] = "Active"
      /\ \A g \in Handles : g # h => granted'[g] = granted[g]
  BY <1>1, <1>2
<1>7. outbox' \in [Handles -> Seq(Infos)]
  <2>1. Tail(outbox[h]) \in Seq(Infos) BY <1>0, <1>1, HeadAndTail
  <2> QED BY <1>1, <1>3, <2>1
<1>8. /\ \A g \in Handles : Opened(g)' <=> Opened(g)
      /\ \A g \in Handles : connState'[g] \in {"None", "Connecting"} => connState'[g] = connState[g] /\ granted'[g] = granted[g]
  BY <1>0, <1>3, <1>6 DEF Opened
<1>9. PICK n \in Infos \cup {Farewell} : n = m(state) BY <1>5
<1>10. inbox' \in {inbox, [inbox EXCEPT ![h] = Append(@, n)]} /\ dropped' \subseteq Handles BY <1>2, <1>9
<1> QED BY <1>0, <1>1, <1>3, <1>4, <1>5, <1>6, <1>7, <1>8, <1>9, <1>10, ServerStep

LEMMA ConnectionEndsInv ==
  ASSUME NEW h \in Handles PROVE ClientInv /\ (ServerCloses(h) \/ ConnectionFails(h)) => ClientInv'
<1> SUFFICES ASSUME ClientInv, ServerCloses(h) \/ ConnectionFails(h) PROVE ClientInv'
    OBVIOUS
<1>0. ClientTypeOK /\ Opened(h) BY Types DEF ServerCloses, ConnectionFails, Opened
<1>1. /\ connState' \in [Handles -> ConnStates] /\ callbacks' \in Seq([conn : Handles, state : ConnStates])
      /\ \A g \in Handles : Opened(g)' <=> Opened(g)
      /\ \A g \in Handles : connState'[g] \in {"None", "Connecting"} => connState'[g] = connState[g]
  <2>1. CASE ServerCloses(h) BY <1>0, <2>1, StateChanges DEF ServerCloses
  <2>2. CASE ConnectionFails(h) BY <1>0, <2>2, StateChanges DEF ConnectionFails
  <2> QED BY <2>1, <2>2
<1>2. granted \in [Handles -> {"Unauthorized", "Active"}] /\ outbox \in [Handles -> Seq(Infos)] BY <1>0 DEF ClientTypeOK
<1>3. /\ hConnection' = hConnection /\ clientInfo' = clientInfo /\ sendQueue' = sendQueue /\ handleQueue' = handleQueue
      /\ goingExit' = goingExit /\ place' = place /\ caller' = caller /\ attempts' = attempts /\ outbox' = outbox /\ granted' = granted
      /\ dropped' = dropped /\ forgotBy' = forgotBy
  BY DEF ServerCloses, ConnectionFails, clientVars, history
<1>4. inbox' \in {inbox, [inbox EXCEPT ![h] = Append(@, Farewell)]} BY DEF ServerCloses, ConnectionFails
<1>5. Farewell \in Infos \cup {Farewell} /\ Granted(Farewell, h, granted'[h]) BY MessageTypes DEF Granted
<1>6. dropped' \subseteq Handles BY <1>3, Types
<1> QED BY <1>0, <1>1, <1>2, <1>3, <1>4, <1>5, <1>6, ServerStep

-----------------------------------------------------------------------------
(* The steps that open a connection, receive a message and handle one.     *)

LEMMA AttemptInv == ClientInv /\ Attempt => ClientInv'
<1> SUFFICES ASSUME ClientInv, Attempt PROVE ClientInv'
    OBVIOUS
<1>0. ClientTypeOK BY Types
<1>1. /\ place = "attempt" /\ attempts < MaxAttempts /\ attempts' = attempts + 1
      /\ clientInfo' = clientInfo /\ sendQueue' = sendQueue /\ handleQueue' = handleQueue /\ goingExit' = goingExit
      /\ caller' = caller /\ inbox' = inbox /\ outbox' = outbox /\ granted' = granted
      /\ dropped' = dropped /\ forgotBy' = forgotBy
  BY DEF Attempt, history
<1>2. attempts' \in 0..MaxAttempts BY <1>1, Types, Numbers
<1>3. CASE hConnection' = hConnection /\ connState' = connState /\ callbacks' = callbacks /\ place' = place
  <2>1. place' \in Places \ {"run"} /\ place # "run" /\ place' # "sleep" BY <1>1, <1>3 DEF Places
  <2>2. GnsShrinks BY <1>0, <1>1, <1>3, SameShrinks
  <2> QED BY <1>1, <1>2, <1>3, <2>1, <2>2, Types, QuietStep
<1>4. ASSUME NEW h \in Handles, connState[h] = "None", \A g \in 1..(h - 1) : connState[g] # "None",
             hConnection' = h, ChangeState(h, "Connecting"), place' = "sleep"
      PROVE  ClientInv'
  <2>1. /\ connState \in [Handles -> ConnStates] /\ callbacks \in Seq([conn : Handles, state : ConnStates])
        /\ connState' = [connState EXCEPT ![h] = "Connecting"] /\ callbacks' = Append(callbacks, [conn |-> h, state |-> "Connecting"])
    BY <1>0, <1>4 DEF ClientTypeOK, ChangeState
  <2>2. "Connecting" \in ConnStates BY DEF ConnStates
  <2>3. connState' \in [Handles -> ConnStates] /\ callbacks' \in Seq([conn : Handles, state : ConnStates]) BY <2>1, <2>2
  <2>4. \A g \in Handles : connState'[g] = IF g = h THEN "Connecting" ELSE connState[g] BY <2>1
  <2>5. \A g \in Handles : (Opened(g)' <=> g = h \/ Opened(g)) BY <2>4 DEF Opened
  <2>6. h \in Nat /\ h # NoHandle /\ place' \in Places /\ place' # "run" BY <1>4, HandleNumbers DEF Places
  <2>7. ClientTypeOK' BY <1>0, <1>1, <1>2, <1>4, <2>3, <2>6, Zenon DEF ClientTypeOK
  <2>8. HandleInv'
    <3>1. ASSUME NEW x \in Handles, Opened(x)', NEW g \in 1..(x - 1) PROVE Opened(g)'
      <4>1. g \in Handles BY HandleNumbers, Numbers DEF Handles
      <4>2. CASE x = h BY <1>4, <2>5, <4>1, <4>2 DEF Opened
      <4>3. CASE x # h
        <5>1. Opened(x) BY <2>5, <3>1, <4>3
        <5>2. Opened(g) BY <5>1 DEF ClientInv, HandleInv
        <5> QED BY <2>5, <4>1, <5>2
      <4> QED BY <4>2, <4>3
    <3>2. ASSUME NEW x \in Handles, Opened(x)' PROVE x <= h
      <4>1. ASSUME x > h PROVE FALSE
        <5>1. Opened(x) BY <2>5, <2>6, <3>2, <4>1
        <5>2. h \in 1..(x - 1) BY <2>6, <4>1, HandleNumbers
        <5>3. Opened(h) BY <5>1, <5>2 DEF ClientInv, HandleInv
        <5> QED BY <1>4, <5>3 DEF Opened
      <4> QED BY <2>6, <4>1, HandleNumbers
    <3>3. connState'[h] # "None" BY <2>4
    <3>4. Opened(hConnection)' BY <1>4, <3>3 DEF Opened
    <3> QED BY <1>4, <2>6, <3>1, <3>2, <3>4 DEF HandleInv
  <2>9. MessagesInv' BY <1>1, <1>4, <2>4, <2>5 DEF ClientInv, MessagesInv
  <2>10. clientInfo.id \in {InvalidUserID} \cup Handles BY <1>0, MessageTypes DEF ClientTypeOK
  <2>11. QueueInv'
    <3>1. clientInfo.id # InvalidUserID => Opened(clientInfo.id)'
      <4>1. ASSUME clientInfo.id # InvalidUserID PROVE connState'[clientInfo.id] # "None"
        <5>1. Opened(clientInfo.id) /\ clientInfo.id \in Handles BY <2>10, <4>1 DEF ClientInv, QueueInv
        <5> QED BY <2>4, <5>1 DEF Opened
      <4> QED BY <1>1, <4>1 DEF Opened
    <3>2. ASSUME NEW id \in Handles, Opened(id) PROVE Opened(id)' BY <2>5, <3>2
    <3>3. ASSUME NEW k \in 1..Len(handleQueue.items), FromServer(k)
          PROVE  LET info == handleQueue.items[k] IN
                   /\ info.id \in Handles /\ connState'[info.id] # "None" /\ Granted(info, info.id, granted[info.id])
                   /\ clientInfo.id <= info.id
                   /\ \A j \in 1..k : FromServer(j) => handleQueue.items[j].id <= info.id
      BY <2>4, <3>3 DEF ClientInv, QueueInv, Opened
    <3>4. \A k : FromServer(k)' <=> FromServer(k) BY <1>1 DEF FromServer
    <3> QED BY <1>1, <3>1, <3>3, <3>4 DEF QueueInv, Opened
  <2>12. ActiveWasGranted'
    <3>1. clientInfo.id # h
      <4>1. clientInfo.id # InvalidUserID => Opened(clientInfo.id) BY DEF ClientInv, QueueInv
      <4>2. h # InvalidUserID BY HandleNumbers DEF InvalidUserID
      <4> QED BY <1>4, <4>1, <4>2 DEF Opened
    <3> QED BY <1>1, <1>4, <3>1 DEF ActiveWasGranted
  <2> QED BY <2>7, <2>8, <2>9, <2>11, <2>12 DEF ClientInv
<1> QED BY <1>3, <1>4 DEF Attempt

LEMMA ReceiveMessageInv == ClientInv /\ ReceiveMessage => ClientInv'
<1> SUFFICES ASSUME ClientInv, ReceiveMessage PROVE ClientInv'
    OBVIOUS
<1>0. ClientTypeOK BY Types
<1>1. PICK c \in Handles : c = hConnection BY Types DEF ReceiveMessage
<1>2. PICK m : m = Head(inbox[c]) OBVIOUS
<1>3. /\ place = "incoming" /\ inbox[c] # <<>>
      /\ handleQueue' \in {Push(handleQueue, m), handleQueue} /\ dropped' \in {dropped, dropped \cup {c}}
      /\ inbox' = [inbox EXCEPT ![c] = Tail(@)]
      /\ hConnection' = hConnection /\ clientInfo' = clientInfo /\ sendQueue' = sendQueue /\ goingExit' = goingExit /\ place' = place
      /\ caller' = caller /\ attempts' = attempts /\ connState' = connState /\ callbacks' = callbacks /\ outbox' = outbox /\ granted' = granted
      /\ forgotBy' = forgotBy
  BY <1>1, <1>2 DEF ReceiveMessage, Drop
<1>4. inbox \in [Handles -> Seq(Infos \cup {Farewell})] /\ handleQueue \in SafeQueues(Infos \cup {Farewell}) BY <1>0 DEF ClientTypeOK
<1>5. inbox[c] \in Seq(Infos \cup {Farewell}) BY <1>4
<1>6. m \in Infos \cup {Farewell} /\ Tail(inbox[c]) \in Seq(Infos \cup {Farewell}) BY <1>2, <1>3, <1>5, HeadAndTail
<1>7. PICK rest \in Seq(Infos \cup {Farewell}) : rest = Tail(inbox[c]) BY <1>6
<1>8. inbox' = [inbox EXCEPT ![c] = rest] BY <1>3, <1>7
<1>9. /\ handleQueue' \in SafeQueues(Infos \cup {Farewell})
      /\ handleQueue'.items \in {handleQueue.items, Append(handleQueue.items, m)}
  <2>1. Push(handleQueue, m) \in SafeQueues(Infos \cup {Farewell})
        /\ Push(handleQueue, m).items \in {handleQueue.items, Append(handleQueue.items, m)}
    BY <1>4, <1>6, QueueMethods
  <2> QED BY <1>3, <1>4, <2>1
<1>10. ClientTypeOK'
  <2>1. inbox' \in [Handles -> Seq(Infos \cup {Farewell})] BY <1>4, <1>8
  <2>2. dropped' \subseteq Handles BY <1>3, Types
  <2> QED BY <1>0, <1>3, <1>9, <2>1, <2>2, Zenon DEF ClientTypeOK
<1>11. HandleInv' BY <1>3 DEF ClientInv, HandleInv, Opened
<1>12. MessagesInv'
  <2>1. \A h \in Handles : Opened(h)' \/ inbox'[h] = <<>>
    <3>1. Opened(c) BY <1>3 DEF ClientInv, MessagesInv
    <3> QED BY <1>3, <1>4, <1>8, <3>1 DEF ClientInv, MessagesInv, Opened
  <2>2. ASSUME NEW h \in Handles, NEW k \in 1..Len(inbox'[h]) PROVE Granted(inbox'[h][k], h, granted[h])
    <3>1. CASE h # c BY <1>4, <1>8, <2>2, <3>1 DEF ClientInv, MessagesInv
    <3>2. CASE h = c
      <4>1. inbox'[h] = rest BY <1>4, <1>8, <3>2
      <4>2. k + 1 \in 1..Len(inbox[c]) /\ rest[k] = inbox[c][k + 1]
        <5>1. k \in 1..Len(rest) BY <2>2, <4>1
        <5> QED BY <1>3, <1>5, <1>7, <5>1, TailElements
      <4> QED BY <3>2, <4>1, <4>2 DEF ClientInv, MessagesInv
    <3> QED BY <3>1, <3>2
  <2>3. \A h \in Handles : connState'[h] \in {"None", "Connecting"} => granted'[h] = "Unauthorized"
    BY <1>3 DEF ClientInv, MessagesInv
  <2> QED BY <1>3, <2>1, <2>2, <2>3 DEF MessagesInv
<1>13. Granted(m, c, granted[c])
  <2>1. 1 \in 1..Len(inbox[c]) /\ m = inbox[c][1] BY <1>2, <1>3, <1>5
  <2> QED BY <2>1 DEF ClientInv, MessagesInv
<1>14. Opened(c) /\ \A h \in Handles : Opened(h) => h <= c
  BY <1>1, <1>3, HandleNumbers DEF ClientInv, HandleInv, Opened
<1>15. clientInfo.id <= c
  <2>1. clientInfo.id \in {InvalidUserID} \cup Handles BY <1>0, MessageTypes DEF ClientTypeOK
  <2>2. clientInfo.id # InvalidUserID => Opened(clientInfo.id) BY DEF ClientInv, QueueInv
  <2> QED BY <1>14, <2>1, <2>2, HandleNumbers DEF InvalidUserID
<1>16. QueueInv'
  <2> DEFINE items == handleQueue.items
  <2>1. items \in Seq(Infos \cup {Farewell}) BY <1>4 DEF SafeQueues
  <2>2. ASSUME NEW k \in 1..Len(handleQueue'.items), handleQueue'.items[k].state # "farewell"
        PROVE  LET info == handleQueue'.items[k] IN
                 /\ info.id \in Handles /\ Opened(info.id) /\ Granted(info, info.id, granted[info.id])
                 /\ clientInfo.id <= info.id
                 /\ \A j \in 1..k : handleQueue'.items[j].state # "farewell" => handleQueue'.items[j].id <= info.id
    <3>1. ASSUME k \in 1..Len(items), \A j \in 1..k : handleQueue'.items[j] = items[j]
          PROVE  LET info == items[k] IN
                   /\ info.id \in Handles /\ Opened(info.id) /\ Granted(info, info.id, granted[info.id])
                   /\ clientInfo.id <= info.id
                   /\ \A j \in 1..k : items[j].state # "farewell" => items[j].id <= info.id
      <4>1. FromServer(k) BY <2>2, <3>1 DEF FromServer
      <4> QED BY <3>1, <4>1 DEF ClientInv, QueueInv, FromServer
    <3>2. CASE k \in 1..Len(items)
      <4>1. \A j \in 1..Len(items) : handleQueue'.items[j] = items[j]
        <5>1. CASE handleQueue'.items = items BY <5>1
        <5>2. CASE handleQueue'.items = Append(items, m)
          <6>1. PICK longer : longer = Append(items, m) OBVIOUS
          <6>2. \A j \in 1..Len(items) : longer[j] = items[j] BY <1>6, <2>1, <6>1
          <6> QED BY <5>2, <6>1, <6>2
        <5> QED BY <1>9, <5>1, <5>2
      <4>2. \A j \in 1..k : j \in 1..Len(items) BY <2>1, <3>2
      <4> QED BY <3>1, <3>2, <4>1, <4>2
    <3>3. CASE k \notin 1..Len(items)
      <4>1. handleQueue'.items = Append(items, m) /\ k = Len(items) + 1 BY <1>6, <1>9, <2>1, <2>2, <3>3
      <4>2. handleQueue'.items[k] = m /\ \A j \in 1..Len(items) : handleQueue'.items[j] = items[j] BY <1>6, <2>1, <4>1
      <4>3. m.state # "farewell" /\ m.id = c BY <1>13, <2>2, <4>2 DEF Granted
      <4>4. ASSUME NEW j \in 1..Len(items), items[j].state # "farewell" PROVE items[j].id <= c
        <5>1. items[j].id \in Handles /\ Opened(items[j].id) BY <4>4 DEF ClientInv, QueueInv, FromServer
        <5> QED BY <1>14, <5>1
      <4>5. \A j \in 1..k : handleQueue'.items[j].state # "farewell" => handleQueue'.items[j].id <= c
        <5>1. c <= c BY HandleNumbers
        <5>2. \A j \in 1..k : j \in 1..Len(items) \/ j = k BY <2>1, <4>1
        <5> QED BY <4>2, <4>3, <4>4, <5>1, <5>2
      <4> QED BY <1>13, <1>14, <1>15, <4>2, <4>3, <4>5
    <3> QED BY <3>1, <3>2, <3>3
  <2>3. clientInfo.id # InvalidUserID => Opened(clientInfo.id) BY DEF ClientInv, QueueInv
  <2> QED BY <1>3, <2>2, <2>3 DEF QueueInv, FromServer, Opened
<1>17. ActiveWasGranted' BY <1>3 DEF ClientInv, ActiveWasGranted
<1> QED BY <1>10, <1>11, <1>12, <1>16, <1>17 DEF ClientInv

LEMMA HandleRequestInv == ClientInv /\ HandleRequest => ClientInv'
<1> SUFFICES ASSUME ClientInv, HandleRequest PROVE ClientInv'
    OBVIOUS
<1> DEFINE items == handleQueue.items
<1>0. ClientTypeOK BY Types
<1>1. PICK info : info = Front(handleQueue) OBVIOUS
<1>2. /\ ~IsEmpty(handleQueue) /\ handleQueue' = Pop(handleQueue)
      /\ hConnection' = hConnection /\ goingExit' = goingExit /\ place' = place
      /\ caller' = caller /\ attempts' = attempts /\ connState' = connState /\ callbacks' = callbacks
      /\ inbox' = inbox /\ outbox' = outbox /\ granted' = granted /\ forgotBy' = forgotBy
  BY DEF HandleRequest, gnsVars
<1>3. /\ handleQueue \in SafeQueues(Infos \cup {Farewell}) /\ sendQueue \in SafeQueues(Infos) /\ clientInfo \in Infos
      /\ hConnection \in {NoHandle} \cup Handles
  BY <1>0 DEF ClientTypeOK
<1>4. items \in Seq(Infos \cup {Farewell}) /\ items # <<>> BY <1>2, <1>3 DEF SafeQueues, IsEmpty
<1>5. /\ info \in Infos \cup {Farewell} /\ info = Head(items)
      /\ handleQueue' \in SafeQueues(Infos \cup {Farewell}) /\ handleQueue'.items = Tail(items)
  BY <1>1, <1>2, <1>3, QueuePop
<1>6. 1 \in 1..Len(items) /\ items[1] = info BY <1>4, <1>5
<1>7. /\ Len(handleQueue'.items) = Len(items) - 1 /\ Len(items) \in Nat
      /\ \A k \in 1..(Len(items) - 1) : k + 1 \in 1..Len(items) /\ handleQueue'.items[k] = items[k + 1]
  BY <1>4, <1>5, TailElements
<1>8. place # "run" BY DEF HandleRequest, RequestThreadRuns
<1>9. info.state # "farewell" =>
        info.id \in Handles /\ Opened(info.id) /\ Granted(info, info.id, granted[info.id]) /\ clientInfo.id <= info.id
  BY <1>6 DEF ClientInv, QueueInv, FromServer
<1>10. \/ info.state = "Unauthorized" /\ clientInfo' = info /\ Answer(info)
       \/ info.state = "Active" /\ clientInfo' = [id |-> clientInfo.id, state |-> "Active"] /\ sendQueue' = sendQueue
       \/ clientInfo' = clientInfo /\ sendQueue' = sendQueue
  BY <1>1 DEF HandleRequest, TakeInfo
<1>11. /\ clientInfo' \in Infos /\ sendQueue' \in SafeQueues(Infos)
       /\ clientInfo'.id # InvalidUserID => Opened(clientInfo'.id)
       /\ clientInfo'.id \in {clientInfo.id, info.id}
       /\ clientInfo'.id = info.id => info.state # "farewell" \/ clientInfo'.id = clientInfo.id
  <2>1. clientInfo.id # InvalidUserID => Opened(clientInfo.id) BY DEF ClientInv, QueueInv
  <2>2. CASE info.state = "Unauthorized" /\ clientInfo' = info /\ Answer(info)
    <3>1. info \in Infos BY <1>5, <2>2, MessageTypes
    <3>2. sendQueue' \in {Push(sendQueue, info), sendQueue} BY <2>2 DEF Answer
    <3>3. sendQueue' \in SafeQueues(Infos) BY <1>3, <3>1, <3>2, QueueMethods
    <3> QED BY <1>9, <2>2, <3>1, <3>3
  <2>3. CASE info.state = "Active" /\ clientInfo' = [id |-> clientInfo.id, state |-> "Active"] /\ sendQueue' = sendQueue
    <3>1. clientInfo.id \in {InvalidUserID} \cup Handles BY <1>3, MessageTypes
    <3>2. clientInfo' \in Infos /\ clientInfo'.id = clientInfo.id BY <2>3, <3>1 DEF Infos
    <3> QED BY <1>3, <2>1, <2>3, <3>2
  <2>4. CASE clientInfo' = clientInfo /\ sendQueue' = sendQueue
    BY <1>3, <2>1, <2>4
  <2> QED BY <1>10, <2>2, <2>3, <2>4
<1>12. ClientTypeOK'
  <2>1. dropped' \in {dropped, dropped \cup {info.id}} /\ (info.state = "farewell" => dropped' = dropped)
    BY <1>1, <1>5, MessageTypes DEF HandleRequest, TakeInfo, Answer, Drop
  <2>2. dropped' \subseteq Handles BY <1>9, <2>1, Types
  <2> QED BY <1>0, <1>2, <1>5, <1>11, <2>2, Zenon DEF ClientTypeOK
<1>13. HandleInv' BY <1>2, <1>8 DEF ClientInv, HandleInv, Opened
<1>14. MessagesInv' BY <1>2 DEF ClientInv, MessagesInv, Opened
<1>15. QueueInv'
  <2>1. ASSUME NEW k \in 1..Len(handleQueue'.items), handleQueue'.items[k].state # "farewell"
        PROVE  LET next == handleQueue'.items[k] IN
                 /\ next.id \in Handles /\ Opened(next.id) /\ Granted(next, next.id, granted[next.id])
                 /\ clientInfo'.id <= next.id
                 /\ \A j \in 1..k : handleQueue'.items[j].state # "farewell" => handleQueue'.items[j].id <= next.id
    <3> DEFINE next == handleQueue'.items[k]
    <3>1. k \in 1..(Len(items) - 1) /\ k + 1 \in 1..Len(items) /\ next = items[k + 1] BY <1>7, <2>1
    <3>2. FromServer(k + 1) BY <2>1, <3>1 DEF FromServer
    <3>3. /\ next.id \in Handles /\ Opened(next.id) /\ Granted(next, next.id, granted[next.id])
          /\ clientInfo.id <= next.id
          /\ \A j \in 1..(k + 1) : FromServer(j) => items[j].id <= next.id
      BY <3>1, <3>2 DEF ClientInv, QueueInv
    <3>4. info.state # "farewell" => info.id <= next.id
      <4>1. 1 \in 1..(k + 1) BY <3>1
      <4> QED BY <1>6, <3>3, <4>1 DEF FromServer
    <3>5. clientInfo'.id <= next.id BY <1>11, <3>3, <3>4
    <3>6. ASSUME NEW j \in 1..k, handleQueue'.items[j].state # "farewell" PROVE handleQueue'.items[j].id <= next.id
      <4>1. j \in 1..(Len(items) - 1) /\ j + 1 \in 1..(k + 1) BY <3>1
      <4>2. handleQueue'.items[j] = items[j + 1] BY <1>7, <4>1
      <4>3. FromServer(j + 1) BY <3>6, <4>2 DEF FromServer
      <4> QED BY <3>3, <4>1, <4>2, <4>3
    <3> QED BY <3>3, <3>5, <3>6
  <2> QED BY <1>2, <1>11, <2>1 DEF QueueInv, FromServer, Opened
<1>16. ActiveWasGranted'
  <2>1. ASSUME clientInfo'.state = "Active", clientInfo'.id = hConnection, hConnection # NoHandle
        PROVE  granted[hConnection] = "Active"
    <3>1. CASE info.state = "Active" /\ clientInfo' = [id |-> clientInfo.id, state |-> "Active"]
      <4>1. info.state # "farewell" /\ clientInfo.id = hConnection BY <2>1, <3>1
      <4>2. info.id <= hConnection BY <1>9, <2>1, <4>1 DEF ClientInv, HandleInv
      <4>3. info.id = hConnection BY <1>3, <1>9, <2>1, <4>1, <4>2, HandleNumbers
      <4> QED BY <1>9, <3>1, <4>1, <4>3 DEF Granted
    <3>2. CASE clientInfo' = clientInfo BY <2>1, <3>2 DEF ClientInv, ActiveWasGranted
    <3>3. CASE info.state = "Unauthorized" /\ clientInfo' = info BY <2>1, <3>3
    <3> QED BY <1>10, <3>1, <3>2, <3>3
  <2> QED BY <1>2, <2>1 DEF ActiveWasGranted
<1> QED BY <1>12, <1>13, <1>14, <1>15, <1>16 DEF ClientInv

-----------------------------------------------------------------------------
LEMMA ClientInvInit == Init => ClientInv
<1> SUFFICES ASSUME Init PROVE ClientInv
    OBVIOUS
<1>1. NewSafeQueue \in SafeQueues(Infos) /\ NewSafeQueue \in SafeQueues(Infos \cup {Farewell}) /\ NewSafeQueue.items = <<>>
  BY DEF NewSafeQueue, SafeQueues
<1>2. /\ hConnection \in {NoHandle} \cup Handles /\ clientInfo = [id |-> InvalidUserID, state |-> "Unauthorized"]
      /\ sendQueue = NewSafeQueue /\ handleQueue = NewSafeQueue /\ goingExit = TRUE
      /\ place = "run" /\ caller = "Run" /\ attempts = 0 /\ callbacks = <<>>
      /\ connState = [h \in Handles |-> "None"] /\ inbox = [h \in Handles |-> <<>>] /\ outbox = [h \in Handles |-> <<>>]
      /\ granted = [h \in Handles |-> "Unauthorized"]
      /\ dropped = {} /\ forgotBy = [h \in Handles |-> NoHandle]
  BY DEF Init
<1>3. clientInfo \in Infos BY <1>2 DEF Infos
<1>4. /\ connState \in [Handles -> ConnStates] /\ granted \in [Handles -> {"Unauthorized", "Active"}]
      /\ inbox \in [Handles -> Seq(Infos \cup {Farewell})] /\ outbox \in [Handles -> Seq(Infos)]
      /\ callbacks \in Seq([conn : Handles, state : ConnStates])
      /\ dropped \subseteq Handles /\ forgotBy \in [Handles -> Handles \cup {NoHandle}]
  BY <1>2 DEF ConnStates
<1>5. goingExit \in BOOLEAN /\ place \in Places /\ caller \in {"Run", "callback"} /\ place # "sleep" BY <1>2, Zenon DEF Places
<1>6. ClientTypeOK BY <1>1, <1>2, <1>3, <1>4, <1>5, ZeroAttempts, Zenon DEF ClientTypeOK
<1>7. HandleInv BY <1>1, <1>2 DEF HandleInv, Opened
<1>8. MessagesInv BY <1>2 DEF MessagesInv
<1>9. QueueInv BY <1>1, <1>2 DEF QueueInv
<1>10. ActiveWasGranted BY <1>2 DEF ActiveWasGranted
<1> QED BY <1>6, <1>7, <1>8, <1>9, <1>10 DEF ClientInv

LEMMA ClientInvNext == ClientInv /\ [Next]_vars => ClientInv'
<1> SUFFICES ASSUME ClientInv, [Next]_vars PROVE ClientInv'
    OBVIOUS
<1>1. CASE RunConnects BY <1>1, RunConnectsInv
<1>2. CASE ConnStep
  <2>1. CASE ConnectStep BY <2>1, AttemptInv, ConnectStepInv DEF ConnectStep
  <2>2. CASE CallbackStep BY <2>2, CallbackStepInv
  <2>3. CASE LoopStep BY <2>3, MoveInv, ReceiveMessageInv, SendQueuedInv DEF LoopStep
  <2> QED BY <1>2, <2>1, <2>2, <2>3 DEF ConnStep
<1>3. CASE HandleRequest \/ UserCloses BY <1>3, HandleRequestInv, UserClosesInv
<1>4. ASSUME NEW h \in Handles, ServerAccepts(h) \/ ServerHandlesInfo(h) \/ ServerCloses(h) \/ ConnectionFails(h)
      PROVE  ClientInv'
  BY <1>4, ServerAcceptsInv, ServerHandlesInfoInv, ConnectionEndsInv
<1>5. CASE UNCHANGED vars BY <1>5, StutterInv
<1> QED BY <1>1, <1>2, <1>3, <1>4, <1>5 DEF Next

LEMMA ClientInvHolds == Spec => []ClientInv
BY ClientInvInit, ClientInvNext, PTL DEF Spec

(* Every variable of a client and of what it is connected to has its type, *)
(* over any number of connections, reconnections and runs.                 *)
THEOREM ClientTypeCorrect == Spec => []ClientTypeOK
<1>1. ClientInv => ClientTypeOK BY DEF ClientInv
<1> QED BY <1>1, ClientInvHolds, PTL

(* A client Active under the id of its connection is Active for the        *)
(* server, whatever callbacks and answers of earlier connections are still *)
(* to come (ChatClient.cpp:252-268).                                       *)
THEOREM ActiveIsGranted == Spec => []ActiveWasGranted
<1>1. ClientInv => ActiveWasGranted BY DEF ClientInv
<1> QED BY <1>1, ClientInvHolds, PTL

-----------------------------------------------------------------------------
(* A step that keeps the connection and starts no poll.                    *)
PollStep ==
  \/ place' \notin Polls /\ place' # "sleep"
  \/ goingExit' /\ place' # "sleep"
  \/ hConnection' # NoHandle
  \/ hConnection' = hConnection /\ place' = place /\ goingExit' = goingExit
  \/ hConnection' = hConnection /\ place \in Polls /\ place' \in Polls /\ goingExit' = goingExit

LEMMA PollStepInv ==
  ASSUME PollInv, PollStep
  PROVE  PollInv'
<1>1. ASSUME place' \in Polls, ~goingExit' PROVE hConnection' # NoHandle
  <2>1. CASE hConnection' = hConnection /\ place' = place /\ goingExit' = goingExit
    BY <1>1, <2>1 DEF PollInv
  <2>2. CASE hConnection' = hConnection /\ place \in Polls /\ place' \in Polls /\ goingExit' = goingExit
    BY <1>1, <2>2 DEF PollInv
  <2> QED BY <1>1, <2>1, <2>2 DEF PollStep
<1>2. ASSUME place' = "sleep" PROVE hConnection' # NoHandle
  <2>1. "sleep" \notin Polls BY DEF Polls
  <2> QED BY <1>2, <2>1 DEF PollStep, PollInv
<1> QED BY <1>1, <1>2 DEF PollInv

LEMMA PollInvInit == Init => PollInv
BY DEF Init, PollInv, Polls

LEMMA PollInvNext == PollInv /\ [Next]_vars => PollInv'
<1> SUFFICES ASSUME PollInv, [Next]_vars PROVE PollInv'
    OBVIOUS
<1> SUFFICES PollStep
    BY PollStepInv
<1> USE DEF PollStep, Polls
<1>1. CASE RunConnects BY <1>1 DEF RunConnects, Connect
<1>2. CASE Attempt
  <2>1. ASSUME NEW h \in Handles, hConnection' = h PROVE hConnection' # NoHandle BY <2>1, HandleNumbers
  <2>2. CASE UNCHANGED <<hConnection, connState, callbacks, place>> BY <1>2, <2>2 DEF Attempt
  <2> QED BY <1>2, <2>1, <2>2 DEF Attempt
<1>3. CASE Succeeds
  <2>1. hConnection' = hConnection /\ place = "sleep" BY <1>3 DEF Succeeds
  <2>2. hConnection' # NoHandle BY <2>1 DEF PollInv
  <2> QED BY <2>2
<1>4. CASE AttemptFails BY <1>4 DEF AttemptFails
<1>5. CASE GiveUp BY <1>5 DEF GiveUp, CloseSocket
<1>6. CASE OnClosedByPeer
  <2>1. goingExit' /\ place' = place /\ place = "callbacks" BY <1>6 DEF OnClosedByPeer, CloseSocket, NextCallback
  <2> QED BY <2>1
<1>7. CASE OnProblem BY <1>7 DEF OnProblem, Connect
<1>8. CASE OnOther BY <1>8 DEF OnOther, clientVars
<1>9. CASE ThreadEnds BY <1>9 DEF ThreadEnds, Goto
<1>10. CASE Top \/ CallbacksDone \/ QueuedDone BY <1>10 DEF Top, CallbacksDone, QueuedDone, Goto
<1>11. CASE IncomingDone
  <2>1. hConnection' = hConnection /\ place = "incoming" /\ place' = "queued" BY <1>11 DEF IncomingDone, Goto
  <2>2. CASE goingExit' = goingExit BY <2>1, <2>2
  <2>3. CASE goingExit' = TRUE BY <2>1, <2>3
  <2> QED BY <1>11, <2>2, <2>3 DEF IncomingDone, CloseSocket, KeepSocket
<1>12. CASE ReceiveMessage \/ SendQueued \/ HandleRequest BY <1>12 DEF ReceiveMessage, SendQueued, HandleRequest
<1>13. CASE UserCloses
  <2>1. goingExit' = TRUE /\ hConnection' = hConnection /\ place' = place BY <1>13 DEF UserCloses, CloseSocket
  <2>2. CASE place = "sleep" BY <2>1, <2>2 DEF PollInv
  <2> QED BY <2>1, <2>2
<1>14. ASSUME NEW h \in Handles, ServerAccepts(h) \/ ServerHandlesInfo(h) \/ ServerCloses(h) \/ ConnectionFails(h)
       PROVE  PollStep
  BY <1>14 DEF ServerAccepts, ServerHandlesInfo, ServerCloses, ConnectionFails, clientVars
<1>15. CASE UNCHANGED vars BY <1>15 DEF vars, clientVars
<1> QED
  BY <1>1, <1>2, <1>3, <1>4, <1>5, <1>6, <1>7, <1>8, <1>9, <1>10, <1>11, <1>12, <1>13, <1>14, <1>15
  DEF Next, ConnStep, ConnectStep, CallbackStep, LoopStep

(* Whoever closes the socket, and however the attempts to reconnect go,    *)
(* the polls of a running client find a connection: the FatalError at      *)
(* ChatClient.cpp:165 is never reached.                                    *)
THEOREM PollsAreConnected == Spec => []PollsHaveConnection
<1>1. PollInv => PollsHaveConnection BY DEF PollInv, Polls, PollsHaveConnection
<1> QED BY <1>1, PollInvInit, PollInvNext, PTL DEF Spec

-----------------------------------------------------------------------------

-----------------------------------------------------------------------------
(* A connection is forgotten by a late report only: each end is reported   *)
(* once, and the report of an end makes the client forget at most the      *)
(* connection it has then, opened after the one the report is about.       *)
Reports == [conn : Handles, state : ConnStates]

IsEnd(report) == report.state \in {"ClosedByPeer", "Problem"}

Ended(h) == connState[h] \in {"ClosedByPeer", "Problem", "Released"}

EndReportedOnce ==
  \A i, j \in 1..Len(callbacks) :
    IsEnd(callbacks[i]) /\ IsEnd(callbacks[j]) /\ callbacks[i].conn = callbacks[j].conn => i = j

ReportsAreTrue ==
  \A i \in 1..Len(callbacks) :
    IsEnd(callbacks[i]) =>
      /\ Ended(callbacks[i].conn)
      /\ \A h \in Handles : forgotBy[h] # callbacks[i].conn

ForgetInv ==
  /\ ForgottenByLateReport /\ EndReportedOnce /\ ReportsAreTrue
  /\ \A h \in Handles : forgotBy[h] # NoHandle => connState[forgotBy[h]] = "Released"
  /\ place = "attempt" => hConnection = NoHandle

(* Reports are taken from the front, dropped, or added when they are of no *)
(* end.                                                                    *)
NoNewEnd(s, t) ==
  \/ t = s \/ t = <<>> \/ (s # <<>> /\ t = Tail(s))
  \/ \E c \in Reports : t = Append(s, c) /\ ~IsEnd(c)

LEMMA NoNewEndElements ==
  ASSUME NEW s \in Seq(Reports), NEW t, NoNewEnd(s, t)
  PROVE  \/ \A i \in 1..Len(t) : IsEnd(t[i]) => i \in 1..Len(s) /\ t[i] = s[i]
         \/ \A i \in 1..Len(t) : IsEnd(t[i]) => i + 1 \in 1..Len(s) /\ t[i] = s[i + 1]
<1>1. CASE t = s BY <1>1
<1>2. CASE t = <<>> BY <1>2
<1>3. CASE s # <<>> /\ t = Tail(s)
  <2>1. /\ Len(t) = Len(s) - 1 /\ Len(s) \in Nat
        /\ \A k \in 1..(Len(s) - 1) : k + 1 \in 1..Len(s) /\ t[k] = s[k + 1]
    BY <1>3, TailElements
  <2> QED BY <2>1
<1>4. ASSUME NEW c \in Reports, t = Append(s, c), ~IsEnd(c)
      PROVE  \A i \in 1..Len(t) : IsEnd(t[i]) => i \in 1..Len(s) /\ t[i] = s[i]
  <2>1. Len(t) = Len(s) + 1 /\ t[Len(s) + 1] = c /\ \A k \in 1..Len(s) : t[k] = s[k] BY <1>4, AppendElements
  <2>2. ASSUME NEW i \in 1..Len(t), IsEnd(t[i]) PROVE i \in 1..Len(s) /\ t[i] = s[i]
    <3>1. i # Len(s) + 1 BY <1>4, <2>1, <2>2
    <3>2. i \in 1..Len(s) BY <2>1, <3>1
    <3> QED BY <2>1, <3>2
  <2> QED BY <2>2
<1> QED BY <1>1, <1>2, <1>3, <1>4 DEF NoNewEnd

(* What a step that ends no connection leaves of the reports.              *)
LEMMA ReportsKept ==
  ASSUME ClientTypeOK, EndReportedOnce, NoNewEnd(callbacks, callbacks')
  PROVE  /\ EndReportedOnce'
         /\ \A i \in 1..Len(callbacks') : IsEnd(callbacks'[i]) =>
              \E k \in 1..Len(callbacks) : callbacks'[i] = callbacks[k]
<1>1. callbacks \in Seq(Reports) BY DEF ClientTypeOK, Reports
<1>2. CASE \A i \in 1..Len(callbacks') : IsEnd(callbacks'[i]) => i \in 1..Len(callbacks) /\ callbacks'[i] = callbacks[i]
  BY <1>2 DEF EndReportedOnce
<1>3. CASE \A i \in 1..Len(callbacks') : IsEnd(callbacks'[i]) =>
             i + 1 \in 1..Len(callbacks) /\ callbacks'[i] = callbacks[i + 1]
  <2>1. ASSUME NEW i \in 1..Len(callbacks'), NEW j \in 1..Len(callbacks'), IsEnd(callbacks'[i]), IsEnd(callbacks'[j]),
               callbacks'[i].conn = callbacks'[j].conn
        PROVE  i = j
    <3>1. i + 1 = j + 1 BY <1>3, <2>1 DEF EndReportedOnce
    <3> QED BY <3>1
  <2> QED BY <1>3, <2>1 DEF EndReportedOnce
<1> QED BY <1>1, <1>2, <1>3, NoNewEndElements

(* A step that neither opens nor ends a connection and forgets none.       *)
KeepingStep ==
  /\ NoNewEnd(callbacks, callbacks') /\ forgotBy' = forgotBy
  /\ \A h \in Handles : /\ Ended(h) => connState'[h] \in {"ClosedByPeer", "Problem", "Released"}
                        /\ connState[h] = "Released" => connState'[h] = "Released"
                        /\ connState'[h] \notin {"None", "Released"} => Alive(h)
  /\ \/ hConnection' = hConnection
     \/ \A h \in Handles : h = hConnection => connState'[h] \in {"None", "Released"}
  /\ place' = "attempt" => hConnection' = NoHandle \/ (place = "attempt" /\ hConnection' = hConnection)

LEMMA KeepingStepInv ==
  ASSUME ClientTypeOK, ForgetInv, KeepingStep
  PROVE  ForgetInv'
<1>0. /\ callbacks \in Seq(Reports) /\ forgotBy \in [Handles -> Handles \cup {NoHandle}]
      /\ \A h \in Handles : h # NoHandle
  BY HandleNumbers DEF ClientTypeOK, Reports
<1>1. EndReportedOnce' /\ \A i \in 1..Len(callbacks') : IsEnd(callbacks'[i]) => \E k \in 1..Len(callbacks) : callbacks'[i] = callbacks[k]
  BY ReportsKept DEF KeepingStep, ForgetInv
<1>2. ReportsAreTrue'
  <2>1. ASSUME NEW i \in 1..Len(callbacks'), IsEnd(callbacks'[i])
        PROVE  /\ connState'[callbacks'[i].conn] \in {"ClosedByPeer", "Problem", "Released"}
               /\ \A h \in Handles : forgotBy[h] # callbacks'[i].conn
    <3>1. PICK k \in 1..Len(callbacks) : callbacks'[i] = callbacks[k] BY <1>1, <2>1
    <3>2. callbacks[k] \in Reports BY <1>0
    <3>3. callbacks[k].conn \in Handles BY <3>2 DEF Reports
    <3>4. Ended(callbacks[k].conn) /\ \A h \in Handles : forgotBy[h] # callbacks[k].conn
      BY <2>1, <3>1 DEF ForgetInv, ReportsAreTrue
    <3> QED BY <3>1, <3>3, <3>4 DEF KeepingStep
  <2> QED BY <2>1 DEF ReportsAreTrue, Ended, KeepingStep
<1>3. \A h \in Handles : forgotBy[h] # NoHandle => connState'[forgotBy[h]] = "Released"
  BY <1>0 DEF ForgetInv, KeepingStep
<1>4. ForgottenByLateReport'
  <2>1. ASSUME NEW h \in Handles, connState'[h] \notin {"None", "Released"}, h # hConnection'
        PROVE  forgotBy[h] \in 1..(h - 1) /\ connState'[forgotBy[h]] = "Released"
    <3>1. Alive(h) /\ h # hConnection BY <2>1 DEF KeepingStep
    <3>2. forgotBy[h] \in 1..(h - 1) BY <3>1 DEF ForgetInv, ForgottenByLateReport
    <3>3. forgotBy[h] # NoHandle BY <3>2 DEF NoHandle
    <3> QED BY <1>3, <3>2, <3>3
  <2>2. \A g, h \in Handles : g # h /\ forgotBy[g] # NoHandle => forgotBy[g] # forgotBy[h]
    BY DEF ForgetInv, ForgottenByLateReport
  <2> QED BY <2>1, <2>2 DEF ForgottenByLateReport, Alive, KeepingStep
<1>5. place' = "attempt" => hConnection' = NoHandle BY DEF ForgetInv, KeepingStep
<1> QED BY <1>1, <1>2, <1>3, <1>4, <1>5 DEF ForgetInv, KeepingStep

(* What closing a connection does to the states of all.                    *)
LEMMA CloseLeaves ==
  ASSUME ClientTypeOK, NEW c, CloseConnection(c)
  PROVE  \A h \in Handles :
           /\ connState'[h] \in {connState[h], "Released"}
           /\ connState[h] = "None" => connState'[h] = "None"
           /\ h = c => connState'[h] \in {"None", "Released"}
           /\ h = c /\ connState[h] # "None" => connState'[h] = "Released"
BY DEF ClientTypeOK, CloseConnection, Alive

LEMMA ClosingKeeps ==
  ASSUME ClientTypeOK, CloseConnection(hConnection), hConnection' = NoHandle, callbacks' = callbacks, forgotBy' = forgotBy
  PROVE  KeepingStep
<1>1. \A h \in Handles :
        /\ connState'[h] \in {connState[h], "Released"}
        /\ connState[h] = "None" => connState'[h] = "None"
        /\ h = hConnection => connState'[h] \in {"None", "Released"}
  BY CloseLeaves
<1> QED BY <1>1 DEF KeepingStep, NoNewEnd, Ended, Alive

(* A new connection is opened when the client has none.                    *)
LEMMA AttemptForgets ==
  ASSUME ClientInv, ForgetInv, Attempt
  PROVE  ForgetInv'
<1>0. ClientTypeOK /\ place = "attempt" /\ forgotBy' = forgotBy BY Types DEF Attempt, history
<1>1. hConnection = NoHandle BY <1>0 DEF ForgetInv
<1>2. ASSUME NEW h \in Handles, connState[h] = "None", hConnection' = h, ChangeState(h, "Connecting"), place' = "sleep"
      PROVE  ForgetInv'
  <2>1. /\ connState \in [Handles -> ConnStates] /\ callbacks \in Seq(Reports)
        /\ forgotBy \in [Handles -> Handles \cup {NoHandle}] /\ \A g \in Handles : g # NoHandle
    BY <1>0, HandleNumbers DEF ClientTypeOK, Reports
  <2>2. connState' = [connState EXCEPT ![h] = "Connecting"] /\ callbacks' = Append(callbacks, [conn |-> h, state |-> "Connecting"])
    BY <1>2 DEF ChangeState
  <2>3. [conn |-> h, state |-> "Connecting"] \in Reports /\ ~IsEnd([conn |-> h, state |-> "Connecting"])
    BY DEF Reports, ConnStates, IsEnd
  <2>4. NoNewEnd(callbacks, callbacks') BY <2>2, <2>3 DEF NoNewEnd
  <2>5. EndReportedOnce' /\ \A i \in 1..Len(callbacks') : IsEnd(callbacks'[i]) => \E k \in 1..Len(callbacks) : callbacks'[i] = callbacks[k]
    BY <1>0, <2>4, ReportsKept DEF ForgetInv
  <2>6. \A g \in Handles : connState'[g] = IF g = h THEN "Connecting" ELSE connState[g] BY <2>1, <2>2
  <2>7. ReportsAreTrue'
    <3>1. ASSUME NEW i \in 1..Len(callbacks'), IsEnd(callbacks'[i])
          PROVE  /\ connState'[callbacks'[i].conn] \in {"ClosedByPeer", "Problem", "Released"}
                 /\ \A g \in Handles : forgotBy[g] # callbacks'[i].conn
      <4>1. PICK k \in 1..Len(callbacks) : callbacks'[i] = callbacks[k] BY <2>5, <3>1
      <4>2. callbacks[k] \in Reports BY <2>1
      <4>3. callbacks[k].conn \in Handles BY <4>2 DEF Reports
      <4>4. Ended(callbacks[k].conn) /\ \A g \in Handles : forgotBy[g] # callbacks[k].conn
        BY <3>1, <4>1 DEF ForgetInv, ReportsAreTrue
      <4> QED BY <1>2, <2>6, <4>1, <4>3, <4>4 DEF Ended
    <3> QED BY <1>0, <3>1 DEF ReportsAreTrue, Ended
  <2>8. \A g \in Handles : forgotBy[g] # NoHandle => connState'[forgotBy[g]] = "Released"
    BY <1>2, <2>1, <2>6 DEF ForgetInv
  <2>9. ForgottenByLateReport'
    <3>1. ASSUME NEW g \in Handles, connState'[g] \notin {"None", "Released"}, g # h
          PROVE  forgotBy[g] \in 1..(g - 1) /\ connState'[forgotBy[g]] = "Released"
      <4>1. Alive(g) /\ g # hConnection BY <1>1, <2>1, <2>6, <3>1 DEF Alive
      <4>2. forgotBy[g] \in 1..(g - 1) BY <4>1 DEF ForgetInv, ForgottenByLateReport
      <4>3. forgotBy[g] # NoHandle BY <4>2 DEF NoHandle
      <4> QED BY <2>8, <4>2, <4>3
    <3>2. \A g, x \in Handles : g # x /\ forgotBy[g] # NoHandle => forgotBy[g] # forgotBy[x]
      BY DEF ForgetInv, ForgottenByLateReport
    <3> QED BY <1>0, <1>2, <3>1, <3>2 DEF ForgottenByLateReport, Alive
  <2> QED BY <1>0, <1>2, <2>5, <2>7, <2>8, <2>9 DEF ForgetInv
<1>3. CASE UNCHANGED <<hConnection, connState, callbacks, place>>
  <2>1. KeepingStep BY <1>0, <1>3 DEF KeepingStep, NoNewEnd, Ended, Alive
  <2> QED BY <1>0, <2>1, KeepingStepInv
<1> QED BY <1>2, <1>3 DEF Attempt

(* The peer or the network ends a connection: it is reported for the first *)
(* time, and no report about it has come.                                  *)
LEMMA EndingForgets ==
  ASSUME ClientInv, ForgetInv, NEW c \in Handles, ServerCloses(c) \/ ConnectionFails(c)
  PROVE  ForgetInv'
<1>0. /\ ClientTypeOK /\ callbacks \in Seq(Reports) /\ connState \in [Handles -> ConnStates]
      /\ forgotBy \in [Handles -> Handles \cup {NoHandle}] /\ \A g \in Handles : g # NoHandle
  BY Types, HandleNumbers DEF ClientTypeOK, Reports
<1>1. PICK state \in {"ClosedByPeer", "Problem"} :
        /\ connState[c] \in {"Connecting", "Connected"}
        /\ connState' = [connState EXCEPT ![c] = state]
        /\ callbacks' = Append(callbacks, [conn |-> c, state |-> state])
  BY DEF ServerCloses, ConnectionFails, ChangeState
<1>2. UNCHANGED <<hConnection, place, forgotBy>> BY DEF ServerCloses, ConnectionFails, clientVars, history
<1>3. \A g \in Handles : connState'[g] = IF g = c THEN state ELSE connState[g] BY <1>0, <1>1
<1>4. \A g \in Handles : forgotBy[g] # c
  BY <1>0, <1>1 DEF ForgetInv
<1>5. [conn |-> c, state |-> state] \in Reports BY DEF Reports, ConnStates
<1>6. /\ Len(callbacks') = Len(callbacks) + 1 /\ Len(callbacks) \in Nat
      /\ callbacks'[Len(callbacks) + 1] = [conn |-> c, state |-> state]
      /\ \A k \in 1..Len(callbacks) : callbacks'[k] = callbacks[k]
  BY <1>0, <1>1, <1>5, AppendElements
<1>7. \A i \in 1..Len(callbacks') :
        \/ i \in 1..Len(callbacks) /\ callbacks'[i] = callbacks[i]
        \/ i = Len(callbacks) + 1 /\ callbacks'[i].conn = c
  BY <1>6
<1>8. \A i \in 1..Len(callbacks) : IsEnd(callbacks[i]) => callbacks[i].conn # c
  BY <1>1 DEF ForgetInv, ReportsAreTrue, Ended
<1>9. EndReportedOnce'
  <2>1. ASSUME NEW i \in 1..Len(callbacks'), NEW j \in 1..Len(callbacks'), IsEnd(callbacks'[i]), IsEnd(callbacks'[j]),
               callbacks'[i].conn = callbacks'[j].conn
        PROVE  i = j
    <3>1. CASE i \in 1..Len(callbacks) /\ j \in 1..Len(callbacks) BY <1>6, <2>1, <3>1 DEF ForgetInv, EndReportedOnce
    <3>2. CASE i \notin 1..Len(callbacks) \/ j \notin 1..Len(callbacks) BY <1>7, <1>8, <2>1, <3>2
    <3> QED BY <3>1, <3>2
  <2> QED BY <2>1 DEF EndReportedOnce
<1>10. ReportsAreTrue'
  <2>1. ASSUME NEW i \in 1..Len(callbacks'), IsEnd(callbacks'[i])
        PROVE  /\ connState'[callbacks'[i].conn] \in {"ClosedByPeer", "Problem", "Released"}
               /\ \A h \in Handles : forgotBy[h] # callbacks'[i].conn
    <3>1. CASE i \in 1..Len(callbacks)
      <4>1. callbacks'[i] = callbacks[i] /\ callbacks[i] \in Reports BY <1>0, <1>6, <3>1
      <4>2. callbacks[i].conn \in Handles BY <4>1 DEF Reports
      <4>3. Ended(callbacks[i].conn) /\ \A h \in Handles : forgotBy[h] # callbacks[i].conn
        BY <2>1, <3>1, <4>1 DEF ForgetInv, ReportsAreTrue
      <4> QED BY <1>3, <4>1, <4>2, <4>3 DEF Ended
    <3>2. CASE callbacks'[i].conn = c BY <1>3, <1>4, <3>2
    <3> QED BY <1>7, <3>1, <3>2
  <2> QED BY <1>2, <2>1 DEF ReportsAreTrue, Ended
<1>11. ForgottenByLateReport'
  BY <1>0, <1>1, <1>2, <1>3, <1>4 DEF ForgetInv, ForgottenByLateReport, Alive
<1>12. \A h \in Handles : forgotBy[h] # NoHandle => connState'[forgotBy[h]] = "Released"
  BY <1>0, <1>3, <1>4 DEF ForgetInv
<1> QED BY <1>2, <1>9, <1>10, <1>11, <1>12 DEF ForgetInv

(* A report of an end is taken: the connection it is about is released; if *)
(* the client has another one, opened later, that is what it forgets.      *)
LEMMA ReportForgets ==
  ASSUME ClientInv, ForgetInv, NEW state \in {"ClosedByPeer", "Problem"}, NextCallback(state),
         CloseConnection(Head(callbacks).conn), LoseConnection
  PROVE  ForgetInv'
<1>0. /\ ClientTypeOK /\ callbacks \in Seq(Reports) /\ forgotBy \in [Handles -> Handles \cup {NoHandle}]
      /\ hConnection \in {NoHandle} \cup Handles /\ connState \in [Handles -> ConnStates]
      /\ \A g \in Handles : g # NoHandle
  BY Types, HandleNumbers DEF ClientTypeOK, Reports
<1>1. callbacks # <<>> /\ callbacks' = Tail(callbacks) /\ place = "callbacks" /\ Head(callbacks).state = state
  BY DEF NextCallback
<1>2. PICK c \in Handles : c = Head(callbacks).conn BY <1>0, NextCallbackIs
<1>3. IsEnd(Head(callbacks)) /\ Head(callbacks) = callbacks[1] /\ 1 \in 1..Len(callbacks) BY <1>0, <1>1 DEF IsEnd
<1>4. Ended(c) /\ \A g \in Handles : forgotBy[g] # c BY <1>2, <1>3 DEF ForgetInv, ReportsAreTrue
<1>5. /\ hConnection' = NoHandle
      /\ forgotBy' = [h \in Handles |-> IF h = hConnection /\ h # c THEN c ELSE forgotBy[h]]
  BY <1>2 DEF LoseConnection
<1>6. \A h \in Handles :
        /\ connState'[h] \in {connState[h], "Released"}
        /\ connState[h] = "None" => connState'[h] = "None"
        /\ h = c => connState'[h] = "Released"
  BY <1>0, <1>2, <1>4, CloseLeaves DEF Ended
<1>7. \A k \in 1..Len(callbacks') : k + 1 \in 1..Len(callbacks) /\ callbacks'[k] = callbacks[k + 1] /\ k + 1 # 1
  BY <1>0, <1>1, TailElements
<1>8. NoNewEnd(callbacks, callbacks') BY <1>1 DEF NoNewEnd
<1>9. EndReportedOnce' BY <1>0, <1>8, ReportsKept DEF ForgetInv
<1>10. ReportsAreTrue'
  <2>1. ASSUME NEW i \in 1..Len(callbacks'), IsEnd(callbacks'[i])
        PROVE  /\ connState'[callbacks'[i].conn] \in {"ClosedByPeer", "Problem", "Released"}
               /\ \A h \in Handles : forgotBy'[h] # callbacks'[i].conn
    <3>1. PICK k \in 1..Len(callbacks) : k # 1 /\ callbacks'[i] = callbacks[k] BY <1>7
    <3>2. callbacks[k] \in Reports BY <1>0
    <3>3. callbacks[k].conn \in Handles BY <3>2 DEF Reports
    <3>4. Ended(callbacks[k].conn) /\ \A h \in Handles : forgotBy[h] # callbacks[k].conn
      BY <2>1, <3>1 DEF ForgetInv, ReportsAreTrue
    <3>5. callbacks[k].conn # c BY <1>2, <1>3, <2>1, <3>1 DEF ForgetInv, EndReportedOnce
    <3> QED BY <1>5, <1>6, <3>1, <3>3, <3>4, <3>5 DEF Ended
  <2> QED BY <2>1 DEF ReportsAreTrue, Ended
<1>11. \A h \in Handles : forgotBy'[h] # NoHandle => connState'[forgotBy'[h]] = "Released"
  <2>1. ASSUME NEW h \in Handles, forgotBy[h] # NoHandle PROVE connState'[forgotBy[h]] = "Released"
    BY <1>0, <1>6, <2>1 DEF ForgetInv
  <2> QED BY <1>5, <1>6, <2>1
<1>12. ASSUME hConnection # NoHandle, hConnection # c PROVE c \in 1..(hConnection - 1)
  <2>1. Opened(c) BY <1>4 DEF Ended, Opened
  <2>2. c <= hConnection BY <1>1, <1>12, <2>1 DEF ClientInv, HandleInv
  <2> QED BY <1>0, <1>12, <2>2, HandleNumbers
<1>13. ForgottenByLateReport'
  <2>1. ASSUME NEW h \in Handles, connState'[h] \notin {"None", "Released"}
        PROVE  forgotBy'[h] \in 1..(h - 1)
    <3>1. Alive(h) /\ h # c BY <1>6, <2>1 DEF Alive
    <3>2. CASE h = hConnection BY <1>0, <1>5, <1>12, <3>1, <3>2
    <3>3. CASE h # hConnection
      <4>1. forgotBy[h] \in 1..(h - 1) BY <3>1, <3>3 DEF ForgetInv, ForgottenByLateReport
      <4> QED BY <1>5, <3>3, <4>1
    <3> QED BY <3>2, <3>3
  <2>2. ASSUME NEW h \in Handles, forgotBy'[h] \in 1..(h - 1) PROVE connState'[forgotBy'[h]] = "Released"
    BY <1>11, <2>2 DEF NoHandle
  <2>3. ASSUME NEW g \in Handles, NEW h \in Handles, g # h, forgotBy'[g] # NoHandle PROVE forgotBy'[g] # forgotBy'[h]
    BY <1>2, <1>4, <1>5, <2>3 DEF ForgetInv, ForgottenByLateReport
  <2> QED BY <2>1, <2>2, <2>3 DEF ForgottenByLateReport, Alive
<1>14. hConnection' = NoHandle BY <1>5
<1> QED BY <1>9, <1>10, <1>11, <1>13, <1>14 DEF ForgetInv

LEMMA ConnectForgets ==
  ASSUME ClientInv, ForgetInv, RunConnects \/ Succeeds \/ AttemptFails \/ GiveUp \/ ThreadEnds
  PROVE  ForgetInv'
<1>0. ClientTypeOK BY Types
<1> SUFFICES KeepingStep BY <1>0, KeepingStepInv
<1>1. CASE RunConnects BY <1>0, <1>1, ClosingKeeps DEF RunConnects, history
<1>2. CASE AttemptFails BY <1>0, <1>2, ClosingKeeps DEF AttemptFails, history
<1>3. CASE ThreadEnds BY <1>0, <1>3, ClosingKeeps DEF ThreadEnds, history
<1>4. CASE Succeeds
  <2>1. UNCHANGED <<hConnection, connState, callbacks, forgotBy>> /\ place' \in {"top", "callbacks"}
    BY <1>4 DEF Succeeds, gnsVars, history
  <2> QED BY <2>1 DEF KeepingStep, NoNewEnd, Ended, Alive
<1>5. CASE GiveUp
  <2>1. hConnection' = hConnection /\ place' \in {"run", "callbacks"} /\ forgotBy' = forgotBy
        /\ (KillGNS \/ UNCHANGED <<connState, callbacks>>)
    BY <1>5 DEF GiveUp, history
  <2>2. CASE KillGNS
    <3>1. callbacks' = <<>> /\ \A h \in Handles : /\ connState'[h] \in {connState[h], "Released"}
                                                  /\ connState[h] = "None" => connState'[h] = "None"
      BY <2>2 DEF KillGNS, Alive
    <3> QED BY <2>1, <3>1 DEF KeepingStep, NoNewEnd, Ended, Alive
  <2>3. CASE UNCHANGED <<connState, callbacks>>
    BY <2>1, <2>3 DEF KeepingStep, NoNewEnd, Ended, Alive
  <2> QED BY <2>1, <2>2, <2>3
<1> QED BY <1>1, <1>2, <1>3, <1>4, <1>5

LEMMA CallbackForgets ==
  ASSUME ClientInv, ForgetInv, CallbackStep
  PROVE  ForgetInv'
<1>0. ClientTypeOK BY Types
<1>1. CASE OnClosedByPeer BY <1>1, ReportForgets DEF OnClosedByPeer
<1>2. CASE OnProblem BY <1>2, ReportForgets DEF OnProblem
<1>3. CASE OnOther
  <2>1. /\ callbacks # <<>> /\ callbacks' = Tail(callbacks) /\ UNCHANGED <<hConnection, connState, place, forgotBy>>
        /\ place = "callbacks"
    BY <1>3 DEF OnOther, NextCallback, clientVars, history
  <2>2. KeepingStep BY <2>1 DEF KeepingStep, NoNewEnd, Ended, Alive
  <2> QED BY <1>0, <2>2, KeepingStepInv
<1> QED BY <1>1, <1>2, <1>3 DEF CallbackStep

LEMMA OtherStepsForget ==
  ASSUME ClientInv, ForgetInv,
         \/ Top \/ CallbacksDone \/ IncomingDone \/ QueuedDone
         \/ ReceiveMessage \/ SendQueued \/ HandleRequest \/ UserCloses \/ UNCHANGED vars
         \/ \E h \in Handles : ServerHandlesInfo(h)
  PROVE  ForgetInv'
<1>0. ClientTypeOK BY Types
<1>1. /\ UNCHANGED <<hConnection, connState, callbacks, forgotBy>>
      /\ place' = place \/ place' # "attempt"
  <2>1. CASE Top \/ CallbacksDone \/ IncomingDone \/ QueuedDone
    BY <2>1 DEF Top, CallbacksDone, IncomingDone, QueuedDone, Goto, gnsVars, history
  <2>2. CASE ReceiveMessage \/ SendQueued \/ HandleRequest
    BY <2>2 DEF ReceiveMessage, SendQueued, HandleRequest, gnsVars, history
  <2>3. CASE UserCloses \/ UNCHANGED vars
    BY <2>3 DEF UserCloses, vars, clientVars, gnsVars, history
  <2>4. ASSUME NEW h \in Handles, ServerHandlesInfo(h) PROVE UNCHANGED <<hConnection, connState, callbacks, forgotBy, place>>
    BY <2>4 DEF ServerHandlesInfo, clientVars
  <2> QED BY <2>1, <2>2, <2>3, <2>4
<1>2. KeepingStep BY <1>1 DEF KeepingStep, NoNewEnd, Ended, Alive
<1> QED BY <1>0, <1>2, KeepingStepInv

LEMMA AcceptForgets ==
  ASSUME ClientInv, ForgetInv, NEW h \in Handles, ServerAccepts(h)
  PROVE  ForgetInv'
<1>0. ClientTypeOK BY Types
<1>1. /\ connState[h] = "Connecting" /\ connState' = [connState EXCEPT ![h] = "Connected"]
      /\ callbacks' = Append(callbacks, [conn |-> h, state |-> "Connected"])
      /\ UNCHANGED <<hConnection, place, forgotBy>>
  BY DEF ServerAccepts, ChangeState, clientVars
<1>2. [conn |-> h, state |-> "Connected"] \in Reports /\ ~IsEnd([conn |-> h, state |-> "Connected"])
  BY DEF Reports, ConnStates, IsEnd
<1>3. \A g \in Handles : connState'[g] = IF g = h THEN "Connected" ELSE connState[g]
  BY <1>0, <1>1 DEF ClientTypeOK
<1>4. NoNewEnd(callbacks, callbacks') BY <1>1, <1>2 DEF NoNewEnd
<1>5. KeepingStep BY <1>1, <1>3, <1>4 DEF KeepingStep, Ended, Alive
<1> QED BY <1>0, <1>5, KeepingStepInv

LEMMA ForgetInvNext == ClientInv /\ ForgetInv /\ [Next]_vars => ForgetInv'
<1> SUFFICES ASSUME ClientInv, ForgetInv, [Next]_vars PROVE ForgetInv'
    OBVIOUS
<1>1. CASE RunConnects \/ ConnStep
  BY <1>1, AttemptForgets, ConnectForgets, CallbackForgets, OtherStepsForget DEF ConnStep, ConnectStep, LoopStep
<1>2. CASE HandleRequest \/ UserCloses \/ UNCHANGED vars BY <1>2, OtherStepsForget
<1>3. ASSUME NEW h \in Handles, ServerAccepts(h) \/ ServerHandlesInfo(h) \/ ServerCloses(h) \/ ConnectionFails(h)
      PROVE  ForgetInv'
  BY <1>3, AcceptForgets, OtherStepsForget, EndingForgets
<1> QED BY <1>1, <1>2, <1>3 DEF Next

LEMMA ForgetInvInit == Init => ForgetInv
<1> SUFFICES ASSUME Init PROVE ForgetInv
    OBVIOUS
<1>1. callbacks = <<>> /\ place = "run" /\ connState = [h \in Handles |-> "None"] /\ forgotBy = [h \in Handles |-> NoHandle]
  BY DEF Init
<1>2. ForgottenByLateReport BY <1>1 DEF ForgottenByLateReport, Alive
<1> QED BY <1>1, <1>2 DEF ForgetInv, EndReportedOnce, ReportsAreTrue

(* However many attempts Connect makes and however often the client runs,  *)
(* a connection is left with nobody to close it only because a late report *)
(* about an earlier one came while it was in use, and each such report     *)
(* costs one connection at most (ChatClient.cpp:118, 303-318).             *)
THEOREM ForgottenOnlyByLateReports == Spec => []ForgottenByLateReport
<1>1. ForgetInv => ForgottenByLateReport BY DEF ForgetInv
<1> QED BY <1>1, ForgetInvInit, ForgetInvNext, ClientInvHolds, PTL DEF Spec

=============================================================================
