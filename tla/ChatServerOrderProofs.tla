------------------------ MODULE ChatServerOrderProofs ------------------------
(***************************************************************************)
(* The order in which messages arrive.  A message passes seven places on   *)
(* its way through the server: what a place holds of an author is younger  *)
(* than what any later place holds of it.                                  *)
(***************************************************************************)
EXTENDS ChatServerTablesProofs

(* Where a request of author a with number n can be.                       *)
InInbox(a, n) ==
  a \in Conns /\ \E i \in 1..Len(inbox[a]) : inbox[a][i].serial = n

InConnHand(a, n) ==
  pc[ConnThread] = "lockClient" /\ place[ConnThread].conn = a /\ received.serial = n

InHandleQueue(a, n) ==
  \E i \in 1..Len(handleQueue) : handleQueue[i].peer = a /\ handleQueue[i].serial = n

InReqHand(a, n) ==
  pc[ReqThread] \in HandleLabels /\ handling.peer = a /\ handling.serial = n

InSendQueue(a, n) ==
  \E i \in 1..Len(sendQueue) :
    sendQueue[i].toAll /\ sendQueue[i].peer = a /\ sendQueue[i].serial = n

BeingSent == pc[ConnThread] \in SendLabels /\ sending.toAll

InSending(a, n) == BeingSent /\ sending.peer = a /\ sending.serial = n

InOutbox(a, n) ==
  \E c \in Conns : \E i \in Broadcasts(c) :
    outbox[c][i].peer = a /\ outbox[c][i].serial = n

Line ==
  [k \in 1..7 |->
     {p \in Peers \X Nat :
        CASE k = 1 -> InInbox(p[1], p[2])
          [] k = 2 -> InConnHand(p[1], p[2])
          [] k = 3 -> InHandleQueue(p[1], p[2])
          [] k = 4 -> InReqHand(p[1], p[2])
          [] k = 5 -> InSendQueue(p[1], p[2])
          [] k = 6 -> InSending(p[1], p[2])
          [] k = 7 -> InOutbox(p[1], p[2])}]

(* A number belongs to one author; of one author, what is further down the *)
(* line is older.  Only the message being sent may be in both of the last  *)
(* two places.                                                             *)
InLine(line, last) ==
  \A j, k \in 1..7 : \A p \in line[j], q \in line[k] :
    /\ p[2] <= last
    /\ p[2] = q[2] => p[1] = q[1]
    /\ j < k /\ p[1] = q[1] => q[2] < p[2] \/ (j = 6 /\ q[2] = p[2])

InboxRises ==
  \A c \in Conns : \A i, j \in 1..Len(inbox[c]) :
    i < j => inbox[c][i].serial < inbox[c][j].serial

HandleQueueRises ==
  \A i, j \in 1..Len(handleQueue) :
    i < j /\ handleQueue[i].peer = handleQueue[j].peer =>
      handleQueue[i].serial < handleQueue[j].serial

SendQueueRises ==
  \A i, j \in 1..Len(sendQueue) :
    i < j /\ sendQueue[i].toAll /\ sendQueue[j].toAll
      /\ sendQueue[i].peer = sendQueue[j].peer =>
      sendQueue[i].serial < sendQueue[j].serial

(* Who already has the message being sent has it as its last one, and its  *)
(* client is behind the iterator.                                          *)
SentIsPassed ==
  BeingSent =>
    \A c \in Conns : \A i \in Broadcasts(c) :
      outbox[c][i].serial = sending.serial =>
        /\ pc[ConnThread] = "broadcast"
        /\ mapConnections[c] <= place[ConnThread].id
        /\ \A j \in Broadcasts(c) : j <= i

(* The walk through the clients holds id 0, so nobody else gets LockAll;   *)
(* only a request for all gets that far.                                   *)
WalkHoldsZero ==
  /\ pc[ConnThread] = "broadcast" => lock[InvalidUserID] = ConnThread
  /\ pc[ConnThread] \in {"startAll", "broadcast"} => sending.toAll

OrderInv ==
  /\ InLine(Line, serial)
  /\ InboxRises /\ HandleQueueRises /\ SendQueueRises
  /\ SentIsPassed /\ WalkHoldsZero
  /\ AuthorOrder /\ SameOrder

-----------------------------------------------------------------------------
(* Lines in general: what keeps one in order.                              *)

IsLine(line) == \A k \in 1..7 : line[k] \subseteq Peers \X Nat

(* From one line to the next, nothing appears but new, and that at spot.   *)
PutsOnly(line, next, spot, new) ==
  \A k \in 1..7 : \A p \in next[k] : p \in line[k] \/ (k = spot /\ p = new)

NothingBefore(line, spot, author) ==
  \A k \in 1..7 : k < spot => \A p \in line[k] : p[1] # author

(* Nothing new in the line.                                                *)
LEMMA ShrinkingLine ==
  ASSUME NEW L, NEW M, NEW m \in Nat, NEW n \in Nat, m <= n, InLine(L, m),
         IsLine(L), \A k \in 1..7 : M[k] \subseteq L[k]
  PROVE  InLine(M, n)
PROOF
  <1> USE DEF IsLine
  <1> SUFFICES ASSUME NEW j \in 1..7, NEW k \in 1..7, NEW p \in M[j], NEW q \in M[k]
               PROVE  /\ p[2] <= n
                      /\ p[2] = q[2] => p[1] = q[1]
                      /\ j < k /\ p[1] = q[1] => q[2] < p[2] \/ (j = 6 /\ q[2] = p[2])
    BY DEF InLine
  <1>1. p \in L[j] /\ q \in L[k] /\ p[2] \in Nat
    OBVIOUS
  <1>2. /\ p[2] <= m
        /\ p[2] = q[2] => p[1] = q[1]
        /\ j < k /\ p[1] = q[1] => q[2] < p[2] \/ (j = 6 /\ q[2] = p[2])
    BY <1>1 DEF InLine
  <1> QED
    BY <1>1, <1>2

(* A new number joins, for an author that has nothing before this place.   *)
LEMMA JoiningLine ==
  ASSUME NEW L, NEW M, NEW m \in Nat, InLine(L, m), NEW a \in Peers, NEW spot \in 1..7,
         IsLine(L), PutsOnly(L, M, spot, <<a, m + 1>>), NothingBefore(L, spot, a)
  PROVE  InLine(M, m + 1)
PROOF
  <1> USE DEF IsLine, PutsOnly, NothingBefore
  <1> DEFINE new == <<a, m + 1>>
  <1> SUFFICES ASSUME NEW j \in 1..7, NEW k \in 1..7, NEW p \in M[j], NEW q \in M[k]
               PROVE  /\ p[2] <= m + 1
                      /\ p[2] = q[2] => p[1] = q[1]
                      /\ j < k /\ p[1] = q[1] => q[2] < p[2] \/ (j = 6 /\ q[2] = p[2])
    BY DEF InLine
  <1>1. \A i \in 1..7 : \A r \in L[i] : r[2] \in Nat /\ r[2] <= m
    BY DEF InLine
  <1>2. CASE p \in L[j] /\ q \in L[k]
    <2>1. /\ p[2] = q[2] => p[1] = q[1]
          /\ j < k /\ p[1] = q[1] => q[2] < p[2] \/ (j = 6 /\ q[2] = p[2])
      BY <1>2 DEF InLine
    <2> QED
      BY <1>1, <1>2, <2>1
  <1>3. CASE p = new /\ j = spot
    BY <1>1, <1>3
  <1>4. CASE p \in L[j] /\ q = new /\ k = spot
    BY <1>1, <1>4
  <1> QED
    BY <1>2, <1>3, <1>4

(* The oldest of its author in one place moves on to the next.             *)
LEMMA MovingLine ==
  ASSUME NEW L, NEW M, NEW m \in Nat, InLine(L, m), NEW from \in 1..6, NEW one \in L[from],
         IsLine(L), PutsOnly(L, M, from + 1, one),
         \A p \in M[from] : p[1] = one[1] => one[2] < p[2] \/ (from = 6 /\ p[2] = one[2])
  PROVE  InLine(M, m)
PROOF
  <1> USE DEF IsLine, PutsOnly
  <1> SUFFICES ASSUME NEW j \in 1..7, NEW k \in 1..7, NEW p \in M[j], NEW q \in M[k]
               PROVE  /\ p[2] <= m
                      /\ p[2] = q[2] => p[1] = q[1]
                      /\ j < k /\ p[1] = q[1] => q[2] < p[2] \/ (j = 6 /\ q[2] = p[2])
    BY DEF InLine
  <1>1. /\ \E i \in 1..7 : p \in L[i]
        /\ \E i \in 1..7 : q \in L[i]
    OBVIOUS
  <1>2. p[2] <= m /\ (p[2] = q[2] => p[1] = q[1])
    BY <1>1 DEF InLine
  <1>3. p[2] \in Nat /\ q[2] \in Nat /\ one[2] \in Nat
    BY <1>1
  <1>4. ASSUME j < k, p[1] = q[1] PROVE q[2] < p[2] \/ (j = 6 /\ q[2] = p[2])
    <2>1. CASE p \in L[j] /\ q \in L[k]
      BY <1>4, <2>1 DEF InLine
    <2>2. CASE p = one /\ j = from + 1
      <3>1. q \in L[k] /\ from < k
        BY <1>4, <2>2
      <3>2. q[2] < one[2] \/ (from = 6 /\ q[2] = one[2])
        BY <1>4, <2>2, <3>1 DEF InLine
      <3> QED
        BY <1>4, <2>2, <3>2
    <2>3. CASE p \in L[j] /\ q = one /\ k = from + 1
      <3>1. CASE j = from
        BY <1>4, <2>3, <3>1
      <3>2. CASE j < from
        <4>1. one[2] < p[2] \/ (j = 6 /\ one[2] = p[2])
          BY <1>4, <2>3, <3>2 DEF InLine
        <4> QED
          BY <2>3, <4>1
      <3> QED
        BY <1>4, <2>3, <3>1, <3>2
    <2> QED
      BY <2>1, <2>2, <2>3
  <1> QED
    BY <1>2, <1>4

-----------------------------------------------------------------------------
(* What the places hold, before and after a step.                          *)
LEMMA LineIs ==
  /\ IsLine(Line)
  /\ \A k \in 1..7 : Line[k] \subseteq Peers \X Nat
  /\ \A p \in Peers \X Nat :
       /\ p \in Line[1] <=> InInbox(p[1], p[2])
       /\ p \in Line[2] <=> InConnHand(p[1], p[2])
       /\ p \in Line[3] <=> InHandleQueue(p[1], p[2])
       /\ p \in Line[4] <=> InReqHand(p[1], p[2])
       /\ p \in Line[5] <=> InSendQueue(p[1], p[2])
       /\ p \in Line[6] <=> InSending(p[1], p[2])
       /\ p \in Line[7] <=> InOutbox(p[1], p[2])
BY DEF Line, IsLine

LEMMA LineIsNext ==
  /\ \A k \in 1..7 : Line'[k] \subseteq Peers \X Nat
  /\ \A p \in Peers \X Nat :
       /\ p \in Line'[1] <=> InInbox(p[1], p[2])'
       /\ p \in Line'[2] <=> InConnHand(p[1], p[2])'
       /\ p \in Line'[3] <=> InHandleQueue(p[1], p[2])'
       /\ p \in Line'[4] <=> InReqHand(p[1], p[2])'
       /\ p \in Line'[5] <=> InSendQueue(p[1], p[2])'
       /\ p \in Line'[6] <=> InSending(p[1], p[2])'
       /\ p \in Line'[7] <=> InOutbox(p[1], p[2])'
BY DEF Line

-----------------------------------------------------------------------------
(* A place is kept by a step that puts nothing into it.                    *)
KeepsInbox == \A c \in Conns : inbox'[c] = inbox[c] \/ inbox'[c] = <<>>

KeepsConnHand ==
  pc'[ConnThread] = "lockClient" =>
    pc[ConnThread] = "lockClient" /\ UNCHANGED received /\ place'[ConnThread] = place[ConnThread]

KeepsHandleQueue ==
  UNCHANGED handleQueue \/ (handleQueue # <<>> /\ handleQueue' = Tail(handleQueue))

KeepsReqHand ==
  pc'[ReqThread] \in HandleLabels =>
    /\ pc[ReqThread] \in HandleLabels
    /\ handling'.peer = handling.peer /\ handling'.serial = handling.serial

KeepsSendQueue ==
  UNCHANGED sendQueue \/ \E req : ~req.toAll /\ sendQueue' = Append(sendQueue, req)

KeepsSending == BeingSent' => BeingSent /\ UNCHANGED sending

KeepsOutbox ==
  \A c \in Conns :
    outbox'[c] = outbox[c] \/ \E req : ~req.toAll /\ outbox'[c] = Append(outbox[c], req)

(* The walk through the clients is left alone, goes on, ends, or begins.   *)
KeepsWalk ==
  /\ BeingSent' /\ pc[ConnThread] = "broadcast" =>
       /\ pc'[ConnThread] = "broadcast" /\ UNCHANGED mapConnections
       /\ \/ place'[ConnThread].id = place[ConnThread].id
          \/ place'[ConnThread].id \in UserIDs /\ place[ConnThread].id < place'[ConnThread].id
  /\ pc'[ConnThread] = "broadcast" =>
       \/ lock'[InvalidUserID] = ConnThread
       \/ pc[ConnThread] = "broadcast" /\ lock'[InvalidUserID] = lock[InvalidUserID]
  /\ pc'[ConnThread] \in {"startAll", "broadcast"} =>
       \/ sending'.toAll
       \/ pc[ConnThread] \in {"startAll", "broadcast"} /\ UNCHANGED sending

LEMMA InboxKept ==
  ASSUME TypeOK, KeepsInbox
  PROVE  /\ \A a, n : InInbox(a, n)' => InInbox(a, n)
         /\ InboxRises => InboxRises'
PROOF
  <1>1. ASSUME NEW c \in Conns, NEW i \in 1..Len(inbox'[c])
        PROVE  inbox'[c] = inbox[c]
    BY <1>1 DEF KeepsInbox
  <1>2. \A a, n : InInbox(a, n)' => InInbox(a, n)
    BY <1>1 DEF InInbox
  <1>3. InboxRises => InboxRises'
    BY <1>1 DEF InboxRises
  <1> QED
    BY <1>2, <1>3

(* What is left of a queue when its first request is taken, and what it    *)
(* holds when one is put in.                                               *)
LEMMA TailOf ==
  ASSUME NEW S, NEW q \in Seq(S), q # <<>>
  PROVE  /\ 1 \in 1..Len(q) /\ Head(q) = q[1]
         /\ \A i \in 1..Len(Tail(q)) : i \in Nat /\ i + 1 \in 1..Len(q) /\ Tail(q)[i] = q[i + 1]
OBVIOUS

LEMMA AppendOf ==
  ASSUME NEW S, NEW q \in Seq(S), NEW e
  PROVE  /\ Len(q) \in Nat /\ Len(Append(q, e)) = Len(q) + 1
         /\ \A i \in 1..Len(q) : Append(q, e)[i] = q[i]
         /\ Append(q, e)[Len(q) + 1] = e
         /\ \A i \in 1..Len(Append(q, e)) : i \in 1..Len(q) \/ i = Len(q) + 1
OBVIOUS

LEMMA HandleQueueKept ==
  ASSUME TypeOK, KeepsHandleQueue
  PROVE  /\ \A a, n : InHandleQueue(a, n)' => InHandleQueue(a, n)
         /\ HandleQueueRises => HandleQueueRises'
PROOF
  <1>1. CASE UNCHANGED handleQueue
    BY <1>1 DEF InHandleQueue, HandleQueueRises
  <1>2. CASE handleQueue # <<>> /\ handleQueue' = Tail(handleQueue)
    <2>1. handleQueue \in Seq(HandledRequest)
      BY DEF TypeOK, QueuesOK
    <2>2. \A i \in 1..Len(handleQueue') :
            i \in Nat /\ i + 1 \in 1..Len(handleQueue) /\ handleQueue'[i] = handleQueue[i + 1]
      BY <1>2, <2>1, TailOf
    <2>3. \A a, n : InHandleQueue(a, n)' => InHandleQueue(a, n)
      BY <2>2 DEF InHandleQueue
    <2>4. ASSUME HandleQueueRises PROVE HandleQueueRises'
      <3> SUFFICES ASSUME NEW i \in 1..Len(handleQueue'), NEW j \in 1..Len(handleQueue'),
                          i < j, handleQueue'[i].peer = handleQueue'[j].peer
                   PROVE  handleQueue'[i].serial < handleQueue'[j].serial
        BY DEF HandleQueueRises
      <3>1. /\ i \in Nat /\ i + 1 \in 1..Len(handleQueue) /\ handleQueue'[i] = handleQueue[i + 1]
            /\ j \in Nat /\ j + 1 \in 1..Len(handleQueue) /\ handleQueue'[j] = handleQueue[j + 1]
        BY <2>2
      <3>2. i + 1 < j + 1
        BY <3>1
      <3> QED
        BY <2>4, <3>1, <3>2 DEF HandleQueueRises
    <2> QED
      BY <2>3, <2>4
  <1> QED
    BY <1>1, <1>2 DEF KeepsHandleQueue

LEMMA HandsKept ==
  /\ KeepsConnHand => \A a, n : InConnHand(a, n)' => InConnHand(a, n)
  /\ KeepsReqHand => \A a, n : InReqHand(a, n)' => InReqHand(a, n)
  /\ KeepsSending => \A a, n : InSending(a, n)' => InSending(a, n)
BY DEF KeepsConnHand, InConnHand, KeepsReqHand, InReqHand, KeepsSending, InSending

LEMMA SendQueueKept ==
  ASSUME TypeOK, KeepsSendQueue
  PROVE  /\ \A a, n : InSendQueue(a, n)' => InSendQueue(a, n)
         /\ SendQueueRises => SendQueueRises'
PROOF
  <1>1. sendQueue \in Seq(QueuedRequest) /\ Len(sendQueue) \in Nat
    BY DEF TypeOK, QueuesOK
  <1>2. \A i \in 1..Len(sendQueue') :
          sendQueue'[i].toAll => i \in 1..Len(sendQueue) /\ sendQueue'[i] = sendQueue[i]
    BY <1>1 DEF KeepsSendQueue
  <1>3. \A a, n : InSendQueue(a, n)' => InSendQueue(a, n)
    BY <1>2 DEF InSendQueue
  <1>4. SendQueueRises => SendQueueRises'
    BY <1>2 DEF SendQueueRises
  <1> QED
    BY <1>3, <1>4

LEMMA OutboxKept ==
  ASSUME TypeOK, KeepsOutbox
  PROVE  /\ \A c \in Conns :
              /\ Broadcasts(c)' = Broadcasts(c)
              /\ \A i \in Broadcasts(c) : outbox'[c][i] = outbox[c][i]
         /\ \A a, n : InOutbox(a, n)' => InOutbox(a, n)
         /\ AuthorOrder => AuthorOrder'
         /\ SameOrder => SameOrder'
PROOF
  <1>1. ASSUME NEW c \in Conns
        PROVE  /\ Broadcasts(c)' = Broadcasts(c)
               /\ \A i \in Broadcasts(c) : outbox'[c][i] = outbox[c][i]
    <2>1. outbox[c] \in Seq(QueuedRequest) /\ Len(outbox[c]) \in Nat
      BY DEF TypeOK, NetworkOK
    <2>2. \A i : i \in 1..Len(outbox[c]) => i \in 1..Len(outbox'[c]) /\ outbox'[c][i] = outbox[c][i]
      BY <2>1 DEF KeepsOutbox
    <2>3. \A i \in 1..Len(outbox'[c]) : outbox'[c][i].toAll => i \in 1..Len(outbox[c])
      BY <2>1 DEF KeepsOutbox
    <2> QED
      BY <2>2, <2>3 DEF Broadcasts
  <1>2. \A a, n : InOutbox(a, n)' => InOutbox(a, n)
    BY <1>1 DEF InOutbox
  <1>3. AuthorOrder => AuthorOrder'
    BY <1>1 DEF AuthorOrder
  <1>4. SameOrder => SameOrder'
    BY <1>1 DEF SameOrder
  <1> QED
    BY <1>1, <1>2, <1>3, <1>4

(* What of the invariant a step keeps that sends nothing.                  *)
LEMMA SentKept ==
  ASSUME TypeOK, KeepsOutbox, KeepsWalk, KeepsSending, WalkHoldsZero, SentIsPassed
  PROVE  SentIsPassed' /\ WalkHoldsZero'
PROOF
  <1>1. WalkHoldsZero'
    BY DEF KeepsWalk, WalkHoldsZero
  <1>2. SentIsPassed'
    <2> SUFFICES ASSUME BeingSent', NEW c \in Conns, NEW i \in Broadcasts(c)',
                        outbox'[c][i].serial = sending'.serial
                 PROVE  /\ pc'[ConnThread] = "broadcast"
                        /\ mapConnections'[c] <= place'[ConnThread].id
                        /\ \A j \in Broadcasts(c)' : j <= i
      BY DEF SentIsPassed
    <2>1. BeingSent /\ sending' = sending
      BY DEF KeepsSending
    <2>2. i \in Broadcasts(c) /\ outbox[c][i].serial = sending.serial /\ Broadcasts(c)' = Broadcasts(c)
      BY <2>1, OutboxKept
    <2>3. /\ pc[ConnThread] = "broadcast" /\ mapConnections[c] <= place[ConnThread].id
          /\ \A j \in Broadcasts(c) : j <= i
      BY <2>1, <2>2 DEF SentIsPassed
    <2>4. /\ pc'[ConnThread] = "broadcast" /\ mapConnections' = mapConnections
          /\ \/ place'[ConnThread].id = place[ConnThread].id
             \/ place'[ConnThread].id \in UserIDs /\ place[ConnThread].id < place'[ConnThread].id
      BY <2>3 DEF KeepsWalk
    <2>5. mapConnections[c] \in Nat /\ place[ConnThread].id \in Nat
      BY ThreadsDiffer DEF TypeOK, TablesOK, PlacesOK, ConnectionsMap, UserIDs
    <2>6. mapConnections[c] <= place'[ConnThread].id
      <3>1. CASE place'[ConnThread].id = place[ConnThread].id
        BY <2>3, <3>1
      <3>2. CASE place'[ConnThread].id \in UserIDs /\ place[ConnThread].id < place'[ConnThread].id
        BY <2>3, <2>5, <3>2 DEF UserIDs
      <3> QED
        BY <2>4, <3>1, <3>2
    <2> QED
      BY <2>2, <2>3, <2>4, <2>6
  <1> QED
    BY <1>1, <1>2

(* A step that puts nothing anywhere keeps the order.                      *)
LEMMA OrderKept ==
  ASSUME TypeOK, OrderInv, serial' \in {serial, serial + 1}, KeepsInbox, KeepsConnHand, KeepsHandleQueue,
         KeepsReqHand, KeepsSendQueue, KeepsSending, KeepsOutbox, KeepsWalk
  PROVE  OrderInv'
PROOF
  <1>1. ASSUME NEW k \in 1..7 PROVE Line'[k] \subseteq Line[k]
    <2>1. \A p \in Peers \X Nat : p \in Line'[k] => p \in Line[k]
      BY InboxKept, HandsKept, HandleQueueKept, SendQueueKept, OutboxKept, LineIs, LineIsNext
    <2> QED
      BY <2>1, LineIsNext
  <1>2. serial \in Nat /\ serial' \in Nat /\ serial <= serial'
    BY DEF TypeOK, NetworkOK
  <1>3. InLine(Line, serial)'
    <2>1. InLine(Line', serial')
      BY <1>1, <1>2, LineIs, ShrinkingLine DEF OrderInv
    <2> QED
      BY <2>1 DEF InLine
  <1> QED
    BY <1>3, InboxKept, HandsKept, HandleQueueKept, SendQueueKept, OutboxKept, SentKept DEF OrderInv

-----------------------------------------------------------------------------
(* What the types say of the requests on their way, for the leaves.        *)
LEMMA LineTypes ==
  ASSUME TypeOK
  PROVE  /\ serial \in Nat /\ Conns \subseteq Peers /\ NoConn \in Peers
         /\ inbox \in [Conns -> Seq(IncomingRequest)]
         /\ \A c \in Conns :
              /\ Len(inbox[c]) \in Nat
              /\ \A i \in 1..Len(inbox[c]) : inbox[c][i].serial \in Nat
         /\ handleQueue \in Seq(HandledRequest) /\ Len(handleQueue) \in Nat
         /\ \A i \in 1..Len(handleQueue) :
              handleQueue[i].peer \in Conns /\ handleQueue[i].serial \in Nat
         /\ sendQueue \in Seq(QueuedRequest) /\ Len(sendQueue) \in Nat
         /\ \A i \in 1..Len(sendQueue) :
              sendQueue[i].peer \in Peers /\ sendQueue[i].serial \in Nat
         /\ outbox \in [Conns -> Seq(QueuedRequest)]
         /\ pc[ConnThread] = "lockClient" =>
              place[ConnThread].conn \in Conns /\ received.serial \in Nat
         /\ pc[ReqThread] \in HandleLabels =>
              handling \in HandledRequest /\ handling.peer \in Conns /\ handling.serial \in Nat
         /\ pc[ConnThread] \in SendLabels =>
              sending \in QueuedRequest /\ sending.peer \in Peers /\ sending.serial \in Nat
         /\ pc \in [Threads -> ConnLabels \cup ReqLabels \cup {"idle", "closing"}]
         /\ ConnThread \in Threads /\ ReqThread \in Threads /\ ConnThread # ReqThread
         /\ ConnThread \in CallbackThreads
         /\ place \in [CallbackThreads -> [conn : Peers, id : UserIDs]]
PROOF
  <1>1. /\ serial \in Nat /\ inbox \in [Conns -> Seq(IncomingRequest)]
        /\ outbox \in [Conns -> Seq(QueuedRequest)]
        /\ handleQueue \in Seq(HandledRequest) /\ sendQueue \in Seq(QueuedRequest)
    BY DEF TypeOK, NetworkOK, QueuesOK
  <1>2. \A c \in Conns :
          /\ Len(inbox[c]) \in Nat
          /\ \A i \in 1..Len(inbox[c]) : inbox[c][i].serial \in Nat
    <2> TAKE c \in Conns
    <2>1. inbox[c] \in Seq(IncomingRequest)
      BY <1>1
    <2>2. \A i \in 1..Len(inbox[c]) : inbox[c][i] \in IncomingRequest
      BY <2>1
    <2> QED
      BY <2>1, <2>2 DEF IncomingRequest
  <1>3. \A i \in 1..Len(handleQueue) :
          handleQueue[i].peer \in Conns /\ handleQueue[i].serial \in Nat
    <2>1. \A i \in 1..Len(handleQueue) : handleQueue[i] \in HandledRequest
      BY <1>1
    <2> QED
      BY <2>1 DEF HandledRequest
  <1>4. \A i \in 1..Len(sendQueue) :
          sendQueue[i].peer \in Peers /\ sendQueue[i].serial \in Nat
    <2>1. \A i \in 1..Len(sendQueue) : sendQueue[i] \in QueuedRequest
      BY <1>1
    <2> QED
      BY <2>1 DEF QueuedRequest
  <1>5. /\ pc[ConnThread] = "lockClient" =>
             place[ConnThread].conn \in Conns /\ received.serial \in Nat
        /\ pc[ReqThread] \in HandleLabels =>
             handling \in HandledRequest /\ handling.peer \in Conns /\ handling.serial \in Nat
        /\ pc[ConnThread] \in SendLabels =>
             sending \in QueuedRequest /\ sending.peer \in Peers /\ sending.serial \in Nat
    BY ThreadsDiffer
       DEF TypeOK, HandsOK, PlacesOK, HandledRequest, QueuedRequest, IncomingRequest
  <1> QED
    BY <1>1, <1>2, <1>3, <1>4, <1>5, ThreadsDiffer
       DEF TypeOK, ThreadsOK, PlacesOK, Peers

(* QueueRequest of a request for one client puts no message into the line. *)
LEMMA QueueToOne ==
  ASSUME NEW req, QueueRequest(req), ~req.toAll
  PROVE  KeepsSendQueue
BY DEF QueueRequest, KeepsSendQueue

(* Whoever moves neither of the two threads keeps what is in their hands.  *)
LEMMA HandsOfOthers ==
  ASSUME UNCHANGED <<received, sending, handling>>,
         pc'[ConnThread] = pc[ConnThread] /\ place'[ConnThread] = place[ConnThread],
         pc'[ReqThread] = pc[ReqThread]
  PROVE  KeepsConnHand /\ KeepsReqHand /\ KeepsSending
BY DEF KeepsConnHand, KeepsReqHand, KeepsSending, BeingSent

-----------------------------------------------------------------------------
(* A peer sends: its request is the youngest.                              *)
LEMMA OrderPeerSends ==
  ASSUME TypeOK, OrderInv, NEW c \in Conns, PeerSends(c),
         UNCHANGED <<outbox, tables, lock, queues, pc, work>>
  PROVE  OrderInv'
PROOF
  <1>1. PICK type \in RequestTypes, claim \in Claims :
          inbox' = [inbox EXCEPT ![c] =
                      Append(@, [type |-> type, claim |-> claim, serial |-> serial + 1])]
    BY DEF PeerSends
  <1>2. serial' = serial + 1
    BY DEF PeerSends
  <1> DEFINE new == [type |-> type, claim |-> claim, serial |-> serial + 1]
  <1>3. /\ inbox'[c] = Append(inbox[c], new) /\ new.serial = serial + 1
        /\ \A d \in Conns : d # c => inbox'[d] = inbox[d]
    BY <1>1, LineTypes
  <1> HIDE DEF new
  <1>4. /\ inbox[c] \in Seq(IncomingRequest) /\ Len(inbox'[c]) = Len(inbox[c]) + 1
        /\ inbox'[c][Len(inbox[c]) + 1] = new
        /\ \A i \in 1..Len(inbox[c]) : inbox'[c][i] = inbox[c][i]
    <2>1. inbox[c] \in Seq(IncomingRequest)
      BY LineTypes
    <2> QED
      BY <1>3, <2>1
  <1>5. \A i \in 1..Len(inbox'[c]) :
          \/ i \in 1..Len(inbox[c]) /\ inbox'[c][i] = inbox[c][i]
          \/ i = Len(inbox[c]) + 1 /\ inbox'[c][i].serial = serial + 1
    BY <1>3, <1>4, LineTypes
  <1>6. /\ KeepsConnHand /\ KeepsReqHand /\ KeepsSending /\ KeepsHandleQueue /\ KeepsSendQueue
        /\ KeepsOutbox /\ KeepsWalk
    BY HandsOfOthers
       DEF work, queues, tables, KeepsHandleQueue, KeepsSendQueue, KeepsOutbox, KeepsWalk
  <1>7. \A i \in 1..Len(inbox[c]) : inbox[c][i].serial <= serial
    <2> TAKE i \in 1..Len(inbox[c])
    <2>1. <<c, inbox[c][i].serial>> \in Line[1]
      BY LineIs, LineTypes DEF InInbox
    <2> QED
      BY <2>1 DEF OrderInv, InLine
  <1>8. InboxRises'
    <2> SUFFICES ASSUME NEW d \in Conns, NEW i \in 1..Len(inbox'[d]), NEW j \in 1..Len(inbox'[d]),
                        i < j
                 PROVE  inbox'[d][i].serial < inbox'[d][j].serial
      BY DEF InboxRises
    <2>1. CASE d # c
      BY <1>3, <2>1 DEF OrderInv, InboxRises
    <2>2. CASE d = c
      <3>1. i \in 1..Len(inbox[c]) /\ inbox'[c][i] = inbox[c][i]
        BY <1>4, <2>2, LineTypes
      <3>2. CASE j \in 1..Len(inbox[c])
        <4>1. inbox[c][i].serial < inbox[c][j].serial
          BY <2>2, <3>1, <3>2 DEF OrderInv, InboxRises
        <4> QED
          BY <1>4, <2>2, <3>1, <3>2, <4>1
      <3>3. CASE inbox'[c][j].serial = serial + 1
        BY <1>7, <2>2, <3>1, <3>3, LineTypes
      <3> QED
        BY <1>5, <2>2, <3>2, <3>3
    <2> QED
      BY <2>1, <2>2
  <1>9. PutsOnly(Line, Line', 1, <<c, serial + 1>>)
    <2>1. \A p \in Peers \X Nat :
            InInbox(p[1], p[2])' => InInbox(p[1], p[2]) \/ p = <<c, serial + 1>>
      BY <1>3, <1>5 DEF InInbox
    <2>2. \A k \in 1..7 : \A p \in Peers \X Nat :
            p \in Line'[k] => p \in Line[k] \/ (k = 1 /\ p = <<c, serial + 1>>)
      BY <1>6, <2>1, HandsKept, HandleQueueKept, SendQueueKept, OutboxKept, LineIs, LineIsNext
    <2> QED
      BY <2>2, LineIsNext DEF PutsOnly
  <1>10. InLine(Line, serial)'
    <2>1. c \in Peers /\ 1 \in 1..7 /\ serial \in Nat /\ InLine(Line, serial) /\ IsLine(Line)
      BY LineTypes, LineIs DEF OrderInv
    <2>2. NothingBefore(Line, 1, c)
      BY DEF NothingBefore
    <2>3. InLine(Line', serial + 1)
      BY <1>9, <2>1, <2>2, JoiningLine
    <2> QED
      BY <1>2, <2>3 DEF InLine
  <1> QED
    BY <1>6, <1>8, <1>10, HandsKept, HandleQueueKept, SendQueueKept, OutboxKept, SentKept DEF OrderInv

(* The other steps of the peers lose messages at most.                     *)
LEMMA OrderEnvironment ==
  ASSUME TypeOK, OrderInv, Environment
  PROVE  OrderInv'
PROOF
  <1>1. UNCHANGED <<outbox, tables, lock, queues, pc, work>>
    BY DEF Environment
  <1>2. CASE UNCHANGED <<inbox, serial>>
    <2>1. KeepsInbox /\ KeepsHandleQueue /\ KeepsSendQueue /\ KeepsOutbox /\ KeepsWalk
      BY <1>1, <1>2 DEF KeepsInbox, KeepsHandleQueue, KeepsSendQueue, KeepsOutbox, KeepsWalk,
                        queues, tables, work
    <2> QED
      BY <1>1, <1>2, <2>1, HandsOfOthers, OrderKept DEF work
  <1> QED
    BY <1>1, <1>2, OrderPeerSends DEF Environment, PeerConnects, PeerCloses

(* During the walk LockAll is granted to nobody.                           *)
LEMMA WalkBlocksAll ==
  ASSUME WalkHoldsZero, pc[ConnThread] = "broadcast"
  PROVE  ~AllFree
PROOF
  <1>1. ConnThread # NoThread
    BY ThreadsDiffer, ServerAssumption
  <1>2. InvalidUserID \in UserIDs /\ lock[InvalidUserID] = ConnThread
    BY RegistryAssumption DEF WalkHoldsZero, UserIDs, InvalidUserID
  <1> QED
    BY <1>1, <1>2 DEF AllFree, IsFree

(* Callbacks drop what a closed connection has sent, and queue requests    *)
(* for one client; they run only while the thread sends nothing, or in     *)
(* another thread, which gets no LockAll during the walk.                  *)
LEMMA OrderCallbackStep ==
  ASSUME TypeOK, OrderInv, NEW t \in CallbackThreads, CallbackStep(t)
  PROVE  OrderInv'
PROOF
  <1>1. UNCHANGED <<outbox, serial, handleQueue, received, sending, handling>>
    BY DEF CallbackStep
  <1>2. KeepsInbox
    BY LineTypes
       DEF KeepsInbox, CallbackStep, OnConnecting, OnClosedWhileConnecting, CloseConnection,
           OnClosedWhileConnected, NextCallback, RemoveClientByConnection,
           SkipTakenID, ReadTakenID, PassTakenID,
           FindFreeID, TakeID, AdvanceID, ReserveGeneratedID, PreAcceptClient, InsertClient,
           BindClient
  <1>3. KeepsSendQueue
    <2>1. CASE BindClient(t)
      <3>1. QueueRequest(ToOne(place[t].id, "Unauthorized", place[t].conn, 0, FALSE))
        BY <2>1 DEF BindClient
      <3> QED
        BY <3>1, QueueToOne DEF ToOne
    <2> QED
      BY <2>1
         DEF KeepsSendQueue, CallbackStep, OnConnecting, OnClosedWhileConnecting,
             OnClosedWhileConnected, NextCallback, RemoveClientByConnection,
             SkipTakenID, ReadTakenID, PassTakenID,
             FindFreeID, TakeID, AdvanceID, ReserveGeneratedID, PreAcceptClient, InsertClient
  <1>4. /\ pc[t] \in CallbackLabels /\ pc'[t] \in CallbackLabels
        /\ \E label : Goto(t, label) \/ UNCHANGED pc
    <2>1. /\ pc[t] \in CallbackLabels
          /\ UNCHANGED pc \/ \E label \in CallbackLabels : Goto(t, label)
      BY Zenon
         DEF CallbackStep, OnConnecting, OnClosedWhileConnecting, OnClosedWhileConnected,
             NextCallback, RemoveClientByConnection, SkipTakenID, ReadTakenID, PassTakenID,
             FindFreeID, TakeID,
             AdvanceID, ReserveGeneratedID, PreAcceptClient, InsertClient, BindClient,
             CallbackLabels, AcceptLabels
    <2> QED
      BY <2>1, LineTypes DEF Goto, Threads
  <1>5. \A u \in CallbackThreads : u # t => pc'[u] = pc[u] /\ place'[u] = place[u]
    BY CallbackMovesOne
  <1>6. pc'[ReqThread] = pc[ReqThread]
    BY <1>4, LineTypes, ThreadsDiffer DEF Goto
  <1>7. CASE t = ConnThread
    <2>1. KeepsConnHand /\ KeepsReqHand /\ KeepsSending /\ KeepsWalk
      BY <1>1, <1>4, <1>6, <1>7
         DEF KeepsConnHand, KeepsReqHand, KeepsSending, KeepsWalk, BeingSent, CallbackLabels,
             AcceptLabels, SendLabels
    <2> QED
      BY <1>1, <1>2, <1>3, <2>1, OrderKept DEF KeepsHandleQueue, KeepsOutbox
  <1>8. CASE t # ConnThread
    <2>1. pc'[ConnThread] = pc[ConnThread] /\ place'[ConnThread] = place[ConnThread]
      BY <1>5, <1>8, LineTypes
    <2>2. pc[ConnThread] = "broadcast" =>
            UNCHANGED mapConnections /\ lock'[InvalidUserID] = lock[InvalidUserID]
      <3> SUFFICES ASSUME pc[ConnThread] = "broadcast"
                   PROVE  UNCHANGED mapConnections /\ lock'[InvalidUserID] = lock[InvalidUserID]
        OBVIOUS
      <3>1. ~AllFree
        BY WalkBlocksAll DEF OrderInv
      <3>2. CASE BindClient(t)
        <4>1. place[t].id \in UserIDs /\ place[t].id # InvalidUserID
          BY <3>2, BindNotZero DEF BindClient
        <4> QED
          BY <3>2, <4>1, TableTypes DEF BindClient
      <3> QED
        BY <3>1, <3>2
           DEF CallbackStep, OnConnecting, OnClosedWhileConnecting, OnClosedWhileConnected,
               NextCallback, RemoveClientByConnection, SkipTakenID, ReadTakenID, PassTakenID,
               FindFreeID, TakeID,
               AdvanceID, ReserveGeneratedID, PreAcceptClient, InsertClient, tables
    <2>3. KeepsWalk
      BY <1>1, <2>1, <2>2 DEF KeepsWalk
    <2> QED
      BY <1>1, <1>2, <1>3, <1>6, <2>1, <2>3, HandsOfOthers, OrderKept
         DEF KeepsHandleQueue, KeepsOutbox
  <1> QED
    BY <1>7, <1>8

(* The loop of the connection thread moves nothing.                        *)
LEMMA OrderLoopStep == ASSUME TypeOK, OrderInv, LoopStep PROVE OrderInv'
PROOF
  <1>1. /\ UNCHANGED <<network, tables, lock, queues, place, received, sending, handling>>
        /\ pc'[ConnThread] \notin SendLabels \cup {"lockClient"}
        /\ pc'[ReqThread] = pc[ReqThread]
    BY LineTypes
       DEF LoopStep, ConnTop, CallbacksDone, IncomingDone, QueuedDone, Goto, SendLabels
  <1> QED
    BY <1>1, OrderKept
       DEF network, tables, queues, KeepsInbox, KeepsConnHand, KeepsHandleQueue, KeepsReqHand,
           KeepsSendQueue, KeepsSending, KeepsOutbox, KeepsWalk, BeingSent, SendLabels

(* The thread takes the oldest request of a connection...                  *)
LEMMA OrderReceive ==
  ASSUME TypeOK, OrderInv, NEW c \in Conns, ReceiveMessage(c),
         UNCHANGED <<outbox, serial, tables, sendQueue, sending, handling>>
  PROVE  OrderInv'
PROOF
  <1>1. /\ pc[ConnThread] = "incoming" /\ pc'[ConnThread] = "lockClient"
        /\ pc'[ReqThread] = pc[ReqThread]
        /\ received' = Head(inbox[c]) /\ inbox[c] # <<>>
        /\ inbox' = [inbox EXCEPT ![c] = Tail(@)]
        /\ place'[ConnThread].conn = c /\ UNCHANGED handleQueue
    BY LineTypes DEF ReceiveMessage, Goto
  <1>2. /\ inbox'[c] = Tail(inbox[c]) /\ inbox[c] \in Seq(IncomingRequest)
        /\ \A d \in Conns : d # c => inbox'[d] = inbox[d]
    BY <1>1, LineTypes
  <1>3. /\ 1 \in 1..Len(inbox[c]) /\ received' = inbox[c][1]
        /\ \A i \in 1..Len(inbox'[c]) :
             i \in Nat /\ i + 1 \in 1..Len(inbox[c]) /\ inbox'[c][i] = inbox[c][i + 1]
    <2> DEFINE q == inbox[c]
    <2>1. q \in Seq(IncomingRequest) /\ q # <<>>
      BY <1>1, <1>2
    <2>2. inbox'[c] = Tail(q) /\ received' = Head(q)
      BY <1>1, <1>2
    <2> HIDE DEF q
    <2>3. /\ 1 \in 1..Len(q) /\ received' = q[1]
          /\ \A i \in 1..Len(inbox'[c]) :
               i \in Nat /\ i + 1 \in 1..Len(q) /\ inbox'[c][i] = q[i + 1]
      BY <2>1, <2>2, TailOf
    <2> QED
      BY <2>3 DEF q
  <1> DEFINE one == <<c, inbox[c][1].serial>>
  <1>4. /\ KeepsReqHand /\ KeepsSending /\ KeepsHandleQueue /\ KeepsSendQueue
        /\ KeepsOutbox /\ KeepsWalk
    BY <1>1
       DEF KeepsReqHand, KeepsSending, BeingSent, SendLabels, KeepsHandleQueue, KeepsSendQueue,
           KeepsOutbox, KeepsWalk
  <1>5. one \in Line[1]
    BY <1>3, LineIs, LineTypes DEF InInbox
  <1>6. PutsOnly(Line, Line', 2, one)
    <2>1. ASSUME NEW a, NEW n, InInbox(a, n)' PROVE InInbox(a, n)
      <3>1. PICK i \in 1..Len(inbox'[a]) : inbox'[a][i].serial = n
        BY <2>1 DEF InInbox
      <3>2. a \in Conns
        BY <2>1 DEF InInbox
      <3>3. CASE a = c
        BY <1>3, <3>1, <3>2, <3>3 DEF InInbox
      <3>4. CASE a # c
        BY <1>2, <3>1, <3>2, <3>4 DEF InInbox
      <3> QED
        BY <3>3, <3>4
    <2>2. \A p \in Peers \X Nat : InConnHand(p[1], p[2])' => p = one
      BY <1>1, <1>3 DEF InConnHand
    <2>3. \A k \in 1..7 : \A p \in Peers \X Nat :
            p \in Line'[k] => p \in Line[k] \/ (k = 2 /\ p = one)
      BY <1>4, <2>1, <2>2, HandsKept, HandleQueueKept, SendQueueKept, OutboxKept, LineIs, LineIsNext
    <2> QED
      BY <2>3, LineIsNext DEF PutsOnly
  <1>7. \A p \in Line'[1] : p[1] = c => one[2] < p[2]
    <2> SUFFICES ASSUME NEW p \in Peers \X Nat, InInbox(p[1], p[2])', p[1] = c
                 PROVE  inbox[c][1].serial < p[2]
      BY LineIsNext
    <2>1. PICK i \in 1..Len(inbox'[c]) : inbox'[c][i].serial = p[2]
      BY DEF InInbox
    <2>2. i \in Nat /\ i + 1 \in 1..Len(inbox[c]) /\ inbox[c][i + 1].serial = p[2]
      BY <1>3, <2>1
    <2> QED
      BY <1>3, <2>2 DEF OrderInv, InboxRises
  <1>8. InboxRises'
    <2> SUFFICES ASSUME NEW d \in Conns, NEW i \in 1..Len(inbox'[d]), NEW j \in 1..Len(inbox'[d]),
                        i < j
                 PROVE  inbox'[d][i].serial < inbox'[d][j].serial
      BY DEF InboxRises
    <2>1. CASE d # c
      BY <1>2, <2>1 DEF OrderInv, InboxRises
    <2>2. CASE d = c
      <3>1. i \in Nat /\ i + 1 \in 1..Len(inbox[c]) /\ inbox'[c][i] = inbox[c][i + 1]
        BY <1>3, <2>2
      <3>2. j \in Nat /\ j + 1 \in 1..Len(inbox[c]) /\ inbox'[c][j] = inbox[c][j + 1]
        BY <1>3, <2>2
      <3>3. i + 1 < j + 1
        BY <3>1, <3>2
      <3>4. inbox[c][i + 1].serial < inbox[c][j + 1].serial
        BY <3>1, <3>2, <3>3 DEF OrderInv, InboxRises
      <3> QED
        BY <2>2, <3>1, <3>2, <3>4
    <2> QED
      BY <2>1, <2>2
  <1>9. InLine(Line, serial)'
    <2> HIDE DEF one
    <2>1. \A p \in Line'[1] : p[1] = one[1] => one[2] < p[2] \/ (1 = 6 /\ p[2] = one[2])
      BY <1>7 DEF one
    <2>2. InLine(Line, serial) /\ serial \in Nat /\ 1 \in 1..6 /\ 1 + 1 = 2
      BY LineTypes DEF OrderInv
    <2>3. InLine(Line', serial)
      BY <1>5, <1>6, <2>1, <2>2, LineIs, MovingLine
    <2> QED
      BY <2>3 DEF InLine
  <1> QED
    BY <1>4, <1>8, <1>9, HandsKept, HandleQueueKept, SendQueueKept, OutboxKept, SentKept DEF OrderInv

(* ... and hands it to the request thread, or drops it.                    *)
LEMMA OrderPush ==
  ASSUME TypeOK, OrderInv, PushIncoming,
         UNCHANGED <<outbox, serial, tables, sendQueue, sending, handling>>
  PROVE  OrderInv'
PROOF
  <1> DEFINE request == [type |-> received.type, claim |-> received.claim,
                         serial |-> received.serial, userID |-> place[ConnThread].id,
                         peer |-> place[ConnThread].conn, found |-> FALSE, grant |-> FALSE]
             one     == <<place[ConnThread].conn, received.serial>>
  <1>1. /\ pc[ConnThread] = "lockClient" /\ pc'[ConnThread] = "incoming"
        /\ pc'[ReqThread] = pc[ReqThread] /\ UNCHANGED inbox
        /\ request.peer = one[1] /\ request.serial = one[2]
        /\ handleQueue' = Append(handleQueue, request) \/ UNCHANGED handleQueue
    BY LineTypes DEF PushIncoming, Goto
  <1> HIDE DEF request
  <1>2. /\ KeepsInbox /\ KeepsConnHand /\ KeepsReqHand /\ KeepsSendQueue /\ KeepsSending
        /\ KeepsOutbox /\ KeepsWalk
    BY <1>1 DEF KeepsInbox, KeepsConnHand, KeepsReqHand, KeepsSendQueue, KeepsSending, BeingSent,
                SendLabels, KeepsOutbox, KeepsWalk
  <1>3. CASE UNCHANGED handleQueue
    BY <1>2, <1>3, OrderKept DEF KeepsHandleQueue
  <1>4. CASE handleQueue' = Append(handleQueue, request)
    <2>1. one \in Line[2] /\ one[1] = place[ConnThread].conn /\ one[2] = received.serial
      BY <1>1, LineIs, LineTypes DEF InConnHand
    <2> HIDE DEF one
    <2>2. \A i \in 1..Len(handleQueue') :
            \/ i \in 1..Len(handleQueue) /\ handleQueue'[i] = handleQueue[i]
            \/ i = Len(handleQueue) + 1 /\ handleQueue'[i] = request
      BY <1>4, AppendOf, LineTypes
    <2>3. PutsOnly(Line, Line', 3, one)
      <3>1. \A p \in Peers \X Nat :
              InHandleQueue(p[1], p[2])' => InHandleQueue(p[1], p[2]) \/ p = one
        <4> SUFFICES ASSUME NEW p \in Peers \X Nat, InHandleQueue(p[1], p[2])'
                     PROVE  InHandleQueue(p[1], p[2]) \/ p = one
          OBVIOUS
        <4>1. PICK i \in 1..Len(handleQueue') :
                handleQueue'[i].peer = p[1] /\ handleQueue'[i].serial = p[2]
          BY DEF InHandleQueue
        <4>2. CASE handleQueue'[i] = request
          BY <1>1, <2>1, <4>1, <4>2, LineIs
        <4>3. CASE i \in 1..Len(handleQueue) /\ handleQueue'[i] = handleQueue[i]
          BY <4>1, <4>3 DEF InHandleQueue
        <4> QED
          BY <2>2, <4>2, <4>3
      <3>2. \A k \in 1..7 : \A p \in Peers \X Nat :
              p \in Line'[k] => p \in Line[k] \/ (k = 3 /\ p = one)
        BY <1>2, <3>1, InboxKept, HandsKept, SendQueueKept, OutboxKept, LineIs, LineIsNext
      <3> QED
        BY <3>2, LineIsNext DEF PutsOnly
    <2>4. \A p \in Line'[2] : FALSE
      BY <1>1, LineIsNext DEF InConnHand
    <2>5. InLine(Line, serial)'
      <3>1. InLine(Line, serial) /\ serial \in Nat /\ 2 \in 1..6 /\ 2 + 1 = 3
        BY LineTypes DEF OrderInv
      <3>2. InLine(Line', serial)
        BY <2>1, <2>3, <2>4, <3>1, LineIs, MovingLine
      <3> QED
        BY <3>2 DEF InLine
    <2>6. HandleQueueRises'
      <3> SUFFICES ASSUME NEW i \in 1..Len(handleQueue'), NEW j \in 1..Len(handleQueue'),
                          i < j, handleQueue'[i].peer = handleQueue'[j].peer
                   PROVE  handleQueue'[i].serial < handleQueue'[j].serial
        BY DEF HandleQueueRises
      <3>1. i \in 1..Len(handleQueue) /\ handleQueue'[i] = handleQueue[i]
        BY <1>4, <2>2, AppendOf, LineTypes
      <3>2. CASE j \in 1..Len(handleQueue) /\ handleQueue'[j] = handleQueue[j]
        BY <3>1, <3>2 DEF OrderInv, HandleQueueRises
      <3>3. CASE handleQueue'[j] = request
        <4> DEFINE p == <<handleQueue[i].peer, handleQueue[i].serial>>
        <4>1. p \in Line[3] /\ p[1] = one[1] /\ p[2] = handleQueue[i].serial
          BY <1>1, <3>1, <3>3, LineIs, LineTypes DEF InHandleQueue
        <4> HIDE DEF p
        <4>2. p[2] < one[2]
          BY <2>1, <4>1 DEF OrderInv, InLine
        <4> QED
          BY <1>1, <3>1, <3>3, <4>1, <4>2
      <3> QED
        BY <2>2, <3>2, <3>3
    <2> QED
      BY <1>2, <2>5, <2>6, InboxKept, HandsKept, SendQueueKept, OutboxKept, SentKept DEF OrderInv
  <1> QED
    BY <1>1, <1>3, <1>4

LEMMA OrderIncomingStep == ASSUME TypeOK, OrderInv, IncomingStep PROVE OrderInv'
BY OrderReceive, OrderPush DEF IncomingStep

-----------------------------------------------------------------------------
(* The request thread takes the oldest request of the queue...             *)
LEMMA OrderPopHandle ==
  ASSUME TypeOK, OrderInv, PopHandle, UNCHANGED <<KeptByRequests, lock>>
  PROVE  OrderInv'
PROOF
  <1>1. /\ KeepsInbox /\ KeepsConnHand /\ KeepsHandleQueue /\ KeepsSendQueue /\ KeepsSending
        /\ KeepsOutbox /\ KeepsWalk /\ UNCHANGED serial
    <2>1. pc'[ConnThread] = pc[ConnThread] /\ UNCHANGED <<KeptByRequests, lock>>
      BY LineTypes DEF PopHandle, Goto
    <2> QED
      BY <2>1
         DEF PopHandle, KeptByRequests, network, KeepsInbox, KeepsConnHand, KeepsHandleQueue,
             KeepsSendQueue, KeepsSending, BeingSent, KeepsOutbox, KeepsWalk
  <1>2. CASE UNCHANGED <<handling, pc>>
    BY <1>1, <1>2, OrderKept DEF KeepsReqHand
  <1>3. CASE handling' = Head(handleQueue)
    <2> DEFINE one == <<handleQueue[1].peer, handleQueue[1].serial>>
    <2>1. /\ handleQueue # <<>> /\ handleQueue' = Tail(handleQueue)
          /\ pc[ReqThread] = "drain"
      BY DEF PopHandle
    <2>2. /\ 1 \in 1..Len(handleQueue) /\ handling' = handleQueue[1]
          /\ \A i \in 1..Len(handleQueue') :
               i \in Nat /\ i + 1 \in 1..Len(handleQueue) /\ handleQueue'[i] = handleQueue[i + 1]
      BY <1>3, <2>1, TailOf, LineTypes
    <2>3. one \in Line[3] /\ one[1] = handleQueue[1].peer /\ one[2] = handleQueue[1].serial
      BY <2>2, LineIs, LineTypes DEF InHandleQueue
    <2> HIDE DEF one
    <2>4. PutsOnly(Line, Line', 4, one)
      <3>1. \A p \in Peers \X Nat : InReqHand(p[1], p[2])' => p = one
        BY <2>2, <2>3, LineIs DEF InReqHand
      <3>2. \A k \in 1..7 : \A p \in Peers \X Nat :
              p \in Line'[k] => p \in Line[k] \/ (k = 4 /\ p = one)
        BY <1>1, <3>1, InboxKept, HandsKept, HandleQueueKept, SendQueueKept, OutboxKept,
           LineIs, LineIsNext
      <3> QED
        BY <3>2, LineIsNext DEF PutsOnly
    <2>5. \A p \in Line'[3] : p[1] = one[1] => one[2] < p[2]
      <3> SUFFICES ASSUME NEW p \in Peers \X Nat, InHandleQueue(p[1], p[2])', p[1] = one[1]
                   PROVE  one[2] < p[2]
        BY LineIsNext
      <3>1. PICK i \in 1..Len(handleQueue') :
              handleQueue'[i].peer = p[1] /\ handleQueue'[i].serial = p[2]
        BY DEF InHandleQueue
      <3>2. i \in Nat /\ i + 1 \in 1..Len(handleQueue) /\ 1 < i + 1
            /\ handleQueue[i + 1].peer = p[1] /\ handleQueue[i + 1].serial = p[2]
        BY <2>2, <3>1
      <3> QED
        BY <2>2, <2>3, <3>2 DEF OrderInv, HandleQueueRises
    <2>6. InLine(Line, serial)'
      <3>1. InLine(Line, serial) /\ serial \in Nat /\ 3 \in 1..6 /\ 3 + 1 = 4
        BY LineTypes DEF OrderInv
      <3>2. InLine(Line', serial)
        BY <2>3, <2>4, <2>5, <3>1, LineIs, MovingLine
      <3> QED
        BY <1>1, <3>2 DEF InLine
    <2> QED
      BY <1>1, <2>6, InboxKept, HandleQueueKept, SendQueueKept, OutboxKept, SentKept DEF OrderInv
  <1> QED
    BY <1>2, <1>3 DEF PopHandle

(* ... and queues a message for all, unless the user or the queue refuses. *)
LEMMA OrderForward ==
  ASSUME TypeOK, OrderInv, ForwardMessage, UNCHANGED <<KeptByRequests, lock>>
  PROVE  OrderInv'
PROOF
  <1> DEFINE request == ToAll(handling.userID, TRUE, handling.peer, handling.serial)
             one     == <<handling.peer, handling.serial>>
  <1>1. /\ KeepsInbox /\ KeepsConnHand /\ KeepsHandleQueue /\ KeepsReqHand /\ KeepsSending
        /\ KeepsOutbox /\ KeepsWalk /\ UNCHANGED serial
        /\ pc[ReqThread] = "forward" /\ pc'[ReqThread] = "drain"
    <2>1. pc'[ConnThread] = pc[ConnThread] /\ UNCHANGED <<KeptByRequests, lock, handleQueue>>
          /\ pc[ReqThread] = "forward" /\ pc'[ReqThread] = "drain"
      BY LineTypes DEF ForwardMessage, Handled, Goto
    <2> QED
      BY <2>1
         DEF KeptByRequests, network, KeepsInbox, KeepsConnHand, KeepsHandleQueue, KeepsReqHand,
             HandleLabels, KeepsSending, BeingSent, KeepsOutbox, KeepsWalk
  <1>2. UNCHANGED sendQueue \/ sendQueue' = Append(sendQueue, request)
    BY DEF ForwardMessage, QueueRequest
  <1>3. one \in Line[4] /\ request.peer = one[1] /\ request.serial = one[2]
    BY <1>1, LineIs, LineTypes DEF InReqHand, HandleLabels, ToAll
  <1> HIDE DEF request, one
  <1>4. CASE UNCHANGED sendQueue
    BY <1>1, <1>4, OrderKept DEF KeepsSendQueue
  <1>5. CASE sendQueue' = Append(sendQueue, request)
    <2>1. \A i \in 1..Len(sendQueue') :
            \/ i \in 1..Len(sendQueue) /\ sendQueue'[i] = sendQueue[i]
            \/ i = Len(sendQueue) + 1 /\ sendQueue'[i] = request
      BY <1>5, AppendOf, LineTypes
    <2>2. PutsOnly(Line, Line', 5, one)
      <3>1. \A p \in Peers \X Nat :
              InSendQueue(p[1], p[2])' => InSendQueue(p[1], p[2]) \/ p = one
        BY <1>3, <2>1, LineIs DEF InSendQueue
      <3>2. \A k \in 1..7 : \A p \in Peers \X Nat :
              p \in Line'[k] => p \in Line[k] \/ (k = 5 /\ p = one)
        BY <1>1, <3>1, InboxKept, HandsKept, HandleQueueKept, OutboxKept, LineIs, LineIsNext
      <3> QED
        BY <3>2, LineIsNext DEF PutsOnly
    <2>3. \A p \in Line'[4] : FALSE
      BY <1>1, LineIsNext DEF InReqHand, HandleLabels
    <2>4. InLine(Line, serial)'
      <3>1. InLine(Line, serial) /\ serial \in Nat /\ 4 \in 1..6 /\ 4 + 1 = 5
        BY LineTypes DEF OrderInv
      <3>2. InLine(Line', serial)
        BY <1>3, <2>2, <2>3, <3>1, LineIs, MovingLine
      <3> QED
        BY <1>1, <3>2 DEF InLine
    <2>5. SendQueueRises'
      <3> SUFFICES ASSUME NEW i \in 1..Len(sendQueue'), NEW j \in 1..Len(sendQueue'), i < j,
                          sendQueue'[i].toAll, sendQueue'[j].toAll,
                          sendQueue'[i].peer = sendQueue'[j].peer
                   PROVE  sendQueue'[i].serial < sendQueue'[j].serial
        BY DEF SendQueueRises
      <3>1. i \in 1..Len(sendQueue) /\ sendQueue'[i] = sendQueue[i]
        BY <1>5, <2>1, AppendOf, LineTypes
      <3>2. CASE j \in 1..Len(sendQueue) /\ sendQueue'[j] = sendQueue[j]
        BY <3>1, <3>2 DEF OrderInv, SendQueueRises
      <3>3. CASE sendQueue'[j] = request
        <4> DEFINE p == <<sendQueue[i].peer, sendQueue[i].serial>>
        <4>1. p \in Line[5] /\ p[1] = one[1] /\ p[2] = sendQueue[i].serial
          BY <1>3, <3>1, <3>3, LineIs, LineTypes DEF InSendQueue
        <4> HIDE DEF p
        <4>2. p[2] < one[2]
          BY <1>3, <4>1 DEF OrderInv, InLine
        <4> QED
          BY <1>3, <3>1, <3>3, <4>1, <4>2
      <3> QED
        BY <2>1, <3>2, <3>3
    <2> QED
      BY <1>1, <2>4, <2>5, InboxKept, HandsKept, HandleQueueKept, OutboxKept, SentKept DEF OrderInv
  <1> QED
    BY <1>2, <1>4, <1>5

(* What else it does concerns one client.                                  *)
LEMMA OrderReqStep == ASSUME TypeOK, OrderInv, ReqStep PROVE OrderInv'
PROOF
  <1>1. CASE PopHandle
    BY <1>1, OrderPopHandle DEF ReqStep
  <1>2. CASE ForwardMessage
    BY <1>2, OrderForward DEF ReqStep
  <1>3. CASE RequestTop \/ DrainDone \/ JudgeClientInfo \/ Authorize \/ AuthorizeNobody
             \/ FindAuthor
    <2>1. /\ pc'[ConnThread] = pc[ConnThread] /\ UNCHANGED <<KeptByRequests, lock, handleQueue>>
          /\ KeepsReqHand
      <3>1. CASE JudgeClientInfo
        <4>1. PICK label : Goto(ReqThread, label)
          BY <3>1 DEF JudgeClientInfo, Handled
        <4>2. /\ pc[ReqThread] = "ClientInfo" /\ UNCHANGED handleQueue
              /\ \/ pc'[ReqThread] = "drain"
                 \/ \E grant : handling' = [handling EXCEPT !.grant = grant]
          BY <3>1, LineTypes DEF JudgeClientInfo, Handled, Goto
        <4>3. pc'[ReqThread] = "drain" \/ (handling'.peer = handling.peer /\ handling'.serial = handling.serial)
          BY <4>2, LineTypes DEF HandleLabels, HandledRequest
        <4> QED
          BY <4>1, <4>2, <4>3, LineTypes DEF Goto, KeepsReqHand, HandleLabels, ReqStep
      <3>2. CASE FindAuthor
        <4>1. /\ pc[ReqThread] = "Message" /\ UNCHANGED handleQueue /\ Goto(ReqThread, "forward")
              /\ handling'.peer = handling.peer /\ handling'.serial = handling.serial
          BY <3>2, LineTypes DEF FindAuthor, HandleLabels, HandledRequest
        <4> QED
          BY <4>1, LineTypes DEF Goto, KeepsReqHand, HandleLabels, ReqStep
      <3>3. CASE RequestTop \/ DrainDone \/ Authorize \/ AuthorizeNobody
        <4>1. /\ \E label \in {"exited", "drain", "top"} : Goto(ReqThread, label)
              /\ UNCHANGED handleQueue
          BY <3>3 DEF RequestTop, DrainDone, Authorize, StoreAndAnswer, AuthorizeNobody, Handled
        <4> QED
          BY <4>1, LineTypes DEF Goto, KeepsReqHand, HandleLabels, ReqStep
      <3> QED
        BY <1>3, <3>1, <3>2, <3>3
    <2>2. KeepsSendQueue
      <3>1. CASE Authorize
        BY <3>1, QueueToOne DEF Authorize, StoreAndAnswer, ToOne
      <3> QED
        BY <1>3, <3>1
           DEF RequestTop, DrainDone, JudgeClientInfo, AuthorizeNobody, FindAuthor, KeepsSendQueue
    <2>3. /\ KeepsInbox /\ KeepsConnHand /\ KeepsHandleQueue /\ KeepsSending /\ KeepsOutbox
          /\ KeepsWalk /\ UNCHANGED serial
      BY <2>1
         DEF KeptByRequests, network, KeepsInbox, KeepsConnHand, KeepsHandleQueue, KeepsSending,
             BeingSent, KeepsOutbox, KeepsWalk
    <2> QED
      BY <2>1, <2>2, <2>3, OrderKept
  <1> QED
    BY <1>1, <1>2, <1>3 DEF ReqStep

-----------------------------------------------------------------------------
(* A user's message for all is the youngest one of its author: the server. *)
LEMMA OrderUserBroadcasts ==
  ASSUME TypeOK, OrderInv, NEW u \in UserThreads, NEW activeOnly \in BOOLEAN,
         QueueRequest(ToAll(InvalidUserID, activeOnly, NoConn, serial + 1)),
         serial' = serial + 1, UNCHANGED <<inbox, mapConnections, lock, handleQueue, outbox, pc, work>>
  PROVE  OrderInv'
PROOF
  <1> DEFINE request == ToAll(InvalidUserID, activeOnly, NoConn, serial + 1)
             one     == <<NoConn, serial + 1>>
  <1>1. /\ KeepsInbox /\ KeepsConnHand /\ KeepsHandleQueue /\ KeepsReqHand /\ KeepsSending
        /\ KeepsOutbox /\ KeepsWalk
    BY DEF work, KeepsInbox, KeepsConnHand, KeepsHandleQueue, KeepsReqHand, KeepsSending, BeingSent,
           KeepsOutbox, KeepsWalk
  <1>2. UNCHANGED sendQueue \/ sendQueue' = Append(sendQueue, request)
    BY DEF QueueRequest
  <1>3. /\ request.peer = NoConn /\ request.serial = serial + 1
        /\ one = <<NoConn, serial + 1>> /\ one[1] = NoConn /\ one[2] = serial + 1
    BY DEF ToAll
  <1> HIDE DEF request, one
  <1>4. CASE UNCHANGED sendQueue
    BY <1>1, <1>4, OrderKept DEF KeepsSendQueue
  <1>5. CASE sendQueue' = Append(sendQueue, request)
    <2>1. \A i \in 1..Len(sendQueue') :
            \/ i \in 1..Len(sendQueue) /\ sendQueue'[i] = sendQueue[i]
            \/ i = Len(sendQueue) + 1 /\ sendQueue'[i] = request
      BY <1>5, AppendOf, LineTypes
    <2>2. PutsOnly(Line, Line', 5, one)
      <3>1. \A p \in Peers \X Nat :
              InSendQueue(p[1], p[2])' => InSendQueue(p[1], p[2]) \/ p = one
        BY <1>3, <2>1, LineIs DEF InSendQueue
      <3>2. \A k \in 1..7 : \A p \in Peers \X Nat :
              p \in Line'[k] => p \in Line[k] \/ (k = 5 /\ p = one)
        BY <1>1, <3>1, InboxKept, HandsKept, HandleQueueKept, OutboxKept, LineIs, LineIsNext
      <3> QED
        BY <3>2, LineIsNext DEF PutsOnly
    <2>3. NothingBefore(Line, 5, NoConn)
      <3> SUFFICES ASSUME NEW k \in 1..7, k < 5, NEW p \in Line[k]
                   PROVE  p[1] \in Conns
        BY RegistryAssumption DEF NothingBefore
      <3>1. p \in Peers \X Nat /\ k \in {1, 2, 3, 4}
        BY LineIs
      <3>2. CASE k = 1
        BY <3>1, <3>2, LineIs DEF InInbox
      <3>3. CASE k = 2
        BY <3>1, <3>3, LineIs, LineTypes DEF InConnHand
      <3>4. CASE k = 3
        BY <3>1, <3>4, LineIs, LineTypes DEF InHandleQueue
      <3>5. CASE k = 4
        BY <3>1, <3>5, LineIs, LineTypes DEF InReqHand
      <3> QED
        BY <3>1, <3>2, <3>3, <3>4, <3>5
    <2>4. InLine(Line, serial)'
      <3>1. InLine(Line, serial) /\ serial \in Nat /\ 5 \in 1..7 /\ NoConn \in Peers
        BY LineTypes DEF OrderInv
      <3>2. InLine(Line', serial + 1)
        BY <1>3, <2>2, <2>3, <3>1, LineIs, JoiningLine
      <3> QED
        BY <3>2 DEF InLine
    <2>5. SendQueueRises'
      <3> SUFFICES ASSUME NEW i \in 1..Len(sendQueue'), NEW j \in 1..Len(sendQueue'), i < j,
                          sendQueue'[i].toAll, sendQueue'[j].toAll,
                          sendQueue'[i].peer = sendQueue'[j].peer
                   PROVE  sendQueue'[i].serial < sendQueue'[j].serial
        BY DEF SendQueueRises
      <3>1. i \in 1..Len(sendQueue) /\ sendQueue'[i] = sendQueue[i]
        BY <1>5, <2>1, AppendOf, LineTypes
      <3>2. CASE j \in 1..Len(sendQueue) /\ sendQueue'[j] = sendQueue[j]
        BY <3>1, <3>2 DEF OrderInv, SendQueueRises
      <3>3. CASE sendQueue'[j] = request
        <4> DEFINE p == <<sendQueue[i].peer, sendQueue[i].serial>>
        <4>1. p \in Line[5] /\ p[2] = sendQueue[i].serial
          BY <3>1, <3>3, LineIs, LineTypes DEF InSendQueue
        <4> HIDE DEF p
        <4>2. p[2] <= serial /\ p[2] \in Nat
          BY <4>1, LineIs DEF OrderInv, InLine
        <4> QED
          BY <1>3, <3>1, <3>3, <4>1, <4>2, LineTypes
      <3> QED
        BY <2>1, <3>2, <3>3
    <2> QED
      BY <1>1, <2>4, <2>5, InboxKept, HandsKept, HandleQueueKept, OutboxKept, SentKept DEF OrderInv
  <1> QED
    BY <1>2, <1>4, <1>5

(* The other methods move nothing forward; those that change the table of  *)
(* connections wait for the end of the walk.                               *)
LEMMA OrderUserStep ==
  ASSUME TypeOK, OrderInv, NEW u \in UserThreads, UserStep(u)
  PROVE  OrderInv'
PROOF
  <1>1. /\ UNCHANGED <<lock, handleQueue, outbox, work>>
        /\ pc'[ConnThread] = pc[ConnThread] /\ pc'[ReqThread] = pc[ReqThread]
        /\ KeepsConnHand /\ KeepsReqHand /\ KeepsSending /\ KeepsHandleQueue /\ KeepsOutbox
    <2>1. UNCHANGED pc \/ \E label : Goto(u, label)
      BY DEF UserStep, UserRemovesClient, UserReservesID, UserChangesID, UserSends,
             UserDisablesPush, UserSetsGoingExit
    <2>2. u # ConnThread /\ u # ReqThread
      BY ServerAssumption DEF CallbackThreads
    <2>3. pc'[ConnThread] = pc[ConnThread] /\ pc'[ReqThread] = pc[ReqThread]
      BY <2>1, <2>2, LineTypes DEF Goto
    <2>4. UNCHANGED <<lock, handleQueue, outbox, work>>
      BY DEF UserStep
    <2> QED
      BY <2>3, <2>4, HandsOfOthers DEF work, KeepsHandleQueue, KeepsOutbox
  <1>2. CASE UserSends(u)
    <2>1. PICK activeOnly \in BOOLEAN :
            \/ QueueRequest(ToAll(InvalidUserID, activeOnly, NoConn, serial + 1))
            \/ \E id \in UserIDs :
                 QueueRequest([ToOne(id, mapClients[id].state, mapClients[id].connection,
                                     serial + 1, FALSE) EXCEPT !.activeOnly = activeOnly])
      BY <1>2 DEF UserSends
    <2>2. serial' = serial + 1 /\ UNCHANGED <<inbox, mapConnections, pc>>
      BY <1>2 DEF UserSends
    <2>3. CASE QueueRequest(ToAll(InvalidUserID, activeOnly, NoConn, serial + 1))
      BY <1>1, <2>2, <2>3, OrderUserBroadcasts
    <2>4. ASSUME NEW id \in UserIDs,
                 QueueRequest([ToOne(id, mapClients[id].state, mapClients[id].connection,
                                     serial + 1, FALSE) EXCEPT !.activeOnly = activeOnly])
          PROVE  OrderInv'
      <3>1. KeepsSendQueue
        BY <2>4, QueueToOne DEF ToOne
      <3>2. KeepsInbox /\ KeepsWalk
        BY <1>1, <2>2 DEF KeepsInbox, KeepsWalk, work
      <3> QED
        BY <1>1, <2>2, <3>1, <3>2, OrderKept
    <2> QED
      BY <2>1, <2>3, <2>4
  <1>3. CASE UNCHANGED <<serial, sendQueue>> /\ ~UserSends(u)
    <2>1. KeepsSendQueue
      BY <1>3 DEF KeepsSendQueue
    <2>2. pc[ConnThread] = "broadcast" => UNCHANGED mapConnections
      <3>1. pc[ConnThread] = "broadcast" => ~AllFree
        BY WalkBlocksAll DEF OrderInv
      <3> QED
        BY <1>3, <3>1
           DEF UserStep, UserRemovesClient, UserReservesID, UserChangesID, UserDisablesPush,
               UserSetsGoingExit
    <2>3. KeepsInbox
      BY <1>3, LineTypes
         DEF UserStep, UserRemovesClient, UserReservesID, UserChangesID, UserDisablesPush,
             UserSetsGoingExit, CloseConnection, KeepsInbox
    <2>4. KeepsWalk
      BY <1>1, <2>2 DEF KeepsWalk, work
    <2> QED
      BY <1>1, <1>3, <2>1, <2>3, <2>4, OrderKept
  <1> QED
    BY <1>2, <1>3
       DEF UserStep, UserRemovesClient, UserReservesID, UserChangesID, UserDisablesPush,
           UserSetsGoingExit

(* The shutdown says goodbye to each client; the walk is over.             *)
LEMMA OrderShutdownStep == ASSUME TypeOK, OrderInv, ShutdownStep PROVE OrderInv'
PROOF
  <1>1. /\ UNCHANGED <<serial, lock, queues, work>>
        /\ pc[ConnThread] \in {"sweep", "kill"} /\ pc'[ConnThread] \in {"kill", "exited"}
        /\ pc'[ReqThread] = pc[ReqThread]
    BY LineTypes DEF ShutdownStep, Sweep, KillInterface, Goto
  <1>2. KeepsInbox
    BY LineTypes DEF ShutdownStep, Sweep, KillInterface, KeepsInbox
  <1>3. KeepsOutbox
    <2>1. \A c : ~Goodbye(c).toAll
      BY DEF Goodbye
    <2>2. CASE Sweep
      <3> SUFFICES ASSUME NEW c \in Conns
                   PROVE  outbox'[c] = outbox[c] \/ outbox'[c] = Append(outbox[c], Goodbye(c))
        BY <2>1 DEF KeepsOutbox
      <3> QED
        BY <2>2 DEF Sweep
    <2> QED
      BY <2>2 DEF ShutdownStep, KillInterface, KeepsOutbox
  <1>4. /\ KeepsConnHand /\ KeepsHandleQueue /\ KeepsReqHand /\ KeepsSendQueue /\ KeepsSending
        /\ KeepsWalk
    BY <1>1
       DEF queues, work, KeepsConnHand, KeepsHandleQueue, KeepsReqHand, KeepsSendQueue,
           KeepsSending, BeingSent, SendLabels, KeepsWalk
  <1> QED
    BY <1>1, <1>2, <1>3, <1>4, OrderKept

-----------------------------------------------------------------------------
(* The messages in the outboxes are typed.                                 *)
LEMMA OutboxTypes ==
  ASSUME TypeOK, NEW c \in Conns
  PROVE  /\ outbox[c] \in Seq(QueuedRequest) /\ Len(outbox[c]) \in Nat
         /\ \A i \in Broadcasts(c) :
              /\ i \in 1..Len(outbox[c]) /\ outbox[c][i].toAll
              /\ outbox[c][i].peer \in Peers /\ outbox[c][i].serial \in Nat
PROOF
  <1>1. outbox[c] \in Seq(QueuedRequest)
    BY LineTypes
  <1>2. \A i \in 1..Len(outbox[c]) : outbox[c][i] \in QueuedRequest
    BY <1>1
  <1> QED
    BY <1>1, <1>2 DEF Broadcasts, QueuedRequest

(* A message already in an outbox is in the last place.                    *)
LEMMA OutboxIsLast ==
  ASSUME TypeOK, NEW c \in Conns, NEW i \in Broadcasts(c)
  PROVE  <<outbox[c][i].peer, outbox[c][i].serial>> \in Line[7]
PROOF
  <1> DEFINE a == outbox[c][i].peer
             n == outbox[c][i].serial
  <1>1. a \in Peers /\ n \in Nat /\ InOutbox(a, n)
    BY OutboxTypes DEF InOutbox
  <1> HIDE DEF a, n
  <1>2. <<a, n>> \in Line[7]
    BY <1>1, LineIs
  <1> QED
    BY <1>2 DEF a, n

(* The thread takes the oldest queued request; nobody has it yet.          *)
LEMMA OrderPopQueued ==
  ASSUME TypeOK, OrderInv, PopQueued,
         UNCHANGED <<connState, callbacks, inbox, serial, tables, handleQueue, received, handling>>
  PROVE  OrderInv'
PROOF
  <1>1. /\ pc[ConnThread] = "queued" /\ pc'[ConnThread] = "lookup"
        /\ pc'[ReqThread] = pc[ReqThread]
        /\ sendQueue # <<>> /\ sending' = Head(sendQueue) /\ sendQueue' = Tail(sendQueue)
        /\ UNCHANGED <<outbox, lock, place>>
    BY LineTypes DEF PopQueued, Goto
  <1>2. /\ KeepsInbox /\ KeepsConnHand /\ KeepsHandleQueue /\ KeepsReqHand /\ KeepsOutbox
    BY <1>1 DEF KeepsInbox, KeepsConnHand, KeepsHandleQueue, KeepsReqHand, KeepsOutbox
  <1>3. /\ 1 \in 1..Len(sendQueue) /\ sending' = sendQueue[1]
        /\ \A i \in 1..Len(sendQueue') :
             i \in Nat /\ i + 1 \in 1..Len(sendQueue) /\ sendQueue'[i] = sendQueue[i + 1]
    BY <1>1, TailOf, LineTypes
  <1>4. SendQueueRises'
    <2> SUFFICES ASSUME NEW i \in 1..Len(sendQueue'), NEW j \in 1..Len(sendQueue'), i < j,
                        sendQueue'[i].toAll, sendQueue'[j].toAll,
                        sendQueue'[i].peer = sendQueue'[j].peer
                 PROVE  sendQueue'[i].serial < sendQueue'[j].serial
      BY DEF SendQueueRises
    <2>1. i \in Nat /\ i + 1 \in 1..Len(sendQueue) /\ sendQueue'[i] = sendQueue[i + 1]
      BY <1>3
    <2>2. j \in Nat /\ j + 1 \in 1..Len(sendQueue) /\ sendQueue'[j] = sendQueue[j + 1]
      BY <1>3
    <2>3. i + 1 < j + 1
      BY <2>1, <2>2
    <2> QED
      BY <2>1, <2>2, <2>3 DEF OrderInv, SendQueueRises
  <1>5. \A p \in Peers \X Nat : InSendQueue(p[1], p[2])' => InSendQueue(p[1], p[2])
    BY <1>3 DEF InSendQueue
  <1>6. CASE ~sending'.toAll
    <2>1. KeepsSending /\ KeepsWalk
      BY <1>1, <1>6 DEF KeepsSending, KeepsWalk, BeingSent
    <2>2. InLine(Line, serial)'
      <3>1. ASSUME NEW k \in 1..7 PROVE Line'[k] \subseteq Line[k]
        <4>1. \A p \in Peers \X Nat : p \in Line'[k] => p \in Line[k]
          BY <1>2, <1>5, <2>1, InboxKept, HandsKept, HandleQueueKept, OutboxKept, LineIs, LineIsNext
        <4> QED
          BY <4>1, LineIsNext
      <3>2. InLine(Line, serial) /\ serial \in Nat /\ serial <= serial
        BY LineTypes DEF OrderInv
      <3>3. InLine(Line', serial)
        BY <3>1, <3>2, LineIs, ShrinkingLine
      <3> QED
        BY <3>3 DEF InLine
    <2> QED
      BY <1>2, <1>4, <2>1, <2>2, InboxKept, HandleQueueKept, OutboxKept, SentKept DEF OrderInv
  <1>7. CASE sending'.toAll
    <2> DEFINE one == <<sendQueue[1].peer, sendQueue[1].serial>>
    <2>1. one \in Line[5] /\ one[1] = sendQueue[1].peer /\ one[2] = sendQueue[1].serial
      BY <1>3, <1>7, LineIs, LineTypes DEF InSendQueue
    <2> HIDE DEF one
    <2>2. PutsOnly(Line, Line', 6, one)
      <3>1. \A p \in Peers \X Nat : InSending(p[1], p[2])' => p = one
        BY <1>3, <2>1, LineIs DEF InSending
      <3>2. \A k \in 1..7 : \A p \in Peers \X Nat :
              p \in Line'[k] => p \in Line[k] \/ (k = 6 /\ p = one)
        BY <1>2, <1>5, <3>1, InboxKept, HandsKept, HandleQueueKept, OutboxKept, LineIs, LineIsNext
      <3> QED
        BY <3>2, LineIsNext DEF PutsOnly
    <2>3. \A p \in Line'[5] : p[1] = one[1] => one[2] < p[2]
      <3> SUFFICES ASSUME NEW p \in Peers \X Nat, InSendQueue(p[1], p[2])', p[1] = one[1]
                   PROVE  one[2] < p[2]
        BY LineIsNext
      <3>1. PICK i \in 1..Len(sendQueue') :
              /\ sendQueue'[i].toAll
              /\ sendQueue'[i].peer = p[1] /\ sendQueue'[i].serial = p[2]
        BY DEF InSendQueue
      <3>2. i \in Nat /\ i + 1 \in 1..Len(sendQueue) /\ 1 < i + 1 /\ sendQueue[i + 1].toAll
            /\ sendQueue[i + 1].peer = p[1] /\ sendQueue[i + 1].serial = p[2]
        BY <1>3, <3>1
      <3> QED
        BY <1>3, <1>7, <2>1, <3>2 DEF OrderInv, SendQueueRises
    <2>4. InLine(Line, serial)'
      <3>1. InLine(Line, serial) /\ serial \in Nat /\ 5 \in 1..6 /\ 5 + 1 = 6
        BY LineTypes DEF OrderInv
      <3>2. InLine(Line', serial)
        BY <2>1, <2>2, <2>3, <3>1, LineIs, MovingLine
      <3> QED
        BY <3>2 DEF InLine
    <2>5. SentIsPassed'
      <3> SUFFICES ASSUME NEW c \in Conns, NEW i \in Broadcasts(c)',
                          outbox'[c][i].serial = sending'.serial
                   PROVE  FALSE
        BY DEF SentIsPassed
      <3>1. i \in Broadcasts(c) /\ outbox[c][i].serial = one[2]
        BY <1>1, <1>3, <2>1 DEF Broadcasts
      <3> DEFINE old == <<outbox[c][i].peer, outbox[c][i].serial>>
      <3>2. old \in Line[7] /\ old[2] = one[2]
        BY <3>1, OutboxIsLast
      <3> HIDE DEF old
      <3>3. old[1] = one[1] /\ old[2] < one[2]
        BY <2>1, <3>2 DEF OrderInv, InLine
      <3>4. one[2] \in Nat
        BY <2>1, LineIs
      <3> QED
        BY <3>2, <3>3, <3>4
    <2>6. WalkHoldsZero'
      BY <1>1 DEF WalkHoldsZero
    <2> QED
      BY <1>2, <1>4, <2>4, <2>5, <2>6, InboxKept, HandleQueueKept, OutboxKept DEF OrderInv
  <1> QED
    BY <1>6, <1>7

(* The walk comes to a client: it gets the message once, after all it has  *)
(* got before, and so does everybody else who gets it.                     *)
LEMMA OrderBroadcastTo ==
  ASSUME TypeOK, ClientsAgree, OrderInv, NEW id \in UserIDs, BroadcastTo(id),
         UNCHANGED <<connState, callbacks, inbox, serial, tables, handleQueue, received, handling>>
  PROVE  OrderInv'
PROOF
  <1>1. /\ pc[ConnThread] = "broadcast" /\ UNCHANGED <<lock, sendQueue, pc, sending>>
        /\ place'[ConnThread].id = id /\ place[ConnThread].id < id
        /\ mapClients[id] # NoClient
    BY LineTypes DEF BroadcastTo, KeysAhead
  <1>2. /\ KeepsInbox /\ KeepsConnHand /\ KeepsHandleQueue /\ KeepsReqHand /\ KeepsSendQueue
        /\ KeepsSending /\ KeepsWalk
    BY <1>1
       DEF tables, KeepsInbox, KeepsConnHand, KeepsHandleQueue, KeepsReqHand, KeepsSendQueue,
           KeepsSending, BeingSent, KeepsWalk
  <1>3. BeingSent /\ BeingSent' /\ sending.toAll
    BY <1>1 DEF BeingSent, SendLabels, OrderInv, WalkHoldsZero
  <1> DEFINE n == sending.serial
  <1>4. CASE UNCHANGED outbox
    BY <1>2, <1>4, OrderKept DEF KeepsOutbox
  <1>5. ASSUME NEW to \in Conns, to = mapClients[id].connection, SendTo({to}, sending)
        PROVE  OrderInv'
    <2>1. /\ \A c \in Conns : c # to => outbox'[c] = outbox[c]
          /\ outbox'[to] = outbox[to] \/ outbox'[to] = Append(outbox[to], sending)
      BY <1>5 DEF SendTo
    <2>2. mapConnections[to] = id
      BY <1>1, <1>5, RegistryAssumption DEF ClientsAgree
    <2>3. CASE outbox'[to] = outbox[to]
      BY <1>2, <2>1, <2>3, OrderKept DEF KeepsOutbox
    <2>4. CASE outbox'[to] = Append(outbox[to], sending)
      <3> DEFINE new == Len(outbox[to]) + 1
      <3>1. to \in Conns /\ n \in Nat /\ sending.peer \in Peers /\ outbox[to] \in Seq(QueuedRequest)
            /\ Len(outbox[to]) \in Nat
        BY <1>1, <1>5, LineTypes, OutboxTypes DEF SendLabels
      <3>2. /\ Broadcasts(to)' = Broadcasts(to) \cup {new} /\ outbox'[to][new] = sending
            /\ \A i \in Broadcasts(to) : i < new /\ outbox'[to][i] = outbox[to][i]
        <4>1. /\ Len(outbox'[to]) = new /\ outbox'[to][new] = sending
              /\ \A i \in 1..Len(outbox[to]) : outbox'[to][i] = outbox[to][i]
              /\ \A i \in 1..Len(outbox'[to]) : i \in 1..Len(outbox[to]) \/ i = new
          BY <2>4, <3>1, AppendOf
        <4>2. \A i \in Broadcasts(to) : i < new /\ outbox'[to][i] = outbox[to][i]
          BY <3>1, <4>1 DEF Broadcasts
        <4>3. \A i : i \in Broadcasts(to)' <=> i \in Broadcasts(to) \/ i = new
          BY <1>3, <3>1, <4>1 DEF Broadcasts
        <4> QED
          BY <4>1, <4>2, <4>3
      <3>3. \A c \in Conns : c # to => Broadcasts(c)' = Broadcasts(c)
        BY <2>1 DEF Broadcasts
      <3> HIDE DEF new, n
      (* Nobody ahead of the iterator has the message.                     *)
      <3>4. \A i \in Broadcasts(to) : outbox[to][i].serial # n
        <4> SUFFICES ASSUME NEW i \in Broadcasts(to), outbox[to][i].serial = n
                     PROVE  FALSE
          OBVIOUS
        <4>1. mapConnections[to] <= place[ConnThread].id
          BY <1>3, <3>1 DEF OrderInv, SentIsPassed, n
        <4>2. id \in Nat /\ place[ConnThread].id \in Nat
          BY LineTypes DEF UserIDs
        <4> QED
          BY <1>1, <2>2, <4>1, <4>2
      <3>5. SentIsPassed'
        <4> SUFFICES ASSUME NEW c \in Conns, NEW i \in Broadcasts(c)',
                            outbox'[c][i].serial = n
                     PROVE  /\ pc'[ConnThread] = "broadcast"
                            /\ mapConnections'[c] <= place'[ConnThread].id
                            /\ \A j \in Broadcasts(c)' : j <= i
          BY <1>1 DEF SentIsPassed, n
        <4>1. mapConnections' = mapConnections /\ id \in Nat /\ place[ConnThread].id \in Nat
              /\ mapConnections[c] \in Nat
          BY LineTypes DEF tables, UserIDs, TypeOK, TablesOK, ConnectionsMap
        <4>2. CASE c = to
          <5>1. i = new
            BY <3>2, <3>4, <4>2
          <5>2. \A j \in Broadcasts(c)' : j <= i
            BY <3>1, <3>2, <4>2, <5>1, OutboxTypes DEF new
          <5> QED
            BY <1>1, <2>2, <4>1, <4>2, <5>2
        <4>3. CASE c # to
          <5>1. i \in Broadcasts(c) /\ outbox[c][i].serial = n
            BY <2>1, <3>3, <4>3
          <5>2. mapConnections[c] <= place[ConnThread].id /\ \A j \in Broadcasts(c) : j <= i
            BY <1>3, <5>1 DEF OrderInv, SentIsPassed, n
          <5> QED
            BY <1>1, <3>3, <4>1, <4>3, <5>2
        <4> QED
          BY <4>2, <4>3
      <3>6. InLine(Line, serial)'
        <4> DEFINE one == <<sending.peer, n>>
        <4>1. one \in Line[6] /\ one[1] = sending.peer /\ one[2] = n
          BY <1>3, <3>1, LineIs DEF InSending, n
        <4> HIDE DEF one
        <4>2. \A p \in Peers \X Nat : InOutbox(p[1], p[2])' => InOutbox(p[1], p[2]) \/ p = one
          <5> SUFFICES ASSUME NEW p \in Peers \X Nat, InOutbox(p[1], p[2])'
                       PROVE  InOutbox(p[1], p[2]) \/ p = one
            OBVIOUS
          <5>0. PICK c \in Conns : \E i \in Broadcasts(c)' :
                  outbox'[c][i].peer = p[1] /\ outbox'[c][i].serial = p[2]
            BY DEF InOutbox
          <5>1. PICK i \in Broadcasts(c)' :
                  outbox'[c][i].peer = p[1] /\ outbox'[c][i].serial = p[2]
            BY <5>0
          <5>2. CASE c = to /\ i = new
            BY <3>2, <4>1, <5>1, <5>2, LineIs DEF n
          <5>3. CASE i \in Broadcasts(c) /\ outbox'[c][i] = outbox[c][i]
            BY <5>1, <5>3 DEF InOutbox
          <5> QED
            BY <2>1, <3>2, <3>3, <5>2, <5>3
        <4>3. PutsOnly(Line, Line', 7, one)
          <5>1. \A k \in 1..7 : \A p \in Peers \X Nat :
                  p \in Line'[k] => p \in Line[k] \/ (k = 7 /\ p = one)
            BY <1>2, <4>2, InboxKept, HandsKept, HandleQueueKept, SendQueueKept, LineIs, LineIsNext
          <5> QED
            BY <5>1, LineIsNext DEF PutsOnly
        <4>4. \A p \in Line'[6] : p[2] = one[2]
          BY <1>1, <4>1, LineIsNext DEF InSending, n
        <4>5. InLine(Line, serial) /\ serial \in Nat /\ 6 \in 1..6 /\ 6 + 1 = 7
          BY LineTypes DEF OrderInv
        <4>6. InLine(Line', serial)
          BY <4>1, <4>3, <4>4, <4>5, LineIs, MovingLine
        <4> QED
          BY <4>6 DEF InLine
      <3>7. AuthorOrder'
        <4> SUFFICES ASSUME NEW c \in Conns, NEW i \in Broadcasts(c)', NEW j \in Broadcasts(c)',
                            i < j, outbox'[c][i].peer = outbox'[c][j].peer
                     PROVE  outbox'[c][i].serial < outbox'[c][j].serial
          BY DEF AuthorOrder
        <4>1. CASE c # to
          BY <2>1, <3>3, <4>1 DEF OrderInv, AuthorOrder
        <4>2. CASE c = to
          <5>1. i \in Broadcasts(to) /\ outbox'[to][i] = outbox[to][i]
            BY <3>1, <3>2, <4>2, OutboxTypes DEF new
          <5>2. CASE j \in Broadcasts(to)
            BY <3>1, <3>2, <4>2, <5>1, <5>2 DEF OrderInv, AuthorOrder
          <5>3. CASE j = new
            <6> DEFINE old == <<outbox[to][i].peer, outbox[to][i].serial>>
                       one == <<sending.peer, n>>
            <6>1. /\ old \in Line[7] /\ old[1] = one[1] /\ old[2] = outbox[to][i].serial
                  /\ one[2] = n
              BY <3>1, <3>2, <4>2, <5>1, <5>3, OutboxIsLast
            <6>2. one \in Line[6]
              BY <1>3, <3>1, LineIs DEF InSending, n
            <6> HIDE DEF old, one
            <6>3. old[2] < one[2] \/ old[2] = one[2]
              BY <6>1, <6>2 DEF OrderInv, InLine
            <6>4. outbox[to][i].serial < n
              BY <3>4, <5>1, <6>1, <6>3
            <6> QED
              BY <3>2, <4>2, <5>1, <5>3, <6>4 DEF n
          <5> QED
            BY <3>2, <4>2, <5>2, <5>3
        <4> QED
          BY <4>1, <4>2
      <3>8. SameOrder'
        <4> SUFFICES ASSUME NEW c \in Conns, NEW d \in Conns,
                            NEW i \in Broadcasts(c)', NEW j \in Broadcasts(c)',
                            NEW k \in Broadcasts(d)', NEW l \in Broadcasts(d)',
                            outbox'[c][i].serial = outbox'[d][k].serial,
                            outbox'[c][j].serial = outbox'[d][l].serial
                     PROVE  i < j <=> k < l
          BY DEF SameOrder
        <4>1. \A e \in Conns : \A m \in Broadcasts(e)' :
                /\ m \in Nat
                /\ outbox'[e][m].serial = n => \A o \in Broadcasts(e)' : o <= m
                /\ outbox'[e][m].serial # n => m \in Broadcasts(e) /\ outbox'[e][m] = outbox[e][m]
          <5> TAKE e \in Conns
          <5> TAKE m \in Broadcasts(e)'
          <5>1. m \in Nat
            BY DEF Broadcasts
          <5>2. outbox'[e][m].serial = n => \A o \in Broadcasts(e)' : o <= m
            BY <1>1, <1>3, <3>5 DEF SentIsPassed, n
          <5>3. outbox'[e][m].serial # n => m \in Broadcasts(e) /\ outbox'[e][m] = outbox[e][m]
            BY <2>1, <3>2, <3>3 DEF n
          <5> QED
            BY <5>1, <5>2, <5>3
        <4>2. CASE outbox'[c][i].serial = n
          <5>1. j \in Nat /\ l \in Nat /\ i \in Nat /\ k \in Nat /\ j <= i /\ l <= k
            BY <4>1, <4>2
          <5> QED
            BY <5>1
        <4>3. CASE outbox'[c][i].serial # n /\ outbox'[c][j].serial = n
          <5>1. j \in Nat /\ l \in Nat /\ i \in Nat /\ k \in Nat /\ i <= j /\ k <= l
            BY <4>1, <4>3
          <5>2. i # j /\ k # l
            BY <4>3
          <5> QED
            BY <5>1, <5>2
        <4>4. CASE outbox'[c][i].serial # n /\ outbox'[c][j].serial # n
          BY <4>1, <4>4 DEF OrderInv, SameOrder
        <4> QED
          BY <4>2, <4>3, <4>4
      <3>9. WalkHoldsZero'
        BY <1>1 DEF OrderInv, WalkHoldsZero
      <3> QED
        BY <1>2, <3>5, <3>6, <3>7, <3>8, <3>9, InboxKept, HandleQueueKept, SendQueueKept
           DEF OrderInv
    <2> QED
      BY <2>1, <2>3, <2>4
  <1>6. CASE mapClients[id].connection \notin Conns /\ SendTo({mapClients[id].connection}, sending)
    <2>1. \A c \in Conns : outbox'[c] = outbox[c]
      BY <1>6 DEF SendTo
    <2> QED
      BY <1>2, <2>1, OrderKept DEF KeepsOutbox
  <1> QED
    BY <1>4, <1>5, <1>6 DEF BroadcastTo

(* What else it does with a queued request puts no message anywhere.       *)
LEMMA OrderQueuedStep ==
  ASSUME TypeOK, ClientsAgree, OrderInv, QueuedStep
  PROVE  OrderInv'
PROOF
  <1> USE DEF QueuedStep
  <1>1. CASE PopQueued
    BY <1>1, OrderPopQueued
  <1>2. ASSUME NEW id \in UserIDs, BroadcastTo(id) PROVE OrderInv'
    BY <1>2, OrderBroadcastTo
  <1>3. CASE SendToOne \/ FindExcluded \/ StartBroadcast \/ EndBroadcast
    <2>1. /\ UNCHANGED <<inbox, serial, tables, handleQueue, received, handling, sendQueue>>
          /\ pc[ConnThread] \in {"lookup", "startAll", "broadcast"}
          /\ pc'[ConnThread] \in {"queued", "startAll", "broadcast"}
          /\ pc'[ReqThread] = pc[ReqThread]
      BY <1>3, LineTypes DEF SendToOne, FindExcluded, StartBroadcast, EndBroadcast, Goto
    <2>2. /\ KeepsInbox /\ KeepsConnHand /\ KeepsHandleQueue /\ KeepsReqHand /\ KeepsSendQueue
      BY <2>1 DEF KeepsInbox, KeepsConnHand, KeepsHandleQueue, KeepsReqHand, KeepsSendQueue
    <2>3. KeepsOutbox
      <3>1. CASE SendToOne
        <4> SUFFICES ASSUME NEW c \in Conns
                     PROVE  outbox'[c] = outbox[c] \/ outbox'[c] = Append(outbox[c], sending)
          BY <3>1 DEF SendToOne, KeepsOutbox
        <4> QED
          BY <3>1 DEF SendToOne, SendTo
      <3> QED
        BY <1>3, <3>1 DEF FindExcluded, StartBroadcast, EndBroadcast, KeepsOutbox
    <2>4. KeepsSending
      <3>1. CASE SendToOne \/ EndBroadcast
        <4>1. pc'[ConnThread] = "queued"
          BY <3>1, LineTypes DEF SendToOne, EndBroadcast, Goto
        <4> QED
          BY <4>1 DEF KeepsSending, BeingSent, SendLabels
      <3>2. CASE FindExcluded \/ StartBroadcast
        BY <2>1, <3>2 DEF FindExcluded, StartBroadcast, KeepsSending, BeingSent, SendLabels
      <3> QED
        BY <1>3, <3>1, <3>2
    <2>5. KeepsWalk
      <3>1. CASE SendToOne \/ EndBroadcast
        <4>1. pc'[ConnThread] = "queued"
          BY <3>1, LineTypes DEF SendToOne, EndBroadcast, Goto
        <4> QED
          BY <4>1 DEF KeepsWalk, BeingSent, SendLabels
      <3>2. CASE FindExcluded
        <4>1. /\ pc[ConnThread] = "lookup" /\ pc'[ConnThread] = "startAll"
              /\ sending.toAll /\ UNCHANGED sending
          BY <3>2, LineTypes DEF FindExcluded, Goto
        <4> QED
          BY <4>1 DEF KeepsWalk
      <3>3. CASE StartBroadcast
        <4>1. /\ pc[ConnThread] = "startAll" /\ pc'[ConnThread] = "broadcast" /\ UNCHANGED sending
              /\ lock'[InvalidUserID] = ConnThread
          BY <3>3, LineTypes, RegistryAssumption
             DEF StartBroadcast, Goto, TypeOK, TablesOK, UserIDs, InvalidUserID
        <4> QED
          BY <4>1 DEF KeepsWalk
      <3> QED
        BY <1>3, <3>1, <3>2, <3>3
    <2> QED
      BY <2>1, <2>2, <2>3, <2>4, <2>5, OrderKept
  <1> QED
    BY <1>1, <1>2, <1>3

LEMMA OrderConnStep ==
  ASSUME TypeOK, ClientsAgree, OrderInv, ConnStep
  PROVE  OrderInv'
BY OrderCallbackStep, OrderLoopStep, OrderIncomingStep, OrderQueuedStep, OrderShutdownStep
   DEF ConnStep, CallbackThreads

LEMMA OrderStep ==
  ASSUME TypeOK, ClientsAgree, OrderInv, [Next]_vars
  PROVE  OrderInv'
PROOF
  <1>1. CASE Environment
    BY <1>1, OrderEnvironment
  <1>2. CASE ConnStep
    BY <1>2, OrderConnStep
  <1>3. ASSUME NEW t \in OtherCallbackThreads, CallbackStep(t) PROVE OrderInv'
    BY <1>3, OrderCallbackStep DEF CallbackThreads
  <1>4. CASE ReqStep
    BY <1>4, OrderReqStep
  <1>5. ASSUME NEW u \in UserThreads, UserStep(u) PROVE OrderInv'
    BY <1>5, OrderUserStep
  <1>6. CASE UNCHANGED vars
    BY <1>6, OrderKept
       DEF vars, network, tables, queues, work, KeepsInbox, KeepsConnHand, KeepsHandleQueue,
           KeepsReqHand, KeepsSendQueue, KeepsSending, KeepsOutbox, KeepsWalk, BeingSent
  <1> QED
    BY <1>1, <1>2, <1>3, <1>4, <1>5, <1>6 DEF Next, Terminated

LEMMA OrderInit == Init => OrderInv
PROOF
  <1> SUFFICES ASSUME Init PROVE OrderInv
    OBVIOUS
  <1>1. /\ \A c \in Conns : inbox[c] = <<>> /\ outbox[c] = <<>>
        /\ handleQueue = <<>> /\ sendQueue = <<>>
        /\ pc[ConnThread] = "top" /\ pc[ReqThread] = "top"
    <2>1. pc[ConnThread] = "top" /\ pc[ReqThread] = "top"
      BY ThreadsDiffer, ServerAssumption DEF Init
    <2> QED
      BY <2>1 DEF Init
  <1>2. \A c \in Conns : Broadcasts(c) = {}
    <2> TAKE c \in Conns
    <2>1. Len(outbox[c]) = 0
      BY <1>1
    <2> QED
      BY <2>1 DEF Broadcasts
  <1>3. \A p \in Peers \X Nat, k \in 1..7 : p \notin Line[k]
    BY <1>1, <1>2, LineIs
       DEF InInbox, InConnHand, InHandleQueue, InReqHand, HandleLabels, InSendQueue, InSending,
           BeingSent, SendLabels, InOutbox
  <1>4. InLine(Line, serial)
    BY <1>3, LineIs DEF InLine
  <1>5. InboxRises /\ HandleQueueRises /\ SendQueueRises
    BY <1>1 DEF InboxRises, HandleQueueRises, SendQueueRises
  <1>6. SentIsPassed /\ WalkHoldsZero /\ AuthorOrder /\ SameOrder
    BY <1>1, <1>2
       DEF SentIsPassed, BeingSent, SendLabels, WalkHoldsZero, AuthorOrder, SameOrder
  <1> QED
    BY <1>4, <1>5, <1>6 DEF OrderInv

-----------------------------------------------------------------------------
(* PollQueuedRequests, QueueRequest and the two queues (ChatServer.cpp and *)
(* SafeQueue.h) keep the order of the messages: with the two tables in     *)
(* agreement, and whatever connections come and go, requests are refused,  *)
(* and clients are locked, changed or removed meanwhile, an author's       *)
(* messages reach a client in the order it sent them, once each, and any   *)
(* two clients get the messages they both get in the same order.           *)
THEOREM OrderIfTablesAgree == Spec /\ []ClientsAgree => [](AuthorOrder /\ SameOrder)
PROOF
  <1>1. Init => OrderInv
    BY OrderInit
  <1>2. TypeOK /\ ClientsAgree /\ OrderInv /\ [Next]_vars => OrderInv'
    BY OrderStep
  <1>3. OrderInv => AuthorOrder /\ SameOrder
    BY DEF OrderInv
  <1> QED
    BY <1>1, <1>2, <1>3, TypeCorrect, PTL DEF Spec

(* So they do when no other socket's thread runs the callbacks of the      *)
(* server and no client is moved to the very id AcceptClient is about to   *)
(* use, whatever other ids the user changes.                               *)
THEOREM OrderAcrossChanges ==
  ASSUME OwnCallbacksOnly
  PROVE  Spec /\ [][ChangesSpareGenerated]_vars => [](AuthorOrder /\ SameOrder)
PROOF
  <1>1. Spec /\ [][ChangesSpareGenerated]_vars => []TablesAgree
    BY TablesAgreeAcrossChanges
  <1>2. TablesAgree => ClientsAgree
    BY DEF TablesAgree
  <1>3. Spec /\ []ClientsAgree => [](AuthorOrder /\ SameOrder)
    BY OrderIfTablesAgree
  <1> QED
    BY <1>1, <1>2, <1>3, PTL

(* In particular when the user changes no ids: the messages of an author   *)
(* arrive in the order it sent them, once each ...                         *)
THEOREM MessagesInOrder ==
  ASSUME OwnCallbacksOnly, NoIdChange
  PROVE  Spec => []AuthorOrder
PROOF
  <1>1. ChangesSpareGenerated
    BY NoChangeSpares
  <1>2. Spec /\ [][ChangesSpareGenerated]_vars => [](AuthorOrder /\ SameOrder)
    BY OrderAcrossChanges
  <1> QED
    BY <1>1, <1>2, PTL

(* ... and clients that get the same messages get them in the same order,  *)
(* whoever the authors are.                                                *)
THEOREM OneOrderForAll ==
  ASSUME OwnCallbacksOnly, NoIdChange
  PROVE  Spec => []SameOrder
PROOF
  <1>1. ChangesSpareGenerated
    BY NoChangeSpares
  <1>2. Spec /\ [][ChangesSpareGenerated]_vars => [](AuthorOrder /\ SameOrder)
    BY OrderAcrossChanges
  <1> QED
    BY <1>1, <1>2, PTL

=============================================================================
