-------------------------- MODULE ChatSocketProofs --------------------------
(* Proofs about ChatSocket, for any number of threads and requests and any *)
(* limit of the queue.                                                     *)
EXTENDS ChatSocketProperties, FiniteSetTheorems, SequenceTheorems, TLAPS

(* The assumption on the constants, in the form the provers need.          *)
LEMMA Numbers == MaxRuns \in Nat /\ MaxQueueSize \in Nat /\ MaxQueueSize > 0
  <1>1. MaxRuns \in Nat /\ MaxQueueSize \in Nat \ {0}
    BY SocketAssumption
  <1>2. QED
    BY <1>1

LEMMA WhoIsWho ==
  /\ Owner \in Users /\ ConnThread \notin Users /\ ReqThread \notin Users
  /\ ConnThread # ReqThread /\ NoRequest \notin Requests
  BY SocketAssumption DEF SocketThreads

(* What the methods of a SafeQueue do to a queue of T.                     *)
LEMMA QueueMethods ==
  ASSUME NEW T, NEW q \in SafeQueues(T), NEW v \in T
  PROVE  /\ q.items \in Seq(T) /\ q.pushEnabled \in BOOLEAN
         /\ EnablePush(q) \in SafeQueues(T) /\ EnablePush(q).items = q.items
         /\ EnablePush(q).pushEnabled
         /\ DisablePush(q) \in SafeQueues(T) /\ DisablePush(q).items = q.items
         /\ ~DisablePush(q).pushEnabled
         /\ Push(q, v) \in SafeQueues(T) /\ Push(q, v).pushEnabled = q.pushEnabled
         /\ Push(q, v).items = IF q.pushEnabled THEN Append(q.items, v) ELSE q.items
  BY DEF SafeQueues, EnablePush, DisablePush, Push, PushAllowed

LEMMA QueueItems ==
  ASSUME NEW T, NEW q \in SafeQueues(T)
  PROVE  /\ q.items \in Seq(T) /\ q.pushEnabled \in BOOLEAN
         /\ [items |-> <<>>, pushEnabled |-> q.pushEnabled] \in SafeQueues(T)
  BY DEF SafeQueues

LEMMA QueuePop ==
  ASSUME NEW T, NEW q \in SafeQueues(T), ~IsEmpty(q)
  PROVE  /\ Front(q) \in T
         /\ Pop(q) \in SafeQueues(T)
         /\ Pop(q).items = Tail(q.items)
         /\ Pop(q).pushEnabled = q.pushEnabled
  <1>1. q.items \in Seq(T) /\ q.items # <<>>
    BY DEF SafeQueues, IsEmpty
  <1>2. Tail(q.items) \in Seq(T) /\ Head(q.items) \in T
    BY <1>1
  <1>3. QED
    BY <1>2 DEF SafeQueues, Front, Pop

-----------------------------------------------------------------------------
(* Types of the flags; the other lemmas leave them alone.                  *)

LEMMA InitFlags == Init => FlagTypes
  BY Zenon DEF Init, FlagTypes, Closings

LEMMA NextFlags == FlagTypes /\ [Next]_vars => FlagTypes'
  <1> SUFFICES ASSUME FlagTypes, [Next]_vars PROVE FlagTypes'
    OBVIOUS
  <1> USE DEF FlagTypes, Closings
  <1>1. CASE OwnerCalls \/ RunStep
    BY <1>1, Zenon DEF OwnerCalls, RunPrepares, WaitBegins, Destroy, RunStep, RunFails, RunStarts,
       SpawnConnThread, SpawnReqThread, SpawnThread
  <1>2. CASE WaitStep \/ ConnStep \/ ReqEnds
    BY <1>2, Zenon DEF WaitStep, JoinConnThread, JoinReqThread, ConnStep, ReqEnds, ConnTop, StartPolling,
       PopQueued, SendQueued, PollingDone
  <1>3. ASSUME NEW t \in Threads, Call(t)
        PROVE  FlagTypes'
    BY <1>3, Zenon DEF Call, CloseBegins, QueueChecks
  <1>4. ASSUME NEW t \in Threads, MethodStep(t)
        PROVE  FlagTypes'
    BY <1>4, Zenon DEF MethodStep, CloseDisablesPush, CloseExits, QueuePushes
  <1>5. CASE UNCHANGED vars \/ Over
    BY <1>5, Zenon DEF vars, Over
  <1>6. QED
    BY <1>1, <1>2, <1>3, <1>4, <1>5, Zenon DEF Next

-----------------------------------------------------------------------------
(* Types of the rest, where the threads are, and who holds a request.      *)

Gone == {"null", "dangling"}

ThreadPlaces ==
  /\ \A t \in SocketThreads : pc[t] # "none" <=> thread[t] = "running"
  /\ At(Owner, "starting") \/ At(Owner, "spawn connection") => thread[ConnThread] \in Gone
  /\ At(Owner, "starting") \/ At(Owner, "spawn connection") \/ At(Owner, "spawn request")
       => thread[ReqThread] \in Gone
  /\ waited => \A t \in SocketThreads : thread[t] \in {"joined", "dangling"}
  /\ At(Owner, "spawn connection") \/ At(Owner, "spawn request") => ~waited
  /\ At(Owner, "join request") => thread[ConnThread] = "joined"

Hands == \A t \in Threads : pc[t] \in {"push", "send"} <=> hand[t] # NoRequest

SocketInv == SocketTypes /\ ThreadPlaces /\ Hands

LEMMA InitInv == Init => SocketInv
  <1> SUFFICES ASSUME Init PROVE SocketInv
    OBVIOUS
  <1>1. sendQueue \in SafeQueues(Requests)
    BY DEF Init, NewSafeQueue, SafeQueues
  <1>2. SocketTypes
    <2>1. thread \in [SocketThreads -> ThreadStates] /\ object = "alive"
      BY DEF Init, ThreadStates
    <2>2. pc \in [Threads -> Labels]
      BY DEF Init, Labels
    <2>3. hand \in [Threads -> Requests \cup {NoRequest}] /\ outcome \in [Requests -> Outcomes]
      BY DEF Init, Outcomes
    <2>4. runs \in 0..MaxRuns
      BY Numbers DEF Init
    <2>5. QED
      BY <1>1, <2>1, <2>2, <2>3, <2>4 DEF SocketTypes
  <1>3. ThreadPlaces /\ Hands
    BY WhoIsWho DEF Init, ThreadPlaces, Hands, At, Threads, SocketThreads
  <1>4. QED
    BY <1>2, <1>3 DEF SocketInv

(* delete on the pointers leaves none behind that a thread runs on.        *)
LEMMA DeletedThreads ==
  ASSUME NEW next \in {"alive", "destroyed"}, SocketTypes, DeleteThreads(next)
  PROVE  /\ thread' \in [SocketThreads -> ThreadStates]
         /\ object' \in {next, "terminated", "double delete"}
         /\ object' = next => \A t \in SocketThreads :
              \/ thread[t] = "null" /\ thread'[t] = "null"
              \/ thread[t] = "joined" /\ thread'[t] = "dangling"
         /\ object' # next => thread' = thread
  BY DEF DeleteThreads, SocketTypes, ThreadStates, Gone

LEMMA RunPreparesInv == SocketInv /\ RunPrepares => SocketInv'
  <1> SUFFICES ASSUME SocketInv, RunPrepares PROVE SocketInv'
    OBVIOUS
  <1>1. EnablePush(sendQueue) \in SafeQueues(Requests)
    BY DEF SocketInv, SocketTypes, SafeQueues, EnablePush
  <1>2. /\ thread' \in [SocketThreads -> ThreadStates]
        /\ object' \in {"alive", "terminated", "double delete"}
        /\ object' = "alive" => \A t \in SocketThreads :
             \/ thread[t] = "null" /\ thread'[t] = "null"
             \/ thread[t] = "joined" /\ thread'[t] = "dangling"
        /\ object' # "alive" => thread' = thread
    BY DeletedThreads DEF RunPrepares, SocketInv
  <1>3. SocketTypes'
    <2>1. pc' \in [Threads -> Labels] /\ pc' = [pc EXCEPT ![Owner] = "starting"]
      BY DEF RunPrepares, SocketInv, SocketTypes, Goto, Labels
    <2>2. runs' \in 0..MaxRuns
      <3>1. runs \in 0..MaxRuns /\ runs < MaxRuns /\ runs' = runs + 1
        BY DEF RunPrepares, SocketInv, SocketTypes
      <3>2. QED
        BY <3>1, Numbers
    <2>3. UNCHANGED <<hand, outcome>> /\ sendQueue' = EnablePush(sendQueue)
      BY DEF RunPrepares
    <2>4. QED
      BY <1>1, <1>2, <2>1, <2>2, <2>3 DEF SocketInv, SocketTypes
  <1>4. ThreadPlaces'
    <2>1. pc' = [pc EXCEPT ![Owner] = "starting"] /\ pc[Owner] = "idle" /\ UNCHANGED waited
      BY WhoIsWho DEF RunPrepares, AtHome, Home, Goto
    <2>2. \A t \in SocketThreads : pc'[t] # "none" <=> thread'[t] = "running"
      BY <1>2, <2>1, WhoIsWho DEF SocketInv, SocketTypes, ThreadPlaces, Gone, SocketThreads, Threads
    <2>3. QED
      BY <1>2, <2>1, <2>2, WhoIsWho
      DEF SocketInv, SocketTypes, ThreadPlaces, Gone, At, Threads, SocketThreads
  <1>5. Hands'
    BY WhoIsWho
    DEF RunPrepares, AtHome, Home, SocketInv, SocketTypes, Hands, Goto, Threads, SocketThreads
  <1>6. QED
    BY <1>3, <1>4, <1>5 DEF SocketInv

LEMMA OwnerInv == SocketInv /\ (WaitBegins \/ RunStep \/ WaitStep) => SocketInv'
  <1> SUFFICES ASSUME SocketInv, WaitBegins \/ RunStep \/ WaitStep PROVE SocketInv'
    OBVIOUS
  <1> USE WhoIsWho DEF SocketInv, SocketTypes, ThreadPlaces, Hands, NeverStarted, Gone, AtHome, At, Goto,
          Return, Home, Threads, SocketThreads, ThreadStates, Labels
  <1>1. CASE WaitBegins
    BY <1>1 DEF WaitBegins
  <1>2. CASE RunFails
    BY <1>2 DEF RunFails
  <1>3. CASE RunStarts
    BY <1>3 DEF RunStarts
  <1>4. CASE SpawnConnThread
    <2>1. /\ At(Owner, "spawn connection")
          /\ thread' = [thread EXCEPT ![ConnThread] = "running"]
          /\ pc' = [[pc EXCEPT ![Owner] = "spawn request"] EXCEPT ![ConnThread] = "top"]
          /\ UNCHANGED <<sendQueue, object, hand, outcome, runs, waited>>
      BY <1>4 DEF SpawnConnThread, SpawnThread
    <2>2. QED
      BY <2>1
  <1>5. CASE SpawnReqThread
    <2>1. /\ At(Owner, "spawn request")
          /\ thread' = [thread EXCEPT ![ReqThread] = "running"]
          /\ pc' = [[pc EXCEPT ![Owner] = "idle"] EXCEPT ![ReqThread] = "handler"]
          /\ UNCHANGED <<sendQueue, object, hand, outcome, runs, waited>>
      BY <1>5 DEF SpawnReqThread, SpawnThread
    <2>2. QED
      BY <2>1
  <1>6. CASE JoinConnThread
    BY <1>6 DEF JoinConnThread, Join
  <1>7. CASE JoinReqThread
    BY <1>7 DEF JoinReqThread, Join
  <1>8. QED
    BY <1>1, <1>2, <1>3, <1>4, <1>5, <1>6, <1>7 DEF RunStep, WaitStep

LEMMA DestroyInv == SocketInv /\ Destroy => SocketInv'
  <1> SUFFICES ASSUME SocketInv, Destroy PROVE SocketInv'
    OBVIOUS
  <1>1. sendQueue' \in SafeQueues(Requests) /\ outcome' \in [Requests -> Outcomes]
    <2>1. CASE Abandon
      BY <2>1, QueueItems DEF Abandon, SocketInv, SocketTypes, Outcomes
    <2>2. CASE UNCHANGED <<sendQueue, outcome>>
      BY <2>2 DEF SocketInv, SocketTypes
    <2>3. QED
      BY <2>1, <2>2 DEF Destroy
  <1>2. /\ thread' \in [SocketThreads -> ThreadStates]
        /\ object' \in {"destroyed", "terminated", "double delete"}
        /\ object' = "destroyed" => \A t \in SocketThreads :
             \/ thread[t] = "null" /\ thread'[t] = "null"
             \/ thread[t] = "joined" /\ thread'[t] = "dangling"
        /\ object' # "destroyed" => thread' = thread
    BY DeletedThreads DEF Destroy, SocketInv
  <1>3. UNCHANGED <<pc, hand, runs, waited>>
    BY DEF Destroy
  <1>4. QED
    BY <1>1, <1>2, <1>3 DEF SocketInv, SocketTypes, ThreadPlaces, Hands, At

LEMMA CloseInv ==
  ASSUME SocketInv, NEW t \in Threads, CloseBegins(t) \/ CloseDisablesPush(t) \/ CloseExits(t)
  PROVE  SocketInv'
  <1> USE WhoIsWho DEF SocketInv, SocketTypes, ThreadPlaces, Hands, AtHome, At, Goto, Return, Home, Threads,
          SocketThreads, Labels
  <1>1. CASE CloseBegins(t)
    BY <1>1 DEF CloseBegins
  <1>2. CASE CloseDisablesPush(t)
    <2>1. DisablePush(sendQueue) \in SafeQueues(Requests)
      BY DEF SafeQueues, DisablePush
    <2>2. QED
      BY <1>2, <2>1 DEF CloseDisablesPush
  <1>3. CASE CloseExits(t)
    BY <1>3 DEF CloseExits
  <1>4. QED
    BY <1>1, <1>2, <1>3

LEMMA QueueInv ==
  ASSUME SocketInv, NEW t \in Threads, QueuePushes(t) \/ \E r \in Requests : QueueChecks(t, r)
  PROVE  SocketInv'
  <1> USE WhoIsWho DEF SocketInv, SocketTypes, ThreadPlaces, Hands, AtHome, At, Goto, Return, Home, Threads,
          SocketThreads, Labels
  <1>1. ASSUME NEW r \in Requests, QueueChecks(t, r)
        PROVE  SocketInv'
    <2>1. outcome' \in [Requests -> Outcomes]
      BY <1>1 DEF QueueChecks, Outcomes
    <2>2. UNCHANGED <<sendQueue, thread, object, runs, waited>> /\ AtHome(t)
      BY <1>1 DEF QueueChecks
    <2>3. CASE UNCHANGED <<pc, hand>>
      BY <2>1, <2>2, <2>3
    <2>4. CASE pc' = [pc EXCEPT ![t] = "push"] /\ hand' = [hand EXCEPT ![t] = r]
      BY <2>1, <2>2, <2>4
    <2>5. QED
      BY <1>1, <2>3, <2>4 DEF QueueChecks
  <1>2. CASE QueuePushes(t)
    <2>1. hand[t] \in Requests
      BY <1>2 DEF QueuePushes
    <2>2. Push(sendQueue, hand[t]) \in SafeQueues(Requests)
      BY <2>1, QueueMethods
    <2>3. outcome' \in [Requests -> Outcomes]
      BY <1>2, <2>1 DEF QueuePushes, Outcomes
    <2>4. QED
      BY <1>2, <2>1, <2>2, <2>3 DEF QueuePushes
  <1>3. QED
    BY <1>1, <1>2

LEMMA SocketThreadInv == SocketInv /\ (ConnStep \/ ReqEnds) => SocketInv'
  <1> SUFFICES ASSUME SocketInv, ConnStep \/ ReqEnds PROVE SocketInv'
    OBVIOUS
  <1> USE WhoIsWho DEF SocketInv, SocketTypes, ThreadPlaces, Hands, Gone, AtHome, At, Goto, Return, Home, Threads,
          SocketThreads, ThreadStates, Labels
  <1>1. CASE ConnTop
    <2>1. CASE goingExit
      <3>1. /\ thread' = [thread EXCEPT ![ConnThread] = "ended"]
            /\ pc' = [pc EXCEPT ![ConnThread] = "none"]
            /\ pc[ConnThread] = "top"
            /\ UNCHANGED <<goingExit, sendQueue, object, hand, outcome, runs, waited, closed>>
        BY <1>1, <2>1 DEF ConnTop, ThreadEnds
      <3>2. SocketTypes' /\ Hands'
        BY <3>1
      <3>3. QED
        BY <3>1, <3>2
    <2>2. CASE ~goingExit
      BY <1>1, <2>2 DEF ConnTop
    <2>3. QED
      BY <2>1, <2>2
  <1>2. CASE StartPolling
    BY <1>2 DEF StartPolling
  <1>3. CASE PopQueued
    <2>1. Front(sendQueue) \in Requests /\ Pop(sendQueue) \in SafeQueues(Requests)
      BY <1>3, QueuePop DEF PopQueued, KeepsPolling
    <2>2. outcome' \in [Requests -> Outcomes]
      BY <1>3, <2>1 DEF PopQueued, Outcomes
    <2>3. QED
      BY <1>3, <2>1, <2>2 DEF PopQueued
  <1>4. CASE SendQueued
    <2>1. outcome' \in [Requests -> Outcomes]
      BY <1>4 DEF SendQueued, Outcomes
    <2>2. QED
      BY <1>4, <2>1 DEF SendQueued
  <1>5. CASE PollingDone
    BY <1>5 DEF PollingDone
  <1>6. CASE ReqEnds
    BY <1>6 DEF ReqEnds, ThreadEnds
  <1>7. QED
    BY <1>1, <1>2, <1>3, <1>4, <1>5, <1>6 DEF ConnStep

LEMMA NextInv == SocketInv /\ [Next]_vars => SocketInv'
  <1> SUFFICES ASSUME SocketInv, [Next]_vars PROVE SocketInv'
    OBVIOUS
  <1>1. CASE OwnerCalls \/ RunStep \/ WaitStep
    BY <1>1, RunPreparesInv, OwnerInv, DestroyInv DEF OwnerCalls
  <1>2. CASE ConnStep \/ ReqEnds
    BY <1>2, SocketThreadInv
  <1>3. ASSUME NEW t \in Threads, Call(t) \/ MethodStep(t)
        PROVE  SocketInv'
    BY <1>3, CloseInv, QueueInv DEF Call, MethodStep
  <1>4. CASE UNCHANGED vars
    BY <1>4 DEF vars, SocketInv, SocketTypes, ThreadPlaces, Hands, At
  <1>5. QED
    BY <1>1, <1>2, <1>3, <1>4 DEF Next, Over

(* Every variable keeps its type, and a thread holds a request just when   *)
(* it is about to push or to send one.                                     *)
THEOREM SocketTypeCorrect == Spec => []SocketTypeOK
  <1>1. SocketInv /\ FlagTypes => SocketTypeOK
    BY DEF SocketInv, Hands, SocketTypeOK
  <1>2. QED
    BY <1>1, InitFlags, NextFlags, InitInv, NextInv, PTL DEF Spec

-----------------------------------------------------------------------------
(* The order of the calls.                                                 *)

LEMMA InvAlways == Spec => []SocketInv
  BY InitInv, NextInv, PTL DEF Spec

(* A socket whose Wait has returned has no thread left, whatever the users *)
(* do besides.                                                             *)
THEOREM WaitedIsStopped == Spec => []WaitMeansStopped
  <1>1. SocketInv => WaitMeansStopped
    BY DEF SocketInv, ThreadPlaces, WaitMeansStopped
  <1>2. QED
    BY <1>1, InvAlways, PTL

Unbroken == NoFault /\ (object = "alive" => \A t \in SocketThreads : thread[t] # "dangling")

LEMMA NextUnbroken ==
  ASSUME "rerun" \notin Liberties, SocketInv, Unbroken, [Next]_vars
  PROVE  Unbroken'
  <1> USE DEF Unbroken, NoFault
  <1>1. CASE RunPrepares
    BY <1>1 DEF RunPrepares, DeleteThreads, NeverStarted
  <1>2. CASE Destroy
    <2>1. \A t \in SocketThreads : thread[t] \in {"null", "joined"}
      BY <1>2, WhoIsWho DEF Destroy, AtHome, SocketInv, ThreadPlaces, NeverStarted
    <2>2. QED
      BY <1>2, <2>1 DEF Destroy, DeleteThreads
  <1>3. CASE WaitBegins \/ RunStep \/ WaitStep
    BY <1>3, WhoIsWho DEF WaitBegins, RunStep, RunFails, RunStarts, SpawnConnThread, SpawnReqThread, SpawnThread,
       WaitStep, JoinConnThread, JoinReqThread, Join, SocketInv, SocketTypes, SocketThreads
  <1>4. CASE ConnStep \/ ReqEnds
    BY <1>4, WhoIsWho DEF ConnStep, ReqEnds, ConnTop, ThreadEnds, StartPolling, PopQueued, SendQueued, PollingDone,
       SocketInv, SocketTypes, SocketThreads
  <1>5. ASSUME NEW t \in Threads, Call(t) \/ MethodStep(t)
        PROVE  Unbroken'
    BY <1>5 DEF Call, MethodStep, CloseBegins, QueueChecks, CloseDisablesPush, CloseExits, QueuePushes
  <1>6. CASE UNCHANGED vars
    BY <1>6 DEF vars
  <1>7. QED
    BY <1>1, <1>2, <1>3, <1>4, <1>5, <1>6 DEF Next, OwnerCalls, Over

(* In the order Run, Wait, destroy, with Run repeated only while it fails, *)
(* no thread is destroyed while it runs and none twice.                    *)
THEOREM OrderedUseIsSafe == ASSUME "rerun" \notin Liberties PROVE Spec => []NoFault
  <1>1. Init => Unbroken
    BY DEF Init, Unbroken, NoFault
  <1>2. SocketInv /\ Unbroken /\ [Next]_vars => Unbroken'
    BY NextUnbroken
  <1>3. Unbroken => NoFault
    BY DEF Unbroken
  <1>4. QED
    BY <1>1, <1>2, <1>3, InvAlways, PTL DEF Spec

Started == ~NeverStarted \/ At(Owner, "spawn connection") \/ At(Owner, "spawn request")

Closing ==
  /\ At(Owner, "starting") => NeverStarted
  /\ ~goingExit => Started
  /\ closed = "in force" => goingExit /\ Started
  /\ object = "alive" /\ goingExit /\ Started => ~PushAllowed(sendQueue)
  /\ closed = "in force" => ~PushAllowed(sendQueue)
  /\ \A t \in Threads : At(t, "disable push") \/ At(t, "exit") => Started
  /\ \A t \in Threads : At(t, "exit") => ~PushAllowed(sendQueue)

LEMMA NextClosingOwner ==
  ASSUME "rerun" \notin Liberties, SocketInv, Unbroken, Closing, OwnerCalls \/ RunStep \/ WaitStep
  PROVE  Closing'
  <1> USE WhoIsWho DEF Closing, Started, NeverStarted, AtHome, Home, At, Goto, Return, PushAllowed
  <1>1. CASE RunPrepares
    <2>1. /\ object = "alive" /\ pc[Owner] = "idle"
          /\ pc' = [pc EXCEPT ![Owner] = "starting"] /\ closed' = "no"
          /\ goingExit /\ UNCHANGED goingExit
      BY <1>1 DEF RunPrepares
    <2>2. NeverStarted /\ thread' = [t \in SocketThreads |-> "null"] /\ NeverStarted'
      BY <1>1 DEF RunPrepares, DeleteThreads
    <2>3. \A t \in Threads : t # Owner => pc'[t] = pc[t] /\ pc[t] \notin {"disable push", "exit"}
      BY <2>1, <2>2 DEF SocketInv, SocketTypes, Threads
    <2>4. QED
      BY <2>1, <2>2, <2>3 DEF SocketInv, SocketTypes, Threads
  <1>2. CASE RunFails
    BY <1>2 DEF RunFails, SocketInv, SocketTypes, Threads
  <1>3. CASE RunStarts
    BY <1>3 DEF RunStarts, SocketInv, SocketTypes, Threads
  <1>4. CASE SpawnConnThread
    <2>1. /\ At(Owner, "spawn connection")
          /\ thread' = [thread EXCEPT ![ConnThread] = "running"]
          /\ pc' = [[pc EXCEPT ![Owner] = "spawn request"] EXCEPT ![ConnThread] = "top"]
          /\ UNCHANGED <<goingExit, sendQueue, object, closed>>
      BY <1>4 DEF SpawnConnThread, SpawnThread
    <2>2. QED
      BY <2>1 DEF SocketInv, SocketTypes, Threads, SocketThreads
  <1>5. CASE SpawnReqThread
    <2>1. /\ At(Owner, "spawn request")
          /\ thread' = [thread EXCEPT ![ReqThread] = "running"]
          /\ pc' = [[pc EXCEPT ![Owner] = "idle"] EXCEPT ![ReqThread] = "handler"]
          /\ UNCHANGED <<goingExit, sendQueue, object, closed>>
      BY <1>5 DEF SpawnReqThread, SpawnThread
    <2>2. QED
      BY <2>1 DEF SocketInv, SocketTypes, Threads, SocketThreads
  <1>6. CASE WaitBegins
    BY <1>6 DEF WaitBegins, SocketInv, SocketTypes, Threads
  <1>7. CASE WaitStep
    <2>1. \E next \in {"join request", "idle"} :
            pc' = [pc EXCEPT ![Owner] = next]
      BY <1>7 DEF WaitStep, JoinConnThread, JoinReqThread
    <2>2. pc[Owner] \in {"join connection", "join request"} /\ UNCHANGED <<goingExit, sendQueue, object, closed>>
      BY <1>7 DEF WaitStep, JoinConnThread, JoinReqThread, Join
    <2>3. NeverStarted' <=> NeverStarted
      BY <1>7 DEF WaitStep, JoinConnThread, JoinReqThread, Join, SocketInv, SocketTypes, SocketThreads
    <2>4. Started' <=> Started
      BY <2>1, <2>2, <2>3 DEF SocketInv, SocketTypes, Threads
    <2>5. \A t \in Threads : t # Owner => pc'[t] = pc[t]
      BY <2>1 DEF SocketInv, SocketTypes
    <2>6. pc'[Owner] \notin {"starting", "disable push", "exit"}
      BY <2>1 DEF SocketInv, SocketTypes, Threads
    <2> HIDE DEF Started, NeverStarted
    <2>7. QED
      BY <2>2, <2>4, <2>5, <2>6
  <1>8. CASE Destroy
    <2>1. pc[Owner] = "idle" /\ object' # "alive" /\ UNCHANGED <<pc, closed, goingExit>>
      BY <1>8 DEF Destroy, DeleteThreads
    <2>2. sendQueue'.pushEnabled = sendQueue.pushEnabled
      <3>1. CASE Abandon
        BY <3>1 DEF Abandon
      <3>2. QED
        BY <1>8, <3>1 DEF Destroy
    <2>3. \A t \in SocketThreads : thread[t] # "null" => thread'[t] # "null"
      BY <1>8 DEF Destroy, DeleteThreads
    <2>4. QED
      BY <2>1, <2>2, <2>3
  <1>9. QED
    BY <1>1, <1>2, <1>3, <1>4, <1>5, <1>6, <1>7, <1>8 DEF OwnerCalls, RunStep

LEMMA NextClosingCalls ==
  ASSUME SocketInv, Closing, NEW t \in Threads, Call(t) \/ MethodStep(t)
  PROVE  Closing'
  <1> USE WhoIsWho DEF Closing, Started, NeverStarted, AtHome, Home, At, Goto, Return, PushAllowed
  <1>1. CASE CloseBegins(t)
    <2>1. ~goingExit \/ HasThreads => Started
      BY DEF HasThreads, SocketThreads
    <2>2. UNCHANGED <<goingExit, sendQueue, thread, object>>
      BY <1>1 DEF CloseBegins
    <2>3. CASE goingExit
      <3>1. UNCHANGED pc /\ (closed' = "in force" => closed = "in force" \/ HasThreads)
        BY <1>1, <2>3 DEF CloseBegins
      <3>2. (Started' <=> Started) /\ (NeverStarted' <=> NeverStarted) /\ object = "alive"
        BY <1>1, <2>2, <3>1 DEF CloseBegins
      <3> HIDE DEF Started, NeverStarted
      <3>3. QED
        BY <2>1, <2>2, <2>3, <3>1, <3>2
    <2>4. CASE ~goingExit
      <3>1. pc' = [pc EXCEPT ![t] = "disable push"] /\ UNCHANGED closed
        BY <1>1, <2>4 DEF CloseBegins
      <3>2. pc[t] \notin {"starting", "spawn connection", "spawn request"}
        BY <1>1 DEF CloseBegins
      <3>3. Started' <=> Started
        BY <2>2, <3>1, <3>2 DEF SocketInv, SocketTypes, Threads
      <3>4. NeverStarted' <=> NeverStarted
        BY <2>2
      <3>5. \A u \in Threads : u # t => pc'[u] = pc[u]
        BY <3>1 DEF SocketInv, SocketTypes
      <3>6. pc'[t] = "disable push"
        BY <3>1 DEF SocketInv, SocketTypes
      <3> HIDE DEF Started, NeverStarted
      <3>7. QED
        BY <2>1, <2>2, <2>4, <3>1, <3>3, <3>4, <3>5, <3>6 DEF Threads
    <2>5. QED
      BY <2>3, <2>4
  <1>2. ASSUME NEW r \in Requests, QueueChecks(t, r)
        PROVE  Closing'
    BY <1>2 DEF QueueChecks, SocketInv, SocketTypes, Threads
  <1>3. CASE CloseDisablesPush(t)
    BY <1>3 DEF CloseDisablesPush, DisablePush, SocketInv, SocketTypes, Threads
  <1>4. CASE CloseExits(t)
    BY <1>4 DEF CloseExits, SocketInv, SocketTypes, Threads
  <1>5. CASE QueuePushes(t)
    BY <1>5 DEF QueuePushes, Push, SocketInv, SocketTypes, Threads
  <1>6. QED
    BY <1>1, <1>2, <1>3, <1>4, <1>5 DEF Call, MethodStep

LEMMA NextClosing ==
  ASSUME "rerun" \notin Liberties, SocketInv, Unbroken, Closing, [Next]_vars
  PROVE  Closing'
  <1>1. CASE ConnStep \/ ReqEnds
    <2>1. UNCHANGED <<goingExit, object, closed>> /\ sendQueue'.pushEnabled = sendQueue.pushEnabled
      BY <1>1 DEF ConnStep, ReqEnds, ConnTop, StartPolling, PopQueued, SendQueued, PollingDone, Pop
    <2>2. PICK t \in SocketThreads, next \in Labels \ {"disable push", "exit"} :
            pc' = [pc EXCEPT ![t] = next]
      BY <1>1, WhoIsWho DEF ConnStep, ReqEnds, ConnTop, ThreadEnds, StartPolling, PopQueued, SendQueued, PollingDone,
         Goto, Return, Home, Labels, SocketThreads
    <2>3. NeverStarted' <=> NeverStarted
      <3>1. CASE UNCHANGED thread
        BY <3>1 DEF NeverStarted
      <3>2. CASE \E u \in SocketThreads : ThreadEnds(u) /\ pc[u] # "none"
        BY <3>2 DEF ThreadEnds, NeverStarted, SocketInv, SocketTypes, ThreadPlaces
      <3>3. QED
        BY <1>1, <3>1, <3>2 DEF ConnStep, ReqEnds, ConnTop, StartPolling, PopQueued, SendQueued, PollingDone,
           At, AtHome, Home, SocketThreads
    <2>4. pc'[Owner] = pc[Owner] /\ \A u \in Threads : pc'[u] \in {"disable push", "exit"} => pc'[u] = pc[u]
      BY <2>2, WhoIsWho DEF SocketInv, SocketTypes, Threads, SocketThreads
    <2>5. Started' <=> Started
      BY <2>1, <2>3, <2>4 DEF Started, At
    <2>6. QED
      BY <2>1, <2>3, <2>4, <2>5 DEF Closing, At, PushAllowed
  <1>2. CASE UNCHANGED vars
    BY <1>2 DEF vars, Closing, Started, NeverStarted, At, PushAllowed
  <1>3. QED
    BY <1>1, <1>2, NextClosingOwner, NextClosingCalls DEF Next, Over

(* When nobody calls Run again after a Wait, a CloseSocket that has found a *)
(* socket with threads leaves it stopped and its queue shut, however many  *)
(* threads close it at the same time and whether Run has returned or not.  *)
(* One that finds no threads changes nothing: see CloseIsHeard.            *)
THEOREM CloseIsFinal == ASSUME "rerun" \notin Liberties PROVE Spec => []ClosedMeansRefusing
  <1>1. Init => Unbroken /\ Closing
    BY WhoIsWho DEF Init, Unbroken, NoFault, Closing, Started, NeverStarted, At, Threads
  <1>2. SocketInv /\ Unbroken /\ [Next]_vars => Unbroken'
    BY NextUnbroken
  <1>3. SocketInv /\ Unbroken /\ Closing /\ [Next]_vars => Closing'
    BY NextClosing
  <1>4. Closing => ClosedMeansRefusing
    BY DEF Closing, ClosedMeansRefusing
  <1>5. QED
    BY <1>1, <1>2, <1>3, <1>4, InvAlways, PTL DEF Spec

-----------------------------------------------------------------------------
(* The queue: its bound, its promises, and that the socket implements      *)
(* RequestDelivery.                                                        *)

(* The threads that have passed the check of the size and not yet pushed.  *)
Pushers == {t \in Threads : pc[t] = "push"}

Bounded == Size(sendQueue) + Cardinality(Pushers) <= MaxQueueSize - 1 + Cardinality(Callers)

LEMMA ThreadsFinite == IsFiniteSet(Threads) /\ Cardinality(Threads) \in Nat
  <1>1. IsFiniteSet(Users)
    BY SocketAssumption
  <1>2. IsFiniteSet({ConnThread}) /\ IsFiniteSet({ReqThread})
    BY FS_Singleton
  <1>3. IsFiniteSet({ConnThread} \cup {ReqThread})
    BY <1>2, FS_Union
  <1>4. Threads = Users \cup ({ConnThread} \cup {ReqThread})
    BY DEF Threads, SocketThreads
  <1>5. IsFiniteSet(Threads)
    BY <1>1, <1>3, <1>4, FS_Union
  <1>6. QED
    BY <1>5, FS_CardinalityType

LEMMA CallersFinite ==
  /\ IsFiniteSet(Callers) /\ Cardinality(Callers) \in Nat
  /\ IsFiniteSet(Callers') /\ Cardinality(Callers') \in Nat
  <1>1. Callers \subseteq Threads /\ Callers' \subseteq Threads
    BY DEF Callers, Threads
  <1>2. QED
    BY <1>1, ThreadsFinite, FS_Subset, FS_CardinalityType

(* A pointer that was set once is never null again.                        *)
LEMMA CallersStay ==
  ASSUME SocketInv, [Next]_vars
  PROVE  Cardinality(Callers) <= Cardinality(Callers')
  <1>1. \A t \in SocketThreads : thread[t] # "null" => thread'[t] # "null"
    <2>1. CASE UNCHANGED thread
      BY <2>1
    <2>2. CASE RunPrepares \/ Destroy
      BY <2>2 DEF RunPrepares, Destroy, DeleteThreads
    <2>3. CASE SpawnConnThread \/ SpawnReqThread
      BY <2>3 DEF SpawnConnThread, SpawnReqThread, SpawnThread, SocketInv, SocketTypes
    <2>4. CASE WaitStep
      BY <2>4 DEF WaitStep, JoinConnThread, JoinReqThread, Join, SocketInv, SocketTypes
    <2>5. CASE ConnTop \/ ReqEnds
      BY <2>5 DEF ConnTop, ReqEnds, ThreadEnds, SocketInv, SocketTypes
    <2>6. QED
      BY <2>1, <2>2, <2>3, <2>4, <2>5
      DEF Next, OwnerCalls, WaitBegins, RunStep, RunFails, RunStarts, ConnStep, StartPolling, PopQueued, SendQueued,
          PollingDone, Call, CloseBegins, QueueChecks, MethodStep, CloseDisablesPush, CloseExits, QueuePushes, Over, vars
  <1>2. Callers \subseteq Callers'
    BY <1>1 DEF Callers
  <1>3. QED
    BY <1>2, CallersFinite, FS_Subset

(* Only a thread there has been is anywhere.                               *)
LEMMA PushersFinite ==
  ASSUME SocketInv
  PROVE  /\ IsFiniteSet(Pushers) /\ Cardinality(Pushers) \in Nat
         /\ Cardinality(Pushers) <= Cardinality(Callers)
  <1>1. Pushers \subseteq Callers
    BY DEF Pushers, Callers, Threads, SocketInv, ThreadPlaces
  <1>2. QED
    BY <1>1, CallersFinite, FS_Subset, FS_CardinalityType

LEMMA PushersFiniteAfter ==
  ASSUME SocketInv'
  PROVE  /\ IsFiniteSet(Pushers') /\ Cardinality(Pushers') \in Nat
         /\ Cardinality(Pushers') <= Cardinality(Callers')
  <1>1. Pushers' \subseteq Callers'
    BY DEF Pushers, Callers, Threads, SocketInv, ThreadPlaces
  <1>2. QED
    BY <1>1, CallersFinite, FS_Subset, FS_CardinalityType

LEMMA SizeType == SocketTypes => sendQueue.items \in Seq(Requests) /\ Size(sendQueue) \in Nat
  <1> SUFFICES ASSUME SocketTypes PROVE sendQueue.items \in Seq(Requests) /\ Size(sendQueue) \in Nat
    OBVIOUS
  <1>1. sendQueue.items \in Seq(Requests)
    BY QueueItems DEF SocketTypes
  <1>2. QED
    BY <1>1 DEF Size

(* A step that neither leaves nor takes a thread to the push.              *)
LEMMA SamePushers ==
  ASSUME SocketTypes, NEW t \in Threads, NEW next, next # "push", pc[t] # "push",
         pc' = [pc EXCEPT ![t] = next]
  PROVE  Pushers' = Pushers
  BY DEF Pushers, SocketTypes

LEMMA BoundedByCalls ==
  ASSUME SocketInv, SocketInv', Bounded, NEW t \in Threads, Call(t) \/ MethodStep(t)
  PROVE  Bounded'
  <1> USE DEF SocketInv
  <1>1. Cardinality(Callers) <= Cardinality(Callers')
    BY CallersStay DEF Next
  <1>2. CASE CloseBegins(t) \/ CloseDisablesPush(t) \/ CloseExits(t)
    <2>1. Size(sendQueue') = Size(sendQueue)
      <3>1. CASE UNCHANGED sendQueue
        BY <3>1 DEF Size
      <3>2. CASE sendQueue' = DisablePush(sendQueue)
        BY <3>2 DEF DisablePush, Size
      <3>3. QED
        BY <1>2, <3>1, <3>2 DEF CloseBegins, CloseDisablesPush, CloseExits
    <2>2. Pushers' = Pushers
      <3>1. CASE UNCHANGED pc
        BY <3>1 DEF Pushers
      <3>2. CASE pc' # pc
        <4>1. pc[t] # "push" /\ \E next \in Labels \ {"push"} : pc' = [pc EXCEPT ![t] = next]
          BY <1>2, <3>2 DEF CloseBegins, CloseDisablesPush, CloseExits, AtHome, At, Goto, Return, Home, Labels
        <4>2. QED
          BY <4>1, SamePushers
      <3>3. QED
        BY <3>1, <3>2
    <2>3. QED
      BY <1>1, <2>1, <2>2, SizeType, PushersFinite, CallersFinite, Numbers DEF Bounded
  <1>3. ASSUME NEW r \in Requests, QueueChecks(t, r)
        PROVE  Bounded'
    <2>1. UNCHANGED sendQueue
      BY <1>3 DEF QueueChecks
    <2>2. CASE UNCHANGED pc
      <3>1. Pushers' = Pushers /\ Size(sendQueue') = Size(sendQueue)
        BY <2>1, <2>2 DEF Pushers, Size
      <3>2. QED
        BY <1>1, <3>1, SizeType, PushersFinite, CallersFinite, Numbers DEF Bounded
    <2>3. CASE HasRoom(sendQueue)
      <3>1. Size(sendQueue') \in Nat /\ Size(sendQueue') < MaxQueueSize
        BY <2>1, <2>3, SizeType DEF HasRoom, Size
      <3>2. QED
        BY <3>1, PushersFiniteAfter, CallersFinite, Numbers DEF Bounded
    <2>4. QED
      BY <1>3, <2>2, <2>3 DEF QueueChecks
  <1>4. CASE QueuePushes(t)
    <2>1. pc[t] = "push" /\ pc' = [pc EXCEPT ![t] = Home(t)] /\ hand[t] \in Requests
      BY <1>4 DEF QueuePushes, At, Return, Goto, Hands, SocketTypes
    <2>2. Pushers' = Pushers \ {t} /\ t \in Pushers
      BY <2>1 DEF Pushers, SocketTypes, Home
    <2>3. Cardinality(Pushers') = Cardinality(Pushers) - 1
      BY <2>2, PushersFinite, FS_RemoveElement
    <2>4. Size(sendQueue') \in Nat /\ Size(sendQueue') <= Size(sendQueue) + 1
      <3>1. sendQueue.items \in Seq(Requests)
        BY SizeType
      <3>2. sendQueue'.items \in {sendQueue.items, Append(sendQueue.items, hand[t])}
        BY <1>4 DEF QueuePushes, Push
      <3>3. QED
        BY <2>1, <3>1, <3>2 DEF Size
    <2>5. QED
      BY <1>1, <2>3, <2>4, SizeType, PushersFinite, CallersFinite, Numbers DEF Bounded
  <1>5. QED
    BY <1>2, <1>3, <1>4 DEF Call, MethodStep

LEMMA BoundedByOthers ==
  ASSUME SocketInv, SocketInv', Bounded, OwnerCalls \/ RunStep \/ WaitStep \/ ConnStep \/ ReqEnds
  PROVE  Bounded'
  <1>1. Size(sendQueue') \in Nat /\ Size(sendQueue') <= Size(sendQueue)
    <2>1. sendQueue.items \in Seq(Requests)
      BY SizeType DEF SocketInv
    <2>2. CASE UNCHANGED sendQueue
      BY <2>1, <2>2 DEF Size
    <2>3. CASE sendQueue' = EnablePush(sendQueue)
      BY <2>1, <2>3 DEF EnablePush, Size
    <2>4. CASE Abandon
      BY <2>1, <2>4 DEF Abandon, Size
    <2>5. CASE PopQueued
      <3>1. sendQueue'.items = Tail(sendQueue.items) /\ sendQueue.items # <<>>
        BY <2>5 DEF PopQueued, Pop, KeepsPolling, IsEmpty
      <3>2. QED
        BY <2>1, <3>1 DEF Size
    <2>6. QED
      BY <2>2, <2>3, <2>4, <2>5
      DEF OwnerCalls, RunPrepares, WaitBegins, Destroy, RunStep, RunFails, RunStarts, SpawnConnThread, SpawnReqThread,
          SpawnThread, WaitStep, JoinConnThread, JoinReqThread, ConnStep, ConnTop, StartPolling, SendQueued,
          PollingDone, ReqEnds
  <1>2. Pushers' = Pushers
    <2> USE WhoIsWho DEF SocketInv, SocketTypes, Pushers, AtHome, Home, At, Goto, Return, Threads, SocketThreads
    <2>1. CASE OwnerCalls
      BY <2>1 DEF OwnerCalls, RunPrepares, WaitBegins, Destroy
    <2>2. CASE RunFails \/ RunStarts \/ WaitStep
      BY <2>2 DEF RunFails, RunStarts, WaitStep, JoinConnThread, JoinReqThread, Join
    <2>3. CASE SpawnConnThread
      <3>1. /\ pc[Owner] = "spawn connection" /\ pc[ConnThread] = "none"
            /\ pc' = [[pc EXCEPT ![Owner] = "spawn request"] EXCEPT ![ConnThread] = "top"]
        BY <2>3 DEF SpawnConnThread, SpawnThread, ThreadPlaces, Gone
      <3>2. QED
        BY <3>1
    <2>4. CASE SpawnReqThread
      <3>1. /\ pc[Owner] = "spawn request" /\ pc[ReqThread] = "none"
            /\ pc' = [[pc EXCEPT ![Owner] = "idle"] EXCEPT ![ReqThread] = "handler"]
        BY <2>4 DEF SpawnReqThread, SpawnThread, ThreadPlaces, Gone
      <3>2. QED
        BY <3>1
    <2>5. CASE ConnStep \/ ReqEnds
      BY <2>5 DEF ConnStep, ConnTop, ThreadEnds, StartPolling, PopQueued, SendQueued, PollingDone, ReqEnds
    <2>6. QED
      BY <2>1, <2>2, <2>3, <2>4, <2>5 DEF RunStep
  <1>3. Cardinality(Callers) <= Cardinality(Callers')
    BY CallersStay DEF Next
  <1>4. QED
    BY <1>1, <1>2, <1>3, SizeType, PushersFinite, CallersFinite, Numbers DEF Bounded, SocketInv

(* The queue holds at most one request more for each thread there has been *)
(* beside the first than the limit allows, whatever the threads do and in  *)
(* any order.                                                              *)
THEOREM QueueStaysBounded == Spec => []QueueBounded
  <1>1. Init => Bounded
    <2> SUFFICES ASSUME Init PROVE Bounded
      OBVIOUS
    <2>1. Pushers = {}
      BY DEF Init, Pushers
    <2>2. Size(sendQueue) = 0
      BY DEF Init, NewSafeQueue, Size
    <2>3. QED
      BY <2>1, <2>2, FS_EmptySet, CallersFinite, Numbers DEF Bounded
  <1>2. SocketInv /\ SocketInv' /\ Bounded /\ [Next]_vars => Bounded'
    <2>1. ASSUME Bounded, UNCHANGED vars PROVE Bounded'
      BY <2>1 DEF Bounded, vars, Pushers, Callers, Size
    <2>2. QED
      BY <2>1, BoundedByCalls, BoundedByOthers DEF Next, Over
  <1>3. SocketInv /\ Bounded => QueueBounded
    BY SizeType, PushersFinite, CallersFinite, Numbers DEF SocketInv, Bounded, QueueBounded
  <1>4. QED
    BY <1>1, <1>2, <1>3, InvAlways, PTL DEF Spec

-----------------------------------------------------------------------------
(* Where the requests are.                                                 *)

Elements(s) == {s[i] : i \in 1..Len(s)}

Distinct(s) == \A i, j \in 1..Len(s) : i # j => s[i] # s[j]

LEMMA AppendDistinct ==
  ASSUME NEW T, NEW s \in Seq(T), NEW x \in T, Distinct(s), x \notin Elements(s)
  PROVE  Distinct(Append(s, x)) /\ Elements(Append(s, x)) = Elements(s) \cup {x}
  <1>1. /\ Len(Append(s, x)) = Len(s) + 1 /\ Len(s) \in Nat
        /\ \A i \in 1..Len(s) : Append(s, x)[i] = s[i]
        /\ Append(s, x)[Len(s) + 1] = x
    OBVIOUS
  <1>2. Elements(Append(s, x)) = Elements(s) \cup {x}
    BY <1>1 DEF Elements
  <1>3. Distinct(Append(s, x))
    BY <1>1 DEF Distinct, Elements
  <1>4. QED
    BY <1>2, <1>3

LEMMA TailDistinct ==
  ASSUME NEW T, NEW s \in Seq(T), s # <<>>, Distinct(s)
  PROVE  /\ Distinct(Tail(s)) /\ Head(s) \in Elements(s)
         /\ Elements(Tail(s)) = Elements(s) \ {Head(s)}
  <1>1. /\ Len(Tail(s)) = Len(s) - 1 /\ Len(s) \in Nat /\ Len(s) > 0
        /\ \A i \in 1..(Len(s) - 1) : Tail(s)[i] = s[i + 1]
        /\ Head(s) = s[1]
    OBVIOUS
  <1>2. Distinct(Tail(s))
    BY <1>1 DEF Distinct
  <1>3. Head(s) \in Elements(s)
    BY <1>1 DEF Elements
  <1>4. ASSUME NEW x \in Elements(Tail(s)) PROVE x \in Elements(s) \ {Head(s)}
    <2>1. PICK i \in 1..(Len(s) - 1) : x = s[i + 1]
      BY <1>1, <1>4 DEF Elements
    <2>2. i + 1 \in 1..Len(s) /\ i + 1 # 1
      BY <1>1
    <2>3. QED
      BY <1>1, <2>1, <2>2 DEF Elements, Distinct
  <1>5. ASSUME NEW x \in Elements(s) \ {Head(s)} PROVE x \in Elements(Tail(s))
    <2>1. PICK i \in 1..Len(s) : x = s[i] /\ i # 1
      BY <1>1, <1>5 DEF Elements
    <2>2. i - 1 \in 1..(Len(s) - 1) /\ Tail(s)[i - 1] = s[i]
      BY <1>1, <2>1
    <2>3. QED
      BY <1>1, <2>1, <2>2 DEF Elements
  <1>6. QED
    BY <1>2, <1>3, <1>4, <1>5

QueuedInPlace ==
  /\ Distinct(sendQueue.items)
  /\ \A r \in Requests : outcome[r] = "queued" <=> r \in Elements(sendQueue.items)

InHands ==
  /\ \A t \in Threads : pc[t] = "push" => outcome[hand[t]] = "asked"
  /\ \A t \in Threads : pc[t] = "send" => t = ConnThread /\ outcome[hand[t]] = "sending"
  /\ \A r \in Requests : outcome[r] \in {"asked", "sending"} => \E t \in Threads : hand[t] = r
  /\ \A t, u \in Threads : t # u /\ hand[t] # NoRequest => hand[t] # hand[u]

LEMMA AccountedMeans == PromisesAccounted <=> QueuedInPlace /\ InHands
  BY DEF PromisesAccounted, QueuedInPlace, InHands, InQueue, Distinct, Elements, Size

(* A step that changes neither the queue nor who holds what.               *)
QuietStep ==
  /\ sendQueue'.items = sendQueue.items
  /\ UNCHANGED <<hand, outcome>>
  /\ \A t \in Threads : pc'[t] \in {"push", "send"} <=> pc[t] \in {"push", "send"}
  /\ \A t \in Threads : pc'[t] \in {"push", "send"} => pc'[t] = pc[t]

LEMMA QuietKeepsAccounts == QueuedInPlace /\ InHands /\ QuietStep => QueuedInPlace' /\ InHands'
  BY DEF QuietStep, QueuedInPlace, InHands

(* Only r's outcome changes, not from or to "queued", and the queue stays. *)
LEMMA SameQueue ==
  ASSUME outcome \in [Requests -> Outcomes], QueuedInPlace, NEW r \in Requests, NEW answer \in Outcomes,
         outcome' = [outcome EXCEPT ![r] = answer], sendQueue'.items = sendQueue.items,
         outcome[r] # "queued", answer # "queued"
  PROVE  QueuedInPlace'
  <1>1. \A s \in Requests : outcome'[s] = "queued" <=> outcome[s] = "queued"
    OBVIOUS
  <1>2. QED
    BY <1>1 DEF QueuedInPlace

(* Thread t puts a request down or takes none; what the others hold stays. *)
LEMMA OthersHold ==
  ASSUME SocketInv, InHands, NEW t \in Threads, NEW r \in Requests, NEW u \in Threads, u # t,
         outcome[r] \notin {"asked", "sending"} \/ hand[t] = r
  PROVE  pc[u] \in {"push", "send"} => hand[u] # r /\ hand[u] \in Requests
  <1>1. SUFFICES ASSUME pc[u] \in {"push", "send"} PROVE hand[u] # r /\ hand[u] \in Requests
    OBVIOUS
  <1>2. hand[u] # NoRequest /\ hand[u] \in Requests
    BY <1>1 DEF SocketInv, SocketTypes, Hands
  <1>3. outcome[hand[u]] \in {"asked", "sending"}
    BY <1>1 DEF InHands
  <1>4. hand[t] = r => hand[u] # r
    BY <1>2 DEF InHands
  <1>5. QED
    BY <1>2, <1>3, <1>4

(* Thread t takes up r, which nobody holds.                                *)
LEMMA TakesUp ==
  ASSUME SocketInv, InHands, NEW t \in Threads, NEW r \in Requests, NEW label, NEW answer,
         pc[t] \notin {"push", "send"}, outcome[r] \notin {"asked", "sending"},
         \/ label = "push" /\ answer = "asked"
         \/ label = "send" /\ answer = "sending" /\ t = ConnThread,
         outcome' = [outcome EXCEPT ![r] = answer], hand' = [hand EXCEPT ![t] = r],
         pc' = [pc EXCEPT ![t] = label]
  PROVE  InHands'
  <1>1. \A u \in Threads : pc[u] \in {"push", "send"} => hand[u] # r /\ hand[u] \in Requests
    BY OthersHold
  <1>2. \A u \in Threads : hand[u] # r
    BY <1>1, WhoIsWho DEF SocketInv, Hands
  <1>3. /\ pc'[t] = label /\ hand'[t] = r /\ outcome'[r] = answer
        /\ \A u \in Threads : u # t => pc'[u] = pc[u] /\ hand'[u] = hand[u]
        /\ \A s \in Requests : s # r => outcome'[s] = outcome[s]
    BY DEF SocketInv, SocketTypes
  <1>4. \A u \in Threads : pc'[u] = "push" => outcome'[hand'[u]] = "asked"
    BY <1>1, <1>3 DEF InHands
  <1>5. \A u \in Threads : pc'[u] = "send" => u = ConnThread /\ outcome'[hand'[u]] = "sending"
    BY <1>1, <1>3 DEF InHands
  <1>6. \A s \in Requests : outcome'[s] \in {"asked", "sending"} => \E u \in Threads : hand'[u] = s
    <2>1. SUFFICES ASSUME NEW s \in Requests, s # r, outcome[s] \in {"asked", "sending"}
                   PROVE  \E u \in Threads : hand'[u] = s
      BY <1>3
    <2>2. PICK u \in Threads : hand[u] = s
      BY <2>1 DEF InHands
    <2>3. pc[u] \in {"push", "send"}
      BY <2>1, <2>2, WhoIsWho DEF SocketInv, Hands
    <2>4. QED
      BY <1>3, <2>2, <2>3
  <1>7. \A u, v \in Threads : u # v /\ hand'[u] # NoRequest => hand'[u] # hand'[v]
    BY <1>2, <1>3 DEF InHands
  <1>8. QED
    BY <1>4, <1>5, <1>6, <1>7 DEF InHands

(* Thread t puts its request r down, with an answer.                       *)
LEMMA PutsDown ==
  ASSUME SocketInv, InHands, NEW t \in Threads, NEW r \in Requests, hand[t] = r,
         pc'[t] \notin {"push", "send"}, hand'[t] = NoRequest, outcome'[r] \notin {"asked", "sending"},
         \A u \in Threads : u # t => pc'[u] = pc[u] /\ hand'[u] = hand[u],
         \A s \in Requests : s # r => outcome'[s] = outcome[s]
  PROVE  InHands'
  <1>1. \A u \in Threads : u # t /\ pc[u] \in {"push", "send"} => hand[u] # r /\ hand[u] \in Requests
    BY OthersHold
  <1>2. \A u \in Threads : pc'[u] = "push" => outcome'[hand'[u]] = "asked"
    BY <1>1 DEF InHands
  <1>3. \A u \in Threads : pc'[u] = "send" => u = ConnThread /\ outcome'[hand'[u]] = "sending"
    BY <1>1 DEF InHands
  <1>4. \A s \in Requests : outcome'[s] \in {"asked", "sending"} => \E u \in Threads : hand'[u] = s
    <2>1. SUFFICES ASSUME NEW s \in Requests, s # r, outcome[s] \in {"asked", "sending"}
                   PROVE  \E u \in Threads : hand'[u] = s
      OBVIOUS
    <2>2. PICK u \in Threads : hand[u] = s
      BY <2>1 DEF InHands
    <2>3. QED
      BY <2>1, <2>2
  <1>5. \A u, v \in Threads : u # v /\ hand'[u] # NoRequest => hand'[u] # hand'[v]
    BY WhoIsWho DEF InHands
  <1>6. QED
    BY <1>2, <1>3, <1>4, <1>5 DEF InHands

LEMMA ChecksKeepAccounts ==
  ASSUME SocketInv, QueuedInPlace, InHands, NEW t \in Threads, NEW r \in Requests, QueueChecks(t, r)
  PROVE  QueuedInPlace' /\ InHands'
  <1>1. outcome[r] = "new" /\ UNCHANGED sendQueue /\ pc[t] \notin {"push", "send"}
    BY DEF QueueChecks, AtHome, Home
  <1>2. outcome \in [Requests -> Outcomes]
    BY DEF SocketInv, SocketTypes
  <1>3. CASE outcome' = [outcome EXCEPT ![r] = "refused"] /\ UNCHANGED <<pc, hand>>
    <2>1. QueuedInPlace'
      BY <1>1, <1>2, <1>3, SameQueue DEF Outcomes
    <2>2. \A u \in Threads : pc[u] \in {"push", "send"} => outcome'[hand[u]] = outcome[hand[u]]
      <3>1. \A u \in Threads : pc[u] \in {"push", "send"} => hand[u] # r /\ hand[u] \in Requests
        BY <1>1, OthersHold
      <3>2. QED
        BY <1>2, <1>3, <3>1
    <2>3. \A s \in Requests : outcome'[s] \in {"asked", "sending"} => outcome[s] \in {"asked", "sending"}
      BY <1>2, <1>3
    <2>4. QED
      BY <2>1, <2>2, <2>3, <1>3 DEF InHands
  <1>4. CASE /\ outcome' = [outcome EXCEPT ![r] = "asked"] /\ hand' = [hand EXCEPT ![t] = r]
             /\ pc' = [pc EXCEPT ![t] = "push"]
    <2>1. QueuedInPlace'
      BY <1>1, <1>2, <1>4, SameQueue DEF Outcomes
    <2>2. QED
      BY <1>1, <1>4, <2>1, TakesUp
  <1>5. QED
    BY <1>3, <1>4 DEF QueueChecks, Goto

LEMMA PushesKeepAccounts ==
  ASSUME SocketInv, QueuedInPlace, InHands, NEW t \in Threads, QueuePushes(t)
  PROVE  QueuedInPlace' /\ InHands'
  <1>1. /\ pc[t] = "push" /\ hand[t] \in Requests /\ outcome[hand[t]] = "asked"
        /\ outcome \in [Requests -> Outcomes] /\ sendQueue \in SafeQueues(Requests)
        /\ sendQueue.items \in Seq(Requests)
    BY SizeType DEF QueuePushes, At, SocketInv, SocketTypes, Hands, InHands
  <1>2. /\ hand' = [hand EXCEPT ![t] = NoRequest] /\ pc' = [pc EXCEPT ![t] = Home(t)]
        /\ sendQueue' = Push(sendQueue, hand[t])
    BY DEF QueuePushes, Return, Goto
  <1>3. Home(t) \notin {"push", "send"}
    BY DEF Home
  <1> DEFINE r == hand[t]
  <1>4. /\ pc'[t] \notin {"push", "send"} /\ hand'[t] = NoRequest
        /\ \A u \in Threads : u # t => pc'[u] = pc[u] /\ hand'[u] = hand[u]
    BY <1>2, <1>3 DEF SocketInv, SocketTypes
  <1>5. CASE PushAllowed(sendQueue)
    <2>1. outcome' = [outcome EXCEPT ![hand[t]] = "queued"]
      BY <1>5 DEF QueuePushes
    <2>2. sendQueue'.items = Append(sendQueue.items, hand[t])
      BY <1>2, <1>5 DEF Push
    <2>3. Distinct(sendQueue'.items) /\ Elements(sendQueue'.items) = Elements(sendQueue.items) \cup {hand[t]}
      <3>1. Distinct(sendQueue.items) /\ hand[t] \notin Elements(sendQueue.items)
        BY <1>1 DEF QueuedInPlace
      <3>2. QED
        BY <1>1, <2>2, <3>1, AppendDistinct
    <2>4. QueuedInPlace'
      BY <1>1, <2>1, <2>3 DEF QueuedInPlace
    <2>5. outcome'[r] \notin {"asked", "sending"} /\ \A s \in Requests : s # r => outcome'[s] = outcome[s]
      BY <1>1, <2>1
    <2>6. InHands'
      BY <1>1, <1>4, <2>5, PutsDown
    <2>7. QED
      BY <2>4, <2>6
  <1>6. CASE ~PushAllowed(sendQueue)
    <2>1. outcome' = [outcome EXCEPT ![hand[t]] = "refused"]
      BY <1>6 DEF QueuePushes
    <2>2. sendQueue'.items = sendQueue.items
      BY <1>2, <1>6 DEF Push
    <2>3. QueuedInPlace'
      BY <1>1, <2>1, <2>2, SameQueue DEF Outcomes
    <2>4. outcome'[r] \notin {"asked", "sending"} /\ \A s \in Requests : s # r => outcome'[s] = outcome[s]
      BY <1>1, <2>1
    <2>5. InHands'
      BY <1>1, <1>4, <2>4, PutsDown
    <2>6. QED
      BY <2>3, <2>5
  <1>7. QED
    BY <1>5, <1>6

LEMMA PopKeepsAccounts ==
  ASSUME SocketInv, QueuedInPlace, InHands, PopQueued
  PROVE  QueuedInPlace' /\ InHands'
  <1> DEFINE r == Front(sendQueue)
  <1>1. /\ sendQueue \in SafeQueues(Requests) /\ ~IsEmpty(sendQueue)
        /\ sendQueue.items \in Seq(Requests) /\ sendQueue.items # <<>>
        /\ outcome \in [Requests -> Outcomes] /\ pc[ConnThread] = "poll"
    BY SizeType DEF PopQueued, KeepsPolling, IsEmpty, SocketInv, SocketTypes, At
  <1>2. r \in Requests /\ sendQueue'.items = Tail(sendQueue.items) /\ r = Head(sendQueue.items)
    BY <1>1, QueuePop DEF PopQueued, Front
  <1>3. /\ outcome' = [outcome EXCEPT ![r] = "sending"] /\ hand' = [hand EXCEPT ![ConnThread] = r]
        /\ pc' = [pc EXCEPT ![ConnThread] = "send"]
    BY DEF PopQueued, Goto
  <1>4. /\ Distinct(sendQueue'.items) /\ r \in Elements(sendQueue.items)
        /\ Elements(sendQueue'.items) = Elements(sendQueue.items) \ {r}
    BY <1>1, <1>2, TailDistinct DEF QueuedInPlace
  <1> HIDE DEF r
  <1>5. QueuedInPlace'
    BY <1>1, <1>2, <1>3, <1>4 DEF QueuedInPlace
  <1>6. outcome[r] = "queued" /\ ConnThread \in Threads
    BY <1>2, <1>4 DEF QueuedInPlace, Threads, SocketThreads
  <1>7. QED
    BY <1>1, <1>2, <1>3, <1>5, <1>6, TakesUp

LEMMA SendKeepsAccounts ==
  ASSUME SocketInv, QueuedInPlace, InHands, SendQueued
  PROVE  QueuedInPlace' /\ InHands'
  <1>1. /\ pc[ConnThread] = "send" /\ ConnThread \in Threads /\ outcome \in [Requests -> Outcomes]
        /\ UNCHANGED sendQueue
    BY DEF SendQueued, At, SocketInv, SocketTypes, Threads, SocketThreads
  <1>2. hand[ConnThread] \in Requests
    BY <1>1 DEF SocketInv, SocketTypes, Hands
  <1> DEFINE r == hand[ConnThread]
  <1>3. PICK answer \in {"sent", "failed"} : outcome' = [outcome EXCEPT ![hand[ConnThread]] = answer]
    BY DEF SendQueued
  <1>4. hand' = [hand EXCEPT ![ConnThread] = NoRequest] /\ pc' = [pc EXCEPT ![ConnThread] = "poll"]
    BY DEF SendQueued, Goto
  <1>5. outcome[r] = "sending"
    BY <1>1, <1>2 DEF InHands
  <1>6. QueuedInPlace'
    BY <1>1, <1>2, <1>3, <1>5, SameQueue DEF Outcomes
  <1>7. /\ pc'[ConnThread] \notin {"push", "send"} /\ hand'[ConnThread] = NoRequest
        /\ \A u \in Threads : u # ConnThread => pc'[u] = pc[u] /\ hand'[u] = hand[u]
    BY <1>1, <1>4 DEF SocketInv, SocketTypes
  <1>8. outcome'[r] \notin {"asked", "sending"} /\ \A s \in Requests : s # r => outcome'[s] = outcome[s]
    BY <1>1, <1>2, <1>3
  <1>9. InHands'
    BY <1>1, <1>2, <1>7, <1>8, PutsDown
  <1>10. QED
    BY <1>6, <1>9

LEMMA DestroyKeepsAccounts ==
  ASSUME SocketInv, QueuedInPlace, InHands, Destroy
  PROVE  QueuedInPlace' /\ InHands'
  <1>1. UNCHANGED <<pc, hand>> /\ outcome \in [Requests -> Outcomes]
    BY DEF Destroy, SocketInv, SocketTypes
  <1>2. CASE UNCHANGED <<sendQueue, outcome>>
    BY <1>1, <1>2 DEF QueuedInPlace, InHands
  <1>3. CASE Abandon
    <2>1. sendQueue'.items = <<>>
      BY <1>3 DEF Abandon
    <2>2. \A r \in Requests : outcome'[r] = IF outcome[r] = "queued" THEN "broken" ELSE outcome[r]
      BY <1>3 DEF Abandon
    <2>3. QueuedInPlace'
      BY <2>1, <2>2 DEF QueuedInPlace, Distinct, Elements
    <2>4. \A t \in Threads : pc[t] \in {"push", "send"} => outcome'[hand[t]] = outcome[hand[t]]
      <3>1. \A t \in Threads : pc[t] \in {"push", "send"} => hand[t] \in Requests
        BY DEF SocketInv, SocketTypes, Hands
      <3>2. QED
        BY <2>2, <3>1 DEF InHands
    <2>5. QED
      BY <1>1, <2>2, <2>3, <2>4 DEF InHands
  <1>4. QED
    BY <1>2, <1>3 DEF Destroy

(* The steps that leave the requests where they are.                       *)
RestStep(t) == CloseBegins(t) \/ CloseDisablesPush(t) \/ CloseExits(t)

OtherStep ==
  \/ RunPrepares \/ WaitBegins \/ RunStep \/ WaitStep
  \/ ConnTop \/ StartPolling \/ PollingDone \/ ReqEnds

LEMMA RestIsQuiet ==
  ASSUME SocketInv, NEW t \in Threads, RestStep(t)
  PROVE  QuietStep
  <1>1. sendQueue'.items = sendQueue.items /\ UNCHANGED <<hand, outcome>>
    <2>1. UNCHANGED sendQueue \/ sendQueue' = DisablePush(sendQueue)
      BY DEF RestStep, CloseBegins, CloseDisablesPush, CloseExits
    <2>2. UNCHANGED <<hand, outcome>>
      BY DEF RestStep, CloseBegins, CloseDisablesPush, CloseExits
    <2>3. QED
      BY <2>1, <2>2 DEF DisablePush
  <1>2. UNCHANGED pc \/ (/\ pc[t] \notin {"push", "send"}
                         /\ \E label \in Labels \ {"push", "send"} : pc' = [pc EXCEPT ![t] = label])
    BY DEF RestStep, CloseBegins, CloseDisablesPush, CloseExits, AtHome, At, Goto, Return, Home, Labels
  <1>3. pc \in [Threads -> Labels]
    BY DEF SocketInv, SocketTypes
  <1>4. QED
    BY <1>1, <1>2, <1>3 DEF QuietStep

LEMMA OtherIsQuiet ==
  ASSUME SocketInv, OtherStep
  PROVE  QuietStep
  <1>1. sendQueue'.items = sendQueue.items /\ UNCHANGED <<hand, outcome>>
    <2>1. UNCHANGED sendQueue \/ sendQueue' = EnablePush(sendQueue)
      BY DEF OtherStep, RunPrepares, WaitBegins, RunStep, RunFails, RunStarts, SpawnConnThread, SpawnReqThread,
         SpawnThread, WaitStep, JoinConnThread, JoinReqThread, ConnTop, StartPolling, PollingDone, ReqEnds
    <2>2. UNCHANGED <<hand, outcome>>
      BY DEF OtherStep, RunPrepares, WaitBegins, RunStep, RunFails, RunStarts, SpawnConnThread, SpawnReqThread,
         SpawnThread, WaitStep, JoinConnThread, JoinReqThread, ConnTop, StartPolling, PollingDone, ReqEnds
    <2>3. QED
      BY <2>1, <2>2 DEF EnablePush
  <1>2. pc \in [Threads -> Labels]
    BY DEF SocketInv, SocketTypes
  <1> USE WhoIsWho DEF AtHome, At, Home, Goto, Return, Labels
  <1>3. CASE RunPrepares \/ WaitBegins \/ RunFails \/ RunStarts \/ WaitStep
    <2>1. /\ pc[Owner] \notin {"push", "send"}
          /\ \E label \in Labels \ {"push", "send"} : pc' = [pc EXCEPT ![Owner] = label]
      BY <1>3 DEF RunPrepares, WaitBegins, RunFails, RunStarts, WaitStep, JoinConnThread, JoinReqThread, Join
    <2>2. QED
      BY <1>1, <1>2, <2>1 DEF QuietStep
  <1>4. CASE ConnTop \/ StartPolling \/ PollingDone
    <2>1. /\ pc[ConnThread] \notin {"push", "send"}
          /\ \E label \in Labels \ {"push", "send"} : pc' = [pc EXCEPT ![ConnThread] = label]
      BY <1>4 DEF ConnTop, ThreadEnds, StartPolling, PollingDone
    <2>2. QED
      BY <1>1, <1>2, <2>1 DEF QuietStep
  <1>5. CASE ReqEnds
    <2>1. pc[ReqThread] = "handler" /\ pc' = [pc EXCEPT ![ReqThread] = "none"]
      BY <1>5 DEF ReqEnds, ThreadEnds
    <2>2. QED
      BY <1>1, <1>2, <2>1 DEF QuietStep
  <1>6. ASSUME NEW s \in SocketThreads, NEW next \in {"spawn request", "idle"}, NEW start \in {"top", "handler"},
               pc[Owner] \in {"spawn connection", "spawn request"}, pc[s] = "none",
               pc' = [pc EXCEPT ![Owner] = next, ![s] = start]
        PROVE  QuietStep
    <2>1. \A t \in Threads : pc'[t] = IF t = s THEN start ELSE IF t = Owner THEN next ELSE pc[t]
      BY <1>2, <1>6 DEF Threads, SocketThreads
    <2>2. QED
      BY <1>1, <1>6, <2>1 DEF QuietStep
  <1>7. CASE SpawnConnThread \/ SpawnReqThread
    <2>1. CASE SpawnConnThread
      <3>1. pc[Owner] = "spawn connection" /\ pc[ConnThread] = "none"
        BY <2>1 DEF SpawnConnThread, SpawnThread, SocketInv, ThreadPlaces, Gone, SocketThreads
      <3>2. pc' = [pc EXCEPT ![Owner] = "spawn request", ![ConnThread] = "top"] /\ ConnThread \in SocketThreads
        BY <2>1 DEF SpawnConnThread, SpawnThread, SocketThreads
      <3>3. QED
        BY <1>6, <3>1, <3>2
    <2>2. CASE SpawnReqThread
      <3>1. pc[Owner] = "spawn request" /\ pc[ReqThread] = "none"
        BY <2>2 DEF SpawnReqThread, SpawnThread, SocketInv, ThreadPlaces, Gone, SocketThreads
      <3>2. pc' = [pc EXCEPT ![Owner] = "idle", ![ReqThread] = "handler"] /\ ReqThread \in SocketThreads
        BY <2>2 DEF SpawnReqThread, SpawnThread, SocketThreads
      <3>3. QED
        BY <1>6, <3>1, <3>2
    <2>3. QED
      BY <1>7, <2>1, <2>2
  <1>8. QED
    BY <1>3, <1>4, <1>5, <1>7 DEF OtherStep, RunStep

(* The steps of the socket, by what they do to the requests.               *)
LEMMA StepKinds ==
  ASSUME SocketInv, [Next]_vars
  PROVE  \/ QuietStep \/ PopQueued \/ SendQueued \/ Destroy
         \/ \E t \in Threads : QueuePushes(t) \/ \E r \in Requests : QueueChecks(t, r)
  <1>1. CASE UNCHANGED vars \/ Over
    BY <1>1 DEF vars, Over, QuietStep
  <1>2. CASE OwnerCalls \/ RunStep \/ WaitStep \/ ConnStep \/ ReqEnds
    BY <1>2, OtherIsQuiet DEF OwnerCalls, ConnStep, OtherStep
  <1>3. ASSUME NEW t \in Threads, Call(t) \/ MethodStep(t)
        PROVE  QuietStep \/ QueuePushes(t) \/ \E r \in Requests : QueueChecks(t, r)
    BY <1>3, RestIsQuiet DEF Call, MethodStep, RestStep
  <1>4. QED
    BY <1>1, <1>2, <1>3 DEF Next

(* Every request is in one place at any time and answered at most once,    *)
(* whoever queues it, and whenever the socket is closed or run again.      *)
THEOREM PromisesStayAccounted == Spec => []PromisesAccounted
  <1>1. Init => QueuedInPlace /\ InHands
    <2> SUFFICES ASSUME Init PROVE QueuedInPlace /\ InHands
      OBVIOUS
    <2>1. sendQueue.items = <<>> /\ \A r \in Requests : outcome[r] = "new"
      BY DEF Init, NewSafeQueue
    <2>2. \A t \in Threads : pc[t] \notin {"push", "send"} /\ hand[t] = NoRequest
      BY DEF Init
    <2>3. QED
      BY <2>1, <2>2 DEF QueuedInPlace, InHands, Distinct, Elements
  <1>2. SocketInv /\ QueuedInPlace /\ InHands /\ [Next]_vars => QueuedInPlace' /\ InHands'
    BY StepKinds, QuietKeepsAccounts, PopKeepsAccounts, SendKeepsAccounts, DestroyKeepsAccounts,
       PushesKeepAccounts, ChecksKeepAccounts
  <1>3. QED
    BY <1>1, <1>2, InvAlways, AccountedMeans, PTL DEF Spec

-----------------------------------------------------------------------------
(* The socket implements RequestDelivery.                                  *)

Working == SocketInv /\ QueuedInPlace /\ InHands

LEMMA ConnIsThread == ConnThread \in Threads /\ ReqThread \in Threads
  BY DEF Threads, SocketThreads

(* A request that goes from fate a to fate b.                              *)
LEMMA OneFate ==
  ASSUME outcome \in [Requests -> Outcomes], NEW r \in Requests, NEW answer \in Outcomes,
         outcome' = [outcome EXCEPT ![r] = answer]
  PROVE  /\ FateOfAll' = [FateOfAll EXCEPT ![r] = Fate(r)']
         /\ FateOfAll[r] = Fate(r)
         /\ Fate(r) = Fate(r)' => FateOfAll' = FateOfAll
  BY DEF FateOfAll, Fate

LEMMA QuietRefines ==
  ASSUME QuietStep
  PROVE  UNCHANGED <<FateOfAll, InLine>>
  <1>1. pc'[ConnThread] = "send" <=> pc[ConnThread] = "send"
    BY ConnIsThread DEF QuietStep
  <1>2. QED
    BY <1>1 DEF QuietStep, FateOfAll, Fate, InLine

LEMMA ChecksRefine ==
  ASSUME Working, NEW t \in Threads, NEW r \in Requests, QueueChecks(t, r)
  PROVE  Delivery!DeliveryNext \/ UNCHANGED <<FateOfAll, InLine>>
  <1>1. /\ outcome \in [Requests -> Outcomes] /\ pc \in [Threads -> Labels]
        /\ hand \in [Threads -> Requests \cup {NoRequest}]
    BY DEF Working, SocketInv, SocketTypes
  <1>2. outcome[r] = "new" /\ pc[t] # "send" /\ UNCHANGED sendQueue
    BY DEF QueueChecks, AtHome, Home
  <1>3. InLine' = InLine
    <2>1. CASE UNCHANGED <<pc, hand>>
      BY <1>2, <2>1 DEF InLine
    <2>2. CASE hand' = [hand EXCEPT ![t] = r] /\ pc' = [pc EXCEPT ![t] = "push"]
      <3>1. pc'[ConnThread] = "send" <=> pc[ConnThread] = "send"
        BY <1>1, <1>2, <2>2, ConnIsThread
      <3>2. pc[ConnThread] = "send" => hand'[ConnThread] = hand[ConnThread]
        BY <1>1, <1>2, <2>2, ConnIsThread
      <3>3. QED
        BY <1>2, <3>1, <3>2 DEF InLine
    <2>3. QED
      BY <2>1, <2>2 DEF QueueChecks, Goto
  <1>4. CASE outcome' = [outcome EXCEPT ![r] = "refused"]
    <2>1. Fate(r) = "new" /\ Fate(r)' = "refused"
      BY <1>1, <1>2, <1>4 DEF Fate
    <2>2. FateOfAll[r] = "new" /\ FateOfAll' = [FateOfAll EXCEPT ![r] = "refused"]
      BY <1>1, <1>4, <2>1, OneFate DEF Outcomes
    <2>3. Delivery!Refuse(r)
      BY <1>3, <2>2 DEF Delivery!Refuse
    <2>4. QED
      BY <2>3 DEF Delivery!DeliveryNext
  <1>5. CASE outcome' = [outcome EXCEPT ![r] = "asked"]
    <2>1. Fate(r) = Fate(r)'
      BY <1>1, <1>2, <1>5 DEF Fate
    <2>2. QED
      BY <1>1, <1>3, <1>5, <2>1, OneFate DEF Outcomes
  <1>6. QED
    BY <1>4, <1>5 DEF QueueChecks

LEMMA ConcatAppend ==
  ASSUME NEW T, NEW h \in T, NEW s \in Seq(T), NEW x \in T
  PROVE  <<h>> \o Append(s, x) = Append(<<h>> \o s, x)
  <1>1. <<h>> \in Seq(T) /\ <<x>> \in Seq(T)
    OBVIOUS
  <1>2. <<h>> \o s \in Seq(T)
    BY <1>1, ConcatProperties
  <1>3. Append(s, x) = s \o <<x>> /\ Append(<<h>> \o s, x) = (<<h>> \o s) \o <<x>>
    BY <1>2, AppendIsConcat
  <1>4. QED
    BY <1>1, <1>3, ConcatAssociative

LEMMA PushesRefine ==
  ASSUME Working, NEW t \in Threads, QueuePushes(t)
  PROVE  Delivery!DeliveryNext
  <1>1. /\ outcome \in [Requests -> Outcomes] /\ pc \in [Threads -> Labels]
        /\ hand \in [Threads -> Requests \cup {NoRequest}] /\ sendQueue.items \in Seq(Requests)
    BY SizeType DEF Working, SocketInv, SocketTypes
  <1>2. pc[t] = "push"
    BY DEF QueuePushes, At
  <1>3. PICK r \in Requests : r = hand[t] /\ outcome[r] = "asked"
    <2>1. hand[t] \in Requests
      BY <1>1, <1>2 DEF Working, SocketInv, Hands
    <2>2. QED
      BY <1>2, <2>1 DEF Working, InHands
  <1>4. pc'[ConnThread] = "send" <=> pc[ConnThread] = "send"
    BY <1>1, <1>2, ConnIsThread DEF QueuePushes, Return, Goto, Home
  <1>5. pc[ConnThread] = "send" => hand'[ConnThread] = hand[ConnThread] /\ hand[ConnThread] \in Requests
    <2>1. pc[ConnThread] = "send" => hand[ConnThread] \in Requests
      BY <1>1, ConnIsThread DEF Working, SocketInv, Hands
    <2>2. QED
      BY <1>1, <1>2, <2>1, ConnIsThread DEF QueuePushes
  <1>6. Fate(r) = "new"
    BY <1>3 DEF Fate
  <1>7. CASE PushAllowed(sendQueue)
    <2>1. outcome' = [outcome EXCEPT ![r] = "queued"]
      BY <1>3, <1>7 DEF QueuePushes
    <2>2. sendQueue'.items = Append(sendQueue.items, r)
      BY <1>3, <1>7 DEF QueuePushes, Push
    <2>3. InLine' = Append(InLine, r)
      <3>1. CASE pc[ConnThread] = "send"
        BY <1>1, <1>3, <1>4, <1>5, <2>2, <3>1, ConcatAppend DEF InLine
      <3>2. CASE pc[ConnThread] # "send"
        BY <1>4, <2>2, <3>2 DEF InLine
      <3>3. QED
        BY <3>1, <3>2
    <2>4. outcome'[r] = "queued"
      BY <1>1, <1>3, <2>1
    <2>5. Fate(r)' = "waiting"
      BY <2>4 DEF Fate
    <2>6. FateOfAll[r] = "new" /\ FateOfAll' = [FateOfAll EXCEPT ![r] = "waiting"]
      BY <1>1, <1>3, <1>6, <2>1, <2>5, OneFate DEF Outcomes
    <2>7. Delivery!Accept(r)
      BY <2>3, <2>6 DEF Delivery!Accept
    <2>8. QED
      BY <1>3, <2>7 DEF Delivery!DeliveryNext
  <1>8. CASE ~PushAllowed(sendQueue)
    <2>1. outcome' = [outcome EXCEPT ![r] = "refused"]
      BY <1>3, <1>8 DEF QueuePushes
    <2>2. sendQueue'.items = sendQueue.items
      BY <1>8 DEF QueuePushes, Push
    <2>3. InLine' = InLine
      BY <1>4, <1>5, <2>2 DEF InLine
    <2>4. outcome'[r] = "refused"
      BY <1>1, <1>3, <2>1
    <2>5. Fate(r)' = "refused"
      BY <2>4 DEF Fate
    <2>6. FateOfAll[r] = "new" /\ FateOfAll' = [FateOfAll EXCEPT ![r] = "refused"]
      BY <1>1, <1>3, <1>6, <2>1, <2>5, OneFate DEF Outcomes
    <2>7. Delivery!Refuse(r)
      BY <2>3, <2>6 DEF Delivery!Refuse
    <2>8. QED
      BY <1>3, <2>7 DEF Delivery!DeliveryNext
  <1>9. QED
    BY <1>7, <1>8

LEMMA PopRefines ==
  ASSUME Working, PopQueued
  PROVE  UNCHANGED <<FateOfAll, InLine>>
  <1>1. /\ outcome \in [Requests -> Outcomes] /\ sendQueue.items \in Seq(Requests)
        /\ hand \in [Threads -> Requests \cup {NoRequest}] /\ pc \in [Threads -> Labels]
    BY SizeType DEF Working, SocketInv, SocketTypes
  <1>2. sendQueue.items # <<>> /\ pc[ConnThread] = "poll" /\ sendQueue'.items = Tail(sendQueue.items)
    BY DEF PopQueued, KeepsPolling, IsEmpty, At, Pop
  <1>3. PICK r \in Requests : r = Head(sendQueue.items)
    BY <1>1, <1>2
  <1>4. /\ outcome' = [outcome EXCEPT ![r] = "sending"] /\ hand'[ConnThread] = r
        /\ pc'[ConnThread] = "send"
    BY <1>1, <1>3, ConnIsThread DEF PopQueued, Front, Goto
  <1>5. InLine' = InLine
    <2>1. <<Head(sendQueue.items)>> \o Tail(sendQueue.items) = sendQueue.items
      <3> DEFINE q == sendQueue.items
      <3>1. q \in Seq(Requests) /\ q # <<>>
        BY <1>1, <1>2
      <3>2. Len(q) \in Nat /\ 1 \in 1..Len(q) /\ Len(q) \in 1..Len(q) /\ Head(q) = q[1]
            /\ SubSeq(q, 1, Len(q)) = q /\ Tail(q) = SubSeq(q, 2, Len(q))
        BY <3>1, TailIsSubSeq
      <3>3. SubSeq(q, 1, Len(q)) = <<q[1]>> \o SubSeq(q, 1 + 1, Len(q))
        BY <3>1, <3>2, SubSeqRecursiveFirst
      <3>4. QED
        BY <3>2, <3>3
    <2>2. QED
      BY <1>2, <1>3, <1>4, <2>1 DEF InLine
  <1>6. outcome[r] = "queued"
    <2>1. r \in Elements(sendQueue.items)
      BY <1>1, <1>2, <1>3, TailDistinct DEF Working, QueuedInPlace
    <2>2. QED
      BY <2>1 DEF Working, QueuedInPlace
  <1>7. Fate(r) = Fate(r)'
    BY <1>1, <1>4, <1>6 DEF Fate
  <1>8. QED
    BY <1>1, <1>4, <1>5, <1>7, OneFate DEF Outcomes

LEMMA HeadTailOfOne ==
  ASSUME NEW T, NEW h \in T, NEW s \in Seq(T)
  PROVE  /\ Head(<<h>> \o s) = h /\ Tail(<<h>> \o s) = s /\ <<h>> \o s # <<>>
  <1>1. /\ <<h>> \o s \in Seq(T) /\ Len(<<h>> \o s) = 1 + Len(s) /\ Len(s) \in Nat
        /\ \A i \in 1..(1 + Len(s)) : (<<h>> \o s)[i] = IF i <= 1 THEN h ELSE s[i - 1]
    <2>1. <<h>> \in Seq(T) /\ Len(<<h>>) = 1 /\ <<h>>[1] = h /\ Len(s) \in Nat
      OBVIOUS
    <2>2. \A i \in 1..(1 + Len(s)) : i <= 1 => i = 1
      BY <2>1
    <2>3. QED
      BY <2>1, <2>2, ConcatProperties
  <1>2. <<h>> \o s # <<>> /\ Head(<<h>> \o s) = h
    BY <1>1
  <1>3. /\ Tail(<<h>> \o s) \in Seq(T) /\ Len(Tail(<<h>> \o s)) = Len(s)
        /\ \A i \in 1..Len(s) : Tail(<<h>> \o s)[i] = s[i]
    BY <1>1, <1>2, HeadTailProperties
  <1>4. QED
    BY <1>2, <1>3, SeqEqual

LEMMA SendRefines ==
  ASSUME Working, SendQueued
  PROVE  Delivery!DeliveryNext
  <1>1. /\ outcome \in [Requests -> Outcomes] /\ sendQueue.items \in Seq(Requests)
        /\ hand \in [Threads -> Requests \cup {NoRequest}] /\ pc \in [Threads -> Labels]
    BY SizeType DEF Working, SocketInv, SocketTypes
  <1>2. pc[ConnThread] = "send" /\ UNCHANGED sendQueue /\ pc' = [pc EXCEPT ![ConnThread] = "poll"]
    BY DEF SendQueued, At, Goto
  <1>3. PICK r \in Requests : r = hand[ConnThread] /\ outcome[r] = "sending"
    <2>1. hand[ConnThread] \in Requests
      BY <1>1, <1>2, ConnIsThread DEF Working, SocketInv, Hands
    <2>2. QED
      BY <1>2, <2>1, ConnIsThread DEF Working, InHands
  <1>4. PICK answer \in {"sent", "failed"} : outcome' = [outcome EXCEPT ![r] = answer]
    BY <1>3 DEF SendQueued
  <1>5. Head(InLine) = r /\ Tail(InLine) = InLine' /\ InLine # <<>>
    <2>1. InLine = <<r>> \o sendQueue.items /\ InLine' = sendQueue.items
      BY <1>1, <1>2, <1>3, ConnIsThread DEF InLine
    <2>2. <<r>> \in Seq(Requests) /\ Len(<<r>>) = 1 /\ <<r>>[1] = r
      OBVIOUS
    <2>3. QED
      BY <1>1, <2>1, <2>2, HeadTailOfOne
  <1>6. Fate(r) = "waiting" /\ Fate(r)' = answer
    BY <1>1, <1>3, <1>4 DEF Fate
  <1>7. FateOfAll' = [FateOfAll EXCEPT ![r] = answer]
    BY <1>1, <1>4, <1>6, OneFate DEF Outcomes
  <1>8. Delivery!AnswerFirst(answer)
    BY <1>5, <1>7 DEF Delivery!AnswerFirst
  <1>9. QED
    BY <1>8 DEF Delivery!DeliveryNext

LEMMA DestroyRefines ==
  ASSUME Working, Destroy
  PROVE  Delivery!DeliveryNext \/ UNCHANGED <<FateOfAll, InLine>>
  <1>1. UNCHANGED <<pc, hand>> /\ outcome \in [Requests -> Outcomes]
    BY DEF Destroy, Working, SocketInv, SocketTypes
  <1>2. CASE UNCHANGED <<sendQueue, outcome>>
    BY <1>1, <1>2 DEF FateOfAll, Fate, InLine
  <1>3. CASE Abandon
    <2>1. pc[ConnThread] # "send"
      BY DEF Destroy, NeverStarted, Working, SocketInv, ThreadPlaces, SocketThreads
    <2>2. InLine' = <<>>
      BY <1>1, <1>3, <2>1 DEF InLine, Abandon
    <2>3. \A r \in Requests : outcome[r] # "sending"
      <3>1. SUFFICES ASSUME NEW r \in Requests, outcome[r] = "sending" PROVE FALSE
        OBVIOUS
      <3>2. PICK t \in Threads : hand[t] = r
        BY <3>1 DEF Working, InHands
      <3>3. pc[t] \in {"push", "send"}
        BY <3>2, WhoIsWho DEF Working, SocketInv, Hands
      <3>4. QED
        BY <2>1, <3>1, <3>2, <3>3 DEF Working, InHands
    <2>4. \A r \in Requests : outcome'[r] = IF outcome[r] = "queued" THEN "broken" ELSE outcome[r]
      BY <1>3 DEF Abandon
    <2>5. \A r \in Requests : FateOfAll'[r] = IF FateOfAll[r] = "waiting" THEN "broken" ELSE FateOfAll[r]
      BY <1>1, <2>3, <2>4 DEF FateOfAll, Fate, Outcomes
    <2>6. FateOfAll' = [r \in Requests |-> FateOfAll'[r]]
      BY DEF FateOfAll
    <2>7. Delivery!GiveUp
      BY <2>2, <2>5, <2>6 DEF Delivery!GiveUp
    <2>8. QED
      BY <2>7 DEF Delivery!DeliveryNext
  <1>4. QED
    BY <1>2, <1>3 DEF Destroy

(* The socket implements RequestDelivery: whatever the threads do and in   *)
(* any order, requests are answered once, in the order they were accepted. *)
THEOREM DeliveryIsInOrder == Spec => DeliversInOrder
  <1>1. Init => Delivery!DeliveryInit
    <2> SUFFICES ASSUME Init PROVE Delivery!DeliveryInit
      OBVIOUS
    <2>1. sendQueue.items = <<>> /\ pc[ConnThread] # "send" /\ outcome = [r \in Requests |-> "new"]
      BY WhoIsWho, ConnIsThread DEF Init, NewSafeQueue
    <2>2. QED
      BY <2>1 DEF Delivery!DeliveryInit, FateOfAll, Fate, InLine
  <1>2. SocketInv /\ QueuedInPlace /\ InHands /\ [Next]_vars => [Delivery!DeliveryNext]_Delivery!deliveryVars
    BY StepKinds, QuietRefines, ChecksRefine, PushesRefine, PopRefines, SendRefines, DestroyRefines
    DEF Working, Delivery!deliveryVars
  <1>3. Spec => [](QueuedInPlace /\ InHands)
    BY PromisesStayAccounted, AccountedMeans, PTL
  <1>4. QED
    BY <1>1, <1>2, <1>3, InvAlways, PTL DEF Spec, DeliversInOrder, Delivery!DeliverySpec

=============================================================================
