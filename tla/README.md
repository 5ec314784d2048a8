# Verification of NickSVChat

TLA+ models of the chat library in this repository, their TLC configurations, and theorems about them
checked by TLAPS. All source references are to the repository, e.g. `src/ChatServer.cpp` for the
library's server.

## 1. The system

NickSVChat is a C++ library on top of Valve's GameNetworkingSockets (GNS) and protobuf. An application derives
from `ChatServer` or `ChatClient`, both of which derive from `ChatSocket`.

| Component | State | Operations | Talks to |
|---|---|---|---|
| **ChatSocket** (`src/ChatSocket.cpp`) | two threads, `m_bGoingExit`, `m_sendRequestsQueue`, `m_handleRequestsQueue` and their `m_bPushEnabled` | `Run`, `CloseSocket`, `Wait`, `QueueRequest`, `SendRequest`, the two thread loops | GNS; the user's threads through the queues and futures |
| **ChatServer: tables** | `m_mapClients` (id to connection and client info), `m_mapConnections` (connection to id), `m_lastFreeID` | `GenerateUniqueUserID`, `ReserveUserID`, `AcceptClient`, `RemoveClient`, `RemoveClientByConnection`, `ChangeClientID` | all threads below |
| **ChatServer: client lock** | `m_ClientLock`, a lock per id | `Lock`, `LockAll`, `Unlock`, `UnlockAll(id)` | all threads below |
| **ChatServer: connection thread** | place in its loop | connection callbacks, `PollIncomingRequests`, `PollQueuedRequests`, shutdown | GNS, tables, queues |
| **ChatServer: request thread** | request in hand | the two `HandleRequest` | tables, send queue, user's virtual methods |
| **ChatClient** (`src/ChatClient.cpp`) | connection handle, client info, place | `Connect` with timeouts and attempts, callbacks, polls, the client's side of the handshake | GNS, queues |
| **Request, ClientInfo, Message** | protobuf fields | accessors, `SetText` | – |
| **Helpers** (`src/Utils.cpp`, `Utils.h`) | – | `IsValidUTF8String`, version packing, `ResultIsOneOf` | – |
| **ConsoleChat** (`examples/ConsoleChat.cpp`) | place of its main | a user of the library: runs a client, sends what is typed, waits for each future | ChatSocket |

How they interact: GNS keeps a state for every connection and a queue of status changes; `RunCallbacks` in the
connection thread delivers them to `OnSteamNetConnectionStatusChanged`, which accepts or removes a client. Incoming
messages go from GNS to the handle queue (connection thread), from there to `HandleRequest` (request thread), whose
answers go to the send queue, which the connection thread empties into GNS. User threads change the tables and add
to the send queue. The handshake: the server accepts a connection as `Unauthorized` and sends the client its id; the
client takes it and sends its client info back; the server makes it `Active` and answers; the client makes itself
`Active`. Only `Active` clients get messages.

What is hard: the four kinds of threads share the tables and the lock, some accesses are made without the lock;
connections die at any moment, and their callbacks arrive later; a request is addressed by id and sent later, when
the id may mean somebody else; queues are bounded and drop what does not fit, and their limit is checked before the push;
the lock is not recursive; shutdown runs against all of this, may be asked for by any thread and at any time; a client that reconnects
finds requests and callbacks of the connections it had before; and the `RunCallbacks` of one socket delivers the callbacks of every socket of the process.

What makes each component correct:

- tables: they agree with each other (`doc/Protocol.txt`, rule 2), ids are unique, no entry on a dead connection,
  an id stays reserved only for a connection that was rejected; seen from outside, a connection joins once, authorizes itself with its own id, leaves once;
- lock and threads: nobody waits for himself; no reference outlives its entry; an entry that is being filled in is
  not seen or removed;
- connection thread: every connection is released in the end; answers reach the client they are for, messages reach
  everybody but the author, in one order;
- request thread: a client becomes Active if and only if it returns its id, and only an authorised client talks;
- socket: requests are answered once and in order, no future is left unresolved, `Wait` returns after `CloseSocket`,
  no thread is destroyed while it runs, the queue limit holds;
- client: no connection is forgotten, the state of the client info belongs to the current connection, `Connect` keeps its
  timeout and spaces its attempts;
- texts: what is sent is well-formed, and the answer of `SetText` tells whether it was set.

The `hazards` in `PROJECT.json` list what is hard to test, with its line and the properties that cover it or the
reason why none does.

## 2. Modules

| Module | Contents |
|---|---|
| `ClientRegistry` | the two tables as functions and the pure operations on them: `GetUserIDState`, `ReserveUserID`, `ClientIDByConnection`, `ChangeClientID` |
| `ChatServer` | the server with all of its threads, GNS and the peers: state, one action per step, `Spec`, `FairSpec` |
| `ChatServerProperties` | the type invariant, what the server promises, and the refinement mapping to `Membership` |
| `Membership` | the abstract specification of the server: who is a client, under which id, since when |
| `ChatServerUsage` | the server used in two ways its documentation shows: waiting for a future in a handler, removing under `LockAll` |
| `MCChatServer` | symmetry, and two initial states for TLC: all handshakes done, and an id reserved in advance |
| `SafeQueue` | the queue under a mutex that both sockets use, with the switch that turns `Push` off |
| `ChatSocket` | lifecycle and send queue of a socket, with its users and the callbacks of its own threads |
| `ChatSocketProperties` | what a socket promises, and the refinement mapping to `RequestDelivery` |
| `RequestDelivery` | the abstract specification of `QueueRequest`: a line of requests and the fate of each |
| `ConsoleChat` | the main thread of the example as the user of a `ChatSocket` |
| `ChatClient` | the client, with GNS and the server's part of each of its connections |
| `ChatClientProperties` | what a client promises |
| `ConnectTiming` | the arithmetic and the clock of `Connect`, with its properties |
| `MessageText` | `SetText` and the loop of `IsValidUTF8String`, with its properties; `MCMessageText` gives it strings |
| `ChatServerProofs`, `ChatServerTablesProofs` | proofs about the server: types, then ids and tables |
| `ChatServerMembershipProofs`, `ChatServerOrderProofs` | on top of these: connections, authors and the refinement; the order of messages |
| `ChatSocketProofs` | proofs about the socket: lifecycle, then queue and refinement |
| `ChatClientProofs`, `ConnectTimingProofs`, `MessageTextProofs` | proofs about the client, `Connect` and texts |

In every model an action is what one thread does between two points where another can tell the difference, the
build is a release build (`CHAT_ASSERT` does nothing; the assertions that matter are properties), and an operator
`Op_Flaw`, used by no action, is `Op` with a plausible bug.

### ChatServer

- **State.** `mapClients`, `mapConnections`, `lastFreeID`, `sendQueue`, `handleQueue`, `pushEnabled`, `goingExit` are
  the members of the same name. A map is a total function with a value for "no such key". `lock` gives the owner of
  each id. `pc`, `place`, `received`, `sending`, `handling`, `polls` are the local variables of the threads.
  `connState`, `callbacks`, `inbox`, `outbox` are GNS. `boundID`, `serial` and the fields `peer` and `serial` of
  requests are history: no guard reads them except the bound on `serial`.
- **Steps.** A lock that is taken and released around statements that wait for nothing
  becomes the guard `IsFree(id)` (or `AllFree`) of one action; a lock held across steps is in `lock`: id 0 while a message
  is taken from GNS and its client locked, id 0 during a broadcast, and the new id from `UnlockAll(id)` to the end of
  `AcceptClient`. `GenerateUniqueUserID`, which takes no lock, is six actions (the test, and the read and the write of each `m_lastFreeID++`),
  `HandleRequest(MessageRequest)` two (the look-up and the use of the reference).
- **The callbacks** are run by the connection thread, and by `OtherCallbackThreads` where the run has another
  socket in the process (`tests/NickSVChatTest.cpp` runs a server and a client in one).
- **Errors.** Requests too short to hold a type, of an unknown type, for a full or disabled queue, for a client that is
  gone; a refused message (`SendMayFail`); `AcceptConnection` failing because the peer has left; the user's verdicts on
  clients, client infos and messages.
- **Membership.** `stage` is read off the tables: a connection has joined when it is in `m_mapConnections`, is active
  when its entry is, and is gone when it was accepted once and is in the table no more; an entry that is being filled in has
  joined. `claims` are the client infos on their way, wherever they are: in GNS, in the connection thread's hand, in the
  handle queue, in the request thread's hand. So `Activate` says that the id a client becomes Active for was sent by that very
  connection, and was its own, whoever had sent what else before.

### ChatSocket

- **State.** `goingExit` and `sendQueue` are members; `thread` is what each of the two `std::thread` pointers points to
  (null, running, ended, joined, or deleted with the pointer kept); `object` is the socket itself, `outcome` each
  request's promise, `hand` the request a thread has between two steps. `closed` is history: whether a `CloseSocket` that has returned since the last
  `Run` came before there were threads to stop (`early`, `ChatSocket.cpp:27-31`) or found them (`in force`).
- **Steps.** `QueueRequest` is two (the size is checked, then the request is pushed under the mutex), `CloseSocket`
  three (the flag, the switch of the queue, the flag again), `Run` four (its beginning, its success or failure, each
  thread), `Wait` three. Any thread may call `QueueRequest` and `CloseSocket`, also the socket's own, from callbacks.
- **Use.** `CloseSocket` may be called before `Run` and after a `Run` that failed. `Owner` calls `Run`, `Wait` and the destructor in this order, and `Run` again if it failed. `Liberties` are what
  a user may do beyond that: `Run` again after `Wait`, or `CloseSocket` while `Run` is on its way.
- **RequestDelivery.** `line` is the request being sent and those in the queue; `fate` forgets where a
  request is while it waits. A push onto the queue is `Accept`, the end of a send `AnswerFirst`, the destructor `GiveUp`.
- The send loop is the one of `ChatClient`, which the server's follows with locks and recipients added. The handle queue is in `ChatServer` and `ChatClient`.

### ChatClient, ConnectTiming

- **State.** `hConnection`, `clientInfo`, the queues and `goingExit` are members; `place`, `caller` and `attempts` are
  where `Run` or the connection thread is; `connState`, `callbacks`, `inbox`, `outbox` are GNS; `granted` is the state
  the server has for its client on each connection. `dropped` and `forgotBy` are history: the connections of whose handshake something was refused or
  found a queue full, and the connection whose late report made the client forget each one it had.
- **Composition.** A handle stands for both ends of a connection and is also the id the server gives on it. That ids are
  fresh for each connection is what `IdsAreUnique` proves of the server. What the server does to one connection is four actions:
  it accepts, handles a client info (`ChatServer.cpp:108-155`), closes with or without a farewell, or the connection fails.
  `MayRefuse` lets the users of both ends refuse client infos (`ChatClient.cpp:238`, `ChatServer.cpp:123`) and the server's queues be full.
- **Steps.** `Connect` is one step for each attempt and one for its failure, so callbacks, closes and messages fall between;
  `HandleRequest` runs in the request thread at any moment, also after `CloseSocket`, and
  may leave requests behind that the next `Run` finds. The client's callbacks run on its own thread only.
- **ConnectTiming** is what `ChatClient` leaves out of `Connect`: the check of the parameters and the first sleep in unsigned arithmetic of `UIntRange` values (with the
  division by zero it can come to), the division into steps, the two sleeps, callbacks and sleeps that take longer.

### MessageText

Bytes are numbers, the masks of the code the ranges of bytes they select. `IsValidUTF8String` reads one character per
step. `WellFormed` is its reference: defined by position, not from left to right.

### External code

GNS: a connection goes Unused, Connecting, Connected, Closed (by the peer or by a timeout), Dead (handle released);
received messages can be read until the handle is released; callbacks are delivered in order, also for handles released
meanwhile; closing a handle that is not in use does nothing. `AcceptConnection` makes the connection Connected at once. Any connection
with a message may be the next one polled (GNS orders by arrival, which is one of the choices). `DynamicValueLock` of
NickSV Tools (an empty submodule here): one owner per id, not recursive; `LockAll` is granted when every id is free and
does not stop others from locking meanwhile, so it may be overtaken for ever; `FairSpec` makes no promise about that beyond weak
fairness (see 5).

## 3. Runs

| Run | Instance | Shows |
|---|---|---|
| `ServerTables` | 2 connections, all verdicts, removals, sends and `CloseSocket` by a user, good, wrong and broken requests; 370 000 states, which take a minute and a half | the tables agree, ids are unique, no connection is leaked and no client left on a dead one, no message without a client, no answer to the wrong connection, `at(id)` does not throw, only rejections leave an id reserved; the server implements `Membership` |
| `ServerBroadcast` | 3 established connections, 2 messages by peers and the user, refused sends; 1.4 million states | no echo, the right author, the author's order, one order for everybody |
| `ServerLiveness` | 2 connections, 2 client infos, queues of one, an id reserved in advance, `FairSpecReserved`, `CloseSocket`; 382 000 states, which take three minutes | closed connections are released, handshakes start and complete unless a full queue drops them, shutdown completes |
| `ServerIdChange` | 2 established connections, changes of ids, reservations, removals, callbacks on two threads; 630 000 states | the tables agree |
| `SocketRequests` | two users and both socket threads' callbacks, which close the socket at any time, 3 requests, queue limit 1, 2 calls of `Run`, `FairSpec`; 352 000 states | the queue exceeds its limit by no more than a request per further thread, promises are answered once and in order (`RequestDelivery`), a socket whose threads were told to stop refuses requests, nothing is destroyed that runs, `Wait` returns, futures become ready |
| `ClientConnections` | 3 connections, two attempts for each `Connect`, queue limit 2, refusals, `FairSpec`; 509 000 states | only a late report about an earlier connection makes the client forget one, others are used or released, polls have one, Active is what the server granted, the handshake converges over reconnections, a closed client ends |
| `ConnectTimes` | six timeouts around the bounds of the check, 0 to 5 attempts and 1024, unsigned integers of 11 bits, four delays; 8.2 million states | attempts are 500 ms apart, none is lost to rounding, the timeout is exceeded by one attempt at most, unless the arithmetic wraps |
| `MessageTexts` | all strings of up to 3 bytes of six kinds, also behind the first byte of a character of four; 9 600 states | the check accepts the well-formed strings, the text stays well-formed |
| `WaitInHandler`, `UnauthorizedTalks`, `DanglingAuthor`, `MainWaitsForever` | small | each a departure from what the repository says, see 4 |

**Bounds of the server's runs.** `LibReservedUserIDs = 2` (only 0, the invalid id,
and 1, the server's, matter among the 256), `MaxUserID = 4` (ids 2 and 3 for two
connections to be accepted, 4 for the user to reserve or for the third established client; in `ServerLiveness` one more, as the first is
reserved in advance, so that `GenerateUniqueUserID` has to pass it; `GenerateUniqueUserID` stops
at the bound, in the code it goes on up to 2^32), queues of two (one element and the limit both occur; in `ServerLiveness` of one, so that they overflow) and
loops of two polls (the limit of 30 and the empty queue both occur). `MaxRequests` bounds what peers and users send.
Two connections are enough for what two clients can do to each other; three are needed to compare what two
receivers get from a third. One user thread is enough as its steps are single actions except for `CloseSocket`.

**Of the socket's.** With a limit of one and three requests the bound of `QueueBounded` is reached by the two users before `Run`; once all
four threads have been started it would take four requests at a time, which is left to the theorem. The queue is drained and filled again, and
some requests outlive the connection thread; two runs are the least in
which something of the first is left for the second. The second user closes the socket while the first is anywhere.

**Of the client's.** A third connection is needed for a request of the first to be in a queue while an answer of
the second is. Two attempts are the least that make a callback about an abandoned connection come late; the code's default is ten, and
the theorems are for any number. Queues of two are full after two connections.

**Of `Connect`'s.** With 2048 unsigned integers 500 times 5 wraps, and so does twice 1024: both wraps of the code happen in the run
as they do at 8 589 935 and 2^31 attempts in 32 bits.

**Where a property has an escape.** The code drops what a full queue cannot take and does not repeat it: the authentication
request that `AcceptClient` sends (it ignores the `Overflow`), a client info the server has received (`ChatServer.cpp:232`), both directions of the handshake in the
client. So `HandshakeStarts` says that a connected client is sent its id unless the send queue is full while its request is not in it;
`HandshakeCompletes` says that a client info which is right makes its client Active unless the handle queue is full while it is not in it; `HandshakeConverges`
says that a running client becomes Active on its connection unless something about this very connection was dropped or refused. Each also ends with the
connection or with `CloseSocket`. The escapes are needed and occur in the runs: without its escape TLC finds each of the three violated. In
the same way `ForgottenByLateReport` and `LostIsReleased` except the connections a late report has made the client forget, and the properties of `ConnectTiming`
the parameters for which its arithmetic wraps; what the code does there is in section 4.

Every property of a passing run has a mutant in `PROJECT.json`: a plausible bug in a mapped definition under which TLC
finds the property violated.

## 4. Where the code departs from what the repository says

The four violation runs are the `findings` of `PROJECT.json`; their traces are short:

| Run | What happens |
|---|---|
| `UnauthorizedTalks` | `HandleRequest(MessageRequest)` reports that a client is Unauthorized and then passes its message on, for want of a `return` |
| `DanglingAuthor` | the same handler uses a reference to a client info without a lock, after the client was removed |
| `WaitInHandler` | a handler that waits for the future, as `ChatServer.h:427` allows, holds the lock the answer needs |
| `MainWaitsForever` | requests left in the queue when the connection thread ends keep their promises: the example's main waits for ever (`ConsoleChat.cpp:405`) |

The following definitions state further claims of the repository. TLC refutes each of them too; they have no run of
their own. To see one, change the constants of the named configuration as said and give the definition as its only invariant or property.

| Definition | Configuration | What happens |
|---|---|---|
| `GeneratedIdIsFree` | `DanglingAuthor`, `UserOps = {"reserve"}` | `ReserveUserID` under the lock gets the id `AcceptClient` has found free but not yet locked (`ChatServer.cpp:465`; the assertion at 469). Without such calls it holds: `GeneratedIsFree` |
| `RemovalReturns` | `WaitInHandler`, `LockedRemovalSpec` | the documented `LockAll(); RemoveClient(id); UnlockAll()` waits for itself (`Types.h:131-137`) |
| `NoReservedLeak` | `ServerTables` | the id reserved for a connection that is rejected stays reserved (the FIXME at `ChatServer.cpp:475`) |
| `IdsUnique`, `NoOrphanMessage` | `ServerLiveness`, `Spec`, `UserOps = {}`, `OtherCallbackThreads = {x1}` | with callbacks on another socket's thread two clients get one id (`ChatServer.cpp:449`), and a message arrives before its client (the assertion at 211) |
| `NoFault` | `SocketRequests`, `Liberties = {"rerun"}` | after a second `Run` that fails, the thread objects of the first are deleted twice (`ChatSocket.cpp:16-21`) |
| `CloseIsHeard` | `SocketRequests` | a `CloseSocket` before `Run`, during it (also by a `FatalError`) or after a failed one is lost: it returns at `ChatSocket.cpp:27`, and the queue stays open |
| `CloseFindsThreads` | `SocketRequests` | a callback closes the socket before `Run` has stored the request thread (`ChatClient.cpp:65-66`; the check at `ChatSocket.cpp:30`) |
| `WaitFindsThreads` | `MainWaitsForever` | `Wait` after a `Run` that failed follows null pointers, as in `ConsoleChat.cpp:382-421` |
| `CallbackIsOurs`, `NoLeakedHandle`, `AllLostAreReleased` | `ClientConnections` | a callback about an attempt that was given up drops the handle of the live connection without closing it (`ChatClient.cpp:303`, 312); when that connection is lost, nobody releases it |
| `ActiveMeansReady` | `ClientConnections` | after a reconnection the client is Active for itself and Unauthorized for the server (`ChatClient.cpp:319`; `Types.h:193`) |
| `EveryRequestParses` | `ClientConnections` | the farewell of the shutdown is no request (`ChatServer.cpp:84`; `ChatSocket.cpp:204`) |
| `AllAttemptsAreSpaced` | `ConnectTimes` | `maxAttempts*500` wraps around, and the attempts follow each other without a pause (`ChatClient.cpp:79`; `ChatClient.h:88`) |
| `NeverDividesByZero` | `ConnectTimes` | `2*maxAttempts` wraps around to 0, which divides at `ChatClient.cpp:112` |
| `TimeoutIsReported` | `ConnectTimes` | `TimeoutExpired` is always overwritten by `Error` (`ChatClient.cpp:128`, 51) |
| `SetTextTells` | `MessageTexts` | `SetText` returns false when it has set the text (`Message.cpp:27`; `Message.h:36`) |
| `ProtobufAccepts` | `MessageTexts`, `Bytes = {65, 128, 160, 192, 237, 240, 244}` | overlong forms, surrogates and code points above U+10FFFF pass the check (`Utils.h:185`) |

## 5. Fairness

- **Server.** Weak fairness of the connection thread, of the request thread, and of a user thread that is inside
  `CloseSocket`: the operating system runs a thread that is not waiting. Nothing is assumed of the peers, of GNS (a peer
  need not send or close) or of a user who is not inside a call. Weak fairness is enough as the loops visit every part in
  turn and the loop limits keep one part from starving the others; that `LockAll` is granted follows from the model in these
  instances and is not assumed. No liveness property is checked with other callback threads.
- **Socket.** Weak fairness of `Run` and `Wait` once called, of both socket threads and of every thread inside a method.
  Nobody has to call anything: what callbacks do is not part of the fair steps, going on from them to the polls is.
  As each request is made once, callbacks cannot fill the queue for ever.
- **Client.** Weak fairness of its two threads, and of the server's handling of a client info that has arrived. Whether the
  server accepts, closes or the network fails is nobody's promise. The polling loops of the client have no limit; the bound on what the server
  sends stands for a peer that does not send faster than the client reads.

## 6. Theorems

For every value of the constants the named assumptions allow: any number of connections, ids, threads, users,
requests, runs and attempts, any limit of queues and loops, strings of any length.

**Server**, `ChatServerProofs`:

- `TypeCorrect`: `Spec => []TypeOK`. Beyond types it says what each thread has in hand at each
  place, e.g. that a generated id is none of the library's. One lemma per thread and group of actions.
- `AcceptFindsEntry`: `[]BindFindsEntry`. The entry stays because its id is locked and who erases needs all
  locks: `BindOwnsID` adds the lock, and with it is inductive. Holds with callbacks on any number of threads.

`ChatServerTablesProofs`, if callbacks run on the server's own thread only (`OwnCallbacksOnly`):

- `IdsAreUnique`: `[]IdsUnique`. `IdsInv` adds that all ids given out are below `m_lastFreeID` and that the one on its way is nobody's.
- `TablesAgreeAcrossChanges`: `Spec /\ [][ChangesSpareGenerated]_vars => []TablesAgree`. The user may change ids as he likes, except that no call of
  `ChangeClientID` moves a client to the id `AcceptClient` has generated and not yet inserted. Inductive together with `FreshInv` (a
  connection is accepted at most once: its first callback is delivered once, so at the insertion it is in no table) and
  `TablesInv` (no client is at the generated id until the insertion, `GeneratedIsVacant`; between the insertion and the assignment of its
  connection exactly the connection being accepted is under the id, `BindIsMapped`). `TablesAlwaysAgree` is the case without changes (`NoIdChange`).
- `GeneratedIsFree`: `[]GeneratedIdIsFree`, the assertion at `ChatServer.cpp:469`, if the user moreover neither reserves nor changes ids
  (`OnlyAcceptReserves`): every key of `m_mapClients` is below `m_lastFreeID`. Section 4 shows it fail when the user reserves ids. No run has it as a property.

These assumptions are needed: section 4 shows two clients under one id with another callback thread, and without
`ChangesSpareGenerated` (TLC finds it on an instance of two connections) the connection being accepted takes over the entry of a client moved to the generated id,
and `m_mapConnections` leads there from both.
`ServerIdChange` checks the agreement under changes with a second callback thread, where nobody is being accepted.

`ChatServerMembershipProofs`, with `OwnCallbacksOnly`, on top of these invariants (`RegistryBase`):

- `ConnectionsAcrossChanges`: `Spec /\ [][ChangesSpareGenerated]_vars => [](NoLeakedConnection /\ NoDeadClient /\ NoOrphanMessage)`. Its three parts, for a user who
  changes no ids:
  - `NoneIsForgotten` (`NoLeakedConnection`), inductive as `AttendedInv`: a connection GNS has not released is in the tables, or a callback for it waits, or
    the thread is working on it.
  - `ClientsAreAlive` (`NoDeadClient`). `AliveInv` follows a connection from its first callback (`ConnectingIsFresh`) over an accept that
    was aborted (`AbortedIsDoomed`) to the shutdown (`SweptIsEmpty`).
  - `NoMessageIsOrphaned` (`NoOrphanMessage`): a message waits only at a connection that has been bound, and such a connection is in the
    tables until its inbox is dropped.

What is about ids and not about connections needs `NoIdChange` besides, and the invariants `IdsInv` and `MappedIsBound` (a connection is in the table under
the id it was accepted under; together `TablesBase`):

- `AnswersReachTheirClient`, `SendersAreAuthors`, `AuthorsHearNoEcho`: `[]NoMisdelivery`, `[]SenderIsAuthor`, `[]NoEcho`. `HandledInv` says
  that what comes from a connection carries the id the connection was bound to, `QueuedInv` that
  what is queued or being sent is addressed to it or excludes it. As ids are never used again, an id means one connection for ever.
- `RejectionsCostOneID`: `[]OnlyRejectionsLeak`, if moreover the user neither reserves nor changes ids (`OnlyAcceptReserves`), whatever his verdicts. Each stuck
  id is paid for by a connection that was let go without a client, no two by the same; a connection once let go stays so (`TurnedAwayStays`). A new stuck
  id arises where `AcceptClient` gives a connection up between the reservation and the insertion, and that connection, which is not among the paying ones
  as it was alive until then, pays for it. Removals and the shutdown take entries of clients only (`StuckKept`).
- `ServerImplementsMembership`: `Spec => IsMembership`. Every step is `Join`, `Activate`, `Leave`, `LeaveAll`, `Claim`, `Forget` or a
  stutter of `Membership`, under the mapping of section 2.

`ChatServerOrderProofs`:

- `OrderIfTablesAgree`: `Spec /\ []ClientsAgree => [](AuthorOrder /\ SameOrder)`, for any number of callback threads and whatever the user calls. The one thing
  asked of the tables is that no two entries of `m_mapClients` are about one connection. The invariant `OrderInv` numbers the seven places
  a message can be in (the inbox, the connection thread's hand, the handle queue, the request thread's hand, the send queue, the broadcast under way, an outbox).
  `InLine` says that for each author a message in a later place is older than one in an earlier place; `InboxRises`, `HandleQueueRises` and
  `SendQueueRises` say the same within a queue; `SentIsPassed` says that a client which has the message being
  sent is behind the walk over the clients and has it as its last one.
- `OrderAcrossChanges`: the hypothesis on the tables replaced by `OwnCallbacksOnly` and `ChangesSpareGenerated`.
- `MessagesInOrder` (`AuthorOrder`) and `OneOrderForAll` (`SameOrder`): the case without changes of ids.

**Socket**, `ChatSocketProofs`, from `SocketAssumption`:

- `SocketTypeCorrect` (`SocketTypeOK`), `WaitedIsStopped` (`WaitMeansStopped`).
- `OrderedUseIsSafe`: `[]NoFault`, if `Run` is repeated only after a failure; the strengthening relates the thread pointers to the places of the three threads.
- `CloseIsFinal`: `[]ClosedMeansRefusing`, if `Run` is not called again after a `Wait`; the users may close the socket at any time. A `CloseSocket` that
  found no threads is not in it, and cannot be (`CloseIsHeard` in section 4). `Closing` follows the threads that are between the steps of a `CloseSocket`.
- `QueueStaysBounded`: `[]QueueBounded`. The inductive form counts the threads between check and push (`Pushers`): the queue and they together stay below the bound, which grows
with the threads there have been (`Callers`).
- `PromisesStayAccounted`: `[]PromisesAccounted`, each request is in one place and answered at most once.
- `DeliveryIsInOrder`: `Spec => DeliversInOrder`, the refinement of `RequestDelivery`.

**Client**, `ChatClientProofs`, from `ClientAssumption` (any number of attempts and of runs, so with stale callbacks too):

- `ClientTypeCorrect` (`ClientTypeOK`), `PollsAreConnected` (`PollsHaveConnection`).
- `ActiveIsGranted`: `[]ActiveWasGranted`. The handle queue holds what the server wrote in the order of the connections (`QueueInv`), and every answer
  names the connection it is about (`MessagesInv`), so an Active that arrives last about this connection was written for it.
- `ForgottenOnlyByLateReports`: `[]ForgottenByLateReport`. `ForgetInv`: of each connection at most one report of an end is on its way (`EndReportedOnce`), such a report is about a
  connection that has ended and has made the client forget nothing yet (`ReportsAreTrue`). So a report that finds another connection in use is about an earlier one, and
  is spent with it.

**Connect**, `ConnectTimingProofs`, for any timeouts, numbers of attempts and width of the unsigned integers; the wraps are in the properties, not assumed away.
`TimingInv`: `SpacedWithoutWrap` (`AttemptsAreSpaced`, as long as 500 times the attempts fits), `OverrunIsOneAttempt` (`OverrunBounded`, as long as twice the attempts fits). `LateInv` bounds
the time on the clock by the attempts made, each with its step and the longest callback and lateness so far: `NoAttemptIsLost` (`NoAttemptLost`, as long
as twice the attempts fits).

**Texts**, `MessageTextProofs`: `CheckDecidesWellFormed` (`VerdictIsRight`), `TextStaysWellFormed` (`TextIsWellFormed`). The loop's invariant:
in the bytes read so far every byte is in its place, and the last character ends there.

Only model-checked: the agreement of the tables when callbacks run on two threads (`ServerIdChange`); all liveness (out of the
prover's reach); everything in `ChatServerUsage` and `ConsoleChat`. `NoMisdelivery`, `NoEcho`, `SenderIsAuthor` and `IsMembership` are not claimed for a user who
changes ids: a request under way then names an id that is somebody else's or nobody's.

## 7. Not modelled

- In the server: `FatalError` when GNS returns a negative count for a valid poll group; what the user's virtual
  methods do besides their verdict (calls back into the library), apart from the wait in `ChatServerUsage`;
  `OnPreQueueRequest`'s veto; iterating over the clients. The server's `QueueRequest` checks and pushes in one step; the two
  steps and the promises are in `ChatSocket`.
- In the socket: two threads in `Run`, `Wait` or the destructor at the same time, which C++ leaves undefined. The handle
  queue's limit and switch are those of `SafeQueue` and checked with the server and the client.
- In the client: the uninitialised `m_hConnection` may hold the handle of another socket of the process, which the
  first `Connect` would close; the client is alone in its process here.
- `IChatSocket` is an interface; `Request`, `ClientInfo` and the rest of `Message` are accessors of protobuf objects, which the models take for
  records; a message that does not parse counts as one of unknown type. The conversion of versions and `ResultIsOneOf`
  are single expressions.
- Generated code, build files, the tests, and the example's server and console.
- Times, except for `Connect`'s: `sleep_for` only lets others run.

## 8. Plan

1. **Membership for `ChangeClientID`**: an abstract action that renames a client, for servers that accept nobody meanwhile.
2. **Two callback threads**: the agreement of the tables as a theorem for servers that accept nobody, which `ServerIdChange` checks.
3. **One process, two sockets**: the server with a whole `ChatClient` beside it as the other callback thread.

## 9. Running

    tlc -workers 2 -config ServerTables.cfg MCChatServer
    tlc -workers 2 -config SocketRequests.cfg ChatSocketProperties
    tlc -workers 2 -config ClientConnections.cfg ChatClientProperties
    tlapm ChatServerMembershipProofs.tla

`PROJECT.json` names the module of each run. The runs take from seconds to a minute or so each, `ServerLiveness` three.
