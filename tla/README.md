# TLA+ models of Winsock-MultiThread-Server

The repository is a teaching project around one program, **MintServer**
(`src/MintServer`): a Windows chat server with four threads, intrusive lists
with per-list locks, events to sleep on, and a `select` loop. Beside it are two
clients (`src/MintClient`, `src/MintUnityClient`) and the tutorials that lead up
to the server (`src/Example`). These modules model the server with its clients,
the library it is built on, its start and end, both client programs and the
tutorials; they check what the parts promise each other, and prove part of that
for a system of any size.

## 1. The system

### Threads, and what passes between them

```
 clients --connect--> backlog --accept--> [accept thread] --AcceptList--> [main thread]
 clients --packets--> handles --recv----> [main thread]   --PacketRecvList + event--> [gameplay thread]
 [gameplay thread] --PacketSendList + event--> [send thread] --send--> clients
 [main thread]     --event, SelectTimeModeFlag--> [accept thread]
 [gameplay thread] --RunFlag, closesocket(ListenSocket), events--> all (server_exit)
```

| Component (code) | State it keeps | Operations | Hard behaviour |
|---|---|---|---|
| Main thread, `Select_InMainThread` (`TCPServer.cpp:152`) | `SocketRecvList`, the read set, the position in the list | timed or blocking `select`; turn accepted connections into clients (`AcceptListCreateClientNode`); wake the accept thread; receive one packet from each ready client; drop a client (`RecvFreeClientNode`); `Release` | reads `SelectTimeModeFlag` and `AcceptList` without a common lock; puts up to `FD_SETSIZE` handles into an array of 64; frees send nodes other threads point at; `select` over handles another thread closes |
| Accept thread, `Accept_InThread` | the mode flag, `AcceptList` | sleep, poll `accept`, refuse when full, link, clear the flag | compares with a count that lags; clears the flag in a step of its own |
| Gameplay thread, `Gameplay_InThread` and `GameServer` | `ClientList`, players, order numbers received, timers | create and free client and send nodes; check order numbers; queue messages; time out silent clients; `server_exit` | searches `SocketSendList` unlocked while the main thread frees nodes of it; closes handles that are being polled; handle numbers are reused |
| Send thread, `Send_InThread`, `SendEx` | `SocketSendCache` | copy the list when its length changed; number and send a packet to each entry | stale cache; writes through pointers into client nodes the gameplay thread frees |
| Packet queue with its event (`WaitEvent.cpp`, `LockList.hpp`) | a list, a manual-reset event | link then `Awake`; `WaitForSingleObject`, then `ResetEvent`, then take nodes until none is left | an `Awake` between the wait and the reset |
| Intrusive lists (`List/*.hpp`, six classes) | linked nodes, free nodes, three counters | get, link, insert in order, unlink with its refusal, free, release | counters, head, tail and `pPrev` must agree; a node freed twice is in the pool twice |
| Memory pool (`MemoryPool.cpp`) | one block, extra buffers | allocate, release | not locked; lists call it under different locks |
| Start and end (`GameServer::MainRun`, `Create`, `Release`, `CThread`) | lists, thread handles, events | build everything, start three threads, wait for them, tear down | a failure half-way leaves members uninitialised; threads run before the rest is there; `CreateEvent` and `_beginthreadex` are not checked |
| Byte stream (`SendEx`, `ReceiveEx`, `RecvEx`, `OnReadPacket`) | what is read and what is missing | cut a stream into packets | a piece of a packet, a sender that gives up inside one, a length nobody compares with the buffer |
| Task manager (`Task.cpp`, `Tool::sDelayTime`) | tasks on a pool list | add, run, free | a clock that wraps, nodes used again |
| MintClient (`src/MintClient/src/main.cpp`) | socket, text typed, heartbeat task | connect, name, chat, receive, shut down | `fgets` blocks the heartbeat; `Release` after any failed call |
| MintUnityClient (`Assets/TCPClient.cs`) | one buffer, one counter, a socket finished by callback | two threads that send, a read per frame | both threads number and write packets without a lock |
| Tutorials 1 and 2 (`src/Example`) | one `Client.Socket` | echo servers, blocking, non-blocking and `select`, and clients | a handle overwritten by `accept`; a short send |
| Tutorial 3 | counters, two players with locks, a task list | threads that count, swap, produce and consume | lost update, lock order, deleting a lock in use, one event passed back and forth |
| Component frameworks (`IComponent.cpp`, `EDComponentFramework.cpp`) | a tree of lists | recursive callbacks, search by id | a callback that changes the tree it is called from |
| Logger, copy helpers, build scripts | - | helpers | - |

### What makes each part correct

- *Queues:* no node is left in a queue beside a consumer that sleeps with no
  wake-up due; every node is taken in the end.
- *Accepting:* a request is never overlooked when `select` blocks; an accepted
  connection becomes a client; no more clients than there is room for.
- *Client life:* a handle is closed exactly by the code that owns it at that
  time, and only then can its number come back; a notice and a packet find the
  client they are about; when the server comes to rest, `SocketRecvList`,
  `SocketSendList`, `ClientList`, the players and the open handles agree.
- *Numbering:* a client that numbers correctly is never cut off, and sees
  1, 2, 3, ... itself, WORD wrap included.
- *Sending:* never through a pointer that is NULL, never a NON_SELF message to
  its sender, a broadcast to every client.
- *Start and end:* all threads end wherever they slept; no thread uses a list
  before it exists or after it is gone; a failed start ends too.
- *Library:* a list's counters, its pointers and its nodes agree after any calls,
  and it behaves as a sequence with a stack of free nodes; no memory is handed
  out twice; a task runs when and as often as it was added for.
- *Streams:* packets come out whole and in order however the bytes were cut up.
- *Clients:* never silent for as long as the server waits; everything given back.
- *Tutorials:* what each program shows: which counters lose updates, which swaps
  can deadlock, that a turn is passed and no task lost, that an echo is in order.

## 2. The modules

| Module | Models | Lines of the code |
|---|---|---|
| `Winsock` | the sockets layer (external: backlog, handle table, `select`, `recv`, `closesocket`) and the clients on the wire | as `TCPServer.cpp` uses it; `MintClient/src/main.cpp` for numbering and leaving |
| `ServerState` | the variables of `TCPServer`, the node pools, the operations more than one thread uses | `TCPServer.h`, `Packet.h`, `LockList.hpp`, `TMPDoublyList.hpp` |
| `SelectThread` | the main thread and `Release` | `TCPServer.cpp` |
| `AcceptThread` | the accept thread | `TCPServer.cpp` |
| `GameplayThread` | the gameplay thread and `GameServer`'s handlers | `TCPServer.cpp`, `GameServer.cpp` |
| `SendThread` | the send thread | `TCPServer.cpp` |
| `TCPServer` | the four threads together: `Next`, fairness, every property | `TCPServer.cpp`, `Main.cpp` |
| `Mailbox` | abstract: what a locked list and a `WaitEvent` promise together | `WaitEvent.cpp`, `LockList.hpp` |
| `ListNodes`, `SinglyLists`, `DoublyLists` | the nodes of a list and the six list classes as operators on them, one operator per member function | `List/*.hpp` |
| `ListUse` | a list of any class with its users (get, link, insert, unlink a node somebody else may have unlinked, free, release) | `LockList.hpp` |
| `NodePool` | abstract: what every list promises | |
| `Lists` | `ListUse` instantiated for each class; the refinement to `NodePool` | |
| `MemoryPool` | lists that ask the unlocked memory pool | `MemoryPool.cpp` |
| `TaskManager` | tasks on a `TMPDoublyList`, the clock | `Task.cpp`, `Tool.cpp` |
| `ServerLife` | start and end of the server | `TCPServer.cpp`, `GameServer.cpp`, `Thread.cpp` |
| `PacketStream` | `SendEx` and the three receiving loops, byte by byte | `TCPServer.cpp`, `main.cpp`, `TCPClient.cs` |
| `MintClient` | the client program, on `TaskManager` | `MintClient/src/main.cpp` |
| `UnityClient` | the Unity client's threads | `TCPClient.cs` |
| `ComponentTree` | the component framework | `IComponent.cpp`, `EDComponentFramework.cpp` |
| `EchoPrograms` | tutorials 1 and 2 | `Example/Toturial-1`, `-2` |
| `ThreadCounter`, `ThreadLock`, `MultiLock`, `ProducerConsumer` | tutorial 3, a module for each program | `Example/Toturial-3` |
| `TCPServer_proofs`, `ServerLife_proofs` | theorems about the module each is named after | |
| `Handles_proofs`, `Order_proofs`, `Numbers_proofs`, `Settled_proofs` | theorems about `TCPServer`: handles that come back, the order of notices, order numbers, what is left of a client; each on top of the one before | |
| `Library_proofs` | theorems about `Mailbox`, `Lists`, `MemoryPool`, `ProducerConsumer`, `TaskManager` and `MintClient`, and the lemmas on sequences, the walk of `Chain` and the list operators | |
| `Programs_proofs` | theorems about `UnityClient`, `ThreadCounter`, `ThreadLock`, `PacketStream`, `EchoPrograms`, `MultiLock` and `ComponentTree` | |
| `MCTCPServer`, `MCParts` | instances for TLC | |

`PROJECT.json` gives the lines behind each definition. How the modules build on
each other: `TCPServer` composes the four threads over `ServerState` and
`Winsock` and is shown to implement two `Mailbox`es; `Lists` is six instances of
`ListUse` over the operators of `SinglyLists` and `DoublyLists`, each shown to
implement `NodePool`; `TaskManager` and `ProducerConsumer` keep their nodes on
the pointer-level lists, and `MintClient` is the program around `TaskManager`.

### State

A thread's program counter is `mpc`, `apc`, `gpc` or `spc`; its values name the
code that runs next. A connection (`Conn`) and a handle (`Sock`) are different
things: `owner` is the operating system's handle table, and a closed number can
come back for another connection, as it does on Windows. That is the source of
half of the hazards, so the model keeps the numbers apart from what they name.
`SocketSendList` and `ClientList` are sequences of *nodes*, whose contents are in
`sendNode` and `client`, because other threads keep pointers to them; the other
lists hold their data.

`select` is two steps, the call and the return. Between them `completed` latches
the first handles on which something happens: later arrivals do not enter the
set that select returns. A call with a closed handle in its set fails at once
and leaves the set as it was passed; closing a handle during a pending select
either reports that handle or fails, both of which Windows does.

The read set has two sizes. `FD_SET` is a macro: it compares with `FD_SETSIZE` as
`TCPServer.h:3` defines it (`ConnectionMax`, 1000). The array `fd_array` was
declared when `mtpch.h:6` included `WinSock2.h`, before that, with 64 places
(`FdArrayMax`). `Placed(n)` is what `FD_SET` puts in a set of `n` places, `FdSet`
is what it writes, and a handle written behind the array may be found there by
`select` or not (`ReadSet`).

A list is a record of the members of its class and of its nodes (`pNext`,
`pPrev`, `NodeNumber` as functions of the node), so that each member function is
an operator from list to list that follows the pointers the code follows:
`Linked` and `FreeOnes` are what a walk would find, and the properties compare
them with the counters the code tests instead. A program of the tutorials keeps
its instructions as values of a program counter (`lockStep`, `atStep`,
`workAt`), or, where a swap is made of many, as a sequence of instructions that
is executed one by one (`code` of `MultiLock`).

### What is one step

Everything another thread can come in between is a step of its own: the test of
`RunFlag`, `WaitForSingleObject`, `ResetEvent`, each locked operation on a list,
each `Awake`, each `closesocket` (one for each client that `CheckClientAlive`
closes), the two halves of the mode-flag check, each
entry the send thread sends to, each node the unlocked search passes. Work no
other thread can observe is merged with the next step that can be observed: the
read set is built in the step that calls `select`; the flag is raised in the step
in which `select` returns; a queue's head is unlinked by the last step of its
handling (only its consumer removes nodes, and a producer only appends).

### Abstractions

- In the server's modules a packet is its type, its order number and the client
  it came from, received whole or not at all, and sent whole or lost. Bytes are
  in `PacketStream`: `StreamSafe` there is what justifies whole packets here, and
  says when it does not hold, after a sender gave up inside one. A byte is its
  packet's number and its place, so a length read from the wrong place is any
  length a packet may have, too little for a packet, or more than the buffer
  holds, which nothing compares: `recv` then writes behind the buffer (`overrun`,
  after which nothing is known of the receiver), the Unity client's `Read` throws.
- Types are `ALIVE`, `MESSAGE` (to all), `MESSAGE_2` (to all but the sender) and
  `EXIT` (the text `server_exit`). A name packet only sets the player's name and
  behaves as `ALIVE`. The send types nothing uses are left out.
- Order numbers count modulo `WordSize`, 2 or 3 in place of 2^16, so that they wrap.
- Time is one action, `MinutePasses`: with the server idle, every timer that
  runs has run out. The server's own work is short beside 60 s.
- When a client leaves, its own counters are cleared: the process is gone.
- Handles that `FD_SET` writes behind `fd_array` destroy what is there on the main
  thread's stack. The model leaves open only whether `select` finds them.
- A freed node's `Socket` is 0 in the code and `INVALID_SOCKET` here: neither is
  a handle of a client. A node freed twice is in the free stack twice; in the
  code its `pNext` then makes the free list end or loop, and it also goes out twice.
- A NULL order-number pointer would end the process; `SendOne` has no step there,
  and `NoNullCounter` says the case does not come up.
- The server's modules start after a successful `Create`, with room for every
  node (`NodeMax`), so the memory pool is never asked for more. What comes before
  and after is in `ServerLife`, where a thread in the server's loops is "at work"
  and what may be in `PacketRecvList` is a set (`due`: notices and packets of
  clients, `server_exit`), and the memory pool under several lists is in `MemoryPool`.
- The clock of `TaskManager` counts modulo `ClockMax + 1` for the 2^32
  milliseconds of `timeGetTime`; a tick stands for 10 s in `MintClient`.
- `ComponentTree` writes a component's `ComponentList` as the sequence that
  `NodePool` says a list is.

## 3. Model checking

Every run below either passes or, for the second table, finds the violation it
is there for. Run one with `tlc -config MCTCPServer_churn.cfg MCTCPServer`.
`CHECK_DEADLOCK FALSE` is in every configuration of the server because it really
stops: an idle server whose clients have all done what they may, and a server
that has ended, have no next step. `Settled` and the liveness properties say
what a state at rest must look like.

### Runs that pass

| Run | Instance | Properties | Question |
|---|---|---|---|
| `churn` | 2 connections, 2 handles, 1 NON_SELF message from either; c1 leaves | `TypeOK`, `NoLostWakeup`, `RequestNoticed`, `NoNullCounter`, `SendNodesPointToClients`, `NoHandleLeak`, `NeverToSelf`, `ClientFound`, `PolledHandlesOpen`, `Settled` | do clients come and go on reused handles without anything lost, confused or left over |
| `chat` | 2 connections, 2 messages of both kinds | `Unbroken`, `NeverCutOff` | order numbers at both ends when they wrap, joins between broadcasts |
| `few` | 4 connections, a server of 3, of which all but one may fall silent, 2 heartbeats | `Settled` | refused, timed-out and late connections leave nothing behind, also when two time out together, or a newcomer gets the handle of a timed-out client before the main thread has dropped it |
| `served` | 2 connections, a packet or `server_exit` | `PacketsHandled`, `ShutdownTerminates` | what is sent is handled, and every thread ends |
| `queues` | 1 connection, 2 packets, messages or `server_exit` | `GameQueueSpec`, `SendQueueSpec` | both queues implement the fair `Mailbox` |
| `leave` | 2 connections; one sends 2 packets, may break the numbering and leave, either may fall silent | `LeaversReleased`, `ClosedHandleDropped` | a handle that the gameplay thread closed, for silence or a wrong number, is dropped by the main thread; a leaver's handle is closed; the client node of a closed or left connection is unlinked and freed |
| `parts` | one part in each behaviour, see below | 16 invariants, 5 action, refinement and liveness properties | does every other part keep its promise, and does it end |

The bounds are chosen so that the case in question happens: between them the runs
take every action. Two connections are enough for one client to interfere with
another (a reused number, a join between two broadcasts, a request during a
drop), and four for a server of three to be full while another request waits. One
or two packets suffice because each is handled to the end before the next is
taken; a second one is there to meet what the first left (a counter, a cache, a
timer). In `churn` one packet is enough for the numbering: the client that
inherits a handle sends its first packet, which must be compared with a counter
of its own. `WordSize` is 2 where clients send two packets
and 3 elsewhere, so that the second packet meets a counter that has wrapped, at the
receiving end in `leave`, `queues` and `few`, at both ends in `chat`. `few`
limits its behaviours (`FewStep`): three clients are connected together only if
the server was idle before the third came, and the fourth comes only when nobody
has sent or fallen silent. This keeps a full server that refuses the fourth, two
clients that time out together, a timeout among newcomers and a handle that is
used again in one instance of 718,868 states. `leave` too has a bound
(`LeaveStep`): a packet is sent to an idle server, and the second client comes
before the first packet, or when the gameplay thread has the wrong number in
hand, so that it can get the handle of the client that is cut off (181,122
states, with liveness checked on all of them). Clients leave at any moment.
`chat` and `served` have a bound of their own (`ArriveStep`): the second client
comes while the server is idle or while the first packet is under way; two that
come together are in `churn`, `few` and the runs of the second table. These bounds
are action constraints on what the clients do and on the minute without a packet
(`MinutePasses`), never on a step of the server.

In the passing runs `FdArrayMax` is `ConnectionMax`: the array has the places
that `TCPServer.h:3` asks for. `readset` has an array smaller than the set. The
safety theorems hold for either, since each handle behind the array may be found
or not.
Handles are interchangeable and the safety runs use that symmetry; liveness
runs use none.

`ClientFound` and `PolledHandlesOpen` are checked where every client numbers
correctly and none falls silent: a cut-off and a timeout close handles that are
still polled (see the next two sections); the proofs of both assume the same
(`ClientMay = {}`). `ClosedHandleDropped` is what replaces them for closed handles:
they do not stay, unless `accept()` gives the number to another connection before
the main thread's next `select`, which then finds an open handle. In
`LeaversReleased` one way out is excepted: a client that was cut off for a wrong
number has its handle closed, but its node, which forgets the handle, is never
freed (`notfreed` shows that). `NoHandleLeak` and `Settled` speak of a
server that has not been told to exit. What `SendNodesPointToClients` and
`Settled` say of `SocketSendList` they say while at most one connection has ended
(`OneEnded`, as in `churn`): a second leaver can make `FreeClientNode`'s walk end
early, and then the send node it looked for stays linked. `Settled` speaks of
`AcceptList` while no connection has ended, for the reason given with the failing
`accept()` below.

### The run `parts`

The library, the clients, the life of the server and the tutorials do not share
state with each other, so one module, `MCParts`, holds them side by side:
`part`, chosen in the initial state, says which of them a behaviour is about, and
the variables of the others stay as they are. The fairness is that of each
part's own specification, and the state graph is the sum, not the product, of
the parts (594,247 states).

| Part | States | Instance | Properties |
|---|---|---|---|
| lists | 9,249 | each of the six classes, 3 nodes, a block of 2, two numbers | `ListsSound`: counters, tail and `pPrev` say what the chain says, every node is in one place; `ListsImplementNodePool`: each call does what the abstract pool does |
| memory | 9,482 | 3 threads on 2 lists (two share one), 3 bytes, 3 requests | `PoolSound`: pieces do not overlap and nothing outlives the pool, unless two lists asked at once |
| tasks | 61,661 | 2 tasks, delays 0 and 3, run twice or for ever | `RunsCounted`, `NeverEarly`, also when the clock wraps and nodes serve again |
| client | 52,264 | heartbeat every 3 ticks, dropped after 5 | `ClientSound`: never silent that long in the chat; whatever call failed, everything is given back |
| tree | 45,023 | root and 3 components, two with one id, one of them overriding or none, one change | `TreeWalksExact`: how often a traversal calls each, which it finds; `ParentFirst` |
| mailbox | 758 | 3 producers, queue of 3 | `MailboxTypeOK`, `NothingLeftBehind`, `EverythingTaken` |
| life | 88,248 | the three threads; each call of `Create` may fail, those that make an event or a thread included | `ListsLiveLongEnough`: no thread outlives or precedes its lists |
| counter, lock | 2,303 and 667 | 3 and 4 threads | `CounterSafe`: what is lost without a lock and what is not; `LockSafe`: nothing with one, and the lock is deleted when nobody will ask for it |
| multilock | 67,537 | 3 threads, each of the five kinds of swap | `SwapsSafe`; `StuckOnlyInOppositeOrder`: a deadlock needs both of the deadlocking swaps, and exactly them |
| work | 136 | 3 tasks | `TurnsKept`: one turn is passed to and fro, every task is consumed once |
| stream | 31,645 | packets of 3 and 4 bytes, buffers of 4, 3 packets, 3 bytes on the wire, one retry, each receiver | `StreamSafe`: what is handed on was sent, and no buffer overrun, unless a sender gave up inside a packet; no node is lost |
| unity | 131,140 | two sending threads, one heartbeat, one round of test packets | `WholeAndNumbered`: each write is one whole packet, numbered as the server expects, unless the threads overlapped or the connection was not up |
| echo | 94,134 | each server, two clients of each kind, 2 bytes | `EchoSafe`: echoes in order, handles closed unless overwritten |

`EveryPartEnds` is about each of them: whatever happened, main threads get past
their waits, walks and shutdowns finish, a receiving call returns and no client of a
tutorial waits for ever, except where the part's own definition says why
(`ServerEnded`, `ReceiveEnded`, `NobodyStuck`, ...). The exceptions are what the
code does: a deadlock of opposite lock orders, undefined behaviour after a failed
start or behind a buffer, a Unity client that waits for the rest of a packet nobody
sends, a client whose handle the server overwrote.

The instances are as small as the case allows: three nodes have a middle one; two
lists and three threads have two threads behind one lock and one behind another;
a packet of 3 has one byte after its length and a wire of 3 cannot hold the
longer one; three threads make a deadlock of two with a third to run on.

### Runs that find a disagreement

Each checks one sentence of the source, and TLC shows a behaviour of the code
that breaks it.

| Run | Property | What happens |
|---|---|---|
| `timermode` | `TimerModeUntilCreated` | The accept thread finds `AcceptList` empty; the main thread sees a new request, raises the mode flag, and the accept thread clears the flag after that: a connection accepted next waits in `AcceptList` beside a blocking `select` until something else arrives. Comment at `TCPServer.cpp:183`. |
| `cache` | `CacheIsTheList` | One leaves, one joins, the length is unchanged: the cache is not renewed. The new client gets no broadcast ("Broadcast to all client", `GameServer.cpp:55`). |
| `notfreed` | `DisconnectFreesNode` | A wrong order number makes the client node forget its handle; the RELEASE notice finds no node; node and player stay for ever (`TCPServer.h:86`). |
| `freedtwice` | `FoundNodeStillLinked` | The unlocked search finds a send node the main thread then frees; it is freed again (`TMPDoublyList.hpp:188`). |
| `readset` | `ReadSetInArray` | `TCPServer.h:3` defines `FD_SETSIZE` as 1000 ("socket array max 1000"), but `mtpch.h:6` has included `WinSock2.h` by then, so `fd_array` has 64 places and `FD_SET` compares with 1000 (`TCPServer.cpp:168`, `:174`). With the listening socket and as many clients as there are places it writes past the array. The run has two places and two clients. |

### Behaviour that limits what the properties say

The models have these, and most are listed as hazards:

- After a failed `select` (a handle of the set was closed meanwhile) the set is as
  it was passed, and the main thread receives from clients that sent nothing; one
  of them can be dropped after 5000 retries (`TCPServer.cpp:188`).
- The count that refuses connections does not include those in `AcceptList`, so
  more clients than `CONNECTION_MAX` can get in (`TCPServer.cpp:251`); `few` has
  them and checks what they leave behind.
- With two leavers the walk of `FreeClientNode`, which takes no lock, can stand on
  a send node that the main thread frees for the other one: the walk ends there,
  and the send node it was looking for stays in `SocketSendList`, pointing into a
  freed client node (`TCPServer.cpp:346`). Hence `OneEnded`.
- `accept()` fails when a client in the backlog has taken its request back, and
  that ends the polling (`TCPServer.cpp:247`); when `select` is out of timed mode
  by then (the race `timermode` shows), a connection in `AcceptList` waits there
  until something else wakes the main thread. Hence the exception in `Settled`,
  which the proof attempt asked for: no run's instance reaches it.
- A client dropped before its CREATE notice was handled has no send node yet, the
  case `TCPServer.cpp:317` reports as an error; the send node is made later and
  `FreeClientNode` frees it, which `SendNodesPointToClients` and `Settled` include.
- `FD_SET` takes `CONNECTION_MAX` handles, of which the listening socket is one, so
  the last client of a full server would not be polled, were the array as large as
  that: if it alone timed out, `select` would not find its closed handle and it
  would stay. `few` has such a client, but when it times out another one does too,
  and dropping that one makes room in the set. In the real build the server has
  written past the array long before it is full (`readset`).
- A freed client node may be handed out while the cache still points to it: the
  order number then goes up in another client's node (`TCPServer.cpp:677`).
  `NoNullCounter` does not see that, and `Unbroken` is about clients of whom none
  leaves.
- The number of a timed-out handle can be accepted again before the main thread
  drops the old client, and is then polled twice (`TCPServer.cpp:613`); in `few`
  the server still settles.
- Two lists that run out of nodes together can be given the same piece of the
  block, or lose an extra buffer (`MemoryPool.cpp:125`): `PoolSound` excludes
  exactly that, by a ghost variable that records an overlap.
- The Unity client's two threads can mix their packets, and a number is used up
  when the connection is not up (`TCPClient.cs:130`, `:330`): `WholeAndNumbered`
  excludes exactly these two.
- MintClient's `strcpy_s` ends the program when a long text is entered
  (`main.cpp:236`), which is a step of the model; `Release` after a failed
  `WSAStartup` shuts down and closes handle 0, which `ClientSound` states.
- When `timeGetTime` wraps, a waiting task is put off, never run early.
- A failed `Create` of the server goes on with lists that were never created;
  the model marks that as undefined and says nothing of what follows
  (`TCPServer.cpp:12`). A `CreateEvent` or `_beginthreadex` that fails is not
  noticed: a thread without an event does not wait, and one that was not made is
  not waited for, which `ListsLiveLongEnough` and `EveryPartEnds` include. Without
  a gameplay thread nobody takes `server_exit`, and the server runs on.
- Once a sender has given up inside a packet, a receiver takes its next bytes for a
  length. What it hands on then is nobody's packet, and it may write behind its
  buffer: `StreamSafe` promises only that the server's `ReceiveEx` keeps no node.
- The `select` server of the tutorials overwrites the handle of its client when a
  second one comes, and a non-blocking `send` drops what it did not take: `EchoSafe`
  excepts these handles and clients.

### Fairness

`Fairness` is weak fairness of each of the four threads, and nothing else. It is
what Windows gives: a thread that is ready runs again and again. No client is
made to connect, send, close or fall silent, and no thread is promised a turn at
a particular moment, so `select`'s timeout and its completion are the main
thread's own steps. In `queues` the producer's fairness of `Mailbox` (an `Awake`
follows each link) and the consumer's follow from that of the threads. In `parts`
it is again each thread's own, and in `client` that the server, which has seen
the client's shutdown, closes its end; a component tree has only its own steps.

### Sensitivity

Each property of a passing run is tried against a version of the code's model with
one plausible mistake in it (a forgotten `Awake`, a reset on the wrong side of the
wait, a refused connection left open, a post-increment comparison, ...). The
mistaken operators stand beside the right ones, marked `Mutant of`, are used
by nothing, and are listed in `PROJECT.json`; under each of them TLC finds the
property violated.

## 4. Proofs

Checked by TLAPS (`tlapm` on each `_proofs` module). All hold for every value of the
constants that satisfies the named assumptions: `NoConn` is no connection, the
listening handle and `INVALID_SOCKET` are no client handles and differ, `WordSize >
1`, the array of the read set has no more places than `FD_SETSIZE`, packets fit a
receiver's buffer, bounds are naturals, there is a node for each connection, the
threads of tutorial 3-2 and 3-3 are finitely many, the numbers that nodes are given
are naturals, tutorial 3-5 has at most as many tasks as nodes, and for the task
manager and the client on it: delays are no longer than the clock can tell
(`ClockMax`), a run count is positive or `TASK_RUN_COUNT_UNLIMITED` (0 would be one
decrement away from the largest `UINT`), and the server puts up with more than one
heartbeat's silence (`DropDelay > AliveDelay + 1`: 60 s against 30 s, a tick being
10 s).

| Theorem | Establishes | Argument |
|---|---|---|
| `TypeCorrect` | `Spec => []TypeOK` | `TypeOK /\ InHand` is inductive. `TypeOK` alone is not: `Head(PacketRecvList)` has a type only if the queue is not empty while the gameplay thread handles its head, so `InHand` says what each thread holds at each point of its code. |
| `WakeupCorrect` | `Spec => []NoLostWakeup` | inductive on its own over the typed states: the only step that puts a consumer on its way to sleep has just found the queue empty, and a reset is always followed by a look at the queue. |
| `CounterCorrect` | `Spec /\ []FoundNodeStillLinked => []NoNullCounter` | the pool invariant: every send node is linked once or free once, and a linked one points to a client node. It needs the hypothesis: after a double free (`freedtwice` shows one) a node can be linked twice, and no such invariant survives. `NotFreedTwice` does without it. |
| `GameQueueRefines`, `SendQueueRefines` | both queues implement `Mailbox` (its safety part) | initial states map to initial states; each thread's step maps to a `Mailbox` step or a stutter, step by step. |
| `NeverReturned` | `Spec => []NeverToSelf` | `SenderOK`: the send thread compares handle numbers only, so a packet must not outlive the link between its sender and that number. A connection waits in the backlog at most once and has no handle then, afterwards at most one (`WorldOK`); as long as a packet is on its way, in either queue, its sender has no other handle than the one in the packet (`PacketsOK`). |
| `HandlesKept` | `Spec => []NoHandleLeak`, whatever clients do | `HandlesOK`. By counting alone: no more client nodes bear a number than the RELEASE notices still due and the main thread's places for it will free, the CREATE notices in between counted in their order (`Balanced`, `Tally`), whether or not the handle was closed early and used again; `InHands` says that an open handle is in one of these places, `StagesOK` what each thread has in hand, `ClientPoolOK` that no client node is both in use and free. `NoHandleLeak` alone is not inductive: it does not say that a notice finds its client node. |
| `ClientsFound`, `NobodyCutOff`, `PolledHandlesStayOpen` | `ClientMay = {} => (Spec => []ClientFound)`, and the same for `NeverCutOff` and `PolledHandlesOpen` | `OrderOK`: what the client nodes say of a handle now (`Known`), applied to the notices and packets still due one after the other (`Told`, a sequence of intermediate states), must give what the main thread and the connection's own packets continue from (`Ends`); each open handle is in exactly one place from `accept()` to `closesocket()` (`OnePlace`) and there once. The assumption is the one under which the runs check the three: every client numbers correctly and none is silent for a minute. Without it they are false. |
| `NumbersUnbroken` | `Spec => []Unbroken`, any `WordSize > 1`, no assumption on the clients | `StayOK`, on top of `SenderOK` and `HandlesOK`: while all connections stay, no handle is closed (`HeldOK`), no RELEASE notice is made (`NoticesOK`; `select` never fails, so nobody is received from who sent nothing), so no client node is freed; every pointer in `SocketSendList` and in its copy leads to the client node of the handle beside it (`SendersOK`), and the counter there is the number of packets its client has seen (`CountsOK`). |
| `SendNodesStayGood`, `NothingLeftOver` | `ClientMay = {} => (Spec => []SendNodesPointToClients)`, and the same for `Settled` | `SettledOK`, on top of `OrderOK` and `HandlesOK`, in three parts. `GoneOK`: `select` fails on no handle and what it reports is ready until it is received, so only clients that have gone are dropped. `ClientsOK`: players and client nodes agree but for the one that is being freed. `SendListOK`, while no second connection has ended: each send node points to the client with its handle and no two to one; each client has one, unless its node is about to be linked or the main thread has unlinked it; and the walk of `FreeClientNode` has passed over no node of its client, and stands on one that is still linked. When all threads sleep no notice is due, which leaves the equalities of `Settled`. |
| `NotFreedTwice` | `ClientMay = {} => (Spec => [](RunFlag /\ OneEnded => FoundNodeStillLinked /\ NoNullCounter))` | `SettledOK` again: the walk of `FreeClientNode` ends on a node that is still linked, so nothing is freed twice and the pool invariant of `CounterCorrect` holds without its hypothesis. `freedtwice` shows that a second ended connection is what it takes. |
| `MailboxNothingLeftBehind` | the same wake-up property of `Mailbox`, any number of producers | inductive with the type. |
| `ListsOutliveThreads` | `LifeSpec => []ListsLiveLongEnough` | `LifeInv`: besides the types, `SetUp` (what main has built at each of its calls), `Running` (a thread that has not closed its handle has lists, and main holds its handle or is about to store it), `Awaited` (main waits for the threads one after the other) and `PlayersFirst` (nothing is due to the gameplay thread before `PlayerInfoList` exists, although without an event it does not wait to be woken: only the main thread, in its select loop, links notices and packets). `ListsLiveLongEnough` alone is not inductive: it does not say that main passes `ReleaseWait` only when a thread is done. |
| `LockCorrect` | `LockSpec => []LockSafe`, any number of threads | `LockInv`: the owner is the thread inside the section (`OneInside`), each counter is the number of threads beyond it (`Counted`, by cardinalities: a thread's increment adds one element to the set of those beyond), and main goes on when all have counted. |
| `RequestsNoticed` | `Spec => []RequestNoticed` | `SelectOK`: a select without a timeout that nothing has completed polls the listening socket and finds no request in the backlog, and only timed mode goes through `AcceptList`. Nobody but a client adds to the backlog, and doing so completes the pending select; the lemmas `Undisturbed` say that no other thread touches it. |
| `MailboxTypeCorrect` | `MailboxSpec => []MailboxTypeOK` | inductive on its own. |
| `CountersSafe` | `CounterSpec => []CounterSafe`, any number of threads | `CounterInv`: a counter, and what a thread has loaded and will store, is at most the number of threads that have stored (`NoMoreThanStored`; a lost increment lowers the counter, never raises it), it is not 0 once one has stored, `EndCounter` is the number of ended threads, and main creates the threads in order. |
| `UnityPacketsWhole` | `UnitySpec => []WholeAndNumbered`, any number of rounds and heartbeats | `UnityInv`: as long as the threads have not overlapped and none made a packet before the connection was up, one thread makes a packet at a time, the buffer holds what it has made of it under the last number given out, and numbers and writes are one apart. |
| `ListsAreSound` | `ListsSpec => []ListsSound`, any number of nodes, any numbers, each of the six classes | `FitsNow`: the pointers thread two sequences of distinct nodes, the linked and the free (`Represents`), and every other node is held by a user, lost, or not yet taken from the block, with clear pointers (`Elsewhere`); a node freed or linked with a `pNext` left over would break both. What a class does for a user's call is shown to be one of eight steps on the two sequences (`UseStep`), once for each class, and what such a step leaves is shown once for all. `Linked` and `FreeOnes` are recursive functions along the pointers; that their walk is the sequence threaded (`ChainIs`) is an induction over its steps, made with a set of naturals in place of a predicate (`AllNaturals`). |
| `ListsAreNodePools` | `ListsSpec => ListsImplementNodePool` | the same eight steps, each an action of `NodePool` on `Linked` and `FreeOnes`. |
| `StreamKept` | `StreamSpec => []StreamSafe`, packets, buffers and retries of any size, each receiver (packets fit the buffers) | `StreamInv`. What `SendEx` has still to send is the rest of the last packet (`LastPacket`); no node is in hand between packets (`NoNodeKept`); and unless a sender gave up inside a packet, `HandedOn`: the bytes in the buffer and on the wire are, at known positions, the packets sent whole and not handed on, followed by the part sent of the last one (`OnTheWay`), and the receiver lacks just what the length or the packet at the front of the buffer lacks (`BufferOK`). That a buffer is not overrun follows: what is lacking fits behind what is there (`RoomEnough`). `StreamSafe` alone says nothing of the bytes under way. |
| `EchoesSafe` | `EchoSpec => []EchoSafe`, any number of connections, inputs of any length, each pair of kinds | `EchoInv`: a connection is in one place, from waiting in the queue to being released, and none comes back (`ConnPlaces`); `Client.Socket` is what the server's state says (`ClientSocketOK`); and what a client has had back, what is under way to it, what the server has buffered and what is under way to the server are together 1, 2, ... up to what the client wrote, as long as the server can still echo (`ConnWays`). `EchoInOrder` alone speaks only of the first of these. |
| `PoolKept` | `MemorySpec => []PoolSound`, a block of any size, any lists, threads and number of requests | `MemoryInv`: unless two lists have asked at once (each list has a lock of its own and the pool has none, so then nothing is promised), one thread is inside `sMemoryAllocate` (`OneAsks`); the pieces given out end where the rest of the block begins, or before, and what the asking thread has read of the position is still so (`BlockOK`); the extra buffers are those linked from the head, each pointing to the one before, but for the one about to be linked (`ExtrasOK`). `PoolSound` alone does not say that what a thread copied has stayed true until it stores it. |
| `SwapsKept` | `MultiSpec => []SwapsSafe`, any number of threads and rounds | `MultiInv`: a thread is idle or at one place of one of the three programs with what it has read (`ThreadOK`); in the nested programs it has exactly the locks that place says, and none of the others may touch those players; the fast swap has one lock at most; `swapEnd` is the number of finished threads, so main goes on when all have finished. `ValueOK` gives the two values from who is in the middle of a swap. |
| `StuckInOppositeOrder` | `MultiSpec => [](AllWait => OppositeOrder)`, any number of threads and rounds | `MultiInv` says where the locks come in each program (`LocksInOrder`). Where the lock for all comes first, its owner waits for a lock whose owner has the lock for all, which is itself; the fast swap waits with none; of two player locks, who has one and waits has the first of its program and waits for the second. |
| `ParentsFirst` | `TreeSpec => ParentFirst` | `TreeInv`: only the innermost frame can be one that has not called its component yet, whatever the callbacks link and unlink between the steps. |
| `WorkInTurns` | `WorkSpec => []TurnsKept`, any number of tasks | `WorkInv`: at most one thread has the turn and one has it until `WorkRunFlag` is down (`WorkControl`); the linked tasks carry the numbers that come next, after what was consumed and before what is in production (`TasksOK`); the block still has a node for each task to be made (`TaskNodes`); and what the consumer has seen of the list and the flag still holds when it acts on it (`ConsumerOK`), which is why it leaves nothing behind. |
| `RunsAreCounted`, `TasksNeverEarly` | `TaskSpec => []RunsCounted` and `TaskSpec => NeverEarly`, any number of tasks, delays, run counts and size of the clock | `TaskInv`, on the same thread of pointers as `FitsNow` (`TaskListFits`): a linked task's `RunCount` is what it was given less its runs (`TasksCounted`); it has waited at least as long as its timer shows, or longer than any delay when the clock has gone round (`TasksTimed`); and a node that is not linked carries nothing of its last task into the next (`RestUnlinked`). |
| `ClientsSound` | `ClientSpec => []ClientSound`, any heartbeat and any silence the server allows | `ClientInv`: `TaskInv`, what has been opened at each place of main (`Resources`), the heartbeat is the only task and stays linked (`OneHeartbeat`), and since the last packet there has passed at most one tick more than its timer shows, none while `vOnRunTask` runs (`Beating`). |

TLC checks `NoNullCounter` without that hypothesis in `churn`; there no node freed
twice gets as far as a second owner.

Every safety property of a passing run is a theorem but two. Only model-checked:

- everything temporal under fairness (`ShutdownTerminates`, `PacketsHandled`,
  `LeaversReleased`, `ClosedHandleDropped`, `EverythingTaken`, the fair part of the
  queue refinements, `EveryPartEnds`), because the prover does not reason about
  ENABLED;
- `StuckOnlyInOppositeOrder`, which speaks of ENABLED itself. `StuckInOppositeOrder`
  proves it of `AllWait`, the negated guards of all steps; that a state in which
  nothing is enabled is one of `AllWait` is what TLC checks beyond it;
- `TreeWalksExact`: it compares a walk with what recursive definitions over the tree
  give, and what such a definition computes for every tree is an induction over data.

## 5. Not modelled, and why

- *Copies:* `MintClient` and the tutorials each carry a copy of parts of
  `MTLibrary`. One copy of each file is mapped, that of the server (that of the
  client for the task manager, which the server does not use); the others differ
  from it in includes, names and log texts, and in a `LockUnlinkFreeNode` of
  tutorial 3-5's doubly linked lock list that nothing there instantiates. The
  program of tutorial 3-4 is byte for byte that of 3-3.
- *Time:* how long a retry, a timeout or a slow client takes. Retries are
  counted, timers expire or have not, a tick of `TaskManager` is a step.
- *Memory as bytes:* a list's nodes, a pool's pieces and a packet's bytes have an
  identity and a place; what an out-of-bounds index (`sendbuf` of tutorial 1-4) or
  an uninitialised list does beyond being one is left open.
- *Beyond the read set:* what the handles that `FD_SET` writes behind `fd_array`
  destroy on the main thread's stack (the model has only whether `select` finds
  them).
- *Winsock errors* other than a closed handle, a closed connection, "would block"
  and a failed call at the start.
- *Callbacks nobody raises:* mouse, keyboard and `SendMessage` of the component
  framework; the send types SELF and GROUP of the server.
- *Logger, memory counter, copy helpers, type definitions, build scripts:* no
  behaviour a property is about.
- *How the parts work together:* the server's modules use a list through what
  `NodePool` says, a packet through what `StreamSafe` says, a start through what
  `ServerLife` says. These links are argued, not composed in one model: the
  product of their states is out of reach.

## 6. Open work

1. **Proofs**: `TreeWalksExact`, with trees of a bounded depth written so that the
   walk is an induction over a set of naturals, as `ChainIs` does it for lists.
2. **Composition**: the memory pool below the six lists of a running server; the
   stream below one connection of it.
