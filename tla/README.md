# Verification of CPP_Server_Practice in TLA+

TLA+ models of the C++ game server in `src/`: a Windows IOCP networking library
(`src/ServerCore/`) and the two programs that use it (`src/GameServer/`,
`src/DummyClient/`). The modules are translated from the source line by line of
control; `PROJECT.json` maps every definition to the lines it models, lists the
runs, the mutants that show each property can fail, the hazards that the
properties are for, the findings and the theorems.

To check a run: `tlc -config <cfg> <module>`; to check the proofs: `tlapm M.tla` for
`SessionSendProofs`, `RecvStreamProofs`, `RWSpinLockProofs`,
`SessionLifecycleProofs`, `DeadLockProfilerProofs`, `PacketCodecProofs`,
`StartupProofs` and `MemoryProofs`.

## 1. The system

Worker threads started by `ThreadManager` sit in `IocpCore::Dispatch`. A
`Listener` keeps `_maxSessionCount` accepts outstanding; each accepted socket
becomes a `Session`, registered in its `Service` and, by `GameSession`, in the
`GameSessionManager`. Every session has four `IocpEvent`s, each the `OVERLAPPED`
of one kind of request, whose `owner` field is the `shared_ptr` that keeps the
session alive while the kernel has the request. The main thread of the server
broadcasts a packet to all sessions every 250 ms; the client only receives.

### Components, their state and operations

| component | state | operations | what is hard | what makes it correct |
|---|---|---|---|---|
| `Session`, sending (`Session.cpp`) | `_sendQueue`, `_sendRegistered`, `_sendEvent` (owner, sendBuffers), `_connected`, one lock | `Send`, `RegisterSend`, `ProcessSend`, `HandleError` | many callers and a completion race for one event; the lock is held in one call path of `RegisterSend` and not in the other; `WSASend` can fail at once | one `WSASend` at a time, event untouched meanwhile, FIFO, nothing stranded |
| `Session`, receiving, and `PacketSession` | `_recvBuffer`, `_recvEvent`, `_connected` | `RegisterRecv`, `ProcessRecv`, `OnRecv` | TCP segmentation, partial headers, a disconnect at any moment | packets whole, once, in order; never a receive without room |
| `RecvBuffer` | `_buffer`, `_readPos`, `_writePos` | `Clean`, `OnRead`, `OnWrite` | off-by-ones, `memcpy` within one buffer | cursors in bounds, contents kept, regions disjoint |
| `Session`, connection | `_connected`, owners of the four events | `ProcessConnect`, `Disconnect`, `RegisterDisconnect`, `ProcessDisconnect`, `Dispatch` | `ProcessConnect` still runs while others disconnect; sessions own the events that own them | callbacks once and in order; freed in the end |
| `Lock` | `_lockFlag` (writer id in 16 bits, readers in 16 bits), `_writeCount` | `WriteLock`, `WriteUnlock`, `ReadLock`, `ReadUnlock` | lock-free exchanges, recursion, a plain counter beside an atomic | exclusion, exact counts, no lost release |
| `Listener` | accept events and the session of each | `StartAccept`, `ProcessAccept`, `RegisterAccept` | six calls of `StartAccept` may fail; retry by recursion, a session created for every accept | an accept outstanding for every event, no session lost on the way |
| `Service` | `_sessions`, `_sessionCount` under a lock | `Start`, `AddSession`, `ReleaseSession`, `CreateSession` | assertion in `ReleaseSession`; a null session is followed | a session is released once, after it was added; no worker beside a half-started service |
| `IocpCore`, `IocpEvent` | the port; `owner` | `Register`, `Dispatch` | a failed operation takes the path of a completed one | every completion is handed to the owner |
| `GameSessionManager` | `_sessions` under a lock | `Add`, `Remove`, `Broadcast` | the lock is held over every `Send` | no cycle of locks; only sessions of the service |
| `DeadLockProfiler` (debug builds) | ids, lock stack, history graph | `PushLock`, `PopLock`, `CheckCycle` | depth-first search over recorded orders | reports a cycle iff the orders have one |
| `BufferReader`/`BufferWriter`, packet handlers, `SendBuffer` | a cursor over a byte array | `Read`, `Write`, `Reserve`, `operator<<`, `operator>>` | bounds, layout shared by the two sides | what is written is what is read |
| `StompAllocator`, `BaseAllocator`, `Memory` | the pages reserved | `Alloc`, `Release` | page arithmetic; `Release` finds the region from an address inside it | a region for each block, nothing mapped behind it |
| `ThreadManager`, thread-local state | `_threads`, next thread id | `Launch`, `Join`, `InitTLS` | ids of 32 bits that `Lock` keeps in 16 | ids are distinct, fit and are not 0 |
| `RefCountable`, `TSharedPtr` | a count; a pointer | `AddRef`, `ReleaseRef`; construction, assignment, destruction | a pointer is stored before it is counted; a destructor releases the next object; no program here uses them | an object lives exactly while it is referred to |
| `SocketUtils`, `NetAddress` | function pointers | wrappers of Winsock calls | most may fail, some failures go unnoticed | what must have succeeded has |

Calls go from a worker through `IocpCore::Dispatch` into `Listener::Dispatch` or
`Session::Dispatch`, from there into the virtual callbacks of the contents
(`OnConnected`, `OnRecvPacket`, `OnSend`, `OnDisconnected`) and into `Service`
and `GameSessionManager`; `Broadcast` calls `Session::Send` from the main
thread. The shared state is `_connected` and `_sendRegistered` (atomics), the
send queue (lock of the session), the two registries (locks of their own), and
the events, which are handed over between threads through the kernel.

## 2. Modules

| module | models | abstract specification it implements |
|---|---|---|
| `SessionSend` | the sending half of one session, one action per access to shared state | `Outbox`: a FIFO drained in batches |
| `RecvStream` | the receiving half: `RegisterRecv`, `ProcessRecv`, `PacketSession::OnRecv`, `RecvBuffer` | `PacketChannel`: packets delivered one by one |
| `RWSpinLock` | `Lock`, one action per access to `_lockFlag` | `RWLock`: the policy in the comment of `Lock.h` |
| `SessionLifecycle` | `Listener`, `Service`, `IocpCore::Dispatch`, connection side of `Session`, `GameSessionManager` and `Broadcast`, composed for several sessions | `SessionLife`: the callbacks of each session |
| `DeadLockProfiler` | the profiler of debug builds with the threads and locks it watches | a graph has a cycle (`HasCycle`) |
| `PacketCodec` | `Make_S_TEST`, `Handle_S_TEST`, `BufferWriter`, `BufferReader` | the identity on packets (`RoundTrip`) |
| `Startup` | the way from the globals to the running workers: `SocketUtils::Init`, `IocpCore`, `Service::Start`, `StartAccept`, `RegisterAccept`, `RegisterConnect`, `Launch`, `InitTLS` | |
| `SharedPtr` | `RefCountable` and `TSharedPtr`, one action per access to a count | |
| `StompAllocator` | `Alloc` and `Release` over an address space of pages | |
| `SessionSendProofs`, `RecvStreamProofs`, `RWSpinLockProofs`, `SessionLifecycleProofs`, `DeadLockProfilerProofs`, `PacketCodecProofs`, `StartupProofs` | theorems about the module each is named after | |
| `MemoryProofs` | theorems about `SharedPtr` and `StompAllocator` | |
| `MCSessionSend`, `MCRWSpinLock`, `MCSessionLifecycle`, `MCDeadLockProfiler` | model values and symmetry for TLC | |
| `MCRuntime` | `Startup`, `PacketCodec`, `SharedPtr` and `StompAllocator` side by side in one run | |

How they fit together. `SessionSend` uses `Lock` only as a recursive write lock,
so it keeps its owner; that `Lock` behaves so is what `RWSpinLock` shows.
`SessionLifecycle` says of the data only whether a send was registered and
whether the queue was empty; what a send does with the data is `SessionSend`,
what a receive does with it is `RecvStream`. In return those two take a
`Disconnect` at any moment, which is what `SessionLifecycle` explains.
`DeadLockProfiler` takes each lock to be exclusive and recursive, again what
`RWSpinLock` shows; `PacketCodec` makes and takes apart the packets that
`RecvStream` carries as sizes. `Startup` ends where `SessionLifecycle` begins:
with the accepts or connects posted, each session held by its event, and the
workers in their loops; its `LockIdsFit` is what `RWSpinLock` assumes of the ids of
threads. `SharedPtr` and `StompAllocator` share no state with the rest.

### SessionSend

A thread's `pc` is where it stands in `Send`, `RegisterSend` or `ProcessSend`:
before the lock, before the exchange on `_sendRegistered`, before the
`IsConnected` check, before the drain loop, before `WSASend`, and so on. `Push`
and `Exchange` are one critical section, split at the exchange; the thread that
finds `false` leaves the critical section before it calls `RegisterSend`, as
`Session.cpp:27-36` does. `Recheck` takes the lock of `ProcessSend`, which is held
until `RegisterSend` returns: `Return` gives it back only if the thread has it.
`inFlight` is what the kernel has; `Complete` hands it to an idle thread.
`WSASend` may fail at once with a reset (which disconnects) or another error
(which is only logged). History variables: `submitted`, `unsent`.

### RecvStream

`RegisterRecv` gives the kernel the window `[WritePos, FreeSize]`, `Receive(n)`
fills it with any `n` bytes that are under way and runs `ProcessRecv` to
`OnRecv`; `ParsePacket` is one turn of the loop, `EndOfParse` its end with
`OnRead`, `Clean` the compaction, where an overlapping `memcpy` would leave `Stale`
cells. A byte is the pair (packet, offset), so that loss, repetition and
reordering all show; the size field is read from the cells of the buffer.

### RWSpinLock

`_lockFlag` is a record of its two halves. `WriteCas`, `ReadLoad`, `ReadCas`, the
unlocks and the store of `EMPTY_FLAG` are separate steps, and so is the plain
`_writeCount++` after the exchange. Users hold the lock through the two guard
classes, so holds nest; `held` is the history of them. `CRASH` ends the process:
a time-out may come after any failed exchange, the two other causes come from
the unlock functions. `misused` records that some thread has asked for the lock
for writing inside a read hold, which `Lock.h:16` forbids and the code does not
prevent.

### SessionLifecycle

Workers take accept completions (`ProcessAccept`) and completions on sessions
(`Dispatch`); the rest of each handler is one action per access to shared state.
`owner` is the set of events whose `owner` is set, `pending` what the kernel has,
`up` the sockets that really were connected. `role` distinguishes the two
programs: a server has accepts posted, a client has connects posted. `todo` is
what the loop of `Broadcast` has left; it may go through the set in any order.

### DeadLockProfiler

`PushLock` and `PopLock` hold the profiler's own mutex from start to end and are
one action each; taking and giving back the lock itself follow as steps of
their own (`Acquire`, `Release`), because a thread that has passed the profiler
may still wait, and `Timeout` ends the process if it waits for too long. `CheckCycle` is an operator over the edges. The arrays of the
search are the fields of a record, the nested calls of `Dfs` its `path`, and each
turn of a loop (`NextRoot`, `NextEdge`) or end of a call (`Return`) maps the record to the
next one, until the search is over; successors are visited in the order of their
ids, as `set<int32>` gives them. The result is the cycle that is printed before
`CRASH`, if there is one.
`Class` names each lock as `typeid(this).name()` does, so that the locks of all
sessions have one name. The profiler cannot tell them apart: taken inside each
other they are passed over as a recursion, and `NoCircularWait` says that a circle
of waiting threads within one class is the only one that it lets come about.

### PacketCodec

One action per group of `<<` or `>>` in `Make_S_TEST` and `Handle_S_TEST`. A cell
of the buffer records of which field, of which width, it is which byte, so a
read at the wrong place or of the wrong width gives `Garbage`. The server's and
the client's declarations of `BuffData` have a size each (`FloatOut`, `FloatIn`).

### Startup

`Script` is the sequence of system calls made before any session exists; each
may fail. A failure of one in `Asserted` ends the process, of one in `Checked`
makes `Start` return false, and the two others go unnoticed: the dummy socket is
not looked at, and `IocpCore` compares with `INVALID_HANDLE_VALUE` where
`CreateIoCompletionPort` returns `NULL` (`IocpCore.cpp:12`). Then the loop of `Start`
makes sessions and posts a request for each; `RegisterAccept` calls itself when
`AcceptEx` fails, so `frames` is the set of the sessions in the locals of the
nested calls, and `refs` is the `use_count` that the locals and the events add up
to. `StartReturns` ends in `ASSERT_CRASH` or in the launch of the workers, whose
`InitTLS` runs in any order.

### SharedPtr

A `TSharedPtr` is a variable or the member of a counted object. `Begin` enters the
`Release` that an assignment or destructor starts with, `ReleaseRef` is the
decrement with the destructor it may run, whose `Release` of the member is the
thread's next `ReleaseRef`, and `SetNull` is the `_ptr = nullptr` at the end of each `Release`.
`open` is the nest of the `Release`s a thread is in: a chain of objects unwinds one
by one and is nulled from the inside out. `SetCopy` stores the pointer and `AddRef` counts it
afterwards. `Uses` is what C++ asks of any program, no data race (`_ptr` is not atomic),
and says how a member is reached, through a variable that points to its object.
That variable may be the one assigned to, as in `head = head->next`, where `Release` deletes the
object that holds the source. The model follows it up to the use of the deleted
object (`Strays`), which is undefined and the last step it takes in that thread
(`UseOfDeleted`); `HeldIsAlive` sets these assignments aside and says that all
others are safe beside them.

### StompAllocator

Addresses are numbers, a region is what one `VirtualAlloc` reserved, at any free
multiple of the allocation granularity. `Release` rounds the address down and
frees the region that begins there, if one does, as `VirtualFree` would.

## 3. Runs

| run | instance | what it shows |
|---|---|---|
| `session_send` | 3 threads, 4 calls of `Send`, both errors, symmetry | `OneSendInFlight`, `SendEventHeld`, `NeverEmptyGather`, refinement of `Outbox` |
| `session_send_live` | 3 threads, 3 calls, resets only, fairness | `QueueServed`; `QueuedSettles`: if sends complete, a queued buffer is sent or the session disconnected |
| `session_send_stranded` | 2 threads, 2 calls, both errors | finding: `QueueServed` is violated |
| `recv_stream` | buffer of 12 cells, packets of 2, 3 and 4 bytes, 4 packets, every segmentation, fairness | contents, windows, `memcpy`, refinement of `PacketChannel`, delivery |
| `lock` | 3 threads, 3 holds each, fairness | exclusion, counts, policy, refinement of `RWLock`, waiters served |
| `lock_order` | 3 threads, 4 locks, two of them of one class, 3 holds, symmetry | search against `HasCycle`, printed cycle, no circular wait but within a class, lock stack |
| `lock_order_recursion` | 2 threads, 2 locks | finding: A, B, A of one thread is a "dead lock" |
| `runtime` | the four small parts one at a time (`MCRuntime`) | start: `LockIdsFit`, `WorkersFindService`, `SessionsAccounted`; packet: layouts agree, accesses stay within; counted pointers: `HeldIsAlive`, `CountsReferences`; pages: `OneRegionEach`, `OverrunFaults` |
| `lifecycle` | server or client, 3 workers and main, 2 sessions, 1 accept event, all errors, symmetry | owners, assertion of `ReleaseSession`, registries, refinement of `SessionLife` |
| `lifecycle_live` | server, 3 workers and main, 1 session, resets only, fairness | `ConnectedListens`, broadcasts end, disconnected sessions are freed |
| `lifecycle_client` | client, 2 workers, 2 sessions | finding: `OnConnected` after a failed `ConnectEx` |
| `lifecycle_bounded` | server, 2 workers, 2 sessions, 1 accept event | finding: `_maxSessionCount` does not bound the sessions |

### Bounds

- `SessionSend`: with three threads one can be in `Send`, one in `RegisterSend`
  and one in `ProcessSend` at once; four buffers make a batch in flight, a batch
  of two behind it and a push that races the re-registration.
- `RecvStream`: the real ratio `BUFFER_COUNT` is 10; 3 is the smallest the
  argument needs (`BufferCountAssumption`) and the tightest case: the stream
  passes the end of the buffer within three packets. Packet sizes are header
  only, header and one byte, and a whole `BUFFER_SIZE`.
- `RWSpinLock`: three threads allow two readers and a writer; three holds allow
  W -> W -> R, W -> R -> W and R -> W -> W.
- `DeadLockProfiler`: three names give every graph of orders with cycles of two
  and three; a fourth lock shares the name of another, so that two threads can
  wait for each other within a class; three threads can wait for each other in a circle of three; three
  holds allow A -> B -> C, A -> A -> B and A -> B -> A.
- `PacketCodec`: a run is one packet, so the bound is on its buffs; the sizes of
  the fields are the real ones. 4096 bytes have room for 339 buffs, 56 for three.
- `Startup`: two requests to post, so that one is pending when the next is
  refused; nesting two deep and four sessions, so that two locals and two events
  hold four; two workers and main need the three ids that a half of `_lockFlag`
  with four values has.
- `SharedPtr`: two threads, three variables and two objects: a copy, a move and a
  destructor of one thread beside those of another, with an object that is a
  member of another or, moved into itself, a cycle; `head = head->next` with the
  next object deleted too or still held.
- `StompAllocator`: nine pages of four bytes in granules of two pages; sizes below,
  at and above a page, at and above a granule.
- `SessionLifecycle`: of one session at most four handlers run at once (connect,
  receive, send, disconnect); three workers and main reach every pair of them.
  Two sessions let one be freed while the other is broadcast to. In the liveness
  run one session is enough: the sessions meet only in the broadcast.

### Fairness

Weak fairness of the steps of a call: Windows schedules every thread. Strong
fairness of the steps that take a lock: a thread that has not got a lock in ten
seconds ends the process (`Lock.cpp:30`), so in a process that goes on every
waiter gets it; `WaitersServed` shows that the lock itself needs only weak
fairness once the calls stop. Completions: the kernel completes every request of
a closed or disconnected socket, and hands completions out in order, hence
strong fairness of `Complete` for a session that is not connected any more; in
`RecvStream` bytes that were sent arrive while the session lives. Nothing is
assumed of users, peers, time-outs or errors: a peer that stops reading keeps a
`WSASend` outstanding for ever, and the code has no time-out for it. So `QueuedSettles`
does not rest on fairness of completions but has `SendsComplete` as its premise (a
send does not stay outstanding for ever), and says that a queued buffer waits for nothing else.

## 4. Findings

1. `session_send_stranded`: after a failed `WSASend` that is not a reset
   (`Session.cpp:199-205`) `_sendRegistered` is cleared without a look at the
   queue: a buffer pushed meanwhile waits until somebody calls `Send` again.
2. `lock_order_recursion`: the comment at `DeadLockProfiler.cpp:30-31` says that the
   lock allows recursion and that a recursive acquisition means nothing and is
   passed over; only one of the innermost lock is (`:40`), so a thread that takes
   A, B and A again dies with `DEADLOCK_DETECTED`. Line 32 of the comment speaks of the edge
   A -> A, "one that returns to its own node": in this narrower sense it holds,
   which theorem `InnermostRecursion` proves.
3. `lifecycle_client`: the outcome of `ConnectEx` is not looked at.
4. `lifecycle_bounded`: `_maxSessionCount` bounds accepts, not sessions, against
   the comment at `Service.h:21`.

Not a finding of its own: the comment at `Session.cpp:192-194` says the lock is
taken around `RegisterSend` in `Send`; the guard ends before the call. That two
threads never meet in `WSASend` rests on `_sendRegistered` alone, which theorem
`OneSend` proves to be enough.

## 5. Proofs

`SessionSendProofs` proves, for any number of threads and calls of `Send`:

| theorem | property |
|---|---|
| `Typing` | `TypeOK` |
| `OneSend` | `OneSendInFlight` |
| `EventHeld` | `SendEventHeld` |
| `GatherNonempty` | `NeverEmptyGather` |
| `Served` | `QueueServed`, when `"other" \notin Errors` |
| `Implements` | `ImplementsOutbox` |

Assumptions: the named assumptions on the constants in `SessionSend`, which TLC
evaluates in every run. The properties are not inductive. `OneSendInFlight` needs
to know that `_sendRegistered` stands for exactly one agent, a thread with the
token or the kernel with the event (`TokenInv`); for that, that a thread that
clears it holds either the token or the lock (`LockInv`); and for the event and
the gather list, what `_sendEvent` and `_sendQueue` hold at each point of the
protocol (`EventInv`): a thread registers only after it pushed or saw a non-empty
queue, under the lock. `IInv == TypeOK /\ LockInv /\ TokenInv /\ EventInv` is
inductive (lemma `Inductive`). `Served` needs `AgentInv` on top: while the session is
connected `_sendRegistered` never outlives its agent, which is true only if a
refused `WSASend` disconnects. TLC finds `QueueServed` violated otherwise (finding 1). `Implements` maps
each step by itself (lemma `OutboxStep`); that the batch in `_sendEvent` belongs to one
thread, and is not empty, is again `TokenInv` and `EventInv`.

`RecvStreamProofs` proves, for any buffer, header and packet sizes:

| theorem | property |
|---|---|
| `Typing` | `TypeOK` |
| `WindowIsFree` | `WindowFits` |
| `CopyIsDefined` | `CopyDisjoint` |
| `OverflowFree` | `NoOverflow` |
| `StreamIsWhole` | `BufferHoldsStream` |
| `Implements` | `ImplementsPacketChannel` |

Assumptions: `BufferCountAssumption` (`BUFFER_COUNT` is at least 3) and
`SizesAssumption` (a packet has at least a header and at most `BUFFER_SIZE` bytes);
`Implements` also rests on `StaleAssumption` (a cell never written holds no packet's byte). The argument: when
`OnRecv` returns, fewer than `BUFFER_SIZE` bytes are unread, because a whole packet at the front
would have been taken (`ParseInv`); so after `Clean` either the cursors are 0 or at least
`BUFFER_SIZE` cells are free behind `_writePos`, so the window is never empty
(`WindowInv`), and the bytes that `Clean` moves lie beyond the cells it moves them to
(`DataInv`). For the refinement, `StreamInv` says that what `OnRecv` has still to parse,
the unread bytes of the buffer and then those under way, can be cut into the
packets not delivered yet. The cut is a function, not a concatenation, so that no
induction over the stream is needed: `PeerSend` adds a place to it, `ParsePacket`
drops the first and shifts the others, and every other step leaves the bytes it is
about where they were in the stream (lemma `StreamKept`). The first header in the stream is then that of the
next packet, and what is sliced out is that packet (lemma `NextPacket`).
`StreamIsWhole` says the same with `FlattenSeq` instead of a cut; that the two agree
for any number of packets is lemma `CutFlattened`, an induction in the form the
provers can do: the least number for which it fails, which exists as `<` on the
naturals is well founded (lemma `LeastNatural`), cannot be.

`RWSpinLockProofs` proves, for any set of threads and any depth of nesting:

| theorem | property |
|---|---|
| `Typing` | `TypeOK` |
| `WriterIsAlone` | `Exclusion` |
| `CountsAreRight` | `FlagCountsHolds` |
| `ReadersStayReaders` | `NoUpgrade` |
| `GuardsUnlockInOrder` | `OnlyTimeoutsCrash` |
| `Implements` | `ImplementsRWLock` |

Assumptions: the threads are finitely many and 0 is not the id of one. The exchanges
compare the whole of `_lockFlag`, and this says "nobody holds the lock" or "nobody
writes" only while the flag counts the holds; so `FlagCountsHolds` is part of the
inductive invariant, with the places where `_writeCount` is one behind the holds
(`PlaceInv`). `OnlyTimeoutsCrash` needs in addition that, while nobody has broken
the rule, the read holds of a thread are inside its write holds (`RuleInv`). The
lemmas of each action also say how it changes the holds (`MayTake`), from which the
refinement of `RWLock` follows.

`StartupProofs` proves, for any number of workers and sessions, any
`_maxSessionCount` and any depth of `RegisterAccept`:

| theorem | property |
|---|---|
| `Typing` | `StartTypeOK` |
| `IdsFit` | `LockIdsFit` |
| `ServiceStarted` | `WorkersFindService` |
| `NoSessionLeaks` | `SessionsAccounted` |

Assumptions: the named ones of `Startup`; `IdsAssumption` says that the threads are
fewer than the owners that fit their half of `_lockFlag`, which is what `IdsFit`
rests on. `OrderInv` says that a call that was made and is looked at has
succeeded, unless the program has given up, and that workers exist only after
`Start`; `IdInv` that the ids given out are 1 to `nextId - 1`, one each; `RefInv`
that a session is referred to by at most one event and one local, which `refs`
counts, and where each is at each point of a registration.

`SessionLifecycleProofs` proves, for any number of workers, sessions and accept
events:

| theorem | property |
|---|---|
| `OwnersAreHeld` | `OwnersHeld` (with `TypeOK`) |
| `NoCrash` | `NeverCrashes` |
| `GameSessionsKnown` | `GameWithinService` |
| `Implements` | `ImplementsSessionLife` |
| `ServerListens` | `ConnectedListens`, when `Roles \subseteq {"server"}` and `"other" \notin Errors` |
| `NoOwnerForgotten` | `OwnersOwed`, a state part of `DisconnectedIsFreed` |
| `ServerConnectsUp` | `OnConnectedWhenUp`, when `Roles \subseteq {"server"}` |

Assumptions: `RolesAssumption`, `ErrorsAssumption`, `NamesAssumption`. None of the
properties is inductive, and all rest on one account of who may still act on a
session. `StartInv`: a session that has not been told anything belongs to one
accept, one connect or one thread in `ProcessConnect`. `LifeInv`: the callbacks
told so far say in which registries the session is and which handlers can be
running. `EndInv`: after `_connected` was exchanged to false there is one agent of
the disconnection, the thread that saw `true` or the pending `DisconnectEx`, and it
is spent before `OnDisconnected`; so `ReleaseSession` is called once, after
`AddSession`, and its assertion holds. `RecvInv` and `SendInv`: an event is not
given to the kernel twice, so a completion takes back only the owner that its
request was given. `Implements` maps each step by itself: most are calm, that is,
they start no session and tell the contents nothing (`Calm`). The two
about servers need more: `PeerInv`, that a session of a server is started only on an accepted
socket, which is false of a client (finding 3); and that no step turns from a
connected session before it has posted the receive (`Attends`), which is false if
a refused request is only logged. `NoOwnerForgotten` is the other half of
`OwnersHeld`: an owner that is set belongs to a request or to a thread that will
clear it (`Settles`), so no error path leaves a session that owns itself.

`DeadLockProfilerProofs` proves, for any number of threads, locks and names and
any depth of nesting:

| theorem | property |
|---|---|
| `CyclesAreFound` | `FindsCycles` |
| `ReportsAreCycles` | `ReportIsCycle` |
| `StacksNameHolds` | `StackNamesHolds` (with `TypeOK`) |
| `NoCircle` | `NoCircularWait` |
| `InnermostRecursion` | `InnermostPassedOver`: the part of finding 2's comment that holds |

Assumptions: `ClassAssumption` (locks are finitely many and have a name each),
`NoneAssumption`, `DepthAssumption`. The heart is the correctness of the
depth-first search, lemma `CheckCycleFinds`: for any graph without self-loops
`CheckCycle` returns a cycle of it, or nothing, and then it has none. The
invariant of a turn says that the vertices on the path are joined by edges and
were discovered in order (`PathInv`), that what is discovered is on the path or
finished (`OrderInv`), that an edge that was looked at leads to a finished vertex or
lies on the path, and all of a finished vertex were looked at (`EdgeInv`), and that
the vertices finished so far are acyclic (`OpenInv`). From an edge back to a vertex on the path, the walk up `_parent` is that
end of the path and meets its end (lemmas `WayIsPath`, `BackEdge`), so the printing
loop never reads `_parent` of a root. Each turn leaves less to do (lemma `EffortLess`),
which bounds the turns; the induction over them is again by the least
counterexample. For the profiler itself: the recorded orders are acyclic until it
crashes, as the search runs whenever an edge is new (`CrashInv`, and with it
`CyclesAreFound` in both directions); the lock stack names the holds (`StackInv`),
and neighbours on it are recorded orders (`HistoryInv`). `NoCircle` follows, for any `Class`: in a
circle of waiting threads the lock that each waits for lies, in its holder's
stack, below the one which that holder waits for (lemma `TopOfWaiter`). Where their
names differ somewhere above it, the recorded orders lead on (lemma `OrderAbove`), so
if they did for every lock of the circle the orders would have a cycle; hence one
of them has nothing but its own name above it, its holder waits for a lock of that
name, and so on round the circle, which no part of closes by itself (`Circle`). What is left is
the circle that the property leaves: all of it in one class.

`PacketCodecProofs` proves, for any values and any number of buffs that fit:

| theorem | property |
|---|---|
| `NothingBeyond` | `StaysWithin` |
| `LayoutsAgree` | `RoundTrip` |

Assumptions: `SizeAssumption` (the packet fits the buffer, which is what the 339 buffs
of section 3 are about) and `GarbageAssumption` (what a misread gives is no value).
`WriteInv` says which cells hold which bytes of which field at each point of
`Make_S_TEST`, `ReadInv` what `Handle_S_TEST` has decoded at each point and that its cursor
is where the writer's was (lemmas `PutHolds`, `PutKeeps`, `GetHeld`).

`MemoryProofs` proves of `SharedPtr`, for any number of threads, pointers and objects:

| theorem | property |
|---|---|
| `Typing` | `SharedTypeOK` |
| `NothingDangles` | `HeldIsAlive` |
| `CountsAreExact` | `CountsReferences` |

Assumptions: `PointersAssumption` (finitely many threads and pointers; `Null` is
none). Neither property is inductive: between the store of a pointer in `Set` and
its `AddRef` the object lives on the reference of somebody else, and between the
`ReleaseRef` of `Release` and its `_ptr = nullptr` a pointer is set that counts no more. So
the invariant speaks of what a pointer `holds`: nothing, once `Release` is
inside it. `CountInv` counts the pointers that have been told to the object
(`CountedPtrs`); `PhaseInv` says which other reference keeps the object in the
meantime (the source of the copy, or the creator's); `RaceInv` that no other thread
writes what an operation uses, and `HeldInv` that the object of a member stays
held, so that nobody can take that reference away; `OpenInv` that `Release` is under way only in
the target of an assignment and in members of deleted objects. `CountsAreExact` then
maps each pending `AddRef` to the pointer it is about, one to one (lemma `PointersTo`).
Nothing is asked of callers but that they have no data race; an assignment from
the object that its target points to (`FromOwnTarget`) is in the model, and the theorem
says that it is the only one that can leave a pointer to a deleted object.

and of `StompAllocator`, for any page, granule and block sizes:

| theorem | property |
|---|---|
| `RegionsPair` | `OneRegionEach` |
| `NothingBehind` | `OverrunFaults` |

Assumption: `StompAssumption` (pages, granules and blocks are not empty). `OneRegionEach` counts
regions and blocks; the invariant says which belongs to which: the region of a
block can be computed from its address and size (`RegionOf`), the regions are
exactly those of the blocks, and they are apart (`ShapeInv`, `PairInv`, `ApartInv`). That `Release`
recovers the base from the address is the lemma about division and remainder.

Every safety invariant and every refinement that a passing run checks is also a
theorem. Only model-checked: liveness (`QueuedSettles`, `SentIsDelivered`,
`WaitersServed`, `BroadcastEnds`, `DisconnectedIsFreed`), which the prover does
not treat, and the four findings, which are counterexamples. The type invariants
of `RecvStream`, `Startup`, `SharedPtr` and `PacketCodec` are proved and have no run of their
own. `OwnersOwed` and `InnermostPassedOver` are stated in the proof modules and are
proved only.

## 6. Not modelled

Time (the 250 ms of the broadcast, the ten seconds of the lock, the time-out of
`Dispatch`: a time-out may happen at any failed exchange); more than `MaxDepth`
nested calls of `RegisterAccept` in a run (the theorem bounds them by any number);
a `header.size` below the size of the header, which no code of the repository
builds (`SizesAssumption`) and on which the loop of `OnRecv` would not advance;
`CloseService`, `DestroyTLS` and the closing of the port, which the code leaves
empty or never reaches; `CreateSession` returning null in an `AcceptEx` that is
posted again while workers run (`Startup` has it at the start: it ends the
process); `ThreadManager::Join`, which waits for threads that do not
end; `NetAddress`, which stores and formats an address; the wrappers of
`SocketUtils` and the parts of `BufferReader` and `BufferWriter` that nothing calls;
`BaseAllocator`, `Memory` and `Container`, which pass on to `malloc` or to
`StompAllocator`; buffs beyond the 339 that fit a send buffer; memory exhaustion
other than in `StompAllocator`. Weak memory orders do not arise: all atomics use
the default order, and plain fields are accessed under a lock or handed over
through the kernel.

Seen while modelling: the assignment `head = head->next` by copy releases the
object that holds the source before it reads the source (`RefCounting.h:62-68`). No
comment or test says that it may be written so, and no program here uses the
class; `HeldIsAlive` sets it aside and so does not catch it. A path longer than one member, as in
`a->next = a->next->next`, is not modelled. Outside what the models state:
a block that fills whole granules,
as the 640 KB of a `RecvBuffer` do, may have another region right behind it, so an
overrun of it need not fault; `OverrunFaults` leaves such sizes out. A failed
`VirtualAlloc` is not noticed before the block is written to.

## 7. Plan

Done: every component that has state of its own, the abstract specifications and
runs above, and the proofs of section 5. The order was by weight: the send path
first, because three threads meet in it; then the stream, the lock under both,
the life of a session that ties them together, and the sequential parts, the
start and the memory last.
Worth proving next: that `SessionSend` uses its lock as `RWLock` allows, and more
of the state parts of the liveness properties, as `NoOwnerForgotten` is one of
`DisconnectedIsFreed`.
