# A TLA+ model of jwNet

jwNet is a small C++ network library: an event loop (`NetLoop`), a socket whose
operations complete by callbacks (`IoSocket`), a listener (`Accept`) and a queue
of tasks posted from other threads.  It has two back ends with one interface:
`src/src/epoll` (Linux, readiness turned into completions) and `src/src/iocp`
(Windows, completions from the system).  This directory holds a TLA+ model of
it, the TLC runs that check the model and TLAPS proofs about it.

Paths of the form `src/src/...` are the source, relative to the directory that
holds both the repository (`src/`) and this one.

## The system

| component | state | operations | interacts with |
|---|---|---|---|
| epoll `NetLoop` (`epoll/Epoll.cpp`) | the epoll descriptor, `_events[EPOLL_WAIT_MAX]`, `posts` | `init`, `run`, `registerEpoll`, `post`, `destroy` | calls `IoSocket::onEpollEv` and `Accept::onEpollAccept` through `epoll_event.data.ptr`; runs posted tasks |
| epoll `IoSocket` (`epoll/IoSocket.*`) | `_fd`, `_isconnect`, `_close`, `_event` (interest, self reference `sockptr`), `_recv` (buffer, `_hasData`), `_writeBuf` | `connect`, `reconnect`, `read`, `write`, `close`, `addEpoll`, `onEpollEv`, `handleRead`, `finalClose` | `registerEpoll`; virtual `onConnect`, `onRead`, `onWrite` of the application, which call back into it |
| epoll `Accept` (`epoll/Accept.*`) | `_listenfd`, `_event`, the offered socket `_sioptr` | `listen`, `accept`, `onEpollAccept`, `close` | `IoSocket::addEpoll`, virtual `onAccept` |
| posted tasks (`PostParam.h`, `post`) | a heap object per task | `post`, the drain in `run` | producers in any thread; on epoll the queue below and one consumer, on IOCP the completion port |
| IOCP `NetLoop`, `IoSocket`, `Accept` (`iocp/*`) | the completion port, one `OVERLAPPED` and one `sockptr` per kind of operation, `_socket` | the same interface | `GetQueuedCompletionStatus` in one or more threads |
| `moodycamel::ConcurrentQueue` (`concurrentqueue.h`), the type of `posts` on epoll | a lock-free queue: a stream per posting thread (an array of blocks behind a block index), a table from thread ids to streams, a pool of blocks | the constructor, `enqueue(t)`, `try_dequeue`, the destructor, a notification when a thread ends | `post` in any thread, `run`; `thread_local` destructors |
| `SocketAPI`, `IPAddres`, `Platform.h` ... | none | wrappers of system calls | |
| `Test.cpp`, the example of `README.md` | | how an application uses the library | |

What is hard in it:

- **Edge triggering.**  Every registration has `EPOLLET`: an event bit is
  reported once per edge, so a bit that the handler does not act on is gone.
  `IoSocket` compensates with `_hasData` (an edge came between two reads) and
  with the re-arm that `EPOLL_CTL_MOD` implies.
- **Lifetime.**  Sockets are `shared_ptr`s that the application usually gives
  up.  `_event.sockptr` is a reference of the object to itself, set when an
  operation needs an event and moved out by `run()` when EPOLLHUP or EPOLLERR is
  reported, which happens once.  Set it without a registration, or miss that
  edge, and the object leaks; lack it, and the event is dropped.
- **Batches.**  `epoll_wait` fills `_events` before the first callback runs.  A
  callback may destroy objects, close descriptors and open new ones with the
  same numbers; the entries not yet dispatched still hold raw pointers.
- **Re-entrance.**  Callbacks call `read`, `write`, `reconnect` or `close` on
  the socket that is calling them, and on others.
- **Partial failures.**  `epoll_ctl` and `accept()` may fail; what is rolled
  back differs from place to place.
- **Threads.**  In `epoll` only `post()` is meant for other threads.  In `iocp`
  the kernel completes an operation while the call that starts it is still
  running.
- **The lock-free queue.**  Behind `post()` threads meet on atomics: a free list
  whose head may come back with another successor (ABA), a counter that is
  incremented before it is known whether there is an element and taken back
  after, an index that is replaced while others read it, a hash table that is
  replaced while others insert, threads that end and leave a stream to others.

What makes each component correct:

- *loop and socket*: `data.ptr` never dangles; the references and the
  registration agree with the object's life; every operation that was started is
  answered once; what was closed or broken is released.
- *listener*: a listener with an offer is armed; a connection is announced with
  a socket that works; no offer is lost.
- *posted tasks*: each runs exactly once, in the order of its poster, before the
  loop's next wait; nothing is leaked when the loop goes away.
- *queue*: a stream is first in, first out, with each element out once and
  unharmed; no two threads post to one stream; no block is lost or used twice;
  `try_dequeue` finds a task if there is one; every call returns.
- *IOCP*: a completion always finds the reference of its operation; the buffer
  and `OVERLAPPED` of an outstanding operation live until it completes.

## Modules

```
EpollKernel        descriptors, edge-triggered epoll, the network   (external)
  EpollIoSocket    the members of IoSocket and its handlers
    EpollLoop      NetLoop::run, the application, Spec, properties
      MCEpollLoop            symmetry for TLC
      EpollAccept            the listener, on the loop
      EpollLoopProofs        types and frames; invariant IInv; life,
                             registrations, batches
        EpollWakeProofs      invariant WInv; no lost wake-up.  The listener:
                             invariant SInv, refinement of EpollLoop

Proactor             what a socket promises                     (abstract)
  IocpLoop           NetLoop::run and IoSocket on a completion port, Spec, properties
    IocpAccept               the listener, on the loop
    IocpProofs               invariant KInv; any number of threads.  One thread:
                             OInv and the refinement of Proactor.  The
                             listener: invariant SInv, refinement of IocpLoop

ProducerTable        which stream a thread posts to; threads that end
  PostQueue          NetLoop::post, the drain of NetLoop::run, Spec, properties
    MCPostQueue              hash values and bounds for TLC
    PostQueueProofs          invariant IInv: the drain, who owns a producer
      PostTableProofs        invariants TableInv, OrderInv: a thread finds its
                             stream; its tasks run in their order
TaskStream           what one stream promises                   (abstract)
  SubQueue           the inside of a stream: enqueue and dequeue, Spec, properties
    MCSubQueue               symmetry for TLC
    SubQueueCountProofs      invariant CountInv: the counters of the dequeuers
      SubQueueProofs         invariant MemInv: index and blocks; refinement of
                             TaskStream; the destructor
BlockPool            where streams get blocks and give them back, Spec, properties
  BlockPoolProofs    invariant IInv; any number of threads and blocks
```

**EpollKernel** is the one module that models no code of the repository but what
the code stands on.  A descriptor has a connection state (`syn`, `est`, `fin`,
`down`), queued input (`rx`, at most `MaxRx` chunks), a full or free send buffer
and its registration (`ptr`, `mask`).  `Poll` is what the system finds true of
it, `ready` the epoll ready list.  An item enters `ready` when something happens
that its mask asks for, when the connection changes state, or when `Arm`
(`EPOLL_CTL_ADD`, `EPOLL_CTL_MOD`) finds it ready.  EPOLLHUP and EPOLLERR are one
bit, `HUP`, since the code never tells them apart.

**EpollIoSocket** has one operator per member function of `epoll/IoSocket.cpp`,
split by outcome.  `obj[s]` holds its members, `usr[s]` what the application knows:
whether it keeps a `shared_ptr` (`held`), what it was last told (`st`), and
whether a read or write is outstanding (`rd`, `wr`).

| code | operators |
|---|---|
| `IoSocket()`, `make_shared` | `NewObject`, `MakeShared` |
| `~IoSocket`, `finalClose` | `Destroy`, `FinalClose` |
| `connect`, `reconnect` | `Connect`, `Reconnect` (= `Dial`: `DialFails`, `DialStarts`) |
| `addEpoll` | `AddEpoll` |
| `read`, `handleRead` | `Read` (`ReadRegisters`, `ReadWaits`, `ReadTries`), `RecvData`, `RecvEnd`, `RecvAgain` |
| `write` | `Write` (`WriteSends`, `WriteWaits`) |
| `close` | `Close` |
| `onEpollEv` | `EventCalls`, `EventSilent` (`ConnectFails`, `ConnectSucceeds`, `HangsUp`, `DataNoted`, `SendDone`, `SendAgain`) |

Each callback of that file is the last statement on its path, so the calls an
application makes inside a callback see the state that the caller leaves.  This
is what lets one step model the handler and later steps model the calls.

Operators whose name describes a mistake (`FinalCloseForgetsFd`,
`ReadIgnoresHasData`, ...) are not part of the specification.  They are what the
code would be with a plausible bug; `PROJECT.json` says which property then
fails.  They show that the property depends on the code.

**EpollLoop** is `NetLoop::run`: `Wait` (epoll_wait), `Dispatch` of one entry
(`SkipEvent` when `sockptr` is empty, `RunHandler` otherwise), `Return` of the
callback with the release of the `IoSockptr` that `run` holds, `EndRun`.
`Accepted` is the part of `Accept::onEpollAccept` that concerns a socket; in
`EpollLoop` any socket that was never connected may be announced at any time.
`Application` may make any call on any object it can reach, between two runs or
inside a callback; `Environment` is the network, which acts between any two steps.

Assumptions about the application: all calls are made in the loop's thread (the
documented use; other threads post); `read` and `write` are called on an open
socket with no read or write outstanding; `reconnect` only after a failed
connect, as `Test.cpp:29-36` does; an object is connected or offered to a
listener once.  Byte counts and error numbers are abstracted to data, end, error.
`recv` and the `send` of an OUT event are retried after EINTR, which is left out; the
`send` of `write()` is not, and `WriteWaits` stands for its every return without bytes.
`EPOLL_CTL_MOD` of a registered descriptor does not fail.

**EpollAccept** makes the listener an actor.  `lsn` holds its members, `lk` the
listening descriptor (its backlog, at most `MaxBacklog`, and its registration),
`lev` its entry in the batch.

| code | operators |
|---|---|
| `listen`, `close` | `Listen`, `CloseListener` |
| `accept` | `OfferSocket` (`Offer` arms the descriptor and sets `_sioptr`, `ReplaceOffer` releases an earlier offer) |
| `onEpollAccept` | `OnEpollAccept` (`Disarmed`, then `AcceptSucceeds` or `AcceptRefused`) |
| `run` with a listener in it | `ServerWait`, `ServerEndRun`, `ServerRun` |

The listener may be closed and opened again at any time, also inside a callback
while its event is in the batch.  A listening descriptor registered for IN or for
nothing is never reported without IN, nor with HUP or ERR, so the branches of
`onEpollAccept` for these are not taken.  `RefinesLoop` is `Spec` of EpollLoop: the
listener does to the loop and to the sockets only what `Accepted` allows.

**Proactor** is what `README.md:2` promises, for the objects alone: an operation
that was started is answered by one callback, nothing else is (but `onAccept`,
which announces), and an object is not destroyed while an operation on it is
outstanding or a callback on it runs.  It knows nothing of ports or references.

**IocpLoop** is the other back end.  Any number of threads call `run()` and make
calls.  `io[s][k]` is the `OVERLAPPED` of operation `k` (CONNECT, READ, WRITE) of
object `s` as the system has it: with the system (`pending`), on the port (`done`,
`failed`), or neither.  `starting` holds the calls that have started an operation and
not yet assigned its `sockptr`; `tmpptr[t]` is the reference that `run` holds in
thread `t` during a callback.

| code | operators |
|---|---|
| `IoSocket()`, `~IoSocket` | `MakeShared`, `Release` |
| `connect`, `reconnect` | `Connect`, `Reconnect` (`Dials` to ConnectEx, `ReconnectFails`), then `SetSockptr` |
| `read`, `write` | `Read`, `Write` (= `Transfer`) to the system call, then `SetSockptr` |
| `close` | `Close`; the system then fails what is outstanding (`Complete`) |
| `run`: a completion | `Take` (`OnIocpMsg` with `MovesReference`, or `Dropped` if `sockptr` is empty) |
| `run`: timeout, end of callback | `TimesOut`, `Return` |
| `Accept::onIocpAccept` | `Accepted` |

Windows queues a completion also for an operation that succeeded at once, so each
overlapped call that does not fail is `pending` first.  A call that fails at once
changes nothing and is left out, except for `reconnect`, which closes.

**IocpAccept** makes the listener an actor, as EpollAccept does.  `accept()` is
three steps, `StartAccept` (AcceptEx) and the two of `Assigns` (`_sioptr`, then
`_socket`); `TakeAccept` takes the completion, and `OnIocpAccept` is the handler after
its wait `while (_socket == INVALID_SOCKET) Sleep(5)`.

Assumptions about the application, beyond those above: one operation of a kind at a
time on an object; an object is reached through a handle, or by the thread that is in
a callback on it; a handle is not dropped while another thread is inside a call on
the object; one offer at a time.  Two threads that meet on a `sockptr`, or on
`_socket` and `_sioptr`, race in the sense of C++; the model has the outcomes in
which each access is seen whole and in the order of the code.

**The queue of posted tasks** is four modules, each about one structure of
`concurrentqueue.h`, cut where the code has an interface.  A step is one access to a
shared atomic with the private work next to it.  Accesses are sequentially
consistent: the memory orders of the code, which are weaker, are not modelled.

*PostQueue* composes the loop with `ProducerTable`, and takes a stream as the sequence
that `TaskStream` promises to a single dequeuer.

| code | operators |
|---|---|
| `NetLoop::post`, `enqueue` | `Post`, then the steps of `ProducerTable`, then `Enqueue` or `EnqueueFails` (whose result `post` does not look at) |
| the drain in `run`, `try_dequeue` | `TryDequeue`, `Score` of each stream from the last added (`ScanFrom`: until three are found), `Dequeue` |
| `epoll_wait` in `run` | `Wakes` |
| `~ConcurrentQueue`, `~ImplicitProducer` | `Destroy`, `DestroyInactive`, `DestroyActive` |

*ProducerTable* is `get_or_add_implicit_producer`: the search (`LookUp`, `Move` of an id
found in an older table), the count and the new table (`CountIn`, `TestAndSet`,
`Wait`, `Resize`, `Unlock`, `ResizeFails`), a stream that a thread which ended has left,
or a new one (`LoadList`, `Recycle`, `AddProducer`, `CreateFails`), its notification and
its slot (`Subscribe`, `Insert`, and `Uncount` when the slot was counted before); and the end of a thread (`Exit`, `Unhash`,
`Deactivate`, `NextListener`).  The id of a thread that ended is given to another one,
which finds what the first has left.  A search in a table that has neither the id nor a
free slot never returns: `LookUp` then leads to `spin`, and `Unhash` is stuck
(`SearchEnds`); `PostReturns` would show it.

*SubQueue* is the inside of a stream (`ImplicitProducer`).

| code | operators |
|---|---|
| `enqueue` | `Enqueue`, `StoreKey`, `StoreIndexTail`, `NewBlockIndex`, `RequisitionBlock`, `Construct`, `Publish`; without memory `NewBlockIndexFails`, `RequisitionFails` |
| `dequeue` | `LoadTail`, `LoadOvercommit`, `LooksNonEmpty`, `CountIn`, `CheckAgain`, then `CountOut` or `Claim`; `LoadHeader`, `LoadKey` (`EntryFor`), `MoveOut`, `SetEmpty`, `ClearEntry`, `FreeBlock` |
| `~ImplicitProducer` | `Destroy` |

The element enqueued at index `i` is `i` itself, so an element that is lost,
overwritten or read from the wrong slot shows.  *TaskStream* is the promise: a
sequence, and an attempt that comes back without an element overlapped with as many
others as it found elements.

*BlockPool* is `requisition_block` and `add_block_to_free_list`: the array
(`PoolHasMore`, `TakeFromPool`), the free list (`try_get`: `LoadHead` to `Unref`;
`add`: `Add`, then `LoadTop` to `Again`) and the heap (`Create`, `Destroy`).  `list` is
the free list as a sequence, an auxiliary variable that `ListOK` compares with
`freeListHead` and `freeListNext`; `used` is what the streams have.

Assumptions: 64-bit indexes and the 31-bit count of a block do not wrap; the queue is
destroyed when no thread is in `post` or `run`, as it asks of its user, while threads
that have posted may still be ending.  Explicit producers and tokens, bulk
operations, moves and swaps, which jwNet does not use, are left out.

## Runs

| run | asks | bounds |
|---|---|---|
| `kept` | `TypeOK`, `RegistrationOwned`, `ReferencesKeepAlive` | 1 socket, 2 descriptors, 2 chunks; handles kept, close while connecting, `epoll_ctl` failing |
| `two` | `BatchOwned`, `ConnectEventDecides`, `PendingReadWakes`, `HangUpReleases`, `PendingKeepsAlive` | 2 sockets, 2 descriptors, 2 chunks, one event per wait; close while connecting |
| `listen` | `ListenTypeOK`, `EventHasOffer`, `WaitingClientWakes`, `OfferIsUnused`, `RefinesLoop`, `OfferAnswered`; of its sockets `ReadAnswered`, `ConnectAnswered`, `CloseReleases`, `BrokenIsClosed` | a listener, 2 sockets, 1 descriptor, backlog 1, 2 chunks, two events per wait; `accept()` failing |
| `write_answered`, `end_releases` | one promise of the documents each, which the code does not keep | 1 socket, 1 descriptor |
| `iocp_one` | `DueIsOutstanding`, `ImplementsProactor`, `ClosedIsAnswered`, `GivenUpIsFreed` | 1 thread, 2 sockets, connect and write; `createIoPort` failing |
| `iocp_accept` | `TypeOK`, `OutstandingKept`, `WaitsForAccept`, `RefinesLoop`, `OfferComesBack` | a listener, 2 threads, 2 sockets, reads; `createIoPort` failing |
| `iocp_dropped` | `DueIsOutstanding` with a second thread, which the code does not keep | 2 threads, 1 socket |
| `posts` | `OwnStream`, `DrainedBeforeWait`, `NoCallbackAfterDestroy`, `OrderKept`, `PostReturns`, `TaskRuns` | 3 threads, one of them the loop's; at most 3 posts; one thread that ends; a first table of 2, all ids beginning at one slot; allocations failing |
| `slots_counted` | `SlotsCounted`, a comment of the queue that does not hold | as `posts`, but a first table of 4 in which two of the ids begin at one slot, two posts for each of the other threads, memory enough |
| `sub_queue` | `EntryFound`, `DestructorExact`, `ImplementsStream` | 1 poster, 2 dequeuers, blocks of 2, an index of 2, 3 blocks, 7 posts; allocations failing |
| `block_pool` | `TypeOK`, `OnePlace`, `FreeListSound`, `NoLivelock` | 2 threads that ask for blocks, 1 that gives back; an array of 2, a heap of 1 |

*Why these bounds.*  A socket talks to no other socket except through descriptor
numbers and the batch; two sockets and two descriptors let one reuse the other's
number, share a batch with it and be destroyed while the other is dispatched.
With `EPOLL_WAIT_MAX = 1` and two descriptors an event is left on the ready list
by a full batch (one place of the array may go to the listener); with 2 both fit.
Two chunks separate "all taken" from a partial `recv` that leaves some.  The invariants of these runs are proved
for all values, so the bounds matter only for the liveness properties, which `listen`
checks: of the sockets the listener accepts and of those that connect, with the
listener taking its turns in between.  A backlog of one client is enough to lose one.  Completions of one object
meet only through its own three references, and two threads are enough for one to
take a completion inside the other's call; two sockets let one be offered while the
other is used, and exchange their roles.  With one descriptor the second client of
`listen` meets an `accept()` that has none to give.  `iocp_one` has two kinds of
operation, so that its liveness part stays small: one that makes a connection and may
fail at once, one that is made on it; the contract is proved for all three.

`posts`: with one slot for all ids each insertion meets the others, and the first two
find the table half full and replace it while the rest search, move and insert; an id
is used by two threads in turn.  One post per stream is enough for a stream to be the
only one with a task, two for its order.  There at most two streams have tasks,
so no scan stops at a third with another left: that needs four threads, which is too much
for the run.  `TheLoopDrainsBeforeItWaits` covers it, for any number of streams.
`sub_queue`: seven posts go round the index
of two, make it grow, and need a block that was freed; two dequeuers are what the
optimistic count and the overcommit need to disagree.  (jwNet has one, the thread in
`run`; the queue allows any number.)  `block_pool`: two blocks of the array are what ABA needs,
one taken off and one under it; three threads, one that still looks at a block, one
that takes it and one that gives it back.  Its invariants are proved for all values.

*What they show.*
`RegistrationOwned`: whatever the epoll instance watches is a live object's current
descriptor with the interest the object believes in.
`ReferencesKeepAlive`: the self reference exists only with a registration, and an
object lives exactly while a reference to it exists.
`BatchOwned`: no collected event points at an object that was destroyed or moved
to another descriptor since.
`ConnectEventDecides`: `assert(0)` in `onEpollEv` is not reached.
`PendingReadWakes` and `HangUpReleases`: under EPOLLET no wake-up is lost, for a
pending read and for the edge that breaks the self reference.
`PendingKeepsAlive`: an outstanding read or connect keeps its object.  (Of a write this is
not said: one that waits when the connection breaks is never answered, and the reference
is given up with the hang-up.)
`EventHasOffer`, `OfferIsUnused`: `onEpollAccept`, which uses `_sioptr` without a test,
always finds a socket there, alive and in no other use.
`WaitingClientWakes`, `OfferAnswered`: though the listener is disarmed before
`accept()` takes one client, the others wake it once it is armed again, and the offer
comes back, with a connection or with the error of `accept()`.
`OutstandingKept`: with any interleaving of threads the `OVERLAPPED` and buffer
descriptor the system works on are those of a live object.
`DueIsOutstanding`, `ImplementsProactor`: with one thread every operation is answered,
once, and the object lives until then.
`WaitsForAccept`, `OfferComesBack`: the wait of `onIocpAccept` is right and ends.
`OwnStream`: no two threads are in a stream at once, an id leads to the stream that
hears of its thread's end, also when the table was replaced in between and when another
thread has had the id.
`DrainedBeforeWait`: `run` waits for events only if no task was there when it last
looked, so the scores of `try_dequeue`, which are only estimates, miss nothing.
`OrderKept`, `TaskRuns`: tasks of a thread run in the order they were posted, and run.
`NoCallbackAfterDestroy`: no thread that ends reports it to a queue that is gone.
`PostReturns`, `NoLivelock`: nobody waits or spins for ever, also without memory.
`EntryFound`, `ImplementsStream`: a claimed index leads to the block with its element,
whatever the poster does to the block index meanwhile, and the stream is a sequence.
`DestructorExact`: the destructor frees each block the stream holds once.
`OnePlace`: no block is lost, or in two places.
`FreeListSound`: the list is a list and the counts are exact, so the
compare_exchange of the head is safe from ABA.

`BatchOwned` needs `KeepsHandles = FALSE`.  With handles kept by the application it
fails, and so would the program: a callback of one socket that drops the last
reference to another one, whose event is later in the same batch, leaves a
dangling `data.ptr` that `run()` reads.  No document promises otherwise, so there
is no violation run; it is a constraint on applications worth knowing.

### Disagreements with the documents

- `WriteAnswered` (`IoSocket.cpp:176`): OUT is handled only in an `else` of IN.
  Reported together, the OUT edge is consumed and the pending write hangs.
- `EndReleases` (`IoSocket.cpp:217`): after the end of input nothing breaks the
  self reference; `Test.cpp:42` and the README's example return without `close()`
  and leak the object and its descriptor.
- `DueIsOutstanding` with two threads (`iocp/Iocp.cpp:102`): a completion taken before
  its `sockptr` is assigned is dropped; the callback never comes and the reference
  assigned afterwards stays.  The listener waits in this case
  (`iocp/Accept.cpp:116`), the sockets do not.
- `SlotsCounted` (`concurrentqueue.h:3514`): `implicitProducerHashCount` does not cover
  the used slots of every table, as the comment at line 3419 says it does.  A thread
  whose table was replaced after it was counted inserts in the old one, into the slot of
  a thread that ended, and takes its count back; the thread that ended had also moved to
  the new table, where its slot stays taken.  In the run 3 slots of a table of 8 are
  taken while the count is 2.  That the table fills up, so that a search of an id that is
  not there goes round for ever (`:3412`), would take many such coincidences between two
  growths of the table.  The model has that search (`spin`); no run reaches it, and no
  theorem excludes it.

Without a run, since no document says otherwise:

- A connection that breaks calls `onRead` also when no read is outstanding
  (`epoll/IoSocket.cpp:164`).
- `onAccept` is called with error 0 though the registration or the port of the new
  socket failed (`epoll/Accept.cpp:93`, `iocp/Accept.cpp:134`).
- A thread that ends reads `ptr->next` of a listener after it has called it
  (`concurrentqueue.h:612`).  The call has set `inactive`, so a destructor that runs in
  another thread does not unsubscribe, takes no mutex and frees the listener.  In
  `PostQueue` this is the state with `loop = "gone"` and a thread at `next`, which is
  reachable.  A program that joins its threads before it destroys the loop avoids it.

### Fairness

`FairSpec` assumes weak fairness of the loop's steps (`while (1) loop.run(5)` in
`Test.cpp:107` and `README.md:59`; callbacks return), of a connection attempt being decided (TCP
times out), and of a peer reading what it is sent.  It assumes nothing of the
application and never that a peer sends, closes or resets.  Weak fairness is
enough everywhere: no step of the loop is disabled again by another actor.
`ReadAnswered` therefore is conditional on input being there, and `CloseReleases`
on the run's `ClosesDialing = FALSE`: `_close` is never reset, so a socket closed
while connecting and then reconnected ignores its next `close()`.

`FairServer` of EpollAccept is the same, step by step, for the loop with a listener;
`OfferAnswered` speaks of the time in which an offer is out and armed, so it asks
nothing of the application.

`FairSpec` of IocpLoop: calls and callbacks return, and the operations of a closed
descriptor fail (weak fairness); a completion on the port is taken if threads keep
taking.  The last is strong fairness, since a thread that is in a call or a callback
takes nothing for a while; the port is first in, first out, so others cannot overtake
for ever.  Nothing is assumed of operations on open descriptors.  `FairServer` of
IocpAccept: `accept()` and callbacks return, a wait whose condition holds ends, the
completion of AcceptEx is taken (strong, for the same reason).

`FairSpec` of PostQueue: a thread goes on with the call it is in, and `run` is called
again and again with a timeout, so `epoll_wait` returns.  `post` does not wake it: with
a timeout of -1 (`Wakes` without fairness) `TaskRuns` would fail.  Nobody has to post, to
end or to destroy.  `FairSpec` of BlockPool: a thread goes on with the call it is in.
`NoLivelock` says what a lock-free list can promise, that calls return if new ones stop
coming; a thread may lose every compare_exchange to others that make progress.

## Proofs

Proved for every set of sockets and descriptors, every `MaxRx` and every
`EPOLL_WAIT_MAX > 0`, from the assumptions stated in the modules
(`KernelAssumption`, `UserAssumption`, `LoopAssumption`):

- `EpollLoopProofs`: `Invariance`, `TypeCorrect`, `RegistrationsAreOwned`,
  `ReferencesDecideLife`, and, for applications that keep no handles,
  `BatchIsOwned`.
- `EpollWakeProofs`: `WakeInvariance`, `ReadsAreWoken`, `HangUpsRelease`,
  `PendingIsAlive`, `ConnectEventsDecide`; and of the listener, for every
  `MaxBacklog`: `ServerImplementsLoop`, `ListenerTypeCorrect`, `EventsHaveOffers`,
  `ClientsWake`, `OffersAreUnused`, and `ServerRegistrationsAreOwned` as an example of
  what the refinement carries over.

and, for every set of threads, sockets and kinds of operation (`IocpAssumption`):

- `IocpProofs`: `KInvariance`, `IocpTypeCorrect`, `OutstandingAreKept`, and for at
  most one thread (`OneThread`) `OInvariance`, `DueAreOutstanding`,
  `LoopImplementsProactor`; and of the listener: `ServerInvariance`,
  `AcceptIsComplete`, `ServerRefinesLoop`, `ServerOutstandingAreKept`.

and, for every finite set of threads, every size of the array and of the heap
(`PoolAssumption`):

- `BlockPoolProofs`: `Invariance`, `TypeCorrect`, `EveryBlockInOnePlace`,
  `TheFreeListIsSound`;
- `PostQueueProofs`, for every hash, every initial size of the table and every bound
  on posts and ends (`TableAssumption`, `PostAssumption`): `Invariance`,
  `TheLoopDrainsBeforeItWaits`, `NoThreadCallsADestroyedQueue`.
- `PostTableProofs`, from the same assumptions: `TableInvariance`,
  `EveryThreadFindsItsOwnStream`, `TasksRunInTheOrderPosted`.

and, for every finite set of dequeuers, every set of blocks, `BLOCK_SIZE` and first size
of the index, every bound on posts and on excess attempts, with or without failing
allocations (`SubQueueAssumption`):

- `SubQueueCountProofs`: `Counting`, `TheCountersAgree`;
- `SubQueueProofs`: `MemoryInvariance`, `EveryEntryFound`, `StreamImplemented`,
  `TheDestructorIsExact`.

None of the properties is inductive alone.  **IInv** adds to the types, for each
object, `Linked`: what `fd`, `events`, `sockptr`, `isconnect`, the application's
handle and the loop's `ptr` imply about one another and about the registration
of the descriptor; `Registry`: from the descriptor's side, who owns a
registration; and `CallbackPtr`: `ptr` is set exactly during a callback.  Both
directions are needed: `close(fd)` must be known to remove the only registration
of the object, and a fresh descriptor to have none.  **BInv** is `BatchOwned` with what makes
it inductive when no handles are kept: a held object, being offered or new, has no
descriptor; no entry of the batch is for the object whose callback runs; one entry
per object; the batch is empty between two runs.  Then a callback can destroy only
its own object.  **WInv** holds whatever handles are kept.  It adds to IInv that an
entry of an object not yet connected says OUT or HUP, and per object `Waiting`, what
a pending operation implies about the interest and the self reference, and `Wakes`:
an open socket that asked for input and has no `_hasData`, or a broken one that
still holds itself, has an edge to come, on the ready list or in the batch with the
bits the handler will look at.  The interesting case is `Wait`, which turns "on the
ready list" into "in the batch with the bits that are true now": the proof needs
that what is true now stays true until the dispatch.

For the listener, `SInv` of EpollWakeProofs (the offer unused, the event with its
offer, the armed listener awake, no event of it between two runs) and IInv need each
other: the step of the listener is a step of EpollLoop only if the offer is unused,
and the offer stays unused because IInv says what an unconnected object owns.  The two
are proved together, step by step, and the refinement follows; it carries every
theorem about EpollLoop over to the server.

**KInv** of IocpProofs: an operation the system has is referenced by its object or its
call is running (`Kept`); whatever refers to an object refers to a live one
(`Lives`); a thread inside a call still reaches its object (`Callers`); nothing was started on
an object that is new to the network (`Fresh`, which `Accepted` needs).
**OInv** adds for one thread that references, the application's view and the system's
agree (`Agreed`).  It holds because a thread that takes a completion is in no call:
with one thread, none is between the overlapped call and the assignment.  The run
`iocp_dropped` is the counterexample for two.  `SInv` says where
each call of `accept()` stands: which member is set, that one offer is out, that the
thread that waits is in no other call, that the offered socket is unused; again it is
proved together with the loop's invariant.

**IInv** of BlockPoolProofs: for each block two sums, its places (`PlaceOK`) and its
references (`CountOK`), counted as numbers of threads by the step they are at; that a
block marked with a count of zero has exactly one thread that links it (`LinkOK`); that
one not handed out has no references (`NewOK`); for each thread its locals (`LocOK`);
and the list.  The heart of it is the last part of `LocOK`: the `next` that a thread
has read of the block it holds is still its `next` when it compares the head.  Who
writes a `next` links a block with a count of zero, and the block a thread holds has
not; so when the compare_exchange finds the head equal, the successor is right however
often the head has changed in between.  A step changes the numbers of one block by
moving one thread between the sets (`Moved`), and leaves the others (`Untouched`).

**IInv** of PostQueueProofs does not speak of what the tables hold.  `Drains` is the
invariant of the scan: while no stream with tasks has been scored, one that had some
when `try_dequeue` was called is still ahead (only this thread takes tasks out), and
what is scored best has a task.  `Owns` says whose a producer is: a thread owns the one
that hears of its end and the one it is about to subscribe; those are active, and no two
threads own the same.  So a producer that the destructor reads as inactive is nobody's.
`Ends` says that from the beginning of the destructor no thread is inside `post`, and
that no thread has a producer that is already destroyed.

**TableInv** of PostTableProofs speaks of the tables, until the destructor begins.  Of
each id, `Leads`: wherever a table holds it, no slot from the one its hash begins at to
that one is free (`InvalidId`), so the search gets there, and the value is the producer
that hears of the end of its thread.  A slot that has been taken is never free again,
only reusable, so the way stays closed whatever others insert; this is why the threads
that end leave `ReusableId` behind.  Of each thread, `Place`, which says by its step
where its id is: while it searches, not in the tables it has left behind; while it is
about to insert, in none; when it has a producer and does not end, in one.  Two things
are not needed.  The table may be full, as the proof does not use the count (which is
wrong, see `SlotsCounted`); and ids may collide in any way.
The number of steps after which a search meets its id is found by induction (`Least`,
`Greatest`): the library's theorem that every set of naturals that is not empty has a
least member takes a set, not an operator, and so is within the provers' reach.

**OrderInv** adds the tasks: what waits in a queue was posted by a thread in one of its
lives and not run yet (`Waits`); the tasks of one thread stand in one queue (`OneQueue`)
in the order posted (`Sorted`), later than those that ran (`Runs`); and while the thread
lives that queue is the one `IdFindsStream` leads it to (`Lives`).  When a stream is
taken over by another thread, tasks of the one that ended may still be in it; they
are in front and of another life, so the order is kept.

**CountInv** of SubQueueCountProofs: what was counted in is what was counted out, what
was claimed and who is in between (`Agree`); what an attempt has loaded is at most what
the counter is now (`Loaded`).  That head never passes tail does not follow from these:
an attempt counts itself in and then compares with a number of give-ups it loaded
before.  `Room` says, of every set of attempts between counting in and the second look,
that either there are elements for all of them or one of them will see that there are
not; it is needed of every set, since any of them may be next.  `Spared` is the same
argument for an attempt that ends with nothing: there were at least as many attempts
beside it as elements it saw, which is what TaskStream allows.

**MemInv** of SubQueueProofs numbers blocks and entries of the index without wrapping.
Block `k` has the indexes of `InBlk(k)`; `EntryOf(k)` is the entry at the distance of
`k` from the tail of the current header.  A block is `Live` from `RequisitionBlock` to
`ClearEntry`; while it is, its entry has its key and is within one turn of the ring
(`Placed`, `InReach`), its count is the number of its elements that are done (`Counts`),
its written slots have their elements (`Filled`), and no other live block has its memory
(`Apart`); what is not free is live or on its way to the free list (`Given`).
The new header of `NewBlockIndex` begins a ring of twice the size at the same blocks, so
`EntryOf` of each stays.  The delicate part is `Reads`, for a dequeue between `LoadHeader`
and `LoadKey`: its header and tail may be old by any number of posts, but its tail is the
entry of some block `m`, no earlier than its own, and `Key(m)` is still `m`'s; so the
distance from that key to its own base leads to its own entry, whichever `m` it is.  If
the poster has rewound the index after a failed requisition, `m` may be a block that is
not listed any more; it is then the next to be, under the same key.

The refinement is proved step by step: `Queue` is what is between head and tail, `HandOf`
what a dequeue has claimed and not yet moved out; `Claim` takes the front of the first
into the second, `MoveOut` is right because of `Filled`, and `CountOut` because of
`Spared`.  For the destructor, `DestroyExact` shows that the blocks it walks over (those of
the elements left, and the last one unless its last element is gone) are all the live
ones, and `Given` that there are no others once no dequeue is under way.

The first section of `EpollLoopProofs` has the lemmas on which of the state each call
leaves alone and that each keeps its types; the step lemmas there and in the other
modules have one case per action and below it one per object.

Only model-checked: all liveness properties (fairness and ENABLED are out of the
prover's reach) and the disagreements.  Every invariant a passing run checks, and every
refinement, is a theorem.

## Plan

In this order:

1. done: `EpollKernel`, `EpollIoSocket`, `EpollLoop` and the proofs about them.
2. done: `EpollAccept`, its refinement of `EpollLoop` and the proofs.
3. done: `Proactor`, `IocpLoop`, `IocpAccept` and the proofs.
4. done: `BlockPool` and the proofs, `TaskStream`, `SubQueue`, `ProducerTable`,
   `PostQueue`, and the proofs about its drain and its destruction.
5. The contract for epoll: the conditions on the application (no second write, no
   `close()` while connecting, none of the disagreements above) under which
   `EpollLoop` implements `Proactor`; runs for `_close` that is never reset and for
   `reconnect()` on a socket that is open.  Theorem: the refinement.
6. IOCP with two threads and a discipline (calls on a socket only inside its own
   callbacks and before it is shared): which promises then hold.
7. done: the theorems about the table of `PostQueue` and the order of its tasks.
8. done: the theorems about `SubQueue`, that it implements `TaskStream` among them.

Not modelled and why: the socket wrappers and address classes are stateless
calls into the system; headers and build files have no behaviour; `Test.cpp` is used as
evidence for how applications behave.  Of the queue, what jwNet does not use, and the
memory orders.  Of posted tasks, what a task captures, and `post` on IOCP, which hands
the task to the completion port and so to any thread in `run`.  Of IOCP, descriptor numbers: a call on a closed socket
fails.  The status and reason of every component is in `PROJECT.json`.
