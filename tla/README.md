# A TLA+ model of the Dart runtime

This directory holds TLA+ specifications of the Dart virtual machine in `src/runtime`, the TLC
configurations that check them on small instances, and proofs that TLAPS checks for every size of
the instance. The modules follow the source; `PROJECT.json` names the lines behind every definition.

## The system

The repository is the runtime of an early Dart VM: the VM proper (`runtime/vm`), its embedder and
`dart:io` (`runtime/bin`), native and Dart parts of the core libraries (`runtime/lib`, `corelib`),
an OS layer (`runtime/platform`), and Dart libraries including a compiler to JavaScript (`lib`).

Three parts carry everything else and are modelled: isolates that exchange messages and run on a
pool of threads; the heap of an isolate with its two collectors; and the event handler thread with
the sockets and timers above it.

```
 Dart code, embedder threads              ReceivePort, SendPort, spawnFunction, Dart_RunLoop
   |      |       |  post, close                   |
   |      |  PortMap (mutex_)  -- port id -> handler --  MessageHandler (monitor_)
   |      |  hash table, tombstones                    queue_, oob_queue_, task_, live_ports_
   |      |                                           /            |              \
   |      |                           MessageQueue (list)   ThreadPool (mutex_)   Isolate (mutex_)
   |      |                                                 workers (monitor_)    stack_limit_
   |      |
   |    Timer list, Socket objects --(pipe: masks, timeouts, close)--> EventHandler thread
   |      ^----------------------(receive ports: events)--------------- SocketData, epoll
   |
 Heap: Scavenger (two semi-spaces) --promotes--> PageSpace (pages, free lists), GCMarker, GCSweeper
       handles, weak persistent handles, weak reference sets
```

Locks nest downwards: `PortMap::mutex_`, then a handler's `monitor_`, then the pool's `mutex_`, a
worker's `monitor_` or the isolate's `mutex_`. A worker's `monitor_` is taken before the pool's
`mutex_`, and the pool never takes a worker's monitor inside its mutex. The heap belongs to one
thread at a time. The event handler thread and the isolate share the pipe, the ports and the
descriptors.

### Inventory

| Component | State | Operations | What is hard | Properties of interest |
| --- | --- | --- | --- | --- |
| Thread pool (`thread_pool.cc`) | lists of all and of idle workers, counters, a task per worker | `Run`, worker loop, idle timeout, destructor | a worker is chosen under one lock and used under another; timeouts; unlocked walk | no use after delete, no lost task, termination |
| Port map (`port.cc`) | open-addressing table, counters, next id | create, set live, close, close all, look up | tombstones, rehashing | it is a map; searches end |
| Message queue (`message.cc`) | linked list | enqueue, dequeue, flush | removal at both ends | FIFO, `tail_` |
| Message handler (`message_handler.cc`) | two queues, task, pool, live ports | run, post, task callback, close | posts while a message is handled; error paths; deletion | no lost wakeup, one thread, clean deletion |
| Isolate life cycle (`isolate.cc`, `lib/isolate.cc`, `dart_api_impl.cc`) | main port, start and end callbacks | create, spawn, run loop, shut down | who runs the isolate when | ends exactly when no live port is left |
| Interrupts (`isolate.cc`, `code_generator.cc`) | two words | schedule, clear, scopes | flags share a word with a limit | none lost, no overflow hidden |
| New generation (`scavenger.cc`) | two semi-spaces, forwarding, promoted stack | allocate, scavenge, promote | stale pointers, failed promotion, weak references | the program sees its graph; what is kept is what is reachable |
| Old generation (`pages.cc`, `freelist.cc`, `gc_marker.cc`, `gc_sweeper.cc`) | pages, free lists, mark bits, counters | allocate, mark, sweep, visit | free list against live objects; allocation while visiting | no live object freed, lists and counters exact |
| Event handler, timers, sockets (`runtime/bin`) | poll masks, timer list, handler masks | register, dispatch, close, set, cancel | events against re-arming and closing; reuse of descriptors | no lost event or wakeup |
| Hash maps (`bin/hashmap.cc`, `hash_map_set.dart`) | open addressing | store, look up, remove, clear | removal, deleted slots, growth | the last value is found, searches end |
| Files, processes, HTTP | requests in flight | asynchronous calls | order of replies | replies match requests |
| Snapshots (`snapshot.cc`) | back reference tables | write, read | cycles | round trip |
| Handles and zones | stacks of blocks | enter, leave | nesting | as roots of the collectors |
| Parser, compiler, assemblers, object model, debugger | large | sequential | semantics of Dart | out of reach |
| Core and utility libraries | values | pure functions | numeric edges | mostly unit tests |

`PROJECT.json` lists each of them with its status, and every hazard at its line.

## Modules

| Module | Models | Role |
| --- | --- | --- |
| `TaskPool` | what `thread_pool.h` promises | abstract |
| `Lists` | unlinking, inserting and walking in lists of workers and timers, flushing messages of closed ports | helper |
| `ThreadPool` | `thread_pool.{h,cc}` | implements `TaskPool` |
| `DataLemmas` | | induction over sets of numbers, probing, lists: the lemmas of all proofs |
| `ThreadPoolProofs` | | proofs about `ThreadPool`, with its refinement of `TaskPool` |
| `PortRegistry` | what `port.h` promises | abstract |
| `PortTable` | `port.{h,cc}` | implements `PortRegistry` |
| `Mailbox` | what `message.h` promises | abstract |
| `MessageQueue` | `message.cc` | implements `Mailbox` |
| `DeliveryProofs` | | proofs about `PortTable` and `MessageQueue`, with their refinements |
| `MessageHandler`, `MCMessageHandler` | `message_handler.cc`, native handlers, isolates | extends `PortRegistry`, uses the promises of `Mailbox` and `TaskPool` |
| `Interrupts` | stack limits and interrupts | |
| `MessageHandlerProofs` | | proofs about `MessageHandler` and `Interrupts` |
| `ObjectGraph` | the heap as a program sees it | abstract |
| `Heap`, `MCHeap` | `heap.cc`, `scavenger.{h,cc}`, `gc_marker.cc`, handles | shows the program an `ObjectGraph` |
| `PageSpace` | `pages.{h,cc}`, `freelist.cc`, `gc_sweeper.cc` | the old generation of `Heap` in detail |
| `EventHandler` | `eventhandler_linux.{h,cc}` | extended by the next two |
| `Sockets` | `socket_impl.dart`, `socket_stream_impl.dart` | with the event handler |
| `SocketsProofs` | | proofs about `Sockets`, for any use of handlers and for streams |
| `Timers` | `timer_impl.dart` | with the event handler |
| `TimersProofs` | | proofs about `Timers` |
| `Null`, `MapKeys` | | null; what a program puts into the hash maps |
| `HashMap` | `runtime/bin/hashmap.cc` | |
| `HashMapProofs` | | proofs about `HashMap` |
| `HashMapImplementation` | `corelib/src/implementation/hash_map_set.dart` | |
| `DartMapProofs` | | proofs about `HashMapImplementation` |
| `MCStructures` | instances of the hash tables and the message queue | for TLC |

An action is one critical section together with the code up to the next one; where one thread owns
the state, it is one call or one iteration of a loop.

**ThreadPool.** `Clients` are the threads in `Run`, `Workers` the `Worker` objects that may be
allocated, `Tasks` the tasks. `Run` is `RunRefused`, `RunNewWorker` or `RunIdleWorker` (the section
of `mutex_`), then `SetTask` and `StartThread`. `Worker::Loop` is `EnterLoop`, `FinishTask`,
`SetIdle`, `Wake...` (a notification, a spurious wakeup or a timeout) and `ReleaseIdleWorker`;
`Main` ends with `DeleteWorker`. The destructor is `Shutdown`, one `ShutdownWorker` for each worker
on the saved list, and `ShutdownDone`. A worker that calls into the pool holds its monitor, so no
other thread enters it at that point. `RunMayOverlapShutdown` says whether the destructor may start
while a call of `Run` is between its critical section and its return.

**PortTable.** The table is a function from indices to entries, `Search` the linear search of
`FindPort` and `CreatePort`, `Rehash` reinserts the entries in the order of the loop, and
`MaintainInvariants` is part of each action that ends with it. `ImplementsRegistry` maps a port to
the entry `FindPort` finds.

**MessageQueue.** `head_`, `tail_` and `next_` as in the code; `FlushTurn` is a turn of the loop of
`Flush`, `FlushLoop` all of them and `Walk` the loop of `FlushAll`: a list of distinct messages is
at its end after as many turns as there are messages (`Turns`, `ListBounded`). `fate` records what became of each message, which `Mailbox` also tracks.

**MessageHandler.** `pc[h]` is where the thread that runs handler `h` is: with the embedder, at rest
on the pool, in a start function, in `HandleMessage`, in the end callback, or shutting down.
`DequeueMessage`, `HandleMessages` and `FinishTask` are the parts of `TaskCallback`'s critical
sections; `opc[h]` is the nested `HandleOOBMessages` of a stack check. `flushing[p]` marks a
`PortMap::ClosePort` between its two critical sections. Posting is one action, as `PortMap` holds
its mutex across `MessageHandler::PostMessage`. A message is its posting number and its port; the
queues are sets in the order of that number (`MessageQueue` shows that the lists are FIFO). A
handled message of an isolate may fail, and so may a start function. Dart code opens and closes
ports and reads the getter `port` wherever `InDart` holds. Out-of-band messages go to isolates only:
`NativeMessageHandler::HandleMessage` is `UNREACHABLE` for them. After `exit(255)` the other threads
may still take steps, and nothing is required of them.

**Interrupts.** Words are numbers up to `AllOnes`; `requested` is the set of interrupts scheduled
and not yet delivered. The scopes are those of `isolate.h`, plus `Dart_EnterIsolate` and
`Dart_ExitIsolate`, which leave the limits alone. `BothPending` says whether interrupts of the two
kinds may be pending together.

**Heap.** Memory is words: addresses 1 to 2 * `Semi` are the two semi-spaces, then come places of
the old generation. An object is an identity (which stands for the bytes that `memmove` copies), a
size, its pointer fields, a forwarding address and a mark bit. The program (`Mutator`) allocates,
stores and loads through handles, and makes, copies and deletes handles of the three kinds. When
memory runs out, `Wait` records the request and the collections that `AllocateNew` or `AllocateOld`
starts, and `Retry` is what they do afterwards, up to `FATAL1`. A scavenge is `ScavengeRoots`
(prologue, flip and roots), `ResolveToSpace` and `PopFromPromotedStack` (the two inner loops of
`ProcessToSpace`), `ScavengeReferences` (a pass over the weak reference sets) and `ScavengeEpilogue`
(weak handles and the new `survivor_end_`). A mark-sweep is `MarkRoots`, `DrainMarkingStack`,
`MarkReferences` and `Sweep`. A prologue callback may register weak reference sets, and a finalizer
may delete its handle. `handle` and `field` are the `ObjectGraph` that the same calls build without
any addresses; `ShowsGraph` compares the two in every state, those in the middle of a collection
included. `StorePointer` fills a store buffer, but nothing reads it: `IterateRoots` visits the whole
old generation.

**PageSpace.** Memory is units of `kObjectAlignment`; page p starts at p * `Stride`. `block` is what
a walk over a page reads at each block start. `TryAllocate` is split by where it finds memory:
`BumpAllocate`, `FreeListAllocate`, `AllocatePage`, `AllocateLargePage` and `AllocationFails`.
`MarkSweep(live)` is the marking of any set of objects and the reset of lists and bump page; then
`SweepPage` handles one page at a time. `VisitObjectPointers` is the visitor of a scavenge, which
may allocate (promote) at each object it visits. Sizes are `Width`-bit signed words, so that
`LargePageSizeFor` can overflow. `used_` of a large page only grows and is never read; it is left
out.

**EventHandler.** `interrupt_fds_` is the pipe, `socket_map_` the `SocketData` of each descriptor,
`epoll_fd_` the kernel's interest list, `file` the state of open descriptors, `inbox` what was
posted to the isolate. `Poll` is `EpollReturns` (with `HandleTimeout`), a `HandleEvent` for each
event of the batch, one action for each kind of message in the pipe, and `EpollWait`. What the
kernel reports for a socket, a listening socket, the two ends of a pipe and stdin is `Happening`,
external and modelled from poll(2) as the code uses it. Port ids are never reused, so all closed
ports are one value.

**Sockets.** The methods of `_SocketBase` are functions of a socket that return the socket and the
messages they send; an action applies one and closes the receive port if the method did.
`_multiplex` is `Receive`, then one action for each event bit in the order of the loop, a
`HandlerReturns` for each handler called, and `MultiplexEnd`; between them handlers may do whatever
the program may do. With `Streams` the program sets and clears handlers as `_SocketInputStream` and
`_SocketOutputStream` do. The connect handler is an out handler. `close()` on a socket whose host
lookup is under way does nothing, and an out handler can still be called after `close()` in the same
`_multiplex`: both are in the model as in the code.

**Timers.** `_timers` is the ordered list, `pending_timers` the local list of `_handleTimeout`;
`CallPending`, `CallbackReturns` and `CallbacksDone` are its loop. The program may create and cancel
timers in callbacks and outside. An exception in a callback skips `_notifyEventHandler`; nobody
catches it and the isolate ends.

**HashMap, HashMapImplementation.** The arrays as functions, the hash of each key as an arbitrary
choice at the start, and the history `stored` (`_stored`) of what was last stored for each key. `CloseGap` is
the loop of `HashMap::Remove`, with the map and the gap after each turn of it; `probeForAdding`
prefers the first deleted slot.

## Runs

| Run | Result | Shows |
| --- | --- | --- |
| `thread_pool` | holds | no worker is used after deletion; accepted tasks run once, workers terminate, `TaskPool` is implemented |
| `structures` | holds | the port table is the map of `PortRegistry` and its searches end; the list implements `Mailbox`; both hash maps find what was last stored, and searches in the map of Dart end |
| `message_safety` | holds | no lost wakeup, one thread per handler, queues only for open ports, clean deletion, an isolate rests only with a live port, OOB messages have an interrupt |
| `message_liveness` | holds | OOB messages are served even if Dart code never returns, all messages if it does; ended isolates are deleted |
| `message_global_port` | **violated** | a class isolate that uses `port` counts its main port twice and never ends |
| `interrupts` | holds | interrupts of one kind at a time are not lost |
| `interrupts_both` | **violated** | two interrupts of different kinds can erase each other |
| `heap` | holds | the program sees the graph it built; what is kept is what is reachable; only dead objects are finalized; the to space suffices; each step of a collection brings its end closer |
| `page_space` | holds | blocks tile the pages, free lists and counters are exact, marked objects stay, capacity keeps its limit though sizes overflow, a small allocation fails only when it must, a visitor that promotes misses no object |
| `sockets` | holds | `epoll_ctl` never fails, a reused descriptor gets no command of its last owner, the end of the input is reported, no socket that waits is forgotten |
| `sockets_lost_error` | **violated** | the error of a broken pipe is posted to a port just closed, and its writer waits for ever |
| `timers` | holds | timers are called in order, the port is open exactly while timers are set, no wakeup is lost |

The violated ones are disagreements between the code and its comments, documentation or tests, which
`PROJECT.json` quotes under `findings`.

**Bounds.** `ThreadPool`: two callers, three workers and three tasks, so that a worker is reused,
times out and is replaced while another call is in progress, and no step waits for a `Worker` object
(52,042 states). `Structures`: one behaviour uses one of the four structures (42,800 states).
Initial capacity 4 and five ports are enough to grow once, to fill with tombstones and to flush
them; four messages for two ports put a removed message first, last, in the middle and next to
another; four keys with hashes from {0, 1, 3, 7} collide, wrap around the end of the table, and part
again when it grows. `MessageHandler`: three handlers of different kinds, three ports, two messages
(`MaxPosts`) and two run loops (`MaxRunLoops`): a message before, during and after a task, one of
each priority at the same time, and two for one handler (792,469 states); the liveness run has a
`spawnFunction` isolate, a native port and two ports. `Interrupts`: words of five bits with limits
at the edges; the proof covers the rest. `Heap`: two objects fill a semi-space and one or two the
old generation; four allocations, one strong, one weak and one prologue weak handle, and weak
reference sets that are absent, a chain that needs a second pass, or a cycle. A promotion succeeds
or fails, and a collection is followed by another (650,028 states). `PageSpace`: pages of five
units, at most three of them, two free lists, six-bit sizes: objects that fill a page exactly, leave
a remainder, need a large page, or overflow its size (404,218 states). `Sockets`: three descriptors
of which one is stdin, one socket that the program opens and one that is only accepted, two commands
in the pipe and one event in the inbox: a descriptor is closed and used again while commands and
events of its last owner are under way (854,216 states). `Timers`: three timers, delays 0 and 1, a
clock that stops at 2, a pipe of one message (518,625 states).

Deadlock is checked for the thread pool, the interrupts, the heap and the pages. Elsewhere the
program may fall silent, or the bounded supply of ports, messages or time is used up. Symmetry is
used for handlers, ports, keys and values, and never with a liveness property.

**Fairness.** In `ThreadPool` every thread that can move does; the threads that need the monitor of
a worker that keeps timing out get strong fairness, as each wait releases the monitor. Nobody has to
call `Run` or to destroy the pool, and timeouts and spurious wakeups are never owed. In
`MessageHandler`, `RuntimeFairness` covers the steps of the runtime, the start of accepted tasks
(the promise of `TaskPool`) and the stack checks of running Dart code, which the compiler emits at
function entry and in loops; `DartFairness`, that message handlers and start functions return, is
assumed by `MessagesServed` only. In `Timers` the event handler and the isolate go on, callbacks
return and time passes. `HandleInterruptFd` reads until the pipe is empty, so an isolate that always
has a next command ready could keep it there: `TimersFire` assumes that the pipe is empty again and
again, and `EpollWait` is strongly fair. `Heap` needs no fairness: `CollectionsEnd` is a measure
that each step of a collector decreases.

## Proofs

`ThreadPoolProofs` proves the safety properties of `ThreadPool` for any number of workers, callers
and tasks, assuming `~RunMayOverlapShutdown`, which `dart.cc` guarantees (it never deletes the
pool). Without it a task that `Run` has accepted may be lost: `Run` has taken an idle worker off its
list and not called `SetTask` yet, `Worker::Shutdown` wakes that worker, and it finds no task and
exits. The inductive invariant `IndInv` adds to the types: the lists have no repetitions and the
idle one is part of the other (`ListInv`); before, during and after the destructor the lists are
where they should be and no call of `Run` is under way (`PhaseInv`); a living worker with a `pool_`
is on the list that leads the destructor to it, and an idle one is parked without a task
(`WorkerInv`); the worker chosen by a call of `Run` is on the list of all workers, not idle, chosen
by nobody else and waiting (`RunInv`); and the statistics count the lists. None of the properties is
inductive without these: that a worker on the idle list is not deleted, for instance, rests on where
its thread is, and that on which call of `Run` has chosen it. There is one lemma for each action and
conjunct.

The same module proves the refinement: under the same assumption every step of the pool, seen
through `life` and `shutting_down_` alone, is a step of `TaskPool` or none of it. `TaskInv` says
where a task is in each part of its life: held by a call of `Run`, by one worker, or by nobody. That
no two workers hold the same task is what makes `Run` a step that starts a task at most once.

`DeliveryProofs` proves for every initial capacity and any number of ports and handlers that the
table is the map of `PortRegistry` (`TableRefinesRegistry`), that every search ends (`SearchesEnd`),
and that `used_` and `deleted_` count what they should (`CountersExact`). `TableInv` says that no
slot between the home of an entry and the entry is free, no id is stored twice, the counters are
exact, a slot is free, and every id is below `next_port_`. What a search returns and what `Rehash`
builds are recursive functions. Their values are reached without an induction rule: the set of
numbers up to which a claim holds contains 0 and successors, and a set of numbers without a least
element is empty (`LeastNat`, `SetInduction`, `RecursionExists` in `DataLemmas`, from the
well-foundedness of the naturals).

Its second half proves for any messages, finitely many, and any ports that the list of `MessageQueue`
is the FIFO of `Mailbox` (`QueueRefinesMailbox`). `QueueInv`: there is a sequence of distinct messages
such that `head_` points to the first, `next_` from each to the one behind it, `tail_` to the last;
the queued messages are those of the sequence, and a new one points nowhere, which the assertion of
`Enqueue` is about. In the middle of `Flush` the list is in two parts, and `Flushed` says how they hang
together after each turn: the messages kept so far, in order, then the rest from `cur` on, and `prev`
or `head_` is where the next one is linked. When `cur` is null the first part is the list.

`MessageHandlerProofs` proves the six safety properties of `message_safety` for any isolates, native
ports, port ids, messages and run loops. None is inductive alone. `ThreadInv` ties `task_`, `pool_`
and `start_callback_` to the place of the handler's thread; `PortInv` and `MainPortInv` say that an
id has one owner and then none, and that only a handler between its constructor and its shutdown
has ports; `CallInv` says that the thread in `HandleOOBMessages` or in the second half of `ClosePort`
is in Dart code and stays there; `NativeInv` says that a native port never shuts down. So a message
cannot reach a handler after the flush of `CloseAllPorts`, and no flush is under way when the
handler is deleted. `RunsWhileLive` also needs that `live_ports_` is the number of live ports
(`CountInv`), which is false for a class isolate that uses the getter `port`: the theorem assumes
`~PortInClassIsolate`, and the run `message_global_port` shows that it must.

`SocketsProofs` proves for any number of sockets and descriptors, any capacity of the pipe and any
use of the handlers that the event handler and the kernel agree (`EpollStaysInSync`) and that each
open descriptor has one owner and no command outlives it (`DescriptorsHaveOwners`). `SocketsInv`:
the owner of a descriptor is unique and has sent no close, a descriptor without an owner has a close
in the pipe, a close is the last command for its descriptor (`OwnerInv`, `CommandInv`); an event of
the current batch is for a `SocketData` that is tracked, and what is tracked is registered
(`EventInv`, `EpollInv`). A method of `_SocketBase` is abstracted to its outcome (`Outcome`: the
messages it sends and which fields it may change), proved once for each method and used for each
action that calls it.

The second half of `SocketsProofs` proves `EndIsReported`: if sockets are used through streams (`Streams`), the end of
the input that the event handler has seen is known to the socket, or an event that tells it waits or
is being handled. Its invariant `StreamsInv` follows the port of each socket through the pipe and
the `SocketData` (`PortInv`), the nested calls of `_multiplex` (`CurrentInv`) and, for each socket that
is read from, that its port stays open from the first command on, that it has a close handler
whenever it has any, and that the end which the event handler has seen is still to be told
(`StreamOK`). A program that sets only some of the handlers can lose the end; the stream classes set
the close handler before any other and never clear it, and this is the hypothesis. The steps are
reduced to the one socket they touch: `SameStream` and `SendView` say that the others keep what is
said of them.

`TimersProofs` proves for any number of timers and any capacity of the pipe that the receive port is
open exactly while timers are set (`PortTracksAlways`), that timers are called in order
(`FifoAlways`), that none is called early (`NeverEarly`), and that the wakeup of the first timer is
never lost (`WakeupAlwaysPlanned`). `PortsInv` adds to the first one that nothing is pending outside
of the callbacks. The order needs `ListsInv`: a timer is on one list, once, is running or neither,
and a timer on the list has a callback; without it a repeating timer that a callback set again could
be on the list twice. `TimesInv` bounds each wakeup time by the clock and the delay of its timer, and
says that a pending timer is due. The last theorem needs all of these: a command in the pipe or the
`timeout_` of the event handler is for the timer that is now the first, and the sleep that follows
from it ends in time only if the difference to the clock fits the int of `epoll_wait` (`DelaysFit`, a
hypothesis: `ToInt` makes a longer one negative).

`HashMapProofs` proves for any keys, values, hash function and initial capacity that the search of
the map of `runtime/bin` finds what was last stored (`MapFinds`), and that `occupancy_` is exact and a
place stays empty (`MapCounts`). `MapInv` says that the map is a `Table`: a key is there once, and no
place that its search meets before it is empty (`Between`, which goes round the end of the table).
The hard step is `Remove`. While it closes the gap the map is not a `Table`: an entry is there twice,
or the gap lies on the way to another one. `Shifted` says what holds after each turn of the loop: the
gap is the only place that may hide an entry, only from entries that the loop has not come to, and
without the gap nothing is lost. The condition of `Movable` is what carries this from turn to turn;
`GapLemma` shows that the loop ends at an empty place before it comes back, and `ShiftedEnd` that the
map is a `Table` again when the gap is emptied. The hypothesis is
`MapConstants`: hashes are unsigned, and the capacity is not 0.

`DartMapProofs` proves of the map of Dart that a lookup finds what was last stored (`DartMapFinds`),
and that the counters are right and a slot stays empty (`DartMapCounts`). That a search then comes to
it is `QuadraticProbing`: two of the first n probes are in the same slot only if n divides the
difference of two triangular numbers, which is half of a product of an even and an odd factor, and a
power of two cannot (`PowerOfTwo`: no odd divisor but 1; `Doubled` keeps it). `DartMapInv` says that no
slot on the way of a key is empty (`OnPath`), that `_numberOfDeleted` is at least the number of deleted
slots, which it exceeds when one is used again, and that entries and deleted slots together do not
fill the table. `EnsuresRoom` shows that `_ensureCapacity` leaves room for one more key in each of its
three cases, `GrowLemma` that rehashing keeps the entries and drops the deleted slots. The hypothesis
is `DartMapConstants`: null and the sentinel are no keys, and the initial capacity is a power of two
(`EightSlots` for the 8 of the code).

Assumptions of the proofs, besides the hypotheses above: descriptors are natural numbers, the initial
capacity and the first port id are not 0, an isolate is of one kind and is not a native port, and the
values that stand for "none" are not members of the sets they extend (`EventHandlerAssumption`,
`SocketsAssumption`, `TimersAssumption`, `TableAssumption`, `HandlerAssumption`, `MessageAssumption`,
`NoMessageAssumption`, `NullAssumption`, `QueueAssumption`). TLC evaluates all of them in the runs.

`MessageHandlerProofs` also proves for every word size and set of stack limits that `requested` is exactly
what the next stack check delivers, and that an overflow is never hidden, if interrupts of the two
kinds are not pending together. The invariant says which word stands for which request: a single
request leaves a low bit clear, so the word is neither a stack limit nor the all-ones limit of an
idle isolate. That is the step which fails for two requests.

Only model-checked: all liveness properties; `NotStalled`, whose invariant must follow the masks of
every kind of socket through the pipe; and the heap and its pages, whose reachability, folds over pointers and sums of
sizes need induction over data that the set form above does not make practical.

Proved and in no run: `TypeOK`, `OneTaskPerWorker`, `LoopAsserts`, `ExitingIsDisowned`,
`CountersAgree` and `PoolOutlivesUse` of `ThreadPool`, `OverflowIsNoticed` of `Interrupts`,
`CountersExact` of `PortTable`, `NotEarly` of `Timers`, `MapCountsEntries` of `HashMap`, and
`QuadraticProbing`; the proofs cover every instance.

## Not modelled

Contents of messages and their serialisation, Dart code beyond its effect on ports, handles, sockets
and timers, the embedder's message notification callback (it may do anything a posting thread does),
tracing output, and the components marked `not_modelled` in `PROJECT.json` with the reason. The
compiler, the parser, the object model, dart2js and the generated DOM bindings are most of the
repository's lines; they are sequential, and their correctness is relative to the semantics of Dart,
of which there is no formal definition here. The wrap-around of 64-bit port ids and counters is out
of any real run's reach.

In the modelled components these are left out: the code spaces (`PageSpace`s that are never
collected); the blocks of handles and zones; `SHUTDOWN_READ`, as `_closeRead` is never called; the
buffers of the streams; the event handlers of Mac OS and Windows; iteration over the hash maps.

No property says that `SetLive` finds its port.

Behaviours of the code that the models show or their constants exclude, without a run of their own:

- Port id 0 is the id of free entries and tombstones, so a search for it can find a tombstone
  (`port.cc:31`). The models use ids that were handed out.
- The live port of a native handler is never given back, so the handler is never deleted
  (`native_message_handler.cc:20`).
- A weak persistent handle of an object of the VM isolate, such as null, is finalized by the first
  mark-sweep, as such an object is never marked (`NullHandles`).
- `epoll_wait` takes an int: a timer more than 2^31 ms ahead gives a negative timeout (`ToInt`). The
  runs use delays that fit.
- Without a free descriptor, accepting a connection closes the server socket.
- `HashMapImplementation` does not subtract a deleted slot that is used again from `_numberOfDeleted`.
  The table is rehashed earlier than it need be; nothing else depends on the count.

## Plan

1. `NotStalled`: with what `StreamsInv` says, the masks still in the pipe and the kind of each socket.
2. Proofs about those invariants of `PageSpace` that need no sums.
3. The order of locks as a model of its own.
4. Message snapshots, asynchronous files, `Futures.wait`, the HTTP connection pool, and the event
   handlers of the other platforms.
