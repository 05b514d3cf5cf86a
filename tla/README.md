# myCommon: a TLA+ model of the common library

`src/common` is a C library for multi-threaded Linux programs: queues between
threads and processes, a module framework built on them, a JSON-RPC pair, a log with
a remote trace, a serial port, lists, and conversions between C structures and JSON.
This directory holds TLA+ models of its parts, the TLC configurations that check
them, and TLAPS proofs about fourteen of them. Line numbers refer to `src/common`.

## 1. Inventory

| Component | Files | State | Operations | Status |
|---|---|---|---|---|
| Slot queue | `comm_que.c` | ring of slots, cursors `write`/`read`, `fullCount`, `emptyCount`, mutex, two conditions, `isDestroyed` | Create, Delete, Clear, Get/Put Empty/Full, PeekFull, Put…Front, counters | modelled, proved about |
| Message queue | `msgqueue.c` | a slot queue of `T_Msg` | create, send, receive, release, destroy | modelled, proved about |
| Ring buffer, ring queue | `ring/` | growing byte ring: `r`, `w`, `full`, `capacity`, buffer, mutex, two conditions | read/write/peek/skip with and without exact length and timeout, cursor interface, reset, growth | modelled (`peek_back` is not), proved about |
| Thread-safe queue | `thread_safe_queue.c` | linked list, `size`, `is_destroyed`, mutex, condition | enqueue, dequeue (with timeout), find/remove by predicate, clear, destroy | modelled, proved about |
| Request queue | `request_que.c` | hash table under `table_mutex`, a thread-safe queue of pending requests, status/mutex/condition per request | submit, fetch, complete, wait, cancel, get_status, cleanup, destroy | modelled, proved about |
| Shared-memory queue | `shareMem/` | control block, semaphores and mutex in a SysV segment | Create, GetID, Get/Put Write/Read, Delete | modelled, proved about |
| RTOS emulation: message queues | `ctos.c` | table of 50 queues and list of queues under one mutex, two semaphores per queue | create, delete, claim, send, receive, release | modelled, proved about |
| RTOS emulation: clock, U64, lists, tasks | `ctos.c` | the caller's | task clock, 64-bit arithmetic, circular list, wrappers | modelled but for the wrappers; the arithmetic proved about |
| Module framework | `module_manager.c` | list of modules with handlers, next id, a message queue, `is_running` | register, (un)set handlers, send, main loop, stop, destroy | modelled, proved about |
| JSON-RPC client, service | `jsonrpc/` | socket, connected, request id; listening socket, a thread per connection, handler list | call, free; start, accept, receive, answer, stop, free | modelled (the handler list does not change), proved about |
| Log | `log/log.c` | current file, its directory, mutex, callback | init, write, rotate, move and clean up old files | modelled, proved about |
| Debug trace | `log/debugtrace.c` | server thread, client socket under a mutex, heartbeat time | init, destroy, trace, serve a client | modelled, proved about |
| List | `xlist.c` | head, tail, size, node links | push, insert, remove | modelled |
| Serial port | `uart/uart.c` | descriptor, mutex, receiving thread | init, deinit, read, write, settings | modelled but for the baud rates, proved about |
| JSON structures | `cjson/cjson_extension.c`, `JsonParse/`, `JsonEx.c` | none | structure to JSON and back by field tables, id lists | modelled, trees for texts |
| cJSON | `cjson/cJSON.c` (third-party) | trees of items | create, add, insert, detach, replace, duplicate, reference, delete | the tree operations |
| OS abstraction | `osal.c`, `tsk.c` | none | counters; wrappers of pthread calls | the counters |
| Utilities, `cJSON_Utils`, uthash | `common.c`, `defs.h`, `uthash.h`, … | | string and file helpers, macros; third-party | not modelled |

How they interact. `msgqueue.c` calls `comm_que.c` for slots and adds ownership
of heap bodies. `module_manager.c` uses message queues; handlers run as
callbacks of the receiving thread, and may call the framework again.
`request_que.c` keeps pointers to its requests in two places, the hash table and a
`thread_safe_queue`, and hands them to workers and clients as bare pointers.
`ring_queue.c` forwards to `ring_buffer.c`. `shareMem` shares its state between
processes, the rest between threads of one. The queues of `ctos.c` share one table and
one mutex, but no code with the other queues. `log_write` calls, under its mutex, the
callback `debugtrace.c` has registered, whose own thread logs too. JSON-RPC clients
and services talk over TCP and use cJSON trees, as do the field tables.

What is hard, and what each part must guarantee:

* A slot, a heap block or a request **leaves a structure in one critical section
  and comes back in another**; between the two somebody else runs. Nothing may
  be in two hands, counted twice, freed twice, or lost.
* **Waits**: conditions are signalled, not broadcast, waits time out and wake up
  spuriously, and some waits test their condition with `if`. No wakeup may be
  lost, nobody may sleep on a condition that holds.
* **Ends**: delete, destroy, clear, stop and cleanup race calls in progress. Blocked
  callers must be released, what is queued must be freed once, loops must end.
* **Processes die** between two steps of the shared-memory queue, between two lines of
  the log, and between two answers of the JSON-RPC service.
* **Counts kept apart from what they count**: the `ctos` semaphores are waited
  for and posted outside the mutex of the table; nobody they let through may find
  nothing, and nothing may stay behind uncounted.
* **Re-entrance**: handlers register modules and handlers in the list that is being
  traversed to call them; a thread logs while it serves the trace of the log.
* **Answers that are not matched** with their requests: a JSON-RPC client takes what
  comes next on its connection.
* **Two mutexes** and a blocking send below them in the log and its trace.
* **Wrap-around** of cursors, with `r = w` meaning empty or full, and growth while
  the contents wrap; of the task clock, whose modulus is not that of its arithmetic;
  of 32-bit words that make 64-bit numbers.
* **Pointers**: lists and trees whose links go both ways.

`PROJECT.json` lists these at their lines under `hazards`, with the property
that covers each.

## 2. Modules

| Module | Models | Abstract specification it implements |
|---|---|---|
| `CommQue` | `comm_que.c` | `SlotPool`: two queues of slots, as `comm_que.h` describes them |
| `MsgQueue` (composes `CommQue`) | `msgqueue.c` | `Fifo`: a bounded queue whose reader works in place |
| `RingBuffer` | `ring/ring_buffer.c`, and `ring_queue.c` through it | `ByteFifo`: a sequence of units |
| `ThreadSafeQueue` | `thread_safe_queue.c` | |
| `RequestQueue` (composes `ThreadSafeQueue`) | `request_que.c` | |
| `ShareMemQueue` | `shareMem/share_mem_queue.c` | `DurableFifo`: an element stays until it is confirmed |
| `Ctos` | the message queues of `ctos.c` | `MessagePool`: queues with a fixed stock of elements, opened and closed atomically |
| `ModuleFramework` | `module_manager.c` | |
| `JsonRpc` | `jsonrpc/jsonrpcClient.c` with `jsonrpc/jsonrpcService.c` | |
| `DebugTrace` | `log/debugtrace.c` with the locking of `log/log.c` | |
| `LogFile` | the files of `log/log.c` | |
| `XList`, `OsList` (over `Links`; together `Lists`) | `xlist.c`, the list of `ctos.c` | sequences, as action properties |
| `JsonTree` | the tree operations of `cjson/cJSON.c` | lists of children, as an invariant over all operations |
| `JsonStruct` | `cjson/cjson_extension.c`, `JsonParse/`, `JsonEx.c` | |
| `OsNumbers` | U64 and clock of `ctos.c`, counters of `osal.c` | integers, as a reference |
| `Serial`, `UartSettings` | `uart/uart.c`: its threads, and the settings of the line | |
| `CommQue_proofs`, `MsgQueue_proofs`, `RequestQueue_proofs`, `ShareMemQueue_proofs`, `ModuleFramework_proofs` | theorems about the module named | the refinements of `SlotPool`, `Fifo` and `DurableFifo`, and that `MsgQueue` keeps the rules of `CommQue` |
| `Ctos_proofs` | theorems about `Ctos`, `OsNumbers` and `Lists` | the refinement of `MessagePool` |
| `BlockingQueues_proofs` | theorems about `RingBuffer` and `ThreadSafeQueue` | the refinement of `ByteFifo` |
| `Services_proofs` | theorems about `JsonRpc`, `DebugTrace`, `LogFile`, `Serial` and `UartSettings` | |
| `MCLibrary` (extends `Lists`, `LogFile`, `Serial`, `UartSettings`) | these with `JsonTree`, `JsonStruct` and `OsNumbers`, side by side | |
| `MCBlockingQueues` (extends `RingBuffer`, `ThreadSafeQueue`) | the two side by side | |
| `MC…` | instances for TLC | |

Conventions common to all of them:

* **A critical section of the code is one action**; everything between two
  critical sections is a place where others run. A thread that blocks in
  `pthread_cond_(timed)wait` has left its critical section: it is *waiting*,
  then *woken* (signalled, mutex not yet taken), and its resumption is an action
  of its own that re-tests exactly what the code re-tests.
* `pthread_cond_signal` moves one waiting thread to woken, any one;
  `broadcast` moves all. A signal nobody waits for is lost. Spurious wakeups are
  actions. A wait with a deadline may time out at any moment.
* A call that returns at once without changing anything is a stuttering step.
* Variables and actions keep the names of the fields and functions they model. Modules
  that are extended together say which they mean where a name would be in both
  (`QSpec`, `TraceSpec`, `FilesSpec`, `PortSpec`; `trace_bTskDone`).
  `PROJECT.json` maps each definition to its lines.
* Definitions marked `fault:` are wrong versions of the action that follows
  them. No specification uses them; each shows, put in the place of the right
  one, that a property notices the mistake.

### CommQue

State: the two cursors, the two counters, `isDestroyed`; per thread where it is
and which slot it holds. A `Put` ignores the element it is given, as in the
code: which slot becomes full is decided by the cursors. `Clear` broadcasts
`cond_empty` only. `CommQue_Delete` is two actions, the marked-and-broadcast
section and the free after the 5 ms sleep; the constant `SleepSuffices` says
whether the sleep outlasts the woken threads.

Client rules of `Spec`: the Front operations give back a slot to the queue it
came from, and `Clear` is called while no slot is out. The run has one consumer, so
that what a second one does to a slot that is being peeked at is not covered, and
takes the 5 ms to suffice.

### MsgQueue

A slot holds a body pointer and the rest of the message, copied in two steps, so
that a half-copied message is a state. Bodies are heap blocks with a live set:
who may free each one is a property. `msg_queue_destroy` is the drain (take,
free, put, one message at a time) followed by the `CommQue` delete. Client rule:
destroy is called when no send is in progress and no receiver holds a message;
receivers may be blocked.

### RingBuffer

Sizes are counted in units (the element size of a ring queue). All four read and
both write operations are one action each for their body, reached directly or
after a wait; the wait is tested with `if`, so the body runs in whatever state it
finds. The cursor interface is the client's copy, which computes the cursor, and
the later `set_*_cursor`. Growth moves the contents to the front of the new
buffer, whose tail is `Junk`. `ring_buffer_ensure_write_space` takes no lock of its own:
a client that calls it has to see to it that nobody else is inside the ring.

Two client disciplines, chosen at the start by the variable `careful`: `CarefulNext`
keeps clear of the two deviations of section 5 (filling the ring with a copying write,
moving the read cursor of a ring that grows); `AnyNext` has all operations.

### ThreadSafeQueue

The list of heap blocks, the state of each block, the waiting threads, and what
each thread took. `queue_clear` frees data, as the code does. `RemoveWildcard` takes any
set of listed blocks and keeps the others in their order (`Keeps`).
`queue_destroy` marks the queue and wakes all in one critical section, and then destroys
the mutex and frees the queue without waiting for anyone: `DestroyFree` has no guard but
the order. A thread that was woken and has not yet run then locks what is no more
(`DequeueUsesFreed`: it returns NULL, or never).
Client rule: no call begins once the queue is freed.

### RequestQueue

`async_request_submit` is two steps (table, then pending queue), as are fetch
(dequeue, then status) and every call that begins with a look-up (look-up under
`table_mutex`, then work under `req_mutex` through a bare pointer). The unlock at
the end of a wait is a step of its own, since cleanup reads `bNeedFree` without
that mutex. Cleanup visits requests one at a time with `table_mutex` held.

`CleanupFrees` frees whatever has `bNeedFree` set, whoever uses it, and the constant
`FreshFlag` is what `malloc` may leave there. `undefined` becomes true with the first use
of freed memory: a step with a pointer to a freed request (`UsesFreed`), or the free of a
request whose mutex or condition somebody is using. What follows is not modelled.

Two client disciplines, chosen at the start by the variable `rules`. Under `"any"` clients
submit, wait, cancel, query and clean up at any moment, and requests expire. Under
`"careful"` no request has a timeout and none is cancelled; the cleanup is called when
every request in the table has been seen to be done and no client is in a call, and the
queue is destroyed when besides nothing is pending and no worker is in
`async_request_fetch`. Neither restricts what the calls do: wakeups may be spurious and a
fresh `bNeedFree` may hold anything. Under both a request has one waiter at a time.

### ShareMemQueue

The segment's life (absent, blank, published, ready, torn), the control block,
the semaphores, whether a dead process left the mutex locked, and where each
process is: every step of a call is an action, since another process may run, or
this one die, before the next. A segment is published when `isValid` is set and ready when
the mutex and the semaphores have been initialised, and a process may open it from
`shmget` on. Until then the semaphores are zeros, which make everybody wait;
initialising one forgets who waits, and whoever had gone to sleep sleeps on (`SyncDone`,
`"asleep"`).

Client rule: the creator deletes when nobody else has a handle; others may be about to
get one. Anyone else may delete, that is make invalid, at any moment.

### Ctos

State: the table entries (`Memory_p`, `Used_p`, `Pending_p`), the set of queues in
the list, each queue's `Index` and two semaphores; per task the call it is in, the
queue, and the element it holds. Create and delete are two critical sections each,
with other tasks in between; delete also zeroes the semaphores first, without the
mutex. Claim and receive are a wait and then a critical section, send is a critical
section and then a post. A wait gives up while its count is zero: any timeout, or
none, is one of its behaviours. The order of the list is never used except to
search it, so it is a set; `Index = QUEUE_NB_MAX` is `TableSize`. Creating with a
full table changes nothing.

`Index` is set within the critical section, where the code sets it just after; nobody
reads it in between.

Client rules: a queue is used once create has returned it, and is deleted by one
task while no other is in a call on it or holds an element of it.

### ModuleFramework

State: the list of modules, head first; the id and the handlers of each; the message
queue as the sequence it implements for one sender at a time (`MsgQueue`); where the
main loop is, the module and message it is at; the module whose init function each
thread is in; the message a blocked send holds. A message has two types, the one it was
sent with and the one it arrives with. `served` and `due` record which modules' handlers
were called for the message and which have one for the type it was sent with; they
decide nothing.
Registration is two actions with the module's init function in between, and a send to
a full queue blocks. Handlers and run functions return when the loop's thread is back
from what it called; meanwhile they may register modules and handlers, switch
handlers, send and stop. `Cast` is what becomes of the `T_ModuleMsg` that
`framework_send_message` hands to `msg_queue_send`: its type and data are not copied,
and what arrives is of type 0.

Client rules: two threads, the loop's and `app`; one registration at a time; while the
loop runs, `app` sets handlers of a module in that module's init function only (the table
of handlers is reallocated without a lock while the loop searches it); a send
from a callback does not wait; start before stop; destroy after the loop has returned.

### JsonRpc

State: of each client where its call is, its connection, the id it asked with and the
id of the answer it got; of each connection whether it is in the backlog, open or
closed, whether the client holds its end, and the messages on their way in both
directions; of the service the main loop's place, the listening socket (`"stale"` when
the number outlives the socket) and where the owner is. Every failure a call handles
is an action. `ServeCrashes` is the outcome of the double free of an id (section 5)
that kills the process. An answer may be refused because it is too long: it is then not
one read of a length but several (`Refused`, the answer's own and `BodyReads` more that
the client makes of its body), each of which fails a call without giving the connection
up. `spoilt` records the connections this has happened on.

Client rules: those in the head of the module. The handler list is filled before
start; a request is answered whether or not its method is found.

### DebugTrace

State: the two mutexes by holder, where each thread is in `log_write`, whether the
callback is registered, where the server's thread is, the client it serves and how
long it has been silent, and of each client its connection, whether there is room in
its receive buffer, and what it has sent. The owner and the server's thread log as
well, at the points of the code where they do; a step that logs leaves the thread at
the beginning of `log_write`. `TraceSends` blocks while a live client has no room.

Client rules: nobody is between the test of the callback and the return of
`log_write` when it is unregistered; the interface exists and the port is free.

### The modules of MCLibrary

These parts share no state, so one run checks them: a behaviour is one of a single
part, chosen at the start by the variable `part`.

* `XList` and `OsList` keep the links of every node; `Walk`, in `Links`, follows them
  as the loops of `xlist.h` and `ctos.h` do, and meets garbage where the links are
  wrong. The property compares the list read along `next` and along `prev` with the
  sequence the operation's name promises.
* `JsonTree` has one variable, the heap; each cJSON operation is a function from heap
  to heap, composed the way the code composes them. References share the child list
  of another item; `Sound` says what every operation leaves true of live items, and
  `LikeForest` compares lists of children before and after each possible call.
* The lists, `LogFile` and `Serial` are extended and not instantiated, so that the
  theorems and the run speak of the same definitions. `LogFile` maps each name
  to its lines and the time of its last line. A process starts, writes, rotates and
  dies; renames and removals may each fail.
* `Serial` is the receiving thread, a writer and an owner that opens and closes.
* `UartSettings` has no variables: `ConfigUart` maps the flags that are set to those
  that will be.
* `OsNumbers` and `JsonStruct` have no variables. Two words, a clock reading and
  their operations are compared with integers; structures, media descriptions and
  lists of ids are sent to JSON and back. An integer field is the four bytes at its
  place: `ServiceType`, one byte, is read and written with the three that pad it.
* What the conversions promise is claimed within limits that the properties name, and
  section 5 says what happens beyond: an interval is exact while the clock does not start
  again, a deadline while it lies below the modulus; a structure comes back if its table
  has room for its strings (`Roomy`), an id if it is at most `INT_MAX`; odd and even parity
  if there was no mark or space parity.

## 3. Runs

| Run | Instance | Shows |
|---|---|---|
| `CommQue_spsc` | 1 producer, 1 consumer, 3 slots, fair | Slots are conserved, cursors and counters agree, no wakeup is lost, no slot is in two hands, also while peeked at; the ring refines `SlotPool`; blocked threads are served, or released by a delete |
| `MsgQueue_spsc` | 1 sender, 1 receiver, 4 bodies, 2 slots, fair | Each body has one owner and is freed once, also by destroy; the queue refines `Fifo`; what is sent is consumed |
| `BlockingQueues` | the ring: capacity 4 growing to 5, transfers of 1 and 2 units, 2 values; the list: 3 threads, 3 blocks, fair | Under the careful rules the ring refines `ByteFifo` across wrap, growth and reset; under either rule nobody sleeps on a ring that is ready for him. The list loses no wakeup and each block has one owner; no element is left behind while a thread is in dequeue, however many time out or overtake |
| `RequestQueue_rules` | 2 clients, 1 worker, 2 requests, any fresh `bNeedFree`, both disciplines, fair | Careful clients never meet freed memory; under either discipline, unless freed memory is used, each request gets done and each wait returns |
| `ShareMemQueue_spsc` | writer, reader, third process, 2 elements, 2 values, 2 crashes, fair | Semaphores never promise what is not there; reader and writer are never in one cell; elements are read in order and survive a reader's death; nobody gets past a semaphore that is not there yet or no more |
| `ShareMemQueue_open` | the same | *violated*: who has passed the test of `isValid` finds the mutex and the semaphores initialised |
| `Ctos_queues` | 3 tasks, 3 queues, 2 table entries, 2 elements, symmetric | Table, list and queues agree while queues come and go; semaphores account for every element and message; elements have one owner; the queues refine `MessagePool` |
| `ModuleFramework_loop` | 2 modules, 2 types, queue of 2, 2 registrations, fair | Ids stay unique; a message calls only modules it is for, each once, and all that have a handler for it if its type arrives; stop ends the loop; a sender that waits gets room |
| `JsonRpc_session` | 2 clients, 2 calls, 2 connections, 2 starts, refused answers of 2 reads, fair | A call returns the answer to its own request, on every connection without a refused answer; every call and every stop returns |
| `DebugTrace_log` | 1 logging thread, server, owner, 2 trace clients, `Timeout` 0, fair | A line goes to an open socket only; every `log_write` and `debug_destroy` returns, and a silent client is dropped |
| `Library_parts` | 4 list nodes; 4 JSON items and 1 key; 4 lines, 4 seconds, logs of 1 line kept for 1 second; 6 bytes, 2 lost descriptors; words of 2 bits, clock of 4 seconds of 3 ticks; the field tables | Lists behave like sequences; trees stay sound; no line of the log is lost or doubled; bytes arrive in order; conversions are exact within their limits |
| `MsgQueue_two_senders` | 2 senders | *violated*: a receiver gets a half-copied message |

**Bounds.** The queues treat their slots alike, so what matters is that the
cursors wrap, that the queue is empty, full and in between, and that two threads
compete for the last slot: two or three slots and two threads do all of
it, and the proofs of section 4 lift what is shown of safety to all sizes.
Four bodies let a body be reused after its slot has come round. The ring's
capacity 4 and 5 with transfers up to 2 gives contents that wrap at each place,
growth with wrapped contents, and both odd and even sizes. Three threads in
`ThreadSafeQueue` are a producer overtaken by two consumers. Two requests let one
be cleaned while the other is in use, and two clients let one wait while the other
cancels or cleans up; each request is submitted once. Three
queues on two table entries let an entry be reused while its last owner is still
being unlinked, and three tasks let one create, one delete and one use a queue at
a time. Two crashes let a process die, be restarted, and die again, or two processes die.

Two modules are a list with a first and a last, one of which is registered while
messages to the other are being handled, and a queue of two is full with one message
being processed and one queued. Which of two free blocks a new module gets makes no
difference, and the run takes the first (`FirstFree`);
handlers for a type no message arrives with are never called, and the run does not switch them
off (`OthersStayOn`). Two calls let a client fail, connect
again and succeed, or two clients wait at once; two connections let one be left in the
backlog of a service that stops, and two starts let a stop be followed by another start.
Two trace clients are one that is served and one that waits, `Timeout` 0 lets a client be
both in time and late. Four nodes give every operation on a list a neighbour on each
side, and four items a tree of three levels or three brothers. The log's four seconds
let a line get older than the time it is kept, four lines two rotations and a restart.
Two-bit words make every carry, borrow, overflow and sign bit occur for all pairs of
64-bit numbers below 16, and a clock of four seconds wraps several times.

The proofs also lift what `ModuleFramework_loop`, `JsonRpc_session` and
`DebugTrace_log` show of safety to all sizes, and of `Library_parts` what it shows of
the lists, the log and the serial port.

**Deadlock** is checked in `Ctos_queues` only. Elsewhere a program may stop
calling, a queue may be deleted, a framework destroyed, a service die; the
components that only compute take no step at all. That nobody blocks who should not is
what the liveness properties say.

**Fairness.** A thread that has been signalled gets the mutex (weak fairness of
the resumptions: POSIX mutexes are eventually released, as each critical section
ends). Strong fairness stands where threads compete for a step that others can
disable for a while: taking the mutex on the way to a Put, `req_mutex` while
another thread is leaving it, the log's mutex and the trace server's, and the slot a
blocked `framework_send_message` waits for. The consumer, receiver, worker or reader
is assumed to keep asking: the service loops of `module_manager.c` and of
`test_async_queue_final.c` do. Callbacks of the framework return (strong fairness: not
while they are in a registration), its loop and the loops of the JSON-RPC service and
the trace server take their next step, TCP delivers to a connection that is open and
reports one that is closed, and a trace client reads what it is sent or leaves (without
this a client blocks every thread that logs, see section 5). Nothing assumes that
producers or clients call, that waits time out, that handlers send, that spurious
wakeups occur, or that anything fails. In `ShareMemQueue` a writer is only assumed to
finish the call it is in.

**Symmetry** is used in `Ctos_queues`, where no property names a task or a queue and
none is a liveness property.

**Mutants.** Each property of each passing run is shown to notice a plausible mistake:
`PROJECT.json` names, for each, the action and the `fault:` definition that TLC finds
the property violated with. The two violated runs need none: the code is the mistake, and
the findings of `PROJECT.json` quote what it contradicts.

## 4. Proofs

`CommQue_proofs` proves, for any finite sets of producers and consumers, any
number of slots and either value of `SleepSuffices` (the assumption
`CommQueAssumption`, nothing else):

* `Invariance`: `Spec => []IInv`;
* `TypeCorrect`, `SlotsConserved`, `CursorsStayTogether`, `WakeupsSuffice`: the
  first is a premise of, and the others are, invariants of run `CommQue_spsc`;
* `SlotsExclusive`: with one producer and one consumer no slot is in two hands;
* `RefinesSlotPool`: with one producer and one consumer `Spec => ImplementsSlotPool`.
  Here `Roles` and `Window(p, c)` join `IInv`.

None of these invariants is inductive alone. `SlotConservation` counts threads by
`pc`, and `Clear` is only allowed when no slot is out, so `SlotsOut` must tie
`slot` to `pc`. `NoLostWakeup` says that while somebody sleeps on a condition, at
least as many threads have been woken as there are slots to take. A signal wakes
one thread per slot put; a woken thread that takes a slot lowers both numbers; a
woken thread can go back to sleep only if there is no slot. Deletion is where the
argument would break, a woken thread leaving without a slot, and `DestroyedQuiet`
(nobody sleeps on a destroyed queue) closes it. `IInv` is the conjunction of type
correctness, these two, and the three properties. The step lemmas are one per
action, the ring arithmetic is in lemmas about `Between`, and counting threads
rests on `FiniteSetTheorems`.

`SlotsExclusive` follows: with at most one slot out per side, the two cursors and
the two counters determine where each one lies. So does the refinement: the slots of
each of the pool's queues are those between the cursors, and because the slot a Put
publishes is the only one out, it is the one the caller holds. With two producers
this is false (section 5), and the theorem has to exclude them.

`MsgQueue_proofs` rests on `MsgQueueAssumption`, which bounds nothing but the number of
slots from below, and proves

* for any numbers of senders and receivers `TypeCorrect`; `KeepsSlotQueueRules`, that
  `Spec` implies the specification of `CommQue` with its client rules, and from it and
  the theorems of `CommQue_proofs`, for finitely many, `SlotQueueKeepsFaith`: slots are
  conserved, cursors agree with counters, no wakeup is lost;
* for one sender `s` and one receiver `r` (the hypothesis `Single(s, r)`) `Invariance`;
  `BodiesOwnedOnce`; `RefinesFifo`, `Spec => ImplementsFifo`; and `MessagesComplete`,
  which is what the run `MsgQueue_two_senders` finds violated with two.

`EveryBodyOwnedOnce` counts owners and says nothing of where a body lies. `IInv` says
that. `Window` places the slot being read just behind the read cursor, the slot being
filled just before the write cursor and the queue between them, so that copying into
one disturbs no other. `QueueFilled`, `SenderOwns` and `TakerOwns` say that each message
in the queue, in the sender's hand and in the receiver's is allocated and different from
the rest, `NothingLeaks` that no allocated body is anywhere else. `Places` is about
destroy: the owner drains the queue as a receiver would, which is right only because
the receiver is then out or asleep on an empty queue. The refinement maps the queue to
the slots of the window; the abstract enqueue is the Put of the slot, not the copying.

`ShareMemQueue_proofs` proves, for any finite sets of writers, readers and other
processes, any number of elements and of crashes (`ShareMemQueueAssumption`):

* `Invariance`; `TypeCorrect`; `NobodyPastUnready`; `SemaphoresKeepPromises`;
* with at most one writer and one reader (`Single`) `PointersApart` and
  `RefinesDurableFifo`, `Spec => ImplementsDurableFifo`.

`Promises` is the heart of `IInv`: what the semaphore `notEmpty` counts, together with
the calls that have taken from it or have yet to post to it, is at most `elementCount`,
and the same for `notFull` and free cells. A crash takes a process out of such a place
and never adds to either side; without crashes both are equalities. `Phases` says that
there is one creator and how far it is. Others may be in a Get before it has initialised
the semaphores; that these are zeros until then (`Attached`) is what keeps them from
getting past, and `ShareMemQueue_open` shows that nothing else does. `Cursors` ties the indices to the count; with one process per side the
pointer in its hand is its index (`PointersAreIndices`), whatever died before. That the
sets are finite is an assumption because the invariant counts processes; a machine has
no other.

`RequestQueue_proofs` proves, for any clients, workers and requests
(`RequestQueueAssumption`):

* `Invariance` and `TypeCorrect`, under both disciplines;
* `CarefulSafe`, `Spec => []CarefulClientsAreSafe`, whatever `create_request` leaves in
  `bNeedFree`;
* `FetchMissesNone`: for a finite set of workers, the `NoLostWakeup` of the pending
  queue inside the request queue.

`Placement` carries most of it: a request that is not completed is with the client that
submits it, once in the pending queue, or with one worker. `Progress` adds, for careful
clients, what its status is in each of these places, so that one that is done is in none.
`Memory` says that the table owns what is allocated and that every pointer leads into the
table; the steps that could break it are the free of cleanup and that of destroy, and
`Cleanup` and `Shutdown` say what these find: clients that are out of every call, and a
table in which every request is done, so that neither the queue nor a worker has one of
them. Since this is about the status, `bNeedFree` may be anything, and waits may return
early as they like.

`Ctos_proofs` proves, for any finite set of tasks, any set of queues and any sizes
of table and queues (`CtosAssumption`):

* `Invariance`: `Spec => []IInv`;
* `TypeCorrect`, `ElementsConserved`, `SemaphoresAgree`, `TableStaysConsistent`: the
  type invariant and the three invariants of run `Ctos_queues`;
* `RefinesMessagePool`: `Spec => ImplementsMessagePool`, with no further hypothesis.

Here `IInv` is the four invariants and `TasksOK`, which says where a task can stand:
it holds one element exactly while it is between claim (or receive) and send (or
release), its queue has a table entry unless it is unlinking it, and a task that
creates or deletes a queue is alone with it. They need each other. That
`claimSem` stays within `NoElements` when an element is released needs
`SemaphoresCount`; that a sent element is not already pending needs
`ElementsOwnedOnce`; that a step on one queue leaves the others alone needs
`TableConsistent`, which makes `Index` injective on living queues. The proof goes
action by action: the lemmas named `Step…` put together the calls on a queue, one
part of `IInv` at a time, and a lemma `…Keeps` for each step of create and delete
covers all of `IInv`.

`ModuleFramework_proofs` proves, for any sets of modules and types and any lengths
(`FrameworkAssumption`):

* `Invariance`: `Spec => []IInv`; `TypeCorrect`;
* `IdsNeverRepeat`, `DeliveryIsExact`: the two invariants of run `ModuleFramework_loop`.

`IdsUnique` needs `ListOK`: the ids of the list lie below `next_module_id`, which is the
id of the module whose init function runs, so a failed init gives an id back that
nobody else has. `TypeOK` needs `LoopOK`, since the successor of a module that has left
the list would be anything: `current` stays in the list because modules only leave it
when the loop is out. Delivery is the argument about a list that changes under its
traversal: `DeliveryOK` says that the modules called so far stand before the module
the loop is at, and those that are due at or after it. A registration adds in front,
so both stay true; moving on to the successor skips nobody (`NextIs`); at the end
nobody is left to stand after. That a message for one module reaches no other rests
on the uniqueness of ids. `due` goes by the type the message was sent with: that all of
`due` is reached is proved for messages that arrive with that type; of the others it is
false (section 5).

`Services_proofs` proves of `JsonRpc`, for any number of clients, calls, connections and
starts (`JsonRpcAssumption`), `Invariance`, `TypeCorrect` and `AnswersMatch` from an
invariant of the connections: on the connection of a connected client there is at most
one message, the one it waits for, and none while it does not wait, unless a refused
answer has come on it. A call that fails to send or to receive sets `connected` to false
before it returns, so what it left behind is on a connection the client does not use
again. A call whose answer is refused (`jsonrpcClient.c:99-102`) does not, so that
the statement excludes the connections in `spoilt`, on which later calls do get the answers
of earlier ones (section 5).

Of `DebugTrace` it proves, for any number of threads, connections and any timeout
(`DebugTraceAssumption`), `TraceInvariance`, `TraceTypeCorrect` and `TraceSocketOpen`. A
sender holds the mutex of the server, and `client_socket` is set and cleared under it
only; from accept to close the connection of the served client is closed by nobody else.

Of `LogFile`, for any number of seconds, lines, lines to a file and seconds they are
kept (`LogFileAssumption`), it proves `FilesInvariance` and `LogLinesKept`. That each
line is in one file and in order is not inductive: it has to hold of old lines as well
(a cleanup removes whole files, so every line of a file must be known to be no younger
than the file), and a rename must not find its target taken. `LinesKept` says that a
file was last written to when its last line was, or later, and that files share no
line; `OnePlace` that no log is both where a start made it and where a later start will
move it, which is what makes that move safe. Rotation is kept safe by its guard alone,
the client rule of one rotation to a second. `Renamed` covers
cleanup, move and rotation at once: files may take new names or, when old, none.

Of `Serial`, for any number of bytes and openings (`SerialAssumption`), it proves
`PortInvariance` and `BytesInOrder`. `PortInUse` ties the descriptor and the mutex to the
owner, the receiving thread and the writer: only a joined thread and an idle writer let
the owner close. Of `UartSettings` it proves `SettingsTakeEffect`, for every set of flags
and every width, number of stop bits and parity: the line has what was asked for, odd and
even parity provided `CMSPAR` was not set, and a second call changes nothing.

`BlockingQueues_proofs` proves of `RingBuffer`, for any capacities, sizes of a transfer
and set of values that is not empty (`RingBufferAssumption`),

* for any numbers of readers and writers `Invariance` and `TypeCorrect`;
* with at most one reader and one writer (`Single`, our condition: the header says no more
  than thread-safe)
  `NeverSleepsReady`, under both disciplines, and `RefinesByteFifo`, `Spec =>
  ImplementsByteFifo`, which speaks of the careful one.

`NoSleepOnReadyRing` needs `Single`: one signal wakes one thread, and a large write
may leave room, or units, for two. The refinement needs to know what is in the
cells outside the contents, since the cursor interface fills cells first and publishes
them later: `Filling` says that the cells behind the write cursor which a writer has
filled are free and hold what it wrote, `Reading` that what a reader has looked at is
still at the front, `NoWriteWaits` that under the careful rules no writer sleeps, and
`Ring` that `full` implies equal cursors. `J` puts them under the condition `careful`. The
arithmetic is in lemmas about `Plus`, the cell so many cells behind another, which
replace the remainder by one subtraction; growth keeps the contents because they are
moved to the front of the buffer unit by unit.

Of `ThreadSafeQueue` the same module proves

* for any threads and blocks `QInvariance` and `BlocksOwnedOnce`: `Owned` says that each
  block is listed once or held by one thread, or neither, and live in the first two cases
  only; a thread inside a dequeue holds nothing, and a destroyed queue lists nothing;
* for a finite set of threads `NoWakeupLost` (inside the request queue it is
  `FetchMissesNone`). Finiteness is needed to count the threads
  that wait and those that were woken; a machine has no other.

Of `OsNumbers`, `Ctos_proofs` proves

* `WordsCompute` and `WordsCompare`: sums, differences, products, quotients and
  comparisons of two-word numbers are those of the numbers, modulo the square of the
  word's range. The hypothesis `EvenWords`, that 2^`WordBits` is even, stands for
  `WordBits` > 0; that powers are even is an induction. `CarryExact` is the point where
  it matters: the code finds the carry in the top bits of the words and of their sum;
* `IntervalsExact`: a time plus an interval of less than half of `TIME_CLOCKS_MODULO` is
  after the time, and the difference of the two is the interval;
* `ReadingsExact`: `ClockExact` of every two readings. The later one is after; the interval
  is exact if the clock has not started again in between; a deadline is never later than
  asked for, and exact if it lies below the modulus. A reading is the remainder of the time
  by `Epoch` (`ReadingIs`), and the moduli differ by a second.

Of the two lists the same module proves `ListsKeepSequences`, `ListSpec /\ RingSpec =>
ListsAreSequences`, for every finite set of nodes (`NodesAssumption`, `EntriesAssumption`;
NULL, and the head, are no nodes). The invariant
(`ListInv`, `RingInv`) says that there is a sequence without repetitions that both kinds
of links follow: that nothing is met twice is what ends a loop, since a sequence of that
kind is no longer than there are nodes (`ListIsShort`). Both lists are the same
`Linking`, past whose ends lies NULL in one and the head in the other, so `LinksIn` and
`LinksOut`, what links to and from neighbours do to the sequence, are proved once.
`WalkMeets` takes the place of an induction along the list: the function that `Walk`
defines by recursion exists, because the sequence gives one, and if it were another there
would be a first place where it differs.

Only model-checked:

* Liveness (`WaitersServed`, `SentIsConsumed`, `NobodyWaitsForever`, `WrittenIsRead`,
  `FrontIsTaken`, `StopEndsLoop`, `SendersServed`, `CallReturns`,
  `StopReturns`, `NobodyStalls`), which is out of the prover's reach, as is ENABLED.
* `TreesSound`: `JsonTree` computes by recursion over trees, which needs an induction
  over data that the installed provers cannot do.
* `ConversionsExact` as a whole. Of its parts the theorems above cover the settings of
  the serial line, the clock, and two-word arithmetic but for the shifts, which are
  loops and need powers of two; `JsonStruct`, which recurses over field tables, is only
  checked.

## 5. Deviations

The two violated runs of section 3 each show a place where the code does not do what a
comment of the repository says; the findings in `PROJECT.json` quote them. The following
came up while modelling as well, each where a property that one would want is false. Some of it is excluded from the passing runs by the client rules
of section 2, which are then the conditions under which the results hold. The rest is in
the models and in the passing runs, whose properties claim only what remains true: early
returns of waits and the garbage in `bNeedFree`, what a cancel and an expiry leave
pending, destroy under waiting threads, early openers of the shared memory, types that
are lost, refused answers, the double free of an id.

* `comm_que.c:250,262`: with two producers or two consumers holding slots at
  once, the slot a Put publishes is the oldest one out, not the one it was given.
* `comm_que.c:282,304`: the Front operations make next whatever slot lies before
  the cursor; right only for a slot that came from that queue.
* `comm_que.c:135`: `Clear` while a slot is out lets the counters exceed
  `maxCount`.
* `comm_que.c:118`: the 5 ms sleep of `CommQue_Delete` bounds nothing; a thread
  that wakes later locks a destroyed mutex.
* `comm_que.c:161`: a negative timeout other than FOREVER makes the timed wait
  fail with `EINVAL`, which the loop takes for a wakeup.
* `msgqueue.c:62`: a message sent while the queue is destroyed is never freed.
* `ring/ring_buffer.c:395`: `ring_buffer_write_internal` moves `w` and never sets
  `full`, so a write that takes the last free byte leaves `r = w`, the ring counts
  as empty and its contents are lost; `ring_buffer.h:57-62` documents the flag as
  "是否满" (whether it is full).
* `ring/ring_buffer.c:297`: growth between the two critical sections of
  `set_read_cursor_delta` makes the cursor meaningless.
* `thread_safe_queue.c:48`: `queue_destroy` frees the mutex and the queue in the call that
  wakes the waiting threads, although `thread_safe_queue.h:24` says of the mutex
  "保证线程安全" (guarantees thread safety); `test_async_queue_final.c:226` destroys its queue
  with a worker in fetch.
* `request_que.c:30`: `bNeedFree` is not initialised, and the cleanup, which is to clean up
  "已完成的请求" (completed requests, `request_que.h:108`), frees whatever has it set.
* `request_que.c:201,350,434`: a cancelled or expired request stays in the pending
  queue and is processed, or is fetched after a cleanup has freed it (`request_que.c:358`
  only changes its status).
* `request_que.c:222`: a request that is completed and never waited for is never
  cleaned.
* `request_que.c:227`: with two waiters for one request, one may sleep for ever.
* `request_que.c:306`: a spurious wakeup makes the wait return 0 with the request
  still pending, and so does a wakeup by expiry; `request_que.h:92` says that 0 is success.
  No property claims that 0 means done.
* `request_que.c:417`: cleanup may free a request whose waiter still has to unlock
  its mutex.
* `request_que.c:110`: destroying a queue with pending requests frees them twice, and one
  with a worker in fetch frees the queue under it.
* `ctos.c:443`: create reads `Used_p` of its entry after unlocking and, when the
  allocation of `Used_p` failed, another create may have taken the entry.
* `ctos.c:491,563`: delete destroys the semaphores before it takes the mutex; a task
  blocked in claim or receive is never woken.
* `ctos.c:501`: the callback of `os_message_delete_queue2` runs with
  `message_mutex` held; one that releases the message locks it again.
* `ctos.c:747`: release compares and divides pointers cut to 32 bits; the model has the
  element itself.
* `shareMem/share_mem_queue.c:228`: `isValid` is set before the semaphores are initialised
  (`ShareMemQueue_open`); who waits for one when it is initialised may sleep for ever.
* `shareMem/share_mem_queue.c:287`: processes blocked in a Get are not woken by a
  Delete, and any process's Delete makes the queue invalid for all.
* `shareMem/share_mem_queue.c:313`: Delete logs a string of the segment it has
  detached.
* `shareMem/share_mem_queue.c:421`: two writers (or two readers) between Get and
  Put have the same cell.
* `ring/ring_queue.c:116`: `peek_back` copies one element from where it computes the
  last one to be, without regard to the end of the buffer: an element that wraps is
  read past it.
* `module_manager.c:393`: `framework_send_message` casts a `T_ModuleMsg` to `T_Msg`:
  the type, the data and its length, and the upper bytes of the receiver are lost, every
  message is of type 0, does not reach the handlers for the type it was sent with and
  reaches those for type 0, a deep copy is leaked, and destroying the queue with one in it
  frees a pointer of value 1.
* `module_manager.c:222`: a registration from inside an init function, or from two
  threads, gives two modules the same id.
* `module_manager.c:458`: registering a handler reallocates the table of handlers without a
  lock, under the loop that holds a pointer into it.
* `module_manager.c:286`: a stop before the start is lost; a stop and a quick start from
  another thread leave the first loop running; destroy while the loop runs frees
  modules that are in use; a send with FOREVER from a callback waits for the slot of the
  message being handled; handlers that keep sending keep the run functions waiting.
* `jsonrpc/jsonrpcService.c:187,192,210,214`: the id of a request is put into the
  answer, freed with it, and freed again with the request. `JsonRpcServerReply`
  (346, 348) frees its result twice and sends an answer of its own besides.
* `jsonrpc/jsonrpcService.c:20`: `client_fd` is that of the latest client, so that a
  reply to an earlier one goes to another.
* `jsonrpc/jsonrpcClient.c:149`: two threads that share a client take each other's
  answers; a failed call leaves its socket open. An answer longer than the buffer (99-102)
  makes the call return -1 with `connected` still set and the body unread, and later
  calls read it as lengths and leave their own answers behind for the calls after them: three
  calls are enough for one to return the answer to another.
* `jsonrpc/jsonrpcService.c:115`: the handler list is searched without its mutex, and a
  handler found is used after it may have been unregistered.
* `jsonrpc/jsonrpcService.c:485`: stop and the main loop may close the same number
  twice; the service can be freed while threads of connections use it; starting twice
  loses the first thread; `hDetectTsk` and `client_fd` are not initialised.
* `log/debugtrace.c:671`: a thread that has tested the callback calls it after it was
  unregistered; the contexts are set after the server's thread has been started; a
  client that stops reading blocks every thread that logs; destroy never returns when
  there is no `eth1` or the port is taken; two heartbeats read at once are not
  recognised; the comment at line 31 says ten seconds where the constant is 5.
* `log/log.c:55`: the comment says the name of a rotated log has milliseconds; it has
  `now % 1000` of a time in seconds, so two rotations in a second have one name and the
  second replaces the first.
* `ctos.c:785,804`: the task clock starts again after 863999 seconds, its arithmetic
  uses 864000: an interval across the restart is one second too long, a deadline beyond
  the modulus has passed at once, and one that is converted after the restart is ten
  days late.
* `xlist.c:70`: removing a node that is in no list, or in another, changes the size and
  possibly the ends of this one.
* `cjson/cJSON.c:2250`: replacing a key that is absent renames and drops the replacement
  without freeing it.
* `cjson/cjson_extension.c:66`: the size of a string field is guessed from the offset of
  the next field, so a string that is the last field of its table is lost, although the
  comment at 71 says the size is computed: `strQuality` of `T_AEncInfo`. An array of strings can be written but not read;
  an empty array or structure makes the whole fail; a string member that is no string
  is copied from NULL; ids of 2^31 and above come back as `INT_MAX`.
* `media.h:215`, `JsonParse/JsonParsePriv.h:77`: `ServiceType` is one byte, read and written
  as an `int`: the number in JSON is made of the three bytes behind it as well.
* `JsonParse/JsonParse.c`: when a part of a media description cannot be read the tree is
  leaked and the error becomes "object does not exist".
* `uart/uart.c:239`: an `init_uart` whose settings fail leaves the descriptor open;
  closing twice, or from the callback, waits for a thread that is gone or for itself;
  odd and even parity do not clear `CMSPAR`, so after mark or space they are still that.

## 6. Not modelled

Failures of `malloc`, of thread primitives and of system calls, but for those of the
calls that `JsonRpc`, `DebugTrace`, `LogFile` and `Serial` name; the WIN32 branch
of the ring buffer; `ring_queue_peek_back`; read-only counters; the contents of
messages beyond their identity; the order of requests in the hash
table; 32-bit counters that would have to overflow (a request id after 2^32
submissions, a module id). In `ShareMemQueue` a process that dies inside a critical
section does so before its first assignment.

In `ModuleFramework` the data of a message and the time a timed send waits; in
`JsonRpc` (un)registration while the service runs, the text of requests and answers, and
requests that arrive in parts; in `DebugTrace` what the commands do; in the log its
format, levels and the console; in `Serial` the baud rates and the helpers that read
and write in a loop. The parser and printer of cJSON, `cJSON_Utils` and uthash are
third-party code the library uses without changing. `tsk.c`, the mutex and memory
wrappers of `ctos.c` and `osal.c`, and `common.c` hold no state of their own.

## 7. Plan

1. (Un)registration of handlers while the service runs, as a second discipline of
   `JsonRpc`.
2. The message queue of `ModuleFramework` replaced by an instance of `Fifo`, so that the
   composition with `MsgQueue` is a refinement.
3. Proofs: the trees and the field tables, once a prover for inductions is at hand.
