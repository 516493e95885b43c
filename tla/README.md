# A verification project for nanomsg_copy

TLA+ models of the core of this C messaging library (a hand-typed copy of
nanomsg), the TLC runs that check them on small instances, and TLAPS proofs of
what matters most. Paths are relative to `src/src/`.

## 1. How the source is read

* The copy is unfinished. `CMakeLists.txt` builds `nn.c` and the utilities; many
  files hold misspelled identifiers that no compiler accepts
  (`nn_sock_onleae`, `nn_sock_em_ep`, `slef->r`). Such a name is read as the
  declared name it stands for. Where the code would compile and do something
  else than was perhaps meant (`==` for `=`, erasing through another list,
  starting twice), the models do **what is written**.
* Some functions are declared and used but have no body: most of `nn_fsm_*`
  and `nn_ep_*`, `nn_sinproc_accept`, every protocol, `nn_global_*`. They are
  *external*: modelled from how their callers use them, and marked so in the
  map of `PROJECT.json`.
* Some lines compile and cannot be what the lines around them need: `self` for
  `peer` in cinproc.c:81, the tag one byte off in chunk.c:52. Read as written they
  end the program at once and hide everything behind them. `Inproc` and `Message`
  therefore have a variable `slips`, chosen once: the set of such lines
  that are taken as they are written, the others as they are meant. The
  properties that only hold without slips say so in the formula.
* A failed `nn_assert`, `nn_fsm_bad_*` or `errnum_assert` ends the process. The
  models record the line in the variable `abort`, after which nothing happens.

## 2. Inventory

| Part | State | Operations | Interacts with | What is hard | What makes it correct |
|---|---|---|---|---|---|
| Socket `core/sock.c` | state, hold count, two eventfds with flags, lists `eps` and `sdeps`, semaphores | hold/rele, send, recv, add_ep, rm_ep, add/rm pipe, stop, term | callers, context, pipes, endpoints, protocol | callers blocked outside the lock; close racing everything | eventfds say what the protocol can do; close reaches everyone and ends; nothing is used after it is gone |
| Pipes `core/pipe.c` | state, instate, outstate | start, stop, received, sent, send, recv | transport below, socket above | the order of asynchronous completions | no call in a wrong state; the connection counter balances |
| Endpoints `core/ep.c` | life, address, list item | init; the rest undefined | socket, transport | stop is answered later | freed once, in no list afterwards |
| Context and events `aio/ctx.c`, `aio/fsm.c`, `utils/queue.c` | a mutex and two intrusive queues | enter, leave, raise, raiseto, process | every state machine | nested deliveries across contexts by several threads | each event handled once in its own context; no deadlock; one mutex at a time |
| inproc queue `transports/inproc/msgqueue.c` | count, bytes, chain of chunks, cache | init, send, recv, term | sinproc | ends of chunks, cache, limit | a bounded fifo; no chunk lost or reused |
| inproc connection `transports/inproc/sinproc.c` | per end: state, peer, two flags, message in transit, queue, four events | connect, accept, stop, send, recv, handler, shutdown | pipe, context, the other end | events of two threads overtake each other; both ends stop | order, hand-over, stop ends, no bad action |
| inproc endpoints `ins.c`, `binproc.c`, `cinproc.c` | registry of names, list of connections | bind, connect, unbind, disconnect, handlers | sinproc, endpoint | bind against connect from other sockets | one connection per matching pair; lists drained before the endpoint stops |
| Timer, timerset, worker, pollers `aio/` | sorted timeouts, task queue, poll set | add, rm, execute, cancel, loop | contexts, efd | stop against a timeout or event already taken | no event for what was removed; every task runs |
| efd, sem, mutex, condvar, thread, once, atomic `utils/` | one descriptor or counter | signal, unsignal, wait | everything | level against edge | a signal is seen; no read of an empty eventfd |
| chunk, chunkref, msg `utils/` | reference count, header in front of the data | alloc, realloc, trim, addref, free; init, mv, cp, bulkcopy, getchunk, replace_body | messages | pointer arithmetic, ownership that moves | freed by the last reference, tag in front of the data; messages are values |
| hash, list `utils/` | links | insert, erase, get | socket, worker | erasing through the wrong head | what is in is found, what is out is in no list |
| nn_poll, symbols, errors, strings, stubs (`nn.c`, `core/global.c`) | none | one function each | - | - | tables and pure functions |
| ipc, tcp, ws, usock, protocols, device, Windows variants | - | headers or empty bodies | - | - | nothing to model |

`PROJECT.json` lists these components with their status, and under `hazards`
what is hard to test in them, each with its line and the properties that cover it.

## 3. Modules

| Module | Models | Built on |
|---|---|---|
| `List` | `utils/list.c`: head and links as pointers | - |
| `PipeBase` | `core/pipe.c`: the record of one pipe and its operations | - |
| `SockLife` | abstract: what a socket promises about its life | - |
| `Sock` | `core/sock.c` with its callers, closer, endpoints and pipes; implements `SockLife` | `List`, `PipeBase` |
| `SockProofs` | theorems about `Sock` | `Sock`, TLAPS |
| `Queue` | `utils/queue.c`: intrusive queue whose head can be copied | - |
| `Mailbox` | abstract: what the contexts promise about events | - |
| `Ctx` | `aio/ctx.c`, `aio/fsm.c`; implements `Mailbox` | `Queue` |
| `CtxProofs` | theorems about `Ctx` | `Ctx`, TLAPS |
| `MsgFifo` | abstract: a fifo with a limit on its bytes | - |
| `MsgQueue` | `transports/inproc/msgqueue.c`; implements `MsgFifo` | - |
| `MsgQueueProofs` | theorems about `MsgQueue` | `MsgQueue`, `SeqLemmas`, TLAPS |
| `Sinproc` | `transports/inproc/sinproc.c`, both ends of a connection | `PipeBase` |
| `SinprocProofs` | theorems about `Sinproc` | `Sinproc`, `SeqLemmas`, TLAPS |
| `Inproc` | `ins.c`, `binproc.c`, `cinproc.c`: the registry and the endpoints of several sockets | - |
| `InprocProofs` | theorems about `Inproc` | `Inproc`, `SeqLemmas`, TLAPS |
| `Timerset` | `aio/timerset.c`: the ordered list of timeouts, as operators | - |
| `Poller` | `aio/poller_epoll.inc`: a poll set and the rest of a batch, as operators | - |
| `Alarm` | abstract: what a timer promises to its owner | - |
| `Worker` | `aio/worker_posix.inc` and `aio/timer.c`; implements `Alarm` | `Poller`, `Timerset` |
| `WorkerProofs` | theorems about `Worker` | `Worker`, `SeqLemmas`, TLAPS |
| `MsgValue` | abstract: a message is a value | - |
| `Message` | `utils/chunk.c`, `chunkref.c`, `msg.c`; implements `MsgValue` | - |
| `MessageProofs` | theorems about `Message` | `Message`, `SeqLemmas`, TLAPS |
| `SeqLemmas` | lemmas about sequences, as the lists and queues use them: append, concatenate, insert, remove | TLAPS |
| `MCSock`, `MCCtx`, `MCMsgQueue`, `MCSinproc`, `MCInproc`, `MCWorker`, `MCMessage` | values of the constants for TLC | the module of that name |

The modules compose by what the abstract ones promise. `Ctx` shows that a
handler has its context to itself and that every event is handled once, carried
by the thread that raised it, in no particular order; `Sock` and `Sinproc`
therefore take one section under a context's lock as one action, and `Sinproc`
keeps of a context only the event a thread carries. `MsgQueue` implements a
fifo with a limit; in `Sinproc` the queue is a sequence with the same rule.
`Inproc` has many connections, each of whose ends is only the state that
`Sinproc` has in full; `Message` shows that a message is a value, as the other
modules take it.
Operators that exist in two forms (`Offers`, `OffersAnyState`) are the code's
and a plausible mistake; the second kind is used by the mutants only. Of an operator
with a slip the second form is the line as written (`TargetItself`, `LessOne`,
`ErasesOther`, `StartedTwice`, `OldPointer`, `StillThere`): that the property is violated with it is
how the run shows what the line does, while the property itself speaks of the line as meant.

### Sock

An action is one section between `nn_ctx_enter` and `nn_ctx_leave` with the
events it raises to its own context and the `onleave` callback (`OnLeave` is a
conjunct, never a step of its own). Three things are outside the lock and so
interleave: `nn_sock_hold`/`nn_sock_rele`, `nn_efd_wait`, and the loop of
`nn_sock_shutdown`, whose steps hold the lock but are visible to the first two.
A caller is `idle -> held -> (wait -> woken)* -> done -> idle`. The closer runs
`StopBegin`, `StopEp` for each endpoint, `StopEnd`, drops its hold, waits for
`termsem` and then `relesem`, and frees (`TermFree`). The protocol is reduced to
`ready`, the pipes it could use in each direction. `Features` switches on what
the environment may do: remove endpoints, add them while closing, run out of
memory, have a `stop` function of the protocol's own.

Assumed of what is not there: the lock of `nn_global.c` makes hold and rele
atomic and refuses a hold of a socket that is gone; one thread closes; the
transport attaches pipes only to a started endpoint and answers `nn_ep_stop` after its pipe has stopped.

### Ctx

`at[t]` is the line a thread is at: the loop over own events, the delivery
loop, waiting for the next context, handling. `copies[t]` is the stack of local
variables `eventsto`, one for each nested `nn_ctx_leave`. Heads are copied as the
code copies them; the links belong to the events, so a copy and the original
would share them. Handlers may raise anything within `MayRaise`: an event that
is not under way, and (`Settled`) no change of an event's target while line 62
may still read the old one; this is how the users of the contexts behave.

### MsgQueue

Chunks are model values with `slot` contents and `link`; `in` and `out` are
pairs of chunk and position; `cache` is the spare chunk. `Usable` is what the
code may dereference; using anything else sets `broken`. `nn_alloc` succeeds
(line 74 does not check it). `Send`, `Recv` and `Terminate` are whole calls.

### Sinproc

`conn` is the end `nn_sinproc_connect` made, `acc` the one `nn_sinproc_accept`
made. `hand[t]` is the event a thread carries; `Pop` is ctx.c:55, after which the
event counts as inactive although it has not been handled. `Deliver` is the
handler or the shutdown function with the reaction of the owner (binproc or
cinproc), which runs in the same section. `uses` says which thread makes calls on
which socket, chosen once; `refusing`, whether the protocol may refuse the pipe.
`twice` is whether `nn_sinproc_connect` starts its state machine twice, as it is
written. It then aborts at once (CONNECTING knows no second start), so that
everything else is said of the code with one start.

### Inproc

An action is a section under the context of one socket: `nn_binproc_create` and
`nn_cinproc_create` with what `nn_ins_bind` and `nn_ins_connect` call back (`Bind`,
`BindRefused`, `Connect`, `ConnectAlone`), the shutdown of an endpoint (`Stop`), or
the delivery of one event. The lock of the registry is taken inside the context's
and released before it, and under it nothing else is locked, so it needs no
step of its own. A `nn_sinproc` is named by its owner, the endpoint it leads to
and the side that made it; its state is that of sinproc.c without messages.
`hand[t]` are the events a thread carries; the first goes out first, and
what its handler raises goes out before the rest, as nested `nn_ctx_leave` do it.
`proto` says which sockets are peers, `callers` which threads make calls.
`inprogress` is the one statistic whose assertion depends on the order of events.

### Worker, Timerset, Poller

The worker's thread is at one of the places of `nn_worker_routine`: waiting,
taking a timeout (`timers`), delivering it (`fire`), taking an event (`events`),
handling a descriptor (`fd`), taking a task (`tasks`), running it (`run`),
`ended`. Between taking and handling it enters the context of the owner, and
there user threads may have come first: start or stop a timer, queue or cancel
a job. `tasks` is the shared queue, `todo` the copy the worker made of it. A timer
is its state, the timeout to be set and its two tasks. `due` and `rung` only
record what `Alarm` speaks of. Owners of descriptors are `usock`, which has no body: in
their place a handler does any one operation on the poll set. The source's
`nn_queue_pop(&task)`, `hndl > events`, undeclared `fd`, misspelled `nevnets` and
two different names of the timerset's field are read as what they stand for.

### Message

A chunk is a reference count, a size and cells. The two cells in front of the
first byte are the distance to the head and the tag, by which `nn_chunk_getptr`
finds the head; trimming writes them over bytes, which are lost. A reference is
`Small` with its bytes or `Big` with a pointer. A user holds messages, a chunk
taken out of one (`raw`), and copies announced by bulkcopy_start (`lent`). Cells
that belong to nobody are `Junk`, so that reading them shows. What callers must
respect is a guard: only unshared references are trimmed, a message that was moved
is not used again, announced copies are made before the original goes.

## 4. Runs

| Run | Question | Bounds | Result |
|---|---|---|---|
| `sock` | `Sock` implements `SockLife`; drained before it is destroyed; no assertion; closing completes | 2 callers, 2 endpoints, both directions, no removal, fair | holds, 57k states |
| `sock_remove` | eventfds, stop and holds also with removal, lack of memory and a protocol that may have a stop function | 2 callers, 3 endpoints, receiving | holds, 206k (threads exchanged) |
| `remove_lists` | the lists are empty when no endpoint is left | 1 caller, 2 endpoints | **violated**: sock.c:830 erases through `eps` what is in `sdeps` |
| `racing_add` | `eps` is empty when `sdeps` has drained (sock.c:775) | 1 caller, 2 endpoints | **violated**: a hold granted before the stop adds an endpoint after the walk over `eps` |
| `ctx` | delivery: one mutex at a time, nothing stranded, lost, doubled; `Mailbox`; every event handled | 2 contexts, 2 threads, 3 events, 5 calls and raises, fair | holds, 91k |
| `msgqueue` | a fifo with a limit; no chunk lost or misused | chunks of 2, 4 chunks, sizes 1, 2, 6, limit 5 | holds, 10k |
| `sinproc` | order, hand-over, pipe states, stop and release, no failing assertion for one thread and one start | 3 messages each way, room for 2, three ways to use the sockets | holds, 99k |
| `sinproc_refused` | only RECEIVED reaches a DISCONNECTED end | one thread, pipe may be refused | **violated**: the peer of a refused pipe is not told |
| `sinproc_late_sent` | no SENT is under way when an end stops | a thread per socket | **violated**: the answer to DISCONNECT overtakes it |
| `inproc` | an address is bound once, peers get exactly one connection whichever came first, settled ends agree, stops complete, no assertion with one thread | 2 endpoints to bind, 2 to connect, one address, 3 sockets, peers or not, 1 or 2 threads, no slip or one of three | holds, 82k |
| `worker` | timers keep `Alarm`; a stopped timer is in no list; only wanted events are given out; all that is queued is served; no assertion | 2 timers with delays 0 and 1, a job, 2 descriptors, 3 starts or 2 jobs, fair | holds, 163k |
| `message` | chunks are freed with their last reference, pointers keep their header, messages read as values | 2 messages, 2 chunks, a large and a small text, 3 edits, sizes to 3; no slip, one, or the other four | holds, 332k |

Why the bounds are enough. Two callers: one can be blocked while the other one
acts; three endpoints are a list with a middle, so every case of erase and
insert occurs. Two contexts and two threads are what a crossing of deliveries
needs, three events let one be raised while two are on their way, and five calls
and raises allow a delivery nested in a delivery. Chunks of two slots with four
chunks pass every chunk boundary with the cache empty and full, and size 6
alone exceeds the limit of 5. With `Limit` 3 the third message is held back
and released, which is the longest a direction can back up: a sender has at most
one message outside the queue. In `inproc` two endpoints of each kind let a
bind find two that wait, a second bind be refused, and an address be bound
again; one socket owns an endpoint of each kind, and two threads let any two
sections of two sockets cross. In `worker` two timers can be due together and in either
order, one of them be started again after its stop, and two ready descriptors
make a batch whose second entry the first handler can spoil; the budgets
(`Budgets`) let timers meet timers, jobs meet a timer and descriptors meet jobs,
and not all of these at once, which are independent: they share only the task
queue. epoll's limit of 32 events only splits a batch and is not reached. In
`message` a chunk can be shared by a message, its copy and an announced copy, be trimmed,
taken out and grow in front or elsewhere: that needs three edits and a
second chunk. Bounds are named: `MaxEp`, `Fuel`, `MaxMsg`, `MaxTime`, `Budgets`,
`ChunkCount`, `MaxSize`, `MaxEdits`, `MaxCopies`, the sets `Chunks` and `Texts`.

Deadlock is checked except in `sock_remove` and `remove_lists`, where a failed
allocation leaves the context locked (sock.c:443) and the system really stops.
A finished system stutters by an action of its own (`Finished`, `Quiet`, ...).

Fairness. A thread inside the library goes on: sections are finite, mutexes are
released, poll returns once an eventfd stays readable (weak fairness of
each step). The transport stops what it was asked to stop. A receiving
application keeps receiving (`sinproc` only, for `SenderReleased`). In `inproc` a
thread delivers what it carries. In `worker` the worker's thread goes on,
the eventfd that is signaled is seen by epoll, and the clock advances. Nothing makes
an application call, raise, connect, send or close, and no lock is assumed
to be strongly fair: in `Ctx` a thread that waits for a context gets it because
`Fuel` ends the others' calls.

Further facts met while modelling, not runs of their own:

* sock.c:129 compares where it should assign, so a protocol with a `stop` function
  meets the assertion of sock.c:784 (inside `sock_remove`).
* sinproc.c:83-86 start the state machine twice (`twice` in `sinproc`), cinproc.c:81
  makes the connector its own peer, cinproc.c:96 counts an established connection
  with -1 against sock.c:879, and cinproc.c:121 leaves `sinproc` unassigned:
  taken as written every connect, and every stop of a connection, aborts.
* With more threads than one `Sinproc` also reaches the assertions of sinproc.c:236
  and :299 and, when a pipe is refused, of queue.c:23 (line 325 raises an event that may be
  under way); `Inproc` reaches sinproc.c:236 too, and an event that was popped but not handled may be found in freed
  memory. In `Inproc` CONNECT may reach an endpoint that is stopping
  (binproc.c:122, cinproc.c:122), and an endpoint that nobody has disconnected
  yet may be counted as in progress once too few (sock.c:930).
  `NoAssertionFails` of both is therefore stated for one thread; their
  other properties hold for all.
* chunk.c:52 puts the tag one byte behind the distance and not four, so that no chunk
  from `nn_chunk_alloc` passes chunk.c:154; chunk.c:93 returns the pointer from before
  the bytes moved; chunk.c:105 copies from where the bytes once began, and too many when
  a shared chunk gets shorter; chunkref.c:61 leaves a reference to the chunk that
  it gives away; chunkref.c:99 assigns where it should compare and so makes a
  pointer of a small reference. `Message` has them as slips.
* `nn_worker_cancel` does not find a task that the worker has copied out (worker_posix.inc:124).

## 5. Proofs

Every invariant and action property of the passing runs, and each of the five
refinements, is a theorem; for any values of the constants that satisfy the named
`ASSUME`s (below). Each proof follows the same argument: the property is not
inductive, a stronger formula is; it holds initially, every action keeps it (one
lemma or step per action), it implies the property. What the strengthening says
is what the code relies on and does not write down. The
strengthenings were also checked with TLC on the instance of the run (`IInv`, `EfdInv`, `HoldInv`,
`DrainInv`, `AgreeInv`, `SoloInv` of `Inproc`), except those it cannot evaluate:
of `MsgQueueProofs` and `CtxProofs`, which say that there is a chain or a function of
places. (In `AsksInv` of `Inproc` the places in a thread's list were taken from 1..9.)

### SockProofs

For any finite number of callers, any number of endpoints and any directions.

* `TypeCorrect`: `Spec => []TypeOK`. Lemmas give the types of what the list and
  pipe operators return.
* `EfdTellsTheTruth`: `EfdFollowsProtocol`, and `StopIsSeen`: `StopStaysVisible`.
  Neither is inductive: onleave decides by its flags, and a woken caller sets a
  flag by what poll tells it. `EfdInv` adds that the flags are exactly the
  directions with a ready pipe and agree with the counters until closing begins,
  that every counter is positive afterwards, and which values of `state`, `lock`
  and `open` go with which place of the closer.
* `NoUseAfterTerm`: `UsersPinSocket`. `HoldInv` relates `holds` to the number of
  callers inside plus the closer, and `relesem` to their having all left. It is
  the counting argument of the shutdown, over the cardinality of a finite set.
* `DrainsInOrder` (`DrainedBeforeDestroy`), `NoneFails` (`NoAssertionFails`) and
  `KeepsItsPromise` (`LifeSpec`), all three under `Orderly`: nobody removes an endpoint,
  adds one while the socket is closing, or gives the protocol a stop function. Lack of
  memory is allowed. The hypothesis is needed: each of the three, alone, makes an
  assertion fail or something freed be used (the runs `remove_lists` and `racing_add`, and sock.c:129); the first
  three theorems hold with any features. `DrainInv` says that the two lists are
  linked in the order in which the endpoints were added, that `eps` holds the started and
  `sdeps` the stopping ones, that the closer's cursor is the first of `eps` and everything before
  it is in `sdeps`, that the state tells whether `sdeps` is empty, that only
  a living endpoint has a pipe, a ready pipe is idle in that direction, and
  the statistic of connections is the number of attached pipes.

### CtxProofs

For any contexts, threads, events and fuel: `TypeCorrect`, `OneContext`
(`HoldsOnlyHere`), `EmptyWhenFree` (`NothingStranded`), `EventsAreConserved`
(`EventsConserved`) and `ImplementsMailbox` (`MailSpec`). All queues share one set
of links, so a pop is only as good as the whole chain: nothing in the types says
that the link it makes the head is an event, or one of the same queue. The inductive
invariant `IInv` therefore gives every event one place (`Own(c)`, `Outgoing(c)`,
`Copy(t, n)` of the stack, `Carried(t)`, `Nowhere`) and a position: in each queue the
links lead from a position to the next and end at the tail (`Linked`), a raised event
is somewhere, what is in a context's own queue was raised to this context, and a
thread carries what it will deliver (`Tracked`). That a push, a pop and the copy of a
head keep `Linked` are lemmas of their own (`PushKeepsLinked`, `PopKeepsLinked`,
`MoveWhole`). The walk `Chain` and the places agree because a least position
among the items a walk missed would have a predecessor it reached (`ChainIsOwned`).

### MsgQueueProofs

For any granularity, limit, sizes and chunks: `TypeCorrect`, `LimitHolds`
(`MemBounded`), `NoChunkMisused` (no NULL or freed chunk is used and the assertion of
`nn_msgqueue_term` holds), `NothingLost` (`ChunksAccounted`) and `IsAFifo`
(`FifoSpec`). `Built` describes the chain from `in` to `out`: its chunks are different
and live, the cache is none of them, they are linked in that order and there are no others,
the count is the number of slots between the two ends, and each of those slots holds
a message. Without it nothing says that the chunk `recv` goes on to is one that was
linked. The refinement adds that `mem` is the sum of the sizes in these slots
(`MemIsSum`); a send appends to the sequence of their contents and a receive takes its head.

### SinprocProofs

For any threads, any way they use the two sockets, any number of messages and any
limit.

* `TypeCorrect`.
* `OneAtATime` (`HandOver`): a message is offered and taken once. The invariant
  (`HandInv` in `DataInv`) is that of a token: the event SENT under way to the receiver,
  the receiver's flag `receiving`, and the event RECEIVED on its way back are never two at a time
  in one direction, each implies that the sender has `sending` set, and they say whether
  the message is still the sender's.
* `PipeTellsTheTruth` (`PipeFollowsQueue`): the pipe is ready to receive exactly when the
  queue holds something, and ready to send exactly when
  no message is being handed over.
* `InOrder` (`MessagesInOrder`): what was received, what is queued, what is held back and
  what is in transit are, one after the other, the messages sent (`OrderInv`).
* `NoneFails` (`NoAssertionFails`), which is about one thread and one start:
  `SoloInv` names the phases of a connection that one thread can see between two calls.

`LifeInv`, `ConnectInv` and `EarlyInv` say what the events under way mean for the states of the
ends, and that nothing is sent before both are active.

### InprocProofs

For any finite set of endpoints, any sockets, addresses, protocols and threads, and
whichever slips of cinproc.c are taken as written.

* `TypeCorrect`, `RegistryIsTrue` (`RegistryTrue`), `ConnectedOnce` (`OneConnection`). `IInv`
  adds to the types that both lists of the registry hold the active endpoints of their
  kind, each once, that the connections of an endpoint are those whose ends are alive,
  and, for every pair that fits, that one of the two made the connection and not both.
* `EndsAgree` (`SettledEndsAgree`). `AgreeInv` speaks of the states in which it is not quiet: an
  end that is connecting or ready has an event under way that takes it further; an end
  that stops has told its peer, or the peer's answer is on its way; who was told or is through has a
  partner that is over too; and only an active endpoint has an end being made.
  When nothing is carried, none of the intermediate states is left.
* `NoneFails` (`NoAssertionFails`), for one calling thread and no slip, which is what the property says.
  `SoloInv`: a call finds nothing under way; each event finds its end in the
  state its handler expects; no event is carried twice; connections are not made and
  ended at the same time. The assertion of sock.c:930 needs a count:
  NN_STAT_INPROGRESS_CONNECTIONS is at least the number of active connecting
  endpoints without a connection, so the one that accepts finds it positive.

### WorkerProofs

For any timers, handles, tasks, delays and budgets: `TypeCorrect`, `NothingFails`
(`NoAssertionFails`), `TimerIsFree` (`StoppedTimerIsFree`), `EventIsWanted` (`EventsWanted`),
`TimersAreAlarms` (`RingsAsPromised`, the refinement of `Alarm`). A timer's task is in one place: the shared
queue, the worker's copy or its hand, and a job may be queued again while it runs (`TasksInv`); of a timer the start comes before the
stop in that order, and its timeout is in the timerset, taken, or neither, as its state
says (`TimersInv`); the rest of a batch holds only what the poll set still wants
(`PollerInv`, the purpose of `nn_poller_rm`'s loop over the batch); after the stop
item nothing is taken (`EndInv`).

### MessageProofs

For any finite set of messages, any number of chunks, any texts and bounds.

* `TypeCorrect`, with any slips.
* `RefcountsAreTrue` (`RefcountsTrue`): the count of a chunk is the number of places that refer
  to it, those announced included. `CountsInv` states it as a cardinality,
  so that taking a reference is adding a place and releasing one is removing it;
  `PointersInv` says that every pointer has its distance and tag in front of it. That only an
  unshared reference may be trimmed gives the step that matters: the one who
  trims is the lone holder (`Lone`, `LoneRaw`), hence no other pointer loses its header.
* `MessagesAreValues` (`ReadAsWritten`, the refinement of `MsgValue`): an operation on one
  message leaves what all others read as it was.

The last two are about the code without slips, as the properties are: with one, the pointers are
wrong at once (section 4), and the mapping of the refinement is constant.

### Assumptions

What is assumed of the constants is in named `ASSUME`s, which TLC evaluates in the runs:
finite sets of callers, threads, endpoints, messages and handles; numbers that are natural
numbers; values that stand for nothing (`None`, NULL) differ from those that stand for
something; a binder is no connector; a timer is no task; a message's header fits
a small reference and its body a chunk. None restricts what the code may meet, except by
what these sets mean.

### Only model-checked

The liveness properties: `CloseCompletes`, `EventsDelivered`, `StopCompletes` (of
`Sinproc` and `Inproc`), `SenderReleased` and `EverythingServed`. TLAPS does not reason
here about fairness, which is defined through ENABLED. The four runs that
expect a violation are counterexamples and prove nothing beyond themselves.

## 6. Not modelled

* The deadlines of send and receive (they are the free choice `GiveUp`), options,
  names, and statistics other than the two connection counters that assert.
* Failure of `nn_alloc` where the code aborts on it, and, in `MsgQueue`, where it
  does not look (msgqueue.c:74).
* The contents of wire headers, symbols, error texts, strings, clock: pure functions
  of one call. `core/poll.c` and `utils/hash.c` keep no state that is shared.
* Mutex, condition, thread, once and atomic wrap one call of the system each; the
  variants of `sem.c` and `efd.c` for systems without POSIX semaphores and eventfd.
* The poll variant of the poller (its `nn_poller_add` registers nothing) and Windows.
* What has no code: protocols, device, ipc, tcp, ws, usock, `core/global.c`.

## 7. Plan

Done: the socket, the contexts, the inproc queue, connection and endpoints, the
worker with its timers and poll set, messages and chunks; all their safety
properties and refinements proved. What is left would be:

1. The semaphore made of a mutex and a condition (sem.c:129), and the efd over a pipe.
2. The deadline arithmetic of sock.c:564 with its widths.
3. Composition: `Sinproc` with `MsgQueue` in place of its sequence, by the theorem
   `IsAFifo`; the steps towards liveness (that a measure of the shutdown decreases with
   every step of the drain) as action properties.
