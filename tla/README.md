# MultiPython: a TLA+ verification project

MultiPython is a fork of MicroPython for the ESP32 in which several
interpreters ("contexts") run as FreeRTOS tasks on two cores. This directory
holds TLA+ models of the parts of the program in which tasks, threads,
interrupt handlers, timers and cores interact, and of the data structures every
context rests on, TLC configurations that check them on
small instances, and proofs, checked with TLAPS, of the most important results
for instances of any size. Paths below are relative to the repository;
`PROJECT.json` names the source lines of every definition.

## The system

| part | state | operations | interacts through |
|---|---|---|---|
| context registry (`py/mpstate.c`) | linked list of `mp_context_node_t` from `mp_context_head`; per node: task id, status, interpreter state, dynamic memory list, thread control, response queue | `mp_task_register`, `mp_task_remove`, `mp_context_by_tid`, `mp_task_alloc` | called by start, stop, the task template, the switch hook, `vPortCleanUpTCB`; no lock |
| context lifecycle (`ports/esp32/modmultipython.c`) | portMUX `mux` | `start`, `control(STOP)`, `multipython_task_template` | FreeRTOS tasks, registry |
| active context of a core (`py/mpstate.c`) | `mp_current_tIDs`, `mp_active_contexts`, `mp_active_context_mirrors`, copies of sys.path etc., one of each per core | `mp_task_switched_in` (FreeRTOS hook), `mp_context_switch`, `mp_context_refresh`, `MP_STATE_VM` | every access to interpreter state |
| task control and wakeup (`modmultipython.c`) | `MP_CSUSP` flag, FreeRTOS task state, list of responses | `control(SUSPEND/RESUME)`, `response`, `notify`, `check_responses`, `init`, wakeup call task | interrupt handler, response queues |
| response queue (`py/mpstate.c`) | ring of responses with two heads | peek, read, write | notifiers, owner, wakeup task; no lock |
| scheduler of a VM (`py/scheduler.c`, `lib/utils/interrupt_char.c`, `py/vm.c`) | `sched_state`, callback ring, pending exception | schedule, lock, unlock, handle pending, keyboard interrupt | threads under the GIL, interrupt handlers |
| threads of a context (`ports/esp32/mpthreadport.c`, `py/modthread.c`) | list of threads and its mutex, the GIL | create, start, finish, gc_others, clean up, deinit | idle task, collector, soft reset |
| garbage collector (`py/gc.c`, `ports/esp32/gccollect.c`) | allocation table, finaliser table, hint to the first free byte, mark stack with its overflow flag, lock depth | alloc, free, realloc, collect with mark, overflow passes, sweep and finalisers | threads' stacks (roots), finalisers that run Python code |
| hash tables (`py/map.c`, `py/objdict.c`, `py/objset.c`) | array of slots with deleted markers, `used`, `alloc`, `all_keys_are_qstrs` | lookup, add, remove, pop, clear, rehash | heap (growth can fail) |
| LED chain (`ports/esp32/modaddressable*.c`) | list of fixtures and their layers, DMA buffer, places of the fixtures in it, timer | protocol, add_fixture, add_layer, recompute_chain, start, stop, timer callback | Python program and timer task share everything without a lock |
| timer queue (`extmod/modutimeq.c`) | binary heap in an array, counter for ties | push, pop | program only; times that wrap |
| compiler, VM, file systems, network, other drivers | inherited from MicroPython | | not modelled, see below |

What is hard here is concurrency without locks: contexts run in parallel on two
cores and are preempted at any instruction; interrupt handlers write to the
same queues; almost none of the fork's own data structures is protected, and
where a lock is taken (the portMUX around removal, the mutex of the thread
list) tasks can be deleted by others at any time. Task ids are FreeRTOS handles
and are reused. `PROJECT.json` lists the hazards with their lines.

What makes the parts correct:

- a response that was reported stored is delivered once and in order;
- the suspended flag says what FreeRTOS does with a task, and a triggered
  context wakes up;
- task ids are unique, removed contexts leave nothing behind, the critical
  section is always left, and no task runs on a heap that was freed;
- a task works on the interpreter state of its own context;
- scheduled callbacks are called once, in order and one at a time, the VM never
  overlooks pending work and Ctrl-C takes effect;
- the thread list has a node for every thread, so that the collector scans every
  stack and a soft reset ends every thread;
- the collector frees nothing that can be reached and keeps nothing marked that
  cannot, however small its stack, and calls finalisers for the right objects, as
  long as no collection begins inside of another;
- a hash table is a dictionary, whatever was deleted, rehashed or not grown;
- the timer callback writes to and sends from memory the chain owns, at every
  step of a program that changes the chain, until DMA has read it;
- the timer queue hands out entries in the order in which they are due.

## Modules

Each component module has its variables, one action per step of the code that
another actor can observe, and its properties at the end. A definition called
"Mutant of X" or "Fault" is X with a bug; it is not part of any specification
and documents which mistake the properties would notice. `MC*` modules give
the constants of the runs.

**BoundedFifo**, **Dictionary** and **DueQueue** are the abstract specifications: a
queue of bounded capacity whose writes report success or refusal, a finite mapping
with the answer of the last call, a set of tasks that are taken in the order in
which they are due. `ResponseQueue` and `Scheduler` refine the first, `MapTable` the
second, `TimeQueue` the third.

**ResponseQueue** splits `mp_response_queue_write`, `_read` and `_peek` at their
accesses to shared memory: the test of the heads, the copy of the slot and the
store of the head. Any number of writers, one reader and one peeker interleave.
Stores of one task become visible in program order. `mp_response_queue_available`
is left out: nothing calls it.

**TaskControl** models suspend and resume as flag update and FreeRTOS call in
two steps, `notify` as one step per registered response (the interrupt handler
can be overtaken by the other core), and the wakeup task as peek, test, clear,
resume. Its contexts are fixed, and a queue is a bounded FIFO, which
`ResponseQueue` justifies for one notifier. Who controls whom, and which
responses programs register, are constants. `raced` is a history variable: the
contexts on which a control call has begun while another was under way. The wakeup
task calls `_multipython_control`, which allocates a list for its results on the heap
of whichever context its core worked on last, and refuses the REPL's context; both
raise an exception that nothing handles (`WakerRaises`, possible at every call).

**ContextLifecycle** models `start` (register, copy the source, create the
task), the task template (set the id, thread control, heap, run, remove itself,
delete itself) and `control(STOP)` (find, critical section, remove, delete,
return) over the registry as a sequence. Each allocation the code tests may
fail. Registry functions are atomic. FreeRTOS is external: `Executes` (nobody
preempts a critical section on its core), `CanEnter` (the other core spins),
`Reap` (the idle task frees a deleted task, whose handle can then be given
out again), `Migrate`. `start` without a core, its default, calls `xTaskCreate`, and
the task may go on on the other core at any time (`Roamers` are the handles it may
get). Such a task sets its context's id, and finds its context when it allocates
thread control and heap, through `mp_current_tIDs[MICROPY_GET_CORE_INDEX]`: if it moves
between the two reads it gets the id of whatever then runs on the core it left
(`CurrentId`); `drifted` notes that this has happened. In the critical section at its
end it cannot move. A TypeError after the registration (source, type, core or suspend
of the wrong type) and a failing `xTaskCreate` leave a registered context with ID 0
behind (`StartRaises`, `StartNoTask`). The task id in the result of a stop is read from freed memory and is
left out. Deleting a handle that is stale either has no effect or deletes its new
owner. The REPL's context is the head of the registry and is set up in `Init`.

**ContextSwitch** has the per-core variables. The switch hook is one step
(it runs with interrupts off and touches its own core's entries). Everything a
task does through `MICROPY_GET_CORE_INDEX` is two steps, reading the number and
using it, and the task may be preempted or moved in between. An assignment that
reads the core number twice is modelled with one read. sys.path stands for the
four mirrored objects; a copy of the list object is a copy of its contents, and
an append through the copy does not reach the original's length.

**Scheduler** has the threads of one context, which run under the GIL, and the
interrupt handlers of the core. `mp_handle_pending` is the unprotected test and
an atomic section. A callback or finaliser is a frame on the thread's stack: it
may use opcodes, schedule, release the GIL, be interrupted and nest, until it
returns and unlocks. A call that gives up the GIL comes back whenever it likes, or
never (`BlockReturns` has no fairness): a lock is waited for without limit. The inlined
variant in `vm.c` does the same as
`mp_handle_pending`. The branch of `mp_handle_pending_tail` for an empty ring is
left out because it is unreachable: the inductive invariant of the proofs says
that a thread inside `mp_handle_pending` still finds PENDING, and with it work.

**ThreadList** has the thread list as a sequence, its mutex, the GIL and every
thread's place in `thread_entry`. Clean-up by the idle task and deletion by
`mp_thread_deinit` are separate actors. `Unlink` is what the code does, with a
`prev` that never moves, so that unlinking a node drops all newer ones; the
history variable `cut` says that this has happened. `mp_thread_deinit` may hand a
handle to `vTaskDelete` whose task has deleted itself, or has been freed, since it was
chosen. FreeRTOS does not define what that does; the model has three outcomes: nothing
(`DeinitDeleteAgain`), the task that waits for the idle task is freed at once
(`DeinitDeleteWaiting`), or the chip restarts (`DeinitPanic`). Thread control is allocated
and stacks are large enough.

**GcHeap** has the two tables of `py/gc.c` block by block. A call is one step under
the GIL, but a collection is a step per word marked and per block swept, because
the sweep calls finalisers, which run Python code and let other threads run. Neither
`gc_collect_start` nor `gc.collect` looks at `gc_lock_depth`, so that a finaliser, or a
thread that runs while it waits, can begin a collection inside the sweep; `outer` keeps
what the interrupted sweep goes on with, `nested` notes it. A finaliser is given its
object and may let Python code have what it finds there (`FinaliserKeeps`); `kept` notes
that something was garbage when it did. `SweepAll` is `gc_sweep_all` at a soft reset: the
code leaves the root pointers as they are, but the program has ended and nothing
follows them, so it is taken when `roots` is empty.
`StackSizes` are the sizes of the mark stack that are considered. The program's
variables are a set of roots; `Live` is what can be reached from them. Reading the
chain of the last block goes on behind the table, into the finaliser bits, as in
the code (`PhantomTail`).

**MapTable** has `mp_map_lookup`, `mp_set_lookup` and the array form of ordered
dictionaries. A lookup is one step, a rehash one step per slot. Keys have a class
under `mp_obj_equal` and a hash, so that they can collide and be equal without
being the same object. `Failing` names the forms whose growth may run out of memory.
After `popitem` on an ordered dictionary the search of the array hands the deleted marker
to `mp_obj_equal`, which is undefined; the model goes on with "not equal", the other
outcomes end the program.

**LedOutput** interleaves the program's calls, split at every store of something the
timer callback reads (the buffer, its length, a fixture's place, its controller), with
the callback, split at its tests and reads: the test of a fixture, its layers, its
controller and place, the write; the length of the transfer, its buffer, the call of the
driver. `spi_device_queue_trans` only queues: `sending` are the transfers that DMA has
still to read, of which the queue holds one besides the one on the wire, and the callback
waits when it is full (`Queued`); `TransferDone` is the driver and is external. The model's
driver keeps length and buffer from the call on; the port refills its one descriptor for
the next transfer, and what that does to one still queued is not in this repository.
Buffers are never renamed, so that a use of freed memory is seen. Following a NULL layer
or controller restarts the chip (`Fault`). `risks` is a history variable for what the code
neither forbids nor guards: the protocol was changed after a buffer was divided, a buffer
was outgrown while the timer, a callback or a transfer used it, there was no memory for a
larger one after the old was freed. Each property says which of them it excepts.
`modadd_fixture_remove` is installed in the controller and called from nowhere, so no
program can take a fixture out and it is not modelled.

**TimeQueue** has push and pop. A sift loop reads each slot before it writes it, so
it is modelled by the walk it makes: the function that takes a slot to the next one
(`Up`, `Down`), the slots the walk comes to (`Walk`, `End`) and the entries it moves
along (`Shift`). Each entry carries the moment it is due on a clock that does not wrap,
which the code does not have and the refinement compares with. In the code `utimeq_id` is
one static variable for the queues of all contexts on both cores, incremented without a
lock; the model is one queue of one program. That an increment is lost to the other
core, and two entries of one queue that are due at the same time have one id, is outside
of it.

## Runs

| run | instance | shows |
|---|---|---|
| `queue_one_writer` | ring of 4, 3 values, one notifier, reader, peeker | no response is lost, duplicated, reordered or refused while there is room (refinement of `BoundedFifo`); a peek no read overlaps shows the oldest response |
| `control_contexts` | the REPL and 2 contexts, one of which sleeps at its start, suspends itself and is controlled by its peer; the wakeup task; responses for all three; queues of 2 | `MP_CSUSP` agrees with FreeRTOS on every context on which no two control calls have overlapped; a suspended context whose oldest response is RESUME runs again, or an exception has ended the wakeup task |
| `lifecycle_contexts` | 2 nodes and 2 handles besides the REPL's, 2 cores, one handle that may be started without a core; the REPL starts and stops, a context may stop itself | nothing leaks and every new task has a context, also after a task has taken another one's id; until then unique ids, no context with two users, no task that is stopped from its own core on a freed heap; ending tasks are deleted unless the mux was lost |
| `scheduler_threads` | 2 threads, 2 callbacks, ring of 2, nesting 2 | locks balance, `sched_state` tells the VM about work, callbacks never overlap, the ring is a FIFO; unless a protected call waits for the GIL or every thread hangs, interrupts are raised and callbacks are called |
| `threads` | the main task and three threads whose handles are reused | nobody dies with the list's mutex, no node outlives its task, `mp_thread_deinit` ends unless the idle task is starved; as long as threads were unlinked newest first, the list is complete, collections scan every stack and nobody is left |
| `switch_pinned` | 3 pinned contexts on 2 cores | every context works on its own state, has its own id and its own import path |
| `gc_heap` | 4 blocks, mark stacks of 0 and 1, objects of 1 block without and of 2 with a finaliser, 2 roots, 2 links | until a collection begins inside a sweep or a finaliser gives garbage back: what can be reached stays allocated, also while finalisers run; exactly what can be reached is marked; no free run is missed; finaliser bits stay with their objects; no step of the collector cuts a chain |
| `map_table` | tables of 0 to 4 slots, 5 keys of which some are equal or collide, 2 values; dict, set, OrderedDict; a dict may fail to grow | every entry is found from every equal key; every call does what a dictionary does (refinement of `Dictionary`) |
| `led_chain` | 3 fixtures, chains of up to 2, 2 allocations, two protocols, 2 transfers | writes and transfers stay inside their buffers, also when the chain grows in use; in allocated ones unless a buffer was outgrown in use or could not be replaced; the one window in which the callback meets a fixture without its controller lies between two stores; fixtures share no byte and leave the trailing bytes alone; callbacks end |
| `time_queue` | 6 entries, period 8, 7 ids | entries come out in the order in which they are due although times wrap (refinement of `DueQueue`), and none is kept |

Bounds. Two cores are what the hardware has. A ring of four slots (of two for
the scheduler) is full, empty and wrapped around within the run; the response ring
is also covered for every size by a proof, as are the hash table and the heap. Two nodes and two handles for contexts
are enough for a handle and a node to be given out again while an old call
still holds them, which is the only way in which more contexts could matter:
every property relates at most two contexts. `MaxNesting = 1`: the mux is entered a
second time only on the core on which a task has died with it; the proofs hold for every
`MaxNesting`. `MaxNest = 2` nests a callback inside a finaliser.
`QueueLimit` and `MaxResponses` of two let a queue be full and let one response
stand in front of another. Three threads can be ended in an order in which the
dropped nodes are in front of, behind and between others. Four blocks hold two
objects of two blocks, a freed one between two kept ones, and a graph in which a
mark stack of one overflows twice; `BlocksPerAtb = 2` gives the hint two bytes to
point to. `MaxOuter = 1` lets one sweep wait for a collection inside of it: the
properties end there. (A third collection inside of the second would also take the
marks of the object whose finaliser began the second.) The constraint `FewIrregular`
follows heaps after a nested collection only if they have no links. Four slots hold a probe sequence that wraps around, a deleted slot in the
middle of it and a rehash to a larger table. Two buffers
are enough for one that was freed, or forgotten by a recompute that did not grow, and the
current one; a strip of 16 LEDs has a trailing byte. The constraint `FewStates` ends a
behaviour of `led_chain` when the protocol is changed after a buffer was divided, which
most of the properties except, and lets layers be added only to fixtures of the protocol
at hand. A heap of six has three levels, so that the last entry can belong into another
subtree. Deadlock is checked except in `lifecycle_contexts`,
where a lost mux ends everything on the other core.

Two runs end in a counterexample:

- `threads_dropped`: `vPortCleanUpTCB` does not move `prev`, so that the node of
  an ending thread takes all newer nodes with it, against the comment on the list.
- `map_popitem`: `popitem` of an OrderedDict leaves a deleted slot in front and
  counts `used` down; the search looks at the first `used` slots only, and the last
  key is not found any more.

The conditions in the other properties mark places where the same models show
more of this, which no run repeats:

- `FlagTellsTruth` needs control calls that do not overlap: a resume between
  `MP_CSUSP` being set and `vTaskSuspend` leaves a suspended task with a clear flag,
  which no later resume touches. A context that suspends itself at its start can
  meet the same fate.
- `ExitingTaskEnds` needs the mux: a context that stops itself with `control`
  is deleted inside the critical section, which is then never left, although a comment
  (`modmultipython.c:782`) says to release the mux before dying.
- `AccessesOwnVm` needs contexts without threads: the switch hook knows only tasks
  that have a context, so that a thread that is switched in after another context
  works on the other context's state, heap and thread list. `IdNamesOwnTask` and
  `AccessesOwnVm` also need pinned contexts: `start` without a core lets a task move
  between reading its core's number and using it.
- `StoresAccounted` needs one writer: two notifiers take the same slot of a
  response queue, both report success and one response is gone.
- `UniqueTaskIds`, `RunnableOwnsHeap` and a half of `SpawnHasContext` end with `drifted`:
  a context that was started without a core has moved while it read its id and has
  another task's, so that two contexts share one, and the stop or the end of one takes
  the other out. `NothingLeaks` and the rest of `SpawnHasContext` hold then, too.
- `UniqueTaskIds` needs one starter: two programs that start contexts at the same
  time both pass the test of `mp_task_register` and register two contexts with id 0.
- `RunnableOwnsHeap` needs the stopper on the target's core: a task on the other
  core runs on while its heap is freed, until `vTaskDelete`.
- `ResumeAtHeadWakes` needs the RESUME at the head: the wakeup task looks only at
  the oldest response, and a sleeping context does not take an older one out. It
  also needs a live wakeup task (`WakerRaises`), although a comment says that it
  "should never quit" (`modmultipython.c:806`).
- `InterruptIsRaised` and `CallbacksKeepRunning` except `ProtectedCallWaits`: a
  callback that has given up the GIL keeps the scheduler locked, the VM of the
  other thread does not hand the GIL back unless the scheduler is idle
  (`py/vm.c:1316`), and Ctrl-C is not raised. They also except a program that hangs for
  good, all its threads in calls that do not return (`AllBlocked`): an interrupt does not
  end the wait for a lock (`py/modthread.c:72`).
- `DeinitEnds` excepts an idle task that is starved (`IdleHasWork`): the loop of
  `mp_thread_deinit` never waits and has a higher priority, and the node of a thread that
  has deleted itself is left to the idle task. A todo at `main.c:156` names the starvation.
- The properties of the heap except what follows a collection inside a sweep and a
  finaliser that gives garbage back (`Regular`). The inner collection turns every MARK
  into HEAD, and the outer sweep then frees every HEAD behind the object whose finaliser
  it was, those in use included.
- `WritesOwnMemory` and `SendsOwnMemory` except, as far as freed memory is concerned, a
  buffer that was outgrown in use: `recompute_chain` frees it and leaves `data` and every
  `out_data` pointing to it until the new one is divided, or for good when there is no
  memory for one, and the callback looks only whether `data` is NULL. A transfer that is
  still queued when the timer has been stopped counts as a use.
- `FaultsOnlyBetweenStores` shows what is left of a race, not its absence: `out_data`, which
  the callback tests, is stored before `ctrl`, which it follows, and a callback between the
  two restarts the chip. So does one between a layer node and its layer.
- `MarkExact` excepts `PhantomTail`: an object with a finaliser in block 1 and none
  in block 0 makes the chain of the last block look longer than the pool, and the
  words behind it are traced. `FinaliserBitsKept` excepts the step that frees that
  chain: it reads the bits of odd blocks as tails and clears them. `PhantomTail`
  would be too narrow there. In a pool of five blocks `gc_realloc` can move an object
  with a finaliser into block 1, and frees its old chain, at the end of the pool,
  with the new bit already set; the proof showed this, the run has four blocks.
- `map_table` lets only a dict fail to grow. `mp_set_rehash` and the growth of an
  ordered array change `alloc` before they allocate: a set loses its contents, and
  the array is shorter than `alloc` says.
- `TimeQueue` lets pending times be less than half a period apart and empties the
  queue before ids go round; otherwise there is no order to keep, or ties come out
  in the wrong order, as a TODO in the source says.

Places that are known and that no property is about:

- The wakeup task acts on a response it has copied; its context may have read it
  and gone back to sleep, and wakes without a response. `notify` drops responses
  when a queue is full.
- `sys.path` and three other objects are copied at a switch in one direction only;
  an append through the copy is not searched and is overwritten (`AppendPath`).
- `mp_thread_deinit` can choose a thread that has deleted itself and not been
  cleaned up, and deletes it again (`DeinitDeleteAgain`). The idle task frees its
  node on the heap of whichever context its core worked on last.
- The id that a stop reports, and the next node of the iteration, are read from
  the node that has been freed; `get_tID` of a context that has ended reads
  through NULL. The result of `xTaskCreate` is not looked at, and a context
  without a task keeps ID 0, which makes every later start fail.
- The UART interrupt stores Ctrl-C for whichever context its core works on.
- Keys whose comparison runs Python code can change the table under the search.
- A recompute that does not grow the buffer forgets the old one. A chain without
  a protocol indexes the table of protocols out of its range. Fixtures that the
  program does not keep in a variable are collected under the chain.

## Fairness

- `TaskControl`: weak fairness of the wakeup task, which has the highest priority
  of the tasks involved and a delay that ends, and of the control calls of the
  contexts' tasks, which share one priority and are time-sliced. Nothing is
  assumed of the REPL's task, which has a lower priority.
- `ContextLifecycle`: a task inside a critical section is not preempted, so the
  steps in it are taken. Ending tasks have strong fairness for entering the mux
  and deleting themselves: other tasks' critical sections are short and end,
  so that they find the mux free again and again. Nothing is assumed of the idle task,
  and `ExitingTaskEnds` ends with the deletion, not with the clean-up.
- `Scheduler`: the running thread goes on; the VM gives up the GIL when
  `gil_divisor` has run down and the state allows it, and a thread that asks for a GIL
  that is free again and again gets it (one strong fairness for both); callbacks and
  finalisers return if they keep getting the GIL. Blocking calls need not return, and
  interrupts may never come.
- `ThreadList`: the soft reset goes on. Nothing is assumed of the idle task, and
  threads need not make progress.
- `LedOutput`: a callback that has begun goes on; it is a task of higher priority
  than the program's. The SPI hardware finishes its transfers (`TransferDone`), which is
  an assumption on the driver. The timer need not fire.

Starts, stops, programs and interrupts are never assumed to happen.

## Proofs

Proofs are in the `*Proofs` modules. Assumptions on constants are named `ASSUME`s
of the component modules; where a theorem needs more (one writer, one manager,
pinned contexts) it says so in its hypothesis.

- **ContextTaskProofs** has what concerns the tasks of contexts. It extends
  the three modules `TaskControl`, `ResponseQueue` and `ContextSwitch`, whose
  definitions therefore have names of their own (`RingSpec`, `SwitchSpec`). Each
  theorem is about one of the three specifications; none relies on another.
  - `TaskControl`: `TypesKept` and `FlagTrueWithoutOverlap` for any contexts,
    controllers and responses, with the wakeup task and notifications. The invariant
    says of every call in progress what flag and task are at its program point, as
    long as the call is the only one on its context; `raced` is exactly the set of
    contexts of which this cannot be said.
  - `ResponseQueue`: `RingTypesKept` holds for any number of writers.
    `StoresAreAccounted`, `PeekIsOldest` and `RingIsFifo` assume `SingleWriter`. The
    inductive invariant adds to the types what each call in progress still knows:
    the writer's slot is still `w_head` and free and holds its value before it is
    published (`WriterInv`), the reader's slot is still `r_head` and full
    (`ReaderInv`), and a peek that no read has overtaken looks at `r_head`
    (`PeekerInv`). `StoresAccounted` is not inductive without them, since the test
    and the store are steps apart. For the refinement, `PendingAfterWrite` and
    `PendingAfterRead` say what publishing a head does to the sequence of pending
    responses; every other step leaves it alone.
  - `ContextSwitch`: `PinnedTypesKept`, `PinnedAccessesOwnVm`,
    `PinnedIdNamesOwnTask` and `PinnedHasPath` for any number of cores and
    contexts, each pinned to one core and without threads. `CoreInv` says that the
    variables of the core a context runs on are as far set up as its start-up has
    come; the switch hook restores them, also when the start-up was preempted
    half-way.
- **ContextLifecycleProofs**. `LifecycleTypesKept`, `IdsStayUnique`,
  `NothingEverLeaks`, `SpawnsHaveContexts` and `RunnablesOwnHeaps` for any nodes,
  handles, cores and contexts that move, if one program starts contexts and a context is
  stopped by that program or by itself (`OneManager`). The invariant has two parts.
  `Base` holds always: memory belongs to registered contexts (`FreedInv`), at most one
  context has no id, in the hand of the start in progress or of the task that was just
  created (`StartInv`, `SpawnInv`), and one task at a time is inside the mux (`MuxInv`).
  `Own` holds as long as no task has taken another one's id. Unique ids alone are not
  inductive: a handle is reused, and a node is reused while a task that had it still
  runs. `Own` therefore says which task an id belongs to (`IdInv`), that a handle in the
  hand of a stop is not given out again (`StopInv`), that a task without its context is
  one the manager is about to delete (`CtxInv`) and where the heaps are (`HeapInv`). While
  the manager stops a task it starts none, so that the node taken from that task is not
  given out before the task is gone. The lemmas `UnlinkedFacts`, `AppendFacts`,
  `FirstFacts`, `TaskRemoveFacts` and `TaskAllocFacts` say what the registry functions do
  to the set of contexts.
- **SchedulerProofs**. `TypeCorrect`, `LocksAlwaysBalance`, `StateAlwaysTellsWork`,
  `NoCallbackPreempts` and `CallbackRingIsFifo` for every depth and any finite number
  of threads.
  `LocksBalance` counts locks as pairs of thread and nesting level; `PushLock` and
  `PopLock` are the two cardinality facts. `ThreadInv` says that a thread in Python
  code has the GIL and that one between the test and the atomic section still
  finds `PENDING`; `StateInv` ties the state to the work. The refinement of
  `BoundedFifo` rests on the types alone: `MaskOnce` reduces the masked index to one
  subtraction, `WaitingAfterAccept` and `WaitingAfterCall` say what the two operations
  do to the sequence of callbacks that wait.
- **ThreadListProofs**. `MuxHolderAlwaysExists`, `NodesAlwaysHaveTasks` and
  `ListTypesKept` for any number of threads, with the list as the code keeps it;
  `ThreadsStayListed`, `DeinitIsComplete` and `CollectionsScanStacks` as long as no
  node but the newest has been unlinked. `UnlinkFacts` and `LinkFacts` say what
  happens to the list; `ThreadInv` gives every program point the lock it implies,
  `VictimInv` and `CleanUpInv` say what the deleting and the cleaning task rely on.
  The second part adds that a thread without a node is one that its creator, who
  has the mutex, is about to link (`NewbornInv`), and that a thread in Python code
  has marked its node (`ReadyInv`).
- **GcHeapProofs**. `ReachableStaysAllocated`, `MarkingIsExact`, `SearchMissesNoRun`,
  `BitsBelongToObjects`, `BitsAreKept` and `SweepKeepsChains` for every pool, every
  size of the mark stack, every object graph and every `BlocksPerAtb`
  (`HeapInvariant` is the invariant they share), until a collection begins inside a sweep
  or a finaliser gives garbage back: the invariant is `RegularInv`, which says nothing
  after that and before it that no sweep waits for another. That reachable objects are
  allocated does not carry over a sweep by itself, so the invariant follows a
  collection: every tail has a block of its chain before it, except behind the block
  the sweep has just freed, and then `free_tail` is set (`ChainInv`); a head that a
  marked object points to is marked, or the word is one that `ToScan` names, because
  it is in a chain on the stack, ahead in the chain at hand, ahead in the pass over
  the table, or because `overflow` asks for another pass (`MarkInv`); nothing else is
  marked unless there is a phantom tail (`ExactInv`); and what the sweep has still to
  visit is marked if it can be reached (`SweepInv`). With nothing left to scan the
  marked objects are closed under pointers, and `Live` is the least such set that has
  the roots: this replaces an induction over paths. `RunInv` says that all blocks
  below the hint are in use. The first fit that `gc_alloc` takes exists because a
  non-empty set of numbers has a least element, from the well-founded order on `Nat`.
- **LedOutputProofs**. `CallbackWritesOwnMemory`, `FaultWindowIsOneStore`,
  `DriverSendsOwnMemory` and `PlacesStayDisjoint` for chains of any length, fixtures
  of any size and both protocols (`ChainInvariant` is the invariant they share). The
  invariant has three parts, after what they except. `NodesInv` holds always: which node
  is without its fixture and which fixture without its controller. Unless the protocol
  was changed, the recorded length is never more than the buffer has, also between the
  stores of the two, and every place lies inside its buffer (`BufferInv`); between
  recomputes the buffer is divided among the first `m` nodes (`SettledInv`); during one,
  the nodes not yet reached keep their old place or have none (`DivideInv`); and what the
  callback has read some steps ago still fits (`CallbackInv`): a buffer read after its
  length is as long or longer, because recomputing stores the buffer first and never
  makes it shorter (`NeverLonger`). Without any risk, a freed buffer is seen only by
  `recompute_chain` itself (`UseInv`). The arithmetic is in `LedsNext`, `LedsGrow` and
  `Geometry`: the required length grows with every node, and places follow one another
  up to the trailing bytes.
- **MapTableProofs**. `EntriesAreFound` and `TableIsDictionary` for tables of every
  size, any keys, hashes and values, if popitem is not called on an ordered
  dictionary and only a dict runs out of memory (`SafeUse`): `map_popitem` and the
  conditions above show what happens otherwise. That every key is found is not
  inductive. A search stops at the first empty slot, so the invariant says that no
  slot is empty between the one where the search for a stored key begins and its own
  (`ProbeInv`); a deleted slot may become empty only if the one behind it is
  (`VacateFacts`). It stops coming round only because the entries are counted
  (`CountInv`) and compares pointers only because the keys are interned while
  `all_keys_are_qstrs` says so (`QstrInv`). No key is stored twice, also not by what
  a rehash has still to move (`UniqueInv`). `Steps` measures how far a slot is from
  where a search begins: two keys that are equal begin at the same slot
  (`EqualSteps`), and the slot a search finds is the nearest one that matches
  (`SearchFacts`). For the refinement the contents are the entries of the table, of
  the part of the old one that is not moved yet and the pending one, which a step of
  a rehash leaves alone (`ContentsFacts`).
- **TimeQueueProofs**. `QueueRetainsNothing` and `QueueIsInOrder` for an array of any
  size and any even period. What a sift loop does would be an induction over its
  iterations; instead, `Walk` is the least set that has the first slot and is closed
  under the step, and each loop has a variant (`Variant`): the slot itself on the way
  up, its distance from the end on the way down. From these, `WalkFacts` has that the
  walk is a chain, ends in one slot and comes to no slot twice, and `ShiftKeeps` that
  a shift only moves entries about. `TimeOrder` is the arithmetic: for moments less than
  half a period apart, `time_less_than` on the wrapped times is the order of the
  moments, which makes it transitive. The invariant adds to the types that pending
  times are that close (`WindowInv`), that their ids differ (`IdInv`), that what is
  behind the heap is vacant (`RestInv`) and that no entry is due before its parent
  (`HeapInv`); `SiftDown` and `SiftUp` are the two loops, `RootFirst` takes the least
  slot that would contradict the order of the first entry. That ids and moments are
  as close as this is what `heappush` is guarded with: without it the heap has no order.

Both conditions of the theorems about `ContextSwitch` are needed, as the conditions
listed under the runs show. The type invariants of all ten modules are theorems,
those of `GcHeap`, `LedOutput`, `MapTable` and `TimeQueue` as a part of
`LiveAllocated`, `PlacesDisjoint`, `EveryKeyFound` and `NothingRetained`.

Every safety property and refinement that a passing run checks is also a theorem.
Model-checked only are the liveness properties (`ResumeAtHeadWakes`,
`ExitingTaskEnds`, `InterruptIsRaised`, `CallbacksKeepRunning`, `DeinitEnds`,
`CallbackEnds`), which need fairness and `ENABLED` and are beyond the prover.

## Not modelled

The registry and the dynamic memory list at pointer level (traversal while a node
is unlinked): nothing protects a traversal, so that none of its properties holds.
Interned strings, lock objects of `_thread` beyond what they do to the GIL, the
console ring (a second, simpler instance of `ResponseQueue`), the Art-Net server,
whose library is not in the repository. Compiler, VM, REPL, file systems, network
and peripheral drivers are upstream MicroPython or vendor code: sequential, large,
and without state that tasks of this program share beyond what is modelled. They
are most of the repository's lines. `PROJECT.json` gives the reason for each part.
Every model assumes that the cores see each other's stores in program order.

## Plan

Done, in this order: the response queue with its abstract queue, task control,
the lifecycle, the scheduler, the thread list, the active context of a core; then
the collector, the hash tables, the LED chain and the timer queue, each with the
proofs of its safety properties.

1. `ContextRegistry`: the linked lists with unprotected append, removal and
   traversal, for what a single writer may still promise.
2. Composition of `Scheduler` with `ContextSwitch`: to which context an interrupt
   handler's callback or exception is delivered.
