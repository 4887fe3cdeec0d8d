------------------------- MODULE ContextLifecycle --------------------------
(***************************************************************************)
(* How contexts come and go: multipython_start registers a context and     *)
(* creates its task, multipython_task_template runs it and takes it out    *)
(* again, multipython_control with CONTROL_STOP removes it from outside    *)
(* (ports/esp32/modmultipython.c over the registry of py/mpstate.c).       *)
(*                                                                         *)
(* Registry functions are atomic here; what lies between two of them, and  *)
(* between them and FreeRTOS, is interleaved.  malloc may fail wherever    *)
(* the code tests for it.  The context's blocks of dynamic memory are told *)
(* apart by their purpose.  FreeRTOS handles are reused once a dead task   *)
(* has been cleaned up.  A context that was started without a core moves   *)
(* between cores whenever FreeRTOS likes, also between reading the core    *)
(* index and the entry of mp_current_tIDs at that index.                   *)
(***************************************************************************)
EXTENDS Integers, Sequences, FiniteSets

CONSTANTS
    Nodes,      \* addresses malloc gives to context nodes
    Main,       \* &mp_default_context, the head of the registry
    Handles,    \* FreeRTOS task handles, which are the task IDs
    MainTask,   \* the handle of mp_task
    Unknown,    \* task ID 0
    Other,      \* a task that is no context's: idle, wakeup, timer
    Cores,
    MainCore,   \* MICROPY_REPL_CORE
    Starters,   \* tasks whose program calls multipython.start
    Roamers,    \* tasks that start may create without a core
    MayStop,    \* pairs <<h, t>>: the program of task h stops task t
    MaxNesting  \* bound on the nesting of the critical section

ASSUME NodesAssumption == Main \notin Nodes
ASSUME HandlesAssumption ==
    MainTask \in Handles /\ Unknown \notin Handles \cup {Other} /\ Other \notin Handles
ASSUME CoresAssumption == MainCore \in Cores
ASSUME ProgramAssumption ==
    /\ Starters \subseteq Handles /\ Roamers \subseteq Handles
    /\ MayStop \subseteq Handles \X Handles
ASSUME NestingAssumption == MaxNesting \in Nat

AllNodes == Nodes \cup {Main}
TaskIds == Handles \cup {Unknown, Other}
Blocks == {"source", "threadctrl", "heap"}

VARIABLES
    registry,   \* the list from mp_context_head: the registered nodes in order
    id,         \* node->id
    mem,        \* node->memhead: the blocks the context owns
    pc,         \* what each task is doing; "none" when the handle is unused
    ctx,        \* the context a task was created with
    core,       \* the core it runs on
    roaming,    \* the tasks that are not pinned to their core
    drifted,    \* history: a task has taken another one's ID for its own
    node,       \* local of start: the node in hand
    target,     \* local of control: the task to stop
    muxOwner, muxCount  \* the portMUX "mux": owning core and nesting depth

registryVars == <<registry, id, mem>>
taskVars == <<ctx, core, roaming>>
callVars == <<node, target>>
muxVars == <<muxOwner, muxCount>>
vars == <<registryVars, pc, taskVars, drifted, callVars, muxVars>>

Init ==
    /\ registry = <<Main>>
    /\ id = [n \in AllNodes |-> IF n = Main THEN MainTask ELSE Unknown]
    /\ mem = [n \in AllNodes |-> IF n = Main THEN {"threadctrl", "heap"} ELSE {}]
    /\ pc = [h \in Handles |-> IF h = MainTask THEN "run" ELSE "none"]
    /\ ctx = [h \in Handles |-> Main]
    /\ core = [h \in Handles |-> MainCore]
    /\ roaming = {} /\ drifted = FALSE
    /\ node = [h \in Handles |-> Main]
    /\ target = [h \in Handles |-> h]
    /\ muxOwner = MainCore /\ muxCount = 0

-----------------------------------------------------------------------------
(* The registry                                                             *)

Registered == {registry[i] : i \in 1..Len(registry)}

\* mp_context_by_tid: the first node with that task ID.
HasTid(t) == \E n \in Registered : id[n] = t
FirstWithTid(t) ==
    registry[CHOOSE i \in 1..Len(registry) :
                id[registry[i]] = t /\ \A j \in 1..(i - 1) : id[registry[j]] # t]

\* The list without node n.
Unlinked(n) ==
    LET k == CHOOSE i \in 1..Len(registry) : registry[i] = n
    IN  [i \in 1..(Len(registry) - 1) |-> registry[IF i < k THEN i ELSE i + 1]]

\* Fault: the node is unlinked but what it owns is kept.
UnlinkOnly(n) ==
    /\ registry' = Unlinked(n)
    /\ UNCHANGED <<id, mem>>

\* mp_context_remove: unlink, free what the context owns, free the node.
ContextRemove(n) ==
    /\ registry' = Unlinked(n)
    /\ mem' = [mem EXCEPT ![n] = {}]
    /\ UNCHANGED id

\* mp_task_remove: neither an unknown task nor the head is removed.
TaskRemove(t) ==
    IF HasTid(t) /\ FirstWithTid(t) # Main
    THEN ContextRemove(FirstWithTid(t))
    ELSE UNCHANGED registryVars

-----------------------------------------------------------------------------
(* FreeRTOS                                                                 *)

InMux == {"stop_delete", "stop_exit"}

\* A task can run unless another task of its core is in a critical section,
\* where interrupts are off.
Executes(h) ==
    /\ pc[h] \notin {"none", "dead"}
    /\ \A g \in Handles : g # h /\ core[g] = core[h] => pc[g] \notin InMux

\* portENTER_CRITICAL spins while the other core has the mux.
CanEnter(h) == muxCount = 0 \/ muxOwner = core[h]

\* FreeRTOS goes on with a task that is not pinned on another core.
Migrate(t) ==
    /\ t \in roaming
    /\ pc[t] \notin {"none", "dead"} \cup InMux
    /\ \E k \in Cores \ {core[t]} : core' = [core EXCEPT ![t] = k]
    /\ UNCHANGED <<registryVars, pc, ctx, roaming, drifted, callVars, muxVars>>

\* mp_current_tIDs[MICROPY_GET_CORE_INDEX]: the task itself, or, if it moves
\* between the two reads, whatever then runs on the core it has left.
CurrentId(t, i) ==
    /\ \/ i = t
       \/ t \in roaming /\ i \in {Other} \cup {h \in Handles : pc[h] \notin {"none", "dead"}}
    /\ drifted' = (drifted \/ i # t)

\* The idle task frees the TCB of a deleted task; its handle may come back.
Reap(t) ==
    /\ pc[t] = "dead"
    /\ pc' = [pc EXCEPT ![t] = "none"]
    /\ ctx' = [ctx EXCEPT ![t] = Main]
    /\ core' = [core EXCEPT ![t] = MainCore]
    /\ roaming' = roaming \ {t}
    /\ node' = [node EXCEPT ![t] = Main]
    /\ target' = [target EXCEPT ![t] = t]
    /\ UNCHANGED <<registryVars, drifted, muxVars>>

-----------------------------------------------------------------------------
(* multipython_start                                                        *)

\* Fault: a context that has no task ID yet is not noticed.
StartUnchecked(h) ==
    /\ Executes(h) /\ pc[h] = "run"
    /\ h \in Starters
    /\ pc' = [pc EXCEPT ![h] = "start_append"]
    /\ UNCHANGED <<registryVars, taskVars, drifted, callVars, muxVars>>

\* mp_task_register(0): refused while another context has no task ID yet.
StartCheck(h) ==
    /\ Executes(h) /\ pc[h] = "run"
    /\ h \in Starters
    /\ ~HasTid(Unknown)
    /\ pc' = [pc EXCEPT ![h] = "start_append"]
    /\ UNCHANGED <<registryVars, taskVars, drifted, callVars, muxVars>>

StartAppend(h) ==
    /\ Executes(h) /\ pc[h] = "start_append"
    /\ \E n \in Nodes \ Registered :
        /\ registry' = Append(registry, n)
        /\ id' = [id EXCEPT ![n] = Unknown]
        /\ node' = [node EXCEPT ![h] = n]
    /\ pc' = [pc EXCEPT ![h] = "start_source"]
    /\ UNCHANGED <<mem, taskVars, drifted, target, muxVars>>

\* No memory for the node or its interpreter state: OSError(ENOMEM).
StartNoNode(h) ==
    /\ Executes(h) /\ pc[h] = "start_append"
    /\ pc' = [pc EXCEPT ![h] = "run"]
    /\ UNCHANGED <<registryVars, taskVars, drifted, callVars, muxVars>>

\* The program's source is copied into memory the context owns.
StartSource(h) ==
    /\ Executes(h) /\ pc[h] = "start_source"
    /\ mem' = [mem EXCEPT ![node[h]] = @ \cup {"source"}]
    /\ pc' = [pc EXCEPT ![h] = "start_create"]
    /\ UNCHANGED <<registry, id, taskVars, drifted, callVars, muxVars>>

\* Fault: start goes on after it has removed the context.
StartNoSourceGoesOn(h) ==
    /\ Executes(h) /\ pc[h] = "start_source"
    /\ ContextRemove(node[h])
    /\ pc' = [pc EXCEPT ![h] = "start_create"]
    /\ UNCHANGED <<taskVars, drifted, callVars, muxVars>>

\* The source is not a string: TypeError, and the context stays registered.
StartRaises(h) ==
    /\ Executes(h) /\ pc[h] = "start_source"
    /\ pc' = [pc EXCEPT ![h] = "run"]
    /\ node' = [node EXCEPT ![h] = Main]
    /\ UNCHANGED <<registryVars, taskVars, drifted, target, muxVars>>

StartNoSource(h) ==
    /\ Executes(h) /\ pc[h] = "start_source"
    /\ ContextRemove(node[h])
    /\ pc' = [pc EXCEPT ![h] = "run"]
    /\ node' = [node EXCEPT ![h] = Main]
    /\ UNCHANGED <<taskVars, drifted, target, muxVars>>

\* xTaskCreatePinnedToCore, or xTaskCreate for a task without a core.
StartCreate(h) ==
    /\ Executes(h) /\ pc[h] = "start_create"
    /\ \E t \in Handles, k \in Cores, unpinned \in BOOLEAN :
        /\ pc[t] = "none"
        /\ unpinned => t \in Roamers
        /\ pc' = [pc EXCEPT ![t] = "spawn", ![h] = "run"]
        /\ ctx' = [ctx EXCEPT ![t] = node[h]]
        /\ core' = [core EXCEPT ![t] = k]
        /\ roaming' = IF unpinned THEN roaming \cup {t} ELSE roaming
    /\ node' = [node EXCEPT ![h] = Main]
    /\ UNCHANGED <<registryVars, drifted, target, muxVars>>

\* FreeRTOS has no memory for the task: its result is not looked at, and start
\* returns the context.  Or type, core or suspend is no number: TypeError.
StartNoTask(h) ==
    /\ Executes(h) /\ pc[h] = "start_create"
    /\ pc' = [pc EXCEPT ![h] = "run"]
    /\ node' = [node EXCEPT ![h] = Main]
    /\ UNCHANGED <<registryVars, taskVars, drifted, target, muxVars>>

Start(h) ==
    \/ StartCheck(h) \/ StartAppend(h) \/ StartNoNode(h) \/ StartSource(h)
    \/ StartRaises(h) \/ StartNoSource(h) \/ StartCreate(h) \/ StartNoTask(h)

-----------------------------------------------------------------------------
(* multipython_task_template                                                *)

\* The context was allocated by start; the task fills in its ID.
TaskSetId(t) ==
    /\ Executes(t) /\ pc[t] = "spawn"
    /\ \E i \in TaskIds : CurrentId(t, i) /\ id' = [id EXCEPT ![ctx[t]] = i]
    /\ pc' = [pc EXCEPT ![t] = "thread_init"]
    /\ UNCHANGED <<registry, mem, taskVars, callVars, muxVars>>

\* mp_task_alloc: memory for the context with that task ID.
TaskAlloc(i, blocks) ==
    /\ HasTid(i)
    /\ mem' = [mem EXCEPT ![FirstWithTid(i)] = @ \cup blocks]

\* mp_thread_init goes on without a thread list if there is no memory for it.
TaskThreadInit(t) ==
    /\ Executes(t) /\ pc[t] = "thread_init"
    /\ \E i \in TaskIds : CurrentId(t, i) /\ (TaskAlloc(i, {"threadctrl"}) \/ UNCHANGED mem)
    /\ pc' = [pc EXCEPT ![t] = "heap"]
    /\ UNCHANGED <<registry, id, taskVars, callVars, muxVars>>

TaskHeap(t) ==
    /\ Executes(t) /\ pc[t] = "heap"
    /\ \E i \in TaskIds : CurrentId(t, i) /\ TaskAlloc(i, {"heap"})
    /\ pc' = [pc EXCEPT ![t] = "run"]
    /\ UNCHANGED <<registry, id, taskVars, callVars, muxVars>>

TaskNoHeap(t) ==
    /\ Executes(t) /\ pc[t] = "heap"
    /\ pc' = [pc EXCEPT ![t] = "exit"]
    /\ UNCHANGED <<registryVars, taskVars, drifted, callVars, muxVars>>

\* The program ends, with or without an exception.
TaskFinish(t) ==
    /\ Executes(t) /\ pc[t] = "run"
    /\ t # MainTask
    /\ pc' = [pc EXCEPT ![t] = "exit"]
    /\ UNCHANGED <<registryVars, taskVars, drifted, callVars, muxVars>>

\* The critical section around mp_task_remove, in which the task stays on its
\* core and finds its own ID.
TaskRemoveSelf(t) ==
    /\ Executes(t) /\ pc[t] = "exit"
    /\ CanEnter(t)
    /\ TaskRemove(t)
    /\ pc' = [pc EXCEPT ![t] = "exit_delete"]
    /\ UNCHANGED <<taskVars, drifted, callVars, muxVars>>

\* Fault: the task does not delete itself and idles in an endless loop.
TaskNotDeleted(t) ==
    /\ Executes(t) /\ pc[t] = "exit_delete"
    /\ UNCHANGED vars

\* vTaskDelete(NULL)
TaskDeleteSelf(t) ==
    /\ Executes(t) /\ pc[t] = "exit_delete"
    /\ pc' = [pc EXCEPT ![t] = "dead"]
    /\ UNCHANGED <<registryVars, taskVars, drifted, callVars, muxVars>>

Template(t) ==
    \/ TaskSetId(t) \/ TaskThreadInit(t) \/ TaskHeap(t) \/ TaskNoHeap(t)
    \/ TaskFinish(t) \/ TaskRemoveSelf(t) \/ TaskDeleteSelf(t)

-----------------------------------------------------------------------------
(* multipython_control with CONTROL_STOP: multipython_end_task              *)

\* Fault: the context is removed before the critical section is entered.
StopCheckRemoves(h, t) ==
    /\ Executes(h) /\ pc[h] = "run"
    /\ <<h, t>> \in MayStop
    /\ HasTid(t)
    /\ FirstWithTid(t) # Main
    /\ TaskRemove(t)
    /\ target' = [target EXCEPT ![h] = t]
    /\ pc' = [pc EXCEPT ![h] = "stop_enter"]
    /\ UNCHANGED <<taskVars, drifted, node, muxVars>>

\* The context with that task ID is found; the head is refused (EACCES).
StopCheck(h, t) ==
    /\ Executes(h) /\ pc[h] = "run"
    /\ <<h, t>> \in MayStop
    /\ HasTid(t)
    /\ FirstWithTid(t) # Main
    /\ target' = [target EXCEPT ![h] = t]
    /\ pc' = [pc EXCEPT ![h] = "stop_enter"]
    /\ UNCHANGED <<registryVars, taskVars, drifted, node, muxVars>>

\* portENTER_CRITICAL and mp_task_remove
StopRemove(h) ==
    /\ Executes(h) /\ pc[h] = "stop_enter"
    /\ CanEnter(h)
    /\ muxCount < MaxNesting
    /\ muxOwner' = core[h]
    /\ muxCount' = muxCount + 1
    /\ TaskRemove(target[h])
    /\ pc' = [pc EXCEPT ![h] = "stop_delete"]
    /\ UNCHANGED <<taskVars, drifted, callVars>>

\* vTaskDelete of another task.  Its handle may be stale by now: a deleted
\* task's handle is undefined behaviour, which either has no effect or ends
\* the run, and a reused one names a task the caller never chose.
StopDelete(h) ==
    /\ Executes(h) /\ pc[h] = "stop_delete"
    /\ target[h] # h
    /\ pc' = [pc EXCEPT ![h] = "stop_exit",
                        ![target[h]] = IF @ = "none" THEN "none" ELSE "dead"]
    /\ UNCHANGED <<registryVars, taskVars, drifted, callVars, muxVars>>

\* vTaskDelete of the caller: it does not return.
StopDeleteSelf(h) ==
    /\ Executes(h) /\ pc[h] = "stop_delete"
    /\ target[h] = h
    /\ pc' = [pc EXCEPT ![h] = "dead"]
    /\ UNCHANGED <<registryVars, taskVars, drifted, callVars, muxVars>>

\* portEXIT_CRITICAL
StopExit(h) ==
    /\ Executes(h) /\ pc[h] = "stop_exit"
    /\ muxCount' = muxCount - 1
    /\ pc' = [pc EXCEPT ![h] = "stop_return"]
    /\ UNCHANGED <<registryVars, taskVars, drifted, callVars, muxOwner>>

\* The call returns; its locals are gone.  The ID in its result is read through
\* the node that was just freed, so it means nothing and is left out.
StopReturn(h) ==
    /\ Executes(h) /\ pc[h] = "stop_return"
    /\ pc' = [pc EXCEPT ![h] = "run"]
    /\ target' = [target EXCEPT ![h] = h]
    /\ UNCHANGED <<registryVars, taskVars, drifted, node, muxVars>>

Stop(h) ==
    \/ \E t \in Handles : StopCheck(h, t)
    \/ StopRemove(h) \/ StopDelete(h) \/ StopDeleteSelf(h) \/ StopExit(h)
    \/ StopReturn(h)

-----------------------------------------------------------------------------
Next == \E h \in Handles : Start(h) \/ Template(h) \/ Stop(h) \/ Migrate(h) \/ Reap(h)

Spec == Init /\ [][Next]_vars

\* A task inside a critical section cannot be preempted.  A context's task
\* that is on its way out has a higher priority than the REPL and the same as
\* the others: it runs again and again between their critical sections, and
\* finds the mux free again and again.  Nothing is assumed of the idle task.
FairSpec ==
    /\ Spec
    /\ \A h \in Handles : WF_vars(StopDelete(h) \/ StopDeleteSelf(h) \/ StopExit(h))
    /\ \A h \in Handles \ {MainTask} : SF_vars(TaskRemoveSelf(h) \/ TaskDeleteSelf(h))

-----------------------------------------------------------------------------
(* Properties                                                               *)

\* Registry, tasks, calls and the mux keep their types.
TypeOK ==
    /\ registry \in Seq(AllNodes) /\ registry # <<>>
    /\ id \in [AllNodes -> TaskIds]
    /\ mem \in [AllNodes -> SUBSET Blocks]
    /\ pc \in [Handles ->
               {"none", "dead", "run", "spawn", "thread_init", "heap", "exit", "exit_delete",
                "start_append", "start_source", "start_create",
                "stop_enter", "stop_delete", "stop_exit", "stop_return"}]
    /\ ctx \in [Handles -> AllNodes] /\ core \in [Handles -> Cores]
    /\ roaming \subseteq Roamers /\ drifted \in BOOLEAN
    /\ node \in [Handles -> AllNodes] /\ target \in [Handles -> Handles]
    /\ muxOwner \in Cores /\ muxCount \in 0..MaxNesting

\* mp_task_register "can't register the same task ID": no two registered
\* contexts share one, a context without an ID and a reused handle included,
\* unless a context that is not pinned has taken another task's.
UniqueTaskIds ==
    drifted \/ \A i, j \in 1..Len(registry) : id[registry[i]] = id[registry[j]] => i = j

\* The head of the registry stays, and nothing but the registry holds memory:
\* what a context owned is gone when it is, also if its ID was wrong.
NothingLeaks == registry[1] = Main /\ \A n \in AllNodes \ Registered : mem[n] = {}

\* Tasks that are gone or are about to delete themselves, their context removed.
Leaving(u) ==
    \/ pc[u] \in {"none", "dead", "exit_delete"}
    \/ pc[u] = "stop_delete" /\ target[u] = u

\* "When a new task spawns it already has a context allocated", which has no ID
\* yet and which no other task uses; the latter unless a wrong ID has let a
\* task take out the context of another.
SpawnHasContext ==
    \A t \in Handles : pc[t] = "spawn" =>
        /\ ctx[t] \in Registered /\ id[ctx[t]] = Unknown
        /\ drifted \/ \A u \in Handles \ {t} : Leaving(u) \/ ctx[u] # ctx[t]

\* A task that FreeRTOS may run and that executes Python owns the heap it
\* uses: a context is not stopped under the feet of its own task.  The critical
\* section of the stop guards only the stopper's core, and the heap is found
\* through the ID, hence the conditions.
StoppedFromOwnCore(t) == \A h \in Handles : <<h, t>> \in MayStop => core[h] = core[t]
RunnableOwnsHeap ==
    \A t \in Handles :
        /\ ~drifted
        /\ StoppedFromOwnCore(t)
        /\ Executes(t)
        /\ pc[t] \in {"run", "start_append", "start_source", "start_create",
                      "stop_enter", "stop_return"}
        => \E n \in Registered : id[n] = t /\ "heap" \in mem[n]

\* "When a task deletes itself make sure to release the mux before dying":
\* every entry into the mux is that of a task still there to leave it.
MuxHolderAlive == muxCount = Cardinality({h \in Handles : pc[h] \in InMux})

\* A context's task that has come to its end is deleted, whoever is stopping or
\* starting contexts meanwhile and wherever it moves, unless a task has died
\* with the mux.
ExitingTaskEnds ==
    \A t \in Handles \ {MainTask} : pc[t] = "exit" ~> pc[t] \in {"dead", "none"} \/ ~MuxHolderAlive
=============================================================================
