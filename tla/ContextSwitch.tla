--------------------------- MODULE ContextSwitch ---------------------------
(***************************************************************************)
(* Which context a core works on (py/mpstate.c): the per-core variables    *)
(* mp_current_tIDs, mp_active_contexts, mp_active_context_mirrors and the  *)
(* copies of sys.path that FreeRTOS's switch hook, mp_task_switched_in,    *)
(* and the start of a context task (multipython_task_template) maintain.   *)
(*                                                                         *)
(* MP_STATE_VM and the other per-core variables are indexed with           *)
(* MICROPY_GET_CORE_INDEX: a task first reads the number of its core and   *)
(* then accesses the variable, and may be preempted, or moved to another   *)
(* core, in between.                                                       *)
(***************************************************************************)
EXTENDS Integers, FiniteSets

CONSTANTS
    Cores,      \* the processor cores
    ReplCore,   \* MICROPY_REPL_CORE
    ContextTasks, \* the tasks of contexts; each stands for its context
    Threads,    \* tasks of _thread.start_new_thread
    Owner,      \* the context of each thread
    Affinity,   \* the cores on which FreeRTOS may run each task
    Dirs,       \* directories a program may append to sys.path
    Root,       \* the entries every context starts with
    Null        \* no value

IdleTask(k) == <<"idle", k>>
IdleTasks == {IdleTask(k) : k \in Cores}
Users == ContextTasks \cup Threads
Tasks == Users \cup IdleTasks

ASSUME TasksAssumption ==
    /\ ReplCore \in Cores
    /\ Owner \in [Threads -> ContextTasks]
    /\ Affinity \in [Users -> SUBSET Cores]
    /\ ContextTasks \cap Threads = {} /\ Users \cap IdleTasks = {}
    /\ Null \notin Tasks \cup Cores

VARIABLES
    running,    \* the task each core runs
    current,    \* mp_current_tIDs
    active,     \* mp_active_contexts
    mirror,     \* mp_active_context_mirrors: whose copy it is
    shown,      \* mp_active_sys_path_objs: what each core's sys.path holds
    id,         \* the id field of each context node
    path,       \* the mp_sys_path_obj of each context's own state
    pc,         \* how far each context's task has come
    idx         \* the core number a task has read and not used yet

coreVars == <<running, current, active, mirror, shown>>
contextVars == <<id, path, pc>>
switchVars == <<running, current, active, mirror, shown, id, path, pc, idx>>

SwitchInit ==
    /\ running = [k \in Cores |-> IdleTask(k)]
    /\ current = [k \in Cores |-> IdleTask(k)]
    /\ active = [k \in Cores |-> Null]
    /\ mirror = [k \in Cores |-> Null]
    /\ shown = [k \in Cores |-> {}]
    /\ id = [c \in ContextTasks |-> Null]
    /\ path = [c \in ContextTasks |-> {}]
    /\ pc = [c \in ContextTasks |-> "id"]
    /\ idx = [u \in Users |-> Null]

IsRunning(t) == \E k \in Cores : running[k] = t
CoreOf(t) == CHOOSE k \in Cores : running[k] = t
OwnerOf(u) == IF u \in ContextTasks THEN u ELSE Owner[u]

-----------------------------------------------------------------------------
(* The switch hook                                                          *)

\* FreeRTOS may run task t on core k.
MayRun(k, t) ==
    /\ ~IsRunning(t)
    /\ t \in Users => k \in Affinity[t]
    /\ t \in Threads => pc[Owner[t]] = "run"
    /\ t \in IdleTasks => t = IdleTask(k)

\* Mutant of SwitchedIn: the mirror of the core is left behind.
SwitchedInNoMirror(k, t) ==
    /\ MayRun(k, t)
    /\ running' = [running EXCEPT ![k] = t]
    /\ current' = [current EXCEPT ![k] = t]
    /\ \/ /\ t \notin {id[c] : c \in ContextTasks}
          /\ UNCHANGED <<active, mirror, shown>>
       \/ \E c \in ContextTasks :
             /\ id[c] = t
             /\ active' = [active EXCEPT ![k] = c]
             /\ shown' = [shown EXCEPT ![k] = path[c]]
             /\ UNCHANGED mirror
    /\ UNCHANGED <<contextVars, idx>>

\* mp_task_switched_in: a task that is not the task of a context leaves the
\* core with the context it had; otherwise mp_context_switch replaces it, its
\* mirror and the copy of sys.path.
SwitchedIn(k, t) ==
    /\ MayRun(k, t)
    /\ running' = [running EXCEPT ![k] = t]
    /\ current' = [current EXCEPT ![k] = t]
    /\ \/ /\ t \notin {id[c] : c \in ContextTasks}
          /\ UNCHANGED <<active, mirror, shown>>
       \/ \E c \in ContextTasks :
             /\ id[c] = t
             /\ active' = [active EXCEPT ![k] = c]
             /\ mirror' = [mirror EXCEPT ![k] = c]
             /\ shown' = [shown EXCEPT ![k] = path[c]]
    /\ UNCHANGED <<contextVars, idx>>

-----------------------------------------------------------------------------
(* Accesses through MICROPY_GET_CORE_INDEX, in two steps                    *)

\* A task reads the number of the core it is on.
ReadCore(u) ==
    /\ IsRunning(u)
    /\ idx[u] = Null
    /\ idx' = [idx EXCEPT ![u] = CoreOf(u)]
    /\ UNCHANGED <<coreVars, contextVars>>

\* Task u uses the core number it has read.
Access(u) ==
    /\ IsRunning(u)
    /\ idx[u] # Null
    /\ idx' = [idx EXCEPT ![u] = Null]

\* Context c's task, about to do step l of its start-up, goes on to m.
Boot(c, l, m) ==
    /\ pc[c] = l
    /\ Access(c)
    /\ pc' = [pc EXCEPT ![c] = m]

\* Mutant of StoreId: the id stays unknown.
StoreIdNot(c) ==
    /\ Boot(c, "id", "active")
    /\ UNCHANGED <<coreVars, id, path>>

\* Mutant of StoreId: the task of the REPL's core is taken for the caller.
StoreIdOfReplCore(c) ==
    /\ Boot(c, "id", "active")
    /\ id' = [id EXCEPT ![c] = current[ReplCore]]
    /\ UNCHANGED <<coreVars, path>>

\* context->id = mp_current_tIDs[...]
StoreId(c) ==
    /\ Boot(c, "id", "active")
    /\ id' = [id EXCEPT ![c] = current[idx[c]]]
    /\ UNCHANGED <<coreVars, path>>

\* mp_context_switch, called by the task itself: three assignments.
StoreActive(c) ==
    /\ Boot(c, "active", "mirror")
    /\ active' = [active EXCEPT ![idx[c]] = c]
    /\ UNCHANGED <<running, current, mirror, shown, id, path>>

StoreMirror(c) ==
    /\ Boot(c, "mirror", "refresh")
    /\ mirror' = [mirror EXCEPT ![idx[c]] = active[idx[c]]]
    /\ UNCHANGED <<running, current, active, shown, id, path>>

\* mp_context_refresh: the copy of sys.path, read through MP_STATE_VM.
Refresh(c, l, m) ==
    /\ Boot(c, l, m)
    /\ shown' = [shown EXCEPT ![idx[c]] = path[mirror[idx[c]]]]
    /\ UNCHANGED <<running, current, active, mirror, id, path>>

\* mp_sys_path is filled, through MP_STATE_VM.
InitPath(c) ==
    /\ Boot(c, "path", "show")
    /\ path' = [path EXCEPT ![mirror[idx[c]]] = {Root}]
    /\ UNCHANGED <<coreVars, id>>

\* The program, or a thread of it, uses MP_STATE_VM.
UseVm(u) ==
    /\ pc[OwnerOf(u)] = "run"
    /\ Access(u)
    /\ UNCHANGED <<coreVars, contextVars>>

\* sys.path.append: sys.path is the copy of the REPL's core.
AppendPath(c, d) ==
    /\ IsRunning(c)
    /\ pc[c] = "run"
    /\ shown' = [shown EXCEPT ![ReplCore] = @ \cup {d}]
    /\ UNCHANGED <<running, current, active, mirror, id, path, pc, idx>>

-----------------------------------------------------------------------------
BootNext(c) ==
    \/ StoreId(c)
    \/ StoreActive(c)
    \/ StoreMirror(c)
    \/ Refresh(c, "refresh", "path")
    \/ InitPath(c)
    \/ Refresh(c, "show", "run")
    \/ \E d \in Dirs : AppendPath(c, d)

SwitchNext ==
    \/ \E k \in Cores, t \in Tasks : SwitchedIn(k, t)
    \/ \E c \in ContextTasks : BootNext(c)
    \/ \E u \in Users : ReadCore(u) \/ UseVm(u)

SwitchSpec == SwitchInit /\ [][SwitchNext]_switchVars

-----------------------------------------------------------------------------
(* Properties                                                               *)

Labels == {"id", "active", "mirror", "refresh", "path", "show", "run"}
Entries == Dirs \cup {Root}

\* The per-core variables and the contexts keep their types.
SwitchTypeOK ==
    /\ running \in [Cores -> Tasks]
    /\ current \in [Cores -> Tasks]
    /\ active \in [Cores -> ContextTasks \cup {Null}]
    /\ mirror \in [Cores -> ContextTasks \cup {Null}]
    /\ shown \in [Cores -> SUBSET Entries]
    /\ id \in [ContextTasks -> Tasks \cup {Null}]
    /\ path \in [ContextTasks -> SUBSET Entries]
    /\ pc \in [ContextTasks -> Labels]
    /\ idx \in [Users -> Cores \cup {Null}]

\* "it is up to the task to set the context id correctly": the id of a context
\* is the id of its own task.
IdNamesOwnTask == \A c \in ContextTasks : id[c] \in {Null, c}

\* A task that is about to use MP_STATE_VM, once its context is set up, finds
\* the state of its own context, whatever ran on its core meanwhile.
AccessesOwnVm ==
    \A u \in Users :
        IsRunning(u) /\ idx[u] # Null /\ pc[OwnerOf(u)] \in {"path", "show", "run"}
            => mirror[idx[u]] = OwnerOf(u)

\* A context that has started has its own import path: no other context's
\* start-up wrote it or was given it.
StartedContextHasPath ==
    \A c \in ContextTasks : path[c] = IF pc[c] \in {"show", "run"} THEN {Root} ELSE {}
=============================================================================
