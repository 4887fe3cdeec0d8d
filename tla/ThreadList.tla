----------------------------- MODULE ThreadList -----------------------------
(***************************************************************************)
(* The threads of one context (ports/esp32/mpthreadport.c and thread_entry *)
(* of py/modthread.c): the linked list with one node per thread, the mutex *)
(* that guards it, and the life of a thread from _thread.start_new_thread  *)
(* to the idle task's vPortCleanUpTCB, or to mp_thread_deinit at a soft    *)
(* reset.                                                                  *)
(*                                                                         *)
(* A thread is named by its FreeRTOS handle, which FreeRTOS may hand out   *)
(* again once the task has been cleaned up.  Operations that only read or  *)
(* update the list under the mutex are single steps unless another thread  *)
(* could be deleted, or created, in their middle.                          *)
(***************************************************************************)
EXTENDS Integers, Sequences, FiniteSets, SequencesExt

CONSTANTS
    Main,       \* the context's own task, entry0 of the list
    Children,   \* the handles threads can get
    Idle,       \* FreeRTOS's idle task, which frees deleted tasks
    NoThread    \* no thread

Threads == Children \cup {Main}

ASSUME ThreadsAssumption ==
    Main \notin Children /\ Idle \notin Threads /\ NoThread \notin Threads \cup {Idle}

VARIABLES
    pc,         \* where each thread is; "none" when the handle is free
    list,       \* the nodes, newest first
    ready,      \* the nodes whose ready field is 1
    mux,        \* who holds the list's mutex
    gil,        \* who holds gil_mutex
    newborn,    \* the thread whose node its creator has not linked yet
    victim,     \* the thread mp_thread_deinit is about to delete
    scanned,    \* the stacks the last collection has scanned
    cut         \* a node was unlinked that was not the newest

vars == <<pc, list, ready, mux, gil, newborn, victim, scanned, cut>>

Init ==
    /\ pc = [t \in Threads |-> IF t = Main THEN "run" ELSE "none"]
    /\ list = <<Main>>
    /\ ready = {Main}
    /\ mux = NoThread
    /\ gil = Main
    /\ newborn = NoThread
    /\ victim = NoThread
    /\ scanned = {}
    /\ cut = FALSE

Goto(t, l) == pc' = [pc EXCEPT ![t] = l]

\* Thread t runs Python code.
InPython(t) == gil = t /\ pc[t] = "run"

Listed == ToSet(list)

-----------------------------------------------------------------------------
(* The GIL                                                                  *)

\* A thread gives up the GIL in the middle of its Python code, and waits.
GilRelease(t) ==
    /\ InPython(t)
    /\ gil' = NoThread
    /\ UNCHANGED <<pc, list, ready, mux, newborn, victim, scanned, cut>>

GilTake(t) ==
    /\ pc[t] = "run"
    /\ gil = NoThread
    /\ gil' = t
    /\ UNCHANGED <<pc, list, ready, mux, newborn, victim, scanned, cut>>

-----------------------------------------------------------------------------
(* mp_thread_create_ex                                                      *)

\* The node is allocated and the list locked.
CreateLock(t) ==
    /\ InPython(t)
    /\ mux = NoThread
    /\ mux' = t
    /\ Goto(t, "create_locked")
    /\ UNCHANGED <<list, ready, gil, newborn, victim, scanned, cut>>

\* xTaskCreate: the new task exists before it has a node.
CreateTask(t, c) ==
    /\ pc[t] = "create_locked"
    /\ pc[c] = "none"
    /\ newborn' = c
    /\ pc' = [pc EXCEPT ![t] = "create", ![c] = "gil"]
    /\ UNCHANGED <<list, ready, mux, gil, victim, scanned, cut>>

\* There is no memory for the task: the list is unlocked and OSError raised.
CreateFail(t) ==
    /\ pc[t] = "create_locked"
    /\ mux' = NoThread
    /\ Goto(t, "run")
    /\ UNCHANGED <<list, ready, gil, newborn, victim, scanned, cut>>

\* Mutant of CreateLink: the next field is not set.
CreateLinkCuts(t) ==
    /\ pc[t] = "create"
    /\ list' = <<newborn>>
    /\ newborn' = NoThread
    /\ mux' = NoThread
    /\ Goto(t, "run")
    /\ UNCHANGED <<ready, gil, victim, scanned, cut>>

\* The node goes to the front of the list, not ready, and the list is unlocked.
CreateLink(t) ==
    /\ pc[t] = "create"
    /\ list' = <<newborn>> \o list
    /\ newborn' = NoThread
    /\ mux' = NoThread
    /\ Goto(t, "run")
    /\ UNCHANGED <<ready, gil, victim, scanned, cut>>

-----------------------------------------------------------------------------
(* thread_entry                                                             *)

\* Mutant of EntryGil: the thread does not wait for the GIL.
EntryGilSkipped(t) ==
    /\ pc[t] = "gil"
    /\ Goto(t, "start")
    /\ UNCHANGED <<list, ready, mux, gil, newborn, victim, scanned, cut>>

EntryGil(t) ==
    /\ pc[t] = "gil"
    /\ gil = NoThread
    /\ gil' = t
    /\ Goto(t, "start")
    /\ UNCHANGED <<list, ready, mux, newborn, victim, scanned, cut>>

\* mp_thread_start and mp_thread_finish lock the list ...
StartLock(t) ==
    /\ pc[t] = "start"
    /\ mux = NoThread
    /\ mux' = t
    /\ Goto(t, "start_locked")
    /\ UNCHANGED <<list, ready, gil, newborn, victim, scanned, cut>>

\* Mutant of StartReady: the node is not marked.
StartNotReady(t) ==
    /\ pc[t] = "start_locked"
    /\ mux' = NoThread
    /\ Goto(t, "run")
    /\ UNCHANGED <<list, ready, gil, newborn, victim, scanned, cut>>

\* ... and mark the node of the running thread, if there is one.
StartReady(t) ==
    /\ pc[t] = "start_locked"
    /\ ready' = IF t \in Listed THEN ready \cup {t} ELSE ready
    /\ mux' = NoThread
    /\ Goto(t, "run")
    /\ UNCHANGED <<list, gil, newborn, victim, scanned, cut>>

\* The function of the thread has returned or raised an exception.
FinishLock(t) ==
    /\ t # Main
    /\ InPython(t)
    /\ mux = NoThread
    /\ mux' = t
    /\ Goto(t, "finish_locked")
    /\ UNCHANGED <<list, ready, gil, newborn, victim, scanned, cut>>

FinishNotReady(t) ==
    /\ pc[t] = "finish_locked"
    /\ ready' = ready \ {t}
    /\ mux' = NoThread
    /\ Goto(t, "exit")
    /\ UNCHANGED <<list, gil, newborn, victim, scanned, cut>>

ExitGil(t) ==
    /\ pc[t] = "exit"
    /\ gil' = NoThread
    /\ Goto(t, "delete")
    /\ UNCHANGED <<list, ready, mux, newborn, victim, scanned, cut>>

\* vTaskDelete(NULL): the idle task will clean up.
DeleteSelf(t) ==
    /\ pc[t] = "delete"
    /\ Goto(t, "deleted")
    /\ UNCHANGED <<list, ready, mux, gil, newborn, victim, scanned, cut>>

-----------------------------------------------------------------------------
(* vPortCleanUpTCB and mp_thread_deinit                                     *)

Position(t) == CHOOSE i \in 1..Len(list) : list[i] = t

\* Mutant of Unlink: the node stays.
UnlinkNothing(t) == UNCHANGED <<list, ready, cut>>

\* The search never moves prev, so that the list starts after the node that
\* was found: the nodes before it are dropped with it.
Unlink(t) ==
    IF t \in Listed
      THEN /\ list' = SubSeq(list, Position(t) + 1, Len(list))
           /\ ready' = ready \cap ToSet(list')
           /\ cut' = (cut \/ Position(t) > 1)
      ELSE UNCHANGED <<list, ready, cut>>

\* The idle task frees a task that has deleted itself: it locks the list ...
CleanUpLock(t) ==
    /\ pc[t] = "deleted"
    /\ mux = NoThread
    /\ mux' = Idle
    /\ Goto(t, "clean_up")
    /\ UNCHANGED <<list, ready, gil, newborn, victim, scanned, cut>>

\* ... unlinks the node and unlocks it again.
CleanUpUnlink(t) ==
    /\ pc[t] = "clean_up"
    /\ Unlink(t)
    /\ mux' = NoThread
    /\ Goto(t, "none")
    /\ UNCHANGED <<gil, newborn, victim, scanned>>

\* The REPL ends: machine_timer_deinit_all, then mp_thread_deinit.
DeinitStart ==
    /\ InPython(Main)
    /\ Goto(Main, "deinit")
    /\ UNCHANGED <<list, ready, mux, gil, newborn, victim, scanned, cut>>

\* Mutant of DeinitPick: threads that have not started yet are left alone.
DeinitPickReady ==
    LET Other(i) == list[i] # Main /\ list[i] \in ready IN
    /\ pc[Main] = "deinit"
    /\ mux = NoThread
    /\ \/ /\ \A i \in 1..Len(list) : ~Other(i)
          /\ Goto(Main, "done")
          /\ UNCHANGED victim
       \/ \E i \in 1..Len(list) :
             /\ Other(i) /\ \A j \in 1..(i - 1) : ~Other(j)
             /\ Goto(Main, "deinit_delete")
             /\ victim' = list[i]
    /\ UNCHANGED <<list, ready, mux, gil, newborn, scanned, cut>>

\* The first node that is not the current task is chosen, if there is one.
DeinitPick ==
    LET Other(i) == list[i] # Main IN
    /\ pc[Main] = "deinit"
    /\ mux = NoThread
    /\ \/ /\ \A i \in 1..Len(list) : ~Other(i)
          /\ Goto(Main, "done")
          /\ UNCHANGED victim
       \/ \E i \in 1..Len(list) :
             /\ Other(i) /\ \A j \in 1..(i - 1) : ~Other(j)
             /\ Goto(Main, "deinit_delete")
             /\ victim' = list[i]
    /\ UNCHANGED <<list, ready, mux, gil, newborn, scanned, cut>>

\* The thread exists: it has been created and is not deleted.
Active(t) == pc[t] \notin {"none", "deleted", "clean_up", "killed"}

\* vTaskDelete of a task that exists: the task stops where it is ...
DeinitDelete ==
    /\ pc[Main] = "deinit_delete"
    /\ Active(victim)
    /\ pc' = [pc EXCEPT ![Main] = "deinit_clean_up", ![victim] = "killed"]
    /\ UNCHANGED <<list, ready, mux, gil, newborn, victim, scanned, cut>>

\* ... and vTaskDelete calls vPortCleanUpTCB, which waits for the mutex.
DeinitCleanUp ==
    /\ pc[Main] = "deinit_clean_up"
    /\ mux = NoThread
    /\ Unlink(victim)
    /\ pc' = [pc EXCEPT ![Main] = "deinit", ![victim] = "none"]
    /\ victim' = NoThread
    /\ UNCHANGED <<mux, gil, newborn, scanned>>

\* vTaskDelete is given the handle of a task that has already deleted itself,
\* or that the idle task has freed since; FreeRTOS does not define what happens.
\* Either nothing does ...
DeinitDeleteAgain ==
    /\ pc[Main] = "deinit_delete"
    /\ ~Active(victim)
    /\ Goto(Main, "deinit")
    /\ victim' = NoThread
    /\ UNCHANGED <<list, ready, mux, gil, newborn, scanned, cut>>

\* ... or the task, if it still waits for the idle task, is freed at once ...
DeinitDeleteWaiting ==
    /\ pc[Main] = "deinit_delete"
    /\ pc[victim] = "deleted"
    /\ pc' = [pc EXCEPT ![Main] = "deinit_clean_up", ![victim] = "killed"]
    /\ UNCHANGED <<list, ready, mux, gil, newborn, victim, scanned, cut>>

\* ... or FreeRTOS reads memory that is gone, and the chip restarts.
DeinitPanic ==
    /\ pc[Main] = "deinit_delete"
    /\ ~Active(victim)
    /\ pc' = [t \in Threads |-> IF t = Main THEN "run" ELSE "none"]
    /\ list' = <<Main>>
    /\ ready' = {Main}
    /\ mux' = NoThread
    /\ gil' = Main
    /\ newborn' = NoThread
    /\ victim' = NoThread
    /\ scanned' = {}
    /\ cut' = FALSE

\* goto soft_reset: mp_init makes a new GIL and takes it; the list is kept.
SoftReset ==
    /\ pc[Main] = "done"
    /\ gil' = Main
    /\ Goto(Main, "run")
    /\ UNCHANGED <<list, ready, mux, newborn, victim, scanned, cut>>

-----------------------------------------------------------------------------
\* mp_thread_gc_others locks the list ...
GcLock(t) ==
    /\ InPython(t)
    /\ mux = NoThread
    /\ mux' = t
    /\ Goto(t, "gc")
    /\ UNCHANGED <<list, ready, gil, newborn, victim, scanned, cut>>

\* ... and scans the stacks of the ready threads other than the current one.
GcScan(t) ==
    /\ pc[t] = "gc"
    /\ scanned' = (Listed \cap ready) \ {t}
    /\ mux' = NoThread
    /\ Goto(t, "run")
    /\ UNCHANGED <<list, ready, gil, newborn, victim, cut>>

-----------------------------------------------------------------------------
\* A thread that has work to do does it.
ThreadStep(t) ==
    \/ GilRelease(t)
    \/ GilTake(t)
    \/ CreateLock(t)
    \/ \E c \in Children : CreateTask(t, c)
    \/ CreateFail(t)
    \/ CreateLink(t)
    \/ EntryGil(t)
    \/ StartLock(t)
    \/ StartReady(t)
    \/ FinishLock(t)
    \/ FinishNotReady(t)
    \/ ExitGil(t)
    \/ DeleteSelf(t)
    \/ GcLock(t)
    \/ GcScan(t)

CleanUp(t) == CleanUpLock(t) \/ CleanUpUnlink(t)

Deinit ==
    \/ DeinitPick
    \/ DeinitDelete
    \/ DeinitCleanUp
    \/ DeinitDeleteAgain
    \/ DeinitDeleteWaiting
    \/ DeinitPanic

Next ==
    \/ \E t \in Threads : ThreadStep(t) \/ CleanUp(t)
    \/ DeinitStart
    \/ Deinit
    \/ SoftReset

Spec == Init /\ [][Next]_vars

\* The main task goes on with the soft reset.  Nothing is assumed about the idle
\* task: mp_thread_deinit never waits, and can keep it from running for ever.
FairSpec == Spec /\ WF_vars(Deinit)

-----------------------------------------------------------------------------
(* Properties                                                               *)

MainLabels == {"run", "create_locked", "create", "gc", "deinit", "deinit_delete",
               "deinit_clean_up", "done"}
ChildLabels == {"none", "gil", "start", "start_locked", "run", "create_locked",
                "create", "gc", "finish_locked", "exit", "delete", "deleted", "clean_up",
                "killed"}

\* The thread list and its locks keep their types; no thread has two nodes.
TypeOK ==
    /\ pc \in [Threads -> MainLabels \cup ChildLabels]
    /\ pc[Main] \in MainLabels
    /\ \A c \in Children : pc[c] \in ChildLabels
    /\ list \in Seq(Threads)
    /\ IsInjective(list)
    /\ ready \subseteq Listed
    /\ mux \in Threads \cup {Idle, NoThread}
    /\ gil \in Threads \cup {NoThread}
    /\ newborn \in Children \cup {NoThread}
    /\ victim \in Children \cup {NoThread}
    /\ scanned \subseteq Threads
    /\ cut \in BOOLEAN

\* "this structure forms a linked list, one node per active thread": a thread
\* that is created, and linked, stays in the list as long as it exists.
OneNodePerThread == \A t \in Threads : Active(t) /\ t # newborn => t \in Listed

\* The list of mpthreadport.c has a node for every thread that exists, as long
\* as the threads end in the opposite order of their creation.
ActiveThreadsListed == cut \/ OneNodePerThread

\* No node outlives its task: what mp_thread_gc_others and mp_thread_deinit
\* read from the list has not been cleaned up.
NodesHaveTasks == \A t \in Listed : pc[t] # "none"

\* Nobody is deleted while it holds the mutex of the list, which would block
\* vPortCleanUpTCB, and with it the idle task, for ever.
MuxHolderExists == mux \in Threads => Active(mux)

\* As long as no node was lost, a collection scans the stack of every other
\* thread in the middle of its Python code.
CollectionScansEveryStack ==
    [][\A t \in Threads : pc[t] = "gc" /\ pc'[t] = "run" =>
          cut \/ {u \in Threads : pc[u] = "run"} \ {t} \subseteq scanned']_vars

\* After mp_thread_deinit no thread of the context is left to run on the heap
\* that the soft reset is about to sweep, unless its node was lost.
DeinitLeavesNobody == pc[Main] = "done" /\ ~cut => \A c \in Children : ~Active(c)

\* Some thread has deleted itself and the idle task has not freed it yet.
IdleHasWork == \E c \in Children : pc[c] \in {"deleted", "clean_up"}

\* mp_thread_deinit comes to an end (or to a restart), unless the idle task is
\* starved: then the loop meets the node of a thread that has ended, and nobody
\* else takes that node out of the list.
DeinitEnds == pc[Main] = "deinit" ~> pc[Main] \in {"done", "run"} \/ []IdleHasWork
=============================================================================
