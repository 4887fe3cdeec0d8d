----------------------------- MODULE Scheduler -----------------------------
(***************************************************************************)
(* The scheduler of one context's VM (py/scheduler.c): the ring of         *)
(* callbacks that mp_sched_schedule fills, the pending exception that the  *)
(* keyboard interrupt leaves, and sched_state, which tells the VM whether  *)
(* there is something to do and whether it may do it.                      *)
(*                                                                         *)
(* The threads of the context run one at a time, under the GIL.  Between   *)
(* opcodes a thread tests sched_state without protection, and only then    *)
(* enters an atomic section; a callback runs with the scheduler locked.    *)
(* Interrupt handlers of the same core may run between any two steps, and  *)
(* not inside an atomic section, which disables them.                      *)
(***************************************************************************)
EXTENDS Integers, Sequences, FiniteSets

CONSTANTS
    Threads,    \* the threads of the context
    Callbacks,  \* the functions that can be scheduled
    Depth,      \* MICROPY_SCHEDULER_DEPTH
    MaxNest,    \* bound: scheduler locks a thread can hold at once
    None        \* no thread, no callback

ASSUME ThreadsAssumption == IsFiniteSet(Threads) /\ None \notin Threads
ASSUME DepthAssumption == Depth \in Nat \ {0}
ASSUME NestAssumption == MaxNest \in Nat \ {0}

VARIABLES
    sched_state,            \* idle, pending, or minus the number of locks held
    sched_stack,            \* the ring of callbacks
    sched_idx,              \* the oldest callback
    sched_len,              \* how many are waiting
    mp_pending_exception,   \* the exception to be raised, if any
    gil,                    \* the thread that holds gil_mutex
    pc,                     \* where each thread is
    frames,                 \* the locks each thread holds: what runs under each
    ret,                    \* what the last mp_sched_schedule returned
    called                  \* the callback called last

queueVars == <<sched_stack, sched_idx, sched_len, ret, called>>
vars == <<sched_state, sched_stack, sched_idx, sched_len, mp_pending_exception,
          gil, pc, frames, ret, called>>

MP_SCHED_IDLE == 1
MP_SCHED_PENDING == 0
MP_SCHED_LOCKED == -1

MP_OBJ_NULL == "null"
KBD_EXCEPTION == "mp_kbd_exception"

IDX_MASK(i) == i % Depth

Init ==
    /\ sched_state = MP_SCHED_IDLE
    /\ sched_stack = [i \in 0..(Depth - 1) |-> None]
    /\ sched_idx = 0
    /\ sched_len = 0
    /\ mp_pending_exception = MP_OBJ_NULL
    /\ gil = None
    /\ pc = [t \in Threads |-> "gil_turn"]
    /\ frames = [t \in Threads |-> <<>>]
    /\ ret = 0
    /\ called = None

Goto(t, l) == pc' = [pc EXCEPT ![t] = l]
At(t, l) == gil = t /\ pc[t] = l

-----------------------------------------------------------------------------
(* The locks.                                                               *)

\* Mutant of Lock: a lock inside a lock is not counted.
LockFlat == sched_state' = MP_SCHED_LOCKED

\* mp_sched_lock: one more lock than before.
Lock ==
    sched_state' = IF sched_state < 0 THEN sched_state - 1 ELSE MP_SCHED_LOCKED

\* Mutant of Unlock: only the callbacks are looked at.
UnlockForgetsException ==
    sched_state' = IF sched_state + 1 # 0 THEN sched_state + 1
                   ELSE IF sched_len # 0 THEN MP_SCHED_PENDING ELSE MP_SCHED_IDLE

\* mp_sched_unlock: the last one looks for work that arrived meanwhile.
Unlock ==
    sched_state' = IF sched_state + 1 # 0 THEN sched_state + 1
                   ELSE IF mp_pending_exception # MP_OBJ_NULL \/ sched_len # 0
                        THEN MP_SCHED_PENDING ELSE MP_SCHED_IDLE

\* Tells the VM that there is work, unless the scheduler is locked.
Announce ==
    sched_state' = IF sched_state = MP_SCHED_IDLE THEN MP_SCHED_PENDING ELSE sched_state

-----------------------------------------------------------------------------
(* mp_sched_schedule, one atomic section.                                   *)

\* Mutant of ScheduleAccept: sched_len is incremented before the slot is chosen.
ScheduleAcceptAhead(c) ==
    /\ sched_len # Depth
    /\ Announce
    /\ sched_stack' = [sched_stack EXCEPT ![IDX_MASK(sched_idx + sched_len + 1)] = c]
    /\ sched_len' = sched_len + 1
    /\ ret' = 1
    /\ UNCHANGED <<sched_idx, called, mp_pending_exception>>

ScheduleAccept(c) ==
    /\ sched_len # Depth
    /\ Announce
    /\ sched_stack' = [sched_stack EXCEPT ![IDX_MASK(sched_idx + sched_len)] = c]
    /\ sched_len' = sched_len + 1
    /\ ret' = 1
    /\ UNCHANGED <<sched_idx, called, mp_pending_exception>>

ScheduleRefuse ==
    /\ sched_len = Depth
    /\ ret' = 0
    /\ UNCHANGED <<sched_state, sched_stack, sched_idx, sched_len, called,
                   mp_pending_exception>>

mp_sched_schedule(c) == ScheduleAccept(c) \/ ScheduleRefuse

-----------------------------------------------------------------------------
(* A thread that holds the GIL, between two tests of sched_state.           *)

\* An opcode that has nothing to do with the scheduler.
Opcode(t) ==
    /\ At(t, "code")
    /\ Goto(t, "check")
    /\ UNCHANGED <<sched_state, queueVars, mp_pending_exception, gil, frames>>

\* micropython.schedule; when the ring is full it raises RuntimeError.
ThreadSchedule(t, c) ==
    /\ At(t, "code")
    /\ mp_sched_schedule(c)
    /\ Goto(t, "check")
    /\ UNCHANGED <<gil, frames>>

\* The garbage collector finds an object with __del__: the finaliser runs
\* with the scheduler locked.
FinaliserEnter(t) ==
    /\ At(t, "code")
    /\ Len(frames[t]) < MaxNest
    /\ Lock
    /\ frames' = [frames EXCEPT ![t] = Append(@, "finaliser")]
    /\ Goto(t, "check")
    /\ UNCHANGED <<queueVars, mp_pending_exception, gil>>

\* The protected call of a finaliser or of a callback comes back, with or
\* without an exception.
ProtectedReturn(t) ==
    /\ At(t, "code")
    /\ frames[t] # <<>>
    /\ Unlock
    /\ frames' = [frames EXCEPT ![t] = SubSeq(@, 1, Len(@) - 1)]
    /\ Goto(t, "check")
    /\ UNCHANGED <<queueVars, mp_pending_exception, gil>>

\* mp_keyboard_interrupt called by a thread that reads a duplicated terminal:
\* three accesses, without an atomic section.
KeyboardStore(t) ==
    /\ At(t, "code")
    /\ mp_pending_exception' = KBD_EXCEPTION
    /\ Goto(t, "kbd_test")
    /\ UNCHANGED <<sched_state, queueVars, gil, frames>>

KeyboardTest(t) ==
    /\ At(t, "kbd_test")
    /\ Goto(t, IF sched_state = MP_SCHED_IDLE THEN "kbd_set" ELSE "check")
    /\ UNCHANGED <<sched_state, queueVars, mp_pending_exception, gil, frames>>

KeyboardSet(t) ==
    /\ At(t, "kbd_set")
    /\ sched_state' = MP_SCHED_PENDING
    /\ Goto(t, "check")
    /\ UNCHANGED <<queueVars, mp_pending_exception, gil, frames>>

\* A call that may block (a lock, the console, the end of
\* MICROPY_EVENT_POLL_HOOK) releases the GIL whatever sched_state is.
BlockingCall(t) ==
    /\ At(t, "code")
    /\ gil' = None
    /\ Goto(t, "blocked")
    /\ UNCHANGED <<sched_state, queueVars, mp_pending_exception, frames>>

\* What it waited for has come; _thread.lock.acquire may wait for ever.
BlockReturns(t) ==
    /\ pc[t] = "blocked"
    /\ Goto(t, "gil_wait")
    /\ UNCHANGED <<sched_state, queueVars, mp_pending_exception, gil, frames>>

-----------------------------------------------------------------------------
(* The test between opcodes, mp_handle_pending and its inlined variant.     *)

\* The unprotected test of sched_state.
CheckPending(t) ==
    /\ At(t, "check")
    /\ Goto(t, IF sched_state = MP_SCHED_PENDING THEN "handle" ELSE "switch")
    /\ UNCHANGED <<sched_state, queueVars, mp_pending_exception, gil, frames>>

\* Mutant of HandleRaise: the callbacks still waiting are forgotten.
HandleRaiseIdles(t) ==
    /\ At(t, "handle")
    /\ mp_pending_exception # MP_OBJ_NULL
    /\ mp_pending_exception' = MP_OBJ_NULL
    /\ sched_state' = MP_SCHED_IDLE
    /\ Goto(t, "code")
    /\ UNCHANGED <<queueVars, gil, frames>>

\* The atomic section when an exception is pending: it is raised, and the
\* callbacks wait for the next test.
HandleRaise(t) ==
    /\ At(t, "handle")
    /\ mp_pending_exception # MP_OBJ_NULL
    /\ mp_pending_exception' = MP_OBJ_NULL
    /\ sched_state' = IF sched_len = 0 THEN MP_SCHED_IDLE ELSE sched_state
    /\ Goto(t, "code")
    /\ UNCHANGED <<queueVars, gil, frames>>

\* Mutant of HandleCall: the callback is called without locking the scheduler.
HandleCallUnlocked(t) ==
    /\ At(t, "handle")
    /\ mp_pending_exception = MP_OBJ_NULL
    /\ sched_len # 0
    /\ called' = sched_stack[sched_idx]
    /\ sched_idx' = IDX_MASK(sched_idx + 1)
    /\ sched_len' = sched_len - 1
    /\ frames' = [frames EXCEPT ![t] = Append(@, "callback")]
    /\ Goto(t, "code")
    /\ UNCHANGED <<sched_state, sched_stack, ret, mp_pending_exception, gil>>

\* mp_handle_pending_tail: the oldest callback leaves the ring and is called
\* with the scheduler locked.
HandleCall(t) ==
    /\ At(t, "handle")
    /\ mp_pending_exception = MP_OBJ_NULL
    /\ sched_len # 0
    /\ sched_state' = MP_SCHED_LOCKED
    /\ called' = sched_stack[sched_idx]
    /\ sched_idx' = IDX_MASK(sched_idx + 1)
    /\ sched_len' = sched_len - 1
    /\ frames' = [frames EXCEPT ![t] = Append(@, "callback")]
    /\ Goto(t, "code")
    /\ UNCHANGED <<sched_stack, ret, mp_pending_exception, gil>>

\* The VM gives other threads a turn only while nothing is pending and
\* nothing is locked; gil_divisor makes it skip most turns.
VmSwitch(t) ==
    /\ At(t, "switch")
    /\ sched_state = MP_SCHED_IDLE
    /\ gil' = None
    /\ Goto(t, "gil_turn")
    /\ UNCHANGED <<sched_state, queueVars, mp_pending_exception, frames>>

VmContinue(t) ==
    /\ At(t, "switch")
    /\ Goto(t, "code")
    /\ UNCHANGED <<sched_state, queueVars, mp_pending_exception, gil, frames>>

\* The GIL is taken: the blocking call is over, or the next opcode begins.
GilEnter(t) ==
    /\ pc[t] \in {"gil_wait", "gil_turn"}
    /\ gil = None
    /\ gil' = t
    /\ Goto(t, IF pc[t] = "gil_wait" THEN "check" ELSE "code")
    /\ UNCHANGED <<sched_state, queueVars, mp_pending_exception, frames>>

-----------------------------------------------------------------------------
(* Interrupt handlers of this core, which interrupt any thread.             *)

\* A pin, a timer or machine.IRQ schedules its callback.
IrqSchedule(c) ==
    /\ mp_sched_schedule(c)
    /\ UNCHANGED <<gil, pc, frames>>

\* Mutant of IrqKeyboard: the exception is stored and sched_state left alone.
IrqKeyboardSilent ==
    /\ mp_pending_exception' = KBD_EXCEPTION
    /\ UNCHANGED <<sched_state, queueVars, gil, pc, frames>>

\* uart_irq_handler has read the interrupt character.
IrqKeyboard ==
    /\ mp_pending_exception' = KBD_EXCEPTION
    /\ Announce
    /\ UNCHANGED <<queueVars, gil, pc, frames>>

-----------------------------------------------------------------------------
\* What a running thread does next, apart from waiting for the GIL.
ThreadStep(t) ==
    \/ Opcode(t)
    \/ \E c \in Callbacks : ThreadSchedule(t, c)
    \/ FinaliserEnter(t)
    \/ ProtectedReturn(t)
    \/ KeyboardStore(t)
    \/ KeyboardTest(t)
    \/ KeyboardSet(t)
    \/ BlockingCall(t)
    \/ CheckPending(t)
    \/ HandleRaise(t)
    \/ HandleCall(t)
    \/ VmSwitch(t)
    \/ VmContinue(t)

Irq == IrqKeyboard \/ \E c \in Callbacks : IrqSchedule(c)

Next ==
    \/ \E t \in Threads : ThreadStep(t) \/ BlockReturns(t) \/ GilEnter(t)
    \/ Irq

Spec == Init /\ [][Next]_vars

\* The innermost of n protected calls of thread t comes back.
ReturnFrom(t, n) == Len(frames[t]) = n /\ ProtectedReturn(t)

\* A thread hands the GIL on, or takes one that is free.
GilTurn(t) == VmSwitch(t) \/ GilEnter(t)

\* The running thread keeps running; gil_divisor runs down, and a thread that
\* could hand on or take the GIL again and again does; every callback and every
\* finaliser returns if it keeps getting the GIL.  Nothing is assumed about
\* interrupts, nor that a blocking call ends.
FairSpec ==
    /\ Spec
    /\ \A t \in Threads : WF_vars(ThreadStep(t)) /\ SF_vars(GilTurn(t))
    /\ \A t \in Threads : \A n \in 1..MaxNest : SF_vars(ReturnFrom(t, n))

-----------------------------------------------------------------------------
(* Properties                                                               *)

Labels == {"blocked", "gil_wait", "gil_turn", "code", "kbd_test", "kbd_set", "check",
           "handle", "switch"}
Frames == {"callback", "finaliser"}

\* Every variable of the scheduler keeps its type; in particular the number
\* of callbacks never exceeds the ring.
TypeOK ==
    /\ sched_state \in Int
    /\ sched_stack \in [0..(Depth - 1) -> Callbacks \cup {None}]
    /\ sched_idx \in 0..(Depth - 1)
    /\ sched_len \in 0..Depth
    /\ mp_pending_exception \in {MP_OBJ_NULL, KBD_EXCEPTION}
    /\ gil \in Threads \cup {None}
    /\ pc \in [Threads -> Labels]
    /\ frames \in [Threads -> Seq(Frames)]
    /\ ret \in {0, 1}
    /\ called \in Callbacks \cup {None}

\* The locks held, as thread and nesting level.
Locks == {f \in Threads \X (1..MaxNest) : f[2] <= Len(frames[f[1]])}

\* The scheduler is locked exactly as often as protected calls are running:
\* the locks of finalisers and of callbacks of several threads, taken and
\* released in any order, balance.
LocksBalance ==
    IF Locks = {} THEN sched_state >= 0 ELSE sched_state = -Cardinality(Locks)

\* A thread is inside mp_keyboard_interrupt, before the state is updated.
KeyboardInProgress == \E t \in Threads : pc[t] \in {"kbd_test", "kbd_set"}

\* While the scheduler is not locked, sched_state says PENDING whenever an
\* exception or a callback waits (nothing is overlooked by the VM's quick
\* test) and only then (so mp_handle_pending_tail never finds an empty ring).
StateTellsWork ==
    Locks = {} /\ ~KeyboardInProgress
        => (sched_state = MP_SCHED_PENDING
              <=> mp_pending_exception # MP_OBJ_NULL \/ sched_len # 0)

\* "A scheduled function will never preempt another scheduled function"
\* (docs/library/micropython.rst): no two callbacks run at the same time, on
\* one thread or on two.
CallbacksNeverPreempt ==
    \A f, g \in Locks :
        frames[f[1]][f[2]] = "callback" /\ frames[g[1]][g[2]] = "callback" => f = g

\* The ring is a first-in first-out queue of Depth callbacks: each accepted
\* callback is called once, in order, and one is refused only if Depth wait.
Fifo == INSTANCE BoundedFifo WITH
    Capacity <- Depth,
    Responses <- Callbacks,
    Writers <- {"schedule"},
    queue <- [i \in 1..sched_len |-> sched_stack[IDX_MASK(sched_idx + i - 1)]],
    result <- [w \in {"schedule"} |-> ret],
    out <- called

ImplementsFifo == Fifo!FifoSpec

\* A callback or finaliser waits without the GIL, with the scheduler locked.
ProtectedCallWaits == \E t \in Threads : gil # t /\ frames[t] # <<>>

\* Every thread waits for something other than the GIL.
AllBlocked == \A t \in Threads : pc[t] = "blocked"

\* "This will raise a KeyboardInterrupt" (docs/reference/repl.rst): an interrupt
\* that has been recorded is raised in the end, unless the program hangs, all its
\* threads in calls that never return, or a protected call waits: the VM hands the
\* GIL on only while the scheduler is idle, and the thread that computes need not
\* give it back.
InterruptIsRaised ==
    mp_pending_exception # MP_OBJ_NULL
        ~> mp_pending_exception = MP_OBJ_NULL \/ ProtectedCallWaits \/ []AllBlocked

\* Callbacks that wait keep being called, unless exceptions keep arriving, a
\* protected call keeps waiting or the program hangs.
CallbacksKeepRunning ==
    []<>~AllBlocked =>
        (<>[](sched_len # 0 /\ mp_pending_exception = MP_OBJ_NULL /\ ~ProtectedCallWaits)
            => []<><<sched_len' = sched_len - 1>>_vars)
=============================================================================
