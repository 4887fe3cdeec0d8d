-------------------------- MODULE SchedulerProofs --------------------------
(***************************************************************************)
(* Proofs about the scheduler, for every number of threads, every depth of *)
(* the ring and every nesting of locks.                                    *)
(*                                                                         *)
(* The argument: only the thread with the GIL moves, so between its quick  *)
(* test of sched_state and its atomic section nothing but an interrupt can *)
(* happen, and interrupts never take sched_state away from PENDING; hence  *)
(* a thread in mp_handle_pending still finds the scheduler unlocked.       *)
(***************************************************************************)
EXTENDS Scheduler, FiniteSetTheorems, SequenceTheorems, TLAPS

-----------------------------------------------------------------------------
(* Types                                                                    *)

\* A masked index is an index of the ring.
LEMMA MaskInRing == \A i \in Nat : IDX_MASK(i) \in 0..(Depth - 1)
BY DepthAssumption DEF IDX_MASK

\* A protected call that is entered or left keeps the stacks of frames typed.
LEMMA FramesTyped ==
    ASSUME TypeOK, NEW t \in Threads
    PROVE  /\ \A k \in Frames : [frames EXCEPT ![t] = Append(@, k)] \in [Threads -> Seq(Frames)]
           /\ frames[t] # <<>> =>
                 [frames EXCEPT ![t] = SubSeq(@, 1, Len(@) - 1)] \in [Threads -> Seq(Frames)]
<1>1. frames[t] \in Seq(Frames) /\ frames \in [Threads -> Seq(Frames)]
  BY DEF TypeOK
<1>2. ASSUME NEW k \in Frames PROVE Append(frames[t], k) \in Seq(Frames)
  BY <1>1, <1>2, AppendProperties
<1>3. ASSUME frames[t] # <<>> PROVE SubSeq(frames[t], 1, Len(frames[t]) - 1) \in Seq(Frames)
  <2>1. Len(frames[t]) \in Nat /\ \A i \in 1..Len(frames[t]) : frames[t][i] \in Frames
    BY <1>1, LenProperties
  <2> QED
    BY <2>1, SubSeqProperties
<1> QED
  BY <1>1, <1>2, <1>3

\* Every step of the scheduler keeps the types.
LEMMA TypeStep == TypeOK /\ [Next]_vars => TypeOK'
<1> SUFFICES ASSUME TypeOK, [Next]_vars PROVE TypeOK'
  OBVIOUS
<1> USE DepthAssumption DEF TypeOK, queueVars, At, Goto, Labels,
        MP_SCHED_IDLE, MP_SCHED_PENDING, MP_SCHED_LOCKED, MP_OBJ_NULL, KBD_EXCEPTION
<1>1. ASSUME NEW c \in Callbacks, mp_sched_schedule(c)
      PROVE  /\ sched_state' \in Int /\ sched_len' \in 0..Depth /\ ret' \in {0, 1}
             /\ sched_stack' \in [0..(Depth - 1) -> Callbacks \cup {None}]
             /\ UNCHANGED <<sched_idx, called, mp_pending_exception>>
  <2>1. CASE ScheduleAccept(c)
    <3>1. /\ sched_len' \in 0..Depth /\ ret' \in {0, 1}
          /\ UNCHANGED <<sched_idx, called, mp_pending_exception>>
      BY <2>1 DEF ScheduleAccept
    <3>2. sched_state' \in Int
      BY <2>1 DEF ScheduleAccept, Announce
    <3>3. sched_idx + sched_len \in Nat
      OBVIOUS
    <3>4. IDX_MASK(sched_idx + sched_len) \in 0..(Depth - 1)
      BY <3>3, MaskInRing
    <3>5. sched_stack' \in [0..(Depth - 1) -> Callbacks \cup {None}]
      BY <2>1, <3>4 DEF ScheduleAccept
    <3> QED
      BY <3>1, <3>2, <3>5
  <2>2. CASE ScheduleRefuse
    BY <2>2 DEF ScheduleRefuse
  <2> QED
    BY <1>1, <2>1, <2>2 DEF mp_sched_schedule
<1>2. ASSUME NEW t \in Threads, NEW c \in Callbacks, ThreadSchedule(t, c) PROVE TypeOK'
  BY <1>1, <1>2 DEF ThreadSchedule
<1>3. ASSUME NEW c \in Callbacks, IrqSchedule(c) PROVE TypeOK'
  BY <1>1, <1>3 DEF IrqSchedule
<1>4. ASSUME NEW t \in Threads, FinaliserEnter(t) PROVE TypeOK'
  <2>1. frames' \in [Threads -> Seq(Frames)]
    BY <1>4, FramesTyped DEF FinaliserEnter, Frames
  <2> QED
    BY <1>4, <2>1 DEF FinaliserEnter, Lock
<1>5. ASSUME NEW t \in Threads, ProtectedReturn(t) PROVE TypeOK'
  BY <1>5, FramesTyped DEF ProtectedReturn, Unlock
<1>6. ASSUME NEW t \in Threads, HandleCall(t) PROVE TypeOK'
  <2>1. frames' \in [Threads -> Seq(Frames)]
    BY <1>6, FramesTyped DEF HandleCall, Frames
  <2>2. sched_idx' \in 0..(Depth - 1) /\ sched_len' \in 0..Depth
    BY <1>6, MaskInRing DEF HandleCall
  <2>3. called' \in Callbacks \cup {None} /\ pc' \in [Threads -> Labels]
    BY <1>6 DEF HandleCall
  <2>4. sched_state' \in Int
    BY <1>6 DEF HandleCall
  <2> QED
    BY <1>6, <2>1, <2>2, <2>3, <2>4 DEF HandleCall
<1>7. ASSUME NEW t \in Threads,
             KeyboardStore(t) \/ KeyboardTest(t) \/ KeyboardSet(t)
      PROVE  TypeOK'
  <2>1. CASE KeyboardStore(t)
    BY <2>1 DEF KeyboardStore
  <2>2. CASE KeyboardTest(t)
    BY <2>2 DEF KeyboardTest
  <2>3. CASE KeyboardSet(t)
    BY <2>3 DEF KeyboardSet
  <2> QED
    BY <1>7, <2>1, <2>2, <2>3
<1>11. ASSUME NEW t \in Threads, HandleRaise(t) PROVE TypeOK'
  BY <1>11 DEF HandleRaise
<1>8. ASSUME NEW t \in Threads,
             Opcode(t) \/ BlockingCall(t) \/ BlockReturns(t) \/ CheckPending(t) \/ VmSwitch(t)
               \/ VmContinue(t) \/ GilEnter(t)
      PROVE  TypeOK'
  BY <1>8 DEF Opcode, BlockingCall, BlockReturns, CheckPending, VmSwitch, VmContinue, GilEnter
<1>9. CASE IrqKeyboard
  BY <1>9 DEF IrqKeyboard, Announce
<1>10. CASE UNCHANGED vars
  BY <1>10 DEF vars
<1> QED
  BY <1>2, <1>3, <1>4, <1>5, <1>6, <1>7, <1>8, <1>9, <1>10, <1>11
     DEF Next, ThreadStep, Irq

\* The scheduler keeps its types: the index stays in the ring and sched_len
\* within its depth, whatever threads and interrupts do.
THEOREM TypeCorrect == Spec => []TypeOK
<1>1. Init => TypeOK
  BY DepthAssumption DEF Init, TypeOK, Labels, MP_SCHED_IDLE
<1> QED
  BY <1>1, TypeStep, PTL DEF Spec

-----------------------------------------------------------------------------
(* The set of locks held                                                    *)

\* Only finitely many locks are held.
LEMMA LocksFinite == IsFiniteSet(Locks) /\ Cardinality(Locks) \in Nat
                     /\ (Cardinality(Locks) = 0 <=> Locks = {})
<1>1. IsFiniteSet(Threads \X (1..MaxNest))
  <2>1. IsFiniteSet(1..MaxNest)
    BY NestAssumption, FS_Interval
  <2> QED
    BY <2>1, ThreadsAssumption, FS_Product
<1>2. Locks \in SUBSET (Threads \X (1..MaxNest))
  BY DEF Locks
<1> QED
  BY <1>1, <1>2, FS_Subset, FS_CardinalityType, FS_EmptySet

\* Entering a protected call adds one lock, on top of the thread's frames.
LEMMA PushLock ==
    ASSUME TypeOK, NEW t \in Threads, NEW k \in Frames, Len(frames[t]) < MaxNest,
           frames' = [frames EXCEPT ![t] = Append(@, k)]
    PROVE  LET top == <<t, Len(frames[t]) + 1>>
           IN  /\ Locks' = Locks \cup {top}
               /\ top \notin Locks
               /\ Cardinality(Locks') = Cardinality(Locks) + 1
               /\ \A f \in Locks : frames'[f[1]][f[2]] = frames[f[1]][f[2]]
<1> DEFINE top == <<t, Len(frames[t]) + 1>>
<1>1. \A u \in Threads : frames[u] \in Seq(Frames) /\ Len(frames[u]) \in Nat
  BY LenProperties DEF TypeOK
<1>2. /\ Len(frames'[t]) = Len(frames[t]) + 1
      /\ \A i \in 1..Len(frames[t]) : frames'[t][i] = frames[t][i]
      /\ \A u \in Threads : u # t => frames'[u] = frames[u]
  <2>1. frames'[t] = Append(frames[t], k)
    BY DEF TypeOK
  <2>2. frames[t] \in Seq(Frames)
    BY <1>1
  <2>3. \A u \in Threads : u # t => frames'[u] = frames[u]
    BY DEF TypeOK
  <2> QED
    BY <2>1, <2>2, <2>3, AppendProperties
<1>3. Locks' = Locks \cup {top} /\ top \notin Locks
  BY <1>1, <1>2, NestAssumption DEF Locks
<1>4. \A f \in Locks : frames'[f[1]][f[2]] = frames[f[1]][f[2]]
  BY <1>1, <1>2 DEF Locks
<1>5. Cardinality(Locks \cup {top}) = Cardinality(Locks) + 1
  BY <1>3, LocksFinite, FS_AddElement
<1> HIDE DEF top
<1>6. Cardinality(Locks') = Cardinality(Locks) + 1
  BY <1>3, <1>5
<1> QED
  BY <1>3, <1>4, <1>6 DEF top

\* Leaving a protected call removes the thread's topmost lock.
LEMMA PopLock ==
    ASSUME TypeOK, NEW t \in Threads, frames[t] # <<>>, Len(frames[t]) <= MaxNest,
           frames' = [frames EXCEPT ![t] = SubSeq(@, 1, Len(@) - 1)]
    PROVE  /\ Locks' \subseteq Locks
           /\ Locks # {}
           /\ Cardinality(Locks') = Cardinality(Locks) - 1
           /\ Len(frames'[t]) = Len(frames[t]) - 1
           /\ \A u \in Threads : u # t => frames'[u] = frames[u]
           /\ \A f \in Locks' : frames'[f[1]][f[2]] = frames[f[1]][f[2]]
<1> DEFINE top == <<t, Len(frames[t])>>
<1>1. \A u \in Threads : frames[u] \in Seq(Frames) /\ Len(frames[u]) \in Nat
  BY LenProperties DEF TypeOK
<1>2. frames[t] \in Seq(Frames) /\ Len(frames[t]) \in Nat \ {0}
  BY <1>1, EmptySeq
<1>3. /\ Len(frames'[t]) = Len(frames[t]) - 1
      /\ \A i \in 1..(Len(frames[t]) - 1) : frames'[t][i] = frames[t][i]
      /\ \A u \in Threads : u # t => frames'[u] = frames[u]
  <2>1. frames'[t] = SubSeq(frames[t], 1, Len(frames[t]) - 1)
    BY DEF TypeOK
  <2>2. \A i \in 1..(Len(frames[t]) - 1) : frames[t][i] \in Frames
    BY <1>2, LenProperties
  <2>3. \A u \in Threads : u # t => frames'[u] = frames[u]
    BY DEF TypeOK
  <2> QED
    BY <1>2, <2>1, <2>2, <2>3, SubSeqProperties
<1>4. Locks' = Locks \ {top} /\ top \in Locks
  BY <1>1, <1>2, <1>3, NestAssumption DEF Locks
<1>5. \A f \in Locks' : frames'[f[1]][f[2]] = frames[f[1]][f[2]]
  BY <1>1, <1>2, <1>3 DEF Locks
<1>6. Cardinality(Locks \ {top}) = Cardinality(Locks) - 1
  BY <1>4, LocksFinite, FS_RemoveElement
<1> HIDE DEF top
<1>7. Cardinality(Locks') = Cardinality(Locks) - 1
  BY <1>4, <1>6
<1> QED
  BY <1>3, <1>4, <1>5, <1>7

-----------------------------------------------------------------------------
(* The inductive invariant                                                  *)

Work == mp_pending_exception # MP_OBJ_NULL \/ sched_len # 0

\* The parts of the invariant that tie a thread's position to the state: who
\* runs holds the GIL; who is inside mp_handle_pending still finds PENDING; who
\* is inside mp_keyboard_interrupt has stored the exception, and found the
\* scheduler unlocked if it is about to update sched_state.
ThreadInv(t) ==
    /\ Len(frames[t]) <= MaxNest
    /\ pc[t] \notin {"blocked", "gil_wait", "gil_turn"} => gil = t
    /\ pc[t] = "handle" => sched_state = MP_SCHED_PENDING
    /\ pc[t] \in {"kbd_test", "kbd_set"} => mp_pending_exception # MP_OBJ_NULL
    /\ pc[t] = "kbd_set" => sched_state >= 0

StateInv ==
    /\ sched_state <= MP_SCHED_IDLE
    /\ sched_state = MP_SCHED_PENDING => Work
    /\ sched_state = MP_SCHED_IDLE /\ ~KeyboardInProgress => ~Work

IInv ==
    /\ TypeOK
    /\ \A t \in Threads : ThreadInv(t)
    /\ StateInv
    /\ LocksBalance
    /\ CallbacksNeverPreempt

\* While the state is not negative nobody holds a lock.
LEMMA UnlockedMeansNoFrames ==
    ASSUME TypeOK, LocksBalance, sched_state >= 0
    PROVE  Locks = {} /\ \A t \in Threads : Len(frames[t]) = 0
<1>1. Locks = {}
  BY LocksFinite DEF LocksBalance, TypeOK
<1>2. ASSUME NEW t \in Threads PROVE Len(frames[t]) = 0
  <2>1. Len(frames[t]) \in Nat
    BY LenProperties DEF TypeOK
  <2>2. <<t, 1>> \notin Locks
    BY <1>1
  <2> QED
    BY <2>1, <2>2, NestAssumption DEF Locks
<1> QED
  BY <1>1, <1>2

\* A step that leaves the frames alone leaves the locks alone.
LEMMA SameFramesSameLocks ==
    ASSUME frames' = frames
    PROVE  Locks' = Locks /\ (CallbacksNeverPreempt => CallbacksNeverPreempt')
BY DEF Locks, CallbacksNeverPreempt

\* The initial state satisfies the invariant.
LEMMA InvInit == Init => IInv
<1> SUFFICES ASSUME Init PROVE IInv
  OBVIOUS
<1>1. TypeOK
  BY DepthAssumption DEF Init, TypeOK, Labels, MP_SCHED_IDLE
<1>2. \A t \in Threads : Len(frames[t]) = 0
  BY DEF Init
<1>3. Locks = {}
  BY <1>2, NestAssumption DEF Locks
<1> QED
  BY <1>1, <1>2, <1>3, NestAssumption
     DEF Init, IInv, ThreadInv, StateInv, LocksBalance, CallbacksNeverPreempt, Work,
         KeyboardInProgress, MP_SCHED_IDLE, MP_SCHED_PENDING, MP_OBJ_NULL

\* Every step preserves the invariant.
LEMMA InvStep == IInv /\ [Next]_vars => IInv'
<1> SUFFICES ASSUME IInv, [Next]_vars PROVE IInv'
  OBVIOUS
<1>t. TypeOK /\ TypeOK'
  BY TypeStep DEF IInv
<1>u. sched_state >= 0 => Locks = {} /\ \A t \in Threads : Len(frames[t]) = 0
  BY UnlockedMeansNoFrames DEF IInv
<1>s. sched_state \in Int /\ sched_state <= 1 /\ sched_len \in 0..Depth /\ Depth \in Nat
  BY <1>t, DepthAssumption DEF IInv, StateInv, TypeOK, MP_SCHED_IDLE
<1>l. \A t \in Threads : Len(frames[t]) \in Nat
  BY <1>t, LenProperties DEF TypeOK
<1>f. ASSUME frames' = frames,
             \/ sched_state' = sched_state
             \/ sched_state >= 0 /\ sched_state' \in {0, 1}
      PROVE  LocksBalance' /\ CallbacksNeverPreempt'
  BY <1>f, <1>u, <1>s, SameFramesSameLocks DEF IInv, LocksBalance
<1> USE DEF queueVars, At, Goto, ThreadInv, StateInv, Work, KeyboardInProgress,
        MP_SCHED_IDLE, MP_SCHED_PENDING, MP_SCHED_LOCKED, MP_OBJ_NULL, KBD_EXCEPTION
<1>1. ASSUME NEW t \in Threads, Opcode(t) PROVE IInv'
  BY <1>1, <1>t, <1>f DEF Opcode, IInv, TypeOK
<1>2. ASSUME NEW c \in Callbacks, mp_sched_schedule(c), frames' = frames, gil' = gil,
             \/ pc' = pc
             \/ \E t \in Threads : At(t, "code") /\ Goto(t, "check")
      PROVE  IInv'
  <2>1. \/ sched_state' = sched_state
        \/ sched_state = 1 /\ sched_state' = 0
    BY <1>2 DEF mp_sched_schedule, ScheduleAccept, ScheduleRefuse, Announce
  <2>2. LocksBalance' /\ CallbacksNeverPreempt'
    BY <1>2, <1>f, <2>1
  <2>3. CASE ScheduleAccept(c)
    BY <1>2, <2>2, <2>3, <1>t, <1>s DEF ScheduleAccept, Announce, IInv, TypeOK
  <2>4. CASE ScheduleRefuse
    BY <1>2, <2>2, <2>4, <1>t DEF ScheduleRefuse, IInv, TypeOK
  <2> QED
    BY <1>2, <2>3, <2>4 DEF mp_sched_schedule
<1>3. ASSUME NEW t \in Threads, NEW c \in Callbacks, ThreadSchedule(t, c) PROVE IInv'
  BY <1>2, <1>3 DEF ThreadSchedule
<1>4. ASSUME NEW c \in Callbacks, IrqSchedule(c) PROVE IInv'
  BY <1>2, <1>4 DEF IrqSchedule
<1>5. ASSUME NEW t \in Threads, FinaliserEnter(t) PROVE IInv'
  <2> DEFINE top == <<t, Len(frames[t]) + 1>>
  <2>1. /\ Locks' = Locks \cup {top} /\ top \notin Locks
        /\ Cardinality(Locks') = Cardinality(Locks) + 1
        /\ \A f \in Locks : frames'[f[1]][f[2]] = frames[f[1]][f[2]]
    BY <1>5, <1>t, PushLock DEF FinaliserEnter, Frames
  <2>2. /\ Len(frames'[t]) = Len(frames[t]) + 1
        /\ frames'[t][Len(frames[t]) + 1] = "finaliser"
        /\ \A u \in Threads : u # t => frames'[u] = frames[u]
    BY <1>5, <1>t, AppendProperties DEF FinaliserEnter, Frames, TypeOK
  <2>3. CallbacksNeverPreempt'
    BY <2>1, <2>2 DEF IInv, CallbacksNeverPreempt
  <2>4. LocksBalance'
    BY <1>5, <1>s, <1>u, <2>1, LocksFinite, FS_EmptySet
       DEF FinaliserEnter, Lock, IInv, LocksBalance
  <2>5. \A u \in Threads : ThreadInv(u)'
    BY <1>5, <1>t, <1>s, <1>l, <2>2, NestAssumption
       DEF FinaliserEnter, Lock, IInv, TypeOK
  <2>6. StateInv'
    BY <1>5, <1>s DEF FinaliserEnter, Lock, IInv
  <2> QED
    BY <1>t, <2>3, <2>4, <2>5, <2>6 DEF IInv
<1>6. ASSUME NEW t \in Threads, ProtectedReturn(t) PROVE IInv'
  <2>1. /\ Locks' \subseteq Locks /\ Locks # {}
        /\ Cardinality(Locks') = Cardinality(Locks) - 1
        /\ Len(frames'[t]) = Len(frames[t]) - 1
        /\ \A u \in Threads : u # t => frames'[u] = frames[u]
        /\ \A f \in Locks' : frames'[f[1]][f[2]] = frames[f[1]][f[2]]
    BY <1>6, <1>t, PopLock DEF ProtectedReturn, IInv
  <2>2. CallbacksNeverPreempt'
    BY <2>1 DEF IInv, CallbacksNeverPreempt
  <2>3. IsFiniteSet(Locks') /\ (Cardinality(Locks') = 0 <=> Locks' = {})
    BY <2>1, LocksFinite, FS_Subset, FS_EmptySet
  <2>4. sched_state = -Cardinality(Locks) /\ Cardinality(Locks) \in Nat \ {0}
    BY <2>1, LocksFinite DEF IInv, LocksBalance
  <2>5. LocksBalance'
    BY <1>6, <2>1, <2>3, <2>4 DEF ProtectedReturn, Unlock, LocksBalance
  <2>6. \A u \in Threads : ThreadInv(u)'
    BY <1>6, <1>t, <1>l, <2>1, <2>4, NestAssumption
       DEF ProtectedReturn, Unlock, IInv, TypeOK
  <2>7. StateInv'
    BY <1>6, <1>t, <2>4 DEF ProtectedReturn, Unlock, IInv, TypeOK
  <2> QED
    BY <1>t, <2>2, <2>5, <2>6, <2>7 DEF IInv
<1>7. ASSUME NEW t \in Threads, KeyboardStore(t) PROVE IInv'
  BY <1>7, <1>t, <1>f DEF KeyboardStore, IInv, TypeOK
<1>8. ASSUME NEW t \in Threads, KeyboardTest(t) PROVE IInv'
  BY <1>8, <1>t, <1>f, <1>s DEF KeyboardTest, IInv, TypeOK
<1>9. ASSUME NEW t \in Threads, KeyboardSet(t) PROVE IInv'
  BY <1>9, <1>t, <1>f, <1>s DEF KeyboardSet, IInv, TypeOK
<1>10. ASSUME NEW t \in Threads, BlockingCall(t) PROVE IInv'
  BY <1>10, <1>t, <1>f DEF BlockingCall, IInv, TypeOK
<1>11. ASSUME NEW t \in Threads, CheckPending(t) PROVE IInv'
  BY <1>11, <1>t, <1>f DEF CheckPending, IInv, TypeOK
<1>12. ASSUME NEW t \in Threads, HandleRaise(t) PROVE IInv'
  BY <1>12, <1>t, <1>f, <1>s DEF HandleRaise, IInv, TypeOK
<1>13. ASSUME NEW t \in Threads, HandleCall(t) PROVE IInv'
  <2>1. Locks = {} /\ \A u \in Threads : Len(frames[u]) = 0
    BY <1>13, <1>u DEF HandleCall, IInv
  <2> DEFINE top == <<t, Len(frames[t]) + 1>>
  <2>2. Locks' = Locks \cup {top} /\ Cardinality(Locks') = Cardinality(Locks) + 1
    <3>1. Len(frames[t]) < MaxNest
      BY <2>1, NestAssumption
    <3>2. frames' = [frames EXCEPT ![t] = Append(@, "callback")] /\ "callback" \in Frames
      BY <1>13 DEF HandleCall, Frames
    <3> QED
      BY <1>t, <3>1, <3>2, PushLock
  <2>3. Len(frames'[t]) = 1 /\ \A u \in Threads : u # t => frames'[u] = frames[u]
    BY <1>13, <1>t, <2>1, AppendProperties DEF HandleCall, Frames, TypeOK
  <2>4. CallbacksNeverPreempt'
    BY <2>1, <2>2 DEF CallbacksNeverPreempt
  <2>5. LocksBalance'
    <3>1. Locks' # {} /\ Cardinality(Locks') = 1
      BY <2>1, <2>2, FS_EmptySet
    <3>2. sched_state' = -1
      BY <1>13 DEF HandleCall
    <3> QED
      BY <3>1, <3>2 DEF LocksBalance
  <2>6. \A u \in Threads : ThreadInv(u)'
    BY <1>13, <1>t, <2>1, <2>3, NestAssumption DEF HandleCall, IInv, TypeOK
  <2>7. StateInv'
    BY <1>13 DEF HandleCall
  <2> QED
    BY <1>t, <2>4, <2>5, <2>6, <2>7 DEF IInv
<1>14. ASSUME NEW t \in Threads, VmSwitch(t) PROVE IInv'
  BY <1>14, <1>t, <1>f DEF VmSwitch, IInv, TypeOK
<1>15. ASSUME NEW t \in Threads, VmContinue(t) PROVE IInv'
  BY <1>15, <1>t, <1>f DEF VmContinue, IInv, TypeOK
<1>16. ASSUME NEW t \in Threads, GilEnter(t) PROVE IInv'
  BY <1>16, <1>t, <1>f, ThreadsAssumption DEF GilEnter, IInv, TypeOK
<1>17. CASE IrqKeyboard
  BY <1>17, <1>t, <1>f, <1>s DEF IrqKeyboard, Announce, IInv, TypeOK
<1>18. CASE UNCHANGED vars
  BY <1>18, <1>t, <1>f DEF vars, IInv
<1>19. ASSUME NEW t \in Threads, BlockReturns(t) PROVE IInv'
  BY <1>19, <1>t, <1>f DEF BlockReturns, IInv, TypeOK
<1> QED
  BY <1>1, <1>3, <1>4, <1>5, <1>6, <1>7, <1>8, <1>9, <1>10, <1>11, <1>12, <1>13, <1>14,
     <1>15, <1>16, <1>17, <1>18, <1>19 DEF Next, ThreadStep, Irq

-----------------------------------------------------------------------------
(* Theorems                                                                 *)

\* The scheduler locks of all threads balance: sched_state counts them.
THEOREM LocksAlwaysBalance == Spec => []LocksBalance
<1>1. IInv => LocksBalance
  BY DEF IInv
<1> QED
  BY <1>1, InvInit, InvStep, PTL DEF Spec

\* The VM's quick test of sched_state overlooks no exception and no callback,
\* and never announces one that is not there.
THEOREM StateAlwaysTellsWork == Spec => []StateTellsWork
<1>1. IInv => StateTellsWork
  <2> SUFFICES ASSUME IInv, Locks = {}, ~KeyboardInProgress
               PROVE  sched_state = MP_SCHED_PENDING <=> Work
    BY DEF StateTellsWork, Work
  <2>1. sched_state \in Int /\ sched_state >= 0 /\ sched_state <= MP_SCHED_IDLE
    BY DEF IInv, TypeOK, LocksBalance, StateInv
  <2> QED
    BY <2>1 DEF IInv, StateInv, MP_SCHED_IDLE, MP_SCHED_PENDING
<1> QED
  BY <1>1, InvInit, InvStep, PTL DEF Spec

\* A scheduled function never preempts another one, on any thread.
THEOREM NoCallbackPreempts == Spec => []CallbacksNeverPreempt
<1>1. IInv => CallbacksNeverPreempt
  BY DEF IInv
<1> QED
  BY <1>1, InvInit, InvStep, PTL DEF Spec

-----------------------------------------------------------------------------
(* The ring implements the bounded queue                                    *)

\* The callbacks that wait, oldest first: the queue of the refinement mapping.
Slot(i) == IDX_MASK(sched_idx + i - 1)
Waiting == [i \in 1..sched_len |-> sched_stack[Slot(i)]]

\* A sum of two indices is masked by subtracting the depth at most once.
LEMMA MaskOnce ==
    \A i \in 0..(Depth + Depth - 1) : IDX_MASK(i) = IF i < Depth THEN i ELSE i - Depth
<1> SUFFICES ASSUME NEW i \in 0..(Depth + Depth - 1)
             PROVE  i % Depth = IF i < Depth THEN i ELSE i - Depth
  BY DEF IDX_MASK
<1>1. Depth \in Nat /\ Depth > 0
  BY DepthAssumption
<1>2. i \in Int /\ i >= 0 /\ i < Depth + Depth
  BY <1>1
<1>3. CASE i < Depth
  BY <1>1, <1>2, <1>3
<1>4. CASE i >= Depth
  <2>1. PICK k \in Int : k = i - Depth
    BY <1>1, <1>2
  <2>2. k \in 0..(Depth - 1) /\ i = k + Depth
    BY <1>1, <1>2, <1>4, <2>1
  <2>3. (k + Depth) % Depth = k
    BY <1>1, <2>2
  <2> QED
    BY <1>1, <1>4, <2>1, <2>2, <2>3
<1> QED
  BY <1>1, <1>2, <1>3, <1>4

\* The slots that wait are slots of the ring, and the next free one is none of
\* them.
LEMMA SlotFacts ==
    ASSUME TypeOK
    PROVE  /\ \A i \in 1..(sched_len + 1) : Slot(i) \in 0..(Depth - 1)
           /\ sched_len < Depth =>
                 \A i \in 1..sched_len : Slot(i) # Slot(sched_len + 1)
<1>3. /\ sched_idx \in 0..(Depth - 1) /\ sched_len \in 0..Depth
      /\ Depth \in Nat /\ Depth > 0
  BY DepthAssumption DEF TypeOK
<1>1. \A i \in 1..(sched_len + 1) : sched_idx + i - 1 \in 0..(Depth + Depth - 1)
  BY DepthAssumption DEF TypeOK
<1>2. \A i \in 1..(sched_len + 1) :
         Slot(i) = IF sched_idx + i - 1 < Depth THEN sched_idx + i - 1
                                                ELSE sched_idx + i - 1 - Depth
  <2> TAKE i \in 1..(sched_len + 1)
  <2> DEFINE j == sched_idx + i - 1
  <2>1. j \in 0..(Depth + Depth - 1)
    BY <1>1
  <2>2. Slot(i) = IDX_MASK(j)
    BY DEF Slot
  <2> HIDE DEF j
  <2>3. Slot(i) = IF j < Depth THEN j ELSE j - Depth
    BY <2>1, <2>2, MaskOnce
  <2>4. sched_idx \in Int /\ i \in Int /\ sched_len \in Int
    BY <1>3
  <2> QED
    BY <1>3, <2>3, <2>4 DEF j
<1>4. ASSUME NEW i \in 1..(sched_len + 1) PROVE Slot(i) \in 0..(Depth - 1)
  BY <1>2, <1>3
<1>5. ASSUME sched_len < Depth, NEW i \in 1..sched_len
      PROVE  Slot(i) # Slot(sched_len + 1)
  <2>1. i \in 1..(sched_len + 1) /\ sched_len + 1 \in 1..(sched_len + 1)
    BY <1>3
  <2> QED
    BY <1>2, <1>3, <1>5, <2>1
<1> QED
  BY <1>4, <1>5

LEMMA WaitingIsSeq ==
    ASSUME TypeOK
    PROVE  Waiting \in Seq(Callbacks \cup {None}) /\ Len(Waiting) = sched_len
<1>1. sched_len \in Nat
  BY DepthAssumption DEF TypeOK
<1>2. \A i \in 1..sched_len : sched_stack[Slot(i)] \in Callbacks \cup {None}
  BY SlotFacts, <1>1 DEF TypeOK
<1> QED
  BY <1>1, <1>2 DEF Waiting

\* mp_sched_schedule appends to the callbacks that wait.
LEMMA WaitingAfterAccept ==
    ASSUME TypeOK, NEW c \in Callbacks, ScheduleAccept(c)
    PROVE  Waiting' = Append(Waiting, c)
<1>1. /\ sched_len \in Nat /\ sched_len < Depth
      /\ sched_len' = sched_len + 1 /\ sched_idx' = sched_idx
      /\ sched_stack' = [sched_stack EXCEPT ![Slot(sched_len + 1)] = c]
  <2>1. sched_idx + sched_len = sched_idx + (sched_len + 1) - 1
    BY DepthAssumption DEF TypeOK
  <2>2. IDX_MASK(sched_idx + sched_len) = Slot(sched_len + 1)
    BY <2>1 DEF Slot
  <2>3. sched_stack' = [sched_stack EXCEPT ![IDX_MASK(sched_idx + sched_len)] = c]
    BY DEF ScheduleAccept
  <2>4. sched_len \in Nat /\ sched_len < Depth
    BY DepthAssumption DEF ScheduleAccept, TypeOK
  <2>5. sched_len' = sched_len + 1 /\ sched_idx' = sched_idx
    BY DEF ScheduleAccept
  <2> QED
    BY <2>2, <2>3, <2>4, <2>5
<1>2. \A i : Slot(i)' = Slot(i)
  BY <1>1 DEF Slot
<1>3. sched_stack'[Slot(sched_len + 1)] = c
  BY <1>1, SlotFacts DEF TypeOK
<1>4. \A i \in 1..sched_len : sched_stack'[Slot(i)] = Waiting[i]
  BY <1>1, SlotFacts DEF TypeOK, Waiting
<1>5. Waiting' = [i \in 1..(sched_len + 1) |-> sched_stack'[Slot(i)]]
  BY <1>1, <1>2 DEF Waiting
<1>6. /\ Append(Waiting, c) \in Seq(Callbacks \cup {None})
      /\ Len(Append(Waiting, c)) = sched_len + 1
      /\ \A i \in 1..sched_len : Append(Waiting, c)[i] = Waiting[i]
      /\ Append(Waiting, c)[sched_len + 1] = c
  <2>1. Waiting \in Seq(Callbacks \cup {None}) /\ Len(Waiting) = sched_len
    BY WaitingIsSeq
  <2>2. c \in Callbacks \cup {None}
    OBVIOUS
  <2> QED
    BY <2>1, <2>2, AppendProperties
<1>7. \A i \in 1..(sched_len + 1) : sched_stack'[Slot(i)] = Append(Waiting, c)[i]
  BY <1>1, <1>3, <1>4, <1>6
<1>8. \A i \in 1..(sched_len + 1) : Append(Waiting, c)[i] \in Callbacks \cup {None}
  BY <1>6, <1>1
<1>9. /\ Waiting' \in Seq(Callbacks \cup {None})
      /\ Len(Waiting') = sched_len + 1
      /\ \A i \in 1..(sched_len + 1) : Waiting'[i] = Append(Waiting, c)[i]
  <2> DEFINE n == sched_len + 1
  <2>1. n \in Nat
    BY <1>1
  <2> HIDE DEF n
  <2>2. Waiting' = [i \in 1..n |-> sched_stack'[Slot(i)]]
    BY <1>5 DEF n
  <2>3. \A i \in 1..n : /\ sched_stack'[Slot(i)] = Append(Waiting, c)[i]
                        /\ sched_stack'[Slot(i)] \in Callbacks \cup {None}
    BY <1>7, <1>8 DEF n
  <2>4. /\ Waiting' \in Seq(Callbacks \cup {None})
        /\ Len(Waiting') = n
        /\ \A i \in 1..n : Waiting'[i] = Append(Waiting, c)[i]
    <3>1. \A i \in 1..n : sched_stack'[Slot(i)] \in Callbacks \cup {None}
      BY <2>3
    <3>2. Waiting' \in Seq(Callbacks \cup {None}) /\ Len(Waiting') = n
      BY <2>1, <2>2, <3>1
    <3>3. \A i \in 1..n : Waiting'[i] = Append(Waiting, c)[i]
      BY <2>2, <2>3
    <3> QED
      BY <3>2, <3>3
  <2> QED
    BY <2>4 DEF n
<1> QED
  BY <1>6, <1>9, SeqEqual

\* mp_handle_pending_tail takes the oldest callback.
LEMMA WaitingAfterCall ==
    ASSUME TypeOK, NEW t \in Threads, HandleCall(t)
    PROVE  Waiting # <<>> /\ called' = Head(Waiting) /\ Waiting' = Tail(Waiting)
<1>1. /\ sched_len \in Nat \ {0} /\ sched_len' = sched_len - 1
      /\ sched_idx' = IDX_MASK(sched_idx + 1)
      /\ sched_stack' = sched_stack /\ called' = sched_stack[sched_idx]
  BY DepthAssumption DEF HandleCall, TypeOK
<1>2. Slot(1) = sched_idx
  BY MaskOnce, DepthAssumption DEF Slot, TypeOK
<1>3. Waiting # <<>> /\ Head(Waiting) = sched_stack[sched_idx]
  <2>1. Waiting[1] = sched_stack[sched_idx]
    BY <1>1, <1>2 DEF Waiting
  <2> QED
    BY <1>1, <2>1, WaitingIsSeq
<1>4. \A i \in 1..(sched_len - 1) : Slot(i)' = Slot(i + 1)
  <2> SUFFICES ASSUME NEW i \in 1..(sched_len - 1)
               PROVE  IDX_MASK(IDX_MASK(sched_idx + 1) + i - 1)
                        = IDX_MASK(sched_idx + (i + 1) - 1)
    BY <1>1 DEF Slot
  <2>1. /\ sched_idx \in 0..(Depth - 1) /\ sched_len \in 1..Depth
        /\ Depth \in Nat /\ Depth > 0
    BY <1>1, DepthAssumption DEF TypeOK
  <2>2. IDX_MASK(sched_idx + 1) = IF sched_idx + 1 < Depth THEN sched_idx + 1 ELSE 0
    BY <2>1, MaskOnce
  <2>3. IDX_MASK(sched_idx + (i + 1) - 1)
          = IF sched_idx + i < Depth THEN sched_idx + i ELSE sched_idx + i - Depth
    BY <2>1, MaskOnce
  <2>4. CASE sched_idx + 1 < Depth
    BY <2>1, <2>2, <2>4
  <2>5. CASE sched_idx + 1 = Depth
    <3>1. IDX_MASK(0 + i - 1) = i - 1
      BY <2>1, MaskOnce
    <3> QED
      BY <2>1, <2>2, <2>3, <2>5, <3>1
  <2> QED
    BY <2>1, <2>4, <2>5
<1>5. Waiting' = [i \in 1..(sched_len - 1) |-> sched_stack[Slot(i + 1)]]
  BY <1>1, <1>4 DEF Waiting
<1>6. /\ Tail(Waiting) \in Seq(Callbacks \cup {None})
      /\ Len(Tail(Waiting)) = sched_len - 1
      /\ \A i \in 1..(sched_len - 1) : Tail(Waiting)[i] = Waiting[i + 1]
  BY <1>1, <1>3, WaitingIsSeq
<1>7. \A i \in 1..(sched_len - 1) : Waiting[i + 1] = sched_stack[Slot(i + 1)]
  BY <1>1 DEF Waiting
<1>8. /\ Waiting' \in Seq(Callbacks \cup {None})
      /\ Len(Waiting') = sched_len - 1
      /\ \A i \in 1..(sched_len - 1) : Waiting'[i] = Tail(Waiting)[i]
  <2>1. \A i \in 1..(sched_len - 1) : Waiting[i + 1] \in Callbacks \cup {None}
    BY <1>1, WaitingIsSeq
  <2> QED
    BY <1>1, <1>5, <1>6, <1>7, <2>1
<1>9. Waiting' = Tail(Waiting)
  BY <1>6, <1>8, SeqEqual
<1> QED
  BY <1>1, <1>3, <1>9

\* Every step of the scheduler is a step of the bounded queue, or leaves it.
LEMMA FifoStep == TypeOK /\ [Next]_vars => [Fifo!FifoNext]_(Fifo!fifoVars)
<1> DEFINE results == [w \in {"schedule"} |-> ret]
<1> SUFFICES ASSUME TypeOK, [Next]_vars
             PROVE  Fifo!FifoNext \/ UNCHANGED <<Waiting, results, called>>
  BY DEF Fifo!fifoVars, Waiting, Slot
<1>0. ASSUME UNCHANGED queueVars PROVE UNCHANGED <<Waiting, results, called>>
  BY <1>0 DEF queueVars, Waiting, Slot
<1>1. ASSUME NEW c \in Callbacks, mp_sched_schedule(c) PROVE Fifo!FifoNext
  <2>1. CASE ScheduleAccept(c)
    <3>1. Len(Waiting) < Depth
      BY <2>1, WaitingIsSeq, DepthAssumption DEF ScheduleAccept, TypeOK
    <3>2. results' = [results EXCEPT !["schedule"] = 1] /\ called' = called
      BY <2>1 DEF ScheduleAccept
    <3>3. Waiting' = Append(Waiting, c)
      BY <2>1, WaitingAfterAccept
    <3>4. Fifo!Accept("schedule", c)
      BY <3>1, <3>2, <3>3 DEF Fifo!Accept, Waiting, Slot
    <3> QED
      BY <3>4 DEF Fifo!FifoNext
  <2>2. CASE ScheduleRefuse
    <3>1. Len(Waiting) = Depth
      BY <2>2, WaitingIsSeq DEF ScheduleRefuse
    <3>2. results' = [results EXCEPT !["schedule"] = 0] /\ called' = called
      BY <2>2 DEF ScheduleRefuse
    <3>3. Waiting' = Waiting
      BY <2>2 DEF ScheduleRefuse, Waiting, Slot
    <3>4. Fifo!Refuse("schedule")
      BY <3>1, <3>2, <3>3 DEF Fifo!Refuse, Waiting, Slot
    <3> QED
      BY <3>4 DEF Fifo!FifoNext
  <2> QED
    BY <1>1, <2>1, <2>2 DEF mp_sched_schedule
<1>2. ASSUME NEW t \in Threads, HandleCall(t) PROVE Fifo!FifoNext
  <2>1. results' = results
    BY <1>2 DEF HandleCall
  <2>2. Waiting # <<>> /\ called' = Head(Waiting) /\ Waiting' = Tail(Waiting)
    BY <1>2, WaitingAfterCall
  <2>3. Fifo!Deliver
    BY <2>1, <2>2 DEF Fifo!Deliver, Waiting, Slot
  <2> QED
    BY <2>3 DEF Fifo!FifoNext
<1>3. ASSUME NEW t \in Threads, ThreadStep(t) \/ BlockReturns(t) \/ GilEnter(t)
      PROVE  \/ UNCHANGED queueVars
             \/ HandleCall(t)
             \/ \E c \in Callbacks : mp_sched_schedule(c)
  BY <1>3 DEF ThreadStep, BlockReturns, GilEnter, Opcode, ThreadSchedule, FinaliserEnter,
     ProtectedReturn, KeyboardStore, KeyboardTest, KeyboardSet, BlockingCall,
     CheckPending, HandleRaise, VmSwitch, VmContinue
<1>4. ASSUME Irq
      PROVE  UNCHANGED queueVars \/ \E c \in Callbacks : mp_sched_schedule(c)
  BY <1>4 DEF Irq, IrqKeyboard, IrqSchedule
<1>5. ASSUME UNCHANGED vars PROVE UNCHANGED queueVars
  BY <1>5 DEF vars, queueVars
<1> QED
  BY <1>0, <1>1, <1>2, <1>3, <1>4, <1>5 DEF Next

\* The ring of py/scheduler.c is a bounded FIFO of Depth callbacks: none is
\* lost, called twice or out of order, or refused while there is room, however
\* threads and interrupt handlers interleave.
THEOREM CallbackRingIsFifo == Spec => ImplementsFifo
<1>1. Init => Fifo!FifoInit
  <2> SUFFICES ASSUME Init PROVE Fifo!FifoInit
    OBVIOUS
  <2>1. Waiting = <<>>
    BY DEF Init, Waiting
  <2> QED
    BY <2>1 DEF Init, Fifo!FifoInit, Waiting, Slot
<1> QED
  BY <1>1, FifoStep, TypeCorrect, PTL DEF Spec, ImplementsFifo, Fifo!FifoSpec
=============================================================================
