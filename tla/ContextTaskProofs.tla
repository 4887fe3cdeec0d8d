------------------------- MODULE ContextTaskProofs -------------------------
(***************************************************************************)
(* Proofs about the tasks of contexts: the control calls that suspend and  *)
(* resume them (TaskControl), the queue of responses each context has      *)
(* (ResponseQueue) and the context a core works on (ContextSwitch).        *)
(*                                                                         *)
(* For any contexts, controllers and responses, with or without the wakeup *)
(* task: types are kept, and the only way in which MP_CSUSP can come to    *)
(* lie about a task is that two control calls on its context overlap.      *)
(*                                                                         *)
(* For every size of the ring, any responses and any writers: heads and    *)
(* locals keep their types, and with a single writer nothing is lost.  Two *)
(* writers can both pass the test for room before either stores, and then  *)
(* store into the same slot.                                               *)
(*                                                                         *)
(* For any cores and contexts: when every context is pinned to one core    *)
(* and starts no threads, a task always works on the state of its own      *)
(* context.  The README shows why both conditions are needed.              *)
(***************************************************************************)
EXTENDS TaskControl, ResponseQueue, ContextSwitch, SequenceTheorems, TLAPS

LEMMA MainIsContext == Main \in Contexts
BY ListAssumption DEF Main, Contexts

-----------------------------------------------------------------------------
(* Control calls: types                                                     *)

\* The notification under way is at a registered response.
NotifyInv == npos <= Len(responses)

\* A context that is starting up is in no control call.
BootInv == \A c \in booting : cpc[c] = "idle"

TInv == TypeOK /\ NotifyInv /\ BootInv

LEMMA TypeInit == Init => TInv
BY MainIsContext, ListAssumption, BoundsAssumption, ControlAssumption
   DEF Init, TInv, TypeOK, NotifyInv, BootInv, Agents

LEMMA FollowingType == ASSUME NEW p \in 0..Len(List) PROVE Following(p) \in 0..Len(List)
BY ListAssumption DEF Following

LEMMA TypeStep == TInv /\ [Next]_vars => TInv'
<1> SUFFICES ASSUME TInv, [Next]_vars PROVE TInv'
  OBVIOUS
<1> USE DEF TInv, NotifyInv, BootInv, flagVars, callVars, notifyVars, wakerVars
<1>a. /\ Waker \in Agents /\ Contexts \subseteq Agents /\ Len(List) \in Nat
      /\ booting \subseteq Contexts /\ Waker \notin booting
  BY ListAssumption, ControlAssumption, WakerAssumption DEF Agents, TypeOK
<1>b. wpos > 0 => List[wpos] \in Contexts
  BY ListAssumption DEF TypeOK, Contexts
<1>1. ASSUME NEW g \in Contexts, NEW c \in Contexts, Suspend(g, c) PROVE TInv'
  BY <1>1, <1>a DEF Suspend, InProgram, Enter, TypeOK
<1>2. ASSUME NEW g \in Contexts, NEW c \in Contexts, Resume(g, c) PROVE TInv'
  BY <1>2, <1>a DEF Resume, InProgram, Enter, TypeOK
<1>3. ASSUME NEW c \in Contexts, SuspendAtStart(c) PROVE TInv'
  BY <1>3, <1>a DEF SuspendAtStart, Enter, TypeOK
<1>4. ASSUME NEW c \in Contexts, CheckResponses(c) PROVE TInv'
  <2>1. \A d \in Contexts : queue'[d] \in Seq(Ops) /\ Len(queue'[d]) <= QueueLimit
    BY <1>4, BoundsAssumption DEF CheckResponses, TypeOK
  <2> QED
    BY <1>4, <2>1 DEF CheckResponses, TypeOK
<1>5. ASSUME NEW c \in Contexts, StartWaker(c) PROVE TInv'
  BY <1>5 DEF StartWaker, TypeOK
<1>6. ASSUME NEW g \in Agents, CallStep(g) PROVE TInv'
  BY <1>6, <1>a, FollowingType DEF CallStep, SuspendDone, ResumeClear, ResumeDone, TypeOK
<1>7. ASSUME NEW c \in Contexts, NEW r \in Registrable, Register(c, r) PROVE TInv'
  BY <1>7, BoundsAssumption DEF Register, TypeOK
<1>8. ASSUME NEW cond \in Conds, NotifyStart(cond) PROVE TInv'
  BY <1>8, BoundsAssumption DEF NotifyStart, TypeOK
<1>9. CASE NotifyNode
  <2>1. npos \in 1..Len(responses) /\ responses[npos] \in Registrable
    BY <1>9 DEF NotifyNode, TypeOK
  <2>2. responses[npos].context \in Contexts /\ responses[npos].op \in Ops
    BY <2>1, RegistrableAssumption
  <2>3. \A d \in Contexts : queue'[d] \in Seq(Ops) /\ Len(queue'[d]) <= QueueLimit
    BY <1>9, <2>2, BoundsAssumption DEF NotifyNode, TypeOK
  <2>4. npos' \in 0..MaxResponses /\ npos' <= Len(responses)
    BY <1>9, <2>1, BoundsAssumption DEF NotifyNode, TypeOK
  <2> QED
    BY <1>9, <2>3, <2>4 DEF NotifyNode, TypeOK
<1>10. CASE WakerStep
  <2>1. CASE WakerTick
    BY <2>1, ListAssumption DEF WakerTick, TypeOK
  <2>2. CASE WakerSkip
    BY <2>2, FollowingType DEF WakerSkip, TypeOK
  <2>3. CASE WakerPeek
    BY <2>3, <1>a, <1>b DEF WakerPeek, TypeOK
  <2>4. CASE WakerNotNeeded
    BY <2>4, <1>a, FollowingType DEF WakerNotNeeded, TypeOK
  <2>5. CASE WakerResume
    BY <2>5, <1>a DEF WakerResume, Enter, TypeOK
  <2>6. CASE WakerRaises
    BY <2>6 DEF WakerRaises, TypeOK
  <2> QED
    BY <1>10, <2>1, <2>2, <2>3, <2>4, <2>5, <2>6 DEF WakerStep
<1>11. CASE UNCHANGED vars
  BY <1>11 DEF vars, TypeOK
<1> QED
  BY <1>1, <1>2, <1>3, <1>4, <1>5, <1>6, <1>7, <1>8, <1>9, <1>10, <1>11 DEF Next

\* Flags, FreeRTOS states, queues and calls keep their types, for any contexts;
\* in particular multipython_notify never puts more than QueueLimit responses
\* into a queue.
THEOREM TypesKept == Spec => []TypeOK
<1>1. TInv => TypeOK
  BY DEF TInv
<1> QED
  BY <1>1, TypeInit, TypeStep, PTL DEF Spec

-----------------------------------------------------------------------------
(* Control calls: the flag                                                  *)

\* On a context without overlapping calls there is one call at a time ...
OneCall ==
    \A c \in Contexts \ raced : \A g, h \in Agents : Calls(g, c) /\ Calls(h, c) => g = h

\* ... which finds the flag as it left it.
FlagAsLeft ==
    \A c \in Contexts \ raced : \A g \in Agents : con[g] = c =>
        /\ cpc[g] = "suspending" => status[c] = "set"
        /\ cpc[g] = "cleared" => status[c] = "clear"

FInv == OneCall /\ FlagAsLeft /\ FlagTellsTruth

LEMMA FlagInit == Init => FInv
BY DEF Init, FInv, OneCall, FlagAsLeft, FlagTellsTruth, Calls

\* A call of g on c starts, with the flag set or not touched.
LEMMA FlagEntry ==
    ASSUME TypeOK, FInv, NEW g \in Agents, NEW c \in Contexts, NEW l \in {"suspending", "checked"},
           cpc[g] \in {"idle", "peeked"}, Enter(c),
           cpc' = [cpc EXCEPT ![g] = l], con' = [con EXCEPT ![g] = c], task' = task,
           status' = [status EXCEPT ![c] = IF l = "suspending" THEN "set" ELSE @]
    PROVE  FInv'
<1>1. raced \subseteq raced' /\ (c \notin raced' => \A h \in Agents : ~Calls(h, c))
  BY DEF Enter
<1>2. \A h \in Agents : h # g => con'[h] = con[h] /\ cpc'[h] = cpc[h]
  BY DEF TypeOK
<1>3. con'[g] = c /\ cpc'[g] = l
  BY DEF TypeOK
<1>4. \A d \in Contexts : d # c => status'[d] = status[d]
  BY DEF TypeOK
<1>5. OneCall'
  BY <1>1, <1>2, <1>3 DEF OneCall, FInv, Calls
<1>6. FlagAsLeft'
  <2> SUFFICES ASSUME NEW d \in Contexts \ raced', NEW h \in Agents, con'[h] = d
               PROVE  /\ cpc'[h] = "suspending" => status'[d] = "set"
                      /\ cpc'[h] = "cleared" => status'[d] = "clear"
    BY DEF FlagAsLeft
  <2>1. CASE h = g
    BY <2>1, <1>3 DEF TypeOK
  <2>2. CASE h # g /\ d # c
    BY <2>2, <1>1, <1>2, <1>4 DEF FInv, FlagAsLeft
  <2>3. CASE h # g /\ d = c
    BY <2>3, <1>1, <1>2 DEF Calls
  <2> QED
    BY <2>1, <2>2, <2>3
<1>7. FlagTellsTruth'
  <2> SUFFICES ASSUME NEW d \in Contexts \ raced', \A h \in Agents : ~Calls(h, d)'
               PROVE  status'[d] = "set" <=> task'[d] = "suspended"
    BY DEF FlagTellsTruth
  <2>1. d # c
    BY <1>3 DEF Calls
  <2>2. \A h \in Agents : ~Calls(h, d)
    BY <1>2, <1>3, <2>1 DEF Calls
  <2> QED
    BY <1>1, <1>4, <2>1, <2>2 DEF FInv, FlagTellsTruth
<1> QED
  BY <1>5, <1>6, <1>7 DEF FInv

\* The call of g ends with the task in the state that its flag tells.
LEMMA FlagExit ==
    ASSUME TypeOK, FInv, NEW g \in Agents, NEW s \in {"ready", "suspended"},
           cpc[g] = IF s = "suspended" THEN "suspending" ELSE "cleared",
           task' = [task EXCEPT ![con[g]] = s], cpc' = [cpc EXCEPT ![g] = "idle"],
           UNCHANGED <<status, con, raced>>
    PROVE  FInv'
<1>1. \A h \in Agents : h # g => cpc'[h] = cpc[h]
  BY DEF TypeOK
<1>2. cpc'[g] = "idle" /\ con[g] \in Contexts
  BY DEF TypeOK
<1>3. OneCall' /\ FlagAsLeft'
  BY <1>1, <1>2 DEF FInv, OneCall, FlagAsLeft, Calls
<1>4. ASSUME NEW d \in Contexts \ raced, \A h \in Agents : ~Calls(h, d)'
      PROVE  status[d] = "set" <=> task'[d] = "suspended"
  <2>1. CASE d = con[g]
    BY <2>1, <1>2 DEF FInv, FlagAsLeft, TypeOK
  <2>2. CASE d # con[g]
    <3>1. \A h \in Agents : ~Calls(h, d)
      BY <1>1, <1>4, <2>2 DEF Calls
    <3> QED
      BY <2>2, <3>1 DEF FInv, FlagTellsTruth, TypeOK
  <2> QED
    BY <2>1, <2>2
<1> QED
  BY <1>3, <1>4 DEF FInv, FlagTellsTruth

\* Nothing of a call changes but that an agent outside of one peeks or stops.
LEMMA FlagIdle ==
    ASSUME TypeOK, FInv, UNCHANGED <<status, task, raced>>,
           \A g \in Agents : \/ con'[g] = con[g] /\ cpc'[g] = cpc[g]
                             \/ cpc[g] \in {"idle", "peeked"} /\ cpc'[g] \in {"idle", "peeked"}
    PROVE  FInv'
<1>1. \A g \in Agents, c \in Contexts : Calls(g, c)' <=> Calls(g, c)
  BY DEF Calls
<1>2. OneCall' /\ FlagTellsTruth'
  BY <1>1 DEF FInv, OneCall, FlagTellsTruth
<1>3. FlagAsLeft'
  BY DEF FInv, FlagAsLeft
<1> QED
  BY <1>2, <1>3 DEF FInv

LEMMA FlagStep == TInv /\ FInv /\ [Next]_vars => FInv'
<1> SUFFICES ASSUME TypeOK, BootInv, FInv, [Next]_vars PROVE FInv'
  BY DEF TInv
<1> USE DEF flagVars, callVars, wakerVars
<1>a. Waker \in Agents /\ Contexts \subseteq Agents
  BY DEF Agents
<1>1. ASSUME NEW g \in Contexts, NEW c \in Contexts, Suspend(g, c) PROVE FInv'
  BY <1>1, <1>a, FlagEntry DEF Suspend, InProgram
<1>2. ASSUME NEW g \in Contexts, NEW c \in Contexts, Resume(g, c) PROVE FInv'
  <2>1. status' = [status EXCEPT ![c] = IF "checked" = "suspending" THEN "set" ELSE @]
    BY <1>2 DEF Resume, TypeOK
  <2> QED
    BY <1>2, <1>a, <2>1, FlagEntry DEF Resume, InProgram
<1>3. ASSUME NEW c \in Contexts, SuspendAtStart(c) PROVE FInv'
  BY <1>3, <1>a, FlagEntry DEF SuspendAtStart, BootInv
<1>4. ASSUME NEW g \in Agents, SuspendDone(g) PROVE FInv'
  BY <1>4, FlagExit DEF SuspendDone
<1>5. ASSUME NEW g \in Agents, ResumeClear(g) PROVE FInv'
  <2> DEFINE c == con[g]
  <2>1. c \in Contexts /\ Calls(g, c)
    BY <1>5 DEF ResumeClear, Calls, TypeOK
  <2>2. /\ \A h \in Agents : h # g => cpc'[h] = cpc[h]
        /\ cpc'[g] = "cleared"
        /\ \A d \in Contexts : d # c => status'[d] = status[d]
        /\ status'[c] = "clear"
    BY <1>5, <2>1 DEF ResumeClear, TypeOK
  <2>3. \A h \in Agents, d \in Contexts : Calls(h, d)' <=> Calls(h, d)
    BY <1>5, <2>1, <2>2 DEF ResumeClear, Calls
  <2>4. UNCHANGED <<con, task, raced>>
    BY <1>5 DEF ResumeClear
  <2>5. OneCall'
    BY <2>3, <2>4 DEF FInv, OneCall
  <2>6. \A h \in Agents : c \notin raced /\ con[h] = c /\ h # g =>
            cpc[h] \notin {"suspending", "checked", "cleared"}
    BY <2>1 DEF FInv, OneCall, Calls
  <2>7. FlagAsLeft'
    BY <2>2, <2>4, <2>6 DEF FInv, FlagAsLeft
  <2>8. FlagTellsTruth'
    BY <2>1, <2>2, <2>3, <2>4 DEF FInv, FlagTellsTruth
  <2> QED
    BY <2>5, <2>7, <2>8 DEF FInv
<1>6. ASSUME NEW g \in Agents, ResumeDone(g) PROVE FInv'
  BY <1>6, FlagExit DEF ResumeDone
<1>7. CASE WakerResume
  <2>1. status' = [status EXCEPT ![con[Waker]] = IF "checked" = "suspending" THEN "set" ELSE @]
    BY <1>7 DEF WakerResume, TypeOK
  <2>2. con' = [con EXCEPT ![Waker] = con[Waker]] /\ con[Waker] \in Contexts
    BY <1>7, <1>a DEF WakerResume, TypeOK
  <2> QED
    BY <1>7, <1>a, <2>1, <2>2, FlagEntry DEF WakerResume
<1>8. CASE WakerPeek \/ WakerNotNeeded
  <2>1. UNCHANGED <<status, task, raced>>
    BY <1>8 DEF WakerPeek, WakerNotNeeded
  <2>2. \A g \in Agents : g # Waker => con'[g] = con[g] /\ cpc'[g] = cpc[g]
    BY <1>8 DEF WakerPeek, WakerNotNeeded, TypeOK
  <2>3. cpc[Waker] \in {"idle", "peeked"} /\ cpc'[Waker] \in {"idle", "peeked"}
    BY <1>8, <1>a DEF WakerPeek, WakerNotNeeded, TypeOK
  <2> QED
    BY <2>1, <2>2, <2>3, FlagIdle
<1>9. ASSUME UNCHANGED <<status, task, raced, cpc, con>> PROVE FInv'
  BY <1>9, FlagIdle
<1>10. ASSUME NEW c \in Contexts, CheckResponses(c) \/ StartWaker(c) PROVE FInv'
  BY <1>9, <1>10 DEF CheckResponses, StartWaker
<1>11. ASSUME NEW c \in Contexts, NEW r \in Registrable, Register(c, r) PROVE FInv'
  BY <1>9, <1>11 DEF Register
<1>12. ASSUME NEW cond \in Conds, NotifyStart(cond) PROVE FInv'
  BY <1>9, <1>12 DEF NotifyStart
<1>13. CASE NotifyNode
  BY <1>9, <1>13 DEF NotifyNode
<1>14. CASE WakerTick \/ WakerSkip \/ WakerRaises
  BY <1>9, <1>14 DEF WakerTick, WakerSkip, WakerRaises
<1>15. CASE UNCHANGED vars
  BY <1>9, <1>15 DEF vars
<1> QED
  BY <1>1, <1>2, <1>3, <1>4, <1>5, <1>6, <1>7, <1>8, <1>10, <1>11, <1>12, <1>13, <1>14, <1>15
     DEF Next, CallStep, WakerStep

\* Whoever controls whom, with the wakeup task or without: a context is
\* suspended exactly when its MP_CSUSP flag says so, whenever no control call on
\* it is under way and no two have overlapped.
THEOREM FlagTrueWithoutOverlap == Spec => []FlagTellsTruth
<1>1. FInv => FlagTellsTruth
  BY DEF FInv
<1> QED
  BY <1>1, TypeInit, TypeStep, FlagInit, FlagStep, PTL DEF Spec

-----------------------------------------------------------------------------
(* The response queue: types                                                *)

\* The head that follows a head of the ring is again a head of the ring.
LEMMA SlotAfterInSlots == \A i \in Slots : SlotAfter(i) \in Slots
BY SizeAssumption DEF SlotAfter, Slots

\* The heads and locals of the response queue keep their types, however many
\* writers race in mp_response_queue_write.
THEOREM RingTypesKept == RingSpec => []RingTypeOK
<1>1. RingInit => RingTypeOK
  BY SizeAssumption DEF RingInit, RingTypeOK, Slots
<1>2. RingTypeOK /\ [RingNext]_ringVars => RingTypeOK'
  <2> SUFFICES ASSUME RingTypeOK, [RingNext]_ringVars PROVE RingTypeOK'
    OBVIOUS
  <2> USE SlotAfterInSlots DEF RingTypeOK, queueVars, writerVars, readerVars,
                               peekerVars
  <2>1. ASSUME NEW w \in Writers, WriteRefused(w) PROVE RingTypeOK'
    BY <2>1 DEF WriteRefused
  <2>2. ASSUME NEW w \in Writers, NEW v \in Responses, WriteCheck(w, v) PROVE RingTypeOK'
    BY <2>2 DEF WriteCheck
  <2>3. ASSUME NEW w \in Writers, WriteStore(w) PROVE RingTypeOK'
    BY <2>3 DEF WriteStore
  <2>4. ASSUME NEW w \in Writers, WritePublish(w) PROVE RingTypeOK'
    BY <2>4 DEF WritePublish
  <2>5. CASE ReaderNext
    BY <2>5 DEF ReaderNext, ReadEmpty, ReadCheck, ReadCopy, ReadPublish
  <2>6. CASE PeekerNext
    BY <2>6 DEF PeekerNext, PeekEmpty, PeekCheck, PeekCopy
  <2>7. CASE UNCHANGED ringVars
    BY <2>7 DEF ringVars
  <2> QED
    BY <2>1, <2>2, <2>3, <2>4, <2>5, <2>6, <2>7 DEF RingNext, WriterNext
<1> QED
  BY <1>1, <1>2, PTL DEF RingSpec

-----------------------------------------------------------------------------
(* The response queue: ring arithmetic                                      *)

\* Distinct heads are followed by distinct heads.
LEMMA SlotAfterInjective ==
    \A i, j \in Slots : SlotAfter(i) = SlotAfter(j) => i = j
BY SizeAssumption DEF SlotAfter, Slots

\* How the number of pending responses moves with the two heads.
LEMMA CountFacts ==
    ASSUME RingTypeOK
    PROVE  /\ Count \in 0..(Size - 1)
           /\ Count = 0 <=> r_head = w_head
           /\ Count = Size - 1 <=> SlotAfter(w_head) = r_head
BY SizeAssumption DEF RingTypeOK, Count, SlotAfter, Slots

LEMMA CountAfterWrite ==
    ASSUME RingTypeOK, SlotAfter(w_head) # r_head,
           w_head' = SlotAfter(w_head), UNCHANGED r_head
    PROVE  Count' = Count + 1
BY SizeAssumption DEF RingTypeOK, Count, SlotAfter, Slots

LEMMA CountAfterRead ==
    ASSUME RingTypeOK, r_head # w_head,
           r_head' = SlotAfter(r_head), UNCHANGED w_head
    PROVE  Count' = Count - 1
BY SizeAssumption DEF RingTypeOK, Count, SlotAfter, Slots

-----------------------------------------------------------------------------
(* The response queue: the inductive invariant                              *)

\* With no two callers of multipython_notify, what each user of the queue
\* remembers of the heads is still true when it acts on it.
SingleWriter == \A w1, w2 \in Writers : w1 = w2

\* The writer owns the slot at w_head, which stays outside the pending ones.
WriterInv ==
    \A w \in Writers :
        wpc[w] # "idle" =>
            /\ warg[w] \in Responses
            /\ wslot[w] = w_head
            /\ wnext[w] = SlotAfter(w_head)
            /\ wnext[w] # r_head
            /\ wpc[w] = "publish" => buff[w_head] = warg[w]

ReaderInv ==
    rpc # "idle" =>
        /\ r_head # w_head
        /\ rnext = SlotAfter(r_head)
        /\ rpc = "publish" => rval = buff[r_head]

PeekerInv ==
    pstate = "fresh" =>
        /\ ppc = "copy" => r_head # w_head /\ pslot = r_head
        /\ ppc = "done" => r_head # w_head /\ pval = buff[r_head]

RingInv == RingTypeOK /\ WriterInv /\ ReaderInv /\ PeekerInv /\ StoresAccounted

LEMMA RingInvInit == RingInit => RingInv
<1> SUFFICES ASSUME RingInit PROVE RingInv
  OBVIOUS
<1>1. RingTypeOK
  BY SizeAssumption DEF RingInit, RingTypeOK, Slots
<1>2. WriterInv
  BY DEF RingInit, WriterInv
<1>3. ReaderInv /\ PeekerInv
  BY DEF RingInit, ReaderInv, PeekerInv
<1>4. StoresAccounted
  BY SizeAssumption DEF RingInit, StoresAccounted, Count
<1> QED
  BY <1>1, <1>2, <1>3, <1>4 DEF RingInv

LEMMA RingInvStep == SingleWriter /\ RingInv /\ RingTypeOK' /\ [RingNext]_ringVars => RingInv'
<1> SUFFICES ASSUME SingleWriter, RingInv, RingTypeOK', [RingNext]_ringVars PROVE RingInv'
  OBVIOUS
<1> USE DEF RingInv
<1>u. \/ \E w \in Writers : \/ WriteRefused(w)
                            \/ \E v \in Responses : WriteCheck(w, v)
                            \/ WriteStore(w)
                            \/ WritePublish(w)
      \/ ReadEmpty \/ ReadCheck \/ ReadCopy \/ ReadPublish
      \/ PeekEmpty \/ PeekCheck \/ PeekCopy
      \/ UNCHANGED ringVars
  BY DEF RingNext, WriterNext, ReaderNext, PeekerNext
<1>1. ASSUME NEW w \in Writers, WriteRefused(w) PROVE RingInv'
  BY <1>1 DEF WriteRefused, WriterInv, ReaderInv, PeekerInv, StoresAccounted, Count,
              SlotAfter, queueVars, readerVars, peekerVars
<1>2. ASSUME NEW w \in Writers, NEW v \in Responses, WriteCheck(w, v) PROVE RingInv'
  <2> USE <1>2 DEF WriteCheck, queueVars, readerVars, peekerVars
  <2>1. WriterInv'
    BY DEF WriterInv, SingleWriter, RingTypeOK, SlotAfter
  <2>2. ReaderInv' /\ PeekerInv' /\ StoresAccounted'
    BY DEF ReaderInv, PeekerInv, StoresAccounted, Count, SlotAfter
  <2> QED
    BY <2>1, <2>2
<1>3. ASSUME NEW w \in Writers, WriteStore(w) PROVE RingInv'
  <2> USE <1>3 DEF WriteStore, readerVars, peekerVars
  <2>1. wslot[w] = w_head /\ buff' = [buff EXCEPT ![w_head] = warg[w]]
    BY DEF WriterInv
  <2>2. WriterInv'
    BY <2>1 DEF WriterInv, SingleWriter, RingTypeOK, SlotAfter
  <2>3. r_head # w_head => buff'[r_head] = buff[r_head]
    BY <2>1 DEF RingTypeOK
  <2>4. ReaderInv' /\ PeekerInv' /\ StoresAccounted'
    BY <2>3 DEF ReaderInv, PeekerInv, StoresAccounted, Count, SlotAfter
  <2> QED
    BY <2>2, <2>4
<1>4. ASSUME NEW w \in Writers, WritePublish(w) PROVE RingInv'
  <2> USE <1>4 DEF WritePublish, readerVars, peekerVars
  <2>1. w_head' = SlotAfter(w_head) /\ SlotAfter(w_head) # r_head
    BY DEF WriterInv
  <2>2. WriterInv'
    BY DEF WriterInv, SingleWriter, RingTypeOK
  <2>3. ReaderInv' /\ PeekerInv'
    BY <2>1 DEF ReaderInv, PeekerInv, SlotAfter
  <2>4. StoresAccounted'
    BY <2>1, CountAfterWrite DEF StoresAccounted
  <2> QED
    BY <2>2, <2>3, <2>4
<1>5. CASE ReadEmpty \/ ReadCheck \/ ReadCopy
  BY <1>5 DEF ReadEmpty, ReadCheck, ReadCopy, WriterInv, ReaderInv, PeekerInv,
              StoresAccounted, Count, SlotAfter, queueVars, writerVars,
              peekerVars
<1>6. CASE ReadPublish
  <2> USE <1>6 DEF ReadPublish, writerVars
  <2>1. r_head' = SlotAfter(r_head) /\ r_head # w_head
    BY DEF ReaderInv
  <2>2. WriterInv'
    BY <2>1, SlotAfterInjective DEF WriterInv, RingTypeOK, SlotAfter
  <2>3. ReaderInv' /\ PeekerInv'
    BY DEF ReaderInv, PeekerInv
  <2>4. StoresAccounted'
    BY <2>1, CountAfterRead DEF StoresAccounted
  <2> QED
    BY <2>2, <2>3, <2>4
<1>7. CASE PeekEmpty \/ PeekCheck \/ PeekCopy
  BY <1>7 DEF PeekEmpty, PeekCheck, PeekCopy, WriterInv, ReaderInv, PeekerInv,
              StoresAccounted, Count, SlotAfter, queueVars, writerVars,
              readerVars
<1>8. CASE UNCHANGED ringVars
  BY <1>8 DEF ringVars, WriterInv, ReaderInv, PeekerInv, StoresAccounted, Count,
              SlotAfter, queueVars, writerVars, readerVars, peekerVars
<1> QED
  BY <1>u, <1>1, <1>2, <1>3, <1>4, <1>5, <1>6, <1>7, <1>8

\* A context with one notifier never loses or invents a response: the stores
\* mp_response_queue_write reported, less the reads, are what lies between
\* the heads.
THEOREM StoresAreAccounted == ASSUME SingleWriter PROVE RingSpec => []StoresAccounted
<1>1. RingInv /\ RingTypeOK' /\ [RingNext]_ringVars => RingInv'
  BY RingInvStep
<1>2. RingInv => StoresAccounted
  BY DEF RingInv
<1> QED
  BY <1>1, <1>2, RingInvInit, RingTypesKept, PTL DEF RingSpec

\* The wakeup call task sees the oldest response whenever no read overlaps
\* its mp_response_queue_peek.
THEOREM PeekIsOldest == ASSUME SingleWriter PROVE RingSpec => []PeekShowsOldest
<1>1. RingInv /\ RingTypeOK' /\ [RingNext]_ringVars => RingInv'
  BY RingInvStep
<1>2. RingInv => PeekShowsOldest
  BY CountFacts DEF RingInv, PeekerInv, PeekShowsOldest
<1> QED
  BY <1>1, <1>2, RingInvInit, RingTypesKept, PTL DEF RingSpec

-----------------------------------------------------------------------------
(* The response queue implements the bounded queue                          *)

\* The pending slots are slots of the ring, and none of them is the writer's.
LEMMA PendingSlots ==
    ASSUME RingTypeOK
    PROVE  \A i \in 1..Count : SlotOf(i - 1) \in Slots /\ SlotOf(i - 1) # w_head
BY SizeAssumption DEF RingTypeOK, Count, SlotOf, Slots

LEMMA PendingIsSeq ==
    ASSUME RingTypeOK
    PROVE  Pending \in Seq(Responses \cup {None}) /\ Len(Pending) = Count
<1>1. Count \in Nat
  BY CountFacts, SizeAssumption
<1>2. \A i \in 1..Count : buff[SlotOf(i - 1)] \in Responses \cup {None}
  BY PendingSlots DEF RingTypeOK
<1> QED
  BY <1>1, <1>2 DEF Pending

\* A step that keeps both heads and every pending slot keeps the queue.
LEMMA PendingUnchanged ==
    ASSUME RingTypeOK, UNCHANGED <<r_head, w_head>>,
           \A s \in Slots : s # w_head => buff'[s] = buff[s]
    PROVE  Pending' = Pending
<1>1. Count' = Count
  BY DEF Count
<1>2. \A i \in 1..Count : buff'[SlotOf(i - 1)'] = buff[SlotOf(i - 1)]
  BY PendingSlots DEF SlotOf
<1> QED
  BY <1>1, <1>2 DEF Pending

\* Publishing the slot at w_head appends it to the queue.
LEMMA PendingAfterWrite ==
    ASSUME RingTypeOK, SlotAfter(w_head) # r_head,
           w_head' = SlotAfter(w_head), UNCHANGED <<r_head, buff>>
    PROVE  Pending' = Append(Pending, buff[w_head])
<1>1. Count \in Nat /\ Count' = Count + 1
  BY CountFacts, CountAfterWrite, SizeAssumption
<1>2. SlotOf(Count) = w_head
  BY SizeAssumption DEF RingTypeOK, SlotOf, Count, Slots
<1>3. Pending' = [i \in 1..(Count + 1) |-> buff[SlotOf(i - 1)]]
  BY <1>1 DEF Pending, SlotOf
<1>4. Append(Pending, buff[w_head])
        = [i \in 1..(Count + 1) |-> IF i = Count + 1 THEN buff[w_head] ELSE Pending[i]]
  BY <1>1, PendingIsSeq
<1>5. \A i \in 1..(Count + 1) :
        buff[SlotOf(i - 1)] = IF i = Count + 1 THEN buff[w_head] ELSE Pending[i]
  BY <1>1, <1>2 DEF Pending
<1> QED
  BY <1>3, <1>4, <1>5

\* Moving r_head drops the oldest response.
LEMMA PendingAfterRead ==
    ASSUME RingTypeOK, r_head # w_head,
           r_head' = SlotAfter(r_head), UNCHANGED <<w_head, buff>>
    PROVE  /\ Pending # <<>>
           /\ Head(Pending) = buff[r_head]
           /\ Pending' = Tail(Pending)
<1>1. Count \in Nat \ {0} /\ Count' = Count - 1
  BY CountFacts, CountAfterRead, SizeAssumption
<1>2. Pending[1] = buff[r_head]
  BY <1>1, SizeAssumption DEF Pending, SlotOf, RingTypeOK, Slots
<1>3. Pending # <<>> /\ Head(Pending) = Pending[1]
  BY <1>1, PendingIsSeq
<1>4. \A i \in 1..(Count - 1) : SlotOf(i - 1)' = SlotOf(i)
  BY SizeAssumption DEF RingTypeOK, SlotOf, SlotAfter, Count, Slots
<1>5. /\ Tail(Pending) \in Seq(Responses \cup {None})
      /\ Len(Tail(Pending)) = Count - 1
      /\ \A i \in 1..(Count - 1) : Tail(Pending)[i] = Pending[i + 1]
  BY <1>1, <1>3, PendingIsSeq
<1>6. \A i \in 1..(Count - 1) : Pending[i + 1] = buff[SlotOf(i)]
  BY <1>1 DEF Pending
<1>7. Pending' = [i \in 1..(Count - 1) |-> buff[SlotOf(i)]]
  BY <1>1, <1>4 DEF Pending
<1>8. /\ Pending' \in Seq(Responses \cup {None})
      /\ Len(Pending') = Count - 1
      /\ \A i \in 1..(Count - 1) : Pending'[i] = Tail(Pending)[i]
  <2>1. \A i \in 1..(Count - 1) : Pending[i + 1] \in Responses \cup {None}
    BY <1>1, PendingIsSeq
  <2> QED
    BY <1>1, <1>5, <1>6, <1>7, <2>1
<1>9. Pending' = Tail(Pending)
  BY <1>5, <1>8, SeqEqual
<1> QED
  BY <1>2, <1>3, <1>9

LEMMA FifoInitially == RingInit => Fifo!FifoInit
<1> SUFFICES ASSUME RingInit PROVE Fifo!FifoInit
  OBVIOUS
<1>1. Count = 0
  BY SizeAssumption DEF RingInit, Count
<1>2. Pending = <<>>
  BY <1>1 DEF Pending
<1> QED
  BY <1>2 DEF RingInit, Fifo!FifoInit

LEMMA FifoStep ==
    SingleWriter /\ RingInv /\ [RingNext]_ringVars => [Fifo!FifoNext]_(Fifo!fifoVars)
<1> SUFFICES ASSUME SingleWriter, RingInv, [RingNext]_ringVars
             PROVE  Fifo!FifoNext \/ UNCHANGED <<Pending, result, out>>
  BY DEF Fifo!fifoVars
<1> USE DEF RingInv
<1>1. ASSUME NEW w \in Writers, WriteRefused(w) PROVE Fifo!FifoNext
  <2>1. UNCHANGED <<buff, r_head, w_head, out>>
    BY <1>1 DEF WriteRefused, queueVars, readerVars
  <2>2. Pending' = Pending
    BY <2>1, PendingUnchanged
  <2>3. Len(Pending) = Size - 1
    BY <1>1, PendingIsSeq, CountFacts DEF WriteRefused
  <2>4. Fifo!Refuse(w)
    BY <1>1, <2>1, <2>2, <2>3 DEF WriteRefused, Fifo!Refuse
  <2> QED
    BY <2>4 DEF Fifo!FifoNext
<1>2. ASSUME NEW w \in Writers, NEW v \in Responses, WriteCheck(w, v)
      PROVE  UNCHANGED <<Pending, result, out>>
  BY <1>2, PendingUnchanged DEF WriteCheck, queueVars, readerVars
<1>3. ASSUME NEW w \in Writers, WriteStore(w)
      PROVE  UNCHANGED <<Pending, result, out>>
  <2>1. buff' = [buff EXCEPT ![w_head] = warg[w]]
    BY <1>3 DEF WriteStore, WriterInv
  <2>2. \A s \in Slots : s # w_head => buff'[s] = buff[s]
    BY <2>1 DEF RingTypeOK
  <2> QED
    BY <1>3, <2>2, PendingUnchanged DEF WriteStore, readerVars
<1>4. ASSUME NEW w \in Writers, WritePublish(w) PROVE Fifo!FifoNext
  <2>1. /\ w_head' = SlotAfter(w_head) /\ SlotAfter(w_head) # r_head
        /\ buff[w_head] = warg[w] /\ warg[w] \in Responses
    BY <1>4 DEF WritePublish, WriterInv
  <2>2. Pending' = Append(Pending, warg[w])
    BY <1>4, <2>1, PendingAfterWrite DEF WritePublish
  <2>3. Len(Pending) < Size - 1
    BY <2>1, PendingIsSeq, CountFacts, SizeAssumption
  <2>4. Fifo!Accept(w, warg[w])
    BY <1>4, <2>2, <2>3 DEF WritePublish, Fifo!Accept, readerVars
  <2> QED
    BY <2>1, <2>4 DEF Fifo!FifoNext
<1>5. CASE ReadEmpty
  <2>1. UNCHANGED <<buff, r_head, w_head, result>>
    BY <1>5 DEF ReadEmpty, queueVars, writerVars
  <2>2. Pending' = Pending
    BY <2>1, PendingUnchanged
  <2>3. Pending = <<>>
    BY <1>5, PendingIsSeq, CountFacts DEF ReadEmpty
  <2>4. Fifo!DeliverNone
    BY <1>5, <2>1, <2>2, <2>3 DEF ReadEmpty, Fifo!DeliverNone
  <2> QED
    BY <2>4 DEF Fifo!FifoNext
<1>6. CASE ReadCheck \/ ReadCopy
  BY <1>6, PendingUnchanged DEF ReadCheck, ReadCopy, queueVars, writerVars
<1>7. CASE ReadPublish
  <2>1. r_head' = SlotAfter(r_head) /\ r_head # w_head /\ rval = buff[r_head]
    BY <1>7 DEF ReadPublish, ReaderInv
  <2>2. Pending # <<>> /\ Head(Pending) = rval /\ Pending' = Tail(Pending)
    BY <1>7, <2>1, PendingAfterRead DEF ReadPublish
  <2>3. Fifo!Deliver
    BY <1>7, <2>2 DEF ReadPublish, Fifo!Deliver, writerVars
  <2> QED
    BY <2>3 DEF Fifo!FifoNext
<1>8. CASE PeekerNext
  BY <1>8, PendingUnchanged
     DEF PeekerNext, PeekEmpty, PeekCheck, PeekCopy, queueVars,
         writerVars, readerVars
<1>9. CASE UNCHANGED ringVars
  BY <1>9, PendingUnchanged DEF ringVars, queueVars, writerVars, readerVars
<1> QED
  BY <1>1, <1>2, <1>3, <1>4, <1>5, <1>6, <1>7, <1>8, <1>9
     DEF RingNext, WriterNext, ReaderNext

\* With one notifier, the lock-free ring of py/mpstate.c is a bounded FIFO of
\* Size - 1 responses: nothing is lost, duplicated, reordered, or refused
\* while there is room, at any interleaving of notify, check_responses and
\* the wakeup call task.
THEOREM RingIsFifo == ASSUME SingleWriter PROVE RingSpec => ImplementsFifo
<1>1. RingInv /\ RingTypeOK' /\ [RingNext]_ringVars => RingInv'
  BY RingInvStep
<1>2. RingInv /\ [RingNext]_ringVars => [Fifo!FifoNext]_(Fifo!fifoVars)
  BY FifoStep
<1> QED
  BY <1>1, <1>2, RingInvInit, FifoInitially, RingTypesKept, PTL
     DEF RingSpec, ImplementsFifo, Fifo!FifoSpec

-----------------------------------------------------------------------------
(* The context a core works on                                              *)

\* Every task is the task of a context and may run on one core only.
AllPinned ==
    /\ Threads = {}
    /\ \A c \in ContextTasks : \A k, l \in Affinity[c] : k = l

\* A task runs on at most one core, and the hook has recorded it there.
RunInv ==
    /\ current = running
    /\ \A k, l \in Cores : running[k] = running[l] => k = l
    /\ \A k \in Cores : running[k] \in ContextTasks => k \in Affinity[running[k]]
    /\ \A c \in ContextTasks : idx[c] # Null => idx[c] \in Affinity[c]

\* The id of a context is set by the first step of its task.
IdInv == \A c \in ContextTasks : id[c] = IF pc[c] = "id" THEN Null ELSE c

\* While the task of a context runs, its core's variables are as the start-up
\* of the context, or the hook, has set them.
CoreInv ==
    \A k \in Cores, c \in ContextTasks : running[k] = c =>
        /\ pc[c] \notin {"id", "active"} => active[k] = c
        /\ pc[c] \notin {"id", "active", "mirror"} => mirror[k] = c

PinnedInv == SwitchTypeOK /\ RunInv /\ IdInv /\ CoreInv /\ StartedContextHasPath

LEMMA UsersAreContexts ==
    ASSUME AllPinned
    PROVE  Users = ContextTasks /\ \A u \in Users : OwnerOf(u) = u
BY DEF AllPinned, Users, OwnerOf

LEMMA NullIsNobody ==
    ASSUME AllPinned
    PROVE  Null \notin ContextTasks /\ Null \notin Tasks /\ Null \notin Cores
BY TasksAssumption DEF AllPinned, Tasks, Users

LEMMA CoreOfRuns ==
    ASSUME NEW t, IsRunning(t) PROVE CoreOf(t) \in Cores /\ running[CoreOf(t)] = t
BY Zenon DEF IsRunning, CoreOf

LEMMA PinnedInit == ASSUME AllPinned PROVE SwitchInit => PinnedInv
<1> SUFFICES ASSUME SwitchInit PROVE PinnedInv
  OBVIOUS
<1>1. \A k, l \in Cores : IdleTask(k) = IdleTask(l) => k = l
  BY DEF IdleTask
<1>2. \A k \in Cores : IdleTask(k) \in Tasks /\ IdleTask(k) \notin ContextTasks
  BY TasksAssumption DEF AllPinned, Tasks, IdleTasks, Users
<1>3. SwitchTypeOK
  BY <1>2 DEF SwitchInit, SwitchTypeOK, Labels, Entries
<1>4. RunInv
  BY <1>1, <1>2, UsersAreContexts DEF SwitchInit, RunInv
<1>5. IdInv /\ CoreInv /\ StartedContextHasPath
  BY <1>2 DEF SwitchInit, IdInv, CoreInv, StartedContextHasPath
<1> QED
  BY <1>3, <1>4, <1>5 DEF PinnedInv

\* A task that uses a core number it has read is still on that core.
LEMMA StillThere ==
    ASSUME AllPinned, PinnedInv, NEW c \in ContextTasks, Access(c)
    PROVE  idx[c] \in Cores /\ running[idx[c]] = c
<1>1. PICK k \in Cores : running[k] = c
  BY DEF Access, IsRunning
<1>2. k \in Affinity[c] /\ idx[c] \in Affinity[c]
  BY <1>1 DEF PinnedInv, RunInv, Access
<1> QED
  BY <1>1, <1>2 DEF AllPinned

LEMMA PinnedSwitch ==
    ASSUME AllPinned, PinnedInv, NEW k \in Cores, NEW t \in Tasks, SwitchedIn(k, t)
    PROVE  PinnedInv'
<1> USE DEF PinnedInv, contextVars
<1>1. SwitchTypeOK'
  <2>1. CASE t \notin {id[c] : c \in ContextTasks} /\ UNCHANGED <<active, mirror, shown>>
    BY <2>1 DEF SwitchedIn, SwitchTypeOK
  <2>2. ASSUME NEW c \in ContextTasks,
               active' = [active EXCEPT ![k] = c],
               mirror' = [mirror EXCEPT ![k] = c],
               shown' = [shown EXCEPT ![k] = path[c]]
        PROVE  SwitchTypeOK'
    BY <2>2 DEF SwitchedIn, SwitchTypeOK
  <2> QED
    BY <2>1, <2>2 DEF SwitchedIn
<1>2. RunInv'
  <2>1. \A l \in Cores : running[l] # t
    BY DEF SwitchedIn, MayRun, IsRunning
  <2>2. t \in ContextTasks => k \in Affinity[t]
    BY UsersAreContexts DEF SwitchedIn, MayRun
  <2> QED
    BY <2>1, <2>2 DEF SwitchedIn, RunInv, SwitchTypeOK
<1>3. IdInv' /\ StartedContextHasPath'
  BY DEF SwitchedIn, IdInv, StartedContextHasPath
<1>4. ASSUME NEW l \in Cores, NEW c \in ContextTasks, running'[l] = c
      PROVE  /\ pc[c] \notin {"id", "active"} => active'[l] = c
             /\ pc[c] \notin {"id", "active", "mirror"} => mirror'[l] = c
  <2>1. CASE l # k
    BY <1>4, <2>1 DEF SwitchedIn, CoreInv, SwitchTypeOK
  <2>2. CASE l = k /\ pc[c] # "id"
    <3>1. t = c /\ id[c] = c
      BY <1>4, <2>2 DEF SwitchedIn, IdInv, SwitchTypeOK
    <3>2. \A d \in ContextTasks : id[d] = t => d = c
      BY <3>1, NullIsNobody DEF IdInv
    <3>3. active' = [active EXCEPT ![k] = c] /\ mirror' = [mirror EXCEPT ![k] = c]
      BY <3>1, <3>2 DEF SwitchedIn
    <3> QED
      BY <2>2, <3>3 DEF SwitchTypeOK
  <2> QED
    BY <2>1, <2>2
<1>5. CoreInv'
  BY <1>4 DEF CoreInv, SwitchedIn
<1> QED
  BY <1>1, <1>2, <1>3, <1>5

LEMMA PinnedBoot ==
    ASSUME AllPinned, PinnedInv, NEW c \in ContextTasks, BootNext(c)
    PROVE  PinnedInv'
<1> USE DEF PinnedInv, coreVars
<1>a. Users = ContextTasks /\ Null \notin ContextTasks /\ Null \notin Cores
  BY UsersAreContexts, NullIsNobody
<1>b. ASSUME NEW k \in Cores, running[k] = running[idx[c]], idx[c] \in Cores
      PROVE  k = idx[c]
  BY <1>b DEF RunInv
<1>1. CASE StoreId(c)
  <2>1. idx[c] \in Cores /\ running[idx[c]] = c /\ current[idx[c]] = c
    BY <1>1, StillThere DEF StoreId, Boot, RunInv
  <2>2. c \in Tasks
    BY DEF Tasks, Users
  <2>3. SwitchTypeOK'
    BY <1>1, <2>1, <2>2, <1>a DEF StoreId, Boot, Access, SwitchTypeOK, Labels
  <2>4. RunInv' /\ IdInv' /\ CoreInv' /\ StartedContextHasPath'
    BY <1>1, <2>1, <1>a
       DEF StoreId, Boot, Access, SwitchTypeOK, RunInv, IdInv, CoreInv,
           StartedContextHasPath
  <2> QED
    BY <2>3, <2>4
<1>2. CASE StoreActive(c)
  <2>1. idx[c] \in Cores /\ running[idx[c]] = c
    BY <1>2, StillThere DEF StoreActive, Boot
  <2>2. SwitchTypeOK' /\ RunInv' /\ IdInv' /\ StartedContextHasPath'
    BY <1>2, <2>1, <1>a
       DEF StoreActive, Boot, Access, SwitchTypeOK, Labels, RunInv, IdInv,
           StartedContextHasPath
  <2>3. CoreInv'
    BY <1>2, <2>1, <1>b DEF StoreActive, Boot, SwitchTypeOK, CoreInv
  <2> QED
    BY <2>2, <2>3
<1>3. CASE StoreMirror(c)
  <2>1. idx[c] \in Cores /\ running[idx[c]] = c
    BY <1>3, StillThere DEF StoreMirror, Boot
  <2>2. active[idx[c]] = c
    BY <1>3, <2>1 DEF StoreMirror, Boot, CoreInv
  <2>3. SwitchTypeOK' /\ RunInv' /\ IdInv' /\ StartedContextHasPath'
    BY <1>3, <2>1, <2>2, <1>a
       DEF StoreMirror, Boot, Access, SwitchTypeOK, Labels, RunInv, IdInv,
           StartedContextHasPath
  <2>4. CoreInv'
    BY <1>3, <2>1, <2>2, <1>b DEF StoreMirror, Boot, SwitchTypeOK, CoreInv
  <2> QED
    BY <2>3, <2>4
<1>4. ASSUME NEW l, NEW m, Refresh(c, l, m),
             <<l, m>> \in {<<"refresh", "path">>, <<"show", "run">>}
      PROVE  PinnedInv'
  <2>1. idx[c] \in Cores /\ running[idx[c]] = c
    BY <1>4, StillThere DEF Refresh, Boot
  <2>2. mirror[idx[c]] = c
    BY <1>4, <2>1 DEF Refresh, Boot, CoreInv
  <2>3. SwitchTypeOK' /\ RunInv' /\ IdInv' /\ StartedContextHasPath'
    BY <1>4, <2>1, <2>2, <1>a
       DEF Refresh, Boot, Access, SwitchTypeOK, Labels, RunInv, IdInv,
           StartedContextHasPath
  <2>4. CoreInv'
    BY <1>4, <2>1, <2>2, <1>b DEF Refresh, Boot, SwitchTypeOK, CoreInv
  <2> QED
    BY <2>3, <2>4
<1>5. CASE InitPath(c)
  <2>1. idx[c] \in Cores /\ running[idx[c]] = c
    BY <1>5, StillThere DEF InitPath, Boot
  <2>2. mirror[idx[c]] = c
    BY <1>5, <2>1 DEF InitPath, Boot, CoreInv
  <2>3. SwitchTypeOK' /\ RunInv' /\ IdInv'
    BY <1>5, <2>1, <2>2, <1>a
       DEF InitPath, Boot, Access, SwitchTypeOK, Labels, Entries, RunInv, IdInv
  <2>4. CoreInv'
    BY <1>5, <2>1, <2>2, <1>b DEF InitPath, Boot, SwitchTypeOK, CoreInv
  <2>5. StartedContextHasPath'
    BY <1>5, <2>1, <2>2 DEF InitPath, Boot, SwitchTypeOK, StartedContextHasPath
  <2> QED
    BY <2>3, <2>4, <2>5
<1>6. ASSUME NEW d \in Dirs, AppendPath(c, d) PROVE PinnedInv'
  <2>1. d \in Entries /\ ReplCore \in Cores
    BY TasksAssumption DEF AllPinned, Entries
  <2>2. shown' \in [Cores -> SUBSET Entries]
    BY <1>6, <2>1 DEF AppendPath, SwitchTypeOK
  <2>3. SwitchTypeOK'
    BY <1>6, <2>2 DEF AppendPath, SwitchTypeOK
  <2>4. RunInv' /\ IdInv' /\ CoreInv' /\ StartedContextHasPath'
    BY <1>6 DEF AppendPath, RunInv, IdInv, CoreInv, StartedContextHasPath
  <2> QED
    BY <2>3, <2>4
<1> QED
  BY <1>1, <1>2, <1>3, <1>4, <1>5, <1>6 DEF BootNext

LEMMA PinnedStep == ASSUME AllPinned, PinnedInv, [SwitchNext]_switchVars PROVE PinnedInv'
<1> USE DEF PinnedInv, coreVars, contextVars
<1>1. ASSUME NEW u \in Users, ReadCore(u) PROVE PinnedInv'
  <2>1. CoreOf(u) \in Cores /\ running[CoreOf(u)] = u
    BY <1>1, CoreOfRuns DEF ReadCore
  <2>2. u \in ContextTasks /\ CoreOf(u) \in Affinity[u]
    BY <2>1, UsersAreContexts DEF RunInv
  <2> QED
    BY <1>1, <2>1, <2>2, UsersAreContexts
       DEF ReadCore, SwitchTypeOK, RunInv, IdInv, CoreInv, StartedContextHasPath
<1>2. ASSUME NEW u \in Users, UseVm(u) PROVE PinnedInv'
  BY <1>2, UsersAreContexts
     DEF UseVm, Access, SwitchTypeOK, RunInv, IdInv, CoreInv, StartedContextHasPath
<1>3. CASE UNCHANGED switchVars
  BY <1>3 DEF switchVars, SwitchTypeOK, RunInv, IdInv, CoreInv, StartedContextHasPath
<1> QED
  BY <1>1, <1>2, <1>3, PinnedSwitch, PinnedBoot DEF SwitchNext

LEMMA PinnedInvHolds == ASSUME AllPinned PROVE SwitchSpec => []PinnedInv
<1>1. SwitchInit => PinnedInv
  BY PinnedInit
<1>2. PinnedInv /\ [SwitchNext]_switchVars => PinnedInv'
  BY PinnedStep
<1> QED
  BY <1>1, <1>2, PTL DEF SwitchSpec

\* With pinned contexts and no threads, the variables of the cores and of the
\* contexts keep their types through every interleaving of start and switch.
THEOREM PinnedTypesKept == ASSUME AllPinned PROVE SwitchSpec => []SwitchTypeOK
<1>1. PinnedInv => SwitchTypeOK
  BY DEF PinnedInv
<1> QED
  BY <1>1, PinnedInvHolds, PTL

\* With pinned contexts and no threads, every use of MP_STATE_VM finds the
\* state of the context it is made in.
THEOREM PinnedAccessesOwnVm == ASSUME AllPinned PROVE SwitchSpec => []AccessesOwnVm
<1>1. PinnedInv => AccessesOwnVm
  <2> SUFFICES ASSUME PinnedInv, NEW u \in Users, IsRunning(u), idx[u] # Null,
                      pc[OwnerOf(u)] \in {"path", "show", "run"}
               PROVE  mirror[idx[u]] = OwnerOf(u)
    BY DEF AccessesOwnVm
  <2>1. u \in ContextTasks /\ OwnerOf(u) = u
    BY UsersAreContexts
  <2>2. PICK k \in Cores : running[k] = u
    BY DEF IsRunning
  <2>3. k = idx[u]
    BY <2>1, <2>2 DEF PinnedInv, RunInv, AllPinned
  <2> QED
    BY <2>1, <2>2, <2>3 DEF PinnedInv, CoreInv
<1> QED
  BY <1>1, PinnedInvHolds, PTL

\* With pinned contexts and no threads, the id of a context names its task.
THEOREM PinnedIdNamesOwnTask == ASSUME AllPinned PROVE SwitchSpec => []IdNamesOwnTask
<1>1. PinnedInv => IdNamesOwnTask
  BY DEF PinnedInv, IdInv, IdNamesOwnTask
<1> QED
  BY <1>1, PinnedInvHolds, PTL

\* With pinned contexts and no threads, the start of one context never writes
\* the import path of another.
THEOREM PinnedHasPath == ASSUME AllPinned PROVE SwitchSpec => []StartedContextHasPath
<1>1. PinnedInv => StartedContextHasPath
  BY DEF PinnedInv
<1> QED
  BY <1>1, PinnedInvHolds, PTL

=============================================================================
