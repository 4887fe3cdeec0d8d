-------------------------- MODULE ThreadListProofs --------------------------
(***************************************************************************)
(* For any number of threads: nobody is deleted while it holds the mutex   *)
(* of the thread list, and the list holds no node of a task that has been  *)
(* cleaned up.  Both rest on the GIL: every section of a thread that holds *)
(* the mutex is entered with the GIL, which mp_thread_deinit's caller also *)
(* holds, so that a thread it deletes is outside of them.  As long as no   *)
(* node but the newest has been unlinked, the list is also complete.       *)
(***************************************************************************)
EXTENDS ThreadList, SequenceTheorems, TLAPS

-----------------------------------------------------------------------------
(* The list                                                                 *)

\* The list is a sequence without repetitions.
ListOK == list \in Seq(Threads) /\ IsInjective(list)

\* vPortCleanUpTCB leaves a list without the node it was looking for.
LEMMA UnlinkFacts ==
    ASSUME ListOK, NEW t \in Threads, Unlink(t)
    PROVE  /\ ListOK' /\ Listed' \subseteq Listed \ {t}
           /\ cut' \/ (~cut /\ Listed' = Listed \ {t})
           /\ ready \subseteq Listed => ready' = ready \cap Listed'
<1>1. Len(list) \in Nat /\ list \in [1..Len(list) -> Threads] /\ DOMAIN list = 1..Len(list)
  BY LenProperties DEF ListOK
<1>2. CASE t \notin Listed
  <2>1. list' = list /\ ready' = ready /\ cut' = cut
    BY <1>2 DEF Unlink
  <2> QED
    BY <1>2, <2>1 DEF ListOK, Listed, ToSet, IsInjective
<1>3. CASE t \in Listed
  <2> DEFINE p == Position(t)
  <2>1. p \in 1..Len(list) /\ list[p] = t
    <3>1. \E i \in 1..Len(list) : list[i] = t
      BY <1>1, <1>3 DEF Listed, ToSet
    <3> QED
      BY <3>1 DEF Position
  <2> HIDE DEF p
  <2>2. list' = SubSeq(list, p + 1, Len(list))
    BY <1>3 DEF Unlink, p
  <2>3. \A i \in (p + 1)..Len(list) : list[i] \in Threads
    BY <1>1, <2>1
  <2>4. /\ list' \in Seq(Threads)
        /\ Len(list') = Len(list) - p
        /\ \A i \in 1..(Len(list) - p) : list'[i] = list[p + i]
    <3>1. p + 1 \in Int /\ Len(list) \in Int /\ p <= Len(list) /\ p \in Nat
      BY <1>1, <2>1
    <3>2. /\ SubSeq(list, p + 1, Len(list)) \in Seq(Threads)
          /\ Len(SubSeq(list, p + 1, Len(list)))
               = IF p + 1 <= Len(list) THEN Len(list) - (p + 1) + 1 ELSE 0
          /\ \A i \in 1..(Len(list) - (p + 1) + 1) :
                SubSeq(list, p + 1, Len(list))[i] = list[(p + 1) + i - 1]
      BY <2>3, <3>1, SubSeqProperties
    <3> QED
      BY <2>2, <3>1, <3>2
  <2>5. DOMAIN list' = 1..(Len(list) - p)
    BY <2>4, LenProperties
  <2>6. IsInjective(list')
    <3> SUFFICES ASSUME NEW i \in 1..(Len(list) - p), NEW j \in 1..(Len(list) - p),
                        list'[i] = list'[j]
                 PROVE  i = j
      BY <2>5 DEF IsInjective
    <3>1. p + i \in 1..Len(list) /\ p + j \in 1..Len(list) /\ list[p + i] = list[p + j]
      BY <1>1, <2>1, <2>4
    <3>2. p + i = p + j
      BY <1>1, <3>1 DEF ListOK, IsInjective
    <3> QED
      BY <1>1, <2>1, <3>2
  <2>7. Listed' \subseteq Listed \ {t}
    BY <1>1, <2>1, <2>4, <2>5 DEF ListOK, IsInjective, Listed, ToSet
  <2>8. ready' = ready \cap Listed'
    BY <1>3 DEF Unlink, Listed
  <2>9. CASE p > 1
    BY <1>3, <2>4, <2>6, <2>7, <2>8, <2>9 DEF ListOK, Unlink, p
  <2>10. CASE p = 1
    <3>1. ASSUME NEW x \in Listed, x # t PROVE x \in Listed'
      <4>1. PICK i \in 1..Len(list) : list[i] = x
        BY <1>1 DEF Listed, ToSet
      <4>2. i - 1 \in 1..(Len(list) - p) /\ list'[i - 1] = x
        BY <1>1, <2>1, <2>4, <2>10, <3>1, <4>1
      <4> QED
        BY <2>5, <4>2 DEF Listed, ToSet
    <3>2. cut' = (cut \/ p > 1)
      BY <1>3 DEF Unlink, p
    <3> QED
      BY <2>4, <2>6, <2>7, <2>8, <2>10, <3>1, <3>2 DEF ListOK
  <2> QED
    BY <1>1, <2>1, <2>9, <2>10
<1> QED
  BY <1>2, <1>3

\* mp_thread_create_ex puts one new node in front of the list.
LEMMA LinkFacts ==
    ASSUME ListOK, NEW c \in Threads, c \notin Listed, list' = <<c>> \o list
    PROVE  ListOK' /\ Listed' = Listed \cup {c}
<1>1. Len(list) \in Nat /\ list \in [1..Len(list) -> Threads] /\ DOMAIN list = 1..Len(list)
  BY LenProperties DEF ListOK
<1>2. <<c>> \in Seq(Threads) /\ Len(<<c>>) = 1 /\ <<c>>[1] = c
  OBVIOUS
<1>3. /\ list' \in Seq(Threads)
      /\ Len(list') = Len(list) + 1
      /\ list'[1] = c
      /\ \A i \in 2..(Len(list) + 1) : list'[i] = list[i - 1]
  BY <1>1, <1>2, ConcatProperties DEF ListOK
<1>4. DOMAIN list' = 1..(Len(list) + 1)
  BY <1>3, LenProperties
<1>5. IsInjective(list')
  BY <1>1, <1>3, <1>4 DEF ListOK, IsInjective, Listed, ToSet
<1>6. Listed' = Listed \cup {c}
  <2>1. ASSUME NEW x \in Listed PROVE x \in Listed'
    <3>1. PICK i \in 1..Len(list) : list[i] = x
      BY <1>1 DEF Listed, ToSet
    <3>2. i + 1 \in 1..(Len(list) + 1) /\ list'[i + 1] = x
      BY <1>1, <1>3, <3>1
    <3> QED
      BY <1>4, <3>2 DEF Listed, ToSet
  <2>2. c \in Listed'
    BY <1>1, <1>3, <1>4 DEF Listed, ToSet
  <2>3. Listed' \subseteq Listed \cup {c}
    BY <1>1, <1>3, <1>4 DEF Listed, ToSet
  <2> QED
    BY <2>1, <2>2, <2>3
<1> QED
  BY <1>3, <1>5, <1>6 DEF ListOK

-----------------------------------------------------------------------------
(* The inductive invariant                                                  *)

\* Where a thread holds the mutex, and where it needs the GIL.
MuxLabels == {"create_locked", "create", "gc", "start_locked", "finish_locked"}
GilLabels == MuxLabels \cup {"start", "exit", "deinit", "deinit_delete",
                             "deinit_clean_up", "done"}

PcOK ==
    /\ pc \in [Threads -> MainLabels \cup ChildLabels]
    /\ pc[Main] \in MainLabels
    /\ mux \in Threads \cup {Idle, NoThread}
    /\ gil \in Threads \cup {NoThread}

ThreadInv(t) ==
    /\ pc[t] \in GilLabels => gil = t
    /\ pc[t] \in MuxLabels <=> mux = t
    /\ pc[t] = "clean_up" => mux = Idle
    /\ pc[t] = "create" =>
          newborn \in Children /\ newborn \notin Listed /\ pc[newborn] = "gil"
    /\ t \in Listed => pc[t] # "none"

\* The task that mp_thread_deinit has chosen is a thread of the context, and
\* stays stopped until it is cleaned up.
VictimInv ==
    /\ pc[Main] \in {"deinit_delete", "deinit_clean_up"} => victim \in Children
    /\ pc[Main] = "deinit_clean_up" => pc[victim] = "killed"

\* The idle task cleans up one task at a time.
CleanUpInv == \A t, u \in Threads : pc[t] = "clean_up" /\ pc[u] = "clean_up" => t = u

IInv == ListOK /\ PcOK /\ VictimInv /\ CleanUpInv /\ \A t \in Threads : ThreadInv(t)

LEMMA InvInit == Init => IInv
<1> SUFFICES ASSUME Init PROVE IInv
  OBVIOUS
<1>1. Main \in Threads
  BY DEF Threads
<1>2. ListOK /\ Listed = {Main}
  BY <1>1 DEF Init, ListOK, IsInjective, Listed, ToSet
<1> QED
  BY <1>1, <1>2, ThreadsAssumption
     DEF Init, IInv, PcOK, VictimInv, CleanUpInv, ThreadInv, MuxLabels, GilLabels,
         MainLabels, ChildLabels, Threads

LEMMA InvStep == IInv /\ [Next]_vars => IInv'
<1> SUFFICES ASSUME IInv, [Next]_vars PROVE IInv'
  OBVIOUS
<1>m. Main \in Threads /\ Children \subseteq Threads /\ Main \notin Children
      /\ Idle \notin Threads /\ NoThread \notin Threads /\ Idle # NoThread
  BY ThreadsAssumption DEF Threads
<1>l. ASSUME UNCHANGED list PROVE ListOK' /\ Listed' = Listed
  BY <1>l DEF IInv, ListOK, IsInjective, Listed, ToSet
<1> USE <1>m DEF IInv, PcOK, VictimInv, CleanUpInv, ThreadInv, MuxLabels, GilLabels,
                 MainLabels, ChildLabels, Goto, InPython
<1>1. ASSUME NEW t \in Threads, GilRelease(t) PROVE IInv'
  BY <1>1, <1>l DEF GilRelease
<1>2. ASSUME NEW t \in Threads, GilTake(t) PROVE IInv'
  BY <1>2, <1>l DEF GilTake
<1>3. ASSUME NEW t \in Threads, CreateLock(t) PROVE IInv'
  BY <1>3, <1>l DEF CreateLock
<1>5. ASSUME NEW t \in Threads, CreateFail(t) PROVE IInv'
  BY <1>5, <1>l DEF CreateFail
<1>7. ASSUME NEW t \in Threads, EntryGil(t) PROVE IInv'
  BY <1>7, <1>l DEF EntryGil
<1>8. ASSUME NEW t \in Threads, StartLock(t) PROVE IInv'
  BY <1>8, <1>l DEF StartLock
<1>9. ASSUME NEW t \in Threads, StartReady(t) PROVE IInv'
  BY <1>9, <1>l DEF StartReady
<1>10. ASSUME NEW t \in Threads, FinishLock(t) PROVE IInv'
  BY <1>10, <1>l DEF FinishLock
<1>11. ASSUME NEW t \in Threads, FinishNotReady(t) PROVE IInv'
  BY <1>11, <1>l DEF FinishNotReady
<1>12. ASSUME NEW t \in Threads, ExitGil(t) PROVE IInv'
  BY <1>12, <1>l DEF ExitGil
<1>13. ASSUME NEW t \in Threads, DeleteSelf(t) PROVE IInv'
  BY <1>13, <1>l DEF DeleteSelf
<1>14. ASSUME NEW t \in Threads, GcLock(t) PROVE IInv'
  BY <1>14, <1>l DEF GcLock
<1>15. ASSUME NEW t \in Threads, GcScan(t) PROVE IInv'
  BY <1>15, <1>l DEF GcScan
<1>16. ASSUME NEW t \in Threads, CleanUpLock(t) PROVE IInv'
  BY <1>16, <1>l DEF CleanUpLock
<1>4. ASSUME NEW t \in Threads, NEW c \in Children, CreateTask(t, c) PROVE IInv'
  BY <1>4, <1>l DEF CreateTask
<1>6. ASSUME NEW t \in Threads, CreateLink(t) PROVE IInv'
  <2>1. newborn \in Children /\ newborn \notin Listed /\ pc[newborn] = "gil"
    BY <1>6 DEF CreateLink
  <2>2. ListOK' /\ Listed' = Listed \cup {newborn}
    BY <1>6, <2>1, LinkFacts DEF CreateLink
  <2> QED
    BY <1>6, <2>1, <2>2 DEF CreateLink
<1>17. ASSUME NEW t \in Threads, CleanUpUnlink(t) PROVE IInv'
  <2>1. ListOK' /\ Listed' \subseteq Listed \ {t}
    BY <1>17, UnlinkFacts DEF CleanUpUnlink
  <2> QED
    BY <1>17, <2>1 DEF CleanUpUnlink
<1>18. CASE DeinitStart
  BY <1>18, <1>l DEF DeinitStart
<1>19. CASE DeinitPick
  <2>1. \A i \in 1..Len(list) : list[i] # Main => list[i] \in Children
    BY LenProperties DEF ListOK, Threads
  <2> QED
    BY <1>19, <1>l, <2>1 DEF DeinitPick
<1>20. CASE DeinitDelete
  BY <1>20, <1>l DEF DeinitDelete, Active
<1>21. CASE DeinitCleanUp
  <2>1. victim \in Children /\ pc[victim] = "killed"
    BY <1>21 DEF DeinitCleanUp
  <2>2. ListOK' /\ Listed' \subseteq Listed \ {victim}
    BY <1>21, <2>1, UnlinkFacts DEF DeinitCleanUp
  <2> QED
    BY <1>21, <2>1, <2>2 DEF DeinitCleanUp
<1>22. CASE DeinitDeleteAgain
  BY <1>22, <1>l DEF DeinitDeleteAgain
<1>23. CASE SoftReset
  BY <1>23, <1>l DEF SoftReset
<1>24. CASE UNCHANGED vars
  BY <1>24, <1>l DEF vars
<1>25. CASE DeinitDeleteWaiting
  BY <1>25, <1>l DEF DeinitDeleteWaiting
<1>26. CASE DeinitPanic
  <2>1. Init'
    BY <1>26 DEF DeinitPanic, Init
  <2> QED
    BY <2>1, InvInit, PTL
<1> QED
  BY <1>1, <1>2, <1>3, <1>4, <1>5, <1>6, <1>7, <1>8, <1>9, <1>10, <1>11, <1>12, <1>13,
     <1>14, <1>15, <1>16, <1>17, <1>18, <1>19, <1>20, <1>21, <1>22, <1>23, <1>24,
     <1>25, <1>26 DEF Next, ThreadStep, CleanUp, Deinit

\* mp_thread_deinit never deletes a thread that holds the mutex of the list.
THEOREM MuxHolderAlwaysExists == Spec => []MuxHolderExists
<1>1. IInv => MuxHolderExists
  BY DEF IInv, ThreadInv, MuxHolderExists, MuxLabels, Active
<1> QED
  BY <1>1, InvInit, InvStep, PTL DEF Spec

\* No node of the list belongs to a task that has been cleaned up.
THEOREM NodesAlwaysHaveTasks == Spec => []NodesHaveTasks
<1>1. IInv => NodesHaveTasks
  <2> SUFFICES ASSUME IInv, NEW t \in Listed PROVE pc[t] # "none"
    BY DEF NodesHaveTasks
  <2>1. t \in Threads
    BY LenProperties DEF IInv, ListOK, Listed, ToSet
  <2> QED
    BY <2>1 DEF IInv, ThreadInv
<1> QED
  BY <1>1, InvInit, InvStep, PTL DEF Spec

-----------------------------------------------------------------------------
(* Nodes, as long as the threads end in the opposite order of their start   *)

RestOK ==
    /\ \A c \in Children : pc[c] \in ChildLabels
    /\ ready \subseteq Listed
    /\ victim \in Children \cup {NoThread}
    /\ scanned \subseteq Threads
    /\ cut \in BOOLEAN

\* A thread without a node is one whose creator is about to link it.
NewbornInv ==
    /\ newborn \in Children \cup {NoThread}
    /\ newborn # NoThread => \E t \in Threads : pc[t] = "create"

\* A thread in its Python code that has a node has marked it.
PythonLabels == {"run", "create_locked", "create", "gc", "finish_locked", "deinit",
                 "deinit_delete", "deinit_clean_up", "done"}
ReadyInv == \A t \in Threads : pc[t] \in PythonLabels /\ t \in Listed => t \in ready

NInv == RestOK /\ NewbornInv /\ ReadyInv /\ ActiveThreadsListed /\ DeinitLeavesNobody

LEMMA NodesInit == Init => NInv
<1> SUFFICES ASSUME Init PROVE NInv
  OBVIOUS
<1>1. Main \in Threads /\ Main \notin Children
  BY ThreadsAssumption DEF Threads
<1>2. Listed = {Main}
  BY <1>1 DEF Init, Listed, ToSet
<1> QED
  BY <1>1, <1>2
     DEF Init, NInv, RestOK, NewbornInv, ReadyInv, PythonLabels, ActiveThreadsListed,
         OneNodePerThread, DeinitLeavesNobody, Active, ChildLabels, Threads

LEMMA NodesStep == IInv /\ NInv /\ [Next]_vars => NInv'
<1> SUFFICES ASSUME IInv, NInv, [Next]_vars PROVE NInv'
  OBVIOUS
<1>m. Main \in Threads /\ Children \subseteq Threads /\ Main \notin Children
      /\ Threads = Children \cup {Main} /\ NoThread \notin Threads
  BY ThreadsAssumption DEF Threads
<1>l. ASSUME UNCHANGED list PROVE Listed' = Listed
  BY <1>l DEF Listed
<1> USE <1>m DEF IInv, PcOK, VictimInv, ThreadInv, MuxLabels, GilLabels, MainLabels,
                 ChildLabels, Goto, InPython, NInv, RestOK, NewbornInv, ReadyInv,
                 PythonLabels, ActiveThreadsListed, OneNodePerThread, DeinitLeavesNobody,
                 Active
<1>1. ASSUME NEW t \in Threads, GilRelease(t) PROVE NInv'
  BY <1>1, <1>l DEF GilRelease
<1>2. ASSUME NEW t \in Threads, GilTake(t) PROVE NInv'
  BY <1>2, <1>l DEF GilTake
<1>3. ASSUME NEW t \in Threads, CreateLock(t) PROVE NInv'
  BY <1>3, <1>l DEF CreateLock
<1>4. ASSUME NEW t \in Threads, NEW c \in Children, CreateTask(t, c) PROVE NInv'
  <2>1. newborn = NoThread
    BY <1>4 DEF CreateTask
  <2> QED
    BY <1>4, <1>l, <2>1 DEF CreateTask
<1>5. ASSUME NEW t \in Threads, CreateFail(t) PROVE NInv'
  BY <1>5, <1>l DEF CreateFail
<1>6. ASSUME NEW t \in Threads, CreateLink(t) PROVE NInv'
  <2>1. newborn \in Children /\ newborn \notin Listed /\ pc[newborn] = "gil"
    BY <1>6 DEF CreateLink
  <2>2. Listed' = Listed \cup {newborn}
    BY <1>6, <2>1, LinkFacts DEF CreateLink
  <2> QED
    BY <1>6, <2>1, <2>2 DEF CreateLink
<1>7. ASSUME NEW t \in Threads, EntryGil(t) PROVE NInv'
  BY <1>7, <1>l DEF EntryGil
<1>8. ASSUME NEW t \in Threads, StartLock(t) PROVE NInv'
  BY <1>8, <1>l DEF StartLock
<1>9. ASSUME NEW t \in Threads, StartReady(t) PROVE NInv'
  BY <1>9, <1>l DEF StartReady
<1>10. ASSUME NEW t \in Threads, FinishLock(t) PROVE NInv'
  BY <1>10, <1>l DEF FinishLock
<1>11. ASSUME NEW t \in Threads, FinishNotReady(t) PROVE NInv'
  BY <1>11, <1>l DEF FinishNotReady
<1>12. ASSUME NEW t \in Threads, ExitGil(t) PROVE NInv'
  BY <1>12, <1>l DEF ExitGil
<1>13. ASSUME NEW t \in Threads, DeleteSelf(t) PROVE NInv'
  BY <1>13, <1>l DEF DeleteSelf
<1>14. ASSUME NEW t \in Threads, GcLock(t) PROVE NInv'
  BY <1>14, <1>l DEF GcLock
<1>15. ASSUME NEW t \in Threads, GcScan(t) PROVE NInv'
  <2>1. Listed \subseteq Threads
    BY LenProperties DEF ListOK, Listed, ToSet
  <2> QED
    BY <1>15, <1>l, <2>1 DEF GcScan
<1>16. ASSUME NEW t \in Threads, CleanUpLock(t) PROVE NInv'
  BY <1>16, <1>l DEF CleanUpLock
<1>17. ASSUME NEW t \in Threads, CleanUpUnlink(t) PROVE NInv'
  <2>1. /\ Listed' \subseteq Listed \ {t}
        /\ cut' \/ (~cut /\ Listed' = Listed \ {t})
        /\ ready' = ready \cap Listed'
    BY <1>17, UnlinkFacts DEF CleanUpUnlink
  <2>2. cut' \in BOOLEAN
    BY <1>17 DEF CleanUpUnlink, Unlink
  <2>3. RestOK' /\ NewbornInv' /\ ReadyInv'
    BY <1>17, <2>1, <2>2 DEF CleanUpUnlink
  <2>4. ActiveThreadsListed' /\ DeinitLeavesNobody'
    BY <1>17, <2>1 DEF CleanUpUnlink
  <2> QED
    BY <2>3, <2>4
<1>18. CASE DeinitStart
  BY <1>18, <1>l DEF DeinitStart
<1>19. CASE DeinitPick
  <2>1. \A i \in 1..Len(list) : list[i] # Main => list[i] \in Children
    BY LenProperties DEF ListOK
  <2>2. newborn = NoThread
    BY <1>19 DEF DeinitPick
  <2>3. (\A i \in 1..Len(list) : list[i] = Main) => Listed \subseteq {Main}
    BY LenProperties DEF ListOK, Listed, ToSet
  <2>4. RestOK' /\ NewbornInv' /\ ReadyInv' /\ ActiveThreadsListed'
    BY <1>19, <1>l, <2>1, <2>2 DEF DeinitPick
  <2>5. DeinitLeavesNobody'
    BY <1>19, <1>l, <2>2, <2>3 DEF DeinitPick
  <2> QED
    BY <2>4, <2>5
<1>20. CASE DeinitDelete
  BY <1>20, <1>l DEF DeinitDelete
<1>21. CASE DeinitCleanUp
  <2>1. victim \in Children /\ pc[victim] = "killed"
    BY <1>21 DEF DeinitCleanUp
  <2>2. /\ Listed' \subseteq Listed \ {victim}
        /\ cut' \/ (~cut /\ Listed' = Listed \ {victim})
        /\ ready' = ready \cap Listed'
    BY <1>21, <2>1, UnlinkFacts DEF DeinitCleanUp
  <2>3. cut' \in BOOLEAN
    BY <1>21 DEF DeinitCleanUp, Unlink
  <2>4. RestOK' /\ NewbornInv' /\ ReadyInv'
    BY <1>21, <2>1, <2>2, <2>3 DEF DeinitCleanUp
  <2>5. ActiveThreadsListed' /\ DeinitLeavesNobody'
    BY <1>21, <2>1, <2>2 DEF DeinitCleanUp
  <2> QED
    BY <2>4, <2>5
<1>22. CASE DeinitDeleteAgain
  BY <1>22, <1>l DEF DeinitDeleteAgain
<1>23. CASE SoftReset
  BY <1>23, <1>l DEF SoftReset
<1>24. CASE UNCHANGED vars
  BY <1>24, <1>l DEF vars
<1>25. CASE DeinitDeleteWaiting
  BY <1>25, <1>l DEF DeinitDeleteWaiting
<1>26. CASE DeinitPanic
  <2>1. Init'
    BY <1>26 DEF DeinitPanic, Init
  <2> QED
    BY <2>1, NodesInit, PTL
<1> QED
  BY <1>1, <1>2, <1>3, <1>4, <1>5, <1>6, <1>7, <1>8, <1>9, <1>10, <1>11, <1>12, <1>13,
     <1>14, <1>15, <1>16, <1>17, <1>18, <1>19, <1>20, <1>21, <1>22, <1>23, <1>24,
     <1>25, <1>26 DEF Next, ThreadStep, CleanUp, Deinit

\* The list and its locks keep their types; no thread has two nodes.
THEOREM ListTypesKept == Spec => []TypeOK
<1>1. IInv /\ NInv => TypeOK
  BY DEF IInv, NInv, ListOK, PcOK, RestOK, NewbornInv, TypeOK
<1> QED
  BY <1>1, InvInit, InvStep, NodesInit, NodesStep, PTL DEF Spec

\* As long as threads are cleaned up in the opposite order of their creation,
\* every thread that exists has its node.
THEOREM ThreadsStayListed == Spec => []ActiveThreadsListed
<1>1. NInv => ActiveThreadsListed
  BY DEF NInv
<1> QED
  BY <1>1, InvInit, InvStep, NodesInit, NodesStep, PTL DEF Spec

\* Then mp_thread_deinit returns only when every other thread is gone.
THEOREM DeinitIsComplete == Spec => []DeinitLeavesNobody
<1>1. NInv => DeinitLeavesNobody
  BY DEF NInv
<1> QED
  BY <1>1, InvInit, InvStep, NodesInit, NodesStep, PTL DEF Spec

\* And then mp_thread_gc_others scans the stack of every other thread that is
\* in the middle of its Python code.
THEOREM CollectionsScanStacks == Spec => CollectionScansEveryStack
<1>1. ASSUME IInv, NInv, Next, NEW t \in Threads, pc[t] = "gc", pc'[t] = "run", ~cut
      PROVE  {u \in Threads : pc[u] = "run"} \ {t} \subseteq scanned'
  <2>1. GcScan(t)
    <3>1. pc \in [Threads -> MainLabels \cup ChildLabels]
      BY <1>1 DEF IInv, PcOK
    <3>2. ASSUME NEW u \in Threads, ThreadStep(u) \/ CleanUp(u) PROVE GcScan(t)
      BY <1>1, <3>1, <3>2
         DEF ThreadStep, CleanUp, GilRelease, GilTake, CreateLock, CreateTask, CreateFail,
             CreateLink, EntryGil, StartLock, StartReady, FinishLock, FinishNotReady, ExitGil,
             DeleteSelf, GcLock, GcScan, CleanUpLock, CleanUpUnlink, Goto
    <3>3. ASSUME DeinitStart \/ Deinit \/ SoftReset PROVE GcScan(t)
      <4>1. CASE DeinitPanic
        BY <1>1, <4>1 DEF DeinitPanic
      <4> QED
        BY <1>1, <3>1, <3>3, <4>1
           DEF DeinitStart, Deinit, DeinitPick, DeinitDelete, DeinitCleanUp,
               DeinitDeleteAgain, DeinitDeleteWaiting, SoftReset, Goto
    <3> QED
      BY <1>1, <3>2, <3>3 DEF Next
  <2>2. ASSUME NEW u \in Threads, pc[u] = "run" PROVE u \in Listed /\ u \in ready
    <3>1. u # newborn
      <4>1. CASE newborn = NoThread
        BY <4>1, ThreadsAssumption
      <4>2. CASE newborn # NoThread
        BY <1>1, <2>2, <4>2 DEF IInv, NInv, NewbornInv, ThreadInv
      <4> QED
        BY <4>1, <4>2
    <3> QED
      BY <1>1, <2>2, <3>1
         DEF NInv, ActiveThreadsListed, OneNodePerThread, Active, ReadyInv, PythonLabels
  <2> QED
    BY <2>1, <2>2 DEF GcScan
<1>2. IInv /\ NInv /\ [Next]_vars =>
        [\A t \in Threads : pc[t] = "gc" /\ pc'[t] = "run" =>
           cut \/ {u \in Threads : pc[u] = "run"} \ {t} \subseteq scanned']_vars
  BY <1>1
<1> QED
  BY <1>2, InvInit, InvStep, NodesInit, NodesStep, PTL DEF Spec, CollectionScansEveryStack
=============================================================================
