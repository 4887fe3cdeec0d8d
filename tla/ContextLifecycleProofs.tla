----------------------- MODULE ContextLifecycleProofs -----------------------
(***************************************************************************)
(* For any nodes, handles and cores: when one program starts contexts, and *)
(* a context is stopped by that program or by itself, nothing leaks and    *)
(* every new task has a context, also if contexts move between cores; and  *)
(* as long as none has taken another task's id, ids stay unique, no        *)
(* context has two users and none loses its heap while its task may run.   *)
(***************************************************************************)
EXTENDS ContextLifecycle, SequenceTheorems, WellFoundedInduction, TLAPS

\* The program of task s starts all contexts and stops all others.
Manages(s) ==
    /\ Starters \subseteq {s}
    /\ \A p \in MayStop : p[1] \in {s, p[2]}

OneManager == \E s \in Handles : Manages(s)

Starting == {"start_source", "start_create"}
Stopping == {"stop_enter", "stop_delete", "stop_exit", "stop_return"}
WithHeap == {"run", "start_append"} \cup Starting \cup Stopping

-----------------------------------------------------------------------------
(* What always holds, wherever the contexts move                            *)

RegInv ==
    /\ registry[1] = Main
    /\ \A i, j \in 1..Len(registry) : registry[i] = registry[j] => i = j

\* A start in progress: the node in hand is the one without an id.
StartInv ==
    \A h \in Handles :
        /\ pc[h] \in Starting \cup {"start_append"} => h \in Starters
        /\ pc[h] = "start_append" => \A n \in Registered : id[n] # Unknown
        /\ pc[h] \in Starting =>
              node[h] \in Registered /\ node[h] # Main /\ id[node[h]] = Unknown

\* A task that has just been created: its context is the one without an id.
SpawnInv ==
    \A t \in Handles : pc[t] = "spawn" =>
        /\ ctx[t] \in Registered /\ ctx[t] # Main /\ id[ctx[t]] = Unknown
        /\ \A u \in Handles : pc[u] = "spawn" => u = t
        /\ \A h \in Handles : pc[h] \notin Starting

\* At most one task is inside the critical section, on the core that owns it.
MuxInv ==
    \A h \in Handles : pc[h] \in InMux =>
        /\ muxCount > 0 /\ muxOwner = core[h]
        /\ \A g \in Handles : pc[g] \in InMux => g = h

\* Memory belongs to registered contexts.
FreedInv == \A n \in AllNodes \ Registered : mem[n] = {}

Base == TypeOK /\ RegInv /\ StartInv /\ SpawnInv /\ MuxInv /\ FreedInv

-----------------------------------------------------------------------------
(* What holds as long as every task has its own id                          *)

\* The ids of registered contexts are unique, and a known one is that of a task
\* that works for the context and is not about to leave.
IdInv ==
    /\ id[Main] = MainTask /\ pc[MainTask] \in WithHeap
    /\ \A m, n \in Registered : id[m] = id[n] => m = n
    /\ \A n \in Registered : id[n] \in Handles =>
          ctx[id[n]] = n /\ pc[id[n]] # "spawn" /\ ~Leaving(id[n])

\* A stop in progress: the handle it holds is not given out again, and its
\* context is gone when the task is about to be deleted.
StopInv ==
    \A h \in Handles : pc[h] \in Stopping =>
        /\ <<h, target[h]>> \in MayStop
        /\ target[h] # MainTask
        /\ pc[target[h]] # "spawn"
        /\ pc[h] = "stop_delete" => \A n \in Registered : id[n] # target[h]

\* A task has its context unless another one is between taking the context away
\* and deleting the task.
CtxInv ==
    \A t \in Handles : ~Leaving(t) /\ pc[t] # "spawn" =>
        \/ ctx[t] \in Registered /\ id[ctx[t]] = t
        \/ /\ ctx[t] \notin Registered
           /\ \E h \in Handles : h # t /\ pc[h] = "stop_delete" /\ target[h] = t

HeapInv ==
    \A t \in Handles : pc[t] \in WithHeap /\ ctx[t] \in Registered /\ id[ctx[t]] = t =>
        "heap" \in mem[ctx[t]]

Own == IdInv /\ StopInv /\ CtxInv /\ HeapInv

-----------------------------------------------------------------------------
(* The registry                                                             *)

\* The default context is the head of the list, which holds nodes only.
LEMMA RegisteredFacts ==
    ASSUME TypeOK, RegInv
    PROVE  Main \in Registered /\ Registered \subseteq AllNodes
BY DEF TypeOK, RegInv, Registered

\* mp_context_remove leaves a list without the node and otherwise as it was.
LEMMA UnlinkedFacts ==
    ASSUME TypeOK, RegInv, NEW n \in Registered, n # Main, registry' = Unlinked(n)
    PROVE  /\ registry' \in Seq(AllNodes) /\ registry' # <<>>
           /\ RegInv' /\ Registered' = Registered \ {n}
<1> DEFINE k == CHOOSE i \in 1..Len(registry) : registry[i] = n
<1>1. k \in 1..Len(registry) /\ registry[k] = n
  BY DEF Registered
<1>2. k # 1
  BY <1>1 DEF RegInv
<1>3. registry' = [i \in 1..(Len(registry) - 1) |-> registry[IF i < k THEN i ELSE i + 1]]
  BY DEF Unlinked
<1> HIDE DEF k
<1>4. registry' \in Seq(AllNodes) /\ Len(registry') = Len(registry) - 1 /\ registry' # <<>>
  <2>1. Len(registry) \in Nat /\ registry \in [1..Len(registry) -> AllNodes]
    BY LenProperties DEF TypeOK
  <2>2. Len(registry) - 1 \in Nat \ {0}
    BY <1>1, <1>2, <2>1
  <2>3. registry' \in [1..(Len(registry) - 1) -> AllNodes]
    BY <1>1, <1>3, <2>1
  <2>4. registry' \in Seq(AllNodes)
    BY <2>2, <2>3, SeqDef
  <2>5. Len(registry') = Len(registry) - 1
    BY <2>2, <2>3, <2>4
  <2> QED BY <2>2, <2>4, <2>5
<1>5. RegInv'
  <2>1. registry'[1] = Main
    BY <1>1, <1>2, <1>3, <1>4 DEF RegInv, TypeOK
  <2>2. ASSUME NEW i \in 1..Len(registry'), NEW j \in 1..Len(registry'), registry'[i] = registry'[j]
        PROVE  i = j
    BY <1>1, <1>3, <1>4, <2>2 DEF RegInv, TypeOK
  <2> QED BY <2>1, <2>2 DEF RegInv
<1>6. Registered' = Registered \ {n}
  <2>1. ASSUME NEW i \in 1..Len(registry') PROVE registry'[i] \in Registered \ {n}
    BY <1>1, <1>3, <1>4 DEF RegInv, TypeOK, Registered
  <2>2. ASSUME NEW i \in 1..Len(registry), registry[i] # n PROVE registry[i] \in Registered'
    <3> DEFINE j == IF i < k THEN i ELSE i - 1
    <3>1. j \in 1..Len(registry') /\ registry'[j] = registry[i]
      BY <1>1, <1>3, <1>4, <2>2 DEF TypeOK
    <3> QED BY <3>1 DEF Registered
  <2> QED BY <2>1, <2>2 DEF Registered
<1> QED BY <1>4, <1>5, <1>6

\* mp_context_append makes the new node the last of the list.
LEMMA AppendFacts ==
    ASSUME TypeOK, RegInv, NEW n \in AllNodes, n \notin Registered, registry' = Append(registry, n)
    PROVE  /\ registry' \in Seq(AllNodes) /\ registry' # <<>>
           /\ RegInv' /\ Registered' = Registered \cup {n}
<1>1. /\ registry' \in Seq(AllNodes) /\ Len(registry') = Len(registry) + 1
      /\ \A i \in 1..Len(registry) : registry'[i] = registry[i]
      /\ registry'[Len(registry) + 1] = n
  BY DEF TypeOK
<1>2. RegInv'
  BY <1>1 DEF RegInv, TypeOK, Registered
<1>3. Registered' = Registered \cup {n}
  BY <1>1 DEF TypeOK, Registered
<1> QED BY <1>1, <1>2, <1>3 DEF TypeOK

\* mp_context_by_tid returns a registered context with that id.
LEMMA FoundFacts ==
    ASSUME TypeOK, NEW i, HasTid(i)
    PROVE  FirstWithTid(i) \in Registered /\ id[FirstWithTid(i)] = i
<1> DEFINE S == {k \in 1..Len(registry) : id[registry[k]] = i}
<1>1. S # {} /\ S \in SUBSET Nat
  BY DEF HasTid, Registered, TypeOK
<1>2. PICK e \in S : \A x \in S : ~(<<x, e>> \in OpToRel(<, Nat))
  BY <1>1, NatLessThanWellFounded, WFMin
<1>3. \A x \in S : ~(x < e)
  BY <1>1, <1>2 DEF OpToRel
<1> DEFINE First(k) == id[registry[k]] = i /\ \A j \in 1..(k - 1) : id[registry[j]] # i
<1>4. e \in 1..Len(registry) /\ First(e)
  BY <1>3 DEF TypeOK
<1> DEFINE k == CHOOSE j \in 1..Len(registry) : First(j)
<1>5. First(k) /\ k \in 1..Len(registry)
  BY <1>4
<1> QED BY <1>5 DEF FirstWithTid, Registered

\* mp_task_remove takes out contexts of that id only, with their memory.
LEMMA RemoveFacts ==
    ASSUME TypeOK, RegInv, NEW t \in Handles, TaskRemove(t)
    PROVE  /\ registry' \in Seq(AllNodes) /\ registry' # <<>> /\ RegInv'
           /\ id' = id /\ mem' \in [AllNodes -> SUBSET Blocks]
           /\ Registered' \subseteq Registered
           /\ \A n \in Registered \ Registered' : id[n] = t
           /\ \A n \in AllNodes : mem'[n] = IF n \in Registered \ Registered' THEN {} ELSE mem[n]
<1>1. CASE HasTid(t) /\ FirstWithTid(t) # Main
  <2> DEFINE n == FirstWithTid(t)
  <2>1. n \in Registered /\ id[n] = t /\ n # Main
    BY <1>1, FoundFacts
  <2>2. registry' = Unlinked(n) /\ mem' = [mem EXCEPT ![n] = {}] /\ id' = id
    BY <1>1 DEF TaskRemove, ContextRemove
  <2> HIDE DEF n
  <2>3. registry' \in Seq(AllNodes) /\ registry' # <<>> /\ RegInv' /\ Registered' = Registered \ {n}
    BY <2>1, <2>2, UnlinkedFacts
  <2> QED BY <2>1, <2>2, <2>3 DEF TypeOK
<1>2. CASE ~(HasTid(t) /\ FirstWithTid(t) # Main)
  <2>1. UNCHANGED <<registry, id, mem>>
    BY <1>2 DEF TaskRemove, registryVars
  <2>2. Registered' = Registered /\ RegInv'
    BY <2>1 DEF Registered, RegInv
  <2> QED BY <2>1, <2>2 DEF TypeOK
<1> QED BY <1>1, <1>2

\* mp_task_alloc gives the memory to a registered context.
LEMMA AllocFacts ==
    ASSUME TypeOK, RegInv, NEW i, NEW blocks, TaskAlloc(i, blocks), blocks \subseteq Blocks
    PROVE  /\ mem' \in [AllNodes -> SUBSET Blocks]
           /\ \A n \in AllNodes \ Registered : mem'[n] = mem[n]
BY FoundFacts, RegisteredFacts DEF TaskAlloc, TypeOK

\* With unique ids the search for a node's id finds the node.
LEMMA FirstFacts ==
    ASSUME TypeOK, RegInv, IdInv, NEW n \in Registered
    PROVE  HasTid(id[n]) /\ FirstWithTid(id[n]) = n
<1> DEFINE First(i) == id[registry[i]] = id[n] /\ \A j \in 1..(i - 1) : id[registry[j]] # id[n]
<1>1. PICK i \in 1..Len(registry) : registry[i] = n
  BY DEF Registered
<1>2. First(i)
  BY <1>1 DEF RegInv, IdInv, Registered, TypeOK
<1> DEFINE k == CHOOSE j \in 1..Len(registry) : First(j)
<1>3. First(k) /\ k \in 1..Len(registry)
  BY <1>2
<1>4. registry[k] = n
  BY <1>3 DEF IdInv, Registered
<1> QED BY <1>1, <1>4 DEF FirstWithTid, HasTid, Registered

\* mp_task_remove takes out the task's context, if it has one, with its memory.
LEMMA TaskRemoveFacts ==
    ASSUME TypeOK, RegInv, IdInv, NEW t \in Handles, t # MainTask, TaskRemove(t)
    PROVE  /\ registry' \in Seq(AllNodes) /\ registry' # <<>> /\ RegInv'
           /\ id' = id /\ mem' \in [AllNodes -> SUBSET Blocks]
           /\ Registered' = {n \in Registered : id[n] # t}
           /\ \A n \in AllNodes : mem'[n] = IF n \in Registered /\ id[n] = t THEN {} ELSE mem[n]
<1>1. CASE ~HasTid(t)
  <2>1. \A n \in Registered : id[n] # t
    BY <1>1 DEF HasTid
  <2>2. UNCHANGED <<registry, id, mem>>
    BY <1>1 DEF TaskRemove, registryVars
  <2>3. Registered' = Registered /\ RegInv'
    BY <2>2 DEF Registered, RegInv
  <2> QED BY <2>1, <2>2, <2>3 DEF TypeOK
<1>2. CASE HasTid(t)
  <2>1. PICK n \in Registered : id[n] = t
    BY <1>2 DEF HasTid
  <2>2. FirstWithTid(t) = n
    BY <2>1, FirstFacts
  <2>3. n # Main
    BY <2>1 DEF IdInv
  <2>4. registry' = Unlinked(n) /\ mem' = [mem EXCEPT ![n] = {}] /\ id' = id
    BY <1>2, <2>2, <2>3 DEF TaskRemove, ContextRemove
  <2>5. \A x \in Registered : id[x] = t <=> x = n
    BY <2>1 DEF IdInv
  <2>6. registry' \in Seq(AllNodes) /\ registry' # <<>> /\ RegInv' /\ Registered' = Registered \ {n}
    BY <2>3, <2>4, UnlinkedFacts
  <2> QED BY <2>1, <2>4, <2>5, <2>6 DEF TypeOK
<1> QED BY <1>1, <1>2

\* mp_task_alloc finds the context the task works for.
LEMMA TaskAllocFacts ==
    ASSUME TypeOK, RegInv, IdInv, NEW t \in Handles, NEW blocks, TaskAlloc(t, blocks)
    PROVE  /\ ctx[t] \in Registered /\ id[ctx[t]] = t
           /\ mem' = [mem EXCEPT ![ctx[t]] = @ \cup blocks]
<1>1. PICK n \in Registered : id[n] = t
  BY DEF TaskAlloc, HasTid
<1>2. ctx[t] = n /\ FirstWithTid(t) = n
  BY <1>1, FirstFacts DEF IdInv
<1> QED BY <1>1, <1>2 DEF TaskAlloc

-----------------------------------------------------------------------------
(* Steps: what always holds                                                 *)

\* Every step of multipython_task_template keeps the invariant.
LEMMA TemplateKeepsBase ==
    ASSUME NEW s \in Handles, Manages(s), Base, NEW h \in Handles, Template(h)
    PROVE  Base'
<1>0. /\ TypeOK /\ RegInv /\ StartInv /\ SpawnInv /\ MuxInv /\ FreedInv
      /\ Main \in Registered /\ Registered \subseteq AllNodes
      /\ Starters \subseteq {s}
      /\ MainTask \in Handles /\ Unknown \notin Handles \cup {Other}
  BY RegisteredFacts, HandlesAssumption DEF Base, Manages
<1>1. CASE TaskSetId(h)
  <2>0. PICK i \in TaskIds : id' = [id EXCEPT ![ctx[h]] = i] /\ i # Unknown /\ drifted' \in BOOLEAN
    BY <1>1, <1>0 DEF TaskSetId, CurrentId
  <2>1. Registered' = Registered /\ RegInv'
    BY <1>1, <1>0 DEF TaskSetId, Registered, RegInv, registryVars
  <2>2. TypeOK'
    BY <1>1, <1>0, <2>1, <2>0 DEF TaskSetId, TypeOK, TaskIds, Blocks, registryVars, taskVars,
          callVars, muxVars
  <2>4. StartInv' /\ SpawnInv'
    BY <1>1, <1>0, <2>1, <2>0 DEF TaskSetId, TypeOK, StartInv, Starting, SpawnInv, registryVars,
          taskVars, callVars, muxVars
  <2>5. MuxInv' /\ FreedInv'
    BY <1>1, <1>0, <2>1, <2>0 DEF TaskSetId, TypeOK, FreedInv, Stopping, SpawnInv, MuxInv, InMux,
          registryVars, taskVars, callVars, muxVars
  <2> QED BY <2>1, <2>2, <2>4, <2>5 DEF Base
<1>2. CASE TaskThreadInit(h)
  <2>1. Registered' = Registered /\ RegInv'
    BY <1>2, <1>0 DEF TaskThreadInit, Registered, RegInv, registryVars
  <2>0. /\ mem' \in [AllNodes -> SUBSET Blocks] /\ drifted' \in BOOLEAN
        /\ \A n \in AllNodes \ Registered : mem'[n] = mem[n]
    BY <1>2, <1>0, AllocFacts DEF TaskThreadInit, CurrentId, Blocks, TypeOK
  <2>2. TypeOK'
    BY <1>2, <1>0, <2>1, <2>0 DEF TaskThreadInit, TypeOK, TaskIds, Blocks, registryVars,
          taskVars, callVars, muxVars
  <2>4. StartInv' /\ SpawnInv'
    BY <1>2, <1>0, <2>1, <2>0 DEF TaskThreadInit, TypeOK, StartInv, Starting, SpawnInv,
          registryVars, taskVars, callVars, muxVars
  <2>5. MuxInv' /\ FreedInv'
    BY <1>2, <1>0, <2>1, <2>0 DEF TaskThreadInit, TypeOK, FreedInv, Stopping, MuxInv, InMux,
          registryVars, taskVars, callVars, muxVars
  <2> QED BY <2>1, <2>2, <2>4, <2>5 DEF Base
<1>3. CASE TaskHeap(h)
  <2>1. Registered' = Registered /\ RegInv'
    BY <1>3, <1>0 DEF TaskHeap, Registered, RegInv, registryVars
  <2>0. /\ mem' \in [AllNodes -> SUBSET Blocks] /\ drifted' \in BOOLEAN
        /\ \A n \in AllNodes \ Registered : mem'[n] = mem[n]
    BY <1>3, <1>0, AllocFacts DEF TaskHeap, CurrentId, Blocks, TypeOK
  <2>2. TypeOK'
    BY <1>3, <1>0, <2>1, <2>0 DEF TaskHeap, TypeOK, TaskIds, Blocks, registryVars,
          taskVars, callVars, muxVars
  <2>4. StartInv' /\ SpawnInv'
    BY <1>3, <1>0, <2>1, <2>0 DEF TaskHeap, TypeOK, StartInv, Starting, SpawnInv, registryVars,
          taskVars, callVars, muxVars
  <2>5. MuxInv' /\ FreedInv'
    BY <1>3, <1>0, <2>1, <2>0 DEF TaskHeap, TypeOK, FreedInv, Stopping, MuxInv, InMux,
          registryVars, taskVars, callVars, muxVars
  <2> QED BY <2>1, <2>2, <2>4, <2>5 DEF Base
<1>4. CASE TaskNoHeap(h)
  <2>1. Registered' = Registered /\ RegInv'
    BY <1>4, <1>0 DEF TaskNoHeap, Registered, RegInv, registryVars
  <2>2. TypeOK'
    BY <1>4, <1>0, <2>1 DEF TaskNoHeap, TypeOK, registryVars, taskVars, callVars, muxVars
  <2>4. StartInv' /\ SpawnInv'
    BY <1>4, <1>0, <2>1 DEF TaskNoHeap, TypeOK, StartInv, Starting, SpawnInv, registryVars,
          taskVars, callVars, muxVars
  <2>5. MuxInv' /\ FreedInv'
    BY <1>4, <1>0, <2>1 DEF TaskNoHeap, TypeOK, FreedInv, Stopping, MuxInv, InMux,
          registryVars, taskVars, callVars, muxVars
  <2> QED BY <2>1, <2>2, <2>4, <2>5 DEF Base
<1>5. CASE TaskFinish(h)
  <2>1. Registered' = Registered /\ RegInv'
    BY <1>5, <1>0 DEF TaskFinish, Registered, RegInv, registryVars
  <2>2. TypeOK'
    BY <1>5, <1>0, <2>1 DEF TaskFinish, TypeOK, registryVars, taskVars, callVars, muxVars
  <2>4. StartInv' /\ SpawnInv'
    BY <1>5, <1>0, <2>1 DEF TaskFinish, TypeOK, StartInv, Starting, SpawnInv, registryVars,
          taskVars, callVars, muxVars
  <2>5. MuxInv' /\ FreedInv'
    BY <1>5, <1>0, <2>1 DEF TaskFinish, TypeOK, FreedInv, Stopping, MuxInv, InMux,
          registryVars, taskVars, callVars, muxVars
  <2> QED BY <2>1, <2>2, <2>4, <2>5 DEF Base
<1>6. CASE TaskRemoveSelf(h)
  <2>1. /\ registry' \in Seq(AllNodes) /\ registry' # <<>> /\ RegInv'
        /\ id' = id /\ mem' \in [AllNodes -> SUBSET Blocks]
        /\ Registered' \subseteq Registered /\ \A n \in Registered \ Registered' : id[n] = h
        /\ \A n \in AllNodes : mem'[n] = IF n \in Registered \ Registered' THEN {} ELSE mem[n]
    BY <1>6, <1>0, RemoveFacts DEF TaskRemoveSelf
  <2>2. TypeOK'
    BY <1>6, <1>0, <2>1 DEF TaskRemoveSelf, TypeOK, registryVars, taskVars, callVars,
          muxVars
  <2>4. StartInv' /\ SpawnInv'
    BY <1>6, <1>0, <2>1 DEF TaskRemoveSelf, TypeOK, StartInv, Starting, SpawnInv,
          registryVars, taskVars, callVars, muxVars
  <2>5. MuxInv' /\ FreedInv'
    BY <1>6, <1>0, <2>1 DEF TaskRemoveSelf, TypeOK, FreedInv, Stopping, MuxInv, InMux,
          registryVars, taskVars, callVars, muxVars
  <2> QED BY <2>1, <2>2, <2>4, <2>5 DEF Base
<1>7. CASE TaskDeleteSelf(h)
  <2>1. Registered' = Registered /\ RegInv'
    BY <1>7, <1>0 DEF TaskDeleteSelf, Registered, RegInv, registryVars
  <2>2. TypeOK'
    BY <1>7, <1>0, <2>1 DEF TaskDeleteSelf, TypeOK, registryVars, taskVars, callVars,
          muxVars
  <2>4. StartInv' /\ SpawnInv'
    BY <1>7, <1>0, <2>1 DEF TaskDeleteSelf, TypeOK, StartInv, Starting, SpawnInv,
          registryVars, taskVars, callVars, muxVars
  <2>5. MuxInv' /\ FreedInv'
    BY <1>7, <1>0, <2>1 DEF TaskDeleteSelf, TypeOK, FreedInv, Stopping, MuxInv, InMux,
          registryVars, taskVars, callVars, muxVars
  <2> QED BY <2>1, <2>2, <2>4, <2>5 DEF Base
<1> QED BY <1>1, <1>2, <1>3, <1>4, <1>5, <1>6, <1>7 DEF Template

\* Every step of a stop keeps it: the mux is held by one task at a time, and only the
\* manager holds a task other than its own between mp_task_remove and vTaskDelete.
LEMMA StopKeepsBase ==
    ASSUME NEW s \in Handles, Manages(s), Base, NEW h \in Handles, Stop(h)
    PROVE  Base'
<1>0. /\ TypeOK /\ RegInv /\ StartInv /\ SpawnInv /\ MuxInv /\ FreedInv
      /\ Main \in Registered /\ Registered \subseteq AllNodes
      /\ Starters \subseteq {s}
      /\ MainTask \in Handles /\ Unknown \notin Handles \cup {Other}
  BY RegisteredFacts, HandlesAssumption DEF Base, Manages
<1>1. CASE (\E t \in Handles : StopCheck(h, t))
  <2>0. PICK t \in Handles : StopCheck(h, t)
    BY <1>1
  <2>1. Registered' = Registered /\ RegInv'
    BY <2>0, <1>0 DEF StopCheck, Registered, RegInv, registryVars
  <2>2. TypeOK'
    BY <2>0, <1>0, <2>1 DEF StopCheck, TypeOK, registryVars, taskVars, callVars, muxVars
  <2>4. StartInv' /\ SpawnInv'
    BY <2>0, <1>0, <2>1 DEF StopCheck, TypeOK, StartInv, Starting, SpawnInv, registryVars,
          taskVars, callVars, muxVars
  <2>5. MuxInv' /\ FreedInv'
    BY <2>0, <1>0, <2>1 DEF StopCheck, TypeOK, FreedInv, Stopping, MuxInv, InMux,
          registryVars, taskVars, callVars, muxVars
  <2> QED BY <2>1, <2>2, <2>4, <2>5 DEF Base
<1>2. CASE StopRemove(h)
  <2>1. /\ registry' \in Seq(AllNodes) /\ registry' # <<>> /\ RegInv'
        /\ id' = id /\ mem' \in [AllNodes -> SUBSET Blocks]
        /\ Registered' \subseteq Registered /\ \A n \in Registered \ Registered' : id[n] = target[h]
        /\ \A n \in AllNodes : mem'[n] = IF n \in Registered \ Registered' THEN {} ELSE mem[n]
        /\ target[h] \in Handles
    BY <1>2, <1>0, RemoveFacts DEF StopRemove, TypeOK
  <2>2. TypeOK'
    BY <1>2, <1>0, <2>1, NestingAssumption DEF StopRemove, TypeOK, registryVars, taskVars,
          callVars, muxVars
  <2>4. StartInv' /\ SpawnInv'
    BY <1>2, <1>0, <2>1 DEF StopRemove, TypeOK, StartInv, Starting, SpawnInv, registryVars,
          taskVars, callVars, muxVars
  <2>5. MuxInv' /\ FreedInv'
    BY <1>2, <1>0, <2>1 DEF StopRemove, TypeOK, FreedInv, Stopping, MuxInv, InMux, Executes,
          CanEnter, registryVars, taskVars, callVars, muxVars
  <2> QED BY <2>1, <2>2, <2>4, <2>5 DEF Base
<1>3. CASE StopDelete(h)
  <2>1. Registered' = Registered /\ RegInv'
    BY <1>3, <1>0 DEF StopDelete, Registered, RegInv, registryVars
  <2>2. TypeOK'
    BY <1>3, <1>0, <2>1 DEF StopDelete, TypeOK, registryVars, taskVars, callVars, muxVars
  <2>4. StartInv' /\ SpawnInv'
    BY <1>3, <1>0, <2>1 DEF StopDelete, TypeOK, StartInv, Starting, StopInv, Stopping,
          SpawnInv, registryVars, taskVars, callVars, muxVars
  <2>5. MuxInv' /\ FreedInv'
    BY <1>3, <1>0, <2>1 DEF StopDelete, TypeOK, FreedInv, Stopping, MuxInv, InMux,
          registryVars, taskVars, callVars, muxVars
  <2> QED BY <2>1, <2>2, <2>4, <2>5 DEF Base
<1>4. CASE StopDeleteSelf(h)
  <2>1. Registered' = Registered /\ RegInv'
    BY <1>4, <1>0 DEF StopDeleteSelf, Registered, RegInv, registryVars
  <2>2. TypeOK'
    BY <1>4, <1>0, <2>1 DEF StopDeleteSelf, TypeOK, registryVars, taskVars, callVars,
          muxVars
  <2>4. StartInv' /\ SpawnInv'
    BY <1>4, <1>0, <2>1 DEF StopDeleteSelf, TypeOK, StartInv, Starting, SpawnInv,
          registryVars, taskVars, callVars, muxVars
  <2>5. MuxInv' /\ FreedInv'
    BY <1>4, <1>0, <2>1 DEF StopDeleteSelf, TypeOK, FreedInv, Stopping, MuxInv, InMux,
          registryVars, taskVars, callVars, muxVars
  <2> QED BY <2>1, <2>2, <2>4, <2>5 DEF Base
<1>5. CASE StopExit(h)
  <2>1. Registered' = Registered /\ RegInv'
    BY <1>5, <1>0 DEF StopExit, Registered, RegInv, registryVars
  <2>2. TypeOK'
    BY <1>5, <1>0, <2>1, NestingAssumption DEF StopExit, TypeOK, TaskIds, Blocks, MuxInv,
          InMux, registryVars, taskVars, callVars, muxVars
  <2>4. StartInv' /\ SpawnInv'
    BY <1>5, <1>0, <2>1 DEF StopExit, TypeOK, StartInv, Starting, SpawnInv, registryVars,
          taskVars, callVars, muxVars
  <2>5. MuxInv' /\ FreedInv'
    BY <1>5, <1>0, <2>1 DEF StopExit, TypeOK, FreedInv, Stopping, MuxInv, InMux,
          registryVars, taskVars, callVars, muxVars
  <2> QED BY <2>1, <2>2, <2>4, <2>5 DEF Base
<1>6. CASE StopReturn(h)
  <2>1. Registered' = Registered /\ RegInv'
    BY <1>6, <1>0 DEF StopReturn, Registered, RegInv, registryVars
  <2>2. TypeOK'
    BY <1>6, <1>0, <2>1 DEF StopReturn, TypeOK, registryVars, taskVars, callVars, muxVars
  <2>4. StartInv' /\ SpawnInv'
    BY <1>6, <1>0, <2>1 DEF StopReturn, TypeOK, StartInv, Starting, SpawnInv, registryVars,
          taskVars, callVars, muxVars
  <2>5. MuxInv' /\ FreedInv'
    BY <1>6, <1>0, <2>1 DEF StopReturn, TypeOK, FreedInv, Stopping, MuxInv, InMux,
          registryVars, taskVars, callVars, muxVars
  <2> QED BY <2>1, <2>2, <2>4, <2>5 DEF Base
<1> QED BY <1>1, <1>2, <1>3, <1>4, <1>5, <1>6 DEF Stop

\* Every step of multipython_start keeps it: while the manager starts a context it
\* stops none, so that no node is reused under a task that is about to be deleted.
LEMMA StartKeepsBase ==
    ASSUME NEW s \in Handles, Manages(s), Base, NEW h \in Handles, Start(h)
    PROVE  Base'
<1>0. /\ TypeOK /\ RegInv /\ StartInv /\ SpawnInv /\ MuxInv /\ FreedInv
      /\ Main \in Registered /\ Registered \subseteq AllNodes
      /\ Starters \subseteq {s}
      /\ MainTask \in Handles /\ Unknown \notin Handles \cup {Other}
  BY RegisteredFacts, HandlesAssumption DEF Base, Manages
<1>1. CASE StartCheck(h)
  <2>1. Registered' = Registered /\ RegInv'
    BY <1>1, <1>0 DEF StartCheck, Registered, RegInv, registryVars
  <2>2. TypeOK'
    BY <1>1, <1>0, <2>1 DEF StartCheck, TypeOK, registryVars, taskVars, callVars, muxVars
  <2>4. StartInv' /\ SpawnInv'
    BY <1>1, <1>0, <2>1 DEF StartCheck, TypeOK, StartInv, Starting, HasTid, SpawnInv,
          registryVars, taskVars, callVars, muxVars
  <2>5. MuxInv' /\ FreedInv'
    BY <1>1, <1>0, <2>1 DEF StartCheck, TypeOK, FreedInv, Stopping, MuxInv, InMux,
          registryVars, taskVars, callVars, muxVars
  <2> QED BY <2>1, <2>2, <2>4, <2>5 DEF Base
<1>2. CASE StartAppend(h)
  <2>0. PICK n \in Nodes \ Registered :
            /\ registry' = Append(registry, n)
            /\ id' = [id EXCEPT ![n] = Unknown] /\ node' = [node EXCEPT ![h] = n]
    BY <1>2 DEF StartAppend
  <2>1. /\ registry' \in Seq(AllNodes) /\ registry' # <<>> /\ RegInv'
        /\ Registered' = Registered \cup {n} /\ n \in AllNodes /\ n # Main
    BY <1>0, <2>0, AppendFacts, NodesAssumption DEF AllNodes
  <2>2. TypeOK'
    BY <1>2, <1>0, <2>1, <2>0 DEF StartAppend, TypeOK, TaskIds, Blocks, registryVars,
          taskVars, callVars, muxVars
  <2>4. StartInv' /\ SpawnInv'
    BY <1>2, <1>0, <2>1, <2>0 DEF StartAppend, TypeOK, StartInv, Starting, SpawnInv,
          registryVars, taskVars, callVars, muxVars
  <2>5. MuxInv' /\ FreedInv'
    BY <1>2, <1>0, <2>1, <2>0 DEF StartAppend, TypeOK, FreedInv, Stopping, MuxInv, InMux,
          registryVars, taskVars, callVars, muxVars
  <2> QED BY <2>1, <2>2, <2>4, <2>5 DEF Base
<1>3. CASE StartNoNode(h)
  <2>1. Registered' = Registered /\ RegInv'
    BY <1>3, <1>0 DEF StartNoNode, Registered, RegInv, registryVars
  <2>2. TypeOK'
    BY <1>3, <1>0, <2>1 DEF StartNoNode, TypeOK, registryVars, taskVars, callVars, muxVars
  <2>4. StartInv' /\ SpawnInv'
    BY <1>3, <1>0, <2>1 DEF StartNoNode, TypeOK, StartInv, Starting, SpawnInv,
          registryVars, taskVars, callVars, muxVars
  <2>5. MuxInv' /\ FreedInv'
    BY <1>3, <1>0, <2>1 DEF StartNoNode, TypeOK, FreedInv, Stopping, MuxInv, InMux,
          registryVars, taskVars, callVars, muxVars
  <2> QED BY <2>1, <2>2, <2>4, <2>5 DEF Base
<1>4. CASE StartSource(h)
  <2>1. Registered' = Registered /\ RegInv'
    BY <1>4, <1>0 DEF StartSource, Registered, RegInv, registryVars
  <2>2. TypeOK'
    BY <1>4, <1>0, <2>1 DEF StartSource, TypeOK, TaskIds, Blocks, registryVars, taskVars,
          callVars, muxVars
  <2>4. StartInv' /\ SpawnInv'
    BY <1>4, <1>0, <2>1 DEF StartSource, TypeOK, StartInv, Starting, SpawnInv,
          registryVars, taskVars, callVars, muxVars
  <2>5. MuxInv' /\ FreedInv'
    BY <1>4, <1>0, <2>1 DEF StartInv, Starting, StartSource, TypeOK, FreedInv, Stopping, MuxInv, InMux,
          registryVars, taskVars, callVars, muxVars
  <2> QED BY <2>1, <2>2, <2>4, <2>5 DEF Base
<1>5. CASE StartNoSource(h)
  <2>0. node[h] \in Registered /\ node[h] # Main /\ id[node[h]] = Unknown
    BY <1>5, <1>0 DEF StartNoSource, StartInv, Starting
  <2>1. /\ registry' \in Seq(AllNodes) /\ registry' # <<>> /\ RegInv'
        /\ Registered' = Registered \ {node[h]}
        /\ id' = id /\ mem' = [mem EXCEPT ![node[h]] = {}]
    BY <1>5, <1>0, <2>0, UnlinkedFacts DEF StartNoSource, ContextRemove
  <2>2. TypeOK'
    BY <1>5, <1>0, <2>1, <2>0 DEF StartNoSource, TypeOK, TaskIds, Blocks, AllNodes,
          registryVars, taskVars, callVars, muxVars
  <2>4. StartInv' /\ SpawnInv'
    BY <1>5, <1>0, <2>1, <2>0 DEF StartNoSource, TypeOK, StartInv, Starting, SpawnInv,
          registryVars, taskVars, callVars, muxVars
  <2>5. MuxInv' /\ FreedInv'
    BY <1>5, <1>0, <2>1, <2>0 DEF StartNoSource, TypeOK, FreedInv, Stopping, MuxInv, InMux,
          registryVars, taskVars, callVars, muxVars
  <2> QED BY <2>1, <2>2, <2>4, <2>5 DEF Base
<1>6. CASE StartCreate(h)
  <2>1. Registered' = Registered /\ RegInv'
    BY <1>6, <1>0 DEF StartCreate, Registered, RegInv, registryVars
  <2>0. PICK t \in Handles, k \in Cores, unpinned \in BOOLEAN :
            /\ pc[t] = "none"
            /\ unpinned => t \in Roamers
            /\ pc' = [pc EXCEPT ![t] = "spawn", ![h] = "run"]
            /\ ctx' = [ctx EXCEPT ![t] = node[h]]
            /\ core' = [core EXCEPT ![t] = k]
            /\ roaming' = IF unpinned THEN roaming \cup {t} ELSE roaming
    BY <1>6 DEF StartCreate
  <2>2. TypeOK'
    BY <1>6, <1>0, <2>1, <2>0 DEF StartCreate, TypeOK, TaskIds, Blocks, AllNodes,
          registryVars, taskVars, callVars, muxVars
  <2>4. StartInv' /\ SpawnInv'
    BY <1>6, <1>0, <2>1, <2>0 DEF StartCreate, TypeOK, StartInv, Starting, SpawnInv,
          registryVars, taskVars, callVars, muxVars
  <2>5. MuxInv' /\ FreedInv'
    BY <1>6, <1>0, <2>1, <2>0 DEF StartCreate, TypeOK, FreedInv, Stopping, StartInv,
          Starting, MuxInv, InMux, registryVars, taskVars, callVars, muxVars
  <2> QED BY <2>1, <2>2, <2>4, <2>5 DEF Base
<1>7. CASE StartNoTask(h)
  <2>1. Registered' = Registered /\ RegInv'
    BY <1>7, <1>0 DEF StartNoTask, Registered, RegInv, registryVars
  <2>2. TypeOK'
    BY <1>7, <1>0, <2>1 DEF StartNoTask, TypeOK, TaskIds, Blocks, AllNodes, registryVars,
          taskVars, callVars, muxVars
  <2>4. StartInv' /\ SpawnInv'
    BY <1>7, <1>0, <2>1 DEF StartNoTask, TypeOK, StartInv, Starting, SpawnInv,
          registryVars, taskVars, callVars, muxVars
  <2>5. MuxInv' /\ FreedInv'
    BY <1>7, <1>0, <2>1 DEF StartNoTask, TypeOK, FreedInv, Stopping, MuxInv, InMux,
          registryVars, taskVars, callVars, muxVars
  <2> QED BY <2>1, <2>2, <2>4, <2>5 DEF Base
<1>8. CASE StartRaises(h)
  <2>1. Registered' = Registered /\ RegInv'
    BY <1>8, <1>0 DEF StartRaises, Registered, RegInv, registryVars
  <2>2. TypeOK'
    BY <1>8, <1>0, <2>1 DEF StartRaises, TypeOK, TaskIds, Blocks, AllNodes, registryVars,
          taskVars, callVars, muxVars
  <2>4. StartInv' /\ SpawnInv'
    BY <1>8, <1>0, <2>1 DEF StartRaises, TypeOK, StartInv, Starting, SpawnInv,
          registryVars, taskVars, callVars, muxVars
  <2>5. MuxInv' /\ FreedInv'
    BY <1>8, <1>0, <2>1 DEF StartRaises, TypeOK, FreedInv, Stopping, MuxInv, InMux,
          registryVars, taskVars, callVars, muxVars
  <2> QED BY <2>1, <2>2, <2>4, <2>5 DEF Base
<1> QED BY <1>1, <1>2, <1>3, <1>4, <1>5, <1>6, <1>7, <1>8 DEF Start

\* A task that moves to another core is not inside the critical section.
LEMMA MigrateKeepsBase ==
    ASSUME NEW s \in Handles, Manages(s), Base, NEW h \in Handles, Migrate(h)
    PROVE  Base'
<1>0. /\ TypeOK /\ RegInv /\ StartInv /\ SpawnInv /\ MuxInv /\ FreedInv
      /\ Main \in Registered /\ Registered \subseteq AllNodes
      /\ Starters \subseteq {s}
      /\ MainTask \in Handles /\ Unknown \notin Handles \cup {Other}
  BY RegisteredFacts, HandlesAssumption DEF Base, Manages
<1>1. CASE Migrate(h)
  <2>1. Registered' = Registered /\ RegInv'
    BY <1>1, <1>0 DEF Migrate, Registered, RegInv, registryVars
  <2>2. TypeOK'
    BY <1>1, <1>0, <2>1 DEF Migrate, TypeOK, TaskIds, Blocks, AllNodes, registryVars,
          taskVars, callVars, muxVars
  <2>4. StartInv' /\ SpawnInv'
    BY <1>1, <1>0, <2>1 DEF Migrate, TypeOK, StartInv, Starting, SpawnInv, registryVars,
          taskVars, callVars, muxVars
  <2>5. MuxInv' /\ FreedInv'
    BY <1>1, <1>0, <2>1 DEF Migrate, TypeOK, FreedInv, Stopping, MuxInv, InMux, registryVars,
          taskVars, callVars, muxVars
  <2> QED BY <2>1, <2>2, <2>4, <2>5 DEF Base
<1> QED BY <1>1

\* The idle task frees handles nobody refers to.
LEMMA ReapKeepsBase ==
    ASSUME NEW s \in Handles, Manages(s), Base, NEW h \in Handles, Reap(h)
    PROVE  Base'
<1>0. /\ TypeOK /\ RegInv /\ StartInv /\ SpawnInv /\ MuxInv /\ FreedInv
      /\ Main \in Registered /\ Registered \subseteq AllNodes
      /\ Starters \subseteq {s}
      /\ MainTask \in Handles /\ Unknown \notin Handles \cup {Other}
  BY RegisteredFacts, HandlesAssumption DEF Base, Manages
<1>1. CASE Reap(h)
  <2>1. Registered' = Registered /\ RegInv'
    BY <1>1, <1>0 DEF Reap, Registered, RegInv, registryVars
  <2>2. TypeOK'
    BY <1>1, <1>0, <2>1, CoresAssumption DEF Reap, TypeOK, TaskIds, Blocks, AllNodes, registryVars,
          taskVars, callVars, muxVars
  <2>4. StartInv' /\ SpawnInv'
    BY <1>1, <1>0, <2>1 DEF Reap, TypeOK, StartInv, Starting, SpawnInv, registryVars,
          taskVars, callVars, muxVars
  <2>5. MuxInv' /\ FreedInv'
    BY <1>1, <1>0, <2>1 DEF Reap, TypeOK, FreedInv, Stopping, MuxInv, InMux, registryVars,
          taskVars, callVars, muxVars
  <2> QED BY <2>1, <2>2, <2>4, <2>5 DEF Base
<1> QED BY <1>1

-----------------------------------------------------------------------------
(* Steps: while every task has its own id                                   *)

\* Every step of multipython_task_template keeps the invariant.
LEMMA TemplateKeepsOwn ==
    ASSUME NEW s \in Handles, Manages(s), Base, Own, NEW h \in Handles, Template(h), ~drifted'
    PROVE  Own'
<1>0. /\ TypeOK /\ RegInv /\ StartInv /\ SpawnInv /\ MuxInv /\ FreedInv
      /\ IdInv /\ StopInv /\ CtxInv /\ HeapInv
      /\ Main \in Registered /\ Registered \subseteq AllNodes
      /\ Starters \subseteq {s} /\ \A g, t \in Handles : <<g, t>> \in MayStop => g \in {s, t}
      /\ MainTask \in Handles /\ Unknown \notin Handles
  BY RegisteredFacts, HandlesAssumption DEF Base, Own, Manages
<1>1. CASE TaskSetId(h)
  <2>0. id' = [id EXCEPT ![ctx[h]] = h]
    BY <1>1 DEF TaskSetId, CurrentId
  <2>1. Registered' = Registered /\ RegInv'
    BY <1>1, <1>0 DEF TaskSetId, Registered, RegInv, registryVars
  <2>3. IdInv'
    BY <1>1, <1>0, <2>1, <2>0 DEF TaskSetId, TypeOK, IdInv, WithHeap, Starting, Stopping,
          Leaving, SpawnInv, registryVars, taskVars, callVars, muxVars
  <2>5. StopInv'
    BY <1>1, <1>0, <2>1, <2>0 DEF TaskSetId, TypeOK, StopInv, Stopping, SpawnInv,
          registryVars, taskVars, callVars, muxVars
  <2>6. CtxInv'
    BY <1>1, <1>0, <2>1, <2>0 DEF TaskSetId, TypeOK, CtxInv, Leaving, SpawnInv, IdInv,
          registryVars, taskVars, callVars, muxVars
  <2>7. HeapInv'
    BY <1>1, <1>0, <2>1, <2>0 DEF TaskSetId, TypeOK, HeapInv, WithHeap, Starting, Stopping,
          CtxInv, registryVars, taskVars, callVars, muxVars
  <2> QED BY <2>3, <2>5, <2>6, <2>7 DEF Own
<1>2. CASE TaskThreadInit(h)
  <2>1. Registered' = Registered /\ RegInv'
    BY <1>2, <1>0 DEF TaskThreadInit, Registered, RegInv, registryVars
  <2>0. \/ UNCHANGED mem
        \/ /\ ctx[h] \in Registered /\ id[ctx[h]] = h
           /\ mem' = [mem EXCEPT ![ctx[h]] = @ \cup {"threadctrl"}]
    BY <1>2, <1>0, TaskAllocFacts DEF TaskThreadInit, CurrentId
  <2>3. IdInv'
    BY <1>2, <1>0, <2>1 DEF TaskThreadInit, TypeOK, IdInv, WithHeap, Starting, Stopping,
          Leaving, registryVars, taskVars, callVars, muxVars
  <2>5. StopInv'
    BY <1>2, <1>0, <2>1 DEF TaskThreadInit, TypeOK, StopInv, Stopping,
          registryVars, taskVars, callVars, muxVars
  <2>6. CtxInv'
    BY <1>2, <1>0, <2>1 DEF TaskThreadInit, TypeOK, CtxInv, Leaving, registryVars,
          taskVars, callVars, muxVars
  <2>7. HeapInv'
    BY <1>2, <1>0, <2>1, <2>0 DEF TaskThreadInit, TypeOK, HeapInv, WithHeap, Starting,
          Stopping, registryVars, taskVars, callVars, muxVars
  <2> QED BY <2>3, <2>5, <2>6, <2>7 DEF Own
<1>3. CASE TaskHeap(h)
  <2>1. Registered' = Registered /\ RegInv'
    BY <1>3, <1>0 DEF TaskHeap, Registered, RegInv, registryVars
  <2>0. ctx[h] \in Registered /\ id[ctx[h]] = h /\ mem' = [mem EXCEPT ![ctx[h]] = @ \cup {"heap"}]
    BY <1>3, <1>0, TaskAllocFacts DEF TaskHeap, CurrentId
  <2>3. IdInv'
    BY <1>3, <1>0, <2>1 DEF TaskHeap, TypeOK, IdInv, WithHeap, Starting, Stopping, Leaving,
          registryVars, taskVars, callVars, muxVars
  <2>5. StopInv'
    BY <1>3, <1>0, <2>1 DEF TaskHeap, TypeOK, StopInv, Stopping,
          registryVars, taskVars, callVars, muxVars
  <2>6. CtxInv'
    BY <1>3, <1>0, <2>1 DEF TaskHeap, TypeOK, CtxInv, Leaving, registryVars, taskVars,
          callVars, muxVars
  <2>7. HeapInv'
    BY <1>3, <1>0, <2>1, <2>0 DEF TaskHeap, TypeOK, HeapInv, WithHeap, Starting, Stopping,
          registryVars, taskVars, callVars, muxVars
  <2> QED BY <2>3, <2>5, <2>6, <2>7 DEF Own
<1>4. CASE TaskNoHeap(h)
  <2>1. Registered' = Registered /\ RegInv'
    BY <1>4, <1>0 DEF TaskNoHeap, Registered, RegInv, registryVars
  <2>3. IdInv'
    BY <1>4, <1>0, <2>1 DEF TaskNoHeap, TypeOK, IdInv, WithHeap, Starting, Stopping,
          Leaving, registryVars, taskVars, callVars, muxVars
  <2>5. StopInv'
    BY <1>4, <1>0, <2>1 DEF TaskNoHeap, TypeOK, StopInv, Stopping,
          registryVars, taskVars, callVars, muxVars
  <2>6. CtxInv'
    BY <1>4, <1>0, <2>1 DEF TaskNoHeap, TypeOK, CtxInv, Leaving, registryVars, taskVars,
          callVars, muxVars
  <2>7. HeapInv'
    BY <1>4, <1>0, <2>1 DEF TaskNoHeap, TypeOK, HeapInv, WithHeap, Starting, Stopping,
          registryVars, taskVars, callVars, muxVars
  <2> QED BY <2>3, <2>5, <2>6, <2>7 DEF Own
<1>5. CASE TaskFinish(h)
  <2>1. Registered' = Registered /\ RegInv'
    BY <1>5, <1>0 DEF TaskFinish, Registered, RegInv, registryVars
  <2>3. IdInv'
    BY <1>5, <1>0, <2>1 DEF TaskFinish, TypeOK, IdInv, WithHeap, Starting, Stopping,
          Leaving, registryVars, taskVars, callVars, muxVars
  <2>5. StopInv'
    BY <1>5, <1>0, <2>1 DEF TaskFinish, TypeOK, StopInv, Stopping,
          registryVars, taskVars, callVars, muxVars
  <2>6. CtxInv'
    BY <1>5, <1>0, <2>1 DEF TaskFinish, TypeOK, CtxInv, Leaving, registryVars, taskVars,
          callVars, muxVars
  <2>7. HeapInv'
    BY <1>5, <1>0, <2>1 DEF TaskFinish, TypeOK, HeapInv, WithHeap, Starting, Stopping,
          registryVars, taskVars, callVars, muxVars
  <2> QED BY <2>3, <2>5, <2>6, <2>7 DEF Own
<1>6. CASE TaskRemoveSelf(h)
  <2>0. h # MainTask
    BY <1>6, <1>0 DEF TaskRemoveSelf, IdInv, WithHeap, Starting, Stopping
  <2>1. /\ registry' \in Seq(AllNodes) /\ registry' # <<>> /\ RegInv'
        /\ id' = id /\ mem' \in [AllNodes -> SUBSET Blocks]
        /\ Registered' = {n \in Registered : id[n] # h}
        /\ \A n \in AllNodes : mem'[n] = IF n \in Registered /\ id[n] = h THEN {} ELSE mem[n]
    BY <1>6, <1>0, <2>0, TaskRemoveFacts DEF TaskRemoveSelf
  <2>3. IdInv'
    BY <1>6, <1>0, <2>1, <2>0 DEF TaskRemoveSelf, TypeOK, IdInv, WithHeap, Starting,
          Stopping, Leaving, registryVars, taskVars, callVars, muxVars
  <2>5. StopInv'
    BY <1>6, <1>0, <2>1 DEF TaskRemoveSelf, TypeOK, StopInv, Stopping,
          registryVars, taskVars, callVars, muxVars
  <2>6. CtxInv'
    BY <1>6, <1>0, <2>1 DEF TaskRemoveSelf, TypeOK, CtxInv, Leaving, registryVars,
          taskVars, callVars, muxVars
  <2>7. HeapInv'
    BY <1>6, <1>0, <2>1 DEF TaskRemoveSelf, TypeOK, HeapInv, WithHeap, Starting, Stopping,
          registryVars, taskVars, callVars, muxVars
  <2> QED BY <2>3, <2>5, <2>6, <2>7 DEF Own
<1>7. CASE TaskDeleteSelf(h)
  <2>1. Registered' = Registered /\ RegInv'
    BY <1>7, <1>0 DEF TaskDeleteSelf, Registered, RegInv, registryVars
  <2>3. IdInv'
    BY <1>7, <1>0, <2>1 DEF TaskDeleteSelf, TypeOK, IdInv, WithHeap, Starting, Stopping,
          Leaving, registryVars, taskVars, callVars, muxVars
  <2>5. StopInv'
    BY <1>7, <1>0, <2>1 DEF TaskDeleteSelf, TypeOK, StopInv, Stopping,
          registryVars, taskVars, callVars, muxVars
  <2>6. CtxInv'
    BY <1>7, <1>0, <2>1 DEF TaskDeleteSelf, TypeOK, CtxInv, Leaving, registryVars,
          taskVars, callVars, muxVars
  <2>7. HeapInv'
    BY <1>7, <1>0, <2>1 DEF TaskDeleteSelf, TypeOK, HeapInv, WithHeap, Starting, Stopping,
          registryVars, taskVars, callVars, muxVars
  <2> QED BY <2>3, <2>5, <2>6, <2>7 DEF Own
<1> QED BY <1>1, <1>2, <1>3, <1>4, <1>5, <1>6, <1>7 DEF Template

\* Every step of a stop keeps it: the mux is held by one task at a time, and only the
\* manager holds a task other than its own between mp_task_remove and vTaskDelete.
LEMMA StopKeepsOwn ==
    ASSUME NEW s \in Handles, Manages(s), Base, Own, NEW h \in Handles, Stop(h)
    PROVE  Own'
<1>0. /\ TypeOK /\ RegInv /\ StartInv /\ SpawnInv /\ MuxInv /\ FreedInv
      /\ IdInv /\ StopInv /\ CtxInv /\ HeapInv
      /\ Main \in Registered /\ Registered \subseteq AllNodes
      /\ Starters \subseteq {s} /\ \A g, t \in Handles : <<g, t>> \in MayStop => g \in {s, t}
      /\ MainTask \in Handles /\ Unknown \notin Handles
  BY RegisteredFacts, HandlesAssumption DEF Base, Own, Manages
<1>1. CASE (\E t \in Handles : StopCheck(h, t))
  <2>0. PICK t \in Handles : StopCheck(h, t)
    BY <1>1
  <2>1. Registered' = Registered /\ RegInv' /\ t # MainTask /\ pc[t] # "spawn"
    BY <2>0, <1>0, FirstFacts DEF StopCheck, Registered, RegInv, registryVars, IdInv, HasTid
  <2>3. IdInv'
    BY <2>0, <1>0, <2>1 DEF StopCheck, TypeOK, IdInv, WithHeap, Starting, Stopping,
          Leaving, registryVars, taskVars, callVars, muxVars
  <2>5. StopInv'
    BY <2>0, <1>0, <2>1 DEF StopCheck, TypeOK, StopInv, Stopping,
          registryVars, taskVars, callVars, muxVars
  <2>6. CtxInv'
    BY <2>0, <1>0, <2>1 DEF StopCheck, TypeOK, CtxInv, Leaving, registryVars, taskVars,
          callVars, muxVars
  <2>7. HeapInv'
    BY <2>0, <1>0, <2>1 DEF StopCheck, TypeOK, HeapInv, WithHeap, Starting, Stopping,
          registryVars, taskVars, callVars, muxVars
  <2> QED BY <2>3, <2>5, <2>6, <2>7 DEF Own
<1>2. CASE StopRemove(h)
  <2>0. target[h] \in Handles /\ target[h] # MainTask
    BY <1>2, <1>0 DEF StopRemove, StopInv, Stopping, TypeOK
  <2>1. /\ registry' \in Seq(AllNodes) /\ registry' # <<>> /\ RegInv'
        /\ id' = id /\ mem' \in [AllNodes -> SUBSET Blocks]
        /\ Registered' = {n \in Registered : id[n] # target[h]}
        /\ \A n \in AllNodes :
              mem'[n] = IF n \in Registered /\ id[n] = target[h] THEN {} ELSE mem[n]
    BY <1>2, <1>0, <2>0, TaskRemoveFacts DEF StopRemove
  <2>3. IdInv'
    BY <1>2, <1>0, <2>1, <2>0 DEF StopRemove, TypeOK, IdInv, WithHeap, Starting, Stopping,
          Leaving, MuxInv, InMux, Executes, CanEnter, registryVars, taskVars, callVars,
          muxVars
  <2>5. StopInv'
    BY <1>2, <1>0, <2>1 DEF StopRemove, TypeOK, StopInv, Stopping, Executes,
          CanEnter, registryVars, taskVars, callVars, muxVars
  <2>6. CtxInv'
    BY <1>2, <1>0, <2>1, <2>0 DEF StopRemove, TypeOK, CtxInv, Leaving, registryVars,
          taskVars, callVars, muxVars
  <2>7. HeapInv'
    BY <1>2, <1>0, <2>1 DEF StopRemove, TypeOK, HeapInv, WithHeap, Starting, Stopping,
          registryVars, taskVars, callVars, muxVars
  <2> QED BY <2>3, <2>5, <2>6, <2>7 DEF Own
<1>3. CASE StopDelete(h)
  <2>1. Registered' = Registered /\ RegInv'
    BY <1>3, <1>0 DEF StopDelete, Registered, RegInv, registryVars
  <2>3. IdInv'
    <3>1. target[h] # MainTask /\ \A n \in Registered : id[n] # target[h]
      BY <1>3, <1>0 DEF StopDelete, StopInv, Stopping
    <3>2. \A g \in Handles \ {target[h]} : pc'[g] = IF g = h THEN "stop_exit" ELSE pc[g]
      BY <1>3, <1>0 DEF StopDelete, TypeOK
    <3>3. \A g \in Handles \ {target[h]} : Leaving(g)' => Leaving(g)
      BY <1>3, <3>2 DEF StopDelete, Leaving, callVars
    <3>4. id' = id /\ ctx' = ctx
      BY <1>3 DEF StopDelete, registryVars, taskVars
    <3>5. pc'[MainTask] \in WithHeap
      BY <1>0, <3>1, <3>2 DEF IdInv, WithHeap, Stopping
    <3>6. ASSUME NEW n \in Registered, NEW u \in Handles, id[n] = u
          PROVE  ctx[u] = n /\ pc'[u] # "spawn" /\ ~Leaving(u)'
      <4>1. u # target[h] /\ ctx[u] = n /\ pc[u] # "spawn" /\ ~Leaving(u)
        BY <1>0, <3>1, <3>6 DEF IdInv
      <4> QED BY <3>2, <3>3, <4>1
    <3> QED BY <1>0, <2>1, <3>4, <3>5, <3>6 DEF IdInv, Leaving
  <2>5. StopInv'
    BY <1>3, <1>0, <2>1 DEF StopDelete, TypeOK, StopInv, Stopping,
          registryVars, taskVars, callVars, muxVars
  <2>6. CtxInv'
    BY <1>3, <1>0, <2>1 DEF StopDelete, TypeOK, CtxInv, Leaving, StopInv, MuxInv, InMux,
          Stopping, registryVars, taskVars, callVars, muxVars
  <2>7. HeapInv'
    BY <1>3, <1>0, <2>1 DEF StopDelete, TypeOK, HeapInv, WithHeap, Starting, Stopping,
          IdInv, registryVars, taskVars, callVars, muxVars
  <2> QED BY <2>3, <2>5, <2>6, <2>7 DEF Own
<1>4. CASE StopDeleteSelf(h)
  <2>1. Registered' = Registered /\ RegInv'
    BY <1>4, <1>0 DEF StopDeleteSelf, Registered, RegInv, registryVars
  <2>3. IdInv'
    BY <1>4, <1>0, <2>1 DEF StopDeleteSelf, TypeOK, IdInv, WithHeap, Starting, Stopping,
          Leaving, StopInv, registryVars, taskVars, callVars, muxVars
  <2>5. StopInv'
    BY <1>4, <1>0, <2>1 DEF StopDeleteSelf, TypeOK, StopInv, Stopping,
          registryVars, taskVars, callVars, muxVars
  <2>6. CtxInv'
    BY <1>4, <1>0, <2>1 DEF StopDeleteSelf, TypeOK, CtxInv, Leaving, StopInv, Stopping,
          registryVars, taskVars, callVars, muxVars
  <2>7. HeapInv'
    BY <1>4, <1>0, <2>1 DEF StopDeleteSelf, TypeOK, HeapInv, WithHeap, Starting, Stopping,
          registryVars, taskVars, callVars, muxVars
  <2> QED BY <2>3, <2>5, <2>6, <2>7 DEF Own
<1>5. CASE StopExit(h)
  <2>1. Registered' = Registered /\ RegInv'
    BY <1>5, <1>0 DEF StopExit, Registered, RegInv, registryVars
  <2>3. IdInv'
    BY <1>5, <1>0, <2>1 DEF StopExit, TypeOK, IdInv, WithHeap, Starting, Stopping, Leaving,
          registryVars, taskVars, callVars, muxVars
  <2>5. StopInv'
    BY <1>5, <1>0, <2>1 DEF StopExit, TypeOK, StopInv, Stopping,
          registryVars, taskVars, callVars, muxVars
  <2>6. CtxInv'
    BY <1>5, <1>0, <2>1 DEF StopExit, TypeOK, CtxInv, Leaving, registryVars, taskVars,
          callVars, muxVars
  <2>7. HeapInv'
    BY <1>5, <1>0, <2>1 DEF StopExit, TypeOK, HeapInv, WithHeap, Starting, Stopping,
          registryVars, taskVars, callVars, muxVars
  <2> QED BY <2>3, <2>5, <2>6, <2>7 DEF Own
<1>6. CASE StopReturn(h)
  <2>1. Registered' = Registered /\ RegInv'
    BY <1>6, <1>0 DEF StopReturn, Registered, RegInv, registryVars
  <2>3. IdInv'
    BY <1>6, <1>0, <2>1 DEF StopReturn, TypeOK, IdInv, WithHeap, Starting, Stopping,
          Leaving, registryVars, taskVars, callVars, muxVars
  <2>5. StopInv'
    BY <1>6, <1>0, <2>1 DEF StopReturn, TypeOK, StopInv, Stopping,
          registryVars, taskVars, callVars, muxVars
  <2>6. CtxInv'
    BY <1>6, <1>0, <2>1 DEF StopReturn, TypeOK, CtxInv, Leaving, registryVars, taskVars,
          callVars, muxVars
  <2>7. HeapInv'
    BY <1>6, <1>0, <2>1 DEF StopReturn, TypeOK, HeapInv, WithHeap, Starting, Stopping,
          registryVars, taskVars, callVars, muxVars
  <2> QED BY <2>3, <2>5, <2>6, <2>7 DEF Own
<1> QED BY <1>1, <1>2, <1>3, <1>4, <1>5, <1>6 DEF Stop

\* Every step of multipython_start keeps it: while the manager starts a context it
\* stops none, so that no node is reused under a task that is about to be deleted.
LEMMA StartKeepsOwn ==
    ASSUME NEW s \in Handles, Manages(s), Base, Own, NEW h \in Handles, Start(h)
    PROVE  Own'
<1>0. /\ TypeOK /\ RegInv /\ StartInv /\ SpawnInv /\ MuxInv /\ FreedInv
      /\ IdInv /\ StopInv /\ CtxInv /\ HeapInv
      /\ Main \in Registered /\ Registered \subseteq AllNodes
      /\ Starters \subseteq {s} /\ \A g, t \in Handles : <<g, t>> \in MayStop => g \in {s, t}
      /\ MainTask \in Handles /\ Unknown \notin Handles
  BY RegisteredFacts, HandlesAssumption DEF Base, Own, Manages
<1>1. CASE StartCheck(h)
  <2>1. Registered' = Registered /\ RegInv'
    BY <1>1, <1>0 DEF StartCheck, Registered, RegInv, registryVars
  <2>3. IdInv'
    BY <1>1, <1>0, <2>1 DEF StartCheck, TypeOK, IdInv, WithHeap, Starting, Stopping,
          Leaving, registryVars, taskVars, callVars, muxVars
  <2>5. StopInv'
    BY <1>1, <1>0, <2>1 DEF StartCheck, TypeOK, StopInv, Stopping,
          registryVars, taskVars, callVars, muxVars
  <2>6. CtxInv'
    BY <1>1, <1>0, <2>1 DEF StartCheck, TypeOK, CtxInv, Leaving, registryVars, taskVars,
          callVars, muxVars
  <2>7. HeapInv'
    BY <1>1, <1>0, <2>1 DEF StartCheck, TypeOK, HeapInv, WithHeap, Starting, Stopping,
          registryVars, taskVars, callVars, muxVars
  <2> QED BY <2>3, <2>5, <2>6, <2>7 DEF Own
<1>2. CASE StartAppend(h)
  <2>0. PICK n \in Nodes \ Registered :
            /\ registry' = Append(registry, n)
            /\ id' = [id EXCEPT ![n] = Unknown] /\ node' = [node EXCEPT ![h] = n]
    BY <1>2 DEF StartAppend
  <2>1. /\ registry' \in Seq(AllNodes) /\ registry' # <<>> /\ RegInv'
        /\ Registered' = Registered \cup {n} /\ n \in AllNodes /\ n # Main
    BY <1>0, <2>0, AppendFacts, NodesAssumption DEF AllNodes
  <2>3. IdInv'
    BY <1>2, <1>0, <2>1, <2>0 DEF StartAppend, TypeOK, IdInv, WithHeap, Starting, Stopping,
          Leaving, StartInv, registryVars, taskVars, callVars, muxVars
  <2>5. StopInv'
    BY <1>2, <1>0, <2>1, <2>0 DEF StartAppend, TypeOK, StopInv, Stopping,
          registryVars, taskVars, callVars, muxVars
  <2>6. CtxInv'
    <3>1. \A g \in Handles : pc[g] = "stop_delete" => target[g] = g
      <4>1. h = s /\ pc[h] # "stop_delete"
        BY <1>2, <1>0 DEF StartAppend, StartInv
      <4>2. \A g \in Handles :
                pc[g] = "stop_delete" => <<g, target[g]>> \in MayStop /\ target[g] \in Handles
        BY <1>0 DEF StopInv, Stopping, TypeOK
      <4> QED BY <1>0, <4>1, <4>2
    <3>2. \A t \in Handles : Leaving(t)' <=> Leaving(t)
      BY <1>2, <1>0 DEF StartAppend, Leaving, TypeOK
    <3>3. \A t \in Handles :
              ~Leaving(t) /\ pc[t] # "spawn" => ctx[t] \in Registered /\ id[ctx[t]] = t
      BY <1>0, <3>1 DEF CtxInv
    <3>4. \A x \in Registered : id'[x] = id[x]
      BY <1>0, <2>0, <2>1 DEF TypeOK
    <3>5. \A t \in Handles : pc'[t] # "spawn" => pc[t] # "spawn"
      BY <1>2, <1>0 DEF StartAppend, TypeOK
    <3> QED BY <1>2, <2>1, <3>2, <3>3, <3>4, <3>5 DEF StartAppend, CtxInv, taskVars
  <2>7. HeapInv'
    BY <1>2, <1>0, <2>1, <2>0 DEF StartAppend, TypeOK, HeapInv, WithHeap, Starting,
          Stopping, registryVars, taskVars, callVars, muxVars
  <2> QED BY <2>3, <2>5, <2>6, <2>7 DEF Own
<1>3. CASE StartNoNode(h)
  <2>1. Registered' = Registered /\ RegInv'
    BY <1>3, <1>0 DEF StartNoNode, Registered, RegInv, registryVars
  <2>3. IdInv'
    BY <1>3, <1>0, <2>1 DEF StartNoNode, TypeOK, IdInv, WithHeap, Starting, Stopping,
          Leaving, registryVars, taskVars, callVars, muxVars
  <2>5. StopInv'
    BY <1>3, <1>0, <2>1 DEF StartNoNode, TypeOK, StopInv, Stopping,
          registryVars, taskVars, callVars, muxVars
  <2>6. CtxInv'
    BY <1>3, <1>0, <2>1 DEF StartNoNode, TypeOK, CtxInv, Leaving, registryVars, taskVars,
          callVars, muxVars
  <2>7. HeapInv'
    BY <1>3, <1>0, <2>1 DEF StartNoNode, TypeOK, HeapInv, WithHeap, Starting, Stopping,
          registryVars, taskVars, callVars, muxVars
  <2> QED BY <2>3, <2>5, <2>6, <2>7 DEF Own
<1>4. CASE StartSource(h)
  <2>1. Registered' = Registered /\ RegInv'
    BY <1>4, <1>0 DEF StartSource, Registered, RegInv, registryVars
  <2>3. IdInv'
    BY <1>4, <1>0, <2>1 DEF StartSource, TypeOK, IdInv, WithHeap, Starting, Stopping,
          Leaving, registryVars, taskVars, callVars, muxVars
  <2>5. StopInv'
    BY <1>4, <1>0, <2>1 DEF StartSource, TypeOK, StopInv, Stopping,
          registryVars, taskVars, callVars, muxVars
  <2>6. CtxInv'
    BY <1>4, <1>0, <2>1 DEF StartSource, TypeOK, CtxInv, Leaving, registryVars, taskVars,
          callVars, muxVars
  <2>7. HeapInv'
    BY <1>4, <1>0, <2>1 DEF StartSource, TypeOK, HeapInv, WithHeap, Starting, Stopping,
          StartInv, registryVars, taskVars, callVars, muxVars
  <2> QED BY <2>3, <2>5, <2>6, <2>7 DEF Own
<1>5. CASE StartNoSource(h)
  <2>0. node[h] \in Registered /\ node[h] # Main /\ id[node[h]] = Unknown
    BY <1>5, <1>0 DEF StartNoSource, StartInv, Starting
  <2>1. /\ registry' \in Seq(AllNodes) /\ registry' # <<>> /\ RegInv'
        /\ Registered' = Registered \ {node[h]}
        /\ id' = id /\ mem' = [mem EXCEPT ![node[h]] = {}]
    BY <1>5, <1>0, <2>0, UnlinkedFacts DEF StartNoSource, ContextRemove
  <2>3. IdInv'
    BY <1>5, <1>0, <2>1, <2>0 DEF StartNoSource, TypeOK, IdInv, WithHeap, Starting,
          Stopping, Leaving, registryVars, taskVars, callVars, muxVars
  <2>5. StopInv'
    BY <1>5, <1>0, <2>1, <2>0 DEF StartNoSource, TypeOK, StopInv, Stopping,
          registryVars, taskVars, callVars, muxVars
  <2>6. CtxInv'
    BY <1>5, <1>0, <2>1, <2>0 DEF StartNoSource, TypeOK, CtxInv, Leaving, registryVars,
          taskVars, callVars, muxVars
  <2>7. HeapInv'
    BY <1>5, <1>0, <2>1, <2>0 DEF StartNoSource, TypeOK, HeapInv, WithHeap, Starting,
          Stopping, registryVars, taskVars, callVars, muxVars
  <2> QED BY <2>3, <2>5, <2>6, <2>7 DEF Own
<1>6. CASE StartCreate(h)
  <2>1. Registered' = Registered /\ RegInv'
    BY <1>6, <1>0 DEF StartCreate, Registered, RegInv, registryVars
  <2>0. PICK t \in Handles, k \in Cores, unpinned \in BOOLEAN :
            /\ pc[t] = "none"
            /\ unpinned => t \in Roamers
            /\ pc' = [pc EXCEPT ![t] = "spawn", ![h] = "run"]
            /\ ctx' = [ctx EXCEPT ![t] = node[h]]
            /\ core' = [core EXCEPT ![t] = k]
            /\ roaming' = IF unpinned THEN roaming \cup {t} ELSE roaming
    BY <1>6 DEF StartCreate
  <2>3. IdInv'
    BY <1>6, <1>0, <2>1, <2>0 DEF StartCreate, TypeOK, IdInv, WithHeap, Starting, Stopping,
          Leaving, registryVars, taskVars, callVars, muxVars
  <2>5. StopInv'
    BY <1>6, <1>0, <2>1, <2>0 DEF StartCreate, TypeOK, StopInv, Stopping, StartInv,
          Starting, registryVars, taskVars, callVars, muxVars
  <2>6. CtxInv'
    BY <1>6, <1>0, <2>1, <2>0 DEF StartCreate, TypeOK, CtxInv, Leaving, registryVars,
          taskVars, callVars, muxVars
  <2>7. HeapInv'
    BY <1>6, <1>0, <2>1, <2>0 DEF StartCreate, TypeOK, HeapInv, WithHeap, Starting,
          Stopping, registryVars, taskVars, callVars, muxVars
  <2> QED BY <2>3, <2>5, <2>6, <2>7 DEF Own
<1>7. CASE StartNoTask(h)
  <2>1. Registered' = Registered /\ RegInv'
    BY <1>7, <1>0 DEF StartNoTask, Registered, RegInv, registryVars
  <2>3. IdInv'
    BY <1>7, <1>0, <2>1 DEF StartNoTask, TypeOK, IdInv, WithHeap, Starting, Stopping,
          Leaving, registryVars, taskVars, callVars, muxVars
  <2>5. StopInv'
    BY <1>7, <1>0, <2>1 DEF StartNoTask, TypeOK, StopInv, Stopping,
          registryVars, taskVars, callVars, muxVars
  <2>6. CtxInv'
    BY <1>7, <1>0, <2>1 DEF StartNoTask, TypeOK, CtxInv, Leaving, registryVars, taskVars,
          callVars, muxVars
  <2>7. HeapInv'
    BY <1>7, <1>0, <2>1 DEF StartNoTask, TypeOK, HeapInv, WithHeap, Starting, Stopping,
          registryVars, taskVars, callVars, muxVars
  <2> QED BY <2>3, <2>5, <2>6, <2>7 DEF Own
<1>8. CASE StartRaises(h)
  <2>1. Registered' = Registered /\ RegInv'
    BY <1>8, <1>0 DEF StartRaises, Registered, RegInv, registryVars
  <2>3. IdInv'
    BY <1>8, <1>0, <2>1 DEF StartRaises, TypeOK, IdInv, WithHeap, Starting, Stopping,
          Leaving, registryVars, taskVars, callVars, muxVars
  <2>5. StopInv'
    BY <1>8, <1>0, <2>1 DEF StartRaises, TypeOK, StopInv, Stopping,
          registryVars, taskVars, callVars, muxVars
  <2>6. CtxInv'
    BY <1>8, <1>0, <2>1 DEF StartRaises, TypeOK, CtxInv, Leaving, registryVars, taskVars,
          callVars, muxVars
  <2>7. HeapInv'
    BY <1>8, <1>0, <2>1 DEF StartRaises, TypeOK, HeapInv, WithHeap, Starting, Stopping,
          registryVars, taskVars, callVars, muxVars
  <2> QED BY <2>3, <2>5, <2>6, <2>7 DEF Own
<1> QED BY <1>1, <1>2, <1>3, <1>4, <1>5, <1>6, <1>7, <1>8 DEF Start

\* A task that moves to another core is not inside the critical section.
LEMMA MigrateKeepsOwn ==
    ASSUME NEW s \in Handles, Manages(s), Base, Own, NEW h \in Handles, Migrate(h)
    PROVE  Own'
<1>0. /\ TypeOK /\ RegInv /\ StartInv /\ SpawnInv /\ MuxInv /\ FreedInv
      /\ IdInv /\ StopInv /\ CtxInv /\ HeapInv
      /\ Main \in Registered /\ Registered \subseteq AllNodes
      /\ Starters \subseteq {s} /\ \A g, t \in Handles : <<g, t>> \in MayStop => g \in {s, t}
      /\ MainTask \in Handles /\ Unknown \notin Handles
  BY RegisteredFacts, HandlesAssumption DEF Base, Own, Manages
<1>1. CASE Migrate(h)
  <2>1. Registered' = Registered /\ RegInv'
    BY <1>1, <1>0 DEF Migrate, Registered, RegInv, registryVars
  <2>3. IdInv'
    BY <1>1, <1>0, <2>1 DEF Migrate, TypeOK, IdInv, WithHeap, Starting, Stopping, Leaving,
          registryVars, taskVars, callVars, muxVars
  <2>5. StopInv'
    BY <1>1, <1>0, <2>1 DEF Migrate, TypeOK, StopInv, Stopping, registryVars,
          taskVars, callVars, muxVars
  <2>6. CtxInv'
    BY <1>1, <1>0, <2>1 DEF Migrate, TypeOK, CtxInv, Leaving, registryVars, taskVars,
          callVars, muxVars
  <2>7. HeapInv'
    BY <1>1, <1>0, <2>1 DEF Migrate, TypeOK, HeapInv, WithHeap, Starting, Stopping,
          registryVars, taskVars, callVars, muxVars
  <2> QED BY <2>3, <2>5, <2>6, <2>7 DEF Own
<1> QED BY <1>1

\* The idle task frees handles nobody refers to.
LEMMA ReapKeepsOwn ==
    ASSUME NEW s \in Handles, Manages(s), Base, Own, NEW h \in Handles, Reap(h)
    PROVE  Own'
<1>0. /\ TypeOK /\ RegInv /\ StartInv /\ SpawnInv /\ MuxInv /\ FreedInv
      /\ IdInv /\ StopInv /\ CtxInv /\ HeapInv
      /\ Main \in Registered /\ Registered \subseteq AllNodes
      /\ Starters \subseteq {s} /\ \A g, t \in Handles : <<g, t>> \in MayStop => g \in {s, t}
      /\ MainTask \in Handles /\ Unknown \notin Handles
  BY RegisteredFacts, HandlesAssumption DEF Base, Own, Manages
<1>1. CASE Reap(h)
  <2>1. Registered' = Registered /\ RegInv'
    BY <1>1, <1>0 DEF Reap, Registered, RegInv, registryVars
  <2>3. IdInv'
    BY <1>1, <1>0, <2>1 DEF Reap, TypeOK, IdInv, WithHeap, Starting, Stopping, Leaving,
          registryVars, taskVars, callVars, muxVars
  <2>5. StopInv'
    BY <1>1, <1>0, <2>1 DEF Reap, TypeOK, StopInv, Stopping, registryVars,
          taskVars, callVars, muxVars
  <2>6. CtxInv'
    BY <1>1, <1>0, <2>1 DEF Reap, TypeOK, CtxInv, Leaving, registryVars, taskVars,
          callVars, muxVars
  <2>7. HeapInv'
    BY <1>1, <1>0, <2>1 DEF Reap, TypeOK, HeapInv, WithHeap, Starting, Stopping,
          registryVars, taskVars, callVars, muxVars
  <2> QED BY <2>3, <2>5, <2>6, <2>7 DEF Own
<1> QED BY <1>1

\* Everything holds when mp_task starts.
LEMMA InvInit == ASSUME Init PROVE Base /\ Own
<1>1. registry = <<Main>> /\ Len(registry) = 1 /\ Registered = {Main}
  BY DEF Init, Registered
<1>2. TypeOK
  <2>1. registry \in Seq(AllNodes) /\ registry # <<>>
    BY <1>1 DEF AllNodes
  <2>2. roaming \subseteq Roamers /\ drifted \in BOOLEAN
    BY DEF Init
  <2>3. id \in [AllNodes -> TaskIds] /\ mem \in [AllNodes -> SUBSET Blocks]
    BY HandlesAssumption DEF Init, TaskIds, Blocks
  <2> QED BY <2>1, <2>2, <2>3, HandlesAssumption, CoresAssumption, NestingAssumption
             DEF Init, TypeOK, AllNodes
<1>3. RegInv /\ IdInv
  BY <1>1, HandlesAssumption DEF Init, RegInv, IdInv, Leaving, WithHeap, AllNodes
<1>4. StartInv /\ SpawnInv /\ StopInv /\ CtxInv
  BY <1>1, HandlesAssumption
     DEF Init, StartInv, SpawnInv, StopInv, CtxInv, Leaving, Starting, Stopping, AllNodes
<1>5. FreedInv /\ HeapInv /\ MuxInv
  BY <1>1, HandlesAssumption DEF Init, FreedInv, HeapInv, MuxInv, InMux, AllNodes
<1> QED BY <1>2, <1>3, <1>4, <1>5 DEF Base, Own

\* Under one manager the base is kept by every step ...
LEMMA BaseStep ==
    ASSUME OneManager, Base, [Next]_vars
    PROVE  Base'
<1>1. PICK s \in Handles : Manages(s)
  BY DEF OneManager
<1>2. CASE Next
  <2>1. PICK h \in Handles : Start(h) \/ Template(h) \/ Stop(h) \/ Migrate(h) \/ Reap(h)
    BY <1>2 DEF Next
  <2> QED BY <1>1, <2>1, StartKeepsBase, TemplateKeepsBase, StopKeepsBase, MigrateKeepsBase,
             ReapKeepsBase
<1>3. CASE UNCHANGED vars
  <2>1. Registered' = Registered
    BY <1>3 DEF Registered, vars, registryVars
  <2>2. TypeOK' /\ RegInv' /\ MuxInv'
    BY <1>3 DEF Base, TypeOK, RegInv, MuxInv, vars, registryVars, taskVars, callVars, muxVars
  <2>3. StartInv' /\ SpawnInv' /\ FreedInv'
    BY <1>3, <2>1 DEF Base, StartInv, SpawnInv, FreedInv, vars, registryVars, taskVars, callVars
  <2> QED BY <2>2, <2>3 DEF Base
<1> QED BY <1>2, <1>3

\* ... and the rest until a task takes another one's id.
LEMMA OwnStep ==
    ASSUME OneManager, Base, drifted \/ Own, [Next]_vars
    PROVE  (drifted \/ Own)'
<1>1. PICK s \in Handles : Manages(s)
  BY DEF OneManager
<1>2. CASE Next
  <2>1. PICK h \in Handles : Start(h) \/ Template(h) \/ Stop(h) \/ Migrate(h) \/ Reap(h)
    BY <1>2 DEF Next
  <2>2. drifted => drifted'
    BY <2>1 DEF Start, StartCheck, StartAppend, StartNoNode, StartSource, StartRaises,
       StartNoSource, StartCreate, StartNoTask, Template, TaskSetId, TaskThreadInit, TaskHeap,
       CurrentId, TaskNoHeap, TaskFinish, TaskRemoveSelf, TaskDeleteSelf, Stop, StopCheck,
       StopRemove, StopDelete, StopDeleteSelf, StopExit, StopReturn, Migrate, Reap
  <2>3. CASE ~drifted'
    BY <1>1, <2>1, <2>2, <2>3, StartKeepsOwn, TemplateKeepsOwn, StopKeepsOwn, MigrateKeepsOwn,
       ReapKeepsOwn
  <2> QED BY <2>3
<1>3. CASE UNCHANGED vars
  <2>1. Registered' = Registered /\ drifted' = drifted
    BY <1>3 DEF Registered, vars, registryVars
  <2>2. Own => Own'
    BY <1>3, <2>1 DEF Own, IdInv, StopInv, CtxInv, HeapInv, Leaving, vars, registryVars,
       taskVars, callVars
  <2> QED BY <2>1, <2>2
<1> QED BY <1>2, <1>3

\* Hence the base always holds, and the rest until then.
LEMMA InvAlways == ASSUME OneManager PROVE Spec => [](Base /\ (drifted \/ Own))
<1>1. Init => Base /\ (drifted \/ Own)
  BY InvInit
<1>2. Base /\ (drifted \/ Own) /\ [Next]_vars => Base' /\ (drifted \/ Own)'
  BY BaseStep, OwnStep
<1> QED BY <1>1, <1>2, PTL DEF Spec

-----------------------------------------------------------------------------
(* What follows                                                             *)

\* Registry, tasks, calls and the mux of py/mpstate.c and modmultipython.c keep
\* their types, whatever is started, stopped, moved and reused.
THEOREM LifecycleTypesKept == ASSUME OneManager PROVE Spec => []TypeOK
<1>1. Base => TypeOK
  BY DEF Base
<1> QED BY <1>1, InvAlways, PTL

\* mp_task_register never ends up with two contexts of one task ID, unless a task
\* has moved between reading the core index and reading mp_current_tIDs.
THEOREM IdsStayUnique == ASSUME OneManager PROVE Spec => []UniqueTaskIds
<1>1. Base /\ (drifted \/ Own) => UniqueTaskIds
  <2> SUFFICES ASSUME Base, Own PROVE UniqueTaskIds
    BY DEF UniqueTaskIds
  <2>1. \A i \in 1..Len(registry) : registry[i] \in Registered
    BY DEF Registered
  <2> QED BY <2>1 DEF Base, Own, RegInv, IdInv, UniqueTaskIds
<1> QED BY <1>1, InvAlways, PTL

\* A context that mp_context_remove has taken out owns nothing any more, and the
\* default context is never taken out, also if contexts have wrong ids.
THEOREM NothingEverLeaks == ASSUME OneManager PROVE Spec => []NothingLeaks
<1>1. Base => NothingLeaks
  BY DEF Base, RegInv, FreedInv, NothingLeaks
<1> QED BY <1>1, InvAlways, PTL

\* multipython_task_template finds the context that multipython_start made for
\* it, without an ID and, until a task has taken another one's, without another
\* user.
THEOREM SpawnsHaveContexts == ASSUME OneManager PROVE Spec => []SpawnHasContext
<1>1. Base /\ (drifted \/ Own) => SpawnHasContext
  <2> SUFFICES ASSUME Base, drifted \/ Own, NEW t \in Handles, pc[t] = "spawn"
               PROVE  /\ ctx[t] \in Registered /\ id[ctx[t]] = Unknown
                      /\ drifted \/ \A u \in Handles \ {t} : Leaving(u) \/ ctx[u] # ctx[t]
    BY DEF SpawnHasContext
  <2>1. ctx[t] \in Registered /\ id[ctx[t]] = Unknown /\ \A u \in Handles : pc[u] = "spawn" => u = t
    BY DEF Base, SpawnInv
  <2>2. CASE Own
    <3>1. \A u \in Handles \ {t} : Leaving(u) \/ id[ctx[u]] = u \/ ctx[u] \notin Registered
      BY <2>1, <2>2 DEF Own, CtxInv
    <3> QED BY <2>1, <3>1, HandlesAssumption
  <2> QED BY <2>1, <2>2
<1> QED BY <1>1, InvAlways, PTL

\* multipython_end_task never frees the heap of a task that may run, if the task
\* works on the stopper's core and no task has taken another one's id.
THEOREM RunnablesOwnHeaps == ASSUME OneManager PROVE Spec => []RunnableOwnsHeap
<1>1. Base /\ (drifted \/ Own) => RunnableOwnsHeap
  <2> SUFFICES ASSUME Base, Own, NEW t \in Handles, StoppedFromOwnCore(t), Executes(t),
                      pc[t] \in {"run", "start_append", "start_source", "start_create",
                                 "stop_enter", "stop_return"}
               PROVE  \E n \in Registered : id[n] = t /\ "heap" \in mem[n]
    BY DEF RunnableOwnsHeap
  <2>1. pc[t] \in WithHeap /\ ~Leaving(t) /\ pc[t] # "spawn"
    BY DEF WithHeap, Starting, Stopping, Leaving
  <2>2. \A h \in Handles : pc[h] = "stop_delete" => <<h, target[h]>> \in MayStop
    BY DEF Own, StopInv, Stopping
  <2>3. ~\E h \in Handles : h # t /\ pc[h] = "stop_delete" /\ target[h] = t
    BY <2>2 DEF StoppedFromOwnCore, Executes, InMux
  <2>4. ctx[t] \in Registered /\ id[ctx[t]] = t
    BY <2>1, <2>3 DEF Own, CtxInv
  <2> QED BY <2>1, <2>4 DEF Own, HeapInv
<1> QED BY <1>1, InvAlways, PTL

=============================================================================
