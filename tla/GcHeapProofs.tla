---------------------------- MODULE GcHeapProofs ----------------------------
(***************************************************************************)
(* Proofs about the collector, for pools, mark stacks and object graphs of *)
(* every size.                                                             *)
(***************************************************************************)
EXTENDS GcHeap, FiniteSetTheorems, SequenceTheorems, WellFoundedInduction, TLAPS

-----------------------------------------------------------------------------
(* The inductive invariant                                                  *)

\* A chain has a head, except for the rest of the one that gc_sweep is freeing;
\* free_tail says that it is.
ChainInv ==
    /\ \A x \in Blocks : kind[x] = "TAIL" =>
           x > 0 /\ (kind[x - 1] # "FREE" \/ (freeTail /\ x = at))
    /\ freeTail => phase \in {"sweep", "finaliser"} /\ at > 0 /\ kind[at - 1] = "FREE"
    /\ \A x \in Blocks : kind[x] = "FREE" => ptr[x] = Null

\* What the program can reach is allocated, and so is what has a finaliser.
AllocInv == Live \subseteq Heads /\ ftb \subseteq Heads

\* Outside of a collection nothing is marked, and the blocks below the hint of
\* gc_alloc are in use.
RunInv ==
    phase = "run" =>
        /\ Marked = {}
        /\ \A x \in Blocks : x < lastFree * BlocksPerAtb => kind[x] # "FREE"

\* gc_mark_subtree still has to look at word w of the marked chain m.
ToScan(m, w) ==
    \/ overflow
    \/ \E i \in DOMAIN stack : stack[i] = m
    \/ word \in Chain(m) /\ word <= w
    \/ phase = "rescan" /\ at <= m

\* While marking: the roots that were looked at are marked, and so is every head
\* a marked chain points to, unless that word is still to be looked at.
MarkInv ==
    phase \in {"roots", "rescan"} =>
        /\ todo \subseteq roots
        /\ phase = "rescan" => todo = {}
        /\ roots \ todo \subseteq Marked
        /\ \A m \in Marked : \A w \in Chain(m) :
               ptr[w] # Null /\ kind[ptr[w]] = "HEAD" => ToScan(m, w)

\* Nothing is marked but what can be reached, and nothing else is traced, unless a
\* chain seems to go on behind the end of the pool.
ExactInv ==
    phase \in {"roots", "rescan"} /\ ~PhantomTail =>
        /\ Marked \subseteq Live
        /\ word # Null => \E m \in Marked : word \in Chain(m)

\* gc_mark_subtree is at work only while marking, and its stack has marked blocks.
StackInv ==
    /\ word # Null => phase \in {"roots", "rescan"}
    /\ word = Null => stack = <<>>
    /\ \A i \in DOMAIN stack : stack[i] \in Marked

\* What gc_sweep has not come to yet and can be reached is marked; what it has come
\* to is not marked any more.
SweepInv ==
    /\ phase \in {"run", "roots"} => at = 0
    /\ phase \in {"sweep", "finaliser"} =>
           /\ \A b \in Live : b >= at => kind[b] = "MARK"
           /\ \A b \in Marked : b >= at
    /\ phase = "finaliser" => at \in Blocks /\ kind[at] = "HEAD"
    /\ phase = "sweep" /\ at = 0 /\ ~PhantomTail => Marked \subseteq Live

IInv ==
    /\ TablesOK
    /\ ChainInv /\ AllocInv /\ RunInv
    /\ MarkInv /\ ExactInv /\ StackInv /\ SweepInv

\* All this holds until a collection begins inside a sweep, or a finaliser gives
\* garbage back to the program.
RegularInv ==
    /\ nested \in BOOLEAN /\ kept \in BOOLEAN
    /\ Regular => IInv /\ outer = <<>>

-----------------------------------------------------------------------------
(* Chains                                                                   *)

\* A nonempty set of numbers has a least element.
LEMMA Least ==
    ASSUME NEW S \in SUBSET Nat, S # {}
    PROVE  \E e \in S : \A x \in S : e <= x
<1>1. PICK e \in S : \A x \in S : ~(<<x, e>> \in OpToRel(<, Nat))
  BY NatLessThanWellFounded, WFMin
<1>2. \A x \in S : ~(x < e)
  BY <1>1 DEF OpToRel
<1> QED
  BY <1>2

\* A chain is an interval, and the block after it is no tail.
LEMMA ChainEnd ==
    ASSUME TablesOK, NEW b \in Blocks
    PROVE  \E e \in Blocks : /\ b <= e
                             /\ Chain(b) = b .. e
                             /\ \A x \in b + 1 .. e : kind[x] = "TAIL"
                             /\ e + 1 \in Blocks => kind[e + 1] # "TAIL"
<1> DEFINE S == {x \in 1 .. NBlocks : x > b /\ (x \in Blocks => kind[x] # "TAIL")}
<1>1. NBlocks \in S /\ S \subseteq Nat
  BY HeapAssumption DEF Blocks
<1>2. PICK n \in S : \A x \in S : n <= x
  BY <1>1, Least
<1>3. n \in Int /\ n - 1 \in Blocks /\ b <= n - 1 /\ (n \in Blocks => kind[n] # "TAIL")
  BY <1>2, HeapAssumption DEF Blocks
<1>4. \A x \in b + 1 .. n - 1 : kind[x] = "TAIL"
  BY <1>2, <1>3, HeapAssumption DEF Blocks
<1>5. \A w \in Blocks : w >= n => ~InChain(b, w)
  BY <1>3, HeapAssumption DEF Blocks, InChain
<1>6. \A w \in b .. n - 1 : InChain(b, w) /\ w \in Blocks
  BY <1>3, <1>4, HeapAssumption DEF Blocks, InChain
<1>7. Chain(b) = b .. n - 1
  BY <1>3, <1>5, <1>6, HeapAssumption DEF Chain, InChain, Blocks
<1>8. n = (n - 1) + 1
  BY <1>3
<1> QED
  BY <1>3, <1>4, <1>7, <1>8

\* The blocks of a chain behind its first are tails.
LEMMA ChainFacts ==
    ASSUME NEW b \in Blocks
    PROVE  /\ b \in Chain(b) /\ Chain(b) \subseteq Blocks
           /\ \A w \in Chain(b) : w >= b /\ (w = b \/ kind[w] = "TAIL")
           /\ \A w \in Chain(b) : \A x \in b + 1 .. w : kind[x] = "TAIL" /\ x \in Chain(b)
BY HeapAssumption DEF Chain, InChain, Blocks

\* The chains of two objects have no block in common.
LEMMA ChainsDisjoint ==
    ASSUME NEW b \in Heads, NEW c \in Heads, NEW w \in Chain(b), w \in Chain(c)
    PROVE  b = c
BY HeapAssumption DEF Chain, InChain, Heads, Blocks

\* A chain depends on the tails behind its head and on the block that follows.
LEMMA ChainKept ==
    ASSUME TablesOK, NEW b \in Blocks,
           \A x \in Chain(b) : x # b => kind'[x] = "TAIL",
           \A x \in Chain(b) : x + 1 \in Blocks /\ kind[x + 1] # "TAIL" => kind'[x + 1] # "TAIL"
    PROVE  Chain(b)' = Chain(b)
<1>1. PICK e \in Blocks : /\ b <= e
                          /\ Chain(b) = b .. e
                          /\ \A x \in b + 1 .. e : kind[x] = "TAIL"
                          /\ e + 1 \in Blocks => kind[e + 1] # "TAIL"
  BY ChainEnd
<1>2. e \in Chain(b) /\ e \in Int /\ b \in Int
  BY <1>1, HeapAssumption DEF Blocks
<1>3. e + 1 \in Blocks => kind'[e + 1] # "TAIL"
  BY <1>1, <1>2
<1>4. \A x \in b + 1 .. e : kind'[x] = "TAIL"
  BY <1>1, <1>2
<1>5. \A w \in Blocks : w > e => ~InChain(b, w)'
  BY <1>1, <1>2, <1>3, HeapAssumption DEF Blocks, InChain
<1>6. \A w \in b .. e : InChain(b, w)' /\ w \in Blocks
  BY <1>1, <1>2, <1>4, HeapAssumption DEF Blocks, InChain
<1> QED
  BY <1>1, <1>2, <1>5, <1>6, HeapAssumption DEF Chain, InChain, Blocks

\* A step that changes no tail changes no chain.
LEMMA SameTails ==
    ASSUME \A x \in Blocks : kind'[x] = "TAIL" <=> kind[x] = "TAIL"
    PROVE  \A b \in Blocks : Chain(b)' = Chain(b)
BY HeapAssumption DEF Chain, InChain, Blocks

-----------------------------------------------------------------------------
(* What the program can reach                                               *)

\* Live contains the roots and is closed.
LEMMA LiveFacts ==
    ASSUME TablesOK
    PROVE  Live \subseteq Blocks /\ roots \subseteq Live /\ Closed(Live)
<1>1. Live \subseteq Blocks /\ roots \subseteq Live
  BY DEF Live, TablesOK
<1>2. ASSUME NEW b \in Live, NEW w \in Chain(b), ptr[w] # Null PROVE ptr[w] \in Live
  <2>1. w \in Blocks /\ ptr[w] \in Blocks
    BY <1>2 DEF Chain, TablesOK
  <2>2. ASSUME NEW S \in SUBSET Blocks, roots \subseteq S, Closed(S) PROVE ptr[w] \in S
    <3>1. b \in S
      BY <2>2 DEF Live
    <3> QED
      BY <1>2, <2>2, <3>1 DEF Closed
  <2> QED
    BY <2>1, <2>2 DEF Live
<1> QED
  BY <1>1, <1>2 DEF Closed

\* Live is the least such set, also after a step.
LEMMA LiveWithin ==
    ASSUME NEW S \in SUBSET Blocks, roots' \subseteq S,
           \A b \in S : \A w \in Chain(b)' : ptr'[w] = Null \/ ptr'[w] \in S
    PROVE  Live' \subseteq S
<1>1. Closed(S)'
  BY DEF Closed
<1> QED
  BY <1>1 DEF Live

\* A step that changes neither tails nor words nor roots changes nothing here.
LEMMA SameLive ==
    ASSUME \A x \in Blocks : kind'[x] = "TAIL" <=> kind[x] = "TAIL",
           ptr' = ptr, roots' = roots
    PROVE  Live' = Live
<1>1. \A b \in Blocks : Chain(b)' = Chain(b)
  BY SameTails
<1>2. \A S \in SUBSET Blocks : Closed(S)' <=> Closed(S)
  BY <1>1 DEF Closed
<1> QED
  BY <1>2 DEF Live

-----------------------------------------------------------------------------
(* The program                                                              *)

\* A step of the program that only stores pointers it has, also inside a
\* finaliser: it can reach nothing it could not reach before.
LEMMA MutatorStep ==
    ASSUME IInv, Running, roots' \subseteq Live,
           ptr' \in [Blocks -> Blocks \cup {Null}],
           \A w \in Blocks : ptr'[w] = ptr[w]
                \/ (kind[w] # "FREE" /\ ptr'[w] \in roots \cup {Null}),
           UNCHANGED <<kind, ftb, lastFree, phase, marker, at, freeTail, stackSize>>
    PROVE  IInv'
<1> USE DEF marker
<1>1. TablesOK /\ Live \subseteq Blocks /\ roots \subseteq Live /\ Closed(Live)
  BY LiveFacts DEF IInv
<1>2. TablesOK'
  BY <1>1 DEF TablesOK
<1>3. \A b \in Blocks : Chain(b)' = Chain(b)
  BY SameTails
<1>4. Live' \subseteq Live
  <2>1. ASSUME NEW b \in Live, NEW w \in Chain(b)' PROVE ptr'[w] = Null \/ ptr'[w] \in Live
    <3>1. w \in Chain(b) /\ w \in Blocks
      BY <1>1, <1>3, <2>1 DEF Chain
    <3>2. ptr[w] = Null \/ ptr[w] \in Live
      BY <1>1, <3>1 DEF Closed
    <3> QED
      BY <1>1, <3>1, <3>2
  <2> QED
    BY <1>1, <2>1, LiveWithin
<1>5. Heads' = Heads /\ Marked' = Marked /\ PhantomTail' = PhantomTail
  BY DEF Heads, Marked, PhantomTail
<1>6. ChainInv'
  BY DEF IInv, ChainInv
<1>7. AllocInv'
  BY <1>4, <1>5 DEF IInv, AllocInv
<1>8. RunInv'
  BY <1>5 DEF IInv, RunInv
<1>9. MarkInv' /\ ExactInv'
  BY DEF Running, MarkInv, ExactInv
<1>10. StackInv'
  BY <1>5 DEF IInv, StackInv
<1>11. SweepInv'
  <2>1. ~(phase = "sweep")
    BY DEF Running
  <2> QED
    BY <1>4, <1>5, <2>1 DEF IInv, SweepInv
<1> QED
  BY <1>2, <1>6, <1>7, <1>8, <1>9, <1>10, <1>11 DEF IInv

LEMMA StoreStep ==
    ASSUME IInv, NEW b \in Blocks, NEW w \in Blocks, NEW p \in Blocks \cup {Null},
           Store(b, w, p), UNCHANGED stackSize
    PROVE  IInv'
<1>1. TablesOK /\ roots \subseteq Live /\ Live \subseteq Heads
  BY LiveFacts DEF IInv, AllocInv
<1>2. kind[w] # "FREE"
  BY <1>1, ChainFacts DEF Store, Heads
<1>3. /\ roots' \subseteq Live
      /\ ptr' \in [Blocks -> Blocks \cup {Null}]
      /\ \A x \in Blocks : ptr'[x] = ptr[x]
            \/ (kind[x] # "FREE" /\ ptr'[x] \in roots \cup {Null})
  BY <1>1, <1>2 DEF Store, TablesOK
<1> QED
  BY <1>3, MutatorStep DEF Store, marker

LEMMA LoadStep ==
    ASSUME IInv, NEW b \in Blocks, NEW w \in Blocks, Load(b, w), UNCHANGED stackSize
    PROVE  IInv'
<1>1. TablesOK /\ roots \subseteq Live /\ Closed(Live)
  BY LiveFacts DEF IInv
<1>2. roots' \subseteq Live
  BY <1>1 DEF Load, Closed
<1> QED
  BY <1>1, <1>2, MutatorStep DEF Load, marker, heap, TablesOK

LEMMA ForgetStep ==
    ASSUME IInv, NEW b \in Blocks, Forget(b), UNCHANGED stackSize
    PROVE  IInv'
<1>1. TablesOK /\ roots \subseteq Live
  BY LiveFacts DEF IInv
<1>2. roots' \subseteq Live
  BY <1>1 DEF Forget
<1> QED
  BY <1>1, <1>2, MutatorStep DEF Forget, marker, heap, TablesOK

\* A finaliser that finds in its object what the program can reach anyway.
LEMMA FinaliserKeepsStep ==
    ASSUME IInv, NEW p \in Live, FinaliserKeeps(p), UNCHANGED stackSize
    PROVE  IInv'
<1>1. TablesOK /\ roots \subseteq Live /\ Running
  BY LiveFacts DEF IInv, FinaliserKeeps, Running
<1>2. roots' \subseteq Live
  BY <1>1 DEF FinaliserKeeps
<1> QED
  BY <1>1, <1>2, MutatorStep DEF FinaliserKeeps, marker, heap, TablesOK

-----------------------------------------------------------------------------
(* Marking                                                                  *)

LEMMA CollectStep ==
    ASSUME IInv, phase = "run", outer = <<>>, Collect, UNCHANGED stackSize
    PROVE  IInv'
<1>0. todo' = roots /\ at' = at /\ freeTail' = freeTail /\ phase' = "roots"
      /\ UNCHANGED <<heap, roots, word, stack, overflow>>
  <2>1. Finalising = {}
    BY DEF Finalising
  <2>2. at = 0 /\ freeTail = FALSE
    BY DEF IInv, ChainInv, SweepInv, TablesOK
  <2> QED
    BY <2>1, <2>2 DEF Collect
<1> USE <1>0 DEF heap
<1>1. TablesOK'
  BY DEF IInv, TablesOK
<1>2. Heads' = Heads /\ Marked' = Marked /\ Live' = Live /\ Marked = {}
  BY SameLive DEF IInv, RunInv, Heads, Marked
<1>3. ChainInv' /\ AllocInv' /\ RunInv'
  BY <1>2 DEF IInv, ChainInv, AllocInv, RunInv
<1>4. MarkInv' /\ ExactInv'
  BY <1>2 DEF IInv, StackInv, MarkInv, ExactInv
<1>5. StackInv' /\ SweepInv'
  BY <1>2 DEF IInv, StackInv, SweepInv
<1> QED
  BY <1>1, <1>3, <1>4, <1>5 DEF IInv

\* gc_sweep_all: nothing can be reached any more.
LEMMA SweepAllStep ==
    ASSUME IInv, SweepAll, UNCHANGED stackSize
    PROVE  IInv'
<1> USE DEF SweepAll, heap, marker
<1>1. TablesOK'
  BY DEF IInv, TablesOK
<1>2. Live' = {}
  BY LiveWithin
<1>3. Heads' = Heads /\ Marked' = Marked /\ Marked = {}
  BY DEF IInv, RunInv, Heads, Marked
<1>4. ChainInv' /\ AllocInv' /\ RunInv'
  BY <1>2, <1>3 DEF IInv, ChainInv, AllocInv, RunInv
<1>5. MarkInv' /\ ExactInv'
  BY DEF MarkInv, ExactInv
<1>6. StackInv' /\ SweepInv'
  BY <1>2, <1>3 DEF IInv, StackInv, SweepInv
<1> QED
  BY <1>1, <1>4, <1>5, <1>6 DEF IInv

\* What a step of gc_mark_subtree, which only turns heads into marks, leaves alone.
LEMMA MarkingFrame ==
    ASSUME IInv, phase \in {"roots", "rescan"}, phase' \in {"roots", "rescan"},
           kind' \in [Blocks -> {"FREE", "HEAD", "TAIL", "MARK"}],
           \A x \in Blocks : kind'[x] = kind[x] \/ (kind[x] = "HEAD" /\ kind'[x] = "MARK"),
           UNCHANGED <<ftb, ptr, roots, freeTail>>
    PROVE  /\ \A b \in Blocks : Chain(b)' = Chain(b)
           /\ Live' = Live /\ Heads' = Heads /\ Marked \subseteq Marked'
           /\ PhantomTail' = PhantomTail
           /\ ChainInv' /\ AllocInv' /\ RunInv'
<1>0. kind \in [Blocks -> {"FREE", "HEAD", "TAIL", "MARK"}]
  BY DEF IInv, TablesOK
<1>1. \A x \in Blocks : kind'[x] = "TAIL" <=> kind[x] = "TAIL"
  OBVIOUS
<1>2. Live' = Live /\ \A b \in Blocks : Chain(b)' = Chain(b)
  BY <1>1, SameLive, SameTails
<1>3. Heads' = Heads /\ Marked \subseteq Marked' /\ PhantomTail' = PhantomTail
  BY DEF Heads, Marked, PhantomTail
<1>4. \A x \in Blocks : kind'[x] = "FREE" <=> kind[x] = "FREE"
  OBVIOUS
<1>5. ~freeTail
  BY DEF IInv, ChainInv
<1>6. \A x \in Blocks : x > 0 => x - 1 \in Blocks
  BY HeapAssumption DEF Blocks
<1>7. ChainInv'
  BY <1>1, <1>4, <1>5, <1>6 DEF IInv, ChainInv
<1> QED
  BY <1>2, <1>3, <1>7 DEF IInv, AllocInv, RunInv

LEMMA CollectRootStep ==
    ASSUME IInv, NEW b \in Blocks, CollectRoot(b), UNCHANGED stackSize
    PROVE  IInv'
<1> USE DEF CollectRoot
<1>1. TablesOK /\ TablesOK' /\ Live \subseteq Heads /\ roots \subseteq Live /\ Live \subseteq Blocks
  <2>1. Blocks \subseteq Words
    BY HeapAssumption DEF Blocks, Words
  <2> QED
    BY <2>1, LiveFacts DEF IInv, TablesOK, AllocInv
<1>2. /\ \A x \in Blocks : kind'[x] = kind[x] \/ (kind[x] = "HEAD" /\ kind'[x] = "MARK")
      /\ \A x \in Blocks : x # b => kind'[x] = kind[x]
  BY <1>1 DEF TablesOK
<1>3. /\ \A c \in Blocks : Chain(c)' = Chain(c)
      /\ Live' = Live /\ Heads' = Heads /\ Marked \subseteq Marked'
      /\ PhantomTail' = PhantomTail
      /\ ChainInv' /\ AllocInv' /\ RunInv'
  <2>1. phase' \in {"roots", "rescan"} /\ kind' \in [Blocks -> {"FREE", "HEAD", "TAIL", "MARK"}]
    BY <1>1 DEF TablesOK
  <2> QED
    BY <1>2, <2>1, MarkingFrame
<1>4. b \in Live /\ b \in Marked' /\ Marked' \subseteq Marked \cup {b} /\ todo \subseteq roots
      /\ stack = <<>>
  <2>1. b \in Live /\ todo \subseteq roots /\ stack = <<>>
    BY <1>1 DEF IInv, MarkInv, StackInv
  <2>2. kind[b] \in {"HEAD", "MARK"}
    BY <1>1, <2>1 DEF Heads
  <2> QED
    BY <1>1, <1>2, <2>1, <2>2 DEF Marked, TablesOK
<1>5. word' = b \/ (word' = Null /\ Marked' = Marked)
  BY <1>1, <1>2 DEF Marked
<1>6. MarkInv'
  <2>1. todo' \subseteq roots' /\ ~(phase' = "rescan") /\ roots' \ todo' \subseteq Marked'
    BY <1>3, <1>4 DEF IInv, MarkInv
  <2>2. ASSUME NEW m \in Marked', NEW w \in Chain(m)', ptr'[w] # Null,
               kind'[ptr'[w]] = "HEAD"
        PROVE  ToScan(m, w)'
    <3>1. m \in Blocks /\ w \in Chain(m) /\ w \in Blocks /\ ptr[w] \in Blocks
      BY <1>1, <1>3, <2>2 DEF Marked, Chain, TablesOK
    <3>2. kind[ptr[w]] = "HEAD"
      BY <1>2, <2>2, <3>1
    <3>3. CASE m \in Marked
      <4>1. ToScan(m, w)
        BY <2>2, <3>1, <3>2, <3>3 DEF IInv, MarkInv
      <4>2. overflow
        BY <1>4, <3>1, <4>1, HeapAssumption DEF ToScan, Chain, Blocks, Null
      <4> QED
        BY <4>2 DEF ToScan
    <3>4. CASE m = b /\ word' = b
      <4>1. b \in Chain(b)' /\ b <= w
        BY <1>3, <3>1, <3>4, ChainFacts
      <4> QED
        BY <3>4, <4>1 DEF ToScan
    <3> QED
      BY <1>4, <1>5, <2>2, <3>3, <3>4
  <2> QED
    BY <2>1, <2>2 DEF MarkInv
<1>7. ExactInv'
  <2> SUFFICES ASSUME ~PhantomTail
               PROVE  Marked' \subseteq Live /\ (word' # Null => b \in Chain(b)' /\ word' = b)
    BY <1>3, <1>4 DEF ExactInv
  <2>1. Marked \subseteq Live
    BY DEF IInv, ExactInv
  <2> QED
    BY <1>3, <1>4, <1>5, <2>1, ChainFacts
<1>8. StackInv'
  BY <1>4 DEF StackInv
<1>9. SweepInv'
  BY DEF IInv, SweepInv
<1> QED
  BY <1>1, <1>3, <1>6, <1>7, <1>8, <1>9 DEF IInv

\* A block is pushed on the mark stack.
LEMMA PushFacts ==
    ASSUME TablesOK, NEW p \in Blocks
    PROVE  /\ Append(stack, p) \in Seq(Blocks)
           /\ \A i \in DOMAIN Append(stack, p) :
                 (\E j \in DOMAIN stack : stack[j] = Append(stack, p)[i])
                    \/ Append(stack, p)[i] = p
           /\ \A j \in DOMAIN stack :
                 \E i \in DOMAIN Append(stack, p) : Append(stack, p)[i] = stack[j]
           /\ \E i \in DOMAIN Append(stack, p) : Append(stack, p)[i] = p
<1>1. stack \in Seq(Blocks) /\ Len(stack) \in Nat /\ DOMAIN stack = 1 .. Len(stack)
  BY LenProperties DEF TablesOK
<1> DEFINE pushed == Append(stack, p)
<1>2. /\ pushed \in Seq(Blocks) /\ Len(pushed) = Len(stack) + 1
      /\ \A i \in 1 .. Len(stack) : pushed[i] = stack[i]
      /\ pushed[Len(stack) + 1] = p
  BY <1>1, AppendProperties
<1> HIDE DEF pushed
<1>3. DOMAIN pushed = 1 .. Len(stack) + 1
  BY <1>2, LenProperties
<1>4. \A i \in DOMAIN pushed : (\E j \in DOMAIN stack : stack[j] = pushed[i]) \/ pushed[i] = p
  BY <1>1, <1>2, <1>3
<1>5. \A j \in DOMAIN stack : j \in DOMAIN pushed /\ pushed[j] = stack[j]
  BY <1>1, <1>2, <1>3
<1>6. Len(stack) + 1 \in DOMAIN pushed
  BY <1>1, <1>3
<1> QED
  BY <1>2, <1>4, <1>5, <1>6 DEF pushed

\* The last block is popped.
LEMMA PopFacts ==
    ASSUME NEW s \in Seq(Blocks), s # <<>>
    PROVE  LET rest == SubSeq(s, 1, Len(s) - 1)
           IN  /\ Len(s) \in DOMAIN s /\ s[Len(s)] \in Blocks
               /\ rest \in Seq(Blocks)
               /\ \A i \in DOMAIN rest : i \in DOMAIN s /\ rest[i] = s[i]
               /\ \A i \in DOMAIN s : s[i] = s[Len(s)] \/ \E j \in DOMAIN rest : rest[j] = s[i]
<1>1. /\ Len(s) \in Nat \ {0} /\ DOMAIN s = 1 .. Len(s)
      /\ \A i \in 1 .. Len(s) : s[i] \in Blocks
  BY EmptySeq, LenProperties
<1> DEFINE rest == SubSeq(s, 1, Len(s) - 1)
<1>2. /\ rest \in Seq(Blocks) /\ Len(rest) = Len(s) - 1
      /\ \A i \in 1 .. Len(s) - 1 : rest[i] = s[i]
  BY <1>1, SubSeqProperties
<1>3. DOMAIN rest = 1 .. Len(s) - 1
  BY <1>2, LenProperties
<1> HIDE DEF rest
<1>4. \A i \in DOMAIN rest : i \in DOMAIN s /\ rest[i] = s[i]
  BY <1>1, <1>2, <1>3
<1>5. \A i \in DOMAIN s : s[i] = s[Len(s)] \/ \E j \in DOMAIN rest : rest[j] = s[i]
  BY <1>1, <1>2, <1>3
<1>6. Len(s) \in DOMAIN s
  BY <1>1
<1> QED
  BY <1>1, <1>2, <1>4, <1>5, <1>6 DEF rest

LEMMA ScanWordStep ==
    ASSUME IInv, ScanWord, UNCHANGED stackSize
    PROVE  IInv'
<1>1. /\ TablesOK /\ word # Null /\ word \in Words /\ phase \in {"roots", "rescan"}
      /\ UNCHANGED <<ftb, lastFree, ptr, roots, phase, todo, at, freeTail, stackSize>>
      /\ Live \subseteq Heads /\ roots \subseteq Live /\ Live \subseteq Blocks /\ Closed(Live)
      /\ NBlocks \in Nat
  BY LiveFacts, HeapAssumption DEF IInv, TablesOK, AllocInv, StackInv, ScanWord
<1>2. PICK p \in Read(word) :
        LET white == p # Null /\ kind[p] = "HEAD"
            room == Len(stack) < stackSize
            pushed == IF white /\ room THEN Append(stack, p) ELSE stack
        IN  /\ kind' = IF white THEN [kind EXCEPT ![p] = "MARK"] ELSE kind
            /\ overflow' = (overflow \/ (white /\ ~room))
            /\ IF IsTail(word + 1)
               THEN word' = word + 1 /\ stack' = pushed
               ELSE IF pushed = <<>>
               THEN word' = Null /\ stack' = pushed
               ELSE /\ word' = pushed[Len(pushed)]
                    /\ stack' = SubSeq(pushed, 1, Len(pushed) - 1)
  BY DEF ScanWord
<1> DEFINE white == p # Null /\ kind[p] = "HEAD"
           room == Len(stack) < stackSize
           pushed == IF white /\ room THEN Append(stack, p) ELSE stack
           top == pushed[Len(pushed)]
<1>3. p \in Blocks \cup {Null} /\ (word \in Blocks => p = ptr[word])
  BY <1>1 DEF Read, TablesOK
<1>4. /\ kind' = IF white THEN [kind EXCEPT ![p] = "MARK"] ELSE kind
      /\ overflow' = (overflow \/ (white /\ ~room))
      /\ \/ IsTail(word + 1) /\ word' = word + 1 /\ stack' = pushed
         \/ ~IsTail(word + 1) /\ pushed = <<>> /\ word' = Null /\ stack' = pushed
         \/ /\ ~IsTail(word + 1) /\ pushed # <<>>
            /\ word' = top /\ stack' = SubSeq(pushed, 1, Len(pushed) - 1)
  BY <1>2
<1>5. /\ pushed \in Seq(Blocks)
      /\ \A i \in DOMAIN pushed : (\E j \in DOMAIN stack : stack[j] = pushed[i])
                                     \/ (white /\ pushed[i] = p)
      /\ \A j \in DOMAIN stack : \E i \in DOMAIN pushed : pushed[i] = stack[j]
      /\ white /\ room => \E i \in DOMAIN pushed : pushed[i] = p
      /\ pushed # <<>> =>
            LET rest == SubSeq(pushed, 1, Len(pushed) - 1)
            IN  /\ Len(pushed) \in DOMAIN pushed /\ top \in Blocks
                /\ rest \in Seq(Blocks)
                /\ \A i \in DOMAIN rest : i \in DOMAIN pushed /\ rest[i] = pushed[i]
                /\ \A i \in DOMAIN pushed : pushed[i] = top
                       \/ \E j \in DOMAIN rest : rest[j] = pushed[i]
  <2>1. /\ pushed \in Seq(Blocks)
        /\ \A i \in DOMAIN pushed : (\E j \in DOMAIN stack : stack[j] = pushed[i])
                                       \/ (white /\ pushed[i] = p)
        /\ \A j \in DOMAIN stack : \E i \in DOMAIN pushed : pushed[i] = stack[j]
        /\ white /\ room => \E i \in DOMAIN pushed : pushed[i] = p
    <3>1. CASE white /\ room
      <4>1. pushed = Append(stack, p) /\ p \in Blocks
        BY <1>3, <3>1
      <4> QED
        BY <1>1, <3>1, <4>1, PushFacts
    <3>2. CASE ~(white /\ room)
      <4>1. pushed = stack
        BY <3>2
      <4> QED
        BY <1>1, <3>2, <4>1 DEF TablesOK
    <3> QED
      BY <3>1, <3>2
  <2> HIDE DEF white, pushed
  <2>2. pushed # <<>> =>
            LET rest == SubSeq(pushed, 1, Len(pushed) - 1)
            IN  /\ Len(pushed) \in DOMAIN pushed /\ pushed[Len(pushed)] \in Blocks
                /\ rest \in Seq(Blocks)
                /\ \A i \in DOMAIN rest : i \in DOMAIN pushed /\ rest[i] = pushed[i]
                /\ \A i \in DOMAIN pushed : pushed[i] = pushed[Len(pushed)]
                       \/ \E j \in DOMAIN rest : rest[j] = pushed[i]
    BY <2>1, PopFacts
  <2> QED
    BY <2>1, <2>2
<1>w. white => p \in Blocks /\ kind[p] = "HEAD"
  BY <1>3
<1>n. ~white => p = Null \/ kind[p] # "HEAD"
  OBVIOUS
<1> HIDE DEF white, pushed, top
<1>6. /\ kind' \in [Blocks -> {"FREE", "HEAD", "TAIL", "MARK"}]
      /\ \A x \in Blocks : kind'[x] = kind[x] \/ (kind[x] = "HEAD" /\ kind'[x] = "MARK")
      /\ \A x \in Blocks : ~(white /\ x = p) => kind'[x] = kind[x]
      /\ white => kind'[p] = "MARK"
  BY <1>1, <1>w, <1>4 DEF TablesOK
<1>7. /\ \A c \in Blocks : Chain(c)' = Chain(c)
      /\ Live' = Live /\ Heads' = Heads /\ Marked \subseteq Marked'
      /\ PhantomTail' = PhantomTail
      /\ ChainInv' /\ AllocInv' /\ RunInv'
  BY <1>1, <1>6, MarkingFrame
<1>8. Marked' \subseteq Marked \cup {p} /\ (white => p \in Marked') /\ (~white => Marked' = Marked)
  BY <1>6, <1>w DEF Marked
<1>9. \A i \in DOMAIN pushed : pushed[i] \in Marked'
  BY <1>5, <1>7, <1>8 DEF IInv, StackInv
\* The stack, and the word that was popped, are what was pushed.
<1>10. /\ \A i \in DOMAIN stack' : stack'[i] \in Marked'
       /\ \A i \in DOMAIN pushed : word' = pushed[i] \/ \E j \in DOMAIN stack' : stack'[j] = pushed[i]
       /\ stack' \in Seq(Blocks)
  BY <1>4, <1>5, <1>9 DEF top
<1>11. IsTail(word + 1) => word + 1 \in Words
  <2>1. ASSUME word + 1 \notin Blocks, IsTail(word + 1) PROVE word + 1 \in Words
    <3>0. ftb \subseteq Blocks
      BY <1>1 DEF TablesOK
    <3>1. PICK x \in Int : x = word + 1
      BY <1>1 DEF Words
    <3>2. x \notin Blocks /\ IsTail(x)
      BY <2>1, <3>1
    <3>3. 2 * (x - NBlocks) + 1 \in Blocks
      BY <3>0, <3>2 DEF TailBits, IsTail
    <3> QED
      BY <1>1, <3>1, <3>3 DEF Blocks, Words
  <2>2. ASSUME word + 1 \in Blocks PROVE word + 1 \in Words
    BY <1>1, <2>2 DEF Blocks, Words
  <2> QED
    BY <2>1, <2>2
<1>12. TablesOK'
  <2>1. word' \in Words \cup {Null}
    <3>1. Blocks \subseteq Words
      BY <1>1 DEF Blocks, Words
    <3> QED
      BY <1>4, <1>5, <1>11, <3>1
  <2>2. overflow' \in BOOLEAN
    BY <1>1, <1>4 DEF TablesOK
  <2> QED
    BY <1>1, <1>6, <1>10, <2>1, <2>2 DEF TablesOK
<1>13. MarkInv'
  <2>1. /\ todo' \subseteq roots' /\ (phase' = "rescan" => todo' = {})
        /\ roots' \ todo' \subseteq Marked'
    BY <1>1, <1>7 DEF IInv, MarkInv
  <2>2. ASSUME NEW m \in Marked', NEW w \in Chain(m)', ptr'[w] # Null,
               kind'[ptr'[w]] = "HEAD"
        PROVE  ToScan(m, w)'
    <3>1. m \in Blocks /\ w \in Chain(m) /\ w \in Blocks /\ ptr'[w] = ptr[w] /\ ptr[w] \in Blocks
      BY <1>1, <1>7, <2>2 DEF Marked, Chain, TablesOK
    <3>2. kind[ptr[w]] = "HEAD" /\ ~(white /\ ptr[w] = p)
      BY <1>6, <2>2, <3>1
    <3>3. \A i \in DOMAIN pushed : pushed[i] = m => ToScan(m, w)'
      <4> SUFFICES ASSUME NEW i \in DOMAIN pushed, pushed[i] = m PROVE ToScan(m, w)'
        OBVIOUS
      <4>1. CASE word' = m
        BY <1>7, <3>1, <4>1, ChainFacts DEF ToScan
      <4>2. CASE \E j \in DOMAIN stack' : stack'[j] = m
        BY <4>2 DEF ToScan
      <4> QED
        BY <1>10, <4>1, <4>2
    <3>4. CASE m \notin Marked
      <4>1. white /\ m = p
        BY <1>8, <2>2, <3>4
      <4>2. CASE room
        BY <1>5, <3>3, <4>1, <4>2
      <4>3. CASE ~room
        BY <1>4, <4>1, <4>3 DEF ToScan
      <4> QED
        BY <4>2, <4>3
    <3>5. CASE m \in Marked
      <4>1. ToScan(m, w)
        BY <1>1, <2>2, <3>1, <3>2, <3>5 DEF IInv, MarkInv
      <4>2. CASE overflow
        BY <1>4, <4>2 DEF ToScan
      <4>3. CASE \E i \in DOMAIN stack : stack[i] = m
        BY <1>5, <3>3, <4>3
      <4>4. CASE phase = "rescan" /\ at <= m
        BY <1>1, <4>4 DEF ToScan
      <4>5. CASE word \in Chain(m) /\ word <= w
        <5>0. word \in Blocks /\ p = ptr[word]
          BY <1>3, <4>5 DEF Chain
        <5>1. word # w
          <6> SUFFICES ASSUME word = w PROVE FALSE
            OBVIOUS
          <6>1. p = ptr[w] /\ ~white
            BY <3>2, <5>0
          <6> QED
            BY <1>n, <2>2, <3>1, <3>2, <6>1
        <5>2. word + 1 \in Chain(m) /\ word + 1 <= w /\ kind[word + 1] = "TAIL"
          BY <1>1, <3>1, <4>5, <5>0, <5>1 DEF Chain, InChain, Blocks
        <5>3. word' = word + 1
          BY <1>4, <3>1, <5>2, ChainFacts DEF IsTail
        <5> QED
          BY <1>7, <3>1, <5>2, <5>3 DEF ToScan
      <4> QED
        BY <4>1, <4>2, <4>3, <4>4, <4>5 DEF ToScan
    <3> QED
      BY <3>4, <3>5
  <2> QED
    BY <2>1, <2>2 DEF MarkInv
<1>14. ExactInv'
  <2> SUFFICES ASSUME ~PhantomTail
               PROVE  /\ Marked' \subseteq Live
                      /\ word' # Null => \E m \in Marked' : word' \in Chain(m)'
    BY <1>7 DEF ExactInv
  <2>1. PICK m \in Marked : word \in Chain(m)
    BY <1>1 DEF IInv, ExactInv
  <2>2. Marked \subseteq Live /\ m \in Blocks /\ word \in Blocks
    BY <1>1, <2>1 DEF IInv, ExactInv, Marked, Chain
  <2>3. p = Null \/ p \in Live
    BY <1>1, <1>3, <2>1, <2>2 DEF Closed
  <2>4. Marked' \subseteq Live
    BY <1>8, <1>w, <2>2, <2>3, HeapAssumption DEF Null, Blocks
  <2>5. CASE IsTail(word + 1)
    <3>1. word + 1 \in Blocks
      BY <1>1, <2>2, <2>5 DEF IsTail, PhantomTail, Blocks
    <3>2. word + 1 \in Chain(m)
      BY <1>1, <2>1, <2>2, <2>5, <3>1 DEF IsTail, Chain, InChain, Blocks
    <3> QED
      BY <1>4, <1>7, <2>1, <2>2, <2>4, <2>5, <3>2
  <2>6. CASE ~IsTail(word + 1) /\ pushed # <<>>
    <3>0. PICK c \in Blocks : c = top
      BY <1>5, <2>6
    <3>1. word' = c /\ c \in Marked'
      BY <1>4, <1>5, <1>9, <2>6, <3>0 DEF top
    <3>2. c \in Chain(c)'
      BY <1>7, ChainFacts
    <3> QED
      BY <2>4, <3>1, <3>2
  <2>7. CASE ~IsTail(word + 1) /\ pushed = <<>>
    BY <1>4, <2>4, <2>7
  <2> QED
    BY <2>5, <2>6, <2>7
<1>15. StackInv'
  <2>1. word' = Null => stack' = <<>>
    <3>1. Null \notin Words /\ Null \notin Blocks
      BY <1>1 DEF Null, Words, Blocks
    <3> QED
      BY <1>4, <1>5, <1>11, <3>1
  <2> QED
    BY <1>1, <1>10, <2>1 DEF StackInv
<1>16. SweepInv'
  BY <1>1 DEF IInv, SweepInv
<1> QED
  BY <1>7, <1>12, <1>13, <1>14, <1>15, <1>16 DEF IInv

LEMMA RescanStep ==
    ASSUME IInv, Rescan, UNCHANGED stackSize
    PROVE  IInv'
<1> USE DEF Rescan, heap
<1>1. TablesOK /\ at \in Blocks /\ NBlocks \in Nat /\ stack = <<>> /\ word = Null
  BY HeapAssumption DEF IInv, TablesOK, Blocks, StackInv
<1>2. TablesOK'
  BY <1>1 DEF TablesOK, Blocks, Words
<1>3. /\ \A c \in Blocks : Chain(c)' = Chain(c)
      /\ Live' = Live /\ Heads' = Heads /\ Marked' = Marked
      /\ PhantomTail' = PhantomTail
      /\ ChainInv' /\ AllocInv' /\ RunInv'
  <2>1. Marked' = Marked
    BY DEF Marked
  <2> QED
    BY <1>1, <2>1, MarkingFrame DEF TablesOK
<1>4. MarkInv'
  <2>1. ASSUME NEW m \in Marked, NEW w \in Chain(m), ptr[w] # Null, kind[ptr[w]] = "HEAD"
        PROVE  ToScan(m, w)'
    <3>1. m \in Blocks /\ w \in Blocks /\ ToScan(m, w) /\ m <= w
      BY <2>1, ChainFacts DEF IInv, MarkInv, Marked, Chain, InChain
    <3>2. CASE m = at
      <4>1. word' = m
        BY <2>1, <3>2 DEF Marked
      <4> QED
        BY <1>3, <3>1, <4>1, ChainFacts DEF ToScan
    <3>3. CASE m # at
      <4>1. overflow \/ at <= m
        BY <1>1, <3>1 DEF ToScan, Chain, Blocks, Null
      <4> QED
        BY <1>1, <3>1, <3>3, <4>1 DEF ToScan, Blocks
    <3> QED
      BY <3>2, <3>3
  <2>2. \A m \in Marked' : m \in Blocks /\ m \in Marked /\ Chain(m)' = Chain(m)
    BY <1>3 DEF Marked
  <2> QED
    BY <1>3, <2>1, <2>2 DEF IInv, MarkInv
<1>5. ExactInv'
  <2>1. PICK c \in Blocks : c = at
    BY <1>1
  <2>2. word' # Null => c \in Marked' /\ word' = c /\ c \in Chain(c)'
    BY <1>1, <1>3, <2>1, ChainFacts DEF Marked
  <2> QED
    BY <1>3, <2>2 DEF IInv, ExactInv
<1>6. StackInv'
  BY <1>1 DEF StackInv
<1>7. SweepInv'
  BY DEF SweepInv
<1> QED
  BY <1>2, <1>3, <1>4, <1>5, <1>6, <1>7 DEF IInv

\* When a pass is over and the stack has not overflowed, all that can be reached
\* is marked.
LEMMA MarkingComplete ==
    ASSUME IInv, word = Null, ~overflow,
           \/ phase = "roots" /\ todo = {}
           \/ phase = "rescan" /\ at = NBlocks
    PROVE  Live \subseteq Marked
<1>1. TablesOK /\ Live \subseteq Heads /\ roots \subseteq Live /\ Live \subseteq Blocks /\ Closed(Live)
  BY LiveFacts DEF IInv, AllocInv
<1>2. stack = <<>> /\ roots \subseteq Marked
  BY DEF IInv, StackInv, MarkInv
<1> DEFINE S == Live \cap Marked
<1>3. S \in SUBSET Blocks /\ roots \subseteq S
  BY <1>1, <1>2
<1>4. Closed(S)
  <2> SUFFICES ASSUME NEW m \in S, NEW w \in Chain(m), ptr[w] # Null PROVE ptr[w] \in S
    BY DEF Closed
  <2>1. ptr[w] \in Live /\ ptr[w] \in Blocks /\ m \in Blocks
    BY <1>1 DEF Closed
  <2>2. ~ToScan(m, w)
    BY <1>2, <2>1, HeapAssumption DEF ToScan, Chain, Null, Blocks
  <2>3. kind[ptr[w]] # "HEAD"
    BY <2>2 DEF IInv, MarkInv
  <2> QED
    BY <1>1, <2>1, <2>3 DEF Heads, Marked
<1> QED
  BY <1>3, <1>4 DEF Live

LEMMA MarkingDoneStep ==
    ASSUME IInv, MarkingDone, UNCHANGED stackSize
    PROVE  IInv'
<1> USE DEF MarkingDone, heap
<1>1. TablesOK /\ stack = <<>> /\ todo = {} /\ phase \in {"roots", "rescan"} /\ ~freeTail
  BY DEF IInv, StackInv, MarkInv, ChainInv
<1>2. TablesOK'
  <2>1. phase' \in {"rescan", "sweep"} /\ at' \in 0 .. NBlocks
    BY HeapAssumption
  <2>2. overflow' \in BOOLEAN /\ UNCHANGED <<kind, ftb, lastFree, ptr, roots, todo, word, stack, freeTail>>
    OBVIOUS
  <2> HIDE DEF MarkingDone
  <2> QED
    BY <1>1, <2>1, <2>2 DEF TablesOK
<1>3. Live' = Live /\ Heads' = Heads /\ Marked' = Marked /\ PhantomTail' = PhantomTail
  BY SameLive DEF Heads, Marked, PhantomTail
<1>4. ChainInv' /\ AllocInv' /\ RunInv'
  BY <1>1, <1>3 DEF IInv, ChainInv, AllocInv, RunInv
<1>5. StackInv'
  BY <1>1 DEF StackInv
<1>6. CASE overflow
  <2>1. \A m \in Marked' : \A w : ToScan(m, w)'
    BY <1>6, HeapAssumption DEF ToScan, Marked, Blocks
  <2>2. MarkInv'
    BY <1>1, <1>3, <1>6, <2>1 DEF IInv, MarkInv
  <2>3. ExactInv'
    BY <1>1, <1>3 DEF IInv, ExactInv
  <2>4. SweepInv'
    BY <1>6 DEF SweepInv
  <2> QED
    BY <1>2, <1>4, <1>5, <2>2, <2>3, <2>4 DEF IInv
<1>7. CASE ~overflow
  <2>1. Live \subseteq Marked
    BY <1>7, MarkingComplete
  <2>2. MarkInv' /\ ExactInv'
    BY <1>7 DEF MarkInv, ExactInv
  <2>3. SweepInv'
    BY <1>1, <1>3, <1>7, <2>1, HeapAssumption DEF IInv, ExactInv, SweepInv, Marked, Blocks
  <2> QED
    BY <1>2, <1>4, <1>5, <2>2, <2>3 DEF IInv
<1> QED
  BY <1>6, <1>7

-----------------------------------------------------------------------------
(* Sweeping                                                                 *)

\* The block at which gc_sweep is may be freed if it is the head of an object that
\* cannot be reached, or a tail of such an object: nothing that can be reached
\* loses a block.
LEMMA FreeStep ==
    ASSUME IInv, phase \in {"sweep", "finaliser"}, at \in Blocks,
           \/ kind[at] = "HEAD" /\ at \notin ftb'
           \/ kind[at] = "TAIL" /\ freeTail /\ ftb' = ftb,
           kind' = [kind EXCEPT ![at] = "FREE"],
           ptr' = Cleared({at}),
           ftb' = ftb \ {at} \/ ftb' = ftb,
           freeTail' = TRUE, at' = at + 1, phase' = "sweep",
           UNCHANGED <<lastFree, roots, marker, stackSize>>
    PROVE  IInv' /\ \A b \in Live : Chain(b)' = Chain(b)
<1> USE DEF marker
<1>1. /\ TablesOK /\ Live \subseteq Heads /\ roots \subseteq Live /\ Live \subseteq Blocks /\ Closed(Live)
      /\ ftb \subseteq Heads /\ NBlocks \in Nat
  BY LiveFacts, HeapAssumption DEF IInv, AllocInv
<1>2. TablesOK'
  BY <1>1 DEF TablesOK, Cleared, Blocks
<1>3. /\ kind'[at] = "FREE" /\ \A x \in Blocks : x # at => kind'[x] = kind[x]
      /\ ptr'[at] = Null /\ \A x \in Blocks : x # at => ptr'[x] = ptr[x]
  BY <1>1 DEF TablesOK, Cleared
<1>4. ASSUME NEW b \in Live PROVE at \notin Chain(b)
  <2>1. b \in Blocks /\ b \in Heads /\ (b >= at => kind[b] = "MARK")
    BY <1>1, <1>4 DEF IInv, SweepInv
  <2>2. CASE kind[at] = "HEAD"
    BY <2>1, <2>2, ChainFacts DEF Blocks
  <2>3. CASE kind[at] = "TAIL" /\ freeTail
    <3>1. at > 0 /\ kind[at - 1] = "FREE" /\ at \in Int /\ b \in Int
      BY <1>1, <2>3 DEF IInv, ChainInv, Blocks
    <3>2. b # at /\ b # at - 1
      BY <2>1, <2>3, <3>1 DEF Heads
    <3> QED
      BY <3>1, <3>2 DEF Chain, InChain
  <2> QED
    BY <2>2, <2>3
<1>5. ASSUME NEW b \in Live PROVE Chain(b)' = Chain(b)
  <2>1. b \in Blocks
    BY <1>1, <1>5
  <2>2. \A x \in Chain(b) : x # b => kind'[x] = "TAIL"
    BY <1>3, <1>4, <1>5, <2>1, ChainFacts
  <2>3. \A x \in Chain(b) : x + 1 \in Blocks /\ kind[x + 1] # "TAIL" => kind'[x + 1] # "TAIL"
    BY <1>3
  <2> QED
    BY <1>1, <2>1, <2>2, <2>3, ChainKept
<1>6. Live' \subseteq Live
  <2>1. ASSUME NEW b \in Live, NEW w \in Chain(b)' PROVE ptr'[w] = Null \/ ptr'[w] \in Live
    <3>1. w \in Chain(b) /\ w \in Blocks /\ w # at
      BY <1>4, <1>5, <2>1 DEF Chain
    <3> QED
      BY <1>1, <1>3, <3>1 DEF Closed
  <2> QED
    BY <1>1, <2>1, LiveWithin
<1>7. at \notin Live
  BY <1>1, <1>4, ChainFacts
<1>8. Heads' = Heads \ {at} /\ Marked' = Marked
  BY <1>3 DEF Heads, Marked
<1>9. at \notin ftb' /\ ftb' \subseteq ftb
  BY <1>1 DEF Heads
<1>10. ChainInv'
  <2>1. \A x \in Blocks : x > 0 => x - 1 \in Blocks
    BY <1>1 DEF Blocks
  <2>2. ASSUME NEW x \in Blocks, kind'[x] = "TAIL"
        PROVE  x > 0 /\ (kind'[x - 1] # "FREE" \/ x = at + 1)
    <3>1. x # at /\ kind[x] = "TAIL"
      BY <1>3, <2>2
    <3>2. x > 0 /\ kind[x - 1] # "FREE"
      BY <3>1 DEF IInv, ChainInv
    <3>3. CASE x - 1 = at
      BY <1>1, <3>2, <3>3 DEF Blocks
    <3>4. CASE x - 1 # at
      BY <1>3, <2>1, <3>2, <3>4
    <3> QED
      BY <3>3, <3>4
  <2>3. at' > 0 /\ at' - 1 = at
    BY <1>1 DEF Blocks
  <2>4. \A x \in Blocks : kind'[x] = "FREE" => ptr'[x] = Null
    BY <1>3 DEF IInv, ChainInv
  <2> QED
    BY <1>3, <2>2, <2>3, <2>4 DEF ChainInv
<1>11. AllocInv'
  BY <1>1, <1>6, <1>7, <1>8, <1>9 DEF AllocInv
<1>12. RunInv' /\ MarkInv' /\ ExactInv'
  BY DEF RunInv, MarkInv, ExactInv
<1>13. StackInv'
  BY <1>8 DEF IInv, StackInv
<1>14. SweepInv'
  <2>1. \A b \in Live' : b >= at + 1 => kind'[b] = "MARK"
    BY <1>1, <1>3, <1>6 DEF IInv, SweepInv, Blocks
  <2>2. \A b \in Marked' : b >= at + 1
    <3>1. \A b \in Marked : b >= at /\ b # at /\ b \in Int
      BY <1>1, <1>3, <1>8 DEF IInv, SweepInv, Marked, Blocks
    <3> QED
      BY <1>1, <1>8, <3>1 DEF Blocks
  <2>3. at' # 0
    BY <1>1 DEF Blocks
  <2> QED
    BY <2>1, <2>2, <2>3 DEF SweepInv
<1> QED
  BY <1>2, <1>5, <1>10, <1>11, <1>12, <1>13, <1>14 DEF IInv

LEMMA KeepStep ==
    ASSUME IInv, phase = "sweep", at < NBlocks, SweepKeep,
           UNCHANGED <<ftb, lastFree, roots, marker, stackSize>>
    PROVE  IInv' /\ \A b \in Blocks : Chain(b)' = Chain(b)
<1> USE DEF marker
<1>1. /\ TablesOK /\ Live \subseteq Blocks /\ NBlocks \in Nat /\ at \in Blocks
      /\ \A x \in Blocks : x > 0 => x - 1 \in Blocks
  BY LiveFacts, HeapAssumption DEF IInv, TablesOK, Blocks
<1>2. /\ kind' \in [Blocks -> {"FREE", "HEAD", "TAIL", "MARK"}]
      /\ \A x \in Blocks : kind'[x] = kind[x] \/ (x = at /\ kind[x] = "MARK" /\ kind'[x] = "HEAD")
      /\ kind'[at] # "MARK"
  BY <1>1 DEF SweepKeep, TablesOK
<1>3. /\ ptr' = ptr /\ phase' = phase /\ at' = at + 1
      /\ freeTail' \in BOOLEAN /\ (freeTail' <=> freeTail /\ kind[at] # "MARK")
      /\ kind[at] # "HEAD" /\ (kind[at] = "TAIL" => ~freeTail)
  BY <1>1 DEF SweepKeep, TablesOK
<1>4. TablesOK'
  BY <1>1, <1>2, <1>3 DEF TablesOK, Blocks
<1>5. \A x \in Blocks : kind'[x] = "TAIL" <=> kind[x] = "TAIL"
  BY <1>2
<1>6. Live' = Live /\ \A b \in Blocks : Chain(b)' = Chain(b)
  BY <1>3, <1>5, SameLive, SameTails
<1>7. Heads' = Heads /\ Marked' = Marked \ {at}
  BY <1>1, <1>2 DEF Heads, Marked
<1>8. ChainInv'
  <2>1. \A x \in Blocks : kind'[x] = "FREE" <=> kind[x] = "FREE"
    BY <1>2
  <2>2. ASSUME NEW x \in Blocks, kind'[x] = "TAIL" PROVE x > 0 /\ kind'[x - 1] # "FREE"
    <3>1. x > 0 /\ kind[x - 1] # "FREE"
      BY <1>3, <1>5, <2>2 DEF IInv, ChainInv
    <3> QED
      BY <1>1, <2>1, <3>1
  <2>3. ASSUME freeTail' PROVE at' > 0 /\ kind'[at' - 1] = "FREE"
    <3>1. kind[at] = "FREE"
      BY <1>1, <1>3, <2>3 DEF TablesOK
    <3>2. at' > 0 /\ at' - 1 = at
      BY <1>1, <1>3 DEF Blocks
    <3> QED
      BY <1>1, <2>1, <3>1, <3>2
  <2>4. \A x \in Blocks : kind'[x] = "FREE" => ptr'[x] = Null
    BY <1>3, <2>1 DEF IInv, ChainInv
  <2> QED
    BY <1>3, <2>2, <2>3, <2>4 DEF ChainInv
<1>9. AllocInv'
  BY <1>6, <1>7 DEF IInv, AllocInv
<1>10. RunInv' /\ MarkInv' /\ ExactInv'
  BY <1>3 DEF RunInv, MarkInv, ExactInv
<1>11. StackInv'
  BY DEF IInv, StackInv
<1>12. SweepInv'
  <2>1. \A b \in Live' : b >= at + 1 => kind'[b] = "MARK"
    BY <1>1, <1>2, <1>6 DEF IInv, SweepInv, Blocks
  <2>2. \A b \in Marked' : b >= at + 1
    <3>1. \A b \in Marked' : b >= at /\ b # at /\ b \in Int
      BY <1>1, <1>7 DEF IInv, SweepInv, Marked, Blocks
    <3> QED
      BY <1>1, <3>1 DEF Blocks
  <2>3. at' # 0
    BY <1>1, <1>3 DEF Blocks
  <2> QED
    BY <1>3, <2>1, <2>2, <2>3 DEF SweepInv
<1> QED
  BY <1>4, <1>6, <1>8, <1>9, <1>10, <1>11, <1>12 DEF IInv

LEMMA FinaliseStep ==
    ASSUME IInv, phase = "sweep", at < NBlocks, SweepFinalise,
           UNCHANGED <<ftb, lastFree, roots, marker, stackSize>>
    PROVE  IInv' /\ \A b \in Blocks : Chain(b)' = Chain(b)
<1> USE DEF marker, SweepFinalise
<1>1. TablesOK /\ at \in Blocks
  BY HeapAssumption DEF IInv, TablesOK, Blocks
<1>2. TablesOK'
  BY <1>1 DEF TablesOK
<1>3. Live' = Live /\ Heads' = Heads /\ Marked' = Marked /\ \A b \in Blocks : Chain(b)' = Chain(b)
  BY SameLive, SameTails DEF Heads, Marked
<1>4. ChainInv' /\ AllocInv'
  BY <1>3 DEF IInv, ChainInv, AllocInv
<1>5. RunInv' /\ MarkInv' /\ ExactInv'
  BY DEF RunInv, MarkInv, ExactInv
<1>6. StackInv' /\ SweepInv'
  BY <1>1, <1>3 DEF IInv, StackInv, SweepInv
<1> QED
  BY <1>2, <1>3, <1>4, <1>5, <1>6 DEF IInv

LEMMA SweepStep ==
    ASSUME IInv, Sweep, UNCHANGED stackSize
    PROVE  IInv' /\ \A b \in Live : Chain(b)' = Chain(b)
<1>1. TablesOK /\ Live \subseteq Blocks /\ at \in Blocks
  BY LiveFacts, HeapAssumption DEF IInv, TablesOK, Blocks, Sweep
<1>2. CASE SweepFree
  BY <1>1, <1>2, FreeStep DEF Sweep, SweepFree
<1>3. CASE SweepKeep
  BY <1>1, <1>3, KeepStep DEF Sweep
<1>4. CASE SweepFinalise
  BY <1>1, <1>4, FinaliseStep DEF Sweep
<1> QED
  BY <1>2, <1>3, <1>4 DEF Sweep

LEMMA FinaliserReturnsStep ==
    ASSUME IInv, FinaliserReturns, UNCHANGED stackSize
    PROVE  IInv' /\ \A b \in Live : Chain(b)' = Chain(b)
<1>1. at \in Blocks /\ kind[at] = "HEAD"
  BY DEF IInv, SweepInv, FinaliserReturns
<1> QED
  BY <1>1, FreeStep DEF FinaliserReturns

LEMMA SweepDoneStep ==
    ASSUME IInv, outer = <<>>, SweepDone, UNCHANGED stackSize
    PROVE  IInv' /\ \A b \in Blocks : Chain(b)' = Chain(b)
<1> USE DEF SweepDone, marker
<1>1. TablesOK /\ NBlocks \in Nat /\ BlocksPerAtb \in Nat
  BY HeapAssumption DEF IInv
<1>2. TablesOK'
  <2>1. 0 \in 0 .. NBlocks
    BY <1>1
  <2>2. at' \in 0 .. NBlocks /\ lastFree' \in 0 .. NBlocks
    BY <2>1
  <2>3. phase' = "run" /\ freeTail' = FALSE
    OBVIOUS
  <2>4. UNCHANGED <<kind, ftb, ptr, roots, todo, word, stack, overflow, stackSize>>
    OBVIOUS
  <2> HIDE DEF SweepDone
  <2> QED
    BY <1>1, <2>2, <2>3, <2>4 DEF TablesOK
<1>3. Live' = Live /\ Heads' = Heads /\ Marked' = Marked /\ \A b \in Blocks : Chain(b)' = Chain(b)
  BY SameLive, SameTails DEF Heads, Marked
<1>4. Marked = {}
  BY <1>1 DEF IInv, SweepInv, Marked, Blocks
<1>5. ChainInv'
  <2>1. at \notin Blocks
    BY <1>1 DEF Blocks
  <2> QED
    BY <2>1 DEF IInv, ChainInv
<1>6. RunInv'
  <2>1. \A x \in Blocks : ~(x < 0 * BlocksPerAtb)
    BY <1>1 DEF Blocks
  <2> QED
    BY <1>3, <1>4, <2>1 DEF RunInv
<1>7. AllocInv' /\ MarkInv' /\ ExactInv'
  BY <1>3 DEF IInv, AllocInv, MarkInv, ExactInv
<1>8. StackInv' /\ SweepInv'
  BY <1>3 DEF IInv, StackInv, SweepInv
<1> QED
  BY <1>2, <1>3, <1>5, <1>6, <1>7, <1>8 DEF IInv

-----------------------------------------------------------------------------
(* gc_alloc, gc_free and gc_realloc                                         *)

\* Rounding down to the first block of a byte of the table.
LEMMA DivFacts ==
    ASSUME NEW x \in Nat
    PROVE  /\ x \div BlocksPerAtb \in Nat
           /\ (x \div BlocksPerAtb) * BlocksPerAtb <= x
           /\ x \div BlocksPerAtb <= x
<1>1. BlocksPerAtb \in Nat /\ BlocksPerAtb > 0
  BY HeapAssumption
<1> QED
  BY <1>1

\* Outside of a collection it is enough to look at the tables.
LEMMA RunStep ==
    ASSUME IInv, phase = "run", TablesOK', ChainInv', AllocInv', RunInv',
           UNCHANGED <<phase, marker, at>>
    PROVE  IInv'
<1> USE DEF marker
<1>1. word = Null /\ stack = <<>> /\ at = 0
  BY DEF IInv, StackInv, SweepInv
<1>2. MarkInv' /\ ExactInv' /\ StackInv' /\ SweepInv'
  BY <1>1 DEF MarkInv, ExactInv, StackInv, SweepInv
<1> QED
  BY <1>2 DEF IInv

\* gc_free lowers the hint to the byte of the freed block.
LEMMA HintFacts ==
    ASSUME NEW b \in Nat, NEW hint \in 0 .. NBlocks
    PROVE  /\ LastFreeDown(b, hint) \in 0 .. NBlocks
           /\ LastFreeDown(b, hint) * BlocksPerAtb <= b
           /\ LastFreeDown(b, hint) * BlocksPerAtb <= hint * BlocksPerAtb
<1>1. BlocksPerAtb \in Nat /\ BlocksPerAtb > 0 /\ NBlocks \in Nat /\ hint \in Nat
  BY HeapAssumption
<1>2. PICK d \in Nat : d = b \div BlocksPerAtb /\ d * BlocksPerAtb <= b
  BY DivFacts
<1>3. \A i, j \in Nat : i <= j => i * BlocksPerAtb <= j * BlocksPerAtb
  BY <1>1
<1>4. CASE d < hint
  BY <1>1, <1>2, <1>3, <1>4 DEF LastFreeDown
<1>5. CASE ~(d < hint)
  <2>1. hint * BlocksPerAtb <= d * BlocksPerAtb
    BY <1>1, <1>2, <1>3, <1>5
  <2>2. hint * BlocksPerAtb \in Nat /\ d * BlocksPerAtb \in Nat
    BY <1>1
  <2> QED
    BY <1>1, <1>2, <1>5, <2>1, <2>2 DEF LastFreeDown
<1> QED
  BY <1>4, <1>5

\* The blocks of R are given back: a whole object that nothing else refers to, or
\* the end of one.  S is what can still be reached.
LEMMA ReleaseStep ==
    ASSUME IInv, phase = "run",
           NEW R \in SUBSET Blocks, NEW S \in SUBSET Live,
           kind' = [x \in Blocks |-> IF x \in R THEN "FREE" ELSE kind[x]],
           ptr' = Cleared(R),
           roots' \subseteq S,
           \A c \in S : c \notin R /\ \A w \in Chain(c) \ R : ptr[w] = Null \/ ptr[w] \in S,
           \A x \in Blocks : x > 0 /\ x - 1 \in R /\ kind[x] = "TAIL" => x \in R,
           ftb' \subseteq ftb \ R,
           lastFree' \in 0 .. NBlocks,
           \A x \in Blocks : x < lastFree' * BlocksPerAtb
                => x \notin R /\ x < lastFree * BlocksPerAtb,
           UNCHANGED <<phase, marker, at, freeTail, stackSize>>
    PROVE  IInv'
<1>1. /\ TablesOK /\ Live \subseteq Heads /\ Live \subseteq Blocks /\ ftb \subseteq Heads
      /\ \A x \in Blocks : x > 0 => x - 1 \in Blocks
      /\ ~freeTail
  BY LiveFacts, HeapAssumption DEF IInv, AllocInv, ChainInv, Blocks
<1>2. TablesOK'
  <2>1. /\ kind' \in [Blocks -> {"FREE", "HEAD", "TAIL", "MARK"}]
        /\ ptr' \in [Blocks -> Blocks \cup {Null}]
        /\ roots' \subseteq Blocks /\ ftb' \subseteq Blocks
    BY <1>1 DEF TablesOK, Cleared
  <2> QED
    BY <1>1, <2>1 DEF TablesOK, marker
<1>3. \A x \in Blocks : /\ x \in R => kind'[x] = "FREE" /\ ptr'[x] = Null
                        /\ x \notin R => kind'[x] = kind[x] /\ ptr'[x] = ptr[x]
  BY DEF Cleared
<1>4. Live' \subseteq S
  <2>1. ASSUME NEW c \in S, NEW w \in Chain(c)' PROVE ptr'[w] = Null \/ ptr'[w] \in S
    <3>1. c \in Blocks /\ c \notin R /\ w \in Blocks
      BY <1>1 DEF Chain
    <3>2. c <= w /\ \A x \in c + 1 .. w : kind'[x] = "TAIL"
      BY <2>1 DEF Chain, InChain
    <3>3. \A x \in c + 1 .. w : x \notin R /\ kind[x] = "TAIL"
      <4> TAKE x \in c + 1 .. w
      <4>1. x \in Blocks
        BY <3>1, HeapAssumption DEF Blocks
      <4>2. kind'[x] = "TAIL"
        BY <3>2
      <4> QED
        BY <1>3, <4>1, <4>2
    <3>4. w \in Chain(c) /\ w \notin R
      BY <3>1, <3>2, <3>3, HeapAssumption DEF Chain, InChain, Blocks
    <3> QED
      BY <1>3, <3>1, <3>4
  <2> QED
    BY <1>1, <2>1, LiveWithin
<1>5. \A b \in Heads \ R : b \in Heads'
  BY <1>3 DEF Heads
<1>6. AllocInv'
  BY <1>1, <1>4, <1>5 DEF AllocInv
<1>7. ChainInv'
  <2>1. ASSUME NEW x \in Blocks, kind'[x] = "TAIL" PROVE x > 0 /\ kind'[x - 1] # "FREE"
    <3>1. x \notin R /\ kind[x] = "TAIL"
      BY <1>3, <2>1
    <3>2. x > 0 /\ x - 1 \in Blocks /\ kind[x - 1] # "FREE" /\ x - 1 \notin R
      BY <1>1, <3>1 DEF IInv, ChainInv
    <3> QED
      BY <1>3, <3>2
  <2>2. \A x \in Blocks : kind'[x] = "FREE" => ptr'[x] = Null
    BY <1>3 DEF IInv, ChainInv
  <2> QED
    BY <1>1, <2>1, <2>2 DEF ChainInv
<1>8. RunInv'
  BY <1>3 DEF IInv, RunInv, Marked
<1> QED
  BY <1>2, <1>6, <1>7, <1>8, RunStep

\* The blocks gc_free and gc_realloc give back end where a chain ends.
LEMMA ChainNext ==
    ASSUME NEW b \in Blocks, NEW x \in Blocks, x - 1 \in Chain(b), kind[x] = "TAIL"
    PROVE  x \in Chain(b)
BY HeapAssumption DEF Chain, InChain, Blocks

LEMMA FreeObjectStep ==
    ASSUME IInv, NEW b \in Blocks, Free(b), UNCHANGED stackSize
    PROVE  IInv'
<1>1. /\ TablesOK /\ Live \subseteq Heads /\ roots \subseteq Live /\ Closed(Live) /\ b \in Live
      /\ Live \subseteq Blocks /\ ftb \subseteq Heads
  BY LiveFacts DEF IInv, AllocInv, Free, Unshared
<1> DEFINE R == Chain(b)
           S == Live \ {b}
<1>2. R \in SUBSET Blocks /\ S \in SUBSET Live
  BY DEF Chain
<1>3. kind' = [x \in Blocks |-> IF x \in R THEN "FREE" ELSE kind[x]] /\ ptr' = Cleared(R)
  BY DEF Free, Freed
<1>4. roots' \subseteq S
  BY <1>1 DEF Free
<1>5. \A c \in S : c \notin R /\ \A w \in Chain(c) \ R : ptr[w] = Null \/ ptr[w] \in S
  <2> TAKE c \in S
  <2>1. c \notin R
    BY <1>1, ChainsDisjoint, ChainFacts
  <2>2. \A w \in Chain(c) : (ptr[w] = Null \/ ptr[w] \in Live) /\ ptr[w] # b
    BY <1>1 DEF Closed, Free, Unshared
  <2> QED
    BY <2>1, <2>2
<1>6. \A x \in Blocks : x > 0 /\ x - 1 \in R /\ kind[x] = "TAIL" => x \in R
  BY ChainNext
<1>7. ftb' \subseteq ftb \ R
  <2>1. ftb' \subseteq ftb \ {b}
    BY DEF Free, FtbFreed
  <2>2. \A x \in R : x = b \/ x \notin Heads
    BY ChainFacts DEF Heads
  <2> QED
    BY <1>1, <2>1, <2>2
<1>8. /\ lastFree' \in 0 .. NBlocks
      /\ \A x \in Blocks : x < lastFree' * BlocksPerAtb
            => x \notin R /\ x < lastFree * BlocksPerAtb
  <2>1. b \in Nat /\ lastFree \in 0 .. NBlocks /\ lastFree' = LastFreeDown(b, lastFree)
    BY <1>1, HeapAssumption DEF Free, Blocks, TablesOK
  <2>2. /\ lastFree' \in 0 .. NBlocks /\ lastFree' * BlocksPerAtb <= b
        /\ lastFree' * BlocksPerAtb <= lastFree * BlocksPerAtb
    BY <2>1, HintFacts
  <2>3. lastFree' * BlocksPerAtb \in Nat /\ lastFree * BlocksPerAtb \in Nat
    BY <2>1, <2>2, HeapAssumption
  <2>4. \A x \in R : x >= b
    BY ChainFacts
  <2> QED
    BY <2>1, <2>2, <2>3, <2>4, HeapAssumption DEF Blocks
<1> HIDE DEF R, S
<1> QED
  BY <1>2, <1>3, <1>4, <1>5, <1>6, <1>7, <1>8, ReleaseStep DEF Free

LEMMA ShrinkStep ==
    ASSUME IInv, NEW b \in Blocks, NEW n \in 1 .. MaxSize, Shrink(b, n), UNCHANGED stackSize
    PROVE  IInv'
<1>1. /\ TablesOK /\ Live \subseteq Heads /\ roots \subseteq Live /\ Closed(Live) /\ b \in Live
      /\ Live \subseteq Blocks /\ ftb \subseteq Heads /\ n \in Nat /\ n > 0
  BY LiveFacts, HeapAssumption DEF IInv, AllocInv, Shrink
<1> DEFINE R == {x \in Chain(b) : x >= b + n}
<1>2. R \in SUBSET Blocks /\ Live \in SUBSET Live
  BY DEF Chain
<1>3. kind' = [x \in Blocks |-> IF x \in R THEN "FREE" ELSE kind[x]] /\ ptr' = Cleared(R)
  BY DEF Shrink
<1>4. roots' \subseteq Live
  BY <1>1 DEF Shrink
<1>5. \A x \in R : x \notin Heads /\ x >= b + n
  <2>1. \A x \in R : x # b /\ x \in Chain(b)
    BY <1>1, HeapAssumption DEF Blocks
  <2> QED
    BY <2>1, ChainFacts DEF Heads
<1>6. \A c \in Live : c \notin R /\ \A w \in Chain(c) \ R : ptr[w] = Null \/ ptr[w] \in Live
  BY <1>1, <1>5 DEF Closed
<1>7. \A x \in Blocks : x > 0 /\ x - 1 \in R /\ kind[x] = "TAIL" => x \in R
  BY <1>1, ChainNext, HeapAssumption DEF Blocks
<1>8. ftb' \subseteq ftb \ R
  BY <1>1, <1>5 DEF Shrink
<1>9. /\ lastFree' \in 0 .. NBlocks
      /\ \A x \in Blocks : x < lastFree' * BlocksPerAtb
            => x \notin R /\ x < lastFree * BlocksPerAtb
  <2>1. b + n \in Nat /\ lastFree \in 0 .. NBlocks /\ lastFree' = LastFreeDown(b + n, lastFree)
    BY <1>1, HeapAssumption DEF Shrink, Blocks, TablesOK
  <2>2. /\ lastFree' \in 0 .. NBlocks /\ lastFree' * BlocksPerAtb <= b + n
        /\ lastFree' * BlocksPerAtb <= lastFree * BlocksPerAtb
    BY <2>1, HintFacts
  <2>3. lastFree' * BlocksPerAtb \in Nat /\ lastFree * BlocksPerAtb \in Nat
    BY <2>1, <2>2, HeapAssumption
  <2> QED
    BY <1>5, <2>1, <2>2, <2>3, HeapAssumption DEF Blocks
<1> HIDE DEF R
<1> QED
  BY <1>2, <1>3, <1>4, <1>6, <1>7, <1>8, <1>9, ReleaseStep DEF Shrink

\* The number of blocks of a chain.
LEMMA ChainLength ==
    ASSUME TablesOK, NEW b \in Blocks
    PROVE  /\ Cardinality(Chain(b)) \in Nat \ {0}
           /\ Chain(b) = b .. b + Cardinality(Chain(b)) - 1
           /\ \A x \in Blocks : x = b + Cardinality(Chain(b)) => kind[x] # "TAIL"
<1>1. PICK e \in Blocks : /\ b <= e /\ Chain(b) = b .. e
                          /\ e + 1 \in Blocks => kind[e + 1] # "TAIL"
  BY ChainEnd
<1>2. e \in Int /\ b \in Int
  BY HeapAssumption DEF Blocks
<1>3. Cardinality(b .. e) = e - b + 1
  BY <1>1, <1>2, FS_Interval
<1> QED
  BY <1>1, <1>2, <1>3

\* gc_realloc in place takes free blocks behind the chain.
LEMMA GrowStep ==
    ASSUME IInv, NEW b \in Blocks, NEW n \in 1 .. MaxSize, Grow(b, n), UNCHANGED stackSize
    PROVE  IInv'
<1>1. /\ TablesOK /\ Live \subseteq Heads /\ roots \subseteq Live /\ Closed(Live) /\ b \in Live
      /\ Live \subseteq Blocks /\ ftb \subseteq Heads /\ n \in Nat /\ b \in Nat /\ NBlocks \in Nat
      /\ ~freeTail /\ \A x \in Blocks : x > 0 => x - 1 \in Blocks
  BY LiveFacts, HeapAssumption DEF IInv, AllocInv, ChainInv, Grow, Blocks
<1> DEFINE k == Cardinality(Chain(b))
           new == (b .. b + n - 1) \ Chain(b)
<1>2. /\ k \in Nat \ {0} /\ Chain(b) = b .. b + k - 1 /\ n > k /\ b + n <= NBlocks
      /\ \A x \in b + k .. b + n - 1 : kind[x] = "FREE"
  BY <1>1, ChainLength DEF Grow, MustMove
<1>3. new = b + k .. b + n - 1 /\ new \subseteq Blocks
  <2> HIDE DEF k
  <2> QED
    BY <1>1, <1>2 DEF Blocks
<1>4. \A x \in Blocks :
         /\ x \in new => kind[x] = "FREE" /\ kind'[x] = "TAIL" /\ ptr'[x] = Null
         /\ x \notin new => kind'[x] = kind[x] /\ ptr'[x] = ptr[x]
  BY <1>2, <1>3 DEF Grow, Cleared
<1>5. TablesOK'
  <2>1. /\ kind' = [x \in Blocks |-> IF x \in new THEN "TAIL" ELSE kind[x]]
        /\ ptr' = Cleared(new)
        /\ UNCHANGED <<ftb, lastFree, roots, phase, todo, word, stack, overflow, at, freeTail, stackSize>>
    BY DEF Grow, marker
  <2> HIDE DEF new
  <2>2. kind' \in [Blocks -> {"FREE", "HEAD", "TAIL", "MARK"}]
    BY <1>1, <2>1 DEF TablesOK
  <2>3. ptr' \in [Blocks -> Blocks \cup {Null}]
    BY <1>1, <2>1 DEF TablesOK, Cleared
  <2> QED
    BY <1>1, <2>1, <2>2, <2>3 DEF TablesOK
<1> HIDE DEF new, k
<1>6. ASSUME NEW c \in Live, c # b PROVE Chain(c)' = Chain(c)
  <2>1. c \in Blocks
    BY <1>1
  <2>2. \A x \in Chain(c) : x # c => kind'[x] = "TAIL"
    BY <1>4, <2>1, ChainFacts
  <2>3. ASSUME NEW x \in Chain(c), x + 1 \in Blocks, kind[x + 1] # "TAIL" PROVE kind'[x + 1] # "TAIL"
    <3>1. x \in Blocks /\ x \in Int /\ (x = c \/ kind[x] = "TAIL") /\ kind[c] # "FREE"
      BY <1>1, <1>6, <2>1, ChainFacts, HeapAssumption DEF Blocks, Heads
    <3>2. kind[x] # "FREE"
      BY <3>1
    <3>3. x \notin Chain(b)
      BY <1>1, <1>6, ChainsDisjoint
    <3>4. x + 1 \notin new
      BY <1>1, <1>2, <1>3, <1>4, <3>1, <3>2, <3>3
    <3> QED
      BY <1>4, <2>3, <3>4
  <2> QED
    BY <1>1, <2>1, <2>2, <2>3, ChainKept
<1>7. Live' \subseteq Live
  <2>1. ASSUME NEW c \in Live, NEW w \in Chain(c)' PROVE ptr'[w] = Null \/ ptr'[w] \in Live
    <3>1. c \in Blocks /\ w \in Blocks
      BY <1>1 DEF Chain
    <3>2. w \in new \/ w \in Chain(c)
      <4>1. CASE c # b
        BY <1>6, <4>1
      <4>2. CASE c = b /\ w \notin new
        <5>1. b <= w /\ \A x \in b + 1 .. w : kind'[x] = "TAIL"
          BY <2>1, <4>2 DEF Chain, InChain
        <5>2. CASE w >= b + n
          <6>1. b + n \in Blocks /\ b + n \in b + 1 .. w /\ b + n \notin new /\ b + n - 1 \in new /\ b + n - 1 \in Blocks
            BY <1>1, <1>2, <1>3, <3>1, <5>2 DEF Blocks
          <6>2. kind[b + n] = "TAIL" /\ kind[b + n - 1] = "FREE"
            BY <1>4, <5>1, <6>1
          <6> QED
            BY <1>1, <6>1, <6>2 DEF IInv, ChainInv
        <5>3. CASE w < b + n
          BY <1>1, <1>2, <1>3, <3>1, <4>2, <5>1, <5>3 DEF Blocks
        <5> QED
          BY <1>1, <3>1, <5>2, <5>3 DEF Blocks
      <4> QED
        BY <4>1, <4>2
    <3> QED
      BY <1>1, <1>4, <3>1, <3>2 DEF Closed
  <2>2. roots' \subseteq Live
    BY <1>1 DEF Grow
  <2> QED
    BY <1>1, <2>1, <2>2, LiveWithin
<1>8. Heads' = Heads /\ Marked' = Marked
  BY <1>4 DEF Heads, Marked
<1>9. AllocInv'
  BY <1>1, <1>7, <1>8 DEF AllocInv, Grow
<1>10. ChainInv'
  <2>1. \A x \in Blocks : kind'[x] = "FREE" => kind[x] = "FREE" /\ ptr'[x] = Null
    BY <1>4 DEF IInv, ChainInv
  <2>2. ASSUME NEW x \in Blocks, kind'[x] = "TAIL" PROVE x > 0 /\ kind'[x - 1] # "FREE"
    <3>1. CASE x \in new
      <4>1. x > 0 /\ x - 1 \in Blocks /\ (x - 1 \in new \/ x - 1 \in Chain(b))
        BY <1>1, <1>2, <1>3, <3>1 DEF Blocks
      <4>2. \A y \in Chain(b) : kind[y] # "FREE"
        BY <1>1, ChainFacts DEF Heads
      <4> QED
        BY <1>4, <2>1, <4>1, <4>2
    <3>2. CASE x \notin new
      <4>1. x > 0 /\ kind[x - 1] # "FREE" /\ x - 1 \in Blocks
        BY <1>1, <1>4, <2>2, <3>2 DEF IInv, ChainInv
      <4> QED
        BY <2>1, <4>1
    <3> QED
      BY <3>1, <3>2
  <2>3. ~freeTail'
    BY <1>1 DEF Grow
  <2> QED
    BY <2>1, <2>2, <2>3 DEF ChainInv
<1>11. RunInv'
  <2>1. lastFree' = lastFree /\ phase = "run"
    BY DEF Grow
  <2> QED
    BY <1>4, <1>8, <2>1 DEF IInv, RunInv
<1> QED
  BY <1>5, <1>9, <1>10, <1>11, RunStep DEF Grow

\* What gc_alloc, and the move at the end of gc_realloc, do to the tables: the free
\* blocks of new become a chain, the blocks of F are given back.
AllocEffect(r, s, new, F) ==
    /\ s + r.size <= NBlocks /\ new \subseteq Blocks /\ F \subseteq Blocks
    /\ r.size \in Nat \ {0} /\ s \in new
    /\ \A x \in new : kind[x] = "FREE"
    /\ \A x \in F : kind[x] # "FREE" /\ (x = r.from \/ kind[x] = "TAIL")
    /\ r.from # Null => r.from \in Live /\ \A c \in Live : \A w \in Chain(c) : ptr[w] # r.from
    /\ kind'[s] = "HEAD" /\ \A x \in new : x # s => kind'[x] = "TAIL"
    /\ \A x \in new : ptr'[x] = Null \/ \E y \in F : ptr'[x] = ptr[y]
    /\ \A x \in F : kind'[x] = "FREE" /\ ptr'[x] = Null
    /\ \A x \in Blocks : x \notin new /\ x \notin F => kind'[x] = kind[x] /\ ptr'[x] = ptr[x]

LEMMA AllocFacts ==
    ASSUME IInv, NEW r \in Requests, NEW s \in Blocks, Alloc(r), Allocate(r, s),
           NEW new, new = s .. s + r.size - 1,
           NEW F, F = IF r.from # Null THEN Chain(r.from) ELSE {}
    PROVE  AllocEffect(r, s, new, F)
<1>1. /\ TablesOK /\ Live \subseteq Heads /\ roots \subseteq Live /\ Live \subseteq Blocks
      /\ NBlocks \in Nat
  BY LiveFacts, HeapAssumption DEF IInv, AllocInv
<1>2. r.size \in Nat /\ r.size > 0 /\ r.from \in Blocks \cup {Null}
  BY HeapAssumption DEF Requests
<1>3. r.from # Null => Unshared(r.from)
  BY DEF Alloc, MayRequest
<1>4. r.from # Null => r.from \in Live /\ \A c \in Live : \A w \in Chain(c) : ptr[w] # r.from
  BY <1>1, <1>3 DEF Unshared
<1>5. FreeRun(s, r.size)
  BY DEF Allocate, Fits
<1>6. /\ s + r.size <= NBlocks /\ new \subseteq Blocks /\ s \in new
      /\ \A x \in new : kind[x] = "FREE"
  BY <1>1, <1>2, <1>5 DEF FreeRun, Blocks
<1>7. F \subseteq Blocks
  BY DEF Chain
<1>8. \A x \in F : kind[x] # "FREE" /\ (x = r.from \/ kind[x] = "TAIL")
  <2> TAKE x \in F
  <2>1. r.from # Null /\ x \in Chain(r.from) /\ r.from \in Blocks /\ kind[r.from] # "FREE"
    BY <1>1, <1>4 DEF Heads
  <2> QED
    BY <2>1, ChainFacts
<1>9. \A x \in new : x \notin F
  BY <1>6, <1>8
<1> DEFINE copied == IF r.from # Null THEN {w \in new : r.from + (w - s) \in Chain(r.from)} ELSE {}
<1>10. kind' = [x \in Blocks |->
                   CASE x = s -> "HEAD"
                     [] x \in new \ {s} -> "TAIL"
                     [] r.from # Null /\ x \in Chain(r.from) -> "FREE"
                     [] OTHER -> kind[x]]
  BY DEF Allocate
<1>11. ptr' = [x \in Blocks |->
                   CASE x \in copied -> ptr[r.from + (x - s)]
                     [] r.from # Null /\ x \in Chain(r.from) -> Null
                     [] OTHER -> ptr[x]]
  BY DEF Allocate
<1>12. \A x \in Blocks : r.from # Null /\ x \in Chain(r.from) <=> x \in F
  OBVIOUS
<1>13. \A x \in copied : x \in new /\ r.from + (x - s) \in F
  OBVIOUS
<1> HIDE DEF copied
<1>14. kind'[s] = "HEAD" /\ \A x \in new : x # s => kind'[x] = "TAIL"
  <2>1. kind'[s] = "HEAD"
    BY <1>6, <1>9, <1>10, <1>12
  <2>2. ASSUME NEW x \in new, x # s PROVE kind'[x] = "TAIL"
    <3>1. x \in Blocks /\ x \in new \ {s} /\ x \notin F
      BY <1>6, <1>9, <2>2
    <3> QED
      BY <1>10, <1>12, <2>2, <3>1
  <2> QED
    BY <2>1, <2>2
<1>15. \A x \in new : ptr'[x] = Null \/ \E y \in F : ptr'[x] = ptr[y]
  <2> TAKE x \in new
  <2>1. x \in Blocks /\ x \notin F /\ ptr[x] = Null
    BY <1>6, <1>9 DEF IInv, ChainInv
  <2>2. CASE x \in copied
    BY <1>11, <1>13, <2>1, <2>2
  <2>3. CASE x \notin copied
    BY <1>11, <1>12, <2>1, <2>3
  <2> QED
    BY <2>2, <2>3
<1>16. \A x \in F : kind'[x] = "FREE" /\ ptr'[x] = Null
  <2> TAKE x \in F
  <2>1. x \in Blocks /\ x \notin new /\ x # s /\ x \notin copied /\ r.from # Null /\ x \in Chain(r.from)
    BY <1>6, <1>7, <1>9, <1>12, <1>13
  <2> QED
    BY <1>10, <1>11, <2>1
<1>17. \A x \in Blocks : x \notin new /\ x \notin F => kind'[x] = kind[x] /\ ptr'[x] = ptr[x]
  BY <1>6, <1>10, <1>11, <1>12, <1>13
<1> QED
  BY <1>2, <1>4, <1>6, <1>7, <1>8, <1>14, <1>15, <1>16, <1>17 DEF AllocEffect

\* gc_alloc puts the hint behind the one block it found: everything before is in
\* use, since the search takes the first place.
LEMMA AllocHint ==
    ASSUME IInv, phase = "run", NEW n \in Nat, NEW s \in Blocks, NEW hint,
           hint = IF n = 1 THEN (s + 1) \div BlocksPerAtb ELSE lastFree,
           s \in Fits(n), \A t \in Fits(n) : s <= t
    PROVE  /\ hint \in 0 .. NBlocks
           /\ \A x \in Blocks : x < hint * BlocksPerAtb => kind[x] # "FREE" \/ x = s
<1>1. TablesOK /\ NBlocks \in Nat /\ BlocksPerAtb \in Nat
  BY HeapAssumption DEF IInv
<1>2. \A x \in Blocks : x < lastFree * BlocksPerAtb => kind[x] # "FREE"
  BY DEF IInv, RunInv
<1>3. CASE n # 1
  BY <1>1, <1>2, <1>3 DEF TablesOK
<1>4. CASE n = 1
  <2>1. s + 1 \in Nat /\ s + 1 <= NBlocks
    BY <1>1 DEF Blocks
  <2>2. hint \in Nat /\ hint * BlocksPerAtb <= s + 1 /\ hint <= s + 1
    BY <1>4, <2>1, DivFacts
  <2>3. hint * BlocksPerAtb \in Nat /\ lastFree * BlocksPerAtb \in Nat
    BY <1>1, <2>2 DEF TablesOK
  <2>4. ASSUME NEW x \in Blocks, x < hint * BlocksPerAtb, kind[x] = "FREE", x # s PROVE FALSE
    <3>1. x < s /\ ~(x < lastFree * BlocksPerAtb)
      BY <1>1, <1>2, <2>1, <2>2, <2>3, <2>4 DEF Blocks
    <3>2. x + 1 <= NBlocks /\ x .. x + 1 - 1 = {x}
      BY <1>1 DEF Blocks
    <3>3. FreeRun(x, 1)
      BY <2>4, <3>2 DEF FreeRun
    <3>4. lastFree * BlocksPerAtb <= x
      BY <1>1, <2>3, <3>1 DEF Blocks
    <3>5. x \in Fits(n)
      BY <1>4, <3>3, <3>4 DEF Fits
    <3> QED
      BY <1>1, <3>1, <3>5 DEF Blocks
  <2> QED
    BY <1>1, <2>1, <2>2, <2>4
<1> QED
  BY <1>3, <1>4

LEMMA AllocStep ==
    ASSUME IInv, NEW r \in Requests, Alloc(r), UNCHANGED stackSize
    PROVE  IInv'
<1>1. /\ TablesOK /\ Live \subseteq Heads /\ roots \subseteq Live /\ Closed(Live) /\ Live \subseteq Blocks
      /\ ftb \subseteq Heads /\ NBlocks \in Nat /\ ~freeTail /\ phase = "run" /\ Marked = {}
      /\ \A x \in Blocks : x \in Nat /\ (x > 0 => x - 1 \in Blocks)
  BY LiveFacts, HeapAssumption DEF IInv, AllocInv, ChainInv, RunInv, Alloc, Blocks
<1>2. PICK s \in Blocks : Allocate(r, s)
  BY DEF Alloc
<1>3. PICK new : new = s .. s + r.size - 1
  OBVIOUS
<1>4. PICK F : F = IF r.from # Null THEN Chain(r.from) ELSE {}
  OBVIOUS
<1>0. AllocEffect(r, s, new, F)
  BY <1>2, <1>3, <1>4, AllocFacts
<1>5. /\ s + r.size <= NBlocks /\ new \subseteq Blocks /\ F \subseteq Blocks
      /\ r.size \in Nat \ {0} /\ s \in new
      /\ \A x \in new : kind[x] = "FREE"
      /\ \A x \in F : kind[x] # "FREE" /\ (x = r.from \/ kind[x] = "TAIL")
  BY <1>0 DEF AllocEffect
<1>6. r.from # Null => r.from \in Live /\ \A c \in Live : \A w \in Chain(c) : ptr[w] # r.from
  BY <1>0 DEF AllocEffect
<1>7. /\ kind'[s] = "HEAD" /\ \A x \in new : x # s => kind'[x] = "TAIL"
      /\ \A x \in new : ptr'[x] = Null \/ \E y \in F : ptr'[x] = ptr[y]
      /\ \A x \in F : kind'[x] = "FREE" /\ ptr'[x] = Null
      /\ \A x \in Blocks : x \notin new /\ x \notin F => kind'[x] = kind[x] /\ ptr'[x] = ptr[x]
  BY <1>0 DEF AllocEffect
<1> DEFINE D == Live \ {r.from}
<1>8. ASSUME NEW c \in D PROVE \A x \in Chain(c) : x \in Blocks /\ x \notin new /\ x \notin F
  <2>1. c \in Heads /\ c \in Blocks
    BY <1>1
  <2>2. \A x \in Chain(c) : x \in Blocks /\ kind[x] # "FREE"
    BY <2>1, ChainFacts DEF Heads
  <2>3. \A x \in Chain(c) : x \notin F
    <3>1. CASE r.from = Null
      BY <1>4, <3>1
    <3>2. CASE r.from # Null
      BY <1>1, <1>4, <1>6, <2>1, <3>2, ChainsDisjoint
    <3> QED
      BY <3>1, <3>2
  <2> QED
    BY <1>5, <2>2, <2>3
<1>9. ASSUME NEW c \in D PROVE Chain(c)' = Chain(c)
  <2>1. c \in Blocks
    BY <1>1
  <2>2. \A x \in Chain(c) : x # c => kind'[x] = "TAIL"
    BY <1>7, <1>8, <2>1, ChainFacts
  <2>3. ASSUME NEW x \in Chain(c), x + 1 \in Blocks, kind[x + 1] # "TAIL" PROVE kind'[x + 1] # "TAIL"
    <3>1. x \notin new /\ x \in Nat
      BY <1>1, <1>8
    <3>2. x + 1 \in new => x + 1 = s
      BY <1>1, <1>3, <1>5, <3>1
    <3> QED
      BY <1>7, <2>3, <3>2
  <2> QED
    BY <1>1, <2>1, <2>2, <2>3, ChainKept
<1>10. Chain(s)' \subseteq new
  <2> SUFFICES ASSUME NEW w \in Chain(s)', w \notin new PROVE FALSE
    OBVIOUS
  <2>1. w \in Blocks /\ s <= w /\ \A x \in s + 1 .. w : kind'[x] = "TAIL"
    BY DEF Chain, InChain
  <2>2. PICK y : y = s + r.size
    OBVIOUS
  <2>3. /\ y \in s + 1 .. w /\ y \in Blocks /\ y \notin new /\ y - 1 \in new
    BY <1>1, <1>3, <1>5, <2>1, <2>2 DEF Blocks
  <2>4. kind'[y] = "TAIL"
    BY <2>1, <2>3
  <2>5. kind[y] = "TAIL"
    BY <1>7, <2>3, <2>4
  <2>6. kind[y - 1] # "FREE"
    BY <1>1, <2>3, <2>5 DEF IInv, ChainInv
  <2> QED
    BY <1>5, <2>3, <2>6
<1>11. Live' \subseteq D \cup {s}
  <2>1. \A c \in Live : \A w \in Chain(c) : ptr[w] = Null \/ ptr[w] \in D
    <3> TAKE c \in Live
    <3> TAKE w \in Chain(c)
    <3>1. ptr[w] = Null \/ ptr[w] \in Live
      BY <1>1 DEF Closed
    <3> QED
      BY <1>6, <3>1
  <2>2. ASSUME NEW w \in new PROVE ptr'[w] = Null \/ ptr'[w] \in D
    <3>1. CASE ptr'[w] = Null
      BY <3>1
    <3>2. CASE \E y \in F : ptr'[w] = ptr[y]
      <4>1. PICK y \in F : ptr'[w] = ptr[y]
        BY <3>2
      <4>2. r.from # Null /\ y \in Chain(r.from)
        BY <1>4
      <4> QED
        BY <1>6, <2>1, <4>1, <4>2
    <3> QED
      BY <1>7, <3>1, <3>2
  <2>3. ASSUME NEW c \in D \cup {s}, NEW w \in Chain(c)'
        PROVE  ptr'[w] = Null \/ ptr'[w] \in D \cup {s}
    <3>1. CASE c = s
      BY <1>10, <2>2, <2>3, <3>1
    <3>2. CASE c \in D
      <4>1. w \in Chain(c) /\ c \in Live
        BY <1>9, <2>3, <3>2
      <4>2. ptr'[w] = ptr[w]
        BY <1>7, <1>8, <3>2, <4>1
      <4> QED
        BY <2>1, <4>1, <4>2
    <3> QED
      BY <3>1, <3>2
  <2>4. roots' \subseteq D \cup {s} /\ D \cup {s} \in SUBSET Blocks
    BY <1>1, <1>2 DEF Allocate
  <2> HIDE DEF D
  <2> QED
    BY <2>3, <2>4, LiveWithin
<1>12. \A b \in Heads : b # r.from => b \in Heads'
  <2> TAKE b \in Heads
  <2>1. b \in Blocks /\ kind[b] \in {"HEAD", "MARK"}
    BY DEF Heads
  <2>2. b # r.from => b \notin new /\ b \notin F
    BY <1>5, <2>1
  <2> QED
    BY <1>7, <2>1, <2>2 DEF Heads
<1>13. s \in Heads'
  BY <1>5, <1>7 DEF Heads
<1>14. \A f \in ftb' : f = s \/ (f \in ftb /\ (r.from = Null \/ f # r.from))
  <2> DEFINE fins == IF r.fin THEN ftb \cup {s} ELSE ftb
  <2>1. ftb' = IF r.from # Null THEN FtbFreed(r.from, fins) ELSE fins
    BY <1>2 DEF Allocate
  <2>2. FtbFreed(r.from, fins) \subseteq fins \ {r.from}
    BY DEF FtbFreed
  <2>3. \A f \in fins : f = s \/ f \in ftb
    OBVIOUS
  <2> HIDE DEF fins
  <2> QED
    BY <2>1, <2>2, <2>3
<1>15. AllocInv'
  <2>1. \A f \in ftb : f \in Blocks /\ f # Null
    BY <1>1 DEF Heads, Null
  <2>2. ftb' \subseteq Heads'
    BY <1>1, <1>12, <1>13, <1>14, <2>1
  <2> QED
    BY <1>1, <1>11, <1>12, <1>13, <2>2 DEF AllocInv
<1>16. ChainInv'
  <2>1. \A x \in Blocks : kind'[x] = "FREE" => ptr'[x] = Null /\ (x \in F \/ (x \notin new /\ kind[x] = "FREE"))
    BY <1>7 DEF IInv, ChainInv
  <2>2. ASSUME NEW x \in Blocks, kind'[x] = "TAIL" PROVE x > 0 /\ kind'[x - 1] # "FREE"
    <3>1. CASE x \in new
      <4>1. x # s
        BY <1>7, <2>2, <3>1
      <4>2. x > 0 /\ x - 1 \in new
        BY <1>1, <1>3, <1>5, <3>1, <4>1
      <4> QED
        BY <1>7, <4>2
    <3>2. CASE x \notin new
      <4>1. x \notin F /\ kind[x] = "TAIL"
        BY <1>7, <2>2, <3>2
      <4>2. x > 0 /\ kind[x - 1] # "FREE" /\ x - 1 \in Blocks
        BY <1>1, <4>1 DEF IInv, ChainInv
      <4>3. x - 1 \notin F
        BY <1>1, <1>4, <1>6, <4>1, ChainNext
      <4> QED
        BY <2>1, <4>2, <4>3
    <3> QED
      BY <3>1, <3>2
  <2>3. ~freeTail'
    BY <1>1 DEF Alloc
  <2> QED
    BY <2>1, <2>2, <2>3 DEF ChainInv
<1>17. /\ lastFree' \in 0 .. NBlocks
       /\ \A x \in Blocks : x < lastFree' * BlocksPerAtb => kind'[x] # "FREE"
  <2>1. PICK hint : hint = IF r.size = 1 THEN (s + 1) \div BlocksPerAtb ELSE lastFree
    OBVIOUS
  <2>2. s \in Fits(r.size) /\ \A t \in Fits(r.size) : s <= t
    BY <1>2 DEF Allocate
  <2>3. /\ hint \in 0 .. NBlocks
        /\ \A x \in Blocks : x < hint * BlocksPerAtb => kind[x] # "FREE" \/ x = s
    BY <1>1, <1>5, <2>1, <2>2, AllocHint
  <2>4. lastFree' = IF r.from # Null THEN LastFreeDown(r.from, hint) ELSE hint
    BY <1>2, <2>1 DEF Allocate
  <2>5. \A x \in Blocks : x < hint * BlocksPerAtb /\ x \notin F => kind'[x] # "FREE"
    <3> TAKE x \in Blocks
    <3> HAVE x < hint * BlocksPerAtb /\ x \notin F
    <3>1. CASE x \in new
      BY <1>7, <3>1
    <3>2. CASE x \notin new
      BY <1>5, <1>7, <2>3, <3>2
    <3> QED
      BY <3>1, <3>2
  <2>6. CASE r.from = Null
    BY <1>4, <2>3, <2>4, <2>5, <2>6
  <2>7. CASE r.from # Null
    <3>1. r.from \in Blocks /\ r.from \in Nat
      BY <1>1, <1>6, <2>7
    <3>2. /\ lastFree' \in 0 .. NBlocks /\ lastFree' * BlocksPerAtb <= r.from
          /\ lastFree' * BlocksPerAtb <= hint * BlocksPerAtb
      BY <2>3, <2>4, <2>7, <3>1, HintFacts
    <3>3. lastFree' * BlocksPerAtb \in Nat /\ hint * BlocksPerAtb \in Nat
      <4>1. lastFree' \in Nat /\ hint \in Nat /\ BlocksPerAtb \in Nat
        BY <2>3, <3>2, HeapAssumption
      <4>2. \A i \in Nat : i * BlocksPerAtb \in Nat
        BY <4>1
      <4> QED
        BY <4>1, <4>2
    <3>4. \A x \in F : x >= r.from
      BY <1>4, <2>7, <3>1, ChainFacts
    <3>5. \A x \in Blocks : x < lastFree' * BlocksPerAtb => x < hint * BlocksPerAtb /\ x \notin F
      BY <1>1, <3>1, <3>2, <3>3, <3>4
    <3> QED
      BY <2>5, <3>2, <3>5
  <2> QED
    BY <2>6, <2>7
<1>18. RunInv'
  <2>1. \A x \in Blocks : kind'[x] # "MARK"
    <3> TAKE x \in Blocks
    <3>1. kind[x] # "MARK"
      BY <1>1 DEF Marked
    <3> QED
      BY <1>7, <3>1
  <2> QED
    BY <1>17, <2>1 DEF RunInv, Marked
<1>19. TablesOK'
  <2>1. UNCHANGED <<phase, todo, word, stack, overflow, at, freeTail, stackSize>>
    BY DEF Alloc, marker
  <2>2. roots' \subseteq Blocks
    BY <1>1, <1>2 DEF Allocate, TablesOK
  <2>3. ftb' \subseteq Blocks
    BY <1>1, <1>14 DEF TablesOK
  <2>4. kind' \in [Blocks -> {"FREE", "HEAD", "TAIL", "MARK"}]
    <3>1. kind' = [x \in Blocks |-> kind'[x]]
      BY <1>2 DEF Allocate
    <3>2. \A x \in Blocks : kind'[x] \in {"FREE", "HEAD", "TAIL", "MARK"}
      BY <1>1, <1>7 DEF TablesOK
    <3> QED
      BY <3>1, <3>2
  <2>5. ptr' \in [Blocks -> Blocks \cup {Null}]
    <3>1. ptr' = [x \in Blocks |-> ptr'[x]]
      BY <1>2 DEF Allocate
    <3>2. \A x \in Blocks : ptr'[x] \in Blocks \cup {Null}
      BY <1>1, <1>5, <1>7 DEF TablesOK
    <3> QED
      BY <3>1, <3>2
  <2> QED
    BY <1>1, <1>17, <2>1, <2>2, <2>3, <2>4, <2>5 DEF TablesOK
<1> QED
  BY <1>1, <1>15, <1>16, <1>18, <1>19, RunStep DEF Alloc

-----------------------------------------------------------------------------
(* The invariant and what follows from it                                   *)

LEMMA InvInit == Init => IInv
<1> SUFFICES ASSUME Init PROVE IInv
  OBVIOUS
<1> USE DEF Init
<1>1. NBlocks \in Nat /\ BlocksPerAtb \in Nat /\ 0 * BlocksPerAtb = 0
  BY HeapAssumption
<1>2. TablesOK
  <2>1. at \in 0 .. NBlocks /\ lastFree \in 0 .. NBlocks
    BY <1>1
  <2>2. stack \in Seq(Blocks) /\ word \in Words \cup {Null} /\ overflow \in BOOLEAN /\ freeTail \in BOOLEAN
    BY EmptySeq
  <2>3. /\ kind \in [Blocks -> {"FREE", "HEAD", "TAIL", "MARK"}]
        /\ ptr \in [Blocks -> Blocks \cup {Null}]
    OBVIOUS
  <2>4. ftb \subseteq Blocks /\ roots \subseteq Blocks /\ todo \subseteq Blocks
    OBVIOUS
  <2> HIDE DEF Init
  <2>5. stackSize \in StackSizes /\ phase = "run"
    BY DEF Init
  <2> QED
    BY <2>1, <2>2, <2>3, <2>4, <2>5 DEF TablesOK
<1>3. Live = {}
  <2>1. Closed({}) /\ roots \subseteq {}
    BY DEF Closed
  <2> QED
    BY <2>1 DEF Live
<1>4. Marked = {} /\ \A x \in Blocks : ~(x < lastFree * BlocksPerAtb)
  BY <1>1 DEF Marked, Blocks
<1>5. ChainInv /\ AllocInv /\ RunInv
  BY <1>3, <1>4 DEF ChainInv, AllocInv, RunInv
<1>6. MarkInv /\ ExactInv /\ StackInv /\ SweepInv
  BY DEF MarkInv, ExactInv, StackInv, SweepInv
<1> QED
  BY <1>2, <1>5, <1>6 DEF IInv

LEMMA StutterStep ==
    ASSUME IInv, UNCHANGED vars
    PROVE  IInv'
<1> USE DEF vars, heap, marker
<1>1. TablesOK'
  BY DEF IInv, TablesOK
<1>2. /\ Live' = Live /\ Heads' = Heads /\ Marked' = Marked /\ PhantomTail' = PhantomTail
      /\ \A b \in Blocks : Chain(b)' = Chain(b)
  BY SameLive, SameTails DEF Heads, Marked, PhantomTail
<1>3. ChainInv' /\ AllocInv' /\ RunInv'
  BY <1>2 DEF IInv, ChainInv, AllocInv, RunInv
<1>4. MarkInv'
  BY <1>2 DEF IInv, MarkInv, ToScan, Marked
<1>5. ExactInv'
  BY <1>2 DEF IInv, ExactInv, Marked
<1>6. StackInv' /\ SweepInv'
  BY <1>2 DEF IInv, StackInv, SweepInv
<1> QED
  BY <1>1, <1>3, <1>4, <1>5, <1>6 DEF IInv

LEMMA InvStep == RegularInv /\ [Next]_vars => RegularInv'
<1> SUFFICES ASSUME RegularInv, [Next]_vars PROVE RegularInv'
  OBVIOUS
<1>1. CASE UNCHANGED vars
  BY <1>1, StutterStep DEF RegularInv, Regular, vars, nesting
<1>2. CASE (Program \/ Collector) /\ UNCHANGED <<stackSize, nesting>>
  <2>1. ASSUME IInv, Program PROVE IInv'
    BY <1>2, <2>1, LoadStep, StoreStep, ForgetStep, FreeObjectStep, ShrinkStep, GrowStep,
       AllocStep DEF Program
  <2>2. ASSUME IInv, Collector PROVE IInv'
    BY <1>2, <2>2, CollectRootStep, ScanWordStep, RescanStep, MarkingDoneStep, SweepStep,
       FinaliserReturnsStep DEF Collector
  <2> QED
    BY <1>2, <2>1, <2>2 DEF RegularInv, Regular, nesting
<1>3. CASE Collect /\ UNCHANGED stackSize
  <2>1. nested' \in BOOLEAN /\ kept' \in BOOLEAN
    BY <1>3 DEF Collect, RegularInv
  <2>2. Regular' => Regular /\ phase = "run" /\ outer' = outer
    BY <1>3 DEF Collect, RegularInv, Regular
  <2> QED
    BY <1>3, <2>1, <2>2, CollectStep DEF RegularInv
<1>4. CASE SweepAll /\ UNCHANGED stackSize
  BY <1>4, SweepAllStep DEF SweepAll, RegularInv, Regular, nesting
<1>5. CASE SweepDone /\ UNCHANGED stackSize
  <2>1. UNCHANGED <<nested, kept>> /\ (outer = <<>> => outer' = outer)
    BY <1>5 DEF SweepDone
  <2> QED
    BY <1>5, <2>1, SweepDoneStep DEF RegularInv, Regular
<1>6. ASSUME NEW p \in Blocks, FinaliserKeeps(p), UNCHANGED stackSize PROVE RegularInv'
  <2>1. nested' = nested /\ outer' = outer /\ kept' \in BOOLEAN
    BY <1>6 DEF FinaliserKeeps, RegularInv
  <2>2. ASSUME Regular' PROVE Regular /\ p \in Live
    <3>1. kept' = (kept \/ p \notin Live)
      BY <1>6 DEF FinaliserKeeps
    <3>2. ~nested /\ ~kept'
      BY <2>1, <2>2 DEF Regular
    <3> QED
      BY <3>1, <3>2, Zenon DEF Regular
  <2> QED
    BY <1>6, <2>1, <2>2, FinaliserKeepsStep DEF RegularInv
<1> QED
  BY <1>1, <1>2, <1>3, <1>4, <1>5, <1>6 DEF Next, Boundary

\* The inductive invariant holds in every reachable state.
THEOREM HeapInvariant == Spec => []RegularInv
<1>1. Init => RegularInv
  BY InvInit DEF Init, RegularInv
<1> QED
  BY <1>1, InvStep, PTL DEF Spec

\* gc_mark_subtree, gc_deal_with_stack_overflow, gc_sweep: what the program can reach
\* is never freed, whatever the sizes of the pool and of the mark stack, until a
\* collection begins inside a sweep or a finaliser gives garbage back.
THEOREM ReachableStaysAllocated == Spec => []LiveAllocated
<1>1. RegularInv => LiveAllocated
  <2> SUFFICES ASSUME RegularInv, Regular PROVE TypeOK /\ Allocated
    BY DEF LiveAllocated
  <2>1. outer \in Seq([at : Blocks, freeTail : BOOLEAN])
    BY EmptySeq DEF RegularInv
  <2> QED
    BY <2>1 DEF RegularInv, IInv, AllocInv, TypeOK, Allocated, Heads
<1> QED
  BY <1>1, HeapInvariant, PTL

\* gc_collect_start to gc_collect_end: when the sweep begins, exactly what the program
\* can reach is marked, however often the mark stack has overflowed.
THEOREM MarkingIsExact == Spec => []MarkExact
<1>1. RegularInv => MarkExact
  <2> SUFFICES ASSUME IInv, phase = "sweep", at = 0, ~PhantomTail PROVE Marked = Live
    BY DEF MarkExact, RegularInv
  <2>1. Marked \subseteq Live
    BY DEF IInv, SweepInv
  <2>2. Live \subseteq Blocks /\ \A b \in Blocks : b >= 0
    BY LiveFacts, HeapAssumption DEF IInv, Blocks
  <2>3. \A b \in Live : kind[b] = "MARK"
    BY <2>2 DEF IInv, SweepInv
  <2> QED
    BY <2>1, <2>2, <2>3 DEF Marked
<1> QED
  BY <1>1, HeapInvariant, PTL

\* gc_last_free_atb_index: the search of gc_alloc misses no run of free blocks.
THEOREM SearchMissesNoRun == Spec => []NoRunMissed
<1>1. RegularInv => NoRunMissed
  <2> SUFFICES ASSUME IInv, phase = "run", NEW n \in 1 .. MaxSize, NEW s \in Blocks, FreeRun(s, n)
               PROVE  s \in Fits(n)
    BY DEF NoRunMissed, RegularInv
  <2>1. n \in Nat /\ n > 0 /\ s \in Nat
    BY HeapAssumption DEF Blocks
  <2>2. s \in s .. s + n - 1
    BY <2>1
  <2>3. ~(s < lastFree * BlocksPerAtb)
    BY <2>2 DEF IInv, RunInv, FreeRun
  <2>4. lastFree \in Nat /\ BlocksPerAtb \in Nat
    BY HeapAssumption DEF IInv, TablesOK
  <2>5. \A i \in Nat : i * BlocksPerAtb \in Nat
    BY <2>4
  <2>6. lastFree * BlocksPerAtb <= s
    BY <2>1, <2>3, <2>4, <2>5
  <2> QED
    BY <2>6 DEF Fits
<1> QED
  BY <1>1, HeapInvariant, PTL

\* gc_finaliser_table: no free block has its bit set, so that no later object at its
\* place is finalised by mistake.
THEOREM BitsBelongToObjects == Spec => []FinaliserBitsOnHeads
<1>1. RegularInv => FinaliserBitsOnHeads
  BY DEF RegularInv, IInv, AllocInv, FinaliserBitsOnHeads
<1> QED
  BY <1>1, HeapInvariant, PTL

\* The bits that gc_free clears beside that of the freed block.
LEMMA FtbLost ==
    ASSUME NEW b \in Blocks, NEW bits \in SUBSET Blocks,
           NEW f \in bits, f # b, f \notin FtbFreed(b, bits)
    PROVE  /\ NBlocks - 1 \in Chain(b) /\ f % 2 = 1
           /\ FtbFreed(b, bits) \cap {0, 1} = {}
<1> DEFINE left == bits \ {b}
<1>1. f \in left /\ f \in Nat
  BY HeapAssumption DEF Blocks
<1>2. FtbFreed(b, bits) = {g \in left : ~(/\ NBlocks - 1 \in Chain(b)
                                          /\ \A j \in 0 .. g \div 2 : TailBits(j, left))}
  BY DEF FtbFreed
<1> HIDE DEF left
<1>3. NBlocks - 1 \in Chain(b) /\ \A j \in 0 .. f \div 2 : TailBits(j, left)
  BY <1>1, <1>2
<1>4. f \div 2 \in 0 .. f \div 2 /\ 0 \in 0 .. f \div 2 /\ 1 \div 2 = 0
  BY <1>1
<1>5. 2 * (f \div 2) \notin left
  BY <1>3, <1>4 DEF TailBits
<1>6. f % 2 = 1
  <2>1. f = 2 * (f \div 2) + (f % 2) /\ f % 2 \in {0, 1}
    BY <1>1
  <2> QED
    BY <1>1, <1>5, <2>1
<1>7. TailBits(0, left) /\ 0 \notin left
  BY <1>3, <1>4 DEF TailBits
<1>8. \A j \in 0 .. 1 \div 2 : j = 0
  BY <1>4
<1>9. 1 \notin FtbFreed(b, bits)
  BY <1>2, <1>3, <1>7, <1>8
<1> QED
  BY <1>2, <1>3, <1>6, <1>7, <1>9

\* gc_free, gc_realloc, gc_sweep: an object keeps its finaliser bit until it is freed or
\* finalised; gc_free of the chain at the end of the pool is the only exception, and
\* takes no other bits than those of odd blocks.
THEOREM BitsAreKept == Spec => FinaliserBitsKept
<1> DEFINE Kept(f) == \/ kind'[f] = "FREE"
                      \/ /\ kind[NBlocks - 1] # "FREE" /\ kind'[NBlocks - 1] = "FREE"
                         /\ f % 2 = 1 /\ ftb' \cap {0, 1} = {}
<1>1. ASSUME IInv, Next, NEW f \in ftb \ ftb' PROVE Kept(f)
  <2>1. TablesOK /\ Live \subseteq Heads /\ Live \subseteq Blocks /\ roots \subseteq Live
    BY LiveFacts, <1>1 DEF IInv, AllocInv
  <2>2. \A c \in Live : \A x \in Chain(c) : kind[x] # "FREE"
    BY <2>1, ChainFacts DEF Heads
  <2>3. CASE \E b \in Blocks : Free(b)
    <3>1. PICK b \in Blocks : Free(b)
      BY <2>3
    <3>2. b \in Live /\ ftb \in SUBSET Blocks /\ ftb' = FtbFreed(b, ftb)
      BY <2>1, <3>1 DEF Free, Unshared, TablesOK
    <3>3. \A x \in Chain(b) : x \in Blocks /\ kind'[x] = "FREE"
      BY <3>1 DEF Free, Freed, Chain
    <3>4. CASE f = b
      BY <3>3, <3>4, ChainFacts
    <3>5. CASE f # b
      <4>1. NBlocks - 1 \in Chain(b) /\ f % 2 = 1 /\ ftb' \cap {0, 1} = {}
        BY <1>1, <3>2, <3>5, FtbLost
      <4> QED
        BY <2>2, <3>2, <3>3, <4>1
    <3> QED
      BY <3>4, <3>5
  <2>4. CASE \E r \in Requests : Alloc(r)
    <3>1. PICK r \in Requests : Alloc(r)
      BY <2>4
    <3>2. PICK s \in Blocks : Allocate(r, s)
      BY <3>1 DEF Alloc
    <3>3. PICK bits : bits = IF r.fin THEN ftb \cup {s} ELSE ftb
      OBVIOUS
    <3>4. bits \in SUBSET Blocks /\ f \in bits
      BY <1>1, <2>1, <3>3 DEF TablesOK
    <3>5. ftb' = IF r.from # Null THEN FtbFreed(r.from, bits) ELSE bits
      BY <3>2, <3>3 DEF Allocate
    <3>6. r.from # Null /\ ftb' = FtbFreed(r.from, bits)
      BY <1>1, <3>4, <3>5
    <3>7. PICK new : new = s .. s + r.size - 1
      OBVIOUS
    <3>8. PICK F : F = IF r.from # Null THEN Chain(r.from) ELSE {}
      OBVIOUS
    <3>9. AllocEffect(r, s, new, F)
      BY <1>1, <3>1, <3>2, <3>7, <3>8, AllocFacts
    <3>10. r.from \in Live /\ r.from \in Blocks /\ \A x \in Chain(r.from) : kind'[x] = "FREE"
      BY <2>1, <3>6, <3>8, <3>9 DEF AllocEffect
    <3>11. CASE f = r.from
      BY <3>10, <3>11, ChainFacts
    <3>12. CASE f # r.from
      <4>1. NBlocks - 1 \in Chain(r.from) /\ f % 2 = 1 /\ ftb' \cap {0, 1} = {}
        BY <1>1, <3>4, <3>6, <3>10, <3>12, FtbLost
      <4> QED
        BY <2>2, <3>10, <4>1
    <3> QED
      BY <3>11, <3>12
  <2>5. CASE FinaliserReturns
    <3>1. f = at /\ at \in Blocks
      BY <1>1, <2>5 DEF FinaliserReturns, IInv, SweepInv
    <3> QED
      BY <2>1, <2>5, <3>1 DEF FinaliserReturns, TablesOK
  <2>6. CASE ftb' = ftb
    BY <1>1, <2>6
  <2>7. CASE Program
    <3>1. \/ ftb' = ftb \/ (\E b \in Blocks : Free(b)) \/ (\E r \in Requests : Alloc(r))
      BY <2>7 DEF Program, Load, Store, Forget, Shrink, Grow, heap
    <3> QED
      BY <2>3, <2>4, <2>6, <3>1
  <2>8. CASE Collector
    <3>1. ftb' = ftb \/ FinaliserReturns
      BY <2>8 DEF Collector, CollectRoot, ScanWord, Rescan, MarkingDone, Sweep, heap
    <3> QED
      BY <2>5, <2>6, <3>1
  <2>9. CASE Boundary
    BY <2>6, <2>9 DEF Boundary, Collect, SweepAll, SweepDone, FinaliserKeeps, heap
  <2> QED
    BY <1>1, <2>7, <2>8, <2>9 DEF Next
<1>2. RegularInv /\ [Next]_vars =>
        [\A b \in ftb \ ftb' :
            \/ ~Regular
            \/ kind'[b] = "FREE"
            \/ /\ kind[NBlocks - 1] # "FREE" /\ kind'[NBlocks - 1] = "FREE"
               /\ b % 2 = 1 /\ ftb' \cap {0, 1} = {}]_vars
  BY <1>1 DEF RegularInv
<1> QED
  BY <1>2, HeapInvariant, PTL DEF Spec, FinaliserBitsKept

\* gc_sweep: no step of the sweep, and nothing a finaliser does meanwhile but beginning
\* a collection or giving garbage back, changes the chain of a reachable object.
THEOREM SweepKeepsChains == Spec => CollectorKeepsChains
<1>1. ASSUME IInv, outer = <<>>, Next, phase \in {"sweep", "finaliser"}, NEW b \in Live
      PROVE  Chain(b)' = Chain(b)
  <2>1. Live \subseteq Blocks
    BY <1>1, LiveFacts DEF IInv
  <2>2. CASE Program
    <3>1. kind' = kind
      BY <1>1, <2>2 DEF Program, Load, Store, Forget, Free, Alloc, Shrink, Grow, heap
    <3> QED
      BY <2>1, <3>1, SameTails
  <2>3. CASE Collector /\ UNCHANGED stackSize
    <3>1. Sweep \/ FinaliserReturns
      BY <1>1, <2>3 DEF Collector, CollectRoot, ScanWord, Rescan, MarkingDone, IInv, StackInv
    <3> QED
      BY <1>1, <2>1, <2>3, <3>1, SweepStep, FinaliserReturnsStep
  <2>4. CASE Boundary /\ UNCHANGED stackSize
    <3>1. kind' = kind
      BY <2>4 DEF Boundary, Collect, SweepAll, SweepDone, FinaliserKeeps, heap
    <3> QED
      BY <2>1, <3>1, SameTails
  <2> QED
    BY <1>1, <2>2, <2>3, <2>4 DEF Next
<1>2. RegularInv /\ [Next]_vars =>
        [\A b \in Live :
           phase \in {"sweep", "finaliser"} /\ Regular => Chain(b)' = Chain(b)]_vars
  BY <1>1 DEF RegularInv
<1> QED
  BY <1>2, HeapInvariant, PTL DEF Spec, CollectorKeepsChains
=============================================================================
