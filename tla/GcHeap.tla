------------------------------- MODULE GcHeap -------------------------------
(***************************************************************************)
(* The heap of one context and its mark-and-sweep collector (py/gc.c,      *)
(* ports/esp32/gccollect.c, py/malloc.c).                                  *)
(*                                                                         *)
(* All calls run under the GIL of the context, so that a call is one step, *)
(* except a collection: marking is a step per word and sweeping a step per *)
(* block, because the sweep calls finalisers, and a finaliser may run      *)
(* Python code (the block device of a file that it closes) and can give    *)
(* the GIL to other threads.  gc_lock_depth is nonzero exactly while a     *)
(* collection is in progress (phase # "run"); gc_alloc and gc_realloc then *)
(* return NULL and gc_free does nothing, also under micropython.heap_lock, *)
(* which is left out.  gc.collect does not test gc_lock_depth: it begins a *)
(* collection inside the sweep, which goes on afterwards as if nothing had *)
(* happened.                                                               *)
(*                                                                         *)
(* A block holds one word.  A word that is no pointer to the start of a    *)
(* block of this heap is Null.  The words of a free block are never read   *)
(* before gc_alloc or gc_realloc clears them; the model forgets them when  *)
(* the block is freed.  Requests are in blocks.                            *)
(***************************************************************************)
EXTENDS Integers, Sequences, FiniteSets

CONSTANTS
    NBlocks,        \* blocks of the pool (gc_alloc_table_byte_len * BLOCKS_PER_ATB)
    BlocksPerAtb,   \* BLOCKS_PER_ATB
    StackSizes,     \* MICROPY_ALLOC_GC_STACK_SIZE of the builds considered
    MaxSize,        \* bound: the largest request
    Shapes,         \* sizes of new objects and whether they have a finaliser
    MaxRoots,       \* bound: blocks the program's variables point to
    MaxLinks,       \* bound: pointers stored in the heap
    MaxOuter        \* bound: sweeps that wait for a collection inside of them

ASSUME HeapAssumption ==
    /\ NBlocks \in Nat \ {0}
    /\ BlocksPerAtb \in Nat \ {0}
    /\ StackSizes \subseteq Nat
    /\ MaxSize \in Nat \ {0}
    /\ Shapes \subseteq (1 .. MaxSize) \X BOOLEAN
    /\ MaxRoots \in Nat /\ MaxLinks \in Nat /\ MaxOuter \in Nat

VARIABLES
    kind,       \* gc_alloc_table: what each block is
    ftb,        \* gc_finaliser_table: the blocks whose bit is set
    lastFree,   \* gc_last_free_atb_index
    ptr,        \* the word in each block
    roots,      \* the blocks the program's variables and stacks point to
    phase,      \* what the collector is doing; "run" when it is not at work
    todo,       \* roots gc_collect_root has not looked at
    word,       \* the word gc_mark_subtree is at, Null outside of it
    stackSize,  \* MICROPY_ALLOC_GC_STACK_SIZE of this build
    stack,      \* gc_stack up to sp
    overflow,   \* gc_stack_overflow
    at,         \* block of the loops over the whole table
    freeTail,   \* free_tail of gc_sweep
    outer,      \* block and free_tail of the sweeps that wait for an inner one
    nested,     \* a collection has begun inside a sweep
    kept        \* a finaliser has given garbage back to the program

heap == <<kind, ftb, lastFree, ptr>>
marker == <<todo, word, stack, overflow>>
nesting == <<outer, nested, kept>>
vars == <<heap, roots, phase, marker, at, freeTail, stackSize, nesting>>

Blocks == 0 .. NBlocks - 1
Null == -1
Requests == [size : 1 .. MaxSize, fin : BOOLEAN, from : Blocks \cup {Null}]
Words == 0 .. 2 * NBlocks

(***************************************************************************)
(* The tables.                                                             *)
(***************************************************************************)
\* ATB_GET_KIND.  The finaliser table follows the allocation table: two of its
\* bits are read as the kind of a block after the last one.
TailBits(j, bits) == 2 * j \notin bits /\ 2 * j + 1 \in bits
IsTail(b) == IF b \in Blocks THEN kind[b] = "TAIL" ELSE TailBits(b - NBlocks, ftb)

\* The last chain seems to go on behind the end of the pool.
PhantomTail == TailBits(0, ftb)

\* Block w belongs to the chain that starts at b.
InChain(b, w) == b <= w /\ \A x \in b + 1 .. w : kind[x] = "TAIL"
Chain(b) == {w \in Blocks : InChain(b, w)}
Heads == {b \in Blocks : kind[b] \in {"HEAD", "MARK"}}
Marked == {b \in Blocks : kind[b] = "MARK"}

\* Runs of n free blocks that the search from gc_last_free_atb_index meets.
FreeRun(s, n) == s + n <= NBlocks /\ \A x \in s .. s + n - 1 : kind[x] = "FREE"
Fits(n) == {s \in Blocks : lastFree * BlocksPerAtb <= s /\ FreeRun(s, n)}

(***************************************************************************)
(* What the program can reach: the least set that contains the roots and   *)
(* what the words of its members' chains point to.                         *)
(***************************************************************************)
Closed(S) == \A b \in S : \A w \in Chain(b) : ptr[w] = Null \/ ptr[w] \in S
Live == {b \in Blocks : \A S \in SUBSET Blocks : roots \subseteq S /\ Closed(S) => b \in S}

\* Only the caller refers to b.
Unshared(b) == b \in roots /\ \A x \in Live : \A w \in Chain(x) : ptr[w] # b

Init ==
    /\ kind = [b \in Blocks |-> "FREE"]
    /\ ftb = {}
    /\ lastFree = 0
    /\ ptr = [b \in Blocks |-> Null]
    /\ roots = {}
    /\ phase = "run"
    /\ stackSize \in StackSizes
    /\ todo = {} /\ word = Null /\ stack = <<>> /\ overflow = FALSE
    /\ at = 0
    /\ freeTail = FALSE
    /\ outer = <<>>
    /\ nested = FALSE
    /\ kept = FALSE

(***************************************************************************)
(* The program, also in a finaliser or, while that waits, in another       *)
(* thread: it stores pointers it has, loads them and forgets them.         *)
(***************************************************************************)
Running == phase \in {"run", "finaliser"}

Store(b, w, p) ==
    /\ Running
    /\ b \in roots /\ w \in Chain(b)
    /\ p \in roots \cup {Null}
    /\ p # Null => Cardinality({x \in Blocks : ptr[x] # Null}) < MaxLinks
    /\ ptr' = [ptr EXCEPT ![w] = p]
    /\ UNCHANGED <<kind, ftb, lastFree, roots, phase, marker, at, freeTail>>

Load(b, w) ==
    /\ Running
    /\ b \in roots /\ w \in Chain(b)
    /\ ptr[w] # Null
    /\ Cardinality(roots) < MaxRoots
    /\ roots' = roots \cup {ptr[w]}
    /\ UNCHANGED <<heap, phase, marker, at, freeTail>>

Forget(b) ==
    /\ Running
    /\ b \in roots
    /\ roots' = roots \ {b}
    /\ UNCHANGED <<heap, phase, marker, at, freeTail>>

(***************************************************************************)
(* gc_alloc, gc_free and gc_realloc.                                       *)
(***************************************************************************)
\* The words after the blocks of S have been cleared or freed.
Cleared(S) == [x \in Blocks |-> IF x \in S THEN Null ELSE ptr[x]]

\* What gc_free does to the tables: it frees the chain, and clears the finaliser
\* bits (of the table bits) that look like its tail behind the end of the pool.
Freed(b) == [x \in Blocks |-> IF x \in Chain(b) THEN "FREE" ELSE kind[x]]

\* Mutant of FtbFreed: the bit of the freed object stays.
FtbLeft(b, bits) == bits

\* Mutant of FtbFreed: the bits of the whole byte are cleared.
FtbByteCleared(b, bits) == {f \in bits : f \div BlocksPerAtb # b \div BlocksPerAtb}

FtbFreed(b, bits) ==
    LET left == bits \ {b}
    IN  {f \in left : ~(/\ NBlocks - 1 \in Chain(b)
                        /\ \A j \in 0 .. f \div 2 : TailBits(j, left))}

\* Mutant of LastFreeDown: the hint is not adjusted.
LastFreeKept(b, hint) == hint

LastFreeDown(b, hint) ==
    IF b \div BlocksPerAtb < hint THEN b \div BlocksPerAtb ELSE hint

\* The blocks found become a chain, cleared, or with the old contents when a
\* chain is moved, which is then freed (memcpy and gc_free at the end of gc_realloc).
Allocate(r, s) ==
    LET new == s .. s + r.size - 1
        moved == r.from # Null
        hint == IF r.size = 1 THEN (s + 1) \div BlocksPerAtb ELSE lastFree
        copied == IF moved THEN {w \in new : r.from + (w - s) \in Chain(r.from)} ELSE {}
        fins == IF r.fin THEN ftb \cup {s} ELSE ftb
    IN  /\ s \in Fits(r.size) /\ \A t \in Fits(r.size) : s <= t
        /\ kind' = [x \in Blocks |->
                       CASE x = s -> "HEAD"
                         [] x \in new \ {s} -> "TAIL"
                         [] moved /\ x \in Chain(r.from) -> "FREE"
                         [] OTHER -> kind[x]]
        /\ ptr' = [x \in Blocks |->
                       CASE x \in copied -> ptr[r.from + (x - s)]
                         [] moved /\ x \in Chain(r.from) -> Null
                         [] OTHER -> ptr[x]]
        /\ ftb' = IF moved THEN FtbFreed(r.from, fins) ELSE fins
        /\ lastFree' = IF moved THEN LastFreeDown(r.from, hint) ELSE hint
        /\ roots' = (roots \ {r.from}) \cup {s}

\* gc_realloc cannot resize b in place to n blocks.
MustMove(b, n) ==
    /\ n > Cardinality(Chain(b))
    /\ ~(b + n <= NBlocks /\ \A x \in b + Cardinality(Chain(b)) .. b + n - 1 : kind[x] = "FREE")

\* The requests a program can make: a new object, or a larger place for one that
\* nothing but the caller refers to.
MayRequest(r) ==
    \/ r.from = Null /\ <<r.size, r.fin>> \in Shapes /\ Cardinality(roots) < MaxRoots
    \/ /\ r.from # Null
       /\ Unshared(r.from)
       /\ MustMove(r.from, r.size)
       /\ r.fin = (r.from \in ftb)

\* Mutant of Alloc: gc_lock_depth is not tested.
AllocUnlocked(r) ==
    /\ Running
    /\ MayRequest(r)
    /\ \E s \in Blocks : Allocate(r, s)
    /\ UNCHANGED <<phase, marker, at, freeTail>>

Alloc(r) ==
    /\ phase = "run"
    /\ MayRequest(r)
    /\ \E s \in Blocks : Allocate(r, s)
    /\ UNCHANGED <<phase, marker, at, freeTail>>

\* m_del of an object nothing else refers to; finalisers are not called.
Free(b) ==
    /\ phase = "run"
    /\ Unshared(b)
    /\ kind' = Freed(b)
    /\ ftb' = FtbFreed(b, ftb)
    /\ lastFree' = LastFreeDown(b, lastFree)
    /\ ptr' = Cleared(Chain(b))
    /\ roots' = roots \ {b}
    /\ UNCHANGED <<phase, marker, at, freeTail>>

Shrink(b, n) ==
    /\ phase = "run"
    /\ b \in roots
    /\ n < Cardinality(Chain(b))
    /\ LET old == {x \in Chain(b) : x >= b + n}
       IN  /\ kind' = [x \in Blocks |-> IF x \in old THEN "FREE" ELSE kind[x]]
           /\ ptr' = Cleared(old)
    /\ lastFree' = LastFreeDown(b + n, lastFree)
    /\ UNCHANGED <<ftb, roots, phase, marker, at, freeTail>>

Grow(b, n) ==
    /\ phase = "run"
    /\ b \in roots
    /\ n > Cardinality(Chain(b)) /\ ~MustMove(b, n)
    /\ LET new == (b .. b + n - 1) \ Chain(b)
       IN  /\ kind' = [x \in Blocks |-> IF x \in new THEN "TAIL" ELSE kind[x]]
           /\ ptr' = Cleared(new)
    /\ UNCHANGED <<ftb, lastFree, roots, phase, marker, at, freeTail>>

(***************************************************************************)
(* A collection: by gc.collect, by gc_alloc, or, without marking, by       *)
(* gc_sweep_all when the program has ended.  A gc_alloc that finds no room *)
(* or has reached gc_alloc_threshold is Collect followed by Alloc, or by   *)
(* nothing when it finds no room again and returns NULL.                   *)
(***************************************************************************)
\* The objects whose finalisers are running: the C stack refers to them.
Finalising ==
    {outer[i].at : i \in DOMAIN outer} \cup IF phase = "finaliser" THEN {at} ELSE {}

Collect ==
    /\ Running
    /\ phase = "finaliser" => Len(outer) < MaxOuter
    /\ phase' = "roots"
    /\ todo' = roots \cup Finalising
    /\ at' = 0
    /\ freeTail' = FALSE
    /\ outer' = IF phase = "run" THEN outer ELSE Append(outer, [at |-> at, freeTail |-> freeTail])
    /\ nested' = (nested \/ phase # "run")
    /\ UNCHANGED <<heap, roots, word, stack, overflow, kept>>

\* gc_sweep_all marks nothing; the program has ended and uses nothing any more.
SweepAll ==
    /\ phase = "run"
    /\ roots = {}
    /\ phase' = "sweep"
    /\ UNCHANGED <<heap, roots, marker, at, freeTail, nesting>>

\* gc_collect_root for one pointer; the roots are scanned in some order.
CollectRoot(b) ==
    /\ phase = "roots" /\ word = Null
    /\ b \in todo
    /\ todo' = todo \ {b}
    /\ IF kind[b] = "HEAD"
       THEN kind' = [kind EXCEPT ![b] = "MARK"] /\ word' = b
       ELSE UNCHANGED <<kind, word>>
    /\ UNCHANGED <<ftb, lastFree, ptr, roots, phase, stack, overflow, at, freeTail>>

\* The words gc_mark_subtree can read at w: behind the pool it may be anything.
Read(w) == IF w \in Blocks THEN {ptr[w]} ELSE Blocks \cup {Null}

\* gc_mark_subtree at one word: an unmarked head it points to is marked and
\* pushed; after the last word of the chain the next block is popped.
ScanWord ==
    /\ word # Null
    /\ \E p \in Read(word) :
          LET white == p # Null /\ kind[p] = "HEAD"
              room == Len(stack) < stackSize
              pushed == IF white /\ room THEN Append(stack, p) ELSE stack
          IN  /\ kind' = IF white THEN [kind EXCEPT ![p] = "MARK"] ELSE kind
              /\ overflow' = (overflow \/ (white /\ ~room))
              /\ IF IsTail(word + 1)
                 THEN word' = word + 1 /\ stack' = pushed
                 ELSE IF pushed = <<>>
                 THEN word' = Null /\ stack' = pushed
                 ELSE /\ word' = pushed[Len(pushed)]
                      /\ stack' = SubSeq(pushed, 1, Len(pushed) - 1)
    /\ UNCHANGED <<ftb, lastFree, ptr, roots, phase, todo, at, freeTail>>

\* gc_deal_with_stack_overflow: all marked blocks are traced again, until a pass
\* over the table has not overflowed the stack.
Rescan ==
    /\ phase = "rescan" /\ word = Null
    /\ at < NBlocks
    /\ at' = at + 1
    /\ word' = IF kind[at] = "MARK" THEN at ELSE Null
    /\ UNCHANGED <<heap, roots, phase, todo, stack, overflow, freeTail>>

\* Mutant of MarkingDone: the table is not traced again.
MarkingDoneOnce ==
    /\ word = Null
    /\ phase = "roots" /\ todo = {}
    /\ phase' = "sweep"
    /\ overflow' = FALSE
    /\ UNCHANGED <<heap, roots, todo, word, stack, at, freeTail>>

\* After the roots, and after a pass over the table, the blocks are swept if the
\* stack has not overflowed.
MarkingDone ==
    /\ word = Null
    /\ \/ phase = "roots" /\ todo = {}
       \/ phase = "rescan" /\ at = NBlocks
    /\ phase' = IF overflow THEN "rescan" ELSE "sweep"
    /\ overflow' = FALSE
    /\ at' = 0
    /\ UNCHANGED <<heap, roots, todo, word, stack, freeTail>>

\* gc_sweep at one block.
SweepFree ==
    /\ \/ kind[at] = "HEAD" /\ at \notin ftb
       \/ kind[at] = "TAIL" /\ freeTail
    /\ kind' = [kind EXCEPT ![at] = "FREE"]
    /\ ptr' = Cleared({at})
    /\ freeTail' = TRUE
    /\ at' = at + 1
    /\ UNCHANGED phase

\* Mutant of SweepKeep: free_tail is not reset.
SweepKeepsFreeTail ==
    /\ \/ kind[at] \in {"MARK", "FREE"}
       \/ kind[at] = "TAIL" /\ ~freeTail
    /\ kind' = IF kind[at] = "MARK" THEN [kind EXCEPT ![at] = "HEAD"] ELSE kind
    /\ at' = at + 1
    /\ UNCHANGED <<freeTail, ptr, phase>>

SweepKeep ==
    /\ \/ kind[at] \in {"MARK", "FREE"}
       \/ kind[at] = "TAIL" /\ ~freeTail
    /\ kind' = IF kind[at] = "MARK" THEN [kind EXCEPT ![at] = "HEAD"] ELSE kind
    /\ freeTail' = (freeTail /\ kind[at] # "MARK")
    /\ at' = at + 1
    /\ UNCHANGED <<ptr, phase>>

SweepFinalise ==
    /\ kind[at] = "HEAD" /\ at \in ftb
    /\ phase' = "finaliser"
    /\ UNCHANGED <<kind, ptr, freeTail, at>>

Sweep ==
    /\ phase = "sweep" /\ at < NBlocks
    /\ SweepFree \/ SweepKeep \/ SweepFinalise
    /\ UNCHANGED <<ftb, lastFree, roots, marker>>

\* __del__ has returned: its flag is cleared and the head is freed.
FinaliserReturns ==
    /\ phase = "finaliser"
    /\ ftb' = ftb \ {at}
    /\ kind' = [kind EXCEPT ![at] = "FREE"]
    /\ ptr' = Cleared({at})
    /\ freeTail' = TRUE
    /\ at' = at + 1
    /\ phase' = "sweep"
    /\ UNCHANGED <<lastFree, roots, marker>>

\* The finaliser, which is given its object, lets Python code have a pointer it
\* found there (an SSL socket closes the stream below it), and that keeps it.
FinaliserKeeps(p) ==
    /\ phase = "finaliser"
    /\ p \in ({at} \cup {ptr[w] : w \in Chain(at)}) \ {Null}
    /\ Cardinality(roots) < MaxRoots
    /\ roots' = roots \cup {p}
    /\ kept' = (kept \/ p \notin Live)
    /\ UNCHANGED <<heap, phase, marker, at, freeTail, outer, nested>>

\* gc_collect_end: the program goes on, or the finaliser of the sweep around it.
SweepDone ==
    /\ phase = "sweep" /\ at = NBlocks
    /\ lastFree' = 0
    /\ IF outer = <<>>
       THEN /\ at' = 0 /\ freeTail' = FALSE /\ phase' = "run"
            /\ UNCHANGED outer
       ELSE /\ at' = outer[Len(outer)].at /\ freeTail' = outer[Len(outer)].freeTail
            /\ phase' = "finaliser"
            /\ outer' = SubSeq(outer, 1, Len(outer) - 1)
    /\ UNCHANGED <<kind, ftb, ptr, roots, marker, nested, kept>>

Collector ==
    \/ \E b \in Blocks : CollectRoot(b)
    \/ ScanWord \/ Rescan \/ MarkingDone
    \/ Sweep \/ FinaliserReturns

Program ==
    \/ \E b, w \in Blocks : Load(b, w) \/ \E p \in Blocks \cup {Null} : Store(b, w, p)
    \/ \E b \in Blocks : Forget(b) \/ Free(b)
    \/ \E b \in Blocks, n \in 1 .. MaxSize : Shrink(b, n) \/ Grow(b, n)
    \/ \E r \in Requests : Alloc(r)

\* The steps that begin or end a collection, or bring garbage back.
Boundary == Collect \/ SweepAll \/ SweepDone \/ \E p \in Blocks : FinaliserKeeps(p)

Next ==
    \/ (Program \/ Collector) /\ UNCHANGED <<stackSize, nesting>>
    \/ Boundary /\ UNCHANGED stackSize

Spec == Init /\ [][Next]_vars

(***************************************************************************)
(* Properties.                                                             *)
(***************************************************************************)
TablesOK ==
    /\ kind \in [Blocks -> {"FREE", "HEAD", "TAIL", "MARK"}]
    /\ ftb \subseteq Blocks
    /\ lastFree \in 0 .. NBlocks
    /\ ptr \in [Blocks -> Blocks \cup {Null}]
    /\ roots \subseteq Blocks
    /\ phase \in {"run", "roots", "rescan", "sweep", "finaliser"}
    /\ todo \subseteq Blocks
    /\ word \in Words \cup {Null}
    /\ stackSize \in StackSizes
    /\ stack \in Seq(Blocks)
    /\ overflow \in BOOLEAN
    /\ at \in 0 .. NBlocks
    /\ freeTail \in BOOLEAN

TypeOK ==
    /\ TablesOK
    /\ outer \in Seq([at : Blocks, freeTail : BOOLEAN])
    /\ nested \in BOOLEAN /\ kept \in BOOLEAN

\* What the sweep cannot cope with has not happened.
Regular == ~nested /\ ~kept

\* What the program can reach is the head of an allocated chain.
Allocated == \A b \in Live : kind[b] \in {"HEAD", "MARK"}

\* gc_mark_subtree, gc_deal_with_stack_overflow, gc_sweep: so it is before, during and
\* after a collection, and tables and collector keep their types, until a collection
\* begins inside a sweep or a finaliser gives garbage back.
LiveAllocated == Regular => TypeOK /\ Allocated

\* When marking is over, exactly what the program can reach is marked, however
\* often the mark stack has overflowed.
MarkExact == Regular /\ phase = "sweep" /\ at = 0 /\ ~PhantomTail => Marked = Live

\* gc_last_free_atb_index: the search of gc_alloc misses no run of free blocks.
NoRunMissed ==
    phase = "run" /\ Regular =>
        \A n \in 1 .. MaxSize : (\E s \in Blocks : FreeRun(s, n)) => Fits(n) # {}

\* gc_finaliser_table: a set bit belongs to an allocated object, so that no later
\* object at its place is finalised by mistake.
FinaliserBitsOnHeads == Regular => ftb \subseteq Heads

\* An object keeps its bit until it is freed or its finaliser has been called; only
\* gc_free of the chain at the end of the pool can take others with it, bits of odd
\* blocks that it reads as the upper bits of a tail.
FinaliserBitsKept ==
    [][\A b \in ftb \ ftb' :
          \/ ~Regular
          \/ kind'[b] = "FREE"
          \/ /\ kind[NBlocks - 1] # "FREE" /\ kind'[NBlocks - 1] = "FREE"
             /\ b % 2 = 1 /\ ftb' \cap {0, 1} = {}]_vars

\* gc_sweep, free_tail: a collection leaves the chains of reachable objects whole,
\* under the same condition as LiveAllocated.
CollectorKeepsChains ==
    [][\A b \in Live :
          phase \in {"sweep", "finaliser"} /\ Regular => Chain(b)' = Chain(b)]_vars
=============================================================================
