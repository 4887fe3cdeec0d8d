----------------------------- MODULE TimeQueue -----------------------------
(***************************************************************************)
(* The timer queue (extmod/modutimeq.c): a binary heap in a fixed array,   *)
(* ordered by times that wrap around after MODULO ticks.  All arithmetic   *)
(* on times is that of unsigned words; a time is told to be earlier than   *)
(* another by the shorter way round.                                       *)
(*                                                                         *)
(* Every entry carries, as its callback, the moment it is due on a clock   *)
(* that does not wrap, which the code does not have.  Programs are those   *)
(* the order is made for: two pending times are less than half a period    *)
(* apart, and no entry stays in the queue while utimeq_id goes round.      *)
(***************************************************************************)
EXTENDS Integers, FiniteSets

CONSTANTS
    MODULO,     \* MICROPY_PY_UTIME_TICKS_PERIOD, a quarter of a word
    alloc,      \* the entries the array can hold
    MaxDue,     \* bound on the moments entries are due
    MaxIds      \* bound on the values of utimeq_id, a whole word in the code

ASSUME TimeQueueAssumption ==
    /\ MODULO \in Nat /\ MODULO > 1 /\ MODULO % 2 = 0
    /\ alloc \in Nat
    /\ MaxDue \in Nat /\ MaxIds \in Nat \ {0}

VARIABLES
    items,      \* the array; Vacant where the callback is MP_OBJ_NULL
    len,        \* how many entries the heap has
    utimeq_id   \* the id the next entry gets

vars == <<items, len, utimeq_id>>

Word == 4 * MODULO
Vacant == [time |-> 0, id |-> 0, callback |-> -1]

Init ==
    /\ items = [i \in 0 .. alloc - 1 |-> Vacant]
    /\ len = 0
    /\ utimeq_id = 0

-----------------------------------------------------------------------------
(* The order                                                                *)

\* A difference of two times, brought back from below zero by one period.
Ring(res) == IF res >= Word \div 2 THEN (res + MODULO) % Word ELSE res

time_less_than(item, parent) ==
    LET res == (parent.time - item.time) % Word
    IN  IF res = 0 THEN item.id < parent.id
                   ELSE Ring(res) # 0 /\ Ring(res) < MODULO \div 2

-----------------------------------------------------------------------------
(* The heap                                                                 *)

Parent(pos) == (pos - 1) \div 2

\* The slots that a loop comes to when it starts at slot a and goes on from p to
\* next[p] as long as there is one, and the last of them.
Walk(next, a) ==
    LET Reached == {a} \cup {next[p] : p \in DOMAIN next}
    IN  {q \in Reached : \A S \in SUBSET Reached :
            a \in S /\ (\A p \in S \cap DOMAIN next : next[p] \in S) => q \in S}

End(next, a) == CHOOSE p \in Walk(next, a) : p \notin DOMAIN next

\* Every slot on the way gets the entry of the next one, the last one that of a.
Shift(heap, next, a) ==
    [i \in DOMAIN heap |-> IF i \notin Walk(next, a) THEN heap[i]
                           ELSE IF i \in DOMAIN next THEN heap[next[i]] ELSE heap[a]]

\* The entry at pos moves up past every later ancestor below start.
Up(heap, start, pos) ==
    [p \in {q \in start + 1 .. pos : time_less_than(heap[pos], heap[Parent(q)])} |-> Parent(p)]

heap_siftdown(heap, start, pos) == Shift(heap, Up(heap, start, pos), pos)

\* The child of pos that is not later than the other.
Smaller(heap, n, pos) ==
    LET child == 2 * pos + 1
    IN  IF child + 1 < n /\ ~time_less_than(heap[child], heap[child + 1])
        THEN child + 1 ELSE child

\* The entry at pos goes down along the smaller children to a leaf, and from
\* there up to its place.
Down(heap, n) == [p \in {q \in 0 .. n - 1 : 2 * q + 1 < n} |-> Smaller(heap, n, p)]

heap_siftup(heap, n, pos) ==
    LET next == Down(heap, n)
    IN  heap_siftdown(Shift(heap, next, pos), pos, End(next, pos))

-----------------------------------------------------------------------------
(* Operations                                                               *)

Pending == {items[i] : i \in 0 .. len - 1}

\* push(time, callback, args).  In the code utimeq_id is one counter of all
\* queues of all contexts, incremented without a lock; here one queue of one
\* program uses it, so its value is never lost to a push on the other core.
heappush(due) ==
    /\ len < alloc
    /\ \A e \in Pending : due - e.callback \in -(MODULO \div 2 - 1) .. MODULO \div 2 - 1
    /\ \A e \in Pending : e.id < utimeq_id
    /\ LET e == [time |-> due % MODULO, id |-> utimeq_id, callback |-> due]
       IN  items' = heap_siftdown([items EXCEPT ![len] = e], 0, len)
    /\ len' = len + 1
    /\ utimeq_id' = (utimeq_id + 1) % MaxIds

\* Mutant of heappop: the slot that falls free keeps its pointers.
heappop_retains ==
    /\ len > 0
    /\ LET moved == [items EXCEPT ![0] = items[len - 1]]
       IN  items' = IF len > 1 THEN heap_siftup(moved, len - 1, 0) ELSE moved
    /\ len' = len - 1
    /\ UNCHANGED utimeq_id

\* Mutant of heappop: the entry pushed into the last slot is handed out.
heappop_last ==
    /\ len > 0
    /\ items' = [items EXCEPT ![len - 1] = Vacant]
    /\ len' = len - 1
    /\ UNCHANGED utimeq_id

\* pop(list): the first entry is handed out and the last one takes its place.
heappop ==
    /\ len > 0
    /\ LET moved == [[items EXCEPT ![0] = items[len - 1]] EXCEPT ![len - 1] = Vacant]
       IN  items' = IF len > 1 THEN heap_siftup(moved, len - 1, 0) ELSE moved
    /\ len' = len - 1
    /\ UNCHANGED utimeq_id

Next ==
    \/ \E due \in 0 .. MaxDue : heappush(due)
    \/ heappop

Spec == Init /\ [][Next]_vars

-----------------------------------------------------------------------------
(* Properties                                                               *)

TypeOK ==
    /\ len \in 0 .. alloc
    /\ utimeq_id \in 0 .. MaxIds - 1
    /\ items \in [0 .. alloc - 1 -> [time : 0 .. MODULO - 1, id : 0 .. MaxIds - 1,
                                     callback : -1 .. MaxDue]]

TaskOf(e) == [due |-> e.callback, id |-> e.id]

Tasks == [due : 0 .. MaxDue, id : 0 .. MaxIds - 1]

D == INSTANCE DueQueue WITH pending <- {TaskOf(e) : e \in Pending}

\* The array keeps its type and no callback of an entry that was handed out, which
\* would keep its objects from the garbage collector.
NothingRetained == TypeOK /\ \A i \in DOMAIN items : i < len <=> items[i] # Vacant

\* pop hands out the entries in the order in which they are due, those that are
\* due at the same tick in the order of push, and loses and repeats none.
ImplementsDueQueue == D!Spec

=============================================================================
