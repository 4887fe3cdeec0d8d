-------------------------- MODULE TimeQueueProofs --------------------------
(***************************************************************************)
(* For an array of any size, any even period and any due moments: the      *)
(* timer queue hands out its entries in the order in which they are due.   *)
(*                                                                         *)
(* The argument has three parts.  The loops of heap_siftdown and           *)
(* heap_siftup walk through the array; each has a variant, so that a walk  *)
(* comes to one slot after the other and ends, and the entries it shifts   *)
(* are only moved about.  Less than half a period apart, the order of the  *)
(* wrapped times is the order of the moments.  With it the array is a heap *)
(* after every push and pop, so that its first entry is due first.         *)
(***************************************************************************)
EXTENDS TimeQueue, WellFoundedInduction, TLAPS

-----------------------------------------------------------------------------
(* Walks through the array                                                  *)

\* A nonempty set of numbers has a least element.
LEMMA Least ==
    ASSUME NEW S \in SUBSET Nat, S # {}
    PROVE  \E e \in S : \A x \in S : e <= x
<1>1. PICK e \in S : \A x \in S : ~(<<x, e>> \in OpToRel(<, Nat))
  BY NatLessThanWellFounded, WFMin
<1>2. \A x \in S : ~(x < e)
  BY <1>1 DEF OpToRel
<1> QED
  BY <1>2

LEMMA WalkClosed ==
    ASSUME NEW next, NEW a
    PROVE  /\ a \in Walk(next, a)
           /\ \A p \in Walk(next, a) \cap DOMAIN next : next[p] \in Walk(next, a)
           /\ Walk(next, a) \subseteq {a} \cup {next[p] : p \in DOMAIN next}
BY DEF Walk

\* What holds of the first slot and is passed on holds of the whole walk.
LEMMA WalkInduction ==
    ASSUME NEW next, NEW a, NEW S, a \in S,
           \A p \in S \cap Walk(next, a) \cap DOMAIN next : next[p] \in S
    PROVE  Walk(next, a) \subseteq S
<1> DEFINE T == S \cap Walk(next, a)
           Reached == {a} \cup {next[p] : p \in DOMAIN next}
<1>1. T \in SUBSET Reached /\ a \in T /\ \A p \in T \cap DOMAIN next : next[p] \in T
  BY WalkClosed
<1>2. \A q \in Walk(next, a) : q \in T
  BY <1>1 DEF Walk
<1> QED
  BY <1>2

\* Every slot but the first is the next one of another.
LEMMA WalkCame ==
    ASSUME NEW next, NEW a, NEW q \in Walk(next, a), q # a
    PROVE  \E p \in Walk(next, a) \cap DOMAIN next : q = next[p]
<1> DEFINE S == {a} \cup {next[p] : p \in Walk(next, a) \cap DOMAIN next}
<1>1. a \in S /\ \A p \in S \cap Walk(next, a) \cap DOMAIN next : next[p] \in S
  OBVIOUS
<1> HIDE DEF S
<1>2. Walk(next, a) \subseteq S
  BY <1>1, WalkInduction
<1> QED
  BY <1>2 DEF S

\* The loop has a variant: v gets smaller with every step, and tells slots apart.
Variant(next, a, V, v) ==
    /\ a \in V /\ DOMAIN next \subseteq V /\ v \in [V -> Nat]
    /\ \A p \in DOMAIN next : next[p] \in V /\ v[next[p]] < v[p]
    /\ \A p, q \in V : v[p] = v[q] => p = q

\* A walk with a variant comes to one slot after the other.
LEMMA WalkChain ==
    ASSUME NEW next, NEW a, NEW V, NEW v, Variant(next, a, V, v)
    PROVE  /\ Walk(next, a) \subseteq V
           /\ \A q \in Walk(next, a) : v[q] <= v[a]
           /\ \A p, q \in Walk(next, a) :
                  v[q] < v[p] => p \in DOMAIN next /\ v[q] <= v[next[p]]
<1> DEFINE W == Walk(next, a)
           Good(q) == \A p \in W : v[q] < v[p] => p \in DOMAIN next /\ v[q] <= v[next[p]]
<1>1. W \subseteq V /\ \A q \in W : v[q] \in Nat
  BY WalkClosed DEF Variant
<1>2. \A q \in W \cap DOMAIN next : next[q] \in W /\ v[next[q]] < v[q]
  BY WalkClosed DEF Variant
<1>3. W \subseteq {q \in W : v[q] <= v[a]}
  <2> DEFINE S == {q \in W : v[q] <= v[a]}
  <2>1. a \in S
    BY <1>1, WalkClosed
  <2>2. \A q \in S \cap W \cap DOMAIN next : next[q] \in S
    BY <1>1, <1>2, <2>1
  <2> HIDE DEF S
  <2>3. W \subseteq S
    BY <2>1, <2>2, WalkInduction
  <2> QED
    BY <2>3 DEF S
\* Behind a good slot comes its next one, and nothing between.
<1>4. ASSUME NEW q \in W \cap DOMAIN next, Good(q), NEW p \in W
      PROVE  v[q] <= v[p] \/ v[p] <= v[next[q]]
  <2> DEFINE S == {r \in W : v[q] <= v[r] \/ v[r] <= v[next[q]]}
  <2>1. a \in S
    BY <1>3, WalkClosed
  <2>2. ASSUME NEW r \in S \cap W \cap DOMAIN next PROVE next[r] \in S
    <3>1. /\ r \in W /\ next[r] \in W /\ v[next[r]] < v[r]
          /\ {v[r], v[next[r]], v[q], v[next[q]]} \subseteq Nat
          /\ v[q] <= v[r] \/ v[r] <= v[next[q]]
      BY <1>1, <1>2
    <3>2. CASE v[q] < v[r]
      BY <1>4, <3>1, <3>2
    <3>3. CASE v[q] = v[r]
      <4>1. q = r
        BY <1>1, <3>1, <3>3 DEF Variant
      <4> QED
        BY <3>1, <4>1
    <3>4. CASE v[r] <= v[next[q]]
      BY <3>1, <3>4
    <3> QED
      BY <3>1, <3>2, <3>3, <3>4
  <2> HIDE DEF S
  <2>3. W \subseteq S
    BY <2>1, <2>2, WalkInduction
  <2> QED
    BY <2>3 DEF S
<1>5. W \subseteq {q \in W : Good(q)}
  <2> DEFINE S == {q \in W : Good(q)}
  <2>1. a \in S
    <3>1. \A p \in W : ~(v[a] < v[p])
      BY <1>1, <1>3, WalkClosed
    <3> QED
      BY <3>1, WalkClosed
  <2>2. ASSUME NEW q \in S \cap W \cap DOMAIN next PROVE next[q] \in S
    <3> SUFFICES ASSUME NEW p \in W, v[next[q]] < v[p]
                 PROVE  p \in DOMAIN next /\ v[next[q]] <= v[next[p]]
      BY <1>2
    <3>1. v[q] <= v[p]
      BY <1>1, <1>2, <1>4
    <3>2. CASE v[q] < v[p]
      BY <1>1, <1>2, <3>2
    <3>3. CASE v[q] = v[p]
      <4>1. q = p
        BY <1>1, <3>3 DEF Variant
      <4> QED
        BY <1>1, <1>2, <4>1
    <3> QED
      BY <1>1, <3>1, <3>2, <3>3
  <2> HIDE DEF S
  <2>3. W \subseteq S
    BY <2>1, <2>2, WalkInduction
  <2> QED
    BY <2>3 DEF S
<1> QED
  BY <1>1, <1>3, <1>5

\* It ends, in one slot, and comes to no slot from two others.
LEMMA WalkFacts ==
    ASSUME NEW next, NEW a, NEW V, NEW v, Variant(next, a, V, v)
    PROVE  /\ Walk(next, a) \subseteq V
           /\ End(next, a) \in Walk(next, a)
           /\ \A p \in Walk(next, a) : p \notin DOMAIN next <=> p = End(next, a)
           /\ \A p \in Walk(next, a) \cap DOMAIN next : next[p] # a
           /\ \A p, q \in Walk(next, a) \cap DOMAIN next : next[p] = next[q] => p = q
<1> DEFINE W == Walk(next, a)
<1>1. /\ W \subseteq V /\ \A q \in W : v[q] \in Nat /\ v[q] <= v[a]
      /\ \A p, q \in W : v[q] < v[p] => p \in DOMAIN next /\ v[q] <= v[next[p]]
  BY WalkChain DEF Variant
<1>2. \A q \in W \cap DOMAIN next : next[q] \in W /\ v[next[q]] < v[q]
  BY WalkClosed DEF Variant
<1>3. a \in W
  BY WalkClosed
<1> HIDE DEF W
<1>4. \E e \in W : e \notin DOMAIN next
  <2> DEFINE S == {v[q] : q \in W}
  <2>1. S \in SUBSET Nat /\ S # {}
    BY <1>1, <1>3
  <2> HIDE DEF S
  <2>2. PICK m \in S : \A x \in S : m <= x
    BY <2>1, Least
  <2>3. PICK e \in W : v[e] = m
    BY <2>2 DEF S
  <2>4. ASSUME e \in DOMAIN next PROVE FALSE
    <3>1. next[e] \in W /\ v[next[e]] < v[e]
      BY <1>2, <2>3, <2>4
    <3>2. m <= v[next[e]]
      BY <2>2, <3>1 DEF S
    <3> QED
      BY <1>1, <2>3, <3>1, <3>2
  <2> QED
    BY <2>3, <2>4
<1>5. End(next, a) \in W /\ End(next, a) \notin DOMAIN next
  BY <1>4 DEF End, W
<1>6. ASSUME NEW p \in W, NEW q \in W, p \notin DOMAIN next, q \notin DOMAIN next PROVE p = q
  <2>1. ~(v[p] < v[q]) /\ ~(v[q] < v[p])
    BY <1>1, <1>6
  <2>2. v[p] = v[q]
    BY <1>1, <2>1
  <2> QED
    BY <1>1, <2>2 DEF Variant
<1>7. \A p \in W \cap DOMAIN next : next[p] # a
  BY <1>1, <1>2, <1>3
<1>8. ASSUME NEW p \in W \cap DOMAIN next, NEW q \in W \cap DOMAIN next, next[p] = next[q]
      PROVE  p = q
  <2>1. ~(v[p] < v[q]) /\ ~(v[q] < v[p])
    BY <1>1, <1>2, <1>8
  <2>2. v[p] = v[q]
    BY <1>1, <2>1
  <2> QED
    BY <1>1, <2>2 DEF Variant
<1> QED
  BY <1>1, <1>5, <1>6, <1>7, <1>8 DEF W

\* A shift only moves entries about: each one goes to one slot of the walk.
LEMMA ShiftFacts ==
    ASSUME NEW heap, NEW next, NEW a, NEW V, NEW v, Variant(next, a, V, v),
           V \subseteq DOMAIN heap
    PROVE  /\ DOMAIN Shift(heap, next, a) = DOMAIN heap
           /\ \A i \in DOMAIN heap \ Walk(next, a) : Shift(heap, next, a)[i] = heap[i]
           /\ \A i \in Walk(next, a) \cap DOMAIN next :
                  Shift(heap, next, a)[i] = heap[next[i]]
           /\ Shift(heap, next, a)[End(next, a)] = heap[a]
BY WalkFacts DEF Shift

\* Where the entry of a slot comes from.
Source(next, a, i) ==
    IF i \notin Walk(next, a) THEN i ELSE IF i \in DOMAIN next THEN next[i] ELSE a

LEMMA SourceFacts ==
    ASSUME NEW heap, NEW next, NEW a, NEW V, NEW v, Variant(next, a, V, v),
           V \subseteq DOMAIN heap, NEW I, V \subseteq I, I \subseteq DOMAIN heap
    PROVE  /\ \A i \in I : /\ Source(next, a, i) \in I
                            /\ Shift(heap, next, a)[i] = heap[Source(next, a, i)]
           /\ \A i, j \in I : Source(next, a, i) = Source(next, a, j) => i = j
           /\ \A j \in I : \E i \in I : Source(next, a, i) = j
<1> DEFINE W == Walk(next, a)
<1>1. /\ W \subseteq V /\ End(next, a) \in W /\ a \in W
      /\ \A p \in W : p \notin DOMAIN next <=> p = End(next, a)
      /\ \A p \in W \cap DOMAIN next : next[p] \in W /\ next[p] # a
      /\ \A p, q \in W \cap DOMAIN next : next[p] = next[q] => p = q
  BY WalkFacts, WalkClosed
<1>2. \A q \in W : q # a => \E p \in W \cap DOMAIN next : q = next[p]
  BY WalkCame
<1> HIDE DEF W
<1>3. \A i \in I : Source(next, a, i) \in I /\ (i \in W <=> Source(next, a, i) \in W)
  BY <1>1 DEF Source, W
<1>4. \A i \in I : Shift(heap, next, a)[i] = heap[Source(next, a, i)]
  BY DEF Source, Shift
<1>5. ASSUME NEW i \in I, NEW j \in I, Source(next, a, i) = Source(next, a, j) PROVE i = j
  <2>1. i \in W <=> j \in W
    BY <1>3, <1>5
  <2>2. CASE i \notin W
    BY <2>1, <2>2, <1>5 DEF Source, W
  <2>3. CASE i \in W
    BY <1>1, <2>1, <2>3, <1>5 DEF Source, W
  <2> QED
    BY <2>2, <2>3
<1>6. ASSUME NEW j \in I PROVE \E i \in I : Source(next, a, i) = j
  <2>1. CASE j \notin W
    BY <2>1 DEF Source, W
  <2>2. CASE j = a
    <3>1. Source(next, a, End(next, a)) = j /\ End(next, a) \in I
      BY <1>1, <2>2 DEF Source, W
    <3> QED
      BY <3>1
  <2>3. CASE j \in W /\ j # a
    <3>1. PICK p \in W \cap DOMAIN next : j = next[p]
      BY <1>2, <2>3
    <3>2. Source(next, a, p) = j /\ p \in I
      BY <1>1, <3>1 DEF Source, W
    <3> QED
      BY <3>2
  <2> QED
    BY <2>1, <2>2, <2>3
<1> QED
  BY <1>3, <1>4, <1>5, <1>6

\* The entries of the first n slots.
EntriesOf(heap, n) == {heap[i] : i \in 0 .. n - 1}

Distinct(heap, n) == \A i, j \in 0 .. n - 1 : heap[i].id = heap[j].id => i = j

LEMMA ShiftKeeps ==
    ASSUME NEW heap, NEW n \in Nat, NEW next, NEW a, NEW v, Variant(next, a, 0 .. n - 1, v),
           0 .. n - 1 \subseteq DOMAIN heap
    PROVE  /\ DOMAIN Shift(heap, next, a) = DOMAIN heap
           /\ \A i \in DOMAIN heap \ (0 .. n - 1) : Shift(heap, next, a)[i] = heap[i]
           /\ EntriesOf(Shift(heap, next, a), n) = EntriesOf(heap, n)
           /\ Distinct(heap, n) => Distinct(Shift(heap, next, a), n)
<1> DEFINE I == 0 .. n - 1
           S == Shift(heap, next, a)
           src(i) == Source(next, a, i)
<1>1. /\ \A i \in I : src(i) \in I /\ S[i] = heap[src(i)]
      /\ \A i, j \in I : src(i) = src(j) => i = j
      /\ \A j \in I : \E i \in I : src(i) = j
  <2> HIDE DEF I
  <2>1. Variant(next, a, I, v) /\ I \subseteq DOMAIN heap /\ I \subseteq I
    BY DEF I
  <2> QED
    BY <2>1, SourceFacts
<1>2. DOMAIN S = DOMAIN heap /\ \A i \in DOMAIN heap \ I : S[i] = heap[i]
  <2>1. Walk(next, a) \subseteq I
    BY WalkFacts
  <2>2. DOMAIN S = DOMAIN heap /\ \A i \in DOMAIN heap \ Walk(next, a) : S[i] = heap[i]
    BY DEF Shift
  <2> QED
    BY <2>1, <2>2
<1> HIDE DEF I, S, src
<1>3. {S[i] : i \in I} = {heap[i] : i \in I}
  BY <1>1
<1>4. (\A i, j \in I : heap[i].id = heap[j].id => i = j)
          => \A i, j \in I : S[i].id = S[j].id => i = j
  BY <1>1
<1> QED
  BY <1>2, <1>3, <1>4 DEF I, S, EntriesOf, Distinct

-----------------------------------------------------------------------------
(* The order                                                                *)

\* A quotient and a remainder, and that there is only one.
LEMMA DivMod ==
    ASSUME NEW a \in Int, NEW m \in Nat, m > 0
    PROVE  \E q \in Int : a = m * q + (a % m) /\ a % m \in 0 .. m - 1
<1>1. a = m * (a \div m) + (a % m) /\ a % m \in 0 .. m - 1 /\ a \div m \in Int
  OBVIOUS
<1> QED
  BY <1>1

\* A product with a factor of two or more.
LEMMA Twice ==
    ASSUME NEW m \in Nat, NEW k \in Int, -2 * m < m * k, m * k < 2 * m
    PROVE  k \in {-1, 0, 1}
<1>1. k >= 2 => m * k >= 2 * m
  OBVIOUS
<1>2. k <= -2 => m * k <= -2 * m
  OBVIOUS
<1> QED
  BY <1>1, <1>2

Half == MODULO \div 2

Near(e, f) == e.callback - f.callback \in -(Half - 1) .. Half - 1

\* The entry e is due before f, by the clock that does not wrap.
Earlier(e, f) == e.callback < f.callback \/ (e.callback = f.callback /\ e.id < f.id)

\* What programs keep pending: times less than half a period apart.
Comparable(P) ==
    /\ \A e \in P : /\ e \in [time : 0 .. MODULO - 1, id : 0 .. MaxIds - 1, callback : 0 .. MaxDue]
                    /\ e.time = e.callback % MODULO
    /\ \A e, f \in P : Near(e, f)

\* The value Ring gives to a difference, as a residue.
LEMMA RingValue ==
    ASSUME NEW x \in Int, -MODULO < x, x < MODULO
    PROVE  /\ x % Word = 0 <=> x = 0
           /\ Ring(x % Word) = IF x >= 0 THEN x ELSE x + MODULO
<1>1. MODULO \in Nat /\ MODULO > 1 /\ Word = 4 * MODULO /\ Word \div 2 = 2 * MODULO
  BY TimeQueueAssumption DEF Word
<1>2. CASE x >= 0
  <2>1. x % Word = x
    BY <1>1, <1>2
  <2> QED
    BY <1>1, <1>2, <2>1 DEF Ring
<1>3. CASE x < 0
  <2>1. x % Word = x + 4 * MODULO
    BY <1>1, <1>3
  <2>2. (x + 4 * MODULO + MODULO) % Word = x + MODULO
    BY <1>1, <1>3
  <2> QED
    BY <1>1, <1>3, <2>1, <2>2 DEF Ring
<1> QED
  BY <1>2, <1>3

\* Less than half a period apart, times that wrap are ordered as the moments.
LEMMA TimeOrder ==
    ASSUME NEW P, Comparable(P), NEW e \in P, NEW f \in P
    PROVE  time_less_than(e, f) <=> Earlier(e, f)
<1> DEFINE a == e.callback
           b == f.callback
           x == f.time - e.time
<1>1. MODULO \in Nat /\ MODULO > 1 /\ MODULO = 2 * Half /\ Half \in Nat
  BY TimeQueueAssumption DEF Half
<1>2. /\ a \in Nat /\ b \in Nat /\ e.id \in Int /\ f.id \in Int
      /\ e.time = a % MODULO /\ f.time = b % MODULO
      /\ a - b >= -(Half - 1) /\ a - b <= Half - 1
  <2>1. MaxDue \in Nat /\ MaxIds \in Nat
    BY TimeQueueAssumption
  <2> QED
    BY <1>1, <2>1 DEF Comparable, Near
<1>3. PICK qa \in Int : a = MODULO * qa + e.time /\ e.time \in 0 .. MODULO - 1
  <2> HIDE DEF a, b
  <2>1. a \in Int /\ MODULO > 0
    BY <1>1, <1>2
  <2>2. \E q \in Int : a = MODULO * q + (a % MODULO) /\ a % MODULO \in 0 .. MODULO - 1
    BY <1>1, <2>1, DivMod
  <2> QED
    BY <1>2, <2>2
<1>4. PICK qb \in Int : b = MODULO * qb + f.time /\ f.time \in 0 .. MODULO - 1
  <2> HIDE DEF a, b
  <2>1. b \in Int /\ MODULO > 0
    BY <1>1, <1>2
  <2>2. \E q \in Int : b = MODULO * q + (b % MODULO) /\ b % MODULO \in 0 .. MODULO - 1
    BY <1>1, <2>1, DivMod
  <2> QED
    BY <1>2, <2>2
<1>5. x \in Int /\ -MODULO < x /\ x < MODULO
  BY <1>1, <1>3, <1>4
<1>6. PICK k \in Int : k = qb - qa
  OBVIOUS
<1>7. b - a = MODULO * k + x
  <2>1. MODULO * k = MODULO * qb - MODULO * qa
    BY <1>1, <1>6
  <2>2. MODULO * k \in Int /\ MODULO * qa \in Int /\ MODULO * qb \in Int
    BY <1>1
  <2>3. x = f.time - e.time /\ e.time \in Int /\ f.time \in Int /\ a \in Int /\ b \in Int
    BY <1>1, <1>2, <1>3, <1>4
  <2> HIDE DEF a, b, x
  <2> QED
    BY <1>3, <1>4, <2>1, <2>2, <2>3
<1>8. k \in {-1, 0, 1}
  <2>1. MODULO * k \in Int /\ -2 * MODULO < MODULO * k /\ MODULO * k < 2 * MODULO
    <3>1. MODULO * k \in Int
      BY <1>1
    <3> HIDE DEF a, b, x
    <3>2. a \in Int /\ b \in Int
      BY <1>2
    <3> QED
      BY <1>1, <1>2, <1>5, <1>7, <3>1, <3>2
  <2> QED
    BY <1>1, <2>1, Twice
<1> DEFINE r == IF x >= 0 THEN x ELSE x + MODULO
<1>9. /\ x % Word = 0 <=> x = 0
      /\ Ring(x % Word) = r
  BY <1>5, RingValue
<1> HIDE DEF a, b, x
<1>10. b - a = x \/ b - a = x + MODULO \/ b - a = x - MODULO
  BY <1>1, <1>5, <1>7, <1>8
<1>11. x = 0 <=> a = b
  BY <1>1, <1>2, <1>5, <1>10
<1>12. x # 0 => (r # 0 /\ r < Half <=> a < b)
  BY <1>1, <1>2, <1>5, <1>10
<1>13. time_less_than(e, f) <=> IF x = 0 THEN e.id < f.id ELSE r # 0 /\ r < Half
  BY <1>9 DEF time_less_than, x, Half
<1> HIDE DEF r
<1> QED
  BY <1>2, <1>11, <1>12, <1>13 DEF Earlier, a, b

\* Not due after.
NotLater(e, f) == ~Earlier(f, e)

LEMMA OrderFacts ==
    ASSUME NEW P, Comparable(P)
    PROVE  /\ \A e, f \in P : NotLater(e, f) \/ NotLater(f, e)
           /\ \A e, f \in P : Earlier(e, f) => NotLater(e, f)
           /\ \A e, f, g \in P : NotLater(e, f) /\ NotLater(f, g) => NotLater(e, g)
<1>1. \A e \in P : e.callback \in Int /\ e.id \in Int
  BY TimeQueueAssumption DEF Comparable
<1> QED
  BY <1>1 DEF NotLater, Earlier

-----------------------------------------------------------------------------
(* The heap                                                                 *)

LEMMA ParentFacts ==
    /\ \A i \in Nat \ {0} : /\ Parent(i) \in Nat /\ Parent(i) < i
                            /\ i = 2 * Parent(i) + 1 \/ i = 2 * Parent(i) + 2
    /\ \A p \in Nat : Parent(2 * p + 1) = p /\ Parent(2 * p + 2) = p
BY DEF Parent

\* The entry of slot i is not due before that of its parent.
Below(heap, i) == NotLater(heap[Parent(i)], heap[i])

\* An entry without children rises to its place.
LEMMA SiftDown ==
    ASSUME NEW heap, NEW n \in Nat, 0 .. n - 1 \subseteq DOMAIN heap,
           Comparable(EntriesOf(heap, n)), NEW pos \in 0 .. n - 1,
           \A i \in 1 .. n - 1 : i # pos => Below(heap, i),
           \A i \in 1 .. n - 1 : Parent(i) # pos
    PROVE  LET S == heap_siftdown(heap, 0, pos)
           IN  /\ DOMAIN S = DOMAIN heap
               /\ \A i \in DOMAIN heap \ (0 .. n - 1) : S[i] = heap[i]
               /\ EntriesOf(S, n) = EntriesOf(heap, n)
               /\ Distinct(heap, n) => Distinct(S, n)
               /\ \A i \in 1 .. n - 1 : Below(S, i)
<1> DEFINE next == Up(heap, 0, pos)
           W == Walk(next, pos)
           S == Shift(heap, next, pos)
           x == heap[pos]
           P == EntriesOf(heap, n)
           v == [p \in 0 .. n - 1 |-> p]
           I == 0 .. n - 1
<1>1. \A i \in I : heap[i] \in P /\ (i # 0 => Parent(i) \in I /\ Parent(i) < i)
  <2>1. \A i \in I : heap[i] \in P
    BY DEF EntriesOf
  <2>2. \A i \in I : i # 0 => Parent(i) \in I /\ Parent(i) < i
    BY ParentFacts
  <2> QED
    BY <2>1, <2>2
<1>2. \A i \in 1 .. pos : /\ i \in DOMAIN next <=> Earlier(x, heap[Parent(i)])
                          /\ i \in DOMAIN next => next[i] = Parent(i)
  <2>1. \A i \in 1 .. pos : i \in DOMAIN next <=> time_less_than(x, heap[Parent(i)])
    BY DEF Up
  <2>2. \A i \in 1 .. pos : heap[Parent(i)] \in P /\ x \in P
    BY <1>1
  <2> HIDE DEF P, x, next
  <2>3. \A i \in 1 .. pos : time_less_than(x, heap[Parent(i)]) <=> Earlier(x, heap[Parent(i)])
    BY <2>2, TimeOrder DEF P
  <2> QED
    BY <2>1, <2>3 DEF Up, next
<1>3. DOMAIN next \subseteq 1 .. pos
  BY DEF Up
<1>4. Variant(next, pos, I, v)
  <2>1. \A p \in DOMAIN next : next[p] \in I /\ v[next[p]] < v[p] /\ p \in I
    BY <1>1, <1>2, <1>3
  <2>2. v \in [I -> Nat] /\ \A p, q \in I : v[p] = v[q] => p = q
    OBVIOUS
  <2> HIDE DEF next, v
  <2> QED
    BY <2>1, <2>2 DEF Variant
<1>5. /\ DOMAIN S = DOMAIN heap
      /\ \A i \in DOMAIN heap \ I : S[i] = heap[i]
      /\ EntriesOf(S, n) = EntriesOf(heap, n)
      /\ Distinct(heap, n) => Distinct(S, n)
  <2> HIDE DEF next, v
  <2> QED
    BY <1>4, ShiftKeeps
<1>6. /\ \A i \in DOMAIN heap \ W : S[i] = heap[i]
      /\ \A i \in W \cap DOMAIN next : S[i] = heap[next[i]]
      /\ S[End(next, pos)] = x
  <2> HIDE DEF next, v
  <2> QED
    BY <1>4, ShiftFacts
<1>7. /\ W \subseteq I /\ End(next, pos) \in W
      /\ \A p \in W : p \notin DOMAIN next <=> p = End(next, pos)
      /\ \A p \in W \cap DOMAIN next : next[p] \in W
      /\ \A q \in W : q # pos => \E p \in W \cap DOMAIN next : q = next[p]
      /\ pos \in W
  <2> HIDE DEF next, v
  <2> QED
    BY <1>4, WalkFacts, WalkClosed, WalkCame
<1>8. \A q \in W : q <= pos /\ \A p \in W : q < p => p \in DOMAIN next
  <2>1. \A q \in W : v[q] <= v[pos] /\ \A p \in W : v[q] < v[p] => p \in DOMAIN next
    <3> HIDE DEF next, v
    <3> QED
      BY <1>4, WalkChain
  <2> QED
    BY <1>7, <2>1
<1>9. /\ \A e, f \in P : Earlier(e, f) => NotLater(e, f)
      /\ \A e, f, g \in P : NotLater(e, f) /\ NotLater(f, g) => NotLater(e, g)
  BY OrderFacts
<1> HIDE DEF next, W, S, x, P, v
<1>10. ASSUME NEW i \in 1 .. n - 1 PROVE NotLater(S[Parent(i)], S[i])
  <2> DEFINE par == Parent(i)
  <2>1. i \in I /\ par \in I /\ par < i /\ {heap[i], heap[par], x} \subseteq P
    BY <1>1 DEF x
  <2>2. CASE i \in W \cap DOMAIN next
    <3>1. i \in 1 .. pos /\ next[i] = par /\ par \in W /\ S[i] = heap[par] /\ Earlier(x, heap[par])
      BY <1>2, <1>3, <1>6, <1>7, <2>2
    <3>2. CASE par \in DOMAIN next
      <4>1. par \in 1 .. n - 1 /\ par # pos /\ next[par] = Parent(par)
        BY <1>2, <1>3, <2>1, <3>1, <3>2
      <4>2. S[par] = heap[Parent(par)] /\ Below(heap, par)
        BY <1>6, <3>1, <3>2, <4>1
      <4> QED
        BY <3>1, <4>2 DEF Below
    <3>3. CASE par \notin DOMAIN next
      BY <1>6, <1>7, <1>9, <2>1, <3>1, <3>3
    <3> QED
      BY <3>2, <3>3
  <2>3. CASE i \in W /\ i \notin DOMAIN next
    <3>1. par \notin W
      BY <1>8, <2>1, <2>3
    <3>2. S[par] = heap[par] /\ S[i] = x
      BY <1>6, <1>7, <2>1, <2>3, <3>1
    <3>3. i \in 1 .. pos
      BY <1>8, <2>3
    <3> QED
      BY <1>2, <2>3, <3>2, <3>3 DEF NotLater
  <2>4. CASE i \notin W
    <3>1. S[i] = heap[i] /\ i # pos /\ NotLater(heap[par], heap[i]) /\ par # pos
      BY <1>6, <1>7, <2>1, <2>4 DEF Below
    <3>2. CASE par \notin W
      BY <1>6, <2>1, <3>1, <3>2
    <3>3. CASE par \in W \cap DOMAIN next
      <4>1. par \in 1 .. n - 1 /\ S[par] = heap[Parent(par)] /\ heap[Parent(par)] \in P
        BY <1>1, <1>2, <1>3, <1>6, <2>1, <3>3
      <4>2. NotLater(heap[Parent(par)], heap[par])
        BY <3>1, <4>1 DEF Below
      <4> QED
        BY <1>9, <2>1, <3>1, <4>1, <4>2
    <3>4. CASE par \in W /\ par \notin DOMAIN next
      <4>1. PICK j \in W \cap DOMAIN next : par = next[j]
        BY <1>7, <3>1, <3>4
      <4>2. Earlier(x, heap[par])
        BY <1>2, <1>3, <4>1
      <4>3. S[par] = x
        BY <1>6, <1>7, <3>4
      <4> QED
        BY <1>9, <2>1, <3>1, <4>2, <4>3
    <3> QED
      BY <3>2, <3>3, <3>4
  <2> QED
    BY <2>2, <2>3, <2>4
<1> QED
  BY <1>5, <1>10 DEF heap_siftdown, Below, next, S

\* The way down goes to the child that is not later than the other.
LEMMA DownFacts ==
    ASSUME NEW heap, NEW n \in Nat, Comparable(EntriesOf(heap, n))
    PROVE  /\ DOMAIN Down(heap, n) = {q \in 0 .. n - 1 : 2 * q + 1 < n}
           /\ \A p \in DOMAIN Down(heap, n) :
                  /\ Down(heap, n)[p] \in 0 .. n - 1 /\ p < Down(heap, n)[p]
                  /\ Parent(Down(heap, n)[p]) = p
                  /\ \A i \in 1 .. n - 1 :
                         Parent(i) = p => NotLater(heap[Down(heap, n)[p]], heap[i])
<1> DEFINE next == Down(heap, n)
           P == EntriesOf(heap, n)
<1>1. DOMAIN next = {q \in 0 .. n - 1 : 2 * q + 1 < n}
  BY DEF Down
<1>2. ASSUME NEW p \in DOMAIN next
      PROVE  /\ next[p] \in 0 .. n - 1 /\ p < next[p] /\ Parent(next[p]) = p
             /\ \A i \in 1 .. n - 1 : Parent(i) = p => NotLater(heap[next[p]], heap[i])
  <2> DEFINE c == 2 * p + 1
  <2>1. /\ p \in Nat /\ c \in 0 .. n - 1 /\ c + 1 \in Nat
        /\ Parent(c) = p /\ Parent(c + 1) = p /\ p < c
    <3>1. p \in Nat /\ c \in 0 .. n - 1 /\ c + 1 = 2 * p + 2
      BY <1>1
    <3> QED
      BY <3>1, ParentFacts
  <2>2. \A i \in 1 .. n - 1 : Parent(i) = p => i = c \/ i = c + 1
    <3> SUFFICES ASSUME NEW i \in 1 .. n - 1, Parent(i) = p PROVE i = c \/ i = c + 1
      OBVIOUS
    <3>1. i \in Nat \ {0}
      OBVIOUS
    <3>2. i = 2 * Parent(i) + 1 \/ i = 2 * Parent(i) + 2
      BY <3>1, ParentFacts
    <3> QED
      BY <2>1, <3>2
  <2>3. next[p] = IF c + 1 < n /\ ~time_less_than(heap[c], heap[c + 1]) THEN c + 1 ELSE c
    BY <1>2, <1>1 DEF Down, Smaller
  <2> HIDE DEF next, c
  <2>4. next[p] \in {c, c + 1} /\ next[p] \in 0 .. n - 1
    BY <2>1, <2>3
  <2>5. ASSUME NEW i \in 1 .. n - 1, Parent(i) = p PROVE NotLater(heap[next[p]], heap[i])
    <3>1. i = c \/ i = c + 1
      BY <2>2, <2>5
    <3>2. \A j \in 0 .. n - 1 : heap[j] \in P
      BY DEF EntriesOf
    <3> HIDE DEF P
    <3>3. \A e, f \in P : /\ NotLater(e, f) \/ NotLater(f, e)
                          /\ Earlier(e, f) => NotLater(e, f)
                          /\ time_less_than(e, f) <=> Earlier(e, f)
      BY OrderFacts, TimeOrder DEF P
    <3>4. CASE c + 1 < n
      <4>1. heap[c] \in P /\ heap[c + 1] \in P
        BY <2>1, <3>2, <3>4
      <4>2. CASE time_less_than(heap[c], heap[c + 1])
        BY <2>3, <3>1, <3>3, <4>1, <4>2
      <4>3. CASE ~time_less_than(heap[c], heap[c + 1])
        <5>1. next[p] = c + 1 /\ NotLater(heap[c + 1], heap[c])
          BY <2>3, <3>3, <3>4, <4>1, <4>3 DEF NotLater
        <5> QED
          BY <3>1, <3>3, <4>1, <5>1
      <4> QED
        BY <4>2, <4>3
    <3>5. CASE ~(c + 1 < n)
      <4>1. next[p] = c /\ i = c /\ heap[c] \in P
        BY <2>1, <2>3, <3>1, <3>2, <3>5
      <4> QED
        BY <3>3, <4>1
    <3> QED
      BY <3>4, <3>5
  <2> QED
    BY <2>1, <2>4, <2>5
<1> QED
  BY <1>1, <1>2

\* The first entry goes down to a leaf and rises to its place.
LEMMA SiftUp ==
    ASSUME NEW heap, NEW n \in Nat, n > 0, 0 .. n - 1 \subseteq DOMAIN heap,
           Comparable(EntriesOf(heap, n)),
           \A i \in 1 .. n - 1 : Parent(i) # 0 => Below(heap, i)
    PROVE  LET S == heap_siftup(heap, n, 0)
           IN  /\ DOMAIN S = DOMAIN heap
               /\ \A i \in DOMAIN heap \ (0 .. n - 1) : S[i] = heap[i]
               /\ EntriesOf(S, n) = EntriesOf(heap, n)
               /\ Distinct(heap, n) => Distinct(S, n)
               /\ \A i \in 1 .. n - 1 : Below(S, i)
<1> DEFINE next == Down(heap, n)
           W == Walk(next, 0)
           S == Shift(heap, next, 0)
           leaf == End(next, 0)
           I == 0 .. n - 1
           v == [p \in I |-> n - 1 - p]
<1>1. /\ DOMAIN next = {q \in I : 2 * q + 1 < n}
      /\ \A p \in DOMAIN next :
             /\ next[p] \in I /\ p < next[p] /\ Parent(next[p]) = p
             /\ \A i \in 1 .. n - 1 : Parent(i) = p => NotLater(heap[next[p]], heap[i])
  BY DownFacts
<1>2. \A i \in 1 .. n - 1 : Parent(i) \in DOMAIN next /\ i \in I /\ Parent(i) \in I
  <2> SUFFICES ASSUME NEW i \in 1 .. n - 1
               PROVE  Parent(i) \in DOMAIN next /\ i \in I /\ Parent(i) \in I
    OBVIOUS
  <2>1. i \in Nat \ {0}
    OBVIOUS
  <2>2. Parent(i) \in Nat /\ (i = 2 * Parent(i) + 1 \/ i = 2 * Parent(i) + 2)
    BY <2>1, ParentFacts
  <2> QED
    BY <1>1, <2>2
<1>3. Variant(next, 0, I, v)
  <2>1. v \in [I -> Nat] /\ \A p, q \in I : v[p] = v[q] => p = q
    OBVIOUS
  <2>2. \A p \in I, q \in I : p < q => v[q] < v[p]
    OBVIOUS
  <2> HIDE DEF next, v
  <2>3. \A p \in DOMAIN next : p \in I /\ next[p] \in I /\ v[next[p]] < v[p]
    BY <1>1, <2>2
  <2> QED
    BY <2>1, <2>3 DEF Variant
<1> HIDE DEF next, v
<1>4. /\ DOMAIN S = DOMAIN heap
      /\ \A i \in DOMAIN heap \ I : S[i] = heap[i]
      /\ EntriesOf(S, n) = EntriesOf(heap, n)
      /\ Distinct(heap, n) => Distinct(S, n)
  BY <1>3, ShiftKeeps
<1>5. /\ \A i \in DOMAIN heap \ W : S[i] = heap[i]
      /\ \A i \in W \cap DOMAIN next : S[i] = heap[next[i]]
  BY <1>3, ShiftFacts
<1>6. /\ W \subseteq I /\ leaf \in W
      /\ \A p \in W : p \notin DOMAIN next <=> p = leaf
      /\ \A p \in W \cap DOMAIN next : next[p] \in W
      /\ \A q \in W : q # 0 => \E p \in W \cap DOMAIN next : q = next[p]
      /\ 0 \in W
  BY <1>3, WalkFacts, WalkClosed, WalkCame
<1> HIDE DEF W, S, leaf
<1>7. ASSUME NEW i \in 1 .. n - 1, i # leaf PROVE Below(S, i)
  <2> DEFINE par == Parent(i)
  <2>1. i \in I /\ par \in I /\ par \in DOMAIN next
    BY <1>2
  <2>2. CASE i \in W
    <3>1. PICK p \in W \cap DOMAIN next : i = next[p]
      BY <1>6, <2>2
    <3>2. p = par /\ S[par] = heap[i]
      BY <1>1, <1>5, <3>1
    <3>3. i \in DOMAIN next /\ S[i] = heap[next[i]]
      BY <1>5, <1>6, <1>7, <2>2
    <3>4. next[i] \in 1 .. n - 1 /\ Parent(next[i]) = i
      BY <1>1, <3>3
    <3>5. NotLater(heap[i], heap[next[i]])
      BY <3>4 DEF Below
    <3> QED
      BY <3>2, <3>3, <3>5 DEF Below
  <2>3. CASE i \notin W /\ par \in W
    <3>1. S[i] = heap[i] /\ S[par] = heap[next[par]]
      BY <1>5, <2>1, <2>3
    <3>2. NotLater(heap[next[par]], heap[i])
      BY <1>1, <2>1
    <3> QED
      BY <3>1, <3>2 DEF Below
  <2>4. CASE i \notin W /\ par \notin W
    <3>1. S[i] = heap[i] /\ S[par] = heap[par] /\ par # 0
      BY <1>5, <1>6, <2>1, <2>4
    <3> QED
      BY <3>1 DEF Below
  <2> QED
    BY <2>2, <2>3, <2>4
<1>8. leaf \in I /\ \A i \in 1 .. n - 1 : Parent(i) # leaf
  BY <1>2, <1>6
<1>9. I \subseteq DOMAIN S /\ Comparable(EntriesOf(S, n))
  BY <1>4
<1> DEFINE T == heap_siftdown(S, 0, leaf)
<1>10. /\ DOMAIN T = DOMAIN S
       /\ \A i \in DOMAIN S \ I : T[i] = S[i]
       /\ EntriesOf(T, n) = EntriesOf(S, n)
       /\ Distinct(S, n) => Distinct(T, n)
       /\ \A i \in 1 .. n - 1 : Below(T, i)
  BY <1>7, <1>8, <1>9, SiftDown
<1>11. T = heap_siftup(heap, n, 0)
  BY DEF heap_siftup, next, S, leaf
<1> HIDE DEF T
<1> QED
  BY <1>4, <1>10, <1>11

-----------------------------------------------------------------------------
(* The invariant                                                            *)

\* Slots behind the heap are vacant.
RestInv == \A i \in DOMAIN items : i >= len => items[i] = Vacant

\* Pending times are less than half a period apart.
WindowInv == Comparable(EntriesOf(items, len))

\* No id is given twice to pending entries.
IdInv == Distinct(items, len)

\* No entry is due before its parent.
HeapInv == \A i \in 1 .. len - 1 : Below(items, i)

IInv == TypeOK /\ RestInv /\ WindowInv /\ IdInv /\ HeapInv

LEMMA InitInv == Init => IInv
<1> SUFFICES ASSUME Init PROVE IInv
  OBVIOUS
<1>1. MaxDue \in Nat /\ MaxIds \in Nat \ {0} /\ alloc \in Nat /\ MODULO \in Nat /\ MODULO > 1
  BY TimeQueueAssumption
<1>2. Vacant \in [time : 0 .. MODULO - 1, id : 0 .. MaxIds - 1, callback : -1 .. MaxDue]
  BY <1>1 DEF Vacant
<1>3. TypeOK /\ RestInv
  BY <1>1, <1>2 DEF Init, TypeOK, RestInv
<1>4. EntriesOf(items, len) = {} /\ 0 .. len - 1 = {} /\ 1 .. len - 1 = {}
  BY DEF Init, EntriesOf
<1>5. WindowInv /\ IdInv /\ HeapInv
  BY <1>4 DEF WindowInv, Comparable, IdInv, Distinct, HeapInv
<1> QED
  BY <1>3, <1>5 DEF IInv

\* The new entry, where push puts it before it rises.
Entry(due) == [time |-> due % MODULO, id |-> utimeq_id, callback |-> due]

LEMMA PushedFacts ==
    ASSUME IInv, NEW due \in 0 .. MaxDue, heappush(due)
    PROVE  LET heap == [items EXCEPT ![len] = Entry(due)]
           IN  /\ len \in Nat /\ 0 .. len \subseteq DOMAIN heap /\ DOMAIN heap = DOMAIN items
               /\ heap[len] = Entry(due) /\ \A i \in DOMAIN items : i # len => heap[i] = items[i]
               /\ EntriesOf(heap, len + 1) = EntriesOf(items, len) \cup {Entry(due)}
               /\ Comparable(EntriesOf(heap, len + 1))
               /\ Distinct(heap, len + 1)
               /\ \A i \in 1 .. len : i # len => Below(heap, i)
               /\ \A i \in 1 .. len : Parent(i) # len
<1> DEFINE e == Entry(due)
           heap == [items EXCEPT ![len] = e]
           E == EntriesOf(items, len)
<1>1. /\ MaxDue \in Nat /\ MaxIds \in Nat \ {0} /\ alloc \in Nat
      /\ MODULO \in Nat /\ MODULO > 1 /\ Half \in Nat /\ MODULO = 2 * Half
  BY TimeQueueAssumption DEF Half
<1>2. /\ len \in Nat /\ len < alloc /\ DOMAIN items = 0 .. alloc - 1
      /\ utimeq_id \in 0 .. MaxIds - 1
      /\ len \in DOMAIN items /\ \A i \in 0 .. len : i \in DOMAIN items /\ i \in Nat
  <2>1. /\ len \in Nat /\ len < alloc /\ DOMAIN items = 0 .. alloc - 1
        /\ utimeq_id \in 0 .. MaxIds - 1
    BY <1>1 DEF IInv, TypeOK, heappush
  <2> QED
    BY <1>1, <2>1
<1>3. /\ e \in [time : 0 .. MODULO - 1, id : 0 .. MaxIds - 1, callback : 0 .. MaxDue]
      /\ e.time = due % MODULO /\ e.id = utimeq_id /\ e.callback = due
  BY <1>1, <1>2 DEF Entry
<1>4. /\ DOMAIN heap = DOMAIN items /\ heap[len] = e
      /\ \A i \in DOMAIN items : i # len => heap[i] = items[i]
  <2> HIDE DEF e
  <2> QED
    BY <1>2
<1> HIDE DEF e, heap
<1>5. EntriesOf(heap, len + 1) = E \cup {e}
  <2>1. 0 .. (len + 1) - 1 = 0 .. len - 1 \cup {len}
    BY <1>2
  <2>2. \A i \in 0 .. len - 1 : heap[i] = items[i]
    BY <1>2, <1>4
  <2> QED
    BY <1>4, <2>1, <2>2 DEF EntriesOf
<1>6. Comparable(E)
  BY DEF IInv, WindowInv
<1>7. \A f \in E : Near(e, f) /\ f.id < utimeq_id
  BY <1>3 DEF heappush, Pending, EntriesOf, Near, Half
<1>8. Comparable(E \cup {e})
  <2> HIDE DEF E
  <2>1. \A f \in E : f.callback \in Int
    BY <1>1, <1>6 DEF Comparable
  <2>2. \A f \in E : Near(f, e)
    BY <1>1, <1>3, <1>7, <2>1 DEF Near
  <2>3. Near(e, e)
    BY <1>1, <1>3 DEF Near
  <2> QED
    BY <1>3, <1>6, <1>7, <2>2, <2>3 DEF Comparable
<1>9. Distinct(heap, len + 1)
  <2> SUFFICES ASSUME NEW i \in 0 .. len, NEW j \in 0 .. len, heap[i].id = heap[j].id
               PROVE  i = j
    BY <1>2 DEF Distinct
  <2>1. \A k \in 0 .. len - 1 : heap[k] = items[k] /\ items[k].id < utimeq_id /\ items[k].id \in Int
    <3> SUFFICES ASSUME NEW k \in 0 .. len - 1
                 PROVE  heap[k] = items[k] /\ items[k].id < utimeq_id /\ items[k].id \in Int
      OBVIOUS
    <3>1. k \in 0 .. len /\ k # len /\ items[k] \in E
      BY <1>2 DEF EntriesOf
    <3>2. heap[k] = items[k]
      BY <1>2, <1>4, <3>1
    <3>3. items[k].id < utimeq_id
      BY <1>7, <3>1
    <3> HIDE DEF E
    <3>4. items[k].id \in 0 .. MaxIds - 1
      BY <1>6, <3>1 DEF Comparable
    <3> QED
      BY <1>1, <3>2, <3>3, <3>4
  <2>2. heap[len].id = utimeq_id /\ utimeq_id \in Int
    BY <1>2, <1>3, <1>4
  <2>3. i \in 0 .. len - 1 \/ i = len
    BY <1>2
  <2>4. j \in 0 .. len - 1 \/ j = len
    BY <1>2
  <2>5. \A k, l \in 0 .. len - 1 : items[k].id = items[l].id => k = l
    BY DEF IInv, IdInv, Distinct
  <2> QED
    BY <2>1, <2>2, <2>3, <2>4, <2>5
<1>10. ASSUME NEW i \in 1 .. len PROVE Parent(i) # len /\ (i # len => Below(heap, i))
  <2>1. Parent(i) \in Nat /\ Parent(i) < i
    <3>1. i \in Nat \ {0}
      BY <1>2
    <3> QED
      BY <3>1, ParentFacts
  <2>2. i <= len /\ i \in 0 .. len /\ Parent(i) < len /\ Parent(i) \in 0 .. len
    BY <1>2, <2>1
  <2>3. ASSUME i # len PROVE Below(heap, i)
    <3>1. heap[i] = items[i] /\ heap[Parent(i)] = items[Parent(i)] /\ i \in 1 .. len - 1
      BY <1>2, <1>4, <2>1, <2>2, <2>3
    <3> QED
      BY <3>1 DEF IInv, HeapInv, Below
  <2> QED
    BY <1>2, <2>1, <2>2, <2>3
<1> QED
  BY <1>2, <1>4, <1>5, <1>8, <1>9, <1>10 DEF heap, e

LEMMA PushInv ==
    ASSUME IInv, NEW due \in 0 .. MaxDue, heappush(due)
    PROVE  /\ IInv'
           /\ EntriesOf(items, len)' = EntriesOf(items, len) \cup {Entry(due)}
<1> DEFINE heap == [items EXCEPT ![len] = Entry(due)]
           n == len + 1
<1>1. /\ len \in Nat /\ 0 .. len \subseteq DOMAIN heap /\ DOMAIN heap = DOMAIN items
      /\ heap[len] = Entry(due) /\ \A i \in DOMAIN items : i # len => heap[i] = items[i]
      /\ EntriesOf(heap, n) = EntriesOf(items, len) \cup {Entry(due)}
      /\ Comparable(EntriesOf(heap, n))
      /\ Distinct(heap, n)
      /\ \A i \in 1 .. len : i # len => Below(heap, i)
      /\ \A i \in 1 .. len : Parent(i) # len
  BY PushedFacts
<1>2. /\ n \in Nat /\ 0 .. n - 1 = 0 .. len /\ 1 .. n - 1 = 1 .. len /\ len \in 0 .. n - 1
  BY <1>1
<1>3. /\ items' = heap_siftdown(heap, 0, len) /\ len < alloc
      /\ len' = n /\ utimeq_id' = (utimeq_id + 1) % MaxIds
  BY DEF heappush, Entry
<1> HIDE DEF heap, n
<1>4. /\ DOMAIN items' = DOMAIN heap
      /\ \A i \in DOMAIN heap \ (0 .. n - 1) : items'[i] = heap[i]
      /\ EntriesOf(items', n) = EntriesOf(heap, n)
      /\ Distinct(items', n)
      /\ \A i \in 1 .. n - 1 : Below(items', i)
  BY <1>1, <1>2, <1>3, SiftDown
<1>5. EntriesOf(items, len)' = EntriesOf(items, len) \cup {Entry(due)}
  BY <1>1, <1>3, <1>4 DEF EntriesOf
<1>6. IdInv' /\ HeapInv' /\ WindowInv'
  BY <1>1, <1>3, <1>4 DEF IdInv, HeapInv, WindowInv, Distinct, EntriesOf, Below
<1>7. RestInv'
  <2>1. \A i \in DOMAIN items : i \in Nat
    BY TimeQueueAssumption DEF IInv, TypeOK
  <2>2. \A i \in DOMAIN items : i >= n => i # len /\ i \notin 0 .. n - 1 /\ i >= len
    BY <1>1, <2>1 DEF n
  <2> QED
    BY <1>1, <1>3, <1>4, <2>2 DEF IInv, RestInv
<1>8. TypeOK'
  <2> DEFINE T == [time : 0 .. MODULO - 1, id : 0 .. MaxIds - 1, callback : -1 .. MaxDue]
  <2>1. /\ MaxDue \in Nat /\ MaxIds \in Nat \ {0} /\ alloc \in Nat /\ MODULO \in Nat
    BY TimeQueueAssumption
  <2>2. items \in [0 .. alloc - 1 -> T] /\ len \in Nat /\ utimeq_id \in Nat
    BY <2>1 DEF IInv, TypeOK
  <2>3. \A i \in 0 .. n - 1 : items'[i] \in T
    <3>1. \A i \in 0 .. n - 1 : items'[i] \in EntriesOf(heap, n)
      BY <1>4 DEF EntriesOf
    <3>2. \A f \in EntriesOf(heap, n) : f \in T
      BY <1>1, <2>1 DEF Comparable
    <3> QED
      BY <3>1, <3>2
  <2>4. \A i \in (0 .. alloc - 1) \ (0 .. n - 1) : items'[i] \in T
    <3>1. \A i \in (0 .. alloc - 1) \ (0 .. n - 1) : items'[i] = items[i]
      BY <1>1, <1>2, <1>4, <2>2
    <3> QED
      BY <2>2, <3>1
  <2>5. items' \in [0 .. alloc - 1 -> T]
    <3>1. items' = [i \in DOMAIN heap |-> items'[i]]
      BY <1>3 DEF heap_siftdown, Shift
    <3>2. DOMAIN heap = 0 .. alloc - 1
      BY <1>1, <2>2
    <3> HIDE DEF T
    <3> QED
      BY <2>3, <2>4, <3>1, <3>2
  <2>6. len' \in 0 .. alloc /\ utimeq_id' \in 0 .. MaxIds - 1
    BY <1>3, <2>1, <2>2 DEF n
  <2> QED
    BY <2>5, <2>6 DEF TypeOK
<1> QED
  BY <1>5, <1>6, <1>7, <1>8 DEF IInv

\* The array of pop before the first entry goes down.
Moved == [[items EXCEPT ![0] = items[len - 1]] EXCEPT ![len - 1] = Vacant]

LEMMA MovedFacts ==
    ASSUME IInv, len > 0
    PROVE  /\ len \in Nat /\ len - 1 \in Nat /\ DOMAIN items = 0 .. alloc - 1
           /\ DOMAIN Moved = DOMAIN items
           /\ 0 .. len - 1 \subseteq DOMAIN items
           /\ \A i \in 1 .. len - 2 : Moved[i] = items[i]
           /\ len > 1 => Moved[0] = items[len - 1]
           /\ \A i \in DOMAIN items : i >= len - 1 => Moved[i] = Vacant
<1>1. alloc \in Nat /\ len \in 0 .. alloc /\ DOMAIN items = 0 .. alloc - 1
  BY TimeQueueAssumption DEF IInv, TypeOK
<1>2. /\ len \in Nat /\ len - 1 \in Nat /\ len - 1 \in DOMAIN items /\ 0 \in DOMAIN items
      /\ \A i \in 0 .. len - 1 : i \in DOMAIN items
      /\ \A i \in DOMAIN items : i \in Nat
  BY <1>1
<1>3. \A i \in DOMAIN items :
          Moved[i] = IF i = len - 1 THEN Vacant ELSE IF i = 0 THEN items[len - 1] ELSE items[i]
  BY <1>2 DEF Moved
<1>4. DOMAIN Moved = DOMAIN items
  BY DEF Moved
<1>5. \A i \in DOMAIN items : i >= len => items[i] = Vacant
  BY DEF IInv, RestInv
<1>6. \A i \in DOMAIN items : i >= len - 1 => Moved[i] = Vacant
  <2> SUFFICES ASSUME NEW i \in DOMAIN items, i >= len - 1 PROVE Moved[i] = Vacant
    OBVIOUS
  <2>1. i = len - 1 \/ (i >= len /\ i # 0 /\ i # len - 1)
    BY <1>2
  <2> QED
    BY <1>3, <1>5, <2>1
<1>7. \A i \in 1 .. len - 2 : Moved[i] = items[i]
  <2>1. \A i \in 1 .. len - 2 : i \in DOMAIN items /\ i # len - 1 /\ i # 0
    BY <1>1
  <2> QED
    BY <1>3, <2>1
<1>8. len > 1 => Moved[0] = items[len - 1]
  BY <1>2, <1>3
<1> QED
  BY <1>1, <1>2, <1>4, <1>6, <1>7, <1>8

\* Without its first entry the heap is one again, and nothing else is missing.
LEMMA PopInv ==
    ASSUME IInv, heappop
    PROVE  /\ IInv'
           /\ EntriesOf(items, len)' = {items[i] : i \in 1 .. len - 1}
<1> DEFINE n == len - 1
<1>1. len > 0 /\ len' = n /\ utimeq_id' = utimeq_id
      /\ items' = IF len > 1 THEN heap_siftup(Moved, n, 0) ELSE Moved
  BY DEF heappop, Moved
<1>2. /\ len \in Nat /\ n \in Nat /\ DOMAIN items = 0 .. alloc - 1
      /\ DOMAIN Moved = DOMAIN items
      /\ 0 .. len - 1 \subseteq DOMAIN items
      /\ \A i \in 1 .. n - 1 : Moved[i] = items[i]
      /\ len > 1 => Moved[0] = items[n]
      /\ \A i \in DOMAIN items : i >= n => Moved[i] = Vacant
  <2>1. 1 .. len - 2 = 1 .. n - 1 /\ 0 .. n = 0 .. len - 1
    BY <1>1, MovedFacts
  <2> QED
    BY <1>1, <2>1, MovedFacts
<1>3. 0 .. n - 1 \subseteq DOMAIN Moved /\ n < len /\ len <= alloc /\ alloc \in Nat
  BY <1>2, TimeQueueAssumption DEF IInv, TypeOK
\* From where the moved array has its entries.
<1> DEFINE src(i) == IF i = 0 THEN n ELSE i
<1>4. \A i \in 0 .. n - 1 : Moved[i] = items[src(i)] /\ src(i) \in 1 .. len - 1
  <2> SUFFICES ASSUME NEW i \in 0 .. n - 1
               PROVE  Moved[i] = items[src(i)] /\ src(i) \in 1 .. len - 1
    OBVIOUS
  <2>1. CASE i = 0
    BY <1>2, <2>1
  <2>2. CASE i # 0
    <3>1. i \in 1 .. n - 1
      BY <1>2, <2>2
    <3> QED
      BY <1>2, <2>2, <3>1
  <2> QED
    BY <2>1, <2>2
<1>5. \A j \in 1 .. len - 1 : \E i \in 0 .. n - 1 : src(i) = j
  <2> SUFFICES ASSUME NEW j \in 1 .. len - 1 PROVE \E i \in 0 .. n - 1 : src(i) = j
    OBVIOUS
  <2>1. CASE j = n
    BY <1>2, <2>1
  <2>2. CASE j # n
    <3>1. j \in 0 .. n - 1 /\ src(j) = j
      BY <1>2, <2>2
    <3> QED
      BY <3>1
  <2> QED
    BY <2>1, <2>2
<1>6. \A i, j \in 0 .. n - 1 : src(i) = src(j) => i = j
  BY <1>2
<1> HIDE DEF src
<1>7. EntriesOf(Moved, n) = {items[i] : i \in 1 .. len - 1}
  BY <1>4, <1>5 DEF EntriesOf
<1>8. Comparable(EntriesOf(Moved, n))
  <2>1. EntriesOf(Moved, n) \subseteq EntriesOf(items, len)
    BY <1>2, <1>7 DEF EntriesOf
  <2>2. Comparable(EntriesOf(items, len))
    BY DEF IInv, WindowInv
  <2> QED
    BY <2>1, <2>2 DEF Comparable
<1>9. Distinct(Moved, n)
  <2>1. \A i, j \in 0 .. len - 1 : items[i].id = items[j].id => i = j
    BY DEF IInv, IdInv, Distinct
  <2>2. \A i \in 1 .. len - 1 : i \in 0 .. len - 1
    BY <1>2
  <2> QED
    BY <1>4, <1>6, <2>1, <2>2 DEF Distinct
<1>10. ASSUME NEW i \in 1 .. n - 1, Parent(i) # 0 PROVE Below(Moved, i)
  <2>1. i \in Nat \ {0} /\ i \in 1 .. len - 1
    BY <1>2
  <2>2. Parent(i) \in Nat /\ Parent(i) < i
    BY <2>1, ParentFacts
  <2>3. Parent(i) \in 1 .. n - 1
    BY <1>2, <1>10, <2>1, <2>2
  <2> QED
    BY <1>2, <2>1, <2>3 DEF IInv, HeapInv, Below
<1> HIDE DEF n
<1>11. /\ DOMAIN items' = DOMAIN items
       /\ \A i \in DOMAIN items \ (0 .. n - 1) : items'[i] = Moved[i]
       /\ EntriesOf(items', n) = EntriesOf(Moved, n)
       /\ Distinct(items', n)
       /\ \A i \in 1 .. n - 1 : Below(items', i)
  <2>1. CASE len > 1
    <3>1. n > 0 /\ items' = heap_siftup(Moved, n, 0)
      BY <1>1, <1>2, <2>1 DEF n
    <3> QED
      BY <1>2, <1>3, <1>8, <1>9, <1>10, <3>1, SiftUp
  <2>2. CASE ~(len > 1)
    <3>1. items' = Moved /\ 1 .. n - 1 = {}
      BY <1>1, <1>2, <2>2 DEF n
    <3> QED
      BY <1>2, <1>9, <3>1
  <2> QED
    BY <2>1, <2>2
<1>12. EntriesOf(items, len)' = {items[i] : i \in 1 .. len - 1}
  BY <1>1, <1>7, <1>11 DEF EntriesOf
<1>13. IdInv' /\ HeapInv' /\ WindowInv'
  BY <1>1, <1>8, <1>11 DEF IdInv, HeapInv, WindowInv, Distinct, EntriesOf, Below
<1>14. RestInv'
  <2>1. \A i \in DOMAIN items : i >= n => i \notin 0 .. n - 1
    BY <1>2
  <2> QED
    BY <1>1, <1>2, <1>11, <2>1 DEF RestInv
<1>15. TypeOK'
  <2> DEFINE T == [time : 0 .. MODULO - 1, id : 0 .. MaxIds - 1, callback : -1 .. MaxDue]
  <2>1. /\ MaxDue \in Nat /\ MaxIds \in Nat \ {0} /\ alloc \in Nat /\ MODULO \in Nat /\ MODULO > 1
    BY TimeQueueAssumption
  <2>2. Vacant \in T
    BY <2>1 DEF Vacant
  <2>3. \A i \in 0 .. n - 1 : items'[i] \in T
    <3>1. \A i \in 0 .. n - 1 : items'[i] \in EntriesOf(Moved, n)
      BY <1>11 DEF EntriesOf
    <3>2. \A f \in EntriesOf(Moved, n) : f \in T
      BY <1>8, <2>1 DEF Comparable
    <3> QED
      BY <3>1, <3>2
  <2>4. \A i \in (0 .. alloc - 1) \ (0 .. n - 1) : items'[i] \in T
    <3>1. \A i \in (0 .. alloc - 1) \ (0 .. n - 1) : i >= n
      BY <1>2
    <3> HIDE DEF T
    <3> QED
      BY <1>2, <1>11, <2>2, <3>1
  <2>5. items' \in [0 .. alloc - 1 -> T]
    <3>1. items' = [i \in DOMAIN items |-> items'[i]]
      <4>1. CASE len > 1
        <5>1. items' = heap_siftup(Moved, n, 0)
          BY <1>1, <4>1
        <5>2. PICK h : h = heap_siftup(Moved, n, 0)
          OBVIOUS
        <5>3. h = [i \in DOMAIN Moved |-> h[i]]
          BY <5>2 DEF heap_siftup, heap_siftdown, Shift
        <5> QED
          BY <1>2, <5>1, <5>2, <5>3
      <4>2. CASE ~(len > 1)
        <5>1. items \in [0 .. alloc - 1 -> T]
          BY DEF IInv, TypeOK
        <5>2. Moved = [i \in DOMAIN items |-> Moved[i]]
          BY <5>1 DEF Moved
        <5> QED
          BY <1>1, <4>2, <5>2
      <4> QED
        BY <4>1, <4>2
    <3> HIDE DEF T
    <3> QED
      BY <1>2, <2>3, <2>4, <3>1
  <2>6. len' \in 0 .. alloc /\ utimeq_id' \in 0 .. MaxIds - 1
    BY <1>1, <1>2, <1>3 DEF IInv, TypeOK
  <2> QED
    BY <2>5, <2>6 DEF TypeOK
<1> QED
  BY <1>12, <1>13, <1>14, <1>15 DEF IInv

LEMMA NextInv == IInv /\ [Next]_vars => IInv'
<1> SUFFICES ASSUME IInv, [Next]_vars PROVE IInv'
  OBVIOUS
<1>1. ASSUME NEW due \in 0 .. MaxDue, heappush(due) PROVE IInv'
  BY <1>1, PushInv
<1>2. CASE heappop
  BY <1>2, PopInv
<1>3. CASE UNCHANGED vars
  BY <1>3 DEF vars, IInv, TypeOK, RestInv, WindowInv, IdInv, HeapInv, EntriesOf, Distinct, Below
<1> QED
  BY <1>1, <1>2, <1>3 DEF Next

LEMMA HeapOrder == Spec => []IInv
BY InitInv, NextInv, PTL DEF Spec

-----------------------------------------------------------------------------
(* Theorems                                                                 *)

\* At every moment the array has its type and the slots behind the heap hold no
\* callback, however the times wrap: heappop clears the slot it takes the last
\* entry from, and heap_siftup moves entries within the heap only.
THEOREM QueueRetainsNothing == Spec => []NothingRetained
<1>1. IInv => NothingRetained
  <2> SUFFICES ASSUME IInv, NEW i \in DOMAIN items PROVE i < len <=> items[i] # Vacant
    BY DEF IInv, NothingRetained
  <2>1. i \in Nat /\ len \in Nat
    BY TimeQueueAssumption DEF IInv, TypeOK
  <2>2. CASE i < len
    <3>1. items[i] \in EntriesOf(items, len)
      BY <2>1, <2>2 DEF EntriesOf
    <3>2. items[i].callback \in 0 .. MaxDue
      BY <3>1 DEF IInv, WindowInv, Comparable
    <3>3. items[i].callback # -1
      BY <3>2, TimeQueueAssumption
    <3> QED
      BY <2>2, <3>3 DEF Vacant
  <2>3. CASE i >= len
    BY <2>1, <2>3 DEF IInv, RestInv
  <2> QED
    BY <2>1, <2>2, <2>3
<1> QED
  BY <1>1, HeapOrder, PTL

\* The first entry of the heap is due before every other one.
LEMMA RootFirst ==
    ASSUME IInv, NEW i \in 1 .. len - 1
    PROVE  Earlier(items[0], items[i])
<1> DEFINE E == EntriesOf(items, len)
           Bad == {j \in 1 .. len - 1 : ~NotLater(items[0], items[j])}
<1>1. len \in Nat /\ \A j \in 0 .. len - 1 : items[j] \in E
  BY TimeQueueAssumption DEF IInv, TypeOK, EntriesOf
<1>2. Comparable(E)
  BY DEF IInv, WindowInv
<1>3. /\ \A e, f \in E : NotLater(e, f) \/ NotLater(f, e)
      /\ \A e, f, g \in E : NotLater(e, f) /\ NotLater(f, g) => NotLater(e, g)
  <2> HIDE DEF E
  <2> QED
    BY <1>2, OrderFacts
<1> HIDE DEF E
<1>4. Bad = {}
  <2> SUFFICES ASSUME Bad # {} PROVE FALSE
    OBVIOUS
  <2>1. Bad \in SUBSET Nat
    BY <1>1
  <2> HIDE DEF Bad
  <2>2. PICK j \in Bad : \A k \in Bad : j <= k
    BY <2>1, Least
  <2>3. j \in 1 .. len - 1 /\ ~NotLater(items[0], items[j])
    BY <2>2 DEF Bad
  <2>4. j \in Nat \ {0}
    BY <1>1, <2>3
  <2>5. Parent(j) \in Nat /\ Parent(j) < j
    BY <2>4, ParentFacts
  <2>6. NotLater(items[Parent(j)], items[j])
    BY <2>3 DEF IInv, HeapInv, Below
  <2>7. NotLater(items[0], items[Parent(j)])
    <3>1. CASE Parent(j) = 0
      <4>1. items[0] \in E
        BY <1>1, <2>3
      <4> QED
        BY <1>3, <3>1, <4>1
    <3>2. CASE Parent(j) # 0
      <4>1. Parent(j) \in 1 .. len - 1
        BY <1>1, <2>3, <2>5, <3>2
      <4>2. Parent(j) \notin Bad
        BY <2>2, <2>4, <2>5
      <4> QED
        BY <4>1, <4>2 DEF Bad
    <3> QED
      BY <3>1, <3>2
  <2>8. items[0] \in E /\ items[Parent(j)] \in E /\ items[j] \in E
    BY <1>1, <2>3, <2>5
  <2> QED
    BY <1>3, <2>3, <2>6, <2>7, <2>8
<1>5. NotLater(items[0], items[i])
  BY <1>4
<1>6. items[0].id # items[i].id
  <2>1. 0 \in 0 .. len - 1 /\ i \in 0 .. len - 1 /\ i # 0
    BY <1>1
  <2> QED
    BY <2>1 DEF IInv, IdInv, Distinct
<1>7. items[0] \in E /\ items[i] \in E
  BY <1>1
<1>8. \A e \in E : e.callback \in Int /\ e.id \in Int
  BY <1>2, TimeQueueAssumption DEF Comparable
<1> QED
  BY <1>5, <1>6, <1>7, <1>8 DEF NotLater, Earlier

LEMMA PushPuts ==
    ASSUME IInv, NEW due \in 0 .. MaxDue, heappush(due)
    PROVE  D!Next
<1> DEFINE t == TaskOf(Entry(due))
<1>1. EntriesOf(items, len)' = EntriesOf(items, len) \cup {Entry(due)}
  BY PushInv
<1>2. Pending = EntriesOf(items, len) /\ Pending' = EntriesOf(items, len)'
  BY DEF Pending, EntriesOf
<1>3. t \in Tasks /\ t.id = utimeq_id
  BY DEF IInv, TypeOK, TaskOf, Entry, Tasks
<1>4. \A e \in Pending : e.id < utimeq_id /\ e.id \in Int /\ utimeq_id \in Int
  <2>1. Comparable(Pending)
    BY <1>2 DEF IInv, WindowInv
  <2>2. utimeq_id \in Int
    BY TimeQueueAssumption DEF IInv, TypeOK
  <2> QED
    BY <2>1, <2>2, TimeQueueAssumption DEF heappush, Comparable
<1>5. t \notin {TaskOf(e) : e \in Pending}
  <2> SUFFICES ASSUME NEW e \in Pending, TaskOf(e) = t PROVE FALSE
    OBVIOUS
  <2>1. TaskOf(e).id = e.id
    BY DEF TaskOf
  <2> QED
    BY <1>3, <1>4, <2>1
<1>6. {TaskOf(e) : e \in Pending'} = {TaskOf(e) : e \in Pending} \cup {t}
  BY <1>1, <1>2
<1>7. D!Put(t)
  BY <1>5, <1>6 DEF D!Put
<1> QED
  BY <1>3, <1>7 DEF D!Next

LEMMA PopTakes ==
    ASSUME IInv, heappop
    PROVE  D!Next
<1> DEFINE t == TaskOf(items[0])
           P == {TaskOf(e) : e \in Pending}
<1>1. len \in Nat /\ len > 0
  BY TimeQueueAssumption DEF heappop, IInv, TypeOK
<1>2. 0 .. len - 1 = {0} \cup 1 .. len - 1 /\ 0 \notin 1 .. len - 1
  BY <1>1
<1>3. P = {TaskOf(items[i]) : i \in 0 .. len - 1}
  BY DEF Pending
<1>4. Pending' = {items[i] : i \in 1 .. len - 1}
  <2>1. EntriesOf(items, len)' = {items[i] : i \in 1 .. len - 1}
    BY PopInv
  <2> QED
    BY <2>1 DEF Pending, EntriesOf
<1>5. P' = {TaskOf(items[i]) : i \in 1 .. len - 1}
  BY <1>4
<1>6. \A i \in 1 .. len - 1 : TaskOf(items[i]) # t /\ D!Before(t, TaskOf(items[i]))
  <2> SUFFICES ASSUME NEW i \in 1 .. len - 1
               PROVE  TaskOf(items[i]) # t /\ D!Before(t, TaskOf(items[i]))
    OBVIOUS
  <2>1. items[0].id # items[i].id
    BY <1>2 DEF IInv, IdInv, Distinct
  <2>2. TaskOf(items[i]).id = items[i].id /\ t.id = items[0].id
    BY DEF TaskOf
  <2>3. TaskOf(items[i]).due = items[i].callback /\ t.due = items[0].callback
    BY DEF TaskOf
  <2>4. Earlier(items[0], items[i])
    BY RootFirst
  <2> QED
    BY <2>1, <2>2, <2>3, <2>4 DEF Earlier, D!Before
<1>7. t \in Tasks
  <2>1. items[0] \in EntriesOf(items, len)
    BY <1>2 DEF EntriesOf
  <2>2. items[0] \in [time : 0 .. MODULO - 1, id : 0 .. MaxIds - 1, callback : 0 .. MaxDue]
    BY <2>1 DEF IInv, WindowInv, Comparable
  <2> QED
    BY <2>2 DEF TaskOf, Tasks
<1> HIDE DEF t
<1>8. t \in P /\ P = P' \cup {t} /\ t \notin P' /\ \A s \in P \ {t} : D!Before(t, s)
  BY <1>2, <1>3, <1>5, <1>6 DEF t
<1>9. D!Take(t)
  <2> HIDE DEF P
  <2>1. P' = P \ {t}
    BY <1>8
  <2> QED
    BY <1>8, <2>1 DEF D!Take, P
<1> QED
  BY <1>7, <1>9 DEF D!Next

\* pop hands out the pending entry that is due first, in the order of push among
\* those due at the same tick, and loses and repeats none: although the heap sees
\* only times that wrap, its steps are those of a queue that knows the moments.
THEOREM QueueIsInOrder == Spec => ImplementsDueQueue
<1>1. Init => D!Init
  <2> SUFFICES ASSUME Init PROVE {TaskOf(e) : e \in Pending} = {}
    BY DEF D!Init
  <2>1. 0 .. len - 1 = {}
    BY DEF Init
  <2> QED
    BY <2>1 DEF Pending
<1>2. IInv /\ [Next]_vars => [D!Next]_({TaskOf(e) : e \in Pending})
  <2> SUFFICES ASSUME IInv, [Next]_vars PROVE [D!Next]_({TaskOf(e) : e \in Pending})
    OBVIOUS
  <2>1. ASSUME NEW due \in 0 .. MaxDue, heappush(due) PROVE D!Next
    BY <2>1, PushPuts
  <2>2. CASE heappop
    BY <2>2, PopTakes
  <2>3. CASE UNCHANGED vars
    BY <2>3 DEF vars, Pending
  <2> QED
    BY <2>1, <2>2, <2>3 DEF Next
<1> QED
  BY <1>1, <1>2, HeapOrder, PTL DEF Spec, ImplementsDueQueue, D!Spec

=============================================================================
