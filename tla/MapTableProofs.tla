--------------------------- MODULE MapTableProofs ---------------------------
(***************************************************************************)
(* Proofs about the hash tables, for tables of every size and every set of *)
(* keys and hashes.                                                        *)
(***************************************************************************)
EXTENDS MapTable, FiniteSetTheorems, TLAPS

\* popitem is not called on an ordered dictionary, and only a dict runs out of memory
\* when it grows: the README shows what happens otherwise.
SafeUse == Failing \subseteq {"map"} /\ "ordered" \notin Popping

Used == {p \in Slots : Filled(table[p])}
Waiting == {p \in DOMAIN old : p >= oldAt /\ Filled(old[p])}

-----------------------------------------------------------------------------
(* The inductive invariant                                                  *)

\* Types of what a rehash keeps; a key that is stored has a value.
StoreInv ==
    /\ \E n \in Nat : old \in [0 .. n - 1 -> Slot]
    /\ \A p \in Used : table[p].val \in Values \cup {Unit}
    /\ \A p \in Waiting : old[p].val \in Values \cup {Unit}
    /\ ~Idle => form # "ordered" /\ pending.key \in Keys /\ pending.val \in Values \cup {Unit}
    /\ Idle => DOMAIN old = {}

\* used counts the entries; those of an array are at its beginning.
CountInv ==
    /\ form # "ordered" => used = Cardinality(Used)
    /\ form = "ordered" => \A p \in Slots : Filled(table[p]) <=> p < used

\* No key is stored twice, nor will it be by the rest of a rehash.
UniqueInv ==
    /\ \A p, q \in Used : Eq[table[p].key] = Eq[table[q].key] => p = q
    /\ \A p, q \in Waiting : Eq[old[p].key] = Eq[old[q].key] => p = q
    /\ \A p \in Used, q \in Waiting : Eq[table[p].key] # Eq[old[q].key]
    /\ ~Idle => /\ \A p \in Used : Eq[table[p].key] # Eq[pending.key]
                /\ \A p \in Waiting : Eq[old[p].key] # Eq[pending.key]

\* No slot is empty between the one where the search for a key begins and its own.
ProbeInv ==
    form # "ordered" =>
        \A p \in Used, q \in Slots :
            Steps(table[p].key, q) < Steps(table[p].key, p) => table[q].key # Null

\* all_keys_are_qstrs is true of the table.
QstrInv == allQstrs => \A p \in Used : table[p].key \in Qstrs

IInv == TypeOK /\ StoreInv /\ CountInv /\ UniqueInv /\ ProbeInv /\ QstrInv

-----------------------------------------------------------------------------
(* The search                                                               *)

LEMMA SlotFacts ==
    ASSUME TypeOK
    PROVE  /\ alloc \in Nat /\ used \in Nat /\ Slots = 0 .. alloc - 1
           /\ \A p \in Slots : /\ table[p] \in Slot
                               /\ Filled(table[p]) <=> table[p].key \in Keys
                               /\ p \in Nat /\ p < alloc
           /\ \A p \in Used : p \in Slots /\ table[p].key \in Keys
           /\ Used \subseteq Slots
<1>1. /\ alloc \in Nat /\ used \in Nat /\ Slots = 0 .. alloc - 1
      /\ \A p \in Slots : table[p] \in Slot
  BY DEF TypeOK, Slots
<1>2. ASSUME NEW s \in Slot PROVE Filled(s) <=> s.key \in Keys
  BY KeyAssumption DEF Slot, Filled, Null, Sentinel
<1> QED
  BY <1>1, <1>2 DEF Used

\* The search for a key comes to every slot once, one after the other.
LEMMA StepsFacts ==
    ASSUME TypeOK, NEW k \in Keys, NEW p \in Slots
    PROVE  /\ Steps(k, p) \in 0 .. alloc - 1
           /\ \A q \in Slots : Steps(k, p) = Steps(k, q) => p = q
           /\ \A q \in Slots : Steps(k, p) < Steps(k, q) =>
                  Following(p) \in Slots /\ Steps(k, Following(p)) = Steps(k, p) + 1
<1>1. /\ alloc \in Nat \ {0} /\ Slots = 0 .. alloc - 1 /\ HashOf[k] \in Nat
  BY SlotFacts, KeyAssumption
<1>2. Home(k) \in 0 .. alloc - 1
  BY <1>1 DEF Home
<1>3. Steps(k, p) \in 0 .. alloc - 1
  BY <1>1, <1>2 DEF Steps
<1>4. ASSUME NEW q \in Slots, Steps(k, p) = Steps(k, q) PROVE p = q
  BY <1>1, <1>2, <1>4 DEF Steps
<1>5. ASSUME NEW q \in Slots, Steps(k, p) < Steps(k, q)
      PROVE  Following(p) \in Slots /\ Steps(k, Following(p)) = Steps(k, p) + 1
  BY <1>1, <1>2, <1>5 DEF Steps, Following
<1> QED
  BY <1>3, <1>4, <1>5

\* Equal keys are searched for along the same way.
LEMMA EqualSteps ==
    ASSUME NEW k \in Keys, NEW l \in Keys, Eq[k] = Eq[l]
    PROVE  \A p : Steps(k, p) = Steps(l, p)
BY KeyAssumption DEF Steps, Home

\* Comparing pointers is as good as comparing keys when it is done.
LEMMA SameFacts ==
    ASSUME TypeOK, QstrInv, NEW k \in Keys, NEW p \in Used
    PROVE  Same(k, table[p].key) <=> Eq[k] = Eq[table[p].key]
<1>1. table[p].key \in Keys
  BY SlotFacts
<1>2. CASE OnlyPtrs(k)
  <2>1. table[p].key \in Qstrs /\ k \notin Strs
    BY <1>2 DEF OnlyPtrs, QstrInv
  <2>2. Eq[table[p].key] = Eq[k] => k = table[p].key
    BY <1>1, <2>1, KeyAssumption
  <2> QED
    BY <1>2, <2>2 DEF Same
<1>3. CASE ~OnlyPtrs(k)
  BY <1>3 DEF Same
<1> QED
  BY <1>2, <1>3

\* A search for k ends at the one entry equal to k, if there is one.
LEMMA SearchFacts ==
    ASSUME IInv, NEW k \in Keys, NEW p \in Slots
    PROVE  /\ Matches(k, p) <=> p \in Used /\ Eq[k] = Eq[table[p].key]
           /\ Found(k, p) <=> Matches(k, p)
<1>1. TypeOK /\ QstrInv /\ ProbeInv /\ CountInv /\ UniqueInv
  BY DEF IInv
<1>2. ASSUME NEW q \in Slots
      PROVE  Matches(k, q) <=> q \in Used /\ Eq[k] = Eq[table[q].key]
  <2>1. ASSUME Matches(k, q) PROVE q \in Used /\ Eq[k] = Eq[table[q].key]
    <3>1. q \in Used /\ Same(k, table[q].key)
      BY <2>1 DEF Matches, Used
    <3> QED
      BY <1>1, <3>1, SameFacts
  <2>2. ASSUME q \in Used, Eq[k] = Eq[table[q].key] PROVE Matches(k, q)
    <3>1. Filled(table[q]) /\ Same(k, table[q].key) /\ table[q].key \in Keys
      BY <1>1, <2>2, SameFacts, SlotFacts DEF Used
    <3>2. CASE form = "ordered"
      BY <1>1, <3>1, <3>2 DEF Matches, Searched, CountInv
    <3>3. CASE form # "ordered"
      BY <1>1, <2>2, <3>1, <3>3, EqualSteps DEF Matches, Searched, ProbeInv
    <3> QED
      BY <3>2, <3>3
  <2> QED
    BY <2>1, <2>2
<1>3. ASSUME Matches(k, p) PROVE Found(k, p)
  <2>1. ASSUME NEW q \in Slots, Matches(k, q) PROVE q = p
    BY <1>1, <1>2, <1>3, <2>1 DEF UniqueInv
  <2>2. ~Earlier(k, p, p)
    <3>1. p \in Nat /\ Steps(k, p) \in Int
      BY <1>1, SlotFacts, StepsFacts
    <3> QED
      BY <3>1 DEF Earlier
  <2> QED
    BY <1>3, <2>1, <2>2 DEF Found
<1> QED
  BY <1>2, <1>3 DEF Found

-----------------------------------------------------------------------------
(* Changes to a slot of a hash table                                        *)

LEMMA UsedFinite ==
    ASSUME TypeOK
    PROVE  /\ IsFiniteSet(Slots) /\ Cardinality(Slots) = alloc
           /\ IsFiniteSet(Used) /\ Cardinality(Used) \in Nat /\ Cardinality(Used) <= alloc
<1>1. alloc \in Nat /\ Slots = 0 .. alloc - 1 /\ Used \subseteq Slots
  BY SlotFacts
<1>2. IsFiniteSet(0 .. alloc - 1) /\ Cardinality(0 .. alloc - 1) = alloc
  BY <1>1, FS_Interval
<1>3. IsFiniteSet(Used) /\ Cardinality(Used) <= alloc
  BY <1>1, <1>2, FS_Subset
<1> QED
  BY <1>1, <1>2, <1>3, FS_CardinalityType

\* A key that is not stored yet is put into the slot the search has found for it.
LEMMA PutFacts ==
    ASSUME IInv, form # "ordered", form' = form, alloc' = alloc,
           NEW k \in Keys, NEW v \in Values \cup {Unit}, NEW p, Available(k, p), Put(p, k, v),
           \A q \in Used : Eq[table[q].key] # Eq[k]
    PROVE  /\ p \in Slots /\ p \notin Used /\ Slots' = Slots /\ Used' = Used \cup {p}
           /\ table' \in [0 .. alloc - 1 -> Slot] /\ allQstrs' \in BOOLEAN
           /\ table'[p] = [key |-> k, val |-> v] /\ \A q \in Slots \ {p} : table'[q] = table[q]
           /\ used' \in 0 .. alloc /\ used' = Cardinality(Used')
           /\ ProbeInv' /\ QstrInv'
           /\ \A q, r \in Used' : Eq[table'[q].key] = Eq[table'[r].key] => q = r
<1>1. TypeOK /\ QstrInv /\ ProbeInv /\ CountInv /\ UniqueInv
  BY DEF IInv
<1>2. p \in Slots /\ ~Filled(table[p]) /\ Searched(k, p)
  BY DEF Available
<1>3. /\ table' = [table EXCEPT ![p] = [key |-> k, val |-> v]] /\ used' = used + 1
      /\ allQstrs' = (allQstrs /\ k \in Qstrs)
  BY DEF Put
<1>4. [key |-> k, val |-> v] \in Slot /\ Filled([key |-> k, val |-> v])
  BY KeyAssumption DEF Slot, Filled, Null, Sentinel
<1>5. /\ table' \in [0 .. alloc - 1 -> Slot] /\ Slots' = Slots
      /\ table'[p] = [key |-> k, val |-> v] /\ \A q \in Slots \ {p} : table'[q] = table[q]
  BY <1>1, <1>2, <1>3, <1>4 DEF TypeOK, Slots
<1>6. p \notin Used /\ Used' = Used \cup {p}
  BY <1>2, <1>4, <1>5 DEF Used, Filled
<1>7. \A q \in Used : q \in Slots \ {p} /\ table'[q] = table[q] /\ table[q].key \in Keys
  BY <1>1, <1>5, <1>6, SlotFacts
<1>8. used' \in 0 .. alloc /\ used' = Cardinality(Used')
  <2>1. Cardinality(Used') = Cardinality(Used) + 1 /\ IsFiniteSet(Used')
    BY <1>1, <1>6, UsedFinite, FS_AddElement
  <2>2. Used' \subseteq Slots
    BY <1>1, <1>2, <1>6, SlotFacts
  <2>3. Cardinality(Used') <= alloc
    BY <1>1, <2>2, UsedFinite, FS_Subset
  <2> QED
    BY <1>1, <1>3, <2>1, <2>3, UsedFinite, SlotFacts DEF CountInv
<1>9. \A l, q : Steps(l, q)' = Steps(l, q)
  BY DEF Steps, Home
<1>10. ASSUME NEW q \in Used', NEW r \in Slots, Steps(table'[q].key, r) < Steps(table'[q].key, q)
       PROVE  table'[r].key # Null
  <2>1. CASE r = p
    BY <1>5, <2>1, KeyAssumption
  <2>2. CASE r # p /\ q = p
    <3>1. table'[q].key = k /\ table'[r] = table[r]
      BY <1>5, <2>2
    <3> QED
      BY <1>2, <1>10, <2>2, <3>1 DEF Searched
  <2>3. CASE r # p /\ q # p
    BY <1>1, <1>5, <1>6, <1>7, <1>10, <2>3 DEF ProbeInv
  <2> QED
    BY <2>1, <2>2, <2>3
<1>11. ProbeInv'
  BY <1>5, <1>9, <1>10 DEF ProbeInv
<1>12. allQstrs' \in BOOLEAN /\ QstrInv'
  <2>1. allQstrs' \in BOOLEAN
    BY <1>3
  <2>2. ASSUME allQstrs', NEW q \in Used' PROVE table'[q].key \in Qstrs
    <3>1. allQstrs /\ k \in Qstrs
      BY <1>3, <2>2
    <3> QED
      BY <1>1, <1>5, <1>6, <1>7, <3>1 DEF QstrInv
  <2> QED
    BY <2>1, <2>2 DEF QstrInv
<1>13. \A q, r \in Used' : Eq[table'[q].key] = Eq[table'[r].key] => q = r
  BY <1>1, <1>5, <1>6, <1>7 DEF UniqueInv
<1> QED
  BY <1>2, <1>5, <1>6, <1>8, <1>11, <1>12, <1>13

\* A deleted slot is left as a sentinel, or empty where no search goes on behind it.
LEMMA VacateFacts ==
    ASSUME IInv, form # "ordered", form' = form, alloc' = alloc, allQstrs' = allQstrs,
           NEW p \in Used, NEW mark \in {Null, Sentinel}, Vacate(p, mark),
           mark = Null => table[Following(p)].key = Null
    PROVE  /\ Slots' = Slots /\ Used' = Used \ {p}
           /\ table' \in [0 .. alloc - 1 -> Slot]
           /\ \A q \in Slots \ {p} : table'[q] = table[q]
           /\ used' \in 0 .. alloc /\ used' = Cardinality(Used')
           /\ ProbeInv' /\ QstrInv'
           /\ \A q, r \in Used' : Eq[table'[q].key] = Eq[table'[r].key] => q = r
<1>1. TypeOK /\ QstrInv /\ ProbeInv /\ CountInv /\ UniqueInv
  BY DEF IInv
<1>2. /\ table' = [table EXCEPT ![p] = [key |-> mark, val |-> Null]] /\ used' = used - 1
  BY DEF Vacate
<1>3. p \in Slots /\ Filled(table[p])
  BY DEF Used
<1>4. [key |-> mark, val |-> Null] \in Slot /\ ~Filled([key |-> mark, val |-> Null])
  BY DEF Slot, Filled
<1>5. /\ table' \in [0 .. alloc - 1 -> Slot] /\ Slots' = Slots
      /\ table'[p] = [key |-> mark, val |-> Null] /\ \A q \in Slots \ {p} : table'[q] = table[q]
  BY <1>1, <1>2, <1>3, <1>4 DEF TypeOK, Slots
<1>6. Used' = Used \ {p}
  BY <1>3, <1>4, <1>5 DEF Used
<1>7. \A q \in Used' : q \in Used /\ q \in Slots \ {p} /\ table'[q] = table[q] /\ table[q].key \in Keys
  BY <1>1, <1>5, <1>6, SlotFacts
<1>8. used' \in 0 .. alloc /\ used' = Cardinality(Used')
  <2>1. Cardinality(Used') = Cardinality(Used) - 1 /\ IsFiniteSet(Used')
    BY <1>1, <1>6, UsedFinite, FS_RemoveElement
  <2>2. Cardinality(Used') \in Nat
    BY <2>1, FS_CardinalityType
  <2> QED
    BY <1>1, <1>2, <2>1, <2>2, UsedFinite, SlotFacts DEF CountInv
<1>9. \A l, q : Steps(l, q)' = Steps(l, q)
  BY DEF Steps, Home
<1>10. ASSUME NEW q \in Used', NEW r \in Slots, Steps(table[q].key, r) < Steps(table[q].key, q)
       PROVE  table'[r].key # Null
  <2>1. CASE r = p
    <3>1. SUFFICES mark # Null
      BY <1>5, <2>1
    <3>2. /\ table[q].key \in Keys /\ q \in Slots /\ Following(p) \in Slots
          /\ Steps(table[q].key, Following(p)) = Steps(table[q].key, p) + 1
      BY <1>1, <1>3, <1>7, <1>10, <2>1, StepsFacts
    <3>3. CASE Steps(table[q].key, Following(p)) = Steps(table[q].key, q)
      <4>1. Following(p) = q
        BY <1>1, <3>2, <3>3, StepsFacts
      <4> QED
        BY <1>7, <4>1, KeyAssumption
    <3>4. CASE Steps(table[q].key, Following(p)) # Steps(table[q].key, q)
      <4>1. Steps(table[q].key, Following(p)) < Steps(table[q].key, q)
        BY <1>1, <1>3, <1>10, <2>1, <3>2, <3>4, StepsFacts
      <4> QED
        BY <1>1, <1>7, <3>2, <4>1 DEF ProbeInv
    <3> QED
      BY <3>3, <3>4
  <2>2. CASE r # p
    BY <1>1, <1>5, <1>7, <1>10, <2>2 DEF ProbeInv
  <2> QED
    BY <2>1, <2>2
<1>11. ProbeInv'
  BY <1>5, <1>7, <1>9, <1>10 DEF ProbeInv
<1>12. QstrInv'
  BY <1>1, <1>7 DEF QstrInv
<1>13. \A q, r \in Used' : Eq[table'[q].key] = Eq[table'[r].key] => q = r
  BY <1>1, <1>7 DEF UniqueInv
<1> QED
  BY <1>5, <1>6, <1>8, <1>11, <1>12, <1>13

-----------------------------------------------------------------------------
(* Steps outside of a rehash                                                *)

rehash == <<old, oldAt, pending>>

LEMMA NothingWaits ==
    ASSUME IInv, Idle, UNCHANGED rehash
    PROVE  /\ Waiting = {} /\ Waiting' = {} /\ Idle' /\ oldAt' \in Nat
           /\ \E n \in Nat : old' \in [0 .. n - 1 -> Slot]
           /\ DOMAIN old' = {} /\ pending' = None
BY DEF IInv, StoreInv, TypeOK, Waiting, rehash, Idle

\* While there is no rehash, the invariant is about the table alone.
LEMMA IdleKeeps ==
    ASSUME IInv, Idle, UNCHANGED rehash, form' = form, alloc' \in Nat, used' \in 0 .. alloc',
           allQstrs' \in BOOLEAN, table' \in [0 .. alloc' - 1 -> Slot],
           answer' \in Values \cup {Unit, Missing},
           \A p \in Used' : table'[p].val \in Values \cup {Unit},
           \A p, q \in Used' : Eq[table'[p].key] = Eq[table'[q].key] => p = q,
           CountInv', ProbeInv', QstrInv'
    PROVE  IInv'
<1>1. /\ Waiting' = {} /\ Idle' /\ oldAt' \in Nat /\ \E n \in Nat : old' \in [0 .. n - 1 -> Slot]
      /\ DOMAIN old' = {} /\ pending' = None
  BY NothingWaits
<1>2. TypeOK'
  BY <1>1 DEF IInv, TypeOK
<1>3. StoreInv'
  BY <1>1 DEF StoreInv
<1>4. UniqueInv'
  BY <1>1 DEF UniqueInv
<1> QED
  BY <1>2, <1>3, <1>4 DEF IInv

\* At most the values of the entries change.
LEMMA KeysKept ==
    ASSUME IInv, Idle, UNCHANGED <<rehash, form, alloc, used, allQstrs>>,
           table' \in [0 .. alloc - 1 -> Slot], \A p \in Slots : table'[p].key = table[p].key,
           answer' \in Values \cup {Unit, Missing},
           \A p \in Used : table'[p].val \in Values \cup {Unit}
    PROVE  IInv'
<1>1. TypeOK /\ QstrInv /\ ProbeInv /\ CountInv /\ UniqueInv
  BY DEF IInv
<1>2. Slots' = Slots /\ Used' = Used
  BY <1>1 DEF TypeOK, Slots, Used, Filled
<1>3. \A l, q : Steps(l, q)' = Steps(l, q)
  BY DEF Steps, Home
<1>4. \A p \in Used : p \in Slots
  BY DEF Used
<1>5. CountInv'
  BY <1>1, <1>2 DEF CountInv, Filled
<1>6. ProbeInv'
  BY <1>1, <1>2, <1>3, <1>4 DEF ProbeInv
<1>7. QstrInv'
  BY <1>1, <1>2, <1>4 DEF QstrInv
<1>8. \A p, q \in Used' : Eq[table'[p].key] = Eq[table'[q].key] => p = q
  BY <1>1, <1>2, <1>4 DEF UniqueInv
<1>9. alloc' \in Nat /\ used' \in 0 .. alloc' /\ allQstrs' \in BOOLEAN
  BY <1>1 DEF TypeOK
<1> QED
  BY <1>2, <1>5, <1>6, <1>7, <1>8, <1>9, IdleKeeps

LEMMA AbsentFacts ==
    ASSUME IInv, NEW k \in Keys
    PROVE  Has(k) <=> \E q \in Used : Eq[table[q].key] = Eq[k]
<1>1. \A q \in Used : q \in Slots
  BY DEF Used
<1> QED
  BY <1>1, SearchFacts DEF Has

LEMMA ValueFacts ==
    ASSUME IInv
    PROVE  \A p \in Used : table[p].val \in Values \cup {Unit}
BY DEF IInv, StoreInv

LEMMA ReplaceStep ==
    ASSUME IInv, Idle, UNCHANGED <<rehash, form, alloc, used, allQstrs>>,
           NEW k \in Keys, NEW v \in Values \cup {Unit}, NEW replace \in BOOLEAN,
           NEW p \in Slots, Found(k, p),
           table' = IF replace THEN [table EXCEPT ![p].val = v] ELSE table,
           answer' = table'[p].val
    PROVE  IInv'
<1>1. TypeOK /\ p \in Used
  BY SearchFacts DEF IInv
<1>2. table[p] \in Slot /\ table[p].val \in Values \cup {Unit}
  BY <1>1, SlotFacts, ValueFacts
<1>3. [table[p] EXCEPT !.val = v] \in Slot
  BY <1>2 DEF Slot
<1>4. /\ table' \in [0 .. alloc - 1 -> Slot] /\ \A q \in Slots : table'[q].key = table[q].key
      /\ \A q \in Slots : q # p => table'[q] = table[q]
      /\ table'[p].val \in Values \cup {Unit}
  BY <1>1, <1>2, <1>3 DEF TypeOK, Slots, Slot
<1>5. \A q \in Used : table'[q].val \in Values \cup {Unit}
  BY <1>4, ValueFacts DEF Used
<1> QED
  BY <1>4, <1>5, KeysKept

\* The table gets an entry and otherwise stays as it is.
Inserts(k, v) ==
    \E p : /\ Used' = Used \cup {p} /\ table'[p].key = k /\ table'[p].val = v
           /\ \A q \in Used : table'[q] = table[q]

LEMMA PutHashStep ==
    ASSUME IInv, Idle, UNCHANGED <<rehash, form, alloc>>, form # "ordered",
           NEW k \in Keys, NEW v \in Values \cup {Unit}, ~Has(k),
           NEW p \in Slots, Available(k, p), Put(p, k, v), answer' = v
    PROVE  IInv' /\ Inserts(k, v)
<1>1. \A q \in Used : Eq[table[q].key] # Eq[k]
  BY AbsentFacts
<1>2. /\ p \in Slots \ Used /\ Slots' = Slots /\ Used' = Used \cup {p}
      /\ table' \in [0 .. alloc - 1 -> Slot] /\ allQstrs' \in BOOLEAN
      /\ table'[p] = [key |-> k, val |-> v] /\ \A q \in Slots \ {p} : table'[q] = table[q]
      /\ used' \in 0 .. alloc /\ used' = Cardinality(Used')
      /\ ProbeInv' /\ QstrInv'
      /\ \A q, r \in Used' : Eq[table'[q].key] = Eq[table'[r].key] => q = r
  BY <1>1, PutFacts
<1>3. \A q \in Used' : table'[q].val \in Values \cup {Unit}
  BY <1>2, ValueFacts DEF Used
<1>4. CountInv' /\ alloc' \in Nat
  BY <1>2, SlotFacts DEF CountInv, IInv
<1>5. Inserts(k, v)
  BY <1>2 DEF Inserts, Used
<1> QED
  BY <1>2, <1>3, <1>4, <1>5, IdleKeeps

\* An array that has one entry more, behind the others.
LEMMA ArrayAppended ==
    ASSUME IInv, Idle, UNCHANGED <<rehash, form>>, form = "ordered",
           NEW k \in Keys, NEW v \in Values \cup {Unit}, ~Has(k), answer' = v,
           alloc' \in Nat, used < alloc', used' = used + 1,
           table' \in [0 .. alloc' - 1 -> Slot], table'[used] = [key |-> k, val |-> v],
           \A q \in 0 .. alloc' - 1 : q < used => table'[q] = table[q],
           \A q \in 0 .. alloc' - 1 : q > used => ~Filled(table'[q]),
           allQstrs' = (allQstrs /\ k \in Qstrs)
    PROVE  IInv' /\ Inserts(k, v)
<1>1. TypeOK /\ QstrInv /\ CountInv /\ UniqueInv /\ used \in Nat /\ used <= alloc /\ alloc \in Nat
  BY SlotFacts DEF IInv, TypeOK
<1>2. \A q \in Used : Eq[table[q].key] # Eq[k] /\ q \in Slots
  BY AbsentFacts DEF Used
<1>3. Slots' = 0 .. alloc' - 1 /\ used \in Slots'
  BY <1>1 DEF Slots
<1>4. Filled(table'[used])
  BY KeyAssumption DEF Filled, Null, Sentinel
<1>5. \A q \in Slots' : q < used => q \in Used /\ table'[q] = table[q] /\ Filled(table'[q])
  <2> SUFFICES ASSUME NEW q \in Slots', q < used
               PROVE  q \in Used /\ table'[q] = table[q] /\ Filled(table'[q])
    OBVIOUS
  <2>1. q \in 0 .. alloc' - 1 /\ table'[q] = table[q]
    BY <1>3
  <2>2. q \in Nat /\ q < alloc
    BY <1>1, <2>1
  <2>3. q \in Slots
    BY <1>1, <2>2, SlotFacts
  <2> QED
    BY <1>1, <2>1, <2>3 DEF CountInv, Used
<1>6. \A q \in Slots' : q < used \/ q = used \/ q > used
  BY <1>1, <1>3
<1>7. CountInv'
  <2>1. ASSUME NEW q \in Slots' PROVE Filled(table'[q]) <=> q < used'
    <3>1. q \in 0 .. alloc' - 1
      BY <1>3
    <3>2. CASE q < used
      <4>1. q < used'
        BY <1>1, <3>1, <3>2
      <4> QED
        BY <1>5, <3>2, <4>1
    <3>3. CASE q = used
      <4>1. q < used'
        BY <1>1, <3>3
      <4> QED
        BY <1>4, <3>3, <4>1
    <3>4. CASE q > used
      <4>1. ~(q < used')
        BY <1>1, <3>1, <3>4
      <4> QED
        BY <3>1, <3>4, <4>1
    <3> QED
      BY <1>6, <3>2, <3>3, <3>4
  <2>2. form' = "ordered"
    OBVIOUS
  <2> QED
    BY <2>1, <2>2 DEF CountInv
<1>8. \A q \in Used' : q \in Slots' /\ (q = used \/ (q < used /\ q \in Used /\ table'[q] = table[q]))
  BY <1>3, <1>5, <1>6 DEF Used
<1>9. \A q \in Used' : table'[q].val \in Values \cup {Unit}
  BY <1>8, ValueFacts
<1>10. \A q, r \in Used' : Eq[table'[q].key] = Eq[table'[r].key] => q = r
  BY <1>1, <1>2, <1>8 DEF UniqueInv
<1>11. allQstrs' \in BOOLEAN /\ QstrInv'
  <2>1. allQstrs' \in BOOLEAN
    OBVIOUS
  <2>2. ASSUME allQstrs', NEW q \in Used' PROVE table'[q].key \in Qstrs
    <3>1. allQstrs /\ k \in Qstrs
      BY <2>2
    <3> QED
      BY <1>1, <1>8, <3>1 DEF QstrInv
  <2> QED
    BY <2>1, <2>2 DEF QstrInv
<1>12. ProbeInv'
  BY DEF ProbeInv
<1>13. used' \in 0 .. alloc'
  BY <1>1
<1>14. Inserts(k, v)
  <2>1. \A q \in Used : q \in Slots' /\ q < used
    BY <1>1, <1>2, <1>3, SlotFacts DEF CountInv, Used
  <2>2. Used' = Used \cup {used}
    BY <1>3, <1>4, <1>5, <1>8, <2>1 DEF Used
  <2> QED
    BY <1>5, <2>1, <2>2 DEF Inserts
<1> QED
  BY <1>7, <1>9, <1>10, <1>11, <1>12, <1>13, <1>14, IdleKeeps

LEMMA PutArrayStep ==
    ASSUME IInv, Idle, UNCHANGED <<rehash, form, alloc>>, form = "ordered", used < alloc,
           NEW k \in Keys, NEW v \in Values \cup {Unit}, ~Has(k),
           Put(used, k, v), answer' = v
    PROVE  IInv' /\ Inserts(k, v)
<1>1. TypeOK /\ CountInv /\ used \in Nat /\ alloc \in Nat /\ Slots = 0 .. alloc - 1
  BY SlotFacts DEF IInv
<1>2. [key |-> k, val |-> v] \in Slot
  BY DEF Slot
<1>3. /\ table' \in [0 .. alloc - 1 -> Slot] /\ table'[used] = [key |-> k, val |-> v]
      /\ \A q \in 0 .. alloc - 1 : q # used => table'[q] = table[q]
  BY <1>1, <1>2 DEF Put, TypeOK
<1>4. \A q \in 0 .. alloc - 1 : q > used => ~Filled(table'[q])
  BY <1>1, <1>3 DEF CountInv
<1>5. used' = used + 1 /\ allQstrs' = (allQstrs /\ k \in Qstrs)
  BY DEF Put
<1> QED
  BY <1>1, <1>3, <1>4, <1>5, ArrayAppended

LEMMA GrowArrayStep ==
    ASSUME IInv, Idle, UNCHANGED form, form = "ordered", used = alloc,
           NEW k \in Keys, NEW v \in Values \cup {Unit}, ~Has(k), GrowArray(k, v)
    PROVE  IInv' /\ Inserts(k, v)
<1>1. TypeOK /\ CountInv /\ used \in Nat /\ alloc \in Nat /\ Slots = 0 .. alloc - 1
  BY SlotFacts DEF IInv
<1>2. [key |-> k, val |-> v] \in Slot /\ EmptySlot \in Slot /\ ~Filled(EmptySlot)
  BY DEF Slot, EmptySlot, Filled
<1>3. /\ alloc' = alloc + 4 /\ used' = used + 1 /\ answer' = v /\ UNCHANGED rehash
      /\ allQstrs' = (allQstrs /\ k \in Qstrs)
      /\ table' = [q \in 0 .. alloc + 3 |->
                      IF q = used THEN [key |-> k, val |-> v]
                      ELSE IF q < used THEN table[q] ELSE EmptySlot]
  BY DEF GrowArray, rehash
<1>4. \A q \in 0 .. alloc' - 1 : q < used => table[q] \in Slot
  BY <1>1 DEF TypeOK
<1>5. /\ table' \in [0 .. alloc' - 1 -> Slot] /\ table'[used] = [key |-> k, val |-> v]
      /\ \A q \in 0 .. alloc' - 1 : q < used => table'[q] = table[q]
      /\ \A q \in 0 .. alloc' - 1 : q > used => ~Filled(table'[q])
  BY <1>1, <1>2, <1>3, <1>4
<1> QED
  BY <1>1, <1>3, <1>5, ArrayAppended

LEMMA MoveDownStep ==
    ASSUME IInv, Idle, UNCHANGED <<rehash, form, alloc, allQstrs>>, form = "ordered",
           NEW p \in Used, MoveDown(p)
    PROVE  IInv' /\ {table'[q] : q \in Used'} = {table[q] : q \in Used \ {p}}
<1>1. /\ TypeOK /\ QstrInv /\ CountInv /\ UniqueInv /\ used \in Nat /\ used <= alloc
      /\ alloc \in Nat /\ Slots = 0 .. alloc - 1 /\ p \in Slots /\ allQstrs \in BOOLEAN
  BY SlotFacts DEF IInv, TypeOK
<1>2. \A q \in Slots : q \in Used <=> q < used
  BY <1>1 DEF CountInv, Used
<1>3. /\ table' = [q \in Slots |->
                      IF q < p \/ q >= used THEN table[q]
                      ELSE IF q = used - 1 THEN EmptySlot ELSE table[q + 1]]
      /\ used' = used - 1 /\ answer' = table[p].val
  BY DEF MoveDown
<1>4. EmptySlot \in Slot /\ ~Filled(EmptySlot)
  BY DEF Slot, EmptySlot, Filled
<1>5. p < used
  BY <1>1, <1>2
<1>6. \A q \in Slots : q < used - 1 => q + 1 \in Slots
  BY <1>1
<1>7. table' \in [0 .. alloc - 1 -> Slot] /\ Slots' = Slots
  <2>1. \A q \in Slots : table'[q] \in Slot
    BY <1>1, <1>3, <1>4, <1>6, SlotFacts
  <2> QED
    BY <1>1, <1>3, <2>1 DEF Slots
<1>8. /\ \A q \in Slots : q < p => table'[q] = table[q] /\ q < used
      /\ \A q \in Slots : q >= p /\ q < used - 1 => table'[q] = table[q + 1]
      /\ \A q \in Slots : q >= used - 1 => ~Filled(table'[q])
  BY <1>1, <1>2, <1>3, <1>4, <1>5 DEF Used
<1>9. \A q \in Slots : q < used - 1 => Filled(table'[q])
  BY <1>1, <1>2, <1>6, <1>8 DEF Used
<1>10. CountInv'
  BY <1>1, <1>3, <1>7, <1>8, <1>9 DEF CountInv
\* Where the entry in slot q was before.
<1> DEFINE From(q) == IF q < p THEN q ELSE q + 1
<1>11. ASSUME NEW q \in Used'
       PROVE  q \in Nat /\ From(q) \in Used /\ table'[q] = table[From(q)]
  <2>1. q \in Slots /\ q < used - 1
    BY <1>1, <1>7, <1>8 DEF Used
  <2> QED
    BY <1>1, <1>2, <1>6, <1>8, <2>1
<1>12. \A q \in Used' : table'[q].val \in Values \cup {Unit}
  BY <1>11, ValueFacts
<1>13. ASSUME NEW q \in Used', NEW r \in Used', Eq[table'[q].key] = Eq[table'[r].key]
       PROVE  q = r
  <2>1. From(q) = From(r)
    BY <1>1, <1>11, <1>13 DEF UniqueInv
  <2> QED
    BY <1>1, <1>11, <2>1
<1>14. QstrInv' /\ ProbeInv'
  BY <1>1, <1>11 DEF QstrInv, ProbeInv
<1>15. used' \in 0 .. alloc' /\ answer' \in Values \cup {Unit, Missing}
  BY <1>1, <1>3, <1>5, ValueFacts
<1>16. IInv'
  BY <1>1, <1>7, <1>10, <1>12, <1>13, <1>14, <1>15, IdleKeeps
<1>17. \A q \in Used' : From(q) \in Used \ {p}
  BY <1>1, <1>11
<1>18. ASSUME NEW r \in Used \ {p} PROVE \E q \in Used' : From(q) = r
  <2>1. r \in Nat /\ r < used /\ r \in Slots
    BY <1>1, <1>2 DEF Used
  <2>2. CASE r < p
    <3>1. r \in Used'
      BY <1>1, <1>5, <1>7, <1>9, <2>1, <2>2 DEF Used
    <3> QED
      BY <2>2, <3>1
  <2>3. CASE r > p
    <3>1. r - 1 \in Slots /\ r - 1 < used - 1 /\ From(r - 1) = r
      BY <1>1, <2>1, <2>3
    <3> QED
      BY <1>7, <1>9, <3>1 DEF Used
  <2> QED
    BY <1>1, <2>1, <2>2, <2>3
<1> QED
  BY <1>11, <1>16, <1>17, <1>18

LEMMA VacateStep ==
    ASSUME IInv, Idle, UNCHANGED <<rehash, form, alloc, allQstrs>>, form # "ordered",
           NEW p \in Used, NEW mark \in {Vacated(p), Sentinel}, Vacate(p, mark)
    PROVE  IInv' /\ {table'[q] : q \in Used'} = {table[q] : q \in Used \ {p}}
<1>1. mark \in {Null, Sentinel} /\ (mark = Null => table[Following(p)].key = Null)
  BY DEF Vacated, Null, Sentinel
<1>2. /\ Slots' = Slots /\ Used' = Used \ {p}
      /\ table' \in [0 .. alloc - 1 -> Slot]
      /\ \A q \in Slots \ {p} : table'[q] = table[q]
      /\ used' \in 0 .. alloc /\ used' = Cardinality(Used')
      /\ ProbeInv' /\ QstrInv'
      /\ \A q, r \in Used' : Eq[table'[q].key] = Eq[table'[r].key] => q = r
  BY <1>1, VacateFacts
<1>3. \A q \in Used' : table'[q].val \in Values \cup {Unit}
  BY <1>2, ValueFacts DEF Used
<1>4. CountInv'
  BY <1>2 DEF CountInv
<1>5. alloc \in Nat /\ allQstrs \in BOOLEAN /\ answer' \in Values \cup {Unit, Missing}
  BY ValueFacts DEF IInv, TypeOK, Vacate
<1>6. \A q \in Used' : table'[q] = table[q]
  BY <1>2 DEF Used
<1> QED
  BY <1>2, <1>3, <1>4, <1>5, <1>6, IdleKeeps

LEMMA AddStep ==
    ASSUME IInv, SafeUse, NEW k \in Keys, NEW v \in Values \cup {Unit}, NEW replace \in BOOLEAN,
           Add(k, v, replace), ~StartRehash(k, v)
    PROVE  IInv'
<1>1. Idle /\ form' = form
  BY DEF Add
<1>2. ASSUME Has(k), UNCHANGED <<alloc, used, allQstrs, old, oldAt, pending>>,
             NEW p \in Slots, Found(k, p),
             table' = IF replace THEN [table EXCEPT ![p].val = v] ELSE table,
             answer' = table'[p].val
      PROVE  IInv'
  BY <1>1, <1>2, ReplaceStep DEF rehash
<1>3. ASSUME ~Has(k), form # "ordered", UNCHANGED <<alloc, old, oldAt, pending>>, answer' = v,
             NEW p \in Slots, Available(k, p), Put(p, k, v)
      PROVE  IInv'
  BY <1>1, <1>3, PutHashStep DEF rehash
<1>4. ASSUME ~Has(k), form = "ordered", used < alloc, UNCHANGED <<alloc, old, oldAt, pending>>,
             Put(used, k, v), answer' = v
      PROVE  IInv'
  BY <1>1, <1>4, PutArrayStep DEF rehash
<1>5. ASSUME ~Has(k), form = "ordered", used = alloc, GrowArray(k, v) PROVE IInv'
  BY <1>1, <1>5, GrowArrayStep
<1>6. ASSUME GrowFails PROVE IInv'
  <2>1. form = "map"
    BY <1>6 DEF GrowFails, SafeUse
  <2>2. UNCHANGED <<rehash, form, alloc, used, allQstrs, table, answer>>
    BY <1>1, <1>6, <2>1 DEF GrowFails, rehash
  <2>3. /\ table' \in [0 .. alloc - 1 -> Slot] /\ answer' \in Values \cup {Unit, Missing}
        /\ \A p \in Used : table'[p].val \in Values \cup {Unit}
    BY <2>2, ValueFacts DEF IInv, TypeOK
  <2> QED
    BY <1>1, <2>2, <2>3, KeysKept
<1> QED
  BY <1>2, <1>3, <1>4, <1>5, <1>6 DEF Add

\* All entries wait to be moved into a table that is empty.
LEMMA StartRehashStep ==
    ASSUME IInv, Idle, form' = form, form # "ordered",
           NEW k \in Keys, NEW v \in Values \cup {Unit}, ~Has(k), StartRehash(k, v)
    PROVE  IInv' /\ Used' = {} /\ Waiting' = Used /\ ~Idle'
<1>1. TypeOK /\ UniqueInv /\ alloc \in Nat /\ Slots = 0 .. alloc - 1
  BY SlotFacts DEF IInv
<1>2. \A q \in Used : Eq[table[q].key] # Eq[k]
  BY AbsentFacts
<1>3. PICK n \in 1 .. MaxAlloc :
         /\ alloc' = n /\ used' = 0 /\ allQstrs' = TRUE /\ table' = Empty(n)
         /\ old' = table /\ oldAt' = 0 /\ pending' = [key |-> k, val |-> v] /\ UNCHANGED answer
  BY DEF StartRehash
<1>4. n \in Nat
  BY KeyAssumption
<1>5. EmptySlot \in Slot /\ ~Filled(EmptySlot)
  BY DEF Slot, EmptySlot, Filled
<1>6. table' \in [0 .. alloc' - 1 -> Slot] /\ Used' = {}
  BY <1>3, <1>5 DEF Empty, Used, Slots
<1>7. Waiting' = Used
  BY <1>1, <1>3 DEF Waiting, Used, Slots
<1>8. ~Idle'
  BY <1>3, KeyAssumption DEF Idle, None
<1>9. TypeOK'
  BY <1>1, <1>3, <1>4, <1>6 DEF TypeOK
<1>10. StoreInv'
  <2>1. \E m \in Nat : old' \in [0 .. m - 1 -> Slot]
    BY <1>1, <1>3 DEF TypeOK
  <2> QED
    BY <1>3, <1>6, <1>7, <1>8, <2>1, ValueFacts DEF StoreInv
<1>11. CountInv'
  BY <1>3, <1>6, FS_EmptySet DEF CountInv
<1>12. UniqueInv'
  BY <1>1, <1>2, <1>3, <1>6, <1>7 DEF UniqueInv
<1>13. ProbeInv' /\ QstrInv'
  BY <1>6 DEF ProbeInv, QstrInv
<1> QED
  BY <1>6, <1>7, <1>8, <1>9, <1>10, <1>11, <1>12, <1>13 DEF IInv

LEMMA GetStep ==
    ASSUME IInv, NEW k \in Keys, Get(k)
    PROVE  IInv'
<1>1. Idle /\ UNCHANGED <<rehash, form, alloc, used, allQstrs, table>>
  BY DEF Get, rehash
<1>2. answer' \in Values \cup {Unit, Missing}
  <2>1. CASE Has(k)
    <3>1. \E p \in Slots : Found(k, p)
      BY <2>1, SearchFacts DEF Has
    <3>2. (CHOOSE p \in Slots : Found(k, p)) \in Used
      BY <3>1, SearchFacts
    <3> QED
      BY <2>1, <3>2, ValueFacts DEF Get
  <2>2. CASE ~Has(k)
    BY <2>2 DEF Get
  <2> QED
    BY <2>1, <2>2
<1>3. /\ table' \in [0 .. alloc - 1 -> Slot]
      /\ \A p \in Used : table'[p].val \in Values \cup {Unit}
  BY <1>1, ValueFacts DEF IInv, TypeOK
<1> QED
  BY <1>1, <1>2, <1>3, KeysKept

LEMMA RemoveStep ==
    ASSUME IInv, NEW k \in Keys, Remove(k)
    PROVE  IInv'
<1>1. Idle /\ UNCHANGED <<rehash, form, alloc, allQstrs>>
  BY DEF Remove, rehash
<1>2. ASSUME NEW p \in Slots, Found(k, p), form = "ordered", MoveDown(p) PROVE IInv'
  BY <1>1, <1>2, SearchFacts, MoveDownStep
<1>3. ASSUME NEW p \in Slots, Found(k, p), form # "ordered", Vacate(p, Vacated(p)) PROVE IInv'
  BY <1>1, <1>3, SearchFacts, VacateStep
<1>4. ASSUME answer' = Missing, UNCHANGED <<table, used>> PROVE IInv'
  <2>1. /\ table' \in [0 .. alloc - 1 -> Slot] /\ answer' \in Values \cup {Unit, Missing}
        /\ \A p \in Used : table'[p].val \in Values \cup {Unit}
    BY <1>4, ValueFacts DEF IInv, TypeOK
  <2> QED
    BY <1>1, <1>4, <2>1, KeysKept
<1> QED
  BY <1>2, <1>3, <1>4 DEF Remove

LEMMA PopFirstStep ==
    ASSUME IInv, SafeUse, PopFirst
    PROVE  IInv'
<1>1. Idle /\ UNCHANGED <<rehash, form, alloc, allQstrs>> /\ form # "ordered"
  BY DEF PopFirst, rehash, SafeUse
<1>2. PICK p \in Slots : Filled(table[p]) /\ Vacate(p, IF form = "set" THEN Vacated(p) ELSE Sentinel)
  BY DEF PopFirst
<1>3. p \in Used
  BY <1>2 DEF Used
<1> QED
  BY <1>1, <1>2, <1>3, VacateStep

LEMMA ClearStep ==
    ASSUME IInv, Clear
    PROVE  IInv'
<1>1. /\ Idle /\ UNCHANGED <<rehash, form, answer>> /\ alloc' = 0 /\ used' = 0 /\ allQstrs' = TRUE
      /\ table' = Empty(0)
  BY DEF Clear, rehash
<1>2. table' \in [0 .. alloc' - 1 -> Slot] /\ Slots' = {} /\ Used' = {}
  BY <1>1 DEF Empty, Slots, Used
<1>3. CountInv' /\ ProbeInv' /\ QstrInv'
  BY <1>1, <1>2, FS_EmptySet DEF CountInv, ProbeInv, QstrInv
<1>4. answer' \in Values \cup {Unit, Missing}
  BY <1>1 DEF IInv, TypeOK
<1> QED
  BY <1>1, <1>2, <1>3, <1>4, IdleKeeps

-----------------------------------------------------------------------------
(* Steps of a rehash                                                        *)

LEMMA WaitingFacts ==
    ASSUME IInv
    PROVE  /\ oldAt \in Nat /\ DOMAIN old \subseteq Nat
           /\ \A p \in DOMAIN old : Filled(old[p]) <=> old[p].key \in Keys
           /\ \A p \in Waiting : /\ p \in DOMAIN old /\ old[p].key \in Keys
                                 /\ old[p].val \in Values \cup {Unit}
           /\ oldAt \notin DOMAIN old => Waiting = {}
<1>1. PICK n \in Nat : old \in [0 .. n - 1 -> Slot]
  BY DEF IInv, StoreInv
<1>2. DOMAIN old = 0 .. n - 1 /\ oldAt \in Nat
  BY <1>1 DEF IInv, TypeOK
<1>3. ASSUME NEW s \in Slot PROVE Filled(s) <=> s.key \in Keys
  BY KeyAssumption DEF Slot, Filled, Null, Sentinel
<1>4. \A p \in DOMAIN old : Filled(old[p]) <=> old[p].key \in Keys
  BY <1>1, <1>2, <1>3
<1>5. \A p \in Waiting : /\ p \in DOMAIN old /\ p >= oldAt
                         /\ old[p].key \in Keys /\ old[p].val \in Values \cup {Unit}
  BY <1>4 DEF Waiting, IInv, StoreInv
<1>6. oldAt \notin DOMAIN old => \A p \in DOMAIN old : ~(p >= oldAt)
  BY <1>2
<1> QED
  BY <1>2, <1>4, <1>5, <1>6

LEMMA RehashMoveStep ==
    ASSUME IInv, RehashMove
    PROVE  /\ IInv'
           /\ ~Idle' /\ UNCHANGED <<form, alloc, old, pending, answer>>
           /\ \/ ~Filled(old[oldAt]) /\ Waiting' = Waiting /\ Used' = Used /\ table' = table
              \/ \E p \in Slots :
                    /\ oldAt \in Waiting /\ Waiting' = Waiting \ {oldAt}
                    /\ p \notin Used /\ Used' = Used \cup {p}
                    /\ table'[p].key = old[oldAt].key /\ table'[p].val = old[oldAt].val
                    /\ \A q \in Used : table'[q] = table[q]
<1>1. /\ TypeOK /\ StoreInv /\ QstrInv /\ ProbeInv /\ CountInv /\ UniqueInv
      /\ ~Idle /\ ~Idle' /\ form # "ordered"
      /\ oldAt \in DOMAIN old /\ oldAt \in Nat /\ oldAt' = oldAt + 1
      /\ UNCHANGED <<form, alloc, old, pending, answer>>
      /\ DOMAIN old \subseteq Nat
  BY WaitingFacts DEF IInv, RehashMove, StoreInv, TypeOK, Idle
<1>2. Waiting' = Waiting \ {oldAt}
  BY <1>1 DEF Waiting
<1>3. \E n \in Nat : old' \in [0 .. n - 1 -> Slot]
  BY <1>1 DEF StoreInv
<1>4. CASE ~Filled(old[oldAt])
  <2>1. UNCHANGED <<table, used, allQstrs>> /\ Waiting' = Waiting
    BY <1>1, <1>2, <1>4 DEF RehashMove, Waiting
  <2>2. Slots' = Slots /\ Used' = Used
    BY <2>1 DEF Slots, Used
  <2>3. \A l, q : Steps(l, q)' = Steps(l, q)
    BY <1>1 DEF Steps, Home
  <2>4. TypeOK' /\ StoreInv'
    BY <1>1, <1>3, <2>1, <2>2 DEF TypeOK, StoreInv
  <2>5. CountInv' /\ QstrInv'
    BY <1>1, <2>1, <2>2 DEF CountInv, QstrInv
  <2>6. UniqueInv'
    BY <1>1, <2>1, <2>2 DEF UniqueInv
  <2>7. ProbeInv'
    BY <1>1, <2>1, <2>2, <2>3 DEF ProbeInv
  <2> QED
    BY <1>1, <1>4, <2>1, <2>2, <2>4, <2>5, <2>6, <2>7 DEF IInv
<1>5. CASE Filled(old[oldAt])
  <2>1. oldAt \in Waiting /\ old[oldAt].key \in Keys /\ old[oldAt].val \in Values \cup {Unit}
    <3>1. oldAt \in Waiting
      BY <1>1, <1>5 DEF Waiting
    <3> QED
      BY <3>1, WaitingFacts
  <2>2. PICK p \in Slots : Available(old[oldAt].key, p) /\ Put(p, old[oldAt].key, old[oldAt].val)
    BY <1>5 DEF RehashMove
  <2>3. \A q \in Used : Eq[table[q].key] # Eq[old[oldAt].key] /\ q \in Slots
    BY <1>1, <2>1 DEF UniqueInv, Used
  <2>4. /\ p \in Slots /\ p \notin Used /\ Slots' = Slots /\ Used' = Used \cup {p}
        /\ table' \in [0 .. alloc - 1 -> Slot] /\ allQstrs' \in BOOLEAN
        /\ table'[p] = [key |-> old[oldAt].key, val |-> old[oldAt].val]
        /\ \A q \in Slots \ {p} : table'[q] = table[q]
        /\ used' \in 0 .. alloc /\ used' = Cardinality(Used')
        /\ ProbeInv' /\ QstrInv'
        /\ \A q, r \in Used' : Eq[table'[q].key] = Eq[table'[r].key] => q = r
    BY <1>1, <2>1, <2>2, <2>3, PutFacts
  <2>5. /\ table'[p].key = old[oldAt].key /\ table'[p].val = old[oldAt].val
        /\ \A q \in Used : table'[q] = table[q]
    BY <2>3, <2>4
  <2>6. TypeOK'
    BY <1>1, <2>4 DEF TypeOK
  <2>7. StoreInv'
    BY <1>1, <1>2, <1>3, <2>1, <2>4, <2>5 DEF StoreInv
  <2>8. CountInv'
    BY <1>1, <2>4 DEF CountInv
  <2>9. UniqueInv'
    BY <1>1, <1>2, <2>1, <2>4, <2>5 DEF UniqueInv
  <2> QED
    BY <1>1, <1>2, <2>1, <2>4, <2>5, <2>6, <2>7, <2>8, <2>9 DEF IInv
<1> QED
  BY <1>4, <1>5

LEMMA RehashDoneStep ==
    ASSUME IInv, RehashDone
    PROVE  /\ IInv' /\ Waiting = {} /\ Waiting' = {} /\ answer' = pending.val
           /\ \A q \in Used : Eq[table[q].key] # Eq[pending.key]
           /\ \E p \in Slots :
                 /\ p \notin Used /\ Used' = Used \cup {p}
                 /\ table'[p].key = pending.key /\ table'[p].val = pending.val
                 /\ \A q \in Used : table'[q] = table[q]
<1>1. /\ TypeOK /\ QstrInv /\ ProbeInv /\ CountInv /\ UniqueInv
      /\ ~Idle /\ form # "ordered" /\ pending.key \in Keys /\ pending.val \in Values \cup {Unit}
      /\ UNCHANGED <<form, alloc>> /\ oldAt \notin DOMAIN old
      /\ old' = Empty(0) /\ oldAt' = 0 /\ pending' = None /\ answer' = pending.val
  BY DEF IInv, StoreInv, RehashDone
<1>2. PICK p \in Slots : Available(pending.key, p) /\ Put(p, pending.key, pending.val)
  BY DEF RehashDone
<1>3. \A q \in Used : Eq[table[q].key] # Eq[pending.key] /\ q \in Slots
  BY <1>1 DEF UniqueInv, Used
<1>4. /\ p \in Slots /\ p \notin Used /\ Slots' = Slots /\ Used' = Used \cup {p}
      /\ table' \in [0 .. alloc - 1 -> Slot] /\ allQstrs' \in BOOLEAN
      /\ table'[p] = [key |-> pending.key, val |-> pending.val]
      /\ \A q \in Slots \ {p} : table'[q] = table[q]
      /\ used' \in 0 .. alloc /\ used' = Cardinality(Used')
      /\ ProbeInv' /\ QstrInv'
      /\ \A q, r \in Used' : Eq[table'[q].key] = Eq[table'[r].key] => q = r
  BY <1>1, <1>2, <1>3, PutFacts
<1>5. table'[p].key = pending.key /\ table'[p].val = pending.val /\ \A q \in Used : table'[q] = table[q]
  BY <1>3, <1>4
<1>6. Waiting = {} /\ Waiting' = {} /\ DOMAIN old' = {} /\ Idle'
  BY <1>1, WaitingFacts DEF Waiting, Empty, Idle
<1>7. TypeOK'
  BY <1>1, <1>4 DEF TypeOK
<1>8. StoreInv'
  <2>1. old' \in [0 .. 0 - 1 -> Slot]
    BY <1>1 DEF Empty
  <2>2. \A q \in Used' : table'[q].val \in Values \cup {Unit}
    BY <1>1, <1>4, <1>5, ValueFacts
  <2> QED
    BY <1>6, <2>1, <2>2 DEF StoreInv
<1>9. CountInv' /\ UniqueInv'
  BY <1>1, <1>4, <1>6 DEF CountInv, UniqueInv
<1> QED
  BY <1>1, <1>3, <1>4, <1>5, <1>6, <1>7, <1>8, <1>9 DEF IInv

-----------------------------------------------------------------------------
(* The invariant                                                            *)

LEMMA InvInit == Init => IInv
<1> SUFFICES ASSUME Init PROVE IInv
  OBVIOUS
<1>1. /\ alloc \in Nat /\ EmptySlot \in Slot /\ ~Filled(EmptySlot)
      /\ table = Empty(alloc) /\ used = 0 /\ old = Empty(0) /\ pending = None
  BY KeyAssumption DEF Init, Slot, EmptySlot, Filled
<1>2. TypeOK
  BY <1>1 DEF Init, TypeOK, Empty
<1>3. Used = {} /\ Waiting = {} /\ DOMAIN old = {} /\ Idle
  BY <1>1 DEF Used, Waiting, Slots, Empty, Idle
<1>4. StoreInv
  <2>1. old \in [0 .. 0 - 1 -> Slot]
    BY <1>1 DEF Empty
  <2> QED
    BY <1>3, <2>1 DEF StoreInv
<1>5. CountInv
  <2>1. \A p \in Slots : ~Filled(table[p]) /\ ~(p < used)
    BY <1>1 DEF Slots, Empty
  <2> QED
    BY <1>1, <1>3, <2>1, FS_EmptySet DEF CountInv
<1>6. UniqueInv /\ ProbeInv /\ QstrInv
  BY <1>3 DEF UniqueInv, ProbeInv, QstrInv
<1> QED
  BY <1>2, <1>4, <1>5, <1>6 DEF IInv

LEMMA InvStep == ASSUME SafeUse PROVE IInv /\ [Next]_vars => IInv'
<1> SUFFICES ASSUME IInv, [Next]_vars PROVE IInv'
  OBVIOUS
<1>1. ASSUME NEW k \in Keys, Get(k) PROVE IInv'
  BY <1>1, GetStep
<1>2. ASSUME NEW k \in Keys, Remove(k) PROVE IInv'
  BY <1>2, RemoveStep
<1>3. ASSUME NEW k \in Keys, NEW v \in Values \cup {Unit}, NEW replace \in BOOLEAN, Add(k, v, replace)
      PROVE  IInv'
  <2>1. CASE StartRehash(k, v)
    <3>1. Idle /\ form' = form
      BY <1>3 DEF Add
    <3>2. CASE ~Has(k) /\ form # "ordered"
      BY <2>1, <3>1, <3>2, StartRehashStep
    <3>3. CASE ~(~Has(k) /\ form # "ordered")
      <4>1. pending' = pending
        BY <1>3, <3>3 DEF Add, GrowArray, GrowFails
      <4>2. pending' = [key |-> k, val |-> v]
        BY <2>1 DEF StartRehash
      <4> QED
        BY <3>1, <4>1, <4>2, KeyAssumption DEF Idle, None
    <3> QED
      BY <3>2, <3>3
  <2>2. CASE ~StartRehash(k, v)
    BY <1>3, <2>2, AddStep
  <2> QED
    BY <2>1, <2>2
<1>4. CASE PopFirst
  BY <1>4, PopFirstStep
<1>5. CASE Clear
  BY <1>5, ClearStep
<1>6. CASE RehashMove
  BY <1>6, RehashMoveStep
<1>7. CASE RehashDone
  BY <1>7, RehashDoneStep
<1>8. CASE UNCHANGED vars
  <2>1. /\ UNCHANGED <<form, alloc, used, allQstrs, table, old, oldAt, pending, answer>>
    BY <1>8 DEF vars
  <2>2. Slots' = Slots /\ Used' = Used /\ Waiting' = Waiting /\ (Idle' <=> Idle)
    BY <2>1 DEF Slots, Used, Waiting, Idle
  <2>3. \A l, q : Steps(l, q)' = Steps(l, q)
    BY <2>1 DEF Steps, Home
  <2>4. TypeOK' /\ StoreInv'
    BY <2>1, <2>2 DEF IInv, TypeOK, StoreInv
  <2>5. CountInv' /\ UniqueInv'
    BY <2>1, <2>2 DEF IInv, CountInv, UniqueInv
  <2>6. ProbeInv' /\ QstrInv'
    BY <2>1, <2>2, <2>3 DEF IInv, ProbeInv, QstrInv
  <2> QED
    BY <2>4, <2>5, <2>6 DEF IInv
<1> QED
  BY <1>1, <1>2, <1>3, <1>4, <1>5, <1>6, <1>7, <1>8 DEF Next

\* mp_map_lookup, mp_map_rehash: in a table of any size, with any keys and hashes,
\* every entry is found by a search for any object equal to its key, also in the
\* part of the table that a rehash has moved.
THEOREM EntriesAreFound == ASSUME SafeUse PROVE Spec => []EveryKeyFound
<1>1. IInv => EveryKeyFound
  <2> SUFFICES ASSUME IInv, NEW p \in Slots, Filled(table[p]), NEW k \in Keys, Eq[k] = Eq[table[p].key]
               PROVE  Found(k, p)
    BY DEF EveryKeyFound, IInv
  <2>1. p \in Used
    BY DEF Used
  <2> QED
    BY <2>1, SearchFacts
<1> QED
  BY <1>1, InvInit, InvStep, PTL DEF Spec

-----------------------------------------------------------------------------
(* The table implements a dictionary                                        *)

LEMMA ContentsFacts ==
    Contents = {Pair(table[p]) : p \in Used} \cup {Pair(old[p]) : p \in Waiting}
BY DEF Contents, Used, Waiting

\* What the dictionary says of the key of an entry, and of a key without one.
LEMMA EntryFacts ==
    ASSUME IInv, Idle
    PROVE  /\ Contents = {Pair(table[p]) : p \in Used}
           /\ \A p \in Used : /\ Eq[table[p].key] \in D!KeysOf(Contents)
                              /\ D!ValueOf(Eq[table[p].key]) = table[p].val
                              /\ D!Without(Eq[table[p].key]) = {Pair(table[q]) : q \in Used \ {p}}
                              /\ Pair(table[p]) \in Contents
                              /\ Contents \ {Pair(table[p])} = {Pair(table[q]) : q \in Used \ {p}}
           /\ \A c : (\A p \in Used : Eq[table[p].key] # c) =>
                  /\ c \notin D!KeysOf(Contents) /\ D!ValueOf(c) = Missing /\ D!Without(c) = Contents
<1>1. Contents = {Pair(table[p]) : p \in Used}
  <2>1. Waiting = {}
    BY DEF IInv, StoreInv, Waiting
  <2> QED
    BY <2>1, ContentsFacts
<1>2. \A p, q \in Used : Eq[table[p].key] = Eq[table[q].key] => p = q
  BY DEF IInv, UniqueInv
<1>3. \A p \in Used : Pair(table[p])[1] = Eq[table[p].key] /\ Pair(table[p])[2] = table[p].val
  BY DEF Pair
<1>4. ASSUME NEW p \in Used
      PROVE  /\ Eq[table[p].key] \in D!KeysOf(Contents)
             /\ D!ValueOf(Eq[table[p].key]) = table[p].val
             /\ D!Without(Eq[table[p].key]) = {Pair(table[q]) : q \in Used \ {p}}
             /\ Pair(table[p]) \in Contents
             /\ Contents \ {Pair(table[p])} = {Pair(table[q]) : q \in Used \ {p}}
  <2>1. Pair(table[p]) \in Contents /\ Eq[table[p].key] \in D!KeysOf(Contents)
    BY <1>1, <1>3 DEF D!KeysOf
  <2>2. \A x \in Contents : x[1] = Eq[table[p].key] <=> x = Pair(table[p])
    BY <1>1, <1>2, <1>3
  <2>3. (CHOOSE x \in Contents : x[1] = Eq[table[p].key]) = Pair(table[p])
    BY <2>1, <2>2
  <2>4. D!ValueOf(Eq[table[p].key]) = table[p].val
    BY <1>3, <2>1, <2>3 DEF D!ValueOf
  <2>5. \A q \in Used : Pair(table[q]) = Pair(table[p]) <=> q = p
    BY <1>2, <1>3
  <2>6. Contents \ {Pair(table[p])} = {Pair(table[q]) : q \in Used \ {p}}
    BY <1>1, <2>5
  <2>7. D!Without(Eq[table[p].key]) = Contents \ {Pair(table[p])}
    BY <2>2 DEF D!Without
  <2> QED
    BY <2>1, <2>4, <2>6, <2>7
<1>5. ASSUME NEW c, \A p \in Used : Eq[table[p].key] # c
      PROVE  c \notin D!KeysOf(Contents) /\ D!ValueOf(c) = Missing /\ D!Without(c) = Contents
  <2>1. \A x \in Contents : x[1] # c
    BY <1>1, <1>3, <1>5
  <2>2. c \notin D!KeysOf(Contents)
    BY <2>1 DEF D!KeysOf
  <2> QED
    BY <2>1, <2>2 DEF D!ValueOf, D!Without
<1> QED
  BY <1>1, <1>4, <1>5

LEMMA ContentsNext ==
    Contents' = {Pair(table'[p]) : p \in Used'} \cup {Pair(old'[p]) : p \in Waiting'}
BY DEF Contents, Used, Waiting, Pair, Filled, Slots

LEMMA ContentsIdle ==
    ASSUME IInv', Idle'
    PROVE  Contents' = {Pair(table'[p]) : p \in Used'}
<1>1. Waiting' = {}
  BY DEF IInv, StoreInv, Waiting
<1> QED
  BY <1>1, ContentsNext

\* A new entry in a table that otherwise stays as it is.
LEMMA Inserted ==
    ASSUME IInv, Idle, IInv', Idle', NEW k \in Keys, NEW v, ~Has(k), answer' = v,
           Inserts(k, v)
    PROVE  D!Put(Eq[k], v) /\ D!PutDefault(Eq[k], v)
<1>1. \A q \in Used : Eq[table[q].key] # Eq[k]
  BY AbsentFacts
<1>2. D!Without(Eq[k]) = Contents /\ Eq[k] \notin D!KeysOf(Contents)
  BY <1>1, EntryFacts
<1>3. Contents = {Pair(table[q]) : q \in Used} /\ Contents' = {Pair(table'[q]) : q \in Used'}
  BY EntryFacts, ContentsIdle
<1>4. PICK p : /\ Used' = Used \cup {p} /\ table'[p].key = k /\ table'[p].val = v
               /\ \A q \in Used : table'[q] = table[q]
  BY DEF Inserts
<1>5. Pair(table'[p]) = <<Eq[k], v>>
  BY <1>4 DEF Pair
<1>6. Contents' = Contents \cup {<<Eq[k], v>>}
  BY <1>3, <1>4, <1>5
<1> QED
  BY <1>2, <1>6 DEF D!Put, D!PutDefault

\* The entry in slot p is gone, wherever the others are now.
LEMMA Deleted ==
    ASSUME IInv, Idle, IInv', Idle', NEW p \in Used, answer' = table[p].val,
           {table'[q] : q \in Used'} = {table[q] : q \in Used \ {p}}
    PROVE  D!Remove(Eq[table[p].key]) /\ D!RemoveAny
<1>1. Contents' = {Pair(table'[q]) : q \in Used'}
  BY ContentsIdle
<1>2. Contents' = {Pair(table[q]) : q \in Used \ {p}}
  <2>1. \A q \in Used' : \E r \in Used \ {p} : table'[q] = table[r]
    OBVIOUS
  <2>2. \A r \in Used \ {p} : \E q \in Used' : table'[q] = table[r]
    OBVIOUS
  <2> QED
    BY <1>1, <2>1, <2>2
<1>3. /\ D!ValueOf(Eq[table[p].key]) = table[p].val
      /\ D!Without(Eq[table[p].key]) = {Pair(table[q]) : q \in Used \ {p}}
      /\ Pair(table[p]) \in Contents
      /\ Contents \ {Pair(table[p])} = {Pair(table[q]) : q \in Used \ {p}}
  BY EntryFacts
<1>4. Pair(table[p])[2] = table[p].val
  BY DEF Pair
<1> QED
  BY <1>2, <1>3, <1>4 DEF D!Remove, D!RemoveAny

\* The value of the entry in slot p is replaced, or only read.
LEMMA Updated ==
    ASSUME IInv, Idle, IInv', Idle', NEW v, NEW replace \in BOOLEAN, NEW p \in Used,
           table' = IF replace THEN [table EXCEPT ![p].val = v] ELSE table,
           answer' = table'[p].val
    PROVE  D!Put(Eq[table[p].key], v) \/ D!PutDefault(Eq[table[p].key], v)
<1>1. TypeOK /\ p \in Slots /\ Used \subseteq Slots
  BY DEF IInv, Used
<1>2. Contents = {Pair(table[q]) : q \in Used} /\ Contents' = {Pair(table'[q]) : q \in Used'}
  BY EntryFacts, ContentsIdle
<1>3. /\ Eq[table[p].key] \in D!KeysOf(Contents)
      /\ D!ValueOf(Eq[table[p].key]) = table[p].val
      /\ D!Without(Eq[table[p].key]) = {Pair(table[q]) : q \in Used \ {p}}
  BY EntryFacts
<1>4. CASE replace
  <2>1. table' = [table EXCEPT ![p].val = v]
    BY <1>4
  <2>2. table[p] \in Slot
    BY <1>1, SlotFacts
  <2>3. /\ table'[p].key = table[p].key /\ table'[p].val = v
        /\ \A q \in Slots \ {p} : table'[q] = table[q]
        /\ DOMAIN table' = DOMAIN table
    BY <1>1, <2>1, <2>2 DEF TypeOK, Slots, Slot
  <2>4. Used' = Used
    BY <1>1, <2>3 DEF Used, Slots, Filled
  <2>5. Pair(table'[p]) = <<Eq[table[p].key], v>>
    BY <2>3 DEF Pair
  <2>6. Contents' = {Pair(table[q]) : q \in Used \ {p}} \cup {<<Eq[table[p].key], v>>}
    BY <1>1, <1>2, <2>3, <2>4, <2>5
  <2> QED
    BY <1>3, <2>3, <2>6 DEF D!Put
<1>5. CASE ~replace
  <2>1. table' = table /\ Used' = Used
    BY <1>5 DEF Used, Slots
  <2> QED
    BY <1>2, <1>3, <2>1 DEF D!PutDefault
<1> QED
  BY <1>4, <1>5

Stutter == UNCHANGED <<Contents, answer>>

LEMMA AddRefines ==
    ASSUME IInv, SafeUse, NEW k \in Keys, NEW v \in Values \cup {Unit}, NEW replace \in BOOLEAN,
           Add(k, v, replace)
    PROVE  D!Put(Eq[k], v) \/ D!PutDefault(Eq[k], v) \/ Stutter
<1>1. Idle /\ form' = form
  BY DEF Add
<1>2. ASSUME UNCHANGED <<alloc, used, allQstrs, old, oldAt, pending>>, NEW p \in Slots, Found(k, p),
             table' = IF replace THEN [table EXCEPT ![p].val = v] ELSE table,
             answer' = table'[p].val
      PROVE  D!Put(Eq[k], v) \/ D!PutDefault(Eq[k], v)
  <2>1. p \in Used /\ Eq[table[p].key] = Eq[k]
    BY <1>2, SearchFacts
  <2>2. IInv' /\ Idle'
    BY <1>1, <1>2, ReplaceStep, NothingWaits DEF rehash
  <2>3. D!Put(Eq[table[p].key], v) \/ D!PutDefault(Eq[table[p].key], v)
    BY <1>1, <1>2, <2>1, <2>2, Updated
  <2> QED
    BY <2>1, <2>3
<1>3. ASSUME ~Has(k), form # "ordered", UNCHANGED <<alloc, old, oldAt, pending>>, answer' = v,
             NEW p \in Slots, Available(k, p), Put(p, k, v)
      PROVE  D!Put(Eq[k], v)
  BY <1>1, <1>3, PutHashStep, NothingWaits, Inserted DEF rehash
<1>4. ASSUME ~Has(k), form = "ordered", used < alloc, UNCHANGED <<alloc, old, oldAt, pending>>,
             Put(used, k, v), answer' = v
      PROVE  D!Put(Eq[k], v)
  BY <1>1, <1>4, PutArrayStep, NothingWaits, Inserted DEF rehash
<1>5. ASSUME ~Has(k), form = "ordered", used = alloc, GrowArray(k, v)
      PROVE  D!Put(Eq[k], v)
  <2>1. UNCHANGED rehash /\ answer' = v
    BY <1>5 DEF GrowArray, rehash
  <2> QED
    BY <1>1, <1>5, <2>1, GrowArrayStep, NothingWaits, Inserted
<1>6. ASSUME ~Has(k), form # "ordered", StartRehash(k, v) PROVE Stutter
  <2>1. Used' = {} /\ Waiting' = Used /\ old' = table /\ answer' = answer
    BY <1>1, <1>6, StartRehashStep DEF StartRehash
  <2>2. Contents = {Pair(table[q]) : q \in Used}
    BY <1>1, EntryFacts
  <2> QED
    BY <2>1, <2>2, ContentsNext DEF Stutter
<1>7. ASSUME GrowFails PROVE Stutter
  <2>1. UNCHANGED <<table, old, oldAt, answer>>
    BY <1>7 DEF GrowFails
  <2>2. Used' = Used /\ Waiting' = Waiting
    BY <2>1 DEF Used, Slots, Waiting
  <2> QED
    BY <2>1, <2>2, ContentsNext, ContentsFacts DEF Stutter
<1> QED
  BY <1>2, <1>3, <1>4, <1>5, <1>6, <1>7 DEF Add

LEMMA GetRefines ==
    ASSUME IInv, NEW k \in Keys, Get(k)
    PROVE  D!Get(Eq[k])
<1>1. Idle /\ UNCHANGED <<table, old, oldAt>>
  BY DEF Get
<1>2. Contents' = Contents
  <2>1. Used' = Used /\ Waiting' = Waiting
    BY <1>1 DEF Used, Slots, Waiting
  <2> QED
    BY <1>1, <2>1, ContentsNext, ContentsFacts
<1>3. CASE Has(k)
  <2>1. \E p \in Slots : Found(k, p)
    BY <1>3, SearchFacts DEF Has
  <2> DEFINE p == CHOOSE p \in Slots : Found(k, p)
  <2>2. p \in Used /\ Eq[table[p].key] = Eq[k] /\ answer' = table[p].val
    BY <1>3, <2>1, SearchFacts DEF Get
  <2> HIDE DEF p
  <2>3. D!ValueOf(Eq[table[p].key]) = table[p].val
    BY <1>1, <2>2, EntryFacts
  <2> QED
    BY <1>2, <2>2, <2>3 DEF D!Get
<1>4. CASE ~Has(k)
  <2>1. \A q \in Used : Eq[table[q].key] # Eq[k]
    BY <1>4, AbsentFacts
  <2>2. answer' = D!ValueOf(Eq[k])
    BY <1>1, <1>4, <2>1, EntryFacts DEF Get
  <2> QED
    BY <1>2, <2>2 DEF D!Get
<1> QED
  BY <1>3, <1>4

LEMMA RemoveRefines ==
    ASSUME IInv, NEW k \in Keys, Remove(k)
    PROVE  D!Remove(Eq[k])
<1>1. Idle /\ Idle' /\ UNCHANGED <<rehash, form, alloc, allQstrs>>
  BY NothingWaits DEF Remove, rehash
<1>2. ASSUME NEW p \in Slots, Found(k, p), form = "ordered", MoveDown(p) PROVE D!Remove(Eq[k])
  <2>1. p \in Used /\ Eq[table[p].key] = Eq[k] /\ answer' = table[p].val
    BY <1>2, SearchFacts DEF MoveDown
  <2>2. D!Remove(Eq[table[p].key])
    BY <1>1, <1>2, <2>1, MoveDownStep, Deleted
  <2> QED
    BY <2>1, <2>2
<1>3. ASSUME NEW p \in Slots, Found(k, p), form # "ordered", Vacate(p, Vacated(p)) PROVE D!Remove(Eq[k])
  <2>1. p \in Used /\ Eq[table[p].key] = Eq[k] /\ answer' = table[p].val
    BY <1>3, SearchFacts DEF Vacate
  <2>2. D!Remove(Eq[table[p].key])
    BY <1>1, <1>3, <2>1, VacateStep, Deleted
  <2> QED
    BY <2>1, <2>2
<1>4. ASSUME ~Has(k), answer' = Missing, UNCHANGED <<table, used>> PROVE D!Remove(Eq[k])
  <2>1. D!ValueOf(Eq[k]) = Missing /\ D!Without(Eq[k]) = Contents
    BY <1>1, <1>4, AbsentFacts, EntryFacts
  <2>2. Used' = Used /\ Waiting' = Waiting /\ old' = old
    BY <1>1, <1>4 DEF Used, Slots, Waiting, rehash
  <2>3. Contents' = Contents
    BY <1>4, <2>2, ContentsNext, ContentsFacts
  <2> QED
    BY <1>4, <2>1, <2>3 DEF D!Remove
<1> QED
  BY <1>2, <1>3, <1>4 DEF Remove

LEMMA PopFirstRefines ==
    ASSUME IInv, SafeUse, PopFirst
    PROVE  D!RemoveAny
<1>1. Idle /\ Idle' /\ UNCHANGED <<rehash, form, alloc, allQstrs>> /\ form # "ordered"
  BY NothingWaits DEF PopFirst, rehash, SafeUse
<1>2. PICK p \in Slots : Filled(table[p]) /\ Vacate(p, IF form = "set" THEN Vacated(p) ELSE Sentinel)
  BY DEF PopFirst
<1>3. p \in Used /\ answer' = table[p].val
  BY <1>2 DEF Used, Vacate
<1> QED
  BY <1>1, <1>2, <1>3, VacateStep, Deleted

LEMMA ClearRefines ==
    ASSUME IInv, Clear
    PROVE  D!Clear
<1>1. Idle /\ UNCHANGED <<rehash, answer>> /\ table' = Empty(0)
  BY DEF Clear, rehash
<1>2. Waiting' = {} /\ Used' = {}
  BY <1>1, NothingWaits DEF Empty, Used, Slots
<1> QED
  BY <1>1, <1>2, ContentsNext DEF D!Clear

\* A slot of the old table is moved: its pair is in the contents before and after.
LEMMA RehashMoveRefines ==
    ASSUME IInv, RehashMove
    PROVE  Stutter
<1>1. answer' = answer /\ old' = old
  BY DEF RehashMove
<1>2. CASE Waiting' = Waiting /\ Used' = Used /\ table' = table
  BY <1>1, <1>2, ContentsNext, ContentsFacts DEF Stutter
<1>3. ASSUME NEW p \in Slots, oldAt \in Waiting, Waiting' = Waiting \ {oldAt},
             Used' = Used \cup {p},
             table'[p].key = old[oldAt].key, table'[p].val = old[oldAt].val,
             \A q \in Used : table'[q] = table[q]
      PROVE  Stutter
  <2>1. Pair(table'[p]) = Pair(old[oldAt])
    BY <1>3 DEF Pair
  <2>2. Contents' = Contents
    BY <1>1, <1>3, <2>1, ContentsNext, ContentsFacts
  <2> QED
    BY <1>1, <2>2 DEF Stutter
<1> QED
  BY <1>2, <1>3, RehashMoveStep

LEMMA RehashDoneRefines ==
    ASSUME IInv, RehashDone
    PROVE  \E k \in Keys : D!Put(Eq[k], pending.val)
<1>1. Waiting = {} /\ Waiting' = {} /\ answer' = pending.val /\ pending.key \in Keys
  BY RehashDoneStep DEF RehashDone, IInv, StoreInv
<1>2. PICK p \in Slots : /\ Used' = Used \cup {p}
                         /\ table'[p].key = pending.key /\ table'[p].val = pending.val
                         /\ \A q \in Used : table'[q] = table[q]
  BY RehashDoneStep
<1>3. \A x \in Contents : x[1] # Eq[pending.key]
  BY <1>1, RehashDoneStep, ContentsFacts DEF Pair
<1>4. D!Without(Eq[pending.key]) = Contents
  BY <1>3 DEF D!Without
<1>5. Pair(table'[p]) = <<Eq[pending.key], pending.val>>
  BY <1>2 DEF Pair
<1>6. Contents' = Contents \cup {<<Eq[pending.key], pending.val>>}
  BY <1>1, <1>2, <1>5, ContentsNext, ContentsFacts
<1> QED
  BY <1>1, <1>4, <1>6 DEF D!Put

LEMMA DictionaryStep ==
    ASSUME SafeUse
    PROVE  IInv /\ [Next]_vars => [D!Next]_<<Contents, answer>>
<1> SUFFICES ASSUME IInv, [Next]_vars PROVE D!Next \/ Stutter
  BY DEF Stutter
<1>1. ASSUME NEW k \in Keys, Get(k) PROVE D!Next
  BY <1>1, GetRefines DEF D!Next
<1>2. ASSUME NEW k \in Keys, Remove(k) PROVE D!Next
  BY <1>2, RemoveRefines DEF D!Next
<1>3. ASSUME NEW k \in Keys, NEW v \in Values \cup {Unit}, NEW replace \in BOOLEAN, Add(k, v, replace)
      PROVE  D!Next \/ Stutter
  BY <1>3, AddRefines DEF D!Next
<1>4. CASE PopFirst
  BY <1>4, PopFirstRefines DEF D!Next
<1>5. CASE Clear
  BY <1>5, ClearRefines DEF D!Next
<1>6. CASE RehashMove
  BY <1>6, RehashMoveRefines
<1>7. CASE RehashDone
  <2>1. pending.val \in Values \cup {Unit}
    BY <1>7 DEF RehashDone, IInv, StoreInv
  <2> QED
    BY <1>7, <2>1, RehashDoneRefines DEF D!Next
<1>8. CASE UNCHANGED vars
  <2>1. UNCHANGED <<table, old, oldAt, answer>>
    BY <1>8 DEF vars
  <2>2. Used' = Used /\ Waiting' = Waiting
    BY <2>1 DEF Used, Slots, Waiting
  <2> QED
    BY <2>1, <2>2, ContentsNext, ContentsFacts DEF Stutter
<1> QED
  BY <1>1, <1>2, <1>3, <1>4, <1>5, <1>6, <1>7, <1>8 DEF Next

\* mp_map_lookup, mp_set_lookup, dict_popitem: a table of any size does what a
\* dictionary does; a rehash, whole, in part or failed, is not seen from outside.
THEOREM TableIsDictionary == ASSUME SafeUse PROVE Spec => ImplementsDictionary
<1>1. Init => D!Init
  <2> SUFFICES ASSUME Init PROVE D!Init
    OBVIOUS
  <2>1. table = Empty(alloc) /\ old = Empty(0) /\ answer = Missing
    BY DEF Init
  <2>2. Used = {} /\ Waiting = {}
    BY <2>1 DEF Used, Waiting, Slots, Empty, EmptySlot, Filled
  <2> QED
    BY <2>1, <2>2, ContentsFacts DEF D!Init
<1>2. Spec => []IInv
  BY InvInit, InvStep, PTL DEF Spec
<1> QED
  BY <1>1, <1>2, DictionaryStep, PTL DEF Spec, ImplementsDictionary, D!Spec

=============================================================================
