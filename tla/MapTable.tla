------------------------------ MODULE MapTable ------------------------------
(***************************************************************************)
(* The hash tables of py/map.c behind dict, set and OrderedDict, with the  *)
(* calls of py/objdict.c and py/objset.c that change them.                 *)
(*                                                                         *)
(* A lookup is one step: hashes and comparisons of built-in keys run no    *)
(* Python code.  A rehash is a step per slot of the old table, so that its *)
(* loop is part of the specification; no other call comes between.         *)
(* mp_set_lookup is mp_map_lookup without values and without the test for  *)
(* interned keys; MP_MAP_LOOKUP_ADD_IF_NOT_FOUND_OR_REMOVE_IF_FOUND is     *)
(* Remove when the key is there and Add when it is not.                    *)
(***************************************************************************)
EXTENDS Integers, FiniteSets

CONSTANTS
    Keys, Qstrs, Strs,  \* objects used as keys; the interned and the other strings
    Eq, HashOf,         \* their class under mp_obj_equal, and their hash
    Values,             \* objects stored under a key
    Forms,              \* kinds of table considered, of "map", "set", "ordered"
    Failing,            \* the forms for which growing may run out of memory
    Popping,            \* the forms on which dict.popitem is called
    InitAllocs,         \* sizes a table may be created with
    MaxAlloc            \* bound: the heap has no room for a larger table

Null == "MP_OBJ_NULL"
Sentinel == "MP_OBJ_SENTINEL"
Missing == "missing"
Unit == "member"    \* stands for the value of an element of a set

ASSUME KeyAssumption ==
    /\ Qstrs \subseteq Keys /\ Strs \subseteq Keys \ Qstrs
    /\ Null \notin Keys /\ Sentinel \notin Keys
    /\ Eq \in [Keys -> Nat] /\ HashOf \in [Keys -> Nat]
    /\ \A k, l \in Keys : Eq[k] = Eq[l] => HashOf[k] = HashOf[l]
    /\ \A k, l \in Keys : Eq[k] = Eq[l] /\ k \in Qstrs => l = k \/ l \in Strs
    /\ Forms \subseteq {"map", "set", "ordered"}
    /\ InitAllocs \subseteq Nat /\ MaxAlloc \in Nat

VARIABLES
    form,      \* "map", "set", or "ordered" when is_ordered is set
    alloc, used,
    allQstrs,  \* all_keys_are_qstrs
    table,     \* the slots
    old,       \* old_table of a rehash, a table without slots when there is none
    oldAt,     \* the slot of old the rehash is at
    pending,   \* the addition that waits for the rehash, or None
    answer     \* the value in the slot the last call returned, or Missing

vars == <<form, alloc, used, allQstrs, table, old, oldAt, pending, answer>>

None == [key |-> Null, val |-> Null]
Idle == pending = None

Slot == [key : Keys \cup {Null, Sentinel}, val : Values \cup {Unit, Null}]
EmptySlot == [key |-> Null, val |-> Null]
Empty(n) == [p \in 0 .. n - 1 |-> EmptySlot]

Slots == DOMAIN table
Filled(s) == s.key \notin {Null, Sentinel}

(***************************************************************************)
(* mp_map_lookup and mp_set_lookup without their effects.                  *)
(***************************************************************************)
\* The slot where the search for k begins, and the number of steps to slot p.
Home(k) == HashOf[k] % alloc
Steps(k, p) == IF p >= Home(k) THEN p - Home(k) ELSE p - Home(k) + alloc
Following(p) == IF p + 1 = alloc THEN 0 ELSE p + 1

\* Keys are compared by identity when the table and k allow it.
OnlyPtrs(k) == form # "set" /\ allQstrs /\ k \notin Strs
Same(k, l) == k = l \/ (~OnlyPtrs(k) /\ Eq[k] = Eq[l])

\* The slots the search looks at: the used part of an array, or all slots up to
\* the first empty one.
Searched(k, p) ==
    IF form = "ordered" THEN p < used
    ELSE \A q \in Slots : Steps(k, q) < Steps(k, p) => table[q].key # Null

\* The search of an ordered array compares the key with every used slot.  After
\* popitem one of them is a SENTINEL, with which mp_obj_equal is undefined; that
\* the two differ is the outcome after which the program goes on.
Matches(k, p) == Searched(k, p) /\ Filled(table[p]) /\ Same(k, table[p].key)

\* The search returns the first match.
Earlier(k, p, q) == IF form = "ordered" THEN p < q ELSE Steps(k, p) < Steps(k, q)
Found(k, p) == p \in Slots /\ Matches(k, p) /\ \A q \in Slots : Matches(k, q) => ~Earlier(k, q, p)
Has(k) == \E p \in Slots : Matches(k, p)

\* avail_slot: the first deleted slot, or else the empty slot that ends the search.
Available(k, p) ==
    /\ p \in Slots /\ ~Filled(table[p]) /\ Searched(k, p)
    /\ \A q \in Slots : ~Filled(table[q]) /\ Searched(k, q) => ~Earlier(k, q, p)

(***************************************************************************)
(* Changes to a slot.                                                      *)
(***************************************************************************)
Put(p, k, v) ==
    /\ table' = [table EXCEPT ![p] = [key |-> k, val |-> v]]
    /\ used' = used + 1
    /\ allQstrs' = (allQstrs /\ k \in Qstrs)

\* Mutant of Vacated: a deleted slot is always made empty.
VacatedNull(p) == Null

\* What a deleted key leaves behind.
Vacated(p) == IF table[Following(p)].key = Null THEN Null ELSE Sentinel

Vacate(p, mark) ==
    /\ table' = [table EXCEPT ![p] = [key |-> mark, val |-> Null]]
    /\ used' = used - 1
    /\ answer' = table[p].val

\* The entries of an array behind the deleted one move down.
MoveDown(p) ==
    /\ table' = [q \in Slots |->
                    IF q < p \/ q >= used THEN table[q]
                    ELSE IF q = used - 1 THEN EmptySlot ELSE table[q + 1]]
    /\ used' = used - 1
    /\ answer' = table[p].val

(***************************************************************************)
(* Growing.                                                                *)
(***************************************************************************)
hash_allocation_sizes ==
    {0, 2, 4, 6, 8, 10, 12, 17, 23, 29, 37, 47, 59, 73, 97, 127, 167, 223, 293, 389, 521,
     691, 919, 1223, 1627, 2161, 3229, 4831, 7243, 10861, 16273, 24407, 36607, 54907}

\* get_hash_alloc_greater_or_equal_to: n is the first size that is at least x.
NextAlloc(x, n) ==
    \/ /\ n \in hash_allocation_sizes /\ n >= x
       /\ \A s \in hash_allocation_sizes : s >= x => n <= s
    \/ /\ \A s \in hash_allocation_sizes : s < x
       /\ n = LET y == x + x \div 2 IN IF y % 2 = 0 THEN y + 1 ELSE y

\* mp_map_rehash, mp_set_rehash: k waits until the old table has been emptied.
StartRehash(k, v) ==
    \E n \in 1 .. MaxAlloc :
        /\ NextAlloc(alloc + 1, n)
        /\ alloc' = n
        /\ used' = 0
        /\ allQstrs' = TRUE
        /\ table' = Empty(n)
        /\ old' = table
        /\ oldAt' = 0
        /\ pending' = [key |-> k, val |-> v]
        /\ UNCHANGED answer

\* An array grows by four slots and keeps its entries.
GrowArray(k, v) ==
    /\ alloc + 4 <= MaxAlloc
    /\ alloc' = alloc + 4
    /\ table' = [q \in 0 .. alloc + 3 |->
                    IF q = used THEN [key |-> k, val |-> v]
                    ELSE IF q < used THEN table[q] ELSE EmptySlot]
    /\ used' = used + 1
    /\ allQstrs' = (allQstrs /\ k \in Qstrs)
    /\ answer' = v
    /\ UNCHANGED <<old, oldAt, pending>>

\* MemoryError: mp_map_rehash has not touched the map, but mp_set_rehash and the
\* growing array have already changed alloc.
GrowFails ==
    /\ form \in Failing
    /\ CASE form = "map" -> UNCHANGED <<alloc, used>>
         [] form = "ordered" -> alloc' = alloc + 4 /\ UNCHANGED used
         [] form = "set" -> NextAlloc(alloc + 1, alloc') /\ used' = 0
    /\ UNCHANGED <<allQstrs, table, old, oldAt, pending, answer>>

(***************************************************************************)
(* The calls.  replace is FALSE for dict.setdefault and set.add.           *)
(***************************************************************************)
ValuesOfForm == IF form = "set" THEN {Unit} ELSE Values

Add(k, v, replace) ==
    /\ Idle
    /\ v \in ValuesOfForm /\ (form = "set" => ~replace)
    /\ \/ /\ Has(k)
          /\ \E p \in Slots :
                /\ Found(k, p)
                /\ table' = IF replace THEN [table EXCEPT ![p].val = v] ELSE table
                /\ answer' = table'[p].val
          /\ UNCHANGED <<alloc, used, allQstrs, old, oldAt, pending>>
       \/ /\ ~Has(k)
          /\ \/ /\ form # "ordered"
                /\ \E p \in Slots : Available(k, p) /\ Put(p, k, v)
                /\ answer' = v
                /\ UNCHANGED <<alloc, old, oldAt, pending>>
             \/ /\ form = "ordered" /\ used < alloc
                /\ Put(used, k, v)
                /\ answer' = v
                /\ UNCHANGED <<alloc, old, oldAt, pending>>
             \/ /\ form # "ordered" /\ ~\E p \in Slots : Available(k, p)
                /\ StartRehash(k, v) \/ GrowFails
             \/ /\ form = "ordered" /\ used = alloc
                /\ GrowArray(k, v) \/ GrowFails
    /\ UNCHANGED form

Get(k) ==
    /\ Idle
    /\ answer' = IF Has(k) THEN table[CHOOSE p \in Slots : Found(k, p)].val ELSE Missing
    /\ UNCHANGED <<form, alloc, used, allQstrs, table, old, oldAt, pending>>

\* dict.pop, del, set.remove, set.discard.
Remove(k) ==
    /\ Idle
    /\ \/ Has(k) /\ \E p \in Slots :
             Found(k, p) /\ IF form = "ordered" THEN MoveDown(p) ELSE Vacate(p, Vacated(p))
       \/ ~Has(k) /\ answer' = Missing /\ UNCHANGED <<table, used>>
    /\ UNCHANGED <<form, alloc, allQstrs, old, oldAt, pending>>

\* dict.popitem and set.pop remove the first entry of the table.
PopFirst ==
    /\ Idle
    /\ form \in Popping \cup {"set"}
    /\ \E p \in Slots :
          /\ Filled(table[p]) /\ \A q \in Slots : q < p => ~Filled(table[q])
          /\ Vacate(p, IF form = "set" THEN Vacated(p) ELSE Sentinel)
    /\ UNCHANGED <<form, alloc, allQstrs, old, oldAt, pending>>

Clear ==
    /\ Idle
    /\ alloc' = 0 /\ used' = 0
    /\ allQstrs' = TRUE
    /\ table' = Empty(0)
    /\ UNCHANGED <<form, old, oldAt, pending, answer>>

(***************************************************************************)
(* The steps of a rehash.                                                  *)
(***************************************************************************)
\* Mutant of RehashMove: the value is not copied.
RehashKeyOnly ==
    /\ ~Idle /\ oldAt \in DOMAIN old
    /\ IF Filled(old[oldAt])
       THEN \E p \in Slots : Available(old[oldAt].key, p) /\ Put(p, old[oldAt].key, Null)
       ELSE UNCHANGED <<table, used, allQstrs>>
    /\ oldAt' = oldAt + 1
    /\ UNCHANGED <<form, alloc, old, pending, answer>>

RehashMove ==
    /\ ~Idle /\ oldAt \in DOMAIN old
    /\ IF Filled(old[oldAt])
       THEN \E p \in Slots :
               Available(old[oldAt].key, p) /\ Put(p, old[oldAt].key, old[oldAt].val)
       ELSE UNCHANGED <<table, used, allQstrs>>
    /\ oldAt' = oldAt + 1
    /\ UNCHANGED <<form, alloc, old, pending, answer>>

\* The search for the new key is begun again, in the new table.
RehashDone ==
    /\ ~Idle /\ oldAt \notin DOMAIN old
    /\ \E p \in Slots : Available(pending.key, p) /\ Put(p, pending.key, pending.val)
    /\ old' = Empty(0)
    /\ oldAt' = 0
    /\ pending' = None
    /\ answer' = pending.val
    /\ UNCHANGED <<form, alloc>>

Init ==
    /\ form \in Forms
    /\ alloc \in InitAllocs
    /\ used = 0 /\ allQstrs = TRUE
    /\ table = Empty(alloc)
    /\ old = Empty(0) /\ oldAt = 0
    /\ pending = None
    /\ answer = Missing

Next ==
    \/ \E k \in Keys : Get(k) \/ Remove(k)
    \/ \E k \in Keys, v \in Values \cup {Unit}, replace \in BOOLEAN : Add(k, v, replace)
    \/ PopFirst \/ Clear
    \/ RehashMove \/ RehashDone

Spec == Init /\ [][Next]_vars

(***************************************************************************)
(* Properties.                                                             *)
(***************************************************************************)
TypeOK ==
    /\ form \in Forms
    /\ alloc \in Nat /\ used \in 0 .. alloc
    /\ allQstrs \in BOOLEAN
    /\ table \in [0 .. alloc - 1 -> Slot]
    /\ oldAt \in Nat
    /\ pending \in [key : Keys, val : Values \cup {Unit, Null}] \cup {None}
    /\ answer \in Values \cup {Unit, Missing}

\* mp_map_lookup, mp_map_rehash: a key that is in the table, or in the part of it that
\* a rehash has moved, is found by a search for any object equal to it, in its slot.
\* The table keeps its type.
EveryKeyFound ==
    /\ TypeOK
    /\ \A p \in Slots : Filled(table[p]) =>
           \A k \in Keys : Eq[k] = Eq[table[p].key] => Found(k, p)

\* The pairs of the table and of the part of the old table that is still to be moved.
Pair(s) == <<Eq[s.key], s.val>>
Contents ==
    {Pair(table[p]) : p \in {q \in Slots : Filled(table[q])}}
        \cup {Pair(old[p]) : p \in {q \in DOMAIN old : q >= oldAt /\ Filled(old[q])}}

D == INSTANCE Dictionary WITH
        Classes <- {Eq[k] : k \in Keys},
        Values <- Values \cup {Unit},
        items <- Contents

\* Every call does and answers what the same call of a dictionary does, and a rehash or
\* a failed one changes nothing.
ImplementsDictionary == D!Spec
=============================================================================
