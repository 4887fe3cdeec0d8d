----------------------------- MODULE Dictionary -----------------------------
(***************************************************************************)
(* What py/map.c promises: a finite mapping from keys, up to equality, to  *)
(* values.  An answer is the value a call found or stored, or Missing.     *)
(***************************************************************************)
CONSTANTS Classes, Values, Missing

VARIABLES
    items,   \* the pairs of a key and its value
    answer   \* what the last call returned

KeysOf(S) == {p[1] : p \in S}
Without(c) == {p \in items : p[1] # c}
ValueOf(c) ==
    IF c \in KeysOf(items) THEN (CHOOSE p \in items : p[1] = c)[2] ELSE Missing

Init == items = {} /\ answer = Missing

Get(c) == answer' = ValueOf(c) /\ UNCHANGED items

Put(c, v) == items' = Without(c) \cup {<<c, v>>} /\ answer' = v

PutDefault(c, v) ==
    /\ items' = IF c \in KeysOf(items) THEN items ELSE items \cup {<<c, v>>}
    /\ answer' = IF c \in KeysOf(items) THEN ValueOf(c) ELSE v

Remove(c) == answer' = ValueOf(c) /\ items' = Without(c)

RemoveAny == \E p \in items : answer' = p[2] /\ items' = items \ {p}

Clear == items' = {} /\ UNCHANGED answer

Next ==
    \/ \E c \in Classes : Get(c) \/ Remove(c)
    \/ \E c \in Classes, v \in Values : Put(c, v) \/ PutDefault(c, v)
    \/ RemoveAny \/ Clear

Spec == Init /\ [][Next]_<<items, answer>>
=============================================================================
