----------------------------- MODULE MCMapTable -----------------------------
(***************************************************************************)
(* Two interned strings, a string equal to one of them, and two numbers.   *)
(* The hashes collide in tables of two, three and four slots.              *)
(***************************************************************************)
EXTENDS MapTable

MCKeys == {"qa", "sa", "qb", "i", "j"}
MCEq == [k \in MCKeys |-> CASE k \in {"qa", "sa"} -> 0 [] k = "qb" -> 1 [] k = "i" -> 2 [] k = "j" -> 3]
MCHash == [k \in MCKeys |-> CASE k \in {"qa", "sa"} -> 3 [] k = "qb" -> 7 [] k = "i" -> 0 [] k = "j" -> 3]
=============================================================================
