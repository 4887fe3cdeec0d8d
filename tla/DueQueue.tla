------------------------------ MODULE DueQueue ------------------------------
(***************************************************************************)
(* What a timer queue promises: a task is handed back at most once, never  *)
(* before another one that is due earlier, and tasks that are due at the   *)
(* same moment come back in the order they were put in.                    *)
(***************************************************************************)
EXTENDS Integers

CONSTANT Tasks      \* the tasks: records with fields due and id

VARIABLE pending    \* the tasks in the queue

Before(s, t) == s.due < t.due \/ (s.due = t.due /\ s.id < t.id)

Put(t) ==
    /\ t \notin pending
    /\ pending' = pending \cup {t}

Take(t) ==
    /\ t \in pending
    /\ \A s \in pending \ {t} : Before(t, s)
    /\ pending' = pending \ {t}

Init == pending = {}

Next == \E t \in Tasks : Put(t) \/ Take(t)

Spec == Init /\ [][Next]_pending

=============================================================================
