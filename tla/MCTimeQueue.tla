---------------------------- MODULE MCTimeQueue ----------------------------
(* A period of eight ticks, which the clock passes, and a heap with three  *)
(* levels.                                                                 *)
EXTENDS TimeQueue

=============================================================================
