---------------------------- MODULE MCThreadList ----------------------------
(* ThreadList for TLC; handles are model values.                           *)
EXTENDS ThreadList
=============================================================================
