-------------------------- MODULE MCContextSwitch --------------------------
(***************************************************************************)
(* Instances of ContextSwitch for TLC: the REPL's context and another one  *)
(* on core 1, a third one on core 0.                                       *)
(***************************************************************************)
EXTENDS ContextSwitch, TLC

CONSTANTS main, blink, server, core0, core1

Pinned == main :> {core1} @@ blink :> {core1} @@ server :> {core0}
NoOwner == [t \in {} |-> main]
=============================================================================
