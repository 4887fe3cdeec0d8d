------------------------ MODULE MCContextLifecycle -------------------------
(***************************************************************************)
(* Instances of ContextLifecycle for TLC.                                  *)
(***************************************************************************)
EXTENDS ContextLifecycle, TLC

CONSTANTS m, t1, t2

\* The REPL stops the others, and one of them may stop itself.
MainAndSelfStop == ({m} \X {t1, t2}) \cup {<<t1, t1>>}
=============================================================================
