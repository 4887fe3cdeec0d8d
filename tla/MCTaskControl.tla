--------------------------- MODULE MCTaskControl ---------------------------
(***************************************************************************)
(* Instances of TaskControl for TLC.                                       *)
(***************************************************************************)
EXTENDS TaskControl

CONSTANTS main, a, b

ThreeContexts == <<main, a, b>>

\* One context suspends itself and is controlled by another.
PeerAndSelf == {<<b, a>>, <<a, a>>}

\* The responses of examples/Mach1/response_test.py: a press resumes the
\* context, a release only leaves it a message.
\* The REPL may register one for itself, too.
ButtonResponses ==
    {[cond |-> "falling", context |-> a, op |-> "RESUME"],
     [cond |-> "rising", context |-> a, op |-> "NONE"],
     [cond |-> "rising", context |-> main, op |-> "RESUME"]}
=============================================================================
