---------------------------- MODULE MCLedOutput ----------------------------
(* Two fixtures of the protocol that has trailing bytes, one of 16 LEDs so *)
(* that there is such a byte, and one of the other protocol.               *)
EXTENDS LedOutput

MCLeds == [f \in Fixtures |-> CASE f = "strip" -> 16 [] OTHER -> 1]

MCProtocolOf == [f \in Fixtures |-> IF f = "pixel" THEN "ws2812" ELSE "apa102"]

\* After a change of protocol none of the invariants says much: such a state is
\* checked, and not followed further.  Layers are added to fixtures of the
\* controller's protocol only.
FewStates == "protocol" \notin risks /\ \A f \in layered : ProtocolOf[f] = protocol
=============================================================================
