-------------------------- MODULE MCResponseQueue --------------------------
EXTENDS ResponseQueue, TLC

\* The stored values are only ever copied, so they are interchangeable.
Symmetry == Permutations(Responses)
=============================================================================
