------------------------------ MODULE MCGcHeap ------------------------------
(***************************************************************************)
(* Instances of GcHeap for TLC.                                            *)
(***************************************************************************)
EXTENDS GcHeap

\* Small objects without and larger ones (files, sockets) with a finaliser.
FilesAndCells == {<<1, FALSE>>, <<2, TRUE>>}

\* What follows a collection inside a sweep is followed in heaps without links.
FewIrregular == Regular \/ (~kept /\ stackSize = 1 /\ \A b \in Blocks : ptr[b] = Null)
=============================================================================
