------------------------------- MODULE MCHeap -------------------------------
(* Instances of Heap for TLC. *)
EXTENDS Heap

\* The weak reference sets of a prologue callback: none; a chain whose first
\* set has to wait for the second; two whose keys keep each other's values.
Ref(key, value) == [keys |-> <<key>>, values |-> <<value>>]
ReferenceChains == {<<>>, <<Ref(2, 3), Ref(1, 2)>>, <<Ref(2, 3), Ref(3, 2)>>}
=============================================================================
