---------------------------- MODULE ObjectGraph ----------------------------
(***************************************************************************)
(* The heap as its program sees it: objects with pointer fields, handles   *)
(* that keep objects alive, and watches (weak persistent handles).  There  *)
(* are no addresses, generations or collections, and only the objects that *)
(* a handle or a watch leads to are recorded.                              *)
(***************************************************************************)
EXTENDS Integers, FiniteSets, TLC

CONSTANTS
  Nil,       \* a pointer to nothing in the heap
  Handles,   \* the strong handles
  Watches    \* the weak handles

VARIABLES
  handle,    \* handle[h], h a handle or a watch: an object or Nil
  field      \* field[o][i]: an object or Nil

gvars == <<handle, field>>

Values(f) == {f[d] : d \in DOMAIN f} \ {Nil}

\* The objects that the fields f lead to from the objects S.
ReachVia(f, S) ==
  LET R[n \in 0 .. Cardinality(DOMAIN f)] ==
        IF n = 0 THEN S
        ELSE LET T == R[n - 1] IN T \cup UNION {Values(f[o]) : o \in T}
  IN  R[Cardinality(DOMAIN f)]

Become(h, f) ==
  /\ handle' = h
  /\ field' = [o \in ReachVia(f, Values(h)) |-> f[o]]

GInit == /\ handle = [h \in Handles \cup Watches |-> Nil]
         /\ field = [o \in {} |-> <<>>]

GNew(h, o, n) ==
  /\ o \notin DOMAIN field
  /\ Become([handle EXCEPT ![h] = o], field @@ (o :> [i \in 1..n |-> Nil]))

GStore(h, i, g) ==
  /\ handle[h] # Nil /\ i \in DOMAIN field[handle[h]]
  /\ Become(handle, [field EXCEPT ![handle[h]][i] = handle[g]])

GLoad(h, i, g) ==
  /\ handle[h] # Nil /\ i \in DOMAIN field[handle[h]]
  /\ Become([handle EXCEPT ![g] = field[handle[h]][i]], field)

GCopy(h, g) == Become([handle EXCEPT ![g] = handle[h]], field)
\* The program clears a handle, or the collector clears watches.
GClear(D) == Become([h \in DOMAIN handle |-> IF h \in D THEN Nil ELSE handle[h]], field)
=============================================================================
