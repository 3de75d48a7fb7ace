------------------------------ MODULE PortTable ------------------------------
(***************************************************************************)
(* runtime/vm/port.{h,cc}: the hash table behind PortMap.  Open addressing *)
(* with linear probing; a closed port leaves a tombstone behind, which the *)
(* next port may take and which a rehash removes.  Every action is one     *)
(* critical section of PortMap::mutex_, together with the calls it makes.  *)
(***************************************************************************)
EXTENDS Null, Integers, FiniteSets

CONSTANTS
  Handlers,          \* the MessageHandlers
  deleted_entry_,
  kInitialCapacity,  \* 8 in the code
  FirstPort,         \* the initial next_port_, 7111 in the code
  MaxPorts           \* bound: how many ports a behaviour creates

ASSUME TableAssumption ==
  /\ NULL \notin Handlers /\ deleted_entry_ \notin Handlers /\ NULL # deleted_entry_
  /\ kInitialCapacity \in Nat \ {0} /\ FirstPort \in Nat \ {0} /\ MaxPorts \in Nat

VARIABLES map, capacity, used, deleted, next_port

vars == <<map, capacity, used, deleted, next_port>>

Ports == FirstPort .. (FirstPort + MaxPorts - 1)

FreeEntry == [port |-> 0, handler |-> NULL, live |-> FALSE]
EmptyMap(n) == [i \in 0 .. n - 1 |-> FreeEntry]

\* The first slot of the set `stops' that linear probing for `port' reaches in a
\* table of n slots.
Search(stops, n, port) ==
  LET Slot(k) == (port + k) % n
      dist == CHOOSE k \in 0 .. n - 1 :
                /\ Slot(k) \in stops
                /\ \A j \in 0 .. k - 1 : Slot(j) \notin stops
  IN  Slot(dist)

\* The slots without a port: free or tombstone.
Unused(m) == {i \in DOMAIN m : m[i].port = 0}

-----------------------------------------------------------------------------
\* Mutant: the search ends at a tombstone.
FindPortToTombstone(port) ==
  LET stops == {i \in DOMAIN map :
                  map[i].handler \in {NULL, deleted_entry_} \/ map[i].port = port}
      i == Search(stops, capacity, port)
  IN  IF map[i].handler \in {NULL, deleted_entry_} THEN -1 ELSE i

\* The search passes tombstones and ends at a free slot.
FindPort(port) ==
  LET stops == {i \in DOMAIN map : map[i].handler = NULL \/ map[i].port = port}
      i == Search(stops, capacity, port)
  IN  IF map[i].handler = NULL THEN -1 ELSE i

\* Entries move to a table without tombstones in the order of their slots:
\* filled[i] is the new table when the slots below i have been copied.
Rehash(m, n, new) ==
  LET filled[i \in 0 .. n] ==
        IF i = 0 THEN EmptyMap(new)
        ELSE IF m[i - 1].port = 0 THEN filled[i - 1]
        ELSE [filled[i - 1] EXCEPT
                ![Search(Unused(filled[i - 1]), new, m[i - 1].port)] = m[i - 1]]
  IN  filled[n]

\* Mutant: the tombstones are never flushed out.
NeverFlush(m, u, d) ==
  IF u > (capacity \div 4) * 3
    THEN map' = Rehash(m, capacity, capacity * 2)
         /\ capacity' = capacity * 2 /\ used' = u /\ deleted' = 0
    ELSE map' = m /\ used' = u /\ deleted' = d /\ UNCHANGED capacity

\* Grow a table that is three quarters full; rehash in place when there are
\* more tombstones than free slots.
MaintainInvariants(m, u, d) ==
  /\ used' = u
  /\ \/ /\ u > (capacity \div 4) * 3
        /\ map' = Rehash(m, capacity, capacity * 2)
        /\ capacity' = capacity * 2 /\ deleted' = 0
     \/ /\ u <= (capacity \div 4) * 3 /\ capacity - u - d < d
        /\ map' = Rehash(m, capacity, capacity)
        /\ deleted' = 0 /\ UNCHANGED capacity
     \/ /\ u <= (capacity \div 4) * 3 /\ capacity - u - d >= d
        /\ map' = m /\ deleted' = d /\ UNCHANGED capacity

-----------------------------------------------------------------------------
Init ==
  /\ map = EmptyMap(kInitialCapacity) /\ capacity = kInitialCapacity
  /\ used = 0 /\ deleted = 0 /\ next_port = FirstPort

\* AllocatePort: next_port_ moves on to the next id that is not in the map.
AllocatePort ==
  next_port' = CHOOSE q \in next_port + 1 .. next_port + capacity + 1 :
                 /\ FindPort(q) = -1
                 /\ \A r \in next_port + 1 .. q - 1 : FindPort(r) # -1

\* A new port goes to the first slot without a port, free or tombstone.
CreatePort(h) ==
  LET port == next_port
      i == Search(Unused(map), capacity, port)
  IN  /\ port \in Ports
      /\ AllocatePort
      /\ MaintainInvariants(
           [map EXCEPT ![i] = [port |-> port, handler |-> h, live |-> FALSE]],
           used + 1,
           IF map[i].handler = deleted_entry_ THEN deleted - 1 ELSE deleted)

SetLive(port) ==
  /\ FindPort(port) >= 0
  /\ map' = [map EXCEPT ![FindPort(port)].live = TRUE]
  /\ UNCHANGED <<capacity, used, deleted, next_port>>

\* The live bit of the slot stays behind in the tombstone.
Bury(e) == [e EXCEPT !.port = 0, !.handler = deleted_entry_]

ClosePort(port) ==
  /\ FindPort(port) >= 0
  /\ MaintainInvariants([map EXCEPT ![FindPort(port)] = Bury(@)], used - 1, deleted + 1)
  /\ UNCHANGED next_port

ClosePorts(h) ==
  LET S == {i \in DOMAIN map : map[i].handler = h}
  IN  /\ MaintainInvariants([i \in DOMAIN map |-> IF i \in S THEN Bury(map[i]) ELSE map[i]],
                            used - Cardinality(S), deleted + Cardinality(S))
      /\ UNCHANGED next_port

Next ==
  \/ \E h \in Handlers : CreatePort(h) \/ ClosePorts(h)
  \/ \E port \in Ports : SetLive(port) \/ ClosePort(port)

Spec == Init /\ [][Next]_vars

-----------------------------------------------------------------------------
(* Properties *)

\* FindPort ends at a free slot for any id it is asked for ("Prevent endless
\* loops."), and CreatePort finds a slot without a port.
SearchEnds == \E i \in DOMAIN map : map[i].handler = NULL

\* The table implements the map of PortRegistry: what FindPort answers for
\* every id changes exactly as the operation promises, whatever collisions,
\* tombstones and rehashes lie in between.
EntryOf(port) == map[FindPort(port)]
Registry == INSTANCE PortRegistry WITH
  NoHandler <- NULL,
  owner <- [p \in Ports |-> IF FindPort(p) = -1 THEN NULL ELSE EntryOf(p).handler],
  live <- [p \in Ports |-> FindPort(p) # -1 /\ EntryOf(p).live],
  used_ids <- {p \in Ports : p < next_port}
ImplementsRegistry == Registry!Spec
=============================================================================
