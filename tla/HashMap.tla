------------------------------ MODULE HashMap ------------------------------
(***************************************************************************)
(* runtime/bin/hashmap.cc, the map behind the event handler and the        *)
(* debugger connection: linear probing, and a removal that moves entries   *)
(* back into the gap instead of leaving a tombstone.                       *)
(***************************************************************************)
EXTENDS MapKeys, Integers, FiniteSets

CONSTANT initial_capacity  \* a power of two

VARIABLES map_, capacity_, occupancy_,
          stored  \* history: the value last stored for each key, or NULL

mapVars == <<map_, capacity_, occupancy_, hash, stored>>

\* The rest of an entry without a key is never read.
Empty == [key |-> NULL, hash |-> 0, value |-> NULL]

Initialize(n) == [i \in 0 .. n - 1 |-> Empty]

\* The entry where the search for a key in a map of n entries ends: that of the
\* key, or an empty one.  All keys that match have the same hash.
Probe(m, n, k) ==
  LET Entry(i) == (hash[k] + i) % n
      Stops(i) == m[Entry(i)].key \in {NULL, k}
  IN  Entry(CHOOSE i \in 0 .. n - 1 : Stops(i) /\ \A j \in 0 .. i - 1 : ~Stops(j))

\* Resize: the entries go to a map of twice the size in the order of their places.
\* filled[i] is the new map when the places below i have been copied.
Resize(m, n) ==
  LET filled[i \in 0 .. n] ==
        IF i = 0 THEN Initialize(2 * n)
        ELSE LET map == filled[i - 1]
             IN  IF m[i - 1].key = NULL THEN map
                 ELSE [map EXCEPT ![Probe(map, 2 * n, m[i - 1].key)] = m[i - 1]]
  IN  filled[n]

\* The occupancy at which a map of n entries grows.
MustGrow(occupancy, n) == occupancy + (occupancy \div 4) >= n

\* Lookup(key, hash, true), and the caller sets the value of the entry.  The
\* copying calls of Lookup never resize: the map is at most half full.
Lookup(k, v) ==
  LET i == Probe(map_, capacity_, k)
      m == [map_ EXCEPT ![i] = [key |-> k, hash |-> hash[k], value |-> v]]
      occupancy == IF map_[i].key = NULL THEN occupancy_ + 1 ELSE occupancy_
  IN  /\ occupancy_' = occupancy
      /\ IF map_[i].key = NULL /\ MustGrow(occupancy, capacity_)
         THEN map_' = Resize(m, capacity_) /\ capacity_' = 2 * capacity_
         ELSE map_' = m /\ UNCHANGED capacity_
      /\ stored' = [stored EXCEPT ![k] = v]
      /\ UNCHANGED hash

\* Mutant: the wrap-around is not considered.
MovableNoWrap(start, candidate, next) == start <= candidate \/ start > next

\* The entry at next can be moved to the gap at candidate: its search does not
\* start between them.
Movable(start, candidate, next) ==
  \/ next > candidate /\ (start <= candidate \/ start > next)
  \/ next < candidate /\ (start <= candidate /\ start > next)

\* The loop of Remove, which starts at the entry i.  turn[d] is the map after d
\* turns and the gap in it; the loop ends in front of an empty entry.
CloseGap(m, i) ==
  LET Place(d) == (i + d) % capacity_
      turn[d \in 0 .. capacity_ - 1] ==
        IF d = 0 THEN [map |-> m, gap |-> i]
        ELSE LET t == turn[d - 1]
                 entry == t.map[Place(d)]
             IN  IF Movable(entry.hash % capacity_, t.gap, Place(d))
                   THEN [map |-> [t.map EXCEPT ![t.gap] = entry], gap |-> Place(d)]
                   ELSE t
      Ends(d) == turn[d].map[Place(d + 1)].key = NULL
      last == turn[CHOOSE d \in 0 .. capacity_ - 1 : Ends(d) /\ \A e \in 0 .. d - 1 : ~Ends(e)]
  IN  [last.map EXCEPT ![last.gap] = Empty]

Remove(k) ==
  LET i == Probe(map_, capacity_, k)
  IN  /\ map_[i].key # NULL
      /\ map_' = CloseGap(map_, i)
      /\ occupancy_' = occupancy_ - 1
      /\ stored' = [stored EXCEPT ![k] = NULL]
      /\ UNCHANGED <<capacity_, hash>>

Clear ==
  /\ map_' = Initialize(capacity_)
  /\ occupancy_' = 0
  /\ stored' = [k \in Keys |-> NULL]
  /\ UNCHANGED <<capacity_, hash>>

MapInit ==
  /\ map_ = Initialize(initial_capacity)
  /\ capacity_ = initial_capacity
  /\ occupancy_ = 0
  /\ hash \in [Keys -> Hashes]
  /\ stored = [k \in Keys |-> NULL]

MapNext ==
  \/ \E k \in Keys : Remove(k) \/ \E v \in Values : Lookup(k, v)
  \/ Clear

MapSpec == MapInit /\ [][MapNext]_mapVars

-----------------------------------------------------------------------------
\* Through collisions, wrap-around, moved entries and growth the search finds
\* for every key what was last stored for it.
MapFindsLastStored ==
  \A k \in Keys : map_[Probe(map_, capacity_, k)].value = stored[k]
=============================================================================
