----------------------- MODULE HashMapImplementation -----------------------
(***************************************************************************)
(* corelib/src/implementation/hash_map_set.dart, the hash map of Dart      *)
(* programs, behind HashSet and the table of ReceivePorts of an isolate:   *)
(* quadratic probing, and removed keys leave _DELETED_KEY behind.          *)
(***************************************************************************)
EXTENDS MapKeys, Integers, FiniteSets

CONSTANTS _DELETED_KEY,
          _INITIAL_CAPACITY  \* a power of two

VARIABLES _keys, _values, _numberOfEntries, _numberOfDeleted,
          _stored  \* history: the value last stored for each key, or NULL

dartMapVars == <<_keys, _values, _numberOfEntries, _numberOfDeleted, hash, _stored>>

EmptyList(n) == [i \in 0 .. n - 1 |-> NULL]

Length(keys) == Cardinality(DOMAIN keys)

computeLoadLimit(capacity) == (capacity * 3) \div 4

\* The slot of probe number i: _firstProbe and then _nextProbe i times.
Slot(keys, k, i) == (hash[k] + (i * (i + 1)) \div 2) % Length(keys)

\* The probe that ends a search: the key or an empty slot.
LastProbe(keys, k) ==
  LET Stops(i) == keys[Slot(keys, k, i)] \in {NULL, k}
  IN  CHOOSE i \in 0 .. Length(keys) - 1 : Stops(i) /\ \A j \in 0 .. i - 1 : ~Stops(j)

\* Mutant: a deleted slot is taken at once.
AddToFirstDeleted(keys, k) ==
  LET Stops(i) == keys[Slot(keys, k, i)] \in {NULL, _DELETED_KEY, k}
  IN  Slot(keys, k, CHOOSE i \in 0 .. Length(keys) - 1 :
                      Stops(i) /\ \A j \in 0 .. i - 1 : ~Stops(j))

\* The slot of k; if it has none, the first deleted slot of the search, or the
\* empty one that ends it.
probeForAdding(keys, k) ==
  LET last == LastProbe(keys, k)
      deleted == {i \in 0 .. last : keys[Slot(keys, k, i)] = _DELETED_KEY}
  IN  IF keys[Slot(keys, k, last)] = k \/ deleted = {} THEN Slot(keys, k, last)
      ELSE Slot(keys, k, CHOOSE i \in deleted : \A j \in deleted : i <= j)

probeForLookup(k) ==
  LET slot == Slot(_keys, k, LastProbe(_keys, k))
  IN  IF _keys[slot] = k THEN slot ELSE -1

\* _grow: the lists when the keys of the slots below i have been added again.
grow(keys, values, n) ==
  LET filled[i \in 0 .. Length(keys)] ==
        IF i = 0 THEN [keys |-> EmptyList(n), values |-> EmptyList(n)]
        ELSE IF keys[i - 1] \in {NULL, _DELETED_KEY} THEN filled[i - 1]
        ELSE LET lists == filled[i - 1]
                 slot == probeForAdding(lists.keys, keys[i - 1])
             IN  [keys |-> [lists.keys EXCEPT ![slot] = keys[i - 1]],
                  values |-> [lists.values EXCEPT ![slot] = values[i - 1]]]
  IN  filled[Length(keys)]

\* Mutant: deleted slots are never cleaned up.
GrowOnlyWhenLoaded ==
  IF _numberOfEntries + 1 >= computeLoadLimit(Length(_keys)) THEN 2 * Length(_keys) ELSE 0

\* _ensureCapacity: the new capacity, or 0 if the lists are kept.
ensureCapacity ==
  LET free == Length(_keys) - (_numberOfEntries + 1) - _numberOfDeleted
  IN  IF _numberOfEntries + 1 >= computeLoadLimit(Length(_keys)) THEN 2 * Length(_keys)
      ELSE IF _numberOfDeleted > free THEN Length(_keys) ELSE 0

\* operator []=.  A deleted slot that is used again stays counted as deleted.
Put(k, v) ==
  LET grown == IF ensureCapacity = 0 THEN [keys |-> _keys, values |-> _values]
               ELSE grow(_keys, _values, ensureCapacity)
      slot == probeForAdding(grown.keys, k)
  IN  /\ _keys' = [grown.keys EXCEPT ![slot] = k]
      /\ _values' = [grown.values EXCEPT ![slot] = v]
      /\ _numberOfEntries' = IF grown.keys[slot] = k THEN _numberOfEntries
                             ELSE _numberOfEntries + 1
      /\ _numberOfDeleted' = IF ensureCapacity = 0 THEN _numberOfDeleted ELSE 0
      /\ _stored' = [_stored EXCEPT ![k] = v]
      /\ UNCHANGED hash

putIfAbsent(k, v) == probeForLookup(k) = -1 /\ Put(k, v)

remove(k) ==
  LET index == probeForLookup(k)
  IN  /\ index >= 0
      /\ _numberOfEntries' = _numberOfEntries - 1
      /\ _values' = [_values EXCEPT ![index] = NULL]
      /\ _keys' = [_keys EXCEPT ![index] = _DELETED_KEY]
      /\ _numberOfDeleted' = _numberOfDeleted + 1
      /\ _stored' = [_stored EXCEPT ![k] = NULL]
      /\ UNCHANGED hash

clear ==
  /\ _numberOfEntries' = 0 /\ _numberOfDeleted' = 0
  /\ _keys' = EmptyList(Length(_keys)) /\ _values' = EmptyList(Length(_keys))
  /\ _stored' = [k \in Keys |-> NULL]
  /\ UNCHANGED hash

DartMapInit ==
  /\ _keys = EmptyList(_INITIAL_CAPACITY) /\ _values = EmptyList(_INITIAL_CAPACITY)
  /\ _numberOfEntries = 0 /\ _numberOfDeleted = 0
  /\ hash \in [Keys -> Hashes]
  /\ _stored = [k \in Keys |-> NULL]

DartMapNext ==
  \/ \E k \in Keys : remove(k) \/ \E v \in Values : Put(k, v) \/ putIfAbsent(k, v)
  \/ clear

DartMapSpec == DartMapInit /\ [][DartMapNext]_dartMapVars

-----------------------------------------------------------------------------
\* "_ensureCapacity has guaranteed" that no search comes back to its start: the
\* entries are counted exactly, and although deleted slots that were used again
\* are counted as deleted, a slot is empty after every operation.
DartMapSearchesEnd ==
  /\ _numberOfEntries = Cardinality({i \in DOMAIN _keys : _keys[i] \in Keys})
  /\ _numberOfDeleted >= Cardinality({i \in DOMAIN _keys : _keys[i] = _DELETED_KEY})
  /\ \E i \in DOMAIN _keys : _keys[i] = NULL

\* Through collisions, deleted slots, their reuse and growth a lookup finds for
\* every key what was last stored for it.
DartMapFindsLastStored ==
  \A k \in Keys :
    LET index == probeForLookup(k)
    IN  _stored[k] = IF index = -1 THEN NULL ELSE _values[index]
=============================================================================
