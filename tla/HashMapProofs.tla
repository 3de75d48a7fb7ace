--------------------------- MODULE HashMapProofs ---------------------------
(***************************************************************************)
(* Proofs about the open-addressed map of runtime/bin/hashmap.cc, for any  *)
(* keys, values, hashes and initial capacity, of which nothing is assumed  *)
(* but MapConstants: the search finds what was last stored (MapFinds), the *)
(* counter is exact and a place stays empty (MapCounts).                   *)
(*                                                                         *)
(* Searches go round the table, so the proofs count steps from a place:    *)
(* Step(n, i, d) is d steps after i.  The hard operation is Remove, which  *)
(* closes the gap by moving later entries; Shifted is the invariant of its *)
(* loop.                                                                   *)
(***************************************************************************)
EXTENDS HashMap, DataLemmas, FiniteSetTheorems

\* Zenon for a moment, then SMT, then Zenon for longer.
USE ZenonT(2), SMTT(30), ZenonT(30)

\* NULL is not a key, hashes are unsigned (hashmap.h:30) and a map has places
\* (the assertion of Initialize).
MapConstants ==
  NULL \notin Keys /\ Hashes \subseteq Nat /\ initial_capacity \in Nat \ {0}

\* HashMap::Entry; an empty place has no key and no value.
Entry == [key : Keys \cup {NULL}, hash : Nat, value : Values \cup {NULL}]

\* A search that starts at h meets j before s.
Between(h, j, s) == (h <= j /\ j < s) \/ (j < s /\ s < h) \/ (s < h /\ h <= j)

\* The places of a map that hold a key, and the entries there.
Occupied(m) == {s \in DOMAIN m : m[s].key # NULL}
Contents(m) == {m[s] : s \in Occupied(m)}

\* A map of n places in which every key is once and no empty place hides it.
Table(m, n) ==
  /\ m \in [0 .. n - 1 -> Entry]
  /\ \A s \in 0 .. n - 1 : IF m[s].key = NULL THEN m[s] = Empty
                                              ELSE m[s].hash = hash[m[s].key]
  /\ \A s, t \in 0 .. n - 1 : m[s].key # NULL /\ m[s].key = m[t].key => s = t
  /\ \A s, j \in 0 .. n - 1 :
       m[s].key # NULL /\ Between(m[s].hash % n, j, s) => m[j].key # NULL

\* The entries of S are what was last stored.
Records(S) ==
  /\ \A e \in S : e.value = stored[e.key]
  /\ \A k \in Keys : (\A e \in S : e.key # k) => stored[k] = NULL

\* The inductive invariant: the map is a table, counted by occupancy_, with a place
\* left empty, and it holds what was last stored.
MapInv ==
  /\ capacity_ \in Nat \ {0} /\ hash \in [Keys -> Nat]
  /\ stored \in [Keys -> Values \cup {NULL}]
  /\ Table(map_, capacity_)
  /\ occupancy_ = Cardinality(Occupied(map_)) /\ occupancy_ < capacity_
  /\ Records(Contents(map_))

-----------------------------------------------------------------------------
(* Places of a table and the searches through it.                          *)

\* The place d steps after the place i of a table of n places.
Step(n, i, d) == IF i + d < n THEN i + d ELSE i + d - n

\* Adding d to a number moves its remainder by d steps.
LEMMA StepIs ==
  ASSUME NEW n \in Nat \ {0}, NEW p \in Nat, NEW d \in 0 .. n
  PROVE  /\ p % n \in 0 .. n - 1
         /\ (p + d) % n = Step(n, p % n, d)
         /\ (p + d) % n \in 0 .. n - 1
<1> DEFINE r == p % n
           q == p \div n
<1>1. r \in 0 .. n - 1 /\ q \in Int /\ p = n * q + r
  OBVIOUS
<1> HIDE DEF r, q
<1>2. CASE r + d < n
  <2>1. r + d \in 0 .. n - 1 /\ p + d = n * q + (r + d)
    BY <1>1, <1>2
  <2>2. (n * q + (r + d)) % n = r + d
    BY <1>1, <2>1, ModUnique
  <2> QED BY <1>1, <1>2, <2>1, <2>2 DEF Step, r
<1>3. CASE ~(r + d < n)
  <2>1. r + d - n \in 0 .. n - 1 /\ q + 1 \in Int
    BY <1>1, <1>3
  <2>2. n * (q + 1) = n * q + n
    BY <1>1
  <2>3. p + d = n * (q + 1) + (r + d - n)
    BY <1>1, <2>2
  <2>4. (n * (q + 1) + (r + d - n)) % n = r + d - n
    BY <2>1, ModUnique
  <2> QED BY <1>1, <1>3, <2>1, <2>3, <2>4 DEF Step, r
<1> QED BY <1>2, <1>3

\* What a search meets before its place number e, and that it meets every place.
LEMMA Search ==
  ASSUME NEW n \in Nat \ {0}, NEW h \in 0 .. n - 1
  PROVE  /\ \A e \in 0 .. n - 1 : Step(n, h, e) \in 0 .. n - 1
         /\ \A e, j \in 0 .. n - 1 :
              Between(h, j, Step(n, h, e)) <=> \E c \in 0 .. e - 1 : j = Step(n, h, c)
         /\ \A s \in 0 .. n - 1 : \E e \in 0 .. n - 1 : s = Step(n, h, e)
<1>1. \A e \in 0 .. n - 1 : Step(n, h, e) \in 0 .. n - 1
  BY DEF Step
<1>2. ASSUME NEW s \in 0 .. n - 1 PROVE \E e \in 0 .. n - 1 : s = Step(n, h, e)
  <2>1. CASE s >= h
    <3>1. s - h \in 0 .. n - 1 /\ s = Step(n, h, s - h)
      BY <2>1 DEF Step
    <3> QED BY <3>1
  <2>2. CASE s < h
    <3>1. s + n - h \in 0 .. n - 1 /\ s = Step(n, h, s + n - h)
      BY <2>2 DEF Step
    <3> QED BY <3>1
  <2> QED BY <2>1, <2>2
<1>3. ASSUME NEW e \in 0 .. n - 1, NEW j \in 0 .. n - 1, Between(h, j, Step(n, h, e))
      PROVE  \E c \in 0 .. e - 1 : j = Step(n, h, c)
  <2>1. CASE j >= h
    <3>1. j - h \in 0 .. e - 1 /\ j = Step(n, h, j - h)
      BY <1>3, <2>1 DEF Step, Between
    <3> QED BY <3>1
  <2>2. CASE j < h
    <3>1. j + n - h \in 0 .. e - 1 /\ j = Step(n, h, j + n - h)
      BY <1>3, <2>2 DEF Step, Between
    <3> QED BY <3>1
  <2> QED BY <2>1, <2>2
<1>4. ASSUME NEW e \in 0 .. n - 1, NEW c \in 0 .. e - 1
      PROVE  Between(h, Step(n, h, c), Step(n, h, e))
  BY DEF Step, Between
<1> QED BY <1>1, <1>2, <1>3, <1>4

\* The order of a search does not depend on where the numbering starts.
LEMMA Turned ==
  ASSUME NEW n \in Nat \ {0}, NEW i \in 0 .. n - 1,
         NEW a \in 0 .. n - 1, NEW b \in 0 .. n - 1, NEW c \in 0 .. n - 1
  PROVE  Between(Step(n, i, a), Step(n, i, b), Step(n, i, c)) <=> Between(a, b, c)
BY DEF Step, Between

\* Of two places, a search that starts anywhere meets one before the other.
LEMMA BetweenTotal ==
  ASSUME NEW n \in Nat, NEW h \in 0 .. n - 1, NEW s \in 0 .. n - 1, NEW t \in 0 .. n - 1, s # t
  PROVE  Between(h, s, t) \/ Between(h, t, s)
BY DEF Between

\* The search for k stops at k or at an empty place, and passes neither before.
LEMMA ProbeLemma ==
  ASSUME hash \in [Keys -> Nat], NEW n \in Nat \ {0}, NEW m, NEW k \in Keys,
         \E s \in 0 .. n - 1 : m[s].key = NULL
  PROVE  \E s \in 0 .. n - 1 :
           /\ Probe(m, n, k) = s /\ m[s].key \in {NULL, k}
           /\ \A j \in 0 .. n - 1 : Between(hash[k] % n, j, s) => m[j].key \notin {NULL, k}
<1> DEFINE E(i) == (hash[k] + i) % n
           h == hash[k] % n
           Stops(i) == m[E(i)].key \in {NULL, k}
           First(i) == Stops(i) /\ \A j \in 0 .. i - 1 : ~Stops(j)
           S == {i \in 0 .. n - 1 : Stops(i)}
<1>1. h \in 0 .. n - 1 /\ \A i \in 0 .. n - 1 : E(i) = Step(n, h, i)
  <2>1. hash[k] \in Nat /\ \A i \in 0 .. n - 1 : i \in 0 .. n
    OBVIOUS
  <2>2. h \in 0 .. n - 1
    BY <2>1
  <2>3. ASSUME NEW i \in 0 .. n - 1 PROVE E(i) = Step(n, h, i)
    BY <2>1, StepIs
  <2> QED BY <2>2, <2>3
<1> HIDE DEF h
<1>2. S # {} /\ S \subseteq Nat
  <2>1. PICK s \in 0 .. n - 1 : m[s].key = NULL
    OBVIOUS
  <2>2. PICK e \in 0 .. n - 1 : s = Step(n, h, e)
    BY <1>1, Search
  <2>3. E(e) = s
    BY <1>1, <2>2
  <2>4. e \in S
    BY <2>1, <2>3
  <2> QED BY <2>4
<1>3. PICK i \in S : \A j \in S : i <= j
  BY <1>2, LeastNat, ZenonT(30)
<1>4. i \in 0 .. n - 1 /\ First(i)
  <2>1. i \in 0 .. n - 1 /\ Stops(i)
    BY <1>3
  <2>2. ASSUME NEW j \in 0 .. i - 1, Stops(j) PROVE FALSE
    <3>1. j \in S /\ ~(i <= j)
      BY <2>1, <2>2
    <3> QED BY <1>3, <3>1
  <2> QED BY <2>1, <2>2, ZenonT(30)
<1> DEFINE d == CHOOSE x \in 0 .. n - 1 : First(x)
<1>5. d \in 0 .. n - 1 /\ First(d)
  BY <1>4, ZenonT(30)
<1>6. Probe(m, n, k) = E(d)
  BY DEF Probe
<1> HIDE DEF d
<1>7. E(d) \in 0 .. n - 1 /\ E(d) = Step(n, h, d)
  <2>1. d \in 0 .. n - 1 /\ E(d) = Step(n, h, d)
    BY <1>1, <1>5, ZenonT(30)
  <2>2. \A e \in 0 .. n - 1 : Step(n, h, e) \in 0 .. n - 1
    BY <1>1, Search
  <2> HIDE DEF E
  <2> QED BY <2>1, <2>2
<1>8. ASSUME NEW j \in 0 .. n - 1, Between(h, j, E(d)) PROVE m[j].key \notin {NULL, k}
  <2>1. PICK c \in 0 .. d - 1 : j = Step(n, h, c)
    BY <1>1, <1>5, <1>7, <1>8, Search
  <2>2. c \in 0 .. n - 1
    BY <1>5
  <2>3. E(c) = j
    BY <1>1, <2>1, <2>2
  <2>4. ~Stops(c)
    BY <1>5, <2>1
  <2> QED BY <2>3, <2>4
<1>9. m[E(d)].key \in {NULL, k}
  BY <1>5
<1> HIDE DEF E
<1> QED BY <1>6, <1>7, <1>8, <1>9 DEF h

-----------------------------------------------------------------------------
(* What the operations do to a table.                                      *)

\* The parts of Table.
LEMMA TableTypes ==
  ASSUME NEW n \in Nat \ {0}, NEW m, Table(m, n)
  PROVE  /\ m \in [0 .. n - 1 -> Entry] /\ DOMAIN m = 0 .. n - 1
         /\ \A s \in 0 .. n - 1 : /\ m[s] \in Entry /\ m[s].key \in Keys \cup {NULL}
                                  /\ m[s].hash \in Nat
                                  /\ m[s].key = NULL => m[s] = Empty
                                  /\ m[s].key # NULL => m[s].hash = hash[m[s].key]
                                  /\ s \in Occupied(m) <=> m[s].key # NULL
         /\ Occupied(m) \subseteq 0 .. n - 1
<1>1. m \in [0 .. n - 1 -> Entry] /\ DOMAIN m = 0 .. n - 1
  BY DEF Table
<1>2. \A s \in 0 .. n - 1 : m[s] \in Entry
  BY <1>1
<1>3. \A s \in 0 .. n - 1 : m[s].key \in Keys \cup {NULL} /\ m[s].hash \in Nat
  BY <1>2 DEF Entry
<1>4. \A s \in 0 .. n - 1 : /\ m[s].key = NULL => m[s] = Empty
                            /\ m[s].key # NULL => m[s].hash = hash[m[s].key]
  BY DEF Table
<1>5. \A s \in 0 .. n - 1 : s \in Occupied(m) <=> m[s].key # NULL
  BY <1>1 DEF Occupied
<1>6. Occupied(m) \subseteq 0 .. n - 1
  BY <1>1 DEF Occupied
<1> QED BY <1>1, <1>2, <1>3, <1>4, <1>5, <1>6

\* The search finds the place of a key, and an empty one for any other key.
LEMMA FindLemma ==
  ASSUME hash \in [Keys -> Nat], NULL \notin Keys, NEW n \in Nat \ {0}, NEW m, Table(m, n),
         NEW k \in Keys, \E s \in 0 .. n - 1 : m[s].key = NULL
  PROVE  \E s \in 0 .. n - 1 :
           /\ Probe(m, n, k) = s /\ m[s].key \in {NULL, k}
           /\ m[s].key = NULL => \A t \in 0 .. n - 1 : m[t].key # k
           /\ \A j \in 0 .. n - 1 : Between(hash[k] % n, j, s) => m[j].key # NULL
<1>1. PICK s \in 0 .. n - 1 :
        /\ Probe(m, n, k) = s /\ m[s].key \in {NULL, k}
        /\ \A j \in 0 .. n - 1 : Between(hash[k] % n, j, s) => m[j].key \notin {NULL, k}
  BY ProbeLemma
<1>2. ASSUME m[s].key = NULL, NEW t \in 0 .. n - 1, m[t].key = k PROVE FALSE
  <2> DEFINE h == hash[k] % n
  <2>1. s # t /\ m[t].key # NULL /\ m[t].hash = hash[k]
    BY <1>2, TableTypes
  <2>2. hash[k] \in Nat /\ h \in 0 .. n - 1
    OBVIOUS
  <2>3. ~Between(h, s, t)
    <3>1. Between(m[t].hash % n, s, t) => m[s].key # NULL
      BY <2>1 DEF Table
    <3> QED BY <1>2, <2>1, <3>1
  <2>4. ~Between(h, t, s)
    BY <1>1, <1>2
  <2> HIDE DEF h
  <2> QED BY <2>1, <2>2, <2>3, <2>4, BetweenTotal
<1> QED BY <1>1, <1>2

\* The map m with e at the place s.
Put(m, s, e) == [m EXCEPT ![s] = e]

\* A map m of n places that has room and no entry of the key of e.
Inserting(m, n, e) ==
  /\ hash \in [Keys -> Nat] /\ NULL \notin Keys /\ n \in Nat \ {0} /\ Table(m, n)
  /\ e \in Entry /\ e.key \in Keys /\ e.hash = hash[e.key]
  /\ \E s \in 0 .. n - 1 : m[s].key = NULL
  /\ \A s \in 0 .. n - 1 : m[s].key # e.key

\* A new entry at the end of its search.
LEMMA InsertEntry ==
  ASSUME NEW n, NEW m, NEW e, Inserting(m, n, e),
         NEW m2, m2 = Put(m, Probe(m, n, e.key), e)
  PROVE  /\ Table(m2, n) /\ Contents(m2) = Contents(m) \cup {e}
         /\ \E s \in 0 .. n - 1 : s \notin Occupied(m) /\ Occupied(m2) = Occupied(m) \cup {s}
<1> USE DEF Inserting
<1> DEFINE k == e.key
<1>1. PICK s \in 0 .. n - 1 :
        /\ Probe(m, n, k) = s /\ m[s].key \in {NULL, k}
        /\ m[s].key = NULL => \A t \in 0 .. n - 1 : m[t].key # k
        /\ \A j \in 0 .. n - 1 : Between(hash[k] % n, j, s) => m[j].key # NULL
  BY FindLemma
<1>2. m[s].key = NULL /\ k # NULL
  BY <1>1
<1>3. /\ m \in [0 .. n - 1 -> Entry] /\ DOMAIN m = 0 .. n - 1
      /\ \A t \in 0 .. n - 1 : t \in Occupied(m) <=> m[t].key # NULL
      /\ Occupied(m) \subseteq 0 .. n - 1
  BY TableTypes
<1>4. /\ m2 \in [0 .. n - 1 -> Entry] /\ DOMAIN m2 = 0 .. n - 1
      /\ m2[s] = e /\ \A t \in 0 .. n - 1 : t # s => m2[t] = m[t]
  BY <1>1, <1>3 DEF Put
<1>5. /\ s \notin Occupied(m) /\ Occupied(m2) = Occupied(m) \cup {s}
  BY <1>2, <1>3, <1>4 DEF Occupied
<1>6. Contents(m2) = Contents(m) \cup {e}
  <2>1. m2[s] = e /\ \A t \in Occupied(m) : m2[t] = m[t]
    BY <1>3, <1>4, <1>5
  <2>2. \A x : x \in Contents(m2) <=> \E t \in Occupied(m) \cup {s} : x = m2[t]
    BY <1>5 DEF Contents
  <2>3. \A x : x \in Contents(m) <=> \E t \in Occupied(m) : x = m[t]
    BY DEF Contents
  <2>4. ASSUME NEW x \in Contents(m2) PROVE x \in Contents(m) \cup {e}
    <3>1. PICK t \in Occupied(m) \cup {s} : x = m2[t]
      BY <2>2
    <3>2. CASE t = s
      BY <2>1, <3>1, <3>2
    <3>3. CASE t \in Occupied(m)
      <4>1. x = m[t]
        BY <2>1, <3>1, <3>3
      <4> QED BY <2>3, <3>3, <4>1
    <3> QED BY <3>1, <3>2, <3>3
  <2>5. e \in Contents(m2)
    BY <2>1, <2>2
  <2>6. ASSUME NEW x \in Contents(m) PROVE x \in Contents(m2)
    <3>1. PICK t \in Occupied(m) : x = m[t]
      BY <2>3
    <3> QED BY <2>1, <2>2, <3>1
  <2> QED BY <2>4, <2>5, <2>6
<1>7. \A t \in 0 .. n - 1 : IF m2[t].key = NULL THEN m2[t] = Empty
                                                ELSE m2[t].hash = hash[m2[t].key]
  BY <1>2, <1>4 DEF Table
<1>8. \A t, u \in 0 .. n - 1 : m2[t].key # NULL /\ m2[t].key = m2[u].key => t = u
  BY <1>4 DEF Table
<1>9. \A t \in 0 .. n - 1 : m[t].key # NULL => m2[t].key # NULL
  BY <1>2, <1>4
<1>10. ASSUME NEW t \in 0 .. n - 1, NEW j \in 0 .. n - 1, m2[t].key # NULL,
              Between(m2[t].hash % n, j, t)
       PROVE  m2[j].key # NULL
  <2>1. CASE t = s
    BY <1>1, <1>4, <1>9, <1>10, <2>1
  <2>2. CASE t # s
    <3>1. m[t].key # NULL /\ Between(m[t].hash % n, j, t)
      BY <1>4, <1>10, <2>2
    <3>2. m[j].key # NULL
      BY <3>1 DEF Table
    <3> QED BY <1>9, <3>2
  <2> QED BY <2>1, <2>2
<1>11. Table(m2, n)
  BY <1>4, <1>7, <1>8, <1>10 DEF Table
<1> QED BY <1>5, <1>6, <1>11

\* A new value for a key of the table.
LEMMA ReplaceLemma ==
  ASSUME NEW n \in Nat \ {0}, NEW m, Table(m, n), NEW s \in 0 .. n - 1, m[s].key # NULL,
         NEW e \in Entry, e.key = m[s].key, e.hash = m[s].hash,
         NEW m2, m2 = Put(m, s, e)
  PROVE  /\ Table(m2, n) /\ Occupied(m2) = Occupied(m)
         /\ \A t \in 0 .. n - 1 : m2[t] = IF t = s THEN e ELSE m[t]
<1>1. m \in [0 .. n - 1 -> Entry] /\ DOMAIN m = 0 .. n - 1
  BY TableTypes
<1>2. /\ m2 \in [0 .. n - 1 -> Entry] /\ DOMAIN m2 = 0 .. n - 1
      /\ \A t \in 0 .. n - 1 : m2[t] = IF t = s THEN e ELSE m[t]
  BY <1>1 DEF Put
<1>3. \A t \in 0 .. n - 1 : /\ m2[t].key = m[t].key /\ m2[t].hash = m[t].hash
                            /\ m[t].key = NULL => m2[t] = m[t]
  BY <1>2
<1>4. Occupied(m2) = Occupied(m)
  BY <1>1, <1>2, <1>3 DEF Occupied
<1>5. Table(m2, n)
  BY <1>2, <1>3 DEF Table
<1> QED BY <1>2, <1>4, <1>5

\* A table has an empty place if it holds fewer entries than places.
LEMMA FreePlace ==
  ASSUME NEW n \in Nat \ {0}, NEW m, Table(m, n)
  PROVE  /\ IsFiniteSet(Occupied(m)) /\ Cardinality(Occupied(m)) \in Nat
         /\ Cardinality(Occupied(m)) < n => \E s \in 0 .. n - 1 : m[s].key = NULL
<1>1. IsFiniteSet(0 .. n - 1) /\ Cardinality(0 .. n - 1) = n
  BY FS_Interval
<1>2. Occupied(m) \subseteq 0 .. n - 1
  BY TableTypes
<1>3. IsFiniteSet(Occupied(m))
  BY <1>1, <1>2, FS_Subset
<1>4. Cardinality(Occupied(m)) \in Nat
  BY <1>3, FS_CardinalityType
<1>5. ASSUME Cardinality(Occupied(m)) < n PROVE \E s \in 0 .. n - 1 : m[s].key = NULL
  <2>1. Occupied(m) # 0 .. n - 1
    BY <1>1, <1>4, <1>5
  <2>2. PICK s \in 0 .. n - 1 : s \notin Occupied(m)
    BY <1>2, <2>1
  <2> QED BY <2>2, TableTypes
<1> QED BY <1>3, <1>4, <1>5

-----------------------------------------------------------------------------
(* Resize.                                                                 *)

\* What the function `filled' of Resize is, place by place.
Fills(f, m, n) ==
  /\ f[0] = Initialize(2 * n)
  /\ \A i \in 1 .. n :
       f[i] = IF m[i - 1].key = NULL THEN f[i - 1]
              ELSE [f[i - 1] EXCEPT ![Probe(f[i - 1], 2 * n, m[i - 1].key)] = m[i - 1]]

\* There are such tables, and the last one is what Resize builds.
LEMMA ResizeSteps ==
  ASSUME NEW n \in Nat \ {0}, NEW m, Table(m, n)
  PROVE  \E f : Resize(m, n) = f[n] /\ Fills(f, m, n)
<1> DEFINE V == [0 .. 2 * n - 1 -> Entry]
           Copy(t, i) == IF m[i - 1].key = NULL THEN t
                         ELSE [t EXCEPT ![Probe(t, 2 * n, m[i - 1].key)] = m[i - 1]]
           Defines(f) == f = [i \in 0 .. n |-> IF i = 0 THEN Initialize(2 * n)
                                               ELSE IF m[i - 1].key = NULL THEN f[i - 1]
                                               ELSE [f[i - 1] EXCEPT ![Probe(f[i - 1], 2 * n, m[i - 1].key)] = m[i - 1]]]
           step == [i \in 1 .. n |-> [t \in V |-> Copy(t, i)]]
<1>1. Initialize(2 * n) \in V
  BY DEF Initialize, Empty, Entry
<1>2. ASSUME NEW t \in V, NEW i \in 1 .. n PROVE Copy(t, i) \in V
  <2>1. i - 1 \in 0 .. n - 1
    OBVIOUS
  <2>2. m[i - 1] \in Entry
    BY <2>1, TableTypes
  <2> QED BY <2>2, ZenonT(30)
<1>3. step \in [1 .. n -> [V -> V]]
  <2> HIDE DEF Copy, V
  <2> QED BY <1>2
<1>4. \A t \in V, i \in 1 .. n : step[i][t] = Copy(t, i)
  <2> HIDE DEF Copy, V
  <2> QED OBVIOUS
<1>5. PICK f \in [0 .. n -> V] :
        f[0] = Initialize(2 * n) /\ \A i \in 1 .. n : f[i] = step[i][f[i - 1]]
  <2> DEFINE z == Initialize(2 * n)
  <2>1. n \in Nat /\ z \in V
    BY <1>1
  <2> HIDE DEF V, step, z
  <2>2. \E f : Iterates(f, n, V, z, step)
    BY <1>3, <2>1, RecursionExists
  <2> QED BY <2>2, ZenonT(30) DEF z, Iterates
<1>6. \A i \in 1 .. n : f[i] = Copy(f[i - 1], i)
  <2> SUFFICES ASSUME NEW i \in 1 .. n PROVE f[i] = Copy(f[i - 1], i)
    OBVIOUS
  <2>1. f[i - 1] \in V
    <3> HIDE DEF V
    <3>1. i - 1 \in 0 .. n
      OBVIOUS
    <3> QED BY <3>1
  <2> HIDE DEF V, step, Copy
  <2> QED BY <1>4, <1>5, <2>1
<1>7. Defines(f)
  <2> HIDE DEF V, step
  <2>1. \A i \in 0 .. n : f[i] = IF i = 0 THEN Initialize(2 * n)
                                 ELSE IF m[i - 1].key = NULL THEN f[i - 1]
                                 ELSE [f[i - 1] EXCEPT ![Probe(f[i - 1], 2 * n, m[i - 1].key)] = m[i - 1]]
    <3> SUFFICES ASSUME NEW i \in 0 .. n, i # 0 PROVE f[i] = Copy(f[i - 1], i)
      BY <1>5
    <3>1. i \in 1 .. n
      OBVIOUS
    <3> HIDE DEF Copy
    <3> QED BY <1>6, <3>1
  <2> QED BY <1>5, <2>1
<1> DEFINE g == CHOOSE h : Defines(h)
<1>8. Defines(g)
  <2> HIDE DEF Defines
  <2> QED BY <1>7, ZenonT(30)
<1>9. Resize(m, n) = g[n]
  BY ZenonT(30) DEF Resize
<1> HIDE DEF g
<1>10. g[0] = Initialize(2 * n) /\ \A i \in 1 .. n : g[i] = Copy(g[i - 1], i)
  <2>1. \A i \in 0 .. n : g[i] = IF i = 0 THEN Initialize(2 * n)
                                 ELSE IF m[i - 1].key = NULL THEN g[i - 1]
                                 ELSE [g[i - 1] EXCEPT ![Probe(g[i - 1], 2 * n, m[i - 1].key)] = m[i - 1]]
    BY <1>8, ZenonT(30)
  <2>2. 0 \in 0 .. n /\ \A i \in 1 .. n : i \in 0 .. n /\ i # 0
    OBVIOUS
  <2> QED BY <2>1, <2>2, ZenonT(30)
<1> QED BY <1>9, <1>10, ZenonT(30) DEF Fills

\* Initialize builds a table without entries.
LEMMA EmptyTable ==
  ASSUME NEW n \in Nat \ {0}
  PROVE  /\ Table(Initialize(n), n) /\ Occupied(Initialize(n)) = {} /\ Contents(Initialize(n)) = {}
         /\ Cardinality(Occupied(Initialize(n))) = 0
<1> DEFINE m == Initialize(n)
<1>1. m \in [0 .. n - 1 -> Entry] /\ DOMAIN m = 0 .. n - 1
  BY DEF Initialize, Empty, Entry
<1>2. \A s \in 0 .. n - 1 : m[s] = Empty /\ m[s].key = NULL
  BY DEF Initialize, Empty
<1> HIDE DEF m
<1>3. Table(m, n)
  BY <1>1, <1>2 DEF Table
<1>4. Occupied(m) = {}
  BY <1>1, <1>2 DEF Occupied
<1>5. Contents(m) = {}
  BY <1>4 DEF Contents
<1>6. Cardinality(Occupied(m)) = 0
  BY <1>4, FS_EmptySet
<1> QED BY <1>3, <1>4, <1>5, <1>6 DEF m

\* The table of twice the size has the same entries.
LEMMA ResizeLemma ==
  ASSUME hash \in [Keys -> Nat], NULL \notin Keys, NEW n \in Nat \ {0}, NEW m, Table(m, n)
  PROVE  /\ Table(Resize(m, n), 2 * n) /\ Contents(Resize(m, n)) = Contents(m)
         /\ Cardinality(Occupied(Resize(m, n))) = Cardinality(Occupied(m))
<1>1. PICK f : Resize(m, n) = f[n] /\ Fills(f, m, n)
  BY ResizeSteps
<1> DEFINE Before(k) == {j \in Occupied(m) : j < k}
           Copied(k) == /\ Table(f[k], 2 * n)
                        /\ Contents(f[k]) = {m[j] : j \in Before(k)}
                        /\ Cardinality(Occupied(f[k])) = Cardinality(Before(k))
           S == {k \in 0 .. n : Copied(k)}
<1>2. /\ Occupied(m) \subseteq 0 .. n - 1 /\ n \in Nat /\ 2 * n \in Nat \ {0}
      /\ \A j \in 0 .. n - 1 : m[j] \in Entry /\ (j \in Occupied(m) <=> m[j].key # NULL)
      /\ \A j \in Occupied(m) : m[j].key \in Keys /\ m[j].hash = hash[m[j].key]
  BY TableTypes
<1>3. 0 \in S
  <2>1. Before(0) = {}
    BY <1>2
  <2>2. f[0] = Initialize(2 * n)
    BY <1>1 DEF Fills
  <2>3. Table(f[0], 2 * n) /\ Contents(f[0]) = {} /\ Cardinality(Occupied(f[0])) = 0
    BY <1>2, <2>2, EmptyTable
  <2>4. Cardinality(Before(0)) = 0
    BY <2>1, FS_EmptySet
  <2> HIDE DEF Before
  <2> QED BY <1>2, <2>1, <2>3, <2>4
<1>4. ASSUME NEW k \in 0 .. n - 1, k \in S PROVE k + 1 \in S
  <2>1. k + 1 \in 1 .. n /\ k + 1 \in 0 .. n /\ (k + 1) - 1 = k
    OBVIOUS
  <2>2. f[k + 1] = IF m[k].key = NULL THEN f[k]
                   ELSE [f[k] EXCEPT ![Probe(f[k], 2 * n, m[k].key)] = m[k]]
    BY <1>1, <2>1 DEF Fills
  <2>3. CASE m[k].key = NULL
    <3>1. Before(k + 1) = Before(k)
      BY <1>2, <2>3
    <3>2. f[k + 1] = f[k]
      BY <2>2, <2>3
    <3> HIDE DEF Before
    <3> QED BY <1>4, <2>1, <3>1, <3>2
  <2>4. CASE m[k].key # NULL
    <3>1. k \in Occupied(m) /\ Before(k + 1) = Before(k) \cup {k} /\ k \notin Before(k)
      BY <1>2, <2>4
    <3>2. IsFiniteSet(Before(k)) /\ Cardinality(Before(k)) <= k /\ Cardinality(Before(k)) \in Nat
      <4>1. Before(k) \subseteq 0 .. k - 1
        BY <1>2
      <4>2. IsFiniteSet(0 .. k - 1) /\ Cardinality(0 .. k - 1) = k
        <5>1. k - 1 \in Int /\ 0 \in Int
          OBVIOUS
        <5>2. /\ IsFiniteSet(0 .. k - 1)
              /\ Cardinality(0 .. k - 1) = IF 0 > k - 1 THEN 0 ELSE (k - 1) - 0 + 1
          BY <5>1, FS_Interval
        <5> QED BY <5>2
      <4> QED BY <4>1, <4>2, FS_Subset, FS_CardinalityType
    <3>3. Table(f[k], 2 * n) /\ Cardinality(Occupied(f[k])) = Cardinality(Before(k))
      BY <1>4
    <3>4. \E s \in 0 .. 2 * n - 1 : f[k][s].key = NULL
      <4>1. Cardinality(Before(k)) < 2 * n
        BY <3>2
      <4> HIDE DEF Before
      <4> QED BY <1>2, <3>3, <4>1, FreePlace
    <3>5. m[k] \in Entry /\ m[k].key \in Keys /\ m[k].hash = hash[m[k].key]
      BY <1>2, <3>1
    <3>6. ASSUME NEW t \in 0 .. 2 * n - 1, f[k][t].key = m[k].key PROVE FALSE
      <4>1. t \in Occupied(f[k])
        <5>1. f[k][t].key # NULL
          BY <2>4, <3>6
        <5>2. t \in Occupied(f[k]) <=> f[k][t].key # NULL
          BY <1>2, <3>3, TableTypes, ZenonT(30)
        <5> QED BY <5>1, <5>2
      <4>2. f[k][t] \in Contents(f[k])
        BY <4>1 DEF Contents
      <4>3. PICK j \in Before(k) : f[k][t] = m[j]
        BY <1>4, <4>2
      <4>4. j \in 0 .. n - 1 /\ j # k /\ m[j].key = m[k].key
        BY <1>2, <3>6, <4>3
      <4> QED BY <2>4, <4>4 DEF Table
    <3>7. /\ Table(f[k + 1], 2 * n) /\ Contents(f[k + 1]) = Contents(f[k]) \cup {m[k]}
          /\ \E s \in 0 .. 2 * n - 1 :
               s \notin Occupied(f[k]) /\ Occupied(f[k + 1]) = Occupied(f[k]) \cup {s}
      <4>1. f[k + 1] = Put(f[k], Probe(f[k], 2 * n, m[k].key), m[k])
        BY <2>2, <2>4, ZenonT(30) DEF Put
      <4>2. Inserting(f[k], 2 * n, m[k])
        BY <1>2, <3>3, <3>4, <3>5, <3>6 DEF Inserting
      <4> HIDE DEF Before
      <4> QED BY <4>1, <4>2, InsertEntry
    <3>8. Cardinality(Occupied(f[k + 1])) = Cardinality(Before(k + 1))
      <4>1. PICK s : s \notin Occupied(f[k]) /\ Occupied(f[k + 1]) = Occupied(f[k]) \cup {s}
        BY <3>7
      <4>2. IsFiniteSet(Occupied(f[k]))
        BY <1>2, <3>3, FreePlace
      <4>3. Cardinality(Occupied(f[k + 1])) = Cardinality(Occupied(f[k])) + 1
        BY <4>1, <4>2, FS_AddElement
      <4>4. Cardinality(Before(k + 1)) = Cardinality(Before(k)) + 1
        BY <3>1, <3>2, FS_AddElement, ZenonT(30)
      <4> QED BY <3>3, <4>3, <4>4
    <3>9. Contents(f[k + 1]) = {m[j] : j \in Before(k + 1)}
      <4> HIDE DEF Before
      <4>1. Contents(f[k]) = {m[j] : j \in Before(k)}
        BY <1>4
      <4> QED BY <3>1, <3>7, <4>1, ZenonT(30)
    <3> HIDE DEF Before
    <3> QED BY <2>1, <3>7, <3>8, <3>9
  <2> QED BY <2>3, <2>4
<1>5. n \in S
  <2> HIDE DEF S
  <2>1. \A k \in 0 .. n : k \in S
    BY <1>2, <1>3, <1>4, SetInduction
  <2> QED BY <2>1
<1>6. Before(n) = Occupied(m)
  BY <1>2
<1>7. Contents(m) = {m[j] : j \in Before(n)}
  BY <1>6 DEF Contents
<1> HIDE DEF Before
<1> QED BY <1>1, <1>5, <1>6, <1>7

-----------------------------------------------------------------------------
(* The loop of Remove.                                                     *)

\* One turn, at the place p.
Turn(t, p) ==
  IF Movable(t.map[p].hash % capacity_, t.gap, p)
    THEN [map |-> [t.map EXCEPT ![t.gap] = t.map[p]], gap |-> p]
    ELSE t

\* What the function `turn' of CloseGap is, and when the loop ends.
Turns(f, m, i) ==
  /\ f[0] = [map |-> m, gap |-> i]
  /\ \A d \in 1 .. capacity_ - 1 : f[d] = Turn(f[d - 1], (i + d) % capacity_)

Ends(f, i, d) == f[d].map[(i + (d + 1)) % capacity_].key = NULL
FirstEnd(f, i, d) == Ends(f, i, d) /\ \A e \in 0 .. d - 1 : ~Ends(f, i, e)

\* The result of CloseGap.
Closed(f, i) ==
  LET last == f[CHOOSE d \in 0 .. capacity_ - 1 : FirstEnd(f, i, d)]
  IN  [last.map EXCEPT ![last.gap] = Empty]

\* There is such a function, and CloseGap is its value where the loop ends first.
LEMMA GapSteps ==
  ASSUME capacity_ \in Nat \ {0}, NEW m, Table(m, capacity_), NEW i \in 0 .. capacity_ - 1
  PROVE  \E f : Turns(f, m, i) /\ CloseGap(m, i) = Closed(f, i)
<1> DEFINE n == capacity_
           V == [map : [0 .. n - 1 -> Entry], gap : 0 .. n - 1]
           z == [map |-> m, gap |-> i]
           After(t, d) == Turn(t, (i + d) % n)
           Defines(f) == f = [d \in 0 .. n - 1 |-> IF d = 0 THEN z ELSE After(f[d - 1], d)]
           step == [d \in 1 .. n - 1 |-> [t \in V |-> After(t, d)]]
<1>1. z \in V
  BY TableTypes
<1>2. ASSUME NEW t \in V, NEW d \in 1 .. n - 1 PROVE After(t, d) \in V
  <2>1. (i + d) % n \in 0 .. n - 1
    OBVIOUS
  <2>2. PICK p \in 0 .. n - 1 : p = (i + d) % n
    BY <2>1
  <2>3. t.map \in [0 .. n - 1 -> Entry] /\ t.gap \in 0 .. n - 1
    OBVIOUS
  <2>4. t.map[p] \in Entry
    BY <2>3
  <2>5. [t.map EXCEPT ![t.gap] = t.map[p]] \in [0 .. n - 1 -> Entry]
    BY <2>3, <2>4
  <2>6. [map |-> [t.map EXCEPT ![t.gap] = t.map[p]], gap |-> p] \in V
    BY <2>5
  <2> HIDE DEF V
  <2>7. Turn(t, p) \in V
    BY <2>6, ZenonT(30) DEF Turn
  <2> QED BY <2>2, <2>7
<1>3. step \in [1 .. n - 1 -> [V -> V]]
  <2> HIDE DEF After, V, n
  <2> QED BY <1>2
<1>4. \A t \in V, d \in 1 .. n - 1 : step[d][t] = After(t, d)
  <2> HIDE DEF After, V, n
  <2> QED OBVIOUS
<1>5. PICK f \in [0 .. n - 1 -> V] : f[0] = z /\ \A d \in 1 .. n - 1 : f[d] = step[d][f[d - 1]]
  <2>1. n - 1 \in Nat
    OBVIOUS
  <2> HIDE DEF V, step, z, n
  <2>2. \E f : Iterates(f, n - 1, V, z, step)
    BY <1>1, <1>3, <2>1, RecursionExists
  <2> QED BY <2>2, ZenonT(30) DEF Iterates
<1>6. \A d \in 1 .. n - 1 : f[d] = After(f[d - 1], d)
  <2> SUFFICES ASSUME NEW d \in 1 .. n - 1 PROVE f[d] = After(f[d - 1], d)
    OBVIOUS
  <2>1. d - 1 \in 0 .. n - 1
    OBVIOUS
  <2> HIDE DEF V, step, After, n
  <2>2. f[d - 1] \in V
    BY <2>1
  <2> QED BY <1>4, <1>5, <2>2
<1>7. Defines(f)
  <2> HIDE DEF V, step, After, z
  <2>1. \A d \in 0 .. n - 1 : f[d] = IF d = 0 THEN z ELSE After(f[d - 1], d)
    <3> SUFFICES ASSUME NEW d \in 0 .. n - 1, d # 0 PROVE f[d] = After(f[d - 1], d)
      BY <1>5
    <3>1. d \in 1 .. n - 1
      OBVIOUS
    <3> QED BY <1>6, <3>1
  <2> QED BY <1>5, <2>1
<1> DEFINE g == CHOOSE h : Defines(h)
<1>8. Defines(g)
  <2> HIDE DEF Defines
  <2> QED BY <1>7, ZenonT(30)
<1> DEFINE last == g[CHOOSE d \in 0 .. capacity_ - 1 : FirstEnd(g, i, d)]
<1>9. CloseGap(m, i) = [last.map EXCEPT ![last.gap] = Empty]
  BY ZenonT(30) DEF CloseGap, Turn, FirstEnd, Ends
<1>11. CloseGap(m, i) = Closed(g, i)
  BY <1>9, ZenonT(30) DEF Closed
<1> HIDE DEF g
<1>10. Turns(g, m, i)
  <2> HIDE DEF After, z
  <2>1. \A d \in 0 .. n - 1 : g[d] = IF d = 0 THEN z ELSE After(g[d - 1], d)
    BY <1>8, ZenonT(30)
  <2>2. 0 \in 0 .. n - 1 /\ \A d \in 1 .. n - 1 : d \in 0 .. n - 1 /\ d # 0
    OBVIOUS
  <2>3. g[0] = z /\ \A d \in 1 .. n - 1 : g[d] = After(g[d - 1], d)
    BY <2>1, <2>2, ZenonT(30)
  <2> QED BY <2>3, ZenonT(30) DEF Turns, After, z
<1> QED BY <1>10, <1>11, ZenonT(30)

\* The loop at the place that follows from i after x turns.
P(i, x) == Step(capacity_, i, x)

\* After d turns that started at i the gap is g places behind i: every entry of m
\* but that at i is still in the map outside of the gap, once, and no empty place
\* and, up to d, not the gap either, lies on the way to it.
Shifted(t, m, i, d, g) ==
  /\ g \in 0 .. d /\ t.gap = P(i, g) /\ t.map \in [0 .. capacity_ - 1 -> Entry]
  /\ \A x \in 0 .. capacity_ - 1 : x >= g => t.map[P(i, x)] = m[P(i, x)]
  /\ \A x \in 0 .. capacity_ - 1 : t.map[P(i, x)].key = NULL <=> m[P(i, x)].key = NULL
  /\ \A x \in 0 .. capacity_ - 1 : x # g => \E y \in 1 .. capacity_ - 1 : t.map[P(i, x)] = m[P(i, y)]
  /\ \A y \in 1 .. capacity_ - 1 : \E x \in 0 .. capacity_ - 1 : x # g /\ t.map[P(i, x)] = m[P(i, y)]
  /\ \A x, y \in 0 .. capacity_ - 1 :
       /\ x # g /\ y # g
       /\ t.map[P(i, x)].key # NULL /\ t.map[P(i, x)].key = t.map[P(i, y)].key
       => x = y
  /\ \A x \in 0 .. d : x # g => ~Between(t.map[P(i, x)].hash % capacity_, P(i, g), P(i, x))
  /\ \A x, j \in 0 .. capacity_ - 1 :
       /\ x # g /\ t.map[P(i, x)].key # NULL
       /\ Between(t.map[P(i, x)].hash % capacity_, P(i, j), P(i, x))
       => m[P(i, j)].key # NULL

\* Places and numbers of steps correspond.
LEMMA PlaceLemma ==
  ASSUME capacity_ \in Nat \ {0}, NEW i \in 0 .. capacity_ - 1
  PROVE  /\ \A x \in 0 .. capacity_ - 1 : P(i, x) \in 0 .. capacity_ - 1
         /\ \A x, y \in 0 .. capacity_ - 1 : P(i, x) = P(i, y) => x = y
         /\ \A s \in 0 .. capacity_ - 1 : \E x \in 0 .. capacity_ - 1 : s = P(i, x)
         /\ \A x \in 0 .. capacity_ : (i + x) % capacity_ = P(i, x)
         /\ P(i, 0) = i
<1>1. /\ \A x \in 0 .. capacity_ - 1 : P(i, x) \in 0 .. capacity_ - 1
      /\ \A s \in 0 .. capacity_ - 1 : \E x \in 0 .. capacity_ - 1 : s = P(i, x)
  BY Search DEF P
<1>2. \A x, y \in 0 .. capacity_ - 1 : P(i, x) = P(i, y) => x = y
  BY DEF P, Step
<1>3. i % capacity_ = i
  OBVIOUS
<1>4. ASSUME NEW x \in 0 .. capacity_ PROVE (i + x) % capacity_ = P(i, x)
  <2>1. i \in Nat /\ capacity_ \in Nat \ {0}
    OBVIOUS
  <2>2. (i + x) % capacity_ = Step(capacity_, i % capacity_, x)
    BY <2>1, StepIs
  <2> QED BY <1>3, <2>2 DEF P
<1>5. P(i, 0) = i
  BY DEF P, Step
<1> QED BY <1>1, <1>2, <1>4, <1>5

\* The condition of the code, in steps from i: the search for the entry at d
\* starts outside of the places after the gap up to d.
LEMMA MovableIs ==
  ASSUME capacity_ \in Nat \ {0}, NEW i \in 0 .. capacity_ - 1,
         NEW h \in 0 .. capacity_ - 1, NEW d \in 0 .. capacity_ - 1, NEW g \in 0 .. d - 1
  PROVE  Movable(P(i, h), P(i, g), P(i, d)) <=> (h <= g \/ h > d)
BY DEF Movable, P, Step

\* At the start the gap is at i.
LEMMA ShiftedStart ==
  ASSUME capacity_ \in Nat \ {0}, NEW m, Table(m, capacity_), NEW i \in 0 .. capacity_ - 1,
         NEW t, t = [map |-> m, gap |-> i]
  PROVE  Shifted(t, m, i, 0, 0)
<1> DEFINE n == capacity_
<1>1. t.map = m /\ t.gap = P(i, 0) /\ m \in [0 .. n - 1 -> Entry]
  BY PlaceLemma, TableTypes
<1>2. \A x \in 0 .. n - 1 : P(i, x) \in 0 .. n - 1
  BY PlaceLemma
<1>3. \A x, y \in 0 .. n - 1 : P(i, x) = P(i, y) => x = y
  BY PlaceLemma
<1>4. \A x, y \in 0 .. n - 1 : m[P(i, x)].key # NULL /\ m[P(i, x)].key = m[P(i, y)].key => x = y
  BY <1>2, <1>3 DEF Table
<1>5. \A x, j \in 0 .. n - 1 :
        m[P(i, x)].key # NULL /\ Between(m[P(i, x)].hash % n, P(i, j), P(i, x)) => m[P(i, j)].key # NULL
  BY <1>2 DEF Table
<1>6. \A x \in 0 .. n - 1 : x # 0 <=> x \in 1 .. n - 1
  OBVIOUS
<1>7. \A x \in 0 .. 0 : x = 0
  OBVIOUS
<1> HIDE DEF n
<1>8. 0 \in 0 .. 0 /\ 1 .. n - 1 \subseteq 0 .. n - 1
  BY DEF n
<1> QED BY <1>1, <1>4, <1>5, <1>6, <1>7, <1>8 DEF Shifted, n

\* Between, in steps from i instead of places.
LEMMA TurnedPlaces ==
  ASSUME capacity_ \in Nat \ {0}, NEW i \in 0 .. capacity_ - 1, NEW a \in 0 .. capacity_ - 1,
         NEW b \in 0 .. capacity_ - 1, NEW c \in 0 .. capacity_ - 1
  PROVE  Between(P(i, a), P(i, b), P(i, c)) <=> Between(a, b, c)
BY Turned DEF P

\* An entry that is moved into the gap, d places behind i.
LEMMA ShiftedMove ==
  ASSUME capacity_ \in Nat \ {0}, NEW m, Table(m, capacity_), NEW i \in 0 .. capacity_ - 1,
         NEW D \in 0 .. capacity_ - 2, m[P(i, D + 1)].key = NULL,
         \A x \in 0 .. D : m[P(i, x)].key # NULL,
         NEW d \in 1 .. D, NEW g, NEW t, Shifted(t, m, i, d - 1, g),
         NEW h \in 0 .. capacity_ - 1, m[P(i, d)].hash % capacity_ = P(i, h), h <= g \/ h > d,
         NEW t2, t2 = [map |-> [t.map EXCEPT ![t.gap] = t.map[P(i, d)]], gap |-> P(i, d)]
  PROVE  Shifted(t2, m, i, d, d)
<1>0. /\ g \in 0 .. d - 1 /\ t.gap = P(i, g) /\ t.map \in [0 .. capacity_ - 1 -> Entry]
      /\ \A x \in 0 .. capacity_ - 1 : x >= g => t.map[P(i, x)] = m[P(i, x)]
      /\ \A x \in 0 .. capacity_ - 1 : t.map[P(i, x)].key = NULL <=> m[P(i, x)].key = NULL
  BY ZenonT(30) DEF Shifted
<1>1. /\ capacity_ \in Nat \ {0} /\ d \in 0 .. capacity_ - 1 /\ g \in 0 .. capacity_ - 1 /\ g < d /\ D + 1 \in 0 .. capacity_ - 1
      /\ D \in 0 .. capacity_ - 1 /\ d <= D /\ d \in 1 .. capacity_ - 1 /\ h \in 0 .. capacity_ - 1 /\ d \in 0 .. d
  BY <1>0
<1>2. /\ \A x \in 0 .. capacity_ - 1 : P(i, x) \in 0 .. capacity_ - 1
      /\ \A x, y \in 0 .. capacity_ - 1 : P(i, x) = P(i, y) => x = y
      /\ \A s \in 0 .. capacity_ - 1 : \E x \in 0 .. capacity_ - 1 : s = P(i, x)
  BY PlaceLemma
<1>3. t.gap = P(i, g) /\ t.map \in [0 .. capacity_ - 1 -> Entry] /\ t.map[P(i, d)] = m[P(i, d)]
  BY <1>0, <1>1
<1>4. m[P(i, d)] \in Entry
  BY <1>1, <1>2, TableTypes
<1>5. /\ t2.gap = P(i, d) /\ t2.map \in [0 .. capacity_ - 1 -> Entry]
      /\ t2.map[P(i, g)] = m[P(i, d)]
      /\ \A x \in 0 .. capacity_ - 1 : x # g => t2.map[P(i, x)] = t.map[P(i, x)]
  BY <1>1, <1>2, <1>3, <1>4
<1>6. \A x \in 0 .. capacity_ - 1 : x >= d => t2.map[P(i, x)] = m[P(i, x)]
  BY <1>0, <1>1, <1>5
<1>7. m[P(i, d)].key # NULL /\ m[P(i, g)].key # NULL
  BY <1>1
<1>8. \A x \in 0 .. capacity_ - 1 : t2.map[P(i, x)].key = NULL <=> m[P(i, x)].key = NULL
  BY <1>0, <1>5, <1>7
<1>9. \A x \in 0 .. capacity_ - 1 : x # d => \E y \in 1 .. capacity_ - 1 : t2.map[P(i, x)] = m[P(i, y)]
  <2>1. \A x \in 0 .. capacity_ - 1 : x # g => \E y \in 1 .. capacity_ - 1 : t.map[P(i, x)] = m[P(i, y)]
    BY ZenonT(30) DEF Shifted
  <2> QED BY <1>1, <1>5, <2>1
<1>10. ASSUME NEW y \in 1 .. capacity_ - 1
       PROVE  \E x \in 0 .. capacity_ - 1 : x # d /\ t2.map[P(i, x)] = m[P(i, y)]
  <2>1. PICK x \in 0 .. capacity_ - 1 : x # g /\ t.map[P(i, x)] = m[P(i, y)]
    BY ZenonT(30) DEF Shifted
  <2>2. CASE x = d
    BY <1>1, <1>3, <1>5, <2>1, <2>2
  <2>3. CASE x # d
    BY <1>5, <2>1, <2>3
  <2> QED BY <2>2, <2>3
<1>11. ASSUME NEW x \in 0 .. capacity_ - 1, NEW y \in 0 .. capacity_ - 1, x # d, y # d,
              t2.map[P(i, x)].key # NULL, t2.map[P(i, x)].key = t2.map[P(i, y)].key
       PROVE  x = y
  <2> DEFINE Old(z) == IF z = g THEN d ELSE z
  <2>1. \A z \in 0 .. capacity_ - 1 : z # d => /\ Old(z) \in 0 .. capacity_ - 1 /\ Old(z) # g
                                       /\ t2.map[P(i, z)] = t.map[P(i, Old(z))]
    BY <1>1, <1>3, <1>5
  <2> HIDE DEF Old
  <2>2. Old(x) = Old(y)
    <3>1. \A a, b \in 0 .. capacity_ - 1 :
            /\ a # g /\ b # g
            /\ t.map[P(i, a)].key # NULL /\ t.map[P(i, a)].key = t.map[P(i, b)].key
            => a = b
      BY ZenonT(30) DEF Shifted
    <3>2. /\ Old(x) \in 0 .. capacity_ - 1 /\ Old(x) # g /\ t2.map[P(i, x)] = t.map[P(i, Old(x))]
          /\ Old(y) \in 0 .. capacity_ - 1 /\ Old(y) # g /\ t2.map[P(i, y)] = t.map[P(i, Old(y))]
      BY <1>11, <2>1
    <3> QED BY <1>11, <3>1, <3>2
  <2> QED BY <1>11, <2>2 DEF Old
<1>12. ASSUME NEW x \in 0 .. capacity_ - 1, x # g, x # d, NEW j \in 0 .. capacity_ - 1, t2.map[P(i, x)].key # NULL,
              Between(t2.map[P(i, x)].hash % capacity_, P(i, j), P(i, x))
       PROVE  m[P(i, j)].key # NULL
  <2>1. \A a, b \in 0 .. capacity_ - 1 :
          /\ a # g /\ t.map[P(i, a)].key # NULL
          /\ Between(t.map[P(i, a)].hash % capacity_, P(i, b), P(i, a))
          => m[P(i, b)].key # NULL
    BY ZenonT(30) DEF Shifted
  <2> QED BY <1>5, <1>12, <2>1, ZenonT(30)
<1>13. ASSUME NEW j \in 0 .. capacity_ - 1, Between(h, j, d) PROVE m[P(i, j)].key # NULL
  <2>1. Between(P(i, h), P(i, j), P(i, d))
    BY <1>1, <1>13, TurnedPlaces
  <2>2. P(i, d) \in 0 .. capacity_ - 1 /\ P(i, j) \in 0 .. capacity_ - 1
    BY <1>1, <1>2
  <2> QED BY <1>7, <2>1, <2>2 DEF Table
<1>14. ASSUME NEW j \in 0 .. capacity_ - 1, Between(h, j, g) PROVE m[P(i, j)].key # NULL
  <2>1. Between(h, j, d)
    BY <1>1, <1>14 DEF Between
  <2> QED BY <1>13, <2>1
<1>15. ASSUME NEW x \in 0 .. capacity_ - 1, NEW j \in 0 .. capacity_ - 1, x # d, t2.map[P(i, x)].key # NULL,
              Between(t2.map[P(i, x)].hash % capacity_, P(i, j), P(i, x))
       PROVE  m[P(i, j)].key # NULL
  <2>1. CASE x = g
    <3>1. Between(P(i, h), P(i, j), P(i, g))
      BY <1>5, <1>15, <2>1
    <3>2. Between(h, j, g)
      BY <1>1, <3>1, TurnedPlaces
    <3> QED BY <1>14, <3>2
  <2>2. CASE x # g
    BY <1>12, <1>15, <2>2
  <2> QED BY <2>1, <2>2
<1>16. ASSUME NEW x \in 0 .. d, x # d, Between(t2.map[P(i, x)].hash % capacity_, P(i, d), P(i, x))
       PROVE  FALSE
  <2>1. x \in 0 .. capacity_ - 1 /\ x \in 0 .. D /\ x < d
    BY <1>1, <1>16
  <2>2. t2.map[P(i, x)].hash % capacity_ \in 0 .. capacity_ - 1
    <3>1. t2.map[P(i, x)] \in Entry
      BY <1>2, <1>5, <2>1
    <3>2. t2.map[P(i, x)].hash \in Nat
      BY <3>1 DEF Entry
    <3> QED BY <1>1, <3>2
  <2>3. PICK a \in 0 .. capacity_ - 1 : t2.map[P(i, x)].hash % capacity_ = P(i, a)
    BY <1>2, <2>2
  <2>4. Between(a, d, x)
    BY <1>1, <1>16, <2>1, <2>3, TurnedPlaces
  <2>5. Between(a, D + 1, x)
    BY <1>1, <2>1, <2>3, <2>4 DEF Between
  <2>6. Between(P(i, a), P(i, D + 1), P(i, x))
    BY <1>1, <2>1, <2>3, <2>5, TurnedPlaces
  <2>7. t2.map[P(i, x)].key # NULL
    BY <1>8, <2>1
  <2>8. m[P(i, D + 1)].key # NULL
    BY <1>1, <1>15, <1>16, <2>1, <2>3, <2>6, <2>7
  <2> QED BY <2>8
<1>17. d \in 0 .. d
  BY <1>1
<1>18. \A x, y \in 0 .. capacity_ - 1 :
         /\ x # d /\ y # d
         /\ t2.map[P(i, x)].key # NULL /\ t2.map[P(i, x)].key = t2.map[P(i, y)].key
         => x = y
  BY <1>11
<1>19. \A x \in 0 .. d : x # d => ~Between(t2.map[P(i, x)].hash % capacity_, P(i, d), P(i, x))
  BY <1>16
<1>20. \A x, j \in 0 .. capacity_ - 1 :
         /\ x # d /\ t2.map[P(i, x)].key # NULL
         /\ Between(t2.map[P(i, x)].hash % capacity_, P(i, j), P(i, x))
         => m[P(i, j)].key # NULL
  BY <1>15
<1>21. \A y \in 1 .. capacity_ - 1 :
         \E x \in 0 .. capacity_ - 1 : x # d /\ t2.map[P(i, x)] = m[P(i, y)]
  BY <1>10
<1> QED BY <1>5, <1>6, <1>8, <1>9, <1>17, <1>18, <1>19, <1>20, <1>21, ZenonT(30) DEF Shifted

\* One turn of the loop.
LEMMA ShiftedTurn ==
  ASSUME capacity_ \in Nat \ {0}, NEW m, Table(m, capacity_), NEW i \in 0 .. capacity_ - 1,
         NEW D \in 0 .. capacity_ - 2, m[P(i, D + 1)].key = NULL,
         \A x \in 0 .. D : m[P(i, x)].key # NULL,
         NEW d \in 1 .. D, NEW g, NEW t, Shifted(t, m, i, d - 1, g)
  PROVE  \E g2 : Shifted(Turn(t, P(i, d)), m, i, d, g2)
<1>1. /\ capacity_ \in Nat \ {0} /\ d \in 0 .. capacity_ - 1 /\ g \in 0 .. d - 1 /\ d >= g /\ g \in 0 .. capacity_ - 1
  BY DEF Shifted
<1>2. /\ \A x \in 0 .. capacity_ - 1 : P(i, x) \in 0 .. capacity_ - 1
      /\ \A s \in 0 .. capacity_ - 1 : \E x \in 0 .. capacity_ - 1 : s = P(i, x)
  BY PlaceLemma
<1>3. t.gap = P(i, g) /\ t.map[P(i, d)] = m[P(i, d)]
  BY <1>1 DEF Shifted
<1>4. m[P(i, d)].hash % capacity_ \in 0 .. capacity_ - 1
  <2>1. m[P(i, d)].hash \in Nat
    BY <1>1, <1>2, TableTypes
  <2> QED BY <1>1, <2>1
<1>5. PICK h \in 0 .. capacity_ - 1 : m[P(i, d)].hash % capacity_ = P(i, h)
  BY <1>2, <1>4
<1>6. Movable(t.map[P(i, d)].hash % capacity_, t.gap, P(i, d)) <=> (h <= g \/ h > d)
  <2>1. Movable(P(i, h), P(i, g), P(i, d)) <=> (h <= g \/ h > d)
    BY <1>1, MovableIs
  <2> QED BY <1>3, <1>5, <2>1
<1>7. CASE h <= g \/ h > d
  <2>1. Turn(t, P(i, d)) = [map |-> [t.map EXCEPT ![t.gap] = t.map[P(i, d)]], gap |-> P(i, d)]
    BY <1>6, <1>7 DEF Turn
  <2>2. Shifted(Turn(t, P(i, d)), m, i, d, d)
    BY <1>5, <1>7, <2>1, ShiftedMove
  <2> QED BY <2>2
<1>8. CASE ~(h <= g \/ h > d)
  <2>1. Turn(t, P(i, d)) = t
    BY <1>6, <1>8 DEF Turn
  <2>2. ~Between(h, g, d)
    BY <1>1, <1>5, <1>8 DEF Between
  <2>3. ~Between(t.map[P(i, d)].hash % capacity_, P(i, g), P(i, d))
    BY <1>1, <1>3, <1>5, <2>2, TurnedPlaces
  <2>4. g \in 0 .. d /\ \A x \in 0 .. d : x = d \/ x \in 0 .. d - 1
    BY <1>1
  <2>5. Shifted(t, m, i, d, g)
    <3> QED BY <2>3, <2>4 DEF Shifted
  <2> QED BY <2>1, <2>5
<1> QED BY <1>7, <1>8

\* Where the loop of Remove ends, and what it leaves: the entry at i is gone, the
\* others are still found, and one place is free that was not.
LEMMA ShiftedEnd ==
  ASSUME capacity_ \in Nat \ {0}, NEW m, Table(m, capacity_), NEW i \in 0 .. capacity_ - 1,
         NEW D \in 0 .. capacity_ - 2, m[P(i, D + 1)].key = NULL,
         \A x \in 0 .. D : m[P(i, x)].key # NULL,
         NEW g, NEW t, Shifted(t, m, i, D, g),
         NEW m2, m2 = [t.map EXCEPT ![t.gap] = Empty]
  PROVE  /\ Table(m2, capacity_) /\ Contents(m2) = Contents(m) \ {m[i]}
         /\ \E s \in Occupied(m) : Occupied(m2) = Occupied(m) \ {s}
<1>0. /\ g \in 0 .. D /\ t.gap = P(i, g) /\ t.map \in [0 .. capacity_ - 1 -> Entry]
      /\ \A x \in 0 .. capacity_ - 1 : t.map[P(i, x)].key = NULL <=> m[P(i, x)].key = NULL
  BY ZenonT(30) DEF Shifted
<1>1. /\ g \in 0 .. capacity_ - 1 /\ D + 1 \in 0 .. capacity_ - 1 /\ g <= D
      /\ m[P(i, g)].key # NULL
  BY <1>0
<1>2. /\ \A x \in 0 .. capacity_ - 1 : P(i, x) \in 0 .. capacity_ - 1
      /\ \A x, y \in 0 .. capacity_ - 1 : P(i, x) = P(i, y) => x = y
      /\ \A s \in 0 .. capacity_ - 1 : \E x \in 0 .. capacity_ - 1 : s = P(i, x)
      /\ P(i, 0) = i
  BY PlaceLemma
<1>3. /\ DOMAIN m = 0 .. capacity_ - 1 /\ Occupied(m) \subseteq 0 .. capacity_ - 1
      /\ \A s \in 0 .. capacity_ - 1 : /\ m[s] \in Entry /\ m[s].hash \in Nat
                                       /\ m[s].key = NULL => m[s] = Empty
                                       /\ m[s].key # NULL => m[s].hash = hash[m[s].key]
                                       /\ s \in Occupied(m) <=> m[s].key # NULL
  BY TableTypes
<1>4. Empty \in Entry /\ Empty.key = NULL
  BY DEF Empty, Entry
<1>5. /\ m2 \in [0 .. capacity_ - 1 -> Entry] /\ DOMAIN m2 = 0 .. capacity_ - 1
      /\ m2[P(i, g)] = Empty
      /\ \A x \in 0 .. capacity_ - 1 : x # g => m2[P(i, x)] = t.map[P(i, x)]
  <2>1. P(i, g) \in 0 .. capacity_ - 1
    BY <1>1, <1>2
  <2>2. \A x \in 0 .. capacity_ - 1 : x # g => P(i, x) \in 0 .. capacity_ - 1 /\ P(i, x) # P(i, g)
    BY <1>1, <1>2
  <2> QED BY <1>0, <1>4, <2>1, <2>2
<1>6. \A x \in 0 .. capacity_ - 1 : x # g => \E y \in 1 .. capacity_ - 1 : m2[P(i, x)] = m[P(i, y)]
  <2>1. \A x \in 0 .. capacity_ - 1 : x # g => \E y \in 1 .. capacity_ - 1 : t.map[P(i, x)] = m[P(i, y)]
    BY ZenonT(30) DEF Shifted
  <2> QED BY <1>5, <2>1
<1>7. \A y \in 1 .. capacity_ - 1 : \E x \in 0 .. capacity_ - 1 : x # g /\ m2[P(i, x)] = m[P(i, y)]
  <2>1. \A y \in 1 .. capacity_ - 1 : \E x \in 0 .. capacity_ - 1 : x # g /\ t.map[P(i, x)] = m[P(i, y)]
    BY ZenonT(30) DEF Shifted
  <2> QED BY <1>5, <2>1
<1>8. ASSUME NEW x \in 0 .. capacity_ - 1, NEW y \in 0 .. capacity_ - 1,
             m2[P(i, x)].key # NULL, m2[P(i, x)].key = m2[P(i, y)].key
      PROVE  x = y
  <2>1. x # g /\ y # g
    BY <1>4, <1>5, <1>8
  <2>2. \A a, b \in 0 .. capacity_ - 1 :
          /\ a # g /\ b # g
          /\ t.map[P(i, a)].key # NULL /\ t.map[P(i, a)].key = t.map[P(i, b)].key
          => a = b
    BY ZenonT(30) DEF Shifted
  <2>3. m2[P(i, x)] = t.map[P(i, x)] /\ m2[P(i, y)] = t.map[P(i, y)]
    BY <1>5, <2>1
  <2> QED BY <1>8, <2>1, <2>2, <2>3
<1>9. \A x \in 0 .. capacity_ - 1 : x # g => (m2[P(i, x)].key = NULL <=> m[P(i, x)].key = NULL)
  BY <1>0, <1>5
<1>10. ASSUME NEW x \in 0 .. capacity_ - 1, NEW j \in 0 .. capacity_ - 1, m2[P(i, x)].key # NULL,
              Between(m2[P(i, x)].hash % capacity_, P(i, j), P(i, x))
       PROVE  m[P(i, j)].key # NULL
  <2>1. x # g
    BY <1>4, <1>5, <1>10
  <2>2. \A a, b \in 0 .. capacity_ - 1 :
          /\ a # g /\ t.map[P(i, a)].key # NULL
          /\ Between(t.map[P(i, a)].hash % capacity_, P(i, b), P(i, a))
          => m[P(i, b)].key # NULL
    BY ZenonT(30) DEF Shifted
  <2>3. m2[P(i, x)] = t.map[P(i, x)]
    BY <1>5, <2>1
  <2> QED BY <1>10, <2>1, <2>2, <2>3, ZenonT(30)
<1>11. ASSUME NEW x \in 0 .. capacity_ - 1, m2[P(i, x)].key # NULL,
              Between(m2[P(i, x)].hash % capacity_, P(i, g), P(i, x))
       PROVE  FALSE
  <2>1. x # g /\ m2[P(i, x)] = t.map[P(i, x)] /\ x # D + 1
    BY <1>4, <1>5, <1>9, <1>11
  <2>2. ~(x <= D)
    <3>1. \A a \in 0 .. D : a # g => ~Between(t.map[P(i, a)].hash % capacity_, P(i, g), P(i, a))
      BY ZenonT(30) DEF Shifted
    <3>2. x <= D => x \in 0 .. D
      OBVIOUS
    <3> QED BY <1>11, <2>1, <3>1, <3>2, ZenonT(30)
  <2>3. m2[P(i, x)].hash % capacity_ \in 0 .. capacity_ - 1
    <3>1. m2[P(i, x)] \in Entry
      BY <1>2, <1>5
    <3>2. m2[P(i, x)].hash \in Nat
      BY <3>1 DEF Entry
    <3> QED BY <3>2
  <2>4. PICK a \in 0 .. capacity_ - 1 : m2[P(i, x)].hash % capacity_ = P(i, a)
    BY <1>2, <2>3
  <2>5. Between(a, g, x)
    BY <1>1, <1>11, <2>4, TurnedPlaces
  <2>6. Between(a, D + 1, x)
    BY <1>1, <2>1, <2>2, <2>4, <2>5 DEF Between
  <2>7. Between(P(i, a), P(i, D + 1), P(i, x))
    BY <1>1, <2>4, <2>6, TurnedPlaces
  <2>8. m[P(i, D + 1)].key # NULL
    BY <1>1, <1>10, <1>11, <2>4, <2>7
  <2> QED BY <2>8
<1>12. ASSUME NEW s \in 0 .. capacity_ - 1
       PROVE  IF m2[s].key = NULL THEN m2[s] = Empty ELSE m2[s].hash = hash[m2[s].key]
  <2>1. PICK x \in 0 .. capacity_ - 1 : s = P(i, x)
    BY <1>2
  <2>2. CASE x = g
    BY <1>4, <1>5, <2>1, <2>2
  <2>3. CASE x # g
    <3>1. PICK y \in 1 .. capacity_ - 1 : m2[P(i, x)] = m[P(i, y)]
      BY <1>6, <2>3
    <3>2. y \in 0 .. capacity_ - 1
      OBVIOUS
    <3>3. P(i, y) \in 0 .. capacity_ - 1
      BY <1>2, <3>2
    <3> QED BY <1>3, <2>1, <3>1, <3>3
  <2> QED BY <2>2, <2>3
<1>13. ASSUME NEW s \in 0 .. capacity_ - 1, NEW u \in 0 .. capacity_ - 1,
              m2[s].key # NULL, m2[s].key = m2[u].key
       PROVE  s = u
  <2>1. PICK x \in 0 .. capacity_ - 1 : s = P(i, x)
    BY <1>2
  <2>2. PICK y \in 0 .. capacity_ - 1 : u = P(i, y)
    BY <1>2
  <2> QED BY <1>8, <1>13, <2>1, <2>2
<1>14. ASSUME NEW s \in 0 .. capacity_ - 1, NEW u \in 0 .. capacity_ - 1,
              m2[s].key # NULL, Between(m2[s].hash % capacity_, u, s)
       PROVE  m2[u].key # NULL
  <2>1. PICK x \in 0 .. capacity_ - 1 : s = P(i, x)
    BY <1>2
  <2>2. PICK j \in 0 .. capacity_ - 1 : u = P(i, j)
    BY <1>2
  <2>3. m[P(i, j)].key # NULL
    BY <1>10, <1>14, <2>1, <2>2
  <2>4. j # g
    BY <1>11, <1>14, <2>1, <2>2
  <2> QED BY <1>9, <2>2, <2>3, <2>4
<1>15. Table(m2, capacity_)
  BY <1>5, <1>12, <1>13, <1>14 DEF Table
<1>16. Occupied(m2) = Occupied(m) \ {P(i, g)} /\ P(i, g) \in Occupied(m)
  <2>1. P(i, g) \in Occupied(m)
    BY <1>1, <1>2, <1>3
  <2>2. ASSUME NEW s \in 0 .. capacity_ - 1
        PROVE  s \in Occupied(m2) <=> s \in Occupied(m) /\ s # P(i, g)
    <3>1. PICK x \in 0 .. capacity_ - 1 : s = P(i, x)
      BY <1>2
    <3>2. s \in Occupied(m2) <=> m2[s].key # NULL
      BY <1>5 DEF Occupied
    <3>3. CASE x = g
      BY <1>4, <1>5, <3>1, <3>2, <3>3
    <3>4. CASE x # g
      <4>1. s # P(i, g)
        BY <1>1, <1>2, <3>1, <3>4
      <4>2. m2[s].key = NULL <=> m[s].key = NULL
        BY <1>9, <3>1, <3>4
      <4> QED BY <1>3, <3>2, <4>1, <4>2
    <3> QED BY <3>3, <3>4
  <2>3. Occupied(m2) \subseteq 0 .. capacity_ - 1
    BY <1>5 DEF Occupied
  <2> QED BY <1>3, <2>1, <2>2, <2>3
<1>17. ASSUME NEW e \in Contents(m2) PROVE e \in Contents(m) \ {m[i]}
  <2>1. PICK s \in 0 .. capacity_ - 1 : e = m2[s] /\ m2[s].key # NULL
    BY <1>5 DEF Contents, Occupied
  <2>2. PICK x \in 0 .. capacity_ - 1 : s = P(i, x)
    BY <1>2
  <2>3. x # g
    BY <1>4, <1>5, <2>1, <2>2
  <2>4. PICK y \in 1 .. capacity_ - 1 : m2[P(i, x)] = m[P(i, y)]
    BY <1>6, <2>3
  <2>5. y \in 0 .. capacity_ - 1 /\ y # 0 /\ 0 \in 0 .. capacity_ - 1
    OBVIOUS
  <2>6. P(i, y) \in 0 .. capacity_ - 1 /\ P(i, y) # i
    BY <1>2, <2>5
  <2>7. e = m[P(i, y)] /\ m[P(i, y)].key # NULL
    BY <2>1, <2>2, <2>4
  <2>8. m[P(i, y)].key # m[i].key
    BY <2>6, <2>7 DEF Table
  <2>9. P(i, y) \in Occupied(m)
    BY <1>3, <2>6, <2>7
  <2> QED BY <2>7, <2>8, <2>9 DEF Contents
<1>18. ASSUME NEW e \in Contents(m), e # m[i] PROVE e \in Contents(m2)
  <2>1. PICK s \in 0 .. capacity_ - 1 : e = m[s] /\ m[s].key # NULL
    BY <1>3 DEF Contents, Occupied
  <2>2. PICK y \in 0 .. capacity_ - 1 : s = P(i, y)
    BY <1>2
  <2>3. y # 0
    BY <1>2, <1>18, <2>1, <2>2
  <2>4. y \in 1 .. capacity_ - 1
    BY <2>3
  <2>5. PICK x \in 0 .. capacity_ - 1 : x # g /\ m2[P(i, x)] = m[P(i, y)]
    BY <1>7, <2>4
  <2>6. P(i, x) \in Occupied(m2)
    BY <1>2, <1>5, <2>1, <2>2, <2>5 DEF Occupied
  <2> QED BY <2>1, <2>2, <2>5, <2>6 DEF Contents
<1>19. Contents(m2) = Contents(m) \ {m[i]}
  BY <1>17, <1>18
<1> QED BY <1>15, <1>16, <1>19

\* What Remove makes of a map that has the entry at i and an empty place.
LEMMA GapLemma ==
  ASSUME capacity_ \in Nat \ {0}, NEW m, Table(m, capacity_), NEW i \in 0 .. capacity_ - 1,
         m[i].key # NULL, \E s \in 0 .. capacity_ - 1 : m[s].key = NULL
  PROVE  /\ Table(CloseGap(m, i), capacity_) /\ Contents(CloseGap(m, i)) = Contents(m) \ {m[i]}
         /\ \E s \in Occupied(m) : Occupied(CloseGap(m, i)) = Occupied(m) \ {s}
<1>1. /\ \A s \in 0 .. capacity_ - 1 : \E x \in 0 .. capacity_ - 1 : s = P(i, x)
      /\ \A x \in 0 .. capacity_ : (i + x) % capacity_ = P(i, x)
      /\ P(i, 0) = i
  BY PlaceLemma
<1>2. PICK D \in 0 .. capacity_ - 2 : /\ m[P(i, D + 1)].key = NULL
                                      /\ \A x \in 0 .. D : m[P(i, x)].key # NULL
  <2> DEFINE T == {x \in 0 .. capacity_ - 1 : m[P(i, x)].key = NULL}
  <2>1. T \subseteq Nat /\ T # {} /\ 0 \notin T
    <3>1. PICK s \in 0 .. capacity_ - 1 : m[s].key = NULL
      OBVIOUS
    <3>2. PICK x \in 0 .. capacity_ - 1 : s = P(i, x)
      BY <1>1
    <3>3. x \in T
      BY <3>1, <3>2
    <3>4. T \subseteq Nat
      OBVIOUS
    <3>5. 0 \notin T
      BY <1>1
    <3> QED BY <3>3, <3>4, <3>5, ZenonT(30)
  <2>2. PICK x \in T : \A y \in T : x <= y
    BY <2>1, LeastNat, ZenonT(30)
  <2>3. x \in 1 .. capacity_ - 1 /\ m[P(i, x)].key = NULL
    BY <2>1, <2>2
  <2>4. \A y \in 0 .. x - 1 : m[P(i, y)].key # NULL
    BY <2>2, <2>3
  <2>5. x - 1 \in 0 .. capacity_ - 2 /\ (x - 1) + 1 = x
    BY <2>3
  <2> HIDE DEF T
  <2> QED BY <2>3, <2>4, <2>5
<1>3. PICK f : Turns(f, m, i) /\ CloseGap(m, i) = Closed(f, i)
  BY GapSteps
<1> DEFINE S == {d \in 0 .. D : \E g : Shifted(f[d], m, i, d, g)}
<1>4. 0 \in S
  <2>1. f[0] = [map |-> m, gap |-> i]
    BY <1>3 DEF Turns
  <2>2. Shifted(f[0], m, i, 0, 0)
    BY <2>1, ShiftedStart
  <2> QED BY <2>2
<1>5. ASSUME NEW d \in 0 .. D - 1, d \in S PROVE d + 1 \in S
  <2>1. d + 1 \in 1 .. D /\ d + 1 \in 0 .. D /\ (d + 1) - 1 = d /\ d + 1 \in 1 .. capacity_ - 1 /\ d + 1 \in 0 .. capacity_
    BY <1>2
  <2>2. PICK g : Shifted(f[d], m, i, d, g)
    BY <1>5
  <2>3. f[d + 1] = Turn(f[d], P(i, d + 1))
    BY <1>1, <1>3, <2>1 DEF Turns
  <2>4. \E g2 : Shifted(Turn(f[d], P(i, d + 1)), m, i, d + 1, g2)
    <3> DEFINE e == d + 1
    <3>1. e \in 1 .. D /\ Shifted(f[d], m, i, e - 1, g)
      BY <2>1, <2>2
    <3> HIDE DEF e
    <3>2. \E g2 : Shifted(Turn(f[d], P(i, e)), m, i, e, g2)
      BY <1>2, <3>1, ShiftedTurn
    <3> QED BY <3>2 DEF e
  <2> QED BY <2>1, <2>3, <2>4
<1>6. \A d \in 0 .. D : \E g : Shifted(f[d], m, i, d, g)
  <2> HIDE DEF S
  <2>1. \A d \in 0 .. D : d \in S
    BY <1>4, <1>5, SetInduction
  <2> QED BY <2>1 DEF S
<1>7. ASSUME NEW d \in 0 .. D PROVE Ends(f, i, d) <=> m[P(i, d + 1)].key = NULL
  <2>1. d + 1 \in 0 .. capacity_ - 1 /\ d + 1 \in 0 .. capacity_
    BY <1>2
  <2>2. PICK g : Shifted(f[d], m, i, d, g)
    BY <1>6
  <2>3. f[d].map[P(i, d + 1)].key = NULL <=> m[P(i, d + 1)].key = NULL
    <3>1. \A x \in 0 .. capacity_ - 1 : f[d].map[P(i, x)].key = NULL <=> m[P(i, x)].key = NULL
      BY <2>2, ZenonT(30) DEF Shifted
    <3> QED BY <2>1, <3>1
  <2> QED BY <1>1, <2>1, <2>3 DEF Ends
<1>8. D \in 0 .. capacity_ - 1 /\ FirstEnd(f, i, D)
  <2>1. \A d \in 0 .. D - 1 : d \in 0 .. D /\ d + 1 \in 0 .. D
    OBVIOUS
  <2>2. D \in 0 .. D /\ D \in 0 .. capacity_ - 1
    OBVIOUS
  <2> QED BY <1>2, <1>7, <2>1, <2>2 DEF FirstEnd
<1>9. ASSUME NEW d \in 0 .. capacity_ - 1, FirstEnd(f, i, d) PROVE d = D
  <2>1. ~(d < D)
    <3>1. d < D => d \in 0 .. D - 1
      OBVIOUS
    <3> QED BY <1>8, <1>9, <3>1 DEF FirstEnd
  <2>2. ~(D < d)
    <3>1. D < d => D \in 0 .. d - 1
      OBVIOUS
    <3> QED BY <1>8, <1>9, <3>1 DEF FirstEnd
  <2> QED BY <2>1, <2>2
<1>10. (CHOOSE d \in 0 .. capacity_ - 1 : FirstEnd(f, i, d)) = D
  BY <1>8, <1>9
<1>11. CloseGap(m, i) = [f[D].map EXCEPT ![f[D].gap] = Empty]
  BY <1>3, <1>10 DEF Closed
<1>12. PICK g : Shifted(f[D], m, i, D, g)
  BY <1>6
<1> QED BY <1>2, <1>11, <1>12, ShiftedEnd

-----------------------------------------------------------------------------
(* The operations.                                                         *)

\* A key is in the map where the search for it ends, or nowhere.
LEMMA MapTypes ==
  ASSUME MapConstants, MapInv
  PROVE  /\ NULL \notin Keys /\ capacity_ \in Nat \ {0} /\ hash \in [Keys -> Nat]
         /\ stored \in [Keys -> Values \cup {NULL}] /\ Table(map_, capacity_)
         /\ occupancy_ = Cardinality(Occupied(map_)) /\ occupancy_ \in Nat
         /\ IsFiniteSet(Occupied(map_))
         /\ \E s \in 0 .. capacity_ - 1 : map_[s].key = NULL
<1>1. /\ NULL \notin Keys /\ capacity_ \in Nat \ {0} /\ hash \in [Keys -> Nat]
      /\ stored \in [Keys -> Values \cup {NULL}] /\ Table(map_, capacity_)
      /\ occupancy_ = Cardinality(Occupied(map_)) /\ occupancy_ < capacity_
  BY DEF MapConstants, MapInv
<1> QED BY <1>1, FreePlace

\* The constructor establishes the invariant.
LEMMA InitMap ==
  ASSUME MapConstants, MapInit
  PROVE  MapInv
<1>1. /\ map_ = Initialize(capacity_) /\ capacity_ \in Nat \ {0} /\ occupancy_ = 0
      /\ stored = [k \in Keys |-> NULL]
  BY DEF MapInit, MapConstants
<1>2. hash \in [Keys -> Nat]
  BY DEF MapInit, MapConstants
<1>3. /\ Table(map_, capacity_) /\ Contents(map_) = {} /\ Cardinality(Occupied(map_)) = 0
  BY <1>1, EmptyTable
<1>4. Records(Contents(map_))
  BY <1>1, <1>3 DEF Records
<1>5. stored \in [Keys -> Values \cup {NULL}]
  BY <1>1
<1> QED BY <1>1, <1>2, <1>3, <1>4, <1>5 DEF MapInv

\* Clear preserves it.
LEMMA ClearMap ==
  ASSUME MapConstants, MapInv, Clear
  PROVE  MapInv'
<1>1. /\ map_' = Initialize(capacity_) /\ capacity_' = capacity_ /\ occupancy_' = 0
      /\ stored' = [k \in Keys |-> NULL] /\ hash' = hash
  BY DEF Clear
<1>2. capacity_ \in Nat \ {0} /\ hash \in [Keys -> Nat]
  BY MapTypes
<1>3. /\ Table(map_', capacity_) /\ Contents(map_') = {} /\ Cardinality(Occupied(map_')) = 0
  BY <1>1, <1>2, EmptyTable
<1>4. stored' \in [Keys -> Values \cup {NULL}]
  BY <1>1
<1>5. Records(Contents(map_))'
  BY <1>1, <1>3 DEF Records
<1>6. Table(map_, capacity_)'
  BY <1>1, <1>3 DEF Table
<1> QED BY <1>1, <1>2, <1>3, <1>4, <1>5, <1>6 DEF MapInv

\* Growth leaves the occupancy below the capacity.
LEMMA Grows ==
  ASSUME NEW o \in Nat, NEW n \in Nat \ {0}, o <= n
  PROVE  /\ ~MustGrow(o, n) => o < n
         /\ o < 2 * n
BY DEF MustGrow

\* The invariant after a step that leaves a table of n places.
LEMMA MapStep ==
  ASSUME MapConstants, MapInv, hash' = hash, NEW n \in Nat \ {0}, NEW m, Table(m, n),
         map_' = m, capacity_' = n, occupancy_' = Cardinality(Occupied(m)), occupancy_' < n,
         stored' \in [Keys -> Values \cup {NULL}],
         \A e \in Contents(m) : e.value = stored'[e.key],
         \A k \in Keys : (\A e \in Contents(m) : e.key # k) => stored'[k] = NULL
  PROVE  MapInv'
<1>1. hash' \in [Keys -> Nat]
  BY MapTypes
<1>2. Table(map_, capacity_)'
  BY DEF Table
<1>3. Records(Contents(map_))'
  BY DEF Records
<1>4. (occupancy_ = Cardinality(Occupied(map_)) /\ occupancy_ < capacity_)'
  OBVIOUS
<1> QED BY <1>1, <1>2, <1>3, <1>4 DEF MapInv

\* The entries of a table have keys, each a different one.
LEMMA ContentsLemma ==
  ASSUME NEW n \in Nat \ {0}, NEW m, Table(m, n)
  PROVE  /\ \A e \in Contents(m) : \E t \in 0 .. n - 1 : e = m[t] /\ m[t].key # NULL
         /\ \A t \in 0 .. n - 1 : m[t].key # NULL => m[t] \in Contents(m)
         /\ \A e \in Contents(m) : e.key \in Keys
         /\ \A e, d \in Contents(m) : e.key = d.key => e = d
<1>1. /\ Occupied(m) \subseteq 0 .. n - 1
      /\ \A s \in 0 .. n - 1 : (s \in Occupied(m) <=> m[s].key # NULL) /\ m[s].key \in Keys \cup {NULL}
  BY TableTypes
<1>2. \A e \in Contents(m) : \E t \in 0 .. n - 1 : e = m[t] /\ m[t].key # NULL
  BY <1>1 DEF Contents
<1>3. \A t \in 0 .. n - 1 : m[t].key # NULL => m[t] \in Contents(m)
  BY <1>1 DEF Contents
<1>4. \A e, d \in Contents(m) : e.key = d.key => e = d
  BY <1>2 DEF Table
<1> QED BY <1>1, <1>2, <1>3, <1>4

\* So does Remove, of a key that is in the map or not,
LEMMA RemoveMap ==
  ASSUME MapConstants, MapInv, NEW k \in Keys, Remove(k)
  PROVE  MapInv'
<1>1. /\ NULL \notin Keys /\ capacity_ \in Nat \ {0} /\ hash \in [Keys -> Nat]
      /\ stored \in [Keys -> Values \cup {NULL}] /\ Table(map_, capacity_)
      /\ occupancy_ = Cardinality(Occupied(map_)) /\ occupancy_ \in Nat
      /\ IsFiniteSet(Occupied(map_))
      /\ \E s \in 0 .. capacity_ - 1 : map_[s].key = NULL
  BY MapTypes
<1>2. PICK s \in 0 .. capacity_ - 1 : Probe(map_, capacity_, k) = s /\ map_[s].key \in {NULL, k}
  BY <1>1, FindLemma
<1>3. /\ map_[s].key = k /\ map_[s].key # NULL /\ map_' = CloseGap(map_, s) /\ occupancy_' = occupancy_ - 1
      /\ stored' = [stored EXCEPT ![k] = NULL] /\ capacity_' = capacity_ /\ hash' = hash
  BY <1>2 DEF Remove
<1>4. /\ Table(map_', capacity_) /\ Contents(map_') = Contents(map_) \ {map_[s]}
      /\ \E t \in Occupied(map_) : Occupied(map_') = Occupied(map_) \ {t}
  BY <1>1, <1>3, GapLemma
<1>5. occupancy_' = Cardinality(Occupied(map_')) /\ occupancy_' < capacity_
  <2>1. PICK t \in Occupied(map_) : Occupied(map_') = Occupied(map_) \ {t}
    BY <1>4
  <2>2. Cardinality(Occupied(map_')) = Cardinality(Occupied(map_)) - 1
    BY <1>1, <2>1, FS_RemoveElement
  <2>3. occupancy_ < capacity_
    BY DEF MapInv
  <2> QED BY <1>1, <1>3, <2>2, <2>3
<1>6. stored' \in [Keys -> Values \cup {NULL}]
  BY <1>1, <1>3
<1>7. /\ map_[s] \in Contents(map_) /\ \A e \in Contents(map_) : e.key \in Keys
      /\ \A e, d \in Contents(map_) : e.key = d.key => e = d
  BY <1>1, <1>3, ContentsLemma
<1>8. Records(Contents(map_))
  BY DEF MapInv
<1>9. ASSUME NEW e \in Contents(map_') PROVE e.value = stored'[e.key]
  <2>1. e \in Contents(map_) /\ e.key \in Keys /\ e.key # k
    BY <1>3, <1>4, <1>7
  <2>2. e.value = stored[e.key]
    BY <1>8, <2>1 DEF Records
  <2> QED BY <1>1, <1>3, <2>1, <2>2
<1>10. ASSUME NEW c \in Keys, \A e \in Contents(map_') : e.key # c PROVE stored'[c] = NULL
  <2>1. CASE c = k
    BY <1>1, <1>3, <2>1
  <2>2. CASE c # k
    <3>1. \A e \in Contents(map_) : e.key # c
      BY <1>3, <1>4, <1>10, <2>2
    <3>2. stored[c] = NULL
      BY <1>8, <3>1 DEF Records
    <3> QED BY <1>1, <1>3, <2>2, <3>2
  <2> QED BY <2>1, <2>2
<1> QED BY <1>1, <1>3, <1>4, <1>5, <1>6, <1>9, <1>10, MapStep

\* and Lookup with insertion, of an old or a new key, with or without growth.
LEMMA LookupMap ==
  ASSUME MapConstants, MapInv, NEW k \in Keys, NEW v \in Values, Lookup(k, v)
  PROVE  MapInv'
<1>1. /\ NULL \notin Keys /\ capacity_ \in Nat \ {0} /\ hash \in [Keys -> Nat]
      /\ stored \in [Keys -> Values \cup {NULL}] /\ Table(map_, capacity_)
      /\ occupancy_ = Cardinality(Occupied(map_)) /\ occupancy_ \in Nat
      /\ IsFiniteSet(Occupied(map_))
      /\ \E s \in 0 .. capacity_ - 1 : map_[s].key = NULL
  BY MapTypes
<1>2. PICK s \in 0 .. capacity_ - 1 :
        /\ Probe(map_, capacity_, k) = s /\ map_[s].key \in {NULL, k}
        /\ map_[s].key = NULL => \A t \in 0 .. capacity_ - 1 : map_[t].key # k
  BY <1>1, FindLemma
<1>3. PICK e : e = [key |-> k, hash |-> hash[k], value |-> v]
  OBVIOUS
<1>4. e \in Entry /\ e.key = k /\ e.hash = hash[k] /\ e.value = v
  BY <1>1, <1>3 DEF Entry
<1>5. PICK m : m = Put(map_, s, e)
  OBVIOUS
<1>6. /\ stored' = [stored EXCEPT ![k] = v] /\ hash' = hash
      /\ stored' \in [Keys -> Values \cup {NULL}]
      /\ stored'[k] = v /\ \A c \in Keys : c # k => stored'[c] = stored[c]
  BY <1>1 DEF Lookup
<1>7. Records(Contents(map_)) /\ occupancy_ < capacity_
  BY DEF MapInv
<1>8. /\ \A d \in Contents(map_) : \E t \in 0 .. capacity_ - 1 : d = map_[t] /\ map_[t].key # NULL
      /\ \A t \in 0 .. capacity_ - 1 : map_[t].key # NULL => map_[t] \in Contents(map_)
      /\ \A d \in Contents(map_) : d.key \in Keys
  BY <1>1, ContentsLemma
<1>9. CASE map_[s].key = NULL
  <2>1. /\ Table(m, capacity_) /\ Contents(m) = Contents(map_) \cup {e}
        /\ \E t \in 0 .. capacity_ - 1 : t \notin Occupied(map_) /\ Occupied(m) = Occupied(map_) \cup {t}
    <3>1. m = Put(map_, Probe(map_, capacity_, e.key), e)
      BY <1>2, <1>4, <1>5
    <3>2. /\ e.key \in Keys /\ e.hash = hash[e.key]
          /\ \A t \in 0 .. capacity_ - 1 : map_[t].key # e.key
      BY <1>2, <1>4, <1>9
    <3>3. /\ hash \in [Keys -> Nat] /\ NULL \notin Keys /\ capacity_ \in Nat \ {0} /\ Table(map_, capacity_)
          /\ \E t \in 0 .. capacity_ - 1 : map_[t].key = NULL
      BY <1>1
    <3>4. Inserting(map_, capacity_, e)
      BY <1>4, <3>2, <3>3 DEF Inserting
    <3> QED BY <3>1, <3>4, InsertEntry
  <2>2. Cardinality(Occupied(m)) = occupancy_ + 1
    <3>1. PICK t : t \notin Occupied(map_) /\ Occupied(m) = Occupied(map_) \cup {t}
      BY <2>1
    <3> QED BY <1>1, <3>1, FS_AddElement
  <2>3. \A d \in Contents(m) : d.value = stored'[d.key]
    <3>1. \A d \in Contents(map_) : d.key # k /\ d.key \in Keys
      BY <1>2, <1>8, <1>9
    <3>2. \A d \in Contents(map_) : d.value = stored[d.key]
      BY <1>7 DEF Records
    <3> QED BY <1>4, <1>6, <2>1, <3>1, <3>2
  <2>4. \A c \in Keys : (\A d \in Contents(m) : d.key # c) => stored'[c] = NULL
    <3>1. \A c \in Keys : (\A d \in Contents(map_) : d.key # c) => stored[c] = NULL
      BY <1>7 DEF Records
    <3> QED BY <1>4, <1>6, <2>1, <3>1
  <2>5. occupancy_' = occupancy_ + 1
    BY <1>2, <1>9 DEF Lookup
  <2>6. occupancy_ + 1 \in Nat /\ occupancy_ + 1 <= capacity_
    BY <1>1, <1>7
  <2>7. CASE MustGrow(occupancy_ + 1, capacity_)
    <3>1. map_' = Resize(m, capacity_) /\ capacity_' = 2 * capacity_
      BY <1>2, <1>3, <1>5, <1>9, <2>7 DEF Lookup, Put
    <3>2. /\ Table(Resize(m, capacity_), 2 * capacity_) /\ Contents(Resize(m, capacity_)) = Contents(m)
          /\ Cardinality(Occupied(Resize(m, capacity_))) = Cardinality(Occupied(m))
      BY <1>1, <2>1, ResizeLemma
    <3>3. 2 * capacity_ \in Nat \ {0} /\ occupancy_ + 1 < 2 * capacity_
      BY <1>1, <2>6, Grows
    <3> QED BY <1>6, <2>2, <2>3, <2>4, <2>5, <3>1, <3>2, <3>3, MapStep
  <2>8. CASE ~MustGrow(occupancy_ + 1, capacity_)
    <3>1. map_' = m /\ capacity_' = capacity_
      BY <1>2, <1>3, <1>5, <1>9, <2>8 DEF Lookup, Put
    <3>2. occupancy_ + 1 < capacity_
      BY <1>1, <2>6, <2>8, Grows
    <3> QED BY <1>1, <1>6, <2>1, <2>2, <2>3, <2>4, <2>5, <3>1, <3>2, MapStep
  <2> QED BY <2>7, <2>8
<1>10. CASE map_[s].key # NULL
  <2>1. map_[s].key = k /\ e.key = map_[s].key /\ e.hash = map_[s].hash
    BY <1>1, <1>2, <1>4, <1>10, TableTypes
  <2>2. /\ Table(m, capacity_) /\ Occupied(m) = Occupied(map_)
        /\ \A t \in 0 .. capacity_ - 1 : m[t] = IF t = s THEN e ELSE map_[t]
    <3>1. capacity_ \in Nat \ {0} /\ Table(map_, capacity_) /\ e \in Entry
      BY <1>1, <1>4
    <3> QED BY <1>5, <1>10, <2>1, <3>1, ReplaceLemma
  <2>3. map_' = m /\ capacity_' = capacity_ /\ occupancy_' = occupancy_
    BY <1>2, <1>3, <1>5, <1>10 DEF Lookup, Put
  <2>4. /\ \A d \in Contents(m) : \E t \in 0 .. capacity_ - 1 : d = m[t] /\ m[t].key # NULL
        /\ \A t \in 0 .. capacity_ - 1 : m[t].key # NULL => m[t] \in Contents(m)
    BY <1>1, <2>2, ContentsLemma
  <2>5. ASSUME NEW d \in Contents(m) PROVE d.value = stored'[d.key]
    <3>1. PICK t \in 0 .. capacity_ - 1 : d = m[t] /\ m[t].key # NULL
      BY <2>4
    <3>2. CASE t = s
      BY <1>4, <1>6, <2>2, <3>1, <3>2
    <3>3. CASE t # s
      <4>1. d = map_[t] /\ map_[t].key # NULL
        BY <2>2, <3>1, <3>3
      <4>2. d.key # k
        BY <1>1, <2>1, <3>3, <4>1 DEF Table
      <4>3. d \in Contents(map_)
        BY <1>8, <4>1
      <4>4. d.value = stored[d.key] /\ d.key \in Keys
        BY <1>7, <1>8, <4>3 DEF Records
      <4> QED BY <1>6, <4>2, <4>4
    <3> QED BY <3>2, <3>3
  <2>6. ASSUME NEW c \in Keys, \A d \in Contents(m) : d.key # c PROVE stored'[c] = NULL
    <3>1. c # k
      <4>1. m[s] = e /\ m[s].key # NULL
        BY <1>1, <1>4, <2>2
      <4> QED BY <1>4, <2>4, <2>6, <4>1
    <3>2. ASSUME NEW d \in Contents(map_), d.key = c PROVE FALSE
      <4>1. PICK t \in 0 .. capacity_ - 1 : d = map_[t] /\ map_[t].key # NULL
        BY <1>8
      <4>2. m[t] = d
        BY <2>1, <2>2, <3>1, <3>2, <4>1
      <4> QED BY <2>4, <2>6, <3>2, <4>1, <4>2
    <3>3. stored[c] = NULL
      BY <1>7, <3>2 DEF Records
    <3> QED BY <1>6, <3>1, <3>3
  <2> QED BY <1>1, <1>6, <1>7, <2>2, <2>3, <2>5, <2>6, MapStep
<1> QED BY <1>9, <1>10

\* Every operation preserves the invariant.
LEMMA NextMap ==
  ASSUME MapConstants, MapInv, [MapNext]_mapVars
  PROVE  MapInv'
<1>1. CASE UNCHANGED mapVars
  BY <1>1 DEF mapVars, MapInv, Table, Records
<1>2. CASE MapNext
  <2>1. CASE Clear
    BY <2>1, ClearMap
  <2>2. ASSUME NEW k \in Keys, Remove(k) PROVE MapInv'
    BY <2>2, RemoveMap
  <2>3. ASSUME NEW k \in Keys, NEW v \in Values, Lookup(k, v) PROVE MapInv'
    BY <2>3, LookupMap
  <2> QED BY <1>2, <2>1, <2>2, <2>3 DEF MapNext
<1> QED BY <1>1, <1>2

\* It holds in every state of the map.
LEMMA MapInvAlways ==
  ASSUME MapConstants
  PROVE  MapSpec => []MapInv
<1>1. MapInit => MapInv
  BY InitMap
<1>2. MapInv /\ [MapNext]_mapVars => MapInv'
  BY NextMap
<1> QED BY <1>1, <1>2, PTL DEF MapSpec

\* For every number of keys and every hash function, and every sequence of
\* insertions, removals with their moved entries, growth and Clear, the search
\* finds for every key what was last stored for it.
THEOREM MapFinds ==
  ASSUME MapConstants
  PROVE  MapSpec => []MapFindsLastStored
<1>1. ASSUME MapInv PROVE MapFindsLastStored
  <2>1. /\ NULL \notin Keys /\ capacity_ \in Nat \ {0} /\ hash \in [Keys -> Nat]
        /\ Table(map_, capacity_) /\ \E s \in 0 .. capacity_ - 1 : map_[s].key = NULL
    BY <1>1, MapTypes
  <2>2. SUFFICES ASSUME NEW k \in Keys
                 PROVE  map_[Probe(map_, capacity_, k)].value = stored[k]
    BY DEF MapFindsLastStored
  <2>3. PICK s \in 0 .. capacity_ - 1 :
          /\ Probe(map_, capacity_, k) = s /\ map_[s].key \in {NULL, k}
          /\ map_[s].key = NULL => \A t \in 0 .. capacity_ - 1 : map_[t].key # k
    BY <2>1, FindLemma
  <2>4. Records(Contents(map_))
    BY <1>1 DEF MapInv
  <2>5. CASE map_[s].key = NULL
    <3>1. map_[s].value = NULL
      BY <2>1, <2>5, TableTypes DEF Empty
    <3>2. \A e \in Contents(map_) : e.key # k
      BY <2>1, <2>3, <2>5, ContentsLemma
    <3> QED BY <2>3, <2>4, <3>1, <3>2 DEF Records
  <2>6. CASE map_[s].key # NULL
    <3>1. map_[s].key = k /\ map_[s] \in Contents(map_)
      BY <2>1, <2>3, <2>6, ContentsLemma
    <3> QED BY <2>3, <2>4, <3>1 DEF Records
  <2> QED BY <2>5, <2>6
<1>2. MapInv => MapFindsLastStored
  BY <1>1
<1> QED BY <1>2, MapInvAlways, PTL

\* The counter of the map that decides about its growth is the number of the
\* entries in it, and at least one place stays empty, where every search ends.
MapCountsEntries ==
  /\ occupancy_ = Cardinality(Occupied(map_)) /\ occupancy_ < capacity_
  /\ \E s \in 0 .. capacity_ - 1 : map_[s].key = NULL

\* The counter is exact and searches end, for every sequence of operations.
THEOREM MapCounts ==
  ASSUME MapConstants
  PROVE  MapSpec => []MapCountsEntries
<1>1. ASSUME MapInv PROVE MapCountsEntries
  <2>1. occupancy_ < capacity_
    BY <1>1 DEF MapInv
  <2> QED BY <1>1, <2>1, MapTypes DEF MapCountsEntries
<1>2. MapInv => MapCountsEntries
  BY <1>1
<1> QED BY <1>2, MapInvAlways, PTL
=============================================================================
