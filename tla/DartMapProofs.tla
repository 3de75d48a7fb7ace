--------------------------- MODULE DartMapProofs ---------------------------
(***************************************************************************)
(* Proofs about the map of hash_map_set.dart, for any keys, values and     *)
(* hashes, of which nothing is assumed but DartMapConstants: the probes of *)
(* a search visit every slot (QuadraticProbing), a slot stays empty and    *)
(* the counters are right (DartMapCounts), and a lookup finds what was     *)
(* last stored (DartMapFinds).                                             *)
(*                                                                         *)
(* A key is found because every slot that its search meets before it is    *)
(* in use, by another key or as deleted; DartTable says so of the lists.   *)
(* Growth adds the keys one by one to lists that it keeps in that form.    *)
(***************************************************************************)
EXTENDS HashMapImplementation, DataLemmas, FiniteSetTheorems

\* Zenon for a moment, then SMT, then Zenon for longer.
USE ZenonT(2), SMTT(30), ZenonT(30)

-----------------------------------------------------------------------------
(* The map of Dart: quadratic probing reaches every slot.                  *)

\* A power of two has no odd divisor but 1.
PowerOfTwo(n) ==
  n \in Nat \ {0} /\ \A a, b \in Nat : a * b = n => a = 1 \/ a % 2 = 0

\* A factor of an even product is even.
LEMMA OddTimes ==
  ASSUME NEW a \in Nat, NEW b \in Nat, b % 2 = 1, (a * b) % 2 = 0
  PROVE  a % 2 = 0
<1> SUFFICES ASSUME a % 2 = 1 PROVE FALSE
  OBVIOUS
<1>1. PICK x \in Nat : a = 2 * x + 1
  <2>1. a \div 2 \in Nat /\ a = 2 * (a \div 2) + 1
    OBVIOUS
  <2> QED BY <2>1
<1>2. PICK y \in Nat : b = 2 * y + 1
  <2>1. b \div 2 \in Nat /\ b = 2 * (b \div 2) + 1
    OBVIOUS
  <2> QED BY <2>1
<1>3. PICK z \in Nat : z = x * y
  OBVIOUS
<1>4. a * b = 2 * (2 * z + x + y) + 1
  <2>1. a * b = (2 * x + 1) * (2 * y + 1)
    BY <1>1, <1>2
  <2>2. (2 * x + 1) * (2 * y + 1) = 4 * (x * y) + 2 * x + 2 * y + 1
    OBVIOUS
  <2> QED BY <1>3, <2>1, <2>2
<1>5. PICK w \in Nat : w = 2 * z + x + y
  OBVIOUS
<1>6. (2 * w + 1) % 2 = 1
  OBVIOUS
<1> QED BY <1>4, <1>5, <1>6

\* An even number is twice another.
LEMMA Halve ==
  ASSUME NEW a \in Nat, a % 2 = 0
  PROVE  \E x \in Nat : a = 2 * x
<1>1. a \div 2 \in Nat /\ a = 2 * (a \div 2)
  OBVIOUS
<1> QED BY <1>1

\* The capacity stays a power of two when it is doubled.
LEMMA Doubled ==
  ASSUME NEW n, PowerOfTwo(n)
  PROVE  PowerOfTwo(2 * n)
<1>1. n \in Nat \ {0} /\ 2 * n \in Nat \ {0}
  BY DEF PowerOfTwo
<1>2. ASSUME NEW a \in Nat, NEW b \in Nat, a * b = 2 * n, a % 2 # 0 PROVE a = 1
  <2>1. a % 2 = 1
    BY <1>2
  <2>2. b * a = 2 * n /\ (b * a) % 2 = 0
    BY <1>1, <1>2
  <2>3. b % 2 = 0
    BY <2>1, <2>2, OddTimes
  <2>4. PICK c \in Nat : b = 2 * c
    BY <2>3, Halve
  <2>5. a * c = n
    <3>1. a * (2 * c) = 2 * (a * c) /\ a * c \in Nat
      OBVIOUS
    <3>2. PICK d \in Nat : d = a * c
      BY <3>1
    <3> QED BY <1>1, <1>2, <2>4, <3>1, <3>2
  <2> QED BY <1>2, <2>5 DEF PowerOfTwo
<1> QED BY <1>1, <1>2 DEF PowerOfTwo

\* The initial capacity of the code.
LEMMA EightSlots ==
  PowerOfTwo(8)
<1>1. ASSUME NEW a \in Nat, NEW b \in Nat, a * b = 8 PROVE a = 1 \/ a % 2 = 0
  <2>1. b # 0
    BY <1>1
  <2>2. b >= 1 /\ a >= 0
    BY <2>1
  <2>3. a <= 8
    <3>1. PICK c \in Nat : b = c + 1
      <4>1. b - 1 \in Nat /\ b = (b - 1) + 1
        BY <2>2
      <4> QED BY <4>1
    <3>2. a * b = a * c + a /\ a * c \in Nat
      BY <3>1
    <3> QED BY <1>1, <3>2
  <2>4. a \in {0, 1, 2, 3, 4, 5, 6, 7, 8}
    BY <2>3
  <2> QED BY <1>1, <2>4
<1> QED BY <1>1 DEF PowerOfTwo

\* A power of two that divides a product with an odd factor divides the other.
LEMMA DividesFactor ==
  ASSUME NEW n, PowerOfTwo(n), NEW a \in Nat, NEW b \in Nat, b % 2 = 1,
         NEW c \in Nat, a * b = n * c
  PROVE  \E d \in Nat : a = n * d
<1> DEFINE Fails(x, y) == PowerOfTwo(x) /\ (\E z \in Nat : y * b = x * z) /\ (\A d \in Nat : y # x * d)
           S == {x \in Nat : \E y \in Nat : Fails(x, y)}
<1> SUFFICES ASSUME \A d \in Nat : a # n * d PROVE FALSE
  OBVIOUS
<1>1. n \in S
  BY ZenonT(30) DEF PowerOfTwo
<1>2. PICK x \in S : \A w \in S : x <= w
  <2>1. S \subseteq Nat /\ S # {}
    BY <1>1, ZenonT(30)
  <2> HIDE DEF S
  <2> QED BY <2>1, LeastNat, ZenonT(30)
<1>3. PICK y \in Nat : Fails(x, y)
  BY <1>2
<1>4. PICK z \in Nat : y * b = x * z
  BY <1>3
<1>5. x \in Nat \ {0} /\ PowerOfTwo(x)
  BY <1>3 DEF PowerOfTwo
<1>6. x # 1
  <2>1. y = 1 * y
    OBVIOUS
  <2> QED BY <1>3, <2>1
<1>7. PICK m \in Nat : x = 2 * m
  <2>1. x * 1 = x
    BY <1>5
  <2>2. x % 2 = 0
    BY <1>5, <1>6, <2>1 DEF PowerOfTwo
  <2> QED BY <1>5, <2>2, Halve
<1>8. m \in Nat \ {0} /\ m < x
  BY <1>5, <1>7
<1>9. PowerOfTwo(m)
  <2>1. ASSUME NEW p \in Nat, NEW q \in Nat, p * q = m PROVE p = 1 \/ p % 2 = 0
    <3>1. p * (2 * q) = 2 * (p * q) /\ 2 * q \in Nat
      OBVIOUS
    <3>2. p * (2 * q) = x
      BY <1>7, <2>1, <3>1
    <3> QED BY <1>5, <3>1, <3>2, ZenonT(30) DEF PowerOfTwo
  <2> QED BY <1>8, <2>1 DEF PowerOfTwo
<1>10. PICK u \in Nat : y = 2 * u
  <2>1. (2 * m) * z = 2 * (m * z) /\ m * z \in Nat
    OBVIOUS
  <2>2. PICK g \in Nat : g = m * z
    BY <2>1
  <2>3. y * b = 2 * g
    BY <1>4, <1>7, <2>1, <2>2
  <2>4. (y * b) % 2 = 0
    BY <2>3
  <2>5. y % 2 = 0
    BY <2>4, OddTimes
  <2> QED BY <2>5, Halve
<1>11. u * b = m * z
  <2>1. (2 * u) * b = 2 * (u * b) /\ (2 * m) * z = 2 * (m * z) /\ u * b \in Nat /\ m * z \in Nat
    OBVIOUS
  <2>2. PICK g \in Nat, h \in Nat : g = u * b /\ h = m * z
    BY <2>1
  <2>3. 2 * g = 2 * h
    BY <1>4, <1>7, <1>10, <2>1, <2>2
  <2>4. g = h
    BY <2>3
  <2> QED BY <2>2, <2>4
<1>12. PICK d \in Nat : u = m * d
  <2>1. m \notin S
    <3> HIDE DEF S
    <3> QED BY <1>2, <1>5, <1>8
  <2>2. ~Fails(m, u)
    <3> HIDE DEF Fails
    <3> QED BY <1>8, <2>1
  <2> QED BY <1>9, <1>11, <2>2, ZenonT(30)
<1>13. y = x * d
  <2>1. (2 * m) * d = 2 * (m * d)
    OBVIOUS
  <2> QED BY <1>7, <1>10, <1>12, <2>1
<1> QED BY <1>3, <1>13

\* What _nextProbe has added after i probes.
Offset(i) == (i * (i + 1)) \div 2

LEMMA OffsetIs ==
  ASSUME NEW i \in Nat
  PROVE  Offset(i) \in Nat /\ 2 * Offset(i) = i * (i + 1)
<1>1. \E x \in Nat : i * (i + 1) = 2 * x
  <2>1. CASE i % 2 = 0
    <3>1. PICK y \in Nat : i = 2 * y
      BY <2>1, Halve
    <3>2. (2 * y) * (i + 1) = 2 * (y * (i + 1)) /\ y * (i + 1) \in Nat
      OBVIOUS
    <3> QED BY <3>1, <3>2
  <2>2. CASE i % 2 = 1
    <3>1. i + 1 \in Nat /\ (i + 1) % 2 = 0
      BY <2>2
    <3>2. PICK y \in Nat : i + 1 = 2 * y
      BY <3>1, Halve
    <3>3. i * (2 * y) = 2 * (i * y) /\ i * y \in Nat
      OBVIOUS
    <3> QED BY <3>2, <3>3, ZenonT(30)
  <2>3. i % 2 = 0 \/ i % 2 = 1
    OBVIOUS
  <2> QED BY <2>1, <2>2, <2>3
<1>2. PICK x \in Nat : i * (i + 1) = 2 * x
  BY <1>1
<1>3. (2 * x) \div 2 = x
  OBVIOUS
<1> QED BY <1>2, <1>3 DEF Offset

\* Division with remainder.
LEMMA DivideBy ==
  ASSUME NEW n \in Nat \ {0}, NEW s \in Int
  PROVE  \E a \in Int, r \in Int : r = s % n /\ s = n * a + r
<1> DEFINE a == s \div n
           r == s % n
<1>1. r \in 0 .. n - 1 /\ a \in Int /\ s = n * a + r
  OBVIOUS
<1> HIDE DEF a
<1> QED BY <1>1

\* Two numbers in the same slot differ by a multiple of the capacity.
LEMMA SameSlot ==
  ASSUME NEW n \in Nat \ {0}, NEW s \in Int, NEW t \in Int, s % n = t % n
  PROVE  \E q \in Int : t - s = n * q
<1>1. PICK a \in Int, r \in Int : r = s % n /\ s = n * a + r
  BY DivideBy, ZenonT(30)
<1>2. PICK b \in Int, z \in Int : z = t % n /\ t = n * b + z
  BY DivideBy
<1>3. PICK x \in Int, y \in Int : x = n * a /\ y = n * b
  OBVIOUS
<1>4. t - s = y - x
  BY <1>1, <1>2, <1>3
<1>5. n * (b - a) = n * b - n * a /\ b - a \in Int
  OBVIOUS
<1> QED BY <1>3, <1>4, <1>5, ZenonT(30)

\* A multiple of a number is 0 or not smaller than it.
LEMMA MultipleBound ==
  ASSUME NEW n \in Nat, NEW d \in Nat, n * d # 0
  PROVE  n * d >= n
<1>1. d # 0
  OBVIOUS
<1>2. PICK c \in Nat : d = c + 1
  <2>1. d - 1 \in Nat /\ d = (d - 1) + 1
    BY <1>1
  <2> QED BY <2>1
<1>3. n * (c + 1) = n * c + n /\ n * c \in Nat
  OBVIOUS
<1> QED BY <1>2, <1>3

\* No two of the first n probes are in the same slot.
LEMMA ProbesDiffer ==
  ASSUME NEW n, PowerOfTwo(n), NEW p \in Int, NEW i \in 0 .. n - 1, NEW j \in 0 .. n - 1, i < j
  PROVE  (p + Offset(i)) % n # (p + Offset(j)) % n
<1> SUFFICES ASSUME (p + Offset(i)) % n = (p + Offset(j)) % n PROVE FALSE
  OBVIOUS
<1>1. n \in Nat \ {0} /\ i \in Nat /\ j \in Nat
  BY DEF PowerOfTwo
<1>2. /\ Offset(i) \in Nat /\ 2 * Offset(i) = i * (i + 1)
      /\ Offset(j) \in Nat /\ 2 * Offset(j) = j * (j + 1)
  BY <1>1, OffsetIs
<1>3. PICK q \in Int : Offset(j) - Offset(i) = n * q
  <2>1. PICK x \in Int, y \in Int : x = p + Offset(i) /\ y = p + Offset(j)
    BY <1>2
  <2>2. x % n = y % n
    BY <2>1
  <2>3. PICK q \in Int : y - x = n * q
    BY <1>1, <2>2, SameSlot, ZenonT(30)
  <2>4. y - x = Offset(j) - Offset(i)
    BY <1>2, <2>1
  <2> QED BY <2>3, <2>4
<1>4. PICK u \in Nat, v \in Nat : u = j - i /\ v = j + i + 1
  BY <1>1
<1>5. u * v = 2 * (n * q)
  <2>1. \A a, b \in Nat : (b - a) * (b + a + 1) = b * (b + 1) - a * (a + 1)
    OBVIOUS
  <2>2. u * v = j * (j + 1) - i * (i + 1)
    BY <1>1, <1>4, <2>1
  <2>3. PICK x \in Int : x = n * q
    BY <1>1
  <2>4. u * v = 2 * Offset(j) - 2 * Offset(i)
    BY <1>2, <2>2, ZenonT(30)
  <2>5. u * v = 2 * x
    BY <1>2, <1>3, <2>3, <2>4
  <2> QED BY <2>3, <2>5
<1>6. u >= 1 /\ v >= 1 /\ u < n /\ v < 2 * n
  BY <1>1, <1>4
<1>7. u * v \in Nat /\ u * v >= 1
  BY <1>6
<1>8. q \in Nat
  <2> SUFFICES ASSUME q < 0 PROVE FALSE
    OBVIOUS
  <2>1. n * q < 0
    <3>1. PICK c \in Nat : q = -c - 1
      <4>1. -q - 1 \in Nat /\ q = -(-q - 1) - 1
        OBVIOUS
      <4> QED BY <4>1
    <3>2. n * (-c - 1) = -(n * c) - n /\ n * c \in Nat
      BY <1>1
    <3> QED BY <1>1, <3>1, <3>2
  <2>2. PICK x \in Int, y \in Int : x = n * q /\ y = u * v
    BY <1>1
  <2>3. y = 2 * x /\ y >= 1 /\ x < 0
    BY <1>5, <1>7, <2>1, <2>2
  <2> QED BY <2>3
<1>9. PICK m \in Nat : m = 2 * n
  BY <1>1
<1>10. u * v = m * q /\ v * u = m * q
  <2>1. (2 * n) * q = 2 * (n * q) /\ u * v = v * u
    BY <1>1
  <2> QED BY <1>5, <1>9, <2>1
<1>11. PowerOfTwo(m)
  BY <1>9, Doubled
<1>12. u % 2 = 1 \/ v % 2 = 1
  <2>1. u + v = 2 * j + 1
    BY <1>1, <1>4
  <2> QED BY <1>1, <2>1
<1>13. CASE u % 2 = 1
  <2>1. PICK d \in Nat : v = m * d
    BY <1>8, <1>10, <1>11, <1>13, DividesFactor, ZenonT(30)
  <2>2. m * d # 0
    BY <1>6, <2>1
  <2>3. m * d >= m
    BY <2>2, MultipleBound
  <2> QED BY <1>6, <1>9, <2>1, <2>3
<1>14. CASE v % 2 = 1
  <2>1. PICK d \in Nat : u = m * d
    BY <1>8, <1>10, <1>11, <1>14, DividesFactor, ZenonT(30)
  <2>2. m * d # 0
    BY <1>6, <2>1
  <2>3. m * d >= m
    BY <2>2, MultipleBound
  <2> QED BY <1>1, <1>6, <1>9, <2>1, <2>3
<1> QED BY <1>12, <1>13, <1>14

\* The slot of probe number i for the key k in a table of n slots.
SlotOf(n, k, i) == (hash[k] + Offset(i)) % n

\* In a table whose capacity is a power of two the first n probes for a key visit
\* every slot, so a search comes to an empty slot if there is one
\* (_firstProbe, _nextProbe).
THEOREM QuadraticProbing ==
  ASSUME hash \in [Keys -> Int], NEW n, PowerOfTwo(n), NEW k \in Keys
  PROVE  /\ \A i \in 0 .. n - 1 : SlotOf(n, k, i) \in 0 .. n - 1
         /\ \A s \in 0 .. n - 1 : \E i \in 0 .. n - 1 : SlotOf(n, k, i) = s
<1>1. n \in Nat \ {0} /\ hash[k] \in Int
  BY DEF PowerOfTwo
<1>2. ASSUME NEW i \in 0 .. n - 1 PROVE SlotOf(n, k, i) \in 0 .. n - 1
  <2>1. Offset(i) \in Nat
    BY <1>1, OffsetIs
  <2>2. PICK x \in Int : x = hash[k] + Offset(i)
    BY <1>1, <2>1
  <2>3. x % n \in 0 .. n - 1
    BY <1>1
  <2> QED BY <2>2, <2>3 DEF SlotOf
<1>3. ASSUME NEW s \in 0 .. n - 1, \A i \in 0 .. n - 1 : SlotOf(n, k, i) # s PROVE FALSE
  <2> DEFINE A == 0 .. n - 1
             f == [i \in A |-> SlotOf(n, k, i)]
  <2>1. f \in [A -> A \ {s}]
    BY <1>2, <1>3
  <2>2. IsFiniteSet(A) /\ Cardinality(A) = n
    BY <1>1, FS_Interval
  <2>3. IsFiniteSet(A \ {s}) /\ Cardinality(A \ {s}) = n - 1
    <3>1. s \in A
      OBVIOUS
    <3> HIDE DEF A
    <3> QED BY <2>2, <3>1, FS_RemoveElement
  <2>4. PICK i \in A, j \in A : i # j /\ f[i] = f[j]
    <3>1. Cardinality(A \ {s}) < Cardinality(A)
      BY <1>1, <2>2, <2>3
    <3> HIDE DEF A, f
    <3> QED BY <2>1, <2>2, <2>3, <3>1, FS_PigeonHole
  <2>5. SlotOf(n, k, i) = SlotOf(n, k, j)
    BY <2>4
  <2>6. i < j \/ j < i
    BY <1>1, <2>4
  <2> QED BY <1>1, <2>5, <2>6, ProbesDiffer DEF SlotOf
<1> QED BY <1>2, <1>3

-----------------------------------------------------------------------------
(* The map of Dart: lists of keys and values.                              *)

\* The slot s is on the way of k, and no slot before it is empty.
OnPath(keys, n, k, s) ==
  \E i \in 0 .. n - 1 :
    SlotOf(n, k, i) = s /\ \A j \in 0 .. i - 1 : keys[SlotOf(n, k, j)] # NULL

\* Lists of n slots in which every key is once and no empty slot hides it.
DartTable(keys, values, n) ==
  /\ keys \in [0 .. n - 1 -> Keys \cup {NULL, _DELETED_KEY}]
  /\ values \in [0 .. n - 1 -> Values \cup {NULL}]
  /\ \A s, t \in 0 .. n - 1 : keys[s] \in Keys /\ keys[s] = keys[t] => s = t
  /\ \A s \in 0 .. n - 1 : keys[s] \in Keys => OnPath(keys, n, keys[s], s)

\* The slots with a key, and those with a deleted one.
Live(keys) == {s \in DOMAIN keys : keys[s] \in Keys}
Deleted(keys) == {s \in DOMAIN keys : keys[s] = _DELETED_KEY}

\* What is in the lists is what f says of each key.
Holds(keys, values, n, f) ==
  /\ \A s \in 0 .. n - 1 : keys[s] \in Keys => values[s] = f[keys[s]]
  /\ \A k \in Keys : (\A s \in 0 .. n - 1 : keys[s] # k) => f[k] = NULL

\* What the proofs assume of the constants: null and the sentinel are different
\* and no keys, hash codes are integers, and the capacity is a power of two.
DartMapConstants ==
  /\ NULL \notin Keys /\ _DELETED_KEY \notin Keys /\ NULL # _DELETED_KEY
  /\ Hashes \subseteq Int /\ PowerOfTwo(_INITIAL_CAPACITY)

\* What all searches start from.
Searching(keys, n, k) ==
  /\ NULL \notin Keys /\ _DELETED_KEY \notin Keys /\ NULL # _DELETED_KEY
  /\ hash \in [Keys -> Int] /\ PowerOfTwo(n) /\ k \in Keys
  /\ \E s \in 0 .. n - 1 : keys[s] = NULL

\* The length of a list, and the slots of its searches.
LEMMA LengthIs ==
  ASSUME NEW n, PowerOfTwo(n), NEW keys, DOMAIN keys = 0 .. n - 1
  PROVE  Length(keys) = n /\ \A k, i : Slot(keys, k, i) = SlotOf(n, k, i)
<1>1. n \in Nat \ {0}
  BY DEF PowerOfTwo
<1>2. Length(keys) = n
  <2>1. Cardinality(0 .. n - 1) = n
    BY <1>1, FS_Interval
  <2> QED BY <2>1 DEF Length
<1> QED BY <1>2, ZenonT(30) DEF Slot, SlotOf, Offset

\* The search for k ends at k or at an empty slot, and passes neither before.
LEMMA LastProbeLemma ==
  ASSUME NEW n, NEW keys, DOMAIN keys = 0 .. n - 1, NEW k, Searching(keys, n, k)
  PROVE  \E i \in 0 .. n - 1 :
           /\ LastProbe(keys, k) = i /\ SlotOf(n, k, i) \in 0 .. n - 1
           /\ keys[SlotOf(n, k, i)] \in {NULL, k}
           /\ \A j \in 0 .. i - 1 : keys[SlotOf(n, k, j)] \notin {NULL, k}
<1> DEFINE Stops(i) == keys[Slot(keys, k, i)] \in {NULL, k}
           First(i) == Stops(i) /\ \A j \in 0 .. i - 1 : ~Stops(j)
           S == {i \in 0 .. n - 1 : Stops(i)}
<1>1. n \in Nat \ {0} /\ PowerOfTwo(n) /\ k \in Keys /\ hash \in [Keys -> Int]
  BY DEF Searching, PowerOfTwo
<1>2. Length(keys) = n /\ \A i : Slot(keys, k, i) = SlotOf(n, k, i)
  BY <1>1, LengthIs
<1>3. /\ \A i \in 0 .. n - 1 : SlotOf(n, k, i) \in 0 .. n - 1
      /\ \A s \in 0 .. n - 1 : \E i \in 0 .. n - 1 : SlotOf(n, k, i) = s
  BY <1>1, QuadraticProbing, ZenonT(30)
<1>4. S # {} /\ S \subseteq Nat
  <2>1. PICK s \in 0 .. n - 1 : keys[s] = NULL
    BY DEF Searching
  <2>2. PICK i \in 0 .. n - 1 : SlotOf(n, k, i) = s
    BY <1>3
  <2>3. i \in S
    BY <1>2, <2>1, <2>2, ZenonT(30)
  <2>4. S \subseteq Nat
    BY <1>1
  <2> QED BY <2>3, <2>4
<1>5. PICK i \in S : \A j \in S : i <= j
  <2> HIDE DEF S
  <2> QED BY <1>4, LeastNat, ZenonT(30)
<1>6. i \in 0 .. n - 1 /\ First(i)
  <2>1. i \in 0 .. n - 1 /\ Stops(i)
    BY <1>5
  <2>2. ASSUME NEW j \in 0 .. i - 1, Stops(j) PROVE FALSE
    <3>1. j \in 0 .. n - 1 /\ ~(i <= j)
      BY <1>1, <2>1
    <3>2. j \in S
      BY <2>2, <3>1, ZenonT(30)
    <3> QED BY <1>5, <3>1, <3>2, ZenonT(30)
  <2> QED BY <2>1, <2>2, ZenonT(30)
<1> DEFINE d == CHOOSE x \in 0 .. n - 1 : First(x)
<1>7. d \in 0 .. n - 1 /\ First(d)
  BY <1>6, ZenonT(30)
<1>8. LastProbe(keys, k) = d
  BY <1>2, ZenonT(30) DEF LastProbe
<1> HIDE DEF d
<1>9. keys[SlotOf(n, k, d)] \in {NULL, k}
  BY <1>2, <1>7, ZenonT(30)
<1>10. \A j \in 0 .. d - 1 : keys[SlotOf(n, k, j)] \notin {NULL, k}
  BY <1>2, <1>7, ZenonT(30)
<1> QED BY <1>3, <1>7, <1>8, <1>9, <1>10

\* The search ends at the slot of k, or at an empty one if k has none.
LEMMA FindsSlot ==
  ASSUME NEW n, NEW keys, NEW values, DartTable(keys, values, n), NEW k, Searching(keys, n, k)
  PROVE  \E i \in 0 .. n - 1 :
           /\ LastProbe(keys, k) = i /\ SlotOf(n, k, i) \in 0 .. n - 1
           /\ keys[SlotOf(n, k, i)] \in {NULL, k}
           /\ \A j \in 0 .. i - 1 : keys[SlotOf(n, k, j)] # NULL
           /\ keys[SlotOf(n, k, i)] = NULL => \A t \in 0 .. n - 1 : keys[t] # k
<1>1. DOMAIN keys = 0 .. n - 1
  BY DEF DartTable
<1>2. PICK i \in 0 .. n - 1 :
        /\ LastProbe(keys, k) = i /\ SlotOf(n, k, i) \in 0 .. n - 1
        /\ keys[SlotOf(n, k, i)] \in {NULL, k}
        /\ \A j \in 0 .. i - 1 : keys[SlotOf(n, k, j)] \notin {NULL, k}
  BY <1>1, LastProbeLemma, ZenonT(30)
<1>3. ASSUME keys[SlotOf(n, k, i)] = NULL, NEW t \in 0 .. n - 1, keys[t] = k PROVE FALSE
  <2>1. k \in Keys /\ k # NULL /\ n \in Nat \ {0}
    BY DEF Searching, PowerOfTwo
  <2>2. PICK e \in 0 .. n - 1 :
          SlotOf(n, k, e) = t /\ \A j \in 0 .. e - 1 : keys[SlotOf(n, k, j)] # NULL
    BY <1>3, <2>1 DEF DartTable, OnPath
  <2>3. ~(i \in 0 .. e - 1)
    BY <1>3, <2>2
  <2>4. ~(e \in 0 .. i - 1)
    BY <1>2, <1>3, <2>2
  <2>5. e = i
    BY <2>1, <2>3, <2>4
  <2> QED BY <1>3, <2>1, <2>2, <2>5
<1> QED BY <1>2, <1>3

\* _probeForAdding: the slot of k, or a slot without a key to which k has a way.
LEMMA AddingLemma ==
  ASSUME NEW n, NEW keys, NEW values, DartTable(keys, values, n), NEW k, Searching(keys, n, k)
  PROVE  \E s \in 0 .. n - 1 :
           /\ probeForAdding(keys, k) = s /\ OnPath(keys, n, k, s)
           /\ keys[s] \in {NULL, _DELETED_KEY, k}
           /\ keys[s] # k => \A t \in 0 .. n - 1 : keys[t] # k
<1>1. DOMAIN keys = 0 .. n - 1 /\ n \in Nat \ {0} /\ PowerOfTwo(n) /\ k \in Keys /\ hash \in [Keys -> Int]
  BY DEF DartTable, Searching, PowerOfTwo
<1>2. \A i : Slot(keys, k, i) = SlotOf(n, k, i)
  BY <1>1, LengthIs
<1>3. PICK last \in 0 .. n - 1 :
        /\ LastProbe(keys, k) = last /\ SlotOf(n, k, last) \in 0 .. n - 1
        /\ keys[SlotOf(n, k, last)] \in {NULL, k}
        /\ \A j \in 0 .. last - 1 : keys[SlotOf(n, k, j)] # NULL
        /\ keys[SlotOf(n, k, last)] = NULL => \A t \in 0 .. n - 1 : keys[t] # k
  BY FindsSlot
<1> DEFINE deleted == {i \in 0 .. last : keys[SlotOf(n, k, i)] = _DELETED_KEY}
           first == CHOOSE i \in deleted : \A j \in deleted : i <= j
<1>4. probeForAdding(keys, k) =
        IF keys[SlotOf(n, k, last)] = k \/ deleted = {} THEN SlotOf(n, k, last)
        ELSE SlotOf(n, k, first)
  <2> DEFINE l == LastProbe(keys, k)
             D == {i \in 0 .. l : keys[Slot(keys, k, i)] = _DELETED_KEY}
  <2>1. probeForAdding(keys, k) = IF keys[Slot(keys, k, l)] = k \/ D = {} THEN Slot(keys, k, l)
                                  ELSE Slot(keys, k, CHOOSE i \in D : \A j \in D : i <= j)
    BY DEF probeForAdding
  <2>2. l = last /\ D = deleted
    BY <1>2, <1>3
  <2> HIDE DEF D, l, deleted
  <2> QED BY <1>2, <2>1, <2>2
<1>5. CASE keys[SlotOf(n, k, last)] = k \/ deleted = {}
  <2>1. probeForAdding(keys, k) = SlotOf(n, k, last)
    <3> HIDE DEF deleted, first
    <3> QED BY <1>4, <1>5
  <2>2. OnPath(keys, n, k, SlotOf(n, k, last))
    BY <1>3 DEF OnPath
  <2>3. keys[SlotOf(n, k, last)] # k => \A t \in 0 .. n - 1 : keys[t] # k
    BY <1>3
  <2> HIDE DEF deleted
  <2> QED BY <1>3, <2>1, <2>2, <2>3
<1>6. CASE ~(keys[SlotOf(n, k, last)] = k \/ deleted = {})
  <2>1. probeForAdding(keys, k) = SlotOf(n, k, first)
    <3> HIDE DEF deleted, first
    <3> QED BY <1>4, <1>6
  <2>2. deleted # {} /\ deleted \subseteq Nat
    BY <1>1, <1>6
  <2>3. first \in deleted
    <3> HIDE DEF deleted
    <3>1. \E i \in deleted : \A j \in deleted : i <= j
      BY <2>2, LeastNat, ZenonT(30)
    <3> QED BY <3>1, ZenonT(30)
  <2> HIDE DEF first
  <2>4. /\ first \in 0 .. n - 1 /\ first <= last /\ keys[SlotOf(n, k, first)] = _DELETED_KEY
    BY <1>1, <1>3, <2>3
  <2>5. \A j \in 0 .. first - 1 : keys[SlotOf(n, k, j)] # NULL
    BY <1>1, <1>3, <2>4
  <2>6. OnPath(keys, n, k, SlotOf(n, k, first))
    BY <2>4, <2>5 DEF OnPath
  <2>7. SlotOf(n, k, first) \in 0 .. n - 1
    BY <1>1, <2>4, QuadraticProbing
  <2>8. \A t \in 0 .. n - 1 : keys[t] # k
    <3> HIDE DEF deleted
    <3> QED BY <1>3, <1>6
  <2> QED BY <2>1, <2>4, <2>6, <2>7, <2>8
<1> HIDE DEF deleted
<1> QED BY <1>5, <1>6

\* Adding to a list is a change of one slot.
Replace(list, s, x) == [list EXCEPT ![s] = x]

\* Where no slot becomes empty every way stays open.
LEMMA PathKept ==
  ASSUME hash \in [Keys -> Int], NEW n, PowerOfTwo(n), NEW keys, NEW keys2,
         \A t \in 0 .. n - 1 : keys[t] # NULL => keys2[t] # NULL,
         NEW c \in Keys, NEW s, OnPath(keys, n, c, s)
  PROVE  OnPath(keys2, n, c, s)
<1>1. PICK i \in 0 .. n - 1 :
        SlotOf(n, c, i) = s /\ \A j \in 0 .. i - 1 : keys[SlotOf(n, c, j)] # NULL
  BY DEF OnPath
<1>2. ASSUME NEW j \in 0 .. i - 1 PROVE keys2[SlotOf(n, c, j)] # NULL
  <2>1. n \in Nat /\ j \in 0 .. n - 1
    BY <1>1 DEF PowerOfTwo
  <2>2. SlotOf(n, c, j) \in 0 .. n - 1
    BY <2>1, QuadraticProbing
  <2> QED BY <1>1, <2>2
<1> QED BY <1>1, <1>2 DEF OnPath

\* k and v are added at a slot without a key to which k has a way.
LEMMA AddKey ==
  ASSUME NULL \notin Keys, _DELETED_KEY \notin Keys, NULL # _DELETED_KEY,
         hash \in [Keys -> Int], NEW n, PowerOfTwo(n),
         NEW keys, NEW values, DartTable(keys, values, n),
         NEW k \in Keys, NEW v \in Values \cup {NULL}, NEW s \in 0 .. n - 1,
         OnPath(keys, n, k, s), keys[s] \notin Keys, \A t \in 0 .. n - 1 : keys[t] # k,
         NEW keys2, keys2 = Replace(keys, s, k), NEW values2, values2 = Replace(values, s, v)
  PROVE  /\ DartTable(keys2, values2, n)
         /\ s \notin Live(keys) /\ Live(keys2) = Live(keys) \cup {s}
         /\ Deleted(keys2) = Deleted(keys) \ {s}
         /\ \A t \in 0 .. n - 1 : /\ keys2[t] = IF t = s THEN k ELSE keys[t]
                                  /\ values2[t] = IF t = s THEN v ELSE values[t]
<1>1. /\ keys \in [0 .. n - 1 -> Keys \cup {NULL, _DELETED_KEY}] /\ DOMAIN keys = 0 .. n - 1
      /\ values \in [0 .. n - 1 -> Values \cup {NULL}] /\ DOMAIN values = 0 .. n - 1
  BY DEF DartTable
<1>2. /\ keys2 \in [0 .. n - 1 -> Keys \cup {NULL, _DELETED_KEY}] /\ DOMAIN keys2 = 0 .. n - 1
      /\ values2 \in [0 .. n - 1 -> Values \cup {NULL}]
  BY <1>1 DEF Replace
<1>3. \A t \in 0 .. n - 1 : /\ keys2[t] = IF t = s THEN k ELSE keys[t]
                            /\ values2[t] = IF t = s THEN v ELSE values[t]
  BY <1>1 DEF Replace
<1>4. s \notin Live(keys) /\ Live(keys2) = Live(keys) \cup {s}
  BY <1>1, <1>2, <1>3 DEF Live
<1>5. Deleted(keys2) = Deleted(keys) \ {s}
  BY <1>1, <1>2, <1>3 DEF Deleted
<1>6. \A t, u \in 0 .. n - 1 : keys2[t] \in Keys /\ keys2[t] = keys2[u] => t = u
  BY <1>3 DEF DartTable
<1>7. ASSUME NEW c \in Keys, NEW t, OnPath(keys, n, c, t) PROVE OnPath(keys2, n, c, t)
  <2>1. \A u \in 0 .. n - 1 : keys[u] # NULL => keys2[u] # NULL
    BY <1>3
  <2> QED BY <1>7, <2>1, PathKept
<1>8. ASSUME NEW t \in 0 .. n - 1, keys2[t] \in Keys PROVE OnPath(keys2, n, keys2[t], t)
  <2>1. CASE t = s
    BY <1>3, <1>7, <2>1
  <2>2. CASE t # s
    <3>1. keys2[t] = keys[t] /\ keys[t] \in Keys
      BY <1>3, <1>8, <2>2
    <3>2. OnPath(keys, n, keys[t], t)
      BY <3>1 DEF DartTable
    <3> QED BY <1>7, <3>1, <3>2
  <2> QED BY <2>1, <2>2
<1>9. DartTable(keys2, values2, n)
  BY <1>2, <1>6, <1>8 DEF DartTable
<1> QED BY <1>3, <1>4, <1>5, <1>9

\* The key k at the slot s is deleted.
LEMMA DeleteKey ==
  ASSUME NULL \notin Keys, _DELETED_KEY \notin Keys, NULL # _DELETED_KEY,
         hash \in [Keys -> Int], NEW n, PowerOfTwo(n),
         NEW keys, NEW values, DartTable(keys, values, n), NEW s \in 0 .. n - 1, keys[s] \in Keys,
         NEW keys2, keys2 = Replace(keys, s, _DELETED_KEY),
         NEW values2, values2 = Replace(values, s, NULL)
  PROVE  /\ DartTable(keys2, values2, n)
         /\ s \in Live(keys) /\ Live(keys2) = Live(keys) \ {s}
         /\ s \notin Deleted(keys) /\ Deleted(keys2) = Deleted(keys) \cup {s}
         /\ \A t \in 0 .. n - 1 : /\ keys2[t] = IF t = s THEN _DELETED_KEY ELSE keys[t]
                                  /\ values2[t] = IF t = s THEN NULL ELSE values[t]
<1>1. /\ keys \in [0 .. n - 1 -> Keys \cup {NULL, _DELETED_KEY}] /\ DOMAIN keys = 0 .. n - 1
      /\ values \in [0 .. n - 1 -> Values \cup {NULL}] /\ DOMAIN values = 0 .. n - 1
  BY DEF DartTable
<1>2. /\ keys2 \in [0 .. n - 1 -> Keys \cup {NULL, _DELETED_KEY}] /\ DOMAIN keys2 = 0 .. n - 1
      /\ values2 \in [0 .. n - 1 -> Values \cup {NULL}]
  BY <1>1 DEF Replace
<1>3. \A t \in 0 .. n - 1 : /\ keys2[t] = IF t = s THEN _DELETED_KEY ELSE keys[t]
                            /\ values2[t] = IF t = s THEN NULL ELSE values[t]
  BY <1>1 DEF Replace
<1>4. s \in Live(keys) /\ Live(keys2) = Live(keys) \ {s}
  BY <1>1, <1>2, <1>3 DEF Live
<1>5. s \notin Deleted(keys) /\ Deleted(keys2) = Deleted(keys) \cup {s}
  BY <1>1, <1>2, <1>3 DEF Deleted
<1>6. \A t, u \in 0 .. n - 1 : keys2[t] \in Keys /\ keys2[t] = keys2[u] => t = u
  BY <1>3 DEF DartTable
<1>7. ASSUME NEW t \in 0 .. n - 1, keys2[t] \in Keys PROVE OnPath(keys2, n, keys2[t], t)
  <2>1. keys2[t] = keys[t] /\ keys[t] \in Keys
    BY <1>3, <1>7
  <2>2. OnPath(keys, n, keys[t], t)
    BY <2>1 DEF DartTable
  <2>3. \A u \in 0 .. n - 1 : keys[u] # NULL => keys2[u] # NULL
    BY <1>3
  <2> QED BY <2>1, <2>2, <2>3, PathKept
<1>8. DartTable(keys2, values2, n)
  BY <1>2, <1>6, <1>7 DEF DartTable
<1> QED BY <1>3, <1>4, <1>5, <1>8

\* A key of the table gets a new value.
LEMMA SetValue ==
  ASSUME NEW n, NEW keys, NEW values, DartTable(keys, values, n), NEW s \in 0 .. n - 1,
         NEW v \in Values \cup {NULL},
         NEW keys2, keys2 = Replace(keys, s, keys[s]),
         NEW values2, values2 = Replace(values, s, v)
  PROVE  /\ keys2 = keys /\ DartTable(keys2, values2, n)
         /\ \A t \in 0 .. n - 1 : values2[t] = IF t = s THEN v ELSE values[t]
<1>1. /\ keys \in [0 .. n - 1 -> Keys \cup {NULL, _DELETED_KEY}]
      /\ values \in [0 .. n - 1 -> Values \cup {NULL}]
  BY DEF DartTable
<1>2. /\ keys2 = keys /\ values2 \in [0 .. n - 1 -> Values \cup {NULL}]
      /\ \A t \in 0 .. n - 1 : values2[t] = IF t = s THEN v ELSE values[t]
  BY <1>1 DEF Replace
<1> QED BY <1>2 DEF DartTable

\* A table with fewer keys and deleted slots than slots has an empty one.
LEMMA FreeSlot ==
  ASSUME NEW n, PowerOfTwo(n), NEW keys, NEW values, DartTable(keys, values, n)
  PROVE  /\ IsFiniteSet(Live(keys)) /\ Cardinality(Live(keys)) \in Nat
         /\ IsFiniteSet(Deleted(keys)) /\ Cardinality(Deleted(keys)) \in Nat
         /\ Cardinality(Live(keys)) + Cardinality(Deleted(keys)) < n =>
              \E s \in 0 .. n - 1 : keys[s] = NULL
<1>1. n \in Nat \ {0} /\ keys \in [0 .. n - 1 -> Keys \cup {NULL, _DELETED_KEY}] /\ DOMAIN keys = 0 .. n - 1
  BY DEF DartTable, PowerOfTwo
<1>2. IsFiniteSet(0 .. n - 1) /\ Cardinality(0 .. n - 1) = n
  BY <1>1, FS_Interval
<1>3. Live(keys) \subseteq 0 .. n - 1 /\ Deleted(keys) \subseteq 0 .. n - 1
  BY <1>1 DEF Live, Deleted
<1>4. IsFiniteSet(Live(keys)) /\ IsFiniteSet(Deleted(keys))
  BY <1>2, <1>3, FS_Subset, ZenonT(30)
<1>5. Cardinality(Live(keys)) \in Nat /\ Cardinality(Deleted(keys)) \in Nat
  BY <1>4, FS_CardinalityType
<1>6. ASSUME Cardinality(Live(keys)) + Cardinality(Deleted(keys)) < n,
             \A s \in 0 .. n - 1 : keys[s] # NULL
      PROVE  FALSE
  <2>1. 0 .. n - 1 = Live(keys) \cup Deleted(keys)
    BY <1>1, <1>3, <1>6 DEF Live, Deleted
  <2>2. IsFiniteSet(Live(keys) \cap Deleted(keys))
    BY <1>4, FS_Intersection
  <2>3. Cardinality(Live(keys) \cap Deleted(keys)) \in Nat
    BY <2>2, FS_CardinalityType
  <2>4. n = Cardinality(Live(keys)) + Cardinality(Deleted(keys)) - Cardinality(Live(keys) \cap Deleted(keys))
    BY <1>2, <1>4, <2>1, FS_Union, ZenonT(30)
  <2> QED BY <1>1, <1>5, <1>6, <2>3, <2>4
<1> QED BY <1>4, <1>5, <1>6

\* New lists have no keys.
LEMMA EmptyLists ==
  ASSUME NULL \notin Keys, NULL # _DELETED_KEY, NEW n
  PROVE  /\ DartTable(EmptyList(n), EmptyList(n), n)
         /\ Live(EmptyList(n)) = {} /\ Deleted(EmptyList(n)) = {}
         /\ \A s \in 0 .. n - 1 : EmptyList(n)[s] = NULL
<1> DEFINE e == EmptyList(n)
<1>1. /\ DOMAIN e = 0 .. n - 1 /\ \A s \in 0 .. n - 1 : e[s] = NULL
      /\ e \in [0 .. n - 1 -> Keys \cup {NULL, _DELETED_KEY}] /\ e \in [0 .. n - 1 -> Values \cup {NULL}]
  BY DEF EmptyList
<1> HIDE DEF e
<1>2. DartTable(e, e, n)
  BY <1>1 DEF DartTable
<1>3. Live(e) = {} /\ Deleted(e) = {}
  BY <1>1 DEF Live, Deleted
<1> QED BY <1>1, <1>2, <1>3 DEF e

-----------------------------------------------------------------------------
(* The map of Dart: _grow.                                                 *)

\* The lists t after one turn of the loop, at the slot with the key k.
Copied(t, k, v) ==
  IF k \in {NULL, _DELETED_KEY} THEN t
  ELSE [keys |-> Replace(t.keys, probeForAdding(t.keys, k), k),
        values |-> Replace(t.values, probeForAdding(t.keys, k), v)]

\* What the function `filled' of grow is, slot by slot.
Copies(f, keys, values, m, n) ==
  /\ f[0] = [keys |-> EmptyList(n), values |-> EmptyList(n)]
  /\ \A i \in 1 .. m : f[i] = Copied(f[i - 1], keys[i - 1], values[i - 1])

\* There are such lists, and the last ones are what grow builds.
LEMMA GrowSteps ==
  ASSUME NEW m, PowerOfTwo(m), NEW keys, NEW values, DartTable(keys, values, m), NEW n
  PROVE  \E f : grow(keys, values, n) = f[m] /\ Copies(f, keys, values, m, n)
<1> DEFINE V == [keys : [0 .. n - 1 -> Keys \cup {NULL, _DELETED_KEY}],
                 values : [0 .. n - 1 -> Values \cup {NULL}]]
           z == [keys |-> EmptyList(n), values |-> EmptyList(n)]
           Defines(f) == f = [i \in 0 .. m |-> IF i = 0 THEN z ELSE Copied(f[i - 1], keys[i - 1], values[i - 1])]
           step == [i \in 1 .. m |-> [t \in V |-> Copied(t, keys[i - 1], values[i - 1])]]
<1>1. /\ m \in Nat /\ keys \in [0 .. m - 1 -> Keys \cup {NULL, _DELETED_KEY}]
      /\ values \in [0 .. m - 1 -> Values \cup {NULL}] /\ DOMAIN keys = 0 .. m - 1 /\ Length(keys) = m
  <2>1. DOMAIN keys = 0 .. m - 1
    BY DEF DartTable
  <2>2. Length(keys) = m
    BY <2>1, LengthIs
  <2> QED BY <2>1, <2>2 DEF DartTable, PowerOfTwo
<1>2. z \in V
  BY DEF EmptyList
<1>3. ASSUME NEW t \in V, NEW i \in 1 .. m PROVE Copied(t, keys[i - 1], values[i - 1]) \in V
  <2>1. i - 1 \in 0 .. m - 1
    BY <1>1
  <2>2. PICK k \in Keys \cup {NULL, _DELETED_KEY}, v \in Values \cup {NULL} : k = keys[i - 1] /\ v = values[i - 1]
    BY <1>1, <2>1
  <2>3. PICK s : s = probeForAdding(t.keys, k)
    OBVIOUS
  <2>4. /\ Replace(t.keys, s, k) \in [0 .. n - 1 -> Keys \cup {NULL, _DELETED_KEY}]
        /\ Replace(t.values, s, v) \in [0 .. n - 1 -> Values \cup {NULL}]
    BY ZenonT(30) DEF Replace
  <2>5. Copied(t, k, v) \in V
    BY <2>3, <2>4 DEF Copied
  <2> HIDE DEF V
  <2> QED BY <2>2, <2>5
<1>4. step \in [1 .. m -> [V -> V]]
  <2> HIDE DEF V
  <2> QED BY <1>3
<1>5. \A t \in V, i \in 1 .. m : step[i][t] = Copied(t, keys[i - 1], values[i - 1])
  <2> HIDE DEF V
  <2> QED OBVIOUS
<1>6. PICK f \in [0 .. m -> V] : f[0] = z /\ \A i \in 1 .. m : f[i] = step[i][f[i - 1]]
  <2> HIDE DEF V, step, z
  <2>1. \E f : Iterates(f, m, V, z, step)
    BY <1>1, <1>2, <1>4, RecursionExists
  <2> QED BY <2>1, ZenonT(30) DEF Iterates
<1>7. \A i \in 1 .. m : f[i] = Copied(f[i - 1], keys[i - 1], values[i - 1])
  <2> SUFFICES ASSUME NEW i \in 1 .. m PROVE f[i] = Copied(f[i - 1], keys[i - 1], values[i - 1])
    OBVIOUS
  <2> HIDE DEF V, step, z
  <2>1. i - 1 \in 0 .. m
    BY <1>1
  <2>2. f[i - 1] \in V
    BY <1>6, <2>1
  <2> QED BY <1>5, <1>6, <2>2
<1>8. Defines(f)
  <2> HIDE DEF V, step, z
  <2>1. ASSUME NEW i \in 0 .. m
        PROVE  f[i] = IF i = 0 THEN z ELSE Copied(f[i - 1], keys[i - 1], values[i - 1])
    <3>1. CASE i = 0
      BY <1>6, <3>1
    <3>2. CASE i # 0
      <4>1. i \in 1 .. m
        BY <1>1, <3>2
      <4> QED BY <1>7, <3>2, <4>1
    <3> QED BY <3>1, <3>2
  <2> QED BY <1>6, <2>1
<1> DEFINE g == CHOOSE h : Defines(h)
<1>9. Defines(g)
  <2> HIDE DEF Defines
  <2> QED BY <1>8, ZenonT(30)
<1>10. grow(keys, values, n) = g[m]
  BY <1>1, ZenonT(30) DEF grow, Copied, Replace
<1> HIDE DEF g, z
<1>11. g[0] = z /\ \A i \in 1 .. m : g[i] = Copied(g[i - 1], keys[i - 1], values[i - 1])
  <2>1. \A i \in 0 .. m : g[i] = IF i = 0 THEN z ELSE Copied(g[i - 1], keys[i - 1], values[i - 1])
    BY <1>9, ZenonT(30)
  <2>2. 0 \in 0 .. m /\ \A i \in 1 .. m : i \in 0 .. m /\ i # 0
    BY <1>1
  <2> QED BY <2>1, <2>2, ZenonT(30)
<1> QED BY <1>10, <1>11, ZenonT(30) DEF Copies, z

\* The entries of the slots J are those of another table.
SameEntries(keys, values, J, keys2, values2, n) ==
  /\ \A s \in 0 .. n - 1 : keys2[s] \in Keys => \E j \in J : keys2[s] = keys[j] /\ values2[s] = values[j]
  /\ \A j \in J : \E s \in 0 .. n - 1 : keys2[s] = keys[j]

\* The new lists have the same entries and no deleted slots.
LEMMA GrowLemma ==
  ASSUME NULL \notin Keys, _DELETED_KEY \notin Keys, NULL # _DELETED_KEY,
         hash \in [Keys -> Int], NEW m, PowerOfTwo(m),
         NEW keys, NEW values, DartTable(keys, values, m),
         NEW n, PowerOfTwo(n), Cardinality(Live(keys)) < n,
         NEW g, g = grow(keys, values, n)
  PROVE  /\ DartTable(g.keys, g.values, n) /\ Deleted(g.keys) = {}
         /\ Cardinality(Live(g.keys)) = Cardinality(Live(keys))
         /\ SameEntries(keys, values, Live(keys), g.keys, g.values, n)
<1>1. PICK f : g = f[m] /\ Copies(f, keys, values, m, n)
  BY GrowSteps
<1> DEFINE Before(i) == {j \in Live(keys) : j < i}
           Done(i) == /\ DartTable(f[i].keys, f[i].values, n) /\ Deleted(f[i].keys) = {}
                      /\ Cardinality(Live(f[i].keys)) = Cardinality(Before(i))
                      /\ SameEntries(keys, values, Before(i), f[i].keys, f[i].values, n)
           S == {i \in 0 .. m : Done(i)}
<1>2. /\ m \in Nat /\ n \in Nat \ {0} /\ Live(keys) \subseteq 0 .. m - 1
      /\ \A j \in 0 .. m - 1 : /\ keys[j] \in Keys \cup {NULL, _DELETED_KEY} /\ values[j] \in Values \cup {NULL}
                               /\ j \in Live(keys) <=> keys[j] \in Keys
      /\ \A i, j \in Live(keys) : keys[i] = keys[j] => i = j
      /\ IsFiniteSet(Live(keys)) /\ Cardinality(Live(keys)) \in Nat
  <2>1. m \in Nat /\ n \in Nat \ {0}
    BY DEF PowerOfTwo
  <2>2. /\ keys \in [0 .. m - 1 -> Keys \cup {NULL, _DELETED_KEY}] /\ DOMAIN keys = 0 .. m - 1
        /\ values \in [0 .. m - 1 -> Values \cup {NULL}]
    BY DEF DartTable
  <2>3. /\ Live(keys) \subseteq 0 .. m - 1
        /\ \A j \in 0 .. m - 1 : j \in Live(keys) <=> keys[j] \in Keys
    BY <2>2 DEF Live
  <2>4. \A i, j \in Live(keys) : keys[i] = keys[j] => i = j
    BY <2>3 DEF DartTable
  <2>5. IsFiniteSet(Live(keys)) /\ Cardinality(Live(keys)) \in Nat
    BY FreeSlot
  <2> QED BY <2>1, <2>2, <2>3, <2>4, <2>5
<1>3. 0 \in S
  <2>1. Before(0) = {}
    BY <1>2
  <2>2. f[0].keys = EmptyList(n) /\ f[0].values = EmptyList(n)
    BY <1>1 DEF Copies
  <2>3. /\ DartTable(f[0].keys, f[0].values, n) /\ Live(f[0].keys) = {} /\ Deleted(f[0].keys) = {}
        /\ \A s \in 0 .. n - 1 : f[0].keys[s] = NULL
    BY <2>2, EmptyLists
  <2>4. SameEntries(keys, values, {}, f[0].keys, f[0].values, n)
    BY <2>3 DEF SameEntries
  <2>5. 0 \in 0 .. m
    BY <1>2
  <2> HIDE DEF Before
  <2>6. Done(0)
    BY <2>1, <2>3, <2>4
  <2> HIDE DEF Done
  <2> QED BY <2>5, <2>6
<1>4. ASSUME NEW i \in 0 .. m - 1, i \in S PROVE i + 1 \in S
  <2>1. i + 1 \in 1 .. m /\ i + 1 \in 0 .. m /\ (i + 1) - 1 = i
    BY <1>2
  <2>2. f[i + 1] = Copied(f[i], keys[i], values[i])
    BY <1>1, <2>1 DEF Copies
  <2>3. CASE keys[i] \notin Keys
    <3>1. Before(i + 1) = Before(i)
      BY <1>2, <2>3
    <3>2. f[i + 1] = f[i]
      BY <1>2, <2>2, <2>3 DEF Copied
    <3> HIDE DEF Before
    <3> QED BY <1>4, <2>1, <3>1, <3>2
  <2>4. CASE keys[i] \in Keys
    <3> DEFINE a == f[i].keys
               b == f[i].values
               a2 == f[i + 1].keys
               b2 == f[i + 1].values
               k == keys[i]
               v == values[i]
    <3>1. i \in Live(keys) /\ Before(i + 1) = Before(i) \cup {i} /\ i \notin Before(i)
      BY <1>2, <2>4
    <3>2. /\ Before(i) \subseteq Live(keys) /\ IsFiniteSet(Before(i))
          /\ Cardinality(Before(i)) \in Nat /\ Cardinality(Before(i)) < n
      <4>1. Before(i) \subseteq Live(keys)
        OBVIOUS
      <4> HIDE DEF Before
      <4>2. IsFiniteSet(Before(i)) /\ Cardinality(Before(i)) <= Cardinality(Live(keys))
        BY <1>2, <4>1, FS_Subset
      <4>3. Cardinality(Before(i)) \in Nat
        BY <4>2, FS_CardinalityType
      <4> QED BY <1>2, <4>1, <4>2, <4>3
    <3>3. /\ DartTable(a, b, n) /\ Deleted(a) = {} /\ Cardinality(Live(a)) = Cardinality(Before(i))
          /\ SameEntries(keys, values, Before(i), a, b, n)
      BY <1>4
    <3>4. k \in Keys /\ v \in Values \cup {NULL}
      BY <1>2, <2>4
    <3> HIDE DEF Before, a, b, k, v
    <3>5. \E s \in 0 .. n - 1 : a[s] = NULL
      <4>1. Cardinality(Deleted(a)) = 0
        BY <3>3, FS_EmptySet
      <4>2. Cardinality(Live(a)) + Cardinality(Deleted(a)) < n
        BY <3>2, <3>3, <4>1
      <4> QED BY <3>3, <4>2, FreeSlot
    <3>6. Searching(a, n, k)
      BY <3>4, <3>5 DEF Searching
    <3>7. PICK s \in 0 .. n - 1 :
            /\ probeForAdding(a, k) = s /\ OnPath(a, n, k, s)
            /\ a[s] \in {NULL, _DELETED_KEY, k}
            /\ a[s] # k => \A t \in 0 .. n - 1 : a[t] # k
      BY <3>3, <3>6, AddingLemma
    <3>8. a[s] # k
      <4> SUFFICES ASSUME a[s] = k PROVE FALSE
        OBVIOUS
      <4>1. PICK j \in Before(i) : a[s] = keys[j]
        BY <3>3, <3>4 DEF SameEntries
      <4>2. j = i
        BY <1>2, <3>1, <3>2, <4>1, ZenonT(30) DEF k
      <4> QED BY <3>1, <4>1, <4>2
    <3>9. a2 = Replace(a, s, k) /\ b2 = Replace(b, s, v)
      <4>1. k \notin {NULL, _DELETED_KEY}
        BY <3>4
      <4> QED BY <2>2, <3>7, <4>1 DEF Copied, a, b, k, v
    <3> HIDE DEF a2, b2
    <3>10. /\ DartTable(a2, b2, n)
           /\ s \notin Live(a) /\ Live(a2) = Live(a) \cup {s}
           /\ Deleted(a2) = Deleted(a) \ {s}
           /\ \A t \in 0 .. n - 1 : /\ a2[t] = IF t = s THEN k ELSE a[t]
                                    /\ b2[t] = IF t = s THEN v ELSE b[t]
      <4>1. a[s] \notin Keys /\ \A t \in 0 .. n - 1 : a[t] # k
        BY <3>7, <3>8
      <4>2. DartTable(a, b, n) /\ OnPath(a, n, k, s)
        BY <3>3, <3>7
      <4> QED BY <3>4, <3>9, <4>1, <4>2, AddKey
    <3>11. Cardinality(Live(a2)) = Cardinality(Before(i + 1))
      <4>1. IsFiniteSet(Live(a))
        BY <3>3, FreeSlot
      <4>2. Cardinality(Live(a2)) = Cardinality(Live(a)) + 1
        BY <3>10, <4>1, FS_AddElement, ZenonT(30)
      <4>3. Cardinality(Before(i + 1)) = Cardinality(Before(i)) + 1
        BY <3>1, <3>2, FS_AddElement
      <4> QED BY <3>3, <4>2, <4>3
    <3>12. ASSUME NEW t \in 0 .. n - 1, a2[t] \in Keys
           PROVE  \E j \in Before(i + 1) : a2[t] = keys[j] /\ b2[t] = values[j]
      <4>1. CASE t = s
        BY <3>1, <3>10, <4>1 DEF k, v
      <4>2. CASE t # s
        <5>1. a2[t] = a[t] /\ b2[t] = b[t]
          BY <3>10, <4>2
        <5>2. PICK j \in Before(i) : a[t] = keys[j] /\ b[t] = values[j]
          BY <3>3, <3>12, <5>1 DEF SameEntries
        <5> QED BY <3>1, <5>1, <5>2
      <4> QED BY <4>1, <4>2
    <3>13. ASSUME NEW j \in Before(i + 1) PROVE \E t \in 0 .. n - 1 : a2[t] = keys[j]
      <4>1. CASE j = i
        BY <3>10, <4>1 DEF k
      <4>2. CASE j \in Before(i)
        <5>1. PICK t \in 0 .. n - 1 : a[t] = keys[j]
          BY <3>3, <4>2 DEF SameEntries
        <5>2. keys[j] \in Keys
          BY <1>2, <3>2, <4>2
        <5>3. t # s
          BY <3>7, <3>8, <5>1, <5>2
        <5> QED BY <3>10, <5>1, <5>3
      <4> QED BY <3>1, <4>1, <4>2
    <3>14. SameEntries(keys, values, Before(i + 1), a2, b2, n)
      BY <3>12, <3>13 DEF SameEntries
    <3>15. Deleted(a2) = {}
      BY <3>3, <3>10
    <3> QED BY <2>1, <3>10, <3>11, <3>14, <3>15 DEF a2, b2
  <2> QED BY <2>3, <2>4
<1>5. m \in S
  <2> HIDE DEF S
  <2>1. \A i \in 0 .. m : i \in S
    BY <1>2, <1>3, <1>4, SetInduction
  <2> QED BY <1>2, <2>1
<1>6. Before(m) = Live(keys)
  BY <1>2
<1> HIDE DEF Before
<1> QED BY <1>1, <1>5, <1>6

-----------------------------------------------------------------------------
(* The map of Dart: its operations.                                        *)

\* The inductive invariant: the lists are a table that holds what was last stored;
\* the entries are counted, the deleted slots at least, and both leave a slot empty.
DartMapInv ==
  /\ PowerOfTwo(Length(_keys)) /\ hash \in [Keys -> Int]
  /\ _stored \in [Keys -> Values \cup {NULL}]
  /\ DartTable(_keys, _values, Length(_keys))
  /\ _numberOfEntries = Cardinality(Live(_keys))
  /\ _numberOfDeleted \in Nat /\ Cardinality(Deleted(_keys)) <= _numberOfDeleted
  /\ Cardinality(Live(_keys)) + Cardinality(Deleted(_keys)) < Length(_keys)
  /\ Holds(_keys, _values, Length(_keys), _stored)

\* What the operations start from.
LEMMA DartMapTypes ==
  ASSUME DartMapConstants, DartMapInv
  PROVE  /\ NULL \notin Keys /\ _DELETED_KEY \notin Keys /\ NULL # _DELETED_KEY
         /\ Length(_keys) \in Nat \ {0} /\ PowerOfTwo(Length(_keys)) /\ hash \in [Keys -> Int]
         /\ _stored \in [Keys -> Values \cup {NULL}]
         /\ DartTable(_keys, _values, Length(_keys)) /\ DOMAIN _keys = 0 .. Length(_keys) - 1
         /\ IsFiniteSet(Live(_keys)) /\ Cardinality(Live(_keys)) \in Nat
         /\ IsFiniteSet(Deleted(_keys)) /\ Cardinality(Deleted(_keys)) \in Nat
         /\ \A k \in Keys : Searching(_keys, Length(_keys), k)
<1>1. /\ NULL \notin Keys /\ _DELETED_KEY \notin Keys /\ NULL # _DELETED_KEY
      /\ PowerOfTwo(Length(_keys)) /\ hash \in [Keys -> Int]
      /\ _stored \in [Keys -> Values \cup {NULL}] /\ DartTable(_keys, _values, Length(_keys))
      /\ Cardinality(Live(_keys)) + Cardinality(Deleted(_keys)) < Length(_keys)
  BY DEF DartMapConstants, DartMapInv
<1>2. Length(_keys) \in Nat \ {0}
  BY <1>1 DEF PowerOfTwo
<1>3. DOMAIN _keys = 0 .. Length(_keys) - 1
  BY <1>1 DEF DartTable
<1>4. /\ IsFiniteSet(Live(_keys)) /\ Cardinality(Live(_keys)) \in Nat
      /\ IsFiniteSet(Deleted(_keys)) /\ Cardinality(Deleted(_keys)) \in Nat
      /\ \E s \in 0 .. Length(_keys) - 1 : _keys[s] = NULL
  BY <1>1, FreeSlot
<1>5. \A k \in Keys : Searching(_keys, Length(_keys), k)
  BY <1>1, <1>4 DEF Searching
<1> QED BY <1>1, <1>2, <1>3, <1>4, <1>5

\* The invariant after a step that leaves lists of n slots.
LEMMA DartMapStep ==
  ASSUME DartMapConstants, DartMapInv, hash' = hash, NEW n, PowerOfTwo(n),
         NEW keys, NEW values, DartTable(keys, values, n), _keys' = keys, _values' = values,
         _numberOfEntries' = Cardinality(Live(keys)),
         _numberOfDeleted' \in Nat, Cardinality(Deleted(keys)) <= _numberOfDeleted',
         Cardinality(Live(keys)) + Cardinality(Deleted(keys)) < n,
         _stored' \in [Keys -> Values \cup {NULL}], Holds(keys, values, n, _stored')
  PROVE  DartMapInv'
<1>1. DOMAIN keys = 0 .. n - 1
  BY DEF DartTable
<1>2. Length(keys) = n
  BY <1>1, LengthIs
<1>3. Length(_keys)' = n
  BY <1>2 DEF Length
<1>4. hash' \in [Keys -> Int]
  BY DartMapTypes
<1>5. DartTable(_keys, _values, Length(_keys))'
  BY <1>3 DEF DartTable, OnPath, SlotOf
<1>6. Holds(_keys, _values, Length(_keys), _stored)'
  BY <1>3 DEF Holds
<1>7. (_numberOfEntries = Cardinality(Live(_keys)))'
  BY DEF Live
<1>8. (/\ Cardinality(Deleted(_keys)) <= _numberOfDeleted
       /\ Cardinality(Live(_keys)) + Cardinality(Deleted(_keys)) < Length(_keys))'
  BY <1>3 DEF Live, Deleted
<1>9. PowerOfTwo(Length(_keys))'
  BY <1>3 DEF PowerOfTwo
<1> QED BY <1>4, <1>5, <1>6, <1>7, <1>8, <1>9 DEF DartMapInv

\* The constructor establishes the invariant.
LEMMA InitDartMap ==
  ASSUME DartMapConstants, DartMapInit
  PROVE  DartMapInv
<1> DEFINE n == _INITIAL_CAPACITY
<1>1. /\ NULL \notin Keys /\ NULL # _DELETED_KEY /\ PowerOfTwo(n) /\ n \in Nat \ {0}
  BY DEF DartMapConstants, PowerOfTwo
<1>2. /\ _keys = EmptyList(n) /\ _values = EmptyList(n) /\ _numberOfEntries = 0 /\ _numberOfDeleted = 0
      /\ hash \in [Keys -> Int] /\ _stored = [k \in Keys |-> NULL]
  BY ZenonT(30) DEF DartMapInit, DartMapConstants
<1> HIDE DEF n
<1>3. /\ DartTable(_keys, _values, n) /\ Live(_keys) = {} /\ Deleted(_keys) = {}
      /\ \A s \in 0 .. n - 1 : _keys[s] = NULL
  BY <1>1, <1>2, EmptyLists
<1>4. Length(_keys) = n
  <2>1. DOMAIN _keys = 0 .. n - 1
    BY <1>3 DEF DartTable
  <2> QED BY <1>1, <2>1, LengthIs
<1>5. Holds(_keys, _values, n, _stored)
  BY <1>1, <1>2, <1>3 DEF Holds
<1>6. Cardinality(Live(_keys)) = 0 /\ Cardinality(Deleted(_keys)) = 0
  BY <1>3, FS_EmptySet
<1> QED BY <1>1, <1>2, <1>3, <1>4, <1>5, <1>6 DEF DartMapInv

\* clear keeps the lists and empties them.
LEMMA ClearDartMap ==
  ASSUME DartMapConstants, DartMapInv, clear
  PROVE  DartMapInv'
<1> PICK n : n = Length(_keys)
  OBVIOUS
<1>1. /\ NULL \notin Keys /\ NULL # _DELETED_KEY /\ PowerOfTwo(n) /\ n \in Nat \ {0}
  BY DartMapTypes
<1>2. /\ _keys' = EmptyList(n) /\ _values' = EmptyList(n) /\ _numberOfEntries' = 0 /\ _numberOfDeleted' = 0
      /\ hash' = hash /\ _stored' = [k \in Keys |-> NULL]
  BY DEF clear
<1>3. PICK e : e = EmptyList(n)
  OBVIOUS
<1>4. /\ DartTable(e, e, n) /\ Live(e) = {} /\ Deleted(e) = {}
      /\ \A s \in 0 .. n - 1 : e[s] = NULL
  BY <1>1, <1>3, EmptyLists
<1>5. Holds(e, e, n, _stored')
  BY <1>1, <1>2, <1>4 DEF Holds
<1>6. Cardinality(Live(e)) = 0 /\ Cardinality(Deleted(e)) = 0
  BY <1>4, FS_EmptySet
<1>7. _stored' \in [Keys -> Values \cup {NULL}]
  BY <1>2
<1>8. /\ _numberOfEntries' = Cardinality(Live(e)) /\ _numberOfDeleted' \in Nat
      /\ Cardinality(Deleted(e)) <= _numberOfDeleted' /\ Cardinality(Live(e)) + Cardinality(Deleted(e)) < n
      /\ _keys' = e /\ _values' = e
  BY <1>1, <1>2, <1>3, <1>6
<1> QED BY <1>1, <1>2, <1>4, <1>5, <1>7, <1>8, DartMapStep, ZenonT(30)

\* _probeForLookup: the slot of k, or -1 if it has none.
LEMMA LookupIs ==
  ASSUME DartMapConstants, DartMapInv, NEW k \in Keys
  PROVE  \/ /\ probeForLookup(k) \in 0 .. Length(_keys) - 1 /\ _keys[probeForLookup(k)] = k
         \/ /\ probeForLookup(k) = -1 /\ \A t \in 0 .. Length(_keys) - 1 : _keys[t] # k
<1> PICK n : n = Length(_keys)
  OBVIOUS
<1>1. /\ NULL \notin Keys /\ PowerOfTwo(n) /\ DOMAIN _keys = 0 .. n - 1
      /\ DartTable(_keys, _values, n) /\ Searching(_keys, n, k)
  BY DartMapTypes
<1>2. PICK i \in 0 .. n - 1 :
        /\ LastProbe(_keys, k) = i /\ SlotOf(n, k, i) \in 0 .. n - 1
        /\ _keys[SlotOf(n, k, i)] \in {NULL, k}
        /\ \A j \in 0 .. i - 1 : _keys[SlotOf(n, k, j)] # NULL
        /\ _keys[SlotOf(n, k, i)] = NULL => \A t \in 0 .. n - 1 : _keys[t] # k
  <2>1. PICK keys, values : keys = _keys /\ values = _values
    OBVIOUS
  <2>2. DartTable(keys, values, n) /\ Searching(keys, n, k)
    BY <1>1, <2>1
  <2>3. \E i \in 0 .. n - 1 :
           /\ LastProbe(keys, k) = i /\ SlotOf(n, k, i) \in 0 .. n - 1
           /\ keys[SlotOf(n, k, i)] \in {NULL, k}
           /\ \A j \in 0 .. i - 1 : keys[SlotOf(n, k, j)] # NULL
           /\ keys[SlotOf(n, k, i)] = NULL => \A t \in 0 .. n - 1 : keys[t] # k
    BY <2>2, FindsSlot
  <2> QED BY <2>1, <2>3
<1>3. Slot(_keys, k, LastProbe(_keys, k)) = SlotOf(n, k, i)
  BY <1>1, <1>2, LengthIs
<1>4. probeForLookup(k) = IF _keys[SlotOf(n, k, i)] = k THEN SlotOf(n, k, i) ELSE -1
  BY <1>3 DEF probeForLookup
<1> QED BY <1>1, <1>2, <1>4

\* remove deletes the key and its value.
LEMMA RemoveDartMap ==
  ASSUME DartMapConstants, DartMapInv, NEW k \in Keys, remove(k)
  PROVE  DartMapInv'
<1> PICK n : n = Length(_keys)
  OBVIOUS
<1> PICK s : s = probeForLookup(k)
  OBVIOUS
<1>1. /\ NULL \notin Keys /\ _DELETED_KEY \notin Keys /\ NULL # _DELETED_KEY
      /\ PowerOfTwo(n) /\ n \in Nat \ {0} /\ hash \in [Keys -> Int]
      /\ _stored \in [Keys -> Values \cup {NULL}] /\ DartTable(_keys, _values, n)
      /\ IsFiniteSet(Live(_keys)) /\ Cardinality(Live(_keys)) \in Nat
      /\ IsFiniteSet(Deleted(_keys)) /\ Cardinality(Deleted(_keys)) \in Nat
  BY DartMapTypes
<1>2. /\ s >= 0 /\ _numberOfEntries' = _numberOfEntries - 1 /\ _numberOfDeleted' = _numberOfDeleted + 1
      /\ _keys' = Replace(_keys, s, _DELETED_KEY) /\ _values' = Replace(_values, s, NULL)
      /\ _stored' = [_stored EXCEPT ![k] = NULL] /\ hash' = hash
  BY DEF remove, Replace
<1>3. s \in 0 .. n - 1 /\ _keys[s] = k /\ _keys[s] \in Keys
  BY <1>2, LookupIs
<1>4. PICK a, b : a = _keys' /\ b = _values'
  OBVIOUS
<1>5. /\ DartTable(a, b, n)
      /\ s \in Live(_keys) /\ Live(a) = Live(_keys) \ {s}
      /\ s \notin Deleted(_keys) /\ Deleted(a) = Deleted(_keys) \cup {s}
      /\ \A t \in 0 .. n - 1 : /\ a[t] = IF t = s THEN _DELETED_KEY ELSE _keys[t]
                               /\ b[t] = IF t = s THEN NULL ELSE _values[t]
  <2>1. a = Replace(_keys, s, _DELETED_KEY) /\ b = Replace(_values, s, NULL)
    BY <1>2, <1>4
  <2> QED BY <1>1, <1>3, <2>1, DeleteKey
<1>6. /\ Cardinality(Live(a)) = Cardinality(Live(_keys)) - 1
      /\ Cardinality(Deleted(a)) = Cardinality(Deleted(_keys)) + 1
  <2>1. Cardinality(Live(_keys) \ {s}) = Cardinality(Live(_keys)) - 1
    BY <1>1, <1>5, FS_RemoveElement, ZenonT(30)
  <2>2. Cardinality(Deleted(_keys) \cup {s}) = Cardinality(Deleted(_keys)) + 1
    BY <1>1, <1>5, FS_AddElement, ZenonT(30)
  <2> QED BY <1>5, <2>1, <2>2
<1>7. /\ _numberOfEntries = Cardinality(Live(_keys))
      /\ _numberOfDeleted \in Nat /\ Cardinality(Deleted(_keys)) <= _numberOfDeleted
      /\ Cardinality(Live(_keys)) + Cardinality(Deleted(_keys)) < n
      /\ Holds(_keys, _values, n, _stored)
  BY DEF DartMapInv
<1>8. /\ _numberOfEntries' = Cardinality(Live(a)) /\ _numberOfDeleted' \in Nat
      /\ Cardinality(Deleted(a)) <= _numberOfDeleted'
      /\ Cardinality(Live(a)) + Cardinality(Deleted(a)) < n
  BY <1>1, <1>2, <1>6, <1>7
<1>9. /\ _stored' \in [Keys -> Values \cup {NULL}] /\ _stored'[k] = NULL
      /\ \A c \in Keys : c # k => _stored'[c] = _stored[c]
  BY <1>1, <1>2
<1>10. Holds(a, b, n, _stored')
  <2>1. ASSUME NEW t \in 0 .. n - 1, a[t] \in Keys PROVE b[t] = _stored'[a[t]]
    <3>1. t # s /\ a[t] = _keys[t] /\ b[t] = _values[t]
      BY <1>1, <1>5, <2>1
    <3>2. a[t] # k
      BY <1>1, <1>3, <2>1, <3>1 DEF DartTable
    <3>3. b[t] = _stored[a[t]]
      BY <1>7, <2>1, <3>1 DEF Holds
    <3> QED BY <1>9, <2>1, <3>2, <3>3
  <2>2. ASSUME NEW c \in Keys, \A t \in 0 .. n - 1 : a[t] # c PROVE _stored'[c] = NULL
    <3>1. CASE c = k
      BY <1>9, <3>1
    <3>2. CASE c # k
      <4>1. \A t \in 0 .. n - 1 : _keys[t] # c
        BY <1>3, <1>5, <2>2, <3>2
      <4>2. _stored[c] = NULL
        BY <1>7, <4>1 DEF Holds
      <4> QED BY <1>9, <3>2, <4>2
    <3> QED BY <3>1, <3>2
  <2> QED BY <2>1, <2>2 DEF Holds
<1> QED BY <1>1, <1>2, <1>4, <1>5, <1>8, <1>9, <1>10, DartMapStep, ZenonT(30)

\* operator []= in lists a and b with room: k gets the value v, and nothing else changes.
LEMMA PutTable ==
  ASSUME NULL \notin Keys, _DELETED_KEY \notin Keys, NULL # _DELETED_KEY,
         hash \in [Keys -> Int], NEW f \in [Keys -> Values \cup {NULL}], NEW n, PowerOfTwo(n),
         NEW a, NEW b, DartTable(a, b, n), Holds(a, b, n, f),
         Cardinality(Live(a)) + Cardinality(Deleted(a)) < n,
         NEW k \in Keys, NEW v \in Values, NEW s, s = probeForAdding(a, k),
         NEW a2, a2 = Replace(a, s, k), NEW b2, b2 = Replace(b, s, v),
         NEW g, g[k] = v, \A c \in Keys : c # k => g[c] = f[c]
  PROVE  /\ DartTable(a2, b2, n) /\ Holds(a2, b2, n, g)
         /\ Cardinality(Live(a2)) = IF a[s] = k THEN Cardinality(Live(a)) ELSE Cardinality(Live(a)) + 1
         /\ Cardinality(Deleted(a2)) <= Cardinality(Deleted(a))
<1>1. /\ IsFiniteSet(Live(a)) /\ Cardinality(Live(a)) \in Nat
      /\ IsFiniteSet(Deleted(a)) /\ Cardinality(Deleted(a)) \in Nat
      /\ \E t \in 0 .. n - 1 : a[t] = NULL
  BY FreeSlot, ZenonT(30)
<1>2. Searching(a, n, k)
  BY <1>1 DEF Searching
<1>3. /\ s \in 0 .. n - 1 /\ OnPath(a, n, k, s) /\ a[s] \in {NULL, _DELETED_KEY, k}
      /\ a[s] # k => \A t \in 0 .. n - 1 : a[t] # k
  BY <1>2, AddingLemma
<1>4. CASE a[s] = k
  <2>1. /\ a2 = a /\ DartTable(a2, b2, n)
        /\ \A t \in 0 .. n - 1 : b2[t] = IF t = s THEN v ELSE b[t]
    BY <1>3, <1>4, SetValue
  <2>2. ASSUME NEW t \in 0 .. n - 1, a2[t] \in Keys PROVE b2[t] = g[a2[t]]
    <3>1. CASE t = s
      BY <1>4, <2>1, <3>1
    <3>2. CASE t # s
      <4>1. a[t] # k
        BY <1>3, <1>4, <2>1, <2>2, <3>2 DEF DartTable
      <4>2. b[t] = f[a[t]]
        BY <2>1, <2>2 DEF Holds
      <4> QED BY <2>1, <2>2, <3>2, <4>1, <4>2
    <3> QED BY <3>1, <3>2
  <2>3. ASSUME NEW c \in Keys, \A t \in 0 .. n - 1 : a2[t] # c PROVE g[c] = NULL
    <3>1. c # k /\ f[c] = NULL
      BY <1>3, <1>4, <2>1, <2>3 DEF Holds
    <3> QED BY <3>1, ZenonT(30)
  <2>4. Holds(a2, b2, n, g)
    BY <2>2, <2>3 DEF Holds
  <2> QED BY <1>1, <1>4, <2>1, <2>4
<1>5. CASE a[s] # k
  <2>1. a[s] \notin Keys /\ \A t \in 0 .. n - 1 : a[t] # k
    BY <1>3, <1>5, ZenonT(30)
  <2>2. /\ DartTable(a2, b2, n)
        /\ s \notin Live(a) /\ Live(a2) = Live(a) \cup {s}
        /\ Deleted(a2) = Deleted(a) \ {s}
        /\ \A t \in 0 .. n - 1 : /\ a2[t] = IF t = s THEN k ELSE a[t]
                                 /\ b2[t] = IF t = s THEN v ELSE b[t]
    <3>1. v \in Values \cup {NULL}
      OBVIOUS
    <3> QED BY <1>3, <2>1, <3>1, AddKey
  <2>3. ASSUME NEW t \in 0 .. n - 1, a2[t] \in Keys PROVE b2[t] = g[a2[t]]
    <3>1. CASE t = s
      BY <2>2, <3>1
    <3>2. CASE t # s
      <4>1. a2[t] = a[t] /\ b2[t] = b[t] /\ a[t] # k
        BY <2>1, <2>2, <3>2
      <4>2. b[t] = f[a[t]]
        BY <2>3, <4>1 DEF Holds
      <4> QED BY <2>3, <4>1, <4>2
    <3> QED BY <3>1, <3>2
  <2>4. ASSUME NEW c \in Keys, \A t \in 0 .. n - 1 : a2[t] # c PROVE g[c] = NULL
    <3>1. c # k
      BY <1>3, <2>2, <2>4
    <3>2. \A t \in 0 .. n - 1 : a[t] # c
      BY <1>3, <2>1, <2>2, <2>4
    <3>3. f[c] = NULL
      BY <3>2 DEF Holds
    <3> QED BY <3>1, <3>3
  <2>5. Holds(a2, b2, n, g)
    BY <2>3, <2>4 DEF Holds
  <2>6. Cardinality(Live(a2)) = Cardinality(Live(a)) + 1
    BY <1>1, <2>2, FS_AddElement, ZenonT(30)
  <2>7. Cardinality(Deleted(a2)) <= Cardinality(Deleted(a))
    <3>1. Deleted(a) \ {s} \subseteq Deleted(a)
      OBVIOUS
    <3>2. Cardinality(Deleted(a) \ {s}) <= Cardinality(Deleted(a))
      BY <1>1, <3>1, FS_Subset
    <3> QED BY <2>2, <3>2
  <2> QED BY <1>5, <2>2, <2>5, <2>6, <2>7
<1> QED BY <1>4, <1>5

\* Lists with the same entries hold the same.
LEMMA HoldsSame ==
  ASSUME NEW m, NEW keys, NEW values, DartTable(keys, values, m), NEW f, Holds(keys, values, m, f),
         NEW a, NEW b, NEW n, SameEntries(keys, values, Live(keys), a, b, n)
  PROVE  Holds(a, b, n, f)
<1>1. /\ Live(keys) \subseteq 0 .. m - 1
      /\ \A j \in 0 .. m - 1 : j \in Live(keys) <=> keys[j] \in Keys
  BY DEF DartTable, Live
<1>2. ASSUME NEW s \in 0 .. n - 1, a[s] \in Keys PROVE b[s] = f[a[s]]
  <2>1. PICK j \in Live(keys) : a[s] = keys[j] /\ b[s] = values[j]
    BY <1>2 DEF SameEntries
  <2> QED BY <1>1, <1>2, <2>1 DEF Holds
<1>3. ASSUME NEW c \in Keys, \A s \in 0 .. n - 1 : a[s] # c PROVE f[c] = NULL
  <2>1. ASSUME NEW j \in 0 .. m - 1, keys[j] = c PROVE FALSE
    BY <1>1, <1>3, <2>1 DEF SameEntries
  <2> QED BY <2>1 DEF Holds
<1> QED BY <1>2, <1>3 DEF Holds

\* _ensureCapacity: the lists that a key is added to hold what was stored, and
\* have room for it.
LEMMA EnsuresRoom ==
  ASSUME DartMapConstants, DartMapInv, NEW g,
         g = IF ensureCapacity = 0 THEN [keys |-> _keys, values |-> _values]
             ELSE grow(_keys, _values, ensureCapacity),
         NEW d, d = IF ensureCapacity = 0 THEN _numberOfDeleted ELSE 0
  PROVE  \E n : /\ PowerOfTwo(n) /\ DartTable(g.keys, g.values, n) /\ Holds(g.keys, g.values, n, _stored)
                /\ Cardinality(Live(g.keys)) = _numberOfEntries
                /\ d \in Nat /\ Cardinality(Deleted(g.keys)) <= d
                /\ _numberOfEntries + 1 + Cardinality(Deleted(g.keys)) < n
<1> PICK m, e : m = Length(_keys) /\ e = _numberOfEntries
  OBVIOUS
<1>1. /\ NULL \notin Keys /\ _DELETED_KEY \notin Keys /\ NULL # _DELETED_KEY
      /\ PowerOfTwo(m) /\ m \in Nat \ {0} /\ hash \in [Keys -> Int] /\ DartTable(_keys, _values, m)
      /\ Cardinality(Live(_keys)) \in Nat /\ Cardinality(Deleted(_keys)) \in Nat
  BY DartMapTypes
<1>2. /\ e = Cardinality(Live(_keys)) /\ e \in Nat
      /\ _numberOfDeleted \in Nat /\ Cardinality(Deleted(_keys)) <= _numberOfDeleted
      /\ Cardinality(Live(_keys)) + Cardinality(Deleted(_keys)) < m
      /\ Holds(_keys, _values, m, _stored)
  BY <1>1 DEF DartMapInv
<1>3. ensureCapacity = IF e + 1 >= (m * 3) \div 4 THEN 2 * m
                       ELSE IF _numberOfDeleted > m - (e + 1) - _numberOfDeleted THEN m ELSE 0
  BY DEF ensureCapacity, computeLoadLimit
<1>4. CASE ensureCapacity = 0
  <2>1. g.keys = _keys /\ g.values = _values /\ d = _numberOfDeleted
    BY <1>4
  <2>2. e + 1 < (m * 3) \div 4 /\ _numberOfDeleted <= m - (e + 1) - _numberOfDeleted
    BY <1>1, <1>2, <1>3, <1>4
  <2>3. e + 1 + Cardinality(Deleted(_keys)) < m
    BY <1>1, <1>2, <2>2
  <2> QED BY <1>1, <1>2, <2>1, <2>3
<1>5. CASE ensureCapacity # 0
  <2>1. PICK n : n = ensureCapacity
    OBVIOUS
  <2>2. PowerOfTwo(n) /\ n \in Nat /\ e + 1 < n
    <3>1. CASE e + 1 >= (m * 3) \div 4
      <4>1. n = 2 * m
        BY <1>3, <2>1, <3>1
      <4>2. e + 1 < 2 * m
        BY <1>1, <1>2
      <4> QED BY <1>1, <4>1, <4>2, Doubled
    <3>2. CASE ~(e + 1 >= (m * 3) \div 4)
      <4>1. n = m
        BY <1>3, <1>5, <2>1, <3>2
      <4>2. e + 1 < m
        BY <1>1, <1>2, <3>2
      <4> QED BY <1>1, <4>1, <4>2
    <3> QED BY <3>1, <3>2
  <2>3. g = grow(_keys, _values, n) /\ d = 0
    BY <1>5, <2>1
  <2>4. /\ DartTable(g.keys, g.values, n) /\ Deleted(g.keys) = {}
        /\ Cardinality(Live(g.keys)) = Cardinality(Live(_keys))
        /\ SameEntries(_keys, _values, Live(_keys), g.keys, g.values, n)
    <3>1. Cardinality(Live(_keys)) < n
      BY <1>2, <2>2
    <3> QED BY <1>1, <2>2, <2>3, <3>1, GrowLemma
  <2>5. Holds(g.keys, g.values, n, _stored)
    BY <1>1, <1>2, <2>4, HoldsSame
  <2>6. Cardinality(Deleted(g.keys)) = 0
    BY <2>4, FS_EmptySet
  <2>7. /\ d \in Nat /\ Cardinality(Deleted(g.keys)) <= d
        /\ e + 1 + Cardinality(Deleted(g.keys)) < n
    BY <1>2, <2>2, <2>3, <2>6
  <2> QED BY <1>2, <2>2, <2>4, <2>5, <2>7
<1> QED BY <1>4, <1>5

\* operator []= with what _ensureCapacity does before it.
LEMMA PutDartMap ==
  ASSUME DartMapConstants, DartMapInv, NEW k \in Keys, NEW v \in Values, Put(k, v)
  PROVE  DartMapInv'
<1> PICK g : g = IF ensureCapacity = 0 THEN [keys |-> _keys, values |-> _values]
                 ELSE grow(_keys, _values, ensureCapacity)
  BY ZenonT(30)
<1> PICK d : d = IF ensureCapacity = 0 THEN _numberOfDeleted ELSE 0
  OBVIOUS
<1> PICK s : s = probeForAdding(g.keys, k)
  OBVIOUS
<1>1. /\ _keys' = Replace(g.keys, s, k) /\ _values' = Replace(g.values, s, v)
      /\ _numberOfEntries' = IF g.keys[s] = k THEN _numberOfEntries ELSE _numberOfEntries + 1
      /\ _numberOfDeleted' = d
      /\ _stored' = [_stored EXCEPT ![k] = v] /\ hash' = hash
  BY DEF Put, Replace
<1>2. PICK n : /\ PowerOfTwo(n) /\ DartTable(g.keys, g.values, n) /\ Holds(g.keys, g.values, n, _stored)
               /\ Cardinality(Live(g.keys)) = _numberOfEntries
               /\ d \in Nat /\ Cardinality(Deleted(g.keys)) <= d
               /\ _numberOfEntries + 1 + Cardinality(Deleted(g.keys)) < n
  BY EnsuresRoom
<1>3. /\ NULL \notin Keys /\ _DELETED_KEY \notin Keys /\ NULL # _DELETED_KEY
      /\ hash \in [Keys -> Int] /\ _stored \in [Keys -> Values \cup {NULL}]
  BY DartMapTypes
<1>4. PICK a, b : a = g.keys /\ b = g.values
  OBVIOUS
<1>5. PICK a2, b2 : a2 = Replace(a, s, k) /\ b2 = Replace(b, s, v)
  OBVIOUS
<1>6. /\ DartTable(a, b, n) /\ Holds(a, b, n, _stored) /\ s = probeForAdding(a, k)
      /\ Cardinality(Live(a)) \in Nat /\ Cardinality(Deleted(a)) \in Nat /\ n \in Nat
      /\ Cardinality(Live(a)) = _numberOfEntries
      /\ Cardinality(Live(a)) + 1 + Cardinality(Deleted(a)) < n
  <2>1. DartTable(a, b, n)
    BY <1>2, <1>4
  <2>2. Cardinality(Live(a)) \in Nat /\ Cardinality(Deleted(a)) \in Nat
    BY <1>2, <2>1, FreeSlot
  <2> QED BY <1>2, <1>4, <2>1, <2>2 DEF PowerOfTwo
<1>7. /\ DartTable(a2, b2, n) /\ Holds(a2, b2, n, _stored')
      /\ Cardinality(Live(a2)) = IF a[s] = k THEN Cardinality(Live(a)) ELSE Cardinality(Live(a)) + 1
      /\ Cardinality(Deleted(a2)) <= Cardinality(Deleted(a))
  <2>1. Cardinality(Live(a)) + Cardinality(Deleted(a)) < n
    BY <1>6
  <2>2. _stored'[k] = v /\ \A c \in Keys : c # k => _stored'[c] = _stored[c]
    BY <1>1, <1>3
  <2> QED BY <1>2, <1>3, <1>5, <1>6, <2>1, <2>2, PutTable
<1>8. Cardinality(Deleted(a2)) \in Nat
  BY <1>2, <1>7, FreeSlot
<1>9. /\ _numberOfEntries' = Cardinality(Live(a2)) /\ _numberOfDeleted' \in Nat
      /\ Cardinality(Deleted(a2)) <= _numberOfDeleted'
      /\ Cardinality(Live(a2)) + Cardinality(Deleted(a2)) < n
  BY <1>1, <1>2, <1>4, <1>6, <1>7, <1>8
<1>10. _stored' \in [Keys -> Values \cup {NULL}]
  BY <1>1, <1>3, ZenonT(30)
<1>11. _keys' = a2 /\ _values' = b2
  BY <1>1, <1>4, <1>5
<1> QED BY <1>1, <1>2, <1>7, <1>9, <1>10, <1>11, DartMapStep, ZenonT(30)

\* Every operation preserves the invariant.
LEMMA DartMapInvNext ==
  ASSUME DartMapConstants, DartMapInv, [DartMapNext]_dartMapVars
  PROVE  DartMapInv'
<1>1. CASE UNCHANGED dartMapVars
  <2>1. UNCHANGED <<_keys, _values, _numberOfEntries, _numberOfDeleted, hash, _stored>>
    BY <1>1 DEF dartMapVars
  <2> QED BY <2>1 DEF DartMapInv, DartTable, OnPath, SlotOf, Holds, Live, Deleted, Length
<1>2. CASE DartMapNext
  <2>1. CASE clear
    BY <2>1, ClearDartMap
  <2>2. ASSUME NEW k \in Keys, remove(k) PROVE DartMapInv'
    BY <2>2, RemoveDartMap
  <2>3. ASSUME NEW k \in Keys, NEW v \in Values, Put(k, v) \/ putIfAbsent(k, v) PROVE DartMapInv'
    BY <2>3, PutDartMap DEF putIfAbsent
  <2> QED BY <1>2, <2>1, <2>2, <2>3 DEF DartMapNext
<1> QED BY <1>1, <1>2

\* It holds in every state of the map.
LEMMA DartMapInvAlways ==
  ASSUME DartMapConstants
  PROVE  DartMapSpec => []DartMapInv
<1>1. DartMapInit => DartMapInv
  BY InitDartMap
<1>2. DartMapInv /\ [DartMapNext]_dartMapVars => DartMapInv'
  BY DartMapInvNext
<1> QED BY <1>1, <1>2, PTL DEF DartMapSpec

\* For every number of keys, every hash function and every sequence of operations
\* on the map of Dart the entries are counted exactly, the deleted slots never too
\* low, and a slot stays empty; with QuadraticProbing every search ends.
THEOREM DartMapCounts ==
  ASSUME DartMapConstants
  PROVE  DartMapSpec => []DartMapSearchesEnd
<1>1. ASSUME DartMapInv PROVE DartMapSearchesEnd
  <2>1. DartTable(_keys, _values, Length(_keys)) /\ DOMAIN _keys = 0 .. Length(_keys) - 1
    BY <1>1, DartMapTypes
  <2>2. \E i \in DOMAIN _keys : _keys[i] = NULL
    BY <1>1, <2>1, DartMapTypes, FreeSlot DEF DartMapInv
  <2>3. _numberOfEntries = Cardinality({i \in DOMAIN _keys : _keys[i] \in Keys})
    BY <1>1 DEF DartMapInv, Live
  <2>4. _numberOfDeleted >= Cardinality({i \in DOMAIN _keys : _keys[i] = _DELETED_KEY})
    <3>1. _numberOfDeleted >= Cardinality(Deleted(_keys))
      BY <1>1, DartMapTypes DEF DartMapInv
    <3> QED BY <3>1 DEF Deleted
  <2> QED BY <2>2, <2>3, <2>4 DEF DartMapSearchesEnd
<1>2. DartMapInv => DartMapSearchesEnd
  BY <1>1
<1> QED BY <1>2, DartMapInvAlways, PTL

\* For every number of keys, every hash function and every sequence of insertions,
\* removals, rehashes and clears a lookup in the map of Dart finds what was last
\* stored for the key.
THEOREM DartMapFinds ==
  ASSUME DartMapConstants
  PROVE  DartMapSpec => []DartMapFindsLastStored
<1>1. ASSUME DartMapInv, NEW k \in Keys
      PROVE  _stored[k] = IF probeForLookup(k) = -1 THEN NULL ELSE _values[probeForLookup(k)]
  <2>1. Holds(_keys, _values, Length(_keys), _stored) /\ Length(_keys) \in Nat
    BY <1>1, DartMapTypes DEF DartMapInv
  <2>2. PICK i : i = probeForLookup(k)
    OBVIOUS
  <2>3. \/ i \in 0 .. Length(_keys) - 1 /\ _keys[i] = k
        \/ i = -1 /\ \A t \in 0 .. Length(_keys) - 1 : _keys[t] # k
    BY <1>1, <2>2, LookupIs
  <2>4. CASE i \in 0 .. Length(_keys) - 1 /\ _keys[i] = k
    <3>1. i # -1
      BY <2>1, <2>4
    <3>2. _values[i] = _stored[k]
      BY <2>1, <2>4 DEF Holds
    <3> QED BY <2>2, <3>1, <3>2
  <2>5. CASE i = -1 /\ \A t \in 0 .. Length(_keys) - 1 : _keys[t] # k
    <3>1. _stored[k] = NULL
      BY <2>1, <2>5 DEF Holds
    <3> QED BY <2>2, <2>5, <3>1
  <2> QED BY <2>3, <2>4, <2>5
<1>2. DartMapInv => DartMapFindsLastStored
  BY <1>1 DEF DartMapFindsLastStored
<1> QED BY <1>2, DartMapInvAlways, PTL
=============================================================================
