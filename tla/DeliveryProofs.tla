--------------------------- MODULE DeliveryProofs ---------------------------
(***************************************************************************)
(* The two structures that a message passes on its way to a handler.  The  *)
(* hash table of PortMap implements the map of PortRegistry, and its       *)
(* searches end, for every initial capacity and any number of ports.  The  *)
(* linked list of MessageQueue implements the FIFO of Mailbox, for any     *)
(* finite set of messages and any ports.                                   *)
(***************************************************************************)
EXTENDS PortTable, MessageQueue, DataLemmas, FiniteSetTheorems

\* Zenon for a moment, then SMT, then Zenon for longer.
USE ZenonT(2), SMTT(30), ZenonT(30)

Entries == [port : Nat, handler : Handlers \cup {NULL, deleted_entry_}, live : BOOLEAN]

\* The slots that hold a port, the tombstones, and what the table stores.
Holding(m) == {i \in DOMAIN m : m[i].port # 0}
Tombstones(m) == {i \in DOMAIN m : m[i].handler = deleted_entry_}
Free(m) == {i \in DOMAIN m : m[i].handler = NULL}
Contents(m) == {m[i] : i \in Holding(m)}

\* No free slot lies between the start of the search for a port and its slot.
Reached(m, n, i) ==
  \E d \in 0 .. n - 1 :
    /\ i = (m[i].port + d) % n
    /\ \A j \in 0 .. d - 1 : m[(m[i].port + j) % n].handler # NULL

\* A table of n slots in which every port is once and is found.
Table(m, n) ==
  /\ m \in [0 .. n - 1 -> Entries]
  /\ \A i \in 0 .. n - 1 : m[i].port # 0 <=> m[i].handler \in Handlers
  /\ \A i, j \in Holding(m) : m[i].port = m[j].port => i = j
  /\ \A i \in Holding(m) : Reached(m, n, i)

-----------------------------------------------------------------------------
\* Probing ends at the first slot of stops.
LEMMA ProbeStops ==
  ASSUME NEW n \in Nat \ {0}, NEW p \in Nat, NEW stops, stops \subseteq 0 .. n - 1,
         stops # {}
  PROVE  \E k \in 0 .. n - 1 :
           /\ Search(stops, n, p) = (p + k) % n /\ (p + k) % n \in stops
           /\ \A j \in 0 .. k - 1 : (p + j) % n \notin stops
<1> DEFINE S == {k \in 0 .. n - 1 : (p + k) % n \in stops}
<1> DEFINE P(k) == (p + k) % n \in stops /\ \A j \in 0 .. k - 1 : (p + j) % n \notin stops
<1>1. S # {} /\ S \subseteq Nat
  <2>1. PICK i \in 0 .. n - 1 : i \in stops
    BY ZenonT(30)
  <2>2. PICK k \in 0 .. n - 1 : (p + k) % n = i
    BY ProbeReaches, ZenonT(30)
  <2>3. k \in S
    BY <2>1, <2>2
  <2>4. S \subseteq 0 .. n - 1 /\ 0 .. n - 1 \subseteq Nat
    OBVIOUS
  <2> HIDE DEF S
  <2> QED BY <2>3, <2>4
<1>2. PICK k \in S : \A j \in S : k <= j
  BY <1>1, LeastNat, ZenonT(30)
<1>3. k \in 0 .. n - 1 /\ P(k)
  <2>1. k \in 0 .. n - 1 /\ (p + k) % n \in stops
    BY <1>2
  <2>2. ASSUME NEW j \in 0 .. k - 1, (p + j) % n \in stops PROVE FALSE
    <3>1. j \in S /\ ~(k <= j)
      BY <2>1, <2>2
    <3> QED BY <1>2, <3>1
  <2> QED BY <2>1, <2>2, ZenonT(30)
<1> DEFINE d == CHOOSE x \in 0 .. n - 1 : P(x)
<1>4. d \in 0 .. n - 1 /\ P(d)
  BY <1>3, ZenonT(30)
<1>5. Search(stops, n, p) = (p + d) % n
  BY DEF Search
<1> QED BY <1>4, <1>5, ZenonT(30)

\* FindPort in the table m of n slots.
Find(m, n, port) ==
  LET i == Search({j \in DOMAIN m : m[j].handler = NULL \/ m[j].port = port}, n, port)
  IN  IF m[i].handler = NULL THEN -1 ELSE i

LEMMA FindPortIs ==
  /\ \A port : FindPort(port) = Find(map, capacity, port)
  /\ \A port : FindPort(port)' = Find(map', capacity', port)
BY DEF FindPort, Find

\* The search finds the slot of a port, and nothing for any other id.
LEMMA FindLemma ==
  ASSUME NEW n \in Nat \ {0}, NEW m, Table(m, n), Free(m) # {}, NEW p \in Nat \ {0}
  PROVE  /\ (\A i \in 0 .. n - 1 : m[i].port # p) => Find(m, n, p) = -1
         /\ \A i \in 0 .. n - 1 : m[i].port = p => Find(m, n, p) = i
<1> DEFINE stops == {j \in DOMAIN m : m[j].handler = NULL \/ m[j].port = p}
<1>1. DOMAIN m = 0 .. n - 1 /\ stops \subseteq 0 .. n - 1 /\ stops # {}
  BY DEF Table, Free
<1>2. PICK k \in 0 .. n - 1 :
        /\ Search(stops, n, p) = (p + k) % n /\ (p + k) % n \in stops
        /\ \A j \in 0 .. k - 1 : (p + j) % n \notin stops
  <2> HIDE DEF stops
  <2> QED BY <1>1, ProbeStops, ZenonT(30)
<1>3. Find(m, n, p) = IF m[(p + k) % n].handler = NULL THEN -1 ELSE (p + k) % n
  BY <1>2 DEF Find
<1>4. ASSUME \A i \in 0 .. n - 1 : m[i].port # p PROVE Find(m, n, p) = -1
  BY <1>1, <1>2, <1>3, <1>4
<1>5. ASSUME NEW i \in 0 .. n - 1, m[i].port = p PROVE Find(m, n, p) = i
  <2>1. i \in Holding(m) /\ m[i].handler \in Handlers
    BY <1>1, <1>5 DEF Holding, Table
  <2>2. PICK d \in 0 .. n - 1 :
          /\ i = (p + d) % n
          /\ \A j \in 0 .. d - 1 : m[(p + j) % n].handler # NULL
    BY <1>5, <2>1, ZenonT(30) DEF Table, Reached
  <2>3. i \in stops
    BY <1>1, <1>5
  <2>4. ASSUME NEW j \in 0 .. d - 1, (p + j) % n \in stops, (p + j) % n # i PROVE FALSE
    <3>1. m[(p + j) % n].port = p /\ (p + j) % n \in Holding(m)
      BY <2>2, <2>4, ZenonT(30) DEF Holding
    <3> QED BY <1>5, <2>1, <2>4, <3>1 DEF Table
  <2>5. ~(d < k)
    BY <1>2, <2>2, <2>3
  <2>6. (p + k) % n = i
    <3>1. CASE k = d
      BY <2>2, <3>1
    <3>2. CASE k < d
      <4>1. k \in 0 .. d - 1
        BY <3>2
      <4> QED BY <1>2, <2>4, <4>1
    <3> QED BY <2>5, <3>1, <3>2
  <2>7. m[i].handler # NULL
    BY <2>1, TableAssumption
  <2> QED BY <1>3, <2>6, <2>7
<1> QED BY <1>4, <1>5

-----------------------------------------------------------------------------
(* What the operations do to a table.                                      *)

LEMMA TableTypes ==
  ASSUME NEW n \in Nat \ {0}, NEW m, Table(m, n)
  PROVE  /\ m \in [0 .. n - 1 -> Entries] /\ DOMAIN m = 0 .. n - 1
         /\ \A i \in 0 .. n - 1 : m[i].port \in Nat /\ m[i] \in Entries
         /\ Holding(m) = {i \in 0 .. n - 1 : m[i].port # 0}
         /\ \A i \in Holding(m) : m[i].handler \in Handlers
         /\ \A i \in 0 .. n - 1 : m[i].port = 0 => m[i].handler \in {NULL, deleted_entry_}
BY DEF Table, Entries, Holding

\* A slot that other ports may have to pass does not become free: what has
\* been reached is reached.
LEMMA StillReached ==
  ASSUME NEW n \in Nat \ {0}, NEW m, Table(m, n), NEW m2,
         \A j \in 0 .. n - 1 : m[j].handler # NULL => m2[j].handler # NULL,
         NEW i \in Holding(m), m2[i].port = m[i].port
  PROVE  Reached(m2, n, i)
<1>1. PICK d \in 0 .. n - 1 :
        /\ i = (m[i].port + d) % n
        /\ \A j \in 0 .. d - 1 : m[(m[i].port + j) % n].handler # NULL
  BY DEF Table, Reached
<1> DEFINE p == m[i].port
<1>2. p \in Nat
  BY TableTypes
<1> HIDE DEF p
<1>3. ASSUME NEW j \in 0 .. d - 1 PROVE m2[(p + j) % n].handler # NULL
  <2>1. \A k \in Nat : (p + k) % n \in 0 .. n - 1
    BY <1>2, ProbeReaches
  <2>2. (p + j) % n \in 0 .. n - 1 /\ m[(p + j) % n].handler # NULL
    BY <1>1, <2>1 DEF p
  <2> QED BY <2>2
<1> QED BY <1>1, <1>3 DEF Reached, p

\* m2 is the table m with the entry e in slot i, which was free or a tombstone.
Inserted(m, n, e, i, m2) ==
  /\ i \in 0 .. n - 1 /\ m[i].port = 0
  /\ Table(m2, n)
  /\ Holding(m2) = Holding(m) \cup {i}
  /\ Tombstones(m2) = Tombstones(m) \ {i}
  /\ Contents(m2) = Contents(m) \cup {e}

\* An entry with a new port goes to the first slot without a port.
LEMMA InsertLemma ==
  ASSUME NEW n \in Nat \ {0}, NEW m, Table(m, n), Unused(m) # {},
         NEW e \in Entries, e.port # 0, e.handler \in Handlers,
         \A i \in 0 .. n - 1 : m[i].port # e.port,
         NEW i, i = Search(Unused(m), n, e.port), NEW m2, m2 = [m EXCEPT ![i] = e]
  PROVE  Inserted(m, n, e, i, m2)
<1>1. /\ m \in [0 .. n - 1 -> Entries] /\ DOMAIN m = 0 .. n - 1 /\ e.port \in Nat
      /\ \A j \in 0 .. n - 1 : m[j].port \in Nat
  BY TableTypes DEF Entries
<1>2. Unused(m) \subseteq 0 .. n - 1
  BY <1>1 DEF Unused
<1>3. PICK d \in 0 .. n - 1 :
        /\ i = (e.port + d) % n /\ i \in Unused(m)
        /\ \A j \in 0 .. d - 1 : (e.port + j) % n \notin Unused(m)
  <2> DEFINE p == e.port
             stops == Unused(m)
  <2>1. p \in Nat /\ stops \subseteq 0 .. n - 1 /\ stops # {} /\ i = Search(stops, n, p)
    BY <1>1, <1>2
  <2> HIDE DEF p, stops
  <2>2. \E d \in 0 .. n - 1 :
          /\ i = (p + d) % n /\ i \in stops
          /\ \A j \in 0 .. d - 1 : (p + j) % n \notin stops
    <3>1. \E d \in 0 .. n - 1 :
            /\ Search(stops, n, p) = (p + d) % n /\ (p + d) % n \in stops
            /\ \A j \in 0 .. d - 1 : (p + j) % n \notin stops
      BY <2>1, ProbeStops, ZenonT(30)
    <3> QED BY <2>1, <3>1, ZenonT(30)
  <2> QED BY <2>2 DEF p, stops
<1>4. i \in 0 .. n - 1 /\ m[i].port = 0
  BY <1>2, <1>3 DEF Unused
<1>5. /\ m2 \in [0 .. n - 1 -> Entries] /\ DOMAIN m2 = 0 .. n - 1 /\ m2[i] = e
      /\ \A j \in 0 .. n - 1 : j # i => m2[j] = m[j]
  BY <1>1, <1>4
<1>6. Holding(m2) = Holding(m) \cup {i}
  BY <1>1, <1>4, <1>5 DEF Holding
<1>7. Tombstones(m2) = Tombstones(m) \ {i}
  BY <1>1, <1>4, <1>5, TableAssumption DEF Tombstones
<1>8. Contents(m2) = Contents(m) \cup {e}
  <2>1. \A j \in Holding(m) : j # i /\ m2[j] = m[j]
    BY <1>1, <1>4, <1>5 DEF Holding
  <2>2. \A x : x \in Contents(m2) <=> \E j \in Holding(m) \cup {i} : x = m2[j]
    BY <1>6, ZenonT(30) DEF Contents
  <2>3. \A x : x \in Contents(m) <=> \E j \in Holding(m) : x = m[j]
    BY DEF Contents
  <2>4. ASSUME NEW x PROVE x \in Contents(m2) <=> x \in Contents(m) \/ x = e
    <3>1. x \in Contents(m2) <=> (\E j \in Holding(m) : x = m2[j]) \/ x = m2[i]
      BY <2>2, ZenonT(30)
    <3>2. (\E j \in Holding(m) : x = m2[j]) <=> (\E j \in Holding(m) : x = m[j])
      BY <2>1, ZenonT(30)
    <3> QED BY <1>5, <2>3, <3>1, <3>2, ZenonT(30)
  <2> QED BY <2>4, ZenonT(30)
<1>9. \A j \in 0 .. n - 1 : m2[j].port # 0 <=> m2[j].handler \in Handlers
  BY <1>5 DEF Table
<1>10. \A j \in Holding(m2), k \in Holding(m2) : m2[j].port = m2[k].port => j = k
  BY <1>1, <1>4, <1>5, <1>6 DEF Table, Holding
<1>11. ASSUME NEW j \in Holding(m2) PROVE Reached(m2, n, j)
  <2>1. CASE j = i
    <3>1. ASSUME NEW k \in 0 .. d - 1 PROVE m2[(e.port + k) % n].handler # NULL
      <4> DEFINE s == (e.port + k) % n
      <4>1. s \in 0 .. n - 1 /\ s \notin Unused(m)
        <5>1. \A q \in Nat : (e.port + q) % n \in 0 .. n - 1
          BY <1>1, ProbeReaches, ZenonT(30)
        <5> QED BY <1>3, <5>1
      <4> HIDE DEF s
      <4>2. m[s].port # 0 /\ s # i
        BY <1>1, <1>4, <4>1 DEF Unused
      <4>3. m2[s].handler \in Handlers
        BY <1>5, <4>1, <4>2 DEF Table
      <4> QED BY <4>3, TableAssumption DEF s
    <3> QED BY <1>3, <1>5, <2>1, <3>1, ZenonT(30) DEF Reached
  <2>2. CASE j # i
    <3>1. j \in Holding(m) /\ m2[j].port = m[j].port
      BY <1>1, <1>5, <1>6, <2>2 DEF Holding
    <3>2. \A k \in 0 .. n - 1 : m[k].handler # NULL => m2[k].handler # NULL
      BY <1>5, TableAssumption
    <3> QED BY <3>1, <3>2, StillReached, ZenonT(30)
  <2> QED BY <2>1, <2>2
<1>12. Table(m2, n)
  BY <1>5, <1>9, <1>10, <1>11, ZenonT(30) DEF Table
<1> QED BY <1>4, <1>6, <1>7, <1>8, <1>12, ZenonT(30) DEF Inserted

\* m2 is the table m with tombstones in the slots S.
Buried(m, n, S, m2) ==
  /\ Table(m2, n)
  /\ Holding(m2) = Holding(m) \ S
  /\ Tombstones(m2) = Tombstones(m) \cup S
  /\ Contents(m2) = {m[i] : i \in Holding(m) \ S}

\* Ports that are closed leave tombstones.
LEMMA BuryLemma ==
  ASSUME NEW n \in Nat \ {0}, NEW m, Table(m, n), NEW S, S \subseteq Holding(m),
         NEW m2, m2 = [i \in DOMAIN m |-> IF i \in S THEN Bury(m[i]) ELSE m[i]]
  PROVE  Buried(m, n, S, m2)
<1>1. /\ m \in [0 .. n - 1 -> Entries] /\ DOMAIN m = 0 .. n - 1
      /\ \A i \in 0 .. n - 1 : m[i] \in Entries
      /\ S \subseteq 0 .. n - 1
  BY TableTypes
<1>2. ASSUME NEW i \in 0 .. n - 1
      PROVE  Bury(m[i]) \in Entries /\ Bury(m[i]).port = 0 /\ Bury(m[i]).handler = deleted_entry_
  BY <1>1, ZenonT(30) DEF Bury, Entries
<1>3. /\ DOMAIN m2 = 0 .. n - 1
      /\ \A i \in S : m2[i] = Bury(m[i])
      /\ \A i \in 0 .. n - 1 : i \notin S => m2[i] = m[i]
  BY <1>1
<1>4. m2 \in [0 .. n - 1 -> Entries]
  BY <1>1, <1>2
<1>5. Holding(m2) = Holding(m) \ S
  BY <1>1, <1>2, <1>3 DEF Holding
<1>6. Tombstones(m2) = Tombstones(m) \cup S
  BY <1>1, <1>2, <1>3, ZenonT(30) DEF Tombstones
<1>7. Contents(m2) = {m[i] : i \in Holding(m) \ S}
  <2>1. \A i \in Holding(m) \ S : m2[i] = m[i]
    BY <1>1, <1>3 DEF Holding
  <2> QED BY <1>5, <2>1 DEF Contents
<1>8. \A i \in 0 .. n - 1 : m2[i].port # 0 <=> m2[i].handler \in Handlers
  BY <1>1, <1>2, <1>3, TableAssumption DEF Table
<1>9. \A i \in Holding(m2), j \in Holding(m2) : m2[i].port = m2[j].port => i = j
  BY <1>1, <1>3, <1>5, ZenonT(30) DEF Table, Holding
<1>10. ASSUME NEW i \in Holding(m2) PROVE Reached(m2, n, i)
  <2>1. i \in Holding(m) /\ m2[i].port = m[i].port
    BY <1>1, <1>3, <1>5, ZenonT(30) DEF Holding
  <2>2. \A j \in 0 .. n - 1 : m[j].handler # NULL => m2[j].handler # NULL
    BY <1>1, <1>2, <1>3, TableAssumption
  <2> QED BY <2>1, <2>2, StillReached
<1>11. Table(m2, n)
  BY <1>4, <1>8, <1>9, <1>10 DEF Table
<1> QED BY <1>5, <1>6, <1>7, <1>11 DEF Buried

\* What the function `filled' of Rehash is, slot by slot.
Fills(f, m, n, new) ==
  /\ f[0] = EmptyMap(new)
  /\ \A i \in 1 .. n :
       f[i] = IF m[i - 1].port = 0 THEN f[i - 1]
              ELSE [f[i - 1] EXCEPT
                      ![Search(Unused(f[i - 1]), new, m[i - 1].port)] = m[i - 1]]

\* There are such tables, and the last one is what Rehash builds.
LEMMA RehashSteps ==
  ASSUME NEW n \in Nat \ {0}, NEW m, Table(m, n), NEW new \in Nat
  PROVE  \E f : Rehash(m, n, new) = f[n] /\ Fills(f, m, n, new)
<1> DEFINE V == [0 .. new - 1 -> Entries]
           Copy(t, i) == IF m[i - 1].port = 0 THEN t
                         ELSE [t EXCEPT ![Search(Unused(t), new, m[i - 1].port)] = m[i - 1]]
           Defines(f) == f = [i \in 0 .. n |-> IF i = 0 THEN EmptyMap(new)
                                               ELSE IF m[i - 1].port = 0 THEN f[i - 1]
                                               ELSE [f[i - 1] EXCEPT ![Search(Unused(f[i - 1]), new, m[i - 1].port)] = m[i - 1]]]
           step == [i \in 1 .. n |-> [t \in V |-> Copy(t, i)]]
<1>1. EmptyMap(new) \in V
  BY DEF EmptyMap, FreeEntry, Entries
<1>2. ASSUME NEW t \in V, NEW i \in 1 .. n PROVE Copy(t, i) \in V
  <2>1. i - 1 \in 0 .. n - 1
    OBVIOUS
  <2>2. m[i - 1] \in Entries
    BY <2>1, TableTypes
  <2> QED BY <2>2, ZenonT(30)
<1>3. step \in [1 .. n -> [V -> V]]
  <2> HIDE DEF Copy, V
  <2> QED BY <1>2
<1>4. \A t \in V, i \in 1 .. n : step[i][t] = Copy(t, i)
  <2> HIDE DEF Copy, V
  <2> QED OBVIOUS
<1>5. PICK f \in [0 .. n -> V] :
        f[0] = EmptyMap(new) /\ \A i \in 1 .. n : f[i] = step[i][f[i - 1]]
  <2> DEFINE z == EmptyMap(new)
  <2>1. n \in Nat /\ z \in V
    BY <1>1
  <2> HIDE DEF V, step, z
  <2>2. \E f : Iterates(f, n, V, z, step)
    BY <1>3, <2>1, RecursionExists
  <2> QED BY <2>2, ZenonT(30) DEF z, Iterates
<1>6. \A i \in 1 .. n : f[i] = Copy(f[i - 1], i)
  <2> SUFFICES ASSUME NEW i \in 1 .. n PROVE f[i] = Copy(f[i - 1], i)
    OBVIOUS
  <2>1. f[i - 1] \in V
    <3> HIDE DEF V
    <3>1. i - 1 \in 0 .. n
      OBVIOUS
    <3> QED BY <3>1
  <2> HIDE DEF V, step, Copy
  <2> QED BY <1>4, <1>5, <2>1
<1>7. Defines(f)
  <2> HIDE DEF V, step
  <2>1. \A i \in 0 .. n : f[i] = IF i = 0 THEN EmptyMap(new)
                                 ELSE IF m[i - 1].port = 0 THEN f[i - 1]
                                 ELSE [f[i - 1] EXCEPT ![Search(Unused(f[i - 1]), new, m[i - 1].port)] = m[i - 1]]
    <3> SUFFICES ASSUME NEW i \in 0 .. n, i # 0 PROVE f[i] = Copy(f[i - 1], i)
      BY <1>5
    <3>1. i \in 1 .. n
      OBVIOUS
    <3> HIDE DEF Copy
    <3> QED BY <1>6, <3>1
  <2> QED BY <1>5, <2>1
<1> DEFINE g == CHOOSE h : Defines(h)
<1>8. Defines(g)
  <2> HIDE DEF Defines
  <2> QED BY <1>7, ZenonT(30)
<1>9. Rehash(m, n, new) = g[n]
  BY ZenonT(30) DEF Rehash
<1> HIDE DEF g
<1>10. g[0] = EmptyMap(new) /\ \A i \in 1 .. n : g[i] = Copy(g[i - 1], i)
  <2>1. \A i \in 0 .. n : g[i] = IF i = 0 THEN EmptyMap(new)
                                 ELSE IF m[i - 1].port = 0 THEN g[i - 1]
                                 ELSE [g[i - 1] EXCEPT ![Search(Unused(g[i - 1]), new, m[i - 1].port)] = m[i - 1]]
    BY <1>8, ZenonT(30)
  <2>2. 0 \in 0 .. n /\ \A i \in 1 .. n : i \in 0 .. n /\ i # 0
    OBVIOUS
  <2> QED BY <2>1, <2>2, ZenonT(30)
<1> QED BY <1>9, <1>10, ZenonT(30) DEF Fills

\* A rehash keeps every entry and removes the tombstones.
LEMMA RehashLemma ==
  ASSUME NEW n \in Nat \ {0}, NEW m, Table(m, n), NEW new \in Nat, new >= n
  PROVE  LET r == Rehash(m, n, new)
         IN  /\ Table(r, new) /\ Tombstones(r) = {} /\ Contents(r) = Contents(m)
             /\ Cardinality(Holding(r)) = Cardinality(Holding(m))
<1>1. PICK f : Rehash(m, n, new) = f[n] /\ Fills(f, m, n, new)
  BY RehashSteps
<1> DEFINE Before(k) == {j \in Holding(m) : j < k}
           Copied(k) == /\ Table(f[k], new) /\ Tombstones(f[k]) = {}
                        /\ Contents(f[k]) = {m[j] : j \in Before(k)}
                        /\ Cardinality(Holding(f[k])) = Cardinality(Before(k))
           S == {k \in 0 .. n : Copied(k)}
<1>2. /\ Holding(m) \subseteq 0 .. n - 1 /\ n \in Nat
      /\ \A j \in 0 .. n - 1 : m[j] \in Entries /\ (j \in Holding(m) <=> m[j].port # 0)
      /\ \A j \in Holding(m) : m[j].handler \in Handlers
  BY TableTypes
<1>3. 0 \in S
  <2>1. Before(0) = {}
    BY <1>2
  <2>2. /\ f[0] \in [0 .. new - 1 -> Entries] /\ DOMAIN f[0] = 0 .. new - 1
        /\ \A i \in 0 .. new - 1 : f[0][i].port = 0 /\ f[0][i].handler = NULL
    BY <1>1 DEF Fills, EmptyMap, FreeEntry, Entries
  <2>3. Holding(f[0]) = {} /\ Tombstones(f[0]) = {}
    BY <2>2, TableAssumption DEF Holding, Tombstones
  <2>4. Table(f[0], new)
    BY <2>2, <2>3, TableAssumption DEF Table
  <2>5. Contents(f[0]) = {}
    BY <2>3 DEF Contents
  <2> HIDE DEF Before
  <2> QED BY <2>1, <2>3, <2>4, <2>5
<1>4. ASSUME NEW k \in 0 .. n - 1, k \in S PROVE k + 1 \in S
  <2>1. k + 1 \in 1 .. n /\ k + 1 \in 0 .. n /\ (k + 1) - 1 = k
    OBVIOUS
  <2>2. f[k + 1] = IF m[k].port = 0 THEN f[k]
                   ELSE [f[k] EXCEPT ![Search(Unused(f[k]), new, m[k].port)] = m[k]]
    BY <1>1, <2>1 DEF Fills
  <2>3. CASE m[k].port = 0
    <3>1. Before(k + 1) = Before(k)
      BY <1>2, <2>3
    <3>2. f[k + 1] = f[k]
      BY <2>2, <2>3
    <3> HIDE DEF Before
    <3> QED BY <1>4, <2>1, <3>1, <3>2
  <2>4. CASE m[k].port # 0
    <3>1. k \in Holding(m) /\ Before(k + 1) = Before(k) \cup {k} /\ k \notin Before(k)
      BY <1>2, <2>4
    <3>2. IsFiniteSet(Before(k)) /\ Cardinality(Before(k)) <= k
      <4>1. Before(k) \subseteq 0 .. k - 1
        BY <1>2
      <4>2. IsFiniteSet(0 .. k - 1) /\ Cardinality(0 .. k - 1) = k
        <5>1. k - 1 \in Int /\ 0 \in Int
          OBVIOUS
        <5>2. /\ IsFiniteSet(0 .. k - 1)
              /\ Cardinality(0 .. k - 1) = IF 0 > k - 1 THEN 0 ELSE (k - 1) - 0 + 1
          BY <5>1, FS_Interval
        <5> QED BY <5>2
      <4> QED BY <4>1, <4>2, FS_Subset
    <3>3. IsFiniteSet(Holding(f[k])) /\ Holding(f[k]) \subseteq 0 .. new - 1
      <4>1. IsFiniteSet(0 .. new - 1)
        BY FS_Interval
      <4>2. Holding(f[k]) \subseteq 0 .. new - 1
        BY <1>4, TableTypes
      <4> QED BY <4>1, <4>2, FS_Subset
    <3> DEFINE i == Search(Unused(f[k]), new, m[k].port)
    <3>4. Unused(f[k]) # {}
      <4>1. Cardinality(Holding(f[k])) <= k /\ k < new
        BY <1>4, <3>2
      <4>2. Cardinality(0 .. new - 1) = new
        BY FS_Interval
      <4>3. Holding(f[k]) # 0 .. new - 1
        BY <4>1, <4>2
      <4>4. PICK j \in 0 .. new - 1 : j \notin Holding(f[k])
        BY <3>3, <4>3, ZenonT(30)
      <4>5. new \in Nat \ {0} /\ Table(f[k], new)
        BY <1>4
      <4>6. DOMAIN f[k] = 0 .. new - 1 /\ f[k][j].port = 0
        BY <4>4, <4>5, TableTypes
      <4> QED BY <4>6 DEF Unused
    <3>5. /\ m[k] \in Entries /\ m[k].port # 0 /\ m[k].handler \in Handlers
      BY <1>2, <2>4, <3>1
    <3>6. \A j \in 0 .. new - 1 : f[k][j].port # m[k].port
      <4> SUFFICES ASSUME NEW j \in 0 .. new - 1, f[k][j].port = m[k].port PROVE FALSE
        OBVIOUS
      <4>1. f[k][j] \in Contents(f[k])
        <5>1. new \in Nat \ {0} /\ Table(f[k], new)
          BY <1>4
        <5>2. DOMAIN f[k] = 0 .. new - 1
          BY <5>1, TableTypes
        <5>3. j \in Holding(f[k])
          BY <2>4, <5>2 DEF Holding
        <5> QED BY <5>3 DEF Contents
      <4>2. PICK h \in Before(k) : f[k][j] = m[h]
        BY <1>4, <4>1
      <4>3. h \in Holding(m) /\ h # k /\ m[h].port = m[k].port
        BY <4>2
      <4> QED BY <3>1, <4>3 DEF Table
    <3>7. /\ i \in 0 .. new - 1 /\ f[k][i].port = 0
          /\ Table(f[k + 1], new)
          /\ Holding(f[k + 1]) = Holding(f[k]) \cup {i}
          /\ Tombstones(f[k + 1]) = Tombstones(f[k]) \ {i}
          /\ Contents(f[k + 1]) = Contents(f[k]) \cup {m[k]}
      <4>1. f[k + 1] = [f[k] EXCEPT ![i] = m[k]]
        BY <2>2, <2>4
      <4>2. new \in Nat \ {0} /\ Table(f[k], new)
        BY <1>4
      <4> HIDE DEF Before
      <4>3. Inserted(f[k], new, m[k], i, f[k + 1])
        BY <3>4, <3>5, <3>6, <4>1, <4>2, InsertLemma
      <4> HIDE DEF i
      <4> QED BY <4>3, ZenonT(30) DEF Inserted
    <3> HIDE DEF i
    <3>8. Cardinality(Holding(f[k + 1])) = Cardinality(Before(k + 1))
      <4>1. i \notin Holding(f[k])
        BY <3>7 DEF Holding
      <4>2. Cardinality(Holding(f[k + 1])) = Cardinality(Holding(f[k])) + 1
        <5> DEFINE H == Holding(f[k])
        <5> HIDE DEF H
        <5>1. IsFiniteSet(H) /\ i \notin H
          BY <3>3, <4>1 DEF H
        <5>2. Cardinality(H \cup {i}) = Cardinality(H) + 1
          BY <5>1, FS_AddElement
        <5> QED BY <3>7, <5>2 DEF H
      <4>3. Cardinality(Before(k + 1)) = Cardinality(Before(k)) + 1
        BY <3>1, <3>2, FS_AddElement, ZenonT(30)
      <4> QED BY <1>4, <4>2, <4>3
    <3>9. Contents(f[k + 1]) = {m[j] : j \in Before(k + 1)}
      <4> HIDE DEF Before
      <4>1. Contents(f[k]) = {m[j] : j \in Before(k)}
        BY <1>4
      <4> QED BY <3>1, <3>7, <4>1, ZenonT(30)
    <3>10. Tombstones(f[k + 1]) = {}
      BY <1>4, <3>7
    <3> HIDE DEF Before
    <3> QED BY <2>1, <3>7, <3>8, <3>9, <3>10
  <2> QED BY <2>3, <2>4
<1>5. n \in S
  <2> HIDE DEF S
  <2>1. \A k \in 0 .. n : k \in S
    BY <1>2, <1>3, <1>4, SetInduction
  <2> QED BY <2>1
<1>6. Before(n) = Holding(m)
  BY <1>2
<1>7. Contents(m) = {m[j] : j \in Before(n)}
  BY <1>6 DEF Contents
<1> HIDE DEF Before
<1> QED BY <1>1, <1>5, <1>6, <1>7

-----------------------------------------------------------------------------
(* The invariant of the table: it is well formed, the counters are exact,  *)
(* a slot is free, and no id is ahead of next_port_.                       *)

TableInv ==
  /\ capacity \in Nat \ {0} /\ next_port \in Nat /\ next_port >= FirstPort
  /\ Table(map, capacity) /\ Free(map) # {}
  /\ used = Cardinality(Holding(map)) /\ deleted = Cardinality(Tombstones(map))
  /\ \A e \in Contents(map) : e.port < next_port

\* Every slot is free, a tombstone or holds a port.
LEMMA SlotCount ==
  ASSUME NEW n \in Nat \ {0}, NEW m, Table(m, n)
  PROVE  /\ IsFiniteSet(Holding(m)) /\ IsFiniteSet(Tombstones(m))
         /\ Cardinality(Holding(m)) \in Nat /\ Cardinality(Tombstones(m)) \in Nat
         /\ Cardinality(Holding(m)) + Cardinality(Tombstones(m)) <= n
         /\ Cardinality(Holding(m)) + Cardinality(Tombstones(m)) # n => Free(m) # {}
<1>1. /\ Holding(m) \subseteq 0 .. n - 1 /\ Tombstones(m) \subseteq 0 .. n - 1
      /\ Holding(m) \cap Tombstones(m) = {}
  BY TableTypes, TableAssumption DEF Tombstones
<1>2. IsFiniteSet(0 .. n - 1) /\ Cardinality(0 .. n - 1) = n
  BY FS_Interval
<1>3. IsFiniteSet(Holding(m)) /\ IsFiniteSet(Tombstones(m))
  BY <1>1, <1>2, FS_Subset
<1>4. Cardinality(Holding(m)) \in Nat /\ Cardinality(Tombstones(m)) \in Nat
  BY <1>3, FS_CardinalityType
<1> DEFINE B == Holding(m) \cup Tombstones(m)
<1>5. /\ IsFiniteSet(B) /\ B \subseteq 0 .. n - 1
      /\ Cardinality(B) = Cardinality(Holding(m)) + Cardinality(Tombstones(m))
  <2>1. Cardinality({}) = 0
    BY FS_EmptySet
  <2>2. /\ IsFiniteSet(B)
        /\ Cardinality(B) = Cardinality(Holding(m)) + Cardinality(Tombstones(m))
                              - Cardinality(Holding(m) \cap Tombstones(m))
    BY <1>3, FS_Union
  <2> QED BY <1>1, <1>4, <2>1, <2>2
<1>6. Cardinality(B) <= n
  BY <1>2, <1>5, FS_Subset
<1>7. ASSUME Free(m) = {} PROVE B = 0 .. n - 1
  <2>1. DOMAIN m = 0 .. n - 1
    BY TableTypes
  <2>2. \A i \in 0 .. n - 1 : m[i].port # 0 \/ m[i].handler = deleted_entry_
    BY <1>7, <2>1, TableTypes DEF Free
  <2>3. \A i \in 0 .. n - 1 : i \in B
    BY <2>1, <2>2 DEF Holding, Tombstones
  <2> QED BY <1>5, <2>3
<1> HIDE DEF B
<1> QED BY <1>2, <1>3, <1>4, <1>5, <1>6, <1>7

\* MaintainInvariants keeps the entries and leaves a free slot.
LEMMA MaintainLemma ==
  ASSUME capacity \in Nat \ {0}, NEW m, Table(m, capacity),
         MaintainInvariants(m, Cardinality(Holding(m)), Cardinality(Tombstones(m)))
  PROVE  /\ capacity' \in Nat \ {0} /\ Table(map', capacity') /\ Free(map') # {}
         /\ used' = Cardinality(Holding(map')) /\ deleted' = Cardinality(Tombstones(map'))
         /\ Contents(map') = Contents(m)
<1> DEFINE u == Cardinality(Holding(m))
           d == Cardinality(Tombstones(m))
<1>1. /\ u \in Nat /\ d \in Nat /\ u + d <= capacity
      /\ u + d # capacity => Free(m) # {}
  BY SlotCount
<1>2. MaintainInvariants(m, u, d)
  OBVIOUS
<1>3. used' = u
  BY DEF MaintainInvariants
<1>4. ASSUME NEW new \in Nat \ {0}, new >= capacity, u < new,
             map' = Rehash(m, capacity, new), capacity' = new, deleted' = 0
      PROVE  /\ Table(map', capacity') /\ Free(map') # {}
             /\ used' = Cardinality(Holding(map')) /\ deleted' = Cardinality(Tombstones(map'))
             /\ Contents(map') = Contents(m)
  <2>1. /\ Table(map', new) /\ Tombstones(map') = {} /\ Contents(map') = Contents(m)
        /\ Cardinality(Holding(map')) = u
    <3>1. new \in Nat /\ new >= capacity
      BY <1>4
    <3> QED BY <1>4, <3>1, RehashLemma
  <2>2. Cardinality(Tombstones(map')) = 0
    BY <2>1, FS_EmptySet
  <2> HIDE DEF u, d
  <2>3. Free(map') # {}
    BY <1>1, <1>4, <2>1, <2>2, SlotCount
  <2> QED BY <1>3, <1>4, <2>1, <2>2, <2>3
<1> HIDE DEF u, d
<1>5. CASE u > (capacity \div 4) * 3
  <2>1. map' = Rehash(m, capacity, capacity * 2) /\ capacity' = capacity * 2 /\ deleted' = 0
    BY <1>1, <1>2, <1>5 DEF MaintainInvariants
  <2>2. capacity * 2 \in Nat \ {0} /\ capacity * 2 >= capacity /\ u < capacity * 2
    BY <1>1
  <2> QED BY <1>4, <2>1, <2>2
<1>6. CASE u <= (capacity \div 4) * 3 /\ capacity - u - d < d
  <2>1. map' = Rehash(m, capacity, capacity) /\ capacity' = capacity /\ deleted' = 0
    BY <1>1, <1>2, <1>6 DEF MaintainInvariants
  <2>2. u < capacity
    BY <1>1, <1>6
  <2> QED BY <1>4, <2>1, <2>2
<1>7. CASE u <= (capacity \div 4) * 3 /\ capacity - u - d >= d
  <2>1. map' = m /\ capacity' = capacity /\ deleted' = d
    BY <1>1, <1>2, <1>7 DEF MaintainInvariants
  <2>2. u + d # capacity
    BY <1>1, <1>7
  <2> QED BY <1>1, <1>3, <2>1, <2>2 DEF u, d
<1> QED BY <1>1, <1>5, <1>6, <1>7

-----------------------------------------------------------------------------
(* What the table says about every id.                                     *)

OwnerIn(m, n) ==
  [p \in Ports |-> IF Find(m, n, p) = -1 THEN NULL ELSE m[Find(m, n, p)].handler]
LiveIn(m, n) ==
  [p \in Ports |-> Find(m, n, p) # -1 /\ m[Find(m, n, p)].live]

LEMMA PortsPositive == Ports \subseteq Nat \ {0}
BY TableAssumption DEF Ports

LEMMA Answers ==
  ASSUME NEW n \in Nat \ {0}, NEW m, Table(m, n), Free(m) # {}
  PROVE  /\ \A i \in Holding(m) : m[i].port \in Ports =>
              OwnerIn(m, n)[m[i].port] = m[i].handler /\ LiveIn(m, n)[m[i].port] = m[i].live
         /\ \A p \in Ports : (\A i \in Holding(m) : m[i].port # p) =>
              OwnerIn(m, n)[p] = NULL /\ LiveIn(m, n)[p] = FALSE
<1>1. ASSUME NEW i \in Holding(m), m[i].port \in Ports
      PROVE  OwnerIn(m, n)[m[i].port] = m[i].handler /\ LiveIn(m, n)[m[i].port] = m[i].live
  <2> DEFINE p == m[i].port
  <2>1. i \in 0 .. n - 1 /\ p \in Nat \ {0} /\ p \in Ports /\ m[i].live \in BOOLEAN
    BY <1>1, TableTypes, PortsPositive DEF Entries
  <2>2. Find(m, n, p) = i /\ i # -1
    BY <2>1, FindLemma
  <2> HIDE DEF p
  <2>3. OwnerIn(m, n)[p] = m[i].handler
    BY <2>1, <2>2 DEF OwnerIn
  <2>4. LiveIn(m, n)[p] = (Find(m, n, p) # -1 /\ m[Find(m, n, p)].live)
    BY <2>1, ZenonT(30) DEF LiveIn
  <2>5. LiveIn(m, n)[p] = (TRUE /\ m[i].live)
    BY <2>2, <2>4, ZenonT(30)
  <2> QED BY <2>1, <2>3, <2>5, ZenonT(30) DEF p
<1>2. ASSUME NEW p \in Ports, \A i \in Holding(m) : m[i].port # p
      PROVE  OwnerIn(m, n)[p] = NULL /\ LiveIn(m, n)[p] = FALSE
  <2>1. p \in Nat \ {0}
    BY PortsPositive
  <2>2. \A i \in 0 .. n - 1 : m[i].port # p
    BY <1>2, <2>1, TableTypes
  <2>3. Find(m, n, p) = -1
    BY <2>1, <2>2, FindLemma
  <2>4. LiveIn(m, n)[p] = (Find(m, n, p) # -1 /\ m[Find(m, n, p)].live)
    BY ZenonT(30) DEF LiveIn
  <2>5. OwnerIn(m, n)[p] = NULL
    BY <2>3 DEF OwnerIn
  <2> QED BY <2>3, <2>4, <2>5, ZenonT(30)
<1> QED BY <1>1, <1>2, ZenonT(30)

LEMMA ContentsAnswer ==
  ASSUME NEW n \in Nat \ {0}, NEW m, Table(m, n), Free(m) # {}
  PROVE  /\ \A x \in Contents(m) : x.port \in Ports =>
              OwnerIn(m, n)[x.port] = x.handler /\ LiveIn(m, n)[x.port] = x.live
         /\ \A p \in Ports : (\A x \in Contents(m) : x.port # p) =>
              OwnerIn(m, n)[p] = NULL /\ LiveIn(m, n)[p] = FALSE
<1>1. ASSUME NEW x \in Contents(m), x.port \in Ports
      PROVE  OwnerIn(m, n)[x.port] = x.handler /\ LiveIn(m, n)[x.port] = x.live
  <2>1. PICK i \in Holding(m) : x = m[i]
    BY DEF Contents
  <2>2. OwnerIn(m, n)[m[i].port] = m[i].handler /\ LiveIn(m, n)[m[i].port] = m[i].live
    BY <1>1, <2>1, Answers, ZenonT(30)
  <2> QED BY <2>1, <2>2, ZenonT(30)
<1>2. ASSUME NEW p \in Ports, \A x \in Contents(m) : x.port # p
      PROVE  OwnerIn(m, n)[p] = NULL /\ LiveIn(m, n)[p] = FALSE
  <2>1. \A i \in Holding(m) : m[i].port # p
    BY <1>2 DEF Contents
  <2> QED BY <2>1, Answers, ZenonT(30)
<1> QED BY <1>1, <1>2, ZenonT(30)

\* An id about which two tables store the same has the same answers.
LEMMA SameAnswer ==
  ASSUME NEW n \in Nat \ {0}, NEW m, Table(m, n), Free(m) # {},
         NEW n2 \in Nat \ {0}, NEW m2, Table(m2, n2), Free(m2) # {},
         NEW p \in Ports,
         \A x : x.port = p => (x \in Contents(m) <=> x \in Contents(m2))
  PROVE  OwnerIn(m2, n2)[p] = OwnerIn(m, n)[p] /\ LiveIn(m2, n2)[p] = LiveIn(m, n)[p]
<1>1. CASE \E x \in Contents(m) : x.port = p
  <2>1. PICK x \in Contents(m) : x.port = p
    BY <1>1
  <2>2. x \in Contents(m2)
    BY <2>1
  <2>3. OwnerIn(m, n)[p] = x.handler /\ LiveIn(m, n)[p] = x.live
    BY <2>1, ContentsAnswer, ZenonT(30)
  <2>4. OwnerIn(m2, n2)[p] = x.handler /\ LiveIn(m2, n2)[p] = x.live
    BY <2>1, <2>2, ContentsAnswer, ZenonT(30)
  <2> QED BY <2>3, <2>4, ZenonT(30)
<1>2. CASE ~\E x \in Contents(m) : x.port = p
  <2>1. OwnerIn(m, n)[p] = NULL /\ LiveIn(m, n)[p] = FALSE
    BY <1>2, ContentsAnswer, ZenonT(30)
  <2>2. ~\E x \in Contents(m2) : x.port = p
    BY <1>2
  <2>3. OwnerIn(m2, n2)[p] = NULL /\ LiveIn(m2, n2)[p] = FALSE
    BY <2>2, ContentsAnswer, ZenonT(30)
  <2> QED BY <2>1, <2>3, ZenonT(30)
<1> QED BY <1>1, <1>2

\* The refinement mapping.
LEMMA Mapping ==
  /\ [p \in Ports |-> IF FindPort(p) = -1 THEN NULL ELSE EntryOf(p).handler]
       = OwnerIn(map, capacity)
  /\ [p \in Ports |-> FindPort(p) # -1 /\ EntryOf(p).live] = LiveIn(map, capacity)
  /\ [p \in Ports |-> IF FindPort(p) = -1 THEN NULL ELSE EntryOf(p).handler]'
       = OwnerIn(map', capacity')
  /\ [p \in Ports |-> FindPort(p) # -1 /\ EntryOf(p).live]' = LiveIn(map', capacity')
BY ZenonT(30) DEF OwnerIn, LiveIn, FindPort, Find, EntryOf, Ports

\* The initial table.
LEMMA InitTable ==
  ASSUME Init
  PROVE  TableInv /\ Registry!Init
<1>1. /\ capacity \in Nat \ {0} /\ next_port \in Nat /\ next_port >= FirstPort
      /\ map \in [0 .. capacity - 1 -> Entries] /\ DOMAIN map = 0 .. capacity - 1
      /\ \A i \in 0 .. capacity - 1 : map[i].port = 0 /\ map[i].handler = NULL
  BY TableAssumption DEF Init, EmptyMap, FreeEntry, Entries
<1>2. Holding(map) = {} /\ Tombstones(map) = {} /\ 0 \in Free(map)
  BY <1>1, TableAssumption DEF Holding, Tombstones, Free
<1>3. Table(map, capacity) /\ Contents(map) = {}
  BY <1>1, <1>2, TableAssumption DEF Table, Contents
<1>4. used = Cardinality(Holding(map)) /\ deleted = Cardinality(Tombstones(map))
  BY <1>2, FS_EmptySet DEF Init
<1>5. TableInv
  BY <1>1, <1>2, <1>3, <1>4 DEF TableInv
<1>6. \A p \in Ports : OwnerIn(map, capacity)[p] = NULL /\ LiveIn(map, capacity)[p] = FALSE
  BY <1>1, <1>2, <1>3, Answers, ZenonT(30)
<1>7. /\ OwnerIn(map, capacity) = [p \in Ports |-> NULL]
      /\ LiveIn(map, capacity) = [p \in Ports |-> FALSE]
  BY <1>6, ZenonT(30) DEF OwnerIn, LiveIn
<1>8. {p \in Ports : p < next_port} = {}
  BY TableAssumption DEF Init, Ports
<1> QED BY <1>5, <1>7, <1>8, Mapping, ZenonT(30) DEF Registry!Init

-----------------------------------------------------------------------------
(* The actions.                                                            *)

\* AllocatePort never has to skip an id: all ids of the map are behind it.
LEMMA AllocateLemma ==
  ASSUME TableInv, AllocatePort
  PROVE  next_port' = next_port + 1
<1> DEFINE P(q) == /\ FindPort(q) = -1
                   /\ \A r \in next_port + 1 .. q - 1 : FindPort(r) # -1
<1>1. next_port \in Nat /\ capacity \in Nat \ {0} /\ Table(map, capacity) /\ Free(map) # {}
  BY DEF TableInv
<1>2. \A i \in 0 .. capacity - 1 : map[i].port # next_port + 1
  <2> SUFFICES ASSUME NEW i \in 0 .. capacity - 1, map[i].port = next_port + 1 PROVE FALSE
    OBVIOUS
  <2>1. i \in Holding(map)
    BY <1>1, TableTypes
  <2>2. map[i] \in Contents(map)
    BY <2>1 DEF Contents
  <2> QED BY <1>1, <2>2 DEF TableInv
<1>3. next_port + 1 \in Nat \ {0}
  BY <1>1
<1>4. Find(map, capacity, next_port + 1) = -1
  BY <1>1, <1>2, <1>3, FindLemma
<1>5. FindPort(next_port + 1) = -1
  BY <1>4, FindPortIs
<1>6. next_port + 1 .. (next_port + 1) - 1 = {}
  BY <1>1
<1>7. P(next_port + 1) /\ next_port + 1 \in next_port + 1 .. next_port + capacity + 1
  BY <1>1, <1>5, <1>6
<1>8. next_port' = CHOOSE q \in next_port + 1 .. next_port + capacity + 1 : P(q)
  BY DEF AllocatePort
<1>9. next_port' \in next_port + 1 .. next_port + capacity + 1 /\ P(next_port')
  <2> HIDE DEF P
  <2> QED BY <1>7, <1>8
<1>10. ~(next_port' > next_port + 1)
  <2> SUFFICES ASSUME next_port' > next_port + 1 PROVE FALSE
    OBVIOUS
  <2>1. next_port + 1 \in next_port + 1 .. next_port' - 1
    <3>1. next_port' \in next_port + 1 .. next_port + capacity + 1
      BY <1>9, ZenonT(30)
    <3>2. next_port' \in Int
      BY <1>1, <3>1
    <3>3. \A q \in Int : q > next_port + 1 => next_port + 1 \in next_port + 1 .. q - 1
      BY <1>1
    <3> QED BY <3>2, <3>3, ZenonT(30)
  <2> QED BY <1>5, <1>9, <2>1, ZenonT(30)
<1> QED BY <1>1, <1>9, <1>10

\* Every operation keeps the invariant and is a step of the registry.
LEMMA CreatePortStep ==
  ASSUME TableInv, NEW h \in Handlers, CreatePort(h)
  PROVE  TableInv' /\ Registry!CreatePort(next_port, h) /\ next_port \in Ports
<1> DEFINE port == next_port
           i == Search(Unused(map), capacity, port)
           e == [port |-> port, handler |-> h, live |-> FALSE]
           m == [map EXCEPT ![i] = e]
           d == IF map[i].handler = deleted_entry_ THEN deleted - 1 ELSE deleted
<1>1. /\ port \in Ports /\ AllocatePort /\ MaintainInvariants(m, used + 1, d)
  BY ZenonT(30) DEF CreatePort
<1>2. /\ port \in Nat \ {0} /\ capacity \in Nat \ {0}
      /\ Table(map, capacity) /\ Free(map) # {}
      /\ used = Cardinality(Holding(map)) /\ deleted = Cardinality(Tombstones(map))
  BY <1>1, PortsPositive DEF TableInv
<1>3. next_port' = port + 1
  BY <1>1, AllocateLemma
<1>4. Unused(map) # {}
  <2>1. PICK j \in DOMAIN map : map[j].handler = NULL
    BY <1>2 DEF Free
  <2>2. map[j].port = 0
    BY <1>2, <2>1, TableAssumption DEF Table
  <2> QED BY <2>2 DEF Unused
<1>5. e \in Entries /\ e.port = port /\ e.port # 0 /\ e.handler = h /\ e.live = FALSE
  BY <1>2 DEF Entries
<1>6. \A j \in 0 .. capacity - 1 : map[j].port # port
  <2> SUFFICES ASSUME NEW j \in 0 .. capacity - 1, map[j].port = port PROVE FALSE
    OBVIOUS
  <2>1. j \in Holding(map)
    BY <1>2, TableTypes
  <2>2. map[j] \in Contents(map)
    BY <2>1 DEF Contents
  <2> QED BY <1>2, <2>2 DEF TableInv
<1>7. /\ i \in 0 .. capacity - 1 /\ map[i].port = 0
      /\ Table(m, capacity)
      /\ Holding(m) = Holding(map) \cup {i}
      /\ Tombstones(m) = Tombstones(map) \ {i}
      /\ Contents(m) = Contents(map) \cup {e}
  <2>1. capacity \in Nat \ {0} /\ Table(map, capacity)
    BY <1>2
  <2>2. e \in Entries /\ e.port # 0 /\ e.handler \in Handlers
    BY <1>5
  <2>3. \A j \in 0 .. capacity - 1 : map[j].port # e.port
    BY <1>5, <1>6
  <2>4. i = Search(Unused(map), capacity, e.port)
    BY <1>5
  <2>5. m = [map EXCEPT ![i] = e]
    OBVIOUS
  <2> HIDE DEF i, e, m
  <2>6. Inserted(map, capacity, e, i, m)
    BY <1>4, <2>1, <2>2, <2>3, <2>4, <2>5, InsertLemma, ZenonT(30)
  <2> QED BY <2>6, ZenonT(30) DEF Inserted
<1> HIDE DEF i, e, m
<1>8. used + 1 = Cardinality(Holding(m)) /\ d = Cardinality(Tombstones(m))
  <2>1. IsFiniteSet(Holding(map)) /\ IsFiniteSet(Tombstones(map))
    BY <1>2, SlotCount
  <2>2. i \notin Holding(map) /\ (i \in Tombstones(map) <=> map[i].handler = deleted_entry_)
    BY <1>2, <1>7, TableTypes DEF Holding, Tombstones
  <2>3. Cardinality(Holding(map) \cup {i}) = Cardinality(Holding(map)) + 1
    BY <2>1, <2>2, FS_AddElement, ZenonT(30)
  <2>4. Cardinality(Tombstones(map) \ {i}) =
          IF i \in Tombstones(map) THEN Cardinality(Tombstones(map)) - 1
                                   ELSE Cardinality(Tombstones(map))
    BY <2>1, FS_RemoveElement, ZenonT(30)
  <2> QED BY <1>2, <1>7, <2>2, <2>3, <2>4
<1>9. /\ capacity' \in Nat \ {0} /\ Table(map', capacity') /\ Free(map') # {}
      /\ used' = Cardinality(Holding(map')) /\ deleted' = Cardinality(Tombstones(map'))
      /\ Contents(map') = Contents(map) \cup {e}
  <2>1. MaintainInvariants(m, Cardinality(Holding(m)), Cardinality(Tombstones(m)))
    BY <1>1, <1>8
  <2> QED BY <1>2, <1>7, <2>1, MaintainLemma
<1>10. TableInv'
  <2>1. \A x \in Contents(map') : x.port < next_port'
    <3>1. \A x \in Contents(map) : x.port \in Nat /\ x.port < next_port
      BY <1>2, TableTypes DEF TableInv, Contents
    <3> QED BY <1>2, <1>3, <1>5, <1>9, <3>1
  <2>2. next_port' \in Nat /\ next_port' >= FirstPort
    BY <1>2, <1>3, TableAssumption DEF TableInv
  <2> QED BY <1>9, <2>1, <2>2 DEF TableInv
<1>11. ASSUME NEW p \in Ports
       PROVE  /\ OwnerIn(map', capacity')[p] =
                   IF p = port THEN h ELSE OwnerIn(map, capacity)[p]
              /\ LiveIn(map', capacity')[p] = LiveIn(map, capacity)[p]
  <2>1. CASE p = port
    <3>1. \A x \in Contents(map) : x.port # p
      BY <1>2, <2>1, TableTypes DEF TableInv, Contents
    <3>2. LiveIn(map, capacity)[p] = FALSE
      BY <1>2, <3>1, ContentsAnswer, ZenonT(30)
    <3>3. e \in Contents(map')
      BY <1>9
    <3>4. OwnerIn(map', capacity')[p] = h /\ LiveIn(map', capacity')[p] = e.live
      BY <1>5, <1>9, <2>1, <3>3, ContentsAnswer, ZenonT(30)
    <3> QED BY <1>5, <2>1, <3>2, <3>4, ZenonT(30)
  <2>2. CASE p # port
    <3>1. \A x : x.port = p => (x \in Contents(map) <=> x \in Contents(map'))
      BY <1>5, <1>9, <2>2
    <3>2. /\ OwnerIn(map', capacity')[p] = OwnerIn(map, capacity)[p]
          /\ LiveIn(map', capacity')[p] = LiveIn(map, capacity)[p]
      BY <1>2, <1>9, <3>1, SameAnswer
    <3> QED BY <2>2, <3>2, ZenonT(30)
  <2> QED BY <2>1, <2>2
<1>12. /\ OwnerIn(map', capacity') = [OwnerIn(map, capacity) EXCEPT ![port] = h]
       /\ LiveIn(map', capacity') = LiveIn(map, capacity)
  BY <1>11, ZenonT(30) DEF OwnerIn, LiveIn
<1>13. port \notin {p \in Ports : p < next_port}
  BY <1>2
<1>14. {p \in Ports : p < next_port}' = {p \in Ports : p < next_port} \cup {port}
  <2>1. \A p \in Ports : p < port + 1 <=> p < port \/ p = port
    BY <1>2, PortsPositive
  <2>2. {p \in Ports : p < next_port}' = {p \in Ports : p < next_port'}
    BY DEF Ports
  <2> QED BY <1>1, <1>3, <2>1, <2>2
<1>15. Registry!CreatePort(port, h)
  BY <1>12, <1>13, <1>14, Mapping DEF Registry!CreatePort
<1> QED BY <1>1, <1>10, <1>15

\* A search that finds a slot has found the slot of the port.
LEMMA Found ==
  ASSUME TableInv, NEW port \in Ports, FindPort(port) >= 0
  PROVE  /\ FindPort(port) \in Holding(map) /\ map[FindPort(port)].port = port
<1>1. /\ capacity \in Nat \ {0} /\ Table(map, capacity) /\ Free(map) # {}
      /\ port \in Nat \ {0} /\ FindPort(port) = Find(map, capacity, port)
  BY FindPortIs, PortsPositive DEF TableInv
<1>2. PICK i \in 0 .. capacity - 1 : map[i].port = port
  BY <1>1, FindLemma
<1>3. FindPort(port) = i
  BY <1>1, <1>2, FindLemma
<1> QED BY <1>1, <1>2, <1>3, TableTypes

\* The ports in the slots S are closed.
LEMMA CloseSlots ==
  ASSUME TableInv, NEW S, S \subseteq Holding(map), NEW P, P \subseteq Ports,
         \A i \in Holding(map) : map[i].port \in Ports => (i \in S <=> map[i].port \in P),
         NEW m, m = [i \in DOMAIN map |-> IF i \in S THEN Bury(map[i]) ELSE map[i]],
         MaintainInvariants(m, used - Cardinality(S), deleted + Cardinality(S)),
         UNCHANGED next_port
  PROVE  TableInv' /\ Registry!ClosePorts(P)
<1>1. /\ capacity \in Nat \ {0} /\ Table(map, capacity) /\ Free(map) # {}
      /\ used = Cardinality(Holding(map)) /\ deleted = Cardinality(Tombstones(map))
  BY DEF TableInv
<1>2. /\ Table(m, capacity)
      /\ Holding(m) = Holding(map) \ S
      /\ Tombstones(m) = Tombstones(map) \cup S
      /\ Contents(m) = {map[i] : i \in Holding(map) \ S}
  <2>1. Buried(map, capacity, S, m)
    BY <1>1, BuryLemma
  <2> QED BY <2>1, ZenonT(30) DEF Buried
<1>3. /\ used - Cardinality(S) = Cardinality(Holding(m))
      /\ deleted + Cardinality(S) = Cardinality(Tombstones(m))
  <2>1. /\ IsFiniteSet(Holding(map)) /\ IsFiniteSet(Tombstones(map))
        /\ Cardinality(Holding(map)) \in Nat /\ Cardinality(Tombstones(map)) \in Nat
    BY <1>1, SlotCount
  <2>2. IsFiniteSet(S) /\ Cardinality(S) \in Nat
    BY <2>1, FS_Subset, FS_CardinalityType
  <2>3. Holding(map) \cap S = S /\ Tombstones(map) \cap S = {}
    BY <1>1, TableTypes, TableAssumption DEF Tombstones
  <2>4. Cardinality(Holding(map) \ S) = Cardinality(Holding(map)) - Cardinality(Holding(map) \cap S)
    BY <2>1, <2>2, FS_Difference, ZenonT(30)
  <2>5. Cardinality(Tombstones(map) \cup S)
          = Cardinality(Tombstones(map)) + Cardinality(S) - Cardinality(Tombstones(map) \cap S)
    BY <2>1, <2>2, FS_Union
  <2>6. Cardinality({}) = 0
    BY FS_EmptySet
  <2>7. Cardinality(Holding(m)) = Cardinality(Holding(map)) - Cardinality(S)
    BY <1>2, <2>3, <2>4, ZenonT(30)
  <2>8. Cardinality(Tombstones(m)) = Cardinality(Tombstones(map)) + Cardinality(S) - 0
    BY <1>2, <2>3, <2>5, <2>6, ZenonT(30)
  <2> QED BY <1>1, <2>1, <2>2, <2>7, <2>8
<1>4. /\ capacity' \in Nat \ {0} /\ Table(map', capacity') /\ Free(map') # {}
      /\ used' = Cardinality(Holding(map')) /\ deleted' = Cardinality(Tombstones(map'))
      /\ Contents(map') = Contents(m)
  <2>1. MaintainInvariants(m, Cardinality(Holding(m)), Cardinality(Tombstones(m)))
    BY <1>3
  <2> QED BY <1>1, <1>2, <2>1, MaintainLemma
<1>5. TableInv'
  <2>1. Contents(map') \subseteq Contents(map)
    BY <1>2, <1>4, ZenonT(30) DEF Contents
  <2> QED BY <1>4, <2>1 DEF TableInv
<1>6. ASSUME NEW p \in Ports
      PROVE  /\ OwnerIn(map', capacity')[p] = IF p \in P THEN NULL ELSE OwnerIn(map, capacity)[p]
             /\ LiveIn(map', capacity')[p] = (LiveIn(map, capacity)[p] /\ p \notin P)
  <2>0. LiveIn(map, capacity)[p] \in BOOLEAN
    BY ZenonT(30) DEF LiveIn
  <2>1. CASE p \in P
    <3>1. ASSUME NEW x \in Contents(map'), x.port = p PROVE FALSE
      <4>1. PICK i \in Holding(map) \ S : x = map[i]
        BY <1>2, <1>4
      <4> QED BY <2>1, <3>1, <4>1
    <3>2. OwnerIn(map', capacity')[p] = NULL /\ LiveIn(map', capacity')[p] = FALSE
      BY <1>4, <3>1, ContentsAnswer, ZenonT(30)
    <3> QED BY <2>1, <3>2, ZenonT(30)
  <2>2. CASE p \notin P
    <3>1. ASSUME NEW x, x.port = p PROVE x \in Contents(map) <=> x \in Contents(map')
      <4>1. ASSUME NEW i \in Holding(map), x = map[i] PROVE i \notin S
        BY <2>2, <3>1, <4>1
      <4>2. x \in Contents(map) <=> \E i \in Holding(map) : x = map[i]
        BY DEF Contents
      <4>3. x \in Contents(map') <=> \E i \in Holding(map) \ S : x = map[i]
        BY <1>2, <1>4
      <4> QED BY <4>1, <4>2, <4>3, ZenonT(30)
    <3>2. /\ OwnerIn(map', capacity')[p] = OwnerIn(map, capacity)[p]
          /\ LiveIn(map', capacity')[p] = LiveIn(map, capacity)[p]
      BY <1>1, <1>4, <3>1, SameAnswer
    <3> QED BY <2>0, <2>2, <3>2, ZenonT(30)
  <2> QED BY <2>1, <2>2
<1>7. /\ OwnerIn(map', capacity') = [p \in Ports |-> IF p \in P THEN NULL ELSE OwnerIn(map, capacity)[p]]
      /\ LiveIn(map', capacity') = [p \in Ports |-> LiveIn(map, capacity)[p] /\ p \notin P]
  BY <1>6, ZenonT(30) DEF OwnerIn, LiveIn
<1>8. {p \in Ports : p < next_port}' = {p \in Ports : p < next_port}
  BY DEF Ports
<1>9. Registry!ClosePorts(P)
  BY <1>7, <1>8, Mapping, ZenonT(30) DEF Registry!ClosePorts
<1> QED BY <1>5, <1>9

LEMMA ClosePortStep ==
  ASSUME TableInv, NEW port \in Ports, ClosePort(port)
  PROVE  TableInv' /\ port \in Registry!Open /\ Registry!ClosePorts({port})
<1> DEFINE i == FindPort(port)
<1>1. i >= 0 /\ UNCHANGED next_port
      /\ MaintainInvariants([map EXCEPT ![i] = Bury(@)], used - 1, deleted + 1)
  BY DEF ClosePort
<1>2. i \in Holding(map) /\ map[i].port = port
  BY <1>1, Found
<1>3. /\ capacity \in Nat \ {0} /\ Table(map, capacity) /\ Free(map) # {}
  BY DEF TableInv
<1> HIDE DEF i
<1> DEFINE m == [j \in DOMAIN map |-> IF j \in {i} THEN Bury(map[j]) ELSE map[j]]
<1>4. [map EXCEPT ![i] = Bury(@)] = m
  <2>1. map = [j \in DOMAIN map |-> map[j]] /\ i \in DOMAIN map
    BY <1>2, <1>3, TableTypes DEF Table
  <2> QED BY <2>1
<1>5. Cardinality({i}) = 1
  BY FS_Singleton
<1>6. MaintainInvariants(m, used - Cardinality({i}), deleted + Cardinality({i}))
  BY <1>1, <1>4, <1>5
<1>7. /\ {i} \subseteq Holding(map) /\ {port} \subseteq Ports
      /\ \A j \in Holding(map) : map[j].port \in Ports => (j \in {i} <=> map[j].port \in {port})
  BY <1>2, <1>3 DEF Table
<1> HIDE DEF m
<1>8. TableInv' /\ Registry!ClosePorts({port})
  BY <1>1, <1>6, <1>7, CloseSlots, ZenonT(30) DEF m
<1>9. OwnerIn(map, capacity)[port] = map[i].handler /\ map[i].handler \in Handlers
  BY <1>2, <1>3, Answers, TableTypes, ZenonT(30)
<1>10. port \in Registry!Open
  BY <1>9, Mapping, TableAssumption DEF Registry!Open
<1> QED BY <1>8, <1>10

LEMMA ClosePortsStep ==
  ASSUME TableInv, NEW h \in Handlers, ClosePorts(h)
  PROVE  TableInv' /\ Registry!ClosePorts(Registry!PortsOf(h))
<1> DEFINE S == {i \in DOMAIN map : map[i].handler = h}
           P == {p \in Ports : OwnerIn(map, capacity)[p] = h}
           m == [i \in DOMAIN map |-> IF i \in S THEN Bury(map[i]) ELSE map[i]]
<1>1. /\ MaintainInvariants(m, used - Cardinality(S), deleted + Cardinality(S))
      /\ UNCHANGED next_port
  BY DEF ClosePorts
<1>2. /\ capacity \in Nat \ {0} /\ Table(map, capacity) /\ Free(map) # {}
  BY DEF TableInv
<1>3. S \subseteq Holding(map) /\ P \subseteq Ports
  BY <1>2, TableTypes DEF Table, Holding
<1>4. \A i \in Holding(map) : map[i].port \in Ports => (i \in S <=> map[i].port \in P)
  BY <1>2, Answers, ZenonT(30) DEF Holding
<1>5. Registry!PortsOf(h) = P
  BY Mapping, ZenonT(30) DEF Registry!PortsOf
<1>6. m = [i \in DOMAIN map |-> IF i \in S THEN Bury(map[i]) ELSE map[i]]
  OBVIOUS
<1> HIDE DEF S, P, m
<1>7. TableInv' /\ Registry!ClosePorts(P)
  BY <1>1, <1>3, <1>4, <1>6, CloseSlots, ZenonT(30)
<1> QED BY <1>5, <1>7

LEMMA SetLiveStep ==
  ASSUME TableInv, NEW port \in Ports, SetLive(port)
  PROVE  TableInv' /\ Registry!SetLive(port)
<1> DEFINE i == FindPort(port)
<1>1. /\ i >= 0 /\ map' = [map EXCEPT ![i].live = TRUE]
      /\ UNCHANGED <<capacity, used, deleted, next_port>>
  BY DEF SetLive
<1>2. i \in Holding(map) /\ map[i].port = port
  BY <1>1, Found
<1>3. /\ capacity \in Nat \ {0} /\ Table(map, capacity) /\ Free(map) # {}
  BY DEF TableInv
<1> HIDE DEF i
<1>4. /\ map \in [0 .. capacity - 1 -> Entries] /\ DOMAIN map = 0 .. capacity - 1
      /\ Holding(map) \subseteq 0 .. capacity - 1 /\ map[i] \in Entries
      /\ map[i].handler \in Handlers
  BY <1>2, <1>3, TableTypes
<1> DEFINE e == [map[i] EXCEPT !.live = TRUE]
<1>5. /\ e \in Entries /\ e.port = port /\ e.handler = map[i].handler /\ e.live = TRUE
  BY <1>2, <1>4, ZenonT(30) DEF Entries
<1>6. map' = [map EXCEPT ![i] = e]
  BY <1>1
<1> HIDE DEF e
<1>7. /\ map' \in [0 .. capacity - 1 -> Entries] /\ DOMAIN map' = 0 .. capacity - 1
      /\ map'[i] = e /\ \A j \in 0 .. capacity - 1 : j # i => map'[j] = map[j]
  BY <1>2, <1>4, <1>5, <1>6
<1>8. \A j \in 0 .. capacity - 1 : map'[j].port = map[j].port /\ map'[j].handler = map[j].handler
  BY <1>2, <1>5, <1>7
<1>9. Holding(map') = Holding(map) /\ Tombstones(map') = Tombstones(map) /\ Free(map') = Free(map)
  BY <1>4, <1>7, <1>8 DEF Holding, Tombstones, Free
<1>10. Table(map', capacity)
  <2>1. ASSUME NEW j \in Holding(map) PROVE Reached(map', capacity, j)
    <3>1. \A k \in 0 .. capacity - 1 : map[k].handler # NULL => map'[k].handler # NULL
      BY <1>8
    <3>2. map'[j].port = map[j].port
      BY <1>4, <1>8
    <3> QED BY <1>3, <3>1, <3>2, StillReached
  <2>2. \A j \in 0 .. capacity - 1 : map'[j].port # 0 <=> map'[j].handler \in Handlers
    BY <1>3, <1>8 DEF Table
  <2>3. \A j, k \in Holding(map') : map'[j].port = map'[k].port => j = k
    BY <1>3, <1>4, <1>8, <1>9 DEF Table
  <2> QED BY <1>7, <1>9, <2>1, <2>2, <2>3 DEF Table
<1>11. \A x \in Contents(map') : x = e \/ x \in Contents(map)
  BY <1>4, <1>7, <1>9 DEF Contents
<1>12. TableInv'
  <2>1. map[i] \in Contents(map)
    BY <1>2 DEF Contents
  <2>2. port < next_port
    BY <1>2, <2>1 DEF TableInv
  <2>3. \A x \in Contents(map') : x.port < next_port
    BY <1>5, <1>11, <2>2 DEF TableInv
  <2> QED BY <1>1, <1>9, <1>10, <2>3, ZenonT(30) DEF TableInv
<1>13. ASSUME NEW p \in Ports
       PROVE  /\ OwnerIn(map', capacity)[p] = OwnerIn(map, capacity)[p]
              /\ LiveIn(map', capacity)[p] = IF p = port THEN TRUE ELSE LiveIn(map, capacity)[p]
  <2>1. CASE p = port
    <3>1. OwnerIn(map, capacity)[p] = map[i].handler
      BY <1>2, <1>3, <2>1, Answers, ZenonT(30)
    <3>2. Free(map') # {} /\ i \in Holding(map') /\ map'[i].port = p
      BY <1>2, <1>3, <1>5, <1>7, <1>9, <2>1
    <3>3. OwnerIn(map', capacity)[p] = map'[i].handler /\ LiveIn(map', capacity)[p] = map'[i].live
      BY <1>3, <1>10, <3>2, Answers, ZenonT(30)
    <3> QED BY <1>5, <1>7, <2>1, <3>1, <3>3, ZenonT(30)
  <2>2. CASE p # port
    <3>1. ASSUME NEW x, x.port = p PROVE x \in Contents(map) <=> x \in Contents(map')
      <4>1. x # e /\ x # map[i]
        BY <1>2, <1>5, <2>2, <3>1
      <4> QED BY <1>4, <1>7, <1>9, <4>1 DEF Contents
    <3>2. Free(map') # {}
      BY <1>3, <1>9
    <3>3. /\ OwnerIn(map', capacity)[p] = OwnerIn(map, capacity)[p]
          /\ LiveIn(map', capacity)[p] = LiveIn(map, capacity)[p]
      BY <1>3, <1>10, <3>1, <3>2, SameAnswer
    <3> QED BY <2>2, <3>3, ZenonT(30)
  <2> QED BY <2>1, <2>2, ZenonT(30)
<1>14. /\ OwnerIn(map', capacity') = OwnerIn(map, capacity)
       /\ LiveIn(map', capacity') = [LiveIn(map, capacity) EXCEPT ![port] = TRUE]
  <2>1. capacity' = capacity
    BY <1>1
  <2>2. /\ OwnerIn(map', capacity) = OwnerIn(map, capacity)
        /\ LiveIn(map', capacity) = [LiveIn(map, capacity) EXCEPT ![port] = TRUE]
    BY <1>13, ZenonT(30) DEF OwnerIn, LiveIn
  <2> QED BY <2>1, <2>2
<1>15. OwnerIn(map, capacity)[port] # NULL
  <2>1. OwnerIn(map, capacity)[port] = map[i].handler
    BY <1>2, <1>3, Answers, ZenonT(30)
  <2> QED BY <1>4, <2>1, TableAssumption
<1>16. port \in Registry!Open
  BY <1>15, Mapping DEF Registry!Open
<1>17. {p \in Ports : p < next_port}' = {p \in Ports : p < next_port}
  BY <1>1 DEF Ports
<1>18. Registry!SetLive(port)
  BY <1>14, <1>16, <1>17, Mapping, ZenonT(30) DEF Registry!SetLive
<1> QED BY <1>12, <1>18

LEMMA NextStep ==
  ASSUME TableInv, [Next]_vars
  PROVE  TableInv' /\ [Registry!Next]_(Registry!registryVars)
<1>1. CASE UNCHANGED vars
  <2>1. TableInv'
    BY <1>1 DEF TableInv, vars
  <2>2. map' = map /\ capacity' = capacity /\ next_port' = next_port
    BY <1>1 DEF vars
  <2>3. /\ OwnerIn(map', capacity') = OwnerIn(map, capacity)
        /\ LiveIn(map', capacity') = LiveIn(map, capacity)
    BY <2>2
  <2>4. {p \in Ports : p < next_port}' = {p \in Ports : p < next_port}
    BY <2>2 DEF Ports
  <2> QED BY <2>1, <2>3, <2>4, Mapping DEF Registry!registryVars
<1>2. ASSUME NEW h \in Handlers, CreatePort(h)
      PROVE  TableInv' /\ Registry!Next
  <2>1. TableInv' /\ Registry!CreatePort(next_port, h) /\ next_port \in Ports
    BY <1>2, CreatePortStep
  <2> QED BY <2>1 DEF Registry!Next
<1>3. ASSUME NEW h \in Handlers, ClosePorts(h)
      PROVE  TableInv' /\ Registry!Next
  <2>1. TableInv' /\ Registry!ClosePorts(Registry!PortsOf(h))
    BY <1>3, ClosePortsStep
  <2> QED BY <2>1 DEF Registry!Next
<1>4. ASSUME NEW port \in Ports, SetLive(port)
      PROVE  TableInv' /\ Registry!Next
  <2>1. TableInv' /\ Registry!SetLive(port)
    BY <1>4, SetLiveStep
  <2>2. port \in Registry!Open
    BY <2>1 DEF Registry!SetLive
  <2> QED BY <2>1, <2>2 DEF Registry!Next
<1>5. ASSUME NEW port \in Ports, ClosePort(port)
      PROVE  TableInv' /\ Registry!Next
  <2>1. TableInv' /\ port \in Registry!Open /\ Registry!ClosePorts({port})
    BY <1>5, ClosePortStep
  <2> QED BY <2>1, ZenonT(30) DEF Registry!Next
<1> QED BY <1>1, <1>2, <1>3, <1>4, <1>5 DEF Next

-----------------------------------------------------------------------------
\* A slot is free after every operation of PortMap, so that the loop of
\* FindPort, which stops at a free slot, ends for any id, and CreatePort
\* finds a slot ("Prevent endless loops."): growing at three quarters and
\* rehashing when tombstones outnumber the free slots is enough, whatever
\* the initial capacity.
THEOREM SearchesEnd ==
  Spec => []SearchEnds
<1>1. Init => TableInv
  BY InitTable
<1>2. TableInv /\ [Next]_vars => TableInv'
  BY NextStep
<1>3. TableInv => SearchEnds
  BY DEF TableInv, Free, SearchEnds
<1> QED BY <1>1, <1>2, <1>3, PTL DEF Spec

\* used_ and deleted_, from which MaintainInvariants decides when to grow and
\* when to flush, count the ports and the tombstones of the table.
CountersExact ==
  used = Cardinality(Holding(map)) /\ deleted = Cardinality(Tombstones(map))

\* The counters are exact after every operation of PortMap, the reuse of a
\* tombstone by CreatePort and the rehash at the end of each included.
THEOREM TableCountersExact ==
  Spec => []CountersExact
<1>1. Init => TableInv
  BY InitTable
<1>2. TableInv /\ [Next]_vars => TableInv'
  BY NextStep
<1>3. TableInv => CountersExact
  BY DEF TableInv, CountersExact
<1> QED BY <1>1, <1>2, <1>3, PTL DEF Spec

\* The table is the map that port.h promises: through collisions, tombstones
\* that are taken again, growth and rehashes FindPort answers for every id
\* exactly what PortRegistry says.
THEOREM TableRefinesRegistry ==
  Spec => ImplementsRegistry
<1>1. Init => TableInv /\ Registry!Init
  BY InitTable
<1>2. TableInv /\ [Next]_vars => TableInv'
  BY NextStep
<1>3. TableInv /\ [Next]_vars => [Registry!Next]_(Registry!registryVars)
  BY NextStep
<1> QED BY <1>1, <1>2, <1>3, PTL DEF Spec, ImplementsRegistry, Registry!Spec

-----------------------------------------------------------------------------
(* MessageQueue.                                                           *)

\* What a pointer of the list may be.
Nodes == Messages \cup {NULL}

\* What a pointer to the i-th message of a list holds.
At(s, i) == IF i \in 1 .. Len(s) THEN s[i] ELSE NULL

\* The pointers from head on go through the messages of s, each of them once.
Linked(s, head, nx) ==
  /\ s \in Seq(Messages) /\ IsInjective(s) /\ nx \in [Messages -> Nodes]
  /\ head = At(s, 1)
  /\ \A i \in 1 .. Len(s) : nx[s[i]] = At(s, i + 1)

-----------------------------------------------------------------------------
(* The walk along the list.                                                *)

\* A list is no longer than the number of messages.
LEMMA ListBounded ==
  ASSUME NEW s \in Seq(Messages), IsInjective(s)
  PROVE  Cardinality(Messages) \in Nat /\ Len(s) \in 0 .. Cardinality(Messages)
<1>1. Len(s) \in Nat /\ s \in [1 .. Len(s) -> Messages] /\ DOMAIN s = 1 .. Len(s)
  OBVIOUS
<1>2. s \in Injection(1 .. Len(s), Messages)
  BY <1>1 DEF Injection, IsInjective
<1>3. Cardinality(1 .. Len(s)) <= Cardinality(Messages)
  BY <1>2, FS_Injection, QueueAssumption
<1>4. Cardinality(1 .. Len(s)) = Len(s)
  BY <1>1, FS_Interval
<1>5. Cardinality(Messages) \in Nat
  BY FS_CardinalityType, QueueAssumption
<1> QED BY <1>1, <1>3, <1>4, <1>5

\* The recursion of Walk.
LEMMA WalkSteps ==
  ASSUME NEW head \in Nodes, NEW nx \in [Messages -> Nodes]
  PROVE  /\ Walk(head, nx)[0] = head
         /\ \A i \in 1 .. Cardinality(Messages) :
              Walk(head, nx)[i] = IF Walk(head, nx)[i - 1] = NULL THEN NULL
                                  ELSE nx[Walk(head, nx)[i - 1]]
<1> DEFINE k == Cardinality(Messages)
           After(x) == IF x = NULL THEN NULL ELSE nx[x]
           step == [i \in 1 .. k |-> [x \in Nodes |-> After(x)]]
           Defines(f) == f = [i \in Turns |->
                                IF i = 0 THEN head
                                ELSE IF f[i - 1] = NULL THEN NULL ELSE nx[f[i - 1]]]
<1>0. k \in Nat
  BY FS_CardinalityType, QueueAssumption
<1>1. \A x \in Nodes : After(x) \in Nodes
  BY DEF Nodes
<1>2. step \in [1 .. k -> [Nodes -> Nodes]] /\ \A i \in 1 .. k, x \in Nodes : step[i][x] = After(x)
  <2> HIDE DEF After, k
  <2> QED BY <1>1
<1>3. PICK f : Iterates(f, k, Nodes, head, step)
  <2> HIDE DEF step, k
  <2> QED BY <1>0, <1>2, RecursionExists
<1>4. f \in [0 .. k -> Nodes] /\ f[0] = head /\ \A i \in 1 .. k : f[i] = step[i][f[i - 1]]
  <2> HIDE DEF step, k
  <2> QED BY <1>3 DEF Iterates
<1>5. ASSUME NEW i \in 0 .. k PROVE f[i] = IF i = 0 THEN head ELSE After(f[i - 1])
  <2>1. CASE i = 0
    BY <1>4, <2>1
  <2>2. CASE i # 0
    <3> HIDE DEF k, step, After
    <3>1. i \in 1 .. k /\ i - 1 \in 0 .. k
      BY <1>0, <2>2
    <3>2. f[i - 1] \in Nodes
      BY <1>4, <3>1
    <3> QED BY <1>2, <1>4, <2>2, <3>1, <3>2
  <2> QED BY <2>1, <2>2
<1>6. Defines(f)
  <2> HIDE DEF step
  <2> QED BY <1>4, <1>5 DEF Turns
<1> DEFINE g == CHOOSE h : Defines(h)
<1>7. Defines(g)
  <2> HIDE DEF Defines
  <2> QED BY <1>6
<1>8. Walk(head, nx) = g
  BY DEF Walk
<1>9. g[0] = head /\ \A i \in 1 .. k : g[i] = After(g[i - 1])
  <2> HIDE DEF g
  <2>1. \A i \in 0 .. k : g[i] = IF i = 0 THEN head ELSE After(g[i - 1])
    BY <1>7 DEF Turns
  <2>2. 0 \in 0 .. k /\ \A i \in 1 .. k : i \in 0 .. k /\ i # 0
    BY <1>0
  <2> HIDE DEF After, k
  <2> QED BY <2>1, <2>2
<1> QED BY <1>8, <1>9

\* The messages that a walk meets are those of the list.
LEMMA FromList ==
  ASSUME NEW s, NEW head, NEW nx, Linked(s, head, nx)
  PROVE  From(head, nx) = s
<1> DEFINE k == Cardinality(Messages)
           n == Len(s)
<1>1. /\ s \in Seq(Messages) /\ IsInjective(s) /\ nx \in [Messages -> Nodes]
      /\ head = At(s, 1) /\ \A i \in 1 .. n : nx[s[i]] = At(s, i + 1)
  BY DEF Linked
<1>2. k \in Nat /\ n \in 0 .. k
  BY <1>1, ListBounded
<1>3. \A i \in 1 .. n : s[i] \in Messages /\ s[i] # NULL
  BY <1>1, QueueAssumption
<1>4. \A i \in Nat : At(s, i) \in Nodes
  BY <1>3 DEF At, Nodes
<1>5. head \in Nodes
  BY <1>1, <1>4
<1> PICK w : w = Walk(head, nx)
  OBVIOUS
<1>6. /\ w[0] = head
      /\ \A i \in 1 .. k : w[i] = IF w[i - 1] = NULL THEN NULL ELSE nx[w[i - 1]]
  BY <1>1, <1>5, WalkSteps
<1> DEFINE T == {i \in 0 .. k : w[i] = At(s, i + 1)}
<1>7. 0 \in T
  BY <1>1, <1>2, <1>6
<1>8. ASSUME NEW i \in 0 .. k - 1, i \in T PROVE i + 1 \in T
  <2>1. i + 1 \in 1 .. k /\ i + 1 \in 0 .. k /\ (i + 1) - 1 = i /\ i \in Nat
    BY <1>2
  <2>2. w[i] = At(s, i + 1)
    BY <1>8
  <2>3. w[i + 1] = IF w[i] = NULL THEN NULL ELSE nx[w[i]]
    BY <1>6, <2>1
  <2>4. CASE i + 1 \in 1 .. n
    <3>1. w[i] = s[i + 1] /\ w[i] # NULL
      BY <1>3, <2>2, <2>4 DEF At
    <3>2. w[i + 1] = At(s, i + 1 + 1)
      BY <1>1, <2>3, <2>4, <3>1
    <3> QED BY <2>1, <3>2
  <2>5. CASE i + 1 \notin 1 .. n
    <3>1. w[i] = NULL
      BY <2>2, <2>5 DEF At
    <3>2. i + 1 + 1 \notin 1 .. n
      BY <1>2, <2>1, <2>5
    <3>3. w[i + 1] = At(s, i + 1 + 1)
      BY <2>3, <3>1, <3>2 DEF At
    <3> QED BY <2>1, <3>3
  <2> QED BY <2>4, <2>5
<1>9. \A i \in 0 .. k : w[i] = At(s, i + 1)
  <2> HIDE DEF T
  <2>1. \A i \in 0 .. k : i \in T
    BY <1>2, <1>7, <1>8, SetInduction
  <2> QED BY <2>1 DEF T
<1>10. {j \in Turns : w[j] # NULL} = 0 .. n - 1
  <2>1. ASSUME NEW j \in 0 .. k PROVE w[j] # NULL <=> j + 1 \in 1 .. n
    BY <1>3, <1>9 DEF At
  <2>2. \A j \in 0 .. k : j + 1 \in 1 .. n <=> j \in 0 .. n - 1
    BY <1>2
  <2>3. 0 .. n - 1 \subseteq 0 .. k
    BY <1>2
  <2>4. Turns = 0 .. k
    BY DEF Turns
  <2> HIDE DEF k, n
  <2> QED BY <2>1, <2>2, <2>3, <2>4
<1>11. Cardinality(0 .. n - 1) = n
  <2>1. 0 \in Int /\ n - 1 \in Int /\ n \in Nat
    BY <1>2
  <2>2. Cardinality(0 .. n - 1) = IF 0 > n - 1 THEN 0 ELSE (n - 1) - 0 + 1
    <3> HIDE DEF n
    <3> QED BY <2>1, FS_Interval
  <2> QED BY <2>1, <2>2
<1>12. From(head, nx) = [i \in 1 .. n |-> w[i - 1]]
  BY <1>10, <1>11 DEF From
<1>13. \A i \in 1 .. n : w[i - 1] = s[i]
  <2>1. \A i \in 1 .. n : i - 1 \in 0 .. k /\ (i - 1) + 1 = i
    BY <1>2
  <2> QED BY <1>9, <2>1 DEF At
<1>14. s = [i \in 1 .. n |-> s[i]]
  BY <1>1
<1> QED BY <1>12, <1>13, <1>14

-----------------------------------------------------------------------------
(* The loop of Flush.                                                      *)

\* The variables of the loop.
Records ==
  [head : Nodes, next : [Messages -> Nodes], prev : Nodes, cur : Nodes,
   deleted : SUBSET Messages]

\* What a turn does to each of its variables.
LEMMA TurnLemma ==
  ASSUME NEW port, NEW t \in Records
  PROVE  /\ FlushTurn(port, t) \in Records
         /\ t.cur = NULL => FlushTurn(port, t) = t
         /\ t.cur # NULL /\ dest[t.cur] = port =>
              /\ FlushTurn(port, t).head = IF t.prev = NULL THEN t.next[t.cur] ELSE t.head
              /\ FlushTurn(port, t).next =
                   IF t.prev = NULL THEN t.next
                   ELSE [t.next EXCEPT ![t.prev] = t.next[t.cur]]
              /\ FlushTurn(port, t).prev = t.prev
              /\ FlushTurn(port, t).cur = t.next[t.cur]
              /\ FlushTurn(port, t).deleted = t.deleted \cup {t.cur}
         /\ t.cur # NULL /\ dest[t.cur] # port =>
              /\ FlushTurn(port, t).head = t.head
              /\ FlushTurn(port, t).next = t.next
              /\ FlushTurn(port, t).prev = t.cur
              /\ FlushTurn(port, t).cur = t.next[t.cur]
              /\ FlushTurn(port, t).deleted = t.deleted
<1>1. /\ t.head \in Nodes /\ t.next \in [Messages -> Nodes] /\ t.prev \in Nodes
      /\ t.cur \in Nodes /\ t.deleted \in SUBSET Messages
      /\ t = [head |-> t.head, next |-> t.next, prev |-> t.prev, cur |-> t.cur,
              deleted |-> t.deleted]
  BY DEF Records
<1>2. CASE t.cur = NULL
  <2>1. FlushTurn(port, t) = t
    BY <1>2 DEF FlushTurn
  <2> QED BY <1>2, <2>1
<1>3. CASE t.cur # NULL /\ dest[t.cur] = port
  <2> DEFINE nx == IF t.prev = NULL THEN t.next ELSE [t.next EXCEPT ![t.prev] = t.next[t.cur]]
             hd == IF t.prev = NULL THEN t.next[t.cur] ELSE t.head
  <2>1. FlushTurn(port, t)
          = [head |-> hd, next |-> nx, prev |-> t.prev, cur |-> t.next[t.cur],
             deleted |-> t.deleted \cup {t.cur}]
    BY <1>3 DEF FlushTurn
  <2>2. t.cur \in Messages /\ t.next[t.cur] \in Nodes
    BY <1>1, <1>3 DEF Nodes
  <2>3. nx \in [Messages -> Nodes] /\ hd \in Nodes
    BY <1>1, <2>2
  <2>4. t.deleted \cup {t.cur} \in SUBSET Messages
    BY <1>1, <2>2
  <2>5. FlushTurn(port, t) \in Records
    <3> HIDE DEF nx, hd
    <3> QED BY <1>1, <2>1, <2>2, <2>3, <2>4 DEF Records
  <2> QED BY <1>3, <2>1, <2>5
<1>4. CASE t.cur # NULL /\ dest[t.cur] # port
  <2>1. FlushTurn(port, t) = [t EXCEPT !.prev = t.cur, !.cur = t.next[t.cur]]
    BY <1>4 DEF FlushTurn
  <2>2. t.cur \in Messages /\ t.next[t.cur] \in Nodes
    BY <1>1, <1>4 DEF Nodes
  <2>3. FlushTurn(port, t)
          = [head |-> t.head, next |-> t.next, prev |-> t.cur, cur |-> t.next[t.cur],
             deleted |-> t.deleted]
    BY <1>1, <2>1
  <2>4. FlushTurn(port, t) \in Records
    BY <1>1, <2>2, <2>3 DEF Records
  <2> QED BY <1>4, <2>3, <2>4
<1> QED BY <1>2, <1>3, <1>4

\* The recursion of FlushLoop.
FlushStart == [head |-> head_, next |-> next_, prev |-> NULL, cur |-> head_, deleted |-> {}]

LEMMA FlushSteps ==
  ASSUME NEW port, head_ \in Nodes, next_ \in [Messages -> Nodes]
  PROVE  \E f : /\ FlushLoop(port) = f[Cardinality(Messages)]
                /\ f[0] = FlushStart
                /\ \A i \in 1 .. Cardinality(Messages) : f[i] = FlushTurn(port, f[i - 1])
<1> DEFINE k == Cardinality(Messages)
           step == [i \in 1 .. k |-> [t \in Records |-> FlushTurn(port, t)]]
           Defines(f) == f = [i \in Turns |->
                                IF i = 0
                                  THEN [head |-> head_, next |-> next_, prev |-> NULL,
                                        cur |-> head_, deleted |-> {}]
                                  ELSE FlushTurn(port, f[i - 1])]
<1>0. k \in Nat
  BY FS_CardinalityType, QueueAssumption
<1>1. \A t \in Records : FlushTurn(port, t) \in Records
  BY TurnLemma
<1>2. /\ step \in [1 .. k -> [Records -> Records]]
      /\ \A i \in 1 .. k, t \in Records : step[i][t] = FlushTurn(port, t)
  <2> HIDE DEF k
  <2> QED BY <1>1
<1>3. FlushStart \in Records
  BY DEF FlushStart, Records, Nodes
<1>4. PICK f : Iterates(f, k, Records, FlushStart, step)
  <2> HIDE DEF step, k
  <2> QED BY <1>0, <1>2, <1>3, RecursionExists
<1>5. /\ f \in [0 .. k -> Records] /\ f[0] = FlushStart
      /\ \A i \in 1 .. k : f[i] = step[i][f[i - 1]]
  <2> HIDE DEF step, k
  <2> QED BY <1>4 DEF Iterates
<1>6. ASSUME NEW i \in 0 .. k
      PROVE  f[i] = IF i = 0 THEN FlushStart ELSE FlushTurn(port, f[i - 1])
  <2>1. CASE i = 0
    BY <1>5, <2>1
  <2>2. CASE i # 0
    <3> HIDE DEF k, step
    <3>1. i \in 1 .. k /\ i - 1 \in 0 .. k
      BY <1>0, <2>2
    <3>2. f[i - 1] \in Records
      BY <1>5, <3>1
    <3> QED BY <1>2, <1>5, <2>2, <3>1, <3>2
  <2> QED BY <2>1, <2>2
<1>7. Defines(f)
  <2> HIDE DEF step
  <2> QED BY <1>5, <1>6 DEF Turns, FlushStart
<1> DEFINE g == CHOOSE h : Defines(h)
<1>8. Defines(g)
  <2> HIDE DEF Defines
  <2> QED BY <1>7
<1>9. FlushLoop(port) = g[k]
  BY DEF FlushLoop
<1>10. g[0] = FlushStart /\ \A i \in 1 .. k : g[i] = FlushTurn(port, g[i - 1])
  <2> HIDE DEF g
  <2>1. \A i \in 0 .. k : g[i] = IF i = 0 THEN FlushStart ELSE FlushTurn(port, g[i - 1])
    BY <1>8 DEF Turns, FlushStart
  <2>2. 0 \in 0 .. k /\ \A i \in 1 .. k : i \in 0 .. k /\ i # 0
    BY <1>0
  <2> HIDE DEF k
  <2> QED BY <2>1, <2>2
<1> QED
  <2> HIDE DEF g, Defines
  <2> QED BY <1>9, <1>10

\* The loop's variables when it has looked at the first i messages of the list
\* s and kept those of q: the list is q, followed by the rest of s.
Flushed(s, port, q, t, i) ==
  /\ t \in Records /\ q \in Seq(Messages) /\ IsInjective(q)
  /\ \A j \in 1 .. Len(q) : \E l \in 1 .. i : q[j] = s[l]
  /\ \A m : m \in t.deleted <=> \E l \in 1 .. i : m = s[l] /\ dest[m] = port
  /\ t.cur = At(s, i + 1) /\ t.prev = At(q, Len(q))
  /\ t.head = IF Len(q) = 0 THEN t.cur ELSE q[1]
  /\ \A j \in 1 .. Len(q) : t.next[q[j]] = IF j = Len(q) THEN t.cur ELSE q[j + 1]
  /\ \A j \in i + 1 .. Len(s) : t.next[s[j]] = At(s, j + 1)
  /\ \A m \in Messages \ Range(s) : t.next[m] = next_[m]

\* What a turn finds.
LEMMA TurnFinds ==
  ASSUME NEW s \in Seq(Messages), IsInjective(s), NEW port, NEW i \in 0 .. Len(s) - 1,
         NEW q, NEW t, Flushed(s, port, q, t, i)
  PROVE  /\ i + 1 \in 1 .. Len(s) /\ t.cur = s[i + 1] /\ t.cur \in Messages /\ t.cur # NULL
         /\ t.next[t.cur] = At(s, i + 2)
         /\ \A j \in 1 .. Len(q) : q[j] \in Messages /\ q[j] # NULL /\ q[j] \in Range(s)
         /\ \A j \in 1 .. Len(q), l \in i + 1 .. Len(s) : q[j] # s[l]
<1>1. Len(s) \in Nat /\ DOMAIN s = 1 .. Len(s) /\ \A j \in 1 .. Len(s) : s[j] \in Messages
  OBVIOUS
<1>2. i + 1 \in 1 .. Len(s) /\ i + 1 \in i + 1 .. Len(s) /\ (i + 1) + 1 = i + 2
  BY <1>1
<1>3. t.cur = s[i + 1]
  BY <1>2 DEF Flushed, At
<1>4. t.cur \in Messages /\ t.cur # NULL
  BY <1>1, <1>2, <1>3, QueueAssumption
<1>5. t.next[t.cur] = At(s, i + 2)
  BY <1>2, <1>3 DEF Flushed
<1>6. ASSUME NEW j \in 1 .. Len(q)
      PROVE  /\ q[j] \in Messages /\ q[j] # NULL /\ q[j] \in Range(s)
             /\ \A l \in i + 1 .. Len(s) : q[j] # s[l]
  <2>1. PICK x \in 1 .. i : q[j] = s[x]
    BY DEF Flushed
  <2>2. x \in 1 .. Len(s) /\ \A l \in i + 1 .. Len(s) : l \in 1 .. Len(s) /\ l # x
    BY <1>1
  <2>3. q[j] \in Range(s)
    BY <1>1, <2>1, <2>2 DEF Range
  <2>4. \A l \in i + 1 .. Len(s) : s[x] # s[l]
    BY <1>1, <2>2 DEF IsInjective
  <2> QED BY <1>1, <2>1, <2>2, <2>3, <2>4, QueueAssumption
<1> QED BY <1>2, <1>3, <1>4, <1>5, <1>6

\* A turn that deletes a message.
LEMMA TurnDeletes ==
  ASSUME NEW s \in Seq(Messages), IsInjective(s), NEW port, NEW i \in 0 .. Len(s) - 1,
         NEW q, NEW t, Flushed(s, port, q, t, i), dest[s[i + 1]] = port
  PROVE  Flushed(s, port, q, FlushTurn(port, t), i + 1)
<1> PICK u : u = FlushTurn(port, t)
  OBVIOUS
<1>1. /\ i + 1 \in 1 .. Len(s) /\ t.cur = s[i + 1] /\ t.cur \in Messages /\ t.cur # NULL
      /\ t.next[t.cur] = At(s, i + 2)
      /\ \A j \in 1 .. Len(q) : q[j] \in Messages /\ q[j] # NULL /\ q[j] \in Range(s)
      /\ \A j \in 1 .. Len(q), l \in i + 1 .. Len(s) : q[j] # s[l]
  BY TurnFinds
<1>2. /\ t \in Records /\ q \in Seq(Messages) /\ IsInjective(q)
      /\ \A j \in 1 .. Len(q) : \E l \in 1 .. i : q[j] = s[l]
      /\ \A m : m \in t.deleted <=> \E l \in 1 .. i : m = s[l] /\ dest[m] = port
      /\ t.prev = At(q, Len(q))
      /\ t.head = IF Len(q) = 0 THEN t.cur ELSE q[1]
      /\ \A j \in 1 .. Len(q) : t.next[q[j]] = IF j = Len(q) THEN t.cur ELSE q[j + 1]
      /\ \A j \in i + 1 .. Len(s) : t.next[s[j]] = At(s, j + 1)
      /\ \A m \in Messages \ Range(s) : t.next[m] = next_[m]
  BY DEF Flushed
<1>3. /\ u \in Records
      /\ u.head = IF t.prev = NULL THEN t.next[t.cur] ELSE t.head
      /\ u.next = IF t.prev = NULL THEN t.next ELSE [t.next EXCEPT ![t.prev] = t.next[t.cur]]
      /\ u.prev = t.prev /\ u.cur = t.next[t.cur]
      /\ u.deleted = t.deleted \cup {t.cur}
  <2>1. t \in Records /\ t.cur # NULL /\ dest[t.cur] = port
    BY <1>1, <1>2
  <2> QED BY <2>1, TurnLemma
<1>4. Len(q) \in Nat /\ DOMAIN q = 1 .. Len(q) /\ Len(s) \in Nat /\ DOMAIN s = 1 .. Len(s)
  BY <1>2
<1>5. u.cur = At(s, (i + 1) + 1)
  <2>1. (i + 1) + 1 = i + 2
    OBVIOUS
  <2> QED BY <1>1, <1>3, <2>1
<1>6. \A j \in 1 .. Len(q) : \E l \in 1 .. i + 1 : q[j] = s[l]
  <2>1. \A l \in 1 .. i : l \in 1 .. i + 1
    OBVIOUS
  <2> QED BY <1>2, <2>1
<1>7. ASSUME NEW m PROVE m \in u.deleted <=> \E l \in 1 .. i + 1 : m = s[l] /\ dest[m] = port
  <2>1. 1 .. i + 1 = (1 .. i) \cup {i + 1}
    OBVIOUS
  <2>2. m \in u.deleted <=> m \in t.deleted \/ m = s[i + 1]
    BY <1>1, <1>3
  <2> QED BY <1>2, <2>1, <2>2
<1>8. /\ u.head = IF Len(q) = 0 THEN u.cur ELSE q[1]
      /\ \A j \in 1 .. Len(q) : u.next[q[j]] = IF j = Len(q) THEN u.cur ELSE q[j + 1]
      /\ \A j \in (i + 1) + 1 .. Len(s) : u.next[s[j]] = At(s, j + 1)
      /\ \A m \in Messages \ Range(s) : u.next[m] = next_[m]
  <2>0. \A j \in (i + 1) + 1 .. Len(s) : j \in i + 1 .. Len(s)
    OBVIOUS
  <2>1. CASE Len(q) = 0
    <3>1. t.prev = NULL /\ 1 .. Len(q) = {}
      BY <1>2, <2>1 DEF At
    <3> QED BY <1>2, <1>3, <2>0, <2>1, <3>1
  <2>2. CASE Len(q) # 0
    <3>1. Len(q) \in 1 .. Len(q)
      BY <1>4, <2>2
    <3>2. t.prev = q[Len(q)] /\ t.prev # NULL /\ t.prev \in Messages
      BY <1>1, <1>2, <3>1 DEF At
    <3>3. u.head = t.head /\ t.head = q[1]
      BY <1>2, <1>3, <2>2, <3>2
    <3>4. t.next \in [Messages -> Nodes]
      BY <1>2 DEF Records
    <3>5. u.next = [t.next EXCEPT ![t.prev] = u.cur]
      BY <1>3, <3>2
    <3>6. u.next[t.prev] = u.cur /\ \A m \in Messages : m # t.prev => u.next[m] = t.next[m]
      BY <3>2, <3>4, <3>5
    <3>7. ASSUME NEW j \in 1 .. Len(q)
          PROVE  u.next[q[j]] = IF j = Len(q) THEN u.cur ELSE q[j + 1]
      <4>1. CASE j = Len(q)
        BY <3>2, <3>6, <4>1
      <4>2. CASE j # Len(q)
        <5>1. q[j] # t.prev
          BY <1>2, <1>4, <3>1, <3>2, <4>2 DEF IsInjective
        <5> QED BY <1>1, <1>2, <3>6, <4>2, <5>1
      <4> QED BY <4>1, <4>2
    <3>8. ASSUME NEW j \in (i + 1) + 1 .. Len(s) PROVE u.next[s[j]] = At(s, j + 1)
      <4>1. s[j] # t.prev /\ s[j] \in Messages
        <5>1. j \in 1 .. Len(s)
          BY <1>4
        <5> QED BY <1>1, <2>0, <3>1, <3>2, <5>1
      <4> QED BY <1>2, <2>0, <3>6, <4>1
    <3>9. ASSUME NEW m \in Messages \ Range(s) PROVE u.next[m] = next_[m]
      <4>1. m # t.prev
        BY <1>1, <3>1, <3>2
      <4> QED BY <1>2, <3>6, <4>1
    <3> QED BY <2>2, <3>3, <3>7, <3>8, <3>9
  <2> QED BY <2>1, <2>2
<1>9. u.prev = At(q, Len(q))
  BY <1>2, <1>3
<1>10. Flushed(s, port, q, u, i + 1)
  BY <1>2, <1>3, <1>5, <1>6, <1>7, <1>8, <1>9 DEF Flushed
<1> QED BY <1>10

\* A turn that keeps a message.
LEMMA TurnKeeps ==
  ASSUME NEW s \in Seq(Messages), IsInjective(s), NEW port, NEW i \in 0 .. Len(s) - 1,
         NEW q, NEW t, Flushed(s, port, q, t, i), dest[s[i + 1]] # port
  PROVE  Flushed(s, port, Append(q, s[i + 1]), FlushTurn(port, t), i + 1)
<1> PICK u, p : u = FlushTurn(port, t) /\ p = Append(q, s[i + 1])
  OBVIOUS
<1>1. /\ i + 1 \in 1 .. Len(s) /\ t.cur = s[i + 1] /\ t.cur \in Messages /\ t.cur # NULL
      /\ t.next[t.cur] = At(s, i + 2)
      /\ \A j \in 1 .. Len(q) : q[j] \in Messages /\ q[j] # NULL /\ q[j] \in Range(s)
      /\ \A j \in 1 .. Len(q), l \in i + 1 .. Len(s) : q[j] # s[l]
  BY TurnFinds
<1>2. /\ t \in Records /\ q \in Seq(Messages) /\ IsInjective(q)
      /\ \A j \in 1 .. Len(q) : \E l \in 1 .. i : q[j] = s[l]
      /\ \A m : m \in t.deleted <=> \E l \in 1 .. i : m = s[l] /\ dest[m] = port
      /\ t.prev = At(q, Len(q))
      /\ t.head = IF Len(q) = 0 THEN t.cur ELSE q[1]
      /\ \A j \in 1 .. Len(q) : t.next[q[j]] = IF j = Len(q) THEN t.cur ELSE q[j + 1]
      /\ \A j \in i + 1 .. Len(s) : t.next[s[j]] = At(s, j + 1)
      /\ \A m \in Messages \ Range(s) : t.next[m] = next_[m]
  BY DEF Flushed
<1>3. /\ u \in Records /\ u.head = t.head /\ u.next = t.next
      /\ u.prev = t.cur /\ u.cur = t.next[t.cur] /\ u.deleted = t.deleted
  <2>1. t \in Records /\ t.cur # NULL /\ dest[t.cur] # port
    BY <1>1, <1>2
  <2> QED BY <2>1, TurnLemma
<1> PICK n : n = Len(q)
  OBVIOUS
<1>4. n \in Nat /\ DOMAIN q = 1 .. n /\ Len(s) \in Nat
  BY <1>2
<1>5. /\ p \in Seq(Messages) /\ Len(p) = n + 1 /\ DOMAIN p = 1 .. n + 1
      /\ p[n + 1] = t.cur /\ \A j \in 1 .. n : p[j] = q[j]
  BY <1>1, <1>2
<1>6. \A j \in 1 .. n + 1 : j \in 1 .. n \/ j = n + 1
  BY <1>4
<1>7. \A j \in 1 .. n : q[j] # t.cur
  <2>1. i + 1 \in i + 1 .. Len(s)
    BY <1>1
  <2> QED BY <1>1, <2>1
<1>8. IsInjective(p)
  BY <1>2, <1>4, <1>5, <1>6, <1>7 DEF IsInjective
<1>9. u.cur = At(s, (i + 1) + 1)
  <2>1. (i + 1) + 1 = i + 2
    OBVIOUS
  <2> QED BY <1>1, <1>3, <2>1
<1>10. 1 .. i + 1 = (1 .. i) \cup {i + 1}
  OBVIOUS
<1>11. \A j \in 1 .. Len(p) : \E l \in 1 .. i + 1 : p[j] = s[l]
  BY <1>1, <1>2, <1>5, <1>6, <1>10
<1>12. ASSUME NEW m PROVE m \in u.deleted <=> \E l \in 1 .. i + 1 : m = s[l] /\ dest[m] = port
  BY <1>2, <1>3, <1>10
<1>13. u.prev = At(p, Len(p))
  <2>1. Len(p) \in 1 .. Len(p)
    BY <1>4, <1>5
  <2> QED BY <1>3, <1>5, <2>1 DEF At
<1>14. u.head = p[1] /\ Len(p) # 0
  <2>1. CASE n = 0
    BY <1>2, <1>3, <1>5, <2>1
  <2>2. CASE n # 0
    <3>1. 1 \in 1 .. n
      BY <1>4, <2>2
    <3> QED BY <1>2, <1>3, <1>4, <1>5, <2>2, <3>1
  <2> QED BY <2>1, <2>2
<1>15. ASSUME NEW j \in 1 .. Len(p)
       PROVE  u.next[p[j]] = IF j = Len(p) THEN u.cur ELSE p[j + 1]
  <2>1. CASE j = n + 1
    BY <1>3, <1>5, <2>1
  <2>2. CASE j \in 1 .. n /\ j = Len(q)
    <3>1. j + 1 = n + 1 /\ j # n + 1
      BY <1>4, <2>2
    <3> QED BY <1>2, <1>3, <1>5, <2>2, <3>1
  <2>3. CASE j \in 1 .. n /\ j # Len(q)
    <3>1. j + 1 \in 1 .. n /\ j # n + 1
      BY <1>4, <2>3
    <3> QED BY <1>2, <1>3, <1>5, <2>3, <3>1
  <2> QED BY <1>5, <1>6, <2>1, <2>2, <2>3
<1>16. ASSUME NEW j \in (i + 1) + 1 .. Len(s) PROVE u.next[s[j]] = At(s, j + 1)
  <2>1. j \in i + 1 .. Len(s)
    OBVIOUS
  <2> QED BY <1>2, <1>3, <2>1
<1>17. Flushed(s, port, p, u, i + 1)
  BY <1>2, <1>3, <1>5, <1>8, <1>9, <1>11, <1>12, <1>13, <1>14, <1>15, <1>16 DEF Flushed
<1> QED BY <1>17

\* The result of the loop: the messages for other ports, linked in order.
LEMMA FlushResult ==
  ASSUME NEW s, Linked(s, head_, next_), NEW port
  PROVE  LET q == Without(s, {m \in Messages : dest[m] \in {port}})
             list == FlushLoop(port)
         IN  /\ Linked(q, list.head, list.next) /\ list.prev = At(q, Len(q))
             /\ \A m \in Messages : m \in list.deleted <=> m \in Range(s) /\ dest[m] = port
             /\ \A m \in Messages \ Range(s) : list.next[m] = next_[m]
<1> PICK D : D = {m \in Messages : dest[m] \in {port}}
  OBVIOUS
<1> PICK k, n : k = Cardinality(Messages) /\ n = Len(s)
  OBVIOUS
<1>1. /\ s \in Seq(Messages) /\ IsInjective(s) /\ next_ \in [Messages -> Nodes]
      /\ head_ = At(s, 1) /\ \A i \in 1 .. n : next_[s[i]] = At(s, i + 1)
  BY DEF Linked
<1>2. k \in Nat /\ n \in 0 .. k /\ n \in Nat
  BY <1>1, ListBounded
<1>3. \A i \in 1 .. n : s[i] \in Messages
  BY <1>1
<1>4. head_ \in Nodes
  BY <1>1, <1>3 DEF At, Nodes
<1>5. PICK f : /\ FlushLoop(port) = f[k] /\ f[0] = FlushStart
               /\ \A i \in 1 .. k : f[i] = FlushTurn(port, f[i - 1])
  BY <1>1, <1>4, FlushSteps
<1>6. PICK kept : Without(s, D) = kept[n] /\ Keeps(kept, s, D)
  BY <1>1, WithoutSteps
<1> DEFINE T == {i \in 0 .. n : Flushed(s, port, kept[i], f[i], i)}
<1>7. 0 \in T
  <2>1. kept[0] = <<>>
    BY <1>6 DEF Keeps
  <2>2. f[0] \in Records
    BY <1>1, <1>4, <1>5 DEF FlushStart, Records, Nodes
  <2>3. /\ f[0].head = head_ /\ f[0].next = next_ /\ f[0].prev = NULL /\ f[0].cur = head_
        /\ f[0].deleted = {}
    BY <1>5 DEF FlushStart
  <2>4. <<>> \in Seq(Messages) /\ Len(<<>>) = 0 /\ 1 .. 0 = {} /\ IsInjective(<<>>)
    BY DEF IsInjective
  <2>5. At(<<>>, 0) = NULL
    BY <2>4 DEF At
  <2>6. Flushed(s, port, <<>>, f[0], 0)
    BY <1>1, <2>2, <2>3, <2>4, <2>5 DEF Flushed
  <2> QED BY <1>2, <2>1, <2>6
<1>8. ASSUME NEW i \in 0 .. n - 1, i \in T PROVE i + 1 \in T
  <2>1. /\ i + 1 \in 1 .. n /\ i + 1 \in 0 .. n /\ i + 1 \in 1 .. k /\ (i + 1) - 1 = i
        /\ i \in 0 .. Len(s) - 1
    BY <1>2
  <2>2. Flushed(s, port, kept[i], f[i], i)
    BY <1>8
  <2>3. f[i + 1] = FlushTurn(port, f[i])
    BY <1>5, <2>1
  <2>4. kept[i + 1] = IF s[i + 1] \in D THEN kept[i] ELSE Append(kept[i], s[i + 1])
    BY <1>6, <2>1 DEF Keeps
  <2>5. s[i + 1] \in D <=> dest[s[i + 1]] = port
    BY <1>3, <2>1
  <2>6. CASE dest[s[i + 1]] = port
    <3>1. Flushed(s, port, kept[i], FlushTurn(port, f[i]), i + 1)
      BY <1>1, <2>1, <2>2, <2>6, TurnDeletes
    <3> QED BY <2>1, <2>3, <2>4, <2>5, <2>6, <3>1
  <2>7. CASE dest[s[i + 1]] # port
    <3>1. Flushed(s, port, Append(kept[i], s[i + 1]), FlushTurn(port, f[i]), i + 1)
      BY <1>1, <2>1, <2>2, <2>7, TurnKeeps
    <3> QED BY <2>1, <2>3, <2>4, <2>5, <2>7, <3>1
  <2> QED BY <2>6, <2>7
<1>9. Flushed(s, port, kept[n], f[n], n)
  <2> HIDE DEF T
  <2>1. \A i \in 0 .. n : i \in T
    BY <1>2, <1>7, <1>8, SetInduction
  <2> QED BY <1>2, <2>1 DEF T
<1> DEFINE U == {d \in 0 .. k - n : f[n + d] = f[n]}
<1>10. f[n] \in Records /\ f[n].cur = NULL
  BY <1>2, <1>9 DEF Flushed, At
<1>11. FlushTurn(port, f[n]) = f[n]
  BY <1>10, TurnLemma
<1>12. 0 \in U
  BY <1>2
<1>13. ASSUME NEW d \in 0 .. (k - n) - 1, d \in U PROVE d + 1 \in U
  <2>1. d + 1 \in 0 .. k - n /\ n + (d + 1) \in 1 .. k /\ (n + (d + 1)) - 1 = n + d
    BY <1>2
  <2> QED BY <1>5, <1>11, <1>13, <2>1
<1>14. f[k] = f[n]
  <2> HIDE DEF U
  <2>1. k - n \in Nat /\ k - n \in 0 .. k - n /\ n + (k - n) = k
    BY <1>2
  <2>2. \A d \in 0 .. k - n : d \in U
    BY <1>12, <1>13, <2>1, SetInduction
  <2> QED BY <2>1, <2>2 DEF U
<1> PICK q, list : q = kept[n] /\ list = f[n]
  OBVIOUS
<1>15. Flushed(s, port, q, list, n) /\ list.cur = NULL
  BY <1>9, <1>10
<1>16. Linked(q, list.head, list.next) /\ list.prev = At(q, Len(q))
  <2>1. q \in Seq(Messages) /\ IsInjective(q) /\ list.next \in [Messages -> Nodes]
    BY <1>15 DEF Flushed, Records
  <2>2. Len(q) \in Nat
    BY <2>1
  <2>3. list.head = At(q, 1)
    BY <1>15, <2>2 DEF Flushed, At
  <2>4. ASSUME NEW j \in 1 .. Len(q) PROVE list.next[q[j]] = At(q, j + 1)
    <3>1. list.next[q[j]] = IF j = Len(q) THEN NULL ELSE q[j + 1]
      BY <1>15 DEF Flushed
    <3>2. j + 1 \in 1 .. Len(q) <=> j # Len(q)
      BY <2>2
    <3> QED BY <3>1, <3>2 DEF At
  <2> QED BY <1>15, <2>1, <2>3, <2>4 DEF Linked, Flushed
<1>17. \A m \in Messages : m \in list.deleted <=> m \in Range(s) /\ dest[m] = port
  <2>1. \A m : m \in Range(s) <=> \E l \in 1 .. n : m = s[l]
    BY <1>1 DEF Range
  <2> QED BY <1>15, <2>1 DEF Flushed
<1>18. \A m \in Messages \ Range(s) : list.next[m] = next_[m]
  BY <1>15 DEF Flushed
<1>19. Without(s, D) = q /\ FlushLoop(port) = list
  BY <1>5, <1>6, <1>14
<1> QED BY <1>16, <1>17, <1>18, <1>19

-----------------------------------------------------------------------------
(* The operations.                                                         *)

\* s is the list: tail_ is its end, the queued messages are on it, and a new
\* one is not linked yet ("Make sure messages are not reused.").
IsQueue(s, head, tail, nx, fates) ==
  /\ Linked(s, head, nx) /\ tail = At(s, Len(s))
  /\ \A m \in Messages : fates[m] = "queued" <=> m \in Range(s)
  /\ \A m \in Messages : fates[m] = "new" => nx[m] = NULL

QueueInv ==
  /\ dest \in [Messages -> Destinations]
  /\ fate \in [Messages -> {"new", "queued", "taken", "deleted"}]
  /\ \E s : IsQueue(s, head_, tail_, next_, fate)

\* The refinement mapping: contents is the list.
LEMMA Mapped ==
  ASSUME NEW s, NEW r, IsQueue(s, head_, tail_, next_, fate),
         IsQueue(r, head_', tail_', next_', fate')
  PROVE  From(head_, next_) = s /\ From(head_', next_') = r
BY FromList DEF IsQueue

\* The constructor.
LEMMA InitQueue ==
  ASSUME QueueInit
  PROVE  QueueInv /\ Abstract!Init
<1>1. /\ head_ = NULL /\ tail_ = NULL /\ next_ = [m \in Messages |-> NULL]
      /\ dest \in [Messages -> Destinations] /\ fate = [m \in Messages |-> "new"]
  BY DEF QueueInit
<1>2. <<>> \in Seq(Messages) /\ Len(<<>>) = 0 /\ 1 .. 0 = {} /\ IsInjective(<<>>) /\ Range(<<>>) = {}
  BY DEF IsInjective, Range
<1>3. At(<<>>, 0) = NULL /\ At(<<>>, 1) = NULL
  BY <1>2 DEF At
<1>4. next_ \in [Messages -> Nodes]
  BY <1>1 DEF Nodes
<1>5. Linked(<<>>, head_, next_)
  BY <1>1, <1>2, <1>3, <1>4 DEF Linked
<1>6. IsQueue(<<>>, head_, tail_, next_, fate)
  BY <1>1, <1>2, <1>3, <1>5 DEF IsQueue
<1>7. fate \in [Messages -> {"new", "queued", "taken", "deleted"}]
  BY <1>1
<1>8. QueueInv
  BY <1>1, <1>6, <1>7 DEF QueueInv
<1>9. From(head_, next_) = <<>>
  BY <1>5, FromList
<1> QED BY <1>1, <1>8, <1>9 DEF Abstract!Init

\* Enqueue puts the message at the end.
LEMMA EnqueueStep ==
  ASSUME QueueInv, NEW msg \in Messages, Enqueue(msg)
  PROVE  QueueInv' /\ Abstract!Enqueue(msg)
<1>1. PICK s : IsQueue(s, head_, tail_, next_, fate)
  BY DEF QueueInv
<1>2. /\ s \in Seq(Messages) /\ IsInjective(s) /\ next_ \in [Messages -> Nodes]
      /\ head_ = At(s, 1) /\ \A i \in 1 .. Len(s) : next_[s[i]] = At(s, i + 1)
      /\ tail_ = At(s, Len(s))
      /\ \A m \in Messages : fate[m] = "queued" <=> m \in Range(s)
      /\ \A m \in Messages : fate[m] = "new" => next_[m] = NULL
  BY <1>1 DEF IsQueue, Linked
<1>3. /\ fate[msg] = "new"
      /\ IF head_ = NULL THEN head_' = msg /\ next_' = next_
         ELSE next_' = [next_ EXCEPT ![tail_] = msg] /\ head_' = head_
      /\ tail_' = msg /\ fate' = [fate EXCEPT ![msg] = "queued"] /\ dest' = dest
  BY DEF Enqueue
<1>4. /\ dest \in [Messages -> Destinations]
      /\ fate \in [Messages -> {"new", "queued", "taken", "deleted"}]
  BY DEF QueueInv
<1> PICK n, r : n = Len(s) /\ r = Append(s, msg)
  OBVIOUS
<1>5. n \in Nat /\ DOMAIN s = 1 .. n /\ \A i \in 1 .. n : s[i] \in Messages /\ s[i] # NULL
  BY <1>2, QueueAssumption
<1>6. /\ r \in Seq(Messages) /\ Len(r) = n + 1 /\ DOMAIN r = 1 .. n + 1
      /\ r[n + 1] = msg /\ \A i \in 1 .. n : r[i] = s[i]
  BY <1>2
<1>7. \A i \in 1 .. n + 1 : i \in 1 .. n \/ i = n + 1
  BY <1>5
<1>8. msg \notin Range(s) /\ \A i \in 1 .. n : s[i] # msg
  <2>1. msg \notin Range(s)
    BY <1>2, <1>3
  <2> QED BY <1>5, <2>1 DEF Range
<1>9. Range(r) = Range(s) \cup {msg}
  BY <1>2, AppendRange
<1>10. IsInjective(r)
  BY <1>2, <1>5, <1>6, <1>7, <1>8 DEF IsInjective
<1>11. next_[msg] = NULL /\ msg # NULL
  BY <1>2, <1>3, QueueAssumption
<1>12. At(r, n + 1) = msg /\ At(r, n + 2) = NULL
  <2>1. n + 1 \in 1 .. n + 1 /\ n + 2 \notin 1 .. n + 1
    BY <1>5
  <2> QED BY <1>6, <2>1 DEF At
<1>13. /\ next_' \in [Messages -> Nodes] /\ head_' = At(r, 1)
       /\ \A i \in 1 .. n + 1 : next_'[r[i]] = At(r, i + 1)
       /\ \A m \in Messages : m \notin Range(s) => next_'[m] = next_[m]
  <2>1. CASE n = 0
    <3>1. head_ = NULL
      BY <1>2, <2>1 DEF At
    <3>2. next_' = next_ /\ head_' = msg
      BY <1>3, <3>1
    <3>3. \A i \in 1 .. n + 1 : i = n + 1 /\ i + 1 = n + 2
      BY <2>1
    <3>4. n + 1 = 1
      BY <2>1
    <3> QED BY <1>2, <1>6, <1>11, <1>12, <3>2, <3>3, <3>4
  <2>2. CASE n # 0
    <3>1. n \in 1 .. n /\ 1 \in 1 .. n /\ 1 \in 1 .. n + 1
      BY <1>5, <2>2
    <3>2. head_ = s[1] /\ tail_ = s[n]
      BY <1>2, <3>1 DEF At
    <3>3. head_ # NULL /\ tail_ \in Messages /\ tail_ # msg
      BY <1>5, <1>8, <3>1, <3>2
    <3>4. next_' = [next_ EXCEPT ![tail_] = msg] /\ head_' = head_
      BY <1>3, <3>3
    <3>5. next_' \in [Messages -> Nodes]
      BY <1>2, <3>4 DEF Nodes
    <3>6. next_'[tail_] = msg /\ \A m \in Messages : m # tail_ => next_'[m] = next_[m]
      BY <1>2, <3>3, <3>4
    <3>7. head_' = At(r, 1)
      BY <1>6, <3>1, <3>2, <3>4 DEF At
    <3>8. ASSUME NEW i \in 1 .. n + 1 PROVE next_'[r[i]] = At(r, i + 1)
      <4>1. CASE i = n + 1
        <5>1. i + 1 = n + 2 /\ r[i] = msg
          BY <1>5, <1>6, <4>1
        <5> QED BY <1>11, <1>12, <3>3, <3>6, <5>1
      <4>2. CASE i = n
        BY <1>6, <1>12, <3>1, <3>2, <3>6, <4>2
      <4>3. CASE i \in 1 .. n /\ i # n
        <5>1. i + 1 \in 1 .. n /\ i + 1 \in 1 .. n + 1
          BY <1>5, <4>3
        <5>2. s[i] # tail_
          BY <1>2, <1>5, <3>1, <3>2, <4>3 DEF IsInjective
        <5>3. next_'[s[i]] = s[i + 1]
          BY <1>2, <1>5, <3>6, <4>3, <5>1, <5>2 DEF At
        <5> QED BY <1>6, <4>3, <5>1, <5>3 DEF At
      <4> QED BY <1>7, <4>1, <4>2, <4>3
    <3>9. tail_ \in Range(s)
      BY <1>5, <3>1, <3>2 DEF Range
    <3> QED BY <3>5, <3>6, <3>7, <3>8, <3>9
  <2> QED BY <2>1, <2>2
<1>14. Linked(r, head_', next_')
  BY <1>6, <1>10, <1>13 DEF Linked
<1>15. /\ fate' \in [Messages -> {"new", "queued", "taken", "deleted"}]
       /\ fate'[msg] = "queued" /\ \A m \in Messages : m # msg => fate'[m] = fate[m]
  BY <1>3, <1>4
<1>16. \A m \in Messages : fate'[m] = "queued" <=> m \in Range(r)
  BY <1>2, <1>9, <1>15
<1>17. ASSUME NEW m \in Messages, fate'[m] = "new" PROVE next_'[m] = NULL
  <2>1. fate[m] = "new"
    BY <1>15, <1>17
  <2>2. m \notin Range(s)
    BY <1>2, <2>1
  <2> QED BY <1>2, <1>13, <2>1, <2>2
<1>18. tail_' = At(r, Len(r))
  BY <1>3, <1>6, <1>12
<1>19. IsQueue(r, head_', tail_', next_', fate')
  BY <1>14, <1>16, <1>17, <1>18 DEF IsQueue
<1>20. QueueInv'
  BY <1>3, <1>4, <1>15, <1>19 DEF QueueInv
<1>21. From(head_, next_) = s /\ From(head_', next_') = Append(s, msg)
  BY <1>1, <1>19, Mapped
<1> QED BY <1>3, <1>20, <1>21 DEF Abstract!Enqueue

\* Dequeue takes the first message off the list.
LEMMA DequeueStep ==
  ASSUME QueueInv, Dequeue
  PROVE  QueueInv' /\ Abstract!Dequeue
<1>1. PICK s : IsQueue(s, head_, tail_, next_, fate)
  BY DEF QueueInv
<1>2. /\ s \in Seq(Messages) /\ IsInjective(s) /\ next_ \in [Messages -> Nodes]
      /\ head_ = At(s, 1) /\ \A i \in 1 .. Len(s) : next_[s[i]] = At(s, i + 1)
      /\ tail_ = At(s, Len(s))
      /\ \A m \in Messages : fate[m] = "queued" <=> m \in Range(s)
      /\ \A m \in Messages : fate[m] = "new" => next_[m] = NULL
  BY <1>1 DEF IsQueue, Linked
<1>3. /\ head_ # NULL /\ head_' = next_[head_]
      /\ tail_' = IF next_[head_] = NULL THEN NULL ELSE tail_
      /\ next_' = [next_ EXCEPT ![head_] = head_]
      /\ fate' = [fate EXCEPT ![head_] = "taken"] /\ dest' = dest
  BY DEF Dequeue
<1>4. /\ dest \in [Messages -> Destinations]
      /\ fate \in [Messages -> {"new", "queued", "taken", "deleted"}]
  BY DEF QueueInv
<1> PICK n, r : n = Len(s) /\ r = Tail(s)
  OBVIOUS
<1>5. n \in Nat /\ DOMAIN s = 1 .. n /\ \A i \in 1 .. n : s[i] \in Messages /\ s[i] # NULL
  BY <1>2, QueueAssumption
<1>6. 1 \in 1 .. n /\ n \in 1 .. n /\ n >= 1
  BY <1>2, <1>3, <1>5 DEF At
<1>7. s # <<>> /\ head_ = s[1] /\ Head(s) = head_
  BY <1>2, <1>6 DEF At
<1>8. /\ r \in Seq(Messages) /\ Len(r) = n - 1 /\ DOMAIN r = 1 .. n - 1
      /\ \A i \in 1 .. n - 1 : r[i] = s[i + 1]
  BY <1>2, <1>7
<1>9. \A i \in 1 .. n - 1 : i + 1 \in 1 .. n /\ i + 1 # 1
  BY <1>5
<1>10. \A i \in 1 .. n - 1 : r[i] # head_ /\ r[i] \in Messages
  BY <1>2, <1>5, <1>6, <1>7, <1>8, <1>9 DEF IsInjective
<1>11. IsInjective(r)
  <2> SUFFICES ASSUME NEW i \in 1 .. n - 1, NEW j \in 1 .. n - 1, r[i] = r[j] PROVE i = j
    BY <1>8 DEF IsInjective
  <2>1. s[i + 1] = s[j + 1]
    BY <1>8
  <2>2. i + 1 = j + 1
    BY <1>2, <1>5, <1>9, <2>1 DEF IsInjective
  <2> QED BY <2>2
<1>12. Range(s) = Range(r) \cup {head_} /\ head_ \notin Range(r)
  <2>1. Range(s) = Range(r) \cup {head_}
    BY <1>2, <1>7, TailRange
  <2>2. head_ \notin Range(r)
    BY <1>8, <1>10 DEF Range
  <2> QED BY <2>1, <2>2
<1>13. \A i \in 0 .. n - 1 : At(s, i + 2) = At(r, i + 1)
  <2> SUFFICES ASSUME NEW i \in 0 .. n - 1 PROVE At(s, i + 2) = At(r, i + 1)
    OBVIOUS
  <2>1. i + 2 \in 1 .. n <=> i + 1 \in 1 .. n - 1
    BY <1>5
  <2>2. (i + 1) + 1 = i + 2
    OBVIOUS
  <2>3. CASE i + 1 \in 1 .. n - 1
    BY <1>8, <2>1, <2>2, <2>3 DEF At
  <2>4. CASE i + 1 \notin 1 .. n - 1
    BY <1>8, <2>1, <2>4 DEF At
  <2> QED BY <2>3, <2>4
<1>14. head_ \in Messages
  BY <1>5, <1>6, <1>7
<1>15. /\ next_' \in [Messages -> Nodes]
       /\ \A m \in Messages : m # head_ => next_'[m] = next_[m]
  BY <1>2, <1>3, <1>14 DEF Nodes
<1>16. next_[head_] = At(r, 1)
  <2>1. next_[head_] = At(s, 0 + 2)
    BY <1>2, <1>6, <1>7
  <2>2. 0 \in 0 .. n - 1
    BY <1>5, <1>6
  <2> QED BY <1>13, <2>1, <2>2
<1>17. ASSUME NEW i \in 1 .. n - 1 PROVE next_'[r[i]] = At(r, i + 1)
  <2>1. next_'[r[i]] = next_[s[i + 1]]
    BY <1>8, <1>10, <1>15
  <2>2. next_[s[i + 1]] = At(s, i + 2)
    <3>1. (i + 1) + 1 = i + 2
      OBVIOUS
    <3> QED BY <1>2, <1>9, <3>1
  <2>3. i \in 0 .. n - 1
    OBVIOUS
  <2> QED BY <1>13, <2>1, <2>2, <2>3
<1>18. Linked(r, head_', next_')
  BY <1>3, <1>8, <1>11, <1>15, <1>16, <1>17 DEF Linked
<1>19. tail_' = At(r, Len(r))
  <2>1. CASE n = 1
    <3>1. At(r, 1) = NULL /\ At(r, Len(r)) = NULL
      BY <1>8, <2>1 DEF At
    <3> QED BY <1>3, <1>16, <3>1
  <2>2. CASE n # 1
    <3>1. 1 \in 1 .. n - 1 /\ n - 1 \in 1 .. n - 1 /\ (n - 1) + 1 = n
      BY <1>5, <1>6, <2>2
    <3>2. At(r, 1) # NULL
      BY <1>5, <1>8, <1>9, <3>1 DEF At
    <3>3. At(r, n - 1) = s[n]
      BY <1>8, <3>1 DEF At
    <3>4. tail_ = s[n]
      BY <1>2, <1>6 DEF At
    <3> QED BY <1>3, <1>8, <1>16, <3>2, <3>3, <3>4
  <2> QED BY <2>1, <2>2
<1>20. /\ fate' \in [Messages -> {"new", "queued", "taken", "deleted"}]
       /\ fate'[head_] = "taken" /\ \A m \in Messages : m # head_ => fate'[m] = fate[m]
  BY <1>3, <1>4, <1>14
<1>21. \A m \in Messages : fate'[m] = "queued" <=> m \in Range(r)
  BY <1>2, <1>12, <1>20
<1>22. \A m \in Messages : fate'[m] = "new" => next_'[m] = NULL
  BY <1>2, <1>15, <1>20
<1>23. IsQueue(r, head_', tail_', next_', fate')
  BY <1>18, <1>19, <1>21, <1>22 DEF IsQueue
<1>24. QueueInv'
  BY <1>3, <1>4, <1>20, <1>23 DEF QueueInv
<1>25. From(head_, next_) = s /\ From(head_', next_') = Tail(s)
  BY <1>1, <1>23, Mapped
<1> QED BY <1>3, <1>7, <1>24, <1>25 DEF Abstract!Dequeue

\* Mailbox uses the operator of Lists.
LEMMA SameWithout ==
  ASSUME NEW list, NEW S
  PROVE  Abstract!Without(list, S) = Without(list, S)
BY DEF Abstract!Without, Without

\* Flush deletes the messages of one port.
LEMMA FlushStep ==
  ASSUME QueueInv, NEW port \in Destinations, Flush(port)
  PROVE  QueueInv' /\ Abstract!Drop({port})
<1>1. PICK s : IsQueue(s, head_, tail_, next_, fate)
  BY DEF QueueInv
<1>2. /\ Linked(s, head_, next_)
      /\ \A m \in Messages : fate[m] = "queued" <=> m \in Range(s)
      /\ \A m \in Messages : fate[m] = "new" => next_[m] = NULL
  BY <1>1 DEF IsQueue
<1>3. s \in Seq(Messages)
  BY <1>2 DEF Linked
<1> PICK D, q, list : /\ D = {m \in Messages : dest[m] \in {port}}
                      /\ q = Without(s, D) /\ list = FlushLoop(port)
  OBVIOUS
<1>4. /\ Linked(q, list.head, list.next) /\ list.prev = At(q, Len(q))
      /\ \A m \in Messages : m \in list.deleted <=> m \in Range(s) /\ dest[m] = port
      /\ \A m \in Messages \ Range(s) : list.next[m] = next_[m]
  BY <1>2, FlushResult
<1>5. /\ head_' = list.head /\ tail_' = list.prev /\ next_' = list.next
      /\ fate' = [m \in Messages |-> IF m \in list.deleted THEN "deleted" ELSE fate[m]]
      /\ dest' = dest
  BY DEF Flush
<1>6. /\ dest \in [Messages -> Destinations]
      /\ fate \in [Messages -> {"new", "queued", "taken", "deleted"}]
  BY DEF QueueInv
<1>7. Range(q) = Range(s) \ D
  BY <1>3, WithoutLemma
<1>8. \A m \in Messages : fate'[m] = IF m \in Range(s) /\ dest[m] = port THEN "deleted" ELSE fate[m]
  BY <1>4, <1>5
<1>9. fate' \in [Messages -> {"new", "queued", "taken", "deleted"}]
  BY <1>5, <1>6
<1>10. \A m \in Messages : fate'[m] = "queued" <=> m \in Range(q)
  BY <1>2, <1>7, <1>8
<1>11. ASSUME NEW m \in Messages, fate'[m] = "new" PROVE next_'[m] = NULL
  <2>1. fate[m] = "new" /\ m \notin Range(s)
    BY <1>2, <1>8, <1>11
  <2> QED BY <1>2, <1>4, <1>5, <2>1
<1>12. IsQueue(q, head_', tail_', next_', fate')
  BY <1>4, <1>5, <1>10, <1>11 DEF IsQueue
<1>13. QueueInv'
  BY <1>5, <1>6, <1>9, <1>12 DEF QueueInv
<1>14. From(head_, next_) = s /\ From(head_', next_') = q
  BY <1>1, <1>12, Mapped
<1>15. fate' = [m \in Messages |-> IF fate[m] = "queued" /\ dest[m] \in {port}
                                   THEN "deleted" ELSE fate[m]]
  BY <1>2, <1>4, <1>5
<1>16. From(head_', next_')
         = Abstract!Without(From(head_, next_), {m \in Messages : dest[m] \in {port}})
  BY <1>14, SameWithout
<1> QED BY <1>5, <1>13, <1>15, <1>16 DEF Abstract!Drop

\* FlushAll deletes all messages.
LEMMA FlushAllStep ==
  ASSUME QueueInv, FlushAll
  PROVE  QueueInv' /\ Abstract!Drop(Destinations)
<1>1. PICK s : IsQueue(s, head_, tail_, next_, fate)
  BY DEF QueueInv
<1>2. /\ Linked(s, head_, next_)
      /\ \A m \in Messages : fate[m] = "queued" <=> m \in Range(s)
      /\ \A m \in Messages : fate[m] = "new" => next_[m] = NULL
  BY <1>1 DEF IsQueue
<1>3. s \in Seq(Messages) /\ next_ \in [Messages -> Nodes]
  BY <1>2 DEF Linked
<1>4. From(head_, next_) = s
  BY <1>2, FromList
<1>5. /\ head_' = NULL /\ tail_' = NULL /\ next_' = next_ /\ dest' = dest
      /\ fate' = [m \in Messages |-> IF m \in Range(s) THEN "deleted" ELSE fate[m]]
  BY <1>4 DEF FlushAll
<1>6. /\ dest \in [Messages -> Destinations]
      /\ fate \in [Messages -> {"new", "queued", "taken", "deleted"}]
  BY DEF QueueInv
<1>7. <<>> \in Seq(Messages) /\ Len(<<>>) = 0 /\ 1 .. 0 = {} /\ IsInjective(<<>>) /\ Range(<<>>) = {}
  BY DEF IsInjective, Range
<1>8. At(<<>>, 0) = NULL /\ At(<<>>, 1) = NULL
  BY <1>7 DEF At
<1>9. Linked(<<>>, head_', next_')
  BY <1>3, <1>5, <1>7, <1>8 DEF Linked
<1>10. \A m \in Messages : fate'[m] = IF m \in Range(s) THEN "deleted" ELSE fate[m]
  BY <1>5
<1>11. IsQueue(<<>>, head_', tail_', next_', fate')
  BY <1>2, <1>5, <1>7, <1>8, <1>9, <1>10 DEF IsQueue
<1>12. fate' \in [Messages -> {"new", "queued", "taken", "deleted"}]
  BY <1>5, <1>6
<1>13. QueueInv'
  BY <1>5, <1>6, <1>11, <1>12 DEF QueueInv
<1>14. From(head_', next_') = <<>>
  BY <1>1, <1>11, Mapped
<1> PICK D, q : D = {m \in Messages : dest[m] \in Destinations} /\ q = Without(s, D)
  OBVIOUS
<1>15. q \in Seq(Messages) /\ Range(q) = Range(s) \ D
  BY <1>3, WithoutLemma
<1>16. D = Messages /\ Range(s) \subseteq Messages
  BY <1>3, <1>6, Elements
<1>17. q = <<>>
  <2>1. Range(q) = {}
    BY <1>15, <1>16
  <2>2. DOMAIN q = {}
    BY <2>1 DEF Range
  <2> QED BY <1>15, <2>2
<1>18. fate' = [m \in Messages |-> IF fate[m] = "queued" /\ dest[m] \in Destinations
                                   THEN "deleted" ELSE fate[m]]
  BY <1>2, <1>5, <1>6
<1>19. From(head_', next_')
         = Abstract!Without(From(head_, next_), {m \in Messages : dest[m] \in Destinations})
  BY <1>4, <1>14, <1>17, SameWithout
<1> QED BY <1>5, <1>13, <1>18, <1>19 DEF Abstract!Drop

LEMMA QueueStep ==
  ASSUME QueueInv, [QueueNext]_queueVars
  PROVE  QueueInv' /\ [Abstract!Next]_(Abstract!mailVars)
<1>1. CASE UNCHANGED queueVars
  <2>1. head_' = head_ /\ tail_' = tail_ /\ next_' = next_ /\ dest' = dest /\ fate' = fate
    BY <1>1 DEF queueVars
  <2>2. QueueInv'
    BY <2>1 DEF QueueInv
  <2>3. From(head_', next_') = From(head_, next_)
    BY <2>1
  <2> QED BY <2>1, <2>2, <2>3 DEF Abstract!mailVars
<1>2. ASSUME NEW msg \in Messages, Enqueue(msg) PROVE QueueInv' /\ Abstract!Next
  <2>1. QueueInv' /\ Abstract!Enqueue(msg)
    BY <1>2, EnqueueStep
  <2> QED BY <2>1 DEF Abstract!Next
<1>3. ASSUME Dequeue PROVE QueueInv' /\ Abstract!Next
  <2>1. QueueInv' /\ Abstract!Dequeue
    BY <1>3, DequeueStep
  <2> QED BY <2>1 DEF Abstract!Next
<1>4. ASSUME NEW port \in Destinations, Flush(port) PROVE QueueInv' /\ Abstract!Next
  <2>1. QueueInv' /\ Abstract!Drop({port})
    BY <1>4, FlushStep
  <2> QED BY <2>1 DEF Abstract!Next
<1>5. ASSUME FlushAll PROVE QueueInv' /\ Abstract!Next
  <2>1. QueueInv' /\ Abstract!Drop(Destinations)
    BY <1>5, FlushAllStep
  <2> QED BY <2>1 DEF Abstract!Next
<1> QED BY <1>1, <1>2, <1>3, <1>4, <1>5 DEF QueueNext

-----------------------------------------------------------------------------
\* The linked list of message.cc is the FIFO that message.h promises: for any
\* messages and ports, whatever Flush has unlinked at the head, in the middle
\* or at the tail, messages come out in the order they went in, and each is
\* returned or deleted at most once.
THEOREM QueueRefinesMailbox ==
  QueueSpec => ImplementsMailbox
<1>1. QueueInit => QueueInv /\ Abstract!Init
  BY InitQueue
<1>2. QueueInv /\ [QueueNext]_queueVars => QueueInv'
  BY QueueStep
<1>3. QueueInv /\ [QueueNext]_queueVars => [Abstract!Next]_(Abstract!mailVars)
  BY QueueStep
<1> QED BY <1>1, <1>2, <1>3, PTL DEF QueueSpec, ImplementsMailbox, Abstract!Spec
=============================================================================
