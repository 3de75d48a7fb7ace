----------------------------- MODULE DataLemmas -----------------------------
(***************************************************************************)
(* Facts about the data the models are built from: induction over the      *)
(* natural numbers in a form that speaks of sets, the existence of         *)
(* recursively defined functions, the slots that linear probing visits,    *)
(* what pushing, popping and unlinking do to a list without duplicates and *)
(* to the order of its elements, and what is left of a queue of messages   *)
(* when ports are closed.                                                  *)
(***************************************************************************)
EXTENDS Lists, WellFoundedInduction, TLAPS

\* Zenon for a moment, then SMT, then Zenon for longer.
USE ZenonT(2), SMTT(30), ZenonT(30)

\* Every nonempty set of naturals has a least element.
LEMMA LeastNat ==
  ASSUME NEW S, S \subseteq Nat, S # {}
  PROVE  \E m \in S : \A n \in S : m <= n
<1> DEFINE R == OpToRel(<, Nat)
<1>1. IsWellFoundedOn(R, Nat)
  BY NatLessThanWellFounded, ZenonT(30)
<1>2. \A x, y \in Nat : x < y => <<x, y>> \in R
  BY DEF OpToRel
<1> HIDE DEF R
<1>3. PICK m \in S : \A n \in S : ~(<<n, m>> \in R)
  BY <1>1, WFMin, ZenonT(30)
<1>4. ASSUME NEW n \in S PROVE m <= n
  <2>1. m \in Nat /\ n \in Nat
    OBVIOUS
  <2>2. ~(n < m)
    BY <1>2, <1>3, <2>1, ZenonT(30)
  <2> QED BY <2>1, <2>2
<1> QED BY <1>4, ZenonT(30)

\* A set that contains 0 and the successor of each of its members below k
\* contains everything up to k.
LEMMA SetInduction ==
  ASSUME NEW k \in Nat, NEW S, 0 \in S,
         \A n \in 0 .. k - 1 : n \in S => n + 1 \in S
  PROVE  \A n \in 0 .. k : n \in S
<1> SUFFICES ASSUME (0 .. k) \ S # {} PROVE FALSE
  OBVIOUS
<1> DEFINE T == (0 .. k) \ S
<1>1. PICK m \in T : \A n \in T : m <= n
  <2>1. T \subseteq Nat
    OBVIOUS
  <2> QED BY <2>1, LeastNat, ZenonT(30)
<1>2. m \in Nat /\ m <= k /\ m \notin S /\ m # 0
  BY <1>1
<1>3. m - 1 \in 0 .. k - 1 /\ m - 1 \notin T
  BY <1>1, <1>2
<1>4. m - 1 \in S
  BY <1>3
<1> QED BY <1>2, <1>3, <1>4

\* The function on 0 .. k with value z at 0 and, after that, step[i] of the
\* value before.
Iterates(f, k, V, z, step) ==
  /\ f \in [0 .. k -> V]
  /\ f[0] = z /\ \A i \in 1 .. k : f[i] = step[i][f[i - 1]]

\* There is one.
LEMMA RecursionExists ==
  ASSUME NEW k \in Nat, NEW V, NEW z \in V, NEW step \in [1 .. k -> [V -> V]]
  PROVE  \E f : Iterates(f, k, V, z, step)
<1> DEFINE Good(n, f) == f[0] = z /\ \A i \in 1 .. n : f[i] = step[i][f[i - 1]]
<1> DEFINE S == {n \in 0 .. k : \E f \in [0 .. n -> V] : Good(n, f)}
<1>1. 0 \in S
  <2> DEFINE f == [i \in 0 .. 0 |-> z]
  <2>1. f \in [0 .. 0 -> V] /\ f[0] = z /\ 1 .. 0 = {} /\ 0 \in 0 .. k
    OBVIOUS
  <2> HIDE DEF f
  <2>2. Good(0, f)
    BY <2>1
  <2> QED BY <2>1, <2>2
<1>2. ASSUME NEW n \in 0 .. k - 1, n \in S PROVE n + 1 \in S
  <2>1. PICK f \in [0 .. n -> V] : Good(n, f)
    BY <1>2
  <2> DEFINE g == [i \in 0 .. n + 1 |-> IF i = n + 1 THEN step[n + 1][f[n]] ELSE f[i]]
  <2>2. n + 1 \in 1 .. k /\ f[n] \in V
    OBVIOUS
  <2>3. step[n + 1][f[n]] \in V
    BY <2>2
  <2>4. \A i \in 0 .. n : g[i] = f[i] /\ f[i] \in V
    OBVIOUS
  <2>5. g[n + 1] = step[n + 1][f[n]] /\ g \in [0 .. n + 1 -> V]
    BY <2>3
  <2>6. Good(n + 1, g)
    <3> HIDE DEF g
    <3>0. g[0] = z
      BY <2>1, <2>4
    <3> SUFFICES ASSUME NEW i \in 1 .. n + 1 PROVE g[i] = step[i][g[i - 1]]
      BY <3>0
    <3>1. CASE i = n + 1
      <4>1. i - 1 = n /\ n \in 0 .. n
        BY <3>1
      <4>2. g[i - 1] = f[n]
        BY <4>1, <2>4
      <4> QED BY <3>1, <4>2, <2>5
    <3>2. CASE i # n + 1
      <4>1. i \in 1 .. n /\ i \in 0 .. n /\ i - 1 \in 0 .. n
        BY <3>2
      <4> QED BY <4>1, <2>1, <2>4
    <3> QED BY <3>1, <3>2
  <2>7. n + 1 \in 0 .. k
    OBVIOUS
  <2> QED BY <2>5, <2>6, <2>7, ZenonT(30)
<1>3. k \in S
  <2> HIDE DEF S
  <2>1. \A n \in 0 .. k : n \in S
    BY <1>1, <1>2, SetInduction, ZenonT(30)
  <2> QED BY <2>1
<1> QED BY <1>3 DEF Iterates

\* The remainder is determined by the range of the quotient's rest.
LEMMA ModUnique ==
  ASSUME NEW n \in Nat \ {0}, NEW q \in Int, NEW r \in 0 .. n - 1
  PROVE  (n * q + r) % n = r
OBVIOUS

\* In a table of n slots linear probing from any start stays in the table and
\* reaches every slot.
LEMMA ProbeReaches ==
  ASSUME NEW n \in Nat \ {0}, NEW p \in Nat
  PROVE  /\ \A k \in Nat : (p + k) % n \in 0 .. n - 1
         /\ \A i \in 0 .. n - 1 : \E k \in 0 .. n - 1 : (p + k) % n = i
<1>1. \A k \in Nat : (p + k) % n \in 0 .. n - 1
  OBVIOUS
<1>2. ASSUME NEW i \in 0 .. n - 1 PROVE \E k \in 0 .. n - 1 : (p + k) % n = i
  <2> DEFINE r == p % n
             q == p \div n
  <2>1. r \in 0 .. n - 1 /\ q \in Int /\ p = n * q + r
    OBVIOUS
  <2> HIDE DEF r, q
  <2>2. CASE i >= r
    <3>1. i - r \in 0 .. n - 1 /\ p + (i - r) = n * q + i
      BY <2>1, <2>2
    <3> QED BY <3>1, <2>1, ModUnique, ZenonT(30)
  <2>3. CASE i < r
    <3>1. (i - r) + n \in 0 .. n - 1 /\ p + ((i - r) + n) = n * (q + 1) + i
      BY <2>1, <2>3
    <3>2. q + 1 \in Int
      BY <2>1
    <3>3. (n * (q + 1) + i) % n = i
      BY <3>2, ModUnique, ZenonT(30)
    <3> QED BY <3>1, <3>3, ZenonT(30)
  <2> QED BY <2>1, <2>2, <2>3
<1> QED BY <1>1, <1>2

-----------------------------------------------------------------------------
\* Pushing at the head of a linked list.
LEMMA PrependLemma ==
  ASSUME NEW S, NEW s \in Seq(S), NEW e \in S
  PROVE  /\ <<e>> \o s \in Seq(S)
         /\ Len(<<e>> \o s) = Len(s) + 1
         /\ Range(<<e>> \o s) = {e} \cup Range(s)
         /\ IsInjective(s) /\ e \notin Range(s) => IsInjective(<<e>> \o s)
<1> DEFINE t == <<e>> \o s
<1>1. t \in Seq(S) /\ Len(t) = Len(s) + 1
  OBVIOUS
<1>2. t[1] = e /\ \A i \in 1..Len(s) : t[i+1] = s[i]
  OBVIOUS
<1>3. DOMAIN t = 1..(Len(s)+1) /\ DOMAIN s = 1..Len(s)
  BY <1>1
<1>4. \A i \in 2..(Len(s)+1) : t[i] = s[i-1] /\ i-1 \in 1..Len(s)
  BY <1>2
<1> HIDE DEF t
<1>5. Range(t) = {e} \cup Range(s)
  <2>1. ASSUME NEW x \in Range(t) PROVE x \in {e} \cup Range(s)
    BY <1>2, <1>3, <1>4 DEF Range
  <2>2. ASSUME NEW x \in {e} \cup Range(s) PROVE x \in Range(t)
    BY <1>2, <1>3 DEF Range
  <2> QED BY <2>1, <2>2
<1>6. ASSUME IsInjective(s), e \notin Range(s) PROVE IsInjective(t)
  <2> SUFFICES ASSUME NEW i \in DOMAIN t, NEW j \in DOMAIN t, t[i] = t[j]
               PROVE  i = j
    BY DEF IsInjective
  <2>1. \A k \in 2..(Len(s)+1) : t[k] # e
    BY <1>3, <1>4, <1>6 DEF Range
  <2>2. CASE i = 1 \/ j = 1
    BY <2>1, <2>2, <1>2, <1>3
  <2>3. CASE i # 1 /\ j # 1
    <3>1. i \in 2..(Len(s)+1) /\ j \in 2..(Len(s)+1)
      BY <2>3, <1>3
    <3>2. s[i-1] = s[j-1] /\ i-1 \in DOMAIN s /\ j-1 \in DOMAIN s
      BY <3>1, <1>3, <1>4
    <3>3. i-1 = j-1
      BY <3>2, <1>6 DEF IsInjective
    <3> QED BY <3>1, <3>3
  <2> QED BY <2>2, <2>3
<1> QED BY <1>1, <1>5, <1>6 DEF t

\* Popping the head.
LEMMA TailLemma ==
  ASSUME NEW S, NEW s \in Seq(S), s # <<>>
  PROVE  /\ Tail(s) \in Seq(S)
         /\ Len(Tail(s)) = Len(s) - 1 /\ Len(s) >= 1
         /\ Head(s) \in Range(s) /\ Head(s) \in S
         /\ Range(Tail(s)) \subseteq Range(s)
         /\ IsInjective(s) => /\ IsInjective(Tail(s))
                        /\ Range(Tail(s)) = Range(s) \ {Head(s)}
<1> DEFINE t == Tail(s)
<1>1. t \in Seq(S) /\ Len(t) = Len(s) - 1 /\ Len(s) \in Nat /\ Len(s) >= 1
  OBVIOUS
<1>2. s[1] = Head(s) /\ \A i \in 1..(Len(s)-1) : t[i] = s[i+1]
  OBVIOUS
<1>3. DOMAIN t = 1..(Len(s)-1) /\ DOMAIN s = 1..Len(s)
  BY <1>1
<1> HIDE DEF t
<1>4. Head(s) \in Range(s) /\ Head(s) \in S
  BY <1>1, <1>2, <1>3 DEF Range
<1>5. Range(t) \subseteq Range(s)
  BY <1>1, <1>2, <1>3 DEF Range
<1>6. ASSUME IsInjective(s) PROVE IsInjective(t)
  BY <1>1, <1>2, <1>3, <1>6 DEF IsInjective
<1>7. ASSUME IsInjective(s) PROVE Range(t) = Range(s) \ {Head(s)}
  <2>1. Head(s) \notin Range(t)
    BY <1>1, <1>2, <1>3, <1>7 DEF IsInjective, Range
  <2>2. ASSUME NEW x \in Range(s), x # Head(s) PROVE x \in Range(t)
    <3>1. PICK i \in 1..Len(s) : s[i] = x
      BY <1>3 DEF Range
    <3>2. i # 1 BY <3>1, <2>2, <1>2
    <3>3. i-1 \in 1..(Len(s)-1) /\ t[i-1] = x
      BY <3>1, <3>2, <1>1, <1>2
    <3> QED BY <3>3, <1>3 DEF Range
  <2> QED BY <2>1, <2>2, <1>5
<1> QED BY <1>1, <1>4, <1>5, <1>6, <1>7 DEF t

\* a \o b, index by index.
LEMMA ConcatIndex ==
  ASSUME NEW S, NEW a \in Seq(S), NEW b \in Seq(S)
  PROVE  /\ a \o b \in Seq(S) /\ Len(a \o b) = Len(a) + Len(b)
         /\ \A i \in 1..Len(a) : (a \o b)[i] = a[i]
         /\ \A i \in 1..Len(b) : (a \o b)[Len(a) + i] = b[i]
  OBVIOUS

\* Unlink(s, w), index by index.
LEMMA UnlinkIndex ==
  ASSUME NEW S, NEW s \in Seq(S), NEW w \in Range(s)
  PROVE  /\ Unlink(s, w) \in Seq(S) /\ Len(Unlink(s, w)) = Len(s) - 1
         /\ \E k \in 1..Len(s) :
              /\ s[k] = w
              /\ \A i \in 1..Len(s) - 1 : Unlink(s, w)[i] = IF i < k THEN s[i] ELSE s[i + 1]
<1> DEFINE k == CHOOSE i \in DOMAIN s : s[i] = w
           n == Len(s)
           a == SubSeq(s, 1, k-1)
           b == SubSeq(s, k+1, n)
           t == a \o b
<1>1. k \in DOMAIN s /\ s[k] = w
  <2>1. \E i \in DOMAIN s : s[i] = w BY DEF Range
  <2> QED BY <2>1
<1>2. n \in Nat /\ k \in 1..n /\ DOMAIN s = 1..n
  BY <1>1
<1>3. Unlink(s, w) = t
  BY ZenonT(30) DEF Unlink
<1> HIDE DEF k
<1>4. a \in Seq(S) /\ Len(a) = k-1 /\ \A i \in 1..(k-1) : a[i] = s[i]
  <2>. HIDE DEF n
  <2>. QED
    BY <1>2
<1>5. b \in Seq(S) /\ Len(b) = n-k /\ \A i \in 1..(n-k) : b[i] = s[k+i]
  <2>. HIDE DEF n
  <2>. QED
    BY <1>2
<1> HIDE DEF a, b
<1>6. t \in Seq(S) /\ Len(t) = n-1
  <2>1. t \in Seq(S) /\ Len(t) = Len(a) + Len(b)
    BY <1>4, <1>5
  <2> HIDE DEF t, n
  <2> QED BY <2>1, <1>2, <1>4, <1>5
<1>7. \A i \in 1..(n-1) : t[i] = IF i < k THEN s[i] ELSE s[i+1]
  <2>0. \A i \in 1..(n-1) : t[i] = IF i <= k-1 THEN a[i] ELSE b[i - (k-1)]
    <3>1. \A i \in 1..(Len(a) + Len(b)) :
            t[i] = IF i <= Len(a) THEN a[i] ELSE b[i - Len(a)]
      <4>1. a \in Seq(S) /\ b \in Seq(S)
        BY <1>4, <1>5
      <4> HIDE DEF a, b
      <4> QED BY <4>1, ConcatIndex
    <3>2. Len(a) + Len(b) = n-1
      BY <1>2, <1>4, <1>5
    <3> QED BY <3>1, <3>2, <1>4
  <2> HIDE DEF t
  <2> TAKE i \in 1..(n-1)
  <2>1. CASE i < k
    <3>1. i <= k-1 /\ i \in 1..(k-1)
      BY <2>1, <1>2
    <3> QED BY <3>1, <2>0, <2>1, <1>4
  <2>2. CASE ~(i < k)
    <3>1. t[i] = b[i - (k-1)]
      BY <2>0, <2>2, <1>2
    <3>2. i-(k-1) \in 1..(n-k) /\ k + (i-(k-1)) = i+1
      BY <2>2, <1>2
    <3> QED BY <2>2, <3>1, <3>2, <1>5
  <2> QED BY <2>1, <2>2
<1> QED BY <1>1, <1>2, <1>3, <1>6, <1>7

\* Removing a worker from the middle of a linked list.
LEMMA UnlinkLemma ==
  ASSUME NEW S, NEW s \in Seq(S), NEW w \in Range(s), IsInjective(s)
  PROVE  /\ Unlink(s, w) \in Seq(S)
         /\ Len(Unlink(s, w)) = Len(s) - 1 /\ Len(s) >= 1
         /\ Range(Unlink(s, w)) = Range(s) \ {w}
         /\ IsInjective(Unlink(s, w))
<1> PICK t, n : t = Unlink(s, w) /\ n = Len(s)
  OBVIOUS
<1>1. PICK k \in 1..n : s[k] = w /\ \A i \in 1..n - 1 : t[i] = IF i < k THEN s[i] ELSE s[i + 1]
  BY UnlinkIndex
<1>2. n \in Nat /\ k \in 1..n /\ DOMAIN s = 1..n
  BY <1>1
<1>3. t \in Seq(S) /\ Len(t) = n - 1
  BY UnlinkIndex
<1>4. \A i \in 1..n - 1 : t[i] = IF i < k THEN s[i] ELSE s[i + 1]
  BY <1>1
<1>5. DOMAIN t = 1..(n-1)
  BY <1>3
<1>6. Range(t) = Range(s) \ {w}
  <2>1. ASSUME NEW x \in Range(t) PROVE x \in Range(s) /\ x # w
    <3>1. PICK i \in 1..(n-1) : t[i] = x
      BY <1>5 DEF Range
    <3>2. PICK j \in 1..n : s[j] = x /\ j # k
      BY <3>1, <1>2, <1>4
    <3> QED BY <3>2, <1>1, <1>2 DEF Range, IsInjective
  <2>2. ASSUME NEW x \in Range(s), x # w PROVE x \in Range(t)
    <3>1. PICK j \in 1..n : s[j] = x
      BY <1>2 DEF Range
    <3>2. j # k BY <3>1, <2>2, <1>1
    <3>3. \E i \in 1..(n-1) : t[i] = x
      <4>1. CASE j < k
        BY <4>1, <3>1, <1>2, <1>4
      <4>2. CASE j > k
        <5>1. j-1 \in 1..(n-1) /\ ~(j-1 < k) /\ (j-1)+1 = j
          BY <4>2, <1>2
        <5> QED BY <5>1, <3>1, <1>4, ZenonT(30)
      <4> QED BY <4>1, <4>2, <3>2, <1>2
    <3> QED BY <3>3, <1>5 DEF Range
  <2> QED BY <2>1, <2>2
<1>7. IsInjective(t)
  <2> SUFFICES ASSUME NEW i \in 1..(n-1), NEW j \in 1..(n-1), t[i] = t[j]
               PROVE  i = j
    BY <1>5 DEF IsInjective
  <2>1. \A x, y \in 1..n : s[x] = s[y] => x = y
    BY <1>2 DEF IsInjective
  <2>2. i \in 1..n /\ i+1 \in 1..n /\ j \in 1..n /\ j+1 \in 1..n
    BY <1>2
  <2>3. CASE i < k /\ j < k
    BY <2>1, <2>2, <2>3, <1>4
  <2>4. CASE ~(i < k) /\ ~(j < k)
    BY <2>1, <2>2, <2>4, <1>4
  <2>5. CASE i < k /\ ~(j < k)
    BY <2>1, <2>2, <2>5, <1>2, <1>4
  <2>6. CASE ~(i < k) /\ j < k
    BY <2>1, <2>2, <2>6, <1>2, <1>4
  <2> QED BY <2>3, <2>4, <2>5, <2>6
<1> QED BY <1>2, <1>3, <1>6, <1>7

\* A list without duplicates is not longer than another one that holds all its
\* elements.
LEMMA LengthLemma ==
  ASSUME NEW S, NEW s \in Seq(S), NEW u \in Seq(S), IsInjective(s), IsInjective(u),
         Range(s) \subseteq Range(u)
  PROVE  Len(s) <= Len(u)
<1>. DEFINE Covers(a, b) == IsInjective(a) /\ IsInjective(b) /\ Range(a) \subseteq Range(b)
            T == {n \in Nat : \A a, b \in Seq(S) : Len(b) = n /\ Covers(a, b) => Len(a) <= n}
<1>1. 0 \in T
  <2> SUFFICES ASSUME NEW a \in Seq(S), NEW b \in Seq(S), Len(b) = 0, Covers(a, b)
               PROVE  Len(a) <= 0
    OBVIOUS
  <2>1. Range(b) = {}
    BY DEF Range
  <2>2. ASSUME a # <<>> PROVE FALSE
    BY <2>1, <2>2, TailLemma
  <2>. QED
    BY <2>2
<1>2. ASSUME NEW n \in T PROVE n + 1 \in T
  <2> SUFFICES ASSUME NEW a \in Seq(S), NEW b \in Seq(S), Len(b) = n + 1, Covers(a, b)
               PROVE  Len(a) <= n + 1
    OBVIOUS
  <2>1. CASE a = <<>>
    BY <2>1
  <2>2. CASE a # <<>>
    <3>1. PICK h, c, d : h = Head(a) /\ c = Tail(a) /\ d = Unlink(b, h)
      BY ZenonT(30)
    <3>2. /\ c \in Seq(S) /\ Len(c) = Len(a) - 1 /\ IsInjective(c)
          /\ h \in Range(a) /\ Range(c) = Range(a) \ {h}
      BY <2>2, <3>1, TailLemma
    <3>3. d \in Seq(S) /\ Len(d) = Len(b) - 1 /\ IsInjective(d) /\ Range(d) = Range(b) \ {h}
      BY <3>1, <3>2, UnlinkLemma
    <3>4. Covers(c, d) /\ Len(d) = n
      BY <3>2, <3>3
    <3>5. Len(c) <= n
      BY <3>2, <3>3, <3>4
    <3>. QED
      BY <3>2, <3>5
  <2>. QED
    BY <2>1, <2>2
<1>. HIDE DEF T
<1>3. Len(u) \in T
  <2>1. PICK k : k = Len(u)
    OBVIOUS
  <2>2. k \in Nat /\ k \in 0..k
    BY <2>1
  <2>3. \A n \in 0..k : n \in T
    BY <1>1, <1>2, <2>2, SetInduction, ZenonT(30)
  <2>. QED
    BY <2>1, <2>2, <2>3
<1>. QED
  BY <1>3 DEF T

\* Every element of a list is one of its type.
LEMMA Elements ==
  ASSUME NEW S, NEW q \in Seq(S)
  PROVE  Range(q) \subseteq S
BY DEF Range

\* A message joins a queue.
LEMMA AppendRange ==
  ASSUME NEW M, NEW q \in Seq(M), NEW x \in M
  PROVE  Append(q, x) \in Seq(M) /\ Range(Append(q, x)) = Range(q) \cup {x}
<1>. DEFINE n == Len(q)
            p == Append(q, x)
<1>1. n \in Nat /\ p \in Seq(M) /\ DOMAIN p = 1..(n + 1) /\ DOMAIN q = 1..n
  OBVIOUS
<1>2. p[n + 1] = x /\ \A i \in 1..n : p[i] = q[i]
  OBVIOUS
<1>. HIDE DEF n, p
<1>3. 1..(n + 1) = (1..n) \cup {n + 1}
  BY <1>1
<1>. QED
  BY <1>1, <1>2, <1>3 DEF Range, p

\* The head and the rest of a list.
LEMMA TailRange ==
  ASSUME NEW M, NEW q \in Seq(M), q # <<>>
  PROVE  /\ Head(q) \in M /\ Tail(q) \in Seq(M)
         /\ Range(q) = Range(Tail(q)) \cup {Head(q)}
<1>. DEFINE n == Len(q)
            p == Tail(q)
<1>1. n \in Nat /\ n > 0 /\ p \in Seq(M) /\ DOMAIN p = 1..(n - 1) /\ DOMAIN q = 1..n
  OBVIOUS
<1>2. q[1] = Head(q) /\ Head(q) \in M /\ \A i \in 1..(n - 1) : p[i] = q[i + 1]
  OBVIOUS
<1>. HIDE DEF n, p
<1>3. \A i \in 1..n : i = 1 \/ (i - 1 \in 1..(n - 1) /\ (i - 1) + 1 = i)
  BY <1>1
<1>4. \A i \in 1..(n - 1) : i + 1 \in 1..n
  BY <1>1
<1>5. 1 \in 1..n
  BY <1>1
<1>6. ASSUME NEW i \in 1..n PROVE q[i] = Head(q) \/ q[i] \in {p[j] : j \in 1..(n - 1)}
  BY <1>2, <1>3
<1>7. ASSUME NEW i \in 1..(n - 1) PROVE p[i] \in {q[j] : j \in 1..n}
  BY <1>2, <1>4
<1>8. Head(q) \in {q[j] : j \in 1..n}
  BY <1>2, <1>5
<1>9. Range(q) = {q[j] : j \in 1..n} /\ Range(p) = {p[j] : j \in 1..(n - 1)}
  BY <1>1 DEF Range
<1>10. Range(q) = Range(p) \cup {Head(q)}
  BY <1>6, <1>7, <1>8, <1>9
<1>. QED
  BY <1>1, <1>2, <1>10 DEF p

\* f counts up to Without(list, D).
Keeps(f, list, D) ==
  /\ f[0] = <<>>
  /\ \A i \in 1..Len(list) :
       f[i] = IF list[i] \in D THEN f[i - 1] ELSE Append(f[i - 1], list[i])

\* There is one.
LEMMA WithoutSteps ==
  ASSUME NEW M, NEW list \in Seq(M), NEW D
  PROVE  \E f : Without(list, D) = f[Len(list)] /\ Keeps(f, list, D)
<1>. DEFINE k == Len(list)
            V == Seq(M)
            Copy(t, i) == IF list[i] \in D THEN t ELSE Append(t, list[i])
            step == [i \in 1..k |-> [t \in V |-> Copy(t, i)]]
            Defines(f) == f = [n \in 0..Len(list) |->
                                 IF n = 0 THEN <<>>
                                 ELSE IF list[n] \in D THEN f[n - 1]
                                 ELSE Append(f[n - 1], list[n])]
<1>0. k \in Nat /\ <<>> \in V
  OBVIOUS
<1>1. ASSUME NEW t \in V, NEW i \in 1..k PROVE Copy(t, i) \in V
  <2>1. list[i] \in M
    OBVIOUS
  <2>. QED
    BY <2>1
<1>2. step \in [1..k -> [V -> V]] /\ \A t \in V, i \in 1..k : step[i][t] = Copy(t, i)
  <2>. HIDE DEF Copy, V, k
  <2>. QED
    BY <1>1
<1>3. PICK f : Iterates(f, k, V, <<>>, step)
  <2>. HIDE DEF V, step, k
  <2>. QED
    BY <1>0, <1>2, RecursionExists
<1>4. f \in [0..k -> V] /\ f[0] = <<>> /\ \A i \in 1..k : f[i] = step[i][f[i - 1]]
  <2>. HIDE DEF V, step, k
  <2>. QED
    BY <1>3, ZenonT(30) DEF Iterates
<1>5. \A i \in 1..k : f[i] = Copy(f[i - 1], i)
  <2>. SUFFICES ASSUME NEW i \in 1..k PROVE f[i] = Copy(f[i - 1], i)
    OBVIOUS
  <2>1. f[i - 1] \in V
    <3>. HIDE DEF V, k
    <3>1. i - 1 \in 0..k
      BY <1>0
    <3>. QED
      BY <1>4, <3>1
  <2>. HIDE DEF V, k, step, Copy
  <2>. QED
    BY <1>2, <1>4, <2>1
<1>6. Defines(f)
  <2>. HIDE DEF V, step
  <2>1. \A n \in 0..k : f[n] = IF n = 0 THEN <<>> ELSE Copy(f[n - 1], n)
    <3>. SUFFICES ASSUME NEW n \in 0..k, n # 0 PROVE f[n] = Copy(f[n - 1], n)
      BY <1>4
    <3>1. n \in 1..k
      BY <1>0
    <3>. HIDE DEF Copy
    <3>. QED
      BY <1>5, <3>1
  <2>. QED
    BY <1>4, <2>1
<1>. DEFINE g == CHOOSE h : Defines(h)
<1>7. Defines(g)
  <2>. HIDE DEF Defines
  <2>. QED
    BY <1>6, ZenonT(30)
<1>8. Without(list, D) = g[k]
  BY ZenonT(30) DEF Without
<1>9. Keeps(g, list, D)
  <2>. HIDE DEF g
  <2>1. g[0] = <<>> /\ \A i \in 1..k : g[i] = Copy(g[i - 1], i)
    <3>1. \A n \in 0..k : g[n] = IF n = 0 THEN <<>> ELSE Copy(g[n - 1], n)
      BY <1>7, ZenonT(30)
    <3>2. \A i \in 1..k : i \in 0..k /\ i # 0
      BY <1>0
    <3>. HIDE DEF Copy, k
    <3>. QED
      BY <1>0, <3>1, <3>2
  <2>. QED
    BY <2>1 DEF Keeps
<1>. QED
  <2>. HIDE DEF g, Defines
  <2>. QED
    BY <1>8, <1>9, ZenonT(30)

\* What is left are the other elements.
LEMMA WithoutLemma ==
  ASSUME NEW M, NEW list \in Seq(M), NEW D
  PROVE  /\ Without(list, D) \in Seq(M)
         /\ Range(Without(list, D)) = Range(list) \ D
<1>. DEFINE k == Len(list)
<1>1. PICK f : Without(list, D) = f[k] /\ Keeps(f, list, D)
  BY WithoutSteps
<1>. DEFINE Upto(n) == {list[i] : i \in 1..n} \ D
            S == {n \in 0..k : f[n] \in Seq(M) /\ Range(f[n]) = Upto(n)}
<1>2. k \in Nat /\ DOMAIN list = 1..k /\ \A i \in 1..k : list[i] \in M
  OBVIOUS
<1>3. 0 \in S
  <2>1. f[0] = <<>>
    BY <1>1 DEF Keeps
  <2>2. Range(<<>>) = {} /\ 1..0 = {}
    BY DEF Range
  <2>3. Upto(0) = {}
    BY <2>2
  <2>4. <<>> \in Seq(M) /\ 0 \in 0..k
    BY <1>2
  <2>. HIDE DEF Upto, k
  <2>. QED
    BY <2>1, <2>2, <2>3, <2>4, ZenonT(30)
<1>4. ASSUME NEW n \in 0..k - 1, n \in S PROVE n + 1 \in S
  <2>1. n + 1 \in 1..k /\ n + 1 \in 0..k /\ (n + 1) - 1 = n /\ n \in Nat
    BY <1>2
  <2>2. f[n] \in Seq(M) /\ Range(f[n]) = Upto(n)
    BY <1>4
  <2>3. {list[i] : i \in 1..(n + 1)} = {list[i] : i \in 1..n} \cup {list[n + 1]}
    <3>1. 1..(n + 1) = (1..n) \cup {n + 1}
      BY <2>1
    <3>. QED
      BY <3>1
  <2>4. CASE list[n + 1] \in D
    <3>1. f[n + 1] = f[n]
      BY <1>1, <2>1, <2>4 DEF Keeps
    <3>2. Upto(n + 1) = Upto(n)
      BY <2>3, <2>4
    <3>. QED
      BY <2>1, <2>2, <3>1, <3>2
  <2>5. CASE list[n + 1] \notin D
    <3>1. f[n + 1] = Append(f[n], list[n + 1])
      BY <1>1, <2>1, <2>5, ZenonT(30) DEF Keeps
    <3>2. Upto(n + 1) = Upto(n) \cup {list[n + 1]}
      BY <2>3, <2>5
    <3>3. ASSUME NEW q \in Seq(M), NEW x \in M
          PROVE  Append(q, x) \in Seq(M) /\ Range(Append(q, x)) = Range(q) \cup {x}
      BY AppendRange
    <3>. QED
      BY <1>2, <2>1, <2>2, <3>1, <3>2, <3>3, ZenonT(30)
  <2>. QED
    BY <2>4, <2>5
<1>5. k \in S
  <2>. HIDE DEF S
  <2>1. \A n \in 0..k : n \in S
    BY <1>2, <1>3, <1>4, SetInduction
  <2>. QED
    BY <1>2, <2>1
<1>6. Upto(k) = Range(list) \ D
  BY <1>2 DEF Range
<1>. QED
  BY <1>1, <1>5, <1>6

\* What is left are the messages for other ports.
LEMMA RemainingLemma ==
  ASSUME NEW M, NEW box \in Seq(M), NEW closed
  PROVE  /\ Remaining(box, closed) \in Seq(M)
         /\ Range(Remaining(box, closed)) = {m \in Range(box) : m.port \notin closed}
<1>. DEFINE D == {m \in Range(box) : m.port \in closed}
<1>1. Remaining(box, closed) = Without(box, D)
  BY DEF Remaining
<1>. HIDE DEF D
<1>2. Without(box, D) \in Seq(M) /\ Range(Without(box, D)) = Range(box) \ D
  BY WithoutLemma
<1>. QED
  BY <1>1, <1>2 DEF D

-----------------------------------------------------------------------------
\* No element is ahead of itself in a list without repetitions.
LEMMA AheadSelf ==
  ASSUME NEW S, NEW q \in Seq(S)
  PROVE  IsInjective(q) <=> \A t \in S : ~Ahead(q, t, t)
<1>1. DOMAIN q = 1..Len(q) /\ Len(q) \in Nat /\ \A i \in DOMAIN q : q[i] \in S
  OBVIOUS
<1>2. ASSUME IsInjective(q), NEW t \in S, Ahead(q, t, t) PROVE FALSE
  <2>1. PICK i, j \in DOMAIN q : i < j /\ q[i] = t /\ q[j] = t
    BY <1>2 DEF Ahead
  <2>2. i = j
    BY <1>2, <2>1 DEF IsInjective
  <2>. QED
    BY <1>1, <2>1, <2>2
<1>3. ASSUME \A t \in S : ~Ahead(q, t, t), NEW i \in DOMAIN q, NEW j \in DOMAIN q, q[i] = q[j]
      PROVE  i = j
  <2>1. q[i] \in S /\ ~Ahead(q, q[i], q[i])
    BY <1>1, <1>3
  <2>2. ~(i < j) /\ ~(j < i)
    BY <1>3, <2>1 DEF Ahead
  <2>. QED
    BY <1>1, <2>2
<1>. QED
  BY <1>2, <1>3 DEF IsInjective

\* Only members are ahead of one another.
LEMMA AheadRange ==
  ASSUME NEW q, NEW t, NEW u, Ahead(q, t, u)
  PROVE  t \in Range(q) /\ u \in Range(q)
  BY DEF Ahead, Range

\* What is appended comes after everything else.
LEMMA AppendAhead ==
  ASSUME NEW S, NEW q \in Seq(S), NEW x \in S, NEW t, NEW u
  PROVE  Ahead(Append(q, x), t, u) <=> Ahead(q, t, u) \/ (u = x /\ t \in Range(q))
<1>. PICK p, n : p = Append(q, x) /\ n = Len(q)
  BY ZenonT(30)
<1>1. /\ n \in Nat /\ DOMAIN q = 1..n /\ DOMAIN p = 1..n + 1 /\ p[n + 1] = x
      /\ \A i \in 1..n : p[i] = q[i]
  OBVIOUS
<1>2. ASSUME Ahead(p, t, u) PROVE Ahead(q, t, u) \/ (u = x /\ t \in Range(q))
  <2>1. PICK i, j \in DOMAIN p : i < j /\ p[i] = t /\ p[j] = u
    BY <1>2 DEF Ahead
  <2>2. i \in 1..n /\ (j \in 1..n \/ j = n + 1)
    BY <1>1, <2>1
  <2>. QED
    BY <1>1, <2>1, <2>2 DEF Ahead, Range
<1>3. ASSUME Ahead(q, t, u) PROVE Ahead(p, t, u)
  <2>1. PICK i, j \in DOMAIN q : i < j /\ q[i] = t /\ q[j] = u
    BY <1>3 DEF Ahead
  <2>2. i \in DOMAIN p /\ j \in DOMAIN p /\ p[i] = t /\ p[j] = u
    BY <1>1, <2>1
  <2>. QED
    BY <2>1, <2>2 DEF Ahead
<1>4. ASSUME u = x, t \in Range(q) PROVE Ahead(p, t, u)
  <2>1. PICK i \in DOMAIN q : q[i] = t
    BY <1>4 DEF Range
  <2>2. i \in DOMAIN p /\ n + 1 \in DOMAIN p /\ i < n + 1 /\ p[i] = t /\ p[n + 1] = u
    BY <1>1, <1>4, <2>1
  <2>. QED
    BY <2>2 DEF Ahead
<1>. QED
  BY <1>2, <1>3, <1>4

\* The elements of a part of a list keep their order.
LEMMA SubSeqAhead ==
  ASSUME NEW S, NEW q \in Seq(S), NEW m \in 1..Len(q) + 1, NEW n \in 0..Len(q)
  PROVE  /\ SubSeq(q, m, n) \in Seq(S)
         /\ \A x : x \in Range(SubSeq(q, m, n)) <=> \E i \in m..n : x = q[i]
         /\ \A t, u : Ahead(SubSeq(q, m, n), t, u) => Ahead(q, t, u)
<1>. PICK p, l : p = SubSeq(q, m, n) /\ l = IF m <= n THEN n - m + 1 ELSE 0
  BY ZenonT(30)
<1>1. /\ p \in Seq(S) /\ Len(q) \in Nat /\ DOMAIN q = 1..Len(q)
      /\ l \in Nat /\ DOMAIN p = 1..l
      /\ \A i \in 1..l : p[i] = q[m + i - 1]
  OBVIOUS
<1>2. \A i \in 1..l : m + i - 1 \in m..n /\ m + i - 1 \in DOMAIN q
  BY <1>1
<1>3. \A i \in m..n : i - m + 1 \in 1..l /\ m + (i - m + 1) - 1 = i
  BY <1>1
<1>4. ASSUME NEW x PROVE x \in Range(p) <=> \E i \in m..n : x = q[i]
  <2>1. ASSUME x \in Range(p) PROVE \E i \in m..n : x = q[i]
    BY <1>1, <1>2, <2>1 DEF Range
  <2>2. ASSUME NEW i \in m..n, x = q[i] PROVE x \in Range(p)
    <3>1. p[i - m + 1] = x /\ i - m + 1 \in DOMAIN p
      BY <1>1, <1>3, <2>2
    <3>. QED
      BY <3>1 DEF Range
  <2>. QED
    BY <2>1, <2>2
<1>5. ASSUME NEW t, NEW u, Ahead(p, t, u) PROVE Ahead(q, t, u)
  <2>1. PICK i, j \in 1..l : i < j /\ p[i] = t /\ p[j] = u
    BY <1>1, <1>5, ZenonT(30) DEF Ahead
  <2>2. /\ m + i - 1 \in DOMAIN q /\ m + j - 1 \in DOMAIN q /\ m + i - 1 < m + j - 1
        /\ q[m + i - 1] = t /\ q[m + j - 1] = u
    BY <1>1, <1>2, <2>1
  <2>. QED
    BY <2>2 DEF Ahead
<1>. QED
  BY <1>1, <1>4, <1>5

\* So do those that remain when one is unlinked.
LEMMA UnlinkAhead ==
  ASSUME NEW S, NEW q \in Seq(S), NEW w \in S, IsInjective(q)
  PROVE  /\ Unlink(q, w) \in Seq(S) /\ IsInjective(Unlink(q, w))
         /\ Range(Unlink(q, w)) = Range(q) \ {w}
         /\ \A t, u : Ahead(Unlink(q, w), t, u) <=> Ahead(q, t, u) /\ w # t /\ w # u
<1>1. CASE w \notin Range(q)
  <2>1. Unlink(q, w) = q
    BY <1>1 DEF Unlink
  <2>2. \A t, u : Ahead(q, t, u) => w # t /\ w # u
    BY <1>1, AheadRange
  <2>. QED
    BY <1>1, <2>1, <2>2
<1>2. CASE w \in Range(q)
  <2>. PICK p, n : p = Unlink(q, w) /\ n = Len(q)
    OBVIOUS
  <2>1. n \in Nat /\ DOMAIN q = 1..n
    OBVIOUS
  <2>2. PICK k \in 1..n : q[k] = w /\ \A i \in 1..n - 1 : p[i] = IF i < k THEN q[i] ELSE q[i + 1]
    BY <1>2, UnlinkIndex
  <2>3. p \in Seq(S) /\ DOMAIN p = 1..n - 1
    BY <1>2, UnlinkIndex
  <2>4. \A i \in 1..n : q[i] = w => i = k
    BY <2>1, <2>2 DEF IsInjective
  <2>5. ASSUME NEW t, NEW u, Ahead(p, t, u) PROVE Ahead(q, t, u) /\ w # t /\ w # u
    <3>1. PICK i, j \in 1..n - 1 : i < j /\ p[i] = t /\ p[j] = u
      BY <2>3, <2>5 DEF Ahead
    <3>2. PICK g \in {i, i + 1} : p[i] = q[g] /\ g # k /\ (i < k => g = i) /\ (~(i < k) => g = i + 1)
      BY <2>1, <2>2
    <3>3. PICK h \in {j, j + 1} : p[j] = q[h] /\ h # k /\ (j < k => h = j) /\ (~(j < k) => h = j + 1)
      BY <2>1, <2>2
    <3>4. g \in 1..n /\ h \in 1..n
      BY <2>1, <3>2, <3>3
    <3>5. g < h
      BY <2>1, <3>1, <3>2, <3>3
    <3>6. w # t /\ w # u
      BY <2>4, <3>1, <3>2, <3>3, <3>4
    <3>. QED
      BY <2>1, <3>1, <3>2, <3>3, <3>4, <3>5, <3>6 DEF Ahead
  <2>6. ASSUME NEW g \in 1..n, g # k
        PROVE  \E i \in 1..n - 1 : p[i] = q[g] /\ (g < k => i = g) /\ (~(g < k) => i = g - 1)
    <3>1. CASE g < k
      BY <2>1, <2>2, <3>1
    <3>2. CASE ~(g < k)
      <4>1. g - 1 \in 1..n - 1 /\ ~(g - 1 < k) /\ (g - 1) + 1 = g
        BY <2>1, <2>6, <3>2
      <4>2. p[g - 1] = q[g]
        BY <2>2, <4>1
      <4>. QED
        BY <3>2, <4>1, <4>2
    <3>. QED
      BY <3>1, <3>2
  <2>7. ASSUME NEW t, NEW u, Ahead(q, t, u), w # t, w # u PROVE Ahead(p, t, u)
    <3>1. PICK g, h \in 1..n : g < h /\ q[g] = t /\ q[h] = u
      BY <2>1, <2>7 DEF Ahead
    <3>2. g # k /\ h # k
      BY <2>2, <2>7, <3>1
    <3>3. PICK i \in 1..n - 1 : p[i] = q[g] /\ (g < k => i = g) /\ (~(g < k) => i = g - 1)
      BY <2>6, <3>2
    <3>4. PICK j \in 1..n - 1 : p[j] = q[h] /\ (h < k => j = h) /\ (~(h < k) => j = h - 1)
      BY <2>6, <3>2
    <3>5. i < j
      BY <2>1, <3>1, <3>2, <3>3, <3>4
    <3>. QED
      BY <2>3, <3>1, <3>3, <3>4, <3>5 DEF Ahead
  <2>. QED
    BY <1>2, <2>5, <2>7, UnlinkLemma
<1>. QED
  BY <1>1, <1>2

\* A loop over a list stops at the first element that is not in T.
LEMMA LeadingLemma ==
  ASSUME NEW S, NEW s \in Seq(S), NEW T
  PROVE  /\ Leading(s, T) \in 0..Len(s)
         /\ \A i \in 1..Leading(s, T) : s[i] \in T
         /\ Leading(s, T) < Len(s) => s[Leading(s, T) + 1] \notin T
<1>. DEFINE Stops == {k \in 0..Len(s) : k < Len(s) => s[k + 1] \notin T}
<1>1. PICK m \in Stops : \A k \in Stops : m <= k
  <2>1. Stops \subseteq Nat /\ Len(s) \in Stops
    OBVIOUS
  <2>. HIDE DEF Stops
  <2>. QED
    BY <2>1, LeastNat, ZenonT(30)
<1>2. ASSUME NEW i \in 1..m PROVE s[i] \in T
  <2>1. m \in 0..Len(s) /\ Len(s) \in Nat
    OBVIOUS
  <2>2. i - 1 \in 0..Len(s) /\ i - 1 < Len(s) /\ ~(m <= i - 1) /\ i - 1 + 1 = i
    BY <2>1
  <2>3. i - 1 \notin Stops
    BY <1>1, <2>2
  <2>. QED
    BY <2>2, <2>3
<1>3. /\ m \in 0..Len(s)
      /\ \A i \in 1..m : s[i] \in T
      /\ m < Len(s) => s[m + 1] \notin T
  BY <1>1, <1>2
<1>. DEFINE P(k) == (\A i \in 1..k : s[i] \in T) /\ (k < Len(s) => s[k + 1] \notin T)
<1>4. Leading(s, T) = CHOOSE k \in 0..Len(s) : P(k)
  BY DEF Leading
<1>5. \E k \in 0..Len(s) : P(k)
  BY <1>3
<1>. QED
  <2>1. Leading(s, T) \in 0..Len(s) /\ P(Leading(s, T))
    <3>. HIDE DEF P
    <3>. QED
      BY <1>4, <1>5, ZenonT(30)
  <2>. QED
    BY <2>1
=============================================================================
