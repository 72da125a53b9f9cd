----------------------------- MODULE RingLemmas -----------------------------
(***************************************************************************)
(* What the rings of this kernel rest on: counters that only grow, modulo  *)
(* 2^32 or not at all, and an array indexed by the counter modulo its size *)
(* (pipe.c:95, 120).  First the modulus, then the array.                   *)
(***************************************************************************)
EXTENDS Integers, Sequences, TLAPS

\* Quotient and remainder.
LEMMA DivMod ==
  ASSUME NEW a \in Int, NEW n \in Nat \ {0}
  PROVE  /\ a \div n \in Int /\ a % n \in 0 .. n - 1
         /\ a = n * (a \div n) + (a % n)
OBVIOUS

\* Two multiples of n that differ are at least n apart.
LEMMA MulGap ==
  ASSUME NEW n \in Nat \ {0}, NEW x \in Int, NEW y \in Int, x < y
  PROVE  n * x + n <= n * y
<1>1. x + 1 <= y
  OBVIOUS
<1>2. n * (x + 1) <= n * y
  BY <1>1
<1>3. n * (x + 1) = n * x + n
  OBVIOUS
<1> QED BY <1>2, <1>3

\* The remainder is the only number below n that differs from the dividend by a
\* multiple of n.
LEMMA ModUnique ==
  ASSUME NEW n \in Nat \ {0}, NEW q \in Int, NEW r \in 0 .. n - 1
  PROVE  (n * q + r) % n = r
<1> DEFINE a == n * q + r
           d == a \div n
           m == a % n
<1>1. a \in Int /\ d \in Int /\ m \in 0 .. n - 1 /\ n * q + r = n * d + m
  <2>1. a \in Int
    OBVIOUS
  <2> HIDE DEF a
  <2>2. d \in Int /\ m \in 0 .. n - 1 /\ a = n * d + m
    BY <2>1, DivMod
  <2> QED BY <2>1, <2>2 DEF a
<1>2. ~(q < d)
  <2> SUFFICES ASSUME q < d PROVE FALSE
    OBVIOUS
  <2>1. n * q + n <= n * d
    BY <1>1, MulGap
  <2> HIDE DEF d, m
  <2>2. n * q \in Int /\ n * d \in Int
    BY <1>1
  <2> QED BY <1>1, <2>1, <2>2
<1>3. ~(d < q)
  <2> SUFFICES ASSUME d < q PROVE FALSE
    OBVIOUS
  <2>1. n * d + n <= n * q
    BY <1>1, MulGap
  <2> HIDE DEF d, m
  <2>2. n * q \in Int /\ n * d \in Int
    BY <1>1
  <2> QED BY <1>1, <2>1, <2>2
<1> HIDE DEF d, m
<1>4. d = q
  BY <1>1, <1>2, <1>3
<1>5. m = r
  BY <1>1, <1>4
<1> QED BY <1>5 DEF m

\* Adding a multiple of n changes no remainder.
LEMMA ModShift ==
  ASSUME NEW n \in Nat \ {0}, NEW a \in Int, NEW c \in Int
  PROVE  (a + n * c) % n = a % n
<1> DEFINE d == a \div n
           m == a % n
<1>1. d \in Int /\ m \in 0 .. n - 1 /\ a = n * d + m
  BY DivMod
<1> HIDE DEF d, m
<1>2. n * (d + c) = n * d + n * c /\ n * d \in Int /\ n * c \in Int
  BY <1>1
<1>3. a + n * c = n * (d + c) + m
  BY <1>1, <1>2
<1>4. (n * (d + c) + m) % n = m
  BY <1>1, ModUnique
<1> QED BY <1>3, <1>4 DEF m

\* The same, for a number known to be a multiple by its remainder.
LEMMA ModMultiple ==
  ASSUME NEW n \in Nat \ {0}, NEW a \in Int, NEW m \in Int, m % n = 0
  PROVE  (a + m) % n = a % n
<1>1. m \div n \in Int /\ m = n * (m \div n) + (m % n)
  BY DivMod
<1>2. m = n * (m \div n)
  BY <1>1
<1> QED BY <1>1, <1>2, ModShift

\* A counter that wraps at a multiple of n keeps its place in a ring of n.
LEMMA ModMod ==
  ASSUME NEW n \in Nat \ {0}, NEW m \in Nat \ {0}, m % n = 0, NEW a \in Int
  PROVE  (a % m) % n = a % n
<1> DEFINE c == m \div n
           q == a \div m
           b == a % m
<1>1. c \in Int /\ m = n * c
  <2>1. c \in Int /\ m = n * c + (m % n)
    BY DivMod
  <2> QED BY <2>1
<1>2. q \in Int /\ b \in Int /\ a = m * q + b
  BY DivMod
<1> HIDE DEF c, q, b
<1>3. c * q \in Int /\ m * q = n * (c * q)
  BY <1>1, <1>2
<1>4. (b + n * (c * q)) % n = b % n
  BY <1>2, <1>3, ModShift
<1>5. a = b + n * (c * q)
  BY <1>2, <1>3
<1> QED BY <1>4, <1>5 DEF b

\* Counters less than n apart have different places in a ring of n (pipe.c:95: a byte
\* written overwrites none that is still to be read).
LEMMA ModDistinct ==
  ASSUME NEW n \in Nat \ {0}, NEW a \in Int, NEW b \in Int, a < b, b < a + n
  PROVE  a % n # b % n
<1> SUFFICES ASSUME a % n = b % n PROVE FALSE
  OBVIOUS
<1> DEFINE d == a \div n
           e == b \div n
           m == a % n
<1>1. /\ d \in Int /\ e \in Int /\ m \in 0 .. n - 1
      /\ a = n * d + m /\ b = n * e + m
  BY DivMod
<1> HIDE DEF d, e, m
<1>2. n * d \in Int /\ n * e \in Int
  BY <1>1
<1>3. ~(d < e)
  BY <1>1, <1>2, MulGap
<1>4. ~(e < d)
  BY <1>1, <1>2, MulGap
<1>5. d = e
  BY <1>1, <1>3, <1>4
<1> QED BY <1>1, <1>5

\* The remainder of a number less than one n out of range.
LEMMA ModRange ==
  ASSUME NEW n \in Nat \ {0}, NEW a \in Int
  PROVE  /\ a \in 0 .. n - 1 => a % n = a
         /\ a \in n .. 2 * n - 1 => a % n = a - n
         /\ a \in -n .. -1 => a % n = a + n
<1>1. ASSUME NEW q \in Int, a - n * q \in 0 .. n - 1 PROVE a % n = a - n * q
  <2>1. n * q \in Int
    OBVIOUS
  <2>2. n * q + (a - n * q) = a
    BY <2>1
  <2> QED BY <1>1, <2>2, ModUnique
<1>2. a \in 0 .. n - 1 => a % n = a
  BY <1>1
<1>3. a \in n .. 2 * n - 1 => a % n = a - n
  <2>1. n * 1 = n
    OBVIOUS
  <2> QED BY <2>1, <1>1
<1>4. a \in -n .. -1 => a % n = a + n
  <2>1. n * (-1) = -n
    OBVIOUS
  <2>2. a \in -n .. -1 => a - n * (-1) \in 0 .. n - 1 /\ a - n * (-1) = a + n
    BY <2>1
  <2> QED BY <2>2, <1>1
<1> QED BY <1>2, <1>3, <1>4

\* How far one counter is ahead of another, when both wrap at n (pipe.c:85, nwrite - nread).
LEMMA RingDistance ==
  ASSUME NEW n \in Nat \ {0}, NEW r \in 0 .. n - 1, NEW w \in 0 .. n - 1
  PROVE  (w - r) % n = IF r <= w THEN w - r ELSE w - r + n
<1>1. w - r \in Int
  OBVIOUS
<1>2. CASE r <= w
  <2>1. w - r \in 0 .. n - 1
    BY <1>2
  <2> QED BY <1>1, <1>2, <2>1, ModRange
<1>3. CASE w < r
  <2>1. w - r \in -n .. -1
    BY <1>3
  <2>2. (w - r) % n = (w - r) + n
    BY <1>1, <2>1, ModRange
  <2> QED BY <1>3, <2>2
<1> QED BY <1>2, <1>3

\* A counter advanced by at most n (pipe.c:85, nread + PIPESIZE).
LEMMA RingPlus ==
  ASSUME NEW n \in Nat \ {0}, NEW r \in 0 .. n - 1, NEW k \in 0 .. n
  PROVE  (r + k) % n = IF r + k < n THEN r + k ELSE r + k - n
<1>1. r + k \in Int
  OBVIOUS
<1>2. CASE r + k < n
  <2>1. r + k \in 0 .. n - 1
    BY <1>2
  <2> QED BY <1>1, <1>2, <2>1, ModRange
<1>3. CASE r + k >= n
  <2>1. r + k \in n .. 2 * n - 1
    BY <1>3
  <2> QED BY <1>1, <1>3, <2>1, ModRange
<1> QED BY <1>2, <1>3

-----------------------------------------------------------------------------
\* The len elements of the ring d, of n places, from r on.
Ring(d, r, len, n) == [k \in 1 .. len |-> d[(r + k - 1) % n]]

\* The content of a ring is a sequence of its elements.
LEMMA RingSeq ==
  ASSUME NEW n \in Nat \ {0}, NEW S, NEW d \in [0 .. n - 1 -> S], NEW r \in Int, NEW len \in Nat
  PROVE  Ring(d, r, len, n) \in Seq(S) /\ Len(Ring(d, r, len, n)) = len
<1>1. ASSUME NEW k \in 1 .. len PROVE d[(r + k - 1) % n] \in S
  <2>1. r + k - 1 \in Int
    OBVIOUS
  <2> QED BY <2>1, DivMod
<1>2. Ring(d, r, len, n) \in [1 .. len -> S]
  BY <1>1 DEF Ring
<1> QED BY <1>2

\* e is the ring d of n places with b stored at the place of the counter i.
RingStore(e, d, i, n, b) == e = [d EXCEPT ![i % n] = b]
\* The len elements of d from r on and then b are the elements of e from r on.
Longer(e, d, r, len, n, b) == Ring(e, r, len + 1, n) = Append(Ring(d, r, len, n), b)

\* Storing behind the last of fewer than n elements appends, and changes no other
\* (pipe.c:95).
LEMMA RingPut ==
  ASSUME NEW n \in Nat \ {0}, NEW S, NEW d \in [0 .. n - 1 -> S], NEW r \in Int,
         NEW len \in 0 .. n - 1, NEW b \in S, NEW e \in [0 .. n - 1 -> S],
         RingStore(e, d, r + len, n, b)
  PROVE  Longer(e, d, r, len, n, b)
<1> DEFINE s == Ring(d, r, len, n)
           t == Ring(e, r, len + 1, n)
<1>0. r + len \in Int /\ (r + len) % n \in 0 .. n - 1
  BY DivMod
<1>1. s \in Seq(S) /\ Len(s) = len
  <2>1. \A m \in Nat : Ring(d, r, m, n) \in Seq(S) /\ Len(Ring(d, r, m, n)) = m
    BY RingSeq
  <2>2. len \in Nat
    OBVIOUS
  <2> QED BY <2>1, <2>2
<1>2. e \in [0 .. n - 1 -> S] /\ e = [d EXCEPT ![(r + len) % n] = b]
  BY DEF RingStore
<1>3. t \in Seq(S) /\ Len(t) = len + 1
  <2>1. \A x \in [0 .. n - 1 -> S], m \in Nat :
          Ring(x, r, m, n) \in Seq(S) /\ Len(Ring(x, r, m, n)) = m
    BY RingSeq
  <2>2. len + 1 \in Nat
    OBVIOUS
  <2> QED BY <1>2, <2>1, <2>2
<1>4. ASSUME NEW k \in 1 .. len PROVE t[k] = s[k]
  <2>1. r + k - 1 \in Int /\ r + k - 1 < r + len /\ r + len < r + k - 1 + n
    OBVIOUS
  <2>2. (r + k - 1) % n # (r + len) % n /\ (r + k - 1) % n \in 0 .. n - 1
    BY <1>0, <2>1, ModDistinct, DivMod
  <2>3. s[k] = d[(r + k - 1) % n] /\ t[k] = e[(r + k - 1) % n]
    BY DEF Ring
  <2> QED BY <1>2, <2>2, <2>3
<1>5. t[len + 1] = b
  <2>1. t[len + 1] = e[(r + (len + 1) - 1) % n] /\ r + (len + 1) - 1 = r + len
    BY DEF Ring
  <2> QED BY <1>0, <1>2, <2>1
<1> HIDE DEF s, t
<1>6. t = Append(s, b)
  BY <1>1, <1>3, <1>4, <1>5
<1> QED BY <1>6 DEF s, t, Longer

\* Advancing the read counter drops the first element (pipe.c:120).
LEMMA RingGet ==
  ASSUME NEW n \in Nat \ {0}, NEW S, NEW d \in [0 .. n - 1 -> S], NEW r \in Int,
         NEW len \in Nat \ {0}
  PROVE  Ring(d, r + 1, len - 1, n) = Tail(Ring(d, r, len, n))
<1> DEFINE s == Ring(d, r, len, n)
           t == Ring(d, r + 1, len - 1, n)
<1>0. r + 1 \in Int /\ len - 1 \in Nat
  OBVIOUS
<1>1. s \in Seq(S) /\ Len(s) = len /\ t \in Seq(S) /\ Len(t) = len - 1
  BY <1>0, RingSeq
<1>2. ASSUME NEW k \in 1 .. len - 1 PROVE t[k] = s[k + 1]
  <2>1. t[k] = d[(r + 1 + k - 1) % n] /\ s[k + 1] = d[(r + (k + 1) - 1) % n]
    BY DEF Ring
  <2> QED BY <2>1
<1> HIDE DEF s, t
<1>3. t = Tail(s)
  BY <1>1, <1>2
<1> QED BY <1>3 DEF s, t

\* A counter that wraps at a multiple of n goes on at the same place of the ring.
LEMMA RingMultiple ==
  ASSUME NEW n \in Nat \ {0}, NEW d, NEW r \in Int, NEW len \in Nat, NEW m \in Int, m % n = 0
  PROVE  Ring(d, r + m, len, n) = Ring(d, r, len, n)
<1>1. ASSUME NEW k \in 1 .. len PROVE (r + m + k - 1) % n = (r + k - 1) % n
  <2>1. r + m + k - 1 = (r + k - 1) + m /\ r + k - 1 \in Int
    OBVIOUS
  <2>2. \A a \in Int : (a + m) % n = a % n
    BY ModMultiple
  <2> QED BY <2>1, <2>2
<1> QED BY <1>1 DEF Ring

\* The len elements of d from r on are those of e.
SameRing(e, d, r, len, n) == Ring(e, r, len, n) = Ring(d, r, len, n)

\* Storing elsewhere changes none of the elements from r on.
LEMMA RingKept ==
  ASSUME NEW n \in Nat \ {0}, NEW S, NEW d \in [0 .. n - 1 -> S], NEW r \in Int, NEW len \in Nat,
         NEW x \in len .. n - 1, NEW b \in S, NEW e \in [0 .. n - 1 -> S],
         RingStore(e, d, r + x, n, b)
  PROVE  SameRing(e, d, r, len, n)
<1>1. ASSUME NEW k \in 1 .. len PROVE e[(r + k - 1) % n] = d[(r + k - 1) % n]
  <2>1. r + k - 1 \in Int /\ r + x \in Int /\ r + k - 1 < r + x /\ r + x < r + k - 1 + n
    OBVIOUS
  <2>2. (r + k - 1) % n # (r + x) % n /\ (r + k - 1) % n \in 0 .. n - 1
    BY <2>1, ModDistinct, DivMod
  <2> QED BY <2>2 DEF RingStore
<1> QED BY <1>1 DEF Ring, SameRing

\* Sequences of the same length with the same elements are the same.
LEMMA SeqSame ==
  ASSUME NEW S, NEW s \in Seq(S), NEW t \in Seq(S), Len(s) = Len(t),
         \A i \in 1 .. Len(s) : s[i] = t[i]
  PROVE  s = t
<1>1. s = [i \in 1 .. Len(s) |-> s[i]] /\ t = [i \in 1 .. Len(t) |-> t[i]]
  OBVIOUS
<1>2. [i \in 1 .. Len(s) |-> s[i]] = [i \in 1 .. Len(t) |-> t[i]]
  OBVIOUS
<1> QED BY <1>1, <1>2, Zenon

\* The elements from r on, in two pieces.
LEMMA RingCat ==
  ASSUME NEW n \in Nat \ {0}, NEW S, NEW d \in [0 .. n - 1 -> S], NEW r \in Int, NEW a \in Nat,
         NEW b \in Nat
  PROVE  Ring(d, r, a + b, n) = Ring(d, r, a, n) \o Ring(d, r + a, b, n)
<1> DEFINE s == Ring(d, r, a, n)
           t == Ring(d, r + a, b, n)
           u == Ring(d, r, a + b, n)
           v == s \o t
<1>0. r + a \in Int /\ a + b \in Nat
  OBVIOUS
<1>1. /\ s \in Seq(S) /\ Len(s) = a /\ t \in Seq(S) /\ Len(t) = b
      /\ u \in Seq(S) /\ Len(u) = a + b
  <2>1. \A i \in Int, m \in Nat : Ring(d, i, m, n) \in Seq(S) /\ Len(Ring(d, i, m, n)) = m
    BY RingSeq
  <2> QED BY <1>0, <2>1
<1>2. ASSUME NEW k \in 1 .. a PROVE u[k] = s[k]
  BY DEF Ring
<1>3. ASSUME NEW k \in 1 .. b PROVE u[a + k] = t[k]
  <2>1. a + k \in 1 .. a + b /\ r + (a + k) - 1 = r + a + k - 1
    OBVIOUS
  <2>2. u[a + k] = d[(r + (a + k) - 1) % n] /\ t[k] = d[(r + a + k - 1) % n]
    BY <2>1 DEF Ring
  <2> QED BY <2>1, <2>2
<1> HIDE DEF s, t, u
<1>c. /\ v \in Seq(S) /\ Len(v) = a + b
      /\ \A i \in 1 .. a + b : v[i] = IF i <= a THEN s[i] ELSE t[i - a]
  BY <1>1
<1> HIDE DEF v
<1>4. ASSUME NEW k \in 1 .. a + b PROVE u[k] = v[k]
  <2>1. CASE k <= a
    BY <1>c, <1>2, <2>1
  <2>2. CASE k > a
    <3>1. k - a \in 1 .. b /\ k = a + (k - a)
      BY <2>2
    <3>2. u[a + (k - a)] = t[k - a]
      BY <3>1, <1>3
    <3> QED BY <1>c, <2>2, <3>1, <3>2
  <2> QED BY <2>1, <2>2
<1>5. u = v
  BY <1>1, <1>c, <1>4, SeqSame
<1> QED BY <1>5 DEF s, t, u, v

\* All but the last element.
LEMMA RingFront ==
  ASSUME NEW n \in Nat \ {0}, NEW S, NEW d \in [0 .. n - 1 -> S], NEW r \in Int,
         NEW len \in Nat \ {0}
  PROVE  Ring(d, r, len - 1, n) = SubSeq(Ring(d, r, len, n), 1, Len(Ring(d, r, len, n)) - 1)
<1> DEFINE s == Ring(d, r, len, n)
           t == Ring(d, r, len - 1, n)
<1>0. len - 1 \in Nat
  OBVIOUS
<1>1. s \in Seq(S) /\ Len(s) = len /\ t \in Seq(S) /\ Len(t) = len - 1
  <2>1. \A m \in Nat : Ring(d, r, m, n) \in Seq(S) /\ Len(Ring(d, r, m, n)) = m
    BY RingSeq
  <2> QED BY <1>0, <2>1
<1>2. ASSUME NEW k \in 1 .. len - 1 PROVE t[k] = s[k]
  BY DEF Ring
<1> HIDE DEF s, t
<1>3. t = SubSeq(s, 1, Len(s) - 1)
  BY <1>1, <1>2
<1> QED BY <1>3 DEF s, t
=============================================================================
