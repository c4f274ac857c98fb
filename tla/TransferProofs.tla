-------------------------- MODULE TransferProofs --------------------------
(***************************************************************************)
(* Proofs about Transfer, for any requests, chunk sizes, fanout, number of *)
(* late attempts and destinations.                                         *)
(***************************************************************************)
EXTENDS Transfer, SequenceTheorems, FiniteSetTheorems, WellFoundedInduction, TLAPS

-----------------------------------------------------------------------------
(* Bytes, and sequences of them one after the other.                       *)

LEMMA BytesLen ==
  ASSUME NEW a \in Int, NEW b \in Int
  PROVE  /\ Bytes(a, b) \in Seq(Int)
         /\ Len(Bytes(a, b)) = IF a <= b THEN b - a ELSE 0
         /\ \A k \in 1 .. (b - a) : Bytes(a, b)[k] = a + k - 1
         /\ DOMAIN Bytes(a, b) = 1 .. (b - a)
<1>1. CASE a <= b
  <2>1. b - a \in Nat
    BY <1>1
  <2>2. Bytes(a, b) = [k \in 1 .. (b - a) |-> a + k - 1]
    BY DEF Bytes
  <2>3. \A k \in 1 .. (b - a) : a + k - 1 \in Int
    OBVIOUS
  <2>4. Bytes(a, b) \in [1 .. (b - a) -> Int]
    BY <2>2, <2>3
  <2>5. Bytes(a, b) \in Seq(Int) /\ Len(Bytes(a, b)) = b - a
    BY <2>1, <2>2, <2>4
  <2> QED
    BY <1>1, <2>2, <2>5
<1>2. CASE b < a
  <2>1. 1 .. (b - a) = {}
    BY <1>2
  <2>2. Bytes(a, b) = <<>>
    BY <2>1 DEF Bytes
  <2> QED
    BY <1>2, <2>1, <2>2
<1> QED
  BY <1>1, <1>2

LEMMA BytesIn ==
  ASSUME NEW size \in Nat, NEW a \in Nat, NEW b \in Int, b <= size
  PROVE  Bytes(a, b) \in Seq(0 .. (size - 1))
BY DEF Bytes

LEMMA BytesEmpty ==
  ASSUME NEW a \in Int, NEW b \in Int, b <= a
  PROVE  Bytes(a, b) = <<>>
BY DEF Bytes

LEMMA BytesConcat ==
  ASSUME NEW a \in Int, NEW b \in Int, NEW c \in Int, a <= b, b <= c
  PROVE  Bytes(a, b) \o Bytes(b, c) = Bytes(a, c)
BY DEF Bytes

(* A nonempty set of numbers has a least one.                              *)
NatLess == {p \in Nat \X Nat : p[1] < p[2]}

LEMMA LeastElement ==
  ASSUME NEW T \in SUBSET Nat, T # {}
  PROVE  \E m \in T : \A k \in T : m <= k
<1>1. OpToRel(<, Nat) = NatLess
  BY Zenon DEF OpToRel, NatLess
<1>2. IsWellFoundedOn(NatLess, Nat)
  BY <1>1, NatLessThanWellFounded
<1>3. PICK m \in T : \A k \in T : ~(<<k, m>> \in NatLess)
  BY <1>2, WFMin
<1>4. ASSUME NEW k \in T PROVE m <= k
  <2>1. k \in Nat /\ m \in Nat
    OBVIOUS
  <2>2. <<k, m>> \notin NatLess
    BY <1>3
  <2>3. ~(k < m)
    BY <2>1, <2>2 DEF NatLess
  <2> QED
    BY <2>1, <2>3
<1> QED
  BY <1>4

(* FlattenSeq, which the library defines by a recursive function.          *)
LEMMA FlattenExists ==
  ASSUME NEW S, NEW s \in Seq(Seq(S)), s # <<>>
  PROVE  \E g \in [1 .. Len(s) -> Seq(S)] :
           \A i \in 1 .. Len(s) : g[i] = IF i = 1 THEN s[i] ELSE g[i - 1] \o s[i]
<1> DEFINE P(n) == \E g \in [1 .. n -> Seq(S)] :
                     \A i \in 1 .. n : g[i] = IF i = 1 THEN s[i] ELSE g[i - 1] \o s[i]
           Bad == {n \in 1 .. Len(s) : ~P(n)}
<1>1. Len(s) \in Nat \ {0} /\ \A i \in 1 .. Len(s) : s[i] \in Seq(S)
  OBVIOUS
<1>2. P(1)
  <2> DEFINE g == [i \in 1 .. 1 |-> s[1]]
  <2>1. g \in [1 .. 1 -> Seq(S)] /\ \A i \in 1 .. 1 : g[i] = IF i = 1 THEN s[i] ELSE g[i - 1] \o s[i]
    BY <1>1
  <2> QED
    BY <2>1, Zenon
<1>3. ASSUME NEW n \in 1 .. (Len(s) - 1), P(n) PROVE P(n + 1)
  <2>1. PICK g \in [1 .. n -> Seq(S)] :
               \A i \in 1 .. n : g[i] = IF i = 1 THEN s[i] ELSE g[i - 1] \o s[i]
    BY <1>3
  <2> DEFINE h == [i \in 1 .. (n + 1) |-> IF i = n + 1 THEN g[n] \o s[n + 1] ELSE g[i]]
  <2>2. g[n] \o s[n + 1] \in Seq(S)
    BY <1>1
  <2>3. h \in [1 .. (n + 1) -> Seq(S)]
    BY <2>2
  <2>4. ASSUME NEW i \in 1 .. (n + 1)
        PROVE  h[i] = IF i = 1 THEN s[i] ELSE h[i - 1] \o s[i]
    <3>1. CASE i = n + 1
      <4>1. h[i] = g[n] \o s[i] /\ h[n] = g[n] /\ i - 1 = n /\ i # 1
        BY <3>1
      <4> HIDE DEF h
      <4> QED
        BY <4>1
    <3>2. CASE i # n + 1
      <4>1. i \in 1 .. n /\ h[i] = g[i] /\ (i # 1 => h[i - 1] = g[i - 1])
        BY <3>2
      <4> HIDE DEF h
      <4> QED
        BY <4>1, <2>1
    <3> QED
      BY <3>1, <3>2
  <2> HIDE DEF h
  <2> QED
    BY <2>3, <2>4
<1>4. Bad = {}
  <2> SUFFICES ASSUME Bad # {} PROVE FALSE
    OBVIOUS
  <2>1. Bad \in SUBSET Nat
    OBVIOUS
  <2>2. PICK m \in Bad : \A k \in Bad : m <= k
    <3> HIDE DEF Bad
    <3> QED
      BY <2>1, LeastElement
  <2> HIDE DEF P
  <2>3. m # 1
    BY <1>2
  <2>4. m - 1 \in 1 .. (Len(s) - 1) /\ m - 1 \notin Bad
    BY <2>2, <2>3, <1>1
  <2>5. P(m - 1)
    BY <2>4
  <2>6. P((m - 1) + 1)
    BY <1>3, <2>4, <2>5
  <2>7. (m - 1) + 1 = m
    BY <2>1
  <2> QED
    BY <2>6, <2>7
<1>5. P(Len(s))
  <2> HIDE DEF P
  <2> QED
    BY <1>1, <1>4, SMTT(30)
<1> QED
  BY <1>5

LEMMA Flatten ==
  ASSUME NEW S, NEW s \in Seq(Seq(S)), s # <<>>
  PROVE  \E g \in [1 .. Len(s) -> Seq(S)] :
           /\ g[1] = s[1]
           /\ \A i \in 2 .. Len(s) : g[i] = g[i - 1] \o s[i]
           /\ FlattenSeq(s) = g[Len(s)]
<1> DEFINE Is(g) == g = [i \in 1 .. Len(s) |-> IF i = 1 THEN s[i] ELSE g[i - 1] \o s[i]]
           flat == CHOOSE g : Is(g)
<1>1. Len(s) \in Nat \ {0}
  OBVIOUS
<1>2. PICK g \in [1 .. Len(s) -> Seq(S)] :
             \A i \in 1 .. Len(s) : g[i] = IF i = 1 THEN s[i] ELSE g[i - 1] \o s[i]
  BY FlattenExists
<1>3. Is(g)
  BY <1>2
<1>4. Is(flat)
  <2> HIDE DEF Is
  <2> QED
    BY <1>3
<1>5. FlattenSeq(s) = flat[Len(s)]
  BY <1>1 DEF FlattenSeq
<1> HIDE DEF flat
<1>6. /\ flat[1] = s[1]
      /\ \A i \in 2 .. Len(s) : flat[i] = flat[i - 1] \o s[i]
      /\ DOMAIN flat = 1 .. Len(s) /\ flat = [i \in DOMAIN flat |-> flat[i]]
  <2>1. flat = [i \in 1 .. Len(s) |-> IF i = 1 THEN s[i] ELSE flat[i - 1] \o s[i]]
    BY <1>4
  <2>2. DOMAIN flat = 1 .. Len(s) /\ flat = [i \in DOMAIN flat |-> flat[i]]
    BY <2>1
  <2>3. flat[1] = s[1]
    BY <2>1, <1>1
  <2>4. ASSUME NEW i \in 2 .. Len(s) PROVE flat[i] = flat[i - 1] \o s[i]
    <3>1. i \in 1 .. Len(s) /\ i # 1
      BY <1>1
    <3> QED
      BY <2>1, <3>1, Zenon
  <2> QED
    BY <2>2, <2>3, <2>4
<1>7. \A i \in 1 .. Len(s) : flat[i] \in Seq(S)
  <2> DEFINE Bad == {i \in 1 .. Len(s) : flat[i] \notin Seq(S)}
  <2> SUFFICES ASSUME Bad # {} PROVE FALSE
    OBVIOUS
  <2>1. Bad \in SUBSET Nat
    OBVIOUS
  <2>2. PICK m \in Bad : \A k \in Bad : m <= k
    <3> HIDE DEF Bad
    <3> QED
      BY <2>1, LeastElement
  <2>3. m # 1
    BY <1>6, <1>1
  <2>4. m \in 2 .. Len(s) /\ m - 1 \in 1 .. Len(s) /\ m - 1 \notin Bad
    BY <2>2, <2>3, <1>1
  <2>5. flat[m - 1] \in Seq(S) /\ s[m] \in Seq(S)
    BY <2>4
  <2>6. flat[m] \in Seq(S)
    <3>1. flat[m] = flat[m - 1] \o s[m]
      BY <2>4, <1>6
    <3> QED
      BY <3>1, <2>5
  <2> QED
    BY <2>6
<1>8. flat \in [1 .. Len(s) -> Seq(S)]
  BY <1>6, <1>7
<1> QED
  BY <1>5, <1>6, <1>8

LEMMA FlattenType ==
  ASSUME NEW S, NEW s \in Seq(Seq(S))
  PROVE  FlattenSeq(s) \in Seq(S)
<1>1. CASE s = <<>>
  BY <1>1 DEF FlattenSeq
<1>2. CASE s # <<>>
  <2>1. PICK g \in [1 .. Len(s) -> Seq(S)] : FlattenSeq(s) = g[Len(s)]
    BY <1>2, Flatten
  <2> QED
    BY <1>2, <2>1, SMTT(30)
<1> QED
  BY <1>1, <1>2

(* Adjacent ranges make the range from the first to the last.              *)
LEMMA FlattenBytes ==
  ASSUME NEW n \in Nat, NEW c \in [0 .. n -> Int], NEW s \in Seq(Seq(Int)), Len(s) = n,
         \A k \in 1 .. n : c[k - 1] <= c[k] /\ s[k] = Bytes(c[k - 1], c[k])
  PROVE  FlattenSeq(s) = Bytes(c[0], c[n]) /\ c[0] <= c[n]
<1>1. CASE n = 0
  <2>1. s = <<>>
    BY <1>1
  <2> QED
    BY <1>1, <2>1, BytesEmpty DEF FlattenSeq
<1>2. CASE n # 0
  <2>1. s # <<>>
    BY <1>2
  <2>2. PICK g \in [1 .. n -> Seq(Int)] :
           /\ g[1] = s[1]
           /\ \A i \in 2 .. n : g[i] = g[i - 1] \o s[i]
           /\ FlattenSeq(s) = g[n]
    BY <2>1, Flatten
  <2> DEFINE Bad == {i \in 1 .. n : ~(g[i] = Bytes(c[0], c[i]) /\ c[0] <= c[i])}
  <2>3. Bad = {}
    <3> SUFFICES ASSUME Bad # {} PROVE FALSE
      OBVIOUS
    <3>1. Bad \in SUBSET Nat
      OBVIOUS
    <3>2. PICK m \in Bad : \A k \in Bad : m <= k
      <4> HIDE DEF Bad
      <4> QED
        BY <3>1, LeastElement
    <3>3. m # 1
      BY <1>2, <2>2
    <3>4. m \in 2 .. n /\ m - 1 \in 1 .. n /\ m - 1 \notin Bad
      <4>1. m \in 1 .. n
        BY <3>2
      <4>2. m \in 2 .. n /\ m - 1 \in 1 .. n
        BY <3>3, <4>1
      <4> HIDE DEF Bad
      <4>3. m - 1 \notin Bad
        BY <3>2, <4>2
      <4> QED
        BY <4>2, <4>3
    <3>5. g[m - 1] = Bytes(c[0], c[m - 1]) /\ c[0] <= c[m - 1]
      BY <3>4
    <3>6. s[m] = Bytes(c[m - 1], c[m]) /\ c[m - 1] <= c[m]
      BY <3>4
    <3>7. 0 \in 0 .. n /\ m - 1 \in 0 .. n /\ m \in 0 .. n
      BY <3>4
    <3>8. c[0] \in Int /\ c[m - 1] \in Int /\ c[m] \in Int
      BY <3>7
    <3>9. g[m] = g[m - 1] \o s[m]
      BY <2>2, <3>4
    <3>10. c[0] <= c[m]
      BY <3>5, <3>6, <3>8
    <3>11. g[m] = Bytes(c[0], c[m])
      <4>1. Bytes(c[0], c[m - 1]) \o Bytes(c[m - 1], c[m]) = Bytes(c[0], c[m])
        BY <3>5, <3>6, <3>8, BytesConcat
      <4> QED
        BY <4>1, <3>5, <3>6, <3>9
    <3> HIDE DEF Bad
    <3>12. m \notin Bad
      BY <3>10, <3>11 DEF Bad
    <3> QED
      BY <3>2, <3>12
  <2>4. n \in 1 .. n
    BY <1>2
  <2>5. g[n] = Bytes(c[0], c[n]) /\ c[0] <= c[n]
    BY <2>3, <2>4
  <2> QED
    BY <2>2, <2>5
<1> QED
  BY <1>1, <1>2

LEMMA SubConcat ==
  ASSUME NEW S, NEW t \in Seq(S), NEW a \in Nat, NEW b \in Nat, NEW c \in Nat, a <= b, b <= c, c <= Len(t)
  PROVE  /\ SubSeq(t, a + 1, b) \o SubSeq(t, b + 1, c) = SubSeq(t, a + 1, c)
         /\ SubSeq(t, a + 1, b) \in Seq(S) /\ Len(SubSeq(t, a + 1, b)) = b - a
         /\ SubSeq(t, a + 1, a) = <<>>
OBVIOUS

LEMMA Ascending ==
  ASSUME NEW n \in Nat, NEW c \in [0 .. n -> Nat], \A k \in 1 .. n : c[k - 1] <= c[k]
  PROVE  \A i, j \in 0 .. n : i <= j => c[i] <= c[j]
<1> SUFFICES ASSUME NEW i \in 0 .. n PROVE \A j \in i .. n : c[i] <= c[j]
  OBVIOUS
<1> DEFINE Bad == {j \in i .. n : ~(c[i] <= c[j])}
<1> SUFFICES ASSUME Bad # {} PROVE FALSE
  OBVIOUS
<1>1. Bad \in SUBSET Nat
  OBVIOUS
<1>2. PICK m \in Bad : \A j \in Bad : m <= j
  <2> HIDE DEF Bad
  <2> QED
    BY <1>1, LeastElement
<1>3. m \in i .. n /\ ~(c[i] <= c[m]) /\ c[i] \in Nat /\ c[m] \in Nat
  BY <1>2
<1>4. m # i
  BY <1>3
<1>5. m - 1 \in i .. n /\ m \in 1 .. n /\ m - 1 \in Nat
  BY <1>3, <1>4
<1>6. m - 1 \notin Bad
  <2> HIDE DEF Bad
  <2> QED
    BY <1>1, <1>2, <1>5
<1>7. c[i] <= c[m - 1] /\ c[m - 1] <= c[m] /\ c[m - 1] \in Nat
  BY <1>5, <1>6
<1> QED
  BY <1>3, <1>7

LEMMA ConcatPieces ==
  ASSUME NEW S, NEW x \in Seq(S), NEW y \in Seq(S)
  PROVE  /\ Len(x) \in Nat /\ Len(x \o y) \in Nat /\ Len(x) <= Len(x \o y)
         /\ x = SubSeq(x \o y, 1, Len(x)) /\ y = SubSeq(x \o y, Len(x) + 1, Len(x \o y))
OBVIOUS

\* The elements of a sequence of sequences are adjacent pieces of it in one.
LEMMA FlattenOffsets ==
  ASSUME NEW S, NEW s \in Seq(Seq(S))
  PROVE  \E c \in [0 .. Len(s) -> 0 .. Len(FlattenSeq(s))] :
           /\ c[0] = 0 /\ c[Len(s)] = Len(FlattenSeq(s))
           /\ \A k \in 1 .. Len(s) : c[k - 1] <= c[k] /\ s[k] = SubSeq(FlattenSeq(s), c[k - 1] + 1, c[k])
<1> DEFINE n == Len(s)
           t == FlattenSeq(s)
<1>1. n \in Nat /\ t \in Seq(S) /\ Len(t) \in Nat /\ \A k \in 1 .. n : s[k] \in Seq(S)
  BY FlattenType
<1>2. CASE s = <<>>
  <2>1. n = 0 /\ t = <<>> /\ Len(t) = 0
    BY <1>2 DEF FlattenSeq
  <2> DEFINE c == [k \in 0 .. n |-> 0]
  <2>2. c \in [0 .. n -> 0 .. Len(t)] /\ c[0] = 0 /\ c[n] = Len(t) /\ 1 .. n = {}
    BY <2>1
  <2> HIDE DEF c, t, n
  <2>3. \E d \in [0 .. n -> 0 .. Len(t)] :
           /\ d[0] = 0 /\ d[n] = Len(t)
           /\ \A k \in 1 .. n : d[k - 1] <= d[k] /\ s[k] = SubSeq(t, d[k - 1] + 1, d[k])
    BY <2>2
  <2> QED
    BY <2>3 DEF n, t
<1>3. CASE s # <<>>
  <2>1. PICK g \in [1 .. n -> Seq(S)] :
           /\ g[1] = s[1]
           /\ \A i \in 2 .. n : g[i] = g[i - 1] \o s[i]
           /\ t = g[n]
    BY <1>3, Flatten
  <2>2. n >= 1
    BY <1>3
  <2> HIDE DEF n, t
  <2> DEFINE c == [k \in 0 .. n |-> IF k = 0 THEN 0 ELSE Len(g[k])]
             Prefix(k) == Len(g[k]) <= Len(t) /\ g[k] = SubSeq(t, 1, Len(g[k]))
             Bad == {d \in 0 .. (n - 1) : ~Prefix(n - d)}
  <2>3. \A k \in 1 .. n : g[k] \in Seq(S) /\ Len(g[k]) \in Nat
    BY <2>1, SMTT(30)
  <2>4. Prefix(n)
    BY <1>1, <2>1, <2>2
  <2>5. ASSUME NEW k \in 2 .. n, Prefix(k) PROVE Prefix(k - 1)
    <3>1. k - 1 \in 1 .. n /\ k \in 1 .. n
      BY <1>1
    <3>2. g[k] = g[k - 1] \o s[k] /\ s[k] \in Seq(S) /\ g[k - 1] \in Seq(S) /\ g[k] \in Seq(S)
      BY <1>1, <2>1, <2>3, <3>1
    <3>3. Len(g[k - 1]) <= Len(g[k]) /\ g[k - 1] = SubSeq(g[k], 1, Len(g[k - 1]))
      <4>1. LET x == g[k - 1] y == s[k] IN Len(x) <= Len(x \o y) /\ x = SubSeq(x \o y, 1, Len(x))
        BY <3>2, ConcatPieces
      <4> QED
        BY <3>2, <4>1
    <3>4. Len(g[k]) <= Len(t) /\ g[k] = SubSeq(t, 1, Len(g[k]))
      BY <2>5
    <3>5. SubSeq(SubSeq(t, 1, Len(g[k])), 1, Len(g[k - 1])) = SubSeq(t, 1, Len(g[k - 1]))
      <4> DEFINE a == Len(g[k - 1])
                 b == Len(g[k])
      <4>1. a \in Nat /\ b \in Nat /\ a <= b /\ b <= Len(t)
        BY <2>3, <3>1, <3>3, <3>4
      <4> HIDE DEF a, b
      <4>2. SubSeq(SubSeq(t, 1, b), 1, a) = SubSeq(t, 1, a)
        BY <1>1, <4>1
      <4> QED
        BY <4>2 DEF a, b
    <3>6. Len(g[k - 1]) <= Len(t)
      BY <1>1, <2>3, <3>1, <3>3, <3>4
    <3> QED
      BY <3>3, <3>4, <3>5, <3>6
  <2>6. \A k \in 1 .. n : Prefix(k)
    <3> HIDE DEF Prefix
    <3>1. Bad = {}
      <4> SUFFICES ASSUME Bad # {} PROVE FALSE
        OBVIOUS
      <4>1. Bad \in SUBSET Nat
        OBVIOUS
      <4>2. PICK m \in Bad : \A d \in Bad : m <= d
        <5> HIDE DEF Bad
        <5> QED
          BY <4>1, LeastElement
      <4>3. m # 0
        BY <1>1, <2>4
      <4>4. m \in 0 .. (n - 1) /\ m - 1 \in 0 .. (n - 1) /\ n - (m - 1) \in 2 .. n
        BY <1>1, <4>2, <4>3
      <4>5. Prefix(n - (m - 1))
        <5>1. m - 1 \notin Bad
          <6> HIDE DEF Bad
          <6> QED
            BY <4>1, <4>2, <4>4
        <5> QED
          BY <4>4, <5>1
      <4>6. Prefix((n - (m - 1)) - 1)
        BY <2>5, <4>4, <4>5
      <4>7. (n - (m - 1)) - 1 = n - m
        BY <1>1, <4>1
      <4> QED
        BY <4>6, <4>7
    <3>2. ASSUME NEW k \in 1 .. n PROVE Prefix(k)
      <4>1. n - k \in 0 .. (n - 1) /\ n - (n - k) = k
        BY <1>1
      <4>2. Prefix(n - (n - k))
        BY <3>1, <4>1
      <4> QED
        BY <4>1, <4>2
    <3> QED
      BY <3>2
  <2>7. c \in [0 .. n -> 0 .. Len(t)] /\ c[0] = 0 /\ c[n] = Len(t)
    <3>1. \A k \in 1 .. n : Len(g[k]) \in 0 .. Len(t)
      BY <1>1, <2>3, <2>6
    <3> QED
      BY <1>1, <2>1, <2>2, <3>1
  <2>8. ASSUME NEW k \in 1 .. n PROVE c[k - 1] <= c[k] /\ s[k] = SubSeq(t, c[k - 1] + 1, c[k])
    <3>1. g[k] \in Seq(S) /\ s[k] \in Seq(S) /\ c[k] = Len(g[k]) /\ Prefix(k) /\ Len(g[k]) \in Nat
      BY <1>1, <2>3, <2>6
    <3>2. CASE k = 1
      <4>1. g[k] = s[k] /\ c[k - 1] = 0
        BY <1>1, <2>1, <3>2
      <4> HIDE DEF c
      <4> QED
        BY <3>1, <4>1
    <3>3. CASE k # 1
      <4>1. k \in 2 .. n /\ k - 1 \in 1 .. n /\ k - 1 \in 0 .. n /\ k - 1 # 0
        BY <1>1, <3>3
      <4>2. g[k] = g[k - 1] \o s[k] /\ g[k - 1] \in Seq(S) /\ c[k - 1] = Len(g[k - 1])
        <5>1. g[k] = g[k - 1] \o s[k]
          BY <2>1, <4>1
        <5>2. g[k - 1] \in Seq(S)
          BY <2>3, <4>1
        <5>3. c[k - 1] = Len(g[k - 1])
          BY <4>1
        <5> QED
          BY <5>1, <5>2, <5>3
      <4> DEFINE a == Len(g[k - 1])
                 b == Len(g[k])
      <4>3. a \in Nat /\ b \in Nat /\ a <= b /\ b <= Len(t) /\ s[k] = SubSeq(g[k], a + 1, b) /\ g[k] = SubSeq(t, 1, b)
        <5>1. LET x == g[k - 1] y == s[k] IN /\ Len(x) \in Nat /\ Len(x \o y) \in Nat /\ Len(x) <= Len(x \o y)
                                             /\ y = SubSeq(x \o y, Len(x) + 1, Len(x \o y))
          <6> HIDE DEF c, Prefix
          <6> QED
            BY <3>1, <4>2, ConcatPieces
        <5>2. b <= Len(t) /\ g[k] = SubSeq(t, 1, b)
          BY <3>1
        <5> HIDE DEF c, Prefix
        <5> QED
          BY <4>2, <5>1, <5>2
      <4>4. c[k - 1] = a /\ c[k] = b
        BY <3>1, <4>2
      <4> HIDE DEF a, b, c, Prefix
      <4>5. SubSeq(SubSeq(t, 1, b), a + 1, b) = SubSeq(t, a + 1, b)
        BY <1>1, <4>3
      <4> QED
        BY <4>3, <4>4, <4>5
    <3> QED
      BY <3>2, <3>3
  <2> HIDE DEF c
  <2> QED
    BY <2>7, <2>8 DEF n, t
<1> QED
  BY <1>2, <1>3

\* Adjacent pieces of a sequence make the piece from the first to the last.
LEMMA FlattenPieces ==
  ASSUME NEW S, NEW t \in Seq(S), NEW n \in Nat, NEW c \in [0 .. n -> 0 .. Len(t)],
         NEW s \in Seq(Seq(S)), Len(s) = n,
         \A k \in 1 .. n : c[k - 1] <= c[k] /\ s[k] = SubSeq(t, c[k - 1] + 1, c[k])
  PROVE  FlattenSeq(s) = SubSeq(t, c[0] + 1, c[n]) /\ c[0] <= c[n]
<1>0. Len(t) \in Nat /\ \A k \in 0 .. n : c[k] \in Nat /\ c[k] <= Len(t)
  OBVIOUS
<1>1. CASE n = 0
  <2>1. s = <<>>
    BY <1>1
  <2>2. FlattenSeq(s) = <<>>
    BY <2>1 DEF FlattenSeq
  <2>3. SubSeq(t, c[0] + 1, c[0]) = <<>>
    BY <1>0, <1>1, SubConcat
  <2> QED
    BY <1>0, <1>1, <2>2, <2>3
<1>2. CASE n # 0
  <2>1. s # <<>>
    BY <1>2
  <2>2. PICK g \in [1 .. n -> Seq(S)] :
           /\ g[1] = s[1]
           /\ \A i \in 2 .. n : g[i] = g[i - 1] \o s[i]
           /\ FlattenSeq(s) = g[n]
    BY <2>1, Flatten
  <2> DEFINE Bad == {i \in 1 .. n : ~(g[i] = SubSeq(t, c[0] + 1, c[i]) /\ c[0] <= c[i])}
  <2>3. Bad = {}
    <3> SUFFICES ASSUME Bad # {} PROVE FALSE
      OBVIOUS
    <3>1. Bad \in SUBSET Nat
      OBVIOUS
    <3>2. PICK m \in Bad : \A k \in Bad : m <= k
      <4> HIDE DEF Bad
      <4> QED
        BY <3>1, LeastElement
    <3>3. m # 1
      <4>1. 1 \in 1 .. n /\ 1 - 1 = 0
        BY <1>2
      <4>2. c[0] <= c[1] /\ s[1] = SubSeq(t, c[0] + 1, c[1])
        BY <4>1
      <4> QED
        BY <2>2, <4>2
    <3>4. m \in 2 .. n /\ m - 1 \in 1 .. n /\ m - 1 \notin Bad
      <4>1. m \in 1 .. n
        OBVIOUS
      <4>2. m \in 2 .. n /\ m - 1 \in 1 .. n /\ m - 1 \in Nat
        BY <3>3, <4>1
      <4> HIDE DEF Bad
      <4> QED
        BY <3>1, <3>2, <4>2
    <3>5. g[m - 1] = SubSeq(t, c[0] + 1, c[m - 1]) /\ c[0] <= c[m - 1]
      BY <3>4
    <3>6. s[m] = SubSeq(t, c[m - 1] + 1, c[m]) /\ c[m - 1] <= c[m]
      BY <3>4
    <3>7. 0 \in 0 .. n /\ m - 1 \in 0 .. n /\ m \in 0 .. n
      BY <3>4
    <3>8. c[0] \in Nat /\ c[m - 1] \in Nat /\ c[m] \in Nat /\ c[m] <= Len(t)
      BY <1>0, <3>7
    <3>9. g[m] = g[m - 1] \o s[m]
      BY <2>2, <3>4
    <3>10. c[0] <= c[m]
      BY <3>5, <3>6, <3>8
    <3>11. g[m] = SubSeq(t, c[0] + 1, c[m])
      <4>1. SubSeq(t, c[0] + 1, c[m - 1]) \o SubSeq(t, c[m - 1] + 1, c[m]) = SubSeq(t, c[0] + 1, c[m])
        <5> DEFINE x == c[0]
                   y == c[m - 1]
                   z == c[m]
        <5>1. x \in Nat /\ y \in Nat /\ z \in Nat /\ x <= y /\ y <= z /\ z <= Len(t)
          BY <3>5, <3>6, <3>8
        <5> HIDE DEF x, y, z, Bad
        <5>2. SubSeq(t, x + 1, y) \o SubSeq(t, y + 1, z) = SubSeq(t, x + 1, z)
          BY <5>1, SubConcat
        <5> QED
          BY <5>2 DEF x, y, z
      <4> QED
        BY <4>1, <3>5, <3>6, <3>9
    <3> HIDE DEF Bad
    <3>12. m \notin Bad
      BY <3>10, <3>11 DEF Bad
    <3> QED
      BY <3>2, <3>12
  <2>4. n \in 1 .. n
    BY <1>2
  <2>5. g[n] = SubSeq(t, c[0] + 1, c[n]) /\ c[0] <= c[n]
    BY <2>3, <2>4
  <2> QED
    BY <2>2, <2>5
<1> QED
  BY <1>1, <1>2

-----------------------------------------------------------------------------
(* Chunks of a range.                                                      *)

LEMMA FunctionSeq ==
  ASSUME NEW R, NEW n \in Nat, NEW f \in [1 .. n -> R]
  PROVE  f \in Seq(R) /\ Len(f) = n
OBVIOUS

LEMMA SeqElement ==
  ASSUME NEW R, NEW s \in Seq(R)
  PROVE  \A i \in DOMAIN s : s[i] \in R
OBVIOUS

LEMMA EmptyFunction ==
  ASSUME NEW f, DOMAIN f = {}, f = [i \in DOMAIN f |-> f[i]]
  PROVE  f = <<>>
OBVIOUS

LEMMA Division ==
  ASSUME NEW a \in Int, NEW b \in Nat \ {0}
  PROVE  /\ a \div b \in Int
         /\ (a \div b) * b <= a /\ a < ((a \div b) * b) + b
         /\ a >= 0 => a \div b \in Nat
BY SMTT(20)

LEMMA Multiple ==
  ASSUME NEW k \in Nat, NEW b \in Nat
  PROVE  k * b \in Nat /\ (k >= 1 => (k - 1) * b = (k * b) - b) /\ (k + 1) * b = (k * b) + b
BY SMTT(20)

LEMMA MultipleOrder ==
  ASSUME NEW k \in Int, NEW m \in Int, k <= m, NEW b \in Nat
  PROVE  k * b <= m * b
BY SMTT(20)

LEMMA RoundedType ==
  ASSUME NEW a \in Int, NEW b \in Nat \ {0}
  PROVE  /\ RoundedDiv(a, b) \in Int
         /\ a >= 0 => RoundedDiv(a, b) \in Nat
<1>1. b \div 2 \in Nat
  OBVIOUS
<1> QED
  BY <1>1, Division DEF RoundedDiv

\* The sizes to choose from have a least and a greatest.
LEMMA ChunkSize ==
  ASSUME NEW total \in Int
  PROVE  /\ AutoSelectChunkSize(total) \in ChunkSizes
         /\ \A size \in ChunkSizes :
              size >= RoundedDiv(total, TargetParts) => AutoSelectChunkSize(total) <= size
<1> DEFINE wanted == RoundedDiv(total, TargetParts)
           enough == {size \in ChunkSizes : size >= wanted}
<1>1. wanted \in Int
  BY ChunkAssumption, RoundedType
<1>2. CASE enough = {}
  <2>1. AutoSelectChunkSize(total) = Max(ChunkSizes)
    BY <1>2 DEF AutoSelectChunkSize
  <2>2. Max(ChunkSizes) \in ChunkSizes
    BY ChunkAssumption DEF Max
  <2> QED
    BY <1>2, <2>1, <2>2
<1>3. CASE enough # {}
  <2>1. AutoSelectChunkSize(total) = Min(enough)
    BY <1>3 DEF AutoSelectChunkSize
  <2>2. enough \in SUBSET Nat
    BY ChunkAssumption
  <2>3. Min(enough) \in enough /\ \A size \in enough : Min(enough) <= size
    <3> HIDE DEF enough
    <3> QED
      BY <1>3, <2>2, LeastElement DEF Min
  <2> QED
    BY <2>1, <2>3
<1> QED
  BY <1>2, <1>3

LEMMA SizeType ==
  ASSUME NEW total \in Int
  PROVE  AutoSelectChunkSize(total) \in Nat \ {0}
BY ChunkSize, ChunkAssumption

ChunkCount(size, start, length) == Len(SplitFilebyRange(size, start, length, FALSE))
ChunkOf(size, start, length) == AutoSelectChunkSize(RangeEnd(size, start, length) - start)

LEMMA EndType ==
  ASSUME NEW size \in Nat, NEW start \in Nat, NEW length \in Int
  PROVE  /\ RangeEnd(size, start, length) \in Nat
         /\ RangeEnd(size, start, length) <= size
         /\ start < size => start < RangeEnd(size, start, length)
BY DEF RangeEnd, Least

\* Chunk i begins where i - 1 whole chunks end; a range that is not empty has one.
LEMMA SplitChunks ==
  ASSUME NEW size \in Nat, NEW start \in Nat, NEW length \in Int
  PROVE  LET chunks == SplitFilebyRange(size, start, length, FALSE)
             n == ChunkCount(size, start, length)
             c == ChunkOf(size, start, length)
             end == RangeEnd(size, start, length)
         IN /\ n \in Nat /\ DOMAIN chunks = 1 .. n /\ chunks \in Seq([offset : Nat, size : Int])
            /\ \A i \in 1 .. n :
                 /\ chunks[i].offset = start + ((i - 1) * c)
                 /\ chunks[i].size = Least(c, end - chunks[i].offset)
            /\ start < end => n >= 1 /\ (n - 1) * c < end - start /\ end - start <= n * c
            /\ end <= start => n = 0
<1> DEFINE chunks == SplitFilebyRange(size, start, length, FALSE)
           c == ChunkOf(size, start, length)
           end == RangeEnd(size, start, length)
           m == (end - start + c - 1) \div c
<1>1. end \in Nat
  BY EndType
<1>2. c \in Nat \ {0}
  BY <1>1, SizeType DEF ChunkOf
<1>3. chunks = [i \in 1 .. m |-> [offset |-> start + (i - 1) * c, size |-> Least(c, end - (start + (i - 1) * c))]]
  BY DEF SplitFilebyRange, ChunkOf
<1>4. m \in Int /\ m * c <= end - start + c - 1 /\ end - start + c - 1 < (m * c) + c
      /\ (end - start + c - 1 >= 0 => m \in Nat)
  <2> HIDE DEF c, end
  <2>1. end - start + c - 1 \in Int
    BY <1>1, <1>2
  <2> QED
    BY <2>1, <1>2, Division
<1> HIDE DEF m, c, end, chunks
<1> DEFINE n == ChunkCount(size, start, length)
<1>9. n = Len(chunks)
  BY DEF ChunkCount, chunks
<1> HIDE DEF n
<1> DEFINE Goal == /\ n \in Nat
                   /\ DOMAIN chunks = 1 .. n /\ chunks \in Seq([offset : Nat, size : Int])
                   /\ start < end => n >= 1 /\ (n - 1) * c < end - start /\ end - start <= n * c
                   /\ end <= start => n = 0
<1>5. ASSUME start < end PROVE Goal
  <2>1. m \in Nat
    BY <1>1, <1>2, <1>4, <1>5
  <2>2. m # 0
    <3> SUFFICES ASSUME m = 0 PROVE FALSE
      OBVIOUS
    <3>1. m * c = 0
      BY <1>2
    <3> QED
      BY <3>1, <1>1, <1>2, <1>4, <1>5
  <2>3. (m - 1) * c = (m * c) - c
    BY <2>1, <2>2, <1>2, Multiple
  <2>4. \A i \in 1 .. m : (i - 1) * c \in Nat
    BY <1>2, Multiple
  <2>5. chunks \in Seq([offset : Nat, size : Int]) /\ Len(chunks) = m
    <3>1. \A i \in 1 .. m : start + (i - 1) * c \in Nat /\ Least(c, end - (start + (i - 1) * c)) \in Int
      BY <2>4, <1>1, <1>2 DEF Least
    <3>2. chunks \in [1 .. m -> [offset : Nat, size : Int]]
      BY <1>3, <3>1
    <3> QED
      BY <3>2, <2>1, FunctionSeq
  <2>6. n = m
    BY <2>5, <1>9
  <2>7. m * c \in Int /\ (m - 1) * c < end - start /\ end - start <= m * c
    BY <2>1, <2>3, <1>1, <1>2, <1>4, Multiple
  <2>8. DOMAIN chunks = 1 .. m
    BY <1>3
  <2> QED
    BY <1>5, <1>1, <2>1, <2>2, <2>5, <2>6, <2>7, <2>8
<1>6. ASSUME end <= start PROVE Goal
  <2>1. m <= 0
    <3> SUFFICES ASSUME m >= 1 PROVE FALSE
      BY <1>4
    <3>1. 1 * c <= m * c
      BY <1>2, <1>4, MultipleOrder
    <3> QED
      BY <3>1, <1>1, <1>2, <1>4, <1>6
  <2>2. 1 .. m = {}
    BY <2>1, <1>4
  <2>3. chunks = <<>>
    <3>1. DOMAIN chunks = {} /\ chunks = [i \in DOMAIN chunks |-> chunks[i]]
      BY <1>3, <2>2
    <3> QED
      BY <3>1, EmptyFunction
  <2>4. n = 0
    BY <2>3, <1>9
  <2> QED
    BY <1>1, <1>6, <2>3, <2>4
<1>7. \A i \in DOMAIN chunks : /\ chunks[i].offset = start + ((i - 1) * c)
                               /\ chunks[i].size = Least(c, end - chunks[i].offset)
  BY <1>3
<1>8. Goal
  BY <1>1, <1>5, <1>6
<1> QED
  BY <1>7, <1>8 DEF chunks, c, end, n

(* What a source returns.                                                  *)
SourceKinds == {"s3", "gcs", "local", "remote"}

LEMMA FetchType ==
  ASSUME NEW source \in SourceKinds, NEW size \in Nat, NEW start \in Nat, NEW length \in Int
  PROVE  DownloadFile(source, size, start, length) \in Seq(0 .. (size - 1))
<1>0. ASSUME NEW a \in Nat, NEW b \in Int, b <= size
      PROVE  Bytes(a, b) \in Seq(0 .. (size - 1))
  BY <1>0, BytesIn
<1>5. Bytes(0, size) \in Seq(0 .. (size - 1))
  BY <1>0
<1>1. CASE source = "s3"
  <2> DEFINE end == Least(start + length - 1, size - 1) + 1
  <2>1. end \in Int /\ end <= size
    BY DEF Least
  <2>2. Bytes(start, end) \in Seq(0 .. (size - 1))
    BY <2>1, <1>0
  <2> QED
    BY <1>1, <1>5, <2>2 DEF DownloadFile, ReadS3
<1>2. CASE source = "gcs"
  <2> DEFINE end == Least(start + length, size)
  <2>1. end \in Int /\ end <= size
    BY DEF Least
  <2>2. Bytes(start, end) \in Seq(0 .. (size - 1))
    BY <2>1, <1>0
  <2> QED
    BY <1>2, <1>5, <2>2 DEF DownloadFile, ReadGCS
<1>3. CASE source = "local"
  <2> DEFINE from == IF length <= 0 THEN 0 ELSE start
             end == from + (CASE length <= 0 -> size
                              [] length > 0 /\ start + length > size -> size - start
                              [] OTHER -> length)
  <2>1. from \in Nat /\ end \in Int /\ end <= size
    OBVIOUS
  <2>2. DownloadFile(source, size, start, length) = Bytes(from, end)
    BY <1>3 DEF DownloadFile, ReadLocal
  <2> QED
    BY <2>1, <2>2, <1>0
<1>4. CASE source = "remote"
  <2> DEFINE bs == AutoSelectBs(length)
             skip == start \div bs
             count == (length + bs - 1) \div bs
  <2>1. bs \in Nat \ {0}
    BY SizeType DEF AutoSelectBs
  <2>2. skip \in Nat /\ count \in Int
    <3> HIDE DEF bs
    <3> QED
      BY <2>1, Division
  <2>3. skip * bs \in Nat /\ (skip + count) * bs \in Int
    <3> HIDE DEF bs, skip, count
    <3> QED
      BY <2>1, <2>2
  <2>4. DownloadFile(source, size, start, length) = Bytes(Least(skip * bs, size), Least((skip + count) * bs, size))
    BY <1>4 DEF DownloadFile, ReadRemote
  <2> HIDE DEF bs, skip, count
  <2> DEFINE from == Least(skip * bs, size)
             end == Least((skip + count) * bs, size)
  <2>5. from \in Nat /\ end \in Int /\ end <= size
    BY <2>3 DEF Least
  <2> HIDE DEF from, end
  <2>6. Bytes(from, end) \in Seq(0 .. (size - 1))
    BY <2>5, <1>0
  <2> QED
    BY <2>4, <2>6 DEF from, end
<1> QED
  BY <1>1, <1>2, <1>3, <1>4 DEF SourceKinds

LEMMA FetchExact ==
  ASSUME NEW source \in SourceKinds \ {"remote"}, NEW size \in Nat,
         NEW start \in Nat, NEW length \in Nat \ {0}, start + length <= size
  PROVE  DownloadFile(source, size, start, length) = Bytes(start, start + length)
<1>1. CASE source = "s3"
  BY <1>1 DEF DownloadFile, ReadS3, Least
<1>2. CASE source = "gcs"
  BY <1>2 DEF DownloadFile, ReadGCS, Least
<1>3. CASE source = "local"
  BY <1>3 DEF DownloadFile, ReadLocal
<1> QED
  BY <1>1, <1>2, <1>3 DEF SourceKinds

\* dd reads whole blocks, whose size divides the chunks'.
LEMMA RemoteExact ==
  ASSUME NEW size \in Nat, NEW c \in ChunkSizes, NEW k \in Nat,
         NEW length \in Nat \ {0}, length = Least(c, size - (k * c))
  PROVE  DownloadFile("remote", size, k * c, length) = Bytes(k * c, (k * c) + length)
<1> DEFINE bs == AutoSelectBs(length)
           skip == (k * c) \div bs
           count == (length + bs - 1) \div bs
           q == c \div bs
<1>1. c \in Nat \ {0} /\ bs \in ChunkSizes /\ bs \in Nat \ {0} /\ k * c \in Nat
  BY SizeType, ChunkSize, ChunkAssumption, Multiple DEF AutoSelectBs
<1>2. bs <= c
  <2>1. RoundedDiv(length, TargetParts) <= length
    <3> DEFINE t == TargetParts
               r == (length + t \div 2) \div t
    <3>1. t \in Nat \ {0} /\ t \div 2 \in Nat /\ t \div 2 <= t - 1
      <4>1. t \in Nat \ {0}
        BY ChunkAssumption
      <4> HIDE DEF t
      <4>2. t \div 2 \in Nat /\ (t \div 2) * 2 <= t
        BY <4>1, Division
      <4> QED
        BY <4>1, <4>2
    <3>2. r \in Nat /\ r * t <= length + t \div 2
      <4> DEFINE h == length + t \div 2
      <4>1. h \in Int /\ h >= 0
        BY <3>1
      <4> HIDE DEF h, t
      <4>2. h \div t \in Nat /\ (h \div t) * t <= h
        BY <3>1, <4>1, Division, Zenon
      <4> QED
        BY <4>2 DEF h
    <3>3. CASE r > length
      <4>1. (length + 1) * t <= r * t
        BY <3>1, <3>2, <3>3, MultipleOrder
      <4>2. (length + 1) * t = (length * t) + t
        BY <3>1, Multiple
      <4>3. length * 1 <= length * t
        BY <3>1
      <4> QED
        BY <3>1, <3>2, <4>1, <4>2, <4>3
    <3> HIDE DEF r
    <3> QED
      BY <3>2, <3>3 DEF RoundedDiv, r
  <2>2. length <= c
    BY <1>1 DEF Least
  <2>3. RoundedDiv(length, TargetParts) \in Int
    BY ChunkAssumption, RoundedType
  <2> QED
    BY <1>1, <2>1, <2>2, <2>3, ChunkSize DEF AutoSelectBs
<1> HIDE DEF bs
<1>3. c % bs = 0
  BY <1>1, <1>2, ChunkAssumption
<1>4. q \in Nat /\ c = q * bs
  BY <1>1, <1>3, SMTT(20)
<1>5. skip \in Nat /\ skip * bs = k * c
  <2> HIDE DEF q
  <2>1. k * c = (k * q) * bs
    BY <1>1, <1>4, SMTT(20)
  <2>2. k * q \in Nat
    BY <1>4
  <2>3. ((k * q) * bs) \div bs = k * q
    <3> HIDE DEF skip
    <3> DEFINE kq == k * q
    <3> HIDE DEF kq
    <3>1. kq \in Nat => (kq * bs) \div bs = kq
      BY <1>1, SMTT(20)
    <3> QED
      BY <2>2, <3>1 DEF kq
  <2> QED
    BY <2>1, <2>2, <2>3
<1>6. count \in Nat /\ length <= count * bs /\ count * bs < length + bs
  <2> DEFINE h == length + bs - 1
  <2>1. h \in Int /\ h >= 0
    BY <1>1
  <2> HIDE DEF h
  <2>2. h \div bs \in Nat /\ (h \div bs) * bs <= h /\ h < ((h \div bs) * bs) + bs
    BY <1>1, <2>1, Division, Zenon
  <2>3. (h \div bs) * bs \in Int
    BY <1>1, <2>2
  <2>4. count = h \div bs
    BY DEF h
  <2> HIDE DEF count
  <2> QED
    BY <1>1, <2>2, <2>3, <2>4 DEF h
<1>7. (skip + count) * bs = (k * c) + (count * bs) /\ count * bs \in Nat
  <2> HIDE DEF count, skip
  <2>1. (skip + count) * bs = (skip * bs) + (count * bs) /\ count * bs \in Nat
    BY <1>1, <1>5, <1>6, SMTT(20)
  <2> QED
    BY <1>5, <2>1
<1>8. length = c => count * bs = c
  <2> HIDE DEF count, q
  <2> SUFFICES ASSUME length = c PROVE count * bs = c
    OBVIOUS
  <2>1. q * bs <= count * bs /\ count * bs < (q * bs) + bs
    BY <1>4, <1>6
  <2>2. CASE count >= q + 1
    <3>1. (q + 1) * bs <= count * bs
      BY <2>2, <1>1, <1>4, <1>6, MultipleOrder
    <3>2. (q + 1) * bs = (q * bs) + bs
      BY <1>1, <1>4, Multiple
    <3> QED
      BY <2>1, <3>1, <3>2, <1>1, <1>4, <1>7
  <2>3. CASE count <= q
    <3>1. count * bs <= q * bs
      BY <2>3, <1>1, <1>4, <1>6, MultipleOrder
    <3> QED
      BY <2>1, <3>1, <1>4, <1>1, <1>7
  <2> QED
    BY <2>2, <2>3, <1>4, <1>6
<1>9. DownloadFile("remote", size, k * c, length)
        = Bytes(Least(skip * bs, size), Least((skip + count) * bs, size))
  BY DEF DownloadFile, ReadRemote, bs
<1> HIDE DEF skip, count, q
<1>10. Least(k * c, size) = k * c /\ Least((k * c) + (count * bs), size) = (k * c) + length
  BY <1>1, <1>6, <1>7, <1>8 DEF Least
<1> QED
  BY <1>5, <1>7, <1>9, <1>10

(* The chunks of a range, read from the source, are the range in pieces.   *)
Cut(size, start, length, k) == Least(start + (k * ChunkOf(size, start, length)), RangeEnd(size, start, length))

LEMMA CutType ==
  ASSUME NEW size \in Nat, NEW start \in Nat, NEW length \in Int, NEW k \in Nat
  PROVE  /\ Cut(size, start, length, k) \in Nat
         /\ k >= 1 => Cut(size, start, length, k - 1) <= Cut(size, start, length, k)
<1> DEFINE c == ChunkOf(size, start, length)
           end == RangeEnd(size, start, length)
<1>1. end \in Nat
  BY EndType
<1>2. c \in Nat \ {0}
  BY <1>1, SizeType DEF ChunkOf
<1> HIDE DEF c, end
<1>3. k * c \in Nat /\ (k >= 1 => (k - 1) * c = (k * c) - c)
  BY <1>2, Multiple
<1> QED
  BY <1>1, <1>2, <1>3 DEF Cut, Least, c, end

LEMMA ChunkBytes ==
  ASSUME NEW source \in SourceKinds, NEW size \in Nat, NEW start \in Nat, NEW length \in Int,
         source = "remote" => start = 0 /\ RangeEnd(size, start, length) = size,
         NEW i \in 1 .. ChunkCount(size, start, length)
  PROVE  LET chunk == SplitFilebyRange(size, start, length, FALSE)[i]
         IN  DownloadFile(source, size, chunk.offset, chunk.size)
               = Bytes(Cut(size, start, length, i - 1), Cut(size, start, length, i))
<1> DEFINE chunk == SplitFilebyRange(size, start, length, FALSE)[i]
           n == ChunkCount(size, start, length)
           c == ChunkOf(size, start, length)
           end == RangeEnd(size, start, length)
<1>1. end \in Nat /\ end <= size
  BY EndType
<1>2. c \in ChunkSizes
  BY <1>1, ChunkSize DEF ChunkOf
<1>3. c \in Nat \ {0}
  BY <1>2, ChunkAssumption
<1>4. /\ n \in Nat /\ chunk.offset = start + ((i - 1) * c) /\ chunk.size = Least(c, end - chunk.offset)
      /\ start < end => n >= 1 /\ (n - 1) * c < end - start /\ end - start <= n * c
      /\ end <= start => n = 0
  BY SplitChunks
<1> HIDE DEF c, end, n, chunk
<1>5. i \in Nat /\ i >= 1 /\ i <= n
  BY <1>4 DEF n
<1>6. start < end
  BY <1>1, <1>4, <1>5
<1>7. (i - 1) * c <= (n - 1) * c
  BY <1>3, <1>4, <1>5, MultipleOrder
<1>8. (i - 1) * c \in Nat /\ (i - 1) * c < end - start /\ i * c = ((i - 1) * c) + c
  BY <1>1, <1>3, <1>4, <1>5, <1>6, <1>7, Multiple
<1> DEFINE x == (i - 1) * c
<1> HIDE DEF x
<1>9. /\ x \in Nat /\ x < end - start /\ chunk.offset = start + x
      /\ chunk.size = Least(c, end - (start + x))
      /\ Cut(size, start, length, i - 1) = Least(start + x, end)
      /\ Cut(size, start, length, i) = Least(start + x + c, end)
  <2>1. i * c = x + c /\ (i - 1) * c = x
    BY <1>8 DEF x
  <2>2. Cut(size, start, length, i - 1) = Least(start + ((i - 1) * c), end)
    BY DEF Cut, c, end
  <2>3. Cut(size, start, length, i) = Least(start + (i * c), end)
    BY DEF Cut, c, end
  <2>4. x \in Nat /\ x < end - start
    BY <1>8 DEF x
  <2>5. start + (x + c) = start + x + c
    BY <1>3, <2>4
  <2> QED
    BY <1>4, <2>1, <2>2, <2>3, <2>4, <2>5
<1>10. /\ chunk.size \in Nat \ {0} /\ chunk.offset \in Nat /\ chunk.offset + chunk.size <= size
       /\ Cut(size, start, length, i - 1) = chunk.offset
       /\ Cut(size, start, length, i) = chunk.offset + chunk.size
  BY <1>1, <1>3, <1>9 DEF Least
<1>11. CASE source # "remote"
  <2>1. DownloadFile(source, size, chunk.offset, chunk.size) = Bytes(chunk.offset, chunk.offset + chunk.size)
    BY <1>10, <1>11, FetchExact
  <2> QED
    BY <1>10, <2>1 DEF chunk
<1>12. CASE source = "remote"
  <2>1. start = 0 /\ end = size
    BY <1>12 DEF end
  <2>2. chunk.offset = x /\ chunk.size = Least(c, size - x)
    BY <1>9, <2>1
  <2>3. DownloadFile("remote", size, x, chunk.size) = Bytes(x, x + chunk.size)
    <3>1. i - 1 \in Nat
      BY <1>5
    <3> QED
      BY <1>2, <1>10, <2>2, <3>1, RemoteExact DEF x
  <2> QED
    BY <1>10, <1>12, <2>2, <2>3 DEF chunk
<1> QED
  BY <1>11, <1>12

LEMMA CutEnds ==
  ASSUME NEW size \in Nat, NEW start \in Nat, NEW length \in Int, start < size
  PROVE  /\ ChunkCount(size, start, length) \in Nat \ {0}
         /\ Cut(size, start, length, 0) = start
         /\ Cut(size, start, length, ChunkCount(size, start, length)) = RangeEnd(size, start, length)
<1> DEFINE n == ChunkCount(size, start, length)
           c == ChunkOf(size, start, length)
           end == RangeEnd(size, start, length)
<1>1. end \in Nat /\ start < end
  BY EndType
<1>2. c \in Nat \ {0}
  BY <1>1, SizeType DEF ChunkOf
<1>3. n \in Nat /\ (start < end => n >= 1 /\ end - start <= n * c)
  BY SplitChunks
<1> HIDE DEF n, c, end
<1>4. n * c \in Nat /\ 0 * c = 0
  BY <1>2, <1>3, Multiple
<1> QED
  BY <1>1, <1>2, <1>3, <1>4 DEF Cut, Least, n, c, end

(* DownloadRange of a range is the range.                                  *)
LEMMA RangeType ==
  ASSUME NEW source \in SourceKinds, NEW size \in Nat, NEW start \in Nat, NEW length \in Int
  PROVE  DownloadRange(source, size, start, length, FALSE) \in Seq(0 .. (size - 1))
<1> DEFINE chunks == SplitFilebyRange(size, start, length, FALSE)
           pieces == [i \in DOMAIN chunks |-> DownloadFile(source, size, chunks[i].offset, chunks[i].size)]
<1>1. chunks \in Seq([offset : Nat, size : Int])
  BY SplitChunks
<1> HIDE DEF chunks
<1>2. \A i \in DOMAIN chunks : chunks[i].offset \in Nat /\ chunks[i].size \in Int
  <2>1. \A i \in DOMAIN chunks : chunks[i] \in [offset : Nat, size : Int]
    BY <1>1, SeqElement
  <2> QED
    BY <2>1
<1>3. \A i \in DOMAIN chunks : DownloadFile(source, size, chunks[i].offset, chunks[i].size) \in Seq(0 .. (size - 1))
  BY <1>2, FetchType
<1>4. pieces \in [1 .. Len(chunks) -> Seq(0 .. (size - 1))] /\ Len(chunks) \in Nat
  BY <1>1, <1>3
<1> HIDE DEF pieces
<1>5. pieces \in Seq(Seq(0 .. (size - 1)))
  BY <1>4, FunctionSeq
<1>6. FlattenSeq(pieces) \in Seq(0 .. (size - 1))
  BY <1>5, FlattenType
<1> QED
  BY <1>6 DEF DownloadRange, pieces, chunks

\* What is read of a file is a piece of it, read short or not.
LEMMA ReadsType ==
  ASSUME NEW source \in SourceKinds, NEW size \in Nat, NEW start \in Nat, NEW length \in Int,
         NEW c \in Reads(source, size, start, length)
  PROVE  c \in Seq(0 .. (size - 1))
<1>1. PICK whole : whole = DownloadFile(source, size, start, length)
  OBVIOUS
<1> DEFINE S == 0 .. (size - 1)
<1>2. whole \in Seq(S)
  BY <1>1, FetchType
<1>3. c \in Beginnings(whole) \/ c = whole
  BY <1>1 DEF Reads
<1> HIDE DEF S
<1>4. \A n \in 0 .. Len(whole) : SubSeq(whole, 1, n) \in Seq(S)
  BY <1>2
<1> QED
  BY <1>2, <1>3, <1>4 DEF Beginnings, S

LEMMA RangeReadsType ==
  ASSUME NEW source \in SourceKinds, NEW size \in Nat, NEW start \in Nat, NEW length \in Int,
         NEW c \in RangeReads(source, size, start, length, FALSE)
  PROVE  c \in Seq(0 .. (size - 1))
<1> DEFINE chunks == SplitFilebyRange(size, start, length, FALSE)
           Of(i) == Reads(source, size, chunks[i].offset, chunks[i].size)
           S == Seq(0 .. (size - 1))
<1>1. chunks \in Seq([offset : Nat, size : Int])
  BY SplitChunks
<1>2. PICK pieces \in [DOMAIN chunks -> UNION {Of(i) : i \in DOMAIN chunks}] :
        c = FlattenSeq(pieces) /\ \A i \in DOMAIN chunks : pieces[i] \in Of(i)
  BY DEF RangeReads
<1> HIDE DEF chunks
<1>3. \A i \in DOMAIN chunks : chunks[i].offset \in Nat /\ chunks[i].size \in Int
  <2>1. \A i \in DOMAIN chunks : chunks[i] \in [offset : Nat, size : Int]
    BY <1>1, SeqElement
  <2> QED
    BY <2>1
<1>4. \A i \in DOMAIN chunks : pieces[i] \in S
  BY <1>2, <1>3, ReadsType
<1>5. DOMAIN chunks = 1 .. Len(chunks) /\ Len(chunks) \in Nat
  BY <1>1
<1> HIDE DEF Of, S
<1>6. pieces \in [1 .. Len(chunks) -> S]
  BY <1>2, <1>4, <1>5
<1>7. pieces \in Seq(S)
  BY <1>5, <1>6, FunctionSeq
<1> QED
  BY <1>2, <1>7, FlattenType DEF S

LEMMA RangeBytes ==
  ASSUME NEW source \in SourceKinds, NEW size \in Nat, NEW start \in Nat, NEW length \in Int,
         source = "remote" => start = 0 /\ RangeEnd(size, start, length) = size
  PROVE  DownloadRange(source, size, start, length, FALSE)
           = Bytes(Least(start, size), Least(RangeEnd(size, start, length), size))
<1> DEFINE chunks == SplitFilebyRange(size, start, length, FALSE)
           pieces == [i \in DOMAIN chunks |-> DownloadFile(source, size, chunks[i].offset, chunks[i].size)]
           n == ChunkCount(size, start, length)
           end == RangeEnd(size, start, length)
           cut == [k \in 0 .. n |-> Cut(size, start, length, k)]
<1>1. n \in Nat /\ DOMAIN chunks = 1 .. n /\ (end <= start => n = 0)
  BY SplitChunks
<1>2. end \in Nat /\ end <= size /\ (start < size => start < end)
  BY EndType
<1>3. cut \in [0 .. n -> Int] /\ \A k \in 1 .. n : cut[k - 1] <= cut[k]
  <2>1. \A k \in Nat : /\ Cut(size, start, length, k) \in Nat
                       /\ k >= 1 => Cut(size, start, length, k - 1) <= Cut(size, start, length, k)
    BY CutType
  <2>2. \A k \in 1 .. n : k \in Nat /\ k >= 1 /\ k - 1 \in 0 .. n /\ k \in 0 .. n
    BY <1>1
  <2> HIDE DEF n
  <2> QED
    BY <2>1, <2>2, SMTT(30)
<1>4. \A i \in 1 .. n : DownloadFile(source, size, chunks[i].offset, chunks[i].size) = Bytes(cut[i - 1], cut[i])
  <2> SUFFICES ASSUME NEW i \in 1 .. n
               PROVE  DownloadFile(source, size, chunks[i].offset, chunks[i].size) = Bytes(cut[i - 1], cut[i])
    OBVIOUS
  <2>1. cut[i - 1] = Cut(size, start, length, i - 1) /\ cut[i] = Cut(size, start, length, i)
    BY <1>1
  <2>2. DownloadFile(source, size, chunks[i].offset, chunks[i].size)
          = Bytes(Cut(size, start, length, i - 1), Cut(size, start, length, i))
    BY ChunkBytes
  <2> QED
    BY <2>1, <2>2
<1> HIDE DEF chunks, n, cut
<1>5. pieces \in Seq(Seq(Int)) /\ Len(pieces) = n
  <2>1. \A i \in 1 .. n : Bytes(cut[i - 1], cut[i]) \in Seq(Int)
    <3>1. \A i \in 1 .. n : i - 1 \in 0 .. n /\ i \in 0 .. n
      BY <1>1
    <3>2. \A i \in 1 .. n : cut[i - 1] \in Int /\ cut[i] \in Int
      BY <3>1, <1>3
    <3> QED
      BY <3>2, BytesLen
  <2>2. pieces \in [1 .. n -> Seq(Int)]
    BY <1>1, <1>4, <2>1
  <2> HIDE DEF pieces
  <2> QED
    BY <1>1, <2>2, FunctionSeq
<1>6. \A k \in 1 .. n : pieces[k] = Bytes(cut[k - 1], cut[k])
  BY <1>1, <1>4
<1> HIDE DEF pieces
<1>7. FlattenSeq(pieces) = Bytes(cut[0], cut[n])
  BY <1>1, <1>3, <1>5, <1>6, FlattenBytes
<1>8. DownloadRange(source, size, start, length, FALSE) = Bytes(cut[0], cut[n])
  BY <1>7 DEF DownloadRange, pieces, chunks
<1>9. CASE start < size
  <2>1. cut[0] = start /\ cut[n] = end
    <3>1. cut[0] = Cut(size, start, length, 0) /\ cut[n] = Cut(size, start, length, n)
      BY <1>1 DEF cut
    <3> QED
      BY <1>9, <3>1, CutEnds DEF n
  <2>2. Least(start, size) = start /\ Least(end, size) = end
    BY <1>2, <1>9 DEF Least
  <2> QED
    BY <1>8, <2>1, <2>2
<1>10. CASE size <= start
  <2>1. n = 0
    BY <1>1, <1>2, <1>10
  <2>2. 0 \in 0 .. n /\ cut[0] \in Int
    BY <1>3, <2>1
  <2>3. Bytes(cut[0], cut[n]) = <<>>
    BY <2>1, <2>2, BytesEmpty
  <2>4. Least(start, size) = size /\ Least(end, size) = end
    BY <1>2, <1>10 DEF Least
  <2>5. Bytes(size, end) = <<>>
    BY <1>2, BytesEmpty
  <2> QED
    BY <1>8, <2>3, <2>4, <2>5
<1>11. start < size \/ size <= start
  OBVIOUS
<1> QED
  BY <1>9, <1>10, <1>11, Zenon

-----------------------------------------------------------------------------
(* The request, which stays the same, and what it asks for.                *)

IsSingle == req.mode = "single"
Valid == IF IsSingle THEN ~SplitFails(FileSize, req.start) ELSE N > 0 /\ TotalWeight > 0

LEMMA Request0 ==
  ASSUME req \in Requests
  PROVE  /\ req.mode \in {"single", "large"} /\ req.client \in BOOLEAN /\ req.source \in SourceKinds
         /\ req.size \in Nat \ {0} /\ req.start \in Nat /\ req.length \in Nat /\ FileSize \in Nat \ {0}
         /\ N \in Nat /\ \A i \in 1 .. N : req.vms[i].weight \in Nat
BY RequestsAssumption DEF SourceKinds, N, FileSize

LEMMA Sums ==
  ASSUME N \in Nat, NEW a, \A i \in 1 .. N : a[i] \in Nat
  PROVE  /\ SumTo(0, a) = 0
         /\ \A n \in 0 .. N : SumTo(n, a) \in Nat
         /\ \A n \in 1 .. N : SumTo(n, a) = SumTo(n - 1, a) + a[n]
<1> DEFINE n0 == N
<1> HIDE DEF n0
<1> DEFINE P(n) == \E g \in [0 .. n -> Nat] : \A i \in 0 .. n : g[i] = IF i = 0 THEN 0 ELSE g[i - 1] + a[i]
           Bad == {n \in 0 .. N : ~P(n)}
<1>1. P(0)
  <2>1. [i \in 0 .. 0 |-> 0] \in [0 .. 0 -> Nat]
        /\ \A i \in 0 .. 0 : [j \in 0 .. 0 |-> 0][i] = IF i = 0 THEN 0 ELSE [j \in 0 .. 0 |-> 0][i - 1] + a[i]
    OBVIOUS
  <2> QED
    BY <2>1
<1>2. ASSUME NEW n \in 0 .. (N - 1), P(n) PROVE P(n + 1)
  <2>1. PICK g \in [0 .. n -> Nat] : \A i \in 0 .. n : g[i] = IF i = 0 THEN 0 ELSE g[i - 1] + a[i]
    BY <1>2
  <2> DEFINE h == [i \in 0 .. (n + 1) |-> IF i = n + 1 THEN g[n] + a[n + 1] ELSE g[i]]
  <2>2. h \in [0 .. (n + 1) -> Nat]
    BY <2>1
  <2>3. ASSUME NEW i \in 0 .. (n + 1) PROVE h[i] = IF i = 0 THEN 0 ELSE h[i - 1] + a[i]
    <3>1. CASE i = n + 1
      <4>1. h[i] = g[n] + a[i] /\ h[n] = g[n] /\ i - 1 = n /\ i # 0
        BY <3>1
      <4> HIDE DEF h
      <4> QED
        BY <4>1
    <3>2. CASE i # n + 1
      <4>1. i \in 0 .. n /\ h[i] = g[i] /\ (i # 0 => h[i - 1] = g[i - 1])
        BY <3>2
      <4> HIDE DEF h
      <4> QED
        BY <4>1, <2>1
    <3> QED
      BY <3>1, <3>2
  <2> HIDE DEF h
  <2> QED
    BY <2>2, <2>3
<1>3. Bad = {}
  <2> SUFFICES ASSUME Bad # {} PROVE FALSE
    OBVIOUS
  <2>1. Bad \in SUBSET Nat
    OBVIOUS
  <2>2. PICK m \in Bad : \A k \in Bad : m <= k
    <3> HIDE DEF Bad
    <3> QED
      BY <2>1, LeastElement
  <2> HIDE DEF P
  <2>3. m # 0
    BY <1>1
  <2>4. m - 1 \in 0 .. (N - 1) /\ m - 1 \notin Bad
    BY <2>2, <2>3
  <2>5. P(m - 1)
    BY <2>4
  <2>6. P((m - 1) + 1)
    BY <1>2, <2>4, <2>5
  <2>7. (m - 1) + 1 = m
    BY <2>1
  <2> QED
    BY <2>6, <2>7
<1>4. P(N)
  <2> HIDE DEF P
  <2> QED
    BY <1>3
<1> DEFINE Is(g) == g = [i \in 0 .. N |-> IF i = 0 THEN 0 ELSE g[i - 1] + a[i]]
           sum == CHOOSE g : Is(g)
<1>5. PICK g \in [0 .. N -> Nat] : \A i \in 0 .. N : g[i] = IF i = 0 THEN 0 ELSE g[i - 1] + a[i]
  BY <1>4
<1>6. Is(g)
  BY <1>5
<1>7. Is(sum)
  <2> HIDE DEF Is
  <2> QED
    BY <1>6
<1>8. \A n : SumTo(n, a) = sum[n]
  BY DEF SumTo
<1> HIDE DEF sum
<1>9. sum = [i \in 0 .. N |-> IF i = 0 THEN 0 ELSE sum[i - 1] + a[i]]
  BY <1>7
<1>10. sum[0] = 0 /\ \A n \in 1 .. N : sum[n] = sum[n - 1] + a[n]
  <2>1. \A n \in 1 .. N : n \in 0 .. N /\ n # 0
    OBVIOUS
  <2>2. 0 \in 0 .. N
    OBVIOUS
  <2>3. \A n \in 0 .. N : sum[n] = IF n = 0 THEN 0 ELSE sum[n - 1] + a[n]
    BY <1>9, Zenon
  <2> QED
    BY <2>1, <2>2, <2>3
<1>11. \A n \in 0 .. N : sum[n] \in Nat
  <2> DEFINE Odd == {n \in 0 .. N : sum[n] \notin Nat}
  <2> SUFFICES ASSUME Odd # {} PROVE FALSE
    OBVIOUS
  <2>1. Odd \in SUBSET Nat
    OBVIOUS
  <2>2. PICK m \in Odd : \A k \in Odd : m <= k
    <3> HIDE DEF Odd
    <3> QED
      BY <2>1, LeastElement
  <2>3. m # 0
    BY <1>10
  <2>4. m \in 1 .. N /\ m - 1 \in 0 .. N /\ m - 1 \notin Odd
    BY <2>2, <2>3
  <2>5. sum[m - 1] \in Nat /\ a[m] \in Nat /\ sum[m] = sum[m - 1] + a[m]
    BY <2>4, <1>10
  <2> QED
    BY <2>5
<1> QED
  BY <1>8, <1>10, <1>11

\* The weights add up, and so do the lengths of the shares.
LEMMA Shares ==
  ASSUME req \in Requests, ~IsSingle, Valid
  PROVE  /\ N \in Nat \ {0} /\ TotalWeight \in Nat \ {0} /\ FileLength \in Nat \ {0}
         /\ ShareStart(1) = req.start
         /\ \A i \in 1 .. N : Rounded(i) \in Nat /\ ShareStart(i) \in Nat /\ ShareLength(i) \in Int
         /\ \A i \in 1 .. (N - 1) : ShareStart(i + 1) = ShareStart(i) + ShareLength(i)
         /\ ShareStart(N) + ShareLength(N) = req.start + FileLength
<1>1. N \in Nat \ {0} /\ req.start \in Nat /\ \A i \in 1 .. N : req.vms[i].weight \in Nat
  BY Request0 DEF Valid
<1>2. FileLength \in Nat \ {0}
  BY Request0 DEF FileLength
<1> DEFINE w == [i \in 1 .. N |-> req.vms[i].weight]
           r == [i \in 1 .. N |-> Rounded(i)]
<1>3. TotalWeight \in Nat \ {0}
  <2>1. \A i \in 1 .. N : w[i] \in Nat
    BY <1>1
  <2>2. N \in 0 .. N
    BY <1>1
  <2> HIDE DEF w
  <2>3. SumTo(N, w) \in Nat
    BY <1>1, <2>1, <2>2, Sums
  <2>4. TotalWeight = SumTo(N, w)
    BY DEF TotalWeight, w
  <2> QED
    BY <2>3, <2>4 DEF Valid
<1>4. \A i \in 1 .. N : Rounded(i) \in Nat
  <2> SUFFICES ASSUME NEW i \in 1 .. N PROVE Rounded(i) \in Nat
    OBVIOUS
  <2>1. FileLength * req.vms[i].weight \in Nat
    BY <1>1, <1>2
  <2> QED
    BY <2>1, <1>3, RoundedType, SMTT(30) DEF Rounded
<1>5. /\ SumTo(0, r) = 0
      /\ \A n \in 0 .. N : SumTo(n, r) \in Nat
      /\ \A n \in 1 .. N : SumTo(n, r) = SumTo(n - 1, r) + Rounded(n)
  <2>1. \A i \in 1 .. N : r[i] \in Nat /\ r[i] = Rounded(i)
    BY <1>4
  <2> HIDE DEF r
  <2>2. /\ SumTo(0, r) = 0
        /\ \A n \in 0 .. N : SumTo(n, r) \in Nat
        /\ \A n \in 1 .. N : SumTo(n, r) = SumTo(n - 1, r) + r[n]
    BY <1>1, <2>1, Sums
  <2> QED
    BY <2>1, <2>2
<1>6. \A i : Before(i) = SumTo(i - 1, r)
  BY DEF Before
<1> HIDE DEF r, w
<1>7. Before(1) = 0 /\ \A i \in 1 .. N : Before(i) \in Nat
  <2>1. Before(1) = SumTo(0, r)
    BY <1>6
  <2>2. \A i \in 1 .. N : i - 1 \in 0 .. N
    BY <1>1
  <2> QED
    BY <1>5, <1>6, <2>1, <2>2
<1>8. \A i \in 1 .. (N - 1) : Before(i + 1) = Before(i) + Rounded(i)
  <2> SUFFICES ASSUME NEW i \in 1 .. (N - 1) PROVE Before(i + 1) = Before(i) + Rounded(i)
    OBVIOUS
  <2>1. (i + 1) - 1 = i /\ i \in 1 .. N
    BY <1>1
  <2>2. Before(i + 1) = SumTo(i, r)
    BY <1>6, <2>1
  <2> QED
    BY <1>5, <1>6, <2>1, <2>2
<1>9. \A i \in 1 .. (N - 1) : i \in 1 .. N /\ i + 1 \in 1 .. N /\ ShareLength(i) = Rounded(i)
  BY <1>1 DEF ShareLength
<1>10. N \in 1 .. N /\ 1 \in 1 .. N /\ ShareLength(N) = FileLength - Before(N)
  BY <1>1 DEF ShareLength
<1>11. \A i \in 1 .. N : ShareLength(i) \in Int
  BY <1>2, <1>4, <1>7 DEF ShareLength
<1> QED
  BY <1>1, <1>2, <1>3, <1>4, <1>7, <1>8, <1>9, <1>10, <1>11 DEF ShareStart

(* The parts of the object: chunks, or shares.                             *)
Count == IF IsSingle THEN Len(Chunks) ELSE N
Parts == [k \in 1 .. Count |-> IF IsSingle THEN Part(k) ELSE Share(k)]
All == IF IsSingle THEN DOMAIN Chunks ELSE Tasks
Whole(k) ==
  IF IsSingle THEN Fetched(k)
  ELSE DownloadRange(req.source, req.size, ShareStart(k), ShareLength(k), FALSE)
Sources == {Parts[k] : k \in 1 .. Count}
Temps == {Temp(l, x) : l \in Nat, x \in Nat}
Piece == Seq(0 .. (req.size - 1))

LEMMA Static ==
  ASSUME req' = req
  PROVE  /\ IsSingle' = IsSingle /\ N' = N /\ Chunks' = Chunks /\ Tasks' = Tasks
         /\ Count' = Count /\ Parts' = Parts /\ All' = All /\ Sources' = Sources /\ Piece' = Piece
         /\ TotalWeight' = TotalWeight /\ (Valid <=> Valid')
         /\ \A i : ShareLength(i)' = ShareLength(i) /\ ShareStart(i)' = ShareStart(i)
         /\ \A i : Whole(i)' = Whole(i) /\ Fetched(i)' = Fetched(i)
<1>0. FileSize' = FileSize
  BY DEF FileSize
<1>1. IsSingle' = IsSingle /\ N' = N /\ Chunks' = Chunks /\ Tasks' = Tasks /\ Piece' = Piece
  BY <1>0 DEF IsSingle, N, Chunks, Tasks, Piece
<1>2. Count' = Count /\ Parts' = Parts /\ All' = All /\ Sources' = Sources
  BY <1>1 DEF Count, Parts, All, Sources
<1>3. \A n, a : SumTo(n, a)' = SumTo(n, a)
  BY <1>1 DEF SumTo
<1>4. TotalWeight' = TotalWeight
  BY <1>1, <1>3 DEF TotalWeight
<1>5. Valid <=> Valid'
  BY <1>0, <1>1, <1>4 DEF Valid
<1>6. FileLength' = FileLength
  BY DEF FileLength
<1>7. \A i : Rounded(i)' = Rounded(i)
  BY <1>4, <1>6 DEF Rounded
<1>8. \A i : Before(i)' = Before(i)
  BY <1>1, <1>3, <1>7 DEF Before
<1>9. \A i : ShareLength(i)' = ShareLength(i) /\ ShareStart(i)' = ShareStart(i)
  BY <1>1, <1>6, <1>7, <1>8 DEF ShareLength, ShareStart
<1>10. \A i : Fetched(i)' = Fetched(i)
  BY <1>1 DEF Fetched
<1>11. \A i : Whole(i)' = Whole(i)
  BY <1>1, <1>9, <1>10 DEF Whole
<1> QED
  BY <1>1, <1>2, <1>4, <1>5, <1>9, <1>10, <1>11

\* No two names are the same.
LEMMA Names ==
  ASSUME Count \in Nat
  PROVE  /\ \A j, k \in 1 .. Count : Parts[j] = Parts[k] => j = k
         /\ \A k \in 1 .. Count : Parts[k] = IF IsSingle THEN Part(k) ELSE Share(k)
         /\ Target \notin Sources \cup Temps /\ Sources \cap Temps = {}
         /\ \A l, x, m, y \in Nat : Temp(l, x) = Temp(m, y) => l = m /\ x = y
         /\ Parts \in Seq(Sources) /\ Len(Parts) = Count /\ DOMAIN Parts = 1 .. Count
         /\ Range(Parts) = Sources
<1>1. \A k \in 1 .. Count : Parts[k] = IF IsSingle THEN Part(k) ELSE Share(k)
  BY DEF Parts
<1>2. ASSUME NEW j \in 1 .. Count, NEW k \in 1 .. Count, Parts[j] = Parts[k] PROVE j = k
  <2>1. CASE IsSingle
    <3>1. Part(j) = Part(k)
      BY <1>1, <1>2, <2>1
    <3> QED
      BY <3>1 DEF Part
  <2>2. CASE ~IsSingle
    <3>1. Share(j) = Share(k)
      BY <1>1, <1>2, <2>2
    <3> QED
      BY <3>1 DEF Share
  <2> QED
    BY <2>1, <2>2
<1>3. Target \notin Sources \cup Temps /\ Sources \cap Temps = {}
  <2>1. ASSUME NEW k \in 1 .. Count PROVE Len(Parts[k]) = 2
    <3>1. Len(Part(k)) = 2 /\ Len(Share(k)) = 2
      BY DEF Part, Share
    <3> QED
      BY <1>1, <3>1, Zenon
  <2>2. Len(Target) = 1
    BY DEF Target
  <2>3. \A l, x \in Nat : Len(Temp(l, x)) = 3
    BY DEF Temp
  <2>4. \A n \in Sources : Len(n) = 2
    BY <2>1 DEF Sources
  <2>5. \A n \in Temps : Len(n) = 3
    BY <2>3 DEF Temps
  <2> QED
    BY <2>2, <2>4, <2>5
<1>4. \A l, x, m, y \in Nat : Temp(l, x) = Temp(m, y) => l = m /\ x = y
  BY DEF Temp
<1>7. Parts \in Seq(Sources) /\ Len(Parts) = Count /\ DOMAIN Parts = 1 .. Count /\ Range(Parts) = Sources
  <2>1. DOMAIN Parts = 1 .. Count /\ Parts = [k \in 1 .. Count |-> Parts[k]]
    BY DEF Parts
  <2>2. \A k \in 1 .. Count : Parts[k] \in Sources
    BY DEF Sources
  <2>3. Parts \in [1 .. Count -> Sources]
    BY <2>1, <2>2
  <2>4. Range(Parts) = Sources
    BY <2>1 DEF Range, Sources
  <2> QED
    BY <2>1, <2>3, <2>4, FunctionSeq
<1> QED
  BY <1>1, <1>2, <1>3, <1>4, <1>7

LEMMA Pair ==
  ASSUME NEW R, NEW a \in R, NEW b \in R
  PROVE  <<a, b>> \in Seq(R)
OBVIOUS

LEMMA NotNone ==
  ASSUME Count \in Nat
  PROVE  None \notin Sources /\ None \notin Piece
<1> DEFINE R == {"part", "share"} \cup Nat
<1>1. ASSUME NEW k \in 1 .. Count PROVE Parts[k] \in Seq(R)
  <2>1. "part" \in R /\ "share" \in R /\ k \in R
    OBVIOUS
  <2> HIDE DEF R
  <2>2. Part(k) \in Seq(R) /\ Share(k) \in Seq(R)
    BY <2>1, Pair DEF Part, Share
  <2>3. Parts[k] = IF IsSingle THEN Part(k) ELSE Share(k)
    BY DEF Parts
  <2> QED
    BY <2>2, <2>3
<1>2. Piece \subseteq Seq(R)
  <2>1. 0 .. (req.size - 1) \subseteq R
    OBVIOUS
  <2> HIDE DEF R
  <2> QED
    BY <2>1, SeqMonotonic DEF Piece
<1> QED
  BY <1>1, <1>2, NoneAssumption DEF Sources

LEMMA Wholes ==
  ASSUME req \in Requests
  PROVE  /\ Count \in Nat /\ req.size \in Nat \ {0}
         /\ Valid => Count >= 1
         /\ IsSingle => DOMAIN Chunks = 1 .. Count
         /\ All \subseteq 1 .. Count
         /\ IsSingle => \A k \in 1 .. Count : Fetched(k) \in Piece
         /\ Valid => \A k \in 1 .. Count : Whole(k) \in Piece
         /\ ~IsSingle /\ Valid => \A k \in Tasks : Whole(k) \in Piece
<1>1. /\ req.source \in SourceKinds /\ req.size \in Nat \ {0} /\ req.start \in Nat /\ req.length \in Nat /\ N \in Nat
      /\ FileSize \in Nat \ {0}
  BY Request0
<1>2. CASE IsSingle
  <2>0. Count = ChunkCount(FileSize, req.start, req.length)
    BY <1>2 DEF Count, Chunks, ChunkCount
  <2>1. Count \in Nat /\ DOMAIN Chunks = 1 .. Count /\ Chunks \in Seq([offset : Nat, size : Int])
    <3>1. /\ ChunkCount(FileSize, req.start, req.length) \in Nat
          /\ DOMAIN SplitFilebyRange(FileSize, req.start, req.length, FALSE)
               = 1 .. ChunkCount(FileSize, req.start, req.length)
          /\ SplitFilebyRange(FileSize, req.start, req.length, FALSE) \in Seq([offset : Nat, size : Int])
      <4>1. FileSize \in Nat /\ req.start \in Nat /\ req.length \in Int
        BY <1>1
      <4> QED
        BY <4>1, SplitChunks
    <3> QED
      BY <2>0, <3>1 DEF Chunks
  <2>2. \A k \in 1 .. Count : Fetched(k) \in Piece
    <3> SUFFICES ASSUME NEW k \in 1 .. Count PROVE Fetched(k) \in Piece
      OBVIOUS
    <3>1. Chunks[k] \in [offset : Nat, size : Int]
      BY <2>1, SeqElement
    <3>2. Chunks[k].offset \in Nat /\ Chunks[k].size \in Int
      BY <3>1
    <3> QED
      BY <1>1, <3>2, FetchType DEF Fetched, Piece
  <2>3. Valid => Count >= 1
    <3> SUFFICES ASSUME Valid PROVE Count >= 1
      OBVIOUS
    <3>1. req.start < FileSize
      BY <1>1, <1>2 DEF Valid, SplitFails
    <3>2. ChunkCount(FileSize, req.start, req.length) \in Nat \ {0}
      <4>1. FileSize \in Nat /\ req.start \in Nat /\ req.length \in Int
        BY <1>1
      <4> QED
        BY <3>1, <4>1, CutEnds
    <3> QED
      BY <2>0, <3>2
  <2> QED
    BY <1>1, <1>2, <2>1, <2>2, <2>3 DEF All, Whole
<1>3. CASE ~IsSingle
  <2>1. Count = N /\ All = Tasks /\ Tasks \subseteq 1 .. N
    BY <1>3 DEF Count, All, Tasks
  <2>2. Valid => N >= 1
    BY <1>1, <1>3 DEF Valid
  <2>3. ASSUME Valid, NEW k \in 1 .. N PROVE Whole(k) \in Piece
    <3>1. ShareStart(k) \in Nat /\ ShareLength(k) \in Int
      BY <1>3, <2>3, Shares
    <3>2. DownloadRange(req.source, req.size, ShareStart(k), ShareLength(k), FALSE) \in Seq(0 .. (req.size - 1))
      BY <1>1, <3>1, RangeType
    <3> QED
      BY <1>3, <3>2 DEF Whole, Piece
  <2> QED
    BY <1>1, <1>3, <2>1, <2>2, <2>3
<1> QED
  BY <1>2, <1>3

-----------------------------------------------------------------------------
(* The invariant that carries TypeOK: where the call and the chunk server  *)
(* can be, and what each has then.                                         *)

CallStates == {"idle", "group", "copy", "final", "clean", "post", "wait", "ok", "error"}
ServerStates == {"idle", "asked", "merge", "merged", "failed"}
CallRecord ==
  [at : CallStates, parts : Seq(Sources), current : Seq(Sources \cup Temps), next : Seq(Temps),
   level : Nat, i : Nat, read : Nat, local : Piece, temps : Seq(Temps),
   doomed : Seq(Sources \cup Temps), warned : BOOLEAN]

FlowInv ==
  /\ req \in Requests /\ dest = req.dest
  /\ phase \in {"start", "upload", "compose", "ok", "error"} /\ done \subseteq All
  /\ failed \in BOOLEAN /\ uncomposed \in BOOLEAN /\ torn \in BOOLEAN /\ expired \in BOOLEAN
  /\ late \in 0 .. MaxLate /\ named \in {"none", "file_name", "new_file_name"}
  /\ Valid \/ (phase \in {"start", "error"} /\ done = {} /\ call = Idle)
  /\ phase = "start" => done = {}
  /\ phase \in {"start", "upload"} => call = Idle

CallInv ==
  /\ call \in CallRecord
  /\ call.at = "idle" => call = Idle
  /\ call.at # "idle" => call.parts = Parts /\ done = All /\ Valid /\ (IsSingle \/ N > 1)
  /\ call.at \in {"group", "copy", "final", "clean"} => dest # "disk"
  /\ call.at \in {"post", "wait"} => dest = "disk"
  /\ call.at = "group" => call.i < Len(call.current) /\ call.read <= Len(Group) /\ Count > 1
  /\ call.at \in {"copy", "final"} => Len(call.current) = 1
  /\ call.at = "copy" /\ Count = 1 => call.temps = <<>>

ServerInv ==
  /\ server \in [at : ServerStates, k : Nat, copied : BOOLEAN]
  /\ server.at # "idle" => dest = "disk" /\ call.at \in {"wait", "ok", "error"}
  /\ call.at \in {"idle", "post"} => server = NoRequest
  /\ server.at \in {"idle", "asked"} => ~server.copied
  /\ call.at = "ok" /\ dest = "disk" => server.at \in {"merged", "failed"}
  /\ server.at = "merge" => Count > 1 /\ server.k \in 1 .. Count /\ Stored(Target)
  /\ server.at = "merged" => Stored(Target)

SavingInv ==
  saving # None =>
    /\ dest = "disk" /\ late > 0 /\ IsSingle
    /\ Stored(saving) /\ saving \in Sources \cup {Target}
    /\ saving = Target => Count = 1 /\ server.at = "merged"

ObjectInv ==
  \A name \in DOMAIN objects : name \in {Target} \cup Sources \cup Temps /\ objects[name] \in Piece

IInv == FlowInv /\ CallInv /\ ServerInv /\ SavingInv /\ ObjectInv

LEMMA IdleTyped == Idle \in CallRecord /\ NoRequest \in [at : ServerStates, k : Nat, copied : BOOLEAN]
<1>1. <<>> \in Piece
  BY DEF Piece
<1>2. "idle" \in CallStates /\ "idle" \in ServerStates
  BY DEF CallStates, ServerStates
<1> QED
  BY <1>1, <1>2 DEF Idle, NoRequest, CallRecord

LEMMA Removing ==
  ASSUME NEW name
  PROVE  /\ DOMAIN WithoutObject(name) = DOMAIN objects \ {name}
         /\ \A n \in DOMAIN objects : n # name => WithoutObject(name)[n] = objects[n]
BY DEF WithoutObject, Restrict

\* What a step leaves of the invariant when it does not touch its variables.
LEMMA CallFrame ==
  ASSUME CallInv, req' = req, call' = call, done' = done, dest' = dest
  PROVE  CallInv'
<1>1. CallRecord' = CallRecord
  BY Static DEF CallRecord
<1>2. Group' = Group /\ Parts' = Parts /\ All' = All /\ (Valid <=> Valid') /\ IsSingle' = IsSingle
      /\ N' = N /\ Count' = Count
  BY Static DEF Group
<1> QED
  BY <1>1, <1>2 DEF CallInv

LEMMA CallFails ==
  ASSUME CallInv, req' = req, call' = Failed, done' = done, dest' = dest, call.at # "idle"
  PROVE  CallInv'
<1>1. CallRecord' = CallRecord /\ Parts' = Parts /\ All' = All /\ (Valid <=> Valid') /\ IsSingle' = IsSingle /\ N' = N
  BY Static DEF CallRecord
<1>2. Failed \in CallRecord /\ Failed.at = "error" /\ Failed.parts = call.parts
  BY DEF CallInv, Failed, CallRecord, CallStates
<1> QED
  BY <1>1, <1>2 DEF CallInv

LEMMA FlowFrame ==
  ASSUME FlowInv, UNCHANGED <<req, dest, phase, done, failed, late, named, uncomposed, torn>>,
         expired' \in BOOLEAN, call' = call \/ call.at # "idle"
  PROVE  FlowInv'
<1>1. All' = All /\ (Valid <=> Valid')
  BY Static
<1>2. call.at # "idle" => call # Idle
  BY DEF Idle
<1> QED
  BY <1>1, <1>2 DEF FlowInv

LEMMA ServerFrame ==
  ASSUME ServerInv, req' = req, server' = server, dest' = dest, call' = call,
         DOMAIN objects \subseteq DOMAIN objects'
  PROVE  ServerInv'
<1>1. Count' = Count
  BY Static
<1> QED
  BY <1>1 DEF ServerInv, Stored

LEMMA SavingFrame ==
  ASSUME SavingInv, req' = req, saving' = saving, dest' = dest, server'.at = server.at,
         late' = late, DOMAIN objects \subseteq DOMAIN objects'
  PROVE  SavingInv'
<1>1. Count' = Count /\ Sources' = Sources /\ IsSingle' = IsSingle
  BY Static
<1> QED
  BY <1>1 DEF SavingInv, Stored

LEMMA ObjectSame ==
  ASSUME ObjectInv, req' = req, objects' = objects
  PROVE  ObjectInv'
<1>1. Sources' = Sources /\ Piece' = Piece
  BY Static
<1> QED
  BY <1>1 DEF ObjectInv

LEMMA ObjectPut ==
  ASSUME ObjectInv, req' = req, NEW name \in {Target} \cup Sources \cup Temps, NEW content \in Piece,
         objects' = With(name, content)
  PROVE  ObjectInv' /\ DOMAIN objects' = DOMAIN objects \cup {name}
<1>1. Sources' = Sources /\ Piece' = Piece
  BY Static
<1>2. /\ DOMAIN objects' = DOMAIN objects \cup {name} /\ objects'[name] = content
      /\ \A n \in DOMAIN objects : n # name => objects'[n] = objects[n]
  <2> DEFINE put == Put(objects, name, content)
  <2>1. objects' = put
    BY DEF With
  <2>2. /\ DOMAIN put = DOMAIN objects \cup {name} /\ put[name] = content
        /\ \A n \in DOMAIN objects : n # name => put[n] = objects[n]
    BY DEF Put
  <2> HIDE DEF put
  <2> QED
    BY <2>1, <2>2
<1> QED
  BY <1>1, <1>2 DEF ObjectInv

LEMMA ObjectRemove ==
  ASSUME ObjectInv, req' = req, NEW name, objects' = WithoutObject(name)
  PROVE  ObjectInv'
<1>1. Sources' = Sources /\ Piece' = Piece
  BY Static
<1>2. /\ DOMAIN objects' = DOMAIN objects \ {name}
      /\ \A n \in DOMAIN objects : n # name => objects'[n] = objects[n]
  BY Removing
<1> QED
  BY <1>1, <1>2 DEF ObjectInv

\* A tree of temporary objects has no chunk server.
LEMMA TreeFrame ==
  ASSUME ServerInv, SavingInv, req' = req, dest # "disk",
         UNCHANGED <<server, saving, dest>>, call'.at \notin {"idle", "post"}
  PROVE  ServerInv' /\ SavingInv'
BY DEF ServerInv, SavingInv

-----------------------------------------------------------------------------
(* Each action keeps it: first the transfer's own.                         *)

LEMMA InitType == Init => IInv
<1> SUFFICES ASSUME Init PROVE IInv
  OBVIOUS
<1>1. req \in Requests /\ req.dest = dest /\ phase = "start" /\ done = {} /\ call = Idle
      /\ server = NoRequest /\ saving = None /\ objects = <<>> /\ expired = FALSE
      /\ failed = FALSE /\ late = 0 /\ named = "none" /\ uncomposed = FALSE /\ torn = FALSE
  BY DEF Init, InitCompose
<1>2. FlowInv
  <2>1. late \in 0 .. MaxLate
    BY <1>1, LateAssumption
  <2>2. phase \in {"start", "upload", "compose", "ok", "error"} /\ phase \in {"start", "error"} /\ done \subseteq All
    BY <1>1
  <2>3. failed \in BOOLEAN /\ uncomposed \in BOOLEAN /\ torn \in BOOLEAN /\ expired \in BOOLEAN
    BY <1>1
  <2> QED
    BY <1>1, <2>1, <2>2, <2>3, Zenon DEF FlowInv
<1>3. CallInv
  <2>1. call.at = "idle" /\ call \in CallRecord
    BY <1>1, IdleTyped DEF Idle
  <2> QED
    BY <1>1, <2>1 DEF CallInv
<1>4. ServerInv
  <2>1. server.at = "idle" /\ server.copied = FALSE /\ call.at = "idle"
    BY <1>1 DEF NoRequest, Idle
  <2> QED
    BY <1>1, <2>1, IdleTyped DEF ServerInv
<1>5. SavingInv
  BY <1>1 DEF SavingInv
<1>6. ObjectInv
  BY <1>1 DEF ObjectInv
<1> QED
  BY <1>2, <1>3, <1>4, <1>5, <1>6 DEF IInv

\* Nothing but the phase, or the deadline.
LEMMA PhaseStep ==
  ASSUME IInv, UNCHANGED <<req, dest, objects, call, server, saving, done, late>>, FlowInv'
  PROVE  IInv'
<1>1. CallInv'
  BY CallFrame DEF IInv
<1>2. ServerInv'
  BY ServerFrame DEF IInv
<1>3. SavingInv'
  BY SavingFrame DEF IInv
<1>4. ObjectInv'
  BY ObjectSame DEF IInv
<1> QED
  BY <1>1, <1>2, <1>3, <1>4 DEF IInv

LEMMA StartStep ==
  ASSUME IInv, StartSingle \/ StartLarge
  PROVE  IInv'
<1>1. /\ phase = "start" /\ UNCHANGED <<req, dest, objects, expired, call, server, saving>>
      /\ UNCHANGED <<done, failed, late, named, uncomposed, torn>>
      /\ phase' = "error" \/ (phase' = "upload" /\ Valid)
  BY DEF StartSingle, StartLarge, GetFileSize, Refuse, Valid, IsSingle, composeVars, flowVars
<1>2. FlowInv'
  <2>1. All' = All /\ (Valid <=> Valid')
    BY <1>1, Static
  <2> QED
    BY <1>1, <2>1 DEF IInv, FlowInv
<1> QED
  BY <1>1, <1>2, PhaseStep

LEMMA TimeoutStep ==
  ASSUME IInv, Timeout \/ ContextDone \/ EndCompose
  PROVE  IInv'
<1>1. /\ UNCHANGED <<req, dest, objects, call, server, saving>>
      /\ UNCHANGED <<done, failed, late, named, uncomposed, torn>>
      /\ expired' = expired \/ expired' = TRUE
      /\ phase' = phase \/ (phase \in {"upload", "compose"} /\ phase' \in {"ok", "error"})
  BY DEF Timeout, SingleTimeout, LargeTimeout, Refuse, ContextDone, Expire,
         EndCompose, EndSingle, EndLarge, composeVars, flowVars
<1>2. FlowInv'
  <2>1. All' = All /\ (Valid <=> Valid')
    BY <1>1, Static
  <2> QED
    BY <1>1, <2>1 DEF IInv, FlowInv
<1> QED
  BY <1>1, <1>2, PhaseStep

\* What an upload may leave is a piece of the file.
LEMMA Uploaded ==
  ASSUME FlowInv, NEW content \in Piece, NEW size, NEW o \in UploadFile(content, size)
  PROVE  o.stored = None \/ o.stored \in Piece
<1>1. dest \in {"s3", "gcs", "disk"}
  BY RequestsAssumption, DestAssumption DEF FlowInv
<1>2. \A c \in Beginnings(content) : c \in Piece
  BY DEF Beginnings, Piece
<1>3. \A c : Ok(c).stored = c /\ Fail(c).stored = c
  BY DEF Ok, Fail
<1>4. CASE dest = "s3"
  <2>1. o \in S3Client(content, size) \/ o \in S3Proxy(content, size)
    BY <1>4, Zenon DEF UploadFile
  <2>2. o \in {Ok(content), Fail(content), Fail(None)}
    BY <2>1 DEF S3Client, S3Proxy
  <2> QED
    BY <1>3, <2>2
<1>5. CASE dest = "gcs"
  <2>1. o \in GCSClient(content) \/ o \in GCSProxy(content)
    BY <1>5 DEF UploadFile
  <2>2. o \in {Ok(content), Ok(None), Fail(content), Fail(None)} \/ \E c \in Beginnings(content) : o = Fail(c)
    BY <2>1 DEF GCSClient, GCSProxy
  <2> QED
    BY <1>2, <1>3, <2>2
<1>6. CASE dest = "disk"
  <2>1. o \in DiskClient(content) \/ o \in DiskProxy
    BY <1>6 DEF UploadFile
  <2>2. o \in {Ok(content), Fail(None)} \/ \E c \in Beginnings(content) : o = Fail(c)
    BY <2>1 DEF DiskClient, DiskProxy
  <2> QED
    BY <1>2, <1>3, <2>2
<1> QED
  BY <1>1, <1>4, <1>5, <1>6

LEMMA Storing ==
  ASSUME ObjectInv, req' = req, NEW name \in {Target} \cup Sources \cup Temps,
         NEW content, content = None \/ content \in Piece, Store(name, content)
  PROVE  /\ ObjectInv' /\ DOMAIN objects \subseteq DOMAIN objects'
         /\ DOMAIN objects' \subseteq DOMAIN objects \cup {name}
<1>1. CASE content = None
  BY <1>1, ObjectSame DEF Store
<1>2. CASE content # None
  <2>1. content \in Piece /\ objects' = With(name, content)
    BY <1>2 DEF Store
  <2> QED
    BY <2>1, ObjectPut
<1> QED
  BY <1>1, <1>2

LEMMA ChunkName ==
  ASSUME req \in Requests, IsSingle, NEW i \in DOMAIN Chunks
  PROVE  /\ i \in 1 .. Count /\ i \in All /\ Parts[i] = Part(i) /\ Part(i) \in Sources
         /\ Fetched(i) \in Piece /\ Whole(i) = Fetched(i) /\ \A c \in ReadsOf(i) : c \in Piece
<1>1. Count \in Nat /\ i \in 1 .. Count /\ Fetched(i) \in Piece
  BY Wholes
<1>3. \A c \in ReadsOf(i) : c = Fetched(i) \/ c \in Beginnings(Fetched(i))
  BY DEF ReadsOf, Reads, Fetched
<1>4. \A c \in Beginnings(Fetched(i)) : c \in Piece
  <2>1. PICK whole \in Piece : whole = Fetched(i)
    BY <1>1
  <2> QED
    BY <2>1 DEF Beginnings, Piece
<1>2. Parts[i] = Part(i) /\ Part(i) \in Sources
  BY <1>1, Names DEF Sources
<1> QED
  BY <1>1, <1>2, <1>3, <1>4, Wholes DEF All, Whole

LEMMA ChunkStep ==
  ASSUME IInv, NEW i \in DOMAIN Chunks, UploadChunk(i)
  PROVE  IInv'
<1>1. /\ phase = "upload" /\ IsSingle /\ req \in Requests /\ call = Idle
      /\ UNCHANGED <<dest, expired, call, server, saving, req, phase, failed, late, named, uncomposed>>
  BY DEF UploadChunk, IsSingle, IInv, FlowInv
<1>2. /\ i \in All /\ Part(i) \in Sources /\ \A c \in ReadsOf(i) : c \in Piece
  BY <1>1, ChunkName
<1>3a. PICK content \in ReadsOf(i) : \E o \in UploadFile(content, Chunks[i].size) :
        /\ Store(Part(i), o.stored)
        /\ done' = IF o.ok THEN done \cup {i} ELSE done
        /\ torn' = (torn \/ (o.ok /\ LeavesTorn(Part(i), Fetched(i))))
  BY DEF UploadChunk
<1>3. PICK o \in UploadFile(content, Chunks[i].size) :
        /\ Store(Part(i), o.stored)
        /\ done' = IF o.ok THEN done \cup {i} ELSE done
        /\ torn' = (torn \/ (o.ok /\ LeavesTorn(Part(i), Fetched(i))))
  BY <1>3a
<1>4. o.stored = None \/ o.stored \in Piece
  BY <1>2, <1>3, Uploaded DEF IInv
<1>5. ObjectInv' /\ DOMAIN objects \subseteq DOMAIN objects'
  BY <1>1, <1>2, <1>3, <1>4, Storing DEF IInv
<1>6. FlowInv'
  <2>1. All' = All /\ (Valid <=> Valid')
    BY <1>1, Static
  <2>2. done' \subseteq All /\ torn' \in BOOLEAN
    BY <1>2, <1>3 DEF IInv, FlowInv
  <2>3. Valid
    BY <1>1 DEF IInv, FlowInv
  <2> QED
    BY <1>1, <2>1, <2>2, <2>3 DEF IInv, FlowInv
<1>7. CallInv'
  <2>1. call' = Idle /\ call'.at = "idle" /\ Idle \in CallRecord
    BY <1>1, IdleTyped DEF Idle
  <2>2. CallRecord' = CallRecord
    BY <1>1, Static DEF CallRecord
  <2> QED
    BY <2>1, <2>2 DEF CallInv
<1>8. ServerInv'
  BY <1>1, <1>5, ServerFrame DEF IInv
<1>9. SavingInv'
  BY <1>1, <1>5, SavingFrame DEF IInv
<1> QED
  BY <1>5, <1>6, <1>7, <1>8, <1>9 DEF IInv

LEMMA LateStep ==
  ASSUME IInv, NEW i \in DOMAIN Chunks, LateAttempt(i)
  PROVE  IInv'
<1>1. /\ late < MaxLate /\ IsSingle /\ req \in Requests /\ i \in done
      /\ UNCHANGED <<dest, expired, call, server, req, phase, done, failed, named, uncomposed>>
      /\ late' = late + 1 /\ torn' = (torn \/ LeavesTorn(Part(i), Fetched(i)))
  BY DEF LateAttempt, IsSingle, IInv, FlowInv
<1>2. /\ i \in All /\ Part(i) \in Sources /\ Target \notin Sources /\ \A c \in ReadsOf(i) : c \in Piece
  <2>1. Count \in Nat
    BY <1>1, Wholes
  <2> QED
    BY <1>1, <2>1, ChunkName, Names
<1>3. late \in Nat /\ late' \in 0 .. MaxLate /\ late' > 0
  BY <1>1, LateAssumption DEF IInv, FlowInv
<1>4. ObjectInv' /\ DOMAIN objects \subseteq DOMAIN objects'
      /\ (saving' = saving \/ (dest = "disk" /\ saving' = Part(i) /\ Part(i) \in DOMAIN objects'))
  <2>1. CASE dest = "disk"
    <3>1. objects' = With(Part(i), <<>>) /\ saving' = Part(i)
      BY <2>1 DEF LateAttempt
    <3>2. <<>> \in Piece
      BY DEF Piece
    <3>3. ObjectInv' /\ DOMAIN objects' = DOMAIN objects \cup {Part(i)}
      BY <1>1, <1>2, <3>1, <3>2, ObjectPut DEF IInv
    <3> QED
      BY <2>1, <3>1, <3>3
  <2>2. CASE dest # "disk"
    <3>0. PICK content \in ReadsOf(i) : \E o \in UploadFile(content, Chunks[i].size) : Store(Part(i), o.stored)
      BY <2>2 DEF LateAttempt
    <3>1. PICK o \in UploadFile(content, Chunks[i].size) : Store(Part(i), o.stored)
      BY <3>0
    <3>2. saving' = saving
      BY <2>2 DEF LateAttempt
    <3>3. o.stored = None \/ o.stored \in Piece
      BY <1>2, <3>1, Uploaded DEF IInv
    <3> QED
      BY <1>1, <1>2, <3>1, <3>2, <3>3, Storing DEF IInv
  <2> QED
    BY <2>1, <2>2
<1>5. FlowInv'
  <2>1. All' = All /\ (Valid <=> Valid')
    BY <1>1, Static
  <2>2. torn' \in BOOLEAN
    BY <1>1 DEF IInv, FlowInv
  <2> QED
    BY <1>1, <1>3, <2>1, <2>2 DEF IInv, FlowInv
<1>6. CallInv'
  BY <1>1, CallFrame DEF IInv
<1>7. ServerInv'
  BY <1>1, <1>4, ServerFrame DEF IInv
<1>8. SavingInv'
  <2>1. Count' = Count /\ Sources' = Sources /\ IsSingle' = IsSingle
    BY <1>1, Static
  <2>2. CASE saving' = saving
    BY <1>1, <1>3, <1>4, <2>1, <2>2 DEF IInv, SavingInv, Stored
  <2>3. CASE dest = "disk" /\ saving' = Part(i) /\ Part(i) \in DOMAIN objects'
    <3>1. saving' # Target
      BY <1>2, <2>3
    <3> QED
      BY <1>1, <1>2, <1>3, <2>1, <2>3, <3>1 DEF SavingInv, Stored
  <2> QED
    BY <1>4, <2>2, <2>3
<1> QED
  BY <1>4, <1>5, <1>6, <1>7, <1>8 DEF IInv

LEMMA SaveStep ==
  ASSUME IInv, EndSave
  PROVE  IInv'
<1>1. /\ saving # None /\ saving' = None
      /\ UNCHANGED <<dest, expired, call, server, req, phase, done, failed, late, named, uncomposed, torn>>
  BY DEF EndSave
<1>2. PICK i \in done : saving \in {Part(i), Target} /\ \E c \in Beginnings(Fetched(i)) : objects' = With(saving, c)
  BY DEF EndSave
<1>3. PICK c \in Beginnings(Fetched(i)) : objects' = With(saving, c)
  BY <1>2
<1>4. IsSingle /\ saving \in Sources \cup {Target} /\ i \in DOMAIN Chunks /\ req \in Requests
  BY <1>1, <1>2 DEF IInv, FlowInv, SavingInv, All
<1>5. c \in Piece
  <2>1. Fetched(i) \in Piece
    BY <1>4, ChunkName
  <2> QED
    BY <1>3, <2>1 DEF Beginnings, Piece
<1>6. ObjectInv' /\ DOMAIN objects' = DOMAIN objects \cup {saving}
  BY <1>1, <1>3, <1>4, <1>5, ObjectPut DEF IInv
<1>7. FlowInv'
  BY <1>1, FlowFrame DEF IInv, FlowInv
<1>8. CallInv'
  BY <1>1, CallFrame DEF IInv
<1>9. ServerInv'
  BY <1>1, <1>6, ServerFrame DEF IInv
<1>10. SavingInv'
  BY <1>1 DEF SavingInv
<1> QED
  BY <1>6, <1>7, <1>8, <1>9, <1>10 DEF IInv

\* Sorted by their numbers the chunks are in the order of the table.
LEMMA Sorted ==
  ASSUME Count \in Nat, IsSingle
  PROVE  SortPartStrings(1 .. Count) = Parts
<1>1. Cardinality(1 .. Count) = Count
  BY FS_Interval
<1>2. ASSUME NEW k \in 1 .. Count
      PROVE  (CHOOSE i \in 1 .. Count : Cardinality({j \in 1 .. Count : j <= i}) = k) = k
  <2>1. ASSUME NEW i \in 1 .. Count PROVE Cardinality({j \in 1 .. Count : j <= i}) = i
    <3>1. {j \in 1 .. Count : j <= i} = 1 .. i
      OBVIOUS
    <3>2. Cardinality(1 .. i) = i
      BY FS_Interval
    <3> QED
      BY <3>1, <3>2
  <2> QED
    BY <2>1
<1>3. Parts = [k \in 1 .. Count |-> Part(k)]
  BY DEF Parts
<1>4. SortPartStrings(1 .. Count)
        = [k \in 1 .. Count |->
             Part(CHOOSE i \in 1 .. Count : Cardinality({j \in 1 .. Count : j <= i}) = k)]
  BY <1>1 DEF SortPartStrings
<1> QED
  BY <1>2, <1>3, <1>4

LEMMA BeginStep ==
  ASSUME IInv, phase = "upload", done = All, IsSingle \/ N > 1, BeginCompose(Parts),
         phase' = "compose", named' \in {"none", "file_name", "new_file_name"},
         UNCHANGED <<req, done, failed, late, uncomposed, torn>>
  PROVE  IInv'
<1>1. /\ call = Idle /\ Valid /\ req \in Requests
      /\ UNCHANGED <<dest, objects, expired, server, saving, req, done, failed, late, uncomposed, torn>>
  BY DEF IInv, FlowInv, BeginCompose, flowVars
<1>2. Count \in Nat /\ Count >= 1 /\ Parts \in Seq(Sources) /\ Len(Parts) = Count
  BY <1>1, Wholes, Names
<1>3. \/ call' = [Idle EXCEPT !.at = CASE dest = "disk" -> "post"
                                       [] dest # "disk" /\ Len(Parts) = 1 -> "copy"
                                       [] OTHER -> "group",
                              !.parts = Parts, !.current = Parts]
      \/ call' = [Idle EXCEPT !.at = "error", !.parts = Parts]
  BY <1>1 DEF BeginCompose, Failed
<1>4. /\ call'.parts = Parts /\ call'.next = <<>> /\ call'.level = 0 /\ call'.i = 0 /\ call'.read = 0
      /\ call'.local = <<>> /\ call'.temps = <<>> /\ call'.doomed = <<>> /\ call'.warned = FALSE
      /\ \/ call'.current = Parts /\ dest = "disk" /\ call'.at = "post"
         \/ call'.current = Parts /\ dest # "disk" /\ Len(Parts) = 1 /\ call'.at = "copy"
         \/ call'.current = Parts /\ dest # "disk" /\ Len(Parts) # 1 /\ call'.at = "group"
         \/ call'.current = <<>> /\ call'.at = "error"
      /\ call' = [at |-> call'.at, parts |-> call'.parts, current |-> call'.current, next |-> call'.next,
                  level |-> call'.level, i |-> call'.i, read |-> call'.read, local |-> call'.local,
                  temps |-> call'.temps, doomed |-> call'.doomed, warned |-> call'.warned]
  BY <1>3 DEF Idle
<1>5. call' \in CallRecord
  <2>1. call'.local \in Piece /\ call'.next \in Seq(Temps) /\ call'.temps \in Seq(Temps)
        /\ call'.doomed \in Seq(Sources \cup Temps) /\ call'.parts \in Seq(Sources)
    BY <1>2, <1>4 DEF Piece
  <2>2. call'.current \in Seq(Sources \cup Temps)
    <3>1. Parts \in Seq(Sources \cup Temps)
      BY <1>2, SeqMonotonic
    <3>2. <<>> \in Seq(Sources \cup Temps)
      OBVIOUS
    <3>3. call'.current = Parts \/ call'.current = <<>>
      BY <1>4, Zenon
    <3> QED
      BY <3>1, <3>2, <3>3, Zenon
  <2>3. call'.at \in CallStates /\ call'.level \in Nat /\ call'.i \in Nat /\ call'.read \in Nat /\ call'.warned \in BOOLEAN
    <3>1. call'.at \in {"post", "copy", "group", "error"}
      BY <1>4, Zenon
    <3>2. call'.at \in CallStates
      BY <3>1 DEF CallStates
    <3>3. call'.level = 0 /\ call'.i = 0 /\ call'.read = 0 /\ call'.warned = FALSE
      BY <1>4, Zenon
    <3>4. call'.warned \in BOOLEAN
      BY <3>3, Zenon
    <3> QED
      BY <3>2, <3>3, <3>4
  <2> QED
    BY <1>4, <2>1, <2>2, <2>3 DEF CallRecord
<1>6. /\ CallRecord' = CallRecord /\ Parts' = Parts /\ All' = All /\ (Valid <=> Valid') /\ IsSingle' = IsSingle
      /\ N' = N /\ Count' = Count
  BY <1>1, Static DEF CallRecord
<1>7. CallInv'
  <2>1. call'.at = "group" => call'.i < Len(call'.current) /\ call'.read <= Len(Group') /\ Count > 1
    <3> SUFFICES ASSUME call'.at = "group" PROVE call'.i < Len(call'.current) /\ call'.read <= Len(Group') /\ Count > 1
      OBVIOUS
    <3>1. call'.current = Parts /\ Count > 1
      BY <1>2, <1>4
    <3>2. Group' = SubSeq(Parts, 1, IF Fanout > Count THEN Count ELSE Fanout)
      BY <1>2, <1>4, <3>1, FanoutAssumption DEF Group
    <3>3. Len(Group') \in Nat
      BY <1>2, <3>2, FanoutAssumption
    <3> QED
      BY <1>2, <1>4, <3>1, <3>3
  <2>2. call'.at \in {"copy", "final"} => Len(call'.current) = 1
    BY <1>4
  <2>3. call'.at # "idle" /\ call'.parts = Parts /\ done' = All /\ dest' = dest
    BY <1>1, <1>4
  <2>4. call'.at \in {"group", "copy", "final", "clean"} => dest # "disk"
    BY <1>4
  <2>5. call'.at \in {"post", "wait"} => dest = "disk"
    BY <1>4
  <2>6. call'.temps = <<>>
    BY <1>4
  <2> QED
    BY <1>1, <1>5, <1>6, <2>1, <2>2, <2>3, <2>4, <2>5, <2>6 DEF CallInv
<1>8. FlowInv'
  BY <1>1, <1>6 DEF IInv, FlowInv
<1>9. ServerInv'
  <2>1. server = NoRequest /\ server.at = "idle"
    BY <1>1 DEF IInv, ServerInv, Idle, NoRequest
  <2>2. call'.at # "ok"
    BY <1>4
  <2> QED
    BY <1>1, <1>6, <2>1, <2>2 DEF IInv, ServerInv
<1>10. SavingInv'
  BY <1>1, SavingFrame DEF IInv
<1>11. ObjectInv'
  BY <1>1, ObjectSame DEF IInv
<1> QED
  BY <1>7, <1>8, <1>9, <1>10, <1>11 DEF IInv

LEMMA FinishChunksStep ==
  ASSUME IInv, FinishChunks
  PROVE  IInv'
<1>1. phase = "upload" /\ IsSingle /\ done = DOMAIN Chunks /\ BeginCompose(SortPartStrings(done))
      /\ phase' = "compose" /\ named' = "new_file_name"
      /\ UNCHANGED <<req, done, failed, late, uncomposed, torn>> /\ req \in Requests
  BY DEF FinishChunks, IsSingle, IInv, FlowInv
<1>2. Count \in Nat /\ DOMAIN Chunks = 1 .. Count /\ done = All
  BY <1>1, Wholes DEF All
<1>3. SortPartStrings(done) = Parts
  BY <1>1, <1>2, Sorted
<1> QED
  BY <1>1, <1>2, <1>3, BeginStep

LEMMA FinishSharesStep ==
  ASSUME IInv, FinishShares
  PROVE  IInv'
<1>1. /\ phase = "upload" /\ ~IsSingle /\ done = Tasks /\ done = All /\ req \in Requests
      /\ UNCHANGED <<req, done, failed, late, uncomposed, torn>>
  BY RequestsAssumption DEF FinishShares, IsSingle, IInv, FlowInv, All
<1>2. CASE ~failed /\ N > 1
  <2>1. BeginCompose([i \in 1 .. N |-> Share(i)]) /\ phase' = "compose" /\ named' = "file_name"
    BY <1>2 DEF FinishShares
  <2>2. Parts = [i \in 1 .. N |-> Share(i)]
    BY <1>1 DEF Parts, Count
  <2> QED
    BY <1>1, <1>2, <2>1, <2>2, BeginStep
<1>3. CASE ~(~failed /\ N > 1)
  <2>1. UNCHANGED <<dest, objects, expired, call, server, saving, named>> /\ phase' \in {"error", "ok"}
    BY <1>3 DEF FinishShares, composeVars
  <2>2. UNCHANGED <<req, done, failed, late, uncomposed, torn>>
    BY <1>1
  <2>3. FlowInv'
    <3>1. All' = All /\ (Valid <=> Valid')
      BY <1>1, Static
    <3> QED
      BY <1>1, <2>1, <2>2, <3>1 DEF IInv, FlowInv
  <2> QED
    BY <2>1, <2>2, <2>3, PhaseStep
<1> QED
  BY <1>2, <1>3

LEMMA ShareStep ==
  ASSUME IInv, NEW i \in 1 .. N, UploadShare(i)
  PROVE  IInv'
<1> DEFINE whole == DownloadRange(req.source, req.size, ShareStart(i), ShareLength(i), FALSE)
           reads == RangeReads(req.source, req.size, ShareStart(i), ShareLength(i), FALSE)
<1>1. /\ phase = "upload" /\ ~IsSingle /\ i \in Tasks /\ done' = done \cup {i} /\ req \in Requests /\ call = Idle /\ Valid
      /\ UNCHANGED <<dest, expired, call, server, saving, req, phase, late, named>>
  BY RequestsAssumption DEF UploadShare, IsSingle, IInv, FlowInv
<1>2. \/ failed' = TRUE /\ UNCHANGED <<objects, uncomposed, torn>>
      \/ /\ \E content \in reads :
              \/ Store(Share(i), content) /\ UNCHANGED uncomposed
              \/ /\ \E c \in {None} \cup (IF dest = "disk" THEN Beginnings(content) ELSE {}) : Store(Share(i), c)
                 /\ uncomposed' = TRUE
         /\ torn' = (torn \/ LeavesTorn(Share(i), whole))
         /\ UNCHANGED failed
  BY DEF UploadShare
<1>3. Count = N /\ Count \in Nat /\ Share(i) \in Sources /\ i \in All /\ \A c \in reads : c \in Piece
  <2>1. Count = N /\ Count \in Nat
    BY <1>1, Wholes DEF Count
  <2>2. Parts[i] = Share(i) /\ Parts[i] \in Sources
    BY <1>1, <2>1, Names DEF Sources
  <2>3. \A c \in reads : c \in Piece
    <3>1. ShareStart(i) \in Nat /\ ShareLength(i) \in Int
      BY <1>1, Shares
    <3>2. req.source \in SourceKinds /\ req.size \in Nat
      BY <1>1, Request0
    <3> QED
      BY <3>1, <3>2, RangeReadsType DEF Piece
  <2> QED
    BY <1>1, <2>1, <2>2, <2>3 DEF All
<1> HIDE DEF whole, reads
<1>4. \A content \in Piece : \A c \in Beginnings(content) : c \in Piece
  BY DEF Beginnings, Piece
<1>5. /\ ObjectInv' /\ DOMAIN objects \subseteq DOMAIN objects'
      /\ failed' \in BOOLEAN /\ uncomposed' \in BOOLEAN /\ torn' \in BOOLEAN
  <2>0. failed \in BOOLEAN /\ uncomposed \in BOOLEAN /\ torn \in BOOLEAN
    BY DEF IInv, FlowInv
  <2>1. CASE failed' = TRUE /\ UNCHANGED <<objects, uncomposed, torn>>
    BY <1>1, <2>0, <2>1, ObjectSame DEF IInv
  <2>2. ASSUME NEW c, c = None \/ c \in Piece, Store(Share(i), c)
        PROVE  ObjectInv' /\ DOMAIN objects \subseteq DOMAIN objects'
    BY <1>1, <1>3, <2>2, Storing DEF IInv
  <2>3. CASE /\ \E content \in reads :
                  \/ Store(Share(i), content) /\ UNCHANGED uncomposed
                  \/ /\ \E c \in {None} \cup (IF dest = "disk" THEN Beginnings(content) ELSE {}) : Store(Share(i), c)
                     /\ uncomposed' = TRUE
             /\ torn' = (torn \/ LeavesTorn(Share(i), whole))
             /\ UNCHANGED failed
    <3>0. PICK content \in reads :
            \/ Store(Share(i), content) /\ UNCHANGED uncomposed
            \/ /\ \E c \in {None} \cup (IF dest = "disk" THEN Beginnings(content) ELSE {}) : Store(Share(i), c)
               /\ uncomposed' = TRUE
      BY <2>3
    <3>1. PICK c : (c = None \/ c \in Piece) /\ Store(Share(i), c)
      BY <1>3, <1>4, <3>0
    <3>2. ObjectInv' /\ DOMAIN objects \subseteq DOMAIN objects'
      BY <2>2, <3>1
    <3> QED
      BY <2>0, <2>3, <3>0, <3>2
  <2> QED
    BY <1>2, <2>1, <2>3
<1>6. FlowInv'
  <2>1. All' = All /\ (Valid <=> Valid')
    BY <1>1, Static
  <2>2. done' \subseteq All
    BY <1>1, <1>3 DEF IInv, FlowInv
  <2> QED
    BY <1>1, <1>5, <2>1, <2>2 DEF IInv, FlowInv
<1>7. CallInv'
  <2>1. call' = Idle /\ call'.at = "idle" /\ Idle \in CallRecord
    BY <1>1, IdleTyped DEF Idle
  <2>2. CallRecord' = CallRecord
    BY <1>1, Static DEF CallRecord
  <2> QED
    BY <2>1, <2>2 DEF CallInv
<1>8. ServerInv'
  BY <1>1, <1>5, ServerFrame DEF IInv
<1>9. SavingInv'
  BY <1>1, <1>5, SavingFrame DEF IInv
<1> QED
  BY <1>5, <1>6, <1>7, <1>8, <1>9 DEF IInv

-----------------------------------------------------------------------------
(* The tree of temporary objects.                                          *)

\* The names of a group are those of the current list from i on.
LEMMA GroupIs ==
  ASSUME CallInv, call.at = "group"
  PROVE  /\ Group \in Seq(Sources \cup Temps) /\ Len(Group) \in Nat /\ Len(Group) >= 1
         /\ Len(Group) = IF call.i + Fanout > Len(call.current) THEN Len(call.current) - call.i ELSE Fanout
         /\ \A j \in 1 .. Len(Group) : Group[j] = call.current[call.i + j] /\ call.i + j \in DOMAIN call.current
         /\ call.current \in Seq(Sources \cup Temps) /\ call.i \in Nat
         /\ DOMAIN Group = 1 .. Len(Group)
<1>1. /\ call.current \in Seq(Sources \cup Temps) /\ call.i \in Nat /\ call.i < Len(call.current)
      /\ Len(call.current) \in Nat
  <2>1. call \in CallRecord /\ call.i < Len(call.current)
    BY DEF CallInv
  <2>2. call.current \in Seq(Sources \cup Temps) /\ call.i \in Nat
    BY <2>1 DEF CallRecord
  <2> QED
    BY <2>1, <2>2
<1>2. Fanout \in Nat /\ Fanout > 1
  BY FanoutAssumption
<1> DEFINE s == call.current
           last == IF call.i + Fanout > Len(s) THEN Len(s) ELSE call.i + Fanout
<1>3. Group = SubSeq(s, call.i + 1, last)
  BY DEF Group
<1>4. last \in Nat /\ call.i + 1 <= last /\ last <= Len(s)
  BY <1>1, <1>2
<1>5. last - call.i = IF call.i + Fanout > Len(s) THEN Len(s) - call.i ELSE Fanout
  BY <1>1, <1>2
<1> HIDE DEF last, s
<1>6. s \in Seq(Sources \cup Temps) /\ call.i \in Nat
  BY <1>1 DEF s
<1>7. /\ Group \in Seq(Sources \cup Temps) /\ Len(Group) = last - call.i
      /\ \A j \in 1 .. Len(Group) : Group[j] = s[call.i + j] /\ call.i + j \in 1 .. Len(s)
  BY <1>3, <1>4, <1>6, SMTT(30)
<1>8. DOMAIN s = 1 .. Len(s) /\ DOMAIN Group = 1 .. Len(Group)
  BY <1>6, <1>7
<1> QED
  BY <1>1, <1>4, <1>5, <1>7, <1>8 DEF s

\* One more object of the level: the next group is at i + Fanout, or the
\* level above begins, or a single object is left.
LEMMA GroupDone ==
  ASSUME CallInv, call.at = "group"
  PROVE  LET c == AfterGroup(call)
             next == Append(call.next, Temp(call.level, call.i))
         IN /\ c \in CallRecord /\ c.parts = call.parts /\ c.read = 0 /\ c.local = <<>>
            /\ c.temps = Append(call.temps, Temp(call.level, call.i))
            /\ c.doomed = call.doomed /\ c.warned = call.warned
            /\ Temp(call.level, call.i) \in Temps /\ next \in Seq(Temps) /\ Len(next) = Len(call.next) + 1
            /\ \/ /\ c.at = "group" /\ c.current = call.current /\ c.next = next
                  /\ c.level = call.level /\ c.i = call.i + Fanout /\ call.i + Fanout < Len(call.current)
               \/ /\ c.at = "group" /\ c.current = next /\ c.next = <<>> /\ Len(next) > 1
                  /\ c.level = call.level + 1 /\ c.i = 0 /\ call.i + Fanout >= Len(call.current)
               \/ /\ c.at = "copy" /\ c.current = next /\ c.next = <<>> /\ Len(next) = 1
                  /\ c.level = call.level + 1 /\ c.i = 0 /\ call.i + Fanout >= Len(call.current)
<1> DEFINE temp == Temp(call.level, call.i)
           next == Append(call.next, temp)
           temps == Append(call.temps, temp)
           c == AfterGroup(call)
<1>1. call \in CallRecord
  BY DEF CallInv
<1>2. call.level \in Nat /\ call.i \in Nat /\ Len(call.current) \in Nat /\ Fanout \in Nat
  BY <1>1, FanoutAssumption DEF CallRecord
<1>3. temp \in Temps
  BY <1>2 DEF Temps
<1>4. next \in Seq(Temps) /\ temps \in Seq(Temps) /\ Len(next) = Len(call.next) + 1 /\ Len(next) >= 1 /\ Len(next) \in Nat
  <2>1. call.next \in Seq(Temps) /\ call.temps \in Seq(Temps)
    BY <1>1 DEF CallRecord
  <2> HIDE DEF temp
  <2> QED
    BY <1>3, <2>1
<1>5. next \in Seq(Sources \cup Temps)
  BY <1>4, SeqMonotonic
<1> HIDE DEF temp, next, temps
<1>6. CASE call.i + Fanout < Len(call.current)
  <2>1. c = [call EXCEPT !.temps = temps, !.read = 0, !.local = <<>>, !.next = next, !.i = call.i + Fanout]
    BY <1>1, <1>6 DEF AfterGroup, temp, next, temps, CallRecord
  <2>2. c \in CallRecord
    <3>1. /\ c.at = call.at /\ c.parts = call.parts /\ c.current = call.current /\ c.next = next
          /\ c.level = call.level /\ c.i = call.i + Fanout /\ c.read = 0 /\ c.local = <<>>
          /\ c.temps = temps /\ c.doomed = call.doomed /\ c.warned = call.warned
          /\ c = [at |-> c.at, parts |-> c.parts, current |-> c.current, next |-> c.next,
                  level |-> c.level, i |-> c.i, read |-> c.read, local |-> c.local,
                  temps |-> c.temps, doomed |-> c.doomed, warned |-> c.warned]
      BY <1>1, <2>1 DEF CallRecord
    <3> HIDE DEF c
    <3>2. /\ c.at \in CallStates /\ c.parts \in Seq(Sources) /\ c.current \in Seq(Sources \cup Temps)
          /\ c.doomed \in Seq(Sources \cup Temps) /\ c.warned \in BOOLEAN /\ c.level \in Nat
      BY <1>1, <3>1 DEF CallRecord
    <3>3. c.next \in Seq(Temps) /\ c.temps \in Seq(Temps)
      BY <1>4, <3>1
    <3>4. c.i \in Nat /\ c.read \in Nat /\ c.local \in Piece
      BY <1>2, <3>1 DEF Piece
    <3> QED
      BY <3>1, <3>2, <3>3, <3>4 DEF CallRecord
  <2>3. /\ c.parts = call.parts /\ c.read = 0 /\ c.local = <<>> /\ c.temps = temps /\ c.doomed = call.doomed
        /\ c.warned = call.warned /\ c.at = "group" /\ c.current = call.current /\ c.next = next
        /\ c.level = call.level /\ c.i = call.i + Fanout
    BY <1>1, <2>1 DEF CallRecord
  <2> HIDE DEF c
  <2> QED
    BY <1>3, <1>4, <1>6, <2>2, <2>3 DEF c, temp, next, temps
<1>7. CASE ~(call.i + Fanout < Len(call.current))
  <2> DEFINE at == IF Len(next) > 1 THEN "group" ELSE "copy"
  <2>1. c = [call EXCEPT !.temps = temps, !.read = 0, !.local = <<>>, !.current = next, !.next = <<>>,
                         !.level = call.level + 1, !.i = 0, !.at = at]
    BY <1>1, <1>7 DEF AfterGroup, temp, next, temps, CallRecord
  <2>2. at \in CallStates /\ <<>> \in Seq(Temps) /\ <<>> \in Piece /\ call.level + 1 \in Nat
    BY <1>2 DEF CallStates, Piece
  <2>3. (at = "group" /\ Len(next) > 1) \/ (at = "copy" /\ Len(next) = 1)
    BY <1>4
  <2> HIDE DEF at
  <2>4. c \in CallRecord
    <3>1. /\ c.at = at /\ c.parts = call.parts /\ c.current = next /\ c.next = <<>>
          /\ c.level = call.level + 1 /\ c.i = 0 /\ c.read = 0 /\ c.local = <<>>
          /\ c.temps = temps /\ c.doomed = call.doomed /\ c.warned = call.warned
          /\ c = [at |-> c.at, parts |-> c.parts, current |-> c.current, next |-> c.next,
                  level |-> c.level, i |-> c.i, read |-> c.read, local |-> c.local,
                  temps |-> c.temps, doomed |-> c.doomed, warned |-> c.warned]
      BY <1>1, <2>1 DEF CallRecord
    <3> HIDE DEF c
    <3>2. c.parts \in Seq(Sources) /\ c.doomed \in Seq(Sources \cup Temps) /\ c.warned \in BOOLEAN
      BY <1>1, <3>1 DEF CallRecord
    <3>3. /\ c.current \in Seq(Sources \cup Temps) /\ c.next \in Seq(Temps) /\ c.temps \in Seq(Temps)
          /\ c.at \in CallStates /\ c.level \in Nat /\ c.local \in Piece
      BY <1>4, <1>5, <2>2, <3>1
    <3>4. c.i \in Nat /\ c.read \in Nat
      BY <3>1
    <3> QED
      BY <3>1, <3>2, <3>3, <3>4 DEF CallRecord
  <2>5. /\ c.parts = call.parts /\ c.read = 0 /\ c.local = <<>> /\ c.temps = temps /\ c.doomed = call.doomed
        /\ c.warned = call.warned /\ c.at = at /\ c.current = next /\ c.next = <<>>
        /\ c.level = call.level + 1 /\ c.i = 0
    BY <1>1, <2>1 DEF CallRecord
  <2>6. call.i + Fanout >= Len(call.current)
    BY <1>2, <1>7
  <2> HIDE DEF c
  <2> QED
    BY <1>3, <1>4, <2>3, <2>4, <2>5, <2>6 DEF c, temp, next, temps
<1> QED
  BY <1>6, <1>7

LEMMA TreeStep ==
  ASSUME IInv, call.at \in {"group", "copy", "final", "clean"}, call'.at \notin {"idle", "post"},
         UNCHANGED <<dest, expired, server, saving, req, phase, flowVars>>, CallInv', ObjectInv'
  PROVE  IInv'
<1>1. UNCHANGED <<req, dest, phase, done, failed, late, named, uncomposed, torn, expired>>
  BY DEF flowVars
<1>2. call.at # "idle" /\ dest # "disk"
  BY DEF IInv, CallInv
<1>3. FlowInv'
  BY <1>1, <1>2, FlowFrame DEF IInv, FlowInv
<1>4. ServerInv' /\ SavingInv'
  BY <1>1, <1>2, TreeFrame DEF IInv
<1> QED
  BY <1>3, <1>4 DEF IInv

LEMMA Beginning ==
  ASSUME NEW S, NEW s \in Seq(S), NEW n \in 0 .. Len(s)
  PROVE  SubSeq(s, 1, n) \in Seq(S) /\ Len(SubSeq(s, 1, n)) = n
OBVIOUS

\* Where a failed call leaves the objects as they are, or as a request did.
LEMMA TreeFails ==
  ASSUME IInv, call.at \in {"group", "copy", "final", "clean"}, call' = Failed,
         UNCHANGED <<dest, expired, server, saving, req, phase, flowVars>>, ObjectInv'
  PROVE  IInv'
<1>1. call.at # "idle" /\ done' = done
  BY DEF flowVars
<1>2. CallInv'
  BY <1>1, CallFails DEF IInv
<1>3. call'.at = "error"
  BY DEF Failed, IInv, CallInv, CallRecord
<1> QED
  BY <1>2, <1>3, TreeStep

LEMMA GroupedStep ==
  ASSUME IInv, call.at = "group", call' = AfterGroup(call), NEW content \in Piece,
         objects' = With(Temp(call.level, call.i), content),
         UNCHANGED <<dest, expired, server, saving, req, phase, flowVars>>
  PROVE  IInv'
<1> DEFINE next == Append(call.next, Temp(call.level, call.i))
<1>1. /\ call' \in CallRecord /\ call'.parts = call.parts /\ call'.read = 0
      /\ Temp(call.level, call.i) \in Temps /\ call.current \in Seq(Sources \cup Temps) /\ call.i \in Nat
      /\ next \in Seq(Temps) /\ Len(next) \in Nat
      /\ \/ /\ call'.at = "group" /\ call'.current = call.current
            /\ call'.i = call.i + Fanout /\ call.i + Fanout < Len(call.current)
         \/ /\ call'.at = "group" /\ call'.current = next /\ Len(next) > 1 /\ call'.i = 0
         \/ /\ call'.at = "copy" /\ call'.current = next /\ Len(next) = 1
  <2> HIDE DEF next
  <2>1. CallInv
    BY DEF IInv
  <2>2. call.current \in Seq(Sources \cup Temps) /\ call.i \in Nat
    BY <2>1, GroupIs
  <2> QED
    BY <2>1, <2>2, GroupDone DEF next
<1> HIDE DEF next
<1>2. Fanout \in Nat
  BY FanoutAssumption
<1>3. ObjectInv'
  BY <1>1, ObjectPut DEF IInv
<1>4. /\ CallRecord' = CallRecord /\ Parts' = Parts /\ All' = All /\ (Valid <=> Valid') /\ IsSingle' = IsSingle
      /\ N' = N /\ Count' = Count /\ done' = done
  BY Static DEF CallRecord, flowVars
<1>5. call.parts = Parts /\ done = All /\ Valid /\ (IsSingle \/ N > 1) /\ dest # "disk" /\ Count > 1
  BY DEF IInv, CallInv
<1>6. call'.at = "group" => call'.i < Len(call'.current) /\ call'.read <= Len(Group')
  <2> SUFFICES ASSUME call'.at = "group" PROVE call'.i < Len(call'.current) /\ call'.read <= Len(Group')
    OBVIOUS
  <2>1. /\ call'.i \in Nat /\ call'.i < Len(call'.current)
        /\ call'.current \in Seq(Sources \cup Temps) /\ Len(call'.current) \in Nat
    <3>1. call'.i < Len(call'.current)
      BY <1>1
    <3>2. call'.i \in Nat /\ call'.current \in Seq(Sources \cup Temps)
      BY <1>1 DEF CallRecord
    <3> QED
      BY <3>1, <3>2
  <2> DEFINE last == IF call'.i + Fanout > Len(call'.current) THEN Len(call'.current) ELSE call'.i + Fanout
  <2>2. Group' = SubSeq(call'.current, call'.i + 1, last)
    BY DEF Group
  <2>3. last \in Nat /\ last <= Len(call'.current)
    BY <1>2, <2>1
  <2> HIDE DEF last
  <2>4. Len(Group') \in Nat
    BY <2>1, <2>2, <2>3
  <2> QED
    BY <1>1, <2>1, <2>4
<1>7. CallInv'
  <2>1. call'.at \in {"group", "copy"}
    BY <1>1, Zenon
  <2>2. call'.at = "copy" => Len(call'.current) = 1
    BY <1>1
  <2> QED
    BY <1>1, <1>4, <1>5, <1>6, <2>1, <2>2 DEF CallInv
<1>8. call'.at \notin {"idle", "post"}
  BY <1>1
<1> QED
  BY <1>3, <1>7, <1>8, TreeStep

LEMMA ContentsType ==
  ASSUME ObjectInv, NEW R, NEW names \in Seq(R), \A k \in DOMAIN names : Stored(names[k])
  PROVE  /\ [k \in DOMAIN names |-> objects[names[k]]] \in Seq(Piece)
         /\ Len([k \in DOMAIN names |-> objects[names[k]]]) = Len(names)
         /\ Contents(names) \in Piece
<1> DEFINE s == [k \in DOMAIN names |-> objects[names[k]]]
<1>1. DOMAIN names = 1 .. Len(names) /\ Len(names) \in Nat
  OBVIOUS
<1>2. \A k \in DOMAIN names : objects[names[k]] \in Piece
  BY DEF ObjectInv, Stored
<1>3. s \in [1 .. Len(names) -> Piece]
  BY <1>1, <1>2
<1>4. s \in Seq(Piece) /\ Len(s) = Len(names)
  <2> HIDE DEF s
  <2> QED
    BY <1>1, <1>3, FunctionSeq
<1>5. FlattenSeq(s) \in Piece
  <2> HIDE DEF s
  <2> QED
    BY <1>4, FlattenType DEF Piece
<1> QED
  BY <1>4, <1>5 DEF Contents

LEMMA ComposeGroupStep ==
  ASSUME IInv, ComposeGroup, UNCHANGED <<req, phase, flowVars>>
  PROVE  IInv'
<1>1. call.at = "group" /\ UNCHANGED <<dest, expired, server, saving, req, phase, flowVars>>
  BY DEF ComposeGroup
<1>2. CASE objects' = objects /\ call' = Failed
  BY <1>1, <1>2, ObjectSame, TreeFails DEF IInv
<1>3. CASE /\ \A k \in DOMAIN Group : Stored(Group[k])
           /\ objects' = With(Temp(call.level, call.i), Contents(Group))
           /\ call' \in {AfterGroup(call), Failed}
  <2>1. Group \in Seq(Sources \cup Temps)
    BY <1>1, GroupIs DEF IInv
  <2>2. Contents(Group) \in Piece
    BY <1>3, <2>1, ContentsType DEF IInv
  <2>3. CASE call' = AfterGroup(call)
    BY <1>1, <1>3, <2>2, <2>3, GroupedStep
  <2>4. CASE call' = Failed
    <3>1. Temp(call.level, call.i) \in Temps
      BY <1>1, GroupDone DEF IInv
    <3>2. ObjectInv'
      BY <1>1, <1>3, <2>2, <3>1, ObjectPut DEF IInv
    <3> QED
      BY <1>1, <2>4, <3>2, TreeFails
  <2> QED
    BY <1>3, <2>3, <2>4
<1> QED
  BY <1>2, <1>3 DEF ComposeGroup, Request

LEMMA PutTempStep ==
  ASSUME IInv, PutTemp, UNCHANGED <<req, phase, flowVars>>
  PROVE  IInv'
<1>1. call.at = "group" /\ UNCHANGED <<dest, expired, server, saving, req, phase, flowVars>>
  BY DEF PutTemp
<1>2. call.local \in Piece /\ Temp(call.level, call.i) \in Temps
  <2>1. call.local \in Piece
    BY DEF IInv, CallInv, CallRecord
  <2> QED
    BY <1>1, <2>1, GroupDone DEF IInv
<1>3. \/ objects' = objects /\ call' = Failed
      \/ /\ objects' = With(Temp(call.level, call.i), call.local)
         /\ call' \in {AfterGroup(call), Failed}
  BY DEF PutTemp, Request
<1>4. CASE objects' = objects /\ call' = Failed
  BY <1>1, <1>4, ObjectSame, TreeFails DEF IInv
<1>5. CASE objects' = With(Temp(call.level, call.i), call.local) /\ call' = AfterGroup(call)
  BY <1>1, <1>2, <1>5, GroupedStep
<1>6. CASE objects' = With(Temp(call.level, call.i), call.local) /\ call' = Failed
  <2>1. ObjectInv'
    BY <1>1, <1>2, <1>6, ObjectPut DEF IInv
  <2> QED
    BY <1>1, <1>6, <2>1, TreeFails
<1> QED
  BY <1>3, <1>4, <1>5, <1>6

LEMMA ReadPartStep ==
  ASSUME IInv, ReadPart, UNCHANGED <<req, phase, flowVars>>
  PROVE  IInv'
<1>1. /\ call.at = "group" /\ UNCHANGED <<dest, expired, server, saving, req, phase, flowVars>>
      /\ objects' = objects /\ call.read < Len(Group)
  BY DEF ReadPart
<1>2. ObjectInv'
  BY <1>1, ObjectSame DEF IInv
<1> DEFINE name == Group[call.read + 1]
<1>3. CASE call' = Failed
  BY <1>1, <1>2, <1>3, TreeFails
<1>4. CASE Stored(name) /\ call' = [call EXCEPT !.read = @ + 1, !.local = @ \o objects[name]]
  <2>1. call \in CallRecord /\ call.read \in Nat /\ call.local \in Piece
    BY DEF IInv, CallInv, CallRecord
  <2>2. objects[name] \in Piece
    BY <1>4 DEF IInv, ObjectInv, Stored
  <2> HIDE DEF name
  <2>3. call.local \o objects[name] \in Piece
    BY <2>1, <2>2 DEF Piece
  <2> DEFINE local == call.local \o objects[name]
             read == call.read + 1
  <2>4. call' = [call EXCEPT !.read = read, !.local = local]
    BY <1>4, <2>1 DEF CallRecord
  <2>5. read \in Nat /\ local \in Piece
    BY <2>1, <2>3
  <2> HIDE DEF local
  <2>6. /\ call'.at = call.at /\ call'.parts = call.parts /\ call'.current = call.current /\ call'.i = call.i
        /\ call'.temps = call.temps /\ call'.read = read
    BY <2>1, <2>4 DEF CallRecord
  <2>7. call' \in CallRecord
    <3> HIDE DEF read
    <3> QED
      BY <2>1, <2>4, <2>5 DEF CallRecord
  <2>8. /\ CallRecord' = CallRecord /\ Parts' = Parts /\ All' = All /\ (Valid <=> Valid') /\ IsSingle' = IsSingle
        /\ N' = N /\ Count' = Count /\ done' = done
    BY <1>1, Static DEF CallRecord, flowVars
  <2>9. Group' = Group /\ Len(Group) \in Nat
    <3>1. Len(Group) \in Nat
      BY <1>1, GroupIs DEF IInv
    <3> QED
      BY <2>6, <3>1 DEF Group
  <2>10. call'.read <= Len(Group')
    BY <1>1, <2>1, <2>6, <2>9
  <2>11. CallInv'
    BY <1>1, <2>6, <2>7, <2>8, <2>10 DEF IInv, CallInv
  <2> QED
    BY <1>1, <1>2, <2>6, <2>11, TreeStep
<1> QED
  BY <1>3, <1>4 DEF ReadPart

\* RemoveFirst leaves every other element.
LEMMA RemovingFirst ==
  ASSUME NEW R, NEW s \in Seq(R), NEW e
  PROVE  /\ RemoveFirst(s, e) \in Seq(R)
         /\ \A x \in Range(s) \ {e} : x \in Range(RemoveFirst(s, e))
<1> DEFINE places == {i \in 1 .. Len(s) : s[i] = e}
<1>1. CASE places = {}
  <2>1. RemoveFirst(s, e) = s
    BY <1>1 DEF RemoveFirst
  <2> QED
    BY <2>1
<1>2. CASE places # {}
  <2>1. Min(places) \in places
    <3>1. places \in SUBSET Nat
      OBVIOUS
    <3> HIDE DEF places
    <3> QED
      BY <1>2, <3>1, LeastElement DEF Min
  <2>2. RemoveFirst(s, e) = RemoveAt(s, Min(places))
    <3>1. SelectInSeq(s, LAMBDA v : v = e) = Min(places)
      BY <1>2 DEF SelectInSeq
    <3>2. \E i \in 1 .. Len(s) : s[i] = e
      BY <1>2
    <3> QED
      BY <3>1, <3>2 DEF RemoveFirst
  <2> DEFINE m == Min(places)
             before == SubSeq(s, 1, m - 1)
             after == SubSeq(s, m + 1, Len(s))
  <2>3. m \in 1 .. Len(s) /\ s[m] = e /\ Len(s) \in Nat
    BY <2>1
  <2> HIDE DEF m
  <2>4. before \in Seq(R) /\ Len(before) = m - 1 /\ \A i \in 1 .. (m - 1) : before[i] = s[i]
    BY <2>3
  <2>5. after \in Seq(R) /\ Len(after) = Len(s) - m /\ \A i \in 1 .. (Len(s) - m) : after[i] = s[i + m]
    BY <2>3
  <2>6. RemoveFirst(s, e) = before \o after
    BY <2>2 DEF RemoveAt, m
  <2> HIDE DEF before, after
  <2>7. before \o after \in Seq(R) /\ Range(before \o after) = Range(before) \cup Range(after)
    BY <2>4, <2>5, RangeConcatenation
  <2>8. ASSUME NEW x \in Range(s) \ {e} PROVE x \in Range(before) \cup Range(after)
    <3>1. PICK j \in 1 .. Len(s) : x = s[j]
      BY <2>8, RangeEquality
    <3>2. j # m
      BY <2>3, <2>8, <3>1
    <3>3. CASE j < m
      <4>1. j \in 1 .. (m - 1) /\ before[j] = x
        BY <2>3, <2>4, <3>1, <3>3
      <4>2. j \in 1 .. Len(before)
        BY <2>4, <4>1
      <4> QED
        BY <2>4, <4>1, <4>2, RangeEquality
    <3>4. CASE j > m
      <4>1. j - m \in 1 .. (Len(s) - m) /\ (j - m) + m = j
        BY <2>3, <3>4
      <4>2. after[j - m] = x /\ j - m \in 1 .. Len(after)
        BY <2>5, <3>1, <4>1
      <4> QED
        BY <2>5, <4>2, RangeEquality
    <3> QED
      BY <2>3, <3>2, <3>3, <3>4
  <2> QED
    BY <2>6, <2>7, <2>8
<1> QED
  BY <1>1, <1>2

LEMMA Doomed ==
  ASSUME CallInv, call.at = "copy", Count \in Nat
  PROVE  /\ ToDelete \in Seq(Sources \cup Temps)
         /\ Sources \subseteq Range(ToDelete)
         /\ Count > 1 => \A t \in Range(call.temps) \ {call.current[1]} : t \in Range(ToDelete)
         /\ dest = "s3" /\ Count > 1 => call.current[1] \in Range(ToDelete)
         /\ call.current[1] \in Sources \cup Temps
<1> DEFINE last == call.current[1]
           others == Others(call.temps, last)
<1>1. /\ call.current \in Seq(Sources \cup Temps) /\ Len(call.current) = 1 /\ call.temps \in Seq(Temps)
      /\ call.parts = Parts /\ Parts \in Seq(Sources) /\ Range(Parts) = Sources /\ Len(Parts) = Count
  BY Names DEF CallInv, CallRecord
<1>2. last \in Sources \cup Temps
  BY <1>1
<1>3. others \in Seq(Temps) /\ \A t \in Range(call.temps) \ {last} : t \in Range(others)
  BY <1>1, RemovingFirst DEF Others
<1> HIDE DEF last, others
<1>4. others \in Seq(Sources \cup Temps) /\ Parts \in Seq(Sources \cup Temps) /\ <<last>> \in Seq(Sources \cup Temps)
  <2>1. others \in Seq(Sources \cup Temps)
    BY <1>3, SeqMonotonic
  <2>2. Parts \in Seq(Sources \cup Temps)
    BY <1>1, SeqMonotonic
  <2> QED
    BY <1>2, <2>1, <2>2
<1>5. ToDelete = CASE Len(Parts) = 1 -> Parts
                   [] Len(Parts) > 1 /\ dest = "s3" -> others \o <<last>> \o Parts
                   [] OTHER -> others \o Parts
  BY <1>1 DEF ToDelete, last, others
<1>6. CASE Count = 1
  <2>1. ToDelete = Parts
    BY <1>1, <1>5, <1>6
  <2> QED
    BY <1>1, <1>2, <1>4, <1>6, <2>1 DEF last
<1>7. CASE Count > 1 /\ dest = "s3"
  <2>1. ToDelete = (others \o <<last>>) \o Parts
    BY <1>1, <1>5, <1>7
  <2>2. others \o <<last>> \in Seq(Sources \cup Temps)
    BY <1>4
  <2>3. Range(others \o <<last>>) = Range(others) \cup Range(<<last>>)
    BY <1>4, RangeConcatenation, ZenonT(40)
  <2>4. Range((others \o <<last>>) \o Parts) = Range(others \o <<last>>) \cup Range(Parts)
    <3> DEFINE front == others \o <<last>>
    <3>1. front \in Seq(Sources \cup Temps)
      BY <2>2
    <3> HIDE DEF front
    <3>2. Range(front \o Parts) = Range(front) \cup Range(Parts)
      BY <1>4, <3>1, RangeConcatenation
    <3> QED
      BY <3>2 DEF front
  <2>5. last \in Range(<<last>>)
    BY DEF Range
  <2>6. (others \o <<last>>) \o Parts \in Seq(Sources \cup Temps)
    BY <1>4, <2>2
  <2> QED
    BY <1>1, <1>2, <1>3, <2>1, <2>3, <2>4, <2>5, <2>6 DEF last
<1>8. CASE Count # 1 /\ ~(Count > 1 /\ dest = "s3")
  <2>1. ToDelete = others \o Parts
    BY <1>1, <1>5, <1>8
  <2>2. Range(others \o Parts) = Range(others) \cup Range(Parts)
    BY <1>4, RangeConcatenation
  <2>3. others \o Parts \in Seq(Sources \cup Temps)
    BY <1>4
  <2> QED
    BY <1>1, <1>2, <1>3, <1>8, <2>1, <2>2, <2>3 DEF last
<1> QED
  BY <1>6, <1>7, <1>8

\* From the last copy on the call only goes from state to state.
LEMMA CallMoves ==
  ASSUME CallInv, NEW at \in {"final", "clean", "ok"}, NEW doomed \in Seq(Sources \cup Temps), NEW warned \in BOOLEAN,
         call.at \in {"copy", "final", "clean"}, at = "final" => call.at = "copy",
         call' = [call EXCEPT !.at = at, !.doomed = doomed, !.warned = warned],
         req' = req, done' = done, dest' = dest
  PROVE  CallInv' /\ call'.at = at
<1>1. call \in CallRecord /\ at \in CallStates
  BY DEF CallInv, CallStates
<1>2. call' \in CallRecord
  BY <1>1 DEF CallRecord
<1>3. call'.at = at /\ call'.parts = call.parts /\ call'.current = call.current
  BY <1>1 DEF CallRecord
<1>4. /\ CallRecord' = CallRecord /\ Parts' = Parts /\ All' = All /\ (Valid <=> Valid') /\ IsSingle' = IsSingle
      /\ N' = N /\ Count' = Count
  BY Static DEF CallRecord
<1> QED
  BY <1>2, <1>3, <1>4 DEF CallInv

LEMMA CopyFinalStep ==
  ASSUME IInv, CopyFinal, UNCHANGED <<req, phase, flowVars>>
  PROVE  IInv'
<1>1. call.at = "copy" /\ UNCHANGED <<dest, expired, server, saving, req, phase, flowVars>> /\ done' = done
  BY DEF CopyFinal, flowVars
<1>2. CASE objects' = objects /\ call' = Failed
  BY <1>1, <1>2, ObjectSame, TreeFails DEF IInv
<1> DEFINE at == IF dest = "gcs" /\ Len(call.parts) > 1 THEN "final" ELSE "clean"
           content == objects[call.current[1]]
<1>3. CASE /\ Stored(call.current[1]) /\ objects' = With(Target, content)
           /\ call' \in {[call EXCEPT !.at = at, !.doomed = ToDelete], Failed}
  <2>1. content \in Piece
    BY <1>3 DEF IInv, ObjectInv, Stored
  <2> HIDE DEF content
  <2>2. ObjectInv'
    BY <1>1, <1>3, <2>1, ObjectPut DEF IInv
  <2>3. CASE call' = Failed
    BY <1>1, <2>2, <2>3, TreeFails
  <2>4. CASE call' = [call EXCEPT !.at = at, !.doomed = ToDelete]
    <3>1. req \in Requests /\ CallInv
      BY DEF IInv, FlowInv
    <3>2. ToDelete \in Seq(Sources \cup Temps)
      BY <1>1, <3>1, Wholes, Doomed
    <3>3. at \in {"final", "clean", "ok"}
      OBVIOUS
    <3>4. call.warned \in BOOLEAN
      BY <3>1 DEF CallInv, CallRecord
    <3>5. call' = [call EXCEPT !.at = at, !.doomed = ToDelete, !.warned = call.warned]
      <4> HIDE DEF at
      <4> QED
        BY <2>4, <3>1 DEF CallInv, CallRecord
    <3> HIDE DEF at
    <3>6. CallInv' /\ call'.at = at
      BY <1>1, <3>1, <3>2, <3>3, <3>4, <3>5, CallMoves
    <3> QED
      BY <1>1, <2>2, <3>3, <3>6, TreeStep
  <2> QED
    BY <1>3, <2>3, <2>4
<1> QED
  BY <1>2, <1>3 DEF CopyFinal, Request

LEMMA DeleteStep ==
  ASSUME IInv, DeleteFinalTemp \/ DeleteOne \/ EndClean, UNCHANGED <<req, phase, flowVars>>
  PROVE  IInv'
<1>1. /\ call.at \in {"final", "clean"} /\ UNCHANGED <<dest, expired, server, saving, req, phase, flowVars>>
      /\ done' = done
  BY DEF DeleteFinalTemp, DeleteOne, EndClean, flowVars
<1>2. call \in CallRecord /\ CallInv
  BY DEF IInv, CallInv
<1>3. ObjectInv'
  <2>1. objects' = objects \/ \E name : objects' = WithoutObject(name)
    BY DEF DeleteFinalTemp, DeleteOne, EndClean, Request
  <2> QED
    BY <1>1, <2>1, ObjectSame, ObjectRemove DEF IInv
<1>4. CASE call' = Failed
  BY <1>1, <1>3, <1>4, TreeFails
<1>5. CASE \E at \in {"final", "clean", "ok"}, doomed \in Seq(Sources \cup Temps), warned \in BOOLEAN :
             call' = [call EXCEPT !.at = at, !.doomed = doomed, !.warned = warned] /\ at # "final"
  <2>1. PICK at \in {"final", "clean", "ok"}, doomed \in Seq(Sources \cup Temps), warned \in BOOLEAN :
               call' = [call EXCEPT !.at = at, !.doomed = doomed, !.warned = warned] /\ at # "final"
    BY <1>5
  <2>2. CallInv' /\ call'.at = at
    BY <1>1, <1>2, <2>1, CallMoves
  <2> QED
    BY <1>1, <1>3, <2>2, TreeStep
<1>6. call.doomed \in Seq(Sources \cup Temps) /\ call.warned \in BOOLEAN /\ call.at \in CallStates
  BY <1>2 DEF CallRecord
<1>7. CASE DeleteFinalTemp
  <2>1. call' = Failed \/ call' = [call EXCEPT !.at = "clean"]
    BY <1>7 DEF DeleteFinalTemp, Request
  <2>2. [call EXCEPT !.at = "clean"] = [call EXCEPT !.at = "clean", !.doomed = call.doomed, !.warned = call.warned]
    BY <1>2 DEF CallRecord
  <2> QED
    BY <1>4, <1>5, <1>6, <2>1, <2>2
<1>8. CASE EndClean
  <2>1. call' = [call EXCEPT !.at = "ok"]
    BY <1>8 DEF EndClean
  <2>2. [call EXCEPT !.at = "ok"] = [call EXCEPT !.at = "ok", !.doomed = call.doomed, !.warned = call.warned]
    BY <1>2 DEF CallRecord
  <2> QED
    BY <1>5, <1>6, <2>1, <2>2
<1>9. CASE DeleteOne
  <2>1. PICK warned \in BOOLEAN : call' = [call EXCEPT !.at = "clean", !.doomed = Tail(call.doomed), !.warned = warned]
    <3>1. call.at = "clean" /\ call' \in {[call EXCEPT !.doomed = Tail(@)],
                                         [[call EXCEPT !.doomed = Tail(@)] EXCEPT !.warned = TRUE]}
      BY <1>9 DEF DeleteOne, Request
    <3>2. [call EXCEPT !.doomed = Tail(@)]
            = [call EXCEPT !.at = "clean", !.doomed = Tail(call.doomed), !.warned = call.warned]
      BY <1>2, <3>1 DEF CallRecord
    <3>3. [[call EXCEPT !.doomed = Tail(@)] EXCEPT !.warned = TRUE]
            = [call EXCEPT !.at = "clean", !.doomed = Tail(call.doomed), !.warned = TRUE]
      BY <1>2, <3>1 DEF CallRecord
    <3> QED
      BY <1>6, <3>1, <3>2, <3>3
  <2>2. Tail(call.doomed) \in Seq(Sources \cup Temps)
    <3>1. call.doomed # <<>>
      BY <1>9 DEF DeleteOne
    <3> QED
      BY <1>6, <3>1
  <2> QED
    BY <1>5, <2>1, <2>2
<1> QED
  BY <1>7, <1>8, <1>9

-----------------------------------------------------------------------------
(* The chunk server.                                                       *)

LEMMA CallWarned ==
  ASSUME CallInv, call' = [call EXCEPT !.warned = TRUE], call.at \in {"wait", "ok", "error"},
         req' = req, done' = done, dest' = dest
  PROVE  CallInv' /\ call'.at = call.at
<1>1. call \in CallRecord
  BY DEF CallInv
<1>2. call' \in CallRecord
  BY <1>1 DEF CallRecord
<1>3. call'.at = call.at /\ call'.parts = call.parts
  BY <1>1 DEF CallRecord
<1>4. /\ CallRecord' = CallRecord /\ Parts' = Parts /\ All' = All /\ (Valid <=> Valid') /\ IsSingle' = IsSingle
      /\ N' = N /\ Count' = Count
  BY Static DEF CallRecord
<1> QED
  BY <1>2, <1>3, <1>4 DEF CallInv

LEMMA PostStep ==
  ASSUME IInv, PostMerge \/ Answered, UNCHANGED <<req, phase, flowVars>>
  PROVE  IInv'
<1>1. /\ call.at \in {"post", "wait"} /\ UNCHANGED <<dest, objects, expired, saving>>
      /\ UNCHANGED <<req, phase, done, failed, late, named, uncomposed, torn>>
  BY DEF PostMerge, Answered, flowVars
<1>2. FlowInv'
  <2>1. expired' \in BOOLEAN /\ call.at # "idle"
    BY <1>1 DEF IInv, FlowInv
  <2> QED
    BY <1>1, <2>1, FlowFrame DEF IInv
<1>3. ObjectInv'
  BY <1>1, ObjectSame DEF IInv
<1>4. call \in CallRecord /\ dest = "disk" /\ CallInv
  BY <1>1 DEF IInv, CallInv
<1>5. /\ CallRecord' = CallRecord /\ Parts' = Parts /\ All' = All /\ (Valid <=> Valid') /\ IsSingle' = IsSingle
      /\ N' = N /\ Count' = Count
  BY <1>1, Static DEF CallRecord
<1>6. ASSUME NEW at \in {"wait", "ok"}, call' = [call EXCEPT !.at = at] PROVE CallInv' /\ call'.at = at
  <2>1. call' \in CallRecord /\ call'.at = at /\ call'.parts = call.parts
    BY <1>4, <1>6 DEF CallRecord, CallStates
  <2> QED
    BY <1>1, <1>4, <1>5, <2>1 DEF CallInv
<1>7. ASSUME call' = Failed PROVE CallInv' /\ call'.at = "error"
  <2>1. CallInv'
    BY <1>1, <1>4, <1>7, CallFails
  <2> QED
    BY <1>4, <1>7, <2>1 DEF Failed, CallRecord
<1>8. CASE PostMerge
  <2>1. call.at = "post" /\ server = NoRequest
    BY <1>8 DEF PostMerge, IInv, ServerInv
  <2>2. CallInv' /\ call'.at \in {"wait", "error"}
    BY <1>6, <1>7, <1>8 DEF PostMerge
  <2>3. server' = [server EXCEPT !.at = "asked"] \/ (call'.at = "error" /\ server' = server)
    BY <1>8 DEF PostMerge
  <2>4. /\ server' \in [at : ServerStates, k : Nat, copied : BOOLEAN] /\ ~server'.copied
        /\ server'.at \in {"idle", "asked"}
    <3>1. server' = [at |-> "asked", k |-> 0, copied |-> FALSE] \/ server' = [at |-> "idle", k |-> 0, copied |-> FALSE]
      BY <2>1, <2>3 DEF NoRequest
    <3>2. "asked" \in ServerStates /\ "idle" \in ServerStates /\ FALSE \in BOOLEAN /\ 0 \in Nat
      BY DEF ServerStates
    <3>3. CASE server' = [at |-> "asked", k |-> 0, copied |-> FALSE]
      BY <3>2, <3>3
    <3>4. CASE server' = [at |-> "idle", k |-> 0, copied |-> FALSE]
      BY <3>2, <3>4
    <3> QED
      BY <3>1, <3>3, <3>4, Zenon
  <2>5. ServerInv'
    BY <1>1, <1>4, <2>2, <2>4 DEF ServerInv
  <2>6. SavingInv'
    <3>1. Count' = Count /\ Sources' = Sources /\ IsSingle' = IsSingle
      BY <1>1, Static
    <3>2. server.at # "merged"
      BY <2>1 DEF NoRequest
    <3> QED
      BY <1>1, <3>1, <3>2 DEF IInv, SavingInv, Stored
  <2> QED
    BY <1>2, <1>3, <2>2, <2>5, <2>6 DEF IInv
<1>9. CASE Answered
  <2>1. call.at = "wait" /\ server' = server
    BY <1>9 DEF Answered
  <2>2. CallInv' /\ (call'.at = "error" \/ (call'.at = "ok" /\ server.at \in {"merged", "failed"}))
    BY <1>6, <1>7, <1>9 DEF Answered
  <2>3. ServerInv'
    BY <1>1, <1>4, <1>5, <2>1, <2>2 DEF IInv, ServerInv, Stored
  <2>4. SavingInv'
    BY <1>1, <2>1, SavingFrame DEF IInv
  <2> QED
    BY <1>2, <1>3, <2>2, <2>3, <2>4 DEF IInv
<1> QED
  BY <1>8, <1>9

LEMMA ServerStepType ==
  ASSUME IInv, ServerStep, UNCHANGED <<req, phase, flowVars>>
  PROVE  IInv'
<1>1. /\ UNCHANGED <<dest, expired>> /\ server.at \in {"asked", "merge"}
      /\ UNCHANGED <<req, phase, done, failed, late, named, uncomposed, torn>>
      /\ call' = call \/ call' = [call EXCEPT !.warned = TRUE]
  BY DEF ServerStep, BeginMerge, CopyChunk, RemoveChunk, ServerFails, flowVars
<1>2. /\ dest = "disk" /\ call.at \in {"wait", "error"} /\ CallInv /\ req \in Requests /\ Valid
      /\ server \in [at : ServerStates, k : Nat, copied : BOOLEAN] /\ call.parts = Parts
  BY <1>1 DEF IInv, ServerInv, CallInv, FlowInv
<1>3. CallInv' /\ call'.at = call.at
  BY <1>1, <1>2, CallWarned, CallFrame
<1>4. FlowInv'
  BY <1>1, <1>2, FlowFrame DEF IInv, FlowInv
<1>5. /\ Count' = Count /\ Sources' = Sources /\ IsSingle' = IsSingle /\ Piece' = Piece
      /\ Count \in Nat /\ Parts \in Seq(Sources) /\ Len(Parts) = Count
      /\ \A k \in 1 .. Count : Parts[k] \in Sources /\ Parts[k] # Target
  <2>1. Count \in Nat
    BY <1>2, Wholes
  <2>2. Parts \in Seq(Sources) /\ Len(Parts) = Count /\ Target \notin Sources
    BY <2>1, Names
  <2>3. \A k \in 1 .. Count : Parts[k] \in Sources
    BY <2>2
  <2> QED
    BY <1>1, <2>1, <2>2, <2>3, Static
<1>6. ASSUME NEW at \in ServerStates, NEW k \in Nat, NEW copied \in BOOLEAN,
             server' = [server EXCEPT !.at = at, !.k = k, !.copied = copied]
      PROVE  server' = [at |-> at, k |-> k, copied |-> copied]
  BY <1>2, <1>6
<1>7. server.k \in Nat /\ server.copied \in BOOLEAN /\ (server.at = "asked" => ~server.copied)
  BY <1>2 DEF IInv, ServerInv
\* What the server's state is and what it needs; Target is never deleted.
<1> DEFINE Fine == /\ server' \in [at : ServerStates, k : Nat, copied : BOOLEAN]
                   /\ server'.at \in {"merge", "merged", "failed"}
                   /\ server'.at = "merge" => Count > 1 /\ server'.k \in 1 .. Count
                   /\ server'.at \in {"merge", "merged"} => Target \in DOMAIN objects'
<1>8. ASSUME Fine PROVE ServerInv'
  BY <1>1, <1>2, <1>3, <1>5, <1>8 DEF ServerInv, Stored
<1>9. ASSUME server' = [server EXCEPT !.at = "failed"] PROVE Fine
  BY <1>2, <1>9 DEF ServerStates
<1>10. CASE BeginMerge
  <2>1. server.at = "asked" /\ ~server.copied
    BY <1>7, <1>10 DEF BeginMerge
  <2>2. CASE ServerFails /\ UNCHANGED <<objects, saving>>
    <3>1. server' = [server EXCEPT !.at = "failed"]
      BY <2>2 DEF ServerFails
    <3>2. ServerInv'
      BY <1>8, <1>9, <3>1
    <3>3. ObjectInv'
      BY <1>1, <2>2, ObjectSame DEF IInv
    <3>4. SavingInv'
      <4>1. Count' = Count /\ Sources' = Sources /\ IsSingle' = IsSingle
        BY <1>5
      <4> QED
        BY <1>1, <2>1, <2>2, <4>1 DEF IInv, SavingInv, Stored
    <3> QED
      BY <1>3, <1>4, <3>2, <3>3, <3>4 DEF IInv
  <2>3. CASE /\ Len(call.parts) = 1 /\ Stored(call.parts[1])
             /\ objects' = Put(WithoutObject(call.parts[1]), Target, objects[call.parts[1]])
             /\ saving' = IF saving = call.parts[1] THEN Target ELSE saving
             /\ server' = [server EXCEPT !.at = "merged"]
    <3> DEFINE name == Parts[1]
               rest == WithoutObject(name)
               content == objects[name]
               put == Put(rest, Target, content)
    <3>1. Count = 1 /\ name \in Sources /\ name # Target /\ name # None /\ content \in Piece
      <4>1. Count = 1 /\ call.parts[1] = name /\ Stored(name)
        BY <1>2, <1>5, <2>3
      <4>2. name \in Sources /\ name # Target
        BY <1>5, <4>1
      <4>3. content \in Piece
        BY <4>1 DEF IInv, ObjectInv, Stored
      <4>4. name # None
        BY <1>5, <4>2, NotNone
      <4> QED
        BY <4>1, <4>2, <4>3, <4>4
    <3>2. objects' = put
      BY <1>2, <2>3
    <3>3. DOMAIN rest = DOMAIN objects \ {name} /\ \A n \in DOMAIN rest : rest[n] = objects[n]
      BY DEF WithoutObject, Restrict
    <3> HIDE DEF rest, content
    <3>4. DOMAIN put = DOMAIN rest \cup {Target} /\ put[Target] = content
          /\ \A n \in DOMAIN rest : n # Target => put[n] = rest[n]
      BY DEF Put
    <3> HIDE DEF put, name
    <3>5. ObjectInv'
      BY <1>5, <3>1, <3>2, <3>3, <3>4 DEF IInv, ObjectInv
    <3>6. Target \in DOMAIN objects' /\ server'.at = "merged"
      BY <1>2, <2>3, <3>2, <3>4
    <3>7. Fine
      BY <1>2, <2>3, <3>6 DEF ServerStates
    <3>8. SavingInv'
      <4>1. saving' = IF saving = name THEN Target ELSE saving
        BY <1>2, <2>3 DEF name
      <4>2. CASE saving = name
        BY <1>1, <1>2, <1>5, <2>1, <3>1, <3>2, <3>3, <3>4, <3>6, <4>1, <4>2 DEF IInv, SavingInv, Stored
      <4>3. CASE saving # name
        BY <1>1, <1>2, <1>5, <2>1, <3>1, <3>2, <3>3, <3>4, <3>6, <4>1, <4>3 DEF IInv, SavingInv, Stored
      <4> QED
        BY <4>2, <4>3
    <3> QED
      BY <1>3, <1>4, <1>8, <3>5, <3>7, <3>8 DEF IInv
  <2>4. CASE /\ Len(call.parts) > 1
             /\ objects' = With(Target, <<>>)
             /\ server' = [server EXCEPT !.at = "merge", !.k = 1]
             /\ UNCHANGED saving
    <3>1. <<>> \in Piece
      BY DEF Piece
    <3>2. ObjectInv' /\ DOMAIN objects' = DOMAIN objects \cup {Target}
      BY <1>1, <2>4, <3>1, ObjectPut DEF IInv
    <3>3. Fine
      <4>1. server'.at = "merge" /\ server'.k = 1 /\ server' \in [at : ServerStates, k : Nat, copied : BOOLEAN]
        BY <1>2, <2>4 DEF ServerStates
      <4>2. Count > 1 /\ Target \in DOMAIN objects'
        BY <1>2, <1>5, <2>4, <3>2
      <4> QED
        BY <1>5, <4>1, <4>2
    <3>4. SavingInv'
      BY <1>1, <1>5, <2>1, <2>4, <3>2 DEF IInv, SavingInv, Stored
    <3> QED
      BY <1>3, <1>4, <1>8, <3>2, <3>3, <3>4 DEF IInv
  <2> QED
    BY <1>10, <2>2, <2>3, <2>4 DEF BeginMerge
<1>11. CASE CopyChunk
  <2>1. server.at = "merge" /\ ~server.copied /\ saving' = saving
    BY <1>11 DEF CopyChunk
  <2>2. Count > 1 /\ server.k \in 1 .. Count /\ Target \in DOMAIN objects /\ objects[Target] \in Piece
    BY <2>1 DEF IInv, ServerInv, ObjectInv, Stored
  <2>3. ASSUME ObjectInv', DOMAIN objects \subseteq DOMAIN objects', Fine PROVE IInv'
    <3>1. ServerInv'
      BY <1>8, <2>3
    <3>2. SavingInv'
      BY <1>1, <1>5, <2>1, <2>3 DEF IInv, SavingInv, Stored
    <3> QED
      BY <1>3, <1>4, <2>3, <3>1, <3>2 DEF IInv
  <2> DEFINE name == call.parts[server.k]
  <2>4. CASE ServerFails /\ UNCHANGED objects
    <3>1. server' = [server EXCEPT !.at = "failed"]
      BY <2>4 DEF ServerFails
    <3>2. ObjectInv'
      BY <1>1, <2>4, ObjectSame DEF IInv
    <3> QED
      BY <1>9, <2>3, <2>4, <3>1, <3>2
  <2>5. ASSUME NEW more \in Piece, objects' = With(Target, objects[Target] \o more)
        PROVE  ObjectInv' /\ DOMAIN objects' = DOMAIN objects
    <3> DEFINE content == objects[Target] \o more
    <3>1. content \in Piece
      BY <2>2 DEF Piece
    <3> HIDE DEF content
    <3>2. objects' = With(Target, content)
      BY <2>5 DEF content
    <3>3. ObjectInv' /\ DOMAIN objects' = DOMAIN objects \cup {Target}
      BY <1>1, <3>1, <3>2, ObjectPut DEF IInv
    <3> QED
      BY <2>2, <3>3
  <2>6. CASE /\ Stored(name) /\ objects' = With(Target, objects[Target] \o objects[name])
             /\ server' = [server EXCEPT !.copied = TRUE]
    <3>1. objects[name] \in Piece
      BY <2>6 DEF IInv, ObjectInv, Stored
    <3>2. ObjectInv' /\ DOMAIN objects' = DOMAIN objects
      BY <2>5, <2>6, <3>1
    <3>3. Fine
      BY <1>2, <2>1, <2>2, <2>6, <3>2
    <3> QED
      BY <2>3, <3>2, <3>3
  <2>7. CASE /\ Stored(name) /\ ServerFails
             /\ \E n \in 1 .. Len(objects[name]) :
                  objects' = With(Target, objects[Target] \o SubSeq(objects[name], 1, n))
    <3>1. PICK n \in 1 .. Len(objects[name]) : objects' = With(Target, objects[Target] \o SubSeq(objects[name], 1, n))
      BY <2>7
    <3>2. objects[name] \in Piece
      BY <2>7 DEF IInv, ObjectInv, Stored
    <3>3. SubSeq(objects[name], 1, n) \in Piece
      <4> DEFINE content == objects[name]
      <4>1. n \in 1 .. Len(content) /\ content \in Piece
        BY <3>1, <3>2
      <4> HIDE DEF content
      <4>2. n \in 0 .. Len(content)
        BY <4>1
      <4>3. SubSeq(content, 1, n) \in Piece
        BY <4>1, <4>2, Beginning DEF Piece
      <4> QED
        BY <4>3 DEF content
    <3>4. ObjectInv' /\ DOMAIN objects' = DOMAIN objects
      BY <2>5, <3>1, <3>3
    <3>5. server' = [server EXCEPT !.at = "failed"]
      BY <2>7 DEF ServerFails
    <3> QED
      BY <1>9, <2>3, <3>4, <3>5
  <2> QED
    BY <1>11, <2>4, <2>6, <2>7 DEF CopyChunk
<1>12. CASE RemoveChunk
  <2> DEFINE name == Parts[server.k]
  <2>1. /\ server.at = "merge"
        /\ \/ /\ objects' = WithoutObject(name)
              /\ saving' = IF saving = name THEN None ELSE saving
           \/ UNCHANGED <<objects, saving>>
        /\ server' = IF server.k < Len(Parts)
                     THEN [server EXCEPT !.k = @ + 1, !.copied = FALSE]
                     ELSE [server EXCEPT !.at = "merged"]
    BY <1>2, <1>12 DEF RemoveChunk
  <2>2. Count > 1 /\ server.k \in 1 .. Count /\ Target \in DOMAIN objects /\ name # Target
    BY <1>5, <2>1 DEF IInv, ServerInv, Stored
  <2> HIDE DEF name
  <2>3. WithoutObject(name) = [n \in DOMAIN objects \ {name} |-> objects[n]]
    BY DEF WithoutObject, Restrict
  <2>4. ObjectInv' /\ Target \in DOMAIN objects'
    BY <1>1, <2>1, <2>2, <2>3, ObjectSame, ObjectRemove DEF IInv
  <2>5. Fine
    <3>1. CASE server.k < Len(Parts)
      <4>1. server' = [server EXCEPT !.k = server.k + 1, !.copied = FALSE]
        BY <1>2, <2>1, <3>1
      <4>2. server'.at = "merge" /\ server'.k = server.k + 1
            /\ server' \in [at : ServerStates, k : Nat, copied : BOOLEAN]
        <5> DEFINE k == server.k + 1
        <5>1. k \in Nat
          BY <1>7
        <5>2. server' = [server EXCEPT !.k = k, !.copied = FALSE]
          BY <4>1
        <5> HIDE DEF k
        <5>3. server'.at = "merge" /\ server'.k = k /\ server' \in [at : ServerStates, k : Nat, copied : BOOLEAN]
          BY <1>2, <2>1, <5>1, <5>2
        <5> QED
          BY <5>3 DEF k
      <4> QED
        BY <1>5, <2>2, <2>4, <3>1, <4>2
    <3>2. CASE ~(server.k < Len(Parts))
      <4>1. server' = [server EXCEPT !.at = "merged"]
        BY <2>1, <3>2
      <4> QED
        BY <1>2, <2>4, <4>1 DEF ServerStates
    <3> QED
      BY <3>1, <3>2
  <2>6. SavingInv'
    <3>1. saving # None => saving # Target
      BY <2>1 DEF IInv, SavingInv
    <3>2. CASE objects' = objects /\ saving' = saving
      BY <1>1, <1>5, <3>1, <3>2 DEF IInv, SavingInv, Stored
    <3>3. CASE objects' = WithoutObject(name) /\ saving' = IF saving = name THEN None ELSE saving
      <4>1. saving' # None => saving' = saving /\ saving # name
        BY <3>3
      <4>2. DOMAIN objects' = DOMAIN objects \ {name}
        BY <2>3, <3>3
      <4> QED
        BY <1>1, <1>5, <3>1, <4>1, <4>2 DEF IInv, SavingInv, Stored
    <3> QED
      BY <2>1, <3>2, <3>3
  <2> QED
    BY <1>3, <1>4, <1>8, <2>4, <2>5, <2>6 DEF IInv
<1> QED
  BY <1>10, <1>11, <1>12 DEF ServerStep

-----------------------------------------------------------------------------
(* The transfer is well-typed: the acknowledged are chunks or VMs of the   *)
(* request, what is at the destination are pieces of the file, there is no *)
(* call before every upload is acknowledged, a group that is being         *)
(* composed has a member, and a chunk being written has a name.            *)
LEMMA NextType == IInv /\ [Next]_vars => IInv'
<1> SUFFICES ASSUME IInv, [Next]_vars PROVE IInv'
  OBVIOUS
<1>1. ASSUME NEW i \in DOMAIN Chunks, UploadChunk(i) \/ LateAttempt(i) PROVE IInv'
  BY <1>1, ChunkStep, LateStep
<1>2. ASSUME NEW i \in 1 .. N, UploadShare(i) PROVE IInv'
  BY <1>2, ShareStep
<1>3. CASE Composing
  <2>1. UNCHANGED <<req, phase, flowVars>> /\ ComposeStep
    BY <1>3 DEF Composing
  <2> QED
    BY <2>1, ComposeGroupStep, ReadPartStep, PutTempStep, CopyFinalStep, DeleteStep, PostStep
       DEF ComposeStep
<1>4. CASE Merging
  BY <1>4, ServerStepType DEF Merging
<1>5. CASE UNCHANGED vars
  <2>1. UNCHANGED <<req, dest, phase, done, failed, late, named, uncomposed, torn>>
        /\ UNCHANGED <<expired, objects, call, server, saving>>
    BY <1>5 DEF vars, composeVars, flowVars
  <2>2. FlowInv'
    BY <2>1, FlowFrame DEF IInv, FlowInv
  <2> QED
    BY <2>1, <2>2, PhaseStep
<1> QED
  BY <1>1, <1>2, <1>3, <1>4, <1>5, StartStep, SaveStep, FinishChunksStep, FinishSharesStep, TimeoutStep
     DEF Next

LEMMA TypeFollows == IInv => TypeOK
<1> SUFFICES ASSUME IInv PROVE TypeOK
  OBVIOUS
<1>1. call.warned \in BOOLEAN /\ call.at \in CallStates
  BY DEF IInv, CallInv, CallRecord
<1>2. done \subseteq (IF req.mode = "single" THEN DOMAIN Chunks ELSE Tasks)
  BY DEF IInv, FlowInv, All, IsSingle
<1>3. \A name \in DOMAIN objects : objects[name] \in Seq(0 .. (req.size - 1))
  BY DEF IInv, ObjectInv, Piece
<1>4. server.at \in ServerStates
  BY DEF IInv, ServerInv
<1>5. /\ call.at = "group" => call.i < Len(call.current)
      /\ saving # None => Stored(saving)
  BY DEF IInv, CallInv, SavingInv
<1>6. /\ req \in Requests /\ dest = req.dest
      /\ phase \in {"start", "upload", "compose", "ok", "error"}
      /\ phase \in {"start", "upload"} => call = Idle
      /\ failed \in BOOLEAN /\ uncomposed \in BOOLEAN /\ torn \in BOOLEAN /\ expired \in BOOLEAN
      /\ late \in 0 .. MaxLate /\ named \in {"none", "file_name", "new_file_name"}
  BY DEF IInv, FlowInv
<1>7. {failed, uncomposed, torn, expired, call.warned} \subseteq BOOLEAN
  BY <1>1, <1>6
<1> QED
  BY <1>1, <1>2, <1>3, <1>4, <1>5, <1>6, <1>7, Zenon DEF TypeOK, CallStates, ServerStates

THEOREM TypeCorrect == Spec => []TypeOK
BY InitType, NextType, TypeFollows, PTL DEF Spec

-----------------------------------------------------------------------------
(* What may be left behind.                                                *)

Quiet == late = 0 /\ ~call.warned

LitterInv ==
  /\ phase = "ok" /\ ~IsSingle => \/ call.at = "ok"
                                  \/ call = Idle /\ N = 1 /\ done = Tasks /\ ~failed
  /\ call = Idle => DOMAIN objects \subseteq Sources
  /\ call = Idle /\ ~IsSingle /\ ~failed /\ ~uncomposed => \A i \in done : Stored(Share(i))
  /\ call.at \in {"group", "copy"} => DOMAIN objects \subseteq Sources \cup Range(call.temps)
  /\ call.at \in {"final", "clean"} => Stored(Target)
  /\ call.at = "final" /\ Quiet => DOMAIN objects \subseteq {Target, call.current[1]} \cup Range(call.doomed)
  /\ call.at = "clean" /\ Quiet => DOMAIN objects \subseteq {Target} \cup Range(call.doomed)
  /\ call.at = "ok" /\ dest # "disk" /\ Quiet => DOMAIN objects = {Target}
  /\ dest = "disk" /\ server.at \in {"idle", "asked"} => DOMAIN objects \subseteq Sources
  /\ server.at = "merge" /\ Quiet =>
       DOMAIN objects \subseteq {Target} \cup {Parts[j] : j \in server.k .. Count}
  /\ server.at = "merged" /\ Quiet => DOMAIN objects = {Target}

LEMMA LitterFrame ==
  ASSUME LitterInv, UNCHANGED <<req, dest, call, server, done, failed, uncomposed, late>>,
         DOMAIN objects' = DOMAIN objects,
         phase' = "ok" /\ ~IsSingle => \/ phase = "ok" \/ call.at = "ok"
                                       \/ call = Idle /\ N = 1 /\ done = Tasks /\ ~failed
  PROVE  LitterInv'
<1>1. Count' = Count /\ Sources' = Sources /\ IsSingle' = IsSingle /\ Parts' = Parts /\ N' = N /\ Tasks' = Tasks
  BY Static
<1> QED
  BY <1>1 DEF LitterInv, Quiet, Stored

LEMMA LitterInit == Init => LitterInv
<1> SUFFICES ASSUME Init PROVE LitterInv
  OBVIOUS
<1>1. phase = "start" /\ call = Idle /\ server = NoRequest /\ objects = <<>> /\ done = {}
  BY DEF Init, InitCompose
<1>2. call.at = "idle" /\ server.at = "idle" /\ DOMAIN objects = {}
  BY <1>1 DEF Idle, NoRequest
<1> QED
  BY <1>1, <1>2 DEF LitterInv

\* The steps of the request itself, and of an upload.
LEMMA LitterFlow ==
  ASSUME IInv, LitterInv, StartSingle \/ StartLarge \/ Timeout \/ ContextDone \/ EndCompose \/ EndSave
  PROVE  LitterInv'
<1>1. /\ UNCHANGED <<req, dest, call, server, done, failed, uncomposed, late>>
      /\ phase' = "ok" /\ ~IsSingle => phase = "ok" \/ call.at = "ok"
  BY DEF StartSingle, StartLarge, Timeout, SingleTimeout, LargeTimeout, ContextDone, EndCompose, EndSingle, EndLarge,
         EndSave, Refuse, Expire, IsSingle, composeVars, flowVars
<1>2. DOMAIN objects' = DOMAIN objects
  <2>1. CASE EndSave
    <3>1. saving # None /\ \E c : objects' = With(saving, c)
      BY <2>1 DEF EndSave
    <3>2. saving \in DOMAIN objects
      BY <3>1 DEF IInv, SavingInv, Stored
    <3>3. PICK c : objects' = With(saving, c)
      BY <3>1
    <3>4. DOMAIN With(saving, c) = DOMAIN objects \cup {saving}
      BY DEF With, Put
    <3> QED
      BY <3>2, <3>3, <3>4
  <2>2. CASE StartSingle \/ StartLarge \/ Timeout \/ ContextDone \/ EndCompose
    BY <2>2 DEF StartSingle, StartLarge, Timeout, SingleTimeout, LargeTimeout, ContextDone,
                EndCompose, EndSingle, EndLarge, Refuse, Expire, composeVars
  <2> QED
    BY <2>1, <2>2
<1> QED
  BY <1>1, <1>2, LitterFrame

LEMMA LitterChunk ==
  ASSUME IInv, LitterInv, NEW i \in DOMAIN Chunks, UploadChunk(i)
  PROVE  LitterInv'
<1>1. /\ phase = "upload" /\ phase' = phase /\ IsSingle /\ req \in Requests /\ call = Idle
      /\ UNCHANGED <<dest, call, server, req, late>>
  BY DEF UploadChunk, IsSingle, IInv, FlowInv
<1>2. Part(i) \in Sources /\ \A c \in ReadsOf(i) : c \in Piece
  BY <1>1, ChunkName
<1>3a. PICK content \in ReadsOf(i) : \E o \in UploadFile(content, Chunks[i].size) : Store(Part(i), o.stored)
  BY DEF UploadChunk
<1>3. PICK o \in UploadFile(content, Chunks[i].size) : Store(Part(i), o.stored)
  BY <1>3a
<1>4. o.stored = None \/ o.stored \in Piece
  BY <1>2, <1>3, Uploaded DEF IInv
<1>5. DOMAIN objects' \subseteq DOMAIN objects \cup {Part(i)}
  BY <1>1, <1>2, <1>3, <1>4, Storing DEF IInv
<1>6. DOMAIN objects' \subseteq Sources
  BY <1>1, <1>2, <1>5 DEF LitterInv
<1>7. Sources' = Sources /\ IsSingle' = IsSingle
  BY <1>1, Static
<1>8. call'.at = "idle" /\ server'.at = "idle"
  <2>1. call.at = "idle"
    BY <1>1 DEF Idle
  <2>2. server.at = "idle"
    BY <2>1 DEF IInv, ServerInv, NoRequest
  <2> QED
    BY <1>1, <2>1, <2>2
<1> QED
  BY <1>1, <1>6, <1>7, <1>8 DEF LitterInv

LEMMA LitterLate ==
  ASSUME IInv, LitterInv, NEW i \in DOMAIN Chunks, LateAttempt(i)
  PROVE  LitterInv'
<1>1. /\ IsSingle /\ req \in Requests
      /\ UNCHANGED <<dest, call, server, req, phase, done, failed, uncomposed>>
      /\ late' = late + 1
  BY DEF LateAttempt, IsSingle, IInv, FlowInv
<1>2. Part(i) \in Sources /\ \A c \in ReadsOf(i) : c \in Piece
  BY <1>1, ChunkName
<1>3. DOMAIN objects \subseteq DOMAIN objects' /\ DOMAIN objects' \subseteq DOMAIN objects \cup {Part(i)}
  <2>1. CASE dest = "disk"
    <3>1. objects' = With(Part(i), <<>>)
      BY <2>1 DEF LateAttempt
    <3>2. DOMAIN With(Part(i), <<>>) = DOMAIN objects \cup {Part(i)}
      BY DEF With, Put
    <3> QED
      BY <3>1, <3>2
  <2>2. CASE dest # "disk"
    <3>0. PICK content \in ReadsOf(i) : \E o \in UploadFile(content, Chunks[i].size) : Store(Part(i), o.stored)
      BY <2>2 DEF LateAttempt
    <3>1. PICK o \in UploadFile(content, Chunks[i].size) : Store(Part(i), o.stored)
      BY <3>0
    <3>2. o.stored = None \/ o.stored \in Piece
      BY <1>2, <3>1, Uploaded DEF IInv
    <3> QED
      BY <1>1, <1>2, <3>1, <3>2, Storing DEF IInv
  <2> QED
    BY <2>1, <2>2
<1>4. ~(Quiet')
  BY <1>1 DEF Quiet, IInv, FlowInv
<1>5. Sources' = Sources /\ IsSingle' = IsSingle
  BY <1>1, Static
<1> QED
  BY <1>1, <1>2, <1>3, <1>4, <1>5 DEF LitterInv, Stored

LEMMA LitterShare ==
  ASSUME IInv, LitterInv, NEW i \in 1 .. N, UploadShare(i)
  PROVE  LitterInv'
<1> DEFINE reads == RangeReads(req.source, req.size, ShareStart(i), ShareLength(i), FALSE)
<1>1. /\ phase = "upload" /\ ~IsSingle /\ done' = done \cup {i} /\ req \in Requests /\ call = Idle /\ Valid
      /\ UNCHANGED <<dest, call, server, req, phase, late>>
  BY RequestsAssumption DEF UploadShare, IsSingle, IInv, FlowInv
<1>2. Share(i) \in Sources /\ \A c \in reads : c # None
  <2>1. Count = N /\ Count \in Nat
    BY <1>1, Wholes DEF Count
  <2>2. Parts[i] = Share(i) /\ Parts[i] \in Sources
    BY <1>1, <2>1, Names DEF Sources
  <2>3. \A c \in reads : c \in Piece
    <3>1. ShareStart(i) \in Nat /\ ShareLength(i) \in Int
      BY <1>1, Shares
    <3>2. req.source \in SourceKinds /\ req.size \in Nat
      BY <1>1, Request0
    <3> QED
      BY <3>1, <3>2, RangeReadsType DEF Piece
  <2> QED
    BY <2>1, <2>2, <2>3, NotNone
<1>3. call'.at = "idle" /\ server'.at = "idle"
  <2>1. call.at = "idle"
    BY <1>1 DEF Idle
  <2>2. server.at = "idle"
    BY <2>1 DEF IInv, ServerInv, NoRequest
  <2> QED
    BY <1>1, <2>1, <2>2
<1>4. \A c : DOMAIN With(Share(i), c) = DOMAIN objects \cup {Share(i)}
  BY DEF With, Put
<1>5. DOMAIN objects \subseteq DOMAIN objects' /\ DOMAIN objects' \subseteq DOMAIN objects \cup {Share(i)}
  <2>1. \/ objects' = objects
        \/ \E c : objects' = IF c = None THEN objects ELSE With(Share(i), c)
    BY DEF UploadShare, Store
  <2> QED
    BY <1>4, <2>1
<1>6. ~failed' /\ ~uncomposed' => ~failed /\ ~uncomposed /\ Share(i) \in DOMAIN objects'
  <2> SUFFICES ASSUME ~failed', ~uncomposed' PROVE ~failed /\ ~uncomposed /\ Share(i) \in DOMAIN objects'
    OBVIOUS
  <2>1. UNCHANGED <<failed, uncomposed>> /\ \E c \in reads : Store(Share(i), c)
    BY DEF UploadShare
  <2> HIDE DEF reads
  <2>2. \E c : objects' = With(Share(i), c)
    BY <1>2, <2>1 DEF Store
  <2> QED
    BY <1>4, <2>1, <2>2
<1>7. Sources' = Sources /\ IsSingle' = IsSingle
  BY <1>1, Static
<1>8. DOMAIN objects' \subseteq Sources
  BY <1>1, <1>2, <1>5 DEF LitterInv
<1>9. ~IsSingle /\ ~failed' /\ ~uncomposed' => \A j \in done' : Share(j) \in DOMAIN objects'
  BY <1>1, <1>5, <1>6 DEF LitterInv, Stored
<1> QED
  BY <1>1, <1>3, <1>7, <1>8, <1>9 DEF LitterInv, Stored

LEMMA LitterBegin ==
  ASSUME IInv, LitterInv, phase = "upload", BeginCompose(Parts), phase' = "compose", req' = req
  PROVE  LitterInv'
<1>1. UNCHANGED <<dest, objects, server>> /\ call = Idle
  BY DEF BeginCompose, IInv, FlowInv
<1>2. /\ call'.at \in {"post", "copy", "group", "error"}
      /\ call'.temps = <<>>
  BY <1>1 DEF BeginCompose, Idle, Failed
<1>3. call' # Idle
  BY <1>2 DEF Idle
<1>4. DOMAIN objects \subseteq Sources
  BY <1>1 DEF LitterInv
<1>5. server.at = "idle"
  BY <1>1 DEF IInv, ServerInv, NoRequest, Idle
<1>6. Sources' = Sources
  BY Static
<1>7. call'.at \in {"group", "copy"} => DOMAIN objects' \subseteq Sources' \cup Range(call'.temps)
  BY <1>1, <1>4, <1>6
<1>8. call'.at \notin {"final", "clean", "ok"}
  BY <1>2
<1> QED
  BY <1>1, <1>3, <1>4, <1>5, <1>6, <1>7, <1>8 DEF LitterInv

LEMMA LitterFinish ==
  ASSUME IInv, LitterInv, FinishChunks \/ FinishShares
  PROVE  LitterInv'
<1>1. phase = "upload" /\ UNCHANGED <<req, done, failed, late, uncomposed, torn>> /\ req \in Requests
  BY DEF FinishChunks, FinishShares, IInv, FlowInv
<1>2. CASE FinishChunks
  <2>1. IsSingle /\ done = DOMAIN Chunks /\ BeginCompose(SortPartStrings(done)) /\ phase' = "compose"
    BY <1>2 DEF FinishChunks, IsSingle
  <2>2. Count \in Nat /\ DOMAIN Chunks = 1 .. Count
    BY <1>1, <2>1, Wholes
  <2>3. SortPartStrings(done) = Parts
    BY <2>1, <2>2, Sorted
  <2> QED
    BY <1>1, <2>1, <2>3, LitterBegin
<1>3. CASE FinishShares
  <2>0. ~IsSingle /\ done = Tasks
    BY <1>3 DEF FinishShares, IsSingle
  <2>1. CASE ~failed /\ N > 1
    <3>1. BeginCompose([i \in 1 .. N |-> Share(i)]) /\ phase' = "compose"
      BY <1>3, <2>1 DEF FinishShares
    <3>2. Parts = [i \in 1 .. N |-> Share(i)]
      BY <2>0 DEF Parts, Count
    <3> QED
      BY <1>1, <3>1, <3>2, LitterBegin
  <2>2. CASE ~(~failed /\ N > 1)
    <3>1. UNCHANGED composeVars /\ phase' = (IF failed THEN "error" ELSE "ok")
      BY <1>3, <2>2 DEF FinishShares
    <3>2. UNCHANGED <<req, dest, call, server, done, failed, uncomposed, late, objects>>
      BY <1>1, <3>1 DEF composeVars
    <3>3. Valid /\ call = Idle
      BY <1>1 DEF IInv, FlowInv
    <3>4. N \in Nat /\ N > 0
      BY <1>1, <2>0, <3>3, Request0 DEF Valid
    <3>5. phase' = "ok" => ~failed /\ N = 1
      BY <2>2, <3>1, <3>4
    <3> QED
      BY <2>0, <3>2, <3>3, <3>5, LitterFrame
  <2> QED
    BY <2>1, <2>2
<1> QED
  BY <1>2, <1>3

LEMMA AppendRange ==
  ASSUME NEW R, NEW s \in Seq(R), NEW e \in R
  PROVE  Range(Append(s, e)) = Range(s) \cup {e}
<1>1. Append(s, e) = s \o <<e>> /\ <<e>> \in Seq(R)
  OBVIOUS
<1>2. Range(s \o <<e>>) = Range(s) \cup Range(<<e>>)
  BY <1>1, RangeConcatenation, ZenonT(40)
<1>3. Range(<<e>>) = {e}
  BY DEF Range
<1> QED
  BY <1>1, <1>2, <1>3

LEMMA TailRange ==
  ASSUME NEW R, NEW s \in Seq(R), s # <<>>
  PROVE  /\ Head(s) \in R /\ Tail(s) \in Seq(R)
         /\ Range(s) \subseteq {Head(s)} \cup Range(Tail(s))
<1>1. Tail(s) \in Seq(R) /\ Len(Tail(s)) = Len(s) - 1 /\ \A i \in 1 .. (Len(s) - 1) : Tail(s)[i] = s[i + 1]
  OBVIOUS
<1>2. Head(s) = s[1] /\ s[1] \in R /\ Len(s) \in Nat
  OBVIOUS
<1>3. ASSUME NEW x \in Range(s) PROVE x \in {Head(s)} \cup Range(Tail(s))
  <2>1. PICK j \in 1 .. Len(s) : x = s[j]
    BY <1>3, RangeEquality
  <2>2. CASE j = 1
    BY <1>2, <2>1, <2>2
  <2>3. CASE j # 1
    <3>1. j - 1 \in 1 .. Len(Tail(s)) /\ Tail(s)[j - 1] = x
      <4>1. j - 1 \in 1 .. (Len(s) - 1) /\ (j - 1) + 1 = j
        BY <1>2, <2>1, <2>3
      <4> QED
        BY <1>1, <2>1, <4>1
    <3> QED
      BY <1>1, <3>1, RangeEquality
  <2> QED
    BY <2>2, <2>3
<1> QED
  BY <1>1, <1>2, <1>3

LEMMA LitterTree ==
  ASSUME IInv, LitterInv, call.at \in {"group", "copy", "final", "clean"},
         UNCHANGED <<req, dest, server, phase, late>>, call'.at \notin {"idle", "post", "wait"},
         call'.at \in {"group", "copy"} => DOMAIN objects' \subseteq Sources \cup Range(call'.temps),
         call'.at \in {"final", "clean"} => Target \in DOMAIN objects',
         call'.at = "final" /\ Quiet' =>
           DOMAIN objects' \subseteq {Target, call'.current[1]} \cup Range(call'.doomed),
         call'.at = "clean" /\ Quiet' => DOMAIN objects' \subseteq {Target} \cup Range(call'.doomed),
         call'.at = "ok" /\ Quiet' => DOMAIN objects' = {Target}
  PROVE  LitterInv'
<1>1. dest # "disk" /\ server.at = "idle" /\ server'.at = "idle"
  <2>1. dest # "disk"
    BY DEF IInv, CallInv
  <2> QED
    BY <2>1 DEF IInv, ServerInv
<1>2. phase = "ok" => IsSingle
  BY DEF LitterInv, Idle
<1>3. call' # Idle
  BY DEF Idle
<1>4. Sources' = Sources /\ IsSingle' = IsSingle
  BY Static
<1> QED
  BY <1>1, <1>2, <1>3, <1>4 DEF LitterInv, Stored

LEMMA LitterFails ==
  ASSUME IInv, LitterInv, call.at \in {"group", "copy", "final", "clean"}, call' = Failed,
         UNCHANGED <<req, dest, server, phase, late>>
  PROVE  LitterInv'
<1>1. call'.at = "error"
  BY DEF Failed, IInv, CallInv, CallRecord
<1> QED
  BY <1>1, LitterTree

LEMMA LitterGroup ==
  ASSUME IInv, LitterInv, ComposeGroup \/ ReadPart \/ PutTemp, UNCHANGED <<req, phase, flowVars>>
  PROVE  LitterInv'
<1>1. call.at = "group" /\ UNCHANGED <<req, dest, server, phase, late>>
  BY DEF ComposeGroup, ReadPart, PutTemp, flowVars
<1>2. CASE call' = Failed
  BY <1>1, <1>2, LitterFails
<1>3. CASE ReadPart /\ call' # Failed
  <2>1. PICK more : call' = [call EXCEPT !.read = @ + 1, !.local = @ \o more]
    BY <1>3 DEF ReadPart
  <2>2. objects' = objects
    BY <1>3 DEF ReadPart
  <2>3. call'.at = "group" /\ call'.temps = call.temps
    BY <1>1, <2>1 DEF IInv, CallInv, CallRecord
  <2> QED
    BY <1>1, <2>2, <2>3, LitterTree DEF LitterInv
<1>4. CASE /\ call' = AfterGroup(call)
           /\ \E content : objects' = With(Temp(call.level, call.i), content)
  <2>1. PICK content : objects' = With(Temp(call.level, call.i), content)
    BY <1>4
  <2>2. DOMAIN objects' = DOMAIN objects \cup {Temp(call.level, call.i)}
    BY <2>1 DEF With, Put
  <2>3. /\ call'.at \in {"group", "copy"}
        /\ call'.temps = Append(call.temps, Temp(call.level, call.i)) /\ Temp(call.level, call.i) \in Temps
    BY <1>1, <1>4, GroupDone DEF IInv
  <2>4. call.temps \in Seq(Temps)
    BY DEF IInv, CallInv, CallRecord
  <2>5. Range(call'.temps) = Range(call.temps) \cup {Temp(call.level, call.i)}
    BY <2>3, <2>4, AppendRange
  <2>6. DOMAIN objects \subseteq Sources \cup Range(call.temps)
    BY <1>1 DEF LitterInv
  <2>7. DOMAIN objects' \subseteq Sources \cup Range(call'.temps)
    BY <2>2, <2>5, <2>6
  <2> QED
    BY <1>1, <2>3, <2>7, LitterTree
<1> QED
  BY <1>2, <1>3, <1>4 DEF ComposeGroup, PutTemp, Request

LEMMA LitterCopy ==
  ASSUME IInv, LitterInv, CopyFinal, UNCHANGED <<req, phase, flowVars>>
  PROVE  LitterInv'
<1>1. call.at = "copy" /\ UNCHANGED <<req, dest, server, phase, late>>
  BY DEF CopyFinal, flowVars
<1>2. CASE call' = Failed
  BY <1>1, <1>2, LitterFails
<1> DEFINE at == IF dest = "gcs" /\ Len(call.parts) > 1 THEN "final" ELSE "clean"
<1>3. CASE /\ \E content : objects' = With(Target, content)
           /\ call' = [call EXCEPT !.at = at, !.doomed = ToDelete]
  <2>1. PICK content : objects' = With(Target, content)
    BY <1>3
  <2>2. DOMAIN objects' = DOMAIN objects \cup {Target}
    BY <2>1 DEF With, Put
  <2>3. call'.at = at /\ call'.doomed = ToDelete /\ call'.current = call.current
    BY <1>3 DEF IInv, CallInv, CallRecord
  <2>4. /\ req \in Requests /\ Valid /\ dest \in {"s3", "gcs"} /\ call.parts = Parts
        /\ Count = 1 => call.temps = <<>>
    BY <1>1, RequestsAssumption, DestAssumption DEF IInv, FlowInv, CallInv
  <2>5. Count \in Nat /\ Count >= 1
    BY <2>4, Wholes
  <2>6. Len(Parts) = Count
    BY <2>5, Names
  <2>7. /\ Sources \subseteq Range(ToDelete)
        /\ Count > 1 => \A t \in Range(call.temps) \ {call.current[1]} : t \in Range(ToDelete)
        /\ dest = "s3" /\ Count > 1 => call.current[1] \in Range(ToDelete)
    BY <1>1, <2>5, Doomed DEF IInv
  <2>8. DOMAIN objects \subseteq Sources \cup Range(call.temps)
    BY <1>1 DEF LitterInv
  <2>9. Count = 1 => Range(call.temps) = {}
    BY <2>4 DEF Range
  <2>10. DOMAIN objects' \subseteq {Target, call.current[1]} \cup Range(ToDelete)
    BY <2>2, <2>5, <2>7, <2>8, <2>9
  <2>11. at = "clean" => DOMAIN objects' \subseteq {Target} \cup Range(ToDelete)
    <3> SUFFICES ASSUME at = "clean" PROVE DOMAIN objects' \subseteq {Target} \cup Range(ToDelete)
      OBVIOUS
    <3>1. Count = 1 \/ (dest = "s3" /\ Count > 1)
      BY <2>4, <2>5, <2>6
    <3> QED
      BY <2>2, <2>5, <2>7, <2>8, <2>9, <3>1
  <2>12. at \in {"final", "clean"}
    OBVIOUS
  <2> HIDE DEF at
  <2> QED
    BY <1>1, <2>2, <2>3, <2>10, <2>11, <2>12, LitterTree
<1> QED
  BY <1>1, <1>2, <1>3 DEF CopyFinal, Request

LEMMA LitterDelete ==
  ASSUME IInv, LitterInv, DeleteFinalTemp \/ DeleteOne \/ EndClean, UNCHANGED <<req, phase, flowVars>>
  PROVE  LitterInv'
<1>1. call.at \in {"final", "clean"} /\ UNCHANGED <<req, dest, server, phase, late>>
  BY DEF DeleteFinalTemp, DeleteOne, EndClean, flowVars
<1>2. call \in CallRecord /\ req \in Requests /\ Target \in DOMAIN objects
  BY <1>1 DEF IInv, CallInv, FlowInv, LitterInv, Stored
<1>3. \A n : DOMAIN WithoutObject(n) = DOMAIN objects \ {n}
  BY DEF WithoutObject, Restrict
<1>4. Target \notin Sources \cup Temps
  <2>1. Count \in Nat
    BY <1>2, Wholes
  <2> QED
    BY <2>1, Names
<1>5. CASE call' = Failed
  BY <1>1, <1>5, LitterFails
<1>6. CASE EndClean
  <2>1. call.at = "clean" /\ call.doomed = <<>> /\ call' = [call EXCEPT !.at = "ok"] /\ objects' = objects
    BY <1>6 DEF EndClean
  <2>2. call'.at = "ok" /\ call'.warned = call.warned
    BY <1>2, <2>1 DEF CallRecord
  <2>3. Quiet' => Quiet
    BY <1>1, <2>2 DEF Quiet
  <2>4. Range(call.doomed) = {}
    BY <2>1 DEF Range
  <2>5. Quiet => DOMAIN objects' = {Target}
    BY <1>2, <2>1, <2>4 DEF LitterInv
  <2> QED
    BY <1>1, <2>2, <2>3, <2>5, LitterTree
<1>7. CASE DeleteFinalTemp /\ call' # Failed
  <2>1. /\ call.at = "final" /\ objects' = WithoutObject(call.current[1])
        /\ call' = [call EXCEPT !.at = "clean"]
    BY <1>7 DEF DeleteFinalTemp, Request
  <2>2. call'.at = "clean" /\ call'.warned = call.warned /\ call'.doomed = call.doomed
    BY <1>2, <2>1 DEF CallRecord
  <2>3. Quiet' => Quiet
    BY <1>1, <2>2 DEF Quiet
  <2>4. call.current[1] \in Sources \cup Temps
    <3>1. call.current \in Seq(Sources \cup Temps) /\ Len(call.current) = 1
      BY <1>2, <2>1 DEF IInv, CallInv, CallRecord
    <3> QED
      BY <3>1
  <2>5. DOMAIN objects' = DOMAIN objects \ {call.current[1]}
    BY <1>3, <2>1
  <2>6. Quiet => DOMAIN objects \subseteq {Target, call.current[1]} \cup Range(call.doomed)
    BY <2>1 DEF LitterInv
  <2> QED
    BY <1>1, <1>2, <1>4, <2>2, <2>3, <2>4, <2>5, <2>6, LitterTree
<1>8. CASE DeleteOne
  <2>1. call.at = "clean" /\ call.doomed # <<>>
    BY <1>8 DEF DeleteOne
  <2> DEFINE rest == [call EXCEPT !.doomed = Tail(@)]
             warned == [rest EXCEPT !.warned = TRUE]
  <2>2. /\ rest.at = "clean" /\ rest.doomed = Tail(call.doomed) /\ rest.warned = call.warned
        /\ warned.at = "clean" /\ warned.doomed = Tail(call.doomed) /\ warned.warned = TRUE
    BY <1>2, <2>1 DEF CallRecord
  <2>3. \/ objects' = WithoutObject(Head(call.doomed)) /\ call' \in {rest, warned}
        \/ objects' = objects /\ call' = warned
    BY <1>8 DEF DeleteOne, Request
  <2> HIDE DEF rest, warned
  <2>4. call'.at = "clean" /\ call'.doomed = Tail(call.doomed)
    BY <2>2, <2>3
  <2>5. call.doomed \in Seq(Sources \cup Temps)
    BY <1>2 DEF CallRecord
  <2>6. /\ Head(call.doomed) \in Sources \cup Temps
        /\ Range(call.doomed) \subseteq {Head(call.doomed)} \cup Range(Tail(call.doomed))
    BY <2>1, <2>5, TailRange
  <2>7. Target \in DOMAIN objects'
    BY <1>2, <1>3, <1>4, <2>3, <2>6
  <2>8. Quiet' => Quiet /\ DOMAIN objects' = DOMAIN objects \ {Head(call.doomed)}
    <3> SUFFICES ASSUME Quiet' PROVE Quiet /\ DOMAIN objects' = DOMAIN objects \ {Head(call.doomed)}
      OBVIOUS
    <3>1. late = 0 /\ call'.warned = FALSE
      <4>1. call' = rest \/ call' = warned
        BY <2>3
      <4>2. call'.warned \in BOOLEAN
        BY <1>2, <2>2, <4>1 DEF CallRecord
      <4> QED
        BY <1>1, <4>2 DEF Quiet
    <3>2. call' = rest /\ call' # warned
      BY <2>2, <2>3, <3>1
    <3>3. call.warned = FALSE
      BY <2>2, <3>1, <3>2
    <3> QED
      BY <1>3, <2>3, <3>1, <3>2, <3>3 DEF Quiet
  <2>9. Quiet => DOMAIN objects \subseteq {Target} \cup Range(call.doomed)
    BY <2>1 DEF LitterInv
  <2> QED
    BY <1>1, <2>4, <2>6, <2>7, <2>8, <2>9, LitterTree
<1> QED
  BY <1>5, <1>6, <1>7, <1>8

LEMMA LitterPost ==
  ASSUME IInv, LitterInv, PostMerge \/ Answered, UNCHANGED <<req, phase, flowVars>>
  PROVE  LitterInv'
<1>1. /\ call.at \in {"post", "wait"} /\ UNCHANGED <<req, dest, objects, phase, late>>
      /\ call \in CallRecord /\ dest = "disk"
  BY DEF PostMerge, Answered, flowVars, IInv, CallInv
<1>2. phase = "ok" => IsSingle
  BY <1>1 DEF LitterInv, Idle
<1>3. call'.at \in {"wait", "ok", "error"}
  BY <1>1 DEF PostMerge, Answered, Failed, CallRecord
<1>4. \/ server.at \in {"idle", "asked"} /\ server'.at \in {"idle", "asked"}
      \/ server' = server /\ (Quiet' => Quiet)
  <2>1. CASE PostMerge
    <3>1. server = NoRequest
      BY <2>1 DEF PostMerge, IInv, ServerInv
    <3> QED
      BY <2>1, <3>1 DEF PostMerge, NoRequest
  <2>2. CASE Answered
    <3>1. call'.warned = call.warned
      BY <1>1, <2>2 DEF Answered, Failed, CallRecord
    <3> QED
      BY <1>1, <2>2, <3>1 DEF Answered, Quiet
  <2> QED
    BY <2>1, <2>2
<1>5. Sources' = Sources /\ Count' = Count /\ Parts' = Parts /\ IsSingle' = IsSingle
  BY <1>1, Static
<1>6. call' # Idle
  BY <1>3 DEF Idle
<1> QED
  BY <1>1, <1>2, <1>3, <1>4, <1>5, <1>6 DEF LitterInv

LEMMA LitterMerge ==
  ASSUME IInv, LitterInv, ServerStep, UNCHANGED <<req, phase, flowVars>>
  PROVE  LitterInv'
<1>1. /\ server.at \in {"asked", "merge"} /\ UNCHANGED <<req, dest, phase, late>>
      /\ call' = call \/ call' = [call EXCEPT !.warned = TRUE]
  BY DEF ServerStep, BeginMerge, CopyChunk, RemoveChunk, ServerFails, flowVars
<1>2. /\ dest = "disk" /\ call.at \in {"wait", "error"} /\ call \in CallRecord /\ req \in Requests /\ call.parts = Parts
      /\ server \in [at : ServerStates, k : Nat, copied : BOOLEAN]
  BY <1>1 DEF IInv, ServerInv, CallInv, FlowInv
<1>3. call'.at = call.at /\ (call' = call \/ ~Quiet')
  BY <1>1, <1>2 DEF Quiet, CallRecord
<1>4. phase = "ok" => IsSingle
  BY <1>2 DEF LitterInv, Idle
<1>5. call' # Idle
  BY <1>2, <1>3 DEF Idle
<1>6. Sources' = Sources /\ Count' = Count /\ Parts' = Parts /\ Count \in Nat /\ IsSingle' = IsSingle
  BY <1>1, <1>2, Static, Wholes
<1>7. Len(Parts) = Count /\ Sources = {Parts[j] : j \in 1 .. Count} /\ \A j \in 1 .. Count : Parts[j] # Target
  <2>1. Len(Parts) = Count /\ Target \notin Sources
    BY <1>6, Names
  <2> QED
    BY <2>1 DEF Sources
\* What has to be shown of the server's next state.
<1>8. ASSUME server'.at \notin {"idle", "asked"},
             server'.at = "merge" /\ Quiet' =>
               DOMAIN objects' \subseteq {Target} \cup {Parts[j] : j \in server'.k .. Count},
             server'.at = "merged" /\ Quiet' => DOMAIN objects' = {Target}
      PROVE  LitterInv'
  BY <1>1, <1>2, <1>3, <1>4, <1>5, <1>6, <1>8 DEF LitterInv
<1>9. ASSUME ServerFails PROVE LitterInv'
  <2>1. server'.at = "failed"
    BY <1>2, <1>9 DEF ServerFails
  <2> QED
    BY <1>8, <2>1
<1>10. CASE BeginMerge
  <2>1. server.at = "asked" /\ DOMAIN objects \subseteq Sources
    BY <1>2, <1>10 DEF BeginMerge, LitterInv
  <2>2. CASE /\ Len(call.parts) = 1 /\ Stored(call.parts[1])
             /\ objects' = Put(WithoutObject(call.parts[1]), Target, objects[call.parts[1]])
             /\ server' = [server EXCEPT !.at = "merged"]
    <3> DEFINE name == Parts[1]
               rest == WithoutObject(name)
               content == objects[name]
               put == Put(rest, Target, content)
    <3>1. objects' = put
      BY <1>2, <2>2
    <3>2. DOMAIN rest = DOMAIN objects \ {name}
      BY DEF WithoutObject, Restrict
    <3> HIDE DEF rest, content
    <3>3. DOMAIN put = DOMAIN rest \cup {Target}
      BY DEF Put
    <3> HIDE DEF put
    <3>4. Count = 1 /\ Sources = {name}
      <4>1. Count = 1
        BY <1>2, <1>7, <2>2
      <4>2. Sources = {Parts[j] : j \in 1 .. 1}
        BY <1>7, <4>1
      <4> QED
        BY <4>1, <4>2
    <3>5. DOMAIN objects' = {Target}
      BY <2>1, <3>1, <3>2, <3>3, <3>4
    <3>6. server'.at = "merged"
      BY <1>2, <2>2
    <3> QED
      BY <1>8, <3>5, <3>6
  <2>3. CASE /\ objects' = With(Target, <<>>)
             /\ server' = [server EXCEPT !.at = "merge", !.k = 1]
    <3>1. DOMAIN objects' = DOMAIN objects \cup {Target}
      BY <2>3 DEF With, Put
    <3>2. server'.at = "merge" /\ server'.k = 1
      BY <1>2, <2>3
    <3> QED
      BY <1>7, <1>8, <2>1, <3>1, <3>2
  <2> QED
    BY <1>9, <1>10, <2>2, <2>3 DEF BeginMerge
<1>11. CASE CopyChunk
  <2>1. server.at = "merge" /\ call' = call
    BY <1>11 DEF CopyChunk
  <2>2. CASE server' = [server EXCEPT !.copied = TRUE] /\ \E c : objects' = With(Target, c)
    <3>1. PICK c : objects' = With(Target, c)
      BY <2>2
    <3>2. DOMAIN objects' = DOMAIN objects \cup {Target}
      BY <3>1 DEF With, Put
    <3>3. server'.at = "merge" /\ server'.k = server.k
      BY <1>2, <2>1, <2>2
    <3>4. Quiet' => Quiet
      BY <1>1, <2>1 DEF Quiet
    <3>5. Quiet => DOMAIN objects \subseteq {Target} \cup {Parts[j] : j \in server.k .. Count}
      BY <2>1 DEF LitterInv
    <3> QED
      BY <1>8, <3>2, <3>3, <3>4, <3>5
  <2> QED
    BY <1>9, <1>11, <2>2 DEF CopyChunk
<1>12. CASE RemoveChunk
  <2> DEFINE name == Parts[server.k]
  <2>1. /\ server.at = "merge"
        /\ objects' = WithoutObject(name) \/ call' = [call EXCEPT !.warned = TRUE]
        /\ objects' = WithoutObject(name) \/ objects' = objects
        /\ server' = IF server.k < Len(Parts)
                     THEN [server EXCEPT !.k = server.k + 1, !.copied = FALSE]
                     ELSE [server EXCEPT !.at = "merged"]
    BY <1>2, <1>12 DEF RemoveChunk
  <2>2. server.k \in 1 .. Count /\ Target \in DOMAIN objects /\ name # Target
    BY <1>7, <2>1 DEF IInv, ServerInv, Stored
  <2>3. Quiet' => Quiet /\ DOMAIN objects' = DOMAIN objects \ {name}
    <3> SUFFICES ASSUME Quiet' PROVE Quiet /\ DOMAIN objects' = DOMAIN objects \ {name}
      OBVIOUS
    <3> HIDE DEF name
    <3>1. ~call'.warned /\ late = 0
      BY <1>1 DEF Quiet
    <3>2. call' # [call EXCEPT !.warned = TRUE]
      BY <1>2, <3>1 DEF CallRecord
    <3>3. call' = call /\ objects' = WithoutObject(name)
      BY <1>1, <2>1, <3>2
    <3>4. DOMAIN WithoutObject(name) = DOMAIN objects \ {name}
      BY DEF WithoutObject, Restrict
    <3> QED
      BY <3>1, <3>3, <3>4 DEF Quiet
  <2>4. Quiet => DOMAIN objects \subseteq {Target} \cup {Parts[j] : j \in server.k .. Count}
    BY <2>1 DEF LitterInv
  <2>5. CASE server.k < Count
    <3>1. server'.at = "merge" /\ server'.k = server.k + 1
      <4>1. server' = [server EXCEPT !.k = server.k + 1, !.copied = FALSE]
        BY <1>7, <2>1, <2>5
      <4> QED
        BY <1>2, <2>1, <4>1
    <3>2. \A j \in server.k .. Count : j = server.k \/ j \in (server.k + 1) .. Count
      BY <1>6, <2>2
    <3>3. Quiet' => DOMAIN objects' \subseteq {Target} \cup {Parts[j] : j \in (server.k + 1) .. Count}
      BY <2>3, <2>4, <3>2
    <3> QED
      BY <1>8, <3>1, <3>3
  <2>6. CASE ~(server.k < Count)
    <3>1. server'.at = "merged"
      BY <1>2, <1>7, <2>1, <2>6
    <3>2. \A j \in server.k .. Count : j = server.k
      BY <1>6, <2>2, <2>6
    <3>3. Quiet' => DOMAIN objects' = {Target}
      BY <2>2, <2>3, <2>4, <3>2
    <3> QED
      BY <1>8, <3>1, <3>3
  <2> QED
    BY <2>5, <2>6
<1> QED
  BY <1>10, <1>11, <1>12 DEF ServerStep

(* Beside an object that was delivered no temporary object, part or share  *)
(* is left, unless a deletion failed or a late attempt brought a part      *)
(* back: of every level of the tree what it makes is listed for deletion,  *)
(* and the chunk server removes what it has copied.                        *)
LEMMA NextLitter == IInv /\ LitterInv /\ [Next]_vars => LitterInv'
<1> SUFFICES ASSUME IInv, LitterInv, [Next]_vars PROVE LitterInv'
  OBVIOUS
<1>1. ASSUME NEW i \in DOMAIN Chunks, UploadChunk(i) \/ LateAttempt(i) PROVE LitterInv'
  BY <1>1, LitterChunk, LitterLate
<1>2. ASSUME NEW i \in 1 .. N, UploadShare(i) PROVE LitterInv'
  BY <1>2, LitterShare
<1>3. CASE Composing
  <2>1. UNCHANGED <<req, phase, flowVars>> /\ ComposeStep
    BY <1>3 DEF Composing
  <2> QED
    BY <2>1, LitterGroup, LitterCopy, LitterDelete, LitterPost DEF ComposeStep
<1>4. CASE Merging
  BY <1>4, LitterMerge DEF Merging
<1>5. CASE UNCHANGED vars
  <2>1. UNCHANGED <<req, dest, phase, done, failed, late, uncomposed, objects, call, server>>
    BY <1>5 DEF vars, composeVars, flowVars
  <2> QED
    BY <2>1, LitterFrame
<1> QED
  BY <1>1, <1>2, <1>3, <1>4, <1>5, LitterFlow, LitterFinish DEF Next

LEMMA LitterFollows == IInv /\ LitterInv => NoLitter
<1> SUFFICES ASSUME IInv, LitterInv, Delivered, Quiet, ~uncomposed,
                    dest = "disk" /\ Result = Target => server.at = "merged"
             PROVE  DOMAIN objects = {Result}
  BY DEF NoLitter, Quiet
<1>1. CASE call.at = "ok"
  <2>1. Result = Target
    BY <1>1 DEF IInv, CallInv, Result, IsSingle
  <2> QED
    BY <1>1, <2>1 DEF LitterInv
<1>0. call.at = "ok" \/ (call = Idle /\ ~IsSingle /\ N = 1 /\ done = Tasks /\ ~failed)
  BY DEF Delivered, LitterInv, IsSingle
<1>2. CASE call = Idle /\ ~IsSingle /\ N = 1 /\ done = Tasks /\ ~failed
  <2>1. Result = Share(1)
    BY <1>2, RequestsAssumption DEF IInv, FlowInv, Result, IsSingle
  <2>2. Tasks = {1}
    BY <1>2 DEF Tasks
  <2>3. Stored(Share(1)) /\ DOMAIN objects \subseteq Sources
    BY <1>2, <2>2 DEF LitterInv
  <2>4. Sources = {Share(1)}
    <3>1. Count = 1
      BY <1>2 DEF Count
    <3>2. Parts[1] = Share(1)
      BY <1>2, <3>1 DEF Parts
    <3> QED
      BY <3>1, <3>2 DEF Sources
  <2> QED
    BY <2>1, <2>3, <2>4 DEF Stored
<1> QED
  BY <1>0, <1>1, <1>2

THEOREM LeavesNothing == Spec => []NoLitter
<1>1. Init => IInv /\ LitterInv
  BY InitType, LitterInit
<1>2. IInv /\ LitterInv /\ [Next]_vars => (IInv /\ LitterInv)'
  BY NextType, NextLitter
<1>3. IInv /\ LitterInv => NoLitter
  BY LitterFollows
<1> QED
  BY <1>1, <1>2, <1>3, PTL DEF Spec

-----------------------------------------------------------------------------
(* What is uploaded stays what it was, unless the upload was torn; the     *)
(* chunk the server is writing can then only be an empty one.              *)

PiecesInv ==
  /\ ~IsSingle => \A k \in 1 .. Count : Stored(Parts[k]) => k \in done
  /\ ~torn =>
       /\ \A k \in 1 .. Count : k \in done /\ Stored(Parts[k]) => objects[Parts[k]] = Whole(k)
       /\ saving # None =>
            \E k \in done : Whole(k) = <<>> /\ saving \in {Parts[k], Target} /\ objects[saving] = <<>>

LEMMA PiecesFrame ==
  ASSUME PiecesInv, UNCHANGED <<req, done, torn>>,
         \A n \in Sources : n \in DOMAIN objects' => n \in DOMAIN objects /\ objects'[n] = objects[n],
         saving' # None =>
           /\ saving # None
           /\ \/ saving' = saving /\ objects'[saving] = objects[saving]
              \/ saving' = Target /\ objects'[Target] = objects[saving]
  PROVE  PiecesInv'
<1>1. Count' = Count /\ Parts' = Parts /\ IsSingle' = IsSingle /\ \A k : Whole(k)' = Whole(k)
  BY Static
<1>2. \A k \in 1 .. Count : Parts[k] \in Sources
  BY DEF Sources
<1>3. ~IsSingle' => \A k \in 1 .. Count : Parts[k] \in DOMAIN objects' => k \in done'
  BY <1>1, <1>2 DEF PiecesInv, Stored
<1>4. ~torn' => \A k \in 1 .. Count : k \in done' /\ Parts[k] \in DOMAIN objects' => objects'[Parts[k]] = Whole(k)
  BY <1>2 DEF PiecesInv, Stored
<1>5. ~torn' /\ saving' # None =>
        \E k \in done' : Whole(k) = <<>> /\ saving' \in {Parts[k], Target} /\ objects'[saving'] = <<>>
  <2> SUFFICES ASSUME ~torn', saving' # None
               PROVE  \E k \in done' : Whole(k) = <<>> /\ saving' \in {Parts[k], Target} /\ objects'[saving'] = <<>>
    OBVIOUS
  <2>1. PICK k \in done : Whole(k) = <<>> /\ saving \in {Parts[k], Target} /\ objects[saving] = <<>>
    BY DEF PiecesInv
  <2>2. saving' \in {Parts[k], Target} /\ objects'[saving'] = <<>>
    BY <2>1
  <2> QED
    BY <2>1, <2>2
<1> QED
  BY <1>1, <1>3, <1>4, <1>5 DEF PiecesInv, Stored

LEMMA PiecesInit == Init => PiecesInv
BY DEF Init, InitCompose, PiecesInv, Stored

LEMMA Beginnings0 ==
  ASSUME NEW c \in Beginnings(<<>>)
  PROVE  c = <<>>
BY DEF Beginnings

\* After an upload, a late one too, either the part is whole or it is torn.
LEMMA PiecesUpload ==
  ASSUME IInv, PiecesInv, NEW k \in 1 .. Count, req' = req,
         done' \in {done, done \cup {k}},
         ~torn' => ~torn,
         \A n \in DOMAIN objects' \ {Parts[k]} : n \in DOMAIN objects /\ objects'[n] = objects[n],
         Parts[k] \in DOMAIN objects' => IsSingle \/ k \in done',
         ~torn' /\ k \in done' /\ Parts[k] \in DOMAIN objects' => objects'[Parts[k]] = Whole(k),
         ~torn' /\ saving' # None =>
           \/ saving' = saving /\ saving # Parts[k] /\ saving \in DOMAIN objects'
           \/ saving' = saving /\ objects'[saving] = objects[saving]
           \/ saving' = Parts[k] /\ k \in done /\ objects'[saving'] = <<>> /\ Parts[k] \in DOMAIN objects'
  PROVE  PiecesInv'
<1>0. req \in Requests
  BY DEF IInv, FlowInv
<1>1. Count' = Count /\ Parts' = Parts /\ IsSingle' = IsSingle /\ Count \in Nat /\ \A j : Whole(j)' = Whole(j)
  BY <1>0, Static, Wholes
<1>2. \A j \in 1 .. Count : Parts[j] = Parts[k] => j = k
  BY <1>1, Names
<1>3. ~IsSingle => \A j \in 1 .. Count : Parts[j] \in DOMAIN objects' => j \in done'
  <2> SUFFICES ASSUME ~IsSingle, NEW j \in 1 .. Count, Parts[j] \in DOMAIN objects' PROVE j \in done'
    OBVIOUS
  <2>1. CASE j = k
    BY <2>1
  <2>2. CASE j # k
    BY <1>2, <2>2 DEF PiecesInv, Stored
  <2> QED
    BY <2>1, <2>2
<1>4. ASSUME ~torn', NEW j \in 1 .. Count, j \in done', Parts[j] \in DOMAIN objects' PROVE objects'[Parts[j]] = Whole(j)
  <2>1. CASE j = k
    BY <1>4, <2>1
  <2>2. CASE j # k
    BY <1>2, <1>4, <2>2 DEF PiecesInv, Stored
  <2> QED
    BY <2>1, <2>2
<1>5. ASSUME ~torn', saving' # None
      PROVE  \E j \in done' : Whole(j) = <<>> /\ saving' \in {Parts[j], Target} /\ objects'[saving'] = <<>>
  <2>1. CASE saving' = Parts[k] /\ k \in done /\ objects'[saving'] = <<>> /\ Parts[k] \in DOMAIN objects'
    BY <1>5, <2>1
  <2>2. CASE saving' = saving /\ ((saving # Parts[k] /\ saving \in DOMAIN objects') \/ objects'[saving] = objects[saving])
    <3>1. PICK j \in done : Whole(j) = <<>> /\ saving \in {Parts[j], Target} /\ objects[saving] = <<>>
      BY <1>5, <2>2 DEF PiecesInv
    <3>2. objects'[saving] = objects[saving]
      BY <2>2
    <3> QED
      BY <2>2, <3>1, <3>2
  <2> QED
    BY <1>5, <2>1, <2>2
<1> QED
  BY <1>1, <1>3, <1>4, <1>5 DEF PiecesInv, Stored

LEMMA WithIs ==
  ASSUME NEW name, NEW content, objects' = With(name, content)
  PROVE  /\ DOMAIN objects' = DOMAIN objects \cup {name} /\ objects'[name] = content
         /\ \A n \in DOMAIN objects : n # name => objects'[n] = objects[n]
         /\ \A n \in DOMAIN objects' \ {name} : n \in DOMAIN objects /\ objects'[n] = objects[n]
<1> DEFINE put == With(name, content)
<1>1. /\ DOMAIN put = DOMAIN objects \cup {name} /\ put[name] = content
      /\ \A n \in DOMAIN objects : n # name => put[n] = objects[n]
  BY DEF With, Put
<1>2. objects' = put
  OBVIOUS
<1> HIDE DEF put
<1> QED
  BY <1>1, <1>2

LEMMA StoreIs ==
  ASSUME NEW name, NEW content, Store(name, content)
  PROVE  /\ \A n \in DOMAIN objects' \ {name} : n \in DOMAIN objects /\ objects'[n] = objects[n]
         /\ \A n \in DOMAIN objects : n # name => objects'[n] = objects[n]
         /\ DOMAIN objects \subseteq DOMAIN objects'
<1>1. CASE content = None
  BY <1>1 DEF Store
<1>2. CASE content # None
  <2>1. objects' = With(name, content)
    BY <1>2 DEF Store
  <2> QED
    BY <2>1, WithIs
<1> QED
  BY <1>1, <1>2

LEMMA PiecesChunk ==
  ASSUME IInv, PiecesInv, NEW i \in DOMAIN Chunks, UploadChunk(i)
  PROVE  PiecesInv'
<1>1. req \in Requests /\ IsSingle /\ req' = req /\ saving' = saving /\ i \notin done
  BY DEF UploadChunk, IsSingle, IInv, FlowInv
<1>2. i \in 1 .. Count /\ Parts[i] = Part(i) /\ Whole(i) = Fetched(i) /\ Count \in Nat /\ done \subseteq 1 .. Count
  <2>1. i \in 1 .. Count /\ Parts[i] = Part(i) /\ Whole(i) = Fetched(i)
    BY <1>1, ChunkName
  <2>2. Count \in Nat /\ done \subseteq 1 .. Count
    BY <1>1, Wholes DEF IInv, FlowInv
  <2> QED
    BY <2>1, <2>2
<1>3a. PICK content \in ReadsOf(i) : \E o \in UploadFile(content, Chunks[i].size) :
        /\ Store(Part(i), o.stored)
        /\ done' = IF o.ok THEN done \cup {i} ELSE done
        /\ torn' = (torn \/ (o.ok /\ LeavesTorn(Part(i), Fetched(i))))
  BY DEF UploadChunk
<1>3. PICK o \in UploadFile(content, Chunks[i].size) :
        /\ Store(Part(i), o.stored)
        /\ done' = IF o.ok THEN done \cup {i} ELSE done
        /\ torn' = (torn \/ (o.ok /\ LeavesTorn(Part(i), Fetched(i))))
  BY <1>3a
<1>4. /\ \A n \in DOMAIN objects' \ {Part(i)} : n \in DOMAIN objects /\ objects'[n] = objects[n]
      /\ DOMAIN objects \subseteq DOMAIN objects'
  BY <1>3, StoreIs
<1>5. done' \in {done, done \cup {i}} /\ (~torn' => ~torn)
  BY <1>3
<1>6. ~torn' /\ i \in done' /\ Part(i) \in DOMAIN objects' => objects'[Part(i)] = Whole(i)
  BY <1>1, <1>2, <1>3 DEF LeavesTorn
<1>7. ~torn' /\ saving' # None => saving # Part(i) /\ saving \in DOMAIN objects'
  <2> SUFFICES ASSUME ~torn', saving' # None PROVE saving # Part(i) /\ saving \in DOMAIN objects'
    OBVIOUS
  <2>1. saving \in DOMAIN objects
    BY <1>1 DEF IInv, SavingInv, Stored
  <2>2. PICK k \in done : saving \in {Parts[k], Target}
    BY <1>1, <1>5 DEF PiecesInv
  <2>3. Target \notin Sources /\ Part(i) \in Sources /\ \A j \in 1 .. Count : Parts[j] = Parts[i] => j = i
    BY <1>2, Names DEF Sources
  <2> QED
    BY <1>1, <1>2, <1>4, <2>1, <2>2, <2>3
<1> QED
  BY <1>1, <1>2, <1>4, <1>5, <1>6, <1>7, PiecesUpload

LEMMA PiecesLate ==
  ASSUME IInv, PiecesInv, NEW i \in DOMAIN Chunks, LateAttempt(i)
  PROVE  PiecesInv'
<1>1. req \in Requests /\ IsSingle /\ req' = req /\ i \in done /\ done' = done
      /\ torn' = (torn \/ LeavesTorn(Part(i), Fetched(i)))
  BY DEF LateAttempt, IsSingle, IInv, FlowInv
<1>2. i \in 1 .. Count /\ Parts[i] = Part(i) /\ Whole(i) = Fetched(i)
  BY <1>1, ChunkName
<1>3. ~torn' /\ i \in done' /\ Part(i) \in DOMAIN objects' => objects'[Part(i)] = Whole(i)
  BY <1>1, <1>2 DEF LeavesTorn
<1>4. CASE dest = "disk"
  <2>1. objects' = With(Part(i), <<>>) /\ saving' = Part(i)
    BY <1>4 DEF LateAttempt
  <2>2. /\ DOMAIN objects' = DOMAIN objects \cup {Part(i)} /\ objects'[Part(i)] = <<>>
        /\ \A n \in DOMAIN objects' \ {Part(i)} : n \in DOMAIN objects /\ objects'[n] = objects[n]
    BY <2>1, WithIs
  <2> QED
    BY <1>1, <1>2, <1>3, <2>1, <2>2, PiecesUpload
<1>5. CASE dest # "disk"
  <2>1. PICK stored : Store(Part(i), stored)
    BY <1>5 DEF LateAttempt
  <2>2. \A n \in DOMAIN objects' \ {Part(i)} : n \in DOMAIN objects /\ objects'[n] = objects[n]
    BY <2>1, StoreIs
  <2>3. saving = None /\ saving' = None
    BY <1>5 DEF LateAttempt, IInv, SavingInv
  <2> QED
    BY <1>1, <1>2, <1>3, <2>2, <2>3, PiecesUpload
<1> QED
  BY <1>4, <1>5

LEMMA PiecesSave ==
  ASSUME IInv, PiecesInv, EndSave
  PROVE  PiecesInv' /\ (~torn => \A n \in DOMAIN objects : n \in DOMAIN objects' /\ objects'[n] = objects[n])
<1>1. req \in Requests /\ req' = req /\ done' = done /\ torn' = torn /\ saving # None /\ saving' = None
  BY DEF EndSave, IInv, FlowInv
<1>2. PICK i \in done : saving \in {Part(i), Target} /\ \E c \in Beginnings(Fetched(i)) : objects' = With(saving, c)
  BY DEF EndSave
<1>3. PICK c \in Beginnings(Fetched(i)) : objects' = With(saving, c)
  BY <1>2
<1>4. /\ DOMAIN objects' = DOMAIN objects \cup {saving} /\ objects'[saving] = c
      /\ \A n \in DOMAIN objects : n # saving => objects'[n] = objects[n]
  BY <1>3, WithIs
<1>5. IsSingle /\ saving \in DOMAIN objects /\ (saving = Target => Count = 1) /\ done \subseteq All
  BY <1>1 DEF IInv, SavingInv, FlowInv, Stored
<1>6. Count \in Nat /\ i \in 1 .. Count /\ Parts[i] = Part(i) /\ Whole(i) = Fetched(i) /\ done \subseteq 1 .. Count
  BY <1>1, <1>5, Wholes, ChunkName DEF All
<1>7. ~torn => c = objects[saving]
  <2> SUFFICES ASSUME ~torn PROVE c = objects[saving]
    OBVIOUS
  <2>1. PICK k \in done : Whole(k) = <<>> /\ saving \in {Parts[k], Target} /\ objects[saving] = <<>>
    BY <1>1 DEF PiecesInv
  <2>2. k = i
    <3>1. Target \notin Sources /\ Parts[i] \in Sources /\ Parts[k] \in Sources /\ (Parts[k] = Parts[i] => k = i)
      BY <1>6, <2>1, Names DEF Sources
    <3>2. CASE saving = Target
      BY <1>5, <1>6, <3>2
    <3>3. CASE saving # Target
      BY <1>2, <1>6, <2>1, <3>1, <3>3
    <3> QED
      BY <3>2, <3>3
  <2>3. c \in Beginnings(<<>>)
    BY <1>3, <1>6, <2>1, <2>2
  <2> QED
    BY <2>1, <2>3, Beginnings0
<1>8. ~torn => \A n \in DOMAIN objects : n \in DOMAIN objects' /\ objects'[n] = objects[n]
  BY <1>4, <1>7
<1>9. PiecesInv'
  <2>1. CASE torn
    <3>1. Count' = Count /\ Parts' = Parts /\ IsSingle' = IsSingle
      BY <1>1, Static
    <3> QED
      BY <1>1, <1>5, <2>1, <3>1 DEF PiecesInv
  <2>2. CASE ~torn
    <3>1. DOMAIN objects' = DOMAIN objects
      BY <1>4, <1>5
    <3> QED
      BY <1>1, <1>8, <2>2, <3>1, PiecesFrame
  <2> QED
    BY <2>1, <2>2
<1> QED
  BY <1>8, <1>9

LEMMA PiecesShare ==
  ASSUME IInv, PiecesInv, NEW i \in 1 .. N, UploadShare(i)
  PROVE  PiecesInv'
<1> DEFINE whole == DownloadRange(req.source, req.size, ShareStart(i), ShareLength(i), FALSE)
<1>1. /\ ~IsSingle /\ done' = done \cup {i} /\ req \in Requests /\ UNCHANGED <<saving, req>>
  BY RequestsAssumption DEF UploadShare, IsSingle, IInv, FlowInv
<1>2. i \in 1 .. Count /\ Parts[i] = Share(i) /\ whole = Whole(i)
  <2>1. Count = N /\ Count \in Nat
    BY <1>1, Wholes DEF Count
  <2> QED
    BY <1>1, <2>1, Names DEF Whole
<1>3. saving = None
  BY <1>1 DEF IInv, SavingInv
<1>4. \/ UNCHANGED <<objects, torn>>
      \/ (\E c : Store(Share(i), c)) /\ torn' = (torn \/ LeavesTorn(Share(i), whole))
  BY DEF UploadShare
<1>5. CASE UNCHANGED <<objects, torn>>
  <2>1. Share(i) \notin DOMAIN objects
    <3>1. i \notin done
      BY DEF UploadShare
    <3> QED
      BY <1>1, <1>2, <3>1 DEF PiecesInv, Stored
  <2> QED
    BY <1>1, <1>2, <1>3, <1>5, <2>1, PiecesUpload
<1>6. CASE (\E c : Store(Share(i), c)) /\ torn' = (torn \/ LeavesTorn(Share(i), whole))
  <2>1. PICK c : Store(Share(i), c)
    BY <1>6
  <2>2. \A n \in DOMAIN objects' \ {Share(i)} : n \in DOMAIN objects /\ objects'[n] = objects[n]
    BY <2>1, StoreIs
  <2>3. ~torn' /\ Share(i) \in DOMAIN objects' => objects'[Share(i)] = Whole(i)
    <3> HIDE DEF whole
    <3> QED
      BY <1>2, <1>6 DEF LeavesTorn
  <2> QED
    BY <1>1, <1>2, <1>3, <1>6, <2>2, <2>3, PiecesUpload
<1> QED
  BY <1>4, <1>5, <1>6

\* A step of the composition of a store's parts changes no part that stays.
LEMMA PiecesTree ==
  ASSUME IInv, PiecesInv, UNCHANGED <<req, done, torn, saving>>, call.at # "idle",
         \/ objects' = objects
         \/ dest # "disk" /\ \E name \in {Target} \cup Temps : \E content : objects' = With(name, content)
         \/ dest # "disk" /\ \E name : objects' = WithoutObject(name)
  PROVE  PiecesInv'
<1>1. Count \in Nat /\ (Sources \cap ({Target} \cup Temps)) = {}
  <2>1. Count \in Nat
    BY Wholes DEF IInv, FlowInv
  <2> QED
    BY <2>1, Names
<1>2. CASE objects' = objects
  BY <1>2, PiecesFrame
<1>3. dest # "disk" => saving = None
  BY DEF IInv, SavingInv
<1>4. CASE dest # "disk" /\ \E name \in {Target} \cup Temps : \E content : objects' = With(name, content)
  <2>1. PICK name \in {Target} \cup Temps : \E content : objects' = With(name, content)
    BY <1>4
  <2>2. \A n \in DOMAIN objects' \ {name} : n \in DOMAIN objects /\ objects'[n] = objects[n]
    BY <2>1, WithIs
  <2>3. \A n \in Sources : n \in DOMAIN objects' => n \in DOMAIN objects /\ objects'[n] = objects[n]
    BY <1>1, <2>2
  <2> QED
    BY <1>3, <1>4, <2>3, PiecesFrame
<1>5. CASE dest # "disk" /\ \E name : objects' = WithoutObject(name)
  <2>1. PICK name : objects' = WithoutObject(name)
    BY <1>5
  <2>2. DOMAIN objects' = DOMAIN objects \ {name} /\ \A n \in DOMAIN objects : n # name => objects'[n] = objects[n]
    BY <2>1, Removing
  <2> QED
    BY <1>3, <1>5, <2>2, PiecesFrame
<1> QED
  BY <1>2, <1>4, <1>5

LEMMA PiecesComposing ==
  ASSUME IInv, PiecesInv, ComposeStep, UNCHANGED <<req, phase, flowVars>>
  PROVE  PiecesInv'
<1>1. UNCHANGED <<req, done, torn>>
  BY DEF flowVars
<1>2. CASE ComposeGroup \/ ReadPart \/ PutTemp
  <2>1. call.at = "group" /\ saving' = saving
    BY <1>2 DEF ComposeGroup, ReadPart, PutTemp
  <2>2. dest # "disk" /\ Temp(call.level, call.i) \in Temps
    <3>1. CallInv
      BY DEF IInv
    <3> QED
      BY <2>1, <3>1, GroupDone DEF CallInv
  <2>3. objects' = objects \/ \E content : objects' = With(Temp(call.level, call.i), content)
    BY <1>2 DEF ComposeGroup, ReadPart, PutTemp, Request
  <2> QED
    BY <1>1, <2>1, <2>2, <2>3, PiecesTree
<1>3. CASE CopyFinal
  <2>1. call.at = "copy" /\ saving' = saving /\ dest # "disk"
    BY <1>3 DEF CopyFinal, IInv, CallInv
  <2>2. objects' = objects \/ \E content : objects' = With(Target, content)
    BY <1>3 DEF CopyFinal, Request
  <2> QED
    BY <1>1, <2>1, <2>2, PiecesTree
<1>4. CASE DeleteFinalTemp \/ DeleteOne \/ EndClean
  <2>1. call.at \in {"final", "clean"} /\ saving' = saving /\ dest # "disk"
    BY <1>4 DEF DeleteFinalTemp, DeleteOne, EndClean, IInv, CallInv
  <2>2. objects' = objects \/ \E name : objects' = WithoutObject(name)
    BY <1>4 DEF DeleteFinalTemp, DeleteOne, EndClean, Request
  <2> QED
    BY <1>1, <2>1, <2>2, PiecesTree
<1>5. CASE PostMerge \/ Answered
  <2>1. call.at \in {"post", "wait"} /\ saving' = saving /\ objects' = objects
    BY <1>5 DEF PostMerge, Answered
  <2> QED
    BY <1>1, <2>1, PiecesTree
<1> QED
  BY <1>2, <1>3, <1>4, <1>5 DEF ComposeStep

LEMMA PiecesMerging ==
  ASSUME IInv, PiecesInv, ServerStep, UNCHANGED <<req, phase, flowVars>>
  PROVE  PiecesInv'
<1>1. UNCHANGED <<req, done, torn>> /\ server.at \in {"asked", "merge"}
  BY DEF flowVars, ServerStep, BeginMerge, CopyChunk, RemoveChunk, ServerFails
<1>2. Count \in Nat /\ Target \notin Sources /\ (saving # None => saving # Target)
  <2>1. Count \in Nat
    BY Wholes DEF IInv, FlowInv
  <2> QED
    BY <1>1, <2>1, Names DEF IInv, SavingInv
<1>3. CASE UNCHANGED <<objects, saving>>
  BY <1>1, <1>3, PiecesFrame
\* Only the final object changes.
<1>4. CASE saving' = saving /\ \E content : objects' = With(Target, content)
  <2>1. PICK content : objects' = With(Target, content)
    BY <1>4
  <2>2. /\ \A n \in DOMAIN objects : n # Target => objects'[n] = objects[n]
        /\ \A n \in DOMAIN objects' \ {Target} : n \in DOMAIN objects /\ objects'[n] = objects[n]
    BY <2>1, WithIs
  <2>3. \A n \in Sources : n \in DOMAIN objects' => n \in DOMAIN objects /\ objects'[n] = objects[n]
    BY <1>2, <2>2
  <2>4. saving' # None => saving # None /\ objects'[saving] = objects[saving]
    BY <1>2, <1>4, <2>2 DEF IInv, SavingInv, Stored
  <2> QED
    BY <1>1, <1>4, <2>3, <2>4, PiecesFrame
\* A chunk that is removed may be the one being written.
<1>5. CASE \E name : objects' = WithoutObject(name) /\ saving' = IF saving = name THEN None ELSE saving
  <2>1. PICK name : objects' = WithoutObject(name) /\ saving' = IF saving = name THEN None ELSE saving
    BY <1>5
  <2>2. DOMAIN objects' = DOMAIN objects \ {name} /\ \A n \in DOMAIN objects : n # name => objects'[n] = objects[n]
    BY <2>1, Removing
  <2>3. saving' # None => saving # None /\ saving' = saving /\ objects'[saving] = objects[saving]
    BY <2>1, <2>2 DEF IInv, SavingInv, Stored
  <2>4. \A n \in Sources : n \in DOMAIN objects' => n \in DOMAIN objects /\ objects'[n] = objects[n]
    BY <2>2
  <2> QED
    BY <1>1, <2>3, <2>4, PiecesFrame
<1>6. CASE \E name \in DOMAIN objects \cap Sources :
             /\ objects' = Put(WithoutObject(name), Target, objects[name])
             /\ saving' = IF saving = name THEN Target ELSE saving
  <2>1. PICK name \in DOMAIN objects \cap Sources :
               /\ objects' = Put(WithoutObject(name), Target, objects[name])
               /\ saving' = IF saving = name THEN Target ELSE saving
    BY <1>6
  <2>2. /\ objects'[Target] = objects[name]
        /\ \A n \in DOMAIN objects : n \notin {name, Target} => objects'[n] = objects[n]
        /\ \A n \in DOMAIN objects' \ {Target} : n \in DOMAIN objects /\ objects'[n] = objects[n]
    <3> DEFINE rest == WithoutObject(name)
               content == objects[name]
               put == Put(rest, Target, content)
    <3>1. DOMAIN rest = DOMAIN objects \ {name} /\ \A n \in DOMAIN rest : rest[n] = objects[n]
      BY DEF WithoutObject, Restrict
    <3> HIDE DEF rest
    <3>2. /\ DOMAIN put = DOMAIN rest \cup {Target} /\ put[Target] = content
          /\ \A n \in DOMAIN rest : n # Target => put[n] = rest[n]
      BY DEF Put
    <3>3. objects' = put
      BY <2>1 DEF rest
    <3> HIDE DEF put
    <3> QED
      BY <3>1, <3>2, <3>3
  <2>3. \A n \in Sources : n \in DOMAIN objects' => n \in DOMAIN objects /\ objects'[n] = objects[n]
    BY <1>2, <2>2
  <2>4. saving' # None =>
          /\ saving # None
          /\ \/ saving' = saving /\ objects'[saving] = objects[saving]
             \/ saving' = Target /\ objects'[Target] = objects[saving]
    <3>1. CASE saving = name
      <4>1. saving # None
        BY <3>1, <1>2, NotNone
      <4> QED
        BY <2>1, <2>2, <3>1, <4>1
    <3>2. CASE saving # name
      BY <1>2, <2>1, <2>2, <3>2 DEF IInv, SavingInv, Stored
    <3> QED
      BY <3>1, <3>2
  <2> QED
    BY <1>1, <2>3, <2>4, PiecesFrame
<1>7. CASE BeginMerge
  <2>1. call.parts = Parts
    BY <1>1 DEF IInv, ServerInv, CallInv
  <2>2. Len(call.parts) = 1 => call.parts[1] \in Sources
    <3>1. Len(Parts) = Count
      BY <1>2, Names
    <3> QED
      BY <1>2, <2>1, <3>1 DEF Sources
  <2> QED
    BY <1>3, <1>4, <1>6, <1>7, <2>2 DEF BeginMerge, Stored
<1>8. CASE CopyChunk
  BY <1>3, <1>4, <1>8 DEF CopyChunk
<1>9. CASE RemoveChunk
  BY <1>3, <1>5, <1>9 DEF RemoveChunk
<1> QED
  BY <1>7, <1>8, <1>9 DEF ServerStep

LEMMA NextPieces == IInv /\ PiecesInv /\ [Next]_vars => PiecesInv'
<1> SUFFICES ASSUME IInv, PiecesInv, [Next]_vars PROVE PiecesInv'
  OBVIOUS
<1>1. ASSUME NEW i \in DOMAIN Chunks, UploadChunk(i) \/ LateAttempt(i) PROVE PiecesInv'
  BY <1>1, PiecesChunk, PiecesLate
<1>2. ASSUME NEW i \in 1 .. N, UploadShare(i) PROVE PiecesInv'
  BY <1>2, PiecesShare
<1>3. CASE Composing
  BY <1>3, PiecesComposing DEF Composing
<1>4. CASE Merging
  BY <1>4, PiecesMerging DEF Merging
<1>5. ASSUME UNCHANGED <<req, done, torn, objects, saving>> PROVE PiecesInv'
  BY <1>5, PiecesFrame
<1>6. CASE StartSingle \/ StartLarge \/ FinishChunks \/ FinishShares \/ Timeout \/ ContextDone \/ EndCompose
           \/ UNCHANGED vars
  <2>1. UNCHANGED <<req, done, torn, objects, saving>>
    BY <1>6 DEF StartSingle, StartLarge, Refuse, FinishChunks, FinishShares, BeginCompose, Timeout, SingleTimeout,
                LargeTimeout, ContextDone, Expire, EndCompose, EndSingle, EndLarge, vars, composeVars, flowVars
  <2> QED
    BY <1>5, <2>1
<1> QED
  BY <1>1, <1>2, <1>3, <1>4, <1>6, PiecesSave DEF Next

-----------------------------------------------------------------------------
(* What is composed: every object of the tree holds the parts from one to  *)
(* another, those of a level together hold all of them in their order.     *)

Total == FlattenSeq([k \in 1 .. Count |-> Whole(k)])

\* Where, in the parts one after the other, part k ends.
Ends ==
  CHOOSE c \in [0 .. Count -> 0 .. Len(Total)] :
    /\ c[0] = 0 /\ c[Count] = Len(Total)
    /\ \A k \in 1 .. Count : c[k - 1] <= c[k] /\ Whole(k) = SubSeq(Total, c[k - 1] + 1, c[k])

Stretch(lo, hi) == SubSeq(Total, lo + 1, hi)

\* A part that has left the destination still counts as what it held.
Holds(name, lo, hi) ==
  /\ hi \in 0 .. Len(Total) /\ lo \in 0 .. hi
  /\ IF name \in Sources
     THEN \E k \in 1 .. Count : name = Parts[k] /\ Whole(k) = Stretch(lo, hi)
     ELSE Stored(name) /\ objects[name] = Stretch(lo, hi)

\* Together the objects hold everything up to hi.
Cuts(names, c, hi) ==
  /\ c \in [0 .. Len(names) -> 0 .. Len(Total)] /\ c[0] = 0 /\ c[Len(names)] = hi
  /\ \A j \in 1 .. Len(names) : Holds(names[j], c[j - 1], c[j])

Composed == call.at \in {"final", "clean"} \/ (call.at = "ok" /\ dest # "disk") \/ server.at = "merged"

\* The temporary objects of a level are new when they are made.
FreshInv ==
  ~torn /\ call.at = "group" =>
    /\ \A j \in 1 .. Len(call.current) :
         call.current[j] \in Sources \/ \E l, x \in Nat : l < call.level /\ call.current[j] = Temp(l, x)
    /\ \A j \in 1 .. Len(call.next) : \E x \in 0 .. (call.i - 1) : call.next[j] = Temp(call.level, x)

JoinInv ==
  ~torn =>
    /\ call.at = "group" =>
         \E c, d : /\ Cuts(call.current, c, Len(Total)) /\ Cuts(call.next, d, c[call.i])
                   /\ call.local = Stretch(c[call.i], c[call.i + call.read])
    /\ call.at = "copy" => Holds(call.current[1], 0, Len(Total))
    /\ Composed => Stored(Target) /\ objects[Target] = Total
    /\ server.at = "merge" =>
         objects[Target] = Stretch(0, Ends[IF server.copied THEN server.k ELSE server.k - 1])

LEMMA TotalType ==
  ASSUME req \in Requests, Valid
  PROVE  /\ Count \in Nat /\ Total \in Piece /\ Len(Total) \in Nat /\ Stretch(0, Len(Total)) = Total
         /\ Ends \in [0 .. Count -> 0 .. Len(Total)] /\ Ends[0] = 0 /\ Ends[Count] = Len(Total)
         /\ \A k \in 1 .. Count : Ends[k - 1] <= Ends[k] /\ Whole(k) = Stretch(Ends[k - 1], Ends[k])
<1> DEFINE s == [k \in 1 .. Count |-> Whole(k)]
           Is(c) == /\ c \in [0 .. Count -> 0 .. Len(Total)] /\ c[0] = 0 /\ c[Count] = Len(Total)
                    /\ \A k \in 1 .. Count : c[k - 1] <= c[k] /\ Whole(k) = SubSeq(Total, c[k - 1] + 1, c[k])
<1>1. Count \in Nat /\ \A k \in 1 .. Count : Whole(k) \in Piece
  BY Wholes
<1>2. s \in Seq(Piece) /\ Len(s) = Count /\ Total = FlattenSeq(s) /\ \A k \in 1 .. Count : s[k] = Whole(k)
  <2>1. s \in [1 .. Count -> Piece]
    BY <1>1
  <2>2. Total = FlattenSeq(s) /\ \A k \in 1 .. Count : s[k] = Whole(k)
    BY DEF Total
  <2> HIDE DEF s
  <2> QED
    BY <1>1, <2>1, <2>2, FunctionSeq
<1> HIDE DEF s
<1>3. Total \in Piece
  BY <1>2, FlattenType DEF Piece
<1>4. Len(Total) \in Nat /\ SubSeq(Total, 1, Len(Total)) = Total
  BY <1>3 DEF Piece
<1>5. \E c : Is(c)
  <2>1. \E c \in [0 .. Len(s) -> 0 .. Len(FlattenSeq(s))] :
           /\ c[0] = 0 /\ c[Len(s)] = Len(FlattenSeq(s))
           /\ \A k \in 1 .. Len(s) : c[k - 1] <= c[k] /\ s[k] = SubSeq(FlattenSeq(s), c[k - 1] + 1, c[k])
    BY <1>2, FlattenOffsets DEF Piece
  <2> QED
    BY <1>2, <2>1
<1>6. Is(Ends)
  <2>1. Ends = CHOOSE c \in [0 .. Count -> 0 .. Len(Total)] :
           /\ c[0] = 0 /\ c[Count] = Len(Total)
           /\ \A k \in 1 .. Count : c[k - 1] <= c[k] /\ Whole(k) = SubSeq(Total, c[k - 1] + 1, c[k])
    BY DEF Ends
  <2> QED
    BY <1>5, <2>1, Zenon
<1> QED
  BY <1>1, <1>3, <1>4, <1>6 DEF Stretch

LEMMA StaticTotal ==
  ASSUME req' = req
  PROVE  Total' = Total /\ Ends' = Ends /\ \A lo, hi : Stretch(lo, hi)' = Stretch(lo, hi)
<1>1. Count' = Count /\ \A k : Whole(k)' = Whole(k)
  BY Static
<1>2. Total' = Total
  BY <1>1 DEF Total
<1> QED
  BY <1>1, <1>2 DEF Ends, Stretch

\* What a stored object is that holds a stretch of the parts.
LEMMA HoldsContent ==
  ASSUME IInv, PiecesInv, ~torn, call.at # "idle", NEW name, NEW lo, NEW hi, Holds(name, lo, hi), Stored(name)
  PROVE  objects[name] = Stretch(lo, hi)
<1>1. CASE name \notin Sources
  BY <1>1 DEF Holds
<1>2. CASE name \in Sources
  <2>1. PICK k \in 1 .. Count : name = Parts[k] /\ Whole(k) = Stretch(lo, hi)
    BY <1>2 DEF Holds
  <2>2. k \in done
    <3>1. CASE IsSingle
      BY <3>1, Wholes DEF IInv, FlowInv, CallInv, All
    <3>2. CASE ~IsSingle
      BY <2>1, <3>2 DEF PiecesInv
    <3> QED
      BY <3>1, <3>2
  <2> QED
    BY <2>1, <2>2 DEF PiecesInv
<1> QED
  BY <1>1, <1>2

LEMMA HoldsKept ==
  ASSUME req' = req, NEW name,
         name \in DOMAIN objects /\ name \notin Sources => name \in DOMAIN objects' /\ objects'[name] = objects[name]
  PROVE  \A lo, hi : Holds(name, lo, hi) => Holds(name, lo, hi)'
<1>1. Count' = Count /\ Sources' = Sources /\ Parts' = Parts /\ \A k : Whole(k)' = Whole(k)
  BY Static
<1>2. Total' = Total /\ \A lo, hi : Stretch(lo, hi)' = Stretch(lo, hi)
  BY StaticTotal
<1> QED
  BY <1>1, <1>2 DEF Holds, Stored

LEMMA StretchConcat ==
  ASSUME req \in Requests, Valid, NEW a \in Nat, NEW b \in Nat, NEW c \in Nat, a <= b, b <= c, c <= Len(Total)
  PROVE  /\ Stretch(a, b) \o Stretch(b, c) = Stretch(a, c) /\ Stretch(a, a) = <<>>
         /\ Stretch(a, b) \in Piece
<1> DEFINE S == 0 .. (req.size - 1)
<1>1. Total \in Seq(S) /\ Piece = Seq(S)
  BY TotalType DEF Piece
<1> HIDE DEF S
<1>2. /\ SubSeq(Total, a + 1, b) \o SubSeq(Total, b + 1, c) = SubSeq(Total, a + 1, c)
      /\ SubSeq(Total, a + 1, a) = <<>> /\ SubSeq(Total, a + 1, b) \in Seq(S)
  BY <1>1, SubConcat
<1> QED
  BY <1>1, <1>2 DEF Stretch

\* A step that changes no call, no request of the chunk server and, unless
\* something is torn, none but the parts and temporary objects of no account.
LEMMA JoinFrame ==
  ASSUME IInv, JoinInv, UNCHANGED <<req, dest, call, server>>, ~torn' => ~torn,
         ~torn' => \A n \in DOMAIN objects \ Sources : n \in DOMAIN objects' /\ objects'[n] = objects[n]
  PROVE  JoinInv'
<1> SUFFICES ASSUME ~torn' PROVE JoinInv'
  BY DEF JoinInv
<1>1. \A n : \A lo, hi : Holds(n, lo, hi) => Holds(n, lo, hi)'
  BY HoldsKept
<1>2. Total' = Total /\ Ends' = Ends /\ \A lo, hi : Stretch(lo, hi)' = Stretch(lo, hi)
  BY StaticTotal
<1>3. Target \notin Sources
  BY Wholes, Names DEF IInv, FlowInv
<1>4. call.at = "group" =>
         \E c, d : /\ Cuts(call.current, c, Len(Total))' /\ Cuts(call.next, d, c[call.i])'
                   /\ (call.local = Stretch(c[call.i], c[call.i + call.read]))'
  <2> SUFFICES ASSUME call.at = "group"
               PROVE  \E c, d : /\ Cuts(call.current, c, Len(Total))' /\ Cuts(call.next, d, c[call.i])'
                                /\ (call.local = Stretch(c[call.i], c[call.i + call.read]))'
    OBVIOUS
  <2>1. PICK c, d : /\ Cuts(call.current, c, Len(Total)) /\ Cuts(call.next, d, c[call.i])
                    /\ call.local = Stretch(c[call.i], c[call.i + call.read])
    BY DEF JoinInv
  <2>2. Cuts(call.current, c, Len(Total))' /\ Cuts(call.next, d, c[call.i])'
    BY <1>1, <1>2, <2>1 DEF Cuts
  <2> QED
    BY <1>2, <2>1, <2>2
<1>5. call.at = "copy" => Holds(call.current[1], 0, Len(Total))'
  BY <1>1, <1>2 DEF JoinInv
<1>6. Composed' => Target \in DOMAIN objects' /\ objects'[Target] = Total
  BY <1>3 DEF JoinInv, Composed, Stored
<1>7. server.at = "merge" => objects'[Target] = Stretch(0, Ends[IF server.copied THEN server.k ELSE server.k - 1])
  BY <1>3 DEF JoinInv, IInv, ServerInv, Stored
<1> QED
  BY <1>2, <1>4, <1>5, <1>6, <1>7 DEF JoinInv, Stored

LEMMA CutsType ==
  ASSUME req \in Requests, Valid, NEW names, Len(names) \in Nat, NEW c, NEW hi, Cuts(names, c, hi)
  PROVE  /\ \A i \in 0 .. Len(names) : c[i] \in Nat /\ c[i] <= Len(Total)
         /\ \A i, j \in 0 .. Len(names) : i <= j => c[i] <= c[j]
<1>1. c \in [0 .. Len(names) -> 0 .. Len(Total)] /\ \A j \in 1 .. Len(names) : Holds(names[j], c[j - 1], c[j])
  BY DEF Cuts
<1>2. Len(Total) \in Nat
  BY TotalType
<1>3. \A i \in 0 .. Len(names) : c[i] \in Nat /\ c[i] <= Len(Total)
  BY <1>1, <1>2
<1>4. c \in [0 .. Len(names) -> Nat]
  BY <1>1, <1>3
<1>5. \A j \in 1 .. Len(names) : c[j - 1] <= c[j]
  <2> SUFFICES ASSUME NEW j \in 1 .. Len(names) PROVE c[j - 1] <= c[j]
    OBVIOUS
  <2>1. c[j - 1] \in 0 .. c[j] /\ c[j] \in Nat
    BY <1>1, <1>3 DEF Holds
  <2> QED
    BY <2>1
<1>6. \A i, j \in 0 .. Len(names) : i <= j => c[i] <= c[j]
  BY <1>4, <1>5, Ascending
<1> QED
  BY <1>3, <1>6

\* One more object of the level, made of the next group.
LEMMA JoinGroup ==
  ASSUME IInv, FreshInv, call.at = "group", ~torn, call' = AfterGroup(call),
         UNCHANGED <<req, dest, server, torn>>,
         NEW c, NEW d, Cuts(call.current, c, Len(Total)), Cuts(call.next, d, c[call.i]),
         NEW content, content = Stretch(c[call.i], c[call.i + Len(Group)]),
         objects' = With(Temp(call.level, call.i), content)
  PROVE  JoinInv' /\ FreshInv'
<1>1. /\ CallInv /\ call \in CallRecord /\ req \in Requests /\ Valid /\ dest # "disk" /\ server.at = "idle"
      /\ call.level \in Nat /\ call.next \in Seq(Temps)
  <2>1. CallInv /\ call \in CallRecord /\ req \in Requests /\ Valid
    BY DEF IInv, CallInv, FlowInv
  <2>2. dest # "disk" /\ server.at = "idle"
    BY DEF IInv, CallInv, ServerInv
  <2> QED
    BY <2>1, <2>2 DEF CallRecord
<1>2. /\ Len(Group) \in Nat /\ Len(Group) >= 1 /\ call.i \in Nat /\ call.i < Len(call.current)
      /\ Len(call.current) \in Nat /\ call.i + Len(Group) <= Len(call.current)
      /\ Len(Group) = IF call.i + Fanout > Len(call.current) THEN Len(call.current) - call.i ELSE Fanout
      /\ Fanout \in Nat
  <2>1. /\ Group \in Seq(Sources \cup Temps) /\ Len(Group) \in Nat /\ Len(Group) >= 1 /\ call.i \in Nat
        /\ Len(Group) = IF call.i + Fanout > Len(call.current) THEN Len(call.current) - call.i ELSE Fanout
        /\ call.current \in Seq(Sources \cup Temps)
    BY <1>1, GroupIs
  <2>2. Len(call.current) \in Nat /\ call.i < Len(call.current) /\ Fanout \in Nat
    BY <1>1, <2>1, FanoutAssumption DEF CallInv
  <2> QED
    BY <2>1, <2>2
\* Names for what is there before the step.
<1>3. PICK t, cur, old, names, i, m, l :
             /\ t = Temp(call.level, call.i) /\ cur = call.current /\ old = call.next /\ l = call.level
             /\ names = Append(call.next, Temp(call.level, call.i)) /\ i = call.i /\ m = call.i + Len(Group)
  OBVIOUS
<1>4. /\ call'.local = <<>> /\ call'.read = 0 /\ l \in Nat /\ i \in Nat /\ m \in Nat /\ i < m /\ m <= Len(cur)
      /\ t \in Temps /\ Len(names) = Len(old) + 1 /\ Len(old) \in Nat /\ names[Len(names)] = t
      /\ \A j \in 1 .. Len(old) : names[j] = old[j]
      /\ Len(cur) \in Nat /\ t = Temp(l, i)
  <2>1. call'.local = <<>> /\ call'.read = 0 /\ t \in Temps
    BY <1>1, <1>3, GroupDone
  <2>2. old \in Seq(Temps) /\ names = Append(old, t)
    BY <1>1, <1>3
  <2>3. Len(names) = Len(old) + 1 /\ Len(old) \in Nat /\ names[Len(names)] = t /\ \A j \in 1 .. Len(old) : names[j] = old[j]
    BY <2>1, <2>2
  <2> QED
    BY <1>1, <1>2, <1>3, <2>1, <2>3, SMTT(30)
<1>5. \/ /\ call'.at = "group" /\ call'.current = cur /\ call'.next = names
         /\ call'.level = l /\ call'.i = m
      \/ /\ call'.at = "group" /\ call'.current = names /\ call'.next = <<>>
         /\ call'.level = l + 1 /\ call'.i = 0 /\ m = Len(cur)
      \/ /\ call'.at = "copy" /\ call'.current = names /\ call'.next = <<>> /\ Len(names) = 1 /\ m = Len(cur)
  <2> DEFINE next == Append(call.next, Temp(call.level, call.i))
  <2>1. \/ /\ call'.at = "group" /\ call'.current = call.current /\ call'.next = next
           /\ call'.level = call.level /\ call'.i = call.i + Fanout /\ call.i + Fanout < Len(call.current)
        \/ /\ call'.at = "group" /\ call'.current = next /\ call'.next = <<>>
           /\ call'.level = call.level + 1 /\ call'.i = 0 /\ call.i + Fanout >= Len(call.current)
        \/ /\ call'.at = "copy" /\ call'.current = next /\ call'.next = <<>> /\ Len(next) = 1
           /\ call.i + Fanout >= Len(call.current)
    <3> HIDE DEF next
    <3> QED
      BY <1>1, GroupDone DEF next
  <2> HIDE DEF next
  <2>2. next = names
    BY <1>3 DEF next
  <2>3. call.i + Fanout < Len(call.current) => m = call.i + Fanout
    BY <1>2, <1>3
  <2>4. call.i + Fanout >= Len(call.current) => m = Len(cur)
    BY <1>2, <1>3
  <2> QED
    BY <1>3, <2>1, <2>2, <2>3, <2>4
<1>6. /\ t \notin Sources /\ t # Target
      /\ \A j \in 1 .. Len(cur) : cur[j] # t
      /\ \A j \in 1 .. Len(old) : old[j] # t
  <2>1. Count \in Nat
    BY <1>1, Wholes
  <2>2. /\ t \notin Sources /\ t # Target
        /\ \A a, x, b, y \in Nat : Temp(a, x) = Temp(b, y) => a = b /\ x = y
    BY <1>4, <2>1, Names
  <2>3. \A j \in 1 .. Len(cur) : cur[j] \in Sources \/ \E a, x \in Nat : a < l /\ cur[j] = Temp(a, x)
    BY <1>3 DEF FreshInv
  <2>4. \A j \in 1 .. Len(old) : \E x \in 0 .. (i - 1) : old[j] = Temp(l, x)
    BY <1>3 DEF FreshInv
  <2>5. ASSUME NEW j \in 1 .. Len(cur) PROVE cur[j] # t
    BY <1>4, <2>2, <2>3
  <2>6. ASSUME NEW j \in 1 .. Len(old) PROVE old[j] # t
    <3>1. PICK x \in 0 .. (i - 1) : old[j] = Temp(l, x)
      BY <2>4
    <3>2. x \in Nat /\ x # i
      BY <1>4
    <3> QED
      BY <1>4, <2>2, <3>1, <3>2
  <2> QED
    BY <2>2, <2>5, <2>6
<1>7. t \in DOMAIN objects' /\ objects'[t] = content /\ \A n \in DOMAIN objects : n # t => n \in DOMAIN objects' /\ objects'[n] = objects[n]
  <2>1. objects' = With(t, content)
    BY <1>3
  <2> QED
    BY <2>1, WithIs
<1>8. \A n : n # t => \A lo, hi : Holds(n, lo, hi) => Holds(n, lo, hi)'
  BY <1>7, HoldsKept
<1>9. Total' = Total /\ Sources' = Sources /\ \A lo, hi : Stretch(lo, hi)' = Stretch(lo, hi)
  BY StaticTotal, Static
<1>10. Cuts(cur, c, Len(Total)) /\ Cuts(old, d, c[i])
  BY <1>3
<1>11. /\ \A j \in 0 .. Len(cur) : c[j] \in Nat /\ c[j] <= Len(Total)
       /\ \A j, k \in 0 .. Len(cur) : j <= k => c[j] <= c[k]
  BY <1>1, <1>4, <1>10, CutsType
<1>12. c[i] \in Nat /\ c[m] \in Nat /\ c[i] <= c[m] /\ c[m] <= Len(Total) /\ Len(Total) \in Nat /\ Stretch(c[m], c[m]) = <<>>
       /\ Stretch(0, 0) = <<>>
  <2>1. i \in 0 .. Len(cur) /\ m \in 0 .. Len(cur) /\ i <= m
    BY <1>4
  <2>2. c[i] \in Nat /\ c[m] \in Nat /\ c[i] <= c[m] /\ c[m] <= Len(Total)
    BY <1>11, <2>1
  <2>3. Len(Total) \in Nat
    BY <1>1, TotalType
  <2>4. \A x \in Nat : x <= Len(Total) => Stretch(x, x) = <<>>
    BY <1>1, StretchConcat
  <2> QED
    BY <2>2, <2>3, <2>4
<1>13. Cuts(cur, c, Len(Total))'
  BY <1>4, <1>6, <1>8, <1>9, <1>10 DEF Cuts
<1> DEFINE e == [j \in 0 .. Len(names) |-> IF j = Len(names) THEN c[m] ELSE d[j]]
<1>14. Holds(t, c[i], c[m])'
  <2>1. content = Stretch(c[i], c[m])
    BY <1>3
  <2> QED
    BY <1>6, <1>7, <1>9, <1>12, <2>1 DEF Holds, Stored
<1>15. Cuts(names, e, c[m])'
  <2>1. d \in [0 .. Len(old) -> 0 .. Len(Total)] /\ d[0] = 0 /\ d[Len(old)] = c[i]
        /\ \A j \in 1 .. Len(old) : Holds(old[j], d[j - 1], d[j])
    BY <1>10 DEF Cuts
  <2>2. \A j \in 0 .. Len(old) : e[j] = d[j]
    BY <1>4
  <2>3. e[Len(names)] = c[m] /\ e[0] = 0
    BY <1>4, <2>1, <2>2
  <2>4. e \in [0 .. Len(names) -> 0 .. Len(Total)]
    BY <1>4, <1>12, <2>1
  <2> HIDE DEF e
  <2>5. ASSUME NEW j \in 1 .. Len(names) PROVE Holds(names[j], e[j - 1], e[j])'
    <3>1. CASE j = Len(names)
      <4>1. names[j] = t /\ e[j - 1] = c[i] /\ e[j] = c[m]
        BY <1>4, <2>1, <2>2, <2>3, <3>1
      <4> QED
        BY <1>14, <4>1
    <3>2. CASE j # Len(names)
      <4>1. j \in 1 .. Len(old) /\ names[j] = old[j] /\ e[j - 1] = d[j - 1] /\ e[j] = d[j]
        BY <1>4, <2>2, <3>2
      <4>2. Holds(old[j], d[j - 1], d[j])'
        BY <1>6, <1>8, <2>1, <4>1
      <4> QED
        BY <4>1, <4>2
    <3> QED
      BY <3>1, <3>2
  <2> QED
    BY <1>9, <2>3, <2>4, <2>5 DEF Cuts
<1> HIDE DEF e
<1>16. ~Composed' /\ server'.at # "merge"
  BY <1>1, <1>5 DEF Composed
<1>17. CASE /\ call'.at = "group" /\ call'.current = cur /\ call'.next = names
            /\ call'.level = l /\ call'.i = m
  <2>1. Cuts(call.current, c, Len(Total))' /\ Cuts(call.next, e, c[call.i])'
    BY <1>13, <1>15, <1>17
  <2>2. call'.local = Stretch(c[m], c[m + 0])
    BY <1>4, <1>12
  <2>3. (call.local = Stretch(c[call.i], c[call.i + call.read]))'
    BY <1>4, <1>9, <1>17, <2>2
  <2>4. JoinInv'
    BY <1>16, <1>17, <2>1, <2>3 DEF JoinInv
  <2>5. FreshInv'
    <3>1. \A j \in 1 .. Len(cur) : cur[j] \in Sources \/ \E a, x \in Nat : a < l /\ cur[j] = Temp(a, x)
      BY <1>3 DEF FreshInv
    <3>2. ASSUME NEW j \in 1 .. Len(names) PROVE \E x \in 0 .. (m - 1) : names[j] = Temp(l, x)
      <4>1. CASE j = Len(names)
        BY <1>4, <4>1
      <4>2. CASE j # Len(names)
        <5>1. j \in 1 .. Len(old) /\ names[j] = old[j]
          BY <1>4, <4>2
        <5>2. PICK x \in 0 .. (i - 1) : old[j] = Temp(l, x)
          BY <1>3, <5>1 DEF FreshInv
        <5>3. x \in 0 .. (m - 1)
          BY <1>4
        <5> QED
          BY <5>1, <5>2, <5>3
      <4> QED
        BY <4>1, <4>2
    <3> QED
      BY <1>9, <1>17, <3>1, <3>2 DEF FreshInv
  <2> QED
    BY <2>4, <2>5
<1>18. CASE /\ call'.at = "group" /\ call'.current = names /\ call'.next = <<>>
            /\ call'.level = l + 1 /\ call'.i = 0 /\ m = Len(cur)
  <2> DEFINE z == [j \in 0 .. 0 |-> 0]
  <2>0. c[m] = Len(Total) /\ e[0] = 0
    BY <1>10, <1>15, <1>18 DEF Cuts
  <2>1. Cuts(call.current, e, Len(Total))'
    BY <1>9, <1>15, <1>18, <2>0
  <2>2. Cuts(<<>>, z, e[0])'
    BY <1>9, <1>12, <2>0 DEF Cuts
  <2>3. Cuts(call.next, z, e[call.i])'
    BY <1>18, <2>2
  <2>4. (call.local = Stretch(e[call.i], e[call.i + call.read]))'
    BY <1>4, <1>9, <1>12, <1>18, <2>0
  <2>5. JoinInv'
    BY <1>16, <1>18, <2>1, <2>3, <2>4 DEF JoinInv
  <2>6. FreshInv'
    <3>1. ASSUME NEW j \in 1 .. Len(names) PROVE \E a, x \in Nat : a < l + 1 /\ names[j] = Temp(a, x)
      <4>1. CASE j = Len(names)
        BY <1>4, <4>1
      <4>2. CASE j # Len(names)
        <5>1. j \in 1 .. Len(old) /\ names[j] = old[j]
          BY <1>4, <4>2
        <5>2. PICK x \in 0 .. (i - 1) : old[j] = Temp(l, x)
          BY <1>3, <5>1 DEF FreshInv
        <5>3. x \in Nat /\ l < l + 1
          BY <1>4
        <5> QED
          BY <1>4, <5>1, <5>2, <5>3
      <4> QED
        BY <4>1, <4>2
    <3> QED
      BY <1>9, <1>18, <3>1 DEF FreshInv
  <2> QED
    BY <2>5, <2>6
<1>19. CASE call'.at = "copy" /\ call'.current = names /\ call'.next = <<>> /\ Len(names) = 1 /\ m = Len(cur)
  <2>1. c[m] = Len(Total)
    BY <1>10, <1>19 DEF Cuts
  <2>2. \A j \in 1 .. 1 : Holds(names[j], e[j - 1], e[j])'
    BY <1>15, <1>19 DEF Cuts
  <2>3. e[0] = 0 /\ e[1] = Len(Total)
    BY <1>15, <1>19, <2>1 DEF Cuts
  <2>4. Holds(names[1], 0, Len(Total))'
    <3>1. Holds(names[1], e[1 - 1], e[1])'
      BY <2>2
    <3> QED
      BY <1>9, <2>3, <3>1
  <2>5. Holds(call.current[1], 0, Len(Total))'
    BY <1>19, <2>4
  <2> QED
    BY <1>16, <1>19, <2>5 DEF JoinInv, FreshInv
<1> QED
  BY <1>5, <1>17, <1>18, <1>19

\* No claim is left where a call has failed.
LEMMA JoinFails ==
  ASSUME IInv, call.at \in {"group", "copy", "final", "clean"}, call' = Failed, server' = server, dest' = dest
  PROVE  JoinInv' /\ FreshInv'
<1>1. call'.at = "error"
  BY DEF Failed, IInv, CallInv, CallRecord
<1>2. server.at = "idle"
  BY DEF IInv, ServerInv, CallInv
<1> QED
  BY <1>1, <1>2 DEF JoinInv, FreshInv, Composed

LEMMA JoinTree ==
  ASSUME IInv, PiecesInv, FreshInv, JoinInv, ComposeGroup \/ ReadPart \/ PutTemp, UNCHANGED <<req, phase, flowVars>>
  PROVE  JoinInv' /\ FreshInv'
<1>1. /\ call.at = "group" /\ UNCHANGED <<req, dest, server, torn>>
      /\ CallInv /\ call \in CallRecord /\ req \in Requests /\ Valid /\ server.at = "idle"
  <2>1. call.at = "group" /\ UNCHANGED <<req, dest, server, torn>>
    BY DEF ComposeGroup, ReadPart, PutTemp, flowVars
  <2> QED
    BY <2>1 DEF IInv, CallInv, FlowInv, ServerInv
<1>2. CASE call' = Failed
  BY <1>1, <1>2, JoinFails
<1>3. CASE torn
  BY <1>1, <1>3 DEF JoinInv, FreshInv
<1> SUFFICES ASSUME ~torn, call' # Failed PROVE JoinInv' /\ FreshInv'
  BY <1>2, <1>3
<1>4. PICK c, d : /\ Cuts(call.current, c, Len(Total)) /\ Cuts(call.next, d, c[call.i])
                  /\ call.local = Stretch(c[call.i], c[call.i + call.read])
  BY <1>1 DEF JoinInv
<1>5. /\ Group \in Seq(Sources \cup Temps) /\ Len(Group) \in Nat /\ Len(Group) >= 1
      /\ \A j \in 1 .. Len(Group) : Group[j] = call.current[call.i + j]
      /\ call.i \in Nat /\ call.i + Len(Group) <= Len(call.current) /\ Len(call.current) \in Nat
      /\ call.read \in Nat /\ call.read <= Len(Group) /\ DOMAIN Group = 1 .. Len(Group)
  <2>1. /\ Group \in Seq(Sources \cup Temps) /\ Len(Group) \in Nat /\ Len(Group) >= 1 /\ call.i \in Nat
        /\ Len(Group) = IF call.i + Fanout > Len(call.current) THEN Len(call.current) - call.i ELSE Fanout
        /\ \A j \in 1 .. Len(Group) : Group[j] = call.current[call.i + j]
        /\ call.current \in Seq(Sources \cup Temps) /\ DOMAIN Group = 1 .. Len(Group)
    BY <1>1, GroupIs
  <2>2. Len(call.current) \in Nat /\ call.i < Len(call.current) /\ Fanout \in Nat
        /\ call.read \in Nat /\ call.read <= Len(Group)
    BY <1>1, <2>1, FanoutAssumption DEF CallInv, CallRecord
  <2>3. call.i + Len(Group) <= Len(call.current)
    BY <2>1, <2>2
  <2> QED
    BY <2>1, <2>2, <2>3
<1>6. /\ \A j \in 0 .. Len(call.current) : c[j] \in Nat /\ c[j] <= Len(Total)
      /\ \A j, k \in 0 .. Len(call.current) : j <= k => c[j] <= c[k]
  <2>1. \E names : names = call.current
    OBVIOUS
  <2> QED
    BY <1>1, <1>4, <1>5, <2>1, CutsType
\* What a member of the group holds, if it is there.
<1>7. ASSUME NEW j \in 1 .. Len(Group), Stored(Group[j])
      PROVE  objects[Group[j]] = Stretch(c[call.i + j - 1], c[call.i + j])
  <2>1. call.i + j \in 1 .. Len(call.current) /\ (call.i + j) - 1 = call.i + j - 1
    BY <1>5
  <2>2. Holds(call.current[call.i + j], c[(call.i + j) - 1], c[call.i + j])
    BY <1>4, <2>1 DEF Cuts
  <2>3. Holds(Group[j], c[call.i + j - 1], c[call.i + j])
    BY <1>5, <2>1, <2>2
  <2>4. call.at # "idle"
    BY <1>1
  <2> QED
    BY <1>7, <2>3, <2>4, HoldsContent
<1>8. CASE ComposeGroup
  <2>1. /\ \A k \in DOMAIN Group : Stored(Group[k])
        /\ objects' = With(Temp(call.level, call.i), Contents(Group)) /\ call' = AfterGroup(call)
    BY <1>8 DEF ComposeGroup, Request
  <2>2. Contents(Group) = Stretch(c[call.i], c[call.i + Len(Group)])
    <3> DEFINE n == Len(Group)
               b == [k \in 0 .. n |-> c[call.i + k]]
               s == [k \in DOMAIN Group |-> objects[Group[k]]]
    <3>1. s \in Seq(Piece) /\ Len(s) = n /\ Contents(Group) = FlattenSeq(s)
      <4>1. s \in Seq(Piece) /\ Len(s) = n
        BY <1>5, <2>1, ContentsType DEF IInv
      <4> QED
        BY <4>1 DEF Contents
    <3>2. b \in [0 .. n -> 0 .. Len(Total)] /\ b[0] = c[call.i] /\ b[n] = c[call.i + n]
      <4>1. Len(Total) \in Nat
        BY <1>1, TotalType
      <4>2. \A k \in 0 .. n : c[call.i + k] \in 0 .. Len(Total)
        BY <1>5, <1>6, <4>1
      <4> QED
        BY <1>5, <4>2
    <3>3. ASSUME NEW k \in 1 .. n PROVE b[k - 1] <= b[k] /\ s[k] = SubSeq(Total, b[k - 1] + 1, b[k])
      <4>1. b[k - 1] = c[call.i + k - 1] /\ b[k] = c[call.i + k] /\ s[k] = objects[Group[k]]
        BY <1>5
      <4>2. s[k] = Stretch(c[call.i + k - 1], c[call.i + k])
        BY <1>5, <1>7, <2>1, <4>1
      <4>3. c[call.i + k - 1] <= c[call.i + k]
        <5>1. call.i + k - 1 \in 0 .. Len(call.current) /\ call.i + k \in 0 .. Len(call.current)
              /\ call.i + k - 1 <= call.i + k
          BY <1>5
        <5> QED
          BY <1>6, <5>1
      <4> HIDE DEF b, s
      <4> QED
        BY <4>1, <4>2, <4>3 DEF Stretch
    <3> HIDE DEF b, s
    <3>4. Total \in Piece /\ n \in Nat
      BY <1>1, <1>5, TotalType
    <3> HIDE DEF n
    <3>5. FlattenSeq(s) = SubSeq(Total, b[0] + 1, b[n])
      <4> DEFINE S == 0 .. (req.size - 1)
      <4>1. Total \in Seq(S) /\ s \in Seq(Seq(S))
        BY <3>1, <3>4 DEF Piece
      <4> HIDE DEF S
      <4>2. n \in Nat /\ Len(s) = n /\ b \in [0 .. n -> 0 .. Len(Total)]
        BY <3>1, <3>2, <3>4
      <4>3. \A k \in 1 .. n : b[k - 1] <= b[k] /\ s[k] = SubSeq(Total, b[k - 1] + 1, b[k])
        BY <3>3
      <4> QED
        BY <4>1, <4>2, <4>3, FlattenPieces
    <3> QED
      BY <3>1, <3>2, <3>5 DEF n, Stretch
  <2> QED
    BY <1>1, <1>4, <2>1, <2>2, JoinGroup
<1>9. CASE PutTemp
  <2>1. /\ objects' = With(Temp(call.level, call.i), call.local) /\ call' = AfterGroup(call)
        /\ call.read = Len(Group)
    BY <1>9 DEF PutTemp, Request
  <2>2. call.local = Stretch(c[call.i], c[call.i + Len(Group)])
    BY <1>4, <2>1
  <2> QED
    BY <1>1, <1>4, <2>1, <2>2, JoinGroup
<1>10. CASE ReadPart
  <2>1. /\ call.read < Len(Group) /\ Stored(Group[call.read + 1]) /\ objects' = objects
        /\ call' = [call EXCEPT !.read = @ + 1, !.local = @ \o objects[Group[call.read + 1]]]
    BY <1>10 DEF ReadPart
  <2>2. /\ call'.at = "group" /\ call'.current = call.current /\ call'.next = call.next
        /\ call'.level = call.level /\ call'.i = call.i /\ call'.read = call.read + 1
        /\ call'.local = call.local \o objects[Group[call.read + 1]]
    BY <1>1, <2>1 DEF CallRecord
  <2>3. objects[Group[call.read + 1]] = Stretch(c[call.i + call.read], c[call.i + (call.read + 1)])
    <3>1. call.read + 1 \in 1 .. Len(Group) /\ call.i + (call.read + 1) - 1 = call.i + call.read
      BY <1>5, <2>1
    <3> QED
      BY <1>7, <2>1, <3>1
  <2>4. call'.local = Stretch(c[call.i], c[call.i + (call.read + 1)])
    <3>1. /\ call.i \in 0 .. Len(call.current) /\ call.i + call.read \in 0 .. Len(call.current)
          /\ call.i + (call.read + 1) \in 0 .. Len(call.current)
          /\ call.i <= call.i + call.read /\ call.i + call.read <= call.i + (call.read + 1)
      BY <1>5, <2>1, SMTT(30)
    <3> DEFINE x == c[call.i]
               y == c[call.i + call.read]
               z == c[call.i + (call.read + 1)]
    <3>2. x \in Nat /\ y \in Nat /\ z \in Nat /\ x <= y /\ y <= z /\ z <= Len(Total)
      BY <1>6, <3>1
    <3> HIDE DEF x, y, z
    <3>3. Stretch(x, y) \o Stretch(y, z) = Stretch(x, z)
      BY <1>1, <3>2, StretchConcat
    <3> QED
      BY <1>4, <2>2, <2>3, <3>3 DEF x, y, z
  <2>5. \A n : \A lo, hi : Holds(n, lo, hi) => Holds(n, lo, hi)'
    BY <1>1, <2>1, HoldsKept
  <2>6. Total' = Total /\ Sources' = Sources /\ \A lo, hi : Stretch(lo, hi)' = Stretch(lo, hi)
    BY <1>1, StaticTotal, Static
  <2>7. Cuts(call.current, c, Len(Total))' /\ Cuts(call.next, d, c[call.i])'
    BY <1>4, <2>2, <2>5, <2>6 DEF Cuts
  <2>8. (call.local = Stretch(c[call.i], c[call.i + call.read]))'
    BY <2>2, <2>4, <2>6
  <2>9. ~Composed' /\ server'.at # "merge"
    BY <1>1, <2>2 DEF Composed
  <2>10. JoinInv'
    BY <2>2, <2>7, <2>8, <2>9 DEF JoinInv
  <2>11. FreshInv'
    BY <1>1, <2>2, <2>6 DEF FreshInv
  <2> QED
    BY <2>10, <2>11
<1> QED
  BY <1>8, <1>9, <1>10

LEMMA JoinCopy ==
  ASSUME IInv, PiecesInv, JoinInv, CopyFinal, UNCHANGED <<req, phase, flowVars>>
  PROVE  JoinInv' /\ FreshInv'
<1>1. /\ call.at = "copy" /\ UNCHANGED <<req, dest, server, torn>>
      /\ call \in CallRecord /\ req \in Requests /\ Valid /\ server.at = "idle"
  <2>1. call.at = "copy" /\ UNCHANGED <<req, dest, server, torn>>
    BY DEF CopyFinal, flowVars
  <2> QED
    BY <2>1 DEF IInv, CallInv, FlowInv, ServerInv
<1>2. CASE call' = Failed
  BY <1>1, <1>2, JoinFails
<1> DEFINE at == IF dest = "gcs" /\ Len(call.parts) > 1 THEN "final" ELSE "clean"
           content == objects[call.current[1]]
<1>3. CASE /\ Stored(call.current[1]) /\ objects' = With(Target, content)
           /\ call' = [call EXCEPT !.at = at, !.doomed = ToDelete]
  <2>1. call'.at \in {"final", "clean"}
    BY <1>1, <1>3 DEF CallRecord
  <2>2. ~torn => content = Total
    <3> SUFFICES ASSUME ~torn PROVE content = Total
      OBVIOUS
    <3>1. Holds(call.current[1], 0, Len(Total)) /\ call.at # "idle"
      BY <1>1 DEF JoinInv
    <3>2. content = Stretch(0, Len(Total))
      BY <1>3, <3>1, HoldsContent
    <3> QED
      BY <1>1, <3>2, TotalType
  <2>3. Target \in DOMAIN objects' /\ objects'[Target] = content
    BY <1>3, WithIs, ZenonT(40)
  <2>4. Total' = Total
    BY <1>1, StaticTotal
  <2> QED
    BY <1>1, <2>1, <2>2, <2>3, <2>4 DEF JoinInv, FreshInv, Stored
<1> QED
  BY <1>2, <1>3 DEF CopyFinal, Request

LEMMA JoinDelete ==
  ASSUME IInv, JoinInv, DeleteFinalTemp \/ DeleteOne \/ EndClean, UNCHANGED <<req, phase, flowVars>>
  PROVE  /\ JoinInv' /\ FreshInv'
         /\ ~torn => \A n \in DOMAIN objects \ DOMAIN objects' : Target \in DOMAIN objects' /\ objects'[Target] = Total
<1>1. /\ call.at \in {"final", "clean"} /\ UNCHANGED <<req, dest, server, torn>>
      /\ call \in CallRecord /\ req \in Requests /\ server.at = "idle" /\ dest # "disk"
      /\ Count \in Nat
      /\ call.at = "final" => Len(call.current) = 1
  <2>1. call.at \in {"final", "clean"} /\ UNCHANGED <<req, dest, server, torn>>
    BY DEF DeleteFinalTemp, DeleteOne, EndClean, flowVars
  <2> QED
    BY <2>1, Wholes DEF IInv, CallInv, FlowInv, ServerInv
<1>2. \/ objects' = objects
      \/ DeleteFinalTemp /\ objects' = WithoutObject(call.current[1])
      \/ DeleteOne /\ objects' = WithoutObject(Head(call.doomed))
  BY DEF DeleteFinalTemp, DeleteOne, EndClean, Request
<1>3. Target \notin Sources \cup Temps
  BY <1>1, Names
<1>4. /\ DeleteFinalTemp => call.current[1] # Target
      /\ DeleteOne => Head(call.doomed) # Target
  <2>1. DeleteFinalTemp => call.current[1] \in Sources \cup Temps
    <3> SUFFICES ASSUME DeleteFinalTemp PROVE call.current[1] \in Sources \cup Temps
      OBVIOUS
    <3>1. Len(call.current) = 1 /\ call.current \in Seq(Sources \cup Temps)
      BY <1>1 DEF DeleteFinalTemp, CallRecord
    <3> QED
      BY <3>1
  <2>2. DeleteOne => Head(call.doomed) \in Sources \cup Temps
    <3> SUFFICES ASSUME DeleteOne PROVE Head(call.doomed) \in Sources \cup Temps
      OBVIOUS
    <3>1. call.doomed # <<>> /\ call.doomed \in Seq(Sources \cup Temps)
      BY <1>1 DEF DeleteOne, CallRecord
    <3> QED
      BY <3>1
  <2> QED
    BY <1>3, <2>1, <2>2
<1>5. Target \in DOMAIN objects => Target \in DOMAIN objects' /\ objects'[Target] = objects[Target]
  BY <1>2, <1>4, Removing, ZenonT(40)
<1>6. ~torn => Target \in DOMAIN objects' /\ objects'[Target] = Total
  BY <1>1, <1>5 DEF JoinInv, Composed, Stored
<1>7. call'.at \in {"clean", "ok", "error"}
  BY <1>1 DEF DeleteFinalTemp, DeleteOne, EndClean, Request, Failed, CallRecord
<1>8. Total' = Total
  BY <1>1, StaticTotal
<1>9. JoinInv' /\ FreshInv'
  BY <1>1, <1>6, <1>7, <1>8 DEF JoinInv, FreshInv, Stored
<1> QED
  BY <1>6, <1>9

LEMMA JoinPost ==
  ASSUME IInv, JoinInv, PostMerge \/ Answered, UNCHANGED <<req, phase, flowVars>>
  PROVE  JoinInv' /\ FreshInv'
<1>1. /\ call.at \in {"post", "wait"} /\ UNCHANGED <<req, dest, objects, torn>>
      /\ call \in CallRecord /\ dest = "disk"
  <2>1. call.at \in {"post", "wait"} /\ UNCHANGED <<req, dest, objects, torn>>
    BY DEF PostMerge, Answered, flowVars
  <2> QED
    BY <2>1 DEF IInv, CallInv
<1>2. call'.at \in {"wait", "ok", "error"}
  BY <1>1 DEF PostMerge, Answered, Failed, CallRecord
<1>3. server' = server \/ server'.at = "asked"
  BY DEF PostMerge, Answered, IInv, ServerInv
<1>4. Total' = Total /\ Ends' = Ends /\ \A lo, hi : Stretch(lo, hi)' = Stretch(lo, hi)
  BY <1>1, StaticTotal
<1>5. Composed' => Composed
  BY <1>1, <1>2, <1>3 DEF Composed
<1>6. ~torn' /\ server'.at = "merge" =>
         objects'[Target] = Stretch(0, Ends[IF server'.copied THEN server'.k ELSE server'.k - 1])
  BY <1>1, <1>3 DEF JoinInv
<1> QED
  BY <1>1, <1>2, <1>4, <1>5, <1>6 DEF JoinInv, FreshInv, Stored

LEMMA JoinBegin ==
  ASSUME IInv, IInv', call = Idle, BeginCompose(Parts), UNCHANGED <<req, done, failed, late, uncomposed, torn>>
  PROVE  JoinInv' /\ FreshInv'
<1>1. UNCHANGED <<req, dest, server, torn>> /\ server.at = "idle" /\ req \in Requests
  <2>1. call.at = "idle"
    BY DEF Idle
  <2> QED
    BY <2>1 DEF BeginCompose, IInv, ServerInv, NoRequest, FlowInv
<1>2. \/ call'.at \in {"post", "error"}
      \/ /\ call'.at \in {"group", "copy"} /\ call'.current = Parts /\ call'.next = <<>> /\ call'.i = 0
         /\ call'.read = 0 /\ call'.local = <<>>
  BY DEF BeginCompose, Failed, Idle
<1>3. CASE call'.at \in {"post", "error"}
  BY <1>1, <1>3 DEF JoinInv, FreshInv, Composed
<1>4. CASE /\ call'.at \in {"group", "copy"} /\ call'.current = Parts /\ call'.next = <<>> /\ call'.i = 0
           /\ call'.read = 0 /\ call'.local = <<>>
  <2>1. /\ Valid /\ Count \in Nat /\ Count >= 1
        /\ call'.at = "copy" => Count = 1
    <3>1. Valid' /\ (call'.at = "copy" => Len(call'.current) = 1)
      BY <1>4 DEF IInv, CallInv
    <3>2. Valid /\ Count \in Nat /\ Count >= 1
      BY <1>1, <3>1, Static, Wholes
    <3> QED
      BY <1>4, <3>1, <3>2, Names
  <2>2. /\ Total \in Piece /\ Len(Total) \in Nat
        /\ Ends \in [0 .. Count -> 0 .. Len(Total)] /\ Ends[0] = 0 /\ Ends[Count] = Len(Total)
        /\ \A k \in 1 .. Count : Ends[k - 1] <= Ends[k] /\ Whole(k) = Stretch(Ends[k - 1], Ends[k])
    BY <1>1, <2>1, TotalType
  <2>3. Total' = Total /\ Sources' = Sources /\ Parts' = Parts /\ Count' = Count /\ (\A k : Whole(k)' = Whole(k))
        /\ Ends' = Ends /\ \A lo, hi : Stretch(lo, hi)' = Stretch(lo, hi)
    BY <1>1, StaticTotal, Static
  <2>4. /\ Len(Parts) = Count /\ \A k \in 1 .. Count : Parts[k] \in Sources
    BY <2>1, Names DEF Sources
  <2>5. \A k \in 1 .. Count : Holds(Parts[k], Ends[k - 1], Ends[k])'
    <3> SUFFICES ASSUME NEW k \in 1 .. Count PROVE Holds(Parts[k], Ends[k - 1], Ends[k])'
      OBVIOUS
    <3>1. Ends[k - 1] \in 0 .. Ends[k] /\ Ends[k] \in 0 .. Len(Total)
      BY <2>1, <2>2
    <3>2. PICK n, lo, hi : n = Parts[k] /\ lo = Ends[k - 1] /\ hi = Ends[k]
      OBVIOUS
    <3>3. Holds(n, lo, hi)
      BY <2>2, <2>4, <3>1, <3>2 DEF Holds
    <3>4. n \in Sources
      BY <2>4, <3>2
    <3>5. Holds(n, lo, hi)'
      BY <1>1, <3>3, <3>4, HoldsKept
    <3>6. n = Parts'[k] /\ lo = Ends'[k - 1] /\ hi = Ends'[k]
      BY <2>3, <3>2
    <3> QED
      BY <3>5, <3>6
  <2>6. Stretch(0, 0) = <<>>
    <3>1. \A x \in Nat : x <= Len(Total) => Stretch(x, x) = <<>>
      BY <1>1, <2>1, StretchConcat
    <3> QED
      BY <2>2, <3>1
  <2>7. ~Composed' /\ server'.at # "merge"
    BY <1>1, <1>4 DEF Composed
  <2>8. CASE call'.at = "group"
    <3>1. PICK c, z, n : c = Ends /\ z = [j \in 0 .. 0 |-> 0] /\ n = Len(Total)
      OBVIOUS
    <3>2. Len(call'.current) = Count
      BY <1>4, <2>4
    <3>3. c \in [0 .. Len(call'.current) -> 0 .. Len(Total')] /\ c[0] = 0 /\ c[Len(call'.current)] = Len(Total')
      BY <2>2, <2>3, <3>1, <3>2
    <3>4. \A j \in 1 .. Len(call'.current) : Holds(call.current[j], c[j - 1], c[j])'
      <4> SUFFICES ASSUME NEW j \in 1 .. Count PROVE Holds(call.current[j], c[j - 1], c[j])'
        BY <3>2
      <4>1. Holds(Parts[j], Ends[j - 1], Ends[j])'
        BY <2>5
      <4>2. call'.current[j] = Parts'[j] /\ c[j - 1] = Ends'[j - 1] /\ c[j] = Ends'[j]
        BY <1>4, <2>3, <3>1
      <4> QED
        BY <4>1, <4>2
    <3>5. Cuts(call.current, c, Len(Total))'
      BY <3>3, <3>4 DEF Cuts
    <3>6. c[0] = 0 /\ Len(Total') \in Nat
      BY <2>2, <2>3, <3>1
    <3>7. Cuts(<<>>, z, 0)'
      BY <3>1, <3>6 DEF Cuts
    <3>8. Cuts(call.next, z, c[call.i])'
      BY <1>4, <3>6, <3>7
    <3>9. (call.local = Stretch(c[call.i], c[call.i + call.read]))'
      BY <1>4, <2>3, <2>6, <3>6
    <3>10. JoinInv'
      BY <2>7, <2>8, <3>5, <3>8, <3>9 DEF JoinInv
    <3>11. FreshInv'
      BY <1>4, <2>3, <2>4, <3>2 DEF FreshInv
    <3> QED
      BY <3>10, <3>11
  <2>9. CASE call'.at = "copy"
    <3>1. Count = 1 /\ 1 \in 1 .. Count
      BY <2>1, <2>9
    <3>2. Holds(Parts[1], Ends[1 - 1], Ends[1])'
      BY <2>5, <3>1
    <3>3. call'.current[1] = Parts'[1] /\ Ends'[1 - 1] = 0 /\ Ends'[1] = Len(Total')
      BY <1>4, <2>2, <2>3, <3>1
    <3>4. Holds(call.current[1], 0, Len(Total))'
      BY <3>2, <3>3
    <3> QED
      BY <2>7, <2>9, <3>4 DEF JoinInv, FreshInv
  <2> QED
    BY <1>4, <2>8, <2>9
<1> QED
  BY <1>2, <1>3, <1>4

LEMMA SubIncludes ==
  ASSUME NEW S, NEW t \in Seq(S), NEW a \in Nat, NEW b \in Nat, NEW c \in Nat, a <= b, b <= c, c <= Len(t)
  PROVE  Includes(SubSeq(t, 1, c), SubSeq(t, a + 1, b))
<1> DEFINE whole == SubSeq(t, 1, c)
           piece == SubSeq(t, a + 1, b)
<1>1. Len(whole) = c /\ Len(piece) = b - a
  OBVIOUS
<1>2. a \in 0 .. (Len(whole) - Len(piece))
  BY <1>1
<1>3. SubSeq(whole, a + 1, a + Len(piece)) = piece
  <2>1. a + Len(piece) = b
    BY <1>1
  <2>2. SubSeq(whole, a + 1, b) = piece
    OBVIOUS
  <2> QED
    BY <2>1, <2>2
<1> HIDE DEF whole, piece
<1>4. Includes(whole, piece)
  BY <1>2, <1>3 DEF Includes
<1> QED
  BY <1>4 DEF whole, piece

\* A part that is stored, up to the end of which everything was joined.
LEMMA PartIncluded ==
  ASSUME IInv, PiecesInv, ~torn, call.at # "idle", Valid,
         NEW k \in 1 .. Count, Stored(Parts[k]), NEW m \in k .. Count
  PROVE  Includes(Stretch(0, Ends[m]), objects[Parts[k]])
<1>1. /\ req \in Requests /\ Count \in Nat /\ Total \in Piece /\ Len(Total) \in Nat
      /\ Ends \in [0 .. Count -> 0 .. Len(Total)] /\ Ends[0] = 0 /\ Ends[Count] = Len(Total)
      /\ \A j \in 1 .. Count : Ends[j - 1] <= Ends[j] /\ Whole(j) = Stretch(Ends[j - 1], Ends[j])
  <2>1. req \in Requests
    BY DEF IInv, FlowInv
  <2> QED
    BY <2>1, TotalType
<1>2. PICK a, b, c : a = Ends[k - 1] /\ b = Ends[k] /\ c = Ends[m]
  OBVIOUS
<1>3. a \in Nat /\ b \in Nat /\ c \in Nat /\ a <= b /\ b <= c /\ c <= Len(Total)
  <2>1. k - 1 \in 0 .. Count /\ k \in 0 .. Count /\ m \in 0 .. Count /\ k <= m
    BY <1>1
  <2>2. a \in Nat /\ b \in Nat /\ c \in Nat /\ a <= b /\ c <= Len(Total)
    BY <1>1, <1>2, <2>1
  <2>3. \A i, j \in 0 .. Count : i <= j => Ends[i] <= Ends[j]
    <3>1. PICK e : e = Ends
      OBVIOUS
    <3>2. e \in [0 .. Count -> Nat] /\ \A j \in 1 .. Count : e[j - 1] <= e[j]
      BY <1>1, <3>1
    <3>3. \A i, j \in 0 .. Count : i <= j => e[i] <= e[j]
      BY <1>1, <3>2, Ascending
    <3> QED
      BY <3>1, <3>3
  <2> QED
    BY <1>2, <2>1, <2>2, <2>3
<1>4. objects[Parts[k]] = Stretch(a, b)
  <2>1. Parts[k] \in Sources
    BY DEF Sources
  <2>2. a \in 0 .. b /\ b \in 0 .. Len(Total)
    BY <1>1, <1>3
  <2>3. Holds(Parts[k], a, b)
    BY <1>1, <1>2, <2>1, <2>2 DEF Holds
  <2> QED
    BY <2>3, HoldsContent
<1>5. Includes(Stretch(0, c), Stretch(a, b))
  <2> DEFINE S == 0 .. (req.size - 1)
  <2>1. Total \in Seq(S)
    BY <1>1 DEF Piece
  <2> HIDE DEF S
  <2>2. Includes(SubSeq(Total, 1, c), SubSeq(Total, a + 1, b))
    BY <1>3, <2>1, SubIncludes
  <2> QED
    BY <2>2 DEF Stretch
<1> QED
  BY <1>2, <1>4, <1>5

\* What a removal must leave: the final object has it all.
Kept == \A n \in DOMAIN objects \ DOMAIN objects' :
          n \in Sources => Target \in DOMAIN objects' /\ Includes(objects'[Target], objects[n])

LEMMA JoinRename ==
  ASSUME IInv, PiecesInv, ~torn, server.at = "asked", Len(call.parts) = 1, Stored(call.parts[1]),
         objects' = Put(WithoutObject(call.parts[1]), Target, objects[call.parts[1]])
  PROVE  /\ Target \in DOMAIN objects' /\ objects'[Target] = Total
         /\ Kept
<1>1. req \in Requests /\ Valid /\ call.parts = Parts /\ call.at # "idle"
  BY DEF IInv, ServerInv, CallInv, FlowInv
<1>2. Count = 1 /\ Len(Parts) = 1 /\ Count \in Nat
  BY <1>1, Wholes, Names
<1>3. PICK name, content : name = Parts[1] /\ content = objects[Parts[1]]
  OBVIOUS
<1>4. /\ DOMAIN objects' = (DOMAIN objects \ {name}) \cup {Target} /\ objects'[Target] = content
  <2> DEFINE rest == WithoutObject(name)
             put == Put(rest, Target, content)
  <2>1. DOMAIN rest = DOMAIN objects \ {name}
    BY DEF WithoutObject, Restrict
  <2> HIDE DEF rest
  <2>2. DOMAIN put = DOMAIN rest \cup {Target} /\ put[Target] = content
    BY DEF Put
  <2>3. objects' = put
    BY <1>1, <1>3 DEF rest
  <2> HIDE DEF put
  <2> QED
    BY <2>1, <2>2, <2>3
<1>5. Stored(Parts[1]) /\ 1 \in 1 .. Count
  BY <1>1, <1>2
<1>6. /\ Ends[0] = 0 /\ Ends[1] = Len(Total) /\ Stretch(0, Len(Total)) = Total
      /\ Len(Total) \in Nat /\ Whole(1) = Stretch(0, Len(Total))
  <2>1. /\ Ends[0] = 0 /\ Ends[Count] = Len(Total) /\ Stretch(0, Len(Total)) = Total
        /\ Len(Total) \in Nat /\ \A k \in 1 .. Count : Whole(k) = Stretch(Ends[k - 1], Ends[k])
    BY <1>1, TotalType
  <2>2. Whole(1) = Stretch(Ends[1 - 1], Ends[1])
    BY <1>5, <2>1
  <2> QED
    BY <1>2, <2>1, <2>2
<1>7. content = Total
  <2>1. Parts[1] \in Sources
    BY <1>5 DEF Sources
  <2>2. Holds(Parts[1], 0, Len(Total))
    <3>1. 0 \in 0 .. Len(Total) /\ Len(Total) \in 0 .. Len(Total)
      BY <1>6
    <3> QED
      BY <1>5, <1>6, <2>1, <3>1 DEF Holds
  <2>3. objects[Parts[1]] = Stretch(0, Len(Total))
    BY <1>1, <1>5, <2>2, HoldsContent
  <2> QED
    BY <1>3, <1>6, <2>3
<1>8. Includes(Total, objects[Parts[1]])
  <2>1. Includes(Stretch(0, Ends[1]), objects[Parts[1]])
    <3>1. 1 \in 1 .. Count
      BY <1>2
    <3> QED
      BY <1>1, <1>5, <3>1, PartIncluded
  <2> QED
    BY <1>6, <2>1
<1>9. \A n \in DOMAIN objects \ DOMAIN objects' : n = Parts[1]
  BY <1>3, <1>4
<1> QED
  BY <1>4, <1>7, <1>8, <1>9 DEF Kept

LEMMA JoinMerge ==
  ASSUME IInv, PiecesInv, JoinInv, ServerStep, UNCHANGED <<req, phase, flowVars>>
  PROVE  JoinInv' /\ FreshInv' /\ (~torn => Kept)
<1>1. /\ UNCHANGED <<req, dest, torn>> /\ server.at \in {"asked", "merge"}
      /\ call' = call \/ call' = [call EXCEPT !.warned = TRUE]
  BY DEF ServerStep, BeginMerge, CopyChunk, RemoveChunk, ServerFails, flowVars
<1>2. /\ dest = "disk" /\ call.at \in {"wait", "error"} /\ req \in Requests /\ Valid /\ call.parts = Parts
      /\ call \in CallRecord /\ server \in [at : ServerStates, k : Nat, copied : BOOLEAN]
      /\ server.at = "asked" => ~server.copied
      /\ server.at = "merge" => server.k \in 1 .. Count /\ Stored(Target)
  BY <1>1 DEF IInv, ServerInv, CallInv, FlowInv
<1>3. call'.at = call.at
  BY <1>1, <1>2 DEF CallRecord
<1>4. FreshInv'
  BY <1>2, <1>3 DEF FreshInv
<1>5. CASE torn
  BY <1>1, <1>4, <1>5 DEF JoinInv
<1> SUFFICES ASSUME ~torn PROVE JoinInv' /\ Kept
  BY <1>4, <1>5
<1>6. /\ Count \in Nat /\ Total \in Piece /\ Len(Total) \in Nat /\ Stretch(0, Len(Total)) = Total
      /\ Ends \in [0 .. Count -> 0 .. Len(Total)] /\ Ends[0] = 0 /\ Ends[Count] = Len(Total)
      /\ \A k \in 1 .. Count : Ends[k - 1] <= Ends[k] /\ Whole(k) = Stretch(Ends[k - 1], Ends[k])
      /\ Total' = Total /\ Ends' = Ends /\ \A lo, hi : Stretch(lo, hi)' = Stretch(lo, hi)
  BY <1>1, <1>2, TotalType, StaticTotal
<1>7. /\ Target \notin Sources /\ Len(Parts) = Count /\ \A k \in 1 .. Count : Parts[k] \in Sources
  BY <1>6, Names DEF Sources
\* What is to be shown of each outcome.
<1>8. ASSUME server'.at = "failed" PROVE JoinInv'
  BY <1>2, <1>3, <1>8 DEF JoinInv, Composed
<1>9. ASSUME server'.at = "merged", Target \in DOMAIN objects', objects'[Target] = Total PROVE JoinInv'
  BY <1>2, <1>3, <1>6, <1>9 DEF JoinInv, Composed, Stored
<1>10. ASSUME server'.at = "merge", NEW x, x = (IF server'.copied THEN server'.k ELSE server'.k - 1),
              objects'[Target] = Stretch(0, Ends[x])
       PROVE  JoinInv'
  <2>1. (objects[Target] = Stretch(0, Ends[IF server.copied THEN server.k ELSE server.k - 1]))'
    BY <1>6, <1>10
  <2>2. ~Composed'
    BY <1>2, <1>3, <1>10 DEF Composed
  <2> QED
    BY <1>2, <1>3, <1>10, <2>1, <2>2 DEF JoinInv
<1>11. ASSUME DOMAIN objects \subseteq DOMAIN objects' PROVE Kept
  BY <1>11 DEF Kept
<1>12. CASE BeginMerge
  <2>1. CASE ServerFails /\ UNCHANGED objects
    <3>1. server'.at = "failed"
      BY <1>2, <2>1 DEF ServerFails
    <3> QED
      BY <1>8, <1>11, <2>1, <3>1
  <2>2. CASE /\ Len(call.parts) = 1 /\ Stored(call.parts[1])
             /\ objects' = Put(WithoutObject(call.parts[1]), Target, objects[call.parts[1]])
             /\ server' = [server EXCEPT !.at = "merged"]
    <3>1. server'.at = "merged" /\ server.at = "asked"
      BY <1>2, <1>12, <2>2 DEF BeginMerge
    <3> QED
      BY <1>9, <2>2, <3>1, JoinRename
  <2>3. CASE objects' = With(Target, <<>>) /\ server' = [server EXCEPT !.at = "merge", !.k = 1]
    <3>1. server'.at = "merge" /\ server'.k = 1 /\ ~server'.copied
      BY <1>2, <1>12, <2>3 DEF BeginMerge
    <3>2. objects'[Target] = <<>> /\ DOMAIN objects \subseteq DOMAIN objects'
      BY <2>3, WithIs
    <3>3. Stretch(0, 0) = <<>>
      <4>1. \A x \in Nat : x <= Len(Total) => Stretch(x, x) = <<>>
        BY <1>2, StretchConcat
      <4> QED
        BY <1>6, <4>1
    <3>4. 0 = (IF server'.copied THEN server'.k ELSE server'.k - 1)
      BY <3>1
    <3> QED
      BY <1>6, <1>10, <1>11, <3>1, <3>2, <3>3, <3>4
  <2> QED
    BY <1>12, <2>1, <2>2, <2>3 DEF BeginMerge
<1>13. CASE CopyChunk
  <2>1. server.at = "merge" /\ ~server.copied /\ server.k \in 1 .. Count /\ call.parts[server.k] = Parts[server.k]
    BY <1>2, <1>13 DEF CopyChunk
  <2>2. CASE ServerFails /\ (UNCHANGED objects \/ \E c : objects' = With(Target, c))
    <3>1. server'.at = "failed"
      BY <1>2, <2>2 DEF ServerFails
    <3>2. DOMAIN objects \subseteq DOMAIN objects'
      BY <2>2, WithIs
    <3> QED
      BY <1>8, <1>11, <3>1, <3>2
  <2>3. CASE /\ Stored(call.parts[server.k])
             /\ objects' = With(Target, objects[Target] \o objects[call.parts[server.k]])
             /\ server' = [server EXCEPT !.copied = TRUE]
    <3>1. server'.at = "merge" /\ server'.k = server.k /\ server'.copied
      BY <1>2, <2>1, <2>3
    <3>2. PICK k, content : k = server.k /\ content = objects[Target] \o objects[Parts[k]]
      OBVIOUS
    <3>3. objects'[Target] = content /\ DOMAIN objects \subseteq DOMAIN objects'
      <4>1. objects' = With(Target, content)
        BY <2>1, <2>3, <3>2
      <4> QED
        BY <4>1, WithIs
    <3>4. k - 1 \in 0 .. Count /\ k \in 0 .. Count /\ k \in 1 .. Count
      BY <1>6, <2>1, <3>2
    <3>5. PICK a, b : a = Ends[k - 1] /\ b = Ends[k]
      OBVIOUS
    <3>6. a \in Nat /\ b \in Nat /\ a <= b /\ b <= Len(Total)
      BY <1>6, <3>4, <3>5
    <3>7. objects[Target] = Stretch(0, a)
      BY <2>1, <3>2, <3>5 DEF JoinInv
    <3>8. objects[Parts[k]] = Stretch(a, b)
      <4>1. Parts[k] \in Sources /\ Stored(Parts[k]) /\ call.at # "idle"
        BY <1>2, <1>7, <2>1, <2>3, <3>2, <3>4
      <4>2. a \in 0 .. b /\ b \in 0 .. Len(Total)
        BY <1>6, <3>6
      <4>3. Holds(Parts[k], a, b)
        BY <1>6, <3>4, <3>5, <4>1, <4>2 DEF Holds
      <4> QED
        BY <4>1, <4>3, HoldsContent
    <3>9. Stretch(0, a) \o Stretch(a, b) = Stretch(0, b)
      <4>1. PICK z : z = 0
        OBVIOUS
      <4>2. z \in Nat /\ z <= a
        BY <3>6, <4>1
      <4>3. Stretch(z, a) \o Stretch(a, b) = Stretch(z, b)
        BY <1>2, <3>6, <4>2, StretchConcat
      <4> QED
        BY <4>1, <4>3
    <3>10. objects'[Target] = Stretch(0, Ends[k]) /\ k = (IF server'.copied THEN server'.k ELSE server'.k - 1)
      BY <3>1, <3>2, <3>3, <3>5, <3>7, <3>8, <3>9
    <3> QED
      BY <1>10, <1>11, <3>1, <3>3, <3>10
  <2> QED
    BY <1>13, <2>2, <2>3 DEF CopyChunk
<1>14. CASE RemoveChunk
  <2>1. /\ server.at = "merge" /\ server.copied /\ server.k \in 1 .. Count
        /\ call.parts[server.k] = Parts[server.k] /\ Len(call.parts) = Count
    BY <1>2, <1>7, <1>14 DEF RemoveChunk
  <2>2. PICK k : k = server.k
    OBVIOUS
  <2>3. k \in 1 .. Count /\ k \in 0 .. Count /\ objects[Target] = Stretch(0, Ends[k]) /\ Target \in DOMAIN objects
    BY <1>2, <1>6, <2>1, <2>2 DEF JoinInv, Stored
  <2>4. Parts[k] # Target /\ Parts[k] \in Sources
    BY <1>7, <2>3
  <2>5. \/ objects' = objects
        \/ DOMAIN objects' = DOMAIN objects \ {Parts[k]} /\ objects'[Target] = objects[Target]
    <3>1. objects' = objects \/ objects' = WithoutObject(Parts[k])
      BY <1>14, <2>1, <2>2 DEF RemoveChunk
    <3> QED
      BY <2>3, <2>4, <3>1, Removing
  <2>6. Target \in DOMAIN objects' /\ objects'[Target] = Stretch(0, Ends[k])
    BY <2>3, <2>4, <2>5
  <2>7. Kept
    <3>1. Stored(Parts[k]) => Includes(Stretch(0, Ends[k]), objects[Parts[k]])
      <4>1. k \in k .. Count
        BY <1>6, <2>3
      <4> QED
        BY <1>2, <2>3, <4>1, PartIncluded
    <3>2. \A n \in DOMAIN objects \ DOMAIN objects' : n = Parts[k]
      BY <2>5
    <3> QED
      BY <2>6, <3>1, <3>2 DEF Kept, Stored
  <2>8. CASE k < Count
    <3>1. server' = [server EXCEPT !.k = @ + 1, !.copied = FALSE]
      BY <1>14, <2>1, <2>2, <2>8 DEF RemoveChunk
    <3>2. server'.at = "merge" /\ server'.k = k + 1 /\ ~server'.copied
      BY <1>2, <2>1, <2>2, <3>1
    <3>3. k = (IF server'.copied THEN server'.k ELSE server'.k - 1)
      BY <2>3, <3>2
    <3> QED
      BY <1>10, <2>6, <2>7, <3>2, <3>3
  <2>9. CASE ~(k < Count)
    <3>1. server' = [server EXCEPT !.at = "merged"] /\ k = Count
      BY <1>6, <1>14, <2>1, <2>2, <2>3, <2>9 DEF RemoveChunk
    <3>2. server'.at = "merged"
      BY <1>2, <3>1
    <3> QED
      BY <1>6, <1>9, <2>6, <2>7, <3>1, <3>2
  <2> QED
    BY <2>8, <2>9
<1> QED
  BY <1>12, <1>13, <1>14 DEF ServerStep

LEMMA JoinFinish ==
  ASSUME IInv, JoinInv, FreshInv, FinishChunks \/ FinishShares
  PROVE  JoinInv' /\ FreshInv' /\ objects' = objects
<1>1. /\ UNCHANGED <<req, done, failed, late, uncomposed, torn>> /\ call = Idle /\ req \in Requests /\ Count \in Nat
      /\ objects' = objects /\ torn' = torn
  <2>1. UNCHANGED <<req, done, failed, late, uncomposed, torn>> /\ phase = "upload" /\ objects' = objects
    BY DEF FinishChunks, FinishShares, BeginCompose, composeVars
  <2> QED
    BY <2>1, Wholes DEF IInv, FlowInv
<1>2. IInv'
  BY FinishChunksStep, FinishSharesStep
<1>3. CASE FinishChunks
  <2>1. IsSingle /\ done = DOMAIN Chunks /\ BeginCompose(SortPartStrings(done))
    BY <1>3 DEF FinishChunks, IsSingle
  <2>2. DOMAIN Chunks = 1 .. Count
    BY <1>1, <2>1, Wholes
  <2>3. SortPartStrings(done) = Parts
    BY <1>1, <2>1, <2>2, Sorted
  <2> QED
    BY <1>1, <1>2, <2>1, <2>3, JoinBegin
<1>4. CASE FinishShares
  <2>1. CASE ~failed /\ N > 1
    <3>1. BeginCompose([i \in 1 .. N |-> Share(i)]) /\ ~IsSingle
      BY <1>1, <1>4, <2>1, RequestsAssumption DEF FinishShares, IsSingle
    <3>2. Parts = [i \in 1 .. N |-> Share(i)]
      BY <3>1 DEF Parts, Count
    <3> QED
      BY <1>1, <1>2, <3>1, <3>2, JoinBegin
  <2>2. CASE ~(~failed /\ N > 1)
    <3>1. UNCHANGED <<dest, objects, call, server>>
      BY <1>4, <2>2 DEF FinishShares, composeVars
    <3>2. JoinInv'
      BY <1>1, <3>1, JoinFrame
    <3>3. FreshInv'
      <4>1. call'.at = "idle"
        BY <1>1, <3>1 DEF Idle
      <4> QED
        BY <4>1 DEF FreshInv
    <3> QED
      BY <1>1, <3>2, <3>3
  <2> QED
    BY <2>1, <2>2
<1> QED
  BY <1>3, <1>4

\* A step that leaves the composition alone and stores, at most, a part.
LEMMA JoinApart ==
  ASSUME IInv, JoinInv, FreshInv, UNCHANGED <<req, dest, call, server>>, ~torn' => ~torn,
         ~torn' => \A n \in DOMAIN objects \ Sources : n \in DOMAIN objects' /\ objects'[n] = objects[n]
  PROVE  JoinInv' /\ FreshInv'
<1>1. JoinInv'
  BY JoinFrame
<1>2. Sources' = Sources
  BY Static
<1>3. FreshInv'
  BY <1>2 DEF FreshInv
<1> QED
  BY <1>1, <1>3

LEMMA JoinUpload ==
  ASSUME IInv, JoinInv, FreshInv,
         \/ \E i \in DOMAIN Chunks : UploadChunk(i) \/ LateAttempt(i)
         \/ \E i \in 1 .. N : UploadShare(i)
  PROVE  JoinInv' /\ FreshInv' /\ DOMAIN objects \subseteq DOMAIN objects'
<1>1. req \in Requests
  BY DEF IInv, FlowInv
<1>2. ASSUME UNCHANGED <<req, dest, call, server>>, ~torn' => ~torn, NEW name \in Sources,
             objects' = objects \/ \E c : Store(name, c) \/ objects' = With(name, c)
      PROVE  JoinInv' /\ FreshInv' /\ DOMAIN objects \subseteq DOMAIN objects'
  <2>1. DOMAIN objects \subseteq DOMAIN objects' /\ \A n \in DOMAIN objects : n # name => objects'[n] = objects[n]
    BY <1>2, StoreIs, WithIs
  <2>2. \A n \in DOMAIN objects \ Sources : n \in DOMAIN objects' /\ objects'[n] = objects[n]
    BY <1>2, <2>1
  <2> QED
    BY <1>2, <2>1, <2>2, JoinApart
<1>3. ASSUME NEW i \in DOMAIN Chunks, UploadChunk(i) \/ LateAttempt(i)
      PROVE  JoinInv' /\ FreshInv' /\ DOMAIN objects \subseteq DOMAIN objects'
  <2>1. IsSingle /\ UNCHANGED <<req, dest, call, server>> /\ (~torn' => ~torn)
    BY <1>3 DEF UploadChunk, LateAttempt, IsSingle
  <2>2. Part(i) \in Sources
    <3>1. i \in 1 .. Count /\ Parts[i] = Part(i)
      BY <1>1, <2>1, ChunkName
    <3> QED
      BY <3>1 DEF Sources
  <2>3. \E c : Store(Part(i), c) \/ objects' = With(Part(i), c)
    BY <1>3 DEF UploadChunk, LateAttempt
  <2> QED
    BY <1>2, <2>1, <2>2, <2>3
<1>4. ASSUME NEW i \in 1 .. N, UploadShare(i)
      PROVE  JoinInv' /\ FreshInv' /\ DOMAIN objects \subseteq DOMAIN objects'
  <2>1. ~IsSingle /\ UNCHANGED <<req, dest, call, server>> /\ (~torn' => ~torn)
    <3>1. req.mode = "large" /\ UNCHANGED <<req, dest, call, server>>
      BY <1>4 DEF UploadShare
    <3>2. torn' = torn \/ \E x : torn' = (torn \/ x)
      BY <1>4 DEF UploadShare
    <3>3. ~torn' => ~torn
      BY <3>2, Zenon
    <3>4. ~IsSingle
      BY <3>1 DEF IsSingle
    <3> QED
      BY <3>1, <3>3, <3>4
  <2>2. Share(i) \in Sources
    <3>1. Count = N /\ Count \in Nat
      BY <1>1, <2>1, Wholes DEF Count
    <3>2. Parts[i] = Share(i)
      BY <2>1, <3>1, Names
    <3> QED
      BY <3>1, <3>2 DEF Sources
  <2>3. objects' = objects \/ \E c : Store(Share(i), c)
    BY <1>4 DEF UploadShare
  <2> QED
    BY <1>2, <2>1, <2>2, <2>3
<1> QED
  BY <1>3, <1>4

LEMMA KeptGrows ==
  ASSUME DOMAIN objects \subseteq DOMAIN objects'
  PROVE  Kept
BY DEF Kept

LEMMA JoinComposing ==
  ASSUME IInv, PiecesInv, JoinInv, FreshInv, ComposeStep, UNCHANGED <<req, phase, flowVars>>
  PROVE  JoinInv' /\ FreshInv' /\ (~torn => Kept)
<1>1. CASE ComposeGroup \/ ReadPart \/ PutTemp
  <2>1. objects' = objects \/ \E name, c : objects' = With(name, c)
    BY <1>1 DEF ComposeGroup, ReadPart, PutTemp, Request
  <2>2. DOMAIN objects \subseteq DOMAIN objects'
    BY <2>1, WithIs
  <2> QED
    BY <1>1, <2>2, JoinTree, KeptGrows
<1>2. CASE CopyFinal
  <2>1. objects' = objects \/ \E name, c : objects' = With(name, c)
    BY <1>2 DEF CopyFinal, Request
  <2>2. DOMAIN objects \subseteq DOMAIN objects'
    BY <2>1, WithIs
  <2> QED
    BY <1>2, <2>2, JoinCopy, KeptGrows
<1>3. CASE DeleteFinalTemp \/ DeleteOne \/ EndClean
  <2>1. /\ JoinInv' /\ FreshInv'
        /\ ~torn => \A n \in DOMAIN objects \ DOMAIN objects' : Target \in DOMAIN objects' /\ objects'[Target] = Total
    BY <1>3, JoinDelete
  <2>2. call.at # "idle"
    BY <1>3 DEF DeleteFinalTemp, DeleteOne, EndClean
  <2>3. ASSUME ~torn, NEW n \in DOMAIN objects \ DOMAIN objects', n \in Sources
        PROVE  Target \in DOMAIN objects' /\ Includes(objects'[Target], objects[n])
    <3>1. PICK k \in 1 .. Count : n = Parts[k]
      BY <2>3 DEF Sources
    <3>2. Valid /\ req \in Requests
      BY <2>2 DEF IInv, CallInv, FlowInv
    <3>3. Count \in Nat /\ Ends[Count] = Len(Total) /\ Stretch(0, Len(Total)) = Total
      BY <3>2, TotalType
    <3>4. Count \in k .. Count
      BY <3>3
    <3>5. Includes(Stretch(0, Ends[Count]), objects[Parts[k]])
      BY <2>2, <2>3, <3>1, <3>2, <3>4, PartIncluded DEF Stored
    <3> QED
      BY <2>1, <2>3, <3>1, <3>3, <3>5
  <2> QED
    BY <2>1, <2>3 DEF Kept
<1>4. CASE PostMerge \/ Answered
  <2>1. objects' = objects
    BY <1>4 DEF PostMerge, Answered
  <2> QED
    BY <1>4, <2>1, JoinPost, KeptGrows
<1> QED
  BY <1>1, <1>2, <1>3, <1>4 DEF ComposeStep

LEMMA NextJoin ==
  IInv /\ PiecesInv /\ JoinInv /\ FreshInv /\ [Next]_vars => JoinInv' /\ FreshInv' /\ (~torn => Kept)
<1> SUFFICES ASSUME IInv, PiecesInv, JoinInv, FreshInv, [Next]_vars
             PROVE  JoinInv' /\ FreshInv' /\ (~torn => Kept)
  OBVIOUS
<1>1. ASSUME NEW i \in DOMAIN Chunks, UploadChunk(i) \/ LateAttempt(i)
      PROVE  JoinInv' /\ FreshInv' /\ (~torn => Kept)
  BY <1>1, JoinUpload, KeptGrows
<1>2. ASSUME NEW i \in 1 .. N, UploadShare(i) PROVE JoinInv' /\ FreshInv' /\ (~torn => Kept)
  BY <1>2, JoinUpload, KeptGrows
<1>3. CASE Composing
  BY <1>3, JoinComposing DEF Composing
<1>4. CASE Merging
  BY <1>4, JoinMerge DEF Merging
<1>5. CASE FinishChunks \/ FinishShares
  BY <1>5, JoinFinish, KeptGrows
<1>6. CASE EndSave
  <2>1. ~torn => \A n \in DOMAIN objects : n \in DOMAIN objects' /\ objects'[n] = objects[n]
    BY <1>6, PiecesSave
  <2>2. UNCHANGED <<req, dest, call, server, torn>>
    BY <1>6 DEF EndSave
  <2>3. JoinInv' /\ FreshInv'
    BY <2>1, <2>2, JoinApart
  <2>4. ~torn => Kept
    BY <2>1, KeptGrows
  <2> QED
    BY <2>3, <2>4
<1>7. CASE StartSingle \/ StartLarge \/ Timeout \/ ContextDone \/ EndCompose \/ UNCHANGED vars
  <2>1. UNCHANGED <<req, dest, call, server, torn, objects>>
    BY <1>7 DEF StartSingle, StartLarge, Refuse, Timeout, SingleTimeout, LargeTimeout, ContextDone, Expire,
                EndCompose, EndSingle, EndLarge, vars, composeVars, flowVars
  <2> QED
    BY <2>1, JoinApart, KeptGrows
<1> QED
  BY <1>1, <1>2, <1>3, <1>4, <1>5, <1>6, <1>7 DEF Next

LEMMA JoinInit == Init => JoinInv /\ FreshInv
<1> SUFFICES ASSUME Init PROVE JoinInv /\ FreshInv
  OBVIOUS
<1>1. call.at = "idle" /\ server.at = "idle"
  BY DEF Init, InitCompose, Idle, NoRequest
<1> QED
  BY <1>1 DEF JoinInv, FreshInv, Composed

(* A part or a share that leaves the destination, unless it was torn, is   *)
(* in the final object then: for any number of parts, any fan-out, any     *)
(* destination, whatever fails.                                            *)
THEOREM NothingIsLost == Spec => NothingLost
<1> DEFINE Inv == IInv /\ PiecesInv /\ JoinInv /\ FreshInv
           Lost == ~torn => \A name \in DOMAIN objects \ DOMAIN objects' :
                     name \in Range(call.parts) =>
                       Target \in DOMAIN objects' /\ Includes(objects'[Target], objects[name])
<1>1. Init => Inv
  BY InitType, PiecesInit, JoinInit
<1>2. Inv /\ [Next]_vars => Inv'
  BY NextType, NextPieces, NextJoin
<1>3. Inv /\ [Next]_vars => [Lost]_vars
  <2> SUFFICES ASSUME Inv, [Next]_vars, ~torn, NEW name \in DOMAIN objects \ DOMAIN objects',
                      name \in Range(call.parts)
               PROVE  Target \in DOMAIN objects' /\ Includes(objects'[Target], objects[name])
    OBVIOUS
  <2>1. Kept
    BY NextJoin
  <2>2. name \in Sources
    <3>1. call.parts \in Seq(Sources)
      BY DEF IInv, CallInv, CallRecord
    <3> QED
      BY <3>1 DEF Range
  <2> QED
    BY <2>1, <2>2 DEF Kept
<1> HIDE DEF Inv
<1> QED
  BY <1>1, <1>2, <1>3, PTL DEF Spec, NothingLost

-----------------------------------------------------------------------------
(* What was joined is what was asked for.                                  *)



LEMMA ChunksRequested ==
  ASSUME req \in Requests, IsSingle, Valid, req.claimed \in {0, req.size}, req.source = "remote" => WholeFile
  PROVE  Total = Requested
<1>0. FileSize = req.size
  BY DEF FileSize
<1>1. /\ req.source \in SourceKinds /\ req.size \in Nat /\ req.start \in Nat /\ req.length \in Int
      /\ req.start < req.size
  BY <1>0, Request0 DEF Valid, SplitFails
<1> DEFINE end == RangeEnd(req.size, req.start, req.length)
<1>2. end \in Nat /\ end <= req.size
  BY <1>1, EndType
<1>3. req.source = "remote" => req.start = 0 /\ end = req.size
  BY DEF WholeFile
<1>4. DownloadRange(req.source, req.size, req.start, req.length, FALSE)
        = Bytes(Least(req.start, req.size), Least(end, req.size))
  BY <1>1, <1>3, RangeBytes
<1>5. Total = DownloadRange(req.source, req.size, req.start, req.length, FALSE)
  <2>1. DOMAIN Chunks = 1 .. Count
    BY Wholes
  <2>2. [k \in 1 .. Count |-> Whole(k)]
          = [i \in DOMAIN Chunks |-> DownloadFile(req.source, req.size, Chunks[i].offset, Chunks[i].size)]
    BY <2>1 DEF Whole, Fetched
  <2> QED
    BY <1>0, <2>2 DEF Total, DownloadRange, Chunks
<1>6. Requested = Bytes(req.start, end)
  BY DEF Requested, IsSingle
<1> HIDE DEF end
<1>7. Least(req.start, req.size) = req.start /\ Least(end, req.size) = end
  BY <1>1, <1>2 DEF Least
<1> QED
  BY <1>4, <1>5, <1>6, <1>7

\* The share of a VM is the bytes from its start to the start of the next.
LEMMA ShareRequested ==
  ASSUME req \in Requests, ~IsSingle, Valid, req.source # "remote", \A i \in 1 .. N : ShareLength(i) > 0
  PROVE  Total = Requested
<1>1. /\ req.source \in SourceKinds /\ req.size \in Nat /\ req.start \in Nat
  BY Request0
<1>2. /\ N \in Nat \ {0} /\ FileLength \in Nat \ {0} /\ ShareStart(1) = req.start
      /\ \A i \in 1 .. N : ShareStart(i) \in Nat /\ ShareLength(i) \in Int
      /\ \A i \in 1 .. (N - 1) : ShareStart(i + 1) = ShareStart(i) + ShareLength(i)
      /\ ShareStart(N) + ShareLength(N) = req.start + FileLength
  BY Shares
<1> DEFINE Edge(k) == IF k < N THEN ShareStart(k + 1) ELSE req.start + FileLength
           cut == [k \in 0 .. N |-> Least(Edge(k), req.size)]
<1>3. /\ \A k \in 0 .. N : Edge(k) \in Int
      /\ \A k \in 1 .. N : Edge(k - 1) = ShareStart(k) /\ Edge(k) = ShareStart(k) + ShareLength(k)
      /\ Edge(0) = req.start /\ Edge(N) = req.start + FileLength
  <2>1. ASSUME NEW k \in 1 .. N PROVE Edge(k - 1) = ShareStart(k) /\ Edge(k) = ShareStart(k) + ShareLength(k)
    <3>1. k - 1 < N /\ (k - 1) + 1 = k
      BY <1>2
    <3>2. CASE k < N
      <4>1. k \in 1 .. (N - 1)
        BY <1>2, <3>2
      <4> QED
        BY <1>2, <3>1, <3>2, <4>1
    <3>3. CASE ~(k < N)
      <4>1. k = N
        BY <1>2, <3>3
      <4> QED
        BY <1>2, <3>1, <3>3, <4>1
    <3> QED
      BY <3>2, <3>3
  <2>2. Edge(0) = req.start /\ Edge(N) = req.start + FileLength
    BY <1>2
  <2>3. ASSUME NEW k \in 0 .. N PROVE Edge(k) \in Int
    <3>1. CASE k = 0
      BY <1>1, <2>2, <3>1
    <3>2. CASE k # 0
      <4>1. k \in 1 .. N
        BY <1>2, <3>2
      <4>2. Edge(k) = ShareStart(k) + ShareLength(k)
        BY <2>1, <4>1
      <4>3. ShareStart(k) \in Nat /\ ShareLength(k) \in Int
        BY <1>2, <4>1
      <4> HIDE DEF Edge
      <4> QED
        BY <4>2, <4>3
    <3> QED
      BY <3>1, <3>2
  <2> QED
    BY <2>1, <2>2, <2>3
<1> HIDE DEF Edge
<1>4. cut \in [0 .. N -> Int]
  <2>1. \A k \in 0 .. N : Least(Edge(k), req.size) \in Int
    BY <1>1, <1>3 DEF Least
  <2> QED
    BY <2>1
<1>5. ASSUME NEW k \in 1 .. N PROVE cut[k - 1] <= cut[k] /\ Whole(k) = Bytes(cut[k - 1], cut[k])
  <2>1. PICK a, l, b : a = ShareStart(k) /\ l = ShareLength(k) /\ b = a + l
    OBVIOUS
  <2>2. a \in Nat /\ l \in Int /\ l > 0 /\ b \in Nat /\ a <= b
    BY <1>2, <2>1
  <2>3. cut[k - 1] = Least(a, req.size) /\ cut[k] = Least(b, req.size)
    <3>1. k - 1 \in 0 .. N /\ k \in 0 .. N
      BY <1>2
    <3> QED
      BY <1>3, <2>1, <3>1
  <2>4. RangeEnd(req.size, a, l) = Least(b, req.size)
    BY <2>1, <2>2 DEF RangeEnd
  <2>5. DownloadRange(req.source, req.size, a, l, FALSE)
          = Bytes(Least(a, req.size), Least(RangeEnd(req.size, a, l), req.size))
    BY <1>1, <2>2, RangeBytes
  <2>6. Least(Least(b, req.size), req.size) = Least(b, req.size) /\ Least(a, req.size) <= Least(b, req.size)
    BY <1>1, <2>2 DEF Least
  <2>7. Whole(k) = DownloadRange(req.source, req.size, a, l, FALSE)
    BY <2>1 DEF Whole
  <2> HIDE DEF cut
  <2> QED
    BY <2>3, <2>4, <2>5, <2>6, <2>7
<1>6. cut[0] = Least(req.start, req.size) /\ cut[N] = Least(req.start + FileLength, req.size)
  <2>1. 0 \in 0 .. N /\ N \in 0 .. N
    BY <1>2
  <2> QED
    BY <1>3, <2>1
<1> HIDE DEF cut
<1> DEFINE s == [k \in 1 .. N |-> Whole(k)]
<1>7. s \in Seq(Seq(Int)) /\ Len(s) = N /\ \A k \in 1 .. N : s[k] = Whole(k)
  <2>1. \A k \in 1 .. N : Whole(k) \in Seq(Int)
    <3> SUFFICES ASSUME NEW k \in 1 .. N PROVE Whole(k) \in Seq(Int)
      OBVIOUS
    <3>1. cut[k - 1] \in Int /\ cut[k] \in Int
      BY <1>2, <1>4
    <3> QED
      BY <1>5, <3>1, BytesLen
  <2>2. s \in [1 .. N -> Seq(Int)] /\ \A k \in 1 .. N : s[k] = Whole(k)
    BY <2>1
  <2> HIDE DEF s
  <2> QED
    BY <1>2, <2>2, FunctionSeq
<1>8. Total = FlattenSeq(s)
  BY DEF Total, Count
<1> HIDE DEF s
<1>9. FlattenSeq(s) = Bytes(cut[0], cut[N])
  <2>1. N \in Nat /\ \A k \in 1 .. N : cut[k - 1] <= cut[k] /\ s[k] = Bytes(cut[k - 1], cut[k])
    BY <1>2, <1>5, <1>7
  <2> QED
    BY <1>4, <1>7, <2>1, FlattenBytes
<1>10. Requested = Bytes(req.start, Least(req.start + FileLength, req.size))
  BY DEF Requested, IsSingle
<1>11. CASE req.start <= req.size
  <2>1. Least(req.start, req.size) = req.start
    BY <1>1, <1>11 DEF Least
  <2> QED
    BY <1>6, <1>8, <1>9, <1>10, <2>1
<1>12. CASE req.size <= req.start
  <2>1. Least(req.start, req.size) = req.size /\ Least(req.start + FileLength, req.size) = req.size
    BY <1>1, <1>2, <1>12 DEF Least
  <2>2. Bytes(req.size, req.size) = <<>> /\ Bytes(req.start, req.size) = <<>>
    BY <1>1, <1>12, BytesEmpty
  <2> QED
    BY <1>6, <1>8, <1>9, <1>10, <2>1, <2>2
<1> QED
  BY <1>1, <1>11, <1>12

LEMMA WholeFollows == IInv /\ LitterInv /\ PiecesInv /\ JoinInv => WholeObject
<1> SUFFICES ASSUME IInv, LitterInv, PiecesInv, JoinInv, Delivered, Reliable
             PROVE  Stored(Result) /\ objects[Result] = Requested
  BY DEF WholeObject
<1>0. call.at = "ok" \/ (call = Idle /\ ~IsSingle /\ N = 1 /\ done = Tasks /\ ~failed)
  BY DEF Delivered, LitterInv, IsSingle
<1>1. req \in Requests /\ Valid
  <2>1. call.at # "idle" \/ phase = "ok"
    BY <1>0 DEF Delivered
  <2> QED
    BY <2>1 DEF IInv, FlowInv, CallInv
<1>2. Total = Requested
  <2>1. req.source = "remote" => IsSingle /\ WholeFile
    BY DEF Reliable, WholeFile, IsSingle
  <2>2. ~IsSingle => \A i \in 1 .. N : ShareLength(i) > 0
    BY <1>1, RequestsAssumption DEF Reliable, IsSingle
  <2>3. IsSingle => req.claimed \in {0, req.size}
    BY DEF Reliable, IsSingle
  <2> QED
    BY <1>1, <2>1, <2>2, <2>3, ChunksRequested, ShareRequested
<1>3. CASE call.at = "ok"
  <2>1. Result = Target
    BY <1>3 DEF IInv, CallInv, Result, IsSingle
  <2>2. Composed
    BY <1>3, <2>1 DEF Composed, Reliable
  <2> QED
    BY <1>2, <2>1, <2>2 DEF JoinInv, Reliable
<1>4. CASE call = Idle /\ ~IsSingle /\ N = 1 /\ done = Tasks /\ ~failed
  <2>1. Result = Share(1) /\ Tasks = {1} /\ Count = 1
    BY <1>1, <1>4, RequestsAssumption DEF Result, IsSingle, Tasks, Count
  <2>2. Parts[1] = Share(1) /\ 1 \in 1 .. Count
    BY <1>4, <2>1, Names
  <2>3. Stored(Share(1))
    BY <1>4, <2>1 DEF LitterInv, Reliable
  <2>4. objects[Share(1)] = Whole(1)
    BY <1>4, <2>1, <2>2, <2>3 DEF PiecesInv, Reliable
  <2>5. Whole(1) = Total
    <3>1. /\ Ends[0] = 0 /\ Ends[Count] = Len(Total) /\ Stretch(0, Len(Total)) = Total
          /\ \A k \in 1 .. Count : Whole(k) = Stretch(Ends[k - 1], Ends[k])
      BY <1>1, TotalType
    <3>2. Whole(1) = Stretch(Ends[1 - 1], Ends[1])
      BY <2>2, <3>1
    <3> QED
      BY <2>1, <3>1, <3>2
  <2> QED
    BY <1>2, <2>1, <2>3, <2>4, <2>5
<1> QED
  BY <1>0, <1>3, <1>4

(* An object that was delivered holds exactly the bytes that were asked    *)
(* for, in their order: for every file size, range, chunk size and share   *)
(* of the VMs, any fan-out and depth of the tree of temporary objects,     *)
(* whatever failed or was repeated, under Reliable.                        *)
THEOREM ObjectIsWhole == Spec => []WholeObject
<1> DEFINE Inv == IInv /\ LitterInv /\ PiecesInv /\ JoinInv /\ FreshInv
<1>1. Init => Inv
  BY InitType, LitterInit, PiecesInit, JoinInit
<1>2. Inv /\ [Next]_vars => Inv'
  BY NextType, NextLitter, NextPieces, NextJoin
<1>3. Inv => WholeObject
  BY WholeFollows
<1> HIDE DEF Inv
<1> QED
  BY <1>1, <1>2, <1>3, PTL DEF Spec

-----------------------------------------------------------------------------
(* How far the tree of temporary objects can grow.                         *)

\* Composing n parts makes at most 2 * (n - 1) temporary objects in fewer than n
\* levels, whatever the fanout: a level has no group that is empty, and at most half
\* as many groups as objects, rounded up.  So ComposeFile sends a bounded number of
\* requests for any number of parts, and leaves at most so many objects when it fails.
TreeBounded ==
  call.temps # <<>> =>
    Len(call.temps) <= 2 * (Len(call.parts) - 1) /\ call.level < Len(call.parts)

\* At the group that starts at i, half of what was grouped at most is in next.  Each
\* level pays for its objects with those that the level below has more.
TreeInv ==
  /\ call.at = "group" =>
       /\ 2 <= Len(call.current)
       /\ 2 * Len(call.next) <= call.i
       /\ Len(call.temps) <= 2 * (Len(call.parts) - Len(call.current)) + Len(call.next)
       /\ call.level + Len(call.current) <= Len(call.parts)
  /\ TreeBounded

LEMMA LengthType ==
  ASSUME NEW S, NEW s \in Seq(S)
  PROVE  Len(s) \in Nat
OBVIOUS

LEMMA CallLengths ==
  ASSUME CallInv
  PROVE  /\ Len(call.current) \in Nat /\ Len(call.next) \in Nat /\ Len(call.temps) \in Nat
         /\ Len(call.parts) \in Nat /\ call.level \in Nat /\ call.i \in Nat
<1>1. call \in CallRecord
  BY DEF CallInv
<1>2. /\ call.current \in Seq(Sources \cup Temps) /\ call.next \in Seq(Temps) /\ call.temps \in Seq(Temps)
      /\ call.parts \in Seq(Sources) /\ call.level \in Nat /\ call.i \in Nat
  BY <1>1 DEF CallRecord
<1> QED
  BY <1>2, LengthType, Zenon

\* The arithmetic of a group: n objects in the level, k made of those before i, t
\* temporary objects of p parts so far, in level l.
LEMMA GroupCounts ==
  ASSUME NEW n \in Nat, NEW k \in Nat, NEW i \in Nat, NEW t \in Nat, NEW p \in Nat, NEW l \in Nat,
         2 <= n, 2 * k <= i, i < n, t <= 2 * (p - n) + k, l + n <= p
  PROVE  /\ 2 * (k + 1) <= i + Fanout /\ t + 1 <= 2 * (p - n) + (k + 1)
         /\ t + 1 <= 2 * (p - (k + 1)) /\ l + 1 + (k + 1) <= p
         /\ t + 1 <= 2 * (p - 1) /\ l + 1 < p
<1>1. Fanout \in Nat /\ 2 <= Fanout
  BY FanoutAssumption
<1> QED
  BY <1>1

\* What does not group leaves the tree as it is.
LEMMA TreeSame ==
  ASSUME TreeInv, call'.temps = call.temps, call'.parts = call.parts, call'.level = call.level,
         call'.at = "group" => /\ call.at = "group" /\ call'.current = call.current
                               /\ call'.next = call.next /\ call'.i = call.i
  PROVE  TreeInv'
BY DEF TreeInv, TreeBounded

LEMMA TreeGrouped ==
  ASSUME CallInv, TreeInv, call.at = "group", call' = AfterGroup(call)
  PROVE  TreeInv'
<1> DEFINE next == Append(call.next, Temp(call.level, call.i))
<1>1. /\ call'.parts = call.parts /\ call'.temps = Append(call.temps, Temp(call.level, call.i))
      /\ Len(next) = Len(call.next) + 1
      /\ \/ /\ call'.at = "group" /\ call'.current = call.current /\ call'.next = next
            /\ call'.level = call.level /\ call'.i = call.i + Fanout
         \/ /\ call'.at = "group" /\ call'.current = next /\ call'.next = <<>> /\ Len(next) > 1
            /\ call'.level = call.level + 1 /\ call'.i = 0
         \/ /\ call'.at = "copy" /\ call'.level = call.level + 1 /\ Len(next) = 1
  BY GroupDone
<1>2. Len(call'.temps) = Len(call.temps) + 1
  <2>1. call.temps \in Seq(Temps)
    BY DEF CallInv, CallRecord
  <2>2. Temp(call.level, call.i) \in Temps
    BY GroupDone
  <2> HIDE DEF next
  <2> QED
    BY <1>1, <2>1, <2>2
<1>3. /\ 2 <= Len(call.current) /\ 2 * Len(call.next) <= call.i /\ call.i < Len(call.current)
      /\ Len(call.temps) <= 2 * (Len(call.parts) - Len(call.current)) + Len(call.next)
      /\ call.level + Len(call.current) <= Len(call.parts)
  BY DEF TreeInv, CallInv
<1>4. /\ 2 * Len(next) <= call.i + Fanout
      /\ Len(call'.temps) <= 2 * (Len(call.parts) - Len(call.current)) + Len(next)
      /\ Len(call'.temps) <= 2 * (Len(call.parts) - Len(next)) /\ call.level + 1 + Len(next) <= Len(call.parts)
      /\ Len(call'.temps) <= 2 * (Len(call.parts) - 1) /\ call.level + 1 < Len(call.parts)
      /\ call.level < Len(call.parts)
  <2> HIDE DEF next
  <2>1. /\ Len(call.current) \in Nat /\ Len(call.next) \in Nat /\ Len(call.temps) \in Nat
        /\ Len(call.parts) \in Nat /\ call.level \in Nat /\ call.i \in Nat
    BY CallLengths
  <2>2. /\ 2 * (Len(call.next) + 1) <= call.i + Fanout
        /\ Len(call.temps) + 1 <= 2 * (Len(call.parts) - Len(call.current)) + (Len(call.next) + 1)
        /\ Len(call.temps) + 1 <= 2 * (Len(call.parts) - (Len(call.next) + 1))
        /\ call.level + 1 + (Len(call.next) + 1) <= Len(call.parts)
        /\ Len(call.temps) + 1 <= 2 * (Len(call.parts) - 1) /\ call.level + 1 < Len(call.parts)
    BY <2>1, <1>3, GroupCounts
  <2>3. Len(next) = Len(call.next) + 1
    BY <1>1
  <2>4. call.level < Len(call.parts)
    BY <2>1, <2>2
  <2> QED
    BY <1>2, <2>2, <2>3, <2>4
<1>5. Len(next) \in Nat /\ Len(<<>>) = 0 /\ Len(call'.temps) \in Nat /\ Len(call.parts) \in Nat
  <2> HIDE DEF next
  <2> QED
    BY <1>1, <1>2, CallLengths
<1> HIDE DEF next
<1>6. TreeBounded'
  BY <1>1, <1>4 DEF TreeBounded
<1>7. call'.at = "group" =>
        /\ 2 <= Len(call'.current)
        /\ 2 * Len(call'.next) <= call'.i
        /\ Len(call'.temps) <= 2 * (Len(call'.parts) - Len(call'.current)) + Len(call'.next)
        /\ call'.level + Len(call'.current) <= Len(call'.parts)
  <2>1. CASE call'.current = call.current /\ call'.next = next /\ call'.level = call.level /\ call'.i = call.i + Fanout
    BY <1>1, <1>3, <1>4, <2>1
  <2>2. CASE /\ call'.current = next /\ call'.next = <<>> /\ Len(next) > 1
             /\ call'.level = call.level + 1 /\ call'.i = 0
    <3>1. Len(call'.next) = 0 /\ Len(call'.current) = Len(next) /\ call'.parts = call.parts
      BY <1>1, <1>5, <2>2
    <3>2. /\ 2 <= Len(next) /\ 2 * 0 <= 0 /\ Len(call'.temps) <= 2 * (Len(call.parts) - Len(next)) + 0
          /\ call.level + 1 + Len(next) <= Len(call.parts)
      BY <1>4, <1>5, <2>2
    <3> QED
      BY <2>2, <3>1, <3>2
  <2> QED
    BY <1>1, <2>1, <2>2
<1> QED
  BY <1>6, <1>7 DEF TreeInv

LEMMA TreeComposing ==
  ASSUME IInv, TreeInv, ComposeStep
  PROVE  TreeInv'
<1>1. call \in CallRecord /\ CallInv
  BY DEF IInv, CallInv
<1>2. CASE call' = Failed
  BY <1>1, <1>2, TreeSame DEF Failed, CallRecord
<1>3. CASE call.at = "group" /\ call' = AfterGroup(call)
  BY <1>1, <1>3, TreeGrouped
<1>4. CASE ReadPart /\ call' # Failed
  BY <1>1, <1>4, TreeSame DEF ReadPart, CallRecord
<1>5. CASE CopyFinal \/ DeleteFinalTemp \/ DeleteOne \/ EndClean \/ PostMerge \/ Answered
  <2>1. \/ call' = Failed
        \/ call' = [call EXCEPT !.at = IF dest = "gcs" /\ Len(call.parts) > 1 THEN "final" ELSE "clean",
                                !.doomed = ToDelete]
        \/ \E at \in {"clean", "ok", "wait"} : call' = [call EXCEPT !.at = at]
        \/ call' = [call EXCEPT !.doomed = Tail(@)]
        \/ call' = [[call EXCEPT !.doomed = Tail(@)] EXCEPT !.warned = TRUE]
    BY <1>5 DEF CopyFinal, DeleteFinalTemp, DeleteOne, EndClean, PostMerge, Answered, Request
  <2>2. call.at # "group"
    BY <1>5 DEF CopyFinal, DeleteFinalTemp, DeleteOne, EndClean, PostMerge, Answered
  <2>3. /\ call'.temps = call.temps /\ call'.parts = call.parts /\ call'.level = call.level
        /\ call'.at # "group"
    BY <1>1, <2>1, <2>2 DEF Failed, CallRecord
  <2> QED
    BY <2>3, TreeSame
<1> QED
  BY <1>2, <1>3, <1>4, <1>5 DEF ComposeStep, ComposeGroup, PutTemp, Request

LEMMA TreeBegins ==
  ASSUME call = Idle, NEW parts, BeginCompose(parts), CallInv'
  PROVE  TreeInv'
<1>1. /\ call'.temps = <<>> /\ call'.next = <<>> /\ call'.level = 0 /\ call'.i = 0
      /\ call'.at = "group" => call'.parts = parts /\ call'.current = parts /\ Len(parts) # 1
  BY DEF BeginCompose, Idle, Failed
<1>2. call'.at = "group" => call'.i < Len(call'.current)
  BY DEF CallInv
<1>3. Len(call'.current) \in Nat
  <2>1. call' \in CallRecord'
    BY DEF CallInv
  <2>2. call'.current \in Seq(Sources' \cup Temps)
    BY <2>1 DEF CallRecord, Temps, Temp
  <2> QED
    BY <2>2
<1>4. call'.at = "group" => /\ 2 <= Len(call'.current) /\ call'.parts = call'.current
                            /\ Len(call'.next) = 0 /\ Len(call'.temps) = 0
  <2> SUFFICES ASSUME call'.at = "group"
               PROVE  /\ 2 <= Len(call'.current) /\ call'.parts = call'.current
                      /\ Len(call'.next) = 0 /\ Len(call'.temps) = 0
    OBVIOUS
  <2>1. call'.parts = call'.current /\ Len(call'.current) # 1 /\ 0 < Len(call'.current)
    BY <1>1, <1>2
  <2>2. Len(<<>>) = 0
    OBVIOUS
  <2>3. \A n \in Nat : n # 1 /\ 0 < n => 2 <= n
    OBVIOUS
  <2>4. 2 <= Len(call'.current)
    BY <1>3, <2>1, <2>3, Zenon
  <2> QED
    BY <1>1, <2>1, <2>2, <2>4
<1>5. TreeBounded'
  BY <1>1 DEF TreeBounded
<1>6. call'.at = "group" =>
        /\ 2 <= Len(call'.current)
        /\ 2 * Len(call'.next) <= call'.i
        /\ Len(call'.temps) <= 2 * (Len(call'.parts) - Len(call'.current)) + Len(call'.next)
        /\ call'.level + Len(call'.current) <= Len(call'.parts)
  <2> SUFFICES ASSUME call'.at = "group"
               PROVE  /\ 2 * Len(call'.next) <= call'.i
                      /\ Len(call'.temps) <= 2 * (Len(call'.parts) - Len(call'.current)) + Len(call'.next)
                      /\ call'.level + Len(call'.current) <= Len(call'.parts)
    BY <1>4
  <2>1. Len(call'.parts) = Len(call'.current) /\ Len(call'.next) = 0 /\ Len(call'.temps) = 0
    BY <1>4
  <2> QED
    BY <1>1, <1>3, <2>1
<1> QED
  BY <1>5, <1>6 DEF TreeInv

LEMMA NextTree == IInv /\ TreeInv /\ [Next]_vars => TreeInv'
<1> SUFFICES ASSUME IInv, TreeInv, [Next]_vars PROVE TreeInv'
  OBVIOUS
<1>1. CASE Composing
  BY <1>1, TreeComposing DEF Composing
<1>2. CASE Merging
  <2>1. call' \in {call, [call EXCEPT !.warned = TRUE]}
    BY <1>2 DEF Merging, ServerStep, BeginMerge, CopyChunk, RemoveChunk
  <2>2. call \in CallRecord
    BY DEF IInv, CallInv
  <2> QED
    BY <2>1, <2>2, TreeSame DEF CallRecord
<1>3. CASE FinishChunks \/ FinishShares
  <2>1. call = Idle /\ (call' = call \/ \E parts : BeginCompose(parts))
    BY <1>3 DEF FinishChunks, FinishShares, composeVars, IInv, FlowInv
  <2>2. CallInv'
    BY NextType DEF IInv
  <2> QED
    BY <2>1, <2>2, TreeBegins, TreeSame
<1>4. CASE call' = call
  BY <1>4, TreeSame
<1> QED
  BY <1>1, <1>2, <1>3, <1>4
     DEF Next, StartSingle, UploadChunk, LateAttempt, EndSave, StartLarge, UploadShare, Timeout,
         SingleTimeout, LargeTimeout, ContextDone, Expire, EndCompose, EndSingle, EndLarge, Refuse, composeVars, vars

\* For any number of parts and any fanout, whatever fails.
THEOREM TreeIsBounded == Spec => []TreeBounded
<1>1. Init => TreeInv
  BY DEF Init, InitCompose, Idle, TreeInv, TreeBounded
<1>2. TreeInv => TreeBounded
  BY DEF TreeInv
<1> QED
  BY <1>1, <1>2, InitType, NextType, NextTree, PTL DEF Spec
=============================================================================
