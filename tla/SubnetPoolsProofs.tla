--------------------------- MODULE SubnetPoolsProofs ---------------------------
(***************************************************************************)
(* The counts of ListSubnetsPerPool, for any pools, lengths of addresses,  *)
(* ranges of lengths and number of edits.                                  *)
(*                                                                         *)
(* Two prefixes are nested or apart, so that the largest prefixes of a set *)
(* of addresses are apart and cover every prefix in it; a prefix holds     *)
(* 2^(l - bits) of length l, and a sum of the sizes of sets that are apart *)
(* is the size of their union.  So each count is the size of a set of      *)
(* prefixes of one length, and the properties compare these sets.          *)
(***************************************************************************)
EXTENDS SubnetPools, FiniteSetTheorems, TLAPS

---------------------------------------------------------------------------
(* Powers of two, as numbers of sets.                                      *)

\* There are 2^n sets of n things.
LEMMA PowerIsSize ==
  ASSUME NEW n \in Nat
  PROVE  IsFiniteSet(SUBSET (1..n)) /\ Cardinality(SUBSET (1..n)) = 2^n
<1>1. IsFiniteSet(1..n) /\ Cardinality(1..n) = n
      BY FS_Interval
<1> QED
    BY <1>1, FS_SUBSET

LEMMA PowerType ==
  ASSUME NEW n \in Nat
  PROVE  2^n \in Nat /\ 2^n >= 1
<1>1. 2^n \in Nat
      BY PowerIsSize, FS_CardinalityType
<1>2. SUBSET (1..n) # {}
      OBVIOUS
<1>3. 2^n # 0
      BY <1>2, PowerIsSize, FS_EmptySet
<1> QED
    BY <1>1, <1>3

LEMMA PowerZero == 2^0 = 1
<1>1. 1..0 = {} /\ SUBSET {} = {{}} /\ 0 \in Nat
      OBVIOUS
<1> QED
    BY <1>1, PowerIsSize, FS_Singleton

\* A set of a + b things is one of a and one of b.
LEMMA PowerSum ==
  ASSUME NEW a \in Nat, NEW b \in Nat
  PROVE  2^(a + b) = 2^a * 2^b
<1> DEFINE L == 1..a
           H == a + 1..a + b
           f == [x \in (SUBSET L) \X (SUBSET H) |-> x[1] \cup x[2]]
<1>1. L \cup H = 1..a + b /\ L \cap H = {}
      OBVIOUS
<1>2. /\ IsFiniteSet(L) /\ Cardinality(L) = a
      /\ IsFiniteSet(H) /\ Cardinality(H) = b
      BY FS_Interval
<1>3. /\ IsFiniteSet(SUBSET L) /\ Cardinality(SUBSET L) = 2^a
      /\ IsFiniteSet(SUBSET H) /\ Cardinality(SUBSET H) = 2^b
      BY <1>2, FS_SUBSET
<1> HIDE DEF L, H
<1>4. f \in Bijection((SUBSET L) \X (SUBSET H), SUBSET (L \cup H))
      <2>1. f \in [(SUBSET L) \X (SUBSET H) -> SUBSET (L \cup H)]
            OBVIOUS
      <2>2. \A x \in (SUBSET L) \X (SUBSET H) : x[1] = f[x] \cap L /\ x[2] = f[x] \cap H
            BY <1>1
      <2>3. \A x, y \in (SUBSET L) \X (SUBSET H) : f[x] = f[y] => x = y
            <3> SUFFICES ASSUME NEW x \in (SUBSET L) \X (SUBSET H),
                                NEW y \in (SUBSET L) \X (SUBSET H), f[x] = f[y]
                         PROVE  x = y
                OBVIOUS
            <3> HIDE DEF f
            <3>1. /\ x[1] = f[x] \cap L /\ x[2] = f[x] \cap H
                  /\ y[1] = f[y] \cap L /\ y[2] = f[y] \cap H
                  BY <2>2, Zenon
            <3>2. x = <<x[1], x[2]>> /\ y = <<y[1], y[2]>>
                  OBVIOUS
            <3>3. x[1] = y[1] /\ x[2] = y[2]
                  BY <3>1, Zenon
            <3> QED
                BY <3>2, <3>3, Zenon
      <2>4. \A s \in SUBSET (L \cup H) : \E x \in (SUBSET L) \X (SUBSET H) : f[x] = s
            <3> TAKE s \in SUBSET (L \cup H)
            <3> WITNESS <<s \cap L, s \cap H>> \in (SUBSET L) \X (SUBSET H)
            <3> QED
                OBVIOUS
      <2> QED
          BY <2>1, <2>3, <2>4 DEF Bijection, Injection, Surjection, IsInjective
<1> HIDE DEF f
<1> DEFINE P == (SUBSET L) \X (SUBSET H)
           Q == SUBSET (L \cup H)
<1>5. IsFiniteSet(P) /\ Cardinality(P) = 2^a * 2^b
      <2> DEFINE A == SUBSET L
                 B == SUBSET H
      <2>1. IsFiniteSet(A) /\ IsFiniteSet(B) /\ Cardinality(A) = 2^a /\ Cardinality(B) = 2^b
            BY <1>3
      <2> HIDE DEF A, B
      <2>2. IsFiniteSet(A \X B) /\ Cardinality(A \X B) = Cardinality(A) * Cardinality(B)
            BY <2>1, FS_Product
      <2>3. IsFiniteSet(A \X B) /\ Cardinality(A \X B) = 2^a * 2^b
            BY <2>1, <2>2
      <2> QED
          BY <2>3 DEF A, B
<1>6. ExistsBijection(P, Q)
      BY <1>4 DEF ExistsBijection
<1>7. Cardinality(Q) = Cardinality(P)
      <2> HIDE DEF P, Q
      <2>1. IsFiniteSet(P)
            BY <1>5
      <2>2. IsFiniteSet(P) /\ ExistsBijection(P, Q) => Cardinality(Q) = Cardinality(P)
            BY FS_Bijection
      <2> QED
          BY <1>6, <2>1, <2>2
<1>8. a + b \in Nat
      OBVIOUS
<1>9. Cardinality(SUBSET (L \cup H)) = 2^a * 2^b
      <2> HIDE DEF P
      <2> QED
          BY <1>5, <1>7
<1> QED
    BY <1>1, <1>8, <1>9, PowerIsSize

\* Products with a positive factor.
LEMMA Cancel ==
  ASSUME NEW a \in Int, NEW b \in Int, NEW B \in Nat, B >= 1
  PROVE  /\ a * B \in Int
         /\ a * B < b * B => a < b
         /\ a <= b => a * B <= b * B
  OBVIOUS

---------------------------------------------------------------------------
(* Prefixes.                                                               *)

LEMMA PrefixFacts ==
  ASSUME NEW p \in AllPrefixes
  PROVE  /\ p.bits \in 0..Width /\ Width - p.bits \in Nat
         /\ p \in Prefixes(p.bits)
         /\ \E i \in 0..2^p.bits - 1 :
              /\ p = [start |-> i * 2^(Width - p.bits), bits |-> p.bits]
              /\ p.start = i * 2^(Width - p.bits)
<1>1. PICK b \in 0..Width : p \in Prefixes(b)
      BY DEF AllPrefixes
<1>2. p.bits = b /\ Width - b \in Nat
      BY <1>1, PoolsAssumption DEF Prefixes
<1> QED
    BY <1>1, <1>2 DEF Prefixes

\* The addresses of a prefix are whole blocks of any smaller size.
LEMMA Blocks ==
  ASSUME NEW p \in AllPrefixes, NEW l \in p.bits..Width
  PROVE  \E k \in Nat :
           /\ p.start = k * 2^(Width - l)
           /\ k + 2^(l - p.bits) <= 2^l
           /\ Addresses(p) = k * 2^(Width - l) ..
                             (k + 2^(l - p.bits)) * 2^(Width - l) - 1
<1>1. PICK i \in 0..2^p.bits - 1 : p.start = i * 2^(Width - p.bits)
      BY PrefixFacts
<1> DEFINE B == 2^(Width - l)
           C == 2^(l - p.bits)
           D == 2^p.bits
<1>2. /\ p.bits \in Nat /\ l \in Nat /\ l - p.bits \in Nat /\ Width - l \in Nat
      /\ (l - p.bits) + (Width - l) = Width - p.bits
      /\ p.bits + (l - p.bits) = l
      BY PrefixFacts, PoolsAssumption
<1>3. /\ B \in Nat /\ C \in Nat /\ D \in Nat
      /\ 2^(Width - p.bits) = C * B
      /\ 2^l = D * C
      <2>1. 2^((l - p.bits) + (Width - l)) = C * B
            BY <1>2, PowerSum
      <2>2. 2^(p.bits + (l - p.bits)) = D * C
            BY <1>2, PowerSum
      <2>3. B \in Nat /\ C \in Nat /\ D \in Nat
            BY <1>2, PowerType
      <2> HIDE DEF B, C, D
      <2> QED
          BY <1>2, <2>1, <2>2, <2>3
<1>4. i \in Nat /\ i + 1 <= D
      BY <1>1, <1>3
<1> HIDE DEF B, C, D
<1>5. p.start = (i * C) * B /\ (i * C) * B + C * B = (i * C + C) * B
      BY <1>1, <1>3, <1>4
<1>6. i * C \in Nat /\ i * C + C <= D * C
      BY <1>3, <1>4
<1>7. Addresses(p) = (i * C) * B .. (i * C + C) * B - 1
      BY <1>3, <1>5 DEF Addresses
<1> QED
    BY <1>3, <1>5, <1>6, <1>7 DEF B, C

\* Two prefixes that overlap are one within the other.
LEMMA Nested ==
  ASSUME NEW p \in AllPrefixes, NEW q \in AllPrefixes, p.bits <= q.bits, Overlaps(p, q)
  PROVE  Addresses(q) \subseteq Addresses(p)
<1> DEFINE B == 2^(Width - q.bits)
           C == 2^(q.bits - p.bits)
<1>1. q.bits \in p.bits..Width /\ q.bits \in q.bits..Width
      BY PrefixFacts
<1>2. /\ Width - q.bits \in Nat /\ q.bits - p.bits \in Nat
      /\ q.bits - q.bits = 0 /\ q.bits \in Int
      BY <1>1, PrefixFacts
<1>3. B \in Nat /\ B >= 1 /\ C \in Nat
      BY <1>2, PowerType
<1>4. PICK k \in Nat : Addresses(p) = k * B .. (k + C) * B - 1
      BY <1>1, Blocks
<1>5. PICK j \in Nat : Addresses(q) = j * B .. (j + 1) * B - 1
      <2> DEFINE One == 2^(q.bits - q.bits)
      <2>1. One = 1
            BY <1>2, PowerZero
      <2>2. PICK j \in Nat : Addresses(q) = j * B .. (j + One) * B - 1
            BY <1>1, Blocks
      <2> HIDE DEF B, One
      <2> QED
          BY <2>1, <2>2
<1> HIDE DEF B, C
<1>6. PICK x \in Int : k * B <= x /\ x < (k + C) * B /\ j * B <= x /\ x < (j + 1) * B
      <2>1. /\ k * B \in Int /\ (k + C) * B \in Int
            /\ j * B \in Int /\ (j + 1) * B \in Int
            BY <1>3
      <2>2. PICK x : x \in Addresses(p) /\ x \in Addresses(q)
            BY DEF Overlaps
      <2> QED
          BY <1>4, <1>5, <2>1, <2>2
<1>7. k * B < (j + 1) * B /\ j * B < (k + C) * B
      BY <1>3, <1>6
<1>8. k < j + 1 /\ j < k + C
      BY <1>3, <1>7, Cancel
<1>9. k <= j /\ j + 1 <= k + C
      BY <1>3, <1>8
<1>10. k * B <= j * B /\ (j + 1) * B <= (k + C) * B
       BY <1>3, <1>9, Cancel
<1> QED
    BY <1>3, <1>4, <1>5, <1>10

LEMMA PrefixesFinite ==
  ASSUME NEW b \in 0..Width
  PROVE  IsFiniteSet(Prefixes(b))
<1> DEFINE N == 0..2^b - 1
           f == [i \in N |-> [start |-> i * 2^(Width - b), bits |-> b]]
<1>1. IsFiniteSet(N)
      BY PowerType, FS_Interval
<1>2. f \in Surjection(N, Prefixes(b))
      BY DEF Surjection, Prefixes
<1> QED
    BY <1>1, <1>2, FS_Surjection

\* The prefixes of length l in p.
Within(p, l) == {x \in Prefixes(l) : Addresses(x) \subseteq Addresses(p)}

\* A prefix holds 2^(l - bits) prefixes of length l.
LEMMA WithinCount ==
  ASSUME NEW p \in AllPrefixes, NEW l \in p.bits..Width
  PROVE  IsFiniteSet(Within(p, l)) /\ Cardinality(Within(p, l)) = 2^(l - p.bits)
<1> DEFINE B == 2^(Width - l)
           C == 2^(l - p.bits)
<1>1. PICK k \in Nat : /\ k + C <= 2^l
                       /\ Addresses(p) = k * B .. (k + C) * B - 1
      BY Blocks
<1>2. /\ l \in 0..Width /\ l \in Nat /\ l - p.bits \in Nat /\ Width - l \in Nat
      BY PrefixFacts, PoolsAssumption
<1>3. B \in Nat /\ B >= 1 /\ C \in Nat /\ C >= 1 /\ 2^l \in Nat
      BY <1>2, PowerType
<1> HIDE DEF C
<1> DEFINE f == [j \in 0..C - 1 |-> [start |-> (k + j) * B, bits |-> l]]
<1>4. ASSUME NEW j \in 0..2^l - 1
      PROVE  LET x == [start |-> j * B, bits |-> l] IN
               /\ x \in Prefixes(l)
               /\ Addresses(x) = j * B .. (j + 1) * B - 1
      BY <1>3, <1>4 DEF Prefixes, Addresses
<1> HIDE DEF B
<1>5. f \in [0..C - 1 -> Within(p, l)]
      <2> SUFFICES ASSUME NEW j \in 0..C - 1
                   PROVE  [start |-> (k + j) * B, bits |-> l] \in Within(p, l)
          OBVIOUS
      <2>1. /\ k + j \in 0..2^l - 1 /\ k <= k + j /\ (k + j) + 1 <= k + C
            /\ k + j \in Int /\ k + C \in Int /\ (k + j) + 1 \in Int
            BY <1>1, <1>3
      <2>2. k * B <= (k + j) * B /\ ((k + j) + 1) * B <= (k + C) * B
            BY <1>3, <2>1, Cancel
      <2>3. /\ k * B \in Int /\ (k + j) * B \in Int /\ ((k + j) + 1) * B \in Int
            /\ (k + C) * B \in Int
            BY <1>3, <2>1
      <2> QED
          BY <1>1, <1>4, <2>1, <2>2, <2>3 DEF Within
<1>6. \A i, j \in 0..C - 1 : f[i] = f[j] => i = j
      <2> SUFFICES ASSUME NEW i \in 0..C - 1, NEW j \in 0..C - 1,
                          (k + i) * B = (k + j) * B
                   PROVE  i = j
          OBVIOUS
      <2>1. k + i \in Int /\ k + j \in Int /\ i \in Int /\ j \in Int
            OBVIOUS
      <2>2. ~((k + i) + 1 <= k + j) /\ ~((k + j) + 1 <= k + i)
            <3>1. ASSUME NEW a \in Int, NEW b \in Int, a + 1 <= b, a * B = b * B PROVE FALSE
                  <4>1. (a + 1) * B <= b * B /\ (a + 1) * B = a * B + B /\ a * B \in Int
                        BY <1>3, <3>1, Cancel
                  <4> QED
                      BY <1>3, <3>1, <4>1
            <3> QED
                BY <2>1, <3>1
      <2> QED
          BY <2>1, <2>2
<1>7. \A x \in Within(p, l) : \E j \in 0..C - 1 : f[j] = x
      <2> SUFFICES ASSUME NEW x \in Within(p, l) PROVE \E j \in 0..C - 1 : f[j] = x
          OBVIOUS
      <2>1. PICK j \in 0..2^l - 1 : x = [start |-> j * B, bits |-> l]
            BY DEF Within, Prefixes, B
      <2>2. j * B \in Addresses(p)
            <3>1. Addresses(x) = j * B .. (j + 1) * B - 1
                  BY <1>4, <2>1
            <3>2. j \in Int /\ j * B \in Int /\ (j + 1) * B = j * B + B
                  BY <1>3
            <3>3. j * B \in Addresses(x)
                  BY <1>3, <3>1, <3>2
            <3> QED
                BY <3>3 DEF Within
      <2>3. j \in Int /\ k + C \in Int /\ j * B \in Int
            BY <1>3
      <2>4. k * B <= j * B /\ j * B < (k + C) * B /\ j * B < (j + 1) * B
            <3>1. k * B \in Int /\ (k + C) * B \in Int /\ (j + 1) * B = j * B + B
                  BY <1>3, <2>3
            <3> QED
                BY <1>1, <1>3, <2>2, <2>3, <3>1
      <2>5. k <= j /\ j < k + C
            <3>1. k * B < (j + 1) * B
                  <4>1. k * B \in Int /\ (j + 1) * B \in Int
                        BY <1>3, <2>3
                  <4> QED
                      BY <2>3, <2>4, <4>1
            <3>2. k < j + 1 /\ j < k + C
                  BY <1>3, <2>3, <2>4, <3>1, Cancel
            <3> QED
                BY <2>3, <3>2
      <2>6. j - k \in 0..C - 1 /\ k + (j - k) = j
            BY <1>3, <2>3, <2>5
      <2> QED
          BY <2>1, <2>6
<1>8. f \in Bijection(0..C - 1, Within(p, l))
      BY <1>5, <1>6, <1>7 DEF Bijection, Injection, Surjection, IsInjective
<1> HIDE DEF f
<1>9. IsFiniteSet(0..C - 1) /\ Cardinality(0..C - 1) = C
      BY <1>3, FS_Interval
<1>10. ExistsBijection(0..C - 1, Within(p, l))
       BY <1>8 DEF ExistsBijection
<1> HIDE DEF Within
<1> QED
    BY <1>9, <1>10, FS_Bijection DEF C

\* A prefix begins with its first address.
LEMMA NotEmpty ==
  ASSUME NEW p \in AllPrefixes
  PROVE  p.start \in Addresses(p) /\ p.start \in Int /\ \A x \in Addresses(p) : p.start <= x
<1>1. /\ 2^(Width - p.bits) \in Nat /\ 2^(Width - p.bits) >= 1
      BY PrefixFacts, PowerType
<1>2. p.start \in Int
      BY <1>1, PrefixFacts
<1> QED
    BY <1>1, <1>2 DEF Addresses

\* Every prefix within a set of addresses lies in one of the largest.
LEMMA InLargest ==
  ASSUME NEW set, NEW x \in AllPrefixes, Addresses(x) \subseteq set
  PROVE  \E p \in LargestPrefixes(set) : Addresses(x) \subseteq Addresses(p) /\ p.bits <= x.bits
<1> DEFINE inside == {p \in AllPrefixes : Addresses(p) \subseteq set}
           around == {p \in inside : Overlaps(p, x) /\ p.bits <= x.bits}
           lengths == {p.bits : p \in around}
<1>1. \A p \in AllPrefixes : p.bits \in Nat
      BY PrefixFacts
<1>2. x \in around
      BY <1>1, NotEmpty DEF Overlaps
<1>3. PICK b \in lengths : \A c \in lengths : ~(<<c, b>> \in OpToRel(<, Nat))
      <2>1. lengths \subseteq Nat /\ lengths # {}
            BY <1>1, <1>2
      <2> HIDE DEF lengths
      <2> QED
          BY <2>1, NatLessThanWellFounded, WFMin
<1>4. PICK p \in around : p.bits = b
      BY <1>3
<1>5. Addresses(x) \subseteq Addresses(p)
      BY <1>4, Nested
<1>6. ASSUME NEW q \in inside, Overlaps(p, q) PROVE p.bits <= q.bits
      <2> SUFFICES ASSUME q.bits < p.bits PROVE FALSE
          BY <1>1, <1>4
      <2>1. Addresses(p) \subseteq Addresses(q)
            <3>1. Overlaps(q, p) /\ q.bits <= p.bits
                  BY <1>1, <1>4, <1>6 DEF Overlaps
            <3> QED
                BY <1>4, <3>1, Nested
      <2>2. Overlaps(q, x)
            BY <1>5, <2>1, NotEmpty DEF Overlaps
      <2>3. q.bits <= x.bits
            BY <1>1, <1>4, <1>6
      <2>4. q.bits \in lengths
            BY <1>6, <2>2, <2>3
      <2> QED
          BY <1>1, <1>3, <1>4, <2>4 DEF OpToRel
<1>7. p \in LargestPrefixes(set)
      BY <1>4, <1>6 DEF LargestPrefixes
<1> QED
    BY <1>4, <1>5, <1>7

\* The largest prefixes of a set do not overlap.
LEMMA LargestApart ==
  ASSUME NEW set, NEW p \in LargestPrefixes(set), NEW q \in LargestPrefixes(set), Overlaps(p, q)
  PROVE  p = q
<1>1. /\ p \in AllPrefixes /\ q \in AllPrefixes
      /\ p.bits <= q.bits /\ q.bits <= p.bits
      BY DEF LargestPrefixes, Overlaps
<1>2. p.bits = q.bits
      BY <1>1, PrefixFacts
<1>3. Addresses(p) = Addresses(q)
      <2>1. Overlaps(q, p)
            BY DEF Overlaps
      <2>2. Addresses(q) \subseteq Addresses(p)
            BY <1>1, Nested
      <2>3. Addresses(p) \subseteq Addresses(q)
            BY <1>1, <2>1, Nested
      <2> QED
          BY <2>2, <2>3
<1>4. p.start = q.start
      BY <1>1, <1>3, NotEmpty
<1> QED
    BY <1>1, <1>2, <1>4, PrefixFacts

---------------------------------------------------------------------------
(* Sums over a set, which the model takes with MapThenSumSet.              *)

AllOf(W, s) == UNION {W[x] : x \in s}

\* Finite sets W[x], one for each x in S, that have nothing in common.
Separate(W, S) ==
  /\ \A x \in S : IsFiniteSet(W[x])
  /\ \A x, y \in S : W[x] \cap W[y] # {} => x = y

\* f is what MapThenSumSet builds, for the summands w.
IsSum(f, S, w) ==
  f = [s \in SUBSET S |->
         IF s = {} THEN 0 ELSE w[CHOOSE x \in s : TRUE] + f[s \ {CHOOSE x \in s : TRUE}]]

Sizes(W, S, w) == \A x \in S : w[x] = Cardinality(W[x])

\* One set of the union, and the others.
LEMMA AllOfStep ==
  ASSUME NEW S, IsFiniteSet(S), NEW W, Separate(W, S), NEW s \in SUBSET S, NEW x \in s
  PROVE  /\ IsFiniteSet(AllOf(W, s))
         /\ Cardinality(AllOf(W, s)) = Cardinality(W[x]) + Cardinality(AllOf(W, s \ {x}))
<1> DEFINE images(t) == {W[y] : y \in t}
<1>1. ASSUME NEW t \in SUBSET S PROVE IsFiniteSet(AllOf(W, t))
      <2>1. IsFiniteSet(t)
            BY FS_Subset
      <2>2. IsFiniteSet(images(t))
            <3> DEFINE f == [y \in t |-> W[y]]
            <3>1. f \in Surjection(t, images(t))
                  BY DEF Surjection
            <3> HIDE DEF f, images
            <3> QED
                BY <2>1, <3>1, FS_Surjection
      <2>3. \A T \in images(t) : IsFiniteSet(T)
            BY DEF Separate
      <2> HIDE DEF images
      <2>4. IsFiniteSet(UNION images(t))
            BY <2>2, <2>3, FS_UNION
      <2> QED
          BY <2>4 DEF AllOf, images
<1> DEFINE rest == AllOf(W, s \ {x})
<1>2. IsFiniteSet(rest) /\ IsFiniteSet(AllOf(W, s)) /\ IsFiniteSet(W[x])
      BY <1>1 DEF Separate
<1>3. AllOf(W, s) = W[x] \cup rest
      BY DEF AllOf
<1>4. W[x] \cap rest = {}
      BY DEF AllOf, Separate
<1> HIDE DEF rest
<1>5. Cardinality(W[x] \cup rest) = Cardinality(W[x]) + Cardinality(rest) - Cardinality({})
      BY <1>2, <1>4, FS_Union
<1>6. Cardinality(W[x]) \in Nat /\ Cardinality(rest) \in Nat /\ Cardinality({}) = 0
      BY <1>2, FS_CardinalityType, FS_EmptySet
<1> QED
    BY <1>2, <1>3, <1>5, <1>6 DEF rest

\* MapThenSumSet chooses a function; the sizes of the unions are one.
LEMMA SumExists ==
  ASSUME NEW S, IsFiniteSet(S), NEW W, Separate(W, S), NEW w, Sizes(W, S, w)
  PROVE  \E f : IsSum(f, S, w)
<1> DEFINE f == [s \in SUBSET S |-> Cardinality(AllOf(W, s))]
<1>1. ASSUME NEW s \in SUBSET S, s # {}
      PROVE  f[s] = w[CHOOSE x \in s : TRUE] + f[s \ {CHOOSE x \in s : TRUE}]
      <2> DEFINE x == CHOOSE x \in s : TRUE
      <2>1. x \in s /\ s \ {x} \in SUBSET S
            BY <1>1
      <2> HIDE DEF x
      <2>2. f[s] = Cardinality(W[x]) + f[s \ {x}] /\ w[x] = Cardinality(W[x])
            BY <1>1, <2>1, AllOfStep DEF Sizes
      <2> QED
          BY <2>2 DEF x
<1>2. f[{}] = 0
      <2>1. AllOf(W, {}) = {}
            BY DEF AllOf
      <2> QED
          BY <2>1, FS_EmptySet
<1>3. IsSum(f, S, w)
      <2>1. f = [s \in SUBSET S |-> f[s]]
            OBVIOUS
      <2> HIDE DEF f
      <2> QED
          BY <1>1, <1>2, <2>1 DEF IsSum
<1> QED
    BY <1>3

\* The sum of the sizes is the size of the union.
LEMMA SumIsSize ==
  ASSUME NEW S, IsFiniteSet(S), NEW W, Separate(W, S), NEW w, Sizes(W, S, w),
         NEW f, IsSum(f, S, w)
  PROVE  IsFiniteSet(AllOf(W, S)) /\ f[S] = Cardinality(AllOf(W, S))
<1> DEFINE Bad == {s \in SUBSET S : ~(IsFiniteSet(AllOf(W, s))
                                      /\ f[s] = Cardinality(AllOf(W, s)))}
<1>1. ASSUME Bad # {} PROVE FALSE
      <2> DEFINE R == StrictSubsetOrdering(S)
      <2>1. IsWellFoundedOn(R, SUBSET S)
            BY FS_StrictSubsetOrderingWellFounded, FS_FiniteSubsetsOfFinite
      <2>2. Bad \subseteq SUBSET S
            OBVIOUS
      <2>3. PICK s \in Bad : \A t \in Bad : ~(<<t, s>> \in R)
            <3> HIDE DEF Bad, R
            <3> QED
                BY <1>1, <2>1, <2>2, WFMin
      <2>4. s # {}
            <3>1. AllOf(W, {}) = {}
                  BY DEF AllOf
            <3> QED
                BY <2>3, <3>1, FS_EmptySet DEF IsSum
      <2> DEFINE x == CHOOSE x \in s : TRUE
      <2>5. x \in s /\ s \ {x} \in SUBSET S /\ s \in SUBSET S
            BY <2>3, <2>4
      <2>6. f[s] = w[x] + f[s \ {x}]
            BY <2>4, <2>5 DEF IsSum
      <2> HIDE DEF x
      <2>7. <<s \ {x}, s>> \in R
            BY <2>5 DEF StrictSubsetOrdering
      <2>8. f[s \ {x}] = Cardinality(AllOf(W, s \ {x}))
            BY <2>3, <2>5, <2>7
      <2>9. /\ IsFiniteSet(AllOf(W, s))
            /\ Cardinality(AllOf(W, s)) = Cardinality(W[x]) + Cardinality(AllOf(W, s \ {x}))
            BY <2>5, AllOfStep
      <2> QED
          BY <2>3, <2>5, <2>6, <2>8, <2>9 DEF Sizes
<1> QED
    BY <1>1

---------------------------------------------------------------------------
(* The counts of one sample.                                               *)

\* Prefixes of length l that hold free addresses only.
FreeOnes(ipPrefix, inPool, l) ==
  {x \in Prefixes(l) : /\ Addresses(x) \subseteq Addresses(ipPrefix)
                       /\ \A n \in inPool : ~Overlaps(x, n)}

LEMMA AllPrefixesFinite == IsFiniteSet(AllPrefixes)
<1> DEFINE all == {Prefixes(b) : b \in 0..Width}
           f == [b \in 0..Width |-> Prefixes(b)]
<1>1. IsFiniteSet(0..Width)
      BY FS_Interval, PoolsAssumption
<1>2. f \in Surjection(0..Width, all)
      BY DEF Surjection
<1>3. IsFiniteSet(all)
      <2> HIDE DEF f, all
      <2> QED
          BY <1>1, <1>2, FS_Surjection
<1>4. \A T \in all : IsFiniteSet(T)
      BY PrefixesFinite
<1> HIDE DEF all
<1>5. IsFiniteSet(UNION all)
      BY <1>3, <1>4, FS_UNION
<1> QED
    BY <1>5 DEF all, AllPrefixes

LEMMA PrefixesOf ==
  ASSUME NEW b \in 0..Width, NEW x \in Prefixes(b)
  PROVE  x \in AllPrefixes /\ x.bits = b
  BY DEF AllPrefixes, Prefixes

\* Prefixes that have a prefix of length l in common overlap.
LEMMA WithinApart ==
  ASSUME NEW p \in AllPrefixes, NEW q \in AllPrefixes, NEW l \in 0..Width,
         Within(p, l) \cap Within(q, l) # {}
  PROVE  Overlaps(p, q)
<1>1. PICK x : x \in Prefixes(l) /\ Addresses(x) \subseteq Addresses(p) /\ Addresses(x) \subseteq Addresses(q)
      BY DEF Within
<1>2. x \in AllPrefixes
      BY <1>1, PrefixesOf
<1> QED
    BY <1>1, <1>2, NotEmpty DEF Overlaps

\* calculateFreeSubnets counts the prefixes of length l that are free.
LEMMA FreeCount ==
  ASSUME NEW ipPrefix, NEW inPool, NEW l \in 0..Width
  PROVE  /\ IsFiniteSet(FreeOnes(ipPrefix, inPool, l))
         /\ calculateFreeSubnets(ipPrefix, inPool, l) = Cardinality(FreeOnes(ipPrefix, inPool, l))
<1> DEFINE free == Addresses(ipPrefix) \ UNION {Addresses(s) : s \in inPool}
           S == {p \in LargestPrefixes(free) : p.bits <= l}
           W == [p \in S |-> Within(p, l)]
           w == [p \in S |-> 2^(l - p.bits)]
           iter == CHOOSE f : f = [s \in SUBSET S |->
                     IF s = {} THEN 0
                     ELSE 2^(l - (CHOOSE x \in s : TRUE).bits) + f[s \ {CHOOSE x \in s : TRUE}]]
<1>1. calculateFreeSubnets(ipPrefix, inPool, l) = iter[S]
      BY DEF calculateFreeSubnets, MapThenSumSet, MapThenFoldSet
<1>2. S \subseteq AllPrefixes /\ S \subseteq LargestPrefixes(free) /\ \A p \in S : p.bits <= l
      BY DEF LargestPrefixes
<1>3. IsFiniteSet(S)
      <2> HIDE DEF S
      <2> QED
          BY <1>2, AllPrefixesFinite, FS_Subset
<1>4. FreeOnes(ipPrefix, inPool, l) = {x \in Prefixes(l) : Addresses(x) \subseteq free}
      BY DEF FreeOnes, Overlaps
<1>5. \A x \in Prefixes(l) : Addresses(x) \subseteq free => \E p \in S : x \in Within(p, l)
      <2> SUFFICES ASSUME NEW x \in Prefixes(l), Addresses(x) \subseteq free
                   PROVE  \E p \in S : x \in Within(p, l)
          OBVIOUS
      <2>1. x \in AllPrefixes /\ x.bits = l
            BY PrefixesOf
      <2> HIDE DEF free
      <2>2. PICK p \in LargestPrefixes(free) : Addresses(x) \subseteq Addresses(p) /\ p.bits <= x.bits
            BY <2>1, InLargest
      <2> QED
          BY <2>1, <2>2 DEF Within
<1>6. \A p \in S : Addresses(p) \subseteq free
      BY DEF LargestPrefixes
<1> HIDE DEF free
<1> HIDE DEF S
<1>7. AllOf(W, S) = FreeOnes(ipPrefix, inPool, l)
      <2>1. ASSUME NEW x \in AllOf(W, S) PROVE x \in FreeOnes(ipPrefix, inPool, l)
            BY <1>4, <1>6 DEF AllOf, Within
      <2>2. ASSUME NEW x \in FreeOnes(ipPrefix, inPool, l) PROVE x \in AllOf(W, S)
            <3>1. PICK p \in S : x \in Within(p, l)
                  BY <1>4, <1>5
            <3> QED
                BY <3>1 DEF AllOf
      <2> QED
          BY <2>1, <2>2
<1>8. \A p \in S : /\ l \in p.bits..Width
                   /\ IsFiniteSet(Within(p, l)) /\ Cardinality(Within(p, l)) = 2^(l - p.bits)
      <2> TAKE p \in S
      <2>1. p \in AllPrefixes /\ l \in p.bits..Width
            BY <1>2, PrefixFacts
      <2> QED
          BY <2>1, WithinCount
<1>9. Separate(W, S)
      <2>1. \A p, q \in S : Within(p, l) \cap Within(q, l) # {} => p = q
            BY <1>2, WithinApart, LargestApart
      <2> QED
          BY <1>8, <2>1 DEF Separate
<1>10. Sizes(W, S, w)
       BY <1>8 DEF Sizes
<1>11. \A s \in SUBSET S : s # {} => w[CHOOSE x \in s : TRUE] = 2^(l - (CHOOSE x \in s : TRUE).bits)
       OBVIOUS
<1> HIDE DEF W, w
<1>12. IsSum(iter, S, w)
       <2>1. PICK g : IsSum(g, S, w)
             BY <1>3, <1>9, <1>10, SumExists
       <2> DEFINE E(s) == IF s = {} THEN 0
                          ELSE 2^(l - (CHOOSE x \in s : TRUE).bits)
                                 + g[s \ {CHOOSE x \in s : TRUE}]
       <2>2. g = [s \in SUBSET S |-> E(s)]
             <3>1. \A s \in SUBSET S :
                     g[s] = IF s = {} THEN 0 ELSE w[CHOOSE x \in s : TRUE]
                                                    + g[s \ {CHOOSE x \in s : TRUE}]
                   BY <2>1, Zenon DEF IsSum
             <3>2. \A s \in SUBSET S : g[s] = E(s)
                   BY <1>11, <3>1
             <3>3. g = [s \in SUBSET S |-> g[s]]
                   BY <2>1, Zenon DEF IsSum
             <3> HIDE DEF E
             <3> QED
                 BY <3>2, <3>3
       <2> DEFINE IsIter(f) ==
                    f = [s \in SUBSET S |->
                           IF s = {} THEN 0
                           ELSE 2^(l - (CHOOSE x \in s : TRUE).bits)
                                     + f[s \ {CHOOSE x \in s : TRUE}]]
       <2>3. IsIter(iter)
             <3>1. IsIter(g)
                   BY <2>2
             <3>2. iter = CHOOSE f : IsIter(f)
                   OBVIOUS
             <3> HIDE DEF IsIter, iter
             <3> QED
                 BY <3>1, <3>2, Zenon
       <2> HIDE DEF iter
       <2>4. ASSUME NEW s \in SUBSET S
             PROVE  iter[s] = IF s = {} THEN 0 ELSE w[CHOOSE x \in s : TRUE]
                                                      + iter[s \ {CHOOSE x \in s : TRUE}]
             BY <1>11, <2>3
       <2>5. iter = [s \in SUBSET S |-> iter[s]]
             BY <2>3
       <2> QED
           BY <2>4, <2>5 DEF IsSum
<1> HIDE DEF iter
<1>13. IsFiniteSet(AllOf(W, S)) /\ iter[S] = Cardinality(AllOf(W, S))
       BY <1>3, <1>9, <1>10, <1>12, SumIsSize
<1> QED
    BY <1>1, <1>7, <1>13

\* What is free and what is used are different prefixes of length l in ipPrefix.
LEMMA CountsFit ==
  ASSUME NEW ipPrefix \in AllPrefixes, NEW l \in ipPrefix.bits..Width,
         NEW inPool \in SUBSET AllPrefixes
  PROVE  /\ calculateFreeSubnets(ipPrefix, inPool, l) \in Nat
         /\ calculateUsedSubnets(inPool, ipPrefix, l) \in Nat
         /\ calculateFreeSubnets(ipPrefix, inPool, l) + calculateUsedSubnets(inPool, ipPrefix, l)
              <= 2^(l - ipPrefix.bits)
<1> DEFINE F == FreeOnes(ipPrefix, inPool, l)
           U == {s \in inPool : Overlaps(ipPrefix, s) /\ s.bits = l}
           A == Within(ipPrefix, l)
<1>1. l \in 0..Width /\ ipPrefix.bits <= l
      BY PrefixFacts, PoolsAssumption
<1>2. IsFiniteSet(F) /\ calculateFreeSubnets(ipPrefix, inPool, l) = Cardinality(F)
      BY <1>1, FreeCount
<1>3. calculateUsedSubnets(inPool, ipPrefix, l) = Cardinality(U)
      BY DEF calculateUsedSubnets
<1>4. IsFiniteSet(A) /\ Cardinality(A) = 2^(l - ipPrefix.bits)
      BY WithinCount
<1>5. F \subseteq A
      BY DEF FreeOnes, Within
<1>6. U \subseteq A
      BY <1>1, PrefixFacts, Nested DEF Within
<1>7. F \cap U = {}
      BY NotEmpty DEF FreeOnes, Overlaps
<1> HIDE DEF F, U, A
<1>8. IsFiniteSet(U) /\ F \cup U \in SUBSET A
      BY <1>4, <1>5, <1>6, FS_Subset
<1>9. Cardinality(F \cup U) = Cardinality(F) + Cardinality(U) - Cardinality({})
      BY <1>2, <1>7, <1>8, FS_Union
<1>10. Cardinality(F \cup U) <= Cardinality(A)
       BY <1>4, <1>8, FS_Subset
<1>11. Cardinality(F) \in Nat /\ Cardinality(U) \in Nat /\ Cardinality({}) = 0
       BY <1>2, <1>8, FS_CardinalityType, FS_EmptySet
<1> QED
    BY <1>2, <1>3, <1>4, <1>9, <1>10, <1>11

\* Sets of the same size.
LEMMA EqualSizes ==
  ASSUME NEW S, IsFiniteSet(S), NEW W, Separate(W, S), NEW c \in Nat,
         \A x \in S : Cardinality(W[x]) = c
  PROVE  IsFiniteSet(AllOf(W, S)) /\ Cardinality(AllOf(W, S)) = Cardinality(S) * c
<1> DEFINE Bad == {s \in SUBSET S : ~(IsFiniteSet(AllOf(W, s))
                                      /\ Cardinality(AllOf(W, s)) = Cardinality(s) * c)}
<1>1. ASSUME Bad # {} PROVE FALSE
      <2> DEFINE R == StrictSubsetOrdering(S)
      <2>1. IsWellFoundedOn(R, SUBSET S)
            BY FS_StrictSubsetOrderingWellFounded, FS_FiniteSubsetsOfFinite
      <2>2. Bad \subseteq SUBSET S
            OBVIOUS
      <2>3. PICK s \in Bad : \A t \in Bad : ~(<<t, s>> \in R)
            <3> HIDE DEF Bad, R
            <3> QED
                BY <1>1, <2>1, <2>2, WFMin
      <2>4. s # {}
            <3>1. AllOf(W, {}) = {} /\ 0 * c = 0
                  BY DEF AllOf
            <3> QED
                BY <2>3, <3>1, FS_EmptySet
      <2>5. PICK x : x \in s
            BY <2>4
      <2>6. s \ {x} \in SUBSET S /\ s \in SUBSET S /\ <<s \ {x}, s>> \in R
            BY <2>3, <2>5 DEF StrictSubsetOrdering
      <2>7. Cardinality(AllOf(W, s \ {x})) = Cardinality(s \ {x}) * c
            BY <2>3, <2>6
      <2>8. /\ IsFiniteSet(AllOf(W, s))
            /\ Cardinality(AllOf(W, s)) = c + Cardinality(AllOf(W, s \ {x}))
            BY <2>5, <2>6, AllOfStep
      <2>9. IsFiniteSet(s)
            BY <2>6, FS_Subset
      <2>10. Cardinality(s) \in Nat /\ Cardinality(s \ {x}) = Cardinality(s) - 1
             BY <2>5, <2>9, FS_RemoveElement, FS_CardinalityType
      <2>11. ASSUME NEW n \in Nat PROVE c + (n - 1) * c = n * c
             OBVIOUS
      <2> QED
          BY <2>3, <2>7, <2>8, <2>10, <2>11
<1> QED
    BY <1>1

\* The samples of one prefix of a pool, one for each length.
SamplesOfPrefix(p, x, range) == {Sample(p, x, l) : l \in {l \in range[1]..range[2] : l >= x.bits}}

\* The prefixes of length L in x that a subnet takes.
Taken(x, inPool, L) == {y \in Within(x, L) : \E n \in inPool : Overlaps(y, n)}

\* Scaled to the greatest length, the used ones of all lengths are what subnets take.
LEMMA UsedCount ==
  ASSUME NEW p, NEW x \in AllPrefixes, NEW range, range[1] \in 0..Width,
         range[2] \in range[1]..Width,
         SubnetsOf(p) \subseteq AllPrefixes,
         \A m, n \in SubnetsOf(p) : Overlaps(m, n) => m = n,
         \A n \in SubnetsOf(p) : n.bits \in range[1]..range[2],
         \A n \in SubnetsOf(p) : Overlaps(x, n) => x.bits <= n.bits
  PROVE  UsedInAll(SamplesOfPrefix(p, x, range), range[2])
           = Cardinality(Taken(x, SubnetsOf(p), range[2]))
<1> DEFINE L == range[2]
           inPool == SubnetsOf(p)
           Lengths == {l \in range[1]..L : l >= x.bits}
           S == SamplesOfPrefix(p, x, range)
           Used(l) == {n \in inPool : Overlaps(x, n) /\ n.bits = l}
           V == [n \in inPool |-> Within(n, L)]
           W == [t \in S |-> AllOf(V, Used(t.length))]
           w == [t \in S |-> t.used * 2^(L - t.length)]
           iter == CHOOSE f : f = [s \in SUBSET S |->
                     IF s = {} THEN 0
                     ELSE (CHOOSE t \in s : TRUE).used * 2^(L - (CHOOSE t \in s : TRUE).length)
                            + f[s \ {CHOOSE t \in s : TRUE}]]
<1>1. UsedInAll(S, L) = iter[S]
      BY DEF UsedInAll, MapThenSumSet, MapThenFoldSet
<1>2. L \in 0..Width /\ Lengths \subseteq 0..Width /\ \A l \in Lengths : l <= L /\ L - l \in Nat
      BY PoolsAssumption
<1>3. \A t \in S : /\ t.length \in Lengths
                   /\ t = Sample(p, x, t.length)
                   /\ t.used = Cardinality(Used(t.length))
      <2> TAKE t \in S
      <2>1. PICK l \in Lengths : t = Sample(p, x, l)
            BY DEF SamplesOfPrefix
      <2>2. t.length = l /\ t.used = calculateUsedSubnets(inPool, x, l)
            BY <2>1 DEF Sample
      <2> QED
          BY <2>1, <2>2 DEF calculateUsedSubnets
<1>4. \A l \in Lengths : Sample(p, x, l) \in S /\ Sample(p, x, l).length = l
      BY DEF SamplesOfPrefix, Sample
<1>5. IsFiniteSet(S)
      <2> DEFINE f == [l \in Lengths |-> Sample(p, x, l)]
      <2>1. f \in Surjection(Lengths, S)
            <3>1. \A t \in S : \E l \in Lengths : t = Sample(p, x, l)
                  BY DEF SamplesOfPrefix
            <3> HIDE DEF Lengths, S
            <3> QED
                BY <1>4, <3>1 DEF Surjection
      <2>2. IsFiniteSet(0..Width)
            BY PoolsAssumption, FS_Interval
      <2>3. IsFiniteSet(Lengths)
            <3> HIDE DEF Lengths
            <3> QED
                BY <1>2, <2>2, FS_Subset
      <2> HIDE DEF f, S, Lengths
      <2> QED
          BY <2>1, <2>3, FS_Surjection
<1>6. IsFiniteSet(inPool)
      BY AllPrefixesFinite, FS_Subset
<1> HIDE DEF S, Lengths, L, inPool
<1>7. \A n \in inPool : n \in AllPrefixes /\ n.bits \in 0..Width /\ L \in n.bits..Width
      BY <1>2, PoolsAssumption DEF inPool, L
<1>8. \A n \in inPool : IsFiniteSet(Within(n, L)) /\ Cardinality(Within(n, L)) = 2^(L - n.bits)
      BY <1>7, WithinCount
<1>9. \A m, n \in inPool : Within(m, L) \cap Within(n, L) # {} => m = n
      BY <1>2, <1>7, WithinApart DEF inPool
<1>10. \A l \in Lengths : /\ IsFiniteSet(AllOf(V, Used(l)))
                          /\ Cardinality(AllOf(V, Used(l))) = Cardinality(Used(l)) * 2^(L - l)
       <2> TAKE l \in Lengths
       <2> DEFINE U == Used(l)
                  c == 2^(L - l)
       <2>1. U \subseteq inPool
             OBVIOUS
       <2>2. IsFiniteSet(U)
             <3> HIDE DEF U
             <3> QED
                 BY <1>6, <2>1, FS_Subset
       <2>3. Separate(V, U)
             BY <1>8, <1>9, <2>1 DEF Separate
       <2>4. \A n \in U : Cardinality(V[n]) = c
             BY <1>8, <2>1
       <2>5. c \in Nat
             BY <1>2, PowerType
       <2> HIDE DEF U, c, V
       <2>6. IsFiniteSet(AllOf(V, U)) /\ Cardinality(AllOf(V, U)) = Cardinality(U) * c
             BY <2>2, <2>3, <2>4, <2>5, EqualSizes
       <2> QED
           BY <2>6 DEF U, c
<1>11. Separate(W, S)
       <2>1. \A t \in S : IsFiniteSet(W[t])
             BY <1>3, <1>10
       <2>2. ASSUME NEW t \in S, NEW u \in S, W[t] \cap W[u] # {} PROVE t = u
             <3>1. PICK y : y \in AllOf(V, Used(t.length)) /\ y \in AllOf(V, Used(u.length))
                   BY <2>2
             <3>2. PICK m \in Used(t.length) : y \in Within(m, L)
                   BY <3>1 DEF AllOf
             <3>3. PICK n \in Used(u.length) : y \in Within(n, L)
                   BY <3>1 DEF AllOf
             <3>4. m = n
                   BY <1>9, <3>2, <3>3
             <3>5. t.length = u.length
                   BY <3>2, <3>3, <3>4
             <3> QED
                 BY <1>3, <3>5
       <2> HIDE DEF W
       <2> QED
           BY <2>1, <2>2 DEF Separate
<1>12. Sizes(W, S, w)
       BY <1>3, <1>10 DEF Sizes
<1>13. \A s \in SUBSET S : s # {} =>
         w[CHOOSE t \in s : TRUE]
           = (CHOOSE t \in s : TRUE).used * 2^(L - (CHOOSE t \in s : TRUE).length)
       OBVIOUS
<1>14. AllOf(W, S) = Taken(x, inPool, L)
       <2>1. ASSUME NEW y \in AllOf(W, S) PROVE y \in Taken(x, inPool, L)
             <3>1. PICK t \in S : y \in AllOf(V, Used(t.length))
                   BY DEF AllOf
             <3>2. PICK n \in inPool : Overlaps(x, n) /\ y \in Within(n, L)
                   BY <3>1 DEF AllOf
             <3>3. Addresses(n) \subseteq Addresses(x)
                   BY <1>7, <3>2, Nested DEF inPool
             <3>4. y \in Prefixes(L) /\ Addresses(y) \subseteq Addresses(n)
                   BY <3>2 DEF Within
             <3>5. Overlaps(y, n)
                   BY <1>2, <3>4, PrefixesOf, NotEmpty DEF Overlaps
             <3> QED
                 BY <3>3, <3>4, <3>5 DEF Taken, Within
       <2>2. ASSUME NEW y \in Taken(x, inPool, L) PROVE y \in AllOf(W, S)
             <3>1. PICK n \in inPool : Overlaps(y, n)
                   BY DEF Taken
             <3>2. /\ y \in AllPrefixes /\ y.bits = L /\ y \in Prefixes(L)
                   /\ Addresses(y) \subseteq Addresses(x)
                   BY <1>2, PrefixesOf DEF Taken, Within
             <3>3. Addresses(y) \subseteq Addresses(n)
                   <4>1. n \in AllPrefixes /\ n.bits <= y.bits /\ Overlaps(n, y)
                         BY <1>2, <1>7, <3>1, <3>2 DEF Overlaps
                   <4> QED
                       BY <3>2, <4>1, Nested
             <3>4. Overlaps(x, n)
                   BY <3>1, <3>2 DEF Overlaps
             <3>5. n.bits \in Lengths
                   <4>1. x.bits \in Nat /\ x.bits <= n.bits
                         BY <3>4, PrefixFacts DEF inPool
                   <4> QED
                       BY <1>7, <4>1 DEF Lengths, inPool, L
             <3>6. n \in Used(n.bits) /\ y \in V[n]
                   BY <3>2, <3>3, <3>4 DEF Within
             <3>7. y \in W[Sample(p, x, n.bits)]
                   <4>1. y \in AllOf(V, Used(n.bits))
                         BY <3>6 DEF AllOf
                   <4> QED
                       BY <1>4, <3>5, <4>1
             <3> QED
                 BY <1>4, <3>5, <3>7 DEF AllOf
       <2> QED
           BY <2>1, <2>2
<1> HIDE DEF W, w
<1>15. IsSum(iter, S, w)
       <2>1. PICK g : IsSum(g, S, w)
             BY <1>5, <1>11, <1>12, SumExists
       <2> DEFINE E(s) == IF s = {} THEN 0
                          ELSE (CHOOSE t \in s : TRUE).used
                                   * 2^(L - (CHOOSE t \in s : TRUE).length)
                                 + g[s \ {CHOOSE t \in s : TRUE}]
       <2>2. g = [s \in SUBSET S |-> E(s)]
             <3>1. \A s \in SUBSET S :
                     g[s] = IF s = {} THEN 0 ELSE w[CHOOSE t \in s : TRUE]
                                                    + g[s \ {CHOOSE t \in s : TRUE}]
                   BY <2>1, Zenon DEF IsSum
             <3>2. \A s \in SUBSET S : g[s] = E(s)
                   BY <1>13, <3>1
             <3>3. g = [s \in SUBSET S |-> g[s]]
                   BY <2>1, Zenon DEF IsSum
             <3> HIDE DEF E
             <3> QED
                 BY <3>2, <3>3
       <2> DEFINE IsIter(f) ==
                    f = [s \in SUBSET S |->
                           IF s = {} THEN 0
                           ELSE (CHOOSE t \in s : TRUE).used
                                       * 2^(L - (CHOOSE t \in s : TRUE).length)
                                     + f[s \ {CHOOSE t \in s : TRUE}]]
       <2>3. IsIter(iter)
             <3>1. IsIter(g)
                   BY <2>2
             <3>2. iter = CHOOSE f : IsIter(f)
                   OBVIOUS
             <3> HIDE DEF IsIter, iter
             <3> QED
                 BY <3>1, <3>2, Zenon
       <2> HIDE DEF iter
       <2>4. ASSUME NEW s \in SUBSET S
             PROVE  iter[s] = IF s = {} THEN 0 ELSE w[CHOOSE t \in s : TRUE]
                                                      + iter[s \ {CHOOSE t \in s : TRUE}]
             BY <1>13, <2>3
       <2>5. iter = [s \in SUBSET S |-> iter[s]]
             BY <2>3
       <2> QED
           BY <2>4, <2>5 DEF IsSum
<1> HIDE DEF iter
<1>16. iter[S] = Cardinality(AllOf(W, S))
       BY <1>5, <1>11, <1>12, <1>15, SumIsSize
<1> QED
    BY <1>1, <1>14, <1>16 DEF S, L, inPool

\* At the greatest length a prefix is free or taken.
LEMMA FreeOrTaken ==
  ASSUME NEW x \in AllPrefixes, NEW L \in x.bits..Width, NEW inPool
  PROVE  2^(L - x.bits) = calculateFreeSubnets(x, inPool, L) + Cardinality(Taken(x, inPool, L))
<1> DEFINE F == FreeOnes(x, inPool, L)
           T == Taken(x, inPool, L)
           A == Within(x, L)
<1>1. L \in 0..Width
      BY PrefixFacts, PoolsAssumption
<1>2. IsFiniteSet(F) /\ calculateFreeSubnets(x, inPool, L) = Cardinality(F)
      BY <1>1, FreeCount
<1>3. IsFiniteSet(A) /\ Cardinality(A) = 2^(L - x.bits)
      BY WithinCount
<1>4. F \cup T = A /\ F \cap T = {} /\ T \subseteq A
      BY DEF FreeOnes, Taken, Within
<1> HIDE DEF F, T, A
<1>5. IsFiniteSet(T)
      BY <1>3, <1>4, FS_Subset
<1>6. Cardinality(A) = Cardinality(F) + Cardinality(T) - Cardinality({})
      BY <1>2, <1>4, <1>5, FS_Union
<1>7. Cardinality(F) \in Nat /\ Cardinality(T) \in Nat /\ Cardinality({}) = 0
      BY <1>2, <1>5, FS_CardinalityType, FS_EmptySet
<1> QED
    BY <1>2, <1>3, <1>6, <1>7 DEF T

---------------------------------------------------------------------------
(* The two answers.                                                        *)

PoolMaps(ps) ==
  /\ DOMAIN ps \subseteq Pools
  /\ ps \in [DOMAIN ps -> [addresses : SUBSET Int, range : Ranges]]

\* Subnets ss of the pools ps: each has been made from the addresses of its pool, and no
\* two of a pool overlap.
Allocated(ps, ss) ==
  /\ ss \subseteq [pool : Pools \cup {NoPool}, prefix : AllPrefixes]
  /\ \A s \in ss : s.pool # NoPool =>
       s.pool \in DOMAIN ps /\ Addresses(s.prefix) \subseteq ps[s.pool].addresses
  /\ \A s, t \in ss :
       s.pool = t.pool /\ s.pool # NoPool /\ Overlaps(s.prefix, t.prefix) => s = t

\* The subnets were asked for first, and pools only grow, so that they lie in the
\* pools of the second answer.
Answered ==
  /\ next \in 0..4
  /\ PoolMaps(pools) /\ PoolMaps(allPools)
  /\ Allocated(pools, subnets)
  /\ next = 2 => Allocated(pools, allSubnets)
  /\ next \in {3, 4} => Allocated(allPools, allSubnets)
  /\ next \in 0..3 => samples = {}
  /\ next = 4 => samples = UNION {SamplesOf(p) : p \in DOMAIN allPools}

\* What is allocated remains so when pools are made or grow.
LEMMA GrownAllocated ==
  ASSUME NEW ps, NEW qs, NEW ss, Allocated(ps, ss), DOMAIN ps \subseteq DOMAIN qs,
         \A p \in DOMAIN ps : ps[p].addresses \subseteq qs[p].addresses
  PROVE  Allocated(qs, ss)
  BY DEF Allocated

\* An edit of neutron comes before the second answer.
LEMMA EditKeeps ==
  ASSUME Answered, Edit, PoolMaps(pools'), Allocated(pools', subnets'),
         DOMAIN pools \subseteq DOMAIN pools',
         \A p \in DOMAIN pools : pools[p].addresses \subseteq pools'[p].addresses
  PROVE  Answered'
<1>1. next = 2 => Allocated(pools', allSubnets)
      BY GrownAllocated DEF Answered
<1> QED
    BY <1>1 DEF Answered, Edit

LEMMA AnsweredInductive == Spec => []Answered
<1>1. Init => Answered
      BY DEF Init, Answered, PoolMaps, Allocated
<1>2. ASSUME Answered, [Next]_vars PROVE Answered'
      <2>1. ASSUME NEW p \in Pools, NEW x \in AllPrefixes, NEW r \in Ranges,
                   CreatePool(p, x, r)
            PROVE  Answered'
            <3>1. PoolMaps(pools')
                  BY <1>2, <2>1 DEF CreatePool, Answered, PoolMaps, Addresses
            <3>2. /\ DOMAIN pools \subseteq DOMAIN pools'
                  /\ \A q \in DOMAIN pools : pools[q].addresses \subseteq pools'[q].addresses
                  BY <2>1 DEF CreatePool
            <3>3. Allocated(pools', subnets')
                  BY <1>2, <2>1, <3>2, GrownAllocated DEF CreatePool, Answered
            <3> QED
                BY <1>2, <2>1, <3>1, <3>2, <3>3, EditKeeps DEF CreatePool
      <2>2. ASSUME NEW p \in DOMAIN pools, NEW x \in AllPrefixes, GrowPool(p, x)
            PROVE  Answered'
            <3>1. PoolMaps(pools')
                  BY <1>2, <2>2 DEF GrowPool, Answered, PoolMaps, Addresses
            <3>2. /\ DOMAIN pools \subseteq DOMAIN pools'
                  /\ \A q \in DOMAIN pools : pools[q].addresses \subseteq pools'[q].addresses
                  <4>1. pools' = [pools EXCEPT ![p].addresses = @ \cup Addresses(x)]
                        BY <2>2 DEF GrowPool
                  <4>2. pools \in [DOMAIN pools -> [addresses : SUBSET Int, range : Ranges]]
                        BY <1>2 DEF Answered, PoolMaps
                  <4>3. DOMAIN pools' = DOMAIN pools
                        BY <4>1
                  <4>4. ASSUME NEW q \in DOMAIN pools
                        PROVE  pools[q].addresses \subseteq pools'[q].addresses
                        <5>1. CASE q = p
                              <6>1. pools[p] \in [addresses : SUBSET Int, range : Ranges]
                                    BY <4>2
                              <6>2. pools'[p] = [pools[p] EXCEPT !.addresses
                                                   = @ \cup Addresses(x)]
                                    BY <4>1
                              <6> QED
                                  BY <5>1, <6>1, <6>2
                        <5>2. CASE q # p
                              BY <4>1, <5>2
                        <5> QED
                            BY <5>1, <5>2
                  <4> QED
                      BY <4>3, <4>4
            <3>3. Allocated(pools', subnets')
                  <4>1. subnets' = subnets /\ Allocated(pools, subnets)
                        BY <1>2, <2>2 DEF GrowPool, Answered
                  <4> QED
                      BY <3>2, <4>1, GrownAllocated
            <3> QED
                BY <1>2, <2>2, <3>1, <3>2, <3>3, EditKeeps DEF GrowPool
      <2>3. ASSUME NEW p \in DOMAIN pools, NEW r \in Ranges, SetRange(p, r)
            PROVE  Answered'
            <3>1. PoolMaps(pools')
                  BY <1>2, <2>3 DEF SetRange, Answered, PoolMaps
            <3>2. /\ DOMAIN pools \subseteq DOMAIN pools'
                  /\ \A q \in DOMAIN pools : pools[q].addresses \subseteq pools'[q].addresses
                  BY <1>2, <2>3 DEF SetRange, Answered, PoolMaps
            <3>3. Allocated(pools', subnets')
                  BY <1>2, <2>3, <3>2, GrownAllocated DEF SetRange, Answered
            <3> QED
                BY <1>2, <2>3, <3>1, <3>2, <3>3, EditKeeps DEF SetRange
      <2>4. ASSUME NEW p \in DOMAIN pools, NEW x \in AllPrefixes, CreateSubnet(p, x)
            PROVE  Answered'
            <3> DEFINE new == [pool |-> p, prefix |-> x]
            <3>1. /\ pools' = pools /\ subnets' = subnets \cup {new}
                  /\ Addresses(x) \subseteq pools[p].addresses
                  /\ \A s \in subnets : s.pool = p => ~Overlaps(s.prefix, x)
                  /\ Allocated(pools, subnets) /\ p \in Pools
                  BY <1>2, <2>4 DEF CreateSubnet, Answered, PoolMaps
            <3>2. new.pool = p /\ new.prefix = x /\ new \in [pool : Pools \cup {NoPool}, prefix : AllPrefixes]
                  BY <3>1
            <3> HIDE DEF new
            <3>3. \A s \in subnets : s.pool = p => ~Overlaps(s.prefix, x) /\ ~Overlaps(x, s.prefix)
                  BY <3>1 DEF Overlaps
            <3>4. Allocated(pools', subnets')
                  BY <3>1, <3>2, <3>3 DEF Allocated
            <3> QED
                BY <1>2, <2>4, <3>1, <3>4, EditKeeps DEF CreateSubnet, Answered
      <2>5. ASSUME NEW x \in AllPrefixes, CreateSubnetWithoutPool(x) PROVE Answered'
            <3>1. Allocated(pools', subnets')
                  BY <1>2, <2>5 DEF CreateSubnetWithoutPool, Answered, Allocated
            <3> QED
                BY <1>2, <2>5, <3>1, EditKeeps DEF CreateSubnetWithoutPool, Answered
      <2>6. ASSUME NEW s \in subnets, DeleteSubnet(s) PROVE Answered'
            <3>1. Allocated(pools', subnets')
                  BY <1>2, <2>6 DEF DeleteSubnet, Answered, Allocated
            <3> QED
                BY <1>2, <2>6, <3>1, EditKeeps DEF DeleteSubnet, Answered
      <2>7. CASE ListSubnets
            BY <1>2, <2>7 DEF ListSubnets, Request, Requests, neutron, Answered
      <2>8. CASE ListPools
            BY <1>2, <2>8 DEF ListPools, Request, Requests, neutron, Answered
      <2>9. CASE RequestFails
            BY <1>2, <2>9 DEF RequestFails, Requests, neutron, Answered
      <2>10. CASE Send
             <3>1. next = 3 /\ next' = 4 /\ UNCHANGED <<pools, subnets, allSubnets, allPools>>
                   BY <2>10 DEF Send, Requests, neutron
             <3>2. \A p : SamplesOf(p)' = SamplesOf(p)
                   BY <3>1 DEF SamplesOf, Sample, SubnetsOf
             <3>3. samples' = UNION {SamplesOf(p)' : p \in DOMAIN allPools'}
                   BY <2>10, <3>1, <3>2 DEF Send
             <3> QED
                 BY <1>2, <3>1, <3>3 DEF Answered
      <2>11. CASE UNCHANGED vars
             <3>1. \A p : SamplesOf(p)' = SamplesOf(p)
                   BY <2>11 DEF SamplesOf, Sample, SubnetsOf, vars
             <3> QED
                 BY <1>2, <2>11, <3>1 DEF vars, neutron, Answered
      <2> QED
          BY <1>2, <2>1, <2>2, <2>3, <2>4, <2>5, <2>6, <2>7, <2>8, <2>9, <2>10, <2>11
          DEF Next, Done
<1> QED
    BY <1>1, <1>2, PTL DEF Spec

\* What a sample that was sent is about.
LEMMA SampleFacts ==
  ASSUME Answered, NEW s \in samples
  PROVE  /\ s.pool \in DOMAIN allPools /\ allPools[s.pool].range \in Ranges
         /\ s.prefix \in LargestPrefixes(allPools[s.pool].addresses)
         /\ s.prefix \in AllPrefixes
         /\ s.length \in s.prefix.bits..Width
         /\ s.length \in 0..Width
         /\ s = Sample(s.pool, s.prefix, s.length)
         /\ SubnetsOf(s.pool) \subseteq AllPrefixes
         /\ {t \in samples : t.pool = s.pool /\ t.prefix = s.prefix}
              = SamplesOfPrefix(s.pool, s.prefix, allPools[s.pool].range)
<1>1. samples = UNION {SamplesOf(p) : p \in DOMAIN allPools} /\ Allocated(allPools, allSubnets)
      BY DEF Answered
<1>2. PICK p \in DOMAIN allPools : s \in SamplesOf(p)
      BY <1>1
<1> DEFINE range == allPools[p].range
           largest == LargestPrefixes(allPools[p].addresses)
<1>3. PICK x \in largest, l \in range[1]..range[2] : l >= x.bits /\ s = Sample(p, x, l)
      BY <1>2 DEF SamplesOf
<1>4. s.pool = p /\ s.prefix = x /\ s.length = l
      BY <1>3 DEF Sample
<1>5. range \in Ranges /\ p \in Pools
      BY DEF Answered, PoolMaps
<1>6. x \in AllPrefixes
      BY DEF LargestPrefixes
<1>7. l \in x.bits..Width /\ l \in 0..Width
      BY <1>3, <1>5, <1>6, PrefixFacts, PoolsAssumption
<1>8. SubnetsOf(p) \subseteq AllPrefixes
      BY <1>1 DEF SubnetsOf, Allocated
<1>9. {t \in samples : t.pool = p /\ t.prefix = x} = SamplesOfPrefix(p, x, range)
      <2>1. ASSUME NEW t \in samples, t.pool = p, t.prefix = x
            PROVE  t \in SamplesOfPrefix(p, x, range)
            <3>1. PICK q \in DOMAIN allPools : t \in SamplesOf(q)
                  BY <1>1
            <3>2. PICK y \in LargestPrefixes(allPools[q].addresses),
                       m \in allPools[q].range[1]..allPools[q].range[2] :
                         m >= y.bits /\ t = Sample(q, y, m)
                  BY <3>1 DEF SamplesOf
            <3>3. q = p /\ y = x
                  BY <2>1, <3>2 DEF Sample
            <3> QED
                BY <3>2, <3>3 DEF SamplesOfPrefix
      <2>2. ASSUME NEW t \in SamplesOfPrefix(p, x, range)
            PROVE  t \in samples /\ t.pool = p /\ t.prefix = x
            <3>1. PICK m \in range[1]..range[2] : m >= x.bits /\ t = Sample(p, x, m)
                  BY <2>2 DEF SamplesOfPrefix
            <3>2. t \in SamplesOf(p)
                  BY <3>1 DEF SamplesOf
            <3> QED
                BY <1>1, <3>1, <3>2 DEF Sample
      <2> QED
          BY <2>1, <2>2
<1> QED
    BY <1>3, <1>4, <1>5, <1>6, <1>7, <1>8, <1>9

\* subnets_free counts the prefixes of that length that meet no subnet of the pool
\* (neutron.go:705-728), for any pools, subnets and edits.
THEOREM FreeCounted == Spec => []FreeIsExact
<1>1. ASSUME Answered, NEW s \in samples
      PROVE  s.free = Cardinality({x \in Prefixes(s.length) :
                            /\ Addresses(x) \subseteq Addresses(s.prefix)
                            /\ \A n \in SubnetsOf(s.pool) : ~Overlaps(x, n)})
      <2>1. s.length \in 0..Width /\ s = Sample(s.pool, s.prefix, s.length)
            BY <1>1, SampleFacts
      <2>2. s.free = calculateFreeSubnets(s.prefix, SubnetsOf(s.pool), s.length)
            BY <2>1 DEF Sample
      <2>3. s.free = Cardinality(FreeOnes(s.prefix, SubnetsOf(s.pool), s.length))
            BY <2>1, <2>2, FreeCount
      <2> QED
          BY <2>3 DEF FreeOnes
<1>2. Answered => FreeIsExact
      BY <1>1 DEF FreeIsExact
<1> QED
    BY <1>2, AnsweredInductive, PTL

\* What is free and what is used of a pool are never more than its prefixes
\* (neutron.go:732-744, 785-796).
THEOREM FreeAndUsedAreParts == Spec => []FreeAndUsedFit
<1>1. ASSUME Answered, NEW s \in samples PROVE s.free + s.used <= s.total
      <2>1. /\ s.prefix \in AllPrefixes /\ s.length \in s.prefix.bits..Width
            /\ SubnetsOf(s.pool) \in SUBSET AllPrefixes
            /\ s = Sample(s.pool, s.prefix, s.length)
            BY <1>1, SampleFacts
      <2>2. /\ s.free = calculateFreeSubnets(s.prefix, SubnetsOf(s.pool), s.length)
            /\ s.used = calculateUsedSubnets(SubnetsOf(s.pool), s.prefix, s.length)
            /\ s.total = 2^(s.length - s.prefix.bits)
            BY <2>1 DEF Sample
      <2> QED
          BY <2>1, <2>2, CountsFit
<1>2. Answered => FreeAndUsedFit
      BY <1>1 DEF FreeAndUsedFit
<1> QED
    BY <1>2, AnsweredInductive, PTL

\* Nothing is lost between the two answers, and nothing counted twice
\* (neutron.go:748-799).
THEOREM SubnetsAccounted == Spec => []AllAccounted
<1>1. ASSUME Answered, NEW s \in samples,
             s.length = allPools[s.pool].range[2],
             \A n \in SubnetsOf(s.pool) :
               n.bits \in allPools[s.pool].range[1]..allPools[s.pool].range[2]
      PROVE  s.total = s.free + UsedInAll({t \in samples : t.pool = s.pool /\ t.prefix = s.prefix},
                                          s.length)
      <2> DEFINE p == s.pool
                 x == s.prefix
                 range == allPools[p].range
                 inPool == SubnetsOf(p)
      <2>1. /\ p \in DOMAIN allPools /\ range \in Ranges
            /\ x \in LargestPrefixes(allPools[p].addresses) /\ x \in AllPrefixes
            /\ s.length \in x.bits..Width
            /\ inPool \in SUBSET AllPrefixes
            /\ s = Sample(p, x, s.length)
            /\ {t \in samples : t.pool = p /\ t.prefix = x} = SamplesOfPrefix(p, x, range)
            BY <1>1, SampleFacts
      <2>2. /\ s.free = calculateFreeSubnets(x, inPool, s.length)
            /\ s.total = 2^(s.length - x.bits)
            BY <2>1 DEF Sample
      <2>3. range[1] \in 0..Width /\ range[2] \in range[1]..Width
            BY <2>1, PoolsAssumption
      <2>4. Allocated(allPools, allSubnets) /\ p # NoPool
            <3>1. samples # {}
                  OBVIOUS
            <3> QED
                BY <1>1, <2>1, <3>1, PoolsAssumption DEF Answered, PoolMaps
      <2>5. \A m, n \in inPool : Overlaps(m, n) => m = n
            BY <2>4 DEF SubnetsOf, Allocated
      <2>6. \A n \in inPool : Overlaps(x, n) => x.bits <= n.bits
            <3>1. \A n \in inPool : Addresses(n) \subseteq allPools[p].addresses
                  BY <2>4 DEF SubnetsOf, Allocated
            <3> QED
                BY <2>1, <3>1 DEF LargestPrefixes
      <2>7. UsedInAll(SamplesOfPrefix(p, x, range), range[2]) = Cardinality(Taken(x, inPool, range[2]))
            BY <1>1, <2>1, <2>3, <2>5, <2>6, UsedCount
      <2>8. 2^(s.length - x.bits)
              = calculateFreeSubnets(x, inPool, s.length) + Cardinality(Taken(x, inPool, s.length))
            BY <2>1, FreeOrTaken
      <2> QED
          BY <1>1, <2>1, <2>2, <2>7, <2>8
<1>2. Answered => AllAccounted
      BY <1>1 DEF AllAccounted
<1> QED
    BY <1>2, AnsweredInductive, PTL
================================================================================
