---------------------------- MODULE StartupProofs ----------------------------
(***************************************************************************)
(* The services of a process and of a request, the microversion of nova's  *)
(* client, and the labels and the flavor ids of server_status, for any     *)
(* lists of services, version documents, mappings, names, servers and      *)
(* edits; then Startup, which implements its two parts, so that what is    *)
(* proved of them holds of the whole.                                      *)
(*                                                                         *)
(* The lists are results of loops, and a loop is induction.  Every set of  *)
(* naturals has a least element, so that a set which has 0, and k + 1 with *)
(* every k, has them all (UpTo): induction without an operator to          *)
(* instantiate.                                                            *)
(***************************************************************************)
EXTENDS Startup, WellFoundedInduction, TLAPS

---------------------------------------------------------------------------
(* Loops over a list, which the models write as FoldLeft.                  *)

\* Every set of naturals that is not empty has a least element.
LEMMA LeastNatural ==
  ASSUME NEW T, T \subseteq Nat, T # {}
  PROVE  \E x \in T : \A y \in T : x <= y
<1>1. PICK x \in T : \A y \in T : ~(<<y, x>> \in OpToRel(<, Nat))
      BY NatLessThanWellFounded, WFMin
<1>2. \A y \in T : ~(y < x)
      BY <1>1 DEF OpToRel
<1> QED
    BY <1>2

\* Induction from 0 to n; P is the set of the numbers that have the property.
LEMMA UpTo ==
  ASSUME NEW n \in Nat, NEW P, 0 \in P, \A k \in 0..n - 1 : k \in P => k + 1 \in P
  PROVE  0..n \subseteq P
<1> DEFINE T == (0..n) \ P
<1> SUFFICES ASSUME T # {} PROVE FALSE
    OBVIOUS
<1>1. PICK x \in T : \A y \in T : x <= y
      <2>1. T \subseteq Nat
            OBVIOUS
      <2> HIDE DEF T
      <2> QED
          BY <2>1, LeastNatural
<1>2. x # 0 /\ x - 1 \in 0..n - 1
      BY <1>1
<1>3. x - 1 \in P
      BY <1>1, <1>2
<1> QED
    BY <1>1, <1>2, <1>3

LEMMA MaxOfNaturals ==
  ASSUME NEW n \in Nat, NEW s \in SUBSET (1..n), s # {}
  PROVE  Max(s) \in s /\ \A x \in s : Max(s) >= x
<1> DEFINE below == {n - x : x \in s}
<1>1. PICK d \in below : \A e \in below : d <= e
      <2>1. \A x \in s : n - x \in Nat
            OBVIOUS
      <2>2. below \subseteq Nat /\ below # {}
            BY <2>1
      <2> HIDE DEF below
      <2> QED
          BY <2>2, LeastNatural
<1>2. PICK m \in s : d = n - m
      BY <1>1
<1>3. \A x \in s : m >= x
      BY <1>1, <1>2
<1> QED
    BY <1>3 DEF Max

\* Of 1..k, FoldLeft takes k last.
LEMMA InitialSegments ==
  ASSUME NEW k \in Nat \ {0}
  PROVE  1..k # {} /\ Max(1..k) = k /\ (1..k) \ {Max(1..k)} = 1..k - 1
<1>1. 1..k # {} /\ k \in 1..k
      OBVIOUS
<1>2. Max(1..k) = k
      <2>1. Max(1..k) \in 1..k /\ \A x \in 1..k : Max(1..k) >= x
            BY <1>1, MaxOfNaturals
      <2> QED
          BY <1>1, <2>1
<1> QED
    BY <1>1, <1>2

\* f is what FoldLeft builds for n elements: step[<<i, r>>] is what becomes of the
\* result r at the i-th.
IsFold(f, n, base, step) ==
  \A s \in SUBSET (1..n) :
    f[s] = IF s = {} THEN base ELSE step[<<Max(s), f[s \ {Max(s)}]>>]

\* A result in R remains in R.
StaysIn(R, n, step) == \A k \in 1..n, r \in R : step[<<k, r>>] \in R

\* result[k] is the result after k elements.
IsResult(result, n, base, step) ==
  /\ result[0] = base
  /\ \A k \in 1..n : result[k] = step[<<k, result[k - 1]>>]

\* FoldLeft chooses a function; there is one.
LEMMA FoldExists ==
  ASSUME NEW n \in Nat, NEW R, NEW base \in R, NEW step \in [(1..n) \X R -> R]
  PROVE  \E f \in [SUBSET (1..n) -> R] : IsFold(f, n, base, step)
<1> DEFINE Fold(f, k) == f \in [SUBSET (1..k) -> R] /\ IsFold(f, k, base, step)
           P == {k \in 0..n : \E f : Fold(f, k)}
<1>1. 0 \in P
      <2> DEFINE f == [s \in SUBSET (1..0) |-> base]
      <2>1. \A s \in SUBSET (1..0) : s = {}
            OBVIOUS
      <2>2. Fold(f, 0)
            BY <2>1 DEF IsFold
      <2>3. 0 \in 0..n
            OBVIOUS
      <2> HIDE DEF f, Fold
      <2> QED
          BY <2>2, <2>3
<1>2. ASSUME NEW k \in 0..n - 1, k \in P PROVE k + 1 \in P
      <2>1. PICK f : Fold(f, k)
            BY <1>2
      <2> DEFINE g == [s \in SUBSET (1..k + 1) |->
                         IF k + 1 \in s THEN step[<<k + 1, f[s \ {k + 1}]>>] ELSE f[s]]
      <2>2. \A s \in SUBSET (1..k + 1) : s \ {k + 1} \in SUBSET (1..k)
            BY <1>2
      <2>3. g \in [SUBSET (1..k + 1) -> R]
            BY <1>2, <2>1, <2>2
      <2>4. ASSUME NEW s \in SUBSET (1..k + 1)
            PROVE  g[s] = IF s = {} THEN base ELSE step[<<Max(s), g[s \ {Max(s)}]>>]
            <3>1. CASE s = {}
                  BY <2>1, <3>1 DEF IsFold
            <3>2. CASE s # {} /\ k + 1 \in s
                  <4>1. Max(s) = k + 1
                        <5>1. k + 1 \in Nat
                              OBVIOUS
                        <5>2. Max(s) \in s /\ \A x \in s : Max(s) >= x
                              BY <3>2, <5>1, MaxOfNaturals
                        <5>3. Max(s) \in 1..k + 1
                              BY <5>2
                        <5> QED
                            BY <3>2, <5>2, <5>3
                  <4>2. g[s \ {k + 1}] = f[s \ {k + 1}]
                        BY <2>2
                  <4> QED
                      BY <3>2, <4>1, <4>2
            <3>3. CASE s # {} /\ k + 1 \notin s
                  <4>1. s \in SUBSET (1..k)
                        BY <3>3, <2>2
                  <4>2. s \ {Max(s)} \in SUBSET (1..k) /\ k + 1 \notin s \ {Max(s)}
                        BY <4>1, <3>3
                  <4>3. g[s \ {Max(s)}] = f[s \ {Max(s)}] /\ g[s] = f[s]
                        BY <4>1, <4>2, <3>3
                  <4> QED
                      BY <2>1, <3>3, <4>1, <4>3 DEF IsFold
            <3> QED
                BY <3>1, <3>2, <3>3
      <2> HIDE DEF g
      <2>5. Fold(g, k + 1) /\ k + 1 \in 0..n
            BY <2>3, <2>4 DEF IsFold
      <2> HIDE DEF Fold
      <2> QED
          BY <2>5
<1> HIDE DEF P
<1>3. n \in P
      BY <1>1, <1>2, UpTo
<1> QED
    BY <1>3 DEF P

\* The loop goes through the elements one by one, and its results stay in R.
LEMMA FoldSteps ==
  ASSUME NEW n \in Nat, NEW R, NEW base \in R, NEW step, NEW f, IsFold(f, n, base, step),
         StaysIn(R, n, step)
  PROVE  \E result \in [0..n -> R] : IsResult(result, n, base, step) /\ result[n] = f[1..n]
<1> DEFINE result == [k \in 0..n |-> f[1..k]]
<1>1. result[0] = base
      <2>1. {} \in SUBSET (1..n) /\ 1..0 = {} /\ 0 \in 0..n
            OBVIOUS
      <2> QED
          BY <2>1 DEF IsFold
<1>2. ASSUME NEW k \in 1..n PROVE result[k] = step[<<k, result[k - 1]>>]
      <2>1. 1..k # {} /\ Max(1..k) = k /\ (1..k) \ {Max(1..k)} = 1..k - 1
            <3>1. k \in Nat \ {0}
                  OBVIOUS
            <3> QED
                BY <3>1, InitialSegments
      <2>2. 1..k \in SUBSET (1..n) /\ k \in 0..n /\ k - 1 \in 0..n
            OBVIOUS
      <2> QED
          BY <2>1, <2>2 DEF IsFold
<1>3. result[n] = f[1..n] /\ DOMAIN result = 0..n /\ result = [k \in 0..n |-> result[k]]
      OBVIOUS
<1> HIDE DEF result
<1> DEFINE P == {k \in 0..n : result[k] \in R}
<1>4. 0 \in P
      BY <1>1
<1>5. ASSUME NEW k \in 0..n - 1, k \in P PROVE k + 1 \in P
      <2>1. k + 1 \in 1..n /\ k + 1 \in 0..n /\ (k + 1) - 1 = k
            OBVIOUS
      <2> QED
          BY <1>2, <1>5, <2>1 DEF StaysIn
<1> HIDE DEF P
<1>6. 0..n \subseteq P
      BY <1>4, <1>5, UpTo
<1>7. result \in [0..n -> R]
      BY <1>3, <1>6 DEF P
<1>8. IsResult(result, n, base, step)
      BY <1>1, <1>2 DEF IsResult
<1> QED
    BY <1>3, <1>7, <1>8

---------------------------------------------------------------------------
(* Lists of services.                                                      *)

LEMMA AppendFacts ==
  ASSUME NEW E, NEW s \in Seq(E), NEW e \in E
  PROVE  /\ Append(s, e) \in Seq(E)
         /\ Range(Append(s, e)) = Range(s) \cup {e}
         /\ IsInjective(s) /\ e \notin Range(s) => IsInjective(Append(s, e))
<1> DEFINE t == Append(s, e)
           n == Len(s)
<1>1. /\ t \in Seq(E) /\ n \in Nat /\ DOMAIN s = 1..n /\ DOMAIN t = 1..n + 1
      /\ t[n + 1] = e /\ \A i \in 1..n : t[i] = s[i]
      OBVIOUS
<1> HIDE DEF t, n
<1>2. 1..n + 1 = 1..n \cup {n + 1} /\ n + 1 \notin 1..n
      BY <1>1
<1>3. Range(t) = Range(s) \cup {e}
      BY <1>1, <1>2 DEF Range
<1>4. ASSUME IsInjective(s), e \notin Range(s) PROVE IsInjective(t)
      <2>1. \A i \in 1..n : t[i] # e
            BY <1>1, <1>4 DEF Range
      <2>2. \A i, j \in 1..n : t[i] = t[j] => i = j
            BY <1>1, <1>4 DEF IsInjective
      <2> QED
          BY <1>1, <1>2, <2>1, <2>2 DEF IsInjective
<1> QED
    BY <1>1, <1>3, <1>4 DEF t

Keeps(res, list, wanted) ==
  /\ res[0] = <<>>
  /\ \A k \in 1..Len(list) :
       res[k] = IF list[k] \in wanted THEN Append(res[k - 1], list[k]) ELSE res[k - 1]

\* The loop of Kept: res[k] is the result after k elements.
LEMMA KeptSteps ==
  ASSUME NEW E, NEW list \in Seq(E), NEW wanted
  PROVE  \E res \in [0..Len(list) -> Seq(E)] :
           Keeps(res, list, wanted) /\ res[Len(list)] = Kept(list, wanted)
<1> DEFINE n == Len(list)
           R == Seq(E)
           Next1(k, r) == IF list[k] \in wanted THEN Append(r, list[k]) ELSE r
           Body(f) == [s \in SUBSET (DOMAIN list) |->
                         IF s = {} THEN <<>> ELSE Next1(Max(s), f[s \ {Max(s)}])]
           iter == CHOOSE f : f = Body(f)
           step(S) == [x \in (1..n) \X S |-> Next1(x[1], x[2])]
           all == R \cup {iter[s] : s \in SUBSET (1..n)}
<1>1. Kept(list, wanted) = iter[DOMAIN list]
      BY DEF Kept, FoldLeft, MapThenFoldSet
<1>2. n \in Nat /\ DOMAIN list = 1..n /\ <<>> \in R /\ \A i \in 1..n : list[i] \in E
      OBVIOUS
<1>3. \A k \in 1..n, r \in R : Next1(k, r) \in R
      BY <1>2
<1>4. \A S : \A k \in 1..n, r \in S : step(S)[<<k, r>>] = Next1(k, r)
      OBVIOUS
<1> HIDE DEF n, Next1, R
<1>5. step(R) \in [(1..n) \X R -> R]
      BY <1>3
<1>6. \A s \in SUBSET (1..n) : s # {} => Max(s) \in 1..n /\ s \ {Max(s)} \in SUBSET (1..n)
      BY <1>2, MaxOfNaturals
<1> HIDE DEF step
<1>7. \E f : f = Body(f)
      <2>1. PICK f \in [SUBSET (1..n) -> R] : IsFold(f, n, <<>>, step(R))
            BY <1>2, <1>5, FoldExists
      <2>2. \A s \in SUBSET (1..n) :
              s # {} => step(R)[<<Max(s), f[s \ {Max(s)}]>>] = Next1(Max(s), f[s \ {Max(s)}])
            BY <1>4, <1>6, <2>1
      <2>3. \A s \in SUBSET (1..n) :
              f[s] = IF s = {} THEN <<>> ELSE Next1(Max(s), f[s \ {Max(s)}])
            BY <2>1, <2>2 DEF IsFold
      <2>4. f = Body(f)
            BY <1>2, <2>1, <2>3
      <2> QED
          BY <2>4
<1>8. iter = Body(iter)
      BY <1>7
<1> HIDE DEF iter
<1>9. IsFold(iter, n, <<>>, step(all))
      <2>1. \A s \in SUBSET (1..n) :
              s # {} => step(all)[<<Max(s), iter[s \ {Max(s)}]>>]
                          = Next1(Max(s), iter[s \ {Max(s)}])
            BY <1>4, <1>6
      <2> QED
          BY <1>2, <1>8, <2>1 DEF IsFold
<1>10. \A k \in 1..n, r \in R : step(all)[<<k, r>>] = Next1(k, r)
       BY <1>4
<1> DEFINE st == step(all)
<1> HIDE DEF st
<1>11. IsFold(iter, n, <<>>, st) /\ StaysIn(R, n, st)
       BY <1>3, <1>9, <1>10 DEF st, StaysIn
<1>12. PICK res \in [0..n -> R] : IsResult(res, n, <<>>, st) /\ res[n] = iter[1..n]
       BY <1>2, <1>11, FoldSteps
<1>13. \A k \in 1..n : res[k - 1] \in R
       BY <1>2, <1>12
<1>14. res[0] = <<>> /\ \A k \in 1..n : res[k] = Next1(k, res[k - 1])
       BY <1>10, <1>12, <1>13 DEF st, IsResult
<1> QED
    BY <1>1, <1>2, <1>12, <1>14 DEF Next1, n, R, Keeps

\* The loop of UniqueElements.
LEMMA UniqueSteps ==
  ASSUME NEW E, NEW list \in Seq(E)
  PROVE  \E res \in [0..Len(list) -> Seq(E)] :
           /\ res[0] = <<>>
           /\ \A k \in 1..Len(list) :
                res[k] = IF list[k] \in Range(res[k - 1]) THEN res[k - 1] ELSE Append(res[k - 1], list[k])
           /\ res[Len(list)] = UniqueElements(list)
<1> DEFINE n == Len(list)
           R == Seq(E)
           Next1(k, r) == IF list[k] \in Range(r) THEN r ELSE Append(r, list[k])
           Body(f) == [s \in SUBSET (DOMAIN list) |->
                         IF s = {} THEN <<>> ELSE Next1(Max(s), f[s \ {Max(s)}])]
           iter == CHOOSE f : f = Body(f)
           step(S) == [x \in (1..n) \X S |-> Next1(x[1], x[2])]
           all == R \cup {iter[s] : s \in SUBSET (1..n)}
<1>1. UniqueElements(list) = iter[DOMAIN list]
      BY DEF UniqueElements, FoldLeft, MapThenFoldSet
<1>2. n \in Nat /\ DOMAIN list = 1..n /\ <<>> \in R /\ \A i \in 1..n : list[i] \in E
      OBVIOUS
<1>3. \A k \in 1..n, r \in R : Next1(k, r) \in R
      BY <1>2
<1>4. \A S : \A k \in 1..n, r \in S : step(S)[<<k, r>>] = Next1(k, r)
      OBVIOUS
<1> HIDE DEF n, Next1, R
<1>5. step(R) \in [(1..n) \X R -> R]
      BY <1>3
<1>6. \A s \in SUBSET (1..n) : s # {} => Max(s) \in 1..n /\ s \ {Max(s)} \in SUBSET (1..n)
      BY <1>2, MaxOfNaturals
<1> HIDE DEF step
<1>7. \E f : f = Body(f)
      <2>1. PICK f \in [SUBSET (1..n) -> R] : IsFold(f, n, <<>>, step(R))
            BY <1>2, <1>5, FoldExists
      <2>2. \A s \in SUBSET (1..n) :
              s # {} => step(R)[<<Max(s), f[s \ {Max(s)}]>>] = Next1(Max(s), f[s \ {Max(s)}])
            BY <1>4, <1>6, <2>1
      <2>3. \A s \in SUBSET (1..n) :
              f[s] = IF s = {} THEN <<>> ELSE Next1(Max(s), f[s \ {Max(s)}])
            BY <2>1, <2>2 DEF IsFold
      <2>4. f = Body(f)
            BY <1>2, <2>1, <2>3
      <2> QED
          BY <2>4
<1>8. iter = Body(iter)
      BY <1>7
<1> HIDE DEF iter
<1>9. IsFold(iter, n, <<>>, step(all))
      <2>1. \A s \in SUBSET (1..n) :
              s # {} => step(all)[<<Max(s), iter[s \ {Max(s)}]>>]
                          = Next1(Max(s), iter[s \ {Max(s)}])
            BY <1>4, <1>6
      <2> QED
          BY <1>2, <1>8, <2>1 DEF IsFold
<1>10. \A k \in 1..n, r \in R : step(all)[<<k, r>>] = Next1(k, r)
       BY <1>4
<1> DEFINE st == step(all)
<1> HIDE DEF st
<1>11. IsFold(iter, n, <<>>, st) /\ StaysIn(R, n, st)
       BY <1>3, <1>9, <1>10 DEF st, StaysIn
<1>12. PICK res \in [0..n -> R] : IsResult(res, n, <<>>, st) /\ res[n] = iter[1..n]
       BY <1>2, <1>11, FoldSteps
<1>13. \A k \in 1..n : res[k - 1] \in R
       BY <1>2, <1>12
<1>14. res[0] = <<>> /\ \A k \in 1..n : res[k] = Next1(k, res[k - 1])
       BY <1>10, <1>12, <1>13 DEF st, IsResult
<1> QED
    BY <1>1, <1>2, <1>12, <1>14 DEF Next1, n, R

\* What is kept is what belongs to wanted, and nothing comes twice that did not.
LEMMA KeptFacts ==
  ASSUME NEW E, NEW list \in Seq(E), NEW wanted
  PROVE  /\ Kept(list, wanted) \in Seq(E)
         /\ Range(Kept(list, wanted)) = Range(list) \cap wanted
         /\ IsInjective(list) => IsInjective(Kept(list, wanted))
<1> DEFINE n == Len(list)
<1>1. PICK res \in [0..n -> Seq(E)] :
        Keeps(res, list, wanted) /\ res[n] = Kept(list, wanted)
      BY KeptSteps
<1>2. n \in Nat /\ DOMAIN list = 1..n /\ \A i \in 1..n : list[i] \in E
      OBVIOUS
<1>3. res[0] = <<>>
      BY <1>1 DEF Keeps
<1>4. \A k \in 1..n : res[k] = IF list[k] \in wanted THEN Append(res[k - 1], list[k])
                                                      ELSE res[k - 1]
      BY <1>1 DEF Keeps
<1> HIDE DEF n
<1> DEFINE Met(k) == {list[i] : i \in 1..k}
           P == {k \in 0..n : /\ Range(res[k]) = Met(k) \cap wanted
                              /\ IsInjective(list) => IsInjective(res[k])}
<1>5. 0 \in P
      <2>1. res[0] = <<>> /\ 0 \in 0..n /\ Met(0) = {}
            BY <1>3, <1>2
      <2>2. Range(res[0]) = {} /\ IsInjective(res[0])
            BY <2>1 DEF Range, IsInjective
      <2> QED
          BY <2>1, <2>2
<1>6. ASSUME NEW k \in 0..n - 1, k \in P PROVE k + 1 \in P
      <2>1. k + 1 \in 1..n /\ k + 1 \in 0..n /\ (k + 1) - 1 = k /\ k \in 0..n
            BY <1>2
      <2>2. /\ res[k] \in Seq(E) /\ list[k + 1] \in E
            /\ res[k + 1] = IF list[k + 1] \in wanted THEN Append(res[k], list[k + 1])
                                                      ELSE res[k]
            BY <1>1, <1>2, <1>4, <2>1
      <2>3. Met(k + 1) = Met(k) \cup {list[k + 1]}
            <3>1. 1..k + 1 = 1..k \cup {k + 1}
                  BY <1>2
            <3> QED
                BY <3>1
      <2>4. IsInjective(list) => list[k + 1] \notin Met(k)
            <3>1. SUFFICES ASSUME IsInjective(list), NEW i \in 1..k, list[i] = list[k + 1]
                           PROVE  FALSE
                  OBVIOUS
            <3>2. i \in DOMAIN list /\ k + 1 \in DOMAIN list /\ i # k + 1
                  BY <1>2, <2>1
            <3> QED
                BY <3>1, <3>2 DEF IsInjective
      <2> HIDE DEF Met
      <2>5. CASE list[k + 1] \in wanted
            <3>1. res[k + 1] = Append(res[k], list[k + 1])
                  BY <2>2, <2>5
            <3>2. Range(res[k + 1]) = Met(k + 1) \cap wanted
                  BY <1>6, <2>2, <2>3, <2>5, <3>1, AppendFacts
            <3>3. IsInjective(list) => IsInjective(res[k + 1])
                  BY <1>6, <2>2, <2>4, <3>1, AppendFacts
            <3> QED
                BY <2>1, <3>2, <3>3
      <2>6. CASE list[k + 1] \notin wanted
            BY <1>6, <2>1, <2>2, <2>3, <2>6
      <2> QED
          BY <2>5, <2>6
<1> HIDE DEF P
<1>7. n \in P
      <2>1. 0..n \subseteq P
            BY <1>2, <1>5, <1>6, UpTo
      <2> QED
          BY <1>2, <2>1
<1>8. Met(n) = Range(list)
      BY <1>2 DEF Range
<1> QED
    BY <1>1, <1>2, <1>7, <1>8 DEF P

\* What is left has no element twice and misses none.
LEMMA UniqueFacts ==
  ASSUME NEW E, NEW list \in Seq(E)
  PROVE  /\ Range(UniqueElements(list)) = Range(list)
         /\ IsInjective(UniqueElements(list))
<1> DEFINE n == Len(list)
<1>1. PICK res \in [0..n -> Seq(E)] :
        /\ res[0] = <<>>
        /\ \A k \in 1..n : res[k] = IF list[k] \in Range(res[k - 1]) THEN res[k - 1]
                                    ELSE Append(res[k - 1], list[k])
        /\ res[n] = UniqueElements(list)
      BY UniqueSteps
<1>2. n \in Nat /\ DOMAIN list = 1..n /\ \A i \in 1..n : list[i] \in E
      OBVIOUS
<1> HIDE DEF n
<1> DEFINE Met(k) == {list[i] : i \in 1..k}
           P == {k \in 0..n : Range(res[k]) = Met(k) /\ IsInjective(res[k])}
<1>3. 0 \in P
      <2>1. res[0] = <<>> /\ 0 \in 0..n /\ Met(0) = {}
            BY <1>1, <1>2
      <2>2. Range(res[0]) = {} /\ IsInjective(res[0])
            BY <2>1 DEF Range, IsInjective
      <2> QED
          BY <2>1, <2>2
<1>4. ASSUME NEW k \in 0..n - 1, k \in P PROVE k + 1 \in P
      <2>1. k + 1 \in 1..n /\ k + 1 \in 0..n /\ (k + 1) - 1 = k /\ k \in 0..n
            BY <1>2
      <2>2. /\ res[k] \in Seq(E) /\ list[k + 1] \in E
            /\ res[k + 1] = IF list[k + 1] \in Range(res[k]) THEN res[k]
                            ELSE Append(res[k], list[k + 1])
            BY <1>1, <1>2, <2>1
      <2>3. Met(k + 1) = Met(k) \cup {list[k + 1]}
            <3>1. 1..k + 1 = 1..k \cup {k + 1}
                  BY <1>2
            <3> QED
                BY <3>1
      <2> HIDE DEF Met
      <2>4. CASE list[k + 1] \in Range(res[k])
            BY <1>4, <2>1, <2>2, <2>3, <2>4
      <2>5. CASE list[k + 1] \notin Range(res[k])
            <3>1. res[k + 1] = Append(res[k], list[k + 1])
                  BY <2>2, <2>5
            <3>2. Range(res[k + 1]) = Met(k + 1)
                  <4>1. Range(Append(res[k], list[k + 1])) = Range(res[k]) \cup {list[k + 1]}
                        BY <2>2, AppendFacts
                  <4> QED
                      BY <1>4, <2>3, <3>1, <4>1
            <3>3. IsInjective(res[k + 1])
                  BY <1>4, <2>2, <2>5, <3>1, AppendFacts
            <3> QED
                BY <2>1, <3>2, <3>3
      <2> QED
          BY <2>4, <2>5
<1> HIDE DEF P
<1>5. n \in P
      <2>1. 0..n \subseteq P
            BY <1>2, <1>3, <1>4, UpTo
      <2> QED
          BY <1>2, <2>1
<1>6. Met(n) = Range(list)
      BY <1>2 DEF Range
<1> QED
    BY <1>1, <1>5, <1>6 DEF P

LEMMA EmptyRange ==
  ASSUME NEW E, NEW s \in Seq(E)
  PROVE  s = <<>> <=> Range(s) = {}
<1>1. s = <<>> <=> Len(s) = 0
      OBVIOUS
<1>2. DOMAIN s = 1..Len(s) /\ Len(s) \in Nat
      OBVIOUS
<1>3. CASE Len(s) = 0
      BY <1>1, <1>2, <1>3 DEF Range
<1>4. CASE Len(s) # 0
      <2>1. 1 \in DOMAIN s
            BY <1>2, <1>4
      <2>2. s[1] \in Range(s)
            BY <2>1 DEF Range
      <2> QED
          BY <1>1, <1>4, <2>2
<1> QED
    BY <1>3, <1>4

LEMMA ServiceFacts ==
  /\ SupportedExporters \in Seq(Services) /\ Range(SupportedExporters) = Services
  /\ IsInjective(SupportedExporters)
  /\ Services \subseteq Parts /\ Unknown \notin Services
  /\ \A s : s \in Seq(Services) => s \in Seq(Parts)
  /\ \A s : s \in Seq(Parts) => Range(s) \subseteq Parts
<1>1. Services \subseteq Parts
      BY DEF Parts
<1>2. \A s : s \in Seq(Services) => s \in Seq(Parts)
      BY <1>1
<1>3. \A s : s \in Seq(Parts) => Range(s) \subseteq Parts
      BY DEF Range
<1>4. DOMAIN SupportedExporters = 1..Len(SupportedExporters)
      BY SupportedAssumption DEF SupportedAssumption
<1> QED
    BY <1>1, <1>2, <1>3, <1>4, SupportedAssumption DEF SupportedAssumption, Services, IsInjective

\* An enabled service is configured, once.
LEMMA EnabledFacts ==
  ASSUME NEW states
  PROVE  /\ getEnabledServicesFromStates(states) \in Seq(Services)
         /\ Range(getEnabledServicesFromStates(states)) =
              {s \in Services : states[s] = "enabled"}
         /\ IsInjective(getEnabledServicesFromStates(states))
<1> DEFINE enabled == {s \in Services : states[s] = "enabled"}
<1>1. Services \cap enabled = enabled
      OBVIOUS
<1> HIDE DEF enabled
<1>2. /\ Kept(SupportedExporters, enabled) \in Seq(Services)
      /\ Range(Kept(SupportedExporters, enabled)) = Range(SupportedExporters) \cap enabled
      /\ IsInjective(Kept(SupportedExporters, enabled))
      BY ServiceFacts, KeptFacts
<1> QED
    BY <1>1, <1>2, ServiceFacts DEF enabled, getEnabledServicesFromStates

\* The list that a parameter is parsed into has the names of the parameter.
LEMMA ParsedFacts ==
  ASSUME NEW max \in Nat, NEW raw \in Parameters(max)
  PROVE  parseServiceList(raw) \in Seq(Parts) /\ Range(parseServiceList(raw)) = Named(raw)
<1>1. CASE raw = NoParameter
      <2>1. <<>> \in Seq(Parts) /\ Range(<<>>) = {}
            BY DEF Range
      <2> QED
          BY <1>1, <2>1 DEF parseServiceList, Named
<1>2. CASE raw # NoParameter
      <2>1. raw \in Seq(Parts)
            BY <1>2 DEF Parameters
      <2> DEFINE wanted == Parts \ {Blank}
      <2>2. Range(raw) \cap wanted = Range(raw) \ {Blank}
            BY <2>1, ServiceFacts
      <2> HIDE DEF wanted
      <2>3. /\ Kept(raw, wanted) \in Seq(Parts)
            /\ Range(Kept(raw, wanted)) = Range(raw) \cap wanted
            BY <2>1, KeptFacts
      <2> QED
          BY <1>2, <2>2, <2>3 DEF wanted, parseServiceList, Named
<1> QED
    BY <1>1, <1>2

LEMMA InvalidFacts ==
  ASSUME NEW list \in Seq(Parts), Blank \notin Range(list)
  PROVE  invalidExporterNames(list) # <<>> <=> Unknown \in Range(list)
<1> DEFINE bad == Parts \ Services
<1>1. Range(list) \cap bad # {} <=> Unknown \in Range(list)
      BY ServiceFacts DEF Parts
<1> HIDE DEF bad
<1>2. /\ Kept(list, bad) \in Seq(Parts)
      /\ Range(Kept(list, bad)) = Range(list) \cap bad
      BY KeptFacts
<1>3. Kept(list, bad) = <<>> <=> Range(Kept(list, bad)) = {}
      BY <1>2, EmptyRange
<1> QED
    BY <1>1, <1>2, <1>3 DEF bad, invalidExporterNames

LEMMA RemovedFacts ==
  ASSUME NEW list \in Seq(Parts), NEW drop
  PROVE  /\ RemoveElements(list, drop) \in Seq(Parts)
         /\ Range(RemoveElements(list, drop)) = Range(list) \ Range(drop)
<1> DEFINE wanted == Parts \ Range(drop)
<1>1. Range(list) \cap wanted = Range(list) \ Range(drop)
      BY ServiceFacts
<1> HIDE DEF wanted
<1>2. /\ Kept(list, wanted) \in Seq(Parts)
      /\ Range(Kept(list, wanted)) = Range(list) \cap wanted
      BY KeptFacts
<1> QED
    BY <1>1, <1>2 DEF wanted, RemoveElements

\* Every list of services, at every moment, is as described.
Selected ==
  /\ pc \in {"flags", "resolved", "failed"}
  /\ flags \in [Services -> {"auto", "enabled", "disabled"}]
  /\ services \in Seq(Services)
  /\ status # "none" => pc = "resolved"
  /\ status \in {"none", "ok", "bad request"}
  /\ ResolvedAsDescribed
  /\ AnsweredAsAsked
  /\ RegisteredOnce

LEMMA SelectedInductive == Spec => []Selected
<1>1. Init => Selected
      <2>1. <<>> \in Seq(Services) /\ IsInjective(<<>>)
            BY DEF IsInjective
      <2> QED
          BY <2>1 DEF Init, Selected, ResolvedAsDescribed, AnsweredAsAsked, RegisteredOnce
<1>2. ASSUME Selected, [Next]_vars PROVE Selected'
      <2> USE <1>2
      <2>1. ASSUME NEW s \in Services, NEW d \in BOOLEAN, SetFlag(s, d) PROVE Selected'
            BY <2>1 DEF SetFlag, Selected, ResolvedAsDescribed, AnsweredAsAsked, RegisteredOnce
      <2>2. CASE Resolve
            <3>1. /\ services' \in Seq(Services) /\ IsInjective(services')
                  /\ \A s \in Services :
                       s \in Range(services') <=>
                         \/ flags[s] = "enabled"
                         \/ /\ flags[s] = "auto"
                            /\ multiCloud \/ strict \/ s \in Detected
                  <4> DEFINE all  == setAutoServicesState(flags, "enabled")
                             auto == applyAutodetection(flags, Detected)
                  <4>1. \A s \in Services : all[s] = "enabled" <=> flags[s] \in {"auto", "enabled"}
                        BY DEF setAutoServicesState, Selected
                  <4>2. \A s \in Services :
                          auto[s] = "enabled" <=>
                            flags[s] = "enabled" \/ (flags[s] = "auto" /\ s \in Detected)
                        BY DEF setAutoServicesState, applyAutodetection, Selected
                  <4> HIDE DEF all, auto
                  <4>3. CASE multiCloud \/ strict
                        <5>1. services' = getEnabledServicesFromStates(all)
                              BY <2>2, <4>3 DEF Resolve, Resolved, all
                        <5> QED
                            BY <4>1, <4>3, <5>1, EnabledFacts
                  <4>4. CASE ~(multiCloud \/ strict)
                        <5>1. services' = getEnabledServicesFromStates(auto)
                              BY <2>2, <4>4 DEF Resolve, Resolved, auto
                        <5> QED
                            BY <4>2, <4>4, <5>1, EnabledFacts
                  <4> QED
                      BY <4>3, <4>4
            <3> QED
                BY <2>2, <3>1 DEF Resolve, Selected, ResolvedAsDescribed, AnsweredAsAsked,
                   RegisteredOnce, Detected
      <2>3. CASE ResolveFails
            BY <2>3 DEF ResolveFails, Selected, ResolvedAsDescribed, AnsweredAsAsked,
               RegisteredOnce
      <2>4. ASSUME NEW include \in Parameters(MaxIncluded), NEW exclude \in Parameters(MaxExcluded),
                   Probe(include, exclude) \/ Reject(include, exclude)
            PROVE  Selected'
            <3> DEFINE in == parseServiceList(include)
                       ex == parseServiceList(exclude)
            <3>1. /\ in \in Seq(Parts) /\ Range(in) = Named(include)
                  /\ ex \in Seq(Parts) /\ Range(ex) = Named(exclude)
                  BY ParsedFacts, SupportedAssumption DEF SupportedAssumption
            <3>2. Blank \notin Named(include) /\ Blank \notin Named(exclude)
                  BY DEF Named
            <3>3. Invalid(include, exclude) <=> Unknown \in Named(include) \cup Named(exclude)
                  BY <3>1, <3>2, InvalidFacts DEF Invalid
            <3>4. /\ UNCHANGED <<pc, multiCloud, strict, flags, catalog, services>>
                  /\ pc = "resolved"
                  /\ request'.include = include /\ request'.exclude = exclude
                  <4>1. Request(include, exclude)
                        BY <2>4 DEF Probe, Reject
                  <4> QED
                      BY <4>1 DEF Request
            <3>5. ResolvedAsDescribed'
                  BY <3>4 DEF ResolvedAsDescribed, Detected, Selected
            <3>6. CASE Reject(include, exclude)
                  BY <3>3, <3>4, <3>5, <3>6 DEF Reject, Selected, AnsweredAsAsked, RegisteredOnce
            <3>7. CASE Probe(include, exclude)
                  <4>1. /\ Base(include) \in Seq(Parts)
                        /\ Range(Base(include)) = IF include = NoParameter THEN Range(services)
                                                                           ELSE Named(include)
                        BY <3>1, ServiceFacts DEF Base, Selected
                  <4>2. /\ answer' = UniqueElements(RemoveElements(Base(include), ex))
                        /\ status' = "ok" /\ ~Invalid(include, exclude)
                        BY <3>7 DEF Probe
                  <4> HIDE DEF ex
                  <4>3. /\ RemoveElements(Base(include), ex) \in Seq(Parts)
                        /\ Range(RemoveElements(Base(include), ex)) =
                             Range(Base(include)) \ Range(ex)
                        BY <4>1, RemovedFacts
                  <4>4. IsInjective(answer') /\ Range(answer') = Range(Base(include)) \ Range(ex)
                        BY <4>2, <4>3, UniqueFacts
                  <4>5. AnsweredAsAsked'
                        BY <3>1, <3>3, <3>4, <4>1, <4>2, <4>4 DEF AnsweredAsAsked
                  <4> QED
                      BY <3>4, <3>5, <4>2, <4>4, <4>5 DEF Selected, RegisteredOnce
            <3> QED
                BY <2>4, <3>6, <3>7
      <2>5. CASE UNCHANGED vars
            BY <2>5 DEF vars, Selected, ResolvedAsDescribed, AnsweredAsAsked, RegisteredOnce,
               Detected
      <2> QED
          BY <2>1, <2>2, <2>3, <2>4, <2>5 DEF Next, Select
<1> QED
    BY <1>1, <1>2, PTL DEF Spec

\* The configured set is what README.md describes (main.go:147-201), for any services,
\* catalog and flags.
THEOREM ResolvedRight == Spec => []ResolvedAsDescribed
    BY SelectedInductive, PTL DEF Selected

\* A request is answered from what it asks for, or rejected (main.go:402-448), for
\* parameters of any length.
THEOREM AnsweredRight == Spec => []AnsweredAsAsked
    BY SelectedInductive, PTL DEF Selected

\* No exporter is registered twice (main.go:337-345, 377-386), however often a request
\* of any length names it.
THEOREM NeverTwice == Spec => []RegisteredOnce
    BY SelectedInductive, PTL DEF Selected

---------------------------------------------------------------------------
(* Labels and flavor ids.                                                  *)

USE NovaAssumption DEF NovaAssumption

Flavors == [id : FlavorIds, name : FlavorNames]
Servers == [name : ServerNames, flavor : Flavors, metadata : SUBSET Keys]

\* A label that is accepted is not empty, starts with no digit and not with "__".
GoodName(l) ==
  /\ l # <<>>
  /\ l[1] \notin Digits
  /\ ~IsPrefix(<<Underscore, Underscore>>, l)

\* The mapping, which nothing changes once a sample is sent.
Mapped ==
  /\ labels \in Seq(Seq(Characters))
  /\ mappedKeys \in Seq(Seq(Characters))
  /\ Len(mappedKeys) = Len(labels)
  /\ IsInjective(labels)
  /\ \A i \in DOMAIN labels : GoodName(labels[i])
  /\ statuses # {} => stage = "sent"
  /\ \A x \in statuses : Len(x.values) = Len(labels)

\* The flavors that exist have ids and names of their own.
Catalog ==
  /\ flavors \subseteq Flavors
  /\ servers \subseteq Servers
  /\ \A f \in flavors : f.id \in created
  /\ \A f, g \in flavors : f.id = g.id \/ f.name = g.name => f = g

\* What was answered is what nova answers at the microversion of the client, and once
\* both answers are there the mapper is that of the flavors which exist.
Answered ==
  /\ stage \in {"flags", "new"} => allServers = {}
  /\ \A a \in allServers : a.server \in Servers /\ a = Answer(a.server)
  /\ stage \in {"listed", "sent"} =>
       mapper = IF MapperRequired THEN newFlavorIDMapper ELSE Absent
  /\ statuses # {} => stage = "sent"
  /\ \A x \in statuses : x.answer \in allServers /\ x.flavor_id = FlavorId(x.answer)

LEMMA AcceptedIsGood ==
  ASSUME NEW l \in Seq(Characters), Matches(l)
  PROVE  GoodName(l)
<1>1. l # <<>> /\ l[1] \notin Digits
      BY DEF Matches
<1>2. ASSUME IsPrefix(<<Underscore, Underscore>>, l) PROVE FALSE
      <2> DEFINE u == <<Underscore, Underscore>>
      <2>1. u \in Seq(Characters) /\ Len(u) = 2 /\ u[1] = Underscore /\ u[2] = Underscore
            OBVIOUS
      <2>2. Len(l) >= 2 /\ SubSeq(u, 1, 2) = SubSeq(l, 1, 2)
            BY <1>2, <2>1 DEF IsPrefix
      <2>3. l[1] = Underscore /\ l[2] = Underscore
            <3> HIDE DEF u
            <3>1. \A s \in Seq(Characters) :
                    Len(s) >= 2 => SubSeq(s, 1, 2)[1] = s[1] /\ SubSeq(s, 1, 2)[2] = s[2]
                  OBVIOUS
            <3> QED
                BY <2>1, <2>2, <3>1
      <2> QED
          BY <2>2, <2>3 DEF Matches
<1> QED
    BY <1>1, <1>2 DEF GoodName

---------------------------------------------------------------------------
LEMMA MappedInductive == NovaSpec => []Mapped
<1>1. NovaInit => Mapped
      BY DEF NovaInit, Mapped, IsInjective
<1>2. ASSUME Mapped, [NovaNext]_novaVars PROVE Mapped'
      <2>1. CASE \/ stage # "sent" /\ UNCHANGED <<mapping, statuses>>
                \/ UNCHANGED novaVars
            BY <1>2, <2>1 DEF Mapped, mapping, novaVars, answers, GoodName, IsInjective
      <2>2. ASSUME NEW m \in Mappings, Map(m) PROVE Mapped'
            <3>1. /\ m.label \in Seq(Characters) /\ m.key \in Seq(Characters)
                  /\ \A i \in DOMAIN labels : labels[i] # m.label
                  /\ Matches(m.label)
                  BY <2>2 DEF Map, Accepts, Range
            <3>2. GoodName(m.label)
                  BY <3>1, AcceptedIsGood
            <3> DEFINE n == Len(labels)
            <3>3. /\ labels' \in Seq(Seq(Characters)) /\ Len(labels') = n + 1
                  /\ labels'[n + 1] = m.label
                  /\ \A i \in 1..n : labels'[i] = labels[i]
                  /\ mappedKeys' \in Seq(Seq(Characters)) /\ Len(mappedKeys') = n + 1
                  BY <1>2, <2>2, <3>1 DEF Mapped, Map
            <3>4. DOMAIN labels' = 1..n + 1 /\ DOMAIN labels = 1..n /\ n \in Nat
                  BY <1>2, <3>3 DEF Mapped
            <3>5. IsInjective(labels')
                  <4>1. SUFFICES ASSUME NEW i \in 1..n + 1, NEW j \in 1..n + 1,
                                        labels'[i] = labels'[j]
                                 PROVE  i = j
                        BY <3>4 DEF IsInjective
                  <4>2. \A k \in 1..n : labels[k] # m.label
                        BY <3>1, <3>4
                  <4>3. \A k, l \in 1..n : labels[k] = labels[l] => k = l
                        BY <1>2, <3>4 DEF Mapped, IsInjective
                  <4>4. \A k \in 1..n : labels'[k] = labels[k] /\ labels'[k] # m.label
                        BY <3>3, <4>2
                  <4> HIDE DEF n
                  <4>5. CASE i = n + 1 \/ j = n + 1
                        <5>1. \A k \in 1..n : labels'[k] # labels'[n + 1]
                              BY <3>3, <4>4
                        <5>2. \A k \in 1..n + 1 : k = n + 1 \/ k \in 1..n
                              BY <3>4
                        <5> QED
                            BY <4>1, <4>5, <5>1, <5>2
                  <4>6. CASE i \in 1..n /\ j \in 1..n
                        BY <4>1, <4>3, <4>4, <4>6
                  <4> QED
                      BY <3>4, <4>5, <4>6
            <3>6. \A i \in DOMAIN labels' : GoodName(labels'[i])
                  <4>1. \A i \in 1..n : GoodName(labels[i])
                        BY <1>2, <3>4 DEF Mapped
                  <4>2. SUFFICES ASSUME NEW i \in 1..n + 1 PROVE GoodName(labels'[i])
                        BY <3>4
                  <4>3. CASE i = n + 1
                        BY <3>2, <3>3, <4>3
                  <4>4. CASE i \in 1..n
                        BY <3>3, <4>1, <4>4
                  <4> HIDE DEF n
                  <4> QED
                      BY <3>4, <4>3, <4>4
            <3>7. statuses' = {}
                  BY <1>2, <2>2 DEF Map, Mapped, answers
            <3> QED
                BY <3>3, <3>5, <3>6, <3>7 DEF Mapped
      <2>3. CASE Send
            <3>1. \A x \in statuses' : Len(x.values) = Len(labels)
                  BY <1>2, <2>3 DEF Send, Mapped, Extract
            <3> QED
                BY <1>2, <2>3, <3>1 DEF Send, Mapped, mapping, GoodName, IsInjective
      <2> QED
          BY <1>2, <2>1, <2>2, <2>3 DEF NovaNext, MapStep, NovaStep, EditStep, RefuseMapping,
             NewNovaExporter, NewNovaExporterFails, CreateFlavor, DeleteFlavor,
             CreateServer, Edit, ListServers, ListFlavors, Ask, RequestFails, answers
<1> QED
    BY <1>1, <1>2, PTL DEF NovaSpec

\* Labels are distinct and well formed and have a value each (kingpin_parser.go:51-66,
\* 90-97; nova.go:430-433), for any mappings on the command line.
THEOREM LabelsAreKept == NovaSpec => []LabelsKept
<1>1. Mapped => LabelsKept
      BY DEF Mapped, LabelsKept, GoodName
<1> QED
    BY <1>1, MappedInductive, PTL

---------------------------------------------------------------------------
(* The microversion.                                                       *)

LEMMA DocumentFacts ==
  ASSUME NEW list \in Documents
  PROVE  /\ Len(list) \in Nat /\ DOMAIN list = 1..Len(list)
         /\ \A i \in 1..Len(list) :
              /\ MaxMinor(list[i]) \in Nat
              /\ list[i] # Unranged =>
                   list[i].min \in Nat /\ list[i].max \in Nat /\ list[i].min <= list[i].max
<1>1. list \in Seq({Unranged} \cup [min : Nat, max : Nat])
      OBVIOUS
<1>2. \A i \in 1..Len(list) : list[i] # Unranged => list[i].min \in Nat /\ list[i].max \in Nat
      BY <1>1
<1> QED
    BY <1>1, <1>2 DEF MaxMinor

\* The loop over the version documents: highest[k] is prevMaxMinor after k of them.
LEMMA MaximumSteps ==
  ASSUME NEW list \in Documents
  PROVE  \E highest \in [0..Len(list) -> Nat] :
           /\ highest[0] = 0
           /\ \A k \in 1..Len(list) :
                highest[k] = IF MaxMinor(list[k]) > highest[k - 1] THEN MaxMinor(list[k])
                                                                 ELSE highest[k - 1]
           /\ highest[Len(list)] = DetectedMaximum(list)
<1> DEFINE n == Len(list)
           Larger(k, r) == IF MaxMinor(list[k]) > r THEN MaxMinor(list[k]) ELSE r
           Body(f) == [s \in SUBSET (DOMAIN list) |->
                         IF s = {} THEN 0 ELSE Larger(Max(s), f[s \ {Max(s)}])]
           iter == CHOOSE f : f = Body(f)
           step(R) == [x \in (1..n) \X R |-> Larger(x[1], x[2])]
           all == Nat \cup {iter[s] : s \in SUBSET (1..n)}
<1>1. DetectedMaximum(list) = iter[DOMAIN list]
      BY DEF DetectedMaximum, FoldLeft, MapThenFoldSet
<1>2. n \in Nat /\ DOMAIN list = 1..n /\ \A i \in 1..n : MaxMinor(list[i]) \in Nat
      BY DocumentFacts
<1>3. \A k \in 1..n, r \in Nat : Larger(k, r) \in Nat
      BY <1>2
<1>4. \A R : \A k \in 1..n, r \in R : step(R)[<<k, r>>] = Larger(k, r)
      OBVIOUS
<1>5. step(Nat) \in [(1..n) \X Nat -> Nat]
      BY <1>3
<1>6. \A s \in SUBSET (1..n) : s # {} => Max(s) \in 1..n /\ s \ {Max(s)} \in SUBSET (1..n)
      BY <1>2, MaxOfNaturals
<1> HIDE DEF n, step, Larger
<1>7. \E f : f = Body(f)
      <2>1. PICK f \in [SUBSET (1..n) -> Nat] : IsFold(f, n, 0, step(Nat))
            BY <1>2, <1>5, FoldExists
      <2>2. \A s \in SUBSET (1..n) :
              s # {} => step(Nat)[<<Max(s), f[s \ {Max(s)}]>>] = Larger(Max(s), f[s \ {Max(s)}])
            BY <1>4, <1>6, <2>1
      <2>3. \A s \in SUBSET (1..n) :
              f[s] = IF s = {} THEN 0 ELSE Larger(Max(s), f[s \ {Max(s)}])
            BY <2>1, <2>2 DEF IsFold
      <2>4. f = Body(f)
            BY <1>2, <2>1, <2>3
      <2> QED
          BY <2>4
<1>8. iter = Body(iter)
      BY <1>7
<1> HIDE DEF iter
<1>9. IsFold(iter, n, 0, step(all))
      <2>1. \A s \in SUBSET (1..n) :
              s # {} => step(all)[<<Max(s), iter[s \ {Max(s)}]>>]
                          = Larger(Max(s), iter[s \ {Max(s)}])
            BY <1>4, <1>6
      <2> QED
          BY <1>2, <1>8, <2>1 DEF IsFold
<1>10. \A k \in 1..n, r \in Nat : step(all)[<<k, r>>] = Larger(k, r)
       BY <1>4
<1> DEFINE st == step(all)
<1> HIDE DEF st
<1>11. IsFold(iter, n, 0, st) /\ StaysIn(Nat, n, st)
       BY <1>3, <1>9, <1>10 DEF st, StaysIn
<1>12. PICK highest \in [0..n -> Nat] : IsResult(highest, n, 0, st) /\ highest[n] = iter[1..n]
       <2> DEFINE R == Nat
       <2>1. n \in Nat /\ 0 \in R /\ StaysIn(R, n, st)
             BY <1>2, <1>11
       <2> HIDE DEF R
       <2>2. \E highest \in [0..n -> R] :
               IsResult(highest, n, 0, st) /\ highest[n] = iter[1..n]
             BY <1>11, <2>1, FoldSteps
       <2> QED
           BY <2>2 DEF R
<1>13. \A k \in 1..n : highest[k - 1] \in Nat
       BY <1>2, <1>12
<1>14. highest[0] = 0 /\ \A k \in 1..n : highest[k] = Larger(k, highest[k - 1])
       BY <1>10, <1>12, <1>13 DEF st, IsResult
<1> QED
    BY <1>1, <1>2, <1>12, <1>14 DEF Larger, n

\* What is detected is at least every document's maximum, and one document's unless 0.
LEMMA DetectedFacts ==
  ASSUME NEW list \in Documents
  PROVE  /\ DetectedMaximum(list) \in Nat
         /\ \A i \in 1..Len(list) : MaxMinor(list[i]) <= DetectedMaximum(list)
         /\ DetectedMaximum(list) = 0
              \/ \E i \in 1..Len(list) : MaxMinor(list[i]) = DetectedMaximum(list)
<1> DEFINE n == Len(list)
<1>1. PICK highest \in [0..n -> Nat] :
        /\ highest[0] = 0
        /\ \A k \in 1..n :
             highest[k] = IF MaxMinor(list[k]) > highest[k - 1] THEN MaxMinor(list[k])
                                                              ELSE highest[k - 1]
        /\ highest[n] = DetectedMaximum(list)
      BY MaximumSteps
<1>2. n \in Nat /\ \A i \in 1..n : MaxMinor(list[i]) \in Nat
      BY DocumentFacts
<1> HIDE DEF n
<1> DEFINE P == {k \in 0..n :
                   /\ \A i \in 1..k : MaxMinor(list[i]) <= highest[k]
                   /\ highest[k] = 0 \/ \E i \in 1..k : MaxMinor(list[i]) = highest[k]}
<1>3. 0 \in P
      BY <1>1, <1>2
<1>4. ASSUME NEW k \in 0..n - 1, k \in P PROVE k + 1 \in P
      <2>1. k + 1 \in 1..n /\ k + 1 \in 0..n /\ (k + 1) - 1 = k /\ k \in 0..n
            BY <1>2
      <2>2. /\ highest[k] \in Nat /\ MaxMinor(list[k + 1]) \in Nat
            /\ highest[k + 1] = IF MaxMinor(list[k + 1]) > highest[k]
                                  THEN MaxMinor(list[k + 1]) ELSE highest[k]
            BY <1>1, <1>2, <2>1
      <2>3. 1..k + 1 = 1..k \cup {k + 1} /\ 1..k \subseteq 1..n
            BY <1>2
      <2>4. \A i \in 1..k + 1 : MaxMinor(list[i]) <= highest[k + 1]
            <3>1. SUFFICES ASSUME NEW i \in 1..k + 1
                           PROVE  MaxMinor(list[i]) <= highest[k + 1]
                  OBVIOUS
            <3>2. MaxMinor(list[i]) \in Nat
                  BY <1>2, <2>1, <2>3
            <3>3. CASE i \in 1..k
                  <4>1. MaxMinor(list[i]) <= highest[k]
                        BY <1>4, <3>3
                  <4> QED
                      BY <2>2, <3>2, <4>1
            <3>4. CASE i = k + 1
                  BY <2>2, <3>4
            <3> QED
                BY <2>3, <3>3, <3>4
      <2>5. highest[k + 1] = 0 \/ \E i \in 1..k + 1 : MaxMinor(list[i]) = highest[k + 1]
            BY <1>4, <2>2, <2>3
      <2> QED
          BY <2>1, <2>4, <2>5
<1> HIDE DEF P
<1>5. n \in P
      BY <1>2, <1>3, <1>4, UpTo
<1> QED
    BY <1>1, <1>2, <1>5 DEF P, n

\* The best that nova has is supported, and there is none only without any range.
LEMMA DefaultIsSupported ==
  ASSUME NEW list \in Documents
  PROVE  /\ Default(list) \in Nat \cup {NoVersion}
         /\ Default(list) # NoVersion => Supported(list, Default(list))
         /\ Default(list) = NoVersion => \A i \in DOMAIN list : list[i] = Unranged
<1> DEFINE m == DetectedMaximum(list)
<1>1. CASE Supported(list, Latest)
      BY <1>1 DEF Default
<1>2. CASE ~Supported(list, Latest) /\ \A i \in DOMAIN list : list[i] = Unranged
      BY <1>2 DEF Default
<1>3. CASE ~Supported(list, Latest) /\ ~\A i \in DOMAIN list : list[i] = Unranged
      <2>1. Default(list) = m /\ m \in Nat
            BY <1>3, DetectedFacts DEF Default
      <2>2. PICK j \in DOMAIN list : list[j] # Unranged
            BY <1>3
      <2>3. /\ DOMAIN list = 1..Len(list)
            /\ \A i \in 1..Len(list) : list[i] # Unranged =>
                 /\ list[i].min \in Nat /\ list[i].max \in Nat /\ list[i].min <= list[i].max
                 /\ list[i].max <= m
            BY DocumentFacts, DetectedFacts DEF MaxMinor
      <2>4. \E i \in DOMAIN list : list[i] # Unranged /\ list[i].max = m
            <3>1. CASE m = 0
                  BY <2>2, <2>3, <3>1
            <3>2. CASE m # 0
                  BY <2>3, <3>2, DetectedFacts DEF MaxMinor
            <3> QED
                BY <3>1, <3>2
      <2>5. PICK i \in DOMAIN list : list[i] # Unranged /\ list[i].max = m
            BY <2>4
      <2>6. IsSupported(list[i], m)
            BY <2>1, <2>3, <2>5 DEF IsSupported
      <2> QED
          BY <2>1, <2>6 DEF Supported
<1> QED
    BY <1>1, <1>2, <1>3

\* The microversion of an exporter is the one settled on when it was made.
Settled ==
  \/ stage \in {"flags", "failed"}
  \/ /\ stage \in {"new", "half", "listed", "sent"}
     /\ supportedVersions \in Documents
     /\ env \in Requested \cup {NoVersion}
     /\ env # NoVersion => Microversion = env /\ Supported(supportedVersions, env)
     /\ env = NoVersion => Microversion = Default(supportedVersions)

LEMMA SettledInductive == NovaSpec => []Settled
<1>1. NovaInit => Settled
      BY DEF NovaInit, Settled
<1>2. ASSUME Settled, [NovaNext]_novaVars PROVE Settled'
      <2>1. ASSUME NEW r \in Requested \cup {NoVersion}, NEW list \in Documents,
                   NewNovaExporter(r, list)
            PROVE  Settled'
            BY <2>1 DEF NewNovaExporter, Settled, Supported
      <2>2. CASE /\ UNCHANGED version
                 /\ \/ stage' \in {stage, "failed"}
                    \/ /\ stage \in {"new", "half", "listed"}
                       /\ stage' \in {"half", "listed", "sent"}
            BY <1>2, <2>2 DEF Settled, version, Supported
      <2> QED
          BY <1>2, <2>1, <2>2 DEF NovaNext, MapStep, NovaStep, EditStep, Map, RefuseMapping,
             NewNovaExporterFails, CreateFlavor, DeleteFlavor, CreateServer, Edit, ListServers,
             ListFlavors, Ask, RequestFails, Send, novaVars
<1> QED
    BY <1>1, <1>2, PTL DEF NovaSpec

\* The client's microversion is one that nova supports (microversion.go:45-82), for any
\* version documents in any order, and any microversion that the environment names.
THEOREM SupportedIsChosen == NovaSpec => []MicroversionSupported
<1>1. Settled => MicroversionSupported
      <2> SUFFICES ASSUME Settled, stage \in {"new", "half", "listed", "sent"}
                   PROVE  /\ env # NoVersion => Microversion = env
                          /\ Microversion # NoVersion =>
                               Supported(supportedVersions, Microversion)
                          /\ Microversion = NoVersion =>
                               \A i \in DOMAIN supportedVersions :
                                 supportedVersions[i] = Unranged
          BY DEF MicroversionSupported
      <2>1. supportedVersions \in Documents
            BY DEF Settled
      <2>2. CASE env = NoVersion
            BY <2>1, <2>2, DefaultIsSupported DEF Settled
      <2>3. CASE env # NoVersion
            BY <2>3 DEF Settled
      <2> QED
          BY <2>2, <2>3
<1> QED
    BY <1>1, SettledInductive, PTL

---------------------------------------------------------------------------
LEMMA AnsweredInductive ==
  NovaSpec => [](Microversion \in Nat \cup {NoVersion} /\ Catalog /\ Answered)
<1> DEFINE I == Microversion \in Nat \cup {NoVersion} /\ Catalog /\ Answered
<1>1. NovaInit => I
      BY DEF NovaInit, Catalog, Answered
<1>2. ASSUME I, [NovaNext]_novaVars PROVE I'
      <2> USE <1>2
      <2>1. CASE \E r \in Requested \cup {NoVersion}, list \in Documents : NewNovaExporter(r, list)
            <3>1. \A list \in Documents : Default(list) \in Nat \cup {NoVersion}
                  BY DefaultIsSupported
            <3> QED
                BY <2>1, <3>1 DEF NewNovaExporter, Catalog, Answered, mapping, nova, answers
      <2>2. CASE \/ MapStep \/ NewNovaExporterFails \/ RequestFails \/ UNCHANGED novaVars
            <3>1. UNCHANGED <<version, nova, answers>> /\ stage' \in {stage, "failed"}
                  BY <2>2 DEF MapStep, Map, RefuseMapping, NewNovaExporterFails, RequestFails,
                     novaVars
            <3>2. statuses # {} => stage' = stage
                  BY <2>2 DEF MapStep, Map, RefuseMapping, NewNovaExporterFails, RequestFails,
                     novaVars, Answered
            <3> QED
                BY <3>1, <3>2 DEF version, nova, answers, Catalog, Answered, Answer, AtLeast,
                   MapperRequired, newFlavorIDMapper, FlavorId, Search
      <2>3. CASE EditStep
            <3>1. /\ UNCHANGED <<stage, version, answers>> /\ stage \in {"new", "half"}
                  BY <2>3 DEF EditStep, CreateFlavor, DeleteFlavor, CreateServer, Edit
            <3>2. Catalog'
                  <4>1. ASSUME NEW id \in FlavorIds, NEW n \in FlavorNames, CreateFlavor(id, n)
                        PROVE  Catalog'
                        BY <4>1 DEF CreateFlavor, Catalog, Flavors
                  <4>2. ASSUME NEW f \in flavors, DeleteFlavor(f) PROVE Catalog'
                        BY <4>2 DEF DeleteFlavor, Catalog
                  <4>3. ASSUME NEW f \in flavors, NEW n \in ServerNames, NEW keys \in SUBSET Keys,
                               CreateServer(n, f, keys)
                        PROVE  Catalog'
                        BY <4>3 DEF CreateServer, Catalog, Servers
                  <4> QED
                      BY <2>3, <4>1, <4>2, <4>3 DEF EditStep
            <3> QED
                BY <3>1, <3>2 DEF version, answers, Answered, Answer, AtLeast
      <2>4. CASE ListServers
            <3>1. stage = "new" /\ stage' = "half" /\ UNCHANGED <<version, nova, statuses>>
                  BY <2>4 DEF ListServers, Ask, Requests
            <3>2. \A a \in allServers' : a.server \in Servers /\ a = Answer(a.server)
                  BY <2>4 DEF ListServers, Answer, Catalog
            <3> QED
                BY <3>1, <3>2 DEF version, nova, Catalog, Answered, Answer, AtLeast
      <2>5. CASE ListFlavors
            BY <2>5, SMTT(30) DEF ListFlavors, Ask, Requests, version, nova, Catalog, Answered,
               Answer, AtLeast, MapperRequired, newFlavorIDMapper
      <2>6. CASE Send
            BY <2>6, SMTT(30) DEF Send, version, nova, Catalog, Answered, Answer,
               AtLeast, MapperRequired, newFlavorIDMapper, FlavorId, Search
      <2> QED
          BY <2>1, <2>2, <2>3, <2>4, <2>5, <2>6 DEF NovaNext, NovaStep
<1> QED
    BY <1>1, <1>2, PTL DEF NovaSpec

LEMMA FoundIfAnswered ==
  ASSUME Microversion \in Nat \cup {NoVersion}, Catalog, Answered
  PROVE  FlavorIdFound
<1> SUFFICES ASSUME Microversion # LastWithId, NEW x \in statuses,
                    x.answer.server.flavor \in flavors
             PROVE  x.flavor_id = x.answer.server.flavor.id
    BY DEF FlavorIdFound
<1> DEFINE a == x.answer
           f == a.server.flavor
<1>1. /\ a \in allServers /\ a = Answer(a.server) /\ a.server \in Servers
      /\ x.flavor_id = FlavorId(a)
      /\ mapper = IF MapperRequired THEN newFlavorIDMapper ELSE Absent
      BY DEF Answered
<1>2. f.id \in FlavorIds /\ f.id # Absent
      BY <1>1 DEF Servers, Flavors
<1>3. CASE ~MapperRequired
      BY <1>1, <1>3 DEF MapperRequired, FlavorId, Answer
<1>4. CASE MapperRequired
      <2>1. AtLeast(LastWithId + 1)
            BY <1>4, <1>2 DEF MapperRequired, Answered, Answer, Servers, Flavors, AtLeast,
               LastWithId
      <2>2. a.original_name = f.name
            BY <1>1, <2>1 DEF Answer
      <2>3. f.name \in DOMAIN newFlavorIDMapper /\ newFlavorIDMapper[f.name] = f.id
            BY DEF newFlavorIDMapper, Catalog
      <2>4. newFlavorIDMapper # Absent
            <3> DEFINE names == {g.name : g \in flavors}
            <3>1. names \in SUBSET FlavorNames
                  BY DEF Catalog, Flavors
            <3>2. newFlavorIDMapper \in [names -> FlavorIds]
                  BY DEF newFlavorIDMapper, Catalog, Flavors
            <3> QED
                BY <3>1, <3>2
      <2> QED
          BY <1>1, <1>4, <2>2, <2>3, <2>4 DEF FlavorId, Search
<1> QED
    BY <1>3, <1>4

\* A server whose flavor still exists is reported with its flavor's id (nova.go:359-433),
\* for any number of flavors, servers and edits between the two requests.
THEOREM FlavorIdIsFound == NovaSpec => []FlavorIdFound
    BY AnsweredInductive, FoundIfAnswered, PTL

---------------------------------------------------------------------------
(* The whole.                                                              *)

LEMMA StepOfParts ==
  ASSUME [StartupNext]_startupVars
  PROVE  [Next]_vars /\ [NovaNext]_novaVars
<1>1. CASE Parse
      BY <1>1 DEF Parse, Next, NovaNext
<1>2. CASE Configure
      BY <1>2 DEF Configure, Next
<1>3. CASE Scrape
      BY <1>3 DEF Scrape, NovaNext
<1>4. CASE EditNova
      BY <1>4 DEF EditNova, NovaNext
<1>5. CASE UNCHANGED startupVars
      BY <1>5 DEF startupVars
<1> QED
    BY <1>1, <1>2, <1>3, <1>4, <1>5 DEF StartupNext

\* Startup implements ServiceSelection and NovaServers: it only orders their steps
\* (main.go:65-115).
THEOREM ImplementsParts == StartupSpec => Spec /\ NovaSpec
<1>1. StartupInit => Init /\ NovaInit
      BY DEF StartupInit
<1> QED
    BY <1>1, StepOfParts, PTL DEF StartupSpec, Spec, NovaSpec

\* What a request is answered with, and the microversion of the exporter, are right in
\* the whole (main.go:402-421, microversion.go:45-82).
THEOREM StartupServesRight ==
  StartupSpec => [](AnsweredAsAsked /\ RegisteredOnce /\ MicroversionSupported)
    BY ImplementsParts, AnsweredRight, NeverTwice, SupportedIsChosen, PTL

\* LabelsKept holds of the whole (kingpin_parser.go:51-66, nova.go:430-433).
THEOREM StartupKeepsLabels == StartupSpec => []LabelsKept
    BY ImplementsParts, LabelsAreKept, PTL

\* FlavorIdFound holds of the whole (nova.go:359-433).
THEOREM StartupFindsFlavorIds == StartupSpec => []FlavorIdFound
    BY ImplementsParts, FlavorIdIsFound, PTL
==============================================================================
