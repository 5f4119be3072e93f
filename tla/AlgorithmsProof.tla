---------------------------- MODULE AlgorithmsProof ----------------------------
(***************************************************************************)
(* What the functions of Algorithms promise, for every input and not only  *)
(* those a run can enumerate.  A loop of the code is a fold or a recursive *)
(* function here, so that the first part is about those: induction over    *)
(* the natural numbers, and the prefix results of a fold.                  *)
(***************************************************************************)
EXTENDS Algorithms, FiniteSetTheorems, TLAPS

\* Induction, for a set: with a number missing, the intervals 0..n that end in a
\* missing n would have a least one.
LEMMA SetInduction ==
  ASSUME NEW S, 0 \in S, \A n \in Nat : n \in S => n + 1 \in S
  PROVE  Nat \subseteq S
<1>1. SUFFICES ASSUME NEW m \in Nat, m \notin S PROVE FALSE
  OBVIOUS
<1> DEFINE T == {0..n : n \in Nat \ S}
<1>2. T \subseteq FiniteSubsetsOf(Nat) /\ T # {}
  <2>1. \A n \in Nat : IsFiniteSet(0..n) /\ 0..n \subseteq Nat
    BY FS_Interval
  <2> QED BY <1>1, <2>1 DEF FiniteSubsetsOf
<1>3. PICK x \in T : \A y \in T : ~(<<y, x>> \in StrictSubsetOrdering(Nat))
  <2> HIDE DEF T
  <2> QED BY <1>2, FS_StrictSubsetOrderingWellFounded, WFMin
<1>4. PICK n \in Nat \ S : x = 0..n
  OBVIOUS
<1>5. n # 0 /\ n - 1 \in Nat
  OBVIOUS
<1>6. n - 1 \in Nat \ S
  <2>1. n - 1 \in Nat /\ (n - 1) + 1 = n
    BY <1>5
  <2> QED BY <2>1
<1>7. 0..(n-1) \in T
  BY <1>6
<1>8. <<0..(n - 1), 0..n>> \in StrictSubsetOrdering(Nat)
  <2>1. 0..(n-1) \subseteq 0..n /\ 0..n \subseteq Nat /\ 0..(n-1) # 0..n
    <3>1. n \in 0..n /\ n \notin 0..(n-1)
      BY <1>5
    <3>2. 0..(n-1) \subseteq 0..n /\ 0..n \subseteq Nat
      BY <1>5
    <3> QED BY <3>1, <3>2
  <2> QED BY <2>1 DEF StrictSubsetOrdering
<1> QED BY <1>3, <1>4, <1>7, <1>8

\* Induction up to a bound.
LEMMA IntervalInduction ==
  ASSUME NEW n \in Nat, NEW S, 0 \in S, \A k \in 0..(n - 1) : k \in S => k + 1 \in S
  PROVE  0..n \subseteq S
<1> DEFINE T == {k \in Nat : k <= n => k \in S}
<1>1. 0 \in T
  OBVIOUS
<1>2. \A k \in Nat : k \in T => k + 1 \in T
  OBVIOUS
<1>3. Nat \subseteq T
  <2> HIDE DEF T
  <2> QED
    BY <1>1, <1>2, SetInduction
<1> QED
  BY <1>3

\* The greatest element, as the folds over sequences choose it.
Top(s) == CHOOSE x \in s : \A y \in s : x >= y

\* Every bounded set of positive numbers has a greatest element.
LEMMA TopIn ==
  ASSUME NEW n \in Nat, NEW s \in SUBSET (1..n), s # {}
  PROVE  Top(s) \in s /\ \A y \in s : Top(s) >= y
<1> DEFINE S == {k \in 0..n : s \subseteq 1..k => \E x \in s : \A y \in s : x >= y}
<1>1. 0 \in S
  <2>1. 1..0 = {}
    OBVIOUS
  <2>2. PICK x \in s : TRUE
    OBVIOUS
  <2> QED
    BY <2>1, <2>2
<1>2. ASSUME NEW k \in 0..(n - 1), k \in S
      PROVE  k + 1 \in S
  <2>1. CASE k + 1 \in s
    <3>1. s \subseteq 1..(k + 1) => \A y \in s : k + 1 >= y
      OBVIOUS
    <3> QED
      BY <2>1, <3>1
  <2>2. CASE k + 1 \notin s
    <3>1. s \subseteq 1..(k + 1) => s \subseteq 1..k
      BY <2>2
    <3> QED
      BY <1>2, <3>1
  <2> QED
    BY <2>1, <2>2
<1>3. n \in S
  <2> HIDE DEF S
  <2>1. 0..n \subseteq S
    BY <1>1, <1>2, IntervalInduction
  <2> QED
    BY <2>1
<1>4. \E x \in s : \A y \in s : x >= y
  BY <1>3
<1> QED
  BY <1>4, Zenon DEF Top

\* A subset of 1..k with k has it on top.
LEMMA TopOf ==
  ASSUME NEW k \in Nat, NEW s \in SUBSET (1..k), k \in s
  PROVE  Top(s) = k
<1>1. k \in s /\ \A y \in s : k >= y
  OBVIOUS
<1>2. Top(s) \in s /\ \A y \in s : Top(s) >= y
  <2>1. s # {}
    OBVIOUS
  <2> QED
    BY <2>1, TopIn
<1>3. Top(s) >= k /\ k >= Top(s) /\ Top(s) \in Nat
  <2>1. Top(s) \in 1..k
    BY <1>2
  <2> QED
    BY <1>1, <1>2, <2>1
<1> QED
  BY <1>3

\* The function that a fold over 1..n chooses is one of these.
Folding(n, base, step, G) ==
  \A s \in SUBSET (1..n) :
    G[s] = IF s = {} THEN base ELSE step[<<G[s \ {Top(s)}], Top(s)>>]

\* It exists when step maps values of V to values of V.  It is defined on all
\* subsets, not only on prefixes.
LEMMA FoldExists ==
  ASSUME NEW n \in Nat, NEW V, NEW base \in V, NEW step \in [V \X (1..n) -> V]
  PROVE  \E G \in [SUBSET (1..n) -> V] : Folding(n, base, step, G)
<1> DEFINE Folds(k, G) ==
             \A s \in SUBSET (1..k) :
               G[s] = IF s = {} THEN base ELSE step[<<G[s \ {Top(s)}], Top(s)>>]
           S == {k \in 0..n : \E G \in [SUBSET (1..k) -> V] : Folds(k, G)}
<1>1. 0 \in S
  <2> DEFINE G == [s \in SUBSET (1..0) |-> base]
  <2>1. G \in [SUBSET (1..0) -> V]
    OBVIOUS
  <2>2. \A s \in SUBSET (1..0) : s = {}
    OBVIOUS
  <2>3. Folds(0, G)
    BY <2>2
  <2>4. 0 \in 0..n
    OBVIOUS
  <2> HIDE DEF G, Folds
  <2> QED
    BY <2>1, <2>3, <2>4
<1>2. ASSUME NEW k \in 0..(n - 1), k \in S
      PROVE  k + 1 \in S
  <2>1. PICK G \in [SUBSET (1..k) -> V] : Folds(k, G)
    BY <1>2
  <2> DEFINE H == [s \in SUBSET (1..(k + 1)) |->
                     IF k + 1 \in s THEN step[<<G[s \ {k + 1}], k + 1>>] ELSE G[s]]
  <2>2. \A s \in SUBSET (1..(k + 1)) : s \ {k + 1} \in SUBSET (1..k)
    OBVIOUS
  <2>3. \A s \in SUBSET (1..(k + 1)) : k + 1 \notin s => s \in SUBSET (1..k)
    OBVIOUS
  <2>4. H \in [SUBSET (1..(k + 1)) -> V]
    <3> SUFFICES ASSUME NEW s \in SUBSET (1..(k + 1))
                 PROVE  (IF k + 1 \in s THEN step[<<G[s \ {k + 1}], k + 1>>] ELSE G[s]) \in V
      OBVIOUS
    <3>1. G[s \ {k + 1}] \in V /\ k + 1 \in 1..n
      BY <2>2
    <3> QED
      BY <2>3, <3>1
  <2>5. \A s \in SUBSET (1..k) : H[s] = G[s]
    <3>1. \A s \in SUBSET (1..k) : s \in SUBSET (1..(k + 1)) /\ k + 1 \notin s
      OBVIOUS
    <3> QED
      BY <3>1
  <2>6. ASSUME NEW s \in SUBSET (1..(k + 1))
        PROVE  H[s] = IF s = {} THEN base ELSE step[<<H[s \ {Top(s)}], Top(s)>>]
    <3>1. CASE k + 1 \in s
      <4>1. Top(s) = k + 1
        BY <3>1, TopOf
      <4>2. H[s \ {k + 1}] = G[s \ {k + 1}]
        BY <2>2, <2>5
      <4> QED
        BY <3>1, <4>1, <4>2
    <3>2. CASE k + 1 \notin s /\ s # {}
      <4>1. s \in SUBSET (1..k)
        BY <2>3, <3>2
      <4>2. H[s] = step[<<G[s \ {Top(s)}], Top(s)>>]
        BY <2>1, <2>5, <3>2, <4>1
      <4>3. s \ {Top(s)} \in SUBSET (1..k)
        BY <4>1
      <4> QED
        BY <2>5, <3>2, <4>2, <4>3
    <3>3. CASE s = {}
      <4>1. s \in SUBSET (1..k)
        BY <3>3
      <4> QED
        BY <2>1, <2>5, <3>3, <4>1
    <3> QED
      BY <3>1, <3>2, <3>3
  <2> HIDE DEF H
  <2>7. Folds(k + 1, H)
    BY <2>6
  <2>8. k + 1 \in 0..n
    OBVIOUS
  <2> HIDE DEF Folds
  <2> QED
    BY <2>4, <2>7, <2>8
<1>3. n \in S
  <2> HIDE DEF S
  <2>1. 0..n \subseteq S
    BY <1>1, <1>2, IntervalInduction
  <2> QED
    BY <2>1
<1> QED
  BY <1>3 DEF Folding

\* The values a fold takes on the prefixes 1..k: it starts at base and goes from each
\* to the next by step, up to the value last.
PrefixValues(n, base, step, last, P) ==
  P[0] = base /\ P[n] = last /\ \A k \in 1..n : P[k] = step[<<P[k - 1], k>>]

\* The function of a fold, in so far as its values are in V.
FoldingIn(V, n, base, step, iter) ==
  /\ iter[{}] = base
  /\ \A s \in SUBSET (1..n) :
       s # {} /\ iter[s \ {Top(s)}] \in V => iter[s] = step[<<iter[s \ {Top(s)}], Top(s)>>]

\* A fold over 1..n goes through the values of its prefixes, one element at a time.
LEMMA FoldPrefixes ==
  ASSUME NEW n \in Nat, NEW V, NEW base \in V, NEW step \in [V \X (1..n) -> V], NEW iter,
         FoldingIn(V, n, base, step, iter)
  PROVE  \E P \in [0..n -> V] : PrefixValues(n, base, step, iter[1..n], P)
<1> USE DEF FoldingIn
<1> DEFINE S == {k \in 0..n : iter[1..k] \in V}
<1>1. 0 \in S
  <2>1. 1..0 = {} /\ 0 \in 0..n
    OBVIOUS
  <2> QED
    BY <2>1
<1>2. ASSUME NEW k \in 0..(n - 1), iter[1..k] \in V
      PROVE  iter[1..(k + 1)] = step[<<iter[1..k], k + 1>>] /\ iter[1..(k + 1)] \in V
  <2>1. /\ 1..(k + 1) \in SUBSET (1..n) /\ k + 1 \in 1..(k + 1) /\ k + 1 \in 1..n
        /\ (1..(k + 1)) \ {k + 1} = 1..k /\ 1..(k + 1) # {} /\ k + 1 \in Nat
    OBVIOUS
  <2>2. Top(1..(k + 1)) = k + 1
    BY <2>1, TopOf
  <2>3. iter[1..(k + 1)] = step[<<iter[1..k], k + 1>>]
    BY <1>2, <2>1, <2>2
  <2> QED
    BY <1>2, <2>1, <2>3
<1>3. \A k \in 0..n : iter[1..k] \in V
  <2>1. \A k \in 0..(n - 1) : k \in S => k + 1 \in S
    <3>1. \A k \in 0..(n - 1) : k + 1 \in 0..n
      OBVIOUS
    <3> QED
      BY <1>2, <3>1
  <2> HIDE DEF S
  <2>2. 0..n \subseteq S
    BY <1>1, <2>1, IntervalInduction
  <2> QED
    BY <2>2 DEF S
<1> DEFINE P == [k \in 0..n |-> iter[1..k]]
<1>4. P \in [0..n -> V] /\ P[0] = base /\ P[n] = iter[1..n]
  <2>1. 1..0 = {} /\ 0 \in 0..n /\ n \in 0..n
    OBVIOUS
  <2> QED
    BY <1>3, <2>1
<1>5. ASSUME NEW k \in 1..n
      PROVE  P[k] = step[<<P[k - 1], k>>]
  <2>1. k - 1 \in 0..(n - 1) /\ k - 1 \in 0..n /\ (k - 1) + 1 = k /\ k \in 0..n
    OBVIOUS
  <2>2. iter[1..(k - 1)] \in V
    BY <1>3, <2>1
  <2>3. iter[1..((k - 1) + 1)] = step[<<iter[1..(k - 1)], (k - 1) + 1>>]
    BY <1>2, <2>1, <2>2
  <2> QED
    BY <2>1, <2>3
<1> HIDE DEF P
<1> QED
  BY <1>4, <1>5 DEF PrefixValues

-----------------------------------------------------------------------------
(* The folds of nwx_cv.  Fold f is a pair of quotients of the products f*n *)
(* and (f+1)*n by K, so that everything about positions follows from what  *)
(* \div bounds.                                                            *)

\* The quotient q of a by b is the one with b*q <= a < b*(q+1).
LEMMA Quotient ==
  ASSUME NEW a \in Nat, NEW b \in Nat \ {0}
  PROVE  a \div b \in Nat /\ b * (a \div b) <= a /\ a < b * (a \div b) + b
OBVIOUS

\* start = f*rows/K is the number between the bounds of the quotient (cv.cpp 26).
LEMMA StartBounds ==
  ASSUME NEW n \in Nat, NEW K \in Nat \ {0}, NEW f \in Nat
  PROVE  /\ Start(f, n, K) \in Nat
         /\ K * Start(f, n, K) <= f * n
         /\ f * n < K * Start(f, n, K) + K
<1>1. f * n \in Nat
  OBVIOUS
<1> QED  BY <1>1, Quotient DEF Start

\* Strict order is that of the multiples by K.
LEMMA Cancel ==
  ASSUME NEW K \in Nat \ {0}, NEW a \in Int, NEW b \in Int, K * a < K * b
  PROVE  a < b
<1>1. SUFFICES ASSUME a >= b PROVE FALSE
  OBVIOUS
<1>2. a - b \in Nat /\ K * (a - b) \in Nat
  BY <1>1
<1>3. K * (a - b) = K * a - K * b
  OBVIOUS
<1>4. K * a \in Int /\ K * b \in Int
  OBVIOUS
<1> QED  BY <1>2, <1>3, <1>4

\* The folds follow each other without a gap from 0 to n.
LEMMA StartEnds ==
  ASSUME NEW n \in Nat, NEW K \in Nat \ {0}
  PROVE  Start(0, n, K) = 0 /\ Start(K, n, K) = n
<1>1. Start(0, n, K) = 0
  <2>1. Start(0, n, K) \in Nat /\ K * Start(0, n, K) <= 0 * n
    BY StartBounds
  <2>2. K * Start(0, n, K) < K * 1
    BY <2>1
  <2> QED  BY <2>1, <2>2, Cancel
<1>2. Start(K, n, K) = n
  <2>1. /\ Start(K, n, K) \in Nat
        /\ K * Start(K, n, K) <= K * n /\ K * n < K * Start(K, n, K) + K
    BY StartBounds
  <2>2. /\ K * (Start(K, n, K) + 1) = K * Start(K, n, K) + K
        /\ K * (n + 1) = K * n + K
    BY <2>1
  <2>3. K * n < K * (Start(K, n, K) + 1)
    BY <2>1, <2>2
  <2>4. K * n < K * n + K /\ K * Start(K, n, K) \in Int /\ K * n \in Int
    BY <2>1
  <2>5. K * Start(K, n, K) < K * (n + 1)
    BY <2>1, <2>2, <2>4
  <2>6. n < Start(K, n, K) + 1 /\ Start(K, n, K) < n + 1
    BY <2>1, <2>3, <2>5, Cancel
  <2> QED  BY <2>1, <2>6
<1> QED  BY <1>1, <1>2

\* No fold starts before the one before it.
LEMMA StartMonotone ==
  ASSUME NEW n \in Nat, NEW K \in Nat \ {0}, NEW f \in Nat, NEW g \in Nat, f <= g
  PROVE  Start(f, n, K) <= Start(g, n, K)
<1>1. f * n <= g * n /\ f * n \in Nat /\ g * n \in Nat
  <2>1. (g - f) * n \in Nat /\ (g - f) * n = g * n - f * n
    OBVIOUS
  <2>2. f * n \in Nat /\ g * n \in Nat
    OBVIOUS
  <2> QED  BY <2>1, <2>2
<1>2. /\ Start(f, n, K) \in Nat /\ Start(g, n, K) \in Nat
      /\ K * Start(f, n, K) <= f * n
      /\ g * n < K * Start(g, n, K) + K
  BY StartBounds
<1>3. K * (Start(g, n, K) + 1) = K * Start(g, n, K) + K
  BY <1>2
<1>4. K * Start(f, n, K) < K * (Start(g, n, K) + 1)
  <2>1. K * Start(f, n, K) \in Int /\ K * Start(g, n, K) \in Int
    BY <1>2
  <2> QED  BY <1>1, <1>2, <1>3, <2>1
<1>5. Start(f, n, K) < Start(g, n, K) + 1
  BY <1>2, <1>4, Cancel
<1> QED  BY <1>2, <1>5

\* Every position is in a fold: the last one whose start is not behind it
\* (cv.cpp 31).
LEMMA PositionInFold ==
  ASSUME NEW n \in Nat, NEW K \in Nat \ {0}, NEW i \in 0..(n - 1)
  PROVE  \E f \in 0..(K - 1) : i \in Fold(f, n, K)
<1> DEFINE a == (i + 1) * K - 1
           f == a \div n
<1>1. n \in Nat \ {0} /\ i \in Nat /\ a \in Nat
  OBVIOUS
<1>2. f \in Nat /\ n * f <= a /\ a < n * f + n
  BY <1>1, Quotient
<1> HIDE DEF f
<1>3. f < K
  <2>1. (i + 1) * K <= n * K /\ (i + 1) * K \in Nat /\ n * K \in Nat
    <3>1. (n - (i + 1)) * K \in Nat /\ (n - (i + 1)) * K = n * K - (i + 1) * K
      BY <1>1
    <3> QED  BY <1>1, <3>1
  <2>2. n * f < n * K
    BY <1>1, <1>2, <2>1
  <2> QED  BY <1>1, <1>2, <2>2, Cancel
<1>4. /\ Start(f, n, K) \in Nat /\ Start(f + 1, n, K) \in Nat
      /\ K * Start(f, n, K) <= f * n
      /\ (f + 1) * n < K * Start(f + 1, n, K) + K
  <2>1. f + 1 \in Nat
    BY <1>2
  <2> QED  BY <1>2, <2>1, StartBounds
<1>5. /\ f * n = n * f /\ (f + 1) * n = n * f + n /\ n * f \in Nat
      /\ (i + 1) * K = K * (i + 1) /\ K * (i + 1) = K * i + K /\ K * i \in Nat
      /\ K * (Start(f + 1, n, K) + 1) = K * Start(f + 1, n, K) + K
      /\ K * Start(f, n, K) \in Nat /\ K * Start(f + 1, n, K) \in Nat
  BY <1>1, <1>2, <1>4
<1>6. Start(f, n, K) <= i
  <2>1. K * Start(f, n, K) < K * (i + 1)
    BY <1>2, <1>4, <1>5
  <2>2. Start(f, n, K) < i + 1
    BY <1>1, <1>4, <2>1, Cancel
  <2> QED  BY <1>1, <1>4, <2>2
<1>7. i < Start(f + 1, n, K)
  <2>1. K * (i + 1) < K * (Start(f + 1, n, K) + 1)
    BY <1>2, <1>4, <1>5
  <2>2. i + 1 < Start(f + 1, n, K) + 1
    BY <1>1, <1>4, <2>1, Cancel
  <2> QED  BY <1>1, <1>4, <2>2
<1>8. i \in Fold(f, n, K) /\ f \in 0..(K - 1)
  BY <1>1, <1>2, <1>3, <1>4, <1>6, <1>7 DEF Fold
<1> QED  BY <1>8

\* Every fold lies between the start of the first and that of the one behind the
\* last.
LEMMA FoldInside ==
  ASSUME NEW n \in Nat, NEW K \in Nat \ {0}, NEW f \in 0..(K - 1)
  PROVE  Fold(f, n, K) \subseteq 0..(n - 1)
<1>1. f \in Nat /\ f + 1 \in Nat /\ f + 1 <= K
  OBVIOUS
<1>2. Start(f, n, K) \in Nat /\ Start(f + 1, n, K) \in Nat
  BY <1>1, StartBounds
<1>3. Start(f + 1, n, K) <= n
  BY <1>1, StartMonotone, StartEnds
<1> QED  BY <1>2, <1>3 DEF Fold

\* The test sets together are the rows, and nothing else is read (cv.cpp 26-33).
THEOREM FoldsCover ==
  ASSUME NEW n \in Nat, NEW K \in Nat \ {0}
  PROVE  UNION {Fold(f, n, K) : f \in 0..(K - 1)} = 0..(n - 1)
<1>1. \A i \in 0..(n - 1) : \E f \in 0..(K - 1) : i \in Fold(f, n, K)
  BY PositionInFold
<1>2. \A f \in 0..(K - 1) : Fold(f, n, K) \subseteq 0..(n - 1)
  BY FoldInside
<1> QED  BY <1>1, <1>2

\* No position is in two folds: a row is never tested on twice, nor tested on by
\* a model that was trained on it.
THEOREM FoldsDisjoint ==
  ASSUME NEW n \in Nat, NEW K \in Nat \ {0}, NEW f \in Nat, NEW g \in Nat, f # g
  PROVE  Fold(f, n, K) \cap Fold(g, n, K) = {}
<1>1. \A p, q \in Nat : p < q => Fold(p, n, K) \cap Fold(q, n, K) = {}
  <2> SUFFICES ASSUME NEW p \in Nat, NEW q \in Nat, p < q
               PROVE  Fold(p, n, K) \cap Fold(q, n, K) = {}
    OBVIOUS
  <2>1. Start(p + 1, n, K) <= Start(q, n, K)
    <3>1. p + 1 \in Nat /\ p + 1 <= q
      OBVIOUS
    <3> QED  BY <3>1, StartMonotone
  <2>2. /\ Start(p, n, K) \in Nat /\ Start(p + 1, n, K) \in Nat
        /\ Start(q, n, K) \in Nat /\ Start(q + 1, n, K) \in Nat
    <3>1. p + 1 \in Nat /\ q + 1 \in Nat
      OBVIOUS
    <3> QED  BY <3>1, StartBounds
  <2> QED  BY <2>1, <2>2 DEF Fold
<1>2. f < g \/ g < f
  OBVIOUS
<1> QED  BY <1>1, <1>2

\* The folds differ by at most one row, and none is empty if there are at least
\* as many rows as folds.
THEOREM FoldsEven ==
  ASSUME NEW n \in Nat, NEW K \in Nat \ {0}, NEW f \in Nat
  PROVE  Start(f + 1, n, K) - Start(f, n, K) \in {n \div K, n \div K + 1}
<1> DEFINE q == n \div K
           s == Start(f, n, K)
           t == Start(f + 1, n, K)
<1>1. q \in Nat /\ K * q <= n /\ n < K * q + K
  BY Quotient
<1>2. /\ s \in Nat /\ K * s <= f * n /\ f * n < K * s + K
      /\ t \in Nat /\ K * t <= (f + 1) * n /\ (f + 1) * n < K * t + K
  <2>1. f + 1 \in Nat
    OBVIOUS
  <2> QED  BY <2>1, StartBounds
<1> HIDE DEF q, s, t
<1>3. /\ (f + 1) * n = f * n + n /\ f * n \in Nat
      /\ K * s \in Nat /\ K * t \in Nat /\ K * q \in Nat
      /\ K * (t + 1) = K * t + K /\ K * (s + q) = K * s + K * q
      /\ K * (s + q + 2) = K * s + K * q + K + K
  BY <1>1, <1>2
<1>4. K * (s + q) < K * (t + 1)
  BY <1>1, <1>2, <1>3
<1>5. K * t < K * (s + q + 2)
  BY <1>1, <1>2, <1>3
<1>6. s + q < t + 1 /\ t < s + q + 2
  BY <1>1, <1>2, <1>4, <1>5, Cancel
<1>7. t - s = q \/ t - s = q + 1
  BY <1>1, <1>2, <1>6
<1> QED  BY <1>7 DEF q, s, t

\* The rows of the test set are those at the positions of the fold, the rows of
\* the training set those at the others.
LEMMA FoldRows ==
  ASSUME NEW T, NEW idx \in Seq(T), NEW K \in Nat \ {0}, NEW f \in 0..(K - 1)
  PROVE  LET n == Len(idx)
             P == Fold(f, n, K)
         IN  /\ P \subseteq 0..(n - 1)
             /\ ToSet(Test(f, idx, K)) = {idx[i + 1] : i \in P}
             /\ ToSet(Train(f, idx, K)) = {idx[i + 1] : i \in (0..(n - 1)) \ P}
             /\ Len(Test(f, idx, K)) - n \div K \in {0, 1}
             /\ Len(Test(f, idx, K)) + Len(Train(f, idx, K)) = n
             /\ Test(f, idx, K) \in Seq(T)
<1> DEFINE n == Len(idx)
           P == Fold(f, n, K)
           a == Start(f, n, K)
           b == Start(f + 1, n, K)
           test == Test(f, idx, K)
           train == Train(f, idx, K)
           low == SubSeq(idx, 1, a)
           high == SubSeq(idx, b + 1, n)
<1>1. n \in Nat /\ DOMAIN idx = 1..n /\ f \in Nat /\ f + 1 \in Nat /\ f + 1 <= K
      /\ \A i \in 1..n : idx[i] \in T
  OBVIOUS
<1>2. a \in Nat /\ b \in Nat /\ a <= b /\ b <= n
  <2>1. Start(f + 1, n, K) <= Start(K, n, K)
    BY <1>1, StartMonotone
  <2>2. Start(K, n, K) = n
    BY <1>1, StartEnds
  <2>3. a \in Nat /\ b \in Nat
    BY <1>1, StartBounds
  <2>4. a <= b
    BY <1>1, StartMonotone
  <2> QED
    BY <2>1, <2>2, <2>3, <2>4
<1>3. b - a - n \div K \in {0, 1}
  <2>1. b - a \in {n \div K, n \div K + 1}
    BY <1>1, FoldsEven
  <2>2. n \div K \in Int
    BY <1>1, Quotient
  <2> QED
    BY <1>2, <2>1, <2>2
<1>4. P = a..(b - 1)
  BY DEF Fold
<1>5. test = SubSeq(idx, a + 1, b) /\ train = low \o high
  BY DEF Test, Train
<1> HIDE DEF n, P, a, b, test, train
<1>6. /\ test \in Seq(T) /\ Len(test) = b - a
      /\ \A i \in 1..(b - a) : test[i] = idx[a + i]
  BY <1>1, <1>2, <1>5
<1>7. /\ low \in Seq(T) /\ Len(low) = a /\ \A i \in 1..a : low[i] = idx[i]
      /\ high \in Seq(T) /\ Len(high) = n - b /\ \A i \in 1..(n - b) : high[i] = idx[b + i]
  BY <1>1, <1>2
<1> HIDE DEF low, high
<1>8. /\ train \in Seq(T) /\ Len(train) = a + (n - b)
      /\ \A i \in 1..(a + (n - b)) : train[i] = IF i <= a THEN idx[i] ELSE idx[b + (i - a)]
  <2>1. /\ low \o high \in Seq(T) /\ Len(low \o high) = a + (n - b)
        /\ \A i \in 1..(a + (n - b)) : (low \o high)[i] = IF i <= a THEN low[i] ELSE high[i - a]
    BY <1>1, <1>2, <1>7
  <2>2. \A i \in 1..(a + (n - b)) : ~(i <= a) => i - a \in 1..(n - b)
    BY <1>1, <1>2
  <2>3. \A i \in 1..(a + (n - b)) : i <= a => i \in 1..a
    BY <1>1, <1>2
  <2> QED
    BY <1>5, <1>7, <2>1, <2>2, <2>3
<1>9. ToSet(test) = {idx[i + 1] : i \in P}
  <2>1. DOMAIN test = 1..(b - a)
    BY <1>6
  <2>2. ASSUME NEW i \in 1..(b - a)
        PROVE  \E j \in P : test[i] = idx[j + 1]
    <3>1. a + i - 1 \in P /\ (a + i - 1) + 1 = a + i
      BY <1>2, <1>4
    <3> QED
      BY <1>6, <3>1
  <2>3. ASSUME NEW j \in P
        PROVE  \E i \in 1..(b - a) : test[i] = idx[j + 1]
    <3>1. j + 1 - a \in 1..(b - a) /\ a + (j + 1 - a) = j + 1
      BY <1>2, <1>4
    <3> QED
      BY <1>6, <3>1
  <2> QED
    BY <2>1, <2>2, <2>3 DEF ToSet
<1>10. ToSet(train) = {idx[i + 1] : i \in (0..(n - 1)) \ P}
  <2>1. DOMAIN train = 1..(a + (n - b))
    BY <1>8
  <2>2. ASSUME NEW i \in 1..(a + (n - b))
        PROVE  \E j \in (0..(n - 1)) \ P : train[i] = idx[j + 1]
    <3>1. CASE i <= a
      <4>1. i - 1 \in (0..(n - 1)) \ P /\ (i - 1) + 1 = i
        BY <1>1, <1>2, <1>4, <3>1
      <4> QED
        BY <1>8, <3>1, <4>1
    <3>2. CASE ~(i <= a)
      <4>1. /\ b + (i - a) - 1 \in (0..(n - 1)) \ P
            /\ (b + (i - a) - 1) + 1 = b + (i - a)
        BY <1>1, <1>2, <1>4, <3>2
      <4> QED
        BY <1>8, <3>2, <4>1
    <3> QED
      BY <3>1, <3>2
  <2>3. ASSUME NEW j \in (0..(n - 1)) \ P
        PROVE  \E i \in 1..(a + (n - b)) : train[i] = idx[j + 1]
    <3>1. CASE j < a
      <4>1. j + 1 \in 1..(a + (n - b)) /\ j + 1 <= a
        BY <1>1, <1>2, <3>1
      <4> QED
        BY <1>8, <4>1
    <3>2. CASE j >= b
      <4> DEFINE i == j + 1 - b + a
      <4>1. i \in 1..(a + (n - b)) /\ ~(i <= a) /\ b + (i - a) = j + 1
        BY <1>1, <1>2, <3>2
      <4> HIDE DEF i
      <4>2. train[i] = idx[b + (i - a)]
        BY <1>8, <4>1
      <4> QED
        BY <4>1, <4>2
    <3> QED
      BY <1>1, <1>2, <1>4, <3>1, <3>2
  <2> QED
    BY <2>1, <2>2, <2>3 DEF ToSet
<1>11. /\ P \subseteq 0..(n - 1) /\ Len(test) - n \div K \in {0, 1}
       /\ Len(test) + Len(train) = n
  BY <1>1, <1>2, <1>3, <1>4, <1>6, <1>8
<1> QED
  BY <1>6, <1>9, <1>10, <1>11 DEF n, P, test, train

\* Each row is tested on once, by a model that was trained on all the others, and
\* the test sets are even, for every number of rows and folds (cv.cpp 24-33).
THEOREM EveryPartition ==
  ASSUME NEW T, NEW idx \in Seq(T), \A i, j \in DOMAIN idx : idx[i] = idx[j] => i = j,
         NEW K \in Nat \ {0}
  PROVE  Partition(idx, K)
<1> DEFINE n == Len(idx)
           P(f) == Fold(f, n, K)
<1>1. n \in Nat /\ DOMAIN idx = 1..n
  OBVIOUS
<1>2. \A f \in 0..(K - 1) :
        /\ P(f) \subseteq 0..(n - 1)
        /\ ToSet(Test(f, idx, K)) = {idx[i + 1] : i \in P(f)}
        /\ ToSet(Train(f, idx, K)) = {idx[i + 1] : i \in (0..(n - 1)) \ P(f)}
        /\ Len(Test(f, idx, K)) - n \div K \in {0, 1}
        /\ Len(Test(f, idx, K)) + Len(Train(f, idx, K)) = n
        /\ Test(f, idx, K) \in Seq(T)
  BY FoldRows
<1>3. \A i \in 0..(n - 1) : \E f \in 0..(K - 1) : i \in P(f)
  BY <1>1, PositionInFold
<1>4. \A f, g \in 0..(K - 1) : f # g => P(f) \cap P(g) = {}
  BY <1>1, FoldsDisjoint
<1> HIDE DEF n, P
<1>5. \A i, j \in 0..(n - 1) : idx[i + 1] = idx[j + 1] => i = j
  <2> SUFFICES ASSUME NEW i \in 0..(n - 1), NEW j \in 0..(n - 1), idx[i + 1] = idx[j + 1]
               PROVE  i = j
    OBVIOUS
  <2>1. i + 1 \in DOMAIN idx /\ j + 1 \in DOMAIN idx
    BY <1>1
  <2>2. i + 1 = j + 1
    BY <2>1
  <2> QED
    BY <1>1, <2>2
<1>6. ToSet(idx) = {idx[i + 1] : i \in 0..(n - 1)}
  <2>1. \A j \in 1..n : j - 1 \in 0..(n - 1) /\ (j - 1) + 1 = j
    BY <1>1
  <2>2. \A i \in 0..(n - 1) : i + 1 \in 1..n
    BY <1>1
  <2> QED
    BY <1>1, <2>1, <2>2 DEF ToSet
<1>7. ASSUME NEW r \in ToSet(idx)
      PROVE  Cardinality({f \in 0..(K - 1) : Contains(Test(f, idx, K), r)}) = 1
  <2>1. PICK i \in 0..(n - 1) : r = idx[i + 1]
    BY <1>6
  <2>2. PICK f \in 0..(K - 1) : i \in P(f)
    BY <1>3
  <2>3. \A g \in 0..(K - 1) : Contains(Test(g, idx, K), r) <=> r \in ToSet(Test(g, idx, K))
    <3> SUFFICES ASSUME NEW g \in 0..(K - 1)
                 PROVE  Contains(Test(g, idx, K), r) <=> r \in ToSet(Test(g, idx, K))
      OBVIOUS
    <3>1. DOMAIN Test(g, idx, K) = 1..Len(Test(g, idx, K))
      BY <1>2
    <3> QED
      BY <3>1 DEF Contains, ToSet
  <2>4. \A g \in 0..(K - 1) : r \in ToSet(Test(g, idx, K)) <=> i \in P(g)
    <3> SUFFICES ASSUME NEW g \in 0..(K - 1)
                 PROVE  r \in ToSet(Test(g, idx, K)) <=> i \in P(g)
      OBVIOUS
    <3>1. /\ P(g) \subseteq 0..(n - 1)
          /\ ToSet(Test(g, idx, K)) = {idx[j + 1] : j \in P(g)}
      BY <1>2
    <3>2. \A j \in P(g) : r = idx[j + 1] => i = j
      BY <1>5, <2>1, <3>1
    <3> QED
      BY <2>1, <3>1, <3>2
  <2>5. \A g \in 0..(K - 1) : i \in P(g) <=> g = f
    BY <1>4, <2>2
  <2>6. {g \in 0..(K - 1) : Contains(Test(g, idx, K), r)} = {f}
    BY <2>3, <2>4, <2>5
  <2> QED
    BY <2>6, FS_Singleton
<1>8. ASSUME NEW f \in 0..(K - 1)
      PROVE  /\ ToSet(Train(f, idx, K)) = ToSet(idx) \ ToSet(Test(f, idx, K))
             /\ Len(Test(f, idx, K)) + Len(Train(f, idx, K)) = n
             /\ Len(Test(f, idx, K)) - n \div K \in {0, 1}
  <2>1. /\ P(f) \subseteq 0..(n - 1)
        /\ ToSet(Test(f, idx, K)) = {idx[i + 1] : i \in P(f)}
        /\ ToSet(Train(f, idx, K)) = {idx[i + 1] : i \in (0..(n - 1)) \ P(f)}
    BY <1>2
  <2>2. \A i \in (0..(n - 1)) \ P(f), j \in P(f) : idx[i + 1] # idx[j + 1]
    BY <1>5, <2>1
  <2>3. {idx[i + 1] : i \in (0..(n - 1)) \ P(f)}
          = {idx[i + 1] : i \in 0..(n - 1)} \ {idx[i + 1] : i \in P(f)}
    BY <2>2
  <2> QED
    BY <1>2, <1>6, <2>1, <2>3
<1> QED
  BY <1>7, <1>8 DEF Partition, n

-----------------------------------------------------------------------------
(* The scanner of /validate and /predict/stream.                           *)

ScanState == [rows : Nat, cols : Nat, cur : Nat, innum : BOOLEAN, nums : Nat]

ScanStart == [rows |-> 0, cols |-> 0, cur |-> 0, innum |-> FALSE, nums |-> 0]

\* What the types of the scanner's variables mean for a record of them.
LEMMA ScanFields ==
  ASSUME NEW s \in ScanState
  PROVE  s.rows \in Nat /\ s.cols \in Nat /\ s.cur \in Nat /\ s.nums \in Nat
BY DEF ScanState

\* Each variable of the scanner may be set to a value of its type.
LEMMA ScanUpdates ==
  ASSUME NEW s \in ScanState, NEW v \in Nat
  PROVE  /\ [s EXCEPT !.cur = v] \in ScanState /\ [s EXCEPT !.rows = v] \in ScanState
         /\ [s EXCEPT !.cols = v] \in ScanState /\ [s EXCEPT !.nums = v] \in ScanState
         /\ [s EXCEPT !.innum = TRUE] \in ScanState /\ [s EXCEPT !.innum = FALSE] \in ScanState
BY Zenon DEF ScanState

\* A ] keeps the types of the scanner's variables.
LEMMA RowClosedType ==
  ASSUME NEW s \in ScanState
  PROVE  RowClosed(s) \in ScanState
<1> DEFINE v == IF s.cols = 0 THEN s.cur ELSE s.cols
           w == s.rows + 1
<1>1. v \in Nat /\ w \in Nat
  <2>1. s.rows \in Nat /\ s.cols \in Nat /\ s.cur \in Nat
    BY ScanFields
  <2> QED
    BY <2>1
<1> HIDE DEF v, w
<1>2. [s EXCEPT !.cols = v] \in ScanState
  BY <1>1, ScanUpdates
<1>3. [[s EXCEPT !.cols = v] EXCEPT !.rows = w] \in ScanState
  BY <1>1, <1>2, ScanUpdates
<1>4. [[[s EXCEPT !.cols = v] EXCEPT !.rows = w] EXCEPT !.cur = 0] \in ScanState
  BY <1>3, ScanUpdates
<1> QED
  BY <1>4, Zenon DEF RowClosed, v, w

\* A number that is being read is complete at a character that is not a digit.
Completed(s) == [s EXCEPT !.innum = FALSE, !.nums = IF s.innum THEN @ + 1 ELSE @]

\* So does the end of a number.
LEMMA CompletedType ==
  ASSUME NEW s \in ScanState
  PROVE  Completed(s) \in ScanState
<1> DEFINE v == IF s.innum THEN s.nums + 1 ELSE s.nums
<1>1. v \in Nat
  <2>1. s.nums \in Nat /\ s.nums + 1 \in Nat
    BY ScanFields
  <2> QED
    BY <2>1, Zenon
<1> HIDE DEF v
<1>2. [s EXCEPT !.innum = FALSE] \in ScanState
  BY ScanUpdates
<1>3. [[s EXCEPT !.innum = FALSE] EXCEPT !.nums = v] \in ScanState
  BY <1>1, <1>2, ScanUpdates
<1> QED
  BY <1>3, Zenon DEF Completed, v

\* The characters that ScanChar tells apart are different.
LEMMA Characters ==
  /\ Closing \notin Digits /\ Comma \notin Digits /\ Opening \notin Digits
  /\ Closing # Comma /\ Opening # Closing /\ Opening # Comma
  /\ Key \notin Digits \cup {Opening, Closing, Comma}
  /\ "1" \in Digits
BY Zenon DEF Closing, Opening, Comma, Key, Digits

\* What ScanChar does with each kind of character.
LEMMA ScanChars ==
  ASSUME NEW s, NEW c
  PROVE  /\ c \in Digits => ScanChar(s, c) = [s EXCEPT !.innum = TRUE]
         /\ c = Closing => ScanChar(s, c) = RowClosed(Completed(s))
         /\ c = Comma => ScanChar(s, c) = [Completed(s) EXCEPT !.cur = @ + 1]
         /\ c \notin Digits \cup {Closing, Comma} => ScanChar(s, c) = Completed(s)
BY Characters, Zenon DEF ScanChar, Completed

\* A character keeps the types of the scanner's variables.
LEMMA ScanCharType ==
  ASSUME NEW s \in ScanState, NEW c
  PROVE  ScanChar(s, c) \in ScanState
<1>1. Completed(s) \in ScanState
  BY CompletedType
<1>2. RowClosed(Completed(s)) \in ScanState
  BY <1>1, RowClosedType
<1>3. [Completed(s) EXCEPT !.cur = @ + 1] \in ScanState
  <2>1. Completed(s).cur + 1 \in Nat
    BY <1>1, ScanFields
  <2> QED
    BY <1>1, <2>1, ScanUpdates
<1>4. [s EXCEPT !.innum = TRUE] \in ScanState
  BY ScanUpdates
<1> QED
  BY <1>1, <1>2, <1>3, <1>4, ScanChars, Zenon

\* The scanner goes through the body character by character.
LEMMA ScanSteps ==
  ASSUME NEW T, NEW body \in Seq(T)
  PROVE  \E P \in [0..Len(body) -> ScanState] :
           /\ P[0] = ScanStart /\ P[Len(body)] = Scan(body)
           /\ \A k \in 1..Len(body) : P[k] = ScanChar(P[k - 1], body[k])
<1> DEFINE n == Len(body)
           step == [p \in ScanState \X (1..n) |-> ScanChar(p[1], body[p[2]])]
           Body(g) == [s \in SUBSET (1..n) |->
                         IF s = {} THEN ScanStart
                         ELSE ScanChar(g[s \ {Top(s)}], body[Top(s)])]
           iter == CHOOSE g : g = Body(g)
<1>1. n \in Nat /\ DOMAIN body = 1..n
  OBVIOUS
<1>2. Scan(body) = iter[1..n]
  BY <1>1 DEF Scan, FoldLeft, MapThenFoldSet, Max, Top, ScanStart
<1>3. ScanStart \in ScanState /\ step \in [ScanState \X (1..n) -> ScanState]
  BY ScanCharType DEF ScanStart, ScanState
<1>4. \E g : g = Body(g)
  <2>1. PICK G \in [SUBSET (1..n) -> ScanState] : Folding(n, ScanStart, step, G)
    <3> HIDE DEF step, n
    <3> QED
      BY <1>1, <1>3, FoldExists, Zenon
  <2>2. ASSUME NEW s \in SUBSET (1..n), s # {}
        PROVE  step[<<G[s \ {Top(s)}], Top(s)>>] = ScanChar(G[s \ {Top(s)}], body[Top(s)])
    <3>1. Top(s) \in 1..n /\ s \ {Top(s)} \in SUBSET (1..n)
      BY <1>1, <2>2, TopIn
    <3> QED
      BY <3>1
  <2>3. G = Body(G)
    BY <2>1, <2>2 DEF Folding
  <2> QED
    BY <2>3
<1>5. iter = Body(iter)
  <2> HIDE DEF Body
  <2> QED
    BY <1>4, Zenon
<1> HIDE DEF iter
<1>6. FoldingIn(ScanState, n, ScanStart, step, iter)
  <2>1. /\ iter[{}] = ScanStart
        /\ \A s \in SUBSET (1..n) :
             s # {} => iter[s] = ScanChar(iter[s \ {Top(s)}], body[Top(s)])
    BY <1>5
  <2> QED
    BY <1>1, <2>1, TopIn DEF FoldingIn
<1>7. PICK P \in [0..n -> ScanState] : PrefixValues(n, ScanStart, step, iter[1..n], P)
  <2> HIDE DEF step, n
  <2> QED
    BY <1>1, <1>3, <1>6, FoldPrefixes, Zenon
<1>8. P[0] = ScanStart /\ P[n] = iter[1..n] /\ \A k \in 1..n : P[k] = ScanChar(P[k - 1], body[k])
  <2>1. \A k \in 1..n : k - 1 \in 0..n
    BY <1>1
  <2> QED
    BY <1>7, <2>1 DEF PrefixValues
<1> QED
  BY <1>2, <1>7, <1>8

\* What a character does to the variables.
LEMMA ScanEffects ==
  ASSUME NEW s \in ScanState, NEW c, NEW t, t = ScanChar(s, c)
  PROVE  /\ c \in Digits =>
              /\ t.rows = s.rows /\ t.cols = s.cols /\ t.cur = s.cur /\ t.nums = s.nums
              /\ t.innum
         /\ c \notin Digits =>
              /\ t.nums = IF s.innum THEN s.nums + 1 ELSE s.nums
              /\ ~t.innum
         /\ c \notin Digits \cup {Closing, Comma} =>
              t.rows = s.rows /\ t.cols = s.cols /\ t.cur = s.cur
         /\ c = Comma => t.rows = s.rows /\ t.cols = s.cols /\ t.cur = s.cur + 1
         /\ c = Closing /\ s.cur = 0 => t.rows = s.rows /\ t.cols = s.cols /\ t.cur = 0
         /\ c = Closing /\ s.cur # 0 =>
              /\ t.rows = s.rows + 1 /\ t.cur = 0
              /\ t.cols = IF s.cols = 0 THEN s.cur ELSE s.cols
<1> DEFINE u == Completed(s)
           w == RowClosed(u)
<1>1. /\ u.rows = s.rows /\ u.cols = s.cols /\ u.cur = s.cur /\ ~u.innum
      /\ u.nums = IF s.innum THEN s.nums + 1 ELSE s.nums
  BY DEF Completed, ScanState
<1>2. u \in ScanState
  BY CompletedType
<1> HIDE DEF u
<1>3. w.nums = u.nums /\ ~w.innum
  BY <1>1, <1>2 DEF RowClosed, ScanState
<1>4. s.cur = 0 => w.rows = s.rows /\ w.cols = s.cols /\ w.cur = 0
  BY <1>1 DEF RowClosed
<1>5. s.cur # 0 => /\ w.rows = s.rows + 1 /\ w.cur = 0
                   /\ w.cols = IF s.cols = 0 THEN s.cur ELSE s.cols
  BY <1>1, <1>2 DEF RowClosed, ScanState
<1> HIDE DEF w
<1>6. CASE c \in Digits
  <2>1. c # Closing /\ c # Comma
    BY <1>6, Characters
  <2>2. t = [s EXCEPT !.innum = TRUE]
    BY <1>6, ScanChars
  <2>3. t.rows = s.rows /\ t.cols = s.cols /\ t.cur = s.cur /\ t.nums = s.nums /\ t.innum
    BY <2>2 DEF ScanState
  <2> QED
    BY <1>6, <2>1, <2>3, Zenon
<1>7. CASE c = Closing
  <2>1. t = w /\ c \notin Digits /\ c # Comma
    BY <1>7, ScanChars, Characters DEF u, w
  <2> QED
    BY <1>1, <1>3, <1>4, <1>5, <1>7, <2>1, Zenon
<1>8. CASE c = Comma
  <2>1. t = [u EXCEPT !.cur = @ + 1] /\ c \notin Digits /\ c # Closing
    BY <1>8, ScanChars, Characters DEF u
  <2>2. t.rows = u.rows /\ t.cols = u.cols /\ t.cur = u.cur + 1 /\ t.nums = u.nums /\ (t.innum <=> u.innum)
    BY <1>2, <2>1 DEF ScanState
  <2> QED
    BY <1>1, <1>8, <2>1, <2>2, Zenon
<1>9. CASE c \notin Digits \cup {Closing, Comma}
  <2>1. t = u
    BY <1>9, ScanChars DEF u
  <2> QED
    BY <1>1, <1>9, <2>1, Zenon
<1> QED
  BY <1>6, <1>7, <1>8, <1>9, Zenon

\* There are columns only when there are rows: the body that /validate accepts is
\* the body /predict/stream finds a shape for.
LEMMA ValidateAgreesAlways ==
  ASSUME NEW T, NEW body \in Seq(T)
  PROVE  ValidateAgrees(body)
<1>1. PICK P \in [0..Len(body) -> ScanState] :
        /\ P[0] = ScanStart /\ P[Len(body)] = Scan(body)
        /\ \A k \in 1..Len(body) : P[k] = ScanChar(P[k - 1], body[k])
  BY ScanSteps
<1> DEFINE n == Len(body)
           S == {k \in 0..n : P[k].cols # 0 => P[k].rows # 0}
<1>2. n \in Nat
  OBVIOUS
<1>3. 0 \in S
  BY <1>1, <1>2 DEF ScanStart
<1>4. ASSUME NEW k \in 0..(n - 1), k \in S
      PROVE  k + 1 \in S
  <2> DEFINE s == P[k]
             t == P[k + 1]
             c == body[k + 1]
  <2>1. k + 1 \in 1..n /\ (k + 1) - 1 = k /\ k \in 0..n /\ k + 1 \in 0..n
    BY <1>2
  <2>2. t = ScanChar(s, c) /\ s \in ScanState /\ (s.cols # 0 => s.rows # 0)
    BY <1>1, <1>4, <2>1
  <2> HIDE DEF s, t, c
  <2>3. s.rows \in Nat
    BY <2>2, ScanFields
  <2>4. \/ t.cols = s.cols /\ t.rows = s.rows
        \/ t.rows = s.rows + 1
    <3>1. c \in Digits \/ c = Closing \/ c = Comma \/ c \notin Digits \cup {Closing, Comma}
      OBVIOUS
    <3>2. CASE c \in Digits
      BY <2>2, <3>2, ScanEffects
    <3>3. CASE c = Closing
      BY <2>2, <3>3, ScanEffects
    <3>4. CASE c = Comma
      BY <2>2, <3>4, ScanEffects
    <3>5. CASE c \notin Digits \cup {Closing, Comma}
      BY <2>2, <3>5, ScanEffects
    <3> QED
      BY <3>1, <3>2, <3>3, <3>4, <3>5
  <2>5. t.cols # 0 => t.rows # 0
    BY <2>2, <2>3, <2>4
  <2> QED
    BY <2>1, <2>5 DEF t
<1>5. n \in S
  <2> HIDE DEF S
  <2>1. 0..n \subseteq S
    BY <1>2, <1>3, <1>4, IntervalInduction
  <2> QED
    BY <1>2, <2>1
<1>6. Scan(body).cols # 0 => Scan(body).rows # 0
  BY <1>1, <1>5
<1> QED
  BY <1>6 DEF ValidateAgrees, ValidateCode, ShapeFound

-----------------------------------------------------------------------------
(* The scanner in the text of a matrix.                                    *)

\* A product grows with its factor.
LEMMA Rows ==
  ASSUME NEW w \in Nat, NEW r \in Nat, NEW R \in Nat, r + 1 <= R
  PROVE  r * w \in Nat /\ R * w \in Nat /\ (r + 1) * w = r * w + w /\ r * w + w <= R * w
<1>1. r * w \in Nat /\ R * w \in Nat /\ (r + 1) * w = r * w + w
  OBVIOUS
<1>2. (R - (r + 1)) * w \in Nat /\ (R - (r + 1)) * w = R * w - (r + 1) * w
  OBVIOUS
<1> QED
  BY <1>1, <1>2

\* The remainder, when the quotient is known.
LEMMA Remainder ==
  ASSUME NEW w \in Nat \ {0}, NEW r \in Nat, NEW o \in 0..(w - 1)
  PROVE  (r * w + o) % w = o /\ (r * w + o) \div w = r
<1> DEFINE a == r * w + o
           q == a \div w
           m == a % w
<1>1. r * w \in Nat /\ a \in Nat
  OBVIOUS
<1> HIDE DEF a
<1>2. q \in Nat /\ m \in 0..(w - 1) /\ a = w * q + m
  BY <1>1
<1> HIDE DEF q, m
<1>3. w * r = r * w /\ w * q \in Nat /\ a = w * r + o /\ w * r \in Nat
  BY <1>2 DEF a
<1>4. w * (q + 1) = w * q + w /\ w * (r + 1) = w * r + w
  BY <1>2
<1>5. q < r + 1
  <2>1. w * q < w * (r + 1)
    BY <1>2, <1>3, <1>4
  <2> QED
    BY <1>2, <2>1, Cancel
<1>6. r < q + 1
  <2>1. w * r < w * (q + 1)
    BY <1>2, <1>3, <1>4
  <2> QED
    BY <1>2, <2>1, Cancel
<1>7. q = r
  BY <1>2, <1>5, <1>6
<1>8. m = o
  BY <1>2, <1>3, <1>7
<1> QED
  BY <1>7, <1>8 DEF a, q, m

Width(C) == 2 * C + 2

Alphabet == {Key, Opening, Closing, Comma, "1"}

\* The character behind the first o of row r, both counted from 0.
CharAt(R, C, r, o) ==
  IF r = R - 1 /\ o = 2 * C + 1 THEN Closing ELSE RowChar(C, o)

\* The text of a matrix has its key, an opening bracket and then the R rows, each of
\* Width(C) characters, the last with the closing bracket in place of the comma.
LEMMA MatrixText ==
  ASSUME NEW R \in Nat \ {0}, NEW C \in Nat \ {0}
  PROVE  LET M == Matrix(R, C)
         IN  /\ M \in Seq(Alphabet) /\ Len(M) = R * Width(C) + 2 /\ Len(M) \in Nat
             /\ M[1] = Key /\ M[2] = Opening
             /\ \A r \in 0..(R - 1), o \in 0..(Width(C) - 1) :
                  M[r * Width(C) + o + 3] = CharAt(R, C, r, o)
<1> DEFINE W == 2 * C + 2
           n == R * W + 2
           M == [i \in 1..n |-> CASE i = 1 -> Key
                                  [] i = 2 -> Opening
                                  [] i = n -> Closing
                                  [] OTHER -> RowChar(C, (i - 3) % W)]
<1>1. W \in Nat /\ W >= 4 /\ R * W \in Nat /\ n \in Nat /\ n > 2
  <2>1. W \in Nat /\ W >= 4
    OBVIOUS
  <2> HIDE DEF W
  <2>2. 0 + 1 <= R
    OBVIOUS
  <2>3. 0 * W + W <= R * W /\ R * W \in Nat /\ 0 * W = 0
    BY <2>1, <2>2, Rows
  <2> QED
    BY <2>1, <2>3
<1>2. Matrix(R, C) = M /\ Width(C) = W
  BY DEF Matrix, Width
<1> HIDE DEF W, n
<1>3. M[1] = Key /\ M[2] = Opening
  <2>1. 1 \in 1..n /\ 2 \in 1..n /\ 2 # 1 /\ 1 # 2 /\ 1 # n /\ 2 # n
    BY <1>1
  <2> QED
    BY <2>1, Zenon
<1>4. ASSUME NEW i \in 1..n
      PROVE  M[i] \in Alphabet
  <2>1. RowChar(C, (i - 3) % W) \in Alphabet
    BY Zenon DEF RowChar, Alphabet
  <2> QED
    BY <2>1, Zenon DEF Alphabet
<1>5. ASSUME NEW r \in 0..(R - 1), NEW o \in 0..(W - 1)
      PROVE  M[r * W + o + 3] = CharAt(R, C, r, o)
  <2>1. r * W \in Nat /\ r * W + W <= R * W
    BY <1>1, Rows
  <2>2. r # R - 1 => r * W + W + W <= R * W
    <3>1. r # R - 1 => (r + 1) * W + W <= R * W
      BY <1>1, Rows
    <3>2. (r + 1) * W = r * W + W
      BY <1>1, Rows
    <3> QED
      BY <3>1, <3>2
  <2>3. r = R - 1 => R * W = r * W + W
    BY <1>1, Rows
  <2> DEFINE i == r * W + o + 3
  <2>4. i \in 1..n /\ i # 1 /\ i # 2 /\ i - 3 = r * W + o
    BY <1>1, <2>1 DEF n
  <2>5. i = n <=> r = R - 1 /\ o = 2 * C + 1
    BY <1>1, <2>1, <2>2, <2>3 DEF n, W
  <2>6. (i - 3) % W = o
    BY <1>1, <2>4, Remainder
  <2> HIDE DEF i
  <2>7. M[i] = IF i = n THEN Closing ELSE RowChar(C, o)
    BY <2>4, <2>6, Zenon
  <2>8. M[i] = CharAt(R, C, r, o)
    BY <2>5, <2>7, Zenon DEF CharAt
  <2> QED
    BY <2>8 DEF i
<1>6. M \in Seq(Alphabet) /\ Len(M) = n
  <2>1. M \in [1..n -> Alphabet]
    BY <1>4
  <2> HIDE DEF M
  <2> QED
    BY <1>1, <2>1
<1> HIDE DEF M
<1> QED
  BY <1>1, <1>2, <1>3, <1>5, <1>6 DEF n

\* The scanner's variables when o characters of row r have been read, 0 < o.
Position(s, R, C, r, o) ==
  LET closed == IF o > 2 * C THEN r + 1 ELSE r
      commas == (o - 1) \div 2
  IN  /\ s.nums = r * C + commas
      /\ s.innum <=> o <= 2 * C /\ o % 2 = 0
      /\ s.rows = IF C > 1 \/ closed = 0 THEN closed ELSE closed - 1
      /\ s.cols = IF s.rows = 0 THEN 0 ELSE IF C > 1 THEN C - 1 ELSE 1
      /\ s.cur = IF o <= 2 * C THEN (IF r > 0 THEN 1 ELSE 0) + commas
                 ELSE IF o = 2 * C + 1 \/ r = R - 1 THEN 0 ELSE 1

\* One character on, inside a row.
LEMMA NextInRow ==
  ASSUME NEW R \in Nat \ {0}, NEW C \in Nat \ {0}, NEW r \in 0..(R - 1),
         NEW o \in 1..(Width(C) - 1), NEW s \in ScanState, Position(s, R, C, r, o)
  PROVE  Position(ScanChar(s, CharAt(R, C, r, o)), R, C, r, o + 1)
<1> DEFINE t == ScanChar(s, CharAt(R, C, r, o))
           p == r * C
<1>1. p \in Nat /\ 2 * C \in Nat /\ o \in Nat /\ o <= 2 * C + 1
  BY DEF Width
<1>2. s.rows \in Nat /\ s.cols \in Nat /\ s.cur \in Nat /\ s.nums \in Nat
  BY ScanFields
<1>3. t = ScanChar(s, CharAt(R, C, r, o))
  OBVIOUS
<1> HIDE DEF t
<1>4. CASE o % 2 = 1 /\ o < 2 * C
  <2>1. CharAt(R, C, r, o) \in Digits
    <3>1. o # 0 /\ o # 2 * C /\ o # 2 * C + 1
      BY <1>1, <1>4
    <3>2. CharAt(R, C, r, o) = "1"
      BY <1>4, <3>1, Zenon DEF CharAt, RowChar
    <3> QED
      BY <3>2, Characters
  <2>2. t.rows = s.rows /\ t.cols = s.cols /\ t.cur = s.cur /\ t.nums = s.nums /\ t.innum
    BY <1>3, <2>1, ScanEffects
  <2> HIDE DEF p
  <2> QED
    BY <1>1, <1>2, <1>4, <2>2 DEF Position, t
<1>5. CASE o % 2 = 0 /\ o < 2 * C
  <2>1. CharAt(R, C, r, o) = Comma
    <3>1. o # 0 /\ o # 2 * C /\ o # 2 * C + 1 /\ ~(o % 2 = 1)
      BY <1>1, <1>5
    <3> QED
      BY <3>1, Zenon DEF CharAt, RowChar
  <2>2. t.rows = s.rows /\ t.cols = s.cols /\ t.cur = s.cur + 1 /\ ~t.innum
        /\ t.nums = IF s.innum THEN s.nums + 1 ELSE s.nums
    BY <1>3, <2>1, ScanEffects, Characters
  <2> QED
    BY <1>1, <1>2, <1>5, <2>2 DEF Position, t
<1>6. CASE o = 2 * C
  <2>1. CharAt(R, C, r, o) = Closing
    <3>1. o # 0 /\ o # 2 * C + 1 /\ ~(o < 2 * C)
      BY <1>1, <1>6
    <3> QED
      BY <1>6, <3>1, Zenon DEF CharAt, RowChar
  <2>2. ~t.innum /\ t.nums = IF s.innum THEN s.nums + 1 ELSE s.nums
    BY <1>3, <2>1, ScanEffects, Characters
  <2>3. s.cur = 0 => t.rows = s.rows /\ t.cols = s.cols /\ t.cur = 0
    BY <1>3, <2>1, ScanEffects
  <2>4. s.cur # 0 => /\ t.rows = s.rows + 1 /\ t.cur = 0
                     /\ t.cols = IF s.cols = 0 THEN s.cur ELSE s.cols
    BY <1>3, <2>1, ScanEffects
  <2> QED
    BY <1>1, <1>2, <1>6, <2>2, <2>3, <2>4 DEF Position, t
<1>7. CASE o = 2 * C + 1 /\ r # R - 1
  <2>1. CharAt(R, C, r, o) = Comma
    <3>1. o # 0 /\ o # 2 * C /\ ~(o < 2 * C)
      BY <1>1, <1>7
    <3> QED
      BY <1>7, <3>1, Zenon DEF CharAt, RowChar
  <2>2. t.rows = s.rows /\ t.cols = s.cols /\ t.cur = s.cur + 1 /\ ~t.innum
        /\ t.nums = IF s.innum THEN s.nums + 1 ELSE s.nums
    BY <1>3, <2>1, ScanEffects, Characters
  <2> QED
    BY <1>1, <1>2, <1>7, <2>2 DEF Position, t
<1>8. CASE o = 2 * C + 1 /\ r = R - 1
  <2>1. CharAt(R, C, r, o) = Closing
    BY <1>8, Zenon DEF CharAt
  <2>2. s.cur = 0
    BY <1>1, <1>8 DEF Position
  <2>3. t.rows = s.rows /\ t.cols = s.cols /\ t.cur = 0 /\ ~t.innum
        /\ t.nums = IF s.innum THEN s.nums + 1 ELSE s.nums
    BY <1>3, <2>1, <2>2, ScanEffects, Characters
  <2> QED
    BY <1>1, <1>2, <1>8, <2>3 DEF Position, t
<1> QED
  BY <1>1, <1>4, <1>5, <1>6, <1>7, <1>8 DEF t

\* One character on, from the end of a row to the next.
LEMMA NextRow ==
  ASSUME NEW R \in Nat \ {0}, NEW C \in Nat \ {0}, NEW r \in 0..(R - 1), r # R - 1,
         NEW s \in ScanState, Position(s, R, C, r, Width(C))
  PROVE  Position(ScanChar(s, CharAt(R, C, r + 1, 0)), R, C, r + 1, 1)
<1> DEFINE t == ScanChar(s, CharAt(R, C, r + 1, 0))
           p == r * C
<1>1. p \in Nat /\ (r + 1) * C = p + C /\ 0 # 2 * C + 1 /\ 0 # 2 * C /\ ~(0 % 2 = 1)
  OBVIOUS
<1>2. s.rows \in Nat /\ s.cols \in Nat /\ s.cur \in Nat /\ s.nums \in Nat
  BY ScanFields
<1>3. CharAt(R, C, r + 1, 0) = Opening
  BY <1>1, Zenon DEF CharAt, RowChar
<1>4. t.rows = s.rows /\ t.cols = s.cols /\ t.cur = s.cur /\ ~t.innum
      /\ t.nums = IF s.innum THEN s.nums + 1 ELSE s.nums
  BY <1>3, ScanEffects, Characters
<1> HIDE DEF t
<1> QED
  BY <1>1, <1>2, <1>4 DEF Position, Width, t

\* The first bracket of the first row, from the state the scan starts in.
LEMMA FirstRow ==
  ASSUME NEW R \in Nat \ {0}, NEW C \in Nat \ {0}
  PROVE  Position(ScanChar(ScanStart, CharAt(R, C, 0, 0)), R, C, 0, 1)
<1> DEFINE t == ScanChar(ScanStart, CharAt(R, C, 0, 0))
<1>1. 0 # 2 * C + 1 /\ 0 # 2 * C /\ ~(0 % 2 = 1) /\ 0 * C = 0
  OBVIOUS
<1>2. ScanStart \in ScanState
  BY DEF ScanStart, ScanState
<1>3. CharAt(R, C, 0, 0) = Opening
  BY <1>1, Zenon DEF CharAt, RowChar
<1>4. t.rows = 0 /\ t.cols = 0 /\ t.cur = 0 /\ ~t.innum /\ t.nums = 0
  <2>1. t.rows = ScanStart.rows /\ t.cols = ScanStart.cols /\ t.cur = ScanStart.cur /\ ~t.innum
        /\ t.nums = IF ScanStart.innum THEN ScanStart.nums + 1 ELSE ScanStart.nums
    BY <1>2, <1>3, ScanEffects, Characters
  <2> QED
    BY <2>1 DEF ScanStart
<1> HIDE DEF t
<1> QED
  BY <1>1, <1>4 DEF Position, t

\* What is left of a sequence that is cut.
LEMMA Cutting ==
  ASSUME NEW T, NEW q \in Seq(T), NEW k \in 0..Len(q)
  PROVE  /\ SubSeq(q, 1, k) \in Seq(T) /\ Len(SubSeq(q, 1, k)) = k
         /\ \A i \in 1..k : SubSeq(q, 1, k)[i] = q[i]
OBVIOUS

\* Where a prefix of the text ends in the rows, the scanner is in that position.
LEMMA ScanPosition ==
  ASSUME NEW R \in Nat \ {0}, NEW C \in Nat \ {0},
         NEW k \in 0..Len(Matrix(R, C)), k > 2
  PROVE  LET s == Scan(SubSeq(Matrix(R, C), 1, k))
             r == (k - 3) \div Width(C)
             o == ((k - 3) % Width(C)) + 1
         IN  /\ r \in 0..(R - 1) /\ o \in 1..Width(C) /\ k = r * Width(C) + o + 2
             /\ s \in ScanState /\ Position(s, R, C, r, o)
<1> DEFINE M == Matrix(R, C)
           W == Width(C)
           body == SubSeq(M, 1, k)
           Char(r, o) == CharAt(R, C, r, o)
<1>1. /\ M \in Seq(Alphabet) /\ Len(M) = R * W + 2 /\ Len(M) \in Nat
      /\ M[1] = Key /\ M[2] = Opening
      /\ \A r \in 0..(R - 1), o \in 0..(W - 1) : M[r * W + o + 3] = Char(r, o)
  BY MatrixText
<1>2. W \in Nat \ {0} /\ R * W \in Nat /\ k \in Nat /\ k <= R * W + 2 /\ k > 2
  <2>1. W \in Nat \ {0}
    BY DEF Width
  <2> HIDE DEF W
  <2> QED
    BY <1>1, <2>1
<1> HIDE DEF M, W
<1>3. body \in Seq(Alphabet) /\ Len(body) = k /\ \A i \in 1..k : body[i] = M[i]
  <2>1. k \in 0..Len(M)
    BY <1>1, <1>2
  <2> QED
    BY <1>1, <2>1, Cutting
<1> HIDE DEF body
<1>4. PICK P \in [0..k -> ScanState] :
        /\ P[0] = ScanStart /\ P[k] = Scan(body)
        /\ \A i \in 1..k : P[i] = ScanChar(P[i - 1], body[i])
  BY <1>3, ScanSteps
<1> DEFINE S == {i \in 0..k : \A r \in 0..(R - 1), o \in 1..W :
                               i = r * W + o + 2 => Position(P[i], R, C, r, o)}
<1>5. P[2] = ScanStart
  <2>1. 1 \in 1..k /\ 2 \in 1..k /\ 1 - 1 = 0 /\ 2 - 1 = 1
    BY <1>2
  <2>2. P[1] = ScanChar(ScanStart, Key) /\ P[2] = ScanChar(P[1], Opening)
    BY <1>1, <1>3, <1>4, <2>1
  <2>3. ScanChar(ScanStart, Key) = Completed(ScanStart)
    BY Characters, ScanChars
  <2>4. Completed(ScanStart) = ScanStart
    <3>1. ScanStart.innum = FALSE
      BY DEF ScanStart
    <3>2. Completed(ScanStart) = [[ScanStart EXCEPT !.innum = FALSE] EXCEPT !.nums = ScanStart.nums]
      BY <3>1, Zenon DEF Completed
    <3> QED
      BY <3>2 DEF ScanStart
  <2>5. ScanChar(ScanStart, Opening) = Completed(ScanStart)
    BY Characters, ScanChars
  <2> QED
    BY <2>2, <2>3, <2>4, <2>5
<1>6. 0 \in S
  <2>1. \A r \in 0..(R - 1), o \in 1..W : r * W \in Nat
    BY <1>2
  <2> QED
    BY <1>2, <2>1
<1>7. ASSUME NEW i \in 0..(k - 1), i \in S
      PROVE  i + 1 \in S
  <2> SUFFICES ASSUME NEW r \in 0..(R - 1), NEW o \in 1..W, i + 1 = r * W + o + 2
               PROVE  Position(P[i + 1], R, C, r, o)
    BY <1>2
  <2>1. r * W \in Nat /\ i \in 0..k /\ i + 1 \in 1..k /\ (i + 1) - 1 = i
    BY <1>2
  <2>2. P[i + 1] = ScanChar(P[i], Char(r, o - 1)) /\ P[i] \in ScanState
    <3>1. o - 1 \in 0..(W - 1) /\ i + 1 = r * W + (o - 1) + 3
      BY <1>2, <2>1
    <3>2. body[i + 1] = Char(r, o - 1)
      BY <1>1, <1>3, <2>1, <3>1
    <3> QED
      BY <1>4, <2>1, <3>2
  <2>3. CASE o # 1
    <3>1. /\ o - 1 \in 1..(W - 1) /\ o - 1 \in 1..W /\ (o - 1) + 1 = o
          /\ i = r * W + (o - 1) + 2
      BY <1>2, <2>1, <2>3
    <3>2. Position(P[i], R, C, r, o - 1)
      BY <1>7, <3>1
    <3>3. Position(ScanChar(P[i], CharAt(R, C, r, o - 1)), R, C, r, (o - 1) + 1)
      BY <2>2, <3>1, <3>2, NextInRow DEF W
    <3> QED
      BY <2>2, <3>1, <3>3
  <2>4. CASE o = 1 /\ r # 0
    <3>1. r - 1 \in 0..(R - 1) /\ r - 1 # R - 1 /\ (r - 1) + 1 = r /\ W \in 1..W
      BY <1>2, <2>4
    <3>2. i = (r - 1) * W + W + 2
      <4>1. ((r - 1) + 1) * W = (r - 1) * W + W
        BY <1>2, <3>1, Rows
      <4> QED
        BY <2>1, <2>4, <3>1, <4>1
    <3>3. Position(P[i], R, C, r - 1, W)
      BY <1>7, <3>1, <3>2
    <3>4. Position(ScanChar(P[i], CharAt(R, C, (r - 1) + 1, 0)), R, C, (r - 1) + 1, 1)
      BY <2>2, <3>1, <3>3, NextRow DEF W
    <3> QED
      BY <2>2, <2>4, <3>1, <3>4
  <2>5. CASE o = 1 /\ r = 0
    <3>1. i = 2
      BY <1>2, <2>5
    <3>2. Position(ScanChar(ScanStart, CharAt(R, C, 0, 0)), R, C, 0, 1)
      BY FirstRow
    <3> QED
      BY <1>5, <2>2, <2>5, <3>1, <3>2
  <2> QED
    BY <2>3, <2>4, <2>5
<1>8. k \in S
  <2> HIDE DEF S
  <2>1. 0..k \subseteq S
    BY <1>2, <1>6, <1>7, IntervalInduction
  <2> QED
    BY <1>2, <2>1
<1> DEFINE r == (k - 3) \div W
           o == ((k - 3) % W) + 1
<1>9. r \in 0..(R - 1) /\ o \in 1..W /\ k = r * W + o + 2
  <2>1. k - 3 \in Nat
    BY <1>2
  <2>2. r \in Nat /\ o - 1 \in 0..(W - 1) /\ k - 3 = W * r + (o - 1) /\ o \in Int
    BY <1>2, <2>1
  <2> HIDE DEF r, o
  <2>3. W * r = r * W /\ r * W \in Nat /\ W * R = R * W /\ W * (r + 1) = r * W + W
    BY <1>2, <2>2
  <2>4. W * r < W * R
    BY <1>2, <2>2, <2>3
  <2>5. r < R
    BY <1>2, <2>2, <2>4, Cancel
  <2> QED
    BY <1>2, <2>2, <2>3, <2>5
<1> HIDE DEF r, o
<1>10. Position(P[k], R, C, r, o)
  BY <1>8, <1>9
<1>11. P[k] \in ScanState
  BY <1>2, <1>4
<1> QED
  BY <1>4, <1>9, <1>10, <1>11 DEF M, W, body, r, o

\* Of the text of a matrix, however much of it arrives, /predict/stream reads only
\* numbers that arrived, and a whole one has an event per row of a model with an input
\* less than it has columns, or all but one if it has one column, and of a model as
\* wide as it is perhaps none at all.
LEMMA MatrixReadAlways ==
  ASSUME NEW R \in Nat \ {0}, NEW C \in Nat \ {0}, NEW k \in 0..Len(Matrix(R, C)),
         NEW inputs
  PROVE  MatrixRead(R, C, k, inputs)
<1> DEFINE M == Matrix(R, C)
           W == Width(C)
           body == SubSeq(M, 1, k)
           s == Scan(body)
           read == Streamed(body, inputs)
<1>1. /\ M \in Seq(Alphabet) /\ Len(M) = R * W + 2 /\ Len(M) \in Nat
      /\ M[1] = Key /\ M[2] = Opening
  BY MatrixText
<1>2. W \in Nat \ {0} /\ R * W \in Nat /\ k \in Nat /\ k <= R * W + 2
  <2>1. W \in Nat \ {0}
    BY DEF Width
  <2> HIDE DEF W
  <2> QED
    BY <1>1, <2>1
<1> HIDE DEF M, W
<1>3. body \in Seq(Alphabet) /\ Len(body) = k /\ \A i \in 1..k : body[i] = M[i]
  <2>1. k \in 0..Len(M)
    BY <1>1, <1>2
  <2> QED
    BY <1>1, <2>1, Cutting
<1>4. k <= 2 => s.cols = 0 /\ s.nums = 0
  <2> SUFFICES ASSUME k <= 2 PROVE s.cols = 0 /\ s.nums = 0
    OBVIOUS
  <2> HIDE DEF body
  <2>1. PICK P \in [0..k -> ScanState] :
          /\ P[0] = ScanStart /\ P[k] = Scan(body)
          /\ \A i \in 1..k : P[i] = ScanChar(P[i - 1], body[i])
    BY <1>3, ScanSteps
  <2>2. \A i \in 1..k : body[i] \in {Key, Opening}
    BY <1>1, <1>2, <1>3
  <2>3. \A i \in 1..k : i - 1 \in 0..k /\ P[i - 1] \in ScanState
    BY <1>2
  <2>4. \A i \in 1..k : /\ P[i].cols = P[i - 1].cols /\ ~P[i].innum
                        /\ ~P[i - 1].innum => P[i].nums = P[i - 1].nums
    <3> TAKE i \in 1..k
    <3> DEFINE u == P[i - 1]
               c == body[i]
    <3>1. u \in ScanState /\ P[i] = ScanChar(u, c) /\ (c = Key \/ c = Opening)
      BY <2>1, <2>2, <2>3
    <3> HIDE DEF u, c
    <3>2. c \notin Digits /\ c # Closing /\ c # Comma
      BY <3>1, Characters
    <3>3. /\ P[i].cols = u.cols /\ ~P[i].innum
          /\ ~u.innum => P[i].nums = u.nums
      BY <3>1, <3>2, ScanEffects
    <3> QED
      BY <3>3 DEF u
  <2>5. P[0].cols = 0 /\ P[0].nums = 0 /\ ~P[0].innum
    BY <2>1 DEF ScanStart
  <2>6. k = 0 \/ k = 1 \/ k = 2
    BY <1>2
  <2>7. P[k].cols = 0 /\ P[k].nums = 0
    <3>1. k >= 1 => 1 \in 1..k /\ 1 - 1 = 0
      BY <1>2
    <3>2. k = 2 => 2 \in 1..k /\ 2 - 1 = 1
      BY <1>2
    <3> QED
      BY <2>4, <2>5, <2>6, <3>1, <3>2
  <2> QED
    BY <2>1, <2>7
<1> SUFFICES /\ \A n \in read.reads : n < read.nums
             /\ read.nums <= R * C /\ read.events \subseteq 0..R
             /\ k = Len(M) /\ C > 1 /\ inputs = C - 1 => read.events = {R}
             /\ k = Len(M) /\ C > 1 /\ inputs = C => read.events = {0, R}
             /\ k = Len(M) /\ C = 1 /\ inputs = 1 => read.events = {R - 1}
  BY DEF MatrixRead, M
<1> DEFINE found == ShapeFound(body)
<1>5. /\ found => s.cols # 0
      /\ s.cols # 0 /\ k > 0 => found
  <2>1. found <=> Key \in ToSet(body) /\ s.cols # 0
    BY DEF ShapeFound
  <2>2. k > 0 => Key \in ToSet(body)
    <3> SUFFICES ASSUME k > 0 PROVE Key \in ToSet(body)
      OBVIOUS
    <3>1. 1 \in 1..k /\ body[1] = Key
      BY <1>1, <1>2, <1>3
    <3> HIDE DEF body
    <3> QED
      BY <1>3, <3>1 DEF ToSet
  <2> HIDE DEF body, s, found
  <2> QED
    BY <2>1, <2>2
<1>6. /\ read.nums = s.nums
      /\ ~found => read.reads = {} /\ read.events = {0}
      /\ found => /\ read.reads = {a * s.cols + c : a \in 0..(s.rows - 1), c \in 0..(s.cols - 1)}
                  /\ read.events = IF s.cols = inputs THEN {s.rows} ELSE {0, s.rows}
  <2>1. CASE ~found
    BY <2>1 DEF Streamed
  <2>2. CASE found
    BY <2>2 DEF Streamed
  <2> QED
    BY <2>1, <2>2
<1> HIDE DEF body, s, read, found
<1>16. CASE k <= 2
  <2>1. ~found /\ s.nums = 0
    BY <1>4, <1>5, <1>16
  <2>2. R * C \in Nat /\ k # Len(M)
    <3>1. R * W # 0 /\ R * C \in Nat
      BY <1>2
    <3> QED
      BY <1>1, <1>2, <1>16, <3>1
  <2> QED
    BY <1>6, <2>1, <2>2
<1> SUFFICES ASSUME k > 2
             PROVE  /\ \A n \in read.reads : n < read.nums
                    /\ read.nums <= R * C /\ read.events \subseteq 0..R
                    /\ k = Len(M) /\ C > 1 /\ inputs = C - 1 => read.events = {R}
                    /\ k = Len(M) /\ C > 1 /\ inputs = C => read.events = {0, R}
                    /\ k = Len(M) /\ C = 1 /\ inputs = 1 => read.events = {R - 1}
  BY <1>2, <1>16
<1>7. PICK r \in 0..(R - 1), o \in 1..W :
        k = r * W + o + 2 /\ s \in ScanState /\ Position(s, R, C, r, o)
  <2>1. LET a == (k - 3) \div Width(C)
            b == ((k - 3) % Width(C)) + 1
        IN  /\ a \in 0..(R - 1) /\ b \in 1..Width(C) /\ k = a * Width(C) + b + 2
            /\ s \in ScanState /\ Position(s, R, C, a, b)
    BY ScanPosition DEF M, s, body
  <2> QED
    BY <2>1 DEF W
<1>8. s.rows \in Nat /\ s.cols \in Nat /\ s.cur \in Nat /\ s.nums \in Nat
  BY <1>7, ScanFields
<1>9. /\ r * C \in Nat /\ R * C \in Nat /\ r * C + C <= R * C
      /\ (r + 1) * C = r * C + C
  BY Rows
<1> DEFINE commas == (o - 1) \div 2
           closed == IF o > 2 * C THEN r + 1 ELSE r
<1>10. commas \in 0..C /\ (o > 2 * C => commas = C) /\ closed \in Nat /\ closed <= R
  BY <1>2 DEF W, Width
<1>11. /\ s.nums = r * C + commas
       /\ s.rows = IF C > 1 \/ closed = 0 THEN closed ELSE closed - 1
       /\ s.cols = IF s.rows = 0 THEN 0 ELSE IF C > 1 THEN C - 1 ELSE 1
  BY <1>7 DEF Position
<1> HIDE DEF commas
<1>12. s.cols # 0 => s.rows * s.cols <= s.nums
  <2> SUFFICES ASSUME s.cols # 0 PROVE s.rows * s.cols <= s.nums
    OBVIOUS
  <2>1. closed * C <= s.nums
    BY <1>9, <1>10, <1>11
  <2>2. CASE C > 1
    <3>1. s.rows = closed /\ s.cols = C - 1
      BY <1>8, <1>10, <1>11, <2>2
    <3>2. closed * (C - 1) = closed * C - closed
      BY <1>10, <2>2
    <3>3. closed * C \in Nat
      BY <1>10
    <3> HIDE DEF closed
    <3> QED
      BY <1>8, <1>10, <2>1, <3>1, <3>2, <3>3
  <2>3. CASE ~(C > 1)
    <3>1. C = 1 /\ s.cols = 1 /\ s.rows <= closed
      BY <1>8, <1>10, <1>11, <2>3
    <3> HIDE DEF closed
    <3> QED
      BY <1>8, <1>10, <2>1, <3>1
  <2> QED
    BY <2>2, <2>3
<1>13. \A n \in read.reads : n < read.nums
  <2> SUFFICES ASSUME found PROVE \A n \in read.reads : n < read.nums
    BY <1>6
  <2> DEFINE rows == s.rows
             cols == s.cols
             nums == s.nums
  <2>1. rows \in Nat /\ cols \in Nat /\ nums \in Nat /\ rows * cols <= nums
    BY <1>5, <1>8, <1>12
  <2>2. read.reads = {a * cols + c : a \in 0..(rows - 1), c \in 0..(cols - 1)} /\ read.nums = nums
    BY <1>6
  <2> HIDE DEF rows, cols, nums
  <2> SUFFICES ASSUME NEW a \in 0..(rows - 1), NEW c \in 0..(cols - 1)
               PROVE  a * cols + c < nums
    BY <2>2
  <2>3. a \in Nat /\ a + 1 <= rows
    BY <2>1
  <2>4. a * cols \in Nat /\ rows * cols \in Nat /\ a * cols + cols <= rows * cols
    BY <2>1, <2>3, Rows
  <2> QED
    BY <2>1, <2>4
<1>14. s.nums <= R * C /\ s.rows <= R
  <2>1. s.nums <= R * C
    BY <1>9, <1>10, <1>11
  <2> HIDE DEF closed
  <2>2. s.rows <= R
    BY <1>10, <1>11
  <2> QED
    BY <2>1, <2>2
<1>15. k = Len(M) => /\ s.rows = IF C > 1 THEN R ELSE R - 1
                     /\ s.cols = IF s.rows = 0 THEN 0 ELSE IF C > 1 THEN C - 1 ELSE 1
  <2> SUFFICES ASSUME k = Len(M)
               PROVE  /\ s.rows = IF C > 1 THEN R ELSE R - 1
                      /\ s.cols = IF s.rows = 0 THEN 0 ELSE IF C > 1 THEN C - 1 ELSE 1
    OBVIOUS
  <2>1. r = R - 1 /\ o = W
    <3>1. r * W \in Nat /\ r * W + o = R * W
      BY <1>1, <1>2, <1>7
    <3>2. r # R - 1 => (r + 1) * W + W <= R * W /\ (r + 1) * W = r * W + W
      BY <1>2, Rows
    <3>3. r = R - 1
      BY <1>2, <3>1, <3>2
    <3>4. R * W = r * W + W
      <4>1. r + 1 = R
        BY <3>3
      <4> QED
        BY <1>2, <4>1, Rows
    <3> QED
      BY <1>2, <3>1, <3>3, <3>4
  <2>2. o > 2 * C
    BY <2>1 DEF W, Width
  <2>3. closed = R /\ R # 0
    BY <2>1, <2>2
  <2> HIDE DEF closed
  <2> QED
    BY <1>11, <2>3
<1>17. read.events \subseteq 0..R
  <2>1. 0 \in 0..R /\ s.rows \in 0..R
    BY <1>8, <1>14
  <2>2. read.events \subseteq {0, s.rows}
    BY <1>6
  <2> QED
    BY <2>1, <2>2
<1>18. k = Len(M) /\ C > 1 /\ inputs = C - 1 => read.events = {R}
  <2> SUFFICES ASSUME k = Len(M), C > 1, inputs = C - 1 PROVE read.events = {R}
    OBVIOUS
  <2>1. s.rows = R /\ s.cols = C - 1 /\ s.cols # 0
    BY <1>15
  <2> QED
    BY <1>5, <1>6, <2>1
<1>20. k = Len(M) /\ C > 1 /\ inputs = C => read.events = {0, R}
  <2> SUFFICES ASSUME k = Len(M), C > 1, inputs = C PROVE read.events = {0, R}
    OBVIOUS
  <2>1. s.rows = R /\ s.cols = C - 1 /\ s.cols # 0 /\ s.cols # inputs
    BY <1>15
  <2> QED
    BY <1>5, <1>6, <2>1
<1>19. k = Len(M) /\ C = 1 /\ inputs = 1 => read.events = {R - 1}
  <2> SUFFICES ASSUME k = Len(M), C = 1, inputs = 1 PROVE read.events = {R - 1}
    OBVIOUS
  <2>1. s.rows = R - 1 /\ s.cols = IF R - 1 = 0 THEN 0 ELSE 1
    BY <1>15
  <2> QED
    BY <1>5, <1>6, <2>1
<1> QED
  BY <1>6, <1>13, <1>14, <1>17, <1>18, <1>19, <1>20

-----------------------------------------------------------------------------
(* The counts of the metrics.  A count over the rows is the cardinality of *)
(* a set of rows, and the loop over the rows extends the set by one.       *)

\* A function that is defined by recursion over 0..n.
Recursion(n, base, step, P) == P[0] = base /\ \A k \in 1..n : P[k] = step[<<P[k - 1], k>>]

\* Such a function exists, with values in V, if the step maps V to V.
LEMMA RecursionExists ==
  ASSUME NEW n \in Nat, NEW V, NEW base \in V, NEW step \in [V \X (1..n) -> V]
  PROVE  \E P \in [0..n -> V] : Recursion(n, base, step, P)
<1>1. PICK G \in [SUBSET (1..n) -> V] : Folding(n, base, step, G)
  BY FoldExists, Zenon
<1>2. FoldingIn(V, n, base, step, G)
  BY <1>1 DEF Folding, FoldingIn
<1>3. PICK P \in [0..n -> V] : PrefixValues(n, base, step, G[1..n], P)
  BY <1>2, FoldPrefixes, Zenon
<1> QED
  BY <1>3, Zenon DEF PrefixValues, Recursion

\* A class is predicted, whatever is tied or not a number.
LEMMA PredictedClass ==
  ASSUME NEW m \in Nat, NEW p \in [0..m -> Int]
  PROVE  Predicted(p) \in 0..m
<1> DEFINE Best(g) == [j \in 0..m |-> IF j = 0 THEN 0
                                      ELSE IF Greater(p[j], p[g[j - 1]]) THEN j
                                      ELSE g[j - 1]]
           best == CHOOSE g : g = Best(g)
           step == [v \in (0..m) \X (1..m) |->
                      IF Greater(p[v[2]], p[v[1]]) THEN v[2] ELSE v[1]]
<1>1. Predicted(p) = best[m]
  <2>1. DOMAIN p = 0..m
    OBVIOUS
  <2>2. Cardinality(0..m) - 1 = m
    <3>1. Cardinality(0..m) = m + 1
      BY FS_Interval
    <3> QED
      BY <3>1
  <2> QED
    BY <2>1, <2>2 DEF Predicted
<1>2. 0 \in 0..m /\ step \in [(0..m) \X (1..m) -> 0..m]
  OBVIOUS
<1>3. \E g : g = Best(g)
  <2>1. PICK P \in [0..m -> 0..m] : Recursion(m, 0, step, P)
    <3> DEFINE V == 0..m
    <3>1. 0 \in V /\ step \in [V \X (1..m) -> V]
      BY <1>2
    <3> HIDE DEF step, V
    <3>2. \E P \in [0..m -> V] : Recursion(m, 0, step, P)
      BY <3>1, RecursionExists, Zenon
    <3> QED
      BY <3>2 DEF V
  <2>2. ASSUME NEW k \in 0..m, k # 0
        PROVE  P[k] = IF Greater(p[k], p[P[k - 1]]) THEN k ELSE P[k - 1]
    <3>1. k \in 1..m /\ k - 1 \in 0..m
      BY <2>2
    <3>2. <<P[k - 1], k>> \in (0..m) \X (1..m)
      BY <3>1
    <3> QED
      BY <2>1, <3>1, <3>2 DEF Recursion
  <2>3. P = Best(P)
    BY <2>1, <2>2 DEF Recursion
  <2> QED
    BY <2>3
<1>4. best = Best(best)
  <2> HIDE DEF Best
  <2> QED
    BY <1>3, Zenon
<1> HIDE DEF best
<1> DEFINE S == {j \in 0..m : best[j] \in 0..m}
<1>5. 0 \in S
  BY <1>4
<1>6. ASSUME NEW k \in 0..(m - 1), k \in S
      PROVE  k + 1 \in S
  <2>1. k + 1 \in 0..m /\ k + 1 # 0 /\ (k + 1) - 1 = k
    OBVIOUS
  <2>2. best[k + 1] = IF Greater(p[k + 1], p[best[k]]) THEN k + 1 ELSE best[k]
    BY <1>4, <2>1
  <2> QED
    BY <1>6, <2>1, <2>2
<1>7. m \in S
  <2> HIDE DEF S
  <2>1. 0..m \subseteq S
    BY <1>5, <1>6, IntervalInduction
  <2> QED
    BY <2>1
<1> QED
  BY <1>1, <1>7

\* Counting one row more.
LEMMA CountRow ==
  ASSUME NEW D, NEW k \in Nat
  PROVE  Cardinality(D \cap (1..(k + 1)))
           = Cardinality(D \cap (1..k)) + (IF k + 1 \in D THEN 1 ELSE 0)
<1> DEFINE A == D \cap (1..k)
           B == D \cap (1..(k + 1))
<1>1. IsFiniteSet(1..k)
  BY FS_Interval
<1>2. IsFiniteSet(A)
  BY <1>1, FS_Subset
<1>3. Cardinality(A) \in Nat
  BY <1>2, FS_CardinalityType
<1>4. k + 1 \notin A
  OBVIOUS
<1>5. CASE k + 1 \in D
  <2>1. B = A \cup {k + 1}
    BY <1>5
  <2>2. Cardinality(A \cup {k + 1}) = Cardinality(A) + 1
    BY <1>2, <1>4, FS_AddElement
  <2> QED
    BY <1>3, <1>5, <2>1, <2>2
<1>6. CASE k + 1 \notin D
  <2>1. B = A
    BY <1>6
  <2> QED
    BY <1>3, <1>6, <2>1
<1> QED
  BY <1>5, <1>6

\* How many rows of S the function g puts in each class.
ByClass(m, S, g) == [a \in 0..m |-> Cardinality({i \in S : g[i] = a})]

\* The counts of the rows of each class add up to the count of the rows.
LEMMA SumOfCounts ==
  ASSUME NEW m \in Nat, NEW S, IsFiniteSet(S), NEW g \in [S -> 0..m]
  PROVE  SumFunction(ByClass(m, S, g)) = Cardinality(S)
<1> DEFINE fun == ByClass(m, S, g)
<1>0. fun = [a \in 0..m |-> Cardinality({i \in S : g[i] = a})]
  BY DEF ByClass
<1> HIDE DEF fun
<1> DEFINE D == 0..m
           Pick(s) == CHOOSE x \in s : TRUE
           Body(h) == [s \in SUBSET D |-> IF s = {} THEN 0 ELSE fun[Pick(s)] + h[s \ {Pick(s)}]]
           iter == CHOOSE h : h = Body(h)
           Of(s) == {i \in S : g[i] \in s}
           G == [s \in SUBSET D |-> Cardinality(Of(s))]
<1>1. SumFunction(fun) = iter[D]
  <2>1. DOMAIN fun = D
    BY <1>0
  <2> QED
    BY <2>1 DEF SumFunction, SumFunctionOnSet, FoldFunctionOnSet,
       MapThenFoldSet
<1>2. \A s \in SUBSET D : s # {} => Pick(s) \in s
  OBVIOUS
<1> HIDE DEF Pick
<1>3. \A s \in SUBSET D : IsFiniteSet(Of(s)) /\ Cardinality(Of(s)) \in Nat
  BY FS_Subset, FS_CardinalityType
<1>4. ASSUME NEW s \in SUBSET D, s # {}
      PROVE  Cardinality(Of(s)) = fun[Pick(s)] + Cardinality(Of(s \ {Pick(s)}))
  <2> DEFINE x == Pick(s)
             A == {i \in S : g[i] = x}
             B == Of(s \ {x})
  <2>1. x \in s /\ x \in D
    BY <1>2, <1>4
  <2>2. Of(s) = A \cup B /\ A \cap B = {}
    BY <2>1
  <2>3. IsFiniteSet(A) /\ IsFiniteSet(B)
    BY FS_Subset
  <2>4. fun[x] = Cardinality(A)
    BY <1>0, <2>1
  <2>5. Cardinality(A \cup B) = Cardinality(A) + Cardinality(B)
    <3> HIDE DEF A, B
    <3>1. Cardinality(A \cup B) = Cardinality(A) + Cardinality(B) - Cardinality(A \cap B)
      BY <2>3, FS_Union
    <3>2. Cardinality(A \cap B) = 0
      BY <2>2, FS_EmptySet
    <3>3. Cardinality(A) \in Nat /\ Cardinality(B) \in Nat
      BY <2>3, FS_CardinalityType
    <3> QED
      BY <3>1, <3>2, <3>3
  <2> HIDE DEF A
  <2> QED
    BY <2>2, <2>4, <2>5
<1>5. Of({}) = {} /\ Of(D) = S
  OBVIOUS
<1>6. Cardinality({}) = 0
  BY FS_EmptySet
<1>7. G = Body(G)
  <2> SUFFICES ASSUME NEW s \in SUBSET D
               PROVE  Cardinality(Of(s)) = IF s = {} THEN 0 ELSE fun[Pick(s)] + G[s \ {Pick(s)}]
    OBVIOUS
  <2>1. s # {} => G[s \ {Pick(s)}] = Cardinality(Of(s \ {Pick(s)}))
    OBVIOUS
  <2> HIDE DEF Of, G
  <2> QED
    BY <1>4, <1>5, <1>6, <2>1
<1>8. iter = Body(iter)
  <2> HIDE DEF Body, G
  <2>1. \E h : h = Body(h)
    BY <1>7
  <2> QED
    BY <2>1, Zenon
<1> HIDE DEF iter, Of
<1> DEFINE T == {k \in 0..(m + 1) :
                   \A s \in SUBSET D : Cardinality(s) = k => iter[s] = Cardinality(Of(s))}
<1>9. \A s \in SUBSET D : IsFiniteSet(s)
  <2>1. IsFiniteSet(D)
    BY FS_Interval
  <2> QED
    BY <2>1, FS_Subset
<1>10. 0 \in T
  <2>1. \A s \in SUBSET D : Cardinality(s) = 0 => s = {}
    BY <1>9, FS_EmptySet
  <2>2. iter[{}] = Cardinality(Of({}))
    BY <1>5, <1>6, <1>8
  <2>3. 0 \in 0..(m + 1)
    OBVIOUS
  <2> QED
    BY <2>1, <2>2, <2>3
<1>11. ASSUME NEW k \in 0..((m + 1) - 1), k \in T
       PROVE  k + 1 \in T
  <2> SUFFICES ASSUME NEW s \in SUBSET D, Cardinality(s) = k + 1
               PROVE  iter[s] = Cardinality(Of(s))
    OBVIOUS
  <2>1. s # {}
    <3>1. k + 1 # 0
      OBVIOUS
    <3> QED
      BY <1>6, <3>1
  <2>2. Pick(s) \in s /\ s \ {Pick(s)} \in SUBSET D
    BY <1>2, <2>1
  <2>3. Cardinality(s \ {Pick(s)}) = k
    <3>1. Cardinality(s \ {Pick(s)}) = Cardinality(s) - 1
      BY <1>9, <2>2, FS_RemoveElement
    <3> QED
      BY <3>1
  <2>4. iter[s \ {Pick(s)}] = Cardinality(Of(s \ {Pick(s)}))
    BY <1>11, <2>2, <2>3
  <2>5. iter[s] = fun[Pick(s)] + iter[s \ {Pick(s)}]
    BY <1>8, <2>1
  <2> QED
    BY <1>4, <2>1, <2>4, <2>5
<1>12. m + 1 \in T
  <2> HIDE DEF T
  <2>1. 0..(m + 1) \subseteq T
    BY <1>10, <1>11, IntervalInduction
  <2> QED
    BY <2>1
<1>13. Cardinality(D) = m + 1
  BY FS_Interval
<1> QED
  BY <1>1, <1>5, <1>12, <1>13 DEF fun

\* The rows that f1_macro_micro counts for class c: predicted right, predicted but
\* wrong, and missed.
Right(n, pred, y, c)  == {i \in 1..n : pred[i] = c /\ y[i] = c}
Wrong(n, pred, y, c)  == {i \in 1..n : pred[i] = c /\ y[i] # c}
Missed(n, pred, y, c) == {i \in 1..n : pred[i] # c /\ y[i] = c}

\* How often a class was counted in each way.
Counts == [tp : Nat, fp : Nat, fn : Nat]

\* The counts of class c after k rows.
CountsAfter(n, pred, y, c, k) ==
  [tp |-> Cardinality(Right(n, pred, y, c) \cap (1..k)),
   fp |-> Cardinality(Wrong(n, pred, y, c) \cap (1..k)),
   fn |-> Cardinality(Missed(n, pred, y, c) \cap (1..k))]

\* What a row does to the counts t.
Charged(t, p, l) ==
  IF p = l THEN [t EXCEPT ![l].tp = @ + 1]
  ELSE [t EXCEPT ![p].fp = @ + 1, ![l].fn = @ + 1]

\* After it, the counts u of class c are one more where the row counts for c.
ChargedOnce(t, p, l, u, c) ==
  /\ u[c].tp = t[c].tp + (IF p = c /\ l = c THEN 1 ELSE 0)
  /\ u[c].fp = t[c].fp + (IF p = c /\ l # c THEN 1 ELSE 0)
  /\ u[c].fn = t[c].fn + (IF p # c /\ l = c THEN 1 ELSE 0)

\* A row is charged to the classes it is a row of, and to no other.
LEMMA ChargedType ==
  ASSUME NEW m \in Nat, NEW t \in [0..m -> Counts], NEW p \in 0..m, NEW l \in 0..m
  PROVE  /\ Charged(t, p, l) \in [0..m -> Counts]
         /\ \A c \in 0..m : ChargedOnce(t, p, l, Charged(t, p, l), c)
<1>1. \A c \in 0..m : t[c].tp \in Nat /\ t[c].fp \in Nat /\ t[c].fn \in Nat
  BY DEF Counts
<1>2. CASE p = l
  <2>1. Charged(t, p, l) = [t EXCEPT ![l] = [t[l] EXCEPT !.tp = t[l].tp + 1]]
    BY <1>2, Zenon DEF Charged
  <2>2. [t[l] EXCEPT !.tp = t[l].tp + 1] \in Counts
    BY <1>1 DEF Counts
  <2> QED
    BY <1>1, <1>2, <2>1, <2>2 DEF Counts, ChargedOnce
<1>3. CASE p # l
  <2> DEFINE v == [t[p] EXCEPT !.fp = t[p].fp + 1]
             w == [t[l] EXCEPT !.fn = t[l].fn + 1]
             u == [t EXCEPT ![p] = v]
  <2>1. v \in Counts /\ v.tp = t[p].tp /\ v.fp = t[p].fp + 1 /\ v.fn = t[p].fn
    BY <1>1 DEF Counts
  <2>2. w \in Counts /\ w.tp = t[l].tp /\ w.fp = t[l].fp /\ w.fn = t[l].fn + 1
    BY <1>1 DEF Counts
  <2>3. Charged(t, p, l) = [u EXCEPT ![l] = [u[l] EXCEPT !.fn = u[l].fn + 1]]
    BY <1>3, Zenon DEF Charged
  <2>4. u[l] = t[l]
    BY <1>3
  <2>5. Charged(t, p, l) = [u EXCEPT ![l] = w]
    <3> HIDE DEF u
    <3> QED
      BY <2>3, <2>4
  <2> HIDE DEF v, w
  <2> QED
    BY <1>1, <1>3, <2>1, <2>2, <2>5 DEF ChargedOnce
<1> QED
  BY <1>2, <1>3

\* The loop of f1_macro_micro counts the rows of each class.
LEMMA F1Counts ==
  ASSUME NEW m \in Nat, NEW n \in Nat \ {0},
         NEW probs \in [1..n -> [0..m -> Int]], NEW y \in [1..n -> 0..m],
         NEW pred \in [1..n -> 0..m], \A i \in 1..n : pred[i] = Predicted(probs[i])
  PROVE  \A c \in 0..m : f1_counts(probs, y)[c] = CountsAfter(n, pred, y, c, n)
<1> DEFINE V == [0..m -> Counts]
           seq == [i \in DOMAIN probs |-> i]
           start == [c \in DOMAIN probs[1] |-> Zero]
           step == [v \in V \X (1..n) |-> Charged(v[1], pred[v[2]], y[v[2]])]
           Body(g) == [s \in SUBSET DOMAIN seq |->
                         IF s = {} THEN start
                         ELSE Charged(g[s \ {Top(s)}], Predicted(probs[seq[Top(s)]]),
                                      y[seq[Top(s)]])]
           iter == CHOOSE g : g = Body(g)
<1>1. f1_counts(probs, y) = iter[DOMAIN seq]
  BY Zenon DEF f1_counts, FoldLeftDomain, FoldLeft, MapThenFoldSet,
     Max, Top, Charged
<1>2. /\ DOMAIN seq = 1..n /\ n \in Nat /\ 1 \in 1..n /\ DOMAIN probs[1] = 0..m
      /\ \A i \in 1..n : seq[i] = i
  OBVIOUS
<1>3. start \in V /\ start = [c \in 0..m |-> [tp |-> 0, fp |-> 0, fn |-> 0]]
  BY <1>2 DEF Zero, Counts
<1>4. step \in [V \X (1..n) -> V]
  <2>1. \A t \in V, i \in 1..n : Charged(t, pred[i], y[i]) \in V
    BY ChargedType
  <2> HIDE DEF V
  <2> QED
    BY <2>1
<1> HIDE DEF seq, start
<1>5. \E g : g = Body(g)
  <2>1. PICK G \in [SUBSET (1..n) -> V] : Folding(n, start, step, G)
    <3> HIDE DEF step, V
    <3> QED
      BY <1>2, <1>3, <1>4, FoldExists, Zenon
  <2>2. ASSUME NEW s \in SUBSET (1..n), s # {}
        PROVE  step[<<G[s \ {Top(s)}], Top(s)>>]
                 = Charged(G[s \ {Top(s)}], Predicted(probs[seq[Top(s)]]), y[seq[Top(s)]])
    <3>1. Top(s) \in 1..n /\ s \ {Top(s)} \in SUBSET (1..n)
      BY <1>2, <2>2, TopIn
    <3> HIDE DEF V
    <3>2. <<G[s \ {Top(s)}], Top(s)>> \in V \X (1..n)
      BY <3>1
    <3> QED
      BY <1>2, <3>1, <3>2
  <2>3. G = Body(G)
    <3> HIDE DEF V, step
    <3>1. \A s \in SUBSET (1..n) :
            G[s] = IF s = {} THEN start
                   ELSE Charged(G[s \ {Top(s)}], Predicted(probs[seq[Top(s)]]), y[seq[Top(s)]])
      BY <2>1, <2>2, Zenon DEF Folding
    <3> QED
      BY <1>2, <3>1
  <2> QED
    BY <2>3
<1>6. iter = Body(iter)
  <2> HIDE DEF Body
  <2> QED
    BY <1>5, Zenon
<1> HIDE DEF iter
<1>7. FoldingIn(V, n, start, step, iter)
  <2>1. /\ iter[{}] = start
        /\ \A s \in SUBSET (1..n) :
             s # {} => iter[s] = Charged(iter[s \ {Top(s)}],
                                         Predicted(probs[seq[Top(s)]]), y[seq[Top(s)]])
    BY <1>2, <1>6
  <2>2. \A s \in SUBSET (1..n) : s # {} => Top(s) \in 1..n
    BY <1>2, TopIn
  <2> HIDE DEF V
  <2>3. \A t \in V, i \in 1..n : step[<<t, i>>] = Charged(t, Predicted(probs[seq[i]]), y[seq[i]])
    BY <1>2
  <2> HIDE DEF step
  <2> QED
    BY <2>1, <2>2, <2>3 DEF FoldingIn
<1>8. PICK P \in [0..n -> V] : PrefixValues(n, start, step, iter[1..n], P)
  <2> HIDE DEF step, V
  <2> QED
    BY <1>2, <1>3, <1>4, <1>7, FoldPrefixes, Zenon
<1>9. P[0] = start /\ P[n] = iter[1..n]
      /\ \A k \in 1..n : P[k - 1] \in V /\ P[k] = Charged(P[k - 1], pred[k], y[k])
  <2>1. \A k \in 1..n : k - 1 \in 0..n
    BY <1>2
  <2> HIDE DEF V
  <2> QED
    BY <1>8, <2>1 DEF PrefixValues
<1> DEFINE S == {k \in 0..n : \A c \in 0..m : P[k][c] = CountsAfter(n, pred, y, c, k)}
<1>10. 0 \in S
  <2>1. 1..0 = {} /\ 0 \in 0..n
    OBVIOUS
  <2>2. \A c \in 0..m : CountsAfter(n, pred, y, c, 0) = [tp |-> 0, fp |-> 0, fn |-> 0]
    BY <2>1, FS_EmptySet DEF CountsAfter
  <2> QED
    BY <1>3, <1>9, <2>1, <2>2
<1>11. ASSUME NEW k \in 0..(n - 1), k \in S
       PROVE  k + 1 \in S
  <2>1. k + 1 \in 1..n /\ (k + 1) - 1 = k /\ k + 1 \in 0..n /\ k + 1 \in Nat /\ k + 1 > 0
    BY <1>2
  <2>2. P[k] \in V /\ P[k + 1] = Charged(P[k], pred[k + 1], y[k + 1])
    BY <1>9, <2>1
  <2> SUFFICES ASSUME NEW c \in 0..m
               PROVE  P[k + 1][c] = CountsAfter(n, pred, y, c, k + 1)
    BY <2>1
  <2>3. P[k][c] = CountsAfter(n, pred, y, c, k)
    BY <1>11
  <2> DEFINE A == Right(n, pred, y, c)
             B == Wrong(n, pred, y, c)
             D == Missed(n, pred, y, c)
             q == P[k + 1][c]
             p == pred[k + 1]
             l == y[k + 1]
  <2>4. /\ P[k + 1] \in V
        /\ q.tp = P[k][c].tp + (IF p = c /\ l = c THEN 1 ELSE 0)
        /\ q.fp = P[k][c].fp + (IF p = c /\ l # c THEN 1 ELSE 0)
        /\ q.fn = P[k][c].fn + (IF p # c /\ l = c THEN 1 ELSE 0)
    <3> DEFINE t == P[k]
    <3>1. t \in [0..m -> Counts] /\ p \in 0..m /\ l \in 0..m /\ P[k + 1] = Charged(t, p, l)
      BY <2>1, <2>2
    <3> HIDE DEF t, p, l
    <3>2. /\ Charged(t, p, l) \in [0..m -> Counts]
          /\ \A d \in 0..m : ChargedOnce(t, p, l, Charged(t, p, l), d)
      BY <3>1, ChargedType, Zenon
    <3>3. ChargedOnce(t, p, l, P[k + 1], c)
      BY <3>1, <3>2
    <3> QED
      BY <3>1, <3>2, <3>3 DEF t, ChargedOnce
  <2>5. /\ P[k][c].tp = Cardinality(A \cap (1..k))
        /\ P[k][c].fp = Cardinality(B \cap (1..k))
        /\ P[k][c].fn = Cardinality(D \cap (1..k))
    BY <2>3 DEF CountsAfter
  <2>6. /\ k + 1 \in A <=> p = c /\ l = c
        /\ k + 1 \in B <=> p = c /\ l # c
        /\ k + 1 \in D <=> p # c /\ l = c
    BY <2>1 DEF Right, Wrong, Missed
  <2>7. q \in Counts
    BY <2>4
  <2> HIDE DEF A, B, D, q, p, l, V
  <2>8. /\ Cardinality(A \cap (1..(k + 1))) = Cardinality(A \cap (1..k)) + (IF k + 1 \in A THEN 1 ELSE 0)
        /\ Cardinality(B \cap (1..(k + 1))) = Cardinality(B \cap (1..k)) + (IF k + 1 \in B THEN 1 ELSE 0)
        /\ Cardinality(D \cap (1..(k + 1))) = Cardinality(D \cap (1..k)) + (IF k + 1 \in D THEN 1 ELSE 0)
    <3>1. k \in Nat
      OBVIOUS
    <3> QED
      BY <3>1, CountRow
  <2>9. /\ q.tp = Cardinality(A \cap (1..(k + 1)))
        /\ q.fp = Cardinality(B \cap (1..(k + 1)))
        /\ q.fn = Cardinality(D \cap (1..(k + 1)))
    BY <2>4, <2>5, <2>6, <2>8
  <2>10. q = [tp |-> q.tp, fp |-> q.fp, fn |-> q.fn]
    BY <2>7 DEF Counts
  <2> QED
    BY <2>9, <2>10 DEF CountsAfter, A, B, D, q
<1>12. n \in S
  <2> HIDE DEF S
  <2>1. 0..n \subseteq S
    BY <1>2, <1>10, <1>11, IntervalInduction
  <2> QED
    BY <1>2, <2>1
<1>13. f1_counts(probs, y) = P[n]
  BY <1>1, <1>2, <1>9
<1>14. \A c \in 0..m : P[n][c] = CountsAfter(n, pred, y, c, n)
  BY <1>12
<1> QED
  BY <1>13, <1>14

\* The rows that g puts in class c, and those of an entry of the confusion matrix.
OfClass(n, g, c) == {i \in 1..n : g[i] = c}
Entry(n, pred, y, a, b) == {i \in 1..n : y[i] = a /\ pred[i] = b}

\* The rows predicted right.
Hits(n, pred, y) == {i \in 1..n : pred[i] = y[i]}

\* The counts of class c over all rows.
Tally(n, pred, y, c) == [tp |-> Cardinality(Right(n, pred, y, c)),
                         fp |-> Cardinality(Wrong(n, pred, y, c)),
                         fn |-> Cardinality(Missed(n, pred, y, c))]

\* Right and wrong rows of a class are those predicted so, right and missed ones those
\* labelled so.
LEMMA KindsOfRows ==
  ASSUME NEW n \in Nat, NEW pred, NEW y, NEW c
  PROVE  /\ Tally(n, pred, y, c).tp + Tally(n, pred, y, c).fp = Cardinality(OfClass(n, pred, c))
         /\ Tally(n, pred, y, c).tp + Tally(n, pred, y, c).fn = Cardinality(OfClass(n, y, c))
<1> DEFINE A == Right(n, pred, y, c)
           B == Wrong(n, pred, y, c)
           D == Missed(n, pred, y, c)
<1>1. IsFiniteSet(1..n)
  BY FS_Interval
<1>2. IsFiniteSet(A) /\ IsFiniteSet(B) /\ IsFiniteSet(D)
  <2>1. A \subseteq 1..n /\ B \subseteq 1..n /\ D \subseteq 1..n
    BY DEF Right, Wrong, Missed
  <2> HIDE DEF A, B, D
  <2> QED
    BY <1>1, <2>1, FS_Subset
<1>3. A \cap B = {} /\ A \cap D = {}
  BY DEF Right, Wrong, Missed
<1>4. A \cup B = OfClass(n, pred, c) /\ A \cup D = OfClass(n, y, c)
  BY DEF Right, Wrong, Missed, OfClass
<1>5. /\ Tally(n, pred, y, c).tp = Cardinality(A) /\ Tally(n, pred, y, c).fp = Cardinality(B)
      /\ Tally(n, pred, y, c).fn = Cardinality(D)
  BY DEF Tally
<1> HIDE DEF A, B, D
<1>6. Cardinality(A) \in Nat /\ Cardinality(B) \in Nat /\ Cardinality(D) \in Nat
  BY <1>2, FS_CardinalityType
<1>7. Cardinality({}) = 0
  BY FS_EmptySet
<1>8. Cardinality(A \cup B) = Cardinality(A) + Cardinality(B) - Cardinality(A \cap B)
  BY <1>2, FS_Union
<1>9. Cardinality(A \cup D) = Cardinality(A) + Cardinality(D) - Cardinality(A \cap D)
  BY <1>2, FS_Union
<1>10. /\ Cardinality(A \cup B) = Cardinality(A) + Cardinality(B)
       /\ Cardinality(A \cup D) = Cardinality(A) + Cardinality(D)
  <2>1. Cardinality(A \cap B) = 0 /\ Cardinality(A \cap D) = 0
    BY <1>3, <1>7, Zenon
  <2>2. Cardinality(A \cup B) = Cardinality(A) + Cardinality(B)
    BY <1>6, <1>8, <2>1
  <2>3. Cardinality(A \cup D) = Cardinality(A) + Cardinality(D)
    BY <1>6, <1>9, <2>1
  <2> QED
    BY <2>2, <2>3
<1> QED
  BY <1>4, <1>5, <1>10, Zenon

\* What f1_macro_micro has counted when it has seen every row.
LEMMA F1Rows ==
  ASSUME NEW m \in Nat, NEW n \in Nat \ {0},
         NEW probs \in [1..n -> [0..m -> Int]], NEW y \in [1..n -> 0..m],
         NEW pred \in [1..n -> 0..m], \A i \in 1..n : pred[i] = Predicted(probs[i]),
         NEW c \in 0..m
  PROVE  f1_counts(probs, y)[c] = Tally(n, pred, y, c)
<1>1. f1_counts(probs, y)[c] = CountsAfter(n, pred, y, c, n)
  BY F1Counts, Zenon
<1>2. /\ Right(n, pred, y, c) \cap (1..n) = Right(n, pred, y, c)
      /\ Wrong(n, pred, y, c) \cap (1..n) = Wrong(n, pred, y, c)
      /\ Missed(n, pred, y, c) \cap (1..n) = Missed(n, pred, y, c)
  BY DEF Right, Wrong, Missed
<1> QED
  BY <1>1, <1>2 DEF CountsAfter, Tally

\* What precision and recall, the confusion matrix and the accuracy count.
LEMMA RowsCounted ==
  ASSUME NEW m \in Nat, NEW n \in Nat \ {0},
         NEW probs \in [1..n -> [0..m -> Int]], NEW y \in [1..n -> 0..m],
         NEW pred \in [1..n -> 0..m], \A i \in 1..n : pred[i] = Predicted(probs[i])
  PROVE  /\ \A c \in 0..m : precision_recall(probs, y, c) = Tally(n, pred, y, c)
         /\ \A a, b \in 0..m : confusion(probs, y)[a][b] = Cardinality(Entry(n, pred, y, a, b))
         /\ correct(probs, y) = Cardinality(Hits(n, pred, y))
<1>1. DOMAIN probs = 1..n /\ 1 \in 1..n /\ DOMAIN probs[1] = 0..m
  OBVIOUS
<1>2. ASSUME NEW c \in 0..m
      PROVE  precision_recall(probs, y, c) = Tally(n, pred, y, c)
  <2>1. /\ Right(n, pred, y, c) = {i \in DOMAIN probs : Predicted(probs[i]) = c /\ y[i] = c}
        /\ Wrong(n, pred, y, c) = {i \in DOMAIN probs : Predicted(probs[i]) = c /\ y[i] # c}
        /\ Missed(n, pred, y, c) = {i \in DOMAIN probs : Predicted(probs[i]) # c /\ y[i] = c}
    BY <1>1 DEF Right, Wrong, Missed
  <2> QED
    BY <2>1, Zenon DEF precision_recall, Count, Tally
<1>3. ASSUME NEW a \in 0..m, NEW b \in 0..m
      PROVE  confusion(probs, y)[a][b] = Cardinality(Entry(n, pred, y, a, b))
  <2>1. Entry(n, pred, y, a, b)
          = {i \in DOMAIN probs : y[i] = a /\ Predicted(probs[i]) = b}
    BY <1>1 DEF Entry
  <2>2. confusion(probs, y)[a][b]
          = Cardinality({i \in DOMAIN probs : y[i] = a /\ Predicted(probs[i]) = b})
    BY <1>1 DEF confusion, Count
  <2> QED
    BY <2>1, <2>2
<1>4. correct(probs, y) = Cardinality(Hits(n, pred, y))
  <2>1. Hits(n, pred, y) = {i \in DOMAIN probs : Predicted(probs[i]) = y[i]}
    BY <1>1 DEF Hits
  <2> QED
    BY <2>1, Zenon DEF correct, Count
<1> QED
  BY <1>2, <1>3, <1>4

\* The rows of a set, by the class that g gives them, add up to the set.
LEMMA SumOverClasses ==
  ASSUME NEW m \in Nat, NEW n \in Nat, NEW S \in SUBSET (1..n), NEW g \in [1..n -> 0..m]
  PROVE  SumFunction(ByClass(m, S, g)) = Cardinality(S)
<1> DEFINE h == [i \in S |-> g[i]]
<1>1. IsFiniteSet(S)
  <2>1. IsFiniteSet(1..n)
    BY FS_Interval
  <2> QED
    BY <2>1, FS_Subset
<1>2. h \in [S -> 0..m]
  OBVIOUS
<1>3. ByClass(m, S, g) = ByClass(m, S, h)
  <2>1. \A a \in 0..m : {i \in S : g[i] = a} = {i \in S : h[i] = a}
    OBVIOUS
  <2> HIDE DEF h
  <2> QED
    BY <2>1 DEF ByClass
<1> HIDE DEF h
<1>4. SumFunction(ByClass(m, S, h)) = Cardinality(S)
  BY <1>1, <1>2, SumOfCounts, Zenon
<1> QED
  BY <1>3, <1>4

\* The metrics of rows and labels cannot contradict each other.
LEMMA CountsAgreeAlways ==
  ASSUME NEW m \in Nat, NEW n \in Nat \ {0},
         NEW probs \in [1..n -> [0..m -> Int]], NEW y \in [1..n -> 0..m]
  PROVE  SameCounts(probs, y)
<1> DEFINE pred == [i \in 1..n |-> Predicted(probs[i])]
           f1 == f1_counts(probs, y)
           cm == confusion(probs, y)
           H == Hits(n, pred, y)
<1>1. pred \in [1..n -> 0..m] /\ \A i \in 1..n : pred[i] = Predicted(probs[i])
  BY PredictedClass
<1>2. DOMAIN probs[1] = 0..m /\ Len(probs) = n /\ n \in Nat
  OBVIOUS
<1> HIDE DEF pred
<1>3. \A c \in 0..m : f1[c] = Tally(n, pred, y, c)
  BY <1>1, F1Rows, Zenon
<1>4. /\ \A c \in 0..m : f1[c] = precision_recall(probs, y, c)
      /\ \A a, b \in 0..m : cm[a][b] = Cardinality(Entry(n, pred, y, a, b))
      /\ correct(probs, y) = Cardinality(H)
  <2>1. /\ \A c \in 0..m : precision_recall(probs, y, c) = Tally(n, pred, y, c)
        /\ \A a, b \in 0..m : cm[a][b] = Cardinality(Entry(n, pred, y, a, b))
        /\ correct(probs, y) = Cardinality(H)
    BY <1>1, RowsCounted, Zenon
  <2> QED
    BY <1>3, <2>1, Zenon
<1> HIDE DEF f1, cm
<1>5. \A c \in 0..m : /\ f1[c].tp + f1[c].fp = Cardinality(OfClass(n, pred, c))
                      /\ f1[c].tp + f1[c].fn = Cardinality(OfClass(n, y, c))
  <2>1. \A c \in 0..m :
           /\ Tally(n, pred, y, c).tp + Tally(n, pred, y, c).fp = Cardinality(OfClass(n, pred, c))
           /\ Tally(n, pred, y, c).tp + Tally(n, pred, y, c).fn = Cardinality(OfClass(n, y, c))
    BY <1>2, KindsOfRows
  <2> QED
    BY <1>3, <2>1, Zenon
<1>6. \A c \in 0..m : f1[c].tp = Cardinality(Right(n, pred, y, c))
  <2>1. \A c \in 0..m : Tally(n, pred, y, c).tp = Cardinality(Right(n, pred, y, c))
    BY DEF Tally
  <2> QED
    BY <1>3, <2>1, Zenon
<1>7. \A c \in 0..m : f1[c].tp = cm[c][c]
  <2>1. \A c \in 0..m : Right(n, pred, y, c) = Entry(n, pred, y, c, c)
    BY DEF Right, Entry
  <2> QED
    BY <1>4, <1>6, <2>1, Zenon
<1>8. ASSUME NEW c \in 0..m
      PROVE  f1[c].tp + f1[c].fp = SumFunction([a \in 0..m |-> cm[a][c]])
  <2> DEFINE S == OfClass(n, pred, c)
  <2>1. S \in SUBSET (1..n) /\ \A a \in 0..m : Entry(n, pred, y, a, c) = {i \in S : y[i] = a}
    BY DEF OfClass, Entry
  <2> HIDE DEF S
  <2>2. \A a \in 0..m : cm[a][c] = Cardinality({i \in S : y[i] = a})
    BY <1>4, <2>1, Zenon
  <2>3. [a \in 0..m |-> cm[a][c]] = ByClass(m, S, y)
    BY <2>2 DEF ByClass
  <2>4. SumFunction(ByClass(m, S, y)) = Cardinality(S)
    BY <1>2, <2>1, SumOverClasses, Zenon
  <2> QED
    BY <1>5, <2>3, <2>4 DEF S
<1>9. ASSUME NEW c \in 0..m
      PROVE  f1[c].tp + f1[c].fn = SumFunction([b \in 0..m |-> cm[c][b]])
  <2> DEFINE S == OfClass(n, y, c)
  <2>1. S \in SUBSET (1..n) /\ \A b \in 0..m : Entry(n, pred, y, c, b) = {i \in S : pred[i] = b}
    BY DEF OfClass, Entry
  <2> HIDE DEF S
  <2>2. \A b \in 0..m : cm[c][b] = Cardinality({i \in S : pred[i] = b})
    BY <1>4, <2>1, Zenon
  <2>3. [b \in 0..m |-> cm[c][b]] = ByClass(m, S, pred)
    BY <2>2 DEF ByClass
  <2>4. SumFunction(ByClass(m, S, pred)) = Cardinality(S)
    BY <1>1, <1>2, <2>1, SumOverClasses, Zenon
  <2> QED
    BY <1>5, <2>3, <2>4 DEF S
<1>10. SumFunction([c \in 0..m |-> f1[c].tp]) = correct(probs, y)
  <2>1. H \in SUBSET (1..n) /\ \A c \in 0..m : Right(n, pred, y, c) = {i \in H : y[i] = c}
    BY DEF Right, Hits
  <2> HIDE DEF H
  <2>2. \A c \in 0..m : f1[c].tp = Cardinality({i \in H : y[i] = c})
    BY <1>6, <2>1, Zenon
  <2>3. [c \in 0..m |-> f1[c].tp] = ByClass(m, H, y)
    BY <2>2 DEF ByClass
  <2>4. SumFunction(ByClass(m, H, y)) = Cardinality(H)
    BY <1>2, <2>1, SumOverClasses, Zenon
  <2> QED
    BY <1>4, <2>3, <2>4 DEF H
<1>11. SumFunction([c \in 0..m |-> f1[c].tp + f1[c].fp]) = Len(probs)
  <2>1. [c \in 0..m |-> f1[c].tp + f1[c].fp] = ByClass(m, 1..n, pred)
    BY <1>5 DEF ByClass, OfClass
  <2>2. Cardinality(1..n) = n
    BY <1>2, FS_Interval
  <2>3. SumFunction(ByClass(m, 1..n, pred)) = Cardinality(1..n)
    <3> DEFINE S == 1..n
    <3>1. S \in SUBSET (1..n)
      OBVIOUS
    <3> HIDE DEF S
    <3>2. SumFunction(ByClass(m, S, pred)) = Cardinality(S)
      BY <1>1, <1>2, <3>1, SumOverClasses, Zenon
    <3> QED
      BY <3>2 DEF S
  <2> QED
    BY <1>2, <2>1, <2>2, <2>3
<1> QED
  BY <1>2, <1>4, <1>7, <1>8, <1>9, <1>10, <1>11, Zenon DEF SameCounts, f1, cm

-----------------------------------------------------------------------------
(* Bundle files.  A field is read at its place in the order of Names, and  *)
(* the loaders differ in the place they start from and how far they go.    *)

\* The names of the fields, one by one.
LEMMA NamesAt ==
  /\ Names[1] = "act" /\ Names[2] = "in" /\ Names[3] = "hidden"
  /\ Names[4] = "out" /\ Names[5] = "W1" /\ Names[6] = "b1"
  /\ Names[7] = "W2" /\ Names[8] = "b2" /\ Names[9] = "temp"
  /\ Names[10] = "has" /\ Names[11] = "n" /\ Names[12] = "mean" /\ Names[13] = "stdv"
  /\ DOMAIN Names = 1..13 /\ Len(Names) = 13
BY DEF Names

\* A name has one place, and "magic" is not one.
LEMMA NamesApart ==
  /\ \A i, j \in 1..13 : Names[i] = Names[j] => i = j
  /\ \A i \in 1..13 : Names[i] # "magic"
<1>1. \A i \in 1..13 : \/ i = 1 \/ i = 2 \/ i = 3 \/ i = 4 \/ i = 5 \/ i = 6
                       \/ i = 7 \/ i = 8 \/ i = 9 \/ i = 10 \/ i = 11 \/ i = 12 \/ i = 13
  OBVIOUS
<1> QED
  BY <1>1, NamesAt

\* A record has the fields of Names.
LEMMA FieldsNamed ==
  /\ Fields = {Names[i] : i \in 1..13}
  /\ \A i \in 1..13 : Names[i] \in Fields
<1>1. Fields = {Names[i] : i \in 1..13}
  BY NamesAt DEF Fields, ToSet
<1> QED
  BY <1>1

\* The parts of a file are intervals of Names.
LEMMA PartsNamed ==
  /\ Header = [i \in 1..10 |-> Names[i]]
  /\ Model = [i \in 1..7 |-> Names[i + 1]]
  /\ Scaler = [i \in 1..3 |-> Names[i + 10]]
  /\ Names = [i \in 1..13 |-> Names[i]]
  /\ Len(Header) = 10 /\ Len(Model) = 7 /\ Len(Scaler) = 3
<1>1. Names \in Seq(Fields)
  <2>1. Names = [i \in 1..13 |-> Names[i]]
    BY NamesAt DEF Names
  <2>2. [i \in 1..13 |-> Names[i]] \in [1..13 -> Fields]
    BY FieldsNamed
  <2> QED
    BY <2>1, <2>2
<1>2. Len(Names) = 13
  BY NamesAt
<1> QED
  BY <1>1, <1>2 DEF Header, Model, Scaler

\* The fields that are read from place s + 1 on, k of them.
Named(s, k) == [i \in 1..k |-> Names[i + s]]

\* What is read at place j, of such a file.
ReadAt(b, file, s, k, j) ==
  IF j - s \in 1..k /\ j - s <= Len(file) THEN file[j - s].value ELSE b[Names[j]]

\* Each field gets what the file has at its place, if it is read that far.
LEMMA FieldsRead ==
  ASSUME NEW b, NEW file, Len(file) \in Nat, NEW k \in Nat, NEW s \in Nat, k + s <= 13
  PROVE  /\ DOMAIN ReadFields(b, file, Named(s, k)) = Fields
         /\ \A j \in 1..13 :
              ReadFields(b, file, Named(s, k))[Names[j]] = ReadAt(b, file, s, k, j)
<1> DEFINE names == Named(s, k)
<1>1. DOMAIN ReadFields(b, file, names) = Fields
  BY DEF ReadFields
<1>2. Len(names) = k /\ \A i \in 1..k : names[i] = Names[i + s] /\ i + s \in 1..13
  BY DEF Named
<1> HIDE DEF names
<1>3. ASSUME NEW j \in 1..13
      PROVE  ReadFields(b, file, names)[Names[j]] = ReadAt(b, file, s, k, j)
  <2> DEFINE I == {i \in 1..Len(names) : names[i] = Names[j]}
             at == IF I # {} THEN Min(I) ELSE 0
  <2>1. ReadFields(b, file, names)[Names[j]]
          = IF at # 0 /\ at <= Len(file) THEN file[at].value ELSE b[Names[j]]
    BY FieldsNamed DEF ReadFields, SelectInSeq
  <2>2. ASSUME NEW i \in 1..k
        PROVE  names[i] = Names[j] <=> i = j - s
    <3>1. names[i] = Names[i + s] /\ i + s \in 1..13
      BY <1>2
    <3>2. Names[i + s] = Names[j] <=> i + s = j
      BY <3>1, NamesApart
    <3>3. i + s = j <=> i = j - s
      OBVIOUS
    <3> QED
      BY <3>1, <3>2, <3>3
  <2>3. CASE j - s \in 1..k
    <3>1. I = {j - s}
      BY <1>2, <2>2, <2>3
    <3>2. Min({j - s}) = j - s
      <4> DEFINE v == j - s
      <4>1. v \in Int /\ v \in {v} /\ \A y \in {v} : v =< y
        OBVIOUS
      <4> HIDE DEF v
      <4>2. Min({v}) = v
        BY <4>1 DEF Min
      <4> QED
        BY <4>2 DEF v
    <3>3. at = j - s /\ at # 0
      <4>1. {j - s} # {} /\ j - s # 0
        BY <2>3
      <4> HIDE DEF I
      <4> QED
        BY <3>1, <3>2, <4>1
    <3> QED
      BY <2>1, <2>3, <3>3 DEF ReadAt
  <2>4. CASE j - s \notin 1..k
    <3>1. I = {}
      BY <1>2, <2>2, <2>4
    <3>2. at = 0
      BY <3>1
    <3> QED
      BY <2>1, <2>4, <3>2 DEF ReadAt
  <2> QED
    BY <2>3, <2>4
<1> QED
  BY <1>1, <1>3 DEF names

\* A bundle that a program has: a scaler that is not there is as it was constructed.
ABundle(b) == Bundle(b) = b /\ b["has"] \in {"0", "1"}

\* The number of fields that are saved of b.
Saved(b) == IF b["has"] = "1" THEN 13 ELSE 10

\* What a bundle has for the fields that are not saved.
LEMMA NotSaved ==
  ASSUME NEW b, ABundle(b)
  PROVE  /\ DOMAIN b = Fields /\ DOMAIN Default = Fields
         /\ \A j \in 1..13 : j > Saved(b) => b[Names[j]] = Default[Names[j]]
         /\ Default["has"] = "0" /\ Saved(b) \in {10, 13}
         /\ Saved(b) = 13 <=> b["has"] = "1"
<1>1. DOMAIN b = Fields /\ DOMAIN Default = Fields
  <2>1. DOMAIN Bundle(b) = Fields
    BY DEF Bundle
  <2> QED
    BY <2>1 DEF ABundle, Default
<1>2. "has" \in Fields /\ "has" = Names[10]
  BY NamesAt, FieldsNamed
<1>3. Default["has"] = "0"
  BY <1>2 DEF Default
<1>4. ASSUME NEW j \in 1..13, j > Saved(b)
      PROVE  b[Names[j]] = Default[Names[j]]
  <2>1. j \in {11, 12, 13} /\ b["has"] = "0"
    BY <1>4 DEF Saved, ABundle
  <2>2. Names[j] \in ToSet(Scaler)
    <3>1. j - 10 \in 1..3 /\ (j - 10) + 10 = j
      BY <2>1
    <3>2. DOMAIN Scaler = 1..3 /\ Scaler[j - 10] = Names[j]
      BY <3>1, PartsNamed
    <3> QED
      BY <3>1, <3>2 DEF ToSet
  <2>3. Names[j] \in Fields /\ Names[j] # "has"
    BY <1>2, <2>1, FieldsNamed, NamesApart
  <2>4. Bundle(b)[Names[j]] = "default"
    BY <2>1, <2>2, <2>3 DEF Bundle
  <2>5. Default[Names[j]] = "default"
    BY <2>3 DEF Default
  <2> QED
    BY <2>4, <2>5 DEF ABundle
<1> QED
  BY <1>1, <1>3, <1>4 DEF Saved

\* What the scaler and the rest have before a file that ends at place l is read.
Before(l) == IF l > 10 THEN Sized(Default) ELSE Default

\* What is loaded at place j of a file that has k fields of b and ends at place l.
After(b, k, l, j) ==
  IF j <= k THEN b[Names[j]]
  ELSE IF j <= l THEN Part ELSE Before(l)[Names[j]]

\* A file of b behind the magic, with k fields and perhaps a part of the next.
FileOf(b, k, file) ==
  /\ Len(file) \in {k, k + 1} /\ Len(file) <= Saved(b)
  /\ \A j \in 1..k : file[j].value = b[Names[j]]
  /\ Len(file) = k + 1 => file[k + 1].value = Part

\* Behind the magic: the scaler is read just if its flag was.
LEMMA BodyRead ==
  ASSUME NEW b, ABundle(b), NEW k \in 0..Saved(b), NEW file, FileOf(b, k, file)
  PROVE  /\ DOMAIN ReadBody(Default, file) = Fields
         /\ \A j \in 1..13 :
              ReadBody(Default, file)[Names[j]] = After(b, k, Len(file), j)
<1> USE DEF FileOf
<1> DEFINE m == ReadFields(Default, file, Named(0, 10))
           base == IF HasSize(file) THEN Sized(Default) ELSE Default
           w == ReadFields(base, file, Named(0, 13))
<1>1. Saved(b) \in {10, 13} /\ (Saved(b) = 13 <=> b["has"] = "1") /\ Default["has"] = "0"
  BY NotSaved
<1>2. Header = Named(0, 10) /\ Names = Named(0, 13)
  BY PartsNamed DEF Named
<1>3. ReadBody(Default, file) = IF m["has"] = "1" THEN w ELSE m
  BY <1>2, Zenon DEF ReadBody
<1>4. Len(file) \in Nat /\ k \in Nat /\ k <= 13
  BY <1>1
<1>5. /\ DOMAIN m = Fields /\ DOMAIN w = Fields
      /\ \A j \in 1..13 : /\ m[Names[j]] = ReadAt(Default, file, 0, 10, j)
                          /\ w[Names[j]] = ReadAt(base, file, 0, 13, j)
  <2>1. 10 \in Nat /\ 13 \in Nat /\ 0 \in Nat /\ 10 + 0 <= 13 /\ 13 + 0 <= 13
    OBVIOUS
  <2> QED
    BY <1>4, <2>1, FieldsRead
<1>10. base = Before(Len(file))
  BY PartsNamed, Zenon DEF HasSize, Before
<1> HIDE DEF m, w, base
<1>6. \A j \in 1..13 : j <= Len(file) => file[j].value = After(b, k, Len(file), j)
  <2> SUFFICES ASSUME NEW j \in 1..13, j <= Len(file)
               PROVE  file[j].value = After(b, k, Len(file), j)
    OBVIOUS
  <2>1. j <= k \/ (j = k + 1 /\ Len(file) = k + 1)
    BY <1>4
  <2> QED
    BY <1>4, <2>1 DEF After
<1>7. \A j \in 1..13 : ~(j <= Len(file)) => base[Names[j]] = After(b, k, Len(file), j)
  BY <1>4, <1>10 DEF After
<1>8. m["has"] = "1" <=> k >= 10 /\ b["has"] = "1"
  <2>1. 10 \in 1..13 /\ 10 - 0 = 10 /\ 10 \in 1..10
    OBVIOUS
  <2>2. m["has"] = IF 10 <= Len(file) THEN file[10].value ELSE Default["has"]
    BY <1>5, <2>1, NamesAt DEF ReadAt
  <2>3. m["has"] = After(b, k, Len(file), 10)
    <3>1. ~(10 <= Len(file)) => base = Default
      BY <1>4, <1>10 DEF Before
    <3> QED
      BY <1>6, <1>7, <2>1, <2>2, <3>1, NamesAt
  <2>4. Part # "1" /\ Default["has"] # "1"
    BY <1>1 DEF Part
  <2> QED
    <3>1. ~(10 <= Len(file)) => Before(Len(file)) = Default
      BY <1>4 DEF Before
    <3> QED
      BY <1>4, <2>3, <2>4, <3>1, NamesAt DEF After
<1>9. ASSUME NEW j \in 1..13
      PROVE  (IF m["has"] = "1" THEN w ELSE m)[Names[j]] = After(b, k, Len(file), j)
  <2>1. j - 0 = j /\ j \in 1..13
    OBVIOUS
  <2>2. CASE m["has"] = "1"
    <3>1. w[Names[j]] = IF j <= Len(file) THEN file[j].value ELSE base[Names[j]]
      BY <1>5, <2>1 DEF ReadAt
    <3> QED
      BY <1>6, <1>7, <2>2, <3>1
  <2>3. CASE m["has"] # "1"
    <3>1. Len(file) <= 10
      BY <1>1, <1>4, <1>8, <2>3
    <3>2. j <= Len(file) => j \in 1..10
      BY <1>4, <3>1
    <3>3. m[Names[j]] = IF j <= Len(file) THEN file[j].value ELSE Default[Names[j]]
      BY <1>5, <2>1, <3>2 DEF ReadAt
    <3>4. base = Default
      BY <1>4, <1>10, <3>1 DEF Before
    <3> QED
      BY <1>6, <1>7, <2>3, <3>3, <3>4
  <2> QED
    BY <2>2, <2>3
<1> QED
  BY <1>3, <1>5, <1>9

\* The records of a file of b, whole or cut.
Records(b) == [field : Fields \cup {"magic"},
               value : {b[f] : f \in Fields} \cup {"NWX3", Part}]

\* What is written of the fields of b from a place on.
LEMMA WriteType ==
  ASSUME NEW b, NEW s \in Nat, NEW k \in Nat, k + s <= 13
  PROVE  /\ Write(b, Named(s, k)) \in Seq(Records(b)) /\ Len(Write(b, Named(s, k))) = k
         /\ \A j \in 1..k : Write(b, Named(s, k))[j]
                              = Record(Names[j + s], b[Names[j + s]])
<1>1. Write(b, Named(s, k)) = [j \in 1..k |-> Record(Names[j + s], b[Names[j + s]])]
  BY DEF Write, Named
<1>2. \A j \in 1..k : Record(Names[j + s], b[Names[j + s]]) \in Records(b)
  <2>1. \A j \in 1..k : j + s \in 1..13
    OBVIOUS
  <2> QED
    BY <2>1, FieldsNamed DEF Record, Records
<1> QED
  BY <1>1, <1>2

\* What a concatenation has where.
Joined(s, t, V) ==
  /\ s \o t \in Seq(V) /\ Len(s \o t) = Len(s) + Len(t)
  /\ \A i \in 1..Len(s) : (s \o t)[i] = s[i]
  /\ \A i \in 1..Len(t) : (s \o t)[Len(s) + i] = t[i]

\* Concatenations are joined so.
LEMMA Concatenation ==
  ASSUME NEW V, NEW s \in Seq(V), NEW t \in Seq(V)
  PROVE  Joined(s, t, V)
BY DEF Joined

\* The file of b.
LEMMA SavedFile ==
  ASSUME NEW b, ABundle(b)
  PROVE  LET S == save_bundle(b)
         IN  /\ S \in Seq(Records(b)) /\ Len(S) = Saved(b) + 1
             /\ S[1] = Record("magic", "NWX3")
             /\ \A j \in 1..Saved(b) :
                  S[j + 1] = Record(Names[j], b[Names[j]])
<1> DEFINE M == <<Record("magic", "NWX3")>>
           H == Write(b, Header)
           T == IF b["has"] = "1" THEN Write(b, Scaler) ELSE <<>>
<1>1. /\ M \in Seq(Records(b)) /\ Len(M) = 1 /\ M[1] = Record("magic", "NWX3")
  BY DEF Records, Record
<1>2. /\ H \in Seq(Records(b)) /\ Len(H) = 10
      /\ \A j \in 1..10 : H[j] = Record(Names[j], b[Names[j]])
  <2>1. Header = Named(0, 10)
    BY PartsNamed DEF Named
  <2>2. 0 \in Nat /\ 10 \in Nat /\ 10 + 0 <= 13 /\ \A j \in 1..10 : j + 0 = j
    OBVIOUS
  <2>3. /\ Write(b, Named(0, 10)) \in Seq(Records(b)) /\ Len(Write(b, Named(0, 10))) = 10
        /\ \A j \in 1..10 : Write(b, Named(0, 10))[j]
                               = Record(Names[j + 0], b[Names[j + 0]])
    BY <2>2, WriteType, Zenon
  <2> QED
    BY <2>1, <2>2, <2>3
<1>3. /\ T \in Seq(Records(b)) /\ Len(T) = Saved(b) - 10
      /\ \A j \in 1..(Saved(b) - 10) : T[j] = Record(Names[j + 10], b[Names[j + 10]])
  <2>1. CASE b["has"] = "1"
    <3>1. Scaler = Named(10, 3)
      BY PartsNamed DEF Named
    <3>2. 10 \in Nat /\ 3 \in Nat /\ 3 + 10 <= 13 /\ Saved(b) - 10 = 3
      BY <2>1 DEF Saved
    <3>3. /\ Write(b, Named(10, 3)) \in Seq(Records(b)) /\ Len(Write(b, Named(10, 3))) = 3
          /\ \A j \in 1..3 : Write(b, Named(10, 3))[j]
                                = Record(Names[j + 10], b[Names[j + 10]])
      BY <3>2, WriteType, Zenon
    <3> QED
      BY <2>1, <3>1, <3>2, <3>3
  <2>2. CASE b["has"] # "1"
    <3>1. Saved(b) - 10 = 0
      BY <2>2 DEF Saved
    <3> QED
      BY <2>2, <3>1
  <2> QED
    BY <2>1, <2>2
<1>4. save_bundle(b) = M \o H \o T
  BY Zenon DEF save_bundle
<1>5. Saved(b) \in {10, 13}
  BY DEF Saved
<1> HIDE DEF M, H, T
<1>6. /\ M \o H \in Seq(Records(b)) /\ Len(M \o H) = 11
      /\ (M \o H)[1] = M[1] /\ \A j \in 1..10 : (M \o H)[j + 1] = H[j]
  <2>1. Joined(M, H, Records(b))
    BY <1>1, <1>2, Concatenation, Zenon
  <2>2. \A j \in 1..10 : 1 + j = j + 1
    OBVIOUS
  <2>3. /\ M \o H \in Seq(Records(b)) /\ Len(M \o H) = Len(M) + Len(H) /\ (M \o H)[1] = M[1]
        /\ \A j \in 1..Len(H) : (M \o H)[Len(M) + j] = H[j]
    BY <1>1, <2>1 DEF Joined
  <2> QED
    BY <1>1, <1>2, <2>2, <2>3
<1> DEFINE S == M \o H \o T
<1>7. /\ S \in Seq(Records(b)) /\ Len(S) = Saved(b) + 1
      /\ \A j \in 1..11 : S[j] = (M \o H)[j]
      /\ \A j \in 1..(Saved(b) - 10) : S[11 + j] = T[j]
  <2> DEFINE R == M \o H
  <2> HIDE DEF R
  <2>1. R \in Seq(Records(b)) /\ Len(R) = 11
    BY <1>6 DEF R
  <2>2. Joined(R, T, Records(b))
    BY <1>3, <2>1, Concatenation, Zenon
  <2>3. 11 + (Saved(b) - 10) = Saved(b) + 1
    BY <1>5
  <2> QED
    BY <1>3, <2>1, <2>2, <2>3 DEF Joined, R
<1> HIDE DEF S
<1>8. ASSUME NEW j \in 1..Saved(b)
      PROVE  S[j + 1] = Record(Names[j], b[Names[j]])
  <2>1. CASE j <= 10
    <3>1. j \in 1..10 /\ j + 1 \in 1..11
      BY <2>1
    <3> QED
      BY <1>2, <1>6, <1>7, <3>1
  <2>2. CASE ~(j <= 10)
    <3> DEFINE i == j - 10
    <3>1. i \in 1..(Saved(b) - 10) /\ 11 + i = j + 1 /\ i + 10 = j
      BY <1>5, <2>2
    <3> HIDE DEF i
    <3>2. S[11 + i] = T[i] /\ T[i] = Record(Names[i + 10], b[Names[i + 10]])
      BY <1>3, <1>7, <3>1
    <3> QED
      BY <3>1, <3>2
  <2> QED
    BY <2>1, <2>2
<1>9. S[1] = Record("magic", "NWX3") /\ save_bundle(b) = S
  <2>1. 1 \in 1..11
    OBVIOUS
  <2> QED
    BY <1>1, <1>4, <1>6, <1>7, <2>1 DEF S
<1> QED
  BY <1>7, <1>8, <1>9

\* A file of the first k records of S, and perhaps the next in part.
CutOf(S, k, F, V) ==
  /\ F \in Seq(V) /\ Len(F) \in {k, k + 1} /\ Len(F) <= Len(S)
  /\ \A i \in 1..k : F[i] = S[i]
  /\ Len(F) = k + 1 => F[k + 1] = Record(S[k + 1].field, Part)

\* A cut keeps the records before it; one that it falls into is there in part.
LEMMA CutFile ==
  ASSUME NEW V, NEW S \in Seq(V), NEW k \in 0..Len(S), NEW F \in CutFiles(S, k),
         \A x \in V : Record(x.field, Part) \in V
  PROVE  CutOf(S, k, F, V)
<1> USE DEF CutOf
<1> DEFINE P == SubSeq(S, 1, k)
<1>1. P \in Seq(V) /\ Len(P) = k /\ \A i \in 1..k : P[i] = S[i]
  OBVIOUS
<1>2. k \in Nat /\ Len(S) \in Nat /\ DOMAIN S = 1..Len(S)
  OBVIOUS
<1> HIDE DEF P
<1>3. CASE F = P
  BY <1>1, <1>2, <1>3
<1>4. CASE \E i \in {k + 1} \cap DOMAIN S : F = P \o <<Record(S[i].field, Part)>>
  <2> DEFINE r == Record(S[k + 1].field, Part)
             R == <<r>>
  <2>1. k + 1 \in 1..Len(S) /\ F = P \o R
    BY <1>2, <1>4
  <2>2. r \in V
    BY <2>1
  <2> HIDE DEF r
  <2>3. R \in Seq(V) /\ Len(R) = 1 /\ R[1] = r /\ 1 \in 1..1
    BY <2>2
  <2> HIDE DEF R
  <2>4. Joined(P, R, V)
    BY <1>1, <2>3, Concatenation, Zenon
  <2>5. /\ F \in Seq(V) /\ Len(F) = k + 1 /\ F[k + 1] = r
        /\ \A i \in 1..k : F[i] = S[i]
    BY <1>1, <1>2, <2>1, <2>3, <2>4 DEF Joined
  <2> QED
    BY <1>2, <2>1, <2>5 DEF r
<1>5. F = P \/ \E i \in {k + 1} \cap DOMAIN S : F = P \o <<Record(S[i].field, Part)>>
  BY DEF CutFiles, P
<1> QED
  BY <1>3, <1>4, <1>5

\* A file that is cut behind the magic.
LEMMA CutBehindMagic ==
  ASSUME NEW b, ABundle(b), NEW k \in 0..Saved(b),
         NEW F \in CutFiles(save_bundle(b), k + 1)
  PROVE  /\ DOMAIN load_bundle(F) = Fields
         /\ Len(F) \in {k + 1, k + 2}
         /\ \A j \in 1..13 : load_bundle(F)[Names[j]] = After(b, k, Len(F) - 1, j)
<1> DEFINE S == save_bundle(b)
           V == Records(b)
           T == Tail(F)
<1>1. /\ S \in Seq(V) /\ Len(S) = Saved(b) + 1 /\ S[1] = Record("magic", "NWX3")
      /\ \A j \in 1..Saved(b) : S[j + 1] = Record(Names[j], b[Names[j]])
  BY SavedFile
<1>2. Saved(b) \in Nat /\ k + 1 \in 0..Len(S) /\ k \in Nat
  BY <1>1 DEF Saved
<1>3. \A x \in V : Record(x.field, Part) \in V
  BY DEF Records, Record
<1> HIDE DEF S, V
<1>4. /\ F \in Seq(V) /\ Len(F) \in {k + 1, (k + 1) + 1} /\ Len(F) <= Len(S)
      /\ \A i \in 1..(k + 1) : F[i] = S[i]
      /\ Len(F) = (k + 1) + 1 => F[(k + 1) + 1] = Record(S[(k + 1) + 1].field, Part)
  <2> DEFINE c == k + 1
  <2>1. F \in CutFiles(S, c) /\ c \in 0..Len(S)
    BY <1>2 DEF S
  <2> HIDE DEF c
  <2>2. CutOf(S, c, F, V)
    BY <1>1, <1>3, <2>1, CutFile, Zenon
  <2> QED
    BY <2>2 DEF c, CutOf
<1>5. F # <<>> /\ F[1] = Record("magic", "NWX3")
  BY <1>1, <1>2, <1>4
<1>6. load_bundle(F) = ReadBody(Default, T)
  BY <1>5, Zenon DEF load_bundle, HasMagic
<1>7. Len(T) = Len(F) - 1 /\ \A i \in 1..(Len(F) - 1) : T[i] = F[i + 1]
  BY <1>4, <1>5
<1> HIDE DEF T
<1>8. \A j \in 1..k : T[j].value = b[Names[j]]
  <2> SUFFICES ASSUME NEW j \in 1..k PROVE T[j].value = b[Names[j]]
    OBVIOUS
  <2>1. j \in 1..(Len(F) - 1) /\ j + 1 \in 1..(k + 1) /\ j \in 1..Saved(b)
    BY <1>2, <1>4
  <2>2. T[j] = Record(Names[j], b[Names[j]])
    BY <1>1, <1>4, <1>7, <2>1
  <2> QED
    BY <2>2 DEF Record
<1>9. Len(T) = k + 1 => T[k + 1].value = Part
  <2> SUFFICES ASSUME Len(T) = k + 1 PROVE T[k + 1].value = Part
    OBVIOUS
  <2>1. Len(F) = (k + 1) + 1 /\ k + 1 \in 1..(Len(F) - 1)
    BY <1>2, <1>4, <1>7
  <2>2. T[k + 1] = Record(S[(k + 1) + 1].field, Part)
    BY <1>4, <1>7, <2>1
  <2> QED
    BY <2>2 DEF Record
<1>10. Len(T) \in {k, k + 1} /\ Len(T) <= Saved(b)
  BY <1>1, <1>2, <1>4, <1>7
<1>11. FileOf(b, k, T)
  BY <1>8, <1>9, <1>10 DEF FileOf
<1>12. /\ DOMAIN ReadBody(Default, T) = Fields
       /\ \A j \in 1..13 : ReadBody(Default, T)[Names[j]] = After(b, k, Len(T), j)
  BY <1>11, BodyRead, Zenon
<1>13. Len(F) \in {k + 1, k + 2} /\ Len(T) = Len(F) - 1
  BY <1>2, <1>4, <1>7
<1> QED
  BY <1>6, <1>12, <1>13, Zenon

\* What is loaded from a file that has no magic, or not all of it.
LEMMA NoMagic ==
  ASSUME NEW F, Len(F) \in Nat, ~HasMagic(F)
  PROVE  /\ DOMAIN load_bundle(F) = Fields
         /\ \A j \in 1..13 : load_bundle(F)[Names[j]] = ReadAt(Default, F, 1, 7, j)
<1>1. load_bundle(F) = ReadFields(Default, F, Named(1, 7))
  <2>1. Model = Named(1, 7)
    BY PartsNamed DEF Named
  <2> QED
    BY <2>1, Zenon DEF load_bundle, load_model
<1>2. 1 \in Nat /\ 7 \in Nat /\ 7 + 1 <= 13
  OBVIOUS
<1>3. /\ DOMAIN ReadFields(Default, F, Named(1, 7)) = Fields
      /\ \A j \in 1..13 : ReadFields(Default, F, Named(1, 7))[Names[j]]
                            = ReadAt(Default, F, 1, 7, j)
  BY <1>2, FieldsRead, Zenon
<1> QED
  BY <1>1, <1>3

\* Of a file that is cut before or in the magic at most in is read, in part.
LEMMA CutInMagic ==
  ASSUME NEW b, ABundle(b), NEW F \in CutFiles(save_bundle(b), 0)
  PROVE  \A j \in 1..13 :
           load_bundle(F)[Names[j]]
             = IF j = 2 /\ Len(F) = 1 THEN Part ELSE Default[Names[j]]
<1> DEFINE S == save_bundle(b)
           V == Records(b)
<1>1. S \in Seq(V) /\ 0 \in 0..Len(S)
  <2>1. S \in Seq(V)
    BY SavedFile
  <2> HIDE DEF S
  <2> QED
    BY <2>1
<1>2. \A x \in V : Record(x.field, Part) \in V
  BY DEF Records, Record
<1> HIDE DEF S, V
<1>3. /\ F \in Seq(V) /\ Len(F) \in {0, 0 + 1}
      /\ Len(F) = 0 + 1 => F[0 + 1] = Record(S[0 + 1].field, Part)
  <2>1. F \in CutFiles(S, 0)
    BY DEF S
  <2>2. CutOf(S, 0, F, V)
    BY <1>1, <1>2, <2>1, CutFile, Zenon
  <2> QED
    BY <2>2 DEF CutOf
<1>4. Len(F) \in Nat /\ (Len(F) = 1 => F[1].value = Part)
  BY <1>3 DEF Record
<1>5. ~HasMagic(F)
  <2>1. F # <<>> => F[1].value = Part
    BY <1>3, <1>4
  <2>2. Part # "NWX3" /\ Record("magic", "NWX3").value = "NWX3"
    BY DEF Part, Record
  <2> QED
    BY <2>1, <2>2, Zenon DEF HasMagic
<1>6. \A j \in 1..13 : load_bundle(F)[Names[j]] = ReadAt(Default, F, 1, 7, j)
  BY <1>4, <1>5, NoMagic
<1> QED
  BY <1>3, <1>4, <1>6 DEF ReadAt

\* A set that has at most one element has a cardinality of at most one.
LEMMA AtMostOne ==
  ASSUME NEW x, NEW D, D \subseteq {x}
  PROVE  Cardinality(D) <= 1
<1>1. Cardinality(D) = Cardinality(D)
  BY DEF Cardinality, Cardinality
<1>2. IsFiniteSet({x}) /\ Cardinality({x}) = 1
  BY FS_Singleton
<1>3. Cardinality(D) <= Cardinality({x})
  BY <1>2, FS_Subset
<1> QED
  BY <1>1, <1>2, <1>3

\* What a field that was not read may have.
Unread(f) == {Default[f], Sized(Default)[f]}

\* What is there before a file is read is that.
LEMMA BeforeUnread == ASSUME NEW l, NEW f PROVE Before(l)[f] \in Unread(f)
BY Zenon DEF Before, Unread

\* A bundle that was written in part has at most one field that is neither saved nor
\* unread, a scaler only behind the whole model, and deviations only behind the means.
LEMMA CutLoadsAlways ==
  ASSUME NEW b, ABundle(b), NEW k \in 0..Len(save_bundle(b))
  PROVE  CutLoads(b, k)
<1> SUFFICES ASSUME NEW F \in CutFiles(save_bundle(b), k)
             PROVE  LET m == load_bundle(F)
                    IN  /\ Cardinality({f \in Fields : m[f] \notin Unread(f) \cup {b[f]}}) <= 1
                        /\ m["has"] = "1" =>
                             \A f \in Fields \ ToSet(Scaler) : m[f] = b[f]
                        /\ m["mean"] # b["mean"] => m["stdv"] \in Unread("stdv")
  BY Zenon DEF CutLoads, Unread
<1> DEFINE m == load_bundle(F)
           D == {f \in Fields : m[f] \notin Unread(f) \cup {b[f]}}
<1>1. Len(save_bundle(b)) = Saved(b) + 1 /\ Saved(b) \in Nat
  BY SavedFile DEF Saved
<1>2. \A f \in Fields : \E j \in 1..13 : f = Names[j]
  BY FieldsNamed
<1>3. Part # "1" /\ Default["has"] # "1" /\ 10 \in 1..13 /\ Names[10] = "has"
  BY NotSaved, NamesAt DEF Part
<1>4. CASE k = 0
  <2>1. \A j \in 1..13 : m[Names[j]]
          = IF j = 2 /\ Len(F) = 1 THEN Part ELSE Default[Names[j]]
    BY <1>4, CutInMagic
  <2> HIDE DEF m
  <2>2. D \subseteq {Names[2]}
    BY <1>2, <2>1 DEF Unread
  <2>3. m["has"] # "1"
    BY <1>3, <2>1
  <2>4. m["stdv"] \in Unread("stdv")
    BY <2>1, NamesAt DEF Unread
  <2> QED
    BY <2>2, <2>3, <2>4, AtMostOne DEF m
<1>5. CASE k # 0
  <2> DEFINE c == k - 1
  <2>1. c \in 0..Saved(b) /\ k = c + 1
    BY <1>1, <1>5
  <2> HIDE DEF c
  <2>2. /\ Len(F) \in {c + 1, c + 2}
        /\ \A j \in 1..13 : m[Names[j]] = After(b, c, Len(F) - 1, j)
    BY <2>1, CutBehindMagic
  <2> HIDE DEF m
  <2>3. D \subseteq {Names[k]}
    <3> SUFFICES ASSUME NEW j \in 1..13, m[Names[j]] \notin Unread(Names[j]) \cup {b[Names[j]]}
                 PROVE  j = k
      BY <1>2
    <3>1. m[Names[j]] = After(b, c, Len(F) - 1, j)
      BY <2>2
    <3>2. ~(j <= c) /\ j <= Len(F) - 1
      BY <3>1, BeforeUnread DEF After
    <3> QED
      BY <2>1, <2>2, <3>2
  <2>4. ASSUME m["has"] = "1", NEW f \in Fields \ ToSet(Scaler)
        PROVE  m[f] = b[f]
    <3>1. 10 <= c
      <4> SUFFICES ASSUME ~(10 <= c) PROVE FALSE
        BY <2>1
      <4>1. m["has"] = After(b, c, Len(F) - 1, 10)
        BY <1>3, <2>2
      <4>2. ~(10 <= Len(F) - 1) => Before(Len(F) - 1) = Default
        BY <2>1, <2>2 DEF Before
      <4>3. After(b, c, Len(F) - 1, 10) \in {Part, Default["has"]}
        BY <1>3, <4>2 DEF After
      <4> QED
        BY <1>3, <2>4, <4>1, <4>3
    <3>2. PICK j \in 1..13 : f = Names[j]
      BY <1>2
    <3>3. j <= 10
      <4> SUFFICES ASSUME ~(j <= 10) PROVE FALSE
        OBVIOUS
      <4>1. j - 10 \in 1..3 /\ (j - 10) + 10 = j
        OBVIOUS
      <4>2. DOMAIN Scaler = 1..3 /\ Scaler[j - 10] = f
        BY <3>2, <4>1, PartsNamed
      <4> QED
        BY <4>1, <4>2 DEF ToSet
    <3> QED
      BY <2>1, <2>2, <3>1, <3>2, <3>3 DEF After
  <2>5. ASSUME m["mean"] # b["mean"]
        PROVE  m["stdv"] \in Unread("stdv")
    <3>1. 12 \in 1..13 /\ 13 \in 1..13 /\ Names[12] = "mean" /\ Names[13] = "stdv"
      BY NamesAt
    <3>2. ~(12 <= c)
      <4>1. m["mean"] = After(b, c, Len(F) - 1, 12)
        BY <2>2, <3>1
      <4>2. 12 <= c => After(b, c, Len(F) - 1, 12) = b["mean"]
        BY <3>1 DEF After
      <4> QED
        BY <2>5, <4>1, <4>2, Zenon
    <3>3. ~(13 <= c) /\ ~(13 <= Len(F) - 1)
      BY <2>1, <2>2, <3>2
    <3>4. m["stdv"] = Before(Len(F) - 1)["stdv"]
      BY <2>2, <3>1, <3>3 DEF After
    <3> QED
      BY <3>4, BeforeUnread
  <2> QED
    BY <2>3, <2>4, <2>5, AtMostOne DEF m
<1> QED
  BY <1>4, <1>5

\* A record of fields is known by its fields.
LEMMA SameBundle ==
  ASSUME NEW a, NEW b, a = [f \in Fields |-> a[f]], b = [f \in Fields |-> b[f]],
         \A j \in 1..13 : a[Names[j]] = b[Names[j]]
  PROVE  a = b
BY FieldsNamed

\* What load_bundle returns, and a bundle, are records of fields.
LEMMA RecordsOfFields ==
  ASSUME NEW b, ABundle(b), NEW F
  PROVE  /\ b = [f \in Fields |-> b[f]]
         /\ load_bundle(F) = [f \in Fields |-> load_bundle(F)[f]]
<1>1. b = [f \in Fields |-> b[f]]
  <2> DEFINE g == Bundle(b)
  <2>1. g = [f \in Fields |-> g[f]]
    BY DEF Bundle
  <2> HIDE DEF g
  <2>2. g = b
    BY DEF g, ABundle
  <2> QED
    BY <2>1, <2>2
<1>2. \A a, file, names : ReadFields(a, file, names)
                            = [f \in Fields |-> ReadFields(a, file, names)[f]]
  <2> SUFFICES ASSUME NEW a, NEW file, NEW names
               PROVE  ReadFields(a, file, names)
                        = [f \in Fields |-> ReadFields(a, file, names)[f]]
    BY Zenon
  <2> DEFINE g == ReadFields(a, file, names)
  <2>1. g = [f \in Fields |-> g[f]]
    BY DEF ReadFields
  <2> QED
    BY <2>1
<1>3. load_bundle(F) = [f \in Fields |-> load_bundle(F)[f]]
  <2>1. \E a, file, names : load_bundle(F) = ReadFields(a, file, names)
    <3>1. CASE HasMagic(F)
      <4>1. load_bundle(F) = ReadBody(Default, Tail(F))
        BY <3>1 DEF load_bundle
      <4> DEFINE T == Tail(F)
      <4> HIDE DEF T
      <4>2. \/ ReadBody(Default, T) = ReadFields(Default, T, Header)
            \/ \E a : ReadBody(Default, T) = ReadFields(a, T, Names)
        BY Zenon DEF ReadBody
      <4> QED
        BY <4>1, <4>2, Zenon DEF T
    <3>2. CASE ~HasMagic(F)
      <4>1. load_bundle(F) = ReadFields(Default, F, Model)
        BY <3>2, Zenon DEF load_bundle, load_model
      <4> QED
        BY <4>1, Zenon
    <3> QED
      BY <3>1, <3>2
  <2>2. PICK a, file, names : load_bundle(F) = ReadFields(a, file, names)
    BY <2>1
  <2>3. ReadFields(a, file, names) = [f \in Fields |-> ReadFields(a, file, names)[f]]
    BY <1>2
  <2> QED
    BY <2>2, <2>3
<1> QED
  BY <1>1, <1>3

\* A bundle comes back as it was saved, and of a file without header the model.
LEMMA RoundTripAlways ==
  ASSUME NEW b, ABundle(b)
  PROVE  LoadsBack(b)
<1>1. load_bundle(save_bundle(b)) = b
  <2> DEFINE S == save_bundle(b)
             n == Saved(b)
  <2>1. S \in Seq(Records(b)) /\ Len(S) = n + 1
    BY SavedFile
  <2>2. n \in 0..n /\ n \in Nat
    BY DEF Saved
  <2>3. S \in CutFiles(S, n + 1)
    <3> HIDE DEF S, n
    <3>1. SubSeq(S, 1, n + 1) = S
      BY <2>1, <2>2
    <3> QED
      BY <3>1 DEF CutFiles
  <2>4. \A j \in 1..13 : load_bundle(S)[Names[j]] = After(b, n, Len(S) - 1, j)
    BY <2>2, <2>3, CutBehindMagic, Zenon
  <2>5. \A j \in 1..13 : j > n => b[Names[j]] = Default[Names[j]]
    BY NotSaved
  <2> DEFINE m == load_bundle(S)
  <2>6. \A j \in 1..13 : m[Names[j]] = b[Names[j]]
    <3> HIDE DEF S, n, m
    <3>1. Len(S) - 1 = n
      BY <2>1, <2>2
    <3> SUFFICES ASSUME NEW j \in 1..13 PROVE m[Names[j]] = b[Names[j]]
      OBVIOUS
    <3>2. m[Names[j]] = After(b, n, n, j)
      BY <2>4, <3>1 DEF m
    <3>3. CASE j <= n
      BY <3>2, <3>3 DEF After
    <3>4. CASE ~(j <= n)
      <4>1. b[Names[j]] = Default[Names[j]] /\ Before(n) = Default
        <5>1. n = 10
          BY <3>4 DEF n, Saved
        <5> QED
          BY <2>2, <2>5, <3>4, <5>1 DEF Before
      <4> QED
        BY <3>2, <3>4, <4>1 DEF After
    <3> QED
      BY <3>3, <3>4
  <2>7. b = [f \in Fields |-> b[f]] /\ m = [f \in Fields |-> m[f]]
    BY RecordsOfFields
  <2> HIDE DEF m
  <2>8. m = b
    BY <2>6, <2>7, SameBundle
  <2> QED
    BY <2>8 DEF m
<1>2. load_bundle(save_model(b)) =
        [f \in Fields |-> IF f \in ToSet(Model) THEN b[f] ELSE Default[f]]
  <2> DEFINE F == save_model(b)
             m == load_bundle(F)
             g == [f \in Fields |-> IF f \in ToSet(Model) THEN b[f] ELSE Default[f]]
  <2>1. Model = Named(1, 7) /\ 1 \in Nat /\ 7 \in Nat /\ 7 + 1 <= 13
    BY PartsNamed DEF Named
  <2>2. /\ F \in Seq(Records(b)) /\ Len(F) = 7
        /\ \A j \in 1..7 : F[j] = Record(Names[j + 1], b[Names[j + 1]])
    <3>1. F = Write(b, Named(1, 7))
      BY <2>1 DEF save_model
    <3> HIDE DEF F
    <3> QED
      BY <2>1, <3>1, WriteType
  <2> HIDE DEF F
  <2>3. ~HasMagic(F)
    <3>1. F[1] = Record(Names[2], b[Names[2]])
      BY <2>2
    <3>2. F[1].field # "magic"
      BY <3>1, NamesApart DEF Record
    <3>3. Record("magic", "NWX3").field = "magic"
      BY DEF Record
    <3> QED
      BY <3>2, <3>3, Zenon DEF HasMagic
  <2>4. \A j \in 1..13 : m[Names[j]] = ReadAt(Default, F, 1, 7, j)
    BY <2>2, <2>3, NoMagic
  <2> HIDE DEF m
  <2>5. ASSUME NEW j \in 1..13
        PROVE  Names[j] \in ToSet(Model) <=> j - 1 \in 1..7
    <3>1. DOMAIN Model = 1..7 /\ \A i \in 1..7 : Model[i] = Names[i + 1] /\ i + 1 \in 1..13
      BY PartsNamed
    <3>2. Names[j] \in ToSet(Model) <=> \E i \in 1..7 : Names[i + 1] = Names[j]
      BY <3>1 DEF ToSet
    <3>3. \A i \in 1..7 : Names[i + 1] = Names[j] <=> i + 1 = j
      BY <3>1, NamesApart
    <3> QED
      BY <3>2, <3>3
  <2>6. ASSUME NEW j \in 1..13
        PROVE  m[Names[j]] = g[Names[j]]
    <3>1. Names[j] \in Fields
      BY FieldsNamed
    <3>2. CASE j - 1 \in 1..7
      <4> DEFINE i == j - 1
      <4>1. i \in 1..7 /\ i <= Len(F) /\ i + 1 = j
        BY <2>2, <3>2
      <4>2. m[Names[j]] = F[j - 1].value
        BY <2>4, <4>1 DEF ReadAt
      <4> HIDE DEF i
      <4>3. F[i].value = b[Names[j]]
        BY <2>2, <4>1 DEF Record
      <4> QED
        BY <2>5, <3>1, <3>2, <4>2, <4>3 DEF i
    <3>3. CASE j - 1 \notin 1..7
      <4>1. m[Names[j]] = Default[Names[j]]
        BY <2>4, <3>3 DEF ReadAt
      <4> QED
        BY <2>5, <3>1, <3>3, <4>1
    <3> QED
      BY <3>2, <3>3
  <2>7. m = [f \in Fields |-> m[f]]
    BY RecordsOfFields DEF m
  <2>8. g = [f \in Fields |-> g[f]]
    OBVIOUS
  <2> HIDE DEF g
  <2>9. m = g
    BY <2>6, <2>7, <2>8, SameBundle
  <2> QED
    BY <2>9 DEF m, g, F
<1> QED
  BY <1>1, <1>2, Zenon DEF LoadsBack
-----------------------------------------------------------------------------
(* Products of matrices.  What a loop has computed after n passes is given *)
(* in closed form; the form satisfies the loop's equation, and two         *)
(* functions that satisfy it are the same.                                 *)

\* Two loops that start alike and go on alike end alike.
LEMMA LoopsEndAlike ==
  ASSUME NEW c \in Nat, NEW A, NEW G, A[0] = G[0],
         \A n \in 1..c : A[n - 1] = G[n - 1] => A[n] = G[n]
  PROVE  A[c] = G[c]
<1> DEFINE S == {n \in 0..c : A[n] = G[n]}
<1>1. 0 \in S
  OBVIOUS
<1>2. ASSUME NEW n \in 0..(c - 1), n \in S PROVE n + 1 \in S
  <2>1. n + 1 \in 1..c /\ (n + 1) - 1 = n
    OBVIOUS
  <2> QED
    BY <1>2, <2>1
<1>3. c \in S
  <2> HIDE DEF S
  <2>1. 0..c \subseteq S
    BY <1>1, <1>2, IntervalInduction
  <2> QED
    BY <2>1
<1> QED
  BY <1>3

\* A loop that counts by one.
LEMMA SinglePasses == \A a, b \in Int : (b - a + 1 - 1) \div 1 = b - a
OBVIOUS

\* A loop that counts by s covers 0..(a - 1), each pass beginning inside it.
LEMMA BlockPasses ==
  ASSUME NEW a \in Nat, NEW s \in Nat \ {0}
  PROVE  LET c == (a - 0 + s - 1) \div s
         IN  /\ c \in Nat /\ a <= c * s
             /\ \A n \in 1..c : (n - 1) * s \in Nat /\ (n - 1) * s < a /\ n * s = (n - 1) * s + s
<1> DEFINE c == (a - 0 + s - 1) \div s
           d == a + s - 1
<1>1. d \in Nat /\ c = d \div s /\ s \in Nat /\ s > 0
  OBVIOUS
<1>2. c \in Nat /\ c * s <= d /\ d < c * s + s
  <2> HIDE DEF d
  <2>1. d \div s \in Nat /\ s * (d \div s) <= d /\ d < s * (d \div s) + s
    BY <1>1
  <2> HIDE DEF c
  <2> QED
    BY <1>1, <2>1
<1> HIDE DEF c
<1>3. ASSUME NEW n \in 1..c
      PROVE  (n - 1) * s \in Nat /\ (n - 1) * s < a /\ n * s = (n - 1) * s + s
  <2>1. n * s = (n - 1) * s + s /\ (n - 1) * s \in Nat
    BY <1>1
  <2>2. n * s <= c * s
    BY <1>1, <1>2
  <2> QED
    BY <1>1, <1>2, <2>1, <2>2
<1>4. a <= c * s
  BY <1>1, <1>2
<1> QED
  BY <1>2, <1>3, <1>4 DEF c

\* The products 0 to k - 1, in this order.
UpTo(k) == [x \in 1..k |-> x - 1]

\* One product more.
LEMMA UpToNext ==
  ASSUME NEW k \in Nat
  PROVE  UpTo(k) \in Seq(Nat) /\ Append(UpTo(k), k) = UpTo(k + 1)
BY DEF UpTo

Places(M, N)   == (0..(M - 1)) \X (0..(N - 1))
Matrices(M, N) == [Places(M, N) -> Seq(Nat)]



\* C, with the products up to k where a row of I and a column of J meet.
Filling(P, C, I, J, k) == [p \in P |-> IF p[1] \in I /\ p[2] \in J THEN UpTo(k) ELSE C[p]]
Holds(P, C, I, J, k) == \A p \in P : p[1] \in I /\ p[2] \in J => C[p] = UpTo(k)

\* Filling keeps the type, and what it fills is filled.
LEMMA FillType ==
  ASSUME NEW M \in Nat, NEW N \in Nat, NEW C \in Matrices(M, N), NEW I, NEW J, NEW k \in Nat
  PROVE  /\ Filling(Places(M, N), C, I, J, k) \in Matrices(M, N)
         /\ Holds(Places(M, N), Filling(Places(M, N), C, I, J, k), I, J, k)
BY UpToNext DEF Filling, Matrices, Holds

\* What is so already is not changed.
LEMMA FillSame ==
  ASSUME NEW M \in Nat, NEW N \in Nat, NEW C \in Matrices(M, N), NEW I, NEW J, NEW k,
         Holds(Places(M, N), C, I, J, k)
  PROVE  Filling(Places(M, N), C, I, J, k) = C
BY DEF Filling, Matrices, Holds

\* What is filled once more is filled once.
LEMMA FillMore ==
  ASSUME NEW P, NEW C, NEW I, NEW J, NEW k, NEW I2, NEW J2, NEW k2, NEW I3, NEW J3,
         \A p \in P : p[1] \in I3 /\ p[2] \in J3 <=>
                        \/ p[1] \in I2 /\ p[2] \in J2
                        \/ k = k2 /\ p[1] \in I /\ p[2] \in J,
         k = k2 \/ \A p \in P : p[1] \in I /\ p[2] \in J => p[1] \in I2 /\ p[2] \in J2
  PROVE  Filling(P, Filling(P, C, I, J, k), I2, J2, k2) = Filling(P, C, I3, J3, k2)
<1> DEFINE D == Filling(P, C, I, J, k)
<1>1. \A p \in P : D[p] = IF p[1] \in I /\ p[2] \in J THEN UpTo(k) ELSE C[p]
  BY DEF Filling
<1> HIDE DEF D
<1>2. \A p \in P : (IF p[1] \in I2 /\ p[2] \in J2 THEN UpTo(k2) ELSE D[p])
                     = IF p[1] \in I3 /\ p[2] \in J3 THEN UpTo(k2) ELSE C[p]
  BY <1>1
<1>3. Filling(P, D, I2, J2, k2) = Filling(P, C, I3, J3, k2)
  BY <1>2 DEF Filling
<1> QED
  BY <1>3 DEF D

\* An element is a row and a column.
LEMMA PlaceTypes ==
  ASSUME NEW M \in Nat, NEW N \in Nat
  PROVE  \A p \in Places(M, N) : /\ p[1] \in 0..(M - 1) /\ p[2] \in 0..(N - 1)
                                 /\ \A i, j : p = <<i, j>> <=> p[1] = i /\ p[2] = j
BY DEF Places

\* The lesser of two numbers.
LEMMA LeastOf ==
  ASSUME NEW a \in Nat, NEW b \in Nat
  PROVE  /\ Least(a, b) \in Nat /\ Least(a, b) <= a /\ Least(a, b) <= b
         /\ a <= b => Least(a, b) = a
         /\ b <= a => Least(a, b) = b
BY DEF Least

\* The loops of matmul over the columns, the products and the rows.
RowLoop(C, i, k, N) ==
  Loop(C, 0, N, 1, LAMBDA C3, j : [C3 EXCEPT ![<<i, j>>] = Append(@, k)])
ProductLoop(C, i, K, N) == Loop(C, 0, K, 1, LAMBDA C2, k : RowLoop(C2, i, k, N))

\* The loops of matmul_avx2, from the innermost: over the products, columns and rows of
\* a block, and over the blocks.
AccLoop(v, k0, K, BS) == Loop(v, k0, Least(K, k0 + BS), 1, Append)
ColumnLoop(C, i, j0, k0, N, K, BS) ==
  Loop(C, j0, Least(N, j0 + BS), 1, LAMBDA C5, j :
    [C5 EXCEPT ![<<i, j>>] = AccLoop(@, k0, K, BS)])
BlockLoop(C, i0, j0, k0, M, N, K, BS) ==
  Loop(C, i0, Least(M, i0 + BS), 1, LAMBDA C4, i :
    ColumnLoop(C4, i, j0, k0, N, K, BS))
DepthLoop(C, i0, j0, M, N, K, BS) ==
  Loop(C, 0, K, BS, LAMBDA C3, k0 : BlockLoop(C3, i0, j0, k0, M, N, K, BS))
StripLoop(C, i0, M, N, K, BS) ==
  Loop(C, 0, N, BS, LAMBDA C2, j0 : DepthLoop(C2, i0, j0, M, N, K, BS))

\* One product is added to each element of a row.
LEMMA RowAdded ==
  ASSUME NEW M \in Nat, NEW N \in Nat, NEW C \in Matrices(M, N), NEW i \in 0..(M - 1), NEW k \in Nat
  PROVE  RowLoop(C, i, k, N) = [p \in Places(M, N) |-> IF p[1] = i THEN Append(C[p], k) ELSE C[p]]
<1> DEFINE P == Places(M, N)
           c == (N - 0 + 1 - 1) \div 1
           F(n) == [p \in P |-> IF p[1] = i /\ p[2] < n THEN Append(C[p], k) ELSE C[p]]
           Pass(D, n) == [D EXCEPT ![<<i, 0 + (n - 1) * 1>>] = Append(@, k)]
           Eq(g) == [n \in 0..c |-> IF n = 0 THEN C ELSE Pass(g[n - 1], n)]
           G == [n \in 0..c |-> F(n)]
           A == CHOOSE g : g = Eq(g)
<1>1. RowLoop(C, i, k, N) = A[c]
  BY Zenon DEF RowLoop, Loop
<1>2. c \in Nat /\ c = N
  BY SinglePasses
<1>3. F(0) = C
  BY PlaceTypes DEF Matrices
<1>4. ASSUME NEW n \in 1..c
      PROVE  F(n) = Pass(F(n - 1), n)
  <2>1. 0 + (n - 1) * 1 = n - 1 /\ <<i, n - 1>> \in P
    BY <1>2 DEF Places
  <2>2. \A p \in P : p = <<i, n - 1>> <=> p[1] = i /\ p[2] = n - 1
    BY DEF Places
  <2>5. \A p \in P : p[2] < n <=> p[2] < n - 1 \/ p[2] = n - 1
    BY <1>2 DEF Places
  <2> HIDE DEF P
  <2>3. \A p \in P : F(n)[p] = IF p = <<i, n - 1>> THEN Append(F(n - 1)[p], k) ELSE F(n - 1)[p]
    BY <1>2, <2>2, <2>5
  <2>4. Pass(F(n - 1), n) = [F(n - 1) EXCEPT ![<<i, n - 1>>] = Append(@, k)]
    BY <2>1
  <2> QED
    BY <2>1, <2>3, <2>4
<1>5. F(c) = [p \in Places(M, N) |-> IF p[1] = i THEN Append(C[p], k) ELSE C[p]]
  BY <1>2, PlaceTypes
<1> HIDE DEF c, F
<1>6. \A n \in 0..c : G[n] = F(n)
  OBVIOUS
<1>7. \A n \in 1..c : n \in 0..c /\ n # 0 /\ n - 1 \in 0..c
  BY <1>2
<1>8. A = Eq(A)
  <2>1. G = Eq(G)
    <3> HIDE DEF Pass
    <3> QED
      BY <1>3, <1>4, <1>7
  <2> HIDE DEF Eq, G
  <2> QED
    BY <2>1, Zenon
<1>9. A[c] = F(c)
  <2> HIDE DEF A, G, Pass
  <2>1. A[0] = C /\ \A n \in 1..c : A[n] = Pass(A[n - 1], n)
    BY <1>2, <1>7, <1>8
  <2>2. G[0] = C /\ \A n \in 1..c : G[n] = Pass(G[n - 1], n)
    BY <1>2, <1>3, <1>4, <1>6, <1>7
  <2>3. c \in Nat /\ c \in 0..c /\ A[0] = G[0]
    BY <1>2, <2>1, <2>2
  <2>4. \A n \in 1..c : A[n - 1] = G[n - 1] => A[n] = G[n]
    BY <2>1, <2>2
  <2>5. A[c] = G[c]
    BY <2>3, <2>4, LoopsEndAlike, Zenon
  <2> QED
    BY <1>6, <2>3, <2>5
<1> QED
  BY <1>1, <1>5, <1>9

\* A row gets its products, in order.
LEMMA RowMultiplied ==
  ASSUME NEW M \in Nat, NEW N \in Nat, NEW K \in Nat, NEW C \in Matrices(M, N), NEW i \in 0..(M - 1),
         Holds(Places(M, N), C, {i}, 0..(N - 1), 0)
  PROVE  ProductLoop(C, i, K, N) = Filling(Places(M, N), C, {i}, 0..(N - 1), K)
<1> DEFINE P == Places(M, N)
           c == (K - 0 + 1 - 1) \div 1
           F(n) == Filling(P, C, {i}, 0..(N - 1), n)
           Pass(D, n) == RowLoop(D, i, 0 + (n - 1) * 1, N)
           Eq(g) == [n \in 0..c |-> IF n = 0 THEN C ELSE Pass(g[n - 1], n)]
           G == [n \in 0..c |-> F(n)]
           A == CHOOSE g : g = Eq(g)
<1>1. ProductLoop(C, i, K, N) = A[c]
  BY Zenon DEF ProductLoop, Loop
<1>2. c \in Nat /\ c = K
  BY SinglePasses
<1>3. F(0) = C
  BY FillSame
<1>4. ASSUME NEW n \in 1..c
      PROVE  F(n) = Pass(F(n - 1), n)
  <2> DEFINE B == F(n - 1)
             k == n - 1
  <2>1. 0 + (n - 1) * 1 = k /\ k \in Nat /\ k + 1 = n
    BY <1>2
  <2>2. B \in Matrices(M, N)
    BY <2>1, FillType
  <2>3. \A p \in P : /\ B[p] = IF p[1] = i THEN UpTo(k) ELSE C[p]
                     /\ F(n)[p] = IF p[1] = i THEN UpTo(k + 1) ELSE C[p]
    BY <2>1, PlaceTypes DEF Filling
  <2>4. F(n) = [p \in P |-> F(n)[p]]
    BY DEF Filling
  <2>5. Append(UpTo(k), k) = UpTo(k + 1)
    BY <2>1, UpToNext
  <2> HIDE DEF B, k, F
  <2>6. RowLoop(B, i, k, N) = [p \in P |-> IF p[1] = i THEN Append(B[p], k) ELSE B[p]]
    BY <2>1, <2>2, RowAdded
  <2>7. \A p \in P : F(n)[p] = IF p[1] = i THEN Append(B[p], k) ELSE B[p]
    BY <2>3, <2>5
  <2>8. F(n) = RowLoop(B, i, k, N)
    <3> HIDE DEF P
    <3> QED
      BY <2>4, <2>6, <2>7
  <2> QED
    BY <2>1, <2>8 DEF B
<1>5. F(c) = Filling(Places(M, N), C, {i}, 0..(N - 1), K)
  BY <1>2
<1> HIDE DEF c, F
<1>6. \A n \in 0..c : G[n] = F(n)
  OBVIOUS
<1>7. \A n \in 1..c : n \in 0..c /\ n # 0 /\ n - 1 \in 0..c
  BY <1>2
<1>8. A = Eq(A)
  <2>1. G = Eq(G)
    <3> HIDE DEF Pass
    <3> QED
      BY <1>3, <1>4, <1>7
  <2> HIDE DEF Eq, G
  <2> QED
    BY <2>1, Zenon
<1>9. A[c] = F(c)
  <2> HIDE DEF A, G, Pass
  <2>1. A[0] = C /\ \A n \in 1..c : A[n] = Pass(A[n - 1], n)
    BY <1>2, <1>7, <1>8
  <2>2. G[0] = C /\ \A n \in 1..c : G[n] = Pass(G[n - 1], n)
    BY <1>2, <1>3, <1>4, <1>6, <1>7
  <2>3. c \in Nat /\ c \in 0..c /\ A[0] = G[0]
    BY <1>2, <2>1, <2>2
  <2>4. \A n \in 1..c : A[n - 1] = G[n - 1] => A[n] = G[n]
    BY <2>1, <2>2
  <2>5. A[c] = G[c]
    BY <2>3, <2>4, LoopsEndAlike, Zenon
  <2> QED
    BY <1>6, <2>3, <2>5
<1> QED
  BY <1>1, <1>5, <1>9

\* matmul adds to each element its products, in order.
LEMMA Multiplied ==
  ASSUME NEW M \in Nat, NEW N \in Nat, NEW K \in Nat
  PROVE  matmul(M, N, K) = [p \in Places(M, N) |-> UpTo(K)]
<1> DEFINE P == Places(M, N)
           c == (M - 0 + 1 - 1) \div 1
           F(n) == Filling(P, Zeros(M, N), 0..(n - 1), 0..(N - 1), K)
           Pass(D, n) == ProductLoop(D, 0 + (n - 1) * 1, K, N)
           Eq(g) == [n \in 0..c |-> IF n = 0 THEN Zeros(M, N) ELSE Pass(g[n - 1], n)]
           G == [n \in 0..c |-> F(n)]
           A == CHOOSE g : g = Eq(g)
<1>1. matmul(M, N, K) = A[c]
  BY Zenon DEF matmul, ProductLoop, RowLoop, Loop
<1>2. c \in Nat /\ c = M
  BY SinglePasses
<1>10. /\ Zeros(M, N) = [p \in P |-> UpTo(0)]
       /\ Zeros(M, N) \in Matrices(M, N)
  <2>1. UpTo(0) = <<>>
    BY DEF UpTo
  <2> QED
    BY <2>1 DEF Zeros, Places, Matrices
<1>3. F(0) = Zeros(M, N)
  <2>1. Holds(P, Zeros(M, N), 0..(0 - 1), 0..(N - 1), K)
    BY DEF Holds
  <2> QED
    BY <1>10, <2>1, FillSame
<1>4. ASSUME NEW n \in 1..c
      PROVE  F(n) = Pass(F(n - 1), n)
  <2> DEFINE B == F(n - 1)
             i == n - 1
             J == 0..(N - 1)
  <2>1. 0 + (n - 1) * 1 = i /\ i \in 0..(M - 1) /\ i + 1 = n
    BY <1>2
  <2>2. B \in Matrices(M, N)
    BY <1>10, FillType
  <2>3. Holds(P, B, {i}, J, 0)
    BY <1>10, <2>1 DEF Holds, Filling
  <2> HIDE DEF B
  <2>4. ProductLoop(B, i, K, N) = Filling(P, B, {i}, J, K)
    <3> HIDE DEF i
    <3> QED
      BY <2>1, <2>2, <2>3, RowMultiplied
  <2>5. Filling(P, B, {i}, J, K) = F(n)
    <3> DEFINE I == 0..(i - 1)
               H == 0..(n - 1)
               Z == Zeros(M, N)
    <3>1. \A p \in P : p[1] \in H <=> p[1] \in {i} \/ p[1] \in I
      BY <2>1, PlaceTypes
    <3> HIDE DEF I, H, J, P, Z
    <3>2. Filling(P, Filling(P, Z, I, J, K), {i}, J, K) = Filling(P, Z, H, J, K)
      BY <3>1, FillMore
    <3> QED
      BY <3>2 DEF I, H, J, P, Z, B
  <2> QED
    BY <2>1, <2>4, <2>5 DEF B
<1>5. F(c) = [p \in Places(M, N) |-> UpTo(K)]
  BY <1>2, <1>10, PlaceTypes DEF Filling
<1> HIDE DEF c, F
<1>6. \A n \in 0..c : G[n] = F(n)
  OBVIOUS
<1>7. \A n \in 1..c : n \in 0..c /\ n # 0 /\ n - 1 \in 0..c
  BY <1>2
<1>8. A = Eq(A)
  <2>1. G = Eq(G)
    <3> HIDE DEF Pass
    <3> QED
      BY <1>3, <1>4, <1>7
  <2> HIDE DEF Eq, G
  <2> QED
    BY <2>1, Zenon
<1>9. A[c] = F(c)
  <2> HIDE DEF A, G, Pass
  <2>1. A[0] = Zeros(M, N) /\ \A n \in 1..c : A[n] = Pass(A[n - 1], n)
    BY <1>2, <1>7, <1>8
  <2>2. G[0] = Zeros(M, N) /\ \A n \in 1..c : G[n] = Pass(G[n - 1], n)
    BY <1>2, <1>3, <1>4, <1>6, <1>7
  <2>3. c \in Nat /\ c \in 0..c /\ A[0] = G[0]
    BY <1>2, <2>1, <2>2
  <2>4. \A n \in 1..c : A[n - 1] = G[n - 1] => A[n] = G[n]
    BY <2>1, <2>2
  <2>5. A[c] = G[c]
    BY <2>3, <2>4, LoopsEndAlike, Zenon
  <2> QED
    BY <1>6, <2>3, <2>5
<1> QED
  BY <1>1, <1>5, <1>9

\* The accumulator of a block goes on where the block before it has left off.
LEMMA Accumulated ==
  ASSUME NEW K \in Nat, NEW BS \in Nat \ {0}, NEW k0 \in Nat, k0 < K
  PROVE  AccLoop(UpTo(k0), k0, K, BS) = UpTo(Least(K, k0 + BS))
<1> DEFINE k1 == Least(K, k0 + BS)
           c == (k1 - k0 + 1 - 1) \div 1
           F(n) == UpTo(k0 + n)
           Pass(D, n) == Append(D, k0 + (n - 1) * 1)
           Eq(g) == [n \in 0..c |-> IF n = 0 THEN UpTo(k0) ELSE Pass(g[n - 1], n)]
           G == [n \in 0..c |-> F(n)]
           A == CHOOSE g : g = Eq(g)
<1>1. AccLoop(UpTo(k0), k0, K, BS) = A[c]
  BY Zenon DEF AccLoop, Loop
<1>10. k1 \in Nat /\ k0 <= k1
  BY DEF Least
<1>2. c \in Nat /\ k0 + c = k1
  <2> HIDE DEF k1
  <2>1. c = k1 - k0
    BY <1>10, SinglePasses
  <2> QED
    BY <1>10, <2>1
<1>3. F(0) = UpTo(k0)
  OBVIOUS
<1>4. ASSUME NEW n \in 1..c
      PROVE  F(n) = Pass(F(n - 1), n)
  <2> DEFINE k == k0 + (n - 1)
  <2>1. k0 + (n - 1) * 1 = k /\ k \in Nat /\ k + 1 = k0 + n
    BY <1>2
  <2> HIDE DEF k
  <2>2. Append(UpTo(k), k) = UpTo(k + 1)
    BY <2>1, UpToNext
  <2> QED
    BY <2>1, <2>2 DEF k
<1>5. F(c) = UpTo(Least(K, k0 + BS))
  BY <1>2
<1> HIDE DEF c, F
<1>6. \A n \in 0..c : G[n] = F(n)
  OBVIOUS
<1>7. \A n \in 1..c : n \in 0..c /\ n # 0 /\ n - 1 \in 0..c
  BY <1>2
<1>8. A = Eq(A)
  <2>1. G = Eq(G)
    <3> HIDE DEF Pass
    <3> QED
      BY <1>3, <1>4, <1>7
  <2> HIDE DEF Eq, G
  <2> QED
    BY <2>1, Zenon
<1>9. A[c] = F(c)
  <2> HIDE DEF A, G, Pass
  <2>1. A[0] = UpTo(k0) /\ \A n \in 1..c : A[n] = Pass(A[n - 1], n)
    BY <1>2, <1>7, <1>8
  <2>2. G[0] = UpTo(k0) /\ \A n \in 1..c : G[n] = Pass(G[n - 1], n)
    BY <1>2, <1>3, <1>4, <1>6, <1>7
  <2>3. c \in Nat /\ c \in 0..c /\ A[0] = G[0]
    BY <1>2, <2>1, <2>2
  <2>4. \A n \in 1..c : A[n - 1] = G[n - 1] => A[n] = G[n]
    BY <2>1, <2>2
  <2>5. A[c] = G[c]
    BY <2>3, <2>4, LoopsEndAlike, Zenon
  <2> QED
    BY <1>6, <2>3, <2>5
<1> QED
  BY <1>1, <1>5, <1>9

\* A row of a block gets the products of the block.
LEMMA ColumnsAdded ==
  ASSUME NEW M \in Nat, NEW N \in Nat, NEW K \in Nat, NEW BS \in Nat \ {0},
         NEW C \in Matrices(M, N), NEW i \in 0..(M - 1), NEW j0 \in Nat, j0 < N, NEW k0 \in Nat, k0 < K,
         Holds(Places(M, N), C, {i}, j0..(Least(N, j0 + BS) - 1), k0)
  PROVE  ColumnLoop(C, i, j0, k0, N, K, BS) = Filling(Places(M, N), C, {i}, j0..(Least(N, j0 + BS) - 1), Least(K, k0 + BS))
<1> DEFINE P == Places(M, N)
           j1 == Least(N, j0 + BS)
           k1 == Least(K, k0 + BS)
           c == (j1 - j0 + 1 - 1) \div 1
           F(n) == Filling(P, C, {i}, j0..(j0 + n - 1), k1)
           Pass(D, n) == [D EXCEPT ![<<i, j0 + (n - 1) * 1>>] = AccLoop(@, k0, K, BS)]
           Eq(g) == [n \in 0..c |-> IF n = 0 THEN C ELSE Pass(g[n - 1], n)]
           G == [n \in 0..c |-> F(n)]
           A == CHOOSE g : g = Eq(g)
<1>1. ColumnLoop(C, i, j0, k0, N, K, BS) = A[c]
  BY Zenon DEF ColumnLoop, Loop
<1>10. j1 \in Nat /\ j0 <= j1 /\ j1 <= N /\ k1 \in Nat
  BY DEF Least
<1>2. c \in Nat /\ j0 + c = j1
  <2> HIDE DEF j1
  <2>1. c = j1 - j0
    BY <1>10, SinglePasses
  <2> QED
    BY <1>10, <2>1
<1>3. F(0) = C
  <2>1. Holds(P, C, {i}, j0..(j0 + 0 - 1), k1)
    BY DEF Holds
  <2> QED
    BY <2>1, FillSame
<1>4. ASSUME NEW n \in 1..c
      PROVE  F(n) = Pass(F(n - 1), n)
  <2> DEFINE j == j0 + (n - 1)
             B == F(n - 1)
  <2> HIDE DEF c, j1
  <2>1. j0 + (n - 1) * 1 = j /\ j \in j0..(j1 - 1) /\ j \in 0..(N - 1)
    BY <1>2, <1>10
  <2>2. <<i, j>> \in P
    BY <2>1 DEF Places
  <2>3. \A p \in P : p = <<i, j>> <=> p[1] = i /\ p[2] = j
    BY DEF Places
  <2>10. \A p \in P : p[2] \in Nat
    BY PlaceTypes
  <2>4. \A p \in P : p[1] \in {i} /\ p[2] \in j0..(j0 + n - 1)
                       <=> (p[1] = i /\ p[2] \in j0..(j0 + (n - 1) - 1)) \/ p = <<i, j>>
    BY <1>2, <2>3, <2>10
  <2>5. B[<<i, j>>] = UpTo(k0)
    BY <2>1, <2>2 DEF Filling, Holds, j1
  <2>6. AccLoop(UpTo(k0), k0, K, BS) = UpTo(k1)
    BY Accumulated
  <2> HIDE DEF P, k1, j
  <2>7. \A p \in P : F(n)[p] = IF p = <<i, j>> THEN UpTo(k1) ELSE B[p]
    BY <2>4 DEF Filling
  <2>8. B = [p \in P |-> B[p]] /\ F(n) = [p \in P |-> F(n)[p]]
    BY DEF Filling
  <2> HIDE DEF B, F
  <2>9. F(n) = [B EXCEPT ![<<i, j>>] = UpTo(k1)]
    BY <2>2, <2>7, <2>8
  <2> QED
    BY <2>1, <2>5, <2>6, <2>9 DEF B
<1>5. F(c) = Filling(Places(M, N), C, {i}, j0..(Least(N, j0 + BS) - 1), Least(K, k0 + BS))
  BY <1>2
<1> HIDE DEF c, F
<1>6. \A n \in 0..c : G[n] = F(n)
  OBVIOUS
<1>7. \A n \in 1..c : n \in 0..c /\ n # 0 /\ n - 1 \in 0..c
  BY <1>2
<1>8. A = Eq(A)
  <2>1. G = Eq(G)
    <3> HIDE DEF Pass
    <3> QED
      BY <1>3, <1>4, <1>7
  <2> HIDE DEF Eq, G
  <2> QED
    BY <2>1, Zenon
<1>9. A[c] = F(c)
  <2> HIDE DEF A, G, Pass
  <2>1. A[0] = C /\ \A n \in 1..c : A[n] = Pass(A[n - 1], n)
    BY <1>2, <1>7, <1>8
  <2>2. G[0] = C /\ \A n \in 1..c : G[n] = Pass(G[n - 1], n)
    BY <1>2, <1>3, <1>4, <1>6, <1>7
  <2>3. c \in Nat /\ c \in 0..c /\ A[0] = G[0]
    BY <1>2, <2>1, <2>2
  <2>4. \A n \in 1..c : A[n - 1] = G[n - 1] => A[n] = G[n]
    BY <2>1, <2>2
  <2>5. A[c] = G[c]
    BY <2>3, <2>4, LoopsEndAlike, Zenon
  <2> QED
    BY <1>6, <2>3, <2>5
<1> QED
  BY <1>1, <1>5, <1>9

\* All rows of a block get the products of the block.
LEMMA BlockAdded ==
  ASSUME NEW M \in Nat, NEW N \in Nat, NEW K \in Nat, NEW BS \in Nat \ {0},
         NEW C \in Matrices(M, N), NEW i0 \in Nat, i0 < M, NEW j0 \in Nat, j0 < N, NEW k0 \in Nat, k0 < K,
         Holds(Places(M, N), C, i0..(Least(M, i0 + BS) - 1), j0..(Least(N, j0 + BS) - 1), k0)
  PROVE  BlockLoop(C, i0, j0, k0, M, N, K, BS) = Filling(Places(M, N), C, i0..(Least(M, i0 + BS) - 1),
                                                 j0..(Least(N, j0 + BS) - 1), Least(K, k0 + BS))
<1> DEFINE P == Places(M, N)
           i1 == Least(M, i0 + BS)
           J == j0..(Least(N, j0 + BS) - 1)
           k1 == Least(K, k0 + BS)
           c == (i1 - i0 + 1 - 1) \div 1
           F(n) == Filling(P, C, i0..(i0 + n - 1), J, k1)
           Pass(D, n) == ColumnLoop(D, i0 + (n - 1) * 1, j0, k0, N, K, BS)
           Eq(g) == [n \in 0..c |-> IF n = 0 THEN C ELSE Pass(g[n - 1], n)]
           G == [n \in 0..c |-> F(n)]
           A == CHOOSE g : g = Eq(g)
<1>1. BlockLoop(C, i0, j0, k0, M, N, K, BS) = A[c]
  BY Zenon DEF BlockLoop, Loop
<1>10. i1 \in Nat /\ i0 <= i1 /\ i1 <= M /\ k1 \in Nat
  BY DEF Least
<1>2. c \in Nat /\ i0 + c = i1
  <2> HIDE DEF i1
  <2>1. c = i1 - i0
    BY <1>10, SinglePasses
  <2> QED
    BY <1>10, <2>1
<1>3. F(0) = C
  <2>1. Holds(P, C, i0..(i0 + 0 - 1), J, k1)
    BY DEF Holds
  <2> QED
    BY <2>1, FillSame
<1>4. ASSUME NEW n \in 1..c
      PROVE  F(n) = Pass(F(n - 1), n)
  <2> DEFINE i == i0 + (n - 1)
             I == i0..(i0 + (n - 1) - 1)
             H == i0..(i0 + n - 1)
             B == F(n - 1)
  <2> HIDE DEF c, i1
  <2>1. i0 + (n - 1) * 1 = i /\ i \in i0..(i1 - 1) /\ i \in 0..(M - 1) /\ i \notin I
    BY <1>2, <1>10
  <2>10. \A p \in P : p[1] \in Nat
    BY PlaceTypes
  <2> HIDE DEF P
  <2>2. \A p \in P : p[1] \in H <=> p[1] \in {i} \/ p[1] \in I
    <3>1. \A x \in Nat : x \in H <=> x = i \/ x \in I
      BY <1>2
    <3> HIDE DEF H, I, i
    <3> QED
      BY <2>10, <3>1
  <2> USE DEF P
  <2>3. B \in Matrices(M, N)
    BY <1>10, FillType
  <2> HIDE DEF i, I, H, J, k1
  <2>4. B = Filling(P, C, I, J, k1) /\ F(n) = Filling(P, C, H, J, k1)
    BY DEF I, H
  <2>5. Holds(P, B, {i}, J, k0)
    <3>1. Holds(P, C, {i}, J, k0)
      BY <2>1 DEF Holds, J, i1
    <3> HIDE DEF P, B, F
    <3> QED
      BY <2>1, <2>4, <3>1 DEF Holds, Filling
  <2> HIDE DEF B, F
  <2>6. ColumnLoop(B, i, j0, k0, N, K, BS) = Filling(P, B, {i}, J, k1)
    BY <2>1, <2>3, <2>5, ColumnsAdded, SMTT(30) DEF J, k1
  <2> HIDE DEF P
  <2>7. Filling(P, Filling(P, C, I, J, k1), {i}, J, k1) = Filling(P, C, H, J, k1)
    BY <2>2, FillMore
  <2>8. F(n) = ColumnLoop(B, i, j0, k0, N, K, BS)
    BY <2>4, <2>6, <2>7
  <2> QED
    BY <2>1, <2>8 DEF B
<1>5. F(c) = Filling(Places(M, N), C, i0..(Least(M, i0 + BS) - 1),
                                                 j0..(Least(N, j0 + BS) - 1), Least(K, k0 + BS))
  BY <1>2
<1> HIDE DEF c, F
<1>6. \A n \in 0..c : G[n] = F(n)
  OBVIOUS
<1>7. \A n \in 1..c : n \in 0..c /\ n # 0 /\ n - 1 \in 0..c
  BY <1>2
<1>8. A = Eq(A)
  <2>1. G = Eq(G)
    <3> HIDE DEF Pass
    <3> QED
      BY <1>3, <1>4, <1>7
  <2> HIDE DEF Eq, G
  <2> QED
    BY <2>1, Zenon
<1>9. A[c] = F(c)
  <2> HIDE DEF A, G, Pass
  <2>1. A[0] = C /\ \A n \in 1..c : A[n] = Pass(A[n - 1], n)
    BY <1>2, <1>7, <1>8
  <2>2. G[0] = C /\ \A n \in 1..c : G[n] = Pass(G[n - 1], n)
    BY <1>2, <1>3, <1>4, <1>6, <1>7
  <2>3. c \in Nat /\ c \in 0..c /\ A[0] = G[0]
    BY <1>2, <2>1, <2>2
  <2>4. \A n \in 1..c : A[n - 1] = G[n - 1] => A[n] = G[n]
    BY <2>1, <2>2
  <2>5. A[c] = G[c]
    BY <2>3, <2>4, LoopsEndAlike, Zenon
  <2> QED
    BY <1>6, <2>3, <2>5
<1> QED
  BY <1>1, <1>5, <1>9

\* The blocks of products, one after the other, give a block all its products, in order.
LEMMA DepthAdded ==
  ASSUME NEW M \in Nat, NEW N \in Nat, NEW K \in Nat, NEW BS \in Nat \ {0},
         NEW C \in Matrices(M, N), NEW i0 \in Nat, i0 < M, NEW j0 \in Nat, j0 < N,
         Holds(Places(M, N), C, i0..(Least(M, i0 + BS) - 1), j0..(Least(N, j0 + BS) - 1), 0)
  PROVE  DepthLoop(C, i0, j0, M, N, K, BS) = Filling(Places(M, N), C, i0..(Least(M, i0 + BS) - 1), j0..(Least(N, j0 + BS) - 1), K)
<1> DEFINE P == Places(M, N)
           I == i0..(Least(M, i0 + BS) - 1)
           J == j0..(Least(N, j0 + BS) - 1)
           c == (K - 0 + BS - 1) \div BS
           F(n) == Filling(P, C, I, J, Least(K, n * BS))
           Pass(D, n) == BlockLoop(D, i0, j0, 0 + (n - 1) * BS, M, N, K, BS)
           Eq(g) == [n \in 0..c |-> IF n = 0 THEN C ELSE Pass(g[n - 1], n)]
           G == [n \in 0..c |-> F(n)]
           A == CHOOSE g : g = Eq(g)
<1>1. DepthLoop(C, i0, j0, M, N, K, BS) = A[c]
  BY Zenon DEF DepthLoop, Loop
<1>2. /\ c \in Nat /\ K <= c * BS
      /\ \A n \in 1..c : (n - 1) * BS \in Nat /\ (n - 1) * BS < K /\ n * BS = (n - 1) * BS + BS
  BY BlockPasses
<1>3. F(0) = C
  <2>1. Least(K, 0 * BS) = 0
    BY DEF Least
  <2> QED
    BY <2>1, FillSame
<1>4. ASSUME NEW n \in 1..c
      PROVE  F(n) = Pass(F(n - 1), n)
  <2> HIDE DEF c
  <2> DEFINE k0 == (n - 1) * BS
             k1 == Least(K, k0 + BS)
             B == F(n - 1)
  <2>1. k0 \in Nat /\ k0 < K /\ n * BS = k0 + BS
    BY <1>2
  <2> HIDE DEF k0
  <2>2. Least(K, k0) = k0 /\ 0 + k0 = k0
    BY <2>1 DEF Least
  <2>3. B = Filling(P, C, I, J, k0) /\ F(n) = Filling(P, C, I, J, k1)
    BY <2>1, <2>2 DEF k0
  <2> HIDE DEF B, F, I, J, k1
  <2>4. B \in Matrices(M, N) /\ Holds(P, B, I, J, k0)
    BY <2>1, <2>3, FillType
  <2>5. BlockLoop(B, i0, j0, k0, M, N, K, BS) = Filling(P, B, I, J, k1)
    BY <2>1, <2>4, BlockAdded, SMTT(30) DEF I, J, k1
  <2> HIDE DEF P
  <2>6. Filling(P, Filling(P, C, I, J, k0), I, J, k1) = Filling(P, C, I, J, k1)
    BY FillMore
  <2>7. F(n) = BlockLoop(B, i0, j0, k0, M, N, K, BS)
    BY <2>3, <2>5, <2>6
  <2> QED
    BY <2>2, <2>7 DEF B, k0
<1>5. F(c) = Filling(Places(M, N), C, i0..(Least(M, i0 + BS) - 1), j0..(Least(N, j0 + BS) - 1), K)
  <2> HIDE DEF c
  <2>1. Least(K, c * BS) = K
    BY <1>2 DEF Least
  <2> QED
    BY <2>1
<1> HIDE DEF c, F
<1>6. \A n \in 0..c : G[n] = F(n)
  OBVIOUS
<1>7. \A n \in 1..c : n \in 0..c /\ n # 0 /\ n - 1 \in 0..c
  BY <1>2
<1>8. A = Eq(A)
  <2>1. G = Eq(G)
    <3> HIDE DEF Pass
    <3> QED
      BY <1>3, <1>4, <1>7
  <2> HIDE DEF Eq, G
  <2> QED
    BY <2>1, Zenon
<1>9. A[c] = F(c)
  <2> HIDE DEF A, G, Pass
  <2>1. A[0] = C /\ \A n \in 1..c : A[n] = Pass(A[n - 1], n)
    BY <1>2, <1>7, <1>8
  <2>2. G[0] = C /\ \A n \in 1..c : G[n] = Pass(G[n - 1], n)
    BY <1>2, <1>3, <1>4, <1>6, <1>7
  <2>3. c \in Nat /\ c \in 0..c /\ A[0] = G[0]
    BY <1>2, <2>1, <2>2
  <2>4. \A n \in 1..c : A[n - 1] = G[n - 1] => A[n] = G[n]
    BY <2>1, <2>2
  <2>5. A[c] = G[c]
    BY <2>3, <2>4, LoopsEndAlike, Zenon
  <2> QED
    BY <1>6, <2>3, <2>5
<1> QED
  BY <1>1, <1>5, <1>9

\* The blocks of columns give the rows of a strip all their products.
LEMMA StripAdded ==
  ASSUME NEW M \in Nat, NEW N \in Nat, NEW K \in Nat, NEW BS \in Nat \ {0},
         NEW C \in Matrices(M, N), NEW i0 \in Nat, i0 < M,
         Holds(Places(M, N), C, i0..(Least(M, i0 + BS) - 1), 0..(N - 1), 0)
  PROVE  StripLoop(C, i0, M, N, K, BS) = Filling(Places(M, N), C, i0..(Least(M, i0 + BS) - 1), 0..(N - 1), K)
<1> DEFINE P == Places(M, N)
           I == i0..(Least(M, i0 + BS) - 1)
           c == (N - 0 + BS - 1) \div BS
           F(n) == Filling(P, C, I, 0..(Least(N, n * BS) - 1), K)
           Pass(D, n) == DepthLoop(D, i0, 0 + (n - 1) * BS, M, N, K, BS)
           Eq(g) == [n \in 0..c |-> IF n = 0 THEN C ELSE Pass(g[n - 1], n)]
           G == [n \in 0..c |-> F(n)]
           A == CHOOSE g : g = Eq(g)
<1>1. StripLoop(C, i0, M, N, K, BS) = A[c]
  BY Zenon DEF StripLoop, Loop
<1>2. /\ c \in Nat /\ N <= c * BS
      /\ \A n \in 1..c : (n - 1) * BS \in Nat /\ (n - 1) * BS < N /\ n * BS = (n - 1) * BS + BS
  BY BlockPasses
<1>3. F(0) = C
  <2>1. 0..(Least(N, 0 * BS) - 1) = {}
    BY DEF Least
  <2>2. Holds(P, C, I, {}, K)
    BY DEF Holds
  <2> QED
    BY <2>1, <2>2, FillSame
<1>4. ASSUME NEW n \in 1..c
      PROVE  F(n) = Pass(F(n - 1), n)
  <2> HIDE DEF c
  <2> DEFINE j0 == (n - 1) * BS
             L == 0..(j0 - 1)
             J == j0..(Least(N, j0 + BS) - 1)
             H == 0..(Least(N, j0 + BS) - 1)
             B == F(n - 1)
  <2>1. j0 \in Nat /\ j0 < N /\ n * BS = j0 + BS
    BY <1>2
  <2> HIDE DEF j0
  <2>2. Least(N, j0) = j0 /\ 0 + j0 = j0
    BY <2>1 DEF Least
  <2>3. B = Filling(P, C, I, L, K) /\ F(n) = Filling(P, C, I, H, K)
    BY <2>1, <2>2 DEF j0
  <2>4. \A x \in Nat : /\ x \in H <=> x \in L \/ x \in J
                       /\ x \in J => x \notin L /\ x \in 0..(N - 1)
    BY <2>1 DEF Least
  <2>5. \A p \in P : p[2] \in Nat
    BY PlaceTypes
  <2> HIDE DEF B, F, I, J, L, H
  <2>6. B \in Matrices(M, N)
    BY <2>3, FillType
  <2>7. Holds(P, B, I, J, 0)
    <3> HIDE DEF P
    <3>1. Holds(P, C, I, J, 0)
      BY <2>4, <2>5 DEF Holds, P, I
    <3> QED
      BY <2>3, <2>4, <2>5, <3>1 DEF Holds, Filling
  <2>8. DepthLoop(B, i0, j0, M, N, K, BS) = Filling(P, B, I, J, K)
    BY <2>1, <2>6, <2>7, DepthAdded, SMTT(30) DEF I, J
  <2> HIDE DEF P
  <2>9. Filling(P, Filling(P, C, I, L, K), I, J, K) = Filling(P, C, I, H, K)
    BY <2>4, <2>5, FillMore
  <2>10. F(n) = DepthLoop(B, i0, j0, M, N, K, BS)
    BY <2>3, <2>8, <2>9
  <2> QED
    BY <2>2, <2>10 DEF B, j0
<1>5. F(c) = Filling(Places(M, N), C, i0..(Least(M, i0 + BS) - 1), 0..(N - 1), K)
  <2> HIDE DEF c
  <2>1. Least(N, c * BS) = N
    BY <1>2 DEF Least
  <2> QED
    BY <2>1
<1> HIDE DEF c, F
<1>6. \A n \in 0..c : G[n] = F(n)
  OBVIOUS
<1>7. \A n \in 1..c : n \in 0..c /\ n # 0 /\ n - 1 \in 0..c
  BY <1>2
<1>8. A = Eq(A)
  <2>1. G = Eq(G)
    <3> HIDE DEF Pass
    <3> QED
      BY <1>3, <1>4, <1>7
  <2> HIDE DEF Eq, G
  <2> QED
    BY <2>1, Zenon
<1>9. A[c] = F(c)
  <2> HIDE DEF A, G, Pass
  <2>1. A[0] = C /\ \A n \in 1..c : A[n] = Pass(A[n - 1], n)
    BY <1>2, <1>7, <1>8
  <2>2. G[0] = C /\ \A n \in 1..c : G[n] = Pass(G[n - 1], n)
    BY <1>2, <1>3, <1>4, <1>6, <1>7
  <2>3. c \in Nat /\ c \in 0..c /\ A[0] = G[0]
    BY <1>2, <2>1, <2>2
  <2>4. \A n \in 1..c : A[n - 1] = G[n - 1] => A[n] = G[n]
    BY <2>1, <2>2
  <2>5. A[c] = G[c]
    BY <2>3, <2>4, LoopsEndAlike, Zenon
  <2> QED
    BY <1>6, <2>3, <2>5
<1> QED
  BY <1>1, <1>5, <1>9

\* matmul_avx2 adds to each element its products, in order.
LEMMA BlocksMultiplied ==
  ASSUME NEW M \in Nat, NEW N \in Nat, NEW K \in Nat, NEW BS \in Nat \ {0}
  PROVE  matmul_avx2(M, N, K, BS) = [p \in Places(M, N) |-> UpTo(K)]
<1> DEFINE P == Places(M, N)
           Z == Zeros(M, N)
           J == 0..(N - 1)
           c == (M - 0 + BS - 1) \div BS
           F(n) == Filling(P, Z, 0..(Least(M, n * BS) - 1), J, K)
           Pass(D, n) == StripLoop(D, 0 + (n - 1) * BS, M, N, K, BS)
           Eq(g) == [n \in 0..c |-> IF n = 0 THEN Z ELSE Pass(g[n - 1], n)]
           G == [n \in 0..c |-> F(n)]
           A == CHOOSE g : g = Eq(g)
<1>1. matmul_avx2(M, N, K, BS) = A[c]
  BY Zenon DEF matmul_avx2, StripLoop, DepthLoop, BlockLoop, ColumnLoop, AccLoop, Loop
<1>2. /\ c \in Nat /\ M <= c * BS
      /\ \A n \in 1..c : (n - 1) * BS \in Nat /\ (n - 1) * BS < M /\ n * BS = (n - 1) * BS + BS
  BY BlockPasses
<1>10. /\ Z = [p \in P |-> UpTo(0)]
       /\ Z \in Matrices(M, N)
  <2>1. UpTo(0) = <<>>
    BY DEF UpTo
  <2> QED
    BY <2>1 DEF Zeros, Places, Matrices
<1>3. F(0) = Z
  <2>1. 0..(Least(M, 0 * BS) - 1) = {}
    BY DEF Least
  <2>2. Holds(P, Z, {}, J, K)
    BY DEF Holds
  <2> QED
    BY <1>10, <2>1, <2>2, FillSame
<1>4. ASSUME NEW n \in 1..c
      PROVE  F(n) = Pass(F(n - 1), n)
  <2> HIDE DEF c, Z
  <2> DEFINE i0 == (n - 1) * BS
             L == 0..(i0 - 1)
             I == i0..(Least(M, i0 + BS) - 1)
             H == 0..(Least(M, i0 + BS) - 1)
             B == F(n - 1)
  <2>1. i0 \in Nat /\ i0 < M /\ n * BS = i0 + BS
    BY <1>2
  <2> HIDE DEF i0
  <2>2. Least(M, i0) = i0 /\ 0 + i0 = i0
    BY <2>1 DEF Least
  <2>3. B = Filling(P, Z, L, J, K) /\ F(n) = Filling(P, Z, H, J, K)
    BY <2>1, <2>2 DEF i0
  <2>4. \A x \in Nat : /\ x \in H <=> x \in L \/ x \in I
                       /\ x \in I => x \notin L
    BY <2>1 DEF Least
  <2>5. \A p \in P : p[1] \in Nat
    BY PlaceTypes
  <2> HIDE DEF B, F, I, J, L, H
  <2>6. B \in Matrices(M, N)
    BY <1>10, <2>3, FillType
  <2>7. Holds(P, B, I, J, 0)
    <3> HIDE DEF P
    <3>1. Holds(P, Z, I, J, 0)
      BY <1>10 DEF Holds
    <3> QED
      BY <2>3, <2>4, <2>5, <3>1 DEF Holds, Filling
  <2>8. StripLoop(B, i0, M, N, K, BS) = Filling(P, B, I, J, K)
    BY <2>1, <2>6, <2>7, StripAdded, SMTT(30) DEF I, J
  <2> HIDE DEF P
  <2>9. Filling(P, Filling(P, Z, L, J, K), I, J, K) = Filling(P, Z, H, J, K)
    BY <2>4, <2>5, FillMore
  <2>10. F(n) = StripLoop(B, i0, M, N, K, BS)
    BY <2>3, <2>8, <2>9
  <2> QED
    BY <2>2, <2>10 DEF B, i0
<1>5. F(c) = [p \in Places(M, N) |-> UpTo(K)]
  <2> HIDE DEF c, Z
  <2>1. Least(M, c * BS) = M
    BY <1>2 DEF Least
  <2>2. \A p \in P : p[1] \in 0..(M - 1) /\ p[2] \in J
    BY PlaceTypes
  <2> QED
    BY <2>1, <2>2 DEF Filling
<1> HIDE DEF c, F
<1>6. \A n \in 0..c : G[n] = F(n)
  OBVIOUS
<1>7. \A n \in 1..c : n \in 0..c /\ n # 0 /\ n - 1 \in 0..c
  BY <1>2
<1>8. A = Eq(A)
  <2>1. G = Eq(G)
    <3> HIDE DEF Pass
    <3> QED
      BY <1>3, <1>4, <1>7
  <2> HIDE DEF Eq, G
  <2> QED
    BY <2>1, Zenon
<1>9. A[c] = F(c)
  <2> HIDE DEF A, G, Pass
  <2>1. A[0] = Z /\ \A n \in 1..c : A[n] = Pass(A[n - 1], n)
    BY <1>2, <1>7, <1>8
  <2>2. G[0] = Z /\ \A n \in 1..c : G[n] = Pass(G[n - 1], n)
    BY <1>2, <1>3, <1>4, <1>6, <1>7
  <2>3. c \in Nat /\ c \in 0..c /\ A[0] = G[0]
    BY <1>2, <2>1, <2>2
  <2>4. \A n \in 1..c : A[n - 1] = G[n - 1] => A[n] = G[n]
    BY <2>1, <2>2
  <2>5. A[c] = G[c]
    BY <2>3, <2>4, LoopsEndAlike, Zenon
  <2> QED
    BY <1>6, <2>3, <2>5
<1> QED
  BY <1>1, <1>5, <1>9
-----------------------------------------------------------------------------
(* The readers of rows: what getline makes of a text, and of one that was  *)
(* cut.                                                                    *)

\* What getline has returned, and the piece it is in.
Reading(T) == [done : Seq(Seq(T)), cur : Seq(T)]

Begun == [done |-> <<>>, cur |-> <<>>]

\* A character keeps the types.
LEMMA GetlineType ==
  ASSUME NEW T, NEW p \in Reading(T), NEW c \in T, NEW sep
  PROVE  Getline(p, c, sep) \in Reading(T)
<1>1. p.done \in Seq(Seq(T)) /\ p.cur \in Seq(T)
  BY DEF Reading
<1>2. Append(p.done, p.cur) \in Seq(Seq(T)) /\ Append(p.cur, c) \in Seq(T) /\ <<>> \in Seq(T)
  BY <1>1
<1>3. [done |-> Append(p.done, p.cur), cur |-> <<>>] \in Reading(T)
  BY <1>2 DEF Reading
<1>4. [p EXCEPT !.cur = Append(p.cur, c)] \in Reading(T)
  BY <1>2, Zenon DEF Reading
<1> QED
  BY <1>3, <1>4, Zenon DEF Getline

\* The states of getline at the ends of the prefixes of a text.
Splits(P, T, text, sep) ==
  /\ P \in [0..Len(text) -> Reading(T)] /\ P[0] = Begun /\ P[Len(text)] = Split(text, sep)
  /\ \A k \in 1..Len(text) : P[k] = Getline(P[k - 1], text[k], sep)

\* getline goes through the text character by character.
LEMMA SplitStates ==
  ASSUME NEW T, NEW text \in Seq(T), NEW sep
  PROVE  \E P : Splits(P, T, text, sep)
<1> DEFINE V == Reading(T)
           n == Len(text)
           step == [p \in V \X (1..n) |-> Getline(p[1], text[p[2]], sep)]
           Body(g) == [s \in SUBSET (1..n) |->
                         IF s = {} THEN Begun
                         ELSE Getline(g[s \ {Top(s)}], text[Top(s)], sep)]
           iter == CHOOSE g : g = Body(g)
<1>1. n \in Nat /\ DOMAIN text = 1..n
  OBVIOUS
<1>2. Split(text, sep) = iter[1..n]
  BY <1>1 DEF Split, Begun, FoldLeft, MapThenFoldSet, Max, Top
<1>3. Begun \in V /\ step \in [V \X (1..n) -> V]
  <2>1. Begun \in V
    BY DEF Begun, Reading
  <2>2. \A v \in V, k \in 1..n : Getline(v, text[k], sep) \in V
    <3>1. \A k \in 1..n : text[k] \in T
      BY <1>1
    <3> QED
      BY <3>1, GetlineType
  <2> HIDE DEF V
  <2> QED
    BY <2>1, <2>2
<1> HIDE DEF V
<1>4. \E g : g = Body(g)
  <2>1. PICK G \in [SUBSET (1..n) -> V] : Folding(n, Begun, step, G)
    <3> HIDE DEF step, n
    <3> QED
      BY <1>1, <1>3, FoldExists, Zenon
  <2>2. ASSUME NEW s \in SUBSET (1..n), s # {}
        PROVE  step[<<G[s \ {Top(s)}], Top(s)>>] = Getline(G[s \ {Top(s)}], text[Top(s)], sep)
    <3>1. Top(s) \in 1..n /\ s \ {Top(s)} \in SUBSET (1..n)
      BY <1>1, <2>2, TopIn
    <3> QED
      BY <3>1
  <2>3. G = Body(G)
    BY <2>1, <2>2 DEF Folding
  <2> QED
    BY <2>3
<1>5. iter = Body(iter)
  <2> HIDE DEF Body
  <2> QED
    BY <1>4, Zenon
<1> HIDE DEF iter
<1>6. FoldingIn(V, n, Begun, step, iter)
  <2>1. /\ iter[{}] = Begun
        /\ \A s \in SUBSET (1..n) :
             s # {} => iter[s] = Getline(iter[s \ {Top(s)}], text[Top(s)], sep)
    BY <1>5
  <2> QED
    BY <1>1, <2>1, TopIn DEF FoldingIn
<1>7. PICK P \in [0..n -> V] : PrefixValues(n, Begun, step, iter[1..n], P)
  <2> HIDE DEF step, n
  <2> QED
    BY <1>1, <1>3, <1>6, FoldPrefixes, Zenon
<1>8. /\ P[0] = Begun /\ P[n] = iter[1..n]
      /\ \A k \in 1..n : P[k] = Getline(P[k - 1], text[k], sep)
  <2>1. \A k \in 1..n : k - 1 \in 0..n
    BY <1>1
  <2> QED
    BY <1>7, <2>1 DEF PrefixValues
<1>9. Splits(P, T, text, sep)
  BY <1>2, <1>7, <1>8 DEF V, Splits
<1> QED
  BY <1>9

\* t goes on as s has begun.
Extends(t, s) == Len(s) <= Len(t) /\ \A i \in 1..Len(s) : t[i] = s[i]

\* What getline has made of a text, in state q, goes on as p.
GoesOn(q, p) ==
  \/ q.done = p.done /\ Extends(q.cur, p.cur)
  \/ /\ Extends(q.done, p.done) /\ Len(q.done) > Len(p.done)
     /\ Extends(q.done[Len(p.done) + 1], p.cur)

\* t is s and x behind it.
Grown(t, s, x) ==
  /\ Len(t) = Len(s) + 1 /\ t[Len(s) + 1] = x
  /\ \A i \in 1..Len(s) : t[i] = s[i]

\* What Append does.
LEMMA Appending ==
  ASSUME NEW T, NEW s \in Seq(T), NEW x \in T
  PROVE  Append(s, x) \in Seq(T) /\ Grown(Append(s, x), s, x)
BY DEF Grown

\* What has been appended to goes on as before.
LEMMA GrownExtends ==
  ASSUME NEW T, NEW s \in Seq(T), NEW t, NEW x, Grown(t, s, x)
  PROVE  /\ Extends(t, s) /\ Len(t) > Len(s)
         /\ \A r \in Seq(T) : Extends(s, r) => Extends(t, r) /\ Len(t) > Len(r)
BY DEF Grown, Extends

\* Another character does not change that.
LEMMA GoesOnNext ==
  ASSUME NEW T, NEW p \in Reading(T), NEW q \in Reading(T), NEW c \in T, NEW sep, GoesOn(q, p)
  PROVE  GoesOn(Getline(q, c, sep), p)
<1> DEFINE r == Getline(q, c, sep)
<1>1. /\ p.done \in Seq(Seq(T)) /\ p.cur \in Seq(T)
      /\ q.done \in Seq(Seq(T)) /\ q.cur \in Seq(T)
  BY DEF Reading
<1>2. /\ c = sep => r.done = Append(q.done, q.cur) /\ r.cur = <<>>
      /\ c # sep => r.done = q.done /\ r.cur = Append(q.cur, c)
  BY <1>1 DEF Getline, Reading
<1> HIDE DEF r
<1>3. CASE c = sep
  <2>1. Grown(r.done, q.done, q.cur)
    BY <1>1, <1>2, <1>3, Appending, Zenon
  <2>2. CASE q.done = p.done /\ Extends(q.cur, p.cur)
    <3>1. Extends(r.done, p.done) /\ Len(r.done) > Len(p.done)
      BY <1>1, <2>1, <2>2, GrownExtends, Zenon
    <3>2. GoesOn(r, p)
      BY <2>1, <2>2, <3>1 DEF GoesOn, Grown
    <3> QED
      BY <3>2 DEF r
  <2>3. CASE /\ Extends(q.done, p.done) /\ Len(q.done) > Len(p.done)
             /\ Extends(q.done[Len(p.done) + 1], p.cur)
    <3>1. Len(p.done) + 1 \in 1..Len(q.done)
      BY <1>1, <2>3
    <3>2. Extends(r.done, p.done) /\ Len(r.done) > Len(p.done)
      BY <1>1, <2>1, <2>3, GrownExtends, Zenon
    <3>3. GoesOn(r, p)
      BY <2>1, <2>3, <3>1, <3>2 DEF GoesOn, Grown
    <3> QED
      BY <3>3 DEF r
  <2> QED
    BY <2>2, <2>3 DEF GoesOn
<1>4. CASE c # sep
  <2>1. Extends(q.cur, p.cur) => Extends(r.cur, p.cur)
    <3>1. Grown(r.cur, q.cur, c)
      BY <1>1, <1>2, <1>4, Appending, Zenon
    <3> QED
      BY <1>1, <3>1, GrownExtends, Zenon
  <2>2. GoesOn(r, p)
    BY <1>2, <1>4, <2>1 DEF GoesOn
  <2> QED
    BY <2>2 DEF r
<1> QED
  BY <1>3, <1>4

\* getline goes on behind a cut where it was: what is done stays done.
LEMMA SplitGoesOn ==
  ASSUME NEW T, NEW text \in Seq(T), NEW k \in 0..Len(text), NEW sep
  PROVE  /\ Split(SubSeq(text, 1, k), sep) \in Reading(T)
         /\ Split(text, sep) \in Reading(T)
         /\ GoesOn(Split(text, sep), Split(SubSeq(text, 1, k), sep))
<1> DEFINE n == Len(text)
           cut == SubSeq(text, 1, k)
<1>1. n \in Nat /\ k \in Nat /\ k <= n /\ \A j \in 1..n : text[j] \in T
  OBVIOUS
<1>2. cut \in Seq(T) /\ Len(cut) = k /\ \A i \in 1..k : cut[i] = text[i]
  BY Cutting
<1>3. PICK P : Splits(P, T, text, sep)
  BY SplitStates
<1>4. PICK Q : Splits(Q, T, cut, sep)
  <2> HIDE DEF cut
  <2> QED
    BY <1>2, SplitStates
<1> HIDE DEF cut, n
<1>5. Q[k] = P[k]
  <2>1. \A j \in 1..k : Q[j - 1] = P[j - 1] => Q[j] = P[j]
    <3> SUFFICES ASSUME NEW j \in 1..k, Q[j - 1] = P[j - 1] PROVE Q[j] = P[j]
      OBVIOUS
    <3>1. j \in 1..n /\ j \in 1..Len(cut)
      BY <1>1, <1>2
    <3>2. Q[j] = Getline(Q[j - 1], cut[j], sep) /\ P[j] = Getline(P[j - 1], text[j], sep)
      BY <1>3, <1>4, <3>1, Zenon DEF Splits, n
    <3>3. cut[j] = text[j]
      BY <1>2
    <3> QED
      BY <3>2, <3>3, Zenon
  <2>2. Q[0] = P[0] /\ k \in Nat
    BY <1>1, <1>3, <1>4 DEF Splits
  <2> QED
    BY <2>1, <2>2, LoopsEndAlike, Zenon
<1>6. \A j \in 0..n : P[j] \in Reading(T)
  BY <1>3 DEF Splits, n
<1>7. P[k] \in Reading(T) /\ P[n] \in Reading(T)
  BY <1>1, <1>6
<1>8. GoesOn(P[n], P[k])
  <2> DEFINE S == {j \in 0..(n - k) : GoesOn(P[k + j], P[k])}
  <2>1. 0 \in S
    <3>1. P[k].cur \in Seq(T)
      BY <1>7 DEF Reading
    <3>2. Extends(P[k].cur, P[k].cur)
      BY <3>1 DEF Extends
    <3>3. GoesOn(P[k], P[k])
      BY <3>2 DEF GoesOn
    <3>4. k + 0 = k /\ 0 \in 0..(n - k)
      BY <1>1
    <3> QED
      BY <3>3, <3>4
  <2>2. ASSUME NEW j \in 0..((n - k) - 1), j \in S
        PROVE  j + 1 \in S
    <3>1. /\ j + 1 \in 0..(n - k) /\ k + j \in 0..n /\ k + (j + 1) \in 1..n
          /\ (k + (j + 1)) - 1 = k + j
      BY <1>1
    <3>2. P[k + j] \in Reading(T) /\ text[k + (j + 1)] \in T
      BY <1>1, <1>6, <3>1
    <3>3. P[k + (j + 1)] = Getline(P[k + j], text[k + (j + 1)], sep)
      BY <1>3, <3>1, Zenon DEF Splits, n
    <3>4. GoesOn(P[k + (j + 1)], P[k])
      BY <1>7, <2>2, <3>2, <3>3, GoesOnNext
    <3> QED
      BY <3>1, <3>4
  <2>3. n - k \in Nat /\ k + (n - k) = n
    BY <1>1
  <2>4. n - k \in S
    <3> HIDE DEF S
    <3>1. 0..(n - k) \subseteq S
      BY <2>1, <2>2, <2>3, IntervalInduction
    <3> QED
      BY <2>3, <3>1
  <2> QED
    BY <2>3, <2>4
<1> QED
  <2>1. Split(text, sep) = P[n] /\ Split(cut, sep) = P[k]
    BY <1>2, <1>3, <1>4, <1>5, Zenon DEF Splits, n
  <2> QED
    BY <1>7, <1>8, <2>1 DEF cut

\* x is what comes of a text that was cut: it has the pieces of the whole text y, but
\* for the last, which may be cut.
Almost(x, y) ==
  /\ Len(x) <= Len(y)
  /\ \A i \in 1..Len(x) : i < Len(x) => x[i] = y[i]
  /\ Len(x) > 0 => Extends(y[Len(x)], x[Len(x)])

\* The pieces of what getline has done, and of what it is in.
AllPieces(p) == IF p.cur = <<>> THEN p.done ELSE Append(p.done, p.cur)

\* They are sequences of pieces; a text that is not empty has one.
LEMMA AllPiecesType ==
  ASSUME NEW T, NEW p \in Reading(T)
  PROVE  AllPieces(p) \in Seq(Seq(T))
BY DEF AllPieces, Reading

\* Every piece extends itself.
LEMMA ExtendsSelf == ASSUME NEW T, NEW s \in Seq(T) PROVE Extends(s, s)
BY DEF Extends

\* What is cut has almost the pieces of the whole.
LEMMA AllPiecesAlmost ==
  ASSUME NEW T, NEW p \in Reading(T), NEW q \in Reading(T), GoesOn(q, p)
  PROVE  Almost(AllPieces(p), AllPieces(q))
<1> DEFINE x == AllPieces(p)
           y == AllPieces(q)
           m == Len(p.done)
<1>1. /\ p.done \in Seq(Seq(T)) /\ p.cur \in Seq(T)
      /\ q.done \in Seq(Seq(T)) /\ q.cur \in Seq(T)
      /\ m \in Nat
  BY DEF Reading
<1>2. /\ p.cur = <<>> => x = p.done
      /\ p.cur # <<>> => Grown(x, p.done, p.cur)
      /\ q.cur = <<>> => y = q.done
      /\ q.cur # <<>> => Grown(y, q.done, q.cur)
  BY <1>1, Appending, Zenon DEF AllPieces
<1>3. x \in Seq(Seq(T)) /\ y \in Seq(Seq(T))
  BY AllPiecesType
<1> HIDE DEF x, y
<1>4. Len(x) \in Nat /\ Len(y) \in Nat /\ Len(q.done) \in Nat /\ Extends(y, q.done)
  <2>1. q.cur # <<>> => Extends(y, q.done)
    BY <1>1, <1>2, GrownExtends, Zenon
  <2>2. q.cur = <<>> => Extends(y, q.done)
    BY <1>1, <1>2, ExtendsSelf, Zenon
  <2> QED
    BY <1>1, <1>3, <2>1, <2>2
<1>5. Len(y) >= m /\ \A i \in 1..m : y[i] = p.done[i]
  <2>1. CASE q.done = p.done /\ Extends(q.cur, p.cur)
    BY <1>1, <1>4, <2>1 DEF Extends
  <2>2. CASE /\ Extends(q.done, p.done) /\ Len(q.done) > m
             /\ Extends(q.done[m + 1], p.cur)
    <3>1. \A i \in 1..m : i \in 1..Len(q.done)
      BY <1>1, <1>4, <2>2
    <3> QED
      BY <1>1, <1>4, <2>2, <3>1 DEF Extends
  <2> QED
    BY <2>1, <2>2 DEF GoesOn
<1>6. CASE p.cur = <<>>
  <2>1. m > 0 => Extends(p.done[m], p.done[m])
    <3>1. m > 0 => p.done[m] \in Seq(T)
      BY <1>1
    <3> QED
      BY <3>1, ExtendsSelf
  <2> HIDE DEF m
  <2>2. Len(x) = m /\ \A i \in 1..m : x[i] = p.done[i]
    BY <1>2, <1>6 DEF m
  <2>3. m > 0 => m \in 1..m
    BY <1>1
  <2>4. Almost(x, y)
    BY <1>1, <1>5, <2>1, <2>2, <2>3 DEF Almost
  <2> QED
    BY <2>4 DEF x, y
<1>7. CASE p.cur # <<>>
  <2>1. Len(x) = m + 1 /\ x[m + 1] = p.cur /\ \A i \in 1..m : x[i] = p.done[i]
    BY <1>2, <1>7 DEF Grown
  <2>2. Len(y) >= m + 1 /\ Extends(y[m + 1], p.cur)
    <3>1. CASE q.done = p.done /\ Extends(q.cur, p.cur)
      <4>1. Len(p.cur) > 0 /\ Len(q.cur) >= Len(p.cur)
        BY <1>1, <1>7, <3>1 DEF Extends
      <4>2. q.cur # <<>>
        BY <1>1, <4>1
      <4> QED
        BY <1>1, <1>2, <3>1, <4>2 DEF Grown
    <3>2. CASE /\ Extends(q.done, p.done) /\ Len(q.done) > m
               /\ Extends(q.done[m + 1], p.cur)
      <4>0. m \in Nat /\ Len(q.done) \in Nat /\ Len(q.done) > m
        BY <1>1, <1>4, <3>2, Zenon
      <4>1. m + 1 \in 1..Len(q.done)
        <5> HIDE DEF m
        <5> QED
          BY <4>0
      <4>2. Len(y) >= Len(q.done) /\ y[m + 1] = q.done[m + 1]
        BY <1>4, <4>1 DEF Extends
      <4> QED
        BY <1>1, <1>4, <3>2, <4>1, <4>2
    <3> QED
      BY <3>1, <3>2 DEF GoesOn
  <2> HIDE DEF m
  <2>3. Almost(x, y)
    BY <1>1, <1>4, <1>5, <2>1, <2>2 DEF Almost
  <2> QED
    BY <2>3 DEF x, y
<1> QED
  BY <1>6, <1>7

\* A text that is cut has almost the pieces of the whole text.
LEMMA PiecesAlmost ==
  ASSUME NEW T, NEW text \in Seq(T), NEW k \in 0..Len(text), NEW sep
  PROVE  /\ Pieces(SubSeq(text, 1, k), sep) \in Seq(Seq(T))
         /\ Pieces(text, sep) \in Seq(Seq(T))
         /\ Almost(Pieces(SubSeq(text, 1, k), sep), Pieces(text, sep))
<1> DEFINE p == Split(SubSeq(text, 1, k), sep)
           q == Split(text, sep)
<1>1. p \in Reading(T) /\ q \in Reading(T) /\ GoesOn(q, p)
  BY SplitGoesOn
<1>2. Pieces(SubSeq(text, 1, k), sep) = AllPieces(p) /\ Pieces(text, sep) = AllPieces(q)
  BY DEF Pieces, AllPieces
<1> HIDE DEF p, q
<1> QED
  BY <1>1, <1>2, AllPiecesType, AllPiecesAlmost, Zenon

\* What has been appended to is not empty.
LEMMA AppendSome == ASSUME NEW T, NEW s \in Seq(T), NEW x \in T PROVE Append(s, x) # <<>>
<1>1. Len(Append(s, x)) = Len(s) + 1 /\ Len(s) \in Nat
  OBVIOUS
<1> QED
  BY <1>1

\* A line that is not empty has a piece.
LEMMA LinePieces ==
  ASSUME NEW T, NEW line \in Seq(T), line # <<>>, NEW sep
  PROVE  Pieces(line, sep) \in Seq(Seq(T)) /\ Pieces(line, sep) # <<>>
<1> DEFINE n == Len(line)
           Some(p) == p.done # <<>> \/ p.cur # <<>>
<1>1. n \in Nat /\ n - 1 \in 0..n /\ n \in 1..n /\ line[n] \in T
  OBVIOUS
<1>2. PICK P : Splits(P, T, line, sep)
  BY SplitStates
<1> DEFINE p == P[n - 1]
           q == P[n]
<1>3. p \in Reading(T) /\ q \in Reading(T) /\ q = Getline(p, line[n], sep)
  <2>1. /\ P \in [0..n -> Reading(T)]
        /\ \A j \in 1..n : P[j] = Getline(P[j - 1], line[j], sep)
    BY <1>2 DEF Splits
  <2> HIDE DEF n
  <2>2. n \in 0..n
    BY <1>1
  <2> QED
    BY <1>1, <2>1, <2>2, Zenon
<1> HIDE DEF n, p, q
<1>4. p.done \in Seq(Seq(T)) /\ p.cur \in Seq(T) /\ q.done \in Seq(Seq(T)) /\ q.cur \in Seq(T)
  BY <1>3 DEF Reading
<1>5. Some(q)
  <2>1. line[n] = sep => q.done = Append(p.done, p.cur)
    BY <1>3 DEF Getline
  <2>2. line[n] # sep => q.cur = Append(p.cur, line[n])
    BY <1>3 DEF Getline, Reading
  <2>3. Append(p.done, p.cur) # <<>> /\ Append(p.cur, line[n]) # <<>>
    BY <1>1, <1>4, AppendSome, Zenon
  <2> QED
    BY <2>1, <2>2, <2>3
<1>6. AllPieces(q) \in Seq(Seq(T)) /\ AllPieces(q) # <<>>
  <2>1. Append(q.done, q.cur) # <<>>
    BY <1>4, AppendSome, Zenon
  <2> QED
    BY <1>3, <1>5, <2>1, AllPiecesType DEF AllPieces
<1>7. Pieces(line, sep) = AllPieces(q)
  <2>1. q = Split(line, sep)
    BY <1>2 DEF Splits, q, n
  <2> QED
    BY <2>1 DEF Pieces, AllPieces
<1> QED
  BY <1>6, <1>7

\* The characters of the number that a cell begins with.
InNumber(cell, i) == cell[i] \in Digits \/ (i = 1 /\ cell[i] = "-")

\* It has k characters.
Number(cell, k) ==
  /\ k \in 0..Len(cell) /\ \A i \in 1..k : InNumber(cell, i)
  /\ k < Len(cell) => ~InNumber(cell, k + 1)

\* What stod makes of the cell, when its number has k characters.
StodOf(cell, k) ==
  IF \E i \in 1..k : cell[i] \in Digits THEN SubSeq(cell, 1, k)
  ELSE IF k < Len(cell) /\ cell[k + 1] = "n" THEN NotFinite ELSE Malformed

\* stod looks at the number that the cell begins with.
LEMMA StodNumber ==
  ASSUME NEW T, NEW cell \in Seq(T)
  PROVE  \E k \in 0..Len(cell) : Number(cell, k) /\ Stod(cell) = StodOf(cell, k)
<1> DEFINE n == Len(cell)
           S == {k \in 0..n : \A i \in 1..k : InNumber(cell, i)}
           k == Max(S)
<1>1. n \in Nat /\ 0 \in S
  OBVIOUS
<1>2. k \in S /\ \A j \in S : k >= j
  <2>1. CASE S = {0}
    <3>1. \E x \in S : \A y \in S : x >= y
      BY <2>1
    <3> HIDE DEF S
    <3> QED
      BY <3>1 DEF Max
  <2>2. CASE S # {0}
    <3> DEFINE R == S \ {0}
    <3>1. R \in SUBSET (1..n) /\ R # {}
      BY <1>1, <2>2
    <3>2. Top(R) \in R /\ \A y \in R : Top(R) >= y
      <4> HIDE DEF R
      <4> QED
        BY <1>1, <3>1, TopIn
    <3>3. S = R \cup {0} /\ \A y \in R : y >= 0
      BY <1>1, <3>1
    <3>4. \E x \in S : \A y \in S : x >= y
      <4> HIDE DEF R, S
      <4> QED
        BY <3>1, <3>2, <3>3
    <3> HIDE DEF S
    <3> QED
      BY <3>4 DEF Max
  <2> QED
    BY <2>1, <2>2
<1>3. Stod(cell) = CASE \E i \in 1..k : cell[i] \in Digits -> SubSeq(cell, 1, k)
                         [] k < Len(cell) /\ cell[k + 1] = "n"
                              /\ ~(\E i \in 1..k : cell[i] \in Digits) -> NotFinite
                         [] OTHER -> Malformed
  BY DEF Stod, InNumber
<1> HIDE DEF k
<1>4. k \in 0..n /\ Number(cell, k)
  <2>1. k \in 0..n /\ \A i \in 1..k : InNumber(cell, i)
    BY <1>2
  <2>2. ASSUME k < n PROVE ~InNumber(cell, k + 1)
    <3>1. SUFFICES ASSUME InNumber(cell, k + 1) PROVE FALSE
      OBVIOUS
    <3>2. k + 1 \in 0..n /\ \A i \in 1..(k + 1) : i \in 1..k \/ i = k + 1
      BY <1>1, <2>1, <2>2
    <3>3. \A i \in 1..(k + 1) : InNumber(cell, i)
      BY <2>1, <3>1, <3>2, Zenon
    <3>4. k + 1 \in S
      BY <3>2, <3>3
    <3> QED
      BY <1>2, <2>1, <3>4
  <2> QED
    BY <2>1, <2>2 DEF Number
<1>5. Stod(cell) = StodOf(cell, k)
  <2> DEFINE digits == \E i \in 1..k : cell[i] \in Digits
             number == SubSeq(cell, 1, k)
             other == k < Len(cell) /\ cell[k + 1] = "n"
  <2>1. StodOf(cell, k) = IF digits THEN number ELSE IF other THEN NotFinite ELSE Malformed
    BY DEF StodOf
  <2>2. Stod(cell) = CASE digits -> number [] other /\ ~digits -> NotFinite
                       [] OTHER -> Malformed
    BY <1>3
  <2> HIDE DEF digits, number, other
  <2> QED
    BY <2>1, <2>2
<1> QED
  BY <1>4, <1>5

\* The characters that stod's values have, those that stand for other values included.
Chars(T) == T \cup {"n", "x"}

\* Those are sequences of characters, and something else than what is behind the end
\* of a row.
LEMMA OtherValues ==
  ASSUME NEW T
  PROVE  /\ NotFinite \in Seq(Chars(T)) /\ Malformed \in Seq(Chars(T))
         /\ NotFinite # Missing /\ Malformed # Missing
         /\ NotFinite # Malformed
<1>1. <<"n">> # <<"?">> /\ <<"x">> # <<"?">> /\ <<"n">> # <<"x">>
  OBVIOUS
<1>2. "n" \in Chars(T) /\ "x" \in Chars(T)
  BY DEF Chars
<1> HIDE DEF Chars
<1>3. <<"n">> \in Seq(Chars(T)) /\ <<"x">> \in Seq(Chars(T))
  BY <1>2
<1> QED
  BY <1>1, <1>3 DEF NotFinite, Malformed, Missing

\* A sequence with a digit in it is none of the other values.
LEMMA DigitsInside ==
  ASSUME NEW T, NEW s \in Seq(T), NEW i \in 1..Len(s), s[i] \in Digits
  PROVE  s \notin {Missing, NotFinite, Malformed}
<1>1. ASSUME NEW c, s = <<c>> PROVE c \in Digits
  <2>1. Len(s) = 1 /\ s[1] = c
    BY <1>1
  <2>2. i = 1
    BY <2>1
  <2> QED
    BY <2>1, <2>2
<1>2. "?" \notin Digits /\ "n" \notin Digits /\ "x" \notin Digits
  BY DEF Digits
<1> QED
  BY <1>1, <1>2, Zenon DEF Missing, NotFinite, Malformed

\* What stod returns is not what is behind the end of a row.
LEMMA StodValue ==
  ASSUME NEW T, NEW cell \in Seq(T)
  PROVE  Stod(cell) \in Seq(Chars(T)) /\ Stod(cell) # Missing
<1>1. PICK k \in 0..Len(cell) : Number(cell, k) /\ Stod(cell) = StodOf(cell, k)
  BY StodNumber
<1>2. CASE \E i \in 1..k : cell[i] \in Digits
  <2> DEFINE s == SubSeq(cell, 1, k)
  <2>1. s \in Seq(T) /\ Len(s) = k /\ \A i \in 1..k : s[i] = cell[i]
    BY Cutting
  <2> HIDE DEF s
  <2>2. s # Missing
    BY <1>2, <2>1, DigitsInside
  <2>3. s \in Seq(Chars(T))
    <3>1. T \subseteq Chars(T)
      BY DEF Chars
    <3> HIDE DEF Chars
    <3> QED
      BY <2>1, <3>1
  <2>4. Stod(cell) = s
    BY <1>1, <1>2 DEF StodOf, s
  <2> QED
    BY <2>2, <2>3, <2>4
<1>3. CASE ~\E i \in 1..k : cell[i] \in Digits
  <2>1. Stod(cell) \in {NotFinite, Malformed}
    BY <1>1, <1>3 DEF StodOf
  <2> QED
    BY <2>1, OtherValues
<1> QED
  BY <1>2, <1>3

\* What the body of /predict has for a cell.
Shown(v) == IF v = Malformed THEN <<>> ELSE v

\* That is a sequence, too.
LEMMA ShownType ==
  ASSUME NEW T, NEW v \in Seq(T)
  PROVE  Shown(v) \in Seq(T)
BY DEF Shown

\* To extend is what the promises call to have as a prefix.
LEMMA ExtendsPrefix ==
  ASSUME NEW T, NEW s \in Seq(T), NEW t \in Seq(T), Extends(t, s)
  PROVE  IsPrefix(s, t)
<1>1. Len(s) \in 0..Len(s) /\ Len(s) \in 0..Len(t) /\ Len(s) <= Len(t)
  BY DEF Extends
<1> DEFINE a == SubSeq(s, 1, Len(s))
           b == SubSeq(t, 1, Len(s))
<1>2. /\ a \in Seq(T) /\ Len(a) = Len(s) /\ \A i \in 1..Len(s) : a[i] = s[i]
      /\ b \in Seq(T) /\ Len(b) = Len(s) /\ \A i \in 1..Len(s) : b[i] = t[i]
  BY <1>1, Cutting
<1> HIDE DEF a, b
<1>3. a = b
  BY <1>1, <1>2 DEF Extends
<1> QED
  BY <1>1, <1>3 DEF IsPrefix, a, b

\* A cell that is cut has a part of the number, or the same other value, or none.
LEMMA StodPrefix ==
  ASSUME NEW T, NEW c \in Seq(T), NEW d \in Seq(T), Extends(d, c)
  PROVE  Extends(Shown(Stod(d)), Shown(Stod(c)))
<1>0. Len(c) \in Nat /\ Len(d) \in Nat /\ Len(c) <= Len(d) /\ \A i \in 1..Len(c) : d[i] = c[i]
  BY DEF Extends
<1>1. PICK k \in 0..Len(c) : Number(c, k) /\ Stod(c) = StodOf(c, k)
  BY StodNumber
<1>2. PICK l \in 0..Len(d) : Number(d, l) /\ Stod(d) = StodOf(d, l)
  BY StodNumber
<1>3. k <= l
  <2>1. SUFFICES ASSUME l < k PROVE FALSE
    OBVIOUS
  <2>2. l + 1 \in 1..k /\ l < Len(d) /\ l + 1 \in 1..Len(c)
    BY <1>0, <2>1
  <2>3. InNumber(c, l + 1) /\ ~InNumber(d, l + 1)
    BY <1>1, <1>2, <2>2 DEF Number
  <2>4. c[l + 1] = d[l + 1]
    BY <1>0, <2>2
  <2> QED
    BY <2>3, <2>4 DEF InNumber
<1>4. CASE \E i \in 1..k : c[i] \in Digits
  <2>1. PICK i \in 1..k : c[i] \in Digits
    BY <1>4
  <2>2. i \in 1..l /\ d[i] \in Digits
    BY <1>0, <1>3, <2>1
  <2> DEFINE s == SubSeq(c, 1, k)
             t == SubSeq(d, 1, l)
  <2>3. /\ s \in Seq(T) /\ Len(s) = k /\ \A j \in 1..k : s[j] = c[j]
        /\ t \in Seq(T) /\ Len(t) = l /\ \A j \in 1..l : t[j] = d[j]
    BY Cutting
  <2>4. Stod(c) = s /\ Stod(d) = t
    BY <1>1, <1>2, <1>4, <2>2 DEF StodOf
  <2> HIDE DEF s, t
  <2>5. s # Malformed /\ t # Malformed
    <3>1. i \in 1..Len(s) /\ s[i] \in Digits /\ i \in 1..Len(t) /\ t[i] \in Digits
      BY <2>1, <2>2, <2>3
    <3> QED
      BY <2>3, <3>1, DigitsInside
  <2>6. Extends(t, s)
    BY <1>0, <1>3, <2>3 DEF Extends
  <2> QED
    BY <2>4, <2>5, <2>6 DEF Shown
<1>5. CASE ~(\E i \in 1..k : c[i] \in Digits) /\ k < Len(c) /\ c[k + 1] = "n"
  <2>1. k + 1 \in 1..Len(c) /\ k < Len(d) /\ d[k + 1] = "n"
    BY <1>0, <1>5
  <2>2. l = k
    <3>1. SUFFICES ASSUME l > k PROVE FALSE
      BY <1>3
    <3>2. InNumber(d, k + 1)
      <4>1. k + 1 \in 1..l
        BY <3>1
      <4> QED
        BY <1>2, <4>1 DEF Number
    <3>3. "n" \notin Digits /\ "n" # "-"
      BY DEF Digits
    <3> QED
      BY <2>1, <3>2, <3>3, Zenon DEF InNumber
  <2>3. Stod(c) = NotFinite
    BY <1>1, <1>5 DEF StodOf
  <2>4. ~(\E i \in 1..l : d[i] \in Digits)
    BY <1>0, <1>5, <2>2
  <2>5. Stod(d) = NotFinite
    BY <1>2, <2>1, <2>2, <2>4 DEF StodOf
  <2>6. Extends(NotFinite, NotFinite)
    BY OtherValues, ExtendsSelf
  <2> QED
    BY <2>3, <2>5, <2>6, OtherValues DEF Shown
<1>6. CASE ~(\E i \in 1..k : c[i] \in Digits) /\ ~(k < Len(c) /\ c[k + 1] = "n")
  <2>1. Shown(Stod(c)) = <<>>
    BY <1>1, <1>6 DEF StodOf, Shown
  <2>2. Shown(Stod(d)) \in Seq(Chars(T))
    BY StodValue, ShownType
  <2> QED
    BY <2>1, <2>2 DEF Extends
<1> QED
  BY <1>4, <1>5, <1>6

\* The cells of a line: some, and none that is not there.
RowSet(T) ==
  {r \in Seq(Seq(Chars(T))) : r # <<>> /\ \A j \in 1..Len(r) : r[j] # Missing}

\* The reader makes such a row of a line that is not empty, a cell of each piece.
LEMMA CellsType ==
  ASSUME NEW T, NEW line \in Seq(T), line # <<>>
  PROVE  LET cells == Pieces(line, Comma)
         IN  /\ Cells(line) \in RowSet(T) /\ cells \in Seq(Seq(T))
             /\ Len(Cells(line)) = Len(cells) /\ Len(cells) > 0
             /\ \A j \in 1..Len(cells) : Cells(line)[j] = Stod(cells[j])
<1> DEFINE cells == Pieces(line, Comma)
           r == Cells(line)
<1>1. cells \in Seq(Seq(T)) /\ cells # <<>>
  BY LinePieces
<1>2. r = [j \in DOMAIN cells |-> Stod(cells[j])]
  BY DEF Cells
<1> HIDE DEF cells, r
<1>3. /\ DOMAIN cells = 1..Len(cells) /\ Len(cells) \in Nat /\ Len(cells) > 0
      /\ \A j \in 1..Len(cells) : cells[j] \in Seq(T)
  BY <1>1
<1>4. \A j \in 1..Len(cells) :
        Stod(cells[j]) \in Seq(Chars(T)) /\ Stod(cells[j]) # Missing
  BY <1>3, StodValue, Zenon
<1>5. /\ r \in Seq(Seq(Chars(T))) /\ Len(r) = Len(cells)
      /\ \A j \in 1..Len(cells) : r[j] = Stod(cells[j])
  <2>1. r \in [1..Len(cells) -> Seq(Chars(T))]
    BY <1>2, <1>3, <1>4
  <2> QED
    BY <1>2, <1>3, <2>1
<1>6. r \in RowSet(T)
  <2>1. r # <<>>
    BY <1>3, <1>5
  <2> QED
    BY <1>4, <1>5, <2>1 DEF RowSet
<1> QED
  BY <1>1, <1>3, <1>5, <1>6 DEF cells, r

\* A line adds a row or nothing.
LEMMA AddRowType ==
  ASSUME NEW T, NEW rows \in Seq(RowSet(T)), NEW line \in Seq(T)
  PROVE  /\ AddRow(rows, line) \in Seq(RowSet(T))
         /\ line = <<>> => AddRow(rows, line) = rows
         /\ line # <<>> => Grown(AddRow(rows, line), rows, Cells(line))
         /\ Extends(AddRow(rows, line), rows)
<1>1. CASE line = <<>>
  BY <1>1, ExtendsSelf DEF AddRow
<1>2. CASE line # <<>>
  <2>1. AddRow(rows, line) = Append(rows, Cells(line)) /\ Cells(line) \in RowSet(T)
    BY <1>2, CellsType DEF AddRow
  <2>2. /\ AddRow(rows, line) \in Seq(RowSet(T))
        /\ Grown(AddRow(rows, line), rows, Cells(line))
    BY <2>1, Appending, Zenon
  <2>3. Extends(AddRow(rows, line), rows)
    BY <2>1, <2>2, GrownExtends, Zenon
  <2> QED
    BY <1>2, <2>2, <2>3
<1> QED
  BY <1>1, <1>2

\* The rows of some lines.
RowsOf(lines) == FoldLeft(AddRow, <<>>, lines)

\* The rows of the first lines, for each number of them.
RowStates(P, T, lines) ==
  /\ P \in [0..Len(lines) -> Seq(RowSet(T))] /\ P[0] = <<>> /\ P[Len(lines)] = RowsOf(lines)
  /\ \A k \in 1..Len(lines) : P[k] = AddRow(P[k - 1], lines[k])

\* The reader goes through the lines one by one.
LEMMA RowSteps ==
  ASSUME NEW T, NEW lines \in Seq(Seq(T))
  PROVE  \E P : RowStates(P, T, lines)
<1> DEFINE V == Seq(RowSet(T))
           n == Len(lines)
           step == [p \in V \X (1..n) |-> AddRow(p[1], lines[p[2]])]
           Body(g) == [s \in SUBSET (1..n) |->
                         IF s = {} THEN <<>>
                         ELSE AddRow(g[s \ {Top(s)}], lines[Top(s)])]
           iter == CHOOSE g : g = Body(g)
<1>1. n \in Nat /\ DOMAIN lines = 1..n
  OBVIOUS
<1>2. RowsOf(lines) = iter[1..n]
  BY <1>1 DEF RowsOf, FoldLeft, MapThenFoldSet, Max, Top
<1>3. <<>> \in V /\ step \in [V \X (1..n) -> V]
  <2>1. <<>> \in V
    OBVIOUS
  <2>2. \A v \in V, k \in 1..n : AddRow(v, lines[k]) \in V
    <3>1. \A k \in 1..n : lines[k] \in Seq(T)
      BY <1>1
    <3> QED
      BY <3>1, AddRowType, Zenon
  <2> HIDE DEF V
  <2> QED
    BY <2>1, <2>2
<1> HIDE DEF V
<1>4. \E g : g = Body(g)
  <2>1. PICK G \in [SUBSET (1..n) -> V] : Folding(n, <<>>, step, G)
    <3> HIDE DEF step, n
    <3> QED
      BY <1>1, <1>3, FoldExists, Zenon
  <2>2. ASSUME NEW s \in SUBSET (1..n), s # {}
        PROVE  step[<<G[s \ {Top(s)}], Top(s)>>] = AddRow(G[s \ {Top(s)}], lines[Top(s)])
    <3>1. Top(s) \in 1..n /\ s \ {Top(s)} \in SUBSET (1..n)
      BY <1>1, <2>2, TopIn
    <3> QED
      BY <3>1
  <2>3. G = Body(G)
    BY <2>1, <2>2 DEF Folding
  <2> QED
    BY <2>3
<1>5. iter = Body(iter)
  <2> HIDE DEF Body
  <2> QED
    BY <1>4, Zenon
<1> HIDE DEF iter
<1>6. FoldingIn(V, n, <<>>, step, iter)
  <2>1. /\ iter[{}] = <<>>
        /\ \A s \in SUBSET (1..n) :
             s # {} => iter[s] = AddRow(iter[s \ {Top(s)}], lines[Top(s)])
    BY <1>5
  <2> QED
    BY <1>1, <2>1, TopIn DEF FoldingIn
<1>7. PICK P \in [0..n -> V] : PrefixValues(n, <<>>, step, iter[1..n], P)
  <2> HIDE DEF step, n
  <2> QED
    BY <1>1, <1>3, <1>6, FoldPrefixes, Zenon
<1>8. P[0] = <<>> /\ P[n] = iter[1..n] /\ \A k \in 1..n : P[k] = AddRow(P[k - 1], lines[k])
  <2>1. \A k \in 1..n : k - 1 \in 0..n
    BY <1>1
  <2> QED
    BY <1>7, <2>1 DEF PrefixValues
<1>9. RowStates(P, T, lines)
  BY <1>2, <1>7, <1>8 DEF V, RowStates
<1> QED
  BY <1>9

\* The rows of the first lines are the first rows.
LEMMA FirstRows ==
  ASSUME NEW T, NEW lines \in Seq(Seq(T)), NEW P, RowStates(P, T, lines), NEW m \in 0..Len(lines)
  PROVE  Extends(P[Len(lines)], P[m])
<1> DEFINE n == Len(lines)
           S == {j \in 0..(n - m) : Extends(P[m + j], P[m])}
<1>0. /\ P \in [0..n -> Seq(RowSet(T))] /\ \A k \in 1..n : P[k] = AddRow(P[k - 1], lines[k])
      /\ n \in Nat /\ m \in 0..n /\ \A k \in 1..n : lines[k] \in Seq(T)
  BY DEF RowStates
<1> HIDE DEF n
<1>1. 0 \in S
  <2>1. m + 0 = m /\ 0 \in 0..(n - m) /\ P[m] \in Seq(RowSet(T))
    BY <1>0
  <2> QED
    BY <2>1, ExtendsSelf
<1>2. ASSUME NEW j \in 0..((n - m) - 1), j \in S
      PROVE  j + 1 \in S
  <2>1. /\ j + 1 \in 0..(n - m) /\ m + j \in 0..n /\ m + (j + 1) \in 1..n
        /\ (m + (j + 1)) - 1 = m + j
    BY <1>0
  <2> DEFINE p == P[m + j]
             q == P[m + (j + 1)]
             l == lines[m + (j + 1)]
  <2>2. p \in Seq(RowSet(T)) /\ P[m] \in Seq(RowSet(T)) /\ l \in Seq(T)
    BY <1>0, <2>1
  <2>3. q = AddRow(p, l)
    BY <1>0, <2>1
  <2>4. Extends(p, P[m])
    BY <1>2
  <2> HIDE DEF p, q, l
  <2>5. Extends(q, P[m])
    <3>1. l = <<>> => q = p
      BY <2>2, <2>3, AddRowType, Zenon
    <3>2. l # <<>> => Grown(q, p, Cells(l))
      BY <2>2, <2>3, AddRowType, Zenon
    <3>3. l # <<>> => Extends(q, P[m])
      BY <2>2, <2>4, <3>2, GrownExtends, Zenon
    <3> QED
      BY <2>4, <3>1, <3>3
  <2> QED
    BY <2>1, <2>5 DEF q
<1>3. n - m \in S
  <2> HIDE DEF S
  <2>1. n - m \in Nat
    BY <1>0
  <2>2. 0..(n - m) \subseteq S
    BY <1>1, <1>2, <2>1, IntervalInduction
  <2> QED
    BY <2>1, <2>2
<1>4. m + (n - m) = n
  BY <1>0
<1> QED
  BY <1>3, <1>4 DEF n

\* r is what comes of the row s when its line is cut.
RowCut(r, s) ==
  /\ Len(r) <= Len(s) /\ \A j \in 1..Len(r) : j < Len(r) => r[j] = s[j]
  /\ Extends(Shown(s[Len(r)]), Shown(r[Len(r)]))

\* Nothing, if it is not.
LEMMA RowItself == ASSUME NEW T, NEW r \in RowSet(T) PROVE RowCut(r, r)
<1>1. r \in Seq(Seq(Chars(T))) /\ r # <<>>
  BY DEF RowSet
<1>2. Len(r) \in 1..Len(r)
  BY <1>1
<1>3. Shown(r[Len(r)]) \in Seq(Chars(T))
  <2>1. r[Len(r)] \in Seq(Chars(T))
    BY <1>1, <1>2
  <2> QED
    BY <2>1, ShownType
<1> QED
  BY <1>1, <1>3, ExtendsSelf DEF RowCut

\* A line that is cut has the cells of the whole, but for the last.
LEMMA LineCut ==
  ASSUME NEW T, NEW a \in Seq(T), NEW b \in Seq(T), a # <<>>, Extends(b, a)
  PROVE  RowCut(Cells(a), Cells(b))
<1> DEFINE x == Pieces(a, Comma)
           y == Pieces(b, Comma)
           m == Len(x)
<1>1. a = SubSeq(b, 1, Len(a)) /\ Len(a) \in 0..Len(b)
  <2>1. Len(a) \in 0..Len(b) /\ \A i \in 1..Len(a) : b[i] = a[i]
    BY DEF Extends
  <2> DEFINE c == SubSeq(b, 1, Len(a))
  <2>2. c \in Seq(T) /\ Len(c) = Len(a) /\ \A i \in 1..Len(a) : c[i] = b[i]
    BY <2>1, Cutting
  <2> HIDE DEF c
  <2>3. a = c
    BY <2>1, <2>2
  <2> QED
    BY <2>1, <2>3 DEF c
<1>2. b # <<>>
  <2>1. Len(a) > 0 /\ Len(b) >= Len(a)
    BY <1>1
  <2> QED
    BY <2>1
<1>3. Almost(x, y)
  BY <1>1, PiecesAlmost
<1>4. /\ x \in Seq(Seq(T)) /\ y \in Seq(Seq(T)) /\ m > 0
      /\ Len(Cells(a)) = m /\ Len(Cells(b)) = Len(y)
      /\ \A j \in 1..m : Cells(a)[j] = Stod(x[j])
      /\ \A j \in 1..Len(y) : Cells(b)[j] = Stod(y[j])
  BY <1>2, CellsType
<1> HIDE DEF x, y
<1>5. m \in 1..m /\ m \in 1..Len(y) /\ m <= Len(y) /\ Extends(y[m], x[m])
  BY <1>3, <1>4 DEF Almost
<1>6. Extends(Shown(Stod(y[m])), Shown(Stod(x[m])))
  <2>1. x[m] \in Seq(T) /\ y[m] \in Seq(T)
    BY <1>4, <1>5
  <2> QED
    BY <1>5, <2>1, StodPrefix, Zenon
<1>7. \A j \in 1..m : j < m => Cells(a)[j] = Cells(b)[j]
  BY <1>3, <1>4 DEF Almost
<1> HIDE DEF m
<1> QED
  BY <1>4, <1>5, <1>6, <1>7 DEF RowCut

\* The rows r are what comes of the rows s when the text is cut.
RowsCut(r, s) ==
  /\ Len(r) <= Len(s) /\ \A i \in 1..Len(r) : i < Len(r) => r[i] = s[i]
  /\ Len(r) > 0 => RowCut(r[Len(r)], s[Len(r)])

\* A function on 1..n is a sequence.
LEMMA FunctionSeq ==
  ASSUME NEW X, NEW n \in Nat, NEW s \in [1..n -> X]
  PROVE  s \in Seq(X) /\ Len(s) = n
OBVIOUS

\* Sequences with the same elements are equal.
LEMMA SeqsEqual ==
  ASSUME NEW X, NEW s \in Seq(X), NEW t \in Seq(X),
         Len(s) = Len(t) /\ \A i \in 1..Len(s) : s[i] = t[i]
  PROVE  s = t
OBVIOUS

\* A sequence of sequences has sequences.
LEMMA ElementSeq ==
  ASSUME NEW X, NEW s \in Seq(Seq(X)), NEW i \in 1..Len(s)
  PROVE  s[i] \in Seq(X)
OBVIOUS

\* A text that is cut has the rows of the whole, but for the last.
LEMMA RowsAlmost ==
  ASSUME NEW T, NEW x \in Seq(Seq(T)), NEW y \in Seq(Seq(T)), Almost(x, y)
  PROVE  /\ RowsOf(x) \in Seq(RowSet(T)) /\ RowsOf(y) \in Seq(RowSet(T))
         /\ RowsCut(RowsOf(x), RowsOf(y))
<1> DEFINE m == Len(x)
           n == Len(y)
<1>0. /\ m \in Nat /\ n \in Nat /\ m <= n
      /\ \A j \in 1..m : x[j] \in Seq(T) /\ (j < m => x[j] = y[j])
      /\ \A j \in 1..n : y[j] \in Seq(T)
      /\ m > 0 => Extends(y[m], x[m])
  <2>1. /\ m \in Nat /\ n \in Nat /\ \A j \in 1..m : x[j] \in Seq(T)
        /\ \A j \in 1..n : y[j] \in Seq(T)
    BY ElementSeq
  <2>2. /\ m <= n /\ \A j \in 1..m : j < m => x[j] = y[j]
        /\ m > 0 => Extends(y[m], x[m])
    BY DEF Almost
  <2> QED
    BY <2>1, <2>2
<1>1. PICK P : RowStates(P, T, x)
  BY RowSteps
<1>2. PICK Q : RowStates(Q, T, y)
  BY RowSteps
<1>3. /\ P \in [0..m -> Seq(RowSet(T))] /\ P[0] = <<>> /\ P[m] = RowsOf(x)
      /\ \A k \in 1..m : P[k] = AddRow(P[k - 1], x[k])
  BY <1>1 DEF RowStates
<1>4. /\ Q \in [0..n -> Seq(RowSet(T))] /\ Q[0] = <<>> /\ Q[n] = RowsOf(y)
      /\ \A k \in 1..n : Q[k] = AddRow(Q[k - 1], y[k])
  BY <1>2 DEF RowStates
<1>5. Extends(Q[n], Q[m])
  BY <1>0, <1>2, FirstRows
<1> HIDE DEF m, n
<1>6. RowsOf(x) \in Seq(RowSet(T)) /\ RowsOf(y) \in Seq(RowSet(T))
  BY <1>0, <1>3, <1>4
<1>7. CASE m = 0
  <2>1. RowsOf(x) = <<>>
    BY <1>3, <1>7
  <2> QED
    BY <1>6, <2>1 DEF RowsCut
<1>8. CASE m > 0
  <2> DEFINE A == P[m - 1]
             R == RowsOf(x)
             S == Q[m]
             W == RowsOf(y)
             a == x[m]
             b == y[m]
  <2>1. /\ m - 1 \in Nat /\ m - 1 \in 0..m /\ m - 1 \in 0..n /\ m \in 1..m /\ m \in 1..n
        /\ m \in 0..n
    BY <1>0, <1>8
  <2>2. P[m - 1] = Q[m - 1]
    <3>1. ASSUME NEW j \in 1..(m - 1), P[j - 1] = Q[j - 1] PROVE P[j] = Q[j]
      <4>1. j \in 1..m /\ j \in 1..n /\ j < m
        BY <1>0, <2>1
      <4>2. P[j] = AddRow(P[j - 1], x[j]) /\ Q[j] = AddRow(Q[j - 1], y[j])
        BY <1>3, <1>4, <4>1, Zenon
      <4>3. x[j] = y[j]
        BY <1>0, <4>1
      <4> QED
        BY <3>1, <4>2, <4>3, Zenon
    <3>2. \A j \in 1..(m - 1) : P[j - 1] = Q[j - 1] => P[j] = Q[j]
      BY <3>1
    <3>3. P[0] = Q[0]
      BY <1>3, <1>4
    <3> QED
      BY <2>1, <3>2, <3>3, LoopsEndAlike, Zenon
  <2>3. /\ A \in Seq(RowSet(T)) /\ S \in Seq(RowSet(T)) /\ R \in Seq(RowSet(T))
        /\ W \in Seq(RowSet(T)) /\ a \in Seq(T) /\ b \in Seq(T)
    BY <1>0, <1>3, <1>4, <1>6, <2>1
  <2>4. R = AddRow(A, a) /\ S = AddRow(A, b) /\ Extends(W, S) /\ Extends(b, a)
    BY <1>0, <1>3, <1>4, <1>5, <1>8, <2>1, <2>2
  <2> HIDE DEF A, R, S, W, a, b
  <2>5. Extends(S, A)
    BY <2>3, <2>4, AddRowType, Zenon
  <2>6. CASE a = <<>>
    <3>1. R = A
      BY <2>3, <2>4, <2>6, AddRowType, Zenon
    <3>2. Len(R) <= Len(W) /\ \A i \in 1..Len(R) : R[i] = W[i]
      BY <2>3, <2>4, <2>5, <3>1 DEF Extends
    <3>3. Len(R) > 0 => RowCut(R[Len(R)], W[Len(R)])
      <4>1. SUFFICES ASSUME Len(R) > 0 PROVE RowCut(R[Len(R)], W[Len(R)])
        OBVIOUS
      <4>2. Len(R) \in 1..Len(R)
        BY <2>3, <4>1
      <4>3. R[Len(R)] \in RowSet(T) /\ R[Len(R)] = W[Len(R)]
        BY <2>3, <3>2, <4>2
      <4> QED
        BY <4>3, RowItself
    <3>4. RowsCut(R, W)
      BY <3>2, <3>3 DEF RowsCut
    <3> QED
      BY <1>6, <3>4 DEF R, W
  <2>7. CASE a # <<>>
    <3>1. b # <<>>
      <4>1. Len(a) > 0 /\ Len(b) >= Len(a) /\ Len(b) \in Nat /\ Len(a) \in Nat
        BY <2>3, <2>4, <2>7 DEF Extends
      <4> QED
        BY <4>1
    <3>2. Grown(R, A, Cells(a)) /\ Grown(S, A, Cells(b))
      BY <2>3, <2>4, <2>7, <3>1, AddRowType, Zenon
    <3>3. RowCut(Cells(a), Cells(b))
      BY <2>3, <2>4, <2>7, LineCut
    <3>4. /\ Len(R) = Len(A) + 1 /\ Len(W) >= Len(A) + 1 /\ Len(A) \in Nat
          /\ R[Len(A) + 1] = Cells(a) /\ W[Len(A) + 1] = Cells(b)
          /\ \A i \in 1..Len(A) : R[i] = A[i] /\ W[i] = A[i]
      BY <2>3, <2>4, <3>2 DEF Grown, Extends
    <3>5. RowsCut(R, W)
      <4>1. Len(R) <= Len(W) /\ \A i \in 1..Len(R) : i < Len(R) => R[i] = W[i]
        <5>1. Len(R) \in Nat /\ Len(W) \in Nat
          BY <2>3
        <5>2. \A i \in 1..Len(R) : i < Len(R) => i \in 1..Len(A)
          BY <3>4, <5>1
        <5>3. \A i \in 1..Len(R) : i < Len(R) => R[i] = W[i]
          BY <3>4, <5>2, Zenon
        <5> QED
          BY <3>4, <5>1, <5>3
      <4>2. RowCut(R[Len(R)], W[Len(R)])
        BY <3>3, <3>4
      <4> QED
        BY <4>1, <4>2 DEF RowsCut
    <3> QED
      BY <1>6, <3>5 DEF R, W
  <2> QED
    BY <2>6, <2>7
<1> QED
  BY <1>0, <1>7, <1>8

\* Before the last of the lines that arrive, which may be any two, the rows are those of
\* the whole.
LEMMA RowsBefore ==
  ASSUME NEW T, NEW x \in Seq(Seq(T)), NEW y \in Seq(Seq(T)), Len(x) <= Len(y),
         \A j \in 1..Len(x) : j < Len(x) => x[j] = y[j]
  PROVE  /\ RowsOf(x) \in Seq(RowSet(T)) /\ RowsOf(y) \in Seq(RowSet(T))
         /\ Len(RowsOf(x)) - 1 <= Len(RowsOf(y))
         /\ \A i \in 1..(Len(RowsOf(x)) - 1) : RowsOf(x)[i] = RowsOf(y)[i]
<1> DEFINE m == Len(x)
           n == Len(y)
           R == RowsOf(x)
           W == RowsOf(y)
<1>0. /\ m \in Nat /\ n \in Nat /\ m <= n
      /\ \A j \in 1..m : x[j] \in Seq(T) /\ (j < m => x[j] = y[j])
  BY ElementSeq
<1>1. PICK P : RowStates(P, T, x)
  BY RowSteps
<1>2. PICK Q : RowStates(Q, T, y)
  BY RowSteps
<1>3. /\ P \in [0..m -> Seq(RowSet(T))] /\ P[0] = <<>> /\ P[m] = R
      /\ \A k \in 1..m : P[k] = AddRow(P[k - 1], x[k])
  BY <1>1 DEF RowStates
<1>4. /\ Q \in [0..n -> Seq(RowSet(T))] /\ Q[0] = <<>> /\ Q[n] = W
      /\ \A k \in 1..n : Q[k] = AddRow(Q[k - 1], y[k])
  BY <1>2 DEF RowStates
<1>5. \A j \in 0..n : Extends(Q[n], Q[j])
  BY <1>2, FirstRows
<1> HIDE DEF m, n, R, W
<1>6. R \in Seq(RowSet(T)) /\ W \in Seq(RowSet(T))
  <2>1. m \in 0..m /\ n \in 0..n
    BY <1>0
  <2> QED
    BY <1>3, <1>4, <2>1
<1>7. CASE m = 0
  <2>1. R = <<>>
    BY <1>3, <1>7
  <2>2. Len(R) = 0 /\ Len(W) \in Nat
    BY <1>6, <2>1
  <2> QED
    BY <1>6, <2>2 DEF R, W
<1>8. CASE m > 0
  <2> DEFINE A == P[m - 1]
             a == x[m]
  <2>1. m - 1 \in 0..m /\ m - 1 \in 0..n /\ m \in 1..m /\ m - 1 \in Nat
    BY <1>0, <1>8
  <2>2. P[m - 1] = Q[m - 1]
    <3>1. ASSUME NEW j \in 1..(m - 1), P[j - 1] = Q[j - 1] PROVE P[j] = Q[j]
      <4>1. j \in 1..m /\ j \in 1..n /\ j < m
        BY <1>0, <2>1
      <4>2. P[j] = AddRow(P[j - 1], x[j]) /\ Q[j] = AddRow(Q[j - 1], y[j])
        BY <1>3, <1>4, <4>1, Zenon
      <4>3. x[j] = y[j]
        BY <1>0, <4>1
      <4> QED
        BY <3>1, <4>2, <4>3, Zenon
    <3>2. \A j \in 1..(m - 1) : P[j - 1] = Q[j - 1] => P[j] = Q[j]
      BY <3>1
    <3>3. P[0] = Q[0]
      BY <1>3, <1>4
    <3> QED
      BY <2>1, <3>2, <3>3, LoopsEndAlike, Zenon
  <2>3. A \in Seq(RowSet(T)) /\ a \in Seq(T) /\ R = AddRow(A, a) /\ Extends(W, A)
    BY <1>0, <1>3, <1>4, <1>5, <2>1, <2>2
  <2> HIDE DEF A, a
  <2>4. R = A \/ Grown(R, A, Cells(a))
    BY <2>3, AddRowType, Zenon
  <2>5. Len(A) \in Nat /\ Len(W) \in Nat /\ Len(A) <= Len(W) /\ \A i \in 1..Len(A) : W[i] = A[i]
    BY <1>6, <2>3 DEF Extends
  <2>6. Len(R) \in Nat /\ Len(R) - 1 <= Len(A) /\ \A i \in 1..Len(A) : R[i] = A[i]
    BY <1>6, <2>4, <2>5 DEF Grown
  <2>7. Len(R) - 1 <= Len(W) /\ \A i \in 1..(Len(R) - 1) : R[i] = W[i]
    BY <2>5, <2>6
  <2> QED
    BY <1>6, <2>7 DEF R, W
<1> QED
  BY <1>0, <1>7, <1>8

\* The rows of the body of /predict.
BodyOf(rows) == [i \in DOMAIN rows |-> [j \in DOMAIN rows[i] |-> Shown(rows[i][j])]]

\* It has the rows and cells that were read, each cell as it is shown.
LEMMA BodyOfType ==
  ASSUME NEW T, NEW rows \in Seq(RowSet(T))
  PROVE  /\ BodyOf(rows) \in Seq(Seq(Seq(Chars(T)))) /\ Len(BodyOf(rows)) = Len(rows)
         /\ \A i \in 1..Len(rows) :
              /\ Len(BodyOf(rows)[i]) = Len(rows[i]) /\ Len(rows[i]) \in Nat /\ Len(rows[i]) > 0
              /\ \A j \in 1..Len(rows[i]) : BodyOf(rows)[i][j] = Shown(rows[i][j])
<1> DEFINE row(i) == [j \in DOMAIN rows[i] |-> Shown(rows[i][j])]
<1>1. ASSUME NEW i \in 1..Len(rows)
      PROVE  /\ row(i) \in Seq(Seq(Chars(T))) /\ Len(row(i)) = Len(rows[i])
             /\ Len(rows[i]) \in Nat /\ Len(rows[i]) > 0
             /\ \A j \in 1..Len(rows[i]) : row(i)[j] = Shown(rows[i][j])
  <2> DEFINE r == rows[i]
  <2>1. r \in Seq(Seq(Chars(T))) /\ r # <<>>
    <3>1. r \in RowSet(T)
      OBVIOUS
    <3> QED
      BY <3>1 DEF RowSet
  <2> HIDE DEF r
  <2>2. DOMAIN r = 1..Len(r) /\ Len(r) \in Nat /\ Len(r) > 0
        /\ \A j \in 1..Len(r) : r[j] \in Seq(Chars(T))
    BY <2>1
  <2>3. \A j \in 1..Len(r) : Shown(r[j]) \in Seq(Chars(T))
    BY <2>2, ShownType, Zenon
  <2> DEFINE s == [j \in DOMAIN r |-> Shown(r[j])]
  <2>4. s \in [1..Len(r) -> Seq(Chars(T))] /\ \A j \in 1..Len(r) : s[j] = Shown(r[j])
    BY <2>2, <2>3
  <2> HIDE DEF s
  <2>5. s \in Seq(Seq(Chars(T))) /\ Len(s) = Len(r)
    BY <2>2, <2>4, FunctionSeq, Zenon
  <2> QED
    BY <2>2, <2>4, <2>5 DEF r, s
<1>2. BodyOf(rows) = [i \in 1..Len(rows) |-> row(i)] /\ Len(rows) \in Nat
  BY DEF BodyOf
<1> HIDE DEF row
<1>3. /\ BodyOf(rows) \in [1..Len(rows) -> Seq(Seq(Chars(T)))]
      /\ \A i \in 1..Len(rows) : BodyOf(rows)[i] = row(i)
  BY <1>1, <1>2
<1>4. BodyOf(rows) \in Seq(Seq(Seq(Chars(T)))) /\ Len(BodyOf(rows)) = Len(rows)
  BY <1>2, <1>3
<1> QED
  BY <1>1, <1>3, <1>4

\* What is left of some lines, when those that are too long are passed over.
Fitting(lines) == [i \in DOMAIN lines |-> IF TooLong(lines[i]) THEN <<>> ELSE lines[i]]

\* It is as many lines.
LEMMA FittingType ==
  ASSUME NEW T, NEW lines \in Seq(Seq(T))
  PROVE  /\ Fitting(lines) \in Seq(Seq(T)) /\ Len(Fitting(lines)) = Len(lines)
         /\ \A i \in 1..Len(lines) :
              Fitting(lines)[i] = IF TooLong(lines[i]) THEN <<>> ELSE lines[i]
<1> DEFINE f == Fitting(lines)
           n == Len(lines)
           Line(i) == IF TooLong(lines[i]) THEN <<>> ELSE lines[i]
<1>1. n \in Nat /\ \A i \in 1..n : lines[i] \in Seq(T)
  OBVIOUS
<1>2. \A i \in 1..n : Line(i) \in Seq(T)
  BY <1>1
<1>3. f = [i \in 1..n |-> Line(i)]
  BY DEF Fitting
<1> HIDE DEF f, n, Line
<1>4. f \in [1..n -> Seq(T)] /\ \A i \in 1..n : f[i] = Line(i)
  BY <1>2, <1>3
<1>5. f \in Seq(Seq(T)) /\ Len(f) = n
  BY <1>1, <1>4, FunctionSeq, Zenon
<1> QED
  BY <1>4, <1>5 DEF f, n, Line

\* If the last line that arrives is not of one that is too long, what fits of the
\* lines is cut like the lines.
LEMMA FittingAlmost ==
  ASSUME NEW T, NEW x \in Seq(Seq(T)), NEW y \in Seq(Seq(T)), Almost(x, y),
         Len(x) > 0 => ~TooLong(y[Len(x)])
  PROVE  Almost(Fitting(x), Fitting(y))
<1> DEFINE m == Len(x)
           f == Fitting(x)
           g == Fitting(y)
<1>1. /\ m \in Nat /\ Len(y) \in Nat /\ m <= Len(y)
      /\ \A i \in 1..m : i < m => x[i] = y[i]
      /\ m > 0 => Extends(y[m], x[m])
  BY DEF Almost
<1>2. /\ Len(f) = m /\ Len(g) = Len(y)
      /\ \A i \in 1..m : f[i] = IF TooLong(x[i]) THEN <<>> ELSE x[i]
      /\ \A i \in 1..Len(y) : g[i] = IF TooLong(y[i]) THEN <<>> ELSE y[i]
  BY FittingType
<1> HIDE DEF f, g, m
<1>3. \A i \in 1..m : i < m => f[i] = g[i]
  <2> TAKE i \in 1..m
  <2> HAVE i < m
  <2>1. x[i] = y[i] /\ i \in 1..Len(y)
    BY <1>1
  <2> QED
    BY <1>2, <2>1, Zenon
<1>4. ASSUME m > 0 PROVE Extends(g[m], f[m])
  <2>1. m \in 1..m /\ m \in 1..Len(y) /\ x[m] \in Seq(T) /\ y[m] \in Seq(T)
    BY <1>1, <1>4 DEF m
  <2>2. ~TooLong(y[m])
    BY <1>4 DEF m
  <2>3. ~TooLong(x[m])
    <3>1. Len(x[m]) <= Len(y[m])
      BY <1>1, <1>4 DEF Extends
    <3> QED
      BY <2>1, <2>2, <3>1, MaxLineAssumption DEF TooLong
  <2> QED
    BY <1>1, <1>2, <1>4, <2>1, <2>2, <2>3
<1> QED
  BY <1>1, <1>2, <1>3, <1>4 DEF Almost, f, g, m

\* What arrives of a body that is cut are the rows that were sent, but for the last.
LEMMA CutReadAlways ==
  ASSUME NEW T, NEW body \in Seq(T), NEW k \in 0..Len(body)
  PROVE  CutRead(body, k)
<1> DEFINE a == Pieces(SubSeq(body, 1, k), Newline)
           b == Pieces(body, Newline)
           x == Fitting(a)
           y == Fitting(b)
           R == RowsOf(x)
           W == RowsOf(y)
           cut == BodyOf(R)
           sent == BodyOf(W)
           n == Len(cut)
           last == cut[n]
           U == Seq(Chars(T))
           whole == ~TooLong(LastLine(body, k))
<1>1. BodyRows(SubSeq(body, 1, k)) = cut /\ BodyRows(body) = sent
  BY DEF BodyRows, BodyLines, LineRows, Fitting, RowsOf, BodyOf, Shown
<1>2. /\ a \in Seq(Seq(T)) /\ b \in Seq(Seq(T)) /\ Almost(a, b)
      /\ whole => ~TooLong(b[Len(a)])
  BY PiecesAlmost DEF LastLine
<1> HIDE DEF a, b, whole
<1>9. /\ x \in Seq(Seq(T)) /\ y \in Seq(Seq(T))
      /\ Len(x) <= Len(y) /\ \A j \in 1..Len(x) : j < Len(x) => x[j] = y[j]
  <2>1. /\ x \in Seq(Seq(T)) /\ Len(x) = Len(a)
        /\ \A i \in 1..Len(a) : x[i] = IF TooLong(a[i]) THEN <<>> ELSE a[i]
        /\ y \in Seq(Seq(T)) /\ Len(y) = Len(b)
        /\ \A i \in 1..Len(b) : y[i] = IF TooLong(b[i]) THEN <<>> ELSE b[i]
    BY <1>2, FittingType
  <2>2. /\ Len(a) \in Nat /\ Len(b) \in Nat /\ Len(a) <= Len(b)
        /\ \A i \in 1..Len(a) : i < Len(a) => a[i] = b[i]
    <3>1. Len(a) \in Nat /\ Len(b) \in Nat
      BY <1>2
    <3>2. Len(a) <= Len(b) /\ \A i \in 1..Len(a) : i < Len(a) => a[i] = b[i]
      BY <1>2, Zenon DEF Almost
    <3> QED
      BY <3>1, <3>2, Zenon
  <2> HIDE DEF x, y
  <2>3. \A i \in 1..Len(a) : i \in 1..Len(b)
    BY <2>2
  <2>4. \A i \in 1..Len(a) : i < Len(a) => x[i] = y[i]
    BY <2>1, <2>2, <2>3, Zenon
  <2> QED
    BY <2>1, <2>2, <2>4
<1>10. whole => Almost(x, y)
  BY <1>2, FittingAlmost
<1> HIDE DEF x, y
<1>3. /\ R \in Seq(RowSet(T)) /\ W \in Seq(RowSet(T))
      /\ Len(R) - 1 <= Len(W) /\ \A i \in 1..(Len(R) - 1) : R[i] = W[i]
  BY <1>9, RowsBefore
<1>11. whole => RowsCut(R, W)
  BY <1>9, <1>10, RowsAlmost
<1> HIDE DEF R, W
<1>4. /\ cut \in Seq(Seq(U)) /\ n = Len(R)
      /\ \A i \in 1..Len(R) :
           /\ Len(cut[i]) = Len(R[i]) /\ Len(R[i]) \in Nat /\ Len(R[i]) > 0
           /\ \A j \in 1..Len(R[i]) : cut[i][j] = Shown(R[i][j])
  BY <1>3, BodyOfType
<1>5. /\ sent \in Seq(Seq(U)) /\ Len(sent) = Len(W)
      /\ \A i \in 1..Len(W) :
           /\ Len(sent[i]) = Len(W[i]) /\ Len(W[i]) \in Nat /\ Len(W[i]) > 0
           /\ \A j \in 1..Len(W[i]) : sent[i][j] = Shown(W[i][j])
  BY <1>3, BodyOfType
<1> HIDE DEF cut, sent, U
<1>6. n \in Nat /\ n - 1 <= Len(sent) /\ Len(sent) \in Nat
  BY <1>3, <1>4, <1>5
<1>7. ASSUME NEW i \in 1..(n - 1) PROVE cut[i] = sent[i]
  <2>1. i \in 1..Len(R) /\ i \in 1..Len(W) /\ R[i] = W[i]
    BY <1>3, <1>4, <1>5, <1>6
  <2>2. cut[i] \in Seq(U) /\ sent[i] \in Seq(U)
    <3>1. i \in 1..Len(cut) /\ i \in 1..Len(sent)
      BY <1>4, <1>5, <2>1
    <3> QED
      BY <1>4, <1>5, <3>1, ElementSeq, Zenon
  <2>3. Len(cut[i]) = Len(sent[i]) /\ \A j \in 1..Len(cut[i]) : cut[i][j] = sent[i][j]
    BY <1>4, <1>5, <2>1
  <2> QED
    BY <2>2, <2>3, SeqsEqual, Zenon
<1>8. ASSUME n > 0, whole
      PROVE  /\ n <= Len(sent) /\ Len(last) <= Len(sent[n]) /\ IsPrefix(Front(last), sent[n])
             /\ IsPrefix(Last(last), sent[n][Len(last)])
  <2> DEFINE s == sent[n]
             r == R[n]
             w == W[n]
             m == Len(last)
  <2>1. n \in 1..n /\ n \in 1..Len(R) /\ n \in 1..Len(W) /\ n <= Len(sent)
    BY <1>4, <1>5, <1>6, <1>8, <1>11 DEF RowsCut
  <2>2. last \in Seq(U) /\ s \in Seq(U)
    BY <1>4, <1>5, <1>6, <2>1
  <2>3. /\ m = Len(r) /\ m \in Nat /\ m > 0 /\ \A j \in 1..m : last[j] = Shown(r[j])
        /\ Len(s) = Len(w) /\ Len(w) \in Nat /\ \A j \in 1..Len(w) : s[j] = Shown(w[j])
    BY <1>4, <1>5, <2>1
  <2>4. RowCut(r, w)
    BY <1>4, <1>8, <1>11 DEF RowsCut
  <2> HIDE DEF last, s, r, w
  <2>5. /\ m <= Len(s) /\ m \in 1..m /\ m \in 1..Len(s) /\ m - 1 \in 0..m
        /\ \A j \in 1..m : j < m => last[j] = s[j]
        /\ Extends(s[m], last[m])
    BY <2>3, <2>4 DEF RowCut
  <2> HIDE DEF m
  <2>6. IsPrefix(Front(last), s)
    <3> DEFINE f == SubSeq(last, 1, m - 1)
    <3>1. f \in Seq(U) /\ Len(f) = m - 1 /\ \A j \in 1..(m - 1) : f[j] = last[j]
      BY <2>2, <2>5, Cutting DEF m
    <3>2. Front(last) = f
      BY DEF Front, m
    <3> HIDE DEF f
    <3>3. Extends(s, f)
      <4>1. Len(f) <= Len(s) /\ \A i \in 1..Len(f) : i \in 1..m /\ i < m
        BY <2>3, <2>5, <3>1
      <4>2. \A i \in 1..Len(f) : s[i] = f[i]
        BY <2>5, <3>1, <4>1
      <4> QED
        BY <4>1, <4>2 DEF Extends
    <3> QED
      BY <2>2, <3>1, <3>2, <3>3, ExtendsPrefix
  <2>7. IsPrefix(Last(last), s[m])
    <3>1. last[m] \in U /\ s[m] \in U
      BY <2>2, <2>5 DEF m
    <3>2. Last(last) = last[m]
      BY DEF Last, m
    <3> QED
      BY <2>5, <3>1, <3>2, ExtendsPrefix DEF U
  <2> QED
    BY <2>1, <2>5, <2>6, <2>7 DEF s, m
<1> QED
  BY <1>1, <1>6, <1>7, <1>8 DEF CutRead, n, last, whole

\* A table that was accepted is read without a cell that does not exist or a value
\* that is not finite.
LEMMA CheckedReadsAlways ==
  ASSUME NEW T, NEW text \in Seq(T)
  PROVE  CheckedReads(text)
<1> DEFINE rows == CsvRows(text)
           read == read_csv_numeric(text)
           bad == {i \in DOMAIN read :
                     WrongWidth(read, i) \/ NotFinite \in ToSet(read[i])}
           load == load_csv_classification(text)
<1> SUFFICES ASSUME nwx_check(text) = 0, NEW row \in ToSet(load)
             PROVE  {Missing, NotFinite} \cap (ToSet(row.x) \cup {row.y}) = {}
  BY DEF CheckedReads
<1>1. rows \in Seq(RowSet(T))
  <2> DEFINE y == Pieces(text, Newline)
  <2>1. y \in Seq(Seq(T)) /\ Almost(y, y)
    <3>1. Len(text) \in 0..Len(text) /\ SubSeq(text, 1, Len(text)) = text
      OBVIOUS
    <3> QED
      BY <3>1, PiecesAlmost
  <2>2. rows = RowsOf(y)
    BY DEF CsvRows, LineRows, RowsOf
  <2> HIDE DEF y, rows
  <2> QED
    BY <2>1, <2>2, RowsAlmost
<1>2. read # Thrown /\ read # <<>> /\ bad = {}
  <2>1. nwx_check(text) = IF read = Thrown THEN 134
                              ELSE IF read = <<>> THEN 3
                              ELSE IF bad = {} THEN 0
                              ELSE IF WrongWidth(read, Min(bad)) THEN 4 ELSE 5
    BY DEF nwx_check, Aborted
  <2> HIDE DEF read, bad
  <2> QED
    BY <2>1
<1>3. read = rows
  BY <1>2 DEF read_csv_numeric
<1> DEFINE width == Len(read[1])
           Cell(i, j) == IF j <= Len(read[i]) THEN read[i][j] ELSE Missing
<1>4. load = [i \in DOMAIN read |-> [x |-> [j \in 1..(width - 1) |-> Cell(i, j)],
                                     y |-> Cell(i, width)]]
  BY <1>2 DEF load_csv_classification
<1>5. \A i \in DOMAIN read : ~WrongWidth(read, i) /\ NotFinite \notin ToSet(read[i])
  BY <1>2
<1> HIDE DEF rows, read, load, bad
<1>6. /\ DOMAIN read = 1..Len(read) /\ 1 \in 1..Len(read)
      /\ \A i \in 1..Len(read) : read[i] \in RowSet(T)
  BY <1>1, <1>2, <1>3
<1>7. ASSUME NEW i \in 1..Len(read)
      PROVE  /\ Len(read[i]) = width /\ width \in Nat /\ width > 0
             /\ \A j \in 1..width : read[i][j] \notin {Missing, NotFinite}
  <2> DEFINE r == read[i]
  <2>1. r \in RowSet(T) /\ Len(r) = width /\ NotFinite \notin ToSet(r)
    BY <1>5, <1>6 DEF WrongWidth
  <2> HIDE DEF r, width
  <2>2. /\ r \in Seq(Seq(Chars(T))) /\ r # <<>>
        /\ \A j \in 1..Len(r) : r[j] # Missing
    BY <2>1 DEF RowSet
  <2>3. Len(r) \in Nat /\ Len(r) > 0 /\ DOMAIN r = 1..Len(r)
    BY <2>2
  <2>4. \A j \in 1..Len(r) : r[j] # NotFinite
    BY <2>1, <2>3 DEF ToSet
  <2> QED
    BY <2>1, <2>2, <2>3, <2>4 DEF r
<1>8. PICK i \in 1..Len(read) : row = [x |-> [j \in 1..(width - 1) |-> Cell(i, j)],
                                       y |-> Cell(i, width)]
  BY <1>4, <1>6 DEF ToSet
<1>9. \A j \in 1..width : Cell(i, j) \notin {Missing, NotFinite}
  BY <1>7
<1>10. width \in 1..width /\ \A j \in 1..(width - 1) : j \in 1..width
  BY <1>7
<1> HIDE DEF width, Cell
<1>11. /\ row.y = Cell(i, width)
       /\ ToSet(row.x) = {Cell(i, j) : j \in 1..(width - 1)}
  BY <1>8 DEF ToSet
<1> QED
  BY <1>9, <1>10, <1>11

-----------------------------------------------------------------------------
(* The columns of nwx_drift and nwx_impute.                                *)

\* The rows that hold v or less.
NotAbove(n, s, v) == {i \in 1..n : s[i] <= v}

\* The rows of a column that hold less than v, v and more than v add up.
LEMMA RanksAddUp ==
  ASSUME NEW n \in Nat, NEW s \in [1..n -> Nat], NEW v \in Nat
  PROVE  /\ Below(s, v) \in Nat /\ Occurs(s, v) \in Nat /\ Above(s, v) \in Nat
         /\ Below(s, v) + Occurs(s, v) = Cardinality(NotAbove(n, s, v))
         /\ Below(s, v) + Occurs(s, v) + Above(s, v) = n
<1> DEFINE A == {i \in 1..n : s[i] < v}
           B == {i \in 1..n : s[i] = v}
           C == {i \in 1..n : s[i] > v}
           D == NotAbove(n, s, v)
<1>1. /\ Below(s, v) = Cardinality(A) /\ Occurs(s, v) = Cardinality(B)
      /\ Above(s, v) = Cardinality(C)
  <2>1. DOMAIN s = 1..n
    OBVIOUS
  <2> QED
    BY <2>1, Zenon DEF Below, Occurs, Above
<1>2. A \cup B = D /\ A \cap B = {} /\ D \cup C = 1..n /\ D \cap C = {}
  <2>1. \A i \in 1..n : s[i] \in Nat
    OBVIOUS
  <2> QED
    BY <2>1 DEF NotAbove
<1>3. IsFiniteSet(1..n) /\ Cardinality(1..n) = n
  BY FS_Interval
<1>4. IsFiniteSet(A) /\ IsFiniteSet(B) /\ IsFiniteSet(C) /\ IsFiniteSet(D)
  <2>1. A \subseteq 1..n /\ B \subseteq 1..n /\ C \subseteq 1..n /\ D \subseteq 1..n
    BY DEF NotAbove
  <2> HIDE DEF A, B, C, D
  <2> QED
    BY <1>3, <2>1, FS_Subset
<1>5. D = NotAbove(n, s, v)
  OBVIOUS
<1> HIDE DEF A, B, C, D
<1>6. /\ Cardinality(A) \in Nat /\ Cardinality(B) \in Nat
      /\ Cardinality(C) \in Nat /\ Cardinality(D) \in Nat
  BY <1>4, FS_CardinalityType
<1>7. Cardinality(A \cap B) = 0 /\ Cardinality(D \cap C) = 0
  BY <1>2, FS_EmptySet, Zenon
<1>8. Cardinality(A \cup B) = Cardinality(A) + Cardinality(B) - Cardinality(A \cap B)
  BY <1>4, FS_Union
<1>9. Cardinality(D \cup C) = Cardinality(D) + Cardinality(C) - Cardinality(D \cap C)
  BY <1>4, FS_Union
<1>10. Cardinality(D) = Cardinality(A) + Cardinality(B)
  <2>1. Cardinality(D) = Cardinality(A) + Cardinality(B) - 0
    BY <1>2, <1>7, <1>8, Zenon
  <2> QED
    BY <1>6, <2>1
<1>11. n = Cardinality(D) + Cardinality(C)
  <2>1. n = Cardinality(D) + Cardinality(C) - 0
    BY <1>2, <1>3, <1>7, <1>9, Zenon
  <2> QED
    BY <1>6, <2>1
<1> QED
  BY <1>1, <1>5, <1>6, <1>10, <1>11

\* A set of rows within another has no more rows.
LEMMA FewerRows ==
  ASSUME NEW n \in Nat, NEW S \in SUBSET (1..n), NEW R \in SUBSET S
  PROVE  Cardinality(R) <= Cardinality(S) /\ Cardinality(R) \in Nat /\ Cardinality(S) \in 0..n
<1>1. IsFiniteSet(1..n) /\ Cardinality(1..n) = n
  BY FS_Interval
<1>2. IsFiniteSet(S) /\ Cardinality(S) <= Cardinality(1..n)
  BY <1>1, FS_Subset
<1>3. IsFiniteSet(R) /\ Cardinality(R) <= Cardinality(S)
  BY <1>2, FS_Subset
<1> QED
  BY <1>1, <1>2, <1>3, FS_CardinalityType

\* All rows that hold v or less are below what is greater than v.
LEMMA RanksOrdered ==
  ASSUME NEW n \in Nat, NEW s \in [1..n -> Nat], NEW v \in Nat, NEW w \in Nat, v < w
  PROVE  Below(s, v) + Occurs(s, v) <= Below(s, w)
<1> DEFINE D == NotAbove(n, s, v)
           E == {i \in 1..n : s[i] < w}
<1>1. D \subseteq E
  BY DEF NotAbove
<1>2. E \subseteq 1..n
  OBVIOUS
<1>3. Below(s, w) = Cardinality(E)
  <2>1. DOMAIN s = 1..n
    OBVIOUS
  <2> QED
    BY <2>1, Zenon DEF Below
<1>4. Below(s, v) + Occurs(s, v) = Cardinality(D)
  BY RanksAddUp
<1> HIDE DEF D, E
<1>5. Cardinality(D) <= Cardinality(E)
  BY <1>1, <1>2, FewerRows
<1> QED
  BY <1>3, <1>4, <1>5

\* What a column holds, and that it occurs in it.
LEMMA ColumnValues ==
  ASSUME NEW n \in Nat, NEW s \in [1..n -> Nat], NEW v \in Nat
  PROVE  /\ v \in ToSet(s) <=> \E i \in 1..n : s[i] = v
         /\ v \in ToSet(s) <=> Occurs(s, v) > 0
<1>1. v \in ToSet(s) <=> \E i \in 1..n : s[i] = v
  BY DEF ToSet
<1> DEFINE B == {i \in 1..n : s[i] = v}
<1>2. Occurs(s, v) = Cardinality(B)
  <2>1. DOMAIN s = 1..n
    OBVIOUS
  <2> QED
    BY <2>1, Zenon DEF Occurs
<1>3. IsFiniteSet(B)
  <2>1. B \subseteq 1..n /\ IsFiniteSet(1..n)
    BY FS_Interval
  <2> HIDE DEF B
  <2> QED
    BY <2>1, FS_Subset
<1>4. B = {} <=> ~\E i \in 1..n : s[i] = v
  OBVIOUS
<1> HIDE DEF B
<1>5. Cardinality(B) \in Nat /\ (Cardinality(B) = 0 <=> B = {})
  BY <1>3, FS_CardinalityType, FS_EmptySet
<1> QED
  BY <1>1, <1>2, <1>4, <1>5

\* The numbers of a column have a bound.
LEMMA ColumnBound ==
  ASSUME NEW n \in Nat, NEW s \in [1..n -> Nat]
  PROVE  \E M \in Nat : \A i \in 1..n : s[i] < M
<1> DEFINE S == {k \in 0..n : \E M \in Nat : \A i \in 1..k : s[i] < M}
<1>1. 0 \in S
  <2>1. \A i \in 1..0 : s[i] < 0
    OBVIOUS
  <2> QED
    BY <2>1
<1>2. ASSUME NEW k \in 0..(n - 1), k \in S
      PROVE  k + 1 \in S
  <2>1. PICK M \in Nat : \A i \in 1..k : s[i] < M
    BY <1>2
  <2>2. k + 1 \in 1..n /\ s[k + 1] \in Nat /\ M + s[k + 1] + 1 \in Nat
    OBVIOUS
  <2>3. ASSUME NEW i \in 1..(k + 1) PROVE s[i] < M + s[k + 1] + 1
    <3>1. CASE i = k + 1
      BY <2>2, <3>1
    <3>2. CASE i \in 1..k
      <4>1. s[i] < M /\ s[i] \in Nat
        BY <2>1, <3>2
      <4> QED
        BY <2>2, <4>1
    <3> QED
      BY <3>1, <3>2
  <2>4. k + 1 \in 0..n
    OBVIOUS
  <2> QED
    BY <2>2, <2>3, <2>4
<1>3. n \in S
  <2> HIDE DEF S
  <2>1. 0..n \subseteq S
    BY <1>1, <1>2, IntervalInduction
  <2> QED
    BY <2>1
<1> QED
  BY <1>3

\* v is the k-th value of the column s.
Ranked(s, k, v) ==
  v \in ToSet(s) /\ Below(s, v) < k /\ k <= Below(s, v) + Occurs(s, v)

\* There is a k-th value.
LEMMA RankedExists ==
  ASSUME NEW n \in Nat, NEW s \in [1..n -> Nat], NEW k \in 1..n
  PROVE  \E v \in ToSet(s) : Ranked(s, k, v)
<1> SUFFICES ASSUME ~\E v \in ToSet(s) : Ranked(s, k, v) PROVE FALSE
  OBVIOUS
<1> DEFINE S == {v \in Nat : Below(s, v) < k}
           Low(v) == {i \in 1..n : s[i] < v}
<1>1. \A v \in Nat : Below(s, v) = Cardinality(Low(v))
  <2>1. DOMAIN s = 1..n
    OBVIOUS
  <2> QED
    BY <2>1, Zenon DEF Below
<1>2. 0 \in S
  <2>1. Low(0) = {}
    OBVIOUS
  <2>2. Cardinality(Low(0)) = 0
    BY <2>1, FS_EmptySet
  <2> QED
    BY <1>1, <2>2
<1>3. ASSUME NEW v \in Nat, v \in S
      PROVE  v + 1 \in S
  <2>1. Below(s, v + 1) = Below(s, v) + Occurs(s, v)
    <3>1. Low(v + 1) = NotAbove(n, s, v)
      BY DEF NotAbove
    <3>2. Below(s, v + 1) = Cardinality(Low(v + 1))
      BY <1>1
    <3>3. Below(s, v) + Occurs(s, v) = Cardinality(NotAbove(n, s, v))
      BY RanksAddUp
    <3> HIDE DEF Low
    <3> QED
      BY <3>1, <3>2, <3>3, Zenon
  <2>2. Below(s, v) \in Nat /\ Occurs(s, v) \in Nat
    BY RanksAddUp
  <2>3. CASE v \in ToSet(s)
    <3>1. ~(k <= Below(s, v) + Occurs(s, v))
      BY <1>3, <2>3 DEF Ranked
    <3> QED
      BY <2>1, <2>2, <3>1
  <2>4. CASE v \notin ToSet(s)
    <3>1. Occurs(s, v) = 0
      BY <2>2, <2>4, ColumnValues
    <3> QED
      BY <1>3, <2>1, <2>2, <3>1
  <2> QED
    BY <2>3, <2>4
<1>4. PICK M \in Nat : \A i \in 1..n : s[i] < M
  BY ColumnBound
<1>5. M \in S
  <2> HIDE DEF S
  <2>1. Nat \subseteq S
    BY <1>2, <1>3, SetInduction
  <2> QED
    BY <2>1
<1>6. Low(M) = 1..n
  BY <1>4
<1>7. Below(s, M) = n
  <2>1. Cardinality(1..n) = n
    BY FS_Interval
  <2> HIDE DEF Low
  <2> QED
    BY <1>1, <1>6, <2>1
<1> QED
  BY <1>5, <1>7

\* The k-th value of a sorted column has fewer than k values below it, and at least
\* k not above it.
LEMMA SortedRanked ==
  ASSUME NEW n \in Nat, NEW s \in [1..n -> Nat], NEW k \in 1..n
  PROVE  /\ Sorted(s)[k] \in Nat /\ Ranked(s, k, Sorted(s)[k])
         /\ DOMAIN Sorted(s) = 1..n
<1>1. DOMAIN s = 1..n
  OBVIOUS
<1>2. Sorted(s)[k] = CHOOSE v \in ToSet(s) :
                           Below(s, v) < k /\ k <= Below(s, v) + Occurs(s, v)
  BY <1>1, Zenon DEF Sorted
<1>3. \E v \in ToSet(s) : Below(s, v) < k /\ k <= Below(s, v) + Occurs(s, v)
  BY RankedExists DEF Ranked
<1>4. Ranked(s, k, Sorted(s)[k])
  BY <1>2, <1>3, Zenon DEF Ranked
<1>5. ToSet(s) \subseteq Nat
  BY <1>1 DEF ToSet
<1>6. DOMAIN Sorted(s) = 1..n
  BY <1>1 DEF Sorted
<1> QED
  BY <1>4, <1>5, <1>6 DEF Ranked

\* A value with that many below and not above is the k-th.
LEMMA RankedOnce ==
  ASSUME NEW n \in Nat, NEW s \in [1..n -> Nat], NEW j \in 1..n, NEW k \in 1..n, j <= k,
         NEW v \in Nat, NEW w \in Nat, Ranked(s, j, v), Ranked(s, k, w)
  PROVE  v <= w /\ (j = k => v = w)
<1>1. /\ Below(s, v) \in Nat /\ Occurs(s, v) \in Nat
      /\ Below(s, w) \in Nat /\ Occurs(s, w) \in Nat
  BY RanksAddUp
<1>2. ~(w < v)
  <2> SUFFICES ASSUME w < v PROVE FALSE
    OBVIOUS
  <2>1. Below(s, w) + Occurs(s, w) <= Below(s, v)
    BY RanksOrdered
  <2>2. Below(s, v) < j /\ j <= Below(s, v) + Occurs(s, v)
    BY DEF Ranked
  <2>3. Below(s, w) < k /\ k <= Below(s, w) + Occurs(s, w)
    BY DEF Ranked
  <2> QED
    BY <1>1, <2>1, <2>2, <2>3
<1>3. j = k => ~(v < w)
  <2> SUFFICES ASSUME j = k, v < w PROVE FALSE
    OBVIOUS
  <2>1. Below(s, v) + Occurs(s, v) <= Below(s, w)
    BY RanksOrdered
  <2>2. Below(s, v) < j /\ j <= Below(s, v) + Occurs(s, v)
    BY DEF Ranked
  <2>3. Below(s, w) < k /\ k <= Below(s, w) + Occurs(s, w)
    BY DEF Ranked
  <2> QED
    BY <1>1, <2>1, <2>2, <2>3
<1> QED
  BY <1>2, <1>3

\* A sorted column is in order.
LEMMA SortedInOrder ==
  ASSUME NEW n \in Nat, NEW s \in [1..n -> Nat], NEW j \in 1..n, NEW k \in 1..n, j <= k
  PROVE  Sorted(s)[j] <= Sorted(s)[k]
<1>1. Sorted(s)[j] \in Nat /\ Ranked(s, j, Sorted(s)[j])
  BY SortedRanked
<1>2. Sorted(s)[k] \in Nat /\ Ranked(s, k, Sorted(s)[k])
  BY SortedRanked
<1> QED
  BY <1>1, <1>2, RankedOnce

\* The median has at most half of the rows below it, and at most half above it.
LEMMA MedianInMiddle ==
  ASSUME NEW n \in Nat \ {0}, NEW s \in [1..n -> Nat]
  PROVE  LET d == Sorted(s)[n \div 2 + 1]
         IN  2 * Below(s, d) <= n /\ 2 * Above(s, d) <= n
<1> DEFINE k == n \div 2 + 1
           d == Sorted(s)[k]
<1>1. k \in 1..n /\ 2 * (k - 1) <= n /\ n < 2 * k
  OBVIOUS
<1> HIDE DEF k
<1>2. d \in Nat /\ Ranked(s, k, d)
  BY <1>1, SortedRanked
<1> HIDE DEF d
<1>3. /\ Below(s, d) \in Nat /\ Occurs(s, d) \in Nat /\ Above(s, d) \in Nat
      /\ Below(s, d) + Occurs(s, d) + Above(s, d) = n
  BY <1>2, RanksAddUp
<1>4. 2 * Below(s, d) <= n /\ 2 * Above(s, d) <= n
  <2>1. Below(s, d) < k /\ k <= Below(s, d) + Occurs(s, d)
    BY <1>2 DEF Ranked
  <2> QED
    BY <1>1, <1>3, <2>1
<1> QED
  BY <1>4 DEF d, k

-----------------------------------------------------------------------------
(* The scan of most_frequent over the sorted values (impute.cpp 24).       *)

\* best, its count bc and the current run cc.
Scans == [best : Nat, bc : Nat, cc : Nat]

\* One value of the sorted column S.
Scanning(S, t, i) ==
  IF i = 1 THEN t
  ELSE IF S[i] = S[i - 1] THEN [t EXCEPT !.cc = @ + 1]
  ELSE IF t.cc > t.bc THEN [best |-> S[i - 1], bc |-> t.cc, cc |-> 1]
  ELSE [t EXCEPT !.cc = 1]

\* The states of the scan.
ScanStates(P, n, S) ==
  /\ P \in [0..n -> Scans]
  /\ P[0] = [best |-> S[1], bc |-> 1, cc |-> 1]
  /\ \A k \in 1..n : P[k] = Scanning(S, P[k - 1], k)

\* m is the least of the most frequent values up to v, and occurs f times.
ModeUpTo(s, v, m, f) ==
  /\ m \in ToSet(s) /\ m \in Nat /\ m <= v /\ f = Occurs(s, m)
  /\ \A w \in ToSet(s) :
       w <= v => Occurs(s, w) < f \/ (Occurs(s, w) = f /\ m <= w)

\* Before the run of v, the k-th value: only the run itself, or best is the mode of
\* the values before.
BeforeRun(s, k, v, t) ==
  \/ t.bc = 1 /\ t.best = v /\ \A w \in ToSet(s) : v <= w
  \/ \E u \in Nat : /\ u < v /\ ModeUpTo(s, u, t.best, t.bc)
                    /\ \A w \in ToSet(s) : w < v => w <= u

\* What holds of the scan after the k-th value.
ScanKnows(s, k, t) ==
  /\ t.cc = k - Below(s, Sorted(s)[k])
  /\ BeforeRun(s, k, Sorted(s)[k], t)

\* The run of v is complete: its best is the mode up to v.
LEMMA RunCompleted ==
  ASSUME NEW n \in Nat, NEW s \in [1..n -> Nat], NEW k \in 1..n, NEW t \in Scans,
         NEW v \in Nat, v \in ToSet(s), BeforeRun(s, k, v, t),
         t.cc = Occurs(s, v)
  PROVE  ModeUpTo(s, v, IF t.cc > t.bc THEN v ELSE t.best, IF t.cc > t.bc THEN t.cc ELSE t.bc)
<1>1. \A w \in Nat : Occurs(s, w) \in Nat
  BY RanksAddUp
<1>2. ToSet(s) \subseteq Nat
  BY DEF ToSet
<1>3. t.best \in Nat /\ t.bc \in Nat /\ t.cc \in Nat
  BY DEF Scans
<1>4. t.cc > 0
  BY ColumnValues
<1>5. CASE t.bc = 1 /\ t.best = v /\ \A w \in ToSet(s) : v <= w
  <2>1. \A w \in ToSet(s) : w <= v => w = v
    BY <1>2, <1>5
  <2>2. ~(t.cc > t.bc) => t.cc = 1
    BY <1>3, <1>4, <1>5
  <2> QED
    BY <1>1, <1>3, <1>5, <2>1, <2>2 DEF ModeUpTo
<1>6. ASSUME NEW u \in Nat, u < v, ModeUpTo(s, u, t.best, t.bc),
             \A w \in ToSet(s) : w < v => w <= u
      PROVE  ModeUpTo(s, v, IF t.cc > t.bc THEN v ELSE t.best, IF t.cc > t.bc THEN t.cc ELSE t.bc)
  <2>1. /\ t.best \in ToSet(s) /\ t.best <= u /\ t.bc = Occurs(s, t.best)
        /\ \A w \in ToSet(s) :
             w <= u => Occurs(s, w) < t.bc \/ (Occurs(s, w) = t.bc /\ t.best <= w)
    BY <1>6 DEF ModeUpTo
  <2>2. \A w \in ToSet(s) : w <= v => w = v \/ w <= u
    BY <1>2, <1>6
  <2>3. CASE t.cc > t.bc
    <3>1. ASSUME NEW w \in ToSet(s), w <= v
          PROVE  Occurs(s, w) < t.cc \/ (Occurs(s, w) = t.cc /\ v <= w)
      <4>1. Occurs(s, w) \in Nat /\ w \in Nat
        BY <1>1, <1>2
      <4> QED
        BY <1>3, <2>1, <2>2, <2>3, <3>1, <4>1
    <3> QED
      BY <2>3, <3>1 DEF ModeUpTo
  <2>4. CASE ~(t.cc > t.bc)
    <3>1. ASSUME NEW w \in ToSet(s), w <= v
          PROVE  Occurs(s, w) < t.bc \/ (Occurs(s, w) = t.bc /\ t.best <= w)
      <4>1. Occurs(s, w) \in Nat /\ w \in Nat
        BY <1>1, <1>2
      <4> QED
        BY <1>3, <1>6, <2>1, <2>2, <2>4, <3>1, <4>1
    <3>2. t.best <= v
      BY <1>3, <1>6, <2>1
    <3> QED
      BY <1>3, <2>1, <2>4, <3>1, <3>2 DEF ModeUpTo
  <2> QED
    BY <2>3, <2>4
<1> QED
  BY <1>5, <1>6 DEF BeforeRun

\* Where the sorted column goes on to another value, the run before it is complete
\* and no value is between the two.
LEMMA RunEnds ==
  ASSUME NEW n \in Nat, NEW s \in [1..n -> Nat], NEW k \in 1..(n - 1),
         Sorted(s)[k] # Sorted(s)[k + 1]
  PROVE  LET v == Sorted(s)[k]
             w == Sorted(s)[k + 1]
         IN  /\ v < w /\ Below(s, w) = k /\ Below(s, v) + Occurs(s, v) = k
             /\ \A u \in ToSet(s) : u < w => u <= v
<1> DEFINE v == Sorted(s)[k]
           w == Sorted(s)[k + 1]
<1>1. k \in 1..n /\ k + 1 \in 1..n /\ k \in Nat
  OBVIOUS
<1>2. v \in Nat /\ w \in Nat /\ Ranked(s, k, v) /\ Ranked(s, k + 1, w)
  BY <1>1, SortedRanked
<1>3. v <= w
  BY <1>1, SortedInOrder
<1>4. v # w
  OBVIOUS
<1> HIDE DEF v, w
<1>5. v < w
  BY <1>2, <1>3, <1>4
<1>6. /\ Below(s, v) \in Nat /\ Occurs(s, v) \in Nat
      /\ Below(s, w) \in Nat /\ Occurs(s, w) \in Nat
  BY <1>2, RanksAddUp
<1>7. Below(s, v) < k /\ k <= Below(s, v) + Occurs(s, v) /\ Below(s, w) < k + 1
  BY <1>2 DEF Ranked
<1>8. Below(s, v) + Occurs(s, v) <= Below(s, w)
  BY <1>2, <1>5, RanksOrdered
<1>9. Below(s, w) = k /\ Below(s, v) + Occurs(s, v) = k
  BY <1>1, <1>6, <1>7, <1>8
<1>10. ASSUME NEW u \in ToSet(s), u < w
       PROVE  u <= v
  <2>1. u \in Nat
    BY DEF ToSet
  <2> SUFFICES ASSUME v < u PROVE FALSE
    BY <1>2, <2>1
  <2>2. Below(s, v) + Occurs(s, v) <= Below(s, u)
    BY <1>2, <2>1, RanksOrdered
  <2>3. Below(s, u) + Occurs(s, u) <= Below(s, w)
    BY <1>2, <1>10, <2>1, RanksOrdered
  <2>4. Occurs(s, u) > 0
    BY <2>1, ColumnValues
  <2>5. Below(s, u) \in Nat /\ Occurs(s, u) \in Nat
    BY <2>1, RanksAddUp
  <2>6. k <= Below(s, u) /\ Below(s, u) + Occurs(s, u) <= k
    BY <1>9, <2>2, <2>3
  <2> QED
    BY <1>1, <2>4, <2>5, <2>6
<1> QED
  BY <1>5, <1>9, <1>10 DEF v, w

\* The scan knows what it must after every value.
LEMMA ScanGoes ==
  ASSUME NEW n \in Nat \ {0}, NEW s \in [1..n -> Nat], NEW P, ScanStates(P, n, Sorted(s))
  PROVE  ScanKnows(s, n, P[n])
<1> DEFINE S == Sorted(s)
           K == {k \in 0..n : k > 0 => ScanKnows(s, k, P[k])}
<1>1. \A k \in 1..n : S[k] \in Nat /\ Ranked(s, k, S[k])
  BY SortedRanked
<1>2. P \in [0..n -> Scans] /\ P[0] = [best |-> S[1], bc |-> 1, cc |-> 1]
  BY DEF ScanStates
<1>3. \A k \in 1..n : P[k] = Scanning(S, P[k - 1], k)
  BY DEF ScanStates
<1> HIDE DEF S
<1>4. 0 \in K
  OBVIOUS
<1>5. ASSUME n > 0 PROVE ScanKnows(s, 1, P[1])
  <2>1. 1 \in 1..n /\ 1 - 1 = 0
    OBVIOUS
  <2>2. P[1] = [best |-> S[1], bc |-> 1, cc |-> 1]
    BY <1>2, <1>3, <2>1 DEF Scanning
  <2>3. S[1] \in Nat /\ Below(s, S[1]) < 1
    BY <1>1, <2>1 DEF Ranked
  <2>4. Below(s, S[1]) \in Nat
    BY <2>3, RanksAddUp
  <2>5. Below(s, S[1]) = 0
    BY <2>3, <2>4
  <2>6. ASSUME NEW w \in ToSet(s) PROVE S[1] <= w
    <3>1. w \in Nat
      BY DEF ToSet
    <3> SUFFICES ASSUME w < S[1] PROVE FALSE
      BY <2>3, <3>1
    <3>2. Below(s, w) + Occurs(s, w) <= Below(s, S[1])
      BY <2>3, <3>1, RanksOrdered
    <3>3. Occurs(s, w) > 0
      BY <3>1, ColumnValues
    <3>4. Below(s, w) \in Nat /\ Occurs(s, w) \in Nat
      BY <3>1, RanksAddUp
    <3> QED
      BY <2>5, <3>2, <3>3, <3>4
  <2>7. P[1].cc = 1 - Below(s, S[1])
    BY <2>2, <2>5
  <2>8. BeforeRun(s, 1, S[1], P[1])
    BY <2>2, <2>6 DEF BeforeRun
  <2> QED
    BY <2>7, <2>8 DEF ScanKnows, S
<1>6. ASSUME NEW k \in 1..(n - 1), ScanKnows(s, k, P[k])
      PROVE  ScanKnows(s, k + 1, P[k + 1])
  <2> DEFINE t == P[k]
             v == S[k]
             w == S[k + 1]
  <2>1. k \in 1..n /\ k + 1 \in 1..n /\ k \in 0..n /\ (k + 1) - 1 = k /\ k + 1 # 1
    OBVIOUS
  <2>2. t \in Scans
    BY <1>2, <2>1
  <2>3. P[k + 1] = Scanning(S, t, k + 1)
    BY <1>3, <2>1
  <2>4. v \in Nat /\ w \in Nat /\ Ranked(s, k, v)
    BY <1>1, <2>1
  <2>5. t.cc = k - Below(s, v) /\ BeforeRun(s, k, v, t)
    BY <1>6 DEF ScanKnows, S
  <2>6. Below(s, v) \in Nat /\ Occurs(s, v) \in Nat
    BY <2>4, RanksAddUp
  <2>7. /\ w = v => P[k + 1] = [t EXCEPT !.cc = @ + 1]
        /\ w # v => P[k + 1] = IF t.cc > t.bc THEN [best |-> v, bc |-> t.cc, cc |-> 1]
                               ELSE [t EXCEPT !.cc = 1]
    BY <2>1, <2>3 DEF Scanning
  <2> HIDE DEF t
  <2>8. CASE w = v
    <3>1. P[k + 1].cc = t.cc + 1 /\ P[k + 1].bc = t.bc /\ P[k + 1].best = t.best
      BY <2>2, <2>7, <2>8 DEF Scans
    <3>2. P[k + 1].cc = (k + 1) - Below(s, w)
      <4> HIDE DEF v, w
      <4> QED
        BY <2>2, <2>5, <2>6, <2>8, <3>1 DEF Scans
    <3>3. BeforeRun(s, k + 1, w, P[k + 1])
      BY <2>5, <2>8, <3>1 DEF BeforeRun
    <3> QED
      BY <3>2, <3>3 DEF ScanKnows, S
  <2>9. CASE w # v
    <3>1. /\ v < w /\ Below(s, w) = k /\ Below(s, v) + Occurs(s, v) = k
          /\ \A u \in ToSet(s) : u < w => u <= v
      BY <2>9, RunEnds DEF S
    <3>2. t.cc = Occurs(s, v)
      <4> HIDE DEF v, w
      <4> QED
        BY <2>5, <2>6, <3>1
    <3>3. v \in ToSet(s)
      BY <2>4 DEF Ranked
    <3> DEFINE m == IF t.cc > t.bc THEN v ELSE t.best
               f == IF t.cc > t.bc THEN t.cc ELSE t.bc
    <3>4. ModeUpTo(s, v, m, f)
      <4> HIDE DEF v, w
      <4> QED
        BY <2>1, <2>2, <2>4, <2>5, <3>2, <3>3, RunCompleted
    <3>5. P[k + 1].best = m /\ P[k + 1].bc = f /\ P[k + 1].cc = 1
      BY <2>2, <2>7, <2>9 DEF Scans
    <3> HIDE DEF m, f, v, w
    <3>6. BeforeRun(s, k + 1, w, P[k + 1])
      BY <2>4, <3>1, <3>4, <3>5 DEF BeforeRun
    <3>7. P[k + 1].cc = (k + 1) - Below(s, w)
      BY <3>1, <3>5
    <3> QED
      BY <3>6, <3>7 DEF ScanKnows, S, w
  <2> QED
    BY <2>8, <2>9
<1>7. \A k \in 0..(n - 1) : k \in K => k + 1 \in K
  <2> SUFFICES ASSUME NEW k \in 0..(n - 1), k \in K PROVE k + 1 \in K
    OBVIOUS
  <2>1. k + 1 \in 0..n
    OBVIOUS
  <2>2. CASE k = 0
    BY <1>5, <2>1, <2>2
  <2>3. CASE k # 0
    <3>1. k \in 1..(n - 1) /\ ScanKnows(s, k, P[k])
      BY <2>3
    <3> QED
      BY <1>6, <2>1, <3>1
  <2> QED
    BY <2>2, <2>3
<1>8. n \in K
  <2> HIDE DEF K
  <2>1. 0..n \subseteq K
    BY <1>4, <1>7, IntervalInduction
  <2> QED
    BY <2>1
<1> QED
  BY <1>8

\* The loop of most_frequent is that scan.
LEMMA ModeSteps ==
  ASSUME NEW n \in Nat \ {0}, NEW s,
         Sorted(s) \in [1..n -> Nat], Len(Sorted(s)) = n
  PROVE  \E P : /\ ScanStates(P, n, Sorted(s))
                /\ most_frequent(s) = IF P[n].cc > P[n].bc THEN Sorted(s)[n] ELSE P[n].best
<1> DEFINE S == Sorted(s)
           seq == [i \in DOMAIN S |-> i]
           start == [best |-> S[1], bc |-> 1, cc |-> 1]
           step == [v \in Scans \X (1..n) |-> Scanning(S, v[1], v[2])]
           Body(g) == [r \in SUBSET DOMAIN seq |->
                         IF r = {} THEN start
                         ELSE Scanning(S, g[r \ {Top(r)}], seq[Top(r)])]
           iter == CHOOSE g : g = Body(g)
           end == iter[DOMAIN seq]
<1>1. most_frequent(s) = IF end.cc > end.bc THEN S[Len(S)] ELSE end.best
  BY Zenon DEF most_frequent, FoldLeftDomain, FoldLeft, MapThenFoldSet,
     Max, Top, Scanning
<1>2. S \in [1..n -> Nat] /\ Len(S) = n
  OBVIOUS
<1> HIDE DEF S
<1>3. DOMAIN seq = 1..n /\ n \in Nat /\ 1 \in 1..n /\ \A i \in 1..n : seq[i] = i
  BY <1>2
<1>4. start \in Scans
  BY <1>3, <1>2 DEF Scans
<1>5. step \in [Scans \X (1..n) -> Scans]
  <2>1. ASSUME NEW t \in Scans, NEW i \in 1..n PROVE Scanning(S, t, i) \in Scans
    <3>1. i # 1 => S[i - 1] \in Nat
      BY <1>2
    <3> QED
      BY <3>1 DEF Scanning, Scans
  <2> QED
    BY <2>1
<1> HIDE DEF seq, start
<1>6. \E g : g = Body(g)
  <2>1. PICK G \in [SUBSET (1..n) -> Scans] : Folding(n, start, step, G)
    <3> HIDE DEF step
    <3> QED
      BY <1>3, <1>4, <1>5, FoldExists, Zenon
  <2>2. ASSUME NEW r \in SUBSET (1..n), r # {}
        PROVE  step[<<G[r \ {Top(r)}], Top(r)>>] = Scanning(S, G[r \ {Top(r)}], seq[Top(r)])
    <3>1. Top(r) \in 1..n /\ r \ {Top(r)} \in SUBSET (1..n)
      BY <1>3, <2>2, TopIn
    <3>2. <<G[r \ {Top(r)}], Top(r)>> \in Scans \X (1..n)
      BY <3>1
    <3> QED
      BY <1>3, <3>1, <3>2
  <2>3. G = Body(G)
    <3> HIDE DEF step
    <3>1. \A r \in SUBSET (1..n) :
            G[r] = IF r = {} THEN start ELSE Scanning(S, G[r \ {Top(r)}], seq[Top(r)])
      BY <2>1, <2>2, Zenon DEF Folding
    <3> QED
      BY <1>3, <3>1
  <2> QED
    BY <2>3
<1>7. iter = Body(iter)
  <2> HIDE DEF Body
  <2> QED
    BY <1>6, Zenon
<1> HIDE DEF iter
<1>8. FoldingIn(Scans, n, start, step, iter)
  <2>1. /\ iter[{}] = start
        /\ \A r \in SUBSET (1..n) :
             r # {} => iter[r] = Scanning(S, iter[r \ {Top(r)}], seq[Top(r)])
    BY <1>3, <1>7
  <2>2. \A r \in SUBSET (1..n) : r # {} => Top(r) \in 1..n
    BY <1>3, TopIn
  <2>3. \A t \in Scans, i \in 1..n : step[<<t, i>>] = Scanning(S, t, seq[i])
    BY <1>3
  <2> HIDE DEF step
  <2> QED
    BY <2>1, <2>2, <2>3 DEF FoldingIn
<1>9. PICK P \in [0..n -> Scans] : PrefixValues(n, start, step, iter[1..n], P)
  <2> HIDE DEF step
  <2> QED
    BY <1>3, <1>4, <1>5, <1>8, FoldPrefixes, Zenon
<1>10. P[0] = start /\ P[n] = iter[1..n] /\ \A k \in 1..n : P[k] = Scanning(S, P[k - 1], k)
  <2>1. \A k \in 1..n : k - 1 \in 0..n
    BY <1>3
  <2> QED
    BY <1>9, <2>1 DEF PrefixValues
<1>11. ScanStates(P, n, S)
  BY <1>10 DEF ScanStates, start
<1>12. most_frequent(s) = IF P[n].cc > P[n].bc THEN S[n] ELSE P[n].best
  <2>1. end = P[n]
    BY <1>3, <1>10
  <2> HIDE DEF end
  <2> QED
    BY <1>1, <1>2, <2>1
<1> QED
  BY <1>11, <1>12 DEF S

\* most_frequent is the least of the most frequent values of a column.
LEMMA ModeFound ==
  ASSUME NEW n \in Nat \ {0}, NEW s \in [1..n -> Nat]
  PROVE  LET m == most_frequent(s)
         IN  /\ m \in ToSet(s) /\ m \in Nat
             /\ \A v \in ToSet(s) :
                  \/ Occurs(s, v) < Occurs(s, m)
                  \/ Occurs(s, v) = Occurs(s, m) /\ m <= v
<1> DEFINE S == Sorted(s)
           v == S[n]
<1>1. S \in [1..n -> Nat] /\ Len(S) = n
  <2>1. DOMAIN s = 1..n /\ n \in 1..n
    OBVIOUS
  <2>2. \A k \in 1..n : S[k] \in Nat
    BY SortedRanked
  <2>3. S \in [1..n -> Nat]
    <3>1. \E f : S = [k \in 1..n |-> f[k]]
      <4> DEFINE f == [k \in 1..n |-> CHOOSE u \in ToSet(s) :
                        Below(s, u) < k /\ k <= Below(s, u) + Occurs(s, u)]
      <4>1. S = f
        BY <2>1, Zenon DEF Sorted
      <4>2. f = [k \in 1..n |-> f[k]]
        OBVIOUS
      <4> QED
        BY <4>1, <4>2, Zenon
    <3> HIDE DEF S
    <3> QED
      BY <2>2, <3>1
  <2> HIDE DEF S
  <2> QED
    BY <2>3, FunctionSeq
<1>2. PICK P : /\ ScanStates(P, n, S)
               /\ most_frequent(s) = IF P[n].cc > P[n].bc THEN S[n] ELSE P[n].best
  BY <1>1, ModeSteps
<1> DEFINE t == P[n]
<1>3. n \in 1..n /\ t \in Scans
  BY <1>2 DEF ScanStates
<1>4. t.cc = n - Below(s, v) /\ BeforeRun(s, n, v, t)
  <2>1. ScanKnows(s, n, P[n])
    BY <1>2, ScanGoes
  <2> QED
    BY <2>1 DEF ScanKnows
<1>5. v \in Nat /\ Ranked(s, n, v)
  BY <1>3, SortedRanked
<1> HIDE DEF t, v, S
<1>6. /\ Below(s, v) \in Nat /\ Occurs(s, v) \in Nat /\ Above(s, v) \in Nat
      /\ Below(s, v) + Occurs(s, v) + Above(s, v) = n
  BY <1>5, RanksAddUp
<1>7. v \in ToSet(s) /\ n <= Below(s, v) + Occurs(s, v)
  BY <1>5 DEF Ranked
<1>8. t.cc = Occurs(s, v)
  BY <1>4, <1>6, <1>7
<1>9. ModeUpTo(s, v, IF t.cc > t.bc THEN v ELSE t.best, IF t.cc > t.bc THEN t.cc ELSE t.bc)
  BY <1>3, <1>4, <1>5, <1>7, <1>8, RunCompleted
<1>10. most_frequent(s) = IF t.cc > t.bc THEN v ELSE t.best
  BY <1>2 DEF t, v
<1> DEFINE m == most_frequent(s)
<1>11. ModeUpTo(s, v, m, Occurs(s, m))
  <2>1. \E f : ModeUpTo(s, v, m, f)
    BY <1>9, <1>10
  <2> QED
    BY <2>1, Zenon DEF ModeUpTo
<1>12. ASSUME NEW w \in ToSet(s) PROVE w <= v
  <2>1. w \in Nat
    BY DEF ToSet
  <2> SUFFICES ASSUME v < w PROVE FALSE
    BY <1>5, <2>1
  <2>2. Below(s, v) + Occurs(s, v) <= Below(s, w)
    BY <1>5, <2>1, RanksOrdered
  <2>3. Occurs(s, w) > 0
    BY <2>1, ColumnValues
  <2>4. /\ Below(s, w) \in Nat /\ Occurs(s, w) \in Nat /\ Above(s, w) \in Nat
        /\ Below(s, w) + Occurs(s, w) + Above(s, w) = n
    BY <2>1, RanksAddUp
  <2> QED
    BY <1>6, <1>7, <2>2, <2>3, <2>4
<1> HIDE DEF m
<1>13. /\ m \in ToSet(s) /\ m \in Nat
       /\ \A w \in ToSet(s) : \/ Occurs(s, w) < Occurs(s, m)
                              \/ Occurs(s, w) = Occurs(s, m) /\ m <= w
  BY <1>11, <1>12 DEF ModeUpTo
<1> QED
  BY <1>13 DEF m

-----------------------------------------------------------------------------
(* The fill of nwx_impute.                                                 *)

\* What a column holds: numbers, and cells that are not finite.
ColumnCells == Nat \cup {NonFinite}

\* A value is kept when it is finite (impute.cpp 21).
Kept(vals, v) == IF v = NonFinite THEN vals ELSE Append(vals, v)

\* The loop that keeps the finite values of a column goes through its prefixes.
LEMMA FiniteSteps ==
  ASSUME NEW column \in Seq(ColumnCells)
  PROVE  \E P \in [0..Len(column) -> Seq(Nat)] :
           /\ P[0] = <<>> /\ P[Len(column)] = Finite(column)
           /\ \A k \in 1..Len(column) : P[k] = Kept(P[k - 1], column[k])
<1> DEFINE V == Seq(Nat)
           n == Len(column)
           step == [p \in V \X (1..n) |-> Kept(p[1], column[p[2]])]
           Body(g) == [s \in SUBSET (1..n) |->
                         IF s = {} THEN <<>>
                         ELSE Kept(g[s \ {Top(s)}], column[Top(s)])]
           iter == CHOOSE g : g = Body(g)
<1>1. n \in Nat /\ DOMAIN column = 1..n
  OBVIOUS
<1>2. Finite(column) = iter[1..n]
  <2> DEFINE Other(g) == [s \in SUBSET DOMAIN column |->
                            IF s = {} THEN <<>> ELSE Kept(g[s \ {Top(s)}], column[Top(s)])]
  <2>1. Finite(column) = (CHOOSE g : g = Other(g))[DOMAIN column]
    BY Zenon DEF Finite, FoldLeft, MapThenFoldSet, Max, Top, Kept
  <2> HIDE DEF n
  <2> QED
    BY <1>1, <2>1, Zenon
<1>3. <<>> \in V /\ step \in [V \X (1..n) -> V]
  <2>1. <<>> \in V
    OBVIOUS
  <2>2. \A v \in V, k \in 1..n : Kept(v, column[k]) \in V
    <3>1. ASSUME NEW v \in Seq(Nat), NEW c \in ColumnCells PROVE Kept(v, c) \in Seq(Nat)
      <4>1. c # NonFinite => c \in Nat /\ Append(v, c) \in Seq(Nat)
        BY DEF ColumnCells
      <4> QED
        BY <4>1 DEF Kept
    <3>2. \A k \in 1..n : column[k] \in ColumnCells
      OBVIOUS
    <3> QED
      BY <3>1, <3>2
  <2> HIDE DEF V
  <2> QED
    BY <2>1, <2>2
<1> HIDE DEF V
<1>4. \E g : g = Body(g)
  <2>1. PICK G \in [SUBSET (1..n) -> V] : Folding(n, <<>>, step, G)
    <3> HIDE DEF step, n
    <3> QED
      BY <1>1, <1>3, FoldExists, Zenon
  <2>2. ASSUME NEW s \in SUBSET (1..n), s # {}
        PROVE  step[<<G[s \ {Top(s)}], Top(s)>>] = Kept(G[s \ {Top(s)}], column[Top(s)])
    <3>1. Top(s) \in 1..n /\ s \ {Top(s)} \in SUBSET (1..n)
      BY <1>1, <2>2, TopIn
    <3> QED
      BY <3>1
  <2>3. G = Body(G)
    BY <2>1, <2>2 DEF Folding
  <2> QED
    BY <2>3
<1>5. iter = Body(iter)
  <2> HIDE DEF Body
  <2> QED
    BY <1>4, Zenon
<1> HIDE DEF iter
<1>6. FoldingIn(V, n, <<>>, step, iter)
  <2>1. /\ iter[{}] = <<>>
        /\ \A s \in SUBSET (1..n) :
             s # {} => iter[s] = Kept(iter[s \ {Top(s)}], column[Top(s)])
    BY <1>5
  <2> QED
    BY <1>1, <2>1, TopIn DEF FoldingIn
<1>7. PICK P \in [0..n -> V] : PrefixValues(n, <<>>, step, iter[1..n], P)
  <2> HIDE DEF step, n
  <2> QED
    BY <1>1, <1>3, <1>6, FoldPrefixes, Zenon
<1>8. P[0] = <<>> /\ P[n] = iter[1..n] /\ \A k \in 1..n : P[k] = Kept(P[k - 1], column[k])
  <2>1. \A k \in 1..n : k - 1 \in 0..n
    BY <1>1
  <2> QED
    BY <1>7, <2>1 DEF PrefixValues
<1> QED
  BY <1>2, <1>7, <1>8 DEF V

\* The values that are finite are numbers.
LEMMA FiniteType ==
  ASSUME NEW column \in Seq(ColumnCells)
  PROVE  Finite(column) \in Seq(Nat)
<1>1. PICK P \in [0..Len(column) -> Seq(Nat)] : P[Len(column)] = Finite(column)
  BY FiniteSteps
<1>2. Len(column) \in 0..Len(column)
  OBVIOUS
<1> QED
  BY <1>1, <1>2

\* The fill is the least most frequent value, or one in the middle.
LEMMA FillIsModeAlways ==
  ASSUME NEW column \in Seq(ColumnCells)
  PROVE  ModeFills(column)
<1> DEFINE vals == Finite(column)
           n == Len(vals)
           m == Fill(column, "most_frequent")
           d == Fill(column, "median")
<1>1. SUFFICES ASSUME vals # <<>>
      PROVE  /\ \A v \in ToSet(vals) : \/ Occurs(vals, v) < Occurs(vals, m)
                                       \/ Occurs(vals, v) = Occurs(vals, m) /\ m <= v
             /\ 2 * Below(vals, d) <= Len(vals) /\ 2 * Above(vals, d) <= Len(vals)
  BY Zenon DEF ModeFills
<1>2. vals \in Seq(Nat) /\ n \in Nat \ {0} /\ vals \in [1..n -> Nat]
  <2>1. vals \in Seq(Nat)
    BY FiniteType
  <2> HIDE DEF vals
  <2> QED
    BY <1>1, <2>1
<1>3. m = most_frequent(vals)
  <2>1. m = CASE vals = <<>> -> 0
              [] vals # <<>> /\ "most_frequent" = "median" -> median(vals)
              [] vals # <<>> /\ "most_frequent" = "most_frequent" -> most_frequent(vals)
    BY Zenon DEF Fill
  <2> HIDE DEF vals, m
  <2> QED
    BY <1>1, <2>1
<1>4. d = Sorted(vals)[n \div 2 + 1]
  <2>1. d = CASE vals = <<>> -> 0
              [] vals # <<>> /\ "median" = "median" -> median(vals)
              [] vals # <<>> /\ "median" = "most_frequent" -> most_frequent(vals)
    BY Zenon DEF Fill
  <2>2. median(vals) = Sorted(vals)[n \div 2 + 1]
    BY DEF median
  <2> HIDE DEF vals, d
  <2> QED
    BY <1>1, <2>1, <2>2
<1> HIDE DEF vals, n, m, d
<1>6. /\ m \in Nat
      /\ \A v \in ToSet(vals) : \/ Occurs(vals, v) < Occurs(vals, m)
                                \/ Occurs(vals, v) = Occurs(vals, m) /\ m <= v
  BY <1>2, <1>3, ModeFound
<1>7. 2 * Below(vals, d) <= n /\ 2 * Above(vals, d) <= n
  BY <1>2, <1>4, MedianInMiddle
<1> QED
  BY <1>6, <1>7 DEF n

\* A fill that is computed, or stays 0, is a number.
LEMMA FillNumber ==
  ASSUME NEW column \in Seq(ColumnCells)
  PROVE  Fill(column, "most_frequent") \in Nat
<1> DEFINE vals == Finite(column)
           m == Fill(column, "most_frequent")
<1>1. m = CASE vals = <<>> -> 0
            [] vals # <<>> /\ "most_frequent" = "median" -> median(vals)
            [] vals # <<>> /\ "most_frequent" = "most_frequent" -> most_frequent(vals)
  BY Zenon DEF Fill
<1>2. vals \in Seq(Nat)
  BY FiniteType
<1> HIDE DEF vals, m
<1>3. CASE vals = <<>>
  BY <1>1, <1>3 DEF m
<1>4. CASE vals # <<>>
  <2>1. Len(vals) \in Nat \ {0} /\ vals \in [1..Len(vals) -> Nat]
    BY <1>2, <1>4
  <2>2. most_frequent(vals) \in Nat
    BY <2>1, ModeFound
  <2> QED
    BY <1>1, <1>4, <2>2 DEF m
<1> QED
  BY <1>3, <1>4

-----------------------------------------------------------------------------
(* The digits that are written (impute.cpp 29).                            *)

\* Digits that are left of v, and the value of the last.
Shortened(v) ==
  {d \in [head : Nat, unit : Nat \ {0}] :
     /\ d.head * d.unit <= v /\ v < (d.head + 1) * d.unit
     /\ d.unit = 1 \/ (d.unit >= 10 /\ Shortest * d.unit <= 10 * v)}

\* Products grow with a factor.
LEMMA MoreUnits ==
  ASSUME NEW a \in Nat, NEW b \in Nat, NEW u \in Nat, a <= b
  PROVE  a * u <= b * u
<1>1. PICK c \in Nat : b = a + c
  <2>1. b - a \in Nat /\ b = a + (b - a)
    OBVIOUS
  <2> QED
    BY <2>1
<1>2. b * u = a * u + c * u
  BY <1>1
<1>3. c * u \in Nat /\ a * u \in Nat
  OBVIOUS
<1> QED
  BY <1>2, <1>3

\* Without its last digit it is still that.
LEMMA DropShortens ==
  ASSUME NEW v \in Nat, NEW d \in Shortened(v)
  PROVE  DropDigit(d) \in Shortened(v)
<1> DEFINE h == d.head
           u == d.unit
           k == h \div 10
<1>1. /\ h \in Nat /\ u \in Nat \ {0} /\ h * u <= v /\ v < (h + 1) * u
      /\ DropDigit(d) = IF h < Shortest THEN d ELSE [head |-> k, unit |-> u * 10]
  BY DEF Shortened, DropDigit
<1>2. k \in Nat /\ 10 * k <= h /\ h + 1 <= 10 * (k + 1)
  BY <1>1
<1>3. CASE h < Shortest
  BY <1>1, <1>3
<1>4. CASE ~(h < Shortest)
  <2> HIDE DEF h, u, k
  <2>1. k * (u * 10) <= v
    <3>1. (10 * k) * u <= h * u
      BY <1>1, <1>2, MoreUnits
    <3>2. (10 * k) * u = k * (u * 10) /\ h * u \in Nat /\ k * (u * 10) \in Nat
      BY <1>1, <1>2
    <3> QED
      BY <1>1, <3>1, <3>2
  <2>2. v < (k + 1) * (u * 10)
    <3>1. h + 1 \in Nat /\ k + 1 \in Nat /\ 10 * (k + 1) \in Nat
      BY <1>1, <1>2
    <3>2. (h + 1) * u <= (10 * (k + 1)) * u
      BY <1>1, <1>2, <3>1, MoreUnits
    <3>3. (10 * (k + 1)) * u = (k + 1) * (u * 10)
      BY <1>1, <3>1
    <3>4. (h + 1) * u \in Nat /\ (k + 1) * (u * 10) \in Nat
      BY <1>1, <3>1
    <3> QED
      BY <1>1, <3>2, <3>3, <3>4
  <2>3. Shortest * (u * 10) <= 10 * v
    <3>1. Shortest \in Nat /\ Shortest <= h
      BY <1>1, <1>4, ShortestAssumption
    <3>2. Shortest * u <= h * u
      BY <1>1, <3>1, MoreUnits
    <3>3. Shortest * u \in Nat /\ h * u \in Nat /\ Shortest * (u * 10) = 10 * (Shortest * u)
      BY <1>1, <3>1
    <3> QED
      BY <1>1, <3>2, <3>3
  <2>4. u * 10 \in Nat \ {0} /\ u * 10 >= 10
    BY <1>1
  <2>5. DropDigit(d) = [head |-> k, unit |-> u * 10]
    BY <1>1, <1>4
  <2> DEFINE w == u * 10
  <2> HIDE DEF w
  <2>6. [head |-> k, unit |-> w] \in Shortened(v)
    BY <1>2, <2>1, <2>2, <2>3, <2>4 DEF Shortened, w
  <2> QED
    BY <2>5, <2>6 DEF w
<1> QED
  BY <1>3, <1>4

\* The digits that are written are digits of v.
LEMMA DecimalShortened ==
  ASSUME NEW v \in Nat
  PROVE  Decimal(v) \in Shortened(v)
<1> DEFINE V == Shortened(v)
           start == [head |-> v, unit |-> 1]
           step == [p \in V \X (1..v) |-> DropDigit(p[1])]
           Body(g) == [s \in SUBSET (1..v) |->
                         IF s = {} THEN start ELSE DropDigit(g[s \ {Top(s)}])]
           iter == CHOOSE g : g = Body(g)
<1>1. Decimal(v) = iter[1..v]
  <2> DEFINE seq == [i \in 1..v |-> i]
             Other(g) == [s \in SUBSET DOMAIN seq |->
                            IF s = {} THEN start ELSE DropDigit(g[s \ {Top(s)}])]
  <2>1. Decimal(v) = (CHOOSE g : g = Other(g))[DOMAIN seq]
    BY Zenon DEF Decimal, FoldLeft, MapThenFoldSet, Max, Top
  <2>2. DOMAIN seq = 1..v
    OBVIOUS
  <2> HIDE DEF seq
  <2> QED
    BY <2>1, <2>2, Zenon
<1>2. start \in V
  BY DEF Shortened
<1>3. step \in [V \X (1..v) -> V]
  <2>1. \A d \in V : DropDigit(d) \in V
    BY DropShortens
  <2> HIDE DEF V
  <2> QED
    BY <2>1
<1> HIDE DEF V, start
<1>4. \E g : g = Body(g)
  <2>1. PICK G \in [SUBSET (1..v) -> V] : Folding(v, start, step, G)
    <3> HIDE DEF step
    <3> QED
      BY <1>2, <1>3, FoldExists, Zenon
  <2>2. ASSUME NEW s \in SUBSET (1..v), s # {}
        PROVE  step[<<G[s \ {Top(s)}], Top(s)>>] = DropDigit(G[s \ {Top(s)}])
    <3>1. Top(s) \in 1..v /\ s \ {Top(s)} \in SUBSET (1..v)
      BY <2>2, TopIn
    <3> QED
      BY <3>1
  <2>3. G = Body(G)
    BY <2>1, <2>2 DEF Folding
  <2> QED
    BY <2>3
<1>5. iter = Body(iter)
  <2> HIDE DEF Body
  <2> QED
    BY <1>4, Zenon
<1> HIDE DEF iter
<1>6. FoldingIn(V, v, start, step, iter)
  <2>1. /\ iter[{}] = start
        /\ \A s \in SUBSET (1..v) : s # {} => iter[s] = DropDigit(iter[s \ {Top(s)}])
    BY <1>5
  <2> QED
    BY <2>1, TopIn DEF FoldingIn
<1>7. PICK P \in [0..v -> V] : PrefixValues(v, start, step, iter[1..v], P)
  <2> HIDE DEF step
  <2> QED
    BY <1>2, <1>3, <1>6, FoldPrefixes, Zenon
<1>8. iter[1..v] \in V
  <2>1. v \in 0..v
    OBVIOUS
  <2>2. P[v] = iter[1..v]
    BY <1>7 DEF PrefixValues
  <2> QED
    BY <2>1, <2>2
<1> QED
  BY <1>1, <1>8 DEF V

\* What is written is near.
LEMMA WrittenNear ==
  ASSUME NEW v \in Nat
  PROVE  Near(Written(v), v)
<1> DEFINE d == Decimal(v)
           h == d.head
           u == d.unit
           rest == 2 * (v - h * u)
           up == rest > u \/ (rest = u /\ h % 2 = 1)
           w == Written(v)
<1>1. w = (IF up THEN h + 1 ELSE h) * u
  BY Zenon DEF Written
<1>2. /\ h \in Nat /\ u \in Nat \ {0} /\ h * u <= v /\ v < (h + 1) * u
      /\ u = 1 \/ (u >= 10 /\ Shortest * u <= 10 * v)
  BY DecimalShortened DEF Shortened
<1> HIDE DEF d, h, u, w
<1> DEFINE low == h * u
<1>3. low \in Nat /\ (h + 1) * u = low + u
  BY <1>2
<1>4. w = IF up THEN low + u ELSE low
  BY <1>1, <1>3
<1>5. low <= v /\ v < low + u /\ rest = 2 * (v - low)
  BY <1>2, <1>3
<1> HIDE DEF low, rest
<1>6. w \in Nat /\ 2 * (w - v) <= u /\ 2 * (v - w) <= u
  BY <1>2, <1>3, <1>4, <1>5
<1>7. CASE u = 1
  <2>1. w = v
    BY <1>6, <1>7
  <2>2. w - v = 0 /\ v - w = 0
    BY <2>1
  <2>3. Shortest * (w - v) = 0 /\ Shortest * (v - w) = 0
    BY <2>2, ShortestAssumption
  <2> QED
    BY <1>6, <2>1, <2>3 DEF Near, w
<1>8. CASE u # 1
  <2>1. Shortest \in Nat /\ u >= 10 /\ Shortest * u <= 10 * v
    BY <1>2, <1>8, ShortestAssumption
  <2>2. ASSUME NEW e \in Int, 2 * e <= u PROVE Shortest * e <= 5 * v
    <3>1. CASE e <= 0
      <4>1. Shortest * (-e) \in Nat
        BY <2>1, <3>1
      <4>2. Shortest * e = -(Shortest * (-e))
        BY <2>1
      <4>3. Shortest * e <= 0
        BY <4>1, <4>2
      <4>4. Shortest * e \in Int
        BY <2>1
      <4> QED
        BY <4>3, <4>4
    <3>2. CASE e > 0
      <4>1. 2 * e \in Nat /\ (2 * e) * Shortest <= u * Shortest
        BY <1>2, <2>1, <2>2, <3>2, MoreUnits
      <4>2. (2 * e) * Shortest = 2 * (Shortest * e) /\ u * Shortest = Shortest * u
        BY <1>2, <2>1
      <4>3. Shortest * e \in Int /\ Shortest * u \in Int
        BY <1>2, <2>1
      <4> DEFINE x == Shortest * e
                 y == Shortest * u
      <4>4. 2 * x <= y /\ y <= 10 * v /\ x \in Int /\ y \in Int
        BY <2>1, <4>1, <4>2, <4>3
      <4> HIDE DEF x, y
      <4>5. x <= 5 * v
        BY <4>4
      <4> QED
        BY <4>5 DEF x
    <3> QED
      BY <3>1, <3>2
  <2>3. ~(v < Shortest)
    <3>1. 10 * Shortest <= u * Shortest
      BY <1>2, <2>1, MoreUnits
    <3>2. u * Shortest = Shortest * u /\ Shortest * u \in Nat
      BY <1>2, <2>1
    <3> QED
      BY <2>1, <3>1, <3>2
  <2>4. w - v \in Int /\ v - w \in Int
    BY <1>6
  <2> QED
    BY <1>6, <2>2, <2>3, <2>4 DEF Near, w
<1> QED
  BY <1>7, <1>8

\* Every cell of a column is written near.
LEMMA CellsRoundedAlways ==
  ASSUME NEW column \in Seq(ColumnCells)
  PROVE  CellsRounded(column)
<1> DEFINE fill == Fill(column, "most_frequent")
           written == impute(column, "most_frequent")
           cell(i) == IF column[i] = NonFinite THEN fill ELSE column[i]
<1>1. fill \in Nat
  BY FillNumber
<1>2. \A i \in DOMAIN column : written[i] = Written(cell(i))
  BY DEF impute, Imputed
<1>3. SUFFICES \A i \in DOMAIN column : Near(written[i], cell(i))
  BY Zenon DEF CellsRounded
<1> HIDE DEF fill, written
<1>4. ASSUME NEW i \in DOMAIN column PROVE Near(written[i], cell(i))
  <2>1. column[i] \in ColumnCells
    OBVIOUS
  <2>2. cell(i) \in Nat
    BY <1>1, <2>1 DEF ColumnCells
  <2> HIDE DEF cell
  <2>3. written[i] = Written(cell(i))
    BY <1>2
  <2> QED
    BY <2>2, <2>3, WrittenNear
<1> QED
  BY <1>4

-----------------------------------------------------------------------------
(* The bins of nwx_drift.                                                  *)

\* A set of positive numbers has a least element.
LEMMA LeastIn ==
  ASSUME NEW n \in Nat, NEW S \in SUBSET (1..n), S # {}
  PROVE  Min(S) \in S /\ \A y \in S : Min(S) <= y
<1> DEFINE T == {n + 1 - x : x \in S}
<1>1. T \in SUBSET (1..n) /\ T # {}
  <2>1. \A x \in S : n + 1 - x \in 1..n
    OBVIOUS
  <2>2. PICK x \in S : TRUE
    OBVIOUS
  <2>3. n + 1 - x \in T
    OBVIOUS
  <2> QED
    BY <2>1, <2>3
<1>2. Top(T) \in T /\ \A y \in T : Top(T) >= y
  <2> HIDE DEF T
  <2> QED
    BY <1>1, TopIn
<1>3. PICK x \in S : Top(T) = n + 1 - x
  BY <1>2
<1>4. \A y \in S : x <= y
  <2>1. \A y \in S : n + 1 - x >= n + 1 - y
    BY <1>2, <1>3
  <2> QED
    BY <2>1
<1>5. \E z \in S : \A y \in S : z =< y
  BY <1>4
<1> QED
  BY <1>5, Zenon DEF Min

\* The bin of v is after the cuts that v exceeds, and v does not exceed the next one.
LEMMA BinBetween ==
  ASSUME NEW m \in Nat, NEW c \in [1..m -> Nat], NEW v \in Nat
  PROVE  /\ Bin(v, c) \in 0..m
         /\ \A i \in 1..m : i <= Bin(v, c) => c[i] < v
         /\ Bin(v, c) < m => v <= c[Bin(v, c) + 1]
<1> DEFINE I == {i \in 1..Len(c) : v <= c[i]}
           k == IF I # {} THEN Min(I) ELSE 0
<1>1. Bin(v, c) = IF k = 0 THEN Len(c) ELSE k - 1
  BY DEF Bin, SelectInSeq
<1>2. c \in Seq(Nat) /\ Len(c) = m
  BY FunctionSeq
<1>3. I = {i \in 1..m : v <= c[i]}
  BY <1>2
<1> HIDE DEF I
<1>4. CASE I = {}
  <2>1. Bin(v, c) = m
    BY <1>1, <1>2, <1>4
  <2>2. \A i \in 1..m : c[i] < v
    BY <1>3, <1>4
  <2> QED
    BY <2>1, <2>2
<1>5. CASE I # {}
  <2>1. k = Min(I) /\ k \in I /\ \A i \in I : k <= i
    BY <1>3, <1>5, LeastIn
  <2> HIDE DEF k
  <2>2. k \in 1..m /\ v <= c[k]
    BY <1>3, <2>1
  <2>3. Bin(v, c) = k - 1
    BY <1>1, <2>2
  <2>4. ASSUME NEW i \in 1..m, i <= k - 1 PROVE c[i] < v
    <3>1. i \notin I
      BY <2>1, <2>2, <2>4
    <3> QED
      BY <1>3, <3>1
  <2> QED
    BY <2>2, <2>3, <2>4
<1> QED
  BY <1>4, <1>5

\* A larger value is never in a lower bin.
LEMMA BinsInOrder ==
  ASSUME NEW m \in Nat, NEW c \in [1..m -> Nat], NEW v \in Nat, NEW w \in Nat, v <= w
  PROVE  Bin(v, c) <= Bin(w, c)
<1> DEFINE a == Bin(v, c)
           b == Bin(w, c)
<1>1. a \in 0..m /\ \A i \in 1..m : i <= a => c[i] < v
  BY BinBetween
<1>2. b \in 0..m /\ (b < m => w <= c[b + 1])
  BY BinBetween
<1> HIDE DEF a, b
<1>3. SUFFICES ASSUME b < a PROVE FALSE
  BY <1>1, <1>2 DEF a, b
<1>4. b + 1 \in 1..m /\ b + 1 <= a /\ b < m
  BY <1>1, <1>2, <1>3
<1>5. c[b + 1] < v /\ w <= c[b + 1] /\ c[b + 1] \in Nat
  BY <1>1, <1>2, <1>4
<1> QED
  BY <1>5

\* Of a sum, the quotient is the sum of the quotients or one more.
LEMMA QuotientOfSum ==
  ASSUME NEW a \in Nat, NEW d \in Nat, NEW D \in Nat \ {0}
  PROVE  /\ (a + d) \div D \in Nat /\ a \div D \in Nat /\ d \div D \in Nat
         /\ \/ (a + d) \div D = a \div D + d \div D
            \/ (a + d) \div D = a \div D + d \div D + 1
<1> DEFINE s == a \div D
           q == d \div D
           t == (a + d) \div D
<1>1. s \in Nat /\ D * s <= a /\ a < D * s + D
  BY Quotient
<1>2. q \in Nat /\ D * q <= d /\ d < D * q + D
  BY Quotient
<1>3. t \in Nat /\ D * t <= a + d /\ a + d < D * t + D
  <2>1. a + d \in Nat
    OBVIOUS
  <2> QED
    BY <2>1, Quotient
<1> HIDE DEF s, q, t
<1>4. /\ D * s \in Nat /\ D * t \in Nat /\ D * q \in Nat
      /\ D * (t + 1) = D * t + D /\ D * (s + q) = D * s + D * q
      /\ D * (s + q + 2) = D * s + D * q + D + D
  BY <1>1, <1>2, <1>3
<1>5. D * (s + q) < D * (t + 1)
  BY <1>1, <1>2, <1>3, <1>4
<1>6. D * t < D * (s + q + 2)
  BY <1>1, <1>2, <1>3, <1>4
<1>7. s + q < t + 1 /\ t < s + q + 2
  BY <1>1, <1>2, <1>3, <1>5, <1>6, Cancel
<1>8. t = s + q \/ t = s + q + 1
  BY <1>1, <1>2, <1>3, <1>7
<1> QED
  BY <1>1, <1>2, <1>3, <1>8 DEF s, q, t

\* The quotient a \div D is the only number between its bounds.
LEMMA QuotientOnly ==
  ASSUME NEW a \in Nat, NEW D \in Nat \ {0}, NEW s \in Nat, D * s <= a, a < D * s + D
  PROVE  a \div D = s
<1> DEFINE t == a \div D
<1>1. t \in Nat /\ D * t <= a /\ a < D * t + D
  BY Quotient
<1> HIDE DEF t
<1>2. /\ D * (t + 1) = D * t + D /\ D * (s + 1) = D * s + D
      /\ D * s \in Nat /\ D * t \in Nat
  BY <1>1
<1>3. D * s < D * (t + 1) /\ D * t < D * (s + 1)
  BY <1>1, <1>2
<1>4. s < t + 1 /\ t < s + 1
  BY <1>1, <1>3, Cancel
<1> QED
  BY <1>1, <1>4 DEF t

\* The cuts go from the first position to the last in steps that differ by at most one
\* (drift.cpp 33).
LEMMA CutsEven ==
  ASSUME NEW n \in Nat \ {0}, NEW B \in Nat \ {0}
  PROVE  /\ Cut(0, n, B) = 0 /\ Cut(B, n, B) = n - 1
         /\ \E q \in Nat : \A i \in Nat :
              /\ Cut(i, n, B) \in Nat
              /\ \/ Cut(i + 1, n, B) = Cut(i, n, B) + q
                 \/ Cut(i + 1, n, B) = Cut(i, n, B) + q + 1
<1> DEFINE D == 2 * B
           d == 2 * (n - 1)
<1>1. D \in Nat \ {0} /\ d \in Nat /\ B \in Nat /\ B < D /\ n - 1 \in Nat
  OBVIOUS
<1>2. Cut(0, n, B) = 0
  <2>1. 2 * 0 * (n - 1) + B = B
    OBVIOUS
  <2>2. D * 0 <= B /\ B < D * 0 + D
    OBVIOUS
  <2>3. B \div D = 0
    <3> HIDE DEF D
    <3> QED
      BY <1>1, <2>2, QuotientOnly
  <2> QED
    BY <2>1, <2>3 DEF Cut
<1>3. Cut(B, n, B) = n - 1
  <2>1. 2 * B * (n - 1) + B = D * (n - 1) + B /\ D * (n - 1) \in Nat
    OBVIOUS
  <2>2. (D * (n - 1) + B) \div D = n - 1
    <3> HIDE DEF D
    <3>1. /\ D * (n - 1) + B \in Nat /\ D * (n - 1) <= D * (n - 1) + B
          /\ D * (n - 1) + B < D * (n - 1) + D
      BY <1>1, <2>1
    <3> QED
      BY <1>1, <3>1, QuotientOnly
  <2> QED
    BY <2>1, <2>2 DEF Cut
<1>4. ASSUME NEW i \in Nat
      PROVE  /\ Cut(i, n, B) \in Nat /\ d \div D \in Nat
             /\ \/ Cut(i + 1, n, B) = Cut(i, n, B) + d \div D
                \/ Cut(i + 1, n, B) = Cut(i, n, B) + d \div D + 1
  <2> DEFINE a == 2 * i * (n - 1) + B
  <2>1. a \in Nat /\ 2 * (i + 1) * (n - 1) + B = a + d
    <3>1. 2 * i * (n - 1) \in Nat
      BY <1>1
    <3>2. 2 * (i + 1) * (n - 1) = 2 * i * (n - 1) + 2 * (n - 1)
      BY <1>1
    <3> QED
      BY <3>1, <3>2
  <2>2. Cut(i, n, B) = a \div D /\ Cut(i + 1, n, B) = (a + d) \div D
    BY <2>1 DEF Cut
  <2> HIDE DEF a, d, D
  <2>3. /\ (a + d) \div D \in Nat /\ a \div D \in Nat /\ d \div D \in Nat
        /\ \/ (a + d) \div D = a \div D + d \div D
           \/ (a + d) \div D = a \div D + d \div D + 1
    BY <1>1, <2>1, QuotientOfSum, Zenon
  <2> QED
    BY <2>2, <2>3
<1> HIDE DEF d, D
<1>5. d \div D \in Nat
  BY <1>1, Quotient
<1> QED
  BY <1>2, <1>3, <1>4, <1>5

\* The cuts never go back.
LEMMA CutsInOrder ==
  ASSUME NEW n \in Nat \ {0}, NEW B \in Nat \ {0}, NEW i \in 0..B, NEW j \in 0..B, i <= j
  PROVE  /\ Cut(i, n, B) \in Nat /\ Cut(i, n, B) <= Cut(j, n, B)
         /\ Cut(j, n, B) \in 0..(n - 1)
<1>1. PICK q \in Nat : \A k \in Nat :
        /\ Cut(k, n, B) \in Nat
        /\ \/ Cut(k + 1, n, B) = Cut(k, n, B) + q
           \/ Cut(k + 1, n, B) = Cut(k, n, B) + q + 1
  BY CutsEven
<1>2. ASSUME NEW a \in 0..B, NEW b \in 0..B, a <= b
      PROVE  Cut(a, n, B) <= Cut(b, n, B)
  <2> DEFINE S == {k \in Nat : Cut(a, n, B) <= Cut(a + k, n, B)}
  <2>1. 0 \in S
    <3>1. Cut(a, n, B) \in Nat /\ a + 0 = a
      BY <1>1
    <3> QED
      BY <3>1
  <2>2. ASSUME NEW k \in Nat, k \in S PROVE k + 1 \in S
    <3>1. a + k \in Nat /\ a \in Nat /\ (a + k) + 1 = a + (k + 1)
      OBVIOUS
    <3>2. /\ Cut(a, n, B) \in Nat /\ Cut(a + k, n, B) \in Nat
          /\ \/ Cut(a + (k + 1), n, B) = Cut(a + k, n, B) + q
             \/ Cut(a + (k + 1), n, B) = Cut(a + k, n, B) + q + 1
      BY <1>1, <3>1
    <3> QED
      BY <2>2, <3>2
  <2>3. b - a \in S
    <3> HIDE DEF S
    <3>1. Nat \subseteq S
      BY <2>1, <2>2, SetInduction
    <3>2. b - a \in Nat
      BY <1>2
    <3> QED
      BY <3>1, <3>2
  <2>4. a + (b - a) = b
    OBVIOUS
  <2> QED
    BY <2>3, <2>4
<1>3. Cut(i, n, B) \in Nat /\ Cut(j, n, B) \in Nat
  BY <1>1
<1>4. Cut(i, n, B) <= Cut(j, n, B)
  BY <1>2
<1>5. Cut(j, n, B) <= n - 1
  <2>1. Cut(j, n, B) <= Cut(B, n, B)
    BY <1>2
  <2> QED
    BY <2>1, CutsEven
<1> QED
  BY <1>3, <1>4, <1>5

\* The values at the cuts, in order.
LEMMA CutValues ==
  ASSUME NEW n \in Nat \ {0}, NEW s \in [1..n -> Nat], NEW B \in Nat \ {0}
  PROVE  LET c == cuts(s, B)
         IN  /\ c \in [1..(B - 1) -> Nat]
             /\ \A i \in 1..(B - 1) : Ranked(s, Cut(i, n, B) + 1, c[i])
             /\ \A i, j \in 1..(B - 1) : i <= j => c[i] <= c[j]
<1>1. Len(s) = n
  BY FunctionSeq
<1>2. cuts(s, B) = [i \in 1..(B - 1) |-> Sorted(s)[Cut(i, n, B) + 1]]
  BY <1>1 DEF cuts
<1>3. \A i \in 1..(B - 1) : Cut(i, n, B) + 1 \in 1..n
  <2> SUFFICES ASSUME NEW i \in 1..(B - 1) PROVE Cut(i, n, B) + 1 \in 1..n
    OBVIOUS
  <2>1. i \in 0..B /\ i <= i
    OBVIOUS
  <2>2. Cut(i, n, B) \in 0..(n - 1)
    BY <2>1, CutsInOrder
  <2> QED
    BY <2>2
<1>4. \A i \in 1..(B - 1) : /\ Sorted(s)[Cut(i, n, B) + 1] \in Nat
                            /\ Ranked(s, Cut(i, n, B) + 1, Sorted(s)[Cut(i, n, B) + 1])
  BY <1>3, SortedRanked
<1>5. ASSUME NEW i \in 1..(B - 1), NEW j \in 1..(B - 1), i <= j
      PROVE  Sorted(s)[Cut(i, n, B) + 1] <= Sorted(s)[Cut(j, n, B) + 1]
  <2>1. i \in 0..B /\ j \in 0..B
    OBVIOUS
  <2>2. Cut(i, n, B) <= Cut(j, n, B)
    BY <1>5, <2>1, CutsInOrder
  <2>3. Cut(i, n, B) + 1 <= Cut(j, n, B) + 1
    <3>1. Cut(i, n, B) \in 0..(n - 1) /\ Cut(j, n, B) \in 0..(n - 1)
      <4>1. i <= i /\ j <= j
        OBVIOUS
      <4> QED
        BY <2>1, <4>1, CutsInOrder
    <3> QED
      BY <2>2, <3>1
  <2> QED
    BY <1>3, <2>3, SortedInOrder
<1> QED
  BY <1>2, <1>4, <1>5

\* In a column without equal values each occurs once.
LEMMA DistinctOnce ==
  ASSUME NEW n \in Nat, NEW s \in [1..n -> Nat], Cardinality(ToSet(s)) = n,
         NEW v \in Nat, v \in ToSet(s)
  PROVE  Occurs(s, v) = 1
<1>1. IsFiniteSet(1..n) /\ Cardinality(1..n) = n
  BY FS_Interval
<1>2. ToSet(s) = {s[i] : i \in 1..n}
  BY DEF ToSet
<1>3. s \in Surjection(1..n, ToSet(s))
  BY <1>2 DEF Surjection
<1>4. s \in Injection(1..n, ToSet(s))
  BY <1>1, <1>3, FS_SurjSameCardinalityImpliesInj
<1>5. PICK i \in 1..n : s[i] = v
  BY <1>2
<1>6. {j \in 1..n : s[j] = v} = {i}
  BY <1>4, <1>5 DEF Injection, IsInjective
<1>7. Occurs(s, v) = Cardinality({j \in 1..n : s[j] = v})
  <2>1. DOMAIN s = 1..n
    OBVIOUS
  <2> QED
    BY <2>1, Zenon DEF Occurs
<1>8. Cardinality({i}) = 1
  BY FS_Singleton
<1> QED
  BY <1>6, <1>7, <1>8

\* Two sets of rows without a common one.
LEMMA RowsApart ==
  ASSUME NEW n \in Nat, NEW R \in SUBSET (1..n), NEW S \in SUBSET (1..n), R \cap S = {}
  PROVE  /\ Cardinality(R) \in Nat /\ Cardinality(S) \in Nat
         /\ Cardinality(R \cup S) = Cardinality(R) + Cardinality(S)
<1>1. IsFiniteSet(1..n)
  BY FS_Interval
<1>2. IsFiniteSet(R) /\ IsFiniteSet(S)
  BY <1>1, FS_Subset
<1>3. Cardinality(R) \in Nat /\ Cardinality(S) \in Nat
  BY <1>2, FS_CardinalityType
<1>4. Cardinality(R \cup S) = Cardinality(R) + Cardinality(S) - Cardinality(R \cap S)
  BY <1>2, FS_Union
<1>5. Cardinality(R \cap S) = 0
  BY FS_EmptySet
<1> QED
  BY <1>3, <1>4, <1>5

\* The rows in the bins before b.
InBinsBefore(n, s, c, b) == {i \in 1..n : Bin(s[i], c) < b}

\* Those are the rows up to the cut, of a column without equal values.
LEMMA BinsFilled ==
  ASSUME NEW n \in Nat \ {0}, NEW s \in [1..n -> Nat], Cardinality(ToSet(s)) = n,
         NEW B \in Nat \ {0}, NEW b \in 0..B
  PROVE  Cardinality(InBinsBefore(n, s, cuts(s, B), b))
           = IF b = 0 THEN 0 ELSE Cut(b, n, B) + 1
<1> DEFINE c == cuts(s, B)
           R == InBinsBefore(n, s, c, b)
           k == Cut(b, n, B)
<1>1. c \in [1..(B - 1) -> Nat]
  BY CutValues
<1>2. \A i \in 1..(B - 1) : Ranked(s, Cut(i, n, B) + 1, c[i])
  BY CutValues
<1>3. \A i, j \in 1..(B - 1) : i <= j => c[i] <= c[j]
  BY CutValues
<1> HIDE DEF c
<1>4. \A i \in 1..n : /\ s[i] \in Nat /\ Bin(s[i], c) \in 0..(B - 1)
                      /\ \A j \in 1..(B - 1) : j <= Bin(s[i], c) => c[j] < s[i]
                      /\ Bin(s[i], c) < B - 1 => s[i] <= c[Bin(s[i], c) + 1]
  <2> SUFFICES ASSUME NEW i \in 1..n
               PROVE  /\ s[i] \in Nat /\ Bin(s[i], c) \in 0..(B - 1)
                      /\ \A j \in 1..(B - 1) : j <= Bin(s[i], c) => c[j] < s[i]
                      /\ Bin(s[i], c) < B - 1 => s[i] <= c[Bin(s[i], c) + 1]
    OBVIOUS
  <2>1. B - 1 \in Nat /\ s[i] \in Nat
    OBVIOUS
  <2> QED
    BY <1>1, <2>1, BinBetween
<1>5. CASE b = 0
  <2>1. R = {}
    BY <1>4, <1>5 DEF InBinsBefore
  <2>2. Cardinality({}) = 0
    BY FS_EmptySet
  <2> HIDE DEF R
  <2> QED
    BY <1>5, <2>1, <2>2 DEF R, c
<1>6. CASE b = B
  <2>1. R = 1..n
    BY <1>4, <1>6 DEF InBinsBefore
  <2>2. Cardinality(1..n) = n
    BY FS_Interval
  <2>3. k = n - 1
    BY <1>6, CutsEven
  <2>4. Cardinality(R) = k + 1
    <3> HIDE DEF R, k
    <3> QED
      BY <2>1, <2>2, <2>3
  <2>5. b # 0
    BY <1>6
  <2> QED
    BY <2>4, <2>5 DEF c
<1>7. CASE b \in 1..(B - 1)
  <2> DEFINE v == c[b]
  <2>1. Ranked(s, k + 1, v) /\ v \in Nat
    BY <1>1, <1>2, <1>7
  <2>2. ASSUME NEW i \in 1..n
        PROVE  Bin(s[i], c) < b <=> s[i] <= v
    <3> DEFINE a == Bin(s[i], c)
    <3>1. /\ s[i] \in Nat /\ a \in 0..(B - 1)
          /\ \A j \in 1..(B - 1) : j <= a => c[j] < s[i]
          /\ a < B - 1 => s[i] <= c[a + 1]
      BY <1>4
    <3> HIDE DEF a
    <3>2. ASSUME ~(a < b) PROVE ~(s[i] <= v)
      <4>1. b <= a
        BY <3>1, <3>2
      <4>2. c[b] < s[i]
        BY <1>7, <3>1, <4>1
      <4> QED
        BY <2>1, <3>1, <4>2
    <3>3. ASSUME a < b PROVE s[i] <= v
      <4>1. a + 1 \in 1..(B - 1) /\ a + 1 <= b /\ a < B - 1
        BY <1>7, <3>1, <3>3
      <4>2. c[a + 1] <= c[b] /\ s[i] <= c[a + 1]
        BY <1>3, <1>7, <3>1, <4>1
      <4>3. c[a + 1] \in Nat
        BY <1>1, <4>1
      <4> QED
        BY <2>1, <3>1, <4>2, <4>3
    <3> QED
      BY <3>2, <3>3 DEF a
  <2>3. R = NotAbove(n, s, v)
    BY <2>2 DEF InBinsBefore, NotAbove
  <2>4. Cardinality(R) = Below(s, v) + Occurs(s, v)
    <3> HIDE DEF R, v
    <3> QED
      BY <2>1, <2>3, RanksAddUp
  <2> HIDE DEF v, R
  <2>5. /\ v \in ToSet(s) /\ Below(s, v) < k + 1
        /\ k + 1 <= Below(s, v) + Occurs(s, v)
    BY <2>1 DEF Ranked
  <2>6. Occurs(s, v) = 1
    BY <2>1, <2>5, DistinctOnce
  <2>7. Below(s, v) \in Nat
    BY <2>1, RanksAddUp
  <2>8. k \in Nat
    <3>1. b \in 0..B /\ b <= b
      OBVIOUS
    <3> QED
      BY <3>1, CutsInOrder
  <2> HIDE DEF k
  <2>9. Cardinality(R) = k + 1
    BY <2>4, <2>5, <2>6, <2>7, <2>8
  <2>10. b # 0
    BY <1>7
  <2> QED
    BY <2>9, <2>10 DEF R, c, k
<1> QED
  BY <1>5, <1>6, <1>7

\* The rows of a bin of such a column.
LEMMA BinCount ==
  ASSUME NEW n \in Nat \ {0}, NEW s \in [1..n -> Nat], Cardinality(ToSet(s)) = n,
         NEW B \in Nat \ {0}, NEW b \in 0..(B - 1)
  PROVE  hist(s, cuts(s, B))[b]
           = IF b = 0 THEN Cut(b + 1, n, B) + 1 ELSE Cut(b + 1, n, B) - Cut(b, n, B)
<1> DEFINE c == cuts(s, B)
           R == {i \in 1..n : Bin(s[i], c) = b}
           S == InBinsBefore(n, s, c, b)
           T == InBinsBefore(n, s, c, b + 1)
<1>1. c \in [1..(B - 1) -> Nat]
  BY CutValues
<1>2. Len(c) = B - 1
  <2>1. B - 1 \in Nat
    OBVIOUS
  <2> HIDE DEF c
  <2> QED
    BY <1>1, <2>1, FunctionSeq
<1>3. hist(s, c)[b] = Cardinality(R)
  <2>1. DOMAIN s = 1..n
    OBVIOUS
  <2>2. hist(s, c) = [a \in 0..Len(c) |-> Cardinality({i \in DOMAIN s : Bin(s[i], c) = a})]
    BY DEF hist
  <2> HIDE DEF c
  <2>3. hist(s, c)[b] = Cardinality({i \in DOMAIN s : Bin(s[i], c) = b})
    BY <1>2, <2>2
  <2> QED
    BY <2>1, <2>3, Zenon
<1> HIDE DEF c
<1>4. \A i \in 1..n : Bin(s[i], c) \in 0..(B - 1)
  <2>1. B - 1 \in Nat /\ \A i \in 1..n : s[i] \in Nat
    OBVIOUS
  <2> QED
    BY <1>1, <2>1, BinBetween
<1>5. R \cup S = T /\ R \cap S = {}
  BY <1>4 DEF InBinsBefore
<1>6. R \in SUBSET (1..n) /\ S \in SUBSET (1..n)
  BY DEF InBinsBefore
<1>7. b \in 0..B /\ b + 1 \in 0..B /\ b + 1 # 0
  OBVIOUS
<1>8. Cardinality(S) = IF b = 0 THEN 0 ELSE Cut(b, n, B) + 1
  BY <1>7, BinsFilled DEF c
<1>9. Cardinality(T) = Cut(b + 1, n, B) + 1
  BY <1>7, BinsFilled DEF c
<1> HIDE DEF R, S, T
<1>10. /\ Cardinality(R) \in Nat /\ Cardinality(S) \in Nat
       /\ Cardinality(T) = Cardinality(R) + Cardinality(S)
  <2>1. n \in Nat
    OBVIOUS
  <2>2. /\ Cardinality(R) \in Nat /\ Cardinality(S) \in Nat
        /\ Cardinality(R \cup S) = Cardinality(R) + Cardinality(S)
    BY <1>5, <1>6, <2>1, RowsApart, Zenon
  <2> QED
    BY <1>5, <2>2
<1>11. Cut(b, n, B) \in Nat /\ Cut(b + 1, n, B) \in Nat
  <2>1. b <= b /\ b + 1 <= b + 1
    OBVIOUS
  <2> QED
    BY <1>7, <2>1, CutsInOrder
<1>12. Cardinality(R) = IF b = 0 THEN Cut(b + 1, n, B) + 1
                        ELSE Cut(b + 1, n, B) - Cut(b, n, B)
  BY <1>8, <1>9, <1>10, <1>11
<1> QED
  BY <1>3, <1>12 DEF c

\* Every row is in one bin.
LEMMA BinsAddUp ==
  ASSUME NEW n \in Nat, NEW s \in [1..n -> Nat], NEW m \in Nat, NEW c \in [1..m -> Nat]
  PROVE  SumFunction(hist(s, c)) = n
<1> DEFINE g == [i \in 1..n |-> Bin(s[i], c)]
<1>1. g \in [1..n -> 0..m]
  <2>1. \A i \in 1..n : s[i] \in Nat
    OBVIOUS
  <2> QED
    BY <2>1, BinBetween
<1>2. hist(s, c) = ByClass(m, 1..n, g)
  <2>1. DOMAIN s = 1..n /\ Len(c) = m
    BY FunctionSeq
  <2>2. hist(s, c) = [b \in 0..m |-> Cardinality({i \in 1..n : Bin(s[i], c) = b})]
    BY <2>1, Zenon DEF hist
  <2>3. \A b : {i \in 1..n : Bin(s[i], c) = b} = {i \in 1..n : g[i] = b}
    OBVIOUS
  <2> HIDE DEF g
  <2> QED
    BY <2>2, <2>3 DEF ByClass
<1>3. \A f : SumFunction(f) = SumFunction(f)
  BY Zenon DEF SumFunction, SumFunctionOnSet, FoldFunctionOnSet, MapThenFoldSet,
     SumFunction, SumFunctionOnSet, FoldFunctionOnSet, MapThenFoldSet
<1>4. SumFunction(ByClass(m, 1..n, g)) = Cardinality(1..n)
  <2> HIDE DEF g
  <2> QED
    BY <1>1, SumOverClasses
<1>5. Cardinality(1..n) = n
  BY FS_Interval
<1> HIDE DEF g
<1> QED
  BY <1>2, <1>3, <1>4, <1>5, Zenon

\* The bins of nwx_drift share out the rows as they must.
LEMMA BinsBalancedAlways ==
  ASSUME NEW n \in Nat \ {0}, NEW base \in [1..n -> Nat], NEW m \in Nat,
         NEW cur \in [1..m -> Nat], NEW B \in Nat \ {0}
  PROVE  EvenBins(base, cur, B)
<1> DEFINE c == cuts(base, B)
           h == hist(base, c)
<1>1. Len(base) = n /\ Len(cur) = m /\ DOMAIN cur = 1..m
  BY FunctionSeq
<1>2. c \in [1..(B - 1) -> Nat] /\ B - 1 \in Nat
  BY CutValues
<1>3. SumFunction(hist(cur, c)) = m
  <2> HIDE DEF c
  <2> QED
    BY <1>2, BinsAddUp
<1>4. ASSUME NEW i \in 1..m, NEW j \in 1..m, cur[i] <= cur[j]
      PROVE  Bin(cur[i], c) <= Bin(cur[j], c)
  <2> HIDE DEF c
  <2>1. cur[i] \in Nat /\ cur[j] \in Nat
    OBVIOUS
  <2> QED
    BY <1>2, <1>4, <2>1, BinsInOrder
<1>5. ASSUME Cardinality(ToSet(base)) = n, NEW a \in 0..(B - 1), NEW b \in 0..(B - 1)
      PROVE  h[a] <= h[b] + 2
  <2>1. PICK q \in Nat : \A i \in Nat :
          /\ Cut(i, n, B) \in Nat
          /\ \/ Cut(i + 1, n, B) = Cut(i, n, B) + q
             \/ Cut(i + 1, n, B) = Cut(i, n, B) + q + 1
    BY CutsEven
  <2>2. Cut(0, n, B) = 0
    BY CutsEven
  <2>3. ASSUME NEW i \in 0..(B - 1)
        PROVE  h[i] \in Nat /\ q <= h[i] /\ h[i] <= q + 2
    <3>1. h[i] = IF i = 0 THEN Cut(i + 1, n, B) + 1
                 ELSE Cut(i + 1, n, B) - Cut(i, n, B)
      BY <1>5, BinCount
    <3>2. i \in Nat /\ i + 1 \in Nat
      OBVIOUS
    <3>3. /\ Cut(i, n, B) \in Nat
          /\ \/ Cut(i + 1, n, B) = Cut(i, n, B) + q
             \/ Cut(i + 1, n, B) = Cut(i, n, B) + q + 1
      BY <2>1, <3>2
    <3> HIDE DEF h
    <3> QED
      BY <2>2, <3>1, <3>3
  <2> HIDE DEF h
  <2>4. h[a] \in Nat /\ h[b] \in Nat /\ q <= h[b] /\ h[a] <= q + 2
    BY <2>3
  <2> QED
    BY <2>4
<1>6. Cardinality(ToSet(base)) = Cardinality(ToSet(base))
  OBVIOUS
<1> HIDE DEF c, h
<1> QED
  BY <1>1, <1>3, <1>4, <1>5, <1>6 DEF EvenBins, c, h

-----------------------------------------------------------------------------
(* The configuration reader: its scanner goes from each place of a text to *)
(* the next, whatever is in front of the text and behind it.               *)

\* The tokens of a text, the places of the scanner in it, and what it can store.
TextTokens == STRING \cup NumberChars \cup Words \cup {Quote, Space, LeftBrace, RightBrace, MemberComma, Colon, "t"}
ScannerPlaces == {"begin", "member", "spaces", "key", "colon", "value", "string", "number",
                  "sep", "end", "fail", "throw"}
ValueTypes == {"string", "number", "bool"}
StoredPairs == [key : Seq(TextTokens), value : [type : ValueTypes, text : Seq(TextTokens)]]

\* The scanner in a place, with the text, key and pairs it has.
Scanner(at, text, key, kv) == [at |-> at, text |-> text, key |-> key, kv |-> kv]
Scanners == [at : ScannerPlaces, text : Seq(TextTokens), key : Seq(TextTokens),
             kv : SUBSET StoredPairs]

\* The steps of the scanner that FlatJson has no name for.
KeyRead(s) == [s EXCEPT !.at = "colon", !.key = s.text]
WithText(s, t) == [s EXCEPT !.text = t]

\* A scanner has these four variables.
LEMMA ScannerFields ==
  /\ \A s \in Scanners :
       /\ s = Scanner(s.at, s.text, s.key, s.kv)
       /\ s.at \in ScannerPlaces /\ s.text \in Seq(TextTokens) /\ s.key \in Seq(TextTokens)
       /\ s.kv \in SUBSET StoredPairs
  /\ \A at \in ScannerPlaces, t, k \in Seq(TextTokens), v \in SUBSET StoredPairs :
       Scanner(at, t, k, v) \in Scanners
  /\ \A at, t, k, v : /\ Scanner(at, t, k, v).at = at /\ Scanner(at, t, k, v).text = t
                      /\ Scanner(at, t, k, v).key = k /\ Scanner(at, t, k, v).kv = v
BY DEF Scanner, Scanners

\* What the steps of the scanner do to them.
LEMMA ScannerChanges ==
  ASSUME NEW at, NEW t, NEW k, NEW v, NEW x
  PROVE  LET s == Scanner(at, t, k, v)
         IN  /\ Goto(s, x) = Scanner(x, t, k, v)
             /\ Collect(s, x) = Scanner(x, <<>>, k, v)
             /\ Extend(s, x) = Scanner(at, Append(t, x), k, v)
             /\ Store(s, x) = Scanner("sep", t, k, Assign(v, k, Value(x, t)))
             /\ WithText(s, x) = Scanner(at, x, k, v)
<1> DEFINE s == Scanner(at, t, k, v)
           w == Assign(v, k, Value(x, t))
<1>1. s.at = at /\ s.text = t /\ s.key = k /\ s.kv = v
  BY ScannerFields
<1>2. Goto(s, x) = Scanner(x, t, k, v)
  BY DEF Goto, Scanner
<1>3. Extend(s, x) = Scanner(at, Append(t, x), k, v)
  <2> DEFINE y == Append(t, x)
  <2>1. Extend(s, x) = WithText(s, y)
    <3> HIDE DEF s
    <3> QED
      BY <1>1, Zenon DEF Extend, WithText
  <2> HIDE DEF y
  <2>2. WithText(s, y) = Scanner(at, y, k, v)
    BY DEF WithText, Scanner
  <2> QED
    BY <2>1, <2>2, Zenon DEF y
<1>4. WithText(s, x) = Scanner(at, x, k, v)
  BY DEF WithText, Scanner
<1>5. Collect(s, x) = Scanner(x, <<>>, k, v)
  <2>1. Collect(s, x) = [[s EXCEPT !.at = x] EXCEPT !.text = <<>>]
    BY Zenon DEF Collect
  <2>2. [s EXCEPT !.at = x] = Scanner(x, t, k, v)
    BY DEF Scanner
  <2>3. [Scanner(x, t, k, v) EXCEPT !.text = <<>>] = Scanner(x, <<>>, k, v)
    BY DEF Scanner
  <2> QED
    BY <2>1, <2>2, <2>3, Zenon
<1>6. Store(s, x) = Scanner("sep", t, k, w)
  <2> HIDE DEF w
  <2>1. Store(s, x) = [[s EXCEPT !.at = "sep"] EXCEPT !.kv = w]
    <3> HIDE DEF s
    <3> QED
      BY <1>1, Zenon DEF Store, w
  <2>2. [s EXCEPT !.at = "sep"] = Scanner("sep", t, k, v)
    BY DEF Scanner
  <2>3. [Scanner("sep", t, k, v) EXCEPT !.kv = w] = Scanner("sep", t, k, w)
    BY DEF Scanner
  <2> QED
    BY <2>1, <2>2, <2>3, Zenon
<1> QED
  BY <1>2, <1>3, <1>4, <1>5, <1>6, Zenon

\* And at the end of a key.
LEMMA KeyIsRead ==
  ASSUME NEW at, NEW t, NEW k, NEW v
  PROVE  KeyRead(Scanner(at, t, k, v)) = Scanner("colon", t, t, v)
<1> DEFINE s == Scanner(at, t, k, v)
<1>1. s.text = t
  BY ScannerFields
<1>2. [s EXCEPT !.at = "colon", !.key = t] = [[s EXCEPT !.at = "colon"] EXCEPT !.key = t]
  BY Zenon
<1>3. [s EXCEPT !.at = "colon"] = Scanner("colon", t, k, v)
  BY DEF Scanner
<1>4. [Scanner("colon", t, k, v) EXCEPT !.key = t] = Scanner("colon", t, t, v)
  BY DEF Scanner
<1> QED
  BY <1>1, <1>2, <1>3, <1>4, Zenon DEF KeyRead

\* What the scanner does with a token, place by place.
LEMMA ScannedAt ==
  /\ \A s, c : s.at = "begin" =>
        Scanned(s, c) = IF c = Space THEN s
                        ELSE IF c = LeftBrace THEN Goto(s, "member") ELSE Goto(s, "fail")
  /\ \A s, c : s.at \in {"member", "spaces"} => Scanned(s, c) = Member(s, c)
  /\ \A s, c : s.at = "key" =>
        Scanned(s, c) = IF c = Quote THEN KeyRead(s)
                        ELSE Extend(s, c)
  /\ \A s, c : s.at = "colon" =>
        Scanned(s, c) = IF c = Space THEN s
                        ELSE IF c = Colon THEN Goto(s, "value") ELSE Goto(s, "fail")
  /\ \A s, c : s.at = "value" => Scanned(s, c) = ValueStart(s, c)
  /\ \A s, c : s.at = "string" =>
        Scanned(s, c) = IF c = Quote THEN Store(s, "string") ELSE Extend(s, c)
  /\ \A s, c : s.at = "number" =>
        Scanned(s, c) = IF c \in NumberChars THEN Extend(s, c)
                        ELSE IF NumberEnd(s).at = "sep" THEN Separator(NumberEnd(s), c)
                        ELSE NumberEnd(s)
  /\ \A s, c : s.at = "sep" => Scanned(s, c) = Separator(s, c)
  /\ \A s, c : s.at \in {"end", "fail", "throw"} => Scanned(s, c) = s
<1>1. Space # LeftBrace /\ Space # Colon
  BY Zenon DEF Space, LeftBrace, Colon
<1>2. \A s, c : s.at = "begin" =>
        Scanned(s, c) = IF c = Space THEN s
                        ELSE IF c = LeftBrace THEN Goto(s, "member") ELSE Goto(s, "fail")
  BY <1>1, Zenon DEF Scanned
<1>3. \A s, c : s.at \in {"member", "spaces"} => Scanned(s, c) = Member(s, c)
  BY Zenon DEF Scanned
<1>4. \A s, c : s.at = "key" =>
        Scanned(s, c) = IF c = Quote THEN KeyRead(s)
                        ELSE Extend(s, c)
  BY Zenon DEF Scanned, Quoted, KeyRead
<1>5. \A s, c : s.at = "colon" =>
        Scanned(s, c) = IF c = Space THEN s
                        ELSE IF c = Colon THEN Goto(s, "value") ELSE Goto(s, "fail")
  BY <1>1, Zenon DEF Scanned
<1>6. \A s, c : s.at = "value" => Scanned(s, c) = ValueStart(s, c)
  BY Zenon DEF Scanned
<1>7. \A s, c : s.at = "string" =>
        Scanned(s, c) = IF c = Quote THEN Store(s, "string") ELSE Extend(s, c)
  BY Zenon DEF Scanned, Quoted
<1>8. \A s, c : s.at = "number" =>
        Scanned(s, c) = IF c \in NumberChars THEN Extend(s, c)
                        ELSE IF NumberEnd(s).at = "sep" THEN Separator(NumberEnd(s), c)
                        ELSE NumberEnd(s)
  BY Zenon DEF Scanned
<1>9. \A s, c : s.at = "sep" => Scanned(s, c) = Separator(s, c)
  BY Zenon DEF Scanned
<1>10. \A s, c : s.at \in {"end", "fail", "throw"} => Scanned(s, c) = s
  BY Zenon DEF Scanned
<1> QED
  BY <1>2, <1>3, <1>4, <1>5, <1>6, <1>7, <1>8, <1>9, <1>10, Zenon

\* The number a text begins with is a text.
LEMMA NumeralType ==
  ASSUME NEW T, NEW t \in Seq(T)
  PROVE  Numeral(t) \in Seq(T)
<1> DEFINE stops == {i \in 2..Len(t) : \/ t[i] \in Signs
                                       \/ t[i] = "." /\ Contains(SubSeq(t, 1, i - 1), ".")}
<1>1. Numeral(t) = IF stops = {} THEN t ELSE SubSeq(t, 1, Min(stops) - 1)
  BY DEF Numeral
<1>2. stops # {} => Min(stops) \in 1..Len(t)
  <2>1. stops \in SUBSET (1..Len(t)) /\ Len(t) \in Nat
    OBVIOUS
  <2> HIDE DEF stops
  <2> QED
    BY <2>1, LeastIn
<1> HIDE DEF stops
<1>3. stops # {} => SubSeq(t, 1, Min(stops) - 1) \in Seq(T)
  BY <1>2
<1> QED
  BY <1>1, <1>3

\* A value that is stored replaces the one of its key.
LEMMA AssignType ==
  ASSUME NEW v \in SUBSET StoredPairs, NEW k \in Seq(TextTokens), NEW x \in ValueTypes,
         NEW t \in Seq(TextTokens)
  PROVE  Assign(v, k, Value(x, t)) \in SUBSET StoredPairs
BY DEF Assign, Value, StoredPairs

\* The steps keep the types.
LEMMA ChangesType ==
  ASSUME NEW s \in Scanners
  PROVE  /\ \A at \in ScannerPlaces : Goto(s, at) \in Scanners /\ Collect(s, at) \in Scanners
         /\ \A c \in TextTokens : Extend(s, c) \in Scanners
         /\ \A t \in Seq(TextTokens) : WithText(s, t) \in Scanners
         /\ \A x \in ValueTypes : Store(s, x) \in Scanners
         /\ KeyRead(s) \in Scanners
<1>1. /\ s = Scanner(s.at, s.text, s.key, s.kv)
      /\ s.at \in ScannerPlaces /\ s.text \in Seq(TextTokens) /\ s.key \in Seq(TextTokens)
      /\ s.kv \in SUBSET StoredPairs
  BY ScannerFields, Zenon
<1>2. PICK at \in ScannerPlaces, t \in Seq(TextTokens), k \in Seq(TextTokens),
           v \in SUBSET StoredPairs : s = Scanner(at, t, k, v)
  BY <1>1, Zenon
<1>3. \A b \in ScannerPlaces, u, l \in Seq(TextTokens), w \in SUBSET StoredPairs :
        Scanner(b, u, l, w) \in Scanners
  BY ScannerFields, Zenon
<1>4. ASSUME NEW b \in ScannerPlaces
      PROVE  Goto(s, b) \in Scanners /\ Collect(s, b) \in Scanners
  <2>1. <<>> \in Seq(TextTokens)
    OBVIOUS
  <2>2. Goto(s, b) = Scanner(b, t, k, v) /\ Collect(s, b) = Scanner(b, <<>>, k, v)
    BY <1>2, ScannerChanges
  <2> QED
    BY <1>3, <2>1, <2>2, Zenon
<1>5. ASSUME NEW c \in TextTokens
      PROVE  Extend(s, c) \in Scanners
  <2>1. Append(t, c) \in Seq(TextTokens)
    OBVIOUS
  <2>2. Extend(s, c) = Scanner(at, Append(t, c), k, v)
    BY <1>2, ScannerChanges
  <2> QED
    BY <1>3, <2>1, <2>2, Zenon
<1>6. ASSUME NEW u \in Seq(TextTokens)
      PROVE  WithText(s, u) \in Scanners
  <2>1. WithText(s, u) = Scanner(at, u, k, v)
    BY <1>2, ScannerChanges
  <2> QED
    BY <1>3, <2>1, Zenon
<1>7. ASSUME NEW x \in ValueTypes
      PROVE  Store(s, x) \in Scanners
  <2>1. Assign(v, k, Value(x, t)) \in SUBSET StoredPairs /\ "sep" \in ScannerPlaces
    BY AssignType DEF ScannerPlaces
  <2>2. Store(s, x) = Scanner("sep", t, k, Assign(v, k, Value(x, t)))
    BY <1>2, ScannerChanges
  <2> QED
    BY <1>3, <2>1, <2>2, Zenon
<1>8. KeyRead(s) \in Scanners
  <2>1. "colon" \in ScannerPlaces
    BY DEF ScannerPlaces
  <2>2. KeyRead(s) = Scanner("colon", t, t, v)
    BY <1>2, KeyIsRead
  <2> QED
    BY <1>3, <2>1, <2>2, Zenon
<1> QED
  BY <1>4, <1>5, <1>6, <1>7, <1>8, Zenon

\* So does a token.
LEMMA ScannedType ==
  ASSUME NEW s \in Scanners, NEW c \in TextTokens
  PROVE  Scanned(s, c) \in Scanners
<1>1. /\ {"member", "spaces", "end", "key", "fail", "value", "throw", "number", "string"}
            \subseteq ScannerPlaces
      /\ ValueTypes = {"string", "number", "bool"}
  BY DEF ScannerPlaces, ValueTypes
<1>2. ASSUME NEW r \in Scanners
      PROVE  Member(r, c) \in Scanners /\ Separator(r, c) \in Scanners
  <2>1. \A at \in {"member", "end", "fail", "spaces"} : Goto(r, at) \in Scanners
    BY <1>1, ChangesType
  <2>2. Collect(r, "key") \in Scanners
    BY <1>1, ChangesType
  <2>3. Member(r, c) \in Scanners
    BY <2>1, <2>2, Zenon DEF Member
  <2> QED
    BY <2>1, <2>3, Zenon DEF Separator
<1>3. ValueStart(s, c) \in Scanners
  <2>1. Collect(s, "string") \in Scanners /\ Collect(s, "number") \in Scanners
        /\ Goto(s, "fail") \in Scanners
    BY <1>1, ChangesType
  <2>2. Extend(Collect(s, "number"), c) \in Scanners
    BY <2>1, ChangesType
  <2>3. Store(WithText(s, <<c>>), "bool") \in Scanners
    <3>1. <<c>> \in Seq(TextTokens)
      OBVIOUS
    <3>2. WithText(s, <<c>>) \in Scanners
      BY <3>1, ChangesType
    <3> QED
      BY <1>1, <3>2, ChangesType
  <2> QED
    BY <2>1, <2>2, <2>3, Zenon DEF ValueStart, WithText
<1>4. NumberEnd(s) \in Scanners
  <2>1. Numeral(s.text) \in Seq(TextTokens)
    BY ScannerFields, NumeralType
  <2>2. WithText(s, Numeral(s.text)) \in Scanners
    BY <2>1, ChangesType
  <2>3. Store(WithText(s, Numeral(s.text)), "number") \in Scanners
    BY <1>1, <2>2, ChangesType
  <2>4. Goto(s, "throw") \in Scanners
    BY <1>1, ChangesType
  <2> QED
    BY <2>3, <2>4, Zenon DEF NumberEnd, WithText
<1>5. /\ Goto(s, "member") \in Scanners /\ Goto(s, "fail") \in Scanners
      /\ Goto(s, "value") \in Scanners /\ Store(s, "string") \in Scanners
      /\ Extend(s, c) \in Scanners
      /\ KeyRead(s) \in Scanners
  BY <1>1, ChangesType
<1>6. Separator(NumberEnd(s), c) \in Scanners
  BY <1>2, <1>4
<1>7. s.at \in ScannerPlaces
  BY ScannerFields
<1>8. Member(s, c) \in Scanners /\ Separator(s, c) \in Scanners
  BY <1>2
<1>9. CASE s.at \in {"member", "spaces", "value", "sep", "end", "fail", "throw"}
  BY <1>3, <1>8, <1>9, ScannedAt
<1>10. CASE s.at \in {"begin", "colon"}
  BY <1>5, <1>10, ScannedAt
<1>11. CASE s.at \in {"key", "string"}
  BY <1>5, <1>11, ScannedAt
<1>12. CASE s.at = "number"
  BY <1>4, <1>5, <1>6, <1>12, ScannedAt
<1> QED
  BY <1>7, <1>9, <1>10, <1>11, <1>12 DEF ScannerPlaces

\* The scanner behind a text that it began in state s.
Run(s, text) == FoldLeft(Scanned, s, text)

\* The states of the scanner at the ends of the prefixes of a text.
RunStates(P, s, text) ==
  /\ P \in [0..Len(text) -> Scanners] /\ P[0] = s /\ P[Len(text)] = Run(s, text)
  /\ \A k \in 1..Len(text) : P[k] = Scanned(P[k - 1], text[k])

\* The scanner goes through the text token by token.
LEMMA RunSteps ==
  ASSUME NEW s \in Scanners, NEW text \in Seq(TextTokens)
  PROVE  \E P : RunStates(P, s, text)
<1> DEFINE V == Scanners
           n == Len(text)
           step == [p \in V \X (1..n) |-> Scanned(p[1], text[p[2]])]
           Body(g) == [q \in SUBSET (1..n) |->
                         IF q = {} THEN s ELSE Scanned(g[q \ {Top(q)}], text[Top(q)])]
           iter == CHOOSE g : g = Body(g)
<1>1. n \in Nat /\ DOMAIN text = 1..n
  OBVIOUS
<1>2. Run(s, text) = iter[1..n]
  <2> DEFINE Other(g) == [q \in SUBSET DOMAIN text |->
                            IF q = {} THEN s ELSE Scanned(g[q \ {Top(q)}], text[Top(q)])]
  <2>1. Run(s, text) = (CHOOSE g : g = Other(g))[DOMAIN text]
    BY Zenon DEF Run, FoldLeft, MapThenFoldSet, Max, Top
  <2> HIDE DEF n
  <2> QED
    BY <1>1, <2>1, Zenon
<1>3. s \in V /\ step \in [V \X (1..n) -> V]
  <2>1. \A v \in V, k \in 1..n : Scanned(v, text[k]) \in V
    <3>1. \A k \in 1..n : text[k] \in TextTokens
      OBVIOUS
    <3> QED
      BY <3>1, ScannedType
  <2> HIDE DEF V
  <2>2. step \in [V \X (1..n) -> V]
    BY <2>1
  <2> QED
    BY <2>2, Zenon DEF V
<1> HIDE DEF V
<1>4. \E g : g = Body(g)
  <2>1. PICK G \in [SUBSET (1..n) -> V] : Folding(n, s, step, G)
    <3> HIDE DEF step, n
    <3> QED
      BY <1>1, <1>3, FoldExists, Zenon
  <2>2. ASSUME NEW q \in SUBSET (1..n), q # {}
        PROVE  step[<<G[q \ {Top(q)}], Top(q)>>] = Scanned(G[q \ {Top(q)}], text[Top(q)])
    <3>1. Top(q) \in 1..n /\ q \ {Top(q)} \in SUBSET (1..n)
      BY <1>1, <2>2, TopIn
    <3> QED
      BY <3>1
  <2>3. G = Body(G)
    BY <2>1, <2>2 DEF Folding
  <2> QED
    BY <2>3
<1>5. iter = Body(iter)
  <2> HIDE DEF Body
  <2> QED
    BY <1>4, Zenon
<1> HIDE DEF iter
<1>6. FoldingIn(V, n, s, step, iter)
  <2>1. /\ iter[{}] = s
        /\ \A q \in SUBSET (1..n) :
             q # {} => iter[q] = Scanned(iter[q \ {Top(q)}], text[Top(q)])
    BY <1>5
  <2> QED
    BY <1>1, <2>1, TopIn DEF FoldingIn
<1>7. PICK P \in [0..n -> V] : PrefixValues(n, s, step, iter[1..n], P)
  <2> HIDE DEF step, n
  <2> QED
    BY <1>1, <1>3, <1>6, FoldPrefixes, Zenon
<1>8. P[0] = s /\ P[n] = iter[1..n] /\ \A k \in 1..n : P[k] = Scanned(P[k - 1], text[k])
  <2>1. \A k \in 1..n : k - 1 \in 0..n
    BY <1>1
  <2> QED
    BY <1>7, <2>1 DEF PrefixValues
<1>9. RunStates(P, s, text)
  BY <1>2, <1>7, <1>8 DEF V, RunStates
<1> QED
  BY <1>9

\* Texts of no token and of one.
LEMMA RunToken ==
  ASSUME NEW s \in Scanners, NEW c \in TextTokens
  PROVE  Run(s, <<>>) = s /\ Run(s, <<c>>) = Scanned(s, c)
<1>1. /\ <<>> \in Seq(TextTokens) /\ Len(<<>>) = 0
      /\ <<c>> \in Seq(TextTokens) /\ Len(<<c>>) = 1 /\ <<c>>[1] = c
  OBVIOUS
<1>2. Run(s, <<>>) = s
  <2>1. PICK P : RunStates(P, s, <<>>)
    BY <1>1, RunSteps
  <2> QED
    BY <1>1, <2>1 DEF RunStates
<1> DEFINE text == <<c>>
<1>3. text \in Seq(TextTokens) /\ Len(text) = 1 /\ text[1] = c
  BY <1>1
<1> HIDE DEF text
<1>4. PICK P : RunStates(P, s, text)
  BY <1>3, RunSteps
<1>5. P[1] = Run(s, text) /\ P[1] = Scanned(P[1 - 1], text[1]) /\ P[0] = s
  <2>1. 1 \in 1..Len(text)
    BY <1>3
  <2> QED
    BY <1>3, <1>4, <2>1 DEF RunStates
<1>6. Run(s, text) = Scanned(s, c)
  BY <1>3, <1>5
<1> QED
  BY <1>2, <1>6 DEF text

\* A text behind another.
LEMMA RunJoined ==
  ASSUME NEW s \in Scanners, NEW a \in Seq(TextTokens), NEW b \in Seq(TextTokens)
  PROVE  Run(s, a) \in Scanners /\ Run(s, a \o b) = Run(Run(s, a), b)
<1> DEFINE m == Len(a)
           n == Len(b)
           ab == a \o b
<1>1. Joined(a, b, TextTokens)
  BY Concatenation, Zenon
<1>2. /\ m \in Nat /\ n \in Nat /\ ab \in Seq(TextTokens) /\ Len(ab) = m + n
      /\ \A i \in 1..m : ab[i] = a[i]
      /\ \A i \in 1..n : ab[m + i] = b[i]
  BY <1>1 DEF Joined
<1> HIDE DEF ab
<1>3. PICK P : RunStates(P, s, a)
  BY RunSteps, Zenon
<1>4. Run(s, a) \in Scanners /\ P[0] = s /\ P[m] = Run(s, a)
      /\ \A k \in 1..m : P[k] = Scanned(P[k - 1], a[k])
  <2>1. Len(a) \in 0..Len(a)
    BY <1>2
  <2> QED
    BY <1>3, <2>1 DEF RunStates
<1>5. PICK Q : RunStates(Q, Run(s, a), b)
  BY <1>4, RunSteps, Zenon
<1>6. PICK R : RunStates(R, s, ab)
  BY <1>2, RunSteps, Zenon
<1>7. /\ Q[0] = Run(s, a) /\ Q[n] = Run(Run(s, a), b)
      /\ \A k \in 1..n : Q[k] = Scanned(Q[k - 1], b[k])
      /\ R[0] = s /\ R[m + n] = Run(s, ab)
      /\ \A k \in 1..(m + n) : R[k] = Scanned(R[k - 1], ab[k])
  BY <1>2, <1>5, <1>6 DEF RunStates
<1> HIDE DEF m, n
<1> DEFINE S == {k \in 0..m : R[k] = P[k]}
<1>8. m \in S
  <2>1. 0 \in S
    BY <1>2, <1>4, <1>7
  <2>2. ASSUME NEW k \in 0..(m - 1), k \in S
        PROVE  k + 1 \in S
    <3>1. k + 1 \in 1..m /\ k + 1 \in 1..(m + n) /\ (k + 1) - 1 = k /\ k + 1 \in 0..m
      BY <1>2
    <3>2. R[k + 1] = Scanned(R[k], ab[k + 1]) /\ P[k + 1] = Scanned(P[k], a[k + 1])
      BY <1>4, <1>7, <3>1
    <3>3. ab[k + 1] = a[k + 1]
      BY <1>2, <3>1
    <3> QED
      BY <2>2, <3>1, <3>2, <3>3
  <2>3. m \in 0..m
    BY <1>2
  <2> HIDE DEF S
  <2>4. 0..m \subseteq S
    BY <1>2, <2>1, <2>2, IntervalInduction
  <2> QED
    BY <2>3, <2>4
<1> DEFINE U == {k \in 0..n : R[m + k] = Q[k]}
<1>9. n \in U
  <2>1. 0 \in U
    <3>1. m + 0 = m /\ R[m] = P[m]
      BY <1>2, <1>8
    <3> QED
      BY <1>2, <1>4, <1>7, <3>1
  <2>2. ASSUME NEW k \in 0..(n - 1), k \in U
        PROVE  k + 1 \in U
    <3>1. /\ k + 1 \in 1..n /\ m + (k + 1) \in 1..(m + n) /\ (m + (k + 1)) - 1 = m + k
          /\ (k + 1) - 1 = k /\ k + 1 \in 0..n
      BY <1>2
    <3>2. R[m + (k + 1)] = Scanned(R[m + k], ab[m + (k + 1)]) /\ Q[k + 1] = Scanned(Q[k], b[k + 1])
      BY <1>7, <3>1
    <3>3. ab[m + (k + 1)] = b[k + 1]
      BY <1>2, <3>1
    <3> QED
      BY <2>2, <3>1, <3>2, <3>3
  <2>3. n \in 0..n
    BY <1>2
  <2> HIDE DEF U
  <2>4. 0..n \subseteq U
    BY <1>2, <2>1, <2>2, IntervalInduction
  <2> QED
    BY <2>3, <2>4
<1> QED
  BY <1>4, <1>7, <1>9 DEF ab

\* What is left when two texts, one behind the other, are cut.
PrefixOfBoth(a, b) ==
  /\ \A k \in 0..Len(a) : SubSeq(a \o b, 1, k) = SubSeq(a, 1, k)
  /\ \A k \in 0..Len(b) : SubSeq(a \o b, 1, Len(a) + k) = a \o SubSeq(b, 1, k)

\* It is a part of the first, or the first and a part of the second.
LEMMA PrefixJoined == ASSUME NEW T, NEW a \in Seq(T), NEW b \in Seq(T) PROVE PrefixOfBoth(a, b)
<1> DEFINE m == Len(a)
           n == Len(b)
           ab == a \o b
<1>1. Joined(a, b, T)
  BY Concatenation, Zenon
<1>2. /\ m \in Nat /\ n \in Nat /\ ab \in Seq(T) /\ Len(ab) = m + n
      /\ \A i \in 1..m : ab[i] = a[i]
      /\ \A i \in 1..n : ab[m + i] = b[i]
  BY <1>1 DEF Joined
<1> HIDE DEF ab
<1>3. ASSUME NEW k \in 0..Len(a)
      PROVE  SubSeq(ab, 1, k) = SubSeq(a, 1, k)
  <2> DEFINE u == SubSeq(ab, 1, k)
             v == SubSeq(a, 1, k)
  <2>1. k \in 0..Len(ab) /\ \A i \in 1..k : i \in 1..m
    BY <1>2
  <2>2. /\ u \in Seq(T) /\ Len(u) = k /\ \A i \in 1..k : u[i] = ab[i]
        /\ v \in Seq(T) /\ Len(v) = k /\ \A i \in 1..k : v[i] = a[i]
    BY <1>2, <2>1, Cutting
  <2> HIDE DEF u, v, m
  <2>3. Len(u) = Len(v) /\ \A i \in 1..Len(u) : u[i] = v[i]
    BY <1>2, <2>1, <2>2
  <2>4. u = v
    BY <2>2, <2>3, SeqsEqual
  <2> QED
    BY <2>4 DEF u, v
<1>4. ASSUME NEW k \in 0..Len(b)
      PROVE  SubSeq(ab, 1, Len(a) + k) = a \o SubSeq(b, 1, k)
  <2> DEFINE v == SubSeq(b, 1, k)
             u == SubSeq(ab, 1, m + k)
             w == a \o v
  <2>1. m + k \in 0..Len(ab) /\ k \in Nat
    BY <1>2
  <2>2. /\ u \in Seq(T) /\ Len(u) = m + k /\ \A i \in 1..(m + k) : u[i] = ab[i]
        /\ v \in Seq(T) /\ Len(v) = k /\ \A i \in 1..k : v[i] = b[i]
    BY <1>2, <2>1, Cutting
  <2> HIDE DEF u, v
  <2>3. Joined(a, v, T)
    BY <2>2, Concatenation, Zenon
  <2>4. /\ w \in Seq(T) /\ Len(w) = m + k
        /\ \A i \in 1..m : w[i] = a[i]
        /\ \A i \in 1..k : w[m + i] = v[i]
    BY <2>2, <2>3 DEF Joined
  <2> HIDE DEF w, m, n
  <2>5. ASSUME NEW i \in 1..(m + k)
        PROVE  u[i] = w[i]
    <3>1. u[i] = ab[i]
      BY <2>2
    <3>2. CASE i \in 1..m
      BY <1>2, <2>4, <3>1, <3>2
    <3>3. CASE i \notin 1..m
      <4>1. i - m \in 1..k /\ m + (i - m) = i /\ i - m \in 1..n
        BY <1>2, <2>1, <3>3 DEF n
      <4>2. ab[m + (i - m)] = b[i - m] /\ w[m + (i - m)] = v[i - m] /\ v[i - m] = b[i - m]
        BY <1>2, <2>2, <2>4, <4>1
      <4> QED
        BY <3>1, <4>1, <4>2
    <3> QED
      BY <3>2, <3>3
  <2>6. Len(u) = Len(w) /\ \A i \in 1..Len(u) : u[i] = w[i]
    BY <2>2, <2>4, <2>5
  <2>7. u = w
    BY <2>2, <2>4, <2>6, SeqsEqual, Zenon
  <2> QED
    BY <2>7 DEF u, v, w, m
<1> QED
  BY <1>3, <1>4 DEF ab, PrefixOfBoth

\* Texts behind one another.
LEMMA Associative ==
  ASSUME NEW T, NEW a \in Seq(T), NEW b \in Seq(T), NEW c \in Seq(T)
  PROVE  (a \o b) \o c = a \o (b \o c)
<1> DEFINE l == Len(a)
           m == Len(b)
           n == Len(c)
           ab == a \o b
           bc == b \o c
           u == ab \o c
           w == a \o bc
<1>1. Joined(a, b, T) /\ Joined(b, c, T)
  BY Concatenation, Zenon
<1>2. /\ l \in Nat /\ m \in Nat /\ n \in Nat
      /\ ab \in Seq(T) /\ Len(ab) = l + m
      /\ \A i \in 1..l : ab[i] = a[i]
      /\ \A i \in 1..m : ab[l + i] = b[i]
      /\ bc \in Seq(T) /\ Len(bc) = m + n
      /\ \A i \in 1..m : bc[i] = b[i]
      /\ \A i \in 1..n : bc[m + i] = c[i]
  BY <1>1 DEF Joined
<1> HIDE DEF ab, bc
<1>3. Joined(ab, c, T) /\ Joined(a, bc, T)
  BY <1>2, Concatenation, Zenon
<1>4. /\ u \in Seq(T) /\ Len(u) = (l + m) + n
      /\ \A i \in 1..(l + m) : u[i] = ab[i]
      /\ \A i \in 1..n : u[(l + m) + i] = c[i]
      /\ w \in Seq(T) /\ Len(w) = l + (m + n)
      /\ \A i \in 1..l : w[i] = a[i]
      /\ \A i \in 1..(m + n) : w[l + i] = bc[i]
  BY <1>2, <1>3 DEF Joined
<1> HIDE DEF l, m, n, u, w
<1>5. ASSUME NEW i \in 1..((l + m) + n)
      PROVE  u[i] = w[i]
  <2>0. i \in Int /\ l \in Nat /\ m \in Nat /\ n \in Nat
    BY <1>2
  <2>1. CASE i <= l
    <3>1. i \in 1..l /\ i \in 1..(l + m)
      BY <2>0, <2>1
    <3> QED
      BY <1>2, <1>4, <3>1
  <2>2. CASE l < i /\ i <= l + m
    <3>1. i - l \in 1..m /\ i - l \in 1..(m + n) /\ l + (i - l) = i /\ i \in 1..(l + m)
      BY <2>0, <2>2
    <3>2. ab[l + (i - l)] = b[i - l] /\ w[l + (i - l)] = bc[i - l] /\ bc[i - l] = b[i - l]
      BY <1>2, <1>4, <3>1
    <3> QED
      BY <1>4, <3>1, <3>2
  <2>3. CASE l + m < i
    <3> DEFINE j == i - (l + m)
    <3>1. j \in 1..n /\ (l + m) + j = i /\ m + j \in 1..(m + n) /\ l + (m + j) = i
      BY <2>0, <2>3
    <3> HIDE DEF j
    <3>2. u[(l + m) + j] = c[j] /\ w[l + (m + j)] = bc[m + j] /\ bc[m + j] = c[j]
      BY <1>2, <1>4, <3>1
    <3> QED
      BY <3>1, <3>2
  <2> QED
    BY <2>0, <2>1, <2>2, <2>3
<1>6. (l + m) + n = l + (m + n)
  BY <1>2
<1>7. Len(u) = Len(w) /\ \A i \in 1..Len(u) : u[i] = w[i]
  BY <1>4, <1>5, <1>6
<1>8. u = w
  BY <1>4, <1>7, SeqsEqual, Zenon
<1> QED
  BY <1>8 DEF u, w, ab, bc

\* Where a text is cut: behind some tokens, or within a word.
LEMMA CutSomewhere ==
  ASSUME NEW text, NEW u \in Cuts(text)
  PROVE  \/ \E k \in 0..Len(text) : u = SubSeq(text, 1, k)
         \/ \E k \in DOMAIN text : text[k] \in Words /\ u = SubSeq(text, 1, k - 1) \o <<"t">>
BY Zenon DEF Cuts

\* Two texts are cut where one of them is.
LEMMA CutJoined ==
  ASSUME NEW a \in Seq(TextTokens), NEW b \in Seq(TextTokens), NEW u \in Cuts(a \o b)
  PROVE  u \in Cuts(a) \/ \E w \in Cuts(b) : w \in Seq(TextTokens) /\ u = a \o w
<1> DEFINE m == Len(a)
           n == Len(b)
           ab == a \o b
           T == TextTokens
           x == <<"t">>
<1>1. Joined(a, b, T)
  BY Concatenation, Zenon
<1>2. /\ m \in Nat /\ n \in Nat /\ ab \in Seq(T) /\ Len(ab) = m + n
      /\ \A i \in 1..m : ab[i] = a[i]
      /\ \A i \in 1..n : ab[m + i] = b[i]
      /\ DOMAIN a = 1..m /\ DOMAIN b = 1..n /\ DOMAIN ab = 1..(m + n)
  BY <1>1 DEF Joined
<1>3. /\ \A k \in 0..m : SubSeq(ab, 1, k) = SubSeq(a, 1, k)
      /\ \A k \in 0..n : SubSeq(ab, 1, m + k) = a \o SubSeq(b, 1, k)
  <2>1. PrefixOfBoth(a, b)
    BY PrefixJoined, Zenon
  <2> QED
    BY <2>1 DEF PrefixOfBoth
<1>4. x \in Seq(T)
  BY DEF TextTokens
<1> HIDE DEF ab, T, x
<1>5. \A k \in 0..n : SubSeq(b, 1, k) \in Seq(T)
  BY Cutting DEF T
<1>6. \/ \E k \in 0..Len(ab) : u = SubSeq(ab, 1, k)
      \/ \E k \in DOMAIN ab : ab[k] \in Words /\ u = SubSeq(ab, 1, k - 1) \o x
  BY CutSomewhere, Zenon DEF ab, x
<1> HIDE DEF m, n
<1>7. ASSUME NEW k \in 0..Len(ab), u = SubSeq(ab, 1, k)
      PROVE  u \in Cuts(a) \/ \E w \in Cuts(b) : w \in Seq(T) /\ u = a \o w
  <2>1. CASE k \in 0..m
    <3>1. u = SubSeq(a, 1, k)
      BY <1>3, <1>7, <2>1
    <3>2. u \in Cuts(a)
      BY <2>1, <3>1, Zenon DEF Cuts, m
    <3> QED
      BY <3>2
  <2>2. CASE k \notin 0..m
    <3>1. k - m \in 0..n /\ m + (k - m) = k
      BY <1>2, <2>2
    <3> DEFINE w == SubSeq(b, 1, k - m)
    <3>2. u = a \o w /\ w \in Seq(T)
      BY <1>3, <1>5, <1>7, <3>1
    <3>3. w \in Cuts(b)
      BY <3>1, Zenon DEF Cuts, n
    <3> QED
      BY <3>2, <3>3, Zenon
  <2> QED
    BY <2>1, <2>2
<1>8. ASSUME NEW k \in DOMAIN ab, ab[k] \in Words, u = SubSeq(ab, 1, k - 1) \o x
      PROVE  u \in Cuts(a) \/ \E w \in Cuts(b) : w \in Seq(T) /\ u = a \o w
  <2>0. k \in 1..(m + n) /\ m \in Nat /\ n \in Nat
    BY <1>2
  <2>1. CASE k \in 1..m
    <3>1. k - 1 \in 0..m /\ ab[k] = a[k] /\ k \in DOMAIN a
      BY <1>2, <2>1
    <3>2. u = SubSeq(a, 1, k - 1) \o x
      BY <1>3, <1>8, <3>1
    <3>3. u \in Cuts(a)
      BY <1>8, <3>1, <3>2, Zenon DEF Cuts, x
    <3> QED
      BY <3>3
  <2>2. CASE k \notin 1..m
    <3>0. k \in Int /\ k > m /\ k <= m + n
      BY <2>0, <2>2
    <3>1. k - m \in 1..n /\ m + (k - m) = k /\ (k - m) - 1 \in 0..n /\ m + ((k - m) - 1) = k - 1
      BY <2>0, <3>0
    <3>2. ab[k] = b[k - m] /\ k - m \in DOMAIN b
      BY <1>2, <3>1
    <3> DEFINE v == SubSeq(b, 1, (k - m) - 1)
               w == v \o x
    <3>3. u = (a \o v) \o x /\ v \in Seq(T)
      <4>1. SubSeq(ab, 1, m + ((k - m) - 1)) = a \o v
        BY <1>3, <3>1
      <4>2. SubSeq(ab, 1, k - 1) = a \o v
        BY <3>1, <4>1
      <4> QED
        BY <1>5, <1>8, <3>1, <4>2
    <3>4. w \in Cuts(b)
      BY <1>8, <3>2, Zenon DEF Cuts, x
    <3> HIDE DEF v
    <3>5. w \in Seq(T)
      BY <1>4, <3>3
    <3>6. (a \o v) \o x = a \o w
      BY <1>4, <3>3, Associative DEF T
    <3> QED
      BY <3>3, <3>4, <3>5, <3>6, Zenon
  <2> QED
    BY <2>1, <2>2
<1> QED
  BY <1>6, <1>7, <1>8 DEF T

\* A token is there or not, or only the beginning of a word.
LEMMA CutToken ==
  ASSUME NEW c \in TextTokens, NEW u \in Cuts(<<c>>)
  PROVE  u = <<>> \/ u = <<c>> \/ (c \in Words /\ u = <<"t">>)
<1> DEFINE text == <<c>>
           x == <<"t">>
<1>1. /\ text \in Seq(TextTokens) /\ Len(text) = 1 /\ DOMAIN text = {1} /\ text[1] = c
      /\ 0..Len(text) = {0, 1}
  OBVIOUS
<1>2. SubSeq(text, 1, 0) = <<>> /\ SubSeq(text, 1, 1) = text
  <2> HIDE DEF text
  <2> DEFINE v == SubSeq(text, 1, 0)
             w == SubSeq(text, 1, 1)
  <2>1. 0 \in 0..Len(text) /\ 1 \in 0..Len(text)
    BY <1>1
  <2>2. /\ v \in Seq(TextTokens) /\ Len(v) = 0
        /\ w \in Seq(TextTokens) /\ Len(w) = 1 /\ \A i \in 1..1 : w[i] = text[i]
    BY <1>1, <2>1, Cutting
  <2> HIDE DEF v, w
  <2>3. v = <<>>
    BY <2>2
  <2>4. w = text
    BY <1>1, <2>2, SeqsEqual
  <2> QED
    BY <2>3, <2>4 DEF v, w
<1>3. <<>> \o x = x
  OBVIOUS
<1> HIDE DEF text, x
<1>4. \/ \E k \in 0..Len(text) : u = SubSeq(text, 1, k)
      \/ \E k \in DOMAIN text : text[k] \in Words /\ u = SubSeq(text, 1, k - 1) \o x
  BY CutSomewhere, Zenon DEF text, x
<1>5. CASE \E k \in 0..Len(text) : u = SubSeq(text, 1, k)
  BY <1>1, <1>2, <1>5 DEF text
<1>6. CASE \E k \in DOMAIN text : text[k] \in Words /\ u = SubSeq(text, 1, k - 1) \o x
  <2>1. text[1] \in Words /\ u = SubSeq(text, 1, 1 - 1) \o x
    BY <1>1, <1>6
  <2>2. SubSeq(text, 1, 1 - 1) = <<>>
    BY <1>2
  <2>3. u = x /\ c \in Words
    BY <1>1, <1>3, <2>1, <2>2
  <2> QED
    BY <2>3 DEF x
<1> QED
  BY <1>4, <1>5, <1>6

\* A text of tokens of X has such tokens when it is cut, but for a part of a word.
LEMMA CutWithin ==
  ASSUME NEW X, NEW text \in Seq(X), NEW u \in Cuts(text)
  PROVE  \/ u \in Seq(X) /\ Extends(text, u)
         \/ \E k \in 1..Len(text) : text[k] \in Words /\ u \in Seq(X \cup {"t"})
<1> DEFINE x == <<"t">>
           Y == X \cup {"t"}
<1>1. x \in Seq(Y)
  OBVIOUS
<1> HIDE DEF x
<1>2. \/ \E k \in 0..Len(text) : u = SubSeq(text, 1, k)
      \/ \E k \in DOMAIN text : text[k] \in Words /\ u = SubSeq(text, 1, k - 1) \o x
  BY CutSomewhere, Zenon DEF x
<1>3. ASSUME NEW k \in 0..Len(text), u = SubSeq(text, 1, k)
      PROVE  u \in Seq(X) /\ Extends(text, u)
  <2>1. k \in Nat /\ k <= Len(text)
    OBVIOUS
  <2>2. u \in Seq(X) /\ Len(u) = k /\ \A i \in 1..k : u[i] = text[i]
    BY <1>3, Cutting
  <2> QED
    BY <2>1, <2>2 DEF Extends
<1>4. ASSUME NEW k \in DOMAIN text, text[k] \in Words, u = SubSeq(text, 1, k - 1) \o x
      PROVE  k \in 1..Len(text) /\ u \in Seq(Y)
  <2> DEFINE v == SubSeq(text, 1, k - 1)
  <2>1. k \in 1..Len(text) /\ k - 1 \in 0..Len(text)
    OBVIOUS
  <2>2. text \in Seq(Y)
    OBVIOUS
  <2> HIDE DEF Y
  <2>3. v \in Seq(Y)
    BY <2>1, <2>2, Cutting
  <2> HIDE DEF v
  <2>4. v \o x \in Seq(Y)
    BY <1>1, <2>3
  <2> QED
    BY <1>4, <2>1, <2>4 DEF v
<1> QED
  BY <1>2, <1>3, <1>4 DEF Y

\* Where the scanner ends when the text ends in state e (json.cpp 43, 53).
Final(e) == IF e.at = "number" THEN NumberEnd(e) ELSE e

\* The pair is one of the members of M, or lacks the last digits of its number.
SetBy(p, M) ==
  \E m \in M : /\ m.key = p.key /\ m.value.type = p.value.type
               /\ \/ m.value.text = p.value.text
                  \/ p.value.type = "number" /\ IsPrefix(p.value.text, m.value.text)

\* A text may end here: parse refuses it, or what it sets is of M.
MayEnd(e, M) == Final(e).at \in {"member", "sep", "end"} => \A p \in Final(e).kv : SetBy(p, M)

\* All pairs are members of M as they are.
OfMembers(v, M) == \A p \in v : \E m \in M : m.key = p.key /\ m.value = p.value

\* The text leads from s to r, and it may end anywhere on the way.
Passes(s, text, r, M) ==
  /\ s \in Scanners /\ r \in Scanners /\ text \in Seq(TextTokens) /\ r = Run(s, text)
  /\ \A u \in Cuts(text) : MayEnd(Run(s, u), M)

\* Ways that follow one another.
LEMMA PassJoined ==
  ASSUME NEW s, NEW a, NEW r, NEW b, NEW q, NEW M, Passes(s, a, r, M), Passes(r, b, q, M)
  PROVE  Passes(s, a \o b, q, M)
<1>1. /\ s \in Scanners /\ r \in Scanners /\ q \in Scanners
      /\ a \in Seq(TextTokens) /\ b \in Seq(TextTokens)
      /\ r = Run(s, a) /\ q = Run(r, b)
  BY DEF Passes
<1>2. q = Run(s, a \o b)
  BY <1>1, RunJoined
<1>3. a \o b \in Seq(TextTokens)
  BY <1>1
<1>4. ASSUME NEW u \in Cuts(a \o b)
      PROVE  MayEnd(Run(s, u), M)
  <2>1. CASE u \in Cuts(a)
    BY <2>1 DEF Passes
  <2>2. CASE \E w \in Cuts(b) : w \in Seq(TextTokens) /\ u = a \o w
    <3>1. PICK w \in Cuts(b) : w \in Seq(TextTokens) /\ u = a \o w
      BY <2>2
    <3>2. Run(s, u) = Run(r, w)
      BY <1>1, <3>1, RunJoined
    <3>3. MayEnd(Run(r, w), M)
      BY DEF Passes
    <3> QED
      BY <3>2, <3>3
  <2> QED
    BY <1>1, <2>1, <2>2, CutJoined
<1> QED
  BY <1>1, <1>2, <1>3, <1>4, Zenon DEF Passes

\* One token that is not a word.
LEMMA PassToken ==
  ASSUME NEW s \in Scanners, NEW c \in TextTokens, NEW M, c \notin Words,
         MayEnd(s, M), MayEnd(Scanned(s, c), M)
  PROVE  Passes(s, <<c>>, Scanned(s, c), M)
<1>1. Scanned(s, c) \in Scanners
  BY ScannedType
<1>2. Run(s, <<>>) = s /\ Run(s, <<c>>) = Scanned(s, c)
  BY RunToken
<1>3. <<c>> \in Seq(TextTokens)
  OBVIOUS
<1>4. ASSUME NEW u \in Cuts(<<c>>)
      PROVE  MayEnd(Run(s, u), M)
  <2>1. u = <<>> \/ u = <<c>>
    BY CutToken
  <2>2. CASE u = <<>>
    BY <1>2, <2>2, Zenon
  <2>3. CASE u = <<c>>
    BY <1>2, <2>3, Zenon
  <2> QED
    BY <2>1, <2>2, <2>3
<1> QED
  BY <1>1, <1>2, <1>3, <1>4, Zenon DEF Passes

\* A text of tokens that keep the scanner in W leads from W to W.
LEMMA RunInside ==
  ASSUME NEW X \in SUBSET TextTokens, NEW text \in Seq(X), NEW W \in SUBSET Scanners, NEW s \in W,
         \A w \in W, c \in X : Scanned(w, c) \in W
  PROVE  Run(s, text) \in W
<1> DEFINE n == Len(text)
<1>1. n \in Nat /\ text \in Seq(TextTokens) /\ \A k \in 1..n : text[k] \in X
  OBVIOUS
<1>2. PICK P : RunStates(P, s, text)
  BY <1>1, RunSteps
<1>3. P[0] = s /\ P[n] = Run(s, text) /\ \A k \in 1..n : P[k] = Scanned(P[k - 1], text[k])
  BY <1>2 DEF RunStates
<1> HIDE DEF n
<1> DEFINE S == {k \in 0..n : P[k] \in W}
<1>4. 0 \in S
  BY <1>1, <1>3
<1>5. ASSUME NEW k \in 0..(n - 1), k \in S
      PROVE  k + 1 \in S
  <2>1. k + 1 \in 1..n /\ (k + 1) - 1 = k /\ k + 1 \in 0..n
    BY <1>1
  <2>2. P[k + 1] = Scanned(P[k], text[k + 1]) /\ text[k + 1] \in X
    BY <1>1, <1>3, <2>1
  <2> QED
    BY <1>5, <2>1, <2>2
<1>6. n \in 0..n
  BY <1>1
<1> HIDE DEF S
<1>7. 0..n \subseteq S
  BY <1>1, <1>4, <1>5, IntervalInduction
<1> QED
  BY <1>3, <1>6, <1>7 DEF S

\* No token is taken for another.
LEMMA TokensApart ==
  /\ \A c \in {Space, Quote, LeftBrace, RightBrace, Colon, MemberComma, "t"} :
       c \notin NumberChars /\ c \notin Words
  /\ \A c \in Words : c \notin NumberChars
  /\ \A c \in {Space, Quote, LeftBrace, RightBrace, Colon, MemberComma} : c # "t"
  /\ Quote \notin {Space, LeftBrace, RightBrace, Colon, MemberComma}
  /\ Space \notin {LeftBrace, RightBrace, Colon, MemberComma}
  /\ RightBrace # MemberComma
BY Zenon DEF Space, Quote, LeftBrace, RightBrace, Colon, MemberComma, Words, NumberChars,
             NumberStarts, JsonDigits, Signs

\* All of these are tokens of a text.
LEMMA TokensOfTexts ==
  /\ Words \subseteq TextTokens /\ NumberChars \subseteq TextTokens
  /\ NumberStarts \subseteq NumberChars /\ "t" \in TextTokens
  /\ STRING \subseteq TextTokens
  /\ {Quote, Space, LeftBrace, RightBrace, MemberComma, Colon} \subseteq TextTokens
BY Zenon DEF TextTokens, NumberChars

\* The tokens that do not end a key, a string or a number.
Collecting(at, X) ==
  /\ at \in {"key", "string", "number"} /\ X \subseteq TextTokens
  /\ IF at = "number" THEN X \subseteq NumberChars ELSE Quote \notin X

\* A text in quotes, and a number, is collected token by token.
LEMMA Collected ==
  ASSUME NEW at, NEW X, Collecting(at, X),
         NEW t \in Seq(TextTokens), NEW k \in Seq(TextTokens), NEW v \in SUBSET StoredPairs,
         NEW u \in Seq(X)
  PROVE  Run(Scanner(at, t, k, v), u) = Scanner(at, t \o u, k, v)
<1> DEFINE n == Len(u)
           s == Scanner(at, t, k, v)
           At(j) == Scanner(at, t \o SubSeq(u, 1, j), k, v)
<1> USE DEF Collecting
<1>1. n \in Nat /\ u \in Seq(TextTokens) /\ \A j \in 1..n : u[j] \in X /\ u[j] \in TextTokens
  OBVIOUS
<1>2. s \in Scanners
  <2>1. at \in ScannerPlaces
    BY DEF ScannerPlaces
  <2> QED
    BY <2>1, ScannerFields, Zenon
<1>3. PICK P : RunStates(P, s, u)
  BY <1>1, <1>2, RunSteps
<1>4. P[0] = s /\ P[n] = Run(s, u) /\ \A j \in 1..n : P[j] = Scanned(P[j - 1], u[j])
  BY <1>3 DEF RunStates
<1>5. ASSUME NEW j \in 0..n
      PROVE  /\ SubSeq(u, 1, j) \in Seq(TextTokens) /\ t \o SubSeq(u, 1, j) \in Seq(TextTokens)
             /\ j < n => t \o SubSeq(u, 1, j + 1) = Append(t \o SubSeq(u, 1, j), u[j + 1])
  <2>1. SubSeq(u, 1, j) \in Seq(TextTokens)
    BY <1>1, Cutting
  <2>2. ASSUME j < n
        PROVE  SubSeq(u, 1, j + 1) = Append(SubSeq(u, 1, j), u[j + 1])
    <3> DEFINE a == SubSeq(u, 1, j + 1)
               b == SubSeq(u, 1, j)
               c == Append(b, u[j + 1])
    <3>0. j \in 0..Len(u) /\ j + 1 \in 0..Len(u) /\ j + 1 \in 1..n
      BY <1>1, <2>2
    <3>1. /\ a \in Seq(TextTokens) /\ Len(a) = j + 1 /\ \A i \in 1..(j + 1) : a[i] = u[i]
          /\ b \in Seq(TextTokens) /\ Len(b) = j /\ \A i \in 1..j : b[i] = u[i]
      BY <1>1, <3>0, Cutting
    <3> HIDE DEF a, b
    <3>2. c \in Seq(TextTokens) /\ Grown(c, b, u[j + 1])
      BY <1>1, <3>0, <3>1, Appending
    <3> HIDE DEF c
    <3> HIDE DEF n
    <3>3. Len(a) = Len(c) /\ \A i \in 1..Len(a) : a[i] = c[i]
      <4>1. Len(c) = j + 1 /\ c[j + 1] = u[j + 1] /\ \A i \in 1..j : c[i] = b[i]
        BY <3>1, <3>2 DEF Grown
      <4>2. \A i \in 1..(j + 1) : i \in 1..j \/ i = j + 1
        BY <1>1
      <4>3. j + 1 \in 1..(j + 1)
        BY <1>1
      <4>4. \A i \in 1..(j + 1) : a[i] = c[i]
        BY <3>1, <4>1, <4>2, <4>3
      <4> QED
        BY <3>1, <4>1, <4>4
    <3>4. a = c
      BY <3>1, <3>2, <3>3, SeqsEqual, Zenon
    <3> QED
      BY <3>4 DEF a, c, b
  <2>3. t \o SubSeq(u, 1, j) \in Seq(TextTokens)
    BY <2>1
  <2>4. ASSUME j < n
        PROVE  t \o Append(SubSeq(u, 1, j), u[j + 1]) = Append(t \o SubSeq(u, 1, j), u[j + 1])
    <3> DEFINE b == SubSeq(u, 1, j)
               c == u[j + 1]
    <3>1. b \in Seq(TextTokens) /\ c \in TextTokens
      BY <1>1, <2>1, <2>4
    <3> HIDE DEF b, c
    <3> DEFINE x == <<c>>
    <3>2. x \in Seq(TextTokens) /\ t \o b \in Seq(TextTokens)
      BY <3>1
    <3>3. \A q \in Seq(TextTokens) : Append(q, c) = q \o x
      BY <3>1
    <3> HIDE DEF x
    <3>4. (t \o b) \o x = t \o (b \o x)
      BY <3>1, <3>2, Associative, SMTT(40)
    <3>5. t \o Append(b, c) = Append(t \o b, c)
      BY <3>1, <3>2, <3>3, <3>4, Zenon
    <3> QED
      BY <3>5 DEF b, c
  <2> QED
    BY <2>1, <2>2, <2>3, <2>4
<1>6. ASSUME NEW w \in Seq(TextTokens), NEW c \in X
      PROVE  Scanned(Scanner(at, w, k, v), c) = Scanner(at, Append(w, c), k, v)
  <2> DEFINE r == Scanner(at, w, k, v)
  <2>1. r.at = at
    BY ScannerFields
  <2>2. Extend(r, c) = Scanner(at, Append(w, c), k, v)
    BY ScannerChanges
  <2> HIDE DEF r
  <2>3. Scanned(r, c) = Extend(r, c)
    <3>1. CASE at = "number"
      BY <2>1, <3>1, ScannedAt
    <3>2. CASE at = "key"
      BY <2>1, <3>2, ScannedAt
    <3>3. CASE at = "string"
      BY <2>1, <3>3, ScannedAt
    <3> QED
      BY <3>1, <3>2, <3>3
  <2> QED
    BY <2>2, <2>3 DEF r
<1> HIDE DEF n, s
<1> DEFINE S == {j \in 0..n : P[j] = At(j)}
<1>7. 0 \in S
  <2>1. SubSeq(u, 1, 0) = <<>>
    <3>1. 0 \in 0..Len(u)
      BY <1>1 DEF n
    <3>2. SubSeq(u, 1, 0) \in Seq(X) /\ Len(SubSeq(u, 1, 0)) = 0
      BY <3>1, Cutting
    <3> QED
      BY <3>2
  <2>2. t \o <<>> = t
    OBVIOUS
  <2>3. At(0) = s
    BY <2>1, <2>2, Zenon DEF s
  <2>4. 0 \in 0..n
    BY <1>1
  <2> HIDE DEF At
  <2> QED
    BY <1>4, <2>3, <2>4
<1>8. ASSUME NEW j \in 0..(n - 1), j \in S
      PROVE  j + 1 \in S
  <2>1. j + 1 \in 1..n /\ (j + 1) - 1 = j /\ j + 1 \in 0..n /\ j \in 0..n /\ j < n
    BY <1>1
  <2>2. P[j + 1] = Scanned(P[j], u[j + 1]) /\ u[j + 1] \in X
    BY <1>1, <1>4, <2>1
  <2>3. P[j] = At(j)
    BY <1>8
  <2>4. Scanned(At(j), u[j + 1]) = At(j + 1)
    <3> DEFINE w == t \o SubSeq(u, 1, j)
    <3>1. w \in Seq(TextTokens) /\ t \o SubSeq(u, 1, j + 1) = Append(w, u[j + 1])
      BY <1>5, <2>1
    <3>2. At(j) = Scanner(at, w, k, v) /\ At(j + 1) = Scanner(at, Append(w, u[j + 1]), k, v)
      BY <3>1, Zenon
    <3> HIDE DEF w, At
    <3> QED
      BY <1>6, <2>2, <3>1, <3>2
  <2> HIDE DEF At
  <2> QED
    BY <2>1, <2>2, <2>3, <2>4
<1>9. n \in S
  <2> HIDE DEF S
  <2>1. 0..n \subseteq S
    BY <1>1, <1>7, <1>8, IntervalInduction
  <2> QED
    BY <1>1, <2>1
<1>10. SubSeq(u, 1, n) = u
  <2>1. n \in 0..Len(u) /\ n = Len(u)
    BY <1>1 DEF n
  <2>2. SubSeq(u, 1, n) \in Seq(X) /\ Len(SubSeq(u, 1, n)) = Len(u) /\ \A i \in 1..n : SubSeq(u, 1, n)[i] = u[i]
    BY <2>1, Cutting
  <2> QED
    BY <2>1, <2>2, SeqsEqual
<1>11. P[n] = Scanner(at, t \o u, k, v)
  BY <1>9, <1>10
<1> QED
  BY <1>4, <1>11 DEF s

\* Where a text may end: the scanner is not in a number, and what it has is of M.
LEMMA MayEndHere ==
  ASSUME NEW s, NEW M, s.at # "number", s.at \in {"member", "sep", "end"} => OfMembers(s.kv, M)
  PROVE  MayEnd(s, M) /\ Final(s) = s
<1>1. Final(s) = s
  BY DEF Final
<1>2. ASSUME NEW p, NEW m \in M, m.key = p.key, m.value = p.value
      PROVE  SetBy(p, M)
  BY <1>2, Zenon DEF SetBy
<1>3. OfMembers(s.kv, M) => \A p \in s.kv : SetBy(p, M)
  BY <1>2, Zenon DEF OfMembers
<1> QED
  BY <1>1, <1>3, Zenon DEF MayEnd

\* Behind a value, which has been read when the next token comes or the text ends.
Closed(s, v) == s \in Scanners /\ Final(s).at = "sep" /\ Final(s).kv = v

\* In front of a member.
Open(s, v) == s \in Scanners /\ s.at \in {"member", "spaces"} /\ s.kv = v

\* Behind a value the text may end, and the next token follows the value.
LEMMA ClosedToken ==
  ASSUME NEW s, NEW v, Closed(s, v)
  PROVE  /\ Final(s) \in Scanners
         /\ \A c : c \notin NumberChars => Scanned(s, c) = Separator(Final(s), c)
         /\ \A M : OfMembers(v, M) => MayEnd(s, M)
<1>1. s \in Scanners /\ Final(s).at = "sep" /\ Final(s).kv = v
  BY DEF Closed
<1>2. Final(s) \in Scanners
  <2>1. CASE s.at # "number"
    BY <1>1, <2>1 DEF Final
  <2>2. CASE s.at = "number"
    <3>1. Numeral(s.text) \in Seq(TextTokens) /\ s.text \in Seq(TextTokens)
      BY <1>1, ScannerFields, NumeralType
    <3>2. WithText(s, Numeral(s.text)) \in Scanners
      BY <1>1, <3>1, ChangesType
    <3>3. Store(WithText(s, Numeral(s.text)), "number") \in Scanners
      BY <3>2, ChangesType DEF ValueTypes
    <3>4. Goto(s, "throw") \in Scanners
      BY <1>1, ChangesType DEF ScannerPlaces
    <3>5. NumberEnd(s) \in Scanners
      BY <3>3, <3>4, Zenon DEF NumberEnd, WithText
    <3>6. Final(s) = NumberEnd(s)
      BY <2>2, Zenon DEF Final
    <3> QED
      BY <3>5, <3>6
  <2> QED
    BY <2>1, <2>2
<1>3. ASSUME NEW c, c \notin NumberChars
      PROVE  Scanned(s, c) = Separator(Final(s), c)
  <2>1. CASE s.at = "number"
    <3>1. Final(s) = NumberEnd(s)
      BY <2>1, Zenon DEF Final
    <3> QED
      BY <1>1, <1>3, <2>1, <3>1, ScannedAt
  <2>2. CASE s.at # "number"
    <3>1. Final(s) = s
      BY <2>2, Zenon DEF Final
    <3> QED
      BY <1>1, <3>1, ScannedAt
  <2> QED
    BY <2>1, <2>2
<1>4. ASSUME NEW M, OfMembers(v, M)
      PROVE  MayEnd(s, M)
  <2>1. ASSUME NEW p, NEW m \in M, m.key = p.key, m.value = p.value
        PROVE  SetBy(p, M)
    BY <2>1, Zenon DEF SetBy
  <2>2. \A p \in v : SetBy(p, M)
    BY <1>4, <2>1, Zenon DEF OfMembers
  <2> QED
    BY <1>1, <2>2, Zenon DEF MayEnd
<1> QED
  BY <1>2, <1>3, <1>4

\* Tokens that are not words, or the part of a word that is left of one, keep the
\* scanner in W wherever the text ends.
LEMMA PassText ==
  ASSUME NEW X \in SUBSET TextTokens, NEW text \in Seq(X), NEW W \in SUBSET Scanners, NEW s \in W,
         NEW M, X \cap Words = {} \/ "t" \in X,
         \A w \in W : MayEnd(w, M) /\ \A c \in X : Scanned(w, c) \in W
  PROVE  Passes(s, text, Run(s, text), M)
<1>1. \A t \in Seq(X) : Run(s, t) \in W
  BY RunInside
<1>2. text \in Seq(TextTokens)
  OBVIOUS
<1>3. ASSUME NEW u \in Cuts(text)
      PROVE  MayEnd(Run(s, u), M)
  <2>1. u \in Seq(X) \/ \E k \in 1..Len(text) : text[k] \in Words /\ u \in Seq(X \cup {"t"})
    BY CutWithin
  <2>2. \A k \in 1..Len(text) : text[k] \in X
    OBVIOUS
  <2>3. "t" \in X => X \cup {"t"} = X
    OBVIOUS
  <2>4. u \in Seq(X)
    BY <2>1, <2>2, <2>3
  <2> QED
    BY <1>1, <2>4
<1>4. s \in Scanners /\ Run(s, text) \in Scanners
  BY <1>1
<1> QED
  BY <1>1, <1>2, <1>3, <1>4, Zenon DEF Passes

\* Spacing in front of the brace, the colon and a value changes nothing.
LEMMA GapStays ==
  ASSUME NEW s \in Scanners, s.at \in {"begin", "colon", "value"}, NEW gap \in Seq({Space}), NEW M
  PROVE  Passes(s, gap, s, M)
<1> DEFINE W == {s}
           X == {Space}
<1>1. X \in SUBSET TextTokens /\ X \cap Words = {}
  BY TokensApart, TokensOfTexts
<1>2. Scanned(s, Space) = s
  <2>1. s.at = "value" => Scanned(s, Space) = ValueStart(s, Space)
    BY ScannedAt
  <2>2. ValueStart(s, Space) = s
    <3>1. Space # Quote /\ Space \notin NumberStarts /\ Space \notin Words
      BY TokensApart, TokensOfTexts
    <3> QED
      BY <3>1, Zenon DEF ValueStart
  <2>3. s.at \in {"begin", "colon"} => Scanned(s, Space) = s
    BY ScannedAt
  <2> QED
    BY <2>1, <2>2, <2>3
<1>3. MayEnd(s, M)
  BY MayEndHere
<1>4. \A w \in W : MayEnd(w, M) /\ \A c \in X : Scanned(w, c) \in W
  BY <1>2, <1>3
<1>5. W \in SUBSET Scanners /\ s \in W /\ gap \in Seq(X)
  OBVIOUS
<1> HIDE DEF W, X
<1>6. Passes(s, gap, Run(s, gap), M)
  BY <1>1, <1>4, <1>5, PassText
<1>7. Run(s, gap) \in W
  BY <1>1, <1>4, <1>5, RunInside
<1> QED
  BY <1>6, <1>7 DEF W

\* Spacing in front of a member keeps what has been read.
LEMMA GapOpen ==
  ASSUME NEW s, NEW v, Open(s, v), NEW gap \in Seq({Space}), NEW M, OfMembers(v, M)
  PROVE  \E r : Passes(s, gap, r, M) /\ Open(r, v)
<1> DEFINE W == {w \in Scanners : Open(w, v)}
           X == {Space}
<1>1. X \in SUBSET TextTokens /\ X \cap Words = {}
  BY TokensApart, TokensOfTexts
<1>2. ASSUME NEW w \in W
      PROVE  MayEnd(w, M) /\ Scanned(w, Space) \in W
  <2>1. w \in Scanners /\ w.at \in {"member", "spaces"} /\ w.kv = v
    BY DEF Open
  <2>2. MayEnd(w, M)
    BY <2>1, MayEndHere
  <2>3. Scanned(w, Space) = Goto(w, "spaces")
    <3>1. Space # RightBrace /\ Space # Quote
      BY TokensApart
    <3>2. Member(w, Space) = Goto(w, "spaces")
      BY <3>1, Zenon DEF Member
    <3> QED
      BY <2>1, <3>2, ScannedAt
  <2>4. Goto(w, "spaces") = Scanner("spaces", w.text, w.key, w.kv)
    <3>1. w = Scanner(w.at, w.text, w.key, w.kv)
      BY <2>1, ScannerFields
    <3> QED
      BY <3>1, ScannerChanges
  <2>5. Goto(w, "spaces") \in Scanners
    BY <2>1, ChangesType DEF ScannerPlaces
  <2>6. Goto(w, "spaces").at = "spaces" /\ Goto(w, "spaces").kv = v
    BY <2>1, <2>4, ScannerFields
  <2> QED
    BY <2>2, <2>3, <2>5, <2>6 DEF Open
<1>3. \A w \in W : MayEnd(w, M) /\ \A c \in X : Scanned(w, c) \in W
  BY <1>2
<1>4. W \in SUBSET Scanners /\ s \in W /\ gap \in Seq(X)
  BY DEF Open
<1> HIDE DEF W, X
<1>5. Passes(s, gap, Run(s, gap), M)
  BY <1>1, <1>3, <1>4, PassText
<1>6. Run(s, gap) \in W
  BY <1>1, <1>3, <1>4, RunInside
<1> QED
  BY <1>5, <1>6 DEF W

\* And spacing behind a value.
LEMMA GapClosed ==
  ASSUME NEW s, NEW v, Closed(s, v), NEW gap \in Seq({Space}), NEW M, OfMembers(v, M)
  PROVE  \E r : Passes(s, gap, r, M) /\ Closed(r, v)
<1> DEFINE W == {w \in Scanners : Closed(w, v)}
           X == {Space}
<1>1. X \in SUBSET TextTokens /\ X \cap Words = {} /\ Space \notin NumberChars
  BY TokensApart, TokensOfTexts
<1>2. ASSUME NEW w \in W
      PROVE  MayEnd(w, M) /\ Scanned(w, Space) \in W
  <2>1. /\ Final(w) \in Scanners /\ Scanned(w, Space) = Separator(Final(w), Space)
        /\ MayEnd(w, M) /\ Final(w).at = "sep" /\ Final(w).kv = v
    BY <1>1, ClosedToken DEF Closed
  <2>2. Separator(Final(w), Space) = Final(w)
    <3>1. Space # MemberComma
      BY TokensApart
    <3> QED
      BY <3>1, Zenon DEF Separator
  <2> DEFINE f == Final(w)
  <2>3. f \in Scanners /\ f.at = "sep" /\ f.kv = v
    BY <2>1
  <2> HIDE DEF f
  <2>4. Final(f) = f
    BY <2>3 DEF Final
  <2>5. Closed(f, v)
    BY <2>3, <2>4 DEF Closed
  <2> QED
    BY <2>1, <2>2, <2>5 DEF f, Closed
<1>3. \A w \in W : MayEnd(w, M) /\ \A c \in X : Scanned(w, c) \in W
  BY <1>2
<1>4. W \in SUBSET Scanners /\ s \in W /\ gap \in Seq(X)
  BY DEF Closed
<1> HIDE DEF W, X
<1>5. Passes(s, gap, Run(s, gap), M)
  BY <1>1, <1>3, <1>4, PassText
<1>6. Run(s, gap) \in W
  BY <1>1, <1>3, <1>4, RunInside
<1> QED
  BY <1>5, <1>6 DEF W

\* A configuration starts with its brace.
LEMMA StartPasses ==
  ASSUME NEW gap \in Seq({Space}), NEW M
  PROVE  \E r : Passes(Begin, gap \o <<LeftBrace>> \o gap, r, M) /\ Open(r, {})
<1> DEFINE r == Scanner("member", <<>>, <<>>, {})
<1>1. Begin = Scanner("begin", <<>>, <<>>, {}) /\ Begin \in Scanners /\ r \in Scanners
  <2>1. Begin = Scanner("begin", <<>>, <<>>, {})
    BY Zenon DEF Begin, Scanner
  <2>2. <<>> \in Seq(TextTokens) /\ {} \in SUBSET StoredPairs
        /\ "begin" \in ScannerPlaces /\ "member" \in ScannerPlaces
    BY DEF ScannerPlaces
  <2> QED
    BY <2>1, <2>2, ScannerFields, Zenon
<1>2. Begin.at = "begin"
  BY <1>1, ScannerFields
<1>3. Passes(Begin, gap, Begin, M)
  BY <1>1, <1>2, GapStays
<1>4. Scanned(Begin, LeftBrace) = r
  <2>1. Space # LeftBrace
    BY TokensApart
  <2>2. Goto(Begin, "member") = r
    BY <1>1, ScannerChanges
  <2> QED
    BY <1>2, <2>1, <2>2, ScannedAt
<1>5. r.at = "member" /\ r.kv = {}
  BY ScannerFields
<1> HIDE DEF r
<1>6. MayEnd(Begin, M) /\ MayEnd(r, M) /\ OfMembers({}, M)
  <2>1. OfMembers({}, M)
    BY DEF OfMembers
  <2> QED
    BY <1>2, <1>5, <2>1, MayEndHere
<1>7. Passes(Begin, <<LeftBrace>>, r, M)
  <2>1. LeftBrace \in TextTokens /\ LeftBrace \notin Words
    BY TokensOfTexts, TokensApart
  <2> QED
    BY <1>1, <1>4, <1>6, <2>1, PassToken
<1>8. Open(r, {})
  BY <1>1, <1>5 DEF Open
<1>9. PICK q : Passes(r, gap, q, M) /\ Open(q, {})
  BY <1>6, <1>8, GapOpen
<1>10. Passes(Begin, gap \o <<LeftBrace>>, r, M)
  BY <1>3, <1>7, PassJoined
<1>11. Passes(Begin, gap \o <<LeftBrace>> \o gap, q, M)
  BY <1>9, <1>10, PassJoined
<1> QED
  BY <1>9, <1>11

\* A comma leads from behind a value to the next member.
LEMMA CommaPasses ==
  ASSUME NEW s, NEW v, Closed(s, v), NEW gap \in Seq({Space}), NEW M, OfMembers(v, M)
  PROVE  \E r : Passes(s, <<MemberComma>> \o gap, r, M) /\ Open(r, v)
<1> DEFINE f == Final(s)
           r == Goto(f, "member")
<1>1. s \in Scanners /\ f \in Scanners /\ f.at = "sep" /\ f.kv = v /\ MayEnd(s, M)
      /\ Scanned(s, MemberComma) = Separator(f, MemberComma)
  <2>1. MemberComma \notin NumberChars
    BY TokensApart
  <2> QED
    BY <2>1, ClosedToken DEF Closed
<1> HIDE DEF f
<1>2. Separator(f, MemberComma) = r
  <2>1. MemberComma # Space
    BY TokensApart
  <2> QED
    BY <2>1, Zenon DEF Separator
<1>3. r \in Scanners /\ r.at = "member" /\ r.kv = v
  <2>1. r \in Scanners
    BY <1>1, ChangesType DEF ScannerPlaces
  <2>2. f = Scanner(f.at, f.text, f.key, f.kv)
    BY <1>1, ScannerFields
  <2>3. r = Scanner("member", f.text, f.key, f.kv)
    BY <2>2, ScannerChanges
  <2> QED
    BY <1>1, <2>1, <2>3, ScannerFields
<1> HIDE DEF r
<1>4. MayEnd(r, M)
  BY <1>3, MayEndHere
<1>5. Passes(s, <<MemberComma>>, r, M)
  <2>1. MemberComma \in TextTokens /\ MemberComma \notin Words
    BY TokensOfTexts, TokensApart
  <2> QED
    BY <1>1, <1>2, <1>4, <2>1, PassToken
<1>6. Open(r, v)
  BY <1>3 DEF Open
<1>7. PICK q : Passes(r, gap, q, M) /\ Open(q, v)
  BY <1>6, GapOpen
<1> QED
  BY <1>5, <1>7, PassJoined

\* The brace at the end keeps what has been read.
LEMMA BracePasses ==
  ASSUME NEW s, NEW v, Open(s, v) \/ Closed(s, v), NEW M, OfMembers(v, M)
  PROVE  \E r : Passes(s, <<RightBrace>>, r, M) /\ Final(r).at = "end" /\ Final(r).kv = v
<1>1. PICK f \in Scanners : f.kv = v /\ Scanned(s, RightBrace) = Goto(f, "end")
  <2>1. RightBrace # MemberComma /\ RightBrace # Space /\ RightBrace # Quote
        /\ RightBrace \notin NumberChars
    BY TokensApart
  <2>2. \A f : Member(f, RightBrace) = Goto(f, "end") /\ Separator(f, RightBrace) = Goto(f, "end")
    <3>1. \A f : Member(f, RightBrace) = Goto(f, "end")
      BY <2>1, Zenon DEF Member
    <3>2. \A f : Separator(f, RightBrace) = Member(f, RightBrace)
      BY <2>1, Zenon DEF Separator
    <3> QED
      BY <3>1, <3>2
  <2>3. CASE Open(s, v)
    BY <2>2, <2>3, ScannedAt DEF Open
  <2>4. CASE Closed(s, v)
    BY <2>1, <2>2, <2>4, ClosedToken DEF Closed
  <2> QED
    BY <2>3, <2>4
<1> DEFINE r == Goto(f, "end")
<1>2. s \in Scanners /\ MayEnd(s, M)
  <2>1. CASE Open(s, v)
    BY <2>1, MayEndHere DEF Open
  <2>2. CASE Closed(s, v)
    BY <2>2, ClosedToken DEF Closed
  <2> QED
    BY <2>1, <2>2
<1>3. r \in Scanners /\ r.at = "end" /\ r.kv = v
  <2>1. r \in Scanners
    BY <1>1, ChangesType DEF ScannerPlaces
  <2>2. f = Scanner(f.at, f.text, f.key, f.kv)
    BY <1>1, ScannerFields
  <2>3. r = Scanner("end", f.text, f.key, f.kv)
    BY <2>2, ScannerChanges
  <2> QED
    BY <1>1, <2>1, <2>3, ScannerFields
<1>4. Scanned(s, RightBrace) = r
  BY <1>1
<1> HIDE DEF r
<1>5. MayEnd(r, M) /\ Final(r) = r
  BY <1>3, MayEndHere
<1>6. Passes(s, <<RightBrace>>, r, M)
  <2>1. RightBrace \in TextTokens /\ RightBrace \notin Words
    BY TokensOfTexts, TokensApart
  <2> QED
    BY <1>2, <1>4, <1>5, <2>1, PassToken
<1> QED
  BY <1>3, <1>5, <1>6

\* What is stored for a member is the member.
LEMMA AssignOfMembers ==
  ASSUME NEW v, NEW M, OfMembers(v, M), NEW m \in M
  PROVE  OfMembers(Assign(v, m.key, m.value), M)
<1> SUFFICES ASSUME NEW p \in Assign(v, m.key, m.value)
             PROVE  \E n \in M : n.key = p.key /\ n.value = p.value
  BY DEF OfMembers
<1>1. p \in v \/ p = [key |-> m.key, value |-> m.value]
  BY DEF Assign
<1>2. p = [key |-> m.key, value |-> m.value] => p.key = m.key /\ p.value = m.value
  OBVIOUS
<1> QED
  BY <1>1, <1>2, Zenon DEF OfMembers

\* A number of which a part is read is read to its end.
LEMMA NumeralCut ==
  ASSUME NEW t \in Seq(NumberChars), Numeral(t) = t, NEW j \in 0..Len(t)
  PROVE  Numeral(SubSeq(t, 1, j)) = SubSeq(t, 1, j)
<1> DEFINE u == SubSeq(t, 1, j)
           Stops(x) == {i \in 2..Len(x) : \/ x[i] \in Signs
                                          \/ x[i] = "." /\ Contains(SubSeq(x, 1, i - 1), ".")}
<1>1. \A x : Numeral(x) = IF Stops(x) = {} THEN x ELSE SubSeq(x, 1, Min(Stops(x)) - 1)
  BY DEF Numeral
<1>2. u \in Seq(NumberChars) /\ Len(u) = j /\ \A i \in 1..j : u[i] = t[i]
  BY Cutting
<1> HIDE DEF u
<1>3. Stops(t) = {}
  <2> SUFFICES ASSUME Stops(t) # {} PROVE FALSE
    OBVIOUS
  <2> DEFINE l == Min(Stops(t))
  <2>1. l \in 2..Len(t)
    <3> DEFINE S == Stops(t)
    <3>1. S \in SUBSET (1..Len(t)) /\ S # {} /\ S \subseteq 2..Len(t) /\ Len(t) \in Nat
      OBVIOUS
    <3> HIDE DEF S
    <3>2. Min(S) \in S
      BY <3>1, LeastIn
    <3> QED
      BY <3>1, <3>2 DEF S
  <2>2. t = SubSeq(t, 1, l - 1)
    <3> HIDE DEF Stops
    <3> QED
      BY <1>1
  <2> HIDE DEF l
  <2>3. Len(SubSeq(t, 1, l - 1)) = l - 1 /\ l - 1 < Len(t)
    <3>1. l - 1 \in 0..Len(t) /\ l - 1 < Len(t)
      BY <2>1
    <3> QED
      BY <3>1, Cutting
  <2>4. Len(t) = l - 1
    BY <2>2, <2>3
  <2> QED
    BY <2>3, <2>4
<1>4. Stops(u) = {}
  <2> SUFFICES ASSUME NEW i \in Stops(u) PROVE i \in Stops(t)
    BY <1>3
  <2>1. i \in 2..j /\ i \in 2..Len(t) /\ i \in 1..j /\ i - 1 \in 0..Len(t) /\ i - 1 \in 0..Len(u)
    BY <1>2
  <2> DEFINE a == SubSeq(u, 1, i - 1)
             b == SubSeq(t, 1, i - 1)
  <2>2. /\ a \in Seq(NumberChars) /\ Len(a) = i - 1 /\ \A x \in 1..(i - 1) : a[x] = u[x]
        /\ b \in Seq(NumberChars) /\ Len(b) = i - 1 /\ \A x \in 1..(i - 1) : b[x] = t[x]
    BY <1>2, <2>1, Cutting
  <2> HIDE DEF a, b
  <2>3. a = b
    <3>1. \A x \in 1..(i - 1) : x \in 1..j
      BY <2>1
    <3> QED
      BY <1>2, <2>2, <3>1, SeqsEqual
  <2>4. u[i] \in Signs \/ (u[i] = "." /\ Contains(a, "."))
    BY DEF a
  <2>5. t[i] \in Signs \/ (t[i] = "." /\ Contains(b, "."))
    BY <1>2, <2>1, <2>3, <2>4
  <2> QED
    BY <2>1, <2>5 DEF b
<1> HIDE DEF Stops
<1> QED
  BY <1>1, <1>4 DEF u

\* What a member of a configuration is made of.
LEMMA MemberTypes ==
  ASSUME NEW m \in ConfigMembers
  PROVE  /\ m.key \in Seq(TextTokens \ {Quote}) /\ m.key \in Seq(TextTokens)
         /\ m.value.type \in ValueTypes /\ m.value.text \in Seq(TextTokens)
         /\ m.value = Value(m.value.type, m.value.text)
         /\ m.value.type = "string" => m.value.text \in Seq(TextTokens \ {Quote})
         /\ m.value.type = "number" => m.value.text \in NumberTexts
         /\ m.value.type = "bool" => \E w \in Words : m.value.text = <<w>>
<1>1. m.key \in QuotedTexts /\ m.value \in Values
  BY DEF ConfigMembers
<1>2. QuotedTexts \subseteq Seq(TextTokens \ {Quote})
  <2>1. STRING \ {Quote} \subseteq TextTokens \ {Quote}
    BY TokensOfTexts
  <2> QED
    BY <2>1 DEF QuotedTexts
<1>3. Seq(TextTokens \ {Quote}) \subseteq Seq(TextTokens)
  OBVIOUS
<1>4. NumberTexts \subseteq Seq(TextTokens)
  <2>1. NumberTexts \subseteq Seq(NumberChars)
    BY DEF NumberTexts
  <2>2. NumberChars \subseteq TextTokens
    BY TokensOfTexts
  <2> QED
    BY <2>1, <2>2
<1>5. \A w \in Words : <<w>> \in Seq(TextTokens)
  <2>1. \A w \in Words : w \in TextTokens
    BY TokensOfTexts
  <2> QED
    BY <2>1
<1>6. \/ m.value \in [type : {"string"}, text : QuotedTexts]
      \/ m.value \in [type : {"number"}, text : NumberTexts]
      \/ m.value \in [type : {"bool"}, text : {<<w>> : w \in Words}]
  BY <1>1 DEF Values
<1>7. CASE m.value \in [type : {"string"}, text : QuotedTexts]
  BY <1>1, <1>2, <1>3, <1>7 DEF Value, ValueTypes
<1>8. CASE m.value \in [type : {"number"}, text : NumberTexts]
  BY <1>1, <1>2, <1>3, <1>4, <1>8 DEF Value, ValueTypes
<1>9. CASE m.value \in [type : {"bool"}, text : {<<w>> : w \in Words}]
  BY <1>1, <1>2, <1>3, <1>5, <1>9 DEF Value, ValueTypes
<1> QED
  BY <1>6, <1>7, <1>8, <1>9

\* A text in quotes leads from its first quote to its last, and it cannot end there.
LEMMA QuotedPasses ==
  ASSUME NEW at \in {"key", "string"}, NEW t \in Seq(TextTokens \ {Quote}),
         NEW k \in Seq(TextTokens), NEW v \in SUBSET StoredPairs, NEW M
  PROVE  /\ Passes(Scanner(at, <<>>, k, v), t, Scanner(at, t, k, v), M)
         /\ Scanner(at, <<>>, k, v) \in Scanners
<1> DEFINE X == TextTokens \ {Quote}
           W == {w \in Scanners : w.at = at}
           s == Scanner(at, <<>>, k, v)
<1>1. X \in SUBSET TextTokens /\ "t" \in X /\ Quote \notin X
  BY TokensApart, TokensOfTexts
<1>2. s \in Scanners
  <2>1. at \in ScannerPlaces /\ <<>> \in Seq(TextTokens)
    BY DEF ScannerPlaces
  <2> QED
    BY <2>1, ScannerFields, Zenon
<1>3. s \in W
  BY <1>2, ScannerFields
<1>4. ASSUME NEW w \in W
      PROVE  MayEnd(w, M) /\ \A c \in X : Scanned(w, c) \in W
  <2>1. w \in Scanners /\ w.at = at
    OBVIOUS
  <2>2. MayEnd(w, M)
    BY <2>1, MayEndHere
  <2>3. ASSUME NEW c \in X
        PROVE  Scanned(w, c) \in W
    <3>1. c \in TextTokens /\ c # Quote
      OBVIOUS
    <3>2. Scanned(w, c) = Extend(w, c)
      <4>1. CASE at = "key"
        BY <2>1, <3>1, <4>1, ScannedAt
      <4>2. CASE at = "string"
        BY <2>1, <3>1, <4>2, ScannedAt
      <4> QED
        BY <4>1, <4>2
    <3>3. Extend(w, c) \in Scanners
      BY <2>1, <3>1, ChangesType
    <3>4. Extend(w, c).at = at
      <4>1. w = Scanner(w.at, w.text, w.key, w.kv)
        BY <2>1, ScannerFields
      <4>2. Extend(w, c) = Scanner(w.at, Append(w.text, c), w.key, w.kv)
        BY <4>1, ScannerChanges
      <4> QED
        BY <2>1, <4>2, ScannerFields
    <3> QED
      BY <3>2, <3>3, <3>4
  <2> QED
    BY <2>2, <2>3
<1>5. W \in SUBSET Scanners /\ t \in Seq(X)
  OBVIOUS
<1>6. Run(s, t) = Scanner(at, t, k, v)
  <2>1. Run(s, t) = Scanner(at, <<>> \o t, k, v)
    <3>1. <<>> \in Seq(TextTokens) /\ at \in {"key", "string", "number"} /\ at # "number"
      OBVIOUS
    <3>2. Collecting(at, X)
      BY <1>1, <3>1 DEF Collecting
    <3>3. t \in Seq(X) /\ k \in Seq(TextTokens) /\ v \in SUBSET StoredPairs
      BY <1>5
    <3> DEFINE e == <<>>
    <3>4. e \in Seq(TextTokens)
      BY <3>1
    <3> HIDE DEF X, e
    <3>5. Run(Scanner(at, e, k, v), t) = Scanner(at, e \o t, k, v)
      BY <3>2, <3>3, <3>4, Collected
    <3> QED
      BY <3>5 DEF e
  <2>2. <<>> \o t = t
    OBVIOUS
  <2> QED
    BY <2>1, <2>2
<1> HIDE DEF W, X, s
<1>7. Passes(s, t, Run(s, t), M)
  BY <1>1, <1>3, <1>4, <1>5, PassText
<1> QED
  BY <1>2, <1>6, <1>7 DEF s

\* A string is stored at its last quote.
LEMMA StringPasses ==
  ASSUME NEW m \in ConfigMembers, m.value.type = "string", NEW k \in Seq(TextTokens),
         NEW v \in SUBSET StoredPairs, NEW M, m \in M, OfMembers(v, M), k = m.key
  PROVE  \E r : /\ Passes(Scanner("value", k, k, v), Tokens(m.value), r, M)
                /\ Closed(r, Assign(v, k, m.value))
<1> DEFINE t == m.value.text
           w == Assign(v, k, m.value)
           s == Scanner("value", k, k, v)
           a == Scanner("string", <<>>, k, v)
           b == Scanner("string", t, k, v)
           r == Scanner("sep", t, k, w)
<1>1. t \in Seq(TextTokens \ {Quote}) /\ t \in Seq(TextTokens) /\ m.value = Value("string", t)
  BY MemberTypes
<1>2. Tokens(m.value) = <<Quote>> \o t \o <<Quote>>
  BY DEF Tokens
<1> HIDE DEF t
<1>3. Passes(a, t, b, M) /\ a \in Scanners
  BY <1>1, QuotedPasses
<1>4. s \in Scanners /\ s.at = "value" /\ Scanned(s, Quote) = a
  <2>1. s \in Scanners
    <3>1. "value" \in ScannerPlaces
      BY DEF ScannerPlaces
    <3> QED
      BY <3>1, ScannerFields, Zenon
  <2>2. s.at = "value"
    BY ScannerFields
  <2>3. Quote # Space
    BY TokensApart
  <2>4. Collect(s, "string") = a
    BY ScannerChanges
  <2> HIDE DEF s, a
  <2>5. ValueStart(s, Quote) = Collect(s, "string")
    <3>1. Quote \notin NumberStarts /\ Quote \notin Words
      BY TokensApart, TokensOfTexts
    <3> QED
      BY <2>3, <3>1, Zenon DEF ValueStart
  <2> QED
    BY <2>1, <2>2, <2>4, <2>5, ScannedAt
<1>5. b \in Scanners /\ b.at = "string" /\ Scanned(b, Quote) = r
  <2>1. b \in Scanners
    BY <1>3 DEF Passes
  <2>2. b.at = "string"
    BY ScannerFields
  <2>3. Store(b, "string") = r
    BY <1>1, ScannerChanges
  <2> HIDE DEF b, r
  <2> QED
    BY <2>1, <2>2, <2>3, ScannedAt
<1>6. r.at = "sep" /\ r.kv = w
  BY ScannerFields
<1>7. OfMembers(w, M)
  BY AssignOfMembers
<1>8. r \in Scanners
  <2>1. Quote \in TextTokens
    BY TokensOfTexts
  <2> HIDE DEF r, b
  <2> QED
    BY <1>5, <2>1, ScannedType
<1> HIDE DEF s, a, b, r, w
<1>9. MayEnd(s, M) /\ MayEnd(b, M) /\ MayEnd(a, M) /\ MayEnd(r, M) /\ Final(r) = r
  <2>1. a.at = "string"
    BY ScannerFields DEF a
  <2> QED
    BY <1>4, <1>5, <1>6, <1>7, <2>1, MayEndHere
<1>10. Passes(s, <<Quote>>, a, M) /\ Passes(b, <<Quote>>, r, M)
  <2>1. Quote \in TextTokens /\ Quote \notin Words
    BY TokensOfTexts, TokensApart
  <2> QED
    BY <1>4, <1>5, <1>9, <2>1, PassToken
<1>11. Passes(s, <<Quote>> \o t, b, M)
  BY <1>3, <1>10, PassJoined
<1>12. Passes(s, <<Quote>> \o t \o <<Quote>>, r, M)
  BY <1>10, <1>11, PassJoined
<1>13. Closed(r, w)
  BY <1>6, <1>8, <1>9 DEF Closed
<1> QED
  BY <1>2, <1>12, <1>13 DEF s, w

\* A Boolean is stored when it is read, and a part of its word is refused.
LEMMA BoolPasses ==
  ASSUME NEW m \in ConfigMembers, m.value.type = "bool", NEW k \in Seq(TextTokens),
         NEW v \in SUBSET StoredPairs, NEW M, m \in M, OfMembers(v, M), k = m.key
  PROVE  \E r : /\ Passes(Scanner("value", k, k, v), Tokens(m.value), r, M)
                /\ Closed(r, Assign(v, k, m.value))
<1>1. PICK x \in Words : m.value.text = <<x>>
  BY MemberTypes
<1> DEFINE t == <<x>>
           w == Assign(v, k, m.value)
           s == Scanner("value", k, k, v)
           r == Scanner("sep", t, k, w)
           e == Goto(s, "fail")
<1>2. m.value = Value("bool", t) /\ Tokens(m.value) = t /\ x \in TextTokens /\ t \in Seq(TextTokens)
  <2>1. m.value = Value("bool", t)
    BY <1>1, MemberTypes
  <2>2. Tokens(m.value) = t
    BY <1>1 DEF Tokens
  <2>3. x \in TextTokens
    BY TokensOfTexts
  <2> QED
    BY <2>1, <2>2, <2>3
<1>3. s \in Scanners /\ s.at = "value"
  <2>1. "value" \in ScannerPlaces
    BY DEF ScannerPlaces
  <2> QED
    BY <2>1, ScannerFields
<1>4. Scanned(s, x) = r
  <2>1. x # Space /\ x # Quote /\ x \notin NumberStarts
    BY TokensApart, TokensOfTexts
  <2>2. WithText(s, t) = Scanner("value", t, k, v)
    BY ScannerChanges
  <2>3. Store(Scanner("value", t, k, v), "bool") = r
    BY <1>2, ScannerChanges
  <2> HIDE DEF s, r
  <2>4. ValueStart(s, x) = Store(WithText(s, t), "bool")
    BY <2>1, Zenon DEF ValueStart, WithText
  <2>5. Scanned(s, x) = ValueStart(s, x)
    BY <1>3, ScannedAt
  <2> QED
    BY <2>2, <2>3, <2>4, <2>5, Zenon
<1>5. Scanned(s, "t") = e
  <2>1. "t" # Space /\ "t" # Quote /\ "t" \notin NumberStarts /\ "t" \notin Words
    BY TokensApart, TokensOfTexts
  <2> HIDE DEF s
  <2>2. ValueStart(s, "t") = e
    BY <2>1, Zenon DEF ValueStart
  <2> QED
    BY <1>3, <2>2, ScannedAt
<1>6. r.at = "sep" /\ r.kv = w /\ e.at = "fail"
  <2>1. e = Scanner("fail", k, k, v)
    BY ScannerChanges
  <2> HIDE DEF e
  <2> QED
    BY <2>1, ScannerFields
<1> HIDE DEF s, r, e, w
<1>7. r \in Scanners
  BY <1>2, <1>3, <1>4, ScannedType
<1>8. MayEnd(s, M) /\ MayEnd(r, M) /\ MayEnd(e, M) /\ Final(r) = r
  <2>1. OfMembers(w, M)
    BY AssignOfMembers DEF w
  <2> QED
    BY <1>3, <1>6, <2>1, MayEndHere
<1>9. Run(s, <<>>) = s /\ Run(s, t) = r /\ Run(s, <<"t">>) = e
  <2>1. Run(s, <<>>) = s /\ Run(s, t) = Scanned(s, x)
    BY <1>2, <1>3, RunToken
  <2>2. "t" \in TextTokens
    BY TokensOfTexts
  <2>3. Run(s, <<"t">>) = Scanned(s, "t")
    BY <1>3, <2>2, RunToken
  <2> QED
    BY <1>4, <1>5, <2>1, <2>3
<1>10. ASSUME NEW u \in Cuts(t)
       PROVE  MayEnd(Run(s, u), M)
  <2>1. u = <<>> \/ u = t \/ u = <<"t">>
    BY <1>2, CutToken
  <2>2. CASE u = <<>>
    BY <1>8, <1>9, <2>2, Zenon
  <2>3. CASE u = t
    BY <1>8, <1>9, <2>3, Zenon
  <2>4. CASE u = <<"t">>
    BY <1>8, <1>9, <2>4, Zenon
  <2> QED
    BY <2>1, <2>2, <2>3, <2>4
<1>11. Passes(s, t, r, M)
  BY <1>2, <1>3, <1>7, <1>9, <1>10, Zenon DEF Passes
<1>12. Closed(r, w)
  BY <1>6, <1>7, <1>8 DEF Closed
<1> QED
  BY <1>2, <1>11, <1>12 DEF s, w

\* A part of a number is collected from its first character on.
LEMMA NumberRead ==
  ASSUME NEW u \in Seq(NumberChars), u # <<>>, u[1] \in NumberStarts,
         NEW k \in Seq(TextTokens), NEW v \in SUBSET StoredPairs
  PROVE  Run(Scanner("value", k, k, v), u) = Scanner("number", u, k, v)
<1> DEFINE c == u[1]
           a == <<c>>
           b == Tail(u)
           s == Scanner("value", k, k, v)
           r == Scanner("number", a, k, v)
<1>1. /\ a \in Seq(TextTokens) /\ b \in Seq(NumberChars) /\ b \in Seq(TextTokens) /\ u = a \o b
      /\ c \in TextTokens
  <2>1. NumberChars \subseteq TextTokens /\ c \in TextTokens
    BY TokensOfTexts
  <2>2. b \in Seq(NumberChars) /\ u = a \o b
    OBVIOUS
  <2>3. a \in Seq(TextTokens)
    BY <2>1
  <2>4. Seq(NumberChars) \subseteq Seq(TextTokens)
    BY <2>1
  <2> HIDE DEF a, b, c
  <2> QED
    BY <2>1, <2>2, <2>3, <2>4
<1>2. s \in Scanners /\ s.at = "value" /\ r.at = "number"
  <2>1. "value" \in ScannerPlaces
    BY DEF ScannerPlaces
  <2> QED
    BY <2>1, ScannerFields
<1>3. Scanned(s, c) = r
  <2>1. c # Space /\ c # Quote
    BY TokensApart, TokensOfTexts
  <2>2. c \notin Words
    BY TokensApart, TokensOfTexts
  <2> DEFINE e == <<>>
             q == Scanner("number", e, k, v)
  <2>3. Collect(s, "number") = q
    BY ScannerChanges
  <2>4. Append(e, c) = a
    OBVIOUS
  <2> HIDE DEF e, c, a
  <2>5. Extend(q, c) = Scanner("number", Append(e, c), k, v)
    BY ScannerChanges
  <2> HIDE DEF s, q
  <2>6. ValueStart(s, c) = Extend(Collect(s, "number"), c)
    <3>1. c \in NumberStarts
      BY DEF c
    <3> QED
      BY <2>1, <2>2, <3>1, Zenon DEF ValueStart
  <2>7. Scanned(s, c) = ValueStart(s, c)
    BY <1>2, ScannedAt
  <2> QED
    BY <2>3, <2>4, <2>5, <2>6, <2>7, Zenon
<1>4. Run(s, a) = r
  <2>1. Run(s, <<c>>) = Scanned(s, c)
    <3> HIDE DEF s, c
    <3> QED
      BY <1>1, <1>2, RunToken
  <2> QED
    BY <1>3, <2>1
<1>5. Run(r, b) = Scanner("number", a \o b, k, v)
  <2> DEFINE X == NumberChars
             at == "number"
  <2>1. Collecting(at, X)
    <3>1. NumberChars \subseteq TextTokens
      BY TokensOfTexts
    <3> QED
      BY <3>1 DEF Collecting
  <2>2. b \in Seq(X)
    BY <1>1
  <2> HIDE DEF X, at, a, b
  <2>3. Run(Scanner(at, a, k, v), b) = Scanner(at, a \o b, k, v)
    BY <1>1, <2>1, <2>2, Collected
  <2> QED
    BY <2>3 DEF at
<1>6. Run(s, a \o b) = Run(Run(s, a), b)
  <2> HIDE DEF s, a, b
  <2> QED
    BY <1>1, <1>2, RunJoined
<1> QED
  BY <1>1, <1>4, <1>5, <1>6, Zenon

\* At the end of a number it is stored, if std::stod finds a digit.
LEMMA NumberStored ==
  ASSUME NEW u \in Seq(TextTokens), Numeral(u) = u,
         NEW k \in Seq(TextTokens), NEW v \in SUBSET StoredPairs
  PROVE  LET s == Scanner("number", u, k, v)
             w == Assign(v, k, Value("number", u))
         IN  Final(s) = IF ToSet(u) \cap JsonDigits = {} THEN Goto(s, "throw")
                        ELSE Scanner("sep", u, k, w)
<1> DEFINE s == Scanner("number", u, k, v)
           w == Assign(v, k, Value("number", u))
<1>1. s.at = "number" /\ s.text = u
  BY ScannerFields
<1>2. WithText(s, u) = s
  BY ScannerChanges
<1>3. Store(s, "number") = Scanner("sep", u, k, w)
  BY ScannerChanges
<1> HIDE DEF s, w
<1>4. Final(s) = NumberEnd(s)
  BY <1>1, Zenon DEF Final
<1>5. NumberEnd(s) = IF ToSet(u) \cap JsonDigits = {} THEN Goto(s, "throw")
                     ELSE Store(WithText(s, u), "number")
  BY <1>1, Zenon DEF NumberEnd, WithText
<1> QED
  BY <1>2, <1>3, <1>4, <1>5, Zenon DEF s, w

\* A number is stored behind its end, and a part of it is one of the first digits.
LEMMA NumberPasses ==
  ASSUME NEW m \in ConfigMembers, m.value.type = "number", NEW k \in Seq(TextTokens),
         NEW v \in SUBSET StoredPairs, NEW M, m \in M, OfMembers(v, M), k = m.key
  PROVE  \E r : /\ Passes(Scanner("value", k, k, v), Tokens(m.value), r, M)
                /\ Closed(r, Assign(v, k, m.value))
<1> DEFINE t == m.value.text
           s == Scanner("value", k, k, v)
           r == Scanner("number", t, k, v)
<1>1. /\ t \in NumberTexts /\ m.value = Value("number", t) /\ Tokens(m.value) = t
  BY MemberTypes DEF Tokens
<1> HIDE DEF t
<1>2. /\ t \in Seq(NumberChars) /\ t # <<>> /\ t[1] \in NumberStarts /\ Numeral(t) = t
      /\ ToSet(t) \cap JsonDigits # {}
  BY <1>1 DEF NumberTexts
<1>3. Seq(NumberChars) \subseteq Seq(TextTokens) /\ "number" \in ScannerPlaces
      /\ "value" \in ScannerPlaces
  <2>1. NumberChars \subseteq TextTokens
    BY TokensOfTexts
  <2> QED
    BY <2>1 DEF ScannerPlaces
<1>4. s \in Scanners /\ r \in Scanners /\ s.at = "value" /\ MayEnd(s, M)
  <2>1. t \in Seq(TextTokens)
    BY <1>2, <1>3
  <2>2. s \in Scanners /\ r \in Scanners
    BY <1>3, <2>1, ScannerFields, Zenon
  <2>3. s.at = "value"
    BY ScannerFields
  <2> HIDE DEF s, r
  <2> QED
    BY <2>2, <2>3, MayEndHere
<1>5. Run(s, t) = r
  BY <1>2, NumberRead
<1>6. ASSUME NEW u \in Cuts(t)
      PROVE  MayEnd(Run(s, u), M)
  <2>1. u \in Seq(NumberChars) /\ Extends(t, u)
    <3>1. \A i \in 1..Len(t) : t[i] \notin Words
      <4>1. \A i \in 1..Len(t) : t[i] \in NumberChars
        BY <1>2
      <4> QED
        BY <4>1, TokensApart
    <3> QED
      BY <1>2, <3>1, CutWithin
  <2>2. CASE u = <<>>
    <3>1. Run(s, u) = s
      <4>1. Space \in TextTokens
        BY TokensOfTexts
      <4>2. Run(s, <<>>) = s
        <5> HIDE DEF s
        <5> QED
          BY <1>4, <4>1, RunToken
      <4> QED
        BY <2>2, <4>2
    <3> QED
      BY <1>4, <3>1
  <2>3. CASE u # <<>>
    <3> DEFINE e == Scanner("number", u, k, v)
               w == Assign(v, k, Value("number", u))
               q == Scanner("sep", u, k, w)
    <3>1. u[1] = t[1] /\ Len(u) \in 0..Len(t)
      <4>1. 1 \in 1..Len(u) /\ Len(u) \in Nat /\ Len(t) \in Nat
        BY <1>2, <2>1, <2>3
      <4> QED
        BY <2>1, <4>1 DEF Extends
    <3>2. u = SubSeq(t, 1, Len(u))
      <4> DEFINE a == SubSeq(t, 1, Len(u))
      <4>1. a \in Seq(NumberChars) /\ Len(a) = Len(u) /\ \A i \in 1..Len(u) : a[i] = t[i]
        BY <1>2, <3>1, Cutting
      <4> HIDE DEF a
      <4>2. a = u
        BY <2>1, <4>1, SeqsEqual DEF Extends
      <4> QED
        BY <4>2 DEF a
    <3>3. Numeral(u) = u
      BY <1>2, <3>1, <3>2, NumeralCut
    <3>4. Run(s, u) = e
      BY <1>2, <2>1, <2>3, <3>1, NumberRead
    <3>5. u \in Seq(TextTokens)
      BY <1>3, <2>1
    <3>6. Final(e) = Goto(e, "throw") \/ Final(e) = q
      BY <3>3, <3>5, NumberStored, Zenon
    <3>7. Goto(e, "throw").at = "throw"
      <4>1. Goto(e, "throw") = Scanner("throw", u, k, v)
        BY ScannerChanges
      <4> QED
        BY <4>1, ScannerFields
    <3>8. q.kv = w
      BY ScannerFields
    <3>9. IsPrefix(u, t)
      BY <1>2, <2>1, ExtendsPrefix
    <3>10. ASSUME NEW p \in w
           PROVE  SetBy(p, M)
      <4>1. CASE p \in v
        <5>1. PICK n \in M : n.key = p.key /\ n.value = p.value
          BY <4>1 DEF OfMembers
        <5> QED
          BY <5>1, Zenon DEF SetBy
      <4>2. CASE p \notin v
        <5> DEFINE x == Value("number", u)
        <5>1. x.type = "number" /\ x.text = u
          BY DEF Value
        <5> HIDE DEF x
        <5>2. p = [key |-> k, value |-> x]
          BY <4>2 DEF Assign, x
        <5>3. p.key = k /\ p.value = x
          BY <5>2
        <5>4. IsPrefix(p.value.text, m.value.text)
          BY <3>9, <5>1, <5>3, Zenon DEF t
        <5> QED
          BY <5>1, <5>3, <5>4, Zenon DEF SetBy
      <4> QED
        BY <4>1, <4>2
    <3> HIDE DEF e, q, w
    <3>11. MayEnd(e, M)
      <4>1. CASE Final(e) = q
        BY <3>8, <3>10, <4>1, Zenon DEF MayEnd
      <4>2. CASE Final(e) = Goto(e, "throw")
        <5>1. Final(e).at = "throw"
          BY <3>7, <4>2
        <5> QED
          BY <5>1 DEF MayEnd
      <4> QED
        BY <3>6, <4>1, <4>2
    <3> QED
      BY <3>4, <3>11
  <2> QED
    BY <2>2, <2>3
<1> DEFINE w == Assign(v, k, m.value)
<1>7. Final(r) = Scanner("sep", t, k, w)
  <2>1. t \in Seq(TextTokens)
    BY <1>2, <1>3
  <2> QED
    BY <1>1, <1>2, <2>1, NumberStored, Zenon
<1>8. Closed(r, w)
  <2> HIDE DEF w, r
  <2>1. Final(r).at = "sep" /\ Final(r).kv = w
    BY <1>7, ScannerFields
  <2> QED
    BY <1>4, <2>1 DEF Closed
<1>9. t \in Seq(TextTokens)
  BY <1>2, <1>3
<1> HIDE DEF s, r, w
<1>10. Passes(s, t, r, M)
  BY <1>4, <1>5, <1>6, <1>9, Zenon DEF Passes
<1> QED
  BY <1>1, <1>8, <1>10 DEF s, w

\* A member leads from in front of it to behind its value, and stores it.
LEMMA MemberPasses ==
  ASSUME NEW s, NEW v, Open(s, v), NEW gap \in Seq({Space}), NEW M, OfMembers(v, M),
         NEW m \in ConfigMembers, m \in M
  PROVE  \E r : Passes(s, MemberText(m, gap), r, M) /\ Closed(r, Assign(v, m.key, m.value))
<1> DEFINE k == m.key
           x == Tokens(m.value)
           w == Assign(v, m.key, m.value)
           a == Scanner("key", <<>>, s.key, v)
           b == Scanner("key", k, s.key, v)
           c == Scanner("colon", k, k, v)
           d == Scanner("value", k, k, v)
<1>1. s \in Scanners /\ s.at \in {"member", "spaces"} /\ s.kv = v
  BY DEF Open
<1>2. /\ k \in Seq(TextTokens \ {Quote}) /\ k \in Seq(TextTokens) /\ s.key \in Seq(TextTokens)
      /\ v \in SUBSET StoredPairs
  BY <1>1, MemberTypes, ScannerFields
<1> HIDE DEF k
<1>3. Quote \in TextTokens /\ Quote \notin Words /\ Colon \in TextTokens /\ Colon \notin Words
      /\ Quote \notin {Space, RightBrace} /\ Colon # Space
  BY TokensApart, TokensOfTexts
<1>4. Passes(a, k, b, M) /\ a \in Scanners /\ b \in Scanners
  <2>1. Passes(a, k, b, M) /\ a \in Scanners
    BY <1>2, QuotedPasses
  <2> HIDE DEF a, b
  <2> QED
    BY <2>1 DEF Passes
<1>5. Scanned(s, Quote) = a
  <2>1. Scanned(s, Quote) = Member(s, Quote)
    BY <1>1, ScannedAt
  <2>2. Member(s, Quote) = Collect(s, "key")
    <3> USE <1>3
    <3>1. Quote # Space /\ Quote # RightBrace
      OBVIOUS
    <3> QED
      BY <3>1, Zenon DEF Member
  <2>3. Collect(s, "key") = a
    <3>1. s = Scanner(s.at, s.text, s.key, v)
      BY <1>1, ScannerFields
    <3> QED
      BY <3>1, ScannerChanges
  <2> QED
    BY <2>1, <2>2, <2>3, Zenon
<1>6. Scanned(b, Quote) = c
  <2>1. b.at = "key"
    BY ScannerFields
  <2>2. KeyRead(b) = c
    BY KeyIsRead
  <2> HIDE DEF b, c
  <2> QED
    BY <2>1, <2>2, ScannedAt
<1>7. c \in Scanners /\ c.at = "colon" /\ d \in Scanners /\ d.at = "value"
  <2>1. "colon" \in ScannerPlaces /\ "value" \in ScannerPlaces
    BY DEF ScannerPlaces
  <2> QED
    BY <1>2, <2>1, ScannerFields
<1>8. Scanned(c, Colon) = d
  <2>1. Goto(c, "value") = d
    BY ScannerChanges
  <2> HIDE DEF c, d
  <2> QED
    BY <1>3, <1>7, <2>1, ScannedAt
<1>9. MayEnd(s, M) /\ MayEnd(a, M) /\ MayEnd(b, M) /\ MayEnd(c, M) /\ MayEnd(d, M)
  <2>1. a.at = "key" /\ b.at = "key"
    BY ScannerFields
  <2> HIDE DEF a, b, c, d
  <2> QED
    BY <1>1, <1>7, <2>1, MayEndHere
<1>10. PICK r : Passes(d, x, r, M) /\ Closed(r, w)
  <2>1. m.value.type \in {"string", "number", "bool"}
    BY MemberTypes DEF ValueTypes
  <2>2. CASE m.value.type = "string"
    BY <1>2, <2>2, StringPasses DEF k
  <2>3. CASE m.value.type = "number"
    BY <1>2, <2>3, NumberPasses DEF k
  <2>4. CASE m.value.type = "bool"
    BY <1>2, <2>4, BoolPasses DEF k
  <2> QED
    BY <2>1, <2>2, <2>3, <2>4
<1>11. OfMembers(w, M)
  BY AssignOfMembers
<1> HIDE DEF a, b, c, d, x, w
<1>12. PICK q : Passes(r, gap, q, M) /\ Closed(q, w)
  BY <1>10, <1>11, GapClosed
<1>13. Passes(s, <<Quote>>, a, M) /\ Passes(b, <<Quote>>, c, M) /\ Passes(c, <<Colon>>, d, M)
  BY <1>1, <1>3, <1>4, <1>5, <1>6, <1>7, <1>8, <1>9, PassToken
<1>14. Passes(c, gap, c, M) /\ Passes(d, gap, d, M)
  BY <1>7, GapStays
<1>15. Passes(s, <<Quote>> \o k, b, M)
  BY <1>4, <1>13, PassJoined
<1>16. Passes(s, <<Quote>> \o k \o <<Quote>>, c, M)
  BY <1>13, <1>15, PassJoined
<1>17. Passes(s, <<Quote>> \o k \o <<Quote>> \o gap, c, M)
  BY <1>14, <1>16, PassJoined
<1>18. Passes(s, <<Quote>> \o k \o <<Quote>> \o gap \o <<Colon>>, d, M)
  BY <1>13, <1>17, PassJoined
<1>19. Passes(s, <<Quote>> \o k \o <<Quote>> \o gap \o <<Colon>> \o gap, d, M)
  BY <1>14, <1>18, PassJoined
<1>20. Passes(s, <<Quote>> \o k \o <<Quote>> \o gap \o <<Colon>> \o gap \o x, r, M)
  BY <1>10, <1>19, PassJoined
<1>21. Passes(s, <<Quote>> \o k \o <<Quote>> \o gap \o <<Colon>> \o gap \o x \o gap, q, M)
  BY <1>12, <1>20, PassJoined
<1>22. MemberText(m, gap) = <<Quote>> \o k \o <<Quote>> \o gap \o <<Colon>> \o gap \o x \o gap
  BY DEF MemberText, k, x
<1> QED
  BY <1>12, <1>21, <1>22 DEF w

\* The text of a configuration, member by member.
PrintedParts(P, members, gap) ==
  /\ P[0] = gap \o <<LeftBrace>> \o gap
  /\ \A i \in 1..Len(members) :
       P[i] = P[i - 1] \o (IF i = 1 THEN <<>> ELSE <<MemberComma>> \o gap)
                       \o MemberText(members[i], gap)
  /\ Printed(members, gap) = P[Len(members)] \o <<RightBrace>>

\* Texts are made of tokens.
LEMMA TextsOfTokens ==
  ASSUME NEW gap \in Seq({Space})
  PROVE  /\ gap \in Seq(TextTokens)
         /\ gap \o <<LeftBrace>> \o gap \in Seq(TextTokens)
         /\ <<MemberComma>> \o gap \in Seq(TextTokens)
         /\ \A m \in ConfigMembers : MemberText(m, gap) \in Seq(TextTokens)
<1>1. /\ Space \in TextTokens /\ LeftBrace \in TextTokens /\ MemberComma \in TextTokens
      /\ Quote \in TextTokens /\ Colon \in TextTokens
  BY TokensOfTexts
<1>2. gap \in Seq(TextTokens)
  BY <1>1
<1>3. gap \o <<LeftBrace>> \o gap \in Seq(TextTokens) /\ <<MemberComma>> \o gap \in Seq(TextTokens)
  BY <1>1, <1>2
<1>4. ASSUME NEW m \in ConfigMembers
      PROVE  MemberText(m, gap) \in Seq(TextTokens)
  <2> DEFINE k == m.key
             t == m.value.text
             x == Tokens(m.value)
             q == <<Quote>>
             c == <<Colon>>
  <2>1. k \in Seq(TextTokens) /\ t \in Seq(TextTokens)
    BY MemberTypes
  <2>2. q \in Seq(TextTokens) /\ c \in Seq(TextTokens)
    BY <1>1
  <2>3. x = q \o t \o q \/ x = t
    BY DEF Tokens
  <2>4. MemberText(m, gap) = q \o k \o q \o gap \o c \o gap \o x \o gap
    BY DEF MemberText
  <2> HIDE DEF k, t, x, q, c
  <2>5. x \in Seq(TextTokens)
    <3>1. q \o t \o q \in Seq(TextTokens)
      BY <2>1, <2>2
    <3> QED
      BY <2>1, <2>3, <3>1, Zenon
  <2>6. q \o k \o q \o gap \in Seq(TextTokens)
    BY <1>2, <2>1, <2>2
  <2>7. q \o k \o q \o gap \o c \o gap \in Seq(TextTokens)
    BY <1>2, <2>2, <2>6
  <2>8. q \o k \o q \o gap \o c \o gap \o x \o gap \in Seq(TextTokens)
    BY <1>2, <2>5, <2>7
  <2> QED
    BY <2>4, <2>8
<1> QED
  BY <1>2, <1>3, <1>4

\* The text has such parts.
LEMMA PartsExist ==
  ASSUME NEW members \in Seq(ConfigMembers), NEW gap \in Seq({Space})
  PROVE  \E P : PrintedParts(P, members, gap)
<1> DEFINE n == Len(members)
           V == Seq(TextTokens)
           base == gap \o <<LeftBrace>> \o gap
           sep == <<MemberComma>> \o gap
           Behind(i) == IF i = 1 THEN <<>> ELSE sep
           Text(i) == MemberText(members[i], gap)
           step == [p \in V \X (1..n) |-> p[1] \o Behind(p[2]) \o Text(p[2])]
           Body(g) == [i \in 0..n |-> IF i = 0 THEN base ELSE g[i - 1] \o Behind(i) \o Text(i)]
           upto == CHOOSE g : g = Body(g)
<1>1. Printed(members, gap) = upto[n] \o <<RightBrace>>
  BY Zenon DEF Printed
<1>2. n \in Nat /\ base \in V /\ sep \in V /\ \A i \in 1..n : Text(i) \in V
  <2>1. n \in Nat /\ \A i \in 1..n : members[i] \in ConfigMembers
    OBVIOUS
  <2>2. base \in V /\ sep \in V /\ \A m \in ConfigMembers : MemberText(m, gap) \in V
    BY TextsOfTokens, Zenon
  <2> HIDE DEF n
  <2> QED
    BY <2>1, <2>2, Zenon
<1> HIDE DEF base, sep, Text, n
<1>3. step \in [V \X (1..n) -> V]
  <2>1. ASSUME NEW p \in V \X (1..n)
        PROVE  p[1] \o Behind(p[2]) \o Text(p[2]) \in V
    <3>1. p[1] \in V /\ p[2] \in 1..n
      OBVIOUS
    <3>2. Behind(p[2]) \in V /\ Text(p[2]) \in V
      BY <1>2, <3>1
    <3> HIDE DEF Behind
    <3> QED
      BY <3>1, <3>2
  <2> HIDE DEF Behind, V
  <2> QED
    BY <2>1
<1>4. \E g : g = Body(g)
  <2> HIDE DEF V, step
  <2>1. PICK P \in [0..n -> V] : Recursion(n, base, step, P)
    BY <1>2, <1>3, RecursionExists, Zenon
  <2>2. ASSUME NEW i \in 0..n, i # 0
        PROVE  P[i] = P[i - 1] \o Behind(i) \o Text(i)
    <3>1. i \in 1..n /\ i - 1 \in 0..n
      BY <1>2, <2>2
    <3>2. P[i] = step[<<P[i - 1], i>>]
      BY <2>1, <3>1 DEF Recursion
    <3>3. P[i - 1] \in V
      BY <3>1
    <3> HIDE DEF Behind
    <3>4. step[<<P[i - 1], i>>] = P[i - 1] \o Behind(i) \o Text(i)
      BY <3>1, <3>3 DEF step
    <3> QED
      BY <3>2, <3>4
  <2>3. P[0] = base
    BY <2>1 DEF Recursion
  <2> HIDE DEF Behind
  <2>4. P = Body(P)
    BY <2>2, <2>3
  <2> QED
    BY <2>4
<1>5. upto = Body(upto)
  <2> HIDE DEF Body
  <2> QED
    BY <1>4, Zenon
<1> HIDE DEF upto, Behind
<1>6. upto[0] = base /\ \A i \in 1..n : upto[i] = upto[i - 1] \o Behind(i) \o Text(i)
  <2>1. 0 \in 0..n /\ \A i \in 1..n : i \in 0..n /\ i # 0
    BY <1>2
  <2> QED
    BY <1>5, <2>1
<1>7. PrintedParts(upto, members, gap)
  BY <1>1, <1>6, Zenon DEF PrintedParts, n, base, sep, Behind, Text
<1> QED
  BY <1>7

\* The members that no later one of the first j has the name of.
LastNamed(members, j) ==
  {i \in 1..j : \A l \in (i + 1)..j : members[l].key # members[i].key}
LastMembers(members, j) == {members[i] : i \in LastNamed(members, j)}

\* The next member replaces the one of its name.
LEMMA NextMember ==
  ASSUME NEW members \in Seq(ConfigMembers), NEW j \in 0..(Len(members) - 1)
  PROVE  Assign(LastMembers(members, j), members[j + 1].key, members[j + 1].value)
           = LastMembers(members, j + 1)
<1> DEFINE m == members[j + 1]
           v == LastMembers(members, j)
           w == Assign(v, m.key, m.value)
<1>1. j \in Nat /\ j + 1 \in 1..Len(members) /\ \A i \in 1..(j + 1) : members[i] \in ConfigMembers
  OBVIOUS
<1>2. m = [key |-> m.key, value |-> m.value]
  BY <1>1 DEF ConfigMembers
<1>3. w = {p \in v : p.key # m.key} \cup {m}
  BY <1>2 DEF Assign
<1> HIDE DEF m
<1>4. \A i \in 1..j : i \in LastNamed(members, j + 1)
                        <=> i \in LastNamed(members, j) /\ members[i].key # m.key
  <2> SUFFICES ASSUME NEW i \in 1..j
               PROVE  i \in LastNamed(members, j + 1)
                        <=> i \in LastNamed(members, j) /\ members[i].key # m.key
    OBVIOUS
  <2>1. (i + 1)..(j + 1) = ((i + 1)..j) \cup {j + 1} /\ i \in 1..(j + 1)
    BY <1>1
  <2> QED
    BY <2>1 DEF LastNamed, m
<1>5. j + 1 \in LastNamed(members, j + 1)
  <2>1. ((j + 1) + 1)..(j + 1) = {} /\ j + 1 \in 1..(j + 1)
    BY <1>1
  <2> QED
    BY <2>1 DEF LastNamed
<1>6. /\ \A i \in LastNamed(members, j) : i \in 1..j
      /\ \A i \in LastNamed(members, j + 1) : i \in 1..j \/ i = j + 1
  BY <1>1 DEF LastNamed
<1>7. ASSUME NEW p
      PROVE  p \in w <=> p \in LastMembers(members, j + 1)
  <2>1. p \in w <=> (p = m \/ (p.key # m.key /\ \E i \in LastNamed(members, j) : p = members[i]))
    BY <1>3 DEF LastMembers
  <2>2. p \in LastMembers(members, j + 1) <=> \E i \in LastNamed(members, j + 1) : p = members[i]
    BY DEF LastMembers
  <2>3. p = m => \E i \in LastNamed(members, j + 1) : p = members[i]
    BY <1>5 DEF m
  <2>4. ASSUME NEW i \in LastNamed(members, j), p = members[i], p.key # m.key
        PROVE  \E l \in LastNamed(members, j + 1) : p = members[l]
    BY <1>4, <1>6, <2>4
  <2>5. ASSUME NEW i \in LastNamed(members, j + 1), p = members[i]
        PROVE  p = m \/ (p.key # m.key /\ \E l \in LastNamed(members, j) : p = members[l])
    <3>1. CASE i = j + 1
      BY <2>5, <3>1 DEF m
    <3>2. CASE i \in 1..j
      BY <1>4, <2>5, <3>2
    <3> QED
      BY <1>6, <3>1, <3>2
  <2> QED
    BY <2>1, <2>2, <2>3, <2>4, <2>5
<1> QED
  BY <1>7 DEF m

\* What has been read so far is of the members.
LEMMA LastAreMembers ==
  ASSUME NEW members \in Seq(ConfigMembers), NEW j \in 0..Len(members)
  PROVE  OfMembers(LastMembers(members, j), ToSet(members))
<1> SUFFICES ASSUME NEW i \in LastNamed(members, j)
             PROVE  members[i] \in ToSet(members)
  BY DEF OfMembers, LastMembers
<1>1. i \in DOMAIN members
  BY DEF LastNamed
<1> QED
  BY <1>1 DEF ToSet

\* A configuration is read to its end, and what is kept of it are the last members of
\* each name.
LEMMA ConfigPasses ==
  ASSUME NEW members \in Seq(ConfigMembers), NEW gap \in Seq({Space})
  PROVE  \E r : /\ Passes(Begin, Printed(members, gap), r, ToSet(members))
                /\ Final(r).at = "end" /\ Final(r).kv = LastMembers(members, Len(members))
<1> DEFINE n == Len(members)
           M == ToSet(members)
           Kv(j) == LastMembers(members, j)
<1>1. n \in Nat
  OBVIOUS
<1>2. PICK P : PrintedParts(P, members, gap)
  BY PartsExist
<1>3. \A j \in 0..n : OfMembers(Kv(j), M)
  BY LastAreMembers
<1>4. \A i \in 1..n : members[i] \in ConfigMembers /\ members[i] \in M
  BY DEF ToSet
<1>5. \A j \in 0..(n - 1) : Assign(Kv(j), members[j + 1].key, members[j + 1].value) = Kv(j + 1)
  BY NextMember
<1>6. Kv(0) = {}
  BY DEF LastMembers, LastNamed
<1> HIDE DEF n, M, Kv
<1> DEFINE Reached(r, j) == Passes(Begin, P[j], r, M)
                            /\ IF j = 0 THEN Open(r, Kv(j)) ELSE Closed(r, Kv(j))
           S == {j \in 0..n : \E r : Reached(r, j)}
<1>7. 0 \in S
  <2>1. PICK r : Passes(Begin, gap \o <<LeftBrace>> \o gap, r, M) /\ Open(r, {})
    BY StartPasses
  <2>2. Reached(r, 0)
    BY <1>2, <1>6, <2>1 DEF PrintedParts
  <2>3. 0 \in 0..n
    BY <1>1
  <2> HIDE DEF Reached
  <2> QED
    BY <2>2, <2>3
<1>8. ASSUME NEW j \in 0..(n - 1), j \in S
      PROVE  j + 1 \in S
  <2> DEFINE m == members[j + 1]
             text == MemberText(m, gap)
             sep == <<MemberComma>> \o gap
  <2>1. /\ j + 1 \in 1..n /\ (j + 1) - 1 = j /\ j + 1 \in 0..n /\ j \in 0..n /\ j + 1 # 0
        /\ j + 1 = 1 <=> j = 0
    BY <1>1
  <2>2. PICK q : Reached(q, j)
    BY <1>8
  <2>3. P[j + 1] = P[j] \o (IF j = 0 THEN <<>> ELSE sep) \o text
    <3>1. P[j + 1] = P[(j + 1) - 1] \o (IF j + 1 = 1 THEN <<>> ELSE sep) \o text
      BY <1>2, <2>1, Zenon DEF PrintedParts, n
    <3> HIDE DEF sep, text
    <3> QED
      BY <2>1, <3>1, Zenon
  <2>4. m \in ConfigMembers /\ m \in M /\ OfMembers(Kv(j), M)
        /\ Assign(Kv(j), m.key, m.value) = Kv(j + 1)
    BY <1>3, <1>4, <1>5, <2>1
  <2> HIDE DEF text, sep, m
  <2>5. PICK s : /\ Passes(Begin, P[j] \o (IF j = 0 THEN <<>> ELSE sep), s, M)
                 /\ Open(s, Kv(j))
    <3>1. CASE j = 0
      <4>1. P[j] \in Seq(TextTokens)
        BY <2>2 DEF Passes
      <4>2. P[j] \o <<>> = P[j]
        BY <4>1
      <4>3. Passes(Begin, P[j] \o (IF j = 0 THEN <<>> ELSE sep), q, M) /\ Open(q, Kv(j))
        BY <2>2, <3>1, <4>2
      <4> QED
        BY <4>3
    <3>2. CASE j # 0
      <4>1. Passes(Begin, P[j], q, M) /\ Closed(q, Kv(j))
        BY <2>2, <3>2
      <4>2. PICK s : Passes(q, sep, s, M) /\ Open(s, Kv(j))
        BY <2>4, <4>1, CommaPasses DEF sep
      <4>3. Passes(Begin, P[j] \o sep, s, M)
        BY <4>1, <4>2, PassJoined
      <4> QED
        BY <3>2, <4>2, <4>3
    <3> QED
      BY <3>1, <3>2
  <2>6. PICK r : Passes(s, text, r, M) /\ Closed(r, Kv(j + 1))
    BY <2>4, <2>5, MemberPasses DEF text
  <2> DEFINE a == P[j] \o (IF j = 0 THEN <<>> ELSE sep)
  <2>7. Passes(Begin, a, s, M) /\ P[j + 1] = a \o text
    BY <2>3, <2>5
  <2> HIDE DEF a
  <2>8. Passes(Begin, a \o text, r, M)
    BY <2>6, <2>7, PassJoined
  <2>9. Reached(r, j + 1)
    BY <2>1, <2>6, <2>7, <2>8
  <2> HIDE DEF Reached
  <2> QED
    BY <2>1, <2>9
<1>9. PICK q : Reached(q, n)
  <2> HIDE DEF Reached
  <2>1. n \in S
    <3> HIDE DEF S
    <3>1. 0..n \subseteq S
      BY <1>1, <1>7, <1>8, IntervalInduction
    <3> QED
      BY <1>1, <3>1
  <2> QED
    BY <2>1
<1>10. Open(q, Kv(n)) \/ Closed(q, Kv(n))
  BY <1>9
<1>11. OfMembers(Kv(n), M)
  BY <1>1, <1>3
<1>12. PICK r : Passes(q, <<RightBrace>>, r, M) /\ Final(r).at = "end" /\ Final(r).kv = Kv(n)
  BY <1>10, <1>11, BracePasses
<1>13. Passes(Begin, P[n] \o <<RightBrace>>, r, M)
  BY <1>9, <1>12, PassJoined
<1>14. Printed(members, gap) = P[n] \o <<RightBrace>>
  BY <1>2 DEF PrintedParts, n
<1> QED
  BY <1>12, <1>13, <1>14 DEF n, M, Kv

\* parse goes by the state in which the text ends.
LEMMA ParsedAt ==
  ASSUME NEW text
  PROVE  LET s == Final(Run(Begin, text))
         IN  /\ parse(text).result = "true" <=> s.at \in {"member", "sep", "end"}
             /\ parse(text).kv = s.kv
<1> DEFINE end == FoldLeft(Scanned, Begin, text)
           s == IF end.at = "number" THEN NumberEnd(end) ELSE end
           result == CASE s.at \in {"member", "sep", "end"} -> "true"
                       [] s.at = "throw" -> "throw"
                       [] OTHER          -> "false"
<1>1. parse(text) = [result |-> result, kv |-> s.kv]
  BY Zenon DEF parse
<1>2. Final(Run(Begin, text)) = s
  BY Zenon DEF Final, Run
<1> HIDE DEF s
<1>3. result = "true" <=> s.at \in {"member", "sep", "end"}
  OBVIOUS
<1> HIDE DEF result
<1>4. parse(text).result = result /\ parse(text).kv = s.kv
  BY <1>1
<1> QED
  BY <1>2, <1>3, <1>4, Zenon

\* Every option reads the last member of its name.
LEMMA ReadsBackAlways ==
  ASSUME NEW members \in Seq(ConfigMembers), NEW gap \in Seq({Space})
  PROVE  ReadsBack(members, gap)
<1> DEFINE n == Len(members)
           parsed == parse(Printed(members, gap))
           kv == LastMembers(members, n)
           OfName(key) == {i \in 1..n : members[i].key = key}
           final(key) == SelectLastInSeq(members, LAMBDA m : m.key = key)
<1>1. parsed.result = "true" /\ parsed.kv = kv
  <2>1. PICK r : /\ r = Run(Begin, Printed(members, gap))
                 /\ Final(r).at = "end" /\ Final(r).kv = kv
    BY ConfigPasses DEF Passes
  <2> QED
    BY <2>1, ParsedAt
<1>2. n \in Nat /\ DOMAIN members = 1..n /\ \A i \in 1..n : members[i] \in ConfigMembers
  OBVIOUS
<1> HIDE DEF parsed
<1>3. ASSUME NEW m \in ToSet(members)
      PROVE  /\ final(m.key) \in 1..n /\ members[final(m.key)].key = m.key
             /\ \A p : p \in kv /\ p.key = m.key <=> p = members[final(m.key)]
  <2> DEFINE I == OfName(m.key)
             f == Top(I)
  <2>1. PICK i \in 1..n : members[i] = m
    BY <1>2 DEF ToSet
  <2>2. I \in SUBSET (1..n) /\ I # {}
    BY <2>1
  <2>3. final(m.key) = f
    BY <2>2, Zenon DEF SelectLastInSeq, Max, Top
  <2>4. f \in I /\ \A l \in I : f >= l
    <3> HIDE DEF I
    <3> QED
      BY <1>2, <2>2, TopIn
  <2> HIDE DEF f
  <2>5. f \in 1..n /\ members[f].key = m.key
    BY <2>4
  <2>6. f \in LastNamed(members, n)
    <3> SUFFICES ASSUME NEW l \in (f + 1)..n PROVE members[l].key # members[f].key
      BY <2>5 DEF LastNamed
    <3>1. l \in 1..n /\ l > f /\ l \in Int /\ f \in Int
      BY <1>2, <2>5
    <3>2. l \notin I
      BY <2>4, <3>1
    <3> QED
      BY <2>5, <3>1, <3>2
  <2>7. ASSUME NEW l \in LastNamed(members, n), members[l].key = m.key
        PROVE  l = f
    <3>1. l \in 1..n /\ \A x \in (l + 1)..n : members[x].key # members[l].key
      BY DEF LastNamed
    <3>2. l \in I
      BY <2>7, <3>1
    <3>3. f >= l /\ f \in Int /\ l \in Int /\ f <= n
      BY <1>2, <2>4, <2>5, <3>1, <3>2
    <3>4. f \notin (l + 1)..n
      BY <2>5, <2>7, <3>1
    <3> QED
      BY <1>2, <3>3, <3>4
  <2> HIDE DEF I
  <2>8. ASSUME NEW p
        PROVE  p \in kv /\ p.key = m.key <=> p = members[f]
    <3>1. p \in kv <=> \E l \in LastNamed(members, n) : p = members[l]
      BY DEF LastMembers
    <3> HIDE DEF kv, n
    <3> QED
      BY <2>5, <2>6, <2>7, <3>1
  <2> HIDE DEF final, kv
  <2> QED
    BY <2>3, <2>5, <2>8
<1>4. ASSUME NEW m \in ToSet(members), NEW type
      PROVE  LET v == members[final(m.key)].value
             IN  get(parsed.kv, m.key, type) = IF v.type = type THEN {v.text} ELSE {}
  <2> DEFINE x == members[final(m.key)]
             A == {q \in kv : q.key = m.key /\ q.value.type = type}
  <2>1. get(parsed.kv, m.key, type) = {p.value.text : p \in A}
    BY <1>1, Zenon DEF get
  <2>2. \A p : p \in kv /\ p.key = m.key <=> p = x
    BY <1>3
  <2> HIDE DEF x, kv
  <2>3. A = IF x.value.type = type THEN {x} ELSE {}
    BY <2>2
  <2> HIDE DEF A
  <2>4. {p.value.text : p \in A} = IF x.value.type = type THEN {x.value.text} ELSE {}
    BY <2>3
  <2> QED
    BY <2>1, <2>4 DEF x
<1> QED
  BY <1>1, <1>4, Zenon DEF ReadsBack, parsed

\* A configuration that is cut is refused or sets what it has.
LEMMA CutParseAlways ==
  ASSUME NEW members \in Seq(ConfigMembers), NEW gap \in Seq({Space})
  PROVE  CutParse(members, gap)
<1> DEFINE M == ToSet(members)
<1> SUFFICES ASSUME NEW text \in Cuts(Printed(members, gap)), parse(text).result = "true",
                    NEW p \in parse(text).kv
             PROVE  SetBy(p, M)
  BY Zenon DEF CutParse, SetBy
<1>1. MayEnd(Run(Begin, text), M)
  <2>1. PICK r : Passes(Begin, Printed(members, gap), r, M)
    BY ConfigPasses
  <2> QED
    BY <2>1 DEF Passes
<1>2. Final(Run(Begin, text)).at \in {"member", "sep", "end"}
      /\ p \in Final(Run(Begin, text)).kv
  BY ParsedAt
<1> QED
  BY <1>1, <1>2 DEF MayEnd

-----------------------------------------------------------------------------
(* The promises as invariants of the calls.                                *)

\* A call has arguments that the program can call it with.
Calls ==
  \/ call = Idle
  \/ \E b \in Bodies : call = [fn |-> "body", body |-> b]
  \/ \E R, C, inputs \in 1..MaxSide : \E k \in 0..Len(Matrix(R, C)) :
       call = [fn |-> "matrix", rows |-> R, cols |-> C, received |-> k, inputs |-> inputs]
  \/ \E t \in Texts : \E k \in 0..Len(t) : call = [fn |-> "csv", body |-> t, received |-> k]
  \/ \E t \in Texts : call = [fn |-> "table", text |-> t]
  \/ \E m \in Configs, g \in Gaps : call = [fn |-> "config", members |-> m, gap |-> g]
  \/ \E b \in Bundles : \E k \in 0..Len(save_bundle(b)) :
       call = [fn |-> "bundle", b |-> b, written |-> k]
  \/ \E s \in Shuffles, K \in 1..MaxFolds : call = [fn |-> "cv", idx |-> s, folds |-> K]
  \/ \E s \in Scored : call = [fn |-> "score", probs |-> s.probs, y |-> s.y]
  \/ \E base, cur \in {c \in Columns : \A i \in DOMAIN c : c[i] # NonFinite}, B \in 1..MaxBins :
       call = [fn |-> "drift", base |-> base, cur |-> cur, bins |-> B]
  \/ \E c \in Columns : call = [fn |-> "impute", column |-> c]
  \/ \E M, N, K \in Sides, BS \in BlockSizes :
       call = [fn |-> "matmul", M |-> M, N |-> N, K |-> K, BS |-> BS]

\* The program is only ever called with arguments of the sets it enumerates.
THEOREM CallsTyped == Spec => []Calls
<1>1. Init => Calls
  BY DEF Init, Calls
<1>2. Calls /\ [Next]_call => Calls'
  <2> SUFFICES ASSUME Calls, [Next]_call PROVE Calls'
    OBVIOUS
  <2>1. CASE Call
    BY <2>1 DEF Call, Calls, PostBody, PostMatrix, PostCsv, LoadTable, ReadConfig,
       SaveAndLoad, CrossValidate, Evaluate, Drift, Impute, Multiply
  <2>2. CASE Return
    BY <2>2 DEF Return, Calls
  <2>3. CASE UNCHANGED call
    BY <2>3 DEF Calls
  <2> QED
    BY <2>1, <2>2, <2>3 DEF Next
<1> QED
  BY <1>1, <1>2, PTL DEF Spec

\* /validate accepts what /predict/stream finds a shape for, for every body; of a
\* matrix of any size, cut anywhere, only numbers that arrived are read, whatever the
\* model's inputs, and of a whole one that the model fits, as the scanner sees it, there
\* is an event for every row, but for one when it has one column; of a model as wide as
\* the matrix there may be none (serve.cpp 748-827).
THEOREM MatrixAlwaysFits == Spec => []MatrixFits
<1>1. Calls => MatrixFits
  <2> SUFFICES ASSUME Calls PROVE MatrixFits
    OBVIOUS
  <2>1. ASSUME call.fn = "matrix"
        PROVE  MatrixRead(call.rows, call.cols, call.received, call.inputs)
    <3>1. PICK R \in 1..MaxSide, C \in 1..MaxSide, inputs \in 1..MaxSide :
            \E k \in 0..Len(Matrix(R, C)) :
              call = [fn |-> "matrix", rows |-> R, cols |-> C, received |-> k,
                      inputs |-> inputs]
      BY <2>1 DEF Calls, Idle
    <3>2. R \in Nat \ {0} /\ C \in Nat \ {0}
      BY InputsAssumption
    <3>3. PICK k \in 0..Len(Matrix(R, C)) :
            call = [fn |-> "matrix", rows |-> R, cols |-> C, received |-> k,
                    inputs |-> inputs]
      BY <3>1
    <3>4. MatrixRead(R, C, k, inputs)
      BY <3>2, MatrixReadAlways
    <3> QED
      BY <3>3, <3>4
  <2>2. ASSUME call.fn = "body"
        PROVE  ValidateAgrees(call.body)
    <3>1. PICK b \in Bodies : call = [fn |-> "body", body |-> b]
      BY <2>2 DEF Calls, Idle
    <3>2. b \in Seq(STRING)
      BY InputsAssumption
    <3>3. ValidateAgrees(b)
      BY <3>2, ValidateAgreesAlways
    <3> QED
      BY <3>1, <3>3
  <2> QED
    BY <2>1, <2>2 DEF MatrixFits
<1> QED
  BY <1>1, CallsTyped, PTL

\* A CSV body that is cut anywhere is predicted for as it was sent, but for its last row,
\* whatever its characters: that row may end in a part of a cell, or be the beginning of a
\* line that is too long to be one (serve.cpp 508, 897-907).
THEOREM CutRowsAlwaysRead == Spec => []CutRows
<1>1. Calls => CutRows
  <2> SUFFICES ASSUME Calls, call.fn = "csv"
               PROVE  CutRead(call.body, call.received)
    BY DEF CutRows
  <2>1. PICK t \in Texts : \E k \in 0..Len(t) :
          call = [fn |-> "csv", body |-> t, received |-> k]
    BY DEF Calls, Idle
  <2>2. PICK k \in 0..Len(t) : call = [fn |-> "csv", body |-> t, received |-> k]
    BY <2>1
  <2>3. t \in Seq(STRING)
    BY InputsAssumption
  <2>4. CutRead(t, k)
    BY <2>3, CutReadAlways
  <2> QED
    BY <2>2, <2>4
<1> QED
  BY <1>1, CallsTyped, PTL

\* A table nwx_check accepts is read without a cell that does not exist, and none of
\* its cells is infinite or NaN (check.cpp 10-13, dataset_bridge.cpp 15-20).
THEOREM TablesAlwaysRead == Spec => []CheckedTables
<1>1. Calls => CheckedTables
  <2> SUFFICES ASSUME Calls, call.fn = "table"
               PROVE  CheckedReads(call.text)
    BY DEF CheckedTables
  <2>1. PICK t \in Texts : call = [fn |-> "table", text |-> t]
    BY DEF Calls, Idle
  <2>2. t \in Seq(STRING)
    BY InputsAssumption
  <2>3. CheckedReads(t)
    BY <2>2, CheckedReadsAlways
  <2> QED
    BY <2>1, <2>3
<1> QED
  BY <1>1, CallsTyped, PTL

\* nwx_cv tests on every row once and never on one it has trained on, for every
\* permutation of the rows and number of folds (cv.cpp 24-33).
THEOREM FoldsPartitioned == Spec => []FoldsPartition
<1>1. Calls => FoldsPartition
  <2> SUFFICES ASSUME Calls, call.fn = "cv" PROVE Partition(call.idx, call.folds)
    BY DEF FoldsPartition
  <2>1. PICK s \in Shuffles, K \in 1..MaxFolds : call = [fn |-> "cv", idx |-> s, folds |-> K]
    BY DEF Calls, Idle
  <2>2. K \in Nat \ {0}
    BY InputsAssumption
  <2>3. s \in Seq(Nat) /\ \A i, j \in DOMAIN s : s[i] = s[j] => i = j
    BY InputsAssumption
  <2>4. Partition(s, K)
    BY <2>2, <2>3, EveryPartition
  <2> QED
    BY <2>1, <2>4
<1> QED
  BY <1>1, CallsTyped, PTL

\* The metrics of one data set agree with each other, for every number of classes and
\* rows and every probabilities (metrics.cpp, metrics_ex.cpp, tensor.cpp 121-129).
THEOREM CountsAlwaysAgree == Spec => []CountsAgree
<1>1. Calls => CountsAgree
  <2> SUFFICES ASSUME Calls, call.fn = "score" PROVE SameCounts(call.probs, call.y)
    BY DEF CountsAgree
  <2>1. PICK s \in Scored : call = [fn |-> "score", probs |-> s.probs, y |-> s.y]
    BY DEF Calls, Idle
  <2> DEFINE probs == s.probs
             y == s.y
             C == DOMAIN probs[1]
             n == Len(probs)
  <2>2. /\ probs \in Seq([C -> Int]) /\ probs # <<>>
        /\ y \in [DOMAIN probs -> C]
        /\ \E m \in C \cap Nat : C = 0..m
    BY InputsAssumption
  <2>3. call.probs = probs /\ call.y = y
    BY <2>1
  <2> HIDE DEF probs, y
  <2>4. PICK m \in Nat : C = 0..m
    BY <2>2
  <2>5. n \in Nat \ {0} /\ probs \in [1..n -> [C -> Int]] /\ y \in [1..n -> C]
    <3> HIDE DEF C
    <3> QED
      BY <2>2
  <2>6. SameCounts(probs, y)
    <3> HIDE DEF C, n
    <3> QED
      BY <2>4, <2>5, CountsAgreeAlways
  <2> QED
    BY <2>3, <2>6
<1> QED
  BY <1>1, CallsTyped, PTL

\* Every option of a configuration reads what the last member of its name says, and a
\* configuration that is cut anywhere is refused or sets what the whole one sets, but
\* for the last digits of a number: for every members and spacing (json.cpp 11-53).
THEOREM ConfigsAlwaysRead == Spec => []ConfigReads
<1>1. Calls => ConfigReads
  <2> SUFFICES ASSUME Calls, call.fn = "config"
               PROVE  ReadsBack(call.members, call.gap) /\ CutParse(call.members, call.gap)
    BY DEF ConfigReads
  <2>1. PICK m \in Configs, g \in Gaps : call = [fn |-> "config", members |-> m, gap |-> g]
    BY DEF Calls, Idle
  <2>2. m \in Seq(ConfigMembers) /\ g \in Seq({Space})
    BY InputsAssumption
  <2>3. ReadsBack(m, g) /\ CutParse(m, g)
    BY <2>2, ReadsBackAlways, CutParseAlways
  <2> QED
    BY <2>1, <2>3
<1> QED
  BY <1>1, CallsTyped, PTL

\* Bundles and models come back as they were saved.  Of a bundle that was written in
\* part at most one field is neither as saved nor as it was before it was read, which
\* for the scaler is n zeros and n ones; there is a scaler only behind the whole model,
\* and its deviations only behind its means (bundle.cpp 12-93, serialize.cpp 7-49).
THEOREM BundlesAlwaysRead == Spec => []BundleReads
<1>1. Calls => BundleReads
  <2> SUFFICES ASSUME Calls, call.fn = "bundle"
               PROVE  LoadsBack(call.b) /\ CutLoads(call.b, call.written)
    BY DEF BundleReads
  <2>1. PICK b \in Bundles : \E k \in 0..Len(save_bundle(b)) :
          call = [fn |-> "bundle", b |-> b, written |-> k]
    BY DEF Calls, Idle
  <2>2. PICK k \in 0..Len(save_bundle(b)) : call = [fn |-> "bundle", b |-> b, written |-> k]
    BY <2>1
  <2>3. ABundle(b)
    BY InputsAssumption DEF ABundle
  <2>4. LoadsBack(b) /\ CutLoads(b, k)
    BY <2>3, RoundTripAlways, CutLoadsAlways, Zenon
  <2> QED
    BY <2>2, <2>4
<1> QED
  BY <1>1, CallsTyped, PTL

\* The blocked product of the AVX2 path is the plain one: each element is the sum of
\* the same products in the same order, for every shape and every size of the blocks
\* (tensor.cpp 23-62).
THEOREM ProductsAgree == Spec => []SameSums
<1>1. Calls => SameSums
  <2> SUFFICES ASSUME Calls, call.fn = "matmul"
               PROVE  SameTerms(call.M, call.N, call.K, call.BS)
    BY DEF SameSums
  <2>1. PICK M \in Sides, N \in Sides, K \in Sides, BS \in BlockSizes :
          call = [fn |-> "matmul", M |-> M, N |-> N, K |-> K, BS |-> BS]
    BY DEF Calls, Idle
  <2>2. M \in Nat /\ N \in Nat /\ K \in Nat /\ BS \in Nat \ {0}
    BY InputsAssumption
  <2>3. matmul_avx2(M, N, K, BS) = matmul(M, N, K)
    BY <2>2, Multiplied, BlocksMultiplied
  <2> QED
    BY <2>1, <2>3 DEF SameTerms
<1> QED
  BY <1>1, CallsTyped, PTL

\* Every row of nwx_drift is in one bin, larger values are never in a lower one, and
\* the bins of a baseline without equal values differ by at most two rows, for every
\* column and number of bins (drift.cpp 30-34).
THEOREM BinsAlwaysBalanced == Spec => []BinsBalanced
<1>1. Calls => BinsBalanced
  <2> SUFFICES ASSUME Calls, call.fn = "drift"
               PROVE  EvenBins(call.base, call.cur, call.bins)
    BY DEF BinsBalanced
  <2> DEFINE Whole == {c \in Columns : \A i \in DOMAIN c : c[i] # NonFinite}
  <2>1. PICK base \in Whole, cur \in Whole, B \in 1..MaxBins :
          call = [fn |-> "drift", base |-> base, cur |-> cur, bins |-> B]
    BY DEF Calls, Idle
  <2>2. ASSUME NEW c \in Whole
        PROVE  Len(c) \in Nat \ {0} /\ c \in [1..Len(c) -> Nat]
    <3>1. c \in Seq(ColumnCells) /\ c # <<>>
      BY InputsAssumption DEF ColumnCells
    <3>2. Len(c) \in Nat \ {0} /\ DOMAIN c = 1..Len(c) /\ c \in [1..Len(c) -> ColumnCells]
      BY <3>1
    <3>3. \A i \in 1..Len(c) : c[i] \in Nat
      BY <3>2 DEF ColumnCells
    <3> QED
      BY <3>2, <3>3
  <2>3. B \in Nat \ {0}
    BY InputsAssumption
  <2> HIDE DEF Whole
  <2>4. EvenBins(base, cur, B)
    BY <2>2, <2>3, BinsBalancedAlways
  <2> QED
    BY <2>1, <2>4
<1> QED
  BY <1>1, CallsTyped, PTL

\* nwx_impute fills with the least most frequent value or with one in the middle, and
\* every cell it writes is finite and, to the digits a stream writes, the cell it has
\* read or the fill, for every column (impute.cpp 19-31).
THEOREM FillAlwaysMode == Spec => []FillIsMode
<1>1. Calls => FillIsMode
  <2> SUFFICES ASSUME Calls, call.fn = "impute"
               PROVE  ModeFills(call.column) /\ CellsRounded(call.column)
    BY DEF FillIsMode
  <2>1. PICK c \in Columns : call = [fn |-> "impute", column |-> c]
    BY DEF Calls, Idle
  <2>2. c \in Seq(ColumnCells)
    BY InputsAssumption DEF ColumnCells
  <2>3. ModeFills(c) /\ CellsRounded(c)
    BY <2>2, FillIsModeAlways, CellsRoundedAlways
  <2> QED
    BY <2>1, <2>3
<1> QED
  BY <1>1, CallsTyped, PTL
=============================================================================
