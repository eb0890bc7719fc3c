----------------------------- MODULE TallyProofs -----------------------------
(***************************************************************************)
(* What the proofs of several components need of numbers: sums over finite *)
(* sets, division, least elements and the rounds of a loop.                *)
(***************************************************************************)
EXTENDS Tally, FiniteSetTheorems, WellFoundedInduction, TLAPS

(* One member of S has g[x] parts. *)
LEMMA PartsOfOne ==
  ASSUME NEW x, NEW n \in Nat
  PROVE  IsFiniteSet({x} \X (1 .. n)) /\ Cardinality({x} \X (1 .. n)) = n
<1>1. IsFiniteSet({x}) /\ Cardinality({x}) = 1
  BY FS_Singleton
<1>2. IsFiniteSet(1 .. n) /\ Cardinality(1 .. n) = n
  BY FS_Interval
<1>3. /\ IsFiniteSet({x} \X (1 .. n))
      /\ Cardinality({x} \X (1 .. n)) = Cardinality({x}) * Cardinality(1 .. n)
  BY <1>1, <1>2, FS_Product
<1>4. Cardinality({x} \X (1 .. n)) = 1 * n
  BY <1>1, <1>2, <1>3
<1> QED
  BY <1>3, <1>4

(* A sum over a finite set is a natural number. *)
LEMMA TallyNat ==
  ASSUME NEW U, NEW g \in [U -> Nat], NEW S \in SUBSET U, IsFiniteSet(S)
  PROVE  IsFiniteSet(Parts(g, S)) /\ Tally(g, S) \in Nat
<1> DEFINE f == [x \in S |-> {x} \X (1 .. g[x])]
           T == {{x} \X (1 .. g[x]) : x \in S}
<1>1. f \in Surjection(S, T)
  BY DEF Surjection
<1>2. IsFiniteSet(T)
  BY <1>1, FS_Surjection
<1>3. ASSUME NEW P \in T
      PROVE  IsFiniteSet(P)
  <2>1. PICK x \in S : P = {x} \X (1 .. g[x])
    OBVIOUS
  <2>2. g[x] \in Nat
    OBVIOUS
  <2> QED
    BY <2>1, <2>2, PartsOfOne
<1>4. IsFiniteSet(UNION T)
  BY <1>2, <1>3, FS_UNION
<1>5. IsFiniteSet(Parts(g, S))
  BY <1>4 DEF Parts
<1> QED
  BY <1>5, FS_CardinalityType DEF Tally

(* More members, no smaller a sum. *)
LEMMA TallyMonotone ==
  ASSUME NEW U, NEW g \in [U -> Nat], NEW S \in SUBSET U, IsFiniteSet(S),
         NEW R \in SUBSET S
  PROVE  Tally(g, R) <= Tally(g, S)
<1>1. IsFiniteSet(Parts(g, S))
  BY TallyNat
<1>2. Parts(g, R) \subseteq Parts(g, S)
  BY DEF Parts
<1> QED
  BY <1>1, <1>2, FS_Subset DEF Tally

(* A new member adds its own value. *)
LEMMA TallyAdd ==
  ASSUME NEW U, NEW g \in [U -> Nat], NEW S \in SUBSET U, IsFiniteSet(S),
         NEW x \in U, x \notin S
  PROVE  Tally(g, S \cup {x}) = Tally(g, S) + g[x]
<1> DEFINE A == Parts(g, S)
           B == {x} \X (1 .. g[x])
<1>1. IsFiniteSet(A) /\ Cardinality(A) \in Nat
  BY TallyNat DEF Tally
<1>2. IsFiniteSet(B) /\ Cardinality(B) = g[x] /\ g[x] \in Nat
  BY PartsOfOne
<1>3. Parts(g, S \cup {x}) = A \cup B
  BY DEF Parts
<1>4. A \cap B = {}
  <2> SUFFICES ASSUME NEW p \in A, p \in B
               PROVE  FALSE
    OBVIOUS
  <2>1. PICK y \in S : p \in {y} \X (1 .. g[y])
    BY DEF Parts
  <2>2. p[1] = y /\ p[1] = x
    BY <2>1
  <2> QED
    BY <2>2
<1>5. Cardinality(A \cap B) = 0
  BY <1>4, FS_EmptySet
<1>6. Cardinality(A \cup B) = Cardinality(A) + Cardinality(B) - Cardinality(A \cap B)
  BY <1>1, <1>2, FS_Union
<1> HIDE DEF A, B
<1>7. Cardinality(A \cup B) = Cardinality(A) + g[x]
  BY <1>1, <1>2, <1>5, <1>6
<1> QED
  BY <1>3, <1>7 DEF Tally, A

(* A member that leaves takes its own value with it. *)
LEMMA TallyRemove ==
  ASSUME NEW U, NEW g \in [U -> Nat], NEW S \in SUBSET U, IsFiniteSet(S),
         NEW x \in S
  PROVE  Tally(g, S) = Tally(g, S \ {x}) + g[x]
<1>1. IsFiniteSet(S \ {x})
  BY FS_Subset
<1>2. (S \ {x}) \cup {x} = S
  OBVIOUS
<1> QED
  BY <1>1, <1>2, TallyAdd

(* Only the values of the members count. *)
LEMMA TallySame ==
  ASSUME NEW S, NEW g, NEW h, \A x \in S : g[x] = h[x]
  PROVE  Tally(g, S) = Tally(h, S)
<1>1. Parts(g, S) = Parts(h, S)
  BY DEF Parts
<1> QED
  BY <1>1 DEF Tally
-----------------------------------------------------------------------------
(* Division with a remainder.                                               *)
LEMMA Divide ==
  ASSUME NEW u \in Nat, u >= 1, NEW y \in Nat
  PROVE  \E n \in Nat, r \in 0 .. u - 1 :
           n = y \div u /\ r = y % u /\ n * u \in Nat /\ y = n * u + r
<1>1. y \div u \in Nat
  BY SMTT(30)
<1>2. y % u \in 0 .. u - 1
  BY SMTT(30)
<1>3. y % u = y - u * (y \div u)
  BY SMTT(30)
<1>4. PICK n \in Nat : n = y \div u
  BY <1>1
<1>5. n * u \in Nat /\ y % u = y - u * n /\ u * n = n * u
  BY <1>3, <1>4
<1>6. PICK r \in 0 .. u - 1 : r = y % u
  BY <1>2
<1>7. y = n * u + r
  BY <1>5, <1>6
<1> QED BY <1>4, <1>5, <1>6, <1>7, Zenon

(* Multiplication keeps the order.                                          *)
LEMMA TimesMonotone ==
  ASSUME NEW m \in Nat, NEW n \in Nat, m <= n, NEW u \in Nat
  PROVE  m * u <= n * u
<1>1. PICK d \in Nat : n = m + d
  <2>1. n - m \in Nat /\ n = m + (n - m)
    OBVIOUS
  <2> QED BY <2>1
<1>2. n * u = m * u + d * u
  BY <1>1
<1>3. d * u >= 0 /\ m * u \in Int /\ d * u \in Int
  OBVIOUS
<1> QED BY <1>2, <1>3

(* A number has one quotient and one remainder.                             *)
LEMMA Quotient ==
  ASSUME NEW u \in Nat, u >= 1, NEW k \in Nat, NEW r \in 0 .. u - 1
  PROVE  k * u + r \in Nat /\ (k * u + r) \div u = k /\ (k * u + r) % u = r
<1> DEFINE y == k * u + r
<1>1. y \in Nat /\ k * u \in Nat
  OBVIOUS
<1>2. PICK n \in Nat, t \in 0 .. u - 1 :
             n = y \div u /\ t = y % u /\ n * u \in Nat /\ y = n * u + t
  BY <1>1, Divide
<1>4. k * u + r = n * u + t
  BY <1>2
<1>5. ~(k + 1 <= n)
  <2>1. k + 1 <= n => (k + 1) * u <= n * u
    BY TimesMonotone
  <2>2. (k + 1) * u = k * u + u /\ n * u \in Nat
    OBVIOUS
  <2> QED BY <1>1, <1>4, <2>1, <2>2
<1>6. ~(n + 1 <= k)
  <2>1. n + 1 <= k => (n + 1) * u <= k * u
    BY TimesMonotone
  <2>2. (n + 1) * u = n * u + u /\ n * u \in Nat
    OBVIOUS
  <2> QED BY <1>1, <1>4, <2>1, <2>2
<1>7. k = n
  BY <1>5, <1>6
<1>8. r = t
  BY <1>1, <1>4, <1>7
<1> QED BY <1>1, <1>2, <1>7, <1>8

(* A set of numbers that is not empty has a least one. *)
LEMMA Least ==
  ASSUME NEW T, T \subseteq Nat, T # {}
  PROVE  \E n \in T : \A k \in T : n <= k
<1>1. PICK n \in T : \A k \in T : ~(<<k, n>> \in OpToRel(<, Nat))
  BY WFMin, NatLessThanWellFounded, Zenon
<1>2. \A k \in T : ~(k < n)
  BY <1>1 DEF OpToRel
<1> QED BY <1>2

(* Induction over the rounds of a loop: Good are the rounds after which all *)
(* is well.                                                                 *)
LEMMA Rounds ==
  ASSUME NEW n \in Nat, NEW Good, 0 \in Good,
         \A k \in 1 .. n : k - 1 \in Good => k \in Good
  PROVE  \A k \in 0 .. n : k \in Good
<1> DEFINE Bad == {k \in 0 .. n : k \notin Good}
<1> SUFFICES ASSUME Bad # {} PROVE FALSE
  OBVIOUS
<1>1. PICK k \in Bad : \A j \in Bad : k <= j
  <2>1. Bad \subseteq Nat
    OBVIOUS
  <2> HIDE DEF Bad
  <2> QED BY <2>1, Least
<1>2. k \in 1 .. n /\ k - 1 \notin Bad
  BY <1>1
<1> QED BY <1>1, <1>2
=============================================================================
