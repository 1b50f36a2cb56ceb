--------------------------- MODULE Sorting_proofs ---------------------------
(***************************************************************************)
(* What is sorted is there, once, in order: for every finite set and every *)
(* comparison that tells any two of its elements apart.                    *)
(***************************************************************************)
EXTENDS Sorting, Sequences, FiniteSetTheorems, TLAPS

(* A comparison that tells any two elements apart, and is consistent.      *)
Compares(S, before) ==
    /\ \A x \in S : <<x, x>> \notin before
    /\ \A x, y \in S : x # y => <<x, y>> \in before \/ <<y, x>> \in before
    /\ \A x, y, z \in S : <<x, y>> \in before /\ <<y, z>> \in before => <<x, z>> \in before

Rank(S, before, x) == Cardinality(Foregoing(S, before, x))

(* An element has less before it than one that it is before.               *)
LEMMA RanksTellApart ==
    ASSUME NEW S, IsFiniteSet(S), NEW before, Compares(S, before), NEW x \in S
    PROVE  /\ Rank(S, before, x) \in 0..Cardinality(S) - 1
           /\ \A y \in S : Rank(S, before, y) < Rank(S, before, x) <=> <<y, x>> \in before
           /\ \A y \in S : Rank(S, before, y) = Rank(S, before, x) => y = x
<1> DEFINE F(z) == Foregoing(S, before, z)
<1>1. \A z \in S : IsFiniteSet(F(z)) /\ Cardinality(F(z)) \in Nat /\ F(z) \subseteq S
      BY FS_Subset, FS_CardinalityType DEF Foregoing
<1>2. Cardinality(S) \in Nat
      BY FS_CardinalityType
<1>3. \A z \in S : Cardinality(F(z)) < Cardinality(S)
  <2> TAKE z \in S
  <2>1. z \notin F(z)
        BY DEF Foregoing, Compares
  <2>2. Cardinality(F(z)) <= Cardinality(S) /\ (Cardinality(F(z)) = Cardinality(S) => F(z) = S)
        BY <1>1, FS_Subset
  <2>3. QED BY <1>1, <1>2, <2>1, <2>2
<1>4. \A y, z \in S : <<y, z>> \in before => Cardinality(F(y)) < Cardinality(F(z))
  <2> SUFFICES ASSUME NEW y \in S, NEW z \in S, <<y, z>> \in before
               PROVE  Cardinality(F(y)) < Cardinality(F(z))
      OBVIOUS
  <2>1. F(y) \subseteq F(z) /\ y \in F(z) /\ y \notin F(y)
        BY DEF Foregoing, Compares
  <2>2. Cardinality(F(y)) <= Cardinality(F(z))
        /\ (Cardinality(F(y)) = Cardinality(F(z)) => F(y) = F(z))
        BY <1>1, <2>1, FS_Subset
  <2>3. QED BY <1>1, <2>1, <2>2
<1> HIDE DEF F
<1>5. \A y \in S : y = x \/ <<x, y>> \in before \/ <<y, x>> \in before
      BY DEF Compares
<1>6. <<x, x>> \notin before /\ \A y \in S : ~(<<x, y>> \in before /\ <<y, x>> \in before)
      BY DEF Compares
<1>7. \A z \in S : Rank(S, before, z) = Cardinality(F(z))
      BY DEF F, Rank
<1>8. Rank(S, before, x) \in 0..Cardinality(S) - 1
      BY <1>1, <1>2, <1>3, <1>7
<1>9. ASSUME NEW y \in S
      PROVE  /\ Rank(S, before, y) < Rank(S, before, x) <=> <<y, x>> \in before
             /\ Rank(S, before, y) = Rank(S, before, x) => y = x
  <2> DEFINE m == Cardinality(F(y))
             n == Cardinality(F(x))
  <2>1. m \in Nat /\ n \in Nat
        BY <1>1
  <2>2. (<<y, x>> \in before => m < n) /\ (<<x, y>> \in before => n < m)
             /\ (x = y => m = n)
        BY <1>4
  <2> HIDE DEF m, n
  <2>3. (m < n <=> <<y, x>> \in before) /\ (m = n => y = x)
        BY <1>5, <2>1, <2>2
  <2>4. QED BY <1>7, <2>3 DEF m, n
<1>10. QED BY <1>8, <1>9

(* What is sorted holds every element, once, each behind all before it.    *)
LEMMA Sorted ==
    ASSUME NEW S, IsFiniteSet(S), NEW before, Compares(S, before),
           NEW s, s = InTurn(S, before)
    PROVE  /\ s \in [1..Cardinality(S) -> S]
           /\ \A k \in 1..Cardinality(S) : Rank(S, before, s[k]) = k - 1
           /\ \A x \in S : /\ Rank(S, before, x) + 1 \in 1..Cardinality(S)
                           /\ s[Rank(S, before, x) + 1] = x
           /\ \A j, k \in 1..Cardinality(S) : <<s[j], s[k]>> \in before <=> j < k
<1> DEFINE n == Cardinality(S)
           r(x) == Rank(S, before, x)
           ranks == [x \in S |-> r(x)]
<1>1. n \in Nat /\ IsFiniteSet(0..n - 1) /\ Cardinality(0..n - 1) = n
  <2>1. n \in Nat
        BY FS_CardinalityType
  <2>2. QED BY <2>1, FS_Interval, SMTT(60)
<1>2. \A x \in S : r(x) \in 0..n - 1
      BY RanksTellApart
<1>3. \A x, y \in S : (r(y) < r(x) <=> <<y, x>> \in before) /\ (r(y) = r(x) => y = x)
      BY RanksTellApart
<1> HIDE DEF r
<1>4. ranks \in Injection(S, 0..n - 1)
  <2>1. ranks \in [S -> 0..n - 1]
        BY <1>2
  <2>2. \A x, y \in S : ranks[x] = ranks[y] => x = y
        BY <1>3
  <2>3. QED BY <2>1, <2>2 DEF Injection, IsInjective
<1>5. ranks \in Surjection(S, 0..n - 1)
      BY <1>1, <1>4, FS_Injection
<1>6. \A k \in 0..n - 1 : \E x \in S : r(x) = k
      BY <1>5 DEF Surjection
<1>7. \A k \in 1..n : s[k] \in S /\ r(s[k]) = k - 1
  <2> TAKE k \in 1..n
  <2>1. k - 1 \in 0..n - 1
        BY <1>1
  <2>2. \E x \in S : r(x) = k - 1
        BY <1>6, <2>1
  <2>3. s[k] = CHOOSE x \in S : r(x) = k - 1
        BY DEF InTurn, r, Rank
  <2>4. QED BY <2>2, <2>3
<1>8. s \in [1..n -> S]
      BY <1>7 DEF InTurn
<1>9. \A x \in S : r(x) + 1 \in 1..n /\ s[r(x) + 1] = x
  <2> TAKE x \in S
  <2>1. r(x) + 1 \in 1..n
        BY <1>1, <1>2
  <2>2. r(s[r(x) + 1]) = r(x) /\ s[r(x) + 1] \in S
        BY <1>2, <1>7, <2>1
  <2>3. QED BY <1>3, <2>1, <2>2
<1>10. \A j, k \in 1..n : <<s[j], s[k]>> \in before <=> j < k
  <2> TAKE j, k \in 1..n
  <2>1. <<s[j], s[k]>> \in before <=> r(s[j]) < r(s[k])
        BY <1>3, <1>7
  <2>2. QED BY <1>1, <1>7, <2>1
<1>11. QED BY <1>7, <1>8, <1>9, <1>10 DEF r

(* What is kept of a sequence is what there is in it of the set, each from *)
(* a place behind those of all before it.                                  *)
TakenInTurn(kept, s, S) ==
    \E at \in [1..Len(kept) -> 1..Len(s)] :
        /\ \A k \in 1..Len(kept) : kept[k] = s[at[k]]
        /\ \A j, k \in 1..Len(kept) : j < k => at[j] < at[k]
        /\ \A i \in 1..Len(s) : s[i] \in S => \E k \in 1..Len(kept) : at[k] = i

LEMMA KeptInTurn ==
    ASSUME NEW T, NEW s \in Seq(T), NEW S
    PROVE  Keeping(s, S) \in Seq(T \cap S) /\ TakenInTurn(Keeping(s, S), s, S)
<1> DEFINE P == Positions(s, S)
           before == {p \in P \X P : p[1] < p[2]}
           at == InTurn(P, before)
           kept == Keeping(s, S)
           n == Cardinality(P)
<1>1. Len(s) \in Nat /\ DOMAIN s = 1..Len(s) /\ \A i \in 1..Len(s) : s[i] \in T
      OBVIOUS
<1>2. /\ P \subseteq 1..Len(s) /\ \A i \in P : i \in Int
      /\ \A i \in 1..Len(s) : i \in P <=> s[i] \in S
      BY <1>1 DEF Positions
<1>3. IsFiniteSet(P) /\ n \in Nat
  <2>1. IsFiniteSet(1..Len(s))
        BY <1>1, FS_Interval
  <2>2. QED BY <1>2, <2>1, FS_Subset, FS_CardinalityType
<1> HIDE DEF P
<1>4. \A i, j \in P : <<i, j>> \in before <=> i < j
      OBVIOUS
<1>5. Compares(P, before)
      BY <1>2, <1>4 DEF Compares
<1> HIDE DEF before
<1>6. /\ at \in [1..n -> P]
      /\ \A i \in P : \E k \in 1..n : at[k] = i
      /\ \A j, k \in 1..n : <<at[j], at[k]>> \in before <=> j < k
      BY <1>3, <1>5, Sorted
<1> HIDE DEF at, n
<1>7. kept = [k \in 1..n |-> s[at[k]]]
  <2>1. DOMAIN at = 1..n
        BY <1>6
  <2>2. QED BY <2>1 DEF Keeping, at, before, P
<1> HIDE DEF kept
<1>8. \A k \in 1..n : at[k] \in 1..Len(s) /\ s[at[k]] \in T \cap S
      BY <1>1, <1>2, <1>6
<1>9. kept \in Seq(T \cap S) /\ Len(kept) = n
      BY <1>3, <1>7, <1>8
<1>10. at \in [1..Len(kept) -> 1..Len(s)]
      BY <1>6, <1>8, <1>9
<1>11. \A k \in 1..Len(kept) : kept[k] = s[at[k]]
      BY <1>7, <1>9
<1>12. \A j, k \in 1..Len(kept) : j < k => at[j] < at[k]
      BY <1>4, <1>6, <1>9
<1>13. \A i \in 1..Len(s) : s[i] \in S => \E k \in 1..Len(kept) : at[k] = i
      BY <1>2, <1>6, <1>9
<1>14. QED BY <1>9, <1>10, <1>11, <1>12, <1>13 DEF TakenInTurn, kept

=============================================================================
