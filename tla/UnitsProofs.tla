----------------------------- MODULE UnitsProofs -----------------------------
(* What the sums of Units are, for any finite domain.                 *)
EXTENDS Units, FiniteSetTheorems, TLAPS

(* The set whose size Total takes: f[x] tokens for each x. *)
Tokens(f) == UNION {{x} \X (1..f[x]) : x \in DOMAIN f}

(* Membership in the set of tokens. *)
LEMMA TokenMember ==
  ASSUME NEW f, NEW t
  PROVE  t \in Tokens(f) <=>
           \E x \in DOMAIN f : \E i \in 1..f[x] : t = <<x, i>>
  BY DEF Tokens

(* A function on a finite set has finitely many tokens: Total is a number. *)
LEMMA TotalFinite ==
  ASSUME NEW S, IsFiniteSet(S), NEW f \in [S -> Int]
  PROVE  IsFiniteSet(Tokens(f)) /\ Total(f) \in Nat
<1> DEFINE rows == {{x} \X (1..f[x]) : x \in DOMAIN f}
           row == [x \in S |-> {x} \X (1..f[x])]
<1>1. row \in Surjection(S, rows)  BY DEF Surjection
<1>2. IsFiniteSet(rows)  BY <1>1, FS_Surjection
<1>3. \A R \in rows : IsFiniteSet(R)
  <2> SUFFICES ASSUME NEW x \in S PROVE IsFiniteSet({x} \X (1..f[x]))  OBVIOUS
  <2>1. IsFiniteSet(1..f[x])  BY FS_Interval
  <2>2. IsFiniteSet({x})  BY FS_Singleton
  <2> QED BY <2>1, <2>2, FS_Product
<1>4. IsFiniteSet(Tokens(f))
  <2> HIDE DEF rows
  <2>1. IsFiniteSet(UNION rows)  BY <1>2, <1>3, FS_UNION
  <2> QED BY <2>1 DEF Tokens, rows
<1>5. Total(f) = Cardinality(Tokens(f))  BY DEF Total, Tokens
<1> QED BY <1>4, <1>5, FS_CardinalityType

(* Sums are monotone in the domain and in the summands. *)
LEMMA TotalMonotone ==
  ASSUME NEW S, IsFiniteSet(S), NEW g \in [S -> Int],
         NEW R \in SUBSET S, NEW f \in [R -> Int], \A x \in R : f[x] <= g[x]
  PROVE  Total(f) <= Total(g)
<1>1. Tokens(f) \subseteq Tokens(g)
  <2> SUFFICES ASSUME NEW x \in R, NEW i \in 1..f[x]
               PROVE  <<x, i>> \in Tokens(g)
    BY TokenMember
  <2>1. i \in 1..g[x]  OBVIOUS
  <2> QED BY <2>1, TokenMember
<1>2. IsFiniteSet(Tokens(g))  BY TotalFinite
<1>3. Cardinality(Tokens(f)) <= Cardinality(Tokens(g))  BY <1>1, <1>2, FS_Subset
<1> QED BY <1>3 DEF Total, Tokens

(* Setting one summand to n adds at most n to the sum. *)
LEMMA TotalRaised ==
  ASSUME NEW S, IsFiniteSet(S), NEW f \in [S -> Int], NEW x \in S, NEW n \in Nat
  PROVE  Total([f EXCEPT ![x] = n]) <= Total(f) + n
<1> DEFINE g == [f EXCEPT ![x] = n]
           new == {x} \X (1..n)
<1>1. IsFiniteSet(new) /\ Cardinality(new) = n
  <2>1. IsFiniteSet(1..n) /\ Cardinality(1..n) = n  BY FS_Interval
  <2>2. IsFiniteSet({x}) /\ Cardinality({x}) = 1  BY FS_Singleton
  <2>3. /\ IsFiniteSet({x} \X (1..n))
        /\ Cardinality({x} \X (1..n)) = Cardinality({x}) * Cardinality(1..n)
    BY <2>1, <2>2, FS_Product, Zenon
  <2>4. 1 * n = n  OBVIOUS
  <2> QED BY <2>1, <2>2, <2>3, <2>4, Zenon
<1>2. Tokens(g) \subseteq Tokens(f) \cup new
  <2> SUFFICES ASSUME NEW y \in S, NEW i \in 1..g[y]
               PROVE  <<y, i>> \in Tokens(f) \cup new
    <3>1. DOMAIN g = S  OBVIOUS
    <3> HIDE DEF g, new
    <3> QED BY <3>1, TokenMember
  <2>1. CASE y = x  BY <2>1
  <2>2. CASE y # x
    <3>1. i \in 1..f[y]  BY <2>2
    <3> QED BY <3>1, TokenMember
  <2> QED BY <2>1, <2>2
<1> HIDE DEF g, new
<1>3. IsFiniteSet(Tokens(f)) /\ Cardinality(Tokens(f)) \in Nat
  BY TotalFinite, FS_CardinalityType
<1>4. /\ IsFiniteSet(Tokens(f) \cup new)
      /\ Cardinality(Tokens(f) \cup new) =
           Cardinality(Tokens(f)) + Cardinality(new) - Cardinality(Tokens(f) \cap new)
  BY <1>1, <1>3, FS_Union
<1>5. Cardinality(Tokens(f) \cap new) \in Nat
  BY <1>1, FS_Intersection, FS_CardinalityType
<1>6. Cardinality(Tokens(g)) <= Cardinality(Tokens(f) \cup new)
  BY <1>2, <1>4, FS_Subset
<1>7. Cardinality(Tokens(g)) \in Nat  BY <1>2, <1>4, FS_Subset, FS_CardinalityType
<1>8. Cardinality(Tokens(g)) <= Cardinality(Tokens(f)) + n
  <2>1. Cardinality(Tokens(f) \cup new) <= Cardinality(Tokens(f)) + n
    BY <1>1, <1>3, <1>4, <1>5
  <2>2. Cardinality(Tokens(f) \cup new) \in Nat  BY <1>4, FS_CardinalityType
  <2> QED BY <1>3, <1>6, <1>7, <2>1, <2>2
<1> QED BY <1>8 DEF Total, Tokens, g

(* What is bounded summand by summand by two functions is bounded by the sum *)
(* of their totals.                                                          *)
LEMMA TotalSplit ==
  ASSUME NEW S, IsFiniteSet(S), NEW h \in [S -> Int],
         NEW f \in [S -> Nat], NEW g \in [S -> Int],
         \A x \in S : h[x] <= f[x] + g[x]
  PROVE  Total(h) <= Total(f) + Total(g)
<1> DEFINE shifted == {<<p[1], p[2] + f[p[1]]>> : p \in Tokens(g)}
           shift == [p \in Tokens(g) |-> <<p[1], p[2] + f[p[1]]>>]
<1>1. shift \in Surjection(Tokens(g), shifted)  BY DEF Surjection
<1>2. /\ IsFiniteSet(Tokens(f)) /\ IsFiniteSet(Tokens(g)) /\ IsFiniteSet(Tokens(h))
      /\ Total(f) \in Nat /\ Total(g) \in Nat /\ Total(h) \in Nat
  <2>1. f \in [S -> Int]  OBVIOUS
  <2> QED BY <2>1, TotalFinite
<1>3. IsFiniteSet(shifted) /\ Cardinality(shifted) <= Cardinality(Tokens(g))
  <2> HIDE DEF shift, shifted
  <2> QED BY <1>1, <1>2, FS_Surjection
<1>4. Tokens(h) \subseteq Tokens(f) \cup shifted
  <2> SUFFICES ASSUME NEW x \in S, NEW i \in 1..h[x]
               PROVE  <<x, i>> \in Tokens(f) \cup shifted
    <3> HIDE DEF shifted
    <3> QED BY TokenMember
  <2>1. CASE i <= f[x]
    <3>1. i \in 1..f[x]  BY <2>1
    <3> QED BY <3>1, TokenMember
  <2>2. CASE i > f[x]
    <3>1. (i - f[x]) \in 1..g[x] /\ i = (i - f[x]) + f[x]  BY <2>2
    <3>2. <<x, i - f[x]>> \in Tokens(g)  BY <3>1, TokenMember
    <3>3. <<x, (i - f[x]) + f[x]>> \in shifted  BY <3>2
    <3> QED BY <3>1, <3>3
  <2> QED BY <2>1, <2>2
<1> HIDE DEF shifted
<1>5. /\ IsFiniteSet(Tokens(f) \cup shifted)
      /\ Cardinality(Tokens(f) \cup shifted) =
           Cardinality(Tokens(f)) + Cardinality(shifted) - Cardinality(Tokens(f) \cap shifted)
  BY <1>2, <1>3, FS_Union
<1>6. /\ Cardinality(Tokens(f) \cap shifted) \in Nat /\ Cardinality(shifted) \in Nat
  BY <1>2, <1>3, FS_Intersection, FS_CardinalityType
<1>7. Cardinality(Tokens(h)) <= Cardinality(Tokens(f) \cup shifted)
  BY <1>4, <1>5, FS_Subset
<1>8. /\ Total(f) = Cardinality(Tokens(f)) /\ Total(g) = Cardinality(Tokens(g))
      /\ Total(h) = Cardinality(Tokens(h))
  BY DEF Total, Tokens
<1>9. Cardinality(Tokens(f) \cup shifted) \in Nat  BY <1>5, FS_CardinalityType
<1> QED BY <1>2, <1>3, <1>5, <1>6, <1>7, <1>8, <1>9

(* One summand alone. *)
LEMMA TotalAlone ==
  ASSUME NEW S, IsFiniteSet(S), NEW x \in S, NEW n \in Nat
  PROVE  Total([y \in S |-> IF y = x THEN n ELSE 0]) <= n
<1> DEFINE none == [y \in S |-> 0]
           one == [y \in S |-> IF y = x THEN n ELSE 0]
<1>1. none \in [S -> Int] /\ one = [none EXCEPT ![x] = n]  OBVIOUS
<1>2. Tokens(none) = {}  BY DEF Tokens
<1>3. Total(none) = 0  BY <1>2, FS_EmptySet DEF Total, Tokens
<1> HIDE DEF none, one
<1>4. Total(one) <= Total(none) + n  BY <1>1, TotalRaised
<1>5. Total(one) <= n  BY <1>3, <1>4
<1> QED BY <1>5 DEF one

(* A summand and the sum of others together are no more than the whole sum.  *)
LEMMA TotalApart ==
  ASSUME NEW S, IsFiniteSet(S), NEW f \in [S -> Nat], NEW x \in S,
         NEW R \in SUBSET (S \ {x})
  PROVE  Total([y \in R |-> f[y]]) + f[x] <= Total(f)
<1> DEFINE rest == [y \in R |-> f[y]]
           own == {x} \X (1..f[x])
<1>1. IsFiniteSet(own) /\ Cardinality(own) = f[x]
  <2>1. IsFiniteSet(1..f[x]) /\ Cardinality(1..f[x]) = f[x]  BY FS_Interval
  <2>2. IsFiniteSet({x}) /\ Cardinality({x}) = 1  BY FS_Singleton
  <2>3. /\ IsFiniteSet({x} \X (1..f[x]))
        /\ Cardinality({x} \X (1..f[x])) = Cardinality({x}) * Cardinality(1..f[x])
    BY <2>1, <2>2, FS_Product, Zenon
  <2>4. 1 * f[x] = f[x]  OBVIOUS
  <2> QED BY <2>1, <2>2, <2>3, <2>4, Zenon
<1>2. IsFiniteSet(R)  BY FS_Subset
<1>3. rest \in [R -> Int] /\ f \in [S -> Int] /\ DOMAIN rest = R
  OBVIOUS
<1>4. Tokens(rest) \cup own \subseteq Tokens(f)
  <2>1. ASSUME NEW y \in R, NEW i \in 1..rest[y]  PROVE <<y, i>> \in Tokens(f)
    BY TokenMember
  <2>2. Tokens(rest) \subseteq Tokens(f)
    <3> HIDE DEF rest
    <3> QED BY <1>3, <2>1, TokenMember
  <2>3. own \subseteq Tokens(f)
    <3> SUFFICES ASSUME NEW i \in 1..f[x] PROVE <<x, i>> \in Tokens(f)  OBVIOUS
    <3> QED BY TokenMember
  <2> QED BY <2>2, <2>3
<1>5. Tokens(rest) \cap own = {}
  <2> SUFFICES ASSUME NEW y \in R, NEW i \in 1..rest[y]  PROVE <<y, i>> \notin own
    <3> HIDE DEF rest, own
    <3> QED BY <1>3, TokenMember
  <2> QED OBVIOUS
<1> HIDE DEF rest, own
<1>6. IsFiniteSet(Tokens(rest)) /\ IsFiniteSet(Tokens(f))
  BY <1>2, <1>3, TotalFinite
<1>7. Cardinality(Tokens(rest) \cup own) =
        Cardinality(Tokens(rest)) + Cardinality(own) - Cardinality(Tokens(rest) \cap own)
  BY <1>1, <1>6, FS_Union
<1>8. Cardinality(Tokens(rest) \cap own) = 0  BY <1>5, FS_EmptySet
<1>9. Cardinality(Tokens(rest) \cup own) <= Cardinality(Tokens(f))
  BY <1>4, <1>6, FS_Subset
<1>10. Cardinality(Tokens(rest)) \in Nat /\ Cardinality(Tokens(f)) \in Nat
  BY <1>6, FS_CardinalityType
<1>11. Total(rest) = Cardinality(Tokens(rest)) /\ Total(f) = Cardinality(Tokens(f))
  BY DEF Total, Tokens
<1>12. Total(rest) + f[x] <= Total(f)
  BY <1>1, <1>7, <1>8, <1>9, <1>10, <1>11
<1> QED BY <1>12 DEF rest

(* Summands that are not positive do not count. *)
LEMMA TotalOfPositive ==
  ASSUME NEW S, IsFiniteSet(S), NEW f \in [S -> Int],
         NEW R \in SUBSET S, \A x \in S \ R : f[x] <= 0
  PROVE  Total(f) <= Total([x \in R |-> f[x]])
<1> DEFINE rest == [x \in R |-> f[x]]
<1>1. rest \in [R -> Int] /\ DOMAIN rest = R /\ IsFiniteSet(R)  BY FS_Subset
<1>2. Tokens(f) \subseteq Tokens(rest)
  <2> SUFFICES ASSUME NEW x \in S, NEW i \in 1..f[x]  PROVE <<x, i>> \in Tokens(rest)
    <3> HIDE DEF rest
    <3> QED BY TokenMember
  <2>1. x \in R /\ i \in 1..rest[x]  OBVIOUS
  <2> HIDE DEF rest
  <2> QED BY <1>1, <2>1, TokenMember
<1> HIDE DEF rest
<1>3. IsFiniteSet(Tokens(rest))  BY <1>1, TotalFinite
<1>4. Cardinality(Tokens(f)) <= Cardinality(Tokens(rest))  BY <1>2, <1>3, FS_Subset
<1>5. Total(f) <= Total(rest)  BY <1>4 DEF Total, Tokens
<1> QED BY <1>5 DEF rest

(* No summand exceeds the sum. *)
LEMMA TotalBoundsEach ==
  ASSUME NEW S, IsFiniteSet(S), NEW f \in [S -> Nat], NEW x \in S
  PROVE  f[x] <= Total(f)
<1> DEFINE none == [y \in {} |-> f[y]]
<1>1. Total(none) + f[x] <= Total(f)  BY TotalApart
<1>2. none \in [{} -> Int] /\ IsFiniteSet({})  BY FS_EmptySet
<1> HIDE DEF none
<1>3. Total(none) \in Nat  BY <1>2, TotalFinite
<1>4. f \in [S -> Int]  OBVIOUS
<1>5. Total(f) \in Nat  BY <1>4, TotalFinite
<1> QED BY <1>1, <1>3, <1>5
=============================================================================
