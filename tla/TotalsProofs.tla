---------------------------- MODULE TotalsProofs ----------------------------
(***************************************************************************)
(* The laws of Total that the conservation arguments rest on: it is a       *)
(* natural number, it is zero on the empty domain, it splits over a         *)
(* partition of the domain, and it moves by exactly the amount by which one *)
(* argument moves.                                                          *)
(***************************************************************************)
EXTENDS Totals, FiniteSetTheorems, TLAPS

(* The pairs <<x, 1>> .. <<x, n>> are n units.                              *)
LEMMA UnitsOfCount ==
  ASSUME NEW x, NEW n \in Nat
  PROVE  IsFiniteSet(UnitsOf(x, n)) /\ Cardinality(UnitsOf(x, n)) = n
<1>1. IsFiniteSet({x}) /\ Cardinality({x}) = 1
  BY FS_Singleton
<1>2. IsFiniteSet(1..n) /\ Cardinality(1..n) = n
  BY FS_Interval
<1>3. /\ IsFiniteSet({x} \X (1..n))
      /\ Cardinality({x} \X (1..n)) = Cardinality({x}) * Cardinality(1..n)
  BY <1>1, <1>2, FS_Product
<1> QED
  BY <1>1, <1>2, <1>3 DEF UnitsOf

(* A total over a finite domain counts a finite set of units.               *)
LEMMA UnitsFinite ==
  ASSUME NEW S, IsFiniteSet(S), NEW f \in [S -> Nat]
  PROVE  IsFiniteSet(Units(f))
<1> DEFINE T == {UnitsOf(x, f[x]) : x \in S}
           F == [x \in S |-> UnitsOf(x, f[x])]
<1>1. F \in Surjection(S, T)
  BY DEF Surjection
<1>2. IsFiniteSet(T)
  BY <1>1, FS_Surjection
<1>3. \A U \in T : IsFiniteSet(U)
  BY UnitsOfCount
<1>4. IsFiniteSet(UNION T)
  BY <1>2, <1>3, FS_UNION
<1> QED
  BY <1>4 DEF Units

(* The sum of natural numbers is a natural number.                          *)
LEMMA TotalType ==
  ASSUME NEW S, IsFiniteSet(S), NEW f \in [S -> Nat]
  PROVE  Total(f) \in Nat
BY UnitsFinite, FS_CardinalityType DEF Total

(* The sum over no element is zero.                                         *)
LEMMA TotalEmpty ==
  ASSUME NEW f, DOMAIN f = {}
  PROVE  Total(f) = 0
BY FS_EmptySet DEF Total, Units

(* The sum over a domain is the sum over a part of it and over the rest.    *)
LEMMA TotalSplit ==
  ASSUME NEW S, IsFiniteSet(S), NEW f \in [S -> Nat], NEW A \in SUBSET S
  PROVE  Total(f) = Total([x \in A |-> f[x]]) + Total([x \in S \ A |-> f[x]])
<1> DEFINE g == [x \in A |-> f[x]]
           k == [x \in S \ A |-> f[x]]
<1>1. IsFiniteSet(A) /\ IsFiniteSet(S \ A)
  BY FS_Subset, FS_Difference
<1>2. g \in [A -> Nat] /\ k \in [S \ A -> Nat]
  OBVIOUS
<1>3. IsFiniteSet(Units(g)) /\ IsFiniteSet(Units(k))
  <2> HIDE DEF g, k
  <2> QED BY <1>1, <1>2, UnitsFinite
<1>4. Units(f) = Units(g) \cup Units(k)
  BY DEF Units, UnitsOf
<1>5. Units(g) \cap Units(k) = {}
  BY DEF Units, UnitsOf
<1> HIDE DEF g, k
<1>6. Cardinality(Units(g) \cap Units(k)) = 0
  BY <1>5, FS_EmptySet
<1>7. Cardinality(Units(g)) \in Nat /\ Cardinality(Units(k)) \in Nat
  BY <1>3, FS_CardinalityType
<1>8. Cardinality(Units(g) \cup Units(k)) =
        Cardinality(Units(g)) + Cardinality(Units(k))
                              - Cardinality(Units(g) \cap Units(k))
  BY <1>3, FS_Union
<1>9. Total(f) = Total(g) + Total(k)
  BY <1>4, <1>6, <1>7, <1>8 DEF Total
<1> QED
  BY <1>9 DEF g, k

(* The sum over one element is its value.                                   *)
LEMMA TotalSingle ==
  ASSUME NEW x, NEW f \in [{x} -> Nat]
  PROVE  Total(f) = f[x]
<1>1. Units(f) = UnitsOf(x, f[x])
  BY DEF Units
<1> QED
  BY <1>1, UnitsOfCount DEF Total

(* Moving one argument moves the sum by the same amount.                    *)
LEMMA TotalUpdate ==
  ASSUME NEW S, IsFiniteSet(S), NEW f \in [S -> Nat],
         NEW x \in S, NEW n \in Nat
  PROVE  Total([f EXCEPT ![x] = n]) = Total(f) - f[x] + n
<1> DEFINE R    == S \ {x}
           rest == [y \in R |-> f[y]]
           g    == [f EXCEPT ![x] = n]
<1>1. /\ Total(f) = Total([y \in {x} |-> f[y]]) + Total(rest)
      /\ Total([y \in {x} |-> f[y]]) = f[x]
  <2>1. [y \in {x} |-> f[y]] \in [{x} -> Nat]
    OBVIOUS
  <2>2. Total([y \in {x} |-> f[y]]) = [y \in {x} |-> f[y]][x]
    BY <2>1, TotalSingle
  <2> QED
    BY <2>2, TotalSplit
<1>2. /\ Total(g) = Total([y \in {x} |-> g[y]]) + Total(rest)
      /\ Total([y \in {x} |-> g[y]]) = n
  <2>1. g \in [S -> Nat] /\ g[x] = n
    OBVIOUS
  <2>2. rest = [y \in R |-> g[y]]
    OBVIOUS
  <2> HIDE DEF g, rest
  <2>3. [y \in {x} |-> g[y]] \in [{x} -> Nat]
    BY <2>1
  <2>4. Total([y \in {x} |-> g[y]]) = [y \in {x} |-> g[y]][x]
    BY <2>3, TotalSingle
  <2>5. {x} \in SUBSET S
    OBVIOUS
  <2>6. Total(g) = Total([y \in {x} |-> g[y]]) + Total([y \in R |-> g[y]])
    BY <2>1, <2>5, TotalSplit, Zenon
  <2> QED
    BY <2>1, <2>2, <2>4, <2>6
<1>3. Total(rest) \in Nat
  <2>1. IsFiniteSet(R) /\ rest \in [R -> Nat]
    BY FS_Difference
  <2> HIDE DEF rest, R
  <2> QED BY <2>1, TotalType
<1> HIDE DEF rest, g
<1>4. Total(g) = Total(f) - f[x] + n
  BY <1>1, <1>2, <1>3
<1> QED
  BY <1>4 DEF g

(* A sum of zeros is zero.                                                  *)
LEMMA TotalZero ==
  ASSUME NEW f, \A x \in DOMAIN f : f[x] = 0
  PROVE  Total(f) = 0
<1>1. Units(f) = {}
  BY DEF Units, UnitsOf
<1> QED
  BY <1>1, FS_EmptySet DEF Total

(* A sum of larger numbers is no smaller.                                   *)
LEMMA TotalMonotone ==
  ASSUME NEW S, IsFiniteSet(S), NEW f \in [S -> Nat], NEW g \in [S -> Nat],
         \A x \in S : g[x] <= f[x]
  PROVE  Total(g) <= Total(f)
<1>1. \A x \in S : UnitsOf(x, g[x]) \subseteq UnitsOf(x, f[x])
  BY DEF UnitsOf
<1>2. Units(g) \subseteq Units(f)
  BY <1>1 DEF Units
<1>3. IsFiniteSet(Units(f))
  BY UnitsFinite
<1> QED
  BY <1>2, <1>3, FS_Subset DEF Total

(* A sum is its value at one element and the sum over the others.           *)
LEMMA TotalAt ==
  ASSUME NEW S, IsFiniteSet(S), NEW f \in [S -> Nat], NEW x \in S
  PROVE  /\ Total([y \in S \ {x} |-> f[y]]) \in Nat
         /\ Total(f) = f[x] + Total([y \in S \ {x} |-> f[y]])
<1> DEFINE one  == [y \in {x} |-> f[y]]
           rest == [y \in S \ {x} |-> f[y]]
<1>1. one \in [{x} -> Nat] /\ one[x] = f[x] /\ rest \in [S \ {x} -> Nat]
  OBVIOUS
<1>2. {x} \in SUBSET S /\ IsFiniteSet(S \ {x})
  BY FS_Difference
<1>3. Total(f) = Total(one) + Total(rest)
  BY <1>2, TotalSplit
<1> HIDE DEF one, rest
<1>4. Total(one) = one[x] /\ Total(rest) \in Nat
  BY <1>1, <1>2, TotalSingle, TotalType
<1>5. Total(rest) \in Nat /\ Total(f) = f[x] + Total(rest)
  BY <1>1, <1>3, <1>4
<1> QED
  BY <1>5 DEF rest

(* No element is larger than the sum; and a sum that dominates another      *)
(* still does so without one element.                                       *)
LEMMA TotalMember ==
  ASSUME NEW S, IsFiniteSet(S), NEW f \in [S -> Nat], NEW x \in S
  PROVE  f[x] <= Total(f)
<1> DEFINE rest == [y \in S \ {x} |-> f[y]]
<1>1. Total(rest) \in Nat /\ Total(f) = f[x] + Total(rest)
  BY TotalAt
<1> HIDE DEF rest
<1> QED
  BY <1>1

(* A function below another pointwise has the smaller total elsewhere too.  *)
LEMMA TotalDominates ==
  ASSUME NEW S, IsFiniteSet(S), NEW f \in [S -> Nat], NEW g \in [S -> Nat],
         \A y \in S : g[y] <= f[y], NEW x \in S
  PROVE  Total(g) - g[x] <= Total(f) - f[x]
<1> DEFINE F == [y \in S \ {x} |-> f[y]]
           G == [y \in S \ {x} |-> g[y]]
<1>1. F \in [S \ {x} -> Nat] /\ G \in [S \ {x} -> Nat]
      /\ \A y \in S \ {x} : G[y] <= F[y]
  OBVIOUS
<1>2. IsFiniteSet(S \ {x})
  BY FS_Difference
<1>3. /\ Total(f) = f[x] + Total(F) /\ Total(F) \in Nat
      /\ Total(g) = g[x] + Total(G) /\ Total(G) \in Nat
  <2>1. Total(f) = f[x] + Total(F) /\ Total(F) \in Nat
    BY TotalAt
  <2>2. Total(g) = g[x] + Total(G) /\ Total(G) \in Nat
    BY TotalAt
  <2> QED BY <2>1, <2>2
<1> HIDE DEF F, G
<1>4. Total(G) <= Total(F)
  BY <1>1, <1>2, TotalMonotone
<1> QED
  BY <1>3, <1>4

(* Two sums that agree except at one element, which may be in the domain of *)
(* either, differ by its values.                                            *)
LEMMA TotalMove ==
  ASSUME NEW A, IsFiniteSet(A), NEW f \in [A -> Nat],
         NEW B, IsFiniteSet(B), NEW g \in [B -> Nat],
         NEW x, A \ {x} = B \ {x}, \A y \in A \ {x} : f[y] = g[y]
  PROVE  /\ Total(f) \in Nat /\ Total(g) \in Nat
         /\ Total(g) = Total(f) - (IF x \in A THEN f[x] ELSE 0)
                                + (IF x \in B THEN g[x] ELSE 0)
<1> DEFINE F == [y \in A \ {x} |-> f[y]]
           G == [y \in B \ {x} |-> g[y]]
<1>1. F = G
  OBVIOUS
<1>2. Total(f) \in Nat /\ Total(g) \in Nat
  BY TotalType
<1>3. Total(f) = (IF x \in A THEN f[x] ELSE 0) + Total(F) /\ Total(F) \in Nat
  <2>1. CASE x \in A
    BY <2>1, TotalAt
  <2>2. CASE x \notin A
    <3>1. F = f
      BY <2>2
    <3> HIDE DEF F
    <3> QED BY <1>2, <2>2, <3>1
  <2> QED BY <2>1, <2>2
<1>4. Total(g) = (IF x \in B THEN g[x] ELSE 0) + Total(G)
  <2>1. CASE x \in B
    BY <2>1, TotalAt
  <2>2. CASE x \notin B
    <3>1. G = g
      BY <2>2
    <3> HIDE DEF G
    <3> QED BY <1>2, <2>2, <3>1
  <2> QED BY <2>1, <2>2
<1>5. (IF x \in A THEN f[x] ELSE 0) \in Nat /\ (IF x \in B THEN g[x] ELSE 0) \in Nat
  OBVIOUS
<1> HIDE DEF F, G
<1> QED
  BY <1>1, <1>2, <1>3, <1>4, <1>5

=============================================================================
