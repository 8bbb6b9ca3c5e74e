-------------------------- MODULE TrancheVecProofs --------------------------
(***************************************************************************)
(* Theorems about module TrancheVec, for any cooldown, any amounts and any  *)
(* number of unstakes and epochs: the loop of collapse_matured_tranches     *)
(* does to the Vec what the set operations of module Tranches do to the set *)
(* of its tranches, the Vec stays as short as its doc says, and it keeps    *)
(* the promise of ClaimQueue.                                               *)
(***************************************************************************)
EXTENDS TrancheVec, TranchesProofs

(* Induction as a fact about sets: the library's induction theorems take an *)
(* operator, so each use defines the set of the numbers that satisfy what   *)
(* it proves.                                                               *)
LEMMA SetInduction ==
  ASSUME NEW S, 0 \in S, \A n \in Nat : n \in S => n + 1 \in S
  PROVE  Nat \subseteq S
<1> SUFFICES ASSUME Nat \ S # {} PROVE FALSE
  OBVIOUS
<1>1. PICK m \in Nat \ S : \A k \in Nat \ S : ~(<<k, m>> \in OpToRel(<, Nat))
  BY NatLessThanWellFounded, WFMin
<1>2. m # 0 /\ m - 1 \in Nat
  OBVIOUS
<1>3. CASE m - 1 \in S
  BY <1>2, <1>3
<1>4. CASE m - 1 \notin S
  <2>1. <<m - 1, m>> \in OpToRel(<, Nat)
    BY <1>2 DEF OpToRel
  <2> QED BY <1>1, <1>2, <1>4, <2>1
<1> QED BY <1>3, <1>4

(* The maximum of a set is any member that bounds it.                       *)
LEMMA MaxIs ==
  ASSUME NEW S \in SUBSET Nat, NEW m \in S, \A s \in S : s <= m
  PROVE  Max(S) = m
<1>1. Max(S) \in S /\ \A s \in S : s <= Max(S)
  BY MaxOfBounded
<1>2. Max(S) <= m /\ m <= Max(S) /\ Max(S) \in Nat /\ m \in Nat
  BY <1>1
<1> QED BY <1>2

-----------------------------------------------------------------------------
(* A Vec of tranches, and swap_remove.                                      *)

(* The elements of a Vec of tranches are a finite set of tranches, as many  *)
(* as its length if none of them occurs twice.                              *)
LEMMA ElementsOf ==
  ASSUME NEW v \in Seq(Tranche)
  PROVE  /\ ToSet(v) \subseteq Tranche /\ IsFiniteSet(ToSet(v))
         /\ IsInjective(v) => Cardinality(ToSet(v)) = Len(v)
<1>1. Len(v) \in Nat /\ DOMAIN v = 1..Len(v) /\ \A i \in 1..Len(v) : v[i] \in Tranche
  OBVIOUS
<1>2. ToSet(v) \subseteq Tranche
  BY <1>1 DEF ToSet
<1>3. IsFiniteSet(1..Len(v))
  BY <1>1, FS_Interval
<1>4. v \in Surjection(1..Len(v), ToSet(v))
  <2>1. v \in [1..Len(v) -> ToSet(v)]
    BY <1>1 DEF ToSet
  <2> QED BY <1>1, <2>1 DEF ToSet, Surjection
<1>5. IsFiniteSet(ToSet(v))
  BY <1>3, <1>4, FS_Surjection DEF ExistsSurjection
<1>6. ASSUME IsInjective(v) PROVE Cardinality(ToSet(v)) = Len(v)
  <2>1. v \in Injection(1..Len(v), ToSet(v))
    BY <1>1, <1>4, <1>6 DEF Surjection, Injection, IsInjective
  <2>2. ExistsBijection(1..Len(v), ToSet(v))
    BY <1>4, <2>1 DEF ExistsBijection, Bijection
  <2> QED BY <1>1, <2>2, FS_CountingElements
<1> QED BY <1>2, <1>5, <1>6

(* swap_remove takes the i-th tranche out, and no other, and leaves alone   *)
(* what stands before it: the iteration may stay at i.                      *)
LEMMA SwapRemoved ==
  ASSUME NEW s \in Seq(Tranche), IsInjective(s), NEW i \in 1..Len(s)
  PROVE  LET r == SwapRemove(s, i)
         IN  /\ r \in Seq(Tranche) /\ Len(r) = Len(s) - 1 /\ IsInjective(r)
             /\ ToSet(r) = ToSet(s) \ {s[i]}
             /\ \A j \in 1..(i - 1) : r[j] = s[j]
<1> DEFINE r == SwapRemove(s, i)
           n == Len(s)
<1>1. n \in Nat \ {0} /\ DOMAIN s = 1..n /\ \A j \in 1..n : s[j] \in Tranche
  OBVIOUS
<1>2. /\ DOMAIN r = 1..(n - 1)
      /\ \A j \in 1..(n - 1) : r[j] = IF j = i THEN s[n] ELSE s[j]
  BY DEF SwapRemove
<1>3. r \in Seq(Tranche) /\ Len(r) = n - 1
  <2>1. r \in [1..(n - 1) -> Tranche]
    BY <1>1 DEF SwapRemove
  <2>2. n - 1 \in Nat
    BY <1>1
  <2> HIDE DEF r
  <2> QED BY <2>1, <2>2
<1>4. IsInjective(r)
  BY <1>1, <1>2 DEF IsInjective
<1>5. ToSet(r) = ToSet(s) \ {s[i]}
  <2> HIDE DEF r, n
  <2>0. i \in 1..n
    BY DEF n
  <2>1. ASSUME NEW j \in 1..n, j # i PROVE s[j] \in ToSet(r)
    <3>1. CASE j = n
      <4>1. i \in 1..(n - 1) /\ r[i] = s[j]
        BY <1>1, <1>2, <2>0, <2>1, <3>1
      <4> QED BY <1>2, <4>1 DEF ToSet
    <3>2. CASE j # n
      <4>1. j \in 1..(n - 1) /\ r[j] = s[j]
        BY <1>1, <1>2, <2>0, <2>1, <3>2
      <4> QED BY <1>2, <4>1 DEF ToSet
    <3> QED BY <3>1, <3>2
  <2>2. ASSUME NEW j \in 1..(n - 1) PROVE r[j] \in ToSet(s) /\ r[j] # s[i]
    <3>1. j \in 1..n /\ n \in 1..n /\ (j = i => n # i)
      BY <1>1, <2>0
    <3>2. \A k \in 1..n : k # i => s[k] # s[i]
      BY <1>1, <2>0 DEF IsInjective
    <3> QED BY <1>1, <1>2, <2>2, <3>1, <3>2 DEF ToSet
  <2>3. ToSet(r) \subseteq ToSet(s) \ {s[i]}
    BY <1>2, <2>2 DEF ToSet
  <2>4. ToSet(s) \ {s[i]} \subseteq ToSet(r)
    BY <1>1, <2>1 DEF ToSet
  <2> QED BY <2>3, <2>4
<1>6. \A j \in 1..(i - 1) : r[j] = s[j]
  BY <1>1, <1>2
<1> QED BY <1>3, <1>4, <1>5, <1>6

-----------------------------------------------------------------------------
(* The recursive functions of module TrancheVec.                            *)

(* The loop of collapse_matured_tranches is a recursive function of the     *)
(* number of iterations; that it exists, so that its equations hold, is     *)
(* proved from the set of its initial segments.                             *)
LEMMA WalkSteps ==
  ASSUME NEW v \in Seq(Tranche)
  PROVE  /\ Walk(v)[0] = [rest |-> v, i |-> 1, merged |-> NoneMatured]
         /\ \A n \in 1..Len(v) : Walk(v)[n] = Iterate(Walk(v)[n - 1])
<1> DEFINE start == [rest |-> v, i |-> 1, merged |-> NoneMatured]
           F(f, m) == f = [n \in 0..m |-> IF n = 0 THEN start
                                          ELSE Iterate(f[n - 1])]
           S == {m \in Nat : \E f : F(f, m)}
<1>1. 0 \in S
  <2>1. F([n \in 0..0 |-> start], 0)
    OBVIOUS
  <2> QED BY <2>1
<1>2. ASSUME NEW m \in Nat, m \in S PROVE m + 1 \in S
  <2>1. PICK f : F(f, m)
    BY <1>2
  <2> DEFINE g == [n \in 0..(m + 1) |-> IF n = m + 1 THEN Iterate(f[m]) ELSE f[n]]
  <2>2. F(g, m + 1)
    BY <2>1
  <2> HIDE DEF F, g
  <2> QED BY <2>2
<1>3. Len(v) \in S
  <2> HIDE DEF S
  <2> QED BY <1>1, <1>2, SetInduction
<1>4. F(Walk(v), Len(v))
  BY <1>3 DEF Walk
<1> QED BY <1>4

(* The same for the fold that Vec::retain stands for.                       *)
LEMMA KeptSteps ==
  ASSUME NEW v \in Seq(Tranche)
  PROVE  \E f : /\ f[0] = <<>> /\ RemoveRequest(v) = f[Len(v)]
                /\ \A n \in 1..Len(v) :
                     f[n] = IF v[n].locked THEN f[n - 1] ELSE Append(f[n - 1], v[n])
<1> DEFINE Step(w, n) == IF v[n].locked THEN w ELSE Append(w, v[n])
           F(f, m) == f = [n \in 0..m |-> IF n = 0 THEN <<>> ELSE Step(f[n - 1], n)]
           S == {m \in Nat : \E f : F(f, m)}
<1>1. 0 \in S
  <2>1. F([n \in 0..0 |-> <<>>], 0)
    OBVIOUS
  <2> QED BY <2>1
<1>2. ASSUME NEW m \in Nat, m \in S PROVE m + 1 \in S
  <2>1. PICK f : F(f, m)
    BY <1>2
  <2> DEFINE g == [n \in 0..(m + 1) |-> IF n = m + 1 THEN Step(f[m], m + 1) ELSE f[n]]
  <2>2. F(g, m + 1)
    <3> HIDE DEF Step
    <3> QED BY <2>1
  <2> HIDE DEF F, g
  <2> QED BY <2>2
<1>3. Len(v) \in S
  <2> HIDE DEF S
  <2> QED BY <1>1, <1>2, SetInduction
<1> DEFINE kept == CHOOSE f : F(f, Len(v))
<1>4. F(kept, Len(v))
  BY <1>3
<1>5. RemoveRequest(v) = kept[Len(v)]
  BY DEF RemoveRequest
<1>6. /\ kept[0] = <<>>
      /\ \A n \in 1..Len(v) : kept[n] = Step(kept[n - 1], n)
  <2> HIDE DEF kept, Step
  <2> QED BY <1>4
<1> HIDE DEF kept
<1> QED BY <1>5, <1>6

-----------------------------------------------------------------------------
(* What the loop collects.                                                  *)

(* What matured_amount, matured_residual, matured_storage and matured_epoch *)
(* hold once the tranches of M have been collected, in any order.           *)
CollectedOf(M) ==
  [withdrawal_amount |-> AmountOf(M),
   unstake_epoch     |-> IF M = {} THEN 0 ELSE Max({t.unstake_epoch : t \in M}),
   wnear_residual    |-> ResidualOf(M),
   storage_was_paid  |-> \E t \in M : t.storage_was_paid,
   locked            |-> FALSE]

(* They start as the collection of no tranche.                              *)
LEMMA CollectedNone == CollectedOf({}) = NoneMatured
BY NoTranche DEF CollectedOf, NoneMatured

(* The comparison with matured_epoch keeps the maximum.                     *)
LEMMA CollectedEpoch ==
  ASSUME epoch \in Nat, NEW M, M \subseteq Tranche, \A s \in M : s.unstake_epoch <= epoch,
         NEW t \in Tranche, t.unstake_epoch <= epoch
  PROVE  Max({CollectedOf(M).unstake_epoch, t.unstake_epoch}) =
           Max({s.unstake_epoch : s \in M \cup {t}})
<1> DEFINE E == {s.unstake_epoch : s \in M}
           e == t.unstake_epoch
<1>1. E \subseteq Nat /\ e \in Nat /\ (\A s \in E : s <= epoch)
  BY DEF Tranche
<1>2. {s.unstake_epoch : s \in M \cup {t}} = E \cup {e}
  OBVIOUS
<1>3. CollectedOf(M).unstake_epoch = IF M = {} THEN 0 ELSE Max(E)
  BY DEF CollectedOf
<1>4. CASE M = {}
  <2>1. E = {}
    BY <1>4
  <2>2. Max({0, e}) = e /\ Max({e}) = e
    <3>1. {0, e} \subseteq Nat /\ (\A s \in {0, e} : s <= e) /\ {e} \subseteq Nat
      BY <1>1
    <3> QED BY <3>1, MaxIs
  <2> QED BY <1>2, <1>3, <1>4, <2>1, <2>2
<1>5. CASE M # {}
  <2>1. E # {}
    BY <1>5
  <2> DEFINE m == Max(E)
  <2>2. m \in E /\ \A s \in E : s <= m
    <3> HIDE DEF E
    <3> QED BY <1>1, <2>1, MaxOfBounded
  <2> HIDE DEF E, m, e
  <2>3. m \in Nat /\ e \in Nat
    BY <1>1, <2>2
  <2>4. PICK x \in {m, e} : m <= x /\ e <= x
    BY <2>3
  <2>5. Max({m, e}) = x
    <3>1. {m, e} \subseteq Nat /\ x \in {m, e} /\ \A s \in {m, e} : s <= x
      BY <2>3, <2>4
    <3> QED BY <3>1, MaxIs
  <2>6. Max(E \cup {e}) = x
    <3>1. E \cup {e} \subseteq Nat /\ x \in E \cup {e}
      BY <1>1, <2>2, <2>4
    <3>2. \A s \in E \cup {e} : s <= x
      BY <1>1, <2>2, <2>3, <2>4
    <3> QED BY <3>1, <3>2, MaxIs
  <2> QED BY <1>2, <1>3, <1>5, <2>5, <2>6 DEF m, e
<1> QED BY <1>4, <1>5

(* Collecting one tranche more makes them the collection of one more.       *)
LEMMA CollectedAdd ==
  ASSUME epoch \in Nat, NEW M, M \subseteq Tranche, IsFiniteSet(M),
         \A s \in M : s.unstake_epoch <= epoch,
         NEW t \in Tranche, t \notin M, t.unstake_epoch <= epoch
  PROVE  Collect(CollectedOf(M), t) = CollectedOf(M \cup {t})
<1>1. AmountOf(M \cup {t}) = AmountOf(M) + t.withdrawal_amount
  BY AmountAdd
<1>2. ResidualOf(M \cup {t}) = ResidualOf(M) + t.wnear_residual
  <2>1. /\ M \cup {t} \subseteq Tranche /\ IsFiniteSet(M \cup {t})
        /\ M \ {t} = (M \cup {t}) \ {t}
    BY AmountAdd
  <2>2. ResidualOf(M) \in Nat /\ t.wnear_residual \in Nat
    BY ResidualType DEF Tranche
  <2>3. ResidualOf(M \cup {t}) = ResidualOf(M) - (IF t \in M THEN t.wnear_residual ELSE 0)
                    + (IF t \in M \cup {t} THEN t.wnear_residual ELSE 0)
    BY <2>1, TrancheMove
  <2> QED BY <2>2, <2>3
<1>3. Max({CollectedOf(M).unstake_epoch, t.unstake_epoch}) =
           Max({s.unstake_epoch : s \in M \cup {t}})
  BY CollectedEpoch
<1>4. (\E s \in M : s.storage_was_paid) \/ t.storage_was_paid
        <=> \E s \in M \cup {t} : s.storage_was_paid
  OBVIOUS
<1>5. M \cup {t} # {}
  OBVIOUS
<1>6. /\ CollectedOf(M).withdrawal_amount = AmountOf(M)
      /\ CollectedOf(M).wnear_residual = ResidualOf(M)
      /\ CollectedOf(M).storage_was_paid = (\E s \in M : s.storage_was_paid)
  BY DEF CollectedOf
<1>7. Collect(CollectedOf(M), t) =
        [withdrawal_amount |-> AmountOf(M \cup {t}),
         unstake_epoch |-> Max({s.unstake_epoch : s \in M \cup {t}}),
         wnear_residual |-> ResidualOf(M \cup {t}),
         storage_was_paid |-> \E s \in M \cup {t} : s.storage_was_paid,
         locked |-> FALSE]
  BY <1>1, <1>2, <1>3, <1>4, <1>6 DEF Collect
<1> QED BY <1>5, <1>7 DEF CollectedOf

-----------------------------------------------------------------------------
(* The loop of collapse_matured_tranches, and the operations on a Vec.      *)

(* The loop invariant, after n iterations on the Vec v: what was removed    *)
(* are matured tranches of v and has been collected, what stands before the *)
(* index stays, and every iteration has moved the index or shortened the    *)
(* Vec by one.                                                              *)
Walked(v, n, c) ==
  LET Q == ToSet(v)
      R == ToSet(c.rest)
  IN  /\ c.rest \in Seq(Tranche) /\ IsInjective(c.rest) /\ R \subseteq Q
      /\ c.i \in Nat \ {0} /\ c.i + Len(v) = n + Len(c.rest) + 1
      /\ Q \ R \subseteq Matured(Q)
      /\ \A j \in 1..(c.i - 1) : c.rest[j] \notin Matured(Q)
      /\ c.merged = CollectedOf(Q \ R)

(* It holds when the loop is entered.                                       *)
LEMMA WalkedStart ==
  ASSUME NEW v \in Seq(Tranche), IsInjective(v)
  PROVE  Walked(v, 0, [rest |-> v, i |-> 1, merged |-> NoneMatured])
<1> DEFINE c == [rest |-> v, i |-> 1, merged |-> NoneMatured]
<1>1. c.rest = v /\ c.i = 1 /\ c.merged = CollectedOf({})
  BY CollectedNone
<1> HIDE DEF c
<1>2. ToSet(v) \ ToSet(c.rest) = {}
  BY <1>1
<1>3. c.i + Len(v) = 0 + Len(c.rest) + 1 /\ 1..(c.i - 1) = {}
  BY <1>1
<1>4. /\ c.rest \in Seq(Tranche) /\ IsInjective(c.rest) /\ c.i \in Nat \ {0}
      /\ ToSet(c.rest) \subseteq ToSet(v)
  BY <1>1
<1>5. /\ ToSet(v) \ ToSet(c.rest) \subseteq Matured(ToSet(v))
      /\ c.merged = CollectedOf(ToSet(v) \ ToSet(c.rest))
  BY <1>1, <1>2
<1>6. \A j \in 1..(c.i - 1) : c.rest[j] \notin Matured(ToSet(v))
  BY <1>3
<1>7. Walked(v, 0, c)
  BY <1>3, <1>4, <1>5, <1>6 DEF Walked
<1> QED BY <1>7 DEF c

(* It is kept by an iteration, whether it steps over a tranche or removes   *)
(* one and tests what took its place.                                       *)
LEMMA WalkedStep ==
  ASSUME epoch \in Nat, NEW v \in Seq(Tranche), NEW n \in Nat, n < Len(v),
         NEW c, Walked(v, n, c)
  PROVE  Walked(v, n + 1, Iterate(c))
<1> DEFINE Q == ToSet(v)
           R == ToSet(c.rest)
           t == c.rest[c.i]
           i == c.i
<1>1. /\ c.rest \in Seq(Tranche) /\ IsInjective(c.rest) /\ R \subseteq Q
      /\ i \in Nat \ {0} /\ i + Len(v) = n + Len(c.rest) + 1
      /\ Q \ R \subseteq Matured(Q)
      /\ \A j \in 1..(i - 1) : c.rest[j] \notin Matured(Q)
      /\ c.merged = CollectedOf(Q \ R)
  BY DEF Walked
<1>2. i \in 1..Len(c.rest) /\ Len(v) \in Nat /\ Len(c.rest) \in Nat
  BY <1>1
<1>3. t \in R /\ t \in Tranche
  BY <1>1, <1>2 DEF ToSet
<1>4. t \in Matured(Q) <=> ~t.locked /\ IsMatured(t)
  BY <1>1, <1>3 DEF Matured
<1>5. CASE t.locked \/ ~IsMatured(t)
  <2>1. Iterate(c) = [c EXCEPT !.i = i + 1]
    BY <1>2, <1>5 DEF Iterate
  <2> DEFINE d == Iterate(c)
  <2>2. d.rest = c.rest /\ d.i = i + 1 /\ d.merged = c.merged
    BY <2>1
  <2> HIDE DEF d
  <2>3. \A j \in 1..(d.i - 1) : d.rest[j] \notin Matured(Q)
    BY <1>1, <1>4, <1>5, <2>2
  <2>4. d.i \in Nat \ {0} /\ d.i + Len(v) = (n + 1) + Len(d.rest) + 1
    <3>1. PICK k \in Nat, a \in Nat, b \in Nat : k = i /\ a = Len(v) /\ b = Len(c.rest)
      BY <1>1, <1>2
    <3>2. k + a = n + b + 1
      BY <1>1, <3>1
    <3>3. (k + 1) + a = (n + 1) + b + 1
      BY <3>2
    <3>4. d.i = k + 1 /\ Len(d.rest) = b
      BY <2>2, <3>1
    <3>5. d.i + a = (n + 1) + Len(d.rest) + 1
      BY <3>3, <3>4
    <3>6. k + 1 \in Nat \ {0}
      OBVIOUS
    <3>7. d.i \in Nat \ {0}
      BY <3>4, <3>6
    <3> QED BY <3>1, <3>5, <3>7
  <2>5. Walked(v, n + 1, d)
    BY <1>1, <2>2, <2>3, <2>4 DEF Walked
  <2> QED BY <2>5 DEF d
<1>6. CASE ~t.locked /\ IsMatured(t)
  <2> DEFINE r == SwapRemove(c.rest, i)
             d == Iterate(c)
  <2>1. d.rest = r /\ d.i = i /\ d.merged = Collect(c.merged, t)
    BY <1>2, <1>6 DEF Iterate, NextIndex
  <2>2. /\ r \in Seq(Tranche) /\ Len(r) = Len(c.rest) - 1 /\ IsInjective(r)
        /\ ToSet(r) = R \ {t}
        /\ \A j \in 1..(i - 1) : r[j] = c.rest[j]
    <3> HIDE DEF r
    <3> QED BY <1>1, <1>2, SwapRemoved DEF r
  <2> HIDE DEF r, d, i
  <2>3. d.i \in Nat \ {0} /\ d.i + Len(v) = (n + 1) + Len(d.rest) + 1
    <3>1. PICK k \in Nat, a \in Nat, b \in Nat : k = i /\ a = Len(v) /\ b = Len(c.rest)
      BY <1>1, <1>2
    <3>2. k + a = n + b + 1
      BY <1>1, <3>1
    <3>3. k + a = (n + 1) + (b - 1) + 1
      BY <3>2
    <3> QED BY <1>1, <2>1, <2>2, <3>1, <3>3
  <2>4. \A j \in 1..(d.i - 1) : d.rest[j] \notin Matured(Q)
    BY <1>1, <2>1, <2>2
  <2>5. Q \ ToSet(d.rest) = (Q \ R) \cup {t}
    BY <1>1, <1>3, <2>1, <2>2
  <2>6. Q \ ToSet(d.rest) \subseteq Matured(Q)
    BY <1>1, <1>4, <1>6, <2>5
  <2>7. d.merged = CollectedOf(Q \ ToSet(d.rest))
    <3>1. Q \ R \subseteq Tranche /\ IsFiniteSet(Q \ R)
      BY ElementsOf, FS_Subset
    <3>2. \A s \in Q : s \in Tranche /\ (IsMatured(s) => s.unstake_epoch <= epoch)
      <4>1. Q \subseteq Tranche
        BY ElementsOf
      <4> QED BY <4>1, CooldownAssumption DEF IsMatured, Tranche
    <3>3. (\A s \in Q \ R : s.unstake_epoch <= epoch) /\ t.unstake_epoch <= epoch
      BY <1>1, <1>3, <1>6, <3>2 DEF Matured
    <3>4. Collect(CollectedOf(Q \ R), t) = CollectedOf((Q \ R) \cup {t})
      BY <1>3, <3>1, <3>3, CollectedAdd
    <3> QED BY <1>1, <2>1, <2>5, <3>4
  <2>8. ToSet(d.rest) \subseteq Q
    BY <1>1, <2>1, <2>2
  <2>9. Walked(v, n + 1, d)
    BY <2>1, <2>2, <2>3, <2>4, <2>6, <2>7, <2>8 DEF Walked
  <2> QED BY <2>9 DEF d
<1> QED BY <1>5, <1>6

(* collapse_matured_tranches takes out every matured tranche that is not    *)
(* locked, whatever the order of the Vec, and nothing else, and collects    *)
(* each of them once.                                                       *)
LEMMA CollapsedVec ==
  ASSUME epoch \in Nat, NEW v \in Seq(Tranche), IsInjective(v)
  PROVE  LET c == Collapse(v)
             Q == ToSet(v)
         IN  /\ c.rest \in Seq(Tranche) /\ IsInjective(c.rest)
             /\ ToSet(c.rest) = Q \ Matured(Q)
             /\ c.merged = CollectedOf(Matured(Q))
<1> DEFINE Q == ToSet(v)
           S == {n \in Nat : n <= Len(v) => Walked(v, n, Walk(v)[n])}
           c == Collapse(v)
<1>1. 0 \in S
  BY WalkSteps, WalkedStart
<1>2. ASSUME NEW n \in Nat, n \in S PROVE n + 1 \in S
  <2> SUFFICES ASSUME n + 1 <= Len(v) PROVE Walked(v, n + 1, Walk(v)[n + 1])
    OBVIOUS
  <2>1. n < Len(v) /\ n + 1 \in 1..Len(v) /\ (n + 1) - 1 = n
    OBVIOUS
  <2>2. Walk(v)[n + 1] = Iterate(Walk(v)[n])
    BY <2>1, WalkSteps
  <2>3. Walked(v, n, Walk(v)[n])
    BY <1>2, <2>1
  <2> QED BY <2>1, <2>2, <2>3, WalkedStep
<1>3. Walked(v, Len(v), c)
  <2>1. Len(v) \in S
    <3> HIDE DEF S
    <3> QED BY <1>1, <1>2, SetInduction
  <2> QED BY <2>1 DEF Collapse
<1>4. /\ c.rest \in Seq(Tranche) /\ IsInjective(c.rest)
      /\ c.i \in Nat \ {0} /\ c.i + Len(v) = Len(v) + Len(c.rest) + 1
      /\ ToSet(c.rest) \subseteq Q /\ Q \ ToSet(c.rest) \subseteq Matured(Q)
      /\ \A j \in 1..(c.i - 1) : c.rest[j] \notin Matured(Q)
      /\ c.merged = CollectedOf(Q \ ToSet(c.rest))
  BY <1>3 DEF Walked
<1> HIDE DEF c
<1>5. c.i - 1 = Len(c.rest)
  <2>1. Len(v) \in Nat /\ Len(c.rest) \in Nat
    BY <1>4
  <2> QED BY <1>4, <2>1
<1>6. \A t \in ToSet(c.rest) : t \notin Matured(Q)
  BY <1>4, <1>5 DEF ToSet
<1>7. Matured(Q) \subseteq Q
  BY DEF Matured
<1>8. ToSet(c.rest) = Q \ Matured(Q) /\ Q \ ToSet(c.rest) = Matured(Q)
  BY <1>4, <1>6, <1>7
<1> QED BY <1>4, <1>8 DEF c

(* Vec::push adds one tranche.                                              *)
LEMMA AppendedVec ==
  ASSUME NEW s \in Seq(Tranche), NEW t \in Tranche
  PROVE  LET r == Append(s, t)
         IN  /\ r \in Seq(Tranche) /\ Len(r) = Len(s) + 1
             /\ ToSet(r) = ToSet(s) \cup {t}
             /\ IsInjective(s) /\ t \notin ToSet(s) => IsInjective(r)
<1> DEFINE r == Append(s, t)
           n == Len(s)
<1>1. /\ r \in Seq(Tranche) /\ n \in Nat /\ Len(r) = n + 1
      /\ DOMAIN r = 1..(n + 1) /\ DOMAIN s = 1..n
      /\ r[n + 1] = t /\ \A j \in 1..n : r[j] = s[j]
  OBVIOUS
<1> HIDE DEF r
<1>2. ToSet(r) = ToSet(s) \cup {t}
  <2>1. ToSet(r) \subseteq ToSet(s) \cup {t}
    <3>1. \A j \in 1..(n + 1) : j \in 1..n \/ j = n + 1
      BY <1>1
    <3> QED BY <1>1, <3>1 DEF ToSet
  <2>2. ToSet(s) \cup {t} \subseteq ToSet(r)
    <3>1. (\A j \in 1..n : j \in 1..(n + 1)) /\ n + 1 \in 1..(n + 1)
      BY <1>1
    <3> QED BY <1>1, <3>1 DEF ToSet
  <2> QED BY <2>1, <2>2
<1>3. ASSUME IsInjective(s), t \notin ToSet(s) PROVE IsInjective(r)
  <2>1. \A j \in 1..n : s[j] # t
    BY <1>1, <1>3 DEF ToSet
  <2>2. ASSUME NEW j \in 1..(n + 1), NEW k \in 1..(n + 1), r[j] = r[k] PROVE j = k
    <3>1. CASE j = n + 1
      BY <1>1, <2>1, <2>2, <3>1
    <3>2. CASE k = n + 1
      BY <1>1, <2>1, <2>2, <3>2
    <3>3. CASE j \in 1..n /\ k \in 1..n
      BY <1>1, <1>3, <2>2, <3>3 DEF IsInjective
    <3> QED BY <1>1, <3>1, <3>2, <3>3
  <2> QED BY <1>1, <2>2 DEF IsInjective
<1> QED BY <1>1, <1>2, <1>3 DEF r

(* r is s with its i-th tranche replaced by u.                              *)
IsReplaced(s, i, u, r) ==
  /\ r \in Seq(Tranche) /\ IsInjective(r) /\ Len(r) = Len(s) /\ r[i] = u
  /\ ToSet(r) = (ToSet(s) \ {s[i]}) \cup {u}

(* Changing a tranche in place replaces it, unless another is equal to it.  *)
LEMMA ReplacedVec ==
  ASSUME NEW s \in Seq(Tranche), IsInjective(s), NEW i \in 1..Len(s), NEW u \in Tranche,
         u \notin ToSet(s) \ {s[i]}
  PROVE  IsReplaced(s, i, u, [s EXCEPT ![i] = u])
<1> DEFINE r == [s EXCEPT ![i] = u]
           n == Len(s)
<1>1. /\ r \in Seq(Tranche) /\ Len(r) = n /\ DOMAIN r = 1..n /\ DOMAIN s = 1..n
      /\ r[i] = u /\ \A j \in 1..n : j # i => r[j] = s[j]
  OBVIOUS
<1> HIDE DEF r, n
<1>2. i \in 1..n
  BY DEF n
<1>3. \A j \in 1..n : j # i => s[j] # s[i]
  BY <1>1, <1>2 DEF IsInjective
<1>4. ToSet(r) = (ToSet(s) \ {s[i]}) \cup {u}
  <2>1. ToSet(r) \subseteq (ToSet(s) \ {s[i]}) \cup {u}
    BY <1>1, <1>3 DEF ToSet
  <2>2. (ToSet(s) \ {s[i]}) \cup {u} \subseteq ToSet(r)
    BY <1>1, <1>2 DEF ToSet
  <2> QED BY <2>1, <2>2
<1>5. IsInjective(r)
  <2>1. \A j \in 1..n : j # i => s[j] # u
    BY <1>1, <1>3 DEF ToSet
  <2> QED BY <1>1, <1>2, <2>1 DEF IsInjective
<1> QED BY <1>1, <1>4, <1>5 DEF r, n, IsReplaced

(* A set of indices that is not empty has a first one.                      *)
LEMMA FirstIndex ==
  ASSUME NEW n \in Nat, NEW I \in SUBSET (1..n), I # {}
  PROVE  Min(I) \in I
<1>1. I \subseteq Nat
  OBVIOUS
<1>2. PICK m \in I : \A k \in I : ~(<<k, m>> \in OpToRel(<, Nat))
  BY <1>1, NatLessThanWellFounded, WFMin
<1>3. \A k \in I : ~(k < m)
  BY <1>1, <1>2 DEF OpToRel
<1>4. \E x \in I : \A y \in I : x <= y
  BY <1>1, <1>3
<1> QED BY <1>4 DEF Min

(* locked_tranche finds a locked tranche if there is one.                   *)
LEMMA LockedFound ==
  ASSUME NEW v \in Seq(Tranche)
  PROVE  /\ LockedIndex(v) = 0 => Locked(ToSet(v)) = {}
         /\ LockedIndex(v) # 0 => /\ LockedIndex(v) \in 1..Len(v)
                                  /\ v[LockedIndex(v)] \in Locked(ToSet(v))
<1> DEFINE I == {i \in 1..Len(v) : v[i].locked}
<1>1. LockedIndex(v) = IF I # {} THEN Min(I) ELSE 0
  BY DEF LockedIndex, SelectInSeq
<1>2. I # {} => Min(I) \in I
  <2>1. I \in SUBSET (1..Len(v)) /\ Len(v) \in Nat
    OBVIOUS
  <2> HIDE DEF I
  <2> QED BY <2>1, FirstIndex
<1>3. DOMAIN v = 1..Len(v)
  OBVIOUS
<1>4. \A i \in I : i \in 1..Len(v) /\ i # 0 /\ v[i] \in Locked(ToSet(v))
  BY <1>3 DEF Locked, ToSet
<1>5. I = {} => Locked(ToSet(v)) = {}
  BY <1>3 DEF Locked, ToSet
<1> HIDE DEF I
<1> QED BY <1>1, <1>2, <1>4, <1>5

(* Collapsing a Vec and pushing the merged tranche does to its tranches     *)
(* what Collapsed does to the set of them.                                  *)
LEMMA PushedVec ==
  ASSUME epoch \in Nat, NEW v \in Seq(Tranche), IsInjective(v), GoodQueue(ToSet(v)),
         NEW lock \in BOOLEAN
  PROVE  LET w == Pushed(v, lock)
         IN  /\ w \in Seq(Tranche) /\ IsInjective(w)
             /\ ToSet(w) = Collapsed(ToSet(v), lock)
<1> DEFINE c == Collapse(v)
           Q == ToSet(v)
           M == Matured(Q)
           m == [c.merged EXCEPT !.locked = lock]
<1>1. /\ c.rest \in Seq(Tranche) /\ IsInjective(c.rest)
      /\ ToSet(c.rest) = Q \ M /\ c.merged = CollectedOf(M)
  BY CollapsedVec
<1> HIDE DEF c, Q
<1>2. c.merged.withdrawal_amount = AmountOf(M)
  BY <1>1 DEF CollectedOf
<1>3. Pushed(v, lock) = IF AmountOf(M) > 0 THEN Append(c.rest, m) ELSE c.rest
  BY <1>2 DEF Pushed, c
<1>4. Collapsed(Q, lock) = IF AmountOf(M) > 0 THEN (Q \ M) \cup {Merged(M, lock)} ELSE Q \ M
  BY DEF Collapsed
<1>5. CASE AmountOf(M) > 0
  <2>1. M # {}
    <3> HIDE DEF M
    <3>1. M = {} => AmountOf(M) = 0
      BY NoTranche, Zenon
    <3> QED BY <1>5, <3>1
  <2>2. m = Merged(M, lock)
    <3> HIDE DEF M
    <3>1. c.merged = [withdrawal_amount |-> AmountOf(M),
                      unstake_epoch     |-> Max({t.unstake_epoch : t \in M}),
                      wnear_residual    |-> ResidualOf(M),
                      storage_was_paid  |-> \E t \in M : t.storage_was_paid,
                      locked            |-> FALSE]
      BY <1>1, <2>1 DEF CollectedOf
    <3> DEFINE a == AmountOf(M)
               e == Max({t.unstake_epoch : t \in M})
               r == ResidualOf(M)
               p == \E t \in M : t.storage_was_paid
    <3>2. Merged(M, lock) = [withdrawal_amount |-> a, unstake_epoch |-> e,
                             wnear_residual |-> r, storage_was_paid |-> p,
                             locked |-> lock]
      BY DEF Merged
    <3> HIDE DEF a, e, r, p
    <3>3. c.merged = [withdrawal_amount |-> a, unstake_epoch |-> e,
                      wnear_residual |-> r, storage_was_paid |-> p,
                      locked |-> FALSE]
      BY <3>1 DEF a, e, r, p
    <3> QED BY <3>2, <3>3
  <2>3. m \in Tranche /\ m \notin Q \ M
    BY <2>1, <2>2, MergedMatured DEF Q
  <2> HIDE DEF m, M
  <2>4. /\ Append(c.rest, m) \in Seq(Tranche) /\ IsInjective(Append(c.rest, m))
        /\ ToSet(Append(c.rest, m)) = (Q \ M) \cup {m}
    BY <1>1, <2>3, AppendedVec
  <2> QED BY <1>3, <1>4, <1>5, <2>2, <2>4 DEF Q
<1>6. CASE ~(AmountOf(M) > 0)
  BY <1>1, <1>3, <1>4, <1>6 DEF Q
<1> QED BY <1>5, <1>6

(* append_request does what Appended does, whether it finds an unlocked     *)
(* tranche of this epoch or pushes a new one.                               *)
LEMMA AppendRequestVec ==
  ASSUME epoch \in Nat, NEW v \in Seq(Tranche), IsInjective(v), GoodQueue(ToSet(v)),
         NEW amount \in Nat
  PROVE  LET w == AppendRequest(v, amount)
         IN  /\ w \in Seq(Tranche) /\ IsInjective(w)
             /\ ToSet(w) = Appended(ToSet(v), amount)
<1> DEFINE Q == ToSet(v)
           w == Pushed(v, FALSE)
           R == Collapsed(Q, FALSE)
           Here(t) == ~t.locked /\ t.unstake_epoch = epoch
           Same == {t \in R : Here(t)}
           I == {j \in 1..Len(w) : Here(w[j])}
           i == IF I # {} THEN Min(I) ELSE 0
           new == NewTranche(amount, epoch)
<1>1. w \in Seq(Tranche) /\ IsInjective(w) /\ ToSet(w) = R
  BY PushedVec
<1>2. GoodQueue(R)
  BY CollapsedQueue
<1>3. AppendRequest(v, amount) =
        IF v = <<>> \/ i = 0 THEN Append(w, new)
        ELSE [w EXCEPT ![i].withdrawal_amount = @ + amount]
  BY DEF AppendRequest, SelectInSeq
<1>4. Appended(Q, amount) =
        IF Same = {} THEN R \cup {new}
        ELSE LET t == CHOOSE t \in Same : TRUE
             IN  (R \ {t}) \cup {[t EXCEPT !.withdrawal_amount = @ + amount]}
  BY DEF Appended
<1>5. v = <<>> => R = {}
  <2>1. v = <<>> => Q = {}
    BY DEF ToSet
  <2>2. Matured({}) = {}
    BY DEF Matured
  <2>3. Collapsed({}, FALSE) =
          IF AmountOf({}) > 0 THEN {} \cup {Merged({}, FALSE)} ELSE {}
    BY <2>2 DEF Collapsed
  <2>4. ~(AmountOf({}) > 0)
    <3>1. AmountOf({}) = 0 /\ ~(0 > 0)
      BY NoTranche
    <3> QED BY <3>1, Zenon
  <2>5. Collapsed({}, FALSE) = {}
    BY <2>3, <2>4
  <2> HIDE DEF Q
  <2> QED BY <2>1, <2>5
<1> HIDE DEF w, R, Q
<1>6. Len(w) \in Nat /\ DOMAIN w = 1..Len(w)
  BY <1>1
<1>7. I # {} => Min(I) \in I
  <2>1. I \in SUBSET (1..Len(w))
    OBVIOUS
  <2> HIDE DEF I
  <2> QED BY <1>6, <2>1, FirstIndex
<1>8. new \in Tranche /\ Here(new)
  BY DEF NewTranche, Tranche
<1>9. CASE I = {}
  <2>1. Same = {}
    BY <1>1, <1>6, <1>9 DEF ToSet
  <2>2. new \notin R
    BY <1>8, <2>1
  <2> HIDE DEF new, Here, Same, I
  <2>3. AppendRequest(v, amount) = Append(w, new) /\ Appended(Q, amount) = R \cup {new}
    BY <1>3, <1>4, <1>9, <2>1
  <2> QED BY <1>1, <1>8, <2>2, <2>3, AppendedVec DEF Q
<1>10. CASE I # {}
  <2> DEFINE t == w[i]
             u == [t EXCEPT !.withdrawal_amount = @ + amount]
  <2>1. i \in 1..Len(w) /\ Here(t) /\ i # 0
    BY <1>6, <1>7, <1>10
  <2>2. t \in R /\ t \in Same /\ t \in Tranche
    BY <1>1, <1>2, <1>6, <2>1 DEF ToSet, GoodQueue
  <2>3. \A s \in Same : s = t
    BY <1>2, <2>2 DEF GoodQueue
  <2>4. (CHOOSE s \in Same : TRUE) = t
    <3> HIDE DEF Same, t
    <3> QED BY <2>2, <2>3
  <2>5. v # <<>>
    BY <1>5, <2>2
  <2>6. u \in Tranche /\ u.unstake_epoch = t.unstake_epoch
    <3> HIDE DEF t
    <3>1. t.withdrawal_amount + amount \in Nat
      BY <2>2 DEF Tranche
    <3> QED BY <2>2, <3>1 DEF Tranche
  <2> HIDE DEF I, Same, i, Here
  <2>7. AppendRequest(v, amount) = [w EXCEPT ![i] = u]
    BY <1>3, <2>1, <2>5
  <2>8. Appended(Q, amount) = (R \ {t}) \cup {u}
    BY <1>4, <2>2, <2>4
  <2> HIDE DEF u
  <2>9. u \notin R \ {t}
    <3> HIDE DEF t
    <3>1. \A s \in R : s.unstake_epoch = t.unstake_epoch => s = t
      BY <1>2, <2>2 DEF GoodQueue
    <3> QED BY <2>6, <3>1
  <2> DEFINE r == [w EXCEPT ![i] = u]
  <2>10. IsReplaced(w, i, u, r)
    <3>1. w[i] = t
      OBVIOUS
    <3> HIDE DEF t
    <3> QED BY <1>1, <2>1, <2>6, <2>9, <3>1, ReplacedVec
  <2> HIDE DEF r
  <2> QED BY <1>1, <2>7, <2>8, <2>10 DEF Q, r, IsReplaced
<1> QED BY <1>9, <1>10

(* release_lock, which unlocks the first locked tranche, does what Released *)
(* does, which unlocks all: a good queue has one at most.                   *)
LEMMA ReleaseLockVec ==
  ASSUME NEW v \in Seq(Tranche), IsInjective(v), GoodQueue(ToSet(v))
  PROVE  LET r == ReleaseLock(v)
         IN  /\ r \in Seq(Tranche) /\ IsInjective(r) /\ Len(r) = Len(v)
             /\ ToSet(r) = Released(ToSet(v))
<1> DEFINE Q == ToSet(v)
           i == LockedIndex(v)
<1>1. CASE i = 0
  <2>1. Locked(Q) = {} /\ ReleaseLock(v) = v
    BY <1>1, LockedFound DEF ReleaseLock
  <2>2. Released(Q) = Q
    BY <2>1 DEF Released, Locked
  <2> QED BY <2>1, <2>2
<1>2. CASE i # 0
  <2> DEFINE t == v[i]
             u == [t EXCEPT !.locked = FALSE]
             r == [v EXCEPT ![i] = u]
  <2>1. i \in 1..Len(v) /\ t \in Locked(Q) /\ t \in Q /\ t \in Tranche /\ t.locked
    BY <1>2, LockedFound DEF Locked, GoodQueue
  <2>2. ReleaseLock(v) = r
    BY <1>2 DEF ReleaseLock
  <2>3. \A s \in Q : s.locked => s = t
    BY <2>1 DEF GoodQueue
  <2>4. u \in Tranche /\ u.unstake_epoch = t.unstake_epoch
    BY <2>1 DEF Tranche
  <2>5. Released(Q) = (Q \ {t}) \cup {u}
    <3>1. {s \in Q : ~s.locked} = Q \ {t}
      BY <2>1, <2>3
    <3>2. Locked(Q) = {t}
      BY <2>1, <2>3 DEF Locked
    <3>3. {[s EXCEPT !.locked = FALSE] : s \in {t}} = {u}
      OBVIOUS
    <3> QED BY <3>1, <3>2, <3>3 DEF Released
  <2> HIDE DEF i, u, t
  <2>6. u \notin Q \ {t}
    <3>1. \A s \in Q : s.unstake_epoch = t.unstake_epoch => s = t
      BY <2>1 DEF GoodQueue
    <3> QED BY <2>4, <3>1
  <2>7. IsReplaced(v, i, u, r)
    BY <2>1, <2>4, <2>6, ReplacedVec DEF t
  <2> HIDE DEF r
  <2> QED BY <2>2, <2>5, <2>7 DEF IsReplaced, t
<1> QED BY <1>1, <1>2

(* remove_request keeps what is not locked.                                 *)
LEMMA RemoveRequestVec ==
  ASSUME NEW v \in Seq(Tranche), IsInjective(v)
  PROVE  LET r == RemoveRequest(v)
         IN  /\ r \in Seq(Tranche) /\ IsInjective(r)
             /\ ToSet(r) = {t \in ToSet(v) : ~t.locked}
<1>1. PICK f : /\ f[0] = <<>> /\ RemoveRequest(v) = f[Len(v)]
               /\ \A n \in 1..Len(v) :
                    f[n] = IF v[n].locked THEN f[n - 1] ELSE Append(f[n - 1], v[n])
  BY KeptSteps
<1> DEFINE Kept(n) == {v[j] : j \in {k \in 1..n : ~v[k].locked}}
           Fits(n) == /\ f[n] \in Seq(Tranche) /\ IsInjective(f[n])
                      /\ ToSet(f[n]) = Kept(n)
           S == {n \in Nat : n <= Len(v) => Fits(n)}
<1>2. Len(v) \in Nat /\ DOMAIN v = 1..Len(v) /\ \A n \in 1..Len(v) : v[n] \in Tranche
  OBVIOUS
<1>3. 0 \in S
  <2>1. <<>> \in Seq(Tranche) /\ IsInjective(<<>>) /\ ToSet(<<>>) = {}
    BY DEF IsInjective, ToSet
  <2>2. Kept(0) = {}
    OBVIOUS
  <2> HIDE DEF Kept
  <2> QED BY <1>1, <2>1, <2>2
<1>4. ASSUME NEW n \in Nat, n \in S PROVE n + 1 \in S
  <2> SUFFICES ASSUME n + 1 <= Len(v) PROVE Fits(n + 1)
    OBVIOUS
  <2>1. n + 1 \in 1..Len(v) /\ Fits(n) /\ (n + 1) - 1 = n
    BY <1>4
  <2>2. CASE v[n + 1].locked
    <3>1. f[n + 1] = f[n]
      BY <1>1, <2>1, <2>2
    <3>2. Kept(n + 1) = Kept(n)
      <4>1. {k \in 1..(n + 1) : ~v[k].locked} = {k \in 1..n : ~v[k].locked}
        BY <2>2
      <4> QED BY <4>1
    <3> HIDE DEF Kept
    <3> QED BY <2>1, <3>1, <3>2
  <2>3. CASE ~v[n + 1].locked
    <3>1. f[n + 1] = Append(f[n], v[n + 1])
      BY <1>1, <2>1, <2>3
    <3>2. Kept(n + 1) = Kept(n) \cup {v[n + 1]}
      <4>1. {k \in 1..(n + 1) : ~v[k].locked} = {k \in 1..n : ~v[k].locked} \cup {n + 1}
        BY <2>3
      <4> QED BY <4>1
    <3>3. v[n + 1] \notin Kept(n)
      <4>1. \A k \in 1..n : k \in 1..Len(v) /\ k # n + 1
        BY <2>1
      <4>2. \A k \in 1..n : v[k] # v[n + 1]
        BY <1>2, <2>1, <4>1 DEF IsInjective
      <4> QED BY <4>2
    <3> HIDE DEF Kept
    <3> DEFINE w == f[n]
               t == v[n + 1]
    <3>4. w \in Seq(Tranche) /\ IsInjective(w) /\ ToSet(w) = Kept(n) /\ t \in Tranche
      BY <1>2, <2>1
    <3> HIDE DEF w, t
    <3>5. /\ Append(w, t) \in Seq(Tranche) /\ IsInjective(Append(w, t))
          /\ ToSet(Append(w, t)) = Kept(n) \cup {t}
      BY <3>3, <3>4, AppendedVec DEF t
    <3> QED BY <3>1, <3>2, <3>5 DEF w, t
  <2> QED BY <2>2, <2>3
<1>5. Fits(Len(v))
  <2>1. Len(v) \in S
    <3> HIDE DEF S
    <3> QED BY <1>2, <1>3, <1>4, SetInduction
  <2> QED BY <1>2, <2>1
<1>6. Kept(Len(v)) = {t \in ToSet(v) : ~t.locked}
  BY <1>2 DEF ToSet
<1> HIDE DEF Kept
<1> QED BY <1>1, <1>5, <1>6

-----------------------------------------------------------------------------
(* How many tranches a queue has.                                           *)

(* The tranches that cool down were made in different epochs, all among the *)
(* last Cooldown ones.                                                      *)
LEMMA CoolingBound ==
  ASSUME epoch \in Nat, NEW Q, GoodQueue(Q)
  PROVE  IsFiniteSet(CoolingTranches(Q)) /\ Cardinality(CoolingTranches(Q)) <= Cooldown
<1> DEFINE C == CoolingTranches(Q)
           E == (epoch - Cooldown + 1)..epoch
           f == [t \in C |-> t.unstake_epoch]
<1>1. \A t \in C : t.unstake_epoch \in E
  BY CooldownAssumption DEF CoolingTranches, GoodQueue, Tranche, IsMatured
<1>2. \A t, u \in C : t.unstake_epoch = u.unstake_epoch => t = u
  BY DEF CoolingTranches, GoodQueue
<1> HIDE DEF C
<1>3. IsFiniteSet(E) /\ Cardinality(E) = Cooldown
  BY CooldownAssumption, FS_Interval
<1>4. f \in Injection(C, E)
  <2> HIDE DEF E
  <2>1. f \in [C -> E]
    BY <1>1
  <2> QED BY <1>2, <2>1 DEF Injection, IsInjective
<1> HIDE DEF E, f
<1>5. IsFiniteSet(C) /\ Cardinality(C) <= Cardinality(E)
  BY <1>3, <1>4, FS_Injection
<1> QED BY <1>3, <1>5 DEF C

(* A set of equal elements has one at most.                                 *)
LEMMA AtMostOne ==
  ASSUME NEW S, \A x, y \in S : x = y
  PROVE  IsFiniteSet(S) /\ Cardinality(S) <= 1
<1>1. CASE S = {}
  BY <1>1, FS_EmptySet
<1>2. CASE S # {}
  <2>1. PICK x \in S : TRUE
    BY <1>2
  <2>2. S = {x}
    BY <2>1
  <2>3. IsFiniteSet({x}) /\ Cardinality({x}) = 1
    BY FS_Singleton
  <2>4. IsFiniteSet(S) /\ Cardinality(S) = 1
    BY <2>2, <2>3, Zenon
  <2> QED BY <2>4
<1> QED BY <1>1, <1>2

(* The bounds of two sets add up to one of their union.                     *)
LEMMA UnionBound ==
  ASSUME NEW S, IsFiniteSet(S), NEW T, IsFiniteSet(T), NEW m \in Nat, NEW n \in Nat,
         Cardinality(S) <= m, Cardinality(T) <= n
  PROVE  IsFiniteSet(S \cup T) /\ Cardinality(S \cup T) <= m + n
<1>1. IsFiniteSet(S \cap T)
  BY FS_Subset
<1>2. /\ Cardinality(S) \in Nat /\ Cardinality(T) \in Nat
      /\ Cardinality(S \cap T) \in Nat
  BY <1>1, FS_CardinalityType
<1> QED BY <1>2, FS_Union

(* Collapsing a queue never makes it longer.                                *)
LEMMA CollapsedBound ==
  ASSUME NEW Q, IsFiniteSet(Q), NEW lock
  PROVE  Cardinality(Collapsed(Q, lock)) <= Cardinality(Q)
<1> DEFINE M == Matured(Q)
           m == Merged(M, lock)
<1>1. IsFiniteSet(Q \ M) /\ Cardinality(Q \ M) <= Cardinality(Q)
  BY FS_Subset
<1>2. Cardinality(Q) \in Nat /\ Cardinality(Q \ M) \in Nat
  BY <1>1, FS_CardinalityType
<1>3. CASE AmountOf(M) > 0
  <2>1. M # {}
    <3> HIDE DEF M
    <3>1. M = {} => AmountOf(M) = 0
      BY NoTranche, Zenon
    <3> QED BY <1>3, <3>1
  <2>2. PICK t \in M : t \in Q
    BY <2>1 DEF Matured
  <2> HIDE DEF M
  <2>3. IsFiniteSet(Q \ {t}) /\ Cardinality(Q \ {t}) = Cardinality(Q) - 1
    BY <2>2, FS_RemoveElement
  <2>4. Q \ M \subseteq Q \ {t}
    BY <2>2
  <2>5. Cardinality(Q \ M) <= Cardinality(Q) - 1
    BY <2>3, <2>4, FS_Subset
  <2>6. Cardinality((Q \ M) \cup {m}) <= Cardinality(Q \ M) + 1
    <3> DEFINE R == Q \ M
    <3>1. IsFiniteSet(R) /\ Cardinality(R) \in Nat
      BY <1>1, <1>2
    <3> HIDE DEF m, R
    <3>2. Cardinality(R \cup {m}) = IF m \in R THEN Cardinality(R) ELSE Cardinality(R) + 1
      BY <3>1, FS_AddElement
    <3>3. Cardinality(R \cup {m}) <= Cardinality(R) + 1
      BY <3>1, <3>2
    <3> QED BY <3>3 DEF R
  <2>7. Collapsed(Q, lock) = (Q \ M) \cup {m}
    BY <1>3 DEF Collapsed, M
  <2>8. Cardinality((Q \ M) \cup {m}) \in Nat
    <3> HIDE DEF m
    <3> QED BY <1>1, FS_AddElement, FS_CardinalityType
  <2> HIDE DEF m
  <2> QED BY <1>2, <2>5, <2>6, <2>7, <2>8
<1>4. CASE ~(AmountOf(M) > 0)
  <2>1. Collapsed(Q, lock) = Q \ M
    BY <1>4 DEF Collapsed
  <2> QED BY <1>1, <2>1
<1> QED BY <1>3, <1>4

(* append_request leaves the tranches that cool down, the merged one and    *)
(* the locked one: Cooldown + 2 at most, however long the queue was.        *)
LEMMA AppendedBound ==
  ASSUME epoch \in Nat, NEW Q, GoodQueue(Q), \A t \in Q : 0 < t.withdrawal_amount,
         NEW amount \in Nat
  PROVE  Cardinality(Appended(Q, amount)) <= Cooldown + 2
<1> DEFINE A == Appended(Q, amount)
           C == Collapsed(Q, FALSE)
           m == Merged(Matured(Q), FALSE)
<1>1. GoodQueue(A) /\ IsFiniteSet(A)
  BY AppendedQueue DEF GoodQueue
<1>2. \A x, y \in Matured(C) : x = y
  <2>1. Matured(Q) = {} => C = Q
    BY CollapsedParts
  <2>2. Matured(Q) # {} => Matured(C) = {m}
    BY CollapsedParts
  <2> HIDE DEF C, m
  <2> QED BY <2>1, <2>2
<1>3. Matured(A) \subseteq Matured(C)
  <2> HIDE DEF A, C
  <2>1. CASE A = C \cup {NewTranche(amount, epoch)}
    <3>1. ~IsMatured(NewTranche(amount, epoch))
      BY CooldownAssumption DEF NewTranche, IsMatured
    <3> QED BY <2>1, <3>1 DEF Matured
  <2>2. ASSUME NEW t \in C, ~IsMatured(t),
               A = (C \ {t}) \cup {[t EXCEPT !.withdrawal_amount = @ + amount]}
        PROVE  Matured(A) \subseteq Matured(C)
    <3>1. t \in Tranche
      BY CollapsedQueue DEF C, GoodQueue
    <3>2. ~IsMatured([t EXCEPT !.withdrawal_amount = @ + amount])
      BY <2>2, <3>1 DEF IsMatured, Tranche
    <3> QED BY <2>2, <3>2 DEF Matured
  <2>3. \/ A = C \cup {NewTranche(amount, epoch)}
        \/ \E t \in C : /\ ~IsMatured(t)
                        /\ A = (C \ {t}) \cup
                                 {[t EXCEPT !.withdrawal_amount = @ + amount]}
    BY AppendedParts DEF A, C
  <2> QED BY <2>1, <2>2, <2>3
<1> HIDE DEF A, C, m
<1>4. A = CoolingTranches(A) \cup (Locked(A) \cup Matured(A))
  BY DEF CoolingTranches, Locked, Matured
<1>5. IsFiniteSet(CoolingTranches(A)) /\ Cardinality(CoolingTranches(A)) <= Cooldown
  BY <1>1, CoolingBound
<1>6. IsFiniteSet(Matured(A)) /\ Cardinality(Matured(A)) <= 1
  <2>1. \A x, y \in Matured(A) : x = y
    BY <1>2, <1>3
  <2> QED BY <2>1, AtMostOne
<1>7. IsFiniteSet(Locked(A)) /\ Cardinality(Locked(A)) <= 1
  <2>1. \A x, y \in Locked(A) : x = y
    BY <1>1 DEF Locked, GoodQueue
  <2> QED BY <2>1, AtMostOne
<1>8. /\ IsFiniteSet(Locked(A) \cup Matured(A))
      /\ Cardinality(Locked(A) \cup Matured(A)) <= 2
  BY <1>6, <1>7, UnionBound
<1>9. Cardinality(CoolingTranches(A) \cup (Locked(A) \cup Matured(A))) <= Cooldown + 2
  BY <1>5, <1>8, UnionBound, CooldownAssumption
<1> QED BY <1>4, <1>9, Zenon DEF A

-----------------------------------------------------------------------------
(* The invariant.                                                           *)

(* The tranches of the Vec are pairwise different, and they are a good      *)
(* queue, a sound one (no tranche is empty, and a residual is part of its   *)
(* amount) and a short one.                                                 *)
VecOK(v) ==
  /\ v \in Seq(Tranche) /\ IsInjective(v)
  /\ GoodQueue(ToSet(v)) /\ SoundQueue(ToSet(v), TRUE, FALSE)
  /\ Len(v) <= Cooldown + 2

(* The inductive invariant. The bound is part of it only because it needs   *)
(* the rest to be preserved; that no tranche is empty is what makes every   *)
(* collapse that takes tranches push one.                                   *)
IInv ==
  /\ epoch \in 0..MaxEpoch
  /\ unstaked \in Nat
  /\ VecOK(vec)

(* A step within an epoch need only keep the Vec in order.                  *)
LEMMA InvCarried ==
  ASSUME IInv, epoch' = epoch, unstaked' \in Nat, VecOK(vec')
  PROVE  IInv'
BY DEF IInv, VecOK, GoodQueue, SoundQueue, IsMatured

(* What the lemmas on operations ask for.                                   *)
LEMMA EpochNat == IInv => epoch \in Nat /\ VecOK(vec)
BY TrancheVecAssumption DEF IInv

(* The hash has no tranche at first.                                        *)
LEMMA InitInv == Init => IInv
<1> SUFFICES ASSUME Init PROVE IInv
  OBVIOUS
<1>1. epoch \in 0..MaxEpoch /\ unstaked \in Nat
  BY TrancheVecAssumption DEF Init
<1>2. <<>> \in Seq(Tranche) /\ IsInjective(<<>>) /\ ToSet(<<>>) = {} /\ Len(<<>>) = 0
  BY DEF IsInjective, ToSet
<1>3. GoodQueue({}) /\ SoundQueue({}, TRUE, FALSE)
  BY FS_EmptySet DEF GoodQueue, SoundQueue
<1>4. 0 <= Cooldown + 2
  BY CooldownAssumption
<1>5. VecOK(<<>>)
  BY <1>2, <1>3, <1>4 DEF VecOK
<1> QED BY <1>1, <1>5 DEF Init, IInv

(* The length of a Vec is the number of its tranches.                       *)
LEMMA LengthOf ==
  ASSUME NEW v \in Seq(Tranche), IsInjective(v)
  PROVE  IsFiniteSet(ToSet(v)) /\ Len(v) = Cardinality(ToSet(v))
BY ElementsOf

(* append_request keeps the Vec in order.                                   *)
LEMMA AppendRequestOK ==
  ASSUME epoch \in Nat, NEW v, VecOK(v), NEW a \in Amounts
  PROVE  VecOK(AppendRequest(v, a)) /\ ToSet(AppendRequest(v, a)) = Appended(ToSet(v), a)
<1> DEFINE w == AppendRequest(v, a)
           Q == ToSet(v)
<1>0. a \in Nat /\ 0 < a
  BY TrancheVecAssumption
<1>1. /\ v \in Seq(Tranche) /\ IsInjective(v) /\ GoodQueue(Q)
      /\ SoundQueue(Q, TRUE, FALSE)
  BY Zenon DEF VecOK
<1>2. w \in Seq(Tranche) /\ IsInjective(w) /\ ToSet(w) = Appended(Q, a)
  BY <1>0, <1>1, AppendRequestVec
<1>3. GoodQueue(Appended(Q, a)) /\ SoundQueue(Appended(Q, a), TRUE, FALSE)
  BY <1>0, <1>1, AppendedQueue, SoundAppended
<1>4. \A t \in Q : 0 < t.withdrawal_amount
  BY <1>1 DEF SoundQueue
<1>5. Cardinality(Appended(Q, a)) <= Cooldown + 2
  BY <1>0, <1>1, <1>4, AppendedBound
<1> HIDE DEF w, Q
<1>6. Len(w) = Cardinality(ToSet(w))
  BY <1>2, LengthOf
<1>7. VecOK(w)
  BY <1>2, <1>3, <1>5, <1>6 DEF VecOK
<1> QED BY <1>2, <1>7 DEF w, Q

(* So does a collapse; one that locks its result finds none locked.         *)
LEMMA PushedOK ==
  ASSUME epoch \in Nat, NEW v, VecOK(v), NEW lock \in BOOLEAN,
         lock => \A t \in ToSet(v) : ~t.locked
  PROVE  VecOK(Pushed(v, lock)) /\ ToSet(Pushed(v, lock)) = Collapsed(ToSet(v), lock)
<1> DEFINE w == Pushed(v, lock)
           Q == ToSet(v)
<1>1. /\ v \in Seq(Tranche) /\ IsInjective(v) /\ GoodQueue(Q)
      /\ SoundQueue(Q, TRUE, FALSE) /\ Len(v) <= Cooldown + 2
  BY Zenon DEF VecOK
<1>0. Len(v) \in Nat
  BY <1>1
<1>2. w \in Seq(Tranche) /\ IsInjective(w) /\ ToSet(w) = Collapsed(Q, lock)
  BY <1>1, PushedVec
<1>3. GoodQueue(Collapsed(Q, lock)) /\ SoundQueue(Collapsed(Q, lock), TRUE, FALSE)
  BY <1>1, CollapsedQueue, SoundCollapsed
<1>4. IsFiniteSet(Q) /\ Len(v) = Cardinality(Q)
  BY <1>1, LengthOf
<1> HIDE DEF w, Q
<1>5. Cardinality(Collapsed(Q, lock)) <= Cardinality(Q)
  BY <1>4, CollapsedBound
<1>6. Len(w) = Cardinality(ToSet(w)) /\ Len(w) \in Nat
  BY <1>2, LengthOf
<1>7. Len(w) <= Cooldown + 2
  BY <1>0, <1>1, <1>2, <1>4, <1>5, <1>6, CooldownAssumption
<1>8. VecOK(w)
  BY <1>2, <1>3, <1>7 DEF VecOK
<1> QED BY <1>2, <1>8 DEF w, Q

(* The locked tranche of a good queue: it has matured, and no other one is  *)
(* locked or from its epoch.                                                *)
LEMMA OnlyLocked ==
  ASSUME NEW Q, GoodQueue(Q), NEW t \in Locked(Q)
  PROVE  /\ t \in Q /\ t \in Tranche /\ t.locked /\ IsMatured(t)
         /\ Locked(Q) = {t} /\ {s \in Q : ~s.locked} = Q \ {t}
         /\ \A s \in Q : s.unstake_epoch = t.unstake_epoch => s = t
<1>1. t \in Q /\ t \in Tranche /\ t.locked /\ IsMatured(t)
  BY DEF Locked, GoodQueue
<1>2. \A s \in Q : s.locked => s = t
  BY <1>1 DEF GoodQueue
<1>3. \A s \in Q : s.unstake_epoch = t.unstake_epoch => s = t
  BY <1>1 DEF GoodQueue
<1>4. Locked(Q) = {t} /\ {s \in Q : ~s.locked} = Q \ {t}
  BY <1>1, <1>2 DEF Locked
<1> QED BY <1>1, <1>3, <1>4

(* Tranches with equal fields are equal.                                    *)
LEMMA SameTranche ==
  ASSUME NEW t \in Tranche, NEW u \in Tranche,
         t.withdrawal_amount = u.withdrawal_amount, t.unstake_epoch = u.unstake_epoch,
         t.wnear_residual = u.wnear_residual, t.storage_was_paid = u.storage_was_paid,
         t.locked = u.locked
  PROVE  t = u
BY DEF Tranche

(* The tranche as release_lock leaves it.                                   *)
Unlocked(t) == [t EXCEPT !.locked = FALSE]

(* It differs in its lock only.                                             *)
LEMMA UnlockedTranche ==
  ASSUME NEW t \in Tranche
  PROVE  /\ Unlocked(t) \in Tranche /\ ~Unlocked(t).locked
         /\ Unlocked(t).unstake_epoch = t.unstake_epoch
         /\ Unlocked(t).withdrawal_amount = t.withdrawal_amount
         /\ Unlocked(t).wnear_residual = t.wnear_residual
         /\ Unlocked(t).storage_was_paid = t.storage_was_paid
BY DEF Unlocked, Tranche

(* release_lock on a queue with a locked tranche.                           *)
LEMMA ReleasedOne ==
  ASSUME NEW Q, GoodQueue(Q), NEW t \in Locked(Q)
  PROVE  Released(Q) = (Q \ {t}) \cup {Unlocked(t)}
<1>1. Locked(Q) = {t} /\ {s \in Q : ~s.locked} = Q \ {t}
  BY OnlyLocked
<1>2. {[s EXCEPT !.locked = FALSE] : s \in {t}} = {Unlocked(t)}
  BY DEF Unlocked
<1> QED BY <1>1, <1>2 DEF Released

(* A queue stays good and sound when its locked tranche is replaced by an   *)
(* unlocked one of the same epoch that is neither empty nor short of its    *)
(* residual.                                                                *)
LEMMA UnlockedSound ==
  ASSUME NEW Q, GoodQueue(Q), SoundQueue(Q, TRUE, FALSE), NEW t \in Locked(Q),
         NEW u \in Tranche, u.unstake_epoch = t.unstake_epoch, ~u.locked,
         0 < u.withdrawal_amount, u.wnear_residual <= u.withdrawal_amount
  PROVE  LET R == (Q \ {t}) \cup {u}
         IN  GoodQueue(R) /\ SoundQueue(R, TRUE, FALSE)
<1> DEFINE R == (Q \ {t}) \cup {u}
<1>1. /\ t \in Q /\ t \in Tranche /\ t.locked /\ IsMatured(t)
      /\ {s \in Q : ~s.locked} = Q \ {t}
  BY OnlyLocked
<1>2. GoodQueue(R)
  BY <1>1, ReplacedTranche
<1>3. IsMatured(u)
  BY <1>1 DEF IsMatured
<1>4. \A s \in R : ~s.locked
  BY <1>1
<1>5. \A s \in R : s = u \/ s \in Q
  OBVIOUS
<1> HIDE DEF R
<1>6. \A s \in R : 0 < s.withdrawal_amount /\ s.wnear_residual <= s.withdrawal_amount
  BY <1>5 DEF SoundQueue
<1>7. \A s \in R : ~IsMatured(s) => s.wnear_residual = 0 /\ ~s.storage_was_paid
  BY <1>3, <1>5 DEF SoundQueue
<1>8. SoundQueue(R, TRUE, FALSE)
  BY <1>4, <1>6, <1>7 DEF SoundQueue
<1> QED BY <1>2, <1>8 DEF R

(* A part of a good and sound queue is one.                                 *)
LEMMA RemovedSound ==
  ASSUME NEW Q, GoodQueue(Q), SoundQueue(Q, TRUE, FALSE), NEW P \in SUBSET Q
  PROVE  GoodQueue(P) /\ SoundQueue(P, TRUE, FALSE)
<1>1. IsFiniteSet(P)
  BY FS_Subset DEF GoodQueue
<1> QED BY <1>1 DEF GoodQueue, SoundQueue

-----------------------------------------------------------------------------
(* What each action does to the Vec.                                        *)

(* What a delivery of less than the whole claim leaves of the locked        *)
(* tranche: all of it residual wNEAR.                                       *)
Rest(t, booked, registered) ==
  [withdrawal_amount |-> t.withdrawal_amount - booked,
   unstake_epoch     |-> t.unstake_epoch,
   wnear_residual    |-> t.withdrawal_amount - booked,
   storage_was_paid  |-> t.storage_was_paid \/ registered,
   locked            |-> FALSE]

(* It is a tranche, and not an empty one.                                   *)
LEMMA RestTranche ==
  ASSUME NEW t \in Tranche, NEW booked \in 0..(t.withdrawal_amount - 1),
         NEW registered \in BOOLEAN
  PROVE  /\ Rest(t, booked, registered) \in Tranche
         /\ t.withdrawal_amount - booked \in Nat /\ 0 < t.withdrawal_amount - booked
<1>1. t.withdrawal_amount \in Nat /\ t.unstake_epoch \in Nat
      /\ t.storage_was_paid \in BOOLEAN
  BY DEF Tranche
<1>2. t.withdrawal_amount - booked \in Nat /\ 0 < t.withdrawal_amount - booked
  BY <1>1
<1>3. (t.storage_was_paid \/ registered) \in BOOLEAN
  OBVIOUS
<1>4. Rest(t, booked, registered) \in Tranche
  BY <1>1, <1>2, <1>3 DEF Rest, Tranche
<1> QED BY <1>2, <1>4

(* The tranche that modify_state_after_withdraw works on.                   *)
LEMMA LockedAt ==
  ASSUME IInv, LockedIndex(vec) # 0
  PROVE  LET i == LockedIndex(vec)
         IN  /\ i \in 1..Len(vec) /\ vec[i] \in Locked(ToSet(vec))
             /\ vec[i] \in Tranche /\ vec[i].locked
<1>1. vec \in Seq(Tranche) /\ GoodQueue(ToSet(vec))
  BY DEF IInv, VecOK
<1>2. LockedIndex(vec) \in 1..Len(vec) /\ vec[LockedIndex(vec)] \in Locked(ToSet(vec))
  BY <1>1, LockedFound
<1> QED BY <1>1, <1>2, OnlyLocked

(* A partial settlement replaces the locked tranche by its rest.            *)
LEMMA SettlePartEffect ==
  ASSUME IInv, SettlePart
  PROVE  /\ UNCHANGED <<epoch, unstaked>> /\ vec' \in Seq(Tranche) /\ IsInjective(vec')
         /\ Len(vec') = Len(vec)
         /\ \E t \in Locked(ToSet(vec)) :
            \E booked \in 0..(t.withdrawal_amount - 1), registered \in BOOLEAN :
              ToSet(vec') = (ToSet(vec) \ {t}) \cup {Rest(t, booked, registered)}
<1> DEFINE Q == ToSet(vec)
           i == LockedIndex(vec)
           t == vec[i]
<1>1. vec \in Seq(Tranche) /\ IsInjective(vec) /\ GoodQueue(Q)
  BY DEF IInv, VecOK
<1>2. i \in 1..Len(vec) /\ t \in Locked(Q) /\ t \in Tranche /\ t.locked
  BY LockedAt DEF SettlePart
<1>3. PICK booked \in 0..(t.withdrawal_amount - 1), registered \in BOOLEAN :
         vec' = ReleaseLock(
             [vec EXCEPT ![i].withdrawal_amount = @ - booked,
                         ![i].wnear_residual    = t.withdrawal_amount - booked,
                         ![i].storage_was_paid  = @ \/ registered])
  BY DEF SettlePart
<1> DEFINE u == Rest(t, booked, registered)
           l == [u EXCEPT !.locked = TRUE]
           w == [vec EXCEPT ![i] = l]
<1>4. u \in Tranche
  BY <1>2, RestTranche
<1>5. /\ l \in Tranche /\ l.locked /\ Unlocked(l) = u
      /\ l.unstake_epoch = t.unstake_epoch
      /\ l.withdrawal_amount = t.withdrawal_amount - booked
      /\ l.wnear_residual = t.withdrawal_amount - booked
      /\ l.storage_was_paid = (t.storage_was_paid \/ registered)
  BY <1>2, <1>4 DEF Rest, Tranche, Unlocked
<1>6. [vec EXCEPT ![i].withdrawal_amount = @ - booked,
                  ![i].wnear_residual    = t.withdrawal_amount - booked,
                  ![i].storage_was_paid  = @ \/ registered] = w
  <2> DEFINE a == t.withdrawal_amount - booked
             p == t.storage_was_paid \/ registered
             x == [[[t EXCEPT !.withdrawal_amount = a] EXCEPT !.wnear_residual = a]
                      EXCEPT !.storage_was_paid = p]
  <2>1. vec \in [1..Len(vec) -> Tranche] /\ i \in 1..Len(vec)
    BY <1>1, <1>2
  <2>2. a \in Nat /\ p \in BOOLEAN
    <3>1. a \in Nat
      BY <1>2, RestTranche
    <3> QED BY <3>1
  <2>3. [vec EXCEPT ![i].withdrawal_amount = @ - booked,
                    ![i].wnear_residual    = t.withdrawal_amount - booked,
                    ![i].storage_was_paid  = @ \/ registered] = [vec EXCEPT ![i] = x]
    <3> HIDE DEF i
    <3> QED BY <2>1
  <2>4. x = l
    <3>1. /\ l.withdrawal_amount = a /\ l.wnear_residual = a /\ l.storage_was_paid = p
          /\ l.locked = t.locked
      BY <1>2, <1>5
    <3> HIDE DEF a, p, t, l
    <3>2. /\ x \in Tranche /\ x.withdrawal_amount = a /\ x.wnear_residual = a
          /\ x.storage_was_paid = p /\ x.locked = t.locked
          /\ x.unstake_epoch = t.unstake_epoch
      BY <1>2, <2>2 DEF Tranche
    <3> HIDE DEF x
    <3> QED BY <1>5, <3>1, <3>2, SameTranche
  <2> HIDE DEF x, l
  <2> QED BY <2>3, <2>4
<1> HIDE DEF l, u
<1>7. /\ \A s \in Q : s.unstake_epoch = t.unstake_epoch => s = t
      /\ t \in Q
  BY <1>1, <1>2, OnlyLocked
<1>8. l \notin Q \ {t}
  BY <1>5, <1>7
<1>9. IsReplaced(vec, i, l, w)
  <2> HIDE DEF Q, i
  <2> QED BY <1>1, <1>2, <1>5, <1>8, ReplacedVec DEF Q
<1> DEFINE W == (Q \ {t}) \cup {l}
<1>10. w \in Seq(Tranche) /\ IsInjective(w) /\ Len(w) = Len(vec) /\ ToSet(w) = W
  BY <1>9 DEF IsReplaced
<1>11. GoodQueue(W)
  BY <1>1, <1>2, <1>5, <1>7, ReplacedTranche
<1>12. Released(W) = (Q \ {t}) \cup {u}
  <2>1. l \in Locked(W)
    BY <1>5 DEF Locked
  <2>2. W \ {l} = Q \ {t}
    BY <1>8
  <2> HIDE DEF W
  <2>3. Released(W) = (W \ {l}) \cup {Unlocked(l)}
    BY <1>11, <2>1, ReleasedOne
  <2> QED BY <1>5, <2>2, <2>3
<1> HIDE DEF w, W
<1>13. /\ vec' \in Seq(Tranche) /\ IsInjective(vec') /\ Len(vec') = Len(vec)
       /\ ToSet(vec') = (Q \ {t}) \cup {u}
  <2>1. vec' = ReleaseLock(w)
    BY <1>3, <1>6
  <2> QED BY <1>10, <1>11, <1>12, <2>1, ReleaseLockVec
<1>14. UNCHANGED <<epoch, unstaked>>
  BY DEF SettlePart
<1> HIDE DEF t
<1> QED BY <1>2, <1>13, <1>14 DEF u

(* A release replaces the locked tranche by the same one unlocked.          *)
LEMMA ReleaseEffect ==
  ASSUME IInv, Release
  PROVE  /\ UNCHANGED <<epoch, unstaked>> /\ vec' \in Seq(Tranche) /\ IsInjective(vec')
         /\ Len(vec') = Len(vec)
         /\ \E t \in Locked(ToSet(vec)) :
              ToSet(vec') = (ToSet(vec) \ {t}) \cup {Unlocked(t)}
<1>1. vec \in Seq(Tranche) /\ IsInjective(vec) /\ GoodQueue(ToSet(vec))
  BY DEF IInv, VecOK
<1>2. PICK t \in Locked(ToSet(vec)) : TRUE
  BY LockedAt DEF Release
<1>3. vec' = ReleaseLock(vec) /\ UNCHANGED <<epoch, unstaked>>
  BY DEF Release
<1>4. Released(ToSet(vec)) = (ToSet(vec) \ {t}) \cup {Unlocked(t)}
  BY <1>1, ReleasedOne
<1> QED BY <1>1, <1>3, <1>4, ReleaseLockVec

(* A whole settlement removes the locked tranche; the release_lock that     *)
(* follows finds none.                                                      *)
LEMMA SettleAllEffect ==
  ASSUME IInv, SettleAll
  PROVE  /\ UNCHANGED <<epoch, unstaked>> /\ vec' \in Seq(Tranche) /\ IsInjective(vec')
         /\ \E t \in Locked(ToSet(vec)) : ToSet(vec') = ToSet(vec) \ {t}
<1> DEFINE w == RemoveRequest(vec)
           Q == ToSet(vec)
<1>1. vec \in Seq(Tranche) /\ IsInjective(vec) /\ GoodQueue(Q) /\ SoundQueue(Q, TRUE, FALSE)
  BY DEF IInv, VecOK
<1>2. PICK t \in Locked(Q) : TRUE
  BY LockedAt DEF SettleAll
<1>3. w \in Seq(Tranche) /\ IsInjective(w) /\ ToSet(w) = {s \in Q : ~s.locked}
  BY <1>1, RemoveRequestVec
<1>4. ToSet(w) = Q \ {t}
  BY <1>1, <1>3, OnlyLocked
<1>5. GoodQueue(ToSet(w))
  BY <1>1, <1>4, RemovedSound
<1>6. Released(ToSet(w)) = ToSet(w)
  BY <1>3 DEF Released, Locked
<1>7. vec' = ReleaseLock(w) /\ UNCHANGED <<epoch, unstaked>>
  BY DEF SettleAll
<1> HIDE DEF w
<1>8. vec' \in Seq(Tranche) /\ IsInjective(vec') /\ ToSet(vec') = ToSet(w)
  BY <1>3, <1>5, <1>6, <1>7, ReleaseLockVec
<1> QED BY <1>4, <1>7, <1>8

(* A withdrawal collapses the queue into a locked tranche.                  *)
LEMMA WithdrawEffect ==
  ASSUME IInv, Withdraw
  PROVE  /\ UNCHANGED <<epoch, unstaked>> /\ Locked(ToSet(vec)) = {}
         /\ VecOK(vec') /\ ToSet(vec') = Collapsed(ToSet(vec), TRUE)
         /\ Locked(ToSet(vec')) # {}
<1> DEFINE Q == ToSet(vec)
<1>1. /\ epoch \in Nat /\ VecOK(vec) /\ vec \in Seq(Tranche)
  BY EpochNat DEF VecOK
<1>2. /\ \A i \in DOMAIN vec : ~vec[i].locked
      /\ vec' = Pushed(vec, TRUE) /\ LockedIndex(vec') # 0
      /\ UNCHANGED <<epoch, unstaked>>
  BY DEF Withdraw
<1>3. \A t \in Q : ~t.locked
  BY <1>2 DEF ToSet
<1>4. VecOK(vec') /\ ToSet(vec') = Collapsed(Q, TRUE)
  BY <1>1, <1>2, <1>3, PushedOK
<1>5. Locked(Q) = {}
  BY <1>3 DEF Locked
<1>6. Locked(ToSet(vec')) # {}
  <2>1. vec' \in Seq(Tranche)
    BY <1>4 DEF VecOK
  <2> QED BY <1>2, <2>1, LockedFound
<1> QED BY <1>2, <1>4, <1>5, <1>6

(* The Vec stays in order when its locked tranche gives way to an unlocked  *)
(* one.                                                                     *)
LEMMA UnlockedOK ==
  ASSUME IInv, NEW t \in Locked(ToSet(vec)), NEW u \in Tranche,
         u.unstake_epoch = t.unstake_epoch, ~u.locked,
         0 < u.withdrawal_amount, u.wnear_residual <= u.withdrawal_amount,
         NEW w \in Seq(Tranche), IsInjective(w), Len(w) = Len(vec),
         ToSet(w) = (ToSet(vec) \ {t}) \cup {u}
  PROVE  VecOK(w)
<1>1. /\ GoodQueue(ToSet(vec)) /\ SoundQueue(ToSet(vec), TRUE, FALSE)
      /\ Len(vec) <= Cooldown + 2
  BY DEF IInv, VecOK
<1>2. GoodQueue(ToSet(w)) /\ SoundQueue(ToSet(w), TRUE, FALSE)
  <2> DEFINE Q == ToSet(vec)
             R == (Q \ {t}) \cup {u}
  <2>1. t \in Locked(Q) /\ GoodQueue(Q) /\ SoundQueue(Q, TRUE, FALSE) /\ ToSet(w) = R
    BY <1>1
  <2> HIDE DEF Q
  <2>2. GoodQueue(R) /\ SoundQueue(R, TRUE, FALSE)
    BY <2>1, UnlockedSound
  <2> HIDE DEF R
  <2> QED BY <2>1, <2>2
<1> QED BY <1>1, <1>2 DEF VecOK

(* Every step keeps the invariant.                                          *)
LEMMA NextInv == IInv /\ [Next]_vars => IInv'
<1> SUFFICES ASSUME IInv, [Next]_vars PROVE IInv'
  OBVIOUS
<1>1. /\ epoch \in Nat /\ VecOK(vec) /\ unstaked \in Nat
      /\ vec \in Seq(Tranche) /\ IsInjective(vec) /\ GoodQueue(ToSet(vec))
      /\ SoundQueue(ToSet(vec), TRUE, FALSE) /\ Len(vec) <= Cooldown + 2
  BY EpochNat DEF IInv, VecOK
<1>2. ASSUME Unstake PROVE IInv'
  <2>1. PICK a \in Amounts : unstaked' = unstaked + a /\ vec' = AppendRequest(vec, a)
    BY <1>2 DEF Unstake
  <2>2. unstaked' \in Nat /\ epoch' = epoch
    BY <1>1, <1>2, <2>1, TrancheVecAssumption DEF Unstake
  <2>3. VecOK(vec')
    BY <1>1, <2>1, AppendRequestOK
  <2> QED BY <2>2, <2>3, InvCarried
<1>3. ASSUME Withdraw PROVE IInv'
  BY <1>1, <1>3, WithdrawEffect, InvCarried
<1>4. ASSUME SettlePart PROVE IInv'
  <2>0. PICK t \in Locked(ToSet(vec)) :
          \E booked \in 0..(t.withdrawal_amount - 1), registered \in BOOLEAN :
            ToSet(vec') = (ToSet(vec) \ {t}) \cup {Rest(t, booked, registered)}
    BY <1>4, SettlePartEffect
  <2>1. PICK booked \in 0..(t.withdrawal_amount - 1), registered \in BOOLEAN :
          ToSet(vec') = (ToSet(vec) \ {t}) \cup {Rest(t, booked, registered)}
    BY <2>0
  <2> DEFINE u == Rest(t, booked, registered)
  <2>2. t \in Tranche
    BY <1>1, OnlyLocked
  <2>3. u \in Tranche /\ 0 < u.withdrawal_amount /\ u.wnear_residual = u.withdrawal_amount
        /\ u.unstake_epoch = t.unstake_epoch /\ ~u.locked
    BY <2>2, RestTranche DEF Rest
  <2>4. u.wnear_residual <= u.withdrawal_amount
    <3> HIDE DEF u
    <3> QED BY <2>3 DEF Tranche
  <2> HIDE DEF u
  <2>5. /\ UNCHANGED <<epoch, unstaked>> /\ vec' \in Seq(Tranche) /\ IsInjective(vec')
        /\ Len(vec') = Len(vec)
    BY <1>4, SettlePartEffect
  <2>6. VecOK(vec')
    BY <2>1, <2>3, <2>4, <2>5, UnlockedOK DEF u
  <2> QED BY <1>1, <2>5, <2>6, InvCarried
<1>5. ASSUME SettleAll PROVE IInv'
  <2>1. PICK t \in Locked(ToSet(vec)) : ToSet(vec') = ToSet(vec) \ {t}
    BY <1>5, SettleAllEffect
  <2>2. UNCHANGED <<epoch, unstaked>> /\ vec' \in Seq(Tranche) /\ IsInjective(vec')
    BY <1>5, SettleAllEffect
  <2>3. GoodQueue(ToSet(vec')) /\ SoundQueue(ToSet(vec'), TRUE, FALSE)
    BY <1>1, <2>1, RemovedSound
  <2>4. Len(vec') <= Cooldown + 2
    <3>1. IsFiniteSet(ToSet(vec)) /\ Len(vec) = Cardinality(ToSet(vec))
      BY <1>1, LengthOf
    <3>2. Len(vec') = Cardinality(ToSet(vec'))
      BY <2>2, LengthOf
    <3>3. Cardinality(ToSet(vec')) <= Cardinality(ToSet(vec))
      BY <2>1, <3>1, FS_Subset
    <3>4. Len(vec') \in Nat /\ Len(vec) \in Nat
      BY <1>1, <2>2
    <3> QED BY <1>1, <3>1, <3>2, <3>3, <3>4, CooldownAssumption
  <2>5. VecOK(vec')
    BY <2>2, <2>3, <2>4 DEF VecOK
  <2> QED BY <1>1, <2>2, <2>5, InvCarried
<1>6. ASSUME Release PROVE IInv'
  <2>1. PICK t \in Locked(ToSet(vec)) :
          ToSet(vec') = (ToSet(vec) \ {t}) \cup {Unlocked(t)}
    BY <1>6, ReleaseEffect
  <2>2. t \in Tranche /\ t \in ToSet(vec)
    BY <1>1, OnlyLocked
  <2>3. /\ Unlocked(t) \in Tranche /\ ~Unlocked(t).locked
        /\ Unlocked(t).unstake_epoch = t.unstake_epoch
        /\ 0 < Unlocked(t).withdrawal_amount
        /\ Unlocked(t).wnear_residual <= Unlocked(t).withdrawal_amount
    BY <1>1, <2>2, UnlockedTranche DEF SoundQueue
  <2>4. /\ UNCHANGED <<epoch, unstaked>> /\ vec' \in Seq(Tranche) /\ IsInjective(vec')
        /\ Len(vec') = Len(vec)
    BY <1>6, ReleaseEffect
  <2>5. VecOK(vec')
    BY <2>1, <2>3, <2>4, UnlockedOK
  <2> QED BY <1>1, <2>4, <2>5, InvCarried
<1>7. ASSUME NextEpoch PROVE IInv'
  <2>1. epoch' = epoch + 1 /\ vec' = vec /\ unstaked' = unstaked /\ epoch < MaxEpoch
    BY <1>7 DEF NextEpoch
  <2>2. epoch' \in 0..MaxEpoch
    BY <1>1, <2>1, TrancheVecAssumption
  <2>3. \A t \in ToSet(vec) : IsMatured(t) => IsMatured(t)'
    <3>1. \A t \in ToSet(vec) : t.unstake_epoch \in Nat
      BY <1>1 DEF GoodQueue, Tranche
    <3> QED BY <1>1, <2>1, <3>1, CooldownAssumption DEF IsMatured
  <2>4. \A t \in ToSet(vec) : t.unstake_epoch <= epoch'
    BY <1>1, <2>1 DEF GoodQueue, Tranche
  <2>5. GoodQueue(ToSet(vec))'
    BY <1>1, <2>1, <2>3, <2>4 DEF GoodQueue
  <2>6. SoundQueue(ToSet(vec), TRUE, FALSE)'
    BY <1>1, <2>1, <2>3 DEF SoundQueue
  <2>7. VecOK(vec)'
    BY <1>1, <2>1, <2>5, <2>6 DEF VecOK
  <2> QED BY <1>1, <2>1, <2>2, <2>7 DEF IInv
<1>8. ASSUME UNCHANGED vars PROVE IInv'
  BY <1>1, <1>8, InvCarried DEF vars
<1> QED BY <1>2, <1>3, <1>4, <1>5, <1>6, <1>7, <1>8 DEF Next

(* In every reachable state the Vec of a hash holds pairwise different      *)
(* tranches, made in different epochs, one of them locked at most and only  *)
(* once it has matured, none of them empty: what requests.rs asserts of a   *)
(* queue under # Invariants, through any order of unstakes, sweeps,         *)
(* settlements and releases.                                                *)
THEOREM Invariance == Spec => []IInv
BY InitInv, NextInv, PTL DEF Spec

(* The Vec of a hash never grows beyond UNSTAKE_COOLDOWN_PERIOD + 2         *)
(* tranches, however often and whenever the hash is unstaked and whatever   *)
(* is in flight (Bounded vec length in the doc of WithdrawalRequests, which *)
(* says roughly; the code keeps it exactly).                                *)
THEOREM VecStaysBounded == Spec => []BoundedVec
<1>1. IInv => BoundedVec
  BY DEF IInv, VecOK, BoundedVec
<1> QED BY <1>1, Invariance, PTL

(* The walk of collapse_matured_tranches with swap_remove, append_request   *)
(* and release_lock do to the tranches of every reachable Vec exactly what  *)
(* the set operations of module Tranches do, on which the theorems about    *)
(* Withdrawals rest: no swap skips a matured tranche or counts one twice,   *)
(* and the order of the Vec is never observable.                            *)
THEOREM SetModelIsExact == Spec => []SetModelAgrees
<1>1. IInv => SetModelAgrees
  <2> SUFFICES ASSUME IInv PROVE SetModelAgrees
    OBVIOUS
  <2> DEFINE Q == ToSet(vec)
  <2>1. /\ epoch \in Nat /\ vec \in Seq(Tranche) /\ IsInjective(vec)
        /\ GoodQueue(Q) /\ VecOK(vec)
    BY EpochNat DEF VecOK
  <2>2. Cardinality(Q) = Len(vec)
    BY <2>1, ElementsOf
  <2>3. \A a \in Amounts : ToSet(AppendRequest(vec, a)) = Appended(Q, a)
    BY <2>1, AppendRequestOK
  <2>4. \A lock \in BOOLEAN : ToSet(Pushed(vec, lock)) = Collapsed(Q, lock)
    BY <2>1, PushedVec
  <2>5. ToSet(ReleaseLock(vec)) = Released(Q)
    BY <2>1, ReleaseLockVec
  <2> QED BY <2>2, <2>3, <2>4, <2>5 DEF SetModelAgrees
<1> QED BY <1>1, Invariance, PTL

-----------------------------------------------------------------------------
(* The claims.                                                              *)

(* What the variables of ClaimQueue are mapped to.                          *)
Cooling  == [e \in 0..MaxEpoch |-> CoolingFrom(ToSet(vec), e)]
Ready    == ClaimOf(Matured(ToSet(vec)))
Inflight == ClaimOf(Locked(ToSet(vec)))

(* The claim of no tranche.                                                 *)
EmptyClaim == [amount |-> 0, wnear |-> 0, storage |-> FALSE]

(* Nothing locked is no claim in flight.                                    *)
LEMMA NoClaim == ClaimOf({}) = EmptyClaim
<1>1. (\E t \in {} : t.storage_was_paid) = FALSE
  OBVIOUS
<1> QED BY <1>1, NoTranche DEF ClaimOf, EmptyClaim

(* The mapping after a step within an epoch.                                *)
LEMMA ClaimsPrimed ==
  ASSUME epoch' = epoch
  PROVE  /\ Cooling' = [e \in 0..MaxEpoch |-> CoolingFrom(ToSet(vec'), e)]
         /\ Ready' = ClaimOf(Matured(ToSet(vec')))
         /\ Inflight' = ClaimOf(Locked(ToSet(vec')))
BY DEF Cooling, Ready, Inflight, CoolingFrom, ClaimOf, AmountOf, ResidualOf, Matured,
       Locked, IsMatured

(* The steps of ClaimQueue, each as the change of the three claims that     *)
(* makes it one. An unstake adds to what cools down from this epoch.        *)
LEMMA ClaimsUnstake ==
  ASSUME NEW a \in Amounts, UNCHANGED <<epoch, Ready, Inflight>>,
         Cooling' = [Cooling EXCEPT ![epoch] = @ + a]
  PROVE  Claims!Next
<1>1. Claims!Unstake
  BY DEF Claims!Unstake, Cooling, Ready, Inflight
<1> QED BY <1>1 DEF Claims!Next

(* A withdrawal takes all that is ready.                                    *)
LEMMA ClaimsWithdraw ==
  ASSUME UNCHANGED <<epoch, Cooling>>, Inflight = EmptyClaim, Ready.amount > 0,
         Inflight' = Ready, Ready' = EmptyClaim
  PROVE  Claims!Next
<1>1. Claims!Withdraw
  BY DEF Claims!Withdraw, Claims!Nothing, EmptyClaim, Cooling, Ready, Inflight
<1> QED BY <1>1 DEF Claims!Next

(* A delivery may pay the claim in full,                                    *)
LEMMA ClaimsPayAll ==
  ASSUME UNCHANGED <<epoch, Cooling, Ready>>,
         Inflight # EmptyClaim, Inflight' = EmptyClaim
  PROVE  Claims!Next
<1>1. Claims!PayAll
  BY DEF Claims!PayAll, Claims!Nothing, EmptyClaim, Cooling, Ready, Inflight
<1> QED BY <1>1 DEF Claims!Next

(* or a part of it, and what is left is ready again as wNEAR,               *)
LEMMA ClaimsPayPart ==
  ASSUME UNCHANGED <<epoch, Cooling>>, Inflight # EmptyClaim, Inflight' = EmptyClaim,
         NEW paid \in 0..(Inflight.amount - 1), NEW registered \in BOOLEAN,
         Ready' = [amount  |-> Ready.amount + (Inflight.amount - paid),
                   wnear   |-> Ready.wnear + (Inflight.amount - paid),
                   storage |-> Ready.storage \/ (Inflight.storage \/ registered)]
  PROVE  Claims!Next
<1>1. Claims!PayPart
  BY DEF Claims!PayPart, Claims!Nothing, Claims!Plus, EmptyClaim, Cooling, Ready, Inflight
<1> QED BY <1>1 DEF Claims!Next

(* or nothing.                                                              *)
LEMMA ClaimsGiveBack ==
  ASSUME UNCHANGED <<epoch, Cooling>>, Inflight # EmptyClaim, Inflight' = EmptyClaim,
         Ready' = [amount  |-> Ready.amount + Inflight.amount,
                   wnear   |-> Ready.wnear + Inflight.wnear,
                   storage |-> Ready.storage \/ Inflight.storage]
  PROVE  Claims!Next
<1>1. Claims!GiveBack
  BY DEF Claims!GiveBack, Claims!Nothing, Claims!Plus, EmptyClaim, Cooling, Ready, Inflight
<1> QED BY <1>1 DEF Claims!Next

(* With an epoch, what was unstaked Cooldown epochs ago becomes ready.      *)
LEMMA ClaimsNextEpoch ==
  ASSUME epoch' = epoch + 1, UNCHANGED Inflight,
         epoch' >= Cooldown =>
           /\ Ready' = [Ready EXCEPT !.amount = @ + Cooling[epoch' - Cooldown]]
           /\ Cooling' = [Cooling EXCEPT ![epoch' - Cooldown] = 0],
         ~(epoch' >= Cooldown) => UNCHANGED <<Ready, Cooling>>
  PROVE  Claims!Next
<1>1. CASE epoch' >= Cooldown
  <2>1. Claims!NextEpoch
    BY <1>1 DEF Claims!NextEpoch, Cooling, Ready, Inflight
  <2> QED BY <2>1 DEF Claims!Next
<1>2. CASE ~(epoch' >= Cooldown)
  <2>1. Claims!NextEpoch
    BY <1>2 DEF Claims!NextEpoch, Cooling, Ready, Inflight
  <2> QED BY <2>1 DEF Claims!Next
<1> QED BY <1>1, <1>2

(* An unstake of the Vec is an unstake of the claims: the collapse within   *)
(* append_request is invisible.                                             *)
LEMMA UnstakeClaims ==
  ASSUME IInv, Unstake
  PROVE  Claims!Next
<1> DEFINE Q == ToSet(vec)
<1>1. /\ epoch \in Nat /\ VecOK(vec) /\ GoodQueue(Q) /\ SoundQueue(Q, TRUE, FALSE)
      /\ epoch \in 0..MaxEpoch
  BY EpochNat DEF IInv, VecOK
<1>2. PICK a \in Amounts : vec' = AppendRequest(vec, a) /\ epoch' = epoch
  BY DEF Unstake
<1> DEFINE A == Appended(Q, a)
<1>3. a \in Nat /\ ToSet(vec') = A
  BY <1>1, <1>2, AppendRequestOK, TrancheVecAssumption
<1>4. \A t \in Q : 0 < t.withdrawal_amount
  BY <1>1 DEF SoundQueue
<1>5. /\ \A e : CoolingFrom(A, e) = IF e = epoch THEN CoolingFrom(Q, e) + a
                                    ELSE CoolingFrom(Q, e)
      /\ ClaimOf(Matured(A)) = ClaimOf(Matured(Q))
      /\ Locked(A) = Locked(Q)
  BY <1>1, <1>3, <1>4, AppendedClaims
<1> HIDE DEF A
<1>6. /\ Cooling' = [e \in 0..MaxEpoch |-> CoolingFrom(A, e)]
      /\ Ready' = ClaimOf(Matured(A)) /\ Inflight' = ClaimOf(Locked(A))
  BY <1>2, <1>3, ClaimsPrimed
<1>7. UNCHANGED <<Ready, Inflight>>
  BY <1>5, <1>6 DEF Ready, Inflight
<1>8. Cooling' = [Cooling EXCEPT ![epoch] = @ + a]
  BY <1>1, <1>5, <1>6 DEF Cooling
<1> QED BY <1>2, <1>7, <1>8, ClaimsUnstake

(* A withdrawal of the Vec takes the whole claim that is ready.             *)
LEMMA WithdrawClaims ==
  ASSUME IInv, Withdraw
  PROVE  Claims!Next
<1> DEFINE Q == ToSet(vec)
           M == Matured(Q)
           C == Collapsed(Q, TRUE)
<1>1. /\ epoch \in Nat /\ GoodQueue(Q) /\ SoundQueue(Q, TRUE, FALSE)
  BY EpochNat DEF VecOK
<1>2. /\ epoch' = epoch /\ Locked(Q) = {} /\ ToSet(vec') = C /\ Locked(C) # {}
  BY WithdrawEffect
<1>3. \A t \in Q : 0 < t.withdrawal_amount /\ ~t.locked
  BY <1>1, <1>2 DEF SoundQueue, Locked
<1>4. AmountOf(M) > 0
  <2> SUFFICES ASSUME ~(AmountOf(M) > 0) PROVE FALSE
    OBVIOUS
  <2>1. C = Q \ M
    BY DEF Collapsed
  <2> QED BY <1>2, <2>1 DEF Locked
<1>5. M # {}
  <2> HIDE DEF M
  <2>1. M = {} => AmountOf(M) = 0
    BY NoTranche, Zenon
  <2> QED BY <1>4, <2>1
<1>6. /\ \A e : CoolingFrom(C, e) = CoolingFrom(Q, e)
      /\ Matured(C) = {} /\ ClaimOf(Locked(C)) = ClaimOf(M)
  BY <1>1, <1>3, <1>5, CollapsedClaims
<1> HIDE DEF C
<1>7. /\ Cooling' = [e \in 0..MaxEpoch |-> CoolingFrom(C, e)]
      /\ Ready' = ClaimOf(Matured(C)) /\ Inflight' = ClaimOf(Locked(C))
  BY <1>2, ClaimsPrimed
<1>8. Ready' = EmptyClaim /\ Inflight' = Ready /\ Inflight = EmptyClaim
  BY <1>2, <1>6, <1>7, NoClaim DEF Ready, Inflight
<1>9. Cooling' = Cooling
  BY <1>6, <1>7 DEF Cooling
<1>10. Ready.amount > 0
  BY <1>4 DEF Ready, ClaimOf
<1> QED BY <1>2, <1>8, <1>9, <1>10, ClaimsWithdraw

(* What becomes of the claims when the locked tranche is removed, or        *)
(* replaced by an unlocked one: nothing else moves.                         *)
LEMMA UnlockClaims ==
  ASSUME IInv, NEW t \in Locked(ToSet(vec)), epoch' = epoch
  PROVE  /\ Inflight = [amount  |-> t.withdrawal_amount, wnear |-> t.wnear_residual,
                        storage |-> t.storage_was_paid]
         /\ Inflight # EmptyClaim /\ t \in Tranche
         /\ ToSet(vec') = ToSet(vec) \ {t} =>
              /\ UNCHANGED <<Cooling, Ready>> /\ Inflight' = EmptyClaim
         /\ \A u \in Tranche :
              /\ ToSet(vec') = (ToSet(vec) \ {t}) \cup {u}
              /\ u.unstake_epoch = t.unstake_epoch /\ ~u.locked
              => /\ UNCHANGED Cooling /\ Inflight' = EmptyClaim
                 /\ Ready' = [amount  |-> Ready.amount + u.withdrawal_amount,
                              wnear   |-> Ready.wnear + u.wnear_residual,
                              storage |-> Ready.storage \/ u.storage_was_paid]
<1> DEFINE Q == ToSet(vec)
<1>1. GoodQueue(Q) /\ SoundQueue(Q, TRUE, FALSE)
  BY DEF IInv, VecOK
<1>2. t \in Tranche /\ t \in Q /\ Locked(Q) = {t} /\ t.withdrawal_amount \in Nat
  BY <1>1, OnlyLocked DEF Tranche
<1>3. Inflight = [amount  |-> t.withdrawal_amount, wnear |-> t.wnear_residual,
                  storage |-> t.storage_was_paid]
  BY <1>2, OneClaim DEF Inflight
<1>4. Inflight # EmptyClaim
  <2>1. Inflight.amount = t.withdrawal_amount /\ 0 < t.withdrawal_amount
    BY <1>1, <1>2, <1>3 DEF SoundQueue
  <2>2. EmptyClaim.amount = 0
    BY DEF EmptyClaim
  <2> QED BY <1>2, <2>1, <2>2
<1>5. /\ Cooling' = [e \in 0..MaxEpoch |-> CoolingFrom(ToSet(vec'), e)]
      /\ Ready' = ClaimOf(Matured(ToSet(vec')))
      /\ Inflight' = ClaimOf(Locked(ToSet(vec')))
  BY ClaimsPrimed
<1>6. ASSUME NEW u \in Tranche, u.unstake_epoch = t.unstake_epoch, ~u.locked
      PROVE  ClaimUnlocked(Q, t, u)
  <2> HIDE DEF Q
  <2> QED BY <1>1, <1>2, <1>6, UnlockedClaims
<1>7. ASSUME ToSet(vec') = Q \ {t}
      PROVE  UNCHANGED <<Cooling, Ready>> /\ Inflight' = EmptyClaim
  <2> DEFINE P == Q \ {t}
  <2>1. ClaimUnlocked(Q, t, Unlocked(t))
    BY <1>2, <1>6, UnlockedTranche
  <2>2. /\ \A e : CoolingFrom(P, e) = CoolingFrom(Q, e)
        /\ Locked(P) = {} /\ Matured(P) = Matured(Q)
    BY <2>1 DEF ClaimUnlocked
  <2> QED BY <1>5, <1>7, <2>2, NoClaim DEF Cooling, Ready
<1>8. ASSUME NEW u \in Tranche, ToSet(vec') = (Q \ {t}) \cup {u},
             u.unstake_epoch = t.unstake_epoch, ~u.locked
      PROVE  /\ UNCHANGED Cooling /\ Inflight' = EmptyClaim
             /\ Ready' = [amount  |-> Ready.amount + u.withdrawal_amount,
                          wnear   |-> Ready.wnear + u.wnear_residual,
                          storage |-> Ready.storage \/ u.storage_was_paid]
  <2> DEFINE R == (Q \ {t}) \cup {u}
  <2>1. /\ \A e : CoolingFrom(R, e) = CoolingFrom(Q, e)
        /\ Locked(R) = {}
        /\ ClaimOf(Matured(R)) =
             [amount  |-> AmountOf(Matured(Q)) + u.withdrawal_amount,
              wnear   |-> ResidualOf(Matured(Q)) + u.wnear_residual,
              storage |-> (\E v \in Matured(Q) : v.storage_was_paid)
                            \/ u.storage_was_paid]
    BY <1>6, <1>8 DEF ClaimUnlocked
  <2>2. /\ Ready.amount = AmountOf(Matured(Q))
        /\ Ready.wnear = ResidualOf(Matured(Q))
        /\ Ready.storage = (\E v \in Matured(Q) : v.storage_was_paid)
    BY DEF Ready, ClaimOf
  <2> HIDE DEF R
  <2>3. Ready' = [amount  |-> Ready.amount + u.withdrawal_amount,
                  wnear   |-> Ready.wnear + u.wnear_residual,
                  storage |-> Ready.storage \/ u.storage_was_paid]
    BY <1>5, <1>8, <2>1, <2>2 DEF R
  <2>4. UNCHANGED Cooling /\ Inflight' = EmptyClaim
    BY <1>5, <1>8, <2>1, NoClaim DEF Cooling, R
  <2> QED BY <2>3, <2>4
<1> QED BY <1>2, <1>3, <1>4, <1>7, <1>8

(* A partial settlement returns the unpaid part of the claim.               *)
LEMMA SettlePartClaims ==
  ASSUME IInv, SettlePart
  PROVE  Claims!Next
<1>1. epoch' = epoch
  BY DEF SettlePart
<1>2. PICK t \in Locked(ToSet(vec)) :
        \E booked \in 0..(t.withdrawal_amount - 1), registered \in BOOLEAN :
          ToSet(vec') = (ToSet(vec) \ {t}) \cup {Rest(t, booked, registered)}
  BY SettlePartEffect
<1>3. PICK booked \in 0..(t.withdrawal_amount - 1), registered \in BOOLEAN :
        ToSet(vec') = (ToSet(vec) \ {t}) \cup {Rest(t, booked, registered)}
  BY <1>2
<1> DEFINE u == Rest(t, booked, registered)
           a == t.withdrawal_amount - booked
<1>4. /\ Inflight = [amount  |-> t.withdrawal_amount, wnear |-> t.wnear_residual,
                     storage |-> t.storage_was_paid]
      /\ Inflight # EmptyClaim /\ t \in Tranche
  BY <1>1, UnlockClaims
<1>5. u \in Tranche
  BY <1>4, RestTranche
<1>6. /\ u.unstake_epoch = t.unstake_epoch /\ ~u.locked
      /\ u.withdrawal_amount = a /\ u.wnear_residual = a
      /\ u.storage_was_paid = (t.storage_was_paid \/ registered)
  BY DEF Rest
<1> HIDE DEF u
<1>7. /\ UNCHANGED Cooling /\ Inflight' = EmptyClaim
      /\ Ready' = [amount  |-> Ready.amount + u.withdrawal_amount,
                   wnear   |-> Ready.wnear + u.wnear_residual,
                   storage |-> Ready.storage \/ u.storage_was_paid]
  BY <1>1, <1>3, <1>5, <1>6, UnlockClaims DEF u
<1>8. Inflight.amount = t.withdrawal_amount /\ Inflight.storage = t.storage_was_paid
  BY <1>4
<1>9. Ready' = [amount  |-> Ready.amount + (Inflight.amount - booked),
                wnear   |-> Ready.wnear + (Inflight.amount - booked),
                storage |-> Ready.storage \/ (Inflight.storage \/ registered)]
  BY <1>6, <1>7, <1>8
<1>10. booked \in 0..(Inflight.amount - 1)
  BY <1>8
<1> QED BY <1>1, <1>4, <1>7, <1>9, <1>10, ClaimsPayPart

(* A whole settlement returns nothing.                                      *)
LEMMA SettleAllClaims ==
  ASSUME IInv, SettleAll
  PROVE  Claims!Next
<1>1. epoch' = epoch
  BY DEF SettleAll
<1>2. PICK t \in Locked(ToSet(vec)) : ToSet(vec') = ToSet(vec) \ {t}
  BY SettleAllEffect
<1>3. Inflight # EmptyClaim /\ UNCHANGED <<Cooling, Ready>> /\ Inflight' = EmptyClaim
  BY <1>1, <1>2, UnlockClaims
<1> QED BY <1>1, <1>3, ClaimsPayAll

(* A release gives the claim back as it was.                                *)
LEMMA ReleaseClaims ==
  ASSUME IInv, Release
  PROVE  Claims!Next
<1>1. epoch' = epoch
  BY DEF Release
<1>2. PICK t \in Locked(ToSet(vec)) :
        ToSet(vec') = (ToSet(vec) \ {t}) \cup {Unlocked(t)}
  BY ReleaseEffect
<1>3. /\ Inflight = [amount  |-> t.withdrawal_amount, wnear |-> t.wnear_residual,
                     storage |-> t.storage_was_paid]
      /\ Inflight # EmptyClaim /\ t \in Tranche
  BY <1>1, UnlockClaims
<1> DEFINE u == Unlocked(t)
<1>4. /\ u \in Tranche /\ ~u.locked /\ u.unstake_epoch = t.unstake_epoch
      /\ u.withdrawal_amount = t.withdrawal_amount
      /\ u.wnear_residual = t.wnear_residual
      /\ u.storage_was_paid = t.storage_was_paid
  BY <1>3, UnlockedTranche
<1> HIDE DEF u
<1>5. /\ UNCHANGED Cooling /\ Inflight' = EmptyClaim
      /\ Ready' = [amount  |-> Ready.amount + u.withdrawal_amount,
                   wnear   |-> Ready.wnear + u.wnear_residual,
                   storage |-> Ready.storage \/ u.storage_was_paid]
  BY <1>1, <1>2, <1>4, UnlockClaims DEF u
<1>6. Ready' = [amount  |-> Ready.amount + Inflight.amount,
                wnear   |-> Ready.wnear + Inflight.wnear,
                storage |-> Ready.storage \/ Inflight.storage]
  BY <1>3, <1>4, <1>5
<1> QED BY <1>1, <1>3, <1>5, <1>6, ClaimsGiveBack

(* The new epoch matures the tranche of one epoch and no other.             *)
LEMMA EpochClaims ==
  ASSUME IInv, NextEpoch
  PROVE  Claims!Next
<1> DEFINE Q == ToSet(vec)
           e == epoch + 1 - Cooldown
           S == \E t \in Matured(Q) : t.storage_was_paid
<1>1. epoch \in Nat /\ GoodQueue(Q) /\ SoundQueue(Q, TRUE, FALSE)
  BY EpochNat DEF VecOK
<1>2. epoch < MaxEpoch /\ epoch' = epoch + 1 /\ vec' = vec
  BY DEF NextEpoch
<1>3. Cooldown \in Nat /\ 0 < Cooldown /\ MaxEpoch \in Nat
  BY CooldownAssumption, TrancheVecAssumption
<1>4. \A t \in Q : ~IsMatured(t) => t.wnear_residual = 0 /\ ~t.storage_was_paid
  BY <1>1 DEF SoundQueue
<1>5. /\ ClaimOf(MaturedNext(Q)) =
           [amount  |-> AmountOf(Matured(Q)) + CoolingFrom(Q, e),
            wnear   |-> ResidualOf(Matured(Q)), storage |-> S]
      /\ CoolingNext(Q, e) = 0
      /\ \A x \in Nat : x # e => CoolingNext(Q, x) = CoolingFrom(Q, x)
      /\ e < 0 => CoolingFrom(Q, e) = 0
  <2> HIDE DEF Q
  <2> QED BY <1>1, <1>4, NextEpochClaims
<1>6. /\ Cooling' = [x \in 0..MaxEpoch |-> CoolingNext(Q, x)]
      /\ Ready' = ClaimOf(MaturedNext(Q))
      /\ Inflight' = Inflight
  BY <1>2 DEF Cooling, Ready, Inflight, CoolingFrom, CoolingNext, ClaimOf, AmountOf,
              ResidualOf, Matured, MaturedNext, Locked, IsMatured
<1>7. Ready = [amount  |-> AmountOf(Matured(Q)), wnear |-> ResidualOf(Matured(Q)),
               storage |-> S]
  BY DEF Ready, ClaimOf
<1>8. AmountOf(Matured(Q)) \in Nat
  <2>1. Matured(Q) \subseteq Tranche /\ IsFiniteSet(Matured(Q))
    BY <1>1, FS_Subset DEF GoodQueue, Matured
  <2> QED BY <2>1, AmountType
<1> HIDE DEF Q, S
<1>9. CASE e < 0
  <2>1. Ready' = Ready
    <3>1. AmountOf(Matured(Q)) + CoolingFrom(Q, e) = AmountOf(Matured(Q))
      BY <1>5, <1>8, <1>9
    <3> QED BY <1>5, <1>6, <1>7, <3>1
  <2>2. Cooling' = Cooling
    <3>1. \A x \in 0..MaxEpoch : CoolingNext(Q, x) = CoolingFrom(Q, x)
      BY <1>1, <1>3, <1>5, <1>9
    <3> QED BY <1>6, <3>1 DEF Cooling, Q
  <2>3. ~(epoch' >= Cooldown)
    BY <1>1, <1>2, <1>3, <1>9
  <2> QED BY <1>2, <1>6, <2>1, <2>2, <2>3, ClaimsNextEpoch
<1>10. CASE ~(e < 0)
  <2>1. e \in 0..MaxEpoch /\ e = epoch' - Cooldown /\ epoch' >= Cooldown
    BY <1>1, <1>2, <1>3, <1>10
  <2>2. Cooling[e] = CoolingFrom(Q, e)
    BY <2>1 DEF Cooling, Q
  <2> HIDE DEF e
  <2>3. Ready' = [Ready EXCEPT !.amount = @ + Cooling[e]]
    BY <1>5, <1>6, <1>7, <2>2
  <2>4. Cooling' = [Cooling EXCEPT ![e] = 0]
    <3>1. \A x \in 0..MaxEpoch :
             CoolingNext(Q, x) = IF x = e THEN 0 ELSE CoolingFrom(Q, x)
      BY <1>3, <1>5
    <3>2. Cooling = [x \in 0..MaxEpoch |-> CoolingFrom(Q, x)]
      BY DEF Cooling, Q
    <3> QED BY <1>6, <2>1, <3>1, <3>2
  <2> QED BY <1>2, <1>6, <2>1, <2>3, <2>4, ClaimsNextEpoch
<1> QED BY <1>9, <1>10

(* The empty Vec is the queue without claims.                               *)
LEMMA ClaimsInit == Init => Claims!Init
<1> SUFFICES ASSUME Init PROVE Claims!Init
  OBVIOUS
<1>1. epoch = 0 /\ ToSet(vec) = {}
  BY DEF Init, ToSet
<1>2. \A e : {t \in ToSet(vec) : ~IsMatured(t) /\ t.unstake_epoch = e} = {}
  BY <1>1
<1>3. \A e : CoolingFrom(ToSet(vec), e) = 0
  BY <1>2, NoTranche DEF CoolingFrom
<1>4. Matured(ToSet(vec)) = {} /\ Locked(ToSet(vec)) = {}
  BY <1>1 DEF Matured, Locked
<1>5. /\ ClaimOf(Matured(ToSet(vec))) = EmptyClaim
      /\ ClaimOf(Locked(ToSet(vec))) = EmptyClaim
  BY <1>4, NoClaim
<1> QED BY <1>1, <1>3, <1>5 DEF Claims!Init, Claims!Nothing, EmptyClaim

(* Every step of the Vec is a step of ClaimQueue, or changes no claim.      *)
LEMMA ClaimsStep == IInv /\ [Next]_vars => [Claims!Next]_(Claims!vars)
<1> SUFFICES ASSUME IInv, [Next]_vars PROVE [Claims!Next]_(Claims!vars)
  OBVIOUS
<1>1. CASE UNCHANGED vars
  <2>1. epoch' = epoch /\ vec' = vec
    BY <1>1 DEF vars
  <2>2. UNCHANGED <<epoch, Cooling, Ready, Inflight>>
    BY <2>1, ClaimsPrimed DEF Cooling, Ready, Inflight
  <2> QED BY <2>2 DEF Claims!vars, Cooling, Ready, Inflight
<1>2. CASE Next
  BY <1>2, UnstakeClaims, WithdrawClaims, SettlePartClaims, SettleAllClaims,
     ReleaseClaims, EpochClaims DEF Next
<1> QED BY <1>1, <1>2

(* The Vec of a hash, with its swaps, merges and folds, implements          *)
(* ClaimQueue: an unstake never delays or moves what was unstaked before    *)
(* it, a withdrawal takes all that has cooled down and nothing else, and a  *)
(* failed or partial delivery gives back exactly what it did not pay        *)
(* (collapse_matured_tranches, append_request, remove_request,              *)
(* release_lock).                                                           *)
THEOREM VecKeepsClaims == Spec => Implements
BY ClaimsInit, ClaimsStep, Invariance, PTL DEF Spec, Implements, Claims!Spec
=============================================================================
