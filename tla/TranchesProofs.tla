--------------------------- MODULE TranchesProofs ---------------------------
(***************************************************************************)
(* What the operations on the queue of one hash preserve, for every queue,  *)
(* cooldown, epoch and amount: a good queue stays good, and its claim moves *)
(* by exactly what the operation says.                                      *)
(***************************************************************************)
EXTENDS Tranches, TotalsProofs, WellFoundedInduction, TLAPS

(* A bounded set of natural numbers that is not empty has a maximum.        *)
LEMMA MaxOfBounded ==
  ASSUME NEW S \in SUBSET Nat, S # {}, NEW n \in Nat, \A s \in S : s <= n
  PROVE  Max(S) \in S /\ \A s \in S : s <= Max(S)
<1> DEFINE T == {n - s : s \in S}
<1>1. T \subseteq Nat /\ T # {}
  <2>1. \A s \in S : s \in Nat /\ n - s \in Nat
    OBVIOUS
  <2> QED BY <2>1
<1>2. \E m \in T : \A k \in T : ~(<<k, m>> \in OpToRel(<, Nat))
  <2> HIDE DEF T
  <2> QED BY <1>1, NatLessThanWellFounded, WFMin
<1>3. PICK m \in T : \A k \in T : ~(k < m)
  <2>1. \A k, m \in T : k < m => <<k, m>> \in OpToRel(<, Nat)
    BY <1>1 DEF OpToRel
  <2> QED BY <1>2, <2>1
<1>4. n - m \in S /\ \A s \in S : s <= n - m
  <2>1. PICK s0 \in S : m = n - s0
    OBVIOUS
  <2>2. \A s \in S : ~(n - s < n - s0)
    BY <1>3, <2>1
  <2> QED BY <2>1, <2>2
<1> QED
  BY <1>4 DEF Max

-----------------------------------------------------------------------------
(* Queues of one hash.                                                      *)

(* What every queue satisfies: its tranches are well typed and were made in *)
(* different epochs, none of them in the future; one at most is locked, and *)
(* a locked one has matured.                                                *)
GoodQueue(Q) ==
  /\ Q \subseteq Tranche /\ IsFiniteSet(Q)
  /\ \A t \in Q : t.unstake_epoch <= epoch
  /\ \A t, u \in Q : t.unstake_epoch = u.unstake_epoch => t = u
  /\ \A t, u \in Q : t.locked /\ u.locked => t = u
  /\ \A t \in Q : t.locked => IsMatured(t)

(* The claim of a finite set of tranches is a natural number.               *)
LEMMA AmountType ==
  ASSUME NEW Q, Q \subseteq Tranche, IsFiniteSet(Q)
  PROVE  AmountOf(Q) \in Nat
<1>1. [t \in Q |-> t.withdrawal_amount] \in [Q -> Nat]
  BY DEF Tranche
<1> QED BY <1>1, TotalType DEF AmountOf

(* Claims add up over a part of a queue and the rest of it.                 *)
LEMMA AmountSplit ==
  ASSUME NEW Q, Q \subseteq Tranche, IsFiniteSet(Q), NEW A \in SUBSET Q
  PROVE  AmountOf(Q) = AmountOf(A) + AmountOf(Q \ A)
<1> DEFINE f == [t \in Q |-> t.withdrawal_amount]
<1>1. f \in [Q -> Nat]
  BY DEF Tranche
<1>2. /\ [t \in A |-> f[t]] = [t \in A |-> t.withdrawal_amount]
      /\ [t \in Q \ A |-> f[t]] = [t \in Q \ A |-> t.withdrawal_amount]
  OBVIOUS
<1>3. Total(f) = Total([t \in A |-> f[t]]) + Total([t \in Q \ A |-> f[t]])
  <2> HIDE DEF f
  <2> QED BY <1>1, TotalSplit
<1> QED
  BY <1>2, <1>3 DEF AmountOf

(* A tranche that was not there adds its amount.                            *)
LEMMA AmountAdd ==
  ASSUME NEW Q, Q \subseteq Tranche, IsFiniteSet(Q),
         NEW t \in Tranche, t \notin Q
  PROVE  /\ Q \cup {t} \subseteq Tranche /\ IsFiniteSet(Q \cup {t})
         /\ AmountOf(Q \cup {t}) = AmountOf(Q) + t.withdrawal_amount
<1>1. Q \cup {t} \subseteq Tranche /\ IsFiniteSet(Q \cup {t})
  BY FS_AddElement
<1>2. AmountOf({t}) = t.withdrawal_amount
  <2> DEFINE f == [u \in {t} |-> u.withdrawal_amount]
  <2>1. f \in [{t} -> Nat] /\ f[t] = t.withdrawal_amount
    BY DEF Tranche
  <2>2. Total(f) = f[t]
    <3> HIDE DEF f
    <3> QED BY <2>1, TotalSingle
  <2> QED BY <2>1, <2>2 DEF AmountOf
<1>3. AmountOf(Q \cup {t}) = AmountOf({t}) + AmountOf((Q \cup {t}) \ {t})
  <2>1. {t} \in SUBSET (Q \cup {t})
    OBVIOUS
  <2> QED BY <1>1, <2>1, AmountSplit
<1>4. (Q \cup {t}) \ {t} = Q
  OBVIOUS
<1>5. AmountOf(Q) \in Nat /\ t.withdrawal_amount \in Nat
  BY AmountType DEF Tranche
<1> QED
  BY <1>1, <1>2, <1>3, <1>4, <1>5

(* A tranche that leaves takes its amount.                                  *)
LEMMA AmountRemove ==
  ASSUME NEW Q, Q \subseteq Tranche, IsFiniteSet(Q), NEW t \in Q
  PROVE  /\ Q \ {t} \subseteq Tranche /\ IsFiniteSet(Q \ {t})
         /\ AmountOf(Q \ {t}) = AmountOf(Q) - t.withdrawal_amount
<1>1. Q \ {t} \subseteq Tranche /\ IsFiniteSet(Q \ {t}) /\ t \notin Q \ {t}
  BY FS_Difference
<1>2. (Q \ {t}) \cup {t} = Q /\ t \in Tranche
  OBVIOUS
<1>3. AmountOf(Q) = AmountOf(Q \ {t}) + t.withdrawal_amount
  BY <1>1, <1>2, AmountAdd
<1>4. AmountOf(Q \ {t}) \in Nat /\ t.withdrawal_amount \in Nat
  BY <1>1, AmountType DEF Tranche
<1> QED
  BY <1>1, <1>3, <1>4

(* Matured tranches merge into one tranche that has their amount and one of *)
(* their epochs, and is itself matured.                                     *)
LEMMA MergedTranche ==
  ASSUME epoch \in Nat, NEW Q, GoodQueue(Q), Matured(Q) # {}, NEW lock \in BOOLEAN
  PROVE  LET m == Merged(Matured(Q), lock)
         IN  /\ m \in Tranche
             /\ m.withdrawal_amount = AmountOf(Matured(Q))
             /\ m.locked = lock
             /\ \E t \in Matured(Q) : t.unstake_epoch = m.unstake_epoch
<1> DEFINE M == Matured(Q)
           E == {t.unstake_epoch : t \in M}
<1>1. M \subseteq Q /\ M \subseteq Tranche /\ IsFiniteSet(M)
  BY FS_Subset DEF GoodQueue, Matured
<1>2. AmountOf(M) \in Nat
  BY <1>1, AmountType
<1>3. ResidualOf(M) \in Nat
  <2>1. [t \in M |-> t.wnear_residual] \in [M -> Nat]
    BY <1>1 DEF Tranche
  <2> HIDE DEF M
  <2> QED BY <1>1, <2>1, TotalType DEF ResidualOf
<1>4. Max(E) \in E
  <2>1. E \in SUBSET Nat /\ E # {} /\ \A e \in E : e <= epoch
    BY <1>1 DEF GoodQueue, Tranche
  <2> HIDE DEF E
  <2> QED BY <2>1, MaxOfBounded
<1>5. PICK t \in M : t.unstake_epoch = Max(E)
  BY <1>4
<1>6. Max(E) \in Nat
  BY <1>1, <1>5 DEF Tranche
<1>7. (\E u \in M : u.storage_was_paid) \in BOOLEAN
  OBVIOUS
<1>8. Merged(M, lock) =
        [withdrawal_amount |-> AmountOf(M), unstake_epoch |-> Max(E),
         wnear_residual |-> ResidualOf(M),
         storage_was_paid |-> \E u \in M : u.storage_was_paid, locked |-> lock]
  BY DEF Merged
<1> HIDE DEF M, E
<1>9. Merged(M, lock) \in Tranche
  BY <1>2, <1>3, <1>6, <1>7, <1>8 DEF Tranche
<1> QED
  BY <1>5, <1>8, <1>9 DEF M

(* Collapsing keeps a queue good and its claim unchanged.  The merged       *)
(* tranche may be locked if no other is.                                    *)
LEMMA CollapsedQueue ==
  ASSUME epoch \in Nat, NEW Q, GoodQueue(Q), NEW lock \in BOOLEAN,
         lock => \A t \in Q : ~t.locked
  PROVE  GoodQueue(Collapsed(Q, lock)) /\ AmountOf(Collapsed(Q, lock)) = AmountOf(Q)
<1> DEFINE M == Matured(Q)
           R == Q \ M
           m == Merged(M, lock)
<1>1. /\ M \in SUBSET Q /\ Q \subseteq Tranche /\ IsFiniteSet(Q)
      /\ M \subseteq Tranche /\ IsFiniteSet(M)
      /\ R \subseteq Tranche /\ IsFiniteSet(R)
  BY FS_Subset, FS_Difference DEF GoodQueue, Matured
<1>2. AmountOf(Q) = AmountOf(M) + AmountOf(R)
  <2> HIDE DEF M
  <2> QED BY <1>1, AmountSplit
<1>3. AmountOf(M) \in Nat /\ AmountOf(R) \in Nat
  <2> HIDE DEF M, R
  <2> QED BY <1>1, AmountType
<1>4. CASE ~(AmountOf(M) > 0)
  <2>1. Collapsed(Q, lock) = R
    BY <1>4 DEF Collapsed
  <2>2. GoodQueue(R)
    BY <1>1 DEF GoodQueue
  <2>3. AmountOf(R) = AmountOf(Q)
    BY <1>2, <1>3, <1>4
  <2> HIDE DEF R
  <2> QED BY <2>1, <2>2, <2>3
<1>5. CASE AmountOf(M) > 0
  <2>1. M # {}
    <3>1. AmountOf({}) = 0
      BY TotalEmpty DEF AmountOf
    <3> QED BY <1>5, <3>1
  <2>2. /\ m \in Tranche /\ m.withdrawal_amount = AmountOf(M) /\ m.locked = lock
        /\ \E t \in M : t.unstake_epoch = m.unstake_epoch
    BY <2>1, MergedTranche
  <2> HIDE DEF m
  <2>3. PICK t0 \in M : t0.unstake_epoch = m.unstake_epoch
    BY <2>2
  <2>4. t0 \in Q /\ t0.unstake_epoch <= epoch /\ t0 \notin R
    BY <2>3 DEF GoodQueue, Matured
  <2>5. \A t \in R : t.unstake_epoch # m.unstake_epoch
    BY <2>3, <2>4 DEF GoodQueue
  <2>6. m \notin R
    BY <2>5
  <2>7. Collapsed(Q, lock) = R \cup {m}
    BY <1>5 DEF Collapsed, m
  <2>8. R \cup {m} \subseteq Tranche /\ IsFiniteSet(R \cup {m})
        /\ AmountOf(R \cup {m}) = AmountOf(R) + m.withdrawal_amount
    <3> HIDE DEF R
    <3> QED BY <1>1, <2>2, <2>6, AmountAdd
  <2>9. \A t, u \in R \cup {m} : t.unstake_epoch = u.unstake_epoch => t = u
    BY <2>5 DEF GoodQueue
  <2>10. \A t, u \in R \cup {m} : t.locked /\ u.locked => t = u
    BY <2>2 DEF GoodQueue
  <2>11. \A t \in R \cup {m} : t.unstake_epoch <= epoch
    BY <2>3, <2>4 DEF GoodQueue
  <2>12. \A t \in R \cup {m} : t.locked => IsMatured(t)
    BY <2>3 DEF GoodQueue, Matured, IsMatured
  <2>13. GoodQueue(R \cup {m})
    BY <2>8, <2>9, <2>10, <2>11, <2>12 DEF GoodQueue
  <2>14. AmountOf(R \cup {m}) = AmountOf(Q)
    BY <1>2, <1>3, <2>2, <2>8
  <2> QED BY <2>7, <2>13, <2>14
<1> QED
  BY <1>3, <1>4, <1>5

(* Replacing a tranche by one of the same epoch keeps the queue good and    *)
(* moves its claim by the difference, provided that no lock is added.       *)
LEMMA ReplacedTranche ==
  ASSUME NEW Q, GoodQueue(Q), NEW t \in Q, NEW u \in Tranche,
         u.unstake_epoch = t.unstake_epoch, u.locked => t.locked
  PROVE  /\ GoodQueue((Q \ {t}) \cup {u})
         /\ AmountOf((Q \ {t}) \cup {u}) =
              AmountOf(Q) - t.withdrawal_amount + u.withdrawal_amount
<1> DEFINE R == Q \ {t}
<1>1. /\ R \subseteq Tranche /\ IsFiniteSet(R)
      /\ AmountOf(R) = AmountOf(Q) - t.withdrawal_amount
  BY AmountRemove DEF GoodQueue
<1>2. \A v \in R : v.unstake_epoch # u.unstake_epoch /\ (t.locked => ~v.locked)
  BY DEF GoodQueue
<1>3. u \notin R
  BY <1>2
<1>4. /\ R \cup {u} \subseteq Tranche /\ IsFiniteSet(R \cup {u})
      /\ AmountOf(R \cup {u}) = AmountOf(R) + u.withdrawal_amount
  <2> HIDE DEF R
  <2> QED BY <1>1, <1>3, AmountAdd
<1>5. /\ \A v, w \in R \cup {u} : v.unstake_epoch = w.unstake_epoch => v = w
      /\ \A v, w \in R \cup {u} : v.locked /\ w.locked => v = w
      /\ \A v \in R \cup {u} : v.unstake_epoch <= epoch
      /\ \A v \in R \cup {u} : v.locked => IsMatured(v)
  BY <1>2 DEF GoodQueue, IsMatured
<1>6. GoodQueue(R \cup {u})
  BY <1>4, <1>5 DEF GoodQueue
<1>7. AmountOf(R \cup {u}) = AmountOf(Q) - t.withdrawal_amount + u.withdrawal_amount
  BY <1>1, <1>4
<1> QED
  BY <1>6, <1>7

(* Appending adds exactly the amount, whether it folds or not.              *)
LEMMA AppendedQueue ==
  ASSUME epoch \in Nat, NEW Q, GoodQueue(Q), NEW amount \in Nat
  PROVE  /\ GoodQueue(Appended(Q, amount))
         /\ AmountOf(Appended(Q, amount)) = AmountOf(Q) + amount
<1> DEFINE R    == Collapsed(Q, FALSE)
           Same == {t \in R : ~t.locked /\ t.unstake_epoch = epoch}
           new  == NewTranche(amount, epoch)
<1>1. GoodQueue(R) /\ AmountOf(R) = AmountOf(Q)
  BY CollapsedQueue
<1>2. AmountOf(R) \in Nat
  BY <1>1, AmountType DEF GoodQueue
<1>3. CASE Same = {}
  <2>1. Appended(Q, amount) = R \cup {new}
    BY <1>3 DEF Appended
  <2>2. /\ new \in Tranche /\ new.withdrawal_amount = amount
        /\ new.unstake_epoch = epoch /\ ~new.locked
    BY DEF NewTranche, Tranche
  <2> HIDE DEF R, new
  <2>3. \A t \in R : t.unstake_epoch # new.unstake_epoch
    BY <1>1, <1>3, <2>2, CooldownAssumption DEF GoodQueue, IsMatured, Tranche
  <2>4. new \notin R
    BY <2>3
  <2>5. /\ R \cup {new} \subseteq Tranche /\ IsFiniteSet(R \cup {new})
        /\ AmountOf(R \cup {new}) = AmountOf(R) + amount
    BY <1>1, <2>2, <2>4, AmountAdd DEF GoodQueue
  <2>6. /\ \A v, w \in R \cup {new} : v.unstake_epoch = w.unstake_epoch => v = w
        /\ \A v, w \in R \cup {new} : v.locked /\ w.locked => v = w
        /\ \A v \in R \cup {new} : v.unstake_epoch <= epoch
        /\ \A v \in R \cup {new} : v.locked => IsMatured(v)
    BY <1>1, <2>2, <2>3 DEF GoodQueue
  <2>7. GoodQueue(R \cup {new})
    BY <2>5, <2>6 DEF GoodQueue
  <2> QED BY <1>1, <2>1, <2>5, <2>7
<1>4. CASE Same # {}
  <2> DEFINE t == CHOOSE t \in Same : TRUE
             u == [t EXCEPT !.withdrawal_amount = @ + amount]
  <2>1. Appended(Q, amount) = (R \ {t}) \cup {u}
    BY <1>4 DEF Appended
  <2>2. t \in R
    BY <1>4
  <2> HIDE DEF R, t
  <2>3. t \in Tranche
    BY <1>1, <2>2 DEF GoodQueue
  <2>4. /\ u \in Tranche /\ u.unstake_epoch = t.unstake_epoch
        /\ u.locked = t.locked
        /\ u.withdrawal_amount = t.withdrawal_amount + amount
        /\ t.withdrawal_amount \in Nat
    BY <2>3 DEF Tranche
  <2> HIDE DEF u
  <2>5. /\ GoodQueue((R \ {t}) \cup {u})
        /\ AmountOf((R \ {t}) \cup {u}) =
             AmountOf(R) - t.withdrawal_amount + u.withdrawal_amount
    BY <1>1, <2>2, <2>4, ReplacedTranche
  <2> QED BY <1>1, <1>2, <2>1, <2>4, <2>5
<1> QED
  BY <1>3, <1>4

(* Releasing the lock of a queue changes no claim.                          *)
LEMMA ReleasedQueue ==
  ASSUME epoch \in Nat, NEW Q, GoodQueue(Q)
  PROVE  GoodQueue(Released(Q)) /\ AmountOf(Released(Q)) = AmountOf(Q)
<1>2. CASE \A t \in Q : ~t.locked
  <2>1. Released(Q) = Q
    BY <1>2 DEF Released, Locked
  <2> QED BY <2>1
<1>3. CASE \E t \in Q : t.locked
  <2>1. PICK t \in Q : t.locked
    BY <1>3
  <2> DEFINE u == [t EXCEPT !.locked = FALSE]
  <2>2. t \in Tranche
    BY DEF GoodQueue
  <2>3. /\ u \in Tranche /\ u.unstake_epoch = t.unstake_epoch /\ ~u.locked
        /\ u.withdrawal_amount = t.withdrawal_amount
        /\ t.withdrawal_amount \in Nat
    BY <2>2 DEF Tranche
  <2>4. \A v \in Q : v # t => ~v.locked
    BY <2>1 DEF GoodQueue
  <2>5. Released(Q) = (Q \ {t}) \cup {u}
    <3>1. {v \in Q : ~v.locked} = Q \ {t} /\ Locked(Q) = {t}
      BY <2>1, <2>4 DEF Locked
    <3>2. {[v EXCEPT !.locked = FALSE] : v \in {t}} = {u}
      OBVIOUS
    <3> HIDE DEF u
    <3> QED BY <3>1, <3>2 DEF Released
  <2>6. AmountOf(Q) \in Nat
    BY AmountType DEF GoodQueue
  <2> HIDE DEF u
  <2>7. /\ GoodQueue((Q \ {t}) \cup {u})
        /\ AmountOf((Q \ {t}) \cup {u}) =
             AmountOf(Q) - t.withdrawal_amount + u.withdrawal_amount
    BY <2>3, ReplacedTranche
  <2> QED BY <2>3, <2>5, <2>6, <2>7
<1> QED
  BY <1>2, <1>3

-----------------------------------------------------------------------------
(* The wNEAR a queue may still count on, and how it relates to the claim.   *)

(* The residual of a finite set of tranches is a natural number.            *)
LEMMA ResidualType ==
  ASSUME NEW Q, Q \subseteq Tranche, IsFiniteSet(Q)
  PROVE  ResidualOf(Q) \in Nat
<1>1. [t \in Q |-> t.wnear_residual] \in [Q -> Nat]
  BY DEF Tranche
<1> QED BY <1>1, TotalType DEF ResidualOf

(* Residuals add up over a part of a queue and the rest of it.              *)
LEMMA ResidualSplit ==
  ASSUME NEW Q, Q \subseteq Tranche, IsFiniteSet(Q), NEW A \in SUBSET Q
  PROVE  ResidualOf(Q) = ResidualOf(A) + ResidualOf(Q \ A)
<1> DEFINE f == [t \in Q |-> t.wnear_residual]
<1>1. f \in [Q -> Nat]
  BY DEF Tranche
<1>2. /\ [t \in A |-> f[t]] = [t \in A |-> t.wnear_residual]
      /\ [t \in Q \ A |-> f[t]] = [t \in Q \ A |-> t.wnear_residual]
  OBVIOUS
<1>3. Total(f) = Total([t \in A |-> f[t]]) + Total([t \in Q \ A |-> f[t]])
  <2> HIDE DEF f
  <2> QED BY <1>1, TotalSplit
<1> QED
  BY <1>2, <1>3 DEF ResidualOf

(* Two queues that differ in one tranche differ in its amount and residual. *)
LEMMA TrancheMove ==
  ASSUME NEW Q, Q \subseteq Tranche, IsFiniteSet(Q),
         NEW R, R \subseteq Tranche, IsFiniteSet(R),
         NEW t, Q \ {t} = R \ {t}
  PROVE  /\ AmountOf(R) = AmountOf(Q) - (IF t \in Q THEN t.withdrawal_amount ELSE 0)
                                      + (IF t \in R THEN t.withdrawal_amount ELSE 0)
         /\ ResidualOf(R) = ResidualOf(Q) - (IF t \in Q THEN t.wnear_residual ELSE 0)
                                          + (IF t \in R THEN t.wnear_residual ELSE 0)
<1> DEFINE f == [u \in Q |-> u.withdrawal_amount]
           g == [u \in R |-> u.withdrawal_amount]
           k == [u \in Q |-> u.wnear_residual]
           l == [u \in R |-> u.wnear_residual]
<1>1. /\ f \in [Q -> Nat] /\ g \in [R -> Nat] /\ k \in [Q -> Nat] /\ l \in [R -> Nat]
      /\ \A u \in Q \ {t} : f[u] = g[u] /\ k[u] = l[u]
  BY DEF Tranche
<1>2. /\ t \in Q => f[t] = t.withdrawal_amount /\ k[t] = t.wnear_residual
      /\ t \in R => g[t] = t.withdrawal_amount /\ l[t] = t.wnear_residual
  OBVIOUS
<1>3. AmountOf(Q) = Total(f) /\ AmountOf(R) = Total(g)
      /\ ResidualOf(Q) = Total(k) /\ ResidualOf(R) = Total(l)
  BY DEF AmountOf, ResidualOf
<1> HIDE DEF f, g, k, l
<1>4. Total(g) = Total(f) - (IF t \in Q THEN f[t] ELSE 0)
                          + (IF t \in R THEN g[t] ELSE 0)
  BY <1>1, TotalMove
<1>5. Total(l) = Total(k) - (IF t \in Q THEN k[t] ELSE 0)
                          + (IF t \in R THEN l[t] ELSE 0)
  BY <1>1, TotalMove
<1> QED
  BY <1>2, <1>3, <1>4, <1>5

(* The claim and the residual of no tranche and of one.                     *)
LEMMA NoTranche == AmountOf({}) = 0 /\ ResidualOf({}) = 0
BY TotalEmpty DEF AmountOf, ResidualOf

(* A single tranche amounts to itself.                                      *)
LEMMA OneTranche ==
  ASSUME NEW t \in Tranche
  PROVE  AmountOf({t}) = t.withdrawal_amount /\ ResidualOf({t}) = t.wnear_residual
<1>1. t.withdrawal_amount \in Nat /\ t.wnear_residual \in Nat
  BY DEF Tranche
<1>2. {} \ {t} = {t} \ {t} /\ {} \subseteq Tranche /\ {t} \subseteq Tranche
  OBVIOUS
<1>3. IsFiniteSet({}) /\ IsFiniteSet({t})
  BY FS_EmptySet, FS_Singleton
<1>4. /\ AmountOf({t}) = AmountOf({}) - (IF t \in {} THEN t.withdrawal_amount ELSE 0)
                                       + (IF t \in {t} THEN t.withdrawal_amount ELSE 0)
      /\ ResidualOf({t}) = ResidualOf({}) - (IF t \in {} THEN t.wnear_residual ELSE 0)
                                           + (IF t \in {t} THEN t.wnear_residual ELSE 0)
  BY <1>2, <1>3, TrancheMove, Zenon
<1> QED
  BY <1>1, <1>4, NoTranche

(* No tranche is worth more than its queue.                                 *)
LEMMA AmountMember ==
  ASSUME NEW Q, Q \subseteq Tranche, IsFiniteSet(Q), NEW t \in Q
  PROVE  t.withdrawal_amount <= AmountOf(Q)
<1> DEFINE f == [u \in Q |-> u.withdrawal_amount]
<1>1. f \in [Q -> Nat] /\ f[t] = t.withdrawal_amount
  BY DEF Tranche
<1>2. f[t] <= Total(f)
  <2> HIDE DEF f
  <2> QED BY <1>1, TotalMember
<1> QED
  BY <1>1, <1>2 DEF AmountOf

(* If no tranche has more residual than it is worth, then neither has the   *)
(* queue, with or without one of its tranches.                              *)
LEMMA ResidualWithin ==
  ASSUME NEW Q, Q \subseteq Tranche, IsFiniteSet(Q),
         \A t \in Q : t.wnear_residual <= t.withdrawal_amount
  PROVE  /\ ResidualOf(Q) <= AmountOf(Q)
         /\ \A t \in Q : ResidualOf(Q) - t.wnear_residual
                           <= AmountOf(Q) - t.withdrawal_amount
<1> DEFINE f == [u \in Q |-> u.withdrawal_amount]
           g == [u \in Q |-> u.wnear_residual]
<1>1. /\ f \in [Q -> Nat] /\ g \in [Q -> Nat]
      /\ \A t \in Q : g[t] <= f[t]
      /\ \A t \in Q : f[t] = t.withdrawal_amount /\ g[t] = t.wnear_residual
  BY DEF Tranche
<1>2. AmountOf(Q) = Total(f) /\ ResidualOf(Q) = Total(g)
  BY DEF AmountOf, ResidualOf
<1> HIDE DEF f, g
<1>3. Total(g) <= Total(f)
  BY <1>1, TotalMonotone
<1>4. \A t \in Q : Total(g) - g[t] <= Total(f) - f[t]
  BY <1>1, TotalDominates
<1> QED
  BY <1>1, <1>2, <1>3, <1>4

-----------------------------------------------------------------------------
(* Queues whose tranches are worth something, and their parts.              *)

(* What every queue whose settlements met their own withdrawals satisfies:  *)
(* each tranche is worth something and at least its residual; a residual    *)
(* comes from a call (call) with the storage paid if it is wanted (wants);  *)
(* a tranche that is cooling down has neither; and while a tranche is       *)
(* locked, no other holds a residual.                                       *)
SoundQueue(Q, call, wants) ==
  /\ \A t \in Q : 0 < t.withdrawal_amount /\ t.wnear_residual <= t.withdrawal_amount
  /\ \A t \in Q : t.wnear_residual > 0 => call /\ (wants => t.storage_was_paid)
  /\ \A t \in Q : ~IsMatured(t) => t.wnear_residual = 0 /\ ~t.storage_was_paid
  /\ \A t, u \in Q : t.locked /\ u # t => u.wnear_residual = 0

CoolingTranches(Q) == {t \in Q : ~IsMatured(t)}

(* A merge has matured and differs from every tranche that stays.           *)
LEMMA MergedMatured ==
  ASSUME epoch \in Nat, NEW Q, GoodQueue(Q), Matured(Q) # {}, NEW lock \in BOOLEAN
  PROVE  LET m == Merged(Matured(Q), lock)
         IN  /\ m \in Tranche /\ IsMatured(m) /\ m \notin Q \ Matured(Q)
             /\ m.withdrawal_amount = AmountOf(Matured(Q))
             /\ m.wnear_residual = ResidualOf(Matured(Q))
             /\ m.storage_was_paid = (\E t \in Matured(Q) : t.storage_was_paid)
             /\ m.locked = lock
<1> DEFINE M == Matured(Q)
           m == Merged(M, lock)
<1>1. /\ m \in Tranche /\ m.withdrawal_amount = AmountOf(M) /\ m.locked = lock
      /\ \E t \in M : t.unstake_epoch = m.unstake_epoch
  BY MergedTranche
<1>2. PICK t \in M : t.unstake_epoch = m.unstake_epoch
  BY <1>1
<1>3. /\ m.wnear_residual = ResidualOf(M)
      /\ m.storage_was_paid = (\E u \in M : u.storage_was_paid)
  BY DEF Merged
<1>4. t \in Q /\ IsMatured(t) /\ t \notin Q \ M
  BY <1>2 DEF Matured
<1> HIDE DEF m
<1>5. IsMatured(m)
  BY <1>2, <1>4 DEF IsMatured
<1>6. m \notin Q \ M
  BY <1>2, <1>4 DEF GoodQueue
<1> QED
  BY <1>1, <1>3, <1>5, <1>6 DEF m

(* Collapsing replaces the matured tranches, if there are any, by their     *)
(* merge and touches nothing else.                                          *)
LEMMA CollapsedParts ==
  ASSUME epoch \in Nat, NEW Q, GoodQueue(Q), NEW lock \in BOOLEAN,
         \A t \in Q : 0 < t.withdrawal_amount, lock => \A t \in Q : ~t.locked
  PROVE  LET M == Matured(Q)
             m == Merged(M, lock)
             C == Collapsed(Q, lock)
         IN  /\ M = {} => C = Q
             /\ M # {} => /\ C = (Q \ M) \cup {m}
                          /\ Matured(C) = IF lock THEN {} ELSE {m}
                          /\ Locked(C) = IF lock THEN {m} ELSE Locked(Q)
             /\ CoolingTranches(C) = CoolingTranches(Q)
<1> DEFINE M == Matured(Q)
           m == Merged(M, lock)
           C == Collapsed(Q, lock)
<1>1. Q \subseteq Tranche /\ M \subseteq Q /\ IsFiniteSet(M)
  BY FS_Subset DEF GoodQueue, Matured
<1>2. CASE M = {}
  <2>1. ~(AmountOf(M) > 0)
    BY <1>2, NoTranche
  <2>2. C = Q
    BY <1>2, <2>1 DEF Collapsed
  <2> QED BY <1>2, <2>2
<1>3. CASE M # {}
  <2>1. PICK t \in M : TRUE
    BY <1>3
  <2>2. AmountOf(M) > 0
    <3>1. t \in Tranche /\ 0 < t.withdrawal_amount
      BY <1>1, <2>1
    <3>2. t.withdrawal_amount <= AmountOf(M)
      <4>1. M \subseteq Tranche
        BY <1>1
      <4> HIDE DEF M
      <4> QED BY <1>1, <2>1, <4>1, AmountMember
    <3>3. AmountOf(M) \in Nat /\ t.withdrawal_amount \in Nat
      <4>1. M \subseteq Tranche
        BY <1>1
      <4> HIDE DEF M
      <4> QED BY <1>1, <3>1, <4>1, AmountType DEF Tranche
    <3> QED BY <3>1, <3>2, <3>3
  <2>3. C = (Q \ M) \cup {m}
    BY <2>2 DEF Collapsed
  <2>4. IsMatured(m) /\ m.locked = lock /\ m \notin Q \ M
    BY <1>3, MergedMatured
  <2> HIDE DEF m, C
  <2>5. Matured(C) = IF lock THEN {} ELSE {m}
    BY <2>3, <2>4 DEF Matured
  <2>6. Locked(C) = IF lock THEN {m} ELSE Locked(Q)
    BY <2>3, <2>4 DEF Locked, Matured
  <2>7. CoolingTranches(C) = CoolingTranches(Q)
    BY <2>3, <2>4 DEF CoolingTranches, Matured
  <2> QED BY <1>3, <2>3, <2>5, <2>6, <2>7 DEF m, C
<1> QED
  BY <1>2, <1>3

(* Appending either adds a tranche of this epoch to the collapsed queue or  *)
(* enlarges the one it has, which is cooling down.                          *)
LEMMA AppendedParts ==
  ASSUME epoch \in Nat, NEW Q, GoodQueue(Q), NEW amount \in Nat
  PROVE  LET R == Collapsed(Q, FALSE)
             A == Appended(Q, amount)
         IN  \/ /\ A = R \cup {NewTranche(amount, epoch)}
                /\ \A t \in R : t.unstake_epoch # epoch
             \/ \E t \in R : /\ ~t.locked /\ ~IsMatured(t) /\ t.unstake_epoch = epoch
                             /\ A = (R \ {t}) \cup
                                      {[t EXCEPT !.withdrawal_amount = @ + amount]}
<1> DEFINE R    == Collapsed(Q, FALSE)
           Same == {t \in R : ~t.locked /\ t.unstake_epoch = epoch}
<1>1. GoodQueue(R)
  BY CollapsedQueue
<1>2. \A t \in R : t.unstake_epoch = epoch => ~IsMatured(t)
  BY <1>1, CooldownAssumption DEF GoodQueue, IsMatured
<1>3. CASE Same = {}
  <2>1. Appended(Q, amount) = R \cup {NewTranche(amount, epoch)}
    BY <1>3 DEF Appended
  <2>2. \A t \in R : t.unstake_epoch # epoch
    BY <1>1, <1>2, <1>3 DEF GoodQueue
  <2> QED BY <2>1, <2>2
<1>4. CASE Same # {}
  <2> DEFINE t == CHOOSE t \in Same : TRUE
  <2>1. Appended(Q, amount) = (R \ {t}) \cup {[t EXCEPT !.withdrawal_amount = @ + amount]}
    BY <1>4 DEF Appended
  <2>2. t \in R /\ ~t.locked /\ t.unstake_epoch = epoch /\ ~IsMatured(t)
    BY <1>2, <1>4
  <2> HIDE DEF t, R
  <2> QED BY <2>1, <2>2 DEF R
<1> QED
  BY <1>3, <1>4

(* An unstake leaves the locked tranche exactly as it is.                   *)
LEMMA AppendedLocked ==
  ASSUME epoch \in Nat, NEW Q, GoodQueue(Q), NEW amount \in Nat
  PROVE  Locked(Appended(Q, amount)) = Locked(Q)
<1> DEFINE R   == Collapsed(Q, FALSE)
           A   == Appended(Q, amount)
           new == NewTranche(amount, epoch)
<1>1. Locked(R) = Locked(Q)
  <2>1. ~Merged(Matured(Q), FALSE).locked
    BY DEF Merged
  <2> QED BY <2>1 DEF Collapsed, Locked, Matured
<1>2. \/ A = R \cup {new}
      \/ \E t \in R : /\ ~t.locked
                      /\ A = (R \ {t}) \cup {[t EXCEPT !.withdrawal_amount = @ + amount]}
  BY AppendedParts
<1>3. GoodQueue(R)
  BY CollapsedQueue
<1>4. \A t \in R : t \in Tranche
  BY <1>3 DEF GoodQueue
<1> HIDE DEF R, A
<1>5. CASE A = R \cup {new}
  <2>1. ~new.locked
    BY DEF NewTranche
  <2> QED BY <1>1, <1>5, <2>1 DEF Locked, A
<1>6. ASSUME NEW t \in R, ~t.locked,
             A = (R \ {t}) \cup {[t EXCEPT !.withdrawal_amount = @ + amount]}
      PROVE  Locked(A) = Locked(R)
  <2>1. ~[t EXCEPT !.withdrawal_amount = @ + amount].locked
    BY <1>4, <1>6 DEF Tranche
  <2> QED BY <1>6, <2>1 DEF Locked
<1> QED
  BY <1>1, <1>2, <1>5, <1>6 DEF A

(* Tranches without residual have none together.                            *)
LEMMA ResidualNone ==
  ASSUME NEW Q, \A t \in Q : t.wnear_residual = 0
  PROVE  ResidualOf(Q) = 0
BY TotalZero DEF ResidualOf

(* Collapsing keeps a queue sound and loses no residual.                    *)
LEMMA SoundCollapsed ==
  ASSUME epoch \in Nat, NEW Q, GoodQueue(Q), NEW lock \in BOOLEAN,
         NEW call, NEW wants, SoundQueue(Q, call, wants),
         lock => \A t \in Q : ~t.locked
  PROVE  /\ SoundQueue(Collapsed(Q, lock), call, wants)
         /\ ResidualOf(Collapsed(Q, lock)) = ResidualOf(Q)
<1> DEFINE M == Matured(Q)
           R == Q \ M
           m == Merged(M, lock)
           C == Collapsed(Q, lock)
<1>1. /\ M \in SUBSET Q /\ Q \subseteq Tranche /\ IsFiniteSet(Q)
      /\ M \subseteq Tranche /\ IsFiniteSet(M)
      /\ R \subseteq Tranche /\ IsFiniteSet(R)
  BY FS_Subset, FS_Difference DEF GoodQueue, Matured
<1>2. \A t \in Q : 0 < t.withdrawal_amount /\ t.wnear_residual <= t.withdrawal_amount
  BY DEF SoundQueue
<1>3. M = {} => C = Q
  BY <1>2, CollapsedParts
<1>4. CASE M # {}
  <2>1. C = R \cup {m}
    BY <1>2, <1>4, CollapsedParts
  <2>2. /\ m \in Tranche /\ IsMatured(m) /\ m \notin R
        /\ m.withdrawal_amount = AmountOf(M)
        /\ m.wnear_residual = ResidualOf(M)
        /\ m.storage_was_paid = (\E t \in M : t.storage_was_paid)
        /\ m.locked = lock
    BY <1>4, MergedMatured
  <2>3. AmountOf(M) > 0 /\ ResidualOf(M) <= AmountOf(M)
    <3>1. PICK t \in M : TRUE
      BY <1>4
    <3>2. t \in Tranche /\ 0 < t.withdrawal_amount
      BY <1>1, <1>2, <3>1
    <3>3. \A u \in M : u.wnear_residual <= u.withdrawal_amount
      BY <1>1, <1>2
    <3> HIDE DEF M
    <3>4. t.withdrawal_amount <= AmountOf(M) /\ AmountOf(M) \in Nat
      BY <1>1, <3>1, AmountMember, AmountType
    <3>5. ResidualOf(M) <= AmountOf(M)
      BY <1>1, <3>3, ResidualWithin
    <3> QED BY <3>2, <3>4, <3>5 DEF Tranche
  <2>4. ResidualOf(M) > 0 => \E t \in M : t.wnear_residual > 0
    <3>1. SUFFICES ASSUME \A t \in M : ~(t.wnear_residual > 0) PROVE ResidualOf(M) = 0
      BY ResidualType, <1>1
    <3>2. \A t \in M : t.wnear_residual = 0
      BY <1>1, <3>1 DEF Tranche
    <3> HIDE DEF M
    <3> QED BY <3>2, ResidualNone
  <2>5. ResidualOf(Q) = ResidualOf(M) + ResidualOf(R)
    <3> HIDE DEF M
    <3> QED BY <1>1, ResidualSplit
  <2> HIDE DEF m, C
  <2>6. ResidualOf(C) = ResidualOf(Q)
    <3>1. ResidualOf(R) \in Nat /\ ResidualOf(M) \in Nat
      <4> HIDE DEF M, R
      <4> QED BY <1>1, ResidualType
    <3>2. IsFiniteSet(R \cup {m}) /\ R \cup {m} \subseteq Tranche
      <4> HIDE DEF R
      <4> QED BY <1>1, <2>2, FS_AddElement
    <3>3. ResidualOf(R \cup {m}) = ResidualOf(R) + m.wnear_residual
      <4>1. R \ {m} = (R \cup {m}) \ {m}
        OBVIOUS
      <4> HIDE DEF R
      <4>2. ResidualOf(R \cup {m}) =
              ResidualOf(R) - (IF m \in R THEN m.wnear_residual ELSE 0)
                 + (IF m \in R \cup {m} THEN m.wnear_residual ELSE 0)
        BY <1>1, <3>2, <4>1, TrancheMove
      <4> QED BY <2>2, <3>1, <4>2
    <3> HIDE DEF R
    <3> QED BY <2>1, <2>2, <2>5, <3>1, <3>3
  <2>7. \A t \in C : 0 < t.withdrawal_amount /\ t.wnear_residual <= t.withdrawal_amount
    BY <1>2, <2>1, <2>2, <2>3
  <2>8. \A t \in C : t.wnear_residual > 0 => call /\ (wants => t.storage_was_paid)
    <3>1. m.wnear_residual > 0 => call /\ (wants => m.storage_was_paid)
      BY <1>1, <2>2, <2>4 DEF SoundQueue
    <3> QED BY <2>1, <3>1 DEF SoundQueue
  <2>9. \A t \in C : ~IsMatured(t) => t.wnear_residual = 0 /\ ~t.storage_was_paid
    BY <2>1, <2>2 DEF SoundQueue
  <2>10. \A t, u \in C : t.locked /\ u # t => u.wnear_residual = 0
    <3>1. CASE lock
      <4>1. \A u \in R : ~u.locked /\ u.wnear_residual = 0
        BY <3>1 DEF Matured, SoundQueue
      <4> QED BY <2>1, <4>1
    <3>2. CASE ~lock
      <4>1. ASSUME NEW t \in R, t.locked
            PROVE  m.wnear_residual = 0
        <5>1. \A u \in M : u.wnear_residual = 0
          BY <4>1 DEF SoundQueue, Matured
        <5> HIDE DEF M
        <5> QED BY <2>2, <5>1, ResidualNone
      <4>2. ~m.locked
        BY <2>2, <3>2
      <4> QED BY <2>1, <4>1, <4>2 DEF SoundQueue
    <3> QED BY <3>1, <3>2
  <2>11. SoundQueue(C, call, wants)
    BY <2>7, <2>8, <2>9, <2>10 DEF SoundQueue
  <2> QED BY <2>6, <2>11 DEF C
<1> QED
  BY <1>3, <1>4

(* Appending keeps a queue sound and loses no residual.                     *)
LEMMA SoundAppended ==
  ASSUME epoch \in Nat, NEW Q, GoodQueue(Q), NEW amount \in Nat, 0 < amount,
         NEW call, NEW wants, SoundQueue(Q, call, wants)
  PROVE  /\ SoundQueue(Appended(Q, amount), call, wants)
         /\ ResidualOf(Appended(Q, amount)) = ResidualOf(Q)
<1> DEFINE R   == Collapsed(Q, FALSE)
           A   == Appended(Q, amount)
           new == NewTranche(amount, epoch)
<1>1. /\ GoodQueue(R) /\ SoundQueue(R, call, wants)
      /\ ResidualOf(R) = ResidualOf(Q)
  BY CollapsedQueue, SoundCollapsed
<1>2. GoodQueue(A)
  BY AppendedQueue
<1>3. /\ R \subseteq Tranche /\ IsFiniteSet(R) /\ ResidualOf(R) \in Nat
      /\ A \subseteq Tranche /\ IsFiniteSet(A)
  BY <1>1, <1>2, ResidualType DEF GoodQueue
<1>4. \/ /\ A = R \cup {new}
         /\ \A t \in R : t.unstake_epoch # epoch
      \/ \E t \in R : /\ ~t.locked /\ ~IsMatured(t) /\ t.unstake_epoch = epoch
                      /\ A = (R \ {t}) \cup {[t EXCEPT !.withdrawal_amount = @ + amount]}
  BY AppendedParts
<1> HIDE DEF R, A
<1>5. CASE A = R \cup {new} /\ \A t \in R : t.unstake_epoch # epoch
  <2>1. /\ new \in Tranche /\ new.withdrawal_amount = amount /\ ~new.locked
        /\ new.unstake_epoch = epoch /\ new.wnear_residual = 0 /\ ~new.storage_was_paid
    BY DEF NewTranche, Tranche
  <2> HIDE DEF new
  <2>2. new \notin R /\ R \ {new} = A \ {new} /\ new \in A
    BY <1>5, <2>1
  <2>3. ResidualOf(A) = ResidualOf(R) - (IF new \in R THEN new.wnear_residual ELSE 0)
                                      + (IF new \in A THEN new.wnear_residual ELSE 0)
    BY <1>3, <2>2, TrancheMove
  <2>4. SoundQueue(A, call, wants)
    BY <1>1, <1>5, <2>1 DEF SoundQueue
  <2> QED BY <1>1, <1>3, <2>1, <2>2, <2>3, <2>4 DEF A
<1>6. ASSUME NEW t \in R, ~t.locked, ~IsMatured(t), t.unstake_epoch = epoch,
             A = (R \ {t}) \cup {[t EXCEPT !.withdrawal_amount = @ + amount]}
      PROVE  SoundQueue(A, call, wants) /\ ResidualOf(A) = ResidualOf(R)
  <2> DEFINE u == [t EXCEPT !.withdrawal_amount = @ + amount]
  <2>1. t \in Tranche /\ t.wnear_residual = 0 /\ ~t.storage_was_paid
        /\ 0 < t.withdrawal_amount
    BY <1>1, <1>3, <1>6 DEF SoundQueue
  <2>2. /\ u \in Tranche /\ u.wnear_residual = 0 /\ ~u.locked /\ ~u.storage_was_paid
        /\ 0 < u.withdrawal_amount
    BY <1>6, <2>1 DEF Tranche
  <2>3. A = (R \ {t}) \cup {u}
    BY <1>6
  <2> HIDE DEF u
  <2>4. SoundQueue(A, call, wants)
    <3>1. \A v \in A : v \in R \/ v = u
      BY <2>3
    <3>2. /\ \A v \in A : 0 < v.withdrawal_amount /\ v.wnear_residual <= v.withdrawal_amount
          /\ \A v \in A : v.wnear_residual > 0 => call /\ (wants => v.storage_was_paid)
      BY <1>1, <2>2, <3>1 DEF SoundQueue, Tranche
    <3>3. \A v \in A : ~IsMatured(v) => v.wnear_residual = 0 /\ ~v.storage_was_paid
      BY <1>1, <2>2, <3>1 DEF SoundQueue
    <3>4. \A v, w \in A : v.locked /\ w # v => w.wnear_residual = 0
      BY <1>1, <2>2, <3>1 DEF SoundQueue
    <3> QED BY <3>2, <3>3, <3>4 DEF SoundQueue
  <2>5. ResidualOf(A) = ResidualOf(R)
    <3> DEFINE P == R \ {t}
    <3>1. P \subseteq Tranche /\ IsFiniteSet(P) /\ P \ {t} = R \ {t} /\ t \notin P
      BY <1>3, FS_Difference
    <3>2. A = P \cup {u}
      BY <2>3
    <3> HIDE DEF P
    <3>3. ResidualOf(P) = ResidualOf(R) - (IF t \in R THEN t.wnear_residual ELSE 0)
                                        + (IF t \in P THEN t.wnear_residual ELSE 0)
      BY <1>3, <3>1, TrancheMove
    <3>4. ResidualOf(P) = ResidualOf(R)
      BY <1>3, <1>6, <2>1, <3>1, <3>3
    <3>5. P \ {u} = A \ {u} /\ u \in A
      BY <3>2
    <3>6. ResidualOf(A) = ResidualOf(P) - (IF u \in P THEN u.wnear_residual ELSE 0)
                                        + (IF u \in A THEN u.wnear_residual ELSE 0)
      BY <1>3, <3>1, <3>5, TrancheMove
    <3> QED BY <1>3, <2>2, <3>4, <3>5, <3>6
  <2> QED BY <2>4, <2>5
<1> QED
  BY <1>1, <1>4, <1>5, <1>6 DEF A

(* Releasing keeps a queue sound and loses no residual.                     *)
LEMMA SoundReleased ==
  ASSUME epoch \in Nat, NEW Q, GoodQueue(Q),
         NEW call, NEW wants, SoundQueue(Q, call, wants)
  PROVE  /\ SoundQueue(Released(Q), call, wants)
         /\ ResidualOf(Released(Q)) = ResidualOf(Q)
<1> DEFINE A == Released(Q)
<1>1. GoodQueue(A)
  BY ReleasedQueue
<1>2. /\ Q \subseteq Tranche /\ IsFiniteSet(Q) /\ ResidualOf(Q) \in Nat
      /\ A \subseteq Tranche /\ IsFiniteSet(A)
  BY <1>1, ResidualType DEF GoodQueue
<1>3. CASE \A t \in Q : ~t.locked
  <2>1. A = Q
    BY <1>3 DEF Released, Locked
  <2> QED BY <2>1
<1>4. ASSUME NEW t \in Q, t.locked
      PROVE  SoundQueue(A, call, wants) /\ ResidualOf(A) = ResidualOf(Q)
  <2> DEFINE u == [t EXCEPT !.locked = FALSE]
             P == Q \ {t}
  <2>1. /\ u \in Tranche /\ ~u.locked /\ u.unstake_epoch = t.unstake_epoch
        /\ u.withdrawal_amount = t.withdrawal_amount
        /\ u.wnear_residual = t.wnear_residual
        /\ u.storage_was_paid = t.storage_was_paid
        /\ t.wnear_residual \in Nat
    <3>1. t \in Tranche
      BY <1>2
    <3> QED BY <3>1 DEF Tranche
  <2>2. \A v \in P : ~v.locked
    BY <1>4 DEF GoodQueue
  <2>3. A = P \cup {u}
    <3>1. {v \in Q : ~v.locked} = P /\ Locked(Q) = {t}
      BY <1>4, <2>2 DEF Locked
    <3>2. {[v EXCEPT !.locked = FALSE] : v \in {t}} = {u}
      OBVIOUS
    <3> HIDE DEF u, P
    <3> QED BY <3>1, <3>2 DEF Released
  <2>4. u \notin P
    BY <2>1, <1>4 DEF GoodQueue
  <2> HIDE DEF u
  <2>5. SoundQueue(A, call, wants)
    <3>1. IsMatured(u) = IsMatured(t)
      BY <2>1 DEF IsMatured
    <3> HIDE DEF A
    <3> QED BY <2>1, <2>2, <2>3, <3>1 DEF SoundQueue
  <2>6. ResidualOf(A) = ResidualOf(Q)
    <3>1. P \subseteq Tranche /\ IsFiniteSet(P) /\ P \ {t} = Q \ {t} /\ t \notin P
      BY <1>2, FS_Difference
    <3> HIDE DEF P, A
    <3>2. ResidualOf(P) = ResidualOf(Q) - (IF t \in Q THEN t.wnear_residual ELSE 0)
                                        + (IF t \in P THEN t.wnear_residual ELSE 0)
      BY <1>2, <3>1, TrancheMove
    <3>3. P \ {u} = A \ {u} /\ u \in A
      BY <2>3
    <3>4. ResidualOf(A) = ResidualOf(P) - (IF u \in P THEN u.wnear_residual ELSE 0)
                                        + (IF u \in A THEN u.wnear_residual ELSE 0)
      BY <1>2, <3>1, <3>3, TrancheMove
    <3> QED BY <1>2, <1>4, <2>1, <2>4, <3>1, <3>2, <3>3, <3>4
  <2> QED BY <2>5, <2>6
<1> QED
  BY <1>3, <1>4

-----------------------------------------------------------------------------
(* What the operations do to the claims of a queue (ClaimOf, CoolingFrom).  *)

(* The claim of one tranche, and of a queue with one tranche more.          *)
LEMMA OneClaim ==
  ASSUME NEW t \in Tranche
  PROVE  ClaimOf({t}) = [amount  |-> t.withdrawal_amount,
                         wnear   |-> t.wnear_residual,
                         storage |-> t.storage_was_paid]
<1>1. (\E u \in {t} : u.storage_was_paid) = t.storage_was_paid
  BY DEF Tranche
<1> QED
  BY <1>1, OneTranche DEF ClaimOf

(* Adding a tranche to a queue adds its amount, residual and registration   *)
(* to the claim.                                                            *)
LEMMA ClaimAdd ==
  ASSUME NEW Q, Q \subseteq Tranche, IsFiniteSet(Q), NEW t \in Tranche, t \notin Q
  PROVE  ClaimOf(Q \cup {t}) =
           [amount  |-> AmountOf(Q) + t.withdrawal_amount,
            wnear   |-> ResidualOf(Q) + t.wnear_residual,
            storage |-> (\E u \in Q : u.storage_was_paid) \/ t.storage_was_paid]
<1>1. (\E u \in Q \cup {t} : u.storage_was_paid) =
        ((\E u \in Q : u.storage_was_paid) \/ t.storage_was_paid)
  BY DEF Tranche
<1>2. /\ AmountOf(Q) \in Nat /\ ResidualOf(Q) \in Nat
      /\ t.withdrawal_amount \in Nat /\ t.wnear_residual \in Nat
  BY AmountType, ResidualType DEF Tranche
<1>3. Q \cup {t} \subseteq Tranche /\ IsFiniteSet(Q \cup {t})
      /\ Q \ {t} = (Q \cup {t}) \ {t}
  BY FS_AddElement
<1>4. /\ AmountOf(Q \cup {t}) =
           AmountOf(Q) - (IF t \in Q THEN t.withdrawal_amount ELSE 0)
             + (IF t \in Q \cup {t} THEN t.withdrawal_amount ELSE 0)
      /\ ResidualOf(Q \cup {t}) =
           ResidualOf(Q) - (IF t \in Q THEN t.wnear_residual ELSE 0)
             + (IF t \in Q \cup {t} THEN t.wnear_residual ELSE 0)
  BY <1>3, TrancheMove
<1>5. /\ AmountOf(Q \cup {t}) = AmountOf(Q) + t.withdrawal_amount
      /\ ResidualOf(Q \cup {t}) = ResidualOf(Q) + t.wnear_residual
  BY <1>2, <1>4
<1> QED
  BY <1>1, <1>5 DEF ClaimOf

(* Collapsing moves no claim, unless it locks: then all that has matured,   *)
(* and nothing else, is in flight.                                          *)
LEMMA CollapsedClaims ==
  ASSUME epoch \in Nat, NEW Q, GoodQueue(Q), NEW lock \in BOOLEAN,
         \A t \in Q : 0 < t.withdrawal_amount, lock => \A t \in Q : ~t.locked
  PROVE  LET C == Collapsed(Q, lock)
         IN  /\ \A e : CoolingFrom(C, e) = CoolingFrom(Q, e)
             /\ ~lock => /\ ClaimOf(Matured(C)) = ClaimOf(Matured(Q))
                         /\ Locked(C) = Locked(Q)
             /\ lock /\ Matured(Q) # {} =>
                  /\ Matured(C) = {}
                  /\ ClaimOf(Locked(C)) = ClaimOf(Matured(Q))
<1> DEFINE M == Matured(Q)
           m == Merged(M, lock)
           C == Collapsed(Q, lock)
<1>1. /\ M = {} => C = Q
      /\ M # {} => /\ Matured(C) = IF lock THEN {} ELSE {m}
                   /\ Locked(C) = IF lock THEN {m} ELSE Locked(Q)
      /\ CoolingTranches(C) = CoolingTranches(Q)
  BY CollapsedParts
<1>2. \A e : CoolingFrom(C, e) = CoolingFrom(Q, e)
  <2> HIDE DEF C
  <2>1. SUFFICES ASSUME NEW e PROVE CoolingFrom(C, e) = CoolingFrom(Q, e)
    OBVIOUS
  <2>2. {t \in C : ~IsMatured(t) /\ t.unstake_epoch = e} =
          {t \in Q : ~IsMatured(t) /\ t.unstake_epoch = e}
    BY <1>1 DEF CoolingTranches
  <2> QED BY <2>2 DEF CoolingFrom
<1>3. M # {} => ClaimOf({m}) = ClaimOf(M)
  <2>1. SUFFICES ASSUME M # {} PROVE ClaimOf({m}) = ClaimOf(M)
    OBVIOUS
  <2>2. /\ m \in Tranche
        /\ m.withdrawal_amount = AmountOf(M) /\ m.wnear_residual = ResidualOf(M)
        /\ m.storage_was_paid = (\E t \in M : t.storage_was_paid)
    BY <2>1, MergedMatured
  <2> HIDE DEF m, M
  <2> QED BY <2>2, OneClaim DEF ClaimOf
<1> HIDE DEF m, C
<1> QED
  BY <1>1, <1>2, <1>3 DEF M, C

(* Appending adds to what cools down from this epoch and to nothing else.   *)
LEMMA AppendedClaims ==
  ASSUME epoch \in Nat, NEW Q, GoodQueue(Q), NEW amount \in Nat,
         \A t \in Q : 0 < t.withdrawal_amount
  PROVE  LET A == Appended(Q, amount)
         IN  /\ \A e : CoolingFrom(A, e) =
                         IF e = epoch THEN CoolingFrom(Q, e) + amount
                         ELSE CoolingFrom(Q, e)
             /\ ClaimOf(Matured(A)) = ClaimOf(Matured(Q))
             /\ Locked(A) = Locked(Q)
<1> DEFINE R   == Collapsed(Q, FALSE)
           A   == Appended(Q, amount)
           new == NewTranche(amount, epoch)
           Cool(P, e) == {t \in P : ~IsMatured(t) /\ t.unstake_epoch = e}
<1>1. GoodQueue(R)
  BY CollapsedQueue
<1>2. /\ \A e : CoolingFrom(R, e) = CoolingFrom(Q, e)
      /\ ClaimOf(Matured(R)) = ClaimOf(Matured(Q))
      /\ Locked(R) = Locked(Q)
  BY CollapsedClaims
<1>3. \/ /\ A = R \cup {new}
         /\ \A t \in R : t.unstake_epoch # epoch
      \/ \E t \in R : /\ ~t.locked /\ ~IsMatured(t) /\ t.unstake_epoch = epoch
                      /\ A = (R \ {t}) \cup {[t EXCEPT !.withdrawal_amount = @ + amount]}
  BY AppendedParts
<1>4. R \subseteq Tranche
  BY <1>1 DEF GoodQueue
<1>5. \A P, e : CoolingFrom(P, e) = AmountOf(Cool(P, e))
  BY DEF CoolingFrom
<1> HIDE DEF R, A
<1>6. CASE A = R \cup {new} /\ \A t \in R : t.unstake_epoch # epoch
  <2>1. /\ new \in Tranche /\ new.withdrawal_amount = amount /\ ~new.locked
        /\ new.unstake_epoch = epoch /\ ~IsMatured(new)
    BY CooldownAssumption DEF NewTranche, Tranche, IsMatured
  <2> HIDE DEF new
  <2>2. Matured(A) = Matured(R) /\ Locked(A) = Locked(R)
    BY <1>6, <2>1 DEF Matured, Locked
  <2>3. Cool(A, epoch) = {new} /\ Cool(R, epoch) = {}
    BY <1>6, <2>1
  <2>4. \A e : e # epoch => Cool(A, e) = Cool(R, e)
    BY <1>6, <2>1
  <2> HIDE DEF Cool
  <2>5. CoolingFrom(A, epoch) = CoolingFrom(R, epoch) + amount
    BY <1>5, <2>1, <2>3, OneTranche, NoTranche
  <2>6. \A e : e # epoch => CoolingFrom(A, e) = CoolingFrom(R, e)
    BY <1>5, <2>4
  <2> QED BY <1>2, <2>2, <2>5, <2>6 DEF A
<1>7. ASSUME NEW t \in R, ~t.locked, ~IsMatured(t), t.unstake_epoch = epoch,
             A = (R \ {t}) \cup {[t EXCEPT !.withdrawal_amount = @ + amount]}
      PROVE  /\ Matured(A) = Matured(R) /\ Locked(A) = Locked(R)
             /\ CoolingFrom(A, epoch) = CoolingFrom(R, epoch) + amount
             /\ \A e : e # epoch => CoolingFrom(A, e) = CoolingFrom(R, e)
  <2> DEFINE u == [t EXCEPT !.withdrawal_amount = @ + amount]
  <2>1. /\ t \in Tranche /\ u \in Tranche /\ ~u.locked
        /\ u.withdrawal_amount = t.withdrawal_amount + amount
        /\ u.unstake_epoch = epoch /\ ~IsMatured(u)
    <3>1. t \in Tranche
      BY <1>4
    <3> QED BY <1>7, <3>1 DEF Tranche, IsMatured
  <2>2. A = (R \ {t}) \cup {u}
    BY <1>7
  <2> HIDE DEF u
  <2>3. Matured(A) = Matured(R) /\ Locked(A) = Locked(R)
    BY <1>7, <2>1, <2>2 DEF Matured, Locked
  <2>4. Cool(A, epoch) = {u} /\ Cool(R, epoch) = {t}
    BY <1>1, <1>7, <2>1, <2>2 DEF GoodQueue
  <2>5. \A e : e # epoch => Cool(A, e) = Cool(R, e)
    BY <1>7, <2>1, <2>2
  <2> HIDE DEF Cool
  <2>6. CoolingFrom(A, epoch) = CoolingFrom(R, epoch) + amount
    BY <1>5, <2>1, <2>4, OneTranche
  <2>7. \A e : e # epoch => CoolingFrom(A, e) = CoolingFrom(R, e)
    BY <1>5, <2>5
  <2> QED BY <2>3, <2>6, <2>7
<1>8. CASE \E t \in R : /\ ~t.locked /\ ~IsMatured(t) /\ t.unstake_epoch = epoch
                        /\ A = (R \ {t}) \cup {[t EXCEPT !.withdrawal_amount = @ + amount]}
  BY <1>2, <1>7, <1>8 DEF A
<1> QED
  BY <1>3, <1>6, <1>8

(* When the locked tranche t leaves, or makes way for the unlocked tranche  *)
(* u of the same epoch, nothing is in flight and u has joined the claim.    *)
ClaimUnlocked(Q, t, u) ==
  LET P == Q \ {t}
      R == (Q \ {t}) \cup {u}
  IN  /\ \A e : /\ CoolingFrom(P, e) = CoolingFrom(Q, e)
                /\ CoolingFrom(R, e) = CoolingFrom(Q, e)
      /\ Locked(P) = {} /\ Locked(R) = {}
      /\ Matured(P) = Matured(Q)
      /\ ClaimOf(Matured(R)) =
           [amount  |-> AmountOf(Matured(Q)) + u.withdrawal_amount,
            wnear   |-> ResidualOf(Matured(Q)) + u.wnear_residual,
            storage |-> (\E v \in Matured(Q) : v.storage_was_paid)
                          \/ u.storage_was_paid]

(* The end of a lock does just this to the claims of a good queue.          *)
LEMMA UnlockedClaims ==
  ASSUME NEW Q, GoodQueue(Q), NEW t \in Locked(Q), NEW u \in Tranche,
         u.unstake_epoch = t.unstake_epoch, ~u.locked
  PROVE  ClaimUnlocked(Q, t, u)
<1> DEFINE P == Q \ {t}
           R == (Q \ {t}) \cup {u}
           Cool(S, e) == {v \in S : ~IsMatured(v) /\ v.unstake_epoch = e}
<1>1. t \in Q /\ t.locked /\ IsMatured(t) /\ IsMatured(u)
  BY DEF Locked, GoodQueue, IsMatured
<1>2. \A v \in P : ~v.locked /\ v.unstake_epoch # u.unstake_epoch
  BY <1>1 DEF GoodQueue
<1>3. Locked(P) = {} /\ Locked(R) = {}
  BY <1>2 DEF Locked
<1>4. Matured(P) = Matured(Q) /\ Matured(R) = Matured(Q) \cup {u}
  BY <1>1, <1>2 DEF Matured
<1>5. \A e : Cool(P, e) = Cool(Q, e) /\ Cool(R, e) = Cool(Q, e)
  BY <1>1
<1>6. \A e : CoolingFrom(P, e) = CoolingFrom(Q, e) /\ CoolingFrom(R, e) = CoolingFrom(Q, e)
  <2> HIDE DEF P, R
  <2> QED BY <1>5 DEF CoolingFrom
<1>7. /\ Matured(Q) \subseteq Tranche /\ IsFiniteSet(Matured(Q))
      /\ u \notin Matured(Q)
  BY <1>1, <1>2, FS_Subset DEF Matured, GoodQueue
<1>8. ClaimOf(Matured(Q) \cup {u}) =
        [amount  |-> AmountOf(Matured(Q)) + u.withdrawal_amount,
         wnear   |-> ResidualOf(Matured(Q)) + u.wnear_residual,
         storage |-> (\E v \in Matured(Q) : v.storage_was_paid) \/ u.storage_was_paid]
  BY <1>7, ClaimAdd
<1> HIDE DEF P, R
<1> QED
  BY <1>3, <1>4, <1>6, <1>8 DEF P, R, ClaimUnlocked

(* In the next epoch what was unstaked Cooldown epochs before it joins the  *)
(* claim, and nothing else changes.                                         *)
MaturedNext(Q) == {t \in Q : ~t.locked /\ t.unstake_epoch + Cooldown <= epoch + 1}

CoolingNext(Q, e) ==
  AmountOf({t \in Q : ~(t.unstake_epoch + Cooldown <= epoch + 1) /\ t.unstake_epoch = e})

(* When an epoch passes, the tranches of one epoch leave the cooling claims *)
(* for the matured one.                                                     *)
LEMMA NextEpochClaims ==
  ASSUME epoch \in Nat, NEW Q, GoodQueue(Q),
         \A t \in Q : ~IsMatured(t) => t.wnear_residual = 0 /\ ~t.storage_was_paid
  PROVE  LET e == epoch + 1 - Cooldown
         IN  /\ ClaimOf(MaturedNext(Q)) =
                  [amount  |-> AmountOf(Matured(Q)) + CoolingFrom(Q, e),
                   wnear   |-> ResidualOf(Matured(Q)),
                   storage |-> \E t \in Matured(Q) : t.storage_was_paid]
             /\ CoolingNext(Q, e) = 0
             /\ \A x \in Nat : x # e => CoolingNext(Q, x) = CoolingFrom(Q, x)
             /\ e < 0 => CoolingFrom(Q, e) = 0
<1> DEFINE e == epoch + 1 - Cooldown
           M == Matured(Q)
           N == MaturedNext(Q)
           Cool(x) == {t \in Q : ~IsMatured(t) /\ t.unstake_epoch = x}
           Next(x) == {t \in Q : ~(t.unstake_epoch + Cooldown <= epoch + 1)
                                 /\ t.unstake_epoch = x}
<1>1. /\ Cooldown \in Nat /\ e \in Int
      /\ \A t \in Q : t \in Tranche /\ t.unstake_epoch \in Nat
      /\ \A t \in Q : t.locked => IsMatured(t)
      /\ \A t, u \in Q : t.unstake_epoch = u.unstake_epoch => t = u
  BY CooldownAssumption DEF GoodQueue, Tranche
<1>2. N = M \cup Cool(e)
  BY <1>1 DEF Matured, MaturedNext, IsMatured
<1>3. Next(e) = {} /\ (e < 0 => Cool(e) = {})
  BY <1>1
<1>4. \A x \in Nat : x # e => Next(x) = Cool(x)
  BY <1>1 DEF IsMatured
<1>5. \A t \in Cool(e) : t \notin M
  BY DEF Matured
<1>6. M \subseteq Tranche /\ IsFiniteSet(M)
  BY FS_Subset DEF Matured, GoodQueue
<1>7. \A x : CoolingFrom(Q, x) = AmountOf(Cool(x)) /\ CoolingNext(Q, x) = AmountOf(Next(x))
  BY DEF CoolingFrom, CoolingNext
<1>8. AmountOf(M) \in Nat /\ ResidualOf(M) \in Nat
  <2> HIDE DEF M
  <2> QED BY <1>6, AmountType, ResidualType
<1>9. ClaimOf(N) = [amount  |-> AmountOf(M) + AmountOf(Cool(e)),
                    wnear   |-> ResidualOf(M),
                    storage |-> \E t \in M : t.storage_was_paid]
  <2>1. CASE Cool(e) = {}
    <3>1. N = M
      BY <1>2, <2>1
    <3> HIDE DEF M, N, Cool
    <3>2. AmountOf(M) + AmountOf(Cool(e)) = AmountOf(M)
      BY <1>8, <2>1, NoTranche
    <3> QED BY <3>1, <3>2 DEF ClaimOf
  <2>2. CASE Cool(e) # {}
    <3>1. PICK t \in Cool(e) : TRUE
      BY <2>2
    <3>2. Cool(e) = {t}
      BY <1>1, <3>1
    <3>3. t \in Tranche /\ t \notin M /\ t.wnear_residual = 0 /\ ~t.storage_was_paid
      BY <1>1, <1>5, <3>1
    <3> HIDE DEF M, N, Cool
    <3>4. ClaimOf(M \cup {t}) =
            [amount  |-> AmountOf(M) + t.withdrawal_amount,
             wnear   |-> ResidualOf(M) + t.wnear_residual,
             storage |-> (\E u \in M : u.storage_was_paid) \/ t.storage_was_paid]
      BY <1>6, <3>3, ClaimAdd
    <3>5. ((\E u \in M : u.storage_was_paid) \/ t.storage_was_paid) =
            (\E u \in M : u.storage_was_paid)
      BY <3>3
    <3>6. AmountOf(Cool(e)) = t.withdrawal_amount
      BY <3>2, <3>3, OneTranche
    <3>7. ResidualOf(M) + t.wnear_residual = ResidualOf(M)
      BY <1>8, <3>3
    <3>8. N = M \cup {t}
      BY <1>2, <3>2
    <3> QED BY <3>4, <3>5, <3>6, <3>7, <3>8
  <2> QED BY <2>1, <2>2
<1> HIDE DEF M, N, Cool, Next
<1>10. CoolingNext(Q, e) = 0 /\ (e < 0 => CoolingFrom(Q, e) = 0)
  BY <1>3, <1>7, NoTranche
<1>11. \A x \in Nat : x # e => CoolingNext(Q, x) = CoolingFrom(Q, x)
  BY <1>4, <1>7
<1> QED
  BY <1>7, <1>9, <1>10, <1>11 DEF M, N

=============================================================================
