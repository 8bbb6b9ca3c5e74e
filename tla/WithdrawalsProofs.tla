-------------------------- MODULE WithdrawalsProofs --------------------------
(***************************************************************************)
(* Theorems about module Withdrawals, for every set of hashes and slots,    *)
(* every cooldown and every amount: its types, its queues and its flights;  *)
(* the ledgers, that is what is owed, what was delivered, what the tracker  *)
(* counts and what stands behind every claim; and the refinement of         *)
(* ClaimQueue that module WithdrawalClaims states.                          *)
(*                                                                         *)
(* The facts of IInv and LedgerInv need no assumption about the admin.      *)
(* Those of BackedInv hold for as long as no lock was released while its    *)
(* delivery was not settled (forced = {}), which the documented procedure   *)
(* (AdminVerifies) guarantees.                                              *)
(***************************************************************************)
EXTENDS WithdrawalClaims, TranchesProofs, TLAPS

(* Settling takes off the claim exactly what is booked.                     *)
LEMMA SettledGoodQueue ==
  ASSUME epoch \in Nat, NEW Q, GoodQueue(Q), NEW f, NEW t \in Locked(Q),
         Booked(f) \in Nat, Booked(f) <= t.withdrawal_amount,
         f.amount_to_send - Consumed(f) \in Nat, (f.storage_to_pay > 0) \in BOOLEAN
  PROVE  /\ GoodQueue(SettledQueue(f, Q))
         /\ AmountOf(SettledQueue(f, Q)) = AmountOf(Q) - Booked(f)
<1> DEFINE u == Remainder(f, t)
<1>1. t \in Q /\ t.locked /\ t \in Tranche /\ t.withdrawal_amount \in Nat
  BY DEF Locked, GoodQueue, Tranche
<1>2. /\ u \in Tranche /\ u.unstake_epoch = t.unstake_epoch /\ ~u.locked
      /\ u.withdrawal_amount = t.withdrawal_amount - Booked(f)
  <2>1. /\ t.withdrawal_amount - Booked(f) \in Nat /\ t.unstake_epoch \in Nat
        /\ (t.storage_was_paid \/ f.storage_to_pay > 0) \in BOOLEAN
    BY <1>1 DEF Tranche
  <2> QED BY <2>1 DEF Remainder, Tranche
<1>3. {v \in Q : ~v.locked} = Q \ {t}
  BY <1>1 DEF GoodQueue
<1>4. \A v \in Locked(Q) : v = t
  BY <1>1 DEF GoodQueue, Locked
<1>5. AmountOf(Q) \in Nat
  BY AmountType DEF GoodQueue
<1>6. CASE t.withdrawal_amount = Booked(f)
  <2>1. SettledQueue(f, Q) = Q \ {t}
    BY <1>3, <1>4, <1>6 DEF SettledQueue
  <2>2. AmountOf(Q \ {t}) = AmountOf(Q) - t.withdrawal_amount /\ IsFiniteSet(Q \ {t})
    BY <1>1, AmountRemove DEF GoodQueue
  <2>3. GoodQueue(Q \ {t})
    BY <2>2 DEF GoodQueue
  <2> QED BY <1>6, <2>1, <2>2, <2>3
<1>7. CASE t.withdrawal_amount # Booked(f)
  <2>1. {Remainder(f, v) : v \in {w \in Locked(Q) : w.withdrawal_amount # Booked(f)}} = {u}
    BY <1>4, <1>7
  <2>2. SettledQueue(f, Q) = (Q \ {t}) \cup {u}
    BY <1>3, <2>1 DEF SettledQueue
  <2> HIDE DEF u
  <2>3. /\ GoodQueue((Q \ {t}) \cup {u})
        /\ AmountOf((Q \ {t}) \cup {u}) =
             AmountOf(Q) - t.withdrawal_amount + u.withdrawal_amount
    BY <1>1, <1>2, ReplacedTranche
  <2> QED BY <1>1, <1>2, <1>5, <2>2, <2>3
<1> QED
  BY <1>6, <1>7

-----------------------------------------------------------------------------
(* The invariant.                                                           *)

QueuesGood == \A h \in Hashes : GoodQueue(queue[h])

(* PendingIsSumOfClaims is not inductive alone: a merge or a fold could     *)
(* swallow a tranche unless tranches of a hash differ in their epochs, and  *)
(* a release or a settlement must find one locked tranche, not two.         *)
IInv == TypeOK /\ QueuesGood /\ PendingIsSumOfClaims

(* The smaller of two natural numbers.                                      *)
LEMMA MinOfTwo ==
  ASSUME NEW a \in Nat, NEW b \in Nat
  PROVE  Min({a, b}) \in Nat /\ Min({a, b}) <= a /\ Min({a, b}) <= b
<1>1. \E x \in {a, b} : \A y \in {a, b} : x =< y
  OBVIOUS
<1> QED
  BY <1>1 DEF Min

(* A total over the hashes moves with the summand of one hash.              *)
LEMMA HashTotalUpdate ==
  ASSUME NEW c \in [Hashes -> Nat], NEW h \in Hashes, NEW n \in Nat
  PROVE  Total(c) \in Nat /\ Total([c EXCEPT ![h] = n]) = Total(c) - c[h] + n
<1>1. IsFiniteSet(Hashes)
  BY WithdrawalsAssumption
<1>2. Total(c) \in Nat
  BY <1>1, TotalType
<1>3. Total([c EXCEPT ![h] = n]) = Total(c) - c[h] + n
  BY <1>1, TotalUpdate
<1> QED
  BY <1>2, <1>3

(* A step that replaces the queue of one hash by a good one and moves       *)
(* pending by the same amount keeps all queues good and pending exact.      *)
LEMMA QueueStep ==
  ASSUME IInv, NEW h \in Hashes,
         queue' = [queue EXCEPT ![h] = queue'[h]], GoodQueue(queue'[h]),
         pending' = pending - AmountOf(queue[h]) + AmountOf(queue'[h]),
         epoch' = epoch
  PROVE  /\ queue' \in [Hashes -> SUBSET Tranche]
         /\ QueuesGood'
         /\ PendingIsSumOfClaims'
<1>1. /\ queue \in [Hashes -> SUBSET Tranche] /\ pending \in Nat
      /\ \A x \in Hashes : GoodQueue(queue[x])
  BY DEF IInv, TypeOK, QueuesGood
<1>2. queue' \in [Hashes -> SUBSET Tranche]
  BY <1>1 DEF GoodQueue
<1>3. QueuesGood'
  <2>1. \A x \in Hashes : x # h => queue'[x] = queue[x]
    BY <1>1
  <2>2. \A x \in Hashes : GoodQueue(queue'[x])
    BY <1>1, <2>1
  <2> QED BY <2>2 DEF QueuesGood, GoodQueue, IsMatured
<1>4. PendingIsSumOfClaims'
  <2> DEFINE c == [x \in Hashes |-> AmountOf(queue[x])]
             n == AmountOf(queue'[h])
  <2>1. c \in [Hashes -> Nat] /\ n \in Nat
    BY <1>1, AmountType DEF GoodQueue
  <2>2. [x \in Hashes |-> AmountOf(queue'[x])] = [c EXCEPT ![h] = n]
    BY <1>1
  <2>3. c[h] = AmountOf(queue[h])
    OBVIOUS
  <2>4. Total(c) \in Nat /\ Total([c EXCEPT ![h] = n]) = Total(c) - c[h] + n
    <3> HIDE DEF c, n
    <3>1. PICK k \in Nat : k = n
      BY <2>1
    <3>2. PICK d \in [Hashes -> Nat] : d = c
      BY <2>1
    <3>3. Total(d) \in Nat /\ Total([d EXCEPT ![h] = k]) = Total(d) - d[h] + k
      BY HashTotalUpdate
    <3> QED BY <3>1, <3>2, <3>3
  <2>5. pending = Total(c)
    BY DEF IInv, PendingIsSumOfClaims, Sum, Claim
  <2>6. pending' = Total([c EXCEPT ![h] = n])
    <3> HIDE DEF c
    <3> QED BY <2>1, <2>3, <2>4, <2>5
  <2>7. pending' = Total([x \in Hashes |-> AmountOf(queue'[x])])
    BY <2>2, <2>6
  <2> QED BY <2>7 DEF PendingIsSumOfClaims, Sum, Claim, AmountOf
<1> QED
  BY <1>2, <1>3, <1>4

(* A step that leaves the queues, pending and the epoch alone.              *)
LEMMA QueuesUnchanged ==
  ASSUME IInv, UNCHANGED <<queue, pending, epoch>>
  PROVE  QueuesGood' /\ PendingIsSumOfClaims'
BY DEF IInv, QueuesGood, GoodQueue, IsMatured, PendingIsSumOfClaims, Sum, Claim,
       AmountOf

(* Init.                                                                    *)
LEMMA InitInv == Init => IInv
<1> SUFFICES ASSUME Init PROVE IInv
  OBVIOUS
<1>1. TypeOK
  BY WithdrawalsAssumption DEF Init, TypeOK
<1>2. QueuesGood
  BY FS_EmptySet DEF Init, QueuesGood, GoodQueue
<1>3. PendingIsSumOfClaims
  <2> DEFINE z == [h \in Hashes |-> 0]
  <2>1. AmountOf({}) = 0
    BY TotalEmpty DEF AmountOf
  <2>2. [h \in Hashes |-> AmountOf(queue[h])] = z
    BY <2>1 DEF Init
  <2>3. Units(z) = {}
    BY DEF Units, UnitsOf
  <2>4. Total(z) = 0
    BY <2>3, FS_EmptySet DEF Total
  <2> QED BY <2>2, <2>4 DEF Init, PendingIsSumOfClaims, Sum, Claim
<1> QED
  BY <1>1, <1>2, <1>3 DEF IInv

(* Booked is what the claim loses: a natural number, and what is left of    *)
(* the amount sent is one too.                                              *)
LEMMA BookedType ==
  ASSUME NEW f \in Flight
  PROVE  /\ Consumed(f) \in Nat /\ Booked(f) \in Nat /\ Spent(f) \in Nat
         /\ f.amount_to_send - Consumed(f) \in Nat
<1>1. /\ f.amount_to_send \in Nat /\ f.reported \in Nat
      /\ f.storage_to_pay \in Nat /\ f.cost \in Nat
  BY DEF Flight
<1>2. /\ Min({f.reported, f.amount_to_send}) \in Nat
      /\ Min({f.reported, f.amount_to_send}) <= f.amount_to_send
  BY <1>1, MinOfTwo
<1>3. Consumed(f) \in Nat /\ Consumed(f) <= f.amount_to_send
  BY <1>1, <1>2 DEF Consumed
<1> QED
  BY <1>1, <1>3 DEF Booked, Spent

(* The matured tranches of a good queue are typed, and so are the amounts   *)
(* withdraw computes from their merge.                                      *)
LEMMA NewFlightType ==
  ASSUME TypeOK, NEW h \in Hashes, NEW t \in Tranche, CanSend(h, t)
  PROVE  NewFlight(h, t) \in Flight
<1>1. /\ t.withdrawal_amount \in Nat /\ t.wnear_residual \in Nat
      /\ t.storage_was_paid \in BOOLEAN
  BY DEF Tranche
<1>2. StorageToPay(h, t) \in Nat /\ TransferDeposit(h) \in Nat
  BY WithdrawalsAssumption DEF StorageToPay, TransferDeposit, ONE_YOCTO
<1>3. AmountToSend(h, t) \in Nat
  BY <1>1, <1>2, WithdrawalsAssumption DEF CanSend, AmountToSend, StorageToPay
<1>4. Kind[h] # "native" => NearToDeposit(h, t) \in Nat
  BY <1>1, <1>3 DEF CanSend, NearToDeposit
<1> HIDE DEF StorageToPay, TransferDeposit, AmountToSend, NearToDeposit
<1>5. (IF Kind[h] = "native" THEN AmountToSend(h, t)
       ELSE NearToDeposit(h, t) + TransferDeposit(h)) \in Nat
  BY <1>2, <1>3, <1>4
<1> QED
  BY <1>2, <1>3, <1>5 DEF NewFlight, Flight

(* on_unstake                                                               *)
LEMMA OnUnstakeStep ==
  ASSUME IInv, NEW h \in Hashes, NEW amount \in Amounts, OnUnstake(h, amount)
  PROVE  IInv'
<1>1. amount \in Nat /\ epoch \in Nat /\ GoodQueue(queue[h])
  BY WithdrawalsAssumption DEF IInv, TypeOK, QueuesGood
<1>2. /\ GoodQueue(Appended(queue[h], amount))
      /\ AmountOf(Appended(queue[h], amount)) = AmountOf(queue[h]) + amount
  BY <1>1, AppendedQueue
<1>3. /\ queue' = [queue EXCEPT ![h] = Appended(queue[h], amount)]
      /\ pending' = pending + amount /\ epoch' = epoch
  BY DEF OnUnstake, chainVars
<1>4. queue'[h] = Appended(queue[h], amount)
  BY <1>3 DEF IInv, TypeOK
<1>5. /\ queue' = [queue EXCEPT ![h] = queue'[h]] /\ GoodQueue(queue'[h])
       /\ AmountOf(queue'[h]) = AmountOf(queue[h]) + amount
  BY <1>2, <1>3, <1>4
<1>6. pending' = pending - AmountOf(queue[h]) + AmountOf(queue'[h])
  BY <1>1, <1>3, <1>5, AmountType DEF GoodQueue, IInv, TypeOK
<1>7. /\ queue' \in [Hashes -> SUBSET Tranche]
      /\ QueuesGood' /\ PendingIsSumOfClaims'
  BY <1>3, <1>5, <1>6, QueueStep
<1>8. TypeOK'
  BY <1>1, <1>3, <1>7 DEF IInv, TypeOK, OnUnstake, chainVars
<1> QED
  BY <1>7, <1>8 DEF IInv

(* withdraw                                                                 *)
LEMMA WithdrawStep ==
  ASSUME IInv, NEW h \in Hashes, NEW s \in Slots, Withdraw(h, s)
  PROVE  IInv'
<1> DEFINE M == Matured(queue[h])
           t == Merged(M, TRUE)
           f == NewFlight(h, t)
           Q == Collapsed(queue[h], TRUE)
<1>1. epoch \in Nat /\ GoodQueue(queue[h])
  BY WithdrawalsAssumption DEF IInv, TypeOK, QueuesGood
<1>2. /\ NotInProgress(queue[h]) /\ AmountOf(M) > 0 /\ CanSend(h, t)
      /\ Spent(f) <= balance
      /\ queue' = [queue EXCEPT ![h] = Q]
      /\ flights' = [flights EXCEPT ![s] = f]
      /\ balance' = balance - Spent(f)
      /\ UNCHANGED <<pending, tracked, staked, last_epoch_synced, epoch,
                     returning, wnear, ghostVars>>
  BY DEF Withdraw
<1>3. M # {}
  <2>1. AmountOf({}) = 0
    BY TotalEmpty DEF AmountOf
  <2> QED BY <1>2, <2>1
<1>4. t \in Tranche
  BY <1>1, <1>3, MergedTranche
<1>5. GoodQueue(Q) /\ AmountOf(Q) = AmountOf(queue[h])
  BY <1>1, <1>2, CollapsedQueue DEF NotInProgress
<1>6. AmountOf(queue[h]) \in Nat
  BY <1>1, AmountType DEF GoodQueue
<1> HIDE DEF M, t, Q
<1>7. f \in Flight
  BY <1>2, <1>4, NewFlightType DEF IInv
<1>8. Spent(f) \in Nat
  BY <1>7, BookedType
<1> HIDE DEF f
<1>9. /\ queue' = [queue EXCEPT ![h] = queue'[h]] /\ GoodQueue(queue'[h])
      /\ pending' = pending - AmountOf(queue[h]) + AmountOf(queue'[h])
      /\ epoch' = epoch
  <2>1. queue'[h] = Q
    BY <1>2 DEF IInv, TypeOK
  <2> QED BY <1>2, <1>5, <1>6, <2>1 DEF IInv, TypeOK
<1>10. /\ queue' \in [Hashes -> SUBSET Tranche]
       /\ QueuesGood' /\ PendingIsSumOfClaims'
  BY <1>9, QueueStep
<1>11. TypeOK'
  BY <1>2, <1>7, <1>8, <1>10 DEF IInv, TypeOK, ghostVars
<1> QED
  BY <1>10, <1>11 DEF IInv

(* A delivery changes no queue and leaves a typed flight.                   *)
LEMMA DeliveredStep ==
  ASSUME IInv, NEW s \in Slots, flights[s] # NoFlight,
         NEW status \in {"ok", "unresolved", "unreadable"},
         NEW got \in Nat, NEW reported \in Nat,
         Delivered(s, status, got, reported)
  PROVE  IInv'
<1> DEFINE f == flights[s]
           p == got + f.storage_to_pay
<1>1. /\ UNCHANGED <<queue, pending, tracked, staked, last_epoch_synced, epoch,
                      balance, lost, unsettled, shortfall, reserve, forced>>
      /\ got <= f.amount_to_send
      /\ flights' = [flights EXCEPT ![s].status   = status,
                                    ![s].reported = reported,
                                    ![s].paid     = got + f.storage_to_pay]
      /\ owed' = [owed EXCEPT ![f.hash] = @ - (got + f.storage_to_pay)]
  BY DEF Delivered, contractVars
<1>2. QueuesGood' /\ PendingIsSumOfClaims'
  BY <1>1, QueuesUnchanged
<1>3. /\ f \in Flight /\ f.hash \in Hashes /\ f.cost \in Nat
      /\ f.amount_to_send \in Nat /\ f.storage_to_pay \in Nat /\ p \in Nat
  BY DEF IInv, TypeOK, Flight
<1>4. flights' \in [Slots -> Flight \cup {NoFlight}]
  <2>1. [f EXCEPT !.status = status, !.reported = reported, !.paid = p] \in Flight
    BY <1>3 DEF Flight
  <2>2. flights' = [flights EXCEPT ![s] =
          [f EXCEPT !.status = status, !.reported = reported, !.paid = p]]
    BY <1>1 DEF IInv, TypeOK
  <2> QED BY <2>1, <2>2 DEF IInv, TypeOK
<1>5. wnear' \in Nat
  <2>1. Kind[f.hash] \in Kinds
    BY <1>3, WithdrawalsAssumption
  <2>2. wnear \in Nat
    BY DEF IInv, TypeOK
  <2>3. CASE Kind[f.hash] = "native"
    BY <2>2, <2>3 DEF Delivered
  <2>4. CASE Kind[f.hash] = "self"
    BY <1>3, <2>2, <2>4 DEF Delivered, Deposited, TransferDeposit
  <2>5. CASE Kind[f.hash] \in {"transfer", "call"}
    BY <1>3, <2>2, <2>5 DEF Delivered, Deposited, TransferDeposit, ONE_YOCTO
  <2> QED BY <2>1, <2>3, <2>4, <2>5 DEF Kinds
<1>6. returning' \in Nat /\ surplus' \in Int
  BY <1>3 DEF Delivered, IInv, TypeOK
<1>7. owed' \in [Hashes -> Int]
  BY <1>1, <1>3 DEF IInv, TypeOK
<1>8. TypeOK'
  BY <1>1, <1>4, <1>5, <1>6, <1>7 DEF IInv, TypeOK
<1> QED
  BY <1>2, <1>8 DEF IInv

(* A delivery that succeeds, fails to resolve, or answers with nonsense.    *)
LEMMA DeliverOkStep ==
  ASSUME IInv, NEW s \in Slots,
         DeliverOk(s) \/ DeliverUnresolved(s) \/ DeliverUnreadable(s)
  PROVE  IInv'
<1> DEFINE f == flights[s]
<1>1. f \in Flight /\ f # NoFlight /\ f.amount_to_send \in Nat
  <2>1. f # NoFlight
    BY DEF DeliverOk, DeliverUnresolved, DeliverUnreadable
  <2> QED BY <2>1 DEF IInv, TypeOK, Flight
<1>2. \E status \in {"ok", "unresolved", "unreadable"}, got, reported \in Nat :
        Delivered(s, status, got, reported)
  <2>1. CASE DeliverOk(s)
    <3>1. CASE Delivered(s, "ok", f.amount_to_send, f.amount_to_send)
      BY <1>1, <3>1
    <3>2. CASE \E reported \in 0..(f.amount_to_send + 1) :
                 Delivered(s, "ok", Min({reported, f.amount_to_send}), reported)
      <4>1. PICK reported \in 0..(f.amount_to_send + 1) :
               Delivered(s, "ok", Min({reported, f.amount_to_send}), reported)
        BY <3>2
      <4>2. reported \in Nat /\ Min({reported, f.amount_to_send}) \in Nat
        BY <1>1, <4>1, MinOfTwo
      <4> QED BY <4>1, <4>2
    <3> QED BY <2>1, <3>1, <3>2 DEF DeliverOk
  <2>2. CASE DeliverUnresolved(s)
    BY <1>1, <2>2 DEF DeliverUnresolved
  <2>3. CASE DeliverUnreadable(s)
    <3>1. PICK got \in (IF IsCall(f) THEN 0..f.amount_to_send
                        ELSE {f.amount_to_send}) : Delivered(s, "unreadable", got, 0)
      BY <2>3 DEF DeliverUnreadable
    <3>2. got \in Nat
      BY <1>1, <3>1
    <3> QED BY <3>1, <3>2
  <2> QED BY <2>1, <2>2, <2>3
<1>3. PICK status \in {"ok", "unresolved", "unreadable"}, got \in Nat, reported \in Nat :
        Delivered(s, status, got, reported)
  BY <1>2
<1> QED
  BY <1>1, <1>3, DeliveredStep

(* A delivery that fails as a whole.                                        *)
LEMMA DeliverFailedStep ==
  ASSUME IInv, NEW s \in Slots, DeliverFailed(s)
  PROVE  IInv'
<1> DEFINE f == flights[s]
<1>1. /\ f # NoFlight
      /\ flights' = [flights EXCEPT ![s].status = "failed"]
      /\ returning' = returning + Spent(f)
      /\ UNCHANGED <<queue, pending, tracked, staked, last_epoch_synced, epoch,
                     balance, wnear, ghostVars>>
  BY DEF DeliverFailed, contractVars
<1>2. f \in Flight
  BY <1>1 DEF IInv, TypeOK
<1>3. Spent(f) \in Nat
  BY <1>2, BookedType
<1>4. flights' \in [Slots -> Flight \cup {NoFlight}]
  <2>1. [f EXCEPT !.status = "failed"] \in Flight
    BY <1>2 DEF Flight
  <2> QED BY <1>1, <2>1 DEF IInv, TypeOK
<1>5. QueuesGood' /\ PendingIsSumOfClaims'
  BY <1>1, QueuesUnchanged
<1>6. TypeOK'
  BY <1>1, <1>3, <1>4 DEF IInv, TypeOK, ghostVars
<1> QED
  BY <1>5, <1>6 DEF IInv

(* A settlement that commits.                                               *)
LEMMA SettleStep ==
  ASSUME IInv, NEW s \in Slots, Settle(s)
  PROVE  IInv'
<1> DEFINE f == flights[s]
           h == f.hash
           Q == SettledQueue(f, queue[h])
<1>1. /\ f # NoFlight /\ SettlementFits(f)
      /\ queue' = [queue EXCEPT ![h] = Q]
      /\ pending' = pending - Booked(f)
      /\ tracked' = tracked - TrackerDebit(f)
      /\ flights' = [flights EXCEPT ![s] = NoFlight]
      /\ lost' = [lost EXCEPT ![h] = @ + (IF f.status = "failed"
                                         THEN f.amount_to_send + f.storage_to_pay ELSE 0)]
      /\ surplus' = surplus + (IF f.status = "failed" THEN Spent(f) ELSE 0)
      /\ reserve' = reserve - TransferDeposit(h)
      /\ UNCHANGED <<staked, last_epoch_synced, epoch, balance, returning,
                     wnear, owed, unsettled, shortfall, forced>>
  BY DEF Settle, Landed
<1>2. /\ f \in Flight /\ h \in Hashes
      /\ f.storage_to_pay \in Nat /\ f.amount_to_send \in Nat
  <2>1. f \in Flight
    BY <1>1 DEF IInv, TypeOK
  <2> QED BY <2>1 DEF Flight
<1>3. /\ Booked(f) \in Nat /\ Spent(f) \in Nat
      /\ f.amount_to_send - Consumed(f) \in Nat
  BY <1>2, BookedType
<1>4. /\ Booked(f) <= pending /\ Spent(f) <= tracked
      /\ \E t \in Locked(queue[h]) : Booked(f) <= t.withdrawal_amount
  <2>1. PICK t \in Locked(queue[h]) :
           IF Kind[h] = "native" THEN Booked(f) = t.withdrawal_amount
                                 ELSE Booked(f) <= t.withdrawal_amount
    BY <1>1 DEF SettlementFits
  <2>2. Booked(f) <= t.withdrawal_amount
    BY <1>3, <2>1
  <2> QED BY <1>1, <2>1, <2>2 DEF SettlementFits, TrackerDebit
<1>5. PICK t \in Locked(queue[h]) : Booked(f) <= t.withdrawal_amount
  BY <1>4
<1>6. epoch \in Nat /\ GoodQueue(queue[h])
  BY <1>2, WithdrawalsAssumption DEF IInv, TypeOK, QueuesGood
<1>7. (f.storage_to_pay > 0) \in BOOLEAN
  BY <1>2
<1> HIDE DEF f, h
<1>8. GoodQueue(Q) /\ AmountOf(Q) = AmountOf(queue[h]) - Booked(f)
  BY <1>3, <1>5, <1>6, <1>7, SettledGoodQueue
<1>9. AmountOf(queue[h]) \in Nat /\ pending \in Nat
  BY <1>6, AmountType DEF GoodQueue, IInv, TypeOK
<1> HIDE DEF Q
<1>10. /\ queue' = [queue EXCEPT ![h] = queue'[h]] /\ GoodQueue(queue'[h])
       /\ pending' = pending - AmountOf(queue[h]) + AmountOf(queue'[h])
       /\ epoch' = epoch
  <2>1. queue'[h] = Q
    BY <1>1, <1>2 DEF IInv, TypeOK
  <2>2. pending' = pending - AmountOf(queue[h]) + AmountOf(Q)
    BY <1>1, <1>3, <1>8, <1>9
  <2> QED BY <1>1, <1>8, <2>1, <2>2
<1>11. /\ queue' \in [Hashes -> SUBSET Tranche]
       /\ QueuesGood' /\ PendingIsSumOfClaims'
  BY <1>2, <1>10, QueueStep
<1>12. pending' \in Nat /\ tracked' \in Nat
  BY <1>1, <1>3, <1>4 DEF IInv, TypeOK, TrackerDebit
<1>13. lost' \in [Hashes -> Nat] /\ surplus' \in Int /\ reserve' \in Int
  <2>1. TransferDeposit(h) \in Nat
    BY DEF TransferDeposit, ONE_YOCTO
  <2>2. lost' \in [Hashes -> Nat]
    BY <1>1, <1>2, <1>3 DEF IInv, TypeOK
  <2>3. surplus' \in Int
    BY <1>1, <1>3 DEF IInv, TypeOK
  <2>4. reserve' \in Int
    BY <1>1, <2>1 DEF IInv, TypeOK
  <2> QED BY <2>2, <2>3, <2>4
<1>14. TypeOK'
  BY <1>1, <1>11, <1>12, <1>13 DEF IInv, TypeOK
<1> QED
  BY <1>11, <1>14 DEF IInv

(* A release of the lock of h, by a callback or by the admin.               *)
LEMMA ReleaseStep ==
  ASSUME IInv, NEW h \in Hashes, queue' = [queue EXCEPT ![h] = Released(@)],
         pending' = pending, epoch' = epoch
  PROVE  /\ queue' \in [Hashes -> SUBSET Tranche]
         /\ QueuesGood' /\ PendingIsSumOfClaims'
<1> DEFINE Q == Released(queue[h])
<1>1. epoch \in Nat /\ GoodQueue(queue[h])
  BY WithdrawalsAssumption DEF IInv, TypeOK, QueuesGood
<1>2. GoodQueue(Q) /\ AmountOf(Q) = AmountOf(queue[h])
  BY <1>1, ReleasedQueue
<1>3. AmountOf(queue[h]) \in Nat /\ pending \in Nat
  BY <1>1, AmountType DEF GoodQueue, IInv, TypeOK
<1>4. queue' = [queue EXCEPT ![h] = Q]
  OBVIOUS
<1> HIDE DEF Q
<1>5. queue'[h] = Q
  BY <1>4 DEF IInv, TypeOK
<1>6. /\ queue' = [queue EXCEPT ![h] = queue'[h]] /\ GoodQueue(queue'[h])
      /\ pending' = pending - AmountOf(queue[h]) + AmountOf(queue'[h])
  <2>1. queue' = [queue EXCEPT ![h] = queue'[h]]
    BY <1>4, <1>5
  <2>2. GoodQueue(queue'[h])
    BY <1>2, <1>5
  <2>3. AmountOf(queue'[h]) = AmountOf(queue[h])
    BY <1>2, <1>5
  <2>4. pending' = pending - AmountOf(queue[h]) + AmountOf(queue'[h])
    BY <1>3, <2>3
  <2> QED BY <2>1, <2>2, <2>4
<1> QED
  BY <1>6, QueueStep

(* The callback of a failed plain delivery.                                 *)
LEMMA SettleFailedStep ==
  ASSUME IInv, NEW s \in Slots, SettleFailed(s)
  PROVE  IInv'
<1> DEFINE h == flights[s].hash
<1>1. /\ flights[s] # NoFlight
      /\ queue' = [queue EXCEPT ![h] = Released(@)]
      /\ flights' = [flights EXCEPT ![s] = NoFlight]
      /\ UNCHANGED <<pending, tracked, staked, last_epoch_synced, epoch,
                     balance, returning, wnear, ghostVars>>
  BY DEF SettleFailed, Landed
<1>2. h \in Hashes
  <2>1. flights[s] \in Flight
    BY <1>1 DEF IInv, TypeOK
  <2> QED BY <2>1 DEF Flight
<1>3. /\ queue' \in [Hashes -> SUBSET Tranche]
      /\ QueuesGood' /\ PendingIsSumOfClaims'
  BY <1>1, <1>2, ReleaseStep
<1>4. TypeOK'
  BY <1>1, <1>3 DEF IInv, TypeOK, ghostVars
<1> QED
  BY <1>3, <1>4 DEF IInv

(* A callback that panics.                                                  *)
LEMMA SettlePanicsStep ==
  ASSUME IInv, NEW s \in Slots, SettlePanics(s)
  PROVE  IInv'
<1> DEFINE f == flights[s]
<1>1. /\ f # NoFlight
      /\ flights' = [flights EXCEPT ![s] = NoFlight]
      /\ unsettled' = [unsettled EXCEPT ![f.hash] = @ + f.paid]
      /\ shortfall' = shortfall + (IF f.status = "failed" THEN 0 ELSE Spent(f))
      /\ UNCHANGED <<queue, pending, tracked, staked, last_epoch_synced, epoch,
                     balance, returning, wnear, owed, lost, surplus, reserve, forced>>
  BY DEF SettlePanics, Landed, contractVars
<1>2. f \in Flight /\ f.hash \in Hashes /\ f.paid \in Nat
  <2>1. f \in Flight
    BY <1>1 DEF IInv, TypeOK
  <2> QED BY <2>1 DEF Flight
<1>3. Spent(f) \in Nat
  BY <1>2, BookedType
<1>4. QueuesGood' /\ PendingIsSumOfClaims'
  BY <1>1, QueuesUnchanged
<1>5. unsettled' \in [Hashes -> Nat] /\ shortfall' \in Nat
  <2>1. unsettled' \in [Hashes -> Nat]
    BY <1>1, <1>2 DEF IInv, TypeOK
  <2>2. shortfall' \in Nat
    BY <1>1, <1>3 DEF IInv, TypeOK
  <2> QED BY <2>1, <2>2
<1>6. TypeOK'
  BY <1>1, <1>5 DEF IInv, TypeOK
<1> QED
  BY <1>4, <1>6 DEF IInv

(* force_release_lock, whether or not the admin has verified anything.      *)
LEMMA ForceReleaseLockStep ==
  ASSUME IInv, NEW h \in Hashes, ForceReleaseLock(h)
  PROVE  IInv'
<1>1. /\ queue' = [queue EXCEPT ![h] = Released(@)]
      /\ UNCHANGED <<pending, tracked, staked, last_epoch_synced, epoch, balance,
                     returning, wnear, flights, owed, lost, unsettled, surplus,
                     shortfall, reserve>>
      /\ forced' \in {forced, forced \cup {h}}
  BY DEF ForceReleaseLock, chainVars
<1>2. /\ queue' \in [Hashes -> SUBSET Tranche]
      /\ QueuesGood' /\ PendingIsSumOfClaims'
  BY <1>1, ReleaseStep
<1>3. TypeOK'
  BY <1>1, <1>2 DEF IInv, TypeOK
<1> QED
  BY <1>2, <1>3 DEF IInv

(* Deposits that come back, and a reward sync.                              *)
LEMMA AccountStep ==
  ASSUME IInv, RefundArrives \/ SyncRewards
  PROVE  IInv'
<1>1. UNCHANGED <<queue, pending, epoch>>
  BY DEF RefundArrives, SyncRewards, contractVars, chainVars
<1>2. QueuesGood' /\ PendingIsSumOfClaims'
  BY <1>1, QueuesUnchanged
<1>3. TypeOK'
  <2>1. CASE RefundArrives
    BY <2>1 DEF IInv, TypeOK, RefundArrives, contractVars, ghostVars
  <2>2. CASE SyncRewards
    BY <2>2 DEF IInv, TypeOK, SyncRewards, chainVars
  <2> QED BY <2>1, <2>2
<1> QED
  BY <1>2, <1>3 DEF IInv

(* A new epoch: what has matured stays matured.                             *)
LEMMA NextEpochStep ==
  ASSUME IInv, NextEpoch
  PROVE  IInv'
<1>1. /\ UNCHANGED <<queue, pending, tracked, staked, last_epoch_synced>>
      /\ epoch' = epoch + 1 /\ epoch' \in 0..MaxEpoch /\ epoch \in Nat
  BY WithdrawalsAssumption DEF NextEpoch, contractVars, IInv, TypeOK
<1>2. QueuesGood'
  <2>1. ASSUME NEW h \in Hashes
        PROVE  GoodQueue(queue[h])'
    <3>1. GoodQueue(queue[h])
      BY DEF IInv, QueuesGood
    <3>2. \A t \in queue[h] : t.unstake_epoch \in Nat
      BY <3>1 DEF GoodQueue, Tranche
    <3>3. \A t \in queue[h] : t.unstake_epoch <= epoch + 1
      BY <1>1, <3>1, <3>2 DEF GoodQueue
    <3>4. \A t \in queue[h] : t.locked => t.unstake_epoch + Cooldown <= epoch + 1
      BY <1>1, <3>1, <3>2, CooldownAssumption DEF GoodQueue, IsMatured
    <3> QED BY <1>1, <3>1, <3>3, <3>4 DEF GoodQueue, IsMatured
  <2> QED BY <2>1 DEF QueuesGood
<1>3. PendingIsSumOfClaims'
  BY <1>1 DEF IInv, PendingIsSumOfClaims, Sum, Claim, AmountOf
<1>4. TypeOK'
  BY <1>1, WithdrawalsAssumption DEF IInv, TypeOK, NextEpoch
<1> QED
  BY <1>2, <1>3, <1>4 DEF IInv

-----------------------------------------------------------------------------
(* Theorems.                                                                *)

(* Every step, of any actor in any order, keeps the invariant.              *)
LEMMA NextInv == IInv /\ [Next]_vars => IInv'
<1> SUFFICES ASSUME IInv, [Next]_vars PROVE IInv'
  OBVIOUS
<1>1. CASE \E h \in Hashes, a \in Amounts : OnUnstake(h, a)
  BY <1>1, OnUnstakeStep
<1>2. CASE \E h \in Hashes, s \in Slots : Withdraw(h, s)
  BY <1>2, WithdrawStep
<1>3. CASE \E s \in Slots : Deliver(s)
  BY <1>3, DeliverOkStep, DeliverFailedStep DEF Deliver
<1>4. CASE \E s \in Slots : Callback(s)
  BY <1>4, SettleStep, SettleFailedStep, SettlePanicsStep DEF Callback
<1>5. CASE \E h \in Hashes : ForceReleaseLock(h)
  BY <1>5, ForceReleaseLockStep
<1>6. CASE RefundArrives \/ SyncRewards
  BY <1>6, AccountStep
<1>7. CASE NextEpoch
  BY <1>7, NextEpochStep
<1>8. CASE UNCHANGED vars
  <2>1. UNCHANGED <<queue, pending, epoch>>
    BY <1>8 DEF vars, contractVars, chainVars
  <2>2. QueuesGood' /\ PendingIsSumOfClaims'
    BY <2>1, QueuesUnchanged
  <2>3. TypeOK'
    BY <1>8 DEF IInv, TypeOK, vars, contractVars, chainVars, ghostVars
  <2> QED BY <2>2, <2>3 DEF IInv
<1> QED
  BY <1>1, <1>2, <1>3, <1>4, <1>5, <1>6, <1>7, <1>8 DEF Next

(* The invariant holds in every reachable state.                            *)
THEOREM Invariance == Spec => []IInv
BY InitInv, NextInv, PTL DEF Spec

(* The contract never subtracts more than it has from a claim, from         *)
(* total_pending_withdrawals or from latest_total_balance: its panics come  *)
(* before the arithmetic, whatever the amounts and the order of receipts.   *)
THEOREM TypeCorrect == Spec => []TypeOK
<1>1. IInv => TypeOK
  BY DEF IInv
<1> QED
  BY <1>1, Invariance, PTL

(* locked_tranche finds at most one tranche per hash.                       *)
THEOREM LocksAreUnique == Spec => []OneLockPerHash
<1>1. IInv => OneLockPerHash
  BY DEF IInv, QueuesGood, GoodQueue, OneLockPerHash, Locked
<1> QED
  BY <1>1, Invariance, PTL

(* append_request, collapse_matured_tranches and the settlement never leave *)
(* two tranches of one epoch in a queue.                                    *)
THEOREM EpochsAreDistinct == Spec => []DistinctEpochs
<1>1. IInv => DistinctEpochs
  BY DEF IInv, QueuesGood, GoodQueue, DistinctEpochs
<1> QED
  BY <1>1, Invariance, PTL

(* total_pending_withdrawals is exact in every reachable state.             *)
THEOREM PendingIsExact == Spec => []PendingIsSumOfClaims
<1>1. IInv => PendingIsSumOfClaims
  BY DEF IInv
<1> QED
  BY <1>1, Invariance, PTL

-----------------------------------------------------------------------------
(* The invariant of the ledgers.                                            *)

(* What a flight has paid, by what became of it.                            *)
PaidRight(f) ==
  /\ f.status \in {"sent", "failed"} => f.paid = 0
  /\ f.status = "ok" => f.paid = Booked(f)
  /\ f.status = "unresolved" => IsCall(f) /\ f.paid = Booked(f)
  /\ f.paid <= f.amount_to_send + f.storage_to_pay

FlightsPaid == \A s \in InFlight : PaidRight(flights[s])

(* h has one flight at most, it finds the claim it is paying still locked,  *)
(* and a payment whose settlement has panicked keeps its claim locked.      *)
LockHeld(h) ==
  /\ \A r, s \in FlightsOf(h) : r = s
  /\ \A s \in FlightsOf(h) :
       /\ unsettled[h] = 0
       /\ \E t \in Locked(queue[h]) :
            t.withdrawal_amount = flights[s].amount_to_send + flights[s].storage_to_pay
  /\ unsettled[h] > 0 =>
       \E t \in Locked(queue[h]) : unsettled[h] <= t.withdrawal_amount

LocksHeld == \A h \in Hashes \ forced : LockHeld(h)

LedgerInv == IInv /\ FlightsPaid /\ TrackerLedger /\ ClaimLedger /\ LocksHeld

-----------------------------------------------------------------------------
(* The invariant of what backs the claims.                                  *)

(* f was sent for the tranche t, whose wNEAR it uses up first.              *)
SentFor(f, t) ==
  /\ f.amount_to_send = AmountToSend(f.hash, t)
  /\ f.storage_to_pay = StorageToPay(f.hash, t)
  /\ f.cost = f.amount_to_send - t.wnear_residual + TransferDeposit(f.hash)
  /\ t.wnear_residual <= f.amount_to_send

FlightsMatch == \A s \in InFlight :
  \E t \in Locked(queue[flights[s].hash]) : SentFor(flights[s], t)

QueuesSound ==
  \A h \in Hashes : SoundQueue(queue[h], Kind[h] = "call", WantsStorage[h])

BackingHeld == Sum(Hashes, Backing) <= wnear

(* What the attached yoctos have left covers the flights to be settled.     *)
YoctosLeft == Cardinality(InFlight) <= reserve

BackedInv ==
  /\ YoctosLeft
  /\ forced = {} => FlightsMatch /\ QueuesSound /\ Solvency /\ BackingHeld

-----------------------------------------------------------------------------
(* The steps, by what they touch.                                           *)

(* A delivery, a refund on its way and a stutter leave the contract, the    *)
(* epoch, the reserve and the record of forced locks alone.                 *)
Quiet == UNCHANGED <<contractVars, epoch, reserve, forced>>

(* So there are seven kinds of steps.                                       *)
LEMMA StepCases ==
  ASSUME [Next]_vars
  PROVE  \/ \E h \in Hashes, a \in Amounts : OnUnstake(h, a)
         \/ \E h \in Hashes, s \in Slots : Withdraw(h, s)
         \/ \E s \in Slots : Callback(s)
         \/ \E h \in Hashes : ForceReleaseLock(h)
         \/ SyncRewards
         \/ NextEpoch
         \/ Quiet
<1>1. ASSUME NEW s \in Slots, DeliverOk(s)
      PROVE  Quiet
  BY <1>1 DEF DeliverOk, Delivered, Quiet
<1>2. ASSUME NEW s \in Slots, DeliverUnresolved(s)
      PROVE  Quiet
  BY <1>2 DEF DeliverUnresolved, Delivered, Quiet
<1>3. ASSUME NEW s \in Slots, DeliverUnreadable(s)
      PROVE  Quiet
  BY <1>3 DEF DeliverUnreadable, Delivered, Quiet
<1>4. ASSUME NEW s \in Slots, DeliverFailed(s)
      PROVE  Quiet
  BY <1>4 DEF DeliverFailed, Quiet, ghostVars
<1>5. RefundArrives \/ UNCHANGED vars => Quiet
  BY DEF RefundArrives, vars, chainVars, ghostVars, Quiet
<1> QED
  BY <1>1, <1>2, <1>3, <1>4, <1>5 DEF Next, Deliver

(* Only force_release_lock forces a lock.                                   *)
LEMMA ForcedKept ==
  ASSUME [Next]_vars, ~\E h \in Hashes : ForceReleaseLock(h)
  PROVE  forced' = forced
<1>1. ASSUME NEW h \in Hashes, NEW a \in Amounts, OnUnstake(h, a)
      PROVE  forced' = forced
  BY <1>1 DEF OnUnstake
<1>2. ASSUME NEW h \in Hashes, NEW s \in Slots, Withdraw(h, s)
      PROVE  forced' = forced
  BY <1>2 DEF Withdraw, ghostVars
<1>3. ASSUME NEW s \in Slots, Callback(s)
      PROVE  forced' = forced
  BY <1>3 DEF Callback, Settle, SettleFailed, SettlePanics, ghostVars
<1>4. SyncRewards \/ NextEpoch \/ Quiet => forced' = forced
  BY DEF SyncRewards, NextEpoch, Quiet
<1> QED
  BY <1>1, <1>2, <1>3, <1>4, StepCases

(* A lock once released with its delivery unsettled stays in forced.        *)
LEMMA ForcedGrows ==
  ASSUME [Next]_vars
  PROVE  forced \subseteq forced'
<1>1. CASE \E x \in Hashes : ForceReleaseLock(x)
  BY <1>1 DEF ForceReleaseLock
<1>2. CASE ~\E x \in Hashes : ForceReleaseLock(x)
  BY <1>2, ForcedKept
<1> QED
  BY <1>1, <1>2

-----------------------------------------------------------------------------
(* Flights: their types, and the sums over them.                            *)

PaidTo(h) == Total([s \in FlightsOf(h) |-> flights[s].paid])

(* A flight in progress has the fields of one and is counted for its hash.  *)
LEMMA FlightTyped ==
  ASSUME TypeOK, NEW s \in Slots, flights[s] # NoFlight
  PROVE  /\ flights[s] \in Flight /\ flights[s].hash \in Hashes
         /\ s \in InFlight /\ s \in FlightsOf(flights[s].hash)
         /\ flights[s].amount_to_send \in Nat /\ flights[s].storage_to_pay \in Nat
         /\ flights[s].cost \in Nat /\ flights[s].paid \in Nat
         /\ flights[s].reported \in Nat
         /\ Spent(flights[s]) \in Nat /\ Outstanding(s) \in Nat
         /\ Booked(flights[s]) \in Nat
<1>1. flights[s] \in Flight
  BY DEF TypeOK
<1>2. Spent(flights[s]) \in Nat /\ Booked(flights[s]) \in Nat
  BY <1>1, BookedType
<1>3. Outstanding(s) \in Nat
  BY <1>2 DEF Outstanding
<1> QED
  BY <1>1, <1>2, <1>3 DEF Flight, InFlight, FlightsOf

(* What the flights have taken from the account.                            *)
LEMMA OutstandingType ==
  ASSUME TypeOK
  PROVE  Sum(InFlight, Outstanding) \in Nat
<1>1. IsFiniteSet(InFlight)
  BY WithdrawalsAssumption, FS_Subset DEF InFlight
<1>2. [s \in InFlight |-> Outstanding(s)] \in [InFlight -> Nat]
  BY FlightTyped DEF InFlight
<1> QED
  BY <1>1, <1>2, TotalType DEF Sum

(* What the flights have taken from the account moves with one flight.      *)
LEMMA OutstandingMove ==
  ASSUME TypeOK, TypeOK', NEW s \in Slots,
         flights' = [flights EXCEPT ![s] = flights'[s]]
  PROVE  /\ Sum(InFlight, Outstanding) \in Nat
         /\ Sum(InFlight, Outstanding)' =
              Sum(InFlight, Outstanding)
                - (IF flights[s]  = NoFlight THEN 0 ELSE Outstanding(s))
                + (IF flights'[s] = NoFlight THEN 0 ELSE Outstanding(s)')
<1> DEFINE A == InFlight
           B == InFlight'
           f == [x \in A |-> Outstanding(x)]
           g == [x \in B |-> Outstanding(x)']
<1>1. IsFiniteSet(A) /\ IsFiniteSet(B)
  BY WithdrawalsAssumption, FS_Subset DEF InFlight
<1>2. f \in [A -> Nat]
  BY FlightTyped DEF InFlight
<1>3. \A x \in B : Outstanding(x)' \in Nat
  <2>1. ASSUME NEW x \in Slots, flights'[x] # NoFlight
        PROVE  Outstanding(x)' \in Nat
    <3>1. PICK k \in Flight : k = flights'[x]
      BY <2>1 DEF TypeOK
    <3>2. Spent(k) \in Nat
      BY BookedType
    <3> QED BY <3>1, <3>2 DEF Outstanding, Spent
  <2> QED BY <2>1 DEF InFlight
<1>4. g \in [B -> Nat]
  BY <1>3
<1>5. \A x \in Slots : x # s => flights'[x] = flights[x]
  BY DEF TypeOK
<1>6. A \ {s} = B \ {s}
  BY <1>5 DEF InFlight
<1>7. \A x \in A \ {s} : f[x] = g[x]
  BY <1>5, <1>6 DEF InFlight, Outstanding, Spent
<1>8. /\ s \in A <=> flights[s] # NoFlight
      /\ s \in B <=> flights'[s] # NoFlight
      /\ s \in A => f[s] = Outstanding(s)
      /\ s \in B => g[s] = Outstanding(s)'
  BY DEF InFlight
<1>9. Sum(InFlight, Outstanding) = Total(f) /\ Sum(InFlight, Outstanding)' = Total(g)
  BY DEF Sum
<1> HIDE DEF A, B, f, g
<1>10. /\ Total(f) \in Nat /\ Total(g) \in Nat
       /\ Total(g) = Total(f) - (IF s \in A THEN f[s] ELSE 0)
                              + (IF s \in B THEN g[s] ELSE 0)
  BY <1>1, <1>2, <1>4, <1>6, <1>7, TotalMove
<1> QED
  BY <1>8, <1>9, <1>10

(* And so does what the flights of a hash have paid.                        *)
LEMMA PaidMove ==
  ASSUME TypeOK, TypeOK', NEW s \in Slots, NEW h \in Hashes,
         flights' = [flights EXCEPT ![s] = flights'[s]]
  PROVE  /\ PaidTo(h) \in Nat
         /\ PaidTo(h)' = PaidTo(h) - (IF s \in FlightsOf(h) THEN flights[s].paid ELSE 0)
                           + (IF s \in FlightsOf(h)' THEN flights'[s].paid ELSE 0)
<1> DEFINE A == FlightsOf(h)
           B == FlightsOf(h)'
           f == [x \in A |-> flights[x].paid]
           g == [x \in B |-> flights'[x].paid]
<1>1. IsFiniteSet(A) /\ IsFiniteSet(B)
  BY WithdrawalsAssumption, FS_Subset DEF InFlight, FlightsOf
<1>2. f \in [A -> Nat]
  BY FlightTyped DEF InFlight, FlightsOf
<1>3. g \in [B -> Nat]
  <2>1. ASSUME NEW x \in Slots, flights'[x] # NoFlight
        PROVE  flights'[x].paid \in Nat
    BY <2>1 DEF TypeOK, Flight
  <2> QED BY <2>1 DEF InFlight, FlightsOf
<1>4. \A x \in Slots : x # s => flights'[x] = flights[x]
  BY DEF TypeOK
<1>5. A \ {s} = B \ {s}
  BY <1>4 DEF InFlight, FlightsOf
<1>6. \A x \in A \ {s} : f[x] = g[x]
  BY <1>4, <1>5 DEF InFlight, FlightsOf
<1>7. /\ s \in A => f[s] = flights[s].paid
      /\ s \in B => g[s] = flights'[s].paid
  OBVIOUS
<1>8. PaidTo(h) = Total(f) /\ PaidTo(h)' = Total(g)
  BY DEF PaidTo
<1> HIDE DEF f, g
<1>9. /\ Total(f) \in Nat /\ Total(g) \in Nat
      /\ Total(g) = Total(f) - (IF s \in A THEN f[s] ELSE 0)
                             + (IF s \in B THEN g[s] ELSE 0)
  <2> HIDE DEF A, B
  <2> QED BY <1>1, <1>2, <1>3, <1>5, <1>6, TotalMove
<1> QED
  BY <1>7, <1>8, <1>9

(* Steps that leave the flights alone.                                      *)
LEMMA FlightsSame ==
  ASSUME UNCHANGED flights
  PROVE  /\ Sum(InFlight, Outstanding)' = Sum(InFlight, Outstanding)
         /\ InFlight' = InFlight /\ FlightsPaid' = FlightsPaid
         /\ \A h : FlightsOf(h)' = FlightsOf(h) /\ PaidTo(h)' = PaidTo(h)
<1>1. InFlight' = InFlight
  BY DEF InFlight
<1>2. \A h : FlightsOf(h)' = FlightsOf(h)
  BY DEF InFlight, FlightsOf
<1>3. \A h : PaidTo(h)' = PaidTo(h)
  BY <1>2 DEF PaidTo
<1>4. Sum(InFlight, Outstanding)' = Sum(InFlight, Outstanding)
  <2>1. [s \in InFlight |-> Outstanding(s)]' = [s \in InFlight |-> Outstanding(s)]
    BY <1>1 DEF Outstanding, Spent
  <2> QED BY <2>1 DEF Sum, Total, Units, UnitsOf
<1>5. FlightsPaid' = FlightsPaid
  BY <1>1 DEF FlightsPaid, PaidRight, Booked, Consumed, IsCall
<1> QED
  BY <1>1, <1>2, <1>3, <1>4, <1>5

(* A delivery, whatever its outcome: the flight lands with what it paid,    *)
(* all of it unless the receiver of a call kept less.                       *)
Landing(f, status, got, reported) ==
  [f EXCEPT !.status = status, !.reported = reported, !.paid = got + f.storage_to_pay]

(* What a delivery changes, whatever its outcome: the flight's status, the  *)
(* report the contract will read, and what was paid.                        *)
LEMMA DeliveryFacts ==
  ASSUME TypeOK, NEW s \in Slots,
         DeliverOk(s) \/ DeliverUnresolved(s) \/ DeliverUnreadable(s)
  PROVE  /\ flights[s] # NoFlight
         /\ \E status \in {"ok", "unresolved", "unreadable"}, got, reported \in Nat :
              /\ Delivered(s, status, got, reported)
              /\ PaidRight(Landing(flights[s], status, got, reported))
              /\ ~IsCall(flights[s]) => got = flights[s].amount_to_send
<1> DEFINE f == flights[s]
<1>1. f # NoFlight
  BY DEF DeliverOk, DeliverUnresolved, DeliverUnreadable
<1>2. f \in Flight /\ f.amount_to_send \in Nat /\ f.storage_to_pay \in Nat
  BY <1>1, FlightTyped
<1>3. ASSUME NEW status \in {"ok", "unresolved", "unreadable"},
             NEW got \in Nat, NEW reported \in Nat
      PROVE  LET g == Landing(f, status, got, reported)
             IN  /\ g.status = status /\ g.paid = got + f.storage_to_pay
                 /\ g.amount_to_send = f.amount_to_send
                 /\ g.storage_to_pay = f.storage_to_pay
                 /\ g.reported = reported /\ (IsCall(g) <=> IsCall(f))
  BY <1>2 DEF Landing, Flight, IsCall
<1> HIDE DEF f
<1>4. CASE DeliverOk(s) /\ ~IsCall(f)
  <2> DEFINE g == Landing(f, "ok", f.amount_to_send, f.amount_to_send)
  <2>1. Delivered(s, "ok", f.amount_to_send, f.amount_to_send)
    BY <1>4 DEF DeliverOk, f
  <2>2. /\ g.status = "ok" /\ g.paid = f.amount_to_send + f.storage_to_pay
        /\ g.amount_to_send = f.amount_to_send
        /\ g.storage_to_pay = f.storage_to_pay /\ ~IsCall(g)
    BY <1>2, <1>3, <1>4
  <2> HIDE DEF g
  <2>3. PaidRight(g)
    BY <1>2, <2>2 DEF PaidRight, Booked, Consumed
  <2> QED BY <1>1, <1>2, <2>1, <2>3 DEF f, g
<1>5. CASE DeliverOk(s) /\ IsCall(f)
  <2>1. PICK reported \in 0..(f.amount_to_send + 1) :
           Delivered(s, "ok", Min({reported, f.amount_to_send}), reported)
    BY <1>5 DEF DeliverOk, f
  <2> DEFINE got == Min({reported, f.amount_to_send})
             g == Landing(f, "ok", got, reported)
  <2>2. reported \in Nat /\ got \in Nat /\ got <= f.amount_to_send
    BY <1>2, <2>1, MinOfTwo
  <2>3. got = Min({reported, f.amount_to_send})
    OBVIOUS
  <2> HIDE DEF got
  <2>4. /\ g.status = "ok" /\ g.paid = got + f.storage_to_pay
        /\ g.amount_to_send = f.amount_to_send /\ g.reported = reported
        /\ g.storage_to_pay = f.storage_to_pay /\ IsCall(g)
    BY <1>3, <1>5, <2>2
  <2> HIDE DEF g
  <2>5. PaidRight(g)
    BY <1>2, <2>2, <2>3, <2>4 DEF PaidRight, Booked, Consumed
  <2>6. Delivered(s, "ok", got, reported)
    BY <2>1, <2>3
  <2> QED BY <1>1, <1>5, <2>2, <2>5, <2>6 DEF f, g
<1>6. CASE DeliverUnresolved(s)
  <2> DEFINE g == Landing(f, "unresolved", f.amount_to_send, 0)
  <2>1. Delivered(s, "unresolved", f.amount_to_send, 0) /\ IsCall(f)
    BY <1>6 DEF DeliverUnresolved, f
  <2>2. /\ g.status = "unresolved" /\ g.paid = f.amount_to_send + f.storage_to_pay
        /\ g.amount_to_send = f.amount_to_send
        /\ g.storage_to_pay = f.storage_to_pay /\ IsCall(g)
    BY <1>2, <1>3, <2>1
  <2> HIDE DEF g
  <2>3. PaidRight(g)
    BY <1>2, <2>2 DEF PaidRight, Booked, Consumed
  <2> QED BY <1>1, <1>2, <2>1, <2>3 DEF f, g
<1>7. CASE DeliverUnreadable(s)
  <2>1. PICK got \in (IF IsCall(f) THEN 0..f.amount_to_send ELSE {f.amount_to_send}) :
           Delivered(s, "unreadable", got, 0)
    BY <1>7 DEF DeliverUnreadable, f
  <2>2. /\ got \in Nat /\ got <= f.amount_to_send
        /\ ~IsCall(f) => got = f.amount_to_send
    BY <1>2, <2>1
  <2> DEFINE g == Landing(f, "unreadable", got, 0)
  <2>3. /\ g.status = "unreadable" /\ g.paid = got + f.storage_to_pay
        /\ g.amount_to_send = f.amount_to_send
        /\ g.storage_to_pay = f.storage_to_pay
    BY <1>3, <2>2
  <2> HIDE DEF g
  <2>4. PaidRight(g)
    BY <1>2, <2>2, <2>3 DEF PaidRight
  <2> QED BY <1>1, <2>1, <2>2, <2>4 DEF f, g
<1> QED
  BY <1>1, <1>4, <1>5, <1>6, <1>7

(* The flight after a delivery.                                             *)
LEMMA DeliveredFlight ==
  ASSUME TypeOK, NEW s \in Slots, flights[s] # NoFlight,
         NEW status, NEW got \in Nat, NEW reported \in Nat,
         Delivered(s, status, got, reported)
  PROVE  LET f == flights[s]
             g == flights'[s]
         IN  /\ f.status = "sent" /\ got <= f.amount_to_send
             /\ flights' = [flights EXCEPT ![s] = g]
             /\ g = Landing(f, status, got, reported) /\ g # NoFlight
             /\ g.status = status /\ g.hash = f.hash
             /\ g.cost = f.cost /\ g.amount_to_send = f.amount_to_send
             /\ g.storage_to_pay = f.storage_to_pay
             /\ g.paid = got + f.storage_to_pay
             /\ Spent(g) = Spent(f)
<1> DEFINE f == flights[s]
           L == Landing(f, status, got, reported)
<1>1. f \in Flight /\ f.storage_to_pay \in Nat
  BY FlightTyped
<1>2. f.status = "sent" /\ got <= f.amount_to_send
  BY DEF Delivered
<1>3. flights' = [flights EXCEPT ![s] = L]
  BY DEF Delivered, Landing, TypeOK
<1>4. flights'[s] = L
  BY <1>3 DEF TypeOK
<1>5. /\ L # NoFlight /\ L.status = status /\ L.hash = f.hash /\ L.cost = f.cost
      /\ L.amount_to_send = f.amount_to_send
      /\ L.storage_to_pay = f.storage_to_pay /\ L.paid = got + f.storage_to_pay
  BY <1>1 DEF Landing, Flight, NoFlight
<1> HIDE DEF L
<1>6. Spent(L) = Spent(f)
  BY <1>5 DEF Spent
<1> QED
  BY <1>2, <1>3, <1>4, <1>5, <1>6 DEF L

(* The flight after withdraw, and after a failed delivery.                  *)
LEMMA SentFlight ==
  ASSUME IInv, NEW h \in Hashes, NEW s \in Slots, Withdraw(h, s)
  PROVE  LET t == Merged(Matured(queue[h]), TRUE)
             g == flights'[s]
         IN  /\ flights[s] = NoFlight /\ flights' = [flights EXCEPT ![s] = g]
             /\ g = NewFlight(h, t) /\ g # NoFlight /\ g \in Flight
             /\ g.status = "sent" /\ g.hash = h /\ g.paid = 0
             /\ Matured(queue[h]) # {} /\ t \in Tranche /\ CanSend(h, t)
             /\ g.amount_to_send + g.storage_to_pay = t.withdrawal_amount
             /\ balance' = balance - Spent(g) /\ Spent(g) \in Nat
<1> DEFINE M == Matured(queue[h])
           t == Merged(M, TRUE)
           f == NewFlight(h, t)
<1>1. epoch \in Nat /\ GoodQueue(queue[h])
  BY WithdrawalsAssumption DEF IInv, TypeOK, QueuesGood
<1>2. /\ flights[s] = NoFlight /\ AmountOf(M) > 0 /\ CanSend(h, t)
      /\ flights' = [flights EXCEPT ![s] = f]
      /\ balance' = balance - Spent(f)
  BY DEF Withdraw
<1>3. M # {}
  BY <1>2, NoTranche
<1>4. t \in Tranche
  BY <1>1, <1>3, MergedTranche
<1> HIDE DEF M, t
<1>5. f \in Flight
  BY <1>2, <1>4, NewFlightType DEF IInv
<1>6. Spent(f) \in Nat
  BY <1>5, BookedType
<1>7. f.status = "sent" /\ f.hash = h /\ f.paid = 0 /\ f # NoFlight
  BY DEF NewFlight, NoFlight
<1>8. f.amount_to_send + f.storage_to_pay = t.withdrawal_amount
  <2>1. f.amount_to_send = t.withdrawal_amount - StorageToPay(h, t)
        /\ f.storage_to_pay = StorageToPay(h, t)
    BY DEF NewFlight, AmountToSend
  <2>2. t.withdrawal_amount \in Nat /\ StorageToPay(h, t) \in Nat
    BY <1>4, WithdrawalsAssumption DEF Tranche, StorageToPay
  <2> QED BY <2>1, <2>2
<1> HIDE DEF f
<1>9. flights'[s] = f
  BY <1>2 DEF IInv, TypeOK
<1> QED
  BY <1>2, <1>3, <1>4, <1>5, <1>6, <1>7, <1>8, <1>9 DEF M, t, f

(* A failed delivery changes its flight and pays nothing.                   *)
LEMMA FailedFlight ==
  ASSUME TypeOK, NEW s \in Slots, DeliverFailed(s)
  PROVE  LET f == flights[s]
             g == flights'[s]
         IN  /\ f # NoFlight /\ f.status = "sent"
             /\ flights' = [flights EXCEPT ![s] = g] /\ g # NoFlight
             /\ g.status = "failed" /\ g.hash = f.hash
             /\ g.cost = f.cost /\ g.amount_to_send = f.amount_to_send
             /\ g.storage_to_pay = f.storage_to_pay /\ g.paid = f.paid
<1> DEFINE f == flights[s]
           g == [f EXCEPT !.status = "failed"]
<1>1. f # NoFlight /\ f.status = "sent" /\ flights' = [flights EXCEPT ![s] = g]
  BY DEF DeliverFailed, TypeOK
<1>2. f \in Flight
  BY <1>1, FlightTyped
<1>3. /\ g.status = "failed" /\ g.hash = f.hash /\ g.cost = f.cost /\ g # NoFlight
      /\ g.amount_to_send = f.amount_to_send
      /\ g.storage_to_pay = f.storage_to_pay /\ g.paid = f.paid
  BY <1>2 DEF Flight, NoFlight
<1> HIDE DEF g
<1>4. flights'[s] = g
  BY <1>1 DEF TypeOK
<1> QED
  BY <1>1, <1>3, <1>4

(* A callback ends a flight; a failed plain one has paid nothing.           *)
LEMMA EndedFlight ==
  ASSUME TypeOK, FlightsPaid, NEW s \in Slots, Callback(s)
  PROVE  /\ flights[s] # NoFlight /\ flights[s].status # "sent"
         /\ flights' = [flights EXCEPT ![s] = flights'[s]] /\ flights'[s] = NoFlight
         /\ PaidRight(flights[s])
         /\ SettleFailed(s) => flights[s].status = "failed" /\ flights[s].paid = 0
<1>1. /\ flights[s] # NoFlight /\ flights[s].status # "sent"
      /\ flights' = [flights EXCEPT ![s] = NoFlight]
  BY DEF Callback, Settle, SettleFailed, SettlePanics, Landed
<1>2. flights'[s] = NoFlight
  BY <1>1 DEF TypeOK
<1>3. PaidRight(flights[s])
  BY <1>1, FlightTyped DEF FlightsPaid
<1>4. SettleFailed(s) => flights[s].status = "failed" /\ flights[s].paid = 0
  BY <1>3 DEF SettleFailed, OnlyUnlocks, ReportsFailure, PaidRight
<1> QED
  BY <1>1, <1>2, <1>3, <1>4

-----------------------------------------------------------------------------
(* Each step keeps the ledgers.                                             *)

(* Every step that ends, starts or lands a flight books what it paid.       *)
LEMMA FlightsPaidStep ==
  ASSUME IInv, IInv', FlightsPaid, [Next]_vars
  PROVE  FlightsPaid'
<1> USE DEF IInv
<1>1. ASSUME NEW s \in Slots, flights' = [flights EXCEPT ![s] = flights'[s]],
             flights'[s] # NoFlight => PaidRight(flights'[s])
      PROVE  FlightsPaid'
  <2>1. ASSUME NEW x \in Slots, flights'[x] # NoFlight
        PROVE  PaidRight(flights'[x])
    <3>1. CASE x = s
      BY <1>1, <2>1, <3>1
    <3>2. CASE x # s
      <4>1. flights'[x] = flights[x]
        BY <1>1, <3>2 DEF TypeOK
      <4> QED BY <2>1, <4>1 DEF FlightsPaid, InFlight
    <3> QED BY <3>1, <3>2
  <2> QED BY <2>1 DEF FlightsPaid, InFlight, PaidRight, Booked, Consumed, IsCall
<1>2. CASE UNCHANGED flights
  BY <1>2, FlightsSame
<1>3. ASSUME NEW h \in Hashes, NEW s \in Slots, Withdraw(h, s)
      PROVE  FlightsPaid'
  <2>1. /\ flights' = [flights EXCEPT ![s] = flights'[s]]
        /\ flights'[s].status = "sent" /\ flights'[s].paid = 0
        /\ flights'[s] \in Flight
    BY <1>3, SentFlight
  <2>2. PaidRight(flights'[s])
    BY <2>1 DEF PaidRight, Flight
  <2> QED BY <1>1, <2>1, <2>2
<1>4. ASSUME NEW s \in Slots,
             DeliverOk(s) \/ DeliverUnresolved(s) \/ DeliverUnreadable(s)
      PROVE  FlightsPaid'
  <2>1. PICK status \in {"ok", "unresolved", "unreadable"}, got \in Nat, reported \in Nat :
           /\ Delivered(s, status, got, reported)
           /\ PaidRight(Landing(flights[s], status, got, reported))
    BY <1>4, DeliveryFacts
  <2>2. flights[s] # NoFlight
    BY <1>4, DeliveryFacts
  <2>3. /\ flights' = [flights EXCEPT ![s] = flights'[s]]
        /\ flights'[s] = Landing(flights[s], status, got, reported)
    BY <2>1, <2>2, DeliveredFlight
  <2> QED BY <1>1, <2>1, <2>3
<1>5. ASSUME NEW s \in Slots, DeliverFailed(s)
      PROVE  FlightsPaid'
  <2>1. /\ flights[s] # NoFlight /\ flights[s].status = "sent"
        /\ flights' = [flights EXCEPT ![s] = flights'[s]]
        /\ flights'[s].status = "failed" /\ flights'[s].paid = flights[s].paid
        /\ flights'[s].amount_to_send = flights[s].amount_to_send
        /\ flights'[s].storage_to_pay = flights[s].storage_to_pay
    BY <1>5, FailedFlight
  <2>2. PaidRight(flights[s])
    BY <2>1, FlightTyped DEF FlightsPaid
  <2>3. PaidRight(flights'[s])
    BY <2>1, <2>2 DEF PaidRight
  <2> QED BY <1>1, <2>1, <2>3
<1>6. ASSUME NEW s \in Slots, Callback(s)
      PROVE  FlightsPaid'
  BY <1>1, <1>6, EndedFlight
<1>7. CASE \E h \in Hashes, a \in Amounts : OnUnstake(h, a)
  BY <1>2, <1>7 DEF OnUnstake, chainVars
<1>8. CASE RefundArrives \/ SyncRewards \/ NextEpoch \/ UNCHANGED vars
  BY <1>2, <1>8 DEF RefundArrives, SyncRewards, NextEpoch, vars, chainVars
<1>9. CASE \E h \in Hashes : ForceReleaseLock(h)
  BY <1>2, <1>9 DEF ForceReleaseLock, chainVars
<1> QED
  BY <1>3, <1>4, <1>5, <1>6, <1>7, <1>8, <1>9 DEF Next, Deliver

(* Every step keeps the tracker's ledger: what leaves the account is a      *)
(* flight's, in transit back, or booked, and what is booked has left.       *)
LEMMA TrackerLedgerStep ==
  ASSUME IInv, IInv', FlightsPaid, TrackerLedger, [Next]_vars
  PROVE  TrackerLedger'
<1> DEFINE O == Sum(InFlight, Outstanding)
<1> USE DEF IInv
<1>1. /\ balance \in Nat /\ returning \in Nat /\ tracked \in Nat
      /\ shortfall \in Nat /\ surplus \in Int
      /\ balance + returning + O + shortfall = tracked + surplus /\ O \in Nat
  BY OutstandingType DEF TypeOK, TrackerLedger
<1>2. ASSUME NEW s \in Slots, flights' = [flights EXCEPT ![s] = flights'[s]]
      PROVE  /\ O \in Nat
             /\ O' = O - (IF flights[s]  = NoFlight THEN 0 ELSE Outstanding(s))
                       + (IF flights'[s] = NoFlight THEN 0 ELSE Outstanding(s)')
  BY <1>2, OutstandingMove
<1>3. UNCHANGED flights => O' = O
  BY FlightsSame
<1>4. (balance' + returning' + O' + shortfall' = tracked' + surplus') => TrackerLedger'
  BY DEF TrackerLedger
<1> HIDE DEF O
<1>5. ASSUME NEW h \in Hashes, NEW s \in Slots, Withdraw(h, s)
      PROVE  TrackerLedger'
  <2>1. /\ flights[s] = NoFlight /\ flights'[s] # NoFlight
        /\ flights' = [flights EXCEPT ![s] = flights'[s]]
        /\ flights'[s].status = "sent"
        /\ balance' = balance - Spent(flights'[s]) /\ Spent(flights'[s]) \in Nat
    BY <1>5, SentFlight
  <2>2. Outstanding(s)' = Spent(flights'[s])
    BY <2>1 DEF Outstanding, Spent
  <2>3. O \in Nat /\ O' = O + Spent(flights'[s])
    BY <1>2, <2>1, <2>2
  <2>4. UNCHANGED <<tracked, returning, surplus, shortfall>>
    BY <1>5 DEF Withdraw, ghostVars
  <2> QED BY <1>1, <1>4, <2>1, <2>3, <2>4
<1>6. ASSUME NEW s \in Slots,
             DeliverOk(s) \/ DeliverUnresolved(s) \/ DeliverUnreadable(s)
      PROVE  TrackerLedger'
  <2>1. PICK status \in {"ok", "unresolved", "unreadable"}, got \in Nat, reported \in Nat :
           Delivered(s, status, got, reported)
    BY <1>6, DeliveryFacts
  <2>2. flights[s] # NoFlight
    BY <1>6, DeliveryFacts
  <2>3. /\ flights[s].status = "sent"
        /\ flights' = [flights EXCEPT ![s] = flights'[s]] /\ flights'[s] # NoFlight
        /\ flights'[s].status = status /\ Spent(flights'[s]) = Spent(flights[s])
    BY <2>1, <2>2, DeliveredFlight
  <2>4. Outstanding(s) = Spent(flights[s]) /\ Outstanding(s)' = Spent(flights'[s])
    BY <2>3 DEF Outstanding, Spent
  <2>5. Spent(flights[s]) \in Nat /\ flights[s].storage_to_pay \in Nat
    BY <2>2, FlightTyped
  <2>6. O \in Nat /\ O' = O
    BY <1>2, <2>2, <2>3, <2>4, <2>5
  <2>7. PICK back \in {0, flights[s].storage_to_pay} :
           returning' = returning + back /\ surplus' = surplus + back
    BY <2>1 DEF Delivered
  <2>8. UNCHANGED <<tracked, balance, shortfall>>
    BY <2>1 DEF Delivered, contractVars
  <2>9. back \in Nat
    BY <2>5, <2>7
  <2>10. balance' + returning' + O' + shortfall' = balance + returning + O + shortfall + back
    BY <1>1, <2>6, <2>7, <2>8, <2>9
  <2>11. tracked' + surplus' = tracked + surplus + back
    BY <1>1, <2>7, <2>8, <2>9
  <2> QED BY <1>1, <1>4, <2>9, <2>10, <2>11
<1>7. ASSUME NEW s \in Slots, DeliverFailed(s)
      PROVE  TrackerLedger'
  <2>1. /\ flights[s] # NoFlight /\ flights[s].status = "sent"
        /\ flights' = [flights EXCEPT ![s] = flights'[s]] /\ flights'[s] # NoFlight
        /\ flights'[s].status = "failed"
    BY <1>7, FailedFlight
  <2>2. Outstanding(s) = Spent(flights[s]) /\ Outstanding(s)' = 0
    BY <2>1 DEF Outstanding
  <2>3. Spent(flights[s]) \in Nat
    BY <2>1, FlightTyped
  <2>4. O \in Nat /\ O' = O - Spent(flights[s])
    BY <1>2, <2>1, <2>2, <2>3
  <2>5. /\ returning' = returning + Spent(flights[s])
        /\ UNCHANGED <<tracked, balance, surplus, shortfall>>
    BY <1>7 DEF DeliverFailed, contractVars, ghostVars
  <2> QED BY <1>1, <1>4, <2>3, <2>4, <2>5
<1>8. ASSUME NEW s \in Slots, Callback(s)
      PROVE  TrackerLedger'
  <2>1. /\ flights[s] # NoFlight /\ flights'[s] = NoFlight
        /\ flights' = [flights EXCEPT ![s] = flights'[s]]
        /\ SettleFailed(s) => flights[s].status = "failed"
    BY <1>8, EndedFlight
  <2>2. Spent(flights[s]) \in Nat /\ Outstanding(s) \in Nat
    BY <2>1, FlightTyped
  <2>3. O \in Nat /\ O' = O - Outstanding(s)
    BY <1>2, <2>1, <2>2
  <2>4. Outstanding(s) = IF flights[s].status = "failed" THEN 0 ELSE Spent(flights[s])
    BY DEF Outstanding
  <2>5. CASE Settle(s)
    <3>1. /\ tracked' = tracked - Spent(flights[s])
          /\ surplus' = surplus + (IF flights[s].status = "failed"
                                   THEN Spent(flights[s]) ELSE 0)
          /\ UNCHANGED <<balance, returning, shortfall>>
      BY <2>5 DEF Settle, TrackerDebit
    <3> QED BY <1>1, <1>4, <2>2, <2>3, <2>4, <3>1
  <2>6. CASE SettleFailed(s)
    <3>1. UNCHANGED <<tracked, balance, returning, surplus, shortfall>>
      BY <2>6 DEF SettleFailed, ghostVars
    <3> QED BY <1>1, <1>4, <2>1, <2>3, <2>4, <2>6, <3>1
  <2>7. CASE SettlePanics(s)
    <3>1. /\ shortfall' = shortfall + Outstanding(s)
          /\ UNCHANGED <<tracked, balance, returning, surplus>>
      BY <2>7 DEF SettlePanics, contractVars, Outstanding
    <3> QED BY <1>1, <1>4, <2>2, <2>3, <3>1
  <2> QED BY <1>8, <2>5, <2>6, <2>7 DEF Callback
<1>9. CASE UNCHANGED <<flights, tracked, balance, returning, surplus, shortfall>>
  BY <1>1, <1>3, <1>4, <1>9
<1>10. CASE RefundArrives
  <2>1. PICK n \in 1..returning : returning' = returning - n /\ balance' = balance + n
    BY <1>10 DEF RefundArrives
  <2>2. UNCHANGED <<flights, tracked, surplus, shortfall>>
    BY <1>10 DEF RefundArrives, contractVars, ghostVars
  <2> QED BY <1>1, <1>3, <1>4, <2>1, <2>2
<1>11. CASE SyncRewards
  <2>1. /\ tracked' = balance /\ surplus' = surplus - (balance - tracked)
        /\ UNCHANGED <<flights, balance, returning, shortfall>>
    BY <1>11 DEF SyncRewards, chainVars
  <2> QED BY <1>1, <1>3, <1>4, <2>1
<1>12. CASE NextEpoch
  <2>1. PICK r \in Rewards : balance' = balance + r /\ surplus' = surplus + r
    BY <1>12 DEF NextEpoch
  <2>2. UNCHANGED <<flights, tracked, returning, shortfall>> /\ r \in Nat
    BY <1>12, WithdrawalsAssumption DEF NextEpoch, contractVars
  <2> QED BY <1>1, <1>3, <1>4, <2>1, <2>2
<1>13. CASE \E h \in Hashes, a \in Amounts : OnUnstake(h, a)
  BY <1>9, <1>13 DEF OnUnstake, chainVars
<1>14. CASE \E h \in Hashes : ForceReleaseLock(h)
  BY <1>9, <1>14 DEF ForceReleaseLock, chainVars
<1>15. CASE UNCHANGED vars
  BY <1>9, <1>15 DEF vars, contractVars, chainVars, ghostVars
<1> QED
  BY <1>5, <1>6, <1>7, <1>8, <1>10, <1>11, <1>12, <1>13, <1>14, <1>15
     DEF Next, Deliver

(* What each step does to the queue of a hash and to its claim.             *)
LEMMA QueueFacts ==
  ASSUME TypeOK, QueuesGood, NEW h \in Hashes
  PROVE  /\ epoch \in Nat /\ GoodQueue(queue[h]) /\ queue[h] \subseteq Tranche
         /\ IsFiniteSet(queue[h]) /\ Claim(h) \in Nat
         /\ \A t \in Locked(queue[h]) : /\ t \in queue[h] /\ t \in Tranche
                                        /\ t.withdrawal_amount \in Nat
                                        /\ t.withdrawal_amount <= Claim(h)
                                        /\ Locked(queue[h]) = {t}
<1>1. epoch \in Nat /\ GoodQueue(queue[h])
  BY WithdrawalsAssumption DEF TypeOK, QueuesGood
<1>2. queue[h] \subseteq Tranche /\ IsFiniteSet(queue[h])
  BY <1>1 DEF GoodQueue
<1>3. Claim(h) \in Nat
  BY <1>2, AmountType DEF Claim
<1>4. ASSUME NEW t \in Locked(queue[h])
      PROVE  /\ t \in queue[h] /\ t \in Tranche /\ t.withdrawal_amount \in Nat
             /\ t.withdrawal_amount <= Claim(h) /\ Locked(queue[h]) = {t}
  <2>1. t \in queue[h] /\ t \in Tranche
    BY <1>2 DEF Locked
  <2>2. t.withdrawal_amount \in Nat
    BY <2>1 DEF Tranche
  <2>3. t.withdrawal_amount <= Claim(h)
    BY <1>2, <2>1, AmountMember DEF Claim
  <2>4. Locked(queue[h]) = {t}
    BY <1>1 DEF GoodQueue, Locked
  <2> QED BY <2>1, <2>2, <2>3, <2>4
<1> QED
  BY <1>1, <1>2, <1>3, <1>4

(* on_unstake appends a tranche: the claim of its hash, and no other, grows *)
(* by the amount.                                                           *)
LEMMA UnstakeQueue ==
  ASSUME IInv, NEW h \in Hashes, NEW amount \in Amounts, OnUnstake(h, amount)
  PROVE  /\ queue'[h] = Appended(queue[h], amount)
         /\ \A x \in Hashes : x # h => queue'[x] = queue[x]
         /\ Claim(h)' = Claim(h) + amount /\ amount \in Nat /\ 0 < amount
<1>1. GoodQueue(queue[h]) /\ epoch \in Nat
  BY QueueFacts DEF IInv
<1>2. queue' = [queue EXCEPT ![h] = Appended(queue[h], amount)]
  BY DEF OnUnstake
<1>3. queue'[h] = Appended(queue[h], amount) /\ \A x \in Hashes : x # h => queue'[x] = queue[x]
  BY <1>2 DEF IInv, TypeOK
<1>4. amount \in Nat /\ 0 < amount
  BY WithdrawalsAssumption
<1>5. AmountOf(Appended(queue[h], amount)) = AmountOf(queue[h]) + amount
  BY <1>1, <1>4, AppendedQueue
<1> QED
  BY <1>3, <1>4, <1>5 DEF Claim, AmountOf

(* withdraw merges the matured tranches of its hash into one it locks.      *)
LEMMA WithdrawQueue ==
  ASSUME IInv, NEW h \in Hashes, NEW s \in Slots, Withdraw(h, s)
  PROVE  /\ queue'[h] = Collapsed(queue[h], TRUE)
         /\ Locked(queue[h]) = {}
         /\ Locked(queue'[h]) = {Merged(Matured(queue[h]), TRUE)}
         /\ \A x \in Hashes : x # h => queue'[x] = queue[x]
         /\ Claim(h)' = Claim(h)
<1> DEFINE Q == queue[h]
           M == Matured(Q)
<1>1. GoodQueue(Q) /\ epoch \in Nat
  BY QueueFacts DEF IInv
<1>2. /\ queue' = [queue EXCEPT ![h] = Collapsed(Q, TRUE)]
      /\ \A t \in Q : ~t.locked
      /\ AmountOf(M) > 0
  BY DEF Withdraw, NotInProgress
<1>3. queue'[h] = Collapsed(Q, TRUE) /\ \A x \in Hashes : x # h => queue'[x] = queue[x]
  BY <1>2 DEF IInv, TypeOK
<1>4. AmountOf(Collapsed(Q, TRUE)) = AmountOf(Q)
  BY <1>1, <1>2, CollapsedQueue
<1>5. Locked(Q) = {}
  BY <1>2 DEF Locked
<1>6. Collapsed(Q, TRUE) = (Q \ M) \cup {Merged(M, TRUE)}
  BY <1>2 DEF Collapsed
<1>7. Merged(M, TRUE).locked
  BY DEF Merged
<1>8. Locked((Q \ M) \cup {Merged(M, TRUE)}) = {Merged(M, TRUE)}
  BY <1>2, <1>7 DEF Locked
<1>9. Claim(h)' = Claim(h)
  BY <1>3, <1>4 DEF Claim, AmountOf
<1> QED
  BY <1>3, <1>5, <1>6, <1>8, <1>9

(* A settlement takes from its hash's claim what it books as paid.          *)
LEMMA SettleQueue ==
  ASSUME IInv, NEW s \in Slots, Settle(s), NEW h \in Hashes, h = flights[s].hash
  PROVE  LET f == flights[s]
         IN  /\ queue'[h] = SettledQueue(f, queue[h])
             /\ \A x \in Hashes : x # h => queue'[x] = queue[x]
             /\ Claim(h)' = Claim(h) - Booked(f)
             /\ f.amount_to_send - Consumed(f) \in Nat
             /\ \E t \in Locked(queue[h]) : Booked(f) <= t.withdrawal_amount
<1> DEFINE f == flights[s]
<1>1. /\ f # NoFlight /\ SettlementFits(f)
      /\ queue' = [queue EXCEPT ![h] = SettledQueue(f, queue[h])]
  BY DEF Settle, Landed
<1>2. /\ f \in Flight /\ f.storage_to_pay \in Nat /\ Booked(f) \in Nat
  BY <1>1, FlightTyped DEF IInv
<1>3. f.amount_to_send - Consumed(f) \in Nat /\ (f.storage_to_pay > 0) \in BOOLEAN
  BY <1>2, BookedType
<1>4. PICK t \in Locked(queue[h]) : IF Kind[h] = "native" THEN Booked(f) = t.withdrawal_amount
                                    ELSE Booked(f) <= t.withdrawal_amount
  BY <1>1 DEF SettlementFits
<1>5. Booked(f) <= t.withdrawal_amount
  BY <1>2, <1>4
<1>6. GoodQueue(queue[h]) /\ epoch \in Nat
  BY QueueFacts DEF IInv
<1> HIDE DEF f
<1>7. AmountOf(SettledQueue(f, queue[h])) = AmountOf(queue[h]) - Booked(f)
  BY <1>2, <1>3, <1>4, <1>5, <1>6, SettledGoodQueue
<1>8. queue'[h] = SettledQueue(f, queue[h]) /\ \A x \in Hashes : x # h => queue'[x] = queue[x]
  BY <1>1 DEF IInv, TypeOK
<1>9. Claim(h)' = Claim(h) - Booked(f)
  BY <1>7, <1>8 DEF Claim, AmountOf
<1> QED
  BY <1>3, <1>4, <1>5, <1>8, <1>9 DEF f

(* A release changes locks only, so claims stay as they are.                *)
LEMMA ReleaseQueue ==
  ASSUME IInv, NEW h \in Hashes, queue' = [queue EXCEPT ![h] = Released(@)]
  PROVE  /\ queue'[h] = Released(queue[h])
         /\ \A x \in Hashes : x # h => queue'[x] = queue[x]
         /\ Claim(h)' = Claim(h)
<1>1. GoodQueue(queue[h]) /\ epoch \in Nat
  BY QueueFacts DEF IInv
<1>2. queue'[h] = Released(queue[h]) /\ \A x \in Hashes : x # h => queue'[x] = queue[x]
  BY DEF IInv, TypeOK
<1>3. AmountOf(Released(queue[h])) = AmountOf(queue[h])
  BY <1>1, ReleasedQueue
<1> QED
  BY <1>2, <1>3 DEF Claim, AmountOf

(* Every step keeps the ledger of every hash: what is owed is what is       *)
(* queued and given up, less what was delivered and is not booked yet.      *)
LEMMA ClaimLedgerStep ==
  ASSUME IInv, IInv', FlightsPaid, ClaimLedger, [Next]_vars
  PROVE  ClaimLedger'
<1>1. \A h \in Hashes :
        /\ owed[h] = Claim(h) + lost[h] - unsettled[h] - PaidTo(h)
        /\ owed[h] \in Int /\ lost[h] \in Nat /\ unsettled[h] \in Nat /\ Claim(h) \in Nat
  BY QueueFacts DEF IInv, TypeOK, ClaimLedger, PaidTo
<1>2. SUFFICES ASSUME NEW h \in Hashes
               PROVE  owed'[h] = Claim(h)' + lost'[h] - unsettled'[h] - PaidTo(h)'
  BY DEF ClaimLedger, PaidTo
<1>3. ASSUME NEW s \in Slots, flights' = [flights EXCEPT ![s] = flights'[s]]
      PROVE  /\ PaidTo(h) \in Nat
             /\ PaidTo(h)' =
                  PaidTo(h)
                    - (IF flights[s] # NoFlight /\ flights[s].hash = h
                       THEN flights[s].paid ELSE 0)
                    + (IF flights'[s] # NoFlight /\ flights'[s].hash = h
                       THEN flights'[s].paid ELSE 0)
  <2>1. /\ s \in FlightsOf(h) <=> (flights[s] # NoFlight /\ flights[s].hash = h)
        /\ s \in FlightsOf(h)' <=> (flights'[s] # NoFlight /\ flights'[s].hash = h)
    BY DEF FlightsOf, InFlight
  <2>2. /\ PaidTo(h) \in Nat
        /\ PaidTo(h)' = PaidTo(h) - (IF s \in FlightsOf(h) THEN flights[s].paid ELSE 0)
                          + (IF s \in FlightsOf(h)' THEN flights'[s].paid ELSE 0)
    BY <1>3, PaidMove DEF IInv
  <2> QED BY <2>1, <2>2
<1>4. PaidTo(h) \in Nat
  <2>1. [s \in FlightsOf(h) |-> flights[s].paid] \in [FlightsOf(h) -> Nat]
    BY FlightTyped DEF FlightsOf, InFlight, IInv
  <2>2. IsFiniteSet(FlightsOf(h))
    BY WithdrawalsAssumption, FS_Subset DEF InFlight, FlightsOf
  <2> QED BY <2>1, <2>2, TotalType DEF PaidTo
<1>5. UNCHANGED queue => Claim(h)' = Claim(h)
  BY DEF Claim, AmountOf
<1>6. UNCHANGED flights => PaidTo(h)' = PaidTo(h)
  BY FlightsSame
<1>7. ASSUME NEW x \in Hashes, NEW a \in Amounts, OnUnstake(x, a)
      PROVE  owed'[h] = Claim(h)' + lost'[h] - unsettled'[h] - PaidTo(h)'
  <2>1. /\ \A y \in Hashes : y # x => queue'[y] = queue[y]
        /\ Claim(x)' = Claim(x) + a /\ a \in Nat
    BY <1>7, UnstakeQueue
  <2>2. /\ owed' = [owed EXCEPT ![x] = @ + a]
        /\ UNCHANGED <<lost, unsettled, flights>>
    BY <1>7 DEF OnUnstake, chainVars
  <2>3. CASE h = x
    <3>1. owed'[h] = owed[h] + a
      BY <2>2, <2>3 DEF IInv, TypeOK
    <3> QED BY <1>1, <1>4, <1>6, <2>1, <2>2, <2>3, <3>1
  <2>4. CASE h # x
    <3>1. owed'[h] = owed[h] /\ Claim(h)' = Claim(h)
      BY <2>1, <2>2, <2>4 DEF IInv, TypeOK, Claim, AmountOf
    <3> QED BY <1>1, <1>4, <1>6, <2>2, <3>1
  <2> QED BY <2>3, <2>4
<1>8. ASSUME NEW x \in Hashes, NEW s \in Slots, Withdraw(x, s)
      PROVE  owed'[h] = Claim(h)' + lost'[h] - unsettled'[h] - PaidTo(h)'
  <2>1. /\ \A y \in Hashes : y # x => queue'[y] = queue[y]
        /\ Claim(x)' = Claim(x)
    BY <1>8, WithdrawQueue
  <2>2. /\ flights[s] = NoFlight /\ flights'[s].paid = 0
        /\ flights' = [flights EXCEPT ![s] = flights'[s]]
    BY <1>8, SentFlight
  <2>3. UNCHANGED <<owed, lost, unsettled>>
    BY <1>8 DEF Withdraw, ghostVars
  <2>4. Claim(h)' = Claim(h)
    BY <2>1 DEF Claim, AmountOf
  <2>5. PaidTo(h)' = PaidTo(h)
    BY <1>3, <1>4, <2>2
  <2> QED BY <1>1, <2>3, <2>4, <2>5
<1>9. ASSUME NEW s \in Slots,
             DeliverOk(s) \/ DeliverUnresolved(s) \/ DeliverUnreadable(s)
      PROVE  owed'[h] = Claim(h)' + lost'[h] - unsettled'[h] - PaidTo(h)'
  <2> DEFINE f == flights[s]
             g == flights'[s]
  <2>1. f # NoFlight
    BY <1>9, DeliveryFacts DEF IInv
  <2>2. PICK status \in {"ok", "unresolved", "unreadable"}, got \in Nat, reported \in Nat :
           Delivered(s, status, got, reported)
    BY <1>9, DeliveryFacts DEF IInv
  <2>3. /\ f.status = "sent" /\ flights' = [flights EXCEPT ![s] = g] /\ g # NoFlight
        /\ g.hash = f.hash /\ g.paid = got + f.storage_to_pay
    BY <2>1, <2>2, DeliveredFlight DEF IInv
  <2>4. /\ f.paid = 0 /\ f.storage_to_pay \in Nat /\ f.hash \in Hashes
    BY <2>1, <2>3, FlightTyped DEF IInv, FlightsPaid, PaidRight
  <2>5. /\ owed' = [owed EXCEPT ![f.hash] = @ - (got + f.storage_to_pay)]
        /\ UNCHANGED <<queue, lost, unsettled>>
    BY <2>2 DEF Delivered, contractVars
  <2> HIDE DEF f, g
  <2>6. PaidTo(h)' = PaidTo(h) - (IF f.hash = h THEN f.paid ELSE 0)
                               + (IF f.hash = h THEN g.paid ELSE 0)
    BY <1>3, <2>1, <2>3 DEF f, g
  <2>7. CASE h = f.hash
    <3>1. owed'[h] = owed[h] - (got + f.storage_to_pay)
      BY <2>5, <2>7 DEF IInv, TypeOK
    <3>2. PaidTo(h)' = PaidTo(h) + (got + f.storage_to_pay)
      BY <1>4, <2>3, <2>4, <2>6, <2>7
    <3> QED BY <1>1, <1>4, <1>5, <2>4, <2>5, <3>1, <3>2
  <2>8. CASE h # f.hash
    <3>1. owed'[h] = owed[h]
      BY <2>5, <2>8 DEF IInv, TypeOK
    <3>2. PaidTo(h)' = PaidTo(h)
      BY <1>4, <2>6, <2>8
    <3> QED BY <1>1, <1>4, <1>5, <2>5, <3>1, <3>2
  <2> QED BY <2>7, <2>8
<1>10. ASSUME NEW s \in Slots, DeliverFailed(s)
       PROVE  owed'[h] = Claim(h)' + lost'[h] - unsettled'[h] - PaidTo(h)'
  <2>1. /\ flights[s] # NoFlight /\ flights'[s] # NoFlight
        /\ flights' = [flights EXCEPT ![s] = flights'[s]]
        /\ flights'[s].hash = flights[s].hash /\ flights'[s].paid = flights[s].paid
    BY <1>10, FailedFlight DEF IInv
  <2>2. flights[s].paid \in Nat
    BY <2>1, FlightTyped DEF IInv
  <2>3. PaidTo(h)' = PaidTo(h)
    BY <1>3, <1>4, <2>1, <2>2
  <2>4. UNCHANGED <<queue, owed, lost, unsettled>>
    BY <1>10 DEF DeliverFailed, contractVars, ghostVars
  <2> QED BY <1>1, <1>5, <2>3, <2>4
<1>11. ASSUME NEW s \in Slots, Callback(s)
       PROVE  owed'[h] = Claim(h)' + lost'[h] - unsettled'[h] - PaidTo(h)'
  <2> DEFINE f == flights[s]
  <2>1. /\ f # NoFlight /\ f.status # "sent" /\ flights'[s] = NoFlight
        /\ flights' = [flights EXCEPT ![s] = flights'[s]] /\ PaidRight(f)
        /\ SettleFailed(s) => f.paid = 0
    BY <1>11, EndedFlight DEF IInv
  <2>2. /\ f.hash \in Hashes /\ f.paid \in Nat /\ Booked(f) \in Nat
        /\ f.amount_to_send \in Nat /\ f.storage_to_pay \in Nat
    BY <2>1, FlightTyped DEF IInv
  <2>3. PaidTo(h)' = PaidTo(h) - (IF f.hash = h THEN f.paid ELSE 0)
    BY <1>3, <1>4, <2>1, <2>2
  <2>4. CASE Settle(s)
    <3>1. PICK x \in Hashes : x = f.hash
      BY <2>2
    <3>2. /\ \A y \in Hashes : y # x => queue'[y] = queue[y]
          /\ Claim(x)' = Claim(x) - Booked(f)
      BY <2>4, <3>1, SettleQueue
    <3>3. /\ lost' = [lost EXCEPT ![x] = @ + (IF f.status = "failed"
                                    THEN f.amount_to_send + f.storage_to_pay ELSE 0)]
          /\ UNCHANGED <<owed, unsettled>>
          /\ f.status # "unreadable"
          /\ f.status = "failed" => IsCall(f)
      BY <2>4, <3>1 DEF Settle, SettlementFits, OnlyUnlocks, ReportsFailure
    <3>4. f.status \in {"ok", "failed", "unresolved"}
      <4>1. f \in Flight
        BY <2>1, FlightTyped DEF IInv
      <4> QED BY <2>1, <3>3, <4>1 DEF Flight
    <3>5. Booked(f) = f.paid + (IF f.status = "failed"
                                THEN f.amount_to_send + f.storage_to_pay ELSE 0)
      <4>1. CASE f.status = "failed"
        BY <2>1, <2>2, <3>3, <4>1 DEF PaidRight, Booked, Consumed
      <4>2. CASE f.status \in {"ok", "unresolved"}
        BY <2>1, <2>2, <4>2 DEF PaidRight
      <4> QED BY <3>4, <4>1, <4>2
    <3> HIDE DEF f
    <3>6. CASE h = x
      <4>1. lost'[h] = lost[h] + (IF f.status = "failed"
                                  THEN f.amount_to_send + f.storage_to_pay ELSE 0)
        BY <3>3, <3>6 DEF IInv, TypeOK
      <4> QED BY <1>1, <1>4, <2>2, <2>3, <3>1, <3>2, <3>3, <3>5, <3>6, <4>1
    <3>7. CASE h # x
      <4>1. lost'[h] = lost[h] /\ Claim(h)' = Claim(h)
        BY <3>2, <3>3, <3>7 DEF IInv, TypeOK, Claim, AmountOf
      <4> QED BY <1>1, <1>4, <2>3, <3>1, <3>3, <3>7, <4>1
    <3> QED BY <3>6, <3>7
  <2>5. CASE SettleFailed(s)
    <3>1. PICK x \in Hashes : x = f.hash
      BY <2>2
    <3>2. /\ queue' = [queue EXCEPT ![x] = Released(@)]
          /\ UNCHANGED <<owed, lost, unsettled>>
      BY <2>5, <3>1 DEF SettleFailed, ghostVars
    <3>3. /\ \A y \in Hashes : y # x => queue'[y] = queue[y]
          /\ Claim(x)' = Claim(x)
      BY <3>2, ReleaseQueue
    <3>4. Claim(h)' = Claim(h)
      BY <3>3 DEF Claim, AmountOf
    <3>5. PaidTo(h)' = PaidTo(h)
      BY <1>4, <2>1, <2>3, <2>5
    <3> QED BY <1>1, <3>2, <3>4, <3>5
  <2>6. CASE SettlePanics(s)
    <3>1. /\ unsettled' = [unsettled EXCEPT ![f.hash] = @ + f.paid]
          /\ UNCHANGED <<queue, owed, lost>>
      BY <2>6 DEF SettlePanics, contractVars
    <3> HIDE DEF f
    <3>2. unsettled'[h] = unsettled[h] + (IF f.hash = h THEN f.paid ELSE 0)
      BY <1>1, <2>2, <3>1 DEF IInv, TypeOK
    <3> QED BY <1>1, <1>4, <1>5, <2>2, <2>3, <3>1, <3>2
  <2> QED BY <1>11, <2>4, <2>5, <2>6 DEF Callback
<1>12. ASSUME NEW x \in Hashes, ForceReleaseLock(x)
       PROVE  owed'[h] = Claim(h)' + lost'[h] - unsettled'[h] - PaidTo(h)'
  <2>1. /\ queue' = [queue EXCEPT ![x] = Released(@)]
        /\ UNCHANGED <<owed, lost, unsettled, flights>>
    BY <1>12 DEF ForceReleaseLock, chainVars
  <2>2. /\ \A y \in Hashes : y # x => queue'[y] = queue[y]
        /\ Claim(x)' = Claim(x)
    BY <2>1, ReleaseQueue
  <2>3. Claim(h)' = Claim(h)
    BY <2>2 DEF Claim, AmountOf
  <2> QED BY <1>1, <1>6, <2>1, <2>3
<1>13. CASE RefundArrives \/ SyncRewards \/ NextEpoch \/ UNCHANGED vars
  <2>1. UNCHANGED <<queue, owed, lost, unsettled, flights>>
    BY <1>13 DEF RefundArrives, SyncRewards, NextEpoch, vars, contractVars,
                 chainVars, ghostVars
  <2> QED BY <1>1, <1>5, <1>6, <2>1
<1> QED
  BY <1>7, <1>8, <1>9, <1>10, <1>11, <1>12, <1>13 DEF Next, Deliver

(* Steps of other hashes, and steps that do not touch the locked tranche.   *)
LEMMA LockHeldSame ==
  ASSUME NEW h \in Hashes, LockHeld(h), FlightsOf(h)' = FlightsOf(h),
         \A s \in FlightsOf(h) :
           /\ flights'[s].amount_to_send = flights[s].amount_to_send
           /\ flights'[s].storage_to_pay = flights[s].storage_to_pay,
         unsettled'[h] = unsettled[h], Locked(queue'[h]) = Locked(queue[h])
  PROVE  LockHeld(h)'
<1>1. Locked(queue[h])' = Locked(queue[h])
  BY DEF Locked
<1> QED
  BY <1>1 DEF LockHeld

(* Every step keeps the lock of a claim that is being paid: a withdrawal    *)
(* needs an unlocked queue, only the end of the flight unlocks it, and a    *)
(* release by the admin that does not wait for that end is in forced.       *)
LEMMA LocksHeldStep ==
  ASSUME IInv, IInv', FlightsPaid, LocksHeld, [Next]_vars
  PROVE  LocksHeld'
<1> USE DEF IInv
<1>1. SUFFICES ASSUME NEW h \in Hashes, h \notin forced'
               PROVE  LockHeld(h)'
  BY DEF LocksHeld
<1>2. forced \subseteq forced'
  BY ForcedGrows
<1>3. LockHeld(h)
  BY <1>1, <1>2 DEF LocksHeld
<1>4. unsettled[h] \in Nat
  BY DEF TypeOK
<1>5. ASSUME UNCHANGED <<flights, unsettled>>, Locked(queue'[h]) = Locked(queue[h])
      PROVE  LockHeld(h)'
  <2>1. FlightsOf(h)' = FlightsOf(h)
    BY <1>5, FlightsSame
  <2> QED BY <1>3, <1>5, <2>1, LockHeldSame
<1>6. ASSUME NEW s \in Slots, flights' = [flights EXCEPT ![s] = flights'[s]]
      PROVE  /\ flights[s] # NoFlight /\ flights[s].hash # h =>
                  s \notin FlightsOf(h)
             /\ flights'[s] # NoFlight /\ flights'[s].hash # h =>
                  s \notin FlightsOf(h)'
             /\ flights[s]  = NoFlight => s \notin FlightsOf(h)
             /\ flights'[s] = NoFlight => s \notin FlightsOf(h)'
             /\ \A r \in Slots : r # s => /\ flights'[r] = flights[r]
                                          /\ r \in FlightsOf(h)' <=> r \in FlightsOf(h)
             /\ FlightsOf(h) \subseteq Slots /\ FlightsOf(h)' \subseteq Slots
  BY <1>6 DEF TypeOK, FlightsOf, InFlight
<1>7. ASSUME NEW x \in Hashes, NEW a \in Amounts, OnUnstake(x, a)
      PROVE  LockHeld(h)'
  <2>1. /\ queue'[x] = Appended(queue[x], a) /\ a \in Nat
        /\ \A y \in Hashes : y # x => queue'[y] = queue[y]
    BY <1>7, UnstakeQueue
  <2>2. Locked(Appended(queue[x], a)) = Locked(queue[x])
    BY <2>1, QueueFacts, AppendedLocked
  <2>3. Locked(queue'[h]) = Locked(queue[h])
    BY <2>1, <2>2
  <2> QED BY <1>5, <1>7, <2>3 DEF OnUnstake, chainVars
<1>8. ASSUME NEW x \in Hashes, NEW s \in Slots, Withdraw(x, s)
      PROVE  LockHeld(h)'
  <2> DEFINE t == Merged(Matured(queue[x]), TRUE)
             g == flights'[s]
  <2>1. /\ Locked(queue[x]) = {} /\ Locked(queue'[x]) = {t}
        /\ \A y \in Hashes : y # x => queue'[y] = queue[y]
    BY <1>8, WithdrawQueue
  <2>2. /\ flights[s] = NoFlight /\ flights' = [flights EXCEPT ![s] = g]
        /\ g # NoFlight /\ g.hash = x
        /\ g.amount_to_send + g.storage_to_pay = t.withdrawal_amount
    BY <1>8, SentFlight
  <2>3. unsettled' = unsettled
    BY <1>8 DEF Withdraw, ghostVars
  <2> HIDE DEF t
  <2>4. CASE h = x
    <3>1. FlightsOf(h) = {} /\ unsettled[h] = 0
      BY <1>3, <1>4, <2>1, <2>4 DEF LockHeld
    <3>2. FlightsOf(h)' = {s}
      <4>1. s \in FlightsOf(h)'
        BY <2>2, <2>4 DEF FlightsOf, InFlight
      <4> QED BY <1>6, <2>2, <3>1, <4>1
    <3>3. t \in Locked(queue[h])'
      <4>1. t \in Locked(queue'[h])
        BY <2>1, <2>4
      <4> QED BY <4>1 DEF Locked
    <3>4. /\ \A r \in FlightsOf(h)' : r = s
          /\ unsettled'[h] = 0
      BY <2>3, <3>1, <3>2
    <3> QED BY <2>2, <3>3, <3>4 DEF LockHeld
  <2>5. CASE h # x
    <3>1. FlightsOf(h)' = FlightsOf(h)
      BY <1>6, <2>2, <2>5
    <3>2. \A r \in FlightsOf(h) : flights'[r] = flights[r]
      BY <1>6, <2>2
    <3> QED BY <1>3, <2>1, <2>3, <2>5, <3>1, <3>2, LockHeldSame
  <2> QED BY <2>4, <2>5
<1>9. ASSUME NEW s \in Slots, flights' = [flights EXCEPT ![s] = flights'[s]],
             flights[s] # NoFlight, flights'[s] # NoFlight,
             flights'[s].hash = flights[s].hash,
             flights'[s].amount_to_send = flights[s].amount_to_send,
             flights'[s].storage_to_pay = flights[s].storage_to_pay,
             UNCHANGED <<queue, unsettled>>
      PROVE  LockHeld(h)'
  <2>1. s \in FlightsOf(h)' <=> s \in FlightsOf(h)
    BY <1>9 DEF FlightsOf, InFlight
  <2>2. FlightsOf(h)' = FlightsOf(h)
    BY <1>6, <1>9, <2>1
  <2>3. \A r \in FlightsOf(h) :
           /\ flights'[r].amount_to_send = flights[r].amount_to_send
           /\ flights'[r].storage_to_pay = flights[r].storage_to_pay
    BY <1>6, <1>9
  <2> QED BY <1>3, <1>9, <2>2, <2>3, LockHeldSame
<1>10. ASSUME NEW s \in Slots,
              DeliverOk(s) \/ DeliverUnresolved(s) \/ DeliverUnreadable(s)
       PROVE  LockHeld(h)'
  <2>1. flights[s] # NoFlight
    BY <1>10, DeliveryFacts
  <2>2. PICK status \in {"ok", "unresolved", "unreadable"}, got \in Nat, reported \in Nat :
           Delivered(s, status, got, reported)
    BY <1>10, DeliveryFacts
  <2>3. UNCHANGED <<queue, unsettled>>
    BY <2>2 DEF Delivered, contractVars
  <2> QED BY <1>9, <2>1, <2>2, <2>3, DeliveredFlight
<1>11. ASSUME NEW s \in Slots, DeliverFailed(s)
       PROVE  LockHeld(h)'
  <2>1. UNCHANGED <<queue, unsettled>>
    BY <1>11 DEF DeliverFailed, contractVars, ghostVars
  <2> QED BY <1>9, <1>11, <2>1, FailedFlight
<1>12. ASSUME NEW s \in Slots, Callback(s)
       PROVE  LockHeld(h)'
  <2> DEFINE f == flights[s]
  <2>1. /\ f # NoFlight /\ flights'[s] = NoFlight /\ f.hash \in Hashes
        /\ flights' = [flights EXCEPT ![s] = flights'[s]] /\ PaidRight(f)
    BY <1>12, EndedFlight, FlightTyped
  <2>2. PICK x \in Hashes : x = f.hash
    BY <2>1
  <2>3. \A y \in Hashes : y # x => queue'[y] = queue[y] /\ unsettled'[y] = unsettled[y]
    <3>1. CASE Settle(s)
      BY <2>2, <3>1, SettleQueue DEF Settle
    <3>2. CASE SettleFailed(s)
      <4>1. queue' = [queue EXCEPT ![x] = Released(@)] /\ unsettled' = unsettled
        BY <2>2, <3>2 DEF SettleFailed, ghostVars
      <4> QED BY <4>1, ReleaseQueue
    <3>3. CASE SettlePanics(s)
      BY <2>2, <3>3 DEF SettlePanics, contractVars, TypeOK
    <3> QED BY <1>12, <3>1, <3>2, <3>3 DEF Callback
  <2>4. CASE h # x
    <3>1. FlightsOf(h)' = FlightsOf(h)
      BY <1>6, <2>1, <2>2, <2>4
    <3>2. \A r \in FlightsOf(h) : flights'[r] = flights[r]
      BY <1>6, <2>1, <2>2, <2>4
    <3> QED BY <1>3, <2>3, <2>4, <3>1, <3>2, LockHeldSame
  <2>5. CASE h = x
    <3>1. s \in FlightsOf(h)
      BY <2>1, <2>2, <2>5, FlightTyped
    <3>2. FlightsOf(h) = {s} /\ unsettled[h] = 0
      BY <1>3, <3>1 DEF LockHeld
    <3>3. FlightsOf(h)' = {}
      BY <1>6, <2>1, <3>2
    <3>4. CASE SettlePanics(s)
      <4>1. UNCHANGED queue /\ unsettled'[h] = unsettled[h] + f.paid
        BY <2>2, <2>5, <3>4 DEF SettlePanics, contractVars, TypeOK
      <4>2. PICK t \in Locked(queue[h]) :
               t.withdrawal_amount = f.amount_to_send + f.storage_to_pay
        BY <1>3, <3>1 DEF LockHeld
      <4>3. f.paid \in Nat
        BY <2>1, FlightTyped
      <4>4. unsettled'[h] <= t.withdrawal_amount
        BY <2>1, <3>2, <4>1, <4>2, <4>3 DEF PaidRight
      <4>5. t \in Locked(queue[h])'
        BY <4>1, <4>2 DEF Locked
      <4> QED BY <3>3, <4>4, <4>5 DEF LockHeld
    <3>5. CASE Settle(s) \/ SettleFailed(s)
      <4>1. unsettled'[h] = 0
        BY <3>2, <3>5 DEF Settle, SettleFailed, ghostVars
      <4> QED BY <3>3, <4>1 DEF LockHeld
    <3> QED BY <1>12, <3>4, <3>5 DEF Callback
  <2> QED BY <2>4, <2>5
<1>13. ASSUME NEW x \in Hashes, ForceReleaseLock(x)
       PROVE  LockHeld(h)'
  <2>1. /\ queue' = [queue EXCEPT ![x] = Released(@)]
        /\ UNCHANGED <<unsettled, flights>>
        /\ forced' = IF Settled(x) THEN forced ELSE forced \cup {x}
    BY <1>13 DEF ForceReleaseLock, chainVars
  <2>2. \A y \in Hashes : y # x => queue'[y] = queue[y]
    BY <2>1, ReleaseQueue
  <2>3. CASE h # x
    BY <1>5, <2>1, <2>2, <2>3
  <2>4. CASE h = x
    <3>1. FlightsOf(h) = {} /\ unsettled[h] = 0
      BY <1>1, <2>1, <2>4 DEF Settled
    <3>2. FlightsOf(h)' = {} /\ unsettled'[h] = 0
      BY <2>1, <3>1, FlightsSame
    <3> QED BY <3>2 DEF LockHeld
  <2> QED BY <2>3, <2>4
<1>14. CASE RefundArrives \/ SyncRewards \/ NextEpoch \/ UNCHANGED vars
  <2>1. UNCHANGED <<queue, unsettled, flights>>
    BY <1>14 DEF RefundArrives, SyncRewards, NextEpoch, vars, contractVars,
                 chainVars, ghostVars
  <2> QED BY <1>5, <2>1
<1> QED
  BY <1>7, <1>8, <1>10, <1>11, <1>12, <1>13, <1>14 DEF Next, Deliver

(* Init.                                                                    *)
LEMMA LedgerInit == Init => LedgerInv
<1> SUFFICES ASSUME Init PROVE LedgerInv
  OBVIOUS
<1>1. IInv
  BY InitInv
<1>2. InFlight = {} /\ \A h : FlightsOf(h) = {}
  BY DEF Init, InFlight, FlightsOf
<1>3. FlightsPaid
  BY <1>2 DEF FlightsPaid
<1>4. TrackerLedger
  <2>1. Sum(InFlight, Outstanding) = 0
    BY <1>2, TotalEmpty DEF Sum
  <2> QED BY <2>1, WithdrawalsAssumption DEF Init, TrackerLedger
<1>5. ClaimLedger
  <2>1. \A h \in Hashes : Total([s \in FlightsOf(h) |-> flights[s].paid]) = 0
    BY <1>2, TotalEmpty
  <2>2. \A h \in Hashes : Claim(h) = 0
    BY NoTranche DEF Init, Claim
  <2> QED BY <2>1, <2>2 DEF Init, ClaimLedger
<1>6. LocksHeld
  BY <1>2 DEF Init, LocksHeld, LockHeld
<1> QED
  BY <1>1, <1>3, <1>4, <1>5, <1>6 DEF LedgerInv

(* Every step keeps the ledgers of the tracker and of the claims.           *)
LEMMA LedgerNext == LedgerInv /\ [Next]_vars => LedgerInv'
<1> SUFFICES ASSUME LedgerInv, [Next]_vars PROVE LedgerInv'
  OBVIOUS
<1>1. IInv /\ FlightsPaid /\ TrackerLedger /\ ClaimLedger /\ LocksHeld
  BY DEF LedgerInv
<1>2. IInv'
  BY <1>1, NextInv
<1> QED
  BY <1>1, <1>2, FlightsPaidStep, TrackerLedgerStep, ClaimLedgerStep, LocksHeldStep
     DEF LedgerInv

(* With its claim still locked, a hash cannot be paid more than it is owed. *)
LEMMA LedgerCovers == LedgerInv => NoOverpayment
<1> SUFFICES ASSUME LedgerInv, NEW h \in Hashes \ forced PROVE owed[h] >= 0
  BY DEF NoOverpayment
<1>1. /\ TypeOK /\ QueuesGood /\ FlightsPaid /\ LockHeld(h)
      /\ owed[h] = Claim(h) + lost[h] - unsettled[h] - PaidTo(h)
  BY DEF LedgerInv, IInv, LocksHeld, ClaimLedger, PaidTo
<1>2. /\ Claim(h) \in Nat /\ lost[h] \in Nat /\ unsettled[h] \in Nat
      /\ \A t \in Locked(queue[h]) : t.withdrawal_amount \in Nat
                                     /\ t.withdrawal_amount <= Claim(h)
  BY <1>1, QueueFacts DEF TypeOK
<1>3. CASE FlightsOf(h) = {}
  <2>1. PaidTo(h) = 0
    BY <1>3, TotalEmpty DEF PaidTo
  <2>2. unsettled[h] <= Claim(h)
    BY <1>1, <1>2 DEF LockHeld
  <2> QED BY <1>1, <1>2, <2>1, <2>2
<1>4. CASE FlightsOf(h) # {}
  <2>1. PICK s \in FlightsOf(h) : TRUE
    BY <1>4
  <2>2. FlightsOf(h) = {s} /\ unsettled[h] = 0
    BY <1>1, <2>1 DEF LockHeld
  <2>3. /\ flights[s].paid \in Nat
        /\ flights[s].paid <= flights[s].amount_to_send + flights[s].storage_to_pay
    BY <1>1, <2>1, FlightTyped DEF FlightsOf, InFlight, FlightsPaid, PaidRight
  <2>4. PaidTo(h) = flights[s].paid
    <3> DEFINE f == [r \in {s} |-> flights[r].paid]
    <3>1. f \in [{s} -> Nat] /\ f[s] = flights[s].paid
      BY <2>3
    <3>2. Total(f) = f[s]
      <4> HIDE DEF f
      <4> QED BY <3>1, TotalSingle
    <3> QED BY <2>2, <3>1, <3>2 DEF PaidTo
  <2>5. PICK t \in Locked(queue[h]) :
           t.withdrawal_amount = flights[s].amount_to_send + flights[s].storage_to_pay
    BY <1>1, <2>1 DEF LockHeld
  <2>6. PaidTo(h) <= Claim(h) /\ PaidTo(h) \in Nat
    BY <1>2, <2>3, <2>4, <2>5
  <2> QED BY <1>1, <1>2, <2>2, <2>6
<1> QED
  BY <1>3, <1>4

(* Only a reward sync raises the tracked total, to the account's balance.   *)
LEMMA RecognisedStep ==
  ASSUME LedgerInv, [Next]_vars, tracked' > tracked
  PROVE  tracked' - tracked <= surplus
<1>1. IInv /\ TypeOK /\ TrackerLedger
  BY DEF LedgerInv, IInv
<1>2. /\ tracked \in Nat /\ balance \in Nat /\ returning \in Nat
      /\ shortfall \in Nat /\ surplus \in Int
  BY <1>1 DEF TypeOK
<1>3. Sum(InFlight, Outstanding) \in Nat
  BY <1>1, OutstandingType
<1>4. CASE SyncRewards
  <2>1. tracked' = balance
    BY <1>4 DEF SyncRewards
  <2> QED BY <1>1, <1>2, <1>3, <2>1 DEF TrackerLedger
<1>5. ASSUME NEW s \in Slots, Settle(s)
      PROVE  ~(tracked' > tracked)
  <2>1. flights[s] # NoFlight /\ tracked' = tracked - Spent(flights[s])
    BY <1>5 DEF Settle, Landed, TrackerDebit
  <2>2. Spent(flights[s]) \in Nat
    BY <1>1, <2>1, FlightTyped
  <2> QED BY <1>2, <2>1, <2>2
<1>6. CASE tracked' = tracked
  BY <1>2, <1>6
<1>7. ASSUME NEW s \in Slots, Callback(s), ~Settle(s)
      PROVE  tracked' = tracked
  BY <1>7 DEF Callback, SettleFailed, SettlePanics, contractVars
<1>8. ASSUME NEW h \in Hashes,
             \/ \E a \in Amounts : OnUnstake(h, a)
             \/ \E s \in Slots : Withdraw(h, s)
             \/ ForceReleaseLock(h)
      PROVE  tracked' = tracked
  BY <1>8 DEF OnUnstake, Withdraw, ForceReleaseLock
<1>9. NextEpoch \/ Quiet => tracked' = tracked
  BY DEF NextEpoch, Quiet, contractVars
<1> QED
  BY <1>4, <1>5, <1>6, <1>7, <1>8, <1>9, StepCases

(* A tranche that is cooling down survives every step.                      *)
LEMMA CooldownStep ==
  ASSUME IInv, [Next]_vars, NEW h \in Hashes, NEW t \in queue[h], ~IsMatured(t)
  PROVE  \E u \in queue'[h] : /\ u.unstake_epoch = t.unstake_epoch
                              /\ u.withdrawal_amount >= t.withdrawal_amount
<1>1. GoodQueue(queue[h]) /\ epoch \in Nat /\ t \in Tranche
  BY QueueFacts DEF IInv
<1>2. ~t.locked /\ t.withdrawal_amount \in Nat
  BY <1>1 DEF GoodQueue, Tranche
<1>3. t \in queue'[h] => \E u \in queue'[h] : /\ u.unstake_epoch = t.unstake_epoch
                                  /\ u.withdrawal_amount >= t.withdrawal_amount
  BY <1>2
<1>4. \A lock : t \in Collapsed(queue[h], lock)
  BY <1>1 DEF Collapsed, Matured
<1>5. ASSUME NEW x \in Hashes, NEW a \in Amounts, OnUnstake(x, a)
      PROVE  \E u \in queue'[h] : /\ u.unstake_epoch = t.unstake_epoch
                                  /\ u.withdrawal_amount >= t.withdrawal_amount
  <2> DEFINE R == Collapsed(queue[h], FALSE)
             A == Appended(queue[h], a)
  <2>1. /\ queue'[x] = Appended(queue[x], a) /\ a \in Nat
        /\ \A y \in Hashes : y # x => queue'[y] = queue[y]
    BY <1>5, UnstakeQueue
  <2>2. CASE h # x
    BY <1>3, <2>1, <2>2
  <2>3. CASE h = x
    <3>1. \/ A = R \cup {NewTranche(a, epoch)}
          \/ \E v \in R : A = (R \ {v}) \cup {[v EXCEPT !.withdrawal_amount = @ + a]}
      BY <1>1, <2>1, AppendedParts
    <3>2. t \in R
      BY <1>4
    <3>3. queue'[h] = A
      BY <2>1, <2>3
    <3> HIDE DEF R, A
    <3>4. CASE t \in A
      BY <1>3, <3>3, <3>4
    <3>5. CASE t \notin A
      <4>1. [t EXCEPT !.withdrawal_amount = @ + a] \in A
        BY <3>1, <3>2, <3>5
      <4>2. /\ [t EXCEPT !.withdrawal_amount = @ + a].unstake_epoch = t.unstake_epoch
            /\ [t EXCEPT !.withdrawal_amount = @ + a].withdrawal_amount >= t.withdrawal_amount
        BY <1>1, <1>2, <2>1 DEF Tranche
      <4> QED BY <3>3, <4>1, <4>2
    <3> QED BY <3>4, <3>5
  <2> QED BY <2>2, <2>3
<1>6. ASSUME NEW x \in Hashes, NEW s \in Slots, Withdraw(x, s)
      PROVE  t \in queue'[h]
  BY <1>4, <1>6, WithdrawQueue
<1>7. ASSUME NEW s \in Slots, Callback(s)
      PROVE  t \in queue'[h]
  <2>1. flights[s] # NoFlight /\ flights[s].hash \in Hashes
    BY <1>7, FlightTyped DEF IInv, Callback, Settle, SettleFailed, SettlePanics, Landed
  <2>2. PICK x \in Hashes : x = flights[s].hash
    BY <2>1
  <2>3. CASE Settle(s)
    BY <1>2, <2>2, <2>3, SettleQueue DEF SettledQueue
  <2>4. CASE SettleFailed(s)
    <3>1. queue' = [queue EXCEPT ![x] = Released(@)]
      BY <2>2, <2>4 DEF SettleFailed
    <3> QED BY <1>2, <3>1, ReleaseQueue DEF Released
  <2>5. CASE SettlePanics(s)
    BY <2>5 DEF SettlePanics, contractVars
  <2> QED BY <1>7, <2>3, <2>4, <2>5 DEF Callback
<1>8. ASSUME NEW x \in Hashes, ForceReleaseLock(x)
      PROVE  t \in queue'[h]
  <2>1. queue' = [queue EXCEPT ![x] = Released(@)]
    BY <1>8 DEF ForceReleaseLock
  <2> QED BY <1>2, <2>1, ReleaseQueue DEF Released
<1>9. CASE UNCHANGED queue
  BY <1>3, <1>9
<1> QED
  BY <1>3, <1>5, <1>6, <1>7, <1>8, <1>9, StepCases
     DEF SyncRewards, NextEpoch, Quiet, contractVars

(* A locked tranche survives every step but the end of its flight and the   *)
(* release of its lock.                                                     *)
LEMMA LockedStep ==
  ASSUME IInv, [Next]_vars, NEW h \in Hashes, NEW t \in Locked(queue[h])
  PROVE  \/ t \in queue'[h]
         \/ [t EXCEPT !.locked = FALSE] \in queue'[h]
         \/ \E s \in FlightsOf(h) : flights'[s] = NoFlight
<1>1. GoodQueue(queue[h]) /\ epoch \in Nat /\ t \in queue[h]
  BY QueueFacts DEF IInv
<1>2. ASSUME NEW x \in Hashes, NEW a \in Amounts, OnUnstake(x, a)
      PROVE  t \in queue'[h]
  <2>1. /\ queue'[x] = Appended(queue[x], a) /\ a \in Nat
        /\ \A y \in Hashes : y # x => queue'[y] = queue[y]
    BY <1>2, UnstakeQueue
  <2>2. Locked(Appended(queue[h], a)) = Locked(queue[h])
    BY <1>1, <2>1, AppendedLocked
  <2>3. t \in Appended(queue[h], a)
    BY <2>2 DEF Locked
  <2> QED BY <1>1, <2>1, <2>3
<1>3. ASSUME NEW x \in Hashes, NEW s \in Slots, Withdraw(x, s)
      PROVE  t \in queue'[h]
  BY <1>1, <1>3, WithdrawQueue
<1>4. ASSUME NEW s \in Slots, Callback(s)
      PROVE  t \in queue'[h] \/ \E r \in FlightsOf(h) : flights'[r] = NoFlight
  <2>1. /\ flights[s] # NoFlight /\ flights[s].hash \in Hashes
        /\ s \in FlightsOf(flights[s].hash) /\ flights'[s] = NoFlight
    BY <1>4, FlightTyped
       DEF IInv, TypeOK, Callback, Settle, SettleFailed, SettlePanics, Landed
  <2>2. PICK x \in Hashes : x = flights[s].hash
    BY <2>1
  <2>3. CASE h = x
    BY <2>1, <2>2, <2>3
  <2>4. CASE h # x
    <3>1. CASE Settle(s)
      BY <1>1, <2>2, <2>4, <3>1, SettleQueue
    <3>2. CASE SettleFailed(s)
      <4>1. queue' = [queue EXCEPT ![x] = Released(@)]
        BY <2>2, <3>2 DEF SettleFailed
      <4> QED BY <1>1, <2>4, <4>1, ReleaseQueue
    <3>3. CASE SettlePanics(s)
      BY <1>1, <3>3 DEF SettlePanics, contractVars
    <3> QED BY <1>4, <3>1, <3>2, <3>3 DEF Callback
  <2> QED BY <2>3, <2>4
<1>5. ASSUME NEW x \in Hashes, ForceReleaseLock(x)
      PROVE  t \in queue'[h] \/ [t EXCEPT !.locked = FALSE] \in queue'[h]
  <2>1. queue' = [queue EXCEPT ![x] = Released(@)]
    BY <1>5 DEF ForceReleaseLock
  <2>2. /\ queue'[x] = Released(queue[x])
        /\ \A y \in Hashes : y # x => queue'[y] = queue[y]
    BY <2>1, ReleaseQueue
  <2>3. [t EXCEPT !.locked = FALSE] \in Released(queue[h])
    BY DEF Released
  <2> QED BY <1>1, <2>2, <2>3
<1>6. CASE UNCHANGED queue
  BY <1>1, <1>6
<1> QED
  BY <1>2, <1>3, <1>4, <1>5, <1>6, StepCases
     DEF SyncRewards, NextEpoch, Quiet, contractVars

-----------------------------------------------------------------------------
(* Theorems that hold whatever the admin does.                              *)

(* The ledgers hold in every reachable state, with or without verified      *)
(* releases and readable answers.                                           *)
THEOREM LedgerInvariance == Spec => []LedgerInv
BY LedgerInit, LedgerNext, PTL DEF Spec

(* latest_total_balance differs from the account's balance by exactly the   *)
(* NEAR in transit, unbooked or unrecognised: no settlement books NEAR that *)
(* has not left, and none that has left is booked twice.                    *)
THEOREM TrackerIsExact == Spec => []TrackerLedger
<1>1. LedgerInv => TrackerLedger
  BY DEF LedgerInv
<1> QED
  BY <1>1, LedgerInvariance, PTL

(* The withdrawal queue of a hash is exact: what its beneficiary is owed is *)
(* what is queued, corrected by the deliveries that are not booked.         *)
THEOREM ClaimsAreExact == Spec => []ClaimLedger
<1>1. LedgerInv => ClaimLedger
  BY DEF LedgerInv
<1> QED
  BY <1>1, LedgerInvariance, PTL

(* Nobody is paid more than was unstaked for them: withdraw pays only what  *)
(* it has locked, and a settlement that panics keeps it locked.             *)
THEOREM NobodyIsOverpaid == Spec => []NoOverpayment
BY LedgerCovers, LedgerInvariance, PTL

(* sync_rewards_internal never distributes NEAR that is merely in transit.  *)
THEOREM OnlyEarnedIsShared == Spec => RecognisedIsEarned
<1>1. LedgerInv /\ [Next]_vars =>
        [tracked' > tracked => tracked' - tracked <= surplus]_vars
  BY RecognisedStep
<1> QED
  BY <1>1, LedgerInvariance, PTL DEF Spec, RecognisedIsEarned

(* No append_request, collapse_matured_tranches or settlement shrinks or    *)
(* delays a tranche that is cooling down.                                   *)
THEOREM CoolingIsIndependent == Spec => CooldownIndependence
<1>1. IInv /\ [Next]_vars =>
        [\A h \in Hashes : \A t \in queue[h] :
           ~IsMatured(t) =>
             \E u \in queue'[h] : /\ u.unstake_epoch = t.unstake_epoch
                                  /\ u.withdrawal_amount >= t.withdrawal_amount]_vars
  BY CooldownStep
<1> QED
  BY <1>1, Invariance, PTL DEF Spec, CooldownIndependence

(* The tranche that withdraw has locked stays as it is until its callback   *)
(* or force_release_lock.                                                   *)
THEOREM LockedIsUntouched == Spec => LockedUntouched
<1>1. IInv /\ [Next]_vars =>
        [\A h \in Hashes : \A t \in Locked(queue[h]) :
           \/ t \in queue'[h]
           \/ [t EXCEPT !.locked = FALSE] \in queue'[h]
           \/ \E s \in FlightsOf(h) : flights'[s] = NoFlight]_vars
  BY LockedStep
<1> QED
  BY <1>1, Invariance, PTL DEF Spec, LockedUntouched

-----------------------------------------------------------------------------
(* What stands behind the claims while every settlement meets its own       *)
(* withdrawal.                                                              *)

(* While a tranche is locked, all the residual of its queue is its own.     *)
LEMMA LockedResidual ==
  ASSUME NEW Q, GoodQueue(Q), NEW t \in Locked(Q), NEW call, NEW wants,
         SoundQueue(Q, call, wants)
  PROVE  /\ ResidualOf(Q) = t.wnear_residual
         /\ ResidualOf(Q \ {t}) = 0
<1>1. /\ Q \subseteq Tranche /\ IsFiniteSet(Q) /\ {t} \in SUBSET Q /\ t \in Tranche
      /\ t.locked
  BY DEF GoodQueue, Locked
<1>2. \A u \in Q \ {t} : u.wnear_residual = 0
  BY <1>1 DEF SoundQueue
<1>3. ResidualOf(Q \ {t}) = 0
  BY <1>2, ResidualNone
<1>4. ResidualOf(Q) = ResidualOf({t}) + ResidualOf(Q \ {t})
  BY <1>1, ResidualSplit
<1>5. ResidualOf({t}) = t.wnear_residual /\ t.wnear_residual \in Nat
  BY <1>1, OneTranche DEF Tranche
<1> QED
  BY <1>3, <1>4, <1>5

(* A settlement that meets the tranche its flight was sent for keeps the    *)
(* queue sound: what was sent and not consumed is the new residual, and it  *)
(* is all that remains of the tranche.                                      *)
LEMMA SettledSound ==
  ASSUME epoch \in Nat, NEW Q, GoodQueue(Q), NEW f \in Flight,
         NEW t \in Locked(Q), SentFor(f, t), Booked(f) <= t.withdrawal_amount,
         SoundQueue(Q, Kind[f.hash] = "call", WantsStorage[f.hash])
  PROVE  /\ SoundQueue(SettledQueue(f, Q), Kind[f.hash] = "call", WantsStorage[f.hash])
         /\ ResidualOf(SettledQueue(f, Q)) = f.amount_to_send - Consumed(f)
<1> DEFINE u == Remainder(f, t)
           rest == f.amount_to_send - Consumed(f)
<1>1. /\ t \in Q /\ t.locked /\ t \in Tranche /\ t.withdrawal_amount \in Nat
      /\ t.unstake_epoch \in Nat /\ t.storage_was_paid \in BOOLEAN
  BY DEF Locked, GoodQueue, Tranche
<1>2. /\ f.hash \in Hashes /\ f.amount_to_send \in Nat /\ f.storage_to_pay \in Nat
      /\ Consumed(f) \in Nat /\ Booked(f) \in Nat /\ rest \in Nat
  BY BookedType DEF Flight
<1>3. Booked(f) = Consumed(f) + f.storage_to_pay
  BY DEF Booked
<1>4. /\ StorageToPay(f.hash, t) \in Nat
      /\ f.amount_to_send = t.withdrawal_amount - f.storage_to_pay
      /\ f.storage_to_pay = StorageToPay(f.hash, t)
  BY <1>2, WithdrawalsAssumption DEF SentFor, AmountToSend, StorageToPay
<1>5. rest = t.withdrawal_amount - Booked(f)
  BY <1>1, <1>2, <1>3, <1>4
<1>6. {v \in Q : ~v.locked} = Q \ {t} /\ \A v \in Locked(Q) : v = t
  BY <1>1 DEF GoodQueue, Locked
<1>7. \A v \in Q \ {t} : /\ 0 < v.withdrawal_amount /\ v.wnear_residual = 0
                         /\ v.wnear_residual <= v.withdrawal_amount /\ ~v.locked
                         /\ ~IsMatured(v) => ~v.storage_was_paid
  BY <1>1, <1>6 DEF SoundQueue
<1>8. ResidualOf(Q \ {t}) = 0
  BY LockedResidual
<1>9. IsMatured(t)
  BY <1>1 DEF GoodQueue
<1> HIDE DEF rest
<1>10. CASE t.withdrawal_amount = Booked(f)
  <2>1. SettledQueue(f, Q) = Q \ {t}
    BY <1>6, <1>10 DEF SettledQueue
  <2>2. rest = 0
    BY <1>1, <1>5, <1>10
  <2>3. SoundQueue(Q \ {t}, Kind[f.hash] = "call", WantsStorage[f.hash])
    BY <1>7 DEF SoundQueue
  <2> QED BY <1>8, <2>1, <2>2, <2>3 DEF rest
<1>11. CASE t.withdrawal_amount # Booked(f)
  <2>1. {Remainder(f, v) : v \in {w \in Locked(Q) : w.withdrawal_amount # Booked(f)}} = {u}
    BY <1>6, <1>11
  <2>2. SettledQueue(f, Q) = (Q \ {t}) \cup {u}
    BY <1>6, <2>1 DEF SettledQueue
  <2>3. /\ u.withdrawal_amount = rest /\ u.wnear_residual = rest /\ ~u.locked
        /\ u.unstake_epoch = t.unstake_epoch
        /\ u.storage_was_paid = (t.storage_was_paid \/ f.storage_to_pay > 0)
    BY <1>5 DEF Remainder, rest
  <2>4. 0 < rest
    BY <1>1, <1>2, <1>5, <1>11 DEF rest
  <2>5. Kind[f.hash] = "call"
    BY <1>2, <2>4 DEF rest, Consumed, IsCall
  <2>6. WantsStorage[f.hash] => u.storage_was_paid
    <3>1. StorageCost \in Nat /\ 0 < StorageCost
      BY WithdrawalsAssumption
    <3>2. WantsStorage[f.hash] /\ ~t.storage_was_paid => f.storage_to_pay > 0
      BY <1>4, <2>5, <3>1 DEF StorageToPay
    <3> QED BY <2>3, <3>2
  <2>7. IsMatured(u)
    BY <1>9, <2>3 DEF IsMatured
  <2>8. u \in Tranche
    <3>1. rest \in Nat
      BY <1>2 DEF rest
    <3>2. (t.storage_was_paid \/ f.storage_to_pay > 0) \in BOOLEAN
      OBVIOUS
    <3> QED BY <1>1, <1>5, <3>1, <3>2 DEF Remainder, Tranche, rest
  <2>9. u \notin Q \ {t}
    BY <1>1, <2>3 DEF GoodQueue
  <2> HIDE DEF u
  <2>10. SoundQueue((Q \ {t}) \cup {u}, Kind[f.hash] = "call", WantsStorage[f.hash])
    BY <1>2, <1>7, <2>3, <2>4, <2>5, <2>6, <2>7 DEF SoundQueue, rest
  <2>11. ResidualOf((Q \ {t}) \cup {u}) = rest
    <3> DEFINE P == Q \ {t}
               R == P \cup {u}
    <3>1. P \subseteq Tranche /\ IsFiniteSet(P)
      BY FS_Difference DEF GoodQueue
    <3>2. R \subseteq Tranche /\ IsFiniteSet(R) /\ P \ {u} = R \ {u} /\ u \in R /\ u \notin P
      BY <2>8, <2>9, <3>1, FS_AddElement
    <3> HIDE DEF P, R
    <3>3. ResidualOf(R) = ResidualOf(P) - (IF u \in P THEN u.wnear_residual ELSE 0)
                                        + (IF u \in R THEN u.wnear_residual ELSE 0)
      BY <3>1, <3>2, TrancheMove
    <3>4. ResidualOf(R) = 0 - 0 + rest
      BY <1>8, <2>3, <3>2, <3>3 DEF P
    <3> QED BY <1>2, <3>4 DEF P, R, rest
  <2> QED BY <2>2, <2>10, <2>11 DEF rest
<1> QED
  BY <1>10, <1>11

(* A state in which every settlement will meet its own withdrawal.          *)
Calm == LedgerInv /\ forced = {} /\ FlightsMatch /\ QueuesSound

(* What a hash's queue is while no lock was released by force.              *)
LEMMA CalmHash ==
  ASSUME Calm, NEW h \in Hashes
  PROVE  /\ IInv /\ LockHeld(h) /\ epoch \in Nat /\ GoodQueue(queue[h])
         /\ SoundQueue(queue[h], Kind[h] = "call", WantsStorage[h])
         /\ queue[h] \subseteq Tranche /\ IsFiniteSet(queue[h])
         /\ ResidualOf(queue[h]) \in Nat /\ Residual(h) = ResidualOf(queue[h])
         /\ unsettled[h] \in Nat
<1>1. IInv /\ LockHeld(h) /\ SoundQueue(queue[h], Kind[h] = "call", WantsStorage[h])
  BY DEF Calm, LedgerInv, LocksHeld, QueuesSound
<1>2. /\ epoch \in Nat /\ GoodQueue(queue[h])
      /\ queue[h] \subseteq Tranche /\ IsFiniteSet(queue[h])
  BY <1>1, QueueFacts DEF IInv
<1>3. ResidualOf(queue[h]) \in Nat
  BY <1>2, ResidualType
<1> QED
  BY <1>1, <1>2, <1>3 DEF Residual, IInv, TypeOK

(* The flight of a hash is its only one, and its claim is locked for it.    *)
LEMMA CalmFlight ==
  ASSUME Calm, NEW s \in Slots, flights[s] # NoFlight,
         NEW h \in Hashes, h = flights[s].hash
  PROVE  /\ FlightsOf(h) = {s} /\ unsettled[h] = 0 /\ PaidRight(flights[s])
         /\ \E t \in Locked(queue[h]) :
              /\ SentFor(flights[s], t) /\ t \in Tranche /\ Locked(queue[h]) = {t}
              /\ t \in queue[h] /\ t.wnear_residual \in Nat
              /\ ResidualOf(queue[h]) = t.wnear_residual
              /\ t.withdrawal_amount = flights[s].amount_to_send + flights[s].storage_to_pay
              /\ Kind[h] # "call" => t.wnear_residual = 0
<1>1. IInv /\ TypeOK /\ QueuesGood /\ FlightsPaid /\ FlightsMatch
  BY DEF Calm, LedgerInv, IInv
<1>2. s \in FlightsOf(h) /\ s \in InFlight
  BY <1>1, FlightTyped
<1>3. LockHeld(h) /\ SoundQueue(queue[h], Kind[h] = "call", WantsStorage[h])
      /\ GoodQueue(queue[h])
  BY CalmHash
<1>4. FlightsOf(h) = {s} /\ unsettled[h] = 0 /\ PaidRight(flights[s])
  BY <1>1, <1>2, <1>3 DEF LockHeld, FlightsPaid
<1>5. PICK t \in Locked(queue[h]) : SentFor(flights[s], t)
  BY <1>1, <1>2 DEF FlightsMatch
<1>6. t \in Tranche /\ Locked(queue[h]) = {t} /\ t \in queue[h]
  BY <1>1, <1>5, QueueFacts
<1>7. t.wnear_residual \in Nat
  BY <1>6 DEF Tranche
<1>8. ResidualOf(queue[h]) = t.wnear_residual
  BY <1>3, <1>5, LockedResidual
<1>9. t.withdrawal_amount = flights[s].amount_to_send + flights[s].storage_to_pay
  BY <1>2, <1>3, <1>5, <1>6 DEF LockHeld
<1>10. Kind[h] # "call" => t.wnear_residual = 0
  BY <1>3, <1>6, <1>7 DEF SoundQueue
<1> QED
  BY <1>4, <1>5, <1>6, <1>7, <1>8, <1>9, <1>10

(* What each step does to the residual of the queue it changes.             *)
LEMMA UnstakeSound ==
  ASSUME Calm, NEW h \in Hashes, NEW a \in Amounts, OnUnstake(h, a)
  PROVE  /\ SoundQueue(queue'[h], Kind[h] = "call", WantsStorage[h])
         /\ ResidualOf(queue'[h]) = ResidualOf(queue[h])
         /\ \A x \in Hashes : x # h => queue'[x] = queue[x]
         /\ Locked(queue'[h]) = Locked(queue[h])
<1>1. /\ IInv /\ epoch \in Nat /\ GoodQueue(queue[h])
      /\ SoundQueue(queue[h], Kind[h] = "call", WantsStorage[h])
  BY CalmHash
<1>2. /\ queue'[h] = Appended(queue[h], a) /\ a \in Nat /\ 0 < a
      /\ \A x \in Hashes : x # h => queue'[x] = queue[x]
  BY <1>1, UnstakeQueue
<1>3. /\ SoundQueue(Appended(queue[h], a), Kind[h] = "call", WantsStorage[h])
      /\ ResidualOf(Appended(queue[h], a)) = ResidualOf(queue[h])
  BY <1>1, <1>2, SoundAppended
<1>4. Locked(Appended(queue[h], a)) = Locked(queue[h])
  BY <1>1, <1>2, AppendedLocked
<1> QED
  BY <1>2, <1>3, <1>4

(* withdraw keeps a sound queue sound, and its residual in full.            *)
LEMMA WithdrawSound ==
  ASSUME Calm, NEW h \in Hashes, NEW s \in Slots, Withdraw(h, s)
  PROVE  /\ SoundQueue(queue'[h], Kind[h] = "call", WantsStorage[h])
         /\ ResidualOf(queue'[h]) = ResidualOf(queue[h])
         /\ \A x \in Hashes : x # h => queue'[x] = queue[x]
         /\ FlightsOf(h) = {} /\ unsettled[h] = 0
         /\ \E t \in Locked(queue'[h]) : SentFor(flights'[s], t)
<1> DEFINE t == Merged(Matured(queue[h]), TRUE)
           C == Collapsed(queue[h], TRUE)
<1>1. /\ IInv /\ epoch \in Nat /\ GoodQueue(queue[h]) /\ LockHeld(h)
      /\ SoundQueue(queue[h], Kind[h] = "call", WantsStorage[h])
      /\ unsettled[h] \in Nat
  BY CalmHash
<1>2. /\ queue'[h] = C /\ Locked(queue[h]) = {} /\ Locked(queue'[h]) = {t}
      /\ \A x \in Hashes : x # h => queue'[x] = queue[x]
  BY <1>1, WithdrawQueue
<1>3. \A u \in queue[h] : ~u.locked
  BY <1>2 DEF Locked
<1>4. /\ SoundQueue(C, Kind[h] = "call", WantsStorage[h])
      /\ ResidualOf(C) = ResidualOf(queue[h])
  BY <1>1, <1>3, SoundCollapsed
<1>5. FlightsOf(h) = {} /\ unsettled[h] = 0
  BY <1>1, <1>2 DEF LockHeld
<1>6. /\ flights'[s] = NewFlight(h, t) /\ CanSend(h, t) /\ t \in Tranche
  BY <1>1, SentFlight
<1>7. t \in C
  BY <1>2 DEF Locked
<1> HIDE DEF C, t
<1>8. t.wnear_residual \in Nat /\ t.withdrawal_amount \in Nat
      /\ t.storage_was_paid \in BOOLEAN
  BY <1>6 DEF Tranche
<1>9. Kind[h] # "call" => t.wnear_residual = 0
  BY <1>4, <1>7, <1>8 DEF SoundQueue
<1>10. AmountToSend(h, t) \in Nat
  <2>1. CASE Kind[h] = "native"
    BY <1>8, <2>1 DEF AmountToSend, StorageToPay
  <2>2. CASE Kind[h] # "native"
    <3>1. AmountToSend(h, t) >= 0
      BY <1>6, <2>2 DEF CanSend
    <3>2. AmountToSend(h, t) \in Int
      BY <1>8, WithdrawalsAssumption DEF AmountToSend, StorageToPay
    <3> QED BY <3>1, <3>2
  <2> QED BY <2>1, <2>2
<1>11. SentFor(NewFlight(h, t), t)
  <2> DEFINE f == NewFlight(h, t)
             A == AmountToSend(h, t)
  <2>1. /\ f.amount_to_send = A /\ f.storage_to_pay = StorageToPay(h, t)
        /\ f.hash = h
        /\ f.cost = IF Kind[h] = "native" THEN A
                    ELSE NearToDeposit(h, t) + TransferDeposit(h)
    BY DEF NewFlight
  <2>2. NearToDeposit(h, t) = A - t.wnear_residual
    BY DEF NearToDeposit
  <2>3. Kind[h] # "native" => t.wnear_residual <= A
    <3>1. Kind[h] # "native" => NearToDeposit(h, t) >= 0
      BY <1>6 DEF CanSend
    <3> HIDE DEF A
    <3> QED BY <1>8, <1>10, <2>2, <3>1 DEF A
  <2> HIDE DEF f
  <2>4. Kind[h] = "native" => t.wnear_residual = 0 /\ TransferDeposit(h) = 0
    BY <1>9 DEF TransferDeposit
  <2> HIDE DEF A
  <2>5. /\ f.cost = A - t.wnear_residual + TransferDeposit(h)
        /\ t.wnear_residual <= A
    BY <1>8, <1>10, <2>1, <2>2, <2>3, <2>4 DEF A
  <2> QED BY <2>1, <2>5 DEF SentFor, f, A
<1> QED
  BY <1>2, <1>4, <1>5, <1>6, <1>11

(* A settlement leaves a sound queue whose residual is the part of the      *)
(* wNEAR that the transfer did not consume.                                 *)
LEMMA SettleSound ==
  ASSUME Calm, NEW s \in Slots, Settle(s), NEW h \in Hashes, h = flights[s].hash
  PROVE  /\ SoundQueue(queue'[h], Kind[h] = "call", WantsStorage[h])
         /\ ResidualOf(queue'[h]) = flights[s].amount_to_send - Consumed(flights[s])
         /\ \A x \in Hashes : x # h => queue'[x] = queue[x]
<1> DEFINE f == flights[s]
<1>1. /\ IInv /\ epoch \in Nat /\ GoodQueue(queue[h])
      /\ SoundQueue(queue[h], Kind[h] = "call", WantsStorage[h])
  BY CalmHash
<1>2. f # NoFlight
  BY DEF Settle, Landed
<1>3. f \in Flight
  BY <1>1, <1>2, FlightTyped DEF IInv
<1>4. PICK t \in Locked(queue[h]) : SentFor(f, t) /\ Locked(queue[h]) = {t}
  BY <1>2, CalmFlight
<1>5. /\ queue'[h] = SettledQueue(f, queue[h])
      /\ \A x \in Hashes : x # h => queue'[x] = queue[x]
      /\ \E u \in Locked(queue[h]) : Booked(f) <= u.withdrawal_amount
  BY <1>1, SettleQueue
<1>6. Booked(f) <= t.withdrawal_amount
  BY <1>4, <1>5
<1>7. h = f.hash
  OBVIOUS
<1> HIDE DEF f
<1>8. /\ SoundQueue(SettledQueue(f, queue[h]), Kind[h] = "call", WantsStorage[h])
      /\ ResidualOf(SettledQueue(f, queue[h])) = f.amount_to_send - Consumed(f)
  BY <1>1, <1>3, <1>4, <1>6, <1>7, SettledSound
<1> QED
  BY <1>5, <1>8 DEF f

(* A release keeps a sound queue sound, and its residual in full.           *)
LEMMA ReleaseSound ==
  ASSUME Calm, NEW h \in Hashes, queue' = [queue EXCEPT ![h] = Released(@)]
  PROVE  /\ SoundQueue(queue'[h], Kind[h] = "call", WantsStorage[h])
         /\ ResidualOf(queue'[h]) = ResidualOf(queue[h])
         /\ \A x \in Hashes : x # h => queue'[x] = queue[x]
<1>1. /\ IInv /\ epoch \in Nat /\ GoodQueue(queue[h])
      /\ SoundQueue(queue[h], Kind[h] = "call", WantsStorage[h])
  BY CalmHash
<1>2. /\ queue'[h] = Released(queue[h])
      /\ \A x \in Hashes : x # h => queue'[x] = queue[x]
  BY <1>1, ReleaseQueue
<1>3. /\ SoundQueue(Released(queue[h]), Kind[h] = "call", WantsStorage[h])
      /\ ResidualOf(Released(queue[h])) = ResidualOf(queue[h])
  BY <1>1, SoundReleased
<1> QED
  BY <1>2, <1>3

(* Every step keeps the queues sound.                                       *)
LEMMA QueuesSoundStep ==
  ASSUME Calm, [Next]_vars
  PROVE  QueuesSound'
<1>1. \A x \in Hashes : SoundQueue(queue[x], Kind[x] = "call", WantsStorage[x])
  BY CalmHash
<1>2. ASSUME NEW h \in Hashes, epoch' = epoch,
             SoundQueue(queue'[h], Kind[h] = "call", WantsStorage[h]),
             \A x \in Hashes : x # h => queue'[x] = queue[x]
      PROVE  QueuesSound'
  <2>1. \A x \in Hashes : SoundQueue(queue'[x], Kind[x] = "call", WantsStorage[x])
    BY <1>1, <1>2
  <2> QED BY <1>2, <2>1 DEF QueuesSound, SoundQueue, IsMatured
<1>3. CASE UNCHANGED <<queue, epoch>>
  BY <1>1, <1>3 DEF QueuesSound, SoundQueue, IsMatured
<1>4. CASE NextEpoch
  <2>1. UNCHANGED queue /\ epoch' = epoch + 1
    BY <1>4 DEF NextEpoch, contractVars
  <2>2. ASSUME NEW x \in Hashes, NEW t \in queue[x], ~IsMatured(t)'
        PROVE  ~IsMatured(t)
    <3>1. epoch \in Nat /\ t \in Tranche
      BY CalmHash
    <3>2. t.unstake_epoch \in Nat /\ Cooldown \in Nat
      BY <3>1, CooldownAssumption DEF Tranche
    <3> QED BY <2>1, <2>2, <3>1, <3>2 DEF IsMatured
  <2> QED BY <1>1, <2>1, <2>2 DEF QueuesSound, SoundQueue
<1>5. ASSUME NEW h \in Hashes, NEW a \in Amounts, OnUnstake(h, a) PROVE QueuesSound'
  BY <1>2, <1>5, UnstakeSound DEF OnUnstake, chainVars
<1>6. ASSUME NEW h \in Hashes, NEW s \in Slots, Withdraw(h, s) PROVE QueuesSound'
  BY <1>2, <1>6, WithdrawSound DEF Withdraw
<1>7. ASSUME NEW h \in Hashes, ForceReleaseLock(h) PROVE QueuesSound'
  <2>1. queue' = [queue EXCEPT ![h] = Released(@)] /\ epoch' = epoch
    BY <1>7 DEF ForceReleaseLock, chainVars
  <2> QED BY <1>2, <2>1, ReleaseSound
<1>8. ASSUME NEW s \in Slots, Callback(s) PROVE QueuesSound'
  <2>1. flights[s] # NoFlight /\ IInv
    BY <1>8 DEF Calm, LedgerInv, Callback, Settle, SettleFailed, SettlePanics, Landed
  <2>2. PICK h \in Hashes : h = flights[s].hash
    BY <2>1, FlightTyped DEF IInv
  <2>3. CASE Settle(s)
    BY <1>2, <2>2, <2>3, SettleSound DEF Settle
  <2>4. CASE SettleFailed(s)
    <3>1. queue' = [queue EXCEPT ![h] = Released(@)] /\ epoch' = epoch
      BY <2>2, <2>4 DEF SettleFailed
    <3> QED BY <1>2, <3>1, ReleaseSound
  <2>5. CASE SettlePanics(s)
    BY <1>3, <2>5 DEF SettlePanics, contractVars
  <2> QED BY <1>8, <2>3, <2>4, <2>5 DEF Callback
<1> QED
  BY <1>3, <1>4, <1>5, <1>6, <1>7, <1>8, StepCases
     DEF SyncRewards, Quiet, contractVars, chainVars

(* Every step keeps a locked tranche for each flight, the one it was sent   *)
(* for; a release that waits for the settlement finds no flight.            *)
LEMMA FlightsMatchStep ==
  ASSUME Calm, [Next]_vars, forced' = {}
  PROVE  FlightsMatch'
<1>1. IInv /\ TypeOK /\ FlightsPaid /\ FlightsMatch /\ forced = {}
  BY DEF Calm, LedgerInv, IInv
<1>2. ASSUME NEW r \in Slots, flights[r] # NoFlight,
             flights'[r].hash = flights[r].hash, flights'[r].cost = flights[r].cost,
             flights'[r].amount_to_send = flights[r].amount_to_send,
             flights'[r].storage_to_pay = flights[r].storage_to_pay,
             Locked(queue'[flights[r].hash]) = Locked(queue[flights[r].hash])
      PROVE  \E t \in Locked(queue'[flights'[r].hash]) : SentFor(flights'[r], t)
  <2>1. \E t \in Locked(queue[flights[r].hash]) : SentFor(flights[r], t)
    BY <1>1, <1>2 DEF FlightsMatch, InFlight
  <2> QED BY <1>2, <2>1 DEF SentFor
<1>3. SUFFICES ASSUME NEW r \in Slots, flights'[r] # NoFlight
               PROVE  \E t \in Locked(queue'[flights'[r].hash]) : SentFor(flights'[r], t)
  BY DEF FlightsMatch, InFlight, Locked, SentFor, AmountToSend, StorageToPay
<1>4. ASSUME UNCHANGED flights,
             flights[r] # NoFlight =>
               Locked(queue'[flights[r].hash]) = Locked(queue[flights[r].hash])
      PROVE  \E t \in Locked(queue'[flights'[r].hash]) : SentFor(flights'[r], t)
  BY <1>2, <1>3, <1>4
<1>5. flights[r] # NoFlight => flights[r].hash \in Hashes
  BY <1>1, FlightTyped
<1>6. ASSUME NEW h \in Hashes, NEW a \in Amounts, OnUnstake(h, a)
      PROVE  \E t \in Locked(queue'[flights'[r].hash]) : SentFor(flights'[r], t)
  <2>1. UNCHANGED flights
    BY <1>6 DEF OnUnstake, chainVars
  <2>2. \A x \in Hashes : Locked(queue'[x]) = Locked(queue[x])
    BY <1>6, UnstakeSound
  <2> QED BY <1>4, <1>5, <2>1, <2>2
<1>7. ASSUME NEW h \in Hashes, NEW s \in Slots, Withdraw(h, s)
      PROVE  \E t \in Locked(queue'[flights'[r].hash]) : SentFor(flights'[r], t)
  <2>1. /\ FlightsOf(h) = {} /\ \A x \in Hashes : x # h => queue'[x] = queue[x]
        /\ \E t \in Locked(queue'[h]) : SentFor(flights'[s], t)
    BY <1>7, WithdrawSound
  <2>2. flights' = [flights EXCEPT ![s] = flights'[s]] /\ flights'[s].hash = h
    BY <1>1, <1>7, SentFlight
  <2>3. CASE r = s
    BY <2>1, <2>2, <2>3
  <2>4. CASE r # s
    <3>1. flights'[r] = flights[r]
      BY <1>1, <2>2, <2>4 DEF TypeOK
    <3>2. flights[r].hash # h
      BY <1>3, <2>1, <3>1 DEF FlightsOf, InFlight
    <3> QED BY <1>2, <1>3, <1>5, <2>1, <3>1, <3>2
  <2> QED BY <2>3, <2>4
<1>8. ASSUME NEW s \in Slots, flights[s] # NoFlight,
             flights' = [flights EXCEPT ![s] = flights'[s]],
             flights'[s].hash = flights[s].hash, flights'[s].cost = flights[s].cost,
             flights'[s].amount_to_send = flights[s].amount_to_send,
             flights'[s].storage_to_pay = flights[s].storage_to_pay,
             UNCHANGED queue
      PROVE  \E t \in Locked(queue'[flights'[r].hash]) : SentFor(flights'[r], t)
  <2>1. CASE r = s
    BY <1>2, <1>8, <2>1
  <2>2. CASE r # s
    <3>1. flights'[r] = flights[r]
      BY <1>1, <1>8, <2>2 DEF TypeOK
    <3> QED BY <1>2, <1>3, <1>8, <3>1
  <2> QED BY <2>1, <2>2
<1>9. ASSUME NEW s \in Slots, DeliverOk(s) \/ DeliverUnresolved(s) \/ DeliverUnreadable(s)
      PROVE  \E t \in Locked(queue'[flights'[r].hash]) : SentFor(flights'[r], t)
  <2>1. flights[s] # NoFlight
    BY <1>1, <1>9, DeliveryFacts
  <2>2. PICK status \in {"ok", "unresolved", "unreadable"}, got \in Nat, reported \in Nat :
           Delivered(s, status, got, reported)
    BY <1>1, <1>9, DeliveryFacts
  <2>3. UNCHANGED queue
    BY <2>2 DEF Delivered, contractVars
  <2> QED BY <1>1, <1>8, <2>1, <2>2, <2>3, DeliveredFlight
<1>10. ASSUME NEW s \in Slots, DeliverFailed(s)
       PROVE  \E t \in Locked(queue'[flights'[r].hash]) : SentFor(flights'[r], t)
  <2>1. UNCHANGED queue
    BY <1>10 DEF DeliverFailed, contractVars
  <2> QED BY <1>1, <1>8, <1>10, <2>1, FailedFlight
<1>11. ASSUME NEW s \in Slots, Callback(s)
       PROVE  \E t \in Locked(queue'[flights'[r].hash]) : SentFor(flights'[r], t)
  <2>1. /\ flights[s] # NoFlight /\ flights'[s] = NoFlight
        /\ flights' = [flights EXCEPT ![s] = flights'[s]]
    BY <1>1, <1>11, EndedFlight
  <2>2. PICK h \in Hashes : h = flights[s].hash
    BY <1>1, <2>1, FlightTyped
  <2>3. r # s /\ flights'[r] = flights[r]
    BY <1>1, <1>3, <2>1 DEF TypeOK
  <2>4. flights[r].hash # h
    <3>1. FlightsOf(h) = {s}
      BY <2>1, <2>2, CalmFlight
    <3> QED BY <1>3, <2>3, <3>1 DEF FlightsOf, InFlight
  <2>5. \A x \in Hashes : x # h => queue'[x] = queue[x]
    <3>1. CASE Settle(s)
      BY <2>2, <3>1, SettleSound
    <3>2. CASE SettleFailed(s)
      <4>1. queue' = [queue EXCEPT ![h] = Released(@)]
        BY <2>2, <3>2 DEF SettleFailed
      <4> QED BY <4>1, ReleaseSound
    <3>3. CASE SettlePanics(s)
      BY <3>3 DEF SettlePanics, contractVars
    <3> QED BY <1>11, <3>1, <3>2, <3>3 DEF Callback
  <2> QED BY <1>2, <1>3, <1>5, <2>3, <2>4, <2>5
<1>12. ASSUME NEW h \in Hashes, ForceReleaseLock(h)
       PROVE  \E t \in Locked(queue'[flights'[r].hash]) : SentFor(flights'[r], t)
  <2>1. /\ queue' = [queue EXCEPT ![h] = Released(@)] /\ UNCHANGED flights
        /\ forced' = IF Settled(h) THEN forced ELSE forced \cup {h}
    BY <1>12 DEF ForceReleaseLock, chainVars
  <2>2. \A x \in Hashes : x # h => queue'[x] = queue[x]
    BY <2>1, ReleaseSound
  <2>3. FlightsOf(h) = {}
    BY <1>1, <2>1 DEF Settled
  <2>4. flights[r].hash # h
    BY <1>3, <2>1, <2>3 DEF FlightsOf, InFlight
  <2> QED BY <1>3, <1>4, <1>5, <2>1, <2>2, <2>4
<1>13. CASE RefundArrives \/ SyncRewards \/ NextEpoch \/ UNCHANGED vars
  <2>1. UNCHANGED <<queue, flights>>
    BY <1>13 DEF RefundArrives, SyncRewards, NextEpoch, vars, contractVars, chainVars
  <2> QED BY <1>4, <2>1
<1> QED
  BY <1>6, <1>7, <1>9, <1>10, <1>11, <1>12, <1>13 DEF Next, Deliver

(* A total over the hashes whose summands change at one hash only.          *)
LEMMA HashTotalMove ==
  ASSUME NEW c \in [Hashes -> Nat], NEW d \in [Hashes -> Nat], NEW h \in Hashes,
         \A x \in Hashes : x # h => d[x] = c[x]
  PROVE  /\ Total(c) \in Nat /\ Total(d) \in Nat
         /\ Total(d) = Total(c) - c[h] + d[h]
<1>1. d = [c EXCEPT ![h] = d[h]] /\ d[h] \in Nat
  OBVIOUS
<1>2. PICK n \in Nat : n = d[h]
  BY <1>1
<1>3. Total(c) \in Nat /\ Total([c EXCEPT ![h] = n]) = Total(c) - c[h] + n
  BY HashTotalUpdate
<1>4. Total(d) \in Nat
  BY WithdrawalsAssumption, TotalType
<1> QED
  BY <1>1, <1>2, <1>3, <1>4

(* The residuals' total moves by what one hash's residual moves.            *)
LEMMA ResidualsMove ==
  ASSUME IInv, IInv', NEW h \in Hashes, \A x \in Hashes : x # h => queue'[x] = queue[x]
  PROVE  /\ Sum(Hashes, Residual) \in Nat
         /\ Sum(Hashes, Residual)' =
              Sum(Hashes, Residual) - ResidualOf(queue[h]) + ResidualOf(queue'[h])
<1> DEFINE c == [x \in Hashes |-> ResidualOf(queue[x])]
           d == [x \in Hashes |-> ResidualOf(queue'[x])]
<1>1. \A x \in Hashes : /\ queue[x] \subseteq Tranche /\ IsFiniteSet(queue[x])
                        /\ queue'[x] \subseteq Tranche /\ IsFiniteSet(queue'[x])
  BY DEF IInv, QueuesGood, GoodQueue
<1>2. c \in [Hashes -> Nat] /\ d \in [Hashes -> Nat]
  BY <1>1, ResidualType
<1>3. \A x \in Hashes : x # h => d[x] = c[x]
  OBVIOUS
<1>4. /\ Sum(Hashes, Residual) = Total(c) /\ Sum(Hashes, Residual)' = Total(d)
      /\ c[h] = ResidualOf(queue[h]) /\ d[h] = ResidualOf(queue'[h])
  BY DEF Sum, Residual, ResidualOf
<1> HIDE DEF c, d
<1>5. Total(c) \in Nat /\ Total(d) = Total(c) - c[h] + d[h]
  BY <1>2, <1>3, HashTotalMove
<1> QED
  BY <1>4, <1>5

(* Every step keeps the contract solvent: what the tracker loses is booked  *)
(* off a claim, turned into residual, or one of the attached yoctos.        *)
LEMMA SolvencyStep ==
  ASSUME Calm, Solvency, IInv', [Next]_vars
  PROVE  Solvency'
<1> DEFINE R == Sum(Hashes, Residual)
<1>1. /\ IInv /\ TypeOK /\ tracked \in Nat /\ staked \in Nat /\ pending \in Nat
      /\ reserve \in Int
  BY DEF Calm, LedgerInv, IInv, TypeOK
<1>2. tracked + R = staked + pending + reserve
  BY DEF Solvency
<1>3. ASSUME NEW h \in Hashes, \A x \in Hashes : x # h => queue'[x] = queue[x]
      PROVE  R \in Nat /\ R' = R - ResidualOf(queue[h]) + ResidualOf(queue'[h])
  BY <1>1, <1>3, ResidualsMove
<1>4. UNCHANGED queue => R' = R
  BY DEF Sum, Residual, Total, Units, UnitsOf, ResidualOf
<1>5. R \in Nat
  <2>1. [x \in Hashes |-> Residual(x)] \in [Hashes -> Nat]
    BY CalmHash
  <2> QED BY <2>1, TotalType, WithdrawalsAssumption DEF Sum
<1>6. tracked' + R' = staked' + pending' + reserve' => Solvency'
  BY DEF Solvency
<1>7. \A h \in Hashes : ResidualOf(queue[h]) \in Nat
  BY CalmHash
<1> HIDE DEF R
<1>8. ASSUME NEW h \in Hashes, NEW a \in Amounts, OnUnstake(h, a) PROVE Solvency'
  <2>1. R' = R
    BY <1>3, <1>5, <1>7, <1>8, UnstakeSound
  <2>2. /\ staked' = staked - a /\ pending' = pending + a /\ a \in Nat
        /\ UNCHANGED <<tracked, reserve>>
    BY <1>8, WithdrawalsAssumption DEF OnUnstake
  <2> QED BY <1>1, <1>2, <1>5, <1>6, <2>1, <2>2
<1>9. ASSUME NEW h \in Hashes, NEW s \in Slots, Withdraw(h, s) PROVE Solvency'
  <2>1. R' = R
    BY <1>3, <1>5, <1>7, <1>9, WithdrawSound
  <2> QED BY <1>2, <1>6, <1>9, <2>1 DEF Withdraw, ghostVars
<1>10. ASSUME NEW h \in Hashes, queue' = [queue EXCEPT ![h] = Released(@)],
              UNCHANGED <<tracked, staked, pending, reserve>>
       PROVE  Solvency'
  <2>1. /\ ResidualOf(queue'[h]) = ResidualOf(queue[h])
        /\ \A x \in Hashes : x # h => queue'[x] = queue[x]
    BY <1>10, ReleaseSound
  <2>2. R' = R
    BY <1>3, <1>5, <1>7, <2>1
  <2> QED BY <1>2, <1>6, <1>10, <2>2
<1>11. ASSUME UNCHANGED <<queue, tracked, staked, pending, reserve>>
       PROVE  Solvency'
  BY <1>2, <1>4, <1>6, <1>11
<1>12. CASE SyncRewards
  <2>1. /\ tracked' = balance /\ staked' = staked + (balance - tracked)
        /\ UNCHANGED <<queue, pending, reserve>>
    BY <1>12 DEF SyncRewards
  <2>2. balance \in Nat
    BY <1>1 DEF TypeOK
  <2> QED BY <1>1, <1>2, <1>4, <1>5, <1>6, <2>1, <2>2
<1>13. ASSUME NEW s \in Slots, Settle(s) PROVE Solvency'
  <2> DEFINE f == flights[s]
  <2>1. f # NoFlight
    BY <1>13 DEF Settle, Landed
  <2>2. /\ f.hash \in Hashes /\ f \in Flight /\ f.amount_to_send \in Nat
        /\ f.storage_to_pay \in Nat /\ Consumed(f) \in Nat
    BY <1>1, <2>1, FlightTyped, BookedType
  <2>3. PICK h \in Hashes : h = f.hash
    BY <2>2
  <2>4. PICK t \in Locked(queue[h]) :
           /\ SentFor(f, t) /\ t.wnear_residual \in Nat
           /\ ResidualOf(queue[h]) = t.wnear_residual
    BY <2>1, <2>3, CalmFlight
  <2>5. /\ ResidualOf(queue'[h]) = f.amount_to_send - Consumed(f)
        /\ \A x \in Hashes : x # h => queue'[x] = queue[x]
    BY <1>13, <2>3, SettleSound
  <2>6. R' = R - ResidualOf(queue[h]) + ResidualOf(queue'[h])
    BY <1>3, <2>5
  <2>7. /\ pending' = pending - (Consumed(f) + f.storage_to_pay)
        /\ tracked' = tracked - (f.cost + f.storage_to_pay)
        /\ reserve' = reserve - TransferDeposit(f.hash)
        /\ staked' = staked
    BY <1>13 DEF Settle, Booked, TrackerDebit, Spent
  <2>8. f.cost = f.amount_to_send - t.wnear_residual + TransferDeposit(f.hash)
    BY <2>4 DEF SentFor
  <2>9. TransferDeposit(f.hash) \in Nat
    BY DEF TransferDeposit, ONE_YOCTO
  <2> HIDE DEF f
  <2>10. R' = R - t.wnear_residual + (f.amount_to_send - Consumed(f))
    BY <2>4, <2>5, <2>6
  <2>11. PICK a, c, d, r, st \in Nat :
            /\ a = f.amount_to_send /\ c = Consumed(f) /\ st = f.storage_to_pay
            /\ d = TransferDeposit(f.hash) /\ r = t.wnear_residual
    BY <2>2, <2>4, <2>9
  <2>12. /\ tracked' = tracked - (a - r + d + st) /\ R' = R - r + (a - c)
         /\ pending' = pending - (c + st) /\ reserve' = reserve - d
         /\ staked' = staked
    BY <2>7, <2>8, <2>10, <2>11
  <2>13. tracked' + R' = staked' + pending' + reserve'
    BY <1>1, <1>2, <1>5, <2>12
  <2> QED BY <1>6, <2>13
<1>14. ASSUME NEW s \in Slots, SettleFailed(s) PROVE Solvency'
  <2>1. flights[s].hash \in Hashes
    BY <1>1, <1>14, FlightTyped DEF SettleFailed, Landed
  <2>2. PICK h \in Hashes : h = flights[s].hash
    BY <2>1
  <2> QED BY <1>10, <1>14, <2>2 DEF SettleFailed, ghostVars
<1>15. ASSUME NEW h \in Hashes, ForceReleaseLock(h) PROVE Solvency'
  BY <1>10, <1>15 DEF ForceReleaseLock
<1>16. ASSUME NEW s \in Slots, SettlePanics(s) PROVE Solvency'
  BY <1>11, <1>16 DEF SettlePanics, contractVars
<1>17. CASE NextEpoch \/ Quiet
  BY <1>11, <1>17 DEF NextEpoch, Quiet, contractVars, ghostVars
<1> QED
  BY <1>8, <1>9, <1>12, <1>13, <1>14, <1>15, <1>16, <1>17, StepCases DEF Callback

(* The attached yoctos that are left cover every flight: withdraw starts    *)
(* none without one, and a settlement that takes one ends its flight.       *)
LEMMA YoctosStep ==
  ASSUME LedgerInv, YoctosLeft, [Next]_vars
  PROVE  YoctosLeft'
<1> DEFINE C == Cardinality(InFlight)
<1>1. IInv /\ TypeOK /\ FlightsPaid /\ reserve \in Int /\ C <= reserve
  BY DEF LedgerInv, IInv, TypeOK, YoctosLeft
<1>2. IsFiniteSet(InFlight) /\ C \in Nat
  BY WithdrawalsAssumption, FS_Subset, FS_CardinalityType DEF InFlight
<1>3. UNCHANGED <<flights, reserve>> => YoctosLeft'
  BY <1>1 DEF YoctosLeft, InFlight
<1>4. C' <= reserve' => YoctosLeft'
  BY DEF YoctosLeft
<1>5. ASSUME NEW s \in Slots, flights[s] # NoFlight, flights'[s] # NoFlight,
             flights' = [flights EXCEPT ![s] = flights'[s]], UNCHANGED reserve
      PROVE  YoctosLeft'
  <2>1. InFlight' = InFlight
    BY <1>1, <1>5 DEF InFlight, TypeOK
  <2> QED BY <1>1, <1>5, <2>1 DEF YoctosLeft
<1>6. ASSUME NEW h \in Hashes, NEW s \in Slots, Withdraw(h, s) PROVE YoctosLeft'
  <2>1. /\ flights[s] = NoFlight /\ flights'[s] # NoFlight
        /\ flights' = [flights EXCEPT ![s] = flights'[s]]
    BY <1>1, <1>6, SentFlight
  <2>2. InFlight' = InFlight \cup {s} /\ s \notin InFlight
    BY <1>1, <2>1 DEF InFlight, TypeOK
  <2>3. C' = C + 1
    BY <1>2, <2>2, FS_AddElement
  <2>4. C < reserve /\ reserve' = reserve
    BY <1>6 DEF Withdraw, ghostVars
  <2> HIDE DEF C
  <2> QED BY <1>1, <1>2, <1>4, <2>3, <2>4
<1>7. ASSUME NEW s \in Slots, Callback(s) PROVE YoctosLeft'
  <2>1. /\ flights[s] # NoFlight /\ flights'[s] = NoFlight
        /\ flights' = [flights EXCEPT ![s] = flights'[s]]
    BY <1>1, <1>7, EndedFlight
  <2>2. InFlight' = InFlight \ {s} /\ s \in InFlight
    BY <1>1, <2>1 DEF InFlight, TypeOK
  <2>3. C' = C - 1
    BY <1>2, <2>2, FS_RemoveElement
  <2>4. reserve' = reserve \/ reserve' = reserve - TransferDeposit(flights[s].hash)
    BY <1>7 DEF Callback, Settle, SettleFailed, SettlePanics, ghostVars
  <2>5. TransferDeposit(flights[s].hash) \in {0, 1}
    BY DEF TransferDeposit, ONE_YOCTO
  <2> HIDE DEF C
  <2> QED BY <1>1, <1>2, <1>4, <2>3, <2>4, <2>5
<1>8. ASSUME NEW s \in Slots, DeliverOk(s) \/ DeliverUnresolved(s) \/ DeliverUnreadable(s)
      PROVE  YoctosLeft'
  <2>1. flights[s] # NoFlight
    BY <1>1, <1>8, DeliveryFacts
  <2>2. PICK status \in {"ok", "unresolved", "unreadable"}, got \in Nat, reported \in Nat :
           Delivered(s, status, got, reported)
    BY <1>1, <1>8, DeliveryFacts
  <2>3. UNCHANGED reserve
    BY <2>2 DEF Delivered
  <2> QED BY <1>1, <1>5, <2>1, <2>2, <2>3, DeliveredFlight
<1>9. ASSUME NEW s \in Slots, DeliverFailed(s) PROVE YoctosLeft'
  <2>1. UNCHANGED reserve
    BY <1>9 DEF DeliverFailed, ghostVars
  <2> QED BY <1>1, <1>5, <1>9, <2>1, FailedFlight
<1> QED
  BY <1>3, <1>6, <1>7, <1>8, <1>9
     DEF Next, Deliver, OnUnstake, RefundArrives, ForceReleaseLock, SyncRewards,
         NextEpoch, vars, chainVars, ghostVars

(* What a hash may count on, by the state of its flight.                    *)
DeliveredStatus == {"ok", "unresolved", "unreadable"}

BackingFacts ==
  \A h \in Hashes :
    /\ Backing(h) \in Nat
    /\ \A s \in FlightsOf(h) : flights[s].status \in DeliveredStatus =>
         Backing(h) = flights[s].amount_to_send + flights[s].storage_to_pay
                        - flights[s].paid
    /\ (\A s \in FlightsOf(h) : flights[s].status \notin DeliveredStatus) =>
         Backing(h) = IF unsettled[h] > 0 THEN 0 ELSE ResidualOf(queue[h])

(* Before a settlement the hash's backing is what it set aside less what    *)
(* was paid; without a flight it is its residual.                           *)
LEMMA BackingIs == LedgerInv /\ forced = {} => BackingFacts
<1> SUFFICES ASSUME LedgerInv, forced = {}, NEW h \in Hashes
             PROVE  /\ Backing(h) \in Nat
                    /\ \A s \in FlightsOf(h) : flights[s].status \in DeliveredStatus =>
                         Backing(h) = flights[s].amount_to_send
                                        + flights[s].storage_to_pay - flights[s].paid
                    /\ (\A s \in FlightsOf(h) : flights[s].status \notin DeliveredStatus) =>
                         Backing(h) = IF unsettled[h] > 0 THEN 0 ELSE ResidualOf(queue[h])
  BY DEF BackingFacts
<1>1. TypeOK /\ QueuesGood /\ FlightsPaid /\ LockHeld(h)
  BY DEF LedgerInv, IInv, LocksHeld
<1>2. ResidualOf(queue[h]) \in Nat /\ unsettled[h] \in Nat
  BY <1>1, QueueFacts, ResidualType DEF TypeOK
<1>3. CASE \E s \in FlightsOf(h) : flights[s].status \in DeliveredStatus
  <2>1. PICK s \in FlightsOf(h) : flights[s].status \in DeliveredStatus
    BY <1>3
  <2>2. FlightsOf(h) = {s}
    BY <1>1, <2>1 DEF LockHeld
  <2>3. (CHOOSE r \in FlightsOf(h) : TRUE) = s
    BY <2>2
  <2>4. Backing(h) = flights[s].amount_to_send + flights[s].storage_to_pay
                       - flights[s].paid
    BY <1>3, <2>3 DEF Backing, DeliveredStatus
  <2>5. s \in Slots /\ flights[s] # NoFlight /\ s \in InFlight
    BY <2>1 DEF FlightsOf, InFlight
  <2>6. /\ flights[s].amount_to_send \in Nat /\ flights[s].storage_to_pay \in Nat
        /\ flights[s].paid \in Nat
        /\ flights[s].paid <= flights[s].amount_to_send + flights[s].storage_to_pay
    BY <1>1, <2>5, FlightTyped DEF FlightsPaid, PaidRight
  <2> QED BY <2>1, <2>2, <2>4, <2>6
<1>4. CASE \A s \in FlightsOf(h) : flights[s].status \notin DeliveredStatus
  <2>1. Backing(h) = IF unsettled[h] > 0 THEN 0 ELSE ResidualOf(queue[h])
    BY <1>4 DEF Backing, DeliveredStatus
  <2> QED BY <1>2, <1>4, <2>1
<1> QED
  BY <1>3, <1>4

(* A hash none of whose flights lands or ends.                              *)
LEMMA BackingSame ==
  ASSUME BackingFacts, BackingFacts', NEW h \in Hashes, FlightsOf(h)' = FlightsOf(h),
         \A s \in FlightsOf(h) :
           /\ flights'[s].status \in DeliveredStatus <=> flights[s].status \in DeliveredStatus
           /\ flights'[s].amount_to_send = flights[s].amount_to_send
           /\ flights'[s].storage_to_pay = flights[s].storage_to_pay
           /\ flights'[s].paid = flights[s].paid,
         unsettled'[h] = unsettled[h], ResidualOf(queue'[h]) = ResidualOf(queue[h])
  PROVE  Backing(h)' = Backing(h)
<1>1. /\ \A s \in FlightsOf(h) : flights[s].status \in DeliveredStatus =>
           Backing(h) = flights[s].amount_to_send + flights[s].storage_to_pay
                          - flights[s].paid
      /\ (\A s \in FlightsOf(h) : flights[s].status \notin DeliveredStatus) =>
           Backing(h) = IF unsettled[h] > 0 THEN 0 ELSE ResidualOf(queue[h])
  BY DEF BackingFacts
<1>2. /\ \A s \in FlightsOf(h)' : flights'[s].status \in DeliveredStatus =>
           Backing(h)' = flights'[s].amount_to_send + flights'[s].storage_to_pay
                           - flights'[s].paid
      /\ (\A s \in FlightsOf(h)' : flights'[s].status \notin DeliveredStatus) =>
           Backing(h)' = IF unsettled'[h] > 0 THEN 0 ELSE ResidualOf(queue'[h])
  BY DEF BackingFacts, ResidualOf, DeliveredStatus
<1> HIDE DEF DeliveredStatus
<1>3. CASE \E s \in FlightsOf(h) : flights[s].status \in DeliveredStatus
  BY <1>1, <1>2, <1>3
<1>4. CASE \A s \in FlightsOf(h) : flights[s].status \notin DeliveredStatus
  BY <1>1, <1>2, <1>4
<1> QED
  BY <1>3, <1>4

(* If what one hash counts on grows by no more than the wNEAR held, and     *)
(* that of the others does not change, all of it is still held.             *)
LEMMA BackingMove ==
  ASSUME BackingFacts, BackingFacts', BackingHeld, wnear \in Nat, wnear' \in Nat,
         NEW h \in Hashes, \A x \in Hashes : x # h => Backing(x)' = Backing(x),
         Backing(h)' - Backing(h) <= wnear' - wnear
  PROVE  BackingHeld'
<1> DEFINE c == [x \in Hashes |-> Backing(x)]
           d == [x \in Hashes |-> Backing(x)']
<1>1. c \in [Hashes -> Nat] /\ d \in [Hashes -> Nat]
  BY DEF BackingFacts
<1>2. \A x \in Hashes : x # h => d[x] = c[x]
  OBVIOUS
<1>3. c[h] = Backing(h) /\ d[h] = Backing(h)' /\ c[h] \in Nat /\ d[h] \in Nat
  BY <1>1
<1>4. Total(c) <= wnear /\ (Total(d) <= wnear' => BackingHeld')
  BY DEF BackingHeld, Sum
<1> HIDE DEF c, d
<1>5. Total(c) \in Nat /\ Total(d) = Total(c) - c[h] + d[h]
  BY <1>1, <1>2, HashTotalMove
<1> QED
  BY <1>3, <1>4, <1>5

(* A step of one hash's flight leaves the flights of the others alone.      *)
LEMMA OtherFlights ==
  ASSUME TypeOK, NEW s \in Slots, NEW h, flights' = [flights EXCEPT ![s] = flights'[s]],
         flights[s] # NoFlight => flights[s].hash # h,
         flights'[s] # NoFlight => flights'[s].hash # h
  PROVE  /\ FlightsOf(h)' = FlightsOf(h)
         /\ \A r \in FlightsOf(h) : flights'[r] = flights[r]
<1>1. \A r \in Slots : r # s => flights'[r] = flights[r]
  BY DEF TypeOK
<1>2. FlightsOf(h)' = FlightsOf(h)
  BY <1>1 DEF FlightsOf, InFlight
<1>3. \A r \in FlightsOf(h) : r \in Slots /\ r # s
  BY DEF FlightsOf, InFlight
<1> QED
  BY <1>1, <1>2, <1>3

(* Every step keeps what the hashes count on covered by the wNEAR held: a   *)
(* delivery hands out no more than it brings, and a settlement turns what   *)
(* came back into residual.                                                 *)
LEMMA BackingStep ==
  ASSUME Calm, LedgerInv', forced' = {}, BackingHeld, [Next]_vars
  PROVE  BackingHeld'
<1>1. /\ IInv /\ TypeOK /\ FlightsPaid /\ LedgerInv /\ forced = {}
      /\ wnear \in Nat /\ wnear' \in Nat
  BY DEF Calm, LedgerInv, IInv, TypeOK
<1>2. BackingFacts
  BY <1>1, BackingIs
<1>3. BackingFacts'
  <2>1. (LedgerInv /\ forced = {})'
    OBVIOUS
  <2> QED BY <2>1, BackingIs, PTL
<1>4. \A x \in Hashes : /\ ResidualOf(queue[x]) \in Nat /\ unsettled[x] \in Nat
                        /\ Backing(x) \in Nat /\ Backing(x)' \in Nat
  BY <1>2, <1>3, CalmHash DEF BackingFacts
<1>5. ASSUME UNCHANGED <<flights, unsettled, wnear>>,
             \A x \in Hashes : ResidualOf(queue'[x]) = ResidualOf(queue[x])
      PROVE  BackingHeld'
  <2>1. ASSUME NEW x \in Hashes
        PROVE  Backing(x)' = Backing(x)
    <3>1. FlightsOf(x)' = FlightsOf(x)
      BY <1>5, FlightsSame
    <3> QED BY <1>2, <1>3, <1>5, <3>1, BackingSame
  <2>2. Sum(Hashes, Backing)' = Sum(Hashes, Backing)
    <3>1. [x \in Hashes |-> Backing(x)]' = [x \in Hashes |-> Backing(x)]
      BY <2>1
    <3> QED BY <3>1 DEF Sum, Total, Units, UnitsOf
  <2> QED BY <1>5, <2>2 DEF BackingHeld
<1>6. ASSUME NEW s \in Slots, NEW h \in Hashes,
             flights' = [flights EXCEPT ![s] = flights'[s]],
             flights[s] # NoFlight => flights[s].hash = h,
             flights'[s] # NoFlight => flights'[s].hash = h,
             \A x \in Hashes : x # h => /\ queue'[x] = queue[x]
                                        /\ unsettled'[x] = unsettled[x],
             Backing(h)' - Backing(h) <= wnear' - wnear
      PROVE  BackingHeld'
  <2>1. ASSUME NEW x \in Hashes, x # h
        PROVE  Backing(x)' = Backing(x)
    <3>1. /\ FlightsOf(x)' = FlightsOf(x)
          /\ \A r \in FlightsOf(x) : flights'[r] = flights[r]
      BY <1>1, <1>6, <2>1, OtherFlights
    <3> QED BY <1>2, <1>3, <1>6, <2>1, <3>1, BackingSame
  <2> QED BY <1>1, <1>2, <1>3, <1>6, <2>1, BackingMove
<1>7. ASSUME NEW h \in Hashes, NEW a \in Amounts, OnUnstake(h, a) PROVE BackingHeld'
  <2>1. \A x \in Hashes : ResidualOf(queue'[x]) = ResidualOf(queue[x])
    BY <1>7, UnstakeSound
  <2> QED BY <1>5, <1>7, <2>1 DEF OnUnstake, chainVars
<1>8. ASSUME NEW h \in Hashes, ForceReleaseLock(h) PROVE BackingHeld'
  <2>1. queue' = [queue EXCEPT ![h] = Released(@)]
    BY <1>8 DEF ForceReleaseLock
  <2>2. \A x \in Hashes : ResidualOf(queue'[x]) = ResidualOf(queue[x])
    BY <2>1, ReleaseSound
  <2> QED BY <1>5, <1>8, <2>2 DEF ForceReleaseLock, chainVars
<1>9. ASSUME NEW h \in Hashes, NEW s \in Slots, Withdraw(h, s) PROVE BackingHeld'
  <2>1. /\ FlightsOf(h) = {} /\ \A x \in Hashes : x # h => queue'[x] = queue[x]
        /\ unsettled[h] = 0 /\ ResidualOf(queue'[h]) = ResidualOf(queue[h])
    BY <1>9, WithdrawSound
  <2>2. /\ flights[s] = NoFlight /\ flights'[s].hash = h /\ flights'[s].status = "sent"
        /\ flights' = [flights EXCEPT ![s] = flights'[s]]
    BY <1>1, <1>9, SentFlight
  <2>3. UNCHANGED <<unsettled, wnear>>
    BY <1>9 DEF Withdraw, ghostVars
  <2>4. Backing(h) = ResidualOf(queue[h])
    BY <1>2, <2>1 DEF BackingFacts
  <2>5. \A r \in FlightsOf(h)' : flights'[r].status \notin DeliveredStatus
    <3>1. \A r \in FlightsOf(h)' : r = s
      BY <1>1, <2>1, <2>2 DEF TypeOK, FlightsOf, InFlight
    <3> QED BY <2>2, <3>1 DEF DeliveredStatus
  <2>6. Backing(h)' = ResidualOf(queue'[h])
    BY <1>3, <2>1, <2>3, <2>5 DEF BackingFacts, ResidualOf, DeliveredStatus
  <2>7. Backing(h)' - Backing(h) <= wnear' - wnear
    BY <1>1, <1>4, <2>1, <2>3, <2>4, <2>6
  <2> QED BY <1>6, <2>1, <2>2, <2>3, <2>7
<1>10. ASSUME UNCHANGED <<flights, unsettled, wnear, queue>> PROVE BackingHeld'
  BY <1>5, <1>10
<1>11. ASSUME NEW s \in Slots, Deliver(s) PROVE BackingHeld'
  <2> DEFINE f == flights[s]
             g == flights'[s]
  <2>1. f # NoFlight /\ f.status = "sent"
    BY <1>11 DEF Deliver, DeliverOk, DeliverUnresolved, DeliverUnreadable, DeliverFailed,
                 Delivered
  <2>2. PICK h \in Hashes : h = f.hash
    BY <1>1, <2>1, FlightTyped
  <2>3. FlightsOf(h) = {s} /\ unsettled[h] = 0 /\ PaidRight(f)
    BY <2>1, <2>2, CalmFlight
  <2>4. Backing(h) = ResidualOf(queue[h])
    BY <1>2, <2>1, <2>3 DEF BackingFacts, DeliveredStatus
  <2>5. PICK t \in Locked(queue[h]) :
           /\ SentFor(f, t) /\ t.wnear_residual \in Nat
           /\ ResidualOf(queue[h]) = t.wnear_residual
           /\ Kind[h] # "call" => t.wnear_residual = 0
    BY <2>1, <2>2, CalmFlight
  <2>6. f.amount_to_send \in Nat /\ f.storage_to_pay \in Nat /\ f.cost \in Nat
    BY <1>1, <2>1, FlightTyped
  <2>7. CASE DeliverFailed(s)
    <3>1. /\ flights' = [flights EXCEPT ![s] = g] /\ g # NoFlight
          /\ g.status = "failed" /\ g.hash = h
      BY <1>1, <2>2, <2>7, FailedFlight
    <3>2. UNCHANGED <<queue, unsettled, wnear>>
      BY <2>7 DEF DeliverFailed, contractVars, ghostVars
    <3>3. FlightsOf(h)' = {s}
      BY <1>1, <2>1, <2>2, <2>3, <3>1 DEF TypeOK, FlightsOf, InFlight
    <3>4. Backing(h)' = ResidualOf(queue'[h])
      BY <1>3, <2>3, <3>1, <3>2, <3>3 DEF BackingFacts, ResidualOf, DeliveredStatus
    <3>5. Backing(h)' - Backing(h) <= wnear' - wnear
      BY <1>1, <1>4, <2>4, <3>2, <3>4
    <3> QED BY <1>6, <2>2, <3>1, <3>2, <3>5
  <2>8. CASE DeliverOk(s) \/ DeliverUnresolved(s) \/ DeliverUnreadable(s)
    <3>1. PICK status \in {"ok", "unresolved", "unreadable"}, got \in Nat, reported \in Nat :
             /\ Delivered(s, status, got, reported)
             /\ ~IsCall(f) => got = f.amount_to_send
      BY <1>1, <2>8, DeliveryFacts
    <3>2. /\ flights' = [flights EXCEPT ![s] = g] /\ g # NoFlight
          /\ g.status = status /\ g.hash = h /\ got <= f.amount_to_send
          /\ g.amount_to_send = f.amount_to_send
          /\ g.storage_to_pay = f.storage_to_pay
          /\ g.paid = got + f.storage_to_pay
      BY <1>1, <2>1, <2>2, <3>1, DeliveredFlight
    <3>3. UNCHANGED <<queue, unsettled>>
      BY <3>1 DEF Delivered, contractVars
    <3>4. FlightsOf(h)' = {s}
      BY <1>1, <2>1, <2>2, <2>3, <3>2 DEF TypeOK, FlightsOf, InFlight
    <3>5. status \in DeliveredStatus
      BY DEF DeliveredStatus
    <3>6. Backing(h)' = g.amount_to_send + g.storage_to_pay - g.paid
      BY <1>3, <3>2, <3>4, <3>5 DEF BackingFacts, DeliveredStatus
    <3>7. wnear' = CASE Kind[h] = "native" -> wnear
                     [] Kind[h] = "self"   -> wnear + Deposited(f)
                     [] OTHER              -> wnear + Deposited(f) - got
      BY <2>2, <3>1 DEF Delivered
    <3>8. Deposited(f) = f.amount_to_send - t.wnear_residual
          /\ t.wnear_residual <= f.amount_to_send
      <4>1. f.cost = f.amount_to_send - t.wnear_residual + TransferDeposit(f.hash)
            /\ t.wnear_residual <= f.amount_to_send
        BY <2>5 DEF SentFor
      <4>2. TransferDeposit(f.hash) \in Nat
        BY DEF TransferDeposit, ONE_YOCTO
      <4> HIDE DEF f
      <4> QED BY <2>5, <2>6, <4>1, <4>2 DEF Deposited
    <3>9. ~IsCall(f) => Kind[h] # "call"
      BY <2>2 DEF IsCall
    <3>10. Kind[h] \in Kinds
      BY WithdrawalsAssumption
    <3> HIDE DEF f, g
    <3>11. Backing(h)' = f.amount_to_send - got /\ Backing(h) = t.wnear_residual
      BY <2>4, <2>5, <2>6, <3>1, <3>2, <3>6
    <3>12. f.amount_to_send - got - t.wnear_residual <= wnear' - wnear
      <4>1. CASE Kind[h] = "call"
        BY <1>1, <2>5, <2>6, <3>1, <3>2, <3>7, <3>8, <4>1
      <4>2. CASE Kind[h] # "call"
        <5>1. ~IsCall(f)
          BY <2>2, <4>2 DEF IsCall, f
        <5>2. got = f.amount_to_send /\ t.wnear_residual = 0
          BY <2>5, <3>1, <4>2, <5>1
        <5>3. wnear' = wnear \/ wnear' = wnear + f.amount_to_send
              \/ wnear' = wnear + f.amount_to_send - got
          BY <2>6, <3>7, <3>8, <3>10, <4>2, <5>2 DEF Kinds
        <5>4. PICK a \in Nat, w \in Nat : a = f.amount_to_send /\ w = wnear
          BY <1>1, <2>6
        <5>5. wnear' = w \/ wnear' = w + a \/ wnear' = w + a - a
          BY <5>2, <5>3, <5>4
        <5>6. 0 <= wnear' - w
          BY <5>5
        <5>7. a - a - 0 = 0
          OBVIOUS
        <5> QED BY <5>2, <5>4, <5>6, <5>7
      <4> QED BY <4>1, <4>2
    <3>13. Backing(h)' - Backing(h) <= wnear' - wnear
      BY <2>5, <2>6, <3>1, <3>11, <3>12
    <3> QED BY <1>6, <2>2, <3>2, <3>3, <3>13 DEF f, g
  <2> QED BY <1>11, <2>7, <2>8 DEF Deliver
<1>12. ASSUME NEW s \in Slots, Callback(s) PROVE BackingHeld'
  <2> DEFINE f == flights[s]
  <2>1. /\ f # NoFlight /\ f.status # "sent" /\ flights'[s] = NoFlight
        /\ flights' = [flights EXCEPT ![s] = flights'[s]] /\ PaidRight(f)
        /\ SettleFailed(s) => f.status = "failed"
    BY <1>1, <1>12, EndedFlight
  <2>2. /\ f \in Flight /\ f.hash \in Hashes /\ f.amount_to_send \in Nat
        /\ f.storage_to_pay \in Nat /\ f.paid \in Nat /\ Consumed(f) \in Nat
    BY <1>1, <2>1, FlightTyped, BookedType
  <2>3. PICK h \in Hashes : h = f.hash
    BY <2>2
  <2>4. FlightsOf(h) = {s} /\ unsettled[h] = 0
    BY <2>1, <2>3, CalmFlight
  <2>5. PICK t \in Locked(queue[h]) :
           SentFor(f, t) /\ ResidualOf(queue[h]) = t.wnear_residual
    BY <2>1, <2>3, CalmFlight
  <2>6. FlightsOf(h)' = {}
    BY <1>1, <2>1, <2>4 DEF TypeOK, FlightsOf, InFlight
  <2>7. Backing(h)' = IF unsettled'[h] > 0 THEN 0 ELSE ResidualOf(queue'[h])
    BY <1>3, <2>6 DEF BackingFacts, ResidualOf
  <2>8. /\ f.status = "failed" => Backing(h) = ResidualOf(queue[h])
        /\ f.status # "failed" =>
             Backing(h) = f.amount_to_send + f.storage_to_pay - f.paid
    <3>1. f.status \notin DeliveredStatus => Backing(h) = ResidualOf(queue[h])
      BY <1>2, <2>4 DEF BackingFacts
    <3>2. f.status \in DeliveredStatus =>
             Backing(h) = f.amount_to_send + f.storage_to_pay - f.paid
      BY <1>2, <2>4 DEF BackingFacts
    <3>3. f.status # "failed" => f.status \in DeliveredStatus
      BY <2>1, <2>2 DEF DeliveredStatus, Flight
    <3>4. f.status = "failed" => f.status \notin DeliveredStatus
      BY DEF DeliveredStatus
    <3> QED BY <3>1, <3>2, <3>3, <3>4
  <2>9. wnear' = wnear
    BY <1>12 DEF Callback, Settle, SettleFailed, SettlePanics
  <2>10. \A x \in Hashes : x # h => queue'[x] = queue[x] /\ unsettled'[x] = unsettled[x]
    <3>1. CASE Settle(s)
      BY <2>3, <3>1, SettleSound DEF Settle
    <3>2. CASE SettleFailed(s)
      <4>1. queue' = [queue EXCEPT ![h] = Released(@)] /\ unsettled' = unsettled
        BY <2>3, <3>2 DEF SettleFailed, ghostVars
      <4> QED BY <4>1, ReleaseSound
    <3>3. CASE SettlePanics(s)
      BY <1>1, <2>3, <3>3 DEF SettlePanics, contractVars, TypeOK
    <3> QED BY <1>12, <3>1, <3>2, <3>3 DEF Callback
  <2>11. Backing(h)' <= Backing(h)
    <3>1. CASE Settle(s)
      <4>1. /\ ~OnlyUnlocks(f) /\ SettlementFits(f) /\ unsettled'[h] = 0
        BY <2>4, <3>1 DEF Settle
      <4>2. ResidualOf(queue'[h]) = f.amount_to_send - Consumed(f)
        BY <2>3, <3>1, SettleSound
      <4>3. Backing(h)' = f.amount_to_send - Consumed(f)
        BY <2>7, <4>1, <4>2
      <4> HIDE DEF f
      <4>4. CASE f.status = "failed"
        <5>1. Consumed(f) = f.amount_to_send
          BY <4>4 DEF Consumed
        <5> QED BY <1>4, <2>2, <2>8, <4>3, <4>4, <5>1
      <4>5. CASE f.status # "failed"
        <5>1. f.status \in {"ok", "unresolved"}
          BY <2>1, <2>2, <4>1, <4>5 DEF Flight, SettlementFits
        <5>2. f.paid = Consumed(f) + f.storage_to_pay
          BY <2>1, <5>1 DEF PaidRight, Booked
        <5> QED BY <2>2, <2>8, <4>3, <4>5, <5>2
      <4> QED BY <4>4, <4>5
    <3>2. CASE SettleFailed(s)
      <4>1. queue' = [queue EXCEPT ![h] = Released(@)] /\ unsettled' = unsettled
        BY <2>3, <3>2 DEF SettleFailed, ghostVars
      <4>2. ResidualOf(queue'[h]) = ResidualOf(queue[h])
        BY <4>1, ReleaseSound
      <4>3. f.status = "failed"
        BY <2>1, <3>2
      <4> QED BY <1>4, <2>4, <2>7, <2>8, <4>1, <4>2, <4>3
    <3>3. CASE SettlePanics(s)
      <4>1. queue' = queue /\ unsettled'[h] = f.paid
        BY <1>1, <2>2, <2>3, <2>4, <3>3 DEF SettlePanics, contractVars, TypeOK
      <4>2. t.wnear_residual <= f.amount_to_send
        BY <2>5 DEF SentFor
      <4>3. t.wnear_residual \in Nat
        BY <1>4, <2>5
      <4> HIDE DEF f
      <4>4. CASE f.status = "failed"
        <5>1. f.paid = 0
          BY <2>1, <4>4 DEF PaidRight
        <5> QED BY <1>4, <2>7, <2>8, <4>1, <4>4, <5>1
      <4>5. CASE f.status # "failed" /\ f.paid = 0
        BY <2>2, <2>5, <2>7, <2>8, <4>1, <4>2, <4>3, <4>5
      <4>6. CASE f.status # "failed" /\ f.paid # 0
        BY <1>4, <2>2, <2>7, <2>8, <4>1, <4>6
      <4> QED BY <4>4, <4>5, <4>6
    <3> QED BY <1>12, <3>1, <3>2, <3>3 DEF Callback
  <2>12. Backing(h)' - Backing(h) <= wnear' - wnear
    BY <1>1, <1>4, <2>9, <2>11
  <2> QED BY <1>6, <2>1, <2>3, <2>10, <2>12
<1> QED
  BY <1>7, <1>8, <1>9, <1>10, <1>11, <1>12
     DEF Next, RefundArrives, SyncRewards, NextEpoch, vars, contractVars, chainVars,
         ghostVars

(* An empty contract backs every residual: there is none.                   *)
LEMMA BackedInit == Init => BackedInv
<1> SUFFICES ASSUME Init PROVE BackedInv
  OBVIOUS
<1>1. LedgerInv /\ forced = {}
  BY LedgerInit DEF Init
<1>2. InFlight = {} /\ \A h : FlightsOf(h) = {}
  BY DEF Init, InFlight, FlightsOf
<1>3. YoctosLeft
  <2>1. reserve \in Nat
    BY WithdrawalsAssumption DEF Init
  <2>2. Cardinality(InFlight) = 0
    BY <1>2, FS_EmptySet
  <2> QED BY <2>1, <2>2 DEF YoctosLeft
<1>4. FlightsMatch
  BY <1>2 DEF FlightsMatch
<1>5. \A h \in Hashes : queue[h] = {} /\ ResidualOf(queue[h]) = 0
  BY NoTranche DEF Init
<1>6. QueuesSound
  BY <1>5 DEF QueuesSound, SoundQueue
<1>7. Solvency
  <2>1. \A x \in DOMAIN [h \in Hashes |-> Residual(h)] :
           [h \in Hashes |-> Residual(h)][x] = 0
    BY <1>5 DEF Residual
  <2>2. Sum(Hashes, Residual) = 0
    BY <2>1, TotalZero DEF Sum
  <2> QED BY <2>2, WithdrawalsAssumption DEF Init, Solvency
<1>8. BackingHeld
  <2>1. \A h \in Hashes : Backing(h) = 0
    BY <1>2, <1>5 DEF Backing
  <2>2. \A x \in DOMAIN [h \in Hashes |-> Backing(h)] :
           [h \in Hashes |-> Backing(h)][x] = 0
    BY <2>1
  <2>3. Sum(Hashes, Backing) = 0
    BY <2>2, TotalZero DEF Sum
  <2> QED BY <2>3 DEF Init, BackingHeld
<1> QED
  BY <1>3, <1>4, <1>6, <1>7, <1>8 DEF BackedInv

(* Every step keeps what stands behind the claims, until a lock is released *)
(* by force.                                                                *)
LEMMA BackedNext == LedgerInv /\ BackedInv /\ [Next]_vars => BackedInv'
<1> SUFFICES ASSUME LedgerInv, BackedInv, [Next]_vars PROVE BackedInv'
  OBVIOUS
<1>1. LedgerInv' /\ IInv'
  BY LedgerNext DEF LedgerInv
<1>2. YoctosLeft'
  BY YoctosStep DEF BackedInv
<1>3. ASSUME forced' = {}
      PROVE  FlightsMatch' /\ QueuesSound' /\ Solvency' /\ BackingHeld'
  <2>1. forced = {}
    BY <1>3, ForcedGrows
  <2>2. Calm /\ Solvency /\ BackingHeld
    BY <2>1 DEF BackedInv, Calm
  <2> QED BY <1>1, <1>3, <2>2, QueuesSoundStep, FlightsMatchStep, SolvencyStep, BackingStep
<1> QED
  BY <1>2, <1>3 DEF BackedInv

(* The invariant covers the wNEAR that the claims count on ...              *)
LEMMA BackedCovers ==
  LedgerInv /\ BackedInv => (forced = {} => Solvency /\ ResidualIsBacked)
<1> SUFFICES ASSUME LedgerInv, BackedInv, forced = {}
             PROVE  Solvency /\ ResidualIsBacked
  OBVIOUS
<1>1. Calm /\ Solvency /\ BackingHeld /\ QueuesSound
  BY DEF Calm, BackedInv
<1>2. ASSUME NEW h \in Hashes, NEW t \in queue[h]
      PROVE  /\ t.wnear_residual <= t.withdrawal_amount
             /\ t.wnear_residual > 0 /\ WantsStorage[h] => t.storage_was_paid
  BY <1>1, <1>2 DEF QueuesSound, SoundQueue
<1> QED
  BY <1>1, <1>2 DEF ResidualIsBacked, BackingHeld

(* ... and every check of a readable settlement.                            *)
LEMMA SettlementAlwaysFits ==
  ASSUME LedgerInv, BackedInv, forced = {}, NEW s \in Slots, Landed(s),
         flights[s].status # "unreadable"
  PROVE  SettlementFits(flights[s])
<1> DEFINE f == flights[s]
           c == [x \in Hashes |-> Claim(x)]
           r == [x \in Hashes |-> Residual(x)]
<1>1. /\ Calm /\ Solvency /\ YoctosLeft /\ IInv /\ TypeOK /\ PendingIsSumOfClaims
      /\ tracked \in Nat /\ staked \in Nat /\ pending \in Nat /\ reserve \in Int
  BY DEF Calm, BackedInv, LedgerInv, IInv, TypeOK
<1>2. f # NoFlight
  BY DEF Landed
<1>3. /\ f.hash \in Hashes /\ f \in Flight /\ f.amount_to_send \in Nat /\ f.cost \in Nat
      /\ f.storage_to_pay \in Nat /\ Consumed(f) \in Nat /\ s \in InFlight
      /\ f.amount_to_send - Consumed(f) \in Nat
  BY <1>1, <1>2, FlightTyped, BookedType
<1>4. PICK h \in Hashes : h = f.hash
  BY <1>3
<1>5. PICK t \in Locked(queue[h]) :
         /\ SentFor(f, t) /\ t.wnear_residual \in Nat /\ t \in queue[h]
         /\ t \in Tranche /\ ResidualOf(queue[h]) = t.wnear_residual
         /\ t.withdrawal_amount = f.amount_to_send + f.storage_to_pay
  BY <1>1, <1>2, <1>4, CalmFlight
<1>6. Booked(f) = Consumed(f) + f.storage_to_pay
  BY DEF Booked
<1>7. Booked(f) \in Nat /\ Booked(f) <= t.withdrawal_amount
      /\ t.withdrawal_amount \in Nat
  BY <1>3, <1>5, <1>6
<1>8. Kind[h] = "native" => Booked(f) = t.withdrawal_amount
  BY <1>4, <1>5, <1>6 DEF Consumed, IsCall
<1>9. c \in [Hashes -> Nat] /\ r \in [Hashes -> Nat] /\ \A x \in Hashes : r[x] <= c[x]
  <2>1. \A x \in Hashes : Claim(x) \in Nat
    BY <1>1, QueueFacts DEF IInv
  <2>2. \A x \in Hashes : Residual(x) \in Nat
    BY <1>1, CalmHash
  <2>3. ASSUME NEW x \in Hashes PROVE Residual(x) <= Claim(x)
    <3>1. /\ queue[x] \subseteq Tranche /\ IsFiniteSet(queue[x])
          /\ \A u \in queue[x] : u.wnear_residual <= u.withdrawal_amount
      BY <1>1, CalmHash DEF SoundQueue
    <3>2. ResidualOf(queue[x]) <= AmountOf(queue[x])
      BY <3>1, ResidualWithin
    <3> QED BY <3>2 DEF Residual, Claim
  <2> QED BY <2>1, <2>2, <2>3
<1>10. c[h] = Claim(h) /\ r[h] = t.wnear_residual
  BY <1>5 DEF Residual
<1>11. pending = Total(c) /\ tracked + Total(r) = staked + pending + reserve
  BY <1>1 DEF PendingIsSumOfClaims, Solvency, Sum
<1>12. t.withdrawal_amount <= Claim(h)
  BY <1>1, <1>5, QueueFacts DEF IInv
<1>13. Claim(h) \in Nat
  BY <1>9, <1>10
<1> HIDE DEF c, r
<1>14. /\ Total(c) \in Nat /\ Total(r) \in Nat /\ c[h] <= Total(c)
       /\ Total(r) - r[h] <= Total(c) - c[h]
  BY <1>9, WithdrawalsAssumption, TotalType, TotalMember, TotalDominates
<1>15. Booked(f) <= pending
  BY <1>1, <1>7, <1>10, <1>11, <1>12, <1>13, <1>14
<1>16. 1 <= reserve
  <2>1. IsFiniteSet(InFlight) /\ InFlight # {}
    BY <1>3, WithdrawalsAssumption, FS_Subset DEF InFlight
  <2>2. Cardinality(InFlight) \in Nat /\ Cardinality(InFlight) # 0
    BY <2>1, FS_CardinalityType, FS_EmptySet
  <2> QED BY <1>1, <2>2 DEF YoctosLeft
<1>17. TrackerDebit(f) <= tracked
  <2>1. TrackerDebit(f) = f.cost + f.storage_to_pay
    BY DEF TrackerDebit, Spent
  <2>2. f.cost = f.amount_to_send - t.wnear_residual + TransferDeposit(f.hash)
    BY <1>5 DEF SentFor
  <2>3. TransferDeposit(f.hash) \in {0, 1}
    BY DEF TransferDeposit, ONE_YOCTO
  <2>4. tracked >= reserve + (t.withdrawal_amount - t.wnear_residual)
    <3>1. \E k \in Nat : k = t.withdrawal_amount
      BY <1>7
    <3> QED BY <1>1, <1>5, <1>7, <1>10, <1>11, <1>12, <1>13, <1>14, <3>1
  <2> HIDE DEF f
  <2>5. f.cost + f.storage_to_pay <=
          1 + (t.withdrawal_amount - t.wnear_residual)
    BY <1>3, <1>5, <2>2, <2>3
  <2> QED BY <1>1, <1>3, <1>5, <1>7, <1>16, <2>1, <2>4, <2>5
<1> QED
  BY <1>4, <1>5, <1>7, <1>8, <1>15, <1>17 DEF SettlementFits

(* Backed flights settle without a panic.                                   *)
LEMMA BackedSettles == LedgerInv /\ BackedInv => NoSettlementPanic
<1> SUFFICES ASSUME LedgerInv, BackedInv PROVE NoSettlementPanic
  OBVIOUS
<1>1. TypeOK /\ \A h \in Hashes \ forced : LockHeld(h)
  BY DEF LedgerInv, IInv, LocksHeld
<1>2. ASSUME NEW h \in Hashes \ forced
      PROVE  Cardinality(FlightsOf(h)) <= 1
  <2>1. CASE FlightsOf(h) = {}
    BY <2>1, FS_EmptySet
  <2>2. CASE FlightsOf(h) # {}
    <3>1. PICK s \in FlightsOf(h) : TRUE
      BY <2>2
    <3>2. FlightsOf(h) = {s}
      BY <1>1, <3>1 DEF LockHeld
    <3>3. Cardinality({s}) = 1
      BY FS_Singleton
    <3> QED BY <3>2, <3>3
  <2> QED BY <2>1, <2>2
<1>3. ASSUME NEW s \in InFlight, flights[s].hash \notin forced
      PROVE  \E t \in Locked(queue[flights[s].hash]) :
               t.withdrawal_amount = flights[s].amount_to_send + flights[s].storage_to_pay
  <2>1. s \in Slots /\ flights[s] # NoFlight
    BY DEF InFlight
  <2>2. flights[s].hash \in Hashes /\ s \in FlightsOf(flights[s].hash)
    BY <1>1, <2>1, FlightTyped
  <2> QED BY <1>1, <1>3, <2>2 DEF LockHeld
<1>4. ASSUME NEW s \in InFlight, forced = {}, Landed(s), flights[s].status # "unreadable"
      PROVE  SettlementFits(flights[s])
  BY <1>4, SettlementAlwaysFits DEF InFlight
<1> QED
  BY <1>2, <1>3, <1>4 DEF NoSettlementPanic

-----------------------------------------------------------------------------
(* Theorems about the claims and what stands behind them.                   *)

(* Until the administrator releases a lock by force, every flight finds the *)
(* tranche it locked, at most one flight serves a hash, and the wNEAR and   *)
(* NEAR set aside for a hash cover what it is still owed (withdraw/wnear.rs *)
(* and withdraw/call.rs: the settlement of a withdrawal).                   *)
THEOREM BackedInvariance == Spec => [](LedgerInv /\ BackedInv)
<1>1. Init => LedgerInv /\ BackedInv
  BY LedgerInit, BackedInit
<1>2. (LedgerInv /\ BackedInv) /\ [Next]_vars => (LedgerInv /\ BackedInv)'
  BY LedgerNext, BackedNext
<1> QED
  BY <1>1, <1>2, PTL DEF Spec

(* With the documented procedure, force_release_lock never meets a delivery *)
(* that is not settled.                                                     *)
THEOREM VerifiedReleases == Spec => [](AdminVerifies => forced = {})
<1> DEFINE V == AdminVerifies => forced = {}
<1>1. Init => V
  BY DEF Init
<1>2. V /\ [Next]_vars => V'
  <2> SUFFICES ASSUME V, [Next]_vars, AdminVerifies PROVE forced' = {}
    OBVIOUS
  <2>1. CASE \E h \in Hashes : ForceReleaseLock(h)
    BY <2>1 DEF ForceReleaseLock
  <2>2. CASE ~\E h \in Hashes : ForceReleaseLock(h)
    BY <2>2, ForcedKept
  <2> QED BY <2>1, <2>2
<1> QED
  BY <1>1, <1>2, PTL DEF Spec

(* on_withdraw_native and on_withdraw_wnear never panic on an answer they   *)
(* can read: the claim is still locked, and total_pending_withdrawals and   *)
(* latest_total_balance cover what the callback takes off them.             *)
THEOREM SettlementsNeverPanic == Spec => []NoSettlementPanic
BY BackedSettles, BackedInvariance, PTL

(* Until a lock is released with its delivery unsettled, the contract is    *)
(* solvent and every residual is wNEAR it holds.                            *)
THEOREM SolventUntilForced == Spec => [](forced = {} => Solvency /\ ResidualIsBacked)
BY BackedCovers, BackedInvariance, PTL

(* With the documented procedure, the tracked total and the residuals       *)
(* always cover the stake behind the LST supply and the queued claims.      *)
THEOREM VerifiedIsSolvent == AdminVerifies /\ Spec => []Solvency
<1> SUFFICES ASSUME AdminVerifies PROVE Spec => []Solvency
  OBVIOUS
<1>1. (AdminVerifies => forced = {}) /\ (forced = {} => Solvency /\ ResidualIsBacked)
        => Solvency
  OBVIOUS
<1> QED
  BY <1>1, VerifiedReleases, SolventUntilForced, PTL

(* With the documented procedure, the residuals of all hashes are always    *)
(* wNEAR that the contract holds, and no retry spends another hash's.       *)
THEOREM VerifiedIsBacked == AdminVerifies /\ Spec => []ResidualIsBacked
<1> SUFFICES ASSUME AdminVerifies PROVE Spec => []ResidualIsBacked
  OBVIOUS
<1>1. (AdminVerifies => forced = {}) /\ (forced = {} => Solvency /\ ResidualIsBacked)
        => ResidualIsBacked
  OBVIOUS
<1> QED
  BY <1>1, VerifiedReleases, SolventUntilForced, PTL

-----------------------------------------------------------------------------
(* The refinement: what each step does to the claims of one hash.           *)

Cooling(h)  == [e \in 0..MaxEpoch |-> CoolingFrom(queue[h], e)]
Ready(h)    == ClaimOf(Matured(queue[h]))
Inflight(h) == ClaimOf(Locked(queue[h]))

EmptyClaim == [amount |-> 0, wnear |-> 0, storage |-> FALSE]

(* A hash without tranches claims nothing.                                  *)
LEMMA NoClaim == ClaimOf({}) = EmptyClaim
<1>1. (\E t \in {} : t.storage_was_paid) = FALSE
  OBVIOUS
<1> QED
  BY <1>1, NoTranche DEF ClaimOf, EmptyClaim

(* The claims after a step are those of the queue after it.                 *)
LEMMA ClaimsPrimed ==
  ASSUME epoch' = epoch, NEW h
  PROVE  /\ Cooling(h)' = [e \in 0..MaxEpoch |-> CoolingFrom(queue'[h], e)]
         /\ Ready(h)' = ClaimOf(Matured(queue'[h]))
         /\ Inflight(h)' = ClaimOf(Locked(queue'[h]))
BY DEF Cooling, Ready, Inflight, CoolingFrom, ClaimOf, AmountOf, ResidualOf, Matured,
       Locked, IsMatured

(* The steps of ClaimQueue, in these words.                                 *)
LEMMA ClaimsStutter ==
  ASSUME NEW h, UNCHANGED <<epoch, Cooling(h), Ready(h), Inflight(h)>>
  PROVE  [Claims(h)!Next]_(Claims(h)!vars)
BY DEF Claims!vars, Cooling, Ready, Inflight

(* A step with these effects is the Unstake of the abstract claims.         *)
LEMMA ClaimsUnstake ==
  ASSUME NEW h, NEW a \in Amounts, UNCHANGED <<epoch, Ready(h), Inflight(h)>>,
         Cooling(h)' = [Cooling(h) EXCEPT ![epoch] = @ + a]
  PROVE  [Claims(h)!Next]_(Claims(h)!vars)
<1>1. Claims(h)!Unstake
  BY DEF Claims!Unstake, Cooling, Ready, Inflight
<1> QED
  BY <1>1 DEF Claims!Next

(* A step with these effects is their Withdraw.                             *)
LEMMA ClaimsWithdraw ==
  ASSUME NEW h, UNCHANGED <<epoch, Cooling(h)>>,
         Inflight(h) = EmptyClaim, Ready(h).amount > 0,
         Inflight(h)' = Ready(h), Ready(h)' = EmptyClaim
  PROVE  [Claims(h)!Next]_(Claims(h)!vars)
<1>1. Claims(h)!Withdraw
  BY DEF Claims!Withdraw, Claims!Nothing, EmptyClaim, Cooling, Ready, Inflight
<1> QED
  BY <1>1 DEF Claims!Next

(* A step with these effects is their PayAll.                               *)
LEMMA ClaimsPayAll ==
  ASSUME NEW h, UNCHANGED <<epoch, Cooling(h), Ready(h)>>,
         Inflight(h) # EmptyClaim, Inflight(h)' = EmptyClaim
  PROVE  [Claims(h)!Next]_(Claims(h)!vars)
<1>1. Claims(h)!PayAll
  BY DEF Claims!PayAll, Claims!Nothing, EmptyClaim, Cooling, Ready, Inflight
<1> QED
  BY <1>1 DEF Claims!Next

(* A step with these effects is their PayPart.                              *)
LEMMA ClaimsPayPart ==
  ASSUME NEW h, UNCHANGED <<epoch, Cooling(h)>>,
         Inflight(h) # EmptyClaim, Inflight(h)' = EmptyClaim,
         NEW paid \in 0..(Inflight(h).amount - 1), NEW registered \in BOOLEAN,
         Ready(h)' = [amount  |-> Ready(h).amount + (Inflight(h).amount - paid),
                      wnear   |-> Ready(h).wnear + (Inflight(h).amount - paid),
                      storage |-> Ready(h).storage \/ (Inflight(h).storage \/ registered)]
  PROVE  [Claims(h)!Next]_(Claims(h)!vars)
<1>1. Claims(h)!PayPart
  BY DEF Claims!PayPart, Claims!Nothing, Claims!Plus, EmptyClaim, Cooling, Ready, Inflight
<1> QED
  BY <1>1 DEF Claims!Next

(* A step with these effects is their GiveBack.                             *)
LEMMA ClaimsGiveBack ==
  ASSUME NEW h, UNCHANGED <<epoch, Cooling(h)>>,
         Inflight(h) # EmptyClaim, Inflight(h)' = EmptyClaim,
         Ready(h)' = [amount  |-> Ready(h).amount + Inflight(h).amount,
                      wnear   |-> Ready(h).wnear + Inflight(h).wnear,
                      storage |-> Ready(h).storage \/ Inflight(h).storage]
  PROVE  [Claims(h)!Next]_(Claims(h)!vars)
<1>1. Claims(h)!GiveBack
  BY DEF Claims!GiveBack, Claims!Nothing, Claims!Plus, EmptyClaim, Cooling, Ready, Inflight
<1> QED
  BY <1>1 DEF Claims!Next

(* A step with these effects is their NextEpoch.                            *)
LEMMA ClaimsNextEpoch ==
  ASSUME NEW h, epoch' = epoch + 1, UNCHANGED Inflight(h),
         epoch' >= Cooldown =>
           /\ Ready(h)' = [Ready(h) EXCEPT !.amount = @ + Cooling(h)[epoch' - Cooldown]]
           /\ Cooling(h)' = [Cooling(h) EXCEPT ![epoch' - Cooldown] = 0],
         ~(epoch' >= Cooldown) => UNCHANGED <<Ready(h), Cooling(h)>>
  PROVE  [Claims(h)!Next]_(Claims(h)!vars)
<1>1. CASE epoch' >= Cooldown
  <2>1. Claims(h)!NextEpoch
    BY <1>1 DEF Claims!NextEpoch, Cooling, Ready, Inflight
  <2> QED BY <2>1 DEF Claims!Next
<1>2. CASE ~(epoch' >= Cooldown)
  <2>1. Claims(h)!NextEpoch
    BY <1>2 DEF Claims!NextEpoch, Cooling, Ready, Inflight
  <2> QED BY <2>1 DEF Claims!Next
<1> QED
  BY <1>1, <1>2

(* A queue that does not change, in the same epoch.                         *)
LEMMA ClaimsSame ==
  ASSUME NEW h, epoch' = epoch, queue'[h] = queue[h]
  PROVE  UNCHANGED <<Cooling(h), Ready(h), Inflight(h)>>
BY ClaimsPrimed DEF Cooling, Ready, Inflight

(* append_request adds to what cools down since this epoch.                 *)
LEMMA UnstakeClaims ==
  ASSUME Calm, NEW h \in Hashes, NEW a \in Amounts, OnUnstake(h, a)
  PROVE  [Claims(h)!Next]_(Claims(h)!vars)
<1> DEFINE A == Appended(queue[h], a)
<1>1. /\ IInv /\ epoch \in Nat /\ GoodQueue(queue[h])
      /\ SoundQueue(queue[h], Kind[h] = "call", WantsStorage[h])
  BY CalmHash
<1>2. queue'[h] = A /\ a \in Nat /\ epoch' = epoch
  BY <1>1, UnstakeQueue DEF OnUnstake, chainVars
<1>3. \A t \in queue[h] : 0 < t.withdrawal_amount
  BY <1>1 DEF SoundQueue
<1>4. /\ \A e : CoolingFrom(A, e) = IF e = epoch THEN CoolingFrom(queue[h], e) + a
                                    ELSE CoolingFrom(queue[h], e)
      /\ ClaimOf(Matured(A)) = ClaimOf(Matured(queue[h]))
      /\ Locked(A) = Locked(queue[h])
  BY <1>1, <1>2, <1>3, AppendedClaims
<1> HIDE DEF A
<1>5. /\ Cooling(h)' = [e \in 0..MaxEpoch |-> CoolingFrom(A, e)]
      /\ Ready(h)' = ClaimOf(Matured(A)) /\ Inflight(h)' = ClaimOf(Locked(A))
  BY <1>2, ClaimsPrimed
<1>6. UNCHANGED <<Ready(h), Inflight(h)>>
  BY <1>4, <1>5 DEF Ready, Inflight
<1>7. epoch \in 0..MaxEpoch
  BY <1>1 DEF IInv, TypeOK
<1>8. Cooling(h)' = [Cooling(h) EXCEPT ![epoch] = @ + a]
  BY <1>4, <1>5, <1>7 DEF Cooling
<1> QED
  BY <1>2, <1>6, <1>8, ClaimsUnstake

(* withdraw takes the whole matured claim.                                  *)
LEMMA WithdrawClaims ==
  ASSUME Calm, NEW h \in Hashes, NEW s \in Slots, Withdraw(h, s)
  PROVE  [Claims(h)!Next]_(Claims(h)!vars)
<1> DEFINE C == Collapsed(queue[h], TRUE)
<1>1. /\ IInv /\ epoch \in Nat /\ GoodQueue(queue[h])
      /\ SoundQueue(queue[h], Kind[h] = "call", WantsStorage[h])
  BY CalmHash
<1>2. /\ queue'[h] = C /\ Locked(queue[h]) = {}
      /\ epoch' = epoch /\ AmountOf(Matured(queue[h])) > 0
      /\ Matured(queue[h]) # {}
  BY <1>1, WithdrawQueue, SentFlight DEF Withdraw
<1>3. \A t \in queue[h] : 0 < t.withdrawal_amount /\ ~t.locked
  BY <1>1, <1>2 DEF SoundQueue, Locked
<1>4. /\ \A e : CoolingFrom(C, e) = CoolingFrom(queue[h], e)
      /\ Matured(C) = {} /\ ClaimOf(Locked(C)) = ClaimOf(Matured(queue[h]))
  BY <1>1, <1>2, <1>3, CollapsedClaims
<1> HIDE DEF C
<1>5. /\ Cooling(h)' = [e \in 0..MaxEpoch |-> CoolingFrom(C, e)]
      /\ Ready(h)' = ClaimOf(Matured(C)) /\ Inflight(h)' = ClaimOf(Locked(C))
  BY <1>2, ClaimsPrimed
<1>6. Ready(h)' = EmptyClaim /\ Inflight(h)' = Ready(h) /\ Inflight(h) = EmptyClaim
  BY <1>2, <1>4, <1>5, NoClaim DEF Ready, Inflight
<1>7. Cooling(h)' = Cooling(h)
  BY <1>4, <1>5 DEF Cooling
<1>8. Ready(h).amount > 0
  BY <1>2 DEF Ready, ClaimOf
<1> QED
  BY <1>2, <1>6, <1>7, <1>8, ClaimsWithdraw

(* The claim that a locked tranche stands for, and what unlocking it as u   *)
(* or removing it leaves.                                                   *)
LEMMA UnlockClaims ==
  ASSUME Calm, NEW h \in Hashes, NEW t \in Locked(queue[h]), epoch' = epoch
  PROVE  /\ Inflight(h) = [amount  |-> t.withdrawal_amount, wnear |-> t.wnear_residual,
                           storage |-> t.storage_was_paid]
         /\ Inflight(h) # EmptyClaim
         /\ t \in Tranche /\ t.withdrawal_amount \in Nat
         /\ queue'[h] = queue[h] \ {t} =>
              /\ UNCHANGED <<Cooling(h), Ready(h)>> /\ Inflight(h)' = EmptyClaim
         /\ \A u \in Tranche :
              /\ queue'[h] = (queue[h] \ {t}) \cup {u}
              /\ u.unstake_epoch = t.unstake_epoch /\ ~u.locked
              => /\ UNCHANGED Cooling(h) /\ Inflight(h)' = EmptyClaim
                 /\ Ready(h)' = [amount  |-> Ready(h).amount + u.withdrawal_amount,
                                 wnear   |-> Ready(h).wnear + u.wnear_residual,
                                 storage |-> Ready(h).storage \/ u.storage_was_paid]
<1>1. /\ IInv /\ TypeOK /\ QueuesGood /\ epoch \in Nat /\ GoodQueue(queue[h])
      /\ SoundQueue(queue[h], Kind[h] = "call", WantsStorage[h])
  BY CalmHash DEF IInv
<1>2. t \in Tranche /\ t \in queue[h] /\ Locked(queue[h]) = {t}
      /\ t.withdrawal_amount \in Nat
  BY <1>1, QueueFacts
<1>3. Inflight(h) = [amount  |-> t.withdrawal_amount, wnear |-> t.wnear_residual,
                     storage |-> t.storage_was_paid]
  BY <1>2, OneClaim DEF Inflight
<1>4. Inflight(h) # EmptyClaim
  <2>1. Inflight(h).amount = t.withdrawal_amount /\ 0 < t.withdrawal_amount
    BY <1>1, <1>2, <1>3 DEF SoundQueue
  <2>2. EmptyClaim.amount = 0
    BY DEF EmptyClaim
  <2> QED BY <1>2, <2>1, <2>2
<1>5. /\ Cooling(h)' = [e \in 0..MaxEpoch |-> CoolingFrom(queue'[h], e)]
      /\ Ready(h)' = ClaimOf(Matured(queue'[h]))
      /\ Inflight(h)' = ClaimOf(Locked(queue'[h]))
  BY ClaimsPrimed
<1>6. ASSUME NEW u \in Tranche, u.unstake_epoch = t.unstake_epoch, ~u.locked
      PROVE  ClaimUnlocked(queue[h], t, u)
  BY <1>1, <1>6, UnlockedClaims
<1>7. ASSUME queue'[h] = queue[h] \ {t}
      PROVE  UNCHANGED <<Cooling(h), Ready(h)>> /\ Inflight(h)' = EmptyClaim
  <2> DEFINE P == queue[h] \ {t}
             u == [t EXCEPT !.locked = FALSE]
  <2>1. u \in Tranche /\ u.unstake_epoch = t.unstake_epoch /\ ~u.locked
    BY <1>2 DEF Tranche
  <2> HIDE DEF u
  <2>2. /\ \A e : CoolingFrom(P, e) = CoolingFrom(queue[h], e)
        /\ Locked(P) = {} /\ Matured(P) = Matured(queue[h])
    BY <1>6, <2>1 DEF ClaimUnlocked
  <2> QED BY <1>5, <1>7, <2>2, NoClaim DEF Cooling, Ready
<1>8. ASSUME NEW u \in Tranche, queue'[h] = (queue[h] \ {t}) \cup {u},
             u.unstake_epoch = t.unstake_epoch, ~u.locked
      PROVE  /\ UNCHANGED Cooling(h) /\ Inflight(h)' = EmptyClaim
             /\ Ready(h)' = [amount  |-> Ready(h).amount + u.withdrawal_amount,
                             wnear   |-> Ready(h).wnear + u.wnear_residual,
                             storage |-> Ready(h).storage \/ u.storage_was_paid]
  <2> DEFINE R == (queue[h] \ {t}) \cup {u}
  <2>1. /\ \A e : CoolingFrom(R, e) = CoolingFrom(queue[h], e)
        /\ Locked(R) = {}
        /\ ClaimOf(Matured(R)) =
             [amount  |-> AmountOf(Matured(queue[h])) + u.withdrawal_amount,
              wnear   |-> ResidualOf(Matured(queue[h])) + u.wnear_residual,
              storage |-> (\E v \in Matured(queue[h]) : v.storage_was_paid)
                            \/ u.storage_was_paid]
    BY <1>6, <1>8 DEF ClaimUnlocked
  <2>2. /\ Ready(h).amount = AmountOf(Matured(queue[h]))
        /\ Ready(h).wnear = ResidualOf(Matured(queue[h]))
        /\ Ready(h).storage = (\E v \in Matured(queue[h]) : v.storage_was_paid)
    BY DEF Ready, ClaimOf
  <2> HIDE DEF R
  <2>3. Ready(h)' = [amount  |-> Ready(h).amount + u.withdrawal_amount,
                     wnear   |-> Ready(h).wnear + u.wnear_residual,
                     storage |-> Ready(h).storage \/ u.storage_was_paid]
    BY <1>5, <1>8, <2>1, <2>2 DEF R
  <2>4. UNCHANGED Cooling(h) /\ Inflight(h)' = EmptyClaim
    BY <1>5, <1>8, <2>1, NoClaim DEF Cooling, R
  <2> QED BY <2>3, <2>4
<1> QED
  BY <1>2, <1>3, <1>4, <1>7, <1>8

(* release_lock gives the claim back as it was.                             *)
LEMMA ReleaseClaims ==
  ASSUME Calm, NEW h \in Hashes, NEW t \in Locked(queue[h]), epoch' = epoch,
         queue' = [queue EXCEPT ![h] = Released(@)]
  PROVE  [Claims(h)!Next]_(Claims(h)!vars)
<1> DEFINE u == [t EXCEPT !.locked = FALSE]
<1>1. IInv /\ TypeOK /\ QueuesGood
  BY CalmHash DEF IInv
<1>2. t \in Tranche /\ t \in queue[h] /\ t.locked /\ Locked(queue[h]) = {t}
  BY <1>1, QueueFacts DEF Locked
<1>3. Released(queue[h]) = (queue[h] \ {t}) \cup {u}
  BY <1>2 DEF Released, Locked
<1>4. queue'[h] = (queue[h] \ {t}) \cup {u}
  BY <1>1, <1>3, ReleaseQueue
<1>5. /\ u \in Tranche /\ u.unstake_epoch = t.unstake_epoch /\ ~u.locked
      /\ u.withdrawal_amount = t.withdrawal_amount
      /\ u.wnear_residual = t.wnear_residual
      /\ u.storage_was_paid = t.storage_was_paid
  BY <1>2 DEF Tranche
<1> HIDE DEF u
<1>6. /\ Inflight(h) = [amount  |-> t.withdrawal_amount, wnear |-> t.wnear_residual,
                        storage |-> t.storage_was_paid]
      /\ Inflight(h) # EmptyClaim
  BY UnlockClaims
<1>7. /\ UNCHANGED Cooling(h) /\ Inflight(h)' = EmptyClaim
      /\ Ready(h)' = [amount  |-> Ready(h).amount + u.withdrawal_amount,
                      wnear   |-> Ready(h).wnear + u.wnear_residual,
                      storage |-> Ready(h).storage \/ u.storage_was_paid]
  BY <1>4, <1>5, UnlockClaims
<1>8. Ready(h)' = [amount  |-> Ready(h).amount + Inflight(h).amount,
                   wnear   |-> Ready(h).wnear + Inflight(h).wnear,
                   storage |-> Ready(h).storage \/ Inflight(h).storage]
  BY <1>5, <1>6, <1>7
<1> QED
  BY <1>6, <1>7, <1>8, ClaimsGiveBack

(* A settlement takes what it books off the claim in flight; the rest comes *)
(* back as wNEAR, with the storage registered if this flight paid for it.   *)
LEMMA SettleClaims ==
  ASSUME Calm, NEW s \in Slots, Settle(s), NEW h \in Hashes, h = flights[s].hash
  PROVE  [Claims(h)!Next]_(Claims(h)!vars)
<1> DEFINE f == flights[s]
<1>1. IInv /\ TypeOK /\ QueuesGood /\ GoodQueue(queue[h]) /\ epoch \in Nat
  BY CalmHash DEF IInv
<1>2. f # NoFlight /\ epoch' = epoch
  BY DEF Settle, Landed
<1>3. /\ f \in Flight /\ f.amount_to_send \in Nat /\ f.storage_to_pay \in Nat
      /\ Booked(f) \in Nat /\ Consumed(f) \in Nat
      /\ f.amount_to_send - Consumed(f) \in Nat
  BY <1>1, <1>2, FlightTyped, BookedType
<1>4. PICK t \in Locked(queue[h]) :
         /\ Locked(queue[h]) = {t} /\ t \in queue[h] /\ t \in Tranche
         /\ t.withdrawal_amount = f.amount_to_send + f.storage_to_pay
  BY <1>2, CalmFlight
<1>5. /\ queue'[h] = SettledQueue(f, queue[h])
      /\ \E u \in Locked(queue[h]) : Booked(f) <= u.withdrawal_amount
  BY <1>1, SettleQueue
<1>6. /\ Booked(f) <= t.withdrawal_amount /\ t.withdrawal_amount \in Nat
      /\ Booked(f) = Consumed(f) + f.storage_to_pay
  BY <1>3, <1>4, <1>5 DEF Booked
<1>7. /\ Inflight(h) = [amount  |-> t.withdrawal_amount, wnear |-> t.wnear_residual,
                        storage |-> t.storage_was_paid]
      /\ Inflight(h) # EmptyClaim
  BY <1>2, UnlockClaims
<1>8. {v \in queue[h] : ~v.locked} = queue[h] \ {t}
  BY <1>4 DEF Locked
<1>9. CASE t.withdrawal_amount = Booked(f)
  <2>1. SettledQueue(f, queue[h]) = queue[h] \ {t}
    BY <1>4, <1>8, <1>9 DEF SettledQueue
  <2>2. UNCHANGED <<Cooling(h), Ready(h)>> /\ Inflight(h)' = EmptyClaim
    BY <1>2, <1>5, <2>1, UnlockClaims
  <2> QED BY <1>2, <1>7, <2>2, ClaimsPayAll
<1>10. CASE t.withdrawal_amount # Booked(f)
  <2> DEFINE u == Remainder(f, t)
             paid == Booked(f)
             registered == f.storage_to_pay > 0
  <2>1. {Remainder(f, v) : v \in {w \in Locked(queue[h]) :
                                    w.withdrawal_amount # Booked(f)}} = {u}
    BY <1>4, <1>10
  <2>2. SettledQueue(f, queue[h]) = (queue[h] \ {t}) \cup {u}
    BY <1>8, <2>1 DEF SettledQueue
  <2>3. /\ u.withdrawal_amount = t.withdrawal_amount - paid
        /\ u.wnear_residual = t.withdrawal_amount - paid /\ ~u.locked
        /\ u.unstake_epoch = t.unstake_epoch
        /\ u.storage_was_paid = (t.storage_was_paid \/ registered)
    <3>1. f.amount_to_send - Consumed(f) = t.withdrawal_amount - Booked(f)
      BY <1>3, <1>4, <1>6
    <3> QED BY <3>1 DEF Remainder
  <2>4. registered \in BOOLEAN
    OBVIOUS
  <2>5. u \in Tranche
    <3>1. /\ t.withdrawal_amount - Booked(f) \in Nat /\ t.unstake_epoch \in Nat
          /\ t.storage_was_paid \in BOOLEAN
      BY <1>3, <1>4, <1>6 DEF Tranche
    <3> QED BY <1>3, <2>4, <3>1 DEF Remainder, Tranche
  <2>6. paid \in 0..(Inflight(h).amount - 1)
    BY <1>3, <1>6, <1>7, <1>10
  <2> HIDE DEF u
  <2>7. queue'[h] = (queue[h] \ {t}) \cup {u}
    BY <1>5, <2>2
  <2>8. /\ UNCHANGED Cooling(h) /\ Inflight(h)' = EmptyClaim
        /\ Ready(h)' = [amount  |-> Ready(h).amount + u.withdrawal_amount,
                        wnear   |-> Ready(h).wnear + u.wnear_residual,
                        storage |-> Ready(h).storage \/ u.storage_was_paid]
    BY <1>2, <2>3, <2>5, <2>7, UnlockClaims
  <2>9. Inflight(h).amount = t.withdrawal_amount
        /\ Inflight(h).storage = t.storage_was_paid
    BY <1>7
  <2> HIDE DEF paid, registered, f
  <2>10. Ready(h)' =
           [amount  |-> Ready(h).amount + (Inflight(h).amount - paid),
            wnear   |-> Ready(h).wnear + (Inflight(h).amount - paid),
            storage |-> Ready(h).storage \/ (Inflight(h).storage \/ registered)]
    BY <2>3, <2>8, <2>9
  <2> QED BY <1>2, <1>7, <2>4, <2>6, <2>8, <2>10, ClaimsPayPart
<1> QED
  BY <1>9, <1>10

(* In a new epoch what has cooled down joins the claim.                     *)
LEMMA EpochClaims ==
  ASSUME Calm, NextEpoch, NEW h \in Hashes
  PROVE  [Claims(h)!Next]_(Claims(h)!vars)
<1> DEFINE Q == queue[h]
           e == epoch + 1 - Cooldown
           S == \E t \in Matured(Q) : t.storage_was_paid
<1>1. /\ IInv /\ TypeOK /\ epoch \in Nat /\ GoodQueue(Q)
      /\ SoundQueue(Q, Kind[h] = "call", WantsStorage[h])
  BY CalmHash DEF IInv
<1>2. epoch < MaxEpoch /\ epoch' = epoch + 1 /\ queue' = queue
  BY DEF NextEpoch, contractVars
<1>3. Cooldown \in Nat /\ 0 < Cooldown /\ MaxEpoch \in Nat
  BY CooldownAssumption, WithdrawalsAssumption
<1>4. \A t \in Q : ~IsMatured(t) => t.wnear_residual = 0 /\ ~t.storage_was_paid
  BY <1>1 DEF SoundQueue
<1>5. /\ ClaimOf(MaturedNext(Q)) =
           [amount  |-> AmountOf(Matured(Q)) + CoolingFrom(Q, e),
            wnear   |-> ResidualOf(Matured(Q)), storage |-> S]
      /\ CoolingNext(Q, e) = 0
      /\ \A x \in Nat : x # e => CoolingNext(Q, x) = CoolingFrom(Q, x)
      /\ e < 0 => CoolingFrom(Q, e) = 0
  <2> HIDE DEF Q
  <2> QED BY <1>1, <1>4, NextEpochClaims
<1>6. /\ Cooling(h)' = [x \in 0..MaxEpoch |-> CoolingNext(Q, x)]
      /\ Ready(h)' = ClaimOf(MaturedNext(Q))
      /\ Inflight(h)' = Inflight(h)
  BY <1>2 DEF Cooling, Ready, Inflight, CoolingFrom, CoolingNext, ClaimOf, AmountOf,
              ResidualOf, Matured, MaturedNext, Locked, IsMatured
<1>7. Ready(h) = [amount  |-> AmountOf(Matured(Q)), wnear |-> ResidualOf(Matured(Q)),
                  storage |-> S]
  BY DEF Ready, ClaimOf
<1>8. AmountOf(Matured(Q)) \in Nat
  <2>1. Matured(Q) \subseteq Tranche /\ IsFiniteSet(Matured(Q))
    BY <1>1, FS_Subset DEF GoodQueue, Matured
  <2> QED BY <2>1, AmountType
<1> HIDE DEF Q, S
<1>9. CASE e < 0
  <2>1. Ready(h)' = Ready(h)
    <3>1. AmountOf(Matured(Q)) + CoolingFrom(Q, e) = AmountOf(Matured(Q))
      BY <1>5, <1>8, <1>9
    <3> QED BY <1>5, <1>6, <1>7, <3>1
  <2>2. Cooling(h)' = Cooling(h)
    <3>1. \A x \in 0..MaxEpoch : CoolingNext(Q, x) = CoolingFrom(Q, x)
      BY <1>1, <1>3, <1>5, <1>9
    <3> QED BY <1>6, <3>1 DEF Cooling, Q
  <2>3. ~(epoch' >= Cooldown)
    BY <1>1, <1>2, <1>3, <1>9
  <2> QED BY <1>2, <1>6, <2>1, <2>2, <2>3, ClaimsNextEpoch
<1>10. CASE ~(e < 0)
  <2>1. e \in 0..MaxEpoch /\ e = epoch' - Cooldown /\ epoch' >= Cooldown
    BY <1>1, <1>2, <1>3, <1>10
  <2>2. Cooling(h)[e] = CoolingFrom(Q, e)
    BY <2>1 DEF Cooling, Q
  <2> HIDE DEF e
  <2>3. Ready(h)' = [Ready(h) EXCEPT !.amount = @ + Cooling(h)[e]]
    BY <1>5, <1>6, <1>7, <2>2
  <2>4. Cooling(h)' = [Cooling(h) EXCEPT ![e] = 0]
    <3>1. \A x \in 0..MaxEpoch :
             CoolingNext(Q, x) = IF x = e THEN 0 ELSE CoolingFrom(Q, x)
      BY <1>3, <1>5
    <3>2. Cooling(h) = [x \in 0..MaxEpoch |-> CoolingFrom(Q, x)]
      BY DEF Cooling, Q
    <3> QED BY <1>6, <2>1, <3>1, <3>2
  <2> QED BY <1>2, <1>6, <2>1, <2>3, <2>4, ClaimsNextEpoch
<1> QED
  BY <1>9, <1>10

(* Every step of the contract is a step of every hash's ClaimQueue.         *)
LEMMA ClaimsStep ==
  ASSUME Calm, forced' = {}, [Next]_vars, NEW h \in Hashes
  PROVE  [Claims(h)!Next]_(Claims(h)!vars)
<1>1. IInv /\ TypeOK /\ FlightsPaid
  BY DEF Calm, LedgerInv, IInv
<1>2. ASSUME epoch' = epoch, queue'[h] = queue[h]
      PROVE  [Claims(h)!Next]_(Claims(h)!vars)
  BY <1>2, ClaimsSame, ClaimsStutter
<1>3. ASSUME NEW x \in Hashes, NEW a \in Amounts, OnUnstake(x, a)
      PROVE  [Claims(h)!Next]_(Claims(h)!vars)
  <2>1. CASE x = h
    BY <1>3, <2>1, UnstakeClaims
  <2>2. CASE x # h
    BY <1>2, <1>3, <2>2, UnstakeSound DEF OnUnstake, chainVars
  <2> QED BY <2>1, <2>2
<1>4. ASSUME NEW x \in Hashes, NEW s \in Slots, Withdraw(x, s)
      PROVE  [Claims(h)!Next]_(Claims(h)!vars)
  <2>1. CASE x = h
    BY <1>4, <2>1, WithdrawClaims
  <2>2. CASE x # h
    BY <1>2, <1>4, <2>2, WithdrawSound DEF Withdraw
  <2> QED BY <2>1, <2>2
<1>5. ASSUME NEW x \in Hashes, queue' = [queue EXCEPT ![x] = Released(@)],
             Locked(queue[x]) # {}, epoch' = epoch
      PROVE  [Claims(h)!Next]_(Claims(h)!vars)
  <2>1. CASE x = h
    BY <1>5, <2>1, ReleaseClaims
  <2>2. CASE x # h
    BY <1>2, <1>5, <2>2, ReleaseSound
  <2> QED BY <2>1, <2>2
<1>6. ASSUME NEW s \in Slots, Callback(s)
      PROVE  [Claims(h)!Next]_(Claims(h)!vars)
  <2>1. flights[s] # NoFlight
    BY <1>1, <1>6, EndedFlight
  <2>2. PICK x \in Hashes : x = flights[s].hash
    BY <1>1, <2>1, FlightTyped
  <2>3. CASE Settle(s)
    <3>1. CASE x = h
      BY <2>2, <2>3, <3>1, SettleClaims
    <3>2. CASE x # h
      BY <1>2, <2>2, <2>3, <3>2, SettleSound DEF Settle
    <3> QED BY <3>1, <3>2
  <2>4. CASE SettleFailed(s)
    <3>1. Locked(queue[x]) # {}
      BY <2>1, <2>2, CalmFlight
    <3> QED BY <1>5, <2>2, <2>4, <3>1 DEF SettleFailed
  <2>5. CASE SettlePanics(s)
    BY <1>2, <2>5 DEF SettlePanics, contractVars
  <2> QED BY <1>6, <2>3, <2>4, <2>5 DEF Callback
<1>7. ASSUME NEW x \in Hashes, ForceReleaseLock(x)
      PROVE  [Claims(h)!Next]_(Claims(h)!vars)
  BY <1>5, <1>7 DEF ForceReleaseLock, chainVars
<1>8. CASE NextEpoch
  BY <1>8, EpochClaims
<1>9. CASE UNCHANGED <<queue, epoch>>
  BY <1>2, <1>9
<1> QED
  BY <1>3, <1>4, <1>6, <1>7, <1>8, <1>9, StepCases
     DEF SyncRewards, Quiet, contractVars, chainVars

(* The empty contract is the abstract claims' initial state.                *)
LEMMA ClaimsInit ==
  ASSUME Init, NEW h \in Hashes
  PROVE  Claims(h)!Init
<1>1. queue[h] = {} /\ epoch = 0
  BY DEF Init
<1>2. \A e : {t \in queue[h] : ~IsMatured(t) /\ t.unstake_epoch = e} = {}
  BY <1>1
<1>3. \A e : CoolingFrom(queue[h], e) = 0
  BY <1>2, NoTranche DEF CoolingFrom
<1>4. Matured(queue[h]) = {} /\ Locked(queue[h]) = {}
  BY <1>1 DEF Matured, Locked
<1>5. ClaimOf(Matured(queue[h])) = EmptyClaim /\ ClaimOf(Locked(queue[h])) = EmptyClaim
  BY <1>4, NoClaim
<1> QED
  BY <1>1, <1>3, <1>5 DEF Claims!Init, Claims!Nothing, EmptyClaim

(* With the documented procedure, every hash's withdrawal queue implements  *)
(* what the doc of WithdrawalRequests promises to it: module ClaimQueue.    *)
THEOREM ClaimsAreKept == AdminVerifies /\ Spec => KeepsClaims
<1> SUFFICES ASSUME AdminVerifies PROVE Spec => KeepsClaims
  OBVIOUS
<1> DEFINE I == LedgerInv /\ BackedInv /\ forced = {}
<1>1. Init => \A h \in Hashes : Claims(h)!Init
  BY ClaimsInit
<1>2. I /\ I' /\ [Next]_vars => [\A h \in Hashes : [Claims(h)!Next]_(Claims(h)!vars)]_vars
  <2> SUFFICES ASSUME I, I', [Next]_vars, NEW h \in Hashes
               PROVE  [Claims(h)!Next]_(Claims(h)!vars)
    OBVIOUS
  <2>1. Calm
    BY DEF Calm, BackedInv
  <2>2. forced' = {}
    OBVIOUS
  <2> QED BY <2>1, <2>2, ClaimsStep
<1>3. LedgerInv /\ BackedInv /\ (AdminVerifies => forced = {}) => I
  OBVIOUS
<1>4. Spec => []I
  <2> HIDE DEF I
  <2> QED BY <1>3, BackedInvariance, VerifiedReleases, PTL
<1> HIDE DEF I
<1> QED
  BY <1>1, <1>2, <1>4, PTL DEF Spec, KeepsClaims
=============================================================================
