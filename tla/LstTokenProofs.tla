---------------------------- MODULE LstTokenProofs ----------------------------
(***************************************************************************)
(* Theorems about module LstToken, for any accounts, any number of chains   *)
(* of receipts in flight, and any amounts.                                  *)
(***************************************************************************)
EXTENDS LstToken, TotalsProofs, TLAPS

(* What every operation on the ledger keeps.                                *)
GoodLedger(T) ==
  /\ T \in Ledger
  /\ T.total_supply = Total(T.lst)
  /\ T.num_delegators = Cardinality(Holders(T.lst))

(* The accounts after a balance was set, and after an amount was moved.     *)
Changed(f, a, n) == [f EXCEPT ![a] = n]

Shifted(f, a, b, n) ==
  LET g == Changed(f, a, f[a] - n) IN Changed(g, b, g[b] + n)

(* What its balances are.                                                   *)
LEMMA ChangedBalances ==
  ASSUME NEW f \in [Accounts -> Nat], NEW a \in Accounts, NEW n \in Nat
  PROVE  /\ Changed(f, a, n) \in [Accounts -> Nat]
         /\ Changed(f, a, n)[a] = n
         /\ \A x \in Accounts \ {a} : Changed(f, a, n)[x] = f[x]
BY DEF Changed

(* Between an account and itself nothing moves.                            *)
LEMMA ShiftedBalances ==
  ASSUME NEW f \in [Accounts -> Nat], NEW a \in Accounts, NEW b \in Accounts,
         NEW n \in Nat, n <= f[a]
  PROVE  /\ Shifted(f, a, b, n) \in [Accounts -> Nat]
         /\ a = b => Shifted(f, a, b, n) = f
         /\ a # b => /\ Shifted(f, a, b, n)[a] = f[a] - n
                     /\ Shifted(f, a, b, n)[b] = f[b] + n
         /\ \A x \in Accounts \ {a, b} : Shifted(f, a, b, n)[x] = f[x]
<1> DEFINE g == Changed(f, a, f[a] - n)
           k == Changed(g, b, g[b] + n)
<1>1. f[a] \in Nat /\ f[b] \in Nat /\ f[a] - n \in Nat
  OBVIOUS
<1>2. /\ g \in [Accounts -> Nat] /\ g[a] = f[a] - n
      /\ \A x \in Accounts \ {a} : g[x] = f[x]
  BY <1>1, ChangedBalances
<1> HIDE DEF g
<1>3. g[b] + n \in Nat
  BY <1>2
<1>4. /\ k \in [Accounts -> Nat] /\ k[b] = g[b] + n
      /\ \A x \in Accounts \ {b} : k[x] = g[x]
  BY <1>2, <1>3, ChangedBalances
<1> HIDE DEF k
<1>5. ASSUME a = b PROVE k = f
  <2>1. \A x \in Accounts : k[x] = f[x]
    BY <1>1, <1>2, <1>4, <1>5
  <2> QED BY <1>4, <2>1
<1>6. a # b => k[a] = f[a] - n /\ k[b] = f[b] + n
  BY <1>1, <1>2, <1>4
<1>7. \A x \in Accounts \ {a, b} : k[x] = f[x]
  BY <1>2, <1>4
<1>8. Shifted(f, a, b, n) = k
  BY DEF Shifted, g, k
<1> QED
  BY <1>4, <1>5, <1>6, <1>7, <1>8

(* The users and the two accounts of the contract are finitely many.       *)
LEMMA AccountsFinite == IsFiniteSet(Accounts)
<1>1. IsFiniteSet(Users)
  BY LstTokenAssumption
<1>2. IsFiniteSet({"pool"})
  BY FS_Singleton
<1>3. IsFiniteSet({"pool"} \cup {"treasury"})
  BY <1>2, FS_AddElement
<1>4. {"pool"} \cup {"treasury"} = {"pool", "treasury"}
  OBVIOUS
<1> QED
  BY <1>1, <1>3, <1>4, FS_Union DEF Accounts

-----------------------------------------------------------------------------
(* Operations on the ledger.                                                *)

(* A balance that moves changes the number of holders only where it crosses *)
(* zero.                                                                    *)
LEMMA HoldersUpdate ==
  ASSUME NEW f \in [Accounts -> Nat], NEW a \in Accounts, NEW n \in Nat
  PROVE  LET H == Cardinality(Holders(f))
             K == Cardinality(Holders([f EXCEPT ![a] = n]))
         IN  /\ H \in Nat
             /\ f[a] = 0 /\ n > 0 => K = H + 1
             /\ f[a] > 0 /\ n = 0 => K = H - 1 /\ H > 0
             /\ (f[a] = 0 <=> n = 0) => K = H
<1> DEFINE g == [f EXCEPT ![a] = n]
           S == Holders(f)
<1>1. IsFiniteSet(S) /\ Cardinality(S) \in Nat
  <2>1. S \in SUBSET Accounts
    BY DEF Holders
  <2> HIDE DEF S
  <2> QED BY <2>1, AccountsFinite, FS_Subset, FS_CardinalityType
<1>2. /\ a \in S <=> f[a] > 0
      /\ Holders(g) = IF n > 0 THEN S \cup {a} ELSE S \ {a}
  BY DEF Holders
<1> HIDE DEF g, S
<1>3. /\ Cardinality(S \cup {a}) = IF a \in S THEN Cardinality(S) ELSE Cardinality(S) + 1
      /\ Cardinality(S \ {a}) = IF a \in S THEN Cardinality(S) - 1 ELSE Cardinality(S)
      /\ Cardinality(S \ {a}) \in Nat
  BY <1>1, FS_AddElement, FS_RemoveElement, FS_CardinalityType
<1>4. f[a] \in Nat
  OBVIOUS
<1>5. /\ Cardinality(S) \in Nat
      /\ f[a] = 0 /\ n > 0 => Cardinality(Holders(g)) = Cardinality(S) + 1
      /\ f[a] > 0 /\ n = 0 =>
           Cardinality(Holders(g)) = Cardinality(S) - 1 /\ Cardinality(S) > 0
      /\ (f[a] = 0 <=> n = 0) => Cardinality(Holders(g)) = Cardinality(S)
  BY <1>1, <1>2, <1>3, <1>4
<1> QED
  BY <1>5 DEF g, S

(* No balance exceeds the sum of all.                                       *)
LEMMA PartOfTotal ==
  ASSUME NEW S, IsFiniteSet(S), NEW f \in [S -> Nat], NEW x \in S
  PROVE  Total(f) \in Nat /\ f[x] <= Total(f)
<1>1. Total(f) \in Nat
  BY TotalType
<1> DEFINE g == [f EXCEPT ![x] = 0]
<1>2. g \in [S -> Nat]
  OBVIOUS
<1>3. Total(g) = Total(f) - f[x]
  <2>1. \A n \in Nat : Total([f EXCEPT ![x] = n]) = Total(f) - f[x] + n
    BY TotalUpdate
  <2>2. 0 \in Nat /\ f[x] \in Nat
    OBVIOUS
  <2>3. Total(g) = Total(f) - f[x] + 0
    BY <2>1, <2>2, Zenon
  <2> HIDE DEF g
  <2> QED BY <1>1, <2>2, <2>3
<1> HIDE DEF g
<1>4. Total(g) \in Nat
  BY <1>2, TotalType
<1>5. f[x] \in Nat
  OBVIOUS
<1> QED
  BY <1>1, <1>3, <1>4, <1>5

(* update_delegators makes good a ledger in which one account was changed.  *)
LEMMA Counted ==
  ASSUME NEW T, GoodLedger(T), NEW a \in Accounts, NEW n \in Nat, NEW U \in Ledger,
         U.lst = Changed(T.lst, a, n),
         U.total_supply = T.total_supply - T.lst[a] + n,
         U.num_delegators = T.num_delegators
  PROVE  /\ GoodLedger(update_delegators(T, U, a))
         /\ update_delegators(T, U, a).lst = U.lst
<1> DEFINE V == update_delegators(T, U, a)
           H == Cardinality(Holders(T.lst))
           K == Cardinality(Holders(U.lst))
<1>1. /\ T.lst \in [Accounts -> Nat] /\ T.lst[a] \in Nat /\ U.lst[a] = n
      /\ T.num_delegators = H /\ T.total_supply = Total(T.lst)
  BY DEF GoodLedger, Ledger, Changed
<1>2. /\ H \in Nat
      /\ T.lst[a] = 0 /\ n > 0 => K = H + 1
      /\ T.lst[a] > 0 /\ n = 0 => K = H - 1 /\ H > 0
      /\ (T.lst[a] = 0 <=> n = 0) => K = H
  BY <1>1, HoldersUpdate DEF Changed
<1>3. U.total_supply = Total(U.lst)
  BY <1>1, AccountsFinite, TotalUpdate DEF Changed
<1> HIDE DEF H, K
<1>4. /\ V.lst = U.lst /\ V.total_supply = U.total_supply
      /\ V.num_delegators = K /\ K \in Nat
  BY <1>1, <1>2 DEF update_delegators, decrease_delegators, Ledger
<1>5. V \in Ledger
  BY <1>4 DEF update_delegators, Ledger
<1> QED
  BY <1>3, <1>4, <1>5 DEF GoodLedger, K

(* What the token library does to one account.                              *)
LEMMA OneAccount ==
  ASSUME NEW T \in Ledger, NEW a \in Accounts, NEW n \in Nat
  PROVE  /\ Minted(T, a, n) \in Ledger
         /\ Minted(T, a, n).lst = Changed(T.lst, a, T.lst[a] + n)
         /\ Minted(T, a, n).total_supply = T.total_supply + n
         /\ Minted(T, a, n).num_delegators = T.num_delegators
         /\ n <= T.lst[a] /\ n <= T.total_supply => Burned(T, a, n) \in Ledger
         /\ Burned(T, a, n).lst = Changed(T.lst, a, T.lst[a] - n)
         /\ Burned(T, a, n).total_supply = T.total_supply - n
         /\ Burned(T, a, n).num_delegators = T.num_delegators
<1>1. /\ T.lst \in [Accounts -> Nat] /\ T.lst[a] \in Nat /\ T.total_supply \in Nat
      /\ T.lst[a] + n \in Nat /\ T.total_supply + n \in Nat
  BY DEF Ledger
<1>2. Changed(T.lst, a, T.lst[a] + n) \in [Accounts -> Nat]
  BY <1>1, ChangedBalances
<1>3. Minted(T, a, n) \in Ledger
  BY <1>1, <1>2 DEF Ledger, Minted, Changed
<1>4. ASSUME n <= T.lst[a], n <= T.total_supply
      PROVE  Burned(T, a, n) \in Ledger
  <2>1. T.lst[a] - n \in Nat /\ T.total_supply - n \in Nat
    BY <1>1, <1>4
  <2>2. Changed(T.lst, a, T.lst[a] - n) \in [Accounts -> Nat]
    BY <1>1, <2>1, ChangedBalances
  <2> QED BY <1>1, <2>1, <2>2 DEF Ledger, Burned, Changed
<1>5. /\ Minted(T, a, n).lst = Changed(T.lst, a, T.lst[a] + n)
      /\ Minted(T, a, n).total_supply = T.total_supply + n
      /\ Minted(T, a, n).num_delegators = T.num_delegators
  BY <1>1 DEF Ledger, Minted, Changed
<1>6. /\ Burned(T, a, n).lst = Changed(T.lst, a, T.lst[a] - n)
      /\ Burned(T, a, n).total_supply = T.total_supply - n
      /\ Burned(T, a, n).num_delegators = T.num_delegators
  BY <1>1 DEF Ledger, Burned, Changed
<1> QED
  BY <1>3, <1>4, <1>5, <1>6

(* internal_deposit keeps a good ledger good, and adds to one account.     *)
LEMMA Deposited ==
  ASSUME NEW T, GoodLedger(T), NEW a \in Accounts, NEW n \in Nat
  PROVE  /\ GoodLedger(internal_deposit(T, a, n))
         /\ internal_deposit(T, a, n).lst = Changed(T.lst, a, T.lst[a] + n)
<1> DEFINE U == Minted(T, a, n)
<1>1. /\ T \in Ledger /\ T.lst \in [Accounts -> Nat]
      /\ T.lst[a] \in Nat /\ T.lst[a] + n \in Nat /\ T.total_supply \in Nat
  BY DEF GoodLedger, Ledger
<1>2. /\ U \in Ledger /\ U.lst = Changed(T.lst, a, T.lst[a] + n)
      /\ U.total_supply = T.total_supply + n /\ U.num_delegators = T.num_delegators
  BY <1>1, OneAccount
<1> HIDE DEF U
<1>3. U.total_supply = T.total_supply - T.lst[a] + (T.lst[a] + n)
  BY <1>1, <1>2
<1>4. GoodLedger(update_delegators(T, U, a)) /\ update_delegators(T, U, a).lst = U.lst
  BY <1>1, <1>2, <1>3, Counted
<1> QED
  BY <1>2, <1>4 DEF internal_deposit, U

(* internal_withdraw of what is there keeps a good ledger good.            *)
LEMMA Withdrawn ==
  ASSUME NEW T, GoodLedger(T), NEW a \in Accounts, NEW n \in Nat, n <= T.lst[a]
  PROVE  /\ GoodLedger(internal_withdraw(T, a, n))
         /\ internal_withdraw(T, a, n).lst = Changed(T.lst, a, T.lst[a] - n)
<1> DEFINE U == Burned(T, a, n)
<1>1. /\ T \in Ledger /\ T.lst \in [Accounts -> Nat]
      /\ T.lst[a] \in Nat /\ T.lst[a] - n \in Nat /\ T.total_supply \in Nat
  BY DEF GoodLedger, Ledger
<1>2. T.lst[a] <= T.total_supply
  BY <1>1, AccountsFinite, PartOfTotal DEF GoodLedger
<1>3. /\ U \in Ledger /\ U.lst = Changed(T.lst, a, T.lst[a] - n)
      /\ U.total_supply = T.total_supply - n /\ U.num_delegators = T.num_delegators
  <2>1. n <= T.total_supply
    BY <1>1, <1>2
  <2> QED BY <1>1, <2>1, OneAccount
<1> HIDE DEF U
<1>4. U.total_supply = T.total_supply - T.lst[a] + (T.lst[a] - n)
  BY <1>1, <1>3
<1>5. GoodLedger(update_delegators(T, U, a)) /\ update_delegators(T, U, a).lst = U.lst
  BY <1>1, <1>3, <1>4, Counted
<1> QED
  BY <1>3, <1>5 DEF internal_withdraw, U

(* The number of holders k after a balance went from x to y.                *)
Crossed(x, y, k) ==
  CASE x = 0 /\ y > 0 -> k + 1
    [] x > 0 /\ y = 0 -> decrease_delegators(k)
    [] OTHER          -> k

(* update_delegators touches the number of holders only.                   *)
LEMMA CountedField ==
  ASSUME NEW T \in Ledger, NEW U \in Ledger, NEW a \in Accounts
  PROVE  /\ update_delegators(T, U, a) \in Ledger
         /\ update_delegators(T, U, a).lst = U.lst
         /\ update_delegators(T, U, a).total_supply = U.total_supply
         /\ update_delegators(T, U, a).num_delegators =
              Crossed(T.lst[a], U.lst[a], U.num_delegators)
<1>1. /\ T.lst[a] \in Nat /\ U.lst[a] \in Nat /\ U.num_delegators \in Nat
      /\ U.lst \in [Accounts -> Nat] /\ U.total_supply \in Nat
  BY DEF Ledger
<1>2. Crossed(T.lst[a], U.lst[a], U.num_delegators) \in Nat
  BY <1>1 DEF Crossed, decrease_delegators
<1>3. update_delegators(T, U, a) =
        [U EXCEPT !.num_delegators = Crossed(T.lst[a], U.lst[a], U.num_delegators)]
  BY DEF update_delegators, Crossed
<1> QED
  BY <1>1, <1>2, <1>3 DEF Ledger

(* What the token library does to two accounts; the supply stays.          *)
LEMMA Moving ==
  ASSUME NEW T \in Ledger, NEW a \in Accounts, NEW b \in Accounts,
         NEW n \in Nat, n <= T.lst[a], n <= T.total_supply
  PROVE  /\ Moved(T, a, b, n) \in Ledger
         /\ Moved(T, a, b, n).lst = Shifted(T.lst, a, b, n)
         /\ Moved(T, a, b, n).total_supply = T.total_supply
         /\ Moved(T, a, b, n).num_delegators = T.num_delegators
<1> DEFINE B == Burned(T, a, n)
           M == Minted(B, b, n)
<1>1. T.total_supply \in Nat
  BY DEF Ledger
<1>2. /\ B \in Ledger /\ B.lst = Changed(T.lst, a, T.lst[a] - n)
      /\ B.total_supply = T.total_supply - n /\ B.num_delegators = T.num_delegators
  BY OneAccount
<1> HIDE DEF B
<1>3. /\ M \in Ledger /\ M.lst = Changed(B.lst, b, B.lst[b] + n)
      /\ M.total_supply = B.total_supply + n /\ M.num_delegators = B.num_delegators
  BY <1>2, OneAccount
<1> HIDE DEF M
<1>4. M.lst = Shifted(T.lst, a, b, n)
  BY <1>2, <1>3 DEF Shifted
<1>5. M.total_supply = T.total_supply /\ M.num_delegators = T.num_delegators
  BY <1>1, <1>2, <1>3
<1> QED
  BY <1>3, <1>4, <1>5 DEF Moved, B, M

(* A transfer between two accounts is a withdrawal and a deposit; between   *)
(* an account and itself it is nothing.                                     *)
LEMMA Transferred ==
  ASSUME NEW T, GoodLedger(T), NEW a \in Accounts, NEW b \in Accounts,
         NEW n \in Nat, n <= T.lst[a]
  PROVE  /\ GoodLedger(transfer_tokens(T, a, b, n))
         /\ transfer_tokens(T, a, b, n).lst = Shifted(T.lst, a, b, n)
<1> DEFINE M == Moved(T, a, b, n)
           X == update_delegators(T, M, a)
           U == transfer_tokens(T, a, b, n)
           f == Shifted(T.lst, a, b, n)
<1>1. /\ T \in Ledger /\ T.lst \in [Accounts -> Nat]
      /\ T.lst[a] \in Nat /\ T.lst[b] \in Nat /\ T.num_delegators \in Nat
      /\ T.total_supply = Total(T.lst) /\ T.num_delegators = Cardinality(Holders(T.lst))
  BY DEF GoodLedger, Ledger
<1>2. n <= T.total_supply
  <2>1. T.lst[a] <= T.total_supply /\ T.total_supply \in Nat
    BY <1>1, AccountsFinite, PartOfTotal
  <2> QED BY <1>1, <2>1
<1>3. /\ M \in Ledger /\ M.lst = f /\ M.total_supply = T.total_supply
      /\ M.num_delegators = T.num_delegators
  BY <1>1, <1>2, Moving
<1>4. U = update_delegators(T, X, b)
  BY DEF transfer_tokens
<1> HIDE DEF M, U
<1>5. /\ X \in Ledger /\ X.lst = f /\ X.total_supply = T.total_supply
      /\ X.num_delegators = Crossed(T.lst[a], f[a], T.num_delegators)
  <2>1. /\ X \in Ledger /\ X.lst = M.lst /\ X.total_supply = M.total_supply
        /\ X.num_delegators = Crossed(T.lst[a], M.lst[a], M.num_delegators)
    BY <1>1, <1>3, CountedField
  <2> HIDE DEF X, f
  <2> QED BY <1>3, <2>1
<1> HIDE DEF X
<1>6. /\ U \in Ledger /\ U.lst = f /\ U.total_supply = T.total_supply
      /\ U.num_delegators = Crossed(T.lst[b], f[b], X.num_delegators)
  <2>1. /\ U \in Ledger /\ U.lst = X.lst /\ U.total_supply = X.total_supply
        /\ U.num_delegators = Crossed(T.lst[b], X.lst[b], X.num_delegators)
    BY <1>1, <1>4, <1>5, CountedField
  <2> HIDE DEF f
  <2> QED BY <1>5, <2>1
<1>7. CASE a = b
  <2>1. f = T.lst
    BY <1>1, <1>7, ShiftedBalances
  <2>2. U.num_delegators = T.num_delegators
    <3> HIDE DEF f
    <3> QED BY <1>1, <1>5, <1>6, <2>1 DEF Crossed
  <2> QED BY <1>1, <1>6, <2>1, <2>2 DEF GoodLedger, U
<1>8. CASE a # b
  <2> DEFINE W == internal_withdraw(T, a, n)
             V == internal_deposit(W, b, n)
  <2>1. GoodLedger(W) /\ W.lst = Changed(T.lst, a, T.lst[a] - n)
    BY Withdrawn
  <2>2. /\ W.total_supply = T.total_supply - n
        /\ W.num_delegators = Crossed(T.lst[a], T.lst[a] - n, T.num_delegators)
    <3>2. /\ Burned(T, a, n) \in Ledger
          /\ Burned(T, a, n).lst = Changed(T.lst, a, T.lst[a] - n)
          /\ Burned(T, a, n).total_supply = T.total_supply - n
          /\ Burned(T, a, n).num_delegators = T.num_delegators
      BY <1>1, <1>2, OneAccount
    <3>3. Burned(T, a, n).lst[a] = T.lst[a] - n
      <4>1. T.lst[a] - n \in Nat
        BY <1>1
      <4>2. Changed(T.lst, a, T.lst[a] - n)[a] = T.lst[a] - n
        BY <1>1, <4>1, ChangedBalances
      <4> QED BY <3>2, <4>2
    <3> DEFINE B == Burned(T, a, n)
    <3> HIDE DEF B
    <3>4. /\ W.total_supply = B.total_supply
          /\ W.num_delegators = Crossed(T.lst[a], B.lst[a], B.num_delegators)
      BY <1>1, <3>2, CountedField DEF internal_withdraw, B
    <3> HIDE DEF W
    <3> QED BY <3>2, <3>3, <3>4 DEF B
  <2> HIDE DEF W
  <2>3. W \in Ledger /\ W.lst[b] = T.lst[b] /\ W.total_supply \in Nat
    BY <1>1, <1>8, <2>1, ChangedBalances DEF GoodLedger, Ledger
  <2>4. GoodLedger(V) /\ V.lst = Changed(W.lst, b, W.lst[b] + n)
    BY <2>1, Deposited
  <2>5. /\ V.total_supply = W.total_supply + n
        /\ V.num_delegators = Crossed(T.lst[b], T.lst[b] + n, W.num_delegators)
    <3>1. /\ Minted(W, b, n) \in Ledger
          /\ Minted(W, b, n).lst = Changed(W.lst, b, W.lst[b] + n)
          /\ Minted(W, b, n).total_supply = W.total_supply + n
          /\ Minted(W, b, n).num_delegators = W.num_delegators
      BY <2>3, OneAccount
    <3>2. Minted(W, b, n).lst[b] = T.lst[b] + n
      BY <2>3, <3>1, ChangedBalances DEF Ledger
    <3> DEFINE D == Minted(W, b, n)
    <3> HIDE DEF D
    <3>3. /\ V.total_supply = D.total_supply
          /\ V.num_delegators = Crossed(W.lst[b], D.lst[b], D.num_delegators)
      BY <2>3, <3>1, CountedField DEF internal_deposit, D
    <3> HIDE DEF V
    <3> QED BY <2>3, <3>1, <3>2, <3>3 DEF D
  <2> HIDE DEF V
  <2>6. V.lst = f /\ f[a] = T.lst[a] - n /\ f[b] = T.lst[b] + n
    <3>1. V.lst = f
      BY <2>1, <2>4 DEF Shifted
    <3> QED BY <1>1, <1>8, <3>1, ShiftedBalances
  <2>7. V.total_supply = T.total_supply
    <3>1. T.total_supply \in Nat
      BY <1>1 DEF Ledger
    <3> QED BY <2>2, <2>5, <3>1
  <2> HIDE DEF f
  <2>8. U.num_delegators = V.num_delegators
    BY <1>5, <1>6, <2>2, <2>5, <2>6
  <2> QED BY <1>6, <2>4, <2>6, <2>7, <2>8 DEF GoodLedger, U, f
<1> QED
  BY <1>7, <1>8

(* What a resolver takes back is there, and the rest follows from the cases. *)
LEMMA Resolved ==
  ASSUME NEW T, GoodLedger(T), NEW a \in Accounts, NEW b \in Accounts, NEW u \in Nat
  PROVE  /\ Refund(T, b, u) \in Nat /\ Refund(T, b, u) <= T.lst[b]
         /\ T.lst[b] >= u => Refund(T, b, u) = u
         /\ GoodLedger(ft_resolve_transfer(T, a, b, u))
         /\ a \in registered =>
              ft_resolve_transfer(T, a, b, u).lst = Shifted(T.lst, b, a, Refund(T, b, u))
         /\ a \notin registered =>
              ft_resolve_transfer(T, a, b, u).lst =
                Changed(T.lst, b, T.lst[b] - Refund(T, b, u))
<1> DEFINE n == Refund(T, b, u)
           U == ft_resolve_transfer(T, a, b, u)
<1>1. T.lst[b] \in Nat
  BY DEF GoodLedger, Ledger
<1>2. n \in Nat /\ n <= T.lst[b] /\ (T.lst[b] >= u => n = u)
  BY <1>1 DEF Refund
<1>3. CASE a \in registered
  <2>1. U = transfer_tokens(T, b, a, n)
    BY <1>3 DEF ft_resolve_transfer
  <2> HIDE DEF n, U
  <2>2. GoodLedger(U) /\ U.lst = Shifted(T.lst, b, a, n)
    BY <1>2, <2>1, Transferred
  <2> QED BY <1>2, <1>3, <2>2 DEF n, U
<1>4. CASE a \notin registered
  <2>1. U = internal_withdraw(T, b, n)
    BY <1>4 DEF ft_resolve_transfer
  <2> HIDE DEF n, U
  <2>2. GoodLedger(U) /\ U.lst = Changed(T.lst, b, T.lst[b] - n)
    BY <1>2, <2>1, Withdrawn
  <2> QED BY <1>2, <1>4, <2>2 DEF n, U
<1> QED
  BY <1>3, <1>4

(* An account that unregisters with force.                                  *)
LEMMA UnregisteredGood ==
  ASSUME NEW T, GoodLedger(T), NEW a \in Accounts
  PROVE  /\ GoodLedger(Unregistered(T, a))
         /\ Unregistered(T, a).lst = Changed(T.lst, a, 0)
<1> DEFINE n == T.lst[a]
           U == Unregistered(T, a)
           W == internal_withdraw(T, a, n)
<1>1. T \in Ledger /\ T.lst \in [Accounts -> Nat] /\ n \in Nat /\ n - n = 0 /\ n <= n
  BY DEF GoodLedger, Ledger
<1>2. GoodLedger(W) /\ W.lst = Changed(T.lst, a, 0)
  <2>1. GoodLedger(W) /\ W.lst = Changed(T.lst, a, n - n)
    BY <1>1, Withdrawn
  <2> QED BY <1>1, <2>1
<1>3. U.lst = Changed(T.lst, a, 0) /\ U.total_supply = T.total_supply - n
  BY <1>1 DEF Unregistered, Changed, Ledger
<1>4. U.num_delegators = Crossed(n, 0, T.num_delegators)
  BY <1>1 DEF Unregistered, Crossed, Ledger
<1>5. W.total_supply = T.total_supply - n /\ W.num_delegators = Crossed(n, 0, T.num_delegators)
  <2> DEFINE B == Burned(T, a, n)
  <2>1. n <= T.total_supply
    BY <1>1, AccountsFinite, PartOfTotal DEF GoodLedger
  <2>2. /\ B \in Ledger /\ B.lst = Changed(T.lst, a, n - n)
        /\ B.total_supply = T.total_supply - n /\ B.num_delegators = T.num_delegators
    BY <1>1, <2>1, OneAccount
  <2>3. B.lst[a] = 0
    BY <1>1, <2>2, ChangedBalances
  <2> HIDE DEF B
  <2>4. /\ W.total_supply = B.total_supply
        /\ W.num_delegators = Crossed(T.lst[a], B.lst[a], B.num_delegators)
    BY <1>1, <2>2, CountedField DEF internal_withdraw, B
  <2> HIDE DEF W
  <2> QED BY <2>2, <2>3, <2>4
<1>6. U \in Ledger
  <2> DEFINE k == IF n > 0 THEN decrease_delegators(T.num_delegators)
                           ELSE T.num_delegators
  <2>1. [T.lst EXCEPT ![a] = 0] \in [Accounts -> Nat]
    BY <1>1
  <2>2. T.total_supply - n \in Nat
    BY <1>2, <1>5 DEF GoodLedger, Ledger
  <2>3. k \in Nat
    BY <1>1 DEF decrease_delegators, Ledger
  <2>4. U = [T EXCEPT !.lst[a] = 0, !.total_supply = @ - n, !.num_delegators = k]
    BY DEF Unregistered
  <2> HIDE DEF U, k
  <2>5. [T EXCEPT !.lst[a] = 0, !.total_supply = @ - n, !.num_delegators = k] \in Ledger
    BY <1>1, <2>1, <2>2, <2>3 DEF Ledger
  <2> QED BY <2>4, <2>5
<1> HIDE DEF U, W
<1>7. GoodLedger(U)
  BY <1>2, <1>3, <1>4, <1>5, <1>6 DEF GoodLedger
<1> QED
  BY <1>3, <1>7 DEF U

(* internal_transfer is counted like transfer_tokens.                      *)
LEMMA InternalTransferred ==
  ASSUME NEW T, GoodLedger(T), NEW a \in Accounts, NEW b \in Accounts,
         NEW n \in Nat, n <= T.lst[a]
  PROVE  /\ GoodLedger(internal_transfer(T, a, b, n))
         /\ internal_transfer(T, a, b, n).lst = Shifted(T.lst, a, b, n)
<1> DEFINE W == internal_withdraw(T, a, n)
           V == internal_deposit(W, b, n)
<1>1. GoodLedger(W) /\ W.lst = Changed(T.lst, a, T.lst[a] - n)
  BY Withdrawn
<1> HIDE DEF W
<1>2. GoodLedger(V) /\ V.lst = Changed(W.lst, b, W.lst[b] + n)
  BY <1>1, Deposited
<1> HIDE DEF V
<1> QED
  BY <1>1, <1>2 DEF internal_transfer, Shifted, V, W

-----------------------------------------------------------------------------
(* The invariant.  EscrowCovered is why no burn or delivery finds less than *)
(* it needs; the pool's account must be registered to take back a refund.   *)
IInv ==
  /\ TypeOK
  /\ {"pool", "treasury"} \subseteq registered
  /\ GoodLedger(ledger)
  /\ EscrowCovered

(* A claim is a natural number.                                            *)
LEMMA EscrowedType ==
  ASSUME NEW c \in Chain \cup {Idle}
  PROVE  Escrowed(c) \in Nat
BY DEF Escrowed, Chain, Idle

(* The LST of one chain is there.                                           *)
LEMMA EscrowOfChain ==
  ASSUME IInv, NEW s \in Slots
  PROVE  /\ ledger.lst \in [Accounts -> Nat] /\ "pool" \in Accounts
         /\ chains[s] \in Chain \cup {Idle}
         /\ Escrowed(chains[s]) \in Nat
         /\ Escrowed(chains[s]) <= ledger.lst["pool"]
<1> DEFINE e == [x \in Slots |-> Escrowed(chains[x])]
<1>1. /\ ledger.lst \in [Accounts -> Nat] /\ "pool" \in Accounts
      /\ \A x \in Slots : chains[x] \in Chain \cup {Idle}
  BY DEF IInv, TypeOK, Ledger, Accounts
<1>2. e \in [Slots -> Nat]
  BY <1>1, EscrowedType
<1>3. e[s] = Escrowed(chains[s])
  OBVIOUS
<1>4. Total(e) <= ledger.lst["pool"]
  BY DEF IInv, EscrowCovered
<1> HIDE DEF e
<1>5. Total(e) \in Nat /\ e[s] <= Total(e) /\ e[s] \in Nat
  BY <1>2, PartOfTotal, LstTokenAssumption
<1>6. ledger.lst["pool"] \in Nat
  BY <1>1
<1> QED
  BY <1>1, <1>3, <1>4, <1>5, <1>6

(* A step of one chain that lets go of the pool's LST no more than of its   *)
(* own claim on them.                                                       *)
LEMMA ChainStep ==
  ASSUME IInv, NEW s \in Slots, NEW c \in Chain \cup {Idle},
         chains' = [chains EXCEPT ![s] = c],
         registered' = registered, GoodLedger(ledger'),
         ledger.lst["pool"] - Escrowed(chains[s]) <= ledger'.lst["pool"] - Escrowed(c)
  PROVE  IInv'
<1> DEFINE e == [x \in Slots |-> Escrowed(chains[x])]
           k == Escrowed(c)
           d == [x \in Slots |-> Escrowed(chains'[x])]
<1>1. /\ ledger.lst["pool"] \in Nat /\ Escrowed(chains[s]) \in Nat /\ k \in Nat
      /\ Escrowed(chains[s]) <= ledger.lst["pool"]
  BY EscrowOfChain, EscrowedType
<1>2. /\ chains \in [Slots -> Chain \cup {Idle}]
      /\ registered \subseteq Accounts /\ {"pool", "treasury"} \subseteq registered
      /\ Total(e) <= ledger.lst["pool"]
  BY DEF IInv, TypeOK, EscrowCovered
<1>3. e \in [Slots -> Nat] /\ e[s] = Escrowed(chains[s])
  BY <1>2, EscrowedType
<1>4. d = [e EXCEPT ![s] = k]
  BY <1>2
<1>5. ledger' \in Ledger /\ ledger'.lst["pool"] \in Nat
  BY <1>1, EscrowOfChain DEF GoodLedger, Ledger
<1> HIDE DEF e, k, d
<1>6. Total(d) = Total(e) - e[s] + k /\ Total(e) \in Nat
  <2>1. IsFiniteSet(Slots)
    BY LstTokenAssumption
  <2>2. \A n \in Nat : Total([e EXCEPT ![s] = n]) = Total(e) - e[s] + n
    BY <1>3, <2>1, TotalUpdate
  <2>3. Total([e EXCEPT ![s] = k]) = Total(e) - e[s] + k
    BY <1>1, <2>2, Zenon
  <2>4. Total(e) \in Nat
    BY <1>3, <2>1, TotalType
  <2> QED BY <1>4, <2>3, <2>4, Zenon
<1>7. Total(d) <= ledger'.lst["pool"]
  BY <1>1, <1>2, <1>3, <1>5, <1>6 DEF k
<1>8. EscrowCovered'
  BY <1>7 DEF EscrowCovered, d, Escrowed
<1>9. TypeOK'
  BY <1>2, <1>5 DEF TypeOK, Ledger, Accounts, Chain, Idle
<1> QED
  BY <1>2, <1>8, <1>9 DEF IInv, GoodLedger, Holders, Ledger, Accounts, Total, Units, UnitsOf

(* A step of no chain that takes nothing from the pool's account.           *)
LEMMA PlainStep ==
  ASSUME IInv, chains' = chains,
         registered' \subseteq Accounts, {"pool", "treasury"} \subseteq registered',
         GoodLedger(ledger'), ledger.lst["pool"] <= ledger'.lst["pool"]
  PROVE  IInv'
<1> DEFINE e == Total([x \in Slots |-> Escrowed(chains[x])])
<1>1. /\ chains \in [Slots -> Chain \cup {Idle}] /\ ledger \in Ledger
      /\ e <= ledger.lst["pool"] /\ "pool" \in Accounts
  BY DEF IInv, TypeOK, EscrowCovered, Accounts
<1>2. [x \in Slots |-> Escrowed(chains[x])] \in [Slots -> Nat]
  BY <1>1, EscrowedType
<1>3. e \in Nat
  BY <1>2, TotalType, LstTokenAssumption
<1>4. ledger' \in Ledger /\ ledger'.lst["pool"] \in Nat /\ ledger.lst["pool"] \in Nat
  BY <1>1 DEF GoodLedger, Ledger
<1> HIDE DEF e
<1>5. e <= ledger'.lst["pool"]
  BY <1>1, <1>3, <1>4
<1>6. EscrowCovered'
  BY <1>5 DEF EscrowCovered, Escrowed, e
<1>7. TypeOK'
  BY <1>1, <1>4 DEF TypeOK, Ledger, Accounts, Chain, Idle
<1> QED
  BY <1>6, <1>7 DEF IInv, GoodLedger, Holders, Ledger, Accounts, Total, Units, UnitsOf

-----------------------------------------------------------------------------
(* The steps, one lemma per action.                                         *)

(* storage_deposit leaves the ledger alone.                                *)
LEMMA RegisterInv ==
  ASSUME IInv, NEW a \in Users, Register(a)
  PROVE  IInv'
<1>1. /\ ledger' = ledger /\ chains' = chains
      /\ registered' \subseteq Accounts /\ {"pool", "treasury"} \subseteq registered'
  BY DEF IInv, TypeOK, Register, Accounts
<1>2. GoodLedger(ledger') /\ ledger.lst["pool"] <= ledger'.lst["pool"]
  BY <1>1 DEF IInv, GoodLedger, Ledger, Accounts
<1> QED
  BY <1>1, <1>2, PlainStep

(* storage_unregister burns, and never the pool's or the treasury's LST.   *)
LEMMA UnregisterInv ==
  ASSUME IInv, NEW a \in Users, NEW force \in BOOLEAN, Unregister(a, force)
  PROVE  IInv'
<1>1. /\ ledger' = Unregistered(ledger, a) /\ chains' = chains /\ a # "pool"
      /\ a \in Accounts /\ GoodLedger(ledger)
      /\ registered' \subseteq Accounts /\ {"pool", "treasury"} \subseteq registered'
  BY DEF IInv, TypeOK, Unregister, Accounts
<1>2. GoodLedger(ledger') /\ ledger'.lst = Changed(ledger.lst, a, 0)
  BY <1>1, UnregisteredGood
<1>3. ledger.lst["pool"] <= ledger'.lst["pool"]
  <2>1. ledger.lst \in [Accounts -> Nat] /\ "pool" \in Accounts
    BY <1>1 DEF GoodLedger, Ledger, Accounts
  <2>2. ledger'.lst["pool"] = ledger.lst["pool"]
    BY <1>1, <1>2, <2>1, ChangedBalances
  <2> QED BY <2>1, <2>2
<1> QED
  BY <1>1, <1>2, <1>3, PlainStep

(* A transfer gives the pool's account what it takes from another one.      *)
LEMMA TransferToPool ==
  ASSUME IInv, NEW a \in Accounts, NEW b \in Accounts, NEW n \in Nat,
         CanTransfer(a, b, n), ledger' = transfer_tokens(ledger, a, b, n)
  PROVE  /\ GoodLedger(ledger')
         /\ ledger'.lst["pool"] = IF b = "pool" THEN ledger.lst["pool"] + n
                                                ELSE ledger.lst["pool"]
<1>1. /\ GoodLedger(ledger) /\ n <= ledger.lst[a] /\ a # b /\ a # "pool"
      /\ ledger.lst \in [Accounts -> Nat] /\ "pool" \in Accounts
  BY DEF IInv, CanTransfer, GoodLedger, Ledger, Accounts
<1>2. GoodLedger(ledger') /\ ledger'.lst = Shifted(ledger.lst, a, b, n)
  BY <1>1, Transferred
<1> QED
  BY <1>1, <1>2, ShiftedBalances

(* ft_transfer takes nothing from the pool's account.                      *)
LEMMA FtTransferInv ==
  ASSUME IInv, NEW a \in Accounts, NEW b \in Accounts, NEW n \in Amounts,
         FtTransfer(a, b, n)
  PROVE  IInv'
<1>1. n \in Nat /\ CanTransfer(a, b, n) /\ ledger' = transfer_tokens(ledger, a, b, n)
  BY LstTokenAssumption DEF FtTransfer
<1>2. /\ chains' = chains /\ registered' \subseteq Accounts
      /\ {"pool", "treasury"} \subseteq registered' /\ ledger.lst["pool"] \in Nat
  BY DEF FtTransfer, IInv, TypeOK, Ledger, Accounts
<1>3. GoodLedger(ledger') /\ ledger.lst["pool"] <= ledger'.lst["pool"]
  BY <1>1, <1>2, TransferToPool
<1> QED
  BY <1>2, <1>3, PlainStep

(* The first receipt sets aside what it gives the pool.                    *)
LEMMA FtTransferCallInv ==
  ASSUME IInv, NEW s \in Slots, NEW a \in Accounts, NEW b \in Accounts, NEW n \in Amounts,
         FtTransferCall(s, a, b, n)
  PROVE  IInv'
<1> DEFINE c == [phase |-> "called", resolver |-> "transfer",
                 sender |-> a, receiver |-> b, amount |-> n, unused |-> 0]
<1>1. /\ n \in Nat /\ CanTransfer(a, b, n) /\ ledger' = transfer_tokens(ledger, a, b, n)
      /\ chains[s] = Idle /\ chains' = [chains EXCEPT ![s] = c] /\ registered' = registered
  BY LstTokenAssumption DEF FtTransferCall, Begin
<1>2. /\ c \in Chain /\ Escrowed(Idle) = 0
      /\ Escrowed(c) = IF b = "pool" THEN n ELSE 0
  BY <1>1 DEF Chain, Escrowed, Idle
<1>3. ledger.lst["pool"] \in Nat
  BY EscrowOfChain
<1>4. /\ GoodLedger(ledger')
      /\ ledger'.lst["pool"] = IF b = "pool" THEN ledger.lst["pool"] + n
                                             ELSE ledger.lst["pool"]
  BY <1>1, TransferToPool
<1> HIDE DEF c
<1>5. ledger.lst["pool"] - Escrowed(chains[s]) <= ledger'.lst["pool"] - Escrowed(c)
  BY <1>1, <1>2, <1>3, <1>4
<1> QED
  BY <1>1, <1>2, <1>4, <1>5, ChainStep

(* What an answer, a continuation or the end of a chain does to it.         *)
LEMMA Phases ==
  ASSUME NEW c \in Chain, NEW u \in Nat
  PROVE  /\ [c EXCEPT !.phase = "answered", !.unused = u] \in Chain
         /\ Escrowed([c EXCEPT !.phase = "answered", !.unused = u]) =
              IF c.receiver = "pool" THEN u ELSE 0
         /\ [c EXCEPT !.phase = "unstaking"] \in Chain
         /\ Escrowed([c EXCEPT !.phase = "unstaking"]) = 0
         /\ [c EXCEPT !.phase = "called"] \in Chain
         /\ Escrowed([c EXCEPT !.phase = "called"]) =
              IF c.receiver = "pool" THEN c.amount ELSE 0
         /\ Escrowed(Idle) = 0
BY DEF Chain, Escrowed, Idle

(* A chain that waits for a receipt is one.                                 *)
LEMMA ChainInFlight ==
  ASSUME IInv, NEW s \in Slots, chains[s].phase # "idle"
  PROVE  /\ chains[s] \in Chain
         /\ chains[s].sender \in Accounts /\ chains[s].receiver \in Accounts
         /\ chains[s].amount \in Nat /\ chains[s].unused \in Nat
BY EscrowOfChain DEF Chain, Idle

(* The answer of another receiver claims nothing of the pool's.            *)
LEMMA ReceiverAnswersInv ==
  ASSUME IInv, NEW s \in Slots, ReceiverAnswers(s)
  PROVE  IInv'
<1> DEFINE c == chains[s]
<1>1. c \in Chain /\ c.amount \in Nat /\ c.receiver # "pool"
  BY ChainInFlight DEF ReceiverAnswers, At
<1>2. PICK u \in 0..c.amount : Answer(s, u)
  BY DEF ReceiverAnswers
<1> DEFINE d == [c EXCEPT !.phase = "answered", !.unused = u]
<1>3. u \in Nat /\ chains' = [chains EXCEPT ![s] = d] /\ d \in Chain /\ Escrowed(d) = 0
  <2>1. u \in Nat
    BY <1>1
  <2>2. chains' = [chains EXCEPT ![s] = d]
    BY <1>2 DEF Answer
  <2>3. d \in Chain /\ Escrowed(d) = IF c.receiver = "pool" THEN u ELSE 0
    <3> HIDE DEF c
    <3> QED BY <1>1, <2>1, Phases
  <2> QED BY <1>1, <2>1, <2>2, <2>3
<1>4. registered' = registered /\ ledger' = ledger /\ GoodLedger(ledger')
  BY DEF ReceiverAnswers, IInv, GoodLedger, Ledger, Accounts
<1>5. ledger.lst["pool"] \in Nat /\ Escrowed(c) \in Nat
  BY EscrowOfChain
<1> HIDE DEF d, c
<1>6. ledger.lst["pool"] - Escrowed(chains[s]) <= ledger'.lst["pool"] - Escrowed(d)
  BY <1>3, <1>4, <1>5 DEF c
<1> QED
  BY <1>3, <1>4, <1>6, ChainStep

(* The pool's account pays.                                                 *)
LEMMA PoolPays ==
  ASSUME IInv, NEW n \in Nat, n <= ledger.lst["pool"],
         ledger' = internal_withdraw(ledger, "pool", n)
  PROVE  GoodLedger(ledger') /\ ledger'.lst["pool"] = ledger.lst["pool"] - n
<1>1. /\ GoodLedger(ledger) /\ "pool" \in Accounts
      /\ ledger.lst \in [Accounts -> Nat]
  BY DEF IInv, GoodLedger, Ledger, Accounts
<1>2. GoodLedger(ledger') /\ ledger'.lst = Changed(ledger.lst, "pool", ledger.lst["pool"] - n)
  BY <1>1, Withdrawn
<1> QED
  BY <1>1, <1>2, ChangedBalances

(* The pool's account receives.                                             *)
LEMMA PoolReceives ==
  ASSUME IInv, NEW n \in Nat, ledger' = internal_deposit(ledger, "pool", n)
  PROVE  GoodLedger(ledger') /\ ledger'.lst["pool"] = ledger.lst["pool"] + n
<1>1. /\ GoodLedger(ledger) /\ "pool" \in Accounts
      /\ ledger.lst \in [Accounts -> Nat]
  BY DEF IInv, GoodLedger, Ledger, Accounts
<1>2. GoodLedger(ledger') /\ ledger'.lst = Changed(ledger.lst, "pool", ledger.lst["pool"] + n)
  BY <1>1, Deposited
<1> QED
  BY <1>1, <1>2, ChangedBalances

(* handle_unstaking burns what the chain set aside, or leaves it.          *)
LEMMA OnTransferToPoolInv ==
  ASSUME IInv, NEW s \in Slots, OnTransferToPool(s)
  PROVE  IInv'
<1> DEFINE c == chains[s]
<1>1. /\ c \in Chain /\ c.amount \in Nat /\ c.receiver = "pool" /\ c.phase = "called"
      /\ registered' = registered
  BY ChainInFlight DEF OnTransferToPool, At
<1>2. Escrowed(c) = c.amount /\ ledger.lst["pool"] \in Nat
  BY <1>1, EscrowOfChain DEF Escrowed
<1>3. CASE /\ c.amount <= ledger.lst["pool"]
           /\ Continue(s, "unstaking")
           /\ ledger' = internal_withdraw(ledger, "pool", c.amount)
  <2> DEFINE d == [c EXCEPT !.phase = "unstaking"]
  <2>1. chains' = [chains EXCEPT ![s] = d] /\ d \in Chain /\ Escrowed(d) = 0
    BY <1>1, <1>3, Phases DEF Continue
  <2>2. GoodLedger(ledger') /\ ledger'.lst["pool"] = ledger.lst["pool"] - c.amount
    BY <1>1, <1>3, PoolPays
  <2> HIDE DEF d, c
  <2>3. ledger.lst["pool"] - Escrowed(chains[s]) <= ledger'.lst["pool"] - Escrowed(d)
    BY <1>1, <1>2, <2>1, <2>2 DEF c
  <2> QED BY <1>1, <2>1, <2>2, <2>3, ChainStep
<1>4. CASE Answer(s, c.amount) /\ UNCHANGED ledger
  <2> DEFINE d == [c EXCEPT !.phase = "answered", !.unused = c.amount]
  <2>1. chains' = [chains EXCEPT ![s] = d] /\ d \in Chain /\ Escrowed(d) = c.amount
    BY <1>1, <1>4, Phases DEF Answer
  <2>2. ledger' = ledger /\ GoodLedger(ledger')
    BY <1>4 DEF IInv
  <2> HIDE DEF d, c
  <2>3. ledger.lst["pool"] - Escrowed(chains[s]) <= ledger'.lst["pool"] - Escrowed(d)
    BY <1>1, <1>2, <2>1, <2>2 DEF c
  <2> QED BY <1>1, <2>1, <2>2, <2>3, ChainStep
<1> QED
  BY <1>3, <1>4 DEF OnTransferToPool

(* A refund takes from the pool's account only what was set aside for it,   *)
(* and gives the pool what it takes from others on its behalf.              *)
LEMMA ResolvedPool ==
  ASSUME IInv, NEW a \in Accounts, NEW b \in Accounts, NEW u \in Nat,
         b = "pool" => u <= ledger.lst["pool"]
  PROVE  LET U == ft_resolve_transfer(ledger, a, b, u)
             p == ledger.lst["pool"]
         IN  /\ GoodLedger(U)
             /\ Refund(ledger, b, u) \in Nat
             /\ U.lst["pool"] \in Nat
             /\ U.lst["pool"] >= p - (IF b = "pool" THEN u ELSE 0)
             /\ a = "pool" => U.lst["pool"] = IF b = "pool" THEN p
                                              ELSE p + Refund(ledger, b, u)
             /\ b = "pool" => Refund(ledger, b, u) = u
<1> DEFINE U == ft_resolve_transfer(ledger, a, b, u)
           p == ledger.lst["pool"]
           n == Refund(ledger, b, u)
           f == ledger.lst
<1>1. /\ GoodLedger(ledger) /\ "pool" \in Accounts /\ "pool" \in registered
      /\ f \in [Accounts -> Nat] /\ p \in Nat /\ f[b] \in Nat
  BY DEF IInv, GoodLedger, Ledger, Accounts
<1>2. /\ n \in Nat /\ n <= f[b] /\ (f[b] >= u => n = u)
      /\ GoodLedger(U)
      /\ a \in registered => U.lst = Shifted(f, b, a, n)
      /\ a \notin registered => U.lst = Changed(f, b, f[b] - n)
  <2>1. GoodLedger(ledger)
    BY <1>1
  <2> HIDE DEF U, n, f
  <2>2. /\ n \in Nat /\ n <= ledger.lst[b] /\ (ledger.lst[b] >= u => n = u)
        /\ GoodLedger(U)
    <3> USE DEF n, U
    <3> QED BY <2>1, Resolved
  <2>3. a \in registered => U.lst = Shifted(ledger.lst, b, a, n)
    <3>1. SUFFICES ASSUME a \in registered PROVE U.lst = Shifted(ledger.lst, b, a, n)
      OBVIOUS
    <3>2. U = transfer_tokens(ledger, b, a, n)
      BY <3>1 DEF ft_resolve_transfer, U, n
    <3>3. transfer_tokens(ledger, b, a, n).lst = Shifted(ledger.lst, b, a, n)
      BY <2>1, <2>2, Transferred
    <3> QED BY <3>2, <3>3
  <2>4. a \notin registered => U.lst = Changed(ledger.lst, b, ledger.lst[b] - n)
    <3>1. SUFFICES ASSUME a \notin registered
                   PROVE  U.lst = Changed(ledger.lst, b, ledger.lst[b] - n)
      OBVIOUS
    <3>2. U = internal_withdraw(ledger, b, n)
      BY <3>1 DEF ft_resolve_transfer, U, n
    <3>3. internal_withdraw(ledger, b, n).lst = Changed(ledger.lst, b, ledger.lst[b] - n)
      BY <2>1, <2>2, Withdrawn
    <3> QED BY <3>2, <3>3
  <2> QED BY <2>2, <2>3, <2>4 DEF f
<1>3. b = "pool" => n = u
  BY <1>1, <1>2
<1>4. U.lst["pool"] \in Nat
  BY <1>1, <1>2 DEF GoodLedger, Ledger
<1> HIDE DEF U, n
<1>5. CASE a \in registered
  <2>1. /\ a = b => Shifted(f, b, a, n) = f
        /\ a # b => /\ Shifted(f, b, a, n)[b] = f[b] - n
                    /\ Shifted(f, b, a, n)[a] = f[a] + n
        /\ \A x \in Accounts \ {b, a} : Shifted(f, b, a, n)[x] = f[x]
    BY <1>1, <1>2, ShiftedBalances
  <2>2. CASE a = b
    BY <1>1, <1>2, <1>3, <1>4, <1>5, <2>1, <2>2 DEF U, n
  <2>3. CASE a # b /\ a = "pool"
    BY <1>1, <1>2, <1>3, <1>4, <1>5, <2>1, <2>3 DEF U, n
  <2>4. CASE a # b /\ b = "pool"
    BY <1>1, <1>2, <1>3, <1>4, <1>5, <2>1, <2>4 DEF U, n
  <2>5. CASE "pool" \notin {a, b}
    BY <1>1, <1>2, <1>3, <1>4, <1>5, <2>1, <2>5 DEF U, n
  <2> QED BY <2>2, <2>3, <2>4, <2>5
<1>6. CASE a \notin registered
  <2>1. f[b] - n \in Nat
    BY <1>1, <1>2
  <2>2. /\ Changed(f, b, f[b] - n)[b] = f[b] - n
        /\ \A x \in Accounts \ {b} : Changed(f, b, f[b] - n)[x] = f[x]
    <3> HIDE DEF f
    <3> QED BY <1>1, <2>1, ChangedBalances
  <2>3. a # "pool"
    BY <1>1, <1>6
  <2> QED BY <1>1, <1>2, <1>3, <1>4, <1>6, <2>2, <2>3 DEF U, n
<1> QED
  BY <1>5, <1>6

(* The resolver ends the chain's claim as it settles it.                   *)
LEMMA ResolveTransferInv ==
  ASSUME IInv, NEW s \in Slots, ResolveTransfer(s)
  PROVE  IInv'
<1> DEFINE c == chains[s]
           k == IF c.receiver = "pool" THEN c.unused ELSE 0
<1>1. /\ c.phase = "answered" /\ c.sender \in Accounts /\ c.receiver \in Accounts
      /\ c.unused \in Nat /\ registered' = registered
      /\ ledger' = ft_resolve_transfer(ledger, c.sender, c.receiver, c.unused)
      /\ chains' = [chains EXCEPT ![s] = Idle] /\ Escrowed(Idle) = 0
  BY ChainInFlight DEF ResolveTransfer, At, End, Escrowed, Idle
<1>2. /\ Escrowed(c) = k /\ k \in Nat /\ k <= ledger.lst["pool"]
      /\ ledger.lst["pool"] \in Nat
  BY <1>1, EscrowOfChain DEF Escrowed
<1>3. c.receiver = "pool" => c.unused <= ledger.lst["pool"]
  BY <1>2
<1>4. /\ GoodLedger(ledger') /\ ledger'.lst["pool"] \in Nat
      /\ ledger'.lst["pool"] >= ledger.lst["pool"] - k
  BY <1>1, <1>3, ResolvedPool
<1> HIDE DEF c, k
<1>5. ledger.lst["pool"] - Escrowed(chains[s]) <= ledger'.lst["pool"] - Escrowed(Idle)
  BY <1>1, <1>2, <1>4 DEF c
<1> QED
  BY <1>1, <1>4, <1>5, ChainStep

(* A stake sets aside what it mints.                                       *)
LEMMA MintStakeInv ==
  ASSUME IInv, NEW s \in Slots, NEW a \in Accounts, NEW n \in Amounts, MintStake(s, a, n)
  PROVE  IInv'
<1> DEFINE c == [phase |-> "minted", resolver |-> "stake",
                 sender |-> "pool", receiver |-> a, amount |-> n, unused |-> 0]
<1>1. /\ n \in Nat /\ ledger' = internal_deposit(ledger, "pool", n)
      /\ chains[s] = Idle /\ chains' = [chains EXCEPT ![s] = c] /\ registered' = registered
  BY LstTokenAssumption DEF MintStake, Begin
<1>2. c \in Chain /\ Escrowed(Idle) = 0 /\ Escrowed(c) = n
  BY <1>1 DEF Chain, Escrowed, Idle, Accounts
<1>3. ledger.lst["pool"] \in Nat
  BY EscrowOfChain
<1>4. GoodLedger(ledger') /\ ledger'.lst["pool"] = ledger.lst["pool"] + n
  BY <1>1, PoolReceives
<1> HIDE DEF c
<1>5. ledger.lst["pool"] - Escrowed(chains[s]) <= ledger'.lst["pool"] - Escrowed(c)
  BY <1>1, <1>2, <1>3, <1>4
<1> QED
  BY <1>1, <1>2, <1>4, <1>5, ChainStep

(* A delivery, a stake whose receiver has gone, or a rollback.              *)
LEMMA OnRestakeOrRefundInv ==
  ASSUME IInv, NEW s \in Slots, OnRestakeOrRefund(s)
  PROVE  IInv'
<1> DEFINE c == chains[s]
           p == ledger.lst["pool"]
<1>1. /\ c \in Chain /\ c.amount \in Nat /\ c.receiver \in Accounts /\ c.phase = "minted"
      /\ registered' = registered
  BY ChainInFlight DEF OnRestakeOrRefund, At
<1>2. /\ Escrowed(c) = c.amount /\ p \in Nat /\ Escrowed(Idle) = 0
      /\ Idle \in Chain \cup {Idle}
  BY <1>1, EscrowOfChain DEF Escrowed, Idle
<1>3. CASE /\ c.amount <= p
           /\ End(s) \/ Continue(s, "called")
           /\ ledger' = internal_transfer(ledger, "pool", c.receiver, c.amount)
  <2> DEFINE d == [c EXCEPT !.phase = "called"]
             k == IF c.receiver = "pool" THEN c.amount ELSE 0
  <2>1. /\ GoodLedger(ledger) /\ "pool" \in Accounts
        /\ ledger.lst \in [Accounts -> Nat]
    BY DEF IInv, GoodLedger, Ledger, Accounts
  <2>2. /\ GoodLedger(ledger')
        /\ ledger'.lst = Shifted(ledger.lst, "pool", c.receiver, c.amount)
    <3> HIDE DEF c
    <3> QED BY <1>1, <1>3, <2>1, InternalTransferred
  <2>3. ledger'.lst["pool"] = IF c.receiver = "pool" THEN p ELSE p - c.amount
    <3> HIDE DEF c
    <3> QED BY <1>1, <1>3, <2>1, <2>2, ShiftedBalances
  <2>4. d \in Chain /\ Escrowed(d) = k
    <3> HIDE DEF c
    <3> QED BY <1>1, Phases
  <2>5. chains' = [chains EXCEPT ![s] = Idle] \/ chains' = [chains EXCEPT ![s] = d]
    BY <1>3 DEF End, Continue
  <2> HIDE DEF d
  <2>6. /\ p - Escrowed(c) <= ledger'.lst["pool"] - Escrowed(Idle)
        /\ p - Escrowed(c) <= ledger'.lst["pool"] - Escrowed(d)
    <3> HIDE DEF c, p
    <3> QED BY <1>1, <1>2, <2>3, <2>4
  <2>7. CASE chains' = [chains EXCEPT ![s] = Idle]
    BY <1>1, <1>2, <2>2, <2>6, <2>7, ChainStep
  <2>8. CASE chains' = [chains EXCEPT ![s] = d]
    BY <1>1, <2>2, <2>4, <2>6, <2>8, ChainStep
  <2> QED BY <2>5, <2>7, <2>8
<1>4. CASE End(s) /\ UNCHANGED ledger
  <2>1. /\ chains' = [chains EXCEPT ![s] = Idle] /\ ledger' = ledger
        /\ GoodLedger(ledger')
    BY <1>4 DEF End, IInv
  <2>2. p - Escrowed(c) <= ledger'.lst["pool"] - Escrowed(Idle)
    BY <1>1, <1>2, <2>1
  <2> QED BY <1>1, <1>2, <2>1, <2>2, ChainStep
<1>5. CASE /\ c.amount <= p
           /\ End(s)
           /\ ledger' = internal_withdraw(ledger, "pool", c.amount)
  <2>1. /\ chains' = [chains EXCEPT ![s] = Idle]
        /\ GoodLedger(ledger') /\ ledger'.lst["pool"] = p - c.amount
    BY <1>1, <1>5, PoolPays DEF End
  <2>2. p - Escrowed(c) <= ledger'.lst["pool"] - Escrowed(Idle)
    BY <1>1, <1>2, <2>1
  <2> QED BY <1>1, <1>2, <2>1, <2>2, ChainStep
<1> QED
  BY <1>3, <1>4, <1>5 DEF OnRestakeOrRefund

(* What on_ft_on_transfer takes back for the pool it burns at once.         *)
LEMMA OnFtOnTransferInv ==
  ASSUME IInv, NEW s \in Slots, OnFtOnTransfer(s)
  PROVE  IInv'
<1> DEFINE c == chains[s]
           p == ledger.lst["pool"]
           k == IF c.receiver = "pool" THEN c.unused ELSE 0
<1>1. /\ c \in Chain /\ c.unused \in Nat /\ c.receiver \in Accounts
      /\ c.phase = "answered" /\ registered' = registered /\ "pool" \in Accounts
  BY ChainInFlight DEF OnFtOnTransfer, At, Accounts
<1>2. /\ Escrowed(c) = k /\ k \in Nat /\ k <= p /\ p \in Nat
      /\ Escrowed(Idle) = 0 /\ Idle \in Chain \cup {Idle}
  BY <1>1, EscrowOfChain DEF Escrowed, Idle
<1> DEFINE back == Refund(ledger, c.receiver, c.unused)
           T    == ft_resolve_transfer(ledger, "pool", c.receiver, c.unused)
           d    == [c EXCEPT !.phase = "unstaking", !.resolver = "none", !.amount = back]
<1>3. CASE /\ chains' = [chains EXCEPT ![s] = d]
           /\ ledger' = internal_withdraw(T, "pool", back)
  <2>1. c.receiver = "pool" => c.unused <= p
    BY <1>2
  <2>2. /\ GoodLedger(T) /\ back \in Nat /\ T.lst["pool"] \in Nat
        /\ T.lst["pool"] = IF c.receiver = "pool" THEN p ELSE p + back
        /\ c.receiver = "pool" => back = c.unused
    BY <1>1, <2>1, ResolvedPool
  <2> HIDE DEF back, T
  <2>3. back <= T.lst["pool"]
    BY <1>1, <1>2, <2>1, <2>2
  <2>4. GoodLedger(ledger') /\ ledger'.lst["pool"] = T.lst["pool"] - back
    <3>1. /\ GoodLedger(ledger')
          /\ ledger'.lst = Changed(T.lst, "pool", T.lst["pool"] - back)
      BY <1>1, <1>3, <2>2, <2>3, Withdrawn
    <3>2. T.lst \in [Accounts -> Nat] /\ T.lst["pool"] - back \in Nat
      BY <2>2, <2>3 DEF GoodLedger, Ledger
    <3> QED BY <1>1, <3>1, <3>2, ChangedBalances
  <2>5. d \in Chain /\ Escrowed(d) = 0
    <3> HIDE DEF c
    <3> QED BY <1>1, <2>2 DEF Chain, Escrowed
  <2> HIDE DEF d, c
  <2>6. ledger.lst["pool"] - Escrowed(chains[s]) <= ledger'.lst["pool"] - Escrowed(d)
    BY <1>1, <1>2, <2>2, <2>4, <2>5 DEF c
  <2> QED BY <1>1, <1>3, <2>4, <2>5, <2>6, ChainStep
<1>4. CASE End(s) /\ UNCHANGED ledger
  <2>1. /\ chains' = [chains EXCEPT ![s] = Idle] /\ ledger' = ledger
        /\ GoodLedger(ledger')
    BY <1>4 DEF End, IInv
  <2> HIDE DEF k
  <2>2. p - Escrowed(c) <= ledger'.lst["pool"] - Escrowed(Idle)
    BY <1>1, <1>2, <2>1
  <2> QED BY <1>1, <1>2, <2>1, <2>2, ChainStep
<1> QED
  BY <1>3, <1>4 DEF OnFtOnTransfer, Returned

(* on_unstake owes the resolver at most what it minted again.               *)
LEMMA OnUnstakeInv ==
  ASSUME IInv, NEW s \in Slots, OnUnstake(s)
  PROVE  IInv'
<1> DEFINE c == chains[s]
           p == ledger.lst["pool"]
<1>1. /\ c \in Chain /\ c.amount \in Nat /\ c.phase = "unstaking"
      /\ registered' = registered
  BY ChainInFlight DEF OnUnstake, At
<1>2. /\ Escrowed(c) = 0 /\ p \in Nat /\ Escrowed(Idle) = 0
      /\ Idle \in Chain \cup {Idle}
  BY <1>1, EscrowOfChain DEF Escrowed, Idle
<1>3. ASSUME NEW n \in Nat, GoodLedger(ledger'), ledger'.lst["pool"] = p + n,
             End(s) \/ Answer(s, n)
      PROVE  IInv'
  <2> DEFINE d == [c EXCEPT !.phase = "answered", !.unused = n]
  <2>1. d \in Chain /\ Escrowed(d) = IF c.receiver = "pool" THEN n ELSE 0
    <3> HIDE DEF c
    <3> QED BY <1>1, Phases
  <2>2. chains' = [chains EXCEPT ![s] = Idle] \/ chains' = [chains EXCEPT ![s] = d]
    BY <1>3 DEF End, Answer
  <2> HIDE DEF d
  <2>3. /\ p - Escrowed(c) <= ledger'.lst["pool"] - Escrowed(Idle)
        /\ p - Escrowed(c) <= ledger'.lst["pool"] - Escrowed(d)
    BY <1>2, <1>3, <2>1
  <2>4. CASE chains' = [chains EXCEPT ![s] = Idle]
    BY <1>1, <1>2, <1>3, <2>3, <2>4, ChainStep
  <2>5. CASE chains' = [chains EXCEPT ![s] = d]
    BY <1>1, <1>3, <2>1, <2>3, <2>5, ChainStep
  <2> QED BY <2>2, <2>4, <2>5
<1>4. CASE /\ End(s) \/ Answer(s, 0)
           /\ UNCHANGED ledger
  <2>1. 0 \in Nat /\ GoodLedger(ledger') /\ ledger'.lst["pool"] = p + 0
    BY <1>2, <1>4 DEF IInv
  <2> QED BY <1>3, <1>4, <2>1
<1>5. CASE /\ End(s) \/ Answer(s, c.amount)
           /\ ledger' = internal_deposit(ledger, "pool", c.amount)
  <2>1. GoodLedger(ledger') /\ ledger'.lst["pool"] = p + c.amount
    BY <1>1, <1>5, PoolReceives
  <2> QED BY <1>1, <1>3, <1>5, <2>1
<1> QED
  BY <1>4, <1>5 DEF OnUnstake, Restored

(* A fee goes to the treasury only.                                        *)
LEMMA MintFeeInv ==
  ASSUME IInv, NEW n \in Amounts \cup {0}, MintFee(n)
  PROVE  IInv'
<1>1. /\ n \in Nat /\ ledger' = internal_deposit(ledger, "treasury", n)
      /\ chains' = chains /\ registered' = registered
  <2>1. Amounts \subseteq Nat
    BY LstTokenAssumption
  <2>2. n \in Nat
    BY <2>1
  <2> QED BY <2>2 DEF MintFee
<1>2. /\ GoodLedger(ledger) /\ {"pool", "treasury"} \subseteq Accounts
      /\ ledger.lst \in [Accounts -> Nat]
      /\ registered' \subseteq Accounts /\ {"pool", "treasury"} \subseteq registered'
  BY <1>1 DEF IInv, TypeOK, GoodLedger, Ledger, Accounts
<1>3. /\ GoodLedger(ledger')
      /\ ledger'.lst = Changed(ledger.lst, "treasury", ledger.lst["treasury"] + n)
  BY <1>1, <1>2, Deposited
<1>4. ledger'.lst["pool"] = ledger.lst["pool"]
  <2> DEFINE m == ledger.lst["treasury"] + n
  <2>1. /\ "treasury" \in Accounts /\ "pool" \in Accounts \ {"treasury"}
        /\ m \in Nat
    BY <1>1, <1>2
  <2> HIDE DEF m
  <2>2. \A x \in Accounts \ {"treasury"} :
          Changed(ledger.lst, "treasury", m)[x] = ledger.lst[x]
    BY <1>2, <2>1, ChangedBalances
  <2> QED BY <1>3, <2>1, <2>2 DEF m
<1>5. ledger.lst["pool"] <= ledger'.lst["pool"]
  BY <1>2, <1>4
<1> QED
  BY <1>1, <1>2, <1>3, <1>5, PlainStep

(* Every step keeps the invariant.                                         *)
LEMMA NextInv ==
  ASSUME IInv, [Next]_vars
  PROVE  IInv'
<1>1. CASE UNCHANGED vars
  BY <1>1 DEF vars, IInv, TypeOK, GoodLedger, EscrowCovered, Escrowed, Ledger, Accounts,
              Chain, Idle, Holders, Total, Units, UnitsOf
<1>2. CASE \E a \in Users : Register(a)
  BY <1>2, RegisterInv
<1>3. CASE \E a \in Users, force \in BOOLEAN : Unregister(a, force)
  BY <1>3, UnregisterInv
<1>4. CASE \E a, b \in Accounts, n \in Amounts : FtTransfer(a, b, n)
  BY <1>4, FtTransferInv
<1>5. CASE \E a, b \in Accounts, n \in Amounts, s \in Slots : FtTransferCall(s, a, b, n)
  BY <1>5, FtTransferCallInv
<1>6. CASE \E s \in Slots, a \in Accounts, n \in Amounts : MintStake(s, a, n)
  BY <1>6, MintStakeInv
<1>7. CASE \E s \in Slots : Receipt(s)
  BY <1>7, ReceiverAnswersInv, OnTransferToPoolInv, ResolveTransferInv,
     OnRestakeOrRefundInv, OnFtOnTransferInv, OnUnstakeInv DEF Receipt
<1>8. CASE \E n \in Amounts \cup {0} : MintFee(n)
  BY <1>8, MintFeeInv
<1> QED
  BY <1>1, <1>2, <1>3, <1>4, <1>5, <1>6, <1>7, <1>8 DEF Next

(* The treasury holds the first stake, and nothing is in flight.            *)
LEMMA InitInv ==
  ASSUME Init
  PROVE  IInv
<1> DEFINE f == [a \in Accounts |-> 0]
           T == [lst |-> f, total_supply |-> 0, num_delegators |-> 0]
           e == [s \in Slots |-> Escrowed(chains[s])]
<1>1. GoodLedger(T)
  <2>1. Total(f) = 0 /\ Total(f) \in Nat
    <3>1. Units(f) = {}
      BY DEF Units, UnitsOf
    <3> QED BY <3>1, FS_EmptySet DEF Total
  <2>2. Cardinality(Holders(f)) = 0
    <3>1. Holders(f) = {}
      BY DEF Holders
    <3> QED BY <3>1, FS_EmptySet
  <2>3. T \in Ledger /\ T.lst = f /\ T.total_supply = 0 /\ T.num_delegators = 0
    BY DEF Ledger
  <2> HIDE DEF T, f
  <2> QED BY <2>1, <2>2, <2>3 DEF GoodLedger
<1>2. GoodLedger(ledger) /\ ledger.lst["pool"] \in Nat
  <2>1. ledger = internal_deposit(T, "treasury", Stake)
    BY DEF Init
  <2> HIDE DEF T
  <2>2. GoodLedger(ledger)
    BY <1>1, <2>1, Deposited, LstTokenAssumption DEF Accounts
  <2> QED BY <2>2 DEF GoodLedger, Ledger, Accounts
<1>3. Total(e) = 0
  <2>1. \A s \in Slots : e[s] = 0
    BY DEF Init, Escrowed, Idle
  <2>2. DOMAIN e = Slots
    OBVIOUS
  <2> HIDE DEF e
  <2>3. Units(e) = {}
    BY <2>1, <2>2 DEF Units, UnitsOf
  <2> QED BY <2>3, FS_EmptySet DEF Total
<1>4. EscrowCovered
  BY <1>2, <1>3 DEF EscrowCovered
<1>5. TypeOK /\ {"pool", "treasury"} \subseteq registered
  BY <1>2 DEF TypeOK, Init, GoodLedger, Accounts
<1> QED
  BY <1>2, <1>4, <1>5 DEF IInv

-----------------------------------------------------------------------------
(* The theorems.                                                            *)

(* No step of a chain of receipts, transfer, or (un)registration breaks the *)
(* invariant.                                                               *)
THEOREM Invariance == Spec => []IInv
<1>1. Init => IInv
  BY InitInv
<1>2. IInv /\ [Next]_vars => IInv'
  BY NextInv
<1> QED
  BY <1>1, <1>2, PTL DEF Spec

(* TypeOK: no burn, refund or delivery of resolver.rs, core.rs, stake.rs    *)
(* and unstake.rs takes more than the account holds.                        *)
THEOREM TypeCorrect == Spec => []TypeOK
<1>1. IInv => TypeOK
  BY DEF IInv
<1> QED
  BY <1>1, Invariance, PTL

(* SupplyIsSum: ft_total_supply is the sum of all balances.                 *)
THEOREM SupplyIsExact == Spec => []SupplyIsSum
<1>1. IInv => SupplyIsSum
  BY DEF IInv, GoodLedger, SupplyIsSum
<1> QED
  BY <1>1, Invariance, PTL

(* DelegatorsExact: the crossings of zero that update_delegators counts add *)
(* up to the number of accounts that hold LST.                              *)
THEOREM DelegatorsAreExact == Spec => []DelegatorsExact
<1>1. IInv => DelegatorsExact
  BY DEF IInv, GoodLedger, DelegatorsExact
<1> QED
  BY <1>1, Invariance, PTL

(* EscrowCovered: the pool's account holds the LST of all stakes, unstakes  *)
(* and refunds in flight together.                                          *)
THEOREM EscrowIsCovered == Spec => []EscrowCovered
<1>1. IInv => EscrowCovered
  BY DEF IInv
<1> QED
  BY <1>1, Invariance, PTL

=============================================================================
