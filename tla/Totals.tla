------------------------------- MODULE Totals -------------------------------
(***************************************************************************)
(* Sums of natural numbers over finite sets.                                *)
(*                                                                         *)
(* The contract keeps running totals (total_pending_withdrawals and         *)
(* latest_total_balance of PoolStatistics) beside the records they          *)
(* summarise.  Total(f) is the sum of f[x] over the domain of f, counted as *)
(* a set of units: x contributes the f[x] pairs <<x, 1>> .. <<x, f[x]>>.    *)
(* Counting units needs no recursion, so TLC can evaluate a total and its   *)
(* laws follow from those of Cardinality (module TotalsProofs).             *)
(***************************************************************************)
EXTENDS Integers, FiniteSets

UnitsOf(x, n) == {x} \X (1..n)

Units(f) == UNION {UnitsOf(x, f[x]) : x \in DOMAIN f}

Total(f) == Cardinality(Units(f))

=============================================================================
