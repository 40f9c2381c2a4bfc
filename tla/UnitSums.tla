------------------------------ MODULE UnitSums ------------------------------
(***************************************************************************)
(* Sums of natural-number ledgers, written without recursion.  A ledger f  *)
(* over a finite set S is read as a pile of indivisible units: entry x     *)
(* contributes the pairs <<x, 1>>, ..., <<x, f[x]>>, and Total(S, f) is    *)
(* the number of units in the pile.  Amounts in the kernel are counted in  *)
(* the smallest fraction of GAS, so a unit is exactly that fraction.       *)
(***************************************************************************)
EXTENDS Integers, FiniteSets

Units(S, f) == UNION {{x} \X (1 .. f[x]) : x \in S}

Total(S, f) == Cardinality(Units(S, f))
=============================================================================
