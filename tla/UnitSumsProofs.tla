--------------------------- MODULE UnitSumsProofs ---------------------------
(***************************************************************************)
(* How the total of a ledger reacts to the changes the kernel makes to it: *)
(* a new entry, a changed entry, no change.  The fee proofs cite these.    *)
(***************************************************************************)
EXTENDS UnitSums, FiniteSetTheorems, FunctionTheorems, TLAPS

(***************************************************************************)
(* The units of one entry are as many as the entry says.                   *)
(***************************************************************************)
LEMMA EntryUnits ==
  ASSUME NEW x, NEW n \in Nat
  PROVE  /\ IsFiniteSet({x} \X (1 .. n))
         /\ Cardinality({x} \X (1 .. n)) = n
  <1>1. IsFiniteSet({x}) /\ Cardinality({x}) = 1
    BY FS_Singleton
  <1>2. IsFiniteSet(1 .. n) /\ Cardinality(1 .. n) = n
    BY FS_Interval
  <1>3. IsFiniteSet({x} \X (1 .. n))
        /\ Cardinality({x} \X (1 .. n)) = Cardinality({x}) * Cardinality(1 .. n)
    BY <1>1, <1>2, FS_Product
  <1> QED
    BY <1>1, <1>2, <1>3

(***************************************************************************)
(* A finite ledger has finitely many units, so its total is a number.      *)
(***************************************************************************)
LEMMA TotalType ==
  ASSUME NEW S, IsFiniteSet(S), NEW f, \A x \in S : f[x] \in Nat
  PROVE  IsFiniteSet(Units(S, f)) /\ Total(S, f) \in Nat
  <1> DEFINE Piles == {{x} \X (1 .. f[x]) : x \in S}
             pile  == [x \in S |-> {x} \X (1 .. f[x])]
  <1>1. pile \in Surjection(S, Piles)
    BY DEF Surjection
  <1>2. IsFiniteSet(Piles)
    BY <1>1, FS_Surjection
  <1>3. \A T \in Piles : IsFiniteSet(T)
    <2> SUFFICES ASSUME NEW x \in S
                 PROVE  IsFiniteSet({x} \X (1 .. f[x]))
      OBVIOUS
    <2> QED
      BY EntryUnits
  <1>4. IsFiniteSet(UNION Piles)
    <2> HIDE DEF Piles
    <2> QED BY <1>2, <1>3, FS_UNION
  <1> QED
    BY <1>4, FS_CardinalityType DEF Units, Total

(***************************************************************************)
(* The empty ledger totals nothing.                                        *)
(***************************************************************************)
LEMMA TotalEmpty ==
  ASSUME NEW f
  PROVE  Total({}, f) = 0
  <1>1. Units({}, f) = {}
    BY DEF Units
  <1> QED
    BY <1>1, FS_EmptySet DEF Total

(***************************************************************************)
(* Two ledgers that agree on every entry have the same total.              *)
(***************************************************************************)
LEMMA TotalSame ==
  ASSUME NEW S, NEW f, NEW g, \A x \in S : g[x] = f[x]
  PROVE  Total(S, g) = Total(S, f)
  <1>1. Units(S, g) = Units(S, f)
    BY DEF Units
  <1> QED
    BY <1>1 DEF Total

(***************************************************************************)
(* Adding an entry to a ledger adds that entry to the total.               *)
(***************************************************************************)
LEMMA TotalExtend ==
  ASSUME NEW S, IsFiniteSet(S), NEW x, x \notin S,
         NEW f, NEW g, \A y \in S : f[y] \in Nat,
         \A y \in S : g[y] = f[y], g[x] \in Nat
  PROVE  Total(S \cup {x}, g) = Total(S, f) + g[x]
  <1> DEFINE New == {x} \X (1 .. g[x])
  <1>1. Units(S \cup {x}, g) = Units(S, f) \cup New
    BY DEF Units
  <1>2. Units(S, f) \cap New = {}
    BY DEF Units
  <1>3. IsFiniteSet(Units(S, f)) /\ Total(S, f) \in Nat
    BY TotalType
  <1>4. IsFiniteSet(New) /\ Cardinality(New) = g[x]
    BY EntryUnits
  <1>5. Cardinality(Units(S, f) \cap New) = 0
    BY <1>2, FS_EmptySet
  <1>6. Cardinality(Units(S, f) \cup New)
          = Cardinality(Units(S, f)) + Cardinality(New)
              - Cardinality(Units(S, f) \cap New)
    <2> HIDE DEF New
    <2> QED BY <1>3, <1>4, FS_Union
  <1>7. Cardinality(Units(S \cup {x}, g)) = Cardinality(Units(S, f)) + g[x]
    <2> HIDE DEF New
    <2>1. Cardinality(Units(S, f)) \in Nat
      BY <1>3 DEF Total
    <2>2. Cardinality(Units(S \cup {x}, g)) = Cardinality(Units(S, f) \cup New)
      BY <1>1
    <2>3. Cardinality(Units(S, f) \cup New) = Cardinality(Units(S, f)) + g[x] - 0
      BY <1>4, <1>5, <1>6
    <2> QED
      BY <2>1, <2>2, <2>3
  <1> QED
    BY <1>7 DEF Total

(***************************************************************************)
(* The same for one ledger: its total over a larger set.                   *)
(***************************************************************************)
LEMMA TotalWiden ==
  ASSUME NEW S, IsFiniteSet(S), NEW x, x \notin S,
         NEW f, \A y \in S : f[y] \in Nat, f[x] \in Nat
  PROVE  Total(S \cup {x}, f) = Total(S, f) + f[x]
  <1>1. \A y \in S : f[y] = f[y]
    OBVIOUS
  <1> QED
    BY <1>1, TotalExtend

(***************************************************************************)
(* Changing one entry changes the total by the same amount.                *)
(***************************************************************************)
LEMMA TotalChange ==
  ASSUME NEW S, IsFiniteSet(S), NEW x \in S,
         NEW f, NEW g, \A y \in S : f[y] \in Nat,
         \A y \in S \ {x} : g[y] = f[y], g[x] \in Nat
  PROVE  /\ Total(S, f) \in Nat
         /\ Total(S, g) \in Nat
         /\ Total(S, f) >= f[x]
         /\ Total(S, g) + f[x] = Total(S, f) + g[x]
  <1> DEFINE Rest == S \ {x}
  <1>1. IsFiniteSet(Rest) /\ x \notin Rest /\ Rest \cup {x} = S
    BY FS_RemoveElement
  <1>a. \A y \in Rest : f[y] \in Nat /\ g[y] = f[y]
    OBVIOUS
  <1>b. f[x] \in Nat
    OBVIOUS
  <1> HIDE DEF Rest
  <1>2. Total(Rest \cup {x}, f) = Total(Rest, f) + f[x]
    BY <1>1, <1>a, <1>b, TotalWiden
  <1>3. Total(Rest \cup {x}, g) = Total(Rest, f) + g[x]
    BY <1>1, <1>a, TotalExtend
  <1>4. Total(Rest, f) \in Nat
    BY <1>1, <1>a, TotalType
  <1> QED
    <2>1. Total(S, f) = Total(Rest, f) + f[x] /\ Total(S, g) = Total(Rest, f) + g[x]
      BY <1>1, <1>2, <1>3
    <2> QED
      BY <2>1, <1>4, <1>b

(***************************************************************************)
(* The same, with the larger set given a name of its own.                  *)
(***************************************************************************)
LEMMA TotalGrow ==
  ASSUME NEW S, IsFiniteSet(S), NEW x, x \notin S, NEW T, T = S \cup {x},
         NEW f, NEW g, \A y \in S : f[y] \in Nat,
         \A y \in S : g[y] = f[y], g[x] \in Nat
  PROVE  Total(T, g) = Total(S, f) + g[x]
  <1>1. Total(S \cup {x}, g) = Total(S, f) + g[x]
    BY TotalExtend
  <1> QED
    BY <1>1

(***************************************************************************)
(* The same, with the new entry given a name of its own.                   *)
(***************************************************************************)
LEMMA TotalGrowBy ==
  ASSUME NEW S, IsFiniteSet(S), NEW x, x \notin S, NEW T, T = S \cup {x},
         NEW f, NEW g, \A y \in S : f[y] \in Nat,
         \A y \in S : g[y] = f[y], NEW v \in Nat, g[x] = v
  PROVE  Total(T, g) = Total(S, f) + v
  <1>1. g[x] \in Nat
    OBVIOUS
  <1>2. Total(T, g) = Total(S, f) + g[x]
    BY <1>1, TotalGrow
  <1> QED
    BY <1>2
=============================================================================
