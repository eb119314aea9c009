---------------------------- MODULE StockProofs ----------------------------
(***************************************************************************)
(* Theorems about the stock ledger, for every set of variants and keys and *)
(* every bound: type correctness, that no step takes units beyond the      *)
(* stock, that without seller edits the ledger never oversells, and that   *)
(* it implements Allocation.                                               *)
(***************************************************************************)
EXTENDS Stock, FiniteSetTheorems, TLAPS

(***************************************************************************)
(* The units of any keys form a finite set, so their number is a natural.  *)
(***************************************************************************)
LEMMA UnitsFinite ==
    ASSUME NEW rows, NEW ks \in SUBSET Keys
    PROVE  /\ IsFiniteSet(UnitsOf(rows, ks))
           /\ Cardinality(UnitsOf(rows, ks)) \in Nat
<1>1. IsFiniteSet(1..MaxUnits)
  BY FS_Interval, MaxUnitsAssumption
<1>2. IsFiniteSet(Keys \X (1..MaxUnits))
  BY <1>1, FS_Product, KeysAssumption
<1>3. UnitsOf(rows, ks) \in SUBSET (Keys \X (1..MaxUnits))
  BY DEF UnitsOf
<1>4. IsFiniteSet(UnitsOf(rows, ks))
  BY <1>2, <1>3, FS_Subset
<1> QED
  BY <1>4, FS_CardinalityType

LEMMA SumType ==
    ASSUME NEW rows, NEW v
    PROVE  SumReserved(rows, v) \in Nat
<1>1. KeysOf(v) \in SUBSET Keys
  BY DEF KeysOf
<1> QED
  BY <1>1, UnitsFinite DEF SumReserved

(***************************************************************************)
(* The sum of a variant does not grow when every unit taken was taken      *)
(* before.                                                                 *)
(***************************************************************************)
LEMMA SumMonotone ==
    ASSUME NEW old, NEW new, NEW v,
           \A k \in Keys : Consumes(new[k]) => Consumes(old[k]) /\ new[k].quantity = old[k].quantity
    PROVE  SumReserved(new, v) <= SumReserved(old, v)
<1>1. KeysOf(v) \in SUBSET Keys
  BY DEF KeysOf
<1>2. UnitsOf(new, KeysOf(v)) \in SUBSET UnitsOf(old, KeysOf(v))
  BY <1>1 DEF UnitsOf
<1> QED
  BY <1>1, <1>2, UnitsFinite, FS_Subset DEF SumReserved

(***************************************************************************)
(* A row that takes units lo+1..q on top of what its key held raises the   *)
(* sum of a variant by q - lo at most.                                     *)
(***************************************************************************)
LEMMA SumGrowth ==
    ASSUME NEW old, NEW new, NEW v, NEW k \in Keys, NEW lo \in Nat, NEW q \in Nat, lo <= q,
           \A j \in Keys \ {k} : new[j] = old[j],
           Consumes(new[k]) => new[k].quantity = q,
           lo > 0 => Consumes(old[k]) /\ old[k].quantity = lo
    PROVE  SumReserved(new, v) <= SumReserved(old, v) + (q - lo)
<1> DEFINE extra == {k} \X ((lo + 1)..q)
           before == UnitsOf(old, KeysOf(v))
           after == UnitsOf(new, KeysOf(v))
<1>1. KeysOf(v) \in SUBSET Keys
  BY DEF KeysOf
<1>2. IsFiniteSet((lo + 1)..q) /\ Cardinality((lo + 1)..q) = q - lo
  <2>1. lo + 1 \in Int /\ q \in Int
    OBVIOUS
  <2> QED
    BY <2>1, FS_Interval
<1>3. IsFiniteSet({k}) /\ Cardinality({k}) = 1
  BY FS_Singleton
<1>4. IsFiniteSet(extra) /\ Cardinality(extra) = Cardinality({k}) * Cardinality((lo + 1)..q)
  BY <1>2, <1>3, FS_Product
<1>5. Cardinality(extra) = q - lo
  BY <1>2, <1>3, <1>4
<1>6. after \in SUBSET (before \cup extra)
  <2> SUFFICES ASSUME NEW u \in after
               PROVE  u \in before \cup extra
    OBVIOUS
  <2>1. u \in KeysOf(v) \X (1..MaxUnits) /\ Consumes(new[u[1]]) /\ u[2] <= new[u[1]].quantity
    BY DEF UnitsOf
  <2>2. CASE u[1] # k
    BY <1>1, <2>1, <2>2 DEF UnitsOf
  <2>3. CASE u[1] = k /\ u[2] <= lo
    BY <2>1, <2>3, MaxUnitsAssumption DEF UnitsOf
  <2>4. CASE u[1] = k /\ u[2] > lo
    <3>1. u[2] \in (lo + 1)..q
      BY <2>1, <2>4, MaxUnitsAssumption
    <3> QED
      BY <2>1, <2>4, <3>1
  <2> QED
    BY <2>1, <2>2, <2>3, <2>4, MaxUnitsAssumption
<1>7. IsFiniteSet(before) /\ Cardinality(before) \in Nat /\ Cardinality(after) \in Nat
  BY <1>1, UnitsFinite
<1>8. /\ IsFiniteSet(before \cup extra)
      /\ Cardinality(before \cup extra)
         = Cardinality(before) + Cardinality(extra) - Cardinality(before \cap extra)
  BY <1>4, <1>7, FS_Union
<1>9. Cardinality(before \cap extra) \in Nat
  <2>1. before \cap extra \in SUBSET before
    OBVIOUS
  <2> QED
    BY <1>7, <2>1, FS_Subset, FS_CardinalityType
<1>10. Cardinality(after) <= Cardinality(before \cup extra)
  BY <1>6, <1>8, FS_Subset
<1>11. Cardinality(after) <= Cardinality(before) + (q - lo)
  BY <1>5, <1>7, <1>8, <1>9, <1>10
<1> QED
  BY <1>11 DEF SumReserved

-----------------------------------------------------------------------------
(* Type correctness.                                                       *)

LEMMA TriggeredSumType ==
    ASSUME StockTypeOK, NEW k \in Keys, NEW row \in Row
    PROVE  TriggeredSum(k, row) \in Nat
<1>1. KeysOf(VariantOf[k]) \ {k} \in SUBSET Keys
  BY DEF KeysOf
<1>2. SumOfOthers(k) \in Nat
  BY <1>1, UnitsFinite DEF SumOfOthers
<1>3. queued[k] = NotQueued \/ queued[k] \in Nat
  BY DEF StockTypeOK
<1>4. OwnUnits(row) \in Nat
  BY MaxUnitsAssumption DEF OwnUnits, Row
<1> QED
  BY <1>2, <1>3, <1>4 DEF TriggeredSum

LEMMA SweptType ==
    ASSUME StockTypeOK, NEW due \in SUBSET Keys
    PROVE  Swept(res, due) \in [Keys -> Row]
<1> SUFFICES ASSUME NEW k \in Keys
             PROVE  [res[k] EXCEPT !.state = "expired", !.expiry = "never"] \in Row /\ res[k] \in Row
  BY DEF Swept
<1> QED
  BY DEF StockTypeOK, Row

LEMMA SweptCounterType ==
    ASSUME StockTypeOK, NEW v \in Variants
    PROVE  SweptCounter(v) \in Nat
<1>1. CASE DueKeys \cap KeysOf(v) = {}
  BY <1>1 DEF SweptCounter, StockTypeOK
<1>2. CASE DueKeys \cap KeysOf(v) # {} /\ Cardinality(DueKeys \cap KeysOf(v)) = 1
  <2> DEFINE due == DueKeys \cap KeysOf(v)
             d == CHOOSE x \in due : TRUE
  <2>1. d \in due
    BY <1>2
  <2>2. d \in Keys /\ due \in SUBSET Keys
    BY <2>1 DEF DueKeys
  <2>3. Swept(res, due)[d] \in Row
    BY <2>2, SweptType
  <2>4. TriggeredSum(d, Swept(res, due)[d]) \in Nat
    BY <2>2, <2>3, TriggeredSumType
  <2> QED
    BY <1>2, <2>4 DEF SweptCounter, SweepSum
<1>3. CASE DueKeys \cap KeysOf(v) # {} /\ Cardinality(DueKeys \cap KeysOf(v)) # 1
  BY <1>3, SumType DEF SweptCounter, SweepSum
<1> QED
  BY <1>1, <1>2, <1>3

\* A one-row write with its trigger keeps the types.
LEMMA WriteRowType ==
    ASSUME StockTypeOK, NEW k \in Keys, NEW row \in Row, WriteRow(k, row)
    PROVE  /\ reserved_qty' \in [Variants -> Nat]
           /\ res' \in [Keys -> Row]
           /\ queued' \in [Keys -> Nat \cup {NotQueued}]
<1>1. TriggeredSum(k, row) \in Nat
  BY TriggeredSumType
<1> QED
  BY <1>1 DEF WriteRow, StockTypeOK

LEMMA StockTypeStep == StockTypeOK /\ [StockNext]_stockVars => StockTypeOK'
<1> SUFFICES ASSUME StockTypeOK, [StockNext]_stockVars
             PROVE  StockTypeOK'
  OBVIOUS
<1>1. ASSUME NEW k \in Keys, NEW q \in 1..MaxUnits, NEW e \in {"never", "later", "due"},
             Reserve(k, q, e)
      PROVE  StockTypeOK'
  <2> DEFINE row == IF res[k].state = "committed" THEN res[k]
                    ELSE [quantity |-> q, state |-> "held", expiry |-> e]
  <2>1. row \in Row
    BY MaxUnitsAssumption DEF StockTypeOK, Row
  <2>2. TriggeredSum(k, row) \in Nat
    BY <2>1, TriggeredSumType
  <2> HIDE DEF row
  <2>3. /\ res' = [res EXCEPT ![k] = row]
        /\ reserved_qty' = [reserved_qty EXCEPT ![VariantOf[k]] = TriggeredSum(k, row)]
        /\ UNCHANGED <<qty, queued>>
    BY <1>1 DEF Reserve, row
  <2> QED
    BY <2>1, <2>2, <2>3 DEF StockTypeOK
<1>2. ASSUME NEW k \in Keys, Release(k)
      PROVE  StockTypeOK'
  <2>1. [res[k] EXCEPT !.state = "released", !.expiry = "never"] \in Row
    BY DEF StockTypeOK, Row
  <2> QED
    BY <1>2, <2>1, WriteRowType DEF Release, StockTypeOK
<1>3. ASSUME NEW k \in Keys, Commit(k)
      PROVE  StockTypeOK'
  <2>1. [res[k] EXCEPT !.state = "committed", !.expiry = "never"] \in Row
    BY DEF StockTypeOK, Row
  <2> QED
    BY <1>3, <2>1, WriteRowType DEF Commit, StockTypeOK
<1>4. ASSUME NEW k \in Keys, Lapse(k)
      PROVE  StockTypeOK'
  BY <1>4 DEF Lapse, StockTypeOK, Row
<1>5. ASSUME NEW k \in Keys, QueueRecompute(k)
      PROVE  StockTypeOK'
  <2>1. KeysOf(VariantOf[k]) \ {k} \in SUBSET Keys
    BY DEF KeysOf
  <2>2. SumOfOthers(k) \in Nat
    BY <2>1, UnitsFinite DEF SumOfOthers
  <2> QED
    BY <1>5, <2>2 DEF QueueRecompute, StockTypeOK
<1>6. ASSUME NEW k \in Keys, AbortQueued(k)
      PROVE  StockTypeOK'
  BY <1>6 DEF AbortQueued, StockTypeOK
<1>7. ASSUME ExpireSweep
      PROVE  StockTypeOK'
  <2>1. Swept(res, DueKeys) \in [Keys -> Row]
    BY SweptType DEF DueKeys
  <2>2. \A v \in Variants : SweptCounter(v) \in Nat
    BY SweptCounterType
  <2>3. SweptQueue \in [Keys -> Nat \cup {NotQueued}]
    BY DEF SweptQueue, StockTypeOK
  <2> QED
    BY <1>7, <2>1, <2>2, <2>3 DEF ExpireSweep, StockTypeOK
<1>8. ASSUME NEW v \in Variants, NEW n \in SaveQuantities, Save(v, n)
      PROVE  StockTypeOK'
  BY <1>8, SaveAssumption DEF Save, StockTypeOK
<1>9. CASE UNCHANGED stockVars
  BY <1>9 DEF stockVars, StockTypeOK
<1> QED
  BY <1>1, <1>2, <1>3, <1>4, <1>5, <1>6, <1>7, <1>8, <1>9 DEF StockNext

(***************************************************************************)
(* The ledger's type invariant: in particular reserved_qty, written from   *)
(* stale snapshots or not, never becomes negative (schema.sql keeps it in  *)
(* a CHECK), and no reservation exceeds its bound.                         *)
(***************************************************************************)
THEOREM StockTypeCorrect == StockSpec => []StockTypeOK
<1>1. StockInit => StockTypeOK
  BY MaxUnitsAssumption DEF StockInit, StockTypeOK, Row, NoRow
<1> QED
  BY <1>1, StockTypeStep, PTL DEF StockSpec

-----------------------------------------------------------------------------
(* No step takes units beyond the stock.                                   *)

\* reserve_inventory: a hold that grows stays within the stock.
LEMMA GrowingReserve ==
    ASSUME StockTypeOK, NEW k \in Keys, NEW q \in 1..MaxUnits, NEW e, Reserve(k, q, e),
           res[k].state # "committed", OwnUnits(res[k]) < q
    PROVE  SumReserved(res', VariantOf[k]) <= qty[VariantOf[k]]
<1> DEFINE v == VariantOf[k]
           held == OwnUnits(res[k])
           sum == SumReserved(res, v)
           sum1 == SumReserved(res', v)
<1>1. v \in Variants /\ q \in Nat /\ held \in Nat /\ qty[v] \in Nat
  BY KeysAssumption, MaxUnitsAssumption DEF StockTypeOK, Row, OwnUnits
<1>2. sum \in Nat /\ sum1 \in Nat
  BY SumType
<1>3. res \in [Keys -> Row]
      /\ res' = [res EXCEPT ![k] = [quantity |-> q, state |-> "held", expiry |-> e]]
  BY DEF Reserve, StockTypeOK
<1>4. sum1 <= sum + (q - held)
  <2>1. res'[k].quantity = q /\ \A j \in Keys \ {k} : res'[j] = res[j]
    BY <1>3
  <2>2. held > 0 => Consumes(res[k]) /\ res[k].quantity = held
    BY DEF OwnUnits
  <2>3. held <= q
    BY <1>1
  <2> HIDE DEF held
  <2> QED
    BY <1>1, <2>1, <2>2, <2>3, SumGrowth
<1>5. Incremental(res, k, q) = q - held
  BY <1>1 DEF Incremental, OwnUnits, Consumes
<1>6. q - held <= AvailableQty(sum, v)
  BY <1>5 DEF Reserve, ReserveAdmits
<1> QED
  BY <1>1, <1>2, <1>4, <1>6 DEF AvailableQty

\* reserve_inventory: the sum does not grow, or stays within the stock.
LEMMA ReserveWithinStock ==
    ASSUME StockTypeOK, NEW k \in Keys, NEW q \in 1..MaxUnits, NEW e, Reserve(k, q, e),
           NEW v \in Variants
    PROVE  SumReserved(res', v) <= SumReserved(res, v) \/ SumReserved(res', v) <= qty[v]
<1> DEFINE row == IF res[k].state = "committed" THEN res[k]
                  ELSE [quantity |-> q, state |-> "held", expiry |-> e]
           held == IF res[k].state = "held" THEN res[k].quantity ELSE 0
           sum == SumReserved(res, v)
           sum1 == SumReserved(res', v)
<1>1. q \in Nat /\ held \in Nat /\ qty[v] \in Nat
  BY MaxUnitsAssumption DEF StockTypeOK, Row
<1>2. sum \in Nat /\ sum1 \in Nat
  BY SumType
<1>3. res' = [res EXCEPT ![k] = row] /\ res \in [Keys -> Row]
  BY DEF Reserve, StockTypeOK
<1>4. CASE VariantOf[k] # v
  <2>1. \A j \in KeysOf(v) : res'[j] = res[j]
    BY <1>3, <1>4 DEF KeysOf
  <2>2. UnitsOf(res', KeysOf(v)) = UnitsOf(res, KeysOf(v))
    BY <2>1 DEF UnitsOf
  <2> QED
    BY <1>2, <2>2 DEF SumReserved
<1>5. CASE res[k].state = "committed"
  <2>1. res' = res
    BY <1>3, <1>5
  <2> QED
    BY <1>2, <2>1
<1>6. CASE VariantOf[k] = v /\ res[k].state # "committed" /\ held >= q
  <2>1. res'[k].quantity = q /\ \A j \in Keys \ {k} : res'[j] = res[j]
    BY <1>3, <1>6
  <2>2. UnitsOf(res', KeysOf(v)) \in SUBSET UnitsOf(res, KeysOf(v))
    BY <1>1, <1>3, <1>6, <2>1, MaxUnitsAssumption DEF UnitsOf, KeysOf, Consumes
  <2>3. KeysOf(v) \in SUBSET Keys
    BY DEF KeysOf
  <2>4. sum1 <= sum
    BY <2>2, <2>3, UnitsFinite, FS_Subset DEF SumReserved
  <2> QED
    BY <2>4
<1>7. CASE VariantOf[k] = v /\ res[k].state # "committed" /\ held < q
  BY <1>7, GrowingReserve DEF OwnUnits, Consumes
<1> QED
  BY <1>1, <1>4, <1>5, <1>6, <1>7

\* Steps that only end or keep reservations leave no variant with more units taken.
LEMMA OtherStepsTakeNothing ==
    ASSUME StockTypeOK,
           \/ \E k \in Keys : \/ Release(k) \/ Commit(k) \/ Lapse(k)
                              \/ QueueRecompute(k) \/ AbortQueued(k)
           \/ ExpireSweep
           \/ \E v \in Variants, n \in SaveQuantities : Save(v, n)
           \/ UNCHANGED stockVars,
           NEW v \in Variants
    PROVE  SumReserved(res', v) <= SumReserved(res, v)
<1> SUFFICES \A k \in Keys : Consumes(res'[k]) => Consumes(res[k])
                                                /\ res'[k].quantity = res[k].quantity
  BY SumMonotone
<1>1. res \in [Keys -> Row]
  BY DEF StockTypeOK
<1>2. ASSUME NEW k \in Keys, Release(k) \/ Commit(k)
      PROVE  \A j \in Keys : Consumes(res'[j]) => Consumes(res[j])
                                                /\ res'[j].quantity = res[j].quantity
  <2>1. CASE Release(k)
    <3>1. res' = [res EXCEPT ![k] = [res[k] EXCEPT !.state = "released", !.expiry = "never"]]
      BY <2>1 DEF Release, WriteRow
    <3> QED
      BY <1>1, <3>1 DEF Consumes, Row
  <2>2. CASE Commit(k)
    <3>1. /\ res[k].state \in {"held", "committed"}
          /\ res' = [res EXCEPT ![k] = [res[k] EXCEPT !.state = "committed", !.expiry = "never"]]
      BY <2>2 DEF Commit, Committable, WriteRow
    <3> QED
      BY <1>1, <3>1 DEF Consumes, Row
  <2> QED
    BY <1>2, <2>1, <2>2
<1>3. ASSUME NEW k \in Keys, Lapse(k)
      PROVE  \A j \in Keys : Consumes(res'[j]) => Consumes(res[j])
                                                /\ res'[j].quantity = res[j].quantity
  BY <1>1, <1>3 DEF Lapse, Consumes, Row
<1>4. CASE ExpireSweep
  BY <1>1, <1>4 DEF ExpireSweep, Swept, Consumes, Row
<1>5. ASSUME UNCHANGED res
      PROVE  \A j \in Keys : Consumes(res'[j]) => Consumes(res[j])
                                                /\ res'[j].quantity = res[j].quantity
  BY <1>5
<1>6. (\E k \in Keys : QueueRecompute(k) \/ AbortQueued(k)) => UNCHANGED res
  BY DEF QueueRecompute, AbortQueued
<1>7. (\E w \in Variants, n \in SaveQuantities : Save(w, n)) => UNCHANGED res
  BY DEF Save
<1>8. UNCHANGED stockVars => UNCHANGED res
  BY DEF stockVars
<1> QED
  BY <1>2, <1>3, <1>4, <1>5, <1>6, <1>7, <1>8

\* Only reserve_inventory raises a sum, and it leaves qty alone.
LEMMA StepWithinStock ==
    ASSUME StockTypeOK, [StockNext]_stockVars, NEW v \in Variants
    PROVE  SumReserved(res', v) <= SumReserved(res, v) \/ SumReserved(res', v) <= qty'[v]
<1>1. CASE \E k \in Keys, q \in 1..MaxUnits, e \in {"never", "later", "due"} : Reserve(k, q, e)
  <2>1. PICK k \in Keys, q \in 1..MaxUnits, e \in {"never", "later", "due"} : Reserve(k, q, e)
    BY <1>1
  <2>2. qty' = qty
    BY <2>1 DEF Reserve
  <2> QED
    BY <2>1, <2>2, ReserveWithinStock
<1> QED
  BY <1>1, OtherStepsTakeNothing DEF StockNext

(***************************************************************************)
(* No step of the ledger raises the units taken of a variant beyond its    *)
(* stock, for any number of sources, any seller edits of qty and however   *)
(* stale the counter is.                                                   *)
(***************************************************************************)
THEOREM StockRaisesWithin == StockSpec => RaisesWithinStock
<1>1. StockTypeOK /\ [StockNext]_stockVars
      => [\A v \in Variants : SumReserved(res', v) > SumReserved(res, v)
                                 => SumReserved(res', v) <= qty'[v]]_stockVars
  <2> SUFFICES ASSUME StockTypeOK, [StockNext]_stockVars, NEW v \in Variants,
                      SumReserved(res', v) > SumReserved(res, v)
               PROVE  SumReserved(res', v) <= qty'[v]
    OBVIOUS
  <2> QED
    BY StepWithinStock, SumType
<1> QED
  BY <1>1, StockTypeCorrect, PTL DEF StockSpec, RaisesWithinStock

(***************************************************************************)
(* When the seller does not edit qty during the sale, the held and         *)
(* committed reservations of a variant never exceed its stock.             *)
(***************************************************************************)
THEOREM StockNeverOversold ==
    ASSUME SaveQuantities = {}
    PROVE  StockSpec => []NoOversell
<1>1. StockInit => NoOversell
  <2> SUFFICES ASSUME StockInit, NEW v \in Variants
               PROVE  SumReserved(res, v) <= qty[v]
    BY DEF NoOversell
  <2>1. UnitsOf(res, KeysOf(v)) = {}
    BY DEF StockInit, UnitsOf, KeysOf, NoRow, Consumes
  <2>2. SumReserved(res, v) = 0
    BY <2>1, FS_EmptySet DEF SumReserved
  <2> QED
    BY <2>2, MaxUnitsAssumption DEF StockInit
<1>2. StockTypeOK /\ StockTypeOK' /\ NoOversell /\ [StockNext]_stockVars => NoOversell'
  <2> SUFFICES ASSUME StockTypeOK, StockTypeOK', NoOversell, [StockNext]_stockVars,
                      NEW v \in Variants
               PROVE  SumReserved(res', v) <= qty'[v]
    BY DEF NoOversell
  <2>1. qty' = qty
    BY DEF StockNext, Reserve, Release, Commit, Lapse, QueueRecompute, AbortQueued,
           ExpireSweep, stockVars
  <2>2. SumReserved(res', v) <= SumReserved(res, v) \/ SumReserved(res', v) <= qty'[v]
    BY StepWithinStock
  <2>3. SumReserved(res, v) <= qty[v]
    BY DEF NoOversell
  <2>4. SumReserved(res, v) \in Nat /\ SumReserved(res', v) \in Nat /\ qty[v] \in Int
    BY SumType DEF StockTypeOK
  <2> QED
    BY <2>1, <2>2, <2>3, <2>4
<1> QED
  BY <1>1, <1>2, StockTypeCorrect, PTL DEF StockSpec

-----------------------------------------------------------------------------
\* The sum of a variant is the sum of the other rows plus the row of one key.
LEMMA SumSplits ==
    ASSUME NEW rows, NEW k \in Keys, rows[k] \in Row
    PROVE  SumReserved(rows, VariantOf[k])
           = Cardinality(UnitsOf(rows, KeysOf(VariantOf[k]) \ {k})) + OwnUnits(rows[k])
<1> DEFINE ks == KeysOf(VariantOf[k])
           own == {k} \X (1..OwnUnits(rows[k]))
           others == UnitsOf(rows, ks \ {k})
<1>1. ks \in SUBSET Keys /\ ks \ {k} \in SUBSET Keys /\ k \in ks
  BY DEF KeysOf
<1>2. OwnUnits(rows[k]) \in 0..MaxUnits
  BY MaxUnitsAssumption DEF OwnUnits, Row
<1>3. IsFiniteSet(1..OwnUnits(rows[k])) /\ Cardinality(1..OwnUnits(rows[k])) = OwnUnits(rows[k])
  <2>1. 1 \in Int /\ OwnUnits(rows[k]) \in Nat
    BY <1>2, MaxUnitsAssumption
  <2> QED
    BY <2>1, FS_Interval
<1>4. IsFiniteSet({k}) /\ Cardinality({k}) = 1
  BY FS_Singleton
<1>5. IsFiniteSet(own) /\ Cardinality(own) = Cardinality({k}) * Cardinality(1..OwnUnits(rows[k]))
  BY <1>3, <1>4, FS_Product
<1>6. Cardinality(own) = OwnUnits(rows[k])
  BY <1>2, <1>3, <1>4, <1>5, MaxUnitsAssumption
<1>7. UnitsOf(rows, ks) = others \cup own
  <2>1. ASSUME NEW u \in UnitsOf(rows, ks)
        PROVE  u \in others \cup own
    <3>1. u \in ks \X (1..MaxUnits) /\ Consumes(rows[u[1]]) /\ u[2] <= rows[u[1]].quantity
      BY <2>1 DEF UnitsOf
    <3>2. CASE u[1] # k
      BY <3>1, <3>2 DEF UnitsOf
    <3>3. CASE u[1] = k
      <4>1. u[2] \in 1..OwnUnits(rows[k])
        BY <3>1, <3>3, MaxUnitsAssumption DEF OwnUnits, Row
      <4> QED
        BY <3>1, <3>3, <4>1
    <3> QED
      BY <3>2, <3>3
  <2>2. ASSUME NEW u \in others
        PROVE  u \in UnitsOf(rows, ks)
    BY <2>2 DEF UnitsOf
  <2>3. ASSUME NEW u \in own
        PROVE  u \in UnitsOf(rows, ks)
    <3>1. Consumes(rows[k]) /\ OwnUnits(rows[k]) = rows[k].quantity
      BY <1>2, <2>3 DEF OwnUnits
    <3>2. u[1] = k /\ u[2] \in 1..MaxUnits /\ u[2] <= rows[k].quantity
      BY <1>2, <2>3, <3>1, MaxUnitsAssumption
    <3> QED
      BY <1>1, <2>3, <3>1, <3>2 DEF UnitsOf
  <2> QED
    BY <2>1, <2>2, <2>3
<1>8. others \cap own = {}
  BY DEF UnitsOf
<1>9. IsFiniteSet(others) /\ Cardinality(others) \in Nat
  BY <1>1, UnitsFinite
<1>10. Cardinality(others \cup own) = Cardinality(others) + Cardinality(own) - Cardinality(others \cap own)
  BY <1>5, <1>9, FS_Union
<1>11. Cardinality(others \cap own) = 0
  BY <1>8, FS_EmptySet
<1>12. Cardinality(others \cup own) = Cardinality(others) + OwnUnits(rows[k])
  BY <1>2, <1>6, <1>9, <1>10, <1>11, MaxUnitsAssumption
<1> QED
  BY <1>7, <1>12 DEF SumReserved

\* reserve_inventory leaves the counter of its variant equal to the sum of the rows.
LEMMA ReserveRepairs ==
    ASSUME StockTypeOK, StockTypeOK', NEW k \in Keys, NEW q, NEW e, Reserve(k, q, e)
    PROVE  reserved_qty'[VariantOf[k]] = SumReserved(res', VariantOf[k])
<1> DEFINE ks == KeysOf(VariantOf[k]) \ {k}
           row == IF res[k].state = "committed" THEN res[k]
                  ELSE [quantity |-> q, state |-> "held", expiry |-> e]
<1>1. /\ res' = [res EXCEPT ![k] = row]
      /\ reserved_qty' = [reserved_qty EXCEPT ![VariantOf[k]] = TriggeredSum(k, row)]
      /\ queued[k] = NotQueued
  BY DEF Reserve
<1>2. res \in [Keys -> Row] /\ res'[k] \in Row /\ VariantOf[k] \in Variants
      /\ reserved_qty \in [Variants -> Nat]
  BY KeysAssumption DEF StockTypeOK
<1>3. res'[k] = row /\ \A j \in ks : res'[j] = res[j]
  BY <1>1, <1>2 DEF KeysOf
<1>4. UnitsOf(res', ks) = UnitsOf(res, ks)
  BY <1>3 DEF UnitsOf
<1>5. SumReserved(res', VariantOf[k]) = Cardinality(UnitsOf(res', ks)) + OwnUnits(res'[k])
  BY <1>2, SumSplits
<1> HIDE DEF row
<1>6. reserved_qty'[VariantOf[k]] = SumOfOthers(k) + OwnUnits(row)
  BY <1>1, <1>2 DEF TriggeredSum
<1> QED
  BY <1>3, <1>4, <1>5, <1>6 DEF SumOfOthers

(***************************************************************************)
(* A new hold repairs the counter: however stale reserved_qty was, after   *)
(* reserve_inventory it is the sum of the rows of that variant.            *)
(***************************************************************************)
THEOREM StockHoldsRepair == StockSpec => HoldRepairsCounter
<1> DEFINE Repaired ==
      \A k \in Keys :
         res[k].state # "held" /\ res'[k].state = "held"
         => reserved_qty'[VariantOf[k]] = SumReserved(res', VariantOf[k])
<1>1. StockTypeOK /\ StockTypeOK' /\ [StockNext]_stockVars => [Repaired]_stockVars
  <2> SUFFICES ASSUME StockTypeOK, StockTypeOK', [StockNext]_stockVars,
                      NEW k \in Keys, res[k].state # "held", res'[k].state = "held"
               PROVE  reserved_qty'[VariantOf[k]] = SumReserved(res', VariantOf[k])
    OBVIOUS
  <2>1. res \in [Keys -> Row]
    BY DEF StockTypeOK
  <2>2. ASSUME NEW j \in Keys, NEW q, NEW e, Reserve(j, q, e)
        PROVE  j = k
    BY <2>1, <2>2 DEF Reserve
  <2>3. ASSUME NEW j \in Keys, Release(j) \/ Commit(j) \/ Lapse(j)
        PROVE  FALSE
    <3>1. CASE Release(j)
      BY <2>1, <3>1 DEF Release, WriteRow, Row
    <3>2. CASE Commit(j)
      BY <2>1, <3>2 DEF Commit, WriteRow, Row
    <3>3. CASE Lapse(j)
      BY <2>1, <3>3 DEF Lapse, Row
    <3> QED
      BY <2>3, <3>1, <3>2, <3>3
  <2>4. ASSUME NEW j \in Keys, QueueRecompute(j) \/ AbortQueued(j)
        PROVE  FALSE
    BY <2>4 DEF QueueRecompute, AbortQueued
  <2>5. ~ ExpireSweep
    <3> SUFFICES ASSUME ExpireSweep
                 PROVE  FALSE
      OBVIOUS
    <3>1. res'[k] = IF k \in DueKeys
                    THEN [res[k] EXCEPT !.state = "expired", !.expiry = "never"] ELSE res[k]
      BY DEF ExpireSweep, Swept
    <3> QED
      BY <2>1, <3>1 DEF Row
  <2>6. ~ (\E v \in Variants, n \in SaveQuantities : Save(v, n)) /\ ~ UNCHANGED stockVars
    BY DEF Save, stockVars
  <2>7. \E q \in 1..MaxUnits, e \in {"never", "later", "due"} : Reserve(k, q, e)
    BY <2>2, <2>3, <2>4, <2>5, <2>6 DEF StockNext
  <2> QED
    BY <2>7, ReserveRepairs
<1> QED
  BY <1>1, StockTypeCorrect, PTL DEF StockSpec, HoldRepairsCounter
-----------------------------------------------------------------------------
(***************************************************************************)
(* An exact retry of a held reservation is always admitted by              *)
(* reserve_inventory, also when the variant is sold out or its qty was     *)
(* lowered under the hold.                                                 *)
(***************************************************************************)
THEOREM StockRetryAdmitted == StockSpec => []RetryAdmitted
<1>1. StockTypeOK => RetryAdmitted
  <2> SUFFICES ASSUME StockTypeOK, NEW k \in Keys, res[k].state = "held"
               PROVE  ReserveAdmits(res, k, res[k].quantity)
    BY DEF RetryAdmitted
  <2>1. Incremental(res, k, res[k].quantity) = 0
    BY MaxUnitsAssumption DEF Incremental, StockTypeOK, Row
  <2>2. SumReserved(res, VariantOf[k]) \in Nat /\ qty[VariantOf[k]] \in Nat
    BY SumType, KeysAssumption, MaxUnitsAssumption DEF StockTypeOK
  <2> QED
    BY <2>1, <2>2 DEF ReserveAdmits, AvailableQty
<1> QED
  BY <1>1, StockTypeCorrect, PTL

-----------------------------------------------------------------------------
(* The ledger implements Allocation.                                       *)

\* A row that takes units takes at least one.
HeldUnits == \A k \in Keys : Consumes(res[k]) => res[k].quantity > 0

LEMMA HeldUnitsStep == StockTypeOK /\ HeldUnits /\ [StockNext]_stockVars => HeldUnits'
<1> SUFFICES ASSUME StockTypeOK, HeldUnits, [StockNext]_stockVars, NEW j \in Keys
             PROVE  Consumes(res'[j]) => res'[j].quantity > 0
  BY DEF HeldUnits
<1>1. res \in [Keys -> Row] /\ (Consumes(res[j]) => res[j].quantity > 0)
  BY DEF StockTypeOK, HeldUnits
<1>2. ASSUME NEW k \in Keys, NEW q \in 1..MaxUnits, NEW e, Reserve(k, q, e)
      PROVE  Consumes(res'[j]) => res'[j].quantity > 0
  <2>1. res' = [res EXCEPT ![k] = IF res[k].state = "committed" THEN res[k]
                                  ELSE [quantity |-> q, state |-> "held", expiry |-> e]]
    BY <1>2 DEF Reserve
  <2>2. q > 0
    BY MaxUnitsAssumption
  <2> QED
    BY <1>1, <2>1, <2>2
<1>3. ASSUME NEW k \in Keys, Release(k)
      PROVE  Consumes(res'[j]) => res'[j].quantity > 0
  BY <1>1, <1>3 DEF Release, WriteRow, Consumes, Row
<1>4. ASSUME NEW k \in Keys, Commit(k)
      PROVE  Consumes(res'[j]) => res'[j].quantity > 0
  BY <1>1, <1>4 DEF Commit, Committable, WriteRow, Consumes, Row
<1>5. ASSUME NEW k \in Keys, Lapse(k)
      PROVE  Consumes(res'[j]) => res'[j].quantity > 0
  BY <1>1, <1>5 DEF Lapse, Consumes, Row
<1>6. CASE ExpireSweep
  BY <1>1, <1>6 DEF ExpireSweep, Swept, Consumes, Row
<1>7. UNCHANGED res => (Consumes(res'[j]) => res'[j].quantity > 0)
  BY <1>1
<1>8. (\/ \E k \in Keys : QueueRecompute(k) \/ AbortQueued(k)
       \/ \E w \in Variants, n \in SaveQuantities : Save(w, n)
       \/ UNCHANGED stockVars) => UNCHANGED res
  BY DEF QueueRecompute, AbortQueued, Save, stockVars
<1> QED
  BY <1>2, <1>3, <1>4, <1>5, <1>6, <1>7, <1>8 DEF StockNext

LEMMA HeldUnitsAlways == StockSpec => []HeldUnits
<1>1. StockInit => HeldUnits
  BY DEF StockInit, HeldUnits, NoRow, Consumes
<1> QED
  BY <1>1, HeldUnitsStep, StockTypeCorrect, PTL DEF StockSpec

\* The units claimed, as Allocation counts them, are the units the rows take.
LEMMA ClaimedIsSum ==
    ASSUME NEW rows \in [Keys -> Row], NEW v
    PROVE  Promise!Claimed(ClaimsOf(rows), v) = SumReserved(rows, v)
<1>1. \A k \in Keys, n \in 1..MaxUnits :
        n <= ClaimsOf(rows)[k].units <=> Consumes(rows[k]) /\ n <= rows[k].quantity
  BY MaxUnitsAssumption DEF ClaimsOf, OwnUnits, Row
<1>2. {u \in {k \in Keys : VariantOf[k] = v} \X (1..MaxUnits) : u[2] <= ClaimsOf(rows)[u[1]].units}
        = UnitsOf(rows, KeysOf(v))
  BY <1>1 DEF UnitsOf, KeysOf
<1> QED
  BY <1>2 DEF Promise!Claimed, SumReserved, Promise!Cardinality, Cardinality

\* reserve_inventory places a claim, or leaves a firm one alone.
LEMMA ReservePlaces ==
    ASSUME StockTypeOK, StockTypeOK', NEW k \in Keys, NEW q \in 1..MaxUnits, NEW e, Reserve(k, q, e)
    PROVE  Promise!Place(k, q) \/ UNCHANGED <<qty, ClaimsOf(res)>>
<1>1. res \in [Keys -> Row] /\ res' \in [Keys -> Row] /\ qty' = qty
  BY DEF StockTypeOK, Reserve
<1>2. CASE res[k].state = "committed"
  <2>1. res' = res
    BY <1>1, <1>2 DEF Reserve
  <2> QED
    BY <1>1, <2>1 DEF ClaimsOf
<1>3. CASE res[k].state # "committed"
  <2>1. res' = [res EXCEPT ![k] = [quantity |-> q, state |-> "held", expiry |-> e]]
    BY <1>3 DEF Reserve
  <2>2. ClaimsOf(res') = [ClaimsOf(res) EXCEPT ![k] = [units |-> q, firm |-> FALSE]]
    BY <1>1, <2>1 DEF ClaimsOf, OwnUnits, Consumes
  <2>3. q > OwnUnits(res[k]) => Promise!Claimed(ClaimsOf(res'), VariantOf[k]) <= qty[VariantOf[k]]
    BY <1>1, <1>3, GrowingReserve, ClaimedIsSum, MaxUnitsAssumption DEF OwnUnits, Row
  <2>4. ClaimsOf(res)[k] = [units |-> OwnUnits(res[k]), firm |-> FALSE]
    BY <1>3 DEF ClaimsOf
  <2> QED
    BY <1>1, <2>2, <2>3, <2>4 DEF Promise!Place
<1> QED
  BY <1>2, <1>3

\* Every step of the ledger is a step of Allocation or leaves the claims alone.
LEMMA PromiseStep ==
    StockTypeOK /\ StockTypeOK' /\ HeldUnits /\ [StockNext]_stockVars
    => [Promise!AllocationNext]_(Promise!allocationVars)
<1> SUFFICES ASSUME StockTypeOK, StockTypeOK', HeldUnits, [StockNext]_stockVars
             PROVE  Promise!AllocationNext \/ UNCHANGED <<qty, ClaimsOf(res)>>
  BY DEF Promise!allocationVars
<1>1. res \in [Keys -> Row] /\ res' \in [Keys -> Row]
  BY DEF StockTypeOK
<1>2. ASSUME NEW k \in Keys, NEW q \in 1..MaxUnits, NEW e, Reserve(k, q, e)
      PROVE  Promise!AllocationNext \/ UNCHANGED <<qty, ClaimsOf(res)>>
  BY <1>2, ReservePlaces DEF Promise!AllocationNext
<1>3. ASSUME NEW k \in Keys, Release(k)
      PROVE  Promise!AllocationNext
  <2>1. res' = [res EXCEPT ![k] = [res[k] EXCEPT !.state = "released", !.expiry = "never"]] /\ qty' = qty
    BY <1>3 DEF Release, WriteRow
  <2>2. ClaimsOf(res') = [ClaimsOf(res) EXCEPT ![k] = Promise!NoClaim]
    BY <1>1, <2>1 DEF ClaimsOf, OwnUnits, Consumes, Row, Promise!NoClaim
  <2> QED
    BY <2>1, <2>2 DEF Promise!AllocationNext, Promise!Withdraw
<1>4. ASSUME NEW k \in Keys, Commit(k)
      PROVE  Promise!AllocationNext
  <2>1. /\ Consumes(res[k])
        /\ res' = [res EXCEPT ![k] = [res[k] EXCEPT !.state = "committed", !.expiry = "never"]]
        /\ qty' = qty
    BY <1>4 DEF Commit, Committable, WriteRow, Consumes
  <2>2. ClaimsOf(res') = [ClaimsOf(res) EXCEPT ![k].firm = TRUE]
    <3>1. (res'[k].state = "committed") = TRUE /\ OwnUnits(res'[k]) = OwnUnits(res[k])
      BY <1>1, <2>1 DEF OwnUnits, Consumes, Row
    <3>2. \A j \in Keys \ {k} : res'[j] = res[j]
      BY <1>1, <2>1
    <3> QED
      BY <3>1, <3>2 DEF ClaimsOf
  <2>3. ClaimsOf(res)[k].units > 0
    BY <2>1 DEF ClaimsOf, OwnUnits, HeldUnits
  <2> QED
    BY <2>1, <2>2, <2>3 DEF Promise!AllocationNext, Promise!Settle
<1>5. CASE ExpireSweep
  <2>1. res' = Swept(res, DueKeys) /\ qty' = qty
    BY <1>5 DEF ExpireSweep
  <2>2. DueKeys \in SUBSET Keys /\ \A k \in DueKeys : ~ ClaimsOf(res)[k].firm
    BY DEF DueKeys, ClaimsOf
  <2>3. ClaimsOf(res') = [k \in Keys |-> IF k \in DueKeys THEN Promise!NoClaim ELSE ClaimsOf(res)[k]]
    BY <1>1, <2>1 DEF ClaimsOf, OwnUnits, Consumes, Row, Swept, Promise!NoClaim
  <2> QED
    BY <2>1, <2>2, <2>3 DEF Promise!AllocationNext, Promise!LapseAll
<1>6. ASSUME NEW v \in Variants, NEW n \in SaveQuantities, Save(v, n)
      PROVE  Promise!AllocationNext
  <2>1. n \in 0..MaxUnits /\ qty' = [qty EXCEPT ![v] = n] /\ res' = res
    BY <1>6, SaveAssumption DEF Save
  <2> QED
    BY <2>1 DEF Promise!AllocationNext, Promise!Restate, ClaimsOf
<1>7. ASSUME NEW k \in Keys, Lapse(k) \/ QueueRecompute(k) \/ AbortQueued(k)
      PROVE  UNCHANGED <<qty, ClaimsOf(res)>>
  BY <1>1, <1>7 DEF Lapse, QueueRecompute, AbortQueued, ClaimsOf, OwnUnits, Consumes, Row
<1>8. CASE UNCHANGED stockVars
  BY <1>8 DEF stockVars, ClaimsOf
<1> QED
  BY <1>2, <1>3, <1>4, <1>5, <1>6, <1>7, <1>8 DEF StockNext

(***************************************************************************)
(* The stock ledger (reserve_inventory, release_inventory,                 *)
(* commit_inventory and the expiry sweep over their stale counter)         *)
(* implements Allocation for every set of sources and variants.            *)
(***************************************************************************)
THEOREM StockKeepsPromise == StockSpec => KeepsPromise
<1>1. StockInit => Promise!AllocationInit
  <2> SUFFICES ASSUME StockInit
               PROVE  \A k \in Keys : OwnUnits(res[k]) = 0 /\ (res[k].state = "committed") = FALSE
    BY DEF StockInit, Promise!AllocationInit, Promise!NoClaim, ClaimsOf
  <2> QED
    BY DEF StockInit, OwnUnits, Consumes, NoRow
<1> QED
  BY <1>1, PromiseStep, StockTypeCorrect, HeldUnitsAlways, PTL
  DEF StockSpec, KeepsPromise, Promise!AllocationSpec

-----------------------------------------------------------------------------
(* Counting units that are spread over carts or auctions.                  *)

\* The units of f[c] for every c, one by one.
Spread(S, f) == {u \in S \X (1..MaxUnits) : u[2] <= f[u[1]]}

LEMMA SpreadFinite ==
    ASSUME NEW S, IsFiniteSet(S), NEW f
    PROVE  IsFiniteSet(Spread(S, f)) /\ Cardinality(Spread(S, f)) \in Nat
<1>1. IsFiniteSet(1..MaxUnits)
  BY FS_Interval, MaxUnitsAssumption
<1>2. IsFiniteSet(S \X (1..MaxUnits))
  BY <1>1, FS_Product
<1>3. Spread(S, f) \in SUBSET (S \X (1..MaxUnits))
  BY DEF Spread
<1>4. IsFiniteSet(Spread(S, f))
  BY <1>2, <1>3, FS_Subset
<1> QED
  BY <1>4, FS_CardinalityType

(***************************************************************************)
(* The units are those of one holder and those of the others.              *)
(***************************************************************************)
LEMMA SpreadSplits ==
    ASSUME NEW S, IsFiniteSet(S), NEW f, NEW c \in S, f[c] \in 0..MaxUnits
    PROVE  Cardinality(Spread(S, f)) = Cardinality(Spread(S \ {c}, f)) + f[c]
<1> DEFINE own == {c} \X (1..f[c])
           others == Spread(S \ {c}, f)
<1>1. IsFiniteSet(1..f[c]) /\ Cardinality(1..f[c]) = f[c]
  <2>1. 1 \in Int /\ f[c] \in Nat
    BY MaxUnitsAssumption
  <2> QED
    BY <2>1, FS_Interval
<1>2. IsFiniteSet({c}) /\ Cardinality({c}) = 1
  BY FS_Singleton
<1>3. IsFiniteSet(own) /\ Cardinality(own) = Cardinality({c}) * Cardinality(1..f[c])
  BY <1>1, <1>2, FS_Product
<1>4. Cardinality(own) = f[c]
  BY <1>1, <1>2, <1>3, MaxUnitsAssumption
<1>5. Spread(S, f) = others \cup own
  <2>1. ASSUME NEW u \in Spread(S, f) PROVE u \in others \cup own
    BY MaxUnitsAssumption DEF Spread
  <2>2. ASSUME NEW u \in others PROVE u \in Spread(S, f)
    BY DEF Spread
  <2>3. ASSUME NEW u \in own PROVE u \in Spread(S, f)
    BY MaxUnitsAssumption DEF Spread
  <2> QED
    BY <2>1, <2>2, <2>3
<1>6. others \cap own = {}
  BY DEF Spread
<1>7. IsFiniteSet(S \ {c})
  BY FS_RemoveElement
<1>8. IsFiniteSet(others) /\ Cardinality(others) \in Nat
  BY <1>7, SpreadFinite
<1>9. Cardinality(others \cup own)
      = Cardinality(others) + Cardinality(own) - Cardinality(others \cap own)
  BY <1>3, <1>8, FS_Union
<1>10. Cardinality(others \cap own) = 0
  BY <1>6, FS_EmptySet
<1> QED
  BY <1>4, <1>5, <1>8, <1>9, <1>10, MaxUnitsAssumption

(***************************************************************************)
(* When one holder's quantity changes, the number of units changes by the  *)
(* difference.                                                             *)
(***************************************************************************)
LEMMA SpreadMoves ==
    ASSUME NEW S, IsFiniteSet(S), NEW f, NEW g, NEW c \in S,
           f[c] \in 0..MaxUnits, g[c] \in 0..MaxUnits,
           \A d \in S \ {c} : g[d] = f[d]
    PROVE  Cardinality(Spread(S, g)) = Cardinality(Spread(S, f)) + g[c] - f[c]
<1>1. Spread(S \ {c}, g) = Spread(S \ {c}, f)
  BY DEF Spread
<1>2. IsFiniteSet(S \ {c})
  BY FS_RemoveElement
<1>3. Cardinality(Spread(S \ {c}, f)) \in Nat
  BY <1>2, SpreadFinite
<1>4. /\ Cardinality(Spread(S, f)) = Cardinality(Spread(S \ {c}, f)) + f[c]
      /\ Cardinality(Spread(S, g)) = Cardinality(Spread(S \ {c}, g)) + g[c]
  BY SpreadSplits
<1> QED
  BY <1>1, <1>3, <1>4, MaxUnitsAssumption

(***************************************************************************)
(* With every quantity zero there are no units.                            *)
(***************************************************************************)
LEMMA SpreadNone ==
    ASSUME NEW S, NEW f, \A c \in S : f[c] = 0
    PROVE  Cardinality(Spread(S, f)) = 0
<1>1. Spread(S, f) = {}
  BY DEF Spread
<1> QED
  BY <1>1, FS_EmptySet
=============================================================================
