------------------------------- MODULE Stock -------------------------------
(***************************************************************************)
(* The physical stock ledger: storefront_product.qty / reserved_qty and    *)
(* the inventory_reservation rows of db/schema.sql, driven by              *)
(* PgAuctionInventory (apps/api/src/db/pg-auction-inventory.ts).           *)
(*                                                                         *)
(* Every operation is one Postgres transaction at READ COMMITTED (the code *)
(* never asks for another level).  reserve_inventory locks the variant row *)
(* first, so it is atomic here.  release_inventory, commit_inventory and   *)
(* the expiry sweep update reservation rows first and reach the variant    *)
(* row only in the recompute trigger: the trigger's UPDATE takes its       *)
(* snapshot, may queue behind a transaction that holds the variant row,    *)
(* and then writes the sum its own old snapshot saw.  QueueRecompute is    *)
(* that moment; an operation that never queues skips it.                   *)
(***************************************************************************)
EXTENDS Integers, FiniteSets

CONSTANTS
    Variants,        \* storefront_product ids
    Keys,            \* reservation keys: one (source_kind, source_id, variant_id) each
    VariantOf,       \* the variant_id of a key
    MaxUnits,        \* bound on a stock quantity and on one reservation
    SaveQuantities,  \* quantities the seller's inventory form may submit
    Contended        \* keys whose transactions may have to queue for the variant row

ASSUME MaxUnitsAssumption == MaxUnits \in Nat \ {0}
ASSUME KeysAssumption == IsFiniteSet(Keys) /\ VariantOf \in [Keys -> Variants]
ASSUME SaveAssumption == SaveQuantities \subseteq 0..MaxUnits
ASSUME ContendedAssumption == Contended \subseteq Keys

VARIABLES
    qty,             \* storefront_product.qty
    reserved_qty,    \* storefront_product.reserved_qty, the derived counter
    res,             \* inventory_reservation rows; "none" is an absent row
    queued           \* what the queued recompute of a key's transaction saw

stockVars == <<qty, reserved_qty, res, queued>>

NotQueued == -1

\* inventory_reservation: expires_at is NULL, in the future, or has passed.
Row == [quantity : 0..MaxUnits,
        state    : {"none", "held", "committed", "expired", "released"},
        expiry   : {"never", "later", "due"}]

NoRow == [quantity |-> 0, state |-> "none", expiry |-> "never"]

KeysOf(v) == {k \in Keys : VariantOf[k] = v}

(***************************************************************************)
(* recompute_variant_reserved_qty: SUM(quantity) over the held and the     *)
(* committed rows of a variant, as the size of the set of units they hold. *)
(***************************************************************************)
Consumes(row) == row.state \in {"held", "committed"}

UnitsOf(rows, ks) ==
    {u \in ks \X (1..MaxUnits) : Consumes(rows[u[1]]) /\ u[2] <= rows[u[1]].quantity}

SumReserved(rows, v) == Cardinality(UnitsOf(rows, KeysOf(v)))

\* storefront_product."availableQty", generated from a reserved_qty value.
AvailableQty(reserved, v) == IF qty[v] > reserved THEN qty[v] - reserved ELSE 0

(***************************************************************************)
(* The counter the AFTER trigger writes when key k's row becomes part of   *)
(* rows: the queued snapshot of the other rows, or a fresh one, plus k's   *)
(* own (visible) row.                                                      *)
(***************************************************************************)
SumOfOthers(k) == Cardinality(UnitsOf(res, KeysOf(VariantOf[k]) \ {k}))

OwnUnits(row) == IF Consumes(row) THEN row.quantity ELSE 0

\* Faulty variant of TriggeredSum: a counter kept by adding and subtracting.
BumpedSum(k, row) ==
    reserved_qty[VariantOf[k]] + (IF Consumes(row) THEN row.quantity ELSE 0 - row.quantity)

TriggeredSum(k, row) ==
    (IF queued[k] = NotQueued THEN SumOfOthers(k) ELSE queued[k]) + OwnUnits(row)

-----------------------------------------------------------------------------
StockInit ==
    /\ qty \in [Variants -> 0..MaxUnits]
    /\ reserved_qty = [v \in Variants |-> 0]
    /\ res = [k \in Keys |-> NoRow]
    /\ queued = [k \in Keys |-> NotQueued]

(***************************************************************************)
(* The transaction that wrote key k's row queues for the variant row with  *)
(* its snapshot taken; other transactions on k now wait for its row lock.  *)
(***************************************************************************)
QueueRecompute(k) ==
    /\ k \in Contended
    /\ queued[k] = NotQueued
    /\ res[k].state \in {"held", "committed", "released"}
    /\ queued' = [queued EXCEPT ![k] = SumOfOthers(k)]
    /\ UNCHANGED <<qty, reserved_qty, res>>

\* The queued transaction is a deadlock victim, or its connection is lost.
AbortQueued(k) ==
    /\ queued[k] # NotQueued
    /\ queued' = [queued EXCEPT ![k] = NotQueued]
    /\ UNCHANGED <<qty, reserved_qty, res>>

\* reserve_inventory's v_incremental: the demand beyond what k already holds.
Incremental(rows, k, q) ==
    CASE rows[k].state = "committed" -> 0
      [] rows[k].state = "held" -> IF q > rows[k].quantity THEN q - rows[k].quantity ELSE 0
      [] OTHER -> q

\* Faulty variant of ReserveAdmits: the stored counter is trusted.
CounterTrusted(rows, k, q) ==
    Incremental(rows, k, q) <= AvailableQty(reserved_qty[VariantOf[k]], VariantOf[k])

\* reserve_inventory recomputes the counter before it reads availableQty.
ReserveAdmits(rows, k, q) ==
    Incremental(rows, k, q) <= AvailableQty(SumReserved(rows, VariantOf[k]), VariantOf[k])

\* reserve_inventory: a committed row is left as it is; any other becomes held.
Reserve(k, q, expiry) ==
    LET row == IF res[k].state = "committed" THEN res[k]
               ELSE [quantity |-> q, state |-> "held", expiry |-> expiry]
    IN  /\ queued[k] = NotQueued
        /\ ReserveAdmits(res, k, q)
        /\ res' = [res EXCEPT ![k] = row]
        /\ reserved_qty' = [reserved_qty EXCEPT ![VariantOf[k]] = TriggeredSum(k, row)]
        /\ UNCHANGED <<qty, queued>>

\* One-row UPDATE of a reservation and the recompute trigger it fires.
WriteRow(k, row) ==
    /\ res' = [res EXCEPT ![k] = row]
    /\ reserved_qty' = [reserved_qty EXCEPT ![VariantOf[k]] = TriggeredSum(k, row)]
    /\ queued' = [queued EXCEPT ![k] = NotQueued]

\* release_inventory answers FALSE, changing nothing, on any other state.
Releasable(k) == res[k].state \in {"held", "committed", "released"}

Release(k) ==
    /\ Releasable(k)
    /\ WriteRow(k, [res[k] EXCEPT !.state = "released", !.expiry = "never"])
    /\ UNCHANGED qty

\* commit_inventory looks at the state only, never at expires_at.
Committable(k) == res[k].state \in {"held", "committed"}

Commit(k) ==
    /\ Committable(k)
    /\ WriteRow(k, [res[k] EXCEPT !.state = "committed", !.expiry = "never"])
    /\ UNCHANGED qty

\* Rows that expire_inventory_reservations() takes.
DueKeys == {k \in Keys : res[k].state = "held" /\ res[k].expiry = "due"}

Swept(rows, due) ==
    [k \in Keys |-> IF k \in due
                    THEN [rows[k] EXCEPT !.state = "expired", !.expiry = "never"]
                    ELSE rows[k]]

(***************************************************************************)
(* expire_inventory_reservations(): one statement over every due row.  The *)
(* triggers run row by row; once the first one of a variant holds the      *)
(* variant row, the next ones of that variant recompute from a fresh       *)
(* snapshot.                                                               *)
(***************************************************************************)
SweepSum(v) ==
    LET due == DueKeys \cap KeysOf(v)
    IN  IF Cardinality(due) = 1
        THEN LET k == CHOOSE d \in due : TRUE IN TriggeredSum(k, Swept(res, due)[k])
        ELSE SumReserved(Swept(res, DueKeys), v)

SweptCounter(v) ==
    IF DueKeys \cap KeysOf(v) = {} THEN reserved_qty[v] ELSE SweepSum(v)

SweptQueue == [k \in Keys |-> IF k \in DueKeys THEN NotQueued ELSE queued[k]]

ExpireSweep ==
    /\ DueKeys # {}
    /\ res' = Swept(res, DueKeys)
    /\ reserved_qty' = [v \in Variants |-> SweptCounter(v)]
    /\ queued' = SweptQueue
    /\ UNCHANGED qty

\* The clock passes a hold's expires_at.
Lapse(k) ==
    /\ res[k].expiry = "later"
    /\ res' = [res EXCEPT ![k].expiry = "due"]
    /\ UNCHANGED <<qty, reserved_qty, queued>>

\* saveScoped, and onboardOwned of a listing that exists: never below the counter.
Save(v, n) ==
    /\ reserved_qty[v] <= n
    /\ qty' = [qty EXCEPT ![v] = n]
    /\ UNCHANGED <<reserved_qty, res, queued>>

StockNext ==
    \/ \E k \in Keys, q \in 1..MaxUnits, e \in {"never", "later", "due"} : Reserve(k, q, e)
    \/ \E k \in Keys : \/ Release(k)
                       \/ Commit(k)
                       \/ Lapse(k)
                       \/ QueueRecompute(k)
                       \/ AbortQueued(k)
    \/ ExpireSweep
    \/ \E v \in Variants, n \in SaveQuantities : Save(v, n)

StockSpec == StockInit /\ [][StockNext]_stockVars
-----------------------------------------------------------------------------
(***************************************************************************)
(* Type invariant of the ledger.                                           *)
(***************************************************************************)
StockTypeOK ==
    /\ qty \in [Variants -> 0..MaxUnits]
    /\ reserved_qty \in [Variants -> Nat]
    /\ res \in [Keys -> Row]
    /\ queued \in [Keys -> Nat \cup {NotQueued}]

(***************************************************************************)
(* The held and committed rows of a variant never add up to more than its  *)
(* stock.  With reserve_inventory as the only way in and no seller edit of *)
(* qty this holds although the counter itself may be stale.                *)
(***************************************************************************)
NoOversell == \A v \in Variants : SumReserved(res, v) <= qty[v]

(***************************************************************************)
(* No step of the ledger raises the units taken of a variant beyond its    *)
(* stock, whatever the seller saved and however stale reserved_qty is:     *)
(* reserve_inventory recomputes under the variant lock before it admits.   *)
(***************************************************************************)
RaisesWithinStock ==
    [][\A v \in Variants : SumReserved(res', v) > SumReserved(res, v)
                              => SumReserved(res', v) <= qty'[v]]_stockVars

(***************************************************************************)
(* An exact retry of a held reservation is always admitted, also when the  *)
(* variant is sold out or the seller lowered qty in between (the "reserve  *)
(* 76 of 76 twice" comment in reserve_inventory).                          *)
(***************************************************************************)
RetryAdmitted ==
    \A k \in Keys : res[k].state = "held" => ReserveAdmits(res, k, res[k].quantity)

(***************************************************************************)
(* Placing a new hold repairs the counter: after it, reserved_qty of that  *)
(* variant equals the sum of the rows, however stale it was before.        *)
(***************************************************************************)
HoldRepairsCounter ==
    [][\A k \in Keys :
         res[k].state # "held" /\ res'[k].state = "held"
         => reserved_qty'[VariantOf[k]] = SumReserved(res', VariantOf[k])]_stockVars

\* What the reservation rows mean to the sources.
ClaimsOf(rows) ==
    [k \in Keys |-> [units |-> OwnUnits(rows[k]), firm |-> rows[k].state = "committed"]]

Promise == INSTANCE Allocation WITH stock <- qty, claim <- ClaimsOf(res)

(***************************************************************************)
(* The ledger keeps the promise of Allocation: with its stale counter, its *)
(* queued recomputes, sweeps and retries, every step is a step of a plain  *)
(* allocation in which a claim grows only within the stock and a sold one  *)
(* never lapses.                                                           *)
(***************************************************************************)
KeepsPromise == Promise!AllocationSpec
=============================================================================
