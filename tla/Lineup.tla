------------------------------- MODULE Lineup -------------------------------
(***************************************************************************)
(* event_lineup_item: the seller's allocation of a variant to an event.    *)
(* Auctions, event carts and offers take units from current_quantity and   *)
(* give them back; the seller edits listed_quantity and may register the   *)
(* lineup again (GuardedActionService, PgActionItemStore).  Seller writes  *)
(* compare the row version they read, so each one is atomic here.          *)
(***************************************************************************)
EXTENDS Stock

CONSTANTS
    Items,             \* event_lineup_item ids
    ProductOf,         \* product_id of an item
    Registrations,     \* [listed, current] pairs the seller first registers
    Reregistrations,   \* pairs the seller may register again during the sale
    AdjustQuantities   \* quantities a stock-adjust action may carry

ASSUME ItemsAssumption ==
    /\ ProductOf \in [Items -> Variants]
    /\ AdjustQuantities \subseteq 0..MaxUnits

VARIABLE lineup        \* listed_quantity and current_quantity of each item

LineupRow == [listed : 0..MaxUnits, current : 0..MaxUnits]

\* normalizeItem: listedQuantity is positive and at most a positive currentQuantity.
Registrable(row) == row.listed > 0 /\ (row.current > 0 => row.listed <= row.current)

ASSUME RegistrationsAssumption ==
    \A row \in Registrations \cup Reregistrations : row \in LineupRow /\ Registrable(row)

LineupInit == lineup \in [Items -> Registrations]

\* Units leave the allocation when an auction starts or a cart holds them.
TakeAllocation(i, q) ==
    /\ q <= lineup[i].current
    /\ lineup' = [lineup EXCEPT ![i].current = @ - q]

\* PgAuctionStore.releaseEventAllocation: LEAST(listed, current + quantity).
Least(m, n) == IF m < n THEN m ELSE n

\* Faulty variant of RestoreAllocation: the allocation is reset instead of raised.
ResetAllocation(i, q) ==
    lineup' = [lineup EXCEPT ![i].current = lineup[i].listed]

RestoreAllocation(i, q) ==
    lineup' = [lineup EXCEPT ![i].current = Least(lineup[i].listed, @ + q)]

\* stock-adjust, and price-adjust with a quantity: listed moves, current does not.
StockAdjust(i, n) ==
    /\ n <= lineup[i].current
    /\ lineup' = [lineup EXCEPT ![i].listed = n]
    /\ UNCHANGED stockVars

\* registerEvent on an existing item overwrites both quantities.
Register(i, row) ==
    /\ lineup' = [lineup EXCEPT ![i] = row]
    /\ UNCHANGED stockVars

\* What the seller does to the lineup while sales are open.
SellerEdits ==
    \E i \in Items : \/ \E n \in AdjustQuantities : StockAdjust(i, n)
                     \/ \E row \in Reregistrations : Register(i, row)
=============================================================================
