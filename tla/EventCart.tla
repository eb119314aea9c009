----------------------------- MODULE EventCart -----------------------------
(***************************************************************************)
(* Event-priced carts: PgCartStore's event transactions and the            *)
(* CartService calls that lead to them.  A hold moves units from the       *)
(* lineup into the cart and reserves them physically for two minutes;      *)
(* quantity changes, expiry, cancellation and payment move them on.  All   *)
(* items belong to one event.  Each transaction locks the cart row, then   *)
(* the variant row, then the reservation and the lineup row, so it is      *)
(* atomic; unlike reserve_inventory it trusts the availableQty it finds.   *)
(*                                                                         *)
(* CartService's plain calls use the same cart ids and reservation keys    *)
(* without a transaction: they read the document, move reservations and    *)
(* write the document back.  Plain are the calls without event context,    *)
(* and a read in which an item lapses between findCart's two filters.  The *)
(* carts in Mixed get both kinds, with one plain call open at a time.      *)
(***************************************************************************)
EXTENDS Lineup

CONSTANTS
    Carts,         \* cart ids
    Requests,      \* idempotency keys of hold requests
    Mixed          \* carts that plain calls come to as well

CartKey(c, i) == <<c, i>>          \* the ('cart', c, product of i) reservation

ASSUME CartAssumption ==
    /\ \A c \in Carts, i \in Items : /\ CartKey(c, i) \in Keys
                                     /\ VariantOf[CartKey(c, i)] = ProductOf[i]
    /\ Mixed \subseteq Carts

VARIABLES
    carts,         \* cart payloads
    quoted,        \* the cart revision its pending order recorded
    call           \* the open plain call of each mixed cart

cartVars == <<carts, quoted, call>>
vars == <<stockVars, lineup, cartVars>>

CartRow ==
    [exists   : BOOLEAN,
     plain    : BOOLEAN,                    \* the lines carry no event: never a mixture
     items    : [Items -> 0..MaxUnits],     \* quantity per item; 0 is no line
     lapsed   : [Items -> BOOLEAN],         \* the item's own expiresAt has passed
     used     : SUBSET Requests,            \* eventHoldKeys
     terminal : {"none", "released", "committed"}]

EmptyCart ==
    [exists |-> FALSE, plain |-> FALSE, items |-> [i \in Items |-> 0],
     lapsed |-> [i \in Items |-> FALSE], used |-> {}, terminal |-> "none"]

Lines(doc) == {i \in Items : doc.items[i] > 0}

\* The event items of a cart.
InCart(c) == IF carts[c].plain THEN {} ELSE Lines(carts[c])

Idle == [pc |-> "idle"]

\* "add" is the second half of a hold; want is the quantity to reserve; "drain": the
\* call has thrown, and what it had started beside the failure goes on.
OpenCall ==
    [pc   : {"find", "purge", "create", "reserve", "free", "settle", "write", "undo", "drain"},
     op   : {"hold", "add", "set", "remove", "read", "commit", "release"},
     item : Items, n : 1..MaxUnits, want : 1..MaxUnits, copy : CartRow, todo : SUBSET Items]

CallState == {Idle} \cup OpenCall

Init ==
    /\ StockInit
    /\ LineupInit
    /\ carts = [c \in Carts |-> EmptyCart]
    /\ quoted = [c \in Carts |-> "none"]
    /\ call = [c \in Mixed |-> Idle]

-----------------------------------------------------------------------------
\* Every write bumps the revision: a recorded revision no longer matches.
Outdated(c) ==
    quoted' = [quoted EXCEPT ![c] = IF @ = "current" THEN "stale" ELSE @]

\* Writes a reservation row under the variant lock: the trigger's sum is fresh.
WriteLocked(c, i, row) ==
    /\ queued[CartKey(c, i)] = NotQueued
    /\ WriteRow(CartKey(c, i), row)
    /\ UNCHANGED qty

\* What holdEventItem requires of the cart's existing reservation of the item.
HoldableRow(row, inCart) ==
    /\ row.state # "committed"
    /\ row.state = "held" => row.quantity = inCart

\* Faulty variant of Available: the stock, whoever holds it.
OnHand(i) == qty[ProductOf[i]]

\* availableQty as stored, that is from the counter and not from the rows.
Available(i) == AvailableQty(reserved_qty[ProductOf[i]], ProductOf[i])

\* holdEventItem with a request key it has not seen, on a cart without plain lines.
Hold(c, i, q, r) ==
    LET row  == res[CartKey(c, i)]
        next == carts[c].items[i] + q
    IN  /\ r \notin carts[c].used
        /\ Lines(carts[c]) = InCart(c)
        /\ next <= MaxUnits
        /\ HoldableRow(row, carts[c].items[i])
        /\ next - (IF row.state = "held" THEN row.quantity ELSE 0) <= Available(i)
        /\ TakeAllocation(i, q)
        /\ WriteLocked(c, i, [quantity |-> next, state |-> "held", expiry |-> "later"])
        /\ carts' = [carts EXCEPT ![c] =
               [carts[c] EXCEPT !.exists = TRUE, !.plain = FALSE, !.items[i] = next,
                                !.lapsed[i] = FALSE, !.used = @ \cup {r}, !.terminal = "none"]]
        /\ Outdated(c)
        /\ UNCHANGED call

\* setEventItemQuantity's conditions on the reservation and on the allocation.
AdjustableRow(row, inCart, n) ==
    /\ row.quantity = inCart
    /\ row.state \in {"held", "expired"}
    /\ row.state = "expired" => n = 0

\* Faulty variant of RoomForDelta: the event allocation is not checked.
PhysicalRoom(i, delta) ==
    IF delta > 0 THEN delta <= Available(i)
                 ELSE lineup[i].current - delta <= lineup[i].listed

RoomForDelta(i, delta) ==
    IF delta > 0 THEN delta <= Available(i) /\ delta <= lineup[i].current
                 ELSE lineup[i].current - delta <= lineup[i].listed

AdjustedRow(row, n) ==
    IF n = 0 THEN [row EXCEPT !.state = "released", !.expiry = "never"]
             ELSE [row EXCEPT !.quantity = n, !.state = "held"]

\* setEventItemQuantity; n = 0 removes the item.  A stale revision is refused, so
\* the service's read of the cart and this transaction are one step.
SetQuantity(c, i, n) ==
    LET row   == res[CartKey(c, i)]
        delta == n - carts[c].items[i]
    IN  /\ i \in InCart(c)
        /\ delta # 0
        /\ AdjustableRow(row, carts[c].items[i], n)
        /\ RoomForDelta(i, delta)
        /\ lineup' = [lineup EXCEPT ![i].current = @ - delta]
        /\ WriteLocked(c, i, AdjustedRow(row, n))
        /\ carts' = [carts EXCEPT ![c].items[i] = n,
                                  ![c].lapsed[i] = IF n = 0 THEN FALSE ELSE @]
        /\ Outdated(c)
        /\ UNCHANGED call

\* Faulty variant of PurgeLapsed: a hold the sweep took first is not returned.
PurgeUnswept(c, i) ==
    carts[c].lapsed[i] /\ res[CartKey(c, i)].state = "held" /\ SetQuantity(c, i, 0)

\* findCart: any read of the cart returns an item whose expiresAt has passed.
PurgeLapsed(c, i) == carts[c].lapsed[i] /\ SetQuantity(c, i, 0)

\* createSession records the revision of a cart that has items, none of them lapsed.
Quote(c) ==
    /\ InCart(c) # {}
    /\ \A i \in InCart(c) : ~ carts[c].lapsed[i]
    /\ quoted' = [quoted EXCEPT ![c] = "current"]
    /\ UNCHANGED <<stockVars, lineup, carts, call>>

\* transitionEventCart: the per-item conditions of a release and of a commit.
ReleasableItem(c, i) ==
    LET row == res[CartKey(c, i)]
    IN  /\ row.state \in {"held", "expired"}
        /\ row.quantity = carts[c].items[i]
        /\ lineup[i].current + carts[c].items[i] <= lineup[i].listed

\* Faulty variant of PayableItem: the expiry is not looked at.
PayableWhenHeld(c, i) ==
    LET row == res[CartKey(c, i)]
    IN  row.state = "held" /\ row.quantity = carts[c].items[i]

PayableItem(c, i) ==
    LET row == res[CartKey(c, i)]
    IN  /\ row.state = "held"
        /\ row.quantity = carts[c].items[i]
        /\ row.expiry # "due"

\* Faulty variant of MovedKeys: the loop stops after its first item.
FirstKey(c) == {CartKey(c, CHOOSE i \in InCart(c) : TRUE)}

\* The reservations that transitionEventCart's loop visits.
MovedKeys(c) == {CartKey(c, i) : i \in InCart(c)}

\* Every item of the cart moves in one transaction, or none does.
MoveAll(c, state) ==
    LET moved == MovedKeys(c)
    IN  /\ InCart(c) # {}
        /\ quoted[c] = "current"
        /\ \A k \in moved : queued[k] = NotQueued
        /\ res' = [k \in Keys |-> IF k \in moved
                                  THEN [res[k] EXCEPT !.state = state, !.expiry = "never"]
                                  ELSE res[k]]
        /\ reserved_qty' = [v \in Variants |-> IF \E k \in moved : VariantOf[k] = v
                                               THEN SumReserved(res', v)
                                               ELSE reserved_qty[v]]
        /\ carts' = [carts EXCEPT ![c] = [EmptyCart EXCEPT !.exists = TRUE,
                                                           !.used = carts[c].used,
                                                           !.terminal = state]]
        /\ Outdated(c)
        /\ UNCHANGED <<qty, queued, call>>

\* Faulty variant of ReleaseCart: the event allocation is not restored.
ReleaseStockOnly(c) ==
    /\ \A i \in InCart(c) : ReleasableItem(c, i)
    /\ MoveAll(c, "released")
    /\ UNCHANGED lineup

\* releaseEventCart: payment failed or the order was cancelled.
ReleaseCart(c) ==
    /\ \A i \in InCart(c) : ReleasableItem(c, i)
    /\ MoveAll(c, "released")
    /\ lineup' = [i \in Items |-> [lineup[i] EXCEPT !.current = @ + carts[c].items[i]]]

\* commitEventCart: payment succeeded.
CommitCart(c) ==
    /\ \A i \in InCart(c) : PayableItem(c, i)
    /\ MoveAll(c, "committed")
    /\ UNCHANGED lineup

-----------------------------------------------------------------------------
\* The plain calls, on a cart of Mixed.
Goto(c, next) ==
    call' = [call EXCEPT ![c] = IF next.pc = "drain" /\ next.todo = {} THEN Idle ELSE next]

Ledgerless == UNCHANGED <<stockVars, lineup>>

\* persist: an unconditional upsert of the whole document.
Store(c, doc) == carts' = [carts EXCEPT ![c] = doc] /\ Outdated(c)

Without(doc, gone) ==
    [doc EXCEPT !.items  = [i \in Items |-> IF i \in gone THEN 0 ELSE @[i]],
                !.lapsed = [i \in Items |-> IF i \in gone THEN FALSE ELSE @[i]]]

WithLine(doc, i, n) ==
    [doc EXCEPT !.plain = TRUE, !.items[i] = n, !.lapsed[i] = FALSE]

Expired(doc) == {i \in Lines(doc) : doc.lapsed[i]}

HasEventItems(doc) == ~ doc.plain /\ Lines(doc) # {}

Begin(c, op, i, n) ==
    /\ call[c] = Idle
    /\ Goto(c, [pc |-> "find", op |-> op, item |-> i, n |-> n, want |-> n,
                copy |-> EmptyCart, todo |-> {}])
    /\ Ledgerless
    /\ UNCHANGED <<carts, quoted>>

\* What the call does with the document it found; event lines take the transactions above.
Found(at, doc) ==
    LET has  == doc.items[at.item]
        next == [at EXCEPT !.todo = {}]
    IN  CASE at.op = "hold" /\ has + at.n <= MaxUnits ->
               [next EXCEPT !.pc = "reserve", !.want = has + at.n, !.copy = EmptyCart]
          [] at.op = "add" /\ ~ HasEventItems(doc) /\ has + at.n <= MaxUnits ->
               [next EXCEPT !.pc = "write", !.copy = WithLine(doc, at.item, has + at.n)]
          [] at.op = "add" /\ (HasEventItems(doc) \/ has + at.n > MaxUnits) ->
               [next EXCEPT !.pc = "undo", !.copy = EmptyCart]
          [] at.op = "set" /\ doc.plain /\ has > 0 ->
               [next EXCEPT !.pc = "reserve", !.want = at.n, !.copy = doc]
          [] at.op = "remove" /\ doc.plain /\ has > 0 ->
               [next EXCEPT !.pc = "free", !.copy = doc]
          [] at.op = "remove" /\ has = 0 -> [next EXCEPT !.pc = "write", !.copy = doc]
          [] OTHER -> Idle

\* findCart.  Lapsed event items leave by PurgeLapsed first; the second filter takes
\* every line that has lapsed by then, event items included.
Find(c, late) ==
    LET doc == carts[c]
    IN  /\ call[c].pc = "find" /\ call[c].op \notin {"commit", "release"}
        /\ doc.exists
        /\ HasEventItems(doc) => Expired(doc) = {}
        /\ Expired(doc) \subseteq late
        /\ Goto(c, IF late = {} THEN Found(call[c], doc)
                   ELSE [call[c] EXCEPT !.pc = "purge", !.todo = late,
                            !.copy = [doc EXCEPT !.lapsed = [i \in Items |-> i \in late]]])
        /\ Ledgerless
        /\ UNCHANGED <<carts, quoted>>

\* getCart creates what a hold does not find; the other calls throw or answer null.
FindNothing(c) ==
    /\ call[c].pc = "find"
    /\ ~ carts[c].exists
    /\ Goto(c, IF call[c].op \in {"hold", "add"} THEN [call[c] EXCEPT !.pc = "create"] ELSE Idle)
    /\ Ledgerless
    /\ UNCHANGED <<carts, quoted>>

CreateCart(c) ==
    /\ call[c].pc = "create"
    /\ LET doc == [EmptyCart EXCEPT !.exists = TRUE]
       IN  Store(c, doc) /\ Goto(c, Found(call[c], doc))
    /\ Ledgerless

\* commit and release of a document without event items.
FindSettle(c) ==
    /\ call[c].pc = "find" /\ call[c].op \in {"commit", "release"}
    /\ carts[c].exists
    /\ Goto(c, IF carts[c].plain /\ Lines(carts[c]) # {}
               THEN [call[c] EXCEPT !.pc = "settle", !.copy = carts[c], !.todo = Lines(carts[c])]
               ELSE Idle)
    /\ Ledgerless
    /\ UNCHANGED <<carts, quoted>>

\* release_inventory of a line, whatever the row stands for; FALSE is ignored.
FreeLine(c, i) ==
    /\ IF Releasable(CartKey(c, i)) THEN Release(CartKey(c, i)) ELSE UNCHANGED stockVars
    /\ UNCHANGED <<lineup, carts, quoted>>

PurgeLine(c, i) ==
    /\ call[c].pc \in {"purge", "undo", "drain"} /\ call[c].op \notin {"commit", "release"}
    /\ i \in call[c].todo
    /\ FreeLine(c, i)
    /\ Goto(c, [call[c] EXCEPT !.todo = @ \ {i}])

\* The document is written without the lines that are expired by now.
PurgeWrite(c, gone) ==
    /\ call[c].pc = "purge" /\ call[c].todo = {}
    /\ Expired(call[c].copy) \subseteq gone
    /\ LET doc == Without(call[c].copy, gone)
       IN  Store(c, doc) /\ Goto(c, Found(call[c], doc))
    /\ Ledgerless

\* inventory.reserve: Background's sweep, then reserve_inventory for the whole line.
ReserveLine(c, expiry) ==
    LET k == CartKey(c, call[c].item)
    IN  /\ call[c].pc = "reserve"
        /\ call[c].op = "hold" => expiry = "later"
        /\ \/ /\ Reserve(k, call[c].want, expiry)
              /\ Goto(c, IF call[c].op = "hold" THEN [call[c] EXCEPT !.pc = "find", !.op = "add"]
                         ELSE [call[c] EXCEPT !.pc = "write", !.copy.items[call[c].item] = call[c].n])
           \/ /\ ~ ReserveAdmits(res, k, call[c].want)
              /\ Goto(c, Idle)
              /\ UNCHANGED stockVars
        /\ UNCHANGED <<lineup, carts, quoted>>

RemoveLine(c) ==
    /\ call[c].pc = "free"
    /\ FreeLine(c, call[c].item)
    /\ Goto(c, [call[c] EXCEPT !.pc = "write", !.copy = Without(@, {call[c].item})])

\* A line that commit_inventory refuses makes the call throw; the others go on.
SettleLine(c, i) ==
    /\ call[c].pc \in {"settle", "drain"} /\ call[c].op \in {"commit", "release"}
    /\ i \in call[c].todo
    /\ \/ /\ call[c].op = "release"
          /\ FreeLine(c, i)
          /\ Goto(c, [call[c] EXCEPT !.todo = @ \ {i}])
       \/ /\ call[c].op = "commit"
          /\ Commit(CartKey(c, i))
          /\ Goto(c, [call[c] EXCEPT !.todo = @ \ {i}])
          /\ UNCHANGED <<lineup, carts, quoted>>
       \/ /\ call[c].op = "commit" /\ ~ Committable(CartKey(c, i))
          /\ Goto(c, [call[c] EXCEPT !.pc = "drain", !.todo = @ \ {i}])
          /\ Ledgerless /\ UNCHANGED <<carts, quoted>>

WriteCart(c) ==
    /\ \/ call[c].pc = "write" /\ Store(c, call[c].copy)
       \/ /\ call[c].pc = "settle" /\ call[c].todo = {}
          /\ Store(c, Without(call[c].copy, Items))
    /\ Goto(c, Idle)
    /\ Ledgerless

\* A call throws at an await, or its process dies; holdItem then undoes its reservation.
CallFails(c) ==
    /\ call[c] # Idle
    /\ \/ /\ call[c].op = "add" /\ call[c].pc \notin {"undo", "drain"}
          /\ Goto(c, [call[c] EXCEPT !.pc = "undo", !.copy = EmptyCart])
       \/ /\ call[c].pc \in {"purge", "settle"}
          /\ Goto(c, [call[c] EXCEPT !.pc = "drain"])
       \/ Goto(c, Idle)
    /\ Ledgerless
    /\ UNCHANGED <<carts, quoted>>

\* The compensation of a refused or failed hold (line 470).
UndoHold(c) ==
    /\ call[c].pc = "undo"
    /\ FreeLine(c, call[c].item)
    /\ Goto(c, [call[c] EXCEPT !.pc = "drain"])

\* The deadlines of a mixed cart's line and of its reservation are not the same.
LapseApart(c, i) ==
    \/ Lapse(CartKey(c, i)) /\ UNCHANGED <<lineup, cartVars>>
    \/ /\ i \in Lines(carts[c])
       /\ carts' = [carts EXCEPT ![c].lapsed[i] = TRUE]
       /\ Ledgerless /\ UNCHANGED <<quoted, call>>

PlainCall(c) ==
    \/ \E op \in {"hold", "set"}, i \in Items, n \in 1..MaxUnits : Begin(c, op, i, n)
    \/ \E op \in {"remove", "read", "commit", "release"}, i \in Items : Begin(c, op, i, 1)
    \/ \E some \in SUBSET Items : Find(c, some \cap Lines(carts[c])) \/ PurgeWrite(c, some)
    \/ \E expiry \in {"later", "due"} : ReserveLine(c, expiry)
    \/ \E i \in Items : PurgeLine(c, i) \/ SettleLine(c, i) \/ LapseApart(c, i)
    \/ FindNothing(c) \/ CreateCart(c) \/ FindSettle(c) \/ RemoveLine(c) \/ WriteCart(c)
    \/ CallFails(c) \/ UndoHold(c)

-----------------------------------------------------------------------------
\* Faulty variant of LapseItem: the item does not carry the reservation's expiry.
LapseReservation(c, i) ==
    c \notin Mixed /\ Lapse(CartKey(c, i)) /\ UNCHANGED <<lineup, cartVars>>

\* The clock passes the expiry that the hold gave to the item and to its reservation.
LapseItem(c, i) ==
    /\ c \notin Mixed
    /\ Lapse(CartKey(c, i))
    /\ carts' = [carts EXCEPT ![c].lapsed[i] = carts[c].items[i] > 0]
    /\ UNCHANGED <<lineup, quoted, call>>

\* Lazy sweep by any inventory read, and lock queues at the variant row: of the sweep,
\* and of the releases and commits of plain calls.
Background ==
    /\ \/ ExpireSweep
       \/ \E k \in DueKeys \cup {CartKey(c, i) : c \in Mixed, i \in Items} : QueueRecompute(k)
       \/ \E k \in Keys : AbortQueued(k)
    /\ UNCHANGED <<lineup, cartVars>>

Next ==
    \/ \E c \in Carts, i \in Items :
         \/ \E q \in 1..MaxUnits, r \in Requests : Hold(c, i, q, r)
         \/ \E n \in 0..MaxUnits : SetQuantity(c, i, n)
         \/ LapseItem(c, i)
    \/ \E c \in Carts : \/ Quote(c) \/ ReleaseCart(c) \/ CommitCart(c)
    \/ \E c \in Mixed : PlainCall(c)
    \/ Background
    \/ SellerEdits /\ UNCHANGED cartVars

Spec == Init /\ [][Next]_vars

\* The cart page is polled: every read returns lapsed items.
FairSpec == Spec /\ \A c \in Carts, i \in Items : WF_vars(PurgeLapsed(c, i))

-----------------------------------------------------------------------------
(***************************************************************************)
(* Type invariant of the carts, the lineup and the ledger under them.      *)
(***************************************************************************)
TypeOK ==
    /\ StockTypeOK
    /\ lineup \in [Items -> LineupRow]
    /\ carts \in [Carts -> CartRow]
    /\ quoted \in [Carts -> {"none", "current", "stale"}]
    /\ call \in [Mixed -> CallState]

\* Carts that only the event transactions change.
EventOnly == Carts \ Mixed

(***************************************************************************)
(* Every unit an event-only cart shows is backed by a reservation of the   *)
(* same size that is held or has been swept; a swept one is marked expired *)
(* in the cart too, so no such cart shows a live hold that the ledger gave *)
(* away, whatever plain calls do to the other carts on the same variants.  *)
(* A mixed cart has no such guarantee: a product hold of an item's product *)
(* is refused by addItem (cart.service.ts 395), and its compensation (470) *)
(* releases the reservation under the item.                                *)
(***************************************************************************)
ItemsBacked ==
    \A c \in EventOnly : \A i \in InCart(c) :
        /\ res[CartKey(c, i)].quantity = carts[c].items[i]
        /\ res[CartKey(c, i)].state \in {"held", "expired"}
        /\ res[CartKey(c, i)].state = "expired" => carts[c].lapsed[i]

\* Units of item i that carts hold and that were sold.
CartUnits(i) ==
    {u \in Carts \X (1..MaxUnits) : u[2] <= carts[u[1]].items[i]}

SoldUnits(i) ==
    {u \in Carts \X (1..MaxUnits) :
        LET row == res[CartKey(u[1], i)]
        IN  row.state = "committed" /\ u[2] <= row.quantity}

(***************************************************************************)
(* While the seller does not edit the lineup and no plain call comes to a  *)
(* cart, every listed unit is in the lineup, in one cart, or sold: the     *)
(* three stores of one transaction never drift apart.                      *)
(***************************************************************************)
UnitsConserved ==
    \A i \in Items :
        lineup[i].current + Cardinality(CartUnits(i)) + Cardinality(SoldUnits(i))
        = lineup[i].listed

(***************************************************************************)
(* A unit that an event-only cart sold stays sold, and only a hold that    *)
(* had not expired is sold, also while plain calls reserve, commit and     *)
(* release rows of the same variants.  In a mixed cart a product hold is   *)
(* admitted over the sold row (schema.sql 458), adds a line, and the purge *)
(* or removal of that line releases what was sold (schema.sql 509).        *)
(***************************************************************************)
SalesAreFinal ==
    [][\A k \in {CartKey(c, i) : c \in EventOnly, i \in Items} :
         /\ res[k].state = "committed" => res'[k] = res[k]
         /\ res'[k].state = "committed" /\ res[k].state # "committed"
              => res[k].state = "held" /\ res[k].expiry # "due"]_vars

(***************************************************************************)
(* Payment takes the whole cart: when an event-only cart turns committed,  *)
(* every item the buyer saw is sold in the quantity the buyer saw.         *)
(***************************************************************************)
CommitTakesWholeCart ==
    [][\A c \in EventOnly :
         carts[c].terminal # "committed" /\ carts'[c].terminal = "committed"
         => \A i \in InCart(c) :
               /\ res'[CartKey(c, i)].state = "committed"
               /\ res'[CartKey(c, i)].quantity = carts[c].items[i]]_vars

(***************************************************************************)
(* A lapsed item does not stay in its cart: it is returned, or held anew,  *)
(* while the seller leaves the lineup alone and no plain call comes to a   *)
(* cart (in a mixed cart the purge may find a released row and throw,      *)
(* pg-cart-store.ts 256).                                                  *)
(***************************************************************************)
LapsedItemsLeave ==
    \A c \in Carts, i \in Items : carts[c].lapsed[i] ~> ~ carts[c].lapsed[i]
=============================================================================
