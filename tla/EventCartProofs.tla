-------------------------- MODULE EventCartProofs --------------------------
(***************************************************************************)
(* Theorems about event-priced carts, for every set of carts and items,    *)
(* every allocation and every interleaving with sweeps, lock queues,       *)
(* seller edits and plain calls to other carts.                            *)
(***************************************************************************)
EXTENDS EventCart, StockProofs

\* An item in a cart has a reservation of its size, held or swept; once the
\* reservation's expiry has passed the item carries the mark.
Backing(c, i) ==
    carts[c].items[i] > 0 =>
        LET row == res[CartKey(c, i)]
        IN  /\ row.quantity = carts[c].items[i]
            /\ row.state \in {"held", "expired"}
            /\ row.state = "expired" \/ row.expiry = "due" => carts[c].lapsed[i]

\* Sold rows have no expiry, so no clock and no sweep reaches them.
SoldForGood ==
    \A c \in EventOnly, i \in Items :
        res[CartKey(c, i)].state = "committed" => res[CartKey(c, i)].expiry = "never"

Inv ==
    /\ TypeOK
    /\ \A c \in EventOnly, i \in Items : Backing(c, i)
    /\ SoldForGood

-----------------------------------------------------------------------------
(* What one transaction does to the carts and to the reservation rows.     *)

\* One item of one cart changes; every other item of every cart stays.
OneItem(c, i, n, mark) ==
    /\ carts'[c].items[i] = n
    /\ carts'[c].lapsed[i] = mark
    /\ \A d \in Carts, j \in Items : d # c \/ j # i =>
          /\ carts'[d].items[j] = carts[d].items[j]
          /\ carts'[d].lapsed[j] = carts[d].lapsed[j]

\* One reservation row changes.
OneRow(k, row) == res'[k] = row /\ \A j \in Keys \ {k} : res'[j] = res[j]

(***************************************************************************)
(* The reservations of two items or of two carts are different rows.       *)
(***************************************************************************)
LEMMA CartKeys ==
    ASSUME NEW c \in Carts, NEW i \in Items
    PROVE  /\ CartKey(c, i) \in Keys
           /\ VariantOf[CartKey(c, i)] = ProductOf[i]
           /\ ProductOf[i] \in Variants
           /\ \A d \in Carts, j \in Items : d # c \/ j # i => CartKey(d, j) # CartKey(c, i)
<1>1. CartKey(c, i) \in Keys /\ VariantOf[CartKey(c, i)] = ProductOf[i]
  BY CartAssumption
<1>2. ProductOf[i] \in Variants
  BY ItemsAssumption
<1>3. \A d \in Carts, j \in Items : d # c \/ j # i => CartKey(d, j) # CartKey(c, i)
  BY DEF CartKey
<1> QED
  BY <1>1, <1>2, <1>3

(***************************************************************************)
(* The empty cart is a cart.                                               *)
(***************************************************************************)
LEMMA EmptyCartForm ==
    /\ EmptyCart \in CartRow
    /\ EmptyCart.terminal = "none"
    /\ \A i \in Items : EmptyCart.items[i] = 0 /\ EmptyCart.lapsed[i] = FALSE
<1>1. EmptyCart \in CartRow
  BY MaxUnitsAssumption DEF EmptyCart, CartRow
<1> QED
  BY <1>1 DEF EmptyCart

(***************************************************************************)
(* A hold rewrites one item and its reservation.                           *)
(***************************************************************************)
LEMMA HoldForm ==
    ASSUME TypeOK, NEW c \in Carts, NEW i \in Items, NEW q \in 1..MaxUnits, NEW r \in Requests,
           Hold(c, i, q, r)
    PROVE  /\ carts' \in [Carts -> CartRow]
           /\ carts[c].items[i] + q \in 1..MaxUnits
           /\ OneItem(c, i, carts[c].items[i] + q, FALSE)
           /\ \A d \in Carts : carts'[d].terminal \in {carts[d].terminal, "none"}
           /\ OneRow(CartKey(c, i), [quantity |-> carts[c].items[i] + q, state |-> "held",
                                     expiry |-> "later"])
           /\ res[CartKey(c, i)].state # "committed"
<1> DEFINE next == carts[c].items[i] + q
           row == carts'[c]
<1>1. /\ carts \in [Carts -> CartRow] /\ carts[c] \in CartRow
      /\ res \in [Keys -> Row]
      /\ MaxUnits \in Nat
      /\ carts[c].items[i] \in 0..MaxUnits
  BY MaxUnitsAssumption DEF TypeOK, StockTypeOK, CartRow
<1>2. next \in 1..MaxUnits /\ next \in 0..MaxUnits
  BY <1>1 DEF Hold
<1>3. /\ \A d \in Carts \ {c} : carts'[d] = carts[d]
      /\ row = [exists |-> TRUE, plain |-> FALSE, items |-> [carts[c].items EXCEPT ![i] = next],
                lapsed |-> [carts[c].lapsed EXCEPT ![i] = FALSE],
                used |-> carts[c].used \cup {r}, terminal |-> "none"]
      /\ carts' = [carts EXCEPT ![c] = row]
  BY <1>1 DEF Hold, CartRow
<1> HIDE DEF next
<1>4. /\ [carts[c].items EXCEPT ![i] = next] \in [Items -> 0..MaxUnits]
      /\ [carts[c].lapsed EXCEPT ![i] = FALSE] \in [Items -> BOOLEAN]
      /\ carts[c].used \cup {r} \in SUBSET Requests
  BY <1>1, <1>2 DEF CartRow
<1>5. /\ row \in CartRow
      /\ row.items = [carts[c].items EXCEPT ![i] = next]
      /\ row.lapsed = [carts[c].lapsed EXCEPT ![i] = FALSE]
      /\ row.terminal = "none"
  BY <1>3, <1>4 DEF CartRow
<1>6. carts' \in [Carts -> CartRow] /\ \A d \in Carts \ {c} : carts'[d] = carts[d]
  BY <1>1, <1>3, <1>5
<1>7. OneItem(c, i, next, FALSE)
  BY <1>1, <1>5, <1>6 DEF OneItem, CartRow
<1>8. OneRow(CartKey(c, i), [quantity |-> next, state |-> "held", expiry |-> "later"])
  BY <1>1, CartKeys DEF Hold, WriteLocked, WriteRow, OneRow, next
<1>9. res[CartKey(c, i)].state # "committed"
  BY DEF Hold, HoldableRow
<1> QED
  BY <1>2, <1>5, <1>6, <1>7, <1>8, <1>9 DEF next

(***************************************************************************)
(* A quantity change rewrites one item and its reservation.                *)
(***************************************************************************)
LEMMA SetQuantityForm ==
    ASSUME TypeOK, NEW c \in Carts, NEW i \in Items, NEW n \in 0..MaxUnits, SetQuantity(c, i, n)
    PROVE  /\ carts' \in [Carts -> CartRow]
           /\ OneItem(c, i, n, IF n = 0 THEN FALSE ELSE carts[c].lapsed[i])
           /\ \A d \in Carts : carts'[d].terminal = carts[d].terminal
           /\ OneRow(CartKey(c, i), AdjustedRow(res[CartKey(c, i)], n))
           /\ carts[c].items[i] > 0
           /\ res[CartKey(c, i)].quantity = carts[c].items[i]
           /\ res[CartKey(c, i)].state \in {"held", "expired"}
           /\ n > 0 => res[CartKey(c, i)].state = "held"
<1> DEFINE row == carts'[c]
           mark == IF n = 0 THEN FALSE ELSE carts[c].lapsed[i]
<1>1. /\ carts \in [Carts -> CartRow] /\ carts[c] \in CartRow
      /\ res \in [Keys -> Row]
      /\ carts[c].lapsed[i] \in BOOLEAN
  BY DEF TypeOK, StockTypeOK, CartRow
<1>2. carts' = [carts EXCEPT ![c].items[i] = n,
                             ![c].lapsed[i] = IF n = 0 THEN FALSE ELSE @]
  BY DEF SetQuantity
<1>3. /\ \A d \in Carts \ {c} : carts'[d] = carts[d]
      /\ row = [carts[c] EXCEPT !.items = [carts[c].items EXCEPT ![i] = n],
                                !.lapsed = [carts[c].lapsed EXCEPT ![i] = mark]]
      /\ carts' = [carts EXCEPT ![c] = row]
  BY <1>1, <1>2 DEF CartRow
<1>4. mark \in BOOLEAN
  BY <1>1
<1> HIDE DEF mark
<1>5. /\ row \in CartRow
      /\ row.items = [carts[c].items EXCEPT ![i] = n]
      /\ row.lapsed = [carts[c].lapsed EXCEPT ![i] = mark]
      /\ row.terminal = carts[c].terminal
  <2>1. /\ [carts[c].items EXCEPT ![i] = n] \in [Items -> 0..MaxUnits]
        /\ [carts[c].lapsed EXCEPT ![i] = mark] \in [Items -> BOOLEAN]
    BY <1>1, <1>4 DEF CartRow
  <2> QED
    BY <1>1, <1>3, <2>1 DEF CartRow
<1>6. carts' \in [Carts -> CartRow] /\ \A d \in Carts \ {c} : carts'[d] = carts[d]
  BY <1>1, <1>2, <1>5
<1>7. OneItem(c, i, n, mark)
  BY <1>1, <1>5, <1>6 DEF OneItem, CartRow
<1>8. OneRow(CartKey(c, i), AdjustedRow(res[CartKey(c, i)], n))
  BY <1>1, CartKeys DEF SetQuantity, WriteLocked, WriteRow, OneRow
<1>9. /\ carts[c].items[i] > 0
      /\ res[CartKey(c, i)].quantity = carts[c].items[i]
      /\ res[CartKey(c, i)].state \in {"held", "expired"}
      /\ n > 0 => res[CartKey(c, i)].state = "held"
  BY DEF SetQuantity, InCart, Lines, AdjustableRow
<1> QED
  BY <1>5, <1>6, <1>7, <1>8, <1>9 DEF mark

\* Cart c is empty afterwards, and the others are as they were.
Emptied(c, terminal) ==
    /\ carts' \in [Carts -> CartRow]
    /\ \A i \in Items : carts'[c].items[i] = 0 /\ carts'[c].lapsed[i] = FALSE
    /\ carts'[c].terminal = terminal
    /\ \A d \in Carts \ {c} : carts'[d] = carts[d]

(***************************************************************************)
(* A release or commit empties the cart and moves its reservations alone.  *)
(***************************************************************************)
LEMMA MoveAllForm ==
    ASSUME TypeOK, NEW c \in Carts, NEW state \in {"released", "committed"}, MoveAll(c, state)
    PROVE  /\ Emptied(c, state)
           /\ StockTypeOK'
           /\ \A i \in InCart(c) : res'[CartKey(c, i)] =
                 [res[CartKey(c, i)] EXCEPT !.state = state, !.expiry = "never"]
           /\ \A k \in Keys : k \notin MovedKeys(c) => res'[k] = res[k]
<1>1. /\ carts \in [Carts -> CartRow] /\ carts[c] \in CartRow
      /\ StockTypeOK /\ res \in [Keys -> Row]
  BY DEF TypeOK, StockTypeOK
<1>2. carts[c].used \in SUBSET Requests
  BY <1>1 DEF CartRow
<1> DEFINE row == [EmptyCart EXCEPT !.exists = TRUE, !.used = carts[c].used, !.terminal = state]
<1>3. carts' = [carts EXCEPT ![c] = row]
  BY DEF MoveAll
<1>4. /\ row \in CartRow /\ row.terminal = state
      /\ \A i \in Items : row.items[i] = 0 /\ row.lapsed[i] = FALSE
  BY <1>2, EmptyCartForm DEF CartRow
<1> HIDE DEF row
<1>5. Emptied(c, state)
  BY <1>1, <1>3, <1>4 DEF Emptied
<1>6. res' = [k \in Keys |-> IF k \in MovedKeys(c)
                             THEN [res[k] EXCEPT !.state = state, !.expiry = "never"]
                             ELSE res[k]]
  BY DEF MoveAll
<1>7. \A k \in Keys : [res[k] EXCEPT !.state = state, !.expiry = "never"] \in Row
  BY <1>1 DEF Row
<1>8. res' \in [Keys -> Row]
  BY <1>1, <1>6, <1>7
<1>9. reserved_qty' \in [Variants -> Nat]
  <2>1. \A v \in Variants : SumReserved(res', v) \in Nat /\ reserved_qty[v] \in Nat
    BY <1>1, SumType DEF StockTypeOK
  <2> QED
    BY <2>1 DEF MoveAll
<1>10. StockTypeOK'
  BY <1>1, <1>8, <1>9 DEF StockTypeOK, MoveAll
<1>11. \A i \in InCart(c) : CartKey(c, i) \in Keys /\ CartKey(c, i) \in MovedKeys(c)
  BY CartKeys DEF InCart, Lines, MovedKeys
<1> QED
  BY <1>5, <1>6, <1>10, <1>11

(***************************************************************************)
(* The clock marks an item and its reservation together.                   *)
(***************************************************************************)
LEMMA LapseForm ==
    ASSUME TypeOK, NEW c \in Carts, NEW i \in Items, LapseItem(c, i)
    PROVE  /\ carts' \in [Carts -> CartRow]
           /\ OneItem(c, i, carts[c].items[i], carts[c].items[i] > 0)
           /\ \A d \in Carts : carts'[d].terminal = carts[d].terminal
           /\ OneRow(CartKey(c, i), [res[CartKey(c, i)] EXCEPT !.expiry = "due"])
           /\ res[CartKey(c, i)].expiry = "later"
           /\ StockTypeOK'
<1> DEFINE row == carts'[c]
           mark == carts[c].items[i] > 0
<1>1. /\ carts \in [Carts -> CartRow] /\ carts[c] \in CartRow
      /\ StockTypeOK /\ res \in [Keys -> Row]
      /\ CartKey(c, i) \in Keys
  BY CartKeys DEF TypeOK, StockTypeOK
<1>2. carts' = [carts EXCEPT ![c].lapsed[i] = mark]
  BY DEF LapseItem
<1>3. mark \in BOOLEAN
  OBVIOUS
<1> HIDE DEF mark
<1>4. /\ row = [carts[c] EXCEPT !.lapsed = [carts[c].lapsed EXCEPT ![i] = mark]]
      /\ carts' = [carts EXCEPT ![c] = row]
      /\ \A d \in Carts \ {c} : carts'[d] = carts[d]
  BY <1>1, <1>2 DEF CartRow
<1>5. /\ row \in CartRow
      /\ row.items = carts[c].items
      /\ row.lapsed = [carts[c].lapsed EXCEPT ![i] = mark]
      /\ row.terminal = carts[c].terminal
  <2>1. [carts[c].lapsed EXCEPT ![i] = mark] \in [Items -> BOOLEAN]
    BY <1>1, <1>3 DEF CartRow
  <2> QED
    BY <1>1, <1>4, <2>1 DEF CartRow
<1>6. carts' \in [Carts -> CartRow]
  BY <1>1, <1>4, <1>5
<1>7. OneItem(c, i, carts[c].items[i], mark)
  BY <1>1, <1>4, <1>5 DEF OneItem, CartRow
<1>8. Lapse(CartKey(c, i))
  BY DEF LapseItem
<1>9. OneRow(CartKey(c, i), [res[CartKey(c, i)] EXCEPT !.expiry = "due"])
      /\ res[CartKey(c, i)].expiry = "later"
  BY <1>1, <1>8 DEF Lapse, OneRow
<1>10. StockTypeOK'
  BY <1>1, <1>8, StockTypeStep DEF StockNext
<1> QED
  BY <1>4, <1>5, <1>6, <1>7, <1>9, <1>10 DEF mark

(***************************************************************************)
(* Background's steps are steps of the ledger.                             *)
(***************************************************************************)
LEMMA BackgroundSteps ==
    ASSUME Background
    PROVE  /\ UNCHANGED <<lineup, cartVars>>
           /\ \/ ExpireSweep
              \/ \E k \in Keys : QueueRecompute(k) \/ AbortQueued(k)
<1>1. \A k \in DueKeys : k \in Keys
  BY DEF DueKeys
<1>2. \A c \in Mixed, i \in Items : CartKey(c, i) \in Keys
  BY CartAssumption
<1>3. \A k \in {CartKey(c, i) : c \in Mixed, i \in Items} : k \in Keys
  BY <1>2
<1>4. /\ UNCHANGED <<lineup, cartVars>>
      /\ \/ ExpireSweep
         \/ \E k \in DueKeys \cup {CartKey(c, i) : c \in Mixed, i \in Items} : QueueRecompute(k)
         \/ \E k \in Keys : AbortQueued(k)
  BY DEF Background
<1>5. DueKeys \cup {CartKey(c, i) : c \in Mixed, i \in Items} \subseteq Keys
  BY <1>1, <1>3
<1> QED
  BY <1>4, <1>5

(***************************************************************************)
(* Sweeps and lock queues leave the carts alone; a row they change was due.*)
(***************************************************************************)
LEMMA BackgroundForm ==
    ASSUME TypeOK, Background
    PROVE  /\ StockTypeOK'
           /\ UNCHANGED <<qty, lineup, cartVars>>
           /\ \A k \in Keys :
                \/ res'[k] = res[k]
                \/ /\ res[k].state = "held" /\ res[k].expiry = "due"
                   /\ res'[k] = [res[k] EXCEPT !.state = "expired", !.expiry = "never"]
<1>1. StockNext /\ UNCHANGED <<qty, lineup, cartVars>>
  BY BackgroundSteps DEF StockNext, ExpireSweep, QueueRecompute, AbortQueued
<1>2. StockTypeOK'
  BY <1>1, StockTypeStep DEF TypeOK
<1>3. CASE ExpireSweep
  BY <1>1, <1>2, <1>3 DEF ExpireSweep, Swept, DueKeys
<1>4. CASE UNCHANGED res
  BY <1>1, <1>2, <1>4
<1> QED
  BY <1>3, <1>4, BackgroundSteps DEF QueueRecompute, AbortQueued

-----------------------------------------------------------------------------
(* What a plain call may do.                                               *)

(***************************************************************************)
(* The documents that plain calls compute are documents.                   *)
(***************************************************************************)
LEMMA DocumentForms ==
    ASSUME NEW doc \in CartRow, NEW i \in Items, NEW n \in 0..MaxUnits, NEW gone, NEW late
    PROVE  /\ [EmptyCart EXCEPT !.exists = TRUE] \in CartRow
           /\ Without(doc, gone) \in CartRow
           /\ WithLine(doc, i, n) \in CartRow
           /\ [doc EXCEPT !.lapsed = [j \in Items |-> j \in late]] \in CartRow
           /\ [doc EXCEPT !.items[i] = n] \in CartRow
           /\ [doc EXCEPT !.lapsed[i] = TRUE] \in CartRow
<1> DEFINE fewer == [j \in Items |-> IF j \in gone THEN 0 ELSE doc.items[j]]
           marks == [j \in Items |-> IF j \in gone THEN FALSE ELSE doc.lapsed[j]]
           more == [doc.items EXCEPT ![i] = n]
           unmarked == [doc.lapsed EXCEPT ![i] = FALSE]
           marked == [doc.lapsed EXCEPT ![i] = TRUE]
           flags == [j \in Items |-> j \in late]
<1>1. fewer \in [Items -> 0..MaxUnits] /\ more \in [Items -> 0..MaxUnits]
  BY MaxUnitsAssumption DEF CartRow
<1>2. marks \in [Items -> BOOLEAN]
  <2>1. doc.lapsed \in [Items -> BOOLEAN]
    BY DEF CartRow
  <2> QED
    BY <2>1, Zenon
<1>3. unmarked \in [Items -> BOOLEAN] /\ marked \in [Items -> BOOLEAN]
  BY DEF CartRow
<1>4. flags \in [Items -> BOOLEAN]
  <2>1. \A j \in Items : (j \in late) \in BOOLEAN
    OBVIOUS
  <2> QED
    BY <2>1
<1>5. Without(doc, gone) = [doc EXCEPT !.items = fewer, !.lapsed = marks]
  BY DEF Without
<1>6. WithLine(doc, i, n) = [doc EXCEPT !.plain = TRUE, !.items = more, !.lapsed = unmarked]
  BY DEF WithLine, CartRow
<1>7. /\ [doc EXCEPT !.items[i] = n] = [doc EXCEPT !.items = more]
      /\ [doc EXCEPT !.lapsed[i] = TRUE] = [doc EXCEPT !.lapsed = marked]
  BY DEF CartRow
<1> HIDE DEF fewer, marks, more, unmarked, marked, flags
<1>8. [EmptyCart EXCEPT !.exists = TRUE] \in CartRow
  BY EmptyCartForm DEF CartRow
<1>9. /\ [doc EXCEPT !.items = fewer, !.lapsed = marks] \in CartRow
      /\ [doc EXCEPT !.plain = TRUE, !.items = more, !.lapsed = unmarked] \in CartRow
      /\ [doc EXCEPT !.lapsed = flags] \in CartRow
      /\ [doc EXCEPT !.items = more] \in CartRow
      /\ [doc EXCEPT !.lapsed = marked] \in CartRow
  BY <1>1, <1>2, <1>3, <1>4 DEF CartRow
<1> QED
  BY <1>5, <1>6, <1>7, <1>8, <1>9 DEF flags

(***************************************************************************)
(* What a call does with the document it found is a call state.            *)
(***************************************************************************)
LEMMA FoundForm ==
    ASSUME NEW at \in OpenCall, NEW doc \in CartRow
    PROVE  Found(at, doc) \in CallState
<1> DEFINE has == doc.items[at.item]
           next == [at EXCEPT !.todo = {}]
<1>1. at.item \in Items /\ at.n \in 1..MaxUnits /\ has \in 0..MaxUnits /\ MaxUnits \in Nat
  BY MaxUnitsAssumption DEF OpenCall, CartRow
<1>2. next \in OpenCall /\ EmptyCart \in CartRow
  BY EmptyCartForm DEF OpenCall
<1> DEFINE line == WithLine(doc, at.item, has + at.n)
<1>3. has + at.n <= MaxUnits => has + at.n \in 1..MaxUnits /\ line \in CartRow
  <2> SUFFICES ASSUME has + at.n <= MaxUnits
               PROVE  has + at.n \in 1..MaxUnits /\ line \in CartRow
    OBVIOUS
  <2>1. has + at.n \in 1..MaxUnits /\ has + at.n \in 0..MaxUnits
    BY <1>1
  <2> QED
    BY <1>1, <2>1, DocumentForms
<1> HIDE DEF line, next
<1>4. /\ has + at.n <= MaxUnits =>
           [next EXCEPT !.pc = "reserve", !.want = has + at.n, !.copy = EmptyCart] \in OpenCall
      /\ has + at.n <= MaxUnits => [next EXCEPT !.pc = "write", !.copy = line] \in OpenCall
      /\ [next EXCEPT !.pc = "undo", !.copy = EmptyCart] \in OpenCall
      /\ [next EXCEPT !.pc = "reserve", !.want = at.n, !.copy = doc] \in OpenCall
      /\ [next EXCEPT !.pc = "free", !.copy = doc] \in OpenCall
      /\ [next EXCEPT !.pc = "write", !.copy = doc] \in OpenCall
  BY <1>1, <1>2, <1>3 DEF OpenCall
<1>5. Found(at, doc) =
        CASE at.op = "hold" /\ has + at.n <= MaxUnits ->
               [next EXCEPT !.pc = "reserve", !.want = has + at.n, !.copy = EmptyCart]
          [] at.op = "add" /\ ~ HasEventItems(doc) /\ has + at.n <= MaxUnits ->
               [next EXCEPT !.pc = "write", !.copy = line]
          [] at.op = "add" /\ (HasEventItems(doc) \/ has + at.n > MaxUnits) ->
               [next EXCEPT !.pc = "undo", !.copy = EmptyCart]
          [] at.op = "set" /\ doc.plain /\ has > 0 ->
               [next EXCEPT !.pc = "reserve", !.want = at.n, !.copy = doc]
          [] at.op = "remove" /\ doc.plain /\ has > 0 ->
               [next EXCEPT !.pc = "free", !.copy = doc]
          [] at.op = "remove" /\ has = 0 -> [next EXCEPT !.pc = "write", !.copy = doc]
          [] OTHER -> Idle
  BY DEF Found, next, line
<1> QED
  BY <1>4, <1>5 DEF CallState

PlainLedger(k) ==
    \/ \E q \in 1..MaxUnits, e \in {"later", "due"} : Reserve(k, q, e)
    \/ Release(k) \/ Commit(k) \/ Lapse(k)

(***************************************************************************)
(* A plain call touches its own cart, and at most one reservation of it.   *)
(***************************************************************************)
PlainWrites(c) ==
    /\ UNCHANGED lineup
    /\ carts' \in [Carts -> CartRow]
    /\ \A d \in Carts \ {c} : carts'[d] = carts[d]
    /\ UNCHANGED quoted \/ Outdated(c)
    /\ UNCHANGED stockVars \/ \E i \in Items : PlainLedger(CartKey(c, i))

LEMMA PlainForm ==
    ASSUME TypeOK, NEW c \in Mixed, PlainCall(c)
    PROVE  PlainWrites(c) /\ call' \in [Mixed -> CallState]
<1> DEFINE Typed == call' \in [Mixed -> CallState]
           at == call[c]
<1>1. /\ c \in Carts /\ carts \in [Carts -> CartRow] /\ carts[c] \in CartRow
      /\ call \in [Mixed -> CallState] /\ at \in CallState
      /\ EmptyCart \in CartRow
  BY CartAssumption, EmptyCartForm DEF TypeOK
<1>2. at.pc # "idle" \/ at # Idle => at \in OpenCall
  BY <1>1 DEF CallState, Idle
<1>3. ASSUME NEW next \in CallState, Goto(c, next) PROVE Typed
  <2> DEFINE there == IF next.pc = "drain" /\ next.todo = {} THEN Idle ELSE next
  <2>1. there \in CallState
    BY <1>3 DEF CallState
  <2>2. call' = [call EXCEPT ![c] = there]
    BY <1>3 DEF Goto
  <2> HIDE DEF there
  <2> QED
    BY <1>1, <2>1, <2>2
<1>4. ASSUME NEW doc \in CartRow, Store(c, doc), Ledgerless PROVE PlainWrites(c)
  BY <1>1, <1>4 DEF Store, Ledgerless, PlainWrites
<1>5. ASSUME Ledgerless, UNCHANGED <<carts, quoted>> PROVE PlainWrites(c)
  BY <1>1, <1>5 DEF Ledgerless, PlainWrites
<1>6. ASSUME NEW i \in Items, FreeLine(c, i) PROVE PlainWrites(c)
  <2>1. UNCHANGED <<lineup, carts, quoted>> /\ (UNCHANGED stockVars \/ Release(CartKey(c, i)))
    BY <1>6 DEF FreeLine
  <2>2. Release(CartKey(c, i)) => PlainLedger(CartKey(c, i))
    BY DEF PlainLedger
  <2> QED
    BY <1>1, <2>1, <2>2 DEF PlainWrites
<1>7. ASSUME NEW op \in {"hold", "set", "remove", "read", "commit", "release"}, NEW i \in Items,
             NEW n \in 1..MaxUnits, Begin(c, op, i, n)
      PROVE  PlainWrites(c) /\ Typed
  <2> DEFINE next == [pc |-> "find", op |-> op, item |-> i, n |-> n, want |-> n,
                      copy |-> EmptyCart, todo |-> {}]
  <2>1. next \in CallState
    BY <1>1 DEF CallState, OpenCall
  <2>2. Goto(c, next) /\ Ledgerless /\ UNCHANGED <<carts, quoted>>
    BY <1>7 DEF Begin
  <2> HIDE DEF next
  <2> QED
    BY <1>3, <1>5, <2>1, <2>2
<1>8. ASSUME NEW late \in SUBSET Items, Find(c, late) PROVE PlainWrites(c) /\ Typed
  <2> DEFINE doc == [carts[c] EXCEPT !.lapsed = [i \in Items |-> i \in late]]
             next == [at EXCEPT !.pc = "purge", !.todo = late, !.copy = doc]
  <2>1. at \in OpenCall
    BY <1>2, <1>8 DEF Find
  <2>2. at.item \in Items /\ at.n \in 0..MaxUnits
    BY <2>1, MaxUnitsAssumption DEF OpenCall
  <2>3. doc \in CartRow
    BY <1>1, <2>2, DocumentForms
  <2>4. /\ Goto(c, IF late = {} THEN Found(at, carts[c]) ELSE next)
        /\ Ledgerless /\ UNCHANGED <<carts, quoted>>
    BY <1>8 DEF Find
  <2> HIDE DEF doc
  <2>5. next \in CallState /\ Found(at, carts[c]) \in CallState
    BY <1>1, <2>1, <2>3, FoundForm DEF CallState, OpenCall
  <2> HIDE DEF next
  <2>6. (IF late = {} THEN Found(at, carts[c]) ELSE next) \in CallState
    BY <2>5
  <2> QED
    BY <1>3, <1>5, <2>4, <2>6
<1>9. ASSUME FindNothing(c) \/ FindSettle(c) PROVE PlainWrites(c) /\ Typed
  <2>1. at \in OpenCall
    BY <1>2, <1>9 DEF FindNothing, FindSettle
  <2> DEFINE create == [at EXCEPT !.pc = "create"]
             settle == [at EXCEPT !.pc = "settle", !.copy = carts[c], !.todo = Lines(carts[c])]
  <2>2. create \in CallState /\ settle \in CallState /\ Idle \in CallState
    BY <1>1, <2>1 DEF CallState, OpenCall, Lines
  <2>3. /\ Ledgerless /\ UNCHANGED <<carts, quoted>>
        /\ Goto(c, create) \/ Goto(c, settle) \/ Goto(c, Idle)
    BY <1>9 DEF FindNothing, FindSettle
  <2> HIDE DEF create, settle
  <2> QED
    BY <1>3, <1>5, <2>2, <2>3
<1>10. ASSUME CreateCart(c) PROVE PlainWrites(c) /\ Typed
  <2> DEFINE doc == [EmptyCart EXCEPT !.exists = TRUE]
  <2>1. at \in OpenCall /\ Store(c, doc) /\ Goto(c, Found(at, doc)) /\ Ledgerless
    BY <1>2, <1>10 DEF CreateCart
  <2>2. doc \in CartRow
    BY EmptyCartForm DEF CartRow
  <2> HIDE DEF doc
  <2> QED
    BY <1>3, <1>4, <2>1, <2>2, FoundForm
<1>11. ASSUME NEW gone \in SUBSET Items, PurgeWrite(c, gone) PROVE PlainWrites(c) /\ Typed
  <2> DEFINE doc == Without(at.copy, gone)
  <2>1. at \in OpenCall /\ Store(c, doc) /\ Goto(c, Found(at, doc)) /\ Ledgerless
    BY <1>2, <1>11 DEF PurgeWrite
  <2>2. at.copy \in CartRow /\ at.item \in Items /\ at.n \in 0..MaxUnits
    BY <2>1, MaxUnitsAssumption DEF OpenCall
  <2>3. doc \in CartRow
    BY <2>2, DocumentForms
  <2> HIDE DEF doc
  <2> QED
    BY <1>3, <1>4, <2>1, <2>3, FoundForm
<1>12. ASSUME NEW i \in Items, PurgeLine(c, i) \/ SettleLine(c, i) PROVE PlainWrites(c) /\ Typed
  <2>1. at \in OpenCall
    BY <1>2, <1>12 DEF PurgeLine, SettleLine
  <2> DEFINE rest == [at EXCEPT !.todo = @ \ {i}]
             thrown == [at EXCEPT !.pc = "drain", !.todo = @ \ {i}]
  <2>2. rest \in CallState /\ thrown \in CallState
    BY <2>1 DEF CallState, OpenCall
  <2>3. Goto(c, rest) \/ Goto(c, thrown)
    BY <1>12 DEF PurgeLine, SettleLine
  <2>4. \/ FreeLine(c, i)
        \/ Commit(CartKey(c, i)) /\ UNCHANGED <<lineup, carts, quoted>>
        \/ Ledgerless /\ UNCHANGED <<carts, quoted>>
    BY <1>12 DEF PurgeLine, SettleLine
  <2> HIDE DEF rest, thrown
  <2>5. Typed
    BY <1>3, <2>2, <2>3
  <2>6. CASE Commit(CartKey(c, i)) /\ UNCHANGED <<lineup, carts, quoted>>
    <3>1. PlainLedger(CartKey(c, i))
      BY <2>6 DEF PlainLedger
    <3> QED
      BY <1>1, <2>5, <2>6, <3>1 DEF PlainWrites
  <2> QED
    BY <1>5, <1>6, <2>4, <2>5, <2>6
<1>13. ASSUME NEW e \in {"later", "due"}, ReserveLine(c, e) PROVE PlainWrites(c) /\ Typed
  <2>1. at \in OpenCall
    BY <1>2, <1>13 DEF ReserveLine
  <2>2. at.item \in Items /\ at.want \in 1..MaxUnits /\ at.n \in 0..MaxUnits /\ at.copy \in CartRow
    BY <2>1, MaxUnitsAssumption DEF OpenCall
  <2> DEFINE doc == [at.copy EXCEPT !.items[at.item] = at.n]
             add == [at EXCEPT !.pc = "find", !.op = "add"]
             resized == [at EXCEPT !.pc = "write", !.copy = doc]
  <2>3. doc \in CartRow
    BY <2>2, DocumentForms
  <2>4. [at EXCEPT !.pc = "write", !.copy.items[at.item] = at.n] = resized
    BY <2>1 DEF OpenCall
  <2>5. /\ Goto(c, add) \/ Goto(c, resized) \/ Goto(c, Idle)
        /\ UNCHANGED stockVars \/ Reserve(CartKey(c, at.item), at.want, e)
        /\ UNCHANGED <<lineup, carts, quoted>>
    BY <1>13, <2>4 DEF ReserveLine
  <2> HIDE DEF doc
  <2>6. add \in CallState /\ resized \in CallState /\ Idle \in CallState
    BY <2>1, <2>3 DEF CallState, OpenCall
  <2> HIDE DEF add, resized
  <2>7. Typed
    BY <1>3, <2>5, <2>6
  <2>8. PlainWrites(c)
    <3>1. Reserve(CartKey(c, at.item), at.want, e) => PlainLedger(CartKey(c, at.item))
      BY <2>2 DEF PlainLedger
    <3> QED
      BY <1>1, <2>2, <2>5, <3>1 DEF PlainWrites
  <2> QED
    BY <2>7, <2>8
<1>14. ASSUME RemoveLine(c) \/ UndoHold(c) PROVE PlainWrites(c) /\ Typed
  <2>1. at \in OpenCall
    BY <1>2, <1>14 DEF RemoveLine, UndoHold
  <2>2. at.item \in Items /\ at.copy \in CartRow /\ at.n \in 0..MaxUnits
    BY <2>1, MaxUnitsAssumption DEF OpenCall
  <2> DEFINE doc == Without(at.copy, {at.item})
             removed == [at EXCEPT !.pc = "write", !.copy = doc]
             undone == [at EXCEPT !.pc = "drain"]
  <2>3. doc \in CartRow
    BY <2>2, DocumentForms
  <2>4. FreeLine(c, at.item) /\ (Goto(c, removed) \/ Goto(c, undone))
    BY <1>14 DEF RemoveLine, UndoHold
  <2> HIDE DEF doc
  <2>5. removed \in CallState /\ undone \in CallState
    BY <2>1, <2>3 DEF CallState, OpenCall
  <2> HIDE DEF removed, undone
  <2> QED
    BY <1>3, <1>6, <2>2, <2>4, <2>5
<1>15. ASSUME WriteCart(c) PROVE PlainWrites(c) /\ Typed
  <2>1. at \in OpenCall
    BY <1>2, <1>15 DEF WriteCart
  <2>2. at.item \in Items /\ at.copy \in CartRow /\ at.n \in 0..MaxUnits
    BY <2>1, MaxUnitsAssumption DEF OpenCall
  <2>3. Without(at.copy, Items) \in CartRow
    BY <2>2, DocumentForms
  <2>4. /\ Store(c, at.copy) \/ Store(c, Without(at.copy, Items))
        /\ Goto(c, Idle) /\ Ledgerless
    BY <1>15 DEF WriteCart
  <2>5. Idle \in CallState
    BY DEF CallState
  <2> QED
    BY <1>3, <1>4, <2>2, <2>3, <2>4, <2>5
<1>16. ASSUME CallFails(c) PROVE PlainWrites(c) /\ Typed
  <2>1. at \in OpenCall
    BY <1>2, <1>16 DEF CallFails
  <2> DEFINE undo == [at EXCEPT !.pc = "undo", !.copy = EmptyCart]
             drain == [at EXCEPT !.pc = "drain"]
  <2>2. undo \in CallState /\ drain \in CallState /\ Idle \in CallState
    BY <1>1, <2>1 DEF CallState, OpenCall
  <2>3. /\ Goto(c, undo) \/ Goto(c, drain) \/ Goto(c, Idle)
        /\ Ledgerless /\ UNCHANGED <<carts, quoted>>
    BY <1>16 DEF CallFails
  <2> HIDE DEF undo, drain
  <2> QED
    BY <1>3, <1>5, <2>2, <2>3
<1>17. ASSUME NEW i \in Items, LapseApart(c, i) PROVE PlainWrites(c) /\ Typed
  <2>1. Typed /\ UNCHANGED <<lineup, quoted>>
    BY <1>1, <1>17 DEF LapseApart, cartVars, Ledgerless
  <2>2. CASE Lapse(CartKey(c, i)) /\ UNCHANGED <<lineup, cartVars>>
    <3>1. PlainLedger(CartKey(c, i)) /\ UNCHANGED carts
      BY <2>2 DEF PlainLedger, cartVars
    <3> QED
      BY <1>1, <2>1, <3>1 DEF PlainWrites
  <2>3. CASE carts' = [carts EXCEPT ![c].lapsed[i] = TRUE] /\ Ledgerless
    <3> DEFINE doc == [carts[c] EXCEPT !.lapsed[i] = TRUE]
    <3>1. doc \in CartRow
      <4>1. 0 \in 0..MaxUnits
        BY MaxUnitsAssumption
      <4> QED
        BY <1>1, <4>1, DocumentForms
    <3>2. carts' = [carts EXCEPT ![c] = doc]
      BY <1>1, <2>3
    <3> HIDE DEF doc
    <3> QED
      BY <1>1, <2>1, <2>3, <3>1, <3>2 DEF PlainWrites, Ledgerless
  <2> QED
    BY <1>17, <2>2, <2>3 DEF LapseApart
<1> QED
  <2>1. 1 \in 1..MaxUnits
    BY MaxUnitsAssumption
  <2>2. \A some \in SUBSET Items : some \cap Lines(carts[c]) \in SUBSET Items
    OBVIOUS
  <2> QED
    BY <1>7, <1>8, <1>9, <1>10, <1>11, <1>12, <1>13, <1>14, <1>15, <1>16, <1>17, <2>1, <2>2
    DEF PlainCall

(***************************************************************************)
(* To the ledger a plain call is a step of the ledger's own.               *)
(***************************************************************************)
LEMMA PlainStock ==
    ASSUME NEW c \in Mixed, PlainWrites(c)
    PROVE  [StockNext]_stockVars
<1>1. \A i \in Items : CartKey(c, i) \in Keys
  BY CartAssumption
<1> QED
  BY <1>1 DEF PlainWrites, PlainLedger, StockNext

(***************************************************************************)
(* A plain call leaves every other cart and its reservations alone.        *)
(***************************************************************************)
LEMMA PlainElsewhere ==
    ASSUME TypeOK, NEW c \in Mixed, PlainWrites(c), NEW d \in Carts, d # c, NEW j \in Items
    PROVE  carts'[d] = carts[d] /\ res'[CartKey(d, j)] = res[CartKey(d, j)]
<1>1. c \in Carts /\ res \in [Keys -> Row] /\ CartKey(d, j) \in Keys
  BY CartAssumption DEF TypeOK, StockTypeOK
<1>2. \A i \in Items : CartKey(c, i) \in Keys /\ CartKey(d, j) # CartKey(c, i)
  BY <1>1, CartKeys
<1> QED
  BY <1>1, <1>2 DEF PlainWrites, PlainLedger, Reserve, Release, Commit, Lapse, WriteRow, stockVars

-----------------------------------------------------------------------------
(* Type correctness.                                                       *)

(***************************************************************************)
(* A reservation written under the variant lock keeps the ledger typed.    *)
(***************************************************************************)
LEMMA WriteLockedType ==
    ASSUME TypeOK, NEW c \in Carts, NEW i \in Items, NEW row \in Row, WriteLocked(c, i, row)
    PROVE  StockTypeOK'
<1>1. StockTypeOK /\ CartKey(c, i) \in Keys /\ UNCHANGED qty /\ WriteRow(CartKey(c, i), row)
  BY CartKeys DEF TypeOK, WriteLocked
<1> QED
  BY <1>1, WriteRowType DEF StockTypeOK

(***************************************************************************)
(* The seller's edits keep the lineup typed and nothing else moves.        *)
(***************************************************************************)
LEMMA SellerEditsForm ==
    ASSUME TypeOK, SellerEdits
    PROVE  lineup' \in [Items -> LineupRow] /\ UNCHANGED stockVars
<1>1. lineup \in [Items -> LineupRow]
  BY DEF TypeOK
<1>2. ASSUME NEW i \in Items, NEW n \in AdjustQuantities, StockAdjust(i, n)
      PROVE  lineup' \in [Items -> LineupRow] /\ UNCHANGED stockVars
  BY <1>1, <1>2, ItemsAssumption DEF StockAdjust, LineupRow
<1>3. ASSUME NEW i \in Items, NEW row \in Reregistrations, Register(i, row)
      PROVE  lineup' \in [Items -> LineupRow] /\ UNCHANGED stockVars
  BY <1>1, <1>3, RegistrationsAssumption DEF Register
<1> QED
  BY <1>2, <1>3 DEF SellerEdits

(***************************************************************************)
(* Every step keeps carts, lineup and ledger in their types.               *)
(***************************************************************************)
LEMMA TypeStep == TypeOK /\ [Next]_vars => TypeOK'
<1> SUFFICES ASSUME TypeOK, [Next]_vars PROVE TypeOK'
  OBVIOUS
<1>1. /\ StockTypeOK /\ res \in [Keys -> Row]
      /\ lineup \in [Items -> LineupRow]
      /\ carts \in [Carts -> CartRow]
      /\ quoted \in [Carts -> {"none", "current", "stale"}]
      /\ call \in [Mixed -> CallState]
      /\ MaxUnits \in Nat
  BY MaxUnitsAssumption DEF TypeOK, StockTypeOK
<1>2. ASSUME NEW c \in Carts, Outdated(c) PROVE quoted' \in [Carts -> {"none", "current", "stale"}]
  BY <1>1, <1>2 DEF Outdated
<1>3. ASSUME NEW c \in Carts, NEW i \in Items, NEW q \in 1..MaxUnits, NEW r \in Requests,
             Hold(c, i, q, r)
      PROVE  TypeOK'
  <2> DEFINE row == [quantity |-> carts[c].items[i] + q, state |-> "held", expiry |-> "later"]
  <2>1. carts' \in [Carts -> CartRow] /\ row \in Row
    <3>1. carts' \in [Carts -> CartRow] /\ carts[c].items[i] + q \in 1..MaxUnits
      BY <1>3, HoldForm
    <3> QED
      BY <1>1, <3>1 DEF Row
  <2>2. WriteLocked(c, i, row) /\ Outdated(c) /\ UNCHANGED call /\ TakeAllocation(i, q)
    BY <1>3 DEF Hold
  <2> HIDE DEF row
  <2>3. StockTypeOK'
    BY <2>1, <2>2, WriteLockedType
  <2>4. lineup' \in [Items -> LineupRow]
    BY <1>1, <2>2 DEF TakeAllocation, LineupRow
  <2> QED
    BY <1>1, <1>2, <2>1, <2>2, <2>3, <2>4 DEF TypeOK
<1>4. ASSUME NEW c \in Carts, NEW i \in Items, NEW n \in 0..MaxUnits, SetQuantity(c, i, n)
      PROVE  TypeOK'
  <2> DEFINE row == AdjustedRow(res[CartKey(c, i)], n)
             delta == n - carts[c].items[i]
  <2>1. carts' \in [Carts -> CartRow]
    BY <1>4, SetQuantityForm
  <2>2. row \in Row
    <3>1. res[CartKey(c, i)] \in Row
      BY <1>1, CartKeys
    <3> QED
      BY <3>1 DEF AdjustedRow, Row
  <2>3. /\ WriteLocked(c, i, row) /\ Outdated(c) /\ UNCHANGED call
        /\ lineup' = [lineup EXCEPT ![i].current = @ - delta]
        /\ RoomForDelta(i, delta)
    BY <1>4 DEF SetQuantity
  <2>4. delta \in Int
    BY <1>1 DEF CartRow
  <2> HIDE DEF row, delta
  <2>5. StockTypeOK'
    BY <2>2, <2>3, WriteLockedType
  <2>6. lineup' \in [Items -> LineupRow]
    <3>1. lineup[i] \in LineupRow
      BY <1>1
    <3>2. lineup[i].current - delta \in 0..MaxUnits
      BY <1>1, <2>3, <2>4, <3>1 DEF RoomForDelta, LineupRow
    <3>3. [lineup[i] EXCEPT !.current = @ - delta] \in LineupRow
      BY <3>1, <3>2 DEF LineupRow
    <3> QED
      BY <1>1, <2>3, <3>3
  <2> QED
    BY <1>1, <1>2, <2>1, <2>3, <2>5, <2>6 DEF TypeOK
<1>5. ASSUME NEW c \in Carts, NEW i \in Items, LapseItem(c, i) PROVE TypeOK'
  <2>1. carts' \in [Carts -> CartRow] /\ StockTypeOK'
    BY <1>5, LapseForm
  <2> QED
    BY <1>1, <1>5, <2>1 DEF TypeOK, LapseItem
<1>6. ASSUME NEW c \in Carts, Quote(c) PROVE TypeOK'
  BY <1>1, <1>6 DEF Quote, TypeOK, StockTypeOK, stockVars
<1>7. ASSUME NEW c \in Carts, ReleaseCart(c) PROVE TypeOK'
  <2>1. StockTypeOK' /\ carts' \in [Carts -> CartRow]
    BY <1>7, MoveAllForm DEF ReleaseCart, Emptied
  <2>2. \A i \in Items : [lineup[i] EXCEPT !.current = @ + carts[c].items[i]] \in LineupRow
    <3> SUFFICES ASSUME NEW i \in Items
                 PROVE  [lineup[i] EXCEPT !.current = @ + carts[c].items[i]] \in LineupRow
      OBVIOUS
    <3>1. lineup[i] \in LineupRow /\ carts[c].items[i] \in 0..MaxUnits
      BY <1>1 DEF CartRow
    <3>2. lineup[i].current + carts[c].items[i] \in 0..MaxUnits
      <4>1. CASE carts[c].items[i] = 0
        BY <1>1, <3>1, <4>1 DEF LineupRow
      <4>2. CASE i \in InCart(c)
        BY <1>1, <1>7, <3>1, <4>2 DEF ReleaseCart, ReleasableItem, LineupRow
      <4>3. InCart(c) = Lines(carts[c])
        BY <1>7 DEF InCart, ReleaseCart, MoveAll
      <4>4. carts[c].items[i] > 0 => i \in InCart(c)
        BY <4>3 DEF Lines
      <4> QED
        BY <1>1, <3>1, <4>1, <4>2, <4>4
    <3> QED
      BY <3>1, <3>2 DEF LineupRow
  <2>3. lineup' \in [Items -> LineupRow]
    BY <1>7, <2>2 DEF ReleaseCart
  <2> QED
    BY <1>1, <1>2, <1>7, <2>1, <2>3 DEF ReleaseCart, MoveAll, TypeOK
<1>8. ASSUME NEW c \in Carts, CommitCart(c) PROVE TypeOK'
  <2>1. StockTypeOK' /\ carts' \in [Carts -> CartRow]
    BY <1>8, MoveAllForm DEF CommitCart, Emptied
  <2> QED
    BY <1>1, <1>2, <1>8, <2>1 DEF CommitCart, MoveAll, TypeOK
<1>9. ASSUME NEW c \in Mixed, PlainCall(c) PROVE TypeOK'
  <2>1. PlainWrites(c) /\ call' \in [Mixed -> CallState] /\ c \in Carts
    BY <1>9, PlainForm, CartAssumption
  <2>2. StockTypeOK'
    BY <1>1, <2>1, PlainStock, StockTypeStep
  <2>3. quoted' \in [Carts -> {"none", "current", "stale"}]
    BY <1>1, <1>2, <2>1 DEF PlainWrites
  <2> QED
    BY <1>1, <2>1, <2>2, <2>3 DEF TypeOK, PlainWrites
<1>10. CASE Background
  BY <1>1, <1>10, BackgroundForm DEF TypeOK, cartVars
<1>11. CASE SellerEdits /\ UNCHANGED cartVars
  BY <1>1, <1>11, SellerEditsForm DEF TypeOK, StockTypeOK, stockVars, cartVars
<1>12. CASE UNCHANGED vars
  BY <1>1, <1>12 DEF vars, TypeOK, StockTypeOK, stockVars, cartVars
<1> QED
  BY <1>3, <1>4, <1>5, <1>6, <1>7, <1>8, <1>9, <1>10, <1>11, <1>12 DEF Next

(***************************************************************************)
(* Carts, lineup and ledger stay in their types: no transaction of         *)
(* PgCartStore drives an allocation or a quantity below zero or beyond     *)
(* what was listed.                                                        *)
(***************************************************************************)
THEOREM CartTypeCorrect == Spec => []TypeOK
<1>1. Init => TypeOK
  <2> SUFFICES ASSUME Init PROVE TypeOK
    OBVIOUS
  <2>1. StockTypeOK
    BY MaxUnitsAssumption DEF Init, StockInit, StockTypeOK, Row, NoRow
  <2>2. lineup \in [Items -> LineupRow]
    BY RegistrationsAssumption DEF Init, LineupInit
  <2>3. carts \in [Carts -> CartRow]
    BY EmptyCartForm DEF Init
  <2>4. call \in [Mixed -> CallState]
    BY DEF Init, CallState
  <2> QED
    BY <2>1, <2>2, <2>3, <2>4 DEF Init, TypeOK
<1> QED
  BY <1>1, TypeStep, PTL DEF Spec

-----------------------------------------------------------------------------
(* Carts and reservations agree, and sales are final.                      *)

(***************************************************************************)
(* A change of one item and of its reservation touches no other item's     *)
(* backing.                                                                *)
(***************************************************************************)
LEMMA OthersBacked ==
    ASSUME Inv, NEW c \in Carts, NEW i \in Items, NEW n, NEW mark, NEW row,
           OneItem(c, i, n, mark), OneRow(CartKey(c, i), row), c \in EventOnly => Backing(c, i)'
    PROVE  \A d \in EventOnly, j \in Items : Backing(d, j)'
<1> SUFFICES ASSUME NEW d \in EventOnly, NEW j \in Items, d # c \/ j # i
             PROVE  Backing(d, j)'
  OBVIOUS
<1>0. d \in Carts
  BY DEF EventOnly
<1>1. res'[CartKey(d, j)] = res[CartKey(d, j)]
  BY <1>0, CartKeys DEF OneRow
<1>2. carts'[d].items[j] = carts[d].items[j] /\ carts'[d].lapsed[j] = carts[d].lapsed[j]
  BY <1>0 DEF OneItem
<1> QED
  BY <1>1, <1>2 DEF Inv, Backing

(***************************************************************************)
(* A cart that is emptied leaves the other carts' reservations alone.      *)
(***************************************************************************)
LEMMA EmptiedBacked ==
    ASSUME Inv, NEW c \in Carts, NEW terminal, Emptied(c, terminal),
           \A k \in Keys : k \notin MovedKeys(c) => res'[k] = res[k]
    PROVE  \A d \in EventOnly, j \in Items : Backing(d, j)'
<1> SUFFICES ASSUME NEW d \in EventOnly, NEW j \in Items PROVE Backing(d, j)'
  OBVIOUS
<1>0. d \in Carts
  BY DEF EventOnly
<1>1. CASE d = c
  BY <1>1 DEF Emptied, Backing
<1>2. CASE d # c
  <2>1. CartKey(d, j) \in Keys /\ CartKey(d, j) \notin MovedKeys(c)
    BY <1>0, <1>2, CartKeys DEF MovedKeys, InCart, Lines
  <2> QED
    BY <1>0, <1>2, <2>1 DEF Emptied, Inv, Backing
<1> QED
  BY <1>1, <1>2

(***************************************************************************)
(* A sold row is never written again, and a row is sold only while it is   *)
(* held and not due.                                                       *)
(***************************************************************************)
SaleStep(k) ==
    /\ res[k].state = "committed" => res'[k] = res[k]
    /\ res'[k].state = "committed" /\ res[k].state # "committed"
         => res[k].state = "held" /\ res[k].expiry # "due" /\ res'[k].expiry = "never"

(***************************************************************************)
(* Every step keeps every item backed and every sale final.                *)
(***************************************************************************)
LEMMA BackedStep ==
    ASSUME Inv, [Next]_vars
    PROVE  /\ \A c \in EventOnly, i \in Items : Backing(c, i)'
           /\ \A c \in EventOnly, i \in Items : SaleStep(CartKey(c, i))
<1> DEFINE AllBacked == \A c \in EventOnly, i \in Items : Backing(c, i)'
           AllFinal == \A c \in EventOnly, i \in Items : SaleStep(CartKey(c, i))
<1> SUFFICES AllBacked /\ AllFinal
  OBVIOUS
<1>1. TypeOK /\ res \in [Keys -> Row] /\ carts \in [Carts -> CartRow]
  BY DEF Inv, TypeOK, StockTypeOK
<1>0. \A c \in EventOnly, i \in Items : c \in Carts /\ CartKey(c, i) \in Keys
  BY CartKeys DEF EventOnly
<1>2. CASE UNCHANGED <<carts, res>>
  BY <1>2 DEF Inv, Backing, SaleStep
<1>3. ASSUME NEW c \in Carts, NEW i \in Items, NEW q \in 1..MaxUnits, NEW r \in Requests,
             Hold(c, i, q, r)
      PROVE  AllBacked /\ AllFinal
  <2> DEFINE next == carts[c].items[i] + q
             row == [quantity |-> next, state |-> "held", expiry |-> "later"]
  <2>1. /\ OneItem(c, i, next, FALSE) /\ OneRow(CartKey(c, i), row)
        /\ res[CartKey(c, i)].state # "committed"
    BY <1>1, <1>3, HoldForm
  <2>2. row.quantity = next /\ row.state = "held" /\ row.expiry = "later"
    OBVIOUS
  <2> HIDE DEF next, row
  <2>3. Backing(c, i)'
    BY <2>1, <2>2 DEF Backing, OneItem, OneRow
  <2>4. AllBacked
    BY <2>1, <2>3, OthersBacked
  <2>5. AllFinal
    BY <1>0, <2>1, <2>2 DEF SaleStep, OneRow
  <2> QED
    BY <2>4, <2>5
<1>4. ASSUME NEW c \in Carts, NEW i \in Items, NEW n \in 0..MaxUnits, SetQuantity(c, i, n)
      PROVE  AllBacked /\ AllFinal
  <2> DEFINE old == res[CartKey(c, i)]
             row == AdjustedRow(old, n)
             mark == IF n = 0 THEN FALSE ELSE carts[c].lapsed[i]
  <2>1. /\ OneItem(c, i, n, mark) /\ OneRow(CartKey(c, i), row)
        /\ carts[c].items[i] > 0
        /\ old.state \in {"held", "expired"}
        /\ n > 0 => old.state = "held"
        /\ old \in Row
    BY <1>1, <1>4, SetQuantityForm, CartKeys
  <2>2. /\ row.state \in {"released", "held"}
        /\ n > 0 => row.quantity = n /\ row.state = "held" /\ row.expiry = old.expiry
    BY <2>1, MaxUnitsAssumption DEF AdjustedRow, Row
  <2>3. c \in EventOnly /\ old.expiry = "due" => carts[c].lapsed[i]
    BY <2>1 DEF Inv, Backing
  <2>4. n > 0 => mark = carts[c].lapsed[i]
    <3>1. n > 0 => n # 0
      OBVIOUS
    <3>2. n # 0 => mark = carts[c].lapsed[i]
      BY Zenon
    <3> QED
      BY <3>1, <3>2
  <2> HIDE DEF row, mark
  <2>5. c \in EventOnly => Backing(c, i)'
    BY <2>1, <2>2, <2>3, <2>4 DEF Backing, OneItem, OneRow
  <2>6. AllBacked
    BY <2>1, <2>5, OthersBacked
  <2>7. AllFinal
    BY <1>0, <2>1, <2>2 DEF SaleStep, OneRow
  <2> QED
    BY <2>6, <2>7
<1>5. ASSUME NEW c \in Carts, NEW i \in Items, LapseItem(c, i) PROVE AllBacked /\ AllFinal
  <2> DEFINE old == res[CartKey(c, i)]
             row == [old EXCEPT !.expiry = "due"]
  <2>1. /\ OneItem(c, i, carts[c].items[i], carts[c].items[i] > 0)
        /\ OneRow(CartKey(c, i), row) /\ old.expiry = "later"
        /\ old \in Row /\ c \in EventOnly
    BY <1>1, <1>5, LapseForm, CartKeys DEF EventOnly, LapseItem
  <2>2. row.state = old.state /\ row.quantity = old.quantity
    BY <2>1 DEF Row
  <2> HIDE DEF row
  <2>3. Backing(c, i)'
    BY <2>1, <2>2 DEF Inv, Backing, OneItem, OneRow
  <2>4. AllBacked
    BY <2>1, <2>3, OthersBacked
  <2>5. old.state # "committed"
    BY <2>1, CartKeys DEF Inv, SoldForGood
  <2>6. AllFinal
    BY <1>0, <2>1, <2>2, <2>5 DEF SaleStep, OneRow
  <2> QED
    BY <2>4, <2>6
<1>6. ASSUME NEW c \in Carts, NEW state \in {"released", "committed"}, MoveAll(c, state),
             \A i \in InCart(c) : /\ res[CartKey(c, i)].state \in {"held", "expired"}
                                  /\ state = "committed" => PayableItem(c, i)
      PROVE  AllBacked /\ AllFinal
  <2>1. /\ Emptied(c, state)
        /\ \A i \in InCart(c) : res'[CartKey(c, i)] =
              [res[CartKey(c, i)] EXCEPT !.state = state, !.expiry = "never"]
        /\ \A k \in Keys : k \notin MovedKeys(c) => res'[k] = res[k]
    BY <1>1, <1>6, MoveAllForm
  <2>2. AllBacked
    BY <2>1, EmptiedBacked
  <2>3. ASSUME NEW i \in InCart(c) PROVE SaleStep(CartKey(c, i))
    <3>1. res[CartKey(c, i)] \in Row
      BY <1>1, CartKeys DEF InCart, Lines
    <3>2. res'[CartKey(c, i)].state = state /\ res'[CartKey(c, i)].expiry = "never"
      BY <2>1, <3>1 DEF Row
    <3> QED
      BY <1>6, <3>2 DEF SaleStep, PayableItem
  <2>4. \A k \in Keys : k \notin MovedKeys(c) => SaleStep(k)
    BY <2>1 DEF SaleStep
  <2>5. \A k \in MovedKeys(c) : SaleStep(k)
    BY <2>3 DEF MovedKeys
  <2> QED
    BY <1>0, <2>2, <2>4, <2>5
<1>7. ASSUME NEW c \in Carts, ReleaseCart(c) \/ CommitCart(c) PROVE AllBacked /\ AllFinal
  BY <1>6, <1>7 DEF ReleaseCart, CommitCart, ReleasableItem, PayableItem
<1>8. ASSUME NEW c \in Mixed, PlainCall(c) PROVE AllBacked /\ AllFinal
  <2>1. ASSUME NEW d \in EventOnly, NEW j \in Items
        PROVE  carts'[d] = carts[d] /\ res'[CartKey(d, j)] = res[CartKey(d, j)]
    BY <1>1, <1>8, <2>1, PlainForm, PlainElsewhere DEF EventOnly
  <2>2. AllBacked
    BY <2>1 DEF Inv, Backing
  <2> QED
    BY <2>1, <2>2 DEF SaleStep
<1>9. CASE Background
  <2>1. /\ UNCHANGED carts
        /\ \A k \in Keys :
             \/ res'[k] = res[k]
             \/ /\ res[k].state = "held" /\ res[k].expiry = "due"
                /\ res'[k] = [res[k] EXCEPT !.state = "expired", !.expiry = "never"]
    BY <1>1, <1>9, BackgroundForm DEF cartVars
  <2>2. \A k \in Keys :
          \/ res'[k] = res[k]
          \/ /\ res[k].state = "held" /\ res[k].expiry = "due"
             /\ res'[k].state = "expired" /\ res'[k].quantity = res[k].quantity
    BY <1>1, <2>1 DEF Row
  <2>3. AllBacked
    <3> SUFFICES ASSUME NEW c \in EventOnly, NEW i \in Items PROVE Backing(c, i)'
      OBVIOUS
    <3> DEFINE k == CartKey(c, i)
    <3>1. k \in Keys /\ Backing(c, i)
      BY <1>0 DEF Inv
    <3>2. CASE res'[k] = res[k]
      BY <2>1, <3>1, <3>2 DEF Backing
    <3>3. CASE /\ res[k].state = "held" /\ res[k].expiry = "due"
               /\ res'[k].state = "expired" /\ res'[k].quantity = res[k].quantity
      BY <2>1, <3>1, <3>3 DEF Backing
    <3> QED
      BY <2>2, <3>1, <3>2, <3>3
  <2> QED
    BY <1>0, <2>2, <2>3 DEF SaleStep
<1>10. \/ UNCHANGED <<carts, res>> \/ Background
       \/ \E c \in Carts, i \in Items :
            \/ \E q \in 1..MaxUnits, r \in Requests : Hold(c, i, q, r)
            \/ \E n \in 0..MaxUnits : SetQuantity(c, i, n)
            \/ LapseItem(c, i)
       \/ \E c \in Carts : ReleaseCart(c) \/ CommitCart(c)
       \/ \E c \in Mixed : PlainCall(c)
  <2>1. SellerEdits => UNCHANGED res
    BY DEF SellerEdits, StockAdjust, Register, stockVars
  <2> QED
    BY <2>1 DEF Next, vars, Quote, stockVars, cartVars
<1> QED
  BY <1>2, <1>3, <1>4, <1>5, <1>7, <1>8, <1>9, <1>10

(***************************************************************************)
(* The invariant holds throughout.                                         *)
(***************************************************************************)
LEMMA InvAlways == Spec => []Inv
<1>1. Init /\ TypeOK => Inv
  <2> SUFFICES ASSUME Init, TypeOK PROVE Inv
    OBVIOUS
  <2>1. \A c \in EventOnly, i \in Items : c \in Carts /\ CartKey(c, i) \in Keys
    BY CartKeys DEF EventOnly
  <2> QED
    BY <2>1 DEF Init, StockInit, Inv, Backing, SoldForGood, EmptyCart, NoRow
<1>2. Inv /\ TypeOK' /\ [Next]_vars => Inv'
  <2> SUFFICES ASSUME Inv, TypeOK', [Next]_vars PROVE Inv'
    OBVIOUS
  <2>1. SoldForGood'
    BY BackedStep DEF Inv, SoldForGood, SaleStep
  <2> QED
    BY <2>1, BackedStep DEF Inv
<1> QED
  BY <1>1, <1>2, CartTypeCorrect, PTL DEF Spec

(***************************************************************************)
(* Every unit an event-only cart shows is backed by a reservation of the   *)
(* same size, and none shows a live hold that the sweep gave away, for     *)
(* every interleaving with the plain calls to the other carts.             *)
(***************************************************************************)
THEOREM CartItemsBacked == Spec => []ItemsBacked
<1>1. Inv => ItemsBacked
  BY DEF Inv, Backing, ItemsBacked, InCart, Lines
<1> QED
  BY <1>1, InvAlways, PTL

(***************************************************************************)
(* A reservation an event-only cart sold is never touched again, and only  *)
(* a hold that had not expired is sold, for every interleaving with plain  *)
(* calls, whose reserves, releases and commits go to the same ledger.      *)
(***************************************************************************)
THEOREM CartSalesFinal == Spec => SalesAreFinal
<1> DEFINE Final ==
      \A k \in {CartKey(c, i) : c \in EventOnly, i \in Items} :
         /\ res[k].state = "committed" => res'[k] = res[k]
         /\ res'[k].state = "committed" /\ res[k].state # "committed"
              => res[k].state = "held" /\ res[k].expiry # "due"
<1>1. Inv /\ [Next]_vars => [Final]_vars
  BY BackedStep DEF SaleStep
<1> QED
  BY <1>1, InvAlways, PTL DEF Spec, SalesAreFinal

(***************************************************************************)
(* commitEventCart takes the whole cart: every item an event-only cart     *)
(* showed the buyer is sold in the quantity the buyer saw.                 *)
(***************************************************************************)
THEOREM CartCommitsWhole == Spec => CommitTakesWholeCart
<1> DEFINE Whole ==
      \A c \in EventOnly :
         carts[c].terminal # "committed" /\ carts'[c].terminal = "committed"
         => \A i \in InCart(c) :
               /\ res'[CartKey(c, i)].state = "committed"
               /\ res'[CartKey(c, i)].quantity = carts[c].items[i]
<1>1. TypeOK /\ [Next]_vars => [Whole]_vars
  <2> SUFFICES ASSUME TypeOK, [Next]_vars, NEW c \in EventOnly,
                      carts[c].terminal # "committed", carts'[c].terminal = "committed"
               PROVE  \A i \in InCart(c) :
                         /\ res'[CartKey(c, i)].state = "committed"
                         /\ res'[CartKey(c, i)].quantity = carts[c].items[i]
    OBVIOUS
  <2>0. c \in Carts /\ c \notin Mixed
    BY DEF EventOnly
  <2>1. CommitCart(c)
    <3>1. ASSUME NEW d \in Carts, NEW i \in Items,
                 \/ \E q \in 1..MaxUnits, r \in Requests : Hold(d, i, q, r)
                 \/ \E n \in 0..MaxUnits : SetQuantity(d, i, n)
                 \/ LapseItem(d, i)
          PROVE  FALSE
      BY <2>0, <3>1, HoldForm, SetQuantityForm, LapseForm
    <3>2. ASSUME NEW d \in Carts, ReleaseCart(d) PROVE FALSE
      BY <2>0, <3>2, MoveAllForm DEF ReleaseCart, Emptied
    <3>3. ASSUME NEW d \in Mixed, PlainCall(d) PROVE FALSE
      BY <2>0, <3>3, PlainForm DEF PlainWrites
    <3>4. ASSUME NEW d \in Carts, CommitCart(d) PROVE d = c
      BY <2>0, <3>4, MoveAllForm DEF CommitCart, Emptied
    <3>5. UNCHANGED carts => FALSE
      OBVIOUS
    <3> QED
      BY <3>1, <3>2, <3>3, <3>4, <3>5 DEF Next, vars, cartVars, Quote, Background
  <2>2. SUFFICES ASSUME NEW i \in InCart(c)
                 PROVE  /\ res'[CartKey(c, i)].state = "committed"
                        /\ res'[CartKey(c, i)].quantity = carts[c].items[i]
    OBVIOUS
  <2>3. res[CartKey(c, i)] \in Row
    BY <2>0, CartKeys DEF InCart, Lines, TypeOK, StockTypeOK
  <2>4. res'[CartKey(c, i)] = [res[CartKey(c, i)] EXCEPT !.state = "committed", !.expiry = "never"]
    BY <2>0, <2>1, MoveAllForm DEF CommitCart
  <2> QED
    BY <2>1, <2>3, <2>4 DEF CommitCart, PayableItem, Row
<1> QED
  BY <1>1, CartTypeCorrect, PTL DEF Spec, CommitTakesWholeCart

-----------------------------------------------------------------------------
(* Units are in the lineup, in a cart, or sold.                            *)

\* Units of item i in each cart, and sold to each cart.
Shown(rows, i) == [c \in Carts |-> rows[c].items[i]]
Sold(rows, i) == [c \in Carts |-> IF rows[CartKey(c, i)].state = "committed"
                                  THEN rows[CartKey(c, i)].quantity ELSE 0]

LEMMA ShownUnits ==
    ASSUME NEW rows \in [Carts -> CartRow], NEW i \in Items
    PROVE  /\ {u \in Carts \X (1..MaxUnits) : u[2] <= rows[u[1]].items[i]}
              = Spread(Carts, Shown(rows, i))
           /\ \A c \in Carts : Shown(rows, i)[c] \in 0..MaxUnits
  BY DEF Shown, Spread, CartRow

LEMMA SoldOnes ==
    ASSUME NEW rows \in [Keys -> Row], NEW i \in Items
    PROVE  /\ {u \in Carts \X (1..MaxUnits) :
                  rows[CartKey(u[1], i)].state = "committed"
                  /\ u[2] <= rows[CartKey(u[1], i)].quantity}
              = Spread(Carts, Sold(rows, i))
           /\ \A c \in Carts : Sold(rows, i)[c] \in 0..MaxUnits
<1>1. \A c \in Carts : rows[CartKey(c, i)] \in Row
  BY CartKeys
<1>2. \A c \in Carts : rows[CartKey(c, i)].quantity \in 0..MaxUnits
  BY <1>1 DEF Row
<1>3. \A c \in Carts : Sold(rows, i)[c] \in 0..MaxUnits
  BY <1>2, MaxUnitsAssumption DEF Sold
<1>4. \A u \in Carts \X (1..MaxUnits) : u[2] <= Sold(rows, i)[u[1]] <=>
         /\ rows[CartKey(u[1], i)].state = "committed"
         /\ u[2] <= rows[CartKey(u[1], i)].quantity
  BY MaxUnitsAssumption DEF Sold
<1> QED
  BY <1>3, <1>4 DEF Spread

(***************************************************************************)
(* There are finitely many carts, as each has its own reservation of an    *)
(* item.                                                                   *)
(***************************************************************************)
LEMMA CartsFinite ==
    ASSUME NEW i \in Items
    PROVE  IsFiniteSet(Carts)
<1> DEFINE f == [c \in Carts |-> CartKey(c, i)]
<1>1. f \in [Carts -> Keys]
  BY CartKeys
<1>2. \A c, d \in Carts : f[c] = f[d] => c = d
  BY DEF CartKey
<1>3. f \in Injection(Carts, Keys)
  BY <1>1, <1>2 DEF Injection, IsInjective
<1> QED
  BY <1>3, FS_Injection, KeysAssumption

\* One step keeps the units of an item in the lineup, in a cart, or sold.
KeepsUnits(i) ==
    /\ lineup'[i].listed = lineup[i].listed
    /\ lineup'[i].current + Cardinality(CartUnits(i)') + Cardinality(SoldUnits(i)')
       = lineup[i].current + Cardinality(CartUnits(i)) + Cardinality(SoldUnits(i))

(***************************************************************************)
(* A transaction on one cart keeps the units of an item when the lineup,   *)
(* that cart and what it bought add up as before.                          *)
(***************************************************************************)
LEMMA OneCartKeepsUnits ==
    ASSUME TypeOK, TypeOK', NEW c \in Carts, NEW i \in Items,
           \A d \in Carts \ {c} : /\ carts'[d].items[i] = carts[d].items[i]
                                  /\ res'[CartKey(d, i)] = res[CartKey(d, i)],
           lineup'[i].listed = lineup[i].listed,
           lineup'[i].current + carts'[c].items[i] + Sold(res', i)[c]
           = lineup[i].current + carts[c].items[i] + Sold(res, i)[c]
    PROVE  KeepsUnits(i)
<1>1. PICK f, g, h, k : /\ f = Shown(carts, i) /\ g = Shown(carts', i)
                        /\ h = Sold(res, i) /\ k = Sold(res', i)
  OBVIOUS
<1>2. /\ CartUnits(i) = Spread(Carts, f) /\ f[c] \in 0..MaxUnits
      /\ CartUnits(i)' = Spread(Carts, g) /\ g[c] \in 0..MaxUnits
  BY <1>1, ShownUnits DEF TypeOK, CartUnits
<1>3. /\ SoldUnits(i) = Spread(Carts, h) /\ h[c] \in 0..MaxUnits
      /\ SoldUnits(i)' = Spread(Carts, k) /\ k[c] \in 0..MaxUnits
  BY <1>1, SoldOnes DEF TypeOK, StockTypeOK, SoldUnits
<1>4. f[c] = carts[c].items[i] /\ g[c] = carts'[c].items[i]
  BY <1>1 DEF Shown
<1>5. \A d \in Carts \ {c} : g[d] = f[d] /\ k[d] = h[d]
  BY <1>1 DEF Shown, Sold
<1>6. IsFiniteSet(Carts)
  BY CartsFinite
<1>7. /\ Cardinality(Spread(Carts, g)) = Cardinality(Spread(Carts, f)) + g[c] - f[c]
      /\ Cardinality(Spread(Carts, k)) = Cardinality(Spread(Carts, h)) + k[c] - h[c]
      /\ Cardinality(Spread(Carts, f)) \in Nat /\ Cardinality(Spread(Carts, h)) \in Nat
  <2>1. Cardinality(Spread(Carts, g)) = Cardinality(Spread(Carts, f)) + g[c] - f[c]
    BY <1>2, <1>5, <1>6, SpreadMoves
  <2>2. Cardinality(Spread(Carts, k)) = Cardinality(Spread(Carts, h)) + k[c] - h[c]
    BY <1>3, <1>5, <1>6, SpreadMoves
  <2>3. Cardinality(Spread(Carts, f)) \in Nat /\ Cardinality(Spread(Carts, h)) \in Nat
    BY <1>6, SpreadFinite
  <2> QED
    BY <2>1, <2>2, <2>3
<1>8. lineup[i].current \in Int /\ lineup'[i].current \in Int
  BY MaxUnitsAssumption DEF TypeOK, LineupRow
<1>9. lineup'[i].current + g[c] + k[c] = lineup[i].current + f[c] + h[c]
  BY <1>1, <1>4
<1> QED
  BY <1>2, <1>3, <1>7, <1>8, <1>9, MaxUnitsAssumption DEF KeepsUnits

(***************************************************************************)
(* A step keeps the units when neither quantities nor sales change.        *)
(***************************************************************************)
LEMMA StillKeepsUnits ==
    ASSUME NEW i \in Items, UNCHANGED lineup,
           \A c \in Carts :
              /\ carts'[c].items[i] = carts[c].items[i]
              /\ res'[CartKey(c, i)].state = "committed" <=> res[CartKey(c, i)].state = "committed"
              /\ res'[CartKey(c, i)].quantity = res[CartKey(c, i)].quantity
    PROVE  KeepsUnits(i)
<1>1. CartUnits(i)' = CartUnits(i) /\ SoldUnits(i)' = SoldUnits(i)
  BY DEF CartUnits, SoldUnits
<1> QED
  BY <1>1 DEF KeepsUnits

LEMMA ConservedStep ==
    ASSUME Inv, TypeOK', [Next]_vars, ~ SellerEdits, Mixed = {}, NEW j \in Items
    PROVE  KeepsUnits(j)
<1>1. /\ TypeOK /\ res \in [Keys -> Row] /\ carts \in [Carts -> CartRow]
      /\ lineup \in [Items -> LineupRow]
      /\ lineup[j] \in LineupRow /\ lineup[j].current \in Nat
  BY MaxUnitsAssumption DEF Inv, TypeOK, StockTypeOK, LineupRow
<1>2. \A c \in Carts : /\ carts[c].items[j] \in Nat
                       /\ res[CartKey(c, j)] \in Row
                       /\ CartKey(c, j) \in Keys
  BY <1>1, CartKeys, MaxUnitsAssumption DEF CartRow
<1>3. ASSUME NEW c \in Carts, NEW i \in Items, NEW n, NEW mark, NEW row, NEW taken \in Int,
             OneItem(c, i, n, mark), OneRow(CartKey(c, i), row),
             lineup' = [lineup EXCEPT ![i].current = @ - taken],
             n = carts[c].items[i] + taken,
             res[CartKey(c, i)].state # "committed", row.state # "committed"
      PROVE  KeepsUnits(j)
  <2>1. \A d \in Carts \ {c} : /\ carts'[d].items[j] = carts[d].items[j]
                               /\ res'[CartKey(d, j)] = res[CartKey(d, j)]
    BY <1>3, CartKeys DEF OneItem, OneRow
  <2>2. lineup'[j].listed = lineup[j].listed
    BY <1>1, <1>3 DEF LineupRow
  <2>3. CASE j # i
    <3>1. carts'[c].items[j] = carts[c].items[j] /\ res'[CartKey(c, j)] = res[CartKey(c, j)]
      BY <1>3, <2>3, CartKeys DEF OneItem, OneRow
    <3>2. lineup'[j] = lineup[j] /\ Sold(res', j)[c] = Sold(res, j)[c]
      BY <1>1, <1>3, <2>3, <3>1 DEF Sold
    <3> QED
      BY <1>1, <2>1, <2>2, <3>1, <3>2, OneCartKeepsUnits
  <2>4. CASE j = i
    <3>1. Sold(res', j)[c] = 0 /\ Sold(res, j)[c] = 0
      BY <1>3, <2>4 DEF Sold, OneRow
    <3>2. lineup'[j].current = lineup[j].current - taken
      BY <1>1, <1>3, <2>4 DEF LineupRow
    <3>3. carts'[c].items[j] = carts[c].items[j] + taken
      BY <1>3, <2>4 DEF OneItem
    <3>4. lineup'[j].current + carts'[c].items[j] + Sold(res', j)[c]
          = lineup[j].current + carts[c].items[j] + Sold(res, j)[c]
      BY <1>1, <1>2, <1>3, <3>1, <3>2, <3>3
    <3> QED
      BY <1>1, <2>1, <2>2, <3>4, OneCartKeepsUnits
  <2> QED
    BY <2>3, <2>4
<1>4. ASSUME NEW c \in Carts, NEW i \in Items, NEW q \in 1..MaxUnits, NEW r \in Requests,
             Hold(c, i, q, r)
      PROVE  KeepsUnits(j)
  <2> DEFINE next == carts[c].items[i] + q
             row == [quantity |-> next, state |-> "held", expiry |-> "later"]
  <2>1. /\ OneItem(c, i, next, FALSE) /\ OneRow(CartKey(c, i), row)
        /\ res[CartKey(c, i)].state # "committed"
    BY <1>1, <1>4, HoldForm
  <2>2. row.state # "committed" /\ q \in Int
    BY MaxUnitsAssumption
  <2>3. lineup' = [lineup EXCEPT ![i].current = @ - q]
    BY <1>4 DEF Hold, TakeAllocation
  <2>4. next = carts[c].items[i] + q
    OBVIOUS
  <2> HIDE DEF next, row
  <2> QED
    BY <1>3, <2>1, <2>2, <2>3, <2>4
<1>5. ASSUME NEW c \in Carts, NEW i \in Items, NEW n \in 0..MaxUnits, SetQuantity(c, i, n)
      PROVE  KeepsUnits(j)
  <2> DEFINE old == res[CartKey(c, i)]
             row == AdjustedRow(old, n)
             mark == IF n = 0 THEN FALSE ELSE carts[c].lapsed[i]
             delta == n - carts[c].items[i]
  <2>1. /\ OneItem(c, i, n, mark) /\ OneRow(CartKey(c, i), row)
        /\ old.state \in {"held", "expired"} /\ old \in Row
    BY <1>1, <1>5, SetQuantityForm, CartKeys
  <2>2. row.state # "committed"
    BY <2>1 DEF AdjustedRow, Row
  <2>3. delta \in Int /\ n = carts[c].items[i] + delta
    BY <1>1, MaxUnitsAssumption DEF CartRow
  <2>4. lineup' = [lineup EXCEPT ![i].current = @ - delta]
    BY <1>5 DEF SetQuantity
  <2> HIDE DEF row, mark, delta
  <2> QED
    BY <1>3, <2>1, <2>2, <2>3, <2>4
<1>6. ASSUME NEW c \in Carts, NEW i \in Items, LapseItem(c, i) PROVE KeepsUnits(j)
  <2> DEFINE old == res[CartKey(c, i)]
             row == [old EXCEPT !.expiry = "due"]
  <2>1. /\ OneItem(c, i, carts[c].items[i], carts[c].items[i] > 0)
        /\ OneRow(CartKey(c, i), row) /\ old \in Row
        /\ UNCHANGED lineup
    BY <1>1, <1>6, LapseForm, CartKeys DEF LapseItem
  <2>2. row.state = old.state /\ row.quantity = old.quantity
    BY <2>1 DEF Row
  <2> HIDE DEF row
  <2>3. \A d \in Carts : /\ carts'[d].items[j] = carts[d].items[j]
                         /\ res'[CartKey(d, j)].state = res[CartKey(d, j)].state
                         /\ res'[CartKey(d, j)].quantity = res[CartKey(d, j)].quantity
    BY <2>1, <2>2, CartKeys DEF OneItem, OneRow
  <2> QED
    BY <2>1, <2>3, StillKeepsUnits
<1>7. ASSUME NEW c \in Carts, NEW state \in {"released", "committed"}, MoveAll(c, state),
             lineup'[j].listed = lineup[j].listed,
             lineup'[j].current = IF state = "released" THEN lineup[j].current + carts[c].items[j]
                                                        ELSE lineup[j].current
      PROVE  KeepsUnits(j)
  <2>1. /\ Emptied(c, state)
        /\ \A i \in InCart(c) : res'[CartKey(c, i)] =
              [res[CartKey(c, i)] EXCEPT !.state = state, !.expiry = "never"]
        /\ \A k \in Keys : k \notin MovedKeys(c) => res'[k] = res[k]
    BY <1>1, <1>7, MoveAllForm
  <2>2. \A d \in Carts \ {c} : CartKey(d, j) \notin MovedKeys(c)
    BY CartKeys DEF MovedKeys, InCart, Lines
  <2>3. \A d \in Carts \ {c} : /\ carts'[d].items[j] = carts[d].items[j]
                               /\ res'[CartKey(d, j)] = res[CartKey(d, j)]
    BY <1>2, <2>1, <2>2 DEF Emptied
  <2>4. carts'[c].items[j] = 0
    BY <2>1 DEF Emptied
  <2>5. CASE j \in InCart(c)
    <3>1. /\ res'[CartKey(c, j)].state = state
          /\ res'[CartKey(c, j)].quantity = res[CartKey(c, j)].quantity
      BY <1>2, <2>1, <2>5 DEF Row
    <3>2. /\ res[CartKey(c, j)].state # "committed"
          /\ res[CartKey(c, j)].quantity = carts[c].items[j]
      BY <2>5 DEF InCart, Lines, Inv, Backing, EventOnly
    <3>3. /\ Sold(res, j)[c] = 0
          /\ Sold(res', j)[c] = IF state = "released" THEN 0 ELSE carts[c].items[j]
      BY <3>1, <3>2 DEF Sold
    <3>4. lineup'[j].current + carts'[c].items[j] + Sold(res', j)[c]
          = lineup[j].current + carts[c].items[j] + Sold(res, j)[c]
      BY <1>1, <1>2, <1>7, <2>4, <3>3
    <3> QED
      BY <1>1, <1>7, <2>3, <3>4, OneCartKeepsUnits
  <2>6. CASE j \notin InCart(c)
    <3>1. carts[c].items[j] = 0
      <4>1. InCart(c) = Lines(carts[c])
        BY <1>7 DEF InCart, MoveAll
      <4>2. carts[c].items[j] > 0 => j \in InCart(c)
        BY <4>1 DEF Lines
      <4> QED
        BY <1>2, <2>6, <4>2
    <3>2. CartKey(c, j) \notin MovedKeys(c)
      BY <2>6, CartKeys DEF MovedKeys, InCart, Lines
    <3>3. Sold(res', j)[c] = Sold(res, j)[c]
      BY <1>2, <2>1, <3>2 DEF Sold
    <3>4. lineup'[j].current = lineup[j].current
      BY <1>1, <1>7, <3>1
    <3> QED
      BY <1>1, <1>7, <2>3, <2>4, <3>1, <3>3, <3>4, OneCartKeepsUnits
  <2> QED
    BY <2>5, <2>6
<1>8. ASSUME NEW c \in Carts, ReleaseCart(c) \/ CommitCart(c) PROVE KeepsUnits(j)
  <2>1. CASE ReleaseCart(c)
    <3>1. /\ MoveAll(c, "released")
          /\ lineup' = [i \in Items |-> [lineup[i] EXCEPT !.current = @ + carts[c].items[i]]]
      BY <2>1 DEF ReleaseCart
    <3>2. /\ lineup'[j].listed = lineup[j].listed
          /\ lineup'[j].current = lineup[j].current + carts[c].items[j]
      BY <1>1, <3>1 DEF LineupRow
    <3> QED
      BY <1>7, <3>1, <3>2
  <2>2. CASE CommitCart(c)
    BY <1>7, <2>2 DEF CommitCart
  <2> QED
    BY <1>8, <2>1, <2>2
<1>9. CASE Background
  <2>1. /\ UNCHANGED <<lineup, carts>>
        /\ \A k \in Keys :
             \/ res'[k] = res[k]
             \/ /\ res[k].state = "held"
                /\ res'[k] = [res[k] EXCEPT !.state = "expired", !.expiry = "never"]
    BY <1>1, <1>9, BackgroundForm DEF cartVars
  <2>2. \A k \in Keys : /\ res'[k].state = "committed" <=> res[k].state = "committed"
                        /\ res'[k].quantity = res[k].quantity
    BY <1>1, <2>1 DEF Row
  <2> QED
    BY <1>2, <2>1, <2>2, StillKeepsUnits
<1>10. CASE UNCHANGED <<lineup, carts, res>>
  BY <1>10, StillKeepsUnits
<1>11. \/ UNCHANGED <<lineup, carts, res>> \/ Background
       \/ \E c \in Carts, i \in Items :
            \/ \E q \in 1..MaxUnits, r \in Requests : Hold(c, i, q, r)
            \/ \E n \in 0..MaxUnits : SetQuantity(c, i, n)
            \/ LapseItem(c, i)
       \/ \E c \in Carts : ReleaseCart(c) \/ CommitCart(c)
  BY DEF Next, vars, Quote, stockVars, cartVars
<1> QED
  BY <1>4, <1>5, <1>6, <1>8, <1>9, <1>10, <1>11

(***************************************************************************)
(* While the seller does not edit the lineup, registered as many units as  *)
(* are listed, and no plain call comes to a cart, every listed unit is in  *)
(* the lineup, in one cart, or sold: holds, quantity changes, expiries,    *)
(* cancellations and payments never lose or duplicate one.                 *)
(***************************************************************************)
THEOREM CartUnitsConserved ==
    ASSUME AdjustQuantities = {}, Reregistrations = {}, Mixed = {},
           \A row \in Registrations : row.current = row.listed
    PROVE  Spec => []UnitsConserved
<1>1. Init => UnitsConserved
  <2> SUFFICES ASSUME Init, NEW i \in Items
               PROVE  lineup[i].current + Cardinality(CartUnits(i)) + Cardinality(SoldUnits(i))
                      = lineup[i].listed
    BY DEF UnitsConserved
  <2>1. lineup[i] \in Registrations /\ lineup[i] \in LineupRow
    BY RegistrationsAssumption DEF Init, LineupInit
  <2>2. CartUnits(i) = {}
    BY DEF Init, CartUnits, EmptyCart
  <2>3. SoldUnits(i) = {}
    BY CartKeys DEF Init, StockInit, SoldUnits, NoRow
  <2>4. Cardinality(CartUnits(i)) = 0 /\ Cardinality(SoldUnits(i)) = 0
    BY <2>2, <2>3, FS_EmptySet
  <2> QED
    BY <2>1, <2>4, MaxUnitsAssumption DEF LineupRow
<1>2. Inv /\ TypeOK' /\ UnitsConserved /\ [Next]_vars => UnitsConserved'
  <2> SUFFICES ASSUME Inv, TypeOK', UnitsConserved, [Next]_vars PROVE UnitsConserved'
    OBVIOUS
  <2>1. ~ SellerEdits
    BY DEF SellerEdits
  <2> QED
    BY <2>1, ConservedStep DEF KeepsUnits, UnitsConserved
<1> QED
  BY <1>1, <1>2, CartTypeCorrect, InvAlways, PTL DEF Spec

-----------------------------------------------------------------------------
(* Without lock queues the counter is exact and nothing is oversold.       *)

\* No recompute waits with an old snapshot, and every counter is the sum of its rows.
ExactCounters ==
    /\ \A k \in Keys : queued[k] = NotQueued
    /\ \A v \in Variants : reserved_qty[v] = SumReserved(res, v)

(***************************************************************************)
(* The sum of a variant depends on the units its rows take alone.          *)
(***************************************************************************)
LEMMA SumUnmoved ==
    ASSUME NEW old \in [Keys -> Row], NEW new \in [Keys -> Row], NEW v,
           \A k \in KeysOf(v) : OwnUnits(new[k]) = OwnUnits(old[k])
    PROVE  SumReserved(new, v) = SumReserved(old, v)
<1>1. \A k \in KeysOf(v), n \in 1..MaxUnits :
         (Consumes(new[k]) /\ n <= new[k].quantity) <=> (Consumes(old[k]) /\ n <= old[k].quantity)
  <2> SUFFICES ASSUME NEW k \in KeysOf(v), NEW n \in 1..MaxUnits
               PROVE  (Consumes(new[k]) /\ n <= new[k].quantity)
                      <=> (Consumes(old[k]) /\ n <= old[k].quantity)
    OBVIOUS
  <2>1. new[k].quantity \in 0..MaxUnits /\ old[k].quantity \in 0..MaxUnits
    BY DEF KeysOf, Row
  <2>2. n > 0
    BY MaxUnitsAssumption
  <2> QED
    BY <2>1, <2>2, MaxUnitsAssumption DEF OwnUnits
<1>2. UnitsOf(new, KeysOf(v)) = UnitsOf(old, KeysOf(v))
  BY <1>1 DEF UnitsOf
<1> QED
  BY <1>2 DEF SumReserved

(***************************************************************************)
(* A row written without a queued snapshot leaves its counter exact and    *)
(* moves the sum by the row's own units.                                   *)
(***************************************************************************)
LEMMA FreshWrite ==
    ASSUME StockTypeOK, ExactCounters, NEW k \in Keys, NEW row \in Row, WriteRow(k, row)
    PROVE  /\ ExactCounters'
           /\ SumReserved(res', VariantOf[k])
              = SumReserved(res, VariantOf[k]) + OwnUnits(row) - OwnUnits(res[k])
           /\ \A v \in Variants : v # VariantOf[k] => SumReserved(res', v) = SumReserved(res, v)
<1> DEFINE w == VariantOf[k]
           ks == KeysOf(w) \ {k}
<1>1. /\ res \in [Keys -> Row] /\ reserved_qty \in [Variants -> Nat] /\ w \in Variants
      /\ queued \in [Keys -> Nat \cup {NotQueued}] /\ queued[k] = NotQueued
  BY KeysAssumption DEF StockTypeOK, ExactCounters
<1>2. /\ res' = [res EXCEPT ![k] = row] /\ queued' = [queued EXCEPT ![k] = NotQueued]
      /\ reserved_qty' = [reserved_qty EXCEPT ![w] = SumOfOthers(k) + OwnUnits(row)]
  BY <1>1 DEF WriteRow, TriggeredSum
<1>3. /\ res'[k] = row /\ (\A j \in ks : res'[j] = res[j])
      /\ res' \in [Keys -> Row]
  BY <1>1, <1>2 DEF KeysOf
<1>4. UnitsOf(res', ks) = UnitsOf(res, ks)
  BY <1>3 DEF UnitsOf
<1>5. /\ SumReserved(res', w) = Cardinality(UnitsOf(res', ks)) + OwnUnits(row)
      /\ SumReserved(res, w) = Cardinality(UnitsOf(res, ks)) + OwnUnits(res[k])
  <2>1. SumReserved(res', w) = Cardinality(UnitsOf(res', ks)) + OwnUnits(res'[k])
    BY <1>3, SumSplits
  <2>2. SumReserved(res, w) = Cardinality(UnitsOf(res, ks)) + OwnUnits(res[k])
    BY <1>1, SumSplits
  <2> QED
    BY <1>3, <2>1, <2>2
<1>6. /\ Cardinality(UnitsOf(res, ks)) \in Nat
      /\ OwnUnits(row) \in Int /\ OwnUnits(res[k]) \in Int
  <2>1. ks \in SUBSET Keys
    BY DEF KeysOf
  <2>2. Cardinality(UnitsOf(res, ks)) \in Nat
    BY <2>1, UnitsFinite
  <2>3. row.quantity \in Int /\ res[k].quantity \in Int
    BY <1>1, MaxUnitsAssumption DEF Row
  <2> QED
    BY <2>2, <2>3 DEF OwnUnits
<1>7. SumReserved(res', w) = SumReserved(res, w) + OwnUnits(row) - OwnUnits(res[k])
  BY <1>4, <1>5, <1>6
<1>8. reserved_qty'[w] = SumReserved(res', w)
  BY <1>1, <1>2, <1>4, <1>5 DEF SumOfOthers
<1>9. ASSUME NEW v \in Variants, v # w
      PROVE  SumReserved(res', v) = SumReserved(res, v) /\ reserved_qty'[v] = reserved_qty[v]
  <2>1. \A j \in KeysOf(v) : res'[j] = res[j]
    BY <1>1, <1>2, <1>9 DEF KeysOf
  <2>2. \A j \in KeysOf(v) : OwnUnits(res'[j]) = OwnUnits(res[j])
    BY <2>1
  <2>3. SumReserved(res', v) = SumReserved(res, v)
    BY <1>1, <1>3, <2>2, SumUnmoved
  <2>4. reserved_qty'[v] = reserved_qty[v]
    BY <1>1, <1>2, <1>9
  <2> QED
    BY <2>3, <2>4
<1>10. ExactCounters'
  BY <1>1, <1>2, <1>8, <1>9 DEF ExactCounters
<1> QED
  BY <1>7, <1>9, <1>10

(***************************************************************************)
(* The sweep leaves every counter exact when no recompute was queued.      *)
(***************************************************************************)
LEMMA FreshSweep ==
    ASSUME StockTypeOK, StockTypeOK', ExactCounters, ExpireSweep
    PROVE  ExactCounters'
<1>1. /\ res \in [Keys -> Row] /\ res' \in [Keys -> Row] /\ res' = Swept(res, DueKeys)
      /\ reserved_qty' = [v \in Variants |-> SweptCounter(v)]
      /\ queued' = SweptQueue
  BY DEF StockTypeOK, ExpireSweep
<1>2. \A k \in Keys : queued'[k] = NotQueued
  BY <1>1 DEF SweptQueue, ExactCounters
<1>3. \A k \in Keys : /\ k \notin DueKeys => res'[k] = res[k]
                      /\ k \in DueKeys => ~ Consumes(res'[k])
  BY <1>1 DEF Swept, Consumes, Row
<1>4. ASSUME NEW v \in Variants PROVE SweptCounter(v) = SumReserved(res', v)
  <2> DEFINE due == DueKeys \cap KeysOf(v)
  <2>1. CASE due = {}
    <3>1. \A k \in KeysOf(v) : OwnUnits(res'[k]) = OwnUnits(res[k])
      BY <1>3, <2>1 DEF KeysOf
    <3>2. SumReserved(res', v) = SumReserved(res, v)
      BY <1>1, <3>1, SumUnmoved
    <3> QED
      BY <2>1, <3>2 DEF SweptCounter, ExactCounters
  <2>2. CASE due # {} /\ Cardinality(due) # 1
    BY <1>1, <2>2 DEF SweptCounter, SweepSum
  <2>3. CASE due # {} /\ Cardinality(due) = 1
    <3>1. IsFiniteSet(due)
      BY KeysAssumption, FS_Subset DEF DueKeys
    <3>2. PICK k : due = {k}
      BY <2>3, <3>1, FS_Singleton
    <3>3. k = CHOOSE d \in due : TRUE
      BY <3>2
    <3>4. k \in Keys /\ VariantOf[k] = v /\ k \in DueKeys
      BY <3>2 DEF KeysOf
    <3>5. Swept(res, due)[k] = res'[k]
      BY <1>1, <3>2, <3>4 DEF Swept
    <3>6. SweptCounter(v) = TriggeredSum(k, res'[k])
      BY <2>3, <3>3, <3>5 DEF SweptCounter, SweepSum
    <3>7. SweptCounter(v) = SumOfOthers(k) + OwnUnits(res'[k])
      BY <3>4, <3>6 DEF TriggeredSum, ExactCounters
    <3>8. \A j \in KeysOf(v) \ {k} : res'[j] = res[j]
      BY <1>3, <3>2 DEF KeysOf
    <3>9. UnitsOf(res', KeysOf(v) \ {k}) = UnitsOf(res, KeysOf(v) \ {k})
      BY <3>8 DEF UnitsOf
    <3>10. SumReserved(res', v) = Cardinality(UnitsOf(res', KeysOf(v) \ {k})) + OwnUnits(res'[k])
      BY <1>1, <3>4, SumSplits
    <3> QED
      BY <3>4, <3>7, <3>9, <3>10 DEF SumOfOthers
  <2> QED
    BY <2>1, <2>2, <2>3
<1> QED
  BY <1>1, <1>2, <1>4 DEF ExactCounters

\* Units a cart's transaction may add to its row: within what the counter leaves.
LEMMA FreshWriteWithin ==
    ASSUME StockTypeOK, StockTypeOK', ExactCounters, NoOversell, NEW c \in Carts, NEW i \in Items,
           NEW row \in Row, WriteLocked(c, i, row),
           \/ OwnUnits(row) <= OwnUnits(res[CartKey(c, i)])
           \/ OwnUnits(row) - OwnUnits(res[CartKey(c, i)]) <= Available(i)
    PROVE  ExactCounters' /\ NoOversell'
<1> DEFINE k == CartKey(c, i)
           w == ProductOf[i]
<1>1. k \in Keys /\ VariantOf[k] = w /\ w \in Variants /\ WriteRow(k, row) /\ qty' = qty
  BY CartKeys DEF WriteLocked
<1>2. /\ ExactCounters'
      /\ SumReserved(res', w) = SumReserved(res, w) + OwnUnits(row) - OwnUnits(res[k])
      /\ \A v \in Variants : v # w => SumReserved(res', v) = SumReserved(res, v)
  BY <1>1, FreshWrite
<1>3. /\ SumReserved(res, w) \in Nat /\ SumReserved(res', w) \in Nat /\ qty[w] \in Nat
      /\ SumReserved(res, w) <= qty[w] /\ reserved_qty[w] = SumReserved(res, w)
  BY <1>1, SumType, MaxUnitsAssumption DEF StockTypeOK, NoOversell, ExactCounters
<1>4. OwnUnits(row) \in Int /\ OwnUnits(res[k]) \in Int
  <2>1. row.quantity \in Int /\ res[k].quantity \in Int
    BY <1>1, MaxUnitsAssumption DEF StockTypeOK, Row
  <2> QED
    BY <2>1 DEF OwnUnits
<1>5. Available(i) = qty[w] - SumReserved(res, w)
  BY <1>3 DEF Available, AvailableQty
<1>6. SumReserved(res', w) <= qty[w]
  BY <1>2, <1>3, <1>4, <1>5
<1> QED
  BY <1>1, <1>2, <1>6 DEF NoOversell

LEMMA WithinStep ==
    ASSUME Inv, TypeOK', ExactCounters, NoOversell, [Next]_vars,
           \A k \in Keys : ~ QueueRecompute(k)
    PROVE  ExactCounters' /\ NoOversell'
<1>1. /\ TypeOK /\ StockTypeOK /\ StockTypeOK' /\ res \in [Keys -> Row] /\ res' \in [Keys -> Row]
      /\ carts \in [Carts -> CartRow]
  BY DEF Inv, TypeOK, StockTypeOK
<1>2. ASSUME UNCHANGED <<qty, reserved_qty, res, queued>>
      PROVE  ExactCounters' /\ NoOversell'
  BY <1>2 DEF ExactCounters, NoOversell
<1>3. ASSUME UNCHANGED qty, ExactCounters',
             \A k \in Keys : Consumes(res'[k]) => Consumes(res[k]) /\ res'[k].quantity = res[k].quantity
      PROVE  ExactCounters' /\ NoOversell'
  <2>1. ASSUME NEW v \in Variants PROVE SumReserved(res', v) <= qty'[v]
    <3>1. SumReserved(res', v) <= SumReserved(res, v)
      BY <1>3, SumMonotone
    <3>2. /\ SumReserved(res, v) \in Nat /\ SumReserved(res', v) \in Nat /\ qty[v] \in Int
          /\ SumReserved(res, v) <= qty[v]
      BY <1>1, SumType, MaxUnitsAssumption DEF StockTypeOK, NoOversell
    <3> QED
      BY <1>3, <3>1, <3>2
  <2> QED
    BY <1>3, <2>1 DEF NoOversell
<1>4. ASSUME NEW c \in Carts, NEW i \in Items, NEW q \in 1..MaxUnits, NEW r \in Requests,
             Hold(c, i, q, r)
      PROVE  ExactCounters' /\ NoOversell'
  <2> DEFINE old == res[CartKey(c, i)]
             next == carts[c].items[i] + q
             row == [quantity |-> next, state |-> "held", expiry |-> "later"]
  <2>1. next \in 1..MaxUnits /\ next \in 0..MaxUnits /\ old.state # "committed"
    <3>1. TypeOK
      BY <1>1
    <3>2. next \in 1..MaxUnits /\ old.state # "committed"
      BY <1>4, <3>1, HoldForm
    <3> QED
      BY <3>2, MaxUnitsAssumption
  <2>2. /\ next - (IF old.state = "held" THEN old.quantity ELSE 0) <= Available(i)
        /\ WriteLocked(c, i, row)
    BY <1>4 DEF Hold
  <2> HIDE DEF next
  <2>3. row \in Row /\ OwnUnits(row) = next
    BY <2>1 DEF Row, OwnUnits, Consumes
  <2>4. OwnUnits(old) = IF old.state = "held" THEN old.quantity ELSE 0
    BY <2>1 DEF OwnUnits, Consumes
  <2> HIDE DEF row
  <2> QED
    BY <1>1, <2>2, <2>3, <2>4, FreshWriteWithin
<1>5. ASSUME NEW c \in Carts, NEW i \in Items, NEW n \in 0..MaxUnits, SetQuantity(c, i, n)
      PROVE  ExactCounters' /\ NoOversell'
  <2> DEFINE old == res[CartKey(c, i)]
             row == AdjustedRow(old, n)
             delta == n - carts[c].items[i]
  <2>1. /\ old \in Row /\ old.quantity = carts[c].items[i]
        /\ old.state \in {"held", "expired"}
        /\ n > 0 => old.state = "held"
        /\ carts[c].items[i] \in 0..MaxUnits
    <3>1. TypeOK
      BY <1>1
    <3>2. /\ old.quantity = carts[c].items[i]
          /\ old.state \in {"held", "expired"}
          /\ n > 0 => old.state = "held"
      BY <1>5, <3>1, SetQuantityForm
    <3>3. CartKey(c, i) \in Keys
      BY CartKeys
    <3>4. old \in Row /\ carts[c].items[i] \in 0..MaxUnits
      BY <1>1, <3>3 DEF CartRow
    <3> QED
      BY <3>2, <3>4
  <2>2. WriteLocked(c, i, row) /\ (delta > 0 => delta <= Available(i))
    BY <1>5 DEF SetQuantity, RoomForDelta
  <2>3. row \in Row /\ OwnUnits(row) = n
    <3>1. CASE n = 0
      BY <2>1, <3>1 DEF AdjustedRow, Row, OwnUnits, Consumes
    <3>2. CASE n # 0
      BY <2>1, <3>2, MaxUnitsAssumption DEF AdjustedRow, Row, OwnUnits, Consumes
    <3> QED
      BY <3>1, <3>2
  <2>4. /\ n > 0 => OwnUnits(old) = carts[c].items[i]
        /\ OwnUnits(old) \in {0, carts[c].items[i]}
    BY <2>1 DEF OwnUnits, Consumes
  <2>5. \/ OwnUnits(row) <= OwnUnits(old)
        \/ OwnUnits(row) - OwnUnits(old) <= Available(i)
    <3>1. CASE n = 0
      BY <2>1, <2>3, <2>4, <3>1, MaxUnitsAssumption
    <3>2. CASE n > 0 /\ n <= carts[c].items[i]
      BY <2>3, <2>4, <3>2
    <3>3. CASE n > carts[c].items[i]
      BY <2>1, <2>2, <2>3, <2>4, <3>3, MaxUnitsAssumption
    <3> QED
      BY <2>1, <3>1, <3>2, <3>3, MaxUnitsAssumption
  <2> HIDE DEF row
  <2> QED
    BY <1>1, <2>2, <2>3, <2>5, FreshWriteWithin
<1>6. ASSUME NEW c \in Carts, NEW i \in Items, Lapse(CartKey(c, i))
      PROVE  ExactCounters' /\ NoOversell'
  <2>1. /\ CartKey(c, i) \in Keys /\ UNCHANGED <<qty, reserved_qty, queued>>
        /\ res' = [res EXCEPT ![CartKey(c, i)].expiry = "due"]
    BY <1>6, CartKeys DEF Lapse
  <2>2. \A k \in Keys : res'[k].state = res[k].state /\ res'[k].quantity = res[k].quantity
    BY <1>1, <2>1 DEF Row
  <2>3. \A k \in Keys : OwnUnits(res'[k]) = OwnUnits(res[k])
    BY <2>2 DEF OwnUnits, Consumes
  <2>4. \A v \in Variants : SumReserved(res', v) = SumReserved(res, v)
    BY <1>1, <2>3, SumUnmoved DEF KeysOf
  <2>5. ExactCounters'
    BY <2>1, <2>4 DEF ExactCounters
  <2> QED
    BY <1>3, <2>1, <2>2, <2>5 DEF Consumes
<1>7. ASSUME NEW c \in Carts, NEW state \in {"released", "committed"}, MoveAll(c, state),
             state = "committed" => \A i \in InCart(c) : PayableItem(c, i)
      PROVE  ExactCounters' /\ NoOversell'
  <2>1. /\ \A i \in InCart(c) : res'[CartKey(c, i)] =
              [res[CartKey(c, i)] EXCEPT !.state = state, !.expiry = "never"]
        /\ \A k \in Keys : k \notin MovedKeys(c) => res'[k] = res[k]
    BY <1>1, <1>7, MoveAllForm
  <2>2. /\ reserved_qty' = [v \in Variants |-> IF \E k \in MovedKeys(c) : VariantOf[k] = v
                                               THEN SumReserved(res', v)
                                               ELSE reserved_qty[v]]
        /\ UNCHANGED <<qty, queued>>
    BY <1>7 DEF MoveAll
  <2>3. ASSUME NEW v \in Variants, ~ \E k \in MovedKeys(c) : VariantOf[k] = v
        PROVE  SumReserved(res', v) = SumReserved(res, v)
    <3>1. \A k \in KeysOf(v) : OwnUnits(res'[k]) = OwnUnits(res[k])
      <4>1. \A k \in KeysOf(v) : k \in Keys /\ k \notin MovedKeys(c)
        BY <2>3 DEF KeysOf
      <4>2. \A k \in KeysOf(v) : res'[k] = res[k]
        BY <2>1, <4>1
      <4> QED
        BY <4>2
    <3> QED
      BY <1>1, <3>1, SumUnmoved
  <2>4. ExactCounters'
    BY <2>2, <2>3 DEF ExactCounters
  <2>5. ASSUME NEW i \in InCart(c), Consumes(res'[CartKey(c, i)])
        PROVE  /\ Consumes(res[CartKey(c, i)])
               /\ res'[CartKey(c, i)].quantity = res[CartKey(c, i)].quantity
    <3>1. res[CartKey(c, i)] \in Row
      BY <1>1, CartKeys DEF InCart, Lines
    <3>2. /\ res'[CartKey(c, i)].state = state
          /\ res'[CartKey(c, i)].quantity = res[CartKey(c, i)].quantity
      BY <2>1, <3>1 DEF Row
    <3>3. state = "committed"
      BY <2>5, <3>2 DEF Consumes
    <3> QED
      BY <1>7, <3>2, <3>3 DEF PayableItem, Consumes
  <2>6. \A k \in Keys : Consumes(res'[k]) => Consumes(res[k]) /\ res'[k].quantity = res[k].quantity
    <3>1. \A k \in MovedKeys(c) :
            Consumes(res'[k]) => Consumes(res[k]) /\ res'[k].quantity = res[k].quantity
      BY <2>5 DEF MovedKeys
    <3>2. \A k \in Keys : k \notin MovedKeys(c) => res'[k] = res[k]
      BY <2>1
    <3> QED
      BY <3>1, <3>2
  <2> QED
    BY <1>3, <2>2, <2>4, <2>6
<1>8. ASSUME NEW c \in Carts, ReleaseCart(c) \/ CommitCart(c)
      PROVE  ExactCounters' /\ NoOversell'
  BY <1>7, <1>8 DEF ReleaseCart, CommitCart
<1>9. CASE ExpireSweep
  <2>1. ExactCounters' /\ UNCHANGED qty
    BY <1>1, <1>9, FreshSweep DEF ExpireSweep
  <2>2. \A k \in Keys : Consumes(res'[k]) => Consumes(res[k]) /\ res'[k].quantity = res[k].quantity
    <3>1. \A k \in Keys : \/ res'[k] = res[k]
                          \/ res'[k] = [res[k] EXCEPT !.state = "expired", !.expiry = "never"]
      BY <1>9 DEF ExpireSweep, Swept
    <3>2. \A k \in Keys : res'[k] = res[k] \/ res'[k].state = "expired"
      BY <1>1, <3>1 DEF Row
    <3> QED
      BY <3>2 DEF Consumes
  <2> QED
    BY <1>3, <2>1, <2>2
<1>10. CASE Background
  <2>1. \A k \in Keys : ~ AbortQueued(k)
    BY DEF AbortQueued, ExactCounters
  <2>2. ExpireSweep
    BY <1>10, <2>1, BackgroundSteps
  <2> QED
    BY <1>9, <2>2
<1>11. CASE SellerEdits
  BY <1>1, <1>2, <1>11, SellerEditsForm DEF stockVars
<1>12. \/ UNCHANGED <<qty, reserved_qty, res, queued>> \/ Background \/ SellerEdits
       \/ \E c \in Carts, i \in Items :
            \/ \E q \in 1..MaxUnits, r \in Requests : Hold(c, i, q, r)
            \/ \E n \in 0..MaxUnits : SetQuantity(c, i, n)
            \/ LapseItem(c, i)
       \/ \E c \in Carts : ReleaseCart(c) \/ CommitCart(c)
       \/ \E c \in Mixed : PlainCall(c)
  BY DEF Next, vars, Quote, stockVars
<1>13. ASSUME NEW c \in Mixed, PlainCall(c) PROVE ExactCounters' /\ NoOversell'
  <2>1. c \in Carts /\ PlainWrites(c) /\ [StockNext]_stockVars
    BY <1>1, <1>13, PlainForm, PlainStock, CartAssumption
  <2>2. ASSUME NEW k \in Keys, NEW row \in Row, WriteRow(k, row), UNCHANGED qty
        PROVE  ExactCounters' /\ NoOversell'
    <3>1. ExactCounters'
      BY <1>1, <2>2, FreshWrite
    <3>2. ASSUME NEW v \in Variants PROVE SumReserved(res', v) <= qty'[v]
      <4>1. SumReserved(res', v) <= SumReserved(res, v) \/ SumReserved(res', v) <= qty'[v]
        BY <1>1, <2>1, StepWithinStock
      <4>2. /\ SumReserved(res, v) \in Nat /\ SumReserved(res', v) \in Nat /\ qty[v] \in Int
            /\ SumReserved(res, v) <= qty[v]
        BY <1>1, SumType, MaxUnitsAssumption DEF StockTypeOK, NoOversell
      <4> QED
        BY <2>2, <4>1, <4>2
    <3> QED
      BY <3>1, <3>2 DEF NoOversell
  <2>3. ASSUME NEW i \in Items, NEW q \in 1..MaxUnits, NEW e \in {"later", "due"},
               Reserve(CartKey(c, i), q, e)
        PROVE  ExactCounters' /\ NoOversell'
    <3> DEFINE k == CartKey(c, i)
               row == IF res[k].state = "committed" THEN res[k]
                      ELSE [quantity |-> q, state |-> "held", expiry |-> e]
    <3>1. k \in Keys
      BY <2>1, CartKeys
    <3>2. row \in Row
      BY <1>1, <3>1, MaxUnitsAssumption DEF Row
    <3>3. /\ queued[k] = NotQueued /\ UNCHANGED <<qty, queued>>
          /\ res' = [res EXCEPT ![k] = row]
          /\ reserved_qty' = [reserved_qty EXCEPT ![VariantOf[k]] = TriggeredSum(k, row)]
      BY <2>3 DEF Reserve
    <3> HIDE DEF row, k
    <3>4. queued' = [queued EXCEPT ![k] = NotQueued]
      BY <1>1, <3>1, <3>3 DEF StockTypeOK
    <3>5. WriteRow(k, row)
      BY <3>3, <3>4 DEF WriteRow
    <3> QED
      BY <2>2, <3>1, <3>2, <3>3, <3>5
  <2>4. ASSUME NEW i \in Items, Release(CartKey(c, i)) \/ Commit(CartKey(c, i))
        PROVE  ExactCounters' /\ NoOversell'
    <3> DEFINE k == CartKey(c, i)
               freed == [res[k] EXCEPT !.state = "released", !.expiry = "never"]
               sold == [res[k] EXCEPT !.state = "committed", !.expiry = "never"]
    <3>1. k \in Keys
      BY <2>1, CartKeys
    <3>2. freed \in Row /\ sold \in Row
      BY <1>1, <3>1 DEF Row
    <3>3. (WriteRow(k, freed) \/ WriteRow(k, sold)) /\ UNCHANGED qty
      BY <2>4 DEF Release, Commit
    <3> HIDE DEF freed, sold, k
    <3> QED
      BY <2>2, <3>1, <3>2, <3>3
  <2>5. CASE UNCHANGED stockVars
    BY <1>2, <2>5 DEF stockVars
  <2> QED
    BY <1>6, <2>1, <2>3, <2>4, <2>5 DEF PlainWrites, PlainLedger
<1> QED
  BY <1>2, <1>4, <1>5, <1>6, <1>8, <1>10, <1>11, <1>12, <1>13 DEF LapseItem

(***************************************************************************)
(* Without lock queues every counter equals the sum of its rows, and no    *)
(* sum exceeds the stock.                                                  *)
(***************************************************************************)
LEMMA CountersExact ==
    ASSUME Contended = {}
    PROVE  Spec => [](ExactCounters /\ NoOversell)
<1>1. Init /\ TypeOK => ExactCounters /\ NoOversell
  <2> SUFFICES ASSUME Init, TypeOK
               PROVE  /\ \A k \in Keys : queued[k] = NotQueued
                      /\ \A v \in Variants : reserved_qty[v] = SumReserved(res, v)
                                             /\ SumReserved(res, v) <= qty[v]
    BY DEF ExactCounters, NoOversell
  <2>1. \A v \in Variants : UnitsOf(res, KeysOf(v)) = {}
    BY DEF Init, StockInit, UnitsOf, KeysOf, NoRow, Consumes
  <2>2. \A v \in Variants : SumReserved(res, v) = 0
    BY <2>1, FS_EmptySet DEF SumReserved
  <2> QED
    BY <2>2, MaxUnitsAssumption DEF Init, StockInit
<1>2. Inv /\ TypeOK' /\ ExactCounters /\ NoOversell /\ [Next]_vars => (ExactCounters /\ NoOversell)'
  <2>1. \A k \in Keys : ~ QueueRecompute(k)
    BY DEF QueueRecompute
  <2> QED
    BY <2>1, WithinStep
<1> QED
  BY <1>1, <1>2, CartTypeCorrect, InvAlways, PTL DEF Spec

(***************************************************************************)
(* Event carts never oversell a variant while no transaction has to queue  *)
(* for the variant row: although holdEventItem trusts the availableQty it  *)
(* finds, every writer leaves the counter equal to the sum of the rows.    *)
(***************************************************************************)
THEOREM CartNeverOversold ==
    ASSUME Contended = {}
    PROVE  Spec => []NoOversell
  BY CountersExact, PTL
=============================================================================
