----------------------------- MODULE ProductCart -----------------------------
(***************************************************************************)
(* Carts of products outside an event: CartService                         *)
(* (apps/api/src/cart/cart.service.ts) over the cart table and the stock   *)
(* ledger.  Unlike an event cart, such a cart has no transaction of its    *)
(* own: every call reads the cart document, moves reservations one by one  *)
(* and writes the whole document back, with an await after each.  Calls of *)
(* one cart interleave, and each may fail or die at any await.             *)
(*                                                                         *)
(* The other sources of the ledger (auctions, event carts) do their own    *)
(* steps of Stock beside it.                                               *)
(***************************************************************************)
EXTENDS Stock

CONSTANTS
    Carts,       \* cart ids
    Others,      \* reservation keys of other sources
    Calls,       \* CartService calls that may be open at once
    MaxDeaths    \* bound on calls that fail or die

ASSUME LinesAreKeys == Keys = (Carts \X Variants) \cup Others
\* source_kind is part of a reservation's key.
ASSUME OthersAreElsewhere == Others \cap (Carts \X Variants) = {}
ASSUME MaxDeathsAssumption == MaxDeaths \in Nat

VARIABLES
    cart,        \* per cart: the stored document, its lines per product
    call,        \* per call: where it is, with its copy of the document
    deaths       \* calls that failed or died so far

cartVars == <<qty, reserved_qty, res, queued, cart, call, deaths>>

\* expiresAt of a line: absent, in the future, or passed.
Line == [quantity : 0..MaxUnits, expiry : {"never", "later", "due"}]

NoLine == [quantity |-> 0, expiry |-> "never"]

Lines == [Variants -> Line]

NoLines == [v \in Variants |-> NoLine]

In(lines) == {v \in Variants : lines[v].quantity > 0}

Expired(lines) == {v \in In(lines) : lines[v].expiry = "due"}

Without(lines, gone) == [v \in Variants |-> IF v \in gone THEN NoLine ELSE lines[v]]

Operations == {"read", "hold", "add", "set", "remove", "commit", "release"}

\* "drain": the call has thrown, and what it had started beside the failure goes on.
Points == {"purge", "create", "sweep", "reserve", "free", "settle", "write", "undo", "drain"}

IdleCall == [pc |-> "idle"]

\* n is the quantity asked for; "add" is the second half of a hold, addItem.
CallStates ==
    {IdleCall}
    \cup [pc : Points, op : Operations, of : Carts, product : Variants, n : 1..MaxUnits,
          copy : Lines, todo : SUBSET Variants]

ProductCartInit ==
    /\ StockInit
    /\ cart = [c \in Carts |-> [exists |-> FALSE, lines |-> NoLines]]
    /\ call = [x \in Calls |-> IdleCall]
    /\ deaths = 0

-----------------------------------------------------------------------------
Goto(x, next) == call' = [call EXCEPT ![x] = next]

Quiet == UNCHANGED <<stockVars, cart, deaths>>

KeyOf(x, v) == <<call[x].of, v>>

Store(x, lines) == cart' = [cart EXCEPT ![call[x].of] = [exists |-> TRUE, lines |-> lines]]

\* assertQuantity of what a line has and what is added to it.
assertQuantity(line, n) == line.quantity + n <= MaxUnits

\* What the call does with the cart it found.
Found(at, lines) ==
    LET now == [at EXCEPT !.copy = lines]
        line == lines[at.product]
    IN  CASE at.op = "hold" /\ assertQuantity(line, at.n) ->
                [now EXCEPT !.pc = "sweep", !.todo = {}]
          [] at.op = "add" /\ assertQuantity(line, at.n) ->
                [now EXCEPT !.pc = "write", !.todo = {},
                            !.copy[at.product] = [quantity |-> line.quantity + at.n, expiry |-> "later"]]
          [] at.op = "add" /\ ~ assertQuantity(line, at.n) ->
                [now EXCEPT !.pc = "undo", !.todo = {}, !.copy = NoLines]
          [] at.op = "set" /\ line.quantity > 0 -> [now EXCEPT !.pc = "sweep", !.todo = {}]
          [] at.op = "remove" -> [now EXCEPT !.pc = "free", !.todo = In(lines) \cap {at.product}]
          [] OTHER -> IdleCall

\* findCart: expired lines are released and the rest written back; getCart creates
\* the cart that a hold does not find.
Find(at) ==
    LET stored == cart[at.of]
    IN  CASE ~ stored.exists /\ at.op \in {"hold", "add"} -> [at EXCEPT !.pc = "create"]
          [] ~ stored.exists /\ at.op \notin {"hold", "add"} -> IdleCall
          [] stored.exists /\ Expired(stored.lines) # {} ->
                [at EXCEPT !.pc = "purge", !.copy = stored.lines, !.todo = Expired(stored.lines)]
          [] OTHER -> Found(at, stored.lines)

\* commit and release read the stored document as it is; an empty one is returned.
Settle(at) ==
    IF In(cart[at.of].lines) = {} THEN IdleCall
    ELSE [at EXCEPT !.pc = "settle", !.copy = cart[at.of].lines, !.todo = In(cart[at.of].lines)]

Begin(x, op, c, v, n) ==
    LET at == [pc |-> "purge", op |-> op, of |-> c, product |-> v, n |-> n,
               copy |-> NoLines, todo |-> {}]
    IN  /\ call[x].pc = "idle"
        /\ Goto(x, IF op \in {"commit", "release"} THEN Settle(at) ELSE Find(at))
        /\ Quiet

\* release_inventory of one line; an answer of false is ignored.
FreeLine(x, v) ==
    /\ IF Releasable(KeyOf(x, v)) THEN Release(KeyOf(x, v)) ELSE UNCHANGED stockVars
    /\ UNCHANGED <<cart, deaths>>

\* Promise.all: all lines are under way at once, and one that throws stops no other.
Rest(x, v) ==
    IF call[x].pc = "drain" /\ call[x].todo = {v} THEN IdleCall
    ELSE [call[x] EXCEPT !.todo = @ \ {v}]

Thrown(x, v) ==
    IF call[x].todo \subseteq {v} THEN IdleCall
    ELSE [call[x] EXCEPT !.pc = "drain", !.todo = @ \ {v}]

PurgeLine(x, v) ==
    /\ call[x].pc \in {"purge", "undo", "drain"} /\ call[x].op \notin {"commit", "release"}
    /\ v \in call[x].todo
    /\ FreeLine(x, v)
    /\ Goto(x, Rest(x, v))

\* The document is written without the lines that are expired by now.
PurgeWrite(x) ==
    /\ call[x].pc = "purge" /\ call[x].todo = {}
    /\ \E gone \in SUBSET In(call[x].copy) :
         /\ Expired(call[x].copy) \subseteq gone
         /\ Store(x, Without(call[x].copy, gone))
         /\ Goto(x, Found(call[x], Without(call[x].copy, gone)))
    /\ UNCHANGED <<stockVars, deaths>>

CreateCart(x) ==
    /\ call[x].pc = "create"
    /\ Store(x, NoLines)
    /\ Goto(x, Found(call[x], NoLines))
    /\ UNCHANGED <<stockVars, deaths>>

\* PgAuctionInventory.reserve: the sweep in a statement of its own ...
SweepFirst(x) ==
    /\ call[x].pc = "sweep"
    /\ IF DueKeys = {} THEN UNCHANGED stockVars ELSE ExpireSweep
    /\ Goto(x, [call[x] EXCEPT !.pc = "reserve"])
    /\ UNCHANGED <<cart, deaths>>

\* ... then reserve_inventory, for the whole quantity the line is to have.
Wanted(x) ==
    IF call[x].op = "hold" THEN call[x].copy[call[x].product].quantity + call[x].n ELSE call[x].n

\* Faulty variant of Deadline: a hold is placed without one.
NoDeadline(x) == {"never"}

\* A hold counts two minutes from now; a new quantity keeps the line's expiresAt.
Deadline(x) ==
    IF call[x].op = "hold" THEN {"later"} ELSE {call[x].copy[call[x].product].expiry, "due"}

\* addItem, reading the cart again.
AddItem(x) == Find([call[x] EXCEPT !.pc = "purge", !.op = "add", !.copy = NoLines, !.todo = {}])

Resized(x) ==
    [call[x] EXCEPT !.pc = "write", !.copy[call[x].product].quantity = call[x].n]

ReserveLine(x) ==
    LET k == KeyOf(x, call[x].product)
    IN  /\ call[x].pc = "reserve"
        /\ \/ /\ \E expiry \in Deadline(x) : Reserve(k, Wanted(x), expiry)
              /\ Goto(x, IF call[x].op = "hold" THEN AddItem(x) ELSE Resized(x))
           \/ /\ ~ ReserveAdmits(res, k, Wanted(x))
              /\ UNCHANGED stockVars
              /\ Goto(x, IdleCall)
        /\ UNCHANGED <<cart, deaths>>

\* removeItem releases the line it found, if any.
RemoveLine(x) ==
    /\ call[x].pc = "free"
    /\ \/ \E v \in call[x].todo : FreeLine(x, v)
       \/ call[x].todo = {} /\ Quiet
    /\ Goto(x, [call[x] EXCEPT !.pc = "write", !.todo = {},
                               !.copy = Without(@, {call[x].product})])

\* commit and release: line by line, in any order; a commit that is refused throws.
SettleLine(x, v) ==
    /\ call[x].pc \in {"settle", "drain"} /\ call[x].op \in {"commit", "release"}
    /\ v \in call[x].todo
    /\ \/ /\ call[x].op = "release"
          /\ FreeLine(x, v)
          /\ Goto(x, Rest(x, v))
       \/ /\ call[x].op = "commit" /\ Commit(KeyOf(x, v))
          /\ Goto(x, Rest(x, v))
          /\ UNCHANGED <<cart, deaths>>
       \/ /\ call[x].op = "commit" /\ ~ Committable(KeyOf(x, v))
          /\ Goto(x, Thrown(x, v))
          /\ Quiet

\* persist, the last step of every call that changes the cart.
WriteCart(x) ==
    /\ \/ call[x].pc = "write" /\ Store(x, call[x].copy)
       \/ call[x].pc = "settle" /\ call[x].todo = {} /\ Store(x, NoLines)
    /\ Goto(x, IdleCall)
    /\ UNCHANGED <<stockVars, deaths>>

\* A call throws at an await; holdItem then releases the line it reserved.
CallFails(x) ==
    /\ call[x].pc # "idle"
    /\ deaths < MaxDeaths
    /\ deaths' = deaths + 1
    /\ \E v \in Variants :
         Goto(x, IF call[x].op = "add" /\ call[x].pc \notin {"undo", "drain"}
                 THEN [call[x] EXCEPT !.pc = "undo", !.copy = NoLines, !.todo = @ \ {v}]
                 ELSE Thrown(x, v))
    /\ UNCHANGED <<stockVars, cart>>

UndoHold(x) ==
    /\ call[x].pc = "undo"
    /\ FreeLine(x, call[x].product)
    /\ Goto(x, IF call[x].todo = {} THEN IdleCall ELSE [call[x] EXCEPT !.pc = "drain"])

\* The API process dies with every open call.
ProcessDies ==
    /\ \E x \in Calls : call[x].pc # "idle"
    /\ deaths < MaxDeaths
    /\ deaths' = deaths + 1
    /\ call' = [x \in Calls |-> IdleCall]
    /\ UNCHANGED <<stockVars, cart>>

\* The API's clock passes a line's expiresAt.
LineLapses(c, v) ==
    /\ cart[c].lines[v].expiry = "later"
    /\ cart' = [cart EXCEPT ![c].lines[v].expiry = "due"]
    /\ UNCHANGED <<stockVars, call, deaths>>

CallStep(x) ==
    \/ \E v \in Variants : PurgeLine(x, v) \/ SettleLine(x, v)
    \/ PurgeWrite(x) \/ CreateCart(x) \/ SweepFirst(x) \/ ReserveLine(x) \/ RemoveLine(x)
    \/ WriteCart(x) \/ UndoHold(x)

\* What the ledger and its other sources do.
Elsewhere ==
    /\ \/ \E k \in Others, q \in 1..MaxUnits, e \in {"never", "later"} : Reserve(k, q, e)
       \/ \E k \in Others : Release(k) \/ Commit(k)
       \/ \E k \in Keys : Lapse(k) \/ QueueRecompute(k) \/ AbortQueued(k)
       \/ ExpireSweep
       \/ \E v \in Variants, n \in SaveQuantities : Save(v, n)
    /\ UNCHANGED <<cart, call, deaths>>

ProductCartNext ==
    \/ \E x \in Calls, c \in Carts, v \in Variants :
          \/ \E op \in {"hold", "set"}, n \in 1..MaxUnits : Begin(x, op, c, v, n)
          \/ \E op \in {"read", "remove", "commit", "release"} : Begin(x, op, c, v, 1)
    \/ \E x \in Calls : CallStep(x) \/ CallFails(x)
    \/ ProcessDies
    \/ \E c \in Carts, v \in Variants : LineLapses(c, v)
    \/ Elsewhere

ProductCartSpec == ProductCartInit /\ [][ProductCartNext]_cartVars

\* Clocks go on, and every catalogue and inventory read runs the sweep.
FairProductCartSpec ==
    /\ ProductCartSpec
    /\ WF_cartVars(ExpireSweep /\ UNCHANGED <<cart, call, deaths>>)
    /\ \A k \in Keys : WF_cartVars(Lapse(k) /\ UNCHANGED <<cart, call, deaths>>)
-----------------------------------------------------------------------------
(***************************************************************************)
(* Type invariant of carts and calls.                                      *)
(***************************************************************************)
ProductCartTypeOK ==
    /\ cart \in [Carts -> [exists : BOOLEAN, lines : Lines]]
    /\ call \in [Calls -> CallStates]
    /\ deaths \in 0..MaxDeaths

(***************************************************************************)
(* Units a cart took come back: a hold that no line of the cart stands     *)
(* for, because the call died between reserve_inventory and the cart write *)
(* or another call wrote its older document over the line, does not keep   *)
(* its stock.                                                              *)
(***************************************************************************)
OrphanHold(c, v) == res[<<c, v>>].state = "held" /\ cart[c].lines[v].quantity = 0

HoldsComeBack == \A c \in Carts, v \in Variants : OrphanHold(c, v) ~> ~ OrphanHold(c, v)

(***************************************************************************)
(* schema.sql 515: "The expiry is cleared so the periodic/lazy expiry      *)
(* sweep can never return paid stock".  Purging expired lines never        *)
(* releases units that a payment has committed.                            *)
(***************************************************************************)
PaidStaysSold ==
    [][\A x \in Calls, v \in Variants :
         PurgeLine(x, v) => res[KeyOf(x, v)].state # "committed"]_cartVars
=============================================================================
