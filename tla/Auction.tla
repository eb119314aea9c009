------------------------------ MODULE Auction ------------------------------
(***************************************************************************)
(* PgAuctionStore and the AuctionService paths that drive it: one auction  *)
(* aggregate per id, its lineup allocation and its reservation row, all    *)
(* written in one transaction; the winner's canonical checkout order is    *)
(* written afterwards, in a transaction of its own, by whoever reads next. *)
(* An auction id is also the key of its reservation (source 'auction').    *)
(***************************************************************************)
EXTENDS Lineup

CONSTANTS
    Auctions,     \* auction ids, each used by one startAuction
    ItemOf,       \* eventItemId of an auction
    Events,       \* event ids
    EventOf,      \* eventId of a lineup item
    Bidders, NoBidder,
    Requests,     \* idempotency keys of bids
    MaxPrice      \* bound on a bid, in currency units

ASSUME AuctionAssumption ==
    /\ Auctions \subseteq Keys
    /\ ItemOf \in [Auctions -> Items]
    /\ EventOf \in [Items -> Events]
    /\ \A a \in Auctions : VariantOf[a] = ProductOf[ItemOf[a]]
    /\ NoBidder \notin Bidders
    /\ MaxPrice \in Nat

VARIABLES
    auctions,     \* auction_state payloads
    canonical     \* auctions whose winner has a checkout_order row

auctionVars == <<auctions, canonical>>
vars == <<stockVars, lineup, auctionVars>>

Bid == [bidder : Bidders, amount : 1..MaxPrice, request : Requests]

AuctionRow ==
    [status     : {"none", "active", "closed"},
     reason     : {"none", "settled", "seller-cancelled"},
     ended      : BOOLEAN,            \* endsAt has passed
     quantity   : 0..MaxUnits,
     price      : 0..MaxPrice,        \* currentPriceCents
     bids       : SUBSET Bid,
     winner     : Bidders \cup {NoBidder},
     allocation : {"none", "held", "committed", "released"}]

NoAuction ==
    [status |-> "none", reason |-> "none", ended |-> FALSE, quantity |-> 0,
     price |-> 0, bids |-> {}, winner |-> NoBidder, allocation |-> "none"]

EventOfAuction(a) == EventOf[ItemOf[a]]

\* bids[0] after the sort by amount, highest first.
IsTopBid(b, bids) == b \in bids /\ \A c \in bids : c.amount <= b.amount

HasWinner(a) == auctions[a].winner # NoBidder

Init ==
    /\ StockInit
    /\ LineupInit
    /\ auctions = [a \in Auctions |-> NoAuction]
    /\ canonical = {}

-----------------------------------------------------------------------------
\* Faulty variant of AuctionHold: the hold carries the cart policy's expiry.
LapsingHold(q) == [quantity |-> q, state |-> "held", expiry |-> "later"]

\* The row an auction's reserve_inventory call writes: it never expires.
AuctionHold(q) == [quantity |-> q, state |-> "held", expiry |-> "never"]

\* auction_state_one_active_per_event.
NoActiveAuction(e) ==
    \A b \in Auctions : EventOfAuction(b) = e => auctions[b].status # "active"

(***************************************************************************)
(* startAuction / PgAuctionStore.start: the expiry sweep, the lineup       *)
(* allocation, the reservation and the aggregate commit together.          *)
(***************************************************************************)
Start(a, q, price) ==
    LET swept == Swept(res, DueKeys)
    IN  /\ auctions[a].status = "none"
        /\ NoActiveAuction(EventOfAuction(a))
        /\ TakeAllocation(ItemOf[a], q)
        /\ ReserveAdmits(swept, a, q)
        /\ res' = [swept EXCEPT ![a] = AuctionHold(q)]
        /\ reserved_qty' = [v \in Variants |-> IF v = VariantOf[a]
                                               THEN SumReserved(res', v)
                                               ELSE SweptCounter(v)]
        /\ queued' = SweptQueue
        /\ auctions' = [auctions EXCEPT ![a] =
               [NoAuction EXCEPT !.status = "active", !.quantity = q,
                                 !.price = price, !.allocation = "held"]]
        /\ UNCHANGED <<qty, canonical>>

\* The clock passes endsAt.
EndClock(a) ==
    /\ auctions[a].status = "active" /\ ~ auctions[a].ended
    /\ auctions' = [auctions EXCEPT ![a].ended = TRUE]
    /\ UNCHANGED <<stockVars, lineup, canonical>>

(***************************************************************************)
(* release_inventory and releaseEventAllocation on the auction's behalf.   *)
(* releaseEventAllocation refuses a committed allocation and skips one     *)
(* that is released already; every caller has a held one.                  *)
(***************************************************************************)
ReleaseHold(a) ==
    /\ Release(a)
    /\ auctions[a].allocation = "held"
    /\ RestoreAllocation(ItemOf[a], auctions[a].quantity)

\* Faulty variant of CloseUnsold: the hold is forgotten.
CloseUnreleased(a) ==
    /\ auctions[a].bids = {}
    /\ auctions' = [auctions EXCEPT ![a].status = "closed", ![a].reason = "settled"]
    /\ UNCHANGED <<stockVars, lineup, canonical>>

\* closeLocked without a bid gives the units back.
CloseUnsold(a) ==
    /\ auctions[a].bids = {}
    /\ ReleaseHold(a)
    /\ auctions' = [auctions EXCEPT ![a].status = "closed", ![a].reason = "settled",
                                    ![a].allocation = "released"]
    /\ UNCHANGED canonical

\* closeLocked with bids names the top bidder; the hold stays for checkout.
CloseSold(a) ==
    /\ Consumes(res[a])
    /\ queued[a] = NotQueued
    /\ \E b \in auctions[a].bids :
         /\ IsTopBid(b, auctions[a].bids)
         /\ auctions' = [auctions EXCEPT ![a].status = "closed", ![a].reason = "settled",
                                         ![a].winner = b.bidder]
    /\ UNCHANGED <<stockVars, lineup, canonical>>

\* closeAuction by the seller, settleStoredAuction, closeExpired.
Close(a) ==
    /\ auctions[a].status = "active"
    /\ CloseUnsold(a) \/ CloseSold(a)

\* Faulty variant of SettleEnded: only auctions with bids are settled on read.
SettleSold(a) == auctions[a].ended /\ auctions[a].status = "active" /\ CloseSold(a)

\* A reader (expireActive, getCurrentAuction, closeExpired) finds the clock run out.
SettleEnded(a) == auctions[a].ended /\ Close(a)

\* Faulty variant of IsReplay: the amount is compared too.
IsSameBid(a, b) == b \in auctions[a].bids

\* A retried bid request is recognised before the status is looked at.
IsReplay(a, b) ==
    \E c \in auctions[a].bids : c.bidder = b.bidder /\ c.request = b.request

\* Faulty variant of AcceptBid: an equal bid is taken.
AcceptEqualBid(a, b) ==
    /\ ~ auctions[a].ended
    /\ queued[a] = NotQueued
    /\ b.amount >= auctions[a].price
    /\ auctions' = [auctions EXCEPT ![a].bids = @ \cup {b}, ![a].price = b.amount]
    /\ UNCHANGED <<stockVars, lineup, canonical>>

AcceptBid(a, b) ==
    /\ ~ auctions[a].ended
    /\ queued[a] = NotQueued
    /\ b.amount > auctions[a].price
    /\ auctions' = [auctions EXCEPT ![a].bids = @ \cup {b}, ![a].price = b.amount]
    /\ UNCHANGED <<stockVars, lineup, canonical>>

\* Faulty variant of PlaceBid: the status is not looked at.
PlaceBidAnyStatus(a, b) == ~ IsReplay(a, b) /\ (AcceptBid(a, b) \/ SettleEnded(a))

\* PgAuctionStore.placeBid: a replay changes nothing, a late bid settles the auction.
PlaceBid(a, b) ==
    /\ ~ IsReplay(a, b)
    /\ auctions[a].status = "active"
    /\ AcceptBid(a, b) \/ SettleEnded(a)

\* PgAuctionStore.cancel of an active auction; bids are kept, no winner is named.
Cancel(a) ==
    /\ auctions[a].status = "active"
    /\ ReleaseHold(a)
    /\ auctions' = [auctions EXCEPT ![a].status = "closed",
                                    ![a].reason = "seller-cancelled",
                                    ![a].winner = NoBidder,
                                    ![a].allocation = "released"]
    /\ UNCHANGED canonical

\* Payment of the winner's order: commitWinner.
CommitWinner(a) ==
    /\ HasWinner(a)
    /\ auctions[a].allocation = "held"
    /\ Commit(a)
    /\ auctions' = [auctions EXCEPT ![a].allocation = "committed"]
    /\ UNCHANGED <<lineup, canonical>>

\* Cancellation of the winner's order: releaseWinner.
ReleaseWinner(a) ==
    /\ HasWinner(a)
    /\ ReleaseHold(a)
    /\ auctions' = [auctions EXCEPT ![a].allocation = "released"]
    /\ UNCHANGED canonical

\* Faulty variant of EnsureWinnerOrder: only for allocations still held.
EnsureHeldOrder(a) ==
    /\ HasWinner(a) /\ auctions[a].allocation = "held"
    /\ a \notin canonical
    /\ canonical' = canonical \cup {a}
    /\ UNCHANGED <<stockVars, lineup, auctions>>

\* ensureCanonicalWinnerOrder, run by the reads that follow a close.
EnsureWinnerOrder(a) ==
    /\ HasWinner(a)
    /\ a \notin canonical
    /\ canonical' = canonical \cup {a}
    /\ UNCHANGED <<stockVars, lineup, auctions>>

\* A release or a commit of the auction queues for the variant row.
QueueAuctionRecompute(a) ==
    /\ auctions[a].allocation = "held"
    /\ QueueRecompute(a)
    /\ UNCHANGED <<lineup, auctionVars>>

\* Every other source of the variant: seller holds, product carts, the sweep, the clock.
OtherSources ==
    /\ \/ \E k \in Keys \ Auctions :
            \/ \E q \in 1..MaxUnits : Reserve(k, q, "later")
            \/ Release(k) \/ Commit(k) \/ Lapse(k) \/ QueueRecompute(k)
       \/ \E k \in Keys : AbortQueued(k)
       \/ ExpireSweep
       \/ \E v \in Variants, n \in SaveQuantities : Save(v, n)
    /\ UNCHANGED <<lineup, auctionVars>>

Next ==
    \/ \E a \in Auctions :
         \/ \E q \in 1..MaxUnits, p \in 1..MaxPrice : Start(a, q, p)
         \/ \E b \in Bid : PlaceBid(a, b)
         \/ EndClock(a) \/ Close(a) \/ Cancel(a)
         \/ CommitWinner(a) \/ ReleaseWinner(a) \/ EnsureWinnerOrder(a)
         \/ QueueAuctionRecompute(a)
    \/ OtherSources
    \/ SellerEdits /\ UNCHANGED auctionVars
Spec == Init /\ [][Next]_vars

\* A transaction that waits for the variant row gets it, or is aborted.
EndQueued(a) ==
    /\ queued[a] # NotQueued
    /\ \/ Close(a) \/ Cancel(a) \/ CommitWinner(a) \/ ReleaseWinner(a)
       \/ AbortQueued(a) /\ UNCHANGED <<lineup, auctionVars>>

\* Buyer panels poll the event's auction and the winners' order lists, and each such
\* read settles a run-out clock and repairs a missing order.  The settling transaction
\* may find the row locked again and again, but a lock queue serves every waiter: SF.
FairSpec ==
    /\ Spec
    /\ \A a \in Auctions : /\ SF_vars(SettleEnded(a))
                           /\ WF_vars(EnsureWinnerOrder(a))
                           /\ WF_vars(EndQueued(a))

-----------------------------------------------------------------------------
(***************************************************************************)
(* Type invariant of the auctions, the lineup and the ledger under them.   *)
(***************************************************************************)
TypeOK ==
    /\ StockTypeOK
    /\ lineup \in [Items -> LineupRow]
    /\ auctions \in [Auctions -> AuctionRow]
    /\ canonical \subseteq Auctions

(***************************************************************************)
(* An event never has two active auctions, whatever interleaving of        *)
(* starts, closes and cancels (auction_state_one_active_per_event).        *)
(***************************************************************************)
OneActivePerEvent ==
    \A a, b \in Auctions :
        /\ auctions[a].status = "active"
        /\ auctions[b].status = "active"
        /\ EventOfAuction(a) = EventOfAuction(b)
        => a = b

(***************************************************************************)
(* The aggregate and the ledger agree: the reservation row of an auction   *)
(* is held, committed or released exactly as allocationState says, for the *)
(* auctioned quantity, and no sweep ever takes it.  "No process crash can  *)
(* leave half an auction" (the comment on PgAuctionStore).                 *)
(***************************************************************************)
AllocationMatchesLedger ==
    \A a \in Auctions :
        /\ res[a].state = auctions[a].allocation
        /\ res[a].quantity = auctions[a].quantity
        /\ res[a].expiry = "never"

(***************************************************************************)
(* Units are held for every auction that is running and for every winner   *)
(* until payment or cancellation; an unsold or cancelled one holds none.   *)
(***************************************************************************)
HoldFollowsLifecycle ==
    \A a \in Auctions :
        /\ auctions[a].status = "active" => auctions[a].allocation = "held"
        /\ auctions[a].status = "closed" /\ ~ HasWinner(a)
              => auctions[a].allocation = "released"
        /\ HasWinner(a) => auctions[a].status = "closed" /\ auctions[a].reason = "settled"

(***************************************************************************)
(* The named winner placed the highest bid, at the price the auction       *)
(* closed on; equal bids cannot both have been accepted.                   *)
(***************************************************************************)
WinnerIsTopBidder ==
    \A a \in Auctions : HasWinner(a) =>
        \E b \in auctions[a].bids :
            /\ b.bidder = auctions[a].winner
            /\ b.amount = auctions[a].price
            /\ \A c \in auctions[a].bids \ {b} : c.amount < b.amount

(***************************************************************************)
(* A bid request, retried, is counted at most once.                        *)
(***************************************************************************)
BidCountedOnce ==
    \A a \in Auctions : \A b, c \in auctions[a].bids :
        b.bidder = c.bidder /\ b.request = c.request => b = c

(***************************************************************************)
(* Settled is final: after the close no bid, price, winner or reason of    *)
(* the auction changes, and a paid allocation is never given back.         *)
(***************************************************************************)
SettlementIsFinal ==
    [][\A a \in Auctions : auctions[a].status = "closed" =>
          /\ \A f \in {"status", "reason", "quantity", "price", "bids", "winner"} :
                auctions'[a][f] = auctions[a][f]
          /\ auctions[a].allocation \in {"committed", "released"}
                => auctions'[a].allocation = auctions[a].allocation]_vars

\* Units of item i that running auctions, winners and buyers have.
AllocatedUnits(i) ==
    {u \in Auctions \X (1..MaxUnits) :
        /\ ItemOf[u[1]] = i
        /\ auctions[u[1]].allocation \in {"held", "committed"}
        /\ u[2] <= auctions[u[1]].quantity}

(***************************************************************************)
(* While the seller does not edit the lineup and registered as many units  *)
(* as are listed, every unit is either in the lineup or with an auction.   *)
(***************************************************************************)
LineupConserved ==
    \A i \in Items : lineup[i].current + Cardinality(AllocatedUnits(i)) = lineup[i].listed

(***************************************************************************)
(* An auction whose clock ran out is closed, and a winner gets a payable   *)
(* order, also when the process died between the two transactions.         *)
(***************************************************************************)
EndedAuctionsClose ==
    \A a \in Auctions : auctions[a].ended ~> auctions[a].status = "closed"

WinnersGetOrders == \A a \in Auctions : HasWinner(a) ~> a \in canonical
=============================================================================
