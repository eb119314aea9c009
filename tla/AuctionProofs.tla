--------------------------- MODULE AuctionProofs ---------------------------
(***************************************************************************)
(* Theorems about auctions over the ledger, for every number of auctions,  *)
(* events, bidders and other sources: the aggregate, the lineup and the    *)
(* ledger agree, an event has one active auction, the winner is the top    *)
(* bidder, and no interleaving oversells.                                  *)
(***************************************************************************)
EXTENDS Auction, StockProofs

-----------------------------------------------------------------------------
(* The strengthening that makes the safety properties inductive.           *)

\* An auction id that was not started has an untouched aggregate.
BlankUntilStarted == \A a \in Auctions : auctions[a].status = "none" => auctions[a] = NoAuction

LifecycleInv ==
    /\ TypeOK
    /\ BlankUntilStarted
    /\ OneActivePerEvent
    /\ AllocationMatchesLedger
    /\ HoldFollowsLifecycle

-----------------------------------------------------------------------------
\* The steps of Next one by one; a settling read or a late bid is a close.
StartStep == \E a \in Auctions, q \in 1..MaxUnits, p \in 1..MaxPrice : Start(a, q, p)
AcceptStep == \E a \in Auctions, b \in Bid : ~ IsReplay(a, b) /\ auctions[a].status = "active"
                                            /\ AcceptBid(a, b)
UnsoldStep == \E a \in Auctions : auctions[a].status = "active" /\ CloseUnsold(a)
SoldStep == \E a \in Auctions : auctions[a].status = "active" /\ CloseSold(a)
SideStep ==
    \/ \E a \in Auctions : EnsureWinnerOrder(a) \/ QueueAuctionRecompute(a)
    \/ OtherSources
    \/ SellerEdits /\ UNCHANGED auctionVars
    \/ UNCHANGED vars

LEMMA NextSteps ==
    ASSUME [Next]_vars
    PROVE  \/ StartStep \/ AcceptStep \/ UnsoldStep \/ SoldStep \/ SideStep
           \/ \E a \in Auctions : EndClock(a) \/ Cancel(a) \/ CommitWinner(a) \/ ReleaseWinner(a)
  BY DEF Next, StartStep, AcceptStep, UnsoldStep, SoldStep, SideStep, PlaceBid, SettleEnded, Close

\* Every step but a start is a step of the ledger, or leaves it alone.
LEMMA LedgerStep ==
    ASSUME [Next]_vars, ~ StartStep
    PROVE  [StockNext]_stockVars
<1>1. ASSUME NEW a \in Auctions, Release(a) \/ Commit(a) \/ QueueRecompute(a) \/ AbortQueued(a)
      PROVE  StockNext
  BY <1>1, AuctionAssumption DEF StockNext
<1>2. CASE AcceptStep
  BY <1>2 DEF AcceptStep, AcceptBid
<1>3. CASE UnsoldStep
  BY <1>1, <1>3 DEF UnsoldStep, CloseUnsold, ReleaseHold
<1>4. CASE SoldStep
  BY <1>4 DEF SoldStep, CloseSold
<1>5. CASE \E a \in Auctions : EndClock(a) \/ Cancel(a) \/ CommitWinner(a) \/ ReleaseWinner(a)
  BY <1>1, <1>5 DEF EndClock, Cancel, CommitWinner, ReleaseWinner, ReleaseHold
<1>6. CASE OtherSources
  BY <1>6 DEF OtherSources, StockNext
<1>7. CASE SideStep /\ ~ OtherSources
  BY <1>1, <1>7 DEF SideStep, EnsureWinnerOrder, QueueAuctionRecompute, SellerEdits, StockAdjust,
                    Register, vars
<1> QED
  BY <1>2, <1>3, <1>4, <1>5, <1>6, <1>7, NextSteps

-----------------------------------------------------------------------------
(* Type correctness.                                                       *)

LEMMA StartStockType ==
    ASSUME TypeOK, NEW a \in Auctions, NEW q \in 1..MaxUnits, NEW p \in 1..MaxPrice, Start(a, q, p)
    PROVE  StockTypeOK'
<1>1. StockTypeOK /\ a \in Keys
  BY AuctionAssumption DEF TypeOK
<1>2. Swept(res, DueKeys) \in [Keys -> Row]
  BY <1>1, SweptType DEF DueKeys
<1>3. AuctionHold(q) \in Row
  BY MaxUnitsAssumption DEF AuctionHold, Row
<1>4. res' \in [Keys -> Row]
  BY <1>1, <1>2, <1>3 DEF Start
<1>5. \A v \in Variants : SweptCounter(v) \in Nat /\ SumReserved(res', v) \in Nat
  BY <1>1, SweptCounterType, SumType
<1>6. reserved_qty' \in [Variants -> Nat]
  BY <1>5 DEF Start
<1>7. queued' \in [Keys -> Nat \cup {NotQueued}]
  BY <1>1 DEF Start, SweptQueue, StockTypeOK
<1> QED
  BY <1>1, <1>4, <1>6, <1>7 DEF Start, StockTypeOK

LEMMA LineupTypeStep ==
    ASSUME TypeOK, [Next]_vars
    PROVE  (lineup \in [Items -> LineupRow])'
<1>1. lineup \in [Items -> LineupRow] /\ auctions \in [Auctions -> AuctionRow]
  BY DEF TypeOK
<1>2. ASSUME NEW a \in Auctions, NEW q \in 0..MaxUnits, RestoreAllocation(ItemOf[a], q)
      PROVE  lineup' \in [Items -> LineupRow]
  BY <1>1, <1>2, MaxUnitsAssumption, AuctionAssumption DEF RestoreAllocation, Least, LineupRow
<1>3. ASSUME NEW a \in Auctions, ReleaseHold(a)
      PROVE  lineup' \in [Items -> LineupRow]
  <2>1. auctions[a].quantity \in 0..MaxUnits
    BY <1>1 DEF AuctionRow
  <2> QED
    BY <1>2, <1>3, <2>1 DEF ReleaseHold
<1>4. CASE StartStep
  <2>1. PICK a \in Auctions, q \in 1..MaxUnits, p \in 1..MaxPrice : Start(a, q, p)
    BY <1>4 DEF StartStep
  <2>2. TakeAllocation(ItemOf[a], q) /\ ItemOf[a] \in Items
    BY <2>1, AuctionAssumption DEF Start
  <2> QED
    BY <1>1, <2>2, MaxUnitsAssumption DEF TakeAllocation, LineupRow
<1>5. CASE UnsoldStep
  BY <1>3, <1>5 DEF UnsoldStep, CloseUnsold
<1>6. CASE \E a \in Auctions : Cancel(a) \/ ReleaseWinner(a)
  BY <1>3, <1>6 DEF Cancel, ReleaseWinner
<1>7. CASE SellerEdits
  <2>1. ASSUME NEW i \in Items, NEW n \in AdjustQuantities, StockAdjust(i, n)
        PROVE  lineup' \in [Items -> LineupRow]
    BY <1>1, <2>1, ItemsAssumption DEF StockAdjust, LineupRow
  <2>2. ASSUME NEW i \in Items, NEW row \in Reregistrations, Register(i, row)
        PROVE  lineup' \in [Items -> LineupRow]
    BY <1>1, <2>2, RegistrationsAssumption DEF Register
  <2> QED
    BY <1>7, <2>1, <2>2 DEF SellerEdits
<1>8. CASE UNCHANGED lineup
  BY <1>1, <1>8
<1>9. AcceptStep \/ SoldStep => UNCHANGED lineup
  BY DEF AcceptStep, AcceptBid, SoldStep, CloseSold
<1>10. (\E a \in Auctions : EndClock(a) \/ CommitWinner(a)) => UNCHANGED lineup
  BY DEF EndClock, CommitWinner
<1>11. SideStep => SellerEdits \/ UNCHANGED lineup
  BY DEF SideStep, EnsureWinnerOrder, QueueAuctionRecompute, OtherSources, vars
<1> QED
  BY <1>4, <1>5, <1>6, <1>7, <1>8, <1>9, <1>10, <1>11, NextSteps

\* What each action writes into its aggregate is an aggregate.
LEMMA AggregateRows ==
    ASSUME NEW r \in AuctionRow
    PROVE  /\ \A q \in 1..MaxUnits, p \in 1..MaxPrice :
                [r EXCEPT !.status = "active", !.quantity = q, !.price = p, !.allocation = "held"]
                \in AuctionRow
           /\ \A b \in Bid : [r EXCEPT !.bids = @ \cup {b}, !.price = b.amount] \in AuctionRow
           /\ [r EXCEPT !.ended = TRUE] \in AuctionRow
           /\ [r EXCEPT !.status = "closed", !.reason = "settled", !.allocation = "released"]
                \in AuctionRow
           /\ \A w \in Bidders : [r EXCEPT !.status = "closed", !.reason = "settled", !.winner = w]
                \in AuctionRow
           /\ [r EXCEPT !.status = "closed", !.reason = "seller-cancelled", !.winner = NoBidder,
                        !.allocation = "released"] \in AuctionRow
           /\ [r EXCEPT !.allocation = "committed"] \in AuctionRow
           /\ [r EXCEPT !.allocation = "released"] \in AuctionRow
<1>1. ASSUME NEW q \in 1..MaxUnits, NEW p \in 1..MaxPrice
      PROVE  [r EXCEPT !.status = "active", !.quantity = q, !.price = p, !.allocation = "held"]
             \in AuctionRow
  <2>1. q \in 0..MaxUnits /\ p \in 0..MaxPrice
    BY MaxUnitsAssumption, AuctionAssumption
  <2> QED
    BY <2>1 DEF AuctionRow
<1>2. ASSUME NEW b \in Bid
      PROVE  [r EXCEPT !.bids = @ \cup {b}, !.price = b.amount] \in AuctionRow
  <2>1. r.bids \cup {b} \in SUBSET Bid /\ b.amount \in 0..MaxPrice
    BY AuctionAssumption DEF AuctionRow, Bid
  <2> QED
    BY <2>1 DEF AuctionRow
<1>3. [r EXCEPT !.ended = TRUE] \in AuctionRow
  BY DEF AuctionRow
<1>4. [r EXCEPT !.status = "closed", !.reason = "settled", !.allocation = "released"] \in AuctionRow
  BY DEF AuctionRow
<1>5. \A w \in Bidders : [r EXCEPT !.status = "closed", !.reason = "settled", !.winner = w]
                         \in AuctionRow
  BY DEF AuctionRow
<1>6. [r EXCEPT !.status = "closed", !.reason = "seller-cancelled", !.winner = NoBidder,
               !.allocation = "released"] \in AuctionRow
  BY DEF AuctionRow
<1>7. [r EXCEPT !.allocation = "committed"] \in AuctionRow
  BY DEF AuctionRow
<1>8. [r EXCEPT !.allocation = "released"] \in AuctionRow
  BY DEF AuctionRow
<1> QED
  BY <1>1, <1>2, <1>3, <1>4, <1>5, <1>6, <1>7, <1>8

\* Every step rewrites at most one aggregate; the row each action writes.
Rewrites(a, row) == auctions' = [auctions EXCEPT ![a] = row]

LEMMA Rewritten ==
    ASSUME auctions \in [Auctions -> AuctionRow], NEW a \in Auctions
    PROVE  /\ \A q, p : Start(a, q, p) =>
                Rewrites(a, [NoAuction EXCEPT !.status = "active", !.quantity = q,
                                              !.price = p, !.allocation = "held"])
           /\ \A b : AcceptBid(a, b) =>
                Rewrites(a, [auctions[a] EXCEPT !.bids = @ \cup {b}, !.price = b.amount])
           /\ EndClock(a) => Rewrites(a, [auctions[a] EXCEPT !.ended = TRUE])
           /\ CloseUnsold(a) =>
                Rewrites(a, [auctions[a] EXCEPT !.status = "closed", !.reason = "settled",
                                                !.allocation = "released"])
           /\ CloseSold(a) => \E b \in auctions[a].bids :
                /\ IsTopBid(b, auctions[a].bids)
                /\ Rewrites(a, [auctions[a] EXCEPT !.status = "closed", !.reason = "settled",
                                                   !.winner = b.bidder])
           /\ Cancel(a) =>
                Rewrites(a, [auctions[a] EXCEPT !.status = "closed", !.reason = "seller-cancelled",
                                                !.winner = NoBidder, !.allocation = "released"])
           /\ CommitWinner(a) => Rewrites(a, [auctions[a] EXCEPT !.allocation = "committed"])
           /\ ReleaseWinner(a) => Rewrites(a, [auctions[a] EXCEPT !.allocation = "released"])
<1>1. \A q, p : Start(a, q, p) =>
        Rewrites(a, [NoAuction EXCEPT !.status = "active", !.quantity = q,
                                      !.price = p, !.allocation = "held"])
  BY DEF Start, Rewrites
<1>2. \A b : AcceptBid(a, b) =>
        Rewrites(a, [auctions[a] EXCEPT !.bids = @ \cup {b}, !.price = b.amount])
  BY DEF AcceptBid, Rewrites
<1>3. EndClock(a) => Rewrites(a, [auctions[a] EXCEPT !.ended = TRUE])
  BY DEF EndClock, Rewrites
<1>4. CloseUnsold(a) =>
        Rewrites(a, [auctions[a] EXCEPT !.status = "closed", !.reason = "settled",
                                        !.allocation = "released"])
  BY DEF CloseUnsold, Rewrites
<1>5. CloseSold(a) => \E b \in auctions[a].bids :
        /\ IsTopBid(b, auctions[a].bids)
        /\ Rewrites(a, [auctions[a] EXCEPT !.status = "closed", !.reason = "settled",
                                           !.winner = b.bidder])
  BY DEF CloseSold, Rewrites
<1>6. Cancel(a) =>
        Rewrites(a, [auctions[a] EXCEPT !.status = "closed", !.reason = "seller-cancelled",
                                        !.winner = NoBidder, !.allocation = "released"])
  BY DEF Cancel, Rewrites
<1>7. CommitWinner(a) => Rewrites(a, [auctions[a] EXCEPT !.allocation = "committed"])
  BY DEF CommitWinner, Rewrites
<1>8. ReleaseWinner(a) => Rewrites(a, [auctions[a] EXCEPT !.allocation = "released"])
  BY DEF ReleaseWinner, Rewrites
<1> QED
  BY <1>1, <1>2, <1>3, <1>4, <1>5, <1>6, <1>7, <1>8

LEMMA BlankType == NoAuction \in AuctionRow
  BY MaxUnitsAssumption, AuctionAssumption DEF NoAuction, AuctionRow

LEMMA AggregateTypeStep ==
    ASSUME TypeOK, [Next]_vars
    PROVE  (auctions \in [Auctions -> AuctionRow] /\ canonical \subseteq Auctions)'
<1>1. auctions \in [Auctions -> AuctionRow] /\ canonical \subseteq Auctions
  BY DEF TypeOK
<1>2. ASSUME NEW a \in Auctions, NEW row \in AuctionRow, Rewrites(a, row)
      PROVE  auctions' \in [Auctions -> AuctionRow]
  BY <1>1, <1>2 DEF Rewrites
<1>3. ASSUME NEW a \in Auctions
      PROVE  auctions[a] \in AuctionRow
  BY <1>1
<1>4. auctions' \in [Auctions -> AuctionRow]
  <2>1. CASE StartStep
    <3>1. PICK a \in Auctions, q \in 1..MaxUnits, p \in 1..MaxPrice : Start(a, q, p)
      BY <2>1 DEF StartStep
    <3>2. Rewrites(a, [NoAuction EXCEPT !.status = "active", !.quantity = q,
                                        !.price = p, !.allocation = "held"])
      BY <1>1, <3>1, Rewritten
    <3>3. [NoAuction EXCEPT !.status = "active", !.quantity = q,
                            !.price = p, !.allocation = "held"] \in AuctionRow
      BY BlankType, AggregateRows
    <3> QED
      BY <1>2, <3>2, <3>3
  <2>2. CASE AcceptStep
    BY <1>1, <1>2, <1>3, <2>2, Rewritten, AggregateRows DEF AcceptStep
  <2>3. CASE UnsoldStep
    <3>1. PICK a \in Auctions : CloseUnsold(a)
      BY <2>3 DEF UnsoldStep
    <3>2. Rewrites(a, [auctions[a] EXCEPT !.status = "closed", !.reason = "settled",
                                          !.allocation = "released"])
      BY <1>1, <3>1, Rewritten
    <3>3. [auctions[a] EXCEPT !.status = "closed", !.reason = "settled",
                              !.allocation = "released"] \in AuctionRow
      BY <1>3, AggregateRows
    <3> QED
      BY <1>2, <3>2, <3>3
  <2>4. CASE SoldStep
    <3>1. PICK a \in Auctions : CloseSold(a)
      BY <2>4 DEF SoldStep
    <3>2. PICK b \in auctions[a].bids :
            Rewrites(a, [auctions[a] EXCEPT !.status = "closed", !.reason = "settled",
                                            !.winner = b.bidder])
      BY <1>1, <3>1, Rewritten
    <3>3. b.bidder \in Bidders
      BY <1>3 DEF AuctionRow, Bid
    <3> QED
      BY <1>2, <1>3, <3>2, <3>3, AggregateRows
  <2>5. ASSUME NEW a \in Auctions, EndClock(a) \/ Cancel(a) \/ CommitWinner(a) \/ ReleaseWinner(a)
        PROVE  auctions' \in [Auctions -> AuctionRow]
    <3> DEFINE cancelled == [auctions[a] EXCEPT !.status = "closed", !.reason = "seller-cancelled",
                                                !.winner = NoBidder, !.allocation = "released"]
               rows == {[auctions[a] EXCEPT !.ended = TRUE], cancelled,
                        [auctions[a] EXCEPT !.allocation = "committed"],
                        [auctions[a] EXCEPT !.allocation = "released"]}
    <3>1. rows \subseteq AuctionRow
      BY <1>3, AggregateRows
    <3>2. \E row \in rows : Rewrites(a, row)
      <4>1. EndClock(a) => Rewrites(a, [auctions[a] EXCEPT !.ended = TRUE])
        BY <1>1, Rewritten
      <4>2. Cancel(a) => Rewrites(a, cancelled)
        BY <1>1, Rewritten
      <4>3. CommitWinner(a) => Rewrites(a, [auctions[a] EXCEPT !.allocation = "committed"])
        BY <1>1, Rewritten
      <4>4. ReleaseWinner(a) => Rewrites(a, [auctions[a] EXCEPT !.allocation = "released"])
        BY <1>1, Rewritten
      <4> QED
        BY <2>5, <4>1, <4>2, <4>3, <4>4
    <3> QED
      BY <1>2, <3>1, <3>2
  <2>6. CASE SideStep
    BY <1>1, <2>6 DEF SideStep, EnsureWinnerOrder, QueueAuctionRecompute, OtherSources,
                      auctionVars, vars
  <2> QED
    BY <2>1, <2>2, <2>3, <2>4, <2>5, <2>6, NextSteps
<1>5. canonical' \subseteq Auctions
  <2>1. ASSUME NEW a \in Auctions, EndClock(a) \/ Cancel(a) \/ CommitWinner(a) \/ ReleaseWinner(a)
        PROVE  canonical' = canonical
    BY <2>1 DEF EndClock, Cancel, CommitWinner, ReleaseWinner
  <2>2. StartStep \/ AcceptStep \/ UnsoldStep \/ SoldStep => canonical' = canonical
    BY DEF StartStep, AcceptStep, UnsoldStep, SoldStep, Start, AcceptBid, CloseUnsold, CloseSold
  <2>3. SideStep => canonical' \subseteq Auctions
    BY <1>1 DEF SideStep, EnsureWinnerOrder, QueueAuctionRecompute, OtherSources, auctionVars, vars
  <2> QED
    BY <1>1, <2>1, <2>2, <2>3, NextSteps
<1> QED
  BY <1>4, <1>5

LEMMA TypeStep == TypeOK /\ [Next]_vars => TypeOK'
<1> SUFFICES ASSUME TypeOK, [Next]_vars
             PROVE  TypeOK'
  OBVIOUS
<1>1. StockTypeOK'
  <2>1. CASE StartStep
    BY <2>1, StartStockType DEF StartStep
  <2>2. CASE ~ StartStep
    BY <2>2, LedgerStep, StockTypeStep DEF TypeOK
  <2> QED
    BY <2>1, <2>2
<1> QED
  BY <1>1, LineupTypeStep, AggregateTypeStep DEF TypeOK

LEMMA InitTyped == Init => TypeOK
<1> SUFFICES ASSUME Init
             PROVE  TypeOK
  OBVIOUS
<1>1. StockTypeOK
  BY MaxUnitsAssumption DEF Init, StockInit, StockTypeOK, Row, NoRow
<1>2. lineup \in [Items -> LineupRow]
  BY RegistrationsAssumption DEF Init, LineupInit
<1> QED
  BY <1>1, <1>2, BlankType DEF Init, TypeOK

(***************************************************************************)
(* Type correctness of auctions, lineup and ledger together: no allocation *)
(* and no counter ever becomes negative or exceeds its bound.              *)
(***************************************************************************)
THEOREM AuctionTypeCorrect == Spec => []TypeOK
  BY InitTyped, TypeStep, PTL DEF Spec

-----------------------------------------------------------------------------
(* The lifecycle and its ledger rows.                                      *)

\* What BlankUntilStarted and HoldFollowsLifecycle say of one aggregate.
RowFollowsLifecycle(r) ==
    /\ r.status = "none" => r = NoAuction
    /\ r.status = "active" => r.allocation = "held"
    /\ r.status = "closed" /\ r.winner = NoBidder => r.allocation = "released"
    /\ r.winner # NoBidder => r.status = "closed" /\ r.reason = "settled"

LEMMA RowsFollowLifecycle ==
    BlankUntilStarted /\ HoldFollowsLifecycle
    <=> \A a \in Auctions : RowFollowsLifecycle(auctions[a])
  BY DEF BlankUntilStarted, HoldFollowsLifecycle, RowFollowsLifecycle, HasWinner

\* Steps that are not the auctions' own leave aggregates and their rows alone.
LEMMA SideKeepsAuctions ==
    ASSUME LifecycleInv, SideStep
    PROVE  auctions' = auctions /\ \A a \in Auctions : res'[a] = res[a]
<1>1. res \in [Keys -> Row] /\ Auctions \subseteq Keys
  BY AuctionAssumption DEF LifecycleInv, TypeOK, StockTypeOK
<1>2. \A a \in Auctions : a \notin DueKeys
  BY DEF LifecycleInv, AllocationMatchesLedger, DueKeys
<1>3. auctions' = auctions
  BY DEF SideStep, EnsureWinnerOrder, QueueAuctionRecompute, OtherSources, auctionVars, vars
<1>4. ASSUME NEW k \in Keys \ Auctions,
             \/ \E q \in 1..MaxUnits : Reserve(k, q, "later")
             \/ Release(k) \/ Commit(k) \/ Lapse(k) \/ QueueRecompute(k)
      PROVE  \A a \in Auctions : res'[a] = res[a]
  BY <1>1, <1>4 DEF Reserve, Release, Commit, WriteRow, Lapse, QueueRecompute
<1>5. ExpireSweep => \A a \in Auctions : res'[a] = res[a]
  BY <1>1, <1>2 DEF ExpireSweep, Swept
<1>6. (\E k \in Keys : AbortQueued(k)) => res' = res
  BY DEF AbortQueued
<1>7. (\E v \in Variants, n \in SaveQuantities : Save(v, n)) => res' = res
  BY DEF Save
<1>8. OtherSources => \A a \in Auctions : res'[a] = res[a]
  BY <1>4, <1>5, <1>6, <1>7 DEF OtherSources
<1>9. SellerEdits \/ UNCHANGED vars => res' = res
  BY DEF SellerEdits, StockAdjust, Register, stockVars, vars
<1>10. (\E a \in Auctions : EnsureWinnerOrder(a) \/ QueueAuctionRecompute(a)) => res' = res
  BY DEF EnsureWinnerOrder, QueueAuctionRecompute, QueueRecompute, stockVars
<1> QED
  BY <1>3, <1>8, <1>9, <1>10 DEF SideStep

\* A started auction's row and aggregate; the sweep in the same transaction skips others.
LEMMA StartWrites ==
    ASSUME LifecycleInv, NEW a \in Auctions, NEW q \in 1..MaxUnits, NEW p \in 1..MaxPrice,
           Start(a, q, p)
    PROVE  /\ res'[a] = AuctionHold(q)
           /\ \A b \in Auctions \ {a} : res'[b] = res[b]
<1>1. res \in [Keys -> Row] /\ Auctions \subseteq Keys
  BY AuctionAssumption DEF LifecycleInv, TypeOK, StockTypeOK
<1>2. \A b \in Auctions : b \notin DueKeys
  BY DEF LifecycleInv, AllocationMatchesLedger, DueKeys
<1>3. res' = [Swept(res, DueKeys) EXCEPT ![a] = AuctionHold(q)]
  BY DEF Start
<1> QED
  BY <1>1, <1>2, <1>3 DEF Swept

LEMMA LifecycleStep == LifecycleInv /\ [Next]_vars => LifecycleInv'
<1> SUFFICES ASSUME LifecycleInv, [Next]_vars
             PROVE  LifecycleInv'
  OBVIOUS
<1>1. /\ auctions \in [Auctions -> AuctionRow]
      /\ res \in [Keys -> Row] /\ Auctions \subseteq Keys
  BY AuctionAssumption DEF LifecycleInv, TypeOK, StockTypeOK
<1>2. TypeOK'
  BY TypeStep DEF LifecycleInv
<1>3. \A b \in Auctions : RowFollowsLifecycle(auctions[b])
  BY RowsFollowLifecycle DEF LifecycleInv
<1> DEFINE Agrees(b) == /\ res[b].state = auctions[b].allocation
                        /\ res[b].quantity = auctions[b].quantity
                        /\ res[b].expiry = "never"
           Agrees1(b) == /\ res'[b].state = auctions'[b].allocation
                         /\ res'[b].quantity = auctions'[b].quantity
                         /\ res'[b].expiry = "never"
           Goal == /\ \A b \in Auctions : RowFollowsLifecycle(auctions'[b])
                   /\ \A b \in Auctions : Agrees1(b)
                   /\ OneActivePerEvent'
<1>4. \A b \in Auctions : Agrees(b)
  BY DEF LifecycleInv, AllocationMatchesLedger
<1>5. SUFFICES Goal
  <2>1. BlankUntilStarted' /\ HoldFollowsLifecycle'
    BY <1>5 DEF BlankUntilStarted, HoldFollowsLifecycle, RowFollowsLifecycle, HasWinner
  <2>2. AllocationMatchesLedger'
    BY <1>5 DEF AllocationMatchesLedger
  <2> QED
    BY <1>2, <1>5, <2>1, <2>2 DEF LifecycleInv
<1>6. ASSUME NEW a \in Auctions, NEW row, Rewrites(a, row)
      PROVE  auctions'[a] = row /\ \A b \in Auctions \ {a} : auctions'[b] = auctions[b]
  BY <1>1, <1>6 DEF Rewrites
\* A rewrite of one aggregate that keeps its own row in step and starts no auction.
<1>7. ASSUME NEW a \in Auctions, NEW row, Rewrites(a, row), RowFollowsLifecycle(row),
             row.status = "active" => auctions[a].status = "active",
             \A b \in Auctions \ {a} : res'[b] = res[b],
             res'[a].state = row.allocation, res'[a].quantity = row.quantity,
             res'[a].expiry = "never"
      PROVE  Goal
  <2>1. \A b \in Auctions : RowFollowsLifecycle(auctions'[b])
    BY <1>3, <1>6, <1>7
  <2>2. \A b \in Auctions : Agrees1(b)
    BY <1>4, <1>6, <1>7
  <2>3. \A b \in Auctions : auctions'[b].status = "active" => auctions[b].status = "active"
    BY <1>6, <1>7
  <2>4. OneActivePerEvent'
    BY <2>3 DEF LifecycleInv, OneActivePerEvent, EventOfAuction
  <2> QED
    BY <2>1, <2>2, <2>4
<1>8. ASSUME NEW a \in Auctions, Release(a)
      PROVE  /\ \A b \in Auctions \ {a} : res'[b] = res[b]
             /\ res'[a].state = "released" /\ res'[a].expiry = "never"
             /\ res'[a].quantity = res[a].quantity
  BY <1>1, <1>8 DEF Release, WriteRow, Row
<1>9. CASE StartStep
  <2>1. PICK a \in Auctions, q \in 1..MaxUnits, p \in 1..MaxPrice : Start(a, q, p)
    BY <1>9 DEF StartStep
  <2> DEFINE row == [NoAuction EXCEPT !.status = "active", !.quantity = q,
                                      !.price = p, !.allocation = "held"]
  <2>2. Rewrites(a, row)
    BY <1>1, <2>1, Rewritten
  <2>3. row.status = "active" /\ row.allocation = "held" /\ row.quantity = q /\ row.winner = NoBidder
    BY DEF NoAuction
  <2> HIDE DEF row
  <2>4. auctions'[a] = row /\ \A b \in Auctions \ {a} : auctions'[b] = auctions[b]
    BY <1>6, <2>2
  <2>5. \A b \in Auctions : RowFollowsLifecycle(auctions'[b])
    BY <1>3, <2>3, <2>4 DEF RowFollowsLifecycle
  <2>6. \A b \in Auctions : Agrees1(b)
    <3>1. res'[a] = AuctionHold(q) /\ \A b \in Auctions \ {a} : res'[b] = res[b]
      BY <2>1, StartWrites
    <3>2. Agrees1(a)
      BY <2>3, <2>4, <3>1 DEF AuctionHold
    <3>3. \A b \in Auctions \ {a} : Agrees1(b)
      BY <1>4, <2>4, <3>1
    <3> QED
      BY <3>2, <3>3
  <2>7. OneActivePerEvent'
    <3>1. NoActiveAuction(EventOfAuction(a))
      BY <2>1 DEF Start
    <3> QED
      BY <2>4, <3>1 DEF LifecycleInv, OneActivePerEvent, NoActiveAuction, EventOfAuction
  <2> QED
    BY <2>5, <2>6, <2>7
<1>10. CASE AcceptStep
  <2>1. PICK a \in Auctions, b \in Bid : auctions[a].status = "active" /\ AcceptBid(a, b)
    BY <1>10 DEF AcceptStep
  <2> DEFINE row == [auctions[a] EXCEPT !.bids = @ \cup {b}, !.price = b.amount]
  <2>2. Rewrites(a, row) /\ res' = res
    BY <1>1, <2>1, Rewritten DEF AcceptBid, stockVars
  <2>3. /\ row.status = auctions[a].status /\ row.reason = auctions[a].reason
        /\ row.winner = auctions[a].winner /\ row.allocation = auctions[a].allocation
        /\ row.quantity = auctions[a].quantity
    BY <1>1 DEF AuctionRow
  <2> HIDE DEF row
  <2>4. RowFollowsLifecycle(row)
    BY <1>3, <2>1, <2>3 DEF RowFollowsLifecycle
  <2> QED
    BY <1>4, <1>7, <2>2, <2>3, <2>4
<1>11. CASE UnsoldStep
  <2>1. PICK a \in Auctions : auctions[a].status = "active" /\ CloseUnsold(a)
    BY <1>11 DEF UnsoldStep
  <2> DEFINE row == [auctions[a] EXCEPT !.status = "closed", !.reason = "settled",
                                        !.allocation = "released"]
  <2>2. Rewrites(a, row) /\ Release(a)
    BY <1>1, <2>1, Rewritten DEF CloseUnsold, ReleaseHold
  <2>3. /\ row.status = "closed" /\ row.winner = auctions[a].winner /\ row.reason = "settled"
        /\ row.allocation = "released" /\ row.quantity = auctions[a].quantity
    BY <1>1 DEF AuctionRow
  <2> HIDE DEF row
  <2>4. RowFollowsLifecycle(row)
    BY <2>3 DEF RowFollowsLifecycle
  <2> QED
    BY <1>4, <1>7, <1>8, <2>2, <2>3, <2>4
<1>12. CASE SoldStep
  <2>1. PICK a \in Auctions : auctions[a].status = "active" /\ CloseSold(a)
    BY <1>12 DEF SoldStep
  <2>2. PICK b \in auctions[a].bids :
          Rewrites(a, [auctions[a] EXCEPT !.status = "closed", !.reason = "settled",
                                          !.winner = b.bidder])
    BY <1>1, <2>1, Rewritten
  <2> DEFINE row == [auctions[a] EXCEPT !.status = "closed", !.reason = "settled",
                                        !.winner = b.bidder]
  <2>3. /\ row.status = "closed" /\ row.winner = b.bidder /\ row.reason = "settled"
        /\ row.allocation = auctions[a].allocation /\ row.quantity = auctions[a].quantity
    BY <1>1 DEF AuctionRow
  <2>4. b.bidder # NoBidder
    BY <1>1, AuctionAssumption DEF AuctionRow, Bid
  <2>5. Rewrites(a, row) /\ res' = res
    BY <2>1, <2>2 DEF CloseSold, stockVars
  <2> HIDE DEF row
  <2>6. RowFollowsLifecycle(row)
    BY <2>3, <2>4 DEF RowFollowsLifecycle
  <2> QED
    BY <1>4, <1>7, <2>3, <2>5, <2>6
<1>13. ASSUME NEW a \in Auctions, EndClock(a)
       PROVE  Goal
  <2> DEFINE row == [auctions[a] EXCEPT !.ended = TRUE]
  <2>1. Rewrites(a, row) /\ res' = res /\ auctions[a].status = "active"
    BY <1>1, <1>13, Rewritten DEF EndClock, stockVars
  <2>2. /\ row.status = auctions[a].status /\ row.reason = auctions[a].reason
        /\ row.winner = auctions[a].winner /\ row.allocation = auctions[a].allocation
        /\ row.quantity = auctions[a].quantity
    BY <1>1 DEF AuctionRow
  <2> HIDE DEF row
  <2>3. RowFollowsLifecycle(row)
    BY <1>3, <2>1, <2>2 DEF RowFollowsLifecycle
  <2> QED
    BY <1>4, <1>7, <2>1, <2>2, <2>3
<1>14. ASSUME NEW a \in Auctions, Cancel(a)
       PROVE  Goal
  <2> DEFINE row == [auctions[a] EXCEPT !.status = "closed", !.reason = "seller-cancelled",
                                        !.winner = NoBidder, !.allocation = "released"]
  <2>1. Rewrites(a, row) /\ Release(a)
    BY <1>1, <1>14, Rewritten DEF Cancel, ReleaseHold
  <2>2. /\ row.status = "closed" /\ row.winner = NoBidder
        /\ row.allocation = "released" /\ row.quantity = auctions[a].quantity
    BY <1>1 DEF AuctionRow
  <2> HIDE DEF row
  <2>3. RowFollowsLifecycle(row)
    BY <2>2 DEF RowFollowsLifecycle
  <2> QED
    BY <1>4, <1>7, <1>8, <2>1, <2>2, <2>3
<1>15. ASSUME NEW a \in Auctions, CommitWinner(a)
       PROVE  Goal
  <2> DEFINE row == [auctions[a] EXCEPT !.allocation = "committed"]
  <2>1. Rewrites(a, row) /\ Commit(a) /\ auctions[a].winner # NoBidder
    BY <1>1, <1>15, Rewritten DEF CommitWinner, HasWinner
  <2>2. /\ row.status = auctions[a].status /\ row.reason = auctions[a].reason
        /\ row.winner = auctions[a].winner
        /\ row.allocation = "committed" /\ row.quantity = auctions[a].quantity
    BY <1>1 DEF AuctionRow
  <2> HIDE DEF row
  <2>3. RowFollowsLifecycle(row)
    BY <1>3, <2>1, <2>2 DEF RowFollowsLifecycle
  <2>4. /\ \A b \in Auctions \ {a} : res'[b] = res[b]
        /\ res'[a].state = "committed" /\ res'[a].expiry = "never"
        /\ res'[a].quantity = res[a].quantity
    BY <1>1, <2>1 DEF Commit, WriteRow, Row
  <2> QED
    BY <1>3, <1>4, <1>7, <2>1, <2>2, <2>3, <2>4 DEF RowFollowsLifecycle
<1>16. ASSUME NEW a \in Auctions, ReleaseWinner(a)
       PROVE  Goal
  <2> DEFINE row == [auctions[a] EXCEPT !.allocation = "released"]
  <2>1. Rewrites(a, row) /\ Release(a) /\ auctions[a].winner # NoBidder
    BY <1>1, <1>16, Rewritten DEF ReleaseWinner, ReleaseHold, HasWinner
  <2>2. /\ row.status = auctions[a].status /\ row.reason = auctions[a].reason
        /\ row.winner = auctions[a].winner
        /\ row.allocation = "released" /\ row.quantity = auctions[a].quantity
    BY <1>1 DEF AuctionRow
  <2> HIDE DEF row
  <2>3. RowFollowsLifecycle(row)
    BY <1>3, <2>1, <2>2 DEF RowFollowsLifecycle
  <2> QED
    BY <1>4, <1>7, <1>8, <2>1, <2>2, <2>3
<1>17. CASE SideStep
  <2>1. auctions' = auctions /\ \A a \in Auctions : res'[a] = res[a]
    BY <1>17, SideKeepsAuctions
  <2> QED
    BY <1>3, <1>4, <2>1 DEF LifecycleInv, OneActivePerEvent
<1> QED
  BY <1>9, <1>10, <1>11, <1>12, <1>13, <1>14, <1>15, <1>16, <1>17, NextSteps

LEMMA LifecycleInvariant == Spec => []LifecycleInv
<1>1. Init => LifecycleInv
  <2> SUFFICES ASSUME Init
               PROVE  LifecycleInv
    OBVIOUS
  <2>1. \A a \in Auctions : auctions[a] = NoAuction /\ res[a] = NoRow
    BY AuctionAssumption DEF Init, StockInit
  <2>2. RowFollowsLifecycle(NoAuction)
    BY DEF RowFollowsLifecycle, NoAuction
  <2>3. BlankUntilStarted /\ HoldFollowsLifecycle
    BY <2>1, <2>2, RowsFollowLifecycle
  <2>4. NoAuction.status # "active"
    BY DEF NoAuction
  <2>5. OneActivePerEvent
    BY <2>1, <2>4 DEF OneActivePerEvent
  <2>6. AllocationMatchesLedger
    BY <2>1 DEF AllocationMatchesLedger, NoAuction, NoRow
  <2>7. TypeOK
    BY InitTyped
  <2> QED
    BY <2>3, <2>5, <2>6, <2>7 DEF LifecycleInv
<1> QED
  BY <1>1, LifecycleStep, PTL DEF Spec

(***************************************************************************)
(* An event never has two active auctions.                                 *)
(***************************************************************************)
THEOREM AuctionOneActive == Spec => []OneActivePerEvent
  BY LifecycleInvariant, PTL DEF LifecycleInv

(***************************************************************************)
(* The aggregate's allocationState and quantity always equal the state and *)
(* quantity of its reservation row, and no sweep can take that row.        *)
(***************************************************************************)
THEOREM AuctionMatchesLedger == Spec => []AllocationMatchesLedger
  BY LifecycleInvariant, PTL DEF LifecycleInv

(***************************************************************************)
(* Running auctions and unpaid winners hold their units; unsold and        *)
(* cancelled auctions hold none.                                           *)
(***************************************************************************)
THEOREM AuctionHoldLifecycle == Spec => []HoldFollowsLifecycle
  BY LifecycleInvariant, PTL DEF LifecycleInv

-----------------------------------------------------------------------------
(* The bids of one aggregate.                                              *)

\* The price is the highest bid, no two bids are equal, no request is counted twice,
\* and the winner, if any, placed that highest bid.
BidsInOrder(r) ==
    /\ \A c \in r.bids : c.amount <= r.price
    /\ r.bids # {} => \E c \in r.bids : c.amount = r.price
    /\ \A c, d \in r.bids : c.amount = d.amount => c = d
    /\ \A c, d \in r.bids : c.bidder = d.bidder /\ c.request = d.request => c = d
    /\ r.winner # NoBidder => \E c \in r.bids : c.bidder = r.winner /\ c.amount = r.price

BidInv == \A a \in Auctions : BidsInOrder(auctions[a])

LEMMA BidsOnceAccepted ==
    ASSUME NEW r \in AuctionRow, BidsInOrder(r), r.winner = NoBidder,
           NEW b \in Bid, b.amount > r.price,
           ~ \E c \in r.bids : c.bidder = b.bidder /\ c.request = b.request
    PROVE  BidsInOrder([r EXCEPT !.bids = @ \cup {b}, !.price = b.amount])
<1> DEFINE row == [r EXCEPT !.bids = @ \cup {b}, !.price = b.amount]
<1>1. row.bids = r.bids \cup {b} /\ row.price = b.amount /\ row.winner = NoBidder
  BY DEF AuctionRow
<1>2. r.price \in Int /\ \A c \in r.bids \cup {b} : c.amount \in Int
  BY AuctionAssumption DEF AuctionRow, Bid
<1>3. \A c \in r.bids : c.amount < b.amount
  BY <1>2 DEF BidsInOrder
<1> HIDE DEF row
<1>4. \A c \in row.bids : c.amount <= row.price
  BY <1>1, <1>2, <1>3
<1>5. \E c \in row.bids : c.amount = row.price
  BY <1>1
<1>6. \A c, d \in row.bids : c.amount = d.amount => c = d
  BY <1>1, <1>2, <1>3 DEF BidsInOrder
<1>7. \A c, d \in row.bids : c.bidder = d.bidder /\ c.request = d.request => c = d
  BY <1>1 DEF BidsInOrder
<1>8. BidsInOrder(row)
  BY <1>1, <1>4, <1>5, <1>6, <1>7 DEF BidsInOrder
<1> QED
  BY <1>8 DEF row

LEMMA BidsOnceSettled ==
    ASSUME NEW r \in AuctionRow, BidsInOrder(r), NEW b \in r.bids, IsTopBid(b, r.bids)
    PROVE  BidsInOrder([r EXCEPT !.status = "closed", !.reason = "settled", !.winner = b.bidder])
<1> DEFINE row == [r EXCEPT !.status = "closed", !.reason = "settled", !.winner = b.bidder]
<1>1. row.bids = r.bids /\ row.price = r.price /\ row.winner = b.bidder
  BY DEF AuctionRow
<1>2. r.price \in Int /\ \A c \in r.bids : c.amount \in Int
  BY AuctionAssumption DEF AuctionRow, Bid
<1>3. b.amount = r.price
  BY <1>2 DEF BidsInOrder, IsTopBid
<1> HIDE DEF row
<1>4. BidsInOrder(row)
  BY <1>1, <1>3 DEF BidsInOrder
<1> QED
  BY <1>4 DEF row

LEMMA BidStep == LifecycleInv /\ BidInv /\ [Next]_vars => BidInv'
<1> SUFFICES ASSUME LifecycleInv, BidInv, [Next]_vars
             PROVE  BidInv'
  OBVIOUS
<1>1. auctions \in [Auctions -> AuctionRow] /\ \A a \in Auctions : auctions[a] \in AuctionRow
  BY DEF LifecycleInv, TypeOK
<1>2. ASSUME NEW a \in Auctions, NEW row, Rewrites(a, row), BidsInOrder(row)
      PROVE  BidInv'
  BY <1>1, <1>2 DEF Rewrites, BidInv
\* A rewrite that leaves the bids and the price alone and names no new winner.
<1>3. ASSUME NEW a \in Auctions, NEW row, Rewrites(a, row), row.bids = auctions[a].bids,
             row.price = auctions[a].price, row.winner \in {auctions[a].winner, NoBidder}
      PROVE  BidInv'
  <2>1. BidsInOrder(auctions[a])
    BY DEF BidInv
  <2>2. BidsInOrder(row)
    BY <1>3, <2>1 DEF BidsInOrder
  <2> QED
    BY <1>2, <1>3, <2>2
<1>4. CASE StartStep
  <2>1. PICK a \in Auctions, q \in 1..MaxUnits, p \in 1..MaxPrice : Start(a, q, p)
    BY <1>4 DEF StartStep
  <2> DEFINE row == [NoAuction EXCEPT !.status = "active", !.quantity = q,
                                      !.price = p, !.allocation = "held"]
  <2>2. row.bids = {} /\ row.winner = NoBidder
    BY DEF NoAuction
  <2>3. Rewrites(a, row)
    BY <1>1, <2>1, Rewritten
  <2> HIDE DEF row
  <2>4. BidsInOrder(row)
    BY <2>2 DEF BidsInOrder
  <2> QED
    BY <1>2, <2>3, <2>4
<1>5. CASE AcceptStep
  <2>1. PICK a \in Auctions, b \in Bid : /\ ~ IsReplay(a, b) /\ auctions[a].status = "active"
                                        /\ AcceptBid(a, b)
    BY <1>5 DEF AcceptStep
  <2>2. auctions[a].winner = NoBidder
    BY <2>1 DEF LifecycleInv, HoldFollowsLifecycle, HasWinner
  <2>3. BidsInOrder([auctions[a] EXCEPT !.bids = @ \cup {b}, !.price = b.amount])
    <3>1. b.amount > auctions[a].price
      BY <2>1 DEF AcceptBid
    <3>2. ~ \E c \in auctions[a].bids : c.bidder = b.bidder /\ c.request = b.request
      BY <2>1 DEF IsReplay
    <3> QED
      BY <1>1, <2>2, <3>1, <3>2, BidsOnceAccepted DEF BidInv
  <2> QED
    BY <1>1, <1>2, <2>1, <2>3, Rewritten
<1>6. CASE SoldStep
  <2>1. PICK a \in Auctions : CloseSold(a)
    BY <1>6 DEF SoldStep
  <2>2. PICK b \in auctions[a].bids :
          /\ IsTopBid(b, auctions[a].bids)
          /\ Rewrites(a, [auctions[a] EXCEPT !.status = "closed", !.reason = "settled",
                                             !.winner = b.bidder])
    BY <1>1, <2>1, Rewritten
  <2>3. BidsInOrder([auctions[a] EXCEPT !.status = "closed", !.reason = "settled",
                                        !.winner = b.bidder])
    BY <1>1, <2>2, BidsOnceSettled DEF BidInv
  <2> QED
    BY <1>2, <2>2, <2>3
<1>7. CASE UnsoldStep
  <2>1. PICK a \in Auctions : CloseUnsold(a)
    BY <1>7 DEF UnsoldStep
  <2> DEFINE row == [auctions[a] EXCEPT !.status = "closed", !.reason = "settled",
                                        !.allocation = "released"]
  <2>2. Rewrites(a, row)
    BY <1>1, <2>1, Rewritten
  <2>3. row.bids = auctions[a].bids /\ row.price = auctions[a].price
        /\ row.winner = auctions[a].winner
    BY <1>1 DEF AuctionRow
  <2> QED
    BY <1>3, <2>2, <2>3
<1>8. ASSUME NEW a \in Auctions, EndClock(a)
      PROVE  BidInv'
  <2> DEFINE row == [auctions[a] EXCEPT !.ended = TRUE]
  <2>1. Rewrites(a, row)
    BY <1>1, <1>8, Rewritten
  <2>2. row.bids = auctions[a].bids /\ row.price = auctions[a].price
        /\ row.winner = auctions[a].winner
    BY <1>1 DEF AuctionRow
  <2> QED
    BY <1>3, <2>1, <2>2
<1>9. ASSUME NEW a \in Auctions, Cancel(a)
      PROVE  BidInv'
  <2> DEFINE row == [auctions[a] EXCEPT !.status = "closed", !.reason = "seller-cancelled",
                                        !.winner = NoBidder, !.allocation = "released"]
  <2>1. Rewrites(a, row)
    BY <1>1, <1>9, Rewritten
  <2>2. row.bids = auctions[a].bids /\ row.price = auctions[a].price /\ row.winner = NoBidder
    BY <1>1 DEF AuctionRow
  <2> QED
    BY <1>3, <2>1, <2>2
<1>10. ASSUME NEW a \in Auctions, NEW s \in {"committed", "released"},
              Rewrites(a, [auctions[a] EXCEPT !.allocation = s])
       PROVE  BidInv'
  <2> DEFINE row == [auctions[a] EXCEPT !.allocation = s]
  <2>1. row.bids = auctions[a].bids /\ row.price = auctions[a].price
        /\ row.winner = auctions[a].winner
    BY <1>1 DEF AuctionRow
  <2> QED
    BY <1>3, <1>10, <2>1
<1>11. ASSUME NEW a \in Auctions, CommitWinner(a) \/ ReleaseWinner(a)
       PROVE  BidInv'
  BY <1>1, <1>10, <1>11, Rewritten
<1>12. CASE SideStep
  BY <1>12, SideKeepsAuctions DEF BidInv
<1> QED
  BY <1>4, <1>5, <1>6, <1>7, <1>8, <1>9, <1>11, <1>12, NextSteps

LEMMA BidInvariant == Spec => []BidInv
<1>1. Init => BidInv
  <2>1. NoAuction.bids = {} /\ NoAuction.winner = NoBidder
    BY DEF NoAuction
  <2>2. BidsInOrder(NoAuction)
    BY <2>1 DEF BidsInOrder
  <2> QED
    BY <2>2 DEF Init, BidInv
<1> QED
  BY <1>1, LifecycleInvariant, BidStep, PTL DEF Spec

(***************************************************************************)
(* A winner is the bidder of the one highest bid, at the closing price.    *)
(***************************************************************************)
THEOREM AuctionWinner == Spec => []WinnerIsTopBidder
<1>1. TypeOK /\ BidInv => WinnerIsTopBidder
  <2> SUFFICES ASSUME TypeOK, BidInv, NEW a \in Auctions, HasWinner(a)
               PROVE  \E b \in auctions[a].bids :
                         /\ b.bidder = auctions[a].winner
                         /\ b.amount = auctions[a].price
                         /\ \A c \in auctions[a].bids \ {b} : c.amount < b.amount
    BY DEF WinnerIsTopBidder
  <2>1. BidsInOrder(auctions[a]) /\ auctions[a] \in AuctionRow
    BY DEF BidInv, TypeOK
  <2>2. PICK b \in auctions[a].bids : b.bidder = auctions[a].winner /\ b.amount = auctions[a].price
    BY <2>1 DEF BidsInOrder, HasWinner
  <2>3. auctions[a].price \in Int /\ \A c \in auctions[a].bids : c.amount \in Int
    BY <2>1, AuctionAssumption DEF AuctionRow, Bid
  <2>4. \A c \in auctions[a].bids \ {b} : c.amount < b.amount
    BY <2>1, <2>2, <2>3 DEF BidsInOrder
  <2> QED
    BY <2>2, <2>4
<1> QED
  BY <1>1, AuctionTypeCorrect, BidInvariant, PTL

(***************************************************************************)
(* A bid request, retried or raced, adds at most one bid.                  *)
(***************************************************************************)
THEOREM AuctionBidsOnce == Spec => []BidCountedOnce
<1>1. BidInv => BidCountedOnce
  BY DEF BidInv, BidsInOrder, BidCountedOnce
<1> QED
  BY <1>1, BidInvariant, PTL

-----------------------------------------------------------------------------
(* Starting an auction takes no unit that the ledger does not have.        *)

LEMMA StartWithinStock ==
    ASSUME LifecycleInv, NEW a \in Auctions, NEW q \in 1..MaxUnits, NEW p \in 1..MaxPrice,
           Start(a, q, p), NEW v \in Variants
    PROVE  SumReserved(res', v) <= SumReserved(res, v) \/ SumReserved(res', v) <= qty'[v]
<1> DEFINE swept == Swept(res, DueKeys)
<1>1. res \in [Keys -> Row] /\ a \in Keys /\ qty \in [Variants -> 0..MaxUnits]
  BY AuctionAssumption DEF LifecycleInv, TypeOK, StockTypeOK
<1>2. /\ res' = [swept EXCEPT ![a] = AuctionHold(q)]
      /\ ReserveAdmits(swept, a, q) /\ qty' = qty /\ auctions[a].status = "none"
  BY DEF Start
<1>3. /\ swept \in [Keys -> Row]
      /\ \A k \in Keys : Consumes(swept[k]) => Consumes(res[k]) /\ swept[k].quantity = res[k].quantity
  <2>1. swept \in [Keys -> Row]
    BY SweptType DEF LifecycleInv, TypeOK, DueKeys
  <2>2. \A k \in Keys : swept[k] = IF k \in DueKeys
                                   THEN [res[k] EXCEPT !.state = "expired", !.expiry = "never"]
                                   ELSE res[k]
    BY DEF Swept
  <2>3. \A k \in DueKeys : ~ Consumes(swept[k])
    BY <1>1, <2>2 DEF DueKeys, Consumes, Row
  <2> QED
    BY <2>1, <2>2, <2>3
<1>4. swept[a].state = "none"
  <2>1. auctions[a] = NoAuction
    BY <1>2 DEF LifecycleInv, BlankUntilStarted
  <2>2. res[a].state = "none"
    BY <2>1 DEF LifecycleInv, AllocationMatchesLedger, NoAuction
  <2> QED
    BY <1>1, <2>2 DEF Swept, DueKeys
<1> HIDE DEF swept
<1>5. SumReserved(swept, v) <= SumReserved(res, v)
  BY <1>3, SumMonotone
<1>6. SumReserved(swept, v) \in Nat /\ SumReserved(res, v) \in Nat /\ SumReserved(res', v) \in Nat
  BY SumType
<1>7. CASE VariantOf[a] # v
  <2>1. \A k \in KeysOf(v) : res'[k] = swept[k]
    BY <1>2, <1>3, <1>7 DEF KeysOf
  <2>2. UnitsOf(res', KeysOf(v)) = UnitsOf(swept, KeysOf(v))
    BY <2>1 DEF UnitsOf
  <2> QED
    BY <1>5, <1>6, <2>2 DEF SumReserved
<1>8. CASE VariantOf[a] = v
  <2>1. q \in Nat /\ qty[v] \in Nat
    BY <1>1, MaxUnitsAssumption
  <2>2. SumReserved(res', v) <= SumReserved(swept, v) + q
    <3> DEFINE before == 0
    <3>1. /\ \A j \in Keys \ {a} : res'[j] = swept[j]
          /\ res'[a].quantity = q
      BY <1>1, <1>2, <1>3 DEF AuctionHold
    <3>2. before \in Nat /\ before <= q /\ ~ (before > 0) /\ q - before = q
      BY <2>1
    <3> HIDE DEF before
    <3>3. SumReserved(res', v) <= SumReserved(swept, v) + (q - before)
      BY <1>1, <2>1, <3>1, <3>2, SumGrowth
    <3> QED
      BY <3>2, <3>3
  <2>3. q <= AvailableQty(SumReserved(swept, v), v)
    BY <1>2, <1>4, <1>8 DEF ReserveAdmits, Incremental
  <2>4. SumReserved(swept, v) + q <= qty[v]
    BY <1>6, <2>1, <2>3 DEF AvailableQty
  <2> QED
    BY <1>2, <1>6, <2>1, <2>2, <2>4
<1> QED
  BY <1>7, <1>8

(***************************************************************************)
(* With auctions, carts and seller holds on one ledger, and no seller edit *)
(* of qty during the sale, the units held and sold of a variant never      *)
(* exceed its stock, in every interleaving and however stale the counter.  *)
(***************************************************************************)
THEOREM AuctionNeverOversold ==
    ASSUME SaveQuantities = {}
    PROVE  Spec => []NoOversell
<1>1. Init => NoOversell
  <2> SUFFICES ASSUME Init, NEW v \in Variants
               PROVE  SumReserved(res, v) <= qty[v]
    BY DEF NoOversell
  <2>1. UnitsOf(res, KeysOf(v)) = {}
    BY DEF Init, StockInit, UnitsOf, KeysOf, NoRow, Consumes
  <2>2. SumReserved(res, v) = 0
    BY <2>1, FS_EmptySet DEF SumReserved
  <2> QED
    BY <2>2, MaxUnitsAssumption DEF Init, StockInit
<1>2. LifecycleInv /\ NoOversell /\ [Next]_vars => NoOversell'
  <2> SUFFICES ASSUME LifecycleInv, NoOversell, [Next]_vars, NEW v \in Variants
               PROVE  SumReserved(res', v) <= qty'[v]
    BY DEF NoOversell
  <2>1. StockTypeOK
    BY DEF LifecycleInv, TypeOK
  <2>2. SumReserved(res', v) <= SumReserved(res, v) \/ SumReserved(res', v) <= qty'[v]
    <3>1. CASE StartStep
      <4>1. PICK a \in Auctions, q \in 1..MaxUnits, p \in 1..MaxPrice : Start(a, q, p)
        BY <3>1 DEF StartStep
      <4> QED
        BY <4>1, StartWithinStock
    <3>2. CASE ~ StartStep
      BY <2>1, <3>2, LedgerStep, StepWithinStock
    <3> QED
      BY <3>1, <3>2
  <2>3. qty' = qty
    <3>1. CASE StartStep
      BY <3>1 DEF StartStep, Start
    <3>2. CASE ~ StartStep
      <4>1. [StockNext]_stockVars
        BY <3>2, LedgerStep
      <4> QED
        BY <4>1 DEF StockNext, Reserve, Release, Commit, Lapse, QueueRecompute, AbortQueued,
                    ExpireSweep, stockVars
    <3> QED
      BY <3>1, <3>2
  <2>4. SumReserved(res, v) <= qty[v]
    BY DEF NoOversell
  <2>5. SumReserved(res, v) \in Nat /\ SumReserved(res', v) \in Nat /\ qty[v] \in Int
    BY <2>1, SumType DEF StockTypeOK
  <2> QED
    BY <2>2, <2>3, <2>4, <2>5
<1> QED
  BY <1>1, <1>2, LifecycleInvariant, PTL DEF Spec

-----------------------------------------------------------------------------
(* Settled auctions.                                                       *)

\* What no step may change of a closed auction.
SettledRow(r, s) ==
    /\ s.status = r.status /\ s.reason = r.reason /\ s.quantity = r.quantity
    /\ s.price = r.price /\ s.bids = r.bids /\ s.winner = r.winner
    /\ r.allocation \in {"committed", "released"} => s.allocation = r.allocation

LEMMA SettledStep ==
    ASSUME LifecycleInv, [Next]_vars, NEW a \in Auctions, auctions[a].status = "closed"
    PROVE  SettledRow(auctions[a], auctions'[a])
<1>1. auctions \in [Auctions -> AuctionRow]
  BY DEF LifecycleInv, TypeOK
<1>2. ASSUME NEW b \in Auctions, NEW row, Rewrites(b, row), b # a
      PROVE  auctions'[a] = auctions[a]
  BY <1>1, <1>2 DEF Rewrites
<1>3. auctions'[a] = auctions[a] => SettledRow(auctions[a], auctions'[a])
  BY DEF SettledRow
<1>4. CASE StartStep
  <2>1. PICK b \in Auctions, q \in 1..MaxUnits, p \in 1..MaxPrice : Start(b, q, p)
    BY <1>4 DEF StartStep
  <2>2. auctions'[a] = auctions[a]
    BY <1>1, <2>1 DEF Start
  <2> QED
    BY <1>3, <2>2
<1>5. CASE AcceptStep
  <2>1. PICK b \in Auctions, bid \in Bid : auctions[b].status = "active" /\ AcceptBid(b, bid)
    BY <1>5 DEF AcceptStep
  <2>2. auctions'[a] = auctions[a]
    BY <1>1, <2>1 DEF AcceptBid
  <2> QED
    BY <1>3, <2>2
<1>6. CASE UnsoldStep \/ SoldStep
  <2>1. PICK b \in Auctions : auctions[b].status = "active" /\ (CloseUnsold(b) \/ CloseSold(b))
    BY <1>6 DEF UnsoldStep, SoldStep
  <2>2. auctions'[a] = auctions[a]
    BY <1>1, <2>1 DEF CloseUnsold, CloseSold
  <2> QED
    BY <1>3, <2>2
<1>7. ASSUME NEW b \in Auctions, EndClock(b) \/ Cancel(b)
      PROVE  SettledRow(auctions[a], auctions'[a])
  <2>1. auctions'[a] = auctions[a]
    BY <1>1, <1>7 DEF EndClock, Cancel
  <2> QED
    BY <1>3, <2>1
<1>8. ASSUME NEW b \in Auctions, CommitWinner(b) \/ ReleaseWinner(b)
      PROVE  SettledRow(auctions[a], auctions'[a])
  <2>1. PICK to \in {"committed", "released"} : Rewrites(b, [auctions[b] EXCEPT !.allocation = to])
    BY <1>8 DEF CommitWinner, ReleaseWinner, Rewrites
  <2>2. auctions[b].allocation = "held"
    BY <1>8 DEF CommitWinner, ReleaseWinner, ReleaseHold
  <2>3. CASE b # a
    BY <1>2, <1>3, <2>1, <2>3
  <2>4. CASE b = a
    <3>1. auctions'[a] = [auctions[a] EXCEPT !.allocation = to]
      BY <1>1, <2>1, <2>4 DEF Rewrites
    <3> QED
      BY <1>1, <2>2, <2>4, <3>1 DEF SettledRow, AuctionRow
  <2> QED
    BY <2>3, <2>4
<1>9. CASE SideStep
  BY <1>3, <1>9, SideKeepsAuctions
<1> QED
  BY <1>4, <1>5, <1>6, <1>7, <1>8, <1>9, NextSteps

(***************************************************************************)
(* Settled is final: whatever late bid, retry, settling read or payment    *)
(* comes, a closed auction keeps its bids, price, winner and reason, and a *)
(* paid or released allocation is never moved again.                       *)
(***************************************************************************)
THEOREM AuctionSettlementFinal == Spec => SettlementIsFinal
<1> DEFINE Final ==
      \A a \in Auctions : auctions[a].status = "closed" =>
          /\ \A f \in {"status", "reason", "quantity", "price", "bids", "winner"} :
                auctions'[a][f] = auctions[a][f]
          /\ auctions[a].allocation \in {"committed", "released"}
                => auctions'[a].allocation = auctions[a].allocation
<1>1. LifecycleInv /\ [Next]_vars => [Final]_vars
  BY SettledStep DEF SettledRow
<1> QED
  BY <1>1, LifecycleInvariant, PTL DEF Spec, SettlementIsFinal

-----------------------------------------------------------------------------
(* Units are in the lineup or with an auction.                             *)

\* The units of item i that each auction has.
Share(rows, i) ==
    [a \in Auctions |-> IF ItemOf[a] = i /\ rows[a].allocation \in {"held", "committed"}
                        THEN rows[a].quantity ELSE 0]

LEMMA ShareUnits ==
    ASSUME NEW rows \in [Auctions -> AuctionRow], NEW i \in Items
    PROVE  /\ {u \in Auctions \X (1..MaxUnits) :
                  /\ ItemOf[u[1]] = i
                  /\ rows[u[1]].allocation \in {"held", "committed"}
                  /\ u[2] <= rows[u[1]].quantity} = Spread(Auctions, Share(rows, i))
           /\ \A a \in Auctions : Share(rows, i)[a] \in 0..MaxUnits
           /\ IsFiniteSet(Auctions)
<1>1. ASSUME NEW a \in Auctions PROVE Share(rows, i)[a] \in 0..MaxUnits
  BY MaxUnitsAssumption DEF Share, AuctionRow
<1>2. \A u \in Auctions \X (1..MaxUnits) : u[2] <= Share(rows, i)[u[1]] <=>
         /\ ItemOf[u[1]] = i
         /\ rows[u[1]].allocation \in {"held", "committed"}
         /\ u[2] <= rows[u[1]].quantity
  BY MaxUnitsAssumption DEF Share, AuctionRow
<1>3. IsFiniteSet(Auctions)
  BY AuctionAssumption, KeysAssumption, FS_Subset
<1> QED
  BY <1>1, <1>2, <1>3 DEF Spread

(***************************************************************************)
(* A step that rewrites one aggregate changes the units of an item by the  *)
(* change of that auction's share.                                         *)
(***************************************************************************)
LEMMA ShareMoves ==
    ASSUME TypeOK, TypeOK', NEW a \in Auctions, \A b \in Auctions \ {a} : auctions'[b] = auctions[b],
           NEW i \in Items
    PROVE  /\ Cardinality(AllocatedUnits(i)')
              = Cardinality(AllocatedUnits(i)) + Share(auctions', i)[a] - Share(auctions, i)[a]
           /\ Cardinality(AllocatedUnits(i)) \in Nat
           /\ Share(auctions, i)[a] \in 0..MaxUnits /\ Share(auctions', i)[a] \in 0..MaxUnits
           /\ Cardinality(AllocatedUnits(i)) >= Share(auctions, i)[a]
<1>1. /\ AllocatedUnits(i) = Spread(Auctions, Share(auctions, i))
      /\ \A b \in Auctions : Share(auctions, i)[b] \in 0..MaxUnits
      /\ IsFiniteSet(Auctions)
  BY ShareUnits DEF TypeOK, AllocatedUnits
<1>2. /\ AllocatedUnits(i)' = Spread(Auctions, Share(auctions', i))
      /\ \A b \in Auctions : Share(auctions', i)[b] \in 0..MaxUnits
  BY ShareUnits DEF TypeOK, AllocatedUnits
<1>3. \A b \in Auctions \ {a} : Share(auctions', i)[b] = Share(auctions, i)[b]
  BY DEF Share
<1>4. Cardinality(AllocatedUnits(i)')
      = Cardinality(AllocatedUnits(i)) + Share(auctions', i)[a] - Share(auctions, i)[a]
  <2>1. PICK f, g : f = Share(auctions, i) /\ g = Share(auctions', i)
    OBVIOUS
  <2>2. /\ f[a] \in 0..MaxUnits /\ g[a] \in 0..MaxUnits
        /\ \A b \in Auctions \ {a} : g[b] = f[b]
    BY <1>1, <1>2, <1>3, <2>1
  <2>3. Cardinality(Spread(Auctions, g)) = Cardinality(Spread(Auctions, f)) + g[a] - f[a]
    BY <1>1, <2>2, SpreadMoves
  <2> QED
    BY <1>1, <1>2, <2>1, <2>3
<1>5. IsFiniteSet(Auctions \ {a})
  BY <1>1, FS_RemoveElement
<1>6. /\ Cardinality(AllocatedUnits(i))
         = Cardinality(Spread(Auctions \ {a}, Share(auctions, i))) + Share(auctions, i)[a]
      /\ Cardinality(Spread(Auctions \ {a}, Share(auctions, i))) \in Nat
  BY <1>1, <1>5, SpreadSplits, SpreadFinite
<1> QED
  BY <1>1, <1>2, <1>4, <1>6, MaxUnitsAssumption

\* One step keeps the units of an item in the lineup or with an auction.
KeepsUnits(i) ==
    /\ lineup'[i].listed = lineup[i].listed
    /\ lineup'[i].current + Cardinality(AllocatedUnits(i)')
       = lineup[i].current + Cardinality(AllocatedUnits(i))

(***************************************************************************)
(* The release of a hold gives back exactly the units the auction took.    *)
(***************************************************************************)
LEMMA ReleaseKeepsUnits ==
    ASSUME TypeOK, TypeOK', LineupConserved, NEW a \in Auctions, ReleaseHold(a),
           \A b \in Auctions \ {a} : auctions'[b] = auctions[b],
           auctions'[a].allocation = "released", NEW i \in Items
    PROVE  KeepsUnits(i)
<1>1. /\ lineup \in [Items -> LineupRow]
      /\ auctions[a] \in AuctionRow
      /\ ItemOf[a] \in Items
      /\ auctions[a].allocation = "held"
      /\ RestoreAllocation(ItemOf[a], auctions[a].quantity)
  BY AuctionAssumption DEF TypeOK, ReleaseHold
<1>2. /\ Cardinality(AllocatedUnits(i)')
         = Cardinality(AllocatedUnits(i)) + Share(auctions', i)[a] - Share(auctions, i)[a]
      /\ Cardinality(AllocatedUnits(i)) \in Nat
      /\ Cardinality(AllocatedUnits(i)) >= Share(auctions, i)[a]
  BY ShareMoves
<1>3. Share(auctions', i)[a] = 0
  BY DEF Share
<1>4. CASE ItemOf[a] # i
  <2>1. Share(auctions, i)[a] = 0
    BY <1>4 DEF Share
  <2>2. lineup'[i] = lineup[i]
    BY <1>1, <1>4 DEF RestoreAllocation
  <2> QED
    BY <1>2, <1>3, <2>1, <2>2 DEF KeepsUnits
<1>5. CASE ItemOf[a] = i
  <2>1. Share(auctions, i)[a] = auctions[a].quantity /\ auctions[a].quantity \in 0..MaxUnits
    BY <1>1, <1>5 DEF Share, AuctionRow
  <2>2. /\ lineup[i].current \in 0..MaxUnits /\ lineup[i].listed \in 0..MaxUnits
        /\ lineup'[i].listed = lineup[i].listed
        /\ lineup'[i].current = Least(lineup[i].listed, lineup[i].current + auctions[a].quantity)
    BY <1>1, <1>5 DEF RestoreAllocation, LineupRow
  <2>3. lineup[i].current + Cardinality(AllocatedUnits(i)) = lineup[i].listed
    BY DEF LineupConserved
  <2>4. lineup'[i].current = lineup[i].current + auctions[a].quantity
    BY <1>2, <2>1, <2>2, <2>3, MaxUnitsAssumption DEF Least
  <2> QED
    BY <1>2, <1>3, <2>1, <2>2, <2>4, MaxUnitsAssumption DEF KeepsUnits
<1> QED
  BY <1>4, <1>5

LEMMA ConservedStep ==
    ASSUME AdjustQuantities = {}, Reregistrations = {},
           LifecycleInv, TypeOK', LineupConserved, [Next]_vars, NEW i \in Items
    PROVE  KeepsUnits(i)
<1>1. /\ TypeOK /\ lineup \in [Items -> LineupRow]
      /\ auctions \in [Auctions -> AuctionRow]
  BY DEF LifecycleInv, TypeOK
<1>2. ASSUME NEW a \in Auctions, UNCHANGED lineup,
             \A b \in Auctions \ {a} : auctions'[b] = auctions[b],
             Share(auctions', i)[a] = Share(auctions, i)[a]
      PROVE  KeepsUnits(i)
  <2>1. Cardinality(AllocatedUnits(i)') = Cardinality(AllocatedUnits(i))
    BY <1>1, <1>2, ShareMoves, MaxUnitsAssumption
  <2> QED
    BY <1>2, <2>1 DEF KeepsUnits
<1>3. CASE StartStep
  <2>1. PICK a \in Auctions, q \in 1..MaxUnits, p \in 1..MaxPrice : Start(a, q, p)
    BY <1>3 DEF StartStep
  <2>2. ItemOf[a] \in Items /\ TakeAllocation(ItemOf[a], q) /\ q \in Nat
    BY <2>1, AuctionAssumption, MaxUnitsAssumption DEF Start
  <2>3. \A b \in Auctions \ {a} : auctions'[b] = auctions[b]
    BY <1>1, <2>1 DEF Start
  <2>4. auctions[a].allocation = "none"
    BY <2>1 DEF Start, LifecycleInv, BlankUntilStarted, NoAuction
  <2>5. auctions'[a].allocation = "held" /\ auctions'[a].quantity = q
    BY <1>1, <2>1 DEF Start, NoAuction
  <2>6. /\ Cardinality(AllocatedUnits(i)')
           = Cardinality(AllocatedUnits(i)) + Share(auctions', i)[a] - Share(auctions, i)[a]
        /\ Cardinality(AllocatedUnits(i)) \in Nat
    BY <1>1, <2>3, ShareMoves
  <2>7. /\ Share(auctions, i)[a] = 0
        /\ Share(auctions', i)[a] = IF ItemOf[a] = i THEN q ELSE 0
    BY <2>4, <2>5 DEF Share
  <2>8. CASE ItemOf[a] # i
    <3>1. lineup'[i] = lineup[i]
      BY <1>1, <2>2, <2>8 DEF TakeAllocation
    <3> QED
      BY <2>6, <2>7, <2>8, <3>1 DEF KeepsUnits
  <2>9. CASE ItemOf[a] = i
    <3>1. /\ lineup[i].current \in 0..MaxUnits
          /\ lineup'[i].listed = lineup[i].listed
          /\ lineup'[i].current = lineup[i].current - q
      BY <1>1, <2>2, <2>9 DEF TakeAllocation, LineupRow
    <3> QED
      BY <2>2, <2>6, <2>7, <2>9, <3>1, MaxUnitsAssumption DEF KeepsUnits
  <2> QED
    BY <2>8, <2>9
<1>4. CASE UnsoldStep
  <2>1. PICK a \in Auctions : CloseUnsold(a)
    BY <1>4 DEF UnsoldStep
  <2>2. \A b \in Auctions \ {a} : auctions'[b] = auctions[b]
    BY <1>1, <2>1 DEF CloseUnsold
  <2>3. auctions'[a].allocation = "released"
    BY <1>1, <2>1 DEF CloseUnsold, AuctionRow
  <2> QED
    BY <1>1, <2>1, <2>2, <2>3, ReleaseKeepsUnits DEF CloseUnsold
<1>5. ASSUME NEW a \in Auctions, Cancel(a) \/ ReleaseWinner(a) PROVE KeepsUnits(i)
  <2>1. \A b \in Auctions \ {a} : auctions'[b] = auctions[b]
    BY <1>1, <1>5 DEF Cancel, ReleaseWinner
  <2>2. auctions'[a].allocation = "released"
    BY <1>1, <1>5 DEF Cancel, ReleaseWinner, AuctionRow
  <2> QED
    BY <1>1, <1>5, <2>1, <2>2, ReleaseKeepsUnits DEF Cancel, ReleaseWinner
<1>6. ASSUME NEW a \in Auctions, EndClock(a) \/ CloseSold(a) \/ \E b \in Bid : AcceptBid(a, b)
      PROVE  KeepsUnits(i)
  <2>1. /\ \A b \in Auctions \ {a} : auctions'[b] = auctions[b]
        /\ UNCHANGED lineup
    BY <1>1, <1>6 DEF EndClock, CloseSold, AcceptBid
  <2>2. /\ auctions'[a].allocation = auctions[a].allocation
        /\ auctions'[a].quantity = auctions[a].quantity
    <3>1. EndClock(a) => /\ auctions'[a].allocation = auctions[a].allocation
                         /\ auctions'[a].quantity = auctions[a].quantity
      BY <1>1 DEF EndClock, AuctionRow
    <3>2. CloseSold(a) => /\ auctions'[a].allocation = auctions[a].allocation
                          /\ auctions'[a].quantity = auctions[a].quantity
      BY <1>1 DEF CloseSold, AuctionRow
    <3>3. \A b \in Bid : AcceptBid(a, b) => /\ auctions'[a].allocation = auctions[a].allocation
                                           /\ auctions'[a].quantity = auctions[a].quantity
      BY <1>1 DEF AcceptBid, AuctionRow
    <3> QED
      BY <1>6, <3>1, <3>2, <3>3
  <2>3. Share(auctions', i)[a] = Share(auctions, i)[a]
    BY <2>2 DEF Share
  <2> QED
    BY <1>2, <2>1, <2>3
<1>7. ASSUME NEW a \in Auctions, CommitWinner(a) PROVE KeepsUnits(i)
  <2>1. /\ \A b \in Auctions \ {a} : auctions'[b] = auctions[b]
        /\ UNCHANGED lineup /\ auctions[a].allocation = "held"
    BY <1>1, <1>7 DEF CommitWinner
  <2>2. /\ auctions'[a].allocation = "committed"
        /\ auctions'[a].quantity = auctions[a].quantity
    BY <1>1, <1>7 DEF CommitWinner, AuctionRow
  <2>3. Share(auctions', i)[a] = Share(auctions, i)[a]
    BY <2>1, <2>2 DEF Share
  <2> QED
    BY <1>2, <2>1, <2>3
<1>8. CASE SideStep
  <2>1. auctions' = auctions
    BY <1>8, SideKeepsAuctions
  <2>2. ~ SellerEdits
    BY DEF SellerEdits
  <2>3. UNCHANGED lineup
    BY <1>8, <2>2 DEF SideStep, EnsureWinnerOrder, QueueAuctionRecompute, OtherSources, vars
  <2> QED
    BY <2>1, <2>3 DEF KeepsUnits, AllocatedUnits
<1>9. CASE AcceptStep \/ SoldStep
  BY <1>6, <1>9 DEF AcceptStep, SoldStep
<1> QED
  BY <1>3, <1>4, <1>5, <1>6, <1>7, <1>8, <1>9, NextSteps

(***************************************************************************)
(* While the seller does not edit the lineup and registered as many units  *)
(* as are listed, every unit of an item is in the lineup or with exactly   *)
(* one auction, in every interleaving: the LEAST(listed, current + q) of a *)
(* release never cuts units off.                                           *)
(***************************************************************************)
THEOREM AuctionLineupConserved ==
    ASSUME AdjustQuantities = {}, Reregistrations = {},
           \A row \in Registrations : row.current = row.listed
    PROVE  Spec => []LineupConserved
<1>1. Init => LineupConserved
  <2> SUFFICES ASSUME Init, NEW i \in Items
               PROVE  lineup[i].current + Cardinality(AllocatedUnits(i)) = lineup[i].listed
    BY DEF LineupConserved
  <2>1. lineup[i] \in Registrations /\ lineup[i] \in LineupRow
    BY RegistrationsAssumption DEF Init, LineupInit
  <2>2. AllocatedUnits(i) = {}
    BY DEF Init, AllocatedUnits, NoAuction
  <2>3. Cardinality(AllocatedUnits(i)) = 0
    BY <2>2, FS_EmptySet
  <2> QED
    BY <2>1, <2>3, MaxUnitsAssumption DEF LineupRow
<1>2. LifecycleInv /\ TypeOK' /\ LineupConserved /\ [Next]_vars => LineupConserved'
  BY ConservedStep DEF KeepsUnits, LineupConserved
<1> QED
  BY <1>1, <1>2, AuctionTypeCorrect, LifecycleInvariant, PTL DEF Spec
=============================================================================
