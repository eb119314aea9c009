# SideStage in TLA+

A formal model of the selling core of SideStage, a live-selling storefront: who
holds which unit of stock, who won which auction, what the seller's guarded
actions may do to a lineup, and who paid for what; and of the system-test runner
that accepts its releases.  The modules are translated from the TypeScript
services under `apps/api/src` and `libs` and from the PL/pgSQL functions of
`db/schema.sql`; they are checked by TLC on small instances, and all of
their safety properties are proved with TLAPS for all instances.  `PROJECT.json`
maps every definition to its source lines.

## The system

| Component | State | Operations | Hard parts | Correct when |
|---|---|---|---|---|
| Stock ledger (`db/schema.sql`, `pg-auction-inventory.ts`) | `storefront_product.qty`, `reserved_qty`; `inventory_reservation` rows | reserve, release, commit, expiry sweep, seller save; recompute trigger | READ COMMITTED snapshots and lock queues; retries; lazy expiry | nothing is oversold; retries are harmless; lapsed holds end |
| Event lineup (`action.service.ts`, `pg-action-item-store.ts`) | `listed_quantity`, `current_quantity` per event item | register, register again, stock-adjust; taken and restored by sales | seller edits during a sale; listed below current | no unit appears or vanishes |
| Auctions (`pg-auction-store.ts`, `auction.service.ts`) | the aggregate in `auction_state`; the winner's order | start, bid, close, settle on read, cancel, commitWinner, releaseWinner, order repair | bid / clock / close / cancel races; retries; death between close and order | one active per event; top bidder wins; holds follow the lifecycle |
| Event carts (`pg-cart-store.ts`, `cart.service.ts`) | `cart` payload and revision; lineup; reservation rows | hold, set quantity, remove, purge lapsed, release, commit; product calls on the same cart id | three stores in one transaction; two-minute expiry; product calls share the key without a transaction | what the cart shows is backed; payment takes the whole cart |
| Checkout (`checkout.service.ts`, `checkout-source.service.ts`, `stripe-payment.provider.ts`) | `checkout_order`, Stripe intent and events, source commitment | createSession, handleWebhook, cancelOrder | awaits between read and write; duplicate, late, reordered events; crashes; two external stores | paid means charged, in full, and committed; a charge settles |
| Product carts (`cart.service.ts`) | `cart` payload; reservation rows | read with purge, hold + add, set quantity, remove, commit, release | no transaction: reserve, then a blind write of the whole cart; compensation; `Promise.all` | what a lost call held comes back; paid stays sold |
| Guarded actions, targeted offers (`action.service.ts`, `guardrail.ts` and the lineup, offer and audit stores) | lineup rows with versions and stage, `targeted_offer`, `action_audit_entry` | apply, roll back; accept and cancel an offer | three writes per action; resends; a policy that changes; rollback against newer actions and buyers | no unit invented, no price that no policy allowed, undone once, nothing newer erased |
| System-test runs (`postgres-run-store.ts`, `queue-worker.ts`, `actions-suite-executor.ts`, `system-tests.service.ts`) | `system_test_run` with its case, cleanup, cancellation and environment rows | launch, retry, cancel, claim, heartbeat, executor reports, recovery, retention | worker and executor write the same run; timeouts only signal; crashes and lost writes | the cap holds; finished is final; passed means passed; runs end |
| Acceptance fixtures (`acceptance-fixtures.ts`, `postgres-run-store.ts`) | fixture lease and resource rows; the resources themselves | provision, cleanup, reap | overlapping cleanups, external removal, crashes between two stores | released means gone; a leak is shown |
| Policies, event lifecycle, run of show, chat presence, sync | own tables | see `PROJECT.json` | sweepers, outbox | (planned) |
| Copilot, scout, judge, catalog, statistics, transcription, shipping, web client, start-up | mostly read-only or external I/O | | language-model output, HTTP | not modelled |

How they interact.  An auction and a cart both take units twice: from the event
lineup (`current_quantity`) and from physical stock (a row of
`inventory_reservation`).  A trigger on these rows recomputes `reserved_qty`, and
`availableQty` is generated from it.  Checkout turns a won auction or a cart into
an order and a Stripe intent; Stripe's events, delivered at least once, make
checkout commit or release the source.  Nothing runs on a timer in this core:
holds expire, auctions close and missing orders are repaired because somebody
reads (`expire_inventory_reservations`, `settleStoredAuction`, `findCart`,
`ensureCanonicalWinnerOrder`).  `PROJECT.json` lists the hazards that follow from
this design, each with the properties that would catch it.

## Modules

    Stock  <-- Lineup  <-- Auction    <-- AuctionProofs
      ^           ^--------- EventCart <-- EventCartProofs
      |-- ProductCart <-- ProductCartProofs
      |-- StockProofs (extended by AuctionProofs, EventCartProofs and
      |                ProductCartProofs)
      |-> Allocation  (instantiated: what the inventory interface promises)
    Checkout <-- CheckoutProofs
                      (its source is an abstraction of an auction or a cart)
    Offers   <-- OffersProofs
                      (the lineup with prices, stage and versions)
    RunStore <-- TestRuns <-- TestRunsProofs
        ^------- Fixtures <-- FixturesProofs
    MCProductCart, MCAuction, MCEventCart, MCCheckout, MCOffers,
    MCTestRuns, MCFixtures                         instances for TLC

**Stock.**  `res[k]` is the reservation row of a source key, `queued[k]` the
snapshot of a transaction on `k` that waits for the variant row.  One action per
PL/pgSQL function, each with the recompute its trigger does.  `reserve_inventory`
locks the variant first and recomputes, so it is one step.  `release_inventory`,
`commit_inventory` and the sweep write the reservation first; when they have to
wait for the variant row (`QueueRecompute`) the trigger's single UPDATE later
writes the sum of its old snapshot, because the re-evaluation after a lock wait
refreshes the updated row only and not the sub-select.  `AbortQueued` is the victim
of a deadlock (the sweep and the carts lock in opposite orders).
`PgAuctionInventory.reserve` runs the sweep in a transaction of its own before
`reserve_inventory`; in the model the sweep is a separate action that may come
before any reservation, which includes that order.  `Contended` names the keys
whose transactions may queue.

**Allocation.**  The abstract specification of the ledger: what the interface
`AuctionInventory` says to auctions and carts.  A source has a claim on units
(none, held or sold); placing a claim needs the room for it at that instant;
settling turns held into sold; claims are withdrawn; a sweep ends lapsed ones; the
seller restates the stock.  It has no counter, no trigger and no lock queue.
`Stock!Promise` instantiates it with the claim that each reservation row stands
for, and `KeepsPromise` is that `Stock` implements it: however stale `reserved_qty`
is, no admitted reservation is one the abstract ledger would have refused.

**Lineup.**  Listed and current quantity of event items, and the seller's writes.
These compare the row version, so a read and its write are one step.

**Auction.**  `auctions[a]` is the aggregate that `PgAuctionStore` locks and
rewrites in each transaction; the auction id is also the reservation key.  A bid
carries an idempotency key (one without a key that is sent again is refused by
its amount, which is then the current price).  Settling is the same code for the
seller's close, a late bid, and a read.  `canonical` is the set of winners that
have a `checkout_order`.  `OtherSources` is everything else that may reserve the
same variant.  The inference of an allocation state for rows written by older
versions is not modelled.

**EventCart.**  A transaction locks the cart, the variant, the reservation and
the lineup row, so it is one step; unlike `reserve_inventory` it trusts the
stored `availableQty`.  `quoted[c]` says whether the revision recorded by the
pending order is still the cart's.  The calls without event context use the same
cart ids and the same reservation keys, and they have no transaction: `call[c]` is
the open plain call of a cart in `Mixed`, with its copy of the document.  A product
hold reserves the key of an event item before `addItem` refuses it and the
compensation releases it (`UndoHold`); `getCart`, which only product holds reach,
creates an absent cart blindly (`CreateCart`); a read whose item lapses between the
two filters of `findCart` releases it as if it were a product line (`Find` with a
`late` item, `PurgeLine`, `PurgeWrite`).  A mixed cart has one plain call open at a
time; what several do to each other is `ProductCart`.  Mixed carts are modelled in
full, but three properties are stated for `EventOnly`, the carts that plain calls
and such late reads do not come to: a mixed cart breaks each of them (below).

**ProductCart.**  Carts outside an event have no transaction.  Each call of
`CartService` is a record with its copy of the cart document: it purges expired
lines (one release each, all started before any is awaited), reserves, and
writes the whole document back.  Calls of one cart interleave at every await.
`CallFails` is any store call that throws, `UndoHold` the compensation of
`holdItem`; a failure inside `Promise.all` ends the call while the releases or
commits it had started go on (`drain`).  `ProcessDies` loses all open calls.

**Offers.**  Seller commands, each with its request id, over the lineup, offer and
audit stores; every store call is one step and may be the last.  The guard's rules
about price floors and markdowns are operators on integers (`Ceil` is `Math.ceil`;
percentages are whole numbers).  `policy` is what `EventPolicyResolver` would answer
at the moment: a published policy with the floors it names, or the one derived from
the price guardrail; `PolicyChanges` is the seller publishing, withdrawing or toggling
it, and each command asks for it anew.  A named floor wins, others are derived from
the reference price.  The item write has its version check, its one-on-stage check and
the order in which it issues its UPDATEs.  `Doomed`, `restored` and `inForce` (every
policy so far) are history for the properties.  `Orderly` restricts rollbacks to run
to their end with no buyer's request beside them, `Repeated` names the commands that
are sent twice.

**RunStore, TestRuns, Fixtures.**  `RunStore` is the ledger: what an operation makes
of a run row and when it is refused (every operation locks the row first, so it is
atomic).  `TestRuns` adds the service, the queue worker, from claim to closing write,
and the executor of the Actions suite, from its health checks to the catch block, as
two actors: a worker that gives up an executor only signals it.  The worker's own
store calls may throw: an error in the re-read leads to the catch block, one in a
closing write or in the heartbeat before a retry ends the pass (`PassFails`), which
the worker process logs before it polls on.  An executor's report is accepted or
refused by the ledger; that it is lost to a store error is not modelled.  A worker
serves the runs whose suite version it has installed (`Serves`) and blocks others.
The claim skips locked rows, so a run whose row a cancellation or a recovery may hold
can be overtaken (`MayBeLocked`).  What a case does is abstracted to its result.  A
retryable error, which the worker handles and no suite throws today, is an outcome of
the executor.  `Fixtures` has the leases, the resources as they really are, and any
number of overlapping cleanups and reapers; a reaper's list has the leaked leases first
and its LIMIT may cut it off anywhere.  `recoverStaleRuns`, `purgeExpired` and the
fixture coordinator have no caller in the services yet, only in tests; the model takes
them as the operations they are.

**Checkout.**  One source, one order, one intent.  The awaits of `createSession`
are steps of a session; `handler` is a webhook or a cancellation between its
source transition and its upsert; `readers` are panels that found no winner
order.  The source is abstracted to open / empty / released / committed with a
revision; `EventCart` and `Auction` have the stock behind these transitions.
Stripe is external and modelled from how the provider uses it: one intent per
create key, cached answers for a repeated update key, events with one-second
times that are redelivered until they are answered.  `paymentState` `expired` is
in the type but no code assigns it, so it is left out.  `Overlap = FALSE`
restricts to the histories in which no session is open while a payment event or a
cancellation is handled; `Entry` says whether buyers come by order id, by source
or both; `CancelDies` whether the process may die between the release and the
upsert of `cancelOrder`.

Definitions introduced by a comment "Faulty variant of ..." are not part of any
specification.  They are plausible mistakes; substituted for the definition they
name they must break the property `PROJECT.json` lists with them.

## What the runs show

| Run | Instance | Shows |
|---|---|---|
| `MCProductCart` | 1 cart, 1 other source, 1 unit, 2 open calls, 1 failure or death, contention, seller edit | `KeepsPromise` (the ledger implements `Allocation`), `HoldsComeBack` |
| `MCAuction_safety` | 2 auctions on one item, 1 other source, 2 bidders, 3 prices | the safety invariants of auctions, `NoOversell`, `LineupConserved` |
| `MCAuction_liveness` | seller edits, polling readers | `SettlementIsFinal`, `EndedAuctionsClose`, `WinnersGetOrders` |
| `MCEventCart_conserve` | 2 event-only carts, 2 items, 2 units each, no contention | `UnitsConserved`, `NoOversell`, `LapsedItemsLeave`, `CommitTakesWholeCart` |
| `MCEventCart_mixed` | an event-only and a mixed cart, 1 item, 2 units, contention, seller edit | `ItemsBacked`, `SalesAreFinal` of the first beside product calls on the second |
| `MCCheckout_overlap` | an auction order, or an event cart that changes; sessions, 2 events, crash, cancel | `PaidOrdersCommitted`, `PaidInFull`, `SalesAreCharged`, `NothingPendingOverPaid` |
| `MCCheckout_settle` | 3 events, 2 crashes, cancel, no overlap, by order id | `PaidIsFinal`, `CancelledIsFinal`, `ChargesSettle` |
| `MCTestRuns` | 2 runs for 1 slot, 2 workers (one lacks the suite), 2 cases, 2 attempts, 1 crash or store error | `CapRespected`, `PassedMeansPassed`, `FinishedIsFinal`, `RunsEnd` |
| `MCFixtures` | 2 runs, 2 resources, 2 cleaners, 1 crash | `CleanMeansGone`, `LeakShown`, `ReleaseIsFinal` |
| `MCOffers` | 2 products, 4 commands, 2 sellers, 2 buyers, 2 policies, 1 rollback, 1 crash | `UnitsNotInvented`, `PricesGuarded`, `HandoverIsSafe`, `UndoneOnce`, `NewerActionKept` |
| `MCCheckout_unpaid` (violation) | overlap | paid goes back to pending |
| `MCProductCart_resold` (violation) | 1 cart, 2 calls, 1 death | purging an expired line releases paid units |

`StockTypeOK`, `RaisesWithinStock`, `RetryAdmitted`, `HoldRepairsCounter`,
`OneActivePerEvent`, `CleanupFailureShown` and the type invariants of `Checkout`,
`Fixtures` and `ProductCart` are proved for all instances (below), so no run repeats
them.

The passing runs are split by the assumptions they need.  Each assumption is
necessary, and what happens without it is worth knowing:

- `NoOversell` and the conservation properties are about sales while the seller
  leaves the quantities alone (the code lets the seller overwrite them).
- `NoOversell` of event carts needs that no sweep queues for the variant row.  Two
  transactions that queue leave `reserved_qty` different from the sum of its rows
  (`db/schema.sql:399` says it is derived from them); `reserve_inventory`
  recomputes and is immune, `holdEventItem` compares with the stored
  `availableQty` and is not, although `pg-cart-store.ts:131-133` says that locking
  the variant "makes the generated availableQty stable" and
  `docs/variations-schema.md:101` that this prevents overselling.  Three carts with
  `Contended <- Keys` show it: a sweep that waits while a hold commits then writes
  the sum of its old snapshot, and the next hold is admitted.
- `ItemsBacked`, `SalesAreFinal` and `CommitTakesWholeCart` are about carts that only
  the event transactions change.  `Mixed` carts, with `EventOnly` replaced by
  `Carts`, break the first two, also when `LapseApart`, which lets the deadlines of a
  mixed cart's line and of its reservation pass independently, is taken out:
  - A product hold of an event item's product on the event cart reserves the item's
    own key (`cart.service.ts:462`); `addItem` refuses (`395`) and the compensation
    releases it (`470`).  The cart shows a hold that the ledger gave away, and once
    the item lapses every purge throws at `pg-cart-store.ts:256`, so no read of the
    cart succeeds and the item never leaves.
  - After a commit the same hold is admitted over the committed row
    (`db/schema.sql:458`) and adds a product line; purging or removing that line
    releases what was sold (`db/schema.sql:509`).
  - A read that loaded the cart before an item lapsed and filters after it treats the
    item as a product line (`cart.service.ts:348-353`): the reservation is released,
    also if it was paid for meanwhile, and the item leaves without its event
    allocation being returned.
- `UnitsConserved` and `LapsedItemsLeave` need that no plain call comes to a cart at
  all (`Mixed = {}`), for the reasons above and for one more: a product hold that
  found no cart upserts an empty one (`cart.service.ts:378`, reached from `457` and
  `394` only; `GET /cart/:id` never creates) over the cart that a first event hold
  has just written, whose units are then in no cart and not in the lineup, although
  `pg-cart-store.ts:87-89` serialises first writes.
- `LapsedItemsLeave` and `LineupConserved` need items registered with
  `listed = current`.  With `listed = 1, current = 2`, which `normalizeItem`
  accepts, `setEventItemQuantity` and `transitionEventCart` refuse every return
  (`pg-cart-store.ts:282`, `382`), so a lapsed item stays in its cart, and
  `releaseEventAllocation` drops units (`LEAST`, `pg-auction-store.ts:406`).  Take
  `Registrations = {[listed |-> 1, current |-> 2]}` to see both.
- `PaidOrdersCommitted` is about auction orders.  `CartService.commit` returns an
  empty cart as it is (`cart.service.ts:574`), so an event cart emptied between the
  quote and the success is marked paid with nothing committed (against
  `docs/TDD.md:319`).
- `PaidIsFinal` needs that no session overlaps the payment (`MCCheckout_unpaid`).
- `CancelledIsFinal` needs that the buyer comes back by order id.  By source
  (`Entry = {"source"}`) only paid orders are refused (`checkout.service.ts:182`)
  and a cancelled auction order becomes pending again.
- `ChargesSettle` is about auction orders: a cart hold that lapses while Stripe
  takes the money makes every retry of the success fail (`pg-cart-store.ts:366`).
  It also needs that the process does not die inside `cancelOrder` (`CancelDies`):
  dying after the release leaves a pending order whose later success can no longer
  be committed.
- A product cart's commit (`Promise.all`) may fail half-way with some lines sold;
  the ledger's promise holds, the cart is partly sold.
- `UnitsNotInvented` is one-sided.  Units can be lost: `cancelOffer` claims the
  status and then restocks, and a restock that loses its version check leaves them
  with a cancelled offer; a command that died after its item write and is sent
  again decrements again, although `db/schema.sql:924-926` calls retried commands
  restart-safe.  It needs `Orderly`: a rollback restores the units before it
  removes the offer, so a death between the two, or a buyer's cancel of the offer
  there, counts the units twice.
- `UnitsNotInvented` is also about one lineup under actions and offers; a seller who
  registers the event again overwrites the quantities without a version check
  (`pg-action-item-store.ts:120`; see `Lineup`).
- `PricesGuarded` says that a price is the reference price or clears a policy that has
  been in force, not the one in force now: a stricter policy does not revise prices,
  and a rollback restores a price the guard let pass under an earlier one.  A named
  floor may lie below the percentage of the reference price (`event-config.service.ts:174`)
  and with the guardrail off the percentage is 100 (`151`), so a price under either is
  a price the seller allowed.
- `RunsEnd` is about histories without a fault.  A worker that crashed, or whose
  closing write met a store error (`queue-worker.ts:134`, `140`, `168-195`;
  `acceptance-worker.ts:26-31` only logs it), leaves its run active;
  `recoverStaleRuns` would free the slot but no service calls it, so with
  `SYSTEM_TEST_MAX_CONCURRENT_RUNS` of 1 the queue stops.  A recovered run that
  was never claimed keeps cleanup `pending`, and `retry` refuses it for ever.
- `CleanupFailureShown` has no converse: when a run was finished by somebody else
  (timeout, cancellation), the failing executor's last `advanceRun` is refused, and
  its catch block then reports a cleanup failure although the cleanup was fine
  (`actions-suite-executor.ts:572-582`), against the contract's comment that
  `cleanup-failed` stands for leaked infrastructure.
- `CleanMeansGone` needs that `provision` is over before a cleanup of its run starts
  (`LateProvision = FALSE`): a resource created behind the cleanup's back survives a
  released lease.  `LeakShown` is stated without crashes: the lease and the run's
  cleanup row are written one after the other.

**Bounds.**  Two actors on one resource are enough for every race of the design, as
all conflicts are pairwise over one locked row; the third key of `MCAuction_safety` is
there because a stale sum needs one row that changes while another waits, and a third
to be admitted by mistake.  Two units are the least with which a quantity can change
without reaching zero; `MCProductCart` has one unit for two sources, so that every
admission is contested.  Two payment amounts are the least with which an order and its
intent can disagree; two (three) events are the least with which order and duplication
matter (with a decline before the charge).  In `MCTestRuns` one slot for two runs puts
an abandoned executor beside the next run, two cases separate "a case failed" from
"the suite ended", two attempts reach the retry, and two workers, the second of a
deployment without the suite (`OneInstalled`), contend for the slot.  In `MCOffers` the
four commands are an offer, a markdown, a price-adjust below the derived floor and a
stage handover; the guardrail (30 percent) is in force first (`Opening`), and the
policy that replaces it at any moment, for good (`Returns`), names a floor that allows
the price-adjust and blocks pushes.  In `MCEventCart_mixed` the lock queues are those
of the mixed cart's keys.  Every constant named `Max...`, and `Requests`, `Disturbed`,
`Repeated`, `Returns`, `SaveQuantities` and `Contended`, bounds a run and appears in
guards or quantifier ranges only.  `CHECK_DEADLOCK FALSE` is set where a shop or a
queue may be finished: everything sold, every run over.  Symmetry is used only in runs
without a liveness property.

**Fairness.**  `FairProductCartSpec`: weak fairness of the sweep, as every
catalogue and inventory read runs it, and of the clock passing a hold's deadline;
nothing is assumed of calls.  `TestRuns!FairSpec`: a worker polls every second, its
timer fires, and a pass of `runNext` goes on to its end; nothing is assumed of
executors.  `Auction!FairSpec`: strong fairness of settling (open
panels poll; each poll settles, and a lock queue serves every waiter), weak
fairness of the order repair (the same reads) and of ending a lock wait (granted
or aborted).  `EventCart!FairSpec`: weak fairness of `PurgeLapsed`, run by every
read of the cart, which its page polls.  `Checkout!FairSpec`: a running request
ends (weak), and Stripe redelivers an unanswered event until it is answered
(strong, since a delivery may meet a busy handler).  Nothing is assumed about
buyers, sellers or crashes.

## What is proved

All theorems hold for every value of the constants that satisfies the `ASSUME`s of the
modules: any number of variants, sources, auctions, bidders, carts, units and
policies.

`StockProofs`
- `StockTypeCorrect`: `StockTypeOK` is inductive; the lemmas about
  `SumReserved`, the cardinality of a set of (key, unit) pairs, carry it.
- `StockRaisesWithin`: whenever a step raises the units taken of a variant, they
  are within its stock.  Only a reservation can raise them, and it compares its
  increment with the freshly recomputed sum; the counter does not occur in the
  argument, which is why its staleness is harmless here.
- `StockNeverOversold`: with `SaveQuantities = {}` this gives `NoOversell`.  With a
  seller edit it is false, as `saveScoped` compares with the counter.
- `StockHoldsRepair`: a new hold leaves the counter equal to the rows.
- `StockRetryAdmitted`: a source that has units is admitted again for as many.
- `StockKeepsPromise`: `StockSpec` implements `Allocation!AllocationSpec`.  Initial
  states map to initial states; each action of the ledger maps to a step of the
  abstract one or, where only the counter or a queue moves, to a stutter.  The
  central fact is that the units the rows take are the units the claims have, so an
  admission against the recomputed sum is one the abstract ledger allows.

`AuctionProofs` extends the ledger's lemmas to the composed specification.
- `LifecycleInv` = `TypeOK`, `BlankUntilStarted`, `OneActivePerEvent`,
  `AllocationMatchesLedger`, `HoldFollowsLifecycle`.  None of the last three is
  inductive alone: that the sweep spares an auction's row needs its expiry to be
  `never`, which needs the aggregate and the row to agree; that a close may
  release needs the hold to follow the status; that a start finds no row of its
  own needs an aggregate that was never started to be blank.
- `BidInv` orders the bids of each aggregate: amounts are distinct, none exceeds
  the price and one equals it, no request occurs twice, and a winner has the bid at
  the price.  It gives `AuctionWinner` and
  `AuctionBidsOnce`.
- `AuctionNeverOversold`: `NoOversell` of the composition, where `Start` sweeps,
  reserves and takes the allocation in one step.

`TestRunsProofs`
- `RunsTypeCorrect`, and a relation `Becomes` that describes what any step may make
  of a run row.  Every action but the claim changes rows only within it, which gives
  `RunsFinal` (results of a finished run are immutable), `RunsCleanupShown` and, with
  the claim's count under the advisory lock, `RunsCapped`.
- `RunsPassedMeansPassed` needs an inductive invariant over both actors: a queued or
  just claimed run has nothing recorded (`WaitingUntouched`, `InspectedUntouched`), a
  run has at most one worker (`OneWorkerEach`), an executor that is past a point has
  recorded what comes before it (`Recording`), and a passed row has all of it
  (`PassedRow`).  Without the first two a second attempt or a second worker could find
  the cases of another execution.

`EventCartProofs`
- `CartTypeCorrect`.  Each transaction is first described by what it does to one item
  of one cart (`OneItem`) and to one reservation row (`OneRow`), or to a whole cart
  (`Emptied`); all later proofs use these forms and not the actions.
- The plain calls are described by what they may do to a ledger row and a document of
  their own cart only; an event-only cart has no such call, so the two kinds meet in
  the ledger's counters and nowhere else.
- `CartItemsBacked`: `ItemsBacked` is not inductive, since it does not say that the
  item carries the mark as soon as its reservation is due, before the sweep takes it.
  `Backing` adds that.
- `CartSalesFinal` needs `SoldForGood`: a sold row has no expiry, so neither the
  clock nor the sweep nor a later hold of the same cart reaches it.
- `CartCommitsWhole`: the only step that makes a cart committed is `commitEventCart`,
  and it moves every item it found.
- `CartUnitsConserved`: under the assumptions of the run, `Mixed = {}` included.  A
  transaction changes the units of one cart only; `SpreadMoves` (`StockProofs`) says
  how the cardinality of a set of (holder, unit) pairs follows the quantity of one
  holder, so each action is left with one linear equation between the lineup, the cart
  and what it bought.
- `CartNeverOversold`: with `Contended = {}`.  The invariant `ExactCounters` says that
  no recompute waits with an old snapshot and that every counter is the sum of its
  rows.  It is what `holdEventItem` relies on, and what a lock queue breaks.

`AuctionProofs` has in addition
- `AuctionSettlementFinal`: no action rewrites a closed aggregate but payment and
  cancellation of the winner's order, and these write the allocation only and find it
  held.
- `AuctionLineupConserved`: under the assumptions of the run.  The point is the
  `LEAST(listed, current + quantity)` of a release: conservation before the step makes
  the first argument at least the second, so nothing is cut off.

`CheckoutProofs`
- One invariant carries `PaidCommitted`, `PaidCharged`, `SoldCharged` and
  `PaidUnchallenged`, with sessions, handlers, readers, duplicate events and crashes in
  any number.  What a session, the intent and a row remember is what was quoted
  (`SessionsQuoted`, `IntentQuoted`); an event reports a charge that happened
  (`ChargesReported`); a committed source was charged (`SourceSound`); and every copy
  of a row that somebody is about to write is as well backed as the stored one
  (`RowsBacked`).  The last is the crux: a blind write of an older copy may unpay an
  order, but can never make one paid without a charge.
- `PaidStaysPaid` and `CancelledStaysCancelled` are stated under the hypothesis
  `Quiet` (no session overlaps a handler, and at most one panel writes blindly) and,
  for the second, that buyers come by order id; the violation run and the list above
  show that these are needed.

`FixturesProofs`
- `FixturesReleaseFinal` and `FixturesLeakShown` hold without a hypothesis.
  `FixturesClean` assumes `~ LateProvision`.
- A cleaner that is past a resource, or past its list, has settled what is behind it
  (`Settles`, `Behind`), a released row means the resource is gone (`Released`), and a
  cleaner's report is what it found (`Reports`).  Two overlapping cleaners make each
  of these facts about one cleaner depend on what the other may have done meanwhile,
  which is why `CleanMeansGone` alone is not inductive.

`OffersProofs`
- The invariant has the typed lineup with every price allowed by a policy that was in
  force and at most one item on stage; the offers; the audit rows, whose versions are
  those the item had; the counts of restorations; and what every call in flight
  carries (`CallInv`): the change set a command is about to write was computed from a
  version that is current or will be refused.
- `OffersPricesGuarded`, `OffersUndoneOnce`, `OffersNewerKept` follow from it.  The
  second and third rest on versions that only grow: a rollback's copy with the current
  version is the current row, which is the row its action left.
  `OffersHandoverSafe` needs the order in which the UPDATEs are issued
  (`HandoverOrder`).  `ProductsAssumption` (the lineup is finite) was added for it.
- `OffersUnitsKept`: `UnitsNotInvented`, assuming `Orderly` as the run does.  The
  invariant is `UnitsBacked`: there is a function `out` that says, for each command
  that takes units for an offer, how many packets of its units are out of the lineup.
  A packet is carried by an apply between its writes, held by the offer, on its way
  back with a cancel or a rollback, or lost in a crash.  `Balance` says that a row's
  quantity and the packets of its product that are out add up to what was registered;
  `Backed` that the packets in anybody's hands are no more than those out.  `out` is
  an existential, since a crash leaves packets that no variable remembers.  What every
  call, audit row and client knows about its packet (`ApplyUnits`, `RollbackUnits`,
  `AuditUnits`, `ClientUnits`) is what shows that a restock has a packet to give back:
  the status an offer had when it was claimed, or the version check of the item
  write.  `CommandsAssumption` and `RequestsAssumption` (commands, callers and
  clients are finite, and no command is named like a rollback's number) make the
  number of packets a number; an audit log and the requests of a process are finite,
  and every audit row, a rollback's too, has a random id of its own
  (`action.service.ts:638`).

`ProductCartProofs`
- `ProductCartTypeCorrect`.  The inductive part is `Asserted`: a call that is about to
  reserve has a quantity that `assertQuantity` let pass.  Looking for the proof showed
  that two cases of `Found` overlapped for an `addItem` beyond the bound; they are
  disjoint now, as the code's `if` is.
- `ProductCartUsesLedger`: `ProductCartSpec => StockSpec`, one step of the ledger or a
  stutter for every step of a call, of the clock and of the other sources.  A
  resize passes on the line's `expiresAt`, which may have passed already, so
  `StockNext` allows a reservation that is due at once.  `ProductCartKeepsPromise`
  follows with `StockKeepsPromise`.
- `ProductCartHoldsLapse`: every held row of a cart has a deadline.  The row alone is
  not inductive: a resize takes the deadline of the line in its copy, so
  `DateInv` says that every line of every document and copy has one, and that a call
  about to resize has found the line.  `OthersAreElsewhere` (`source_kind` is part of
  a reservation's key) keeps other sources, whose holds may be without one, apart.

Out of the prover's reach and left to TLC: everything under fairness
(`HoldsComeBack`, `EndedAuctionsClose`, `WinnersGetOrders`,
`LapsedItemsLeave`, `ChargesSettle`, `RunsEnd`), and `ENABLED`.  Every other property
of a passing run is stated by a theorem.  That auctions and event carts implement
`StockSpec` is not claimed: a start sweeps and reserves in one transaction, and a
cart commits several rows in one, which are several steps of the ledger.  The modules
use no `RECURSIVE` operator; induction over data is avoided by taking sums as
cardinalities.

## Plan

Done: `Stock` with its abstract specification `Allocation`, `Lineup`, `Auction`,
`EventCart`, `ProductCart`, `Checkout`, `Offers`, `RunStore`, `TestRuns`, `Fixtures`,
their runs, and the proofs above.  Next, in this order:

1. `Policies` (revisions, idempotency, outbox), `EventLifecycle` with its
   activation sweeper and the run of show, chat presence, sync invalidation.
2. Auctions and carts on one lineup as one composition; offers and product carts as
   checkout sources.

## Not modelled

- Components that only read: catalog, statistics, buyer order lists.
- Language-model or HTTP I/O: copilot answers, scout, judge, transcription, EasyPost;
  the black-box clients and evidence artifacts of the system tests.
- Generated data (`build-history.snapshot.ts` alone is two fifths of the
  implementation's lines), the web client, deployment, and the in-memory stores used
  without a database.
- In modelled components: titles, texts and attributes, who may call what, event
  streams and notifications, and what an acceptance case asserts.

These make up most of the repository by lines; the modelled services are those in
which stock, money or a test verdict changes.

## Running

    tlc -workers 2 -config MCProductCart.cfg MCProductCart
    tlapm StockProofs.tla      # and likewise AuctionProofs, EventCartProofs, CheckoutProofs,
                               # OffersProofs, ProductCartProofs, TestRunsProofs,
                               # FixturesProofs; OffersProofs takes some minutes
