------------------------------ MODULE Checkout ------------------------------
(***************************************************************************)
(* CheckoutService: one payable source (an auction won, or an event cart), *)
(* its canonical checkout_order and its Stripe PaymentIntent.              *)
(*                                                                         *)
(* createSession awaits between its reads, the Stripe call and the upsert  *)
(* of the order, so each await is a step.  handleWebhook and cancelOrder   *)
(* of one order exclude each other (serializePaymentEvent), but neither    *)
(* excludes createSession; between their source transition and their       *)
(* upsert the process may also die.  Stripe delivers events at least once, *)
(* in any order, and retries what was not acknowledged.                    *)
(***************************************************************************)
EXTENDS Integers, FiniteSets

CONSTANTS
    Kinds,         \* sourceKind of the order: "auction" or "event-cart"
    SessionsOf,    \* per kind: createSession calls that may be open at once
    Entry,         \* how buyers reach createSession: by "order" and by "source"
    Readers,       \* panels that run ensureCanonicalWinnerOrder
    AmountsOf,     \* per kind: totalCents of the shipping rates a buyer may select
    MaxRevision,   \* bound on the writes to the cart
    MaxEvents,     \* bound on the events Stripe emits
    CrashesOf,     \* per kind: bound on process deaths
    CancelDies,    \* may the process die inside cancelOrder?
    Overlap        \* may a session be open while an event or a cancel is handled?

ASSUME CheckoutAssumption ==
    /\ Kinds # {} /\ Kinds \subseteq {"auction", "event-cart"}
    /\ Entry \subseteq {"order", "source"}
    /\ \A kind \in Kinds : AmountsOf[kind] \subseteq Nat \ {0} /\ CrashesOf[kind] \in Nat
    /\ {MaxRevision, MaxEvents} \subseteq Nat
    /\ {CancelDies, Overlap} \subseteq BOOLEAN

VARIABLES
    source,        \* the auction allocation, or the cart aggregate
    order,         \* the checkout_order row
    stripe,        \* the PaymentIntent
    events,        \* Stripe events emitted so far
    unacked,       \* those not answered with 200 yet
    sessions,      \* open createSession calls
    handler,       \* the handleWebhook or cancelOrder between transition and upsert
    readers,       \* panels that found no order and are about to write one
    crashes

vars == <<source, order, stripe, events, unacked, sessions, handler, readers, crashes>>

Sessions == UNION {SessionsOf[kind] : kind \in Kinds}
Amounts == UNION {AmountsOf[kind] : kind \in Kinds}

IsCart == source.kind = "event-cart"

\* A cart is "empty" when its items are gone without a terminal transition.
Source == [kind : Kinds,
           state : {"open", "empty", "released", "committed"},
           revision : 0..MaxRevision,
           lapsed : BOOLEAN,       \* some item's hold has passed its expiresAt
           sold : BOOLEAN]         \* its reservations have been committed

\* Absent fields: total, revision, event and created 0.
Order == [exists : BOOLEAN, status : {"pending", "paid", "failed"},
          paymentState : {"payment_required", "payment_processing", "paid",
                          "payment_failed", "cancelled"},
          intent : BOOLEAN, total : Amounts \cup {0},
          commitment : {"none", "active", "released", "committed"},
          revision : 0..MaxRevision, event : 0..MaxEvents, created : 0..MaxEvents]

NewOrder == [exists |-> FALSE, status |-> "pending", paymentState |-> "payment_required",
             intent |-> FALSE, total |-> 0, commitment |-> "none", revision |-> 0,
             event |-> 0, created |-> 0]

Event == [id : 1..MaxEvents, created : 1..MaxEvents,
          type : {"processing", "failed", "succeeded"}, amount : Amounts]

\* updates: the amounts whose update idempotency key Stripe has answered already.
Intent == [status : {"none", "created", "payable", "processing", "succeeded"},
           amount : Amounts \cup {0}, first : Amounts \cup {0}, updates : SUBSET Amounts]

Session == [step : {"idle", "begun", "loaded", "matched", "paid for"},
            entry : {"order", "source"}, existing : Order,
            total : Amounts \cup {0}, revision : 0..MaxRevision]

IdleSession == [step |-> "idle", entry |-> "order", existing |-> NewOrder,
                total |-> 0, revision |-> 0]

Init ==
    /\ source \in [kind : Kinds, state : {"open"}, revision : {0}, lapsed : {FALSE}, sold : {FALSE}]
    /\ order = NewOrder
    /\ stripe = [status |-> "none", amount |-> 0, first |-> 0, updates |-> {}]
    /\ events = {} /\ unacked = {}
    /\ sessions = [s \in Sessions |-> IdleSession]
    /\ handler = [busy |-> FALSE, event |-> 0, order |-> NewOrder]
    /\ readers = {}
    /\ crashes = 0

-----------------------------------------------------------------------------
\* The buyer's cart moves on its own: EventCart has the stock behind these steps.
CartChange(state, lapsed) ==
    /\ IsCart
    /\ source.revision < MaxRevision
    /\ source' = [source EXCEPT !.state = state, !.revision = @ + 1, !.lapsed = lapsed]
    /\ UNCHANGED <<order, stripe, events, unacked, sessions, handler, readers, crashes>>

\* Another item is held, or the lapsed one again.
CartHolds == \E lapsed \in {FALSE, source.lapsed} : CartChange("open", lapsed)

\* The last item is removed by the buyer, or purged by findCart after it lapsed.
CartEmpties == source.state = "open" /\ CartChange("empty", FALSE)

CartLapses ==
    /\ IsCart /\ source.state = "open" /\ ~ source.lapsed
    /\ source' = [source EXCEPT !.lapsed = TRUE]
    /\ UNCHANGED <<order, stripe, events, unacked, sessions, handler, readers, crashes>>

\* Faulty variant of Replays: a repeated transition is refused.
NeverReplays(state, revision) == FALSE

\* terminalTransitionReplay: the same transition of the same revision.
Replays(state, revision) ==
    source.state = state /\ source.revision = revision

\* transitionEventCart and commitWinner / releaseWinner, from the open source.
Transits(state, revision) ==
    /\ source.state = "open"
    /\ source.revision = revision
    /\ state = "committed" => ~ source.lapsed

\* CheckoutSourceService.commit and release; a call that throws is no step.
\* CartService.commit and release return a cart without items as it is.
MoveSource(state, revision) ==
    \/ /\ Transits(state, revision)
       /\ source' = [source EXCEPT !.state = state, !.lapsed = FALSE,
                                   !.sold = @ \/ state = "committed"]
    \/ /\ Replays(state, revision) \/ source.state = "empty"
       /\ UNCHANGED source

-----------------------------------------------------------------------------
\* ensureCanonicalWinnerOrder finds no order ...
ReaderMisses(r) ==
    /\ ~ IsCart /\ r \in Readers \ readers
    /\ ~ order.exists
    /\ readers' = readers \cup {r}
    /\ UNCHANGED <<source, order, stripe, events, unacked, sessions, handler, crashes>>

\* ... and upserts a pending one under the winner's order id.
ReaderPersists(r) ==
    /\ r \in readers
    /\ readers' = readers \ {r}
    /\ order' = [NewOrder EXCEPT !.exists = TRUE]
    /\ UNCHANGED <<source, stripe, events, unacked, sessions, handler, crashes>>

\* Faulty variant of Resumable: a cancelled order is taken up again.
ResumableIfUnpaid(o) ==
    o.exists /\ o.paymentState \notin {"paid", "payment_processing"}

\* createSession's checks of an order resumed by its id.
Resumable(o) ==
    /\ o.exists
    /\ o.paymentState \notin {"paid", "payment_processing", "cancelled"}
    /\ o.commitment \notin {"released", "committed"}

Advance(s, next) ==
    /\ sessions' = [sessions EXCEPT ![s] = next]
    /\ UNCHANGED <<source, events, unacked, handler, readers, crashes>>

\* The entry of createSession: an order id is read now, a source later.
BeginSession(s, entry) ==
    /\ s \in SessionsOf[source.kind]
    /\ sessions[s].step = "idle"
    /\ Overlap \/ ~ handler.busy
    /\ entry = "order" => Resumable(order)
    /\ Advance(s, [IdleSession EXCEPT !.step = "begun", !.entry = entry,
                                      !.existing = IF entry = "order" THEN order ELSE NewOrder])
    /\ UNCHANGED <<order, stripe>>

\* sources.load before and after the rate is resolved, with one revision.  A won
\* auction always loads; a cart must have items, and its lapsed items are purged.
LoadSource(s, total) ==
    /\ sessions[s].step = "begun"
    /\ IsCart => source.state = "open" /\ ~ source.lapsed
    /\ Advance(s, [sessions[s] EXCEPT !.step = "loaded", !.total = total,
                                      !.revision = source.revision])
    /\ UNCHANGED <<order, stripe>>

\* orders.findBySource and the checks of the existing order.
MatchOrder(s) ==
    LET existing == IF sessions[s].entry = "order" THEN sessions[s].existing ELSE order
    IN  /\ sessions[s].step = "loaded"
        /\ sessions[s].entry = "order" => order.exists
        /\ existing.status # "paid"
        /\ Advance(s, [sessions[s] EXCEPT !.step = "matched", !.existing = existing])
        /\ UNCHANGED <<order, stripe>>

\* A cart without an order gets a random order id, hence an intent of its own that
\* nobody can pay until the order row is written; an auction's order id is fixed.
OwnIntent(s) == IsCart /\ ~ sessions[s].existing.exists

\* Stripe, paymentIntents.create: one idempotency key per order id.
CreateIntent(s) ==
    LET total == sessions[s].total
    IN  /\ ~ sessions[s].existing.intent
        /\ \/ OwnIntent(s) /\ UNCHANGED stripe
           \/ /\ ~ OwnIntent(s) /\ stripe.status = "none"
              /\ stripe' = [stripe EXCEPT !.status = "created", !.amount = total, !.first = total]
           \/ /\ ~ OwnIntent(s) /\ stripe.status # "none" /\ stripe.first = total
              /\ UNCHANGED stripe

\* Stripe, paymentIntents.update: an idempotency key that was used is answered from
\* the cache; a new one changes the amount of an intent that is not being paid.
UpdateIntent(s) ==
    LET total == sessions[s].total
    IN  /\ sessions[s].existing.intent
        /\ \/ total \in stripe.updates /\ UNCHANGED stripe
           \/ /\ total \notin stripe.updates
              /\ stripe.status \in {"created", "payable"}
              /\ stripe' = [stripe EXCEPT !.amount = total, !.updates = @ \cup {total}]

PrepareIntent(s) ==
    /\ sessions[s].step = "matched"
    /\ CreateIntent(s) \/ UpdateIntent(s)
    /\ Advance(s, [sessions[s] EXCEPT !.step = "paid for"])
    /\ UNCHANGED order

\* What createSession upserts; it carries no stripeEventId and no stripeEventCreated.
SessionOrder(s) ==
    [NewOrder EXCEPT !.exists = TRUE, !.intent = TRUE, !.total = sessions[s].total,
                     !.commitment = IF IsCart THEN "active" ELSE "none",
                     !.revision = sessions[s].revision]

\* orders.set: an upsert by id; a second order of one cart violates the source key.
\* The client receives the secret, so the intent can be paid from here on.
PersistSession(s) ==
    /\ sessions[s].step = "paid for"
    /\ OwnIntent(s) => ~ order.exists
    /\ order' = SessionOrder(s)
    /\ stripe' = IF OwnIntent(s)
                 THEN [stripe EXCEPT !.status = "payable", !.amount = sessions[s].total,
                                     !.first = sessions[s].total]
                 ELSE [stripe EXCEPT !.status = IF @ = "created" THEN "payable" ELSE @]
    /\ Advance(s, IdleSession)

\* A check failed, a call threw, or the buyer went away.
EndSession(s) ==
    /\ sessions[s].step # "idle"
    /\ Advance(s, IdleSession)
    /\ UNCHANGED <<order, stripe>>

-----------------------------------------------------------------------------
\* Stripe: a payment attempt moves the intent and emits an event about its amount.
\* Event times have seconds, so two events may carry the same one.
Emit(type, status) ==
    LET n == Cardinality(events)
    IN  /\ n < MaxEvents
        /\ \E c \in 1..MaxEvents :
             /\ \A e \in events : e.created <= c
             /\ events' = events \cup {[id |-> n + 1, created |-> c, type |-> type,
                                        amount |-> stripe.amount]}
        /\ unacked' = unacked \cup {n + 1}
        /\ stripe' = [stripe EXCEPT !.status = status]
        /\ UNCHANGED <<source, order, sessions, handler, readers, crashes>>

Attempt == stripe.status = "payable" /\ Emit("processing", "processing")
Decline == stripe.status \in {"payable", "processing"} /\ Emit("failed", "payable")
Charge == stripe.status \in {"payable", "processing"} /\ Emit("succeeded", "succeeded")

\* Faulty variant of Matches: the amount is not compared.
MatchesIdentity(e) == order.intent

\* assertWebhookMatchesOrder: identity and amount.
Matches(e) == order.intent /\ order.total = e.amount

\* Faulty variant of Settled: a paid order is open to later events.
SettledUnpaid(o) == o.paymentState = "cancelled" \/ o.commitment = "released"

\* Events handleWebhook acknowledges without acting on them.
Settled(o) ==
    o.status = "paid" \/ o.paymentState = "cancelled" \/ o.commitment = "released"

Ignored(e) ==
    \/ order.event = e.id
    \/ Settled(order)
    \/ e.type # "succeeded" /\ order.created # 0 /\ e.created < order.created

\* setEventCartCommitmentState on an active event-cart commitment.
Committed(o, state) ==
    [o EXCEPT !.commitment = IF @ = "active" THEN state ELSE @]

\* The order after an event that is acted on.
Applied(e) ==
    [CASE e.type = "processing" ->
            [order EXCEPT !.status = "pending", !.paymentState = "payment_processing"]
       [] e.type = "failed" ->
            [Committed(order, "released") EXCEPT !.status = "failed",
                                                 !.paymentState = "payment_failed"]
       [] OTHER ->
            [Committed(order, "committed") EXCEPT !.status = "paid", !.paymentState = "paid"]
     EXCEPT !.event = e.id, !.created = e.created]

\* Nobody else of this order runs inside serializePaymentEvent.
Serialized ==
    /\ ~ handler.busy
    /\ Overlap \/ \A s \in Sessions : sessions[s].step = "idle"

IgnoreWebhook(e) ==
    /\ Serialized
    /\ e.id \in unacked
    /\ Matches(e) /\ Ignored(e)
    /\ unacked' = unacked \ {e.id}
    /\ UNCHANGED <<source, order, stripe, events, sessions, handler, readers, crashes>>

\* Faulty variants of ApplyToSource: only carts are committed; a commit on progress.
ApplyToCart(e) ==
    IF order.commitment = "active" /\ e.type # "processing"
    THEN MoveSource(IF e.type = "failed" THEN "released" ELSE "committed", order.revision)
    ELSE UNCHANGED source

ApplyEarly(e) ==
    IF e.type = "failed" THEN UNCHANGED source
                         ELSE MoveSource("committed", order.revision)

\* The source transition an event causes, before the order is written.
ApplyToSource(e) ==
    CASE e.type = "succeeded" -> MoveSource("committed", order.revision)
      [] e.type = "failed" /\ order.commitment = "active" ->
            MoveSource("released", order.revision)
      [] OTHER -> UNCHANGED source

\* Any emitted event, for the first time or again, while no other is handled.
HandleWebhook(e) ==
    /\ Serialized
    /\ Matches(e) /\ ~ Ignored(e)
    /\ ApplyToSource(e)
    /\ handler' = [busy |-> TRUE, event |-> e.id, order |-> Applied(e)]
    /\ UNCHANGED <<order, stripe, events, unacked, sessions, readers, crashes>>

\* cancelOrder up to its upsert.
CancelOrder ==
    /\ Serialized
    /\ order.exists /\ order.status # "paid" /\ order.paymentState # "cancelled"
    /\ MoveSource("released", order.revision)
    /\ handler' = [busy |-> TRUE, event |-> 0,
                   order |-> [Committed(order, "released") EXCEPT
                                 !.status = "failed", !.paymentState = "cancelled"]]
    /\ UNCHANGED <<order, stripe, events, unacked, sessions, readers, crashes>>

\* orders.set of handleWebhook and cancelOrder, then the answer.
PersistHandled ==
    /\ handler.busy
    /\ order' = handler.order
    /\ unacked' = unacked \ {handler.event}
    /\ handler' = [handler EXCEPT !.busy = FALSE, !.event = 0, !.order = NewOrder]
    /\ UNCHANGED <<source, stripe, events, sessions, readers, crashes>>

\* The API process dies: everything in flight is gone, rows and Stripe stay.
Crash ==
    /\ crashes < CrashesOf[source.kind]
    /\ handler.busy /\ handler.event = 0 => CancelDies
    /\ crashes' = crashes + 1
    /\ handler' = [busy |-> FALSE, event |-> 0, order |-> NewOrder]
    /\ sessions' = [s \in Sessions |-> IdleSession]
    /\ readers' = {}
    /\ UNCHANGED <<source, order, stripe, events, unacked>>

SessionStep(s) ==
    \/ \E total \in AmountsOf[source.kind] : LoadSource(s, total)
    \/ MatchOrder(s) \/ PrepareIntent(s) \/ PersistSession(s) \/ EndSession(s)

Next ==
    \/ CartHolds \/ CartEmpties \/ CartLapses
    \/ \E r \in Readers : ReaderMisses(r) \/ ReaderPersists(r)
    \/ \E s \in Sessions : (\E entry \in Entry : BeginSession(s, entry)) \/ SessionStep(s)
    \/ Attempt \/ Decline \/ Charge
    \/ \E e \in events : IgnoreWebhook(e) \/ HandleWebhook(e)
    \/ CancelOrder \/ PersistHandled
    \/ Crash

Spec == Init /\ [][Next]_vars

\* Stripe retries an event until it is acknowledged.
Retry(id) == id \in unacked /\ \E e \in events : e.id = id /\ (IgnoreWebhook(e) \/ HandleWebhook(e))

\* Sessions and handlers run to an end; Stripe's retries outlast the locks they meet: SF.
FairSpec ==
    /\ Spec
    /\ \A s \in Sessions : WF_vars(SessionStep(s))
    /\ \A id \in 1..MaxEvents : SF_vars(Retry(id))
    /\ WF_vars(PersistHandled)

-----------------------------------------------------------------------------
(***************************************************************************)
(* Type invariant of the checkout.                                         *)
(***************************************************************************)
TypeOK ==
    /\ source \in Source
    /\ order \in Order
    /\ stripe \in Intent
    /\ events \subseteq Event
    /\ unacked \subseteq 1..MaxEvents
    /\ sessions \in [Sessions -> Session]
    /\ handler \in [busy : BOOLEAN, event : 0..MaxEvents, order : Order]
    /\ readers \subseteq Readers
    /\ crashes \in 0..CrashesOf[source.kind]

(***************************************************************************)
(* TDD.md 319: a paid order commits its reservation.  Whatever the order   *)
(* of events, sessions, retries and crashes, the allocation of a paid      *)
(* winner's order has been committed (handleWebhook commits before it      *)
(* writes "paid").  A cart that was emptied after the quote is the         *)
(* exception: CartService.commit accepts it and nothing is sold.           *)
(***************************************************************************)
PaidOrdersCommitted == ~ IsCart /\ order.status = "paid" => source.sold

(***************************************************************************)
(* No order is paid on the client's word, nor for another amount: Stripe   *)
(* charged exactly the total of every paid order, although sessions change *)
(* the intent's amount and the order's total in separate steps.            *)
(***************************************************************************)
PaidInFull == order.status = "paid" =>
    stripe.status = "succeeded" /\ stripe.amount = order.total

(***************************************************************************)
(* Stock is committed only for money that Stripe has confirmed.            *)
(***************************************************************************)
SalesAreCharged == source.sold => stripe.status = "succeeded"

(***************************************************************************)
(* While an order is paid, no webhook or cancellation holds an older copy  *)
(* of it that it is about to write (serializePaymentEvent re-reads the     *)
(* order inside the lock and skips settled ones).                          *)
(***************************************************************************)
NothingPendingOverPaid == order.status = "paid" => ~ handler.busy

(***************************************************************************)
(* TDD.md 322: an order moves pending -> paid | failed.  A paid order      *)
(* stays paid.                                                             *)
(***************************************************************************)
PaidIsFinal == [][order.status = "paid" => order'.status = "paid"]_vars

(***************************************************************************)
(* createSession: a cancelled order "is no longer payable".                *)
(***************************************************************************)
CancelledIsFinal ==
    [][order.paymentState = "cancelled" => order'.paymentState = "cancelled"]_vars

(***************************************************************************)
(* Webhook retries converge: when Stripe has taken the money, the order    *)
(* becomes paid, or is one the buyer cancelled or the failure released.    *)
(***************************************************************************)
ChargesSettle == (stripe.status = "succeeded") ~> Settled(order)
=============================================================================
