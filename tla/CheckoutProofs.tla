--------------------------- MODULE CheckoutProofs ---------------------------
(***************************************************************************)
(* Theorems about checkout and payment, for every set of sessions, rates   *)
(* and panels, every number of events and every pattern of crashes.        *)
(*                                                                         *)
(* The argument: a charge is irrevocable (once the intent has succeeded no *)
(* step changes it), every "succeeded" event states the intent's amount,   *)
(* and the handler compares that amount with the order before it moves the *)
(* source and prepares the paid row.  What a handler holds between its     *)
(* source transition and its upsert is therefore already true of Stripe    *)
(* and of the allocation, whatever sessions write in between.              *)
(***************************************************************************)
EXTENDS Checkout, FiniteSetTheorems, TLAPS

\* A session that has a total has a rate's total; what it read still has a row.
SessionsQuoted == \A s \in Sessions :
    /\ sessions[s].step \in {"loaded", "matched", "paid for"} => sessions[s].total \in Amounts
    /\ sessions[s].existing.exists => order.exists

\* An intent has a rate's amount; a cart's intent becomes payable with its order.
IntentQuoted ==
    /\ stripe.status # "none" => stripe.amount \in Amounts
    /\ IsCart /\ ~ order.exists => stripe.status = "none"
    /\ order.intent => order.exists

\* Every "succeeded" event is about the charge that was made.
ChargesReported == \A e \in events :
    e.type = "succeeded" => stripe.status = "succeeded" /\ stripe.amount = e.amount

\* Committed sources are sold, sold ones are charged; only carts run empty.
SourceSound ==
    /\ source.state = "committed" => source.sold
    /\ ~ IsCart => source.state # "empty"
    /\ SalesAreCharged

\* What must be true before an order row that says "paid" may be written.
Backed(o) == o.status = "paid" =>
    /\ stripe.status = "succeeded"
    /\ stripe.amount = o.total
    /\ ~ IsCart => source.sold

\* The row a handler is about to write, and the row that is there.
RowsBacked ==
    /\ handler.busy => handler.order.exists /\ Backed(handler.order)
    /\ Backed(order)
    /\ NothingPendingOverPaid

Inv ==
    /\ TypeOK
    /\ IsFiniteSet(events)
    /\ SessionsQuoted
    /\ IntentQuoted
    /\ ChargesReported
    /\ SourceSound
    /\ RowsBacked

-----------------------------------------------------------------------------
(* The rows, sessions and events the steps write are of their types.       *)

(***************************************************************************)
(* The rows createSession and the panels write.                            *)
(***************************************************************************)
LEMMA OrderForms ==
    /\ NewOrder \in Order
    /\ [NewOrder EXCEPT !.exists = TRUE] \in Order
    /\ IdleSession \in Session
<1>1. MaxRevision \in Nat /\ MaxEvents \in Nat
  BY CheckoutAssumption
<1>2. NewOrder \in Order
  BY <1>1 DEF NewOrder, Order
<1>3. IdleSession \in Session
  BY <1>1, <1>2 DEF IdleSession, Session
<1>4. [NewOrder EXCEPT !.exists = TRUE] \in Order
  BY <1>2 DEF Order
<1> QED
  BY <1>2, <1>3, <1>4

(***************************************************************************)
(* What createSession upserts is pending, for its total and with an        *)
(* intent.                                                                 *)
(***************************************************************************)
LEMMA SessionOrderForm ==
    ASSUME NEW s \in Sessions, sessions \in [Sessions -> Session]
    PROVE  /\ SessionOrder(s) \in Order
           /\ SessionOrder(s).exists
           /\ SessionOrder(s).status = "pending"
           /\ SessionOrder(s).paymentState = "payment_required"
<1>2. sessions[s].total \in Amounts \cup {0} /\ sessions[s].revision \in 0..MaxRevision
  BY DEF Session
<1> DEFINE commitment == IF IsCart THEN "active" ELSE "none"
<1>3. commitment \in {"none", "active"}
  OBVIOUS
<1>4. SessionOrder(s) = [NewOrder EXCEPT !.exists = TRUE, !.intent = TRUE,
                            !.total = sessions[s].total, !.commitment = commitment,
                            !.revision = sessions[s].revision]
  BY DEF SessionOrder
<1>5. NewOrder.status = "pending" /\ NewOrder.paymentState = "payment_required"
  BY DEF NewOrder
<1> HIDE DEF commitment
<1> QED
  BY <1>2, <1>3, <1>4, <1>5, OrderForms DEF Order

(***************************************************************************)
(* setEventCartCommitmentState changes the commitment alone.               *)
(***************************************************************************)
LEMMA CommittedForm ==
    ASSUME NEW o \in Order, NEW state \in {"released", "committed"}
    PROVE  /\ Committed(o, state) \in Order
           /\ Committed(o, state).exists = o.exists
           /\ Committed(o, state).total = o.total
           /\ Committed(o, state).intent = o.intent
  BY DEF Committed, Order

\* A row with a new status, payment state and event.
Stamped(o, status, paymentState, e) ==
    [[o EXCEPT !.status = status, !.paymentState = paymentState]
     EXCEPT !.event = e.id, !.created = e.created]

(***************************************************************************)
(* Such a row is still an order, of the same identity and total.           *)
(***************************************************************************)
LEMMA StampedForm ==
    ASSUME NEW o \in Order,
           NEW status \in {"pending", "paid", "failed"},
           NEW paymentState \in {"payment_processing", "paid", "payment_failed"},
           NEW e \in Event
    PROVE  LET w == Stamped(o, status, paymentState, e)
           IN  /\ w \in Order
               /\ w.exists = o.exists /\ w.total = o.total /\ w.intent = o.intent
               /\ w.status = status /\ w.paymentState = paymentState
<1> DEFINE v == [o EXCEPT !.status = status, !.paymentState = paymentState]
<1>1. /\ v \in Order
      /\ v.exists = o.exists /\ v.total = o.total /\ v.intent = o.intent
      /\ v.status = status /\ v.paymentState = paymentState
  BY DEF Order
<1>2. Stamped(o, status, paymentState, e) = [v EXCEPT !.event = e.id, !.created = e.created]
  BY DEF Stamped
<1>3. e.id \in 0..MaxEvents /\ e.created \in 0..MaxEvents
  BY CheckoutAssumption DEF Event
<1> HIDE DEF v
<1> QED
  BY <1>1, <1>2, <1>3 DEF Order

(***************************************************************************)
(* An applied event keeps the order's identity and total, and makes it     *)
(* paid only when it reports a success.                                    *)
(***************************************************************************)
LEMMA AppliedForm ==
    ASSUME order \in Order, NEW e \in Event
    PROVE  /\ Applied(e) \in Order
           /\ Applied(e).exists = order.exists
           /\ Applied(e).total = order.total
           /\ Applied(e).intent = order.intent
           /\ Applied(e).status = "paid" => e.type = "succeeded"
           /\ Applied(e).status = "paid" => Applied(e).paymentState = "paid"
           /\ Applied(e).paymentState # "cancelled"
<1>1. CASE e.type = "processing"
  <2> DEFINE o == order
  <2> DEFINE w == Stamped(o, "pending", "payment_processing", e)
  <2>2. Applied(e) = w
    BY <1>1 DEF Applied, Stamped
  <2> HIDE DEF o
  <2>3. /\ w \in Order
        /\ w.exists = o.exists /\ w.total = o.total /\ w.intent = o.intent
        /\ w.status = "pending" /\ w.paymentState = "payment_processing"
    BY StampedForm DEF o
  <2> HIDE DEF w
  <2> QED
    BY <1>1, <2>2, <2>3 DEF o
<1>2. CASE e.type = "failed"
  <2> DEFINE o == Committed(order, "released")
  <2>1. o \in Order /\ o.exists = order.exists /\ o.total = order.total /\ o.intent = order.intent
    BY CommittedForm
  <2> DEFINE w == Stamped(o, "failed", "payment_failed", e)
  <2>2. Applied(e) = w
    BY <1>2 DEF Applied, Stamped
  <2> HIDE DEF o
  <2>3. /\ w \in Order
        /\ w.exists = o.exists /\ w.total = o.total /\ w.intent = o.intent
        /\ w.status = "failed" /\ w.paymentState = "payment_failed"
    BY <2>1, StampedForm
  <2> HIDE DEF w
  <2> QED
    BY <1>2, <2>1, <2>2, <2>3
<1>3. CASE e.type = "succeeded"
  <2> DEFINE o == Committed(order, "committed")
  <2>1. o \in Order /\ o.exists = order.exists /\ o.total = order.total /\ o.intent = order.intent
    BY CommittedForm
  <2> DEFINE w == Stamped(o, "paid", "paid", e)
  <2>2. Applied(e) = w
    BY <1>3 DEF Applied, Stamped
  <2> HIDE DEF o
  <2>3. /\ w \in Order
        /\ w.exists = o.exists /\ w.total = o.total /\ w.intent = o.intent
        /\ w.status = "paid" /\ w.paymentState = "paid"
    BY <2>1, StampedForm
  <2> HIDE DEF w
  <2> QED
    BY <1>3, <2>1, <2>2, <2>3
<1> QED
  BY <1>1, <1>2, <1>3 DEF Event

(***************************************************************************)
(* The row cancelOrder writes.                                             *)
(***************************************************************************)
LEMMA CancelledForm ==
    ASSUME order \in Order
    PROVE  LET o == [Committed(order, "released") EXCEPT
                        !.status = "failed", !.paymentState = "cancelled"]
           IN  /\ o \in Order
               /\ o.exists = order.exists
               /\ o.status = "failed"
  BY CommittedForm DEF Order

(***************************************************************************)
(* Source transitions stay inside the source's type, never forget a sale   *)
(* and sell only by a commit, after which the source is sold or empty.     *)
(***************************************************************************)
LEMMA MoveSourceForm ==
    ASSUME source \in Source, NEW state \in {"released", "committed"}, NEW revision,
           MoveSource(state, revision)
    PROVE  /\ source' \in Source
           /\ source'.kind = source.kind
           /\ source.sold => source'.sold
           /\ source'.sold => source.sold \/ state = "committed"
           /\ source'.state = "empty" => source.state = "empty"
           /\ source'.state = "committed" => source'.sold \/ source.state = "committed"
           /\ state = "committed" => source'.sold \/ source.state \in {"committed", "empty"}
<1>1. CASE Transits(state, revision) /\
           source' = [source EXCEPT !.state = state, !.lapsed = FALSE,
                                    !.sold = @ \/ state = "committed"]
  BY <1>1 DEF Source, Transits
<1>2. CASE (Replays(state, revision) \/ source.state = "empty") /\ UNCHANGED source
  BY <1>2 DEF Source, Replays
<1> QED
  BY <1>1, <1>2 DEF MoveSource

-----------------------------------------------------------------------------
(* The invariant, one lemma per group of actions.                          *)

(***************************************************************************)
(* The invariant holds before the first session.                           *)
(***************************************************************************)
LEMMA InitInv == Init => Inv
<1> SUFFICES ASSUME Init PROVE Inv
  OBVIOUS
<1>1. MaxRevision \in Nat /\ MaxEvents \in Nat
  BY CheckoutAssumption
<1>2. TypeOK
  <2>1. source \in Source /\ source.kind \in Kinds
    <3>1. PICK k \in Kinds : source = [kind |-> k, state |-> "open", revision |-> 0,
                                      lapsed |-> FALSE, sold |-> FALSE]
      BY DEF Init
    <3> QED
      BY <1>1, <3>1 DEF Source
  <2>2. stripe \in Intent
    BY DEF Init, Intent
  <2>3. sessions \in [Sessions -> Session]
    BY OrderForms DEF Init
  <2>4. handler \in [busy : BOOLEAN, event : 0..MaxEvents, order : Order]
    BY <1>1, OrderForms DEF Init
  <2>5. crashes \in 0..CrashesOf[source.kind]
    <3>1. CrashesOf[source.kind] \in Nat
      BY <2>1, CheckoutAssumption
    <3> QED
      BY <3>1 DEF Init
  <2> QED
    BY <2>1, <2>2, <2>3, <2>4, <2>5, OrderForms DEF Init, TypeOK
<1>3. IsFiniteSet(events)
  BY FS_EmptySet DEF Init
<1>4. SessionsQuoted
  BY DEF Init, SessionsQuoted, IdleSession, NewOrder
<1>5. IntentQuoted /\ ChargesReported
  BY DEF Init, IntentQuoted, ChargesReported, NewOrder
<1>6. SourceSound
  BY DEF Init, SourceSound, SalesAreCharged
<1>7. RowsBacked
  BY DEF Init, RowsBacked, Backed, NothingPendingOverPaid, NewOrder
<1> QED
  BY <1>2, <1>3, <1>4, <1>5, <1>6, <1>7 DEF Inv

(***************************************************************************)
(* The cart moves on its own.                                              *)
(***************************************************************************)
LEMMA CartInv ==
    ASSUME Inv, CartHolds \/ CartEmpties \/ CartLapses
    PROVE  Inv'
<1>1. /\ UNCHANGED <<order, stripe, events, unacked, sessions, handler, readers, crashes>>
      /\ IsCart
      /\ source' \in Source /\ source'.kind = source.kind /\ source'.sold = source.sold
      /\ source'.state = "committed" => source.state = "committed"
  <2>1. source \in Source /\ MaxRevision \in Nat
    BY CheckoutAssumption DEF Inv, TypeOK
  <2>2. ASSUME NEW state \in {"open", "empty"}, NEW lapsed \in BOOLEAN, CartChange(state, lapsed)
        PROVE  <1>1!:
    <3>1. source.revision + 1 \in 0..MaxRevision
      BY <2>1, <2>2 DEF CartChange, Source
    <3> QED
      BY <2>1, <2>2, <3>1 DEF CartChange, Source
  <2>3. CASE CartHolds
    BY <2>1, <2>2, <2>3 DEF CartHolds, Source
  <2>4. CASE CartEmpties
    BY <2>2, <2>4 DEF CartEmpties
  <2>5. CASE CartLapses
    BY <2>1, <2>5 DEF CartLapses, Source
  <2> QED
    BY <2>3, <2>4, <2>5
<1>2. TypeOK'
  BY <1>1 DEF Inv, TypeOK
<1>3. IsFiniteSet(events)' /\ SessionsQuoted' /\ ChargesReported'
  BY <1>1 DEF Inv, SessionsQuoted, ChargesReported
<1>4. IntentQuoted' /\ SourceSound'
  BY <1>1 DEF Inv, IntentQuoted, SourceSound, SalesAreCharged, IsCart
<1>5. RowsBacked'
  BY <1>1 DEF Inv, RowsBacked, Backed, NothingPendingOverPaid, IsCart
<1> QED
  BY <1>2, <1>3, <1>4, <1>5 DEF Inv

(***************************************************************************)
(* A panel finds no order, or writes a pending one.                        *)
(***************************************************************************)
LEMMA ReaderInv ==
    ASSUME Inv, NEW r \in Readers, ReaderMisses(r) \/ ReaderPersists(r)
    PROVE  Inv'
<1>1. /\ UNCHANGED <<source, stripe, events, unacked, sessions, handler, crashes>>
      /\ readers' \subseteq Readers
      /\ \/ order' = order
         \/ /\ order' \in Order /\ order'.exists
            /\ order'.status = "pending" /\ ~ order'.intent
  <2>1. CASE ReaderMisses(r)
    BY <2>1 DEF ReaderMisses, Inv, TypeOK
  <2>2. CASE ReaderPersists(r)
    BY <2>2, OrderForms DEF ReaderPersists, Inv, TypeOK, NewOrder
  <2> QED
    BY <2>1, <2>2
<1>2. TypeOK'
  BY <1>1 DEF Inv, TypeOK
<1>3. IsFiniteSet(events)' /\ SessionsQuoted' /\ ChargesReported'
  BY <1>1 DEF Inv, SessionsQuoted, ChargesReported
<1>4. IntentQuoted' /\ SourceSound'
  BY <1>1 DEF Inv, IntentQuoted, SourceSound, SalesAreCharged, IsCart
<1>5. RowsBacked'
  BY <1>1 DEF Inv, RowsBacked, Backed, NothingPendingOverPaid, IsCart
<1> QED
  BY <1>2, <1>3, <1>4, <1>5 DEF Inv

(***************************************************************************)
(* A session's own step keeps the sessions typed and quoted, provided its  *)
(* new state is.                                                           *)
(***************************************************************************)
LEMMA AdvanceQuoted ==
    ASSUME Inv, NEW s \in Sessions, NEW next \in Session, Advance(s, next),
           next.step \in {"loaded", "matched", "paid for"} => next.total \in Amounts,
           next.existing.exists => order'.exists,
           order.exists => order'.exists
    PROVE  sessions' \in [Sessions -> Session] /\ SessionsQuoted'
<1>1. sessions \in [Sessions -> Session] /\ SessionsQuoted
  BY DEF Inv, TypeOK
<1>2. sessions' = [sessions EXCEPT ![s] = next]
  BY DEF Advance
<1> QED
  BY <1>1, <1>2 DEF SessionsQuoted

(***************************************************************************)
(* The steps of createSession that read.                                   *)
(***************************************************************************)
LEMMA ReadingInv ==
    ASSUME Inv, NEW s \in Sessions,
           \/ \E entry \in Entry : BeginSession(s, entry)
           \/ \E total \in AmountsOf[source.kind] : LoadSource(s, total)
           \/ MatchOrder(s)
           \/ EndSession(s)
    PROVE  Inv'
<1>1. /\ sessions[s] \in Session /\ sessions[s].existing \in Order
      /\ order \in Order /\ source \in Source
      /\ sessions[s].step \in {"loaded", "matched", "paid for"} => sessions[s].total \in Amounts
      /\ sessions[s].existing.exists => order.exists
  BY DEF Inv, TypeOK, SessionsQuoted, Session
<1> DEFINE Good(next) ==
      /\ next \in Session
      /\ next.step \in {"loaded", "matched", "paid for"} => next.total \in Amounts
      /\ next.existing.exists => order.exists
<1>2. \E next : Good(next) /\ Advance(s, next) /\ UNCHANGED <<order, stripe>>
  <2>1. ASSUME NEW entry \in Entry, BeginSession(s, entry) PROVE <1>2!:
    <3> DEFINE existing == IF entry = "order" THEN order ELSE NewOrder
               next == [IdleSession EXCEPT !.step = "begun", !.entry = entry,
                                           !.existing = existing]
    <3>1. existing \in Order /\ (existing.exists => order.exists)
      BY <1>1, OrderForms DEF NewOrder
    <3>2. entry \in {"order", "source"}
      BY CheckoutAssumption
    <3>3. Advance(s, next) /\ UNCHANGED <<order, stripe>>
      BY <2>1 DEF BeginSession
    <3> HIDE DEF existing
    <3>4. Good(next)
      BY <3>1, <3>2, OrderForms DEF Session
    <3> QED
      BY <3>3, <3>4
  <2>2. ASSUME NEW total \in AmountsOf[source.kind], LoadSource(s, total) PROVE <1>2!:
    <3> DEFINE next == [sessions[s] EXCEPT !.step = "loaded", !.total = total,
                                           !.revision = source.revision]
    <3>1. total \in Amounts /\ source.revision \in 0..MaxRevision
      BY <1>1 DEF Amounts, Source
    <3>2. Good(next)
      BY <1>1, <3>1 DEF Session
    <3> QED
      BY <2>2, <3>2 DEF LoadSource
  <2>3. ASSUME MatchOrder(s) PROVE <1>2!:
    <3> DEFINE existing == IF sessions[s].entry = "order" THEN sessions[s].existing ELSE order
               next == [sessions[s] EXCEPT !.step = "matched", !.existing = existing]
    <3>1. existing \in Order /\ (existing.exists => order.exists)
      BY <1>1
    <3>2. Advance(s, next) /\ UNCHANGED <<order, stripe>> /\ sessions[s].step = "loaded"
      BY <2>3 DEF MatchOrder
    <3> HIDE DEF existing
    <3>3. Good(next)
      BY <1>1, <3>1, <3>2 DEF Session
    <3> QED
      BY <3>2, <3>3
  <2>4. ASSUME EndSession(s) PROVE <1>2!:
    <3>1. Good(IdleSession)
      BY OrderForms DEF IdleSession, NewOrder
    <3> QED
      BY <2>4, <3>1 DEF EndSession
  <2> QED
    BY <2>1, <2>2, <2>3, <2>4
<1>3. PICK next : Good(next) /\ Advance(s, next) /\ UNCHANGED <<order, stripe>>
  BY <1>2
<1>4. UNCHANGED <<source, order, stripe, events, unacked, handler, readers, crashes>>
  BY <1>3 DEF Advance
<1>5. sessions' \in [Sessions -> Session] /\ SessionsQuoted'
  BY <1>3, AdvanceQuoted
<1>6. TypeOK'
  BY <1>4, <1>5 DEF Inv, TypeOK
<1>7. IsFiniteSet(events)' /\ ChargesReported' /\ IntentQuoted' /\ SourceSound'
  BY <1>4 DEF Inv, ChargesReported, IntentQuoted, SourceSound, SalesAreCharged, IsCart
<1>8. RowsBacked'
  BY <1>4 DEF Inv, RowsBacked, Backed, NothingPendingOverPaid, IsCart
<1> QED
  BY <1>5, <1>6, <1>7, <1>8 DEF Inv

(***************************************************************************)
(* Stripe create and update: a charge is not changed, and a cart that has  *)
(* no order yet does not touch the shared intent.                          *)
(***************************************************************************)
LEMMA PrepareForm ==
    ASSUME Inv, NEW s \in Sessions, PrepareIntent(s)
    PROVE  /\ stripe' \in Intent
           /\ stripe'.status # "none" => stripe'.amount \in Amounts
           /\ stripe.status = "succeeded" => stripe' = stripe
           /\ IsCart /\ ~ order.exists => stripe' = stripe
<1>1. /\ stripe \in Intent
      /\ stripe.status # "none" => stripe.amount \in Amounts
      /\ sessions[s].total \in Amounts
      /\ sessions[s].existing.exists => order.exists
      /\ IsCart /\ ~ order.exists => stripe.status = "none"
  BY DEF Inv, TypeOK, IntentQuoted, SessionsQuoted, PrepareIntent
<1>2. CASE UNCHANGED stripe
  BY <1>1, <1>2
<1>3. CASE ~ OwnIntent(s) /\ stripe.status = "none" /\
           stripe' = [stripe EXCEPT !.status = "created", !.amount = sessions[s].total,
                                    !.first = sessions[s].total]
  BY <1>1, <1>3 DEF Intent, OwnIntent
<1>4. CASE stripe.status \in {"created", "payable"} /\
           stripe' = [stripe EXCEPT !.amount = sessions[s].total,
                                    !.updates = @ \cup {sessions[s].total}]
  BY <1>1, <1>4 DEF Intent
<1> QED
  BY <1>2, <1>3, <1>4 DEF PrepareIntent, CreateIntent, UpdateIntent

(***************************************************************************)
(* createSession's call to Stripe.                                         *)
(***************************************************************************)
LEMMA PrepareInv ==
    ASSUME Inv, NEW s \in Sessions, PrepareIntent(s)
    PROVE  Inv'
<1>1. /\ UNCHANGED <<source, order, events, unacked, handler, readers, crashes>>
      /\ sessions[s].step = "matched"
      /\ Advance(s, [sessions[s] EXCEPT !.step = "paid for"])
  BY DEF PrepareIntent, Advance
<1>2. sessions' \in [Sessions -> Session] /\ SessionsQuoted'
  <2> DEFINE next == [sessions[s] EXCEPT !.step = "paid for"]
  <2>1. /\ sessions[s] \in Session /\ sessions[s].total \in Amounts
        /\ sessions[s].existing.exists => order.exists
    BY <1>1 DEF Inv, TypeOK, SessionsQuoted
  <2>2. next \in Session /\ next.total \in Amounts /\ (next.existing.exists => order'.exists)
    BY <1>1, <2>1 DEF Session
  <2>3. Advance(s, next) /\ (order.exists => order'.exists)
    BY <1>1
  <2> HIDE DEF next
  <2> QED
    BY <2>2, <2>3, AdvanceQuoted
<1>3. TypeOK'
  BY <1>1, <1>2, PrepareForm DEF Inv, TypeOK
<1>4. IsFiniteSet(events)' /\ ChargesReported' /\ IntentQuoted' /\ SourceSound'
  BY <1>1, PrepareForm
  DEF Inv, ChargesReported, IntentQuoted, SourceSound, SalesAreCharged, IsCart
<1>5. RowsBacked'
  BY <1>1, PrepareForm DEF Inv, RowsBacked, Backed, NothingPendingOverPaid, IsCart
<1> QED
  BY <1>2, <1>3, <1>4, <1>5 DEF Inv

(***************************************************************************)
(* createSession's upsert: the row is pending, and the intent it makes     *)
(* payable is not one that has been charged.                               *)
(***************************************************************************)
LEMMA PersistInv ==
    ASSUME Inv, NEW s \in Sessions, PersistSession(s)
    PROVE  Inv'
<1>1. /\ UNCHANGED <<source, events, unacked, handler, readers, crashes>>
      /\ Advance(s, IdleSession)
      /\ order' = SessionOrder(s)
      /\ OwnIntent(s) => ~ order.exists
  BY DEF PersistSession, Advance
<1>2. order' \in Order /\ order'.exists /\ order'.status = "pending"
  BY <1>1, SessionOrderForm DEF Inv, TypeOK
<1>3. sessions' \in [Sessions -> Session] /\ SessionsQuoted'
  <2>1. IdleSession.step = "idle" /\ ~ IdleSession.existing.exists
    BY DEF IdleSession, NewOrder
  <2> QED
    BY <1>1, <1>2, <2>1, OrderForms, AdvanceQuoted
<1>4. /\ stripe' \in Intent
      /\ stripe'.status # "none" => stripe'.amount \in Amounts
      /\ stripe.status = "succeeded" => stripe' = stripe
  <2>1. /\ stripe \in Intent
        /\ stripe.status # "none" => stripe.amount \in Amounts
        /\ sessions[s].total \in Amounts
        /\ IsCart /\ ~ order.exists => stripe.status = "none"
    BY DEF Inv, TypeOK, IntentQuoted, SessionsQuoted, PersistSession
  <2>2. CASE OwnIntent(s)
    <3>1. stripe.status = "none"
      BY <1>1, <2>1, <2>2 DEF OwnIntent
    <3> QED
      BY <2>1, <2>2, <3>1 DEF PersistSession, Intent
  <2>3. CASE ~ OwnIntent(s)
    BY <2>1, <2>3 DEF PersistSession, Intent
  <2> QED
    BY <2>2, <2>3
<1>5. TypeOK'
  BY <1>1, <1>2, <1>3, <1>4 DEF Inv, TypeOK
<1>6. IsFiniteSet(events)' /\ ChargesReported' /\ IntentQuoted' /\ SourceSound'
  BY <1>1, <1>2, <1>4
  DEF Inv, ChargesReported, IntentQuoted, SourceSound, SalesAreCharged, IsCart
<1>7. RowsBacked'
  BY <1>1, <1>2, <1>4 DEF Inv, RowsBacked, Backed, NothingPendingOverPaid, IsCart
<1> QED
  BY <1>3, <1>5, <1>6, <1>7 DEF Inv

(***************************************************************************)
(* Stripe moves the intent: no attempt follows a charge, so a new          *)
(* "succeeded" event is the only one and states the intent's amount.       *)
(***************************************************************************)
LEMMA EmitInv ==
    ASSUME Inv, Attempt \/ Decline \/ Charge
    PROVE  Inv'
<1>1. \E type \in {"processing", "failed", "succeeded"},
         status \in {"payable", "processing", "succeeded"} :
         Emit(type, status) /\ (type = "succeeded" => status = "succeeded")
  BY DEF Attempt, Decline, Charge
<1>2. PICK type \in {"processing", "failed", "succeeded"},
           status \in {"payable", "processing", "succeeded"} :
           Emit(type, status) /\ (type = "succeeded" => status = "succeeded")
  BY <1>1
<1>3. stripe.status \in {"payable", "processing"}
  BY DEF Attempt, Decline, Charge
<1>4. /\ UNCHANGED <<source, order, sessions, handler, readers, crashes>>
      /\ stripe' = [stripe EXCEPT !.status = status]
      /\ unacked' = unacked \cup {Cardinality(events) + 1}
      /\ Cardinality(events) < MaxEvents
  BY <1>2 DEF Emit
<1>5. PICK c \in 1..MaxEvents :
        events' = events \cup {[id |-> Cardinality(events) + 1, created |-> c, type |-> type,
                                amount |-> stripe.amount]}
  BY <1>2 DEF Emit
<1> DEFINE e == [id |-> Cardinality(events) + 1, created |-> c, type |-> type,
                 amount |-> stripe.amount]
<1>6. Cardinality(events) + 1 \in 1..MaxEvents
  <2>1. Cardinality(events) \in Nat /\ MaxEvents \in Nat
    BY FS_CardinalityType, CheckoutAssumption DEF Inv
  <2> QED
    BY <1>4, <2>1
<1>7. stripe \in Intent /\ stripe.amount \in Amounts
  BY <1>3 DEF Inv, TypeOK, IntentQuoted
<1>8. e \in Event
  BY <1>6, <1>7 DEF Event
<1>9. /\ stripe' \in Intent /\ stripe'.amount = stripe.amount
      /\ stripe'.status = status /\ stripe'.status # "none"
  BY <1>4, <1>7 DEF Intent
<1>10. TypeOK'
  <2>1. events' \subseteq Event
    BY <1>5, <1>8 DEF Inv, TypeOK
  <2>2. unacked' \subseteq 1..MaxEvents
    BY <1>4, <1>6 DEF Inv, TypeOK
  <2> QED
    BY <1>4, <1>9, <2>1, <2>2 DEF Inv, TypeOK
<1>11. IsFiniteSet(events)'
  BY <1>5, FS_AddElement DEF Inv
<1>12. ChargesReported'
  <2>1. \A d \in events : d.type # "succeeded"
    BY <1>3 DEF Inv, ChargesReported
  <2>2. e.type = type /\ e.amount = stripe.amount
    OBVIOUS
  <2> QED
    BY <1>2, <1>5, <1>9, <2>1, <2>2 DEF ChargesReported
<1>13. SessionsQuoted' /\ IntentQuoted'
  BY <1>3, <1>4, <1>7, <1>9 DEF Inv, SessionsQuoted, IntentQuoted, IsCart
<1>14. SourceSound'
  BY <1>3, <1>4 DEF Inv, SourceSound, SalesAreCharged, IsCart
<1>15. RowsBacked'
  BY <1>3, <1>4 DEF Inv, RowsBacked, Backed, NothingPendingOverPaid, IsCart
<1> QED
  BY <1>10, <1>11, <1>12, <1>13, <1>14, <1>15 DEF Inv

(***************************************************************************)
(* handleWebhook up to its upsert: a "paid" row is prepared only for the   *)
(* amount that was charged, and after the allocation was committed.        *)
(***************************************************************************)
LEMMA HandleInv ==
    ASSUME Inv, NEW e \in events, HandleWebhook(e)
    PROVE  Inv'
<1>1. /\ e \in Event /\ order \in Order /\ source \in Source
      /\ order.intent /\ order.exists /\ order.total = e.amount
      /\ order.status # "paid"
      /\ handler' = [busy |-> TRUE, event |-> e.id, order |-> Applied(e)]
      /\ UNCHANGED <<order, stripe, events, unacked, sessions, readers, crashes>>
  BY DEF HandleWebhook, Matches, Ignored, Settled, Inv, TypeOK, IntentQuoted
<1>2. /\ source' \in Source /\ source'.kind = source.kind
      /\ source.sold => source'.sold
      /\ source'.sold => source.sold \/ e.type = "succeeded"
      /\ source'.state = "empty" => source.state = "empty"
      /\ source'.state = "committed" => source'.sold \/ source.state = "committed"
      /\ e.type = "succeeded" => source'.sold \/ source.state \in {"committed", "empty"}
  <2>1. CASE e.type = "succeeded"
    <3>1. MoveSource("committed", order.revision)
      BY <2>1 DEF HandleWebhook, ApplyToSource
    <3> QED
      BY <1>1, <2>1, <3>1, MoveSourceForm
  <2>2. CASE e.type = "failed" /\ order.commitment = "active"
    <3>1. MoveSource("released", order.revision)
      BY <2>2 DEF HandleWebhook, ApplyToSource
    <3> QED
      BY <1>1, <2>2, <3>1, MoveSourceForm
  <2>3. CASE e.type # "succeeded" /\ ~ (e.type = "failed" /\ order.commitment = "active")
    <3>1. UNCHANGED source
      BY <2>3 DEF HandleWebhook, ApplyToSource
    <3> QED
      BY <1>1, <2>3, <3>1
  <2> QED
    BY <2>1, <2>2, <2>3
<1>3. e.type = "succeeded" =>
        /\ stripe.status = "succeeded" /\ stripe.amount = order.total
        /\ ~ IsCart => source'.sold
  BY <1>1, <1>2 DEF Inv, ChargesReported, SourceSound
<1>4. /\ Applied(e) \in Order /\ Applied(e).exists /\ Applied(e).total = order.total
      /\ Applied(e).status = "paid" => e.type = "succeeded"
  BY <1>1, AppliedForm
<1>5. TypeOK'
  <2>1. e.id \in 0..MaxEvents
    BY <1>1, CheckoutAssumption DEF Event
  <2>2. handler' \in [busy : BOOLEAN, event : 0..MaxEvents, order : Order]
    BY <1>1, <1>4, <2>1
  <2> QED
    BY <1>1, <1>2, <2>2 DEF Inv, TypeOK
<1>6. IsFiniteSet(events)' /\ SessionsQuoted' /\ IntentQuoted' /\ ChargesReported'
  BY <1>1, <1>2 DEF Inv, SessionsQuoted, IntentQuoted, ChargesReported, IsCart
<1>7. SourceSound'
  BY <1>1, <1>2, <1>3 DEF Inv, SourceSound, SalesAreCharged, IsCart
<1>8. RowsBacked'
  BY <1>1, <1>2, <1>3, <1>4 DEF Inv, RowsBacked, Backed, NothingPendingOverPaid, IsCart
<1> QED
  BY <1>5, <1>6, <1>7, <1>8 DEF Inv

(***************************************************************************)
(* cancelOrder up to its upsert.                                           *)
(***************************************************************************)
LEMMA CancelInv ==
    ASSUME Inv, CancelOrder
    PROVE  Inv'
<1> DEFINE o == [Committed(order, "released") EXCEPT
                    !.status = "failed", !.paymentState = "cancelled"]
<1>1. /\ order \in Order /\ source \in Source
      /\ order.exists /\ order.status # "paid"
      /\ handler' = [busy |-> TRUE, event |-> 0, order |-> o]
      /\ UNCHANGED <<order, stripe, events, unacked, sessions, readers, crashes>>
      /\ MoveSource("released", order.revision)
  BY DEF CancelOrder, Inv, TypeOK
<1>2. o \in Order /\ o.exists /\ o.status = "failed"
  BY <1>1, CancelledForm
<1> HIDE DEF o
<1>3. /\ source' \in Source /\ source'.kind = source.kind
      /\ source.sold <=> source'.sold
      /\ source'.state = "empty" => source.state = "empty"
      /\ source'.state = "committed" => source'.sold \/ source.state = "committed"
  BY <1>1, MoveSourceForm DEF Source
<1>4. TypeOK'
  <2>1. handler' \in [busy : BOOLEAN, event : 0..MaxEvents, order : Order]
    BY <1>1, <1>2, CheckoutAssumption
  <2> QED
    BY <1>1, <1>3, <2>1 DEF Inv, TypeOK
<1>5. IsFiniteSet(events)' /\ SessionsQuoted' /\ IntentQuoted' /\ ChargesReported'
  BY <1>1, <1>3 DEF Inv, SessionsQuoted, IntentQuoted, ChargesReported, IsCart
<1>6. SourceSound'
  BY <1>1, <1>3 DEF Inv, SourceSound, SalesAreCharged, IsCart
<1>7. RowsBacked'
  BY <1>1, <1>2, <1>3 DEF Inv, RowsBacked, Backed, NothingPendingOverPaid, IsCart
<1> QED
  BY <1>4, <1>5, <1>6, <1>7 DEF Inv

(***************************************************************************)
(* The upsert that ends handleWebhook or cancelOrder.                      *)
(***************************************************************************)
LEMMA PersistHandledInv ==
    ASSUME Inv, PersistHandled
    PROVE  Inv'
<1>1. /\ handler.busy /\ order' = handler.order
      /\ unacked' = unacked \ {handler.event}
      /\ handler' = [handler EXCEPT !.busy = FALSE, !.event = 0, !.order = NewOrder]
      /\ UNCHANGED <<source, stripe, events, sessions, readers, crashes>>
  BY DEF PersistHandled
<1>2. handler \in [busy : BOOLEAN, event : 0..MaxEvents, order : Order]
  BY DEF Inv, TypeOK
<1>3. ~ handler'.busy /\ handler' \in [busy : BOOLEAN, event : 0..MaxEvents, order : Order]
  <2>1. 0 \in 0..MaxEvents
    BY CheckoutAssumption
  <2> QED
    BY <1>1, <1>2, <2>1, OrderForms
<1>4. order' \in Order /\ order'.exists /\ Backed(handler.order)
  BY <1>1, <1>2 DEF Inv, RowsBacked
<1>5. TypeOK'
  BY <1>1, <1>3, <1>4 DEF Inv, TypeOK
<1>6. IsFiniteSet(events)' /\ SessionsQuoted' /\ IntentQuoted' /\ ChargesReported'
  BY <1>1, <1>4 DEF Inv, SessionsQuoted, IntentQuoted, ChargesReported, IsCart
<1>7. SourceSound'
  BY <1>1 DEF Inv, SourceSound, SalesAreCharged, IsCart
<1>8. RowsBacked'
  BY <1>1, <1>3, <1>4 DEF RowsBacked, Backed, NothingPendingOverPaid, IsCart
<1> QED
  BY <1>5, <1>6, <1>7, <1>8 DEF Inv

(***************************************************************************)
(* The process dies: what was in flight is forgotten.                      *)
(***************************************************************************)
LEMMA CrashInv ==
    ASSUME Inv, Crash
    PROVE  Inv'
<1>1. /\ crashes < CrashesOf[source.kind] /\ crashes' = crashes + 1
      /\ handler' = [busy |-> FALSE, event |-> 0, order |-> NewOrder]
      /\ sessions' = [s \in Sessions |-> IdleSession]
      /\ readers' = {}
      /\ UNCHANGED <<source, order, stripe, events, unacked>>
  BY DEF Crash
<1>2. TypeOK'
  <2>1. source.kind \in Kinds /\ crashes \in 0..CrashesOf[source.kind]
    BY DEF Inv, TypeOK, Source
  <2>2. CrashesOf[source.kind] \in Nat
    BY <2>1, CheckoutAssumption
  <2>3. crashes' \in 0..CrashesOf[source.kind]
    BY <1>1, <2>1, <2>2
  <2>4. handler' \in [busy : BOOLEAN, event : 0..MaxEvents, order : Order]
    BY <1>1, OrderForms, CheckoutAssumption
  <2>5. sessions' \in [Sessions -> Session]
    BY <1>1, OrderForms
  <2> QED
    BY <1>1, <2>3, <2>4, <2>5 DEF Inv, TypeOK
<1>3. SessionsQuoted'
  BY <1>1 DEF SessionsQuoted, IdleSession, NewOrder
<1>4. IsFiniteSet(events)' /\ IntentQuoted' /\ ChargesReported'
  BY <1>1 DEF Inv, IntentQuoted, ChargesReported, IsCart
<1>5. SourceSound' /\ RowsBacked'
  BY <1>1 DEF Inv, SourceSound, SalesAreCharged, RowsBacked, Backed,
              NothingPendingOverPaid, IsCart
<1> QED
  BY <1>2, <1>3, <1>4, <1>5 DEF Inv

(***************************************************************************)
(* Every step keeps the invariant.                                         *)
(***************************************************************************)
LEMMA InvStep == Inv /\ [Next]_vars => Inv'
<1> SUFFICES ASSUME Inv, [Next]_vars PROVE Inv'
  OBVIOUS
<1>1. CASE UNCHANGED vars
  BY <1>1 DEF vars, Inv, TypeOK, SessionsQuoted, IntentQuoted, ChargesReported, SourceSound,
              SalesAreCharged, RowsBacked, Backed, NothingPendingOverPaid, IsCart
<1>2. ASSUME NEW e \in events, IgnoreWebhook(e) PROVE Inv'
  <2>1. /\ UNCHANGED <<source, order, stripe, events, sessions, handler, readers, crashes>>
        /\ unacked' \subseteq unacked
    BY <1>2 DEF IgnoreWebhook
  <2> QED
    BY <2>1 DEF Inv, TypeOK, SessionsQuoted, IntentQuoted, ChargesReported, SourceSound,
                SalesAreCharged, RowsBacked, Backed, NothingPendingOverPaid, IsCart
<1> QED
  BY <1>1, <1>2, CartInv, ReaderInv, ReadingInv, PrepareInv, PersistInv, EmitInv, HandleInv,
     CancelInv, PersistHandledInv, CrashInv DEF Next, SessionStep

(***************************************************************************)
(* The invariant holds throughout.                                         *)
(***************************************************************************)
LEMMA InvAlways == Spec => []Inv
  BY InitInv, InvStep, PTL DEF Spec

(***************************************************************************)
(* Orders, intents, events, sessions and handlers stay in their types.     *)
(***************************************************************************)
THEOREM CheckoutTypeCorrect == Spec => []TypeOK
  BY InvAlways, PTL DEF Inv

(***************************************************************************)
(* handleWebhook: the allocation of a paid winner's order has been         *)
(* committed, whatever sessions, retries and crashes come in between.      *)
(***************************************************************************)
THEOREM PaidCommitted == Spec => []PaidOrdersCommitted
<1>1. Inv => PaidOrdersCommitted
  BY DEF Inv, RowsBacked, Backed, PaidOrdersCommitted
<1> QED
  BY <1>1, InvAlways, PTL

(***************************************************************************)
(* assertWebhookMatchesOrder: Stripe charged exactly the total of every    *)
(* paid order, although sessions change the intent and the order apart.    *)
(***************************************************************************)
THEOREM PaidCharged == Spec => []PaidInFull
<1>1. Inv => PaidInFull
  BY DEF Inv, RowsBacked, Backed, PaidInFull
<1> QED
  BY <1>1, InvAlways, PTL

(***************************************************************************)
(* CheckoutSourceService.commit: stock is committed only for money Stripe  *)
(* has confirmed.                                                          *)
(***************************************************************************)
THEOREM SoldCharged == Spec => []SalesAreCharged
<1>1. Inv => SalesAreCharged
  BY DEF Inv, SourceSound
<1> QED
  BY <1>1, InvAlways, PTL

(***************************************************************************)
(* serializePaymentEvent: while an order is paid no handler holds an older *)
(* copy of it that it is about to write.                                   *)
(***************************************************************************)
THEOREM PaidUnchallenged == Spec => []NothingPendingOverPaid
<1>1. Inv => NothingPendingOverPaid
  BY DEF Inv, RowsBacked
<1> QED
  BY <1>1, InvAlways, PTL

-----------------------------------------------------------------------------
(* Finality, where sessions and handlers do not overlap.                   *)

\* No session is open while an event or a cancel is handled, and nobody writes an
\* order blindly: no panel is there, or one, and sessions resume what it wrote.
Quiet ==
    /\ ~ Overlap
    /\ \/ Readers = {}
       \/ Entry \subseteq {"order"} /\ \A r, q \in Readers : r = q

AllIdle == \A s \in Sessions : sessions[s].step = "idle"

\* Terminal rows are consistent.
RowSound(o) ==
    /\ o.status = "paid" => o.exists /\ o.paymentState = "paid"
    /\ o.paymentState = "cancelled" => o.exists

\* A session that is open entered somewhere, and one that resumes an order read its row.
SessionsEntered == \A s \in Sessions : sessions[s].step # "idle" =>
    /\ sessions[s].entry \in Entry
    /\ sessions[s].entry = "order" => sessions[s].existing.exists

\* A session may still look at a paid order, but it will not get past MatchOrder.
LooksOn(s) ==
    \/ sessions[s].step = "idle"
    \/ sessions[s].entry = "source" /\ sessions[s].step \in {"begun", "loaded"}

QuietInv ==
    /\ SessionsEntered
    /\ order.exists => readers = {}
    /\ handler.busy => order.exists /\ AllIdle /\ RowSound(handler.order)
    /\ RowSound(order)
    /\ order.status = "paid" => \A s \in Sessions : LooksOn(s)
    /\ order.paymentState = "cancelled" => ~ handler.busy
    /\ order.paymentState = "cancelled" =>
          \A s \in Sessions : sessions[s].step = "idle" \/ sessions[s].entry = "source"

(***************************************************************************)
(* A session's step keeps QuietInv, provided its new state looks on at     *)
(* most and entered properly.                                              *)
(***************************************************************************)
LEMMA QuietAdvance ==
    ASSUME Inv, Quiet, QuietInv, NEW s \in Sessions, NEW next, Advance(s, next),
           UNCHANGED order,
           next.step # "idle" =>
               /\ ~ handler.busy
               /\ next.entry \in Entry
               /\ next.entry = "order" => next.existing.exists
               /\ order.paymentState = "cancelled" => next.entry = "source"
               /\ order.status = "paid" => next.entry = "source" /\ next.step \in {"begun", "loaded"}
    PROVE  QuietInv'
<1>1. /\ sessions \in [Sessions -> Session]
      /\ sessions' = [sessions EXCEPT ![s] = next]
      /\ UNCHANGED <<order, handler, readers>>
  BY DEF Inv, TypeOK, Advance
<1>2. sessions'[s] = next /\ \A q \in Sessions \ {s} : sessions'[q] = sessions[q]
  BY <1>1
<1>3. SessionsEntered'
  BY <1>2 DEF QuietInv, SessionsEntered
<1>4. handler.busy => AllIdle'
  BY <1>2 DEF QuietInv, AllIdle
<1>5. order.status = "paid" => \A q \in Sessions : LooksOn(q)'
  BY <1>2 DEF QuietInv, LooksOn
<1>6. order.paymentState = "cancelled" =>
        \A q \in Sessions : sessions'[q].step = "idle" \/ sessions'[q].entry = "source"
  BY <1>2 DEF QuietInv
<1> QED
  BY <1>1, <1>3, <1>4, <1>5, <1>6 DEF QuietInv, RowSound

(***************************************************************************)
(* createSession up to its upsert: a paid order stops it at MatchOrder, a  *)
(* cancelled one at its entry.                                             *)
(***************************************************************************)
LEMMA QuietSession ==
    ASSUME Inv, Quiet, QuietInv, NEW s \in Sessions,
           \/ \E entry \in Entry : BeginSession(s, entry)
           \/ \E total \in AmountsOf[source.kind] : LoadSource(s, total)
           \/ MatchOrder(s) \/ PrepareIntent(s) \/ EndSession(s)
    PROVE  QuietInv'
<1>1. /\ sessions[s] \in Session
      /\ Entry \subseteq {"order", "source"}
      /\ sessions[s].step # "idle" =>
            /\ sessions[s].entry \in Entry
            /\ sessions[s].entry = "order" => sessions[s].existing.exists
            /\ ~ handler.busy
            /\ order.paymentState = "cancelled" => sessions[s].entry = "source"
            /\ order.status = "paid" => LooksOn(s)
  BY CheckoutAssumption DEF Inv, TypeOK, QuietInv, SessionsEntered, AllIdle
<1>2. ASSUME NEW entry \in Entry, BeginSession(s, entry) PROVE QuietInv'
  <2> DEFINE existing == IF entry = "order" THEN order ELSE NewOrder
             next == [IdleSession EXCEPT !.step = "begun", !.entry = entry,
                                         !.existing = existing]
  <2>1. Advance(s, next) /\ UNCHANGED order
    BY <1>2 DEF BeginSession
  <2>2. next.step = "begun" /\ next.entry = entry /\ next.existing = existing
    BY DEF IdleSession
  <2>3. /\ ~ handler.busy
        /\ entry = "order" => /\ existing.exists
                              /\ order.paymentState \notin {"paid", "cancelled"}
    BY <1>2 DEF BeginSession, Resumable, Quiet
  <2>4. order.status = "paid" => order.paymentState = "paid"
    BY DEF QuietInv, RowSound
  <2> HIDE DEF existing, next
  <2> QED
    BY <1>1, <2>1, <2>2, <2>3, <2>4, QuietAdvance
<1>3. ASSUME NEW total \in AmountsOf[source.kind], LoadSource(s, total) PROVE QuietInv'
  <2> DEFINE next == [sessions[s] EXCEPT !.step = "loaded", !.total = total,
                                         !.revision = source.revision]
  <2>1. Advance(s, next) /\ UNCHANGED order /\ sessions[s].step = "begun"
    BY <1>3 DEF LoadSource
  <2>2. /\ next.step = "loaded" /\ next.entry = sessions[s].entry
        /\ next.existing = sessions[s].existing
    BY <1>1 DEF Session
  <2> HIDE DEF next
  <2> QED
    BY <1>1, <2>1, <2>2, QuietAdvance DEF LooksOn
<1>4. ASSUME MatchOrder(s) PROVE QuietInv'
  <2> DEFINE existing == IF sessions[s].entry = "order" THEN sessions[s].existing ELSE order
             next == [sessions[s] EXCEPT !.step = "matched", !.existing = existing]
  <2>1. /\ Advance(s, next) /\ UNCHANGED order /\ sessions[s].step = "loaded"
        /\ existing.status # "paid"
    BY <1>4 DEF MatchOrder
  <2>2. next.step = "matched" /\ next.entry = sessions[s].entry /\ next.existing = existing
    BY <1>1 DEF Session
  <2>3. order.status # "paid"
    BY <1>1, <2>1 DEF LooksOn
  <2>4. sessions[s].entry = "order" => existing = sessions[s].existing
    OBVIOUS
  <2> HIDE DEF existing, next
  <2> QED
    BY <1>1, <2>1, <2>2, <2>3, <2>4, QuietAdvance
<1>5. ASSUME PrepareIntent(s) PROVE QuietInv'
  <2> DEFINE next == [sessions[s] EXCEPT !.step = "paid for"]
  <2>1. Advance(s, next) /\ UNCHANGED order /\ sessions[s].step = "matched"
    BY <1>5 DEF PrepareIntent
  <2>2. /\ next.step = "paid for" /\ next.entry = sessions[s].entry
        /\ next.existing = sessions[s].existing
    BY <1>1 DEF Session
  <2>3. order.status # "paid"
    BY <1>1, <2>1 DEF LooksOn
  <2> HIDE DEF next
  <2> QED
    BY <1>1, <2>1, <2>2, <2>3, QuietAdvance
<1>6. ASSUME EndSession(s) PROVE QuietInv'
  <2>1. Advance(s, IdleSession) /\ UNCHANGED order /\ IdleSession.step = "idle"
    BY <1>6 DEF EndSession, IdleSession
  <2> QED
    BY <2>1, QuietAdvance
<1> QED
  BY <1>2, <1>3, <1>4, <1>5, <1>6

(***************************************************************************)
(* An upsert by createSession meets no handler and no waiting panel, and   *)
(* the row it replaces is not paid.                                        *)
(***************************************************************************)
LEMMA QuietPersist ==
    ASSUME Inv, Quiet, QuietInv, NEW s \in Sessions, PersistSession(s)
    PROVE  /\ QuietInv'
           /\ order.status # "paid"
           /\ order.paymentState = "cancelled" => "source" \in Entry
<1>1. /\ sessions \in [Sessions -> Session] /\ sessions[s].step = "paid for"
      /\ order' = SessionOrder(s) /\ sessions' = [sessions EXCEPT ![s] = IdleSession]
      /\ UNCHANGED <<handler, readers>>
      /\ readers \subseteq Readers
  BY DEF Inv, TypeOK, PersistSession, Advance
<1>2. /\ sessions[s].entry \in Entry
      /\ sessions[s].entry = "order" => sessions[s].existing.exists
      /\ order.paymentState = "cancelled" => sessions[s].entry = "source"
      /\ ~ handler.busy /\ order.status # "paid"
  BY <1>1 DEF QuietInv, SessionsEntered, AllIdle, LooksOn
<1>3. /\ order'.exists /\ order'.status = "pending"
      /\ order'.paymentState = "payment_required"
  BY <1>1, SessionOrderForm
<1>4. readers' = {}
  <2>1. CASE Readers = {}
    BY <1>1, <2>1
  <2>2. CASE Entry \subseteq {"order"}
    BY <1>1, <1>2, <2>2 DEF Inv, SessionsQuoted, QuietInv
  <2> QED
    BY <2>1, <2>2 DEF Quiet
<1>5. SessionsEntered'
  <2>1. IdleSession.step = "idle"
    BY DEF IdleSession
  <2> QED
    BY <1>1, <2>1 DEF QuietInv, SessionsEntered
<1> QED
  BY <1>1, <1>2, <1>3, <1>4, <1>5 DEF QuietInv, RowSound

(***************************************************************************)
(* A panel that writes is the only one, and no order was there.            *)
(***************************************************************************)
LEMMA QuietReader ==
    ASSUME Inv, Quiet, QuietInv, NEW r \in Readers, ReaderMisses(r) \/ ReaderPersists(r)
    PROVE  /\ QuietInv'
           /\ order'.status = order.status \/ ~ order.exists
           /\ order'.paymentState = order.paymentState \/ ~ order.exists
<1>1. CASE ReaderMisses(r)
  <2>1. UNCHANGED <<order, sessions, handler>> /\ ~ order.exists
    BY <1>1 DEF ReaderMisses
  <2> QED
    BY <2>1 DEF QuietInv, SessionsEntered, AllIdle, LooksOn, RowSound
<1>2. CASE ReaderPersists(r)
  <2>1. /\ UNCHANGED <<sessions, handler>> /\ r \in readers
        /\ readers' = readers \ {r} /\ readers \subseteq Readers
        /\ order' = [NewOrder EXCEPT !.exists = TRUE]
    BY <1>2 DEF ReaderPersists, Inv, TypeOK
  <2>2. order'.exists /\ order'.status = "pending" /\ order'.paymentState = "payment_required"
    BY <2>1 DEF NewOrder
  <2>3. readers' = {}
    BY <2>1 DEF Quiet
  <2>4. ~ order.exists
    BY <2>1 DEF QuietInv
  <2> QED
    BY <2>1, <2>2, <2>3, <2>4 DEF QuietInv, SessionsEntered, AllIdle, LooksOn, RowSound
<1> QED
  BY <1>1, <1>2

(***************************************************************************)
(* handleWebhook and cancelOrder start on an order that is not settled,    *)
(* with no session open.                                                   *)
(***************************************************************************)
LEMMA QuietHandle ==
    ASSUME Inv, Quiet, QuietInv, CancelOrder \/ \E e \in events : HandleWebhook(e)
    PROVE  QuietInv'
<1>1. Serialized /\ UNCHANGED <<order, sessions, readers>>
  BY DEF CancelOrder, HandleWebhook
<1>2. AllIdle
  BY <1>1 DEF Serialized, Quiet, AllIdle
<1>3. /\ order.exists /\ order.paymentState # "cancelled"
      /\ RowSound(handler'.order)
  <2>1. order \in Order /\ (order.intent => order.exists)
    BY DEF Inv, TypeOK, IntentQuoted
  <2>2. CASE CancelOrder
    <3> DEFINE o == [Committed(order, "released") EXCEPT
                        !.status = "failed", !.paymentState = "cancelled"]
    <3>1. handler'.order = o /\ order.exists /\ order.paymentState # "cancelled"
      BY <2>2 DEF CancelOrder
    <3>2. o.exists = order.exists /\ o.status = "failed"
      BY <2>1, CancelledForm
    <3> HIDE DEF o
    <3> QED
      BY <3>1, <3>2 DEF RowSound
  <2>3. ASSUME NEW e \in events, HandleWebhook(e) PROVE <1>3!:
    <3>1. /\ handler'.order = Applied(e) /\ order.intent
          /\ order.paymentState # "cancelled" /\ e \in Event
      BY <2>3 DEF HandleWebhook, Matches, Ignored, Settled, Inv, TypeOK
    <3>2. /\ Applied(e).exists = order.exists
          /\ Applied(e).status = "paid" => Applied(e).paymentState = "paid"
      BY <2>1, <3>1, AppliedForm
    <3> QED
      BY <2>1, <3>1, <3>2 DEF RowSound
  <2> QED
    BY <2>2, <2>3
<1> QED
  BY <1>1, <1>2, <1>3 DEF QuietInv, SessionsEntered, AllIdle, LooksOn, RowSound

(***************************************************************************)
(* The handler's upsert finds every session idle.                          *)
(***************************************************************************)
LEMMA QuietPersistHandled ==
    ASSUME Inv, Quiet, QuietInv, PersistHandled
    PROVE  /\ QuietInv'
           /\ order.status # "paid" /\ order.paymentState # "cancelled"
<1>1. /\ handler.busy /\ order' = handler.order /\ UNCHANGED <<sessions, readers>>
      /\ handler' = [handler EXCEPT !.busy = FALSE, !.event = 0, !.order = NewOrder]
  BY DEF PersistHandled
<1>2. handler \in [busy : BOOLEAN, event : 0..MaxEvents, order : Order]
  BY DEF Inv, TypeOK
<1>3. ~ handler'.busy
  BY <1>1, <1>2
<1>4. /\ order.exists /\ AllIdle /\ readers = {}
      /\ RowSound(handler.order)
      /\ order.status # "paid" /\ order.paymentState # "cancelled"
  BY <1>1 DEF QuietInv, Inv, RowsBacked, NothingPendingOverPaid
<1> QED
  BY <1>1, <1>3, <1>4 DEF QuietInv, SessionsEntered, AllIdle, LooksOn, RowSound

(***************************************************************************)
(* Where sessions and handlers do not overlap, every step keeps QuietInv.  *)
(***************************************************************************)
LEMMA QuietStep ==
    ASSUME Quiet
    PROVE  Inv /\ QuietInv /\ [Next]_vars => QuietInv'
<1> SUFFICES ASSUME Inv, QuietInv, [Next]_vars PROVE QuietInv'
  OBVIOUS
<1>1. CASE UNCHANGED <<order, sessions, handler, readers>>
  BY <1>1 DEF QuietInv, SessionsEntered, AllIdle, LooksOn, RowSound
<1>2. CASE Crash
  <2>1. /\ handler'.busy = FALSE /\ readers' = {} /\ UNCHANGED order
        /\ sessions' = [s \in Sessions |-> IdleSession]
    BY <1>2 DEF Crash
  <2>2. \A s \in Sessions : sessions'[s].step = "idle"
    BY <2>1 DEF IdleSession
  <2> QED
    BY <2>1, <2>2 DEF QuietInv, SessionsEntered, AllIdle, LooksOn, RowSound
<1>3. CASE CartHolds \/ CartEmpties \/ CartLapses \/ Attempt \/ Decline \/ Charge
           \/ \E e \in events : IgnoreWebhook(e)
  BY <1>1, <1>3 DEF CartHolds, CartEmpties, CartLapses, CartChange, Attempt, Decline, Charge,
                    Emit, IgnoreWebhook
<1>4. CASE UNCHANGED vars
  BY <1>1, <1>4 DEF vars
<1> QED
  BY <1>2, <1>3, <1>4, QuietReader, QuietSession, QuietPersist, QuietHandle,
     QuietPersistHandled DEF Next, SessionStep

(***************************************************************************)
(* QuietInv holds throughout where sessions and handlers do not overlap.   *)
(***************************************************************************)
LEMMA QuietAlways ==
    ASSUME Quiet
    PROVE  Spec => [](Inv /\ QuietInv)
<1>1. Init => QuietInv
  BY DEF Init, QuietInv, SessionsEntered, AllIdle, LooksOn, RowSound, IdleSession, NewOrder
<1> QED
  BY <1>1, QuietStep, InvAlways, PTL DEF Spec

(***************************************************************************)
(* What a step may do to a terminal row: nothing replaces a paid one, and  *)
(* only a session entered by its source a cancelled one.                   *)
(***************************************************************************)
LEMMA TerminalStep ==
    ASSUME Quiet, Inv, QuietInv, [Next]_vars
    PROVE  /\ order.status = "paid" => order'.status = "paid"
           /\ Entry \subseteq {"order"} /\ order.paymentState = "cancelled" =>
                 order'.paymentState = "cancelled"
<1> DEFINE Kept ==
      /\ order.status = "paid" => order'.status = "paid"
      /\ Entry \subseteq {"order"} /\ order.paymentState = "cancelled" =>
            order'.paymentState = "cancelled"
<1>1. CASE UNCHANGED order
  BY <1>1
<1>2. ASSUME NEW s \in Sessions, PersistSession(s) PROVE Kept
  BY <1>2, QuietPersist
<1>3. ASSUME NEW r \in Readers, ReaderPersists(r) PROVE Kept
  BY <1>3, QuietReader DEF QuietInv, RowSound
<1>4. CASE PersistHandled
  BY <1>4, QuietPersistHandled
<1>5. \/ UNCHANGED order \/ PersistHandled
      \/ \E s \in Sessions : PersistSession(s)
      \/ \E r \in Readers : ReaderPersists(r)
  BY DEF Next, vars, SessionStep, CartHolds, CartEmpties, CartLapses, CartChange, ReaderMisses,
         BeginSession, LoadSource, MatchOrder, PrepareIntent, EndSession, Attempt, Decline,
         Charge, Emit, IgnoreWebhook, HandleWebhook, CancelOrder, Crash
<1> QED
  BY <1>1, <1>2, <1>3, <1>4, <1>5

(***************************************************************************)
(* TDD.md 322: a paid order stays paid, whatever events, retries, cancels  *)
(* and crashes follow, when no session overlaps a handler and no second    *)
(* panel writes blindly.  The unpaid run shows that it does not otherwise. *)
(***************************************************************************)
THEOREM PaidStaysPaid ==
    ASSUME Quiet
    PROVE  Spec => PaidIsFinal
<1>1. Inv /\ QuietInv /\ [Next]_vars => [order.status = "paid" => order'.status = "paid"]_vars
  BY TerminalStep
<1> QED
  BY <1>1, QuietAlways, PTL DEF Spec, PaidIsFinal

(***************************************************************************)
(* createSession: a cancelled order "is no longer payable", when sessions  *)
(* resume orders by their id and do not overlap the handlers.              *)
(***************************************************************************)
THEOREM CancelledStaysCancelled ==
    ASSUME Quiet, Entry \subseteq {"order"}
    PROVE  Spec => CancelledIsFinal
<1>1. Inv /\ QuietInv /\ [Next]_vars =>
        [order.paymentState = "cancelled" => order'.paymentState = "cancelled"]_vars
  BY TerminalStep
<1> QED
  BY <1>1, QuietAlways, PTL DEF Spec, CancelledIsFinal
=============================================================================
