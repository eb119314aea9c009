------------------------------- MODULE Offers -------------------------------
(***************************************************************************)
(* Guarded actions and targeted offers: GuardedActionService               *)
(* (apps/api/src/actions/action.service.ts) over the lineup, offer and     *)
(* audit stores of apps/api/src/db.                                        *)
(*                                                                         *)
(* A seller command reads the lineup, passes the policy guard and then     *)
(* makes three separate writes: the lineup rows (compare-and-set on the    *)
(* row version, all in one transaction), the offer row, the audit row.  A  *)
(* rollback and a buyer's accept or cancel are sequences of writes too.    *)
(* Every store call is one step; requests interleave at every await and    *)
(* the process may die at any of them.                                     *)
(*                                                                         *)
(* Every command carries a clientRequestId, so an offer and an audit row   *)
(* are named by their command; offer_id and audit_id add nothing else.     *)
(***************************************************************************)
EXTENDS Integers, FiniteSets, FiniteSetsExt

CONSTANTS
    Products,       \* the lineup of one event
    Commands,       \* clientRequestIds
    Action,         \* the proposal each command carries
    Quantity,       \* units registered per product
    Staged,         \* the product that is on stage at the start, if any
    Reference,      \* reference_price_cents per product
    Policies,       \* the policies that may be in force while the event runs
    Opening,        \* those of them that may be in force at the start
    Returns,        \* bound: whether a policy that was replaced may come into force again
    Repeated,       \* bound: the commands that may be sent again before they are recorded
    Callers,        \* seller requests served at the same time, each by its own process
    Clients,        \* buyer and checkout requests served at the same time
    MaxRollbacks,   \* bound on rollback audits
    MaxCrashes,     \* bound on requests that die half-way
    Orderly         \* whether a rollback runs to its end with no buyer's request beside it

Kinds == {"markdown", "price-adjust", "targeted-offer", "push", "swap", "stock-adjust"}

\* quantity 0 of a price-adjust stands for an absent one; to is the swap target.
Actions == [kind : Kinds, product : Products, price : Nat, quantity : Nat, to : Products]

\* A floor that the policy does not name; it is then derived from maxMarkdownPercent.
NoFloor == -1

PolicyRow == [maxMarkdown : 0..100, floors : [Products -> Nat \cup {NoFloor}], blocked : SUBSET Kinds]

ASSUME ActionAssumption == Action \in [Commands -> Actions]
ASSUME ProductsAssumption == IsFiniteSet(Products)
\* Audit rows of commands are named by the command, those of rollbacks are numbered.
ASSUME CommandsAssumption == IsFiniteSet(Commands) /\ Commands \cap (1..MaxRollbacks) = {}
ASSUME RequestsAssumption == IsFiniteSet(Callers) /\ IsFiniteSet(Clients)
ASSUME LineupAssumption == Quantity \in [Products -> Nat] /\ Reference \in [Products -> Nat \ {0}]
ASSUME StagedAssumption == Staged \subseteq Products /\ Cardinality(Staged) <= 1
ASSUME PolicyAssumption == Policies \subseteq PolicyRow /\ Opening \subseteq Policies
ASSUME BoundsAssumption ==
    /\ Repeated \subseteq Commands /\ MaxRollbacks \in Nat /\ MaxCrashes \in Nat
    /\ Orderly \in BOOLEAN /\ Returns \in BOOLEAN

VARIABLES
    items,      \* event_lineup_item rows
    offers,     \* targeted_offer: status and version per command, "none" when absent
    audits,     \* action_audit_entry rows
    call,       \* per caller: where its apply or rollback is
    client,     \* per client: where its accept or cancel is
    orders,     \* offers that have a canonical order
    applied,    \* history: lineup writes made for each command
    restored,   \* history: lineup writes made to undo each audit
    crashes,
    policy,     \* what EventPolicyResolver would answer now
    inForce     \* history: every policy it has been

requestVars == <<items, offers, audits, call, client, orders, applied, restored, crashes>>
policyVars == <<policy, inForce>>
vars == <<requestVars, policyVars>>

\* Rollback audits, after the audits of the commands themselves.
AuditIds == Commands \cup (1..MaxRollbacks)

Stages == {"queued", "on-stage", "completed"}

Item == [qty : Nat, listed : Nat, price : Nat, stage : Stages, version : Nat]

Statuses == {"none", "pending", "accepted", "cancelled"}

NoOffer == [status |-> "none", version |-> 0]

\* snapshot: the offers of a product with their statuses.
OffersOf(p) == [c \in {d \in Commands : Action[d].product = p} |-> offers[c].status]

Existing(p) == {c \in Commands : Action[c].product = p /\ offers[c] # NoOffer}

NoAudit == [product |-> "none"]

Idle == [pc |-> "idle"]

Init ==
    /\ items = [p \in Products |->
                  [qty |-> Quantity[p], listed |-> Quantity[p], price |-> Reference[p],
                   stage |-> IF p \in Staged THEN "on-stage" ELSE "queued", version |-> 1]]
    /\ offers = [c \in Commands |-> NoOffer]
    /\ audits = [a \in AuditIds |-> NoAudit]
    /\ call = [k \in Callers |-> Idle]
    /\ client = [b \in Clients |-> Idle]
    /\ orders = {}
    /\ applied = [c \in Commands |-> 0]
    /\ restored = [a \in AuditIds |-> 0]
    /\ crashes = 0
    /\ policy \in Opening
    /\ inForce = {policy}

-----------------------------------------------------------------------------
(***************************************************************************)
(* PolicyActionGuard.                                                      *)
(***************************************************************************)
Ceil(n, d) == (n + d - 1) \div d

Derived(price) == Max({1, Ceil(price * (100 - policy.maxMarkdown), 100)})

\* Faulty variant of Floor: derived from the price of the moment.
FloorOfTheMoment(p, rows) ==
    IF policy.floors[p] # NoFloor THEN policy.floors[p] ELSE Derived(rows[p].price)

\* withDerivedPriceFloors: a floor the policy names wins, whatever the percentage says.
Floor(p, rows) ==
    IF policy.floors[p] # NoFloor THEN policy.floors[p] ELSE Derived(Reference[p])

\* markdownPercent against the current price is at most the policy's.
WithinMarkdown(p, price, rows) ==
    (rows[p].price - price) * 100 <= policy.maxMarkdown * rows[p].price

PriceAllowed(a, rows) ==
    /\ a.price > 0
    /\ a.price >= Floor(a.product, rows)
    /\ WithinMarkdown(a.product, a.price, rows)
    /\ a.kind # "price-adjust" => a.price <= rows[a.product].price

\* Faulty variant of Allowed: the quantity is not compared with what is available.
AllowedUnbounded(a, rows) ==
    /\ a.kind \notin policy.blocked
    /\ a.kind \in {"markdown", "price-adjust", "targeted-offer"} => PriceAllowed(a, rows)
    /\ a.kind = "targeted-offer" => a.quantity > 0

\* The guard's decision, with the bounds applyOnce checks after it.
Allowed(a, rows) ==
    /\ a.kind \notin policy.blocked
    /\ a.kind \in {"markdown", "price-adjust", "targeted-offer"} => PriceAllowed(a, rows)
    /\ a.kind = "targeted-offer" => a.quantity > 0
    /\ a.kind \in {"targeted-offer", "stock-adjust", "price-adjust"}
         => a.quantity <= rows[a.product].qty

(***************************************************************************)
(* What a command asks the lineup store to write: new rows by product,     *)
(* each with the version that was read.                                    *)
(***************************************************************************)
OnStage(rows) == {p \in Products : rows[p].stage = "on-stage"}

Changes(a, rows) ==
    LET row == rows[a.product]
        one(new) == [p \in {a.product} |-> new]
    IN  CASE a.kind = "targeted-offer" -> one([row EXCEPT !.qty = @ - a.quantity])
          [] a.kind = "markdown" -> one([row EXCEPT !.price = a.price])
          [] a.kind = "price-adjust" ->
               one([row EXCEPT !.price = a.price,
                               !.listed = IF a.quantity = 0 THEN @ ELSE a.quantity])
          [] a.kind = "stock-adjust" -> one([row EXCEPT !.listed = a.quantity])
          [] a.kind = "push" ->
               [p \in OnStage(rows) \cup {a.product} |->
                  [rows[p] EXCEPT !.stage = IF p = a.product THEN "on-stage" ELSE "queued"]]
          [] a.kind = "swap" ->
               [p \in {a.product, a.to} |->
                  [rows[p] EXCEPT !.stage = IF p = a.to THEN "on-stage" ELSE "queued"]]

Projected(changes) ==
    [p \in Products |-> IF p \in DOMAIN changes
                        THEN [changes[p] EXCEPT !.version = @ + 1] ELSE items[p]]

\* Faulty variant of Unchanged: a stale row is written all the same.
UnchangedIgnored(changes) == TRUE

\* Every row still has the version that was read.
Unchanged(changes) == \A p \in DOMAIN changes : items[p].version = changes[p].version

\* PgActionItemStore.write accepts the change set.
Writable(changes) ==
    /\ Unchanged(changes)
    /\ Cardinality(OnStage(Projected(changes))) <= 1

\* Faulty variant of stageRank: the caller's order, the claimed row first.
callersOrder(changes, p) ==
    IF items[p].stage # "on-stage" /\ changes[p].stage = "on-stage" THEN 0 ELSE 1

stageRank(changes, p) ==
    CASE items[p].stage = "on-stage" /\ changes[p].stage # "on-stage" -> 0
      [] items[p].stage # "on-stage" /\ changes[p].stage = "on-stage" -> 2
      [] OTHER -> 1

\* Some prefix of the ordered UPDATE statements leaves two rows on stage.
TripsIndex(changes) ==
    \E done \in SUBSET DOMAIN changes :
        /\ \A p \in done, q \in DOMAIN changes \ done :
             stageRank(changes, p) <= stageRank(changes, q)
        /\ Cardinality(OnStage([p \in Products |-> IF p \in done THEN changes[p] ELSE items[p]])) > 1
-----------------------------------------------------------------------------
(***************************************************************************)
(* apply.                                                                  *)
(***************************************************************************)
Caller(k, state) == call' = [call EXCEPT ![k] = state]

At(k, pc) == call[k].pc = pc

RollingBack == {k \in Callers : call[k].pc \in {"undo", "remove", "note"}}

\* auditStore.findByRequest finds nothing: the command has to be carried out.
ApplyFind(k, c) ==
    /\ At(k, "idle")
    /\ audits[c] = NoAudit
    /\ c \notin Repeated =>
         applied[c] = 0 /\ \A j \in Callers : call[j].pc \in {"list", "write"} => call[j].cmd # c
    /\ Caller(k, [pc |-> "list", cmd |-> c])
    /\ UNCHANGED <<items, offers, audits, client, orders, applied, restored, crashes>>

\* itemStore.list, the policy of that moment, the guard, and the offers before.
ApplyList(k) ==
    /\ At(k, "list")
    /\ LET a == Action[call[k].cmd]
       IN  Caller(k, IF Allowed(a, items) /\ ~ (a.kind = "swap" /\ a.to = a.product)
                     THEN [pc |-> "write", cmd |-> call[k].cmd, changes |-> Changes(a, items),
                           before |-> items[a.product], known |-> Existing(a.product)]
                     ELSE Idle)
    /\ UNCHANGED <<items, offers, audits, client, orders, applied, restored, crashes>>

\* itemStore.write, or the conflict it throws.
ApplyWrite(k) ==
    /\ At(k, "write")
    /\ LET c == call[k].cmd
           p == Action[c].product
       IN  IF Writable(call[k].changes)
           THEN /\ items' = Projected(call[k].changes)
                /\ applied' = [applied EXCEPT ![c] = @ + 1]
                /\ Caller(k, [pc |-> IF Action[c].kind = "targeted-offer" THEN "offer" ELSE "audit",
                              cmd |-> c, before |-> call[k].before,
                              after |-> items'[p], known |-> call[k].known])
           ELSE Caller(k, Idle) /\ UNCHANGED <<items, applied>>
    /\ UNCHANGED <<offers, audits, client, orders, restored, crashes>>

\* offerStore.create: a command that has an offer already keeps that one.
ApplyOffer(k) ==
    /\ At(k, "offer")
    /\ LET c == call[k].cmd
       IN  offers' = [offers EXCEPT ![c] = IF @ = NoOffer THEN [status |-> "pending", version |-> 1]
                                                          ELSE @]
    /\ Caller(k, [call[k] EXCEPT !.pc = "audit"])
    /\ UNCHANGED <<items, audits, client, orders, applied, restored, crashes>>

\* What rollback will remove: the offers of the snapshot after that the one before lacks.
Minted(known, p) == Existing(p) \ known

\* The snapshot after and auditStore.record, which keeps an earlier row of the command.
ApplyAudit(k) ==
    /\ At(k, "audit")
    /\ LET c == call[k].cmd
           p == Action[c].product
       IN  audits' = [audits EXCEPT ![c] =
                        IF @ # NoAudit THEN @
                        ELSE [product |-> p, before |-> call[k].before, after |-> call[k].after,
                              offers |-> OffersOf(p), minted |-> Minted(call[k].known, p),
                              undone |-> FALSE]]
    /\ Caller(k, Idle)
    /\ UNCHANGED <<items, offers, client, orders, applied, restored, crashes>>
-----------------------------------------------------------------------------
(***************************************************************************)
(* rollback.                                                               *)
(***************************************************************************)
\* Faulty variant of sameItem: the version is left out.
sameContent(left, right) == [left EXCEPT !.version = 0] = [right EXCEPT !.version = 0]

sameItem(left, right) == left = right

\* The checks: not undone, and the item and its offers are as the action left them.
RollbackCheck(k, a) ==
    /\ At(k, "idle")
    /\ Cardinality({n \in 1..MaxRollbacks : audits[n] = NoAudit})
         > Cardinality({call[j].audit : j \in RollingBack} \ {a})
    /\ audits[a] # NoAudit
    /\ ~ audits[a].undone
    /\ sameItem(items[audits[a].product], audits[a].after)
    /\ OffersOf(audits[a].product) = audits[a].offers
    /\ Orderly => \A b \in Clients : client[b] = Idle
    /\ Caller(k, [pc |-> "undo", audit |-> a, current |-> items[audits[a].product]])
    /\ UNCHANGED <<items, offers, audits, client, orders, applied, restored, crashes>>

\* The item is put back as it was; only this row, also for a push or a swap.
RollbackWrite(k) ==
    /\ At(k, "undo")
    /\ LET a == call[k].audit
           change == [p \in {audits[a].product} |->
                        [audits[a].before EXCEPT !.version = call[k].current.version]]
       IN  IF Writable(change)
           THEN /\ items' = Projected(change)
                /\ restored' = [restored EXCEPT ![a] = @ + 1]
                /\ Caller(k, [pc |-> "remove", audit |-> a, current |-> call[k].current,
                              row |-> items'[audits[a].product]])
           ELSE Caller(k, Idle) /\ UNCHANGED <<items, restored>>
    /\ UNCHANGED <<offers, audits, client, orders, applied, crashes>>

RollbackRemove(k) ==
    /\ At(k, "remove")
    /\ offers' = [c \in Commands |-> IF c \in audits[call[k].audit].minted THEN NoOffer ELSE offers[c]]
    /\ Caller(k, [call[k] EXCEPT !.pc = "note"])
    /\ UNCHANGED <<items, audits, client, orders, applied, restored, crashes>>

\* recordRollback marks the audit and adds one of its own, unless it was marked meanwhile.
RollbackRecord(k) ==
    /\ At(k, "note")
    /\ LET a == call[k].audit
           p == audits[a].product
       IN  IF audits[a].undone
           THEN UNCHANGED audits
           ELSE \E new \in 1..MaxRollbacks :
                  /\ \A n \in 1..MaxRollbacks : n < new <=> audits[n] # NoAudit
                  /\ audits' = [audits EXCEPT
                       ![a].undone = TRUE,
                       ![new] = [product |-> p, before |-> call[k].current,
                                 after |-> call[k].row, offers |-> OffersOf(p),
                                 minted |-> {}, undone |-> FALSE]]
    /\ Caller(k, Idle)
    /\ UNCHANGED <<items, offers, client, orders, applied, restored, crashes>>
-----------------------------------------------------------------------------
(***************************************************************************)
(* acceptOffer, commitOffer and cancelOffer.                               *)
(***************************************************************************)
Client(b, state) == client' = [client EXCEPT ![b] = state]

Live(c) == offers[c].status \in {"pending", "accepted"}

\* requireBuyerOffer, and the statuses from which the request goes on.
BuyerReads(b, c, to) ==
    /\ client[b] = Idle
    /\ Live(c)
    /\ Orderly => RollingBack = {}
    /\ Client(b, [pc |-> IF to = "accepted" /\ offers[c].status = "accepted" THEN "order" ELSE "claim",
                  offer |-> c, to |-> to, version |-> offers[c].version])
    /\ UNCHANGED <<items, offers, audits, call, orders, applied, restored, crashes>>

\* Faulty variant of Claimable: the status is set whatever happened since the read.
ClaimAnyway(c, version) == offers[c] # NoOffer

Claimable(c, version) == offers[c] # NoOffer /\ offers[c].version = version

\* setStatus, compare-and-set on the offer's version.
BuyerClaims(b) ==
    /\ client[b].pc = "claim"
    /\ LET c == client[b].offer
       IN  IF Claimable(c, client[b].version)
           THEN /\ offers' = [offers EXCEPT ![c] = [status |-> client[b].to, version |-> @.version + 1]]
                /\ Client(b, [pc |-> IF client[b].to = "accepted" THEN "order" ELSE "restock", offer |-> c])
           ELSE Client(b, Idle) /\ UNCHANGED offers
    /\ UNCHANGED <<items, audits, call, orders, applied, restored, crashes>>

\* ensureOfferOrder.
BuyerOrders(b) ==
    /\ client[b].pc = "order"
    /\ orders' = orders \cup {client[b].offer}
    /\ Client(b, Idle)
    /\ UNCHANGED <<items, offers, audits, call, applied, restored, crashes>>

\* cancelOffer lists the lineup again ...
BuyerRestocks(b) ==
    /\ client[b].pc = "restock"
    /\ LET c == client[b].offer
           row == items[Action[c].product]
       IN  Client(b, [pc |-> "return", offer |-> c,
                      row |-> [row EXCEPT !.qty = @ + Action[c].quantity]])
    /\ UNCHANGED <<items, offers, audits, call, orders, applied, restored, crashes>>

\* ... and puts the units back, unless the row changed: then they are lost.
BuyerReturns(b) ==
    /\ client[b].pc = "return"
    /\ LET change == [p \in {Action[client[b].offer].product} |-> client[b].row]
       IN  items' = IF Writable(change) THEN Projected(change) ELSE items
    /\ Client(b, Idle)
    /\ UNCHANGED <<offers, audits, call, orders, applied, restored, crashes>>

\* A process dies in the middle of a request.
CallerDies(k) ==
    /\ crashes < MaxCrashes
    /\ ~ At(k, "idle")
    /\ Orderly => k \notin RollingBack
    /\ Caller(k, Idle)
    /\ crashes' = crashes + 1
    /\ UNCHANGED <<items, offers, audits, client, orders, applied, restored>>

ClientDies(b) ==
    /\ crashes < MaxCrashes
    /\ client[b] # Idle
    /\ Client(b, Idle)
    /\ crashes' = crashes + 1
    /\ UNCHANGED <<items, offers, audits, call, orders, applied, restored>>

\* The seller publishes a policy, withdraws it, or turns the price guardrail on or off.
PolicyChanges ==
    /\ policy' \in Policies \ (IF Returns THEN {policy} ELSE inForce)
    /\ inForce' = inForce \cup {policy'}
    /\ UNCHANGED requestVars

Requests ==
    \/ \E k \in Callers : \/ \E c \in Commands : ApplyFind(k, c)
                          \/ \E a \in AuditIds : RollbackCheck(k, a)
                          \/ ApplyList(k) \/ ApplyWrite(k) \/ ApplyOffer(k) \/ ApplyAudit(k)
                          \/ RollbackWrite(k) \/ RollbackRemove(k) \/ RollbackRecord(k)
                          \/ CallerDies(k)
    \/ \E b \in Clients : \/ \E c \in Commands, to \in {"accepted", "cancelled"} : BuyerReads(b, c, to)
                          \/ BuyerClaims(b) \/ BuyerOrders(b) \/ BuyerRestocks(b) \/ BuyerReturns(b)
                          \/ ClientDies(b)

Next == (Requests /\ UNCHANGED policyVars) \/ PolicyChanges

Spec == Init /\ [][Next]_vars
-----------------------------------------------------------------------------
(***************************************************************************)
(* Type invariant.                                                         *)
(***************************************************************************)
TypeOK ==
    /\ items \in [Products -> Item]
    /\ offers \in [Commands -> [status : Statuses, version : Nat]]
    /\ \A a \in AuditIds : audits[a] # NoAudit =>
         /\ audits[a].product \in Products
         /\ {audits[a].before, audits[a].after} \subseteq Item
         /\ audits[a].minted \subseteq Commands
         /\ audits[a].undone \in BOOLEAN
    /\ \A k \in Callers :
         call[k].pc \in {"idle", "list", "write", "offer", "audit", "undo", "remove", "note"}
    /\ \A b \in Clients : client[b].pc \in {"idle", "claim", "order", "restock", "return"}
    /\ orders \subseteq Commands
    /\ applied \in [Commands -> Nat]
    /\ restored \in [AuditIds -> Nat]
    /\ crashes \in 0..MaxCrashes
    /\ policy \in inForce /\ inForce \subseteq Policies

\* Offers that a rollback is about to remove.
Doomed == UNION {audits[call[k].audit].minted : k \in {j \in Callers : At(j, "remove")}}

\* The units that live offers of a product hold, one by one.
Holding(p) == {c \in Commands : Action[c].product = p /\ Live(c) /\ c \notin Doomed}

HeldUnits(p) == UNION {{c} \X (1..Action[c].quantity) : c \in Holding(p)}

(***************************************************************************)
(* Units are never invented: what is for sale and what live offers hold    *)
(* is never more than the seller registered, however commands, repeated    *)
(* commands, accepts, cancels and rollbacks interleave and die, as long as *)
(* rollbacks are orderly.                                                  *)
(***************************************************************************)
UnitsNotInvented ==
    \A p \in Products : items[p].qty + Cardinality(HeldUnits(p)) <= Quantity[p]

\* The price is no lower than the policy's own floor or than its percentage leaves.
Clears(pol, p, price) ==
    IF pol.floors[p] # NoFloor THEN price >= pol.floors[p]
                               ELSE price * 100 >= Reference[p] * (100 - pol.maxMarkdown)

AboveFloor(p, price) == price = Reference[p] \/ \E pol \in inForce : Clears(pol, p, price)

(***************************************************************************)
(* No sequence of markdowns, price adjustments, offers and rollbacks makes *)
(* a price, or the price of an offer, that no policy ever allowed: it is   *)
(* the reference price or clears the floor of a policy that has been in    *)
(* force, the floor it names or the percentage of the reference price.     *)
(* Percentages do not add up, and a rollback restores no price the guard   *)
(* never let pass.  A policy that changes later does not undo a price.     *)
(***************************************************************************)
PricesGuarded ==
    /\ \A p \in Products : AboveFloor(p, items[p].price)
    /\ \A c \in Commands : offers[c] # NoOffer => AboveFloor(Action[c].product, Action[c].price)

(***************************************************************************)
(* "The stage handover makes that unreachable" (PgActionItemStore.write):  *)
(* no accepted change set ever has two rows on stage between two of its    *)
(* UPDATE statements.                                                      *)
(***************************************************************************)
HandoverIsSafe ==
    \A k \in Callers : At(k, "write") /\ Writable(call[k].changes) => ~ TripsIndex(call[k].changes)

(***************************************************************************)
(* An action is undone at most once, also when two rollbacks race or one   *)
(* died before it marked the audit.                                        *)
(***************************************************************************)
UndoneOnce == \A a \in AuditIds : restored[a] <= 1

(***************************************************************************)
(* A rollback "cannot silently erase a newer seller action" (class         *)
(* comment): when it writes the lineup, the row is exactly the one that    *)
(* the undone action left.  Every write of a row raises its version, so    *)
(* nothing has written it since: no later command, also one that died      *)
(* before its audit or that only took the product off the stage, no        *)
(* buyer's cancel and no other rollback.                                   *)
(***************************************************************************)
NewerActionKept ==
    [][\A k \in Callers :
         At(k, "undo") /\ call'[k].pc = "remove"
         => LET a == audits[call[k].audit] IN items[a.product] = a.after]_vars
=============================================================================
