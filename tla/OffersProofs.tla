---------------------------- MODULE OffersProofs ----------------------------
(***************************************************************************)
(* Theorems about guarded actions and targeted offers, for every lineup,   *)
(* every set of commands and any number of sellers' and buyers' requests.  *)
(* The inductive invariant says, store by store and request by request,    *)
(* that every price on the way to the lineup has passed the guard, that no *)
(* version is ahead of the lineup, that an action undone is behind it, and *)
(* that at most one row is on stage.                                       *)
(***************************************************************************)
EXTENDS Offers, FiniteSetTheorems, TLAPS

AtMostOne(S) == \A x, y \in S : x = y

LineupInv ==
    /\ items \in [Products -> Item]
    /\ \A p \in Products : AboveFloor(p, items[p].price)
    /\ AtMostOne(OnStage(items))
    /\ policy \in inForce /\ inForce \in SUBSET Policies

OffersInv ==
    /\ offers \in [Commands -> [status : Statuses, version : Nat]]
    /\ \A c \in Commands : offers[c] # NoOffer => AboveFloor(Action[c].product, Action[c].price)

AuditFields == {"product", "before", "after", "offers", "minted", "undone"}

\* An audit holds rows of its product, the one before with a guarded price, the one after
\* not ahead of the lineup, and behind it once the action was undone.
AuditInv(a) ==
    /\ audits[a] # NoAudit =>
         /\ DOMAIN audits[a] = AuditFields
         /\ audits[a].product \in Products
         /\ audits[a].before \in Item /\ audits[a].after \in Item
         /\ audits[a].minted \in SUBSET Commands
         /\ audits[a].undone \in BOOLEAN
         /\ AboveFloor(audits[a].product, audits[a].before.price)
         /\ audits[a].after.version <= items[audits[a].product].version
    /\ restored[a] <= 1
    /\ restored[a] > 0 =>
         audits[a] # NoAudit /\ audits[a].after.version < items[audits[a].product].version

AuditsInv == DOMAIN audits = AuditIds /\ \A a \in AuditIds : AuditInv(a)

CountsInv ==
    /\ orders \in SUBSET Commands
    /\ applied \in [Commands -> Nat]
    /\ restored \in [AuditIds -> Nat]
    /\ crashes \in 0..MaxCrashes

\* The rows a command is about to write.
ChangesOK(changes) ==
    /\ DOMAIN changes \in SUBSET Products
    /\ \A p \in DOMAIN changes : changes[p] \in Item /\ AboveFloor(p, changes[p].price)

\* A command that has written the lineup, and a rollback that has.
Written == [pc : {"offer", "audit"}, cmd : Commands, before : Item, after : Item,
            known : SUBSET Commands]

WrittenBack == [pc : {"remove", "note"}, audit : AuditIds, current : Item, row : Item]

\* What an apply carries from one store call to the next.
ApplyInv(state) ==
    /\ state.pc \in {"list", "write", "offer", "audit"} => state.cmd \in Commands
    /\ state.pc = "write" => ChangesOK(state.changes) /\ state.known \in SUBSET Commands
    /\ state.pc \in {"write", "offer", "audit"} =>
         state.before \in Item /\ AboveFloor(Action[state.cmd].product, state.before.price)
    /\ state.pc = "offer" \/ (state.pc = "write" /\ Action[state.cmd].kind = "targeted-offer")
         => AboveFloor(Action[state.cmd].product, Action[state.cmd].price)
    /\ state.pc \in {"offer", "audit"} =>
         state \in Written /\ state.after.version <= items[Action[state.cmd].product].version

\* A row that was read: the lineup still has it, or is at a later version.
NotAhead(p, row) ==
    row.version <= items[p].version /\ (row.version = items[p].version => items[p] = row)

\* What a rollback carries: the audit it undoes, and the row that action left.
RollbackInv(state) ==
    /\ state.pc \in {"undo", "remove", "note"} =>
         /\ state.audit \in AuditIds /\ audits[state.audit] # NoAudit
         /\ state.current \in Item
         /\ AboveFloor(audits[state.audit].product, state.current.price)
    /\ state.pc = "undo" =>
         /\ state.current = audits[state.audit].after
         /\ NotAhead(audits[state.audit].product, state.current)
    /\ state.pc \in {"remove", "note"} =>
         /\ state \in WrittenBack
         /\ state.row.version <= items[audits[state.audit].product].version

CallPoints == {"idle", "list", "write", "offer", "audit", "undo", "remove", "note"}

CallInv(state) == state.pc \in CallPoints /\ ApplyInv(state) /\ RollbackInv(state)

\* What a buyer's request carries.
ClientInv(state) ==
    /\ state.pc \in {"idle", "claim", "order", "restock", "return"}
    /\ state.pc # "idle" => state.offer \in Commands
    /\ state.pc = "claim" => state.to \in {"accepted", "cancelled"}
    /\ state.pc = "return" =>
         state.row \in Item /\ AboveFloor(Action[state.offer].product, state.row.price)

Inv ==
    /\ LineupInv /\ OffersInv /\ AuditsInv /\ CountsInv
    /\ DOMAIN call = Callers /\ \A k \in Callers : CallInv(call[k])
    /\ DOMAIN client = Clients /\ \A b \in Clients : ClientInv(client[b])
-----------------------------------------------------------------------------
(***************************************************************************)
(* The stage.                                                              *)
(***************************************************************************)
LEMMA SmallSets ==
    ASSUME NEW S \in SUBSET Products
    PROVE  Cardinality(S) \in Nat /\ (Cardinality(S) <= 1 <=> AtMostOne(S))
<1>1. IsFiniteSet(S)
  BY ProductsAssumption, FS_Subset
<1>2. Cardinality(S) \in Nat
  BY <1>1, FS_CardinalityType
<1>3. Cardinality(S) = 0 <=> S = {}
  BY <1>1, FS_EmptySet
<1>4. Cardinality(S) = 1 <=> \E x : S = {x}
  BY <1>1, FS_Singleton
<1>5. AtMostOne(S) <=> S = {} \/ \E x : S = {x}
  <2>1. ASSUME AtMostOne(S), S # {} PROVE \E x : S = {x}
    <3>1. PICK x : x \in S
      BY <2>1
    <3>2. S = {x}
      BY <2>1, <3>1 DEF AtMostOne
    <3> QED
      BY <3>2
  <2> QED
    BY <2>1 DEF AtMostOne
<1> QED
  BY <1>2, <1>3, <1>4, <1>5

(***************************************************************************)
(* A price the guard lets pass is above the policy's floor.                *)
(***************************************************************************)
LEMMA CeilBound ==
    ASSUME NEW n \in Nat, NEW price \in Nat, price >= Ceil(n, 100)
    PROVE  price * 100 >= n
  BY DEF Ceil

LEMMA GuardedPrice ==
    ASSUME LineupInv, NEW a \in Actions, NEW rows, PriceAllowed(a, rows)
    PROVE  AboveFloor(a.product, a.price)
<1> DEFINE n == Reference[a.product] * (100 - policy.maxMarkdown)
           c == Ceil(n, 100)
<1>1. a.product \in Products /\ a.price \in Nat /\ policy \in inForce /\ policy \in PolicyRow
  BY PolicyAssumption DEF Actions, LineupInv
<1>2. n \in Nat
  <2>1. Reference[a.product] \in Nat /\ 100 - policy.maxMarkdown \in Nat
    BY <1>1, LineupAssumption DEF PolicyRow
  <2> QED
    BY <2>1
<1>3. c \in Int
  <2> HIDE DEF n
  <2> QED
    BY <1>2 DEF Ceil
<1>4. Max({1, c}) >= c /\ Max({1, c}) \in Int
  <2> HIDE DEF c
  <2>1. \E x \in {1, c} : \A y \in {1, c} : x >= y
    BY <1>3
  <2> QED
    BY <1>3, <2>1 DEF Max
<1>5. CASE policy.floors[a.product] # NoFloor
  <2>1. a.price >= policy.floors[a.product]
    BY <1>5 DEF PriceAllowed, Floor
  <2> QED
    BY <1>1, <1>5, <2>1 DEF AboveFloor, Clears
<1>6. CASE policy.floors[a.product] = NoFloor
  <2>1. a.price >= c
    <3>1. a.price >= Max({1, c})
      BY <1>6 DEF PriceAllowed, Floor, Derived
    <3> HIDE DEF c
    <3> QED
      BY <1>1, <1>3, <1>4, <3>1
  <2>2. a.price * 100 >= n
    <3> HIDE DEF n
    <3> QED
      BY <1>1, <1>2, <2>1, CeilBound
  <2>3. Clears(policy, a.product, a.price)
    BY <1>6, <2>2 DEF Clears
  <2> QED
    BY <1>1, <2>3 DEF AboveFloor
<1> QED
  BY <1>5, <1>6

LEMMA ChangesForm ==
    ASSUME LineupInv, NEW a \in Actions, Allowed(a, items)
    PROVE  ChangesOK(Changes(a, items))
<1> DEFINE row == items[a.product]
<1>1. /\ a.product \in Products /\ a.to \in Products /\ a.kind \in Kinds
      /\ a.price \in Nat /\ a.quantity \in Nat /\ row \in Item
      /\ AboveFloor(a.product, row.price)
  BY DEF Actions, LineupInv
<1>2. ASSUME NEW new \in Item, Changes(a, items) = [p \in {a.product} |-> new],
             AboveFloor(a.product, new.price)
      PROVE  ChangesOK(Changes(a, items))
  BY <1>1, <1>2 DEF ChangesOK
<1>3. CASE a.kind = "targeted-offer"
  <2> DEFINE new == [row EXCEPT !.qty = @ - a.quantity]
  <2>1. Changes(a, items) = [p \in {a.product} |-> new]
    BY <1>3 DEF Changes
  <2>2. a.quantity <= row.qty
    BY <1>3 DEF Allowed
  <2>3. new \in Item /\ new.price = row.price
    BY <1>1, <2>2 DEF Item
  <2> QED
    BY <1>1, <1>2, <2>1, <2>3
<1>4. CASE a.kind = "markdown"
  <2> DEFINE new == [row EXCEPT !.price = a.price]
  <2>1. Changes(a, items) = [p \in {a.product} |-> new]
    BY <1>4 DEF Changes
  <2>2. new \in Item /\ new.price = a.price
    BY <1>1 DEF Item
  <2>3. AboveFloor(a.product, a.price)
    BY <1>4, GuardedPrice DEF Allowed
  <2> QED
    BY <1>2, <2>1, <2>2, <2>3
<1>5. CASE a.kind = "price-adjust"
  <2> DEFINE new == [row EXCEPT !.price = a.price,
                                !.listed = IF a.quantity = 0 THEN @ ELSE a.quantity]
  <2>1. Changes(a, items) = [p \in {a.product} |-> new]
    BY <1>5 DEF Changes
  <2>2. new \in Item /\ new.price = a.price
    BY <1>1 DEF Item
  <2>3. AboveFloor(a.product, a.price)
    BY <1>5, GuardedPrice DEF Allowed
  <2> QED
    BY <1>2, <2>1, <2>2, <2>3
<1>6. CASE a.kind = "stock-adjust"
  <2> DEFINE new == [row EXCEPT !.listed = a.quantity]
  <2>1. Changes(a, items) = [p \in {a.product} |-> new]
    BY <1>6 DEF Changes
  <2>2. new \in Item /\ new.price = row.price
    BY <1>1 DEF Item
  <2> QED
    BY <1>1, <1>2, <2>1, <2>2
<1>7. ASSUME NEW p \in Products, NEW s \in Stages
      PROVE  [items[p] EXCEPT !.stage = s] \in Item /\ [items[p] EXCEPT !.stage = s].price = items[p].price
  BY DEF LineupInv, Item
<1>8. CASE a.kind = "push"
  <2> DEFINE new == [p \in OnStage(items) \cup {a.product} |->
                  [items[p] EXCEPT !.stage = IF p = a.product THEN "on-stage" ELSE "queued"]]
  <2>1. Changes(a, items) = new
    BY <1>8 DEF Changes
  <2>2. DOMAIN new \in SUBSET Products
    BY <1>1 DEF OnStage
  <2>3. ASSUME NEW p \in DOMAIN new
        PROVE  new[p] \in Item /\ AboveFloor(p, new[p].price)
    <3> DEFINE s == IF p = a.product THEN "on-stage" ELSE "queued"
    <3>1. s \in Stages /\ p \in Products
      BY <2>2 DEF Stages
    <3>2. new[p] = [items[p] EXCEPT !.stage = s]
      OBVIOUS
    <3>3. AboveFloor(p, items[p].price)
      BY <3>1 DEF LineupInv
    <3> HIDE DEF s, new
    <3> QED
      BY <1>7, <3>1, <3>2, <3>3
  <2> QED
    BY <2>1, <2>2, <2>3 DEF ChangesOK
<1>9. CASE a.kind = "swap"
  <2> DEFINE new == [p \in {a.product, a.to} |->
                  [items[p] EXCEPT !.stage = IF p = a.to THEN "on-stage" ELSE "queued"]]
  <2>1. Changes(a, items) = new
    BY <1>9 DEF Changes
  <2>2. DOMAIN new \in SUBSET Products
    BY <1>1
  <2>3. ASSUME NEW p \in DOMAIN new
        PROVE  new[p] \in Item /\ AboveFloor(p, new[p].price)
    <3> DEFINE s == IF p = a.to THEN "on-stage" ELSE "queued"
    <3>1. s \in Stages /\ p \in Products
      BY <2>2 DEF Stages
    <3>2. new[p] = [items[p] EXCEPT !.stage = s]
      OBVIOUS
    <3>3. AboveFloor(p, items[p].price)
      BY <3>1 DEF LineupInv
    <3> HIDE DEF s, new
    <3> QED
      BY <1>7, <3>1, <3>2, <3>3
  <2> QED
    BY <2>1, <2>2, <2>3 DEF ChangesOK
<1> QED
  BY <1>1, <1>3, <1>4, <1>5, <1>6, <1>8, <1>9 DEF Kinds
-----------------------------------------------------------------------------
(***************************************************************************)
(* What an accepted write does to the lineup.                              *)
(***************************************************************************)
VersionsGrow ==
    \A p \in Products :
        /\ items[p].version <= items'[p].version
        /\ items[p].version = items'[p].version => items'[p] = items[p]

\* What a step does to the policies: one that was in force stays one that was.
PolicyMoves ==
    /\ policy' \in inForce' /\ inForce' \in SUBSET Policies
    /\ \A pol \in inForce : pol \in inForce'

LEMMA WriteForm ==
    ASSUME LineupInv, NEW changes, ChangesOK(changes), Writable(changes),
           items' = Projected(changes)
    PROVE  /\ PolicyMoves => LineupInv'
           /\ items' \in [Products -> Item] /\ VersionsGrow
           /\ \A p \in DOMAIN changes :
                /\ items[p].version = changes[p].version
                /\ items[p].version < items'[p].version
<1>1. items \in [Products -> Item] /\ DOMAIN changes \in SUBSET Products
  BY DEF LineupInv, ChangesOK
<1>2. ASSUME NEW p \in DOMAIN changes
      PROVE  /\ items'[p] \in Item /\ items'[p].price = changes[p].price
             /\ items'[p].stage = changes[p].stage
             /\ items'[p].version = items[p].version + 1
             /\ items[p].version = changes[p].version
  <2>1. changes[p] \in Item /\ p \in Products
    BY <1>1 DEF ChangesOK
  <2>2. items'[p] = [changes[p] EXCEPT !.version = @ + 1]
    BY <2>1 DEF Projected
  <2>3. items[p].version = changes[p].version
    BY DEF Writable, Unchanged
  <2> QED
    BY <2>1, <2>2, <2>3 DEF Item
<1>3. ASSUME NEW p \in Products, p \notin DOMAIN changes
      PROVE  items'[p] = items[p]
  BY <1>3 DEF Projected
<1>4. items' \in [Products -> Item]
  <2>1. items' = [p \in Products |-> items'[p]]
    BY DEF Projected
  <2>2. \A p \in Products : items'[p] \in Item
    BY <1>1, <1>2, <1>3
  <2> QED
    BY <2>1, <2>2
<1>5. \A p \in Products : AboveFloor(p, items'[p].price)
  BY <1>2, <1>3 DEF ChangesOK, LineupInv
<1>6. AtMostOne(OnStage(items'))
  <2>1. OnStage(items') \in SUBSET Products
    BY DEF OnStage
  <2>2. Cardinality(OnStage(items')) <= 1
    BY DEF Writable
  <2> QED
    BY <2>1, <2>2, SmallSets
<1>7. \A p \in Products : items[p].version \in Nat /\ items'[p].version \in Nat
  BY <1>1, <1>4 DEF Item
<1>8. ASSUME NEW p \in Products
      PROVE  /\ items[p].version <= items'[p].version
             /\ items[p].version = items'[p].version => items'[p] = items[p]
  <2>1. CASE p \in DOMAIN changes
    BY <1>2, <1>7, <2>1
  <2>2. CASE p \notin DOMAIN changes
    BY <1>3, <1>7, <2>2
  <2> QED
    BY <2>1, <2>2
<1>9. ASSUME NEW p \in DOMAIN changes
      PROVE  items[p].version = changes[p].version /\ items[p].version < items'[p].version
  BY <1>1, <1>2, <1>7
<1>10. ASSUME PolicyMoves PROVE LineupInv'
  <2>1. OnStage(items') = OnStage(items)'
    BY DEF OnStage
  <2> QED
    BY <1>4, <1>5, <1>6, <1>10, <2>1 DEF LineupInv, AboveFloor, AtMostOne, PolicyMoves
<1> QED
  BY <1>4, <1>8, <1>9, <1>10 DEF VersionsGrow

(***************************************************************************)
(* What every step leaves of the stores: versions never go back, and a     *)
(* recorded audit keeps its rows.                                          *)
(***************************************************************************)
AuditsKeep ==
    \A a \in AuditIds : audits[a] # NoAudit =>
        /\ audits'[a] # NoAudit
        /\ audits'[a].product = audits[a].product
        /\ audits'[a].before = audits[a].before
        /\ audits'[a].after = audits[a].after

\* What a request carries stays true while others write.
LEMMA CallKept ==
    ASSUME Inv, PolicyMoves, VersionsGrow, AuditsKeep, LineupInv', NEW k \in Callers, call'[k] = call[k]
    PROVE  CallInv(call[k])'
<1>1. CallInv(call[k]) /\ items \in [Products -> Item] /\ items' \in [Products -> Item]
  BY DEF Inv, LineupInv
<1>2. \A p \in Products : items[p].version \in Nat /\ items'[p].version \in Nat
  BY <1>1 DEF Item
<1>3. ApplyInv(call[k])'
  <2>1. ApplyInv(call[k])
    BY <1>1 DEF CallInv
  <2>2. call[k].pc \in {"offer", "audit"} =>
          call[k].after.version <= items'[Action[call[k].cmd].product].version
    <3> SUFFICES ASSUME call[k].pc \in {"offer", "audit"}
                 PROVE  call[k].after.version <= items'[Action[call[k].cmd].product].version
      OBVIOUS
    <3>1. Action[call[k].cmd].product \in Products
      BY <2>1, ActionAssumption DEF ApplyInv, Actions
    <3>2. call[k].after.version \in Nat
      BY <2>1 DEF ApplyInv, Written, Item
    <3>3. call[k].after.version <= items[Action[call[k].cmd].product].version
      BY <2>1 DEF ApplyInv
    <3>4. items[Action[call[k].cmd].product].version <= items'[Action[call[k].cmd].product].version
      BY <3>1 DEF VersionsGrow
    <3> QED
      BY <1>2, <3>1, <3>2, <3>3, <3>4
  <2> QED
    BY <2>1, <2>2 DEF ApplyInv, AboveFloor, PolicyMoves, ChangesOK
<1>4. RollbackInv(call[k])'
  <2>1. RollbackInv(call[k])
    BY <1>1 DEF CallInv
  <2>2. call[k].pc \in {"remove", "note"} =>
          call[k].row.version <= items'[audits[call[k].audit].product].version
    <3> SUFFICES ASSUME call[k].pc \in {"remove", "note"}
                 PROVE  call[k].row.version <= items'[audits[call[k].audit].product].version
      OBVIOUS
    <3>1. audits[call[k].audit].product \in Products
      BY <2>1 DEF RollbackInv, Inv, AuditsInv, AuditInv
    <3>2. call[k].row.version \in Nat
      BY <2>1 DEF RollbackInv, WrittenBack, Item
    <3>3. call[k].row.version <= items[audits[call[k].audit].product].version
      BY <2>1 DEF RollbackInv
    <3>4. items[audits[call[k].audit].product].version <= items'[audits[call[k].audit].product].version
      BY <3>1 DEF VersionsGrow
    <3> QED
      BY <1>2, <3>1, <3>2, <3>3, <3>4
  <2>3. call[k].pc \in {"undo", "remove", "note"} =>
          /\ audits'[call[k].audit] # NoAudit
          /\ audits'[call[k].audit].product = audits[call[k].audit].product
          /\ audits'[call[k].audit].after = audits[call[k].audit].after
    BY <2>1 DEF RollbackInv, AuditsKeep
  <2>4. call[k].pc = "undo" =>
          /\ call[k].current.version <= items'[audits[call[k].audit].product].version
          /\ call[k].current.version = items'[audits[call[k].audit].product].version =>
               items'[audits[call[k].audit].product] = call[k].current
    <3> SUFFICES ASSUME call[k].pc = "undo"
                 PROVE  /\ call[k].current.version <= items'[audits[call[k].audit].product].version
                        /\ call[k].current.version = items'[audits[call[k].audit].product].version =>
                             items'[audits[call[k].audit].product] = call[k].current
      OBVIOUS
    <3>1. PICK p, row : p = audits[call[k].audit].product /\ row = call[k].current
      OBVIOUS
    <3>2. p \in Products
      BY <2>1, <3>1 DEF RollbackInv, Inv, AuditsInv, AuditInv
    <3>3. row.version \in Nat
      BY <2>1, <3>1 DEF RollbackInv, Item
    <3>4. row.version <= items[p].version /\ (row.version = items[p].version => items[p] = row)
      BY <2>1, <3>1 DEF RollbackInv, NotAhead
    <3>5. /\ items[p].version <= items'[p].version
          /\ items[p].version = items'[p].version => items'[p] = items[p]
      BY <3>2 DEF VersionsGrow
    <3>6. row.version <= items'[p].version /\ (row.version = items'[p].version => items'[p] = row)
      BY <1>2, <3>2, <3>3, <3>4, <3>5
    <3> QED
      BY <3>1, <3>6
  <2> QED
    BY <2>1, <2>2, <2>3, <2>4 DEF RollbackInv, AboveFloor, PolicyMoves, NotAhead
<1> QED
  BY <1>1, <1>3, <1>4 DEF CallInv

LEMMA ClientKept ==
    ASSUME Inv, PolicyMoves, NEW b \in Clients, client'[b] = client[b]
    PROVE  ClientInv(client[b])'
  BY DEF Inv, ClientInv, AboveFloor, PolicyMoves

LEMMA AuditKept ==
    ASSUME Inv, PolicyMoves, VersionsGrow, LineupInv', NEW a \in AuditIds,
           audits'[a] = audits[a], restored'[a] = restored[a]
    PROVE  AuditInv(a)'
<1>1. AuditInv(a) /\ items \in [Products -> Item] /\ items' \in [Products -> Item]
  BY DEF Inv, LineupInv, AuditsInv
<1>2. \A p \in Products : items[p].version \in Nat /\ items'[p].version \in Nat
  BY <1>1 DEF Item
<1>3. CASE audits[a] = NoAudit
  <2>1. restored[a] \in Nat
    BY DEF Inv, CountsInv
  <2> QED
    BY <1>1, <1>3, <2>1 DEF AuditInv
<1>4. CASE audits[a] # NoAudit
  <2>1. /\ audits[a].product \in Products /\ audits[a].after.version \in Nat
        /\ audits[a].after.version <= items[audits[a].product].version
    BY <1>1, <1>4 DEF AuditInv, Item
  <2>2. items[audits[a].product].version <= items'[audits[a].product].version
    BY <2>1 DEF VersionsGrow
  <2>3. audits[a].after.version <= items'[audits[a].product].version
    BY <1>2, <2>1, <2>2
  <2>4. restored[a] > 0 => audits[a].after.version < items'[audits[a].product].version
    <3>1. restored[a] > 0 => audits[a].after.version < items[audits[a].product].version
      BY <1>1 DEF AuditInv
    <3> QED
      BY <1>2, <2>1, <2>2, <3>1
  <2> QED
    BY <1>1, <1>4, <2>3, <2>4 DEF AuditInv, AboveFloor, PolicyMoves
<1> QED
  BY <1>3, <1>4

\* A step that leaves the lineup, or the audits, alone.
LEMMA SameLineup ==
    ASSUME LineupInv, PolicyMoves, UNCHANGED items
    PROVE  LineupInv' /\ VersionsGrow
<1>1. \A p \in Products : items[p].version \in Nat
  BY DEF LineupInv, Item
<1> QED
  BY <1>1 DEF LineupInv, VersionsGrow, OnStage, AtMostOne, AboveFloor, PolicyMoves

LEMMA SameAudits ==
    ASSUME Inv, PolicyMoves, VersionsGrow, LineupInv', UNCHANGED <<audits, restored>>
    PROVE  AuditsInv' /\ AuditsKeep
<1>1. \A a \in AuditIds : AuditInv(a)'
  BY AuditKept
<1> QED
  BY <1>1 DEF AuditsInv, AuditsKeep, Inv

LEMMA SameOffers ==
    ASSUME Inv, PolicyMoves, UNCHANGED offers
    PROVE  OffersInv'
  BY DEF Inv, OffersInv, AboveFloor, PolicyMoves

\* A seller's request moves on, the buyers' requests stay where they are.
LEMMA CallerMoves ==
    ASSUME Inv, PolicyMoves, VersionsGrow, AuditsKeep, LineupInv', NEW k \in Callers, NEW s, Caller(k, s),
           CallInv(call[k])', UNCHANGED client
    PROVE  /\ DOMAIN call' = Callers /\ \A j \in Callers : CallInv(call[j])'
           /\ DOMAIN client' = Clients /\ \A b \in Clients : ClientInv(client[b])'
<1>1. DOMAIN call = Callers
  BY DEF Inv
<1>2. ASSUME NEW j \in Callers, j # k PROVE CallInv(call[j])'
  <2>1. call'[j] = call[j]
    BY <1>1, <1>2 DEF Caller
  <2> QED
    BY <2>1, CallKept
<1>3. DOMAIN call' = Callers
  BY <1>1 DEF Caller
<1>4. \A b \in Clients : ClientInv(client[b])'
  BY ClientKept
<1> QED
  BY <1>2, <1>3, <1>4 DEF Inv

LEMMA ClientMoves ==
    ASSUME Inv, PolicyMoves, VersionsGrow, AuditsKeep, LineupInv', NEW b \in Clients, NEW s, Client(b, s),
           ClientInv(client[b])', UNCHANGED call
    PROVE  /\ DOMAIN call' = Callers /\ \A k \in Callers : CallInv(call[k])'
           /\ DOMAIN client' = Clients /\ \A d \in Clients : ClientInv(client[d])'
<1>1. DOMAIN client = Clients
  BY DEF Inv
<1>2. ASSUME NEW d \in Clients, d # b PROVE ClientInv(client[d])'
  <2>1. client'[d] = client[d]
    BY <1>1, <1>2 DEF Client
  <2> QED
    BY <2>1, ClientKept
<1>3. DOMAIN client' = Clients
  BY <1>1 DEF Client
<1>4. \A k \in Callers : CallInv(call[k])'
  BY CallKept
<1> QED
  BY <1>2, <1>3, <1>4 DEF Inv
-----------------------------------------------------------------------------
(***************************************************************************)
(* The steps of apply.                                                     *)
(***************************************************************************)
LEMMA IdleInv == CallInv(Idle) /\ ClientInv(Idle)
  BY DEF CallInv, ClientInv, ApplyInv, RollbackInv, Idle, CallPoints

\* An idle state stays fine whatever the stores hold.
LEMMA BecomesIdle ==
    ASSUME Inv, NEW k \in Callers, Caller(k, Idle)
    PROVE  CallInv(call[k])'
<1>1. call'[k] = Idle
  BY DEF Inv, Caller
<1> QED
  BY <1>1 DEF CallInv, ApplyInv, RollbackInv, Idle, CallPoints

LEMMA ClientBecomesIdle ==
    ASSUME Inv, NEW b \in Clients, Client(b, Idle)
    PROVE  ClientInv(client[b])'
<1>1. client'[b] = Idle
  BY DEF Inv, Client
<1> QED
  BY <1>1 DEF ClientInv, Idle

LEMMA ApplyReads ==
    ASSUME Inv, PolicyMoves, NEW k \in Callers,
           (\E c \in Commands : ApplyFind(k, c)) \/ ApplyList(k) \/ CallerDies(k)
    PROVE  Inv'
<1>1. UNCHANGED <<items, offers, audits, client, orders, applied, restored>>
  BY DEF ApplyFind, ApplyList, CallerDies
<1>2. LineupInv' /\ VersionsGrow
  BY <1>1, SameLineup DEF Inv
<1>3. AuditsInv' /\ AuditsKeep /\ OffersInv'
  BY <1>1, <1>2, SameAudits, SameOffers
<1>4. CountsInv'
  <2>1. UNCHANGED crashes \/ (crashes < MaxCrashes /\ crashes' = crashes + 1)
    BY DEF ApplyFind, ApplyList, CallerDies
  <2>2. crashes' \in 0..MaxCrashes
    BY <2>1, BoundsAssumption DEF Inv, CountsInv
  <2> QED
    BY <1>1, <2>2 DEF Inv, CountsInv
<1>5. (\E s : Caller(k, s)) /\ CallInv(call[k])'
  <2>1. CASE Caller(k, Idle)
    BY <2>1, BecomesIdle
  <2>2. CASE \E c \in Commands : ApplyFind(k, c)
    <3>1. PICK c \in Commands : Caller(k, [pc |-> "list", cmd |-> c])
      BY <2>2 DEF ApplyFind
    <3>2. call'[k] = [pc |-> "list", cmd |-> c]
      BY <3>1 DEF Inv, Caller
    <3> QED
      BY <3>1, <3>2 DEF CallInv, ApplyInv, RollbackInv, CallPoints
  <2>3. CASE ApplyList(k) /\ ~ Caller(k, Idle)
    <3> DEFINE c == call[k].cmd
               a == Action[c]
               s == [pc |-> "write", cmd |-> c, changes |-> Changes(a, items),
                     before |-> items[a.product], known |-> Existing(a.product)]
    <3>1. c \in Commands
      BY <2>3 DEF ApplyList, At, Inv, CallInv, ApplyInv
    <3>2. a \in Actions /\ a.product \in Products
      BY <3>1, ActionAssumption DEF Actions
    <3>3. Allowed(a, items) /\ Caller(k, s)
      BY <2>3 DEF ApplyList
    <3>4. ChangesOK(Changes(a, items))
      BY <3>2, <3>3, ChangesForm DEF Inv
    <3>5. items[a.product] \in Item /\ AboveFloor(a.product, items[a.product].price)
      BY <3>2 DEF Inv, LineupInv
    <3>6. a.kind = "targeted-offer" => AboveFloor(a.product, a.price)
      BY <3>2, <3>3, GuardedPrice DEF Allowed, Inv
    <3>7. call'[k] = s
      BY <3>3 DEF Inv, Caller
    <3>8. /\ call'[k].pc = "write" /\ call'[k].cmd = c
          /\ call'[k].changes = Changes(a, items) /\ call'[k].before = items[a.product]
          /\ call'[k].known \in SUBSET Commands
      BY <3>7 DEF Existing
    <3> HIDE DEF s
    <3>9. ApplyInv(call[k])'
      BY <1>1, <3>1, <3>4, <3>5, <3>6, <3>8 DEF ApplyInv, AboveFloor, PolicyMoves, ChangesOK
    <3>10. call'[k].pc = "write"
      BY <3>8
    <3> QED
      BY <3>3, <3>9, <3>10 DEF CallInv, RollbackInv, CallPoints
  <2> QED
    BY <2>1, <2>2, <2>3 DEF CallerDies, ApplyList
<1> QED
  BY <1>1, <1>2, <1>3, <1>4, <1>5, CallerMoves DEF Inv

LEMMA ApplyWrites ==
    ASSUME Inv, PolicyMoves, NEW k \in Callers, ApplyWrite(k)
    PROVE  Inv'
<1> DEFINE c == call[k].cmd
           p == Action[c].product
<1>1. /\ call[k].pc = "write" /\ c \in Commands /\ ChangesOK(call[k].changes)
      /\ call[k].before \in Item /\ AboveFloor(p, call[k].before.price)
      /\ call[k].known \in SUBSET Commands
      /\ Action[c].kind = "targeted-offer" => AboveFloor(p, Action[c].price)
  BY DEF ApplyWrite, At, Inv, CallInv, ApplyInv
<1>2. p \in Products
  BY <1>1, ActionAssumption DEF Actions
<1>3. UNCHANGED <<offers, audits, client, orders, restored, crashes>>
  BY DEF ApplyWrite
<1>4. OffersInv' /\ LineupInv
  BY <1>3, SameOffers DEF Inv
<1>5. CASE Writable(call[k].changes)
  <2> DEFINE s == [pc |-> IF Action[c].kind = "targeted-offer" THEN "offer" ELSE "audit",
                   cmd |-> c, before |-> call[k].before,
                   after |-> items'[p], known |-> call[k].known]
  <2>1. items' = Projected(call[k].changes) /\ applied' = [applied EXCEPT ![c] = @ + 1] /\ Caller(k, s)
    BY <1>5 DEF ApplyWrite
  <2>2. LineupInv' /\ VersionsGrow
    BY <1>1, <1>4, <1>5, <2>1, WriteForm
  <2>3. AuditsInv' /\ AuditsKeep
    BY <1>3, <2>2, SameAudits
  <2>4. CountsInv'
    BY <1>1, <1>3, <2>1 DEF Inv, CountsInv
  <2>5. call'[k] = s
    BY <2>1 DEF Inv, Caller
  <2>6. /\ call'[k].pc \in {"offer", "audit"}
        /\ call'[k].pc = "offer" => Action[c].kind = "targeted-offer"
        /\ call'[k].cmd = c /\ call'[k].before = call[k].before /\ call'[k].after = items'[p]
    BY <2>5
  <2>7. items'[p] \in Item /\ items'[p].version \in Nat
    BY <1>2, <2>2 DEF LineupInv, Item
  <2>10. call'[k] \in Written
    BY <1>1, <2>5, <2>7 DEF Written
  <2> HIDE DEF s
  <2>8. ApplyInv(call[k])'
    BY <1>1, <2>6, <2>7, <2>10 DEF ApplyInv, AboveFloor, PolicyMoves
  <2>9. CallInv(call[k])'
    BY <2>6, <2>8 DEF CallInv, RollbackInv, CallPoints
  <2> QED
    BY <1>3, <1>4, <2>1, <2>2, <2>3, <2>4, <2>9, CallerMoves DEF Inv
<1>6. CASE ~ Writable(call[k].changes)
  <2>1. UNCHANGED <<items, applied>> /\ Caller(k, Idle)
    BY <1>6 DEF ApplyWrite
  <2>2. LineupInv' /\ VersionsGrow
    BY <1>4, <2>1, SameLineup
  <2>3. AuditsInv' /\ AuditsKeep
    BY <1>3, <2>2, SameAudits
  <2>4. CountsInv'
    BY <1>3, <2>1 DEF Inv, CountsInv
  <2>5. CallInv(call[k])'
    BY <2>1, BecomesIdle
  <2> QED
    BY <1>3, <1>4, <2>1, <2>2, <2>3, <2>4, <2>5, CallerMoves DEF Inv
<1> QED
  BY <1>5, <1>6

LEMMA ApplyOffers ==
    ASSUME Inv, PolicyMoves, NEW k \in Callers, ApplyOffer(k)
    PROVE  Inv'
<1> DEFINE c == call[k].cmd
<1>1. call[k].pc = "offer" /\ c \in Commands /\ AboveFloor(Action[c].product, Action[c].price)
  BY DEF ApplyOffer, At, Inv, CallInv, ApplyInv
<1>2. UNCHANGED <<items, audits, client, orders, applied, restored, crashes>>
  BY DEF ApplyOffer
<1>3. LineupInv' /\ VersionsGrow
  BY <1>2, SameLineup DEF Inv
<1>4. AuditsInv' /\ AuditsKeep /\ CountsInv'
  BY <1>2, <1>3, SameAudits DEF Inv, CountsInv
<1>5. OffersInv'
  <2> DEFINE new == IF offers[c] = NoOffer THEN [status |-> "pending", version |-> 1] ELSE offers[c]
  <2>1. offers \in [Commands -> [status : Statuses, version : Nat]]
    BY DEF Inv, OffersInv
  <2>2. new \in [status : Statuses, version : Nat]
    BY <1>1, <2>1 DEF Statuses
  <2>3. offers' = [offers EXCEPT ![c] = new]
    BY DEF ApplyOffer
  <2> HIDE DEF new
  <2>4. offers' \in [Commands -> [status : Statuses, version : Nat]]
    BY <2>1, <2>2, <2>3
  <2>5. \A d \in Commands : offers'[d] # NoOffer => AboveFloor(Action[d].product, Action[d].price)
    BY <1>1, <2>1, <2>3 DEF Inv, OffersInv
  <2> QED
    BY <2>4, <2>5 DEF OffersInv, NoOffer, AboveFloor, PolicyMoves
<1>6. Caller(k, [call[k] EXCEPT !.pc = "audit"])
  BY DEF ApplyOffer
<1>7. call'[k] = [call[k] EXCEPT !.pc = "audit"]
  BY <1>6 DEF Inv, Caller
<1>8. CallInv(call[k])'
  <2>1. /\ ApplyInv(call[k]) /\ call[k] \in Written
        /\ call[k].after.version <= items[Action[c].product].version
    BY <1>1 DEF Inv, CallInv, ApplyInv
  <2>2. /\ call'[k] \in Written /\ call'[k].pc = "audit" /\ call'[k].cmd = c
        /\ call'[k].before = call[k].before /\ call'[k].after = call[k].after
    BY <1>7, <2>1 DEF Written
  <2>3. ApplyInv(call[k])'
    BY <1>1, <1>2, <2>1, <2>2 DEF ApplyInv, AboveFloor, PolicyMoves
  <2> QED
    BY <2>2, <2>3 DEF CallInv, RollbackInv, CallPoints
<1> QED
  BY <1>2, <1>3, <1>4, <1>5, <1>6, <1>8, CallerMoves DEF Inv

\* A row that is recorded under a free audit id.
AuditRow(p, before, after, shown, minted) ==
    [product |-> p, before |-> before, after |-> after, offers |-> shown, minted |-> minted,
     undone |-> FALSE]

LEMMA RecordForm ==
    ASSUME Inv, PolicyMoves, UNCHANGED <<items, restored>>, NEW a \in AuditIds, audits[a] = NoAudit,
           NEW p \in Products, NEW before \in Item, NEW after \in Item, NEW shown,
           NEW minted \in SUBSET Commands,
           audits'[a] = AuditRow(p, before, after, shown, minted),
           AboveFloor(p, before.price), after.version <= items[p].version
    PROVE  AuditInv(a)'
<1>1. /\ audits'[a].product = p /\ audits'[a].before = before /\ audits'[a].after = after
      /\ audits'[a].minted = minted /\ audits'[a].undone = FALSE
      /\ DOMAIN audits'[a] = AuditFields
  BY DEF AuditRow, AuditFields
<1>2. restored[a] = 0
  <2>1. restored[a] \in Nat /\ ~ (restored[a] > 0)
    BY DEF Inv, CountsInv, AuditsInv, AuditInv
  <2> QED
    BY <2>1
<1>3. restored'[a] = 0 /\ items' = items
  BY <1>2
<1>4. /\ DOMAIN audits'[a] = AuditFields
      /\ audits'[a].product \in Products
      /\ audits'[a].before \in Item /\ audits'[a].after \in Item
      /\ audits'[a].minted \in SUBSET Commands
      /\ audits'[a].undone \in BOOLEAN
  BY <1>1
<1>5. AboveFloor(audits'[a].product, audits'[a].before.price)
  BY <1>1
<1>6. audits'[a].after.version <= items'[audits'[a].product].version
  BY <1>1, <1>3
<1>7. restored'[a] <= 1 /\ ~ (restored'[a] > 0)
  BY <1>3
<1> QED
  BY <1>4, <1>5, <1>6, <1>7 DEF AuditInv, AboveFloor, PolicyMoves, AuditFields

LEMMA ApplyAudits ==
    ASSUME Inv, PolicyMoves, NEW k \in Callers, ApplyAudit(k)
    PROVE  Inv'
<1>0. PICK c : c = call[k].cmd
  OBVIOUS
<1> DEFINE p == Action[c].product
           new == AuditRow(p, call[k].before, call[k].after, OffersOf(p), Minted(call[k].known, p))
<1>1. /\ call[k].pc = "audit" /\ c \in Commands /\ call[k] \in Written
      /\ AboveFloor(p, call[k].before.price)
      /\ call[k].after.version <= items[p].version
  BY <1>0 DEF ApplyAudit, At, Inv, CallInv, ApplyInv
<1>2. p \in Products /\ c \in AuditIds /\ call[k].before \in Item /\ call[k].after \in Item
      /\ Minted(call[k].known, p) \in SUBSET Commands
  BY <1>1, ActionAssumption DEF Actions, AuditIds, Written, Minted, Existing
<1>3. UNCHANGED <<items, offers, client, orders, applied, restored, crashes>> /\ Caller(k, Idle)
  BY DEF ApplyAudit
<1>4. LineupInv' /\ VersionsGrow /\ OffersInv' /\ CountsInv'
  BY <1>3, SameLineup, SameOffers DEF Inv, CountsInv
<1>5. audits' = [audits EXCEPT ![c] = IF audits[c] # NoAudit THEN audits[c] ELSE new]
  BY <1>0 DEF ApplyAudit, AuditRow
<1>6. DOMAIN audits = AuditIds
  BY DEF Inv, AuditsInv
<1>7. \A a \in AuditIds \ {c} : audits'[a] = audits[a]
  BY <1>2, <1>5, <1>6
<1>8. audits'[c] = IF audits[c] # NoAudit THEN audits[c] ELSE new
  BY <1>2, <1>5, <1>6
<1> HIDE DEF new
<1>9. AuditsKeep
  BY <1>7, <1>8 DEF AuditsKeep
<1>10. AuditInv(c)'
  <2>1. CASE audits[c] # NoAudit
    BY <1>2, <1>3, <1>4, <1>8, <2>1, AuditKept
  <2>2. CASE audits[c] = NoAudit
    BY <1>1, <1>2, <1>3, <1>8, <2>2, RecordForm DEF new
  <2> QED
    BY <2>1, <2>2
<1>11. AuditsInv'
  <2>1. \A a \in AuditIds \ {c} : AuditInv(a)'
    BY <1>3, <1>4, <1>7, AuditKept
  <2>2. DOMAIN audits' = AuditIds
    BY <1>5, <1>6
  <2> QED
    BY <1>10, <2>1, <2>2 DEF AuditsInv
<1>12. CallInv(call[k])'
  BY <1>3, BecomesIdle
<1> QED
  BY <1>3, <1>4, <1>9, <1>11, <1>12, CallerMoves DEF Inv
-----------------------------------------------------------------------------
(***************************************************************************)
(* The steps of rollback.                                                  *)
(***************************************************************************)
LEMMA RollbackChecks ==
    ASSUME Inv, PolicyMoves, NEW k \in Callers, NEW a \in AuditIds, RollbackCheck(k, a)
    PROVE  Inv'
<1> DEFINE p == audits[a].product
           s == [pc |-> "undo", audit |-> a, current |-> items[p]]
<1>1. audits[a] # NoAudit /\ items[p] = audits[a].after /\ Caller(k, s)
  BY DEF RollbackCheck, sameItem
<1>2. UNCHANGED <<items, offers, audits, client, orders, applied, restored, crashes>>
  BY DEF RollbackCheck
<1>3. LineupInv' /\ VersionsGrow
  BY <1>2, SameLineup DEF Inv
<1>4. AuditsInv' /\ AuditsKeep /\ OffersInv' /\ CountsInv'
  BY <1>2, <1>3, SameAudits, SameOffers DEF Inv, CountsInv
<1>5. p \in Products
  BY <1>1 DEF Inv, AuditsInv, AuditInv
<1>6. items[p] \in Item /\ AboveFloor(p, items[p].price)
  BY <1>5 DEF Inv, LineupInv
<1>7. call'[k] = s
  BY <1>1 DEF Inv, Caller
<1>8. call'[k].pc = "undo" /\ call'[k].audit = a /\ call'[k].current = items[p]
  BY <1>7
<1>9. CallInv(call[k])'
  <2>1. items[p].version \in Nat
    BY <1>6 DEF Item
  <2> QED
    BY <1>1, <1>2, <1>6, <1>8, <2>1
    DEF CallInv, ApplyInv, RollbackInv, CallPoints, AboveFloor, PolicyMoves, NotAhead
<1> QED
  BY <1>1, <1>2, <1>3, <1>4, <1>9, CallerMoves DEF Inv

\* What a rollback that may write finds: the row its action left, not undone before.
LEMMA UndoFinds ==
    ASSUME Inv, NEW k \in Callers, At(k, "undo"),
           Writable([p \in {audits[call[k].audit].product} |->
                       [audits[call[k].audit].before EXCEPT !.version = call[k].current.version]])
    PROVE  LET a == call[k].audit
           IN  /\ a \in AuditIds /\ audits[a] # NoAudit /\ restored[a] = 0
               /\ items[audits[a].product] = audits[a].after
<1> DEFINE a == call[k].audit
           p == audits[a].product
           new == [audits[a].before EXCEPT !.version = call[k].current.version]
           change == [q \in {p} |-> new]
<1>1. /\ a \in AuditIds /\ audits[a] # NoAudit /\ call[k].current = audits[a].after
      /\ NotAhead(p, call[k].current)
  BY DEF At, Inv, CallInv, RollbackInv
<1>2. /\ p \in Products /\ audits[a].after \in Item /\ audits[a].before \in Item
      /\ restored[a] > 0 => audits[a].after.version < items[p].version
  BY <1>1 DEF Inv, AuditsInv, AuditInv
<1>3. new.version = call[k].current.version
  BY <1>2 DEF Item
<1>4. items[p].version = new.version
  <2>1. Writable(change)
    OBVIOUS
  <2>2. change[p] = new /\ p \in DOMAIN change
    OBVIOUS
  <2> HIDE DEF change
  <2> QED
    BY <2>1, <2>2 DEF Writable, Unchanged
<1>5. items[p].version = audits[a].after.version
  BY <1>1, <1>3, <1>4
<1>6. restored[a] = 0
  <2>1. restored[a] \in Nat /\ audits[a].after.version \in Nat
    BY <1>1, <1>2 DEF Inv, CountsInv, Item
  <2> QED
    BY <1>2, <1>5, <2>1
<1>7. items[p] = audits[a].after
  BY <1>1, <1>5 DEF NotAhead
<1> QED
  BY <1>1, <1>6, <1>7

LEMMA RollbackWrites ==
    ASSUME Inv, PolicyMoves, NEW k \in Callers, RollbackWrite(k)
    PROVE  Inv'
<1>0. PICK a : a = call[k].audit
  OBVIOUS
<1> DEFINE p == audits[a].product
           new == [audits[a].before EXCEPT !.version = call[k].current.version]
           change == [q \in {p} |-> new]
<1>1. /\ At(k, "undo") /\ call[k].pc = "undo"
      /\ a \in AuditIds /\ audits[a] # NoAudit /\ call[k].current \in Item
      /\ call[k].current = audits[a].after /\ AboveFloor(p, call[k].current.price)
  BY <1>0 DEF RollbackWrite, At, Inv, CallInv, RollbackInv
<1>2. /\ p \in Products /\ audits[a].before \in Item /\ audits[a].after \in Item
      /\ AboveFloor(p, audits[a].before.price)
  BY <1>1 DEF Inv, AuditsInv, AuditInv
<1>3. UNCHANGED <<offers, audits, client, orders, applied, crashes>>
  BY DEF RollbackWrite
<1>4. OffersInv' /\ LineupInv
  BY <1>3, SameOffers DEF Inv
<1>5. CASE Writable(change)
  <2> DEFINE s == [pc |-> "remove", audit |-> a, current |-> call[k].current, row |-> items'[p]]
  <2>1. items' = Projected(change) /\ restored' = [restored EXCEPT ![a] = @ + 1] /\ Caller(k, s)
    BY <1>0, <1>5 DEF RollbackWrite
  <2>2. restored[a] = 0 /\ items[p].version = audits[a].after.version
    BY <1>0, <1>1, <1>5, UndoFinds
  <2>3. ChangesOK(change)
    <3>1. new \in Item /\ new.price = audits[a].before.price
      BY <1>1, <1>2 DEF Item
    <3> HIDE DEF new
    <3> QED
      BY <1>2, <3>1 DEF ChangesOK
  <2>4. LineupInv' /\ VersionsGrow /\ items[p].version < items'[p].version
    <3>1. p \in DOMAIN change
      OBVIOUS
    <3> HIDE DEF change
    <3> QED
      BY <1>4, <1>5, <2>1, <2>3, <3>1, WriteForm
  <2>5. restored \in [AuditIds -> Nat]
    BY DEF Inv, CountsInv
  <2>6. \A b \in AuditIds \ {a} : AuditInv(b)'
    BY <1>3, <2>1, <2>4, <2>5, AuditKept
  <2>7. AuditInv(a)'
    <3>1. restored'[a] = 1
      BY <1>1, <2>1, <2>2, <2>5
    <3>2. audits[a].after.version < items'[p].version /\ audits[a].after.version <= items'[p].version
      <4>1. items[p].version \in Nat /\ items'[p].version \in Nat
        BY <1>2, <1>4, <2>4 DEF LineupInv, Item
      <4> QED
        BY <2>2, <2>4, <4>1
    <3>3. AuditInv(a) /\ audits' = audits
      BY <1>1, <1>3 DEF Inv, AuditsInv
    <3> QED
      BY <1>1, <3>1, <3>2, <3>3 DEF AuditInv, AboveFloor, PolicyMoves
  <2>8. AuditsInv' /\ AuditsKeep
    BY <1>3, <2>6, <2>7 DEF AuditsInv, AuditsKeep, Inv
  <2>9. CountsInv'
    BY <1>1, <1>3, <2>1, <2>2, <2>5 DEF Inv, CountsInv
  <2>10. call'[k] = s
    BY <2>1 DEF Inv, Caller
  <2>11. items'[p] \in Item /\ items'[p].version \in Nat
    BY <1>2, <2>4 DEF LineupInv, Item
  <2>12. /\ call'[k] \in WrittenBack /\ call'[k].pc = "remove" /\ call'[k].audit = a
         /\ call'[k].current = call[k].current /\ call'[k].row = items'[p]
    BY <1>1, <2>10, <2>11 DEF WrittenBack
  <2> HIDE DEF s
  <2>13. CallInv(call[k])'
    <3>1. RollbackInv(call[k])'
      BY <1>1, <1>3, <2>11, <2>12 DEF RollbackInv, AboveFloor, PolicyMoves
    <3> QED
      BY <2>12, <3>1 DEF CallInv, ApplyInv, CallPoints
  <2> QED
    BY <1>3, <1>4, <2>1, <2>4, <2>8, <2>9, <2>13, CallerMoves DEF Inv
<1>6. CASE ~ Writable(change)
  <2>1. UNCHANGED <<items, restored>> /\ Caller(k, Idle)
    BY <1>0, <1>6 DEF RollbackWrite
  <2>2. LineupInv' /\ VersionsGrow
    BY <1>4, <2>1, SameLineup
  <2>3. AuditsInv' /\ AuditsKeep
    BY <1>3, <2>1, <2>2, SameAudits
  <2>4. CountsInv'
    BY <1>3, <2>1 DEF Inv, CountsInv
  <2>5. CallInv(call[k])'
    BY <2>1, BecomesIdle
  <2> QED
    BY <1>3, <1>4, <2>1, <2>2, <2>3, <2>4, <2>5, CallerMoves DEF Inv
<1> QED
  BY <1>5, <1>6

LEMMA RollbackRemoves ==
    ASSUME Inv, PolicyMoves, NEW k \in Callers, RollbackRemove(k)
    PROVE  Inv'
<1>1. /\ call[k].pc = "remove" /\ call[k] \in WrittenBack
      /\ audits[call[k].audit] # NoAudit
      /\ AboveFloor(audits[call[k].audit].product, call[k].current.price)
      /\ call[k].row.version <= items[audits[call[k].audit].product].version
  BY DEF RollbackRemove, At, Inv, CallInv, RollbackInv
<1>2. UNCHANGED <<items, audits, client, orders, applied, restored, crashes>>
  BY DEF RollbackRemove
<1>3. LineupInv' /\ VersionsGrow
  BY <1>2, SameLineup DEF Inv
<1>4. AuditsInv' /\ AuditsKeep /\ CountsInv'
  BY <1>2, <1>3, SameAudits DEF Inv, CountsInv
<1>5. OffersInv'
  <2>1. NoOffer \in [status : Statuses, version : Nat]
    BY DEF NoOffer, Statuses
  <2>2. \A c \in Commands : offers'[c] = NoOffer \/ offers'[c] = offers[c]
    BY DEF RollbackRemove
  <2>3. offers' = [c \in Commands |-> offers'[c]]
    BY DEF RollbackRemove
  <2>4. \A c \in Commands : offers[c] \in [status : Statuses, version : Nat]
    BY DEF Inv, OffersInv
  <2>5. offers' \in [Commands -> [status : Statuses, version : Nat]]
    <3> HIDE DEF NoOffer
    <3> QED
      BY <2>1, <2>2, <2>3, <2>4
  <2>6. \A c \in Commands : offers'[c] # NoOffer => AboveFloor(Action[c].product, Action[c].price)
    BY <2>2 DEF Inv, OffersInv
  <2> QED
    BY <2>5, <2>6 DEF OffersInv, AboveFloor, PolicyMoves, NoOffer
<1>6. Caller(k, [call[k] EXCEPT !.pc = "note"])
  BY DEF RollbackRemove
<1>7. call'[k] = [call[k] EXCEPT !.pc = "note"]
  BY <1>6 DEF Inv, Caller
<1>8. /\ call'[k] \in WrittenBack /\ call'[k].pc = "note"
      /\ call'[k].audit = call[k].audit /\ call'[k].current = call[k].current
      /\ call'[k].row = call[k].row
  BY <1>1, <1>7 DEF WrittenBack
<1>9. RollbackInv(call[k])'
  <2>1. call[k].audit \in AuditIds /\ call[k].current \in Item
    BY <1>1 DEF WrittenBack
  <2> QED
    BY <1>1, <1>2, <1>8, <2>1 DEF RollbackInv, AboveFloor, PolicyMoves
<1>10. CallInv(call[k])'
  BY <1>8, <1>9 DEF CallInv, ApplyInv, CallPoints
<1> QED
  BY <1>2, <1>3, <1>4, <1>5, <1>6, <1>10, CallerMoves DEF Inv

\* Marking an audit changes nothing else of it.
LEMMA MarkForm ==
    ASSUME Inv, PolicyMoves, UNCHANGED <<items, restored>>, NEW a \in AuditIds, audits[a] # NoAudit,
           audits'[a] = [audits[a] EXCEPT !.undone = TRUE]
    PROVE  /\ AuditInv(a)' /\ audits'[a] # NoAudit
           /\ audits'[a].product = audits[a].product
           /\ audits'[a].before = audits[a].before /\ audits'[a].after = audits[a].after
<1>1. AuditInv(a) /\ DOMAIN audits[a] = AuditFields
  BY DEF Inv, AuditsInv, AuditInv
<1>2. /\ DOMAIN audits'[a] = AuditFields
      /\ audits'[a].product = audits[a].product
      /\ audits'[a].before = audits[a].before /\ audits'[a].after = audits[a].after
      /\ audits'[a].minted = audits[a].minted
      /\ audits'[a].undone = TRUE
  BY <1>1 DEF AuditFields
<1>3. audits'[a] # NoAudit
  BY <1>2 DEF AuditFields, NoAudit
<1> HIDE DEF NoAudit
<1>4. audits[a].after.version <= items[audits[a].product].version
  BY <1>1 DEF AuditInv
<1> QED
  BY <1>1, <1>2, <1>3, <1>4 DEF AuditInv, AboveFloor, PolicyMoves

LEMMA RollbackRecords ==
    ASSUME Inv, PolicyMoves, NEW k \in Callers, RollbackRecord(k)
    PROVE  Inv'
<1>0. PICK a : a = call[k].audit
  OBVIOUS
<1> DEFINE p == audits[a].product
<1>1. /\ call[k].pc = "note" /\ call[k] \in WrittenBack
      /\ a \in AuditIds /\ audits[a] # NoAudit
      /\ AboveFloor(p, call[k].current.price) /\ call[k].row.version <= items[p].version
  BY <1>0 DEF RollbackRecord, At, Inv, CallInv, RollbackInv
<1>2. call[k].current \in Item /\ call[k].row \in Item
  BY <1>1 DEF WrittenBack
<1>3. UNCHANGED <<items, offers, client, orders, applied, restored, crashes>> /\ Caller(k, Idle)
  BY DEF RollbackRecord
<1>4. LineupInv' /\ VersionsGrow /\ OffersInv' /\ CountsInv'
  BY <1>3, SameLineup, SameOffers DEF Inv, CountsInv
<1>5. AuditsInv' /\ AuditsKeep
  <2>1. CASE UNCHANGED audits
    BY <1>3, <1>4, <2>1, SameAudits
  <2>2. CASE ~ UNCHANGED audits
    <3>1. PICK new \in 1..MaxRollbacks :
             /\ \A n \in 1..MaxRollbacks : n < new <=> audits[n] # NoAudit
             /\ audits' = [audits EXCEPT
                  ![a].undone = TRUE,
                  ![new] = [product |-> p, before |-> call[k].current,
                            after |-> call[k].row, offers |-> OffersOf(p),
                            minted |-> {}, undone |-> FALSE]]
      BY <1>0, <2>2 DEF RollbackRecord
    <3> DEFINE row == AuditRow(p, call[k].current, call[k].row, OffersOf(p), {})
    <3>2. new \in AuditIds /\ audits[new] = NoAudit /\ new # a
      BY <1>1, <3>1, BoundsAssumption DEF AuditIds
    <3>3. audits' = [audits EXCEPT ![a].undone = TRUE, ![new] = row]
      BY <3>1 DEF AuditRow
    <3>4. p \in Products
      BY <1>1 DEF Inv, AuditsInv, AuditInv
    <3> HIDE DEF row
    <3>5. DOMAIN audits = AuditIds
      BY DEF Inv, AuditsInv
    <3>6. /\ DOMAIN audits' = AuditIds
          /\ audits'[a] = [audits[a] EXCEPT !.undone = TRUE]
          /\ audits'[new] = row
          /\ \A b \in AuditIds \ {a, new} : audits'[b] = audits[b]
      BY <1>1, <3>2, <3>3, <3>5
    <3>7. /\ AuditInv(a)' /\ audits'[a] # NoAudit
          /\ audits'[a].product = audits[a].product
          /\ audits'[a].before = audits[a].before /\ audits'[a].after = audits[a].after
      BY <1>1, <1>3, <3>6, MarkForm
    <3>8. AuditInv(new)'
      BY <1>1, <1>2, <1>3, <3>2, <3>4, <3>6, RecordForm DEF row
    <3>9. \A b \in AuditIds \ {a, new} : AuditInv(b)'
      BY <1>3, <1>4, <3>6, AuditKept
    <3>10. AuditsInv'
      BY <3>6, <3>7, <3>8, <3>9 DEF AuditsInv
    <3>11. AuditsKeep
      BY <3>2, <3>6, <3>7 DEF AuditsKeep
    <3> QED
      BY <3>10, <3>11
  <2> QED
    BY <2>1, <2>2
<1>6. CallInv(call[k])'
  BY <1>3, BecomesIdle
<1> QED
  BY <1>3, <1>4, <1>5, <1>6, CallerMoves DEF Inv
-----------------------------------------------------------------------------
(***************************************************************************)
(* The buyers' requests.                                                   *)
(***************************************************************************)
LEMMA BuyerSteps ==
    ASSUME Inv, PolicyMoves, NEW b \in Clients,
           \/ \E c \in Commands, to \in {"accepted", "cancelled"} : BuyerReads(b, c, to)
           \/ BuyerOrders(b) \/ BuyerRestocks(b) \/ ClientDies(b)
    PROVE  Inv'
<1>1. UNCHANGED <<items, offers, audits, call, applied, restored>>
  BY DEF BuyerReads, BuyerOrders, BuyerRestocks, ClientDies
<1>2. LineupInv' /\ VersionsGrow
  BY <1>1, SameLineup DEF Inv
<1>3. AuditsInv' /\ AuditsKeep /\ OffersInv'
  BY <1>1, <1>2, SameAudits, SameOffers
<1>4. CountsInv'
  <2>1. UNCHANGED crashes \/ (crashes < MaxCrashes /\ crashes' = crashes + 1)
    BY DEF BuyerReads, BuyerOrders, BuyerRestocks, ClientDies
  <2>2. crashes' \in 0..MaxCrashes
    BY <2>1, BoundsAssumption DEF Inv, CountsInv
  <2>3. orders' \in SUBSET Commands
    BY DEF BuyerReads, BuyerOrders, BuyerRestocks, ClientDies, Inv, CountsInv, ClientInv
  <2> QED
    BY <1>1, <2>2, <2>3 DEF Inv, CountsInv
<1>5. (\E s : Client(b, s)) /\ ClientInv(client[b])'
  <2>1. CASE Client(b, Idle)
    BY <2>1, ClientBecomesIdle
  <2>2. ASSUME NEW c \in Commands, NEW to \in {"accepted", "cancelled"}, BuyerReads(b, c, to)
        PROVE  (\E s : Client(b, s)) /\ ClientInv(client[b])'
    <3> DEFINE s == [pc |-> IF to = "accepted" /\ offers[c].status = "accepted" THEN "order" ELSE "claim",
                     offer |-> c, to |-> to, version |-> offers[c].version]
    <3>1. Client(b, s)
      BY <2>2 DEF BuyerReads
    <3>2. client'[b] = s
      BY <3>1 DEF Inv, Client
    <3>3. client'[b].pc \in {"order", "claim"} /\ client'[b].offer = c /\ client'[b].to = to
      BY <3>2
    <3> QED
      BY <3>1, <3>3 DEF ClientInv
  <2>3. CASE BuyerRestocks(b)
    <3> DEFINE c == client[b].offer
               row == [items[Action[c].product] EXCEPT !.qty = @ + Action[c].quantity]
               s == [pc |-> "return", offer |-> c, row |-> row]
    <3>1. Client(b, s)
      BY <2>3 DEF BuyerRestocks
    <3>2. c \in Commands
      BY <2>3 DEF BuyerRestocks, Inv, ClientInv
    <3>3. Action[c].product \in Products /\ Action[c].quantity \in Nat
      BY <3>2, ActionAssumption DEF Actions
    <3>4. row \in Item /\ AboveFloor(Action[c].product, row.price)
      BY <3>3 DEF Inv, LineupInv, Item
    <3>5. client'[b] = s
      BY <3>1 DEF Inv, Client
    <3>6. client'[b].pc = "return" /\ client'[b].offer = c /\ client'[b].row = row
      BY <3>5
    <3> HIDE DEF s, row
    <3> QED
      BY <3>1, <3>2, <3>4, <3>6 DEF ClientInv, AboveFloor, PolicyMoves
  <2> QED
    BY <2>1, <2>2, <2>3 DEF BuyerOrders, ClientDies
<1> QED
  BY <1>1, <1>2, <1>3, <1>4, <1>5, ClientMoves DEF Inv

LEMMA BuyerClaimSteps ==
    ASSUME Inv, PolicyMoves, NEW b \in Clients, BuyerClaims(b)
    PROVE  Inv'
<1> DEFINE c == client[b].offer
<1>1. client[b].pc = "claim" /\ c \in Commands /\ client[b].to \in {"accepted", "cancelled"}
  BY DEF BuyerClaims, Inv, ClientInv
<1>2. UNCHANGED <<items, audits, call, orders, applied, restored, crashes>>
  BY DEF BuyerClaims
<1>3. LineupInv' /\ VersionsGrow
  BY <1>2, SameLineup DEF Inv
<1>4. AuditsInv' /\ AuditsKeep /\ CountsInv'
  BY <1>2, <1>3, SameAudits DEF Inv, CountsInv
<1>5. CASE Claimable(c, client[b].version)
  <2> DEFINE new == [status |-> client[b].to, version |-> offers[c].version + 1]
             s == [pc |-> IF client[b].to = "accepted" THEN "order" ELSE "restock", offer |-> c]
  <2>1. offers' = [offers EXCEPT ![c] = new] /\ Client(b, s)
    BY <1>5 DEF BuyerClaims
  <2>2. offers \in [Commands -> [status : Statuses, version : Nat]]
    BY DEF Inv, OffersInv
  <2>3. new \in [status : Statuses, version : Nat]
    BY <1>1, <2>2 DEF Statuses
  <2>4. AboveFloor(Action[c].product, Action[c].price)
    BY <1>1, <1>5 DEF Claimable, Inv, OffersInv
  <2>5. client'[b] = s
    BY <2>1 DEF Inv, Client
  <2>6. client'[b].pc \in {"order", "restock"} /\ client'[b].offer = c
    BY <2>5
  <2>7. ClientInv(client[b])'
    BY <1>1, <2>6 DEF ClientInv
  <2> HIDE DEF new, s
  <2>8. offers' \in [Commands -> [status : Statuses, version : Nat]]
    BY <2>1, <2>2, <2>3
  <2>9. \A d \in Commands : offers'[d] # NoOffer => AboveFloor(Action[d].product, Action[d].price)
    BY <1>1, <2>1, <2>2, <2>4 DEF Inv, OffersInv
  <2>10. OffersInv'
    BY <2>8, <2>9 DEF OffersInv, NoOffer, AboveFloor, PolicyMoves
  <2> QED
    BY <1>2, <1>3, <1>4, <2>1, <2>7, <2>10, ClientMoves DEF Inv
<1>6. CASE ~ Claimable(c, client[b].version)
  <2>1. Client(b, Idle) /\ UNCHANGED offers
    BY <1>6 DEF BuyerClaims
  <2>2. OffersInv' /\ ClientInv(client[b])'
    BY <2>1, SameOffers, ClientBecomesIdle
  <2> QED
    BY <1>2, <1>3, <1>4, <2>1, <2>2, ClientMoves DEF Inv
<1> QED
  BY <1>5, <1>6

LEMMA BuyerReturnSteps ==
    ASSUME Inv, PolicyMoves, NEW b \in Clients, BuyerReturns(b)
    PROVE  Inv'
<1> DEFINE p == Action[client[b].offer].product
           row == client[b].row
           change == [q \in {p} |-> row]
<1>1. /\ client[b].offer \in Commands /\ row \in Item /\ AboveFloor(p, row.price)
  BY DEF BuyerReturns, Inv, ClientInv
<1>2. p \in Products
  BY <1>1, ActionAssumption DEF Actions
<1>3. /\ UNCHANGED <<offers, audits, call, orders, applied, restored, crashes>>
      /\ Client(b, Idle)
      /\ items' = IF Writable(change) THEN Projected(change) ELSE items
  BY DEF BuyerReturns
<1>4. LineupInv' /\ VersionsGrow
  <2>1. CASE Writable(change)
    <3>1. ChangesOK(change)
      BY <1>1, <1>2 DEF ChangesOK
    <3> HIDE DEF change
    <3> QED
      BY <1>3, <2>1, <3>1, WriteForm DEF Inv
  <2>2. CASE ~ Writable(change)
    BY <1>3, <2>2, SameLineup DEF Inv
  <2> QED
    BY <2>1, <2>2
<1>5. AuditsInv' /\ AuditsKeep /\ OffersInv' /\ CountsInv'
  BY <1>3, <1>4, SameAudits, SameOffers DEF Inv, CountsInv
<1>6. ClientInv(client[b])'
  BY <1>3, ClientBecomesIdle
<1> QED
  BY <1>3, <1>4, <1>5, <1>6, ClientMoves DEF Inv
-----------------------------------------------------------------------------
LEMMA InvInit == Init => Inv
<1> SUFFICES ASSUME Init PROVE Inv
  OBVIOUS
<1>1. items \in [Products -> Item]
  <2> DEFINE row(p) == [qty |-> Quantity[p], listed |-> Quantity[p], price |-> Reference[p],
                        stage |-> IF p \in Staged THEN "on-stage" ELSE "queued", version |-> 1]
  <2>1. \A p \in Products : row(p) \in Item
    BY LineupAssumption DEF Item, Stages
  <2>2. items = [p \in Products |-> row(p)]
    BY DEF Init
  <2> HIDE DEF row
  <2> QED
    BY <2>1, <2>2
<1>2. ASSUME NEW p \in Products PROVE AboveFloor(p, items[p].price)
  BY DEF Init, AboveFloor
<1>3. AtMostOne(OnStage(items))
  <2>1. OnStage(items) = Staged
    BY StagedAssumption DEF OnStage, Init
  <2> QED
    BY <2>1, StagedAssumption, SmallSets
<1>4. LineupInv
  <2>1. policy \in inForce /\ inForce \in SUBSET Policies
    BY PolicyAssumption DEF Init
  <2> QED
    BY <1>1, <1>2, <1>3, <2>1 DEF LineupInv
<1>5. OffersInv
  BY DEF Init, OffersInv, NoOffer, Statuses
<1>6. AuditsInv
  BY DEF Init, AuditsInv, AuditInv
<1>7. CountsInv
  BY BoundsAssumption DEF Init, CountsInv
<1>8. /\ DOMAIN call = Callers /\ \A k \in Callers : CallInv(call[k])
      /\ DOMAIN client = Clients /\ \A b \in Clients : ClientInv(client[b])
  BY IdleInv DEF Init
<1> QED
  BY <1>4, <1>5, <1>6, <1>7, <1>8 DEF Inv

\* The policies of every step: kept by the requests, changed by the seller.
LEMMA PolicySteps ==
    ASSUME Inv, [Next]_vars
    PROVE  PolicyMoves /\ (UNCHANGED requestVars \/ Requests)
<1>1. policy \in inForce /\ inForce \in SUBSET Policies
  BY DEF Inv, LineupInv
<1>2. CASE UNCHANGED policyVars
  BY <1>1, <1>2 DEF PolicyMoves, policyVars, Next, vars, PolicyChanges
<1>3. CASE PolicyChanges
  BY <1>1, <1>3 DEF PolicyMoves, PolicyChanges
<1> QED
  BY <1>2, <1>3 DEF Next, vars

LEMMA InvStep == Inv /\ [Next]_vars => Inv'
<1> SUFFICES ASSUME Inv, [Next]_vars PROVE Inv'
  OBVIOUS
<1>0. PolicyMoves /\ (UNCHANGED requestVars \/ Requests)
  BY PolicySteps
<1>1. CASE UNCHANGED requestVars
  <2>1. /\ UNCHANGED <<items, offers, audits, call, client, orders, applied, restored, crashes>>
    BY <1>1 DEF requestVars
  <2>2. LineupInv' /\ VersionsGrow
    BY <1>0, <2>1, SameLineup DEF Inv
  <2>3. AuditsInv' /\ AuditsKeep /\ OffersInv' /\ CountsInv'
    BY <1>0, <2>1, <2>2, SameAudits, SameOffers DEF Inv, CountsInv
  <2>4. \A k \in Callers : CallInv(call[k])'
    BY <1>0, <2>1, <2>2, <2>3, CallKept
  <2>5. \A b \in Clients : ClientInv(client[b])'
    BY <1>0, <2>1, ClientKept
  <2> QED
    BY <2>1, <2>2, <2>3, <2>4, <2>5 DEF Inv
<1>2. ASSUME NEW k \in Callers,
             \/ \E c \in Commands : ApplyFind(k, c)
             \/ \E a \in AuditIds : RollbackCheck(k, a)
             \/ ApplyList(k) \/ ApplyWrite(k) \/ ApplyOffer(k) \/ ApplyAudit(k)
             \/ RollbackWrite(k) \/ RollbackRemove(k) \/ RollbackRecord(k) \/ CallerDies(k)
      PROVE  Inv'
  BY <1>0, <1>2, ApplyReads, ApplyWrites, ApplyOffers, ApplyAudits, RollbackChecks, RollbackWrites,
     RollbackRemoves, RollbackRecords
<1>3. ASSUME NEW b \in Clients,
             \/ \E c \in Commands, to \in {"accepted", "cancelled"} : BuyerReads(b, c, to)
             \/ BuyerClaims(b) \/ BuyerOrders(b) \/ BuyerRestocks(b) \/ BuyerReturns(b)
             \/ ClientDies(b)
      PROVE  Inv'
  BY <1>0, <1>3, BuyerSteps, BuyerClaimSteps, BuyerReturnSteps
<1> QED
  BY <1>0, <1>1, <1>2, <1>3 DEF Requests

LEMMA InvAlways == Spec => []Inv
  BY InvInit, InvStep, PTL DEF Spec

(***************************************************************************)
(* The type invariant: a row never gets a negative quantity, an audit      *)
(* never a half row, whoever interleaves.                                  *)
(***************************************************************************)
THEOREM OffersTypeCorrect == Spec => []TypeOK
<1>1. Inv => TypeOK
  <2> SUFFICES ASSUME Inv PROVE TypeOK
    OBVIOUS
  <2>1. /\ items \in [Products -> Item]
        /\ offers \in [Commands -> [status : Statuses, version : Nat]]
    BY DEF Inv, LineupInv, OffersInv
  <2>2. \A a \in AuditIds : audits[a] # NoAudit =>
         /\ audits[a].product \in Products
         /\ {audits[a].before, audits[a].after} \subseteq Item
         /\ audits[a].minted \subseteq Commands
         /\ audits[a].undone \in BOOLEAN
    BY DEF Inv, AuditsInv, AuditInv
  <2>3. /\ \A k \in Callers : call[k].pc \in CallPoints
        /\ \A b \in Clients : client[b].pc \in {"idle", "claim", "order", "restock", "return"}
    BY DEF Inv, CallInv, ClientInv
  <2>4. /\ orders \subseteq Commands /\ applied \in [Commands -> Nat]
        /\ restored \in [AuditIds -> Nat] /\ crashes \in 0..MaxCrashes
    BY DEF Inv, CountsInv
  <2>5. policy \in inForce /\ inForce \subseteq Policies
    BY DEF Inv, LineupInv
  <2> QED
    BY <2>1, <2>2, <2>3, <2>4, <2>5 DEF TypeOK, CallPoints
<1> QED
  BY <1>1, InvAlways, PTL

(***************************************************************************)
(* Every price, and the price of every offer, is the reference price or    *)
(* cleared the floor of a policy that has been in force, for every set of  *)
(* policies, whenever they change, every sequence of commands and every    *)
(* interleaving of rollbacks: what a rollback puts back had passed too.    *)
(***************************************************************************)
THEOREM OffersPricesGuarded == Spec => []PricesGuarded
<1>1. Inv => PricesGuarded
  BY DEF Inv, LineupInv, OffersInv, PricesGuarded
<1> QED
  BY <1>1, InvAlways, PTL

(***************************************************************************)
(* An action is undone at most once, for any number of racing rollbacks    *)
(* and of crashes.                                                         *)
(***************************************************************************)
THEOREM OffersUndoneOnce == Spec => []UndoneOnce
<1>1. Inv => UndoneOnce
  BY DEF Inv, AuditsInv, AuditInv, UndoneOnce
<1> QED
  BY <1>1, InvAlways, PTL

(***************************************************************************)
(* The order of the UPDATE statements is safe: no prefix of a change set   *)
(* the store accepts has two rows on stage.                                *)
(***************************************************************************)
LEMMA HandoverOrder ==
    ASSUME LineupInv, NEW changes, ChangesOK(changes), Writable(changes)
    PROVE  ~ TripsIndex(changes)
<1> SUFFICES ASSUME NEW done \in SUBSET DOMAIN changes,
                    \A p \in done, q \in DOMAIN changes \ done :
                        stageRank(changes, p) <= stageRank(changes, q)
             PROVE  ~ (Cardinality(OnStage([p \in Products |-> IF p \in done THEN changes[p]
                                                                             ELSE items[p]])) > 1)
  BY DEF TripsIndex
<1> DEFINE mid == [p \in Products |-> IF p \in done THEN changes[p] ELSE items[p]]
           end == Projected(changes)
<1>1. DOMAIN changes \in SUBSET Products /\ done \in SUBSET Products
  BY DEF ChangesOK
<1>2. AtMostOne(OnStage(end))
  <2>1. OnStage(end) \in SUBSET Products /\ Cardinality(OnStage(end)) <= 1
    BY DEF OnStage, Writable
  <2> QED
    BY <2>1, SmallSets
<1>3. \A p \in Products : items[p].stage = "on-stage" <=> p \in OnStage(items)
  BY DEF OnStage
<1>4. ASSUME NEW p \in DOMAIN changes PROVE end[p].stage = changes[p].stage
  <2>1. changes[p] \in Item /\ p \in Products
    BY <1>1 DEF ChangesOK
  <2>2. end[p] = [changes[p] EXCEPT !.version = @ + 1]
    BY <2>1 DEF Projected
  <2> QED
    BY <2>1, <2>2 DEF Item
<1>5. ASSUME NEW p \in Products, p \notin DOMAIN changes PROVE end[p] = items[p]
  BY <1>5 DEF Projected
<1>6. ASSUME NEW p \in done, NEW q \in Products, q \notin done, p # q,
             changes[p].stage = "on-stage", items[q].stage = "on-stage"
      PROVE  FALSE
  <2>1. items[p].stage # "on-stage"
    BY <1>1, <1>6 DEF LineupInv, AtMostOne, OnStage
  <2>2. stageRank(changes, p) = 2
    BY <1>6, <2>1 DEF stageRank
  <2>3. CASE q \notin DOMAIN changes
    <3>1. end[p].stage = "on-stage" /\ end[q].stage = "on-stage"
      BY <1>4, <1>5, <1>6, <2>3
    <3> HIDE DEF end
    <3> QED
      BY <1>1, <1>2, <1>6, <3>1 DEF AtMostOne, OnStage
  <2>4. CASE q \in DOMAIN changes
    <3>1. 2 <= stageRank(changes, q)
      BY <1>6, <2>2, <2>4
    <3>2. stageRank(changes, q) \in {0, 1}
      BY <1>6 DEF stageRank
    <3> QED
      BY <3>1, <3>2
  <2> QED
    BY <2>3, <2>4
<1>7. ASSUME NEW p \in OnStage(mid), NEW q \in OnStage(mid), p # q
      PROVE  FALSE
  <2>1. p \in Products /\ q \in Products /\ mid[p].stage = "on-stage" /\ mid[q].stage = "on-stage"
    BY <1>7 DEF OnStage
  <2>2. /\ p \in done => changes[p].stage = "on-stage"
        /\ p \notin done => items[p].stage = "on-stage"
        /\ q \in done => changes[q].stage = "on-stage"
        /\ q \notin done => items[q].stage = "on-stage"
    BY <2>1
  <2> HIDE DEF mid
  <2>3. CASE p \in done /\ q \in done
    <3>1. end[p].stage = "on-stage" /\ end[q].stage = "on-stage"
      BY <1>4, <2>2, <2>3
    <3> HIDE DEF end
    <3> QED
      BY <1>2, <1>7, <2>1, <3>1 DEF AtMostOne, OnStage
  <2>4. CASE p \notin done /\ q \notin done
    BY <1>7, <2>1, <2>2, <2>4 DEF LineupInv, AtMostOne, OnStage
  <2>5. CASE p \in done /\ q \notin done
    BY <1>6, <1>7, <2>1, <2>2, <2>5
  <2>6. CASE p \notin done /\ q \in done
    BY <1>6, <1>7, <2>1, <2>2, <2>6
  <2> QED
    BY <2>3, <2>4, <2>5, <2>6
<1>8. AtMostOne(OnStage(mid)) /\ OnStage(mid) \in SUBSET Products
  BY <1>7 DEF AtMostOne, OnStage
<1> HIDE DEF mid
<1>9. Cardinality(OnStage(mid)) \in Nat /\ Cardinality(OnStage(mid)) <= 1
  BY <1>8, SmallSets
<1>10. ~ (Cardinality(OnStage(mid)) > 1)
  BY <1>9
<1> QED
  BY <1>10 DEF mid

(***************************************************************************)
(* The handover is safe for every lineup and every command: the promise of *)
(* PgActionItemStore.write rests on the order of its statements alone.     *)
(***************************************************************************)
THEOREM OffersHandoverSafe == Spec => []HandoverIsSafe
<1>1. Inv => HandoverIsSafe
  BY HandoverOrder DEF Inv, CallInv, ApplyInv, At, HandoverIsSafe
<1> QED
  BY <1>1, InvAlways, PTL

(***************************************************************************)
(* A rollback that writes finds the very row its action left, whatever     *)
(* other commands, recorded or dead, pushes, swaps, cancels and rollbacks  *)
(* have written: the version check alone tells, because every write of a   *)
(* row raises its version.                                                 *)
(***************************************************************************)
THEOREM OffersNewerKept == Spec => NewerActionKept
<1> DEFINE A == \A k \in Callers :
                  At(k, "undo") /\ call'[k].pc = "remove"
                  => LET a == audits[call[k].audit] IN items[a.product] = a.after
<1>1. Inv /\ [Next]_vars => A
  <2> SUFFICES ASSUME Inv, [Next]_vars, NEW k \in Callers, At(k, "undo"), call'[k].pc = "remove"
               PROVE  items[audits[call[k].audit].product] = audits[call[k].audit].after
    OBVIOUS
  <2> DEFINE a == call[k].audit
             p == audits[a].product
             change == [q \in {p} |-> [audits[a].before EXCEPT !.version = call[k].current.version]]
  <2>1. Writable(change)
    <3>1. call[k].pc = "undo" /\ call'[k] # call[k] /\ DOMAIN call = Callers
      BY DEF At, Inv
    <3>2. ASSUME NEW j \in Callers, j # k, NEW s, Caller(j, s) PROVE FALSE
      BY <3>1, <3>2 DEF Caller
    <3>3. ASSUME NEW j \in Callers,
                 \/ \E c \in Commands : ApplyFind(j, c)
                 \/ \E b \in AuditIds : RollbackCheck(j, b)
                 \/ ApplyList(j) \/ ApplyWrite(j) \/ ApplyOffer(j) \/ ApplyAudit(j)
                 \/ RollbackRemove(j) \/ RollbackRecord(j) \/ CallerDies(j)
          PROVE  FALSE
      <4>1. \E s : Caller(j, s)
        BY <3>3 DEF ApplyFind, RollbackCheck, ApplyList, ApplyWrite, ApplyOffer, ApplyAudit,
                    RollbackRemove, RollbackRecord, CallerDies
      <4>2. j = k
        BY <3>2, <4>1
      <4>3. CallerDies(k)
        BY <3>1, <3>3, <4>2 DEF ApplyFind, RollbackCheck, ApplyList, ApplyWrite, ApplyOffer,
                                ApplyAudit, RollbackRemove, RollbackRecord, At
      <4>4. call'[k] = Idle
        BY <3>1, <4>3 DEF CallerDies, Caller
      <4> QED
        BY <4>4 DEF Idle
    <3>4. ~ \E b \in Clients :
              \/ \E c \in Commands, to \in {"accepted", "cancelled"} : BuyerReads(b, c, to)
              \/ BuyerClaims(b) \/ BuyerOrders(b) \/ BuyerRestocks(b) \/ BuyerReturns(b)
              \/ ClientDies(b)
      BY <3>1 DEF BuyerReads, BuyerClaims, BuyerOrders, BuyerRestocks, BuyerReturns, ClientDies
    <3>5. ~ UNCHANGED requestVars
      BY <3>1 DEF requestVars
    <3>6. PICK j \in Callers : RollbackWrite(j)
      BY <3>3, <3>4, <3>5, PolicySteps DEF Requests
    <3>7. j = k
      <4>1. \E s : Caller(j, s)
        BY <3>6 DEF RollbackWrite
      <4> QED
        BY <3>2, <4>1
    <3>8. CASE ~ Writable(change)
      <4>1. Caller(k, Idle)
        BY <3>6, <3>7, <3>8 DEF RollbackWrite
      <4>2. call'[k] = Idle
        BY <3>1, <4>1 DEF Caller
      <4> QED
        BY <4>2 DEF Idle
    <3> QED
      BY <3>8
  <2> QED
    BY <2>1, UndoFinds
<1>2. Inv /\ [Next]_vars => [A]_vars
  BY <1>1
<1> QED
  BY <1>2, InvAlways, PTL DEF Spec, NewerActionKept
-----------------------------------------------------------------------------
(***************************************************************************)
(* Units.  A command that took units takes them in packets of its own      *)
(* size: one with each lineup write.  A packet is back in the lineup, or   *)
(* out: carried by a request, held by the offer, or lost.  out[c] counts   *)
(* the packets of c that are out; the invariant says that it exists.       *)
(***************************************************************************)
Offering == {c \in Commands : Action[c].kind = "targeted-offer"}

Takes(c) == IF c \in Offering THEN Action[c].quantity ELSE 0

\* Requests that took a packet and have not created the offer; that cancelled the offer
\* and have not put the packet back.
Carrying(c) == {k \in Callers : At(k, "offer") /\ call[k].cmd = c}

Returning(c) == {b \in Clients : client[b].pc \in {"restock", "return"} /\ client[b].offer = c}

\* Offers that the rollback of their own command is about to remove.
SelfDoomed ==
    {c \in Commands : \E k \in Callers : At(k, "remove") /\ call[k].audit = c /\ c \in audits[c].minted}

Carried(c) == Cardinality(Carrying(c))

Packets(c) ==
    Carried(c) + Cardinality(Returning(c)) + (IF Live(c) /\ c \notin SelfDoomed THEN 1 ELSE 0)

\* One packet of c is out that no apply carries; that nobody has at all.
Covers(out, c) == Carried(c) + 1 <= out[c]

Spare(out, c) == Packets(c) + 1 <= out[c]

Stacked(S, f) == UNION {{c} \X (1..f[c]) : c \in S}

OfferingOf(p) == {c \in Offering : Action[c].product = p}

UnitsOut(out, p) == Stacked(OfferingOf(p), [c \in Offering |-> Action[c].quantity * out[c]])

Balance(out) == \A p \in Products : items[p].qty + Cardinality(UnitsOut(out, p)) = Quantity[p]

Backed(out) == \A c \in Offering : Packets(c) <= out[c]

\* A row that was read or written when the lineup was at its version.
Seen(p, row, gone) ==
    /\ row.version <= items[p].version
    /\ row.version = items[p].version => items[p].qty = row.qty + gone

\* What undoing a rollback does: nothing, it takes a packet, or it gives one back that is spare.
UndoOK(out, p, before, after) ==
    \/ before.qty = after.qty
    \/ \E c \in OfferingOf(p) :
         /\ audits[c] # NoAudit
         /\ \/ after.qty = before.qty + Action[c].quantity
            \/ /\ before.qty = after.qty + Action[c].quantity
               /\ after.version = items[p].version => Spare(out, c)

\* Offers created since a request read the lineup, while the row is as it left it.
NewOnesCovered(out, p, row, known) ==
    row.version = items[p].version => \A c \in Existing(p) \ known : Covers(out, c)

ApplyUnits(out, state, c) ==
    LET p == Action[c].product
    IN  /\ state.pc = "write" =>
             /\ p \in DOMAIN state.changes
             /\ state.before.version = state.changes[p].version
             /\ state.before.qty = state.changes[p].qty + Takes(c)
             /\ \A r \in DOMAIN state.changes :
                  Seen(r, state.changes[r], IF r = p THEN Takes(c) ELSE 0)
             /\ NewOnesCovered(out, p, state.before, state.known)
        /\ state.pc = "offer" => c \in Offering
        /\ state.pc \in {"offer", "audit"} =>
             /\ state.before.qty = state.after.qty + Takes(c)
             /\ Seen(p, state.after, 0)
             /\ NewOnesCovered(out, p, state.after, state.known)
        /\ state.pc \in {"write", "offer"} /\ c \in Offering \cap state.known =>
             audits[c] # NoAudit \/ offers[c] # NoOffer \/ Spare(out, c)
        /\ state.pc = "audit" /\ c \in Offering /\ audits[c] = NoAudit
           /\ state.after.version = items[p].version =>
             Covers(out, c) /\ (c \in state.known => Spare(out, c))

RollbackUnits(out, state, a) ==
    LET p == audits[a].product
    IN  /\ state.pc = "remove" =>
             \A c \in audits[a].minted \ {a} : audits[c] = NoAudit => Covers(out, c)
        /\ state.pc \in {"remove", "note"} =>
             Seen(p, state.row, 0) /\ UndoOK(out, p, state.current, state.row)

AuditUnits(out, a) ==
    LET p == audits[a].product
        current == audits[a].after.version = items[p].version
    IN  audits[a] # NoAudit =>
          /\ Seen(p, audits[a].after, 0)
          /\ audits[a].minted \in SUBSET OfferingOf(p)
          /\ a \in Commands =>
               /\ p = Action[a].product
               /\ audits[a].before.qty = audits[a].after.qty + Takes(a)
               /\ current => \A c \in audits[a].minted : Covers(out, c)
               /\ current /\ a \in Offering \ audits[a].minted => Spare(out, a)
          /\ a \notin Commands =>
               audits[a].minted = {} /\ UndoOK(out, p, audits[a].before, audits[a].after)

ClientUnits(state) ==
    LET c == state.offer
        p == Action[c].product
    IN  /\ state.pc = "claim" =>
             /\ offers[c] # NoOffer
             /\ state.version \in Nat /\ state.version <= offers[c].version
             /\ state.version = offers[c].version => Live(c)
        /\ state.pc \in {"restock", "return"} => offers[c] # NoOffer
        /\ state.pc = "return" =>
             /\ state.row.version <= items[p].version
             /\ state.row.version = items[p].version =>
                  state.row.qty = items[p].qty + Action[c].quantity

UnitsInv(out) ==
    /\ Balance(out) /\ Backed(out)
    /\ \A c \in Commands : offers[c] # NoOffer => c \in Offering
    /\ \A k \in Callers, c \in Commands :
         call[k].pc \in {"write", "offer", "audit"} /\ call[k].cmd = c => ApplyUnits(out, call[k], c)
    /\ \A k \in Callers, a \in AuditIds :
         call[k].pc \in {"remove", "note"} /\ call[k].audit = a => RollbackUnits(out, call[k], a)
    /\ \A a \in AuditIds : AuditUnits(out, a)
    /\ \A b \in Clients : ClientUnits(client[b])
    /\ RollingBack # {} => \A b \in Clients : client[b] = Idle
-----------------------------------------------------------------------------
(***************************************************************************)
(* Counting the units that are out.                                        *)
(***************************************************************************)
LEMMA StackedFinite ==
    ASSUME NEW S, IsFiniteSet(S), NEW f, \A c \in S : f[c] \in Nat
    PROVE  IsFiniteSet(Stacked(S, f)) /\ Cardinality(Stacked(S, f)) \in Nat
<1> DEFINE T == {{c} \X (1..f[c]) : c \in S}
           g == [c \in S |-> {c} \X (1..f[c])]
<1>1. g \in Surjection(S, T)
  BY DEF Surjection
<1>2. IsFiniteSet(T)
  <2> HIDE DEF g, T
  <2> QED
    BY <1>1, FS_Surjection
<1>3. ASSUME NEW c \in S PROVE IsFiniteSet({c} \X (1..f[c]))
  <2>1. f[c] \in Int /\ 1 \in Int
    OBVIOUS
  <2>2. IsFiniteSet(1..f[c]) /\ IsFiniteSet({c})
    BY <2>1, FS_Interval, FS_Singleton
  <2> QED
    BY <2>2, FS_Product
<1>4. \A U \in T : IsFiniteSet(U)
  BY <1>3
<1>5. IsFiniteSet(UNION T)
  <2> HIDE DEF T
  <2> QED
    BY <1>2, <1>4, FS_UNION
<1>6. IsFiniteSet(Stacked(S, f))
  BY <1>5 DEF Stacked
<1> QED
  BY <1>6, FS_CardinalityType

LEMMA StackedAdds ==
    ASSUME NEW S, IsFiniteSet(S), NEW f, NEW g, \A d \in S : f[d] \in Nat,
           NEW c \in S, NEW n \in Nat, g[c] = f[c] + n, \A d \in S \ {c} : g[d] = f[d]
    PROVE  Cardinality(Stacked(S, g)) = Cardinality(Stacked(S, f)) + n
<1> DEFINE low == f[c] + 1
           high == f[c] + n
           more == {c} \X (low..high)
           base == Stacked(S, f)
<1>1. low \in Int /\ high \in Int /\ f[c] \in Nat
  OBVIOUS
<1>2. IsFiniteSet(low..high) /\ Cardinality(low..high) = IF low > high THEN 0 ELSE high - low + 1
  <2> HIDE DEF low, high
  <2> QED
    BY <1>1, FS_Interval
<1>3. Cardinality(low..high) = n
  <2>1. (IF low > high THEN 0 ELSE high - low + 1) = n
    BY <1>1
  <2> QED
    BY <1>2, <2>1
<1>4. IsFiniteSet({c}) /\ Cardinality({c}) = 1
  BY FS_Singleton
<1>5. IsFiniteSet(more) /\ Cardinality(more) = Cardinality({c}) * Cardinality(low..high)
  BY <1>2, <1>4, FS_Product
<1>6. Cardinality(more) = n
  BY <1>3, <1>4, <1>5
<1>7. IsFiniteSet(base) /\ Cardinality(base) \in Nat
  BY StackedFinite
<1>8. Stacked(S, g) = base \cup more
  <2>1. ASSUME NEW u \in Stacked(S, g) PROVE u \in base \cup more
    <3>1. PICK d \in S : u \in {d} \X (1..g[d])
      BY <2>1 DEF Stacked
    <3>2. CASE d # c
      BY <3>1, <3>2 DEF Stacked
    <3>3. CASE d = c
      <4>1. u \in {c} \X (1..f[c]) \/ u \in more
        BY <1>1, <3>1, <3>3
      <4> QED
        BY <4>1 DEF Stacked
    <3> QED
      BY <3>2, <3>3
  <2>2. ASSUME NEW u \in base PROVE u \in Stacked(S, g)
    <3>1. PICK d \in S : u \in {d} \X (1..f[d])
      BY <2>2 DEF Stacked
    <3>2. u \in {d} \X (1..g[d])
      <4>1. CASE d # c
        BY <3>1, <4>1
      <4>2. CASE d = c
        BY <1>1, <3>1, <4>2
      <4> QED
        BY <4>1, <4>2
    <3> QED
      BY <3>2 DEF Stacked
  <2>3. ASSUME NEW u \in more PROVE u \in Stacked(S, g)
    <3>1. u \in {c} \X (1..g[c])
      BY <1>1, <2>3
    <3> QED
      BY <3>1 DEF Stacked
  <2> QED
    BY <2>1, <2>2, <2>3
<1>9. base \cap more = {}
  <2> SUFFICES ASSUME NEW u \in base, u \in more PROVE FALSE
    OBVIOUS
  <2>1. PICK d \in S : u \in {d} \X (1..f[d])
    BY DEF Stacked
  <2>2. u[1] = d /\ u[1] = c /\ u[2] <= f[d] /\ u[2] >= f[c] + 1 /\ u[2] \in Int
    BY <1>1, <2>1
  <2> QED
    BY <1>1, <2>2
<1> HIDE DEF base, more
<1>10. Cardinality(base \cup more) = Cardinality(base) + Cardinality(more) - Cardinality(base \cap more)
  BY <1>5, <1>7, FS_Union
<1>11. Cardinality(base \cap more) = 0
  BY <1>9, FS_EmptySet
<1>12. Cardinality(base \cup more) = Cardinality(base) + n
  BY <1>6, <1>7, <1>10, <1>11
<1> QED
  BY <1>8, <1>12 DEF base

LEMMA OfferingTypes ==
    /\ IsFiniteSet(Offering) /\ Offering \in SUBSET Commands
    /\ \A c \in Offering : /\ Action[c].product \in Products /\ Action[c].quantity \in Nat
                           /\ Takes(c) = Action[c].quantity /\ c \in OfferingOf(Action[c].product)
    /\ \A c \in Commands : Takes(c) \in Nat /\ Action[c].product \in Products
    /\ \A p \in Products : IsFiniteSet(OfferingOf(p)) /\ OfferingOf(p) \in SUBSET Offering
<1>1. IsFiniteSet(Offering) /\ Offering \in SUBSET Commands
  BY CommandsAssumption, FS_Subset DEF Offering
<1>2. \A c \in Commands : Action[c].product \in Products /\ Action[c].quantity \in Nat
  BY ActionAssumption DEF Actions
<1>3. \A p \in Products : OfferingOf(p) \in SUBSET Offering
  BY DEF OfferingOf
<1>4. \A p \in Products : IsFiniteSet(OfferingOf(p))
  BY <1>1, <1>3, FS_Subset
<1> QED
  BY <1>1, <1>2, <1>3, <1>4 DEF Takes, OfferingOf

OneMore(out, more, c) == more = [out EXCEPT ![c] = out[c] + 1]

\* One packet more of c is out: so many units of its product, and none of the others.
LEMMA PacketOut ==
    ASSUME NEW out \in [Offering -> Nat], NEW c \in Offering, NEW more \in [Offering -> Nat],
           OneMore(out, more, c), NEW p \in Products
    PROVE  \E n \in Nat :
             /\ n = IF p = Action[c].product THEN Action[c].quantity ELSE 0
             /\ Cardinality(UnitsOut(out, p)) \in Nat
             /\ Cardinality(UnitsOut(more, p)) = Cardinality(UnitsOut(out, p)) + n
<1> DEFINE f == [d \in Offering |-> Action[d].quantity * out[d]]
           g == [d \in Offering |-> Action[d].quantity * more[d]]
           S == OfferingOf(p)
<1>1. IsFiniteSet(S) /\ S \in SUBSET Offering
  BY OfferingTypes
<1>2. \A d \in Offering : f[d] \in Nat
  <2> SUFFICES ASSUME NEW d \in Offering PROVE Action[d].quantity * out[d] \in Nat
    OBVIOUS
  <2>1. Action[d].quantity \in Nat /\ out[d] \in Nat
    BY OfferingTypes
  <2> QED
    BY <2>1
<1>3. \A d \in Offering \ {c} : g[d] = f[d]
  BY DEF OneMore
<1>4. g[c] = f[c] + Action[c].quantity
  <2>1. Action[c].quantity \in Nat /\ out[c] \in Nat /\ more[c] = out[c] + 1
    BY OfferingTypes DEF OneMore
  <2>2. Action[c].quantity * (out[c] + 1) = Action[c].quantity * out[c] + Action[c].quantity
    BY <2>1
  <2> QED
    BY <2>1, <2>2
<1>5. UnitsOut(out, p) = Stacked(S, f) /\ UnitsOut(more, p) = Stacked(S, g)
  BY DEF UnitsOut
<1>6. Cardinality(Stacked(S, f)) \in Nat
  <2> HIDE DEF f, S
  <2> QED
    BY <1>1, <1>2, StackedFinite
<1>7. CASE p = Action[c].product
  <2>1. c \in S /\ Action[c].quantity \in Nat
    BY <1>7, OfferingTypes
  <2> HIDE DEF f, g, S
  <2>2. \A d \in S : f[d] \in Nat
    BY <1>1, <1>2
  <2>3. \A d \in S \ {c} : g[d] = f[d]
    BY <1>1, <1>3
  <2>4. Cardinality(Stacked(S, g)) = Cardinality(Stacked(S, f)) + Action[c].quantity
    BY <1>1, <1>4, <2>1, <2>2, <2>3, StackedAdds
  <2> QED
    BY <1>5, <1>6, <1>7, <2>1, <2>4
<1>8. CASE p # Action[c].product
  <2>1. c \notin S
    BY <1>8 DEF OfferingOf
  <2> HIDE DEF f, g, S
  <2>2. Stacked(S, g) = Stacked(S, f)
    BY <1>1, <1>3, <2>1 DEF Stacked
  <2>3. Cardinality(Stacked(S, g)) = Cardinality(Stacked(S, f)) + 0
    BY <1>6, <2>2
  <2> QED
    BY <1>5, <1>6, <1>8, <2>3
<1> QED
  BY <1>7, <1>8
-----------------------------------------------------------------------------
(***************************************************************************)
(* What is true of a packet stays true while others move: the conditions   *)
(* on a step, from out before it to new after it.                          *)
(***************************************************************************)
RowsMove == \A p \in Products : items'[p] = items[p] \/ items[p].version < items'[p].version

RecordsKeep ==
    \A a \in AuditIds : audits[a] # NoAudit =>
        /\ audits'[a] # NoAudit
        /\ audits'[a].product = audits[a].product
        /\ audits'[a].before = audits[a].before
        /\ audits'[a].after = audits[a].after
        /\ audits'[a].minted = audits[a].minted

CoversKept(out, new, c) == Covers(out, c) => Covers(new, c)'

SpareKept(out, new, c) == Spare(out, c) => Spare(new, c)'

TokensKept(out, new) ==
    \A c \in Offering :
        /\ items'[Action[c].product] = items[Action[c].product] =>
             CoversKept(out, new, c) /\ SpareKept(out, new, c)
        /\ audits'[c] = NoAudit =>
             SpareKept(out, new, c) /\ (RollingBack # {} => CoversKept(out, new, c))

\* An offer that appears is backed by a packet; one that disappears leaves a spare one.
OffersMove(new) ==
    \A c \in Commands :
        /\ offers[c] = NoOffer /\ offers'[c] # NoOffer => c \in Offering /\ Covers(new, c)'
        /\ offers[c] # NoOffer /\ offers'[c] = NoOffer => audits'[c] # NoAudit \/ Spare(new, c)'

Frame(out, new) == RowsMove /\ RecordsKeep /\ TokensKept(out, new) /\ OffersMove(new)

LEMMA RowTypes ==
    ASSUME Inv
    PROVE  \A p \in Products : items[p] \in Item /\ items[p].version \in Nat /\ items[p].qty \in Nat
  BY DEF Inv, LineupInv, Item

\* A version that is the lineup's after a step was so before it, and the row is the same.
LEMMA StillCurrent ==
    ASSUME Inv, Inv', RowsMove, NEW p \in Products, NEW v \in Nat, v <= items[p].version
    PROVE  v <= items'[p].version /\ (v = items'[p].version => v = items[p].version /\ items'[p] = items[p])
<1>1. items[p].version \in Nat /\ items'[p].version \in Nat
  BY DEF Inv, LineupInv, Item
<1>2. items'[p] = items[p] \/ items[p].version < items'[p].version
  BY DEF RowsMove
<1> QED
  BY <1>1, <1>2

LEMMA NewOnesKept ==
    ASSUME Inv, Inv', NEW out, NEW new, UnitsInv(out), Frame(out, new), NEW p \in Products,
           NEW row \in Item, NEW known, row.version <= items[p].version,
           NewOnesCovered(out, p, row, known), row.version = items'[p].version,
           NEW c \in Commands, Action[c].product = p, offers'[c] # NoOffer, c \notin known
    PROVE  Covers(new, c)'
<1>1. row.version = items[p].version /\ items'[p] = items[p]
  <2>1. row.version \in Nat
    BY DEF Item
  <2> QED
    BY <2>1, StillCurrent DEF Frame
<1>2. CASE offers[c] = NoOffer
  BY <1>2 DEF Frame, OffersMove
<1>3. CASE offers[c] # NoOffer
  <2>1. c \in Offering
    BY <1>3 DEF UnitsInv
  <2>2. Covers(out, c)
    BY <1>1, <1>3 DEF NewOnesCovered, Existing
  <2>3. CoversKept(out, new, c)
    BY <1>1, <2>1 DEF Frame, TokensKept
  <2> QED
    BY <2>2, <2>3 DEF CoversKept
<1> QED
  BY <1>2, <1>3

LEMMA UndoKept ==
    ASSUME Inv, Inv', NEW out, NEW new, Frame(out, new), NEW p \in Products,
           NEW before, NEW after \in Item, after.version <= items[p].version,
           UndoOK(out, p, before, after)
    PROVE  UndoOK(new, p, before, after)'
<1>1. CASE before.qty = after.qty
  BY <1>1 DEF UndoOK
<1>2. CASE before.qty # after.qty
  <2>1. PICK c \in OfferingOf(p) :
         /\ audits[c] # NoAudit
         /\ \/ after.qty = before.qty + Action[c].quantity
            \/ /\ before.qty = after.qty + Action[c].quantity
               /\ after.version = items[p].version => Spare(out, c)
    BY <1>2 DEF UndoOK
  <2>2. c \in Offering /\ Action[c].product = p /\ c \in AuditIds
    BY DEF OfferingOf, AuditIds, Offering
  <2>3. audits'[c] # NoAudit
    BY <2>1, <2>2 DEF Frame, RecordsKeep
  <2>4. ASSUME after.version = items'[p].version PROVE after.version = items[p].version /\ SpareKept(out, new, c)
    <3>1. after.version \in Nat
      BY DEF Item
    <3>2. after.version = items[p].version /\ items'[p] = items[p]
      BY <2>4, <3>1, StillCurrent DEF Frame
    <3> QED
      BY <2>2, <3>2 DEF Frame, TokensKept
  <2>5. after.version = items'[p].version /\ before.qty = after.qty + Action[c].quantity
          /\ after.qty # before.qty + Action[c].quantity => Spare(new, c)'
    BY <2>1, <2>4 DEF SpareKept
  <2> QED
    BY <2>1, <2>3, <2>5 DEF UndoOK, OfferingOf, Offering
<1> QED
  BY <1>1, <1>2

LEMMA ApplyUnitsKept ==
    ASSUME Inv, Inv', NEW out, NEW new, UnitsInv(out), Frame(out, new),
           NEW k \in Callers, call'[k] = call[k], NEW c \in Commands,
           call[k].pc \in {"write", "offer", "audit"}, call[k].cmd = c
    PROVE  ApplyUnits(new, call[k], c)'
<1> DEFINE p == Action[c].product
<1>1. ApplyUnits(out, call[k], c)
  BY DEF UnitsInv
<1>2. p \in Products /\ c \in AuditIds /\ (\A r \in Products : items[r].qty \in Nat)
  BY OfferingTypes, RowTypes DEF AuditIds
<1>3. call[k].before \in Item /\ (call[k].pc \in {"offer", "audit"} => call[k].after \in Item)
  BY DEF Inv, CallInv, ApplyInv, Written
<1>4. ASSUME call[k].pc = "write"
      PROVE  /\ \A r \in DOMAIN call[k].changes :
                  /\ call[k].changes[r].version <= items'[r].version
                  /\ call[k].changes[r].version = items'[r].version =>
                       items'[r].qty = call[k].changes[r].qty + (IF r = p THEN Takes(c) ELSE 0)
             /\ call[k].before.version <= items[p].version
  <2>1. ChangesOK(call[k].changes)
    BY <1>4 DEF Inv, CallInv, ApplyInv
  <2>2. ASSUME NEW r \in DOMAIN call[k].changes
        PROVE  /\ call[k].changes[r].version <= items'[r].version
               /\ call[k].changes[r].version = items'[r].version =>
                    items'[r].qty = call[k].changes[r].qty + (IF r = p THEN Takes(c) ELSE 0)
    <3>1. r \in Products /\ call[k].changes[r].version \in Nat
      BY <2>1 DEF ChangesOK, Item
    <3>2. Seen(r, call[k].changes[r], IF r = p THEN Takes(c) ELSE 0)
      BY <1>1, <1>4 DEF ApplyUnits
    <3> QED
      BY <3>1, <3>2, StillCurrent DEF Seen, Frame
  <2>3. call[k].before.version <= items[p].version
    BY <1>1, <1>4 DEF ApplyUnits, Seen
  <2> QED
    BY <2>2, <2>3
<1>5. ASSUME call[k].pc = "write", call[k].before.version = items'[p].version,
             NEW d \in Commands, Action[d].product = p, offers'[d] # NoOffer, d \notin call[k].known
      PROVE  Covers(new, d)'
  <2>1. NewOnesCovered(out, p, call[k].before, call[k].known)
    BY <1>1, <1>5 DEF ApplyUnits
  <2> QED
    BY <1>2, <1>3, <1>4, <1>5, <2>1, NewOnesKept
<1>6. ASSUME call[k].pc \in {"offer", "audit"}
      PROVE  /\ call[k].after.version <= items[p].version
             /\ call[k].after.version <= items'[p].version
             /\ call[k].after.version = items'[p].version =>
                  /\ items'[p] = items[p] /\ call[k].after.version = items[p].version
                  /\ items'[p].qty = call[k].after.qty + 0
  <2>1. Seen(p, call[k].after, 0)
    BY <1>1, <1>6 DEF ApplyUnits
  <2>2. call[k].after.version \in Nat
    BY <1>3, <1>6 DEF Item
  <2> QED
    BY <1>2, <2>1, <2>2, StillCurrent DEF Seen, Frame
<1>7. ASSUME call[k].pc \in {"offer", "audit"}, call[k].after.version = items'[p].version,
             NEW d \in Commands, Action[d].product = p, offers'[d] # NoOffer, d \notin call[k].known
      PROVE  Covers(new, d)'
  <2>1. NewOnesCovered(out, p, call[k].after, call[k].known)
    BY <1>1, <1>7 DEF ApplyUnits
  <2> QED
    BY <1>2, <1>3, <1>6, <1>7, <2>1, NewOnesKept
<1>8. ASSUME call[k].pc \in {"write", "offer"}, c \in Offering \cap call[k].known,
             audits'[c] = NoAudit, offers'[c] = NoOffer
      PROVE  Spare(new, c)'
  <2>1. audits[c] = NoAudit
    BY <1>2, <1>8 DEF Frame, RecordsKeep
  <2>2. SpareKept(out, new, c)
    BY <1>8 DEF Frame, TokensKept
  <2>3. offers[c] # NoOffer \/ Spare(out, c)
    BY <1>1, <1>8, <2>1 DEF ApplyUnits
  <2> QED
    BY <1>8, <2>2, <2>3 DEF SpareKept, Frame, OffersMove
<1>9. ASSUME call[k].pc = "audit", c \in Offering, audits'[c] = NoAudit,
             call[k].after.version = items'[p].version
      PROVE  Covers(new, c)' /\ (c \in call[k].known => Spare(new, c)')
  <2>1. audits[c] = NoAudit
    BY <1>2, <1>9 DEF Frame, RecordsKeep
  <2>2. call[k].after.version = items[p].version /\ items'[p] = items[p]
    BY <1>6, <1>9
  <2>3. CoversKept(out, new, c) /\ SpareKept(out, new, c)
    BY <1>9, <2>2 DEF Frame, TokensKept
  <2>4. Covers(out, c) /\ (c \in call[k].known => Spare(out, c))
    BY <1>1, <1>9, <2>1, <2>2 DEF ApplyUnits
  <2> QED
    BY <2>3, <2>4 DEF CoversKept, SpareKept
<1>10. /\ call[k].pc = "write" =>
             /\ p \in DOMAIN call[k].changes
             /\ call[k].before.version = call[k].changes[p].version
             /\ call[k].before.qty = call[k].changes[p].qty + Takes(c)
       /\ call[k].pc = "offer" => c \in Offering
       /\ call[k].pc \in {"offer", "audit"} => call[k].before.qty = call[k].after.qty + Takes(c)
  BY <1>1 DEF ApplyUnits
<1> QED
  BY <1>4, <1>5, <1>6, <1>7, <1>8, <1>9, <1>10
     DEF ApplyUnits, Seen, NewOnesCovered, Existing, NoOffer, Takes, Offering, NoAudit

LEMMA RollbackUnitsKept ==
    ASSUME Inv, Inv', NEW out, NEW new, UnitsInv(out), Frame(out, new),
           NEW k \in Callers, call'[k] = call[k], NEW a \in AuditIds,
           call[k].pc \in {"remove", "note"}, call[k].audit = a
    PROVE  RollbackUnits(new, call[k], a)'
<1>0. PICK p : p = audits[a].product
  OBVIOUS
<1>1. RollbackUnits(out, call[k], a)
  BY DEF UnitsInv
<1>2. audits[a] # NoAudit /\ call[k].current \in Item /\ call[k].row \in Item
  BY DEF Inv, CallInv, RollbackInv, WrittenBack
<1>3. p \in Products /\ audits'[a].product = p /\ audits'[a].minted = audits[a].minted
  BY <1>0, <1>2 DEF Inv, AuditsInv, AuditInv, Frame, RecordsKeep
<1>4. Seen(p, call[k].row, 0) /\ UndoOK(out, p, call[k].current, call[k].row)
  BY <1>0, <1>1 DEF RollbackUnits
<1>5. PICK current, row : current = call[k].current /\ row = call[k].row
  OBVIOUS
<1>6. row \in Item /\ row.version \in Nat /\ row.version <= items[p].version
  BY <1>2, <1>4, <1>5 DEF Item, Seen
<1>7. UndoOK(new, p, current, row)'
  BY <1>3, <1>4, <1>5, <1>6, UndoKept
<1>8. Seen(p, row, 0)'
  BY <1>3, <1>4, <1>5, <1>6, StillCurrent DEF Seen, Frame
<1>9. ASSUME call[k].pc = "remove", NEW c \in audits[a].minted \ {a}, audits'[c] = NoAudit
      PROVE  Covers(new, c)'
  <2>1. c \in Offering /\ c \in AuditIds
    BY <1>2, <1>9 DEF UnitsInv, AuditUnits, OfferingOf, Offering, AuditIds
  <2>2. audits[c] = NoAudit
    BY <1>9, <2>1 DEF Frame, RecordsKeep
  <2>3. Covers(out, c)
    BY <1>1, <1>9, <2>2 DEF RollbackUnits
  <2>4. RollingBack # {}
    BY <1>9 DEF RollingBack
  <2>5. CoversKept(out, new, c)
    BY <1>9, <2>1, <2>4 DEF Frame, TokensKept
  <2> QED
    BY <2>3, <2>5 DEF CoversKept
<1> QED
  BY <1>3, <1>5, <1>7, <1>8, <1>9 DEF RollbackUnits, UndoOK, Seen, NoAudit

LEMMA AuditUnitsKept ==
    ASSUME Inv, Inv', NEW out, NEW new, UnitsInv(out), Frame(out, new),
           NEW a \in AuditIds, audits[a] # NoAudit
    PROVE  AuditUnits(new, a)'
<1>0. PICK p, before, after, minted :
        p = audits[a].product /\ before = audits[a].before
        /\ after = audits[a].after /\ minted = audits[a].minted
  OBVIOUS
<1>1. /\ audits'[a].product = p /\ audits'[a].before = before
      /\ audits'[a].after = after /\ audits'[a].minted = minted
  BY <1>0 DEF Frame, RecordsKeep
<1>2. p \in Products /\ after \in Item /\ after.version \in Nat
  BY <1>0 DEF Inv, AuditsInv, AuditInv, Item
<1>3. /\ Seen(p, after, 0) /\ minted \in SUBSET OfferingOf(p)
      /\ a \in Commands =>
           /\ p = Action[a].product
           /\ before.qty = after.qty + Takes(a)
           /\ after.version = items[p].version =>
                /\ \A c \in minted : Covers(out, c)
                /\ a \in Offering \ minted => Spare(out, a)
      /\ a \notin Commands => minted = {} /\ UndoOK(out, p, before, after)
  BY <1>0 DEF UnitsInv, AuditUnits
<1>4. after.version <= items'[p].version
      /\ (after.version = items'[p].version => after.version = items[p].version /\ items'[p] = items[p])
  BY <1>2, <1>3, StillCurrent DEF Seen, Frame
<1>5. Seen(p, after, 0)'
  BY <1>3, <1>4 DEF Seen
<1>6. ASSUME a \in Commands, after.version = items'[p].version, NEW c \in minted
      PROVE  Covers(new, c)'
  <2>1. c \in Offering /\ Action[c].product = p /\ Covers(out, c)
    BY <1>3, <1>4, <1>6 DEF OfferingOf
  <2> QED
    BY <1>4, <1>6, <2>1 DEF Frame, TokensKept, CoversKept
<1>7. ASSUME a \in Commands, after.version = items'[p].version, a \in Offering \ minted
      PROVE  Spare(new, a)'
  <2>1. a \in Offering /\ Action[a].product = p /\ Spare(out, a)
    BY <1>3, <1>4, <1>7
  <2> QED
    BY <1>4, <1>7, <2>1 DEF Frame, TokensKept, SpareKept
<1>8. a \notin Commands => UndoOK(new, p, before, after)'
  BY <1>2, <1>3, UndoKept DEF Seen
<1> QED
  BY <1>1, <1>3, <1>5, <1>6, <1>7, <1>8
     DEF AuditUnits, UndoOK, Seen, Takes, Offering, OfferingOf

\* An offer that exists stays, or moves on to a later version.
OffersSteady ==
    \A c \in Commands : offers[c] # NoOffer =>
        offers'[c] = offers[c] \/ (offers'[c] # NoOffer /\ offers[c].version < offers'[c].version)

LEMMA ClientUnitsKept ==
    ASSUME Inv, Inv', RowsMove, OffersSteady, NEW b \in Clients, client'[b] = client[b],
           ClientUnits(client[b])
    PROVE  ClientUnits(client[b])'
<1> DEFINE c == client[b].offer
           p == Action[c].product
<1>1. CASE client[b].pc = "idle"
  BY <1>1 DEF ClientUnits
<1>2. CASE client[b].pc # "idle"
  <2>1. c \in Commands /\ (client[b].pc = "return" => client[b].row \in Item)
    BY <1>2 DEF Inv, ClientInv
  <2>2. p \in Products /\ offers[c].version \in Nat /\ offers'[c].version \in Nat
    BY <2>1, OfferingTypes DEF Inv, OffersInv
  <2>3. client[b].pc = "claim" =>
             /\ offers'[c] # NoOffer
             /\ client[b].version \in Nat /\ client[b].version <= offers'[c].version
             /\ client[b].version = offers'[c].version => offers'[c].status \in {"pending", "accepted"}
    BY <2>1, <2>2 DEF ClientUnits, OffersSteady, Live
  <2>4. client[b].pc \in {"restock", "return"} => offers'[c] # NoOffer
    BY <2>1 DEF ClientUnits, OffersSteady
  <2>5. client[b].pc = "return" =>
             /\ client[b].row.version <= items'[p].version
             /\ client[b].row.version = items'[p].version =>
                  client[b].row.qty = items'[p].qty + Action[c].quantity
    <3> SUFFICES ASSUME client[b].pc = "return"
                 PROVE  /\ client[b].row.version <= items'[p].version
                        /\ client[b].row.version = items'[p].version =>
                             client[b].row.qty = items'[p].qty + Action[c].quantity
      OBVIOUS
    <3>1. client[b].row.version \in Nat /\ client[b].row.version <= items[p].version
      BY <2>1 DEF Item, ClientUnits
    <3> QED
      BY <2>2, <3>1, StillCurrent DEF ClientUnits
  <2> QED
    BY <2>3, <2>4, <2>5 DEF ClientUnits, Live, NoOffer
<1> QED
  BY <1>1, <1>2

LEMMA ClientUnitsIdle ==
    ASSUME NEW b \in Clients, client'[b] = Idle
    PROVE  ClientUnits(client[b])'
  BY DEF ClientUnits, Idle

(***************************************************************************)
(* The invariant after a step of a seller's and of a buyer's request.      *)
(***************************************************************************)
LEMMA SellerStep ==
    ASSUME Inv, Inv', NEW out, NEW new, UnitsInv(out), Frame(out, new),
           Balance(new)', Backed(new)', NEW k \in Callers, NEW s, Caller(k, s),
           \A c \in Commands : s.pc \in {"write", "offer", "audit"} /\ s.cmd = c
                               => ApplyUnits(new, call[k], c)',
           \A a \in AuditIds : s.pc \in {"remove", "note"} /\ s.audit = a
                               => RollbackUnits(new, call[k], a)',
           \A a \in AuditIds : audits[a] = NoAudit /\ audits'[a] # NoAudit => AuditUnits(new, a)',
           UNCHANGED client,
           OffersSteady \/ (\A b \in Clients : client[b] = Idle),
           s.pc \in {"undo", "remove", "note"} =>
             k \in RollingBack \/ \A b \in Clients : client[b] = Idle
    PROVE  UnitsInv(new)'
<1>1. call'[k] = s /\ \A j \in Callers \ {k} : call'[j] = call[j]
  BY DEF Inv, Caller
<1>2. \A c \in Commands : offers'[c] # NoOffer => c \in Offering
  BY DEF Frame, OffersMove, UnitsInv
<1>3. ASSUME NEW j \in Callers, NEW c \in Commands,
             call'[j].pc \in {"write", "offer", "audit"}, call'[j].cmd = c
      PROVE  ApplyUnits(new, call[j], c)'
  <2>1. CASE j = k
    BY <1>1, <1>3, <2>1
  <2>2. CASE j # k
    <3>1. call'[j] = call[j]
      BY <1>1, <2>2
    <3> QED
      BY <1>3, <3>1, ApplyUnitsKept
  <2> QED
    BY <2>1, <2>2
<1>4. ASSUME NEW j \in Callers, NEW a \in AuditIds,
             call'[j].pc \in {"remove", "note"}, call'[j].audit = a
      PROVE  RollbackUnits(new, call[j], a)'
  <2>1. CASE j = k
    BY <1>1, <1>4, <2>1
  <2>2. CASE j # k
    <3>1. call'[j] = call[j]
      BY <1>1, <2>2
    <3> QED
      BY <1>4, <3>1, RollbackUnitsKept
  <2> QED
    BY <2>1, <2>2
<1>5. \A a \in AuditIds : AuditUnits(new, a)'
  <2> TAKE a \in AuditIds
  <2>1. CASE audits[a] # NoAudit
    BY <2>1, AuditUnitsKept
  <2>2. CASE audits[a] = NoAudit /\ audits'[a] # NoAudit
    BY <2>2
  <2>3. CASE audits'[a] = NoAudit
    BY <2>3 DEF AuditUnits, NoAudit
  <2> QED
    BY <2>1, <2>2, <2>3
<1>6. \A b \in Clients : ClientUnits(client[b])'
  <2> TAKE b \in Clients
  <2>1. CASE client[b] = Idle
    BY <2>1, ClientUnitsIdle
  <2>2. CASE OffersSteady
    BY <2>2, ClientUnitsKept DEF UnitsInv, Frame
  <2> QED
    BY <2>1, <2>2
<1>7. RollingBack' # {} => \A b \in Clients : client'[b] = Idle
  <2> SUFFICES ASSUME NEW j \in Callers, call'[j].pc \in {"undo", "remove", "note"}
               PROVE  \A b \in Clients : client[b] = Idle
    BY DEF RollingBack
  <2>1. j \in RollingBack \/ k \in RollingBack \/ \A b \in Clients : client[b] = Idle
    BY <1>1 DEF RollingBack
  <2> QED
    BY <2>1 DEF UnitsInv
<1> QED
  BY <1>2, <1>3, <1>4, <1>5, <1>6, <1>7 DEF UnitsInv, NoOffer, Offering, Idle

LEMMA BuyerStep ==
    ASSUME Inv, Inv', NEW out, NEW new, UnitsInv(out), Frame(out, new),
           Balance(new)', Backed(new)', NEW b \in Clients, NEW s, Client(b, s),
           ClientUnits(client[b])', UNCHANGED <<call, audits>>, OffersSteady,
           s = Idle \/ RollingBack = {}
    PROVE  UnitsInv(new)'
<1>1. client'[b] = s /\ \A d \in Clients \ {b} : client'[d] = client[d]
  BY DEF Inv, Client
<1>2. \A c \in Commands : offers'[c] # NoOffer => c \in Offering
  BY DEF Frame, OffersMove, UnitsInv
<1>3. \A j \in Callers, c \in Commands :
        call'[j].pc \in {"write", "offer", "audit"} /\ call'[j].cmd = c => ApplyUnits(new, call[j], c)'
  BY ApplyUnitsKept
<1>4. \A j \in Callers, a \in AuditIds :
        call'[j].pc \in {"remove", "note"} /\ call'[j].audit = a => RollbackUnits(new, call[j], a)'
  BY RollbackUnitsKept
<1>5. \A a \in AuditIds : AuditUnits(new, a)'
  <2> TAKE a \in AuditIds
  <2>1. CASE audits[a] # NoAudit
    BY <2>1, AuditUnitsKept
  <2>2. CASE audits'[a] = NoAudit
    BY <2>2 DEF AuditUnits, NoAudit
  <2> QED
    BY <2>1, <2>2
<1>6. \A d \in Clients : ClientUnits(client[d])'
  <2> TAKE d \in Clients
  <2>1. CASE d # b
    <3>1. client'[d] = client[d] /\ ClientUnits(client[d]) /\ RowsMove
      BY <1>1, <2>1 DEF UnitsInv, Frame
    <3> QED
      BY <3>1, ClientUnitsKept
  <2> QED
    BY <2>1
<1>7. RollingBack' # {} => \A d \in Clients : client'[d] = Idle
  <2>1. RollingBack' = RollingBack
    BY DEF RollingBack
  <2> QED
    BY <1>1, <2>1 DEF UnitsInv
<1> QED
  BY <1>2, <1>3, <1>4, <1>5, <1>6, <1>7 DEF UnitsInv, NoOffer, Offering, Idle
-----------------------------------------------------------------------------
(***************************************************************************)
(* Packets on the move.                                                    *)
(***************************************************************************)
LEMMA PacketTypes ==
    ASSUME NEW c
    PROVE  /\ IsFiniteSet(Carrying(c)) /\ IsFiniteSet(Returning(c))
           /\ Carried(c) \in Nat /\ Cardinality(Returning(c)) \in Nat /\ Packets(c) \in Nat
           /\ IsFiniteSet(Carrying(c)') /\ IsFiniteSet(Returning(c)')
           /\ Carried(c)' \in Nat /\ Cardinality(Returning(c))' \in Nat /\ Packets(c)' \in Nat
<1>1. /\ Carrying(c) \in SUBSET Callers /\ Carrying(c)' \in SUBSET Callers
      /\ Returning(c) \in SUBSET Clients /\ Returning(c)' \in SUBSET Clients
  BY DEF Carrying, Returning
<1>2. /\ IsFiniteSet(Carrying(c)) /\ IsFiniteSet(Returning(c))
      /\ IsFiniteSet(Carrying(c)') /\ IsFiniteSet(Returning(c)')
  BY <1>1, RequestsAssumption, FS_Subset
<1>3. /\ Cardinality(Carrying(c)) \in Nat /\ Cardinality(Returning(c)) \in Nat
      /\ Cardinality(Carrying(c)') \in Nat /\ Cardinality(Returning(c)') \in Nat
  BY <1>2, FS_CardinalityType
<1>4. Carried(c) = Cardinality(Carrying(c)) /\ Carried(c)' = Cardinality(Carrying(c)')
  BY DEF Carried
<1>5. Packets(c) \in Nat /\ Packets(c)' \in Nat
  BY <1>3, <1>4 DEF Packets
<1> QED
  BY <1>2, <1>3, <1>4, <1>5

Held(c) == Live(c) /\ c \notin SelfDoomed

\* Requests go away: no packet more is carried or held.
LEMMA FewerPackets ==
    ASSUME NEW c, Carrying(c)' \in SUBSET Carrying(c), Returning(c)' \in SUBSET Returning(c),
           Held(c)' => Held(c)
    PROVE  Carried(c)' <= Carried(c) /\ Packets(c)' <= Packets(c)
<1>1. Cardinality(Carrying(c)') <= Cardinality(Carrying(c))
      /\ Cardinality(Returning(c)') <= Cardinality(Returning(c))
  BY PacketTypes, FS_Subset
<1>2. Carried(c)' <= Carried(c)
  BY <1>1 DEF Carried
<1>3. Carried(c) \in Nat /\ Carried(c)' \in Nat /\ Cardinality(Returning(c)) \in Nat
      /\ Cardinality(Returning(c)') \in Nat
  BY PacketTypes
<1>4. Packets(c) = Carried(c) + Cardinality(Returning(c)) + (IF Held(c) THEN 1 ELSE 0)
  BY DEF Packets, Held
<1>5. Packets(c)' = Carried(c)' + Cardinality(Returning(c)') + (IF Held(c)' THEN 1 ELSE 0)
  BY DEF Packets, Held
<1> QED
  BY <1>1, <1>2, <1>3, <1>4, <1>5

\* No packet more is out, and none more is carried.
LEMMA NoMoreOut ==
    ASSUME NEW out \in [Offering -> Nat], UnitsInv(out),
           \A d \in Offering : Carried(d)' <= Carried(d) /\ Packets(d)' <= Packets(d)
    PROVE  /\ \A d \in Offering : CoversKept(out, out, d) /\ SpareKept(out, out, d)
           /\ Backed(out)'
<1>1. ASSUME NEW d \in Offering
      PROVE  CoversKept(out, out, d) /\ SpareKept(out, out, d) /\ Packets(d)' <= out[d]
  <2>1. /\ Carried(d) \in Nat /\ Carried(d)' \in Nat /\ Packets(d) \in Nat /\ Packets(d)' \in Nat
        /\ out[d] \in Nat
    BY PacketTypes
  <2>2. Packets(d) <= out[d]
    BY DEF UnitsInv, Backed
  <2>3. CoversKept(out, out, d)
    BY <2>1 DEF CoversKept, Covers
  <2>4. SpareKept(out, out, d)
    BY <2>1 DEF SpareKept, Spare
  <2> QED
    BY <2>1, <2>2, <2>3, <2>4
<1> QED
  BY <1>1 DEF Backed, Offering

\* A step that moves no packet into the lineup or out of it.
LEMMA SameOut ==
    ASSUME NEW out \in [Offering -> Nat], UnitsInv(out), UNCHANGED items,
           \A c \in Offering : Carried(c)' <= Carried(c) /\ Packets(c)' <= Packets(c)
    PROVE  TokensKept(out, out) /\ Balance(out)' /\ Backed(out)' /\ RowsMove
<1>1. TokensKept(out, out) /\ Backed(out)'
  BY NoMoreOut DEF TokensKept
<1>2. Balance(out)'
  BY DEF UnitsInv, Balance, UnitsOut, OfferingOf, Offering, Stacked
<1> QED
  BY <1>1, <1>2 DEF RowsMove

\* A seller's request moves on: what it carries after.
LEMMA CarryingMoves ==
    ASSUME Inv, NEW k \in Callers, NEW s, Caller(k, s), NEW c
    PROVE  Carrying(c)' = IF s.pc = "offer" /\ s.cmd = c THEN Carrying(c) \cup {k} ELSE Carrying(c) \ {k}
<1>1. call'[k] = s /\ \A j \in Callers \ {k} : call'[j] = call[j]
  BY DEF Inv, Caller
<1> QED
  BY <1>1 DEF Carrying, At

\* What is doomed stays so while the rollback that removes it is not the one that moves.
LEMMA DoomedKept ==
    ASSUME Inv, RecordsKeep, NEW k, call[k].pc # "remove",
           \A j \in Callers \ {k} : call'[j] = call[j]
    PROVE  SelfDoomed \in SUBSET SelfDoomed'
<1> SUFFICES ASSUME NEW c \in SelfDoomed PROVE c \in SelfDoomed'
  OBVIOUS
<1>1. PICK j \in Callers : call[j].pc = "remove" /\ call[j].audit = c /\ c \in audits[c].minted
  BY DEF SelfDoomed, At
<1>2. c \in Commands /\ c \in AuditIds /\ audits[c] # NoAudit
  BY <1>1 DEF SelfDoomed, AuditIds, Inv, CallInv, RollbackInv
<1>3. call'[j] = call[j] /\ audits'[c].minted = audits[c].minted
  BY <1>1, <1>2 DEF RecordsKeep
<1> QED
  BY <1>1, <1>2, <1>3 DEF SelfDoomed, At

LEMMA RecordsUntouched ==
    ASSUME UNCHANGED audits
    PROVE  RecordsKeep
  BY DEF RecordsKeep

LEMMA OffersUntouched ==
    ASSUME UNCHANGED offers, NEW new
    PROVE  OffersMove(new) /\ OffersSteady
  BY DEF OffersMove, OffersSteady
-----------------------------------------------------------------------------
(***************************************************************************)
(* Steps of a seller's request that write no store.                        *)
(***************************************************************************)
LEMMA QuietStep ==
    ASSUME Inv, Inv', NEW out \in [Offering -> Nat], UnitsInv(out),
           NEW k \in Callers, NEW s, Caller(k, s), UNCHANGED <<items, offers, audits, client>>,
           call[k].pc # "remove", s.pc \notin {"offer", "audit", "remove", "note"},
           s.pc = "undo" => \A b \in Clients : client[b] = Idle,
           \A c \in Commands : s.pc = "write" /\ s.cmd = c => ApplyUnits(out, call[k], c)'
    PROVE  UnitsInv(out)'
<1>1. RecordsKeep /\ OffersMove(out) /\ OffersSteady
  BY RecordsUntouched, OffersUntouched
<1>2. \A j \in Callers \ {k} : call'[j] = call[j]
  BY DEF Inv, Caller
<1>3. SelfDoomed \in SUBSET SelfDoomed'
  BY <1>1, <1>2, DoomedKept
<1>4. ASSUME NEW c \in Offering PROVE Carried(c)' <= Carried(c) /\ Packets(c)' <= Packets(c)
  <2>1. Carrying(c)' \in SUBSET Carrying(c)
    BY CarryingMoves
  <2>2. Returning(c)' \in SUBSET Returning(c)
    BY DEF Returning
  <2>3. Held(c)' => Held(c)
    BY <1>3 DEF Held, Live
  <2> QED
    BY <2>1, <2>2, <2>3, FewerPackets
<1>5. TokensKept(out, out) /\ Balance(out)' /\ Backed(out)' /\ RowsMove
  BY <1>4, SameOut
<1>6. Frame(out, out)
  BY <1>1, <1>5 DEF Frame
<1> QED
  BY <1>1, <1>5, <1>6, SellerStep

\* The rows a command is about to write are those it read, with the units taken off.
LEMMA ChangesUnits ==
    ASSUME LineupInv, NEW c \in Commands, Allowed(Action[c], items)
    PROVE  LET p == Action[c].product
               changes == Changes(Action[c], items)
           IN  /\ p \in DOMAIN changes
               /\ \A r \in DOMAIN changes :
                    /\ changes[r].version = items[r].version
                    /\ items[r].qty = changes[r].qty + (IF r = p THEN Takes(c) ELSE 0)
<1> DEFINE a == Action[c]
           p == a.product
           changes == Changes(a, items)
           row == items[p]
<1> SUFFICES /\ p \in DOMAIN changes
             /\ \A r \in DOMAIN changes :
                  /\ changes[r].version = items[r].version
                  /\ items[r].qty = changes[r].qty + (IF r = p THEN Takes(c) ELSE 0)
  OBVIOUS
<1>1. /\ p \in Products /\ a.to \in Products /\ a.kind \in Kinds /\ a.quantity \in Nat
      /\ \A r \in Products : items[r] \in Item /\ items[r].qty \in Nat
  BY ActionAssumption DEF Actions, LineupInv, Item
<1>2. c \in Offering <=> a.kind = "targeted-offer"
  BY DEF Offering
<1>3. ASSUME NEW new, changes = [q \in {p} |-> new], new.version = row.version,
             row.qty = new.qty + Takes(c)
      PROVE  /\ p \in DOMAIN changes
             /\ \A r \in DOMAIN changes :
                    /\ changes[r].version = items[r].version
                    /\ items[r].qty = changes[r].qty + (IF r = p THEN Takes(c) ELSE 0)
  <2> HIDE DEF changes
  <2> QED
    BY <1>3
<1>4. CASE a.kind = "targeted-offer"
  <2> DEFINE new == [row EXCEPT !.qty = @ - a.quantity]
  <2>1. changes = [q \in {p} |-> new]
    BY <1>4 DEF Changes
  <2>2. a.quantity <= row.qty
    BY <1>4 DEF Allowed
  <2>3. new.version = row.version /\ row.qty = new.qty + a.quantity
    BY <1>1, <2>2 DEF Item
  <2>4. Takes(c) = a.quantity
    BY <1>2, <1>4 DEF Takes
  <2> QED
    BY <1>3, <2>1, <2>3, <2>4
<1>5. CASE a.kind # "targeted-offer"
  <2>1. Takes(c) = 0
    BY <1>2, <1>5 DEF Takes
  <2>2. CASE a.kind = "markdown"
    <3> DEFINE new == [row EXCEPT !.price = a.price]
    <3>1. changes = [q \in {p} |-> new]
      BY <2>2 DEF Changes
    <3>2. new.version = row.version /\ row.qty = new.qty + 0
      BY <1>1 DEF Item
    <3> QED
      BY <1>3, <2>1, <3>1, <3>2
  <2>3. CASE a.kind = "price-adjust"
    <3> DEFINE new == [row EXCEPT !.price = a.price,
                                  !.listed = IF a.quantity = 0 THEN @ ELSE a.quantity]
    <3>1. changes = [q \in {p} |-> new]
      BY <2>3 DEF Changes
    <3>2. new.version = row.version /\ row.qty = new.qty + 0
      BY <1>1 DEF Item
    <3> QED
      BY <1>3, <2>1, <3>1, <3>2
  <2>4. CASE a.kind = "stock-adjust"
    <3> DEFINE new == [row EXCEPT !.listed = a.quantity]
    <3>1. changes = [q \in {p} |-> new]
      BY <2>4 DEF Changes
    <3>2. new.version = row.version /\ row.qty = new.qty + 0
      BY <1>1 DEF Item
    <3> QED
      BY <1>3, <2>1, <3>1, <3>2
  <2>5. ASSUME NEW r \in Products, NEW st
        PROVE  /\ [items[r] EXCEPT !.stage = st].version = items[r].version
               /\ items[r].qty = [items[r] EXCEPT !.stage = st].qty + (IF r = p THEN Takes(c) ELSE 0)
    BY <1>1, <2>1 DEF Item
  <2>6. CASE a.kind = "push"
    <3>1. changes = [q \in OnStage(items) \cup {p} |->
                       [items[q] EXCEPT !.stage = IF q = p THEN "on-stage" ELSE "queued"]]
      BY <2>6 DEF Changes
    <3>2. OnStage(items) \cup {p} \in SUBSET Products
      BY <1>1 DEF OnStage
    <3> HIDE DEF changes
    <3>3. DOMAIN changes = OnStage(items) \cup {p}
      BY <3>1
    <3>4. ASSUME NEW r \in DOMAIN changes
          PROVE  /\ changes[r].version = items[r].version
                 /\ items[r].qty = changes[r].qty + (IF r = p THEN Takes(c) ELSE 0)
      <4>1. PICK st : st = IF r = p THEN "on-stage" ELSE "queued"
        OBVIOUS
      <4>2. r \in Products /\ changes[r] = [items[r] EXCEPT !.stage = st]
        BY <3>2, <3>1, <3>3, <4>1
      <4> QED
        BY <2>5, <4>2
    <3> QED
      BY <3>3, <3>4
  <2>7. CASE a.kind = "swap"
    <3>1. changes = [q \in {p, a.to} |->
                       [items[q] EXCEPT !.stage = IF q = a.to THEN "on-stage" ELSE "queued"]]
      BY <2>7 DEF Changes
    <3> HIDE DEF changes
    <3>3. DOMAIN changes = {p, a.to}
      BY <3>1
    <3>4. ASSUME NEW r \in DOMAIN changes
          PROVE  /\ changes[r].version = items[r].version
                 /\ items[r].qty = changes[r].qty + (IF r = p THEN Takes(c) ELSE 0)
      <4>1. PICK st : st = IF r = a.to THEN "on-stage" ELSE "queued"
        OBVIOUS
      <4>2. r \in Products /\ changes[r] = [items[r] EXCEPT !.stage = st]
        BY <1>1, <3>1, <3>3, <4>1
      <4> QED
        BY <2>5, <4>2
    <3> QED
      BY <3>3, <3>4
  <2> QED
    BY <1>1, <1>5, <2>2, <2>3, <2>4, <2>6, <2>7 DEF Kinds
<1> QED
  BY <1>4, <1>5

LEMMA UnitsListed ==
    ASSUME Inv, Inv', NEW out \in [Offering -> Nat], UnitsInv(out), NEW k \in Callers, ApplyList(k)
    PROVE  UnitsInv(out)'
<1>0. PICK c : c = call[k].cmd
  OBVIOUS
<1> DEFINE a == Action[c]
           p == a.product
<1>1. call[k].pc = "list" /\ c \in Commands /\ UNCHANGED <<items, offers, audits, client>>
  BY <1>0 DEF ApplyList, At, Inv, CallInv, ApplyInv
<1>2. CASE Caller(k, Idle)
  <2>1. Idle.pc = "idle"
    BY DEF Idle
  <2> QED
    BY <1>1, <1>2, <2>1, QuietStep
<1>3. CASE ~ Caller(k, Idle)
  <2> DEFINE changes == Changes(a, items)
             known == Existing(p)
  <2>1. PICK s : s = [pc |-> "write", cmd |-> c, changes |-> changes,
                      before |-> items[p], known |-> known]
    OBVIOUS
  <2>2. Caller(k, s) /\ Allowed(a, items)
    BY <1>0, <1>3, <2>1 DEF ApplyList
  <2>3. call'[k] = s
    BY <2>2 DEF Inv, Caller
  <2>4. /\ p \in DOMAIN changes
        /\ \A r \in DOMAIN changes :
             /\ changes[r].version = items[r].version
             /\ items[r].qty = changes[r].qty + (IF r = p THEN Takes(c) ELSE 0)
    BY <1>1, <2>2, ChangesUnits DEF Inv
  <2>5. /\ s.pc = "write" /\ s.cmd = c /\ s.changes = changes /\ s.before = items[p] /\ s.known = known
    BY <2>1
  <2>6. DOMAIN changes \in SUBSET Products /\ \A r \in Products : items[r].version \in Nat
    <3>1. Action[c] \in Actions
      BY <1>1, ActionAssumption
    <3> QED
      BY <2>2, <3>1, ChangesForm, RowTypes DEF Inv, ChangesOK
  <2> HIDE DEF changes
  <2>7. \A r \in DOMAIN changes : Seen(r, changes[r], IF r = p THEN Takes(c) ELSE 0)
    BY <2>4, <2>6 DEF Seen
  <2>8. \A d \in Commands : Action[d].product = p /\ offers'[d] # NoOffer => d \in known
    BY <1>1 DEF Existing
  <2>9. c \in known => offers[c] # NoOffer
    BY DEF Existing
  <2> HIDE DEF known
  <2>10. ApplyUnits(out, call[k], c)'
    BY <1>1, <2>3, <2>4, <2>5, <2>7, <2>8, <2>9
       DEF ApplyUnits, Seen, NewOnesCovered, Existing, Takes, Offering, NoOffer
  <2> QED
    BY <1>1, <2>2, <2>5, <2>10, QuietStep
<1> QED
  BY <1>2, <1>3

\* The command is taken up, a rollback passes its checks, a request is refused or dies.
LEMMA UnitsQuiet ==
    ASSUME Inv, Inv', Orderly, NEW out \in [Offering -> Nat], UnitsInv(out), NEW k \in Callers,
           \/ \E c \in Commands : ApplyFind(k, c)
           \/ \E a \in AuditIds : RollbackCheck(k, a)
           \/ CallerDies(k)
           \/ (ApplyWrite(k) \/ RollbackWrite(k)) /\ Caller(k, Idle) /\ UNCHANGED items
    PROVE  UnitsInv(out)'
<1>1. UNCHANGED <<items, offers, audits, client>>
  BY DEF ApplyFind, RollbackCheck, CallerDies, ApplyWrite, RollbackWrite
<1>2. call[k].pc # "remove"
  BY DEF ApplyFind, RollbackCheck, CallerDies, ApplyWrite, RollbackWrite, At, RollingBack
<1>3. PICK s : /\ Caller(k, s) /\ s.pc \notin {"offer", "audit", "remove", "note", "write"}
               /\ s.pc = "undo" => \A b \in Clients : client[b] = Idle
  <2>1. CASE \E c \in Commands : ApplyFind(k, c)
    <3>1. PICK c \in Commands : Caller(k, [pc |-> "list", cmd |-> c])
      BY <2>1 DEF ApplyFind
    <3> QED
      BY <3>1
  <2>2. CASE \E a \in AuditIds : RollbackCheck(k, a)
    <3>1. PICK a \in AuditIds : /\ Caller(k, [pc |-> "undo", audit |-> a, current |-> items[audits[a].product]])
                                /\ \A b \in Clients : client[b] = Idle
      BY <2>2 DEF RollbackCheck
    <3> QED
      BY <3>1
  <2>3. CASE Caller(k, Idle)
    BY <2>3 DEF Idle
  <2> QED
    BY <2>1, <2>2, <2>3 DEF CallerDies
<1> QED
  BY <1>1, <1>2, <1>3, QuietStep
-----------------------------------------------------------------------------
(***************************************************************************)
(* Steps that write the lineup.                                            *)
(***************************************************************************)
LEMMA WriteRows ==
    ASSUME Inv, NEW changes, ChangesOK(changes), Writable(changes), items' = Projected(changes)
    PROVE  /\ RowsMove
           /\ \A r \in Products \ DOMAIN changes : items'[r] = items[r]
           /\ \A r \in DOMAIN changes :
                /\ items[r].version = changes[r].version /\ items[r].version < items'[r].version
                /\ items'[r].qty = changes[r].qty
<1>1. LineupInv
  BY DEF Inv
<1>2. \A r \in DOMAIN changes :
        items[r].version = changes[r].version /\ items[r].version < items'[r].version
  BY <1>1, WriteForm
<1>3. \A r \in Products \ DOMAIN changes : items'[r] = items[r]
  BY DEF Projected
<1>4. ASSUME NEW r \in DOMAIN changes PROVE items'[r].qty = changes[r].qty
  <2>1. changes[r] \in Item /\ r \in Products
    BY DEF ChangesOK
  <2>2. items'[r] = [changes[r] EXCEPT !.version = @ + 1]
    BY <2>1 DEF Projected
  <2> QED
    BY <2>1, <2>2 DEF Item
<1>5. RowsMove
  BY <1>2, <1>3 DEF RowsMove
<1> QED
  BY <1>2, <1>3, <1>4, <1>5

LEMMA PacketsBound ==
    ASSUME NEW c, Held(c)' => Held(c), NEW n \in Int, NEW m \in Int,
           Carried(c)' <= Carried(c) + n,
           Cardinality(Returning(c)') <= Cardinality(Returning(c)) + m
    PROVE  Packets(c)' <= Packets(c) + n + m
<1>1. Carried(c) \in Nat /\ Carried(c)' \in Nat /\ Cardinality(Returning(c)) \in Nat
      /\ Cardinality(Returning(c)') \in Nat
  BY PacketTypes
<1>2. Packets(c) = Carried(c) + Cardinality(Returning(c)) + (IF Held(c) THEN 1 ELSE 0)
  BY DEF Packets, Held
<1>3. Packets(c)' = Carried(c)' + Cardinality(Returning(c)') + (IF Held(c)' THEN 1 ELSE 0)
  BY DEF Packets, Held
<1> QED
  BY <1>1, <1>2, <1>3

\* One packet more is out, and at most one more is carried.
LEMMA OneMoreOut ==
    ASSUME NEW out \in [Offering -> Nat], UnitsInv(out), NEW c \in Offering,
           NEW new \in [Offering -> Nat], OneMore(out, new, c),
           Carried(c)' <= Carried(c) + 1, Packets(c)' <= Packets(c) + 1,
           \A d \in Offering \ {c} : Carried(d)' <= Carried(d) /\ Packets(d)' <= Packets(d)
    PROVE  /\ \A d \in Offering : CoversKept(out, new, d) /\ SpareKept(out, new, d)
           /\ Backed(new)'
<1>1. ASSUME NEW d \in Offering
      PROVE  CoversKept(out, new, d) /\ SpareKept(out, new, d) /\ Packets(d)' <= new[d]
  <2>1. /\ Carried(d) \in Nat /\ Carried(d)' \in Nat /\ Packets(d) \in Nat /\ Packets(d)' \in Nat
        /\ out[d] \in Nat /\ new[d] \in Nat
    BY PacketTypes
  <2>2. Packets(d) <= out[d]
    BY DEF UnitsInv, Backed
  <2>3. PICK n \in Nat : new[d] = out[d] + n /\ Carried(d)' <= Carried(d) + n /\ Packets(d)' <= Packets(d) + n
    <3>1. CASE d = c
      BY <2>1, <3>1 DEF OneMore
    <3>2. CASE d # c
      BY <2>1, <3>2 DEF OneMore
    <3> QED
      BY <3>1, <3>2
  <2>4. CoversKept(out, new, d)
    BY <2>1, <2>3 DEF CoversKept, Covers
  <2>5. SpareKept(out, new, d)
    BY <2>1, <2>3 DEF SpareKept, Spare
  <2> QED
    BY <2>1, <2>2, <2>3, <2>4, <2>5
<1> QED
  BY <1>1 DEF Backed, Offering

\* The lineup loses, or gets back, one packet of c.
LEMMA BalanceOut ==
    ASSUME Inv, Inv', NEW out \in [Offering -> Nat], Balance(out), NEW c \in Offering,
           NEW new \in [Offering -> Nat],
           \A p \in Products \ {Action[c].product} : items'[p].qty = items[p].qty,
           \/ /\ OneMore(out, new, c)
              /\ items[Action[c].product].qty = items'[Action[c].product].qty + Action[c].quantity
           \/ /\ OneMore(new, out, c)
              /\ items'[Action[c].product].qty = items[Action[c].product].qty + Action[c].quantity
    PROVE  Balance(new)'
<1>1. ASSUME NEW p \in Products PROVE items'[p].qty + Cardinality(UnitsOut(new, p)) = Quantity[p]
  <2>1. items[p].qty + Cardinality(UnitsOut(out, p)) = Quantity[p]
    BY DEF Balance
  <2>2. Action[c].quantity \in Nat /\ items[p].qty \in Nat /\ items'[p].qty \in Nat
    BY OfferingTypes DEF Inv, LineupInv, Item
  <2>3. CASE OneMore(out, new, c) /\
             items[Action[c].product].qty = items'[Action[c].product].qty + Action[c].quantity
    <3>1. PICK n \in Nat :
            /\ n = IF p = Action[c].product THEN Action[c].quantity ELSE 0
            /\ Cardinality(UnitsOut(out, p)) \in Nat
            /\ Cardinality(UnitsOut(new, p)) = Cardinality(UnitsOut(out, p)) + n
      BY <2>3, PacketOut
    <3>2. items[p].qty = items'[p].qty + n
      BY <2>2, <2>3, <3>1
    <3>4. PICK before, after : before = Cardinality(UnitsOut(out, p)) /\ after = Cardinality(UnitsOut(new, p))
      OBVIOUS
    <3>5. before \in Nat /\ after = before + n /\ items[p].qty = items'[p].qty + n
      BY <3>1, <3>2, <3>4
    <3>6. items'[p].qty + after = items[p].qty + before
      BY <2>2, <3>5
    <3> QED
      BY <2>1, <3>4, <3>6
  <2>4. CASE OneMore(new, out, c) /\
             items'[Action[c].product].qty = items[Action[c].product].qty + Action[c].quantity
    <3>1. PICK n \in Nat :
            /\ n = IF p = Action[c].product THEN Action[c].quantity ELSE 0
            /\ Cardinality(UnitsOut(new, p)) \in Nat
            /\ Cardinality(UnitsOut(out, p)) = Cardinality(UnitsOut(new, p)) + n
      BY <2>4, PacketOut
    <3>2. items'[p].qty = items[p].qty + n
      BY <2>2, <2>4, <3>1
    <3>4. PICK before, after : before = Cardinality(UnitsOut(out, p)) /\ after = Cardinality(UnitsOut(new, p))
      OBVIOUS
    <3>5. after \in Nat /\ before = after + n /\ items'[p].qty = items[p].qty + n
      BY <3>1, <3>2, <3>4
    <3>6. items'[p].qty + after = items[p].qty + before
      BY <2>2, <3>5
    <3> QED
      BY <2>1, <3>4, <3>6
  <2> QED
    BY <2>3, <2>4
<1> QED
  BY <1>1 DEF Balance, UnitsOut, OfferingOf, Offering, Stacked

LEMMA BalanceSame ==
    ASSUME NEW out, Balance(out), \A p \in Products : items'[p].qty = items[p].qty
    PROVE  Balance(out)'
  BY DEF Balance, UnitsOut, OfferingOf, Offering, Stacked

LEMMA UnitsWritten ==
    ASSUME Inv, Inv', NEW out \in [Offering -> Nat], UnitsInv(out), NEW k \in Callers, ApplyWrite(k),
           Writable(call[k].changes)
    PROVE  \E new \in [Offering -> Nat] : UnitsInv(new)'
<1>0. PICK c, before, known : c = call[k].cmd /\ before = call[k].before /\ known = call[k].known
  OBVIOUS
<1>1. PICK changes : changes = call[k].changes
  OBVIOUS
<1> DEFINE p == Action[c].product
<1>2. PICK after : after = items'[p]
  OBVIOUS
<1>3. PICK s : s = [pc |-> IF c \in Offering THEN "offer" ELSE "audit",
                    cmd |-> c, before |-> before, after |-> after, known |-> known]
  OBVIOUS
<1>4. /\ call[k].pc = "write" /\ c \in Commands /\ ChangesOK(changes) /\ before \in Item
      /\ p \in Products
  BY <1>0, <1>1, OfferingTypes DEF ApplyWrite, At, Inv, CallInv, ApplyInv
<1>5. items' = Projected(changes) /\ Caller(k, s) /\ UNCHANGED <<offers, audits, client>>
  BY <1>0, <1>1, <1>2, <1>3, <1>4 DEF ApplyWrite, Offering
<1>6. /\ RowsMove
      /\ \A r \in Products \ DOMAIN changes : items'[r] = items[r]
      /\ \A r \in DOMAIN changes :
           /\ items[r].version = changes[r].version /\ items[r].version < items'[r].version
           /\ items'[r].qty = changes[r].qty
  BY <1>1, <1>4, <1>5, WriteRows
<1>7. /\ p \in DOMAIN changes /\ before.version = changes[p].version
      /\ before.qty = changes[p].qty + Takes(c)
      /\ \A r \in DOMAIN changes : Seen(r, changes[r], IF r = p THEN Takes(c) ELSE 0)
      /\ NewOnesCovered(out, p, before, known)
      /\ c \in Offering \cap known => audits[c] # NoAudit \/ offers[c] # NoOffer \/ Spare(out, c)
  <2>1. ApplyUnits(out, call[k], c)
    BY <1>0, <1>4 DEF UnitsInv
  <2> QED
    BY <1>0, <1>1, <1>4, <2>1 DEF ApplyUnits
<1>8. /\ \A r \in Products : items[r].qty \in Nat /\ items'[r].qty \in Nat /\ items'[r].version \in Nat
      /\ Takes(c) \in Nat /\ DOMAIN changes \in SUBSET Products
  BY <1>4, OfferingTypes DEF Inv, LineupInv, Item, ChangesOK
<1>9. items[p].qty = items'[p].qty + Takes(c) /\ \A r \in Products \ {p} : items'[r].qty = items[r].qty
  <2>1. ASSUME NEW r \in DOMAIN changes
        PROVE  items[r].qty = items'[r].qty + (IF r = p THEN Takes(c) ELSE 0)
    BY <1>6, <1>7 DEF Seen
  <2>2. items[p].qty = items'[p].qty + Takes(c)
    BY <1>7, <2>1
  <2>3. ASSUME NEW r \in Products \ {p} PROVE items'[r].qty = items[r].qty
    <3>1. CASE r \in DOMAIN changes
      BY <1>8, <2>1, <2>3, <3>1
    <3>2. CASE r \notin DOMAIN changes
      BY <1>6, <3>2
    <3> QED
      BY <3>1, <3>2
  <2> QED
    BY <2>2, <2>3
<1>10. /\ s.pc \in {"offer", "audit"} /\ (s.pc = "offer" <=> c \in Offering) /\ s.cmd = c
       /\ s.before = before /\ s.after = after /\ s.known = known /\ call'[k] = s
  <2>1. call'[k] = s
    BY <1>5 DEF Inv, Caller
  <2> QED
    BY <1>3, <2>1
<1>11. RecordsKeep /\ OffersSteady /\ \A new : OffersMove(new)
  BY <1>5, RecordsUntouched, OffersUntouched
<1>12. \A d : Held(d)' => Held(d)
  <2>1. \A j \in Callers \ {k} : call'[j] = call[j]
    BY <1>5 DEF Inv, Caller
  <2>2. SelfDoomed \in SUBSET SelfDoomed'
    BY <1>4, <1>11, <2>1, DoomedKept
  <2> QED
    BY <1>5, <2>2 DEF Held, Live
<1>13. ASSUME NEW d, ~ (d = c /\ c \in Offering)
       PROVE  Carried(d)' <= Carried(d) /\ Packets(d)' <= Packets(d)
  <2>1. Carrying(d)' \in SUBSET Carrying(d)
    BY <1>5, <1>10, <1>13, CarryingMoves
  <2>2. Returning(d)' \in SUBSET Returning(d)
    BY <1>5 DEF Returning
  <2> QED
    BY <1>12, <2>1, <2>2, FewerPackets
<1>14. PICK new \in [Offering -> Nat] :
         /\ \A d \in Offering : CoversKept(out, new, d) /\ SpareKept(out, new, d)
         /\ Backed(new)' /\ Balance(new)'
  <2>1. CASE c \in Offering
    <3>1. Takes(c) = Action[c].quantity
      BY <2>1, OfferingTypes
    <3>2. PICK new \in [Offering -> Nat] : OneMore(out, new, c)
      <4>1. [out EXCEPT ![c] = out[c] + 1] \in [Offering -> Nat]
        BY <2>1
      <4> QED
        BY <4>1 DEF OneMore
    <3>3. Carried(c)' <= Carried(c) + 1
      <4>1. Carrying(c)' = Carrying(c) \cup {k}
        BY <1>5, <1>10, <2>1, CarryingMoves
      <4>2. Cardinality(Carrying(c) \cup {k}) <= Cardinality(Carrying(c)) + 1
        <5>1. IsFiniteSet(Carrying(c)) /\ Cardinality(Carrying(c)) \in Nat
          BY PacketTypes, FS_CardinalityType
        <5>2. Cardinality(Carrying(c) \cup {k}) =
                IF k \in Carrying(c) THEN Cardinality(Carrying(c)) ELSE Cardinality(Carrying(c)) + 1
          BY <5>1, FS_AddElement
        <5> QED
          BY <5>1, <5>2
      <4> QED
        BY <4>1, <4>2 DEF Carried
    <3>4. Packets(c)' <= Packets(c) + 1
      <4>1. Returning(c)' = Returning(c)
        BY <1>5 DEF Returning
      <4>2. Cardinality(Returning(c)') <= Cardinality(Returning(c)) + 0
        BY <4>1, PacketTypes
      <4>3. Packets(c)' <= Packets(c) + 1 + 0
        BY <1>12, <3>3, <4>2, PacketsBound
      <4> QED
        BY <4>3, PacketTypes
    <3>5. Balance(out)
      BY DEF UnitsInv
    <3>6. Balance(new)'
      BY <1>9, <2>1, <3>1, <3>2, <3>5, BalanceOut
    <3>7. (\A d \in Offering : CoversKept(out, new, d) /\ SpareKept(out, new, d)) /\ Backed(new)'
      BY <1>13, <2>1, <3>2, <3>3, <3>4, OneMoreOut
    <3> QED
      BY <3>6, <3>7
  <2>2. CASE c \notin Offering
    <3>1. Takes(c) = 0
      BY <2>2 DEF Takes
    <3>2. \A r \in Products : items'[r].qty = items[r].qty
      BY <1>4, <1>8, <1>9, <3>1
    <3>3. Balance(out)'
      BY <3>2, BalanceSame DEF UnitsInv
    <3>4. \A d \in Offering : Carried(d)' <= Carried(d) /\ Packets(d)' <= Packets(d)
      BY <1>13, <2>2
    <3>5. (\A d \in Offering : CoversKept(out, out, d) /\ SpareKept(out, out, d)) /\ Backed(out)'
      BY <3>4, NoMoreOut
    <3> QED
      BY <3>3, <3>5
  <2> QED
    BY <2>1, <2>2
<1>15. Frame(out, new)
  BY <1>6, <1>11, <1>14 DEF Frame, TokensKept
<1>16. ApplyUnits(new, call[k], c)'
  <2>1. before.qty = after.qty + Takes(c) /\ after.version = items'[p].version
    BY <1>2, <1>6, <1>7
  <2>2. after.version <= items'[p].version /\ items'[p].qty = after.qty + 0
    BY <1>2, <1>4, <1>8, <2>1
  <2>3. ASSUME NEW d \in Commands, Action[d].product = p, offers'[d] # NoOffer, d \notin known
        PROVE  Covers(new, d)'
    <3>1. offers[d] # NoOffer /\ d \in Offering
      BY <1>5, <2>3 DEF UnitsInv
    <3>2. Covers(out, d)
      BY <1>6, <1>7, <2>3, <3>1 DEF NewOnesCovered, Existing
    <3> QED
      BY <1>14, <3>1, <3>2 DEF CoversKept
  <2>4. c \in Offering \cap known => audits'[c] # NoAudit \/ offers'[c] # NoOffer \/ Spare(new, c)'
    BY <1>5, <1>7, <1>14 DEF SpareKept
  <2> QED
    BY <1>10, <2>1, <2>2, <2>3, <2>4
       DEF ApplyUnits, Seen, NewOnesCovered, Existing, Takes, Offering, NoOffer, NoAudit
<1>17. UnitsInv(new)'
  BY <1>5, <1>10, <1>11, <1>14, <1>15, <1>16, SellerStep
<1> QED
  BY <1>17
-----------------------------------------------------------------------------
(***************************************************************************)
(* Steps that write the offers and the audits.                             *)
(***************************************************************************)
LEMMA UnitsOffered ==
    ASSUME Inv, Inv', NEW out \in [Offering -> Nat], UnitsInv(out), NEW k \in Callers, ApplyOffer(k)
    PROVE  UnitsInv(out)'
<1>0. PICK c, before, after, known :
        c = call[k].cmd /\ before = call[k].before /\ after = call[k].after /\ known = call[k].known
  OBVIOUS
<1>1. PICK s : s = [call[k] EXCEPT !.pc = "audit"]
  OBVIOUS
<1> DEFINE p == Action[c].product
<1>2. call[k].pc = "offer" /\ c \in Commands /\ call[k] \in Written /\ ApplyUnits(out, call[k], c)
  BY <1>0 DEF ApplyOffer, At, Inv, CallInv, ApplyInv, UnitsInv
<1>3. c \in Offering /\ p \in Products /\ after \in Item
  BY <1>0, <1>2, OfferingTypes DEF ApplyUnits, Written
<1>4. Caller(k, s) /\ UNCHANGED <<items, audits, client>>
  BY <1>1 DEF ApplyOffer
<1>5. /\ call'[k] = s /\ s.pc = "audit" /\ s.cmd = c /\ s.before = before /\ s.after = after
      /\ s.known = known /\ \A j \in Callers \ {k} : call'[j] = call[j]
  <2>1. call'[k] = s /\ \A j \in Callers \ {k} : call'[j] = call[j]
    BY <1>4 DEF Inv, Caller
  <2> QED
    BY <1>0, <1>1, <1>2, <2>1 DEF Written
<1>6. /\ offers[c] = NoOffer => offers'[c] = [status |-> "pending", version |-> 1]
      /\ offers[c] # NoOffer => offers'[c] = offers[c]
      /\ \A d \in Commands \ {c} : offers'[d] = offers[d]
  BY <1>0, <1>2 DEF ApplyOffer, Inv, OffersInv
<1>7. SelfDoomed \in SUBSET SelfDoomed'
  BY <1>2, <1>4, <1>5, DoomedKept, RecordsUntouched
<1>8. /\ Carried(c) \in Nat /\ Carried(c)' \in Nat /\ Packets(c) \in Nat /\ Packets(c)' \in Nat
      /\ out[c] \in Nat /\ Cardinality(Returning(c)) \in Nat
  BY <1>3, PacketTypes
<1>9. Carried(c)' = Carried(c) - 1
  <2>1. Carrying(c)' = Carrying(c) \ {k} /\ k \in Carrying(c)
    BY <1>0, <1>2, <1>4, <1>5, CarryingMoves DEF Carrying, At
  <2>2. IsFiniteSet(Carrying(c))
    BY PacketTypes
  <2>3. Cardinality(Carrying(c) \ {k}) = Cardinality(Carrying(c)) - 1
    BY <2>1, <2>2, FS_RemoveElement
  <2> QED
    BY <2>1, <2>3 DEF Carried
<1>10. Returning(c)' = Returning(c)
  BY <1>4 DEF Returning
<1>11. /\ Packets(c) = Carried(c) + Cardinality(Returning(c)) + (IF Held(c) THEN 1 ELSE 0)
       /\ Packets(c)' = Carried(c)' + Cardinality(Returning(c)) + (IF Held(c)' THEN 1 ELSE 0)
  BY <1>10 DEF Packets, Held
<1>12. Packets(c)' <= Packets(c) /\ (offers[c] # NoOffer => Packets(c)' + 1 <= Packets(c))
  <2>1. CASE offers[c] = NoOffer
    BY <1>8, <1>9, <1>11, <2>1
  <2>2. CASE offers[c] # NoOffer
    <3>1. Held(c)' => Held(c)
      BY <1>6, <1>7, <2>2 DEF Held, Live
    <3> QED
      BY <1>8, <1>9, <1>11, <3>1
  <2> QED
    BY <2>1, <2>2
<1>13. ASSUME NEW d \in Offering PROVE Carried(d)' <= Carried(d) /\ Packets(d)' <= Packets(d)
  <2>1. CASE d = c
    BY <1>8, <1>9, <1>12, <2>1
  <2>2. CASE d # c
    <3>1. Carrying(d)' \in SUBSET Carrying(d)
      BY <1>4, <1>5, CarryingMoves
    <3>2. Returning(d)' \in SUBSET Returning(d)
      BY <1>4 DEF Returning
    <3>3. Held(d)' => Held(d)
      BY <1>6, <1>7, <2>2, OfferingTypes DEF Held, Live
    <3> QED
      BY <3>1, <3>2, <3>3, FewerPackets
  <2> QED
    BY <2>1, <2>2
<1>14. Covers(out, c)'
  <2>1. Packets(c) <= out[c] /\ Carried(c) <= Packets(c)
    BY <1>3, <1>8, <1>11 DEF UnitsInv, Backed
  <2> QED
    BY <1>8, <1>9, <2>1 DEF Covers
<1>15. TokensKept(out, out) /\ Balance(out)' /\ Backed(out)' /\ RowsMove
  BY <1>4, <1>13, SameOut
<1>16. OffersMove(out) /\ OffersSteady
  <2>1. ASSUME NEW d \in Commands
        PROVE  /\ offers[d] # NoOffer => offers'[d] = offers[d]
               /\ offers[d] = NoOffer /\ offers'[d] # NoOffer => d = c
    BY <1>6, <2>1
  <2> QED
    BY <1>3, <1>14, <2>1 DEF OffersMove, OffersSteady
<1>17. Frame(out, out)
  BY <1>4, <1>15, <1>16, RecordsUntouched DEF Frame
<1>18. ApplyUnits(out, call[k], c)'
  <2>1. before.qty = after.qty + Takes(c) /\ Seen(p, after, 0) /\ NewOnesCovered(out, p, after, known)
    BY <1>0, <1>2 DEF ApplyUnits
  <2>2. ASSUME after.version = items'[p].version,
               NEW d \in Commands, Action[d].product = p, offers'[d] # NoOffer, d \notin known
        PROVE  Covers(out, d)'
    BY <1>3, <1>17, <2>1, <2>2, NewOnesKept DEF Seen
  <2>3. ASSUME audits'[c] = NoAudit, c \in known
        PROVE  Spare(out, c)'
    <3>1. CASE offers[c] # NoOffer
      <4>1. Packets(c) <= out[c]
        BY <1>3 DEF UnitsInv, Backed
      <4> QED
        BY <1>8, <1>12, <3>1, <4>1 DEF Spare
    <3>2. CASE offers[c] = NoOffer
      <4>1. Spare(out, c)
        BY <1>0, <1>2, <1>3, <1>4, <2>3, <3>2 DEF ApplyUnits
      <4>2. SpareKept(out, out, c)
        BY <1>3, <1>4, <1>15 DEF TokensKept
      <4> QED
        BY <4>1, <4>2 DEF SpareKept
    <3> QED
      BY <3>1, <3>2
  <2>4. after.version <= items'[p].version /\ (after.version = items'[p].version => items'[p].qty = after.qty + 0)
    BY <1>4, <2>1 DEF Seen
  <2> QED
    BY <1>5, <1>14, <2>1, <2>2, <2>3, <2>4
       DEF ApplyUnits, Seen, NewOnesCovered, Existing, Takes, Offering, NoOffer, NoAudit
<1>19. \A a \in AuditIds : audits[a] = NoAudit => audits'[a] = NoAudit
  BY <1>4
<1> QED
  BY <1>4, <1>5, <1>15, <1>16, <1>17, <1>18, <1>19, SellerStep

LEMMA UnitsAudited ==
    ASSUME Inv, Inv', NEW out \in [Offering -> Nat], UnitsInv(out), NEW k \in Callers, ApplyAudit(k)
    PROVE  UnitsInv(out)'
<1>0. PICK c, before, after, known :
        c = call[k].cmd /\ before = call[k].before /\ after = call[k].after /\ known = call[k].known
  OBVIOUS
<1> DEFINE p == Action[c].product
<1>1. PICK minted, shown : minted = Minted(known, p) /\ shown = OffersOf(p)
  OBVIOUS
<1>2. call[k].pc = "audit" /\ c \in Commands /\ ApplyUnits(out, call[k], c) /\ call[k] \in Written
  BY <1>0 DEF ApplyAudit, At, Inv, CallInv, ApplyInv, UnitsInv
<1>3. p \in Products /\ after \in Item /\ c \in AuditIds
  BY <1>0, <1>2, OfferingTypes DEF Written, AuditIds
<1>4. Caller(k, Idle) /\ UNCHANGED <<items, offers, client>>
  BY DEF ApplyAudit
<1>5. \A a \in AuditIds : a # c \/ audits[c] # NoAudit => audits'[a] = audits[a]
  BY <1>0, <1>3 DEF ApplyAudit, Inv, AuditsInv
<1>6. audits[c] = NoAudit => audits'[c] = AuditRow(p, before, after, shown, minted)
  BY <1>0, <1>1, <1>3 DEF ApplyAudit, AuditRow, Inv, AuditsInv
<1>7. RecordsKeep
  BY <1>5 DEF RecordsKeep
<1>8. OffersMove(out) /\ OffersSteady
  BY <1>4, OffersUntouched
<1>9. \A j \in Callers \ {k} : call'[j] = call[j]
  BY <1>4 DEF Inv, Caller
<1>10. SelfDoomed \in SUBSET SelfDoomed'
  BY <1>2, <1>7, <1>9, DoomedKept
<1>11. Idle.pc = "idle"
  BY DEF Idle
<1>12. ASSUME NEW d \in Offering PROVE Carried(d)' <= Carried(d) /\ Packets(d)' <= Packets(d)
  <2>1. Carrying(d)' \in SUBSET Carrying(d)
    BY <1>4, <1>11, CarryingMoves
  <2>2. Returning(d)' \in SUBSET Returning(d)
    BY <1>4 DEF Returning
  <2>3. Held(d)' => Held(d)
    BY <1>4, <1>10 DEF Held, Live
  <2> QED
    BY <2>1, <2>2, <2>3, FewerPackets
<1>13. TokensKept(out, out) /\ Balance(out)' /\ Backed(out)' /\ RowsMove
  BY <1>4, <1>12, SameOut
<1>14. Frame(out, out)
  BY <1>7, <1>8, <1>13 DEF Frame
<1>15. ASSUME audits[c] = NoAudit PROVE AuditUnits(out, c)'
  <2>1. /\ audits'[c].product = p /\ audits'[c].before = before /\ audits'[c].after = after
        /\ audits'[c].minted = minted
    BY <1>6, <1>15 DEF AuditRow
  <2>2. /\ before.qty = after.qty + Takes(c) /\ Seen(p, after, 0)
        /\ NewOnesCovered(out, p, after, known)
        /\ c \in Offering /\ after.version = items[p].version =>
             Covers(out, c) /\ (c \in known => Spare(out, c))
    BY <1>0, <1>2, <1>15 DEF ApplyUnits
  <2>3. minted \in SUBSET OfferingOf(p)
    BY <1>1 DEF Minted, Existing, UnitsInv, OfferingOf
  <2>4. ASSUME after.version = items[p].version, NEW d \in minted PROVE Covers(out, d)'
    <3>1. Covers(out, d)
      BY <1>1, <2>2, <2>4 DEF NewOnesCovered, Minted
    <3>2. CoversKept(out, out, d)
      BY <1>4, <1>13, <2>3, <2>4 DEF TokensKept, OfferingOf
    <3> QED
      BY <3>1, <3>2 DEF CoversKept
  <2>5. ASSUME after.version = items[p].version, c \in Offering \ minted PROVE Spare(out, c)'
    <3>1. Spare(out, c)
      <4>1. CASE c \in known
        BY <2>2, <2>5, <4>1
      <4>2. CASE c \notin known
        <5>1. offers[c] = NoOffer
          BY <1>1, <1>2, <2>5, <4>2 DEF Minted, Existing
        <5>2. Returning(c) = {}
          BY <5>1 DEF UnitsInv, ClientUnits, Returning
        <5>3. ~ Live(c)
          BY <5>1 DEF Live, NoOffer
        <5>4. Packets(c) = Carried(c) + 0 + 0
          BY <5>2, <5>3, FS_EmptySet DEF Packets
        <5>5. Packets(c) = Carried(c)
          BY <5>4, PacketTypes
        <5> QED
          BY <2>2, <2>5, <5>5 DEF Covers, Spare
      <4> QED
        BY <4>1, <4>2
    <3>2. SpareKept(out, out, c)
      BY <1>4, <1>13, <2>5 DEF TokensKept
    <3> QED
      BY <3>1, <3>2 DEF SpareKept
  <2>6. after.version <= items'[p].version /\ (after.version = items'[p].version => items'[p].qty = after.qty + 0)
    BY <1>4, <2>2 DEF Seen
  <2> QED
    BY <1>2, <1>4, <2>1, <2>2, <2>3, <2>4, <2>5, <2>6
       DEF AuditUnits, Seen, Takes, Offering, OfferingOf
<1>16. \A a \in AuditIds : audits[a] = NoAudit /\ audits'[a] # NoAudit => AuditUnits(out, a)'
  <2> TAKE a \in AuditIds
  <2>1. CASE a = c
    BY <1>15, <2>1
  <2>2. CASE a # c
    BY <1>5, <2>2
  <2> QED
    BY <2>1, <2>2
<1> QED
  BY <1>4, <1>8, <1>11, <1>13, <1>14, <1>16, SellerStep

LEMMA UnitsRemoved ==
    ASSUME Inv, Inv', NEW out \in [Offering -> Nat], UnitsInv(out), NEW k \in Callers,
           RollbackRemove(k)
    PROVE  UnitsInv(out)'
<1>0. PICK a, current, row : a = call[k].audit /\ current = call[k].current /\ row = call[k].row
  OBVIOUS
<1>1. PICK p, minted : p = audits[a].product /\ minted = audits[a].minted
  OBVIOUS
<1>2. PICK s : s = [call[k] EXCEPT !.pc = "note"]
  OBVIOUS
<1>3. /\ call[k].pc = "remove" /\ a \in AuditIds /\ audits[a] # NoAudit
      /\ call[k] \in WrittenBack /\ RollbackUnits(out, call[k], a)
  BY <1>0 DEF RollbackRemove, At, Inv, CallInv, RollbackInv, UnitsInv
<1>4. p \in Products /\ row \in Item /\ minted \in SUBSET Offering
  BY <1>0, <1>1, <1>3 DEF WrittenBack, Inv, AuditsInv, AuditInv, UnitsInv, AuditUnits, OfferingOf
<1>5. Caller(k, s) /\ UNCHANGED <<items, audits, client>>
  BY <1>2 DEF RollbackRemove
<1>6. /\ call'[k] = s /\ s.pc = "note" /\ s.audit = a /\ s.current = current /\ s.row = row
      /\ \A j \in Callers \ {k} : call'[j] = call[j]
  <2>1. call'[k] = s /\ \A j \in Callers \ {k} : call'[j] = call[j]
    BY <1>5 DEF Inv, Caller
  <2> QED
    BY <1>0, <1>2, <1>3, <2>1 DEF WrittenBack
<1>7. \A c \in Commands : offers'[c] = IF c \in minted THEN NoOffer ELSE offers[c]
  BY <1>0, <1>1 DEF RollbackRemove
<1>8. k \in RollingBack /\ \A b \in Clients : client[b] = Idle
  <2>1. k \in RollingBack
    BY <1>3 DEF RollingBack
  <2> QED
    BY <2>1 DEF UnitsInv
<1>9. ASSUME NEW d \in Offering
      PROVE  /\ Carried(d)' <= Carried(d) /\ Packets(d)' <= Packets(d)
             /\ Returning(d)' = {} /\ (d \in minted => ~ Live(d)')
  <2>1. Carrying(d)' \in SUBSET Carrying(d)
    BY <1>5, <1>6, CarryingMoves
  <2>2. Returning(d)' \in SUBSET Returning(d)
    BY <1>5 DEF Returning
  <2>3. Returning(d)' = {}
    BY <1>5, <1>8 DEF Returning, Idle
  <2>4. d \in Commands
    BY OfferingTypes
  <2>5. d \in minted => ~ Live(d)'
    BY <1>7, <2>4 DEF Live, NoOffer
  <2>6. Held(d)' => Held(d)
    <3> SUFFICES ASSUME Live(d)', d \notin SelfDoomed' PROVE Live(d) /\ d \notin SelfDoomed
      BY DEF Held
    <3>1. d \notin minted /\ offers'[d] = offers[d]
      BY <1>7, <2>4, <2>5
    <3>2. Live(d)
      BY <3>1 DEF Live
    <3>3. ASSUME NEW j \in Callers, call[j].pc = "remove", call[j].audit = d, d \in audits[d].minted
          PROVE  FALSE
      <4>1. j # k
        BY <1>0, <1>1, <3>1, <3>3
      <4>2. call'[j] = call[j]
        BY <1>6, <4>1
      <4>3. d \in SelfDoomed'
        BY <1>5, <2>4, <3>3, <4>2 DEF SelfDoomed, At
      <4> QED
        BY <4>3
    <3> QED
      BY <3>2, <3>3 DEF SelfDoomed, At
  <2> QED
    BY <2>1, <2>2, <2>3, <2>5, <2>6, FewerPackets
<1>10. TokensKept(out, out) /\ Balance(out)' /\ Backed(out)' /\ RowsMove
  BY <1>5, <1>9, SameOut
<1>11. ASSUME NEW d \in minted, audits[d] = NoAudit PROVE Spare(out, d)'
  <2>1. d \in Offering /\ d # a
    BY <1>3, <1>4, <1>11
  <2>2. Covers(out, d)
    BY <1>1, <1>3, <1>11, <2>1 DEF RollbackUnits
  <2>3. Packets(d)' = Carried(d)' + 0 + 0
    BY <1>9, <2>1, FS_EmptySet DEF Packets
  <2>4. /\ Carried(d) \in Nat /\ Carried(d)' \in Nat /\ out[d] \in Nat
    BY <2>1, PacketTypes
  <2>5. Packets(d)' <= Carried(d)
    BY <1>9, <2>1, <2>3, <2>4
  <2>6. Packets(d)' \in Nat
    BY PacketTypes
  <2> QED
    BY <2>2, <2>4, <2>5, <2>6 DEF Covers, Spare
<1>12. OffersMove(out)
  BY <1>5, <1>7, <1>11 DEF OffersMove
<1>13. Frame(out, out)
  BY <1>5, <1>10, <1>12, RecordsUntouched DEF Frame
<1>14. RollbackUnits(out, call[k], a)'
  <2>1. Seen(p, row, 0) /\ UndoOK(out, p, current, row)
    BY <1>0, <1>1, <1>3 DEF RollbackUnits
  <2>2. UndoOK(out, p, current, row)'
    BY <1>4, <1>13, <2>1, UndoKept DEF Seen
  <2>3. Seen(p, row, 0)'
    BY <1>5, <2>1 DEF Seen
  <2>4. audits'[a].product = p
    BY <1>1, <1>5
  <2> QED
    BY <1>6, <2>2, <2>3, <2>4 DEF RollbackUnits, UndoOK, Seen
<1> QED
  BY <1>5, <1>6, <1>8, <1>10, <1>13, <1>14, SellerStep

LEMMA UnitsRecorded ==
    ASSUME Inv, Inv', NEW out \in [Offering -> Nat], UnitsInv(out), NEW k \in Callers,
           RollbackRecord(k)
    PROVE  UnitsInv(out)'
<1>0. PICK a, current, row : a = call[k].audit /\ current = call[k].current /\ row = call[k].row
  OBVIOUS
<1>1. PICK p, shown : p = audits[a].product /\ shown = OffersOf(p)
  OBVIOUS
<1>2. /\ call[k].pc = "note" /\ a \in AuditIds /\ audits[a] # NoAudit /\ call[k] \in WrittenBack
      /\ RollbackUnits(out, call[k], a) /\ DOMAIN audits[a] = AuditFields
  BY <1>0 DEF RollbackRecord, At, Inv, CallInv, RollbackInv, AuditsInv, AuditInv, UnitsInv
<1>3. p \in Products /\ row \in Item /\ Idle.pc = "idle"
  BY <1>0, <1>1, <1>2 DEF WrittenBack, Inv, AuditsInv, AuditInv, Idle
<1>4. Caller(k, Idle) /\ UNCHANGED <<items, offers, client>>
  BY DEF RollbackRecord
<1>5. CASE UNCHANGED audits
  BY <1>2, <1>3, <1>4, <1>5, QuietStep
<1>6. CASE ~ UNCHANGED audits
  <2>1. PICK new \in 1..MaxRollbacks :
          /\ \A n \in 1..MaxRollbacks : n < new <=> audits[n] # NoAudit
          /\ audits' = [audits EXCEPT ![a].undone = TRUE,
                                      ![new] = AuditRow(p, current, row, shown, {})]
    BY <1>0, <1>1, <1>6 DEF RollbackRecord, AuditRow
  <2>2. PICK record : record = AuditRow(p, current, row, shown, {})
    OBVIOUS
  <2>3. new \in AuditIds /\ audits[new] = NoAudit /\ new # a /\ new \notin Commands
    BY <1>2, <2>1, CommandsAssumption DEF AuditIds
  <2>4. DOMAIN audits = AuditIds
    BY DEF Inv, AuditsInv
  <2>5. /\ audits'[a] = [audits[a] EXCEPT !.undone = TRUE]
        /\ audits'[new] = record
        /\ \A b \in AuditIds \ {a, new} : audits'[b] = audits[b]
    BY <1>2, <2>1, <2>2, <2>3, <2>4
  <2>6. /\ audits'[a] # NoAudit /\ audits'[a].product = audits[a].product
        /\ audits'[a].before = audits[a].before /\ audits'[a].after = audits[a].after
        /\ audits'[a].minted = audits[a].minted
    <3>1. audits'[a] # NoAudit
      BY <1>2, <2>5 DEF AuditFields, NoAudit
    <3> QED
      BY <1>2, <2>5, <3>1 DEF AuditFields
  <2>7. RecordsKeep
    BY <2>3, <2>5, <2>6 DEF RecordsKeep
  <2>8. OffersMove(out) /\ OffersSteady
    BY <1>4, OffersUntouched
  <2>9. SelfDoomed \in SUBSET SelfDoomed'
    <3>1. \A j \in Callers \ {k} : call'[j] = call[j]
      BY <1>4 DEF Inv, Caller
    <3> QED
      BY <1>2, <2>7, <3>1, DoomedKept
  <2>10. ASSUME NEW d \in Offering PROVE Carried(d)' <= Carried(d) /\ Packets(d)' <= Packets(d)
    <3>1. Carrying(d)' \in SUBSET Carrying(d)
      BY <1>3, <1>4, CarryingMoves
    <3>2. Returning(d)' \in SUBSET Returning(d)
      BY <1>4 DEF Returning
    <3>3. Held(d)' => Held(d)
      BY <1>4, <2>9 DEF Held, Live
    <3> QED
      BY <3>1, <3>2, <3>3, FewerPackets
  <2>11. TokensKept(out, out) /\ Balance(out)' /\ Backed(out)' /\ RowsMove
    BY <1>4, <2>10, SameOut
  <2>12. Frame(out, out)
    BY <2>7, <2>8, <2>11 DEF Frame
  <2>13. AuditUnits(out, new)'
    <3>1. /\ audits'[new].product = p /\ audits'[new].before = current /\ audits'[new].after = row
          /\ audits'[new].minted = {}
      BY <2>2, <2>5 DEF AuditRow
    <3>2. Seen(p, row, 0) /\ UndoOK(out, p, current, row)
      BY <1>0, <1>1, <1>2 DEF RollbackUnits
    <3>3. UndoOK(out, p, current, row)'
      BY <1>3, <2>12, <3>2, UndoKept DEF Seen
    <3>4. Seen(p, row, 0)'
      BY <1>4, <3>2 DEF Seen
    <3> QED
      BY <2>3, <3>1, <3>3, <3>4 DEF AuditUnits, UndoOK, Seen
  <2>14. \A b \in AuditIds : audits[b] = NoAudit /\ audits'[b] # NoAudit => AuditUnits(out, b)'
    <3> TAKE b \in AuditIds
    <3>1. CASE b = new
      BY <2>13, <3>1
    <3>2. CASE b # new
      BY <1>2, <2>5, <3>2
    <3> QED
      BY <3>1, <3>2
  <2> QED
    BY <1>3, <1>4, <2>8, <2>11, <2>12, <2>14, SellerStep
<1> QED
  BY <1>5, <1>6
-----------------------------------------------------------------------------
(***************************************************************************)
(* A rollback writes the lineup: it gives a packet back, or takes one when *)
(* it undoes a rollback.                                                   *)
(***************************************************************************)
LEMMA OneLessOut ==
    ASSUME NEW out \in [Offering -> Nat], UnitsInv(out), NEW c \in Offering, Packets(c)' + 1 <= out[c],
           \A d \in Offering \ {c} : Carried(d)' <= Carried(d) /\ Packets(d)' <= Packets(d)
    PROVE  \E new \in [Offering -> Nat] :
             /\ OneMore(new, out, c) /\ Backed(new)'
             /\ new[c] + 1 = out[c]
             /\ \A d \in Offering \ {c} : CoversKept(out, new, d) /\ SpareKept(out, new, d)
<1>1. PICK new : new = [out EXCEPT ![c] = out[c] - 1]
  OBVIOUS
<1>2. out[c] \in Nat /\ Packets(c)' \in Nat
  BY PacketTypes
<1>3. out[c] - 1 \in Nat
  BY <1>2
<1>4. new \in [Offering -> Nat] /\ new[c] = out[c] - 1 /\ \A d \in Offering \ {c} : new[d] = out[d]
  BY <1>1, <1>3
<1>5. new[c] + 1 = out[c]
  BY <1>2, <1>4
<1>6. OneMore(new, out, c)
  <2>1. [new EXCEPT ![c] = new[c] + 1] = [new EXCEPT ![c] = out[c]]
    BY <1>5
  <2>2. out = [new EXCEPT ![c] = out[c]]
    BY <1>1, <1>4
  <2> QED
    BY <2>1, <2>2 DEF OneMore
<1>7. ASSUME NEW d \in Offering \ {c}
      PROVE  CoversKept(out, new, d) /\ SpareKept(out, new, d) /\ Packets(d)' <= new[d]
  <2>1. /\ Carried(d) \in Nat /\ Carried(d)' \in Nat /\ Packets(d) \in Nat /\ Packets(d)' \in Nat
        /\ out[d] \in Nat /\ new[d] = out[d]
    BY <1>4, PacketTypes
  <2>2. Packets(d) <= out[d]
    BY DEF UnitsInv, Backed
  <2>3. CoversKept(out, new, d)
    BY <2>1 DEF CoversKept, Covers
  <2>4. SpareKept(out, new, d)
    BY <2>1 DEF SpareKept, Spare
  <2> QED
    BY <2>1, <2>2, <2>3, <2>4
<1>8. \A d \in Offering : Packets(d)' <= new[d]
  BY <1>2, <1>4, <1>7
<1>9. Backed(new)'
  BY <1>8 DEF Backed, Offering
<1> QED
  BY <1>4, <1>5, <1>6, <1>7, <1>9

\* What a rollback finds and writes.
UndoRows(p, before, after) ==
    /\ items[p].version = after.version /\ items[p].qty = after.qty
    /\ items'[p].qty = before.qty /\ items[p].version < items'[p].version
    /\ \A r \in Products \ {p} : items'[r] = items[r]

LEMMA UndoWrites ==
    ASSUME Inv, Inv', NEW out, UnitsInv(out), NEW k \in Callers, RollbackWrite(k),
           ~ (Caller(k, Idle) /\ UNCHANGED items)
    PROVE  LET a == call[k].audit
               p == audits[a].product
           IN  /\ call[k].pc = "undo" /\ a \in AuditIds /\ audits[a] # NoAudit /\ p \in Products
               /\ call[k].current = audits[a].after /\ audits[a].before \in Item /\ audits[a].after \in Item
               /\ RowsMove /\ UndoRows(p, audits[a].before, audits[a].after)
               /\ Caller(k, [pc |-> "remove", audit |-> a, current |-> call[k].current, row |-> items'[p]])
               /\ UNCHANGED <<offers, audits, client>>
<1>0. PICK a : a = call[k].audit
  OBVIOUS
<1> DEFINE p == audits[a].product
           new == [audits[a].before EXCEPT !.version = call[k].current.version]
           change == [q \in {p} |-> new]
<1>1. /\ At(k, "undo") /\ call[k].pc = "undo"
      /\ a \in AuditIds /\ audits[a] # NoAudit /\ call[k].current = audits[a].after
  BY <1>0 DEF RollbackWrite, At, Inv, CallInv, RollbackInv
<1>2. /\ p \in Products /\ audits[a].before \in Item /\ audits[a].after \in Item
      /\ AboveFloor(p, audits[a].before.price)
  BY <1>1 DEF Inv, AuditsInv, AuditInv
<1>3. new \in Item /\ new.qty = audits[a].before.qty /\ new.price = audits[a].before.price
  BY <1>1, <1>2 DEF Item
<1>4. /\ Writable(change) /\ items' = Projected(change)
      /\ Caller(k, [pc |-> "remove", audit |-> a, current |-> call[k].current, row |-> items'[p]])
      /\ UNCHANGED <<offers, audits, client>>
  BY <1>0 DEF RollbackWrite
<1>5. items[p].version = audits[a].after.version
  BY <1>0, <1>1, <1>4, UndoFinds
<1>6. change[p] = new /\ DOMAIN change = {p}
  OBVIOUS
<1> HIDE DEF new
<1>7. ChangesOK(change)
  BY <1>2, <1>3, <1>6 DEF ChangesOK
<1> HIDE DEF change
<1>8. /\ RowsMove /\ \A r \in Products \ {p} : items'[r] = items[r]
      /\ items[p].version < items'[p].version /\ items'[p].qty = audits[a].before.qty
  BY <1>3, <1>4, <1>6, <1>7, WriteRows
<1>9. items[p].qty = audits[a].after.qty
  <2>1. Seen(p, audits[a].after, 0)
    BY <1>1 DEF UnitsInv, AuditUnits
  <2>2. audits[a].after.qty \in Nat
    BY <1>2 DEF Item
  <2> QED
    BY <1>5, <2>1, <2>2 DEF Seen
<1> QED
  BY <1>0, <1>1, <1>2, <1>4, <1>5, <1>8, <1>9 DEF UndoRows

\* The packets after a rollback's write, as far as the audit it undoes tells.
UndoneWell(out, new, p, after, row) ==
    /\ TokensKept(out, new) /\ Balance(new)' /\ Backed(new)'
    /\ UndoOK(new, p, after, row)'
    /\ \A d \in Offering : audits'[d] = NoAudit => CoversKept(out, new, d)

\* The units of a packet of c come back.
LEMMA UndoGives ==
    ASSUME Inv, Inv', NEW out \in [Offering -> Nat], UnitsInv(out), NEW p \in Products,
           NEW before \in Item, NEW after \in Item, NEW row, row = items'[p],
           UndoRows(p, before, after), UNCHANGED audits,
           \A d \in Offering : Carried(d)' <= Carried(d) /\ Packets(d)' <= Packets(d),
           NEW c \in OfferingOf(p), audits[c] # NoAudit,
           before.qty = after.qty + Action[c].quantity, Packets(c)' + 1 <= out[c]
    PROVE  \E new \in [Offering -> Nat] : UndoneWell(out, new, p, after, row)
<1>1. c \in Offering /\ Action[c].product = p
  BY DEF OfferingOf
<1>2. PICK new \in [Offering -> Nat] :
        /\ OneMore(new, out, c) /\ Backed(new)'
        /\ \A d \in Offering \ {c} : CoversKept(out, new, d) /\ SpareKept(out, new, d)
  BY <1>1, OneLessOut
<1>3. Balance(new)'
  <2>1. items'[Action[c].product].qty = items[Action[c].product].qty + Action[c].quantity
    BY <1>1 DEF UndoRows
  <2>2. \A r \in Products \ {Action[c].product} : items'[r].qty = items[r].qty
    BY <1>1 DEF UndoRows
  <2>3. Balance(out)
    BY DEF UnitsInv
  <2> QED
    BY <1>1, <1>2, <2>1, <2>2, <2>3, BalanceOut
<1>4. items'[p] # items[p]
  <2>1. items[p].version \in Nat /\ items[p].version < items'[p].version
    BY DEF Inv, LineupInv, Item, UndoRows
  <2> QED
    BY <2>1
<1>5. TokensKept(out, new)
  BY <1>1, <1>2, <1>4 DEF TokensKept
<1>6. UndoOK(new, p, after, row)'
  <2>1. row.qty = after.qty + Action[c].quantity /\ audits'[c] # NoAudit
    BY DEF UndoRows
  <2> QED
    BY <2>1 DEF UndoOK, OfferingOf, Offering, NoAudit
<1> QED
  BY <1>2, <1>3, <1>5, <1>6 DEF UndoneWell

\* The units of a packet of c are taken again.
LEMMA UndoTakes ==
    ASSUME Inv, Inv', NEW out \in [Offering -> Nat], UnitsInv(out), NEW p \in Products,
           NEW before \in Item, NEW after \in Item, NEW row, row = items'[p],
           UndoRows(p, before, after), UNCHANGED audits,
           \A d \in Offering : Carried(d)' <= Carried(d) /\ Packets(d)' <= Packets(d),
           NEW c \in OfferingOf(p), audits[c] # NoAudit,
           after.qty = before.qty + Action[c].quantity
    PROVE  \E new \in [Offering -> Nat] : UndoneWell(out, new, p, after, row)
<1>1. c \in Offering /\ Action[c].product = p
  BY DEF OfferingOf
<1>2. PICK new \in [Offering -> Nat] : OneMore(out, new, c) /\ new[c] = out[c] + 1
  <2>1. [out EXCEPT ![c] = out[c] + 1] \in [Offering -> Nat]
    BY <1>1
  <2> QED
    BY <1>1, <2>1 DEF OneMore
<1>3. /\ Carried(c) \in Nat /\ Carried(c)' \in Nat /\ Packets(c) \in Nat /\ Packets(c)' \in Nat
      /\ Carried(c)' <= Carried(c) /\ Packets(c)' <= Packets(c) /\ out[c] \in Nat
  BY <1>1, PacketTypes
<1>4. Carried(c)' <= Carried(c) + 1 /\ Packets(c)' <= Packets(c) + 1
  BY <1>3
<1>5. (\A d \in Offering : CoversKept(out, new, d) /\ SpareKept(out, new, d)) /\ Backed(new)'
  BY <1>1, <1>2, <1>4, OneMoreOut
<1>6. Balance(new)'
  <2>1. items[Action[c].product].qty = items'[Action[c].product].qty + Action[c].quantity
    BY <1>1 DEF UndoRows
  <2>2. \A r \in Products \ {Action[c].product} : items'[r].qty = items[r].qty
    BY <1>1 DEF UndoRows
  <2>3. Balance(out)
    BY DEF UnitsInv
  <2> QED
    BY <1>1, <1>2, <2>1, <2>2, <2>3, BalanceOut
<1>7. UndoOK(new, p, after, row)'
  <2>1. after.qty = row.qty + Action[c].quantity /\ audits'[c] # NoAudit
    BY DEF UndoRows
  <2>2. Packets(c) <= out[c]
    BY <1>1 DEF UnitsInv, Backed
  <2>3. Spare(new, c)'
    BY <1>2, <1>3, <2>2 DEF Spare
  <2> QED
    BY <2>1, <2>3 DEF UndoOK, OfferingOf, Offering, NoAudit
<1> QED
  BY <1>5, <1>6, <1>7 DEF UndoneWell, TokensKept

\* No units move.
LEMMA UndoNeither ==
    ASSUME NEW out \in [Offering -> Nat], UnitsInv(out), NEW p \in Products,
           NEW before, NEW after, NEW row, row = items'[p], UndoRows(p, before, after),
           \A d \in Offering : Carried(d)' <= Carried(d) /\ Packets(d)' <= Packets(d),
           before.qty = after.qty
    PROVE  UndoneWell(out, out, p, after, row)
<1>1. (\A d \in Offering : CoversKept(out, out, d) /\ SpareKept(out, out, d)) /\ Backed(out)'
  BY NoMoreOut
<1>2. Balance(out)'
  <2>1. \A r \in Products : items'[r].qty = items[r].qty
    BY DEF UndoRows
  <2> QED
    BY <2>1, BalanceSame DEF UnitsInv
<1>3. UndoOK(out, p, after, row)'
  BY DEF UndoOK, UndoRows
<1> QED
  BY <1>1, <1>2, <1>3 DEF UndoneWell, TokensKept

LEMMA UnitsUndone ==
    ASSUME Inv, Inv', NEW out \in [Offering -> Nat], UnitsInv(out), NEW k \in Callers,
           RollbackWrite(k), ~ (Caller(k, Idle) /\ UNCHANGED items)
    PROVE  \E new \in [Offering -> Nat] : UnitsInv(new)'
<1>0. PICK a : a = call[k].audit
  OBVIOUS
<1>1. PICK p, before, after, minted :
        p = audits[a].product /\ before = audits[a].before
        /\ after = audits[a].after /\ minted = audits[a].minted
  OBVIOUS
<1>2. PICK row : row = items'[p]
  OBVIOUS
<1>3. PICK s : s = [pc |-> "remove", audit |-> a, current |-> after, row |-> row]
  OBVIOUS
<1>4. /\ call[k].pc = "undo" /\ a \in AuditIds /\ audits[a] # NoAudit /\ p \in Products
      /\ before \in Item /\ after \in Item /\ RowsMove /\ UndoRows(p, before, after)
      /\ Caller(k, s) /\ UNCHANGED <<offers, audits, client>>
  BY <1>0, <1>1, <1>2, <1>3, UndoWrites
<1>5. /\ s.pc = "remove" /\ s.audit = a /\ s.current = after /\ s.row = row
      /\ call'[k] = s /\ \A j \in Callers \ {k} : call'[j] = call[j]
  <2>1. call'[k] = s /\ \A j \in Callers \ {k} : call'[j] = call[j]
    BY <1>4 DEF Inv, Caller
  <2> QED
    BY <1>3, <2>1
<1>6. k \in RollingBack /\ \A b \in Clients : client[b] = Idle
  <2>1. k \in RollingBack
    BY <1>4 DEF RollingBack
  <2> QED
    BY <2>1 DEF UnitsInv
<1>7. RecordsKeep /\ \A new : OffersMove(new)
  BY <1>4, RecordsUntouched, OffersUntouched
<1>8. SelfDoomed \in SUBSET SelfDoomed'
  BY <1>4, <1>5, <1>7, DoomedKept
<1>9. ASSUME NEW d \in Offering PROVE Carried(d)' <= Carried(d) /\ Packets(d)' <= Packets(d)
  <2>1. Carrying(d)' \in SUBSET Carrying(d)
    BY <1>4, <1>5, CarryingMoves
  <2>2. Returning(d)' \in SUBSET Returning(d)
    BY <1>4 DEF Returning
  <2>3. Held(d)' => Held(d)
    BY <1>4, <1>8 DEF Held, Live
  <2> QED
    BY <2>1, <2>2, <2>3, FewerPackets
<1>10. /\ minted \in SUBSET OfferingOf(p)
       /\ a \in Commands =>
            /\ p = Action[a].product /\ before.qty = after.qty + Takes(a)
            /\ \A c \in minted : Covers(out, c)
            /\ a \in Offering \ minted => Spare(out, a)
       /\ a \notin Commands => minted = {} /\ UndoOK(out, p, before, after)
  BY <1>1, <1>4 DEF UnitsInv, AuditUnits, UndoRows
<1>11. ASSUME NEW c \in Offering, Spare(out, c) PROVE Packets(c)' + 1 <= out[c]
  <2>1. Packets(c) \in Nat /\ Packets(c)' \in Nat /\ out[c] \in Nat /\ Packets(c)' <= Packets(c)
    BY <1>9, PacketTypes
  <2> QED
    BY <1>11, <2>1 DEF Spare
<1>12. ASSUME a \in Offering, a \in minted, Covers(out, a) PROVE Packets(a)' + 1 <= out[a]
  <2>1. a \in SelfDoomed'
    BY <1>1, <1>4, <1>5, <1>12, OfferingTypes DEF SelfDoomed, At
  <2>2. Returning(a)' = {}
    BY <1>4, <1>6 DEF Returning, Idle
  <2>3. Packets(a)' = Carried(a)' + 0 + 0
    BY <2>1, <2>2, FS_EmptySet DEF Packets
  <2>4. Carried(a) \in Nat /\ Carried(a)' \in Nat /\ out[a] \in Nat /\ Carried(a)' <= Carried(a)
    BY <1>9, <1>12, PacketTypes
  <2> QED
    BY <1>12, <2>3, <2>4 DEF Covers
<1>13. PICK new \in [Offering -> Nat] : UndoneWell(out, new, p, after, row)
  <2>1. CASE a \in Offering
    <3>1. /\ a \in Commands /\ a \in OfferingOf(p) /\ before.qty = after.qty + Action[a].quantity
      BY <1>10, <2>1, OfferingTypes
    <3>2. Packets(a)' + 1 <= out[a]
      BY <1>10, <1>11, <1>12, <2>1, <3>1
    <3> QED
      BY <1>2, <1>4, <1>9, <3>1, <3>2, UndoGives
  <2>2. CASE a \in Commands \ Offering
    <3>1. Takes(a) = 0 /\ after.qty \in Nat
      BY <1>4, <2>2 DEF Takes, Item
    <3>2. before.qty = after.qty
      BY <1>10, <2>2, <3>1
    <3> QED
      BY <1>2, <1>4, <1>9, <3>2, UndoNeither
  <2>3. CASE a \notin Commands
    <3>1. UndoOK(out, p, before, after)
      BY <1>10, <2>3
    <3>2. CASE before.qty = after.qty
      BY <1>2, <1>4, <1>9, <3>2, UndoNeither
    <3>3. CASE before.qty # after.qty
      <4>1. PICK c \in OfferingOf(p) :
              /\ audits[c] # NoAudit
              /\ \/ after.qty = before.qty + Action[c].quantity
                 \/ before.qty = after.qty + Action[c].quantity /\ Spare(out, c)
        BY <1>4, <3>1, <3>3 DEF UndoOK, UndoRows
      <4>2. c \in Offering
        BY DEF OfferingOf
      <4>3. CASE after.qty = before.qty + Action[c].quantity
        BY <1>2, <1>4, <1>9, <4>1, <4>3, UndoTakes
      <4>4. CASE before.qty = after.qty + Action[c].quantity /\ Spare(out, c)
        BY <1>2, <1>4, <1>9, <1>11, <4>1, <4>2, <4>4, UndoGives
      <4> QED
        BY <4>1, <4>3, <4>4
    <3> QED
      BY <3>2, <3>3
  <2> QED
    BY <2>1, <2>2, <2>3, OfferingTypes
<1>14. TokensKept(out, new) /\ Balance(new)' /\ Backed(new)' /\ UndoOK(new, p, after, row)'
  BY <1>13 DEF UndoneWell
<1>15. Frame(out, new)
  BY <1>4, <1>7, <1>14 DEF Frame
<1>16. RollbackUnits(new, call[k], a)'
  <2>1. ASSUME NEW c \in minted \ {a}, audits'[c] = NoAudit PROVE Covers(new, c)'
    <3>1. c \in Offering /\ a \in Commands
      BY <1>10, <2>1 DEF OfferingOf
    <3>2. Covers(out, c) /\ CoversKept(out, new, c)
      BY <1>10, <1>13, <2>1, <3>1 DEF UndoneWell
    <3> QED
      BY <3>2 DEF CoversKept
  <2>2. /\ row.version <= items'[p].version /\ items'[p].qty = row.qty + 0
    BY <1>2, <1>4 DEF Inv, LineupInv, Item
  <2>3. audits'[a].product = p /\ audits'[a].minted = minted
    BY <1>1, <1>4
  <2> QED
    BY <1>5, <1>14, <2>1, <2>2, <2>3 DEF RollbackUnits, UndoOK, Seen, NoAudit
<1>17. \A b \in AuditIds : audits[b] = NoAudit => audits'[b] = NoAudit
  BY <1>4
<1>18. UnitsInv(new)'
  BY <1>4, <1>5, <1>6, <1>14, <1>15, <1>16, <1>17, SellerStep
<1> QED
  BY <1>18
-----------------------------------------------------------------------------
(***************************************************************************)
(* The steps of a buyer's request.                                         *)
(***************************************************************************)
LEMMA ReturningMoves ==
    ASSUME Inv, NEW b \in Clients, NEW s, Client(b, s), NEW c
    PROVE  Returning(c)' = IF s.pc \in {"restock", "return"} /\ s.offer = c
                           THEN Returning(c) \cup {b} ELSE Returning(c) \ {b}
<1>1. client'[b] = s /\ \A d \in Clients \ {b} : client'[d] = client[d]
  BY DEF Inv, Client
<1> QED
  BY <1>1 DEF Returning

\* While a buyer's request is served nothing is being rolled back.
LEMMA BuyerAlone ==
    ASSUME NEW out, UnitsInv(out), NEW b \in Clients, client[b] # Idle
    PROVE  RollingBack = {} /\ SelfDoomed = {}
<1>1. RollingBack = {}
  BY DEF UnitsInv
<1> QED
  BY <1>1 DEF RollingBack, SelfDoomed, At

\* A step of a buyer's request that writes no store.
LEMMA QuietBuyer ==
    ASSUME Inv, Inv', NEW out \in [Offering -> Nat], UnitsInv(out),
           NEW b \in Clients, NEW s, Client(b, s), UNCHANGED <<items, offers, audits, call>>,
           s = Idle \/ RollingBack = {}, ClientUnits(client[b])',
           s.pc \in {"restock", "return"} => client[b].pc \in {"restock", "return"} /\ client[b].offer = s.offer
    PROVE  UnitsInv(out)'
<1>1. RecordsKeep /\ OffersMove(out) /\ OffersSteady
  BY RecordsUntouched, OffersUntouched
<1>2. ASSUME NEW c \in Offering PROVE Carried(c)' <= Carried(c) /\ Packets(c)' <= Packets(c)
  <2>1. Carrying(c)' \in SUBSET Carrying(c)
    BY DEF Carrying, At
  <2>2. Returning(c)' \in SUBSET Returning(c)
    <3>1. s.pc \in {"restock", "return"} /\ s.offer = c => b \in Returning(c)
      BY DEF Returning
    <3> QED
      BY <3>1, ReturningMoves
  <2>3. Held(c)' => Held(c)
    BY DEF Held, Live, SelfDoomed, At
  <2> QED
    BY <2>1, <2>2, <2>3, FewerPackets
<1>3. TokensKept(out, out) /\ Balance(out)' /\ Backed(out)' /\ RowsMove
  BY <1>2, SameOut
<1>4. Frame(out, out)
  BY <1>1, <1>3 DEF Frame
<1> QED
  BY <1>1, <1>3, <1>4, BuyerStep

LEMMA UnitsQuietBuyer ==
    ASSUME Inv, Inv', Orderly, NEW out \in [Offering -> Nat], UnitsInv(out), NEW b \in Clients,
           \/ \E c \in Commands, to \in {"accepted", "cancelled"} : BuyerReads(b, c, to)
           \/ BuyerOrders(b) \/ BuyerRestocks(b) \/ ClientDies(b)
           \/ (BuyerClaims(b) \/ BuyerReturns(b)) /\ Client(b, Idle) /\ UNCHANGED <<items, offers>>
    PROVE  UnitsInv(out)'
<1>1. UNCHANGED <<items, offers, audits, call>>
  BY DEF BuyerReads, BuyerOrders, BuyerRestocks, ClientDies, BuyerClaims, BuyerReturns
<1>2. CASE Client(b, Idle)
  <2>1. client'[b] = Idle /\ Idle.pc = "idle"
    BY <1>2 DEF Inv, Client, Idle
  <2> QED
    BY <1>1, <1>2, <2>1, ClientUnitsIdle, QuietBuyer
<1>3. CASE \E c \in Commands, to \in {"accepted", "cancelled"} : BuyerReads(b, c, to)
  <2>1. PICK c \in Commands, to \in {"accepted", "cancelled"} : BuyerReads(b, c, to)
    BY <1>3
  <2>2. PICK s : s = [pc |-> IF to = "accepted" /\ offers[c].status = "accepted" THEN "order" ELSE "claim",
                      offer |-> c, to |-> to, version |-> offers[c].version]
    OBVIOUS
  <2>3. Live(c) /\ RollingBack = {} /\ Client(b, s)
    BY <2>1, <2>2 DEF BuyerReads
  <2>4. client'[b] = s
    BY <2>3 DEF Inv, Client
  <2>5. s.pc \in {"order", "claim"} /\ s.offer = c /\ s.version = offers[c].version
    BY <2>2
  <2>6. offers'[c] # NoOffer /\ offers'[c].version \in Nat /\ offers'[c].status \in {"pending", "accepted"}
    BY <1>1, <2>3 DEF Live, NoOffer, Inv, OffersInv
  <2>7. ClientUnits(client[b])'
    BY <1>1, <2>4, <2>5, <2>6 DEF ClientUnits, Live, NoOffer
  <2> QED
    BY <1>1, <2>3, <2>5, <2>7, QuietBuyer
<1>4. CASE BuyerRestocks(b)
  <2>1. PICK c : c = client[b].offer
    OBVIOUS
  <2> DEFINE p == Action[c].product
  <2>2. PICK new : new = [items[p] EXCEPT !.qty = @ + Action[c].quantity]
    OBVIOUS
  <2>3. PICK s : s = [pc |-> "return", offer |-> c, row |-> new]
    OBVIOUS
  <2>4. client[b].pc = "restock" /\ Client(b, s) /\ c \in Commands
    BY <1>4, <2>1, <2>2, <2>3 DEF BuyerRestocks, Inv, ClientInv
  <2>5. s.pc = "return" /\ s.offer = c /\ s.row = new /\ client'[b] = s
    <3>1. client'[b] = s
      BY <2>4 DEF Inv, Client
    <3> QED
      BY <2>3, <3>1
  <2>6. items[p] \in Item /\ items[p].version \in Nat
    BY <2>4, OfferingTypes, RowTypes
  <2>7. new.version = items[p].version /\ new.qty = items[p].qty + Action[c].quantity
    BY <2>2, <2>6 DEF Item
  <2>8. offers[c] # NoOffer
    BY <2>1, <2>4 DEF UnitsInv, ClientUnits
  <2>9. ClientUnits(client[b])'
    BY <1>1, <2>5, <2>6, <2>7, <2>8 DEF ClientUnits, NoOffer
  <2>10. RollingBack = {}
    <3>1. client[b] # Idle
      BY <2>4 DEF Idle
    <3> QED
      BY <3>1, BuyerAlone
  <2> QED
    BY <1>1, <2>1, <2>4, <2>5, <2>9, <2>10, QuietBuyer
<1> QED
  BY <1>2, <1>3, <1>4 DEF BuyerOrders, ClientDies

LEMMA UnitsClaimed ==
    ASSUME Inv, Inv', NEW out \in [Offering -> Nat], UnitsInv(out), NEW b \in Clients, BuyerClaims(b),
           ~ (Client(b, Idle) /\ UNCHANGED offers)
    PROVE  UnitsInv(out)'
<1>0. PICK c, to : c = client[b].offer /\ to = client[b].to
  OBVIOUS
<1>1. PICK s : s = [pc |-> IF to = "accepted" THEN "order" ELSE "restock", offer |-> c]
  OBVIOUS
<1>2. /\ client[b].pc = "claim" /\ c \in Commands /\ to \in {"accepted", "cancelled"}
      /\ ClientUnits(client[b])
  BY <1>0 DEF BuyerClaims, Inv, ClientInv, UnitsInv
<1>3. /\ Claimable(c, client[b].version) /\ Client(b, s)
      /\ offers' = [offers EXCEPT ![c] = [status |-> to, version |-> @.version + 1]]
      /\ UNCHANGED <<items, audits, call>>
  BY <1>0, <1>1 DEF BuyerClaims
<1>4. /\ Live(c) /\ offers[c] # NoOffer /\ offers[c].version \in Nat /\ c \in Offering
  BY <1>0, <1>2, <1>3 DEF ClientUnits, Claimable, UnitsInv, Inv, OffersInv
<1>5. /\ offers'[c].status = to /\ offers'[c].version = offers[c].version + 1
      /\ \A d \in Commands \ {c} : offers'[d] = offers[d]
  BY <1>2, <1>3 DEF Inv, OffersInv
<1>6. offers'[c] # NoOffer /\ offers[c].version < offers'[c].version
  BY <1>4, <1>5 DEF NoOffer
<1>7. RollingBack = {} /\ SelfDoomed = {}
  <2>1. client[b] # Idle
    BY <1>2 DEF Idle
  <2> QED
    BY <2>1, BuyerAlone
<1>8. SelfDoomed' = {}
  BY <1>3, <1>7 DEF SelfDoomed, At
<1>9. RecordsKeep /\ OffersMove(out) /\ OffersSteady
  <2>1. \A d \in Commands : (offers[d] = NoOffer <=> offers'[d] = NoOffer)
    BY <1>4, <1>5, <1>6
  <2>2. OffersMove(out)
    BY <2>1 DEF OffersMove
  <2>3. OffersSteady
    BY <1>5, <1>6 DEF OffersSteady
  <2> QED
    BY <1>3, <2>2, <2>3, RecordsUntouched
<1>10. (s.pc = "order" <=> to = "accepted") /\ s.pc \in {"order", "restock"} /\ s.offer = c /\ client'[b] = s
  <2>1. client'[b] = s
    BY <1>3 DEF Inv, Client
  <2> QED
    BY <1>1, <2>1
<1>11. ASSUME NEW d \in Offering PROVE Carried(d)' <= Carried(d) /\ Packets(d)' <= Packets(d)
  <2>1. Carrying(d)' = Carrying(d)
    BY <1>3 DEF Carrying, At
  <2>2. CASE d # c \/ to = "accepted"
    <3>1. Returning(d)' \in SUBSET Returning(d)
      BY <1>3, <1>10, <2>2, ReturningMoves
    <3>2. Held(d)' => Held(d)
      BY <1>4, <1>5, <1>7, <2>2, OfferingTypes DEF Held, Live
    <3> QED
      BY <2>1, <3>1, <3>2, FewerPackets
  <2>3. CASE d = c /\ to = "cancelled"
    <3>1. ~ Live(c)' /\ Held(c)
      BY <1>4, <1>5, <1>7, <2>3 DEF Live, Held
    <3>2. Returning(c)' = Returning(c) \cup {b}
      BY <1>3, <1>10, <2>3, ReturningMoves
    <3>3. IsFiniteSet(Returning(c)) /\ Cardinality(Returning(c)) \in Nat /\ Carried(c) \in Nat
      BY PacketTypes
    <3>4. Cardinality(Returning(c) \cup {b}) =
            IF b \in Returning(c) THEN Cardinality(Returning(c)) ELSE Cardinality(Returning(c)) + 1
      BY <3>3, FS_AddElement
    <3>5. Cardinality(Returning(c)') <= Cardinality(Returning(c)) + 1 /\ Cardinality(Returning(c)') \in Nat
      BY <3>2, <3>3, <3>4, PacketTypes
    <3>6. Carried(c)' = Carried(c)
      BY <2>1, <2>3 DEF Carried
    <3>7. Packets(c) = Carried(c) + Cardinality(Returning(c)) + 1
      BY <3>1 DEF Packets, Held
    <3>8. Packets(c)' = Carried(c)' + Cardinality(Returning(c)') + 0
      BY <3>1 DEF Packets
    <3>9. Packets(c)' <= Packets(c) /\ Carried(c)' <= Carried(c)
      BY <3>3, <3>5, <3>6, <3>7, <3>8
    <3> QED
      BY <2>3, <3>9
  <2> QED
    BY <1>2, <2>2, <2>3
<1>12. TokensKept(out, out) /\ Balance(out)' /\ Backed(out)' /\ RowsMove
  BY <1>3, <1>11, SameOut
<1>13. Frame(out, out)
  BY <1>9, <1>12 DEF Frame
<1>14. ClientUnits(client[b])'
  BY <1>6, <1>10 DEF ClientUnits, NoOffer
<1> QED
  BY <1>3, <1>7, <1>9, <1>12, <1>13, <1>14, BuyerStep

LEMMA UnitsReturned ==
    ASSUME Inv, Inv', NEW out \in [Offering -> Nat], UnitsInv(out), NEW b \in Clients, BuyerReturns(b),
           ~ UNCHANGED items
    PROVE  \E new \in [Offering -> Nat] : UnitsInv(new)'
<1>0. PICK c, row : c = client[b].offer /\ row = client[b].row
  OBVIOUS
<1> DEFINE p == Action[c].product
<1>1. PICK change : change = [q \in {p} |-> row]
  OBVIOUS
<1>2. /\ client[b].pc = "return" /\ c \in Commands /\ row \in Item /\ AboveFloor(p, row.price)
      /\ ClientUnits(client[b])
  BY <1>0 DEF BuyerReturns, Inv, ClientInv, UnitsInv
<1>3. /\ Writable(change) /\ items' = Projected(change) /\ Client(b, Idle)
      /\ UNCHANGED <<offers, audits, call>>
  BY <1>0, <1>1 DEF BuyerReturns
<1>4. p \in Products /\ c \in Offering /\ Action[c].quantity \in Nat
  BY <1>0, <1>2, OfferingTypes DEF ClientUnits, UnitsInv
<1>5. ChangesOK(change) /\ DOMAIN change = {p} /\ change[p] = row
  BY <1>1, <1>2, <1>4 DEF ChangesOK
<1>6. /\ RowsMove /\ \A r \in Products \ {p} : items'[r] = items[r]
      /\ items[p].version = row.version /\ items[p].version < items'[p].version
      /\ items'[p].qty = row.qty
  BY <1>3, <1>5, WriteRows
<1>7. items'[p].qty = items[p].qty + Action[c].quantity
  BY <1>0, <1>2, <1>6 DEF ClientUnits
<1>8. RollingBack = {} /\ SelfDoomed = {}
  <2>1. client[b] # Idle
    BY <1>2 DEF Idle
  <2> QED
    BY <2>1, BuyerAlone
<1>9. Idle.pc = "idle" /\ client'[b] = Idle
  BY <1>3 DEF Inv, Client, Idle
<1>10. RecordsKeep /\ OffersSteady /\ \A new : OffersMove(new)
  BY <1>3, RecordsUntouched, OffersUntouched
<1>11. ASSUME NEW d
       PROVE  /\ Carrying(d)' \in SUBSET Carrying(d) /\ Returning(d)' = Returning(d) \ {b}
              /\ Held(d)' => Held(d)
  <2>1. Carrying(d)' \in SUBSET Carrying(d)
    BY <1>3 DEF Carrying, At
  <2>2. Returning(d)' = Returning(d) \ {b}
    BY <1>3, <1>9, ReturningMoves
  <2>3. Held(d)' => Held(d)
    BY <1>3, <1>8 DEF Held, Live
  <2> QED
    BY <2>1, <2>2, <2>3
<1>12. ASSUME NEW d \in Offering PROVE Carried(d)' <= Carried(d) /\ Packets(d)' <= Packets(d)
  BY <1>11, FewerPackets
<1>13. Packets(c)' + 1 <= Packets(c)
  <2>1. b \in Returning(c) /\ IsFiniteSet(Returning(c))
    BY <1>0, <1>2, PacketTypes DEF Returning
  <2>2. Cardinality(Returning(c) \ {b}) = Cardinality(Returning(c)) - 1
    BY <2>1, FS_RemoveElement
  <2>3. Carried(c) \in Nat /\ Carried(c)' \in Nat /\ Cardinality(Returning(c)) \in Nat
        /\ Packets(c) \in Nat /\ Packets(c)' \in Nat
    BY PacketTypes
  <2>4. Carried(c)' <= Carried(c) + 0
    BY <1>4, <1>12, <2>3
  <2>5. Cardinality(Returning(c)') <= Cardinality(Returning(c)) + (-1)
    BY <1>11, <2>2, <2>3
  <2>6. Packets(c)' <= Packets(c) + 0 + (-1)
    <3>1. -1 \in Int /\ 0 \in Int
      OBVIOUS
    <3> QED
      BY <1>11, <2>4, <2>5, <3>1, PacketsBound
  <2> QED
    BY <2>3, <2>6
<1>14. /\ Packets(c) \in Nat /\ Packets(c)' \in Nat /\ out[c] \in Nat /\ Packets(c) <= out[c]
  BY <1>4, PacketTypes DEF UnitsInv, Backed
<1>15. PICK new \in [Offering -> Nat] :
         /\ OneMore(new, out, c) /\ Backed(new)' /\ new[c] + 1 = out[c]
         /\ \A d \in Offering \ {c} : CoversKept(out, new, d) /\ SpareKept(out, new, d)
  <2>1. Packets(c)' + 1 <= out[c]
    BY <1>13, <1>14
  <2> QED
    BY <1>4, <1>12, <2>1, OneLessOut
<1>16. SpareKept(out, new, c)
  <2>1. new[c] \in Nat
    BY <1>4
  <2>2. Packets(c) + 1 <= out[c] => Packets(c)' + 1 <= new[c]
    BY <1>13, <1>14, <1>15, <2>1
  <2> QED
    BY <2>2 DEF SpareKept, Spare
<1>17. TokensKept(out, new)
  <2>1. items'[p] # items[p]
    <3>1. items[p].version \in Nat
      BY <1>4, RowTypes
    <3> QED
      BY <1>6, <3>1
  <2> QED
    BY <1>8, <1>15, <1>16, <2>1 DEF TokensKept
<1>18. Balance(new)'
  <2>1. Balance(out)
    BY DEF UnitsInv
  <2>2. \A r \in Products \ {Action[c].product} : items'[r].qty = items[r].qty
    BY <1>6
  <2> QED
    BY <1>4, <1>7, <1>15, <2>1, <2>2, BalanceOut
<1>19. Frame(out, new)
  BY <1>6, <1>10, <1>17 DEF Frame
<1>20. UnitsInv(new)'
  BY <1>3, <1>9, <1>10, <1>15, <1>18, <1>19, ClientUnitsIdle, BuyerStep
<1> QED
  BY <1>20
-----------------------------------------------------------------------------
(***************************************************************************)
(* The invariant at the start and along every step.                        *)
(***************************************************************************)
UnitsBacked == \E out \in [Offering -> Nat] : UnitsInv(out)

LEMMA UnitsInit ==
    ASSUME Init
    PROVE  UnitsBacked
<1>1. PICK out : out = [c \in Offering |-> 0]
  OBVIOUS
<1>2. out \in [Offering -> Nat] /\ \A c \in Offering : out[c] = 0
  BY <1>1
<1>3. /\ \A k \in Callers : call[k].pc = "idle"
      /\ \A b \in Clients : client[b] = Idle /\ client[b].pc = "idle"
      /\ \A c \in Commands : offers[c] = NoOffer
      /\ \A a \in AuditIds : audits[a] = NoAudit
  BY DEF Init, Idle
<1>4. Balance(out)
  <2> SUFFICES ASSUME NEW p \in Products
               PROVE  items[p].qty + Cardinality(UnitsOut(out, p)) = Quantity[p]
    BY DEF Balance
  <2>1. items[p].qty = Quantity[p] /\ Quantity[p] \in Nat
    BY LineupAssumption DEF Init
  <2>2. \A c \in Offering : Action[c].quantity * out[c] = 0
    BY <1>2, OfferingTypes
  <2>3. UnitsOut(out, p) = {}
    <3> DEFINE f == [c \in Offering |-> Action[c].quantity * out[c]]
    <3>1. \A c \in OfferingOf(p) : f[c] = 0
      BY <2>2 DEF OfferingOf
    <3> HIDE DEF f
    <3>2. Stacked(OfferingOf(p), f) = {}
      BY <3>1 DEF Stacked
    <3> QED
      BY <3>2 DEF UnitsOut, f
  <2>4. Cardinality(UnitsOut(out, p)) = 0
    BY <2>3, FS_EmptySet
  <2> QED
    BY <2>1, <2>4
<1>5. Backed(out)
  <2> SUFFICES ASSUME NEW c \in Offering PROVE Packets(c) <= out[c]
    BY DEF Backed
  <2>1. Carrying(c) = {} /\ Returning(c) = {}
    BY <1>3 DEF Carrying, Returning, At
  <2>2. ~ Live(c)
    BY <1>3, OfferingTypes DEF Live, NoOffer
  <2>3. Carried(c) = 0 /\ Cardinality(Returning(c)) = 0
    BY <2>1, FS_EmptySet DEF Carried
  <2>4. Packets(c) = 0
    BY <2>2, <2>3 DEF Packets
  <2> QED
    BY <1>2, <2>4
<1>6. UnitsInv(out)
  BY <1>3, <1>4, <1>5 DEF UnitsInv, AuditUnits, ClientUnits
<1> QED
  BY <1>2, <1>6 DEF UnitsBacked

LEMMA UnitsStutter ==
    ASSUME Inv, Inv', NEW out \in [Offering -> Nat], UnitsInv(out), UNCHANGED requestVars
    PROVE  UnitsInv(out)'
<1>1. UNCHANGED <<items, offers, audits, call, client>>
  BY DEF requestVars
<1>2. \A c \in Offering : Carried(c)' <= Carried(c) /\ Packets(c)' <= Packets(c)
  <2> TAKE c \in Offering
  <2>1. Carrying(c)' \in SUBSET Carrying(c) /\ Returning(c)' \in SUBSET Returning(c)
    BY <1>1 DEF Carrying, Returning, At
  <2>2. Held(c)' => Held(c)
    BY <1>1 DEF Held, Live, SelfDoomed, At
  <2> QED
    BY <2>1, <2>2, FewerPackets
<1>3. TokensKept(out, out) /\ Balance(out)' /\ Backed(out)' /\ RowsMove
  BY <1>1, <1>2, SameOut
<1>4. OffersSteady /\ Frame(out, out)
  BY <1>1, <1>3, RecordsUntouched, OffersUntouched DEF Frame
<1>5. \A k \in Callers, c \in Commands :
        call'[k].pc \in {"write", "offer", "audit"} /\ call'[k].cmd = c => ApplyUnits(out, call[k], c)'
  BY <1>1, <1>4, ApplyUnitsKept
<1>6. \A k \in Callers, a \in AuditIds :
        call'[k].pc \in {"remove", "note"} /\ call'[k].audit = a => RollbackUnits(out, call[k], a)'
  BY <1>1, <1>4, RollbackUnitsKept
<1>7. \A a \in AuditIds : AuditUnits(out, a)'
  <2> TAKE a \in AuditIds
  <2>1. CASE audits[a] # NoAudit
    BY <1>4, <2>1, AuditUnitsKept
  <2>2. CASE audits'[a] = NoAudit
    BY <2>2 DEF AuditUnits, NoAudit
  <2> QED
    BY <1>1, <2>1, <2>2
<1>8. \A b \in Clients : ClientUnits(client[b])'
  BY <1>1, <1>3, <1>4, ClientUnitsKept DEF UnitsInv
<1>9. RollingBack' = RollingBack /\ \A c \in Commands : offers'[c] # NoOffer => c \in Offering
  BY <1>1 DEF RollingBack, UnitsInv
<1>10. RollingBack' # {} => \A b \in Clients : client'[b] = Idle
  BY <1>1, <1>9 DEF UnitsInv
<1> QED
  BY <1>3, <1>5, <1>6, <1>7, <1>8, <1>9, <1>10 DEF UnitsInv, NoOffer, Offering, Idle

LEMMA UnitsStep ==
    ASSUME Orderly, Inv, Inv', UnitsBacked, [Next]_vars
    PROVE  UnitsBacked'
<1>1. PICK out \in [Offering -> Nat] : UnitsInv(out)
  BY DEF UnitsBacked
<1>2. ASSUME NEW new \in [Offering -> Nat], UnitsInv(new)' PROVE UnitsBacked'
  BY <1>2 DEF UnitsBacked, Offering
<1>3. CASE UNCHANGED requestVars
  BY <1>1, <1>2, <1>3, UnitsStutter
<1>4. ASSUME NEW k \in Callers,
             \/ \E c \in Commands : ApplyFind(k, c)
             \/ \E a \in AuditIds : RollbackCheck(k, a)
             \/ CallerDies(k)
      PROVE  UnitsBacked'
  BY <1>1, <1>2, <1>4, UnitsQuiet
<1>5. ASSUME NEW k \in Callers, ApplyList(k) PROVE UnitsBacked'
  BY <1>1, <1>2, <1>5, UnitsListed
<1>6. ASSUME NEW k \in Callers, ApplyWrite(k) PROVE UnitsBacked'
  <2>1. CASE Writable(call[k].changes)
    BY <1>1, <1>2, <1>6, <2>1, UnitsWritten
  <2>2. CASE ~ Writable(call[k].changes)
    <3>1. Caller(k, Idle) /\ UNCHANGED items
      BY <1>6, <2>2 DEF ApplyWrite
    <3> QED
      BY <1>1, <1>2, <1>6, <3>1, UnitsQuiet
  <2> QED
    BY <2>1, <2>2
<1>7. ASSUME NEW k \in Callers, ApplyOffer(k) PROVE UnitsBacked'
  BY <1>1, <1>2, <1>7, UnitsOffered
<1>8. ASSUME NEW k \in Callers, ApplyAudit(k) PROVE UnitsBacked'
  BY <1>1, <1>2, <1>8, UnitsAudited
<1>9. ASSUME NEW k \in Callers, RollbackWrite(k) PROVE UnitsBacked'
  <2>1. CASE Caller(k, Idle) /\ UNCHANGED items
    BY <1>1, <1>2, <1>9, <2>1, UnitsQuiet
  <2>2. CASE ~ (Caller(k, Idle) /\ UNCHANGED items)
    BY <1>1, <1>2, <1>9, <2>2, UnitsUndone
  <2> QED
    BY <2>1, <2>2
<1>10. ASSUME NEW k \in Callers, RollbackRemove(k) PROVE UnitsBacked'
  BY <1>1, <1>2, <1>10, UnitsRemoved
<1>11. ASSUME NEW k \in Callers, RollbackRecord(k) PROVE UnitsBacked'
  BY <1>1, <1>2, <1>11, UnitsRecorded
<1>12. ASSUME NEW b \in Clients,
              \/ \E c \in Commands, to \in {"accepted", "cancelled"} : BuyerReads(b, c, to)
              \/ BuyerOrders(b) \/ BuyerRestocks(b) \/ ClientDies(b)
       PROVE  UnitsBacked'
  BY <1>1, <1>2, <1>12, UnitsQuietBuyer
<1>13. ASSUME NEW b \in Clients, BuyerClaims(b) PROVE UnitsBacked'
  <2>1. UNCHANGED items
    BY <1>13 DEF BuyerClaims
  <2>2. CASE Client(b, Idle) /\ UNCHANGED offers
    BY <1>1, <1>2, <1>13, <2>1, <2>2, UnitsQuietBuyer
  <2>3. CASE ~ (Client(b, Idle) /\ UNCHANGED offers)
    BY <1>1, <1>2, <1>13, <2>3, UnitsClaimed
  <2> QED
    BY <2>2, <2>3
<1>14. ASSUME NEW b \in Clients, BuyerReturns(b) PROVE UnitsBacked'
  <2>1. Client(b, Idle) /\ UNCHANGED offers
    BY <1>14 DEF BuyerReturns
  <2>2. CASE UNCHANGED items
    BY <1>1, <1>2, <1>14, <2>1, <2>2, UnitsQuietBuyer
  <2>3. CASE ~ UNCHANGED items
    BY <1>1, <1>2, <1>14, <2>3, UnitsReturned
  <2> QED
    BY <2>2, <2>3
<1> QED
  BY <1>3, <1>4, <1>5, <1>6, <1>7, <1>8, <1>9, <1>10, <1>11, <1>12, <1>13, <1>14, PolicySteps
  DEF Requests

\* Offers on hold are among the packets that are out.
LEMMA HeldAreOut ==
    ASSUME Inv, UnitsBacked
    PROVE  UnitsNotInvented
<1>1. PICK out \in [Offering -> Nat] : UnitsInv(out)
  BY DEF UnitsBacked
<1> SUFFICES ASSUME NEW p \in Products
             PROVE  items[p].qty + Cardinality(HeldUnits(p)) <= Quantity[p]
  BY DEF UnitsNotInvented
<1> DEFINE f == [c \in Offering |-> Action[c].quantity * out[c]]
<1>2. ASSUME NEW c \in Holding(p)
      PROVE  c \in OfferingOf(p) /\ out[c] >= 1
  <2>1. c \in Commands /\ Action[c].product = p /\ Live(c) /\ c \notin Doomed
    BY DEF Holding
  <2>2. c \in Offering
    BY <1>1, <2>1 DEF UnitsInv, Live, NoOffer
  <2>3. c \notin SelfDoomed
    BY <2>1 DEF SelfDoomed, Doomed, At
  <2>4. Carried(c) \in Nat /\ Cardinality(Returning(c)) \in Nat /\ out[c] \in Nat
    BY <2>2, PacketTypes
  <2>5. Packets(c) = Carried(c) + Cardinality(Returning(c)) + 1
    BY <2>1, <2>3 DEF Packets
  <2>6. Packets(c) <= out[c]
    BY <1>1, <2>2 DEF UnitsInv, Backed
  <2> QED
    BY <2>1, <2>2, <2>4, <2>5, <2>6 DEF OfferingOf
<1>3. \A c \in Offering : f[c] \in Nat
  <2> SUFFICES ASSUME NEW c \in Offering PROVE Action[c].quantity * out[c] \in Nat
    OBVIOUS
  <2>1. Action[c].quantity \in Nat /\ out[c] \in Nat
    BY OfferingTypes
  <2> QED
    BY <2>1
<1>4. IsFiniteSet(UnitsOut(out, p)) /\ Cardinality(UnitsOut(out, p)) \in Nat
  <2>1. IsFiniteSet(OfferingOf(p)) /\ \A c \in OfferingOf(p) : f[c] \in Nat
    BY <1>3, OfferingTypes
  <2>2. UnitsOut(out, p) = Stacked(OfferingOf(p), f)
    BY DEF UnitsOut
  <2> HIDE DEF f
  <2> QED
    BY <2>1, <2>2, StackedFinite
<1>5. HeldUnits(p) \in SUBSET UnitsOut(out, p)
  <2> SUFFICES ASSUME NEW u \in HeldUnits(p) PROVE u \in Stacked(OfferingOf(p), f)
    BY DEF UnitsOut
  <2>1. PICK c \in Holding(p) : u \in {c} \X (1..Action[c].quantity)
    BY DEF HeldUnits
  <2>2. c \in OfferingOf(p) /\ c \in Offering /\ Action[c].quantity \in Nat /\ out[c] \in Nat /\ out[c] >= 1
    BY <1>2, OfferingTypes DEF OfferingOf
  <2>3. Action[c].quantity <= Action[c].quantity * out[c]
    <3>1. PICK q \in Nat, n \in Nat : q = Action[c].quantity /\ n = out[c] - 1
      BY <2>2
    <3>2. out[c] = n + 1
      BY <2>2, <3>1
    <3>3. q * (n + 1) = q * n + q /\ q * n \in Nat
      OBVIOUS
    <3> QED
      BY <3>1, <3>2, <3>3
  <2>4. Action[c].quantity <= f[c] /\ f[c] \in Nat
    BY <1>3, <2>2, <2>3
  <2> HIDE DEF f
  <2>5. u \in {c} \X (1..f[c])
    BY <2>1, <2>2, <2>4
  <2> QED
    BY <2>2, <2>5 DEF Stacked
<1>6. IsFiniteSet(HeldUnits(p)) /\ Cardinality(HeldUnits(p)) <= Cardinality(UnitsOut(out, p))
  BY <1>4, <1>5, FS_Subset
<1>7. Cardinality(HeldUnits(p)) \in Nat
  BY <1>6, FS_CardinalityType
<1>8. items[p].qty + Cardinality(UnitsOut(out, p)) = Quantity[p] /\ items[p].qty \in Nat
  BY <1>1, RowTypes DEF UnitsInv, Balance
<1> QED
  BY <1>4, <1>6, <1>7, <1>8

(***************************************************************************)
(* Units are never invented, for every lineup, every set of commands and   *)
(* any number of requests, crashes and rollbacks of rollbacks: with every  *)
(* write of the lineup a packet of units leaves it or comes back, and only *)
(* a packet that nobody else has is given back.  The hypothesis is the one *)
(* of the run: a rollback runs to its end with no buyer's request beside   *)
(* it.                                                                     *)
(***************************************************************************)
THEOREM OffersUnitsKept == ASSUME Orderly PROVE Spec => []UnitsNotInvented
<1>1. Init => UnitsBacked
  BY UnitsInit
<1>2. Inv /\ Inv' /\ UnitsBacked /\ [Next]_vars => UnitsBacked'
  BY UnitsStep
<1>3. Inv /\ UnitsBacked => UnitsNotInvented
  BY HeldAreOut
<1> QED
  BY <1>1, <1>2, <1>3, InvAlways, PTL DEF Spec
=============================================================================
