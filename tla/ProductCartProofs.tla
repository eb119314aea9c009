------------------------- MODULE ProductCartProofs -------------------------
(***************************************************************************)
(* Theorems about the carts of products outside an event, for every set of *)
(* carts, products, other sources and open calls: type correctness, and    *)
(* that the ledger keeps the promise of Allocation to every other source   *)
(* whatever half-done, dead or racing cart calls do to it.                 *)
(***************************************************************************)
EXTENDS ProductCart, StockProofs

\* An open call.
Active == [pc : Points, op : Operations, of : Carts, product : Variants, n : 1..MaxUnits,
           copy : Lines, todo : SUBSET Variants]

\* What the call is about to reserve is a quantity that assertQuantity let pass.
Asserted(at) ==
    at.pc \in {"sweep", "reserve"} /\ at.op = "hold"
        => at.copy[at.product].quantity + at.n <= MaxUnits

CallInv(at) == at \in CallStates /\ Asserted(at)

CartInv ==
    /\ cart \in [Carts -> [exists : BOOLEAN, lines : Lines]]
    /\ call \in [Calls -> CallStates] /\ \A x \in Calls : CallInv(call[x])
    /\ deaths \in 0..MaxDeaths

-----------------------------------------------------------------------------
LEMMA CallForms ==
    /\ CallStates = {IdleCall} \cup Active
    /\ \A at \in CallStates : at.pc # "idle" => at \in Active
    /\ CallInv(IdleCall)
<1>1. CallStates = {IdleCall} \cup Active
  BY DEF CallStates, Active
<1>2. IdleCall.pc = "idle"
  BY DEF IdleCall
<1> QED
  BY <1>1, <1>2 DEF CallInv, Asserted

LEMMA LineForms ==
    /\ NoLine \in Line /\ NoLines \in Lines
    /\ \A lines \in Lines : In(lines) \in SUBSET Variants /\ Expired(lines) \in SUBSET Variants
    /\ \A lines \in Lines : \A gone : Without(lines, gone) \in Lines
<1>1. NoLine \in Line
  BY MaxUnitsAssumption DEF NoLine, Line
<1> QED
  BY <1>1 DEF NoLines, Lines, In, Expired, Without

\* A call that goes on elsewhere, with another copy and other lines to do.
LEMMA Moves ==
    ASSUME NEW at \in Active, NEW pc \in Points, NEW copy \in Lines, NEW todo \in SUBSET Variants
    PROVE  /\ [at EXCEPT !.pc = pc, !.todo = todo] \in Active
           /\ [at EXCEPT !.pc = pc, !.copy = copy, !.todo = todo] \in Active
           /\ [at EXCEPT !.pc = pc, !.todo = todo, !.copy = copy] \in Active
           /\ [at EXCEPT !.copy = copy] \in Active
           /\ [at EXCEPT !.pc = pc] \in Active
           /\ [at EXCEPT !.todo = todo] \in Active
  BY DEF Active

LEMMA FoundOK ==
    ASSUME NEW at \in Active, NEW lines \in Lines
    PROVE  CallInv(Found(at, lines))
<1> DEFINE now == [at EXCEPT !.copy = lines]
           line == lines[at.product]
<1>1. /\ now \in Active /\ now.copy = lines /\ now.product = at.product
      /\ now.n = at.n /\ now.op = at.op
      /\ line \in Line /\ at.product \in Variants /\ at.n \in 1..MaxUnits
  BY Moves DEF Active, Lines
<1>2. CASE at.op = "hold" /\ assertQuantity(line, at.n)
  <2> DEFINE new == [now EXCEPT !.pc = "sweep", !.todo = {}]
  <2>1. Found(at, lines) = new
    BY <1>2 DEF Found
  <2>2. new \in Active
    BY <1>1, Moves DEF Points
  <2>3. new.copy = lines /\ new.product = at.product /\ new.n = at.n
    BY <1>1 DEF Active
  <2> QED
    BY <1>2, <2>1, <2>2, <2>3, CallForms DEF CallInv, Asserted, assertQuantity
<1>3. ASSUME NEW new \in Active, new.pc \notin {"sweep", "reserve"} \/ new.op # "hold"
      PROVE  CallInv(new)
  BY <1>3, CallForms DEF CallInv, Asserted
<1>4. CASE at.op = "add" /\ assertQuantity(line, at.n)
  <2> DEFINE sum == [quantity |-> line.quantity + at.n, expiry |-> "later"]
             new == [now EXCEPT !.pc = "write", !.todo = {}, !.copy[at.product] = sum]
  <2>1. Found(at, lines) = new
    BY <1>4 DEF Found
  <2>2. sum \in Line
    BY <1>1, <1>4, MaxUnitsAssumption DEF Line, assertQuantity
  <2>3. [lines EXCEPT ![at.product] = sum] \in Lines
    BY <2>2 DEF Lines
  <2>4. new = [now EXCEPT !.pc = "write", !.todo = {}, !.copy = [lines EXCEPT ![at.product] = sum]]
    BY <1>1 DEF Active
  <2>5. new \in Active
    BY <1>1, <2>3, <2>4, Moves DEF Points
  <2>6. new.pc = "write"
    BY <1>1 DEF Active
  <2> QED
    BY <1>3, <2>1, <2>5, <2>6
<1>5. CASE at.op = "add" /\ ~ assertQuantity(line, at.n)
  <2> DEFINE new == [now EXCEPT !.pc = "undo", !.todo = {}, !.copy = NoLines]
  <2>1. Found(at, lines) = new
    BY <1>5 DEF Found
  <2>2. new \in Active
    BY <1>1, Moves, LineForms DEF Points
  <2>3. new.pc = "undo"
    BY <1>1 DEF Active
  <2> QED
    BY <1>3, <2>1, <2>2, <2>3
<1>6. CASE at.op = "set" /\ line.quantity > 0
  <2> DEFINE new == [now EXCEPT !.pc = "sweep", !.todo = {}]
  <2>1. Found(at, lines) = new
    BY <1>6 DEF Found
  <2>2. new \in Active
    BY <1>1, Moves DEF Points
  <2>3. new.op = "set"
    BY <1>1, <1>6 DEF Active
  <2> QED
    BY <1>3, <2>1, <2>2, <2>3
<1>7. CASE at.op = "remove"
  <2> DEFINE new == [now EXCEPT !.pc = "free", !.todo = In(lines) \cap {at.product}]
  <2>1. Found(at, lines) = new
    BY <1>7 DEF Found
  <2>2. new \in Active
    BY <1>1, Moves, LineForms DEF Points
  <2>3. new.pc = "free"
    BY <1>1 DEF Active
  <2> QED
    BY <1>3, <2>1, <2>2, <2>3
<1>8. CASE /\ ~ (at.op = "hold" /\ assertQuantity(line, at.n))
           /\ at.op # "add" /\ at.op # "remove" /\ ~ (at.op = "set" /\ line.quantity > 0)
  <2>1. Found(at, lines) = IdleCall
    BY <1>8 DEF Found
  <2> QED
    BY <2>1, CallForms
<1> QED
  BY <1>2, <1>4, <1>5, <1>6, <1>7, <1>8
\* findCart, and the start of a commit or a release.
LEMMA FindOK ==
    ASSUME NEW at \in Active, CartInv
    PROVE  CallInv(Find(at))
<1> DEFINE stored == cart[at.of]
<1>1. stored.exists \in BOOLEAN /\ stored.lines \in Lines
  BY DEF CartInv, Active
<1>2. ASSUME NEW new \in Active, new.pc \in {"create", "purge"}
      PROVE  CallInv(new)
  BY <1>2, CallForms DEF CallInv, Asserted
<1>3. CASE ~ stored.exists /\ at.op \in {"hold", "add"}
  <2> DEFINE new == [at EXCEPT !.pc = "create"]
  <2>1. Find(at) = new
    BY <1>3 DEF Find
  <2>2. new \in Active /\ new.pc = "create"
    BY DEF Active, Points
  <2> QED
    BY <1>2, <2>1, <2>2
<1>4. CASE ~ stored.exists /\ at.op \notin {"hold", "add"}
  <2>1. Find(at) = IdleCall
    BY <1>4 DEF Find
  <2> QED
    BY <2>1, CallForms
<1>5. CASE stored.exists /\ Expired(stored.lines) # {}
  <2> DEFINE new == [at EXCEPT !.pc = "purge", !.copy = stored.lines, !.todo = Expired(stored.lines)]
  <2>1. Find(at) = new
    BY <1>5 DEF Find
  <2>2. Expired(stored.lines) \in SUBSET Variants
    BY <1>1, LineForms
  <2>3. new \in Active
    BY <1>1, <2>2, Moves DEF Points
  <2>4. new.pc = "purge"
    BY DEF Active
  <2> QED
    BY <1>2, <2>1, <2>3, <2>4
<1>6. CASE stored.exists /\ Expired(stored.lines) = {}
  <2>1. Find(at) = Found(at, stored.lines)
    BY <1>6 DEF Find
  <2> QED
    BY <1>1, <2>1, FoundOK
<1> QED
  BY <1>3, <1>4, <1>5, <1>6

LEMMA SettleOK ==
    ASSUME NEW at \in Active, CartInv
    PROVE  CallInv(Settle(at))
<1> DEFINE lines == cart[at.of].lines
           new == [at EXCEPT !.pc = "settle", !.copy = lines, !.todo = In(lines)]
<1>1. lines \in Lines /\ In(lines) \in SUBSET Variants
  <2>1. lines \in Lines
    BY DEF CartInv, Active
  <2> QED
    BY <2>1, LineForms
<1>2. new \in Active
  BY <1>1, Moves DEF Points
<1>3. new.pc = "settle"
  BY DEF Active
<1>4. Settle(at) = IdleCall \/ Settle(at) = new
  BY DEF Settle
<1> HIDE DEF new
<1> QED
  BY <1>2, <1>3, <1>4, CallForms DEF CallInv, Asserted

\* A call with one line fewer to do.
LEMMA RestOK ==
    ASSUME NEW x \in Calls, NEW v, CartInv, call[x].pc # "idle"
    PROVE  CallInv(Rest(x, v)) /\ CallInv(Thrown(x, v))
<1> DEFINE less == [call[x] EXCEPT !.todo = @ \ {v}]
           drain == [call[x] EXCEPT !.pc = "drain", !.todo = @ \ {v}]
<1>1. call[x] \in Active /\ Asserted(call[x])
  BY CallForms DEF CartInv, CallInv
<1>2. less \in Active /\ drain \in Active
  BY <1>1 DEF Active, Points
<1>3. /\ less.pc = call[x].pc /\ less.op = call[x].op /\ less.copy = call[x].copy
      /\ less.product = call[x].product /\ less.n = call[x].n
      /\ drain.pc = "drain"
  BY <1>1 DEF Active
<1>4. CallInv(less) /\ CallInv(drain)
  BY <1>1, <1>2, <1>3, CallForms DEF CallInv, Asserted
<1> QED
  BY <1>4, CallForms DEF Rest, Thrown

\* One call moves on, the others stay where they are.
LEMMA GotoKeeps ==
    ASSUME CartInv, NEW x \in Calls, NEW next, Goto(x, next), CallInv(next)
    PROVE  call' \in [Calls -> CallStates] /\ \A y \in Calls : CallInv(call'[y])
<1>1. call \in [Calls -> CallStates] /\ next \in CallStates /\ call' = [call EXCEPT ![x] = next]
  BY DEF CartInv, Goto, CallInv
<1>2. call' \in [Calls -> CallStates]
  BY <1>1
<1>3. \A y \in Calls : call'[y] = next \/ call'[y] = call[y]
  BY <1>1
<1> QED
  BY <1>2, <1>3 DEF CartInv

LEMMA StoreKeeps ==
    ASSUME CartInv, NEW x \in Calls, call[x].pc # "idle", NEW lines \in Lines, Store(x, lines)
    PROVE  cart' \in [Carts -> [exists : BOOLEAN, lines : Lines]]
<1>1. call[x].of \in Carts
  BY CallForms DEF CartInv, CallInv, Active
<1> QED
  BY <1>1 DEF CartInv, Store

\* The reservation of a line is a key of the ledger.
LEMMA LineKey ==
    ASSUME CartInv, NEW x \in Calls, call[x].pc # "idle", NEW v \in Variants
    PROVE  KeyOf(x, v) \in Keys
  BY CallForms, LinesAreKeys DEF CartInv, CallInv, Active, KeyOf

LEMMA FreeLineStep ==
    ASSUME CartInv, NEW x \in Calls, call[x].pc # "idle", NEW v \in Variants, FreeLine(x, v)
    PROVE  [StockNext]_stockVars /\ UNCHANGED <<cart, deaths>>
  BY LineKey DEF FreeLine, StockNext

\* A quantity that is reserved for a line is between one and the bound.
LEMMA WantedOK ==
    ASSUME CartInv, NEW x \in Calls, call[x].pc = "reserve"
    PROVE  Wanted(x) \in 1..MaxUnits /\ Deadline(x) \in SUBSET {"never", "later", "due"}
<1>1. call[x] \in Active /\ Asserted(call[x])
  BY CallForms DEF CartInv, CallInv
<1>2. /\ call[x].copy[call[x].product] \in Line /\ call[x].n \in 1..MaxUnits
  BY <1>1 DEF Active, Lines
<1> QED
  BY <1>1, <1>2, MaxUnitsAssumption DEF Wanted, Deadline, Asserted, Line
-----------------------------------------------------------------------------
(***************************************************************************)
(* The steps: each keeps the invariant and does to the ledger what one of  *)
(* the ledger's own operations does, or nothing.                           *)
(***************************************************************************)
Kept == CartInv' /\ [StockNext]_stockVars

LEMMA CallMovesOn ==
    ASSUME CartInv, NEW x \in Calls, NEW next, Goto(x, next), CallInv(next),
           [StockNext]_stockVars, deaths' = deaths,
           cart' \in [Carts -> [exists : BOOLEAN, lines : Lines]]
    PROVE  Kept
<1>1. call' \in [Calls -> CallStates] /\ \A y \in Calls : CallInv(call'[y])
  BY GotoKeeps
<1>2. deaths' \in 0..MaxDeaths
  BY DEF CartInv
<1> QED
  BY <1>1, <1>2 DEF Kept, CartInv, CallInv, Asserted

\* The same for a step that leaves the cart table alone.
LEMMA CallGoesOn ==
    ASSUME CartInv, NEW x \in Calls, NEW next, Goto(x, next), CallInv(next),
           [StockNext]_stockVars, UNCHANGED <<cart, deaths>>
    PROVE  Kept
<1>1. cart' \in [Carts -> [exists : BOOLEAN, lines : Lines]]
  BY DEF CartInv
<1> QED
  BY <1>1, CallMovesOn

LEMMA BeginStep ==
    ASSUME CartInv, NEW x \in Calls, NEW op \in Operations, NEW c \in Carts, NEW v \in Variants,
           NEW n \in 1..MaxUnits, Begin(x, op, c, v, n)
    PROVE  Kept
<1> DEFINE at == [pc |-> "purge", op |-> op, of |-> c, product |-> v, n |-> n,
                  copy |-> NoLines, todo |-> {}]
           next == IF op \in {"commit", "release"} THEN Settle(at) ELSE Find(at)
<1>1. at \in Active
  BY LineForms DEF Active, Points
<1> HIDE DEF at
<1>2. CallInv(next)
  BY <1>1, FindOK, SettleOK
<1>3. Goto(x, next) /\ UNCHANGED stockVars /\ UNCHANGED <<cart, deaths>>
  BY DEF Begin, at, Quiet
<1> HIDE DEF next
<1> QED
  BY <1>2, <1>3, CallGoesOn

LEMMA PurgeLineStep ==
    ASSUME CartInv, NEW x \in Calls, NEW v \in Variants, PurgeLine(x, v)
    PROVE  Kept
<1>1. call[x].pc # "idle" /\ FreeLine(x, v) /\ Goto(x, Rest(x, v))
  BY DEF PurgeLine
<1> QED
  BY <1>1, RestOK, FreeLineStep, CallGoesOn

LEMMA SettleLineStep ==
    ASSUME CartInv, NEW x \in Calls, NEW v \in Variants, SettleLine(x, v)
    PROVE  Kept
<1>1. call[x].pc # "idle"
  BY DEF SettleLine
<1>2. CallInv(Rest(x, v)) /\ CallInv(Thrown(x, v))
  BY <1>1, RestOK
<1>3. CASE FreeLine(x, v) /\ Goto(x, Rest(x, v))
  BY <1>1, <1>2, <1>3, FreeLineStep, CallGoesOn
<1>4. CASE Commit(KeyOf(x, v)) /\ Goto(x, Rest(x, v)) /\ UNCHANGED <<cart, deaths>>
  <2>1. StockNext
    BY <1>1, <1>4, LineKey DEF StockNext
  <2> QED
    BY <1>2, <1>4, <2>1, CallGoesOn
<1>5. CASE Goto(x, Thrown(x, v)) /\ Quiet
  <2>1. UNCHANGED stockVars /\ UNCHANGED <<cart, deaths>>
    BY <1>5 DEF Quiet
  <2> QED
    BY <1>2, <1>5, <2>1, CallGoesOn
<1> QED
  BY <1>3, <1>4, <1>5 DEF SettleLine

LEMMA PurgeWriteStep ==
    ASSUME CartInv, NEW x \in Calls, PurgeWrite(x) \/ CreateCart(x)
    PROVE  Kept
<1>1. call[x].pc # "idle" /\ UNCHANGED stockVars /\ deaths' = deaths
  BY DEF PurgeWrite, CreateCart
<1>2. call[x] \in Active
  BY <1>1, CallForms DEF CartInv, CallInv
<1>3. \E lines \in Lines : Store(x, lines) /\ Goto(x, Found(call[x], lines))
  <2>1. CASE PurgeWrite(x)
    <3>1. call[x].copy \in Lines
      BY <1>2 DEF Active
    <3>2. \A gone : Without(call[x].copy, gone) \in Lines
      BY <3>1, LineForms
    <3> QED
      BY <2>1, <3>2 DEF PurgeWrite
  <2>2. CASE CreateCart(x)
    BY <2>2, LineForms DEF CreateCart
  <2> QED
    BY <2>1, <2>2
<1>4. PICK lines \in Lines : Store(x, lines) /\ Goto(x, Found(call[x], lines))
  BY <1>3
<1>5. CallInv(Found(call[x], lines))
  BY <1>2, FoundOK
<1>6. cart' \in [Carts -> [exists : BOOLEAN, lines : Lines]]
  BY <1>1, <1>4, StoreKeeps
<1> QED
  BY <1>1, <1>4, <1>5, <1>6, CallMovesOn

LEMMA SweepFirstStep ==
    ASSUME CartInv, NEW x \in Calls, SweepFirst(x)
    PROVE  Kept
<1> DEFINE next == [call[x] EXCEPT !.pc = "reserve"]
<1>1. call[x].pc = "sweep" /\ Goto(x, next) /\ UNCHANGED <<cart, deaths>>
  BY DEF SweepFirst
<1>2. [StockNext]_stockVars
  BY DEF SweepFirst, StockNext
<1>3. call[x] \in Active /\ Asserted(call[x])
  BY <1>1, CallForms DEF CartInv, CallInv
<1>4. /\ next \in Active /\ next.op = call[x].op /\ next.copy = call[x].copy
      /\ next.product = call[x].product /\ next.n = call[x].n
  BY <1>3 DEF Active, Points
<1>5. CallInv(next)
  BY <1>1, <1>3, <1>4, CallForms DEF CallInv, Asserted
<1> HIDE DEF next
<1> QED
  BY <1>1, <1>2, <1>5, CallGoesOn

LEMMA ReserveLineStep ==
    ASSUME CartInv, NEW x \in Calls, ReserveLine(x)
    PROVE  Kept
<1> DEFINE k == KeyOf(x, call[x].product)
           next == IF call[x].op = "hold" THEN AddItem(x) ELSE Resized(x)
<1>1. call[x].pc = "reserve" /\ UNCHANGED <<cart, deaths>>
  BY DEF ReserveLine
<1>2. call[x] \in Active /\ call[x].product \in Variants
  BY <1>1, CallForms DEF CartInv, CallInv, Active
<1>3. Wanted(x) \in 1..MaxUnits /\ Deadline(x) \in SUBSET {"never", "later", "due"} /\ k \in Keys
  BY <1>1, <1>2, WantedOK, LineKey
<1>4. CallInv(AddItem(x))
  <2> DEFINE at == [call[x] EXCEPT !.pc = "purge", !.op = "add", !.copy = NoLines, !.todo = {}]
  <2>1. at \in Active
    BY <1>2, LineForms DEF Active, Points, Operations
  <2>2. AddItem(x) = Find(at)
    BY DEF AddItem
  <2> HIDE DEF at
  <2> QED
    BY <2>1, <2>2, FindOK
<1>5. CallInv(Resized(x))
  <2> DEFINE copy == [call[x].copy EXCEPT ![call[x].product].quantity = call[x].n]
             at == [call[x] EXCEPT !.pc = "write", !.copy = copy]
  <2>1. copy \in Lines
    BY <1>2, MaxUnitsAssumption DEF Active, Lines, Line
  <2>2. Resized(x) = at
    BY <1>2 DEF Resized, Active
  <2> HIDE DEF copy
  <2>3. at \in Active /\ at.pc = "write"
    BY <1>2, <2>1 DEF Active, Points
  <2> QED
    BY <2>2, <2>3, CallForms DEF CallInv, Asserted
<1>6. CASE (\E expiry \in Deadline(x) : Reserve(k, Wanted(x), expiry)) /\ Goto(x, next)
  <2>1. StockNext
    BY <1>3, <1>6 DEF StockNext
  <2>2. CallInv(next)
    BY <1>4, <1>5
  <2> HIDE DEF next
  <2> QED
    BY <1>1, <1>6, <2>1, <2>2, CallGoesOn
<1>7. CASE UNCHANGED stockVars /\ Goto(x, IdleCall)
  BY <1>1, <1>7, CallForms, CallGoesOn
<1> QED
  BY <1>6, <1>7 DEF ReserveLine
LEMMA RemoveLineStep ==
    ASSUME CartInv, NEW x \in Calls, RemoveLine(x)
    PROVE  Kept
<1> DEFINE copy == Without(call[x].copy, {call[x].product})
           next == [call[x] EXCEPT !.pc = "write", !.todo = {}, !.copy = copy]
<1>1. call[x].pc = "free"
  BY DEF RemoveLine
<1>2. call[x] \in Active
  BY <1>1, CallForms DEF CartInv, CallInv
<1>3. copy \in Lines
  BY <1>2, LineForms DEF Active
<1>4. Goto(x, next)
  BY <1>2 DEF RemoveLine, Active
<1> HIDE DEF copy
<1>5. next \in Active /\ next.pc = "write"
  BY <1>2, <1>3 DEF Active, Points
<1>6. CallInv(next)
  BY <1>5, CallForms DEF CallInv, Asserted
<1>7. [StockNext]_stockVars /\ UNCHANGED <<cart, deaths>>
  <2>1. CASE Quiet
    BY <2>1 DEF Quiet
  <2>2. ASSUME NEW v \in call[x].todo, FreeLine(x, v)
        PROVE  [StockNext]_stockVars /\ UNCHANGED <<cart, deaths>>
    <3>1. v \in Variants
      BY <1>2 DEF Active
    <3> QED
      BY <1>1, <2>2, <3>1, FreeLineStep
  <2> QED
    BY <2>1, <2>2 DEF RemoveLine
<1> HIDE DEF next
<1> QED
  BY <1>4, <1>6, <1>7, CallGoesOn

LEMMA WriteCartStep ==
    ASSUME CartInv, NEW x \in Calls, WriteCart(x)
    PROVE  Kept
<1>1. call[x].pc # "idle" /\ Goto(x, IdleCall) /\ UNCHANGED stockVars /\ deaths' = deaths
  BY DEF WriteCart
<1>2. call[x].copy \in Lines
  BY <1>1, CallForms DEF CartInv, CallInv, Active
<1>3. Store(x, call[x].copy) \/ Store(x, NoLines)
  BY DEF WriteCart
<1>4. cart' \in [Carts -> [exists : BOOLEAN, lines : Lines]]
  BY <1>1, <1>2, <1>3, StoreKeeps, LineForms
<1> QED
  BY <1>1, <1>4, CallForms, CallMovesOn

LEMMA UndoHoldStep ==
    ASSUME CartInv, NEW x \in Calls, UndoHold(x)
    PROVE  Kept
<1> DEFINE drain == [call[x] EXCEPT !.pc = "drain"]
           next == IF call[x].todo = {} THEN IdleCall ELSE drain
<1>1. call[x].pc = "undo" /\ FreeLine(x, call[x].product) /\ Goto(x, next)
  BY DEF UndoHold
<1>2. call[x] \in Active /\ call[x].product \in Variants
  BY <1>1, CallForms DEF CartInv, CallInv, Active
<1>3. drain \in Active /\ drain.pc = "drain"
  BY <1>2 DEF Active, Points
<1>4. CallInv(next)
  <2>1. CallInv(drain)
    BY <1>3, CallForms DEF CallInv, Asserted
  <2> QED
    BY <2>1, CallForms
<1> HIDE DEF next
<1> QED
  BY <1>1, <1>2, <1>4, FreeLineStep, CallGoesOn

\* A call that fails, and the death of the process with every open call.
LEMMA DeathSteps ==
    ASSUME CartInv, (\E x \in Calls : CallFails(x)) \/ ProcessDies
    PROVE  Kept
<1>1. /\ deaths' \in 0..MaxDeaths /\ UNCHANGED stockVars
      /\ cart' \in [Carts -> [exists : BOOLEAN, lines : Lines]]
  <2>1. deaths < MaxDeaths /\ deaths' = deaths + 1 /\ UNCHANGED <<stockVars, cart>>
    BY DEF CallFails, ProcessDies
  <2>2. deaths \in 0..MaxDeaths /\ cart \in [Carts -> [exists : BOOLEAN, lines : Lines]]
    BY DEF CartInv
  <2>3. deaths' \in 0..MaxDeaths
    BY <2>1, <2>2, MaxDeathsAssumption
  <2> QED
    BY <2>1, <2>2, <2>3
<1>2. call' \in [Calls -> CallStates] /\ \A y \in Calls : CallInv(call'[y])
  <2>1. CASE ProcessDies
    BY <2>1, CallForms DEF ProcessDies
  <2>2. ASSUME NEW x \in Calls, CallFails(x)
        PROVE  call' \in [Calls -> CallStates] /\ \A y \in Calls : CallInv(call'[y])
    <3>1. PICK v \in Variants :
            Goto(x, IF call[x].op = "add" /\ call[x].pc \notin {"undo", "drain"}
                    THEN [call[x] EXCEPT !.pc = "undo", !.copy = NoLines, !.todo = @ \ {v}]
                    ELSE Thrown(x, v))
      BY <2>2 DEF CallFails
    <3> DEFINE undo == [call[x] EXCEPT !.pc = "undo", !.copy = NoLines, !.todo = @ \ {v}]
               next == IF call[x].op = "add" /\ call[x].pc \notin {"undo", "drain"}
                       THEN undo ELSE Thrown(x, v)
    <3>2. call[x].pc # "idle"
      BY <2>2 DEF CallFails
    <3>3. call[x] \in Active
      BY <3>2, CallForms DEF CartInv, CallInv
    <3>4. undo \in Active /\ undo.pc = "undo"
      BY <3>3, LineForms DEF Active, Points
    <3>5. CallInv(undo)
      BY <3>4, CallForms DEF CallInv, Asserted
    <3>6. CallInv(next)
      BY <3>2, <3>5, RestOK
    <3>7. Goto(x, next)
      BY <3>1
    <3> HIDE DEF next
    <3> QED
      BY <3>6, <3>7, GotoKeeps
  <2> QED
    BY <2>1, <2>2
<1> QED
  BY <1>1, <1>2 DEF Kept, CartInv, CallInv, Asserted

\* The clock of a line, and the ledger's other sources.
LEMMA OutsideSteps ==
    ASSUME CartInv, (\E c \in Carts, v \in Variants : LineLapses(c, v)) \/ Elsewhere
    PROVE  Kept
<1>1. call' = call /\ deaths' = deaths
  BY DEF LineLapses, Elsewhere
<1>2. cart' \in [Carts -> [exists : BOOLEAN, lines : Lines]]
  <2>1. ASSUME NEW c \in Carts, NEW v \in Variants, LineLapses(c, v)
        PROVE  cart' \in [Carts -> [exists : BOOLEAN, lines : Lines]]
    <3> DEFINE line == [cart[c].lines[v] EXCEPT !.expiry = "due"]
               lines == [cart[c].lines EXCEPT ![v] = line]
    <3>1. cart[c] \in [exists : BOOLEAN, lines : Lines] /\ cart[c].lines[v] \in Line
      BY DEF CartInv, Lines
    <3>2. line \in Line
      BY <3>1 DEF Line
    <3>3. lines \in Lines
      BY <3>1, <3>2 DEF Lines
    <3>4. cart' = [cart EXCEPT ![c] = [cart[c] EXCEPT !.lines = lines]]
      BY <2>1 DEF LineLapses
    <3> HIDE DEF lines
    <3>5. [cart[c] EXCEPT !.lines = lines] \in [exists : BOOLEAN, lines : Lines]
      BY <3>1, <3>3
    <3> QED
      BY <3>4, <3>5 DEF CartInv
  <2>2. CASE Elsewhere
    BY <2>2 DEF Elsewhere, CartInv
  <2> QED
    BY <2>1, <2>2
<1>3. [StockNext]_stockVars
  <2>1. CASE Elsewhere
    <3>1. Others \in SUBSET Keys
      BY LinesAreKeys
    <3> QED
      BY <2>1, <3>1 DEF Elsewhere, StockNext
  <2>2. CASE \E c \in Carts, v \in Variants : LineLapses(c, v)
    BY <2>2 DEF LineLapses
  <2> QED
    BY <2>1, <2>2
<1> QED
  BY <1>1, <1>2, <1>3 DEF Kept, CartInv, CallInv, Asserted

LEMMA CartStep == CartInv /\ [ProductCartNext]_cartVars => CartInv' /\ [StockNext]_stockVars
<1> SUFFICES ASSUME CartInv, [ProductCartNext]_cartVars
             PROVE  Kept
  BY DEF Kept
<1>1. ASSUME NEW x \in Calls, NEW c \in Carts, NEW v \in Variants,
             \/ \E op \in {"hold", "set"}, n \in 1..MaxUnits : Begin(x, op, c, v, n)
             \/ \E op \in {"read", "remove", "commit", "release"} : Begin(x, op, c, v, 1)
      PROVE  Kept
  <2>1. 1 \in 1..MaxUnits
    BY MaxUnitsAssumption
  <2>2. {"hold", "set", "read", "remove", "commit", "release"} \in SUBSET Operations
    BY DEF Operations
  <2> QED
    BY <1>1, <2>1, <2>2, BeginStep
<1>2. ASSUME NEW x \in Calls, CallStep(x)
      PROVE  Kept
  BY <1>2, PurgeLineStep, SettleLineStep, PurgeWriteStep, SweepFirstStep, ReserveLineStep,
     RemoveLineStep, WriteCartStep, UndoHoldStep DEF CallStep
<1>3. CASE UNCHANGED cartVars
  BY <1>3 DEF cartVars, stockVars, Kept, CartInv, CallInv, Asserted
<1> QED
  BY <1>1, <1>2, <1>3, DeathSteps, OutsideSteps DEF ProductCartNext

LEMMA CartInvAlways == ProductCartSpec => []CartInv
<1>1. ProductCartInit => CartInv
  <2> SUFFICES ASSUME ProductCartInit
               PROVE  CartInv
    OBVIOUS
  <2>1. cart \in [Carts -> [exists : BOOLEAN, lines : Lines]]
    BY LineForms DEF ProductCartInit
  <2>2. deaths \in 0..MaxDeaths
    BY MaxDeathsAssumption DEF ProductCartInit
  <2> QED
    BY <2>1, <2>2, CallForms DEF ProductCartInit, CartInv
<1> QED
  BY <1>1, CartStep, PTL DEF ProductCartSpec
-----------------------------------------------------------------------------
(***************************************************************************)
(* The type invariant of carts and calls: in particular, what addItem      *)
(* writes into a line never exceeds the bound assertQuantity checks,       *)
(* although the cart is read again after the hold was placed.              *)
(***************************************************************************)
THEOREM ProductCartTypeCorrect == ProductCartSpec => []ProductCartTypeOK
<1>1. CartInv => ProductCartTypeOK
  BY DEF CartInv, CallInv, ProductCartTypeOK
<1> QED
  BY <1>1, CartInvAlways, PTL

(***************************************************************************)
(* CartService only ever does to the ledger what the ledger's operations   *)
(* do: a behaviour of product carts, half-done, dying and racing calls     *)
(* included, is a behaviour of the stock ledger.  So what is proved of the *)
(* ledger holds beside them.                                               *)
(***************************************************************************)
THEOREM ProductCartUsesLedger == ProductCartSpec => StockSpec
<1>1. ProductCartInit => StockInit
  BY DEF ProductCartInit
<1>2. CartInv /\ [ProductCartNext]_cartVars => [StockNext]_stockVars
  BY CartStep
<1> QED
  BY <1>1, <1>2, CartInvAlways, PTL DEF ProductCartSpec, StockSpec

(***************************************************************************)
(* With product carts on it the ledger still implements Allocation: no     *)
(* interleaving, failure or death of CartService calls lets a claim grow   *)
(* beyond the stock or a sold one lapse.                                   *)
(***************************************************************************)
THEOREM ProductCartKeepsPromise == ProductCartSpec => KeepsPromise
  BY ProductCartUsesLedger, StockKeepsPromise
-----------------------------------------------------------------------------
(***************************************************************************)
(* Deadlines.  What a dying or overtaken call leaves in the ledger can     *)
(* only come back through the sweep, and the sweep takes no row without    *)
(* expires_at.                                                             *)
(***************************************************************************)
HoldsHaveDeadlines ==
    \A c \in Carts, v \in Variants : res[<<c, v>>].state = "held" => res[<<c, v>>].expiry # "never"

DatedLines(lines) == \A v \in Variants : lines[v].quantity > 0 => lines[v].expiry # "never"

\* A call that is about to reserve without a deadline of its own has found the line.
DatedCall(at) ==
    at.pc # "idle" =>
        /\ DatedLines(at.copy)
        /\ at.pc \in {"sweep", "reserve"} /\ at.op # "hold" => at.copy[at.product].quantity > 0

CartsDated == \A c \in Carts : DatedLines(cart[c].lines)

CallsDated == \A x \in Calls : DatedCall(call[x])

DateInv == CartsDated /\ CallsDated /\ HoldsHaveDeadlines
LEMMA DatedForms ==
    /\ DatedLines(NoLines) /\ DatedCall(IdleCall)
    /\ \A lines \in Lines : \A gone : DatedLines(lines) => DatedLines(Without(lines, gone))
  BY DEF DatedLines, NoLines, NoLine, DatedCall, IdleCall, Without

\* A call with a dated copy, not about to set a line's reservation.
LEMMA DatedElsewhere ==
    ASSUME NEW at, DatedLines(at.copy), at.pc \notin {"sweep", "reserve"} \/ at.op = "hold"
    PROVE  DatedCall(at)
  BY DEF DatedCall

LEMMA FoundDated ==
    ASSUME NEW at \in Active, NEW lines \in Lines, DatedLines(lines)
    PROVE  DatedCall(Found(at, lines))
<1> DEFINE now == [at EXCEPT !.copy = lines]
           line == lines[at.product]
<1>1. /\ now \in Active /\ now.copy = lines /\ now.product = at.product /\ now.op = at.op
      /\ at.product \in Variants
  BY Moves DEF Active
<1>2. CASE (at.op = "hold" /\ assertQuantity(line, at.n)) \/ (at.op = "set" /\ line.quantity > 0)
  <2> DEFINE new == [now EXCEPT !.pc = "sweep", !.todo = {}]
  <2>1. Found(at, lines) = new
    BY <1>2 DEF Found
  <2>2. new.copy = lines /\ new.product = at.product /\ new.op = at.op
    BY <1>1 DEF Active
  <2> HIDE DEF new
  <2> QED
    BY <1>2, <2>1, <2>2 DEF DatedCall
<1>3. CASE at.op = "add" /\ assertQuantity(line, at.n)
  <2> DEFINE sum == [quantity |-> line.quantity + at.n, expiry |-> "later"]
             copy == [lines EXCEPT ![at.product] = sum]
             new == [now EXCEPT !.pc = "write", !.todo = {}, !.copy[at.product] = sum]
  <2>1. Found(at, lines) = new
    BY <1>3 DEF Found
  <2>2. new.pc = "write" /\ new.copy = copy
    BY <1>1 DEF Active
  <2>3. DatedLines(copy)
    BY DEF DatedLines, Lines
  <2> HIDE DEF new, copy
  <2> QED
    BY <2>1, <2>2, <2>3, DatedElsewhere
<1>4. CASE at.op = "add" /\ ~ assertQuantity(line, at.n)
  <2> DEFINE new == [now EXCEPT !.pc = "undo", !.todo = {}, !.copy = NoLines]
  <2>1. Found(at, lines) = new
    BY <1>4 DEF Found
  <2>2. new.pc = "undo" /\ new.copy = NoLines
    BY <1>1 DEF Active
  <2> HIDE DEF new
  <2> QED
    BY <2>1, <2>2, DatedForms, DatedElsewhere
<1>5. CASE at.op = "remove"
  <2> DEFINE new == [now EXCEPT !.pc = "free", !.todo = In(lines) \cap {at.product}]
  <2>1. Found(at, lines) = new
    BY <1>5 DEF Found
  <2>2. new.pc = "free" /\ new.copy = lines
    BY <1>1 DEF Active
  <2> HIDE DEF new
  <2> QED
    BY <2>1, <2>2, DatedElsewhere
<1>6. CASE /\ ~ (at.op = "hold" /\ assertQuantity(line, at.n))
           /\ at.op # "add" /\ at.op # "remove" /\ ~ (at.op = "set" /\ line.quantity > 0)
  <2>1. Found(at, lines) = IdleCall
    BY <1>6 DEF Found
  <2> QED
    BY <2>1, DatedForms
<1> QED
  BY <1>2, <1>3, <1>4, <1>5, <1>6

\* findCart and the start of a commit or a release, from a call whose copy is dated.
LEMMA FindDated ==
    ASSUME NEW at \in Active, CartInv, DateInv, DatedLines(at.copy)
    PROVE  DatedCall(Find(at)) /\ DatedCall(Settle(at))
<1> DEFINE stored == cart[at.of]
<1>1. stored.exists \in BOOLEAN /\ stored.lines \in Lines /\ DatedLines(stored.lines)
  BY DEF CartInv, Active, DateInv, CartsDated
<1>2. DatedCall(Settle(at))
  <2> DEFINE new == [at EXCEPT !.pc = "settle", !.copy = stored.lines, !.todo = In(stored.lines)]
  <2>1. new.pc = "settle" /\ new.copy = stored.lines
    BY DEF Active
  <2>2. Settle(at) = IdleCall \/ Settle(at) = new
    BY DEF Settle
  <2> HIDE DEF new
  <2> QED
    BY <1>1, <2>1, <2>2, DatedForms, DatedElsewhere
<1>3. CASE ~ stored.exists /\ at.op \in {"hold", "add"}
  <2> DEFINE new == [at EXCEPT !.pc = "create"]
  <2>1. Find(at) = new
    BY <1>3 DEF Find
  <2>2. new.pc = "create" /\ new.copy = at.copy
    BY DEF Active
  <2> HIDE DEF new
  <2> QED
    BY <1>2, <2>1, <2>2, DatedElsewhere
<1>4. CASE ~ stored.exists /\ at.op \notin {"hold", "add"}
  <2>1. Find(at) = IdleCall
    BY <1>4 DEF Find
  <2> QED
    BY <1>2, <2>1, DatedForms
<1>5. CASE stored.exists /\ Expired(stored.lines) # {}
  <2> DEFINE new == [at EXCEPT !.pc = "purge", !.copy = stored.lines, !.todo = Expired(stored.lines)]
  <2>1. Find(at) = new
    BY <1>5 DEF Find
  <2>2. new.pc = "purge" /\ new.copy = stored.lines
    BY DEF Active
  <2> HIDE DEF new
  <2> QED
    BY <1>1, <1>2, <2>1, <2>2, DatedElsewhere
<1>6. CASE stored.exists /\ Expired(stored.lines) = {}
  <2>1. Find(at) = Found(at, stored.lines)
    BY <1>6 DEF Find
  <2> QED
    BY <1>1, <1>2, <2>1, FoundDated
<1> QED
  BY <1>1, <1>2, <1>3, <1>4, <1>5, <1>6

LEMMA RestDated ==
    ASSUME NEW x \in Calls, NEW v, CartInv, DateInv, call[x].pc # "idle"
    PROVE  DatedCall(Rest(x, v)) /\ DatedCall(Thrown(x, v))
<1> DEFINE less == [call[x] EXCEPT !.todo = @ \ {v}]
           drain == [call[x] EXCEPT !.pc = "drain", !.todo = @ \ {v}]
<1>1. call[x] \in Active /\ DatedCall(call[x])
  BY CallForms DEF CartInv, CallInv, DateInv, CallsDated
<1>2. /\ less.pc = call[x].pc /\ less.op = call[x].op /\ less.copy = call[x].copy
      /\ less.product = call[x].product
      /\ drain.pc = "drain" /\ drain.copy = call[x].copy
  BY <1>1 DEF Active
<1>3. Rest(x, v) \in {IdleCall, less} /\ Thrown(x, v) \in {IdleCall, drain}
  BY DEF Rest, Thrown
<1> HIDE DEF less, drain
<1>4. DatedCall(less) /\ DatedCall(drain)
  BY <1>1, <1>2 DEF DatedCall
<1> QED
  BY <1>3, <1>4, DatedForms

-----------------------------------------------------------------------------
\* The ledger places holds only in Reserve; every other operation keeps deadlines.
LEMMA LedgerKeepsDates ==
    ASSUME StockTypeOK, HoldsHaveDeadlines,
           \/ \E k \in Keys : Release(k) \/ Commit(k) \/ Lapse(k) \/ QueueRecompute(k) \/ AbortQueued(k)
           \/ ExpireSweep
           \/ \E v \in Variants, n \in SaveQuantities : Save(v, n)
           \/ UNCHANGED stockVars
    PROVE  HoldsHaveDeadlines'
<1>1. \A j \in Keys : \/ res'[j] = res[j]
                      \/ res'[j].state # "held"
                      \/ res'[j].expiry = "due"
  <2>1. res \in [Keys -> Row]
    BY DEF StockTypeOK
  <2>2. ASSUME NEW k \in Keys, Release(k) \/ Commit(k) \/ Lapse(k) \/ QueueRecompute(k) \/ AbortQueued(k)
        PROVE  \A j \in Keys : \/ res'[j] = res[j]
                             \/ res'[j].state # "held"
                             \/ res'[j].expiry = "due"
    <3>1. CASE Release(k) \/ Commit(k)
      <4>1. PICK row : res' = [res EXCEPT ![k] = row] /\ row.state # "held"
        <5>1. /\ [res[k] EXCEPT !.state = "released", !.expiry = "never"].state = "released"
              /\ [res[k] EXCEPT !.state = "committed", !.expiry = "never"].state = "committed"
          BY <2>1 DEF Row
        <5>2. CASE Release(k)
          BY <5>1, <5>2 DEF Release, WriteRow
        <5>3. CASE Commit(k)
          BY <5>1, <5>3 DEF Commit, WriteRow
        <5> QED
          BY <3>1, <5>2, <5>3
      <4> QED
        BY <2>1, <4>1
    <3>2. CASE Lapse(k)
      BY <2>1, <3>2 DEF Lapse, Row
    <3>3. CASE QueueRecompute(k) \/ AbortQueued(k)
      BY <3>3 DEF QueueRecompute, AbortQueued
    <3> QED
      BY <2>2, <3>1, <3>2, <3>3
  <2>3. CASE ExpireSweep
    BY <2>1, <2>3 DEF ExpireSweep, Swept, Row
  <2>4. CASE (\E v \in Variants, n \in SaveQuantities : Save(v, n)) \/ UNCHANGED stockVars
    BY <2>4 DEF Save, stockVars
  <2> QED
    BY <2>2, <2>3, <2>4
<1>2. \A c \in Carts, v \in Variants : <<c, v>> \in Keys
  BY LinesAreKeys
<1> QED
  BY <1>1, <1>2 DEF HoldsHaveDeadlines

LEMMA ReserveKeepsDates ==
    ASSUME StockTypeOK, HoldsHaveDeadlines, NEW k \in Keys, NEW q, NEW e, Reserve(k, q, e),
           k \in Others \/ e # "never"
    PROVE  HoldsHaveDeadlines'
<1>1. res \in [Keys -> Row]
  BY DEF StockTypeOK
<1>2. /\ \A j \in Keys : j # k => res'[j] = res[j]
      /\ res'[k] = res[k] \/ res'[k].expiry = e
  BY <1>1 DEF Reserve
<1>3. \A c \in Carts, v \in Variants : <<c, v>> \in Keys /\ <<c, v>> \notin Others
  BY LinesAreKeys, OthersAreElsewhere
<1> QED
  BY <1>2, <1>3 DEF HoldsHaveDeadlines

LEMMA FreeLineDates ==
    ASSUME CartInv, StockTypeOK, HoldsHaveDeadlines, NEW x \in Calls, call[x].pc # "idle",
           NEW v \in Variants, FreeLine(x, v)
    PROVE  HoldsHaveDeadlines' /\ UNCHANGED <<cart, deaths>>
<1>1. KeyOf(x, v) \in Keys
  BY LineKey
<1> QED
  BY <1>1, LedgerKeepsDates DEF FreeLine

\* A call moves on and leaves the carts alone, or writes its own.
LEMMA DatesGoOn ==
    ASSUME CartInv, DateInv, NEW x \in Calls, NEW next, Goto(x, next), DatedCall(next),
           HoldsHaveDeadlines',
           \/ cart' = cart
           \/ \E lines \in Lines : call[x].pc # "idle" /\ DatedLines(lines) /\ Store(x, lines)
    PROVE  DateInv'
<1>1. \A y \in Calls : call'[y] = next \/ call'[y] = call[y]
  BY DEF CartInv, Goto
<1>2. CallsDated'
  BY <1>1 DEF CallsDated, DateInv, DatedCall, DatedLines
<1>3. CartsDated'
  <2>1. CASE cart' = cart
    BY <2>1 DEF CartsDated, DateInv, DatedLines
  <2>2. ASSUME NEW lines \in Lines, DatedLines(lines), Store(x, lines)
        PROVE  CartsDated'
    <3>1. \A c \in Carts : cart'[c].lines = lines \/ cart'[c] = cart[c]
      BY <2>2 DEF Store, CartInv
    <3> QED
      BY <2>2, <3>1 DEF CartsDated, DateInv, DatedLines
  <2> QED
    BY <2>1, <2>2
<1> QED
  BY <1>2, <1>3 DEF DateInv

LEMMA DatesStep ==
    CartInv /\ StockTypeOK /\ DateInv /\ [ProductCartNext]_cartVars => DateInv'
<1> SUFFICES ASSUME CartInv, StockTypeOK, DateInv, [ProductCartNext]_cartVars
             PROVE  DateInv'
  OBVIOUS
<1> USE DEF DateInv
<1>1. ASSUME UNCHANGED stockVars
      PROVE  HoldsHaveDeadlines'
  BY <1>1, LedgerKeepsDates
<1>2. ASSUME NEW x \in Calls, call[x].pc # "idle"
      PROVE  /\ call[x] \in Active /\ call[x].copy \in Lines /\ DatedLines(call[x].copy)
             /\ call[x].product \in Variants
  BY <1>2, CallForms DEF CartInv, CallInv, Active, CallsDated, DatedCall
<1>3. ASSUME NEW x \in Calls, NEW op \in Operations, NEW c \in Carts, NEW v \in Variants,
             NEW n \in 1..MaxUnits, Begin(x, op, c, v, n)
      PROVE  DateInv'
  <2> DEFINE at == [pc |-> "purge", op |-> op, of |-> c, product |-> v, n |-> n,
                    copy |-> NoLines, todo |-> {}]
             next == IF op \in {"commit", "release"} THEN Settle(at) ELSE Find(at)
  <2>1. at \in Active /\ at.copy = NoLines
    BY LineForms DEF Active, Points
  <2>2. Goto(x, next) /\ UNCHANGED stockVars /\ cart' = cart
    BY <1>3 DEF Begin, Quiet
  <2> HIDE DEF at
  <2>3. DatedCall(next)
    BY <2>1, FindDated, DatedForms
  <2> HIDE DEF next
  <2> QED
    BY <1>1, <2>2, <2>3, DatesGoOn
<1>4. ASSUME NEW x \in Calls, NEW v \in Variants, PurgeLine(x, v)
      PROVE  DateInv'
  <2>1. call[x].pc # "idle" /\ FreeLine(x, v) /\ Goto(x, Rest(x, v))
    BY <1>4 DEF PurgeLine
  <2> QED
    BY <2>1, RestDated, FreeLineDates, DatesGoOn
<1>5. ASSUME NEW x \in Calls, NEW v \in Variants, SettleLine(x, v)
      PROVE  DateInv'
  <2>1. call[x].pc # "idle"
    BY <1>5 DEF SettleLine
  <2>2. DatedCall(Rest(x, v)) /\ DatedCall(Thrown(x, v)) /\ KeyOf(x, v) \in Keys
    BY <2>1, RestDated, LineKey
  <2>3. CASE FreeLine(x, v) /\ Goto(x, Rest(x, v))
    BY <2>1, <2>2, <2>3, FreeLineDates, DatesGoOn
  <2>4. CASE Commit(KeyOf(x, v)) /\ Goto(x, Rest(x, v)) /\ UNCHANGED <<cart, deaths>>
    <3>1. HoldsHaveDeadlines'
      BY <2>2, <2>4, LedgerKeepsDates
    <3> QED
      BY <2>2, <2>4, <3>1, DatesGoOn
  <2>5. CASE Goto(x, Thrown(x, v)) /\ Quiet
    <3>1. UNCHANGED stockVars /\ cart' = cart
      BY <2>5 DEF Quiet
    <3> QED
      BY <1>1, <2>2, <2>5, <3>1, DatesGoOn
  <2> QED
    BY <1>5, <2>3, <2>4, <2>5 DEF SettleLine
<1>6. ASSUME NEW x \in Calls, PurgeWrite(x) \/ CreateCart(x)
      PROVE  DateInv'
  <2>1. call[x].pc # "idle" /\ UNCHANGED stockVars
    BY <1>6 DEF PurgeWrite, CreateCart
  <2>2. PICK lines \in Lines : DatedLines(lines) /\ Store(x, lines) /\ Goto(x, Found(call[x], lines))
    <3>1. CASE PurgeWrite(x)
      <4>1. PICK gone : /\ Store(x, Without(call[x].copy, gone))
                        /\ Goto(x, Found(call[x], Without(call[x].copy, gone)))
        BY <3>1 DEF PurgeWrite
      <4>2. Without(call[x].copy, gone) \in Lines /\ DatedLines(Without(call[x].copy, gone))
        BY <1>2, <2>1, LineForms, DatedForms
      <4> QED
        BY <4>1, <4>2
    <3>2. CASE CreateCart(x)
      BY <3>2, LineForms, DatedForms DEF CreateCart
    <3> QED
      BY <1>6, <3>1, <3>2
  <2>3. DatedCall(Found(call[x], lines))
    BY <1>2, <2>1, <2>2, FoundDated
  <2> QED
    BY <1>1, <2>1, <2>2, <2>3, DatesGoOn
<1>7. ASSUME NEW x \in Calls, SweepFirst(x)
      PROVE  DateInv'
  <2> DEFINE next == [call[x] EXCEPT !.pc = "reserve"]
  <2>1. call[x].pc = "sweep" /\ Goto(x, next) /\ cart' = cart
    BY <1>7 DEF SweepFirst
  <2>2. HoldsHaveDeadlines'
    BY <1>7, LedgerKeepsDates DEF SweepFirst
  <2>3. /\ next.op = call[x].op /\ next.copy = call[x].copy /\ next.product = call[x].product
        /\ next.pc = "reserve"
    BY <1>2, <2>1 DEF Active
  <2> HIDE DEF next
  <2>4. DatedCall(next)
    BY <2>1, <2>3 DEF DatedCall, CallsDated
  <2> QED
    BY <2>1, <2>2, <2>4, DatesGoOn
<1>8. ASSUME NEW x \in Calls, ReserveLine(x)
      PROVE  DateInv'
  <2> DEFINE k == KeyOf(x, call[x].product)
             next == IF call[x].op = "hold" THEN AddItem(x) ELSE Resized(x)
  <2>1. call[x].pc = "reserve" /\ cart' = cart
    BY <1>8 DEF ReserveLine
  <2>2. call[x] \in Active /\ call[x].copy \in Lines /\ DatedLines(call[x].copy)
        /\ call[x].product \in Variants /\ k \in Keys
    BY <1>2, <2>1, LineKey
  <2>3. call[x].op # "hold" => /\ call[x].copy[call[x].product].quantity > 0
                               /\ call[x].copy[call[x].product].expiry # "never"
    <3>1. call[x].op # "hold" => call[x].copy[call[x].product].quantity > 0
      BY <2>1 DEF CallsDated, DatedCall
    <3> QED
      BY <2>2, <3>1 DEF DatedLines
  <2>4. \A e \in Deadline(x) : e # "never"
    BY <2>3 DEF Deadline
  <2>5. DatedCall(AddItem(x))
    <3> DEFINE at == [call[x] EXCEPT !.pc = "purge", !.op = "add", !.copy = NoLines, !.todo = {}]
    <3>1. at \in Active /\ at.copy = NoLines
      BY <2>2, LineForms DEF Active, Points, Operations
    <3>2. AddItem(x) = Find(at)
      BY DEF AddItem
    <3> HIDE DEF at
    <3> QED
      BY <3>1, <3>2, FindDated, DatedForms
  <2>6. call[x].op # "hold" => DatedCall(Resized(x))
    <3> DEFINE copy == [call[x].copy EXCEPT ![call[x].product].quantity = call[x].n]
    <3>1. Resized(x).pc = "write" /\ Resized(x).copy = copy
      BY <2>2 DEF Resized, Active
    <3>2. call[x].op # "hold" => DatedLines(copy)
      BY <2>2, <2>3 DEF DatedLines, Lines, Line
    <3> HIDE DEF copy
    <3> QED
      BY <3>1, <3>2, DatedElsewhere
  <2>7. CASE (\E e \in Deadline(x) : Reserve(k, Wanted(x), e)) /\ Goto(x, next)
    <3>1. HoldsHaveDeadlines'
      BY <2>2, <2>4, <2>7, ReserveKeepsDates
    <3>2. DatedCall(next)
      BY <2>5, <2>6
    <3> HIDE DEF next
    <3> QED
      BY <2>1, <2>7, <3>1, <3>2, DatesGoOn
  <2>8. CASE UNCHANGED stockVars /\ Goto(x, IdleCall)
    BY <1>1, <2>1, <2>8, DatedForms, DatesGoOn
  <2> QED
    BY <1>8, <2>7, <2>8 DEF ReserveLine
<1>9. ASSUME NEW x \in Calls, RemoveLine(x)
      PROVE  DateInv'
  <2> DEFINE copy == Without(call[x].copy, {call[x].product})
             next == [call[x] EXCEPT !.pc = "write", !.todo = {}, !.copy = copy]
  <2>1. call[x].pc = "free"
    BY <1>9 DEF RemoveLine
  <2>2. call[x] \in Active
    BY <1>2, <2>1
  <2>3. Goto(x, next)
    BY <1>9, <2>2 DEF RemoveLine, Active
  <2>4. DatedLines(copy)
    BY <1>2, <2>1, DatedForms
  <2> HIDE DEF copy
  <2>5. next.pc = "write" /\ next.copy = copy
    BY <2>2 DEF Active
  <2> HIDE DEF next
  <2>6. DatedCall(next)
    BY <2>4, <2>5, DatedElsewhere
  <2>7. HoldsHaveDeadlines' /\ cart' = cart
    <3>1. CASE Quiet
      BY <1>1, <3>1 DEF Quiet
    <3>2. ASSUME NEW v \in call[x].todo, FreeLine(x, v)
          PROVE  HoldsHaveDeadlines' /\ cart' = cart
      <4>1. v \in Variants
        BY <2>2 DEF Active
      <4> QED
        BY <2>1, <3>2, <4>1, FreeLineDates
    <3> QED
      BY <1>9, <3>1, <3>2 DEF RemoveLine
  <2> QED
    BY <2>3, <2>6, <2>7, DatesGoOn
<1>10. ASSUME NEW x \in Calls, WriteCart(x)
       PROVE  DateInv'
  <2>1. call[x].pc # "idle" /\ Goto(x, IdleCall) /\ UNCHANGED stockVars
    BY <1>10 DEF WriteCart
  <2>2. Store(x, call[x].copy) \/ Store(x, NoLines)
    BY <1>10 DEF WriteCart
  <2>3. \E lines \in Lines : DatedLines(lines) /\ Store(x, lines)
    BY <1>2, <2>1, <2>2, LineForms, DatedForms
  <2> QED
    BY <1>1, <2>1, <2>3, DatedForms, DatesGoOn
<1>11. ASSUME NEW x \in Calls, UndoHold(x)
       PROVE  DateInv'
  <2> DEFINE drain == [call[x] EXCEPT !.pc = "drain"]
             next == IF call[x].todo = {} THEN IdleCall ELSE drain
  <2>1. call[x].pc = "undo" /\ FreeLine(x, call[x].product) /\ Goto(x, next)
    BY <1>11 DEF UndoHold
  <2>2. call[x] \in Active /\ DatedLines(call[x].copy) /\ call[x].product \in Variants
    BY <1>2, <2>1
  <2>3. drain.pc = "drain" /\ drain.copy = call[x].copy
    BY <2>2 DEF Active
  <2> HIDE DEF drain
  <2>4. DatedCall(next)
    BY <2>2, <2>3, DatedForms, DatedElsewhere
  <2> HIDE DEF next
  <2> QED
    BY <2>1, <2>2, <2>4, FreeLineDates, DatesGoOn
<1>12. ASSUME NEW x \in Calls, CallFails(x)
       PROVE  DateInv'
  <2>1. call[x].pc # "idle" /\ UNCHANGED stockVars /\ cart' = cart
    BY <1>12 DEF CallFails
  <2>2. PICK v \in Variants :
          Goto(x, IF call[x].op = "add" /\ call[x].pc \notin {"undo", "drain"}
                  THEN [call[x] EXCEPT !.pc = "undo", !.copy = NoLines, !.todo = @ \ {v}]
                  ELSE Thrown(x, v))
    BY <1>12 DEF CallFails
  <2> DEFINE undo == [call[x] EXCEPT !.pc = "undo", !.copy = NoLines, !.todo = @ \ {v}]
             next == IF call[x].op = "add" /\ call[x].pc \notin {"undo", "drain"}
                     THEN undo ELSE Thrown(x, v)
  <2>3. undo.pc = "undo" /\ undo.copy = NoLines
    BY <1>2, <2>1 DEF Active
  <2>4. Goto(x, next)
    BY <2>2
  <2> HIDE DEF undo
  <2>5. DatedCall(next)
    BY <2>1, <2>3, RestDated, DatedForms, DatedElsewhere
  <2> HIDE DEF next
  <2> QED
    BY <1>1, <2>1, <2>4, <2>5, DatesGoOn
<1>13. CASE ProcessDies
  <2>1. CartsDated' /\ HoldsHaveDeadlines'
    BY <1>1, <1>13 DEF ProcessDies, CartsDated, DatedLines
  <2>2. CallsDated'
    BY <1>13, DatedForms DEF ProcessDies, CallsDated, DatedCall, IdleCall
  <2> QED
    BY <2>1, <2>2
<1>14. ASSUME NEW c \in Carts, NEW v \in Variants, LineLapses(c, v)
       PROVE  DateInv'
  <2>1. UNCHANGED stockVars /\ call' = call
    BY <1>14 DEF LineLapses
  <2>2. cart[c] \in [exists : BOOLEAN, lines : Lines] /\ cart[c].lines[v] \in Line
    BY DEF CartInv, Lines
  <2>3. \A d \in Carts, w \in Variants :
          \/ cart'[d].lines[w] = cart[d].lines[w]
          \/ cart'[d].lines[w].expiry = "due"
    BY <1>14, <2>2 DEF LineLapses, CartInv, Lines, Line
  <2>4. CartsDated'
    BY <2>3 DEF CartsDated, DatedLines
  <2>5. CallsDated'
    BY <2>1 DEF CallsDated, DatedCall, DatedLines
  <2> QED
    BY <1>1, <2>1, <2>4, <2>5
<1>15. CASE Elsewhere \/ UNCHANGED cartVars
  <2>1. cart' = cart /\ call' = call
    BY <1>15 DEF Elsewhere, cartVars
  <2>2. CartsDated' /\ CallsDated'
    BY <2>1 DEF CartsDated, CallsDated, DatedCall, DatedLines
  <2>3. HoldsHaveDeadlines'
    <3>1. ASSUME NEW k \in Others, NEW q, NEW e, Reserve(k, q, e)
          PROVE  HoldsHaveDeadlines'
      BY <3>1, LinesAreKeys, ReserveKeepsDates
    <3>2. Others \in SUBSET Keys
      BY LinesAreKeys
    <3>3. CASE UNCHANGED cartVars
      BY <1>1, <3>3 DEF cartVars, stockVars
    <3> QED
      BY <1>15, <3>1, <3>2, <3>3, LedgerKeepsDates DEF Elsewhere
  <2> QED
    BY <2>2, <2>3
<1>16. ASSUME NEW x \in Calls, NEW c \in Carts, NEW v \in Variants,
              \/ \E op \in {"hold", "set"}, n \in 1..MaxUnits : Begin(x, op, c, v, n)
              \/ \E op \in {"read", "remove", "commit", "release"} : Begin(x, op, c, v, 1)
       PROVE  DateInv'
  <2>1. 1 \in 1..MaxUnits
    BY MaxUnitsAssumption
  <2>2. {"hold", "set", "read", "remove", "commit", "release"} \in SUBSET Operations
    BY DEF Operations
  <2> QED
    BY <1>3, <1>16, <2>1, <2>2
<1>17. ASSUME NEW x \in Calls, CallStep(x)
       PROVE  DateInv'
  BY <1>4, <1>5, <1>6, <1>7, <1>8, <1>9, <1>10, <1>11, <1>17 DEF CallStep
<1> QED
  BY <1>12, <1>13, <1>14, <1>15, <1>16, <1>17 DEF ProductCartNext

(***************************************************************************)
(* No interleaving, failure or death of CartService calls leaves a hold    *)
(* that only a caller could give back: every held reservation of a cart    *)
(* carries an expires_at, so expire_inventory_reservations() will take it. *)
(* A resize relies on it that the line it read has an expiresAt, which it  *)
(* passes on; that is what every document and every copy of one keeps.     *)
(* This is the safety half of HoldsComeBack.                               *)
(***************************************************************************)
THEOREM ProductCartHoldsLapse == ProductCartSpec => []HoldsHaveDeadlines
<1>1. ProductCartInit => DateInv
  <2> SUFFICES ASSUME ProductCartInit
               PROVE  DateInv
    OBVIOUS
  <2>1. CartsDated /\ CallsDated
    BY DatedForms DEF ProductCartInit, CartsDated, CallsDated
  <2>2. \A c \in Carts, v \in Variants : <<c, v>> \in Keys
    BY LinesAreKeys
  <2>3. HoldsHaveDeadlines
    BY <2>2 DEF ProductCartInit, StockInit, HoldsHaveDeadlines, NoRow
  <2> QED
    BY <2>1, <2>3 DEF DateInv
<1>2. ProductCartSpec => []StockTypeOK
  BY ProductCartUsesLedger, StockTypeCorrect, PTL
<1>3. DateInv => HoldsHaveDeadlines
  BY DEF DateInv
<1> QED
  BY <1>1, <1>2, <1>3, DatesStep, CartInvAlways, PTL DEF ProductCartSpec
=============================================================================
