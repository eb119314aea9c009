--------------------------- MODULE FixturesProofs ---------------------------
(***************************************************************************)
(* Theorems about acceptance fixtures, for every set of runs and cleaners, *)
(* every number of resources and every number of crashes.  Behind says     *)
(* that a cleanup never meets its own run's provision, Released what a     *)
(* released row, lease or report rests on, and Shown who still has to      *)
(* report a leak.                                                          *)
(***************************************************************************)
EXTENDS Fixtures, FiniteSetTheorems, WellFoundedInduction, TLAPS

\* The run is leased, and its provision is over.
Settles(r) == lease[r] # "none" /\ prov[r] = 0

\* Whoever cleans, or is about to clean, a run does so after its provision; so a resource
\* that was released stays away.
Behind ==
    /\ \A p \in Cleaners : cln[p].pc # "idle" =>
         Settles(cln[p].run) /\ \A r \in cln[p].seen : Settles(r)
    /\ \A r \in Runs, x \in Resources : rows[r][x] = "released" => Settles(r)

\* What a row, a lease and a report that say released or succeeded rest on.
Released ==
    /\ \A r \in Runs, x \in Resources : rows[r][x] = "released" => x \notin real[r]
    /\ \A r \in Runs : lease[r] = "released" => \A x \in Resources : rows[r][x] = "released"
    /\ \A r \in Runs : runs[r].cleanup = "succeeded" => lease[r] = "released"
    /\ \A p \in Cleaners :
         At(p, "record") /\ Current(p) \notin cln[p].leaked => Current(p) \notin real[cln[p].run]
    /\ \A p \in Cleaners :
         At(p, "report") /\ cln[p].leaked = {} => lease[cln[p].run] = "released"

\* Cleaner p has found a leak of run r and still has to report it.
Reports(p, r) == At(p, "report") /\ cln[p].run = r /\ cln[p].leaked # {}

\* A leak is shown, or its report is on the way.
Shown ==
    /\ \A r \in Runs : runs[r].state # "none"
    /\ crashes = 0 => \A r \in Runs : lease[r] = "leaked" =>
         runs[r].state = "cleanup-failed" \/ \E p \in Cleaners : Reports(p, r)

-----------------------------------------------------------------------------
(***************************************************************************)
(* The states of a cleaner, and how a step moves it from one to the next.  *)
(***************************************************************************)
Points == {"read", "begin", "mark", "remove", "record", "finish", "report"}

Records == [pc : Points, run : Runs, todo : SUBSET Resources, leaked : SUBSET Resources,
            seen : SUBSET Runs]

\* The loop over the resources is entered, and repeated, only while some are left.
Working == {s \in Records : s.pc \in {"remove", "record"} => s.todo # {}}

Cleaner == {IdleCleaner} \cup Working

Typed == FixtureTypeOK /\ cln \in [Cleaners -> Cleaner]

CleanInv == Typed /\ Behind /\ Released

LeakInv == Typed /\ Shown

\* A cleaner that starts on run r.
Entered(r, seen) == [pc |-> "read", run |-> r, todo |-> {}, leaked |-> {}, seen |-> seen]

\* Cleaner p moves to state s.
Moves(p, s) == cln' = [cln EXCEPT ![p] = s]

LEMMA CleanerForms ==
    /\ IdleCleaner \in Cleaner /\ IdleCleaner.pc = "idle"
    /\ Working \subseteq Cleaner /\ Cleaner \subseteq CleanerStates
    /\ \A s \in Cleaner : s.pc # "idle" => s \in Working
    /\ \A s \in Working : s.pc # "idle"
    /\ \A r \in Runs, seen \in SUBSET Runs :
         /\ Entered(r, seen) \in Working
         /\ Entered(r, seen).pc = "read"
         /\ Entered(r, seen).run = r /\ Entered(r, seen).seen = seen
  BY DEF Cleaner, CleanerStates, Working, Records, Points, IdleCleaner, Entered

LEMMA GotoForm ==
    ASSUME Typed, NEW p \in Cleaners, cln[p].pc # "idle", NEW pc \in Points,
           pc \in {"remove", "record"} => cln[p].todo # {}, Goto(p, pc)
    PROVE  \E s \in Working :
             /\ Moves(p, s)
             /\ s.pc = pc /\ s.run = cln[p].run /\ s.todo = cln[p].todo
             /\ s.leaked = cln[p].leaked /\ s.seen = cln[p].seen
<1> DEFINE s == [cln[p] EXCEPT !.pc = pc]
<1>1. cln[p] \in Working /\ cln \in [Cleaners -> Cleaner]
  BY CleanerForms DEF Typed, FixtureTypeOK
<1>2. s \in Working
  BY <1>1 DEF Working, Records
<1>3. /\ s.pc = pc /\ s.run = cln[p].run /\ s.todo = cln[p].todo
      /\ s.leaked = cln[p].leaked /\ s.seen = cln[p].seen
  BY <1>1 DEF Working, Records
<1>4. Moves(p, s)
  BY <1>1 DEF Moves, Goto
<1> QED
  BY <1>2, <1>3, <1>4

LEMMA LeaveForm ==
    ASSUME Typed, NEW p \in Cleaners, cln[p].pc # "idle", Leave(p)
    PROVE  \E s \in Cleaner :
             /\ Moves(p, s)
             /\ \/ s.pc = "idle"
                \/ /\ s.pc = "read" /\ s \in Working
                   /\ s.run \in cln[p].seen /\ s.seen \subseteq cln[p].seen
<1>1. cln[p].seen \in SUBSET Runs
  BY CleanerForms DEF Typed, FixtureTypeOK, Working, Records
<1>2. CASE cln' = [cln EXCEPT ![p] = IdleCleaner]
  BY <1>2, CleanerForms DEF Moves
<1>3. CASE \E r \in cln[p].seen : Enter(p, r, cln[p].seen \ {r})
  <2>1. PICK r \in cln[p].seen : Enter(p, r, cln[p].seen \ {r})
    BY <1>3
  <2>2. Moves(p, Entered(r, cln[p].seen \ {r}))
    BY <2>1 DEF Enter, Moves, Entered
  <2>3. r \in Runs /\ cln[p].seen \ {r} \in SUBSET Runs
    BY <1>1
  <2> QED
    BY <2>2, <2>3, CleanerForms
<1> QED
  BY <1>2, <1>3 DEF Leave

(***************************************************************************)
(* The resource a cleanup is at is one of those it has left to do.         *)
(***************************************************************************)
LEMMA CurrentFound ==
    ASSUME NEW p \in Cleaners, cln[p].todo \in SUBSET Resources, cln[p].todo # {}
    PROVE  Current(p) \in cln[p].todo
<1> DEFINE less == {ss \in Nat \X Nat : ss[1] < ss[2]}
           rest == {n \in Nat : \E x \in cln[p].todo : n = NumResources - x}
<1>1. \A x \in cln[p].todo : x \in Nat /\ NumResources - x \in Nat
  BY NumResourcesAssumption DEF Resources
<1>2. rest \subseteq Nat /\ rest # {}
  BY <1>1
<1>3. IsWellFoundedOn(less, Nat)
  BY NatLessThanWellFounded, Zenon DEF OpToRel
<1>4. \E n \in rest : \A m \in rest : ~ (<<m, n>> \in less)
  <2> HIDE DEF less, rest
  <2> QED
    BY <1>2, <1>3, WFMin
<1>5. PICK n \in rest : \A m \in rest : ~ (<<m, n>> \in less)
  BY <1>4
<1>6. PICK x \in cln[p].todo : n = NumResources - x
  BY <1>5
<1>7. ASSUME NEW y \in cln[p].todo PROVE y <= x
  <2>1. NumResources - y \in rest
    BY <1>1
  <2>2. ~ (NumResources - y < n)
    BY <1>1, <1>5, <2>1
  <2> QED
    BY <1>1, <1>6, <2>2, NumResourcesAssumption
<1> QED
  BY <1>7 DEF Current

(***************************************************************************)
(* What the ledger's writes do to a row here.                              *)
(***************************************************************************)
LEMMA RowWrites ==
    /\ [NoRun EXCEPT !.state = "provisioning"] \in Run
    /\ \A a \in Run, to \in {"failed", "timed-out"} :
         /\ Moved(a, to) \in Run
         /\ Moved(a, to).cleanup = "succeeded" => a.cleanup = "succeeded"
         /\ Moved(a, to).state \in {a.state, to}
         /\ CanTransition(a, to) /\ a.state = "cleanup-failed" => Moved(a, to).state = "cleanup-failed"
    /\ \A a \in Run, to \in {"running", "succeeded"} :
         CleanedUp(a, to) \in Run /\ CleanedUp(a, to).cleanup = to /\ CleanedUp(a, to).state = a.state
    /\ \A a \in Run : a.state # "none" =>
         /\ CanClean(a, "failed")
         /\ CleanedUp(a, "failed") \in Run
         /\ CleanedUp(a, "failed").cleanup = "failed"
         /\ CleanedUp(a, "failed").state = "cleanup-failed"
<1>1. [NoRun EXCEPT !.state = "provisioning"] \in Run
  BY DEF NoRun, Run, Phases, CleanupStates
<1>2. ASSUME NEW a \in Run, NEW to \in {"failed", "timed-out"}
      PROVE  /\ Moved(a, to) \in Run
             /\ Moved(a, to).cleanup = "succeeded" => a.cleanup = "succeeded"
             /\ Moved(a, to).state \in {a.state, to}
  <2>1. /\ CleanupAfter(a.cleanup, to) \in CleanupStates
        /\ CleanupAfter(a.cleanup, to) = "succeeded" => a.cleanup = "succeeded"
    BY DEF CleanupAfter, CleanupStates, Run
  <2> QED
    BY <2>1 DEF Moved, Run, Outcomes
<1>3. ASSUME NEW a \in Run, NEW to \in {"failed", "timed-out"},
             CanTransition(a, to), a.state = "cleanup-failed"
      PROVE  Moved(a, to).state = "cleanup-failed"
  BY <1>3 DEF CanTransition, TRANSITIONS, Outcomes
<1>4. ASSUME NEW a \in Run, NEW to \in {"running", "succeeded"}
      PROVE  CleanedUp(a, to) \in Run /\ CleanedUp(a, to).cleanup = to
             /\ CleanedUp(a, to).state = a.state
  BY DEF CleanedUp, Run, CleanupStates
<1>5. ASSUME NEW a \in Run, a.state # "none"
      PROVE  /\ CanClean(a, "failed")
             /\ CleanedUp(a, "failed") \in Run
             /\ CleanedUp(a, "failed").cleanup = "failed"
             /\ CleanedUp(a, "failed").state = "cleanup-failed"
  <2>1. CanClean(a, "failed")
    BY <1>5 DEF CanClean, Run, CleanupStates
  <2> DEFINE b == [a EXCEPT !.cleanup = "failed"]
  <2>2. b \in Run /\ b.cleanup = "failed" /\ b.state = a.state
    BY DEF Run, CleanupStates
  <2>3. CleanedUp(a, "failed") = Moved(b, "cleanup-failed")
    BY DEF CleanedUp
  <2>4. CleanupAfter("failed", "cleanup-failed") = "failed"
    BY DEF CleanupAfter
  <2> HIDE DEF b
  <2>5. /\ Moved(b, "cleanup-failed") \in Run
        /\ Moved(b, "cleanup-failed").cleanup = "failed"
        /\ Moved(b, "cleanup-failed").state = "cleanup-failed"
    BY <2>2, <2>4 DEF Moved, Run, Outcomes, CleanupStates
  <2> QED
    BY <2>1, <2>3, <2>5
<1> QED
  BY <1>1, <1>2, <1>3, <1>4, <1>5
-----------------------------------------------------------------------------
(***************************************************************************)
(* Type correctness.                                                       *)
(***************************************************************************)
RowStates == {"none", "leased", "active", "leaked", "released"}

LEMMA MovesTyped ==
    ASSUME Typed, NEW p \in Cleaners, NEW s \in Cleaner, Moves(p, s)
    PROVE  cln' \in [Cleaners -> Cleaner] /\ cln' \in [Cleaners -> CleanerStates]
  BY CleanerForms DEF Typed, Moves

LEMMA SetRunTyped ==
    ASSUME Typed, NEW r \in Runs, NEW a \in Run, SetRun(r, a)
    PROVE  RunsTypeOK' /\ runs'[r] = a /\ \A q \in Runs \ {r} : runs'[q] = runs[q]
  BY DEF Typed, FixtureTypeOK, RunsTypeOK, SetRun

LEMMA RowsTyped ==
    ASSUME Typed, NEW r \in Runs, NEW x \in Resources, NEW v \in RowStates,
           rows' = [rows EXCEPT ![r][x] = v]
    PROVE  rows' \in [Runs -> [Resources -> RowStates]]
<1>1. rows \in [Runs -> [Resources -> RowStates]]
  BY DEF Typed, FixtureTypeOK, RowStates
<1>2. [rows[r] EXCEPT ![x] = v] \in [Resources -> RowStates]
  BY <1>1
<1> DEFINE new == [rows[r] EXCEPT ![x] = v]
<1>3. rows' = [rows EXCEPT ![r] = new]
  OBVIOUS
<1> HIDE DEF new
<1> QED
  BY <1>1, <1>2, <1>3 DEF new

LEMMA ProvisionTyped ==
    ASSUME Typed, NEW r \in Runs,
           EndRun(r) \/ Acquire(r) \/ Ensure(r) \/ MarkActive(r) \/ ProvisionDies(r)
    PROVE  Typed'
<1>0. /\ rows \in [Runs -> [Resources -> RowStates]]
      /\ runs[r] \in Run /\ rows[r] \in [Resources -> RowStates]
      /\ prov[r] \in 0..(2 * NumResources) /\ NumResources \in Nat
  BY NumResourcesAssumption DEF Typed, FixtureTypeOK, RunsTypeOK, RowStates
<1>1. CASE EndRun(r)
  <2>1. PICK to \in {"failed", "timed-out"} : SetRun(r, Moved(runs[r], to))
    BY <1>1 DEF EndRun
  <2>2. RunsTypeOK'
    BY <1>0, <2>1, RowWrites, SetRunTyped
  <2> QED
    BY <1>1, <2>2 DEF EndRun, Typed, FixtureTypeOK
<1>2. CASE Acquire(r)
  <2> DEFINE new == [x \in Resources |-> IF rows[r][x] = "none" THEN "leased" ELSE rows[r][x]]
  <2>1. new \in [Resources -> RowStates]
    BY <1>0 DEF RowStates
  <2>2. rows' = [rows EXCEPT ![r] = new]
    BY <1>2 DEF Acquire
  <2>3. rows' \in [Runs -> [Resources -> RowStates]]
    <3>1. \A f \in [Resources -> RowStates] :
             [rows EXCEPT ![r] = f] \in [Runs -> [Resources -> RowStates]]
      BY <1>0
    <3> HIDE DEF new
    <3> QED
      BY <2>1, <2>2, <3>1
  <2>4. lease' \in [Runs -> Leases]
    BY <1>2 DEF Acquire, Typed, FixtureTypeOK, Leases
  <2>5. 1 \in 0..(2 * NumResources)
    BY NumResourcesAssumption
  <2>6. prov' \in [Runs -> 0..(2 * NumResources)]
    BY <1>2, <2>5 DEF Acquire, Typed, FixtureTypeOK
  <2> QED
    BY <1>2, <2>3, <2>4, <2>6 DEF Acquire, Typed, FixtureTypeOK, RunsTypeOK, RowStates
<1>3. CASE Ensure(r)
  <2>1. PICK x \in Resources : prov[r] = 2 * x - 1
    BY <1>3 DEF Ensure
  <2>2. x \in 1..NumResources
    BY <2>1 DEF Resources
  <2>3. (prov[r] + 1) \div 2 = x /\ prov[r] + 1 \in 0..(2 * NumResources)
    BY <1>0, <2>1, <2>2
  <2>4. real' \in [Runs -> SUBSET Resources]
    BY <1>3, <2>1, <2>3 DEF Ensure, Typed, FixtureTypeOK
  <2>5. prov' \in [Runs -> 0..(2 * NumResources)]
    BY <1>3, <2>3 DEF Ensure, Typed, FixtureTypeOK
  <2> QED
    BY <1>3, <2>4, <2>5 DEF Ensure, Typed, FixtureTypeOK, RunsTypeOK
<1>4. CASE MarkActive(r)
  <2>1. PICK x \in Resources : prov[r] = 2 * x
    BY <1>4 DEF MarkActive
  <2>2. x \in 1..NumResources
    BY <2>1 DEF Resources
  <2>3. prov[r] \div 2 = x
    BY <2>1, <2>2
  <2>4. NextStep(r) \in 0..(2 * NumResources)
    BY <1>0, <2>1, <2>2 DEF NextStep
  <2>5. 0 \in 0..(2 * NumResources)
    BY <1>0
  <2>6. prov' \in [Runs -> 0..(2 * NumResources)]
    BY <1>4, <2>4, <2>5 DEF MarkActive, Typed, FixtureTypeOK
  <2>7. rows' = [rows EXCEPT ![r][x] = "active"] \/ rows' = rows
    BY <1>4, <2>3 DEF MarkActive
  <2>8. rows' \in [Runs -> [Resources -> RowStates]]
    BY <1>0, <2>7, RowsTyped DEF RowStates
  <2> QED
    BY <1>4, <2>6, <2>8 DEF MarkActive, Typed, FixtureTypeOK, RunsTypeOK, RowStates
<1>5. CASE ProvisionDies(r)
  <2>1. prov' \in [Runs -> 0..(2 * NumResources)]
    <3>1. 0 \in 0..(2 * NumResources)
      BY <1>0
    <3> QED
      BY <1>5, <3>1 DEF ProvisionDies, Typed, FixtureTypeOK
  <2>2. crashes' \in 0..MaxCrashes
    BY <1>5, FixtureCrashesAssumption DEF ProvisionDies, Typed, FixtureTypeOK
  <2> QED
    BY <1>5, <2>1, <2>2 DEF ProvisionDies, Typed, FixtureTypeOK, RunsTypeOK
<1> QED
  BY <1>1, <1>2, <1>3, <1>4, <1>5

(***************************************************************************)
(* What every step of a cleaner does: it moves the cleaner from one state  *)
(* to another, and writes what the next state needs.                       *)
(***************************************************************************)
LEMMA StartForm ==
    ASSUME Typed, NEW p \in Cleaners,
           StartReaping(p) \/ \E r \in Runs : StartCleanup(p, r)
    PROVE  /\ UNCHANGED <<runs, lease, rows, real, prov, crashes>>
           /\ cln[p].pc = "idle"
           /\ \E s \in Working :
                /\ Moves(p, s) /\ s.pc = "read"
                /\ \A r \in {s.run} \cup s.seen : lease[r] # "none" /\ Settled(r)
<1>1. CASE StartReaping(p)
  <2>1. PICK list \in ReapingLists :
           (\A r \in list : Settled(r)) /\ \E r \in list : Enter(p, r, list \ {r})
    BY <1>1 DEF StartReaping
  <2>2. PICK r \in list : Enter(p, r, list \ {r})
    BY <2>1
  <2>3. list \in SUBSET Runs /\ \A q \in list : lease[q] # "none"
    BY DEF ReapingLists
  <2>4. Moves(p, Entered(r, list \ {r}))
    BY <2>2 DEF Enter, Moves, Entered
  <2>5. \A q \in {r} \cup (list \ {r}) : lease[q] # "none" /\ Settled(q)
    BY <2>1, <2>3
  <2> QED
    BY <1>1, <2>3, <2>4, <2>5, CleanerForms DEF StartReaping, At
<1>2. ASSUME NEW r \in Runs, StartCleanup(p, r)
      PROVE  /\ UNCHANGED <<runs, lease, rows, real, prov, crashes>>
             /\ cln[p].pc = "idle"
             /\ \E s \in Working :
                  /\ Moves(p, s) /\ s.pc = "read"
                  /\ \A q \in {s.run} \cup s.seen : lease[q] # "none" /\ Settled(q)
  <2>1. Moves(p, Entered(r, {}))
    BY <1>2 DEF StartCleanup, Enter, Moves, Entered
  <2>2. lease[r] # "none" /\ Settled(r) /\ {} \in SUBSET Runs
    BY <1>2 DEF StartCleanup
  <2> QED
    BY <1>2, <2>1, <2>2, CleanerForms DEF StartCleanup, At
<1> QED
  BY <1>1, <1>2

LEMMA ReadForm ==
    ASSUME Typed, NEW p \in Cleaners, ReadLease(p) \/ CleanerDies(p)
    PROVE  /\ UNCHANGED <<runs, lease, rows, real, prov>>
           /\ crashes' = crashes \/ crashes' \in 1..MaxCrashes
           /\ cln[p].pc # "idle"
           /\ crashes' = 0 => cln[p].pc = "read"
           /\ \E s \in Cleaner :
                /\ Moves(p, s)
                /\ \/ s.pc = "idle"
                   \/ /\ s.pc \in {"read", "begin"} /\ s \in Working
                      /\ s.run \in {cln[p].run} \cup cln[p].seen /\ s.seen \subseteq cln[p].seen
<1>1. CASE ReadLease(p) /\ lease[cln[p].run] = "released"
  <2>1. cln[p].pc = "read" /\ Leave(p)
    BY <1>1 DEF ReadLease, At
  <2> QED
    BY <1>1, <2>1, LeaveForm DEF ReadLease
<1>2. CASE ReadLease(p) /\ lease[cln[p].run] # "released"
  <2>1. cln[p].pc = "read" /\ Goto(p, "begin")
    BY <1>2 DEF ReadLease, At
  <2>2. PICK s \in Working : Moves(p, s) /\ s.pc = "begin" /\ s.run = cln[p].run
                             /\ s.seen = cln[p].seen
    BY <2>1, GotoForm DEF Points
  <2> QED
    BY <1>2, <2>1, <2>2, CleanerForms DEF ReadLease
<1>3. CASE CleanerDies(p)
  <2>1. Moves(p, IdleCleaner) /\ cln[p].pc # "idle"
    BY <1>3 DEF CleanerDies, Throw, Moves, At
  <2>2. crashes' \in 1..MaxCrashes
    BY <1>3, FixtureCrashesAssumption DEF CleanerDies, Typed, FixtureTypeOK
  <2> QED
    BY <1>3, <2>1, <2>2, CleanerForms DEF CleanerDies
<1> QED
  BY <1>1, <1>2, <1>3

LEMMA BeginForm ==
    ASSUME Typed, NEW p \in Cleaners, BeginCleanup(p)
    PROVE  /\ UNCHANGED <<runs, rows, real, prov, crashes>>
           /\ cln[p].pc = "begin"
           /\ lease' = [lease EXCEPT ![cln[p].run] = IF @ = "released" THEN @ ELSE "cleaning"]
           /\ \E s \in Working : /\ Moves(p, s) /\ s.pc = "mark" /\ s.run = cln[p].run
                                 /\ s.seen = cln[p].seen
<1>1. cln[p].pc = "begin" /\ cln[p] \in Working /\ cln \in [Cleaners -> Cleaner]
  BY CleanerForms DEF BeginCleanup, At, Typed, FixtureTypeOK
<1> DEFINE s == [cln[p] EXCEPT !.pc = "mark", !.todo = TodoAfterBegin(cln[p].run)]
<1>2. TodoAfterBegin(cln[p].run) \in SUBSET Resources
  BY DEF TodoAfterBegin
<1>3. s \in Working /\ s.pc = "mark" /\ s.run = cln[p].run /\ s.seen = cln[p].seen
  BY <1>1, <1>2 DEF Working, Records, Points
<1>4. Moves(p, s)
  BY <1>1 DEF BeginCleanup, Moves
<1> QED
  BY <1>1, <1>3, <1>4 DEF BeginCleanup

LEMMA MarkForm ==
    ASSUME Typed, NEW p \in Cleaners, MarkRunning(p)
    PROVE  /\ UNCHANGED <<lease, rows, real, prov, crashes>>
           /\ cln[p].pc = "mark" /\ cln[p].run \in Runs
           /\ \/ UNCHANGED runs
              \/ SetRun(cln[p].run, CleanedUp(runs[cln[p].run], "running"))
           /\ \E s \in Cleaner :
                /\ Moves(p, s)
                /\ \/ s.pc = "idle"
                   \/ /\ s.pc \in {"remove", "finish"} /\ s \in Working
                      /\ s.run = cln[p].run /\ s.seen = cln[p].seen
<1>1. cln[p].pc = "mark" /\ cln[p] \in Working
  BY CleanerForms DEF MarkRunning, At, Typed, FixtureTypeOK
<1>2. cln[p].run \in Runs
  BY <1>1 DEF Working, Records
<1>3. CASE Goto(p, AfterMark(p))
  <2>1. /\ AfterMark(p) \in {"remove", "finish"} /\ AfterMark(p) \in Points
        /\ AfterMark(p) = "remove" => cln[p].todo # {}
    BY DEF AfterMark, Points
  <2>2. PICK s \in Working : Moves(p, s) /\ s.pc = AfterMark(p) /\ s.run = cln[p].run
                             /\ s.seen = cln[p].seen
    BY <1>1, <1>3, <2>1, GotoForm
  <2> QED
    BY <1>1, <1>2, <2>1, <2>2, CleanerForms DEF MarkRunning
<1>4. CASE Throw(p)
  BY <1>1, <1>2, <1>4, CleanerForms DEF MarkRunning, Throw, Moves
<1> QED
  BY <1>3, <1>4 DEF MarkRunning

LEMMA RemoveForm ==
    ASSUME Typed, NEW p \in Cleaners, RemoveResource(p)
    PROVE  /\ UNCHANGED <<runs, lease, rows, prov, crashes>>
           /\ cln[p].pc = "remove" /\ cln[p].run \in Runs
           /\ \E left \in SUBSET real[cln[p].run], s \in Working :
                /\ real' = [real EXCEPT ![cln[p].run] = left]
                /\ Moves(p, s)
                /\ s.pc = "record" /\ s.run = cln[p].run /\ s.seen = cln[p].seen
                /\ s.todo = cln[p].todo
                /\ Current(p) \notin s.leaked => Current(p) \notin left
<1>1. cln[p].pc = "remove" /\ cln[p] \in Working /\ cln \in [Cleaners -> Cleaner]
  BY CleanerForms DEF RemoveResource, At, Typed
<1>2. cln[p].run \in Runs /\ cln[p].todo \in SUBSET Resources /\ cln[p].todo # {}
  BY <1>1 DEF Working, Records
<1>3. Current(p) \in Resources
  BY <1>2, CurrentFound
<1> DEFINE r == cln[p].run
           x == Current(p)
<1>4. PICK left \in {real[r], real[r] \ {x}}, threw \in BOOLEAN :
             /\ real' = [real EXCEPT ![r] = left]
             /\ IF Verified(x, left, threw)
                THEN Goto(p, "record")
                ELSE cln' = [cln EXCEPT ![p].pc = "record", ![p].leaked = @ \cup {x}]
  BY <1>1 DEF RemoveResource
<1>5. left \in SUBSET real[r]
  OBVIOUS
<1>6. CASE Verified(x, left, threw)
  <2>1. x \notin left
    BY <1>6 DEF Verified
  <2>2. PICK s \in Working :
           /\ Moves(p, s)
           /\ s.pc = "record" /\ s.run = r /\ s.seen = cln[p].seen /\ s.todo = cln[p].todo
    BY <1>1, <1>2, <1>4, <1>6, GotoForm DEF Points
  <2> QED
    BY <1>1, <1>2, <1>4, <1>5, <2>1, <2>2 DEF RemoveResource
<1>7. CASE ~ Verified(x, left, threw)
  <2> DEFINE s == [cln[p] EXCEPT !.pc = "record", !.leaked = @ \cup {x}]
  <2>1. /\ s \in Working
        /\ s.pc = "record" /\ s.run = r /\ s.seen = cln[p].seen /\ s.todo = cln[p].todo
        /\ x \in s.leaked
    BY <1>1, <1>3 DEF Working, Records, Points
  <2>2. Moves(p, s)
    BY <1>1, <1>4, <1>7 DEF Moves
  <2> QED
    BY <1>1, <1>2, <1>4, <1>5, <2>1, <2>2 DEF RemoveResource
<1> QED
  BY <1>6, <1>7

LEMMA RecordForm ==
    ASSUME Typed, NEW p \in Cleaners, RecordResource(p)
    PROVE  /\ UNCHANGED <<runs, lease, real, prov, crashes>>
           /\ cln[p].pc = "record" /\ cln[p].run \in Runs /\ Current(p) \in Resources
           /\ \/ UNCHANGED rows /\ Moves(p, IdleCleaner)
              \/ \E to \in {"leaked", "released"}, s \in Working :
                   /\ to = "released" => Current(p) \notin cln[p].leaked
                   /\ to = "leaked" => rows[cln[p].run][Current(p)] # "released"
                   /\ rows' = [rows EXCEPT ![cln[p].run][Current(p)] = to]
                   /\ Moves(p, s)
                   /\ s.pc \in {"remove", "finish"} /\ s.run = cln[p].run /\ s.seen = cln[p].seen
<1>1. cln[p].pc = "record" /\ cln[p] \in Working /\ cln \in [Cleaners -> Cleaner]
  BY CleanerForms DEF RecordResource, At, Typed
<1>2. cln[p].run \in Runs /\ cln[p].todo \in SUBSET Resources /\ cln[p].todo # {}
  BY <1>1 DEF Working, Records
<1>3. Current(p) \in cln[p].todo /\ Current(p) \in Resources
  BY <1>2, CurrentFound
<1> DEFINE r == cln[p].run
           x == Current(p)
           to == IF x \in cln[p].leaked THEN "leaked" ELSE "released"
<1>4. CASE to = "released" \/ MayLeak(r, x)
  <2> DEFINE pc == IF cln[p].todo = {x} THEN "finish" ELSE "remove"
             s == [cln[p] EXCEPT !.todo = @ \ {x}, !.pc = pc]
  <2>1. pc \in {"remove", "finish"} /\ (pc = "remove" => cln[p].todo \ {x} # {})
    BY <1>3
  <2>2. s \in Records
    BY <1>1, <1>2, <2>1 DEF Working, Records, Points
  <2>3. s.todo = cln[p].todo \ {x} /\ s.pc = pc /\ s.run = r /\ s.seen = cln[p].seen
    BY <1>1 DEF Working, Records
  <2>4. s \in Working
    BY <2>1, <2>2, <2>3 DEF Working
  <2>5. Moves(p, s) /\ rows' = [rows EXCEPT ![r][x] = to]
    BY <1>1, <1>4 DEF RecordResource, Moves
  <2>6. /\ to \in {"leaked", "released"}
        /\ to = "released" => x \notin cln[p].leaked
        /\ to = "leaked" => rows[r][x] # "released"
    BY <1>4 DEF MayLeak
  <2> HIDE DEF s, pc, to
  <2> QED
    BY <1>1, <1>2, <1>3, <2>1, <2>3, <2>4, <2>5, <2>6 DEF RecordResource
<1>5. CASE ~ (to = "released" \/ MayLeak(r, x))
  <2>1. UNCHANGED rows /\ Moves(p, IdleCleaner)
    BY <1>5 DEF RecordResource, Throw, Moves
  <2> QED
    BY <1>1, <1>2, <1>3, <2>1 DEF RecordResource
<1> QED
  BY <1>4, <1>5

LEMMA FinishForm ==
    ASSUME Typed, NEW p \in Cleaners, Finish(p)
    PROVE  /\ UNCHANGED <<runs, rows, real, prov, crashes>>
           /\ cln[p].pc = "finish" /\ cln[p].run \in Runs
           /\ \/ UNCHANGED lease /\ Moves(p, IdleCleaner)
              \/ /\ MayFinish(cln[p].run, Verdict(p))
                 /\ lease' = [lease EXCEPT ![cln[p].run] = Verdict(p)]
                 /\ \E s \in Working :
                      /\ Moves(p, s) /\ s.pc = "report"
                      /\ s.run = cln[p].run /\ s.seen = cln[p].seen /\ s.leaked = cln[p].leaked
<1>1. cln[p].pc = "finish" /\ cln[p].run \in Runs
  BY CleanerForms DEF Finish, At, Typed, Working, Records
<1>2. CASE MayFinish(cln[p].run, Verdict(p))
  <2>1. Goto(p, "report") /\ lease' = [lease EXCEPT ![cln[p].run] = Verdict(p)]
    BY <1>2 DEF Finish
  <2>2. PICK s \in Working : /\ Moves(p, s) /\ s.pc = "report" /\ s.run = cln[p].run
                             /\ s.seen = cln[p].seen /\ s.leaked = cln[p].leaked
    BY <1>1, <2>1, GotoForm DEF Points
  <2> QED
    BY <1>1, <1>2, <2>1, <2>2 DEF Finish
<1>3. CASE ~ MayFinish(cln[p].run, Verdict(p))
  BY <1>1, <1>3 DEF Finish, Throw, Moves
<1> QED
  BY <1>2, <1>3

LEMMA ReportForm ==
    ASSUME Typed, NEW p \in Cleaners, ReportCleanup(p)
    PROVE  /\ UNCHANGED <<lease, rows, real, prov, crashes>>
           /\ cln[p].pc = "report" /\ cln[p].run \in Runs
           /\ \E to \in {"succeeded", "failed"} :
                /\ cln[p].leaked = {} <=> to = "succeeded"
                /\ \/ UNCHANGED runs /\ ~ CanClean(runs[cln[p].run], to)
                   \/ /\ CanClean(runs[cln[p].run], to)
                      /\ SetRun(cln[p].run, CleanedUp(runs[cln[p].run], to))
           /\ \E s \in Cleaner :
                /\ Moves(p, s)
                /\ \/ s.pc = "idle"
                   \/ /\ s.pc = "read" /\ s \in Working
                      /\ s.run \in cln[p].seen /\ s.seen \subseteq cln[p].seen
<1>1. cln[p].pc = "report" /\ cln[p].run \in Runs
  BY CleanerForms DEF ReportCleanup, At, Typed, Working, Records
<1> DEFINE to == IF cln[p].leaked = {} THEN "succeeded" ELSE "failed"
<1>2. to \in {"succeeded", "failed"} /\ (cln[p].leaked = {} <=> to = "succeeded")
  OBVIOUS
<1>3. \/ UNCHANGED runs /\ ~ CanClean(runs[cln[p].run], to) /\ Throw(p)
      \/ /\ CanClean(runs[cln[p].run], to)
         /\ SetRun(cln[p].run, CleanedUp(runs[cln[p].run], to)) /\ Leave(p)
  BY DEF ReportCleanup
<1>4. \E s \in Cleaner :
                /\ Moves(p, s)
                /\ \/ s.pc = "idle"
                   \/ /\ s.pc = "read" /\ s \in Working
                      /\ s.run \in cln[p].seen /\ s.seen \subseteq cln[p].seen
  <2>1. CASE Throw(p)
    BY <2>1, CleanerForms DEF Throw, Moves
  <2>2. CASE Leave(p)
    BY <1>1, <2>2, LeaveForm
  <2> QED
    BY <1>3, <2>1, <2>2
<1> HIDE DEF to
<1> QED
  BY <1>1, <1>2, <1>3, <1>4 DEF ReportCleanup

LEMMA CleanerTyped ==
    ASSUME Typed, NEW p \in Cleaners,
           \/ StartReaping(p) \/ (\E r \in Runs : StartCleanup(p, r))
           \/ ReadLease(p) \/ BeginCleanup(p) \/ MarkRunning(p) \/ RemoveResource(p)
           \/ RecordResource(p) \/ Finish(p) \/ ReportCleanup(p) \/ CleanerDies(p)
    PROVE  Typed'
<1>0. /\ cln' \in [Cleaners -> Cleaner] /\ cln' \in [Cleaners -> CleanerStates]
      /\ runs \in [Runs -> Run] /\ lease \in [Runs -> Leases]
      /\ rows \in [Runs -> [Resources -> RowStates]]
      /\ real \in [Runs -> SUBSET Resources]
  <2>1. \E s \in Cleaner : Moves(p, s)
    BY StartForm, ReadForm, BeginForm, MarkForm, RemoveForm, RecordForm, FinishForm, ReportForm,
       CleanerForms
  <2> QED
    BY <2>1, MovesTyped DEF Typed, FixtureTypeOK, RunsTypeOK, RowStates
<1>1. CASE StartReaping(p) \/ (\E r \in Runs : StartCleanup(p, r))
  BY <1>0, <1>1, StartForm DEF Typed, FixtureTypeOK, RunsTypeOK
<1>2. CASE ReadLease(p) \/ CleanerDies(p)
  <2>1. crashes' \in 0..MaxCrashes
    BY <1>2, ReadForm, FixtureCrashesAssumption DEF Typed, FixtureTypeOK
  <2> QED
    BY <1>0, <1>2, <2>1, ReadForm DEF Typed, FixtureTypeOK, RunsTypeOK
<1>3. CASE BeginCleanup(p)
  <2>1. lease' \in [Runs -> Leases]
    BY <1>0, <1>3, BeginForm DEF Leases
  <2> QED
    BY <1>0, <1>3, <2>1, BeginForm DEF Typed, FixtureTypeOK, RunsTypeOK
<1>4. CASE MarkRunning(p)
  <2>1. RunsTypeOK'
    <3>1. CASE UNCHANGED runs
      BY <1>0, <3>1 DEF RunsTypeOK
    <3>2. CASE SetRun(cln[p].run, CleanedUp(runs[cln[p].run], "running"))
      <4>1. cln[p].run \in Runs /\ CleanedUp(runs[cln[p].run], "running") \in Run
        BY <1>0, <1>4, MarkForm, RowWrites
      <4> QED
        BY <3>2, <4>1, SetRunTyped
    <3> QED
      BY <1>4, <3>1, <3>2, MarkForm
  <2> QED
    BY <1>0, <1>4, <2>1, MarkForm DEF Typed, FixtureTypeOK
<1>5. CASE RemoveResource(p)
  <2>1. real' \in [Runs -> SUBSET Resources]
    BY <1>0, <1>5, RemoveForm
  <2> QED
    BY <1>0, <1>5, <2>1, RemoveForm DEF Typed, FixtureTypeOK, RunsTypeOK
<1>6. CASE RecordResource(p)
  <2>1. rows' \in [Runs -> [Resources -> RowStates]]
    <3>1. CASE UNCHANGED rows
      BY <1>0, <3>1
    <3>2. CASE ~ UNCHANGED rows
      <4>1. PICK to \in {"leaked", "released"} : rows' = [rows EXCEPT ![cln[p].run][Current(p)] = to]
        BY <1>6, <3>2, RecordForm
      <4>2. cln[p].run \in Runs /\ Current(p) \in Resources /\ to \in RowStates
        BY <1>6, RecordForm DEF RowStates
      <4> QED
        BY <4>1, <4>2, RowsTyped
    <3> QED
      BY <3>1, <3>2
  <2> QED
    BY <1>0, <1>6, <2>1, RecordForm DEF Typed, FixtureTypeOK, RunsTypeOK, RowStates
<1>7. CASE Finish(p)
  <2>1. lease' \in [Runs -> Leases]
    BY <1>0, <1>7, FinishForm DEF Verdict, Leases
  <2> QED
    BY <1>0, <1>7, <2>1, FinishForm DEF Typed, FixtureTypeOK, RunsTypeOK
<1>8. CASE ReportCleanup(p)
  <2>1. RunsTypeOK'
    <3>1. CASE UNCHANGED runs
      BY <1>0, <3>1 DEF RunsTypeOK
    <3>2. CASE ~ UNCHANGED runs
      <4>1. PICK to \in {"succeeded", "failed"} :
               /\ CanClean(runs[cln[p].run], to)
               /\ SetRun(cln[p].run, CleanedUp(runs[cln[p].run], to))
        BY <1>8, <3>2, ReportForm
      <4>2. cln[p].run \in Runs /\ runs[cln[p].run] \in Run
        BY <1>0, <1>8, ReportForm
      <4>3. runs[cln[p].run].state # "none"
        BY <4>1 DEF CanClean
      <4>4. CleanedUp(runs[cln[p].run], to) \in Run
        BY <4>2, <4>3, RowWrites
      <4> QED
        BY <4>1, <4>2, <4>4, SetRunTyped
    <3> QED
      BY <3>1, <3>2
  <2> QED
    BY <1>0, <1>8, <2>1, ReportForm DEF Typed, FixtureTypeOK
<1> QED
  BY <1>1, <1>2, <1>3, <1>4, <1>5, <1>6, <1>7, <1>8

LEMMA TypedStep == Typed /\ [FixtureNext]_fixtureVars => Typed'
<1> SUFFICES ASSUME Typed, [FixtureNext]_fixtureVars PROVE Typed'
  OBVIOUS
<1>1. CASE UNCHANGED fixtureVars
  BY <1>1 DEF fixtureVars, Typed, FixtureTypeOK, RunsTypeOK
<1>2. CASE FixtureNext
  BY <1>2, ProvisionTyped, CleanerTyped DEF FixtureNext
<1> QED
  BY <1>1, <1>2

LEMMA TypedInit == FixtureInit => Typed
<1> SUFFICES ASSUME FixtureInit PROVE Typed
  OBVIOUS
<1>1. RunsTypeOK
  BY RowWrites DEF FixtureInit, RunsTypeOK
<1>2. /\ lease \in [Runs -> Leases]
      /\ rows \in [Runs -> [Resources -> RowStates]]
      /\ real \in [Runs -> SUBSET Resources]
  BY DEF FixtureInit, Leases, RowStates
<1>3. cln \in [Cleaners -> Cleaner] /\ cln \in [Cleaners -> CleanerStates]
  BY CleanerForms DEF FixtureInit
<1>4. prov \in [Runs -> 0..(2 * NumResources)]
  <2>1. 0 \in 0..(2 * NumResources)
    BY NumResourcesAssumption
  <2> QED
    BY <2>1 DEF FixtureInit
<1>5. crashes \in 0..MaxCrashes
  BY FixtureCrashesAssumption DEF FixtureInit
<1> QED
  BY <1>1, <1>2, <1>3, <1>4, <1>5 DEF Typed, FixtureTypeOK, RowStates

(***************************************************************************)
(* The type invariant of the fixtures, whoever crashes or overlaps: the    *)
(* resource a cleanup is at always is one of its run's.                    *)
(***************************************************************************)
THEOREM FixturesTypeCorrect == FixtureSpec => []FixtureTypeOK
<1>1. Typed => FixtureTypeOK
  BY DEF Typed
<1> QED
  BY <1>1, TypedInit, TypedStep, PTL DEF FixtureSpec
-----------------------------------------------------------------------------
(***************************************************************************)
(* How one step changes the lease and the rows of a run.                   *)
(***************************************************************************)
LEMMA ReleasedStep ==
    ASSUME Typed, [FixtureNext]_fixtureVars, NEW r \in Runs
    PROVE  /\ lease[r] # "none" => lease'[r] # "none"
           /\ lease[r] = "released" => lease'[r] = "released"
           /\ \A x \in Resources : rows[r][x] = "released" => rows'[r][x] = "released"
<1>0. lease \in [Runs -> Leases] /\ rows \in [Runs -> [Resources -> RowStates]]
  BY DEF Typed, FixtureTypeOK, RowStates
<1>1. CASE UNCHANGED <<lease, rows>>
  BY <1>1
<1>2. ASSUME NEW q \in Runs, Acquire(q)
      PROVE  /\ lease[r] # "none" => lease'[r] # "none"
             /\ lease[r] = "released" => lease'[r] = "released"
             /\ \A x \in Resources : rows[r][x] = "released" => rows'[r][x] = "released"
  BY <1>0, <1>2 DEF Acquire
<1>3. ASSUME NEW q \in Runs, MarkActive(q)
      PROVE  /\ UNCHANGED lease
             /\ \A x \in Resources : rows[r][x] = "released" => rows'[r][x] = "released"
  <2>1. PICK x : \/ rows[q][x] # "released" /\ rows' = [rows EXCEPT ![q][x] = "active"]
                 \/ UNCHANGED rows
    BY <1>3 DEF MarkActive
  <2> QED
    BY <1>0, <1>3, <2>1 DEF MarkActive
<1>4. ASSUME NEW p \in Cleaners, BeginCleanup(p)
      PROVE  /\ lease[r] # "none" => lease'[r] # "none"
             /\ lease[r] = "released" => lease'[r] = "released"
             /\ UNCHANGED rows
  BY <1>0, <1>4, BeginForm
<1>5. ASSUME NEW p \in Cleaners, RecordResource(p)
      PROVE  /\ UNCHANGED lease
             /\ \A x \in Resources : rows[r][x] = "released" => rows'[r][x] = "released"
  <2>1. UNCHANGED lease
    BY <1>5, RecordForm
  <2>2. \/ UNCHANGED rows
        \/ \E to \in {"leaked", "released"} :
             /\ to = "leaked" => rows[cln[p].run][Current(p)] # "released"
             /\ rows' = [rows EXCEPT ![cln[p].run][Current(p)] = to]
    BY <1>5, RecordForm
  <2> QED
    BY <1>0, <2>1, <2>2
<1>6. ASSUME NEW p \in Cleaners, Finish(p)
      PROVE  /\ lease[r] # "none" => lease'[r] # "none"
             /\ lease[r] = "released" => lease'[r] = "released"
             /\ UNCHANGED rows
  BY <1>0, <1>6, FinishForm DEF MayFinish, Verdict
<1>7. CASE \E q \in Runs : EndRun(q) \/ Ensure(q) \/ ProvisionDies(q)
  BY <1>1, <1>7 DEF EndRun, Ensure, ProvisionDies
<1>8. CASE \E p \in Cleaners : \/ StartReaping(p) \/ (\E q \in Runs : StartCleanup(p, q))
                               \/ ReadLease(p) \/ MarkRunning(p) \/ RemoveResource(p)
                               \/ ReportCleanup(p) \/ CleanerDies(p)
  BY <1>1, <1>8, StartForm, ReadForm, MarkForm, RemoveForm, ReportForm
<1>9. CASE UNCHANGED fixtureVars
  BY <1>1, <1>9 DEF fixtureVars
<1> QED
  BY <1>2, <1>3, <1>4, <1>5, <1>6, <1>7, <1>8, <1>9 DEF FixtureNext

(***************************************************************************)
(* A released resource, and a released lease, stay released, however many  *)
(* cleanups of a run overlap and even if it is provisioned again.          *)
(***************************************************************************)
THEOREM FixturesReleaseFinal == FixtureSpec => ReleaseIsFinal
<1> DEFINE A == \A r \in Runs :
                  /\ lease[r] = "released" => lease'[r] = "released"
                  /\ \A x \in Resources : rows[r][x] = "released" => rows'[r][x] = "released"
<1>1. Typed /\ [FixtureNext]_fixtureVars => [A]_fixtureVars
  BY ReleasedStep
<1> QED
  BY <1>1, TypedInit, TypedStep, PTL DEF FixtureSpec, ReleaseIsFinal
-----------------------------------------------------------------------------
(***************************************************************************)
(* Once a run is leased and its provision is over, no provision of it runs *)
(* again and nothing of it is created.                                     *)
(***************************************************************************)
LEMMA SettledStep ==
    ASSUME ~ LateProvision, Typed, [FixtureNext]_fixtureVars, NEW r \in Runs, Settles(r)
    PROVE  Settles(r)' /\ real'[r] \subseteq real[r]
<1>0. /\ lease'[r] # "none" /\ real \in [Runs -> SUBSET Resources]
      /\ prov \in [Runs -> 0..(2 * NumResources)]
  BY ReleasedStep DEF Settles, Typed, FixtureTypeOK
<1>1. CASE UNCHANGED <<prov, real>>
  BY <1>0, <1>1 DEF Settles
<1>2. CASE \E q \in Runs : EndRun(q)
  BY <1>1, <1>2 DEF EndRun
<1>3. ASSUME NEW q \in Runs, Acquire(q) \/ ProvisionDies(q) \/ MarkActive(q) \/ Ensure(q)
      PROVE  Settles(r)' /\ real'[r] \subseteq real[r]
  <2>1. q # r
    <3>1. CASE Acquire(q)
      BY <3>1 DEF Acquire, Settles
    <3>2. CASE ProvisionDies(q)
      BY <3>2 DEF ProvisionDies, Settles
    <3>3. CASE MarkActive(q)
      <4>1. PICK x \in Resources : prov[q] = 2 * x
        BY <3>3 DEF MarkActive
      <4> QED
        BY <4>1 DEF Resources, Settles
    <3>4. CASE Ensure(q)
      <4>1. PICK x \in Resources : prov[q] = 2 * x - 1
        BY <3>4 DEF Ensure
      <4> QED
        BY <4>1 DEF Resources, Settles
    <3> QED
      BY <1>3, <3>1, <3>2, <3>3, <3>4
  <2> QED
    BY <1>0, <1>3, <2>1 DEF Acquire, ProvisionDies, MarkActive, Ensure, Settles
<1>4. CASE \E p \in Cleaners : \/ StartReaping(p) \/ (\E q \in Runs : StartCleanup(p, q))
                               \/ ReadLease(p) \/ BeginCleanup(p) \/ MarkRunning(p)
                               \/ RecordResource(p) \/ Finish(p) \/ ReportCleanup(p) \/ CleanerDies(p)
  BY <1>1, <1>4, StartForm, ReadForm, BeginForm, MarkForm, RecordForm, FinishForm, ReportForm
<1>5. ASSUME NEW p \in Cleaners, RemoveResource(p)
      PROVE  Settles(r)' /\ real'[r] \subseteq real[r]
  BY <1>0, <1>5, RemoveForm DEF Settles
<1>6. CASE UNCHANGED fixtureVars
  BY <1>1, <1>6 DEF fixtureVars
<1> QED
  BY <1>2, <1>3, <1>4, <1>5, <1>6 DEF FixtureNext

(***************************************************************************)
(* A cleaner that works after a step goes on with what it had before it,   *)
(* or has just read leases whose provision is over.                        *)
(***************************************************************************)
GoesOn(p) ==
    /\ cln[p].pc # "idle"
    /\ cln'[p].run \in {cln[p].run} \cup cln[p].seen
    /\ cln'[p].seen \subseteq cln[p].seen

JustStarted(p) ==
    /\ cln'[p].pc = "read"
    /\ \A r \in {cln'[p].run} \cup cln'[p].seen : lease[r] # "none" /\ Settled(r)

LEMMA CleanerTrail ==
    ASSUME Typed, [FixtureNext]_fixtureVars, NEW p \in Cleaners
    PROVE  \/ cln'[p].pc = "idle" \/ GoesOn(p) \/ JustStarted(p)
<1>0. cln \in [Cleaners -> Cleaner]
  BY DEF Typed
<1>1. CASE cln'[p] = cln[p]
  BY <1>1 DEF GoesOn
<1>2. ASSUME NEW q \in Cleaners, q # p, NEW s \in Cleaner, Moves(q, s)
      PROVE  cln'[p] = cln[p]
  BY <1>0, <1>2 DEF Moves
<1>3. ASSUME NEW s \in Cleaner, Moves(p, s)
      PROVE  cln'[p] = s
  BY <1>0, <1>3 DEF Moves
<1>4. CASE \E r \in Runs : EndRun(r) \/ Acquire(r) \/ Ensure(r) \/ MarkActive(r) \/ ProvisionDies(r)
  BY <1>1, <1>4 DEF EndRun, Acquire, Ensure, MarkActive, ProvisionDies
<1>5. ASSUME NEW q \in Cleaners,
             StartReaping(q) \/ \E r \in Runs : StartCleanup(q, r)
      PROVE  cln'[p] = cln[p] \/ JustStarted(p)
  <2>1. PICK s \in Working :
           /\ Moves(q, s) /\ s.pc = "read"
           /\ \A r \in {s.run} \cup s.seen : lease[r] # "none" /\ Settled(r)
    BY <1>5, StartForm
  <2> QED
    BY <1>2, <1>3, <2>1, CleanerForms DEF JustStarted
<1>6. ASSUME NEW q \in Cleaners,
             \/ ReadLease(q) \/ BeginCleanup(q) \/ MarkRunning(q) \/ RemoveResource(q)
             \/ RecordResource(q) \/ Finish(q) \/ ReportCleanup(q) \/ CleanerDies(q)
      PROVE  cln'[p] = cln[p] \/ cln'[p].pc = "idle" \/ GoesOn(p)
  <2>1. /\ cln[q].pc # "idle"
        /\ \E s \in Cleaner :
             /\ Moves(q, s)
             /\ \/ s.pc = "idle"
                \/ s.run \in {cln[q].run} \cup cln[q].seen /\ s.seen \subseteq cln[q].seen
    <3>1. CASE ReadLease(q) \/ CleanerDies(q)
      BY <3>1, ReadForm, CleanerForms
    <3>2. CASE BeginCleanup(q)
      BY <3>2, BeginForm, CleanerForms
    <3>3. CASE MarkRunning(q)
      BY <3>3, MarkForm, CleanerForms
    <3>4. CASE RemoveResource(q)
      BY <3>4, RemoveForm, CleanerForms
    <3>5. CASE RecordResource(q)
      BY <3>5, RecordForm, CleanerForms
    <3>6. CASE Finish(q)
      BY <3>6, FinishForm, CleanerForms
    <3>7. CASE ReportCleanup(q)
      BY <3>7, ReportForm, CleanerForms
    <3> QED
      BY <1>6, <3>1, <3>2, <3>3, <3>4, <3>5, <3>6, <3>7
  <2> QED
    BY <1>2, <1>3, <2>1 DEF GoesOn
<1>7. CASE UNCHANGED fixtureVars
  BY <1>1, <1>7 DEF fixtureVars
<1> QED
  BY <1>1, <1>4, <1>5, <1>6, <1>7 DEF FixtureNext

(***************************************************************************)
(* Which steps may release a row or a lease, or record a cleanup.          *)
(***************************************************************************)
LEMMA ReleasingRow ==
    ASSUME Typed, [FixtureNext]_fixtureVars, NEW r \in Runs, NEW x \in Resources,
           rows'[r][x] = "released", rows[r][x] # "released"
    PROVE  \E p \in Cleaners :
             /\ cln[p].pc = "record" /\ cln[p].run = r /\ Current(p) = x
             /\ x \notin cln[p].leaked /\ UNCHANGED real
<1>0. rows \in [Runs -> [Resources -> RowStates]] /\ rows' # rows
  BY DEF Typed, FixtureTypeOK, RowStates
<1>1. ASSUME NEW q \in Runs, Acquire(q) PROVE FALSE
  BY <1>0, <1>1 DEF Acquire
<1>2. ASSUME NEW q \in Runs, MarkActive(q) PROVE FALSE
  <2>1. PICK y : rows' = [rows EXCEPT ![q][y] = "active"] \/ UNCHANGED rows
    BY <1>2 DEF MarkActive
  <2> QED
    BY <1>0, <2>1
<1>3. ~ \E p \in Cleaners : \/ StartReaping(p) \/ (\E q \in Runs : StartCleanup(p, q))
                            \/ ReadLease(p) \/ BeginCleanup(p) \/ MarkRunning(p)
                            \/ RemoveResource(p) \/ Finish(p) \/ ReportCleanup(p) \/ CleanerDies(p)
  BY <1>0, StartForm, ReadForm, BeginForm, MarkForm, RemoveForm, FinishForm, ReportForm
<1>4. ~ UNCHANGED fixtureVars
  BY <1>0 DEF fixtureVars
<1>5. ~ \E q \in Runs : EndRun(q) \/ Ensure(q) \/ ProvisionDies(q)
  BY <1>0 DEF EndRun, Ensure, ProvisionDies
<1>6. PICK p \in Cleaners : RecordResource(p)
  BY <1>1, <1>2, <1>3, <1>4, <1>5 DEF FixtureNext
<1>7. /\ cln[p].pc = "record" /\ UNCHANGED real
      /\ \E to \in {"leaked", "released"} :
            /\ to = "released" => Current(p) \notin cln[p].leaked
            /\ rows' = [rows EXCEPT ![cln[p].run][Current(p)] = to]
  BY <1>0, <1>6, RecordForm
<1>8. cln[p].run = r /\ Current(p) = x /\ x \notin cln[p].leaked
  BY <1>0, <1>7
<1> QED
  BY <1>7, <1>8

LEMMA BehindStep ==
    ASSUME ~ LateProvision, Typed, Behind, [FixtureNext]_fixtureVars
    PROVE  Behind'
<1>0. Typed' /\ \A r \in Runs : Settles(r) => Settles(r)'
  BY SettledStep, TypedStep
<1>1. ASSUME NEW p \in Cleaners, cln'[p].pc # "idle"
      PROVE  \A r \in {cln'[p].run} \cup cln'[p].seen : r \in Runs /\ Settles(r)'
  <2>1. cln'[p].run \in Runs /\ cln'[p].seen \in SUBSET Runs
    BY <1>0, <1>1, CleanerForms DEF Typed, Working, Records
  <2>2. CASE GoesOn(p)
    BY <1>0, <2>1, <2>2 DEF GoesOn, Behind
  <2>3. CASE JustStarted(p)
    <3>1. \A r \in {cln'[p].run} \cup cln'[p].seen : Settles(r)
      BY <2>3 DEF JustStarted, Settled, Settles
    <3> QED
      BY <1>0, <2>1, <3>1
  <2> QED
    BY <1>1, <2>2, <2>3, CleanerTrail
<1>2. ASSUME NEW r \in Runs, NEW x \in Resources, rows'[r][x] = "released"
      PROVE  Settles(r)'
  <2>1. CASE rows[r][x] = "released"
    BY <1>0, <2>1 DEF Behind
  <2>2. CASE rows[r][x] # "released"
    <3>1. PICK p \in Cleaners : cln[p].pc = "record" /\ cln[p].run = r
      BY <1>2, <2>2, ReleasingRow
    <3>2. Settles(r)
      BY <3>1 DEF Behind
    <3> QED
      BY <1>0, <3>2
  <2> QED
    BY <2>1, <2>2
<1> QED
  BY <1>1, <1>2 DEF Behind, Settles

(***************************************************************************)
(* A cleaner is at record only after a remove, and at report only after a  *)
(* finish.                                                                 *)
(***************************************************************************)
LEMMA PointStep ==
    ASSUME Typed, [FixtureNext]_fixtureVars, NEW p \in Cleaners
    PROVE  \/ cln'[p] = cln[p]
           \/ cln'[p].pc \notin {"record", "report"}
           \/ cln'[p].pc = "record" /\ RemoveResource(p)
           \/ cln'[p].pc = "report" /\ Finish(p)
<1>0. cln \in [Cleaners -> Cleaner]
  BY DEF Typed
<1>2. ASSUME NEW q \in Cleaners, q # p, NEW s \in Cleaner, Moves(q, s)
      PROVE  cln'[p] = cln[p]
  BY <1>0, <1>2 DEF Moves
<1>3. ASSUME NEW s \in Cleaner, Moves(p, s)
      PROVE  cln'[p] = s
  BY <1>0, <1>3 DEF Moves
<1>4. CASE \E r \in Runs : EndRun(r) \/ Acquire(r) \/ Ensure(r) \/ MarkActive(r) \/ ProvisionDies(r)
  BY <1>4 DEF EndRun, Acquire, Ensure, MarkActive, ProvisionDies
<1>5. ASSUME NEW q \in Cleaners,
             \/ StartReaping(q) \/ (\E r \in Runs : StartCleanup(q, r))
             \/ ReadLease(q) \/ BeginCleanup(q) \/ MarkRunning(q)
             \/ RecordResource(q) \/ ReportCleanup(q) \/ CleanerDies(q)
      PROVE  cln'[p] = cln[p] \/ cln'[p].pc \notin {"record", "report"}
  <2>1. \E s \in Cleaner : Moves(q, s) /\ s.pc \notin {"record", "report"}
    <3>1. CASE StartReaping(q) \/ (\E r \in Runs : StartCleanup(q, r))
      BY <3>1, StartForm, CleanerForms
    <3>2. CASE ReadLease(q) \/ CleanerDies(q)
      BY <3>2, ReadForm
    <3>3. CASE BeginCleanup(q)
      BY <3>3, BeginForm, CleanerForms
    <3>4. CASE MarkRunning(q)
      BY <3>4, MarkForm
    <3>5. CASE RecordResource(q)
      BY <3>5, RecordForm, CleanerForms
    <3>6. CASE ReportCleanup(q)
      BY <3>6, ReportForm
    <3> QED
      BY <1>5, <3>1, <3>2, <3>3, <3>4, <3>5, <3>6
  <2> QED
    BY <1>2, <1>3, <2>1
<1>6. ASSUME NEW q \in Cleaners, RemoveResource(q)
      PROVE  \/ cln'[p] = cln[p]
             \/ cln'[p].pc = "record" /\ RemoveResource(p)
  BY <1>2, <1>3, <1>6, RemoveForm, CleanerForms
<1>7. ASSUME NEW q \in Cleaners, Finish(q)
      PROVE  \/ cln'[p] = cln[p] \/ cln'[p].pc = "idle"
             \/ cln'[p].pc = "report" /\ Finish(p)
  BY <1>2, <1>3, <1>7, FinishForm, CleanerForms
<1>8. CASE UNCHANGED fixtureVars
  BY <1>8 DEF fixtureVars
<1> QED
  BY <1>4, <1>5, <1>6, <1>7, <1>8 DEF FixtureNext

LEMMA ReleasingLease ==
    ASSUME Typed, [FixtureNext]_fixtureVars, NEW r \in Runs,
           lease'[r] # lease[r]
    PROVE  \/ lease'[r] \in {"active", "cleaning"}
           \/ \E p \in Cleaners :
                /\ Finish(p) /\ cln[p].run = r /\ lease'[r] = Verdict(p)
                /\ MayFinish(r, Verdict(p))
<1>0. lease \in [Runs -> Leases] /\ lease' # lease
  BY DEF Typed, FixtureTypeOK
<1>1. ASSUME NEW q \in Runs, Acquire(q) PROVE lease'[r] = "active"
  BY <1>0, <1>1 DEF Acquire
<1>2. ASSUME NEW p \in Cleaners, BeginCleanup(p) PROVE lease'[r] = "cleaning"
  BY <1>0, <1>2, BeginForm
<1>3. ASSUME NEW p \in Cleaners, Finish(p)
      PROVE  cln[p].run = r /\ lease'[r] = Verdict(p) /\ MayFinish(r, Verdict(p))
  BY <1>0, <1>3, FinishForm
<1>4. ~ \E p \in Cleaners : \/ StartReaping(p) \/ (\E q \in Runs : StartCleanup(p, q))
                            \/ ReadLease(p) \/ MarkRunning(p) \/ RecordResource(p)
                            \/ RemoveResource(p) \/ ReportCleanup(p) \/ CleanerDies(p)
  BY <1>0, StartForm, ReadForm, MarkForm, RemoveForm, RecordForm, ReportForm
<1>5. ~ UNCHANGED fixtureVars
  BY <1>0 DEF fixtureVars
<1>6. ~ \E q \in Runs : EndRun(q) \/ Ensure(q) \/ MarkActive(q) \/ ProvisionDies(q)
  BY <1>0 DEF EndRun, Ensure, MarkActive, ProvisionDies
<1> QED
  BY <1>1, <1>2, <1>3, <1>4, <1>5, <1>6 DEF FixtureNext

\* The report of cleaner p on run r.
Reporting(p, r) ==
    /\ cln[p].pc = "report" /\ cln[p].run = r
    /\ runs'[r].cleanup = "succeeded" => cln[p].leaked = {}

LEMMA LedgerStep ==
    ASSUME Typed, [FixtureNext]_fixtureVars, NEW r \in Runs, runs[r].state # "none"
    PROVE  /\ \/ runs'[r].cleanup = "succeeded" => runs[r].cleanup = "succeeded"
              \/ \E p \in Cleaners : Reporting(p, r)
           /\ runs'[r].state # "none"
           /\ runs[r].state = "cleanup-failed" => runs'[r].state = "cleanup-failed"
<1>0. runs \in [Runs -> Run] /\ runs[r] \in Run
  BY DEF Typed, FixtureTypeOK, RunsTypeOK
<1>1. CASE UNCHANGED runs
  BY <1>1
<1>2. ASSUME NEW q \in Runs, EndRun(q)
      PROVE  /\ runs'[r].cleanup = "succeeded" => runs[r].cleanup = "succeeded"
             /\ runs'[r].state # "none"
             /\ runs[r].state = "cleanup-failed" => runs'[r].state = "cleanup-failed"
  <2>1. PICK to \in {"failed", "timed-out"} :
           CanTransition(runs[q], to) /\ SetRun(q, Moved(runs[q], to))
    BY <1>2 DEF EndRun
  <2>2. CASE q = r
    <3>1. runs'[r] = Moved(runs[r], to)
      BY <1>0, <2>1, <2>2 DEF SetRun
    <3> QED
      BY <1>0, <2>1, <2>2, <3>1, RowWrites
  <2>3. CASE q # r
    BY <1>0, <2>1, <2>3 DEF SetRun
  <2> QED
    BY <2>2, <2>3
<1>3. ASSUME NEW p \in Cleaners, MarkRunning(p)
      PROVE  /\ runs'[r].cleanup = "succeeded" => runs[r].cleanup = "succeeded"
             /\ runs'[r].state = runs[r].state
  <2>1. CASE SetRun(cln[p].run, CleanedUp(runs[cln[p].run], "running")) /\ cln[p].run = r
    <3>1. runs'[r] = CleanedUp(runs[r], "running")
      BY <1>0, <2>1 DEF SetRun
    <3> QED
      BY <1>0, <3>1, RowWrites
  <2>2. CASE SetRun(cln[p].run, CleanedUp(runs[cln[p].run], "running")) /\ cln[p].run # r
    BY <1>0, <2>2 DEF SetRun
  <2> QED
    BY <1>3, <2>1, <2>2, MarkForm
<1>4. ASSUME NEW p \in Cleaners, ReportCleanup(p)
      PROVE  /\ \/ runs'[r] = runs[r] \/ Reporting(p, r)
             /\ runs'[r].state # "none"
             /\ runs[r].state = "cleanup-failed" => runs'[r].state = "cleanup-failed"
  <2>1. PICK to \in {"succeeded", "failed"} :
           /\ cln[p].leaked = {} <=> to = "succeeded"
           /\ UNCHANGED runs \/ SetRun(cln[p].run, CleanedUp(runs[cln[p].run], to))
    BY <1>4, ReportForm
  <2>2. CASE runs' # runs /\ cln[p].run = r
    <3>1. runs'[r] = CleanedUp(runs[r], to)
      BY <1>0, <2>1, <2>2 DEF SetRun
    <3>2. cln[p].pc = "report"
      BY <1>4, ReportForm
    <3>3. /\ CleanedUp(runs[r], to).cleanup = to
          /\ CleanedUp(runs[r], to).state \in {runs[r].state, "cleanup-failed"}
      BY <1>0, <2>1, RowWrites
    <3> QED
      BY <2>1, <2>2, <3>1, <3>2, <3>3 DEF Reporting
  <2>3. CASE runs' = runs \/ cln[p].run # r
    <3>1. runs'[r] = runs[r]
      BY <1>0, <2>1, <2>3 DEF SetRun
    <3> QED
      BY <3>1
  <2> QED
    BY <2>2, <2>3
<1>5. CASE \E q \in Runs : Acquire(q) \/ Ensure(q) \/ MarkActive(q) \/ ProvisionDies(q)
  BY <1>1, <1>5 DEF Acquire, Ensure, MarkActive, ProvisionDies
<1>6. CASE \E p \in Cleaners : \/ StartReaping(p) \/ (\E q \in Runs : StartCleanup(p, q))
                               \/ ReadLease(p) \/ BeginCleanup(p) \/ RemoveResource(p)
                               \/ RecordResource(p) \/ Finish(p) \/ CleanerDies(p)
  BY <1>1, <1>6, StartForm, ReadForm, BeginForm, RemoveForm, RecordForm, FinishForm
<1>7. CASE UNCHANGED fixtureVars
  BY <1>1, <1>7 DEF fixtureVars
<1> QED
  BY <1>2, <1>3, <1>4, <1>5, <1>6, <1>7 DEF FixtureNext

LEMMA ReleasedKept ==
    ASSUME ~ LateProvision, CleanInv, Shown, [FixtureNext]_fixtureVars
    PROVE  Released'
<1>0. /\ Typed' /\ Behind' /\ Typed /\ Behind /\ Released
      /\ \A r \in Runs : runs[r].state # "none"
  BY BehindStep, TypedStep DEF CleanInv, Shown
<1>1. ASSUME NEW r \in Runs, NEW x \in Resources, rows'[r][x] = "released"
      PROVE  x \notin real'[r]
  <2>1. CASE rows[r][x] = "released"
    <3>1. Settles(r) /\ x \notin real[r]
      BY <1>0, <2>1 DEF Behind, Released
    <3> QED
      BY <1>0, <3>1, SettledStep
  <2>2. CASE rows[r][x] # "released"
    BY <1>0, <1>1, <2>2, ReleasingRow DEF Released, At
  <2> QED
    BY <2>1, <2>2
<1>2. ASSUME NEW r \in Runs, lease'[r] = "released"
      PROVE  \A x \in Resources : rows'[r][x] = "released"
  <2>1. \A x \in Resources : rows[r][x] = "released"
    <3>1. CASE lease[r] = "released"
      BY <1>0, <3>1 DEF Released
    <3>2. CASE lease[r] # "released"
      BY <1>0, <1>2, <3>2, ReleasingLease DEF MayFinish
    <3> QED
      BY <3>1, <3>2
  <2> QED
    BY <1>0, <2>1, ReleasedStep
<1>3. ASSUME NEW r \in Runs, runs'[r].cleanup = "succeeded"
      PROVE  lease'[r] = "released"
  <2>1. lease[r] = "released"
    BY <1>0, <1>3, LedgerStep DEF Released, Reporting, At
  <2> QED
    BY <1>0, <2>1, ReleasedStep
<1>4. ASSUME NEW p \in Cleaners, cln'[p].pc = "record", Current(p)' \notin cln'[p].leaked
      PROVE  Current(p)' \notin real'[cln'[p].run]
  <2>1. CASE cln'[p] = cln[p]
    <3>1. Current(p)' = Current(p)
      BY <2>1 DEF Current
    <3>2. cln[p].run \in Runs /\ Settles(cln[p].run)
      BY <1>0, <1>4, <2>1, CleanerForms DEF Behind, Typed, Working, Records
    <3>3. Current(p) \notin real[cln[p].run]
      BY <1>0, <1>4, <2>1, <3>1 DEF Released, At
    <3> QED
      BY <1>0, <2>1, <3>1, <3>2, <3>3, SettledStep
  <2>2. CASE RemoveResource(p)
    <3>1. PICK left \in SUBSET real[cln[p].run], s \in Working :
             /\ real' = [real EXCEPT ![cln[p].run] = left]
             /\ Moves(p, s)
             /\ s.run = cln[p].run /\ s.todo = cln[p].todo
             /\ Current(p) \notin s.leaked => Current(p) \notin left
      BY <1>0, <2>2, RemoveForm
    <3>2. cln'[p] = s /\ cln[p].run \in Runs /\ real'[cln[p].run] = left
      BY <1>0, <2>2, <3>1, RemoveForm DEF Moves, Typed, FixtureTypeOK
    <3>3. Current(p)' = Current(p)
      BY <3>1, <3>2 DEF Current
    <3> QED
      BY <1>4, <3>1, <3>2, <3>3
  <2> QED
    BY <1>0, <1>4, <2>1, <2>2, PointStep
<1>5. ASSUME NEW p \in Cleaners, cln'[p].pc = "report", cln'[p].leaked = {}
      PROVE  lease'[cln'[p].run] = "released"
  <2>1. CASE cln'[p] = cln[p]
    <3>1. cln[p].run \in Runs
      BY <1>0, <1>5, <2>1, CleanerForms DEF Typed, Working, Records
    <3>2. lease[cln[p].run] = "released"
      BY <1>0, <1>5, <2>1 DEF Released, At
    <3> QED
      BY <1>0, <2>1, <3>1, <3>2, ReleasedStep
  <2>2. CASE Finish(p)
    <3>0. cln \in [Cleaners -> Cleaner] /\ lease \in [Runs -> Leases] /\ cln[p].run \in Runs
      BY <1>0, <2>2, FinishForm DEF Typed, FixtureTypeOK
    <3>1. CASE Moves(p, IdleCleaner)
      BY <1>5, <3>0, <3>1, CleanerForms DEF Moves
    <3>2. CASE ~ Moves(p, IdleCleaner)
      <4>1. PICK s \in Working : Moves(p, s) /\ s.run = cln[p].run /\ s.leaked = cln[p].leaked
        BY <1>0, <2>2, <3>2, FinishForm
      <4>2. lease' = [lease EXCEPT ![cln[p].run] = Verdict(p)]
        BY <1>0, <2>2, <3>2, FinishForm
      <4>3. cln'[p] = s
        BY <3>0, <4>1 DEF Moves
      <4> QED
        BY <1>5, <3>0, <4>1, <4>2, <4>3 DEF Verdict
    <3> QED
      BY <3>1, <3>2
  <2> QED
    BY <1>0, <1>5, <2>1, <2>2, PointStep
<1> QED
  BY <1>1, <1>2, <1>3, <1>4, <1>5 DEF Released, At
-----------------------------------------------------------------------------
(***************************************************************************)
(* Nothing but a report or a crash takes a cleaner from its report.        *)
(***************************************************************************)
LEMMA LeavesReport ==
    ASSUME Typed, [FixtureNext]_fixtureVars, NEW p \in Cleaners, cln[p].pc = "report",
           cln'[p] # cln[p]
    PROVE  ReportCleanup(p) \/ crashes' # 0
<1>0. cln \in [Cleaners -> Cleaner] /\ cln' # cln
  BY DEF Typed
<1>2. ASSUME NEW q \in Cleaners, q # p, NEW s \in Cleaner, Moves(q, s)
      PROVE  FALSE
  BY <1>0, <1>2 DEF Moves
<1>4. ~ \E r \in Runs : EndRun(r) \/ Acquire(r) \/ Ensure(r) \/ MarkActive(r) \/ ProvisionDies(r)
  BY <1>0 DEF EndRun, Acquire, Ensure, MarkActive, ProvisionDies
<1>5. ASSUME NEW q \in Cleaners,
             \/ StartReaping(q) \/ (\E r \in Runs : StartCleanup(q, r))
             \/ ReadLease(q) \/ BeginCleanup(q) \/ MarkRunning(q) \/ RemoveResource(q)
             \/ RecordResource(q) \/ Finish(q) \/ ReportCleanup(q) \/ CleanerDies(q)
      PROVE  ReportCleanup(p) \/ crashes' # 0
  <2>1. CASE StartReaping(q) \/ (\E r \in Runs : StartCleanup(q, r))
    BY <1>2, <2>1, StartForm, CleanerForms
  <2>2. CASE ReadLease(q) \/ CleanerDies(q)
    BY <1>2, <2>2, ReadForm
  <2>3. CASE BeginCleanup(q)
    BY <1>2, <2>3, BeginForm, CleanerForms
  <2>4. CASE MarkRunning(q)
    BY <1>2, <2>4, MarkForm
  <2>5. CASE RemoveResource(q)
    BY <1>2, <2>5, RemoveForm, CleanerForms
  <2>6. CASE RecordResource(q)
    BY <1>2, <2>6, RecordForm, CleanerForms
  <2>7. CASE Finish(q)
    BY <1>2, <2>7, FinishForm, CleanerForms
  <2>8. CASE ReportCleanup(q)
    BY <1>2, <2>8, ReportForm
  <2> QED
    BY <1>5, <2>1, <2>2, <2>3, <2>4, <2>5, <2>6, <2>7, <2>8
<1>6. ~ UNCHANGED fixtureVars
  BY <1>0 DEF fixtureVars
<1> QED
  BY <1>4, <1>5, <1>6 DEF FixtureNext

LEMMA CrashesGrow ==
    ASSUME Typed, [FixtureNext]_fixtureVars, crashes' = 0
    PROVE  crashes = 0
<1>1. crashes \in Nat
  BY FixtureCrashesAssumption DEF Typed, FixtureTypeOK
<1>2. UNCHANGED crashes \/ crashes' = crashes + 1
  BY DEF FixtureNext, fixtureVars, EndRun, Acquire, Ensure, MarkActive, ProvisionDies,
         StartReaping, StartCleanup, ReadLease, BeginCleanup, MarkRunning, RemoveResource,
         RecordResource, Finish, ReportCleanup, CleanerDies
<1> QED
  BY <1>1, <1>2

LEMMA ShownStep == Typed /\ Shown /\ [FixtureNext]_fixtureVars => Shown'
<1> SUFFICES ASSUME Typed, Shown, [FixtureNext]_fixtureVars PROVE Shown'
  OBVIOUS
<1>0. /\ \A r \in Runs : runs[r].state # "none"
      /\ Typed' /\ runs \in [Runs -> Run] /\ cln \in [Cleaners -> Cleaner]
  BY TypedStep DEF Shown, Typed, FixtureTypeOK, RunsTypeOK
<1>1. \A r \in Runs : runs'[r].state # "none"
  BY <1>0, LedgerStep
<1>2. ASSUME crashes' = 0, NEW r \in Runs, lease'[r] = "leaked"
      PROVE  runs'[r].state = "cleanup-failed" \/ \E p \in Cleaners : Reports(p, r)'
  <2>1. CASE lease[r] = "leaked"
    <3>1. CASE runs[r].state = "cleanup-failed"
      BY <1>0, <3>1, LedgerStep
    <3>2. ASSUME NEW p \in Cleaners, Reports(p, r)
          PROVE  runs'[r].state = "cleanup-failed" \/ Reports(p, r)'
      <4>1. CASE cln'[p] = cln[p]
        BY <3>2, <4>1 DEF Reports, At
      <4>2. CASE ReportCleanup(p)
        <5>1. cln[p].run = r /\ cln[p].leaked # {}
          BY <3>2 DEF Reports
        <5>2. CanClean(runs[r], "failed")
          BY <1>0, RowWrites
        <5>3. SetRun(r, CleanedUp(runs[r], "failed"))
          BY <4>2, <5>1, <5>2, ReportForm
        <5>4. runs'[r] = CleanedUp(runs[r], "failed")
          BY <1>0, <5>3 DEF SetRun
        <5> QED
          BY <1>0, <5>4, RowWrites
      <4> QED
        BY <1>2, <3>2, <4>1, <4>2, LeavesReport DEF Reports, At
    <3> QED
      BY <1>2, <2>1, <3>1, <3>2, CrashesGrow DEF Shown
  <2>2. CASE lease[r] # "leaked"
    <3>1. PICK p \in Cleaners : Finish(p) /\ cln[p].run = r /\ Verdict(p) = "leaked"
      BY <1>2, <2>2, ReleasingLease
    <3>2. cln[p].leaked # {} /\ lease' # lease
      BY <1>2, <2>2, <3>1 DEF Verdict
    <3>3. PICK s \in Working : /\ Moves(p, s) /\ s.pc = "report"
                               /\ s.run = cln[p].run /\ s.leaked = cln[p].leaked
      BY <3>1, <3>2, FinishForm
    <3>4. cln'[p] = s
      BY <1>0, <3>3 DEF Moves
    <3> QED
      BY <3>1, <3>2, <3>3, <3>4 DEF Reports, At
  <2> QED
    BY <2>1, <2>2
<1> QED
  BY <1>1, <1>2 DEF Shown

LEMMA ShownInit == FixtureInit => Shown
  BY DEF FixtureInit, Shown, NoRun

(***************************************************************************)
(* A leak is shown once no cleanup of the run is under way, for any number *)
(* of overlapping cleanups: each of them that finds a leak can always      *)
(* report it, and no later write hides cleanup-failed.                     *)
(***************************************************************************)
THEOREM FixturesLeakShown == FixtureSpec => []LeakShown
<1>1. Typed /\ Shown => LeakShown
  <2> SUFFICES ASSUME Shown, NEW r \in Runs, lease[r] = "leaked", ~ Busy(r), crashes = 0
               PROVE  runs[r].state = "cleanup-failed"
    BY DEF LeakShown
  <2>1. \A p \in Cleaners : ~ Reports(p, r)
    BY DEF Busy, Reports, At
  <2> QED
    BY <2>1 DEF Shown
<1> QED
  BY <1>1, TypedInit, TypedStep, ShownInit, ShownStep, PTL DEF FixtureSpec

(***************************************************************************)
(* A lease that says released and a cleanup that says succeeded are true,  *)
(* for any number of overlapping cleanups and of crashes, as long as no    *)
(* provision of a run overlaps or follows its cleanup.                     *)
(***************************************************************************)
THEOREM FixturesClean ==
    ASSUME ~ LateProvision
    PROVE  FixtureSpec => []CleanMeansGone
<1>1. FixtureInit => CleanInv
  <2>1. FixtureInit => Behind /\ Released
    BY CleanerForms DEF FixtureInit, Behind, Released, At, NoRun
  <2> QED
    BY <2>1, TypedInit DEF CleanInv
<1>2. CleanInv /\ Shown /\ [FixtureNext]_fixtureVars => CleanInv'
  BY TypedStep, BehindStep, ReleasedKept DEF CleanInv
<1>3. CleanInv => CleanMeansGone
  <2> SUFFICES ASSUME CleanInv, NEW r \in Runs,
                      lease[r] = "released" \/ runs[r].cleanup = "succeeded"
               PROVE  real[r] = {}
    BY DEF CleanMeansGone
  <2>1. \A x \in Resources : x \notin real[r]
    BY DEF CleanInv, Released
  <2>2. real[r] \subseteq Resources
    BY DEF CleanInv, Typed, FixtureTypeOK
  <2> QED
    BY <2>1, <2>2
<1>4. CleanInv => Typed
  BY DEF CleanInv
<1> QED
  BY <1>1, <1>2, <1>3, <1>4, ShownInit, ShownStep, PTL DEF FixtureSpec
=============================================================================
