------------------------------ MODULE Fixtures ------------------------------
(***************************************************************************)
(* Acceptance fixtures: AcceptanceFixtureCoordinator                       *)
(* (libs/system-test-runner/src/acceptance-fixtures.ts) leases a set of    *)
(* resources to a run, creates them through a driver, and removes them     *)
(* again, from the run's own cleanup or from the reaper.                   *)
(*                                                                         *)
(* The lease rows say what the store believes; real says which resources   *)
(* exist.  The driver is external: remove may throw or leave the resource  *)
(* behind.  Any number of cleanups of one run may overlap.                 *)
(***************************************************************************)
EXTENDS RunStore

CONSTANTS
    NumResources,   \* resources of a plan, numbered by cleanupOrder
    Cleaners,       \* callers of cleanup and of reapExpired
    MaxCrashes,     \* bound on crashes
    LateProvision   \* whether provision may run beside or after a cleanup of its run

ASSUME NumResourcesAssumption == NumResources \in Nat \ {0}
ASSUME FixtureCrashesAssumption == MaxCrashes \in Nat
ASSUME LateProvisionAssumption == LateProvision \in BOOLEAN

VARIABLES
    lease,     \* system_test_fixture_lease.status, "none" for an absent row
    rows,      \* system_test_fixture_resource.status, "none" for an absent row
    real,      \* the resources that exist
    prov,      \* per run: the next step of provision, 0 when it is not running
    cln,       \* per cleaner: where its cleanup is
    crashes

fixtureVars == <<runs, lease, rows, real, prov, cln, crashes>>

Resources == 1..NumResources

Leases == {"none", "active", "cleaning", "leaked", "released"}

IdleCleaner == [pc |-> "idle"]

\* todo: the resources the cleanup read as not released; seen: the reaper's list.
CleanerStates ==
    {IdleCleaner}
    \cup [pc : {"read", "begin", "mark", "remove", "record", "finish", "report"}, run : Runs,
          todo : SUBSET Resources, leaked : SUBSET Resources, seen : SUBSET Runs]

At(p, pc) == cln[p].pc = pc

Busy(r) == \E p \in Cleaners : cln[p].pc # "idle" /\ cln[p].run = r

FixtureInit ==
    /\ runs = [r \in Runs |-> [NoRun EXCEPT !.state = "provisioning"]]
    /\ lease = [r \in Runs |-> "none"]
    /\ rows = [r \in Runs |-> [x \in Resources |-> "none"]]
    /\ real = [r \in Runs |-> {}]
    /\ prov = [r \in Runs |-> 0]
    /\ cln = [p \in Cleaners |-> IdleCleaner]
    /\ crashes = 0

-----------------------------------------------------------------------------
\* The worker ends the run, whatever its fixtures are doing; every outcome but timed-out
\* leaves the cleanup row alone, and failed stands for them.
EndRun(r) ==
    /\ \E to \in {"failed", "timed-out"} :
         CanTransition(runs[r], to) /\ SetRun(r, Moved(runs[r], to))
    /\ UNCHANGED <<lease, rows, real, prov, cln, crashes>>

\* acquireFixtureLease: rows that exist are left as they are.
Acquire(r) ==
    /\ prov[r] = 0
    /\ LateProvision \/ lease[r] = "none"
    /\ lease' = [lease EXCEPT ![r] = IF @ = "none" THEN "active" ELSE @]
    /\ rows' = [rows EXCEPT ![r] = [x \in Resources |-> IF @[x] = "none" THEN "leased" ELSE @[x]]]
    /\ prov' = [prov EXCEPT ![r] = 1]
    /\ UNCHANGED <<runs, real, cln, crashes>>

\* provision's loop: driver.ensure, then markFixtureResourceActive, by cleanup order.
Ensure(r) ==
    /\ prov[r] \in {2 * x - 1 : x \in Resources}
    /\ real' = [real EXCEPT ![r] = @ \cup {(prov[r] + 1) \div 2}]
    /\ prov' = [prov EXCEPT ![r] = @ + 1]
    /\ UNCHANGED <<runs, lease, rows, cln, crashes>>

NextStep(r) == IF prov[r] = 2 * NumResources THEN 0 ELSE prov[r] + 1

\* A resource that cleanup has touched cannot be activated: provision throws.
MarkActive(r) ==
    /\ prov[r] \in {2 * x : x \in Resources}
    /\ LET x == prov[r] \div 2
       IN  IF rows[r][x] \in {"leased", "active"}
           THEN /\ rows' = [rows EXCEPT ![r][x] = "active"]
                /\ prov' = [prov EXCEPT ![r] = NextStep(r)]
           ELSE /\ UNCHANGED rows
                /\ prov' = [prov EXCEPT ![r] = 0]
    /\ UNCHANGED <<runs, lease, real, cln, crashes>>

-----------------------------------------------------------------------------
Enter(p, r, seen) ==
    cln' = [cln EXCEPT ![p] = [pc |-> "read", run |-> r, todo |-> {}, leaked |-> {}, seen |-> seen]]

Settled(r) == LateProvision \/ prov[r] = 0

\* The run's own cleanup call.
StartCleanup(p, r) ==
    /\ At(p, "idle")
    /\ lease[r] # "none" /\ Settled(r)
    /\ Enter(p, r, {})
    /\ UNCHANGED <<runs, lease, rows, real, prov, crashes>>

\* listFixtureRunIdsForReaping: the leaked leases, and of the others not released those
\* whose expires_at has passed, which the model leaves open.  The leaked ones come first,
\* so that its LIMIT cuts some of them off only when it cuts off all the others.
ReapingLists ==
    LET leaked == {r \in Runs : lease[r] = "leaked"}
    IN  {list \in SUBSET {r \in Runs : lease[r] \notin {"none", "released"}} :
           leaked \subseteq list \/ list \subseteq leaked}

\* reapExpired reads its list once and cleans the runs one after the other.
StartReaping(p) ==
    /\ At(p, "idle")
    /\ \E list \in ReapingLists :
         /\ \A r \in list : Settled(r)
         /\ \E r \in list : Enter(p, r, list \ {r})
    /\ UNCHANGED <<runs, lease, rows, real, prov, crashes>>

\* On to the reaper's next run, or done; an exception ends the whole pass.
Leave(p) ==
    \/ cln[p].seen = {} /\ cln' = [cln EXCEPT ![p] = IdleCleaner]
    \/ \E r \in cln[p].seen : Enter(p, r, cln[p].seen \ {r})

Throw(p) == cln' = [cln EXCEPT ![p] = IdleCleaner]

Goto(p, pc) == cln' = [cln EXCEPT ![p].pc = pc]

\* getFixtureLease; a released lease needs no cleanup.
ReadLease(p) ==
    /\ At(p, "read")
    /\ IF lease[cln[p].run] = "released" THEN Leave(p) ELSE Goto(p, "begin")
    /\ UNCHANGED <<runs, lease, rows, real, prov, crashes>>

TodoAfterBegin(r) == {x \in Resources : rows[r][x] # "released"}

\* beginFixtureCleanup, and the resources it read back.
BeginCleanup(p) ==
    /\ At(p, "begin")
    /\ LET r == cln[p].run
       IN  /\ lease' = [lease EXCEPT ![r] = IF @ = "released" THEN @ ELSE "cleaning"]
           /\ cln' = [cln EXCEPT ![p].pc = "mark", ![p].todo = TodoAfterBegin(r)]
    /\ UNCHANGED <<runs, rows, real, prov, crashes>>

AfterMark(p) == IF cln[p].todo = {} THEN "finish" ELSE "remove"

\* recordCleanup('running').
MarkRunning(p) ==
    /\ At(p, "mark")
    /\ LET r == cln[p].run
       IN  IF CanClean(runs[r], "running")
           THEN SetRun(r, CleanedUp(runs[r], "running")) /\ Goto(p, AfterMark(p))
           ELSE UNCHANGED runs /\ Throw(p)
    /\ UNCHANGED <<lease, rows, real, prov, crashes>>

\* The loop runs from the highest cleanupOrder down.
Current(p) == CHOOSE x \in cln[p].todo : \A y \in cln[p].todo : y <= x

\* Faulty variant of Verified: a remove that did not throw is taken at its word.
TakenAtItsWord(x, left, threw) == ~ threw

\* remove did not throw, and exists no longer finds the resource.
Verified(x, left, threw) == ~ threw /\ x \notin left

\* driver.remove, which may throw, do nothing or both work and throw; then driver.exists.
RemoveResource(p) ==
    /\ At(p, "remove")
    /\ LET r == cln[p].run
           x == Current(p)
       IN  \E left \in {real[r], real[r] \ {x}}, threw \in BOOLEAN :
             /\ real' = [real EXCEPT ![r] = left]
             /\ IF Verified(x, left, threw)
                THEN Goto(p, "record")
                ELSE cln' = [cln EXCEPT ![p].pc = "record", ![p].leaked = @ \cup {x}]
    /\ UNCHANGED <<runs, lease, rows, prov, crashes>>

\* Faulty variant of MayLeak: a released resource is reported as leaked again.
LeakAnyway(r, x) == TRUE

MayLeak(r, x) == rows[r][x] # "released"

\* recordFixtureResourceCleanup; a released row refuses to become leaked.
RecordResource(p) ==
    /\ At(p, "record")
    /\ LET r == cln[p].run
           x == Current(p)
           to == IF x \in cln[p].leaked THEN "leaked" ELSE "released"
       IN  IF to = "released" \/ MayLeak(r, x)
           THEN /\ rows' = [rows EXCEPT ![r][x] = to]
                /\ cln' = [cln EXCEPT ![p].todo = @ \ {x},
                                      ![p].pc = IF cln[p].todo = {x} THEN "finish" ELSE "remove"]
           ELSE UNCHANGED rows /\ Throw(p)
    /\ UNCHANGED <<runs, lease, real, prov, crashes>>

\* finishFixtureCleanup's checks.
MayFinish(r, to) ==
    IF lease[r] = "released" THEN to = "released"
    ELSE \/ to = "released" /\ \A x \in Resources : rows[r][x] = "released"
         \/ to = "leaked" /\ \E x \in Resources : rows[r][x] = "leaked"

Verdict(p) == IF cln[p].leaked = {} THEN "released" ELSE "leaked"

Finish(p) ==
    /\ At(p, "finish")
    /\ LET r == cln[p].run
       IN  IF MayFinish(r, Verdict(p))
           THEN lease' = [lease EXCEPT ![r] = Verdict(p)] /\ Goto(p, "report")
           ELSE UNCHANGED lease /\ Throw(p)
    /\ UNCHANGED <<runs, rows, real, prov, crashes>>

\* recordCleanup('succeeded' or 'failed'), the last write of cleanup.
ReportCleanup(p) ==
    /\ At(p, "report")
    /\ LET r == cln[p].run
           to == IF cln[p].leaked = {} THEN "succeeded" ELSE "failed"
       IN  IF CanClean(runs[r], to)
           THEN SetRun(r, CleanedUp(runs[r], to)) /\ Leave(p)
           ELSE UNCHANGED runs /\ Throw(p)
    /\ UNCHANGED <<lease, rows, real, prov, crashes>>

\* The process of a cleaner, or of a provisioning run, dies.
CleanerDies(p) ==
    /\ crashes < MaxCrashes
    /\ ~ At(p, "idle")
    /\ Throw(p)
    /\ crashes' = crashes + 1
    /\ UNCHANGED <<runs, lease, rows, real, prov>>

ProvisionDies(r) ==
    /\ crashes < MaxCrashes
    /\ prov[r] # 0
    /\ prov' = [prov EXCEPT ![r] = 0]
    /\ crashes' = crashes + 1
    /\ UNCHANGED <<runs, lease, rows, real, cln>>

FixtureNext ==
    \/ \E r \in Runs : EndRun(r) \/ Acquire(r) \/ Ensure(r) \/ MarkActive(r)
                       \/ ProvisionDies(r)
    \/ \E p \in Cleaners, r \in Runs : StartCleanup(p, r)
    \/ \E p \in Cleaners :
         \/ StartReaping(p) \/ ReadLease(p) \/ BeginCleanup(p) \/ MarkRunning(p)
         \/ RemoveResource(p) \/ RecordResource(p) \/ Finish(p) \/ ReportCleanup(p) \/ CleanerDies(p)

FixtureSpec == FixtureInit /\ [][FixtureNext]_fixtureVars
-----------------------------------------------------------------------------
(***************************************************************************)
(* Type invariant.                                                         *)
(***************************************************************************)
FixtureTypeOK ==
    /\ RunsTypeOK
    /\ lease \in [Runs -> Leases]
    /\ rows \in [Runs -> [Resources -> {"none", "leased", "active", "leaked", "released"}]]
    /\ real \in [Runs -> SUBSET Resources]
    /\ prov \in [Runs -> 0..(2 * NumResources)]
    /\ cln \in [Cleaners -> CleanerStates]
    /\ crashes \in 0..MaxCrashes

(***************************************************************************)
(* A lease that says released, and a cleanup that says succeeded, are      *)
(* true: nothing of the run exists any more, whatever cleanups overlapped, *)
(* failed half-way or died, as long as no provision runs beside them.      *)
(***************************************************************************)
CleanMeansGone ==
    \A r \in Runs :
        lease[r] = "released" \/ runs[r].cleanup = "succeeded" => real[r] = {}

(***************************************************************************)
(* Leaked infrastructure is shown: once the cleanup that found a leak is   *)
(* over, the run is cleanup-failed (contract comment on                    *)
(* SYSTEM_TEST_RUN_STATES), unless a process died between its two writes.  *)
(***************************************************************************)
LeakShown ==
    \A r \in Runs : lease[r] = "leaked" /\ ~ Busy(r) /\ crashes = 0
                    => runs[r].state = "cleanup-failed"

(***************************************************************************)
(* A released resource stays released: a slower cleanup of the same run    *)
(* never marks it leaked again, and a released lease is never reopened.    *)
(***************************************************************************)
ReleaseIsFinal ==
    [][\A r \in Runs :
         /\ lease[r] = "released" => lease'[r] = "released"
         /\ \A x \in Resources : rows[r][x] = "released" => rows'[r][x] = "released"]_fixtureVars
=============================================================================
