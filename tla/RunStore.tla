------------------------------ MODULE RunStore ------------------------------
(***************************************************************************)
(* The durable ledger of system-test runs:                                 *)
(* libs/system-test-runner/src/postgres-run-store.ts over the              *)
(* system_test_* tables of db/schema.sql.                                  *)
(*                                                                         *)
(* Every operation of the store is one transaction that starts by locking  *)
(* the run row, so it is atomic; one that meets an illegal transition      *)
(* throws and rolls back.  The operators here say what an operation makes  *)
(* of a run row (Moved, CleanedUp, ...) and when it is accepted; TestRuns  *)
(* and Fixtures turn them into actions.                                    *)
(***************************************************************************)
EXTENDS Naturals, FiniteSets

CONSTANTS
    Runs,       \* idempotency keys; the run a key launched has the same name
    NumCases    \* cases of the suite, in manifest order

ASSUME RunsAssumption == IsFiniteSet(Runs)
ASSUME NumCasesAssumption == NumCases \in Nat \ {0}

VARIABLE runs   \* system_test_run with its case, cleanup, cancellation and environment rows

Cases == 1..NumCases

Phases == {"queued", "provisioning", "running", "collecting", "cleaning"}

Outcomes == {"passed", "failed", "blocked", "cancelled", "timed-out", "cleanup-failed"}

\* The phases claimNextRun counts against the concurrency cap.
ActivePhases == {"provisioning", "running", "collecting", "cleaning"}

CleanupStates == {"not-started", "pending", "running", "succeeded", "failed"}

\* "none" is an absent row; beat tells whether heartbeat_at is before the cutoff.
Run == [state    : Phases \cup Outcomes \cup {"none"},
        cleanup  : CleanupStates,
        cancel   : {"none", "requested", "acknowledged"},
        beat     : {"fresh", "stale"},
        evidence : BOOLEAN,
        cases    : [Cases -> {"not-run", "passed", "failed", "blocked"}]]

NoRun == [state |-> "none", cleanup |-> "not-started", cancel |-> "none",
          beat |-> "fresh", evidence |-> FALSE, cases |-> [c \in Cases |-> "not-run"]]

\* Where a run may end from any phase but the last.
Endings == {"blocked", "cancelled", "timed-out", "cleanup-failed"}

TRANSITIONS(from) ==
    CASE from = "queued" -> Endings \cup {"provisioning"}
      [] from = "provisioning" -> Endings \cup {"running", "cleaning", "failed"}
      [] from = "running" -> Endings \cup {"collecting", "cleaning", "failed"}
      [] from = "collecting" -> Endings \cup {"cleaning", "failed"}
      [] from = "cleaning" -> Endings \cup {"passed", "failed"}
      [] from \in Outcomes \ {"cleanup-failed"} -> {"cleanup-failed"}
      [] OTHER -> {}

\* canTransitionSystemTestRun, for a row that exists.
CanTransition(run, to) ==
    run.state # "none" /\ (run.state = to \/ to \in TRANSITIONS(run.state))

\* What appendTransition makes of the cleanup row.
CleanupAfter(cleanup, to) ==
    CASE to = "timed-out" /\ cleanup # "failed" -> "pending"
      [] to = "cleanup-failed" -> "failed"
      [] OTHER -> cleanup

\* appendTransition of a legal transition.
Moved(run, to) ==
    IF run.state = to THEN run
    ELSE [run EXCEPT !.state = to, !.beat = "fresh",
                     !.cleanup = CleanupAfter(run.cleanup, to)]

\* recordCleanup's own table; the summary always differs between callers.
CanClean(run, to) ==
    /\ run.state # "none"
    /\ \/ run.cleanup = to
       \/ CASE run.cleanup = "not-started" -> to \in {"pending", "running", "succeeded", "failed"}
            [] run.cleanup = "pending" -> to \in {"running", "succeeded", "failed"}
            [] run.cleanup = "running" -> to \in {"succeeded", "failed"}
            [] run.cleanup = "succeeded" -> to = "failed"
            [] OTHER -> to = "running"

\* Faulty variant of CleanedUp: a failed cleanup leaves the outcome alone.
CleanedQuietly(run, to) == [run EXCEPT !.cleanup = to]

CleanedUp(run, to) ==
    LET written == [run EXCEPT !.cleanup = to]
    IN  IF to = "failed" THEN Moved(written, "cleanup-failed") ELSE written

\* Faulty variant of CanRecord: the terminal check is left out.
CanRecordLate(run, c) == run.state # "none" /\ run.cases[c] = "not-run"

\* recordCase: a result is written once, and never under a terminal run.
CanRecord(run, c) == run.state \in Phases /\ run.cases[c] = "not-run"

Recorded(run, c, status) == [run EXCEPT !.cases[c] = status]

\* heartbeat touches a run in a phase only.
Beaten(run) == IF run.state \in Phases THEN [run EXCEPT !.beat = "fresh"] ELSE run

Launched == [NoRun EXCEPT !.state = "queued"]

\* acknowledgeCancellation: both writes or, on an illegal transition, neither.
Acknowledged(run) == Moved([run EXCEPT !.cancel = "acknowledged"], "cancelled")

SetRun(r, run) == runs' = [runs EXCEPT ![r] = run]
-----------------------------------------------------------------------------
RunsInit == runs = [r \in Runs |-> NoRun]

\* The clock passes a run's heartbeat_at by the recovery cutoff.
GoStale(r) ==
    /\ runs[r].state \in Phases
    /\ runs[r].beat = "fresh"
    /\ SetRun(r, [runs[r] EXCEPT !.beat = "stale"])

StaleRuns == {r \in Runs : runs[r].state \in Phases /\ runs[r].beat = "stale"}

\* recoverStaleRuns: every stale run but the ones another transaction has locked.
RecoverStaleRuns(found) ==
    /\ found # {}
    /\ runs' = [r \in Runs |-> IF r \in found THEN Moved(runs[r], "timed-out") ELSE runs[r]]

(***************************************************************************)
(* Type invariant of the ledger.                                           *)
(***************************************************************************)
RunsTypeOK == runs \in [Runs -> Run]

(***************************************************************************)
(* A failed cleanup is never hidden behind an ordinary outcome: the run    *)
(* is shown as cleanup-failed whatever it was before (the contract's       *)
(* comment on SYSTEM_TEST_RUN_STATES).                                     *)
(***************************************************************************)
CleanupFailureShown ==
    \A r \in Runs : runs[r].cleanup = "failed" => runs[r].state = "cleanup-failed"
=============================================================================
