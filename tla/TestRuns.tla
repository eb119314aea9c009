------------------------------ MODULE TestRuns ------------------------------
(***************************************************************************)
(* System-test runs end to end: SystemTestsService launches, cancels and   *)
(* retries runs; SystemTestQueueWorker                                     *)
(* (libs/system-test-runner/src/queue-worker.ts) claims one at a time and  *)
(* supervises an executor; the executor of the Actions suite               *)
(* (apps/api/src/system-tests/actions-suite-executor.ts) reports into the  *)
(* same store.                                                             *)
(*                                                                         *)
(* The worker and the executor are two actors: when the worker gives an    *)
(* executor up (timeout, cancellation, a failed heartbeat) it only signals *)
(* an abort, and the executor goes on writing through the reporter.        *)
(* The worker's own calls of the store may also throw: an error that       *)
(* runNext does not catch ends its pass, which the worker process logs     *)
(* before it polls on.                                                     *)
(***************************************************************************)
EXTENDS RunStore

CONSTANTS
    Workers,            \* worker processes
    Serves,             \* per worker: the runs whose suite, in their version, it has installed
    MaxConcurrentRuns,  \* SYSTEM_TEST_MAX_CONCURRENT_RUNS
    MaxAttempts,        \* SYSTEM_TEST_MAX_ATTEMPTS
    MaxFaults,          \* bound on worker crashes and on store errors that end a pass of runNext
    Disturbed           \* bound: the runs that operators cancel, recover or purge

ASSUME WorkersAssumption == Workers # {} /\ Serves \in [Workers -> SUBSET Runs]
ASSUME MaxConcurrentRunsAssumption == MaxConcurrentRuns \in Nat \ {0}
ASSUME MaxAttemptsAssumption == MaxAttempts \in Nat \ {0}
ASSUME MaxFaultsAssumption == MaxFaults \in Nat
ASSUME DisturbedAssumption == Disturbed \subseteq Runs

VARIABLES
    older,     \* pairs of runs in created_at order
    asking,    \* runs whose cancel request has read the run and not yet written
    wrk,       \* per worker: where runNext is, on which run, at which attempt
    exec,      \* per run: where its executor is, and in which worker process
    broken,    \* runs whose executor could not close its database pool
    faults     \* worker crashes and store errors that ended a pass, so far

vars == <<runs, older, asking, wrk, exec, broken, faults>>

Idle == [pc |-> "idle"]

\* runNext: reading the claimed run, supervising an attempt, re-reading, writing the outcome.
WorkerStates ==
    {Idle}
    \cup [pc : {"inspect", "reread"}, run : Runs]
    \cup [pc : {"supervise"}, run : Runs, attempt : 1..MaxAttempts]
    \cup [pc : {"write"}, run : Runs, to : {"cancelled", "blocked", "timed-out", "failed"}]

ExecPoints ==
    {"start", "block", "evidence", "begin", "case", "collect", "sweep", "clean",
     "close", "pass", "failing", "fail", "worse", "worst", "returned", "threw", "retry"}

NoExec == [pc |-> "none"]

ExecStates == {NoExec} \cup [pc : ExecPoints, by : Workers]

\* Points at which the executor's promise is still pending.
Working(r) == exec[r].pc \notin {"none", "returned", "threw", "retry"}

-----------------------------------------------------------------------------
Init ==
    /\ RunsInit
    /\ older = {}
    /\ asking = {}
    /\ wrk = [w \in Workers |-> Idle]
    /\ exec = [r \in Runs |-> NoExec]
    /\ broken = {}
    /\ faults = 0

(***************************************************************************)
(* SystemTestsService and the maintenance calls of the store.              *)
(***************************************************************************)
\* createRun; a key that launched a run before answers with that run.
Launch(r) ==
    /\ runs[r].state = "none"
    /\ SetRun(r, Launched)
    /\ older' = older \cup {<<q, r>> : q \in {p \in Runs : runs[p].state # "none"}}
    /\ UNCHANGED <<asking, wrk, exec, broken, faults>>

\* retry: a new run for a terminal one whose cleanup is not under way.
Retry(r, new) ==
    /\ runs[r].state \in Outcomes
    /\ runs[r].cleanup \notin {"pending", "running"}
    /\ Launch(new)

\* cancel reads the run first ...
CancelRead(r) ==
    /\ r \in Disturbed
    /\ runs[r].state \in Phases
    /\ r \notin asking
    /\ asking' = asking \cup {r}
    /\ UNCHANGED <<runs, older, wrk, exec, broken, faults>>

\* ... and requestCancellation writes whatever the run has become; a second request conflicts.
CancelWrite(r) ==
    /\ r \in asking
    /\ asking' = asking \ {r}
    /\ IF runs[r].state # "none" /\ runs[r].cancel = "none"
       THEN SetRun(r, [runs[r] EXCEPT !.cancel = "requested"])
       ELSE UNCHANGED runs
    /\ UNCHANGED <<older, wrk, exec, broken, faults>>

TimePasses(r) ==
    /\ r \in Disturbed
    /\ GoStale(r)
    /\ UNCHANGED <<older, asking, wrk, exec, broken, faults>>

Recover(found) ==
    /\ found \subseteq StaleRuns
    /\ RecoverStaleRuns(found)
    /\ UNCHANGED <<older, asking, wrk, exec, broken, faults>>

\* purgeExpired: results are kept for days, so nothing works on the run any more.
Purge(r) ==
    /\ r \in Disturbed
    /\ runs[r].state \in Outcomes
    /\ ~ Working(r)
    /\ r \notin asking
    /\ \A w \in Workers : wrk[w].pc # "idle" => wrk[w].run # r
    /\ SetRun(r, NoRun)
    /\ older' = {pair \in older : r \notin {pair[1], pair[2]}}
    /\ exec' = [exec EXCEPT ![r] = NoExec]
    /\ broken' = broken \ {r}
    /\ UNCHANGED <<asking, wrk, faults>>

-----------------------------------------------------------------------------
(***************************************************************************)
(* SystemTestQueueWorker.                                                  *)
(***************************************************************************)
Active == {r \in Runs : runs[r].state \in ActivePhases}

\* Faulty variant of HasSlot: a run that is cleaning up no longer counts.
HasSlotWhileCleaning ==
    Cardinality({r \in Active : runs[r].state # "cleaning"}) < MaxConcurrentRuns

\* Faulty variant of HasSlot: the run to be claimed is counted as well.
HasSlotToSpare == Cardinality(Active) + 1 < MaxConcurrentRuns

HasSlot == Cardinality(Active) < MaxConcurrentRuns

\* A cancel request about to write, or a recovery that found the run stale, may hold its row lock.
MayBeLocked(q) == q \in asking \/ runs[q].beat = "stale"

\* The claim skips a locked row instead of waiting for it.
OldestQueued(r) ==
    /\ runs[r].state = "queued"
    /\ \A q \in Runs : <<q, r>> \in older => runs[q].state # "queued" \/ MayBeLocked(q)

\* claimNextRun counts and claims under one advisory lock.
Claim(w) ==
    \E r \in Runs :
      /\ wrk[w].pc = "idle"
      /\ HasSlot
      /\ OldestQueued(r)
      /\ SetRun(r, Moved(runs[r], "provisioning"))
      /\ wrk' = [wrk EXCEPT ![w] = [pc |-> "inspect", run |-> r]]
      /\ UNCHANGED <<older, asking, exec, broken, faults>>

Supervise(w, r, attempt) ==
    /\ wrk' = [wrk EXCEPT ![w] = [pc |-> "supervise", run |-> r, attempt |-> attempt]]
    /\ exec' = [exec EXCEPT ![r] = [pc |-> "start", by |-> w]]

Decide(w, to) == wrk' = [wrk EXCEPT ![w] = [pc |-> "write", run |-> wrk[w].run, to |-> to]]

CancelPending(r) == runs[r].cancel = "requested"

\* runNext looks at the claimed run; a version or a suite it does not serve is blocked.
Inspect(w) ==
    /\ wrk[w].pc = "inspect"
    /\ LET r == wrk[w].run
       IN  \/ CancelPending(r) /\ Decide(w, "cancelled") /\ UNCHANGED exec
           \/ ~ CancelPending(r) /\ r \notin Serves[w] /\ Decide(w, "blocked") /\ UNCHANGED exec
           \/ ~ CancelPending(r) /\ r \in Serves[w] /\ Supervise(w, r, 1)
    /\ UNCHANGED <<runs, older, asking, broken, faults>>

\* The heartbeat interval: beat, re-read, give the attempt up when a cancellation is pending.
Heartbeat(w) ==
    /\ wrk[w].pc = "supervise"
    /\ SetRun(wrk[w].run, Beaten(runs[wrk[w].run]))
    /\ IF CancelPending(wrk[w].run) THEN Decide(w, "cancelled") ELSE UNCHANGED wrk
    /\ UNCHANGED <<older, asking, exec, broken, faults>>

\* A heartbeat that throws, or a process limit that is exceeded, fails the attempt.
HeartbeatFails(w) ==
    /\ wrk[w].pc = "supervise"
    /\ Decide(w, "failed")
    /\ UNCHANGED <<runs, older, asking, exec, broken, faults>>

TimeOut(w) ==
    /\ wrk[w].pc = "supervise"
    /\ Decide(w, "timed-out")
    /\ UNCHANGED <<runs, older, asking, exec, broken, faults>>

\* Faulty variant of MayRetry: one attempt too many.
MayRetryOnceMore(w) == wrk[w].attempt <= MaxAttempts

MayRetry(w) == wrk[w].attempt < MaxAttempts

\* The executor's promise settles first; only a retryable error starts another attempt.
ExecutorSettles(w) ==
    /\ wrk[w].pc = "supervise"
    /\ LET r == wrk[w].run
       IN  \/ /\ exec[r].pc = "returned"
              /\ wrk' = [wrk EXCEPT ![w] = [pc |-> "reread", run |-> r]]
              /\ UNCHANGED <<runs, exec>>
           \/ /\ exec[r].pc = "retry" /\ MayRetry(w)
              /\ SetRun(r, Beaten(runs[r]))
              /\ Supervise(w, r, wrk[w].attempt + 1)
           \/ /\ \/ exec[r].pc = "threw"
                 \/ exec[r].pc = "retry" /\ ~ MayRetry(w)
              /\ Decide(w, "failed")
              /\ UNCHANGED <<runs, exec>>
    /\ UNCHANGED <<older, asking, broken, faults>>

\* What runNext still has to write after the executor returned; {} for nothing.
RereadTo(r) ==
    CASE CancelPending(r) -> {"cancelled"}
      [] ~ CancelPending(r) /\ runs[r].state \in Phases -> {"failed"}
      [] OTHER -> {}

\* store.getRun after the executor returned; when it throws, the catch block fails the run.
Reread(w) ==
    /\ wrk[w].pc = "reread"
    /\ \/ Decide(w, "failed")
       \/ \E to \in RereadTo(wrk[w].run) : Decide(w, to)
       \/ RereadTo(wrk[w].run) = {} /\ wrk' = [wrk EXCEPT ![w] = Idle]
    /\ UNCHANGED <<runs, older, asking, exec, broken, faults>>

\* The closing write of runNext; one the store refuses ends the pass with an error.
WriteOutcome(w) ==
    /\ wrk[w].pc = "write"
    /\ LET r == wrk[w].run
       IN  IF CanTransition(runs[r], wrk[w].to)
           THEN SetRun(r, IF wrk[w].to = "cancelled" THEN Acknowledged(runs[r])
                                                     ELSE Moved(runs[r], wrk[w].to))
           ELSE UNCHANGED runs
    /\ wrk' = [wrk EXCEPT ![w] = Idle]
    /\ UNCHANGED <<older, asking, exec, broken, faults>>

\* A crash, or a store error, up to the bound on them.
Fault == faults < MaxFaults /\ faults' = faults + 1

\* A store error outside the try block, or in the catch block itself: at the closing write, or
\* at the heartbeat before another attempt.  The pass ends and nobody writes for it again.
PassFails(w) ==
    /\ Fault
    /\ \/ wrk[w].pc = "write"
       \/ wrk[w].pc = "supervise" /\ exec[wrk[w].run].pc = "retry" /\ MayRetry(w)
    /\ wrk' = [wrk EXCEPT ![w] = Idle]
    /\ UNCHANGED <<runs, older, asking, exec, broken>>

\* The worker process dies with every executor it hosts, and is started again.
Crash(w) ==
    /\ Fault
    /\ wrk[w].pc = "idle" => \E r \in Runs : Working(r) /\ exec[r].by = w
    /\ wrk' = [wrk EXCEPT ![w] = Idle]
    /\ exec' = [r \in Runs |-> IF exec[r].pc # "none" /\ exec[r].by = w THEN NoExec ELSE exec[r]]
    /\ UNCHANGED <<runs, older, asking, broken>>

-----------------------------------------------------------------------------
(***************************************************************************)
(* The executor of the Actions suite.  Each step is one report to the      *)
(* store; goto is where the executor continues.                            *)
(***************************************************************************)
Goto(r, pc) == exec' = [exec EXCEPT ![r].pc = pc]

\* One report: accepted and on to ok, or refused and on to otherwise.
Report(r, accepted, run, ok, otherwise) ==
    /\ IF accepted THEN SetRun(r, run) /\ Goto(r, ok) ELSE UNCHANGED runs /\ Goto(r, otherwise)
    /\ UNCHANGED <<older, asking, wrk, broken, faults>>

Advance(r, at, to, ok, otherwise) ==
    exec[r].pc = at /\ Report(r, CanTransition(runs[r], to), Moved(runs[r], to), ok, otherwise)

RecordCleanup(r, at, to, ok, otherwise) ==
    exec[r].pc = at /\ Report(r, CanClean(runs[r], to), CleanedUp(runs[r], to), ok, otherwise)

\* Configuration and health checks pass, fail, or (another suite's executor) ask for a retry.
ExecStart(r) ==
    /\ exec[r].pc = "start"
    /\ \E pc \in {"evidence", "block", "retry"} : Goto(r, pc)
    /\ UNCHANGED <<runs, older, asking, wrk, broken, faults>>

Unrecorded(r) == {c \in Cases : runs[r].cases[c] = "not-run"}

NextCase(r) == CHOOSE c \in Unrecorded(r) : \A d \in Unrecorded(r) : c <= d

\* blockSuite: every case is recorded as blocked, then the run.
ExecBlock(r) ==
    /\ exec[r].pc = "block"
    /\ IF Unrecorded(r) = {}
       THEN Report(r, CanTransition(runs[r], "blocked"), Moved(runs[r], "blocked"), "returned", "threw")
       ELSE Report(r, CanRecord(runs[r], NextCase(r)),
                      Recorded(runs[r], NextCase(r), "blocked"), "block", "threw")

\* setDeploymentEvidence and recordEnvironment; a second attempt's timestamps conflict.
ExecEvidence(r) ==
    /\ exec[r].pc = "evidence"
    /\ Report(r, ~ runs[r].evidence, [runs[r] EXCEPT !.evidence = TRUE, !.beat = "fresh"],
              "begin", "threw")

ExecBegin(r) == Advance(r, "begin", "running", "case", "threw")

\* Faulty variant of AfterCase: a failed case does not stop the suite.
CarryOn(r, status) == IF Cardinality(Unrecorded(r)) = 1 THEN "collect" ELSE "case"

\* runCase throws after it recorded a failure; the last case leads to the collection.
AfterCase(r, status) ==
    CASE status = "failed" -> "failing"
      [] status = "passed" /\ Cardinality(Unrecorded(r)) = 1 -> "collect"
      [] OTHER -> "case"

\* runCase: the next case passes, fails, or its result is refused.
ExecCase(r) ==
    /\ exec[r].pc = "case"
    /\ Unrecorded(r) # {}
    /\ \E status \in {"passed", "failed"} :
         Report(r, CanRecord(runs[r], NextCase(r)),
                Recorded(runs[r], NextCase(r), status), AfterCase(r, status), "failing")

ExecCollect(r) == Advance(r, "collect", "collecting", "sweep", "failing")
ExecSweep(r) == RecordCleanup(r, "sweep", "running", "clean", "failing")
ExecClean(r) == Advance(r, "clean", "cleaning", "close", "failing")
ExecClose(r) == RecordCleanup(r, "close", "succeeded", "pass", "failing")
ExecPass(r) == Advance(r, "pass", "passed", "returned", "failing")

\* The catch block: close, record a clean cleanup, record the failure ...
ExecFailing(r) == r \notin broken /\ RecordCleanup(r, "failing", "succeeded", "fail", "worse")
ExecFail(r) == Advance(r, "fail", "failed", "returned", "worse")

\* ... and, when any of that is refused, report that the cleanup failed.
ExecWorse(r) == RecordCleanup(r, "worse", "failed", "worst", "threw")
ExecWorst(r) == Advance(r, "worst", "cleanup-failed", "returned", "threw")

\* ownedPool.end() rejects, and rejects again when it is called once more.
CloseFails(r) ==
    /\ exec[r].pc \in {"close", "failing"}
    /\ broken' = broken \cup {r}
    /\ Goto(r, IF exec[r].pc = "close" THEN "failing" ELSE "worse")
    /\ UNCHANGED <<runs, older, asking, wrk, faults>>

Execute(r) ==
    \/ ExecStart(r) \/ ExecBlock(r) \/ ExecEvidence(r) \/ ExecBegin(r)
    \/ ExecCase(r)
    \/ ExecCollect(r) \/ ExecSweep(r) \/ ExecClean(r) \/ ExecClose(r) \/ ExecPass(r)
    \/ ExecFailing(r) \/ ExecFail(r) \/ ExecWorse(r) \/ ExecWorst(r) \/ CloseFails(r)

Work(w) ==
    \/ Claim(w) \/ Inspect(w) \/ Heartbeat(w) \/ HeartbeatFails(w) \/ TimeOut(w)
    \/ ExecutorSettles(w) \/ Reread(w) \/ WriteOutcome(w)

Next ==
    \/ \E r \in Runs : Launch(r) \/ CancelRead(r) \/ CancelWrite(r) \/ TimePasses(r) \/ Purge(r)
    \/ \E r, new \in Runs : Retry(r, new)
    \/ \E found \in SUBSET Runs : Recover(found)
    \/ \E w \in Workers : Work(w) \/ PassFails(w) \/ Crash(w)
    \/ \E r \in Runs : Execute(r)

Spec == Init /\ [][Next]_vars

(***************************************************************************)
(* A worker polls every second, its wall-clock timer fires, and each pass  *)
(* of runNext goes on to its end.  Nothing is assumed of executors.        *)
(***************************************************************************)
Fairness ==
    /\ WF_vars(\E w \in Workers : Claim(w))
    /\ \A w \in Workers : WF_vars(Inspect(w)) /\ WF_vars(TimeOut(w) \/ ExecutorSettles(w))
                          /\ WF_vars(Reread(w)) /\ WF_vars(WriteOutcome(w))

FairSpec == Spec /\ Fairness
-----------------------------------------------------------------------------
(***************************************************************************)
(* Type invariant.                                                         *)
(***************************************************************************)
TypeOK ==
    /\ RunsTypeOK
    /\ older \subseteq Runs \X Runs
    /\ asking \subseteq Runs
    /\ wrk \in [Workers -> WorkerStates]
    /\ exec \in [Runs -> ExecStates]
    /\ broken \subseteq Runs
    /\ faults \in 0..MaxFaults

(***************************************************************************)
(* The queue cap holds across worker processes, crashes, recoveries and    *)
(* executors that report after their worker gave them up: no more than     *)
(* maxConcurrentRuns runs are in an active phase.                          *)
(***************************************************************************)
CapRespected == Cardinality(Active) <= MaxConcurrentRuns

(***************************************************************************)
(* A run shown as passed passed: every case of the suite is recorded as    *)
(* passed, its environment evidence is there and its cleanup succeeded,    *)
(* however timeouts, cancellations and stale-run recovery interleaved.     *)
(***************************************************************************)
PassedMeansPassed ==
    \A r \in Runs : runs[r].state = "passed"
        => /\ \A c \in Cases : runs[r].cases[c] = "passed"
           /\ runs[r].evidence
           /\ runs[r].cleanup = "succeeded"

(***************************************************************************)
(* The results of a finished run are immutable: no executor that is still  *)
(* running after the run timed out, was cancelled or was recovered adds or *)
(* changes a case result, and the outcome itself only ever turns into      *)
(* cleanup-failed (until retention removes the run).                       *)
(***************************************************************************)
FinishedIsFinal ==
    [][\A r \in Runs :
         runs[r].state \in Outcomes /\ runs'[r].state # "none"
         => /\ runs'[r].cases = runs[r].cases
            /\ runs'[r].state \in {runs[r].state, "cleanup-failed"}]_vars

(***************************************************************************)
(* While no worker crashes and no store error ends a pass of runNext, a    *)
(* launched run does not wait in the queue for ever and does not stay in a *)
(* phase: every run ends, whatever its executor and its reports do.  (One  *)
(* such fault is enough to lose this: the run stays active and holds its   *)
(* slot, and recoverStaleRuns, which would end it, has no caller.)         *)
(***************************************************************************)
RunsEnd ==
    [](faults = 0) =>
        \A r \in Runs : runs[r].state \in Phases ~> runs[r].state \notin Phases
=============================================================================
